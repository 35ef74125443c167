----------------------------- MODULE CodexProcess -----------------------------
(***************************************************************************)
(* One call of the Codex provider (providers/codex_cli.py) and the three   *)
(* processes it runs one after another, each through AsyncProcessRunner    *)
(* (providers/process.py): a process group of its own, fed on its standard *)
(* input, read until its pipes are closed, terminated when it is too late  *)
(* or when the call is cancelled.                                          *)
(*                                                                         *)
(* Of a group there is its leader, the process that was started, and one   *)
(* descendant that may hold the pipes, ignore SIGTERM or have left the     *)
(* group. Python 3.14 is assumed: Process.wait returns when the leader has *)
(* exited, whoever still holds its pipes.                                  *)
(***************************************************************************)
EXTENDS Naturals

VARIABLES
    part,       \* what is run: the version, the login status, the request
    point,      \* where the call stands
    late,       \* this process has timed out
    cancelled,  \* how often the caller has cancelled the call
    ending,     \* _terminate_group: off, grace (SIGTERM sent), kill (SIGKILL sent)
    leader,     \* none, running, or how it has exited
    child,      \* the descendant: none, in the group, away from it, or gone
    pipes,      \* the descendant holds the pipes
    answer      \* the status of the AgentResult

processVars == <<part, point, late, cancelled, ending, leader, child, pipes, answer>>
group == <<leader, child, pipes>>

Part == {"version", "login", "exec"}
Exit == {"ok", "unusable", "denied", "error"}   \* exit 0 with and without a valid output, else
Status == {"SUCCESS", "INVALID_OUTPUT", "AUTH_REQUIRED", "TIMEOUT", "ERROR"}
InRun == {"writing", "waiting", "terminating", "reading"}

ProcessInit == /\ part = "version"
               /\ point = "idle"
               /\ late = FALSE
               /\ cancelled = 0
               /\ ending = "off"
               /\ leader = "none"
               /\ child = "none"
               /\ pipes = FALSE
               /\ answer = "none"

-----------------------------------------------------------------------------
(* The processes. *)

Running == leader = "running"
Descendant == child \in {"group", "away"}
PipesOpen == Running \/ (Descendant /\ pipes)

Fork == /\ Running
        /\ child = "none"
        /\ child' \in {"group", "away"}
        /\ pipes' \in BOOLEAN
        /\ UNCHANGED <<part, point, late, cancelled, ending, leader, answer>>

\* The leader ends by itself, or because it heeds SIGTERM.
LeaderExits == /\ Running
               /\ leader' \in Exit
               /\ UNCHANGED <<part, point, late, cancelled, ending, child, pipes, answer>>

ChildExits == /\ Descendant
              /\ child' = "gone"
              /\ UNCHANGED <<part, point, late, cancelled, ending, leader, pipes, answer>>

-----------------------------------------------------------------------------
(* The call. *)

StartsProcess(which) == /\ part' = which
                        /\ point' = "writing"
                        /\ late' = FALSE
                        /\ leader' = "running"
                        /\ child' = "none"
                        /\ pipes' = FALSE

\* run and probe; without the binary there is an ERROR and no process.
Call == /\ point = "idle"
        /\ \/ StartsProcess("version") /\ UNCHANGED answer
           \/ /\ point' = "returned"
              /\ answer' = "ERROR"
              /\ UNCHANGED <<part, late, group>>
        /\ UNCHANGED <<cancelled, ending>>

\* drain: the probes write nothing; a request is read by the process in its own time,
\* or nobody is left to read it. No timeout covers it.
Written == part # "exec" \/ ~ PipesOpen

Feed == /\ point = "writing"
        /\ Written
        /\ point' = "waiting"
        /\ UNCHANGED <<part, late, cancelled, ending, group, answer>>

ReadsRequest == /\ point = "writing"
                /\ part = "exec"
                /\ point' = "waiting"
                /\ UNCHANGED <<part, late, cancelled, ending, group, answer>>

LeaderWaited == /\ point = "waiting"
                /\ ~ Running
                /\ point' = "reading"
                /\ UNCHANGED <<part, late, cancelled, ending, group, answer>>

\* _terminate_group looks whether the leader has exited, and signals the group if not.
Terminates == ending' = IF Running THEN "grace" ELSE "off"

TimesOut == /\ point = "waiting"
            /\ late' = TRUE
            /\ Terminates
            /\ point' = IF Running THEN "terminating" ELSE "reading"
            /\ UNCHANGED <<part, cancelled, group, answer>>

\* Bug: a leader that outlives the grace is waited for, not killed.
GraceIsOverInVain == /\ ending = "grace"
                     /\ ending' = "kill"
                     /\ UNCHANGED <<leader, child>>

\* The grace is over and the leader has not exited: SIGKILL ends what is in the group.
GraceIsOver == /\ ending = "grace"
               /\ Running
               /\ ending' = "kill"
               /\ leader' = "error"
               /\ child' = IF child = "group" THEN "gone" ELSE child

Kill == /\ GraceIsOver
        /\ UNCHANGED <<part, point, late, cancelled, pipes, answer>>

\* The leader has exited: whatever else is in the group stays.
Terminated ==
    /\ ending # "off"
    /\ ~ Running
    /\ ending' = "off"
    /\ point' = IF point # "terminating" THEN point ELSE IF cancelled > 0 THEN "returned" ELSE "reading"
    /\ UNCHANGED <<part, late, cancelled, group, answer>>

StatusOf(exit) == CASE exit = "ok" -> "SUCCESS"
                    [] exit = "unusable" -> "INVALID_OUTPUT"
                    [] exit = "denied" -> "AUTH_REQUIRED"
                    [] exit = "error" -> "ERROR"

\* The probe goes on when it is answered in time with a version and a login; a late login
\* status counts if its process exits well all the same.
Proceeds == \/ part = "version" /\ leader \in {"ok", "unusable"} /\ ~ late
            \/ part = "login" /\ leader = "ok"

Returns(status) == point' = "returned" /\ answer' = status

\* Both pipes are at their end. A probe that fails is a login that is missing.
ReadToTheEnd ==
    /\ point = "reading"
    /\ ~ PipesOpen
    /\ IF Proceeds
       THEN StartsProcess(IF part = "version" THEN "login" ELSE "exec") /\ UNCHANGED answer
       ELSE /\ CASE part # "exec" -> Returns("AUTH_REQUIRED")
                 [] part = "exec" /\ late -> Returns("TIMEOUT")
                 [] OTHER -> Returns(StatusOf(leader))
            /\ UNCHANGED <<part, late, group>>
    /\ UNCHANGED <<cancelled, ending>>

\* A cancelled call terminates its group, from the start if it is doing so, and is over;
\* cancelled again, it leaves that to the background.
CancelEnds == /\ Terminates
              /\ point' = IF Running /\ cancelled = 0 THEN "terminating" ELSE "returned"

\* The heartbeat of the call or of the task has lost the lease, or the worker stops.
Cancel == /\ point \in InRun
          /\ cancelled < 2
          /\ cancelled' = cancelled + 1
          /\ IF cancelled = 0 THEN CancelEnds ELSE point' = "returned" /\ UNCHANGED ending
          /\ UNCHANGED <<part, late, group, answer>>

Caller == Call \/ Feed \/ LeaderWaited \/ TimesOut \/ Kill \/ Terminated \/ ReadToTheEnd

ProcessNext == \/ Caller \/ Cancel
               \/ Fork \/ LeaderExits \/ ChildExits \/ ReadsRequest

\* The event loop and its timers go on; when a process exits, reads its input or heeds
\* SIGTERM is its own affair.
ProcessFairness ==
    /\ WF_processVars(Feed) /\ WF_processVars(LeaderWaited) /\ WF_processVars(TimesOut)
    /\ WF_processVars(Kill) /\ WF_processVars(Terminated) /\ WF_processVars(ReadToTheEnd)

ProcessSpec == ProcessInit /\ [][ProcessNext]_processVars /\ ProcessFairness

-----------------------------------------------------------------------------
(* Properties. *)

\* What no timeout of the runner covers: a request that is not read, and pipes that a
\* descendant keeps open when the leader has exited.
Held == \/ point = "writing" /\ part = "exec" /\ PipesOpen
        \/ point = "reading" /\ Descendant /\ pipes

\* When a call is over its leader is gone, unless it was cancelled while it was being
\* terminated; then SIGTERM was sent at least.
LeaderGone == point = "returned" /\ Running => cancelled = 2 /\ ending # "off"

\* A call ends unless it is held, a cancelled call even then (process.py:43): what a stop
\* or a lost lease leaves to do is bounded by the grace. And it leaves no leader behind.
CallEnds == /\ point \in InRun ~> point = "returned" \/ (Held /\ cancelled = 0)
            /\ []LeaderGone
=============================================================================
