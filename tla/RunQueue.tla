------------------------------ MODULE RunQueue ------------------------------
(***************************************************************************)
(* The durable research queue of GapForge and the worker processes that    *)
(* poll it: RunScheduler (runtime/assembly.py), RunController and          *)
(* DurableQueue (queue/control.py, queue/repository.py) and                *)
(* Worker.run_once (worker/runtime.py).                                    *)
(*                                                                         *)
(* A step is one PostgreSQL transaction, or one local step of a worker     *)
(* process between two transactions.  The one transaction split in two is  *)
(* the claim: its SELECT .. FOR UPDATE OF task reads the run through the   *)
(* statement's snapshot, so the run it saw may have ended by the time the  *)
(* task row is locked.                                                     *)
(*                                                                         *)
(* Time stamps are kept relative to the present: ttl is lease_expires_at   *)
(* minus now, left is deadline_at minus now, wait is available_at minus    *)
(* now.  Tick lets one unit pass and stops each at the value below which   *)
(* no comparison of the code tells it apart, so no bound on time is needed.*)
(***************************************************************************)
EXTENDS Integers, FiniteSets

CONSTANTS
  Worker,       \* worker identities, hostname:pid
  NoWorker,     \* lease_owner of a task nobody holds
  Revision,     \* mission revisions runs are scheduled for
  NoRevision,   \* revision of a run that does not exist yet
  Mode,         \* the modes scheduled: "HUNT" (priority 0), "MONITOR" (100)
  Key,          \* idempotency keys of the tasks of a run
  Root,         \* the key of the root task, run-root:v1
  Kind,         \* the error kinds a handler may end with
  MaxRuns,      \* bound: runs scheduled in a behaviour
  LeaseTime,    \* lease_duration
  RunTime,      \* max_run_duration_minutes
  RetryDelay,   \* retry_delay_seconds
  MaxAttempts,  \* max_attempts
  MaxCrashes    \* bound: crashes of worker processes in a behaviour

ErrorKind == {"AUTH_REQUIRED", "BUDGET_EXHAUSTED", "DEADLINE_EXCEEDED", "INTEGRITY",
              "INVALID_OUTPUT", "RATE_LIMITED", "TIMEOUT", "TRANSIENT_NETWORK",
              "SOURCE_UNAVAILABLE", "PERMANENT"}

ASSUME ConstantsAssumption ==
  /\ NoWorker \notin Worker
  /\ NoRevision \notin Revision
  /\ Mode \subseteq {"HUNT", "MONITOR"}
  /\ Root \in Key
  /\ IsFiniteSet(Key)
  /\ Kind \subseteq ErrorKind
  /\ MaxRuns \in Nat \ {0}
  /\ LeaseTime \in Nat \ {0}
  /\ RunTime \in Nat \ {0}
  /\ RetryDelay \in Nat \ {0}
  /\ MaxAttempts \in Nat \ {0}
  /\ MaxCrashes \in Nat

VARIABLES
  run,      \* research_runs: status, revision, mode and time left
  task,     \* research_tasks, one per run and key
  pc,       \* where each worker process stands
  held,     \* the task a worker has selected, works on or reports
  att,      \* attempt_count of that task as the worker read it
  age,      \* time since the snapshot of a claim that is about to lock
  outcome,  \* what the handler ended with, while it is being reported
  crashes   \* crashes so far

vars == <<run, task, pc, held, att, age, outcome, crashes>>
locals == <<held, att, age, outcome>>

Run  == 1 .. MaxRuns       \* numbered in the order of created_at
Task == Run \X Key
RunOf(t) == t[1]
NoTask == <<0, Root>>

Ended == {"COMPLETED", "COMPLETED_WITH_WARNINGS", "BUDGET_EXHAUSTED",
          "AUTH_REQUIRED", "FAILED"}
Active == {"QUEUED", "RUNNING"}
Open == {"PENDING", "LEASED"}
Settled == {"SUCCEEDED", "FAILED"}

NoOutcome == [kind |-> "NONE", useful |-> FALSE, warned |-> FALSE]
Success == [kind : {"NONE"}, useful : BOOLEAN, warned : BOOLEAN]
Failure == [kind : Kind, useful : {FALSE}, warned : {FALSE}]

AbsentRun == [status |-> "ABSENT", rev |-> NoRevision, mode |-> "NONE", left |-> 0]
PendingTask == [status |-> "PENDING", owner |-> NoWorker, ttl |-> -1, wait |-> 0,
                attempts |-> 0, kind |-> "NONE", useful |-> FALSE, warned |-> FALSE]
AbsentTask == [PendingTask EXCEPT !.status = "ABSENT"]

Lower(a, b) == IF a <= b THEN a ELSE b
AtLeast(floor, a) == IF a <= floor THEN floor ELSE a

-----------------------------------------------------------------------------
(* What the rows say.                                                      *)

Retryable(kind) == kind \in {"RATE_LIMITED", "TIMEOUT", "TRANSIENT_NETWORK"}

TasksOf(r) == {t \in Task : RunOf(t) = r /\ task[t].status # "ABSENT"}

Priority(r) == IF run[r].mode = "HUNT" THEN 0 ELSE 100
Before(r, q) == \/ Priority(r) < Priority(q)
                \/ Priority(r) = Priority(q) /\ r < q

LeasesByAnyone(w, t) == task[t].status = "LEASED"   \* bug: owner not compared
Leases(w, t) == task[t].status = "LEASED" /\ task[t].owner = w

\* _renew_owned_task lets the owner go on: the run is active and neither its
\* deadline nor the lease has been reached.
Current(w, t) == /\ Leases(w, t)
                 /\ run[RunOf(t)].status = "RUNNING"
                 /\ run[RunOf(t)].left > 0
                 /\ task[t].ttl > 0

\* The deadline is looked at before the lease: an owner may find its run overdue.
Overdue(w, t) == /\ Leases(w, t)
                 /\ run[RunOf(t)].status = "RUNNING"
                 /\ run[RunOf(t)].left <= 0

\* PermissionError: not the owner, run over, or lease expired before the deadline.
Lost(w, t) == ~ Current(w, t) /\ ~ Overdue(w, t)

\* Rows another worker may have locked in a transaction still under way, which
\* SKIP LOCKED passes over.
LockedBySomeone(w, t) == \E v \in Worker \ {w} :
                            held[v] = t /\ pc[v] \in {"lock", "work", "report"}
RunLockedBySomeone(w, r) == \E t \in Task : RunOf(t) = r /\ LockedBySomeone(w, t)

Claimable == {t \in Task : /\ run[RunOf(t)].status = "RUNNING"
                           /\ run[RunOf(t)].left > 0
                           /\ \/ task[t].status = "PENDING" /\ task[t].wait <= 0
                              \/ task[t].status = "LEASED" /\ task[t].ttl < 0}

-----------------------------------------------------------------------------
(* RunController.finalize_if_idle: the status a RUNNING run takes when its *)
(* tasks are those of tk.                                                  *)

\* How a run ends whose tasks ts have all settled.
SettledVerdict(ts, tk) ==
  LET failed == {t \in ts : tk[t].status = "FAILED"}
      good   == {t \in ts : tk[t].status = "SUCCEEDED"}
      useful == \E t \in good : tk[t].useful
      warned == \E t \in good : tk[t].warned
      because(kinds) == \E t \in failed : tk[t].kind \in kinds
  IN  IF because({"AUTH_REQUIRED"}) THEN "AUTH_REQUIRED"
      ELSE IF because({"BUDGET_EXHAUSTED", "DEADLINE_EXCEEDED"}) THEN "BUDGET_EXHAUSTED"
      ELSE IF useful /\ (failed # {} \/ warned) THEN "COMPLETED_WITH_WARNINGS"
      ELSE IF warned \/ failed # {} \/ good = {} THEN "FAILED"
      ELSE "COMPLETED"

\* Bug: the statuses are read before the report has been flushed.
VerdictUnflushed(r, tk) ==
  IF \E t \in TasksOf(r) : task[t].status \in Open
    THEN "RUNNING" ELSE SettledVerdict(TasksOf(r), tk)

\* A run without tasks fails, one with unfinished tasks goes on.
Verdict(r, tk) ==
  LET ts == {t \in Task : RunOf(t) = r /\ tk[t].status # "ABSENT"} IN
    IF ts = {} THEN "FAILED"
    ELSE IF \E t \in ts : tk[t].status \in Open THEN "RUNNING"
    ELSE SettledVerdict(ts, tk)

NeverFinalized(r, tk) == run[r]   \* bug: finalize_if_idle is not called

Finalized(r, tk) ==
  IF run[r].status = "RUNNING" THEN [run[r] EXCEPT !.status = Verdict(r, tk)] ELSE run[r]

-----------------------------------------------------------------------------
Init ==
  /\ run = [r \in Run |-> AbsentRun]
  /\ task = [t \in Task |-> AbsentTask]
  /\ pc = [w \in Worker |-> "poll"]
  /\ held = [w \in Worker |-> NoTask]
  /\ att = [w \in Worker |-> 0]
  /\ age = [w \in Worker |-> 0]
  /\ outcome = [w \in Worker |-> NoOutcome]
  /\ crashes = 0

\* The partial unique index on active runs makes a second insert for the
\* revision fail; the scheduler then answers with the active run and writes nothing.
RevisionIsFree(rev) == \A q \in Run : run[q].rev = rev => run[q].status \notin Active

\* RunScheduler.schedule, for gap hunt and gap monitor: the run and the tasks
\* enqueued with it appear in one transaction.
Schedule(r, rev, mode, keys) ==
  /\ run[r].status = "ABSENT"
  /\ \A q \in Run : q < r => run[q].status # "ABSENT"
  /\ RevisionIsFree(rev)
  /\ Root \in keys
  /\ run' = [run EXCEPT ![r] = [status |-> "QUEUED", rev |-> rev, mode |-> mode, left |-> 0]]
  /\ task' = [t \in Task |-> IF RunOf(t) = r /\ t[2] \in keys THEN PendingTask ELSE task[t]]
  /\ UNCHANGED <<pc, locals, crashes>>

\* What the admitting worker sees once it has finalized the active run, if any.
AfterFinalize == [r \in Run |-> Finalized(r, task)]

Admissible == {r \in Run : /\ run[r].status = "QUEUED"
                           /\ \E t \in TasksOf(r) : task[t].status = "PENDING" /\ task[t].wait <= 0}

\* The run admit_next starts: ORDER BY priority, created_at, id.  Nobody else
\* locks a QUEUED row, so SKIP LOCKED passes over none.
Chosen(r) == r \in Admissible /\ \A q \in Admissible : q = r \/ Before(r, q)

AnythingRunning(rn) == TRUE   \* bug: the active run does not hold admission back
NoneRunning(rn) == \A r \in Run : rn[r].status # "RUNNING"

\* RunController.admit_next, then start.
Admit(w) ==
  /\ pc[w] = "poll"
  /\ pc' = [pc EXCEPT ![w] = "claim"]
  /\ run' = [r \in Run |-> IF NoneRunning(AfterFinalize) /\ Chosen(r)
                             THEN [run[r] EXCEPT !.status = "RUNNING", !.left = RunTime]
                             ELSE AfterFinalize[r]]
  /\ UNCHANGED <<task, locals, crashes>>

\* pg_try_advisory_xact_lock fails while another worker is in admission.
AdmitElsewhere(w) ==
  /\ pc[w] = "poll"
  /\ \E v \in Worker \ {w} : pc[v] = "poll"
  /\ pc' = [pc EXCEPT ![w] = "claim"]
  /\ UNCHANGED <<run, task, locals, crashes>>

NoOverdueRuns == {}   \* bug: claim does not expire runs
OverdueRuns == {r \in Run : run[r].status = "RUNNING" /\ run[r].left <= 0}

\* DurableQueue._expire_overdue_runs, which every claim runs first; the tasks
\* of the run keep their status.
Expire(w) ==
  \E passed \in SUBSET {r \in OverdueRuns : RunLockedBySomeone(w, r)} :
    run' = [r \in Run |-> IF r \in OverdueRuns \ passed
                            THEN [run[r] EXCEPT !.status = "BUDGET_EXHAUSTED"] ELSE run[r]]

\* DurableQueue.claim up to its SELECT: one of the claimable tasks (the order is
\* only a preference under SKIP LOCKED), as the snapshot shows it.
ClaimSelect(w) ==
  /\ pc[w] = "claim"
  /\ Expire(w)
  /\ \E t \in Claimable :
       /\ held' = [held EXCEPT ![w] = t]
       /\ att' = [att EXCEPT ![w] = task[t].attempts]
  /\ age' = [age EXCEPT ![w] = 0]
  /\ pc' = [pc EXCEPT ![w] = "lock"]
  /\ UNCHANGED <<task, outcome, crashes>>

\* The claim finds nothing, or nothing that is not locked: run_once is over.
ClaimNothing(w) ==
  /\ pc[w] = "claim"
  /\ \A t \in Claimable : LockedBySomeone(w, t)
  /\ Expire(w)
  /\ pc' = [pc EXCEPT ![w] = "poll"]
  /\ UNCHANGED <<task, locals, crashes>>

\* Nothing has happened to the task since the snapshot, or it has been claimed and then
\* given back to its ended run: a retry would not be available yet.
Untouched(w) ==
  LET t == held[w] IN
    \/ task[t].attempts = att[w]
    \/ task[t].wait <= 0 /\ run[RunOf(t)].status # "RUNNING"

\* The row lock is granted and PostgreSQL looks at the task row again, not at the
\* run: it still qualifies unless another worker holds it or is to retry it.
StillQualifies(w) ==
  LET t == held[w] IN
    \/ task[t].status = "PENDING" /\ Untouched(w)
    \/ task[t].status = "LEASED" /\ task[t].ttl < 0 /\ task[t].attempts = att[w]

Forget(w) ==
  /\ held' = [held EXCEPT ![w] = NoTask]
  /\ att' = [att EXCEPT ![w] = 0]
  /\ age' = [age EXCEPT ![w] = 0]
  /\ outcome' = [outcome EXCEPT ![w] = NoOutcome]

\* Bug: the row is not looked at again but taken as the snapshot showed it.
ClaimUnseen(w) ==
  /\ pc[w] = "lock"
  /\ LET t == held[w] IN
       task' = [task EXCEPT ![t].status = "LEASED", ![t].owner = w,
                            ![t].ttl = AtLeast(-1, Lower(LeaseTime - age[w], run[RunOf(t)].left)),
                            ![t].attempts = @ + 1]
  /\ att' = [att EXCEPT ![w] = @ + 1]
  /\ age' = [age EXCEPT ![w] = 0]
  /\ pc' = [pc EXCEPT ![w] = "work"]
  /\ UNCHANGED <<run, held, outcome, crashes>>

\* The rest of claim: lease_expires_at = min(claim_time + duration, deadline).
ClaimLock(w) ==
  /\ pc[w] = "lock"
  /\ StillQualifies(w)
  /\ LET t == held[w] IN
       task' = [task EXCEPT ![t].status = "LEASED", ![t].owner = w,
                            ![t].ttl = AtLeast(-1, Lower(LeaseTime - age[w], run[RunOf(t)].left)),
                            ![t].attempts = @ + 1]
  /\ att' = [att EXCEPT ![w] = task[held[w]].attempts + 1]
  /\ age' = [age EXCEPT ![w] = 0]
  /\ pc' = [pc EXCEPT ![w] = "work"]
  /\ UNCHANGED <<run, held, outcome, crashes>>

ClaimRaced(w) ==
  /\ pc[w] = "lock"
  /\ ~ StillQualifies(w)
  /\ Forget(w)
  /\ pc' = [pc EXCEPT ![w] = "poll"]
  /\ UNCHANGED <<run, task, crashes>>

-----------------------------------------------------------------------------
(* The handler runs next to the heartbeat loop of run_once.                *)

\* DurableQueue._renew_owned_task when the deadline has been reached: the run
\* ends and the task goes back to PENDING, whoever asked.
GiveBack(w) ==
  LET t == held[w] IN
    /\ run' = [run EXCEPT ![RunOf(t)].status = "BUDGET_EXHAUSTED"]
    /\ task' = [task EXCEPT ![t].status = "PENDING", ![t].owner = NoWorker, ![t].ttl = -1]

\* Bug: the lease is renewed for its full duration.
HeartbeatRenewsFully(w) ==
  /\ pc[w] = "work"
  /\ Current(w, held[w])
  /\ task' = [task EXCEPT ![held[w]].ttl = LeaseTime]
  /\ UNCHANGED <<run, pc, locals, crashes>>

\* Bug: the lease is renewed up to the deadline.
HeartbeatRenewsForever(w) ==
  /\ pc[w] = "work"
  /\ Current(w, held[w])
  /\ task' = [task EXCEPT ![held[w]].ttl = run[RunOf(held[w])].left]
  /\ UNCHANGED <<run, pc, locals, crashes>>

\* renew_lease extends the lease, never past the deadline of the run.
HeartbeatRenews(w) ==
  /\ pc[w] = "work"
  /\ Current(w, held[w])
  /\ task' = [task EXCEPT ![held[w]].ttl = Lower(LeaseTime, run[RunOf(held[w])].left)]
  /\ UNCHANGED <<run, pc, locals, crashes>>

\* renew_lease answers None: the handler is cancelled.
HeartbeatOverdue(w) ==
  /\ pc[w] = "work"
  /\ Overdue(w, held[w])
  /\ GiveBack(w)
  /\ Forget(w)
  /\ pc' = [pc EXCEPT ![w] = "poll"]
  /\ UNCHANGED crashes

\* renew_lease raises PermissionError: the handler is cancelled.
HeartbeatLost(w) ==
  /\ pc[w] = "work"
  /\ Lost(w, held[w])
  /\ Forget(w)
  /\ pc' = [pc EXCEPT ![w] = "poll"]
  /\ UNCHANGED <<run, task, crashes>>

\* The handler returns or raises; a heartbeat that fails otherwise counts as the
\* handler raising.  classify_error/classify_exception give the kind.
HandlerEnds(w, o) ==
  /\ pc[w] = "work"
  /\ outcome' = [outcome EXCEPT ![w] = o]
  /\ pc' = [pc EXCEPT ![w] = "report"]
  /\ UNCHANGED <<run, task, held, att, age, crashes>>

\* The task row after succeed.
Succeeded(w) ==
  LET t == held[w] IN
    [task EXCEPT ![t].status = "SUCCEEDED", ![t].owner = NoWorker, ![t].ttl = -1,
                 ![t].useful = outcome[w].useful, ![t].warned = outcome[w].warned]

\* The task row after fail: another attempt after a delay, or the end of it.
Failed(w) ==
  LET t == held[w]
      again == Retryable(outcome[w].kind) /\ task[t].attempts < MaxAttempts
  IN  [task EXCEPT ![t].status = IF again THEN "PENDING" ELSE "FAILED",
                   ![t].owner = NoWorker, ![t].ttl = -1,
                   ![t].wait = IF again THEN RetryDelay ELSE @,
                   ![t].kind = outcome[w].kind]

\* succeed or fail, and finalize_if_idle in the same transaction.
Report(w, tk) ==
  /\ pc[w] = "report"
  /\ Current(w, held[w])
  /\ task' = tk
  /\ run' = [run EXCEPT ![RunOf(held[w])] = Finalized(RunOf(held[w]), tk)]
  /\ Forget(w)
  /\ pc' = [pc EXCEPT ![w] = "poll"]
  /\ UNCHANGED crashes

ReportSuccess(w) == outcome[w].kind = "NONE" /\ Report(w, Succeeded(w))
ReportFailure(w) == outcome[w].kind # "NONE" /\ Report(w, Failed(w))

\* The deadline passed first: the outcome is dropped, the worker goes on polling.
ReportOverdue(w) ==
  /\ pc[w] = "report"
  /\ Overdue(w, held[w])
  /\ GiveBack(w)
  /\ Forget(w)
  /\ pc' = [pc EXCEPT ![w] = "poll"]
  /\ UNCHANGED crashes

\* succeed or fail raises PermissionError, which leaves run_once and run_forever:
\* the process exits.
ReportLost(w) ==
  /\ pc[w] = "report"
  /\ Lost(w, held[w])
  /\ Forget(w)
  /\ pc' = [pc EXCEPT ![w] = "down"]
  /\ UNCHANGED <<run, task, crashes>>

-----------------------------------------------------------------------------
\* A process dies anywhere; a transaction under way is rolled back.
Crash(w) ==
  /\ pc[w] # "down"
  /\ crashes < MaxCrashes
  /\ crashes' = crashes + 1
  /\ Forget(w)
  /\ pc' = [pc EXCEPT ![w] = "down"]
  /\ UNCHANGED <<run, task>>

\* The container is restarted; hostname and pid, so the identity, may recur.
Restart(w) ==
  /\ pc[w] = "down"
  /\ pc' = [pc EXCEPT ![w] = "poll"]
  /\ UNCHANGED <<run, task, locals, crashes>>

Tick ==
  /\ run' = [r \in Run |-> [run[r] EXCEPT !.left = AtLeast(0, @ - 1)]]
  /\ task' = [t \in Task |-> [task[t] EXCEPT !.ttl = AtLeast(-1, @ - 1),
                                            !.wait = AtLeast(0, @ - 1)]]
  /\ age' = [w \in Worker |-> IF pc[w] = "lock" THEN Lower(age[w] + 1, LeaseTime + 1) ELSE 0]
  /\ UNCHANGED <<pc, held, att, outcome, crashes>>

Poll(w)  == Admit(w) \/ AdmitElsewhere(w)
Claim(w) == ClaimSelect(w) \/ ClaimNothing(w) \/ ClaimLock(w) \/ ClaimRaced(w)
Heartbeat(w) == HeartbeatRenews(w) \/ HeartbeatOverdue(w) \/ HeartbeatLost(w)
Settle(w) == ReportSuccess(w) \/ ReportFailure(w) \/ ReportOverdue(w) \/ ReportLost(w)

Next ==
  \/ \E r \in Run, rev \in Revision, mode \in Mode, keys \in SUBSET Key :
       Schedule(r, rev, mode, keys)
  \/ \E w \in Worker : \/ Poll(w)
                       \/ Claim(w)
                       \/ Heartbeat(w)
                       \/ \E o \in Success \union Failure : HandlerEnds(w, o)
                       \/ Settle(w)
                       \/ Crash(w)
                       \/ Restart(w)
  \/ Tick

Spec == Init /\ [][Next]_vars

(* Time passes; a process that can take its next step takes it, and a dead *)
(* one is restarted (restart: unless-stopped in docker-compose.yml).  The  *)
(* handler is not fair: it may hang, and only its heartbeats go on.        *)
(* Admission is only strongly fair: the advisory lock may be taken.        *)
Fairness ==
  /\ WF_vars(Tick)
  /\ SF_vars(\E w \in Worker : Admit(w))
  /\ \A w \in Worker : /\ WF_vars(Claim(w))
                       /\ WF_vars(Heartbeat(w))
                       /\ WF_vars(Settle(w))
                       /\ WF_vars(Restart(w))

FairSpec == Spec /\ Fairness

-----------------------------------------------------------------------------
(* Properties.                                                             *)

RunRow == [status : {"ABSENT"} \union Active \union Ended,
           rev : Revision \union {NoRevision},
           mode : Mode \union {"NONE"},
           left : 0 .. RunTime]

TaskRow == [status : {"ABSENT"} \union Open \union Settled,
            owner : Worker \union {NoWorker},
            ttl : -1 .. LeaseTime, wait : 0 .. RetryDelay, attempts : Nat,
            kind : Kind \union {"NONE"}, useful : BOOLEAN, warned : BOOLEAN]

Place == {"poll", "claim", "lock", "work", "report", "down"}

\* The rows and the local state of the workers have their types; a lease never
\* lasts longer than lease_duration.
TypeOK ==
  /\ run \in [Run -> RunRow]
  /\ task \in [Task -> TaskRow]
  /\ pc \in [Worker -> Place]
  /\ held \in [Worker -> Task \union {NoTask}]
  /\ att \in [Worker -> Nat]
  /\ age \in [Worker -> 0 .. LeaseTime + 1]
  /\ outcome \in [Worker -> Success \union Failure]
  /\ \A w \in Worker : pc[w] \in {"lock", "work", "report"} => held[w] \in Task
  /\ crashes \in 0 .. MaxCrashes

\* Only one research run is in progress, whichever workers poll and whenever they
\* die (the advisory lock and admit_next; docs/spec-v0.1.md section 7).
OneRunning ==
  \A r, q \in Run : run[r].status = "RUNNING" /\ run[q].status = "RUNNING" => r = q

\* hunt and monitor racing for a revision leave it with one queued or running run.
OneActivePerRevision ==
  \A r, q \in Run : /\ run[r].status \in Active
                    /\ run[q].status \in Active
                    /\ run[r].rev = run[q].rev
                    => r = q

\* The lease of a task in the run in progress ends no later than the run does, so
\* no owner is still entitled to its task when the run is expired.
LeaseWithinDeadline ==
  \A t \in Task : task[t].status = "LEASED" /\ run[RunOf(t)].status = "RUNNING"
                    => task[t].ttl <= run[RunOf(t)].left

\* The row of a task names a worker that thinks it works on it only for the latest
\* claim: however long a worker sleeps, and whoever claims after it, an earlier
\* attempt never passes the ownership check.
OwnerIsCurrentAttempt ==
  \A w \in Worker : pc[w] \in {"work", "report"} /\ Leases(w, held[w])
                      => att[w] = task[held[w]].attempts

\* The run in progress always has a task that can still settle, and a run that ended
\* otherwise than exhausted has none left: no run is finalized early, and none is
\* left behind idle after its last task settled.
EndsExactlyWhenSettled ==
  \A r \in Run :
    /\ run[r].status = "RUNNING" => \E t \in TasksOf(r) : task[t].status \in Open
    /\ run[r].status \in Ended \ {"BUDGET_EXHAUSTED"} =>
         \A t \in TasksOf(r) : task[t].status \in Settled

\* What ended stays as it ended, even for workers that only find out later.
EndedRunsFrozen ==
  [][\A r \in Run : run[r].status \in Ended => run'[r].status = run[r].status]_vars

\* A task settles once, while its run is in progress, and by the report of the
\* worker that made the latest claim, within its lease.
OnlyLiveAttemptSettles ==
  [][\A t \in Task :
       /\ task[t].status \in Settled => task'[t].status = task[t].status
       /\ task[t].status \notin Settled /\ task'[t].status \in Settled =>
            /\ run[RunOf(t)].status = "RUNNING"
            /\ run[RunOf(t)].left > 0
            /\ task[t].ttl > 0
            /\ \E w \in Worker : /\ pc[w] = "report"
                                 /\ held[w] = t
                                 /\ att[w] = task[t].attempts
                                 /\ pc'[w] = "poll"]_vars

\* Every scheduled run ends, although handlers may hang and workers die: its
\* deadline is noticed by a heartbeat or by the next poll.
RunsEnd == \A r \in Run : run[r].status \in Active ~> run[r].status \in Ended

Abstract == INSTANCE ResearchRuns WITH
  phase  <- [r \in Run |-> run[r].status],
  result <- [t \in Task |-> IF task[t].status \in Open THEN "OPEN" ELSE task[t].status]

\* The queue with its workers keeps the promise of ResearchRuns.
ImplementsResearchRuns == Abstract!ASpec
=============================================================================
