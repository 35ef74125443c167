------------------------------ MODULE Missions ------------------------------
(***************************************************************************)
(* Missions, their revisions and the runs scheduled for them, as the       *)
(* commands of cli.py change them: mission create, revise, activate, pause *)
(* and archive (MissionRepository, storage/repositories.py), hunt and      *)
(* monitor (with RunScheduler.schedule, runtime/assembly.py).              *)
(*                                                                         *)
(* Each command is a process with one transaction. A step is one statement *)
(* of it, which sees what is committed as it begins (READ COMMITTED), or   *)
(* its commit; what a command has written and not committed only makes     *)
(* others wait. A command that is refused leaves nothing behind.           *)
(***************************************************************************)
EXTENDS Naturals, FiniteSets

CONSTANTS
    MissionId,      \* the missions, by their order of created_at
    Operator,       \* the commands that may be in progress at a time
    LastRevision    \* bound: no mission is revised further

ASSUME MissionsAssumption == /\ MissionId \subseteq Nat \ {0} /\ IsFiniteSet(MissionId)
                             /\ LastRevision \in Nat \ {0}

VARIABLES
    missionStatus,  \* research_missions.status, NONE before the mission is created
    revisions,      \* mission_revisions of each mission: number and number of the parent
    activeRuns,     \* the revisions with a run that is QUEUED or RUNNING, committed
    session         \* the command of each operator

missionVars == <<missionStatus, revisions, activeRuns, session>>

Newest(m) == CHOOSE r \in revisions[m] : \A q \in revisions[m] : q.number <= r.number

\* A command: where it stands, the mission it is at, the status or revision it is to write,
\* the missions monitor has still to come to, and the runs it has inserted.
NoCommand == [step |-> "none", mission |-> 0, target |-> "NONE", number |-> 0,
              todo |-> {}, inserted |-> {}]

Moves(o, next) == session' = [session EXCEPT ![o] = next]
ComesTo(o, step) == Moves(o, [session[o] EXCEPT !.step = step])

MissionsInit ==
    /\ missionStatus = [m \in MissionId |-> "NONE"]
    /\ revisions = [m \in MissionId |-> {}]
    /\ activeRuns = {}
    /\ session = [o \in Operator |-> NoCommand]

\* The commands that have locked the row of a mission, by SELECT FOR UPDATE or UPDATE.
RowHolders(m) == {o \in Operator : session[o].mission = m
                                   /\ session[o].step \in {"updated", "locked", "numbered"}}

\* The commands whose own run of this revision the unique index of active runs has to wait for.
Inserters(revision) == {o \in Operator : revision \in session[o].inserted}

-----------------------------------------------------------------------------
\* mission create: mission and first revision, in one transaction nobody else sees.
CreateMission(m) ==
    /\ missionStatus[m] = "NONE"
    /\ \A earlier \in MissionId : earlier < m => missionStatus[earlier] # "NONE"
    /\ missionStatus' = [missionStatus EXCEPT ![m] = "DRAFT"]
    /\ revisions' = [revisions EXCEPT ![m] = {[number |-> 1, parent |-> 0]}]
    /\ UNCHANGED <<activeRuns, session>>

\* allowed_transitions
Allowed(from) ==
    CASE from = "DRAFT" -> {"ACTIVE", "ARCHIVED"}
      [] from = "ACTIVE" -> {"PAUSED", "ARCHIVED"}
      [] from = "PAUSED" -> {"ACTIVE", "ARCHIVED"}
      [] from = "ARCHIVED" -> {}

\* mission activate, pause, archive: the status is read without a lock.
ReadStatus(o, m, target) ==
    /\ session[o] = NoCommand
    /\ missionStatus[m] # "NONE" /\ target \in Allowed(missionStatus[m])
    /\ Moves(o, [NoCommand EXCEPT !.step = "checked", !.mission = m, !.target = target])
    /\ UNCHANGED <<missionStatus, revisions, activeRuns>>

\* The UPDATE names the mission and not the status that was read.
UpdateStatus(o) ==
    /\ session[o].step = "checked" /\ RowHolders(session[o].mission) = {}
    /\ ComesTo(o, "updated")
    /\ UNCHANGED <<missionStatus, revisions, activeRuns>>

CommitStatus(o) ==
    /\ session[o].step = "updated"
    /\ missionStatus' = [missionStatus EXCEPT ![session[o].mission] = session[o].target]
    /\ Moves(o, NoCommand)
    /\ UNCHANGED <<revisions, activeRuns>>

-----------------------------------------------------------------------------
\* Bug: the mission is read and not locked.
RowOpenAlways(m) == TRUE

RowOpen(m) == RowHolders(m) = {}

\* mission revise locks the mission first,
LockMission(o, m) ==
    /\ session[o] = NoCommand /\ missionStatus[m] # "NONE" /\ RowOpen(m)
    /\ Newest(m).number < LastRevision
    /\ Moves(o, [NoCommand EXCEPT !.step = "locked", !.mission = m])
    /\ UNCHANGED <<missionStatus, revisions, activeRuns>>

\* then reads the last number,
ReadNumber(o) ==
    /\ session[o].step = "locked"
    /\ Moves(o, [session[o] EXCEPT !.step = "numbered", !.number = Newest(session[o].mission).number])
    /\ UNCHANGED <<missionStatus, revisions, activeRuns>>

\* and inserts the successor of the revision that is the latest by now. Numbers are unique:
\* a command whose number is taken ends there, with an IntegrityError.
CommitRevision(o) ==
    /\ session[o].step = "numbered"
    /\ LET m == session[o].mission
           revision == [number |-> session[o].number + 1, parent |-> Newest(m).number]
       IN  IF \E r \in revisions[m] : r.number = revision.number
           THEN /\ ComesTo(o, "collided")
                /\ UNCHANGED revisions
           ELSE /\ revisions' = [revisions EXCEPT ![m] = @ \cup {revision}]
                /\ Moves(o, NoCommand)
    /\ UNCHANGED <<missionStatus, activeRuns>>

-----------------------------------------------------------------------------
\* hunt reads the mission, whatever its status but archived.
BeginHunt(o, m) ==
    /\ session[o] = NoCommand /\ missionStatus[m] \notin {"NONE", "ARCHIVED"}
    /\ Moves(o, [NoCommand EXCEPT !.step = "choosing", !.todo = {m}])
    /\ UNCHANGED <<missionStatus, revisions, activeRuns>>

\* monitor reads all of them once, and takes those that are active.
BeginMonitor(o) ==
    /\ session[o] = NoCommand
    /\ \E m \in MissionId : missionStatus[m] = "ACTIVE"
    /\ Moves(o, [NoCommand EXCEPT !.step = "choosing",
                                  !.todo = {m \in MissionId : missionStatus[m] = "ACTIVE"}])
    /\ UNCHANGED <<missionStatus, revisions, activeRuns>>

\* Bug: the missions are taken in any order.
InTurnByChance(m, todo) == m \in todo

\* Missions are taken in the order of created_at.
InTurn(m, todo) == m \in todo /\ \A other \in todo : m <= other

\* The latest revision of the next mission is read, to be scheduled.
ChooseRevision(o) ==
    /\ session[o].step = "choosing"
    /\ \E m \in MissionId :
          /\ InTurn(m, session[o].todo)
          /\ Moves(o, [session[o] EXCEPT !.step = "inserting", !.todo = @ \ {m},
                                         !.mission = m, !.number = Newest(m).number])
    /\ UNCHANGED <<missionStatus, revisions, activeRuns>>

ChosenRevision(o) == <<session[o].mission, session[o].number>>

\* RunScheduler.schedule: the run and its root task are inserted in a savepoint; the
\* insert waits for another of the same revision that is not committed.
InsertRun(o) ==
    /\ session[o].step = "inserting" /\ Inserters(ChosenRevision(o)) = {}
    /\ IF ChosenRevision(o) \in activeRuns
       THEN ComesTo(o, "refused")
       ELSE Moves(o, [session[o] EXCEPT !.step = "choosing", !.inserted = @ \cup {ChosenRevision(o)}])
    /\ UNCHANGED <<missionStatus, revisions, activeRuns>>

\* The active run is looked up in its place. If it has ended by now, the exception ends
\* the command and takes back every run it has inserted.
FindActive(o) ==
    /\ session[o].step = "refused"
    /\ IF ChosenRevision(o) \in activeRuns THEN ComesTo(o, "choosing") ELSE Moves(o, NoCommand)
    /\ UNCHANGED <<missionStatus, revisions, activeRuns>>

CommitRuns(o) ==
    /\ session[o].step = "choosing" /\ session[o].todo = {}
    /\ activeRuns' = activeRuns \cup session[o].inserted
    /\ Moves(o, NoCommand)
    /\ UNCHANGED <<missionStatus, revisions>>

\* A run ends: see RunQueue.
EndOfRun(revision) ==
    /\ activeRuns' = activeRuns \ {revision}
    /\ revision \in activeRuns
    /\ UNCHANGED <<missionStatus, revisions, session>>

MissionsNext ==
    \/ \E m \in MissionId : CreateMission(m)
    \/ \E revision \in activeRuns : EndOfRun(revision)
    \/ \E o \in Operator :
          \/ \E m \in MissionId :
                \/ \E target \in {"ACTIVE", "PAUSED", "ARCHIVED"} : ReadStatus(o, m, target)
                \/ LockMission(o, m)
                \/ BeginHunt(o, m)
          \/ UpdateStatus(o) \/ CommitStatus(o)
          \/ ReadNumber(o) \/ CommitRevision(o)
          \/ BeginMonitor(o) \/ ChooseRevision(o) \/ InsertRun(o) \/ FindActive(o) \/ CommitRuns(o)

MissionsSpec == MissionsInit /\ [][MissionsNext]_missionVars

-----------------------------------------------------------------------------
\* The revisions of a mission are one chain, each with its predecessor as parent, though
\* number and parent are read by two statements; and no revise fails because of another.
RevisionsChain ==
    /\ \A m \in MissionId : \A r \in revisions[m] :
          /\ r.parent = r.number - 1
          /\ r.number > 1 => \E q \in revisions[m] : q.number = r.parent
    /\ \A o \in Operator : session[o].step # "collided"

\* For whom a command waits: for the lock on its mission, or for the fate of the run of
\* its revision another has inserted.
AwaitedBy(o) ==
    CASE session[o].step = "checked" -> RowHolders(session[o].mission)
      [] session[o].step = "inserting" -> Inserters(ChosenRevision(o))
      [] OTHER -> {}

\* Commands never wait for each other in a circle, so that PostgreSQL has none to abort:
\* two monitors, or a monitor and any number of hunts, over the same missions.
CommandsMove ==
    ~ \E circle \in (SUBSET Operator) \ {{}} :
          \A o \in circle : AwaitedBy(o) \cap circle # {}

\* A mission that is archived stays archived: "mission activate" of an archived mission is
\* an INVALID_STATE (tests/platform/test_cli.py).
ArchivedForGood ==
    [][\A m \in MissionId :
          missionStatus[m] = "ARCHIVED" => missionStatus'[m] = "ARCHIVED"]_missionVars
=============================================================================
