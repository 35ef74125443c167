--------------------------- MODULE RunQueueProofs ---------------------------
(***************************************************************************)
(* Theorems about RunQueue for every set of workers, revisions and keys    *)
(* and every lease, deadline, retry and crash bound.                       *)
(***************************************************************************)
EXTENDS RunQueue, TLAPS

-----------------------------------------------------------------------------
(* Facts about the operators the actions are made of.                      *)

\* Lower and AtLeast keep a time stamp within its range.
LEMMA Clamped ==
  ASSUME NEW a \in Int, NEW b \in Int
  PROVE  /\ Lower(a, b) \in Int /\ Lower(a, b) <= a /\ Lower(a, b) <= b
         /\ (a <= b => Lower(a, b) = a) /\ (b <= a => Lower(a, b) = b)
         /\ AtLeast(a, b) \in Int /\ AtLeast(a, b) >= a
         /\ (b >= a => AtLeast(a, b) = b) /\ (b <= a => AtLeast(a, b) = a)
BY DEF Lower, AtLeast

\* A settled run ends one way or another.
LEMMA SettledVerdictEnds ==
  ASSUME NEW ts, NEW tk
  PROVE  SettledVerdict(ts, tk) \in Ended
BY Zenon DEF SettledVerdict, Ended

\* finalize_if_idle leaves a run in progress exactly when a task is unfinished.
LEMMA VerdictIsFinal ==
  ASSUME NEW r, NEW tk
  PROVE  \/ /\ Verdict(r, tk) = "RUNNING"
            /\ \E t \in Task : RunOf(t) = r /\ tk[t].status \in Open /\ tk[t].status # "ABSENT"
         \/ /\ Verdict(r, tk) \in Ended
            /\ \A t \in Task : RunOf(t) = r /\ tk[t].status # "ABSENT" => tk[t].status \notin Open
<1> DEFINE ts == {t \in Task : RunOf(t) = r /\ tk[t].status # "ABSENT"}
<1>1. CASE ts = {}
  <2>1. Verdict(r, tk) = "FAILED"
    BY <1>1 DEF Verdict
  <2> QED BY <1>1, <2>1 DEF Ended
<1>2. CASE ts # {} /\ \E t \in ts : tk[t].status \in Open
  BY <1>2 DEF Verdict
<1>3. CASE ts # {} /\ \A t \in ts : tk[t].status \notin Open
  <2>1. Verdict(r, tk) = SettledVerdict(ts, tk)
    BY <1>3 DEF Verdict
  <2> QED BY <1>3, <2>1, SettledVerdictEnds
<1> QED BY <1>1, <1>2, <1>3

\* NoTask is no task, and the root of a run is one.
LEMMA TaskFacts ==
  /\ \A t \in Task : RunOf(t) \in Run
  /\ NoOutcome \in Success
  /\ AbsentTask \in TaskRow /\ PendingTask \in TaskRow
  /\ AbsentRun \in RunRow
<1>1. \A t \in Task : RunOf(t) \in Run
  BY DEF Task, RunOf
<1>2. NoOutcome \in Success
  BY DEF NoOutcome, Success
<1>3. PendingTask \in TaskRow
  BY ConstantsAssumption DEF PendingTask, TaskRow, Open
<1>4. AbsentTask \in TaskRow
  BY <1>3 DEF AbsentTask, TaskRow
<1>5. AbsentRun \in RunRow
  BY ConstantsAssumption DEF AbsentRun, RunRow
<1> QED BY <1>1, <1>2, <1>3, <1>4, <1>5

\* The rows as the actions rewrite them.
LEMMA RunRewritten ==
  ASSUME NEW row \in RunRow, NEW status \in {"ABSENT"} \union Active \union Ended
  PROVE  /\ [row EXCEPT !.status = status] \in RunRow
         /\ \A left \in 0 .. RunTime : [row EXCEPT !.status = status, !.left = left] \in RunRow
BY DEF RunRow

LEMMA TaskReleased ==
  ASSUME NEW row \in TaskRow, NEW status \in Open \union Settled
  PROVE  [row EXCEPT !.status = status, !.owner = NoWorker, !.ttl = -1] \in TaskRow
<1>1. -1 \in -1 .. LeaseTime
  BY ConstantsAssumption
<1> QED BY <1>1 DEF TaskRow

LEMMA TaskSucceeded ==
  ASSUME NEW row \in TaskRow, NEW status \in Open \union Settled,
         NEW useful \in BOOLEAN, NEW warned \in BOOLEAN
  PROVE  [row EXCEPT !.status = status, !.owner = NoWorker, !.ttl = -1,
           !.useful = useful, !.warned = warned] \in TaskRow
<1>1. -1 \in -1 .. LeaseTime
  BY ConstantsAssumption
<1> QED BY <1>1 DEF TaskRow

LEMMA TaskFailed ==
  ASSUME NEW row \in TaskRow, NEW status \in Open \union Settled,
         NEW wait \in 0 .. RetryDelay, NEW kind \in Kind \union {"NONE"}
  PROVE  [row EXCEPT !.status = status, !.owner = NoWorker, !.ttl = -1,
           !.wait = wait, !.kind = kind] \in TaskRow
<1>1. -1 \in -1 .. LeaseTime
  BY ConstantsAssumption
<1> QED BY <1>1 DEF TaskRow

-----------------------------------------------------------------------------
(* Type correctness: every action keeps the rows and the local state typed. *)

LEMMA FinalizedIsARow ==
  ASSUME NEW r \in Run, NEW tk, run \in [Run -> RunRow]
  PROVE  Finalized(r, tk) \in RunRow
BY VerdictIsFinal DEF Finalized, RunRow, Active, Ended

LEMMA ForgetTyped ==
  ASSUME TypeOK, NEW w \in Worker, Forget(w), pc' \in [Worker -> Place],
         pc'[w] \in {"poll", "down"}, \A v \in Worker \ {w} : pc'[v] = pc[v]
  PROVE  /\ held' \in [Worker -> Task \union {NoTask}]
         /\ att' \in [Worker -> Nat]
         /\ age' \in [Worker -> 0 .. LeaseTime + 1]
         /\ outcome' \in [Worker -> Success \union Failure]
         /\ \A v \in Worker : pc'[v] \in {"lock", "work", "report"} => held'[v] \in Task
BY TaskFacts, ConstantsAssumption DEF Forget, TypeOK

LEMMA InitTyped == Init => TypeOK
BY TaskFacts, ConstantsAssumption DEF Init, TypeOK, Place

LEMMA ScheduleTyped ==
  ASSUME TypeOK, NEW r \in Run, NEW rev \in Revision, NEW mode \in Mode,
         NEW keys \in SUBSET Key, Schedule(r, rev, mode, keys)
  PROVE  TypeOK'
BY TaskFacts, ConstantsAssumption DEF TypeOK, Schedule, RunRow, Active, locals

LEMMA PollTyped ==
  ASSUME TypeOK, NEW w \in Worker, Poll(w)
  PROVE  TypeOK'
<1>1. CASE Admit(w)
  <2>1. run' \in [Run -> RunRow]
    <3>1. \A r \in Run : AfterFinalize[r] \in RunRow
      BY FinalizedIsARow DEF AfterFinalize, TypeOK
    <3>2. ASSUME NEW r \in Run
          PROVE  [run[r] EXCEPT !.status = "RUNNING", !.left = RunTime] \in RunRow
      <4>1. run[r] \in RunRow
        BY DEF TypeOK
      <4>2. "RUNNING" \in Active /\ RunTime \in 0 .. RunTime
        BY ConstantsAssumption DEF Active
      <4> QED BY <4>1, <4>2, RunRewritten
    <3> QED BY <1>1, <3>1, <3>2 DEF Admit
  <2> QED BY <1>1, <2>1 DEF Admit, TypeOK, Place, locals
<1>2. CASE AdmitElsewhere(w)
  BY <1>2 DEF AdmitElsewhere, TypeOK, Place, locals
<1> QED BY <1>1, <1>2 DEF Poll

LEMMA ClaimTyped ==
  ASSUME TypeOK, NEW w \in Worker, Claim(w)
  PROVE  TypeOK'
<1>1. ASSUME Expire(w) PROVE run' \in [Run -> RunRow]
  BY <1>1 DEF Expire, TypeOK, RunRow, Ended
<1>2. CASE ClaimSelect(w)
  BY <1>1, <1>2, ConstantsAssumption DEF ClaimSelect, Claimable, TypeOK, TaskRow, Place
<1>3. CASE ClaimNothing(w)
  BY <1>1, <1>3 DEF ClaimNothing, TypeOK, Place, locals
<1>4. CASE ClaimLock(w)
  <2> DEFINE t == held[w]
             lease == AtLeast(-1, Lower(LeaseTime - age[w], run[RunOf(t)].left))
  <2>1. t \in Task /\ RunOf(t) \in Run /\ task[t] \in TaskRow
    BY <1>4, TaskFacts DEF ClaimLock, TypeOK
  <2>2. lease \in -1 .. LeaseTime
    BY <2>1, Clamped, ConstantsAssumption DEF TypeOK, RunRow, Lower, AtLeast
  <2>3. task' \in [Task -> TaskRow]
    BY <1>4, <2>1, <2>2 DEF ClaimLock, TypeOK, TaskRow, Open
  <2>4. att' \in [Worker -> Nat]
    BY <1>4, <2>1 DEF ClaimLock, TypeOK, TaskRow
  <2> QED BY <1>4, <2>3, <2>4, ConstantsAssumption DEF ClaimLock, TypeOK, Place
<1>5. CASE ClaimRaced(w)
  BY <1>5, ForgetTyped DEF ClaimRaced, TypeOK, Place
<1> QED BY <1>2, <1>3, <1>4, <1>5 DEF Claim

LEMMA GiveBackTyped ==
  ASSUME TypeOK, NEW w \in Worker, held[w] \in Task, GiveBack(w)
  PROVE  run' \in [Run -> RunRow] /\ task' \in [Task -> TaskRow]
<1>1. /\ RunOf(held[w]) \in Run /\ run[RunOf(held[w])] \in RunRow
      /\ task[held[w]] \in TaskRow
  BY TaskFacts DEF TypeOK
<1>2. [run[RunOf(held[w])] EXCEPT !.status = "BUDGET_EXHAUSTED"] \in RunRow
  BY <1>1, RunRewritten DEF Ended
<1>3. [task[held[w]] EXCEPT !.status = "PENDING", !.owner = NoWorker, !.ttl = -1] \in TaskRow
  <2>1. "PENDING" \in Open
    BY DEF Open
  <2> QED BY <1>1, <2>1, TaskReleased
<1> QED BY <1>1, <1>2, <1>3 DEF GiveBack, TypeOK

LEMMA HeartbeatTyped ==
  ASSUME TypeOK, NEW w \in Worker, Heartbeat(w)
  PROVE  TypeOK'
<1>1. CASE HeartbeatRenews(w)
  <2>1. held[w] \in Task /\ RunOf(held[w]) \in Run
    BY <1>1, TaskFacts DEF HeartbeatRenews, TypeOK
  <2>2. Lower(LeaseTime, run[RunOf(held[w])].left) \in -1 .. LeaseTime
    BY <2>1, ConstantsAssumption DEF TypeOK, RunRow, Lower
  <2> QED BY <1>1, <2>1, <2>2 DEF HeartbeatRenews, TypeOK, TaskRow, locals
<1>2. CASE HeartbeatOverdue(w)
  BY <1>2, ForgetTyped, GiveBackTyped DEF HeartbeatOverdue, TypeOK, Place
<1>3. CASE HeartbeatLost(w)
  BY <1>3, ForgetTyped DEF HeartbeatLost, TypeOK, Place
<1> QED BY <1>1, <1>2, <1>3 DEF Heartbeat

LEMMA HandlerTyped ==
  ASSUME TypeOK, NEW w \in Worker, NEW o \in Success \union Failure, HandlerEnds(w, o)
  PROVE  TypeOK'
BY DEF HandlerEnds, TypeOK, Place

LEMMA SettleTyped ==
  ASSUME TypeOK, NEW w \in Worker, Settle(w)
  PROVE  TypeOK'
<1>1. ASSUME NEW tk \in [Task -> TaskRow], Report(w, tk)
      PROVE  TypeOK'
  BY <1>1, ForgetTyped, FinalizedIsARow, TaskFacts DEF Report, TypeOK, Place
<1>2. CASE ReportSuccess(w)
  <2>1. held[w] \in Task
    BY <1>2 DEF ReportSuccess, Report, TypeOK
  <2>2. outcome[w].useful \in BOOLEAN /\ outcome[w].warned \in BOOLEAN
    BY DEF TypeOK, Success, Failure
  <2>3. [task[held[w]] EXCEPT !.status = "SUCCEEDED", !.owner = NoWorker, !.ttl = -1,
           !.useful = outcome[w].useful, !.warned = outcome[w].warned] \in TaskRow
    <3>1. task[held[w]] \in TaskRow
      BY <2>1 DEF TypeOK
    <3>2. "SUCCEEDED" \in Settled
      BY DEF Settled
    <3> QED BY <3>1, <3>2, <2>2, TaskSucceeded
  <2>4. Succeeded(w) \in [Task -> TaskRow]
    BY <2>1, <2>3 DEF Succeeded, TypeOK
  <2> QED BY <1>1, <1>2, <2>4 DEF ReportSuccess
<1>3. CASE ReportFailure(w)
  <2>1. held[w] \in Task /\ outcome[w].kind \in Kind \union {"NONE"}
    BY <1>3 DEF ReportFailure, Report, TypeOK, Success, Failure
  <2>2. ASSUME NEW status \in {"PENDING", "FAILED"}, NEW wait \in 0 .. RetryDelay
        PROVE  [task[held[w]] EXCEPT !.status = status, !.owner = NoWorker, !.ttl = -1,
                 !.wait = wait, !.kind = outcome[w].kind] \in TaskRow
    <3>1. task[held[w]] \in TaskRow
      BY <2>1 DEF TypeOK
    <3>2. status \in Open \union Settled
      BY DEF Settled, Open
    <3> QED BY <3>1, <3>2, <2>1, TaskFailed
  <2>3. task[held[w]].wait \in 0 .. RetryDelay /\ RetryDelay \in 0 .. RetryDelay
    BY <2>1, ConstantsAssumption DEF TypeOK, TaskRow
  <2>4. Failed(w) \in [Task -> TaskRow]
    <3> DEFINE again == Retryable(outcome[w].kind) /\ task[held[w]].attempts < MaxAttempts
               status == IF again THEN "PENDING" ELSE "FAILED"
               wait == IF again THEN RetryDelay ELSE task[held[w]].wait
               row == [task[held[w]] EXCEPT !.status = status, !.owner = NoWorker, !.ttl = -1,
                                            !.wait = wait, !.kind = outcome[w].kind]
    <3>1. status \in {"PENDING", "FAILED"} /\ wait \in 0 .. RetryDelay
      BY <2>3
    <3>2. row \in TaskRow
      BY <2>2, <3>1
    <3>3. Failed(w) = [task EXCEPT ![held[w]] = row]
      BY <2>1 DEF Failed, TypeOK, TaskRow
    <3> HIDE DEF row
    <3> QED BY <3>2, <3>3 DEF TypeOK
  <2> QED BY <1>1, <1>3, <2>4 DEF ReportFailure
<1>4. CASE ReportOverdue(w)
  BY <1>4, ForgetTyped, GiveBackTyped DEF ReportOverdue, TypeOK, Place
<1>5. CASE ReportLost(w)
  BY <1>5, ForgetTyped DEF ReportLost, TypeOK, Place
<1> QED BY <1>2, <1>3, <1>4, <1>5 DEF Settle

LEMMA ProcessTyped ==
  ASSUME TypeOK, NEW w \in Worker, Crash(w) \/ Restart(w)
  PROVE  TypeOK'
<1>1. CASE Crash(w)
  BY <1>1, ForgetTyped, ConstantsAssumption DEF Crash, TypeOK, Place
<1>2. CASE Restart(w)
  BY <1>2 DEF Restart, TypeOK, Place, locals
<1> QED BY <1>1, <1>2

LEMMA TickTyped ==
  ASSUME TypeOK, Tick
  PROVE  TypeOK'
<1>1. run' \in [Run -> RunRow]
  <2>1. \A r \in Run : AtLeast(0, run[r].left - 1) \in 0 .. RunTime
    BY ConstantsAssumption DEF TypeOK, RunRow, AtLeast
  <2> QED BY <2>1 DEF Tick, TypeOK, RunRow
<1>2. task' \in [Task -> TaskRow]
  <2>1. ASSUME NEW t \in Task
        PROVE  [task[t] EXCEPT !.ttl = AtLeast(-1, task[t].ttl - 1),
                               !.wait = AtLeast(0, task[t].wait - 1)] \in TaskRow
    <3>1. task[t] \in TaskRow
      BY DEF TypeOK
    <3>2. /\ AtLeast(-1, task[t].ttl - 1) \in -1 .. LeaseTime
          /\ AtLeast(0, task[t].wait - 1) \in 0 .. RetryDelay
      BY <3>1, ConstantsAssumption DEF TaskRow, AtLeast
    <3> QED BY <3>1, <3>2 DEF TaskRow
  <2> QED BY <2>1 DEF Tick, TypeOK
<1>3. age' \in [Worker -> 0 .. LeaseTime + 1]
  <2>1. ASSUME NEW v \in Worker
        PROVE  Lower(age[v] + 1, LeaseTime + 1) \in 0 .. LeaseTime + 1
    BY ConstantsAssumption DEF TypeOK, Lower
  <2>2. 0 \in 0 .. LeaseTime + 1
    BY ConstantsAssumption
  <2> QED BY <2>1, <2>2 DEF Tick
<1> QED BY <1>1, <1>2, <1>3 DEF Tick, TypeOK

LEMMA TypeKept ==
  ASSUME TypeOK, [Next]_vars
  PROVE  TypeOK'
<1>1. CASE UNCHANGED vars
  BY <1>1 DEF vars, TypeOK
<1>2. CASE Next
  BY <1>2, ScheduleTyped, PollTyped, ClaimTyped, HeartbeatTyped, HandlerTyped,
     SettleTyped, ProcessTyped, TickTyped DEF Next
<1> QED BY <1>1, <1>2

\* Every reachable state of the queue and its workers is well typed.
THEOREM TypeCorrect == Spec => []TypeOK
<1>1. TypeOK /\ [Next]_vars => TypeOK'
  BY TypeKept
<1> QED BY <1>1, InitTyped, PTL DEF Spec

\* succeed and fail rewrite the row of the reported task and no other.
LEMMA ReportedRow ==
  ASSUME TypeOK, NEW w \in Worker, held[w] \in Task
  PROVE  /\ Succeeded(w)[held[w]].status = "SUCCEEDED"
         /\ Failed(w)[held[w]].status \in {"PENDING", "FAILED"}
         /\ \A t \in Task \ {held[w]} : Succeeded(w)[t] = task[t] /\ Failed(w)[t] = task[t]
<1>1. task \in [Task -> TaskRow] /\ task[held[w]] \in TaskRow
  BY DEF TypeOK
<1>2. Succeeded(w)[held[w]].status = "SUCCEEDED"
  BY <1>1 DEF Succeeded, TaskRow
<1>3. ASSUME NEW status \in {"PENDING", "FAILED"}, NEW wait, NEW kind
      PROVE  [task[held[w]] EXCEPT !.status = status, !.owner = NoWorker, !.ttl = -1,
                 !.wait = wait, !.kind = kind].status \in {"PENDING", "FAILED"}
  BY <1>1 DEF TaskRow
<1>4. Failed(w)[held[w]].status \in {"PENDING", "FAILED"}
  BY <1>1, <1>3 DEF Failed
<1> QED BY <1>1, <1>2, <1>4 DEF Succeeded, Failed

-----------------------------------------------------------------------------
(* At most one run is in progress.                                         *)

\* No step but admission makes a run RUNNING, and admission at most one, when none is.
LEMMA OnlyAdmissionStarts ==
  ASSUME TypeOK, [Next]_vars
  PROVE  \/ \A r \in Run : run'[r].status = "RUNNING" => run[r].status = "RUNNING"
         \/ /\ \A r \in Run : run[r].status = "RUNNING" => run'[r].status # "RUNNING"
            /\ \A r, q \in Run : /\ run'[r].status = "RUNNING"
                                 /\ run'[q].status = "RUNNING"
                                 => r = q
<1> DEFINE Calm == \A r \in Run : run'[r].status = "RUNNING" => run[r].status = "RUNNING"
<1>1. CASE UNCHANGED vars
  BY <1>1 DEF vars
<1>2. ASSUME NEW r \in Run, NEW rev \in Revision, NEW mode \in Mode,
             NEW keys \in SUBSET Key, Schedule(r, rev, mode, keys)
      PROVE  Calm
  BY <1>2 DEF Schedule, TypeOK
<1>3. ASSUME NEW w \in Worker, Admit(w)
      PROVE  \/ Calm
             \/ /\ \A r \in Run : run[r].status = "RUNNING" => run'[r].status # "RUNNING"
                /\ \A r, q \in Run : /\ run'[r].status = "RUNNING"
                                     /\ run'[q].status = "RUNNING"
                                     => r = q
  <2>1. \A r \in Run : AfterFinalize[r].status = "RUNNING" => run[r].status = "RUNNING"
    BY DEF AfterFinalize, Finalized
  <2>2. CASE ~ NoneRunning(AfterFinalize)
    BY <1>3, <2>1, <2>2 DEF Admit
  <2>3. CASE NoneRunning(AfterFinalize)
    <3>1. \A r \in Run : run'[r].status = "RUNNING" => Chosen(r)
      BY <1>3, <2>3 DEF Admit, NoneRunning
    <3>2. \A r \in Run : Chosen(r) => run[r].status = "QUEUED"
      BY DEF Chosen, Admissible
    <3>3. \A r, q \in Run : Chosen(r) /\ Chosen(q) => r = q
      BY DEF Chosen, Admissible, Before, Priority, Run
    <3> QED BY <3>1, <3>2, <3>3
  <2> QED BY <2>2, <2>3
<1>4. ASSUME NEW w \in Worker, AdmitElsewhere(w) \/ Claim(w) \/ Heartbeat(w)
      PROVE  Calm
  <2>1. ASSUME Expire(w) PROVE Calm
    BY <2>1 DEF Expire, TypeOK, RunRow
  <2>2. ASSUME GiveBack(w) PROVE Calm
    BY <2>2 DEF GiveBack, TypeOK, RunRow
  <2> QED BY <1>4, <2>1, <2>2 DEF AdmitElsewhere, Claim, ClaimSelect, ClaimNothing, ClaimLock,
             ClaimRaced, Heartbeat, HeartbeatRenews, HeartbeatOverdue, HeartbeatLost
<1>5. ASSUME NEW w \in Worker, NEW o \in Success \union Failure, HandlerEnds(w, o)
      PROVE  Calm
  BY <1>5 DEF HandlerEnds
<1>6. ASSUME NEW w \in Worker, Settle(w)
      PROVE  Calm
  <2>1. ASSUME NEW tk, Report(w, tk) PROVE Calm
    BY <2>1 DEF Report, Finalized, TypeOK
  <2>2. ASSUME GiveBack(w) PROVE Calm
    BY <2>2 DEF GiveBack, TypeOK, RunRow
  <2> QED BY <1>6, <2>1, <2>2 DEF Settle, ReportSuccess, ReportFailure, ReportOverdue, ReportLost
<1>7. ASSUME NEW w \in Worker, Crash(w) \/ Restart(w)
      PROVE  Calm
  BY <1>7 DEF Crash, Restart
<1>8. ASSUME Tick PROVE Calm
  BY <1>8 DEF Tick, TypeOK, RunRow
<1> QED BY <1>1, <1>2, <1>3, <1>4, <1>5, <1>6, <1>7, <1>8 DEF Next, Poll

\* Only one research run is in progress at any time (one global RUNNING row).
THEOREM OneRunningAlways == Spec => []OneRunning
<1>1. Init => OneRunning
  BY DEF Init, OneRunning, AbsentRun
<1>2. TypeOK /\ OneRunning /\ [Next]_vars => OneRunning'
  BY OnlyAdmissionStarts DEF OneRunning
<1> QED BY <1>1, <1>2, TypeCorrect, PTL DEF Spec

-----------------------------------------------------------------------------
(* The row of a task names a worker only for its latest claim.             *)

\* Time changes nothing but what is left of leases, delays and runs.
LEMMA TickKeeps ==
  ASSUME TypeOK, Tick
  PROVE  /\ \A t \in Task : /\ task'[t].status = task[t].status
                            /\ task'[t].owner = task[t].owner
                            /\ task'[t].attempts = task[t].attempts
         /\ \A r \in Run : run'[r].status = run[r].status
<1>1. ASSUME NEW t \in Task
      PROVE  /\ task'[t].status = task[t].status
             /\ task'[t].owner = task[t].owner
             /\ task'[t].attempts = task[t].attempts
  <2>1. task[t] \in TaskRow
    BY DEF TypeOK
  <2>2. task'[t] = [task[t] EXCEPT !.ttl = AtLeast(-1, @ - 1), !.wait = AtLeast(0, @ - 1)]
    BY DEF Tick
  <2> QED BY <2>1, <2>2 DEF TaskRow
<1>2. ASSUME NEW r \in Run PROVE run'[r].status = run[r].status
  <2>1. run[r] \in RunRow
    BY DEF TypeOK
  <2>2. run'[r] = [run[r] EXCEPT !.left = AtLeast(0, @ - 1)]
    BY DEF Tick
  <2> QED BY <2>1, <2>2 DEF RunRow
<1> QED BY <1>1, <1>2

LEMMA OwnerKept ==
  ASSUME TypeOK, OwnerIsCurrentAttempt, [Next]_vars
  PROVE  OwnerIsCurrentAttempt'
<1> DEFINE Right(v) == pc[v] \in {"work", "report"} /\ Leases(v, held[v])
                         => att[v] = task[held[v]].attempts
<1> SUFFICES ASSUME NEW v \in Worker, Right(v) PROVE Right(v)'
  BY DEF OwnerIsCurrentAttempt
<1>1. CASE UNCHANGED vars
  BY <1>1 DEF vars, Leases
<1>2. ASSUME NEW r \in Run, NEW rev \in Revision, NEW mode \in Mode,
             NEW keys \in SUBSET Key, Schedule(r, rev, mode, keys)
      PROVE  Right(v)'
  BY <1>2 DEF Schedule, TypeOK, Leases, PendingTask, locals
<1>3. ASSUME NEW w \in Worker, Poll(w)
      PROVE  Right(v)'
  BY <1>3 DEF Poll, Admit, AdmitElsewhere, TypeOK, Leases, locals
<1>4. ASSUME NEW w \in Worker, ClaimSelect(w) \/ ClaimNothing(w) \/ ClaimRaced(w)
      PROVE  Right(v)'
  BY <1>4 DEF ClaimSelect, ClaimNothing, ClaimRaced, Forget, TypeOK, Leases, locals
<1>5. ASSUME NEW w \in Worker, ClaimLock(w)
      PROVE  Right(v)'
  <2>1. held[w] \in Task /\ task[held[w]] \in TaskRow
    BY <1>5 DEF ClaimLock, TypeOK
  <2>2. CASE v = w
    BY <1>5, <2>1, <2>2 DEF ClaimLock, StillQualifies, TypeOK, TaskRow
  <2>3. CASE v # w
    BY <1>5, <2>1, <2>3 DEF ClaimLock, TypeOK, TaskRow, Leases
  <2> QED BY <2>2, <2>3
<1>6. ASSUME NEW w \in Worker, GiveBack(w), Forget(w), pc' = [pc EXCEPT ![w] = "poll"],
             held[w] \in Task
      PROVE  Right(v)'
  BY <1>6 DEF GiveBack, Forget, TypeOK, TaskRow, Leases
<1>7. ASSUME NEW w \in Worker, Heartbeat(w)
      PROVE  Right(v)'
  <2>1. CASE HeartbeatRenews(w)
    BY <1>7, <2>1 DEF HeartbeatRenews, TypeOK, TaskRow, Leases, locals
  <2>2. CASE HeartbeatOverdue(w)
    BY <1>6, <2>2 DEF HeartbeatOverdue, TypeOK
  <2>3. CASE HeartbeatLost(w)
    BY <2>3 DEF HeartbeatLost, Forget, TypeOK, Leases
  <2> QED BY <1>7, <2>1, <2>2, <2>3 DEF Heartbeat
<1>8. ASSUME NEW w \in Worker, NEW o \in Success \union Failure, HandlerEnds(w, o)
      PROVE  Right(v)'
  BY <1>8 DEF HandlerEnds, TypeOK, Leases
<1>9. ASSUME NEW w \in Worker, Settle(w)
      PROVE  Right(v)'
  <2>1. CASE ReportSuccess(w)
    BY <2>1, ReportedRow DEF ReportSuccess, Report, Forget, TypeOK, Leases
  <2>2. CASE ReportFailure(w)
    BY <2>2, ReportedRow DEF ReportFailure, Report, Forget, TypeOK, Leases
  <2>3. CASE ReportOverdue(w)
    BY <1>6, <2>3 DEF ReportOverdue, TypeOK
  <2>4. CASE ReportLost(w)
    BY <2>4 DEF ReportLost, Forget, TypeOK, Leases
  <2> QED BY <1>9, <2>1, <2>2, <2>3, <2>4 DEF Settle
<1>10. ASSUME NEW w \in Worker, Crash(w) \/ Restart(w)
      PROVE  Right(v)'
  BY <1>10 DEF Crash, Restart, Forget, TypeOK, Leases, locals
<1>11. ASSUME Tick PROVE Right(v)'
  <2>1. UNCHANGED <<pc, held, att>>
    BY <1>11 DEF Tick
  <2>2. CASE pc[v] \in {"work", "report"}
    <3>1. held[v] \in Task
      BY <2>2 DEF TypeOK
    <3> QED BY <1>11, <2>1, <3>1, TickKeeps DEF Leases
  <2>3. CASE pc[v] \notin {"work", "report"}
    BY <2>1, <2>3
  <2> QED BY <2>2, <2>3
<1> QED BY <1>1, <1>2, <1>3, <1>4, <1>5, <1>7, <1>8, <1>9, <1>10, <1>11 DEF Next, Claim

\* An earlier attempt of a task never passes the ownership check of its row.
THEOREM OwnerIsCurrentAlways == Spec => []OwnerIsCurrentAttempt
<1>1. Init => OwnerIsCurrentAttempt
  BY DEF Init, OwnerIsCurrentAttempt
<1>2. TypeOK /\ OwnerIsCurrentAttempt /\ [Next]_vars => OwnerIsCurrentAttempt'
  BY OwnerKept
<1> QED BY <1>1, <1>2, TypeCorrect, PTL DEF Spec

-----------------------------------------------------------------------------
(* Runs end exactly when their last task settles, or exhausted.            *)

\* What EndsExactlyWhenSettled says of one run.
Unfinished(q) == \E t \in Task : RunOf(t) = q /\ task[t].status \in Open
Exact(q) == /\ run[q].status = "RUNNING" => Unfinished(q)
            /\ run[q].status \in Ended \ {"BUDGET_EXHAUSTED"} => ~ Unfinished(q)

LEMMA EndsExactlyRunByRun ==
  /\ TypeOK => (EndsExactlyWhenSettled <=> \A q \in Run : Exact(q))
  /\ TypeOK' => (EndsExactlyWhenSettled' <=> \A q \in Run : Exact(q)')
<1>1. ASSUME TypeOK PROVE EndsExactlyWhenSettled <=> \A q \in Run : Exact(q)
  BY <1>1 DEF EndsExactlyWhenSettled, Exact, Unfinished, TasksOf, TypeOK, TaskRow, Open, Settled
<1>2. ASSUME TypeOK' PROVE EndsExactlyWhenSettled' <=> \A q \in Run : Exact(q)'
  BY <1>2 DEF EndsExactlyWhenSettled, Exact, Unfinished, TasksOf, TypeOK, TaskRow, Open, Settled
<1> QED BY <1>1, <1>2

\* A run that keeps its status and the statuses of its tasks stays exact.
LEMMA ExactUndisturbed ==
  ASSUME NEW q \in Run, Exact(q), run'[q].status = run[q].status,
         \A t \in Task : RunOf(t) = q =>
            (task'[t].status \in Open <=> task[t].status \in Open)
  PROVE  Exact(q)'
BY DEF Exact, Unfinished

\* finalize_if_idle makes the run it looks at exact.
LEMMA FinalizedIsExact ==
  ASSUME TypeOK, NEW q \in Run, run[q].status = "RUNNING", run'[q] = Finalized(q, task')
  PROVE  Exact(q)'
<1>1. run'[q].status = Verdict(q, task')
  BY DEF Finalized, TypeOK, RunRow
<1>2. /\ Verdict(q, task') = "RUNNING" => Unfinished(q)'
      /\ Verdict(q, task') # "RUNNING" => ~ Unfinished(q)'
  BY VerdictIsFinal DEF Unfinished, Ended, Open
<1> QED BY <1>1, <1>2 DEF Exact, Ended

LEMMA EndsKept ==
  ASSUME TypeOK, EndsExactlyWhenSettled, [Next]_vars
  PROVE  EndsExactlyWhenSettled'
<1> SUFFICES ASSUME NEW q \in Run, Exact(q) PROVE Exact(q)'
  BY EndsExactlyRunByRun, TypeKept
<1> DEFINE Same == run' = run /\ task' = task
<1>0. ASSUME Same PROVE Exact(q)'
  BY <1>0, ExactUndisturbed
<1>1. CASE UNCHANGED vars
  BY <1>0, <1>1 DEF vars
<1>2. ASSUME NEW r \in Run, NEW rev \in Revision, NEW mode \in Mode,
             NEW keys \in SUBSET Key, Schedule(r, rev, mode, keys)
      PROVE  Exact(q)'
  <2>1. CASE q = r
    BY <1>2, <2>1 DEF Schedule, TypeOK, Exact, Ended
  <2>2. CASE q # r
    BY <1>2, <2>2, ExactUndisturbed DEF Schedule, TypeOK
  <2> QED BY <2>1, <2>2
<1>3. ASSUME NEW w \in Worker, Admit(w)
      PROVE  Exact(q)'
  <2>1. CASE NoneRunning(AfterFinalize) /\ Chosen(q)
    <3>1. run'[q].status = "RUNNING"
      BY <1>3, <2>1 DEF Admit, TypeOK, RunRow
    <3>2. Unfinished(q)
      BY <2>1 DEF Chosen, Admissible, TasksOf, Unfinished, Open
    <3> QED BY <1>3, <3>1, <3>2 DEF Admit, Exact, Unfinished, Ended
  <2>2. CASE ~ (NoneRunning(AfterFinalize) /\ Chosen(q))
    <3>1. run'[q] = Finalized(q, task') /\ task' = task
      BY <1>3, <2>2 DEF Admit, AfterFinalize
    <3> QED BY <3>1, FinalizedIsExact, ExactUndisturbed DEF Finalized
  <2> QED BY <2>1, <2>2
<1>4. ASSUME NEW w \in Worker, Expire(w), task' = task
      PROVE  Exact(q)'
  <2>1. run'[q] = run[q] \/ run'[q].status = "BUDGET_EXHAUSTED"
    BY <1>4 DEF Expire, TypeOK, RunRow
  <2> QED BY <1>4, <2>1, ExactUndisturbed DEF Exact, Ended
<1>5. ASSUME NEW w \in Worker, Claim(w)
      PROVE  Exact(q)'
  <2>1. CASE ClaimLock(w)
    <3>1. held[w] \in Task /\ task[held[w]] \in TaskRow /\ task[held[w]].status \in Open
      BY <2>1 DEF ClaimLock, StillQualifies, TypeOK, Open
    <3>2. task'[held[w]].status = "LEASED" /\ \A t \in Task \ {held[w]} : task'[t] = task[t]
      BY <2>1, <3>1 DEF ClaimLock, TypeOK, TaskRow
    <3> QED BY <2>1, <3>1, <3>2, ExactUndisturbed DEF ClaimLock, Open
  <2> QED BY <1>0, <1>4, <1>5, <2>1 DEF Claim, ClaimSelect, ClaimNothing, ClaimRaced
<1>6. ASSUME NEW w \in Worker, GiveBack(w), held[w] \in Task
      PROVE  Exact(q)'
  <2>1. RunOf(held[w]) \in Run /\ run \in [Run -> RunRow] /\ task \in [Task -> TaskRow]
    BY <1>6, TaskFacts DEF TypeOK
  <2>2. CASE q = RunOf(held[w])
    <3>1. run'[q].status = "BUDGET_EXHAUSTED"
      BY <1>6, <2>1, <2>2 DEF GiveBack, RunRow
    <3> QED BY <3>1 DEF Exact, Ended
  <2>3. CASE q # RunOf(held[w])
    <3>1. run'[q] = run[q]
      BY <1>6, <2>1, <2>3 DEF GiveBack
    <3>2. \A t \in Task : RunOf(t) = q => task'[t] = task[t]
      BY <1>6, <2>1, <2>3 DEF GiveBack
    <3> QED BY <3>1, <3>2, ExactUndisturbed
  <2> QED BY <2>2, <2>3
<1>7. ASSUME NEW w \in Worker, Heartbeat(w)
      PROVE  Exact(q)'
  <2>1. CASE HeartbeatRenews(w)
    <3>1. \A t \in Task : task'[t].status = task[t].status
      BY <2>1 DEF HeartbeatRenews, TypeOK, TaskRow
    <3> QED BY <2>1, <3>1, ExactUndisturbed DEF HeartbeatRenews
  <2> QED BY <1>0, <1>6, <1>7, <2>1 DEF Heartbeat, HeartbeatOverdue, HeartbeatLost, TypeOK
<1>8. ASSUME NEW w \in Worker, NEW tk, Report(w, tk),
             \A t \in Task \ {held[w]} : tk[t] = task[t]
      PROVE  Exact(q)'
  <2>1. held[w] \in Task /\ RunOf(held[w]) \in Run /\ run[RunOf(held[w])].status = "RUNNING"
    BY <1>8, TaskFacts DEF Report, Current, TypeOK
  <2>2. CASE q = RunOf(held[w])
    BY <1>8, <2>1, <2>2, FinalizedIsExact DEF Report, TypeOK
  <2>3. CASE q # RunOf(held[w])
    BY <1>8, <2>1, <2>3, ExactUndisturbed DEF Report, TypeOK
  <2> QED BY <2>2, <2>3
<1>9. ASSUME NEW w \in Worker, Settle(w)
      PROVE  Exact(q)'
  <2>1. CASE ReportSuccess(w)
    <3>1. held[w] \in Task
      BY <2>1 DEF ReportSuccess, Report, TypeOK
    <3>2. \A t \in Task \ {held[w]} : Succeeded(w)[t] = task[t]
      BY <3>1, ReportedRow
    <3> QED BY <1>8, <2>1, <3>2 DEF ReportSuccess
  <2>2. CASE ReportFailure(w)
    <3>1. held[w] \in Task
      BY <2>2 DEF ReportFailure, Report, TypeOK
    <3>2. \A t \in Task \ {held[w]} : Failed(w)[t] = task[t]
      BY <3>1, ReportedRow
    <3> QED BY <1>8, <2>2, <3>2 DEF ReportFailure
  <2> QED BY <1>0, <1>6, <1>9, <2>1, <2>2 DEF Settle, ReportOverdue, ReportLost, TypeOK
<1>10. ASSUME Tick PROVE Exact(q)'
  <2>1. /\ \A t \in Task : task'[t].status = task[t].status
        /\ run'[q].status = run[q].status
    BY <1>10, TickKeeps
  <2> QED BY <2>1, ExactUndisturbed
<1>11. ASSUME NEW w \in Worker, AdmitElsewhere(w) \/ Crash(w) \/ Restart(w)
                                \/ \E o \in Success \union Failure : HandlerEnds(w, o)
       PROVE  Exact(q)'
  BY <1>0, <1>11 DEF AdmitElsewhere, Crash, Restart, HandlerEnds
<1> QED BY <1>1, <1>2, <1>3, <1>5, <1>7, <1>9, <1>10, <1>11 DEF Next, Poll

\* The run in progress can still settle a task, and a run that ended otherwise than
\* exhausted has nothing left to settle.
THEOREM EndsExactlyAlways == Spec => []EndsExactlyWhenSettled
<1>1. Init => EndsExactlyWhenSettled
  BY DEF Init, EndsExactlyWhenSettled, AbsentRun, Ended
<1>2. TypeOK /\ EndsExactlyWhenSettled /\ [Next]_vars => EndsExactlyWhenSettled'
  BY EndsKept
<1> QED BY <1>1, <1>2, TypeCorrect, PTL DEF Spec

-----------------------------------------------------------------------------
(* What the steps may never do.                                            *)

LEMMA EndedStays ==
  ASSUME TypeOK, [Next]_vars, NEW q \in Run, run[q].status \in Ended
  PROVE  run'[q].status = run[q].status
<1>1. ASSUME NEW w \in Worker, Expire(w) PROVE run'[q] = run[q]
  BY <1>1 DEF Expire, OverdueRuns, Ended
<1>2. ASSUME NEW w \in Worker, GiveBack(w), Overdue(w, held[w]) PROVE run'[q] = run[q]
  BY <1>2 DEF GiveBack, Overdue, TypeOK, Ended
<1>3. ASSUME NEW w \in Worker, NEW tk, Report(w, tk) PROVE run'[q] = run[q]
  BY <1>3 DEF Report, Current, TypeOK, Ended
<1>4. ASSUME NEW w \in Worker, Admit(w) PROVE run'[q] = run[q]
  BY <1>4 DEF Admit, Chosen, Admissible, AfterFinalize, Finalized, Ended
<1>5. ASSUME Tick PROVE run'[q].status = run[q].status
  BY <1>5 DEF Tick, TypeOK, RunRow
<1>6. ASSUME NEW r \in Run, NEW rev \in Revision, NEW mode \in Mode,
             NEW keys \in SUBSET Key, Schedule(r, rev, mode, keys)
      PROVE  run'[q] = run[q]
  BY <1>6 DEF Schedule, TypeOK, Ended
<1>7. ASSUME NEW w \in Worker,
             \/ Poll(w) \/ Claim(w) \/ Heartbeat(w) \/ Settle(w) \/ Crash(w) \/ Restart(w)
             \/ \E o \in Success \union Failure : HandlerEnds(w, o)
      PROVE  run'[q] = run[q]
  BY <1>1, <1>2, <1>3, <1>4, <1>7
     DEF Poll, AdmitElsewhere, Claim, ClaimSelect, ClaimNothing, ClaimLock, ClaimRaced,
         Heartbeat, HeartbeatRenews, HeartbeatOverdue, HeartbeatLost, HandlerEnds,
         Settle, ReportSuccess, ReportFailure, ReportOverdue, ReportLost, Crash, Restart
<1> QED BY <1>5, <1>6, <1>7 DEF Next, vars

\* A run that has ended is never touched again, whatever late workers report.
THEOREM EndedRunsFrozenAlways == Spec => EndedRunsFrozen
<1>1. TypeOK /\ [Next]_vars =>
        [\A r \in Run : run[r].status \in Ended => run'[r].status = run[r].status]_vars
  BY EndedStays
<1> QED BY <1>1, TypeCorrect, PTL DEF Spec, EndedRunsFrozen

-----------------------------------------------------------------------------
(* How the rows of runs and tasks move.                                    *)

\* A run is never unscheduled, and only admission or its end changes the status of
\* one that is scheduled; its revision stays.
LEMMA RunMoves ==
  ASSUME TypeOK, [Next]_vars, NEW q \in Run
  PROVE  \/ /\ run'[q].rev = run[q].rev
            /\ \/ run'[q].status = run[q].status
               \/ run[q].status = "QUEUED" /\ run'[q].status = "RUNNING"
               \/ run[q].status = "RUNNING" /\ run'[q].status \in Ended
         \/ /\ run[q].status = "ABSENT" /\ run'[q].status = "QUEUED"
            /\ RevisionIsFree(run'[q].rev)
            /\ \A r \in Run \ {q} : run'[r] = run[r]
<1> DEFINE Goes == /\ run'[q].rev = run[q].rev
                   /\ \/ run'[q].status = run[q].status
                      \/ run[q].status = "QUEUED" /\ run'[q].status = "RUNNING"
                      \/ run[q].status = "RUNNING" /\ run'[q].status \in Ended
<1>1. run \in [Run -> RunRow] /\ run[q] \in RunRow
  BY DEF TypeOK
<1>2. ASSUME NEW w \in Worker, Expire(w) PROVE Goes
  BY <1>1, <1>2 DEF Expire, OverdueRuns, RunRow, Ended
<1>3. ASSUME NEW w \in Worker, GiveBack(w), Overdue(w, held[w]) PROVE Goes
  BY <1>1, <1>3 DEF GiveBack, Overdue, RunRow, Ended
<1>4. ASSUME NEW tk
      PROVE  /\ Finalized(q, tk).rev = run[q].rev
             /\ \/ Finalized(q, tk).status = run[q].status
                \/ run[q].status = "RUNNING" /\ Finalized(q, tk).status \in Ended
  BY <1>1, VerdictIsFinal DEF Finalized, RunRow
<1>5. ASSUME NEW w \in Worker, NEW tk, Report(w, tk) PROVE Goes
  BY <1>1, <1>4, <1>5 DEF Report
<1>6. ASSUME NEW w \in Worker, Admit(w) PROVE Goes
  <2>1. CASE NoneRunning(AfterFinalize) /\ Chosen(q)
    <3>1. run'[q] = [run[q] EXCEPT !.status = "RUNNING", !.left = RunTime]
      BY <1>6, <2>1 DEF Admit
    <3> QED BY <1>1, <2>1, <3>1 DEF RunRow, Chosen, Admissible
  <2>2. CASE ~ (NoneRunning(AfterFinalize) /\ Chosen(q))
    <3>1. run'[q] = Finalized(q, task)
      BY <1>6, <2>2 DEF Admit, AfterFinalize
    <3> QED BY <1>4, <3>1
  <2> QED BY <2>1, <2>2
<1>7. ASSUME Tick PROVE Goes
  BY <1>1, <1>7 DEF Tick, RunRow
<1>8. ASSUME NEW w \in Worker,
             \/ Poll(w) \/ Claim(w) \/ Heartbeat(w) \/ Settle(w) \/ Crash(w) \/ Restart(w)
             \/ \E o \in Success \union Failure : HandlerEnds(w, o)
      PROVE  Goes
  <2>1. ASSUME run' = run PROVE Goes
    BY <2>1
  <2> QED BY <2>1, <1>2, <1>3, <1>5, <1>6, <1>8
     DEF Poll, AdmitElsewhere, Claim, ClaimSelect, ClaimNothing, ClaimLock, ClaimRaced,
         Heartbeat, HeartbeatRenews, HeartbeatOverdue, HeartbeatLost, HandlerEnds,
         Settle, ReportSuccess, ReportFailure, ReportOverdue, ReportLost, Crash, Restart
<1>9. ASSUME NEW r \in Run, NEW rev \in Revision, NEW mode \in Mode,
             NEW keys \in SUBSET Key, Schedule(r, rev, mode, keys)
      PROVE  Goes \/ /\ run[q].status = "ABSENT" /\ run'[q].status = "QUEUED"
                     /\ RevisionIsFree(run'[q].rev)
                     /\ \A p \in Run \ {q} : run'[p] = run[p]
  BY <1>1, <1>9 DEF Schedule
<1>10. CASE UNCHANGED vars
  BY <1>10 DEF vars
<1> QED BY <1>7, <1>8, <1>9, <1>10 DEF Next

\* hunt and monitor never leave a revision with two queued or running runs.
THEOREM OneActiveAlways == Spec => []OneActivePerRevision
<1>1. Init => OneActivePerRevision
  BY DEF Init, OneActivePerRevision, AbsentRun, Active
<1>2. ASSUME TypeOK, OneActivePerRevision, [Next]_vars PROVE OneActivePerRevision'
  <2> SUFFICES ASSUME NEW r \in Run, NEW q \in Run, run'[r].status \in Active,
                      run'[q].status \in Active, run'[r].rev = run'[q].rev, r # q
               PROVE  FALSE
    BY DEF OneActivePerRevision
  <2> DEFINE Old(p) == run[p].status \in Active /\ run'[p].rev = run[p].rev
             New(p) == /\ RevisionIsFree(run'[p].rev)
                       /\ \A x \in Run \ {p} : run'[x] = run[x]
  <2>1. (Old(r) \/ New(r)) /\ (Old(q) \/ New(q))
    BY <1>2, RunMoves DEF Active, Ended
  <2>2. CASE Old(r) /\ Old(q)
    BY <1>2, <2>2 DEF OneActivePerRevision
  <2>3. CASE New(r)
    BY <2>3 DEF RevisionIsFree
  <2>4. CASE New(q)
    BY <2>4 DEF RevisionIsFree
  <2> QED BY <2>1, <2>2, <2>3, <2>4
<1> QED BY <1>1, <1>2, TypeCorrect, PTL DEF Spec

\* The statuses of task t allow the step: it keeps its status, stays open, appears
\* with its run, or settles by the report of the worker that made the latest claim.
TaskMove(t) ==
  \/ task'[t].status = task[t].status
  \/ task[t].status \in Open /\ task'[t].status \in Open
  \/ /\ run[RunOf(t)].status = "ABSENT"
     /\ run'[RunOf(t)].status = "QUEUED"
     /\ task'[t].status = "PENDING"
  \/ /\ task'[t].status \in Settled
     /\ \E w \in Worker : /\ pc[w] = "report" /\ pc'[w] = "poll"
                          /\ held[w] = t
                          /\ Current(w, t)

LEMMA TaskMoves ==
  ASSUME TypeOK, [Next]_vars, NEW t \in Task
  PROVE  TaskMove(t)
<1>1. RunOf(t) \in Run /\ run[RunOf(t)] \in RunRow /\ task[t] \in TaskRow
  BY TaskFacts DEF TypeOK
<1>2. ASSUME task' = task PROVE TaskMove(t)
  BY <1>2 DEF TaskMove
<1>3. ASSUME NEW r \in Run, NEW rev \in Revision, NEW mode \in Mode,
             NEW keys \in SUBSET Key, Schedule(r, rev, mode, keys)
      PROVE  TaskMove(t)
  <2>1. CASE RunOf(t) = r /\ t[2] \in keys
    <3>1. /\ run'[r].status = "QUEUED" /\ run[r].status = "ABSENT"
          /\ task'[t].status = "PENDING"
      BY <1>3, <2>1 DEF Schedule, TypeOK, PendingTask
    <3> QED BY <2>1, <3>1 DEF TaskMove
  <2>2. CASE ~ (RunOf(t) = r /\ t[2] \in keys)
    BY <1>3, <2>2 DEF Schedule, TaskMove
  <2> QED BY <2>1, <2>2
<1>4. ASSUME NEW w \in Worker, GiveBack(w), Overdue(w, held[w]), held[w] \in Task
      PROVE  TaskMove(t)
  BY <1>1, <1>4 DEF GiveBack, Overdue, Leases, TypeOK, TaskMove, TaskRow, Open
<1>5. ASSUME NEW w \in Worker, ClaimLock(w) PROVE TaskMove(t)
  BY <1>1, <1>5 DEF ClaimLock, StillQualifies, TypeOK, TaskMove, TaskRow, Open
<1>6. ASSUME NEW w \in Worker, HeartbeatRenews(w) PROVE TaskMove(t)
  BY <1>1, <1>6 DEF HeartbeatRenews, TypeOK, TaskMove, TaskRow
<1>7. ASSUME NEW w \in Worker, NEW tk, Report(w, tk), held[w] \in Task,
             tk[held[w]].status \in {"PENDING", "SUCCEEDED", "FAILED"},
             \A u \in Task \ {held[w]} : tk[u] = task[u]
      PROVE  TaskMove(t)
  <2>1. pc[w] = "report" /\ pc'[w] = "poll" /\ Current(w, held[w]) /\ task' = tk
    BY <1>7 DEF Report, TypeOK
  <2>2. CASE t # held[w]
    BY <1>7, <2>1, <2>2 DEF TaskMove
  <2>3. CASE t = held[w]
    BY <1>7, <2>1, <2>3 DEF TaskMove, Current, Leases, Open, Settled
  <2> QED BY <2>2, <2>3
<1>8. ASSUME NEW w \in Worker, ReportSuccess(w) \/ ReportFailure(w) PROVE TaskMove(t)
  <2>1. held[w] \in Task
    BY <1>8 DEF ReportSuccess, ReportFailure, Report, TypeOK
  <2>2. CASE ReportSuccess(w)
    BY <1>7, <2>1, <2>2, ReportedRow DEF ReportSuccess
  <2>3. CASE ReportFailure(w)
    BY <1>7, <2>1, <2>3, ReportedRow DEF ReportFailure
  <2> QED BY <1>8, <2>2, <2>3
<1>9. ASSUME NEW w \in Worker, HeartbeatOverdue(w) \/ ReportOverdue(w) PROVE TaskMove(t)
  BY <1>4, <1>9 DEF HeartbeatOverdue, ReportOverdue, TypeOK
<1>10. ASSUME Tick PROVE TaskMove(t)
  BY <1>1, <1>10 DEF Tick, TaskMove, TaskRow
<1>11. ASSUME NEW w \in Worker,
              \/ Poll(w) \/ Claim(w) \/ Heartbeat(w) \/ Settle(w) \/ Crash(w) \/ Restart(w)
              \/ \E o \in Success \union Failure : HandlerEnds(w, o)
       PROVE  TaskMove(t)
  BY <1>2, <1>5, <1>6, <1>8, <1>9, <1>11
     DEF Poll, Admit, AdmitElsewhere, Claim, ClaimSelect, ClaimNothing, ClaimRaced,
         Heartbeat, HeartbeatLost, HandlerEnds, Settle, ReportLost, Crash, Restart
<1>12. CASE UNCHANGED vars
  BY <1>2, <1>12 DEF vars
<1> QED BY <1>3, <1>10, <1>11, <1>12 DEF Next

\* A run has no tasks before it is scheduled: why no settled task is enqueued again.
NoTasksBeforeRun ==
  \A t \in Task : run[RunOf(t)].status = "ABSENT" => task[t].status = "ABSENT"

LEMMA NoTasksBeforeRunAlways == Spec => []NoTasksBeforeRun
<1>1. Init => NoTasksBeforeRun
  BY DEF Init, NoTasksBeforeRun, AbsentTask, PendingTask
<1>2. ASSUME TypeOK, NoTasksBeforeRun, [Next]_vars PROVE NoTasksBeforeRun'
  <2> SUFFICES ASSUME NEW t \in Task, run'[RunOf(t)].status = "ABSENT"
               PROVE  task'[t].status = "ABSENT"
    BY DEF NoTasksBeforeRun
  <2>1. run[RunOf(t)].status = "ABSENT"
    BY <1>2, RunMoves, TaskFacts DEF Ended
  <2>2. task[t].status = "ABSENT"
    BY <1>2, <2>1 DEF NoTasksBeforeRun
  <2> QED BY <1>2, <2>1, <2>2, TaskMoves DEF TaskMove, Open, Current
<1> QED BY <1>1, <1>2, TypeCorrect, PTL DEF Spec

\* A task settles once, in the run in progress, within its lease, and by the worker
\* that made the latest claim; nobody undoes it.
THEOREM OnlyLiveAttemptSettlesAlways == Spec => OnlyLiveAttemptSettles
<1> DEFINE Move == \A t \in Task :
       /\ task[t].status \in Settled => task'[t].status = task[t].status
       /\ task[t].status \notin Settled /\ task'[t].status \in Settled =>
            /\ run[RunOf(t)].status = "RUNNING"
            /\ run[RunOf(t)].left > 0
            /\ task[t].ttl > 0
            /\ \E w \in Worker : /\ pc[w] = "report"
                                 /\ held[w] = t
                                 /\ att[w] = task[t].attempts
                                 /\ pc'[w] = "poll"
<1>1. ASSUME TypeOK, OwnerIsCurrentAttempt, NoTasksBeforeRun, [Next]_vars
      PROVE  Move
  <2> SUFFICES ASSUME NEW t \in Task
               PROVE  /\ task[t].status \in Settled => task'[t].status = task[t].status
                      /\ task[t].status \notin Settled /\ task'[t].status \in Settled =>
                            /\ run[RunOf(t)].status = "RUNNING"
                            /\ run[RunOf(t)].left > 0
                            /\ task[t].ttl > 0
                            /\ \E w \in Worker : /\ pc[w] = "report"
                                                 /\ held[w] = t
                                                 /\ att[w] = task[t].attempts
                                                 /\ pc'[w] = "poll"
    OBVIOUS
  <2>1. CASE task'[t].status = task[t].status
    BY <2>1
  <2>2. CASE task[t].status \in Open /\ task'[t].status \in Open
    BY <2>2 DEF Open, Settled
  <2>3. CASE run[RunOf(t)].status = "ABSENT" /\ task'[t].status = "PENDING"
    BY <1>1, <2>3 DEF NoTasksBeforeRun, Settled
  <2>4. ASSUME task'[t].status \in Settled, NEW w \in Worker, pc[w] = "report",
               pc'[w] = "poll", held[w] = t, Current(w, t)
        PROVE  /\ task[t].status \notin Settled
               /\ run[RunOf(t)].status = "RUNNING" /\ run[RunOf(t)].left > 0
               /\ task[t].ttl > 0 /\ att[w] = task[t].attempts
    BY <1>1, <2>4 DEF Current, Leases, Settled, OwnerIsCurrentAttempt
  <2> QED BY <1>1, <2>1, <2>2, <2>3, <2>4, TaskMoves DEF TaskMove
<1>2. TypeOK /\ OwnerIsCurrentAttempt /\ NoTasksBeforeRun /\ [Next]_vars
        => [Move]_vars
  BY <1>1
<1> QED BY <1>2, TypeCorrect, OwnerIsCurrentAlways, NoTasksBeforeRunAlways, PTL
        DEF Spec, OnlyLiveAttemptSettles

-----------------------------------------------------------------------------
(* A lease ends no later than the run in progress.  Why it holds: a lease  *)
(* is cut at the deadline when it is given, so none may be older than the  *)
(* deadline itself, which admission sets.                                  *)

Begun(r) == run[r].status \notin {"ABSENT", "QUEUED"}

\* Leases are given, and asked for, in runs that have begun only.
BegunBeforeLease ==
  /\ \A t \in Task : task[t].status = "LEASED" => Begun(RunOf(t))
  /\ \A w \in Worker : pc[w] = "lock" => Begun(RunOf(held[w]))

\* A worker that locks a task has just read that its run is in progress.
LEMMA LocksInBegunRun ==
  ASSUME TypeOK, [Next]_vars, NEW w \in Worker, pc'[w] = "lock"
  PROVE  \/ pc[w] = "lock" /\ held'[w] = held[w]
         \/ held'[w] \in Task /\ Begun(RunOf(held'[w]))
<1>1. ASSUME NEW v \in Worker, ClaimSelect(v), v = w
      PROVE  held'[w] \in Task /\ Begun(RunOf(held'[w]))
  BY <1>1 DEF ClaimSelect, Claimable, TypeOK, Begun
<1>2. ASSUME NEW v \in Worker, ClaimSelect(v), v # w
      PROVE  pc[w] = "lock" /\ held'[w] = held[w]
  BY <1>2 DEF ClaimSelect, TypeOK
<1>3. ASSUME NEW v \in Worker, Forget(v), \E p \in {"poll", "down"} : pc' = [pc EXCEPT ![v] = p]
      PROVE  pc[w] = "lock" /\ held'[w] = held[w]
  BY <1>3 DEF Forget, TypeOK
<1>4. ASSUME NEW v \in Worker, UNCHANGED held,
             \/ pc' = pc
             \/ \E p \in {"poll", "claim", "work", "report"} : pc' = [pc EXCEPT ![v] = p]
      PROVE  pc[w] = "lock" /\ held'[w] = held[w]
  BY <1>4 DEF TypeOK
<1>5. ASSUME NEW v \in Worker, Claim(v) \/ Poll(v)
      PROVE  \/ pc[w] = "lock" /\ held'[w] = held[w]
             \/ held'[w] \in Task /\ Begun(RunOf(held'[w]))
  BY <1>1, <1>2, <1>3, <1>4, <1>5
     DEF Claim, ClaimNothing, ClaimLock, ClaimRaced, Poll, Admit, AdmitElsewhere, locals
<1>6. ASSUME NEW v \in Worker,
             \/ Heartbeat(v) \/ Settle(v) \/ Crash(v) \/ Restart(v)
             \/ \E o \in Success \union Failure : HandlerEnds(v, o)
      PROVE  pc[w] = "lock" /\ held'[w] = held[w]
  BY <1>3, <1>4, <1>6
     DEF Heartbeat, HeartbeatRenews, HeartbeatOverdue, HeartbeatLost, HandlerEnds, Settle,
         ReportSuccess, ReportFailure, Report, ReportOverdue, ReportLost, Crash, Restart, locals
<1> QED BY <1>5, <1>6 DEF Next, Schedule, Tick, locals, vars

LEMMA BegunStays ==
  ASSUME TypeOK, [Next]_vars, NEW r \in Run, Begun(r)
  PROVE  Begun(r)'
BY RunMoves DEF Begun, Ended

\* No row but one just claimed becomes LEASED.
LEMMA LeasedByClaim ==
  ASSUME TypeOK, [Next]_vars, NEW t \in Task, task'[t].status = "LEASED"
  PROVE  \/ task[t].status = "LEASED" /\ task'[t] = task[t]
         \/ task[t].status = "LEASED" /\ Tick
         \/ \E w \in Worker : HeartbeatRenews(w) /\ held[w] = t /\ task[t].status = "LEASED"
         \/ \E w \in Worker : ClaimLock(w) /\ held[w] = t
<1> DEFINE Keeps == task[t].status = "LEASED" /\ task'[t] = task[t]
<1>1. task[t] \in TaskRow
  BY DEF TypeOK
<1>2. ASSUME NEW r \in Run, NEW rev \in Revision, NEW mode \in Mode,
             NEW keys \in SUBSET Key, Schedule(r, rev, mode, keys)
      PROVE  Keeps
  BY <1>2 DEF Schedule, PendingTask
<1>3. ASSUME NEW w \in Worker, GiveBack(w), held[w] \in Task PROVE Keeps
  BY <1>1, <1>3 DEF GiveBack, TypeOK, TaskRow
<1>4. ASSUME NEW w \in Worker, ReportSuccess(w) \/ ReportFailure(w) PROVE Keeps
  <2>1. held[w] \in Task
    BY <1>4 DEF ReportSuccess, ReportFailure, Report, TypeOK
  <2>2. /\ task'[held[w]].status # "LEASED"
        /\ \A u \in Task \ {held[w]} : task'[u] = task[u]
    BY <1>4, <2>1, ReportedRow DEF ReportSuccess, ReportFailure, Report
  <2> QED BY <2>2
<1>5. ASSUME NEW w \in Worker, HeartbeatOverdue(w) \/ ReportOverdue(w) PROVE Keeps
  BY <1>3, <1>5 DEF HeartbeatOverdue, ReportOverdue, TypeOK
<1>6. ASSUME NEW w \in Worker, HeartbeatRenews(w)
      PROVE  Keeps \/ (held[w] = t /\ task[t].status = "LEASED")
  BY <1>1, <1>6 DEF HeartbeatRenews, Current, Leases, TypeOK
<1>7. ASSUME NEW w \in Worker, ClaimLock(w) PROVE Keeps \/ held[w] = t
  BY <1>1, <1>7 DEF ClaimLock, TypeOK
<1>8. ASSUME Tick PROVE task[t].status = "LEASED"
  BY <1>1, <1>8 DEF Tick, TaskRow
<1>9. ASSUME task' = task PROVE Keeps
  BY <1>9
<1>10. ASSUME NEW w \in Worker,
              \/ Poll(w) \/ ClaimSelect(w) \/ ClaimNothing(w) \/ ClaimRaced(w)
              \/ HeartbeatLost(w) \/ ReportLost(w) \/ Crash(w) \/ Restart(w)
              \/ \E o \in Success \union Failure : HandlerEnds(w, o)
       PROVE  Keeps
  BY <1>9, <1>10 DEF Poll, Admit, AdmitElsewhere, ClaimSelect, ClaimNothing, ClaimRaced,
                     HeartbeatLost, ReportLost, Crash, Restart, HandlerEnds
<1> QED BY <1>2, <1>4, <1>5, <1>6, <1>7, <1>8, <1>9, <1>10
        DEF Next, Claim, Heartbeat, Settle, vars

LEMMA BegunBeforeLeaseAlways == Spec => []BegunBeforeLease
<1>1. Init => BegunBeforeLease
  BY DEF Init, BegunBeforeLease, AbsentTask, PendingTask
<1>2. ASSUME TypeOK, BegunBeforeLease, [Next]_vars PROVE BegunBeforeLease'
  <2>1. ASSUME NEW t \in Task, task'[t].status = "LEASED" PROVE Begun(RunOf(t))'
    <3>1. CASE task[t].status = "LEASED"
      BY <1>2, <3>1, BegunStays, TaskFacts DEF BegunBeforeLease
    <3>2. ASSUME NEW w \in Worker, ClaimLock(w), held[w] = t PROVE Begun(RunOf(t))'
      BY <1>2, <3>2, BegunStays, TaskFacts DEF BegunBeforeLease, ClaimLock
    <3> QED BY <1>2, <2>1, <3>1, <3>2, LeasedByClaim
  <2>2. ASSUME NEW w \in Worker, pc'[w] = "lock"
        PROVE  run'[RunOf(held'[w])].status \notin {"ABSENT", "QUEUED"}
    <3>1. PICK t \in Task : t = held'[w] /\ Begun(RunOf(t))
      BY <1>2, <2>2, LocksInBegunRun DEF BegunBeforeLease, TypeOK
    <3>2. Begun(RunOf(t))'
      BY <1>2, <3>1, BegunStays, TaskFacts
    <3> QED BY <3>1, <3>2 DEF Begun
  <2> QED BY <2>1, <2>2 DEF BegunBeforeLease, Begun
<1> QED BY <1>1, <1>2, TypeCorrect, PTL DEF Spec

\* The deadline of a run in progress does not move while it goes on.
LEMMA DeadlineStays ==
  ASSUME TypeOK, [Next]_vars, NEW r \in Run, run[r].status = "RUNNING",
         run'[r].status = "RUNNING"
  PROVE  run'[r].left = run[r].left \/ Tick
<1> DEFINE Stays == run'[r].left = run[r].left
<1>1. run \in [Run -> RunRow] /\ run[r] \in RunRow
  BY DEF TypeOK
<1>2. ASSUME NEW w \in Worker, Expire(w) \/ GiveBack(w) PROVE Stays
  BY <1>1, <1>2 DEF Expire, GiveBack, RunRow
<1>3. ASSUME NEW tk PROVE Finalized(r, tk).left = run[r].left
  BY <1>1 DEF Finalized, RunRow
<1>4. ASSUME NEW w \in Worker, NEW tk, Report(w, tk) PROVE Stays
  BY <1>1, <1>3, <1>4 DEF Report
<1>5. ASSUME NEW w \in Worker, Admit(w) PROVE Stays
  BY <1>3, <1>5 DEF Admit, AfterFinalize, Chosen, Admissible
<1>6. ASSUME run' = run PROVE Stays
  BY <1>6
<1>7. ASSUME NEW w \in Worker,
             \/ Poll(w) \/ Claim(w) \/ Heartbeat(w) \/ Settle(w) \/ Crash(w) \/ Restart(w)
             \/ \E o \in Success \union Failure : HandlerEnds(w, o)
      PROVE  Stays
  BY <1>2, <1>4, <1>5, <1>6, <1>7
     DEF Poll, AdmitElsewhere, Claim, ClaimSelect, ClaimNothing, ClaimLock, ClaimRaced,
         Heartbeat, HeartbeatRenews, HeartbeatOverdue, HeartbeatLost, HandlerEnds,
         Settle, ReportSuccess, ReportFailure, ReportOverdue, ReportLost, Crash, Restart
<1>8. ASSUME NEW q \in Run, NEW rev \in Revision, NEW mode \in Mode,
             NEW keys \in SUBSET Key, Schedule(q, rev, mode, keys)
      PROVE  Stays
  BY <1>1, <1>8 DEF Schedule
<1> QED BY <1>6, <1>7, <1>8 DEF Next, vars

\* A claim cuts the lease at the deadline of the run.
LEMMA ClaimCutsLease ==
  ASSUME TypeOK, NEW w \in Worker, ClaimLock(w)
  PROVE  task'[held[w]].ttl <= run'[RunOf(held[w])].left
<1>1. /\ held[w] \in Task /\ RunOf(held[w]) \in Run /\ task[held[w]] \in TaskRow
      /\ run[RunOf(held[w])].left \in 0 .. RunTime /\ age[w] \in Int
  BY TaskFacts DEF ClaimLock, TypeOK, RunRow
<1>2. /\ task'[held[w]].ttl = AtLeast(-1, Lower(LeaseTime - age[w], run[RunOf(held[w])].left))
      /\ run' = run
  BY <1>1 DEF ClaimLock, TypeOK, TaskRow
<1> QED BY <1>1, <1>2, ConstantsAssumption DEF AtLeast, Lower

\* A task lease never outlasts the deadline of the run in progress.
THEOREM LeaseWithinDeadlineAlways == Spec => []LeaseWithinDeadline
<1>1. Init => LeaseWithinDeadline
  BY DEF Init, LeaseWithinDeadline, AbsentTask, PendingTask
<1>2. ASSUME TypeOK, BegunBeforeLease, LeaseWithinDeadline, [Next]_vars
      PROVE  LeaseWithinDeadline'
  <2> SUFFICES ASSUME NEW t \in Task, task'[t].status = "LEASED",
                      run'[RunOf(t)].status = "RUNNING"
               PROVE  task'[t].ttl <= run'[RunOf(t)].left
    BY DEF LeaseWithinDeadline
  <2> DEFINE r == RunOf(t)
  <2>1. /\ r \in Run /\ run[r] \in RunRow /\ task[t] \in TaskRow
        /\ run[r].left \in 0 .. RunTime /\ task[t].ttl \in -1 .. LeaseTime
    BY <1>2, TaskFacts DEF TypeOK, RunRow, TaskRow
  <2>2. CASE task[t].status = "LEASED"
    <3>1. run[r].status = "RUNNING" /\ task[t].ttl <= run[r].left
      BY <1>2, <2>1, <2>2, RunMoves DEF BegunBeforeLease, Begun, LeaseWithinDeadline, Ended
    <3>2. CASE Tick
      <4>1. /\ task'[t].ttl = AtLeast(-1, task[t].ttl - 1)
            /\ run'[r].left = AtLeast(0, run[r].left - 1)
        BY <2>1, <3>2 DEF Tick, RunRow, TaskRow
      <4> QED BY <2>1, <3>1, <4>1, ConstantsAssumption DEF AtLeast
    <3>3. ASSUME NEW w \in Worker, HeartbeatRenews(w), held[w] = t
          PROVE  task'[t].ttl <= run'[r].left
      <4>1. task'[t].ttl = Lower(LeaseTime, run[r].left) /\ run' = run
        BY <1>2, <2>1, <3>3 DEF HeartbeatRenews, TypeOK, TaskRow
      <4> QED BY <2>1, <4>1, ConstantsAssumption DEF Lower
    <3>4. CASE task'[t] = task[t] /\ ~ Tick
      BY <1>2, <2>1, <3>1, <3>4, DeadlineStays
    <3>5. ASSUME NEW w \in Worker, ClaimLock(w), held[w] = t
          PROVE  task'[t].ttl <= run'[r].left
      BY <1>2, <2>1, <3>5, ClaimCutsLease
    <3> QED BY <1>2, <3>2, <3>3, <3>4, <3>5, LeasedByClaim
  <2>3. CASE task[t].status # "LEASED"
    <3>1. \E w \in Worker : ClaimLock(w) /\ held[w] = t
      BY <1>2, <2>3, LeasedByClaim
    <3> QED BY <1>2, <2>1, <3>1, ClaimCutsLease
  <2> QED BY <2>2, <2>3
<1> QED BY <1>1, <1>2, TypeCorrect, BegunBeforeLeaseAlways, PTL DEF Spec

-----------------------------------------------------------------------------
(* The queue implements ResearchRuns: what a step does to the statuses of  *)
(* the runs and to the results of the tasks is a step of ResearchRuns, or  *)
(* nothing.                                                                *)

Result(t) == IF task[t].status \in Open THEN "OPEN" ELSE task[t].status

SameRun(r) == run'[r].status = run[r].status
SameResults == \A t \in Task : Result(t)' = Result(t)

\* The steps of ResearchRuns, run by run and task by task.
LEMMA AbstractSteps ==
  ASSUME TypeOK, NEW r \in Run, \A q \in Run \ {r} : SameRun(q)
  PROVE  /\ SameRun(r) /\ SameResults => UNCHANGED Abstract!avars
         /\ /\ run[r].status = "QUEUED" /\ run'[r].status = "RUNNING"
            /\ \A q \in Run : run[q].status # "RUNNING"
            /\ SameResults
            => Abstract!Start(r)
         /\ /\ run[r].status = "RUNNING" /\ run'[r].status = "BUDGET_EXHAUSTED"
            /\ SameResults
            => Abstract!Exhaust(r)
<1>1. SameRun(r) /\ SameResults => UNCHANGED Abstract!avars
  BY DEF SameRun, SameResults, Result, Abstract!avars
<1>2. ASSUME SameResults PROVE UNCHANGED [t \in Task |-> Result(t)]
  BY <1>2 DEF SameResults
<1>3. /\ run[r].status = "QUEUED" /\ run'[r].status = "RUNNING"
      /\ \A q \in Run : run[q].status # "RUNNING"
      /\ SameResults
      => Abstract!Start(r)
  BY <1>2 DEF SameRun, SameResults, Result, Abstract!Start
<1>4. /\ run[r].status = "RUNNING" /\ run'[r].status = "BUDGET_EXHAUSTED"
      /\ SameResults
      => Abstract!Exhaust(r)
  BY <1>2 DEF SameRun, SameResults, Result, Abstract!Exhaust
<1> QED BY <1>1, <1>3, <1>4

\* A run is said to have ended as it may be, given how its tasks ended.
LEMMA SettledVerdictIsFair ==
  ASSUME NEW ts, NEW tk
  PROVE  /\ (\E t \in ts : tk[t].status = "FAILED") => SettledVerdict(ts, tk) # "COMPLETED"
         /\ (\A t \in ts : tk[t].status # "FAILED") =>
               SettledVerdict(ts, tk) \in {"COMPLETED", "COMPLETED_WITH_WARNINGS", "FAILED"}
<1> DEFINE failed == {t \in ts : tk[t].status = "FAILED"}
<1>1. failed # {} => SettledVerdict(ts, tk) # "COMPLETED"
  BY Zenon DEF SettledVerdict
<1>2. failed = {} => SettledVerdict(ts, tk) \in {"COMPLETED", "COMPLETED_WITH_WARNINGS", "FAILED"}
  BY Zenon DEF SettledVerdict
<1> QED BY <1>1, <1>2

\* What scheduling does to the statuses and the results.
LEMMA ScheduleIsNew ==
  ASSUME TypeOK, NoTasksBeforeRun, NEW r \in Run, NEW rev \in Revision, NEW mode \in Mode,
         NEW keys \in SUBSET Key, Schedule(r, rev, mode, keys)
  PROVE  Abstract!New(r)
<1> DEFINE ts == {t \in Task : RunOf(t) = r /\ t[2] \in keys}
           res == [t \in Task |-> Result(t)]
<1>1. [q \in Run |-> run[q].status]' = [[q \in Run |-> run[q].status] EXCEPT ![r] = "QUEUED"]
  BY DEF Schedule, TypeOK
<1>2. ts \in (SUBSET Abstract!Of(r)) \ {{}}
  <2>1. <<r, Root>> \in ts
    BY DEF Schedule, Task, RunOf
  <2> QED BY <2>1 DEF Abstract!Of, RunOf
<1>3. \A t \in Task : Result(t)' = IF t \in ts THEN "OPEN" ELSE Result(t)
  BY DEF Schedule, Result, PendingTask, Open
<1>4. run[r].status = "ABSENT"
  BY DEF Schedule
<1>5. \E s \in (SUBSET Abstract!Of(r)) \ {{}} :
         [t \in Task |-> Result(t)]' = [t \in Task |-> IF t \in s THEN "OPEN" ELSE res[t]]
  BY <1>2, <1>3
<1> QED BY <1>1, <1>4, <1>5 DEF Abstract!New, Result

\* succeed and fail, with what finalize_if_idle makes of the run.
LEMMA ReportIsFinish ==
  ASSUME TypeOK, NEW w \in Worker, NEW tk, Report(w, tk), held[w] \in Task,
         tk[held[w]].status \in {"PENDING", "SUCCEEDED", "FAILED"},
         \A u \in Task \ {held[w]} : tk[u] = task[u]
  PROVE  (\E r \in Run : Abstract!Finish(r)) \/ UNCHANGED Abstract!avars
<1>0. PICK t \in Task : t = held[w]
  OBVIOUS
<1>r. PICK r \in Run : r = RunOf(t)
  BY TaskFacts
<1> DEFINE ts == {u \in Task : RunOf(u) = r /\ tk[u].status # "ABSENT"}
<1>1. /\ t \in Task /\ r \in Run /\ run[r].status = "RUNNING" /\ run[r] \in RunRow
      /\ task[t].status = "LEASED" /\ task' = tk
      /\ run'[r] = Finalized(r, tk) /\ \A q \in Run \ {r} : run'[q] = run[q]
      /\ \A u \in Task \ {t} : task'[u] = task[u]
      /\ \A u \in Task : task'[u].status # "OPEN"
  <2>1. task \in [Task -> TaskRow] /\ run \in [Run -> RunRow]
    BY DEF TypeOK
  <2>2. \A u \in Task : task[u].status # "OPEN"
    BY <2>1 DEF TaskRow, Open, Settled
  <2> QED BY <1>0, <1>r, <2>1, <2>2, TaskFacts DEF Report, Current, Leases
<1>2. run'[r].status = Verdict(r, tk)
  BY <1>1 DEF Finalized, RunRow
<1>3. CASE tk[t].status = "PENDING"
  <2>1. Verdict(r, tk) = "RUNNING"
    BY <1>1, <1>r, <1>3, VerdictIsFinal DEF Open
  <2>2. SameRun(r) /\ \A q \in Run \ {r} : SameRun(q)
    BY <1>1, <1>2, <2>1 DEF SameRun
  <2>3. SameResults
    BY <1>1, <1>3 DEF SameResults, Result, Open
  <2> QED BY <1>1, <2>2, <2>3, AbstractSteps
<1>4. CASE tk[t].status \in {"SUCCEEDED", "FAILED"}
  <2>1. /\ Result(t) = "OPEN" /\ Result(t)' = tk[t].status
        /\ \A u \in Task \ {t} : Result(u)' = Result(u)
    BY <1>1, <1>4 DEF Result, Open
  <2>2. \E u \in Abstract!Of(r), res \in {"SUCCEEDED", "FAILED"} :
           /\ [v \in Task |-> Result(v)][u] = "OPEN"
           /\ [v \in Task |-> Result(v)]' = [[v \in Task |-> Result(v)] EXCEPT ![u] = res]
    <3>1. t \in Abstract!Of(r)
      BY <1>r DEF Abstract!Of, RunOf
    <3>2. [v \in Task |-> Result(v)]' = [[v \in Task |-> Result(v)] EXCEPT ![t] = tk[t].status]
      BY <1>1, <2>1
    <3> QED BY <1>1, <1>4, <2>1, <3>1, <3>2
  <2>3. CASE \E u \in Abstract!Of(r) : Result(u)' = "OPEN"
    <3>1. \E u \in Task : RunOf(u) = r /\ tk[u].status \in Open
      BY <1>1, <2>3 DEF Abstract!Of, RunOf, Result
    <3>2. Verdict(r, tk) = "RUNNING"
      BY <3>1, VerdictIsFinal DEF Open
    <3>3. [q \in Run |-> run[q].status]' = [q \in Run |-> run[q].status]
      BY <1>1, <1>2, <3>2
    <3> QED BY <1>1, <2>2, <2>3, <3>3 DEF Abstract!Finish, Abstract!Of, Result
  <2>4. CASE ~ \E u \in Abstract!Of(r) : Result(u)' = "OPEN"
    <3>1. \A u \in Task : RunOf(u) = r => tk[u].status \notin Open
      BY <1>1, <2>4 DEF Abstract!Of, RunOf, Result
    <3>2. Verdict(r, tk) = SettledVerdict(ts, tk)
      <4>1. t \in ts
        BY <1>1, <1>r, <1>4
      <4> QED BY <3>1, <4>1 DEF Verdict
    <3>3. Verdict(r, tk) \in Abstract!Fair(r, [v \in Task |-> Result(v)]')
      <4>1. \A u \in Abstract!Of(r) :
               [v \in Task |-> Result(v)]'[u] # "FAILED" <=> (u \notin ts \/ tk[u].status # "FAILED")
        BY <1>1, <3>1 DEF Abstract!Of, RunOf, Result
      <4>2. ts \subseteq Abstract!Of(r)
        BY DEF Abstract!Of, RunOf
      <4>3. SettledVerdict(ts, tk) \in Ended
        BY SettledVerdictEnds
      <4> HIDE DEF ts
      <4> QED BY <3>2, <4>1, <4>2, <4>3, SettledVerdictIsFair DEF Abstract!Fair, Abstract!Ends, Ended
    <3>4. [q \in Run |-> run[q].status]' =
             [[q \in Run |-> run[q].status] EXCEPT ![r] = Verdict(r, tk)]
      BY <1>1, <1>2
    <3>5. [q \in Run |-> run[q].status][r] = "RUNNING"
      BY <1>1
    <3>6. ~ \E u \in Abstract!Of(r) : [v \in Task |-> Result(v)]'[u] = "OPEN"
      BY <2>4 DEF Abstract!Of
    <3> QED BY <2>2, <3>3, <3>4, <3>5, <3>6 DEF Abstract!Finish, Result
  <2> QED BY <2>3, <2>4
<1> QED BY <1>0, <1>1, <1>3, <1>4

\* One run is in progress at most, so at most one is ended as exhausted.
LEMMA ExhaustedOrSame ==
  ASSUME TypeOK, OneRunning, SameResults,
         \A r \in Run : \/ run'[r].status = run[r].status
                        \/ run[r].status = "RUNNING" /\ run'[r].status = "BUDGET_EXHAUSTED"
  PROVE  (\E r \in Run : Abstract!Exhaust(r)) \/ UNCHANGED Abstract!avars
<1>1. CASE \A r \in Run : SameRun(r)
  <2>1. 1 \in Run
    BY ConstantsAssumption DEF Run
  <2> QED BY <1>1, <2>1, AbstractSteps
<1>2. ASSUME NEW r \in Run, ~ SameRun(r) PROVE Abstract!Exhaust(r)
  <2>1. \A q \in Run \ {r} : SameRun(q)
    BY <1>2 DEF SameRun, OneRunning
  <2> QED BY <1>2, <2>1, AbstractSteps DEF SameRun
<1> QED BY <1>1, <1>2

LEMMA StepOfRuns ==
  ASSUME TypeOK, OneRunning, EndsExactlyWhenSettled, NoTasksBeforeRun, [Next]_vars
  PROVE  [Abstract!ANext]_(Abstract!avars)
<1> DEFINE Goes == (\E r \in Run : Abstract!Exhaust(r)) \/ UNCHANGED Abstract!avars
<1>0. task \in [Task -> TaskRow] /\ run \in [Run -> RunRow]
  BY DEF TypeOK
<1>1. ASSUME task' = task PROVE SameResults
  BY <1>1 DEF SameResults, Result
<1>2. ASSUME run' = run, SameResults PROVE Goes
  BY <1>2, ExhaustedOrSame
<1>3. ASSUME NEW w \in Worker, Admit(w)
      PROVE  UNCHANGED Abstract!avars \/ \E r \in Run : Abstract!Start(r)
  <2>1. ASSUME NEW r \in Run PROVE AfterFinalize[r] = run[r] \/ AfterFinalize[r].status = run[r].status
    <3>1. CASE run[r].status = "RUNNING"
      <4>1. Unfinished(r)
        BY <3>1, EndsExactlyRunByRun DEF Exact
      <4>2. Verdict(r, task) = "RUNNING"
        BY <4>1, VerdictIsFinal DEF Unfinished, Open
      <4> QED BY <1>0, <3>1, <4>2 DEF AfterFinalize, Finalized, RunRow
    <3> QED BY <3>1 DEF AfterFinalize, Finalized
  <2>2. SameResults
    BY <1>1, <1>3 DEF Admit
  <2>3. CASE \A r \in Run : ~ (NoneRunning(AfterFinalize) /\ Chosen(r))
    <3>1. \A r \in Run : SameRun(r)
      BY <1>3, <2>1, <2>3 DEF Admit, SameRun
    <3>2. 1 \in Run
      BY ConstantsAssumption DEF Run
    <3> QED BY <2>2, <3>1, <3>2, AbstractSteps
  <2>4. ASSUME NEW r \in Run, NoneRunning(AfterFinalize), Chosen(r) PROVE Abstract!Start(r)
    <3>1. \A q \in Run \ {r} : ~ Chosen(q)
      BY <2>4 DEF Chosen, Admissible, Before, Priority, Run
    <3>2. \A q \in Run \ {r} : SameRun(q)
      BY <1>3, <2>1, <3>1 DEF Admit, SameRun
    <3>3. \A q \in Run : run[q].status # "RUNNING"
      BY <2>1, <2>4 DEF NoneRunning
    <3>4. run[r].status = "QUEUED" /\ run'[r].status = "RUNNING"
      BY <1>0, <1>3, <2>4 DEF Admit, Chosen, Admissible, RunRow
    <3> QED BY <2>2, <3>2, <3>3, <3>4, AbstractSteps
  <2> QED BY <2>3, <2>4
<1>4. ASSUME NEW w \in Worker, Expire(w), task' = task PROVE Goes
  <2>1. ASSUME NEW r \in Run
        PROVE  \/ run'[r].status = run[r].status
               \/ run[r].status = "RUNNING" /\ run'[r].status = "BUDGET_EXHAUSTED"
    BY <1>0, <1>4 DEF Expire, OverdueRuns, RunRow
  <2> QED BY <1>1, <1>4, <2>1, ExhaustedOrSame
<1>5. ASSUME NEW w \in Worker, GiveBack(w), Overdue(w, held[w]), held[w] \in Task PROVE Goes
  <2>1. RunOf(held[w]) \in Run
    BY <1>5, TaskFacts
  <2>2. ASSUME NEW r \in Run
        PROVE  \/ run'[r].status = run[r].status
               \/ run[r].status = "RUNNING" /\ run'[r].status = "BUDGET_EXHAUSTED"
    BY <1>0, <1>5, <2>1 DEF GiveBack, Overdue, RunRow
  <2>3. SameResults
    BY <1>0, <1>5 DEF SameResults, Result, GiveBack, Overdue, Leases, TaskRow, Open
  <2> QED BY <2>2, <2>3, ExhaustedOrSame
<1>6. ASSUME NEW w \in Worker, ClaimLock(w) PROVE Goes
  <2>1. SameResults
    BY <1>0, <1>6 DEF ClaimLock, StillQualifies, SameResults, Result, TaskRow, Open
  <2> QED BY <1>2, <1>6, <2>1 DEF ClaimLock
<1>7. ASSUME NEW w \in Worker, HeartbeatRenews(w) PROVE Goes
  <2>1. SameResults
    BY <1>0, <1>7 DEF HeartbeatRenews, SameResults, Result, TaskRow
  <2> QED BY <1>2, <1>7, <2>1 DEF HeartbeatRenews
<1>8. ASSUME NEW w \in Worker, ReportSuccess(w) \/ ReportFailure(w)
      PROVE  UNCHANGED Abstract!avars \/ \E r \in Run : Abstract!Finish(r)
  <2>1. held[w] \in Task /\ RunOf(held[w]) \in Run
    BY <1>8, TaskFacts DEF ReportSuccess, ReportFailure, Report, TypeOK
  <2>2. CASE ReportSuccess(w)
    BY <2>1, <2>2, ReportedRow, ReportIsFinish DEF ReportSuccess
  <2>3. CASE ReportFailure(w)
    BY <2>1, <2>3, ReportedRow, ReportIsFinish DEF ReportFailure
  <2> QED BY <1>8, <2>2, <2>3
<1>9. ASSUME Tick PROVE Goes
  <2>1. SameResults
    BY <1>9, TickKeeps DEF SameResults, Result
  <2> QED BY <1>9, <2>1, TickKeeps, ExhaustedOrSame
<1>10. ASSUME NEW w \in Worker,
              \/ AdmitElsewhere(w) \/ Claim(w) \/ Heartbeat(w) \/ ReportOverdue(w) \/ ReportLost(w)
              \/ Crash(w) \/ Restart(w) \/ \E o \in Success \union Failure : HandlerEnds(w, o)
       PROVE  Goes
  BY <1>1, <1>2, <1>4, <1>5, <1>6, <1>7, <1>10
     DEF AdmitElsewhere, Claim, ClaimSelect, ClaimNothing, ClaimRaced, Heartbeat,
         HeartbeatOverdue, HeartbeatLost, HandlerEnds, ReportOverdue, ReportLost, Crash,
         Restart, TypeOK
<1>11. ASSUME UNCHANGED vars PROVE Goes
  BY <1>1, <1>2, <1>11 DEF vars
<1>12. ASSUME NEW r \in Run, NEW rev \in Revision, NEW mode \in Mode,
              NEW keys \in SUBSET Key, Schedule(r, rev, mode, keys)
       PROVE  Abstract!New(r)
  BY <1>12, ScheduleIsNew
<1> DEFINE Step == Abstract!ANext \/ UNCHANGED Abstract!avars
<1>13. /\ Goes \/ UNCHANGED Abstract!avars => Step
       /\ \A r \in Run : Abstract!New(r) \/ Abstract!Start(r) \/ Abstract!Finish(r) => Step
  BY DEF Abstract!ANext
<1> HIDE DEF Goes, Step
<1>14. \A w \in Worker : Poll(w) \/ Settle(w) => Step
  BY <1>3, <1>8, <1>10, <1>13 DEF Poll, Settle
<1>15. Step
  BY <1>9, <1>10, <1>11, <1>12, <1>13, <1>14 DEF Next
<1> QED BY <1>15 DEF Step

\* The queue keeps what ResearchRuns promises of every step, for any number of workers,
\* runs and tasks: one run in progress, tasks that settle once and in it, and a run that
\* ends exhausted or in the step that settles the last of its tasks.
THEOREM QueueImplementsResearchRuns == Spec => Abstract!ASafety
<1>1. Init => Abstract!AInit
  BY DEF Init, AbsentRun, AbsentTask, PendingTask, Open, Abstract!AInit
<1>2. TypeOK /\ OneRunning /\ EndsExactlyWhenSettled /\ NoTasksBeforeRun /\ [Next]_vars
        => [Abstract!ANext]_(Abstract!avars)
  BY StepOfRuns
<1> QED BY <1>1, <1>2, TypeCorrect, OneRunningAlways, EndsExactlyAlways,
           NoTasksBeforeRunAlways, PTL DEF Spec, Abstract!ASafety
=============================================================================
