---------------------------- MODULE ResearchRuns ----------------------------
(***************************************************************************)
(* What the research queue promises, without workers, leases or time: runs *)
(* are scheduled, at most one of them is in progress, a task settles once  *)
(* and only in the run in progress, and the run ends either exhausted or   *)
(* in the very step that settles the last of its tasks.                    *)
(***************************************************************************)
EXTENDS Integers, FiniteSets

CONSTANTS Run, Task

VARIABLES
  phase,   \* status of each run
  result   \* of each task: "ABSENT", "OPEN", "SUCCEEDED" or "FAILED"

avars == <<phase, result>>

Of(r) == {t \in Task : t[1] = r}

Ends == {"COMPLETED", "COMPLETED_WITH_WARNINGS", "BUDGET_EXHAUSTED",
         "AUTH_REQUIRED", "FAILED"}

\* How a run whose tasks have all settled as res may be said to have ended.
Fair(r, res) ==
  IF \A t \in Of(r) : res[t] # "FAILED"
    THEN {"COMPLETED", "COMPLETED_WITH_WARNINGS", "FAILED"}
    ELSE Ends \ {"COMPLETED"}

AInit ==
  /\ phase = [r \in Run |-> "ABSENT"]
  /\ result = [t \in Task |-> "ABSENT"]

New(r) ==
  /\ phase[r] = "ABSENT"
  /\ phase' = [phase EXCEPT ![r] = "QUEUED"]
  /\ \E ts \in (SUBSET Of(r)) \ {{}} :
       result' = [t \in Task |-> IF t \in ts THEN "OPEN" ELSE result[t]]

Start(r) ==
  /\ phase[r] = "QUEUED"
  /\ \A q \in Run : phase[q] # "RUNNING"
  /\ phase' = [phase EXCEPT ![r] = "RUNNING"]
  /\ UNCHANGED result

Finish(r) ==
  /\ phase[r] = "RUNNING"
  /\ \E t \in Of(r), res \in {"SUCCEEDED", "FAILED"} :
       /\ result[t] = "OPEN"
       /\ result' = [result EXCEPT ![t] = res]
  /\ IF \E t \in Of(r) : result'[t] = "OPEN"
       THEN phase' = phase
       ELSE \E end \in Fair(r, result') : phase' = [phase EXCEPT ![r] = end]

Exhaust(r) ==
  /\ phase[r] = "RUNNING"
  /\ phase' = [phase EXCEPT ![r] = "BUDGET_EXHAUSTED"]
  /\ UNCHANGED result

ANext == \E r \in Run : New(r) \/ Start(r) \/ Finish(r) \/ Exhaust(r)

ASafety == AInit /\ [][ANext]_avars

\* Every scheduled run is started and every started run ends.
ASpec ==
  /\ ASafety
  /\ \A r \in Run : SF_avars(Start(r)) /\ WF_avars(Finish(r) \/ Exhaust(r))
=============================================================================
