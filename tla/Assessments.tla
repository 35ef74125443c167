----------------------------- MODULE Assessments -----------------------------
(***************************************************************************)
(* What the lifecycle of an opportunity promises, without runs, clusters,  *)
(* critics or time: it is discovered, decided, perhaps reopened after a    *)
(* rejection, and a decision to VALIDATE stands for good.  Only then may a *)
(* product hypothesis be made of it.                                       *)
(***************************************************************************)
CONSTANT Opportunity

VARIABLES
  status,    \* of each opportunity, "NONE" while it is unknown
  conceived  \* the opportunities with a product hypothesis

avars == <<status, conceived>>

\* Where a decision may lead an opportunity that is not validated yet.
Outcomes(s) ==
  CASE s = "RESEARCHING"   -> {"RESEARCH_MORE", "VALIDATE", "REJECTED"}
    [] s = "RESEARCH_MORE" -> {"VALIDATE", "REJECTED"}
    [] s = "VALIDATE"      -> {"VALIDATE"}
    [] OTHER               -> {}

AInit ==
  /\ status = [o \in Opportunity |-> "NONE"]
  /\ conceived = {}

Discover(found) ==
  /\ status' = [o \in Opportunity |->
                  IF o \in found /\ status[o] = "NONE" THEN "RESEARCHING" ELSE status[o]]
  /\ UNCHANGED conceived

Decide(found) ==
  /\ status' \in [Opportunity -> {"NONE", "RESEARCHING", "RESEARCH_MORE", "VALIDATE", "REJECTED"}]
  /\ \A o \in Opportunity :
       IF o \in found THEN status'[o] \in Outcomes(status[o]) ELSE status'[o] = status[o]
  /\ UNCHANGED conceived

Reopen(found) ==
  /\ \A o \in found : status[o] = "REJECTED"
  /\ status' = [o \in Opportunity |-> IF o \in found THEN "RESEARCH_MORE" ELSE status[o]]
  /\ UNCHANGED conceived

Conceive(o) ==
  /\ status[o] = "VALIDATE"
  /\ conceived' = conceived \union {o}
  /\ UNCHANGED status

ANext ==
  \/ \E found \in SUBSET Opportunity : Discover(found) \/ Decide(found) \/ Reopen(found)
  \/ \E o \in Opportunity : Conceive(o)

ASpec == AInit /\ [][ANext]_avars
=============================================================================
