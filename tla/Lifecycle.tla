------------------------------ MODULE Lifecycle ------------------------------
(***************************************************************************)
(* What a sequence of runs of one mission revision makes of the            *)
(* opportunities they find: the rows ResearchArtifactWriter writes with    *)
(* each stage, the lifecycle events and their projection by the triggers   *)
(* of the database, and the product hypotheses made of what was validated. *)
(*                                                                         *)
(* A step is the transaction of a stage, or the end of a run.  Problem,    *)
(* cluster and opportunity have identities made from their text, and an    *)
(* opportunity stands for all three here: it is the only one of its        *)
(* problem.  A row that is stored already must be written with the same    *)
(* content (_add_or_verify), or the stage is refused and the run fails.    *)
(* Rows named by their run (cards, scores, critics, hypotheses) never      *)
(* meet an older one and are left out, but for what is read from them.     *)
(***************************************************************************)
EXTENDS Naturals

CONSTANTS
  Opportunity,
  Request,   \* the identities of requests for a product hypothesis
  MaxRuns,   \* bound on the runs of the revision
  Cooldown   \* how long a rejection stands before new users reopen it (30 days)

ASSUME LifecycleAssumption == MaxRuns \in Nat /\ Cooldown \in Nat \ {0}

VARIABLES
  status,     \* of each assessment: the projection of its last event
  events,     \* the lifecycle events
  snapshots,  \* the final assessment snapshots
  growth,     \* the run that stored the cluster of an opportunity, 0 for none
  age,        \* time from its rejection to the start of the run, up to Cooldown
  products,   \* the product hypotheses
  run         \* the latest run

vars == <<status, events, snapshots, growth, age, products, run>>

Verdict == {"VALIDATE", "RESEARCH_MORE", "REJECT"}
State == {"RESEARCHING", "RESEARCH_MORE", "VALIDATE", "REJECTED"}
SecondStage == {"extract2", "cluster2", "cards2", "critic2"}
Stage == {"idle", "extract", "cluster", "gap", "critic", "control", "final"} \union SecondStage
End == {"", "PUBLISHED", "ABANDONED", "PAIN_REUSED", "CLUSTER_REUSED", "FINAL_REFUSED"}
News == {"none", "users", "payment"}

\* The run number n before it has found anything.
NewRun(n, at) ==
  [n |-> n, at |-> at, end |-> "", round |-> 1, found |-> {}, targets |-> {},
   members |-> [r \in 1 .. 2 |-> {}],
   critic |-> [r \in 1 .. 2 |-> [o \in Opportunity |-> "RESEARCH_MORE"]]]

Init ==
  /\ status = [o \in Opportunity |-> "NONE"]
  /\ events = {}
  /\ snapshots = {}
  /\ growth = [o \in Opportunity |-> 0]
  /\ age = [o \in Opportunity |-> 0]
  /\ products = {}
  /\ run = NewRun(0, "idle")

Ended(end) == [NewRun(run.n, "idle") EXCEPT !.end = end]

\* Bug: the age of a rejection is not bounded where nothing tells it apart any more.
AgedForever(o, d) == age[o] + d

\* collection_until of this run less the rejected_at of the assessment.
Aged(o, d) == IF age[o] + d < Cooldown THEN age[o] + d ELSE Cooldown

Start ==
  /\ run.at = "idle"
  /\ run.n < MaxRuns
  /\ \E d \in 0 .. Cooldown :
       age' = [o \in Opportunity |-> IF status[o] = "REJECTED" THEN Aged(o, d) ELSE 0]
  /\ run' = NewRun(run.n + 1, "extract")
  /\ UNCHANGED <<status, events, snapshots, growth, products>>

\* A commit is refused, or the run ends for another reason before its decisions.
Fail(end) ==
  /\ run' = Ended(end)
  /\ UNCHANGED <<status, events, snapshots, growth, age, products>>

Abandon == run.at # "idle" /\ Fail("ABANDONED")

(***************************************************************************)
(* Pain signals and clusters.                                              *)
(***************************************************************************)
GrownBefore(o) == growth[o] # 0 /\ growth[o] # run.n

\* The signals extracted are new, or were never put into a cluster.
Extract ==
  /\ run.at \in {"extract", "extract2"}
  /\ run' = [run EXCEPT !.at = IF run.round = 1 THEN "cluster" ELSE "cluster2"]
  /\ UNCHANGED <<status, events, snapshots, growth, age, products>>

\* The source sent a post again, and the same pain was extracted from it: its row is
\* CLUSTERED by now, not UNCLUSTERED.
RefuseExtract ==
  /\ run.at \in {"extract", "extract2"}
  /\ \E o \in Opportunity : GrownBefore(o)
  /\ Fail("PAIN_REUSED")

\* last_growth_at and the membership dates of the cluster are those of this run.
FitsGrowth(o) == ~ GrownBefore(o)

Grow(members) ==
  /\ \A o \in members : FitsGrowth(o)
  /\ growth' = [o \in Opportunity |-> IF o \in members THEN run.n ELSE growth[o]]
  /\ UNCHANGED <<status, events, snapshots, age, products>>

\* The problems the first round knows of, and those it has a cluster for.
Cluster ==
  /\ run.at = "cluster"
  /\ \E problems \in SUBSET Opportunity : \E members \in SUBSET problems :
       /\ Grow(members)
       /\ run' = [run EXCEPT !.at = "gap", !.found = problems, !.members[1] = members]

\* A second round brings exactly its targets.
ClusterAgain ==
  /\ run.at = "cluster2"
  /\ \E members \in SUBSET run.targets :
       /\ Grow(members)
       /\ run' = [run EXCEPT !.at = "cards2", !.members[2] = members]

\* The cluster of a problem was stored by an earlier run.
RefuseCluster ==
  /\ run.at \in {"cluster", "cluster2"}
  /\ \E o \in IF run.round = 1 THEN Opportunity ELSE run.targets : GrownBefore(o)
  /\ Fail("CLUSTER_REUSED")

(***************************************************************************)
(* Opportunities, critics and the second round.                            *)
(***************************************************************************)
Event(o, from, to) == [opp |-> o, run |-> run.n, from |-> from, to |-> to]

\* A new assessment is discovered and researched at once; a known one is left as it is.
Gap ==
  /\ run.at = "gap"
  /\ \E found \in SUBSET run.found :
       LET new == {o \in found : status[o] = "NONE"} IN
         /\ status' = [o \in Opportunity |-> IF o \in new THEN "RESEARCHING" ELSE status[o]]
         /\ events' = events \union {Event(o, "NONE", "DISCOVERED") : o \in new}
                             \union {Event(o, "DISCOVERED", "RESEARCHING") : o \in new}
         /\ run' = [run EXCEPT !.at = "critic", !.found = found]
  /\ UNCHANGED <<snapshots, growth, age, products>>

\* What the critic of a round says of the opportunities found.
Criticize(r, at) ==
  /\ \E verdicts \in [run.found -> Verdict] :
       run' = [run EXCEPT !.at = at, !.critic[r] =
                 [o \in Opportunity |-> IF o \in run.found THEN verdicts[o] ELSE @[o]]]
  /\ UNCHANGED <<status, events, snapshots, growth, age, products>>

\* Without opportunities there is no call of the critic to persist: the run fails.
Critic ==
  /\ run.at = "critic"
  /\ run.found # {}
  /\ Criticize(1, "control")

CriticAgain ==
  /\ run.at = "critic2"
  /\ Criticize(2, "final")

\* No second round: not wanted, not admitted, or it found nothing new.
StopResearch ==
  /\ run.at = "control"
  /\ run' = [run EXCEPT !.at = "final"]
  /\ UNCHANGED <<status, events, snapshots, growth, age, products>>

ResearchMore ==
  /\ run.at = "control"
  /\ \E targets \in SUBSET {o \in run.found : run.critic[1][o] = "RESEARCH_MORE"} \ {{}} :
       run' = [run EXCEPT !.at = "extract2", !.round = 2, !.targets = targets]
  /\ UNCHANGED <<status, events, snapshots, growth, age, products>>

\* An attempt that resumes when the sources are spent goes back to the first round.
PassOver ==
  /\ run.at \in SecondStage \union {"final"}
  /\ run.round = 2
  /\ run' = [run EXCEPT !.at = "final", !.round = 1, !.targets = {}, !.members[2] = {},
                        !.critic[2] = [o \in Opportunity |-> "RESEARCH_MORE"]]
  /\ UNCHANGED <<status, events, snapshots, growth, age, products>>

\* Bug: the status of the assessment is not looked at.
ReopensAny(o, news) == \/ news = "payment"
                       \/ news = "users" /\ age[o] = Cooldown

\* New evidence of the second round reopens a rejection: three new users or a new
\* source after the cooldown, the first payment at once.
Reopens(o, news) ==
  /\ status[o] = "REJECTED"
  /\ \/ news = "payment"
     \/ news = "users" /\ age[o] = Cooldown

\* The cards of the second round differ from those of the first only where a cluster grew.
CardsAgain ==
  /\ run.at = "cards2"
  /\ \E news \in [run.members[2] -> News] :
       LET reopened == {o \in run.members[2] : Reopens(o, news[o])} IN
         /\ status' = [o \in Opportunity |->
                         IF o \in reopened THEN "RESEARCH_MORE" ELSE status[o]]
         /\ events' = events \union {Event(o, status[o], "RESEARCH_MORE") : o \in reopened}
         /\ age' = [o \in Opportunity |-> IF o \in reopened THEN 0 ELSE age[o]]
  /\ run' = [run EXCEPT !.at = "critic2"]
  /\ UNCHANGED <<snapshots, growth, products>>

(***************************************************************************)
(* The decisions.                                                          *)
(***************************************************************************)
Becomes(verdict) == IF verdict = "REJECT" THEN "REJECTED" ELSE verdict

\* The gates on users, threads and sources need the cluster of the opportunity.
Evidenced(o) == \E r \in 1 .. run.round : o \in run.members[r]
Convinced == {o \in run.found : run.critic[run.round][o] = "VALIDATE" /\ Evidenced(o)}

\* What validation_decision says when the other gates pass for some.
Decision(o, passed) ==
  IF o \in passed THEN "VALIDATE"
  ELSE IF run.critic[run.round][o] = "REJECT" THEN "REJECT" ELSE "RESEARCH_MORE"

\* Bug: a decision that changes nothing is a transition.
AllowsRepeats(s) ==
  CASE s = "RESEARCHING"   -> {"RESEARCH_MORE", "VALIDATE", "REJECTED"}
    [] s = "RESEARCH_MORE" -> {"RESEARCHING", "RESEARCH_MORE", "VALIDATE", "REJECTED"}
    [] OTHER               -> {}

Allows(s) ==
  CASE s = "RESEARCHING"   -> {"RESEARCH_MORE", "VALIDATE", "REJECTED"}
    [] s = "RESEARCH_MORE" -> {"RESEARCHING", "VALIDATE", "REJECTED"}
    [] OTHER               -> {}

\* Bug: a validated opportunity takes a snapshot of any verdict.
FitsLoosely(o, verdict) == status[o] = "VALIDATE" \/ Becomes(verdict) \in Allows(status[o])

Fits(o, verdict) ==
  IF status[o] = "VALIDATE" THEN verdict = "VALIDATE" ELSE Becomes(verdict) \in Allows(status[o])

\* The batch of the second round has the gap hypotheses of its targets alone.
GapsOfRound == IF run.round = 1 THEN run.found ELSE run.targets

Snapshot(o, verdict) == [opp |-> o, run |-> run.n, round |-> run.round, verdict |-> verdict]

Publish ==
  /\ run.at = "final"
  /\ run.found \subseteq GapsOfRound
  /\ \E passed \in SUBSET Convinced :
       LET decided == {o \in run.found : status[o] # "VALIDATE"}
           turns(o) == Becomes(Decision(o, passed)) IN
         /\ \A o \in run.found : Fits(o, Decision(o, passed))
         /\ snapshots' = snapshots \union {Snapshot(o, Decision(o, passed)) : o \in run.found}
         /\ status' = [o \in Opportunity |-> IF o \in decided THEN turns(o) ELSE status[o]]
         /\ events' = events \union {Event(o, status[o], turns(o)) : o \in decided}
         /\ age' = [o \in Opportunity |->
                      IF o \in decided /\ turns(o) = "REJECTED" THEN 0 ELSE age[o]]
  /\ run' = Ended("PUBLISHED")
  /\ UNCHANGED <<growth, products>>

RefuseFinal ==
  /\ run.at = "final"
  /\ \/ ~ run.found \subseteq GapsOfRound
     \/ \E passed \in SUBSET Convinced :
          \E o \in run.found : ~ Fits(o, Decision(o, passed))
  /\ Fail("FINAL_REFUSED")

(***************************************************************************)
(* Product hypotheses, by the command line, beside the runs.               *)
(***************************************************************************)
Newer(s, t) == s.run > t.run \/ (s.run = t.run /\ s.round > t.round)

\* Bug: the latest snapshot is taken whatever it says.
SourceOfAny(o) ==
  {s \in snapshots : s.opp = o /\ \A t \in snapshots : t.opp = o => ~ Newer(t, s)}

\* The card it is made from: that of the latest VALIDATE snapshot of a validated opportunity.
Source(o) ==
  {s \in snapshots :
     /\ status[o] = "VALIDATE"
     /\ s.opp = o /\ s.verdict = "VALIDATE"
     /\ \A t \in snapshots : t.opp = o /\ t.verdict = "VALIDATE" => ~ Newer(t, s)}

\* A request made before is answered with what it made then.
CreateProduct(o, q) ==
  /\ \A p \in products : ~ (p.opp = o /\ p.request = q)
  /\ \E s \in Source(o) :
       products' = products \union {[opp |-> o, request |-> q, run |-> s.run, round |-> s.round]}
  /\ UNCHANGED <<status, events, snapshots, growth, age, run>>

Next ==
  \/ Start \/ Abandon
  \/ Extract \/ RefuseExtract \/ Cluster \/ ClusterAgain \/ RefuseCluster
  \/ Gap \/ Critic \/ StopResearch \/ ResearchMore \/ CardsAgain \/ CriticAgain \/ PassOver
  \/ Publish \/ RefuseFinal
  \/ \E o \in Opportunity, q \in Request : CreateProduct(o, q)

Spec == Init /\ [][Next]_vars

(***************************************************************************)
(* Properties.                                                             *)
(***************************************************************************)
\* Every variable has its type: no event, snapshot or product of a run to come, and no
\* rejection is older than the cooldown tells apart.
TypeOK ==
  /\ status \in [Opportunity -> State \union {"NONE"}]
  /\ events \subseteq [opp : Opportunity, run : 1 .. run.n,
                       from : State \union {"NONE", "DISCOVERED"}, to : State \union {"DISCOVERED"}]
  /\ snapshots \subseteq [opp : Opportunity, run : 1 .. run.n, round : 1 .. 2, verdict : Verdict]
  /\ growth \in [Opportunity -> 0 .. run.n]
  /\ age \in [Opportunity -> 0 .. Cooldown]
  /\ products \subseteq [opp : Opportunity, request : Request, run : 1 .. run.n, round : 1 .. 2]
  /\ run \in [n : 0 .. MaxRuns, at : Stage, end : End, round : 1 .. 2,
              found : SUBSET Opportunity, targets : SUBSET Opportunity,
              members : [1 .. 2 -> SUBSET Opportunity],
              critic : [1 .. 2 -> [Opportunity -> Verdict]]]

Reopening(e) == e.from = "REJECTED"

\* Reports are made of the snapshots, the queries of the status: the latest snapshot of an
\* opportunity says what its status says, unless a later run has reopened it and was
\* not allowed to publish.
SnapshotsAgree ==
  \A s \in snapshots :
    \/ \E t \in snapshots : t.opp = s.opp /\ t.run > s.run
    \/ status[s.opp] = Becomes(s.verdict)
    \/ /\ status[s.opp] = "RESEARCH_MORE"
       /\ \E e \in events : e.opp = s.opp /\ Reopening(e) /\ e.run > s.run

\* No run repeats the decision of the one before it about an opportunity, except where it was
\* reopened in between: the whole of a run that would is refused.
DecisionsDiffer ==
  \A s, t \in snapshots :
    s.opp = t.opp /\ s.run < t.run =>
      \/ s.verdict # t.verdict
      \/ \E u \in snapshots : u.opp = s.opp /\ s.run < u.run /\ u.run < t.run
      \/ \E e \in events : e.opp = s.opp /\ Reopening(e) /\ s.run < e.run /\ e.run <= t.run

\* A product hypothesis rests on a decision to VALIDATE that no later run takes back.
ProductsStand ==
  \A p \in products :
    /\ [opp |-> p.opp, run |-> p.run, round |-> p.round, verdict |-> "VALIDATE"] \in snapshots
    /\ \A s \in snapshots : s.opp = p.opp /\ s.run >= p.run => s.verdict = "VALIDATE"

\* Only the run that stored the cluster of an opportunity ever validates or reopens it: the
\* evidence of any other run has been refused before it comes to that.
OneRunHasEvidence ==
  \A e \in events : e.to = "VALIDATE" \/ Reopening(e) => e.run = growth[e.opp]

Promised == INSTANCE Assessments WITH conceived <- {p.opp : p \in products}

\* The opportunities live as Assessments says: a validated one for good, a rejected one
\* until it is reopened, never to be validated in the same step.
ImplementsAssessments == Promised!ASpec

\* tests/integration/test_artifact_persistence.py:154: a later run finds a known problem again
\* and persists what it found.
KnownProblemGrows == run.end # "CLUSTER_REUSED"
=============================================================================
