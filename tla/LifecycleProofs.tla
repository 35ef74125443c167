--------------------------- MODULE LifecycleProofs ---------------------------
(***************************************************************************)
(* Theorems about Lifecycle, for all sets of opportunities and requests,   *)
(* any number of runs and any cooldown.                                    *)
(***************************************************************************)
EXTENDS Lifecycle, TLAPS

AllAtOnce == <<status, events, snapshots, growth, products>>

\* The steps that only move the run on, and where they may move it.
Still ==
  /\ UNCHANGED AllAtOnce
  /\ \/ run'.n = run.n + 1 /\ run'.members = [r \in 1 .. 2 |-> {}]
     \/ /\ run'.n = run.n
        /\ \A r \in 1 .. 2 : run'.members[r] = run.members[r] \/ run'.members[r] = {}
        /\ run.at = "idle" => run'.at = "idle"

Moving == Start \/ Abandon \/ Extract \/ RefuseExtract \/ RefuseCluster \/ Critic \/ StopResearch
            \/ ResearchMore \/ CriticAgain \/ PassOver \/ RefuseFinal \/ UNCHANGED vars

RunType ==
  [n : 0 .. MaxRuns, at : Stage, end : End, round : 1 .. 2,
   found : SUBSET Opportunity, targets : SUBSET Opportunity,
   members : [1 .. 2 -> SUBSET Opportunity],
   critic : [1 .. 2 -> [Opportunity -> Verdict]]]

\* A run that is new has nothing.
LEMMA NewRunTyped ==
  ASSUME NEW n \in 0 .. MaxRuns, NEW at \in Stage
  PROVE  /\ NewRun(n, at).n = n
         /\ NewRun(n, at).members = [r \in 1 .. 2 |-> {}]
         /\ NewRun(n, at).at = at
         /\ NewRun(n, at) \in RunType
BY DEF NewRun, End, Verdict, RunType

\* A run that has ended keeps its number and forgets what it found.
LEMMA EndedTyped ==
  ASSUME TypeOK, NEW end \in End
  PROVE  /\ Ended(end) \in RunType
         /\ Ended(end).n = run.n
         /\ Ended(end).at = "idle"
         /\ Ended(end).members = [r \in 1 .. 2 |-> {}]
<1>1. run.n \in 0 .. MaxRuns /\ "idle" \in Stage
  BY DEF TypeOK, Stage
<1>2. QED
  BY <1>1, NewRunTyped DEF Ended, RunType, NewRun, End, Verdict

\* A transaction of the run in progress never goes back to an earlier run.
LEMMA MovingIsStill ==
  ASSUME TypeOK, Moving
  PROVE  Still
<1> USE DEF Moving
<1>1. ASSUME NEW end \in End, Fail(end) PROVE Still
  BY <1>1, EndedTyped DEF Fail, Still, AllAtOnce
<1>2. CASE Start
  <2>1. run.n + 1 \in 0 .. MaxRuns /\ "extract" \in Stage
    BY <1>2, LifecycleAssumption DEF Start, TypeOK, Stage
  <2>2. QED
    BY <2>1, <1>2, NewRunTyped DEF Start, Still, AllAtOnce
<1>3. CASE Abandon \/ RefuseExtract \/ RefuseCluster \/ RefuseFinal
  BY <1>1, <1>3 DEF Abandon, RefuseExtract, RefuseCluster, RefuseFinal, End
<1>4. CASE Extract \/ StopResearch \/ ResearchMore
  BY <1>4 DEF Extract, StopResearch, ResearchMore, Still, AllAtOnce, TypeOK
<1>5. CASE Critic \/ CriticAgain
  BY <1>5 DEF Critic, CriticAgain, Criticize, Still, AllAtOnce, TypeOK
<1>6. CASE PassOver
  BY <1>6 DEF PassOver, SecondStage, Still, AllAtOnce, TypeOK
<1>7. CASE UNCHANGED vars
  BY <1>7 DEF vars, Still, AllAtOnce
<1>8. QED
  BY <1>2, <1>3, <1>4, <1>5, <1>6, <1>7

(***************************************************************************)
(* Types.                                                                  *)
(***************************************************************************)
EventRows(n) == [opp : Opportunity, run : 1 .. n,
                 from : State \union {"NONE", "DISCOVERED"}, to : State \union {"DISCOVERED"}]
SnapshotRows(n) == [opp : Opportunity, run : 1 .. n, round : 1 .. 2, verdict : Verdict]
ProductRows(n) == [opp : Opportunity, request : Request, run : 1 .. n, round : 1 .. 2]

\* TypeOK in the parts that a step keeps or changes.
Rows ==
  /\ status \in [Opportunity -> State \union {"NONE"}]
  /\ events \subseteq EventRows(run.n)
  /\ snapshots \subseteq SnapshotRows(run.n)
  /\ growth \in [Opportunity -> 0 .. run.n]
  /\ products \subseteq ProductRows(run.n)

\* TypeOK is the type of the rows, of the ages and of the run.
LEMMA TypeParts == TypeOK <=> Rows /\ age \in [Opportunity -> 0 .. Cooldown] /\ run \in RunType
BY DEF TypeOK, Rows, EventRows, SnapshotRows, ProductRows, RunType

\* The same of the state after a step.
LEMMA TypePartsNext ==
  TypeOK' <=> Rows' /\ age' \in [Opportunity -> 0 .. Cooldown] /\ run' \in RunType
BY DEF TypeOK, Rows, EventRows, SnapshotRows, ProductRows, RunType

\* What a run has written stays in range as more runs follow.
LEMMA RowsGrow ==
  ASSUME NEW m \in Nat, NEW n \in Nat, m <= n
  PROVE  /\ EventRows(m) \subseteq EventRows(n)
         /\ SnapshotRows(m) \subseteq SnapshotRows(n)
         /\ ProductRows(m) \subseteq ProductRows(n)
         /\ [Opportunity -> 0 .. m] \subseteq [Opportunity -> 0 .. n]
<1>1. 1 .. m \subseteq 1 .. n /\ 0 .. m \subseteq 0 .. n
  OBVIOUS
<1>2. QED
  BY <1>1 DEF EventRows, SnapshotRows, ProductRows

\* The rows are in range still when a step writes none.
LEMMA StillRows ==
  ASSUME TypeOK, UNCHANGED AllAtOnce, run' \in RunType, run.n <= run'.n
  PROVE  Rows'
<1>1. run.n \in Nat /\ run'.n \in Nat
  BY DEF TypeOK, RunType
<1>2. /\ EventRows(run.n) \subseteq EventRows(run'.n)
      /\ SnapshotRows(run.n) \subseteq SnapshotRows(run'.n)
      /\ ProductRows(run.n) \subseteq ProductRows(run'.n)
      /\ [Opportunity -> 0 .. run.n] \subseteq [Opportunity -> 0 .. run'.n]
  BY <1>1, RowsGrow
<1>3. Rows
  BY TypeParts
<1>4. QED
  BY <1>2, <1>3 DEF Rows, AllAtOnce, EventRows, SnapshotRows, ProductRows

\* The steps that write no row keep the types.
LEMMA TypeMoving ==
  ASSUME TypeOK, Moving
  PROVE  TypeOK'
<1> USE DEF Moving
<1>1. run \in RunType /\ age \in [Opportunity -> 0 .. Cooldown] /\ Rows
  BY TypeParts
<1>2. run' \in RunType
  <2>1. ASSUME NEW end \in End, Fail(end) PROVE run' \in RunType
    BY <2>1, EndedTyped DEF Fail
  <2>2. CASE Start
    <3>1. run.n + 1 \in 0 .. MaxRuns /\ "extract" \in Stage
      BY <2>2, LifecycleAssumption DEF Start, TypeOK, Stage
    <3>2. QED
      BY <3>1, <2>2, NewRunTyped DEF Start, RunType
  <2>3. CASE Abandon \/ RefuseExtract \/ RefuseCluster \/ RefuseFinal
    BY <2>1, <2>3 DEF Abandon, RefuseExtract, RefuseCluster, RefuseFinal, End
  <2>4. CASE Extract
    BY <1>1, <2>4 DEF Extract, RunType, Stage, SecondStage
  <2>5. CASE StopResearch
    BY <1>1, <2>5 DEF StopResearch, RunType, Stage
  <2>6. CASE ResearchMore
    <3>1. PICK targets \in SUBSET run.found :
            run' = [run EXCEPT !.at = "extract2", !.round = 2, !.targets = targets]
      BY <2>6 DEF ResearchMore
    <3>2. targets \in SUBSET Opportunity
      BY <1>1 DEF RunType
    <3>3. "extract2" \in Stage /\ 2 \in 1 .. 2
      BY DEF Stage, SecondStage
    <3>4. QED
      BY <1>1, <3>1, <3>2, <3>3 DEF RunType
  <2>7. ASSUME NEW r \in 1 .. 2, NEW at \in Stage, Criticize(r, at) PROVE run' \in RunType
    <3>1. PICK verdicts \in [run.found -> Verdict] :
            run' = [run EXCEPT !.at = at, !.critic[r] =
                      [o \in Opportunity |-> IF o \in run.found THEN verdicts[o] ELSE @[o]]]
      BY <2>7 DEF Criticize
    <3>2. run.critic \in [1 .. 2 -> [Opportunity -> Verdict]]
      BY <1>1 DEF RunType
    <3> DEFINE c == [o \in Opportunity |->
                       IF o \in run.found THEN verdicts[o] ELSE run.critic[r][o]]
    <3>3. c \in [Opportunity -> Verdict]
      BY <3>1, <3>2
    <3>4. run' = [run EXCEPT !.at = at, !.critic = [run.critic EXCEPT ![r] = c]]
      BY <1>1, <3>1 DEF RunType
    <3>5. [run.critic EXCEPT ![r] = c] \in [1 .. 2 -> [Opportunity -> Verdict]]
      BY <3>2, <3>3
    <3> HIDE DEF c
    <3>6. QED
      BY <1>1, <3>4, <3>5 DEF RunType
  <2>8. CASE Critic \/ CriticAgain
    BY <2>7, <2>8 DEF Critic, CriticAgain, Stage
  <2>9. CASE PassOver
    <3> DEFINE c == [run.critic EXCEPT ![2] = [o \in Opportunity |-> "RESEARCH_MORE"]]
               ms == [run.members EXCEPT ![2] = {}]
    <3>1. run' = [run EXCEPT !.at = "final", !.round = 1, !.targets = {}, !.members = ms,
                             !.critic = c]
      BY <1>1, <2>9 DEF PassOver, RunType
    <3>2. /\ c \in [1 .. 2 -> [Opportunity -> Verdict]]
          /\ ms \in [1 .. 2 -> SUBSET Opportunity]
      BY <1>1 DEF RunType, Verdict
    <3> HIDE DEF c, ms
    <3>3. "final" \in Stage /\ 1 \in 1 .. 2 /\ {} \in SUBSET Opportunity
      BY DEF Stage
    <3>4. QED
      BY <1>1, <3>1, <3>2, <3>3 DEF RunType
  <2>10. CASE UNCHANGED vars
    BY <1>1, <2>10 DEF vars
  <2>11. QED
    BY <2>2, <2>3, <2>4, <2>5, <2>6, <2>8, <2>9, <2>10
<1>3. age' \in [Opportunity -> 0 .. Cooldown]
  <2>1. CASE Start
    BY <1>1, <2>1, LifecycleAssumption DEF Start, Aged
  <2>2. CASE ~ Start
    BY <1>1, <2>2 DEF Abandon, Extract, RefuseExtract, RefuseCluster, Critic, CriticAgain,
      Criticize, StopResearch, ResearchMore, PassOver, RefuseFinal, Fail, vars
  <2>3. QED
    BY <2>1, <2>2
<1>4. Still
  BY MovingIsStill
<1>5. UNCHANGED AllAtOnce /\ run.n <= run'.n
  BY <1>1, <1>4 DEF Still, RunType
<1>6. QED
  BY <1>2, <1>3, <1>5, StillRows, TypePartsNext

Growing == Cluster \/ ClusterAgain
Creating == \E o \in Opportunity, q \in Request : CreateProduct(o, q)

\* Every step writes rows of one kind, or none.
LEMMA NextCases ==
  ASSUME [Next]_vars
  PROVE  Moving \/ Growing \/ Gap \/ CardsAgain \/ Publish \/ Creating
BY DEF Next, Moving, Growing, Creating

\* What the stages that write leave alone.
LEMMA Frames ==
  ASSUME TypeOK
  PROVE  /\ Growing => /\ UNCHANGED <<status, events, snapshots, age, products>>
                       /\ run'.n = run.n /\ run.at # "idle"
         /\ Gap => /\ UNCHANGED <<snapshots, growth, age, products>>
                   /\ run'.n = run.n /\ run'.members = run.members /\ run.at # "idle"
         /\ CardsAgain => /\ UNCHANGED <<snapshots, growth, products>>
                          /\ run'.n = run.n /\ run'.members = run.members /\ run.at # "idle"
         /\ Publish => /\ UNCHANGED <<growth, products>>
                       /\ run'.n = run.n /\ run'.members = [r \in 1 .. 2 |-> {}]
                       /\ run.at # "idle" /\ run'.at = "idle"
         /\ Creating => UNCHANGED <<status, events, snapshots, growth, age, run>>
<1>1. run \in RunType
  BY TypeParts
<1>2. Growing => /\ UNCHANGED <<status, events, snapshots, age, products>>
                 /\ run'.n = run.n /\ run.at # "idle"
  BY <1>1 DEF Growing, Cluster, ClusterAgain, Grow, RunType
<1>3. Gap => /\ UNCHANGED <<snapshots, growth, age, products>>
             /\ run'.n = run.n /\ run'.members = run.members /\ run.at # "idle"
  BY <1>1 DEF Gap, RunType
<1>4. CardsAgain => /\ UNCHANGED <<snapshots, growth, products>>
                    /\ run'.n = run.n /\ run'.members = run.members /\ run.at # "idle"
  BY <1>1 DEF CardsAgain, RunType
<1>5. Publish => /\ UNCHANGED <<growth, products>>
                 /\ run'.n = run.n /\ run'.members = [r \in 1 .. 2 |-> {}]
                 /\ run.at # "idle" /\ run'.at = "idle"
  BY EndedTyped DEF Publish, End
<1>6. Creating => UNCHANGED <<status, events, snapshots, growth, age, run>>
  BY DEF Creating, CreateProduct
<1>7. QED
  BY <1>2, <1>3, <1>4, <1>5, <1>6

\* A gap stage gives an assessment to the problems that have none.
LEMMA GapWrites ==
  ASSUME TypeOK, Gap
  PROVE  \E found \in SUBSET Opportunity :
           LET new == {o \in found : status[o] = "NONE"} IN
             /\ status' = [o \in Opportunity |-> IF o \in new THEN "RESEARCHING" ELSE status[o]]
             /\ events' = events \union {Event(o, "NONE", "DISCOVERED") : o \in new}
                                 \union {Event(o, "DISCOVERED", "RESEARCHING") : o \in new}
             /\ run' = [run EXCEPT !.at = "critic", !.found = found]
<1>1. run.found \in SUBSET Opportunity
  BY TypeParts DEF RunType
<1>2. QED
  BY <1>1 DEF Gap

\* The second cards reopen rejections of opportunities with a cluster of the second round.
LEMMA CardsAgainWrites ==
  ASSUME TypeOK, CardsAgain
  PROVE  \E reopened \in SUBSET run.members[2] :
           /\ \A o \in reopened : o \in Opportunity /\ status[o] = "REJECTED"
           /\ status' = [o \in Opportunity |->
                           IF o \in reopened THEN "RESEARCH_MORE" ELSE status[o]]
           /\ events' = events \union {Event(o, status[o], "RESEARCH_MORE") : o \in reopened}
           /\ age' = [o \in Opportunity |-> IF o \in reopened THEN 0 ELSE age[o]]
           /\ run' = [run EXCEPT !.at = "critic2"]
<1>1. run.members[2] \in SUBSET Opportunity
  BY TypeParts DEF RunType
<1>2. PICK news \in [run.members[2] -> News] :
        LET reopened == {o \in run.members[2] : Reopens(o, news[o])} IN
          /\ status' = [o \in Opportunity |->
                          IF o \in reopened THEN "RESEARCH_MORE" ELSE status[o]]
          /\ events' = events \union {Event(o, status[o], "RESEARCH_MORE") : o \in reopened}
          /\ age' = [o \in Opportunity |-> IF o \in reopened THEN 0 ELSE age[o]]
  BY DEF CardsAgain
<1> DEFINE reopened == {o \in run.members[2] : Reopens(o, news[o])}
<1>3. \A o \in reopened : o \in Opportunity /\ status[o] = "REJECTED"
  BY <1>1 DEF Reopens
<1>4. run' = [run EXCEPT !.at = "critic2"]
  BY DEF CardsAgain
<1>5. reopened \in SUBSET run.members[2]
  OBVIOUS
<1>6. /\ status' = [o \in Opportunity |->
                      IF o \in reopened THEN "RESEARCH_MORE" ELSE status[o]]
      /\ events' = events \union {Event(o, status[o], "RESEARCH_MORE") : o \in reopened}
      /\ age' = [o \in Opportunity |-> IF o \in reopened THEN 0 ELSE age[o]]
  BY <1>2
<1> HIDE DEF reopened
<1>7. QED
  BY <1>3, <1>4, <1>5, <1>6

Turns(o, passed) == Becomes(Decision(o, passed))
Decided == {o \in run.found : status[o] # "VALIDATE"}

\* A published run decides about what it has found and nothing else.
LEMMA PublishWrites ==
  ASSUME TypeOK, Publish
  PROVE  \E passed \in SUBSET Convinced :
           /\ \A o \in run.found : Fits(o, Decision(o, passed))
           /\ snapshots' = snapshots \union {Snapshot(o, Decision(o, passed)) : o \in run.found}
           /\ status' = [o \in Opportunity |->
                           IF o \in Decided THEN Turns(o, passed) ELSE status[o]]
           /\ events' = events \union {Event(o, status[o], Turns(o, passed)) : o \in Decided}
           /\ age' = [o \in Opportunity |->
                        IF o \in Decided /\ Turns(o, passed) = "REJECTED" THEN 0 ELSE age[o]]
           /\ run' = Ended("PUBLISHED")
BY DEF Publish, Turns, Decided

\* A verdict is VALIDATE for those whose gates have passed, and for nobody else.
LEMMA DecisionTyped ==
  ASSUME TypeOK, NEW o \in run.found, NEW passed
  PROVE  /\ Decision(o, passed) \in Verdict
         /\ Turns(o, passed) \in State
         /\ Decision(o, passed) = "VALIDATE" => o \in passed
         /\ Turns(o, passed) = "VALIDATE" => o \in passed
BY DEF Decision, Turns, Becomes, Verdict, State

Begun == run.at # "idle" => run.n >= 1

\* A gap stage writes its two events well typed.
LEMMA TypeGap ==
  ASSUME TypeOK, Begun, Gap
  PROVE  TypeOK'
<1>1. run \in RunType /\ Rows /\ age \in [Opportunity -> 0 .. Cooldown]
  BY TypeParts
<1>2. PICK found \in SUBSET Opportunity :
        LET new == {o \in found : status[o] = "NONE"} IN
          /\ status' = [o \in Opportunity |-> IF o \in new THEN "RESEARCHING" ELSE status[o]]
          /\ events' = events \union {Event(o, "NONE", "DISCOVERED") : o \in new}
                              \union {Event(o, "DISCOVERED", "RESEARCHING") : o \in new}
          /\ run' = [run EXCEPT !.at = "critic", !.found = found]
  BY GapWrites
<1>3. "critic" \in Stage /\ run.at = "gap" /\ run.n \in 1 .. run.n
  BY <1>1 DEF Stage, Gap, Begun, RunType
<1>4. run' \in RunType /\ run'.n = run.n
  BY <1>1, <1>2, <1>3 DEF RunType
<1>5. status' \in [Opportunity -> State \union {"NONE"}]
  BY <1>1, <1>2 DEF Rows, State
<1>6. \A o \in Opportunity : /\ Event(o, "NONE", "DISCOVERED") \in EventRows(run.n)
                            /\ Event(o, "DISCOVERED", "RESEARCHING") \in EventRows(run.n)
  BY <1>3 DEF EventRows, Event, State
<1>7. events' \subseteq EventRows(run.n)
  BY <1>1, <1>2, <1>6 DEF Rows
<1>8. UNCHANGED <<snapshots, growth, age, products>>
  BY Frames
<1>9. QED
  BY <1>1, <1>4, <1>5, <1>7, <1>8, TypePartsNext DEF Rows, EventRows, SnapshotRows, ProductRows

\* So do the second cards with the reopenings.
LEMMA TypeCardsAgain ==
  ASSUME TypeOK, Begun, CardsAgain
  PROVE  TypeOK'
<1>1. run \in RunType /\ Rows /\ age \in [Opportunity -> 0 .. Cooldown]
  BY TypeParts
<1>2. PICK reopened \in SUBSET run.members[2] :
        /\ \A o \in reopened : o \in Opportunity /\ status[o] = "REJECTED"
        /\ status' = [o \in Opportunity |->
                        IF o \in reopened THEN "RESEARCH_MORE" ELSE status[o]]
        /\ events' = events \union {Event(o, status[o], "RESEARCH_MORE") : o \in reopened}
        /\ age' = [o \in Opportunity |-> IF o \in reopened THEN 0 ELSE age[o]]
        /\ run' = [run EXCEPT !.at = "critic2"]
  BY CardsAgainWrites
<1>3. "critic2" \in Stage /\ run.at = "cards2" /\ run.n \in 1 .. run.n
  BY <1>1 DEF Stage, SecondStage, CardsAgain, Begun, RunType
<1>4. run' \in RunType /\ run'.n = run.n
  BY <1>1, <1>2, <1>3 DEF RunType
<1>5. status' \in [Opportunity -> State \union {"NONE"}]
  BY <1>1, <1>2 DEF Rows, State
<1>6. \A o \in reopened : Event(o, status[o], "RESEARCH_MORE") \in EventRows(run.n)
  BY <1>2, <1>3 DEF EventRows, Event, State
<1>7. events' \subseteq EventRows(run.n)
  BY <1>1, <1>2, <1>6 DEF Rows
<1>8. age' \in [Opportunity -> 0 .. Cooldown]
  BY <1>1, <1>2, LifecycleAssumption
<1>9. UNCHANGED <<snapshots, growth, products>>
  BY Frames
<1>10. QED
  BY <1>1, <1>4, <1>5, <1>7, <1>8, <1>9, TypePartsNext DEF Rows, EventRows, SnapshotRows, ProductRows

\* And the decisions, with their events and snapshots.
LEMMA TypePublish ==
  ASSUME TypeOK, Begun, Publish
  PROVE  TypeOK'
<1>1. run \in RunType /\ Rows /\ age \in [Opportunity -> 0 .. Cooldown]
  BY TypeParts
<1>2. PICK passed \in SUBSET Convinced :
        /\ \A o \in run.found : Fits(o, Decision(o, passed))
        /\ snapshots' = snapshots \union {Snapshot(o, Decision(o, passed)) : o \in run.found}
        /\ status' = [o \in Opportunity |->
                        IF o \in Decided THEN Turns(o, passed) ELSE status[o]]
        /\ events' = events \union {Event(o, status[o], Turns(o, passed)) : o \in Decided}
        /\ age' = [o \in Opportunity |->
                     IF o \in Decided /\ Turns(o, passed) = "REJECTED" THEN 0 ELSE age[o]]
        /\ run' = Ended("PUBLISHED")
  BY PublishWrites
<1>3. run.n \in 1 .. run.n /\ run.round \in 1 .. 2 /\ run.found \in SUBSET Opportunity
  BY <1>1 DEF Publish, Begun, RunType
<1>4. run' \in RunType /\ run'.n = run.n
  BY <1>2, EndedTyped DEF End
<1>5. \A o \in run.found : Decision(o, passed) \in Verdict /\ Turns(o, passed) \in State
  BY DecisionTyped
<1>6. status' \in [Opportunity -> State \union {"NONE"}]
  BY <1>1, <1>2, <1>3, <1>5 DEF Rows, Decided
<1>7. \A o \in Decided : Event(o, status[o], Turns(o, passed)) \in EventRows(run.n)
  BY <1>1, <1>3, <1>5 DEF EventRows, Event, Rows, Decided
<1>8. events' \subseteq EventRows(run.n)
  BY <1>1, <1>2, <1>7 DEF Rows
<1>9. \A o \in run.found : Snapshot(o, Decision(o, passed)) \in SnapshotRows(run.n)
  BY <1>3, <1>5 DEF SnapshotRows, Snapshot
<1>10. snapshots' \subseteq SnapshotRows(run.n)
  BY <1>1, <1>2, <1>9 DEF Rows
<1>11. age' \in [Opportunity -> 0 .. Cooldown]
  BY <1>1, <1>2, LifecycleAssumption
<1>12. UNCHANGED <<growth, products>>
  BY Frames
<1>13. QED
  BY <1>1, <1>4, <1>6, <1>8, <1>10, <1>11, <1>12, TypePartsNext
    DEF Rows, EventRows, SnapshotRows, ProductRows

\* What a product hypothesis is made of is a stored decision to VALIDATE.
LEMMA CreateProductWrites ==
  ASSUME TypeOK, Creating
  PROVE  \E o \in Opportunity, q \in Request : \E s \in snapshots :
           /\ status[o] = "VALIDATE" /\ s.opp = o /\ s.verdict = "VALIDATE"
           /\ products' = products \union
                {[opp |-> o, request |-> q, run |-> s.run, round |-> s.round]}
BY DEF Creating, CreateProduct, Source

\* And a product hypothesis, of a run there has been.
LEMMA TypeCreating ==
  ASSUME TypeOK, Creating
  PROVE  TypeOK'
<1>1. run \in RunType /\ Rows /\ age \in [Opportunity -> 0 .. Cooldown]
  BY TypeParts
<1>2. PICK o \in Opportunity, q \in Request, s \in snapshots :
        products' = products \union {[opp |-> o, request |-> q, run |-> s.run, round |-> s.round]}
  BY CreateProductWrites
<1>3. s.run \in 1 .. run.n /\ s.round \in 1 .. 2
  BY <1>1 DEF Rows, SnapshotRows
<1>4. products' \subseteq ProductRows(run.n)
  BY <1>1, <1>2, <1>3 DEF Rows, ProductRows
<1>5. UNCHANGED <<status, events, snapshots, growth, age, run>>
  BY Frames
<1>6. QED
  BY <1>1, <1>4, <1>5, TypePartsNext DEF Rows, EventRows, SnapshotRows, ProductRows

(***************************************************************************)
(* The inductive invariant.                                                *)
(***************************************************************************)
\* What a run has a cluster for, it has stored the cluster of.
MembersGrown == \A r \in 1 .. 2 : \A o \in run.members[r] : growth[o] = run.n

\* A run publishes once.
SnapshotsPast == run.at # "idle" => \A s \in snapshots : s.run < run.n

SnapshotsKnown == \A s \in snapshots : status[s.opp] # "NONE"
ValidatedStays == \A s \in snapshots : s.verdict = "VALIDATE" => status[s.opp] = "VALIDATE"

ValidatedLast ==
  \A s, t \in snapshots :
    s.opp = t.opp /\ s.verdict = "VALIDATE" /\ s.run <= t.run => t.verdict = "VALIDATE"

\* Who is validated was validated by a run that is over.
ValidatedBefore ==
  \A o \in Opportunity : status[o] = "VALIDATE" =>
    \E e \in events : e.opp = o /\ e.to = "VALIDATE" /\ (run.at # "idle" => e.run < run.n)

IInv ==
  /\ TypeOK /\ Begun /\ MembersGrown /\ SnapshotsPast /\ SnapshotsKnown
  /\ ValidatedStays /\ ValidatedLast /\ ValidatedBefore
  /\ SnapshotsAgree /\ DecisionsDiffer /\ ProductsStand /\ OneRunHasEvidence

\* A run that works has a number.
LEMMA BegunStep ==
  ASSUME IInv, [Next]_vars
  PROVE  Begun'
<1>1. TypeOK /\ Begun
  BY DEF IInv
<1>2. run.n \in Nat
  BY <1>1 DEF TypeOK
<1>3. CASE Moving
  BY <1>1, <1>2, <1>3, MovingIsStill DEF Still, Begun
<1>4. CASE ~ Moving
  BY <1>1, <1>4, NextCases, Frames DEF Begun
<1>5. QED
  BY <1>3, <1>4

\* What a stage that stores clusters stores, and what it remembers of it.
LEMMA GrowingMembers ==
  ASSUME TypeOK, Growing
  PROVE  \E members \in SUBSET Opportunity, r \in 1 .. 2, found \in SUBSET Opportunity, at \in Stage :
           /\ Grow(members)
           /\ run' = [run EXCEPT !.at = at, !.found = found,
                                 !.members = [run.members EXCEPT ![r] = members]]
<1>1. run \in RunType
  BY TypeParts
<1>2. CASE Cluster
  <2>1. PICK problems \in SUBSET Opportunity, members \in SUBSET Opportunity :
          /\ Grow(members)
          /\ run' = [run EXCEPT !.at = "gap", !.found = problems, !.members[1] = members]
    BY <1>2 DEF Cluster
  <2>2. run' = [run EXCEPT !.at = "gap", !.found = problems,
                           !.members = [run.members EXCEPT ![1] = members]]
    BY <1>1, <2>1 DEF RunType
  <2>3. "gap" \in Stage /\ 1 \in 1 .. 2
    BY DEF Stage
  <2>4. QED
    BY <2>1, <2>2, <2>3
<1>3. CASE ClusterAgain
  <2>1. PICK members \in SUBSET run.targets :
          /\ Grow(members)
          /\ run' = [run EXCEPT !.at = "cards2", !.members[2] = members]
    BY <1>3 DEF ClusterAgain
  <2>2. run' = [run EXCEPT !.at = "cards2", !.found = run.found,
                           !.members = [run.members EXCEPT ![2] = members]]
    BY <1>1, <2>1 DEF RunType
  <2>3. /\ "cards2" \in Stage /\ 2 \in 1 .. 2
        /\ members \in SUBSET Opportunity /\ run.found \in SUBSET Opportunity
    BY <1>1, <2>1 DEF Stage, SecondStage, RunType
  <2>4. QED
    BY <2>1, <2>2, <2>3
<1>4. QED
  BY <1>2, <1>3 DEF Growing

\* Only the cluster of a problem without one is stored.
LEMMA GrowthStep ==
  ASSUME TypeOK, Growing, NEW o \in Opportunity, growth[o] # 0
  PROVE  growth'[o] = growth[o]
<1>1. PICK members \in SUBSET Opportunity : Grow(members)
  BY GrowingMembers
<1>2. o \in members => growth[o] = run.n
  BY <1>1 DEF Grow, FitsGrowth, GrownBefore
<1>3. QED
  BY <1>1, <1>2 DEF Grow

\* Storing clusters keeps the types.
LEMMA TypeGrowing ==
  ASSUME TypeOK, Growing
  PROVE  TypeOK'
<1>1. PICK members \in SUBSET Opportunity, r \in 1 .. 2, found \in SUBSET Opportunity, at \in Stage :
        /\ Grow(members)
        /\ run' = [run EXCEPT !.at = at, !.found = found,
                              !.members = [run.members EXCEPT ![r] = members]]
  BY GrowingMembers
<1>2. run \in RunType /\ Rows /\ age \in [Opportunity -> 0 .. Cooldown]
  BY TypeParts
<1>3. [run.members EXCEPT ![r] = members] \in [1 .. 2 -> SUBSET Opportunity]
  BY <1>2 DEF RunType
<1>4. run' \in RunType /\ run'.n = run.n
  BY <1>1, <1>2, <1>3 DEF RunType
<1>5. growth' \in [Opportunity -> 0 .. run.n]
  BY <1>1, <1>2 DEF Grow, Rows, RunType
<1>6. QED
  BY <1>1, <1>2, <1>4, <1>5, TypePartsNext DEF Rows, Grow, EventRows, SnapshotRows, ProductRows

\* The clusters of the run in progress are of its own storing.
LEMMA MembersGrownStep ==
  ASSUME IInv, [Next]_vars
  PROVE  MembersGrown'
<1>1. TypeOK /\ MembersGrown
  BY DEF IInv
<1>2. CASE Moving
  BY <1>1, <1>2, MovingIsStill DEF Still, AllAtOnce, MembersGrown
<1>3. CASE Growing
  <2>1. PICK members \in SUBSET Opportunity, r \in 1 .. 2, found \in SUBSET Opportunity, at \in Stage :
          /\ Grow(members)
          /\ run' = [run EXCEPT !.at = at, !.found = found,
                                !.members = [run.members EXCEPT ![r] = members]]
    BY <1>1, <1>3, GrowingMembers
  <2>2. run \in RunType
    BY <1>1, TypeParts
  <2>3. run'.n = run.n /\ run'.members = [run.members EXCEPT ![r] = members]
    BY <2>1, <2>2 DEF RunType
  <2>4. ASSUME NEW q \in 1 .. 2, NEW o \in run'.members[q]
        PROVE  growth'[o] = run'.n
    <3>1. o \in members \/ o \in run.members[q]
      BY <2>3, <2>2, <2>4 DEF RunType
    <3>2. o \in Opportunity
      BY <3>1, <2>2 DEF RunType
    <3>3. QED
      BY <1>1, <2>1, <2>3, <3>1, <3>2 DEF MembersGrown, Grow
  <2>5. QED
    BY <2>4 DEF MembersGrown
<1>4. CASE Gap \/ CardsAgain \/ Creating
  BY <1>1, <1>4, Frames DEF MembersGrown
<1>5. CASE Publish
  BY <1>1, <1>5, Frames DEF MembersGrown
<1>6. QED
  BY <1>2, <1>3, <1>4, <1>5, NextCases

\* Types are kept once a run that works has a number.
LEMMA TypeStep ==
  ASSUME IInv, [Next]_vars
  PROVE  TypeOK'
<1>1. TypeOK /\ Begun
  BY DEF IInv
<1>2. QED
  BY <1>1, NextCases, TypeMoving, TypeGrowing, TypeGap, TypeCardsAgain, TypePublish, TypeCreating

(***************************************************************************)
(* What a step does to a status, to the events and to the snapshots.       *)
(***************************************************************************)
\* Only an assessment that is not validated is decided, and only as its status allows.
LEMMA DecidedAllowed ==
  ASSUME NEW o \in Decided, NEW passed, Fits(o, Decision(o, passed))
  PROVE  /\ Turns(o, passed) \in Allows(status[o])
         /\ Turns(o, passed) # status[o]
         /\ status[o] \in {"RESEARCHING", "RESEARCH_MORE"}
<1>1. Turns(o, passed) \in Allows(status[o])
  BY DEF Decided, Fits, Turns
<1>2. QED
  BY <1>1 DEF Allows

\* No assessment is forgotten, and none that is validated changes.
LEMMA StatusStep ==
  ASSUME TypeOK, [Next]_vars, NEW o \in Opportunity
  PROVE  /\ status[o] # "NONE" => status'[o] # "NONE"
         /\ status[o] = "VALIDATE" => status'[o] = "VALIDATE"
<1>1. CASE Moving
  BY <1>1, MovingIsStill DEF Still, AllAtOnce
<1>2. CASE Growing \/ Creating
  BY <1>2, Frames
<1>3. CASE Gap
  BY <1>3, GapWrites
<1>4. CASE CardsAgain
  BY <1>4, CardsAgainWrites
<1>5. CASE Publish
  <2>1. PICK passed \in SUBSET Convinced :
          /\ \A x \in run.found : Fits(x, Decision(x, passed))
          /\ snapshots' = snapshots \union {Snapshot(x, Decision(x, passed)) : x \in run.found}
          /\ status' = [x \in Opportunity |->
                          IF x \in Decided THEN Turns(x, passed) ELSE status[x]]
          /\ events' = events \union {Event(x, status[x], Turns(x, passed)) : x \in Decided}
    BY <1>5, PublishWrites
  <2>2. run.found \in SUBSET Opportunity
    BY TypeParts DEF RunType
  <2>3. o \in Decided => Turns(o, passed) \in State /\ status[o] # "VALIDATE"
    BY DecisionTyped DEF Decided
  <2>4. QED
    BY <2>1, <2>3 DEF State
<1>6. QED
  BY <1>1, <1>2, <1>3, <1>4, <1>5, NextCases

\* Nothing stored is taken back.
LEMMA RowsStay ==
  ASSUME TypeOK, [Next]_vars
  PROVE  /\ events \subseteq events' /\ snapshots \subseteq snapshots' /\ products \subseteq products'
         /\ ~ Publish => snapshots' = snapshots
         /\ ~ Creating => products' = products
<1>1. CASE Moving
  BY <1>1, MovingIsStill DEF Still, AllAtOnce
<1>2. CASE Growing
  BY <1>2, Frames
<1>3. CASE Gap
  BY <1>3, GapWrites, Frames
<1>4. CASE CardsAgain
  BY <1>4, CardsAgainWrites, Frames
<1>5. CASE Publish
  BY <1>5, PublishWrites, Frames
<1>6. CASE Creating
  BY <1>6, CreateProductWrites, Frames
<1>7. QED
  BY <1>1, <1>2, <1>3, <1>4, <1>5, <1>6, NextCases

\* While a run works its number stands, and a run that begins has a new one.
LEMMA RunStep ==
  ASSUME TypeOK, [Next]_vars
  PROVE  /\ run.n \in Nat /\ run'.n \in Nat
         /\ run.n <= run'.n
         /\ run'.at # "idle" => run.at # "idle" \/ run.n < run'.n
<1>1. run \in RunType
  BY TypeParts
<1>2. CASE Moving
  BY <1>1, <1>2, MovingIsStill DEF Still, RunType
<1>3. CASE ~ Moving
  BY <1>1, <1>3, NextCases, Frames DEF RunType
<1>4. QED
  BY <1>2, <1>3

\* A snapshot is written by the last transaction of its run.
LEMMA SnapshotsPastStep ==
  ASSUME IInv, [Next]_vars
  PROVE  SnapshotsPast'
<1>1. TypeOK /\ SnapshotsPast
  BY DEF IInv
<1>2. CASE Publish
  BY <1>1, <1>2, Frames DEF SnapshotsPast
<1>3. CASE ~ Publish
  <2>1. SUFFICES ASSUME run'.at # "idle", NEW s \in snapshots'
                 PROVE  s.run < run'.n
    BY DEF SnapshotsPast
  <2>2. s \in snapshots
    BY <1>1, <1>3, <2>1, RowsStay
  <2>3. s.run \in 1 .. run.n
    BY <1>1, <2>2 DEF TypeOK
  <2>4. QED
    BY <1>1, <2>1, <2>2, <2>3, RunStep DEF SnapshotsPast
<1>4. QED
  BY <1>2, <1>3

\* What Publish adds, of which nothing is a repetition or unknown.
LEMMA NewSnapshot ==
  ASSUME IInv, Publish, NEW s \in snapshots', s \notin snapshots
  PROVE  /\ s.opp \in run.found /\ s.opp \in Opportunity /\ s.run = run.n
         /\ \A t \in snapshots : t.run < s.run
         /\ status[s.opp] \in {"RESEARCHING", "RESEARCH_MORE", "VALIDATE"}
         /\ status[s.opp] = "VALIDATE" => s.verdict = "VALIDATE"
         /\ status[s.opp] # "VALIDATE" => Becomes(s.verdict) # status[s.opp]
         /\ status'[s.opp] = Becomes(s.verdict)
         /\ s.verdict = "VALIDATE" => growth[s.opp] = run.n
<1>1. TypeOK /\ SnapshotsPast /\ MembersGrown
  BY DEF IInv
<1>2. PICK passed \in SUBSET Convinced :
          /\ \A o \in run.found : Fits(o, Decision(o, passed))
          /\ snapshots' = snapshots \union {Snapshot(o, Decision(o, passed)) : o \in run.found}
          /\ status' = [o \in Opportunity |->
                          IF o \in Decided THEN Turns(o, passed) ELSE status[o]]
          /\ events' = events \union {Event(o, status[o], Turns(o, passed)) : o \in Decided}
  BY <1>1, PublishWrites
<1>3. PICK o \in run.found : s = Snapshot(o, Decision(o, passed))
  BY <1>2
<1>4. /\ s.opp = o /\ s.run = run.n /\ s.verdict = Decision(o, passed) /\ o \in Opportunity
      /\ run.round \in 1 .. 2
  BY <1>1, <1>3, TypeParts DEF Snapshot, RunType
<1>5. \A t \in snapshots : t.run < run.n
  BY <1>1 DEF SnapshotsPast, Publish
<1>6. s.verdict = "VALIDATE" => growth[o] = run.n
  <2>1. s.verdict = "VALIDATE" => o \in passed
    BY <1>1, <1>4, DecisionTyped
  <2>2. o \in passed => Evidenced(o)
    BY <1>2 DEF Convinced
  <2>3. Evidenced(o) => growth[o] = run.n
    BY <1>1, <1>4 DEF Evidenced, MembersGrown
  <2>4. QED
    BY <2>1, <2>2, <2>3
<1>7. /\ status[o] \in {"RESEARCHING", "RESEARCH_MORE", "VALIDATE"}
      /\ status[o] = "VALIDATE" => s.verdict = "VALIDATE"
      /\ status[o] # "VALIDATE" => Becomes(s.verdict) # status[o]
      /\ status'[o] = Becomes(s.verdict)
  <2>1. CASE status[o] = "VALIDATE"
    <3>1. s.verdict = "VALIDATE" /\ status'[o] = "VALIDATE"
      BY <1>2, <1>4, <2>1 DEF Fits, Decided
    <3>2. QED
      BY <3>1, <1>4, <2>1 DEF Becomes
  <2>2. CASE status[o] # "VALIDATE"
    <3>1. o \in Decided /\ Turns(o, passed) = Becomes(s.verdict)
      BY <1>3, <1>4, <2>2 DEF Decided, Turns
    <3>2. QED
      BY <1>2, <1>4, <2>2, <3>1, DecidedAllowed
  <2>3. QED
    BY <2>1, <2>2
<1>8. QED
  BY <1>4, <1>5, <1>6, <1>7

\* Whose snapshot is stored is known, and validated where it says so.
LEMMA SnapshotsKnownStep ==
  ASSUME IInv, [Next]_vars
  PROVE  SnapshotsKnown' /\ ValidatedStays'
<1>1. TypeOK /\ SnapshotsKnown /\ ValidatedStays
  BY DEF IInv
<1>2. SUFFICES ASSUME NEW s \in snapshots'
               PROVE  /\ status'[s.opp] # "NONE"
                      /\ s.verdict = "VALIDATE" => status'[s.opp] = "VALIDATE"
  BY DEF SnapshotsKnown, ValidatedStays
<1>3. CASE s \in snapshots
  <2>1. s.opp \in Opportunity
    BY <1>1, <1>3 DEF TypeOK
  <2>2. QED
    BY <1>1, <1>3, <2>1, StatusStep DEF SnapshotsKnown, ValidatedStays
<1>4. CASE s \notin snapshots
  <2>1. Publish
    BY <1>1, <1>4, <1>2, RowsStay
  <2>2. status'[s.opp] = Becomes(s.verdict) /\ s \in SnapshotRows(run'.n)
    BY <2>1, <1>4, NewSnapshot, TypeStep, TypePartsNext DEF Rows
  <2>3. QED
    BY <2>2 DEF Becomes, SnapshotRows, Verdict
<1>5. QED
  BY <1>3, <1>4

\* What is validated once is validated again or not published.
LEMMA ValidatedLastStep ==
  ASSUME IInv, [Next]_vars
  PROVE  ValidatedLast'
<1>1. TypeOK /\ ValidatedLast /\ ValidatedStays
  BY DEF IInv
<1>2. SUFFICES ASSUME NEW s \in snapshots', NEW t \in snapshots',
                      s.opp = t.opp, s.verdict = "VALIDATE", s.run <= t.run
               PROVE  t.verdict = "VALIDATE"
  BY DEF ValidatedLast
<1>3. CASE s \in snapshots /\ t \in snapshots
  BY <1>1, <1>2, <1>3 DEF ValidatedLast
<1>4. CASE s \in snapshots /\ t \notin snapshots
  <2>1. Publish
    BY <1>1, <1>4, <1>2, RowsStay
  <2>2. status[t.opp] = "VALIDATE"
    BY <1>1, <1>2, <1>4 DEF ValidatedStays
  <2>3. QED
    BY <2>1, <2>2, <1>2, <1>4, NewSnapshot
<1>5. CASE s \notin snapshots /\ t \in snapshots
  <2>1. Publish
    BY <1>1, <1>5, <1>2, RowsStay
  <2>2. t.run < s.run
    BY <2>1, <1>2, <1>5, NewSnapshot
  <2>3. t.run \in Nat /\ s.run \in Nat
    BY <1>2, TypeStep DEF TypeOK
  <2>4. QED
    BY <2>2, <2>3, <1>2
<1>6. CASE s \notin snapshots /\ t \notin snapshots
  <2>1. Publish
    BY <1>1, <1>6, <1>2, RowsStay
  <2>2. PICK passed \in SUBSET Convinced :
          snapshots' = snapshots \union {Snapshot(o, Decision(o, passed)) : o \in run.found}
    BY <1>1, <2>1, PublishWrites
  <2>3. /\ s = Snapshot(s.opp, Decision(s.opp, passed))
        /\ t = Snapshot(t.opp, Decision(t.opp, passed))
    BY <2>2, <1>2, <1>6 DEF Snapshot
  <2>4. QED
    BY <2>3, <1>2
<1>7. QED
  BY <1>3, <1>4, <1>5, <1>6

\* A validated opportunity was validated by an earlier run, or by this one as it ends.
LEMMA ValidatedBeforeStep ==
  ASSUME IInv, [Next]_vars
  PROVE  ValidatedBefore'
<1>1. TypeOK /\ ValidatedBefore
  BY DEF IInv
<1>2. SUFFICES ASSUME NEW o \in Opportunity, status'[o] = "VALIDATE"
               PROVE  \E e \in events' : /\ e.opp = o /\ e.to = "VALIDATE"
                                         /\ run'.at # "idle" => e.run < run'.n
  BY DEF ValidatedBefore
<1>3. CASE status[o] = "VALIDATE"
  <2>1. PICK e \in events : e.opp = o /\ e.to = "VALIDATE" /\ (run.at # "idle" => e.run < run.n)
    BY <1>1, <1>3 DEF ValidatedBefore
  <2>2. e.run \in 1 .. run.n
    BY <1>1 DEF TypeOK
  <2>3. run'.at # "idle" => e.run < run'.n
    BY <1>1, <2>1, <2>2, RunStep
  <2>4. QED
    BY <1>1, <2>1, <2>3, RowsStay
<1>4. CASE status[o] # "VALIDATE"
  <2>1. CASE Publish
    <3>1. PICK passed \in SUBSET Convinced :
            /\ status' = [q \in Opportunity |->
                            IF q \in Decided THEN Turns(q, passed) ELSE status[q]]
            /\ events' = events \union {Event(q, status[q], Turns(q, passed)) : q \in Decided}
      BY <1>1, <2>1, PublishWrites
    <3>2. o \in Decided /\ Turns(o, passed) = "VALIDATE"
      BY <3>1, <1>2, <1>4
    <3>3. Event(o, status[o], "VALIDATE") \in events'
      BY <3>1, <3>2
    <3>4. QED
      BY <1>1, <2>1, <3>3, Frames DEF Event
  <2>2. CASE Moving
    BY <1>1, <1>2, <1>4, <2>2, MovingIsStill DEF Still, AllAtOnce
  <2>3. CASE Growing \/ Creating
    BY <1>1, <1>2, <1>4, <2>3, Frames
  <2>4. CASE Gap
    BY <1>1, <1>2, <1>4, <2>4, GapWrites
  <2>5. CASE CardsAgain
    BY <1>1, <1>2, <1>4, <2>5, CardsAgainWrites
  <2>6. QED
    BY <2>1, <2>2, <2>3, <2>4, <2>5, NextCases
<1>5. QED
  BY <1>3, <1>4

\* A decision or a reopening changes a status, and leaves a row that says so.
LEMMA SnapshotsAgreeStep ==
  ASSUME IInv, [Next]_vars
  PROVE  SnapshotsAgree'
<1>1. TypeOK /\ SnapshotsAgree /\ SnapshotsPast /\ SnapshotsKnown /\ Begun
  BY DEF IInv
<1>2. SUFFICES ASSUME NEW s \in snapshots'
               PROVE  \/ \E t \in snapshots' : t.opp = s.opp /\ t.run > s.run
                      \/ status'[s.opp] = Becomes(s.verdict)
                      \/ /\ status'[s.opp] = "RESEARCH_MORE"
                         /\ \E e \in events' : e.opp = s.opp /\ Reopening(e) /\ e.run > s.run
  BY DEF SnapshotsAgree, Becomes, Reopening
<1>3. CASE s \notin snapshots
  BY <1>1, <1>2, <1>3, RowsStay, NewSnapshot
<1>4. CASE s \in snapshots
  <2>1. s.opp \in Opportunity /\ s.run \in 1 .. run.n /\ run.n \in Nat
    BY <1>1, <1>4 DEF TypeOK
  <2>2. \/ \E t \in snapshots : t.opp = s.opp /\ t.run > s.run
        \/ status[s.opp] = Becomes(s.verdict)
        \/ /\ status[s.opp] = "RESEARCH_MORE"
           /\ \E e \in events : e.opp = s.opp /\ Reopening(e) /\ e.run > s.run
    BY <1>1, <1>4 DEF SnapshotsAgree
  <2>3. CASE status'[s.opp] = status[s.opp]
    BY <1>1, <2>2, <2>3, RowsStay
  <2>4. CASE status'[s.opp] # status[s.opp]
    <3>1. CASE Publish
      <4>1. PICK passed \in SUBSET Convinced :
              /\ snapshots' = snapshots \union {Snapshot(o, Decision(o, passed)) : o \in run.found}
              /\ status' = [o \in Opportunity |->
                              IF o \in Decided THEN Turns(o, passed) ELSE status[o]]
        BY <1>1, <3>1, PublishWrites
      <4>2. s.opp \in run.found
        BY <2>1, <2>4, <4>1 DEF Decided
      <4>3. Snapshot(s.opp, Decision(s.opp, passed)) \in snapshots'
        BY <4>1, <4>2
      <4>4. s.run < run.n
        BY <1>1, <1>4, <3>1 DEF SnapshotsPast, Publish
      <4>5. QED
        BY <2>1, <4>3, <4>4 DEF Snapshot
    <3>2. CASE CardsAgain
      <4>1. PICK reopened \in SUBSET run.members[2] :
              /\ \A o \in reopened : o \in Opportunity /\ status[o] = "REJECTED"
              /\ status' = [o \in Opportunity |->
                              IF o \in reopened THEN "RESEARCH_MORE" ELSE status[o]]
              /\ events' = events \union {Event(o, status[o], "RESEARCH_MORE") : o \in reopened}
        BY <1>1, <3>2, CardsAgainWrites
      <4>2. s.opp \in reopened /\ status'[s.opp] = "RESEARCH_MORE"
        BY <2>1, <2>4, <4>1
      <4>3. Event(s.opp, "REJECTED", "RESEARCH_MORE") \in events'
        BY <4>1, <4>2
      <4>4. s.run < run.n
        BY <1>1, <1>4, <3>2, Frames DEF SnapshotsPast
      <4>5. QED
        BY <2>1, <4>2, <4>3, <4>4 DEF Event, Reopening
    <3>3. CASE Gap
      BY <1>1, <1>4, <2>1, <2>4, <3>3, GapWrites DEF SnapshotsKnown
    <3>4. CASE Moving \/ Growing \/ Creating
      BY <1>1, <2>4, <3>4, Frames, MovingIsStill DEF Still, AllAtOnce
    <3>5. QED
      BY <3>1, <3>2, <3>3, <3>4, NextCases
  <2>5. QED
    BY <2>3, <2>4
<1>5. QED
  BY <1>3, <1>4

\* Evidence is of the run that stored the cluster, and no other run stores it again.
LEMMA OneRunHasEvidenceStep ==
  ASSUME IInv, [Next]_vars
  PROVE  OneRunHasEvidence'
<1>1. TypeOK /\ OneRunHasEvidence /\ MembersGrown
  BY DEF IInv
<1>2. SUFFICES ASSUME NEW e \in events', e.to = "VALIDATE" \/ Reopening(e)
               PROVE  e.run = growth'[e.opp]
  BY DEF OneRunHasEvidence, Reopening
<1>3. CASE e \in events
  <2>1. e.opp \in Opportunity /\ e.run \in 1 .. run.n /\ e.run = growth[e.opp] /\ growth[e.opp] # 0
    BY <1>1, <1>2, <1>3 DEF TypeOK, OneRunHasEvidence
  <2>2. CASE Growing
    BY <1>1, <2>1, <2>2, GrowthStep
  <2>3. CASE ~ Growing
    BY <1>1, <2>1, <2>3, NextCases, Frames, MovingIsStill DEF Still, AllAtOnce
  <2>4. QED
    BY <2>2, <2>3
<1>4. CASE e \notin events
  <2>1. CASE Moving \/ Growing \/ Creating
    BY <1>1, <1>2, <1>4, <2>1, Frames, MovingIsStill DEF Still, AllAtOnce
  <2>2. CASE Gap
    <3>1. PICK found \in SUBSET Opportunity :
            LET new == {o \in found : status[o] = "NONE"} IN
              events' = events \union {Event(o, "NONE", "DISCOVERED") : o \in new}
                               \union {Event(o, "DISCOVERED", "RESEARCHING") : o \in new}
      BY <1>1, <2>2, GapWrites
    <3>2. PICK o \in found : \/ e = Event(o, "NONE", "DISCOVERED")
                             \/ e = Event(o, "DISCOVERED", "RESEARCHING")
      BY <1>2, <1>4, <3>1
    <3>3. e.to # "VALIDATE" /\ ~ Reopening(e)
      BY <3>2 DEF Event, Reopening
    <3>4. QED
      BY <1>2, <3>3
  <2>3. CASE CardsAgain
    <3>1. PICK reopened \in SUBSET run.members[2] :
            events' = events \union {Event(o, status[o], "RESEARCH_MORE") : o \in reopened}
      BY <1>1, <2>3, CardsAgainWrites
    <3>2. e.opp \in run.members[2] /\ e.run = run.n
      BY <1>2, <1>4, <3>1 DEF Event
    <3>3. QED
      BY <1>1, <2>3, <3>2, Frames DEF MembersGrown
  <2>4. CASE Publish
    <3>1. PICK passed \in SUBSET Convinced :
            /\ \A o \in run.found : Fits(o, Decision(o, passed))
            /\ events' = events \union {Event(o, status[o], Turns(o, passed)) : o \in Decided}
      BY <1>1, <2>4, PublishWrites
    <3>2. PICK o \in Decided : e = Event(o, status[o], Turns(o, passed))
      BY <1>2, <1>4, <3>1
    <3>3. o \in run.found /\ o \in Opportunity /\ run.round \in 1 .. 2
      BY <1>1, TypeParts DEF Decided, RunType
    <3>4. status[o] # "REJECTED"
      BY <3>1, <3>3, DecidedAllowed
    <3>5. Turns(o, passed) = "VALIDATE"
      BY <1>2, <3>2, <3>4 DEF Event, Reopening
    <3>6. o \in passed
      BY <1>1, <3>3, <3>5, DecisionTyped
    <3>7. growth[o] = run.n
      BY <1>1, <3>1, <3>3, <3>6 DEF Convinced, Evidenced, MembersGrown
    <3>8. QED
      BY <1>1, <2>4, <3>2, <3>7, Frames DEF Event
  <2>5. QED
    BY <2>1, <2>2, <2>3, <2>4, NextCases
<1>5. QED
  BY <1>3, <1>4

\* A run that decides as the latest run did either leaves the status as it is, which no
\* decision does, or validates a second time, for which it has no cluster.
LEMMA DecisionsDifferStep ==
  ASSUME IInv, [Next]_vars
  PROVE  DecisionsDiffer'
<1>1. /\ TypeOK /\ DecisionsDiffer /\ SnapshotsAgree /\ SnapshotsPast /\ ValidatedBefore
      /\ OneRunHasEvidence
  BY DEF IInv
<1>2. SUFFICES ASSUME NEW s \in snapshots', NEW t \in snapshots',
                      s.opp = t.opp, s.run < t.run, s.verdict = t.verdict
               PROVE  \/ \E u \in snapshots' : u.opp = s.opp /\ s.run < u.run /\ u.run < t.run
                      \/ \E e \in events' : e.opp = s.opp /\ Reopening(e) /\ s.run < e.run /\ e.run <= t.run
  BY DEF DecisionsDiffer, Reopening
<1>3. CASE s \in snapshots /\ t \in snapshots
  BY <1>1, <1>2, <1>3, RowsStay DEF DecisionsDiffer
<1>4. CASE t \notin snapshots
  <2>1. Publish
    BY <1>1, <1>2, <1>4, RowsStay
  <2>2. /\ t.opp \in Opportunity /\ t.run = run.n
        /\ status[t.opp] = "VALIDATE" => t.verdict = "VALIDATE"
        /\ status[t.opp] # "VALIDATE" => Becomes(t.verdict) # status[t.opp]
        /\ t.verdict = "VALIDATE" => growth[t.opp] = run.n
    BY <1>2, <1>4, <2>1, NewSnapshot
  <2>3. s \in snapshots
    <3>1. CASE s \notin snapshots
      <4>1. s.run = run.n /\ run.n \in Nat
        BY <1>1, <1>2, <2>1, <3>1, NewSnapshot, RunStep
      <4>2. QED
        BY <4>1, <2>2, <1>2
    <3>2. QED
      BY <3>1
  <2>4. CASE \E u \in snapshots : u.opp = s.opp /\ u.run > s.run
    BY <1>1, <1>2, <2>1, <2>2, <2>4, RowsStay DEF SnapshotsPast, Publish
  <2>5. CASE status[s.opp] = Becomes(s.verdict)
    <3>1. status[t.opp] = "VALIDATE"
      BY <1>2, <2>2, <2>5
    <3>2. growth[t.opp] = run.n
      BY <2>2, <3>1
    <3>3. PICK e \in events : e.opp = t.opp /\ e.to = "VALIDATE" /\ e.run < run.n
      BY <1>1, <2>1, <2>2, <3>1 DEF ValidatedBefore, Publish
    <3>4. e.run = growth[t.opp] /\ e.run \in Nat
      BY <1>1, <3>3 DEF OneRunHasEvidence, TypeOK
    <3>5. QED
      BY <3>2, <3>3, <3>4
  <2>6. CASE \E e \in events : e.opp = s.opp /\ Reopening(e) /\ e.run > s.run
    <3>1. PICK e \in events : e.opp = s.opp /\ Reopening(e) /\ e.run > s.run
      BY <2>6
    <3>2. e.run \in 1 .. run.n /\ run.n \in Nat /\ s.run \in Nat
      BY <1>1, <2>3 DEF TypeOK
    <3>3. QED
      BY <1>1, <2>2, <3>1, <3>2, RowsStay
  <2>7. QED
    BY <1>1, <2>3, <2>4, <2>5, <2>6 DEF SnapshotsAgree
<1>5. CASE s \notin snapshots /\ t \in snapshots
  <2>1. Publish
    BY <1>1, <1>2, <1>5, RowsStay
  <2>2. t.run < s.run
    BY <1>5, <2>1, NewSnapshot
  <2>3. t.run \in Nat /\ s.run \in Nat
    BY <1>2, TypeStep DEF TypeOK
  <2>4. QED
    BY <2>2, <2>3, <1>2
<1>6. QED
  BY <1>3, <1>4, <1>5

\* A product hypothesis keeps the snapshot it was made from, and the later ones agree with it.
LEMMA ProductsStandStep ==
  ASSUME IInv, [Next]_vars
  PROVE  ProductsStand'
<1>1. TypeOK /\ ProductsStand
  BY DEF IInv
<1>2. SUFFICES ASSUME NEW p \in products'
               PROVE  LET f == [opp |-> p.opp, run |-> p.run, round |-> p.round, verdict |-> "VALIDATE"] IN
                        /\ f \in snapshots'
                        /\ \A s \in snapshots' : s.opp = p.opp /\ s.run >= p.run => s.verdict = "VALIDATE"
  BY DEF ProductsStand
<1> DEFINE f == [opp |-> p.opp, run |-> p.run, round |-> p.round, verdict |-> "VALIDATE"]
<1>3. f \in snapshots'
  <2>1. CASE p \in products
    BY <1>1, <2>1, RowsStay DEF ProductsStand
  <2>2. CASE p \notin products
    <3>1. Creating
      BY <1>1, <1>2, <2>2, RowsStay
    <3>2. PICK o \in Opportunity, q \in Request, s \in snapshots :
            /\ s.opp = o /\ s.verdict = "VALIDATE"
            /\ products' = products \union {[opp |-> o, request |-> q, run |-> s.run, round |-> s.round]}
      BY <1>1, <3>1, CreateProductWrites
    <3>3. p.opp = s.opp /\ p.run = s.run /\ p.round = s.round
      BY <1>2, <2>2, <3>2
    <3>4. s = [opp |-> s.opp, run |-> s.run, round |-> s.round, verdict |-> s.verdict]
      BY <1>1 DEF TypeOK
    <3>5. QED
      BY <1>1, <3>2, <3>3, <3>4, RowsStay
  <2>3. QED
    BY <2>1, <2>2
<1>4. ASSUME NEW s \in snapshots', s.opp = p.opp, s.run >= p.run
      PROVE  s.verdict = "VALIDATE"
  <2>1. p.run \in Nat /\ s.run \in Nat
    BY <1>2, TypeStep DEF TypeOK
  <2>2. f.run <= s.run /\ f.opp = s.opp /\ f.verdict = "VALIDATE"
    BY <1>4, <2>1
  <2>3. QED
    BY <1>3, <2>2, ValidatedLastStep DEF ValidatedLast
<1>5. QED
  BY <1>3, <1>4

(***************************************************************************)
(* The theorems.                                                           *)
(***************************************************************************)
\* Nothing is known before the first run.
LEMMA InitInv == Init => IInv
<1> SUFFICES ASSUME Init PROVE IInv
  OBVIOUS
<1>1. 0 \in 0 .. MaxRuns /\ "idle" \in Stage
  BY LifecycleAssumption DEF Stage
<1>2. run \in RunType /\ run.n = 0 /\ run.at = "idle" /\ run.members = [r \in 1 .. 2 |-> {}]
  BY <1>1, NewRunTyped DEF Init, RunType
<1>3. TypeOK
  BY <1>2, TypeParts, LifecycleAssumption DEF Init, Rows
<1>4. Begun /\ MembersGrown /\ SnapshotsPast
  BY <1>2 DEF Init, Begun, MembersGrown, SnapshotsPast
<1>5. /\ SnapshotsKnown /\ ValidatedStays /\ ValidatedLast /\ ValidatedBefore
      /\ SnapshotsAgree /\ DecisionsDiffer /\ ProductsStand /\ OneRunHasEvidence
  BY DEF Init, SnapshotsKnown, ValidatedStays, ValidatedLast, ValidatedBefore, SnapshotsAgree,
    DecisionsDiffer, ProductsStand, OneRunHasEvidence
<1>6. QED
  BY <1>3, <1>4, <1>5 DEF IInv

\* Every step of the mission keeps the invariant.
LEMMA NextInv == IInv /\ [Next]_vars => IInv'
BY TypeStep, BegunStep, MembersGrownStep, SnapshotsPastStep, SnapshotsKnownStep, ValidatedLastStep,
  ValidatedBeforeStep, SnapshotsAgreeStep, DecisionsDifferStep, ProductsStandStep,
  OneRunHasEvidenceStep DEF IInv

\* The inductive invariant holds of every mission revision.
THEOREM LifecycleInvariant == Spec => []IInv
BY InitInv, NextInv, PTL DEF Spec

\* Every variable keeps its type, whatever the runs find.
THEOREM LifecycleTyped == Spec => []TypeOK
<1>1. IInv => TypeOK
  BY DEF IInv
<1>2. QED
  BY <1>1, LifecycleInvariant, PTL

\* What is reported of an opportunity is what the queries say of it, or it has been reopened.
THEOREM SnapshotsAgreeAlways == Spec => []SnapshotsAgree
<1>1. IInv => SnapshotsAgree
  BY DEF IInv
<1>2. QED
  BY <1>1, LifecycleInvariant, PTL

\* No run publishes the decision of the run before it again.
THEOREM DecisionsDifferAlways == Spec => []DecisionsDiffer
<1>1. IInv => DecisionsDiffer
  BY DEF IInv
<1>2. QED
  BY <1>1, LifecycleInvariant, PTL

\* No product hypothesis loses the decision it was made from.
THEOREM ProductsStandAlways == Spec => []ProductsStand
<1>1. IInv => ProductsStand
  BY DEF IInv
<1>2. QED
  BY <1>1, LifecycleInvariant, PTL

\* Only the run that stored the cluster of an opportunity validates or reopens it.
THEOREM OneRunHasEvidenceAlways == Spec => []OneRunHasEvidence
<1>1. IInv => OneRunHasEvidence
  BY DEF IInv
<1>2. QED
  BY <1>1, LifecycleInvariant, PTL

(***************************************************************************)
(* The abstract lifecycle.                                                 *)
(***************************************************************************)
Conceived == {p.opp : p \in products}

\* A step of the mission is a step of the abstract lifecycle or none.
LEMMA StepRefines ==
  ASSUME TypeOK, TypeOK', [Next]_vars
  PROVE  [Promised!ANext]_(Promised!avars)
<1>1. CASE Moving
  <2>1. UNCHANGED <<status, products>>
    BY <1>1, MovingIsStill DEF Still, AllAtOnce
  <2>2. QED
    BY <2>1 DEF Promised!avars
<1>2. CASE Growing
  <2>1. UNCHANGED <<status, products>>
    BY <1>2, Frames
  <2>2. QED
    BY <2>1 DEF Promised!avars
<1>3. CASE Gap
  <2>1. PICK found \in SUBSET Opportunity :
          LET new == {o \in found : status[o] = "NONE"} IN
            status' = [o \in Opportunity |-> IF o \in new THEN "RESEARCHING" ELSE status[o]]
    BY <1>3, GapWrites
  <2>2. status' = [o \in Opportunity |->
                     IF o \in found /\ status[o] = "NONE" THEN "RESEARCHING" ELSE status[o]]
    BY <2>1
  <2>3. UNCHANGED products
    BY <1>3, Frames
  <2>4. Promised!Discover(found)
    BY <2>2, <2>3 DEF Promised!Discover
  <2>5. QED
    BY <2>4 DEF Promised!ANext
<1>4. CASE CardsAgain
  <2>1. PICK reopened \in SUBSET run.members[2] :
          /\ \A o \in reopened : o \in Opportunity /\ status[o] = "REJECTED"
          /\ status' = [o \in Opportunity |->
                          IF o \in reopened THEN "RESEARCH_MORE" ELSE status[o]]
    BY <1>4, CardsAgainWrites
  <2>2. UNCHANGED products /\ reopened \in SUBSET Opportunity
    BY <1>4, <2>1, Frames
  <2>3. Promised!Reopen(reopened)
    BY <2>1, <2>2 DEF Promised!Reopen
  <2>4. QED
    BY <2>2, <2>3 DEF Promised!ANext
<1>5. CASE Publish
  <2>1. PICK passed \in SUBSET Convinced :
          /\ \A o \in run.found : Fits(o, Decision(o, passed))
          /\ status' = [o \in Opportunity |->
                          IF o \in Decided THEN Turns(o, passed) ELSE status[o]]
    BY <1>5, PublishWrites
  <2>2. UNCHANGED products /\ run.found \in SUBSET Opportunity
    BY <1>5, Frames, TypeParts DEF RunType
  <2>3. status' \in [Opportunity -> {"NONE", "RESEARCHING", "RESEARCH_MORE", "VALIDATE", "REJECTED"}]
    BY DEF TypeOK, State
  <2>4. ASSUME NEW o \in Opportunity
        PROVE  IF o \in run.found THEN status'[o] \in Promised!Outcomes(status[o])
               ELSE status'[o] = status[o]
    <3>1. CASE o \in Decided
      <4>1. status'[o] = Turns(o, passed) /\ o \in run.found
        BY <2>1, <3>1 DEF Decided
      <4>2. /\ Turns(o, passed) \in Allows(status[o]) /\ Turns(o, passed) # status[o]
            /\ status[o] \in {"RESEARCHING", "RESEARCH_MORE"}
        BY <2>1, <3>1, <4>1, DecidedAllowed
      <4>3. Turns(o, passed) \in {"VALIDATE", "RESEARCH_MORE", "REJECTED"}
        BY DEF Turns, Becomes, Decision
      <4>4. QED
        BY <4>1, <4>2, <4>3 DEF Promised!Outcomes
    <3>2. CASE o \notin Decided
      <4>1. status'[o] = status[o] /\ (o \in run.found => status[o] = "VALIDATE")
        BY <2>1, <3>2 DEF Decided
      <4>2. QED
        BY <4>1 DEF Promised!Outcomes
    <3>3. QED
      BY <3>1, <3>2
  <2>5. Promised!Decide(run.found)
    BY <2>2, <2>3, <2>4 DEF Promised!Decide
  <2>6. QED
    BY <2>2, <2>5 DEF Promised!ANext
<1>6. CASE Creating
  <2>1. PICK o \in Opportunity, q \in Request, s \in snapshots :
          /\ status[o] = "VALIDATE"
          /\ products' = products \union {[opp |-> o, request |-> q, run |-> s.run, round |-> s.round]}
    BY <1>6, CreateProductWrites
  <2>2. Conceived' = Conceived \union {o}
    <3>1. \A p \in products' : p.opp = o \/ p \in products
      BY <2>1
    <3>2. products \subseteq products'
      BY <2>1
    <3>3. [opp |-> o, request |-> q, run |-> s.run, round |-> s.round] \in products'
      BY <2>1
    <3>4. \E p \in products' : p.opp = o
      BY <3>3
    <3>5. QED
      BY <3>1, <3>2, <3>4 DEF Conceived
  <2>3. UNCHANGED status
    BY <1>6, Frames
  <2>4. Promised!Conceive(o)
    BY <2>1, <2>2, <2>3 DEF Promised!Conceive, Conceived
  <2>5. QED
    BY <2>4 DEF Promised!ANext
<1>7. QED
  BY <1>1, <1>2, <1>3, <1>4, <1>5, <1>6, NextCases

\* The opportunities of a mission revision live as Assessments promises: a decision to
\* VALIDATE is for good, and only a reopening comes between a rejection and another verdict.
THEOREM LifecycleImplementsAssessments == Spec => ImplementsAssessments
<1>1. Init => Promised!AInit
  BY DEF Init, Promised!AInit
<1>2. TypeOK /\ TypeOK' /\ [Next]_vars => [Promised!ANext]_(Promised!avars)
  BY StepRefines
<1>3. QED
  BY <1>1, <1>2, LifecycleTyped, PTL DEF Spec, ImplementsAssessments, Promised!ASpec
=============================================================================
