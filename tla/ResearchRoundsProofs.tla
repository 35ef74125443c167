------------------------- MODULE ResearchRoundsProofs -------------------------
(***************************************************************************)
(* The safety of ResearchRounds, for all opportunities, budgets and any    *)
(* number of cuts: what is committed in which order, with what is charged; *)
(* then, on top of it, the count of the calls, which shows why a second    *)
(* round runs out of them.                                                 *)
(***************************************************************************)
EXTENDS ResearchRounds, FiniteSetTheorems, TLAPS

-----------------------------------------------------------------------------
(* The order of the stages.                                                *)

\* The stages of the first round, one by one.
LEMMA StagesOneListed ==
  StagesOne = {"EXISTING", "QUERY_PLAN", "COLLECT", "EXTRACT", "CLUSTER",
               "COMPETITOR_RESEARCH", "GAP", "CARD_SCORE", "HYPOTHESIS", "CRITIC"}
<1>1. DOMAIN RoundOne = 1 .. 10
  BY DEF RoundOne
<1> QED
  BY <1>1 DEF StagesOne, Elements, RoundOne

\* The stages of the second round, one by one.
LEMMA StagesTwoListed ==
  StagesTwo = {"COLLECT_R2", "EXTRACT_R2", "CLUSTER_R2", "GAP_R2", "CARD_SCORE_R2",
               "HYPOTHESIS_R2", "CRITIC_R2"}
<1>1. DOMAIN RoundTwo = 1 .. 7
  BY DEF RoundTwo
<1> QED
  BY <1>1 DEF StagesTwo, Elements, RoundTwo

\* The first critic comes after all that the second round builds on.
LEMMA CriticComesLast ==
  ASSUME IsNext(RoundOne, "CRITIC")
  PROVE  {"COLLECT", "COMPETITOR_RESEARCH", "GAP"} \subseteq done
<1>1. DOMAIN RoundOne = 1 .. 10
  BY DEF RoundOne
<1>2. PICK i \in 1 .. 10 : RoundOne[i] = "CRITIC" /\ \A j \in 1 .. i - 1 : RoundOne[j] \in done
  BY <1>1 DEF IsNext
<1>3. i = 10
  BY <1>2 DEF RoundOne
<1>4. RoundOne[3] \in done /\ RoundOne[6] \in done /\ RoundOne[7] \in done
  BY <1>2, <1>3
<1> QED
  BY <1>4 DEF RoundOne

\* The second critic is the last stage of the second round.
LEMMA SecondCriticComesLast ==
  ASSUME IsNext(RoundTwo, "CRITIC_R2")
  PROVE  StagesTwo \ {"CRITIC_R2"} \subseteq done
<1>1. DOMAIN RoundTwo = 1 .. 7
  BY DEF RoundTwo
<1>2. PICK i \in 1 .. 7 : RoundTwo[i] = "CRITIC_R2" /\ \A j \in 1 .. i - 1 : RoundTwo[j] \in done
  BY <1>1 DEF IsNext
<1>3. i = 7
  BY <1>2 DEF RoundTwo
<1>4. \A j \in 1 .. 6 : RoundTwo[j] \in done
  BY <1>2, <1>3
<1>5. /\ RoundTwo[1] \in done /\ RoundTwo[2] \in done /\ RoundTwo[3] \in done
      /\ RoundTwo[4] \in done /\ RoundTwo[5] \in done /\ RoundTwo[6] \in done
  BY <1>4
<1> QED
  BY <1>5, StagesTwoListed DEF RoundTwo

\* Where an attempt is when a stage is due, and what is committed by then.
LEMMA WhenDue ==
  ASSUME NEW s, Due(s)
  PROVE  /\ s \notin done
         /\ \/ at = "round1" /\ s \in StagesOne
            \/ at = "round2" /\ s \in StagesTwo /\ "COLLECT_R2" \notin hollow
         /\ s = "CRITIC" => {"COLLECT", "COMPETITOR_RESEARCH", "GAP"} \subseteq done
         /\ s = "CRITIC_R2" => StagesTwo \ {"CRITIC_R2"} \subseteq done
<1>1. s \notin done
  BY DEF Due, IsNext
<1>2. \/ at = "round1" /\ s \in StagesOne /\ IsNext(RoundOne, s)
      \/ at = "round2" /\ s \in StagesTwo /\ "COLLECT_R2" \notin hollow /\ IsNext(RoundTwo, s)
  BY DEF Due, IsNext, StagesOne, StagesTwo, Elements
<1>3. s = "CRITIC" => s \notin StagesTwo
  BY StagesTwoListed
<1>4. s = "CRITIC_R2" => s \notin StagesOne
  BY StagesOneListed
<1> QED
  BY <1>1, <1>2, <1>3, <1>4, CriticComesLast, SecondCriticComesLast

-----------------------------------------------------------------------------
(* The inductive invariant.                                                *)

Spent == used.requests = limits.requests \/ used.signals = limits.signals

\* A source that has been asked has a reservation and no result; an ended task is left.
Placed ==
  /\ at \in External => at \in reserved /\ at \notin done
  /\ end # "OPEN" => at = "idle"

\* What is committed came in order.
Ordered ==
  /\ "CRITIC" \in done => {"COLLECT", "COMPETITOR_RESEARCH", "GAP"} \subseteq done
  /\ asks # {} => "CRITIC" \in done
  /\ control # "NONE" => asks # {}
  /\ "CRITIC_R2" \in done => StagesTwo \subseteq done /\ "COLLECT_R2" \notin hollow

\* Nothing of the second round without the decision for it.
Begun ==
  \/ at \in {"round2", "COLLECT_R2"} \/ "COLLECT_R2" \in reserved
  \/ StagesTwo \intersect done # {} \/ result # "NONE"
Admitted == Begun => control = "EXECUTING"

\* The second collection reserves what is left, and is entered only with something left.
Reserving ==
  /\ "COLLECT_R2" \in reserved /\ "COLLECT_R2" \notin done => used.requests = limits.requests
  /\ at = "round2" /\ "COLLECT_R2" \notin done => used.requests # limits.requests
  /\ "COLLECT_R2" \in reserved => end # "INTEGRITY"

\* What a result of the second round says is so and stays so.
Meant ==
  /\ result = "COMPLETE" => "CRITIC_R2" \in done
  /\ result = "STOPPED_NO_NEW_EVIDENCE" => "COLLECT_R2" \in hollow
  /\ result = "STOPPED_COLLECTION_BUDGET" => Spent /\ at \notin {"round2", "COLLECT_R2"}

\* Why an attempt may decide, and with what.
Concluded == "CRITIC" \in done /\ (asks = {} \/ control \in Stopped \/ result # "NONE")
Deciding ==
  /\ at \in {"final", "over"} \/ final # NoFinal => Concluded
  /\ at \in {"final", "over"} /\ "CRITIC_R2" \in done /\ ~ Spent => view = 2 /\ result = "COMPLETE"

\* SecondRoundPublished, without order on the counters.
Published ==
  final # NoFinal =>
    /\ final.round = 2 => result = "COMPLETE" /\ opps \subseteq asks
    /\ "CRITIC_R2" \in done /\ ~ Spent => final = [round |-> 2, view |-> 2]

IInv ==
  /\ TypeOK /\ ExternalLedger /\ Placed /\ Ordered /\ Admitted /\ Reserving
  /\ Meant /\ Deciding /\ Published

-----------------------------------------------------------------------------
(* The steps.  The conjuncts of the invariant are open throughout.         *)

USE DEF IInv, TypeOK, ExternalLedger, Placed, Ordered, Begun, Admitted, Reserving, Spent,
        Meant, Concluded, Deciding, Published, External

\* Nothing is used, committed or decided at first.
LEMMA InitHolds == Init => IInv
<1> SUFFICES ASSUME Init PROVE IInv
  OBVIOUS
<1>1. limits \in [calls : Nat, requests : Nat \ {0}, signals : Nat \ {0},
                  searches : Nat, rounds : Nat]
  BY RoundsAssumption DEF Init, Limits
<1> QED
  BY <1>1, RoundsAssumption DEF Init, NoFinal

\* A stutter keeps the invariant.
LEMMA StutterKeeps ==
  ASSUME IInv, UNCHANGED vars
  PROVE  IInv'
  BY DEF vars, budget, checkpoint, attempt

\* An attempt begins with the first round.
LEMMA StartKeeps ==
  ASSUME IInv, Start
  PROVE  IInv'
  BY DEF Start, budget, checkpoint

\* The limits and the counters are numbers, and no charge exceeds its counter.
LEMMA Numbers ==
  ASSUME IInv
  PROVE  /\ limits.calls \in Nat /\ limits.requests \in Nat \ {0}
         /\ limits.signals \in Nat \ {0} /\ limits.searches \in Nat
         /\ used.calls \in Nat /\ used.calls <= limits.calls
         /\ used.requests \in Nat /\ used.requests <= limits.requests
         /\ used.signals \in Nat /\ used.signals <= limits.signals
         /\ used.searches \in Nat /\ used.searches <= limits.searches
         /\ charge["COLLECT"] \in Nat /\ charge["COLLECT"] <= used.requests
         /\ charge["COLLECT_R2"] \in Nat /\ charge["COLLECT_R2"] <= used.requests
         /\ charge["COMPETITOR_RESEARCH"] \in Nat
         /\ charge["COMPETITOR_RESEARCH"] <= used.searches
<1>1. /\ limits.calls \in Nat /\ limits.requests \in Nat \ {0}
      /\ limits.signals \in Nat \ {0} /\ limits.searches \in Nat
  BY RoundsAssumption DEF Limits
<1>2. /\ used.calls \in 0 .. limits.calls /\ used.requests \in 0 .. limits.requests
      /\ used.signals \in 0 .. limits.signals /\ used.searches \in 0 .. limits.searches
  OBVIOUS
<1>3. /\ charge["COLLECT"] \in Nat /\ charge["COLLECT_R2"] \in Nat
      /\ charge["COMPETITOR_RESEARCH"] \in Nat
  OBVIOUS
<1>4. /\ used.requests = charge["COLLECT"] + charge["COLLECT_R2"]
      /\ used.searches = charge["COMPETITOR_RESEARCH"]
  OBVIOUS
<1> HIDE DEF IInv
<1> QED
  BY <1>1, <1>2, <1>3, <1>4

\* Calls are spent within their limit, and nothing else is.
LEMMA SpendKeeps ==
  ASSUME IInv, NEW n \in Nat, Spend(n)
  PROVE  /\ used' \in [calls : 0 .. limits.calls, requests : 0 .. limits.requests,
                       signals : 0 .. limits.signals, searches : 0 .. limits.searches]
         /\ used'.requests = used.requests /\ used'.signals = used.signals
         /\ used'.searches = used.searches
  BY Numbers DEF Spend

\* A cut takes the attempt and leaves the rows.
LEMMA CutKeeps ==
  ASSUME IInv, Cut
  PROVE  IInv'
<1>1. /\ used' \in [calls : 0 .. limits.calls, requests : 0 .. limits.requests,
                    signals : 0 .. limits.signals, searches : 0 .. limits.searches]
      /\ used'.requests = used.requests /\ used'.signals = used.signals
      /\ used'.searches = used.searches
  BY SpendKeeps DEF Cut
<1> QED
  BY <1>1, RoundsAssumption DEF Cut, checkpoint

\* A stage without a call is committed in its place.
LEMMA ComputeKeeps ==
  ASSUME IInv, NEW s, Compute(s) \/ CommitEmpty(s)
  PROVE  IInv'
<1>1. /\ Due(s) /\ s \in {"EXISTING", "CARD_SCORE", "CARD_SCORE_R2", "GAP", "HYPOTHESIS"}
      /\ Commit(s, FALSE)
      /\ UNCHANGED <<budget, opps, asks, control, result, final, attempt>>
  BY DEF Compute, CommitEmpty, Computed
<1> QED
  BY <1>1, WhenDue, StagesOneListed, StagesTwoListed DEF Commit, budget, attempt

\* A stage with a call is committed in its place, and its calls are spent.
LEMMA ReasonKeeps ==
  ASSUME IInv, NEW s, Reason(s)
  PROVE  IInv'
<1>1. /\ used' \in [calls : 0 .. limits.calls, requests : 0 .. limits.requests,
                    signals : 0 .. limits.signals, searches : 0 .. limits.searches]
      /\ used'.requests = used.requests /\ used'.signals = used.signals
      /\ used'.searches = used.searches
  BY SpendKeeps DEF Reason
<1>2. /\ Due(s) /\ s \in Semantic
      /\ opps' \in IF s = "GAP" THEN SUBSET Opp ELSE {opps}
      /\ asks' \in IF s = "CRITIC" THEN SUBSET opps ELSE {asks}
      /\ UNCHANGED <<limits, charge, reserved, control, result, final, attempt>>
  BY DEF Reason, Reasoning
<1>3. PICK empty \in BOOLEAN : (empty => s \in {"EXTRACT", "GAP_R2"}) /\ Commit(s, empty)
  BY DEF Reason
<1>4. TypeOK'
  <2>1. s = "GAP" => asks = {}
    BY <1>2, WhenDue
  <2> QED
    BY <1>1, <1>2, <1>3, <2>1, WhenDue, StagesOneListed, StagesTwoListed
    DEF Commit, attempt, Semantic, SemanticTwo
<1>5. ExternalLedger' /\ Placed'
  BY <1>1, <1>2, <1>3, StagesOneListed, StagesTwoListed DEF Commit, attempt, Semantic, SemanticTwo
<1>6. Ordered' /\ Admitted'
  BY <1>1, <1>2, <1>3, WhenDue, StagesOneListed, StagesTwoListed DEF Commit, attempt
<1>7. Reserving' /\ Meant'
  BY <1>1, <1>2, <1>3, WhenDue DEF Commit, attempt, Semantic, SemanticTwo
<1>8. Deciding' /\ Published'
  <2>1. at \in {"round1", "round2"} /\ at' = at /\ Spent' = Spent
    BY <1>1, <1>2, WhenDue DEF attempt
  <2>2. s = "CRITIC" => "CRITIC" \notin done
    BY <1>2, WhenDue
  <2>3. final # NoFinal => s # "CRITIC" /\ s # "GAP"
    BY <1>2, <2>2, WhenDue
  <2>4. final # NoFinal => s # "CRITIC_R2"
    <3> SUFFICES ASSUME final # NoFinal, s = "CRITIC_R2" PROVE FALSE
      OBVIOUS
    <3>1. at = "round2" /\ "COLLECT_R2" \notin hollow /\ "CRITIC_R2" \notin done
      BY <1>2, WhenDue, StagesOneListed
    <3>2. control = "EXECUTING" /\ asks # {}
      BY <3>1
    <3>3. result # "NONE"
      BY <3>2 DEF Stopped
    <3>4. result \in Results
      BY <3>3
    <3> QED
      BY <3>1, <3>4 DEF Results
  <2> QED
    BY <1>2, <1>3, <2>1, <2>3, <2>4 DEF Commit, attempt
<1> QED
  BY <1>4, <1>5, <1>6, <1>7, <1>8

\* A call that fails for good ends the task.
LEMMA DeniedKeeps ==
  ASSUME IInv, NEW s, Denied(s) \/ Invalid(s)
  PROVE  IInv'
<1>1. /\ used' \in [calls : 0 .. limits.calls, requests : 0 .. limits.requests,
                    signals : 0 .. limits.signals, searches : 0 .. limits.searches]
      /\ used'.requests = used.requests /\ used'.signals = used.signals
      /\ used'.searches = used.searches
  BY SpendKeeps DEF Denied, Invalid
<1>2. /\ UNCHANGED <<limits, charge, reserved, checkpoint, view, cuts>>
      /\ at' = "idle" /\ end' \in {"BUDGET_EXHAUSTED", "INVALID_OUTPUT"}
  BY DEF Denied, Invalid, Ends
<1> QED
  BY <1>1, <1>2 DEF Ended, checkpoint

\* So does a critic without a call.
LEMMA UnauditedKeeps ==
  ASSUME IInv, NEW s, Unaudited(s)
  PROVE  IInv'
  BY DEF Unaudited, Ends, Ended, budget, checkpoint

\* A source that is not asked is charged nothing.
LEMMA NothingToAskKeeps ==
  ASSUME IInv, NEW s, NothingToAsk(s)
  PROVE  IInv'
<1>1. /\ s \in External /\ Due(s) /\ Commit(s, TRUE)
      /\ used' = [used EXCEPT ![Counter(s)] = @ - charge[s]]
      /\ charge' = [charge EXCEPT ![s] = 0]
      /\ UNCHANGED <<limits, reserved, opps, asks, control, result, final, attempt>>
  BY DEF NothingToAsk
<1>2. /\ s \notin done /\ at \notin External
      /\ s # "COLLECT_R2" => at = "round1" /\ "CRITIC" \notin done
      /\ s = "COLLECT_R2" => at = "round2" /\ charge[s] = 0
  BY <1>1, WhenDue, StagesOneListed, StagesTwoListed
<1>3. /\ used' \in [calls : 0 .. limits.calls, requests : 0 .. limits.requests,
                    signals : 0 .. limits.signals, searches : 0 .. limits.searches]
      /\ used'.signals = used.signals
      /\ s = "COMPETITOR_RESEARCH" => /\ used'.searches = used.searches - charge[s]
                                      /\ used'.requests = used.requests
      /\ s # "COMPETITOR_RESEARCH" => /\ used'.requests = used.requests - charge[s]
                                      /\ used'.searches = used.searches
  BY <1>1, Numbers DEF Counter
<1>4. ExternalLedger'
  BY <1>1, <1>3, Numbers
<1>5. TypeOK'
  BY <1>1, <1>3, StagesOneListed, StagesTwoListed DEF Commit, attempt
<1>7. Placed' /\ Ordered' /\ Admitted'
  BY <1>1, <1>2, StagesOneListed, StagesTwoListed DEF Commit, attempt
<1>8. Reserving' /\ Meant'
  BY <1>1, <1>2, <1>3, Numbers, StagesTwoListed DEF Commit, attempt
<1>9. Deciding' /\ Published'
  BY <1>1, <1>2, StagesTwoListed DEF Commit, attempt
<1> QED
  BY <1>4, <1>5, <1>7, <1>8, <1>9

\* A reservation stays within the limit and is charged to its stage.
LEMMA ReserveKeeps ==
  ASSUME IInv, NEW s, Reserve(s)
  PROVE  IInv'
<1>1. /\ Due(s) /\ s \in External
      /\ UNCHANGED <<limits, checkpoint, view, cuts>>
  BY DEF Reserve
<1>2. CASE s \in reserved
  <2>1. Ends("INTEGRITY") /\ UNCHANGED <<used, charge, reserved>>
    BY <1>2 DEF Reserve
  <2>2. "COLLECT_R2" \notin reserved
    BY <1>1, <1>2, WhenDue, StagesOneListed, StagesTwoListed
  <2> QED
    BY <1>1, <2>1, <2>2 DEF Ends, Ended, checkpoint
<1>4. CASE s \notin reserved
  <2>1. /\ at' = s
        /\ used' = [used EXCEPT ![Counter(s)] = @ + Amount(s)]
        /\ charge' = [charge EXCEPT ![s] = Amount(s)]
        /\ reserved' = reserved \union {s}
        /\ UNCHANGED end
    BY <1>4 DEF Reserve
  <2>0. /\ s = "COMPETITOR_RESEARCH" =>
             Amount(s) = IF limits.searches - used.searches > 0 THEN 1
                         ELSE limits.searches - used.searches
        /\ s # "COMPETITOR_RESEARCH" => Amount(s) = limits.requests - used.requests
    BY DEF Amount, Counter
  <2>7. /\ Amount(s) \in Nat
        /\ s = "COMPETITOR_RESEARCH" => used.searches + Amount(s) <= limits.searches
        /\ s # "COMPETITOR_RESEARCH" => used.requests + Amount(s) = limits.requests
    <3>1. CASE s = "COMPETITOR_RESEARCH"
      <4> HIDE DEF IInv
      <4> QED
        BY <2>0, <3>1, Numbers
    <3>2. CASE s # "COMPETITOR_RESEARCH"
      <4> HIDE DEF IInv
      <4> QED
        BY <2>0, <3>2, Numbers
    <3> QED
      BY <3>1, <3>2
  <2>2. Amount(s) \in Nat /\ charge[s] = 0
    BY <1>1, <1>4, <2>7
  <2>3. /\ used' \in [calls : 0 .. limits.calls, requests : 0 .. limits.requests,
                      signals : 0 .. limits.signals, searches : 0 .. limits.searches]
        /\ used'.signals = used.signals
        /\ s = "COMPETITOR_RESEARCH" =>
             used'.requests = used.requests /\ used'.searches = used.searches + Amount(s)
        /\ s # "COMPETITOR_RESEARCH" =>
             used'.requests = used.requests + Amount(s) /\ used'.searches = used.searches
    <3>1. CASE s = "COMPETITOR_RESEARCH"
      <4>1. used' = [used EXCEPT !.searches = @ + Amount(s)]
        BY <2>1, <3>1 DEF Counter
      <4> QED
        BY <2>7, <3>1, <4>1, Numbers
    <3>2. CASE s # "COMPETITOR_RESEARCH"
      <4>1. used' = [used EXCEPT !.requests = @ + Amount(s)]
        BY <2>1, <3>2 DEF Counter
      <4> QED
        BY <2>7, <3>2, <4>1, Numbers
    <3> QED
      BY <3>1, <3>2
  <2>4. ExternalLedger'
    BY <1>1, <1>4, <2>1, <2>2, <2>3
  <2>6. TypeOK'
    BY <1>1, <2>1, <2>2, <2>3 DEF checkpoint
  <2>5. s = "COLLECT_R2" => used'.requests = limits.requests
    BY <2>3, <2>7
  <2> QED
    BY <1>1, <1>4, <2>1, <2>3, <2>4, <2>5, <2>6, WhenDue, StagesOneListed, StagesTwoListed
    DEF checkpoint
<1> QED
  BY <1>2, <1>4

\* A collection is charged what it used and no more than it reserved.
LEMMA CollectedKeeps ==
  ASSUME IInv, NEW s, Collected(s)
  PROVE  IInv'
<1>1. PICK actual \in 0 .. charge[s],
           items \in (IF s = "COMPETITOR_RESEARCH" THEN {0}
                      ELSE 0 .. limits.signals - used.signals),
           empty \in BOOLEAN :
        /\ used' = [used EXCEPT ![Counter(s)] = @ - (charge[s] - actual), !.signals = @ + items]
        /\ charge' = [charge EXCEPT ![s] = actual]
        /\ Commit(s, empty)
  BY DEF Collected
<1>2. /\ at = s /\ s \in External
      /\ at' = IF s = "COLLECT_R2" THEN "round2" ELSE "round1"
      /\ UNCHANGED <<limits, reserved, opps, asks, control, result, final, view, end, cuts>>
  BY DEF Collected
<1>3. /\ charge[s] \in Nat /\ actual \in Nat /\ actual <= charge[s]
      /\ items \in Nat /\ used.signals + items <= limits.signals
  <2>1. charge[s] \in Nat
    BY <1>2
  <2>2. items \in 0 .. limits.signals - used.signals
    BY Numbers
  <2> HIDE DEF IInv
  <2> QED
    BY <2>1, <2>2, Numbers
<1>4. /\ s = "COMPETITOR_RESEARCH" => /\ used'.searches = used.searches - (charge[s] - actual)
                                      /\ used'.requests = used.requests
      /\ s # "COMPETITOR_RESEARCH" => /\ used'.requests = used.requests - (charge[s] - actual)
                                      /\ used'.searches = used.searches
      /\ used'.signals = used.signals + items /\ used'.calls = used.calls
      /\ used' = [calls |-> used'.calls, requests |-> used'.requests,
                  signals |-> used'.signals, searches |-> used'.searches]
  BY <1>1, <1>2 DEF Counter
<1>5. used' \in [calls : 0 .. limits.calls, requests : 0 .. limits.requests,
                 signals : 0 .. limits.signals, searches : 0 .. limits.searches]
  <2>1. charge[s] <= IF s = "COMPETITOR_RESEARCH" THEN used.searches ELSE used.requests
    BY <1>2, Numbers
  <2>2. used'.requests \in 0 .. limits.requests /\ used'.searches \in 0 .. limits.searches
    <3> HIDE DEF IInv
    <3> QED
      BY <1>3, <1>4, <2>1, Numbers
  <2>3. used'.signals \in 0 .. limits.signals /\ used'.calls \in 0 .. limits.calls
    <3> HIDE DEF IInv
    <3> QED
      BY <1>3, <1>4, Numbers
  <2> HIDE DEF IInv
  <2> QED
    BY <1>4, <2>2, <2>3
<1>6. ExternalLedger'
  <2>1. charge'[s] = actual /\ \A t \in External : t # s => charge'[t] = charge[t]
    BY <1>1, <1>2
  <2>2. CASE s = "COLLECT"
    BY <1>2, <1>3, <1>4, <2>1, <2>2, Numbers
  <2>3. CASE s = "COLLECT_R2"
    BY <1>2, <1>3, <1>4, <2>1, <2>3, Numbers
  <2>4. CASE s = "COMPETITOR_RESEARCH"
    BY <1>2, <1>3, <1>4, <2>1, <2>4, Numbers
  <2> QED
    BY <1>2, <2>2, <2>3, <2>4
<1>7. TypeOK'
  BY <1>1, <1>2, <1>3, <1>5, StagesOneListed, StagesTwoListed DEF Commit
<1>8. "CRITIC" \in done => s = "COLLECT_R2"
  BY <1>2
<1>9. s \notin done
  BY <1>2
<1>10. Placed' /\ Ordered'
  BY <1>1, <1>2, <1>8, <1>9, StagesOneListed, StagesTwoListed DEF Commit
<1>11. Admitted' /\ Reserving' /\ Meant'
  BY <1>1, <1>2, <1>8, <1>9, StagesTwoListed DEF Commit
<1>12. Deciding' /\ Published'
  BY <1>1, <1>2, <1>8, <1>9, StagesTwoListed DEF Commit
<1> QED
  BY <1>6, <1>7, <1>10, <1>11, <1>12

\* A first round that finds nothing ends the task.
LEMMA NothingFoundKeeps ==
  ASSUME IInv, NothingFound
  PROVE  IInv'
  BY DEF NothingFound, Ends, Ended, budget, checkpoint

\* Without a second round to hold, all of it is missing.
LEMMA WithoutSecondRound ==
  ASSUME IInv, control # "EXECUTING"
  PROVE  "CRITIC_R2" \notin done
  BY StagesTwoListed

\* The first round is the last when nothing is asked for.
LEMMA NothingAskedKeeps ==
  ASSUME IInv, NothingAsked
  PROVE  IInv'
<1>1. /\ at = "round1" /\ "CRITIC" \in done /\ asks = {}
      /\ at' = "final" /\ UNCHANGED <<budget, checkpoint, view, end, cuts>>
  BY DEF NothingAsked, RoundOneOver
<1>2. "CRITIC_R2" \notin done
  BY <1>1, WithoutSecondRound
<1> QED
  BY <1>1, <1>2 DEF budget, checkpoint

\* The first round is the last when the second is stopped.
LEMMA HoldBackKeeps ==
  ASSUME IInv, HoldBack
  PROVE  IInv'
<1>1. /\ at = "round1" /\ "CRITIC" \in done /\ control \in Stopped
      /\ at' = "final" /\ UNCHANGED <<budget, checkpoint, view, end, cuts>>
  BY DEF HoldBack, RoundOneOver, Stopped
<1>2. "CRITIC_R2" \notin done
  BY <1>1, WithoutSecondRound DEF Stopped
<1> QED
  BY <1>1, <1>2 DEF budget, checkpoint

\* The decision about the second round disturbs nothing.
LEMMA DecideKeeps ==
  ASSUME IInv, Decide
  PROVE  IInv'
  BY DEF Decide, RoundOneOver, Stopped, budget, attempt

\* A second round without calls ends the task.
LEMMA OutOfCallsKeeps ==
  ASSUME IInv, OutOfCalls
  PROVE  IInv'
  BY DEF OutOfCalls, Ends, Ended, budget, checkpoint

\* The comparisons of the code and those of the invariant.
LEMMA SpentMeansSpent ==
  ASSUME IInv
  PROVE  SourcesSpent <=> Spent
  BY Numbers DEF SourcesSpent

\* A second round without sources leaves the first one to be published.
LEMMA OutOfSourcesKeeps ==
  ASSUME IInv, OutOfSources
  PROVE  IInv'
  BY SpentMeansSpent, StagesTwoListed
  DEF OutOfSources, Executing, RoundOneOver, Concludes, Results, budget

\* The second round is entered with something left to ask.
LEMMA ProceedKeeps ==
  ASSUME IInv, Proceed
  PROVE  IInv'
<1>1. /\ at = "round1" /\ "CRITIC" \in done /\ control = "EXECUTING" /\ ~ Spent
      /\ at' = "round2" /\ UNCHANGED <<budget, checkpoint, view, end, cuts>>
  BY SpentMeansSpent DEF Proceed, Executing, RoundOneOver
<1>2. TypeOK' /\ ExternalLedger' /\ Placed' /\ Ordered'
  BY <1>1 DEF budget, checkpoint
<1>3. Admitted' /\ Reserving'
  BY <1>1 DEF budget, checkpoint
<1>4. Meant' /\ Deciding' /\ Published'
  BY <1>1 DEF budget, checkpoint
<1> QED
  BY <1>2, <1>3, <1>4

\* A second collection in vain leaves the first round to be published.
LEMMA NoNewEvidenceKeeps ==
  ASSUME IInv, NoNewEvidence
  PROVE  IInv'
  BY DEF NoNewEvidence, Concludes, Results, budget

\* The second critic concludes the second round.
LEMMA RoundTwoOverKeeps ==
  ASSUME IInv, RoundTwoOver
  PROVE  IInv'
  BY DEF RoundTwoOver, Concludes, Results, budget

\* What is published is of the round that concluded.
LEMMA PublishKeeps ==
  ASSUME IInv, Publish
  PROVE  IInv'
  BY DEF Publish, GapsMatch, FinalRound, Decisions, budget

\* A refusal ends the task and leaves what is committed.
LEMMA RefuseKeeps ==
  ASSUME IInv, Refuse
  PROVE  IInv'
<1>1. /\ at' = "idle" /\ end' = "REFUSED" /\ UNCHANGED <<budget, checkpoint, view, cuts>>
  BY DEF Refuse, Ends
<1>2. at = "final"
  BY DEF Refuse
<1> QED
  BY <1>1, <1>2 DEF Ended, budget, checkpoint

\* Decisions that are committed are left as they are.
LEMMA ConfirmKeeps ==
  ASSUME IInv, Confirm
  PROVE  IInv'
<1>1. /\ at = "final" /\ UNCHANGED <<budget, checkpoint, view, cuts>>
      /\ \/ at' = "over" /\ end' = end
         \/ at' = "idle" /\ end' = "PERMANENT"
  BY DEF Confirm, Ends
<1>2. CASE at' = "over" /\ end' = end
  BY <1>1, <1>2 DEF budget, checkpoint
<1>3. CASE at' = "idle" /\ end' = "PERMANENT"
  BY <1>1, <1>3 DEF Ended, budget, checkpoint
<1> QED
  BY <1>1, <1>2, <1>3

\* The task ends with what is committed.
LEMMA SucceedKeeps ==
  ASSUME IInv, Succeed
  PROVE  IInv'
<1>1. /\ at = "over" /\ UNCHANGED <<budget, checkpoint, view, cuts>>
      /\ at' = "idle" /\ end' = "SUCCEEDED"
  BY DEF Succeed, Ends
<1> QED
  BY <1>1 DEF Ended, budget, checkpoint

\* Every step keeps the invariant.
LEMMA NextKeeps ==
  ASSUME IInv, [Next]_vars
  PROVE  IInv'
<1>1. ASSUME NEW s, Step(s) PROVE IInv'
  BY <1>1, ComputeKeeps, ReasonKeeps, DeniedKeeps, UnauditedKeeps, NothingToAskKeeps,
     ReserveKeeps, CollectedKeeps
  DEF Step
<1> HIDE DEF IInv
<1> QED
  BY <1>1, StutterKeeps, StartKeeps, CutKeeps, NothingFoundKeeps, NothingAskedKeeps, HoldBackKeeps,
     DecideKeeps,
     OutOfCallsKeeps, OutOfSourcesKeeps, ProceedKeeps, NoNewEvidenceKeeps, RoundTwoOverKeeps,
     PublishKeeps, RefuseKeeps, ConfirmKeeps, SucceedKeeps
  DEF Next, Goes

-----------------------------------------------------------------------------
(* The theorems.                                                           *)

\* The conjuncts hold together, in every state.
THEOREM InductiveAlways == Spec => []IInv
<1> HIDE DEF IInv
<1> QED
  BY InitHolds, NextKeeps, PTL DEF Spec

\* Counters stay within the budget of the run, whatever is cut off and resumed.
THEOREM RoundsTyped == Spec => []TypeOK
<1>1. IInv => TypeOK
  OBVIOUS
<1> HIDE DEF IInv, TypeOK
<1> QED
  BY <1>1, InductiveAlways, PTL

\* Each request and search that is charged to the run belongs to one stage.
THEOREM LedgerAlways == Spec => []ExternalLedger
<1>1. IInv => ExternalLedger
  OBVIOUS
<1> HIDE DEF IInv, ExternalLedger
<1> QED
  BY <1>1, InductiveAlways, PTL

\* A second round that was stopped is not taken up by a later attempt.
THEOREM StopsForGoodAlways == Spec => []StopsForGood
<1>1. IInv => StopsForGood
  BY DEF StopsForGood, Stopped
<1> HIDE DEF IInv
<1> QED
  BY <1>1, InductiveAlways, PTL

\* Attempts resumed after the second critic publish its round while sources are left.
THEOREM SecondRoundPublishedAlways == Spec => []SecondRoundPublished
<1>1. IInv => SecondRoundPublished
  <2> SUFFICES ASSUME IInv PROVE SecondRoundPublished
    OBVIOUS
  <2>1. used.requests < limits.requests /\ used.signals < limits.signals => ~ Spent
    BY Numbers
  <2> QED
    BY <2>1 DEF SecondRoundPublished
<1> HIDE DEF IInv
<1> QED
  BY <1>1, InductiveAlways, PTL

\* A second collection that was cut off never fails the run.
THEOREM InterruptedRoundPassedOverAlways == Spec => []InterruptedRoundPassedOver
<1>1. IInv => InterruptedRoundPassedOver
  BY DEF InterruptedRoundPassedOver
<1> HIDE DEF IInv
<1> QED
  BY <1>1, InductiveAlways, PTL

-----------------------------------------------------------------------------
(* The calls.  Every semantic stage of a run with opportunities has cost   *)
(* one, and a second round is begun only with all of those of its stages.  *)

HIDE DEF IInv, TypeOK, ExternalLedger, Placed, Ordered, Begun, Admitted, Reserving, Spent,
         Meant, Concluded, Deciding, Published, External

SemanticOne == Semantic \ SemanticTwo
Answered == Cardinality(Semantic \intersect done)

\* The stages with a call before the second round are committed before its decision.
CallsDue == "CRITIC" \in done => SemanticOne \subseteq done

\* A stage is committed without a call only if there is no opportunity.
CallsPaid ==
  /\ "GAP" \notin done => opps = {}
  /\ "GAP" \notin done \/ opps # {} => used.calls >= Answered

\* A run without a call for each stage of both rounds never begins the second.
CallsSuffice == control = "EXECUTING" => limits.calls >= 11

CallInv == CallsDue /\ CallsPaid /\ CallsSuffice /\ ExhaustedByWaste

\* A finite set grows by one with what it lacks.
LEMMA OneMore ==
  ASSUME NEW S, NEW x, NEW T, IsFiniteSet(S), x \notin S, T = S \union {x}
  PROVE  IsFiniteSet(T) /\ Cardinality(T) = Cardinality(S) + 1
  BY FS_AddElement

\* Six stages of the first round take a call, and five of the second.
LEMMA SemanticCounts ==
  /\ IsFiniteSet(SemanticOne) /\ Cardinality(SemanticOne) = 6
  /\ IsFiniteSet(SemanticTwo) /\ Cardinality(SemanticTwo) = 5
  /\ Semantic = SemanticOne \union SemanticTwo /\ SemanticOne \intersect SemanticTwo = {}
  /\ SemanticOne = {"QUERY_PLAN", "EXTRACT", "CLUSTER", "GAP", "HYPOTHESIS", "CRITIC"}
<1>1. IsFiniteSet({}) /\ Cardinality({}) = 0
  BY FS_EmptySet
<1>2. /\ Semantic = SemanticOne \union SemanticTwo /\ SemanticOne \intersect SemanticTwo = {}
      /\ SemanticOne = {"QUERY_PLAN", "EXTRACT", "CLUSTER", "GAP", "HYPOTHESIS", "CRITIC"}
  BY DEF SemanticOne, Semantic, SemanticTwo
<1>3. IsFiniteSet(SemanticOne) /\ Cardinality(SemanticOne) = 6
  <2> DEFINE A == {} \union {"QUERY_PLAN"}
             B == A \union {"EXTRACT"}
             C == B \union {"CLUSTER"}
             D == C \union {"GAP"}
             E == D \union {"HYPOTHESIS"}
             F == E \union {"CRITIC"}
  <2>1. F = SemanticOne
    BY <1>2
  <2>2. A = {} \union {"QUERY_PLAN"} /\ "QUERY_PLAN" \notin {}
    OBVIOUS
  <2>3. B = A \union {"EXTRACT"} /\ "EXTRACT" \notin A
    OBVIOUS
  <2>4. C = B \union {"CLUSTER"} /\ "CLUSTER" \notin B
    OBVIOUS
  <2>5. D = C \union {"GAP"} /\ "GAP" \notin C
    OBVIOUS
  <2>6. E = D \union {"HYPOTHESIS"} /\ "HYPOTHESIS" \notin D
    OBVIOUS
  <2>7. F = E \union {"CRITIC"} /\ "CRITIC" \notin E
    OBVIOUS
  <2> HIDE DEF A, B, C, D, E, F
  <2>8. IsFiniteSet(A) /\ Cardinality(A) = Cardinality({}) + 1
    BY <1>1, <2>2, OneMore
  <2>9. IsFiniteSet(B) /\ Cardinality(B) = Cardinality(A) + 1
    BY <2>8, <2>3, OneMore
  <2>10. IsFiniteSet(C) /\ Cardinality(C) = Cardinality(B) + 1
    BY <2>9, <2>4, OneMore
  <2>11. IsFiniteSet(D) /\ Cardinality(D) = Cardinality(C) + 1
    BY <2>10, <2>5, OneMore
  <2>12. IsFiniteSet(E) /\ Cardinality(E) = Cardinality(D) + 1
    BY <2>11, <2>6, OneMore
  <2>13. IsFiniteSet(F) /\ Cardinality(F) = Cardinality(E) + 1
    BY <2>12, <2>7, OneMore
  <2> QED BY <1>1, <2>1, <2>8, <2>9, <2>10, <2>11, <2>12, <2>13
<1>4. IsFiniteSet(SemanticTwo) /\ Cardinality(SemanticTwo) = 5
  <2> DEFINE A == {} \union {"EXTRACT_R2"}
             B == A \union {"CLUSTER_R2"}
             C == B \union {"GAP_R2"}
             D == C \union {"HYPOTHESIS_R2"}
             E == D \union {"CRITIC_R2"}
  <2>1. E = SemanticTwo
    BY DEF SemanticTwo
  <2>2. A = {} \union {"EXTRACT_R2"} /\ "EXTRACT_R2" \notin {}
    OBVIOUS
  <2>3. B = A \union {"CLUSTER_R2"} /\ "CLUSTER_R2" \notin A
    OBVIOUS
  <2>4. C = B \union {"GAP_R2"} /\ "GAP_R2" \notin B
    OBVIOUS
  <2>5. D = C \union {"HYPOTHESIS_R2"} /\ "HYPOTHESIS_R2" \notin C
    OBVIOUS
  <2>6. E = D \union {"CRITIC_R2"} /\ "CRITIC_R2" \notin D
    OBVIOUS
  <2> HIDE DEF A, B, C, D, E
  <2>7. IsFiniteSet(A) /\ Cardinality(A) = Cardinality({}) + 1
    BY <1>1, <2>2, OneMore
  <2>8. IsFiniteSet(B) /\ Cardinality(B) = Cardinality(A) + 1
    BY <2>7, <2>3, OneMore
  <2>9. IsFiniteSet(C) /\ Cardinality(C) = Cardinality(B) + 1
    BY <2>8, <2>4, OneMore
  <2>10. IsFiniteSet(D) /\ Cardinality(D) = Cardinality(C) + 1
    BY <2>9, <2>5, OneMore
  <2>11. IsFiniteSet(E) /\ Cardinality(E) = Cardinality(D) + 1
    BY <2>10, <2>6, OneMore
  <2> QED BY <1>1, <2>1, <2>7, <2>8, <2>9, <2>10, <2>11
<1> QED BY <1>2, <1>3, <1>4

\* How many semantic stages there may be in a checkpoint d.
LEMMA AnswersCount ==
  ASSUME NEW d
  PROVE  /\ IsFiniteSet(Semantic \intersect d) /\ Cardinality(Semantic \intersect d) \in Nat
         /\ Cardinality(SemanticTwo \intersect d) \in Nat
         /\ Cardinality(Semantic \intersect d) <= 6 + Cardinality(SemanticTwo \intersect d)
         /\ \A s \in Semantic \ d : Cardinality(Semantic \intersect d) <= 10
         /\ \A s \in Semantic \ d :
                Cardinality(Semantic \intersect (d \union {s})) = Cardinality(Semantic \intersect d) + 1
<1> DEFINE X == SemanticOne \intersect d
           Y == SemanticTwo \intersect d
           Z == Semantic \intersect d
<1>1. /\ IsFiniteSet(X) /\ Cardinality(X) \in Nat /\ Cardinality(X) <= 6
  <2>1. X \in SUBSET SemanticOne
    OBVIOUS
  <2>2. IsFiniteSet(SemanticOne) /\ Cardinality(SemanticOne) = 6
    BY SemanticCounts
  <2> HIDE DEF X
  <2>3. IsFiniteSet(X) /\ Cardinality(X) <= Cardinality(SemanticOne)
    BY <2>1, <2>2, FS_Subset
  <2>4. Cardinality(X) \in Nat
    BY <2>3, FS_CardinalityType
  <2> QED BY <2>2, <2>3, <2>4
<1>2. /\ IsFiniteSet(Y) /\ Cardinality(Y) \in Nat /\ Cardinality(Y) <= 5
  <2>1. Y \in SUBSET SemanticTwo
    OBVIOUS
  <2>2. IsFiniteSet(SemanticTwo) /\ Cardinality(SemanticTwo) = 5
    BY SemanticCounts
  <2> HIDE DEF Y
  <2>3. IsFiniteSet(Y) /\ Cardinality(Y) <= Cardinality(SemanticTwo)
    BY <2>1, <2>2, FS_Subset
  <2>4. Cardinality(Y) \in Nat
    BY <2>3, FS_CardinalityType
  <2> QED BY <2>2, <2>3, <2>4
<1>3. Z = X \union Y /\ X \intersect Y = {}
  BY SemanticCounts
<1>4. IsFiniteSet(Z) /\ Cardinality(Z) = Cardinality(X) + Cardinality(Y)
  <2> HIDE DEF X, Y, Z
  <2>1. Cardinality(X \intersect Y) = 0
    BY <1>3, FS_EmptySet
  <2>2. /\ IsFiniteSet(X \union Y)
        /\ Cardinality(X \union Y) = Cardinality(X) + Cardinality(Y) - Cardinality(X \intersect Y)
    BY <1>1, <1>2, FS_Union
  <2> QED BY <1>1, <1>2, <1>3, <2>1, <2>2
<1>5. IsFiniteSet(Semantic) /\ Cardinality(Semantic) = 11
  <2>1. Cardinality(SemanticOne \intersect SemanticTwo) = 0
    BY SemanticCounts, FS_EmptySet
  <2>2. /\ IsFiniteSet(SemanticOne \union SemanticTwo)
        /\ Cardinality(SemanticOne \union SemanticTwo) =
             Cardinality(SemanticOne) + Cardinality(SemanticTwo)
               - Cardinality(SemanticOne \intersect SemanticTwo)
    BY SemanticCounts, FS_Union
  <2> QED BY <2>1, <2>2, SemanticCounts
<1>6. Cardinality(Z) \in Nat
  BY <1>1, <1>2, <1>4
<1>7. ASSUME NEW s \in Semantic \ d
      PROVE  /\ Cardinality(Z) <= 10
             /\ Cardinality(Semantic \intersect (d \union {s})) = Cardinality(Z) + 1
  <2>1. Semantic \intersect (d \union {s}) = Z \union {s}
    OBVIOUS
  <2>2. s \notin Z /\ Z \union {s} \in SUBSET Semantic
    OBVIOUS
  <2> HIDE DEF Z
  <2>3. Cardinality(Z \union {s}) = Cardinality(Z) + 1
    BY <1>4, <2>2, FS_AddElement
  <2>4. Cardinality(Z \union {s}) <= 11
    BY <1>5, <2>2, FS_Subset
  <2> QED BY <1>6, <2>1, <2>3, <2>4
<1>8. Cardinality(Z) <= 6 + Cardinality(Y)
  BY <1>1, <1>2, <1>4
<1> QED BY <1>2, <1>4, <1>6, <1>7, <1>8

\* The hypotheses and the critic follow the gaps, and the critic all calls before it.
LEMMA CallsBefore ==
  ASSUME NEW s, Due(s)
  PROVE  /\ s = "HYPOTHESIS" => "GAP" \in done
         /\ s = "CRITIC" => SemanticOne \ {"CRITIC"} \subseteq done
<1>1. DOMAIN RoundOne = 1 .. 10
  BY DEF RoundOne
<1>2. s \in {"HYPOTHESIS", "CRITIC"} => IsNext(RoundOne, s)
  <2>1. s \in {"HYPOTHESIS", "CRITIC"} => s \notin StagesTwo
    BY StagesTwoListed
  <2> QED BY <2>1 DEF Due, IsNext, StagesTwo, Elements
<1>3. ASSUME s = "HYPOTHESIS" PROVE "GAP" \in done
  <2>1. PICK i \in 1 .. 10 : RoundOne[i] = "HYPOTHESIS" /\ \A j \in 1 .. i - 1 : RoundOne[j] \in done
    BY <1>1, <1>2, <1>3 DEF IsNext
  <2>2. i = 9
    BY <2>1 DEF RoundOne
  <2>3. RoundOne[7] \in done
    BY <2>1, <2>2
  <2> QED BY <2>3 DEF RoundOne
<1>4. ASSUME s = "CRITIC" PROVE SemanticOne \ {"CRITIC"} \subseteq done
  <2>1. PICK i \in 1 .. 10 : RoundOne[i] = "CRITIC" /\ \A j \in 1 .. i - 1 : RoundOne[j] \in done
    BY <1>1, <1>2, <1>4 DEF IsNext
  <2>2. i = 10
    BY <2>1 DEF RoundOne
  <2>3. /\ RoundOne[2] \in done /\ RoundOne[4] \in done /\ RoundOne[5] \in done
        /\ RoundOne[7] \in done /\ RoundOne[9] \in done
    BY <2>1, <2>2
  <2> QED BY <2>3, SemanticCounts DEF RoundOne
<1> QED BY <1>3, <1>4

\* What commits nothing and ends in no want of calls keeps the count.
LEMMA QuietKeepsCalls ==
  ASSUME CallInv, IInv, UNCHANGED <<limits, done, opps, control>>,
         used'.calls \in Nat, used'.calls >= used.calls,
         end' # "BUDGET_EXHAUSTED" \/ (end' = end /\ used' = used)
  PROVE  CallInv'
<1>1. used.calls \in Nat
  BY Numbers
<1>2. Answered' = Answered /\ Answered \in Nat
  BY AnswersCount DEF Answered
<1>3. CallsPaid'
  BY <1>1, <1>2 DEF CallInv, CallsPaid
<1>4. CallsDue' /\ CallsSuffice'
  BY DEF CallInv, CallsDue, CallsSuffice
<1>5. ExhaustedByWaste'
  BY DEF CallInv, ExhaustedByWaste
<1> QED BY <1>3, <1>4, <1>5 DEF CallInv

\* A stage without a call adds nothing to the count.
LEMMA SilentKeepsCalls ==
  ASSUME CallInv, IInv, NEW s, s \notin Semantic, done' = done \union {s},
         UNCHANGED <<limits, opps, control>>, used'.calls = used.calls,
         end = "OPEN", end' = end
  PROVE  CallInv'
<1>1. Semantic \intersect done' = Semantic \intersect done
  OBVIOUS
<1>2. Answered' = Answered
  BY <1>1 DEF Answered
<1>3. ("GAP" \in done' <=> "GAP" \in done) /\ ("CRITIC" \in done' <=> "CRITIC" \in done)
  BY SemanticCounts
<1>4. CallsPaid'
  BY <1>2, <1>3 DEF CallInv, CallsPaid
<1>5. CallsDue' /\ CallsSuffice' /\ ExhaustedByWaste'
  BY <1>3 DEF CallInv, CallsDue, CallsSuffice, ExhaustedByWaste
<1> QED BY <1>4, <1>5 DEF CallInv

\* An attempt under way belongs to an open task.
LEMMA OpenUnderWay ==
  ASSUME IInv, at # "idle"
  PROVE  end = "OPEN"
  BY DEF IInv, Placed

\* Calls are spent one by one.
LEMMA SpendCounts ==
  ASSUME IInv, NEW n \in Nat, Spend(n)
  PROVE  used'.calls = used.calls + n /\ used'.calls \in Nat /\ used.calls \in Nat
         /\ used'.calls <= limits.calls
<1>1. used = [used EXCEPT !.calls = used.calls] /\ "calls" \in DOMAIN used
  BY DEF IInv, TypeOK
<1>2. used'.calls = used.calls + n
  BY <1>1 DEF Spend
<1> QED BY <1>2, Numbers DEF Spend

\* No gap, no call and no opportunity so far.
LEMMA InitCounts == Init => CallInv
<1> SUFFICES ASSUME Init PROVE CallInv
  OBVIOUS
<1>1. Semantic \intersect done = {}
  BY DEF Init
<1>2. Answered = 0
  BY <1>1, FS_EmptySet DEF Answered
<1> QED BY <1>2 DEF Init, CallInv, CallsDue, CallsPaid, CallsSuffice, ExhaustedByWaste

\* The stages without a call are not semantic ones; batches are empty without opportunities.
LEMMA ComputeCounts ==
  ASSUME CallInv, IInv, NEW s, Compute(s) \/ CommitEmpty(s)
  PROVE  CallInv'
<1>1. Due(s) /\ done' = done \union {s} /\ UNCHANGED <<budget, opps, control, attempt>>
  BY DEF Compute, CommitEmpty, Commit
<1>2. at # "idle" /\ s \notin done
  BY <1>1, WhenDue
<1>3. end = "OPEN" /\ end' = end
  BY <1>1, <1>2, OpenUnderWay DEF attempt
<1>4. CASE Compute(s)
  <2>1. s \notin Semantic
    BY <1>4 DEF Compute, Computed, Semantic, SemanticTwo
  <2> QED BY <1>1, <1>3, <2>1, SilentKeepsCalls DEF budget
<1>5. CASE CommitEmpty(s)
  <2>1. s = "GAP" \/ (s = "HYPOTHESIS" /\ opps = {})
    BY <1>5 DEF CommitEmpty, NeedsCall
  <2>2. "GAP" \in done' /\ opps' = {}
    BY <1>1, <1>2, <2>1, CallsBefore DEF CallInv, CallsPaid
  <2>3. CallsPaid'
    BY <2>2 DEF CallsPaid
  <2>4. CallsDue' /\ CallsSuffice' /\ ExhaustedByWaste'
    BY <1>1, <1>3, <2>1 DEF CallInv, CallsDue, CallsSuffice, ExhaustedByWaste, budget
  <2> QED BY <2>3, <2>4 DEF CallInv
<1> QED BY <1>4, <1>5

\* A stage that is committed with a call has cost at least one.
LEMMA ReasonCounts ==
  ASSUME CallInv, IInv, NEW s, Reason(s)
  PROVE  CallInv'
<1>1. /\ Due(s) /\ s \in Semantic /\ done' = done \union {s}
      /\ UNCHANGED <<limits, control, attempt>>
      /\ s # "GAP" => opps' = opps
  BY DEF Reason, Reasoning, Commit
<1>2. PICK n \in {1, 2} : Spend(n)
  BY DEF Reason
<1>3. used'.calls = used.calls + n /\ used.calls \in Nat
  BY <1>2, SpendCounts
<1>4. at # "idle" /\ s \in Semantic \ done
  BY <1>1, WhenDue
<1>5. end = "OPEN" /\ end' = end
  BY <1>1, <1>4, OpenUnderWay DEF attempt
<1>6. Answered \in Nat /\ Answered' = Answered + 1
  <2>1. Cardinality(Semantic \intersect (done \union {s})) = Cardinality(Semantic \intersect done) + 1
    BY <1>4, AnswersCount
  <2> QED BY <1>1, <2>1, AnswersCount DEF Answered
<1>7. "GAP" \notin done' => opps' = {}
  BY <1>1 DEF CallInv, CallsPaid
<1>8. "GAP" \notin done' \/ opps' # {} => "GAP" \notin done \/ opps # {}
  BY <1>1, <1>4
<1>9. CallsPaid'
  BY <1>3, <1>6, <1>7, <1>8 DEF CallInv, CallsPaid
<1>10. CallsDue'
  BY <1>1, CallsBefore DEF CallInv, CallsDue
<1>11. CallsSuffice' /\ ExhaustedByWaste'
  BY <1>1, <1>5 DEF CallInv, CallsSuffice, ExhaustedByWaste
<1> QED BY <1>9, <1>10, <1>11 DEF CallInv

\* A call that is denied finds all calls spent, and its own stage among those without answer.
LEMMA DeniedCounts ==
  ASSUME CallInv, IInv, NEW s, Denied(s)
  PROVE  CallInv'
<1>1. /\ Due(s) /\ s \in Semantic
      /\ UNCHANGED <<limits, charge, reserved, checkpoint, view, cuts>>
      /\ end' = "BUDGET_EXHAUSTED"
  BY DEF Denied, Reasoning, Ends
<1>2. PICK n \in {0, 1} : Spend(n) /\ used.calls + n = limits.calls
  BY DEF Denied
<1>3. used'.calls = limits.calls /\ used'.calls >= used.calls /\ used.calls \in Nat /\ used'.calls \in Nat
  BY <1>2, SpendCounts
<1>4. s \in Semantic \ done
  BY <1>1, WhenDue
<1>5. Answered <= 10 /\ Answered \in Nat /\ Answered' = Answered
  BY <1>1, <1>4, AnswersCount DEF Answered, checkpoint
<1>6. CallsPaid'
  BY <1>1, <1>3, <1>5 DEF CallInv, CallsPaid, checkpoint
<1>7. CallsDue' /\ CallsSuffice'
  BY <1>1 DEF CallInv, CallsDue, CallsSuffice, checkpoint
<1>8. ExhaustedByWaste'
  <2> SUFFICES ASSUME control' = "EXECUTING" PROVE used'.calls > Answered'
    BY DEF ExhaustedByWaste, Answered
  <2>1. limits.calls >= 11
    BY <1>1 DEF CallInv, CallsSuffice, checkpoint
  <2>2. used'.calls >= 11
    BY <1>3, <2>1
  <2> QED BY <1>3, <1>5, <2>2
<1> QED BY <1>6, <1>7, <1>8 DEF CallInv

\* Neither a cut nor a bad answer is for want of calls.
LEMMA CutCounts ==
  ASSUME CallInv, IInv, Cut \/ \E s : Invalid(s)
  PROVE  CallInv'
<1>1. used' = used \/ \E n \in {1, 2} : Spend(n)
  BY DEF Cut, Invalid
<1>2. used'.calls \in Nat /\ used'.calls >= used.calls
  <2>1. CASE used' = used
    BY <2>1, Numbers
  <2>2. CASE \E n \in {1, 2} : Spend(n)
    <3>1. PICK n \in {1, 2} : Spend(n)
      BY <2>2
    <3>2. used'.calls = used.calls + n /\ used'.calls \in Nat /\ used.calls \in Nat
      BY <3>1, SpendCounts
    <3> QED BY <3>2
  <2> QED BY <1>1, <2>1, <2>2
<1>3. UNCHANGED <<limits, done, opps, control>>
  BY DEF Cut, Invalid, checkpoint
<1>4. end' # "BUDGET_EXHAUSTED"
  <2>1. CASE Cut
    <3>1. end = "OPEN" /\ end' = end
      BY <2>1, OpenUnderWay DEF Cut
    <3> QED BY <3>1
  <2>2. CASE \E s : Invalid(s)
    BY <2>2 DEF Invalid, Ends
  <2> QED BY <2>1, <2>2
<1> QED BY <1>2, <1>3, <1>4, QuietKeepsCalls

\* The sources are asked without a call.
LEMMA SourcesCount ==
  ASSUME CallInv, IInv, NEW s, NothingToAsk(s) \/ Collected(s)
  PROVE  CallInv'
<1>1. /\ s \in External /\ at # "idle" /\ done' = done \union {s}
      /\ UNCHANGED <<limits, opps, control, end>>
  BY WhenDue DEF NothingToAsk, Collected, Commit, attempt, External
<1>2. used'.calls = used.calls
  <2>1. Counter(s) # "calls"
    BY DEF Counter
  <2>2. "calls" \in DOMAIN used
    BY DEF IInv, TypeOK
  <2> QED BY <2>1, <2>2 DEF NothingToAsk, Collected
<1>3. s \notin Semantic
  BY <1>1 DEF External, Semantic, SemanticTwo
<1> QED BY <1>1, <1>2, <1>3, OpenUnderWay, SilentKeepsCalls

\* So is the reservation.
LEMMA ReserveCounts ==
  ASSUME CallInv, IInv, NEW s, Reserve(s)
  PROVE  CallInv'
<1>1. UNCHANGED <<limits, checkpoint>> /\ at # "idle"
  BY WhenDue DEF Reserve
<1>2. used'.calls = used.calls
  <2>1. Counter(s) # "calls"
    BY DEF Counter
  <2>2. "calls" \in DOMAIN used
    BY DEF IInv, TypeOK
  <2> QED BY <2>1, <2>2 DEF Reserve
<1>3. end' # "BUDGET_EXHAUSTED"
  BY <1>1, OpenUnderWay DEF Reserve, Ends
<1> QED BY <1>1, <1>2, <1>3, Numbers, QuietKeepsCalls DEF checkpoint

\* The second round is begun with a call for each of its stages, after six answers.
LEMMA DecideCounts ==
  ASSUME CallInv, IInv, Decide
  PROVE  CallInv'
<1>1. /\ "CRITIC" \in done /\ control = "NONE" /\ asks # {} /\ at # "idle"
      /\ control' = IF limits.rounds < 2 THEN "STOPPED_ROUND_LIMIT"
                    ELSE IF Remaining < Required THEN "STOPPED_AGENT_BUDGET"
                    ELSE "EXECUTING"
      /\ UNCHANGED <<budget, done, opps, attempt>>
  BY DEF Decide, RoundOneOver
<1>2. end = "OPEN" /\ end' = end
  BY <1>1, OpenUnderWay DEF attempt
<1>3. control' = "EXECUTING" => limits.calls >= 11
  <2> SUFFICES ASSUME control' = "EXECUTING" PROVE limits.calls >= 11
    OBVIOUS
  <2>1. ~ (Remaining < Required)
    BY <1>1
  <2>2. SemanticTwo \intersect done = {}
    <3>1. StagesTwo \intersect done = {}
      BY <1>1 DEF IInv, Admitted, Begun
    <3>2. SemanticTwo \subseteq StagesTwo
      BY StagesTwoListed DEF SemanticTwo
    <3> QED BY <3>1, <3>2
  <2>3. Required = 5
    BY <2>2, FS_EmptySet DEF Required
  <2>4. SemanticOne \in SUBSET (Semantic \intersect done)
    BY <1>1, SemanticCounts DEF CallInv, CallsDue
  <2>5. Answered >= 6
    <3>1. PICK Z : Z = Semantic \intersect done
      OBVIOUS
    <3>2. IsFiniteSet(Z) /\ SemanticOne \in SUBSET Z
      BY <2>4, <3>1, AnswersCount
    <3>3. Cardinality(SemanticOne) <= Cardinality(Z)
      BY <3>2, FS_Subset
    <3>4. Cardinality(SemanticOne) = 6 /\ Answered = Cardinality(Z) /\ Answered \in Nat
      BY <3>1, AnswersCount, SemanticCounts DEF Answered
    <3> QED BY <3>3, <3>4
  <2>6. opps # {}
    BY <1>1 DEF IInv, TypeOK
  <2>7. used.calls >= Answered
    BY <2>6 DEF CallInv, CallsPaid
  <2>8. Answered \in Nat /\ used.calls \in Nat /\ limits.calls \in Nat
    BY AnswersCount, Numbers DEF Answered
  <2> QED BY <2>1, <2>3, <2>5, <2>7, <2>8 DEF Remaining
<1>4. CallsPaid' /\ CallsDue'
  BY <1>1 DEF CallInv, CallsPaid, CallsDue, Answered, budget
<1>5. CallsSuffice' /\ ExhaustedByWaste'
  BY <1>1, <1>2, <1>3 DEF CallsSuffice, ExhaustedByWaste, budget
<1> QED BY <1>4, <1>5 DEF CallInv

\* Fewer calls are left than stages only when more are spent than were answered.
LEMMA OutOfCallsCounts ==
  ASSUME CallInv, IInv, OutOfCalls
  PROVE  CallInv'
<1>1. /\ control = "EXECUTING" /\ Remaining < Required /\ end' = "BUDGET_EXHAUSTED"
      /\ UNCHANGED <<budget, checkpoint>>
  BY DEF OutOfCalls, Executing, Ends
<1>2. PICK k \in Nat : k = Cardinality(SemanticTwo \intersect done)
  BY AnswersCount
<1>3. Answered <= 6 + k /\ Answered \in Nat
  BY <1>2, AnswersCount DEF Answered
<1>4. used.calls \in Nat /\ limits.calls \in Nat /\ limits.calls >= 11
  BY <1>1, Numbers DEF CallInv, CallsSuffice
<1>5. limits.calls - used.calls < 5 - k
  BY <1>1, <1>2 DEF Remaining, Required
<1>6. used.calls > Answered
  BY <1>3, <1>4, <1>5
<1>7. ExhaustedByWaste'
  BY <1>1, <1>6 DEF ExhaustedByWaste, Answered, budget, checkpoint
<1>8. CallsPaid' /\ CallsDue' /\ CallsSuffice'
  BY <1>1 DEF CallInv, CallsPaid, CallsDue, CallsSuffice, Answered, budget, checkpoint
<1> QED BY <1>7, <1>8 DEF CallInv

\* The steps that make no call, commit no stage and run out of nothing.
Onward ==
  \/ Start \/ (\E s : Unaudited(s)) \/ NothingFound \/ NothingAsked \/ HoldBack \/ OutOfSources
  \/ Proceed \/ NoNewEvidence \/ RoundTwoOver \/ Publish \/ Refuse \/ Confirm \/ Succeed

\* They leave the count as it is.
LEMMA OnwardCounts ==
  ASSUME CallInv, IInv, Onward
  PROVE  CallInv'
<1>1. UNCHANGED <<limits, used, done, opps, control>>
  BY DEF Onward, Start, Unaudited, NothingFound, NothingAsked, HoldBack, OutOfSources, Proceed,
         NoNewEvidence, RoundTwoOver, Publish, Refuse, Confirm, Succeed, budget, checkpoint
<1>2. end' # "BUDGET_EXHAUSTED" \/ end' = end
  BY DEF Onward, Start, Unaudited, NothingFound, NothingAsked, HoldBack, OutOfSources, Proceed,
         NoNewEvidence, RoundTwoOver, Publish, Refuse, Confirm, Succeed, Ends
<1>3. used'.calls \in Nat /\ used'.calls >= used.calls
  BY <1>1, Numbers
<1> QED BY <1>1, <1>2, <1>3, QuietKeepsCalls

\* Every step keeps the count.
LEMMA NextCounts ==
  ASSUME CallInv, IInv, [Next]_vars
  PROVE  CallInv'
<1>1. CASE UNCHANGED vars
  <2>1. UNCHANGED <<limits, used, done, opps, control, end>>
    BY <1>1 DEF vars, budget, checkpoint, attempt
  <2>2. used'.calls \in Nat /\ used'.calls >= used.calls
    BY <2>1, Numbers
  <2> QED BY <2>1, <2>2, QuietKeepsCalls
<1>2. ASSUME NEW s, Step(s) PROVE CallInv'
  <2>1. CASE Compute(s) \/ CommitEmpty(s)
    BY <2>1, ComputeCounts
  <2>2. CASE Reason(s)
    BY <2>2, ReasonCounts
  <2>3. CASE Denied(s)
    BY <2>3, DeniedCounts
  <2>4. CASE Invalid(s)
    BY <2>4, CutCounts
  <2>5. CASE Unaudited(s)
    BY <2>5, OnwardCounts DEF Onward
  <2>6. CASE NothingToAsk(s) \/ Collected(s)
    BY <2>6, SourcesCount
  <2>7. CASE Reserve(s)
    BY <2>7, ReserveCounts
  <2> QED BY <1>2, <2>1, <2>2, <2>3, <2>4, <2>5, <2>6, <2>7 DEF Step
<1>3. CASE Cut
  BY <1>3, CutCounts
<1>4. CASE Decide
  BY <1>4, DecideCounts
<1>5. CASE OutOfCalls
  BY <1>5, OutOfCallsCounts
<1>6. CASE Onward
  BY <1>6, OnwardCounts
<1>7. Next => (\E s : Step(s)) \/ Cut \/ Decide \/ OutOfCalls \/ Onward
  BY DEF Next, Goes, Onward
<1> QED BY <1>1, <1>2, <1>3, <1>4, <1>5, <1>6, <1>7

\* A second round that was begun is never given up for want of calls unless some were lost
\* or spent on repairs (_round_two, required): the safety part of TaskEnds.
THEOREM ExhaustedByWasteAlways == Spec => []ExhaustedByWaste
<1>1. CallInv /\ IInv /\ [Next]_vars => CallInv'
  BY NextCounts
<1>2. CallInv => ExhaustedByWaste
  BY DEF CallInv
<1> QED
  BY <1>1, <1>2, InitCounts, InductiveAlways, PTL DEF Spec
=============================================================================
