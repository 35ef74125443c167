---------------------------- MODULE ResearchRounds ----------------------------
(***************************************************************************)
(* The stages of one research task (runtime/evidence_pipeline.py), the     *)
(* budgets they draw on (integration/evidence_store.py) and what           *)
(* integration/persistence.py accepts of them: a first round over all      *)
(* evidence, and a second one for the opportunities the critic wants more  *)
(* evidence for.                                                           *)
(*                                                                         *)
(* An attempt walks the stages from the start, loads those that are        *)
(* committed and computes the others; it may be cut off anywhere, and the  *)
(* next one starts with nothing but the checkpoint.  Who runs an attempt,  *)
(* its lease, the deadline and the making of a call are left to RunQueue   *)
(* and ResearchHandler.                                                    *)
(***************************************************************************)
EXTENDS Naturals, Sequences, FiniteSets

CONSTANTS
  Opp,      \* opportunities
  CallLimits, RequestLimits, SignalLimits, SearchLimits, RoundLimits,
            \* what the budget_limits of a run may be
  MaxCuts   \* bound: attempts that are cut off

ASSUME RoundsAssumption ==
  /\ CallLimits \subseteq Nat /\ SearchLimits \subseteq Nat /\ RoundLimits \subseteq Nat
  /\ RequestLimits \subseteq Nat \ {0} /\ SignalLimits \subseteq Nat \ {0}
  /\ MaxCuts \in Nat

VARIABLES
  limits,    \* budget_limits of the run
  used,      \* its budget_used
  charge,    \* external_reservations: what is charged for a stage, 0 without reservation
  reserved,  \* the stages with a reservation
  done,      \* the committed stages
  hollow,    \* those among them that brought nothing to go on with
  opps,      \* GAP: the opportunities of round one
  asks,      \* CRITIC: those the critic wants more evidence for
  control,   \* RESEARCH_MORE_CONTROL: its status
  result,    \* RESEARCH_MORE_RESULT: its status
  final,     \* FINAL: the round_number of the decisions, and whose artifacts they cite
  at,        \* where the attempt stands
  view,      \* the round whose artifacts the attempt holds
  end,       \* how the task has ended
  cuts       \* attempts cut off

budget == <<limits, used, charge, reserved>>
checkpoint == <<done, hollow, opps, asks, control, result, final>>
attempt == <<at, view, end, cuts>>
vars == <<budget, checkpoint, attempt>>

RoundOne == <<"EXISTING", "QUERY_PLAN", "COLLECT", "EXTRACT", "CLUSTER",
              "COMPETITOR_RESEARCH", "GAP", "CARD_SCORE", "HYPOTHESIS", "CRITIC">>
RoundTwo == <<"COLLECT_R2", "EXTRACT_R2", "CLUSTER_R2", "GAP_R2", "CARD_SCORE_R2",
              "HYPOTHESIS_R2", "CRITIC_R2">>

Elements(order) == {order[i] : i \in DOMAIN order}
StagesOne == Elements(RoundOne)
StagesTwo == Elements(RoundTwo)
Computed == {"EXISTING", "CARD_SCORE", "CARD_SCORE_R2"}
External == {"COLLECT", "COMPETITOR_RESEARCH", "COLLECT_R2"}
SemanticTwo == {"EXTRACT_R2", "CLUSTER_R2", "GAP_R2", "HYPOTHESIS_R2", "CRITIC_R2"}
Semantic == {"QUERY_PLAN", "EXTRACT", "CLUSTER", "GAP", "HYPOTHESIS", "CRITIC"} \union SemanticTwo

Limits == [calls : CallLimits, requests : RequestLimits, signals : SignalLimits,
           searches : SearchLimits, rounds : RoundLimits]

NoFinal == [round |-> 0, view |-> 0]

\* s is the first stage of its round that is not committed.
IsNext(order, s) ==
  \E i \in DOMAIN order : order[i] = s /\ s \notin done /\ \A j \in 1 .. i - 1 : order[j] \in done

\* A first round without items, or without pain, is over.
Fruitless == hollow \intersect {"COLLECT", "EXTRACT"} # {}

\* The attempt has come to stage s: the stages before it are committed, s is not.
Due(s) ==
  \/ at = "round1" /\ ~ Fruitless /\ IsNext(RoundOne, s)
  \/ at = "round2" /\ "COLLECT_R2" \notin hollow /\ IsNext(RoundTwo, s)

Commit(s, empty) ==
  /\ done' = done \union {s}
  /\ hollow' = IF empty THEN hollow \union {s} ELSE hollow

\* The task ends, with success or with the kind of its error; none of them is retried.
Ends(kind) == at' = "idle" /\ end' = kind

\* Bug: the limit is looked at before the call, not before its repair.
SpendFirst(n) == used.calls < limits.calls /\ used' = [used EXCEPT !.calls = @ + n]

\* consume_budget for a call and its repair.
Spend(n) == used.calls + n <= limits.calls /\ used' = [used EXCEPT !.calls = @ + n]

-----------------------------------------------------------------------------
(* Attempts.                                                               *)

Start ==
  /\ at = "idle" /\ end = "OPEN"
  /\ at' = "round1" /\ view' = 1
  /\ UNCHANGED <<budget, checkpoint, end, cuts>>

\* No opportunity, no hypotheses and no critic; no competitor research, no gap.
NeedsCall(s) ==
  /\ s = "GAP" => "COMPETITOR_RESEARCH" \notin hollow
  /\ s \in {"HYPOTHESIS", "CRITIC"} => opps # {}

Reasoning(s) == s \in Semantic /\ Due(s) /\ NeedsCall(s)

\* A crash, a lease that is lost, an error that is retried; calls that were made for the
\* stage, with or without the repair, are spent.
Cut ==
  /\ at # "idle" /\ cuts < MaxCuts
  /\ at' = "idle" /\ cuts' = cuts + 1
  /\ \/ UNCHANGED used
     \/ (\E s \in Semantic : Reasoning(s)) /\ \E n \in {1, 2} : Spend(n)
  /\ UNCHANGED <<limits, charge, reserved, checkpoint, view, end>>

-----------------------------------------------------------------------------
(* Stages.                                                                 *)

Compute(s) ==
  /\ s \in Computed /\ Due(s)
  /\ Commit(s, FALSE)
  /\ UNCHANGED <<budget, opps, asks, control, result, final, attempt>>

\* An empty batch is committed without a call.
CommitEmpty(s) ==
  /\ s \in {"GAP", "HYPOTHESIS"} /\ Due(s) /\ ~ NeedsCall(s)
  /\ Commit(s, FALSE)
  /\ UNCHANGED <<budget, opps, asks, control, result, final, attempt>>

\* The provider answers, perhaps after a repair, and the stage is committed.  Pain may be
\* absent from the evidence, and the second round need not find another gap.
Reason(s) ==
  /\ Reasoning(s)
  /\ \E n \in {1, 2} : Spend(n)
  /\ \E empty \in BOOLEAN : (empty => s \in {"EXTRACT", "GAP_R2"}) /\ Commit(s, empty)
  /\ opps' \in IF s = "GAP" THEN SUBSET Opp ELSE {opps}
  /\ asks' \in IF s = "CRITIC" THEN SUBSET opps ELSE {asks}
  /\ UNCHANGED <<limits, charge, reserved, control, result, final, attempt>>

\* The call, or its repair, is over the budget.
Denied(s) ==
  /\ Reasoning(s)
  /\ \E n \in {0, 1} : Spend(n) /\ used.calls + n = limits.calls
  /\ Ends("BUDGET_EXHAUSTED")
  /\ UNCHANGED <<limits, charge, reserved, checkpoint, view, cuts>>

\* What the provider returns is invalid, even repaired, or says of the evidence what it
\* may not.
Invalid(s) ==
  /\ Reasoning(s)
  /\ \E n \in {1, 2} : Spend(n)
  /\ Ends("INVALID_OUTPUT")
  /\ UNCHANGED <<limits, charge, reserved, checkpoint, view, cuts>>

\* _persist_critic wants the recorded call of this attempt, but none was made: there was
\* no opportunity, or none of their cases fits the input.
Unaudited(s) ==
  /\ s \in {"CRITIC", "CRITIC_R2"} /\ Due(s)
  /\ Ends("REFUSED")
  /\ UNCHANGED <<budget, checkpoint, view, cuts>>

-----------------------------------------------------------------------------
(* External stages: reserve, ask, commit with what was really used.        *)

Counter(s) == IF s = "COMPETITOR_RESEARCH" THEN "searches" ELSE "requests"

\* Bug: collections reserve one request at a time.
AmountSingle(s) == IF limits[Counter(s)] = used[Counter(s)] THEN 0 ELSE 1

\* Collection asks for all requests its context admits, which are those the run has left:
\* load_context takes the limits of an attempt net of what was used before it, and
\* _round_two those of remaining_collection_budget.  There is one search.
Amount(s) ==
  LET left == limits[Counter(s)] - used[Counter(s)]
  IN  IF s = "COMPETITOR_RESEARCH" /\ left > 0 THEN 1 ELSE left

\* There is no budget to ask with, though it may be gone to an earlier attempt of the same
\* stage; or the intents of the critic name no source that has a collector.  The stage is
\* committed without results, and what was reserved for it is given back.
NothingToAsk(s) ==
  /\ s \in External /\ Due(s)
  /\ s \in {"COLLECT", "COMPETITOR_RESEARCH"} => Amount(s) = 0
  /\ used' = [used EXCEPT ![Counter(s)] = @ - charge[s]]
  /\ charge' = [charge EXCEPT ![s] = 0]
  /\ Commit(s, TRUE)
  /\ UNCHANGED <<limits, reserved, opps, asks, control, result, final, attempt>>

\* reserve_external_budget; a reservation of an earlier attempt is indeterminate.
Reserve(s) ==
  /\ s \in External /\ Due(s)
  /\ Amount(s) > 0
  /\ IF s \in reserved THEN Ends("INTEGRITY") /\ UNCHANGED <<used, charge, reserved>>
     ELSE /\ at' = s
          /\ used' = [used EXCEPT ![Counter(s)] = @ + Amount(s)]
          /\ charge' = [charge EXCEPT ![s] = Amount(s)]
          /\ reserved' = reserved \union {s}
          /\ UNCHANGED end
  /\ UNCHANGED <<limits, checkpoint, view, cuts>>

\* Bug: what the stage used replaces what the run has used.
CollectedAfresh(s) ==
  /\ at = s /\ s \in External
  /\ \E actual \in 0 .. charge[s] :
       /\ used' = [used EXCEPT ![Counter(s)] = actual]
       /\ charge' = [charge EXCEPT ![s] = actual]
       /\ Commit(s, actual = 0)
  /\ at' = IF s = "COLLECT_R2" THEN "round2" ELSE "round1"
  /\ UNCHANGED <<limits, reserved, opps, asks, control, result, final, view, end, cuts>>

\* commit_stage gives back what the sources did not use, and admits the signals.
Collected(s) ==
  /\ at = s /\ s \in External
  /\ \E actual \in 0 .. charge[s] :
     \E items \in IF s = "COMPETITOR_RESEARCH" THEN {0} ELSE 0 .. limits.signals - used.signals :
     \E empty \in BOOLEAN :
       /\ used' = [used EXCEPT ![Counter(s)] = @ - (charge[s] - actual), !.signals = @ + items]
       /\ charge' = [charge EXCEPT ![s] = actual]
       /\ items > 0 => actual > 0
       /\ s = "COLLECT" => (empty <=> items = 0)
       /\ s = "COLLECT_R2" /\ items = 0 => empty
       /\ Commit(s, empty)
  /\ at' = IF s = "COLLECT_R2" THEN "round2" ELSE "round1"
  /\ UNCHANGED <<limits, reserved, opps, asks, control, result, final, view, end, cuts>>

NothingFound ==
  /\ at = "round1" /\ Fruitless
  /\ Ends("SUCCEEDED")
  /\ UNCHANGED <<budget, checkpoint, view, cuts>>

-----------------------------------------------------------------------------
(* The second round.                                                       *)

RoundOneOver == at = "round1" /\ "CRITIC" \in done

\* A call for each stage of the second round that is left.
Required == 5 - Cardinality(SemanticTwo \intersect done)
Remaining == limits.calls - used.calls

NothingAsked ==
  /\ RoundOneOver /\ asks = {}
  /\ at' = "final"
  /\ UNCHANGED <<budget, checkpoint, view, end, cuts>>

\* Bug: each attempt decides again.
DecideAnew ==
  /\ RoundOneOver /\ asks # {} /\ control \in {"NONE", "EXECUTING"}
  /\ control' = IF limits.rounds < 2 THEN "STOPPED_ROUND_LIMIT"
                ELSE IF Remaining < 5 THEN "STOPPED_AGENT_BUDGET"
                ELSE "EXECUTING"
  /\ control' # control
  /\ UNCHANGED <<budget, done, hollow, opps, asks, result, final, attempt>>

\* Whether there is a second round is decided once.
Decide ==
  /\ RoundOneOver /\ asks # {} /\ control = "NONE"
  /\ control' = IF limits.rounds < 2 THEN "STOPPED_ROUND_LIMIT"
                ELSE IF Remaining < Required THEN "STOPPED_AGENT_BUDGET"
                ELSE "EXECUTING"
  /\ UNCHANGED <<budget, done, hollow, opps, asks, result, final, attempt>>

HoldBack ==
  /\ RoundOneOver /\ control \in {"STOPPED_ROUND_LIMIT", "STOPPED_AGENT_BUDGET"}
  /\ at' = "final"
  /\ UNCHANGED <<budget, checkpoint, view, end, cuts>>

Executing == RoundOneOver /\ control = "EXECUTING"

\* Every attempt counts again the calls that are left for the stages that are left.
OutOfCalls ==
  /\ Executing /\ Remaining < Required
  /\ Ends("BUDGET_EXHAUSTED")
  /\ UNCHANGED <<budget, checkpoint, view, cuts>>

\* Bug: off by one.
SourcesNearlySpent == used.requests + 1 >= limits.requests \/ used.signals >= limits.signals

\* remaining_collection_budget has nothing left of one or the other.
SourcesSpent == used.requests >= limits.requests \/ used.signals >= limits.signals

\* RESEARCH_MORE_RESULT is committed unless it is there.
Concludes(status) == result' = IF result = "NONE" THEN status ELSE result

\* And whether sources may be asked, without looking whether they have been.
OutOfSources ==
  /\ Executing /\ Remaining >= Required /\ SourcesSpent
  /\ Concludes("STOPPED_COLLECTION_BUDGET")
  /\ at' = "final"
  /\ UNCHANGED <<budget, done, hollow, opps, asks, control, final, view, end, cuts>>

Proceed ==
  /\ Executing /\ Remaining >= Required /\ ~ SourcesSpent
  /\ at' = "round2"
  /\ UNCHANGED <<budget, checkpoint, view, end, cuts>>

\* Bug: an attempt that finds the result committed has nothing to do.
NoNewEvidenceOnce ==
  /\ at = "round2" /\ "COLLECT_R2" \in hollow /\ result = "NONE"
  /\ Concludes("STOPPED_NO_NEW_EVIDENCE")
  /\ at' = "final"
  /\ UNCHANGED <<budget, done, hollow, opps, asks, control, final, view, end, cuts>>

\* The second collection brought nothing that the first had not.
NoNewEvidence ==
  /\ at = "round2" /\ "COLLECT_R2" \in hollow
  /\ Concludes("STOPPED_NO_NEW_EVIDENCE")
  /\ at' = "final"
  /\ UNCHANGED <<budget, done, hollow, opps, asks, control, final, view, end, cuts>>

RoundTwoOver ==
  /\ at = "round2" /\ "CRITIC_R2" \in done
  /\ Concludes("COMPLETE")
  /\ at' = "final" /\ view' = 2
  /\ UNCHANGED <<budget, done, hollow, opps, asks, control, final, end, cuts>>

-----------------------------------------------------------------------------
(* The decisions.                                                          *)

FinalRound == IF result = "COMPLETE" THEN 2 ELSE 1

\* _final_artifacts: the gap hypothesis of each decision is the one that the batch of its
\* round has for the opportunity; the batch of round two has the targets alone.
GapsMatch == FinalRound = 2 => opps \subseteq asks /\ (view = 2 \/ "GAP_R2" \in hollow)

Decisions == [round |-> FinalRound, view |-> view]

Publish ==
  /\ at = "final" /\ final = NoFinal /\ GapsMatch
  /\ final' = Decisions /\ at' = "over"
  /\ UNCHANGED <<budget, done, hollow, opps, asks, control, result, view, end, cuts>>

\* _persist_final derives each verdict again from what is stored; it may come out
\* differently when the critic of round two is read with the artifacts of round one.
Refuse ==
  /\ at = "final" /\ final = NoFinal
  /\ ~ GapsMatch \/ view # FinalRound
  /\ Ends("REFUSED")
  /\ UNCHANGED <<budget, checkpoint, view, cuts>>

\* An earlier attempt has committed FINAL: it has to be the same.
Confirm ==
  /\ at = "final" /\ final # NoFinal
  /\ IF final = Decisions THEN at' = "over" /\ UNCHANGED end ELSE Ends("PERMANENT")
  /\ UNCHANGED <<budget, checkpoint, view, cuts>>

Succeed ==
  /\ at = "over"
  /\ Ends("SUCCEEDED")
  /\ UNCHANGED <<budget, checkpoint, view, cuts>>

-----------------------------------------------------------------------------

Init ==
  /\ limits \in Limits
  /\ used = [calls |-> 0, requests |-> 0, signals |-> 0, searches |-> 0]
  /\ charge = [s \in External |-> 0] /\ reserved = {}
  /\ done = {} /\ hollow = {} /\ opps = {} /\ asks = {}
  /\ control = "NONE" /\ result = "NONE" /\ final = NoFinal
  /\ at = "idle" /\ view = 1 /\ end = "OPEN" /\ cuts = 0

Step(s) ==
  \/ Compute(s) \/ CommitEmpty(s) \/ Reason(s) \/ Denied(s) \/ Invalid(s) \/ Unaudited(s)
  \/ NothingToAsk(s) \/ Reserve(s) \/ Collected(s)

Goes ==
  \/ Start
  \/ \E s \in StagesOne \union StagesTwo : Step(s)
  \/ NothingFound \/ NothingAsked
  \/ Decide \/ HoldBack \/ OutOfCalls \/ OutOfSources \/ Proceed
  \/ NoNewEvidence \/ RoundTwoOver
  \/ Publish \/ Refuse \/ Confirm \/ Succeed

Next == Goes \/ Cut

Spec == Init /\ [][Next]_vars

\* The queue has the task attempted again, and an attempt goes on until it is cut off.
FairSpec == Spec /\ WF_vars(Goes)

-----------------------------------------------------------------------------
(* Properties.                                                             *)

Stopped == {"STOPPED_ROUND_LIMIT", "STOPPED_AGENT_BUDGET"}
Results == {"STOPPED_COLLECTION_BUDGET", "STOPPED_NO_NEW_EVIDENCE", "COMPLETE"}
Ended == {"SUCCEEDED", "BUDGET_EXHAUSTED", "INTEGRITY", "INVALID_OUTPUT", "REFUSED", "PERMANENT"}

\* The rows have their types, and no counter exceeds its limit.
TypeOK ==
  /\ limits \in Limits
  /\ used \in [calls : 0 .. limits.calls, requests : 0 .. limits.requests,
               signals : 0 .. limits.signals, searches : 0 .. limits.searches]
  /\ charge \in [External -> Nat] /\ reserved \subseteq External
  /\ done \subseteq StagesOne \union StagesTwo /\ hollow \subseteq done
  /\ opps \subseteq Opp /\ asks \subseteq opps
  /\ control \in Stopped \union {"NONE", "EXECUTING"}
  /\ result \in Results \union {"NONE"}
  /\ final \in {NoFinal} \union [round : {1, 2}, view : {1, 2}]
  /\ at \in {"idle", "round1", "round2", "final", "over"} \union External
  /\ view \in {1, 2} /\ end \in Ended \union {"OPEN"} /\ cuts \in 0 .. MaxCuts

\* The requests charged to a run are those of its collections: what a collection reports
\* once it is committed, all it might use as long as it is not (evidence_store.py,
\* _reconcile_external_budget), whatever was cut off and resumed in between.
ExternalLedger ==
  /\ used.requests = charge["COLLECT"] + charge["COLLECT_R2"]
  /\ used.searches = charge["COMPETITOR_RESEARCH"]
  /\ \A s \in External \ reserved : charge[s] = 0

\* A second round that was stopped before it began is never begun by a later attempt, and
\* one that concluded was executing (RESEARCH_MORE_CONTROL in _round_two).
StopsForGood ==
  /\ control \in Stopped => /\ StagesTwo \intersect done = {}
                            /\ "COLLECT_R2" \notin reserved /\ at # "round2"
  /\ result # "NONE" \/ StagesTwo \intersect done # {} => control = "EXECUTING"

\* What an end requires: a second round is begun only with a call left for each of its
\* stages, so it runs out of calls only if some were lost to a crash or spent on repairs
\* (_round_two, required).
ExhaustedByWaste ==
  end = "BUDGET_EXHAUSTED" /\ control = "EXECUTING" =>
    used.calls > Cardinality(Semantic \intersect done)

\* Decisions of the second round rest on all of it, and while a request and a signal are
\* left, an attempt that resumes after the second critic never publishes the first round.
SecondRoundPublished ==
  final # NoFinal =>
    /\ final.round = 2 => result = "COMPLETE" /\ StagesTwo \subseteq done /\ opps \subseteq asks
    /\ "CRITIC_R2" \in done /\ used.requests < limits.requests /\ used.signals < limits.signals
       => final = [round |-> 2, view |-> 2]

\* A second collection that was cut off does not fail the run: it has reserved all that was
\* left, so the next attempt finds no request left and goes on with the first round, before
\* it can meet the reservation.
InterruptedRoundPassedOver ==
  "COLLECT_R2" \in reserved =>
    /\ end # "INTEGRITY"
    /\ "COLLECT_R2" \notin done => used.requests = limits.requests

\* Every task ends, however often it is cut off (up to MaxCuts), and never for want of
\* calls in a second round that was begun, unless some were wasted.
TaskEnds == <>(end # "OPEN" /\ ExhaustedByWaste)

\* A stage with a reservation is committed only by the attempt that has made it; a later
\* one fails (test_external_request_reservation_blocks_replay_after_reclaim).
ReservationBlocksReplay ==
  [][\A s \in (done' \ done) \intersect reserved : at = s]_vars

\* A run that finds no opportunity succeeds (docs/tasks/integration.md I7; section 9 of
\* docs/spec-v0.1.md for runs without search).
EmptyRunSucceeds == "GAP" \in done /\ opps = {} => end # "REFUSED"

\* A second round for some opportunities keeps the others and is published
\* (test_focused_second_round_preserves_untargeted_first_round_opportunity).
FocusedRoundPublished == view = 2 => end # "REFUSED"
=============================================================================
