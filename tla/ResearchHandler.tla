--------------------------- MODULE ResearchHandler ---------------------------
(***************************************************************************)
(* The handler of a research task, composed with the queue that runs it:   *)
(* EvidencePipeline (runtime/evidence_pipeline.py) with its stage          *)
(* checkpoint (integration/evidence_store.py), and the audited calls of    *)
(* the language-model provider it makes: AuditedSemanticReasoner           *)
(* (integration/semantic.py) with DurableAgentCallAdmission and            *)
(* consume_budget (queue/control.py).                                      *)
(*                                                                         *)
(* A task is a sequence of stages.  Each is computed and committed to the  *)
(* checkpoint of the task: an external stage sends requests to sources it  *)
(* first reserves, any other asks the provider once, with at most one      *)
(* repair.  Each attempt of the task starts over, passes by what is        *)
(* committed, and names its calls after itself.  A step is one             *)
(* transaction, or the answer of the provider; while a call is in flight,  *)
(* the provider, the heartbeat of the call and that of the task (RunQueue) *)
(* go on side by side.                                                     *)
(***************************************************************************)
EXTENDS RunQueue, Sequences

CONSTANTS
  Stages,         \* number of stages
  External,       \* those that collect from sources
  Closing,        \* those that may find that there is nothing to go on with
  ProviderLease,  \* lease_duration of a provider call
  MaxParallel,    \* max_parallel_agent_calls
  MaxCalls        \* max_agent_calls_per_run

\* What a handler may raise: the kinds of TaskHandlerError, and of classify_exception.
Raised == {"AUTH_REQUIRED", "BUDGET_EXHAUSTED", "DEADLINE_EXCEEDED", "INTEGRITY",
           "INVALID_OUTPUT", "RATE_LIMITED", "TIMEOUT", "TRANSIENT_NETWORK", "PERMANENT"}

ASSUME HandlerAssumption ==
  /\ Raised \subseteq Kind
  /\ Stages \in Nat \ {0}
  /\ External \subseteq 1 .. Stages
  /\ Closing \subseteq 1 .. Stages
  /\ ProviderLease \in Nat \ {0}
  /\ MaxParallel \in 1 .. 2
  /\ MaxCalls \in Nat

VARIABLES
  lease,     \* provider_call_leases: owner and time left of each call in flight
  audit,     \* agent_calls: the status recorded for a call
  used,      \* budget_used["agent_calls"] of each run
  stages,    \* checkpoint.pipeline.stages of each task, in the order of the commits
  reserved,  \* checkpoint.pipeline.external_reservations
  at         \* where the handler of each worker stands

rows == <<lease, audit, used, stages, reserved>>
hvars == <<vars, rows, at>>

\* A call: its task, the attempt and the stage it is made for, and 1 for the repair.
Id == Task \X Nat \X (1 .. Stages) \X {0, 1}
CallRun(id) == RunOf(id[1])
StageOf(id) == id[3]

Recorded == {"COMPLETED", "INVALID_OUTPUT", "AUTH_REQUIRED", "TIMEOUT", "FAILED"}

NoHandler == [step |-> "none", stage |-> 1, repair |-> 0, result |-> "NONE",
              attempt |-> 0, owner |-> NoWorker, found |-> {}]

At(w, step) == pc[w] = "work" /\ at[w].step = step
Asked(w) == <<held[w], at[w].attempt, at[w].stage, at[w].repair>>   \* the call w is making

Leased == DOMAIN lease
Audited == DOMAIN audit
CallsOf(S, r) == {id \in S : CallRun(id) = r}

\* A table with a row put in, or rows taken out.
Put(table, id, row) == [i \in DOMAIN table \union {id} |-> IF i = id THEN row ELSE table[i]]
Without(table, ids) == [i \in DOMAIN table \ ids |-> table[i]]

GoTo(w, step) == at' = [at EXCEPT ![w].step = step]
Raise(w, kind) == at' = [at EXCEPT ![w].step = "end", ![w].result = kind]

Live(r) == run[r].status = "RUNNING" /\ run[r].left > 0

-----------------------------------------------------------------------------
(* The checkpoint.                                                         *)

Committed(t, n) == n <= Len(stages[t])

\* Bug: the last moment of a lease is given away.
WritableWithMargin(w) ==
  LET t == held[w] IN
    /\ task[t].status = "LEASED" /\ task[t].owner = at[w].owner
    /\ task[t].attempts = at[w].attempt
    /\ task[t].ttl > 1
    /\ Live(RunOf(t))

\* _assert_stage_lease compares the row with the context the handler has loaded.
Writable(w) ==
  LET t == held[w] IN
    /\ task[t].status = "LEASED" /\ task[t].owner = at[w].owner
    /\ task[t].attempts = at[w].attempt
    /\ task[t].ttl > 0
    /\ Live(RunOf(t))

\* PermissionError, which classify_exception takes for a missing authorization.
Refused(w) == ~ Writable(w) /\ Raise(w, "AUTH_REQUIRED")

\* load_context reads owner and attempt from the row as it is by now, and the budget net
\* of what is reserved.
LoadContext(w) ==
  LET row == task[held[w]] IN
    /\ At(w, "load")
    /\ IF row.owner = NoWorker
         THEN Raise(w, "AUTH_REQUIRED")
         ELSE at' = [at EXCEPT ![w].step = "stage", ![w].owner = row.owner,
                               ![w].attempt = row.attempts, ![w].found = reserved[held[w]]]
    /\ UNCHANGED <<vars, rows>>

\* The handler goes on behind a committed stage.
Onward(w, n, last) ==
  IF last \/ n = Stages
    THEN at' = [at EXCEPT ![w].step = "end", ![w].stage = n, ![w].result = "COMPLETED"]
    ELSE at' = [at EXCEPT ![w].step = "stage", ![w].stage = n + 1, ![w].repair = 0]

\* load_stage: a committed stage is passed by, another one has to be computed.
LoadStage(w) ==
  LET n == at[w].stage IN
    /\ At(w, "stage")
    /\ \/ Refused(w)
       \/ Writable(w) /\ IF Committed(held[w], n)
                           THEN Onward(w, n, stages[held[w]][n].last)
                           ELSE GoTo(w, IF n \in External THEN "reserve" ELSE "look")
    /\ UNCHANGED <<vars, rows>>

\* Bug: a reservation of an earlier attempt is taken over.
ReserveAgain(w) ==
  /\ At(w, "reserve")
  /\ \/ Refused(w) /\ UNCHANGED reserved
     \/ /\ Writable(w)
        /\ GoTo(w, "commit")
        /\ reserved' = [reserved EXCEPT ![held[w]] = @ \union {at[w].stage}]
  /\ UNCHANGED <<vars, lease, audit, used, stages>>

\* reserve_external_budget, before the requests are sent: once for a stage.  A handler
\* whose context was loaded with the reservation there may have no budget left: it does
\* not try to reserve and goes on to commit that nothing was found.
Reserve(w) ==
  /\ At(w, "reserve")
  /\ \/ Refused(w) /\ UNCHANGED reserved
     \/ at[w].stage \in at[w].found /\ GoTo(w, "skip") /\ UNCHANGED reserved
     \/ /\ Writable(w)
        /\ at[w].stage \in reserved[held[w]]
        /\ Raise(w, "INTEGRITY")
        /\ UNCHANGED reserved
     \/ /\ Writable(w)
        /\ at[w].stage \notin reserved[held[w]]
        /\ GoTo(w, "commit")
        /\ reserved' = [reserved EXCEPT ![held[w]] = @ \union {at[w].stage}]
  /\ UNCHANGED <<vars, lease, audit, used, stages>>

\* Whose results are committed: of the attempt, or none.
Author(w) == IF at[w].step = "skip" THEN 0 ELSE at[w].attempt

\* commit_stage: a stage that is there already has to be the same one.
CommitStage(w, last) ==
  LET t == held[w]
      n == at[w].stage
  IN  /\ At(w, "commit") \/ At(w, "skip")
      /\ last => n \in Closing
      /\ \/ Refused(w) /\ UNCHANGED stages
         \/ /\ Writable(w)
            /\ IF Committed(t, n)
                 THEN /\ IF stages[t][n].by = Author(w)
                           THEN Onward(w, n, stages[t][n].last)
                           ELSE Raise(w, "PERMANENT")
                      /\ UNCHANGED stages
                 ELSE /\ stages' = [stages EXCEPT
                                      ![t] = Append(@, [by |-> Author(w), last |-> last])]
                      /\ Onward(w, n, last)
      /\ UNCHANGED <<vars, lease, audit, used, reserved>>

-----------------------------------------------------------------------------
(* A call and its admission.                                               *)

\* Bug: a call that timed out is repaired as well.
ResolveRepairsTimeouts(w, result) ==
  IF result \in {"INVALID_OUTPUT", "TIMEOUT"} /\ at[w].repair = 0
    THEN at' = [at EXCEPT ![w].step = "look", ![w].repair = 1]
  ELSE IF result = "COMPLETED" THEN GoTo(w, "commit")
  ELSE Raise(w, result)

\* Bug: what the repair brings is not validated.
ResolveTrustsRepair(w, result) ==
  IF result = "INVALID_OUTPUT" /\ at[w].repair = 0
    THEN at' = [at EXCEPT ![w].step = "look", ![w].repair = 1]
  ELSE IF result \in {"COMPLETED", "INVALID_OUTPUT"} THEN GoTo(w, "commit")
  ELSE Raise(w, result)

\* An invalid output is repaired once, a completed call gives the stage its output,
\* anything else ends the handler.
Resolve(w, result) ==
  IF result = "INVALID_OUTPUT" /\ at[w].repair = 0
    THEN at' = [at EXCEPT ![w].step = "look", ![w].repair = 1]
  ELSE IF result = "COMPLETED" THEN GoTo(w, "commit")
  ELSE Raise(w, result)

\* AuditedSemanticReasoner.run and _repair replay a call that has been recorded.
Look(w) ==
  /\ At(w, "look")
  /\ IF Asked(w) \in Audited THEN Resolve(w, audit[Asked(w)]) ELSE GoTo(w, "admit")
  /\ UNCHANGED <<vars, rows>>

Stale(r) == {id \in CallsOf(Leased, r) : lease[id].ttl <= 0}

\* _reconcile_stale_attempts: calls of the run whose lease has expired are recorded
\* as failed and lose it.
ReconciledAudit(r) ==
  [id \in Audited \union Stale(r) |-> IF id \in Audited THEN audit[id] ELSE "FAILED"]
ReconciledLease(r) == Without(lease, Stale(r))

ActiveCalls(w, r) == {id \in CallsOf(Leased, r) : lease[id].ttl > 0}

\* consume_budget: nothing is consumed beyond the limit.
Affordable(r) == used[r] + 1 <= MaxCalls

\* Why _admit denies the call, as the kind the pipeline raises it with.  The first two
\* and the fourth are attempts of this very call that were made before.
Denial(w, id) ==
  LET r == CallRun(id) IN
    CASE id \in Stale(r)                                -> "INTEGRITY"
      [] ~ Live(r)                                      -> "DEADLINE_EXCEEDED"
      [] id \in Leased                                  -> "TIMEOUT"
      [] Cardinality(ActiveCalls(w, r)) >= MaxParallel  -> "RATE_LIMITED"
      [] ~ Affordable(r)                                -> "BUDGET_EXHAUSTED"
      [] OTHER                                          -> "NONE"

\* TASK_CONTEXT_INVALID: the task belongs to another worker, or to none.
AdmitForeign(w) ==
  /\ At(w, "admit")
  /\ ~ Leases(w, held[w])
  /\ Raise(w, "INTEGRITY")
  /\ UNCHANGED <<vars, rows>>

Admission(w) ==
  /\ At(w, "admit")
  /\ Leases(w, held[w])
  /\ audit' = ReconciledAudit(CallRun(Asked(w)))
  /\ UNCHANGED <<vars, stages, reserved>>

\* Bug: the lease is not taken back when the budget denies the call.
AdmitDeniedKeeps(w) ==
  LET id == Asked(w) IN
    /\ Admission(w)
    /\ Denial(w, id) # "NONE"
    /\ lease' = IF Denial(w, id) = "BUDGET_EXHAUSTED"
                  THEN Put(ReconciledLease(CallRun(id)), id, [owner |-> w, ttl |-> 1])
                  ELSE ReconciledLease(CallRun(id))
    /\ Raise(w, Denial(w, id))
    /\ UNCHANGED used

\* A denial undoes nothing of the reconciliation.
AdmitDenied(w) ==
  LET id == Asked(w) IN
    /\ Admission(w)
    /\ IF id \in Audited THEN Resolve(w, audit[id])
                         ELSE Denial(w, id) # "NONE" /\ Raise(w, Denial(w, id))
    /\ lease' = ReconciledLease(CallRun(id))
    /\ UNCHANGED used

AdmitGranted(w) ==
  LET id == Asked(w)
      r == CallRun(id)
  IN  /\ Admission(w)
      /\ id \notin Audited
      /\ Denial(w, id) = "NONE"
      /\ lease' = Put(ReconciledLease(r), id,
                      [owner |-> w, ttl |-> Lower(ProviderLease, run[r].left)])
      /\ used' = [used EXCEPT ![r] = @ + 1]
      /\ GoTo(w, "flight")

-----------------------------------------------------------------------------
(* A call in flight.                                                       *)

\* The provider answers, raises, or is stopped at the deadline of the run.
Answer(w, result) ==
  /\ At(w, "flight")
  /\ at' = [at EXCEPT ![w].step = "answer", ![w].result = result]
  /\ UNCHANGED <<vars, rows>>

Holds(w) == Asked(w) \in Leased /\ lease[Asked(w)].owner = w

\* Bug: the renewed lease reaches to the deadline of the run.
CallBeatsForever(w) ==
  /\ At(w, "flight")
  /\ Holds(w) /\ Live(RunOf(held[w]))
  /\ lease' = [lease EXCEPT ![Asked(w)].ttl = run[RunOf(held[w])].left]
  /\ UNCHANGED <<vars, audit, used, stages, reserved, at>>

\* _heartbeat_provider_lease renews even a lease that has expired, as long as nobody
\* has reconciled it.
CallBeats(w) ==
  /\ At(w, "flight")
  /\ Holds(w) /\ Live(RunOf(held[w]))
  /\ lease' = [lease EXCEPT ![Asked(w)].ttl = Lower(ProviderLease, run[RunOf(held[w])].left)]
  /\ UNCHANGED <<vars, audit, used, stages, reserved, at>>

\* The lease is gone or the run over: the provider is stopped, its answer unwanted.
CallLost(w) ==
  /\ At(w, "flight")
  /\ ~ (Holds(w) /\ Live(RunOf(held[w])))
  /\ Raise(w, "TIMEOUT")
  /\ UNCHANGED <<vars, rows>>

\* Bug: an answer is recorded although its lease has been reconciled.
RecordNoMatter(w) ==
  /\ At(w, "answer")
  /\ audit' = Put(audit, Asked(w), at[w].result)
  /\ lease' = Without(lease, {Asked(w)})
  /\ Resolve(w, at[w].result)
  /\ UNCHANGED <<vars, used, stages, reserved>>

\* _audit_and_release: the call is recorded and its lease deleted in one transaction.
Record(w) ==
  /\ At(w, "answer")
  /\ Holds(w)
  /\ audit' = Put(audit, Asked(w), at[w].result)
  /\ lease' = Without(lease, {Asked(w)})
  /\ Resolve(w, at[w].result)
  /\ UNCHANGED <<vars, used, stages, reserved>>

RecordLost(w) ==
  /\ At(w, "answer")
  /\ ~ Holds(w)
  /\ Raise(w, "TIMEOUT")
  /\ UNCHANGED <<vars, rows>>

RaisedKind == {"PERMANENT", "INVALID_OUTPUT", "TRANSIENT_NETWORK", "BUDGET_EXHAUSTED"}

\* The handler raises of its own: an output that is recorded does not validate, the
\* database fails, a heartbeat fails on it, the requests of a collection are more than
\* the run has left as they are reserved or accounted for.  A lease the handler has stays.
HandlerRaises(w, kind) ==
  /\ pc[w] = "work"
  /\ IF kind = "BUDGET_EXHAUSTED"
       THEN at[w].step \in {"reserve", "commit"} /\ at[w].stage \in External
       ELSE at[w].step \in {"load", "stage", "reserve", "flight", "skip", "commit"}
  /\ Raise(w, kind)
  /\ UNCHANGED <<vars, rows>>

-----------------------------------------------------------------------------
(* The queue around it.  A worker that takes a task starts its handler,    *)
(* one that drops it forgets where the handler stood.                      *)

HInit ==
  /\ Init
  /\ lease = <<>> /\ audit = <<>>
  /\ used = [r \in Run |-> 0]
  /\ stages = [t \in Task |-> <<>>]
  /\ reserved = [t \in Task |-> {}]
  /\ at = [w \in Worker |-> NoHandler]

HandlerStarts(w) ==
  /\ ClaimLock(w)
  /\ at' = [at EXCEPT ![w] = [NoHandler EXCEPT !.step = "load"]]
  /\ UNCHANGED rows

\* What the handler ends with: a kind of error, that of _semantic_task_error or
\* _agent_result_error for a call, or success, useful unless no source had anything.
Ending(h) ==
  CASE h.result = "COMPLETED" ->
         [kind |-> "NONE", useful |-> h.stage \notin External, warned |-> FALSE]
    [] h.result = "FAILED"    -> [NoOutcome EXCEPT !.kind = "PERMANENT"]
    [] OTHER                  -> [NoOutcome EXCEPT !.kind = h.result]

HandlerIsOver(w) ==
  /\ At(w, "end")
  /\ HandlerEnds(w, Ending(at[w]))
  /\ at' = [at EXCEPT ![w] = NoHandler]
  /\ UNCHANGED rows

\* The process dies, or the heartbeat of the task cancels the handler.
HandlerIsCut(w) ==
  /\ HeartbeatOverdue(w) \/ HeartbeatLost(w) \/ Crash(w)
  /\ at' = [at EXCEPT ![w] = NoHandler]
  /\ UNCHANGED rows

HTick ==
  /\ Tick
  /\ lease' = [id \in Leased |-> [lease[id] EXCEPT !.ttl = AtLeast(0, @ - 1)]]
  /\ UNCHANGED <<audit, used, stages, reserved, at>>

\* What the queue does without the handler.
QueueStep(w) ==
  /\ \/ Poll(w) \/ ClaimSelect(w) \/ ClaimNothing(w) \/ ClaimRaced(w)
     \/ HeartbeatRenews(w) \/ Settle(w) \/ Restart(w)
  /\ UNCHANGED <<rows, at>>

HSchedule(r, rev, mode) == Schedule(r, rev, mode, {Root}) /\ UNCHANGED <<rows, at>>

HandlerStep(w) ==
  \/ LoadContext(w) \/ LoadStage(w) \/ Reserve(w)
  \/ \E last \in BOOLEAN : CommitStage(w, last)
  \/ Look(w) \/ AdmitForeign(w) \/ AdmitDenied(w) \/ AdmitGranted(w)
  \/ \E result \in Recorded : Answer(w, result)
  \/ CallLost(w) \/ Record(w) \/ RecordLost(w)

HNext ==
  \/ \E r \in Run, rev \in Revision, mode \in Mode : HSchedule(r, rev, mode)
  \/ \E w \in Worker :
       \/ QueueStep(w) \/ HandlerStarts(w) \/ HandlerIsOver(w) \/ HandlerIsCut(w)
       \/ HandlerStep(w) \/ CallBeats(w)
       \/ \E kind \in RaisedKind : HandlerRaises(w, kind)
  \/ HTick

HSpec == HInit /\ [][HNext]_hvars

(* The processes and the clock are as fair as those of the queue, and here *)
(* the handler is fair too: the provider is stopped at the deadline.       *)
HFairness ==
  /\ WF_hvars(HTick)
  /\ SF_hvars(\E w \in Worker : Admit(w) /\ UNCHANGED <<rows, at>>)
  /\ \A w \in Worker :
       /\ WF_hvars(HandlerStep(w))
       /\ WF_hvars(HandlerStarts(w))
       /\ WF_hvars(HandlerIsOver(w))
       /\ WF_hvars((HeartbeatOverdue(w) \/ HeartbeatLost(w)) /\ HandlerIsCut(w))
       /\ WF_hvars(QueueStep(w) /\ ~ HeartbeatRenews(w))

HFairSpec == HSpec /\ HFairness

-----------------------------------------------------------------------------
(* Properties.                                                             *)

HandlerState ==
  [step : {"none", "load", "stage", "reserve", "look", "admit", "flight", "answer",
           "skip", "commit", "end"},
   stage : 1 .. Stages, repair : {0, 1}, result : Recorded \union Raised \union {"NONE"},
   attempt : Nat, owner : Worker \union {NoWorker}, found : SUBSET External]

\* The rows and the state of the handlers have their types; no provider lease lasts
\* longer than its duration.
HandlerTypeOK ==
  /\ Leased \subseteq Id /\ Audited \subseteq Id
  /\ \A id \in Leased : lease[id] \in [owner : Worker, ttl : 0 .. ProviderLease]
  /\ \A id \in Audited : audit[id] \in Recorded
  /\ used \in [Run -> Nat]
  /\ stages \in [Task -> Seq([by : Nat, last : BOOLEAN])]
  /\ \A t \in Task : Len(stages[t]) <= Stages
  /\ reserved \in [Task -> SUBSET External]
  /\ at \in [Worker -> HandlerState]

\* Every unit of the agent-call budget is accounted for by exactly one call, in flight
\* or recorded, whoever died or was denied on the way; and the limits hold: of the calls
\* of a run, and of those in flight at once, those of workers that have died or lost the
\* task included.
CallLedger ==
  /\ Leased \intersect Audited = {}
  /\ \A r \in Run : /\ used[r] = Cardinality(CallsOf(Leased \union Audited, r))
                    /\ used[r] <= MaxCalls
                    /\ Cardinality(CallsOf(Leased, r)) <= MaxParallel

\* A call is made only when the stages before it are committed, a repair only when its
\* original is recorded invalid; and whoever is let into the admission of a call finds it
\* never made before and its stage not committed, though two handlers may run under the
\* name of one attempt.
CallsInOrder ==
  /\ \A id \in Leased \union Audited :
       /\ StageOf(id) <= Len(stages[id[1]]) + 1
       /\ id[4] = 1 => LET original == <<id[1], id[2], id[3], 0>>
                       IN  original \in Audited /\ audit[original] = "INVALID_OUTPUT"
  /\ \A w \in Worker : At(w, "admit") /\ Leases(w, held[w]) =>
       /\ Asked(w) \notin Leased \union Audited
       /\ ~ Committed(held[w], at[w].stage)

\* Each committed stage goes back to a recorded call of the attempt it is committed for,
\* or to a reservation; and a task succeeds only with its checkpoint complete.
StagesHaveSources ==
  \A t \in Task :
    /\ \A n \in DOMAIN stages[t] :
         IF n \in External
           THEN n \in reserved[t]
           ELSE \E k \in {0, 1} : LET id == <<t, stages[t][n].by, n, k>>
                                  IN  id \in Audited /\ audit[id] = "COMPLETED"
    /\ task[t].status = "SUCCEEDED" =>
         LET n == Len(stages[t]) IN n > 0 /\ (n = Stages \/ stages[t][n].last)

\* A run asks for a login only if the provider did: the PermissionErrors of a handler
\* that has lost its lease, which are classified the same, never reach the run.
LoginIsNeeded ==
  \A r \in Run : run[r].status = "AUTH_REQUIRED" =>
    \E id \in CallsOf(Audited, r) : audit[id] = "AUTH_REQUIRED"

\* What is recorded or committed stays: no late answer, no second handler and no later
\* attempt replaces it.
RecordsFrozen ==
  [][/\ \A id \in Audited : id \in DOMAIN audit' /\ audit'[id] = audit[id]
     /\ \A t \in Task : SubSeq(stages'[t], 1, Len(stages[t])) = stages[t]]_hvars

\* No two handlers ask the sources for the same stage, though one may have lost the
\* task to the other without knowing, or have taken over its name.
OneCollector ==
  \A v, w \in Worker :
    /\ v # w /\ held[v] = held[w] /\ at[v].stage = at[w].stage /\ at[w].stage \in External
    => ~ (At(v, "commit") /\ At(w, "commit"))

\* Each call the provider was started for gets a record with its status, whatever
\* became of the worker (docs/spec-v0.1.md section 5).
EveryCallIsRecorded ==
  \A t \in Task, n \in 1 .. Stages, k \in {0, 1}, a \in 1 .. MaxAttempts + RunTime :
    <<t, a, n, k>> \in Leased ~> <<t, a, n, k>> \in Audited
=============================================================================
