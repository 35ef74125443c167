----------------------- MODULE ResearchHandlerProofs -----------------------
(***************************************************************************)
(* The queue with the handlers of the pipeline in it is still the queue:   *)
(* each step of ResearchHandler is a step of RunQueue, or leaves the       *)
(* variables of RunQueue alone.  The step that is not obvious is the end   *)
(* of a handler: it has to have an outcome, and one the queue knows.       *)
(* Then what the handlers and the queue promise together: one collector at *)
(* a source, a ledger that agrees with the run's count of calls, a handler *)
(* stopped for a login whose mission still waits for it, calls that are    *)
(* asked in the order of the pipeline, and the sources of each stage.      *)
(***************************************************************************)
EXTENDS ResearchHandler, RunQueueProofs, SequenceTheorems, FiniteSetTheorems

\* Where a handler stands goes with what it has: an answer to record is one of the
\* provider, an end has an outcome, and sources are reserved in external stages only.
WellPlaced ==
  \A w \in Worker :
    /\ at[w].step = "answer" => at[w].result \in Recorded
    /\ at[w].step = "end" => at[w].result \in Recorded \union Raised
    /\ at[w].step = "reserve" => at[w].stage \in External

HandlerInv == TypeOK /\ HandlerTypeOK /\ WellPlaced

-----------------------------------------------------------------------------
(* What the operators of the module do to the place of a handler.          *)

\* The place of w may have changed, to one that fits.
Moved(w) ==
  /\ at' \in [Worker -> HandlerState]
  /\ WellPlaced'

LEMMA PlacedOne ==
  ASSUME HandlerTypeOK, WellPlaced, NEW w \in Worker, NEW h \in HandlerState,
         at' = [at EXCEPT ![w] = h],
         h.step = "answer" => h.result \in Recorded,
         h.step = "end" => h.result \in Recorded \union Raised,
         h.step = "reserve" => h.stage \in External
  PROVE  Moved(w)
BY DEF Moved, WellPlaced, HandlerTypeOK

LEMMA RaiseMoves ==
  ASSUME HandlerTypeOK, WellPlaced, NEW w \in Worker,
         NEW kind \in Recorded \union Raised, Raise(w, kind)
  PROVE  Moved(w)
<1> DEFINE h == [at[w] EXCEPT !.step = "end", !.result = kind]
<1>1. at[w] \in HandlerState
  BY DEF HandlerTypeOK
<1>2. h \in HandlerState /\ h.step = "end" /\ h.result = kind
  BY <1>1 DEF HandlerState
<1>3. at' = [at EXCEPT ![w] = h]
  BY DEF Raise
<1> QED BY <1>2, <1>3, PlacedOne

LEMMA GoToMoves ==
  ASSUME HandlerTypeOK, WellPlaced, NEW w \in Worker,
         NEW step \in {"look", "admit", "flight", "skip", "commit", "reserve"}, GoTo(w, step),
         step = "reserve" => at[w].stage \in External
  PROVE  Moved(w)
<1> DEFINE h == [at[w] EXCEPT !.step = step]
<1>1. at[w] \in HandlerState
  BY DEF HandlerTypeOK
<1>2. h \in HandlerState /\ h.step = step /\ h.stage = at[w].stage
  BY <1>1 DEF HandlerState
<1>3. at' = [at EXCEPT ![w] = h]
  BY DEF GoTo
<1> QED BY <1>2, <1>3, PlacedOne

LEMMA OnwardMoves ==
  ASSUME HandlerTypeOK, WellPlaced, NEW w \in Worker, NEW last \in BOOLEAN,
         Onward(w, at[w].stage, last)
  PROVE  Moved(w)
<1> DEFINE n == at[w].stage
           over == [at[w] EXCEPT !.step = "end", !.stage = n, !.result = "COMPLETED"]
           next == [at[w] EXCEPT !.step = "stage", !.stage = n + 1, !.repair = 0]
<1>1. at[w] \in HandlerState /\ n \in 1 .. Stages
  BY DEF HandlerTypeOK, HandlerState
<1>2. CASE last \/ n = Stages
  <2>1. over \in HandlerState /\ over.step = "end" /\ over.result = "COMPLETED"
    BY <1>1 DEF HandlerState, Recorded
  <2>2. at' = [at EXCEPT ![w] = over]
    BY <1>2 DEF Onward
  <2> QED BY <2>1, <2>2, PlacedOne DEF Recorded
<1>3. CASE ~ (last \/ n = Stages)
  <2>1. n + 1 \in 1 .. Stages
    BY <1>1, <1>3, HandlerAssumption
  <2>2. next \in HandlerState /\ next.step = "stage"
    BY <1>1, <2>1 DEF HandlerState
  <2>3. at' = [at EXCEPT ![w] = next]
    BY <1>3 DEF Onward
  <2> QED BY <2>2, <2>3, PlacedOne
<1> QED BY <1>2, <1>3

LEMMA ResolveMoves ==
  ASSUME HandlerTypeOK, WellPlaced, NEW w \in Worker, NEW result \in Recorded,
         Resolve(w, result)
  PROVE  Moved(w)
<1> DEFINE h == [at[w] EXCEPT !.step = "look", !.repair = 1]
<1>1. CASE result = "INVALID_OUTPUT" /\ at[w].repair = 0
  <2>0. at[w] \in HandlerState
    BY DEF HandlerTypeOK
  <2>1. h \in HandlerState /\ h.step = "look"
    BY <2>0 DEF HandlerState
  <2>2. at' = [at EXCEPT ![w] = h]
    BY <1>1 DEF Resolve
  <2> QED BY <2>1, <2>2, PlacedOne
<1>2. CASE ~ (result = "INVALID_OUTPUT" /\ at[w].repair = 0) /\ result = "COMPLETED"
  BY <1>2, GoToMoves DEF Resolve
<1>3. CASE ~ (result = "INVALID_OUTPUT" /\ at[w].repair = 0) /\ result # "COMPLETED"
  BY <1>3, RaiseMoves DEF Resolve
<1> QED BY <1>1, <1>2, <1>3

LEMMA RefusedMoves ==
  ASSUME HandlerTypeOK, WellPlaced, NEW w \in Worker, Refused(w)
  PROVE  Moved(w)
BY RaiseMoves DEF Refused, Recorded

\* A handler that starts, ends or is cut off.
LEMMA ResetMoves ==
  ASSUME HandlerTypeOK, WellPlaced, NEW w \in Worker,
         NEW step \in {"none", "load"}, at' = [at EXCEPT ![w] = [NoHandler EXCEPT !.step = step]]
  PROVE  Moved(w)
<1>1. NoHandler \in HandlerState
  BY HandlerAssumption DEF NoHandler, HandlerState
<1>2. [NoHandler EXCEPT !.step = step] \in HandlerState
  BY <1>1 DEF HandlerState
<1>3. [NoHandler EXCEPT !.step = step].step = step
  BY DEF NoHandler
<1> QED BY <1>2, <1>3, PlacedOne

-----------------------------------------------------------------------------
(* What they do to the tables.                                             *)

LEMMA PutTyped ==
  ASSUME NEW Keys, NEW Rows, NEW table,
         DOMAIN table \subseteq Keys, \A i \in DOMAIN table : table[i] \in Rows,
         NEW id \in Keys, NEW row \in Rows
  PROVE  /\ DOMAIN Put(table, id, row) \subseteq Keys
         /\ \A i \in DOMAIN Put(table, id, row) : Put(table, id, row)[i] \in Rows
BY DEF Put

LEMMA WithoutTyped ==
  ASSUME NEW Keys, NEW Rows, NEW table, NEW ids,
         DOMAIN table \subseteq Keys, \A i \in DOMAIN table : table[i] \in Rows
  PROVE  /\ DOMAIN Without(table, ids) \subseteq Keys
         /\ \A i \in DOMAIN Without(table, ids) : Without(table, ids)[i] \in Rows
BY DEF Without

CallLease == [owner : Worker, ttl : 0 .. ProviderLease]

\* The tables of the calls are typed.
CallsTyped(ls, ad) ==
  /\ DOMAIN ls \subseteq Id /\ \A id \in DOMAIN ls : ls[id] \in CallLease
  /\ DOMAIN ad \subseteq Id /\ \A id \in DOMAIN ad : ad[id] \in Recorded

LEMMA CallsAreTyped == HandlerTypeOK => CallsTyped(lease, audit)
BY DEF HandlerTypeOK, CallsTyped, CallLease, Leased, Audited

\* The call a handler at work makes is a call.
LEMMA AskedIsACall ==
  ASSUME TypeOK, HandlerTypeOK, NEW w \in Worker, pc[w] = "work"
  PROVE  Asked(w) \in Id /\ CallRun(Asked(w)) \in Run
<1>1. held[w] \in Task /\ at[w] \in HandlerState
  BY DEF TypeOK, HandlerTypeOK
<1>2. Asked(w) \in Id
  BY <1>1 DEF Asked, Id, HandlerState
<1>3. CallRun(Asked(w)) = RunOf(held[w])
  BY <1>1 DEF CallRun, Asked
<1> QED BY <1>1, <1>2, <1>3, TaskFacts

LEMMA ReconciliationTyped ==
  ASSUME HandlerTypeOK, NEW r
  PROVE  CallsTyped(ReconciledLease(r), ReconciledAudit(r))
<1>1. Stale(r) \subseteq Leased
  BY DEF Stale, CallsOf
<1>2. DOMAIN ReconciledAudit(r) \subseteq Id
  BY <1>1 DEF ReconciledAudit, HandlerTypeOK
<1>3. \A id \in DOMAIN ReconciledAudit(r) : ReconciledAudit(r)[id] \in Recorded
  BY DEF ReconciledAudit, HandlerTypeOK, Recorded
<1>4. /\ DOMAIN ReconciledLease(r) \subseteq Id
      /\ \A id \in DOMAIN ReconciledLease(r) : ReconciledLease(r)[id] \in CallLease
  BY CallsAreTyped, WithoutTyped DEF CallsTyped, ReconciledLease
<1> QED BY <1>2, <1>3, <1>4 DEF CallsTyped

LEMMA LeaseLength ==
  ASSUME TypeOK, NEW r \in Run
  PROVE  Lower(ProviderLease, run[r].left) \in 0 .. ProviderLease
<1>1. run[r].left \in 0 .. RunTime
  BY DEF TypeOK, RunRow
<1> QED BY <1>1, ConstantsAssumption, HandlerAssumption DEF Lower

-----------------------------------------------------------------------------
(* Every step of the handler keeps the invariant.                          *)

Kept == HandlerTypeOK' /\ WellPlaced'

LEMMA PlaceKept ==
  ASSUME HandlerTypeOK, NEW w \in Worker, Moved(w), UNCHANGED rows
  PROVE  Kept
BY DEF Kept, Moved, HandlerTypeOK, rows, Leased, Audited

LEMMA CheckpointKept ==
  ASSUME HandlerInv, NEW w \in Worker,
         \/ LoadContext(w) \/ LoadStage(w) \/ Reserve(w)
         \/ \E last \in BOOLEAN : CommitStage(w, last)
  PROVE  Kept
<1>0. /\ HandlerTypeOK /\ WellPlaced /\ TypeOK /\ at[w] \in HandlerState
      /\ at[w].stage \in 1 .. Stages /\ at[w].attempt \in Nat
  BY DEF HandlerInv, HandlerTypeOK, HandlerState
<1>1. CASE LoadContext(w)
  <2> DEFINE row == task[held[w]]
             h == [at[w] EXCEPT !.step = "stage", !.owner = row.owner, !.attempt = row.attempts,
                             !.found = reserved[held[w]]]
  <2>1. held[w] \in Task /\ row \in TaskRow
    BY <1>0, <1>1 DEF LoadContext, At, TypeOK
  <2>2. CASE row.owner = NoWorker
    BY <1>0, <1>1, <2>2, RaiseMoves, PlaceKept DEF LoadContext, Recorded
  <2>3. CASE row.owner # NoWorker
    <3>1. h \in HandlerState /\ h.step = "stage"
      BY <1>0, <2>1 DEF HandlerState, TaskRow, HandlerTypeOK
    <3>2. at' = [at EXCEPT ![w] = h]
      BY <1>1, <2>3 DEF LoadContext
    <3> QED BY <1>0, <1>1, <3>1, <3>2, PlacedOne, PlaceKept DEF LoadContext
  <2> QED BY <2>2, <2>3
<1>2. CASE LoadStage(w)
  <2> DEFINE t == held[w]
             n == at[w].stage
  <2>1. t \in Task
    BY <1>0, <1>2 DEF LoadStage, At, TypeOK
  <2>2. CASE Refused(w)
    BY <1>0, <1>2, <2>2, RefusedMoves, PlaceKept DEF LoadStage
  <2>3. CASE Committed(t, n) /\ Onward(w, n, stages[t][n].last)
    <3>1. stages[t] \in Seq([by : Nat, last : BOOLEAN]) /\ n \in 1 .. Len(stages[t])
      BY <1>0, <2>1, <2>3 DEF HandlerTypeOK, Committed
    <3>2. stages[t][n] \in [by : Nat, last : BOOLEAN]
      BY <3>1, ElementOfSeq
    <3>3. stages[t][n].last \in BOOLEAN
      BY <3>2
    <3> QED BY <1>0, <1>2, <2>3, <3>3, OnwardMoves, PlaceKept DEF LoadStage
  <2>4. CASE GoTo(w, IF n \in External THEN "reserve" ELSE "look")
    <3>1. CASE n \in External
      BY <1>0, <1>2, <2>4, <3>1, GoToMoves, PlaceKept DEF LoadStage
    <3>2. CASE n \notin External
      BY <1>0, <1>2, <2>4, <3>2, GoToMoves, PlaceKept DEF LoadStage
    <3> QED BY <3>1, <3>2
  <2> QED BY <1>2, <2>2, <2>3, <2>4 DEF LoadStage
<1>3. CASE Reserve(w)
  <2>1. Moved(w)
    BY <1>0, <1>3, RefusedMoves, RaiseMoves, GoToMoves DEF Reserve, Raised
  <2>2. held[w] \in Task /\ at[w].stage \in External
    BY <1>0, <1>3 DEF Reserve, At, TypeOK, WellPlaced
  <2>3. reserved' \in [Task -> SUBSET External]
    <3>1. reserved \in [Task -> SUBSET External]
      BY <1>0 DEF HandlerTypeOK
    <3>2. \/ reserved' = reserved
          \/ reserved' = [reserved EXCEPT ![held[w]] = @ \union {at[w].stage}]
      BY <1>3 DEF Reserve
    <3> QED BY <2>2, <3>1, <3>2
  <2> QED BY <1>0, <1>3, <2>1, <2>3 DEF Kept, Moved, Reserve, HandlerTypeOK, Leased, Audited
<1>4. ASSUME NEW last \in BOOLEAN, CommitStage(w, last) PROVE Kept
  <2> DEFINE t == held[w]
             n == at[w].stage
             row == [by |-> Author(w), last |-> last]
  <2>1. t \in Task
    BY <1>0, <1>4 DEF CommitStage, At, TypeOK
  <2>2. UNCHANGED <<vars, lease, audit, used, reserved>>
    BY <1>4 DEF CommitStage
  <2>3. CASE Refused(w) /\ UNCHANGED stages
    BY <1>0, <2>2, <2>3, RefusedMoves, PlaceKept DEF rows
  <2>4. CASE Committed(t, n) /\ UNCHANGED stages /\ Writable(w)
    <3>1. stages[t] \in Seq([by : Nat, last : BOOLEAN]) /\ n \in 1 .. Len(stages[t])
      BY <1>0, <2>1, <2>4 DEF HandlerTypeOK, Committed
    <3>2. stages[t][n] \in [by : Nat, last : BOOLEAN]
      BY <3>1, ElementOfSeq
    <3>3. stages[t][n].last \in BOOLEAN
      BY <3>2
    <3>4. CASE Onward(w, n, stages[t][n].last)
      BY <1>0, <2>2, <2>4, <3>3, <3>4, OnwardMoves, PlaceKept DEF rows
    <3>5. CASE Raise(w, "PERMANENT")
      BY <1>0, <2>2, <2>4, <3>5, RaiseMoves, PlaceKept DEF rows, Raised
    <3>6. Onward(w, n, stages[t][n].last) \/ Raise(w, "PERMANENT")
      BY <1>4, <2>4 DEF CommitStage, Refused
    <3> QED BY <3>4, <3>5, <3>6
  <2>5. CASE /\ ~ Committed(t, n)
             /\ stages' = [stages EXCEPT ![t] = Append(@, row)]
             /\ Onward(w, n, last)
    <3>1. Moved(w)
      BY <1>0, <2>5, OnwardMoves
    <3>2. stages[t] \in Seq([by : Nat, last : BOOLEAN]) /\ row \in [by : Nat, last : BOOLEAN]
      BY <1>0, <2>1 DEF HandlerTypeOK, Author
    <3>3. /\ Append(stages[t], row) \in Seq([by : Nat, last : BOOLEAN])
          /\ Len(Append(stages[t], row)) = Len(stages[t]) + 1
      BY <3>2, AppendProperties
    <3>4. Len(stages[t]) + 1 <= Stages
      BY <1>0, <2>5, <3>2, HandlerAssumption DEF Committed
    <3>5. /\ stages' \in [Task -> Seq([by : Nat, last : BOOLEAN])]
          /\ \A u \in Task : Len(stages'[u]) <= Stages
      BY <1>0, <2>1, <2>5, <3>3, <3>4 DEF HandlerTypeOK
    <3> QED BY <1>0, <2>2, <3>1, <3>5 DEF Kept, Moved, HandlerTypeOK, Leased, Audited
  <2> QED BY <1>4, <2>3, <2>4, <2>5 DEF CommitStage
<1> QED BY <1>1, <1>2, <1>3, <1>4

LEMMA LookKept ==
  ASSUME HandlerInv, NEW w \in Worker, Look(w) \/ AdmitForeign(w)
  PROVE  Kept
<1>0. HandlerTypeOK /\ WellPlaced
  BY DEF HandlerInv
<1>1. CASE Look(w)
  <2>1. CASE Asked(w) \in Audited
    <3>1. audit[Asked(w)] \in Recorded
      BY <1>0, <2>1 DEF HandlerTypeOK
    <3> QED BY <1>0, <1>1, <2>1, <3>1, ResolveMoves, PlaceKept DEF Look
  <2>2. CASE Asked(w) \notin Audited
    BY <1>0, <1>1, <2>2, GoToMoves, PlaceKept DEF Look
  <2> QED BY <2>1, <2>2
<1>2. CASE AdmitForeign(w)
  BY <1>0, <1>2, RaiseMoves, PlaceKept DEF AdmitForeign, Raised
<1> QED BY <1>1, <1>2

LEMMA DenialKinds ==
  ASSUME NEW w, NEW id
  PROVE  Denial(w, id) \in Raised \union {"NONE"}
<1> DEFINE r == CallRun(id)
<1> HIDE DEF r
<1>1. Denial(w, id) \in {"INTEGRITY", "DEADLINE_EXCEEDED", "TIMEOUT", "RATE_LIMITED",
                         "BUDGET_EXHAUSTED", "NONE"}
  BY Zenon DEF Denial
<1> QED BY <1>1 DEF Raised

\* A handler moves and the tables of the calls are typed: all the invariant says of a
\* step that leaves the checkpoint alone.
LEMMA CallsKept ==
  ASSUME HandlerTypeOK, NEW w \in Worker, Moved(w), CallsTyped(lease', audit'),
         used' \in [Run -> Nat], UNCHANGED <<vars, stages, reserved>>
  PROVE  Kept
BY DEF Kept, Moved, HandlerTypeOK, CallsTyped, CallLease, Leased, Audited

LEMMA AdmissionKept ==
  ASSUME HandlerInv, NEW w \in Worker, AdmitDenied(w) \/ AdmitGranted(w)
  PROVE  Kept
<1> DEFINE id == Asked(w)
           r == CallRun(id)
<1>0. HandlerTypeOK /\ WellPlaced /\ TypeOK
  BY DEF HandlerInv
<1>1. Admission(w) /\ pc[w] = "work"
  BY DEF AdmitDenied, AdmitGranted, Admission, At
<1>2. id \in Id /\ r \in Run
  BY <1>0, <1>1, AskedIsACall
<1>3. audit' = ReconciledAudit(r) /\ UNCHANGED <<vars, stages, reserved>>
  BY <1>1 DEF Admission
<1>4. CallsTyped(ReconciledLease(r), ReconciledAudit(r))
  BY <1>0, ReconciliationTyped
<1>5. CASE AdmitDenied(w)
  <2>1. CASE id \in Audited
    <3>1. audit[id] \in Recorded
      BY <1>0, <2>1 DEF HandlerTypeOK
    <3>2. Moved(w)
      BY <1>0, <1>5, <2>1, <3>1, ResolveMoves DEF AdmitDenied
    <3> QED BY <1>0, <1>3, <1>4, <1>5, <3>2, CallsKept DEF AdmitDenied, HandlerTypeOK
  <2>2. CASE id \notin Audited
    <3>1. Denial(w, id) \in Raised /\ Raise(w, Denial(w, id))
      BY <1>5, <2>2, DenialKinds DEF AdmitDenied
    <3>2. Moved(w)
      BY <1>0, <3>1, RaiseMoves
    <3> QED BY <1>0, <1>3, <1>4, <1>5, <3>2, CallsKept DEF AdmitDenied, HandlerTypeOK
  <2> QED BY <2>1, <2>2
<1>6. CASE AdmitGranted(w)
  <2> DEFINE row == [owner |-> w, ttl |-> Lower(ProviderLease, run[r].left)]
  <2>1. Moved(w)
    BY <1>0, <1>6, GoToMoves DEF AdmitGranted
  <2>2. row \in CallLease
    BY <1>0, <1>2, LeaseLength DEF CallLease
  <2>3. CallsTyped(lease', audit')
    <3>1. lease' = Put(ReconciledLease(r), id, row)
      BY <1>6 DEF AdmitGranted
    <3>2. /\ DOMAIN lease' \subseteq Id
          /\ \A i \in DOMAIN lease' : lease'[i] \in CallLease
      BY <1>2, <1>4, <2>2, <3>1, PutTyped DEF CallsTyped
    <3> QED BY <1>3, <1>4, <3>2 DEF CallsTyped
  <2>4. used' \in [Run -> Nat]
    BY <1>0, <1>2, <1>6 DEF AdmitGranted, HandlerTypeOK
  <2> QED BY <1>0, <1>3, <2>1, <2>3, <2>4, CallsKept
<1> QED BY <1>5, <1>6

LEMMA FlightKept ==
  ASSUME HandlerInv, NEW w \in Worker,
         \/ \E result \in Recorded : Answer(w, result)
         \/ CallLost(w) \/ RecordLost(w) \/ CallBeats(w) \/ Record(w)
         \/ \E kind \in RaisedKind : HandlerRaises(w, kind)
  PROVE  Kept
<1>0. /\ HandlerTypeOK /\ WellPlaced /\ TypeOK
      /\ at[w] \in HandlerState /\ CallsTyped(lease, audit)
  BY CallsAreTyped DEF HandlerInv, HandlerTypeOK
<1>1. ASSUME NEW result \in Recorded, Answer(w, result) PROVE Kept
  <2> DEFINE h == [at[w] EXCEPT !.step = "answer", !.result = result]
  <2>1. h \in HandlerState /\ h.step = "answer" /\ h.result = result
    BY <1>0 DEF HandlerState
  <2>2. at' = [at EXCEPT ![w] = h]
    BY <1>1 DEF Answer
  <2> QED BY <1>0, <1>1, <2>1, <2>2, PlacedOne, PlaceKept DEF Answer
<1>2. CASE CallLost(w) \/ RecordLost(w)
  BY <1>0, <1>2, RaiseMoves, PlaceKept DEF CallLost, RecordLost, Raised
<1>3. ASSUME NEW kind \in RaisedKind, HandlerRaises(w, kind)
      PROVE  Kept
  BY <1>0, <1>3, RaiseMoves, PlaceKept DEF HandlerRaises, RaisedKind, Raised
<1>4. CASE CallBeats(w)
  <2> DEFINE length == Lower(ProviderLease, run[RunOf(held[w])].left)
  <2>1. held[w] \in Task
    BY <1>0, <1>4 DEF CallBeats, At, TypeOK
  <2>2. length \in 0 .. ProviderLease
    BY <1>0, <2>1, LeaseLength, TaskFacts
  <2>3. /\ DOMAIN lease' = DOMAIN lease
        /\ \A id \in DOMAIN lease' : lease'[id] \in CallLease
    <3>1. \A id \in DOMAIN lease : [lease[id] EXCEPT !.ttl = length] \in CallLease
      BY <1>0, <2>2 DEF CallsTyped, CallLease
    <3>2. lease' = [lease EXCEPT ![Asked(w)] = [lease[Asked(w)] EXCEPT !.ttl = length]]
      BY <1>4 DEF CallBeats
    <3> QED BY <1>0, <3>1, <3>2 DEF CallsTyped
  <2> QED BY <1>0, <1>4, <2>3 DEF Kept, CallBeats, HandlerTypeOK, WellPlaced, CallsTyped,
                                  CallLease, Leased, Audited
<1>5. CASE Record(w)
  <2> DEFINE id == Asked(w)
             result == at[w].result
  <2>1. id \in Id /\ result \in Recorded
    BY <1>0, <1>5, AskedIsACall DEF Record, At, WellPlaced
  <2>2. Moved(w)
    BY <1>0, <1>5, <2>1, ResolveMoves DEF Record
  <2>3. lease' = Without(lease, {id}) /\ audit' = Put(audit, id, result)
    BY <1>5 DEF Record
  <2>4. /\ DOMAIN lease' \subseteq Id /\ \A i \in DOMAIN lease' : lease'[i] \in CallLease
    BY <1>0, <2>3, WithoutTyped DEF CallsTyped
  <2>5. /\ DOMAIN audit' \subseteq Id /\ \A i \in DOMAIN audit' : audit'[i] \in Recorded
    <3>1. DOMAIN audit \subseteq Id /\ \A i \in DOMAIN audit : audit[i] \in Recorded
      BY <1>0 DEF CallsTyped
    <3>2. /\ DOMAIN Put(audit, id, result) \subseteq Id
          /\ \A i \in DOMAIN Put(audit, id, result) : Put(audit, id, result)[i] \in Recorded
      BY ONLY <2>1, <3>1, PutTyped
    <3> QED BY <2>3, <3>2
  <2>6. CallsTyped(lease', audit')
    BY <2>4, <2>5 DEF CallsTyped
  <2> QED BY <1>0, <1>5, <2>2, <2>6, CallsKept DEF Record, HandlerTypeOK
<1> QED BY <1>1, <1>2, <1>3, <1>4, <1>5

-----------------------------------------------------------------------------
(* Every step.                                                             *)

\* The outcome of a handler is one that the queue knows.
LEMMA EndingIsAnOutcome ==
  ASSUME NEW h, h.result \in Recorded \union Raised
  PROVE  Ending(h) \in Success \union Failure
<1>1. CASE h.result = "COMPLETED"
  <2>1. Ending(h) = [kind |-> "NONE", useful |-> h.stage \notin External, warned |-> FALSE]
    BY <1>1 DEF Ending
  <2> QED BY <2>1 DEF Success
<1>2. CASE h.result = "FAILED"
  <2>1. Ending(h) = [NoOutcome EXCEPT !.kind = "PERMANENT"]
    BY <1>2 DEF Ending
  <2> QED BY <2>1, HandlerAssumption DEF Failure, NoOutcome, Raised
<1>3. CASE h.result \notin {"COMPLETED", "FAILED"}
  <2>1. Ending(h) = [NoOutcome EXCEPT !.kind = h.result]
    BY <1>3 DEF Ending
  <2>2. h.result \in Kind
    BY <1>3, HandlerAssumption DEF Recorded, Raised
  <2> QED BY <2>1, <2>2 DEF Failure, NoOutcome
<1> QED BY <1>1, <1>2, <1>3

\* A step of the handlers and the queue is one of the queue.
LEMMA StepOfTheQueue ==
  ASSUME HandlerInv, [HNext]_hvars
  PROVE  [Next]_vars
<1>1. ASSUME NEW r \in Run, NEW rev \in Revision, NEW mode \in Mode, HSchedule(r, rev, mode)
      PROVE  Next
  <2>1. {Root} \in SUBSET Key
    BY ConstantsAssumption
  <2> QED BY <1>1, <2>1 DEF HSchedule, Next
<1>2. ASSUME NEW w \in Worker, HandlerIsOver(w) PROVE Next
  <2>1. at[w].result \in Recorded \union Raised
    BY <1>2 DEF HandlerIsOver, At, HandlerInv, WellPlaced
  <2>2. Ending(at[w]) \in Success \union Failure
    BY <2>1, EndingIsAnOutcome
  <2> QED BY <1>2, <2>2 DEF HandlerIsOver, Next
<1>3. ASSUME NEW w \in Worker, QueueStep(w) \/ HandlerStarts(w) \/ HandlerIsCut(w) PROVE Next
  BY <1>3 DEF QueueStep, HandlerStarts, HandlerIsCut, Next, Claim, Heartbeat
<1>4. ASSUME NEW w \in Worker,
             \/ HandlerStep(w) \/ CallBeats(w)
             \/ \E kind \in RaisedKind : HandlerRaises(w, kind)
      PROVE  UNCHANGED vars
  BY <1>4 DEF HandlerStep, CallBeats, HandlerRaises, LoadContext, LoadStage, Reserve,
              CommitStage, Look, AdmitForeign, AdmitDenied, AdmitGranted, Admission, Answer,
              CallLost, Record, RecordLost
<1>5. HTick => Next
  BY DEF HTick, Next
<1>6. UNCHANGED hvars => UNCHANGED vars
  BY DEF hvars
<1> QED BY <1>1, <1>2, <1>3, <1>4, <1>5, <1>6 DEF HNext

LEMMA HandlerInvInit == HInit => HandlerInv
<1> SUFFICES ASSUME HInit PROVE HandlerInv
  OBVIOUS
<1>1. TypeOK
  BY InitTyped DEF HInit
<1>2. NoHandler \in HandlerState /\ NoHandler.step = "none"
  BY HandlerAssumption DEF NoHandler, HandlerState
<1>3. \A t \in Task : stages[t] = <<>>
  BY DEF HInit
<1>4. HandlerTypeOK
  BY <1>2, <1>3, EmptySeq, HandlerAssumption DEF HInit, HandlerTypeOK, Leased, Audited
<1> QED BY <1>1, <1>2, <1>4 DEF HandlerInv, WellPlaced, HInit

LEMMA HandlerInvKept ==
  ASSUME HandlerInv, [HNext]_hvars
  PROVE  HandlerInv'
<1>0. HandlerTypeOK /\ WellPlaced /\ TypeOK
  BY DEF HandlerInv
<1>1. TypeOK'
  BY <1>0, StepOfTheQueue, TypeKept
<1>2. ASSUME UNCHANGED <<rows, at>> PROVE Kept
  BY <1>0, <1>2 DEF Kept, HandlerTypeOK, WellPlaced, rows, Leased, Audited
<1>3. ASSUME NEW w \in Worker, HandlerStarts(w) \/ HandlerIsOver(w) \/ HandlerIsCut(w) PROVE Kept
  <2>1. NoHandler = [NoHandler EXCEPT !.step = "none"]
    BY DEF NoHandler
  <2>2. Moved(w)
    BY <1>0, <1>3, <2>1, ResetMoves DEF HandlerStarts, HandlerIsOver, HandlerIsCut
  <2> QED BY <1>0, <1>3, <2>2, PlaceKept DEF HandlerStarts, HandlerIsOver, HandlerIsCut
<1>4. ASSUME HTick PROVE Kept
  <2>1. /\ DOMAIN lease' = DOMAIN lease
        /\ \A id \in DOMAIN lease :
             lease'[id] = [lease[id] EXCEPT !.ttl = AtLeast(0, lease[id].ttl - 1)]
    BY <1>4 DEF HTick, Leased
  <2>2. ASSUME NEW id \in DOMAIN lease PROVE lease'[id] \in CallLease
    <3>1. lease[id] \in CallLease
      BY <1>0, CallsAreTyped DEF CallsTyped
    <3>2. lease[id].ttl \in 0 .. ProviderLease
      BY <3>1 DEF CallLease
    <3>3. AtLeast(0, lease[id].ttl - 1) \in 0 .. ProviderLease
      BY <3>2, HandlerAssumption DEF AtLeast
    <3> QED BY <2>1, <3>1, <3>3 DEF CallLease
  <2> QED BY <1>0, <1>4, <2>1, <2>2 DEF Kept, HTick, HandlerTypeOK, WellPlaced, CallLease,
                                         Leased, Audited
<1>5. Kept
  <2>1. UNCHANGED hvars => UNCHANGED <<rows, at>>
    BY DEF hvars
  <2>2. ASSUME NEW w \in Worker, HandlerStep(w) PROVE Kept
    BY <2>2, CheckpointKept, LookKept, AdmissionKept, FlightKept DEF HandlerStep
  <2> QED BY <1>2, <1>3, <1>4, <2>1, <2>2, FlightKept DEF HNext, HSchedule, QueueStep
<1> QED BY <1>1, <1>5 DEF Kept, HandlerInv

LEMMA HandlerInvAlways == HSpec => []HandlerInv
BY HandlerInvInit, HandlerInvKept, PTL DEF HSpec

\* The tables of the calls, the checkpoints and the places of the handlers are always
\* well typed; no provider lease outlasts its duration.
THEOREM HandlerStateTyped == HSpec => []HandlerTypeOK
<1>1. HandlerInv => HandlerTypeOK
  BY DEF HandlerInv
<1> QED BY <1>1, HandlerInvAlways, PTL

\* The queue with the handlers in it implements the queue that knows nothing of them.
THEOREM HandlerImplementsQueue == HSpec => Spec
<1>1. HInit => Init
  BY DEF HInit
<1>2. HandlerInv /\ [HNext]_hvars => [Next]_vars
  BY StepOfTheQueue
<1> QED BY <1>1, <1>2, HandlerInvAlways, PTL DEF HSpec, Spec

\* So what is proved of the queue holds with the handlers in it.
THEOREM QueueTheoremsCarryOver ==
  HSpec => /\ [](OneRunning /\ OneActivePerRevision /\ OwnerIsCurrentAttempt)
           /\ [](LeaseWithinDeadline /\ EndsExactlyWhenSettled)
           /\ EndedRunsFrozen
           /\ OnlyLiveAttemptSettles
           /\ Abstract!ASafety
BY HandlerImplementsQueue, QueueImplementsResearchRuns, OneRunningAlways, OneActiveAlways, OwnerIsCurrentAlways,
   LeaseWithinDeadlineAlways, EndsExactlyAlways, EndedRunsFrozenAlways,
   OnlyLiveAttemptSettlesAlways, PTL

-----------------------------------------------------------------------------
(* Records stay.  A call in flight is not recorded yet, so the audit of    *)
(* its answer, which needs the lease, replaces no record.                  *)

InFlightOrRecorded == Leased \intersect Audited = {}

LEMMA StaleMovesOver ==
  ASSUME InFlightOrRecorded, NEW r
  PROVE  /\ DOMAIN ReconciledLease(r) = Leased \ Stale(r)
         /\ DOMAIN ReconciledAudit(r) = Audited \union Stale(r)
         /\ \A id \in Audited : ReconciledAudit(r)[id] = audit[id]
BY DEF ReconciledLease, ReconciledAudit, Without, Leased

\* What a step does to the tables of the calls: nothing but let time pass, reconcile and
\* perhaps admit, or record.
CallsMove ==
  \/ DOMAIN lease' = Leased /\ audit' = audit
  \/ \E r \in Run : /\ audit' = ReconciledAudit(r)
                    /\ \/ DOMAIN lease' = DOMAIN ReconciledLease(r)
                       \/ \E id \in Id \ Audited : /\ id \notin Stale(r)
                                                   /\ DOMAIN lease' = DOMAIN ReconciledLease(r) \union {id}
  \/ \E id \in Leased, result \in Recorded : /\ audit' = Put(audit, id, result)
                                            /\ lease' = Without(lease, {id})

LEMMA CallsMoveSo ==
  ASSUME HandlerInv, [HNext]_hvars
  PROVE  CallsMove
<1>0. HandlerTypeOK /\ WellPlaced /\ TypeOK
  BY DEF HandlerInv
<1>1. ASSUME NEW w \in Worker, AdmitDenied(w) PROVE CallsMove
  <2>1. CallRun(Asked(w)) \in Run
    BY <1>0, <1>1, AskedIsACall DEF AdmitDenied, Admission, At
  <2> QED BY <1>1, <2>1 DEF AdmitDenied, Admission, CallsMove
<1>2. ASSUME NEW w \in Worker, AdmitGranted(w) PROVE CallsMove
  <2> DEFINE id == Asked(w)
             r == CallRun(id)
  <2>1. id \in Id /\ r \in Run
    BY <1>0, <1>2, AskedIsACall DEF AdmitGranted, Admission, At
  <2>2. /\ audit' = ReconciledAudit(r) /\ id \notin Audited
        /\ DOMAIN lease' = DOMAIN ReconciledLease(r) \union {id}
    BY <1>2 DEF AdmitGranted, Admission, Put
  <2>3. id \notin Stale(r)
    <3>1. Denial(w, id) = "NONE"
      BY <1>2 DEF AdmitGranted
    <3> QED BY <3>1 DEF Denial
  <2> QED BY <2>1, <2>2, <2>3 DEF CallsMove
<1>3. ASSUME NEW w \in Worker, Record(w) PROVE CallsMove
  <2>1. Asked(w) \in Leased /\ at[w].result \in Recorded
    BY <1>0, <1>3 DEF Record, Holds, At, WellPlaced
  <2> QED BY <1>3, <2>1 DEF Record, CallsMove
<1>4. ASSUME DOMAIN lease' = DOMAIN lease, audit' = audit PROVE CallsMove
  BY <1>4 DEF CallsMove, Leased
<1>5. ASSUME NEW w \in Worker, CallBeats(w) PROVE CallsMove
  BY <1>4, <1>5 DEF CallBeats
<1>6. ASSUME HTick PROVE CallsMove
  BY <1>4, <1>6 DEF HTick, Leased
<1>7. ASSUME NEW w \in Worker,
             \/ LoadContext(w) \/ LoadStage(w) \/ Reserve(w)
             \/ \E last \in BOOLEAN : CommitStage(w, last)
             \/ Look(w) \/ AdmitForeign(w) \/ \E result \in Recorded : Answer(w, result)
             \/ CallLost(w) \/ RecordLost(w)
      PROVE  CallsMove
  BY <1>4, <1>7 DEF LoadContext, LoadStage, Reserve, CommitStage, Look, AdmitForeign, Answer,
                    CallLost, RecordLost, rows
<1>8. ASSUME NEW w \in Worker,
             \/ QueueStep(w) \/ HandlerStarts(w) \/ HandlerIsOver(w) \/ HandlerIsCut(w)
             \/ \E kind \in RaisedKind : HandlerRaises(w, kind)
      PROVE  CallsMove
  BY <1>4, <1>8 DEF QueueStep, HandlerStarts, HandlerIsOver, HandlerIsCut, HandlerRaises, rows
<1>9. ASSUME NEW r \in Run, NEW rev \in Revision, NEW mode \in Mode, HSchedule(r, rev, mode)
      PROVE  CallsMove
  BY <1>4, <1>9 DEF HSchedule, rows
<1>10. ASSUME UNCHANGED hvars PROVE CallsMove
  BY <1>4, <1>10 DEF hvars, rows
<1> QED BY <1>1, <1>2, <1>3, <1>5, <1>6, <1>7, <1>8, <1>9, <1>10 DEF HNext, HandlerStep

LEMMA InFlightOrRecordedKept ==
  ASSUME InFlightOrRecorded, CallsMove
  PROVE  /\ InFlightOrRecorded'
         /\ \A id \in Audited : id \in DOMAIN audit' /\ audit'[id] = audit[id]
<1>1. CASE DOMAIN lease' = Leased /\ audit' = audit
  BY <1>1 DEF InFlightOrRecorded, Leased, Audited
<1>2. ASSUME NEW r \in Run, audit' = ReconciledAudit(r),
             \/ DOMAIN lease' = DOMAIN ReconciledLease(r)
             \/ \E id \in Id \ Audited : /\ id \notin Stale(r)
                                         /\ DOMAIN lease' = DOMAIN ReconciledLease(r) \union {id}
      PROVE  /\ InFlightOrRecorded'
             /\ \A id \in Audited : id \in DOMAIN audit' /\ audit'[id] = audit[id]
  <2>1. DOMAIN audit' = Audited \union Stale(r)
    BY <1>2, StaleMovesOver
  <2>2. DOMAIN lease' \intersect DOMAIN audit' = {}
    BY <1>2, <2>1, StaleMovesOver DEF InFlightOrRecorded
  <2> QED BY <1>2, <2>1, <2>2, StaleMovesOver DEF InFlightOrRecorded, Leased, Audited
<1>3. ASSUME NEW id \in Leased, NEW result, audit' = Put(audit, id, result),
             lease' = Without(lease, {id})
      PROVE  /\ InFlightOrRecorded'
             /\ \A i \in Audited : i \in DOMAIN audit' /\ audit'[i] = audit[i]
  <2>1. id \notin Audited
    BY <1>3 DEF InFlightOrRecorded
  <2>2. DOMAIN lease' = Leased \ {id} /\ DOMAIN audit' = Audited \union {id}
    BY <1>3 DEF Without, Put, Leased, Audited
  <2>3. \A i \in Audited : audit'[i] = audit[i]
    BY <1>3, <2>1 DEF Put, Audited
  <2> QED BY <2>2, <2>3 DEF InFlightOrRecorded, Leased, Audited
<1> QED BY <1>1, <1>2, <1>3 DEF CallsMove

LEMMA InFlightOrRecordedAlways == HSpec => []InFlightOrRecorded
<1>1. HInit => InFlightOrRecorded
  BY DEF HInit, InFlightOrRecorded, Leased, Audited
<1>2. HandlerInv /\ InFlightOrRecorded /\ [HNext]_hvars => InFlightOrRecorded'
  BY CallsMoveSo, InFlightOrRecordedKept
<1> QED BY <1>1, <1>2, HandlerInvAlways, PTL DEF HSpec

\* A checkpoint only grows.
LEMMA StagesGrow ==
  ASSUME HandlerInv, [HNext]_hvars, NEW t \in Task
  PROVE  SubSeq(stages'[t], 1, Len(stages[t])) = stages[t]
<1> DEFINE S == [by : Nat, last : BOOLEAN]
<1>1. stages[t] \in Seq(S) /\ stages \in [Task -> Seq(S)]
  BY DEF HandlerInv, HandlerTypeOK
<1>2. CASE stages'[t] = stages[t]
  BY <1>1, <1>2, SubSeqFull
<1>3. ASSUME NEW e \in S, stages'[t] = Append(stages[t], e)
      PROVE  SubSeq(stages'[t], 1, Len(stages[t])) = stages[t]
  <2> HIDE DEF S
  <2> DEFINE s == stages[t]
  <2>1. s \in Seq(S) /\ <<e>> \in Seq(S) /\ Len(s) \in Nat
    BY <1>1, <1>3
  <2>2. Append(s, e) = s \o <<e>>
    BY <1>3, <2>1, AppendIsConcat
  <2>3. CASE Len(s) = 0
    <3>1. s = <<>>
      BY <2>1, <2>3, EmptySeq
    <3>2. SubSeq(stages'[t], 1, 0) = <<>>
      BY SubSeqEmpty
    <3> QED BY <2>3, <3>1, <3>2
  <2>4. CASE Len(s) # 0
    <3>1. 1 \in 1 .. Len(s) /\ Len(s) \in 1 .. Len(s)
      BY <2>1, <2>4
    <3>2. SubSeq(s \o <<e>>, 1, Len(s)) = SubSeq(s, 1, Len(s))
      BY <2>1, <3>1, SubSeqOfConcat1
    <3>3. SubSeq(s, 1, Len(s)) = s
      BY <2>1, SubSeqFull
    <3> QED BY <1>3, <2>2, <3>2, <3>3
  <2> QED BY <2>3, <2>4
<1>4. ASSUME NEW w \in Worker, NEW last \in BOOLEAN, CommitStage(w, last)
      PROVE  stages'[t] = stages[t] \/ \E e \in S : stages'[t] = Append(stages[t], e)
  <2>1. at[w] \in HandlerState
    BY DEF HandlerInv, HandlerTypeOK
  <2>2. [by |-> Author(w), last |-> last] \in S
    BY <2>1 DEF HandlerState, Author
  <2>3. \/ stages' = stages
        \/ stages' = [stages EXCEPT ![held[w]] =
                        Append(@, [by |-> Author(w), last |-> last])]
    BY <1>4 DEF CommitStage
  <2> QED BY <1>1, <2>2, <2>3
<1>5. ASSUME NEW w \in Worker, HandlerStep(w),
             ~ \E last \in BOOLEAN : CommitStage(w, last)
      PROVE  stages' = stages
  BY <1>5 DEF HandlerStep, LoadContext, LoadStage, Reserve, Look, AdmitForeign, AdmitDenied,
              AdmitGranted, Admission, Answer, CallLost, Record, RecordLost, rows
<1>6. ASSUME NEW w \in Worker,
             \/ QueueStep(w) \/ HandlerStarts(w) \/ HandlerIsOver(w) \/ HandlerIsCut(w)
             \/ CallBeats(w)
             \/ \E kind \in RaisedKind : HandlerRaises(w, kind)
      PROVE  stages' = stages
  BY <1>6 DEF QueueStep, HandlerStarts, HandlerIsOver, HandlerIsCut, CallBeats, HandlerRaises,
              rows
<1>7. HTick \/ UNCHANGED hvars => stages' = stages
  BY DEF HTick, hvars, rows
<1>8. ASSUME NEW r \in Run, NEW rev \in Revision, NEW mode \in Mode, HSchedule(r, rev, mode)
      PROVE  stages' = stages
  BY <1>8 DEF HSchedule, rows
<1> QED BY <1>2, <1>3, <1>4, <1>5, <1>6, <1>7, <1>8 DEF HNext, HandlerStep

\* No late answer, second handler or later attempt replaces what is recorded of a call
\* or committed to a checkpoint.
THEOREM RecordsFrozenAlways == HSpec => RecordsFrozen
<1> DEFINE Frozen ==
      /\ \A id \in Audited : id \in DOMAIN audit' /\ audit'[id] = audit[id]
      /\ \A t \in Task : SubSeq(stages'[t], 1, Len(stages[t])) = stages[t]
<1>1. HandlerInv /\ InFlightOrRecorded /\ [HNext]_hvars => [Frozen]_hvars
  BY CallsMoveSo, InFlightOrRecordedKept, StagesGrow
<1> QED BY <1>1, HandlerInvAlways, InFlightOrRecordedAlways, PTL DEF HSpec, RecordsFrozen
-----------------------------------------------------------------------------
(* One collector. Whoever collects for a stage has reserved it, and nobody *)
(* reserves what is reserved; a reservation is never taken back.           *)

Collects(w) == At(w, "commit") /\ at[w].stage \in External

Reserving ==
  \A w \in Worker : Collects(w) => at[w].stage \in reserved[held[w]]

\* No call of the provider is made for an external stage.
AsksForItself ==
  \A w \in Worker :
    at[w].step \in {"look", "admit", "flight", "answer"} => at[w].stage \notin External

CollectorInv == OneCollector /\ Reserving /\ AsksForItself

\* Nothing about w has changed.
Stands(w) == at'[w] = at[w] /\ pc'[w] = pc[w] /\ held'[w] = held[w]

\* w has just reserved its stage.
Reserves(w) ==
  /\ at[w].stage \notin reserved[held[w]]
  /\ reserved' = [reserved EXCEPT ![held[w]] = @ \union {at[w].stage}]
  /\ at'[w].stage = at[w].stage /\ held'[w] = held[w]
  /\ \A v \in Worker \ {w} : Stands(v)

\* What a step may do to the collectors.
CollectorsMove ==
  /\ AsksForItself'
  /\ \A w \in Worker : Collects(w)' => \/ Collects(w) /\ Stands(w)
                                       \/ Reserves(w)
  /\ \/ reserved' = reserved
     \/ \E w \in Worker : Reserves(w)

\* A handler moves on its own, and collects no more than it did.
LEMMA MovesOn ==
  ASSUME HandlerInv, CollectorInv, NEW w \in Worker,
         UNCHANGED <<pc, held, reserved>>,
         \A v \in Worker \ {w} : at'[v] = at[v],
         at'[w].step \in {"look", "admit", "flight", "answer"} => at'[w].stage \notin External,
         at'[w].step = "commit" => at'[w].stage \notin External
  PROVE  CollectorsMove
BY DEF CollectorInv, AsksForItself, CollectorsMove, Stands, Collects, At

LEMMA RaiseMovesOn ==
  ASSUME HandlerInv, NEW w \in Worker, NEW kind, Raise(w, kind)
  PROVE  at'[w].step = "end" /\ \A v \in Worker \ {w} : at'[v] = at[v]
BY DEF Raise, HandlerInv, HandlerTypeOK, HandlerState

LEMMA GoToMovesOn ==
  ASSUME HandlerInv, NEW w \in Worker, NEW step, GoTo(w, step)
  PROVE  /\ at'[w].step = step /\ at'[w].stage = at[w].stage
         /\ \A v \in Worker \ {w} : at'[v] = at[v]
BY DEF GoTo, HandlerInv, HandlerTypeOK, HandlerState

LEMMA OnwardMovesOn ==
  ASSUME HandlerInv, NEW w \in Worker, NEW n, NEW last, Onward(w, n, last)
  PROVE  at'[w].step \in {"end", "stage"} /\ \A v \in Worker \ {w} : at'[v] = at[v]
BY DEF Onward, HandlerInv, HandlerTypeOK, HandlerState

LEMMA ResolveMovesOn ==
  ASSUME HandlerInv, NEW w \in Worker, NEW result, Resolve(w, result)
  PROVE  /\ at'[w].step \in {"look", "commit", "end"}
         /\ at'[w].stage = at[w].stage
         /\ \A v \in Worker \ {w} : at'[v] = at[v]
BY DEF Resolve, GoTo, Raise, HandlerInv, HandlerTypeOK, HandlerState

LEMMA CheckpointMovesOn ==
  ASSUME HandlerInv, CollectorInv, NEW w \in Worker,
         \/ LoadContext(w) \/ LoadStage(w) \/ Reserve(w)
         \/ \E last \in BOOLEAN : CommitStage(w, last)
  PROVE  CollectorsMove
<1>1. CASE LoadContext(w)
  <2>1. at'[w].step \in {"end", "stage"} /\ \A v \in Worker \ {w} : at'[v] = at[v]
    BY <1>1 DEF LoadContext, Raise, HandlerInv, HandlerTypeOK, HandlerState
  <2> QED BY <1>1, <2>1, MovesOn DEF LoadContext, vars, locals, rows
<1>2. CASE LoadStage(w)
  <2>1. /\ at'[w].step \in {"end", "stage", "reserve", "look"}
        /\ at'[w].step = "look" => at'[w].stage \notin External
        /\ \A v \in Worker \ {w} : at'[v] = at[v]
    BY <1>2, RaiseMovesOn, GoToMovesOn, OnwardMovesOn DEF LoadStage, Refused
  <2> QED BY <1>2, <2>1, MovesOn DEF LoadStage, vars, locals, rows
<1>3. CASE Reserve(w)
  <2>0. UNCHANGED <<pc, held>> /\ pc[w] = "work" /\ held[w] \in Task
    BY <1>3 DEF Reserve, vars, locals, At, HandlerInv, TypeOK
  <2>1. CASE UNCHANGED reserved /\ (Refused(w) \/ GoTo(w, "skip") \/ Raise(w, "INTEGRITY"))
    <3>1. at'[w].step \in {"end", "skip"} /\ \A v \in Worker \ {w} : at'[v] = at[v]
      BY <2>1, RaiseMovesOn, GoToMovesOn DEF Refused
    <3> QED BY <2>0, <2>1, <3>1, MovesOn
  <2>2. CASE /\ at[w].stage \notin reserved[held[w]] /\ GoTo(w, "commit")
             /\ reserved' = [reserved EXCEPT ![held[w]] = @ \union {at[w].stage}]
    <3>1. Reserves(w)
      BY <2>0, <2>2, GoToMovesOn DEF Reserves, Stands
    <3>2. AsksForItself'
      BY <2>2, GoToMovesOn DEF CollectorInv, AsksForItself
    <3>3. \A v \in Worker : Collects(v)' => \/ Collects(v) /\ Stands(v)
                                            \/ Reserves(v)
      BY <3>1 DEF Reserves, Stands, Collects, At
    <3> QED BY <3>1, <3>2, <3>3 DEF CollectorsMove
  <2> QED BY <1>3, <2>1, <2>2 DEF Reserve
<1>4. ASSUME NEW last \in BOOLEAN, CommitStage(w, last) PROVE CollectorsMove
  <2>1. at'[w].step \in {"end", "stage"} /\ \A v \in Worker \ {w} : at'[v] = at[v]
    BY <1>4, RaiseMovesOn, OnwardMovesOn DEF CommitStage, Refused
  <2> QED BY <1>4, <2>1, MovesOn DEF CommitStage, vars, locals
<1> QED BY <1>1, <1>2, <1>3, <1>4

LEMMA CallMovesOn ==
  ASSUME HandlerInv, CollectorInv, NEW w \in Worker,
         \/ Look(w) \/ AdmitForeign(w) \/ AdmitDenied(w) \/ AdmitGranted(w)
         \/ \E result \in Recorded : Answer(w, result)
         \/ CallLost(w) \/ Record(w) \/ RecordLost(w)
  PROVE  CollectorsMove
<1>1. UNCHANGED <<pc, held, reserved>>
  BY DEF Look, AdmitForeign, AdmitDenied, AdmitGranted, Admission, Answer, CallLost, Record,
         RecordLost, vars, locals, rows
<1>2. at[w].stage \notin External
  BY DEF Look, AdmitForeign, AdmitDenied, AdmitGranted, Admission, Answer, CallLost, Record,
         RecordLost, At, CollectorInv, AsksForItself
<1>3. /\ at'[w].stage = at[w].stage \/ at'[w].step = "end"
      /\ \A v \in Worker \ {w} : at'[v] = at[v]
  <2>1. CASE Look(w)
    BY <2>1, ResolveMovesOn, GoToMovesOn DEF Look
  <2>2. CASE AdmitForeign(w) \/ CallLost(w) \/ RecordLost(w)
    BY <2>2, RaiseMovesOn DEF AdmitForeign, CallLost, RecordLost
  <2>3. CASE AdmitDenied(w)
    BY <2>3, ResolveMovesOn, RaiseMovesOn DEF AdmitDenied
  <2>4. CASE AdmitGranted(w)
    BY <2>4, GoToMovesOn DEF AdmitGranted
  <2>5. ASSUME NEW result \in Recorded, Answer(w, result)
        PROVE  at'[w].stage = at[w].stage /\ \A v \in Worker \ {w} : at'[v] = at[v]
    BY <2>5 DEF Answer, HandlerInv, HandlerTypeOK, HandlerState
  <2>6. CASE Record(w)
    BY <2>6, ResolveMovesOn DEF Record
  <2> QED BY <2>1, <2>2, <2>3, <2>4, <2>5, <2>6
<1> QED BY <1>1, <1>2, <1>3, MovesOn

\* A worker leaves its handler, or starts one.
LEMMA ResetMovesOn ==
  ASSUME HandlerInv, CollectorInv, NEW w \in Worker,
         HandlerStarts(w) \/ HandlerIsOver(w) \/ HandlerIsCut(w)
  PROVE  CollectorsMove
<1>1. at'[w].step \in {"none", "load"} /\ \A v \in Worker \ {w} : at'[v] = at[v]
  BY DEF HandlerStarts, HandlerIsOver, HandlerIsCut, NoHandler, HandlerInv, HandlerTypeOK
<1>2. UNCHANGED reserved
  BY DEF HandlerStarts, HandlerIsOver, HandlerIsCut, rows
<1>3. \A v \in Worker \ {w} : Stands(v)
  BY <1>1 DEF HandlerStarts, HandlerIsOver, HandlerIsCut, ClaimLock, HandlerEnds,
     HeartbeatOverdue, HeartbeatLost, Crash, Forget, Stands, HandlerInv, TypeOK
<1> QED BY <1>1, <1>2, <1>3 DEF CollectorsMove, CollectorInv, AsksForItself, Stands, Collects, At

\* The queue, without the handlers, leaves those at work alone.
LEMMA QueueMovesOn ==
  ASSUME HandlerInv, CollectorInv, NEW w \in Worker, QueueStep(w)
  PROVE  CollectorsMove
<1>1. UNCHANGED <<at, reserved>>
  BY DEF QueueStep, rows
<1>2. ASSUME NEW v \in Worker, pc'[v] = "work" PROVE pc[v] = "work" /\ held'[v] = held[v]
  <2>1. pc \in [Worker -> Place] /\ held \in [Worker -> Task \union {NoTask}]
    BY DEF HandlerInv, TypeOK
  <2> QED BY <1>2, <2>1 DEF QueueStep, Poll, Admit, AdmitElsewhere, ClaimSelect, ClaimNothing,
     ClaimRaced, HeartbeatRenews, Settle, ReportSuccess, ReportFailure, Report, ReportOverdue,
     ReportLost, Restart, Forget, locals
<1> QED BY <1>1, <1>2 DEF CollectorsMove, CollectorInv, AsksForItself, Stands, Collects, At

LEMMA CollectorsMoveSo ==
  ASSUME HandlerInv, CollectorInv, [HNext]_hvars
  PROVE  CollectorsMove
<1>1. ASSUME UNCHANGED <<pc, held, reserved, at>> PROVE CollectorsMove
  BY <1>1 DEF CollectorsMove, CollectorInv, AsksForItself, Stands, Collects, At
<1>2. ASSUME NEW w \in Worker, HandlerStep(w) PROVE CollectorsMove
  BY <1>2, CheckpointMovesOn, CallMovesOn DEF HandlerStep
<1>3. ASSUME NEW w \in Worker, CallBeats(w) PROVE CollectorsMove
  BY <1>1, <1>3 DEF CallBeats, vars, locals
<1>4. ASSUME NEW w \in Worker, NEW kind, HandlerRaises(w, kind) PROVE CollectorsMove
  BY <1>4, RaiseMovesOn, MovesOn DEF HandlerRaises, vars, locals, rows
<1>5. ASSUME NEW r \in Run, NEW rev \in Revision, NEW mode \in Mode, HSchedule(r, rev, mode)
      PROVE  CollectorsMove
  BY <1>1, <1>5 DEF HSchedule, Schedule, locals, rows
<1>6. HTick => CollectorsMove
  BY <1>1 DEF HTick, Tick
<1>7. UNCHANGED hvars => CollectorsMove
  BY <1>1 DEF hvars, vars, locals, rows
<1> QED BY <1>2, <1>3, <1>4, <1>5, <1>6, <1>7, ResetMovesOn, QueueMovesOn DEF HNext

LEMMA CollectorInvKept ==
  ASSUME HandlerInv, HandlerInv', CollectorInv, CollectorsMove
  PROVE  CollectorInv'
<1>1. ASSUME NEW w \in Worker, Collects(w)' PROVE held[w] \in Task /\ held'[w] \in Task
  <2>1. pc'[w] = "work" /\ held'[w] \in Task
    BY <1>1 DEF Collects, At, HandlerInv, TypeOK
  <2> QED BY <1>1, <2>1 DEF CollectorsMove, Stands, Reserves
<1>2. reserved \in [Task -> SUBSET External]
  BY DEF HandlerInv, HandlerTypeOK
<1>3. \A t \in Task : reserved[t] \subseteq reserved'[t]
  BY <1>2 DEF CollectorsMove, Reserves
<1>4. Reserving'
  <2> SUFFICES ASSUME NEW w \in Worker, Collects(w)' PROVE (at[w].stage \in reserved[held[w]])'
    BY DEF Reserving
  <2>1. CASE Collects(w) /\ Stands(w)
    BY <1>1, <1>3, <2>1 DEF CollectorInv, Reserving, Stands
  <2>2. CASE Reserves(w)
    BY <1>1, <1>2, <2>2 DEF Reserves
  <2> QED BY <2>1, <2>2 DEF CollectorsMove
<1>5. OneCollector'
  <2> SUFFICES ASSUME NEW v \in Worker, NEW w \in Worker, v # w, held'[v] = held'[w],
                      at'[v].stage = at'[w].stage, Collects(v)', Collects(w)'
               PROVE  FALSE
    BY DEF OneCollector, Collects, At
  <2>1. CASE Collects(v) /\ Stands(v) /\ Collects(w) /\ Stands(w)
    BY <2>1 DEF CollectorInv, OneCollector, Collects, Stands
  <2>2. ASSUME NEW x \in Worker, NEW y \in Worker, x # y, held'[x] = held'[y],
               at'[x].stage = at'[y].stage, Collects(x)', Collects(y)', Reserves(x)
        PROVE  FALSE
    <3>1. Stands(y)
      BY <2>2 DEF Reserves
    <3>2. Collects(y)
      BY <2>2, <3>1 DEF Collects, At, Stands
    <3>3. at[y].stage \in reserved[held[y]]
      BY <3>2 DEF CollectorInv, Reserving
    <3> QED BY <2>2, <3>1, <3>3 DEF Reserves, Stands
  <2> QED BY <2>1, <2>2 DEF CollectorsMove
<1> QED BY <1>4, <1>5 DEF CollectorInv, CollectorsMove

LEMMA CollectorInvAlways == HSpec => []CollectorInv
<1>1. HInit => CollectorInv
  BY DEF HInit, CollectorInv, OneCollector, Reserving, AsksForItself, Collects, At, NoHandler
<1>2. HandlerInv /\ CollectorInv /\ [HNext]_hvars => CollectorInv'
  BY HandlerInvKept, CollectorsMoveSo, CollectorInvKept
<1> QED BY <1>1, <1>2, HandlerInvAlways, PTL DEF HSpec

\* No two handlers ask the sources for the same stage, in any number of runs, workers
\* and stages, whoever has lost its task or taken over a name.
THEOREM OneCollectorAlways == HSpec => []OneCollector
<1>1. CollectorInv => OneCollector
  BY DEF CollectorInv
<1> QED BY <1>1, CollectorInvAlways, PTL

-----------------------------------------------------------------------------
(* The ledger of the calls. Only the admission makes a call, and counts it *)
(* in the same transaction; all else moves calls from the leases to the    *)
(* audit, where they count for the run as well.                            *)

Calls == Leased \union Audited

LedgerInv == CallLedger /\ IsFiniteSet(Calls)

\* The call id is let in by w.
LetIn(w, id) ==
  LET r == CallRun(id) IN
    /\ id \in Id \ Calls /\ r \in Run
    /\ Calls' = Calls \union {id}
    /\ CallsOf(Leased', r) = ActiveCalls(w, r) \union {id}
    /\ \A q \in Run \ {r} : CallsOf(Leased', q) \subseteq CallsOf(Leased, q)
    /\ used' = [used EXCEPT ![r] = @ + 1]
    /\ Affordable(r) /\ ~ (Cardinality(ActiveCalls(w, r)) >= MaxParallel)

\* What a step does to the ledger.
LedgerMove ==
  \/ Calls' = Calls /\ Leased' \subseteq Leased /\ used' = used
  \/ \E w \in Worker, id \in Id : LetIn(w, id)

LEMMA StaleMoves ==
  ASSUME InFlightOrRecorded, NEW r
  PROVE  /\ DOMAIN ReconciledLease(r) \subseteq Leased
         /\ DOMAIN ReconciledLease(r) \union DOMAIN ReconciledAudit(r) = Calls
BY StaleMovesOver DEF Calls, Stale, CallsOf

LEMMA GrantMoves ==
  ASSUME HandlerInv, InFlightOrRecorded, NEW w \in Worker, AdmitGranted(w)
  PROVE  LetIn(w, Asked(w))
<1> DEFINE id == Asked(w)
           r == CallRun(id)
<1>1. id \in Id /\ r \in Run
  BY AskedIsACall DEF AdmitGranted, Admission, At, HandlerInv
<1>2. /\ audit' = ReconciledAudit(r) /\ id \notin Audited
      /\ DOMAIN lease' = DOMAIN ReconciledLease(r) \union {id}
      /\ used' = [used EXCEPT ![r] = @ + 1]
  BY DEF AdmitGranted, Admission, Put
<1>3. Denial(w, id) = "NONE"
  BY DEF AdmitGranted
<1>4. /\ id \notin Leased /\ Affordable(r)
      /\ ~ (Cardinality(ActiveCalls(w, r)) >= MaxParallel)
  BY <1>3 DEF Denial
<1>5. CallsOf(Leased', r) = ActiveCalls(w, r) \union {id}
  <2>1. CallsOf(Leased', r) = CallsOf(Leased \ Stale(r), r) \union {id}
    BY <1>2, StaleMovesOver DEF Leased, CallsOf
  <2>2. \A i \in Leased : lease[i].ttl \in Int
    BY DEF HandlerInv, HandlerTypeOK
  <2>3. CallsOf(Leased \ Stale(r), r) = ActiveCalls(w, r)
    BY <2>2 DEF CallsOf, Stale, ActiveCalls
  <2> QED BY <2>1, <2>3
<1>6. ASSUME NEW q \in Run \ {r} PROVE CallsOf(Leased', q) \subseteq CallsOf(Leased, q)
  BY <1>2, StaleMovesOver DEF Leased, CallsOf
<1>7. Calls' = Calls \union {id}
  BY <1>2, StaleMovesOver DEF Calls, Leased, Audited, Stale, CallsOf
<1> QED BY <1>1, <1>2, <1>4, <1>5, <1>6, <1>7 DEF LetIn, Calls

LEMMA LedgerMoves ==
  ASSUME HandlerInv, InFlightOrRecorded, [HNext]_hvars
  PROVE  LedgerMove
<1>1. ASSUME DOMAIN lease' = DOMAIN lease, audit' = audit, used' = used PROVE LedgerMove
  BY <1>1 DEF LedgerMove, Calls, Leased, Audited
<1>2. ASSUME NEW w \in Worker, AdmitDenied(w) PROVE LedgerMove
  BY <1>2, StaleMoves DEF AdmitDenied, Admission, LedgerMove, Calls, Leased, Audited
<1>3. ASSUME NEW w \in Worker, AdmitGranted(w) PROVE LedgerMove
  <2>1. Asked(w) \in Id /\ LetIn(w, Asked(w))
    BY <1>3, GrantMoves DEF LetIn
  <2> QED BY <2>1 DEF LedgerMove
<1>4. ASSUME NEW w \in Worker, Record(w) PROVE LedgerMove
  BY <1>4 DEF Record, Holds, Put, Without, LedgerMove, Calls, Leased, Audited
<1>5. ASSUME NEW w \in Worker, CallBeats(w) PROVE LedgerMove
  BY <1>1, <1>5 DEF CallBeats
<1>6. HTick => LedgerMove
  BY <1>1 DEF HTick, Leased
<1>7. ASSUME NEW w \in Worker,
             \/ LoadContext(w) \/ LoadStage(w) \/ Reserve(w)
             \/ \E last \in BOOLEAN : CommitStage(w, last)
             \/ Look(w) \/ AdmitForeign(w) \/ \E result \in Recorded : Answer(w, result)
             \/ CallLost(w) \/ RecordLost(w)
      PROVE  LedgerMove
  BY <1>1, <1>7 DEF LoadContext, LoadStage, Reserve, CommitStage, Look, AdmitForeign, Answer,
                    CallLost, RecordLost, rows
<1>8. ASSUME NEW w \in Worker,
             \/ QueueStep(w) \/ HandlerStarts(w) \/ HandlerIsOver(w) \/ HandlerIsCut(w)
             \/ \E kind \in RaisedKind : HandlerRaises(w, kind)
      PROVE  LedgerMove
  BY <1>1, <1>8 DEF QueueStep, HandlerStarts, HandlerIsOver, HandlerIsCut, HandlerRaises, rows
<1>9. ASSUME NEW r \in Run, NEW rev \in Revision, NEW mode \in Mode, HSchedule(r, rev, mode)
      PROVE  LedgerMove
  BY <1>1, <1>9 DEF HSchedule, rows
<1>10. UNCHANGED hvars => LedgerMove
  BY <1>1 DEF hvars, rows
<1> QED BY <1>2, <1>3, <1>4, <1>5, <1>6, <1>7, <1>8, <1>9, <1>10 DEF HNext, HandlerStep

LEMMA LedgerKept ==
  ASSUME HandlerInv, LedgerInv, LedgerMove, InFlightOrRecorded'
  PROVE  LedgerInv'
<1>0. /\ IsFiniteSet(Calls) /\ used \in [Run -> Nat] /\ MaxParallel \in Nat /\ MaxCalls \in Nat
      /\ \A r \in Run : /\ used[r] = Cardinality(CallsOf(Calls, r)) /\ used[r] <= MaxCalls
                        /\ Cardinality(CallsOf(Leased, r)) <= MaxParallel
  <2>1. IsFiniteSet(Calls) /\ CallLedger
    BY DEF LedgerInv
  <2>2. used \in [Run -> Nat] /\ MaxParallel \in Nat /\ MaxCalls \in Nat
    BY HandlerAssumption DEF HandlerInv, HandlerTypeOK
  <2> QED BY <2>1, <2>2, Zenon DEF CallLedger, Calls
<1>1. \A r : IsFiniteSet(CallsOf(Calls, r)) /\ IsFiniteSet(CallsOf(Leased, r))
  BY <1>0, FS_Subset DEF Calls, CallsOf
<1>2. CASE Calls' = Calls /\ Leased' \subseteq Leased /\ used' = used
  <2>1. ASSUME NEW r \in Run
        PROVE  Cardinality(CallsOf(Leased', r)) <= MaxParallel
    <3>1. CallsOf(Leased', r) \subseteq CallsOf(Leased, r)
      BY <1>2 DEF CallsOf
    <3>2. IsFiniteSet(CallsOf(Leased', r))
          /\ Cardinality(CallsOf(Leased', r)) <= Cardinality(CallsOf(Leased, r))
      BY <1>1, <3>1, FS_Subset
    <3> QED BY <1>0, <1>1, <3>2, FS_CardinalityType
  <2>2. \A r \in Run : /\ used'[r] = Cardinality(CallsOf(Calls', r)) /\ used'[r] <= MaxCalls
                       /\ Cardinality(CallsOf(Leased', r)) <= MaxParallel
    BY <1>0, <1>2, <2>1
  <2> QED BY <1>0, <1>2, <2>2 DEF LedgerInv, CallLedger, InFlightOrRecorded, Calls, CallsOf
<1>3. ASSUME NEW w \in Worker, NEW id \in Id, LetIn(w, id) PROVE LedgerInv'
  <2> DEFINE r == CallRun(id)
  <2>0. /\ r \in Run /\ id \notin Calls /\ Calls' = Calls \union {id}
        /\ CallsOf(Leased', r) = ActiveCalls(w, r) \union {id}
        /\ used' = [used EXCEPT ![r] = @ + 1]
        /\ used[r] + 1 <= MaxCalls /\ ~ (Cardinality(ActiveCalls(w, r)) >= MaxParallel)
    BY <1>3 DEF LetIn, Affordable
  <2>1. CallsOf(Calls', r) = CallsOf(Calls, r) \union {id} /\ id \notin CallsOf(Calls, r)
    BY <2>0 DEF CallsOf
  <2>2. Cardinality(CallsOf(Calls', r)) = Cardinality(CallsOf(Calls, r)) + 1
    BY <1>1, <2>1, FS_AddElement
  <2>3. Cardinality(CallsOf(Leased', r)) <= MaxParallel
    <3>1. ActiveCalls(w, r) \subseteq CallsOf(Leased, r) /\ id \notin ActiveCalls(w, r)
      BY <2>0 DEF ActiveCalls, CallsOf, Calls
    <3>2. IsFiniteSet(ActiveCalls(w, r)) /\ Cardinality(ActiveCalls(w, r)) \in Nat
      BY <1>1, <3>1, FS_Subset, FS_CardinalityType
    <3>3. Cardinality(CallsOf(Leased', r)) = Cardinality(ActiveCalls(w, r)) + 1
      BY <2>0, <3>1, <3>2, FS_AddElement
    <3> QED BY <1>0, <2>0, <3>2, <3>3
  <2>4. ASSUME NEW q \in Run, q # r
        PROVE  /\ used'[q] = Cardinality(CallsOf(Calls', q)) /\ used'[q] <= MaxCalls
               /\ Cardinality(CallsOf(Leased', q)) <= MaxParallel
    <3>1. CallsOf(Calls', q) = CallsOf(Calls, q)
      BY <2>0, <2>4 DEF CallsOf
    <3>2. CallsOf(Leased', q) \subseteq CallsOf(Leased, q)
      BY <1>3, <2>4 DEF LetIn
    <3>3. IsFiniteSet(CallsOf(Leased', q))
          /\ Cardinality(CallsOf(Leased', q)) <= Cardinality(CallsOf(Leased, q))
      BY <1>1, <3>2, FS_Subset
    <3>4. Cardinality(CallsOf(Leased', q)) <= MaxParallel
      BY <1>0, <1>1, <3>3, FS_CardinalityType
    <3> QED BY <1>0, <2>0, <2>4, <3>1, <3>4
  <2>5. used'[r] = Cardinality(CallsOf(Calls', r)) /\ used'[r] <= MaxCalls
    BY <1>0, <2>0, <2>2
  <2>6. IsFiniteSet(Calls')
    BY <1>0, <2>0, FS_AddElement
  <2> QED BY <2>3, <2>4, <2>5, <2>6 DEF LedgerInv, CallLedger, InFlightOrRecorded, Calls, CallsOf
<1> QED BY <1>2, <1>3 DEF LedgerMove

\* Every unit of the budget of the calls belongs to one call, and the limits of all calls
\* and of those in flight hold, for any number of workers, runs, stages and crashes.
THEOREM CallLedgerAlways == HSpec => []CallLedger
<1>1. HInit => LedgerInv
  <2> SUFFICES ASSUME HInit PROVE LedgerInv
    OBVIOUS
  <2>1. Leased = {} /\ Audited = {} /\ used = [r \in Run |-> 0]
    BY DEF HInit, Leased, Audited
  <2>2. \A r : CallsOf(Leased, r) = {} /\ CallsOf(Calls, r) = {}
    BY <2>1 DEF CallsOf, Calls
  <2>3. IsFiniteSet(Calls) /\ Cardinality({}) = 0
    BY <2>1, FS_EmptySet DEF Calls
  <2> QED BY <2>1, <2>2, <2>3, HandlerAssumption DEF LedgerInv, CallLedger, Calls
<1>2. HandlerInv /\ LedgerInv /\ [HNext]_hvars => LedgerInv'
  <2> SUFFICES ASSUME HandlerInv, LedgerInv, [HNext]_hvars PROVE LedgerInv'
    OBVIOUS
  <2>1. InFlightOrRecorded
    BY DEF LedgerInv, CallLedger, InFlightOrRecorded
  <2>2. InFlightOrRecorded'
    BY <2>1, CallsMoveSo, InFlightOrRecordedKept
  <2> QED BY <2>1, <2>2, LedgerMoves, LedgerKept
<1>3. LedgerInv => CallLedger
  BY DEF LedgerInv
<1> QED BY <1>1, <1>2, <1>3, HandlerInvAlways, PTL DEF HSpec

-----------------------------------------------------------------------------
(* Logins. A PermissionError of the checkpoint and a provider that asks    *)
(* for a login end the handler alike. But the first is raised only by a    *)
(* worker that has lost its task, which never gets it back while it holds  *)
(* on to it, so that its report is refused.                                *)

\* A worker that may not go on with its task may not do so later.
LEMMA LostForGood ==
  ASSUME TypeOK, BegunBeforeLease, [Next]_vars, NEW w \in Worker,
         pc[w] \in {"work", "report"}, held'[w] = held[w]
  PROVE  /\ Leases(w, held[w])' => Leases(w, held[w])
         /\ Current(w, held[w])' => Current(w, held[w])
<1> DEFINE t == held[w]
           r == RunOf(t)
<1>0. /\ t \in Task /\ r \in Run /\ task[t] \in TaskRow /\ run[r] \in RunRow
      /\ task[t].ttl \in Int /\ run[r].left \in Int
  <2>1. t \in Task
    BY DEF TypeOK
  <2>2. r \in Run /\ task[t] \in TaskRow /\ run[r] \in RunRow
    BY <2>1, TaskFacts DEF TypeOK
  <2> QED BY <2>1, <2>2 DEF TaskRow, RunRow
<1> SUFFICES ASSUME task'[t].status = "LEASED", task'[t].owner = w
             PROVE  /\ Leases(w, t)
                    /\ run'[r].status = "RUNNING" /\ run'[r].left > 0 /\ task'[t].ttl > 0
                          => Current(w, t)
  BY DEF Leases, Current
<1>1. ASSUME task[t].status = "LEASED", run'[r].status = "RUNNING", run'[r].left > 0
      PROVE  run[r].status = "RUNNING" /\ run[r].left > 0
  <2>1. run[r].status = "RUNNING"
    BY <1>0, <1>1, RunMoves DEF BegunBeforeLease, Begun, Ended
  <2>2. CASE run'[r].left = run[r].left
    BY <1>1, <2>1, <2>2
  <2>3. CASE Tick
    <3>1. run'[r].left = AtLeast(0, run[r].left - 1)
      BY <1>0, <2>3 DEF Tick, RunRow
    <3> QED BY <1>0, <1>1, <2>1, <3>1 DEF AtLeast
  <2> QED BY <1>0, <1>1, <2>1, <2>2, <2>3, DeadlineStays
<1>2. CASE task[t].status = "LEASED" /\ task'[t] = task[t]
  BY <1>1, <1>2 DEF Leases, Current
<1>3. CASE task[t].status = "LEASED" /\ Tick
  <2>1. task'[t].owner = task[t].owner
    BY <1>0, <1>3, TickKeeps
  <2>2. task'[t].ttl = AtLeast(-1, task[t].ttl - 1)
    BY <1>0, <1>3 DEF Tick, TaskRow
  <2>3. task'[t].ttl > 0 => task[t].ttl > 0
    BY <1>0, <2>2 DEF AtLeast
  <2> QED BY <1>1, <1>3, <2>1, <2>3 DEF Leases, Current
<1>4. ASSUME NEW v \in Worker, HeartbeatRenews(v), held[v] = t
      PROVE  Current(w, t)
  <2>1. Current(v, t) /\ task'[t].owner = task[t].owner
    BY <1>0, <1>4 DEF HeartbeatRenews, TypeOK, TaskRow
  <2> QED BY <2>1 DEF Current, Leases
<1>5. ASSUME NEW v \in Worker, ClaimLock(v), held[v] = t
      PROVE  FALSE
  <2>1. pc[v] = "lock" /\ task'[t].owner = v
    BY <1>0, <1>5 DEF ClaimLock, TypeOK, TaskRow
  <2> QED BY <2>1
<1> QED BY <1>0, <1>2, <1>3, <1>4, <1>5, LeasedByClaim DEF Current

\* Whatever asks for a login goes back to a task that failed for one.
LEMMA LoginVerdict ==
  ASSUME NEW r \in Run, NEW tk, Verdict(r, tk) = "AUTH_REQUIRED"
  PROVE  \E t \in Task : RunOf(t) = r /\ tk[t].status = "FAILED" /\ tk[t].kind = "AUTH_REQUIRED"
<1> DEFINE ts == {t \in Task : RunOf(t) = r /\ tk[t].status # "ABSENT"}
<1>1. Verdict(r, tk) = SettledVerdict(ts, tk)
  BY DEF Verdict
<1>2. \A S : SettledVerdict(S, tk) = "AUTH_REQUIRED" =>
        \E t \in S : tk[t].status = "FAILED" /\ tk[t].kind \in {"AUTH_REQUIRED"}
  BY DEF SettledVerdict
<1> QED BY <1>1, <1>2

LEMMA RunAsksForLogin ==
  ASSUME TypeOK, [Next]_vars, NEW r \in Run, run'[r].status = "AUTH_REQUIRED",
         run[r].status # "AUTH_REQUIRED"
  PROVE  \E t \in Task : RunOf(t) = r /\ task'[t].status = "FAILED" /\ task'[t].kind = "AUTH_REQUIRED"
<1>0. run \in [Run -> RunRow] /\ run[r] \in RunRow
  BY DEF TypeOK
<1>1. ASSUME NEW tk, run'[r] = Finalized(r, tk)
      PROVE  Verdict(r, tk) = "AUTH_REQUIRED"
  BY <1>0, <1>1 DEF Finalized, RunRow
<1>2. ASSUME NEW w \in Worker, Expire(w) \/ GiveBack(w) PROVE FALSE
  BY <1>0, <1>2 DEF Expire, GiveBack, RunRow
<1>3. ASSUME NEW w \in Worker, NEW tk, Report(w, tk)
      PROVE  Verdict(r, task') = "AUTH_REQUIRED"
  BY <1>0, <1>1, <1>3 DEF Report
<1>4. ASSUME NEW w \in Worker, Admit(w)
      PROVE  Verdict(r, task') = "AUTH_REQUIRED"
  BY <1>0, <1>1, <1>4 DEF Admit, AfterFinalize, RunRow
<1>5. ASSUME NEW q \in Run, NEW rev \in Revision, NEW mode \in Mode,
             NEW keys \in SUBSET Key, Schedule(q, rev, mode, keys)
      PROVE  FALSE
  BY <1>0, <1>5 DEF Schedule
<1>6. Tick => FALSE
  BY TickKeeps
<1>7. ASSUME NEW w \in Worker,
             \/ Poll(w) \/ Claim(w) \/ Heartbeat(w) \/ Settle(w) \/ Crash(w) \/ Restart(w)
             \/ \E o \in Success \union Failure : HandlerEnds(w, o)
      PROVE  Verdict(r, task') = "AUTH_REQUIRED"
  BY <1>2, <1>3, <1>4, <1>7
     DEF Poll, AdmitElsewhere, Claim, ClaimSelect, ClaimNothing, ClaimLock, ClaimRaced,
         Heartbeat, HeartbeatRenews, HeartbeatOverdue, HeartbeatLost, HandlerEnds,
         Settle, ReportSuccess, ReportFailure, ReportOverdue, ReportLost, Crash, Restart
<1> QED BY <1>5, <1>6, <1>7, LoginVerdict DEF Next, vars

\* A task settles as the worker that may go on with it reports.
LEMMA TaskSettlesAsReported ==
  ASSUME TypeOK, [Next]_vars, NEW t \in Task, task'[t].status \in Settled
  PROVE  \/ task'[t].status = task[t].status /\ task'[t].kind = task[t].kind
         \/ \E w \in Worker :
              /\ pc[w] = "report" /\ held[w] = t /\ Current(w, t)
              /\ IF task'[t].status = "SUCCEEDED" THEN outcome[w].kind = "NONE"
                                                 ELSE task'[t].kind = outcome[w].kind
<1> DEFINE Was == task'[t].status = task[t].status /\ task'[t].kind = task[t].kind
           SoReports(w) ==
             /\ pc[w] = "report" /\ held[w] = t /\ Current(w, t)
             /\ IF task'[t].status = "SUCCEEDED" THEN outcome[w].kind = "NONE"
                                                ELSE task'[t].kind = outcome[w].kind
<1>0. task \in [Task -> TaskRow] /\ task[t] \in TaskRow
  BY DEF TypeOK
<1>1. ASSUME NEW w \in Worker, GiveBack(w), held[w] \in Task PROVE Was
  BY <1>0, <1>1 DEF GiveBack, TaskRow, Settled
<1>2. ASSUME NEW w \in Worker, ReportSuccess(w) PROVE Was \/ SoReports(w)
  BY <1>2, ReportedRow DEF ReportSuccess, Report, TypeOK
<1>3. ASSUME NEW w \in Worker, ReportFailure(w) PROVE Was \/ SoReports(w)
  <2>1. held[w] \in Task /\ pc[w] = "report" /\ Current(w, held[w]) /\ task' = Failed(w)
    BY <1>3 DEF ReportFailure, Report, TypeOK
  <2>2. CASE held[w] # t
    BY <2>1, <2>2, ReportedRow
  <2>3. CASE held[w] = t
    <3>1. task'[t].kind = outcome[w].kind
      BY <1>0, <2>1, <2>3 DEF Failed, TaskRow
    <3>2. task'[t].status \in {"PENDING", "FAILED"}
      BY <2>1, <2>3, ReportedRow
    <3> QED BY <2>1, <2>3, <3>1, <3>2
  <2> QED BY <2>2, <2>3
<1>4. ASSUME NEW w \in Worker, HeartbeatRenews(w) PROVE Was
  BY <1>0, <1>4 DEF HeartbeatRenews, TypeOK, TaskRow
<1>5. ASSUME NEW w \in Worker, ClaimLock(w) PROVE Was
  BY <1>0, <1>5 DEF ClaimLock, TypeOK, TaskRow, Settled
<1>6. ASSUME NEW r \in Run, NEW rev \in Revision, NEW mode \in Mode,
             NEW keys \in SUBSET Key, Schedule(r, rev, mode, keys)
      PROVE  Was
  BY <1>0, <1>6 DEF Schedule, PendingTask, Settled
<1>7. ASSUME Tick PROVE Was
  BY <1>0, <1>7 DEF Tick, TaskRow
<1>8. ASSUME NEW w \in Worker,
             \/ Poll(w) \/ ClaimSelect(w) \/ ClaimNothing(w) \/ ClaimRaced(w)
             \/ HeartbeatLost(w) \/ ReportLost(w) \/ Crash(w) \/ Restart(w)
             \/ \E o \in Success \union Failure : HandlerEnds(w, o)
      PROVE  Was
  BY <1>8 DEF Poll, Admit, AdmitElsewhere, ClaimSelect, ClaimNothing, ClaimRaced,
              HeartbeatLost, ReportLost, Crash, Restart, HandlerEnds
<1>9. ASSUME NEW w \in Worker, HeartbeatOverdue(w) \/ ReportOverdue(w) PROVE Was
  BY <1>1, <1>9 DEF HeartbeatOverdue, ReportOverdue, TypeOK
<1> QED BY <1>2, <1>3, <1>4, <1>5, <1>6, <1>7, <1>8, <1>9
        DEF Next, Claim, Heartbeat, Settle, vars

-----------------------------------------------------------------------------
LoggedIn(r) == \E id \in CallsOf(Audited, r) : audit[id] = "AUTH_REQUIRED"

\* A handler goes by the name of the worker that owns the task, as long as it does.
GoesByItsName(w) ==
  pc[w] = "work" /\ at[w].step \notin {"none", "load", "end"} /\ Leases(w, held[w]) =>
    at[w].owner = w /\ at[w].attempt = att[w]

\* A login is needed, or the worker will not get to say so.
MayAsk(w) == LoggedIn(RunOf(held[w])) \/ ~ Current(w, held[w])

LoginOf(w) ==
  /\ GoesByItsName(w)
  /\ At(w, "end") /\ at[w].result = "AUTH_REQUIRED" => MayAsk(w)
  /\ pc[w] = "report" /\ outcome[w].kind = "AUTH_REQUIRED" => MayAsk(w)

LoginInv ==
  /\ \A w \in Worker : LoginOf(w)
  /\ \A t \in Task : task[t].status = "FAILED" /\ task[t].kind = "AUTH_REQUIRED" =>
       LoggedIn(RunOf(t))
  /\ LoginIsNeeded

\* All that has been proved before and is needed here.
LoginGround == HandlerInv /\ InFlightOrRecorded /\ OwnerIsCurrentAttempt /\ BegunBeforeLease

LEMMA LoggedInStays ==
  ASSUME HandlerInv, InFlightOrRecorded, [HNext]_hvars, NEW r, LoggedIn(r)
  PROVE  LoggedIn(r)'
<1>1. PICK id \in Audited : CallRun(id) = r /\ audit[id] = "AUTH_REQUIRED"
  BY DEF LoggedIn, CallsOf
<1>2. id \in DOMAIN audit' /\ audit'[id] = audit[id]
  BY CallsMoveSo, InFlightOrRecordedKept
<1> QED BY <1>1, <1>2 DEF LoggedIn, CallsOf, Audited, CallRun

LEMMA MayAskStays ==
  ASSUME LoginGround, [HNext]_hvars, NEW w \in Worker, pc[w] \in {"work", "report"},
         held'[w] = held[w], MayAsk(w)
  PROVE  MayAsk(w)'
<1>1. TypeOK /\ BegunBeforeLease /\ [Next]_vars
  BY StepOfTheQueue DEF LoginGround, HandlerInv
<1>2. Current(w, held[w])' => Current(w, held[w])
  BY <1>1, LostForGood
<1>3. LoggedIn(RunOf(held[w])) => LoggedIn(RunOf(held[w]))'
  BY LoggedInStays DEF LoginGround, LoggedIn, CallsOf
<1> QED BY <1>2, <1>3 DEF MayAsk

\* A worker that neither moves nor leaves its task.
Waits(w) ==
  /\ pc'[w] = pc[w] /\ held'[w] = held[w] /\ att'[w] = att[w]
  /\ outcome'[w] = outcome[w] /\ at'[w] = at[w]

LEMMA WaitingKept ==
  ASSUME LoginGround, [HNext]_hvars, NEW w \in Worker, LoginOf(w), Waits(w)
  PROVE  LoginOf(w)'
<1>1. TypeOK /\ BegunBeforeLease /\ [Next]_vars
  BY StepOfTheQueue DEF LoginGround, HandlerInv
<1>2. pc[w] \in {"work", "report"} => (Leases(w, held[w])' => Leases(w, held[w]))
  BY <1>1, LostForGood DEF Waits
<1>3. GoesByItsName(w)'
  BY <1>2 DEF LoginOf, GoesByItsName, Waits, Leases
<1>4. MayAsk(w) /\ pc[w] \in {"work", "report"} => MayAsk(w)'
  BY MayAskStays DEF Waits
<1> QED BY <1>3, <1>4 DEF LoginOf, Waits, At

\* A refusal of the checkpoint shows that the worker has lost its task.
LEMMA RefusedHasLost ==
  ASSUME LoginGround, NEW w \in Worker, GoesByItsName(w), pc[w] = "work",
         at[w].step \notin {"none", "load", "end"}, ~ Writable(w)
  PROVE  ~ Current(w, held[w])
BY DEF LoginGround, OwnerIsCurrentAttempt, GoesByItsName, Writable, Current, Leases, Live

\* The handler of w moves, under the same name.
LEMMA MoveKept ==
  ASSUME LoginGround, [HNext]_hvars, NEW w \in Worker, LoginOf(w), UNCHANGED vars,
         pc[w] = "work", at[w].step \notin {"none", "load", "end"},
         at'[w].owner = at[w].owner, at'[w].attempt = at[w].attempt,
         at'[w].step = "end" /\ at'[w].result = "AUTH_REQUIRED" => MayAsk(w) \/ MayAsk(w)'
  PROVE  LoginOf(w)'
<1>1. UNCHANGED <<run, task, pc, held, att, outcome>>
  BY DEF vars, locals
<1>2. MayAsk(w) => MayAsk(w)'
  BY <1>1, MayAskStays
<1>3. GoesByItsName(w)'
  BY <1>1 DEF LoginOf, GoesByItsName, Leases
<1> QED BY <1>1, <1>2, <1>3 DEF LoginOf, At

\* Where the steps lead: under the same name, and to which errors.
LEMMA RaiseSays ==
  ASSUME HandlerInv, NEW w \in Worker, NEW kind, Raise(w, kind)
  PROVE  at'[w].owner = at[w].owner /\ at'[w].attempt = at[w].attempt /\ at'[w].result = kind
BY DEF Raise, HandlerInv, HandlerTypeOK, HandlerState

LEMMA GoToSays ==
  ASSUME HandlerInv, NEW w \in Worker, NEW step, GoTo(w, step)
  PROVE  at'[w].owner = at[w].owner /\ at'[w].attempt = at[w].attempt /\ at'[w].step = step
BY DEF GoTo, HandlerInv, HandlerTypeOK, HandlerState

LEMMA OnwardSays ==
  ASSUME HandlerInv, NEW w \in Worker, NEW n, NEW last, Onward(w, n, last)
  PROVE  /\ at'[w].owner = at[w].owner /\ at'[w].attempt = at[w].attempt
         /\ at'[w].step = "end" => at'[w].result = "COMPLETED"
BY DEF Onward, HandlerInv, HandlerTypeOK, HandlerState

LEMMA ResolveSays ==
  ASSUME HandlerInv, NEW w \in Worker, NEW result, Resolve(w, result)
  PROVE  /\ at'[w].owner = at[w].owner /\ at'[w].attempt = at[w].attempt
         /\ at'[w].step = "end" => at'[w].result = result
BY DEF Resolve, GoTo, Raise, HandlerInv, HandlerTypeOK, HandlerState

LEMMA CheckpointAsks ==
  ASSUME LoginGround, [HNext]_hvars, NEW w \in Worker, LoginOf(w),
         \/ LoadContext(w) \/ LoadStage(w) \/ Reserve(w)
         \/ \E last \in BOOLEAN : CommitStage(w, last)
  PROVE  LoginOf(w)'
<1>0. HandlerInv /\ UNCHANGED vars /\ UNCHANGED <<run, task, pc, held, att, outcome>>
  BY DEF LoadContext, LoadStage, Reserve, CommitStage, vars, locals, LoginGround
<1>1. CASE LoadContext(w)
  <2>1. pc[w] = "work" /\ held[w] \in Task
    BY <1>0, <1>1 DEF LoadContext, At, HandlerInv, TypeOK
  <2>2. CASE task[held[w]].owner = NoWorker
    <3>1. ~ Leases(w, held[w])
      BY <2>2, ConstantsAssumption DEF Leases
    <3>2. (~ Leases(w, held[w]))' /\ MayAsk(w)'
      BY <1>0, <3>1 DEF Leases, MayAsk, Current
    <3> QED BY <1>0, <2>1, <3>2 DEF LoginOf, GoesByItsName
  <2>3. CASE task[held[w]].owner # NoWorker
    <3>1. /\ at'[w].owner = task[held[w]].owner /\ at'[w].attempt = task[held[w]].attempts
          /\ at'[w].step = "stage"
      BY <1>0, <1>1, <2>3 DEF LoadContext, HandlerInv, HandlerTypeOK, HandlerState
    <3>2. Leases(w, held[w]) => att[w] = task[held[w]].attempts
      BY <2>1 DEF LoginGround, OwnerIsCurrentAttempt
    <3> QED BY <1>0, <2>1, <3>1, <3>2 DEF LoginOf, GoesByItsName, At, Leases
  <2> QED BY <2>2, <2>3
<1>2. ASSUME LoadStage(w) \/ Reserve(w) \/ \E last \in BOOLEAN : CommitStage(w, last)
      PROVE  LoginOf(w)'
  <2>1. pc[w] = "work" /\ at[w].step \notin {"none", "load", "end"}
    BY <1>2 DEF LoadStage, Reserve, CommitStage, At
  <2>2. CASE Refused(w)
    <3>1. MayAsk(w)
      BY <2>1, <2>2, RefusedHasLost DEF Refused, LoginOf, MayAsk
    <3>2. at'[w].owner = at[w].owner /\ at'[w].attempt = at[w].attempt
      BY <1>0, <2>2, RaiseSays DEF Refused
    <3> QED BY <1>0, <2>1, <3>1, <3>2, MoveKept
  <2>3. CASE Raise(w, "INTEGRITY") \/ Raise(w, "PERMANENT")
    BY <1>0, <2>1, <2>3, RaiseSays, MoveKept
  <2>4. ASSUME NEW step \in {"reserve", "look", "skip", "commit"}, GoTo(w, step)
        PROVE  LoginOf(w)'
    BY <1>0, <2>1, <2>4, GoToSays, MoveKept
  <2>5. ASSUME NEW n, NEW last, Onward(w, n, last) PROVE LoginOf(w)'
    BY <1>0, <2>1, <2>5, OnwardSays, MoveKept
  <2> QED BY <1>2, <2>2, <2>3, <2>4, <2>5 DEF LoadStage, Reserve, CommitStage
<1> QED BY <1>1, <1>2

\* What a call ends with is recorded of it.
LEMMA CallAsks ==
  ASSUME LoginGround, [HNext]_hvars, NEW w \in Worker, LoginOf(w),
         \/ Look(w) \/ AdmitForeign(w) \/ AdmitDenied(w) \/ AdmitGranted(w)
         \/ \E result \in Recorded : Answer(w, result)
         \/ CallLost(w) \/ Record(w) \/ RecordLost(w)
  PROVE  LoginOf(w)'
<1>0. /\ HandlerInv /\ UNCHANGED vars /\ UNCHANGED <<run, task, pc, held, att, outcome>>
      /\ pc[w] = "work" /\ at[w].step \notin {"none", "load", "end"}
  BY DEF Look, AdmitForeign, AdmitDenied, AdmitGranted, Admission, Answer, CallLost, Record,
         RecordLost, At, vars, locals, LoginGround
<1>1. held[w] \in Task /\ RunOf(held[w]) = CallRun(Asked(w))
  BY <1>0 DEF HandlerInv, TypeOK, CallRun, Asked
<1>2. ASSUME NEW kind, Raise(w, kind), kind # "AUTH_REQUIRED" PROVE LoginOf(w)'
  BY <1>0, <1>2, RaiseSays, MoveKept
<1>3. ASSUME NEW step \in {"admit", "flight"}, GoTo(w, step) PROVE LoginOf(w)'
  BY <1>0, <1>3, GoToSays, MoveKept
<1>4. ASSUME Asked(w) \in Audited, Resolve(w, audit[Asked(w)]) PROVE LoginOf(w)'
  <2>1. audit[Asked(w)] = "AUTH_REQUIRED" => MayAsk(w)
    BY <1>1, <1>4 DEF MayAsk, LoggedIn, CallsOf
  <2> QED BY <1>0, <1>4, <2>1, ResolveSays, MoveKept
<1>5. CASE AdmitDenied(w)
  <2>1. Denial(w, Asked(w)) # "AUTH_REQUIRED"
    <3> DEFINE r == CallRun(Asked(w))
    <3> HIDE DEF r
    <3> QED BY Zenon DEF Denial
  <2> QED BY <1>2, <1>4, <1>5, <2>1 DEF AdmitDenied
<1>6. CASE Record(w)
  <2>1. at[w].result = "AUTH_REQUIRED" => MayAsk(w)'
    <3> SUFFICES ASSUME at[w].result = "AUTH_REQUIRED" PROVE LoggedIn(RunOf(held[w]))'
      BY DEF MayAsk
    <3>1. audit' = Put(audit, Asked(w), at[w].result)
      BY <1>6 DEF Record
    <3>2. Asked(w) \in DOMAIN audit' /\ audit'[Asked(w)] = "AUTH_REQUIRED"
      BY <3>1 DEF Put
    <3>3. CallRun(Asked(w)) = RunOf(held'[w])
      BY <1>0, <1>1
    <3> QED BY <3>2, <3>3 DEF LoggedIn, CallsOf, Audited, CallRun
  <2>2. Resolve(w, at[w].result)
    BY <1>6 DEF Record
  <2> QED BY <1>0, <2>1, <2>2, ResolveSays, MoveKept
<1>7. ASSUME NEW result \in Recorded, Answer(w, result) PROVE LoginOf(w)'
  <2>1. at'[w].owner = at[w].owner /\ at'[w].attempt = at[w].attempt /\ at'[w].step = "answer"
    BY <1>0, <1>7 DEF Answer, HandlerInv, HandlerTypeOK, HandlerState
  <2> QED BY <1>0, <2>1, MoveKept
<1>8. CASE Look(w)
  BY <1>3, <1>4, <1>8 DEF Look
<1>9. CASE AdmitForeign(w) \/ CallLost(w) \/ RecordLost(w)
  BY <1>2, <1>9 DEF AdmitForeign, CallLost, RecordLost
<1>10. CASE AdmitGranted(w)
  BY <1>3, <1>10 DEF AdmitGranted
<1> QED BY <1>5, <1>6, <1>7, <1>8, <1>9, <1>10

\* What a step means for one worker: it stands as it stood, or it moves itself.
LEMMA EachMovesItself ==
  ASSUME HandlerInv, [HNext]_hvars, NEW w \in Worker
  PROVE  \/ Waits(w) \/ HandlerStep(w) \/ HandlerStarts(w) \/ HandlerIsOver(w)
         \/ \E kind \in RaisedKind : HandlerRaises(w, kind)
         \/ pc'[w] \notin {"work", "report"}
<1>0. /\ at \in [Worker -> HandlerState] /\ pc \in [Worker -> Place]
      /\ held \in [Worker -> Task \union {NoTask}] /\ att \in [Worker -> Nat]
      /\ outcome \in [Worker -> Success \union Failure]
  BY DEF HandlerInv, TypeOK, HandlerTypeOK
<1>1. ASSUME NEW v \in Worker \ {w}, HandlerStep(v) PROVE Waits(w)
  <2>1. at'[w] = at[w]
    BY <1>0, <1>1 DEF HandlerStep, LoadContext, LoadStage, Reserve, CommitStage, Look,
       AdmitForeign, AdmitDenied, AdmitGranted, Answer, CallLost, Record, RecordLost,
       Refused, Raise, GoTo, Onward, Resolve
  <2>2. UNCHANGED vars
    BY <1>1 DEF HandlerStep, LoadContext, LoadStage, Reserve, CommitStage, Look, AdmitForeign,
       AdmitDenied, AdmitGranted, Admission, Answer, CallLost, Record, RecordLost
  <2> QED BY <2>1, <2>2 DEF Waits, vars, locals
<1>2. ASSUME NEW v \in Worker \ {w}, NEW kind, HandlerRaises(v, kind) PROVE Waits(w)
  BY <1>0, <1>2 DEF HandlerRaises, Raise, Waits, vars, locals
<1>3. ASSUME NEW v \in Worker \ {w}, HandlerStarts(v) \/ HandlerIsOver(v) PROVE Waits(w)
  BY <1>0, <1>3 DEF HandlerStarts, ClaimLock, HandlerIsOver, HandlerEnds, Waits
<1>4. ASSUME NEW v \in Worker, HandlerIsCut(v)
      PROVE  IF v = w THEN pc'[w] \notin {"work", "report"} ELSE Waits(w)
  BY <1>0, <1>4 DEF HandlerIsCut, HeartbeatOverdue, HeartbeatLost, Crash, Forget, Waits
<1>5. ASSUME NEW v \in Worker, QueueStep(v), ~ HeartbeatRenews(v)
      PROVE  IF v = w THEN pc'[w] \notin {"work", "report"} ELSE Waits(w)
  BY <1>0, <1>5 DEF QueueStep, Poll, Admit, AdmitElsewhere, ClaimSelect, ClaimNothing,
     ClaimRaced, Settle, ReportSuccess, ReportFailure, Report, ReportOverdue, ReportLost,
     Restart, Forget, Waits, locals
<1>6. ASSUME NEW v \in Worker, CallBeats(v) \/ (HeartbeatRenews(v) /\ UNCHANGED at) PROVE Waits(w)
  BY <1>6 DEF CallBeats, HeartbeatRenews, Waits, vars, locals
<1>7. HTick \/ UNCHANGED hvars => Waits(w)
  BY DEF HTick, Tick, hvars, vars, locals, Waits
<1>8. ASSUME NEW r \in Run, NEW rev \in Revision, NEW mode \in Mode, HSchedule(r, rev, mode)
      PROVE  Waits(w)
  BY <1>8 DEF HSchedule, Schedule, locals, Waits
<1>9. ASSUME NEW v \in Worker, QueueStep(v) \/ HandlerIsCut(v) \/ CallBeats(v)
      PROVE  Waits(w) \/ pc'[w] \notin {"work", "report"}
  <2>1. QueueStep(v) => UNCHANGED at
    BY DEF QueueStep
  <2>2. CASE HandlerIsCut(v)
    BY <1>4, <2>2
  <2>3. CASE QueueStep(v) /\ ~ HeartbeatRenews(v)
    BY <1>5, <2>3
  <2>4. CASE CallBeats(v) \/ (QueueStep(v) /\ HeartbeatRenews(v))
    BY <1>6, <2>1, <2>4
  <2> QED BY <1>9, <2>2, <2>3, <2>4
<1>10. ASSUME NEW v \in Worker, v # w,
              \/ HandlerStep(v) \/ HandlerStarts(v) \/ HandlerIsOver(v)
              \/ \E kind \in RaisedKind : HandlerRaises(v, kind)
       PROVE  Waits(w)
  BY <1>1, <1>2, <1>3, <1>10
<1> QED BY <1>7, <1>8, <1>9, <1>10 DEF HNext

LEMMA LoginOfKept ==
  ASSUME LoginGround, [HNext]_hvars, NEW w \in Worker, LoginOf(w)
  PROVE  LoginOf(w)'
<1>0. /\ HandlerInv /\ at \in [Worker -> HandlerState] /\ pc \in [Worker -> Place]
      /\ outcome \in [Worker -> Success \union Failure]
  BY DEF LoginGround, HandlerInv, TypeOK, HandlerTypeOK
<1>1. CASE Waits(w)
  BY <1>1, WaitingKept
<1>2. CASE HandlerStep(w)
  BY <1>2, CheckpointAsks, CallAsks DEF HandlerStep
<1>3. ASSUME NEW kind \in RaisedKind, HandlerRaises(w, kind)
      PROVE  LoginOf(w)'
  <2>1. at'[w].step = "end" /\ at'[w].result # "AUTH_REQUIRED" /\ pc'[w] = "work"
    BY <1>0, <1>3, RaiseSays, RaiseMovesOn DEF HandlerRaises, RaisedKind, vars
  <2> QED BY <2>1 DEF LoginOf, GoesByItsName, At
<1>4. CASE HandlerStarts(w)
  <2>1. at'[w].step = "load" /\ pc'[w] = "work"
    BY <1>0, <1>4 DEF HandlerStarts, ClaimLock, NoHandler
  <2> QED BY <2>1 DEF LoginOf, GoesByItsName, At
<1>5. CASE HandlerIsOver(w)
  <2>1. /\ At(w, "end") /\ pc'[w] = "report" /\ outcome'[w] = Ending(at[w])
        /\ held'[w] = held[w] /\ pc[w] = "work"
    BY <1>0, <1>5 DEF HandlerIsOver, HandlerEnds, At
  <2>2. outcome'[w].kind = "AUTH_REQUIRED" => at[w].result = "AUTH_REQUIRED"
    BY <2>1 DEF Ending, NoOutcome
  <2>3. MayAsk(w) => MayAsk(w)'
    BY <2>1, MayAskStays
  <2> QED BY <2>1, <2>2, <2>3 DEF LoginOf, GoesByItsName, At
<1>6. CASE pc'[w] \notin {"work", "report"}
  BY <1>6 DEF LoginOf, GoesByItsName, At
<1> QED BY <1>0, <1>1, <1>2, <1>3, <1>4, <1>5, <1>6, EachMovesItself

LEMMA LoginInvKept ==
  ASSUME LoginGround, LoginInv, [HNext]_hvars
  PROVE  LoginInv'
<1>0. HandlerInv /\ InFlightOrRecorded /\ TypeOK /\ [Next]_vars
  BY StepOfTheQueue DEF LoginGround, HandlerInv
<1>1. \A w \in Worker : LoginOf(w)'
  BY LoginOfKept DEF LoginInv
<1>2. ASSUME NEW t \in Task, task'[t].status = "FAILED", task'[t].kind = "AUTH_REQUIRED"
      PROVE  LoggedIn(RunOf(t))'
  <2>1. CASE task[t].status = "FAILED" /\ task[t].kind = "AUTH_REQUIRED"
    BY <1>0, <2>1, LoggedInStays DEF LoginInv
  <2>2. ASSUME NEW w \in Worker, pc[w] = "report", held[w] = t, Current(w, t),
               outcome[w].kind = "AUTH_REQUIRED"
        PROVE  LoggedIn(RunOf(t))'
    <3>1. LoggedIn(RunOf(t))
      BY <2>2 DEF LoginInv, LoginOf, MayAsk
    <3> QED BY <1>0, <3>1, LoggedInStays
  <2> QED BY <1>0, <1>2, <2>1, <2>2, TaskSettlesAsReported DEF Settled
<1>3. ASSUME NEW r \in Run, run'[r].status = "AUTH_REQUIRED" PROVE LoggedIn(r)'
  <2>1. CASE run[r].status = "AUTH_REQUIRED"
    <3>1. LoggedIn(r)
      BY <2>1 DEF LoginInv, LoginIsNeeded, LoggedIn
    <3> QED BY <1>0, <3>1, LoggedInStays
  <2>2. CASE run[r].status # "AUTH_REQUIRED"
    BY <1>0, <1>2, <1>3, <2>2, RunAsksForLogin
  <2> QED BY <2>1, <2>2
<1> QED BY <1>1, <1>2, <1>3 DEF LoginInv, LoginIsNeeded, LoggedIn, RunOf

LEMMA LoginGroundAlways == HSpec => []LoginGround
BY HandlerInvAlways, InFlightOrRecordedAlways, HandlerImplementsQueue, OwnerIsCurrentAlways,
   BegunBeforeLeaseAlways, PTL DEF LoginGround

LEMMA LoginInvAlways == HSpec => []LoginInv
<1>1. HInit => LoginInv
  BY DEF HInit, Init, LoginInv, LoginOf, GoesByItsName, At, LoginIsNeeded, AbsentTask,
         PendingTask, AbsentRun
<1>2. LoginGround /\ LoginInv /\ [HNext]_hvars => LoginInv'
  BY LoginInvKept
<1> QED BY <1>1, <1>2, LoginGroundAlways, PTL DEF HSpec

\* A run asks for a login only if the provider did, for any number of workers: a worker
\* that is refused its checkpoint never reports so.
THEOREM LoginIsNeededAlways == HSpec => []LoginIsNeeded
<1>1. LoginInv => LoginIsNeeded
  BY DEF LoginInv
<1> QED BY <1>1, LoginInvAlways, PTL

-----------------------------------------------------------------------------
(* The order of the calls and the sources of the stages.  Two handlers may *)
(* run under the name of one attempt: a worker that has lost its task may  *)
(* load the context of the one that has it now.  The admission, which asks *)
(* for the worker itself, lets in the owner only, so all the calls of the  *)
(* current attempt are the owner's and lie behind it; and who commits a    *)
(* stage under its name needs a completed call of the attempt, which the   *)
(* owner does not have for a stage it still asks about.                    *)

\* A stage may be taken up: the one before it is committed and was not the last.
Reached(t, n) == n = 1 \/ (Committed(t, n - 1) /\ ~ stages[t][n - 1].last)

Complete(t) == LET n == Len(stages[t]) IN n > 0 /\ (n = Stages \/ stages[t][n].last)

\* The stage n of t, committed for the attempt a, has something to go back to.
HasSource(t, a, n) ==
  IF n \in External
    THEN n \in reserved[t]
    ELSE \E k \in {0, 1} : LET id == <<t, a, n, k>>
                           IN  id \in Audited /\ audit[id] = "COMPLETED"

Invalid(id) == id \in Audited /\ audit[id] = "INVALID_OUTPUT"

\* Where a handler at work stands, whoever owns its task.
StandsInOrder(w) ==
  pc[w] = "work" =>
    /\ Reached(held[w], at[w].stage)
    /\ at[w].repair = 1 => /\ at[w].step \notin {"load", "stage"}
                           /\ Invalid(<<held[w], at[w].attempt, at[w].stage, 0>>)
    /\ at[w].found \subseteq reserved[held[w]]
    /\ at[w].step = "skip" => at[w].stage \in External
    /\ at[w].step \in {"commit", "skip"} => HasSource(held[w], at[w].attempt, at[w].stage)

\* A handler ends well with its checkpoint complete.
EndsComplete(w) ==
  /\ At(w, "end") /\ at[w].result = "COMPLETED" => Complete(held[w])
  /\ pc[w] = "report" /\ outcome[w].kind = "NONE" => Complete(held[w])

Asking == {"look", "admit", "flight", "answer"}

\* A call of the current attempt lies behind w, which owns the task.
LiesBehind(id, w) ==
  /\ at[w].step # "load" /\ StageOf(id) <= at[w].stage
  /\ id \in Leased => lease[id].owner = w
  /\ StageOf(id) = at[w].stage =>
       /\ at[w].step \notin {"stage", "reserve"}
       /\ at[w].step \in {"look", "admit"} => id[4] < at[w].repair
       /\ at[w].step \in {"flight", "answer"} => id[4] <= at[w].repair
       /\ at[w].step \in Asking /\ id \in Audited => audit[id] # "COMPLETED"

\* What the owner of a task finds made under its name.
OwnsItsCalls(w) ==
  pc[w] = "work" /\ Leases(w, held[w]) /\ at[w].step # "end" =>
    /\ \A id \in Calls : id[1] = held[w] /\ id[2] = task[held[w]].attempts => LiesBehind(id, w)
    /\ at[w].step \in Asking => ~ Committed(held[w], at[w].stage)

OrderOf(w) == StandsInOrder(w) /\ EndsComplete(w) /\ OwnsItsCalls(w)

\* The tables of the calls and the checkpoints.
CallFollows(id) ==
  /\ task[id[1]].status # "ABSENT" /\ id[2] <= task[id[1]].attempts
  /\ StageOf(id) <= Len(stages[id[1]]) + 1
  /\ id[4] = 1 => Invalid(<<id[1], id[2], id[3], 0>>)

CheckpointStands(t) ==
  /\ \A n \in DOMAIN stages[t] : /\ HasSource(t, stages[t][n].by, n)
                                 /\ stages[t][n].last => n = Len(stages[t])
  /\ task[t].status = "SUCCEEDED" => Complete(t)

OrderInv ==
  /\ \A w \in Worker : OrderOf(w)
  /\ \A id \in Calls : CallFollows(id)
  /\ \A t \in Task : CheckpointStands(t)

\* All that has been proved before and is needed here.
OrderGround == LoginGround /\ LoginInv /\ CollectorInv /\ NoTasksBeforeRun

\* A checkpoint and a worker's view of it are typed.
LEMMA OrderTyped ==
  ASSUME HandlerInv
  PROVE  /\ \A t \in Task : /\ Len(stages[t]) \in 0 .. Stages
                            /\ DOMAIN stages[t] = 1 .. Len(stages[t])
                            /\ \A n \in 1 .. Len(stages[t]) : stages[t][n] \in [by : Nat, last : BOOLEAN]
                            /\ reserved[t] \subseteq External
         /\ \A w \in Worker : /\ at[w] \in HandlerState
                              /\ pc[w] \in {"work", "report"} => held[w] \in Task
         /\ Calls \subseteq Id
         /\ \A id \in Id : /\ id[1] \in Task /\ id[2] \in Nat /\ id[3] \in 1 .. Stages
                           /\ id[4] \in {0, 1}
                           /\ id = <<id[1], id[2], id[3], id[4]>>
<1>1. \A t \in Task : stages[t] \in Seq([by : Nat, last : BOOLEAN]) /\ Len(stages[t]) <= Stages
  BY DEF HandlerInv, HandlerTypeOK
<1>2. ASSUME NEW t \in Task
      PROVE  /\ Len(stages[t]) \in 0 .. Stages
             /\ DOMAIN stages[t] = 1 .. Len(stages[t])
             /\ \A n \in 1 .. Len(stages[t]) : stages[t][n] \in [by : Nat, last : BOOLEAN]
  <2> DEFINE S == [by : Nat, last : BOOLEAN]
  <2> HIDE DEF S
  <2>1. stages[t] \in Seq(S) /\ Len(stages[t]) <= Stages
    BY <1>1 DEF S
  <2>2. /\ Len(stages[t]) \in Nat /\ DOMAIN stages[t] = 1 .. Len(stages[t])
        /\ \A n \in 1 .. Len(stages[t]) : stages[t][n] \in S
    BY <2>1, LenProperties, ElementOfSeq
  <2> QED BY <2>1, <2>2, HandlerAssumption DEF S
<1>3. \A t \in Task : reserved[t] \subseteq External
  BY DEF HandlerInv, HandlerTypeOK
<1>4. \A w \in Worker : /\ at[w] \in HandlerState
                        /\ pc[w] \in {"work", "report"} => held[w] \in Task
  BY DEF HandlerInv, HandlerTypeOK, TypeOK
<1>5. Calls \subseteq Id
  BY DEF HandlerInv, HandlerTypeOK, Calls
<1>6. \A id \in Id : /\ id[1] \in Task /\ id[2] \in Nat /\ id[3] \in 1 .. Stages
                     /\ id[4] \in {0, 1}
                     /\ id = <<id[1], id[2], id[3], id[4]>>
  BY DEF Id
<1> QED BY <1>2, <1>3, <1>4, <1>5, <1>6

\* What w appends to the checkpoint of its task.
Row(w, last) == [by |-> Author(w), last |-> last]

Appends(w, last) ==
  /\ pc[w] = "work" /\ at[w].step \in {"commit", "skip"}
  /\ ~ Committed(held[w], at[w].stage) /\ Writable(w)
  /\ stages' = [stages EXCEPT ![held[w]] = Append(@, Row(w, last))]
  /\ Onward(w, at[w].stage, last)
  /\ UNCHANGED <<vars, lease, audit, used, reserved>>

LEMMA OnlyCommitsAppend ==
  ASSUME [HNext]_hvars
  PROVE  stages' = stages \/ \E w \in Worker, last \in BOOLEAN : Appends(w, last)
<1>1. ASSUME NEW w \in Worker, NEW last \in BOOLEAN, CommitStage(w, last)
      PROVE  stages' = stages \/ Appends(w, last)
  BY <1>1 DEF CommitStage, Appends, Row, At
<1>2. ASSUME NEW w \in Worker, HandlerStep(w),
             ~ \E last \in BOOLEAN : CommitStage(w, last)
      PROVE  stages' = stages
  BY <1>2 DEF HandlerStep, LoadContext, LoadStage, Reserve, Look, AdmitForeign, AdmitDenied,
              AdmitGranted, Admission, Answer, CallLost, Record, RecordLost, rows
<1>3. ASSUME NEW w \in Worker,
             \/ QueueStep(w) \/ HandlerStarts(w) \/ HandlerIsOver(w) \/ HandlerIsCut(w)
             \/ CallBeats(w)
             \/ \E kind \in RaisedKind : HandlerRaises(w, kind)
      PROVE  stages' = stages
  BY <1>3 DEF QueueStep, HandlerStarts, HandlerIsOver, HandlerIsCut, CallBeats, HandlerRaises,
              rows
<1>4. HTick \/ UNCHANGED hvars => stages' = stages
  BY DEF HTick, hvars, rows
<1>5. ASSUME NEW r \in Run, NEW rev \in Revision, NEW mode \in Mode, HSchedule(r, rev, mode)
      PROVE  stages' = stages
  BY <1>5 DEF HSchedule, rows
<1> QED BY <1>1, <1>2, <1>3, <1>4, <1>5 DEF HNext

\* The stage appended is the next one, and the one before it was not the last.
LEMMA AppendedRow ==
  ASSUME HandlerInv, NEW w \in Worker, StandsInOrder(w), NEW last \in BOOLEAN, Appends(w, last)
  PROVE  LET t == held[w]
             n == at[w].stage
         IN  /\ t \in Task /\ n = Len(stages[t]) + 1 /\ Len(stages'[t]) = n
             /\ DOMAIN stages'[t] = 1 .. n
             /\ stages'[t][n] = Row(w, last)
             /\ \A m \in 1 .. Len(stages[t]) : stages'[t][m] = stages[t][m]
             /\ ~ Complete(t)
             /\ \A u \in Task \ {t} : stages'[u] = stages[u]
<1> DEFINE t == held[w]
           n == at[w].stage
           S == [by : Nat, last : BOOLEAN]
<1>1. t \in Task /\ n \in 1 .. Stages /\ at[w].attempt \in Nat
  BY OrderTyped DEF Appends, HandlerState
<1>2. /\ Len(stages[t]) \in 0 .. Stages
      /\ \A m \in 1 .. Len(stages[t]) : stages[t][m] \in S
  BY <1>1, OrderTyped
<1>3. Reached(t, n) /\ ~ Committed(t, n)
  BY DEF StandsInOrder, Appends
<1>4. n = Len(stages[t]) + 1
  <2>1. Stages \in Nat /\ n \in Nat \ {0} /\ Len(stages[t]) \in Nat
    BY <1>1, <1>2, HandlerAssumption
  <2>2. ~ (n =< Len(stages[t]))
    BY <1>3 DEF Committed
  <2>3. n = 1 \/ n - 1 =< Len(stages[t])
    BY <1>3 DEF Reached, Committed
  <2> HIDE DEF t, n
  <2> QED BY <2>1, <2>2, <2>3
<1>5. stages'[t] = Append(stages[t], Row(w, last)) /\ \A u \in Task \ {t} : stages'[u] = stages[u]
  BY <1>1 DEF Appends, HandlerInv, HandlerTypeOK
<1>6. /\ Len(stages'[t]) = n /\ stages'[t][n] = Row(w, last) /\ DOMAIN stages'[t] = 1 .. n
      /\ \A m \in 1 .. Len(stages[t]) : stages'[t][m] = stages[t][m]
  <2>1. stages[t] \in Seq(S) /\ Row(w, last) \in S
    BY <1>1 DEF HandlerInv, HandlerTypeOK, Row, Author
  <2> HIDE DEF S
  <2>2. /\ Len(Append(stages[t], Row(w, last))) = Len(stages[t]) + 1
        /\ DOMAIN Append(stages[t], Row(w, last)) = 1 .. Len(stages[t]) + 1
        /\ Append(stages[t], Row(w, last))[Len(stages[t]) + 1] = Row(w, last)
        /\ \A m \in 1 .. Len(stages[t]) : Append(stages[t], Row(w, last))[m] = stages[t][m]
    BY <2>1, <1>2, AppendProperties, LenProperties
  <2> QED BY <1>4, <1>5, <2>2
<1>7. ~ Complete(t)
  <2>1. Len(stages[t]) > 0 => ~ stages[t][Len(stages[t])].last
    BY <1>1, <1>2, <1>3, <1>4 DEF Reached
  <2> QED BY <1>1, <1>2, <1>4, <2>1, HandlerAssumption DEF Complete
<1> QED BY <1>1, <1>4, <1>5, <1>6, <1>7

\* What nobody takes back.
Grows ==
  /\ \A t \in Task : /\ Len(stages[t]) <= Len(stages'[t])
                     /\ \A n \in 1 .. Len(stages[t]) : stages'[t][n] = stages[t][n]
                     /\ Complete(t) => stages'[t] = stages[t]
                     /\ reserved[t] \subseteq reserved'[t]
  /\ \A id \in Audited : id \in DOMAIN audit' /\ audit'[id] = audit[id]

LEMMA AllGrows ==
  ASSUME OrderGround, OrderInv, [HNext]_hvars
  PROVE  Grows
<1>0. HandlerInv /\ InFlightOrRecorded /\ CollectorInv /\ reserved \in [Task -> SUBSET External]
  BY DEF OrderGround, LoginGround, HandlerInv, HandlerTypeOK
<1>1. \A id \in Audited : id \in DOMAIN audit' /\ audit'[id] = audit[id]
  BY <1>0, CallsMoveSo, InFlightOrRecordedKept
<1>2. ASSUME NEW t \in Task PROVE reserved[t] \subseteq reserved'[t]
  BY <1>0, CollectorsMoveSo DEF CollectorsMove, Reserves
<1>3. ASSUME NEW t \in Task
      PROVE  /\ Len(stages[t]) <= Len(stages'[t])
             /\ \A n \in 1 .. Len(stages[t]) : stages'[t][n] = stages[t][n]
             /\ Complete(t) => stages'[t] = stages[t]
  <2>0. Len(stages[t]) \in Nat
    BY <1>0, OrderTyped
  <2>1. CASE stages'[t] = stages[t]
    BY <2>0, <2>1
  <2>2. ASSUME NEW w \in Worker, NEW last \in BOOLEAN, Appends(w, last), t = held[w]
        PROVE  /\ Len(stages[t]) <= Len(stages'[t])
               /\ \A n \in 1 .. Len(stages[t]) : stages'[t][n] = stages[t][n]
               /\ ~ Complete(t)
    BY <1>0, <2>0, <2>2, AppendedRow DEF OrderInv, OrderOf
  <2>3. ASSUME NEW w \in Worker, NEW last \in BOOLEAN, Appends(w, last), t # held[w]
        PROVE  stages'[t] = stages[t]
    BY <1>0, <2>3, AppendedRow DEF OrderInv, OrderOf
  <2> QED BY <2>1, <2>2, <2>3, OnlyCommitsAppend
<1> QED BY <1>1, <1>2, <1>3 DEF Grows

\* So what was reached, complete, recorded or accounted for stays so.
LEMMA GrowsKeeps ==
  ASSUME HandlerInv, HandlerInv', Grows, NEW t \in Task, NEW n \in Nat, NEW a
  PROVE  /\ Committed(t, n) => Committed(t, n)'
         /\ n \in 1 .. Stages /\ Reached(t, n) => Reached(t, n)'
         /\ HasSource(t, a, n) => HasSource(t, a, n)'
         /\ Invalid(<<t, a, n, 0>>) => Invalid(<<t, a, n, 0>>)'
         /\ Complete(t) => Complete(t)'
<1>1. Len(stages[t]) \in Nat /\ Len(stages[t]) <= Len(stages'[t])
  BY OrderTyped DEF Grows
<1>2. Len(stages'[t]) \in Nat
  BY LenProperties DEF HandlerInv, HandlerTypeOK
<1> QED BY <1>1, <1>2 DEF Grows, Committed, Reached, HasSource, Invalid, Complete, Audited

\* A task that is there stays, and only a claim makes its attempts one more.
LEMMA AttemptsMove ==
  ASSUME TypeOK, NoTasksBeforeRun, [Next]_vars, NEW t \in Task, task[t].status # "ABSENT"
  PROVE  /\ task'[t].status # "ABSENT"
         /\ \/ task'[t].attempts = task[t].attempts
            \/ /\ \E w \in Worker : ClaimLock(w) /\ held[w] = t
               /\ task'[t].attempts = task[t].attempts + 1
<1>0. task \in [Task -> TaskRow] /\ task[t] \in TaskRow /\ run[RunOf(t)].status # "ABSENT"
  BY DEF TypeOK, NoTasksBeforeRun
<1>1. task'[t].status # "ABSENT"
  BY <1>0, TaskMoves DEF TaskMove, Open, Settled
<1> DEFINE Same == task'[t].attempts = task[t].attempts
<1>2. ASSUME NEW r \in Run, NEW rev \in Revision, NEW mode \in Mode,
             NEW keys \in SUBSET Key, Schedule(r, rev, mode, keys)
      PROVE  Same
  BY <1>0, <1>2 DEF Schedule
<1>3. ASSUME NEW w \in Worker, GiveBack(w) PROVE Same
  BY <1>0, <1>3 DEF GiveBack, TaskRow
<1>4. ASSUME NEW w \in Worker, ReportSuccess(w) \/ ReportFailure(w) PROVE Same
  <2>1. held[w] \in Task
    BY <1>4 DEF ReportSuccess, ReportFailure, Report, TypeOK
  <2>2. CASE held[w] # t
    BY <1>4, <2>1, <2>2, ReportedRow DEF ReportSuccess, ReportFailure, Report
  <2>3. CASE held[w] = t /\ ReportSuccess(w)
    BY <1>0, <2>3 DEF ReportSuccess, Report, Succeeded, TaskRow
  <2>4. CASE held[w] = t /\ ReportFailure(w)
    BY <1>0, <2>4 DEF ReportFailure, Report, Failed, TaskRow
  <2> QED BY <1>4, <2>2, <2>3, <2>4
<1>5. ASSUME NEW w \in Worker, HeartbeatRenews(w) PROVE Same
  BY <1>0, <1>5 DEF HeartbeatRenews, TaskRow
<1>6. ASSUME NEW w \in Worker, ClaimLock(w)
      PROVE  Same \/ (held[w] = t /\ task'[t].attempts = task[t].attempts + 1)
  BY <1>0, <1>6 DEF ClaimLock, TaskRow
<1>7. Tick => Same
  BY TickKeeps
<1>8. ASSUME NEW w \in Worker,
             \/ Poll(w) \/ ClaimSelect(w) \/ ClaimNothing(w) \/ ClaimRaced(w)
             \/ HeartbeatLost(w) \/ ReportLost(w) \/ Crash(w) \/ Restart(w)
             \/ \E o \in Success \union Failure : HandlerEnds(w, o)
      PROVE  Same
  BY <1>8 DEF Poll, Admit, AdmitElsewhere, ClaimSelect, ClaimNothing, ClaimRaced,
              HeartbeatLost, ReportLost, Crash, Restart, HandlerEnds
<1>9. ASSUME NEW w \in Worker, HeartbeatOverdue(w) \/ ReportOverdue(w) PROVE Same
  BY <1>3, <1>9 DEF HeartbeatOverdue, ReportOverdue
<1> QED BY <1>1, <1>2, <1>4, <1>5, <1>6, <1>7, <1>8, <1>9
        DEF Next, Claim, Heartbeat, Settle, vars

\* Calls come from an admission, results from a record; a lease keeps its owner.
LEMMA CallsArise ==
  ASSUME HandlerInv, InFlightOrRecorded, [HNext]_hvars
  PROVE  /\ \A id \in Calls' : id \in Calls \/ \E v \in Worker : AdmitGranted(v) /\ id = Asked(v)
         /\ \A id \in Leased' : \/ id \in Leased /\ lease'[id].owner = lease[id].owner
                                \/ \E v \in Worker : /\ AdmitGranted(v) /\ id = Asked(v)
                                                     /\ lease'[id].owner = v
         /\ \A id \in DOMAIN audit' : \/ id \in Audited /\ audit'[id] = audit[id]
                                      \/ id \in Leased /\ audit'[id] = "FAILED"
                                      \/ \E v \in Worker : Record(v) /\ id = Asked(v)
<1> DEFINE SoLeased(id) == \/ id \in Leased /\ lease'[id].owner = lease[id].owner
                           \/ \E v \in Worker : /\ AdmitGranted(v) /\ id = Asked(v)
                                                /\ lease'[id].owner = v
           SoAudited(id) == \/ id \in Audited /\ audit'[id] = audit[id]
                            \/ id \in Leased /\ audit'[id] = "FAILED"
                            \/ \E v \in Worker : Record(v) /\ id = Asked(v)
           So == (\A id \in Leased' : SoLeased(id)) /\ (\A id \in DOMAIN audit' : SoAudited(id))
<1>0. HandlerTypeOK
  BY DEF HandlerInv
<1>1. ASSUME NEW r, audit' = ReconciledAudit(r), lease' = ReconciledLease(r) PROVE So
  BY <1>1 DEF ReconciledAudit, ReconciledLease, Without, Stale, CallsOf, Leased, Audited
<1>2. ASSUME NEW w \in Worker, AdmitGranted(w) PROVE So
  <2>1. /\ audit' = ReconciledAudit(CallRun(Asked(w)))
        /\ lease' = Put(ReconciledLease(CallRun(Asked(w))), Asked(w),
                        [owner |-> w, ttl |-> Lower(ProviderLease, run[CallRun(Asked(w))].left)])
    BY <1>2 DEF AdmitGranted, Admission
  <2>2. \A id \in Leased' : SoLeased(id)
    BY <1>2, <2>1 DEF Put, ReconciledLease, Without, Leased
  <2>3. \A id \in DOMAIN audit' : SoAudited(id)
    BY <2>1 DEF ReconciledAudit, Stale, CallsOf, Audited
  <2> QED BY <2>2, <2>3
<1>3. ASSUME NEW w \in Worker, Record(w) PROVE So
  BY <1>3 DEF Record, Put, Without, Leased, Audited
<1>4. ASSUME DOMAIN lease' = DOMAIN lease, audit' = audit,
             \A id \in DOMAIN lease : lease'[id].owner = lease[id].owner
      PROVE  So
  BY <1>4 DEF Leased, Audited
<1>5. ASSUME NEW w \in Worker, CallBeats(w) PROVE So
  <2>1. \A id \in DOMAIN lease : lease'[id].owner = lease[id].owner
    BY <1>0, <1>5 DEF CallBeats, HandlerTypeOK, Leased
  <2> QED BY <1>4, <1>5, <2>1 DEF CallBeats
<1>6. ASSUME HTick PROVE So
  <2>1. \A id \in DOMAIN lease : lease'[id].owner = lease[id].owner
    BY <1>0, <1>6 DEF HTick, HandlerTypeOK, Leased
  <2> QED BY <1>4, <1>6, <2>1 DEF HTick, Leased
<1>7. ASSUME NEW w \in Worker, AdmitDenied(w) PROVE So
  BY <1>1, <1>7 DEF AdmitDenied, Admission
<1>8. ASSUME UNCHANGED <<lease, audit>> PROVE So
  BY <1>4, <1>8
<1>9. ASSUME NEW w \in Worker,
             \/ LoadContext(w) \/ LoadStage(w) \/ Reserve(w)
             \/ \E last \in BOOLEAN : CommitStage(w, last)
             \/ Look(w) \/ AdmitForeign(w) \/ \E result \in Recorded : Answer(w, result)
             \/ CallLost(w) \/ RecordLost(w)
      PROVE  So
  BY <1>8, <1>9 DEF LoadContext, LoadStage, Reserve, CommitStage, Look, AdmitForeign, Answer,
                    CallLost, RecordLost, rows
<1>10. ASSUME NEW w \in Worker,
              \/ QueueStep(w) \/ HandlerStarts(w) \/ HandlerIsOver(w) \/ HandlerIsCut(w)
              \/ \E kind \in RaisedKind : HandlerRaises(w, kind)
       PROVE  So
  BY <1>8, <1>10 DEF QueueStep, HandlerStarts, HandlerIsOver, HandlerIsCut, HandlerRaises, rows
<1>11. ASSUME NEW r \in Run, NEW rev \in Revision, NEW mode \in Mode, HSchedule(r, rev, mode)
       PROVE  So
  BY <1>8, <1>11 DEF HSchedule, rows
<1>12. UNCHANGED hvars => So
  BY <1>8 DEF hvars, rows
<1>13. So
  BY <1>2, <1>3, <1>5, <1>6, <1>7, <1>9, <1>10, <1>11, <1>12 DEF HNext, HandlerStep
<1>14. ASSUME NEW id \in Calls' PROVE id \in Calls \/ \E v \in Worker : AdmitGranted(v) /\ id = Asked(v)
  <2>1. CASE id \in Leased'
    BY <1>13, <2>1 DEF Calls
  <2>2. CASE id \in Audited'
    BY <1>13, <2>2 DEF Calls, Record, Holds, Audited
  <2> QED BY <1>14, <2>1, <2>2 DEF Calls
<1> QED BY <1>13, <1>14

\* A worker that neither moves nor leaves its task.
LEMMA WaitingOwns ==
  ASSUME OrderGround, OrderInv, [HNext]_hvars, HandlerInv', NEW w \in Worker, Waits(w)
  PROVE  OwnsItsCalls(w)'
<1>0. /\ HandlerInv /\ InFlightOrRecorded /\ TypeOK /\ BegunBeforeLease /\ [Next]_vars
      /\ CollectorInv /\ NoTasksBeforeRun
      /\ \A v \in Worker : OrderOf(v)
  BY StepOfTheQueue DEF OrderGround, LoginGround, HandlerInv, OrderInv
<1> SUFFICES ASSUME NEW t \in Task, t = held[w], NEW n \in 1 .. Stages, n = at[w].stage,
                    pc[w] = "work", Leases(w, t)', at[w].step # "end"
             PROVE  /\ \A id \in Calls' : id[1] = t /\ id[2] = task'[t].attempts => LiesBehind(id, w)'
                    /\ at[w].step \in Asking => ~ Committed(t, n)'
  <2>1. pc[w] = "work" => held[w] \in Task /\ at[w].stage \in 1 .. Stages
    BY <1>0, OrderTyped DEF HandlerState
  <2> QED BY <2>1 DEF OwnsItsCalls, Waits
<1>1. at[w] \in HandlerState
  BY <1>0, OrderTyped
<1>2. Leases(w, t)
  BY <1>0, LostForGood DEF Waits
<1>3. task'[t].attempts = task[t].attempts
  <2>1. ASSUME NEW v \in Worker, ClaimLock(v), held[v] = t PROVE FALSE
    <3>1. pc[v] = "lock" /\ task'[t].owner = v
      BY <1>0, <1>1, <2>1 DEF ClaimLock, TypeOK, TaskRow
    <3> QED BY <3>1 DEF Leases
  <2>2. task[t].status # "ABSENT"
    BY <1>2 DEF Leases
  <2> QED BY <1>0, <1>1, <2>1, <2>2, AttemptsMove
<1>4. /\ \A id \in Calls : id[1] = t /\ id[2] = task[t].attempts => LiesBehind(id, w)
      /\ at[w].step \in Asking => ~ Committed(t, n)
  BY <1>0, <1>2 DEF OrderOf, OwnsItsCalls
<1>5. ASSUME NEW v \in Worker, AdmitGranted(v), held[v] = t PROVE FALSE
  <2>1. v = w
    BY <1>2, <1>5 DEF AdmitGranted, Admission, Leases
  <2>2. at[w].step = "admit" /\ at'[w].step = "flight"
    BY <1>0, <1>5, <2>1, GoToSays DEF AdmitGranted, Admission, At
  <2> QED BY <2>2 DEF Waits
<1>6. ASSUME NEW v \in Worker, Record(v), LiesBehind(Asked(v), w) PROVE FALSE
  <2>1. v = w
    BY <1>6 DEF Record, Holds, LiesBehind
  <2>2. at[w].step = "answer" /\ at'[w].step \in {"look", "commit", "end"}
    BY <1>0, <1>6, <2>1, ResolveMovesOn DEF Record, At
  <2> QED BY <2>2 DEF Waits
<1>7. ASSUME NEW id \in Calls', id[1] = t, id[2] = task'[t].attempts PROVE LiesBehind(id, w)'
  <2>1. \A v \in Worker : AdmitGranted(v) => id # Asked(v)
    BY <1>5, <1>7 DEF Asked
  <2>2. LiesBehind(id, w)
    BY <1>0, <1>3, <1>4, <1>7, <2>1, CallsArise
  <2>3. \A v \in Worker : Record(v) => id # Asked(v)
    BY <1>6, <2>2
  <2>4. id \in Leased' => lease'[id].owner = w
    BY <1>0, <2>1, <2>2, CallsArise DEF LiesBehind
  <2>5. id \in Audited' => \/ id \in Audited /\ audit'[id] = audit[id]
                           \/ audit'[id] = "FAILED"
    BY <1>0, <2>3, CallsArise DEF Audited
  <2> QED BY <2>2, <2>4, <2>5 DEF LiesBehind, Waits
<1>8. ASSUME at[w].step \in Asking PROVE ~ Committed(t, n)'
  <2>1. CASE stages'[t] = stages[t]
    BY <1>4, <1>8, <2>1 DEF Committed
  <2>2. ASSUME NEW v \in Worker, NEW last \in BOOLEAN, Appends(v, last), held[v] = t
        PROVE  FALSE
    <3>1. at[v].stage = Len(stages[t]) + 1
      BY <1>0, <2>2, AppendedRow DEF OrderOf
    <3>2. n = Len(stages[t]) + 1
      <4>1. StandsInOrder(w) /\ Len(stages[t]) \in 0 .. Stages
        BY <1>0, OrderTyped DEF OrderOf
      <4>2. n = 1 \/ n - 1 <= Len(stages[t])
        BY <4>1 DEF StandsInOrder, Reached, Committed
      <4>3. ~ (n <= Len(stages[t]))
        BY <1>4, <1>8 DEF Committed
      <4> QED BY <4>1, <4>2, <4>3, HandlerAssumption
    <3>3. n \notin External
      BY <1>0, <1>8 DEF CollectorInv, AsksForItself, Asking
    <3>4. HasSource(t, at[v].attempt, n)
      BY <1>0, <2>2, <3>1, <3>2 DEF OrderOf, StandsInOrder, Appends
    <3>5. at[v].attempt = task[t].attempts
      BY <2>2 DEF Appends, Writable
    <3>6. PICK k \in {0, 1} : /\ <<t, task[t].attempts, n, k>> \in Audited
                              /\ audit[<<t, task[t].attempts, n, k>>] = "COMPLETED"
      BY <3>3, <3>4, <3>5 DEF HasSource
    <3> DEFINE id == <<t, task[t].attempts, n, k>>
    <3>7. LiesBehind(id, w) /\ StageOf(id) = n
      BY <1>4, <3>6 DEF Calls, StageOf
    <3> QED BY <1>8, <3>6, <3>7 DEF LiesBehind
  <2>3. ASSUME NEW v \in Worker, NEW last \in BOOLEAN, Appends(v, last), held[v] # t
        PROVE  stages'[t] = stages[t]
    BY <1>0, <1>1, <2>3, AppendedRow DEF OrderOf
  <2> QED BY <2>1, <2>2, <2>3, OnlyCommitsAppend
<1> QED BY <1>7, <1>8

LEMMA WaitingInOrder ==
  ASSUME OrderGround, OrderInv, [HNext]_hvars, HandlerInv', NEW w \in Worker, Waits(w)
  PROVE  OrderOf(w)'
<1>0. HandlerInv /\ Grows /\ OrderOf(w)
  BY AllGrows DEF OrderGround, LoginGround, OrderInv
<1>1. CASE pc[w] \in {"work", "report"}
  <2>0. held[w] \in Task /\ at[w].stage \in 1 .. Stages
    BY <1>0, <1>1, OrderTyped DEF HandlerState
  <2>1. PICK t \in Task, n \in 1 .. Stages, a \in {at[w].attempt} :
             t = held[w] /\ n = at[w].stage /\ a = at[w].attempt
    BY <2>0
  <2>2. /\ Reached(t, n) => Reached(t, n)'
        /\ HasSource(t, a, n) => HasSource(t, a, n)'
        /\ Invalid(<<t, a, n, 0>>) => Invalid(<<t, a, n, 0>>)'
        /\ Complete(t) => Complete(t)'
    BY <1>0, <2>1, GrowsKeeps
  <2>3. reserved[t] \subseteq reserved'[t]
    BY <1>0, <2>1 DEF Grows
  <2>4. StandsInOrder(w)'
    BY <1>0, <2>1, <2>2, <2>3 DEF OrderOf, StandsInOrder, Waits, Reached, Committed, HasSource, Invalid
  <2>5. EndsComplete(w)'
    BY <1>0, <2>1, <2>2 DEF OrderOf, EndsComplete, Waits, At, Complete
  <2> QED BY <2>4, <2>5, WaitingOwns DEF OrderOf
<1>2. CASE pc[w] \notin {"work", "report"}
  BY <1>2 DEF OrderOf, StandsInOrder, EndsComplete, OwnsItsCalls, Waits, At
<1> QED BY <1>1, <1>2

\* w moves, in a step that touches nothing of the queue.
Moves(w) ==
  /\ HandlerInv /\ HandlerInv' /\ Grows /\ OrderOf(w)
  /\ pc[w] = "work" /\ UNCHANGED vars

\* The same call, the same stage.
SamePlace(w) ==
  /\ at'[w].stage = at[w].stage /\ at'[w].attempt = at[w].attempt /\ at'[w].found = at[w].found

LEMMA StandsOn ==
  ASSUME NEW w \in Worker, Moves(w), SamePlace(w),
         at'[w].step \notin {"load", "stage"},
         at'[w].step = "skip" => at[w].stage \in External,
         at'[w].repair = at[w].repair \/ Invalid(<<held[w], at[w].attempt, at[w].stage, 0>>)',
         at'[w].step \in {"commit", "skip"} => HasSource(held[w], at[w].attempt, at[w].stage)'
  PROVE  StandsInOrder(w)'
<1>0. held[w] \in Task /\ at[w].stage \in 1 .. Stages /\ at[w].stage \in Nat
  BY OrderTyped DEF Moves, HandlerState
<1>1. PICK t \in Task, n \in 1 .. Stages, a \in {at[w].attempt} :
           t = held[w] /\ n = at[w].stage /\ a = at[w].attempt
  BY <1>0
<1>2. UNCHANGED <<pc, held>> /\ StandsInOrder(w) /\ pc[w] = "work"
  BY DEF Moves, vars, locals, OrderOf
<1>3. /\ Reached(t, n) => Reached(t, n)'
      /\ Invalid(<<t, a, n, 0>>) => Invalid(<<t, a, n, 0>>)'
      /\ reserved[t] \subseteq reserved'[t]
  BY GrowsKeeps DEF Moves, Grows
<1>4. Reached(held[w], at[w].stage)'
  BY <1>1, <1>2, <1>3 DEF StandsInOrder, SamePlace, Reached, Committed
<1>5. at'[w].repair = 1 => Invalid(<<held[w], at[w].attempt, at[w].stage, 0>>)'
  BY <1>1, <1>2, <1>3 DEF StandsInOrder, SamePlace, Invalid
<1> QED BY <1>1, <1>2, <1>3, <1>4, <1>5 DEF StandsInOrder, SamePlace

LEMMA RaisedInOrder ==
  ASSUME NEW w \in Worker, Moves(w), NEW kind, kind # "COMPLETED", Raise(w, kind)
  PROVE  OrderOf(w)'
<1>1. /\ SamePlace(w) /\ at'[w].repair = at[w].repair
      /\ at'[w].step = "end" /\ at'[w].result = kind
  BY DEF Raise, Moves, HandlerInv, HandlerTypeOK, HandlerState, SamePlace
<1>2. StandsInOrder(w)'
  BY <1>1, StandsOn
<1>3. pc'[w] = "work"
  BY DEF Moves, vars
<1> QED BY <1>1, <1>2, <1>3 DEF OrderOf, EndsComplete, OwnsItsCalls, At

\* What w owns of the calls is what it owned.
LEMMA SameCalls ==
  ASSUME NEW w \in Worker, Moves(w), at[w].step # "end", Leases(w, held[w])',
         Calls' \subseteq Calls, NEW id \in Calls', id[1] = held'[w],
         id[2] = task'[held'[w]].attempts
  PROVE  LiesBehind(id, w)
BY DEF Moves, vars, locals, OrderOf, OwnsItsCalls, Leases

\* On behind a stage that is committed.
LEMMA OnwardInOrder ==
  ASSUME NEW w \in Worker, Moves(w), NEW last \in BOOLEAN, Onward(w, at[w].stage, last),
         NEW t \in Task, t = held[w], NEW n \in 1 .. Stages, n = at[w].stage,
         at[w].step # "end", UNCHANGED <<lease, audit>>,
         Committed(t, n)', stages'[t][n].last = last, last => n = Len(stages'[t])
  PROVE  OrderOf(w)'
<1>0. /\ at[w] \in HandlerState /\ UNCHANGED <<pc, held, task>> /\ pc[w] = "work"
      /\ reserved[t] \subseteq reserved'[t] /\ at[w].found \subseteq reserved[t]
  BY OrderTyped DEF Moves, vars, locals, Grows, OrderOf, StandsInOrder
<1>1. Len(stages'[t]) \in Nat /\ Len(stages'[t]) <= Stages
  <2>1. stages'[t] \in Seq([by : Nat, last : BOOLEAN]) /\ Len(stages'[t]) <= Stages
    BY DEF Moves, HandlerInv, HandlerTypeOK
  <2> QED BY <2>1, LenProperties
<1>2. CASE last \/ n = Stages
  <2>1. /\ SamePlace(w) /\ at'[w].repair = at[w].repair
        /\ at'[w].step = "end" /\ at'[w].result = "COMPLETED"
    BY <1>0, <1>2 DEF Onward, HandlerState, Moves, HandlerInv, HandlerTypeOK, SamePlace
  <2>2. StandsInOrder(w)'
    BY <2>1, StandsOn
  <2>3. Complete(held[w])'
    BY <1>0, <1>1, <1>2, HandlerAssumption DEF Complete, Committed
  <2> QED BY <1>0, <2>1, <2>2, <2>3 DEF OrderOf, EndsComplete, OwnsItsCalls, At
<1>3. CASE ~ (last \/ n = Stages)
  <2>1. /\ at'[w].step = "stage" /\ at'[w].stage = n + 1 /\ at'[w].repair = 0
        /\ at'[w].found = at[w].found
    BY <1>0, <1>3 DEF Onward, HandlerState, Moves, HandlerInv, HandlerTypeOK
  <2>2. Reached(held[w], at[w].stage)'
    BY <1>0, <1>3, <2>1 DEF Reached, Committed
  <2>3. StandsInOrder(w)'
    BY <1>0, <2>1, <2>2 DEF StandsInOrder
  <2>4. ASSUME Leases(w, held[w])', NEW id \in Calls', id[1] = held'[w],
               id[2] = task'[held'[w]].attempts
        PROVE  LiesBehind(id, w)'
    <3>1. Calls' = Calls /\ id \in Id
      BY <2>4, OrderTyped DEF Calls, Leased, Audited, Moves
    <3>2. LiesBehind(id, w)
      BY <2>4, <3>1, SameCalls
    <3>3. StageOf(id) \in Nat
      BY <3>1 DEF StageOf, Id
    <3> QED BY <2>1, <3>2, <3>3 DEF LiesBehind, StageOf, Leased, Asking
  <2> QED BY <1>0, <2>1, <2>3, <2>4 DEF OrderOf, EndsComplete, OwnsItsCalls, At, Asking
<1> QED BY <1>2, <1>3

LEMMA ResolvedInOrder ==
  ASSUME NEW w \in Worker, Moves(w), at[w].step \in Asking, at[w].stage \notin External,
         NEW result, Resolve(w, result), stages' = stages,
         Asked(w) \in DOMAIN audit', audit'[Asked(w)] = result,
         Calls' \subseteq Calls,
         \A id \in Leased' : id \in Leased /\ lease'[id].owner = lease[id].owner,
         \A id \in DOMAIN audit' : \/ id \in Audited /\ audit'[id] = audit[id]
                                   \/ audit'[id] = "FAILED"
                                   \/ id = Asked(w)
  PROVE  OrderOf(w)'
<1>0. /\ at[w] \in HandlerState /\ UNCHANGED <<pc, held, task>> /\ pc[w] = "work"
      /\ at[w].repair \in {0, 1} /\ at[w].step \notin {"end", "load", "stage"}
  BY OrderTyped DEF Moves, vars, locals, HandlerState, Asking
<1>1. CASE result = "INVALID_OUTPUT" /\ at[w].repair = 0
  <2>1. SamePlace(w) /\ at'[w].step = "look" /\ at'[w].repair = 1
    BY <1>0, <1>1 DEF Resolve, HandlerState, Moves, HandlerInv, HandlerTypeOK, SamePlace
  <2>2. Invalid(<<held[w], at[w].attempt, at[w].stage, 0>>)'
    BY <1>0, <1>1, <2>1 DEF Invalid, Asked, Audited, SamePlace
  <2>3. StandsInOrder(w)'
    BY <2>1, <2>2, StandsOn
  <2>4. ASSUME Leases(w, held[w])', NEW id \in Calls', id[1] = held'[w],
               id[2] = task'[held'[w]].attempts
        PROVE  LiesBehind(id, w)'
    <3>1. LiesBehind(id, w) /\ id \in Id
      BY <1>0, <2>4, SameCalls, OrderTyped DEF Moves
    <3>2. id[4] \in {0, 1} /\ (StageOf(id) = at[w].stage => id[4] < 1)
      BY <1>0, <1>1, <3>1, OrderTyped DEF Moves, LiesBehind, Asking
    <3>3. id \in Audited' /\ StageOf(id) = at[w].stage => audit'[id] # "COMPLETED"
      BY <1>1, <3>1 DEF LiesBehind, Audited
    <3> QED BY <2>1, <3>1, <3>2, <3>3 DEF LiesBehind, SamePlace, StageOf
  <2>5. Leases(w, held[w])' => ~ Committed(held[w], at[w].stage)'
    BY <1>0, <2>1 DEF Moves, OrderOf, OwnsItsCalls, Leases, Committed, SamePlace
  <2> QED BY <1>0, <2>1, <2>3, <2>4, <2>5 DEF OrderOf, EndsComplete, OwnsItsCalls, At
<1>2. CASE result = "COMPLETED"
  <2>1. SamePlace(w) /\ at'[w].step = "commit" /\ at'[w].repair = at[w].repair
    BY <1>0, <1>2 DEF Resolve, GoTo, HandlerState, Moves, HandlerInv, HandlerTypeOK, SamePlace
  <2>2. HasSource(held[w], at[w].attempt, at[w].stage)'
    BY <1>0, <1>2, <2>1 DEF HasSource, Asked, Audited, SamePlace
  <2>3. StandsInOrder(w)'
    BY <2>1, <2>2, StandsOn
  <2>4. ASSUME Leases(w, held[w])', NEW id \in Calls', id[1] = held'[w],
               id[2] = task'[held'[w]].attempts
        PROVE  LiesBehind(id, w)'
    <3>1. LiesBehind(id, w)
      BY <1>0, <2>4, SameCalls
    <3> QED BY <2>1, <3>1 DEF LiesBehind, SamePlace, StageOf, Asking
  <2> QED BY <1>0, <2>1, <2>3, <2>4 DEF OrderOf, EndsComplete, OwnsItsCalls, At, Asking
<1>3. CASE result # "COMPLETED" /\ ~ (result = "INVALID_OUTPUT" /\ at[w].repair = 0)
  BY <1>3, RaisedInOrder DEF Resolve
<1> QED BY <1>1, <1>2, <1>3

\* The handler goes to ask, or to commit, without a call.
LEMMA GoneInOrder ==
  ASSUME NEW w \in Worker, Moves(w), NEW step, GoTo(w, step), UNCHANGED <<lease, audit>>,
         \/ step = "look" /\ at[w].step = "stage" /\ ~ Committed(held[w], at[w].stage)'
         \/ step = "reserve" /\ at[w].step = "stage"
         \/ step = "admit" /\ at[w].step = "look" /\ stages' = stages
         \/ step = "skip" /\ at[w].step = "reserve" /\ at[w].stage \in External
         \/ step = "commit" /\ at[w].step = "reserve",
         step \in {"commit", "skip"} => HasSource(held[w], at[w].attempt, at[w].stage)'
  PROVE  OrderOf(w)'
<1>0. /\ at[w] \in HandlerState /\ UNCHANGED <<pc, held, task>> /\ pc[w] = "work"
      /\ at[w].step # "end"
  BY OrderTyped DEF Moves, vars, locals
<1>1. SamePlace(w) /\ at'[w].step = step /\ at'[w].repair = at[w].repair
  BY <1>0 DEF GoTo, HandlerState, Moves, HandlerInv, HandlerTypeOK, SamePlace
<1>2. StandsInOrder(w)'
  BY <1>1, StandsOn
<1>3. ASSUME Leases(w, held[w])', NEW id \in Calls', id[1] = held'[w],
             id[2] = task'[held'[w]].attempts
      PROVE  LiesBehind(id, w)'
  <2>1. Calls' = Calls
    BY DEF Calls, Leased, Audited
  <2>2. LiesBehind(id, w)
    BY <1>0, <1>3, <2>1, SameCalls
  <2> QED BY <1>1, <2>2 DEF LiesBehind, SamePlace, StageOf, Leased, Audited, Asking
<1>4. Leases(w, held[w])' /\ step \in Asking => ~ Committed(held[w], at[w].stage)'
  BY <1>0, <1>1 DEF Moves, OrderOf, OwnsItsCalls, Leases, Committed, SamePlace, Asking
<1> QED BY <1>0, <1>1, <1>2, <1>3, <1>4 DEF OrderOf, EndsComplete, OwnsItsCalls, At

LEMMA CheckpointInOrder ==
  ASSUME OrderGround, OrderInv, [HNext]_hvars, HandlerInv', NEW w \in Worker,
         \/ LoadContext(w) \/ LoadStage(w) \/ Reserve(w)
         \/ \E last \in BOOLEAN : CommitStage(w, last)
  PROVE  OrderOf(w)'
<1>0. /\ Moves(w) /\ HandlerInv /\ OrderOf(w) /\ pc[w] = "work"
      /\ UNCHANGED <<pc, held, task>> /\ UNCHANGED <<lease, audit>> /\ Calls' = Calls
  BY AllGrows DEF OrderGround, LoginGround, OrderInv, Moves, LoadContext, LoadStage, Reserve,
     CommitStage, At, rows, vars, locals, Calls, Leased, Audited
<1>1. PICK t \in Task, n \in 1 .. Stages : t = held[w] /\ n = at[w].stage
  BY <1>0, OrderTyped DEF HandlerState
<1>2. /\ at[w] \in HandlerState /\ StandsInOrder(w) /\ CheckpointStands(t)
      /\ Len(stages[t]) \in 0 .. Stages /\ DOMAIN stages[t] = 1 .. Len(stages[t])
      /\ \A m \in 1 .. Len(stages[t]) : stages[t][m] \in [by : Nat, last : BOOLEAN]
  BY <1>0, <1>1, OrderTyped DEF OrderOf, OrderInv
<1>3. CASE Refused(w)
  BY <1>0, <1>3, RaisedInOrder DEF Refused
<1>4. CASE LoadContext(w)
  <2>1. CASE task[t].owner = NoWorker
    BY <1>0, <1>1, <1>4, <2>1, RaisedInOrder DEF LoadContext
  <2>2. CASE task[t].owner # NoWorker
    <3>1. /\ at[w].step = "load" /\ UNCHANGED rows
          /\ at'[w].step = "stage" /\ at'[w].stage = at[w].stage
          /\ at'[w].repair = at[w].repair /\ at'[w].found = reserved[t]
      BY <1>1, <1>2, <1>4, <2>2
         DEF LoadContext, At, HandlerState, Moves, HandlerInv, HandlerTypeOK
    <3>2. StandsInOrder(w)'
      BY <1>0, <1>1, <1>2, <3>1 DEF StandsInOrder, Reached, Committed, rows
    <3>3. ASSUME Leases(w, held[w])', NEW id \in Calls', id[1] = held'[w],
                 id[2] = task'[held'[w]].attempts
          PROVE  FALSE
      BY <1>0, <3>1, <3>3, SameCalls DEF LiesBehind
    <3> QED BY <1>0, <3>1, <3>2, <3>3 DEF OrderOf, EndsComplete, OwnsItsCalls, At, Asking
  <2> QED BY <2>1, <2>2
<1>5. ASSUME Committed(t, n), Onward(w, n, stages[t][n].last), stages'[t] = stages[t],
             at[w].step # "end"
      PROVE  OrderOf(w)'
  <2>1. n \in DOMAIN stages[t] /\ stages[t][n].last \in BOOLEAN
    BY <1>2, <1>5 DEF Committed
  <2>2. stages[t][n].last => n = Len(stages[t])
    BY <1>2, <2>1 DEF CheckpointStands
  <2>3. Committed(t, n)'
    BY <1>5 DEF Committed
  <2> QED BY <1>0, <1>1, <1>5, <2>1, <2>2, <2>3, OnwardInOrder
<1>6. CASE LoadStage(w)
  <2>1. at[w].step = "stage" /\ stages' = stages /\ reserved' = reserved
    BY <1>6 DEF LoadStage, At, rows
  <2>2. CASE Committed(t, n) /\ Onward(w, n, stages[t][n].last)
    BY <1>5, <2>1, <2>2
  <2>3. CASE ~ Committed(t, n) /\ GoTo(w, IF n \in External THEN "reserve" ELSE "look")
    <3>1. ~ Committed(held[w], at[w].stage)'
      BY <1>0, <1>1, <1>2, <2>1, <2>3 DEF Committed, GoTo, Moves, HandlerInv, HandlerTypeOK,
         HandlerState
    <3>2. CASE n \in External
      BY <1>0, <2>1, <2>3, <3>2, GoneInOrder
    <3>3. CASE n \notin External
      BY <1>0, <2>1, <2>3, <3>1, <3>3, GoneInOrder
    <3> QED BY <3>2, <3>3
  <2> QED BY <1>1, <1>3, <1>6, <2>2, <2>3 DEF LoadStage
<1>7. CASE Reserve(w)
  <2>1. at[w].step = "reserve" /\ n \in External /\ stages' = stages
    BY <1>0, <1>1, <1>7 DEF Reserve, At, HandlerInv, WellPlaced
  <2>2. ASSUME NEW step \in {"skip", "commit"}, GoTo(w, step), n \in reserved'[t]
        PROVE  OrderOf(w)'
    <3>1. at'[w].stage = at[w].stage
      BY <1>0, <2>2, GoToMovesOn
    <3>2. HasSource(held[w], at[w].attempt, at[w].stage)'
      BY <1>0, <1>1, <2>1, <2>2, <3>1 DEF HasSource
    <3> QED BY <1>0, <1>1, <2>1, <2>2, <3>2, GoneInOrder
  <2>3. CASE n \in at[w].found /\ GoTo(w, "skip") /\ UNCHANGED reserved
    <3>1. n \in reserved'[t]
      BY <1>0, <1>1, <1>2, <2>3 DEF StandsInOrder
    <3> QED BY <2>2, <2>3, <3>1
  <2>4. CASE Raise(w, "INTEGRITY")
    BY <1>0, <2>4, RaisedInOrder
  <2>5. CASE GoTo(w, "commit") /\ reserved' = [reserved EXCEPT ![t] = @ \union {n}]
    <3>1. n \in reserved'[t]
      BY <1>0, <2>5 DEF HandlerInv, HandlerTypeOK
    <3> QED BY <2>2, <2>5, <3>1
  <2> QED BY <1>1, <1>3, <1>7, <2>3, <2>4, <2>5 DEF Reserve
<1>8. ASSUME NEW last \in BOOLEAN, CommitStage(w, last) PROVE OrderOf(w)'
  <2>1. at[w].step \in {"commit", "skip"}
    BY <1>8 DEF CommitStage, At
  <2>2. CASE Committed(t, n) /\ Onward(w, n, stages[t][n].last) /\ UNCHANGED stages
    BY <1>5, <2>1, <2>2
  <2>3. CASE Raise(w, "PERMANENT")
    BY <1>0, <2>3, RaisedInOrder
  <2>4. CASE Appends(w, last)
    <3>1. /\ n = Len(stages'[t]) /\ stages'[t][n].last = last
      <4>1. n = Len(stages'[t]) /\ stages'[t][n] = Row(w, last)
        BY <1>0, <1>1, <1>2, <2>4, AppendedRow
      <4> QED BY <4>1 DEF Row
    <3>2. Committed(t, n)'
      BY <3>1 DEF Committed
    <3>3. Onward(w, at[w].stage, last)
      BY <2>4 DEF Appends
    <3> QED BY <1>0, <1>1, <2>1, <3>1, <3>2, <3>3, OnwardInOrder
  <2> QED BY <1>0, <1>1, <1>3, <1>8, <2>1, <2>2, <2>3, <2>4 DEF CommitStage, Appends, Row
<1> QED BY <1>4, <1>6, <1>7, <1>8

LEMMA CallInOrder ==
  ASSUME OrderGround, OrderInv, [HNext]_hvars, HandlerInv', NEW w \in Worker,
         \/ Look(w) \/ AdmitForeign(w) \/ AdmitDenied(w) \/ AdmitGranted(w)
         \/ \E result \in Recorded : Answer(w, result)
         \/ CallLost(w) \/ Record(w) \/ RecordLost(w)
  PROVE  OrderOf(w)'
<1>0. /\ Moves(w) /\ HandlerInv /\ InFlightOrRecorded /\ CollectorInv /\ LoginInv
      /\ OrderOf(w) /\ pc[w] = "work" /\ UNCHANGED <<pc, held, task>> /\ stages' = stages
      /\ at[w].step \in Asking
  BY AllGrows DEF OrderGround, LoginGround, OrderInv, Moves, Look, AdmitForeign, AdmitDenied,
     AdmitGranted, Admission, Answer, CallLost, Record, RecordLost, At, rows, vars, locals, Asking
<1>1. at[w].stage \notin External /\ at[w] \in HandlerState
  BY <1>0, OrderTyped DEF CollectorInv, AsksForItself, Asking
<1>2. CASE AdmitForeign(w) \/ CallLost(w) \/ RecordLost(w)
  BY <1>0, <1>2, RaisedInOrder DEF AdmitForeign, CallLost, RecordLost
<1>3. ASSUME NEW result, Resolve(w, result), Asked(w) \in DOMAIN audit', audit'[Asked(w)] = result,
             \A id \in Leased' : id \in Leased /\ lease'[id].owner = lease[id].owner,
             \A id \in DOMAIN audit' : \/ id \in Audited /\ audit'[id] = audit[id]
                                       \/ id \in Leased /\ audit'[id] = "FAILED"
                                       \/ id \in Leased /\ id = Asked(w)
      PROVE  OrderOf(w)'
  <2>1. Calls' \subseteq Calls
    BY <1>3 DEF Calls, Audited
  <2> QED BY <1>0, <1>1, <1>3, <2>1, ResolvedInOrder
<1>4. CASE Look(w)
  <2>1. CASE Asked(w) \in Audited
    BY <1>3, <1>4, <2>1 DEF Look, rows, Leased, Audited
  <2>2. CASE Asked(w) \notin Audited
    BY <1>0, <1>4, <2>2, GoneInOrder DEF Look, At, rows
  <2> QED BY <2>1, <2>2
<1>5. CASE AdmitDenied(w)
  <2>1. CASE Asked(w) \in Audited
    <3>1. /\ audit' = ReconciledAudit(CallRun(Asked(w)))
          /\ lease' = ReconciledLease(CallRun(Asked(w)))
          /\ Resolve(w, audit[Asked(w)])
      BY <1>5, <2>1 DEF AdmitDenied, Admission
    <3>2. /\ Asked(w) \in DOMAIN audit' /\ audit'[Asked(w)] = audit[Asked(w)]
          /\ \A id \in Leased' : id \in Leased /\ lease'[id].owner = lease[id].owner
          /\ \A id \in DOMAIN audit' : \/ id \in Audited /\ audit'[id] = audit[id]
                                       \/ id \in Leased /\ audit'[id] = "FAILED"
      BY <2>1, <3>1 DEF ReconciledAudit, ReconciledLease, Without, Stale, CallsOf, Leased, Audited
    <3> QED BY <1>3, <3>1, <3>2
  <2>2. CASE Asked(w) \notin Audited
    <3>1. Denial(w, Asked(w)) # "COMPLETED"
      BY DenialKinds DEF Raised
    <3> QED BY <1>0, <1>5, <2>2, <3>1, RaisedInOrder DEF AdmitDenied
  <2> QED BY <2>1, <2>2
<1>6. CASE Record(w)
  <2>1. /\ Asked(w) \in Leased /\ Resolve(w, at[w].result)
        /\ audit' = Put(audit, Asked(w), at[w].result)
        /\ lease' = Without(lease, {Asked(w)})
    BY <1>6 DEF Record, Holds
  <2>2. /\ Asked(w) \in DOMAIN audit' /\ audit'[Asked(w)] = at[w].result
        /\ \A id \in Leased' : id \in Leased /\ lease'[id].owner = lease[id].owner
        /\ \A id \in DOMAIN audit' : \/ id \in Audited /\ audit'[id] = audit[id]
                                     \/ id = Asked(w)
    BY <2>1 DEF Put, Without, Leased, Audited
  <2> QED BY <1>3, <2>1, <2>2
<1>7. CASE AdmitGranted(w) \/ \E result \in Recorded : Answer(w, result)
  <2>1. /\ SamePlace(w) /\ at'[w].repair = at[w].repair
        /\ \/ AdmitGranted(w) /\ at[w].step = "admit" /\ at'[w].step = "flight"
           \/ at[w].step = "flight" /\ at'[w].step = "answer" /\ UNCHANGED <<lease, audit>>
    <3>1. CASE AdmitGranted(w)
      BY <1>0, <1>1, <3>1 DEF AdmitGranted, Admission, At, GoTo, SamePlace, HandlerState, Moves,
         HandlerInv, HandlerTypeOK
    <3>2. ASSUME NEW result \in Recorded, Answer(w, result)
          PROVE  /\ SamePlace(w) /\ at'[w].repair = at[w].repair
                 /\ at[w].step = "flight" /\ at'[w].step = "answer" /\ UNCHANGED <<lease, audit>>
      BY <1>0, <1>1, <3>2 DEF Answer, At, SamePlace, HandlerState, Moves, HandlerInv,
         HandlerTypeOK, rows
    <3> QED BY <1>7, <3>1, <3>2
  <2>2. StandsInOrder(w)'
    BY <1>0, <2>1, StandsOn
  <2>3. ASSUME Leases(w, held[w])'
        PROVE  /\ \A id \in Calls : id[1] = held[w] /\ id[2] = task[held[w]].attempts
                                      => LiesBehind(id, w)
               /\ ~ Committed(held[w], at[w].stage)
    BY <1>0, <2>3 DEF OrderOf, OwnsItsCalls, Leases, Asking
  <2>4. ASSUME Leases(w, held[w])', NEW id \in Calls', id[1] = held'[w],
               id[2] = task'[held'[w]].attempts
        PROVE  LiesBehind(id, w)'
    <3>1. CASE AdmitGranted(w) /\ id = Asked(w)
      <4>1. at[w].step = "admit" /\ Asked(w) \notin Audited
        BY <3>1 DEF AdmitGranted, Admission, At
      <4>2. /\ audit' = ReconciledAudit(CallRun(Asked(w))) /\ lease'[Asked(w)].owner = w
        BY <3>1 DEF AdmitGranted, Admission, Put
      <4>3. id \in Audited' => audit'[id] # "COMPLETED"
        BY <3>1, <4>1, <4>2 DEF ReconciledAudit, Audited
      <4>4. StageOf(id) = at[w].stage /\ id[4] = at[w].repair
        BY <3>1 DEF Asked, StageOf
      <4> QED BY <1>1, <2>1, <3>1, <4>1, <4>2, <4>3, <4>4
              DEF LiesBehind, SamePlace, StageOf, HandlerState, Asking
    <3>2. CASE id # Asked(w) \/ ~ AdmitGranted(w)
      <4>1. ASSUME NEW v \in Worker, AdmitGranted(v) \/ Record(v) PROVE v = w /\ AdmitGranted(w)
        <5>1. \A u \in Worker \ {v} : at'[u] = at[u]
          BY <1>0, <4>1, GoToMovesOn, ResolveMovesOn DEF AdmitGranted, Record
        <5>2. v = w
          BY <2>1, <5>1
        <5> QED BY <2>1, <4>1, <5>2 DEF Record, At
      <4>2. id \in Calls /\ (id \in Leased' => id \in Leased /\ lease'[id].owner = lease[id].owner)
        BY <1>0, <2>4, <3>2, <4>1, CallsArise
      <4>3. id \in Audited' => (id \in Audited /\ audit'[id] = audit[id]) \/ audit'[id] = "FAILED"
        <5>1. ~ \E v \in Worker : Record(v)
          BY <2>1, <4>1 DEF Record, At
        <5> QED BY <1>0, <5>1, CallsArise DEF Audited
      <4>4. LiesBehind(id, w)
        BY <1>0, <2>3, <2>4, <4>2
      <4>5. id[4] \in {0, 1} /\ at[w].repair \in {0, 1}
        BY <1>0, <1>1, <4>2, OrderTyped DEF HandlerState
      <4> QED BY <2>1, <4>2, <4>3, <4>4, <4>5 DEF LiesBehind, SamePlace, StageOf, Asking
    <3> QED BY <3>1, <3>2
  <2>5. Leases(w, held[w])' => ~ Committed(held[w], at[w].stage)'
    BY <1>0, <2>1, <2>3 DEF Committed, SamePlace
  <2> QED BY <1>0, <2>1, <2>2, <2>4, <2>5 DEF OrderOf, EndsComplete, OwnsItsCalls, At
<1> QED BY <1>2, <1>4, <1>5, <1>6, <1>7

\* Every worker goes through every step.
LEMMA OrderOfKept ==
  ASSUME OrderGround, OrderInv, [HNext]_hvars, HandlerInv', NEW w \in Worker
  PROVE  OrderOf(w)'
<1>0. /\ HandlerInv /\ TypeOK /\ OrderOf(w)
      /\ at \in [Worker -> HandlerState] /\ pc \in [Worker -> Place]
      /\ outcome \in [Worker -> Success \union Failure]
  BY DEF OrderGround, LoginGround, OrderInv, HandlerInv, TypeOK, HandlerTypeOK
<1>1. CASE Waits(w)
  BY <1>1, WaitingInOrder
<1>2. CASE HandlerStep(w)
  BY <1>2, CheckpointInOrder, CallInOrder DEF HandlerStep
<1>3. ASSUME NEW kind \in RaisedKind, HandlerRaises(w, kind)
      PROVE  OrderOf(w)'
  <2>1. Moves(w) /\ Raise(w, kind)
    BY <1>0, <1>3, AllGrows DEF HandlerRaises, Moves
  <2> QED BY <1>3, <2>1, RaisedInOrder DEF RaisedKind
<1>4. CASE HandlerStarts(w)
  <2>1. /\ pc'[w] = "work" /\ at'[w].step = "load" /\ at'[w].stage = 1 /\ at'[w].repair = 0
        /\ at'[w].found = {} /\ held' = held /\ held[w] \in Task
        /\ task'[held[w]].attempts = task[held[w]].attempts + 1 /\ UNCHANGED <<lease, audit>>
    BY <1>0, <1>4, TaskFacts DEF HandlerStarts, ClaimLock, NoHandler, TypeOK, TaskRow, rows
  <2>2. StandsInOrder(w)'
    BY <2>1 DEF StandsInOrder, Reached
  <2>3. ASSUME NEW id \in Calls', id[1] = held[w] PROVE id[2] # task'[held[w]].attempts
    <3>1. id \in Calls
      BY <2>1, <2>3 DEF Calls, Leased, Audited
    <3>2. id[2] <= task[held[w]].attempts /\ id[2] \in Nat
      BY <1>0, <2>3, <3>1, OrderTyped DEF OrderInv, CallFollows
    <3>3. task[held[w]].attempts \in Nat
      BY <1>0, <2>1 DEF TypeOK, TaskRow
    <3> QED BY <2>1, <3>2, <3>3
  <2> QED BY <2>1, <2>2, <2>3 DEF OrderOf, EndsComplete, OwnsItsCalls, At, Asking
<1>5. CASE HandlerIsOver(w)
  <2>1. /\ At(w, "end") /\ pc'[w] = "report" /\ outcome'[w] = Ending(at[w])
        /\ held'[w] = held[w] /\ pc[w] = "work" /\ UNCHANGED stages
    BY <1>0, <1>5 DEF HandlerIsOver, HandlerEnds, At, rows
  <2>2. outcome'[w].kind = "NONE" => at[w].result = "COMPLETED"
    <3>1. at[w].result \in Recorded \union Raised
      BY <2>1 DEF At, HandlerInv, WellPlaced, OrderGround, LoginGround
    <3> QED BY <2>1, <3>1 DEF Ending, NoOutcome, Recorded, Raised
  <2>3. outcome'[w].kind = "NONE" => Complete(held[w])
    BY <1>0, <2>1, <2>2 DEF OrderOf, EndsComplete
  <2> QED BY <2>1, <2>3 DEF OrderOf, StandsInOrder, EndsComplete, OwnsItsCalls, At, Complete
<1>6. CASE pc'[w] \notin {"work", "report"}
  BY <1>6 DEF OrderOf, StandsInOrder, EndsComplete, OwnsItsCalls, At
<1> QED BY <1>0, <1>1, <1>2, <1>3, <1>4, <1>5, <1>6, EachMovesItself

LEMMA CallFollowsKept ==
  ASSUME OrderGround, OrderInv, [HNext]_hvars, HandlerInv', NEW id \in Calls'
  PROVE  CallFollows(id)'
<1>0. /\ HandlerInv /\ InFlightOrRecorded /\ TypeOK /\ [Next]_vars /\ NoTasksBeforeRun
      /\ LoginInv /\ OwnerIsCurrentAttempt /\ Grows
  BY StepOfTheQueue, AllGrows DEF OrderGround, LoginGround, HandlerInv
<1>1. ASSUME NEW t \in Task PROVE Len(stages'[t]) \in Nat /\ Len(stages[t]) \in Nat
  BY LenProperties, <1>0 DEF HandlerInv, HandlerTypeOK
<1>2. CASE id \in Calls
  <2>1. /\ CallFollows(id) /\ id \in Id /\ id[1] \in Task /\ id[3] \in 1 .. Stages
        /\ id[2] \in Nat
    BY <1>0, <1>2, OrderTyped DEF OrderInv
  <2>2. PICK t \in Task, n \in 1 .. Stages, a \in Nat : t = id[1] /\ n = id[3] /\ a = id[2]
    BY <2>1
  <2>3. Invalid(<<t, a, n, 0>>) => Invalid(<<t, a, n, 0>>)'
    BY <1>0, GrowsKeeps
  <2>4. task[t].attempts \in Nat /\ task'[t].status # "ABSENT" /\ task[t].attempts <= task'[t].attempts
    <3>1. task[t].attempts \in Nat
      BY <1>0, <2>2 DEF TypeOK, TaskRow
    <3> QED BY <1>0, <2>1, <2>2, <3>1, AttemptsMove DEF CallFollows
  <2>5. Len(stages[t]) <= Len(stages'[t])
    BY <1>0 DEF Grows
  <2>6. task'[t].attempts \in Nat
    BY DEF HandlerInv, TypeOK, TaskRow
  <2>7. id[4] = 1 => Invalid(<<t, a, n, 0>>)'
    BY <2>1, <2>2, <2>3 DEF CallFollows, Invalid
  <2>8. n <= Len(stages[t]) + 1 /\ a <= task[t].attempts
    BY <2>1, <2>2 DEF CallFollows, StageOf
  <2>9. n <= Len(stages'[t]) + 1
    BY <1>1, <2>5, <2>8
  <2>10. a <= task'[t].attempts
    <3>1. task[t].attempts \in Nat
      BY <1>0, <2>2 DEF TypeOK, TaskRow
    <3> QED BY <2>4, <2>6, <2>8, <3>1
  <2> QED BY <2>2, <2>4, <2>7, <2>9, <2>10 DEF CallFollows, StageOf, Invalid
<1>3. ASSUME NEW w \in Worker, AdmitGranted(w), id = Asked(w) PROVE CallFollows(id)'
  <2>1. /\ pc[w] = "work" /\ at[w].step = "admit" /\ Leases(w, held[w])
        /\ UNCHANGED <<task, stages>>
    BY <1>3 DEF AdmitGranted, Admission, At, vars
  <2>2. PICK t \in Task, n \in 1 .. Stages, a \in Nat : t = held[w] /\ n = at[w].stage /\ a = at[w].attempt
    BY <1>0, <2>1, OrderTyped DEF HandlerState
  <2>3. id = <<t, a, n, at[w].repair>>
    BY <1>3, <2>2 DEF Asked
  <2>4. a = task[t].attempts
    BY <1>0, <2>1, <2>2 DEF LoginInv, LoginOf, GoesByItsName, OwnerIsCurrentAttempt
  <2>5. StandsInOrder(w)
    BY DEF OrderInv, OrderOf
  <2>6. n = 1 \/ n - 1 <= Len(stages[t])
    BY <2>1, <2>2, <2>5 DEF StandsInOrder, Reached, Committed
  <2>7. n <= Len(stages[t]) + 1
    BY <1>1, <2>6, HandlerAssumption
  <2>8. at[w].repair = 1 => Invalid(<<t, a, n, 0>>)
    BY <2>1, <2>2, <2>5 DEF StandsInOrder, Invalid
  <2>9. at[w].repair = 1 => Invalid(<<t, a, n, 0>>)'
    BY <1>0, <2>8, GrowsKeeps
  <2>10. a <= task'[t].attempts /\ task'[t].status # "ABSENT"
    BY <2>1, <2>2, <2>4 DEF Leases
  <2> QED BY <2>1, <2>3, <2>7, <2>9, <2>10 DEF CallFollows, StageOf, Invalid
<1> QED BY <1>0, <1>2, <1>3, CallsArise

LEMMA CheckpointStandsKept ==
  ASSUME OrderGround, OrderInv, [HNext]_hvars, HandlerInv', NEW t \in Task
  PROVE  CheckpointStands(t)'
<1>0. HandlerInv /\ TypeOK /\ [Next]_vars /\ Grows /\ \A w \in Worker : OrderOf(w)
  BY StepOfTheQueue, AllGrows DEF OrderGround, LoginGround, HandlerInv, OrderInv
<1>1. /\ Len(stages[t]) \in 0 .. Stages /\ DOMAIN stages[t] = 1 .. Len(stages[t])
      /\ \A n \in DOMAIN stages[t] : HasSource(t, stages[t][n].by, n)
      /\ \A n \in DOMAIN stages[t] : stages[t][n].last => n = Len(stages[t])
  BY <1>0, OrderTyped DEF OrderInv, CheckpointStands
<1>2. ASSUME NEW n \in 1 .. Len(stages[t]), NEW a, a = stages[t][n].by
      PROVE  HasSource(t, a, n)'
  <2>1. n \in Nat /\ HasSource(t, a, n)
    BY <1>1, <1>2 DEF HasSource
  <2> QED BY <1>0, <2>1, GrowsKeeps
<1>3. /\ \A n \in DOMAIN stages'[t] : \A a : a = stages'[t][n].by => HasSource(t, a, n)'
      /\ \A n \in DOMAIN stages'[t] : stages'[t][n].last => n = Len(stages'[t])
  <2>1. CASE stages'[t] = stages[t]
    BY <1>1, <1>2, <2>1
  <2>2. ASSUME NEW w \in Worker, NEW last \in BOOLEAN, Appends(w, last), t = held[w]
        PROVE  /\ \A n \in DOMAIN stages'[t] : \A a : a = stages'[t][n].by => HasSource(t, a, n)'
               /\ \A n \in DOMAIN stages'[t] : stages'[t][n].last => n = Len(stages'[t])
    <3>1. StandsInOrder(w) /\ pc[w] = "work" /\ at[w].step \in {"commit", "skip"}
      BY <1>0, <2>2 DEF OrderOf, Appends
    <3>2. PICK n \in 1 .. Stages, a \in Nat : n = at[w].stage /\ a = at[w].attempt
      BY <1>0, <3>1, OrderTyped DEF HandlerState
    <3>3. /\ n = Len(stages[t]) + 1 /\ Len(stages'[t]) = n /\ DOMAIN stages'[t] = 1 .. n
          /\ stages'[t][n] = Row(w, last)
          /\ \A m \in 1 .. Len(stages[t]) : stages'[t][m] = stages[t][m]
          /\ ~ Complete(t)
      BY <1>0, <2>2, <3>1, <3>2, AppendedRow
    <3>4. ASSUME NEW b, b = stages'[t][n].by PROVE HasSource(t, b, n)'
      <4>1. HasSource(t, a, n) /\ (at[w].step = "skip" => n \in External)
        BY <2>2, <3>1, <3>2 DEF StandsInOrder, HasSource
      <4>2. HasSource(t, a, n)'
        <5>1. n \in Nat
          BY HandlerAssumption
        <5> QED BY <1>0, <4>1, <5>1, GrowsKeeps
      <4>3. n \in External \/ b = a
        BY <3>2, <3>3, <3>4, <4>1 DEF Row, Author
      <4> QED BY <4>2, <4>3 DEF HasSource
    <3>5. ASSUME NEW m \in 1 .. Len(stages[t]), NEW b, b = stages'[t][m].by
          PROVE  HasSource(t, b, m)'
      BY <1>2, <3>3, <3>5
    <3>6. \A m \in 1 .. Len(stages[t]) : ~ stages[t][m].last
      BY <1>1, <3>3 DEF Complete
    <3>7. \A m \in 1 .. n : m = n \/ m \in 1 .. Len(stages[t])
      BY <1>1, <3>3
    <3>8. \A m \in 1 .. n : stages'[t][m].last => m = n
      BY <3>3, <3>6, <3>7
    <3> QED BY <3>3, <3>4, <3>5, <3>7, <3>8
  <2>3. ASSUME NEW w \in Worker, NEW last \in BOOLEAN, Appends(w, last), t # held[w]
        PROVE  stages'[t] = stages[t]
    BY <1>0, <2>3, AppendedRow DEF OrderOf
  <2> QED BY <2>1, <2>2, <2>3, OnlyCommitsAppend
<1>4. ASSUME task'[t].status = "SUCCEEDED" PROVE Complete(t)'
  <2>1. Complete(t)
    <3>1. CASE task[t].status = "SUCCEEDED"
      BY <3>1 DEF OrderInv, CheckpointStands
    <3>2. ASSUME NEW w \in Worker, pc[w] = "report", held[w] = t, outcome[w].kind = "NONE"
          PROVE  Complete(t)
      BY <1>0, <3>2 DEF OrderOf, EndsComplete, Complete
    <3> QED BY <1>0, <1>4, <3>1, <3>2, TaskSettlesAsReported DEF Settled
  <2> QED BY <1>0, <2>1, GrowsKeeps
<1> QED BY <1>3, <1>4 DEF CheckpointStands, HasSource

LEMMA OrderInvKept ==
  ASSUME OrderGround, OrderInv, [HNext]_hvars, HandlerInv'
  PROVE  OrderInv'
<1>1. \A w \in Worker : OrderOf(w)'
  BY OrderOfKept
<1>2. \A id \in Calls' : CallFollows(id)'
  BY CallFollowsKept
<1>3. \A t \in Task : CheckpointStands(t)'
  BY CheckpointStandsKept
<1> QED BY <1>1, <1>2, <1>3 DEF OrderInv

LEMMA OrderInvAlways == HSpec => []OrderInv
<1>1. HInit => OrderInv
  BY DEF HInit, Init, OrderInv, OrderOf, StandsInOrder, EndsComplete, OwnsItsCalls, At, Calls,
         Leased, Audited, CheckpointStands, AbsentTask, PendingTask
<1>2. HandlerInv' /\ OrderGround /\ OrderInv /\ [HNext]_hvars => OrderInv'
  BY OrderInvKept
<1>3. HSpec => []OrderGround
  BY LoginGroundAlways, LoginInvAlways, CollectorInvAlways, HandlerImplementsQueue,
     NoTasksBeforeRunAlways, PTL DEF OrderGround
<1> QED BY <1>1, <1>2, <1>3, HandlerInvAlways, PTL DEF HSpec

\* Calls follow the checkpoint, a repair its invalid original, and the admission never
\* lets in a call that was made or a stage that is committed, for any number of workers,
\* stages and attempts, two handlers under one name included.
THEOREM CallsInOrderAlways == HSpec => []CallsInOrder
<1>1. ASSUME OrderGround, OrderInv PROVE CallsInOrder
  <2>1. HandlerInv /\ LoginInv /\ OwnerIsCurrentAttempt
    BY <1>1 DEF OrderGround, LoginGround
  <2>2. ASSUME NEW id \in Calls
        PROVE  /\ StageOf(id) <= Len(stages[id[1]]) + 1
               /\ id[4] = 1 => LET original == <<id[1], id[2], id[3], 0>>
                               IN  original \in Audited /\ audit[original] = "INVALID_OUTPUT"
    BY <1>1, <2>2 DEF OrderInv, CallFollows, Invalid
  <2>3. ASSUME NEW w \in Worker, At(w, "admit"), Leases(w, held[w])
        PROVE  Asked(w) \notin Calls /\ ~ Committed(held[w], at[w].stage)
    <3>1. at[w].attempt = task[held[w]].attempts
      BY <2>1, <2>3 DEF LoginInv, LoginOf, GoesByItsName, OwnerIsCurrentAttempt, At
    <3>2. at[w].repair \in {0, 1}
      BY <2>1, OrderTyped DEF HandlerState
    <3>3. OwnsItsCalls(w)
      BY <1>1 DEF OrderInv, OrderOf
    <3>4. ASSUME Asked(w) \in Calls PROVE FALSE
      <4>1. LiesBehind(Asked(w), w)
        BY <2>3, <3>1, <3>3, <3>4 DEF OwnsItsCalls, At, Asked
      <4>2. StageOf(Asked(w)) = at[w].stage /\ Asked(w)[4] = at[w].repair
        BY DEF StageOf, Asked
      <4> QED BY <2>3, <3>2, <4>1, <4>2 DEF LiesBehind, At
    <3> QED BY <2>3, <3>3, <3>4 DEF OwnsItsCalls, At, Asking
  <2> QED BY <2>2, <2>3 DEF CallsInOrder, Calls
<1>2. HSpec => []OrderGround
  BY LoginGroundAlways, LoginInvAlways, CollectorInvAlways, HandlerImplementsQueue,
     NoTasksBeforeRunAlways, PTL DEF OrderGround
<1> QED BY <1>1, <1>2, OrderInvAlways, PTL

\* Every committed stage goes back to a completed call of the attempt it is committed for
\* or to a reservation, and a task succeeds only with its checkpoint complete.
THEOREM StagesHaveSourcesAlways == HSpec => []StagesHaveSources
<1>1. OrderInv => StagesHaveSources
  BY DEF OrderInv, CheckpointStands, HasSource, Complete, StagesHaveSources
<1> QED BY <1>1, OrderInvAlways, PTL
=============================================================================
