------------------------------ MODULE RowLocks ------------------------------
(***************************************************************************)
(* The row locks of the transactions that workers run on one task, its run *)
(* and a provider-call lease of it: DurableQueue, RunController,           *)
(* AuditedSemanticReasoner and the stage commits of the evidence store.    *)
(* RunQueue and ResearchHandler take each of these transactions as one step; *)
(* here a step takes one lock, and PostgreSQL aborts a transaction of a    *)
(* cycle of waits.                                                         *)
(*                                                                         *)
(* What the rows say is left out: a lease may run out at any moment, so    *)
(* several workers may hold the task, each by its own account, and a       *)
(* transaction may find that it does not and give up.                      *)
(***************************************************************************)
EXTENDS Naturals, Sequences

CONSTANT Claimant

VARIABLES
  phase,   \* where a worker stands with the task
  txn,     \* the transaction each thread of a worker is in
  taken    \* how many of the locks of that transaction it has asked for and got

lockVars == <<phase, txn, taken>>

Thread == {"main", "beat", "call"}   \* handler, task heartbeat, call heartbeat
Process == Claimant \X Thread
Transaction == {"none", "admit", "beat", "commit", "admission", "call", "audit", "report"}

Updates(row) == [row |-> row, share |-> FALSE]   \* FOR UPDATE
Shares(row) == [row |-> row, share |-> TRUE]     \* KEY SHARE, of a foreign key

\* Bug: the run is locked before the task, as the admission of a call once did.
RunFirst(kind) ==
  CASE kind = "beat"      -> <<Updates("task"), Updates("run")>>
    [] kind = "report"    -> <<Updates("task"), Updates("run")>>
    [] kind = "commit"    -> <<Updates("task"), Updates("run")>>
    [] kind = "admission" -> <<Updates("run"), Updates("task"), Updates("lease")>>
    [] kind = "call"      -> <<Updates("run"), Updates("lease")>>
    [] kind = "admit"     -> <<Updates("run")>>
    [] kind = "audit"     -> <<Updates("lease"), Shares("run"), Shares("task")>>
    [] OTHER              -> <<>>

\* The locks a transaction waits for, in its order.  The insert of the audit takes the
\* rows its foreign keys point to.  A claim waits for nothing: see ClaimTask.
Requests(kind) ==
  CASE kind \in {"beat", "report", "commit"} -> <<Updates("task"), Updates("run")>>
    [] kind = "admission" -> <<Updates("task"), Updates("run"), Updates("lease")>>
    [] kind = "call"      -> <<Updates("run"), Updates("lease")>>
    [] kind = "admit"     -> <<Updates("run")>>
    [] kind = "audit"     -> <<Updates("lease"), Shares("run"), Shares("task")>>
    [] OTHER              -> <<>>

Locks(p) == {Requests(txn[p])[n] : n \in 1 .. taken[p]}
Wants(p) == taken[p] < Len(Requests(txn[p]))
NextLock(p) == Requests(txn[p])[taken[p] + 1]

Conflict(a, b) == a.row = b.row /\ ~ (a.share /\ b.share)
WaitsFor(p, q) == p # q /\ Wants(p) /\ \E l \in Locks(q) : Conflict(NextLock(p), l)

\* A set of transactions none of which moves before another of them does.
Stuck(S) == S # {} /\ \A p \in S : \E q \in S : WaitsFor(p, q)

-----------------------------------------------------------------------------
LocksInit ==
  /\ phase = [w \in Claimant |-> "poll"]
  /\ txn = [p \in Process |-> "none"]
  /\ taken = [p \in Process |-> 0]

Idle(p) == txn[p] = "none"

Begin(w, thread, kind) ==
  /\ Idle(<<w, thread>>)
  /\ txn' = [txn EXCEPT ![<<w, thread>>] = kind]
  /\ UNCHANGED <<phase, taken>>

\* RunController.admit_next, polled by an idle worker.
AdmitTask(w) == phase[w] = "poll" /\ Begin(w, "main", "admit")

\* DurableQueue.claim takes the task SKIP LOCKED: it never waits for anybody.
ClaimTask(w) ==
  /\ phase[w] = "poll"
  /\ Idle(<<w, "main">>)
  /\ \A p \in Process : \A l \in Locks(p) : l.row # "task"
  /\ phase' = [phase EXCEPT ![w] = "held"]
  /\ UNCHANGED <<txn, taken>>

\* The heartbeat of the task runs beside its handler.
Beat(w) ==
  /\ phase[w] \in {"held", "flight"}
  /\ txn[<<w, "main">>] # "report"
  /\ Begin(w, "beat", "beat")

\* A stage is read and committed, and a budget reserved, under task and run.
CommitRows(w) == phase[w] = "held" /\ Begin(w, "main", "commit")

AdmitCall(w) == phase[w] = "held" /\ Begin(w, "main", "admission")

\* The heartbeat of the call runs while the provider works; it is awaited before
\* the answer is recorded.
CallBeat(w) == phase[w] = "flight" /\ Idle(<<w, "main">>) /\ Begin(w, "call", "call")

Audit(w) == phase[w] = "flight" /\ Idle(<<w, "call">>) /\ Begin(w, "main", "audit")

\* succeed or fail, and finalize_if_idle, once the heartbeat is cancelled.
ReportTask(w) == phase[w] \in {"held", "ended"} /\ Idle(<<w, "beat">>) /\ Begin(w, "main", "report")

Take(p) ==
  /\ Wants(p)
  /\ \A q \in Process : ~ WaitsFor(p, q)
  /\ taken' = [taken EXCEPT ![p] = @ + 1]
  /\ UNCHANGED <<phase, txn>>

\* The transactions of the threads T of a worker are over, their locks released.
Over(w, T, next) ==
  /\ txn' = [p \in Process |-> IF p[1] = w /\ p[2] \in T THEN "none" ELSE txn[p]]
  /\ taken' = [p \in Process |-> IF p[1] = w /\ p[2] \in T THEN 0 ELSE taken[p]]
  /\ phase' = [phase EXCEPT ![w] = next]

PhaseAfter(w, kind) ==
  CASE kind = "admission"           -> "flight"
    [] kind = "audit"               -> "held"
    [] kind \in {"report", "admit"} -> "poll"
    [] OTHER                        -> phase[w]

Commit(w, thread) ==
  LET p == <<w, thread>> IN
    /\ ~ Idle(p)
    /\ ~ Wants(p)
    /\ Over(w, {thread}, PhaseAfter(w, txn[p]))

\* What an exception in a transaction does to its worker: the task heartbeat cancels
\* the handler and drops the task, the call heartbeat stops the call, the handler ends
\* and is reported, a report that fails ends the process.
Fails(w, thread) ==
  CASE thread = "beat" -> Over(w, Thread, "poll")
    [] thread = "call" -> Over(w, {"main", "call"}, "ended")
    [] thread = "main" -> IF txn[<<w, thread>>] \in {"admit", "report"}
                            THEN Over(w, {"main"}, "poll")
                            ELSE Over(w, {"main"}, "ended")

\* The rows read under the locks are not as they should be.
GiveUp(w, thread) ==
  /\ taken[<<w, thread>>] > 0
  /\ Fails(w, thread)

\* PostgreSQL's deadlock detection aborts one of them.
Victim(w, thread) ==
  /\ \E S \in SUBSET Process : <<w, thread>> \in S /\ Stuck(S)
  /\ Fails(w, thread)

LocksNext ==
  \E w \in Claimant :
    \/ AdmitTask(w) \/ ClaimTask(w) \/ Beat(w) \/ CommitRows(w)
    \/ AdmitCall(w) \/ CallBeat(w) \/ Audit(w) \/ ReportTask(w)
    \/ \E thread \in Thread :
         Take(<<w, thread>>) \/ Commit(w, thread) \/ GiveUp(w, thread) \/ Victim(w, thread)

LocksSpec == LocksInit /\ [][LocksNext]_lockVars

-----------------------------------------------------------------------------
(* Properties.                                                             *)

\* Each thread runs only the transactions of its kind, and no more of it than there is.
LocksTypeOK ==
  /\ phase \in [Claimant -> {"poll", "held", "flight", "ended"}]
  /\ txn \in [Process -> Transaction]
  /\ taken \in [Process -> Nat]
  /\ \A p \in Process : taken[p] \in 0 .. Len(Requests(txn[p]))

\* The transactions that follow the order task, run, lease never wait in a circle,
\* whatever else goes on: every deadlock has an audit in it.
OrderedNeverStuck ==
  \A S \in SUBSET {p \in Process : txn[p] \notin {"none", "audit"}} : ~ Stuck(S)

\* The deadlock of heartbeat and semantic calls is gone (docs/tasks/integration.md:
\* "fixed by enforcing task-before-run locking").
NoDeadlock == \A S \in SUBSET Process : ~ Stuck(S)
=============================================================================
