-------------------------- MODULE TransactionsProofs --------------------------
(***************************************************************************)
(* What transactions that meet on the same rows promise, for any number of *)
(* them: the row locks of the workers, the commands on missions, and the   *)
(* decisions of reviewers.                                                 *)
(*                                                                         *)
(* The locks: every transaction but the audit asks for its rows in the     *)
(* order task, run, lease.  One that waits for a row waits for one that    *)
(* has it, and that one, if it waits as well, waits for a later row; there *)
(* are three rows, so nobody can close the circle.                         *)
(*                                                                         *)
(* The missions: the lock that revise takes is held by one command at a    *)
(* time, so the number it reads is still the last when it inserts; and a   *)
(* command that waits for the run of another waits at a mission the other  *)
(* has passed.                                                             *)
(*                                                                         *)
(* The decisions: an accepted pair lies within the class that the search   *)
(* of _accepted_equivalence finds from either of its problems, because the *)
(* search ends where accepted pairs lead no further (ClassesHoldAlways).   *)
(* A pair is decided along one path of its states, its decisions numbered  *)
(* without a gap, since each transaction has locked its candidate and has  *)
(* read the last number under the lock (DecisionsInv).                     *)
(***************************************************************************)
EXTENDS RowLocks, Missions, MergeDecisions, FiniteSetTheorems, SequenceTheorems,
        WellFoundedInduction, TLAPS

-----------------------------------------------------------------------------
(* Row locks.                                                              *)

Rank(row) == IF row = "task" THEN 1 ELSE IF row = "run" THEN 2 ELSE 3

\* Each transaction but the audit asks for its locks in the order of the rows.
LEMMA Ordered ==
  ASSUME NEW kind \in Transaction \ {"audit"}
  PROVE  /\ Len(Requests(kind)) \in 0 .. 3
         /\ \A n \in 1 .. Len(Requests(kind)) : Rank(Requests(kind)[n].row) \in 1 .. 3
         /\ \A n \in 1 .. Len(Requests(kind)), m \in 1 .. Len(Requests(kind)) :
              m < n => Rank(Requests(kind)[m].row) < Rank(Requests(kind)[n].row)
<1>1. CASE kind \in {"beat", "report", "commit"}
  BY <1>1 DEF Requests, Updates, Rank
<1>2. CASE kind = "admission"
  BY <1>2 DEF Requests, Updates, Rank
<1>3. CASE kind = "call"
  BY <1>3 DEF Requests, Updates, Rank
<1>4. CASE kind = "admit"
  BY <1>4 DEF Requests, Updates, Rank
<1>5. CASE kind = "none"
  BY <1>5 DEF Requests
<1> QED
  BY <1>1, <1>2, <1>3, <1>4, <1>5 DEF Transaction

\* The number of locks of any transaction.
LEMMA RequestsLen == ASSUME NEW kind \in Transaction PROVE Len(Requests(kind)) \in 0 .. 3
<1>1. CASE kind = "audit"
  BY <1>1 DEF Requests, Updates, Shares
<1> QED
  BY <1>1, Ordered

\* One that waits for another ordered one that waits, waits for an earlier row.
LEMMA WaitsClimb ==
  ASSUME LocksTypeOK, NEW p \in Process, NEW q \in Process,
         txn[p] # "audit", txn[q] # "audit", WaitsFor(p, q), Wants(q)
  PROVE  /\ Rank(NextLock(p).row) \in 1 .. 3
         /\ Rank(NextLock(q).row) \in 1 .. 3
         /\ Rank(NextLock(p).row) < Rank(NextLock(q).row)
<1>1. /\ txn[p] \in Transaction \ {"audit"} /\ txn[q] \in Transaction \ {"audit"}
      /\ taken[p] \in Nat /\ taken[q] \in Nat
  BY DEF LocksTypeOK
<1>2. taken[p] + 1 \in 1 .. Len(Requests(txn[p])) /\ taken[q] + 1 \in 1 .. Len(Requests(txn[q]))
  BY <1>1, Ordered DEF WaitsFor, Wants
<1>3. PICK m \in 1 .. taken[q] : NextLock(p).row = Requests(txn[q])[m].row
  BY DEF WaitsFor, Conflict, Locks
<1>4. m \in 1 .. Len(Requests(txn[q])) /\ m < taken[q] + 1
  BY <1>1, <1>2, <1>3, Ordered
<1>5. Rank(Requests(txn[q])[m].row) < Rank(Requests(txn[q])[taken[q] + 1].row)
  BY <1>1, <1>2, <1>4, Ordered
<1>6. Rank(NextLock(p).row) \in 1 .. 3 /\ Rank(NextLock(q).row) \in 1 .. 3
  BY <1>1, <1>2, Ordered DEF NextLock
<1> QED
  BY <1>3, <1>5, <1>6 DEF NextLock

\* Hence no set of ordered transactions is stuck.
LEMMA TypedNeverStuck == LocksTypeOK => OrderedNeverStuck
<1> SUFFICES ASSUME LocksTypeOK, NEW S \in SUBSET {p \in Process : txn[p] \notin {"none", "audit"}}, Stuck(S)
             PROVE  FALSE
  BY DEF OrderedNeverStuck
<1> DEFINE R(p) == Rank(NextLock(p).row)
<1>1. \A p \in S : \E q \in S : R(p) \in 1 .. 3 /\ R(q) \in 1 .. 3 /\ R(p) < R(q)
  <2> TAKE p \in S
  <2>1. PICK q \in S : WaitsFor(p, q)
    BY DEF Stuck
  <2>2. Wants(q)
    BY <2>1 DEF Stuck, WaitsFor
  <2>3. R(p) \in 1 .. 3 /\ R(q) \in 1 .. 3 /\ R(p) < R(q)
    BY <2>1, <2>2, WaitsClimb
  <2> QED
    BY <2>1, <2>3
<1> HIDE DEF R
<1>2. \A p \in S : R(p) # 3
  BY <1>1
<1>3. \A p \in S : R(p) # 2
  BY <1>1, <1>2
<1>4. \A p \in S : R(p) # 1
  BY <1>1, <1>2, <1>3
<1> QED
  BY <1>1, <1>2, <1>3, <1>4 DEF Stuck

-----------------------------------------------------------------------------
\* A transaction that begins has asked for nothing.
LEMMA BeginTyped ==
  ASSUME LocksTypeOK, NEW w \in Claimant, NEW thread \in Thread, NEW kind \in Transaction,
         Begin(w, thread, kind)
  PROVE  LocksTypeOK'
<1>1. <<w, thread>> \in Process
  BY DEF Process
<1>2. taken[<<w, thread>>] = 0
  BY <1>1, SMTT(30) DEF LocksTypeOK, Idle, Begin, Requests
<1>3. \A p \in Process : taken'[p] \in 0 .. Len(Requests(txn'[p]))
  <2> TAKE p \in Process
  <2>1. CASE p = <<w, thread>>
    BY <1>1, <1>2, <2>1, RequestsLen DEF LocksTypeOK, Begin
  <2>2. CASE p # <<w, thread>>
    BY <1>1, <2>2 DEF LocksTypeOK, Begin
  <2> QED
    BY <2>1, <2>2
<1> QED
  BY <1>1, <1>3 DEF LocksTypeOK, Begin

\* One that is over has nothing left.
LEMMA OverTyped ==
  ASSUME LocksTypeOK, NEW w \in Claimant, NEW T, NEW next \in {"poll", "held", "flight", "ended"},
         Over(w, T, next)
  PROVE  LocksTypeOK'
<1>1. \A p \in Process : taken'[p] \in 0 .. Len(Requests(txn'[p]))
  BY RequestsLen DEF LocksTypeOK, Over, Transaction
<1> QED
  BY <1>1 DEF LocksTypeOK, Over, Transaction

\* What each transaction locks has the type TLC checks, for any number of workers.
THEOREM LocksTyped == LocksSpec => []LocksTypeOK
<1>1. LocksInit => LocksTypeOK
  BY RequestsLen DEF LocksInit, LocksTypeOK, Transaction
<1>2. LocksTypeOK /\ [LocksNext]_lockVars => LocksTypeOK'
  <2> SUFFICES ASSUME LocksTypeOK, [LocksNext]_lockVars PROVE LocksTypeOK'
    OBVIOUS
  <2>1. CASE UNCHANGED lockVars
    BY <2>1 DEF LocksTypeOK, lockVars, Requests
  <2>2. ASSUME NEW w \in Claimant, AdmitTask(w) PROVE LocksTypeOK'
    BY <2>2, BeginTyped DEF AdmitTask, Thread, Transaction
  <2>3. ASSUME NEW w \in Claimant, ClaimTask(w) PROVE LocksTypeOK'
    BY <2>3 DEF ClaimTask, LocksTypeOK
  <2>4. ASSUME NEW w \in Claimant, Beat(w) PROVE LocksTypeOK'
    BY <2>4, BeginTyped DEF Beat, Thread, Transaction
  <2>5. ASSUME NEW w \in Claimant, CommitRows(w) PROVE LocksTypeOK'
    BY <2>5, BeginTyped DEF CommitRows, Thread, Transaction
  <2>6. ASSUME NEW w \in Claimant, AdmitCall(w) PROVE LocksTypeOK'
    BY <2>6, BeginTyped DEF AdmitCall, Thread, Transaction
  <2>7. ASSUME NEW w \in Claimant, CallBeat(w) PROVE LocksTypeOK'
    BY <2>7, BeginTyped DEF CallBeat, Thread, Transaction
  <2>8. ASSUME NEW w \in Claimant, Audit(w) PROVE LocksTypeOK'
    BY <2>8, BeginTyped DEF Audit, Thread, Transaction
  <2>9. ASSUME NEW w \in Claimant, ReportTask(w) PROVE LocksTypeOK'
    BY <2>9, BeginTyped DEF ReportTask, Thread, Transaction
  <2>10. ASSUME NEW p \in Process, Take(p) PROVE LocksTypeOK'
    <3>1. txn' = txn /\ phase' = phase /\ taken' = [taken EXCEPT ![p] = @ + 1]
      BY <2>10 DEF Take
    <3>2. taken[p] + 1 \in 0 .. Len(Requests(txn[p]))
      BY <2>10, RequestsLen DEF Take, Wants, LocksTypeOK
    <3>3. \A q \in Process : taken'[q] \in 0 .. Len(Requests(txn'[q]))
      BY <3>1, <3>2 DEF LocksTypeOK
    <3> QED
      BY <3>1, <3>2, <3>3 DEF LocksTypeOK
  <2>11. ASSUME NEW w \in Claimant, NEW thread \in Thread, Fails(w, thread) PROVE LocksTypeOK'
    BY <2>11, OverTyped DEF Fails, Thread
  <2>12. ASSUME NEW w \in Claimant, NEW thread \in Thread, Commit(w, thread) PROVE LocksTypeOK'
    <3>1. PhaseAfter(w, txn[<<w, thread>>]) \in {"poll", "held", "flight", "ended"}
      BY DEF LocksTypeOK, PhaseAfter
    <3> QED
      BY <2>12, <3>1, OverTyped DEF Commit
  <2> QED
    BY <2>1, <2>2, <2>3, <2>4, <2>5, <2>6, <2>7, <2>8, <2>9, <2>10, <2>11, <2>12
       DEF LocksNext, Process, GiveUp, Victim
<1> QED
  BY <1>1, <1>2, PTL DEF LocksSpec

\* Whatever the number of workers, and whatever the rows say, no deadlock arises among
\* the transactions that lock task, run and lease in this order.
THEOREM OrderedNeverDeadlock == LocksSpec => []OrderedNeverStuck
BY LocksTyped, TypedNeverStuck, PTL

-----------------------------------------------------------------------------
(* Missions.                                                               *)

Step == {"none", "checked", "updated", "locked", "numbered", "collided",
         "choosing", "inserting", "refused"}

Session == [step : Step, mission : Nat, target : {"NONE", "ACTIVE", "PAUSED", "ARCHIVED"},
            number : Nat, todo : SUBSET MissionId, inserted : SUBSET (MissionId \X Nat)]

\* The chain of the revisions 1 .. n.
Chain(n) == {[number |-> k, parent |-> k - 1] : k \in 1 .. n}

SessionsTyped == session \in [Operator -> Session]

\* The revisions of each mission are a chain, with a first one when the mission is created.
Chained ==
  /\ DOMAIN missionStatus = MissionId
  /\ revisions \in [MissionId -> {Chain(n) : n \in Nat}]
  /\ \A m \in MissionId : missionStatus[m] # "NONE" => revisions[m] # {}

\* A command that has come to a mission, or is to come to it, finds it created.
Placed == \A o \in Operator :
  /\ session[o].step \in {"checked", "updated", "locked", "numbered", "inserting", "refused"} =>
        session[o].mission \in MissionId /\ missionStatus[session[o].mission] # "NONE"
  /\ session[o].step \in {"checked", "updated"} => session[o].target # "NONE"
  /\ \A m \in session[o].todo : missionStatus[m] # "NONE"

\* The row of a mission is locked by one command.
OneHolder == \A o, p \in Operator :
  /\ {session[o].step, session[p].step} \subseteq {"updated", "locked", "numbered"}
  /\ session[o].mission = session[p].mission
  => o = p

\* The number a command has read is still the last.
Fresh == \A o \in Operator :
  session[o].step = "numbered" => session[o].number = Newest(session[o].mission).number

NoneCollided == \A o \in Operator : session[o].step # "collided"

\* A command takes its missions in turn: those with a run it has inserted, the one it is at,
\* those it has yet to come to.
InOrder == \A o \in Operator :
  /\ session[o].step \in {"inserting", "refused"} =>
        /\ \A rev \in session[o].inserted : rev[1] < session[o].mission
        /\ \A m \in session[o].todo : session[o].mission < m
  /\ session[o].step = "choosing" =>
        \A rev \in session[o].inserted, m \in session[o].todo : rev[1] < m
  /\ session[o].step \notin {"choosing", "inserting", "refused"} => session[o].inserted = {}

IInv == SessionsTyped /\ Chained /\ Placed /\ OneHolder /\ Fresh /\ NoneCollided /\ InOrder

\* The newest revision of a chain is its last.
LEMMA NewestOfChain ==
  ASSUME NEW m, NEW n \in Nat \ {0}, revisions[m] = Chain(n)
  PROVE  Newest(m) = [number |-> n, parent |-> n - 1]
<1>1. [number |-> n, parent |-> n - 1] \in Chain(n)
  BY DEF Chain
<1>2. \A r \in Chain(n) : r.number \in 1 .. n /\ r = [number |-> r.number, parent |-> r.number - 1]
  BY DEF Chain
<1>3. \A r \in Chain(n) : (\A q \in Chain(n) : q.number <= r.number)
                             => r = [number |-> n, parent |-> n - 1]
  BY <1>1, <1>2
<1>4. \A q \in Chain(n) : q.number <= [number |-> n, parent |-> n - 1].number
  BY <1>2
<1> QED
  BY <1>1, <1>3, <1>4 DEF Newest

\* A chain that has a revision has a last one.
LEMMA ChainHasLast ==
  ASSUME Chained, NEW m \in MissionId, missionStatus[m] # "NONE"
  PROVE  \E n \in Nat \ {0} : revisions[m] = Chain(n)
<1>1. PICK n \in Nat : revisions[m] = Chain(n)
  BY DEF Chained
<1>2. Chain(0) = {}
  BY DEF Chain
<1> QED
  BY <1>1, <1>2 DEF Chained

\* The successor of the last revision makes a chain of a chain.
LEMMA ChainGrows ==
  ASSUME NEW n \in Nat
  PROVE  Chain(n + 1) = Chain(n) \cup {[number |-> n + 1, parent |-> n]}
<1>1. 1 .. n + 1 = (1 .. n) \cup {n + 1}
  OBVIOUS
<1>2. Chain(n + 1) = {[number |-> k, parent |-> k - 1] : k \in (1 .. n) \cup {n + 1}}
  BY <1>1 DEF Chain
<1>3. (n + 1) - 1 = n
  OBVIOUS
<1> QED
  BY <1>2, <1>3 DEF Chain

\* There is no ascent without end among the missions.
LEMMA FiniteHasLast ==
  ASSUME NEW S, S \subseteq MissionId, S # {}, \A m \in S : \E k \in S : m < k
  PROVE  FALSE
<1> DEFINE Above(m) == {k \in S : m < k}
           T == {Above(m) : m \in S}
<1>1. IsFiniteSet(S) /\ S \subseteq Nat
  BY MissionsAssumption, FS_Subset
<1>2. T \subseteq FiniteSubsetsOf(S) /\ T # {}
  <2>1. \A m \in S : IsFiniteSet(Above(m)) /\ Above(m) \subseteq S
    BY <1>1, FS_Subset
  <2> QED
    BY <2>1 DEF FiniteSubsetsOf
<1>3. PICK x \in T : \A y \in T : ~ (<<y, x>> \in StrictSubsetOrdering(S))
  BY <1>2, FS_StrictSubsetOrderingWellFounded, WFMin
<1>4. PICK m \in S, k \in S : x = Above(m) /\ m < k
  BY <1>3
<1>5. Above(k) \subseteq Above(m) /\ k \in Above(m) /\ k \notin Above(k)
  <2>1. m \in Nat /\ k \in Nat /\ \A z \in S : z \in Nat
    BY <1>1
  <2>2. \A z \in S : k < z => m < z
    BY <1>4, <2>1
  <2>3. Above(k) \subseteq Above(m)
    BY <2>2, Zenon
  <2>4. k \in Above(m)
    BY <1>4
  <2>5. k \notin Above(k)
    BY <2>1
  <2> QED
    BY <2>4, <2>5, <2>3
<1>6. <<Above(k), Above(m)>> \in StrictSubsetOrdering(S)
  BY <1>5 DEF StrictSubsetOrdering
<1> QED
  BY <1>3, <1>4, <1>6

LEMMA InitIInv == MissionsInit => IInv
<1> SUFFICES ASSUME MissionsInit PROVE IInv
  OBVIOUS
<1>1. SessionsTyped
  BY DEF MissionsInit, NoCommand, SessionsTyped, Session, Step
<1>2. Chain(0) = {}
  BY DEF Chain
<1>3. Chained
  BY <1>2 DEF MissionsInit, Chained
<1> QED
  BY <1>1, <1>3 DEF MissionsInit, NoCommand, IInv, Placed, OneHolder, Fresh,
     NoneCollided, InOrder

-----------------------------------------------------------------------------
\* The steps of one command, those that change no mission.
SessionMoves(o) ==
  \/ \E m \in MissionId :
        \/ \E target \in {"ACTIVE", "PAUSED", "ARCHIVED"} : ReadStatus(o, m, target)
        \/ LockMission(o, m)
        \/ BeginHunt(o, m)
  \/ UpdateStatus(o) \/ ReadNumber(o) \/ BeginMonitor(o) \/ ChooseRevision(o)
  \/ InsertRun(o) \/ FindActive(o) \/ CommitRuns(o)

\* The number of the newest revision of a mission that was created.
LEMMA NewestTyped ==
  ASSUME Chained, NEW m \in MissionId, missionStatus[m] # "NONE"
  PROVE  Newest(m).number \in Nat
BY ChainHasLast, NewestOfChain

LEMMA SessionsStayTyped ==
  ASSUME IInv, NEW o \in Operator, SessionMoves(o) \/ CommitStatus(o) \/ CommitRevision(o)
  PROVE  SessionsTyped'
<1> USE DEF IInv, SessionsTyped
<1> DEFINE s == session[o]
<1>0. /\ s \in Session /\ NoCommand \in Session
      /\ DOMAIN session = Operator
  BY DEF Session, NoCommand, Step
<1>1. SUFFICES \E next \in Session : session' = [session EXCEPT ![o] = next]
  BY <1>0
<1>2. \A step \in Step : [s EXCEPT !.step = step] \in Session
  BY <1>0 DEF Session
<1>3. ASSUME NEW m \in MissionId, NEW target \in {"ACTIVE", "PAUSED", "ARCHIVED"},
             ReadStatus(o, m, target)
      PROVE  \E next \in Session : session' = [session EXCEPT ![o] = next]
  BY <1>0, <1>3, MissionsAssumption DEF ReadStatus, Moves, Session, Step, NoCommand
<1>4. ASSUME NEW m \in MissionId, LockMission(o, m) \/ BeginHunt(o, m)
      PROVE  \E next \in Session : session' = [session EXCEPT ![o] = next]
  <2>1. /\ [NoCommand EXCEPT !.step = "locked", !.mission = m] \in Session
        /\ [NoCommand EXCEPT !.step = "choosing", !.todo = {m}] \in Session
    BY <1>0, MissionsAssumption DEF Session, Step
  <2> QED
    BY <1>4, <2>1 DEF LockMission, BeginHunt, Moves
<1>5. CASE BeginMonitor(o)
  BY <1>0, <1>5 DEF BeginMonitor, Moves, Session, Step, NoCommand
<1>6. CASE UpdateStatus(o) \/ CommitStatus(o) \/ CommitRuns(o) \/ FindActive(o) \/ CommitRevision(o)
  BY <1>0, <1>2, <1>6
     DEF UpdateStatus, CommitStatus, CommitRuns, FindActive, CommitRevision, Moves, ComesTo, Step
<1>7. CASE ReadNumber(o)
  <2>1. s.mission \in MissionId /\ missionStatus[s.mission] # "NONE"
    BY <1>7 DEF ReadNumber, Placed
  <2>2. Newest(s.mission).number \in Nat
    BY <2>1, NewestTyped
  <2> QED
    BY <1>0, <1>7, <2>2 DEF ReadNumber, Moves, Session, Step
<1>8. CASE ChooseRevision(o)
  <2>1. PICK m \in s.todo :
          Moves(o, [s EXCEPT !.step = "inserting", !.todo = @ \ {m},
                             !.mission = m, !.number = Newest(m).number])
    BY <1>8 DEF ChooseRevision, InTurn
  <2>2. m \in MissionId /\ missionStatus[m] # "NONE" /\ m \in Nat
    BY <1>0, <2>1, MissionsAssumption DEF Placed, Session
  <2>3. Newest(m).number \in Nat
    BY <2>2, NewestTyped
  <2> QED
    BY <1>0, <2>1, <2>2, <2>3 DEF Moves, Session, Step
<1>9. CASE InsertRun(o)
  <2>1. ChosenRevision(o) \in MissionId \X Nat
    BY <1>0, <1>9 DEF InsertRun, ChosenRevision, Placed, Session
  <2>2. [s EXCEPT !.step = "choosing", !.inserted = @ \cup {ChosenRevision(o)}] \in Session
    BY <1>0, <2>1 DEF Session, Step
  <2> QED
    BY <1>0, <1>2, <1>9, <2>2 DEF InsertRun, Moves, ComesTo, Step
<1> QED
  BY <1>3, <1>4, <1>5, <1>6, <1>7, <1>8, <1>9 DEF SessionMoves

-----------------------------------------------------------------------------
\* What a step of a command leaves of the sessions of the others.
LEMMA OthersRest ==
  ASSUME IInv, NEW o \in Operator, SessionMoves(o) \/ CommitStatus(o) \/ CommitRevision(o),
         NEW p \in Operator, p # o
  PROVE  session'[p] = session[p]
BY DEF IInv, SessionsTyped, SessionMoves, ReadStatus, LockMission, BeginHunt, UpdateStatus,
       ReadNumber, BeginMonitor, ChooseRevision, InsertRun, FindActive, CommitRuns,
       CommitStatus, CommitRevision, Moves, ComesTo

\* A session in one of these steps stays where it is, or has just come there.
LEMMA PlacedStays ==
  ASSUME IInv, NEW o \in Operator, SessionMoves(o)
  PROVE  Placed' /\ InOrder'
<1> USE DEF IInv, SessionsTyped
<1> DEFINE s == session[o]
<1>0. /\ s \in Session /\ NoCommand \in Session
      /\ DOMAIN session = Operator
  BY DEF Session, NoCommand, Step
<1>1. UNCHANGED missionStatus
  BY DEF SessionMoves, ReadStatus, LockMission, BeginHunt, UpdateStatus, ReadNumber, BeginMonitor,
         ChooseRevision, InsertRun, FindActive, CommitRuns
<1>2. SUFFICES
        LET n == session'[o] IN
        /\ n.step \in {"checked", "updated", "locked", "numbered", "inserting", "refused"} =>
              n.mission \in MissionId /\ missionStatus[n.mission] # "NONE"
        /\ n.step \in {"checked", "updated"} => n.target # "NONE"
        /\ \A m \in n.todo : missionStatus[m] # "NONE"
        /\ n.step \in {"inserting", "refused"} =>
              /\ \A rev \in n.inserted : rev[1] < n.mission
              /\ \A m \in n.todo : n.mission < m
        /\ n.step = "choosing" => \A rev \in n.inserted, m \in n.todo : rev[1] < m
        /\ n.step \notin {"choosing", "inserting", "refused"} => n.inserted = {}
  BY <1>1, OthersRest DEF Placed, InOrder
<1>3. ASSUME NEW step \in Step, session'[o] = [s EXCEPT !.step = step]
      PROVE  /\ session'[o].step = step /\ session'[o].mission = s.mission
             /\ session'[o].target = s.target /\ session'[o].todo = s.todo
             /\ session'[o].inserted = s.inserted
  BY <1>0, <1>3 DEF Session
<1>4. ASSUME NEW m \in MissionId, NEW target \in {"ACTIVE", "PAUSED", "ARCHIVED"},
             ReadStatus(o, m, target)
      PROVE  LET n == session'[o] IN /\ n.step = "checked" /\ n.mission = m /\ n.target = target
                                    /\ n.todo = {} /\ n.inserted = {} /\ missionStatus[m] # "NONE"
  BY <1>0, <1>4 DEF ReadStatus, Moves, NoCommand
<1>5. ASSUME NEW m \in MissionId, LockMission(o, m)
      PROVE  LET n == session'[o] IN /\ n.step = "locked" /\ n.mission = m
                                    /\ n.todo = {} /\ n.inserted = {} /\ missionStatus[m] # "NONE"
  BY <1>0, <1>5 DEF LockMission, Moves, NoCommand
<1>6. ASSUME NEW m \in MissionId, BeginHunt(o, m)
      PROVE  LET n == session'[o] IN /\ n.step = "choosing" /\ n.todo = {m} /\ n.inserted = {}
                                    /\ missionStatus[m] # "NONE"
  BY <1>0, <1>6 DEF BeginHunt, Moves, NoCommand
<1>7. CASE BeginMonitor(o)
  <2>1. LET n == session'[o] IN /\ n.step = "choosing" /\ n.inserted = {}
                               /\ n.todo = {m \in MissionId : missionStatus[m] = "ACTIVE"}
    BY <1>0, <1>7 DEF BeginMonitor, Moves, NoCommand
  <2> QED
    BY <1>2, <2>1
<1>8. CASE UpdateStatus(o)
  <2>1. s.step = "checked" /\ session'[o] = [s EXCEPT !.step = "updated"]
    BY <1>0, <1>8 DEF UpdateStatus, ComesTo, Moves
  <2> QED
    BY <1>2, <1>3, <2>1 DEF Placed, InOrder, Step
<1>9. CASE ReadNumber(o)
  <2>1. /\ s.step = "locked" /\ session'[o].step = "numbered"
        /\ session'[o].mission = s.mission /\ session'[o].todo = s.todo
        /\ session'[o].inserted = s.inserted
    BY <1>0, <1>9 DEF ReadNumber, Moves, Session
  <2> QED
    BY <1>2, <2>1 DEF Placed, InOrder
<1>10. CASE ChooseRevision(o)
  <2>1. PICK m \in s.todo :
          /\ \A other \in s.todo : m <= other
          /\ session' = [session EXCEPT ![o] =
               [s EXCEPT !.step = "inserting", !.todo = @ \ {m},
                         !.mission = m, !.number = Newest(m).number]]
    BY <1>10 DEF ChooseRevision, InTurn, Moves
  <2>2. LET n == session'[o] IN
        n.step = "inserting" /\ n.todo = s.todo \ {m} /\ n.mission = m /\ n.inserted = s.inserted
    BY <1>0, <2>1 DEF Session
  <2>3. s.step = "choosing" /\ s.todo \subseteq MissionId /\ MissionId \subseteq Nat
    BY <1>0, <1>10, MissionsAssumption DEF ChooseRevision, Session
  <2>4. \A other \in s.todo \ {m} : m < other
    BY <2>1, <2>3
  <2>5. (\A rev \in s.inserted : rev[1] < m) /\ missionStatus[m] # "NONE" /\ m \in MissionId
    BY <2>1, <2>3 DEF InOrder, Placed
  <2>6. \A other \in s.todo \ {m} : missionStatus[other] # "NONE"
    BY DEF Placed
  <2> QED
    BY <1>2, <2>2, <2>4, <2>5, <2>6
<1>11. CASE InsertRun(o)
  <2>1. s.step = "inserting"
    BY <1>11 DEF InsertRun
  <2>2. CASE session'[o] = [s EXCEPT !.step = "refused"]
    BY <1>2, <1>3, <2>1, <2>2 DEF Placed, InOrder, Step
  <2>3. CASE session'[o] = [s EXCEPT !.step = "choosing", !.inserted = @ \cup {ChosenRevision(o)}]
    <3>1. LET n == session'[o] IN
          n.step = "choosing" /\ n.todo = s.todo /\ n.inserted = s.inserted \cup {ChosenRevision(o)}
      BY <1>0, <2>3 DEF Session
    <3>2. /\ \A rev \in s.inserted : rev[1] \in Nat /\ rev[1] < s.mission
          /\ \A m \in s.todo : m \in Nat /\ s.mission < m
          /\ s.mission \in Nat
      BY <1>0, <2>1, MissionsAssumption DEF InOrder, Session
    <3>3. \A rev \in s.inserted \cup {ChosenRevision(o)}, m \in s.todo : rev[1] < m
      BY <3>2 DEF ChosenRevision
    <3>4. \A m \in s.todo : missionStatus[m] # "NONE"
      BY DEF Placed
    <3> QED
      BY <1>2, <3>1, <3>3, <3>4
  <2> QED
    BY <1>0, <1>11, <2>2, <2>3 DEF InsertRun, ComesTo, Moves
<1>12. CASE FindActive(o)
  <2>1. s.step = "refused"
    BY <1>12 DEF FindActive
  <2>2. CASE session'[o] = [s EXCEPT !.step = "choosing"]
    <3>1. \A rev \in s.inserted, m \in s.todo : rev[1] < m
      <4>1. /\ \A rev \in s.inserted : rev[1] \in Nat /\ rev[1] < s.mission
            /\ \A m \in s.todo : m \in Nat /\ s.mission < m
            /\ s.mission \in Nat
        BY <1>0, <2>1, MissionsAssumption DEF InOrder, Session
      <4> QED
        BY <4>1
    <3> QED
      BY <1>2, <1>3, <2>2, <3>1 DEF Placed, Step
  <2>3. CASE session'[o] = NoCommand
    BY <1>2, <2>3 DEF NoCommand
  <2> QED
    BY <1>0, <1>12, <2>2, <2>3 DEF FindActive, ComesTo, Moves
<1>13. CASE CommitRuns(o)
  <2>1. session'[o] = NoCommand
    BY <1>0, <1>13 DEF CommitRuns, Moves
  <2> QED
    BY <1>2, <2>1 DEF NoCommand
<1> QED
  BY <1>2, <1>4, <1>5, <1>6, <1>7, <1>8, <1>9, <1>10, <1>11, <1>12, <1>13 DEF SessionMoves

\* Which steps may bring a command to hold the row of a mission, and which number it reads.
LEMMA HoldersMove ==
  ASSUME IInv, NEW o \in Operator, SessionMoves(o)
  PROVE  /\ OneHolder' /\ Fresh' /\ NoneCollided'
         /\ UNCHANGED <<missionStatus, revisions>>
<1> USE DEF IInv, SessionsTyped
<1> DEFINE s == session[o]
           Holding == {"updated", "locked", "numbered"}
<1>0. /\ s \in Session /\ NoCommand \in Session
      /\ DOMAIN session = Operator
  BY DEF Session, NoCommand, Step
<1>1. UNCHANGED <<missionStatus, revisions>>
  BY DEF SessionMoves, ReadStatus, LockMission, BeginHunt, UpdateStatus, ReadNumber, BeginMonitor,
         ChooseRevision, InsertRun, FindActive, CommitRuns
<1>2. \A m : Newest(m)' = Newest(m)
  BY <1>1 DEF Newest
<1>3. SUFFICES
        LET n == session'[o] IN
        /\ n.step # "collided"
        /\ n.step \in Holding =>
             \/ s.step \in Holding /\ n.mission = s.mission
             \/ RowHolders(n.mission) = {}
        /\ n.step = "numbered" => n.number = Newest(n.mission).number
  <2>1. OneHolder'
    BY <1>3, OthersRest DEF OneHolder, RowHolders
  <2>2. Fresh'
    BY <1>2, <1>3, OthersRest DEF Fresh
  <2> QED
    BY <1>1, <1>3, <2>1, <2>2, OthersRest DEF NoneCollided
<1>4. ASSUME NEW step \in Step, session'[o] = [s EXCEPT !.step = step]
      PROVE  session'[o].step = step /\ session'[o].mission = s.mission
  BY <1>0, <1>4 DEF Session
<1>5. ASSUME NEW m \in MissionId, NEW target \in {"ACTIVE", "PAUSED", "ARCHIVED"},
             ReadStatus(o, m, target)
      PROVE  session'[o].step = "checked"
  BY <1>0, <1>5 DEF ReadStatus, Moves, NoCommand
<1>6. ASSUME NEW m \in MissionId, LockMission(o, m)
      PROVE  session'[o].step = "locked" /\ session'[o].mission = m /\ RowHolders(m) = {}
  BY <1>0, <1>6 DEF LockMission, Moves, NoCommand, RowOpen
<1>7. ASSUME NEW m \in MissionId, BeginHunt(o, m) \/ BeginMonitor(o)
      PROVE  session'[o].step = "choosing"
  BY <1>0, <1>7 DEF BeginHunt, BeginMonitor, Moves, NoCommand
<1>8. CASE UpdateStatus(o)
  <2>1. RowHolders(s.mission) = {} /\ session'[o] = [s EXCEPT !.step = "updated"]
    BY <1>0, <1>8 DEF UpdateStatus, ComesTo, Moves
  <2> QED
    BY <1>3, <1>4, <2>1 DEF Step
<1>9. CASE ReadNumber(o)
  <2>1. /\ s.step = "locked" /\ session'[o].step = "numbered"
        /\ session'[o].mission = s.mission
        /\ session'[o].number = Newest(s.mission).number
    BY <1>0, <1>9 DEF ReadNumber, Moves, Session
  <2> QED
    BY <1>3, <2>1
<1>10. ASSUME ChooseRevision(o) \/ InsertRun(o) \/ FindActive(o) \/ CommitRuns(o) \/ BeginMonitor(o)
       PROVE  session'[o].step \in {"none", "inserting", "refused", "choosing"}
  <2>1. CASE ChooseRevision(o)
    BY <1>0, <2>1 DEF ChooseRevision, Moves, Session
  <2>2. CASE InsertRun(o)
    <3>1. [s EXCEPT !.step = "choosing", !.inserted = @ \cup {ChosenRevision(o)}].step = "choosing"
      BY <1>0 DEF Session
    <3> QED
      BY <1>0, <1>4, <2>2, <3>1 DEF InsertRun, ComesTo, Moves, Step
  <2>3. CASE FindActive(o)
    BY <1>0, <1>4, <2>3 DEF FindActive, ComesTo, Moves, Step, NoCommand
  <2>4. CASE CommitRuns(o)
    BY <1>0, <2>4 DEF CommitRuns, Moves, NoCommand
  <2>5. CASE BeginMonitor(o)
    BY <1>0, <2>5 DEF BeginMonitor, Moves, NoCommand
  <2> QED
    BY <1>10, <2>1, <2>2, <2>3, <2>4, <2>5
<1> QED
  BY <1>3, <1>5, <1>6, <1>7, <1>8, <1>9, <1>10 DEF SessionMoves

\* A command that has locked a mission ends, and writes what it has locked it for.
LEMMA CommitStatusKeeps ==
  ASSUME IInv, NEW o \in Operator, CommitStatus(o)
  PROVE  IInv'
<1> USE DEF IInv
<1>1. /\ session'[o] = NoCommand /\ UNCHANGED revisions
      /\ session[o].mission \in MissionId /\ session[o].target # "NONE"
      /\ missionStatus' = [missionStatus EXCEPT ![session[o].mission] = session[o].target]
  BY DEF CommitStatus, Moves, SessionsTyped, Placed
<1>2. \A m \in MissionId : missionStatus[m] # "NONE" => missionStatus'[m] # "NONE"
  BY <1>1 DEF Chained
<1>3. Chained'
  BY <1>1 DEF Chained, Placed, CommitStatus
<1>4. \A m : Newest(m)' = Newest(m)
  BY <1>1 DEF Newest
<1>5. Placed' /\ InOrder'
  <2>1. \A p \in Operator : session[p].todo \subseteq MissionId
    BY DEF SessionsTyped, Session
  <2> QED
    BY <1>1, <1>2, <2>1, OthersRest DEF Placed, InOrder, NoCommand
<1> QED
  BY <1>1, <1>3, <1>4, <1>5, SessionsStayTyped, OthersRest
     DEF OneHolder, Fresh, NoneCollided, NoCommand

\* The revision a command inserts is the next, and so is its number.
LEMMA CommitRevisionKeeps ==
  ASSUME IInv, NEW o \in Operator, CommitRevision(o)
  PROVE  IInv'
<1> USE DEF IInv
<1> DEFINE m == session[o].mission
           revision == [number |-> session[o].number + 1, parent |-> Newest(m).number]
<1>1. session[o].step = "numbered" /\ m \in MissionId /\ missionStatus[m] # "NONE"
  BY DEF CommitRevision, Placed
<1>2. PICK n \in Nat \ {0} : revisions[m] = Chain(n)
  BY <1>1, ChainHasLast
<1>3. revision = [number |-> n + 1, parent |-> n]
  BY <1>1, <1>2, NewestOfChain DEF Fresh
<1>4. \A r \in revisions[m] : r.number # revision.number
  BY <1>2, <1>3 DEF Chain
<1>5. /\ revisions' = [revisions EXCEPT ![m] = @ \cup {revision}]
      /\ session' = [session EXCEPT ![o] = NoCommand]
      /\ UNCHANGED missionStatus
  BY <1>4 DEF CommitRevision, Moves
<1>6. revisions'[m] = Chain(n + 1)
  BY <1>1, <1>2, <1>3, <1>5, ChainGrows DEF Chained
<1>7. Chained'
  BY <1>1, <1>5, <1>6 DEF Chained
<1>8. session'[o] = NoCommand
  BY <1>5 DEF SessionsTyped
<1>9. ASSUME NEW p \in Operator, session'[p].step = "numbered"
      PROVE  (session[p].number = Newest(session[p].mission).number)'
  <2>1. p # o /\ session'[p] = session[p]
    BY <1>8, <1>9, OthersRest DEF NoCommand
  <2>2. session[p].mission # m
    BY <1>1, <1>9, <2>1 DEF OneHolder
  <2>3. revisions'[session[p].mission] = revisions[session[p].mission]
    BY <1>5, <2>2, <1>9, <2>1 DEF Chained, Placed
  <2>4. (Newest(session[p].mission))' = Newest(session[p].mission)
    BY <2>1, <2>3 DEF Newest
  <2> QED
    BY <1>9, <2>1, <2>4 DEF Fresh
<1> QED
  BY <1>5, <1>7, <1>8, <1>9, SessionsStayTyped, OthersRest
     DEF OneHolder, Fresh, NoneCollided, NoCommand, Placed, InOrder

\* A mission that is created was no command's.
LEMMA CreateMissionKeeps ==
  ASSUME IInv, NEW m \in MissionId, CreateMission(m)
  PROVE  IInv'
<1> USE DEF IInv
<1>1. /\ missionStatus[m] = "NONE" /\ UNCHANGED session
      /\ missionStatus' = [missionStatus EXCEPT ![m] = "DRAFT"]
      /\ revisions' = [revisions EXCEPT ![m] = {[number |-> 1, parent |-> 0]}]
  BY DEF CreateMission
<1>2. Chain(1) = {[number |-> 1, parent |-> 0]}
  BY DEF Chain
<1>3. Chained'
  BY <1>1, <1>2 DEF Chained
<1>4. \A o \in Operator : session[o].step = "numbered" => session[o].mission # m
  BY <1>1 DEF Placed
<1>5. \A o \in Operator : session[o].step = "numbered" =>
         Newest(session[o].mission)' = Newest(session[o].mission)
  BY <1>1, <1>4 DEF Newest, Chained, Placed
<1>6. Placed'
  BY <1>1 DEF Placed, Chained, SessionsTyped, Session
<1> QED
  BY <1>1, <1>3, <1>5, <1>6 DEF SessionsTyped, OneHolder, Fresh, NoneCollided, InOrder

LEMMA NextIInv == IInv /\ [MissionsNext]_missionVars => IInv'
<1> SUFFICES ASSUME IInv, [MissionsNext]_missionVars PROVE IInv'
  OBVIOUS
<1>1. CASE UNCHANGED missionVars
  BY <1>1 DEF missionVars, IInv, SessionsTyped, Chained, Placed, OneHolder, Fresh, NoneCollided,
              InOrder, Newest
<1>2. ASSUME NEW m \in MissionId, CreateMission(m) PROVE IInv'
  BY <1>2, CreateMissionKeeps
<1>3. ASSUME NEW revision \in activeRuns, EndOfRun(revision) PROVE IInv'
  BY <1>3 DEF EndOfRun, IInv, SessionsTyped, Chained, Placed, OneHolder, Fresh, NoneCollided,
              InOrder, Newest
<1>4. ASSUME NEW o \in Operator, SessionMoves(o) PROVE IInv'
  <2>1. Chained'
    BY <1>4, HoldersMove DEF IInv, Chained
  <2> QED
    BY <1>4, <2>1, SessionsStayTyped, PlacedStays, HoldersMove DEF IInv
<1>5. ASSUME NEW o \in Operator, CommitStatus(o) \/ CommitRevision(o) PROVE IInv'
  BY <1>5, CommitStatusKeeps, CommitRevisionKeeps
<1> QED
  BY <1>1, <1>2, <1>3, <1>4, <1>5 DEF MissionsNext, SessionMoves

LEMMA AlwaysIInv == MissionsSpec => []IInv
BY InitIInv, NextIInv, PTL DEF MissionsSpec

-----------------------------------------------------------------------------
\* However many commands revise a mission at once, its revisions are one chain from the
\* first, each with its predecessor as parent, and no revise fails because of another.
THEOREM RevisionsChainAlways == MissionsSpec => []RevisionsChain
<1>1. IInv => RevisionsChain
  <2> SUFFICES ASSUME IInv PROVE RevisionsChain
    OBVIOUS
  <2>1. ASSUME NEW m \in MissionId, NEW r \in revisions[m]
        PROVE  /\ r.parent = r.number - 1
               /\ r.number > 1 => \E q \in revisions[m] : q.number = r.parent
    <3>1. PICK n \in Nat : revisions[m] = Chain(n)
      BY DEF IInv, Chained
    <3>2. PICK k \in 1 .. n : r = [number |-> k, parent |-> k - 1]
      BY <3>1 DEF Chain
    <3>3. k > 1 => k - 1 \in 1 .. n
      OBVIOUS
    <3>4. k > 1 => [number |-> k - 1, parent |-> (k - 1) - 1] \in revisions[m]
      BY <3>1, <3>3 DEF Chain
    <3> QED
      BY <3>2, <3>4
  <2> QED
    BY <2>1 DEF RevisionsChain, IInv, NoneCollided
<1> QED
  BY <1>1, AlwaysIInv, PTL

\* However many hunts and monitors there are, PostgreSQL never has to end one of them for
\* waiting in a circle: whoever waits for the run of another is at an earlier mission.
THEOREM CommandsMoveAlways == MissionsSpec => []CommandsMove
<1>1. IInv => CommandsMove
  <2> SUFFICES ASSUME IInv, NEW circle \in (SUBSET Operator) \ {{}},
                      \A o \in circle : AwaitedBy(o) \cap circle # {}
               PROVE  FALSE
    BY DEF CommandsMove
  <2>1. ASSUME NEW o \in circle
        PROVE  session[o].step = "inserting" /\ session[o].mission \in MissionId
    <3>1. PICK p \in circle : p \in AwaitedBy(o)
      OBVIOUS
    <3>2. session[o].step \in {"checked", "inserting"}
      BY <3>1 DEF AwaitedBy
    <3>3. session[o].step # "checked"
      BY <3>1 DEF AwaitedBy, RowHolders
    <3> QED
      BY <3>2, <3>3 DEF IInv, Placed
  <2>2. ASSUME NEW o \in circle
        PROVE  \E p \in circle : session[o].mission < session[p].mission
    <3>1. PICK p \in circle : p \in AwaitedBy(o)
      OBVIOUS
    <3>2. ChosenRevision(o) \in session[p].inserted
      BY <2>1, <3>1 DEF AwaitedBy, Inserters
    <3> QED
      BY <2>1, <3>2 DEF ChosenRevision, IInv, InOrder
  <2> DEFINE places == {session[o].mission : o \in circle}
  <2>3. places \subseteq MissionId /\ places # {} /\ \A m \in places : \E k \in places : m < k
    BY <2>1, <2>2
  <2> HIDE DEF places
  <2> QED
    BY <2>3, FiniteHasLast
<1> QED
  BY <1>1, AlwaysIInv, PTL

-----------------------------------------------------------------------------
(* Merge decisions: the classes.                                           *)

Less == {ss \in Nat \X Nat : ss[1] < ss[2]}

LEMMA LessIsWellFounded == IsWellFoundedOn(Less, Nat)
BY NatLessThanWellFounded DEF Less, OpToRel

\* What no least number can break, no number breaks.
LEMMA LeastNatural ==
  ASSUME NEW S, S \subseteq Nat, S # {}
  PROVE  \E n \in S : \A m \in Nat : m < n => m \notin S
<1>1. PICK n \in S : \A m \in S : <<m, n>> \notin Less
  BY LessIsWellFounded, WFMin
<1> QED BY <1>1 DEF Less

\* The search from root: the function _accepted_equivalence computes, as far as m.
Searches(f, root, m) ==
    f = [n \in 0 .. m |->
            IF n = 0 THEN {root}
            ELSE LET known == f[n - 1] IN known \cup AcceptedNeighbours(known)]

LEMMA SearchExists ==
  ASSUME NEW root, NEW m \in Nat
  PROVE  \E f : Searches(f, root, m)
<1> DEFINE Bad == {k \in Nat : ~ \E f : Searches(f, root, k)}
<1>1. SUFFICES ASSUME Bad # {} PROVE FALSE
  OBVIOUS
<1>2. PICK k \in Bad : \A j \in Nat : j < k => j \notin Bad
  BY <1>1, LeastNatural
<1>3. CASE k = 0
  <2> DEFINE f == [n \in 0 .. 0 |-> {root}]
  <2>1. f = [n \in 0 .. 0 |->
               IF n = 0 THEN {root}
               ELSE LET known == f[n - 1] IN known \cup AcceptedNeighbours(known)]
    OBVIOUS
  <2>2. Searches(f, root, 0)
    BY <2>1 DEF Searches
  <2> QED BY <1>3, <2>2
<1>4. CASE k # 0
  <2>1. k - 1 \in Nat /\ k - 1 < k
    BY <1>4
  <2>2. PICK g : Searches(g, root, k - 1)
    BY <1>2, <2>1
  <2>3. \A n \in 0 .. k - 1 : g[n] = IF n = 0 THEN {root}
                                     ELSE g[n - 1] \cup AcceptedNeighbours(g[n - 1])
    BY <2>2 DEF Searches
  <2> DEFINE f == [n \in 0 .. k |-> IF n = k THEN g[k - 1] \cup AcceptedNeighbours(g[k - 1])
                                    ELSE g[n]]
  <2>4. \A n \in 0 .. k : f[n] = IF n = 0 THEN {root}
                                 ELSE f[n - 1] \cup AcceptedNeighbours(f[n - 1])
    <3> SUFFICES ASSUME NEW n \in 0 .. k
                 PROVE  f[n] = IF n = 0 THEN {root}
                               ELSE f[n - 1] \cup AcceptedNeighbours(f[n - 1])
      OBVIOUS
    <3>1. CASE n = 0
      <4>1. 0 \in 0 .. k - 1 /\ f[n] = g[0]
        BY <1>4, <3>1
      <4> QED BY <2>3, <3>1, <4>1
    <3>2. CASE n = k
      <4>1. f[n - 1] = g[k - 1] /\ f[n] = g[k - 1] \cup AcceptedNeighbours(g[k - 1])
        BY <1>4, <3>2
      <4> QED BY <1>4, <3>2, <4>1
    <3>3. CASE n # 0 /\ n # k
      <4>1. n \in 0 .. k - 1 /\ n - 1 \in 0 .. k - 1 /\ n - 1 # k
        BY <3>3
      <4>2. f[n] = g[n] /\ f[n - 1] = g[n - 1]
        BY <3>3, <4>1
      <4> QED BY <2>3, <3>3, <4>1, <4>2
    <3> QED BY <3>1, <3>2, <3>3
  <2>5. f = [n \in 0 .. k |->
               IF n = 0 THEN {root}
               ELSE LET known == f[n - 1] IN known \cup AcceptedNeighbours(known)]
    <3>1. f = [n \in 0 .. k |-> f[n]]
      OBVIOUS
    <3> HIDE DEF f
    <3> QED BY <2>4, <3>1
  <2>6. Searches(f, root, k)
    BY <2>5 DEF Searches
  <2> QED BY <2>6
<1> QED BY <1>3, <1>4

LEMMA EquivalentIs ==
  ASSUME NEW root
  PROVE  \E f : /\ Searches(f, root, Cardinality(Problem))
                /\ Equivalent(root) = f[Cardinality(Problem)] \ {root}
<1> DEFINE f == CHOOSE f : Searches(f, root, Cardinality(Problem))
<1>1. Cardinality(Problem) \in Nat
  BY DecisionsAssumption, FS_CardinalityType
<1>2. Searches(f, root, Cardinality(Problem))
  BY <1>1, SearchExists
<1>3. Equivalent(root) = f[Cardinality(Problem)] \ {root}
  BY DEF Equivalent, Searches
<1> QED BY <1>2, <1>3

\* No accepted pair leads out of S.
Closed(S) == AcceptedNeighbours(S) \subseteq S

LEMMA NeighboursGrow ==
  ASSUME NEW S, NEW T, S \subseteq T
  PROVE  AcceptedNeighbours(S) \subseteq AcceptedNeighbours(T)
BY DEF AcceptedNeighbours

\* The search finds the least set that is closed and has the root in it: nothing else, as
\* every closed set with the root holds each of its stages, and everything, as each stage
\* that is not closed is larger than the last.
LEMMA SearchFinds ==
  ASSUME NEW root \in Problem
  PROVE  LET found == Equivalent(root) \cup {root}
         IN  /\ found \subseteq Problem
             /\ Closed(found)
             /\ \A S : Closed(S) /\ root \in S => found \subseteq S
             /\ root \notin Equivalent(root)
<1> DEFINE N == Cardinality(Problem)
<1>1. N \in Nat /\ IsFiniteSet(Problem)
  BY DecisionsAssumption, FS_CardinalityType
<1>2. PICK f : Searches(f, root, N) /\ Equivalent(root) = f[N] \ {root}
  BY EquivalentIs
<1> HIDE DEF N
<1>3. f[0] = {root} /\ \A n \in 1 .. N : f[n] = f[n - 1] \cup AcceptedNeighbours(f[n - 1])
  <2>1. \A n \in 0 .. N : f[n] = IF n = 0 THEN {root}
                                ELSE f[n - 1] \cup AcceptedNeighbours(f[n - 1])
    BY <1>2 DEF Searches
  <2>2. 0 \in 0 .. N /\ \A n \in 1 .. N : n \in 0 .. N /\ n # 0
    BY <1>1
  <2> QED BY <2>1, <2>2
<1>4. ASSUME NEW S, Closed(S), root \in S, NEW n \in 0 .. N PROVE f[n] \subseteq S
  <2> DEFINE Bad == {k \in Nat : k \in 0 .. N /\ ~ (f[k] \subseteq S)}
  <2>1. SUFFICES ASSUME Bad # {} PROVE FALSE
    BY <1>1, <1>4
  <2>2. PICK k \in Bad : \A j \in Nat : j < k => j \notin Bad
    BY <2>1, LeastNatural
  <2>3. k # 0
    BY <1>3, <1>4, <2>2
  <2>4. k \in 1 .. N /\ k - 1 \in Nat /\ k - 1 \in 0 .. N /\ k - 1 < k
    BY <1>1, <2>3
  <2>5. f[k - 1] \subseteq S
    BY <2>2, <2>4
  <2>6. AcceptedNeighbours(f[k - 1]) \subseteq S
    BY <1>4, <2>5, NeighboursGrow DEF Closed
  <2> QED BY <1>3, <2>2, <2>4, <2>5, <2>6
<1>5. Closed(Problem)
  BY DEF Closed, AcceptedNeighbours
<1>6. \A n \in 0 .. N : f[n] \subseteq Problem /\ IsFiniteSet(f[n]) /\ Cardinality(f[n]) \in Nat
  BY <1>1, <1>4, <1>5, FS_Subset, FS_CardinalityType
<1>7. ASSUME NEW n \in 0 .. N PROVE Closed(f[n]) \/ Cardinality(f[n]) > n
  <2> DEFINE Bad == {k \in Nat : k \in 0 .. N /\ ~ Closed(f[k]) /\ ~ (Cardinality(f[k]) > k)}
  <2>1. SUFFICES ASSUME Bad # {} PROVE FALSE
    BY <1>1, <1>7
  <2>2. PICK k \in Bad : \A j \in Nat : j < k => j \notin Bad
    BY <2>1, LeastNatural
  <2>3. k # 0
    <3>1. Cardinality(f[0]) = 1
      BY <1>3, FS_Singleton
    <3> QED BY <2>2, <3>1
  <2>4. k \in 1 .. N /\ k \in 0 .. N /\ k - 1 \in Nat /\ k - 1 \in 0 .. N /\ k - 1 < k
    BY <1>1, <2>3
  <2>5. f[k] = f[k - 1] \cup AcceptedNeighbours(f[k - 1])
    BY <1>3, <2>4
  <2>6. CASE Closed(f[k - 1])
    <3>1. f[k] = f[k - 1]
      BY <2>5, <2>6 DEF Closed
    <3> QED BY <2>2, <2>6, <3>1
  <2>7. CASE ~ Closed(f[k - 1])
    <3>1. f[k - 1] \subseteq f[k] /\ f[k - 1] # f[k]
      BY <2>5, <2>7 DEF Closed
    <3>2. Cardinality(f[k - 1]) < Cardinality(f[k])
      BY <1>6, <2>4, <3>1, FS_Subset
    <3>3. Cardinality(f[k - 1]) > k - 1
      BY <2>2, <2>4, <2>7
    <3>4. Cardinality(f[k]) \in Nat /\ Cardinality(f[k - 1]) \in Nat
      BY <1>6, <2>4
    <3>5. Cardinality(f[k]) > k
      BY <3>2, <3>3, <3>4, <2>4
    <3> QED BY <2>2, <3>5
  <2> QED BY <2>6, <2>7
<1>8. Closed(f[N])
  <2>1. N \in 0 .. N
    BY <1>1
  <2>2. Cardinality(f[N]) <= N
    BY <1>1, <1>6, <2>1, FS_Subset DEF N
  <2>3. Cardinality(f[N]) \in Nat
    BY <1>6, <2>1
  <2>4. ~ (Cardinality(f[N]) > N)
    BY <1>1, <2>2, <2>3
  <2> QED BY <1>7, <2>1, <2>4
<1>9. root \in f[N]
  <2> DEFINE Bad == {k \in Nat : k \in 0 .. N /\ root \notin f[k]}
  <2>1. SUFFICES ASSUME Bad # {} PROVE FALSE
    BY <1>1
  <2>2. PICK k \in Bad : \A j \in Nat : j < k => j \notin Bad
    BY <2>1, LeastNatural
  <2>3. k # 0
    BY <1>3, <2>2
  <2>4. k \in 1 .. N /\ k - 1 \in Nat /\ k - 1 \in 0 .. N /\ k - 1 < k
    BY <1>1, <2>3
  <2> QED BY <1>3, <2>2, <2>4
<1>10. Equivalent(root) \cup {root} = f[N] /\ root \notin Equivalent(root)
  BY <1>2, <1>9
<1>11. N \in 0 .. N
  BY <1>1
<1> QED BY <1>4, <1>6, <1>8, <1>10, <1>11

\* An accepted pair leads from either of its problems to the other.
LEMMA PairsLead ==
  ASSUME NEW S, NEW p \in S, NEW q \in Problem, {p, q} \in Candidate, verdict[{p, q}] = "ACCEPTED"
  PROVE  q \in AcceptedNeighbours(S)
BY DEF AcceptedNeighbours

LEMMA ClassIsOne ==
  ASSUME NEW p \in Problem, NEW q \in Equivalent(p)
  PROVE  Equivalent(q) = (Equivalent(p) \cup {p}) \ {q}
<1> DEFINE P == Equivalent(p) \cup {p}
           Q == Equivalent(q) \cup {q}
<1>1. /\ P \subseteq Problem /\ Closed(P) /\ \A S : Closed(S) /\ p \in S => P \subseteq S
  BY SearchFinds
<1>2. q \in Problem /\ q \in P
  BY <1>1
<1>3. /\ Closed(Q) /\ \A S : Closed(S) /\ q \in S => Q \subseteq S
      /\ q \notin Equivalent(q)
  BY <1>2, SearchFinds
<1>4. Q \subseteq P
  BY <1>1, <1>2, <1>3
<1>5. p \in Q
  <2>1. SUFFICES ASSUME p \notin Q PROVE FALSE
    OBVIOUS
  <2>2. Closed(P \ Q)
    <3>1. SUFFICES ASSUME NEW y \in AcceptedNeighbours(P \ Q) PROVE y \in P \ Q
      BY DEF Closed
    <3>2. PICK x \in P \ Q : {x, y} \in Candidate /\ verdict[{x, y}] = "ACCEPTED"
      BY DEF AcceptedNeighbours
    <3>3. y \in Problem /\ x \in Problem
      BY <1>1 DEF AcceptedNeighbours
    <3>4. y \in P
      BY <1>1, <3>2, <3>3, PairsLead DEF Closed
    <3>5. ASSUME y \in Q PROVE FALSE
      <4>1. {y, x} = {x, y}
        OBVIOUS
      <4>2. x \in Q
        BY <1>3, <3>2, <3>3, <3>5, <4>1, PairsLead DEF Closed
      <4> QED BY <4>2
    <3> QED BY <3>4, <3>5
  <2>3. P \subseteq P \ Q
    BY <1>1, <2>1, <2>2
  <2> QED BY <1>2, <2>3
<1>6. P \subseteq Q
  BY <1>1, <1>3, <1>5
<1> QED BY <1>3, <1>4, <1>6

\* The classes hold in any state, whatever has been decided: they are those of the pairs
\* that stand accepted.
LEMMA ClassesHoldAlways == ClassesHold
<1> DEFINE accepted == {c \in Candidate : verdict[c] = "ACCEPTED"}
<1>1. ASSUME NEW c \in accepted, NEW p \in c PROVE c \ {p} \subseteq Equivalent(p)
  <2> SUFFICES ASSUME NEW q \in c, q # p PROVE q \in Equivalent(p)
    OBVIOUS
  <2>1. c \subseteq Problem /\ Cardinality(c) = 2 /\ IsFiniteSet(c)
    BY DecisionsAssumption, FS_Subset
  <2>2. c = {p, q}
    <3>1. IsFiniteSet({p, q}) /\ Cardinality({p, q}) = 2
      <4>1. IsFiniteSet({p}) /\ Cardinality({p}) = 1
        BY FS_Singleton
      <4>2. {p, q} = {p} \cup {q}
        OBVIOUS
      <4> QED BY <4>1, <4>2, FS_AddElement
    <3>2. {p, q} \subseteq c
      OBVIOUS
    <3> DEFINE pair == {p, q}
    <3> HIDE DEF pair
    <3>3. pair = c
      BY <2>1, <3>1, <3>2, FS_Subset DEF pair
    <3> QED BY <3>3 DEF pair
  <2>3. {p, q} \in Candidate /\ verdict[{p, q}] = "ACCEPTED" /\ p \in Problem /\ q \in Problem
    BY <2>1, <2>2
  <2>4. q \in AcceptedNeighbours(Equivalent(p) \cup {p})
    BY <2>3, PairsLead
  <2> QED BY <2>3, <2>4, SearchFinds DEF Closed
<1>2. ASSUME NEW p \in Problem, NEW S \in SUBSET Problem, p \in S, Equivalent(p) \ S # {}
      PROVE  \E c \in accepted : c \cap S # {} /\ c \ S # {}
  <2>1. SUFFICES ASSUME \A c \in accepted : c \cap S # {} => c \ S = {} PROVE FALSE
    OBVIOUS
  <2>2. Closed(S)
    <3>1. SUFFICES ASSUME NEW q \in AcceptedNeighbours(S) PROVE q \in S
      BY DEF Closed
    <3>2. PICK x \in S : {x, q} \in Candidate /\ verdict[{x, q}] = "ACCEPTED"
      BY DEF AcceptedNeighbours
    <3>3. {x, q} \in accepted /\ {x, q} \cap S # {}
      BY <3>2
    <3> QED BY <2>1, <3>3
  <2>3. Equivalent(p) \subseteq S
    BY <1>2, <2>2, SearchFinds
  <2> QED BY <1>2, <2>3
<1> QED BY <1>1, <1>2, ClassIsOne DEF ClassesHold

-----------------------------------------------------------------------------
(* Merge decisions: the reviewers.                                         *)

Status == {"PENDING", "ACCEPTED", "REJECTED", "REVERSED"}
Actions == {"ACCEPT", "REJECT", "REVERSE"}
Decision == [action : Actions, from : Status, to : Status]

MergesTyped ==
    /\ verdict \in [Candidate -> Status]
    /\ decisions \in [Candidate -> Seq(Decision)]
    /\ review \in [Reviewer -> [step : {"none", "read", "numbered"},
                                candidate : Candidate \cup {{}},
                                action : Actions \cup {"NONE"},
                                from : Status \cup {"NONE"}, number : Nat]]

\* The status a candidate had before its nth decision.
Before(c, n) == IF n = 1 THEN "PENDING" ELSE decisions[c][n - 1].to

PathStands(c) ==
    /\ verdict[c] = Before(c, Len(decisions[c]) + 1)
    /\ \A n \in 1 .. Len(decisions[c]) :
          decisions[c][n].from = Before(c, n) /\ Before(c, n) \notin {"REJECTED", "REVERSED"}

\* A reviewer in a transaction is the only one at its candidate, so that what it has read
\* of it is still so.
Alone(p) ==
    review[p].step # "none" =>
       /\ review[p].candidate \in Candidate /\ review[p].action \in Actions
       /\ review[p].from = verdict[review[p].candidate]
       /\ review[p].from = RequiredStatus(review[p].action)
       /\ review[p].step = "numbered" =>
             review[p].number = Len(decisions[review[p].candidate]) + 1
       /\ \A q \in Reviewer \ {p} : review[q].step # "none" =>
             review[q].candidate # review[p].candidate

DecisionsInv == /\ MergesTyped
                /\ \A c \in Candidate : PathStands(c)
                /\ \A p \in Reviewer : Alone(p)

LEMMA TargetIs ==
  /\ DOMAIN Target = Actions
  /\ \A action \in Actions :
        /\ Target[action] \in Status
        /\ RequiredStatus(action) \in Status \ {"REJECTED", "REVERSED"}
BY DEF Target, Actions, Status, RequiredStatus

LEMMA DecisionsInvInit == DecisionsInit => DecisionsInv
<1> SUFFICES ASSUME DecisionsInit PROVE DecisionsInv
  OBVIOUS
<1>1. MergesTyped
  <2>1. <<>> \in Seq(Decision)
    BY EmptySeq
  <2> QED BY <2>1 DEF DecisionsInit, MergesTyped, NoReview, Status
<1>2. ASSUME NEW c \in Candidate PROVE PathStands(c)
  <2>1. Len(decisions[c]) = 0
    BY EmptySeq DEF DecisionsInit
  <2> QED BY <2>1 DEF DecisionsInit, PathStands, Before
<1>3. \A p \in Reviewer : Alone(p)
  BY DEF DecisionsInit, Alone, NoReview
<1> QED BY <1>1, <1>2, <1>3 DEF DecisionsInv

\* A reviewer takes a candidate nobody else has.
LEMMA ReadKeeps ==
  ASSUME DecisionsInv, NEW p \in Reviewer, NEW c \in Candidate, NEW action \in DOMAIN Target,
         ReadCandidate(p, c, action)
  PROVE  DecisionsInv'
<1>1. /\ review[p].step = "none" /\ verdict[c] = RequiredStatus(action)
      /\ \A q \in Reviewer : review[q].candidate # c
      /\ review' = [review EXCEPT ![p] = [step |-> "read", candidate |-> c, action |-> action,
                                          from |-> verdict[c], number |-> 0]]
      /\ verdict' = verdict /\ decisions' = decisions
  <2>1. \A q \in Reviewer : review[q].step # "failed"
    BY DEF DecisionsInv, MergesTyped
  <2>2. \A q \in Reviewer : review[q].candidate # c
    BY <2>1 DEF ReadCandidate, Readable, LockedCandidate
  <2>3. review[p].step = "none" /\ verdict[c] = RequiredStatus(action)
    BY DEF ReadCandidate, NoReview
  <2> QED BY <2>2, <2>3 DEF ReadCandidate
<1>2. action \in Actions
  BY TargetIs
<1>3. MergesTyped'
  BY <1>1, <1>2 DEF DecisionsInv, MergesTyped
<1>4. ASSUME NEW q \in Reviewer PROVE Alone(q)'
  BY <1>1, <1>2 DEF DecisionsInv, MergesTyped, Alone
<1>5. \A d \in Candidate : PathStands(d)'
  BY <1>1 DEF DecisionsInv, PathStands, Before
<1> QED BY <1>3, <1>4, <1>5 DEF DecisionsInv

LEMMA NumberKeeps ==
  ASSUME DecisionsInv, NEW p \in Reviewer, NumberDecision(p)
  PROVE  DecisionsInv'
<1>1. review[p].step = "read" /\ review[p].candidate \in Candidate
  BY DEF NumberDecision, DecisionsInv, Alone
<1>2. Len(decisions[review[p].candidate]) \in Nat
  BY <1>1, LenProperties DEF DecisionsInv, MergesTyped
<1>3. /\ review' = [review EXCEPT ![p] = [review[p] EXCEPT
                       !.step = "numbered", !.number = Len(decisions[review[p].candidate]) + 1]]
      /\ verdict' = verdict /\ decisions' = decisions
  BY DEF NumberDecision, DecisionsInv, MergesTyped
<1>4. MergesTyped'
  <2> DEFINE Reviews == [step : {"none", "read", "numbered"}, candidate : Candidate \cup {{}},
                         action : Actions \cup {"NONE"}, from : Status \cup {"NONE"}, number : Nat]
  <2>1. review \in [Reviewer -> Reviews]
    BY DEF DecisionsInv, MergesTyped
  <2>2. PICK number \in Nat : number = Len(decisions[review[p].candidate]) + 1
    BY <1>2
  <2>3. [review[p] EXCEPT !.step = "numbered", !.number = number] \in Reviews
    BY <2>1
  <2>4. review' \in [Reviewer -> Reviews]
    BY <1>3, <2>1, <2>2, <2>3
  <2> QED BY <1>3, <2>4 DEF DecisionsInv, MergesTyped
<1>5. ASSUME NEW q \in Reviewer PROVE Alone(q)'
  BY <1>1, <1>3 DEF DecisionsInv, MergesTyped, Alone
<1>6. \A d \in Candidate : PathStands(d)'
  BY <1>3 DEF DecisionsInv, PathStands, Before
<1> QED BY <1>4, <1>5, <1>6 DEF DecisionsInv

\* The event is inserted: its number is still the next, its status still the candidate's.
LEMMA DecideKeeps ==
  ASSUME DecisionsInv, NEW p \in Reviewer, Decide(p)
  PROVE  DecisionsInv'
<1>0. PICK c \in Candidate : c = review[p].candidate
  BY DEF Decide, DecisionsInv, Alone
<1>1. PICK action \in Actions : action = review[p].action
  BY DEF Decide, DecisionsInv, Alone
<1>2. /\ review[p].step = "numbered"
      /\ review[p].from = verdict[c] /\ verdict[c] = RequiredStatus(action)
      /\ review[p].number = Len(decisions[c]) + 1
      /\ \A q \in Reviewer \ {p} : review[q].step # "none" => review[q].candidate # c
  BY <1>0, <1>1 DEF Decide, DecisionsInv, Alone
<1>3. Insertable(review[p])
  BY <1>0, <1>2 DEF Insertable
<1>4. PICK event \in Decision : event = [action |-> action, from |-> verdict[c], to |-> Target[action]]
  BY <1>2, TargetIs DEF Decision
<1>5. /\ decisions' = [decisions EXCEPT ![c] = Append(decisions[c], event)]
      /\ verdict' = [verdict EXCEPT ![c] = event.to]
      /\ review' = [review EXCEPT ![p] = NoReview]
  BY <1>0, <1>1, <1>2, <1>3, <1>4 DEF Decide, DecisionsInv, MergesTyped
<1>6. decisions[c] \in Seq(Decision)
  BY DEF DecisionsInv, MergesTyped
<1>7. /\ Append(decisions[c], event) \in Seq(Decision)
      /\ Len(Append(decisions[c], event)) = Len(decisions[c]) + 1
      /\ \A n \in 1 .. Len(decisions[c]) : Append(decisions[c], event)[n] = decisions[c][n]
      /\ Append(decisions[c], event)[Len(decisions[c]) + 1] = event
      /\ Len(decisions[c]) \in Nat
  BY <1>6, AppendProperties, LenProperties
<1>8. /\ decisions'[c] = Append(decisions[c], event) /\ verdict'[c] = event.to
      /\ \A d \in Candidate \ {c} : decisions'[d] = decisions[d] /\ verdict'[d] = verdict[d]
      /\ review'[p] = NoReview /\ \A q \in Reviewer \ {p} : review'[q] = review[q]
  BY <1>5 DEF DecisionsInv, MergesTyped
<1>9. MergesTyped'
  <2>1. verdict' \in [Candidate -> Status]
    BY <1>4, <1>5 DEF DecisionsInv, MergesTyped, Decision
  <2>2. decisions' \in [Candidate -> Seq(Decision)]
    BY <1>5, <1>7 DEF DecisionsInv, MergesTyped
  <2>3. review' \in [Reviewer -> [step : {"none", "read", "numbered"},
                                  candidate : Candidate \cup {{}},
                                  action : Actions \cup {"NONE"},
                                  from : Status \cup {"NONE"}, number : Nat]]
    BY <1>5 DEF DecisionsInv, MergesTyped, NoReview
  <2> QED BY <2>1, <2>2, <2>3 DEF MergesTyped
<1>10. ASSUME NEW q \in Reviewer PROVE Alone(q)'
  <2>1. CASE q = p
    BY <1>8, <2>1 DEF Alone, NoReview
  <2>2. CASE q # p /\ review[q].step # "none"
    <3>1. PICK d \in Candidate : d = review[q].candidate
      BY <2>2 DEF DecisionsInv, Alone
    <3>2. d # c
      BY <1>2, <2>2, <3>1
    <3>3. verdict'[d] = verdict[d] /\ decisions'[d] = decisions[d] /\ review'[q] = review[q]
      BY <1>8, <2>2, <3>2
    <3>4. \A o \in Reviewer \ {q} : review'[o].step # "none" =>
             review[o].step # "none" /\ review'[o] = review[o]
      BY <1>8 DEF NoReview
    <3> QED BY <2>2, <3>1, <3>3, <3>4 DEF DecisionsInv, Alone
  <2>3. CASE q # p /\ review[q].step = "none"
    BY <1>8, <2>3 DEF Alone
  <2> QED BY <2>1, <2>2, <2>3
<1>11. ASSUME NEW d \in Candidate PROVE PathStands(d)'
  <2>1. CASE d # c
    <3>1. decisions'[d] = decisions[d] /\ verdict'[d] = verdict[d]
      BY <1>8, <2>1
    <3> QED BY <3>1 DEF DecisionsInv, PathStands, Before
  <2>2. ASSUME d = c PROVE PathStands(c)'
    <3>0. PICK N \in Nat : N = Len(decisions[c])
      BY <1>7
    <3>1. PathStands(c)
      BY DEF DecisionsInv
    <3>2. /\ Len(decisions'[c]) = N + 1 /\ N \in Nat
          /\ \A n \in 1 .. N : decisions'[c][n] = decisions[c][n]
          /\ decisions'[c][N + 1] = event
      BY <1>7, <1>8, <3>0
    <3>3. ASSUME NEW n \in 1 .. N + 1 PROVE Before(c, n)' = Before(c, n)
      <4>1. n # 1 => n - 1 \in 1 .. N
        BY <3>2
      <4>2. n # 1 => decisions'[c][n - 1] = decisions[c][n - 1]
        BY <3>2, <4>1
      <4> QED BY <4>2 DEF Before
    <3>4. Before(c, N + 2)' = event.to
      <4>1. N + 2 # 1 /\ (N + 2) - 1 = N + 1
        BY <3>2
      <4> QED BY <3>2, <4>1 DEF Before
    <3>5. verdict'[c] = Before(c, N + 2)' /\ Len(decisions'[c]) + 1 = N + 2
      BY <1>8, <3>2, <3>4
    <3>6. ASSUME NEW n \in 1 .. N + 1
          PROVE  /\ decisions'[c][n].from = Before(c, n)'
                 /\ Before(c, n)' \notin {"REJECTED", "REVERSED"}
      <4>1. n \in 1 .. N + 1
        OBVIOUS
      <4>2. CASE n \in 1 .. N
        BY <3>0, <3>1, <3>2, <3>3, <4>1, <4>2 DEF PathStands
      <4>3. CASE n = N + 1
        <5>1. Before(c, n) = verdict[c]
          BY <3>0, <3>1, <4>3 DEF PathStands
        <5>2. decisions'[c][n].from = verdict[c]
          BY <1>4, <3>2, <4>3
        <5> QED BY <1>2, <3>3, <4>1, <5>1, <5>2, TargetIs
      <4> QED BY <3>2, <4>1, <4>2, <4>3
    <3> QED BY <3>2, <3>5, <3>6 DEF PathStands
  <2> QED BY <2>1, <2>2
<1> QED BY <1>9, <1>10, <1>11 DEF DecisionsInv

LEMMA DecisionsInvKept ==
  ASSUME DecisionsInv, [DecisionsNext]_mergeVars
  PROVE  DecisionsInv'
<1>1. CASE DecisionsNext
  BY <1>1, ReadKeeps, NumberKeeps, DecideKeeps DEF DecisionsNext
<1>2. CASE UNCHANGED mergeVars
  BY <1>2 DEF mergeVars, DecisionsInv, MergesTyped, PathStands, Before, Alone
<1> QED BY <1>1, <1>2

LEMMA DecisionsInvStands == DecisionsInv => DecisionsStand
<1> SUFFICES ASSUME DecisionsInv PROVE DecisionsStand
  OBVIOUS
<1>1. \A p \in Reviewer : review[p].step # "failed"
  BY DEF DecisionsInv, MergesTyped
<1>2. ASSUME NEW c \in Candidate
      PROVE  LET path == <<"PENDING">> \o [n \in DOMAIN decisions[c] |-> decisions[c][n].to]
             IN  /\ path[Len(path)] = verdict[c]
                 /\ \A n \in DOMAIN decisions[c] :
                       /\ decisions[c][n].from = path[n]
                       /\ path[n] \notin {"REJECTED", "REVERSED"}
  <2> DEFINE N == Len(decisions[c])
             tos == [n \in DOMAIN decisions[c] |-> decisions[c][n].to]
             path == <<"PENDING">> \o tos
  <2>1. N \in Nat /\ DOMAIN decisions[c] = 1 .. N /\ \A n \in 1 .. N : decisions[c][n] \in Decision
    BY LenProperties, ElementOfSeq DEF DecisionsInv, MergesTyped
  <2>2. tos \in Seq(Status) /\ Len(tos) = N /\ \A n \in 1 .. N : tos[n] = decisions[c][n].to
    <3>1. tos \in [1 .. N -> Status]
      BY <2>1 DEF Decision
    <3>2. tos \in Seq(Status)
      BY <2>1, <3>1
    <3> QED BY <2>1, <3>1, <3>2, LenProperties
  <2>3. <<"PENDING">> \in Seq(Status) /\ Len(<<"PENDING">>) = 1
    BY DEF Status
  <2> HIDE DEF tos, N
  <2>4. /\ Len(path) = N + 1 /\ path[1] = "PENDING"
        /\ \A n \in 1 .. N + 1 : n # 1 => path[n] = tos[n - 1]
    <3>1. /\ Len(path) = Len(<<"PENDING">>) + Len(tos)
          /\ \A i \in 1 .. Len(<<"PENDING">>) + Len(tos) :
                path[i] = IF i <= Len(<<"PENDING">>) THEN <<"PENDING">>[i]
                          ELSE tos[i - Len(<<"PENDING">>)]
      BY <2>2, <2>3, ConcatProperties
    <3> HIDE DEF path
    <3> QED BY <2>1, <2>2, <2>3, <3>1
  <2> HIDE DEF path
  <2>5. ASSUME NEW n \in 1 .. N + 1 PROVE path[n] = Before(c, n)
    <3>1. n # 1 => n - 1 \in 1 .. N
      BY <2>1
    <3> QED BY <2>2, <2>4, <3>1 DEF Before
  <2>6. PathStands(c)
    BY DEF DecisionsInv
  <2>7. path[Len(path)] = verdict[c]
    <3>1. N + 1 \in 1 .. N + 1
      BY <2>1
    <3> QED BY <2>4, <2>5, <2>6, <3>1 DEF PathStands, N
  <2>8. ASSUME NEW n \in 1 .. N
        PROVE  decisions[c][n].from = path[n] /\ path[n] \notin {"REJECTED", "REVERSED"}
    <3>1. n \in 1 .. N + 1
      BY <2>1
    <3> QED BY <2>5, <2>6, <3>1 DEF PathStands, N
  <2> QED BY <2>1, <2>7, <2>8 DEF path, tos
<1> QED BY <1>1, <1>2, ClassesHoldAlways DEF DecisionsStand

\* Whatever reviewers decide at once: the audit of a pair is a path from PENDING to its
\* status, no decision that was allowed as it was read fails, and readers find the classes
\* of the accepted pairs, for any problems and any pairs of them.
THEOREM DecisionsStandAlways == DecisionsSpec => []DecisionsStand
BY DecisionsInvInit, DecisionsInvKept, DecisionsInvStands, PTL DEF DecisionsSpec
=============================================================================
