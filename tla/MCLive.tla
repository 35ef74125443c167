------------------------------- MODULE MCLive -------------------------------
(***************************************************************************)
(* What must happen in the end, in two parts that share no state: the runs *)
(* of the queue, and one call of the provider. One of them moves while the *)
(* other rests where it begins; the fairness of the queue is that of       *)
(* RunQueue, for as long as it moves.                                      *)
(***************************************************************************)
EXTENDS MCRunQueue, CodexProcess

VARIABLE moves      \* which of them moves

liveVars == <<vars, processVars, moves>>

LiveInit == Init /\ ProcessInit /\ moves \in {"queue", "process"}

LiveNext ==
    /\ UNCHANGED moves
    /\ \/ moves = "queue" /\ Next /\ UNCHANGED processVars
       \/ moves = "process" /\ ProcessNext /\ UNCHANGED vars

Fairly(A) == moves = "queue" /\ A

LiveSpec ==
    /\ LiveInit /\ [][LiveNext]_liveVars
    /\ ProcessFairness
    /\ WF_vars(Fairly(Tick))
    /\ SF_vars(Fairly(\E w \in Worker : Admit(w)))
    /\ \A w \in Worker : /\ WF_vars(Fairly(Claim(w)))
                         /\ WF_vars(Fairly(Heartbeat(w)))
                         /\ WF_vars(Fairly(Settle(w)))
                         /\ WF_vars(Fairly(Restart(w)))
=============================================================================
