------------------------------ MODULE MCParts -------------------------------
(***************************************************************************)
(* Parts that share no state, explored in one run: the queue with its      *)
(* handlers, the row locks, and the stored posts, report files, backups    *)
(* and merge decisions. One of them moves while the others rest where they *)
(* begin: to interleave them would only multiply their states.             *)
(***************************************************************************)
EXTENDS MCResearchHandler, RowLocks, RawSignals, ReportArtifacts, Backups, MergeDecisions

\* A comment of a GitHub issue has its URL, once normalized.
MCUrlOf == <<1, 2, 2>>
MCNear == {<<"a", "b">>, <<"b", "a">>}
MCLexical == {<<"a", "c">>, <<"c", "a">>}
MCChronology == <<"first", "second">>
MCRendering == {[run |-> "first", version |-> 1], [run |-> "first", version |-> 2],
                [run |-> "second", version |-> 1]}
MCDayOf == [first |-> "Monday", second |-> "Tuesday"]
MCTiers == <<[keep |-> 1, span |-> 1], [keep |-> 2, span |-> 2]>>

VARIABLE moving     \* which of them moves

partsVars == <<hvars, lockVars, signalVars, reportVars, backupVars, mergeVars,
               moving>>

PartsInit ==
    /\ HInit /\ LocksInit /\ SignalInit /\ ReportInit /\ BackupInit /\ DecisionsInit
    /\ moving \in {"handler", "locks", "signals", "reports", "backups", "merges"}

PartsNext ==
    /\ UNCHANGED moving
    /\ \/ /\ moving = "handler" /\ HNext
          /\ UNCHANGED <<lockVars, signalVars, reportVars, backupVars, mergeVars>>
       \/ /\ moving = "locks" /\ LocksNext
          /\ UNCHANGED <<hvars, signalVars, reportVars, backupVars, mergeVars>>
       \/ /\ moving = "signals" /\ SignalNext
          /\ UNCHANGED <<hvars, lockVars, reportVars, backupVars, mergeVars>>
       \/ /\ moving = "reports" /\ ReportNext
          /\ UNCHANGED <<hvars, lockVars, signalVars, backupVars, mergeVars>>
       \/ /\ moving = "backups" /\ BackupNext
          /\ UNCHANGED <<hvars, lockVars, signalVars, reportVars, mergeVars>>
       \/ /\ moving = "merges" /\ DecisionsNext
          /\ UNCHANGED <<hvars, lockVars, signalVars, reportVars, backupVars>>

PartsSpec == PartsInit /\ [][PartsNext]_partsVars
=============================================================================
