---------------------------- MODULE ReportArtifacts ----------------------------
(***************************************************************************)
(* The report files (reports/artifacts.py): persist_run makes the dated    *)
(* directory of a run's report and syncs the root if it had not found it   *)
(* there. Under a lock of the root it then stores the report once for all, *)
(* moves the pointer to the latest report and replaces the latest report.  *)
(* Each file is written aside, renamed into place, its directory synced.   *)
(*                                                                         *)
(* A reporter may be killed, or fail, between any two of these steps, and  *)
(* the power may fail: then each directory and each rename that was not    *)
(* synced is there or not, and a directory takes its reports with it. What *)
(* a report says is a version of it: the data of a run may have changed    *)
(* since its report was stored. The root itself is there for good: the     *)
(* image has it, and a volume is mounted on it.                            *)
(***************************************************************************)
EXTENDS Integers

CONSTANTS
    Reporter,       \* processes that run `report run`
    Chronology,     \* the runs that are over, by the time they have started and their id
    DayOf,          \* [run -> the directory of its report]
    Rendering,      \* reports that may be rendered: a run and a version of what it says
    MaxReports,     \* bound: no more reports are begun
    MaxPowerLosses  \* bound

NoReporter == "nobody"

ASSUME ReportAssumption ==
    /\ DOMAIN Chronology \subseteq Nat \ {0}
    /\ \A m, n \in DOMAIN Chronology : Chronology[m] = Chronology[n] => m = n
    /\ \A n \in DOMAIN Chronology : Chronology[n] \notin {"pointer", "latest"}
    /\ \A n \in DOMAIN Chronology : DayOf[Chronology[n]] # "root"
    /\ \A report \in Rendering : report.run \in {Chronology[n] : n \in DOMAIN Chronology}
    /\ NoReporter \notin Reporter
    /\ MaxReports \in Nat
    /\ MaxPowerLosses \in Nat

RunReport == {Chronology[n] : n \in DOMAIN Chronology}
File == RunReport \cup {"pointer", "latest"}
Position(run) == CHOOSE n \in DOMAIN Chronology : Chronology[n] = run

VARIABLES
    files,      \* [file |-> the report it holds, or points to], of the files there are
    disk,       \* the same, as a power failure would leave them if it left their directory
    days,       \* the dated directories there are
    lasting,    \* those of them that a power failure would leave
    holder,     \* who holds the lock
    desk,       \* [Reporter -> where it is and with which report]
    begun,      \* how many reports have been begun
    losses,     \* how often the power has failed
    orphans,    \* history: files whose reporter was cut off before it had synced them
    torn,       \* history: the power has failed where it might tear pointer and report apart
    published   \* history: the position of the newest report that was returned

reportVars == <<files, disk, days, lasting, holder, desk, begun, losses, orphans, torn, published>>

AtDesk(at, report) == [at |-> at, report |-> report]
Away == AtDesk("away", CHOOSE report \in Rendering : TRUE)

ReportInit == /\ files = <<>>
              /\ disk = <<>>
              /\ days = {}
              /\ lasting = {}
              /\ holder = NoReporter
              /\ desk = [p \in Reporter |-> Away]
              /\ begun = 0
              /\ losses = 0
              /\ orphans = {}
              /\ torn = FALSE
              /\ published = 0

-----------------------------------------------------------------------------
Atop(new, old) ==
    [f \in DOMAIN new \cup DOMAIN old |-> IF f \in DOMAIN new THEN new[f] ELSE old[f]]
Goes(p, at) == desk' = [desk EXCEPT ![p].at = at]
Carries(file, report) == file \in DOMAIN files /\ files[file] = report
Unsynced == {f \in DOMAIN files : f \notin DOMAIN disk \/ disk[f] # files[f]}
Directory(file) == IF file \in RunReport THEN DayOf[file] ELSE "root"

\* Bug: the files are replaced without waiting for the lock.
TakesLockWithoutWaiting(p) == holder' = p

TakesLock(p) == holder = NoReporter /\ holder' = p

\* persist_run begins with the report of a run that is over, and looks for its directory.
Render(p, report) ==
    /\ desk[p].at = "away"
    /\ begun < MaxReports
    /\ begun' = begun + 1
    /\ desk' = [desk EXCEPT ![p] =
                   AtDesk(IF DayOf[report.run] \in days THEN "waiting" ELSE "making", report)]
    /\ UNCHANGED <<files, disk, days, lasting, holder, losses, orphans, torn, published>>

\* It makes the directory, which another may have made since, and has the root to sync.
MakeDirectory(p) ==
    /\ desk[p].at = "making"
    /\ days' = days \cup {DayOf[desk[p].report.run]}
    /\ Goes(p, "sync root")
    /\ UNCHANGED <<files, disk, lasting, holder, begun, losses, orphans, torn, published>>

Lock(p) == /\ desk[p].at = "waiting"
           /\ TakesLock(p)
           /\ Goes(p, "report")
           /\ UNCHANGED <<files, disk, days, lasting, begun, losses, orphans, torn, published>>

\* _atomic_replace: written aside, renamed; the directory is synced as a step of its own.
Replace(file, report) ==
    /\ files' = Atop([f \in {file} |-> report], files)
    /\ orphans' = orphans \ {file}

Leaves(p) == /\ desk' = [desk EXCEPT ![p] = Away]
             /\ holder' = IF holder = p THEN NoReporter ELSE holder

\* The lock is released on an error as well.
Refuse(p) == /\ Leaves(p)
             /\ UNCHANGED <<files, disk, days, lasting, begun, losses, orphans, torn, published>>

Stores(p) == desk[p].report.run \notin DOMAIN files

StoreReport(p) ==
    LET report == desk[p].report
    IN /\ desk[p].at = "report"
       /\ IF Stores(p)
          THEN /\ Replace(report.run, report)
               /\ Goes(p, "sync report")
               /\ UNCHANGED <<disk, days, lasting, holder, begun, losses, torn, published>>
          ELSE IF Carries(report.run, report)
               THEN /\ Goes(p, "pointer")
                    /\ UNCHANGED <<files, disk, days, lasting, holder, begun, losses, orphans, torn,
                                   published>>
               ELSE Refuse(p)

\* Bug: the pointer goes to the report stored last.
SelectedLast(report) == report

\* _select_latest_pointer
Selected(report) ==
    IF "pointer" \in DOMAIN files /\ Position(files["pointer"].run) > Position(report.run)
    THEN files["pointer"] ELSE report

MovePointer(p) ==
    LET report == desk[p].report
    IN /\ desk[p].at = "pointer"
       /\ IF "pointer" \in DOMAIN files /\ files["pointer"].run = report.run
             /\ files["pointer"] # report
          THEN Refuse(p)
          ELSE /\ IF Carries("pointer", Selected(report))
                  THEN Goes(p, "latest") /\ UNCHANGED <<files, orphans>>
                  ELSE Replace("pointer", Selected(report)) /\ Goes(p, "sync pointer")
               /\ UNCHANGED <<disk, days, lasting, holder, begun, losses, torn, published>>

\* The pointed report is read and its digest checked, then served as the latest.
ServeLatest(p) ==
    LET selected == Selected(desk[p].report)
    IN /\ desk[p].at = "latest"
       /\ IF ~ Carries(selected.run, selected)
          THEN Refuse(p)
          ELSE /\ IF Carries("latest", selected)
                  THEN Goes(p, "return") /\ UNCHANGED <<files, orphans>>
                  ELSE Replace("latest", selected) /\ Goes(p, "sync latest")
               /\ UNCHANGED <<disk, days, lasting, holder, begun, losses, torn, published>>

NextDesk == [at \in {"sync report", "sync pointer", "sync latest"} |->
                CASE at = "sync report" -> "pointer"
                  [] at = "sync pointer" -> "latest"
                  [] at = "sync latest" -> "return"]

FileOf(p) == CASE desk[p].at = "sync report" -> desk[p].report.run
               [] desk[p].at = "sync pointer" -> "pointer"
               [] desk[p].at = "sync latest" -> "latest"

\* _fsync_directory makes all entries of the directory durable, another's as well.
Fsync(directory) ==
    LET synced == {f \in DOMAIN files : Directory(f) = directory}
    IN /\ disk' = Atop([f \in synced |-> files[f]], disk)
       /\ orphans' = orphans \ synced
       /\ lasting' = IF directory = "root" THEN days ELSE lasting

\* The root is synced without the lock.
SyncRoot(p) == /\ desk[p].at = "sync root"
               /\ Fsync("root")
               /\ Goes(p, "waiting")
               /\ UNCHANGED <<files, days, holder, begun, losses, torn, published>>

Sync(p) == /\ desk[p].at \in DOMAIN NextDesk
           /\ Fsync(Directory(FileOf(p)))
           /\ Goes(p, NextDesk[desk[p].at])
           /\ UNCHANGED <<files, days, holder, begun, losses, torn, published>>

Return(p) == /\ desk[p].at = "return"
             /\ Leaves(p)
             /\ published' = IF Position(desk[p].report.run) > published
                             THEN Position(desk[p].report.run) ELSE published
             /\ UNCHANGED <<files, disk, days, lasting, begun, losses, orphans, torn>>

\* The process is killed or fails; what it has renamed is not synced any more.
CutOff(p) == /\ desk[p].at # "away"
             /\ orphans' = IF desk[p].at \in DOMAIN NextDesk
                           THEN orphans \cup ({FileOf(p)} \cap Unsynced) ELSE orphans
             /\ Leaves(p)
             /\ UNCHANGED <<files, disk, days, lasting, begun, losses, torn, published>>

\* The pointer is not durable yet, and neither is the directory of its report.
PointsAhead == "pointer" \in Unsynced /\ DayOf[files["pointer"].run] \notin lasting

PowerLoss ==
    /\ losses < MaxPowerLosses
    /\ losses' = losses + 1
    /\ \E kept \in SUBSET Unsynced, found \in SUBSET (days \ lasting) :
          /\ days' = lasting \cup found
          /\ files' = LET left == Atop([f \in kept |-> files[f]], disk)
                      IN  [f \in {f \in DOMAIN left : Directory(f) \in {"root"} \cup days'} |->
                              left[f]]
    /\ disk' = files'
    /\ lasting' = days'
    /\ torn' = (torn \/ orphans # {} \/ PointsAhead)
    /\ orphans' = {}
    /\ holder' = NoReporter
    /\ desk' = [p \in Reporter |-> Away]
    /\ UNCHANGED <<begun, published>>

ReportNext ==
    \/ PowerLoss
    \/ \E p \in Reporter : \/ \E report \in Rendering : Render(p, report)
                           \/ MakeDirectory(p) \/ SyncRoot(p)
                           \/ Lock(p) \/ StoreReport(p) \/ MovePointer(p) \/ ServeLatest(p)
                           \/ Sync(p) \/ Return(p) \/ CutOff(p)

ReportSpec == ReportInit /\ [][ReportNext]_reportVars

-----------------------------------------------------------------------------
(* Properties. *)

\* The pointer names a stored report, and none older than a report that was returned,
\* wherever reporters were cut off and the power has failed, but for two cases: the power
\* failed after a file was renamed and not synced by a reporter that was cut off; or just
\* after the pointer was renamed to a report in a directory that another had made and not
\* synced yet.
PointedReportStored ==
    ~ torn /\ "pointer" \in DOMAIN files =>
        /\ Carries(files["pointer"].run, files["pointer"])
        /\ published <= Position(files["pointer"].run)

\* Whoever returns leaves the latest report as the pointer has it, at least as new as its
\* own, and its own stored; these files are durable but for renames left behind unsynced,
\* and so is the directory of the latest report, unless the power has torn the files. The
\* directory of its own report need not be if a newer one is the latest: it may have found
\* it, made and not synced by another.
LatestServed ==
    \A p \in Reporter : desk[p].at = "return" =>
        /\ {desk[p].report.run, "pointer", "latest"} \subseteq DOMAIN files
        /\ files["latest"] = files["pointer"]
        /\ Position(files["latest"].run) >= Position(desk[p].report.run)
        /\ Carries(desk[p].report.run, desk[p].report)
        /\ {desk[p].report.run, "pointer", "latest"} \cap Unsynced \subseteq orphans
        /\ ~ torn /\ "pointer" \notin orphans => DayOf[files["pointer"].run] \in lasting
=============================================================================
