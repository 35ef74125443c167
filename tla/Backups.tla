-------------------------------- MODULE Backups --------------------------------
(***************************************************************************)
(* Backups of the database (backup/service.py): gap backup create, by the  *)
(* loop of its container and by hand, publishes a dump as two files and    *)
(* applies the retention to all there are; gap backup restore loads one    *)
(* into a database it creates for it.                                      *)
(*                                                                         *)
(* Nothing locks the directory. A command may fail, or be killed, between  *)
(* any two steps. The files' content is left out: a published archive was  *)
(* validated, and nothing in the code writes to it again.                  *)
(***************************************************************************)
EXTENDS Integers, Sequences, FiniteSets, SequencesExt

CONSTANTS
    Command,        \* processes that run gap backup
    Archive,        \* the names there may be, in an order as random as they are
    Tiers,          \* days, weeks, months: [keep |-> how many, span |-> time units of one]
    LastMoment      \* bound

ASSUME BackupAssumption ==
    /\ Archive \subseteq Nat
    /\ \A t \in DOMAIN Tiers : Tiers[t] \in [keep : Nat \ {0}, span : Nat \ {0}]
    /\ LastMoment \in Nat

VARIABLES
    clock,          \* the time
    stamp,          \* [name |-> created_at], of the names given
    archives,       \* the archives that are published
    sums,           \* the checksum files that are published
    command,        \* [Command -> where it is, its archive, what it has yet to remove]
    target,         \* the database the restores are for: absent, partial or complete
    ever,           \* history: the archives that were ever published
    abandoned       \* history: a database may have been left behind

backupVars == <<clock, stamp, archives, sums, command, target, ever, abandoned>>

Doing(at, archive, todo) == [at |-> at, archive |-> archive, todo |-> todo]
Done == Doing("done", 0, {})

BackupInit == /\ clock = 0
              /\ stamp = <<>>
              /\ archives = {}
              /\ sums = {}
              /\ command = [c \in Command |-> Done]
              /\ target = "absent"
              /\ ever = {}
              /\ abandoned = FALSE

-----------------------------------------------------------------------------
\* list_backups sorts by created_at and name.
Earlier(a, b) == stamp[a] < stamp[b] \/ (stamp[a] = stamp[b] /\ a < b)
Bucket(tier, a) == stamp[a] \div tier.span
Buckets(tier, A) == {Bucket(tier, a) : a \in A}

\* The newest of A in each of its newest buckets.
KeptOf(tier, A) ==
    {a \in A : /\ \A b \in A : Earlier(a, b) => Bucket(tier, b) # Bucket(tier, a)
               /\ Cardinality({k \in Buckets(tier, A) : k > Bucket(tier, a)}) < tier.keep}

\* Bug: the tiers are taken one after another, each of what the last has kept.
KeptInTurn(A) == FoldLeft(LAMBDA S, tier : KeptOf(tier, S), A, Tiers)

\* apply_retention keeps the union of its tiers.
Kept(A) == UNION {KeptOf(Tiers[t], A) : t \in DOMAIN Tiers}

\* What it removes of those it has listed.
Surplus == archives \ Kept(archives)

Becomes(c, doing) == command' = [command EXCEPT ![c] = doing]

MomentPasses == /\ clock < LastMoment
        /\ clock' = clock + 1
        /\ UNCHANGED <<stamp, archives, sums, command, target, ever, abandoned>>

\* create: the name carries the time the dump begins; it may last.
Dump(c, a) ==
    /\ command[c].at = "done"
    /\ a \notin DOMAIN stamp
    /\ stamp' = [b \in DOMAIN stamp \cup {a} |-> IF b = a THEN clock ELSE stamp[b]]
    /\ Becomes(c, Doing("dumped", a, {}))
    /\ UNCHANGED <<clock, archives, sums, target, ever, abandoned>>

PublishChecksum(c) ==
    /\ command[c].at = "dumped"
    /\ sums' = sums \cup {command[c].archive}
    /\ Becomes(c, [command[c] EXCEPT !.at = "summed"])
    /\ UNCHANGED <<clock, stamp, archives, target, ever, abandoned>>

PublishArchive(c) ==
    /\ command[c].at = "summed"
    /\ archives' = archives \cup {command[c].archive}
    /\ ever' = ever \cup {command[c].archive}
    /\ Becomes(c, [command[c] EXCEPT !.at = "published"])
    /\ UNCHANGED <<clock, stamp, sums, target, abandoned>>

\* create reads its archive again, which another retention may have removed, and lists
\* what there is for its own.
ListBackups(c) ==
    /\ command[c].at = "published"
    /\ Becomes(c, IF command[c].archive \in archives THEN Doing("removing", 0, Surplus) ELSE Done)
    /\ UNCHANGED <<clock, stamp, archives, sums, target, ever, abandoned>>

\* The newest of the list, unless it is gone.
Removable(c) ==
    {a \in command[c].todo \cap archives : \A b \in command[c].todo \ {a} : Earlier(b, a)}

\* An archive is removed, then its checksum.
RemoveArchive(c) ==
    /\ command[c].at = "removing"
    /\ \E a \in Removable(c) :
          /\ archives' = archives \ {a}
          /\ Becomes(c, Doing("removed", a, command[c].todo \ {a}))
    /\ UNCHANGED <<clock, stamp, sums, target, ever, abandoned>>

\* The list is done, or its newest archive is gone, which is an error.
EndRemoval(c) ==
    /\ command[c].at = "removing"
    /\ Removable(c) = {}
    /\ Becomes(c, Done)
    /\ UNCHANGED <<clock, stamp, archives, sums, target, ever, abandoned>>

RemoveChecksum(c) ==
    /\ command[c].at = "removed"
    /\ sums' = sums \ {command[c].archive}
    /\ Becomes(c, Doing("removing", 0, command[c].todo))
    /\ UNCHANGED <<clock, stamp, archives, target, ever, abandoned>>

\* restore: verify reads checksum and archive, or nothing is done.
Verify(c, a) ==
    /\ command[c].at = "done"
    /\ a \in archives \cap sums
    /\ Becomes(c, Doing("verified", a, {}))
    /\ UNCHANGED <<clock, stamp, archives, sums, target, ever, abandoned>>

\* Bug: the database is dropped when it could not be created, too.
CreationFailsAndDrops(c) ==
    /\ command[c].at = "verified"
    /\ target # "absent"
    /\ Becomes(c, [command[c] EXCEPT !.at = "dropping"])
    /\ UNCHANGED <<clock, stamp, archives, sums, target, ever, abandoned>>

\* createdb refuses a database that exists, and restore raises.
CreationFails(c) ==
    /\ command[c].at = "verified"
    /\ target # "absent"
    /\ Becomes(c, Done)
    /\ UNCHANGED <<clock, stamp, archives, sums, target, ever, abandoned>>

CreateDatabase(c) ==
    /\ command[c].at = "verified"
    /\ command[c].archive \in archives
    /\ target = "absent"
    /\ target' = "partial"
    /\ Becomes(c, [command[c] EXCEPT !.at = "restoring"])
    /\ UNCHANGED <<clock, stamp, archives, sums, ever, abandoned>>

Restored(c) ==
    /\ command[c].at = "restoring"
    /\ target' = "complete"
    /\ Becomes(c, Done)
    /\ UNCHANGED <<clock, stamp, archives, sums, ever, abandoned>>

\* pg_restore fails or is too late: the database it has begun is to be dropped.
RestoreFails(c) ==
    /\ command[c].at = "restoring"
    /\ Becomes(c, [command[c] EXCEPT !.at = "dropping"])
    /\ UNCHANGED <<clock, stamp, archives, sums, target, ever, abandoned>>

DropDatabase(c) ==
    /\ command[c].at = "dropping"
    /\ target' = "absent"
    /\ Becomes(c, Done)
    /\ UNCHANGED <<clock, stamp, archives, sums, ever, abandoned>>

\* A command fails or is killed. createdb may have done its work when it is too late, and
\* whether dropdb did is not looked at.
Stop(c) ==
    /\ command[c].at # "done"
    /\ IF command[c].at = "verified" /\ target = "absent"
       THEN \/ target' = "partial" /\ abandoned' = TRUE
            \/ UNCHANGED <<target, abandoned>>
       ELSE /\ abandoned' = (abandoned \/ command[c].at \in {"restoring", "dropping"})
            /\ UNCHANGED target
    /\ Becomes(c, Done)
    /\ UNCHANGED <<clock, stamp, archives, sums, ever>>

BackupNext ==
    \/ MomentPasses
    \/ \E c \in Command :
          \/ \E a \in Archive : Dump(c, a) \/ Verify(c, a)
          \/ PublishChecksum(c) \/ PublishArchive(c) \/ ListBackups(c)
          \/ RemoveArchive(c) \/ EndRemoval(c) \/ RemoveChecksum(c)
          \/ CreationFails(c) \/ CreateDatabase(c) \/ Restored(c) \/ RestoreFails(c)
          \/ DropDatabase(c) \/ Stop(c)

BackupSpec == BackupInit /\ [][BackupNext]_backupVars

-----------------------------------------------------------------------------
(* Properties. *)

\* Every archive that can be listed has its checksum, and those the tiers promise are
\* there, of all that were ever published: whichever retentions ran beside each other, on
\* lists that were out of date, and wherever they were cut off.
BackupsStand ==
    /\ archives \subseteq sums
    /\ \A t \in DOMAIN Tiers : KeptOf(Tiers[t], ever) \subseteq archives

\* The database of a restore is created, loaded and dropped by one command at a time: no
\* restore drops what another has loaded, and one that is there in part is being worked on
\* or was left behind by a command that was cut off.
OneRestore ==
    /\ \A c, d \in Command :
          {command[c].at, command[d].at} \subseteq {"restoring", "dropping"} => c = d
    /\ (\E c \in Command : command[c].at \in {"restoring", "dropping"}) => target = "partial"
    /\ target = "partial" =>
          abandoned \/ \E c \in Command : command[c].at \in {"restoring", "dropping"}
=============================================================================
