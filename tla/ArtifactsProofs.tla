-------------------------- MODULE ArtifactsProofs --------------------------
(***************************************************************************)
(* What is left on disk for the users: the archives of backup and restore  *)
(* and the files of the reports, for any tiers, archives, commands, runs   *)
(* and reporters.                                                          *)
(*                                                                         *)
(* What a retention removes is decided on a list that may be old by then.  *)
(* It may, because more archives never make the tiers keep one they did    *)
(* not keep before. The reports are replaced file after file, under a lock *)
(* that a power loss takes away with its holder: what the pointer says is  *)
(* true because every file is made durable before the next is touched.     *)
(***************************************************************************)
EXTENDS Backups, ReportArtifacts, FiniteSetTheorems, TLAPS

-----------------------------------------------------------------------------
(* The archives. *)

Places == {"done", "dumped", "summed", "published", "removing", "removed", "verified",
           "restoring", "dropping"}

BackupTyped ==
    /\ command \in [Command -> [at : Places, archive : Archive \cup {0}, todo : SUBSET Archive]]
    /\ archives \subseteq ever
    /\ ever \subseteq DOMAIN stamp \cap Archive
    /\ IsFiniteSet(ever)

\* An archive that is being published is new, and has its checksum first.
Publishing ==
    \A c \in Command : command[c].at \in {"dumped", "summed"} =>
        /\ command[c].archive \in (DOMAIN stamp \cap Archive) \ ever
        /\ command[c].at = "summed" => command[c].archive \in sums
        /\ \A d \in Command \ {c} : command[d].at \in {"dumped", "summed"} =>
              command[d].archive # command[c].archive

\* What is removed, or is going to be, is what no tier keeps.
Removing ==
    \A c \in Command :
        /\ command[c].at = "removed" => command[c].archive \in ever \ archives
        /\ \A a \in command[c].todo : /\ a \in ever
                                      /\ \A t \in DOMAIN Tiers : a \notin KeptOf(Tiers[t], ever)

BackupInv == BackupTyped /\ Publishing /\ Removing /\ BackupsStand

-----------------------------------------------------------------------------
(* The tiers.                                                              *)

LEMMA BucketsFinite ==
  ASSUME NEW tier, NEW A, IsFiniteSet(A)
  PROVE  IsFiniteSet(Buckets(tier, A))
<1> DEFINE f == [a \in A |-> Bucket(tier, a)]
<1>1. f \in Surjection(A, Buckets(tier, A))
  BY DEF Surjection, Buckets
<1> QED BY <1>1, FS_Surjection

\* What a tier keeps of many it keeps of any of them.
LEMMA KeptOfFewer ==
  ASSUME NEW t \in DOMAIN Tiers, NEW A, NEW B, A \subseteq B, IsFiniteSet(B),
         NEW a \in A, a \in KeptOf(Tiers[t], B)
  PROVE  a \in KeptOf(Tiers[t], A)
<1> DEFINE tier == Tiers[t]
           Newer(S) == {k \in Buckets(tier, S) : k > Bucket(tier, a)}
<1>1. IsFiniteSet(Newer(B)) /\ Newer(A) \subseteq Newer(B)
  <2>1. IsFiniteSet(Buckets(tier, B)) /\ Buckets(tier, A) \subseteq Buckets(tier, B)
    BY BucketsFinite DEF Buckets
  <2> QED BY <2>1, FS_Subset
<1>2. /\ IsFiniteSet(Newer(A)) /\ Cardinality(Newer(A)) <= Cardinality(Newer(B))
      /\ Cardinality(Newer(A)) \in Nat /\ Cardinality(Newer(B)) \in Nat
  BY <1>1, FS_Subset, FS_CardinalityType
<1>3. Cardinality(Newer(B)) < tier.keep /\ tier.keep \in Nat
  BY BackupAssumption DEF KeptOf
<1>4. Cardinality(Newer(A)) < tier.keep
  BY <1>2, <1>3
<1>5. \A b \in A : Earlier(a, b) => Bucket(tier, b) # Bucket(tier, a)
  BY DEF KeptOf
<1> QED BY <1>4, <1>5 DEF KeptOf

\* Names that are given later change nothing of it.
LEMMA KeptOfStays ==
  ASSUME NEW t \in DOMAIN Tiers, UNCHANGED ever, \A a \in ever : stamp'[a] = stamp[a]
  PROVE  KeptOf(Tiers[t], ever)' = KeptOf(Tiers[t], ever)
<1> DEFINE tier == Tiers[t]
<1>1. \A a \in ever : Bucket(tier, a)' = Bucket(tier, a)
  BY DEF Bucket
<1>2. \A a, b \in ever : Earlier(a, b)' <=> Earlier(a, b)
  BY DEF Earlier
<1>3. Buckets(tier, ever)' = Buckets(tier, ever)
  BY <1>1 DEF Buckets
<1> QED BY <1>1, <1>2, <1>3 DEF KeptOf

-----------------------------------------------------------------------------
(* One step.                                                               *)

\* A command goes on from one place to another.
LEMMA GoesOn ==
  ASSUME BackupTyped, NEW c \in Command, NEW at \in Places, NEW a \in Archive \cup {0},
         NEW todo \in SUBSET Archive, Becomes(c, Doing(at, a, todo))
  PROVE  /\ command' \in [Command -> [at : Places, archive : Archive \cup {0},
                                      todo : SUBSET Archive]]
         /\ command'[c] = [at |-> at, archive |-> a, todo |-> todo]
         /\ \A d \in Command \ {c} : command'[d] = command[d]
BY DEF BackupTyped, Becomes, Doing

\* A step that leaves the files alone, and starts no publication and no removal.
LEMMA FilesAlone ==
  ASSUME BackupInv, NEW c \in Command, UNCHANGED <<stamp, archives, sums, ever>>,
         NEW at \in Places \ {"dumped", "summed", "removed"}, NEW a \in Archive \cup {0},
         Becomes(c, Doing(at, a, {}))
  PROVE  BackupInv'
<1>1. /\ command' \in [Command -> [at : Places, archive : Archive \cup {0},
                                   todo : SUBSET Archive]]
      /\ command'[c] = [at |-> at, archive |-> a, todo |-> {}]
      /\ \A d \in Command \ {c} : command'[d] = command[d]
  BY GoesOn DEF BackupInv
<1>2. BackupTyped'
  BY <1>1 DEF BackupInv, BackupTyped
<1>3. Publishing'
  BY <1>1 DEF BackupInv, Publishing
<1>4. \A t \in DOMAIN Tiers : KeptOf(Tiers[t], ever)' = KeptOf(Tiers[t], ever)
  BY KeptOfStays
<1>5. Removing'
  BY <1>1, <1>4 DEF BackupInv, Removing
<1>6. BackupsStand'
  BY <1>4 DEF BackupInv, BackupsStand
<1> QED BY <1>2, <1>3, <1>5, <1>6 DEF BackupInv

LEMMA DumpKept ==
  ASSUME BackupInv, NEW c \in Command, NEW a \in Archive, Dump(c, a)
  PROVE  BackupInv'
<1>1. /\ command' \in [Command -> [at : Places, archive : Archive \cup {0},
                                   todo : SUBSET Archive]]
      /\ command'[c] = [at |-> "dumped", archive |-> a, todo |-> {}]
      /\ \A d \in Command \ {c} : command'[d] = command[d]
  <2>1. Becomes(c, Doing("dumped", a, {})) /\ "dumped" \in Places /\ {} \in SUBSET Archive
    BY DEF Dump, Places
  <2> QED BY <2>1, GoesOn DEF BackupInv
<1>2. /\ a \notin DOMAIN stamp /\ DOMAIN stamp' = DOMAIN stamp \cup {a}
      /\ \A b \in DOMAIN stamp : stamp'[b] = stamp[b]
      /\ UNCHANGED <<archives, sums, ever>>
  BY DEF Dump
<1>3. ever \subseteq DOMAIN stamp
  BY DEF BackupInv, BackupTyped
<1>4. BackupTyped'
  BY <1>1, <1>2 DEF BackupInv, BackupTyped
<1>5. Publishing'
  BY <1>1, <1>2, <1>3 DEF BackupInv, Publishing
<1>6. \A t \in DOMAIN Tiers : KeptOf(Tiers[t], ever)' = KeptOf(Tiers[t], ever)
  BY <1>2, <1>3, KeptOfStays
<1>7. Removing'
  BY <1>1, <1>2, <1>6 DEF BackupInv, Removing
<1>8. BackupsStand'
  BY <1>2, <1>6 DEF BackupInv, BackupsStand
<1> QED BY <1>4, <1>5, <1>7, <1>8 DEF BackupInv

LEMMA PublishChecksumKept ==
  ASSUME BackupInv, NEW c \in Command, PublishChecksum(c)
  PROVE  BackupInv'
<1> DEFINE a == command[c].archive
<1>1. /\ command[c].at = "dumped" /\ sums' = sums \cup {a}
      /\ command' = [command EXCEPT ![c] = [command[c] EXCEPT !.at = "summed"]]
      /\ UNCHANGED <<stamp, archives, ever>>
  BY DEF PublishChecksum, Becomes
<1>2. /\ command' \in [Command -> [at : Places, archive : Archive \cup {0},
                                   todo : SUBSET Archive]]
      /\ command'[c] = [command[c] EXCEPT !.at = "summed"]
      /\ \A d \in Command \ {c} : command'[d] = command[d]
  BY <1>1 DEF BackupInv, BackupTyped, Places
<1>3. command'[c].at = "summed" /\ command'[c].archive = a /\ command'[c].todo = command[c].todo
  BY <1>2 DEF BackupInv, BackupTyped
<1>4. BackupTyped'
  BY <1>1, <1>2 DEF BackupInv, BackupTyped
<1>5. Publishing'
  BY <1>1, <1>2, <1>3 DEF BackupInv, Publishing
<1>6. \A t \in DOMAIN Tiers : KeptOf(Tiers[t], ever)' = KeptOf(Tiers[t], ever)
  BY <1>1, KeptOfStays
<1>7. Removing'
  BY <1>1, <1>2, <1>3, <1>6 DEF BackupInv, Removing
<1>8. BackupsStand'
  BY <1>1, <1>6 DEF BackupInv, BackupsStand
<1> QED BY <1>4, <1>5, <1>7, <1>8 DEF BackupInv

LEMMA PublishArchiveKept ==
  ASSUME BackupInv, NEW c \in Command, PublishArchive(c)
  PROVE  BackupInv'
<1> DEFINE a == command[c].archive
<1>1. /\ command[c].at = "summed"
      /\ archives' = archives \cup {a} /\ ever' = ever \cup {a}
      /\ command' = [command EXCEPT ![c] = [command[c] EXCEPT !.at = "published"]]
      /\ UNCHANGED <<stamp, sums>>
  BY DEF PublishArchive, Becomes
<1>2. /\ command' \in [Command -> [at : Places, archive : Archive \cup {0},
                                   todo : SUBSET Archive]]
      /\ command'[c] = [command[c] EXCEPT !.at = "published"]
      /\ \A d \in Command \ {c} : command'[d] = command[d]
  BY <1>1 DEF BackupInv, BackupTyped, Places
<1>3. command'[c].at = "published" /\ command'[c].todo = command[c].todo
  BY <1>2 DEF BackupInv, BackupTyped
<1>4. a \in (DOMAIN stamp \cap Archive) \ ever /\ a \in sums
  BY <1>1 DEF BackupInv, Publishing
<1>5. IsFiniteSet(ever) /\ IsFiniteSet(ever \cup {a})
  BY FS_AddElement DEF BackupInv, BackupTyped
<1>6. BackupTyped'
  BY <1>1, <1>2, <1>4, <1>5 DEF BackupInv, BackupTyped
<1>7. Publishing'
  BY <1>1, <1>2, <1>3 DEF BackupInv, Publishing
<1>8. ASSUME NEW t \in DOMAIN Tiers, NEW b \in ever, b \in KeptOf(Tiers[t], ever)'
      PROVE  b \in KeptOf(Tiers[t], ever)
  <2>1. b \in KeptOf(Tiers[t], ever \cup {a})
    BY <1>1, <1>8 DEF KeptOf, Buckets, Bucket, Earlier
  <2> QED BY <1>5, <1>8, <2>1, KeptOfFewer
<1>9. Removing'
  BY <1>1, <1>2, <1>3, <1>4, <1>8 DEF BackupInv, Removing
<1>10. BackupsStand'
  <2>1. ASSUME NEW t \in DOMAIN Tiers, NEW b, b \in KeptOf(Tiers[t], ever)'
        PROVE  b \in archives'
    <3>1. b \in ever \cup {a}
      BY <1>1, <2>1 DEF KeptOf
    <3>2. CASE b \in ever
      BY <1>1, <1>8, <2>1, <3>2 DEF BackupInv, BackupsStand
    <3> QED BY <1>1, <3>1, <3>2
  <2>2. archives' \subseteq sums'
    BY <1>1, <1>4 DEF BackupInv, BackupsStand
  <2> QED BY <2>1, <2>2 DEF BackupsStand
<1> QED BY <1>6, <1>7, <1>9, <1>10 DEF BackupInv

LEMMA ListBackupsKept ==
  ASSUME BackupInv, NEW c \in Command, ListBackups(c)
  PROVE  BackupInv'
<1>1. command[c].at = "published" /\ UNCHANGED <<stamp, archives, sums, ever>>
  BY DEF ListBackups
<1>2. CASE Becomes(c, Done)
  BY <1>1, <1>2, FilesAlone DEF Done, Places
<1>3. CASE Becomes(c, Doing("removing", 0, Surplus))
  <2>1. Surplus \in SUBSET Archive /\ Surplus \subseteq archives
    BY DEF BackupInv, BackupTyped, Surplus
  <2>2. /\ command' \in [Command -> [at : Places, archive : Archive \cup {0},
                                     todo : SUBSET Archive]]
        /\ command'[c] = [at |-> "removing", archive |-> 0, todo |-> Surplus]
        /\ \A d \in Command \ {c} : command'[d] = command[d]
    BY <1>3, <2>1, GoesOn DEF BackupInv, Places
  <2>3. \A t \in DOMAIN Tiers : KeptOf(Tiers[t], ever)' = KeptOf(Tiers[t], ever)
    BY <1>1, KeptOfStays
  <2>4. ASSUME NEW a \in Surplus, NEW t \in DOMAIN Tiers
        PROVE  a \in ever /\ a \notin KeptOf(Tiers[t], ever)
    <3>1. a \in archives /\ a \notin KeptOf(Tiers[t], archives)
      BY <2>4 DEF Surplus, Kept
    <3>2. archives \subseteq ever /\ IsFiniteSet(ever)
      BY DEF BackupInv, BackupTyped
    <3> QED BY <3>1, <3>2, KeptOfFewer
  <2>5. Surplus \subseteq ever
    BY <2>1 DEF BackupInv, BackupTyped
  <2>6. BackupTyped'
    BY <1>1, <2>2 DEF BackupInv, BackupTyped
  <2>7. Publishing'
    BY <1>1, <2>2 DEF BackupInv, Publishing
  <2>8. Removing'
    BY <1>1, <2>2, <2>3, <2>4, <2>5 DEF BackupInv, Removing
  <2>9. BackupsStand'
    BY <1>1, <2>3 DEF BackupInv, BackupsStand
  <2> QED BY <2>6, <2>7, <2>8, <2>9 DEF BackupInv
<1> QED BY <1>2, <1>3 DEF ListBackups

LEMMA RemoveArchiveKept ==
  ASSUME BackupInv, NEW c \in Command, RemoveArchive(c)
  PROVE  BackupInv'
<1>1. PICK a \in Removable(c) : /\ archives' = archives \ {a}
                                /\ Becomes(c, Doing("removed", a, command[c].todo \ {a}))
  BY DEF RemoveArchive
<1>2. a \in command[c].todo /\ a \in archives /\ UNCHANGED <<stamp, sums, ever>>
  BY DEF RemoveArchive, Removable
<1>3. command[c].todo \ {a} \in SUBSET Archive /\ a \in Archive \cup {0}
  BY <1>2 DEF BackupInv, BackupTyped
<1>4. /\ command' \in [Command -> [at : Places, archive : Archive \cup {0},
                                   todo : SUBSET Archive]]
      /\ command'[c] = [at |-> "removed", archive |-> a, todo |-> command[c].todo \ {a}]
      /\ \A d \in Command \ {c} : command'[d] = command[d]
  BY <1>1, <1>3, GoesOn DEF BackupInv, Places
<1>5. \A t \in DOMAIN Tiers : KeptOf(Tiers[t], ever)' = KeptOf(Tiers[t], ever)
  BY <1>2, KeptOfStays
<1>6. a \in ever /\ \A t \in DOMAIN Tiers : a \notin KeptOf(Tiers[t], ever)
  BY <1>2 DEF BackupInv, Removing
<1>7. BackupTyped'
  BY <1>1, <1>2, <1>4 DEF BackupInv, BackupTyped
<1>8. Publishing'
  BY <1>2, <1>4 DEF BackupInv, Publishing
<1>9. Removing'
  BY <1>1, <1>2, <1>4, <1>5, <1>6 DEF BackupInv, Removing
<1>10. BackupsStand'
  BY <1>1, <1>2, <1>5, <1>6 DEF BackupInv, BackupsStand
<1> QED BY <1>7, <1>8, <1>9, <1>10 DEF BackupInv

LEMMA RemoveChecksumKept ==
  ASSUME BackupInv, NEW c \in Command, RemoveChecksum(c)
  PROVE  BackupInv'
<1>1. /\ command[c].at = "removed" /\ sums' = sums \ {command[c].archive}
      /\ Becomes(c, Doing("removing", 0, command[c].todo))
      /\ UNCHANGED <<stamp, archives, ever>>
  BY DEF RemoveChecksum
<1>2. /\ command' \in [Command -> [at : Places, archive : Archive \cup {0},
                                   todo : SUBSET Archive]]
      /\ command'[c] = [at |-> "removing", archive |-> 0, todo |-> command[c].todo]
      /\ \A d \in Command \ {c} : command'[d] = command[d]
  <2>1. command[c].todo \in SUBSET Archive
    BY DEF BackupInv, BackupTyped
  <2> QED BY <1>1, <2>1, GoesOn DEF BackupInv, Places
<1>3. command[c].archive \in ever \ archives
  BY <1>1 DEF BackupInv, Removing
<1>4. \A t \in DOMAIN Tiers : KeptOf(Tiers[t], ever)' = KeptOf(Tiers[t], ever)
  BY <1>1, KeptOfStays
<1>5. BackupTyped'
  BY <1>1, <1>2 DEF BackupInv, BackupTyped
<1>6. Publishing'
  BY <1>1, <1>2, <1>3 DEF BackupInv, Publishing
<1>7. Removing'
  BY <1>1, <1>2, <1>4 DEF BackupInv, Removing
<1>8. BackupsStand'
  BY <1>1, <1>3, <1>4 DEF BackupInv, BackupsStand
<1> QED BY <1>5, <1>6, <1>7, <1>8 DEF BackupInv

\* A restore and what else touches no file.
RestoreStep(c) ==
    \/ CreationFails(c) \/ CreateDatabase(c) \/ Restored(c) \/ RestoreFails(c)
    \/ DropDatabase(c) \/ EndRemoval(c) \/ Stop(c)

LEMMA RestoreKept ==
  ASSUME BackupInv, NEW c \in Command,
         RestoreStep(c) \/ \E a \in Archive : Verify(c, a)
  PROVE  BackupInv'
<1>1. CASE CreateDatabase(c) \/ RestoreFails(c)
  <2>1. PICK at \in {"restoring", "dropping"} :
           command' = [command EXCEPT ![c] = [command[c] EXCEPT !.at = at]]
    BY <1>1 DEF CreateDatabase, RestoreFails, Becomes
  <2>2. UNCHANGED <<stamp, archives, sums, ever>>
    BY <1>1 DEF CreateDatabase, RestoreFails
  <2>3. /\ command' \in [Command -> [at : Places, archive : Archive \cup {0},
                                     todo : SUBSET Archive]]
        /\ command'[c].at = at /\ command'[c].todo = command[c].todo
        /\ \A d \in Command \ {c} : command'[d] = command[d]
    BY <2>1 DEF BackupInv, BackupTyped, Places
  <2>4. \A t \in DOMAIN Tiers : KeptOf(Tiers[t], ever)' = KeptOf(Tiers[t], ever)
    BY <2>2, KeptOfStays
  <2>5. BackupTyped'
    BY <2>2, <2>3 DEF BackupInv, BackupTyped
  <2>6. Publishing'
    BY <2>2, <2>3 DEF BackupInv, Publishing
  <2>7. Removing'
    BY <2>2, <2>3, <2>4 DEF BackupInv, Removing
  <2>8. BackupsStand'
    BY <2>2, <2>4 DEF BackupInv, BackupsStand
  <2> QED BY <2>5, <2>6, <2>7, <2>8 DEF BackupInv
<1>2. CASE Becomes(c, Done) /\ UNCHANGED <<stamp, archives, sums, ever>>
  BY <1>2, FilesAlone DEF Done, Places
<1>3. ASSUME NEW a \in Archive, Verify(c, a) PROVE BackupInv'
  BY <1>3, FilesAlone DEF Verify, Places
<1> QED BY <1>1, <1>2, <1>3 DEF RestoreStep, CreationFails, Restored, DropDatabase, EndRemoval, Stop

LEMMA BackupInvKept ==
  ASSUME BackupInv, [BackupNext]_backupVars
  PROVE  BackupInv'
<1>1. CASE UNCHANGED <<stamp, archives, sums, command, ever>>
  <2>1. \A t \in DOMAIN Tiers : KeptOf(Tiers[t], ever)' = KeptOf(Tiers[t], ever)
    BY <1>1, KeptOfStays
  <2> QED BY <1>1, <2>1 DEF BackupInv, BackupTyped, Publishing, Removing, BackupsStand
<1> QED BY <1>1, DumpKept, PublishChecksumKept, PublishArchiveKept, ListBackupsKept,
           RemoveArchiveKept, RemoveChecksumKept, RestoreKept
        DEF BackupNext, backupVars, MomentPasses, RestoreStep

LEMMA BackupInvInit == BackupInit => BackupInv
<1> SUFFICES ASSUME BackupInit PROVE BackupInv
  OBVIOUS
<1>1. BackupTyped
  BY FS_EmptySet DEF BackupInit, BackupTyped, Done, Doing, Places
<1>2. Publishing /\ Removing
  BY DEF BackupInit, Publishing, Removing, Done, Doing
<1>3. BackupsStand
  BY DEF BackupInit, BackupsStand, KeptOf
<1> QED BY <1>1, <1>2, <1>3 DEF BackupInv

\* Each archive has its checksum and the tiers have what they promise, whichever
\* retentions run beside each other and wherever they are cut off.
THEOREM BackupsStandAlways == BackupSpec => []BackupsStand
<1>1. BackupInv => BackupsStand
  BY DEF BackupInv
<1> QED BY <1>1, BackupInvInit, BackupInvKept, PTL DEF BackupSpec

-----------------------------------------------------------------------------
\* The database of a restore is worked on by one command at a time, and is left in part
\* only by one that was cut off.
THEOREM OneRestoreAlways == BackupSpec => []OneRestore
<1>1. BackupInit => OneRestore
  BY DEF BackupInit, OneRestore, Done, Doing
<1>2. BackupInv /\ OneRestore /\ [BackupNext]_backupVars => OneRestore'
  <2> SUFFICES ASSUME BackupInv, OneRestore, [BackupNext]_backupVars PROVE OneRestore'
    OBVIOUS
  <2>1. \A c \in Command : command[c].at \in Places
    BY DEF BackupInv, BackupTyped
  <2>2. DOMAIN command = Command /\ \A c \in Command : \A d :
           command' = [command EXCEPT ![c] = d] => \A b \in Command :
              command'[b] = IF b = c THEN d ELSE command[b]
    BY DEF BackupInv, BackupTyped
  <2>3. CASE UNCHANGED <<command, target, abandoned>>
    BY <2>3 DEF OneRestore
  <2>4. ASSUME NEW c \in Command, NEW d, command' = [command EXCEPT ![c] = d],
               d.at \notin {"restoring", "dropping"},
               command[c].at \notin {"restoring", "dropping"},
               UNCHANGED <<target, abandoned>>
        PROVE  OneRestore'
    BY <2>2, <2>4 DEF OneRestore
  <2>5. ASSUME NEW c \in Command,
               \/ \E a \in Archive : Dump(c, a) \/ Verify(c, a)
               \/ PublishChecksum(c) \/ PublishArchive(c) \/ ListBackups(c)
               \/ RemoveArchive(c) \/ EndRemoval(c) \/ RemoveChecksum(c) \/ CreationFails(c)
        PROVE  OneRestore'
    BY <2>4, <2>5 DEF Dump, Verify, PublishChecksum, PublishArchive, ListBackups, RemoveArchive,
       EndRemoval, RemoveChecksum, CreationFails, Becomes, Doing, Done, BackupInv, BackupTyped
  <2>6. ASSUME NEW c \in Command, CreateDatabase(c) PROVE OneRestore'
    BY <2>2, <2>6 DEF CreateDatabase, Becomes, OneRestore, BackupInv, BackupTyped
  <2>7. ASSUME NEW c \in Command, Restored(c) \/ RestoreFails(c) \/ DropDatabase(c)
        PROVE  OneRestore'
    BY <2>2, <2>7 DEF Restored, RestoreFails, DropDatabase, Becomes, Done, Doing, OneRestore,
       BackupInv, BackupTyped
  <2>8. ASSUME NEW c \in Command, Stop(c) PROVE OneRestore'
    BY <2>2, <2>8 DEF Stop, Becomes, Done, Doing, OneRestore
  <2> QED BY <2>3, <2>5, <2>6, <2>7, <2>8 DEF BackupNext, MomentPasses, backupVars
<1> QED BY <1>1, <1>2, BackupInvInit, BackupInvKept, PTL DEF BackupSpec

-----------------------------------------------------------------------------
(* The files of the reports. *)

Station == {"away", "making", "sync root", "waiting", "report", "sync report", "pointer", "sync pointer", "latest",
            "sync latest", "return"}
Arrived == Station \ {"away", "making"}
Locking == {"report", "sync report", "pointer", "sync pointer", "latest", "sync latest", "return"}

\* A report on file is one that may be rendered, a stored one is its run's, and what is
\* durable of a stored report is what is there.
ReportsTyped ==
    /\ DOMAIN files \subseteq File
    /\ \A f \in DOMAIN files : /\ files[f] \in Rendering
                               /\ f \in RunReport => files[f].run = f
    /\ DOMAIN disk \subseteq DOMAIN files
    /\ \A f \in DOMAIN disk : /\ disk[f] \in Rendering
                              /\ f \in RunReport => disk[f] = files[f]
    /\ desk \in [Reporter -> [at : Station, report : Rendering \cup {Away.report}]]
    /\ \A p \in Reporter : desk[p].at # "away" => desk[p].report \in Rendering
    /\ published \in Nat

\* One reporter at a time replaces files, and what it has put there so far is there.
Exclusive ==
    \A p \in Reporter : desk[p].at \in Locking => holder = p

InPlace ==
    \A p \in Reporter :
        /\ desk[p].at \in Locking \ {"report"} => Carries(desk[p].report.run, desk[p].report)
        /\ desk[p].at \in {"sync pointer", "latest", "sync latest", "return"} =>
              Carries("pointer", Selected(desk[p].report))
        /\ desk[p].at \in {"sync latest", "return"} => Carries("latest", Selected(desk[p].report))

\* A file not durable yet is about to be synced, or left behind.
Accounted ==
    \A f \in Unsynced \ orphans :
        \E p \in Reporter : desk[p].at \in DOMAIN NextDesk /\ FileOf(p) = f

\* A stored report has its directory, so has a report on its way there, and the directory
\* of a report the pointer would be left with would be left.
Housed ==
    /\ lasting \subseteq days
    /\ \A f \in DOMAIN files : f \in RunReport => DayOf[f] \in days
    /\ \A p \in Reporter : desk[p].at \in Arrived => DayOf[desk[p].report.run] \in days
    /\ ~ torn /\ "pointer" \in DOMAIN disk => DayOf[disk["pointer"].run] \in lasting

PositionIn(table, file) == IF file \in DOMAIN table THEN Position(table[file].run) ELSE 0

\* The pointer never points behind the latest report or a published one; as it would be
\* left it may point behind a published one while the latest report is not durable either.
NeverBehind ==
    /\ published <= PositionIn(files, "pointer")
    /\ PositionIn(disk, "pointer") <= PositionIn(files, "pointer")
    /\ PositionIn(files, "latest") <= PositionIn(files, "pointer")
    /\ PositionIn(disk, "latest") <= PositionIn(disk, "pointer")
    /\ published > PositionIn(disk, "pointer") => "latest" \in Unsynced

\* The pointer, as it is and as it would be left, names a stored report.
Pointed ==
    ~ torn =>
        /\ "pointer" \in DOMAIN files => Carries(files["pointer"].run, files["pointer"])
        /\ "pointer" \in DOMAIN disk => Carries(disk["pointer"].run, disk["pointer"])
        /\ \A p \in Reporter : desk[p].at = "sync report" /\ "pointer" \in DOMAIN files =>
              files["pointer"].run # desk[p].report.run
        /\ NeverBehind

ReportInv == ReportsTyped /\ Exclusive /\ InPlace /\ Accounted /\ Housed /\ Pointed


-----------------------------------------------------------------------------
(* What the operators of the module do.                                    *)

LEMMA Files ==
  /\ "pointer" \notin RunReport /\ "latest" \notin RunReport
  /\ \A report \in Rendering : report.run \in RunReport
BY ReportAssumption DEF RunReport

\* Runs have places in the chronology, and different runs different ones.
LEMMA Positions ==
  /\ \A run \in RunReport : Position(run) \in Nat /\ Position(run) > 0
  /\ \A run, other \in RunReport : Position(run) = Position(other) => run = other
<1>1. ASSUME NEW run \in RunReport
      PROVE  Position(run) \in DOMAIN Chronology /\ Chronology[Position(run)] = run
  <2>1. \E n \in DOMAIN Chronology : Chronology[n] = run
    BY DEF RunReport
  <2> QED BY <2>1 DEF Position
<1> QED BY <1>1, ReportAssumption

LEMMA PositionsIn ==
  ASSUME ReportsTyped
  PROVE  \A f \in File : PositionIn(files, f) \in Nat /\ PositionIn(disk, f) \in Nat
BY Files, Positions DEF ReportsTyped, PositionIn

LEMMA NotAhead ==
  \A n, m \in Nat : m <= m /\ (n <= m => ~ n > m)
OBVIOUS

LEMMA Replaced ==
  ASSUME NEW file, NEW report, Replace(file, report)
  PROVE  /\ DOMAIN files' = DOMAIN files \cup {file}
         /\ files'[file] = report
         /\ \A f \in DOMAIN files \ {file} : files'[f] = files[f]
         /\ orphans' = orphans \ {file}
BY DEF Replace, Atop

LEMMA GoesOnTo ==
  ASSUME ReportsTyped, NEW p \in Reporter, NEW at \in Station, Goes(p, at)
  PROVE  /\ desk' \in [Reporter -> [at : Station, report : Rendering \cup {Away.report}]]
         /\ desk'[p].at = at /\ desk'[p].report = desk[p].report
         /\ \A q \in Reporter \ {p} : desk'[q] = desk[q]
<1> DEFINE D == [at : Station, report : Rendering \cup {Away.report}]
<1>1. desk \in [Reporter -> D] /\ desk[p] \in D
  BY DEF ReportsTyped
<1>2. [desk[p] EXCEPT !.at = at] \in D
  BY <1>1
<1>3. desk' = [desk EXCEPT ![p] = [desk[p] EXCEPT !.at = at]]
  BY DEF Goes
<1>4. desk' \in [Reporter -> D] /\ \A q \in Reporter \ {p} : desk'[q] = desk[q]
  BY <1>1, <1>2, <1>3
<1>5. desk'[p] = [desk[p] EXCEPT !.at = at]
  BY <1>1, <1>3
<1>6. [desk[p] EXCEPT !.at = at].at = at /\ [desk[p] EXCEPT !.at = at].report = desk[p].report
  BY <1>1
<1> QED BY <1>4, <1>5, <1>6

\* Nobody but the reporter at work is under the lock.
LEMMA Alone ==
  ASSUME Exclusive, NEW p \in Reporter, desk[p].at \in Locking
  PROVE  holder = p /\ \A q \in Reporter \ {p} : desk[q].at \notin Locking
BY DEF Exclusive

\* The pointer is never moved back, and stays where it is selected.
LEMMA SelectedNewest ==
  ASSUME ReportsTyped, NEW report \in Rendering
  PROVE  /\ Selected(report) \in Rendering
         /\ Position(report.run) <= Position(Selected(report).run)
         /\ PositionIn(files, "pointer") <= Position(Selected(report).run)
         /\ Selected(report) # report => /\ "pointer" \in DOMAIN files
                                         /\ Selected(report) = files["pointer"]
<1>1. Position(report.run) \in Nat
  BY Files, Positions
<1>2. "pointer" \in DOMAIN files => /\ files["pointer"] \in Rendering
                                    /\ Position(files["pointer"].run) \in Nat
  BY Files, Positions DEF ReportsTyped
<1> QED BY <1>1, <1>2 DEF Selected, PositionIn

\* A reporter goes on that has replaced no file.
LEMMA GoesKept ==
  ASSUME ReportInv, NEW p \in Reporter, NEW at \in {"report", "pointer", "latest", "return"},
         Goes(p, at), desk[p].at \in Arrived \ DOMAIN NextDesk, holder' = p,
         desk[p].at \in Locking \/ holder = NoReporter,
         UNCHANGED <<files, disk, days, lasting, orphans, torn, published>>,
         at # "report" => Carries(desk[p].report.run, desk[p].report),
         at \in {"latest", "return"} => Carries("pointer", Selected(desk[p].report)),
         at = "return" => Carries("latest", Selected(desk[p].report))
  PROVE  ReportInv'
<1>1. /\ desk' \in [Reporter -> [at : Station, report : Rendering \cup {Away.report}]]
      /\ desk'[p].at = at /\ desk'[p].report = desk[p].report
      /\ \A q \in Reporter \ {p} : desk'[q] = desk[q]
  BY GoesOnTo DEF ReportInv, Station
<1>2. \A q \in Reporter \ {p} : desk[q].at \notin Locking
  BY Alone, ReportAssumption DEF ReportInv, Exclusive
<1>3. ReportsTyped'
  BY <1>1 DEF ReportInv, ReportsTyped, File, Arrived
<1>4. Exclusive'
  BY <1>1, <1>2 DEF Exclusive
<1>5. InPlace'
  <2> SUFFICES ASSUME NEW q \in Reporter, desk'[q].at \in Locking PROVE q = p
    BY <1>1 DEF InPlace, Locking, Carries, Selected
  <2> QED BY <1>1, <1>2
<1>6. Accounted'
  <2>1. \A q \in Reporter : desk[q].at \in DOMAIN NextDesk => desk'[q] = desk[q]
    BY <1>1
  <2> QED BY <2>1 DEF ReportInv, Accounted, Unsynced, FileOf
<1>7. Pointed'
  BY <1>1 DEF ReportInv, Pointed, NeverBehind, Carries, PositionIn, Unsynced
<1>8. Housed'
  BY <1>1 DEF ReportInv, Housed
<1> QED BY <1>3, <1>4, <1>5, <1>6, <1>7, <1>8 DEF ReportInv

\* A reporter leaves, and leaves behind what it has not synced.
LEMMA LeavesKept ==
  ASSUME ReportInv, NEW p \in Reporter, Leaves(p),
         UNCHANGED <<files, disk, days, lasting, torn>>,
         orphans \subseteq orphans',
         desk[p].at \in DOMAIN NextDesk /\ FileOf(p) \in Unsynced => FileOf(p) \in orphans',
         \/ published' = published
         \/ /\ desk[p].at = "return"
            /\ published' \in {published, Position(desk[p].report.run)}
  PROVE  ReportInv'
<1>1. /\ desk' \in [Reporter -> [at : Station, report : Rendering \cup {Away.report}]]
      /\ desk'[p].at = "away"
      /\ \A q \in Reporter \ {p} : desk'[q] = desk[q]
  BY DEF Leaves, ReportInv, ReportsTyped, Away, AtDesk, Station
<1>2. published' \in Nat
  BY Files, Positions DEF ReportInv, ReportsTyped
<1>3. ReportsTyped'
  BY <1>1, <1>2 DEF ReportInv, ReportsTyped, File
<1>4. Exclusive'
  BY <1>1 DEF ReportInv, Exclusive, Leaves, Locking
<1>5. InPlace'
  BY <1>1 DEF ReportInv, InPlace, Locking, Carries, Selected
<1>6. Accounted'
  <2>1. \A q \in Reporter \ {p} : FileOf(q)' = FileOf(q)
    BY <1>1 DEF FileOf
  <2> QED BY <1>1, <2>1 DEF ReportInv, Accounted, Unsynced
<1>7. Pointed'
  <2>1. CASE published' = published
    BY <1>1, <2>1 DEF ReportInv, Pointed, NeverBehind, Carries, PositionIn, Unsynced
  <2>2. CASE desk[p].at = "return" /\ published' = Position(desk[p].report.run)
    <3>1. /\ Carries("pointer", Selected(desk[p].report))
          /\ Carries("latest", Selected(desk[p].report))
      BY <2>2 DEF ReportInv, InPlace
    <3>2. published' <= PositionIn(files, "pointer")
      BY <2>2, <3>1, SelectedNewest DEF ReportInv, ReportsTyped, PositionIn, Carries
    <3>3. ~ torn /\ "latest" \notin Unsynced => published' <= PositionIn(disk, "pointer")
      <4>1. "latest" \notin Unsynced => PositionIn(disk, "latest") = PositionIn(files, "pointer")
        BY <3>1 DEF Unsynced, Carries, PositionIn
      <4>2. PositionIn(files, "pointer") \in Nat /\ PositionIn(disk, "pointer") \in Nat
        BY PositionsIn DEF ReportInv, File
      <4>3. ~ torn => PositionIn(disk, "latest") <= PositionIn(disk, "pointer")
        BY DEF ReportInv, Pointed, NeverBehind
      <4> QED BY <3>2, <4>1, <4>2, <4>3, <1>2
    <3>4. ~ torn /\ published' > PositionIn(disk, "pointer") => "latest" \in Unsynced
      <4>1. PositionIn(disk, "pointer") \in Nat
        BY PositionsIn DEF ReportInv, File
      <4> QED BY <1>2, <3>3, <4>1
    <3>5. \A q \in Reporter : desk'[q].at = "sync report" => desk'[q] = desk[q]
      BY <1>1
    <3>6. /\ PositionIn(files, "pointer")' = PositionIn(files, "pointer")
          /\ PositionIn(files, "latest")' = PositionIn(files, "latest")
          /\ PositionIn(disk, "pointer")' = PositionIn(disk, "pointer")
          /\ PositionIn(disk, "latest")' = PositionIn(disk, "latest")
          /\ Unsynced' = Unsynced
      BY DEF PositionIn, Unsynced
    <3> QED BY <3>2, <3>4, <3>5, <3>6 DEF ReportInv, Pointed, NeverBehind, Carries
  <2> QED BY <2>1, <2>2
<1>8. Housed'
  BY <1>1 DEF ReportInv, Housed, Arrived
<1> QED BY <1>3, <1>4, <1>5, <1>6, <1>7, <1>8 DEF ReportInv

\* A reporter replaces a file: what the proofs of the three replacements have in common.
LEMMA ReplaceTyped ==
  ASSUME ReportInv, NEW p \in Reporter, NEW file \in File, NEW report \in Rendering,
         NEW at \in DOMAIN NextDesk, desk[p].at \in {"report", "pointer", "latest"},
         Goes(p, at), FileOf(p)' = file,
         file \in RunReport => /\ file \notin DOMAIN files
                               /\ report.run = file /\ desk[p].report.run = file,
         Replace(file, report), UNCHANGED <<disk, days, lasting, holder, torn, published>>
  PROVE  /\ ReportsTyped' /\ Exclusive' /\ Accounted' /\ Housed'
         /\ desk'[p].at = at /\ desk'[p].report = desk[p].report
         /\ \A q \in Reporter \ {p} : desk'[q] = desk[q] /\ desk'[q].at \notin Locking
         /\ desk'[p].report \in Rendering
<1>1. /\ desk' \in [Reporter -> [at : Station, report : Rendering \cup {Away.report}]]
      /\ desk'[p].at = at /\ desk'[p].report = desk[p].report
      /\ \A q \in Reporter \ {p} : desk'[q] = desk[q]
  <2>1. at \in Station
    BY DEF NextDesk, Station
  <2> QED BY <2>1, GoesOnTo DEF ReportInv
<1>2. desk[p].report \in Rendering /\ \A q \in Reporter \ {p} : desk[q].at \notin Locking
  BY Alone DEF ReportInv, ReportsTyped, Locking
<1>3. /\ DOMAIN files' = DOMAIN files \cup {file} /\ files'[file] = report
      /\ \A f \in DOMAIN files \ {file} : files'[f] = files[f]
      /\ orphans' = orphans \ {file}
  BY Replaced
<1>4. ReportsTyped'
  <2>1. \A f \in DOMAIN files' : files'[f] \in Rendering /\ (f \in RunReport => files'[f].run = f)
    BY <1>3 DEF ReportInv, ReportsTyped
  <2>2. \A f \in DOMAIN disk : f \in RunReport => disk[f] = files'[f]
    BY <1>3 DEF ReportInv, ReportsTyped
  <2>3. DOMAIN files' \subseteq File /\ DOMAIN disk \subseteq DOMAIN files'
    BY <1>3 DEF ReportInv, ReportsTyped
  <2>4. \A q \in Reporter : desk'[q].at # "away" => desk'[q].report \in Rendering
    BY <1>1, <1>2 DEF ReportInv, ReportsTyped
  <2> QED BY <1>1, <2>1, <2>2, <2>3, <2>4 DEF ReportInv, ReportsTyped, File
<1>5. Exclusive'
  BY <1>1, <1>2 DEF ReportInv, Exclusive, Locking
<1>6. Accounted'
  <2> SUFFICES ASSUME NEW f \in Unsynced' \ orphans', f # file PROVE FALSE
    BY <1>1 DEF Accounted
  <2>1. f \in Unsynced \ orphans
    BY <1>3 DEF Unsynced
  <2>2. PICK q \in Reporter : desk[q].at \in DOMAIN NextDesk /\ FileOf(q) = f
    BY <2>1 DEF ReportInv, Accounted
  <2> QED BY <1>2, <2>2 DEF NextDesk, Locking
<1>7. Housed'
  BY <1>1, <1>3 DEF ReportInv, Housed, Arrived, Station
<1> QED BY <1>1, <1>2, <1>4, <1>5, <1>6, <1>7

LEMMA LockKept ==
  ASSUME ReportInv, NEW p \in Reporter, Lock(p)
  PROVE  ReportInv'
BY GoesKept DEF Lock, TakesLock, NextDesk, Arrived, Station

LEMMA RenderKept ==
  ASSUME ReportInv, NEW p \in Reporter, NEW report \in Rendering, Render(p, report)
  PROVE  ReportInv'
<1>1. PICK at \in {"waiting", "making"} :
         /\ desk' = [desk EXCEPT ![p] = AtDesk(at, report)]
         /\ at = "waiting" => DayOf[report.run] \in days
  BY DEF Render
<1>2. /\ desk' \in [Reporter -> [at : Station, report : Rendering \cup {Away.report}]]
      /\ desk'[p].at = at /\ desk'[p].report = report
      /\ \A q \in Reporter \ {p} : desk'[q] = desk[q]
  BY <1>1 DEF ReportInv, ReportsTyped, AtDesk, Station
<1>3. /\ desk[p].at = "away"
      /\ UNCHANGED <<files, disk, days, lasting, holder, orphans, torn, published>>
  BY DEF Render
<1>4. ReportsTyped'
  BY <1>2, <1>3 DEF ReportInv, ReportsTyped, File
<1>5. Exclusive' /\ InPlace'
  BY <1>2, <1>3 DEF ReportInv, Exclusive, InPlace, Locking, Carries, Selected
<1>6. Accounted'
  <2>1. \A q \in Reporter : desk[q].at \in DOMAIN NextDesk => desk'[q] = desk[q]
    BY <1>2, <1>3 DEF NextDesk
  <2> QED BY <1>3, <2>1 DEF ReportInv, Accounted, Unsynced, FileOf
<1>7. Pointed'
  <2>1. \A q \in Reporter : desk'[q].at = "sync report" => desk'[q] = desk[q]
    BY <1>2
  <2> QED BY <1>3, <2>1 DEF ReportInv, Pointed, NeverBehind, Carries, PositionIn, Unsynced
<1>8. Housed'
  BY <1>1, <1>2, <1>3 DEF ReportInv, Housed, Arrived
<1> QED BY <1>4, <1>5, <1>6, <1>7, <1>8 DEF ReportInv

LEMMA MakeDirectoryKept ==
  ASSUME ReportInv, NEW p \in Reporter, MakeDirectory(p)
  PROVE  ReportInv'
<1>1. /\ desk' \in [Reporter -> [at : Station, report : Rendering \cup {Away.report}]]
      /\ desk'[p].at = "sync root" /\ desk'[p].report = desk[p].report
      /\ \A q \in Reporter \ {p} : desk'[q] = desk[q]
  <2>1. "sync root" \in Station
    BY DEF Station
  <2> QED BY <2>1, GoesOnTo DEF MakeDirectory, ReportInv
<1>2. /\ desk[p].at = "making" /\ days' = days \cup {DayOf[desk[p].report.run]}
      /\ UNCHANGED <<files, disk, lasting, holder, orphans, torn, published>>
  BY DEF MakeDirectory
<1>3. ReportsTyped'
  BY <1>1, <1>2 DEF ReportInv, ReportsTyped, File
<1>4. Exclusive' /\ InPlace'
  BY <1>1, <1>2 DEF ReportInv, Exclusive, InPlace, Locking, Carries, Selected
<1>5. Accounted'
  <2>1. \A q \in Reporter : desk[q].at \in DOMAIN NextDesk => desk'[q] = desk[q]
    BY <1>1, <1>2 DEF NextDesk
  <2> QED BY <1>2, <2>1 DEF ReportInv, Accounted, Unsynced, FileOf
<1>6. Pointed'
  <2>1. \A q \in Reporter : desk'[q].at = "sync report" => desk'[q] = desk[q]
    BY <1>1
  <2> QED BY <1>2, <2>1 DEF ReportInv, Pointed, NeverBehind, Carries, PositionIn, Unsynced
<1>7. Housed'
  BY <1>1, <1>2 DEF ReportInv, Housed
<1> QED BY <1>3, <1>4, <1>5, <1>6, <1>7 DEF ReportInv

LEMMA RefuseKept ==
  ASSUME ReportInv, NEW p \in Reporter, desk[p].at \notin DOMAIN NextDesk, Refuse(p)
  PROVE  ReportInv'
BY LeavesKept DEF Refuse

LEMMA StoreReportKept ==
  ASSUME ReportInv, NEW p \in Reporter, StoreReport(p)
  PROVE  ReportInv'
<1> DEFINE report == desk[p].report
           run == report.run
<1>0. desk[p].at = "report" /\ report \in Rendering
  BY DEF StoreReport, ReportInv, ReportsTyped
<1>1. CASE ~ Stores(p) /\ Carries(run, report)
  <2>1. /\ Goes(p, "pointer")
        /\ UNCHANGED <<files, disk, days, lasting, holder, losses, orphans, torn, published>>
    BY <1>1 DEF StoreReport
  <2>2. holder = p
    BY <1>0, Alone DEF ReportInv, Locking
  <2> QED BY <1>0, <1>1, <2>1, <2>2, GoesKept DEF NextDesk, Locking, Arrived, Station
<1>2. CASE ~ Stores(p) /\ ~ Carries(run, report)
  BY <1>0, <1>2, RefuseKept DEF StoreReport, NextDesk
<1>3. CASE Stores(p)
  <2>1. /\ Replace(run, report) /\ Goes(p, "sync report")
        /\ UNCHANGED <<disk, days, lasting, holder, losses, torn, published>>
    BY <1>3 DEF StoreReport
  <2>2. /\ DOMAIN files' = DOMAIN files \cup {run} /\ files'[run] = report
        /\ \A f \in DOMAIN files \ {run} : files'[f] = files[f]
        /\ run \notin DOMAIN files /\ run \in RunReport
    BY <1>0, <1>3, <2>1, Replaced, Files DEF Stores
  <2>3. /\ ReportsTyped' /\ Exclusive' /\ Accounted' /\ Housed'
        /\ desk'[p].at = "sync report" /\ desk'[p].report = report
        /\ \A q \in Reporter \ {p} : desk'[q] = desk[q] /\ desk'[q].at \notin Locking
    <3>1. FileOf(p)' = run
      BY <2>1, <1>0, GoesOnTo DEF FileOf, ReportInv, Station
    <3> QED BY <1>0, <2>1, <2>2, <3>1, ReplaceTyped DEF NextDesk, File
  <2>4. InPlace'
    BY <2>2, <2>3 DEF InPlace, Carries, Locking
  <2>5. Pointed'
    <3>1. /\ "pointer" \in DOMAIN files' <=> "pointer" \in DOMAIN files
          /\ "pointer" \in DOMAIN files => files'["pointer"] = files["pointer"]
          /\ "latest" \in DOMAIN files' <=> "latest" \in DOMAIN files
          /\ "latest" \in DOMAIN files => files'["latest"] = files["latest"]
      BY <2>2, Files
    <3>2. /\ PositionIn(files, "pointer")' = PositionIn(files, "pointer")
          /\ PositionIn(files, "latest")' = PositionIn(files, "latest")
          /\ PositionIn(disk, "pointer")' = PositionIn(disk, "pointer")
          /\ PositionIn(disk, "latest")' = PositionIn(disk, "latest")
          /\ "latest" \in Unsynced => "latest" \in Unsynced'
      BY <2>1, <3>1 DEF PositionIn, Unsynced
    <3>3. ~ torn /\ "pointer" \in DOMAIN files' =>
             LET g == files'["pointer"].run
             IN  g \in DOMAIN files' /\ files'[g] = files'["pointer"] /\ g # run
      BY <2>1, <2>2, <3>1 DEF ReportInv, Pointed, Carries
    <3>4. ~ torn /\ "pointer" \in DOMAIN disk =>
             LET g == disk["pointer"].run
             IN  g \in DOMAIN files' /\ files'[g] = disk["pointer"]
      BY <2>1, <2>2, <3>1 DEF ReportInv, Pointed, Carries
    <3>5. \A q \in Reporter : desk'[q].at = "sync report" => desk'[q].report.run = run
      BY <2>3 DEF Locking
    <3> QED BY <2>1, <3>2, <3>3, <3>4, <3>5 DEF ReportInv, Pointed, NeverBehind, Carries
  <2> QED BY <2>3, <2>4, <2>5 DEF ReportInv
<1> QED BY <1>1, <1>2, <1>3

LEMMA MovePointerKept ==
  ASSUME ReportInv, NEW p \in Reporter, MovePointer(p)
  PROVE  ReportInv'
<1>0. desk[p].at = "pointer" /\ holder = p
  BY Alone DEF MovePointer, ReportInv, Locking
<1>1. PICK report \in Rendering : report = desk[p].report
  BY <1>0 DEF ReportInv, ReportsTyped
<1>2. Carries(report.run, report) /\ report.run \in RunReport
  BY <1>0, <1>1, Files DEF ReportInv, InPlace, Locking
<1>3. CASE Refuse(p)
  BY <1>0, <1>3, RefuseKept DEF NextDesk
<1>4. CASE /\ Carries("pointer", Selected(report)) /\ Goes(p, "latest")
           /\ UNCHANGED <<files, orphans, disk, days, lasting, holder, losses, torn, published>>
  BY <1>0, <1>1, <1>2, <1>4, GoesKept DEF NextDesk, Locking, Arrived, Station
<1>5. CASE /\ ~ Carries("pointer", Selected(report))
           /\ Replace("pointer", Selected(report)) /\ Goes(p, "sync pointer")
           /\ UNCHANGED <<disk, days, lasting, holder, losses, torn, published>>
  <2>1. Selected(report) = report
    BY <1>5, SelectedNewest DEF ReportInv, Carries
  <2>2. /\ DOMAIN files' = DOMAIN files \cup {"pointer"} /\ files'["pointer"] = report
        /\ \A f \in DOMAIN files \ {"pointer"} : files'[f] = files[f]
    BY <1>5, <2>1, Replaced
  <2>3. /\ ReportsTyped' /\ Exclusive' /\ Accounted' /\ Housed'
        /\ desk'[p].at = "sync pointer" /\ desk'[p].report = report
        /\ \A q \in Reporter \ {p} : desk'[q] = desk[q] /\ desk'[q].at \notin Locking
    <3>1. FileOf(p)' = "pointer"
      BY <1>5, GoesOnTo DEF FileOf, ReportInv, Station
    <3> QED BY <1>0, <1>1, <1>5, <2>1, <3>1, ReplaceTyped, Files DEF NextDesk, File
  <2>4. report.run \in DOMAIN files' /\ files'[report.run] = report
    BY <1>2, <2>2, Files DEF Carries
  <2>5. Selected(report)' = report
    BY <2>2 DEF Selected
  <2>6. InPlace'
    BY <2>2, <2>3, <2>4, <2>5 DEF InPlace, Carries, Locking
  <2>7. Pointed'
    <3>1. /\ PositionIn(files, "pointer")' = Position(report.run)
          /\ PositionIn(files, "latest")' = PositionIn(files, "latest")
          /\ PositionIn(disk, "pointer")' = PositionIn(disk, "pointer")
          /\ PositionIn(disk, "latest")' = PositionIn(disk, "latest")
          /\ "latest" \in Unsynced => "latest" \in Unsynced'
      BY <1>5, <2>2 DEF PositionIn, Unsynced
    <3>2. /\ PositionIn(files, "pointer") <= Position(report.run)
          /\ PositionIn(files, "pointer") \in Nat /\ PositionIn(files, "latest") \in Nat
          /\ PositionIn(disk, "pointer") \in Nat
          /\ Position(report.run) \in Nat /\ published \in Nat
      BY <1>2, <2>1, SelectedNewest, Positions, PositionsIn DEF ReportInv, ReportsTyped, File
    <3>3. ~ torn => NeverBehind'
      <4>1. ~ torn => NeverBehind
        BY DEF ReportInv, Pointed
      <4>2. published' = published
        BY <1>5
      <4> QED BY <3>1, <3>2, <4>1, <4>2 DEF NeverBehind
    <3>4. ~ torn /\ "pointer" \in DOMAIN disk =>
             LET g == disk["pointer"].run
             IN  g \in DOMAIN files' /\ files'[g] = disk["pointer"]
      BY <2>2, Files DEF ReportInv, ReportsTyped, Pointed, Carries
    <3>5. \A q \in Reporter : desk'[q].at # "sync report"
      BY <2>3 DEF Locking
    <3> QED BY <1>5, <2>2, <2>4, <3>3, <3>4, <3>5 DEF Pointed, Carries
  <2> QED BY <2>3, <2>6, <2>7 DEF ReportInv
<1> QED BY <1>1, <1>3, <1>4, <1>5 DEF MovePointer

LEMMA ServeLatestKept ==
  ASSUME ReportInv, NEW p \in Reporter, ServeLatest(p)
  PROVE  ReportInv'
<1>0. desk[p].at = "latest" /\ holder = p
  BY Alone DEF ServeLatest, ReportInv, Locking
<1>1. PICK report \in Rendering : report = desk[p].report
  BY <1>0 DEF ReportInv, ReportsTyped
<1>2. /\ Carries(report.run, report) /\ report.run \in RunReport
      /\ Carries("pointer", Selected(report))
  BY <1>0, <1>1, Files DEF ReportInv, InPlace, Locking
<1>3. CASE Refuse(p)
  BY <1>0, <1>3, RefuseKept DEF NextDesk
<1>4. CASE /\ Carries("latest", Selected(report)) /\ Goes(p, "return")
           /\ UNCHANGED <<files, orphans, disk, days, lasting, holder, losses, torn, published>>
  BY <1>0, <1>1, <1>2, <1>4, GoesKept DEF NextDesk, Locking, Arrived, Station
<1>5. CASE /\ Replace("latest", Selected(report)) /\ Goes(p, "sync latest")
           /\ UNCHANGED <<disk, days, lasting, holder, losses, torn, published>>
  <2>1. PICK selected \in Rendering : selected = Selected(report)
    BY SelectedNewest DEF ReportInv
  <2>2. /\ DOMAIN files' = DOMAIN files \cup {"latest"} /\ files'["latest"] = selected
        /\ \A f \in DOMAIN files \ {"latest"} : files'[f] = files[f]
    BY <1>5, <2>1, Replaced
  <2>3. /\ ReportsTyped' /\ Exclusive' /\ Accounted' /\ Housed'
        /\ desk'[p].at = "sync latest" /\ desk'[p].report = report
        /\ \A q \in Reporter \ {p} : desk'[q] = desk[q] /\ desk'[q].at \notin Locking
    <3>1. FileOf(p)' = "latest"
      BY <1>5, GoesOnTo DEF FileOf, ReportInv, Station
    <3> QED BY <1>0, <1>1, <1>5, <2>1, <3>1, ReplaceTyped, Files DEF NextDesk, File
  <2>4. /\ report.run \in DOMAIN files' /\ files'[report.run] = report
        /\ "pointer" \in DOMAIN files' /\ files'["pointer"] = selected
        /\ "pointer" \in DOMAIN files /\ files["pointer"] = selected
    BY <1>2, <2>1, <2>2, Files DEF Carries
  <2>5. Selected(report)' = selected
    BY <2>1, <2>4 DEF Selected
  <2>6. InPlace'
    BY <2>2, <2>3, <2>4, <2>5 DEF InPlace, Carries, Locking
  <2>7. Pointed'
    <3>1. /\ PositionIn(files, "pointer")' = PositionIn(files, "pointer")
          /\ PositionIn(files, "latest")' = PositionIn(files, "pointer")
          /\ PositionIn(disk, "pointer")' = PositionIn(disk, "pointer")
          /\ PositionIn(disk, "latest")' = PositionIn(disk, "latest")
      BY <1>5, <2>2, <2>4 DEF PositionIn
    <3>2. /\ PositionIn(files, "pointer") \in Nat /\ PositionIn(disk, "pointer") \in Nat
          /\ published \in Nat
      BY PositionsIn DEF ReportInv, ReportsTyped, File
    <3>3. "latest" \notin Unsynced' => PositionIn(disk, "latest") = PositionIn(files, "pointer")
      BY <1>5, <2>2, <2>4 DEF Unsynced, PositionIn
    <3>4. ~ torn => NeverBehind'
      <4>1. ~ torn => NeverBehind
        BY DEF ReportInv, Pointed
      <4>2. published' = published
        BY <1>5
      <4> QED BY <3>1, <3>2, <3>3, <4>1, <4>2 DEF NeverBehind
    <3>5. ~ torn =>
             /\ LET g == files'["pointer"].run
                IN  g \in DOMAIN files' /\ files'[g] = files'["pointer"]
             /\ "pointer" \in DOMAIN disk =>
                  LET g == disk["pointer"].run
                  IN  g \in DOMAIN files' /\ files'[g] = disk["pointer"]
      BY <2>2, <2>4, Files DEF ReportInv, ReportsTyped, Pointed, Carries
    <3>6. \A q \in Reporter : desk'[q].at # "sync report"
      BY <2>3 DEF Locking
    <3> QED BY <1>5, <2>4, <3>4, <3>5, <3>6 DEF Pointed, Carries
  <2> QED BY <2>3, <2>6, <2>7 DEF ReportInv
<1> QED BY <1>1, <1>3, <1>4, <1>5 DEF ServeLatest

\* A reporter has synced a directory, that of the file it has replaced or the root.
LEMMA FsyncKept ==
  ASSUME ReportInv, NEW p \in Reporter, NEW directory, Fsync(directory),
         NEW at \in {"waiting", "pointer", "latest", "return"}, Goes(p, at),
         \/ desk[p].at = "sync root" /\ at = "waiting" /\ directory = "root"
         \/ /\ desk[p].at \in DOMAIN NextDesk /\ at = NextDesk[desk[p].at]
            /\ directory = Directory(FileOf(p)),
         UNCHANGED <<files, days, holder, torn, published>>
  PROVE  ReportInv'
<1> DEFINE synced == {f \in DOMAIN files : Directory(f) = directory}
<1>1. /\ at # "waiting" => desk[p].at \in DOMAIN NextDesk /\ at = NextDesk[desk[p].at]
      /\ at = "waiting" => desk[p].at = "sync root" /\ directory = "root"
      /\ desk[p].at \in Arrived
  BY DEF NextDesk, Arrived, Station
<1>2. PICK report \in Rendering : report = desk[p].report
  BY <1>1 DEF ReportInv, ReportsTyped, Arrived
<1>3. /\ desk' \in [Reporter -> [at : Station, report : Rendering \cup {Away.report}]]
      /\ desk'[p].at = at /\ desk'[p].report = report
      /\ \A q \in Reporter \ {p} : desk'[q] = desk[q]
  BY <1>2, GoesOnTo DEF ReportInv, Station
<1>4. /\ orphans' = orphans \ synced
      /\ lasting' = IF directory = "root" THEN days ELSE lasting
  BY DEF Fsync
<1>5. /\ DOMAIN disk' = synced \cup DOMAIN disk
      /\ \A f \in synced : disk'[f] = files[f]
      /\ \A f \in DOMAIN disk \ synced : disk'[f] = disk[f]
  BY DEF Fsync, Atop
<1>6. desk[p].at \in DOMAIN NextDesk => FileOf(p) \in synced
  BY DEF ReportInv, InPlace, Carries, FileOf, NextDesk, Locking
<1>7. ReportsTyped'
  <2>1. synced \subseteq DOMAIN files
    OBVIOUS
  <2>2. \A q \in Reporter : desk'[q].at # "away" => desk'[q].report \in Rendering
    BY <1>1, <1>2, <1>3 DEF ReportInv, ReportsTyped
  <2> HIDE DEF synced
  <2> QED BY <1>3, <1>5, <2>1, <2>2 DEF ReportInv, ReportsTyped, File
<1>8. Exclusive'
  BY <1>1, <1>3 DEF ReportInv, Exclusive, Locking, NextDesk
<1>9. InPlace'
  <2>1. /\ at # "waiting" => Carries(report.run, report)
        /\ at \in {"latest", "return"} => Carries("pointer", Selected(report))
        /\ at = "return" => Carries("latest", Selected(report))
    BY <1>1, <1>2 DEF ReportInv, InPlace, NextDesk, Locking
  <2> QED BY <1>3, <2>1 DEF ReportInv, InPlace, Carries, Selected, Locking
<1>10. Accounted'
  <2> SUFFICES ASSUME NEW f \in Unsynced' \ orphans'
               PROVE  \E q \in Reporter : desk'[q].at \in DOMAIN NextDesk /\ FileOf(q)' = f
    BY DEF Accounted
  <2>1. f \in Unsynced \ orphans /\ f \notin synced
    BY <1>4, <1>5 DEF Unsynced
  <2>2. PICK q \in Reporter : desk[q].at \in DOMAIN NextDesk /\ FileOf(q) = f
    BY <2>1 DEF ReportInv, Accounted
  <2>3. q # p
    BY <1>6, <2>1, <2>2
  <2> QED BY <1>3, <2>2, <2>3 DEF FileOf
<1>11. Pointed'
  <2>1. /\ PositionIn(files, "pointer")' = PositionIn(files, "pointer")
        /\ PositionIn(files, "latest")' = PositionIn(files, "latest")
    BY <1>4 DEF PositionIn
  <2>2. \/ /\ PositionIn(disk, "pointer")' = PositionIn(files, "pointer")
           /\ PositionIn(disk, "latest")' = PositionIn(files, "latest")
        \/ /\ PositionIn(disk, "pointer")' = PositionIn(disk, "pointer")
           /\ PositionIn(disk, "latest")' = PositionIn(disk, "latest")
           /\ "latest" \in Unsynced => "latest" \in Unsynced'
    <3>1. Directory("pointer") = Directory("latest")
      BY Files DEF Directory
    <3>2. CASE directory = Directory("latest")
      <4>1. \A f \in {"pointer", "latest"} :
               /\ f \in DOMAIN files <=> f \in synced
               /\ f \in DOMAIN disk => f \in synced
        <5>1. DOMAIN disk \subseteq DOMAIN files
          BY DEF ReportInv, ReportsTyped
        <5>2. "pointer" \in DOMAIN files <=> "pointer" \in synced
          BY <3>1, <3>2
        <5>3. "latest" \in DOMAIN files <=> "latest" \in synced
          BY <3>2
        <5> HIDE DEF synced
        <5> QED BY <5>1, <5>2, <5>3
      <4> HIDE DEF synced
      <4> QED BY <1>5, <4>1 DEF PositionIn
    <3>3. CASE directory # Directory("latest")
      <4>1. "pointer" \notin synced /\ "latest" \notin synced
        BY <3>1, <3>3
      <4> HIDE DEF synced
      <4> QED BY <1>4, <1>5, <4>1 DEF PositionIn, Unsynced
    <3> QED BY <3>2, <3>3
  <2>3. ~ torn => LET g == files["pointer"].run
                  IN  "pointer" \in DOMAIN files => g \in DOMAIN files /\ files[g] = files["pointer"]
    BY DEF ReportInv, Pointed, Carries
  <2>4. ~ torn /\ "pointer" \in DOMAIN disk' =>
           LET g == disk'["pointer"].run
           IN  g \in DOMAIN files /\ files[g] = disk'["pointer"]
    <3>1. CASE "pointer" \in synced
      BY <1>5, <2>3, <3>1
    <3>2. CASE "pointer" \notin synced
      <4> HIDE DEF synced
      <4> QED BY <1>5, <3>2 DEF ReportInv, Pointed, Carries
    <3> QED BY <3>1, <3>2
  <2>5. \A q \in Reporter : desk'[q].at = "sync report" => desk'[q] = desk[q]
    BY <1>3
  <2>6. /\ PositionIn(files, "pointer") \in Nat /\ PositionIn(disk, "pointer") \in Nat
        /\ published \in Nat
    BY PositionsIn DEF ReportInv, ReportsTyped, File
  <2>7. ~ torn => NeverBehind'
    <3> HIDE DEF synced
    <3>1. ~ torn => NeverBehind
      BY DEF ReportInv, Pointed
    <3>2. published' = published
      OBVIOUS
    <3>3. PICK n \in Nat, m \in Nat :
             n = published /\ m = PositionIn(files, "pointer")
      BY <2>6
    <3>4. CASE /\ PositionIn(disk, "pointer")' = PositionIn(files, "pointer")
               /\ PositionIn(disk, "latest")' = PositionIn(files, "latest")
      <4>1. ~ torn => n <= m /\ PositionIn(files, "latest") <= m
        BY <3>1, <3>3 DEF NeverBehind
      <4>2. /\ published' = n /\ PositionIn(disk, "pointer")' = m
            /\ PositionIn(files, "pointer")' = m
            /\ PositionIn(files, "latest")' = PositionIn(files, "latest")
        BY <2>1, <3>2, <3>3, <3>4
      <4>3. m <= m /\ (n <= m => ~ n > m)
        BY NotAhead
      <4> QED BY <3>4, <4>1, <4>2, <4>3 DEF NeverBehind
    <3>5. CASE /\ PositionIn(disk, "pointer")' = PositionIn(disk, "pointer")
               /\ PositionIn(disk, "latest")' = PositionIn(disk, "latest")
               /\ "latest" \in Unsynced => "latest" \in Unsynced'
      BY <2>1, <3>1, <3>2, <3>5 DEF NeverBehind
    <3> QED BY <2>2, <3>4, <3>5
  <2>8. ~ torn => \A q \in Reporter : desk'[q].at = "sync report" /\ "pointer" \in DOMAIN files =>
                    files["pointer"].run # desk'[q].report.run
    BY <2>5 DEF ReportInv, Pointed
  <2> QED BY <2>3, <2>4, <2>7, <2>8 DEF Pointed, Carries
<1>12. Housed'
  <2>1. lasting \subseteq lasting' /\ lasting' \subseteq days
    BY <1>4 DEF ReportInv, Housed
  <2>2. \A q \in Reporter : desk'[q].at \in Arrived => DayOf[desk'[q].report.run] \in days
    BY <1>1, <1>2, <1>3 DEF ReportInv, Housed
  <2>3. ASSUME ~ torn, "pointer" \in DOMAIN disk'
        PROVE  DayOf[disk'["pointer"].run] \in lasting'
    <3>1. CASE "pointer" \in synced
      <4>1. directory = "root" /\ disk'["pointer"] = files["pointer"]
        BY <1>5, <3>1, Files DEF Directory
      <4>2. files["pointer"].run \in DOMAIN files /\ files["pointer"].run \in RunReport
        BY <2>3, <3>1, Files DEF ReportInv, ReportsTyped, Pointed, Carries
      <4> QED BY <1>4, <4>1, <4>2 DEF ReportInv, Housed
    <3>2. CASE "pointer" \notin synced
      <4> HIDE DEF synced
      <4>1. "pointer" \in DOMAIN disk /\ disk'["pointer"] = disk["pointer"]
        BY <1>5, <2>3, <3>2
      <4> QED BY <2>1, <2>3, <4>1 DEF ReportInv, Housed
    <3> QED BY <3>1, <3>2
  <2> QED BY <2>1, <2>2, <2>3 DEF ReportInv, Housed
<1> QED BY <1>7, <1>8, <1>9, <1>10, <1>11, <1>12 DEF ReportInv

LEMMA SyncKept ==
  ASSUME ReportInv, NEW p \in Reporter, SyncRoot(p) \/ Sync(p)
  PROVE  ReportInv'
<1>1. CASE SyncRoot(p)
  BY <1>1, FsyncKept DEF SyncRoot
<1>2. CASE Sync(p)
  <2>1. PICK at \in {"pointer", "latest", "return"} : at = NextDesk[desk[p].at]
    BY <1>2 DEF Sync, NextDesk
  <2>2. PICK directory : directory = Directory(FileOf(p))
    OBVIOUS
  <2> QED BY <1>2, <2>1, <2>2, FsyncKept DEF Sync
<1> QED BY <1>1, <1>2

LEMMA EndKept ==
  ASSUME ReportInv, NEW p \in Reporter, Return(p) \/ CutOff(p)
  PROVE  ReportInv'
<1>1. CASE Return(p)
  BY <1>1, LeavesKept DEF Return, NextDesk
<1>2. CASE CutOff(p)
  BY <1>2, LeavesKept DEF CutOff
<1> QED BY <1>1, <1>2

\* The power fails: what is left of the pointer and of the report it names fits, since
\* one file at most was not synced, unless some had been left behind, and the directory
\* of the report would be left if the pointer, or what is left of it, names it.
LEMMA PowerLossKept ==
  ASSUME ReportInv, PowerLoss
  PROVE  ReportInv'
<1>0. PICK kept \in SUBSET Unsynced, found \in SUBSET (days \ lasting) :
         /\ days' = lasting \cup found
         /\ files' = LET left == Atop([f \in kept |-> files[f]], disk)
                     IN  [f \in {f \in DOMAIN left : Directory(f) \in {"root"} \cup days'} |->
                             left[f]]
  BY DEF PowerLoss
<1>1. disk' = files' /\ lasting' = days'
  BY DEF PowerLoss
<1>2. /\ DOMAIN files' =
            {f \in kept \cup DOMAIN disk : Directory(f) \in {"root"} \cup days'}
      /\ \A f \in DOMAIN files' : files'[f] = IF f \in kept THEN files[f] ELSE disk[f]
  BY <1>0 DEF Atop
<1>3. kept \subseteq DOMAIN files /\ DOMAIN disk \subseteq DOMAIN files
  BY DEF Unsynced, ReportInv, ReportsTyped
<1>4. /\ desk' \in [Reporter -> [at : Station, report : Rendering \cup {Away.report}]]
      /\ \A q \in Reporter : desk'[q].at = "away"
  BY DEF PowerLoss, Away, AtDesk, Station
<1>5. ReportsTyped'
  <2>1. \A f \in DOMAIN files' : files'[f] \in Rendering /\ (f \in RunReport => files'[f].run = f)
    BY <1>2, <1>3 DEF ReportInv, ReportsTyped
  <2>2. published' = published /\ DOMAIN files' \subseteq File
    BY <1>2, <1>3 DEF PowerLoss, ReportInv, ReportsTyped
  <2> QED BY <1>1, <1>4, <2>1, <2>2 DEF ReportInv, ReportsTyped, File
<1>6. Exclusive' /\ InPlace'
  BY <1>4 DEF Exclusive, InPlace, Locking
<1>7. Accounted'
  BY <1>1 DEF Accounted, Unsynced
<1>8. Pointed'
  <2> SUFFICES ASSUME ~ torn' PROVE Pointed'
    BY DEF Pointed
  <2>1. ~ torn /\ orphans = {} /\ published' = published
    BY DEF PowerLoss
  <2>2. \A f, g \in Unsynced : f = g
    <3>1. ASSUME NEW f \in Unsynced, NEW g \in Unsynced,
                 NEW p \in Reporter, NEW q \in Reporter,
                 desk[p].at \in DOMAIN NextDesk, desk[q].at \in DOMAIN NextDesk,
                 FileOf(p) = f, FileOf(q) = g
          PROVE  f = g
      <4>1. p = q
        BY <3>1 DEF ReportInv, Exclusive, NextDesk, Locking
      <4> QED BY <3>1, <4>1
    <3> QED BY <2>1, <3>1 DEF ReportInv, Accounted
  <2>3. \A f \in DOMAIN files \ Unsynced :
           Directory(f) \in {"root"} \cup lasting => f \in DOMAIN files' /\ files'[f] = files[f]
    BY <1>0, <1>2, <1>3 DEF Unsynced
  <2>4. /\ "pointer" \in DOMAIN files' =>
              \/ "pointer" \in DOMAIN files /\ files'["pointer"] = files["pointer"]
              \/ "pointer" \in DOMAIN disk /\ files'["pointer"] = disk["pointer"]
                 /\ "pointer" \in Unsynced
    BY <1>2, <1>3 DEF Unsynced
  <2>5. ASSUME "pointer" \in DOMAIN files'
        PROVE  LET g == files'["pointer"].run
               IN  g \in DOMAIN files' /\ files'[g] = files'["pointer"]
    <3>1. PICK report \in Rendering : report = files'["pointer"]
      BY <1>5, <2>5 DEF ReportsTyped
    <3>2. Carries(report.run, report) /\ report.run \in RunReport
      BY <2>1, <2>4, <2>5, <3>1, Files DEF ReportInv, Pointed
    <3>3. DayOf[report.run] \in lasting
      <4>1. ~ torn /\ ~ PointsAhead
        BY DEF PowerLoss
      <4>2. CASE "pointer" \in Unsynced /\ files'["pointer"] = files["pointer"]
        BY <3>1, <4>1, <4>2 DEF PointsAhead
      <4>3. CASE "pointer" \in DOMAIN disk /\ files'["pointer"] = disk["pointer"]
        BY <3>1, <4>1, <4>3 DEF ReportInv, Housed
      <4> QED BY <1>2, <2>5, <4>2, <4>3
    <3>4. Directory(report.run) \in {"root"} \cup lasting
      BY <3>2, <3>3 DEF Directory
    <3>5. CASE report.run \notin Unsynced
      BY <2>3, <3>1, <3>2, <3>4, <3>5 DEF Carries
    <3>6. CASE report.run \in Unsynced
      <4>1. "pointer" \notin Unsynced
        BY <2>2, <3>2, <3>6, Files
      <4>2. "pointer" \in DOMAIN files /\ files["pointer"] = report
        BY <2>4, <2>5, <3>1, <4>1
      <4>3. PICK p \in Reporter : desk[p].at \in DOMAIN NextDesk /\ FileOf(p) = report.run
        BY <2>1, <3>6 DEF ReportInv, Accounted
      <4>4. desk[p].at = "sync report" /\ desk[p].report.run = report.run
        BY <3>2, <4>3, Files DEF FileOf, NextDesk
      <4> QED BY <2>1, <4>2, <4>4 DEF ReportInv, Pointed
    <3> QED BY <3>5, <3>6
  <2>6. NeverBehind'
    <3>1. /\ PositionIn(files, "pointer") \in Nat /\ PositionIn(disk, "pointer") \in Nat
          /\ PositionIn(files, "latest") \in Nat /\ PositionIn(disk, "latest") \in Nat
          /\ published \in Nat
      BY PositionsIn DEF ReportInv, ReportsTyped, File
    <3>2. NeverBehind
      BY <2>1 DEF ReportInv, Pointed
    <3>3. /\ PositionIn(disk, "pointer")' = PositionIn(files, "pointer")'
          /\ PositionIn(disk, "latest")' = PositionIn(files, "latest")'
      BY <1>1 DEF PositionIn
    <3>4. \A f \in {"pointer", "latest"} :
             \/ PositionIn(files, f)' = PositionIn(files, f)
             \/ PositionIn(files, f)' = PositionIn(disk, f) /\ f \in Unsynced
      <4>1. \A f \in {"pointer", "latest"} : Directory(f) = "root"
        BY Files DEF Directory
      <4> QED BY <1>2, <1>3, <4>1 DEF PositionIn, Unsynced
    <3>5. \A f \in {"pointer", "latest"} :
             f \notin Unsynced => PositionIn(files, f) = PositionIn(disk, f)
      BY <1>3 DEF PositionIn, Unsynced
    <3>6. "pointer" \notin Unsynced \/ "latest" \notin Unsynced
      BY <2>2
    <3>7. /\ \/ PositionIn(files, "pointer")' = PositionIn(files, "pointer")
             \/ PositionIn(files, "pointer")' = PositionIn(disk, "pointer") /\ "pointer" \in Unsynced
          /\ \/ PositionIn(files, "latest")' = PositionIn(files, "latest")
             \/ PositionIn(files, "latest")' = PositionIn(disk, "latest") /\ "latest" \in Unsynced
          /\ "pointer" \notin Unsynced => PositionIn(files, "pointer") = PositionIn(disk, "pointer")
          /\ "latest" \notin Unsynced => PositionIn(files, "latest") = PositionIn(disk, "latest")
      BY <3>4, <3>5
    <3>8. published <= PositionIn(files, "pointer")'
      BY <3>1, <3>2, <3>6, <3>7 DEF NeverBehind
    <3>9. PositionIn(files, "latest")' <= PositionIn(files, "pointer")'
      BY <3>1, <3>2, <3>6, <3>7 DEF NeverBehind
    <3>10. PositionIn(files, "pointer")' \in Nat
      BY <3>1, <3>7
    <3> QED BY <2>1, <3>1, <3>3, <3>8, <3>9, <3>10 DEF NeverBehind
  <2> QED BY <1>1, <1>4, <2>5, <2>6 DEF Pointed, Carries
<1>9. Housed'
  <2>1. \A f \in DOMAIN files' : f \in RunReport => DayOf[f] \in days'
    <3>1. ASSUME NEW f \in DOMAIN files', f \in RunReport PROVE DayOf[f] \in days'
      <4>1. \E n \in DOMAIN Chronology : f = Chronology[n]
        BY <3>1 DEF RunReport
      <4>2. DayOf[f] # "root"
        BY <4>1, ReportAssumption
      <4> QED BY <1>2, <3>1, <4>2 DEF Directory
    <3> QED BY <3>1
  <2>2. ~ torn' /\ "pointer" \in DOMAIN disk' => DayOf[disk'["pointer"].run] \in lasting'
    <3> SUFFICES ASSUME ~ torn', "pointer" \in DOMAIN files'
                 PROVE  DayOf[files'["pointer"].run] \in days'
      BY <1>1
    <3>1. /\ files'["pointer"].run \in DOMAIN files'
          /\ files'["pointer"].run \in RunReport
      BY <1>5, <1>8, Files DEF ReportsTyped, Pointed, Carries
    <3> QED BY <2>1, <3>1
  <2> QED BY <1>1, <1>4, <2>1, <2>2 DEF Housed, Arrived
<1> QED BY <1>5, <1>6, <1>7, <1>8, <1>9 DEF ReportInv

LEMMA ReportInvKept ==
  ASSUME ReportInv, [ReportNext]_reportVars
  PROVE  ReportInv'
<1>1. CASE UNCHANGED reportVars
  <2>1. ReportsTyped' /\ Exclusive'
    BY <1>1 DEF reportVars, ReportInv, ReportsTyped, Exclusive, File
  <2>2. InPlace'
    BY <1>1 DEF reportVars, ReportInv, InPlace, Carries, Selected
  <2>3. Accounted'
    BY <1>1 DEF reportVars, ReportInv, Accounted, Unsynced, FileOf
  <2>4. Pointed'
    BY <1>1 DEF reportVars, ReportInv, Pointed, NeverBehind, Carries, PositionIn, Unsynced
  <2>5. Housed'
    BY <1>1 DEF reportVars, ReportInv, Housed
  <2> QED BY <2>1, <2>2, <2>3, <2>4, <2>5 DEF ReportInv
<1> QED BY <1>1, RenderKept, MakeDirectoryKept, LockKept, StoreReportKept, MovePointerKept, ServeLatestKept,
           SyncKept, EndKept, PowerLossKept DEF ReportNext

LEMMA ReportInvAlways == ReportSpec => []ReportInv
<1>1. ReportInit => ReportInv
  <2> SUFFICES ASSUME ReportInit PROVE ReportInv
    OBVIOUS
  <2>1. DOMAIN files = {} /\ DOMAIN disk = {}
    BY DEF ReportInit
  <2>2. desk \in [Reporter -> [at : Station, report : Rendering \cup {Away.report}]]
    BY DEF ReportInit, Away, AtDesk, Station
  <2>3. \A p \in Reporter : desk[p].at = "away"
    BY DEF ReportInit, Away, AtDesk
  <2>4. ReportsTyped
    BY <2>1, <2>2, <2>3 DEF ReportInit, ReportsTyped
  <2>5. Exclusive /\ InPlace
    BY <2>3 DEF Exclusive, InPlace, Locking
  <2>6. Accounted
    BY <2>1 DEF Accounted, Unsynced
  <2>7. Pointed
    <3>1. published = 0
      BY DEF ReportInit
    <3>2. \A f : PositionIn(files, f) = 0 /\ PositionIn(disk, f) = 0
      BY <2>1 DEF PositionIn
    <3> QED BY <2>1, <3>1, <3>2 DEF Pointed, NeverBehind
  <2>8. Housed
    BY <2>1, <2>3 DEF ReportInit, Housed, Arrived
  <2> QED BY <2>4, <2>5, <2>6, <2>7, <2>8 DEF ReportInv
<1> QED BY <1>1, ReportInvKept, PTL DEF ReportSpec

\* Whatever reporters are cut off and whenever the power fails, the pointer names a stored
\* report, none older than a published one, but for two cases: the power failed while a
\* file left behind by a reporter that was cut off was not synced, or while a new pointer
\* was not and neither was the directory, made by another, of the report it names.
THEOREM PointedReportStoredAlways == ReportSpec => []PointedReportStored
<1>1. ASSUME ReportInv PROVE PointedReportStored
  BY <1>1 DEF ReportInv, Pointed, NeverBehind, PositionIn, PointedReportStored
<1> QED BY <1>1, ReportInvAlways, PTL

\* What a reporter returns is stored, pointed to or followed by a newer report, served as
\* the latest, and its files are durable but for what others left behind; so is the
\* directory of the latest report unless the power has torn the files. Nothing is said of
\* the directory of an older report, which another may have made and not synced.
THEOREM LatestServedAlways == ReportSpec => []LatestServed
<1>1. ASSUME ReportInv, NEW p \in Reporter, desk[p].at = "return"
      PROVE  /\ {desk[p].report.run, "pointer", "latest"} \subseteq DOMAIN files
             /\ files["latest"] = files["pointer"]
             /\ Position(files["latest"].run) >= Position(desk[p].report.run)
             /\ Carries(desk[p].report.run, desk[p].report)
             /\ {desk[p].report.run, "pointer", "latest"} \cap Unsynced \subseteq orphans
             /\ ~ torn /\ "pointer" \notin orphans => DayOf[files["pointer"].run] \in lasting
  <2>1. PICK report \in Rendering : report = desk[p].report
    BY <1>1 DEF ReportInv, ReportsTyped
  <2>2. /\ Carries(report.run, report) /\ Carries("pointer", Selected(report))
        /\ Carries("latest", Selected(report))
    BY <1>1, <2>1 DEF ReportInv, InPlace, Locking
  <2>3. Position(report.run) <= Position(Selected(report).run)
    BY <1>1, SelectedNewest DEF ReportInv
  <2>4. Position(report.run) \in Nat /\ Position(Selected(report).run) \in Nat
    BY <1>1, SelectedNewest, Files, Positions DEF ReportInv
  <2>5. Unsynced \subseteq orphans
    BY <1>1 DEF ReportInv, Accounted, Exclusive, NextDesk, Locking
  <2>6. "pointer" \notin orphans => /\ "pointer" \in DOMAIN disk
                                    /\ disk["pointer"] = files["pointer"]
    BY <2>2, <2>5 DEF Unsynced, Carries
  <2>7. ~ torn /\ "pointer" \notin orphans => DayOf[files["pointer"].run] \in lasting
    BY <2>6, <1>1 DEF ReportInv, Housed
  <2> QED BY <2>1, <2>2, <2>3, <2>4, <2>5, <2>7 DEF Carries
<1>2. ReportInv => LatestServed
  BY <1>1 DEF LatestServed
<1> QED BY <1>2, ReportInvAlways, PTL
=============================================================================
