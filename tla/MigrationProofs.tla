-------------------------- MODULE MigrationProofs --------------------------
(***************************************************************************)
(* Proofs about Migration, for any number of processes, exchanges, rows,   *)
(* names, files and faults and any size of the batches: no record is lost, *)
(* and a database that is served is complete.                              *)
(*                                                                         *)
(* What the columns of an exchange are (module Extract) is left open, and  *)
(* nothing is taken from the verification: the copy is right by itself.    *)
(***************************************************************************)
EXTENDS Migration, FiniteSetTheorems, TLAPS

ProcStates == Migrating \union {"start", "lock", "open", "serving"}
DirType    == [Names -> Inodes \union {0}]
Schemas    == {"Empty", "Legacy", "V7", "V8"}
OldSchemas == {"Legacy", "V7"}

Schema(d) == file[d["active"]].schema

(* What f says of row id is exchange x, in one of the two forms it has in  *)
(* a file of an older version, or in the form of the new one.              *)
Converted(f, id, x) ==
    /\ id \in DOMAIN f.recs /\ id \in DOMAIN f.pays
    /\ f.pays[id] = x
    /\ f.recs[id].cols = {Columns[x]} /\ f.recs[id].timed = Exchanges[x].parsable

Told(f, id, x) ==
    \/ f.schema \in OldSchemas /\ Converted(f, id, x)
    \/ /\ f.schema = "Legacy" /\ id \in DOMAIN f.recs /\ id \notin DOMAIN f.pays
       /\ f.recs[id].body = {x}
    \/ /\ f.schema = "V8" /\ Converted(f, id, x)
       /\ f.recs[id].search = search_text(f.recs[id])

RowFits(r) == r = [body |-> r.body, cols |-> r.cols, search |-> r.search, timed |-> r.timed]

FileFits(f) ==
    /\ f = [schema |-> f.schema, recs |-> f.recs, pays |-> f.pays]
    /\ f.schema \in Schemas
    /\ f.recs = [id \in DOMAIN f.recs |-> f.recs[id]]
    /\ f.pays = [id \in DOMAIN f.pays |-> f.pays[id]]
    /\ DOMAIN f.recs \subseteq Ids /\ DOMAIN f.pays \subseteq DOMAIN f.recs
    /\ \A id \in DOMAIN f.recs : /\ RowFits(f.recs[id])
                                 /\ \E x \in Exch : Told(f, id, x)
    /\ f.schema \in OldSchemas => \E n \in Nat : DOMAIN f.recs = 1..n

FilesFit == file = [i \in Inodes |-> file[i]] /\ \A i \in Inodes : FileFits(file[i])

(* A directory that a power loss may bring back has no artifacts; those    *)
(* there are have files of their own.                                      *)
DirFits ==
    /\ dir \in DirType /\ journal \subseteq DirType
    /\ Drop(dir, Artifacts) \in journal
    /\ \A d \in journal : d["active"] # 0 /\ \A a \in Artifacts : d[a] = 0
    /\ \A a \in Artifacts : dir[a] # 0 => \A d \in journal, n \in Names : d[n] # dir[a]
    /\ dir["stage"] # 0 => dir["stage"] # dir["target"]

(* The database is on the disk, and has every record, in all of them.      *)
Safe ==
    \A d \in journal : /\ d["active"] \in synced
                       /\ \A id \in DOMAIN made : Told(file[d["active"]], id, made[id])

(* Only a database that has been migrated may go back to another file, and *)
(* a new one has no history at all.                                        *)
AgeFits ==
    /\ Schema(dir) # "V8" => \A d \in journal : d["active"] = dir["active"]
    /\ Schema(dir) = "Empty" => /\ \A a \in Artifacts : dir[a] = 0
                                /\ \A d \in journal, b \in Range(Backups) : d[b] = 0
    /\ Schema(dir) # "Empty" => \A d \in journal : Schema(d) # "Empty"
    /\ \A d \in journal, b \in Range(Backups) : d[b] # 0 => file[d[b]].schema # "V8"

OldFits ==
    /\ old \in [inode : Inodes \union {0}, writing : BOOLEAN]
    /\ old.writing => old.inode # 0
    /\ old.inode # 0 => /\ file[old.inode].schema \in OldSchemas
                        /\ \A a \in Artifacts : dir[a] # old.inode

ProcFits ==
    /\ proc \in [Procs -> ProcStates]
    /\ lock \in Procs \union {Nobody}
    /\ reserved # 0 => lock # Nobody
    /\ \A p \in Procs : proc[p] \in Migrating <=> lock = p
    /\ faults \in 0..MaxFaults

(* The copy so far, batch by batch, in the order of the ids.               *)
Copied(from, to) ==
    /\ from.schema = "V7" /\ to.schema = "V8"
    /\ DOMAIN to.recs \subseteq DOMAIN from.recs
    /\ \A id \in DOMAIN from.recs : id \in DOMAIN to.recs \/ \A d \in DOMAIN to.recs : d < id
    /\ \A id \in DOMAIN to.recs : Told(to, id, from.pays[id])

TellsMade(f) == \A id \in DOMAIN made : Told(f, id, made[id])

(* What the migration under way has made of the database, which nobody can *)
(* write to from the snapshot to the rename.                               *)
Phase(p) ==
    /\ proc[p] \in {"lock", "detect"} => Schema(dir) # "Empty"
    /\ proc[p] \in {"snapshot", "reserve", "convert", "copy", "sync", "backup", "rename"} =>
          Schema(dir) \in OldSchemas
    /\ proc[p] \in {"convert", "copy", "sync", "backup", "rename"} =>
          /\ reserved = dir["active"]
          /\ ~(old.writing /\ old.inode = dir["active"])
    /\ proc[p] = "convert" => dir["stage"] # 0 /\ At("stage") = At("active")
    /\ proc[p] = "copy" => /\ dir["stage"] # 0 /\ dir["target"] # 0
                           /\ Copied(At("stage"), At("target"))
                           /\ TellsMade(At("stage"))
    /\ proc[p] \in {"sync", "backup", "rename"} =>
          /\ dir["target"] # 0 /\ At("target").schema = "V8" /\ TellsMade(At("target"))
    /\ proc[p] \in {"backup", "rename"} => dir["target"] \in synced
    /\ proc[p] \in {"sync_parent", "clean"} =>
          /\ Schema(dir) = "V8" /\ dir["target"] = 0
          /\ \A q \in Procs : proc[q] \notin {"open", "serving"}
    /\ proc[p] \in {"open", "serving"} =>
          Schema(dir) \in {"Empty", "V8"} /\ \A a \in Artifacts : dir[a] = 0
    /\ proc[p] = "serving" => Schema(dir) = "V8"

PhaseFits == \A p \in Procs : Phase(p)

IInv == /\ FilesFit /\ DirFits /\ Safe /\ AgeFits /\ OldFits /\ ProcFits /\ PhaseFits

-----------------------------------------------------------------------------
(* The least and the greatest member of a set of numbers, which the model  *)
(* takes with CHOOSE: they exist, since < is well founded on Nat.          *)

LEMMA LeastNatural ==
    ASSUME NEW S, S \subseteq Nat, S # {}
    PROVE  \E m \in S : \A k \in S : m <= k
  <1> DEFINE Below == {p \in Nat \X Nat : p[1] < p[2]}
  <1>1. Below = OpToRel(<, Nat)
    BY DEF OpToRel
  <1>2. IsWellFoundedOn(Below, Nat)
    BY <1>1, NatLessThanWellFounded
  <1>3. \A k, m \in Nat : k < m => <<k, m>> \in Below
    OBVIOUS
  <1> HIDE DEF Below
  <1>4. PICK m \in S : \A k \in S : ~(<<k, m>> \in Below)
    BY <1>2, WFMin
  <1>5. ASSUME NEW k \in S PROVE ~(k < m)
    <2>1. ~(<<k, m>> \in Below)
      BY <1>4
    <2> QED BY <2>1, <1>3
  <1>6. \A k \in S : m <= k
    BY <1>5
  <1> QED BY <1>6

(* The greatest number of a bounded set is as far from the bound as the    *)
(* least distance.                                                         *)
LEMMA GreatestBounded ==
    ASSUME NEW N \in Nat, NEW S, S \subseteq 0..N, S # {}
    PROVE  \E m \in S : \A k \in S : k <= m
  <1> DEFINE T == {N - k : k \in S}
  <1>1. T \subseteq Nat
    <2>1. \A k \in S : N - k \in Nat
      OBVIOUS
    <2> QED BY <2>1
  <1>2. T # {}
    OBVIOUS
  <1>3. PICK t \in T : \A u \in T : t <= u
    BY <1>1, <1>2, LeastNatural
  <1>4. PICK m \in S : t = N - m
    BY <1>3
  <1>5. \A k \in S : k <= m
    BY <1>3, <1>4
  <1> QED BY <1>5

-----------------------------------------------------------------------------
(* Names, files and directories.                                           *)

LEMMA Apart ==
    /\ Names = {"active"} \union Artifacts \union Range(Backups)
    /\ "active" \notin Artifacts /\ Artifacts = {"stage", "target"}
    /\ \A b \in Range(Backups) : b # "active" /\ b \notin Artifacts
  BY MigrationAssumption DEF Names, Artifacts

LEMMA FreshApart ==
    ASSUME DirFits, FreeInodes # {}
    PROVE  /\ FreshInode \in Inodes /\ FreshInode # old.inode /\ FreshInode # 0
           /\ \A n \in Names : dir[n] # FreshInode
           /\ \A d \in journal, n \in Names : d[n] # FreshInode
  <1>1. FreshInode \in FreeInodes
    BY DEF FreshInode
  <1>2. \A d \in DirType, n \in Names : d[n] \in Range(d)
    BY DEF DirType, Range
  <1> QED BY <1>1, <1>2 DEF FreeInodes, DirFits, Inodes

(* Artifacts come and go without a trace in the directories to come back.  *)
LEMMA RelinkArtifacts ==
    ASSUME DirFits, NEW d \in DirType, Relink(d),
           \A n \in Names : n \notin Artifacts => d[n] = dir[n]
    PROVE  dir' = d /\ journal' = journal
  <1>1. Drop(d, Artifacts) = Drop(dir, Artifacts)
    BY DEF Drop
  <1> QED BY <1>1 DEF Relink, DirFits

LEMMA Dropped ==
    ASSUME NEW d \in DirType, NEW names
    PROVE  /\ Drop(d, names) \in DirType
           /\ \A n \in Names : Drop(d, names)[n] = IF n \in names THEN 0 ELSE d[n]
  BY DEF Drop, DirType

LEMMA BackupFree ==
    ASSUME FreeBackups # {}
    PROVE  unique_backup_path \in Range(Backups) /\ dir[unique_backup_path] = 0
  <1>1. FreeBackups \subseteq Nat
    BY MigrationAssumption DEF FreeBackups
  <1>2. PICK m \in FreeBackups : \A k \in FreeBackups : m <= k
    BY <1>1, LeastNatural
  <1>3. Min(FreeBackups) \in FreeBackups
    BY <1>2 DEF Min
  <1> QED BY <1>3 DEF FreeBackups, unique_backup_path, Range

LEMMA DirActive ==
    ASSUME DirFits
    PROVE  /\ dir["active"] \in Inodes /\ dir["active"] # 0
           /\ \A a \in Artifacts : dir[a] # 0 => dir[a] # dir["active"] /\ dir[a] \in Inodes
           /\ \A a \in Artifacts, b \in Range(Backups) : dir[a] # 0 => dir[a] # dir[b]
           /\ \A d \in journal : d["active"] \in Inodes
           /\ \A d \in journal, a \in Artifacts : dir[a] # 0 => dir[a] # d["active"]
  <1>1. Drop(dir, Artifacts) \in journal /\ dir \in DirType /\ journal \subseteq DirType
    BY DEF DirFits
  <1>2. ASSUME NEW n \in Names, n \notin Artifacts
        PROVE  Drop(dir, Artifacts)[n] = dir[n]
    BY <1>1, <1>2, Dropped
  <1>3. "active" \in Names /\ \A b \in Range(Backups) : b \in Names /\ b \notin Artifacts
    BY Apart
  <1>4. Drop(dir, Artifacts)["active"] = dir["active"]
    BY <1>2, Apart
  <1>5. \A b \in Range(Backups) : Drop(dir, Artifacts)[b] = dir[b]
    BY <1>2, <1>3
  <1>6. \A d \in journal : d["active"] \in Inodes /\ d["active"] # 0
    BY <1>1, <1>3 DEF DirFits, DirType
  <1>7. \A a \in Artifacts : dir[a] \in Inodes \union {0}
    BY <1>1, Apart DEF DirType
  <1>8. \A a \in Artifacts : dir[a] # 0 => \A d \in journal, n \in Names : d[n] # dir[a]
    BY DEF DirFits
  <1>9. \A a \in Artifacts : dir[a] # 0 =>
           dir[a] # dir["active"] /\ \A b \in Range(Backups) : dir[a] # dir[b]
    BY <1>1, <1>3, <1>4, <1>5, <1>8
  <1> QED BY <1>1, <1>3, <1>4, <1>6, <1>7, <1>8, <1>9

(* The database of the directory that the programs see.                    *)
LEMMA SafeNow ==
    ASSUME DirFits, Safe
    PROVE  /\ dir["active"] \in synced /\ TellsMade(At("active"))
  <1>1. Drop(dir, Artifacts) \in journal /\ Drop(dir, Artifacts)["active"] = dir["active"]
    BY Dropped, Apart DEF DirFits
  <1> QED BY <1>1 DEF Safe, TellsMade, At

-----------------------------------------------------------------------------
(* Processes.                                                              *)

LEMMA Moves ==
    ASSUME ProcFits, NEW p \in Procs, NEW pc \in ProcStates, Goto(p, pc)
    PROVE  /\ proc' \in [Procs -> ProcStates]
           /\ proc'[p] = pc
           /\ \A q \in Procs : q # p => proc'[q] = proc[q]
  BY DEF ProcFits, Goto

(* A process goes on, and keeps the lock if it had it.                     *)
LEMMA GoesOn ==
    ASSUME ProcFits, NEW p \in Procs, NEW pc \in ProcStates, Goto(p, pc),
           pc \in Migrating <=> proc[p] \in Migrating,
           lock' = lock, reserved' = reserved \/ lock = p, faults' = faults
    PROVE  ProcFits'
  BY Moves, MigrationAssumption DEF ProcFits

LEMMA LetsGo ==
    ASSUME ProcFits, NEW p \in Procs, NEW pc \in ProcStates \ Migrating, Goto(p, pc),
           Release(p), faults' \in 0..MaxFaults
    PROVE  /\ ProcFits'
           /\ lock = p \/ reserved' = reserved
  <1>1. lock = p \/ (lock' = lock /\ reserved' = reserved)
    BY DEF Release
  <1>2. lock = p => lock' = Nobody /\ reserved' = 0
    BY DEF Release
  <1>3. CASE lock = p
    BY <1>2, <1>3, Moves, MigrationAssumption DEF ProcFits
  <1>4. CASE lock # p
    BY <1>1, <1>4, Moves, MigrationAssumption DEF ProcFits
  <1> QED BY <1>1, <1>3, <1>4

(* What the others have come to does not depend on where one of them goes, *)
(* as long as the files stay.                                              *)
LEMMA OthersStay ==
    ASSUME ProcFits, PhaseFits, NEW p \in Procs, NEW pc \in ProcStates, Goto(p, pc),
           UNCHANGED <<dir, file, synced, old, made>>,
           reserved' = reserved \/ lock = p,
           pc \in {"open", "serving"} =>
              lock = p \/ proc[p] = "open" \/ Schema(dir) # "V8",
           NEW q \in Procs, q # p
    PROVE  Phase(q)'
  <1>1. proc'[q] = proc[q] /\ Phase(q)
    BY Moves DEF PhaseFits
  <1>2. proc[q] \in Migrating => lock # p
    BY DEF ProcFits
  <1>3. proc[q] \in Migrating => reserved' = reserved
    BY <1>2
  <1>4. Schema(dir)' = Schema(dir) /\ \A n \in Names : At(n)' = At(n)
    BY DEF Schema, At
  <1>5. ASSUME proc[q] \in {"sync_parent", "clean"}
        PROVE  \A r \in Procs : proc'[r] \notin {"open", "serving"}
    <2>1. Schema(dir) = "V8" /\ \A r \in Procs : proc[r] \notin {"open", "serving"}
      BY <1>1, <1>5 DEF Phase
    <2>2. lock # p
      BY <1>2, <1>5 DEF Migrating
    <2> QED BY <2>1, <2>2, Moves
  <1> QED BY <1>1, <1>3, <1>4, <1>5 DEF Phase, Migrating, At, Schema, TellsMade

-----------------------------------------------------------------------------
(* The copy.                                                               *)

Left(from, to) == {id \in DOMAIN from.recs : \A d \in DOMAIN to.recs : d < id}

LEMMA NextBatch ==
    ASSUME NEW from, NEW to, DOMAIN from.recs \subseteq Ids
    PROVE  /\ NextIds(from, to) \subseteq Left(from, to)
           /\ Left(from, to) # {} => NextIds(from, to) # {}
           /\ \A id \in Left(from, to), j \in NextIds(from, to) :
                 id < j => id \in NextIds(from, to)
  <1> DEFINE L == Left(from, to)
             Before(id) == {i \in L : i < id}
  <1>1. NextIds(from, to) = {id \in L : Cardinality(Before(id)) < Batch}
    BY DEF NextIds, Left
  <1>2. L \subseteq Ids /\ L \subseteq Nat /\ Batch \in Nat \ {0}
    BY MigrationAssumption DEF Left, Ids
  <1>3. IsFiniteSet(Ids)
    BY FS_Interval, MigrationAssumption DEF Ids
  <1> HIDE DEF L
  <1>4. ASSUME L # {} PROVE NextIds(from, to) # {}
    <2>1. PICK m \in L : \A k \in L : m <= k
      BY <1>2, <1>4, LeastNatural
    <2>2. Before(m) = {}
      <3>1. ASSUME NEW i \in L PROVE ~(i < m)
        <4>1. i \in Int /\ m \in Int /\ m <= i
          BY <1>2, <2>1
        <4> QED BY <4>1
      <3> QED BY <3>1
    <2>3. Cardinality(Before(m)) = 0
      BY <2>2, FS_EmptySet
    <2> QED BY <1>1, <1>2, <2>1, <2>3
  <1>5. ASSUME NEW id \in L, NEW j \in NextIds(from, to), id < j
        PROVE  id \in NextIds(from, to)
    <2>1. j \in L /\ Cardinality(Before(j)) < Batch
      BY <1>1
    <2>2. Before(id) \subseteq Before(j) /\ Before(j) \subseteq Ids
      <3>1. ASSUME NEW i \in L, i < id PROVE i < j
        <4>1. i \in Int /\ id \in Int /\ j \in Int
          BY <1>2, <2>1
        <4> QED BY <1>5, <3>1, <4>1
      <3> QED BY <1>2, <3>1
    <2>3. IsFiniteSet(Before(j))
      BY <1>3, <2>2, FS_Subset
    <2>4. /\ Cardinality(Before(id)) <= Cardinality(Before(j))
          /\ Cardinality(Before(id)) \in Nat /\ Cardinality(Before(j)) \in Nat
      BY <2>2, <2>3, FS_Subset, FS_CardinalityType
    <2>5. Cardinality(Before(id)) < Batch
      BY <1>2, <2>1, <2>4
    <2> QED BY <1>1, <2>5
  <1> QED BY <1>1, <1>4, <1>5 DEF L

LEMMA CopyDone ==
    ASSUME FileFits(At("stage")), Copied(At("stage"), At("target")),
           TellsMade(At("stage")), NextIds(At("stage"), At("target")) = {}
    PROVE  TellsMade(At("target"))
  <1> DEFINE from == At("stage")
             to == At("target")
  <1>1. Left(from, to) = {}
    BY NextBatch DEF FileFits
  <1>2. \A id \in DOMAIN from.recs : id \in DOMAIN to.recs
    BY <1>1 DEF Copied, Left
  <1>3. ASSUME NEW id \in DOMAIN made PROVE Told(to, id, made[id])
    <2>1. id \in DOMAIN from.recs /\ from.pays[id] = made[id]
      BY DEF TellsMade, Told, Converted, Copied
    <2> QED BY <1>2, <2>1 DEF Copied
  <1> QED BY <1>3 DEF TellsMade

-----------------------------------------------------------------------------
(* Steps that leave the disk as it is.                                     *)

Turn(p) == Probe(p) \/ AcquireLock(p) \/ LockTimeout(p) \/ LeaveWal(p) \/ Verify(p)
              \/ WalBusy(p) \/ SnapshotBusy(p) \/ NotDrained(p) \/ Fail(p)

LEMMA StillDisk ==
    ASSUME UNCHANGED <<dir, journal, file, synced, old, made>>
    PROVE  /\ FilesFit => FilesFit'
           /\ DirFits => DirFits'
           /\ Safe => Safe'
           /\ AgeFits => AgeFits'
           /\ OldFits => OldFits'
  <1>1. FilesFit => FilesFit'
    BY DEF FilesFit, FileFits, Told, Converted
  <1>2. DirFits => DirFits'
    BY DEF DirFits
  <1>3. Safe => Safe'
    BY DEF Safe, Told, Converted
  <1>4. AgeFits => AgeFits'
    BY DEF AgeFits, Schema
  <1>5. OldFits => OldFits'
    BY DEF OldFits
  <1> QED BY <1>1, <1>2, <1>3, <1>4, <1>5

LEMMA TurnKeeps == ASSUME IInv, NEW p \in Procs, Turn(p) PROVE IInv'
  <1>0. FilesFit /\ DirFits /\ Safe /\ AgeFits /\ OldFits /\ ProcFits /\ PhaseFits
    BY DEF IInv
  <1>1. UNCHANGED <<dir, journal, file, synced, old, made>>
    BY DEF Turn, Probe, AcquireLock, LockTimeout, LeaveWal, Verify, WalBusy, SnapshotBusy,
           NotDrained, Fail
  <1>2. FilesFit' /\ DirFits' /\ Safe' /\ AgeFits' /\ OldFits'
    BY <1>0, <1>1, StillDisk
  <1>3. SUFFICES ProcFits' /\ PhaseFits'
    BY <1>2 DEF IInv
  <1>4. SUFFICES \E pc \in ProcStates :
                    /\ ProcFits' /\ Goto(p, pc) /\ (reserved' = reserved \/ lock = p)
                    /\ pc \in {"open", "serving"} => Schema(dir) # "V8"
                    /\ Phase(p)'
    BY <1>0, <1>1, OthersStay DEF PhaseFits
  <1>5. Schema(dir)' = Schema(dir) /\ \A n \in Names : At(n)' = At(n)
    BY <1>1 DEF Schema, At
  <1>6. Phase(p) /\ proc[p] \in ProcStates
    BY <1>0 DEF PhaseFits, ProcFits
  <1>7. CASE Probe(p)
    <2> DEFINE pc == IF detect_schema("active") = "Empty" THEN "open" ELSE "lock"
    <2>1. Goto(p, pc) /\ lock' = lock /\ reserved' = reserved /\ faults' = faults
          /\ proc[p] = "start"
      BY <1>7 DEF Probe
    <2>2. pc \in ProcStates \ Migrating /\ proc[p] \notin Migrating
      BY <2>1 DEF ProcStates, Migrating
    <2>3. detect_schema("active") = Schema(dir)
      BY <1>0, DirActive DEF detect_schema, Schema, At
    <2>4. ProcFits' /\ proc'[p] = pc
      BY <1>0, <2>1, <2>2, GoesOn, Moves
    <2>5. pc = "open" => Schema(dir) = "Empty" /\ \A a \in Artifacts : dir[a] = 0
      BY <1>0, <2>3 DEF AgeFits
    <2>6. Phase(p)'
      BY <1>1, <1>5, <2>3, <2>4, <2>5 DEF Phase
    <2> QED BY <2>1, <2>2, <2>4, <2>5, <2>6
  <1>8. CASE AcquireLock(p)
    <2>1. Goto(p, "detect") /\ proc[p] = "lock" /\ lock = Nobody /\ lock' = p
          /\ reserved' = reserved /\ faults' = faults
      BY <1>8 DEF AcquireLock
    <2>2. "detect" \in ProcStates /\ "detect" \in Migrating
      BY DEF ProcStates, Migrating
    <2>3. /\ proc' \in [Procs -> ProcStates] /\ proc'[p] = "detect"
          /\ \A q \in Procs : q # p => proc'[q] = proc[q]
      BY <1>0, <2>1, <2>2, Moves
    <2>4. ProcFits'
      BY <1>0, <2>1, <2>2, <2>3, MigrationAssumption DEF ProcFits
    <2>5. Phase(p)'
      BY <1>5, <1>6, <2>1, <2>3 DEF Phase
    <2> QED BY <2>1, <2>2, <2>4, <2>5
  <1>9. CASE LockTimeout(p)
    <2>1. Goto(p, "start") /\ proc[p] = "lock" /\ lock' = lock /\ reserved' = reserved
          /\ faults' = faults
      BY <1>9 DEF LockTimeout
    <2>2. "start" \in ProcStates \ Migrating /\ proc[p] \notin Migrating
      BY <2>1 DEF ProcStates, Migrating
    <2>3. ProcFits' /\ proc'[p] = "start"
      BY <1>0, <2>1, <2>2, GoesOn, Moves
    <2>4. Phase(p)'
      BY <2>3 DEF Phase
    <2> QED BY <2>1, <2>2, <2>3, <2>4
  <1>10. CASE /\ Goto(p, "start") /\ Release(p)
              /\ faults' \in 0..MaxFaults
    <2>1. "start" \in ProcStates \ Migrating
      BY DEF ProcStates, Migrating
    <2>2. ProcFits' /\ proc'[p] = "start" /\ (reserved' = reserved \/ lock = p)
      BY <1>0, <1>10, <2>1, LetsGo, Moves
    <2>3. Phase(p)'
      BY <2>2 DEF Phase
    <2> QED BY <1>10, <2>1, <2>2, <2>3
  <1>11. CASE WalBusy(p) \/ SnapshotBusy(p) \/ NotDrained(p) \/ Fail(p)
    <2>1. Goto(p, "start") /\ Release(p) /\ faults' \in 0..MaxFaults
      BY <1>0, <1>11, MigrationAssumption
         DEF WalBusy, SnapshotBusy, NotDrained, Fail, ProcFits
    <2> QED BY <1>10, <2>1
  <1>12. CASE Verify(p)
    <2>1. proc[p] = "copy" /\ NextIds(At("stage"), At("target")) = {} /\ faults' = faults
      BY <1>12 DEF Verify
    <2>2. CASE Goto(p, "start") /\ Release(p)
      BY <1>0, <1>10, <2>1, <2>2 DEF ProcFits
    <2>3. CASE Goto(p, "sync") /\ UNCHANGED <<lock, reserved>>
      <3>1. "sync" \in ProcStates /\ "sync" \in Migrating /\ "copy" \in Migrating
        BY DEF ProcStates, Migrating
      <3>2. ProcFits' /\ proc'[p] = "sync"
        BY <1>0, <2>1, <2>3, <3>1, GoesOn, Moves
      <3>3. /\ Schema(dir) \in OldSchemas /\ reserved = dir["active"]
            /\ ~(old.writing /\ old.inode = dir["active"])
            /\ dir["stage"] # 0 /\ dir["target"] # 0
            /\ Copied(At("stage"), At("target")) /\ TellsMade(At("stage"))
        BY <1>6, <2>1 DEF Phase
      <3>4. FileFits(At("stage"))
        BY <1>0, <3>3, DirActive, Apart DEF FilesFit, At
      <3>5. TellsMade(At("target"))
        BY <2>1, <3>3, <3>4, CopyDone
      <3>6. TellsMade(At("target"))'
        BY <1>1, <3>5 DEF TellsMade, At, Told, Converted
      <3>7. At("target").schema = "V8"
        BY <3>3 DEF Copied
      <3>8. Phase(p)'
        BY <1>1, <1>5, <2>3, <3>2, <3>3, <3>6, <3>7, Apart DEF Phase
      <3> QED BY <2>3, <3>1, <3>2, <3>8
    <2> QED BY <1>12, <2>2, <2>3 DEF Verify
  <1>13. CASE LeaveWal(p)
    <2>1. Goto(p, "reserve") /\ proc[p] = "snapshot" /\ lock' = lock /\ reserved' = reserved
          /\ faults' = faults
      BY <1>13 DEF LeaveWal
    <2>2. "reserve" \in ProcStates /\ "reserve" \in Migrating /\ "snapshot" \in Migrating
      BY DEF ProcStates, Migrating
    <2>3. ProcFits' /\ proc'[p] = "reserve"
      BY <1>0, <2>1, <2>2, GoesOn, Moves
    <2>4. Phase(p)'
      BY <1>5, <1>6, <2>1, <2>3 DEF Phase
    <2> QED BY <2>1, <2>2, <2>3, <2>4
  <1> QED BY <1>7, <1>8, <1>9, <1>11, <1>12, <1>13 DEF Turn

-----------------------------------------------------------------------------
(* Steps of a migration that write no file a power loss may bring back, or *)
(* that an older program has open.                                         *)

Aside(I) ==
    /\ I \subseteq Inodes
    /\ \A i \in I : i # old.inode /\ \A d \in journal, n \in Names : d[n] # i
    /\ file' = [j \in Inodes |-> file'[j]]
    /\ \A j \in Inodes \ I : file'[j] = file[j]
    /\ \A i \in I : FileFits(file'[i])
    /\ synced \ I \subseteq synced'
    /\ UNCHANGED <<journal, old, made>>
    /\ dir' \in DirType
    /\ \A n \in Names : n \notin Artifacts => dir'[n] = dir[n]

LEMMA AsideKeeps ==
    ASSUME FilesFit, DirFits, Safe, AgeFits, OldFits, Schema(dir) # "Empty", NEW I, Aside(I)
    PROVE  /\ FilesFit' /\ Safe' /\ AgeFits'
           /\ Schema(dir)' = Schema(dir) /\ At("active")' = At("active")
           /\ dir'["active"] = dir["active"]
           /\ old.inode # 0 => file'[old.inode] \in {file[old.inode]}
  <1> USE DEF Aside
  <1>1. FilesFit'
    BY DEF FilesFit
  <1>2. dir'["active"] = dir["active"] /\ "active" \in Names
    BY Apart
  <1>3. \A d \in journal, n \in Names : d[n] # 0 => d[n] \in Inodes \ I
    BY DEF DirFits, DirType
  <1>4. \A d \in journal : d["active"] \in Inodes \ I
    BY <1>2, <1>3, DirActive
  <1>5. Drop(dir, Artifacts) \in journal /\ Drop(dir, Artifacts)["active"] = dir["active"]
    BY <1>2, Dropped, Apart DEF DirFits
  <1>6. dir["active"] \in Inodes \ I
    BY <1>4, <1>5
  <1>7. Schema(dir)' = Schema(dir) /\ At("active")' = At("active")
    BY <1>2, <1>6 DEF Schema, At
  <1>8. \A d \in journal : Schema(d)' = file[d["active"]].schema
    BY <1>4 DEF Schema
  <1>9. Safe'
    BY <1>4 DEF Safe
  <1>10. \A d \in journal, b \in Range(Backups) : d[b] # 0 => file'[d[b]] = file[d[b]]
    BY <1>3, Apart
  <1>11. AgeFits'
    <2>1. (Schema(dir) # "V8" => \A d \in journal : d["active"] = dir["active"])'
      BY <1>2, <1>7 DEF AgeFits
    <2>2. (Schema(dir) = "Empty" => /\ \A a \in Artifacts : dir[a] = 0
                                    /\ \A d \in journal, b \in Range(Backups) : d[b] = 0)'
      BY <1>7
    <2>3. (Schema(dir) # "Empty" => \A d \in journal : Schema(d) # "Empty")'
      BY <1>4, <1>7 DEF AgeFits, Schema
    <2>4. (\A d \in journal, b \in Range(Backups) : d[b] # 0 => file[d[b]].schema # "V8")'
      BY <1>10 DEF AgeFits
    <2> QED BY <2>1, <2>2, <2>3, <2>4 DEF AgeFits
  <1>12. old.inode # 0 => file'[old.inode] = file[old.inode]
    <2>1. old.inode # 0 => old.inode \in Inodes
      BY DEF OldFits
    <2> QED BY <2>1
  <1> QED BY <1>1, <1>2, <1>7, <1>9, <1>11, <1>12

(* Those without the lock are not concerned.                               *)
LEMMA OthersWait ==
    ASSUME ProcFits, PhaseFits, NEW p \in Procs, lock = p, Schema(dir)' = Schema(dir),
           \/ Schema(dir) \in OldSchemas
           \/ \A a \in Artifacts : dir'[a] = 0 \/ dir'[a] = dir[a],
           NEW q \in Procs, q # p, proc'[q] = proc[q]
    PROVE  Phase(q)'
  <1>1. proc[q] \notin Migrating /\ Phase(q)
    BY DEF ProcFits, PhaseFits
  <1>2. proc[q] \in {"open", "serving"} =>
           /\ Schema(dir) \in {"Empty", "V8"} /\ \A a \in Artifacts : dir[a] = 0
    BY <1>1 DEF Phase
  <1>3. proc[q] = "lock" => Schema(dir) # "Empty"
    BY <1>1 DEF Phase
  <1> QED BY <1>1, <1>2, <1>3 DEF Phase, Migrating, OldSchemas

LEMMA SchemaNow ==
    ASSUME DirFits, FilesFit
    PROVE  /\ detect_schema("active") = Schema(dir)
           /\ At("active").schema = Schema(dir) /\ FileFits(At("active"))
           /\ Schema(dir) \in Schemas
  BY DirActive DEF detect_schema, Schema, At, FilesFit, FileFits

LEMMA DetectKeeps == ASSUME IInv, NEW p \in Procs, Detect(p) PROVE IInv'
  <1>0. FilesFit /\ DirFits /\ Safe /\ AgeFits /\ OldFits /\ ProcFits /\ PhaseFits
    BY DEF IInv
  <1>1. /\ proc[p] = "detect" /\ Relink(Drop(dir, Artifacts))
        /\ UNCHANGED <<file, synced, old, made, faults>>
        /\ IF Schema(dir) = "V8" THEN Goto(p, "open") /\ Release(p)
           ELSE Goto(p, "snapshot") /\ UNCHANGED <<lock, reserved>>
    BY <1>0, SchemaNow DEF Detect
  <1>2. "detect" \in Migrating /\ "snapshot" \in Migrating /\ "snapshot" \in ProcStates
        /\ "open" \in ProcStates \ Migrating
    BY DEF Migrating, ProcStates
  <1>3. lock = p /\ Schema(dir) # "Empty"
    BY <1>0, <1>1, <1>2 DEF ProcFits, PhaseFits, Phase
  <1>4. /\ dir' = Drop(dir, Artifacts) /\ journal' = journal /\ dir' \in DirType
        /\ \A a \in Artifacts : dir'[a] = 0
        /\ \A n \in Names : n \notin Artifacts => dir'[n] = dir[n]
    BY <1>0, <1>1, RelinkArtifacts, Dropped, Apart DEF DirFits
  <1>5. Aside({})
    BY <1>0, <1>1, <1>4 DEF Aside, FilesFit
  <1>6. FilesFit' /\ Safe' /\ AgeFits' /\ Schema(dir)' = Schema(dir)
    BY <1>0, <1>3, <1>5, AsideKeeps
  <1>7. DirFits'
    <2>1. Drop(dir', Artifacts) = Drop(dir, Artifacts)
      BY <1>4 DEF Drop
    <2> QED BY <1>0, <1>4, <2>1, Apart DEF DirFits
  <1>8. OldFits'
    BY <1>0, <1>1, <1>4 DEF OldFits
  <1>9. ProcFits' /\ proc'[p] \in {"open", "snapshot"}
        /\ (proc'[p] = "open" => Schema(dir) = "V8")
        /\ (proc'[p] = "snapshot" => Schema(dir) # "V8")
        /\ \A q \in Procs : q # p => proc'[q] = proc[q]
    <2>1. CASE Schema(dir) = "V8"
      <3>1. Goto(p, "open") /\ Release(p) /\ faults' \in 0..MaxFaults
        BY <1>0, <1>1, <2>1 DEF ProcFits
      <3> QED BY <1>0, <1>2, <2>1, <3>1, LetsGo, Moves
    <2>2. CASE Schema(dir) # "V8"
      <3>1. Goto(p, "snapshot") /\ UNCHANGED <<lock, reserved, faults>>
        BY <1>1, <2>2
      <3> QED BY <1>0, <1>1, <1>2, <2>2, <3>1, GoesOn, Moves
    <2> QED BY <2>1, <2>2
  <1>10. Phase(p)'
    BY <1>0, <1>3, <1>4, <1>6, <1>9, SchemaNow DEF Phase, Schemas, OldSchemas
  <1>11. PhaseFits'
    BY <1>0, <1>3, <1>4, <1>6, <1>9, <1>10, OthersWait DEF PhaseFits
  <1> QED BY <1>6, <1>7, <1>8, <1>9, <1>11 DEF IInv

LEMMA CleanKeeps == ASSUME IInv, NEW p \in Procs, Clean(p) PROVE IInv'
  <1>0. FilesFit /\ DirFits /\ Safe /\ AgeFits /\ OldFits /\ ProcFits /\ PhaseFits
    BY DEF IInv
  <1>1. /\ proc[p] = "clean" /\ Relink(Drop(dir, {"stage"}))
        /\ UNCHANGED <<file, synced, old, made, faults>>
        /\ Goto(p, "open") /\ Release(p)
    BY DEF Clean
  <1>2. "clean" \in Migrating /\ "open" \in ProcStates \ Migrating
    BY DEF Migrating, ProcStates
  <1>3. lock = p /\ Schema(dir) = "V8" /\ dir["target"] = 0
    BY <1>0, <1>1, <1>2 DEF ProcFits, PhaseFits, Phase
  <1>4. /\ dir' = Drop(dir, {"stage"}) /\ journal' = journal /\ dir' \in DirType
        /\ \A n \in Names : n \notin Artifacts => dir'[n] = dir[n]
    BY <1>0, <1>1, RelinkArtifacts, Dropped, Apart DEF DirFits
  <1>5. \A a \in Artifacts : dir'[a] = 0
    BY <1>0, <1>3, <1>4, Dropped, Apart DEF DirFits
  <1>6. Aside({})
    BY <1>0, <1>1, <1>4 DEF Aside, FilesFit
  <1>7. FilesFit' /\ Safe' /\ AgeFits' /\ Schema(dir)' = Schema(dir)
    BY <1>0, <1>3, <1>6, AsideKeeps
  <1>8. DirFits'
    <2>1. Drop(dir', Artifacts) = Drop(dir, Artifacts)
      BY <1>4 DEF Drop
    <2> QED BY <1>0, <1>4, <1>5, <2>1, Apart DEF DirFits
  <1>9. OldFits'
    BY <1>0, <1>1, <1>5 DEF OldFits
  <1>10. ProcFits' /\ proc'[p] = "open" /\ \A q \in Procs : q # p => proc'[q] = proc[q]
    BY <1>0, <1>1, <1>2, LetsGo, Moves DEF ProcFits
  <1>11. Phase(p)'
    BY <1>3, <1>5, <1>7, <1>10 DEF Phase
  <1>12. PhaseFits'
    BY <1>0, <1>3, <1>5, <1>7, <1>10, <1>11, OthersWait DEF PhaseFits
  <1> QED BY <1>7, <1>8, <1>9, <1>10, <1>12 DEF IInv

LEMMA SyncTargetKeeps == ASSUME IInv, NEW p \in Procs, SyncTarget(p) PROVE IInv'
  <1>0. FilesFit /\ DirFits /\ Safe /\ AgeFits /\ OldFits /\ ProcFits /\ PhaseFits
    BY DEF IInv
  <1>1. /\ proc[p] = "sync" /\ synced' = synced \union {dir["target"]}
        /\ Goto(p, "backup")
        /\ UNCHANGED <<dir, journal, file, lock, reserved, old, made, faults>>
    BY DEF SyncTarget
  <1>2. "sync" \in Migrating /\ "backup" \in Migrating /\ "backup" \in ProcStates
    BY DEF Migrating, ProcStates
  <1>3. lock = p /\ Phase(p)
    BY <1>0, <1>1, <1>2 DEF ProcFits, PhaseFits
  <1>4. Schema(dir) \in OldSchemas
    BY <1>1, <1>3 DEF Phase
  <1>5. Aside({})
    BY <1>0, <1>1 DEF Aside, FilesFit, DirFits
  <1>6. FilesFit' /\ Safe' /\ AgeFits' /\ Schema(dir)' = Schema(dir)
    BY <1>0, <1>4, <1>5, AsideKeeps DEF OldSchemas
  <1>7. DirFits' /\ OldFits'
    BY <1>0, <1>1 DEF DirFits, OldFits
  <1>8. ProcFits' /\ proc'[p] = "backup" /\ \A q \in Procs : q # p => proc'[q] = proc[q]
    BY <1>0, <1>1, <1>2, GoesOn, Moves
  <1>9. At("target")' = At("target") /\ (TellsMade(At("target")) => TellsMade(At("target"))')
    BY <1>1 DEF TellsMade, At
  <1>10. Phase(p)'
    BY <1>1, <1>3, <1>6, <1>8, <1>9 DEF Phase
  <1>11. PhaseFits'
    BY <1>0, <1>3, <1>4, <1>6, <1>8, <1>10, OthersWait DEF PhaseFits
  <1> QED BY <1>6, <1>7, <1>8, <1>11 DEF IInv

-----------------------------------------------------------------------------
(* What the conversion and the copy make of a file.                        *)

LEMMA NewFits == FileFits(Empty) /\ FileFits([Empty EXCEPT !.schema = "V8"])
  <1> DEFINE f == [schema |-> "V8", recs |-> <<>>, pays |-> <<>>]
  <1>1. [Empty EXCEPT !.schema = "V8"] = f
    BY DEF Empty
  <1>2. <<>> = [id \in {} |-> <<>>[id]] /\ DOMAIN <<>> = {}
    OBVIOUS
  <1>3. FileFits(f)
    BY <1>2 DEF FileFits, Schemas, OldSchemas
  <1>4. FileFits(Empty)
    BY <1>2 DEF FileFits, Schemas, OldSchemas, Empty
  <1> QED BY <1>1, <1>3, <1>4

LEMMA ConversionKeeps ==
    ASSUME NEW f, FileFits(f), f.schema = "Legacy"
    PROVE  /\ FileFits(migrate_archive(f)) /\ migrate_archive(f).schema = "V7"
           /\ \A id \in DOMAIN f.recs, x \in Exch :
                 Told(f, id, x) => Told(migrate_archive(f), id, x)
  <1> DEFINE body(id) == CHOOSE x \in f.recs[id].body : TRUE
             recs == [id \in DOMAIN f.recs |->
                        IF id \in DOMAIN f.pays THEN [f.recs[id] EXCEPT !.body = {}]
                        ELSE Extracted(body(id))]
             pays == [id \in DOMAIN f.recs |->
                        IF id \in DOMAIN f.pays THEN f.pays[id] ELSE body(id)]
             g == [schema |-> "V7", recs |-> recs, pays |-> pays]
  <1>1. migrate_archive(f) = g
    BY DEF migrate_archive
  <1>2. /\ DOMAIN f.recs \subseteq Ids
        /\ \A id \in DOMAIN f.recs : RowFits(f.recs[id]) /\ \E x \in Exch : Told(f, id, x)
        /\ \E n \in Nat : DOMAIN f.recs = 1..n
    BY DEF FileFits, OldSchemas
  <1>3. ASSUME NEW id \in DOMAIN f.recs, NEW x \in Exch, Told(f, id, x)
        PROVE  Told(g, id, x)
    <2>1. CASE id \in DOMAIN f.pays
      <3>1. /\ f.pays[id] = x
            /\ f.recs[id].cols = {Columns[x]} /\ f.recs[id].timed = Exchanges[x].parsable
        BY <1>3, <2>1 DEF Told, Converted
      <3>2. f.recs[id] = [body |-> f.recs[id].body, cols |-> f.recs[id].cols,
                          search |-> f.recs[id].search, timed |-> f.recs[id].timed]
        BY <1>2 DEF RowFits
      <3>3. recs[id] = [f.recs[id] EXCEPT !.body = {}] /\ pays[id] = x
        BY <2>1, <3>1
      <3>4. recs[id].cols = f.recs[id].cols /\ recs[id].timed = f.recs[id].timed
        BY <3>2, <3>3
      <3> QED BY <3>1, <3>3, <3>4 DEF Told, Converted, OldSchemas
    <2>2. CASE id \notin DOMAIN f.pays
      <3>1. f.recs[id].body = {x}
        BY <1>3, <2>2 DEF Told, Converted
      <3>2. body(id) = x
        BY <3>1
      <3>3. recs[id] = Extracted(x) /\ pays[id] = x
        BY <2>2, <3>2
      <3> QED BY <3>3 DEF Told, Converted, OldSchemas, Extracted
    <2> QED BY <2>1, <2>2
  <1>4. \A id \in DOMAIN f.recs : RowFits(recs[id])
    <2> SUFFICES ASSUME NEW id \in DOMAIN f.recs PROVE RowFits(recs[id])
      OBVIOUS
    <2>1. CASE id \in DOMAIN f.pays
      <3>1. f.recs[id] = [body |-> f.recs[id].body, cols |-> f.recs[id].cols,
                          search |-> f.recs[id].search, timed |-> f.recs[id].timed]
        BY <1>2 DEF RowFits
      <3>2. recs[id] = [body |-> {}, cols |-> f.recs[id].cols,
                        search |-> f.recs[id].search, timed |-> f.recs[id].timed]
        BY <2>1, <3>1
      <3> QED BY <3>2 DEF RowFits
    <2>2. CASE id \notin DOMAIN f.pays
      BY <2>2 DEF RowFits, Extracted
    <2> QED BY <2>1, <2>2
  <1>5. \A id \in DOMAIN f.recs : \E x \in Exch : Told(g, id, x)
    BY <1>2, <1>3
  <1>6. DOMAIN recs = DOMAIN f.recs /\ DOMAIN pays = DOMAIN f.recs
    OBVIOUS
  <1>7. recs = [id \in DOMAIN recs |-> recs[id]] /\ pays = [id \in DOMAIN pays |-> pays[id]]
    OBVIOUS
  <1> HIDE DEF recs, pays
  <1>8. FileFits(g)
    BY <1>2, <1>4, <1>5, <1>6, <1>7 DEF FileFits, Schemas
  <1> QED BY <1>1, <1>3, <1>8

LEMMA BatchCopied ==
    ASSUME NEW from, NEW to, FileFits(from), FileFits(to), Copied(from, to),
           NextIds(from, to) # {}
    PROVE  FileFits(CopyBatch(from, to)) /\ Copied(from, CopyBatch(from, to))
  <1> DEFINE ids == NextIds(from, to)
             range == {id \in DOMAIN from.pays : /\ \A d \in DOMAIN to.recs : d < id
                                                 /\ id <= Max(ids)}
             recs == [id \in DOMAIN to.recs \union ids |->
                        IF id \in ids
                        THEN [from.recs[id] EXCEPT !.search = search_text(from.recs[id])]
                        ELSE to.recs[id]]
             pays == [id \in DOMAIN to.pays \union range |-> from.pays[id]]
             g == [schema |-> "V8", recs |-> recs, pays |-> pays]
  <1>1. CopyBatch(from, to) = g
    BY DEF CopyBatch
  <1>2. /\ DOMAIN from.recs \subseteq Ids /\ DOMAIN to.recs \subseteq DOMAIN from.recs
        /\ DOMAIN to.pays \subseteq DOMAIN to.recs
        /\ DOMAIN from.pays \subseteq DOMAIN from.recs
        /\ Ids \subseteq Int /\ MaxRows \in Nat /\ Ids = 1..MaxRows
    BY MigrationAssumption DEF FileFits, Copied, Ids
  <1>3. /\ ids \subseteq Left(from, to) /\ ids # {}
        /\ \A id \in Left(from, to), j \in ids : id < j => id \in ids
    BY <1>2, NextBatch
  <1>4. /\ Left(from, to) \subseteq DOMAIN from.recs
        /\ \A id \in Left(from, to) : \A d \in DOMAIN to.recs : d < id
        /\ \A id \in DOMAIN from.recs : (\A d \in DOMAIN to.recs : d < id) => id \in Left(from, to)
    BY DEF Left
  <1>5. Max(ids) \in ids /\ \A k \in ids : k <= Max(ids)
    <2>1. ids \subseteq 0..MaxRows
      BY <1>2, <1>3, <1>4
    <2>2. PICK m \in ids : \A k \in ids : k <= m
      BY <1>2, <1>3, <2>1, GreatestBounded
    <2> QED BY <2>2 DEF Max
  <1> HIDE DEF ids
  <1>6. \A id \in DOMAIN from.pays : id \in range <=> id \in ids
    <2>1. ASSUME NEW id \in ids PROVE (\A d \in DOMAIN to.recs : d < id) /\ id <= Max(ids)
      BY <1>3, <1>4, <1>5
    <2>2. ASSUME NEW id \in DOMAIN from.pays, \A d \in DOMAIN to.recs : d < id, id <= Max(ids)
          PROVE  id \in ids
      <3>1. id \in Left(from, to) /\ id \in Int /\ Max(ids) \in Int
        BY <1>2, <1>3, <1>4, <1>5, <2>2
      <3> QED BY <1>3, <1>5, <2>2, <3>1
    <2> QED BY <2>1, <2>2
  <1>7. range \subseteq DOMAIN from.pays
    OBVIOUS
  <1> HIDE DEF range
  <1>8. \A id \in DOMAIN from.recs : /\ RowFits(from.recs[id])
                                     /\ id \in DOMAIN from.pays
                                     /\ from.pays[id] \in Exch
                                     /\ Told(from, id, from.pays[id])
    BY DEF FileFits, Told, Converted, Copied
  <1>9. \A id \in ids : id \in DOMAIN from.recs /\ id \in range
    BY <1>3, <1>4, <1>6, <1>8
  <1>10. DOMAIN recs = DOMAIN to.recs \union ids /\ DOMAIN pays = DOMAIN to.pays \union range
    OBVIOUS
  <1>11. ASSUME NEW id \in ids
         PROVE  RowFits(recs[id]) /\ Told(g, id, from.pays[id])
    <2>1. recs[id] = [from.recs[id] EXCEPT !.search = search_text(from.recs[id])]
      OBVIOUS
    <2>2. from.recs[id] = [body |-> from.recs[id].body, cols |-> from.recs[id].cols,
                           search |-> from.recs[id].search, timed |-> from.recs[id].timed]
      BY <1>8, <1>9 DEF RowFits
    <2>3. recs[id] = [body |-> from.recs[id].body, cols |-> from.recs[id].cols,
                      search |-> search_text(from.recs[id]), timed |-> from.recs[id].timed]
      BY <2>1, <2>2
    <2>4. search_text(recs[id]) = search_text(from.recs[id])
      BY <2>3 DEF search_text
    <2>5. recs[id].cols = from.recs[id].cols /\ recs[id].timed = from.recs[id].timed
          /\ recs[id].search = search_text(recs[id]) /\ RowFits(recs[id])
      BY <2>3, <2>4 DEF RowFits
    <2>6. id \in DOMAIN recs /\ id \in DOMAIN pays /\ pays[id] = from.pays[id]
      BY <1>9, <1>10
    <2>7. /\ from.recs[id].cols = {Columns[from.pays[id]]}
          /\ from.recs[id].timed = Exchanges[from.pays[id]].parsable
      BY <1>8, <1>9 DEF Told, Converted, Copied
    <2> HIDE DEF recs, pays
    <2>8. Converted(g, id, from.pays[id]) /\ g.recs[id].search = search_text(g.recs[id])
      BY <2>5, <2>6, <2>7 DEF Converted
    <2> QED BY <2>5, <2>8 DEF Told
  <1>12. ASSUME NEW id \in DOMAIN to.recs, id \notin ids
         PROVE  RowFits(recs[id]) /\ Told(g, id, from.pays[id])
    <2>1. recs[id] = to.recs[id] /\ id \in DOMAIN recs
      BY <1>12
    <2>2. Told(to, id, from.pays[id]) /\ to.schema = "V8"
      BY DEF Copied
    <2>3. Converted(to, id, from.pays[id]) /\ to.recs[id].search = search_text(to.recs[id])
      BY <2>2 DEF Told, OldSchemas
    <2>4. id \in DOMAIN to.pays
      BY <2>3 DEF Converted
    <2>5. id \in DOMAIN pays /\ pays[id] = from.pays[id]
      BY <2>4
    <2> HIDE DEF recs, pays
    <2>6. Converted(g, id, from.pays[id]) /\ g.recs[id].search = search_text(g.recs[id])
      BY <2>1, <2>3, <2>5 DEF Converted
    <2>7. RowFits(recs[id])
      BY <2>1 DEF FileFits
    <2> QED BY <2>6, <2>7 DEF Told
  <1>13. recs = [id \in DOMAIN recs |-> recs[id]] /\ pays = [id \in DOMAIN pays |-> pays[id]]
    OBVIOUS
  <1> HIDE DEF recs, pays
  <1>14. \A id \in DOMAIN recs : RowFits(recs[id]) /\ Told(g, id, from.pays[id])
    BY <1>10, <1>11, <1>12
  <1>15. DOMAIN recs \subseteq DOMAIN from.recs /\ DOMAIN pays \subseteq DOMAIN recs
    BY <1>2, <1>6, <1>7, <1>9, <1>10
  <1>16. FileFits(g)
    <2>1. \A id \in DOMAIN recs : from.pays[id] \in Exch
      BY <1>8, <1>15
    <2> QED BY <1>2, <1>13, <1>14, <1>15, <2>1 DEF FileFits, Schemas, OldSchemas
  <1>17. Copied(from, g)
    <2>1. ASSUME NEW id \in DOMAIN from.recs, id \notin DOMAIN recs, NEW d \in DOMAIN recs
          PROVE  d < id
      <3>1. id \notin DOMAIN to.recs /\ id \notin ids
        BY <1>10, <2>1
      <3>2. \A e \in DOMAIN to.recs : e < id
        BY <3>1 DEF Copied
      <3>3. id \in Left(from, to) /\ id \in Int
        BY <1>2, <1>4, <3>2
      <3>4. CASE d \in ids
        <4>1. ~(id < d) /\ d \in Int
          BY <1>2, <1>3, <1>4, <3>1, <3>3, <3>4
        <4> QED BY <3>1, <3>3, <3>4, <4>1
      <3> QED BY <1>10, <3>2, <3>4
    <2> QED BY <1>14, <1>15, <2>1 DEF Copied
  <1> QED BY <1>1, <1>16, <1>17

-----------------------------------------------------------------------------
(* The stage, the target and the copy.                                     *)

LEMMA SnapshotKeeps == ASSUME IInv, NEW p \in Procs, snapshot_source(p) PROVE IInv'
  <1>0. FilesFit /\ DirFits /\ Safe /\ AgeFits /\ OldFits /\ ProcFits /\ PhaseFits
    BY DEF IInv
  <1> DEFINE i == FreshInode
             d == [dir EXCEPT !["stage"] = i]
  <1>1. /\ proc[p] = "reserve" /\ ~(OldHasOpen /\ old.writing)
        /\ FreeInodes # {} /\ reserved' = dir["active"] /\ Relink(d)
        /\ file' = [file EXCEPT ![i] = At("active")] /\ synced' = synced \ {i}
        /\ Goto(p, "convert") /\ UNCHANGED <<lock, old, made, faults>>
        /\ ~(old.writing /\ old.inode = dir["active"])
    BY <1>0 DEF snapshot_source, OldHasOpen, OldFits
  <1>2. /\ i \in Inodes /\ i # old.inode /\ i # 0
        /\ \A n \in Names : dir[n] # i
        /\ \A e \in journal, n \in Names : e[n] # i
    BY <1>0, <1>1, FreshApart
  <1> HIDE DEF i
  <1>3. "reserve" \in Migrating /\ "convert" \in Migrating /\ "convert" \in ProcStates
    BY DEF Migrating, ProcStates
  <1>4. lock = p /\ Schema(dir) \in OldSchemas
    BY <1>0, <1>1, <1>3 DEF ProcFits, PhaseFits, Phase
  <1>5. dir \in DirType /\ "stage" \in Names /\ "target" \in Names /\ "active" \in Names
    BY <1>0, Apart DEF DirFits
  <1>6. d \in DirType /\ d["stage"] = i /\ \A n \in Names : n # "stage" => d[n] = dir[n]
    BY <1>2, <1>5 DEF DirType
  <1>7. dir' = d /\ journal' = journal
    BY <1>0, <1>1, <1>6, RelinkArtifacts, Apart
  <1>8. Aside({i})
    <2>1. FileFits(At("active"))
      BY <1>0, SchemaNow
    <2>2. file'[i] = At("active") /\ (\A j \in Inodes \ {i} : file'[j] = file[j])
          /\ file' = [j \in Inodes |-> file'[j]]
      BY <1>0, <1>1, <1>2 DEF FilesFit
    <2>3. \A n \in Names : n \notin Artifacts => dir'[n] = dir[n]
      BY <1>6, <1>7, Apart
    <2> QED BY <1>1, <1>2, <1>6, <1>7, <2>1, <2>2, <2>3 DEF Aside
  <1>9. /\ FilesFit' /\ Safe' /\ AgeFits' /\ Schema(dir)' = Schema(dir)
        /\ At("active")' = At("active") /\ dir'["active"] = dir["active"]
        /\ (old.inode # 0 => file'[old.inode] = file[old.inode])
    BY <1>0, <1>4, <1>8, AsideKeeps DEF OldSchemas
  <1>10. DirFits'
    <2>1. Drop(d, Artifacts) = Drop(dir, Artifacts)
      BY <1>6, Apart DEF Drop
    <2>2. d["target"] = dir["target"] /\ dir["target"] # i
      BY <1>2, <1>5, <1>6, Apart
    <2> QED BY <1>0, <1>2, <1>6, <1>7, <2>1, <2>2, Apart DEF DirFits
  <1>11. OldFits'
    BY <1>0, <1>1, <1>2, <1>5, <1>6, <1>7, <1>9, Apart DEF OldFits
  <1>12. ProcFits' /\ proc'[p] = "convert" /\ \A q \in Procs : q # p => proc'[q] = proc[q]
    BY <1>0, <1>1, <1>3, <1>4, GoesOn, Moves
  <1>13. At("stage")' = At("active")'
    BY <1>0, <1>1, <1>2, <1>6, <1>7, <1>9 DEF At, FilesFit
  <1>14. Phase(p)'
    BY <1>1, <1>2, <1>4, <1>6, <1>7, <1>9, <1>12, <1>13 DEF Phase
  <1>15. PhaseFits'
    BY <1>0, <1>4, <1>9, <1>12, <1>14, OthersWait DEF PhaseFits
  <1> QED BY <1>9, <1>10, <1>11, <1>12, <1>15 DEF IInv

LEMMA ConvertKeeps == ASSUME IInv, NEW p \in Procs, Convert(p) PROVE IInv'
  <1>0. FilesFit /\ DirFits /\ Safe /\ AgeFits /\ OldFits /\ ProcFits /\ PhaseFits
    BY DEF IInv
  <1> DEFINE i == FreshInode
             d == [dir EXCEPT !["target"] = i]
             s == dir["stage"]
             stage == IF file[s].schema = "Legacy" THEN migrate_archive(file[s]) ELSE file[s]
  <1>1. /\ proc[p] = "convert" /\ FreeInodes # {} /\ Relink(d)
        /\ file' = [file EXCEPT ![i] = [Empty EXCEPT !.schema = "V8"],
                                ![s] = IF @.schema = "Legacy" THEN migrate_archive(@) ELSE @]
        /\ synced' = synced \ {i}
        /\ Goto(p, "copy") /\ UNCHANGED <<lock, reserved, old, made, faults>>
    BY DEF Convert
  <1>2. /\ i \in Inodes /\ i # old.inode /\ i # 0
        /\ \A n \in Names : dir[n] # i
        /\ \A e \in journal, n \in Names : e[n] # i
    BY <1>0, <1>1, FreshApart
  <1> HIDE DEF i
  <1>3. "convert" \in Migrating /\ "copy" \in Migrating /\ "copy" \in ProcStates
    BY DEF Migrating, ProcStates
  <1>4. /\ lock = p /\ Schema(dir) \in OldSchemas /\ reserved = dir["active"]
        /\ ~(old.writing /\ old.inode = dir["active"])
        /\ s # 0 /\ At("stage") = At("active")
    BY <1>0, <1>1, <1>3 DEF ProcFits, PhaseFits, Phase
  <1>5. dir \in DirType /\ "stage" \in Names /\ "target" \in Names /\ "active" \in Names
    BY <1>0, Apart DEF DirFits
  <1>6. d \in DirType /\ d["target"] = i /\ \A n \in Names : n # "target" => d[n] = dir[n]
    BY <1>2, <1>5 DEF DirType
  <1>7. dir' = d /\ journal' = journal
    BY <1>0, <1>1, <1>6, RelinkArtifacts, Apart
  <1>8. /\ s \in Inodes /\ s # i /\ (old.inode # 0 => s # old.inode)
        /\ \A e \in journal, n \in Names : e[n] # s
    BY <1>0, <1>2, <1>4, <1>5, DirActive, Apart DEF DirFits, OldFits
  <1>9. s # old.inode
    BY <1>4, <1>8
  <1>10. /\ file'[i] = [Empty EXCEPT !.schema = "V8"] /\ file'[s] = stage
         /\ \A j \in Inodes \ {i, s} : file'[j] = file[j]
         /\ file' = [j \in Inodes |-> file'[j]]
    BY <1>0, <1>1, <1>2, <1>8 DEF FilesFit
  <1>11. FileFits(file[s]) /\ file[s] = At("stage") /\ file[s].schema \in OldSchemas
    BY <1>0, <1>4, <1>8, SchemaNow DEF FilesFit, At
  <1>12. /\ FileFits(stage) /\ stage.schema = "V7"
         /\ \A id \in DOMAIN file[s].recs, x \in Exch :
               Told(file[s], id, x) => Told(stage, id, x)
    <2>1. CASE file[s].schema = "Legacy"
      BY <1>11, <2>1, ConversionKeeps
    <2>2. CASE file[s].schema # "Legacy"
      BY <1>11, <2>2 DEF OldSchemas
    <2> QED BY <2>1, <2>2
  <1> HIDE DEF stage
  <1>13. Aside({i, s})
    <2>1. \A n \in Names : n \notin Artifacts => dir'[n] = dir[n]
      BY <1>6, <1>7, Apart
    <2>2. \A k \in {i, s} : FileFits(file'[k])
      BY <1>10, <1>12, NewFits
    <2>3. /\ {i, s} \subseteq Inodes
          /\ \A k \in {i, s} : k # old.inode /\ \A e \in journal, n \in Names : e[n] # k
          /\ \A j \in Inodes \ {i, s} : file'[j] = file[j]
          /\ synced \ {i, s} \subseteq synced'
      <3>1. \A k \in {i, s} : k \in Inodes /\ k # old.inode
        BY <1>2, <1>8, <1>9
      <3>2. \A k \in {i, s} : \A e \in journal, n \in Names : e[n] # k
        BY <1>2, <1>8
      <3>3. synced \ {i, s} \subseteq synced'
        BY <1>1
      <3> QED BY <1>10, <3>1, <3>2, <3>3
    <2> QED BY <1>1, <1>6, <1>7, <1>10, <2>1, <2>2, <2>3 DEF Aside
  <1>14. /\ FilesFit' /\ Safe' /\ AgeFits' /\ Schema(dir)' = Schema(dir)
         /\ dir'["active"] = dir["active"]
         /\ (old.inode # 0 => file'[old.inode] = file[old.inode])
    BY <1>0, <1>4, <1>13, AsideKeeps DEF OldSchemas
  <1>15. DirFits'
    <2>1. Drop(d, Artifacts) = Drop(dir, Artifacts)
      BY <1>6, Apart DEF Drop
    <2>2. d["stage"] = dir["stage"] /\ dir["stage"] # i
      BY <1>2, <1>5, <1>6, Apart
    <2> QED BY <1>0, <1>2, <1>6, <1>7, <2>1, <2>2, Apart DEF DirFits
  <1>16. OldFits'
    BY <1>0, <1>1, <1>2, <1>5, <1>6, <1>7, <1>14, Apart DEF OldFits
  <1>17. ProcFits' /\ proc'[p] = "copy" /\ \A q \in Procs : q # p => proc'[q] = proc[q]
    BY <1>0, <1>1, <1>3, GoesOn, Moves
  <1>18. dir'["stage"] = s /\ dir'["target"] = i
    BY <1>5, <1>6, <1>7
  <1>19. At("stage")' = stage /\ At("target")' = [Empty EXCEPT !.schema = "V8"]
    BY <1>10, <1>18 DEF At
  <1>20. TellsMade(At("stage"))'
    <2>1. TellsMade(file[s])
      BY <1>0, <1>4, <1>11, SafeNow
    <2>2. ASSUME NEW id \in DOMAIN made PROVE Told(stage, id, made[id])
      <3>1. Told(file[s], id, made[id])
        BY <2>1 DEF TellsMade
      <3>2. id \in DOMAIN file[s].recs /\ \E x \in Exch : Told(file[s], id, x)
        BY <1>11, <3>1 DEF Told, Converted, FileFits
      <3>3. PICK x \in Exch : Told(file[s], id, x)
        BY <3>2
      <3>4. {x} = {made[id]} \/ x = made[id]
        BY <3>1, <3>3 DEF Told, Converted
      <3> QED BY <1>12, <3>1, <3>2, <3>3, <3>4
    <2> QED BY <1>1, <1>19, <2>2 DEF TellsMade
  <1>21. Copied(At("stage"), At("target"))'
    <2> DEFINE new == [Empty EXCEPT !.schema = "V8"]
    <2>1. new.schema = "V8" /\ DOMAIN new.recs = {}
      BY DEF Empty
    <2> HIDE DEF new
    <2>2. Copied(stage, new)
      BY <1>12, <2>1 DEF Copied
    <2>3. Copied(At("stage")', At("target")')
      BY <1>19, <2>2 DEF new
    <2> QED BY <2>3 DEF Copied, Told, Converted
  <1>22. Phase(p)'
    BY <1>1, <1>2, <1>4, <1>14, <1>17, <1>18, <1>20, <1>21 DEF Phase
  <1>23. PhaseFits'
    BY <1>0, <1>4, <1>14, <1>17, <1>22, OthersWait DEF PhaseFits
  <1> QED BY <1>14, <1>15, <1>16, <1>17, <1>23 DEF IInv

LEMMA CopyKeeps == ASSUME IInv, NEW p \in Procs, Copy(p) PROVE IInv'
  <1>0. FilesFit /\ DirFits /\ Safe /\ AgeFits /\ OldFits /\ ProcFits /\ PhaseFits
    BY DEF IInv
  <1> DEFINE s == dir["stage"]
             t == dir["target"]
             g == CopyBatch(At("stage"), At("target"))
  <1>1. /\ proc[p] = "copy" /\ NextIds(At("stage"), At("target")) # {}
        /\ file' = [file EXCEPT ![t] = g]
        /\ UNCHANGED <<dir, journal, synced, lock, reserved, proc, old, made, faults>>
    BY DEF Copy, At
  <1>2. "copy" \in Migrating
    BY DEF Migrating
  <1>3. /\ lock = p /\ Schema(dir) \in OldSchemas /\ reserved = dir["active"]
        /\ ~(old.writing /\ old.inode = dir["active"])
        /\ s # 0 /\ t # 0 /\ Copied(At("stage"), At("target")) /\ TellsMade(At("stage"))
    BY <1>0, <1>1, <1>2 DEF ProcFits, PhaseFits, Phase
  <1>4. /\ s \in Inodes /\ t \in Inodes /\ s # t /\ (old.inode # 0 => t # old.inode)
        /\ \A e \in journal, n \in Names : e[n] # t
    BY <1>0, <1>3, DirActive, Apart DEF DirFits, OldFits
  <1>5. FileFits(g) /\ Copied(At("stage"), g)
    <2>1. FileFits(At("stage")) /\ FileFits(At("target"))
      BY <1>0, <1>4 DEF FilesFit, At
    <2> QED BY <1>1, <1>3, <2>1, BatchCopied
  <1> HIDE DEF g
  <1>6. /\ file'[t] = g /\ \A j \in Inodes \ {t} : file'[j] = file[j]
        /\ file' = [j \in Inodes |-> file'[j]]
    BY <1>0, <1>1, <1>4 DEF FilesFit
  <1>7. t # old.inode
    BY <1>3, <1>4
  <1>8. Aside({t})
    BY <1>0, <1>1, <1>4, <1>5, <1>6, <1>7 DEF Aside, DirFits
  <1>9. /\ FilesFit' /\ Safe' /\ AgeFits' /\ Schema(dir)' = Schema(dir)
        /\ (old.inode # 0 => file'[old.inode] = file[old.inode])
    BY <1>0, <1>3, <1>8, AsideKeeps DEF OldSchemas
  <1>10. DirFits' /\ ProcFits'
    BY <1>0, <1>1 DEF DirFits, ProcFits
  <1>11. OldFits'
    BY <1>0, <1>1, <1>9 DEF OldFits
  <1>12. At("stage")' = At("stage") /\ At("target")' = g
    BY <1>1, <1>4, <1>6 DEF At
  <1>13. Copied(At("stage"), At("target"))'
    <2>1. Copied(At("stage")', At("target")')
      BY <1>5, <1>12
    <2> QED BY <2>1 DEF Copied, Told, Converted
  <1>14. TellsMade(At("stage"))'
    <2>1. \A id \in DOMAIN made : Told(At("stage"), id, made[id])
      BY <1>3 DEF TellsMade
    <2> QED BY <1>1, <1>12, <2>1 DEF TellsMade
  <1>15. Phase(p)'
    BY <1>1, <1>3, <1>9, <1>13, <1>14 DEF Phase
  <1>16. PhaseFits'
    BY <1>0, <1>1, <1>3, <1>9, <1>15, OthersWait DEF PhaseFits
  <1> QED BY <1>9, <1>10, <1>11, <1>16 DEF IInv

-----------------------------------------------------------------------------
(* The cutover.                                                            *)

(* A backup is another name for the database, or a copy of it in a file of *)
(* its own: either way the file says what the database says.               *)
LEMMA BackupKeeps ==
    ASSUME IInv, NEW p \in Procs, proc[p] = "backup",
           NEW b \in Range(Backups), dir[b] = 0, NEW i \in Inodes,
           \/ i = dir["active"] /\ synced' = synced
           \/ /\ i # old.inode /\ synced' = synced \ {i}
              /\ \A n \in Names : dir[n] # i
              /\ \A e \in journal, n \in Names : e[n] # i,
           Relink([dir EXCEPT ![b] = i]), file' = [file EXCEPT ![i] = At("active")],
           Goto(p, "rename"), UNCHANGED <<lock, reserved, old, made, faults>>
    PROVE  IInv'
  <1>0. FilesFit /\ DirFits /\ Safe /\ AgeFits /\ OldFits /\ ProcFits /\ PhaseFits
    BY DEF IInv
  <1> DEFINE d == [dir EXCEPT ![b] = i]
             now == Drop(dir, Artifacts)
             new == Drop(d, Artifacts)
  <1>1. "backup" \in Migrating /\ "rename" \in Migrating /\ "rename" \in ProcStates
    BY DEF Migrating, ProcStates
  <1>2. /\ lock = p /\ Schema(dir) \in OldSchemas /\ reserved = dir["active"]
        /\ ~(old.writing /\ old.inode = dir["active"])
        /\ dir["target"] # 0 /\ At("target").schema = "V8" /\ TellsMade(At("target"))
        /\ dir["target"] \in synced
    BY <1>0, <1>1 DEF ProcFits, PhaseFits, Phase
  <1>3. /\ dir \in DirType /\ b \in Names /\ b # "active" /\ b \notin Artifacts
        /\ "stage" \in Names /\ "target" \in Names /\ "active" \in Names
        /\ i # 0 /\ dir["active"] \in Inodes
    BY <1>0, Apart, DirActive DEF DirFits, Inodes
  <1>4. d \in DirType /\ d[b] = i /\ \A n \in Names : n # b => d[n] = dir[n]
    BY <1>3 DEF DirType
  <1>5. dir' = d /\ journal' = journal \union {new}
    BY DEF Relink
  <1>6. now \in journal /\ now \in DirType
        /\ \A n \in Names : now[n] = IF n \in Artifacts THEN 0 ELSE dir[n]
    BY <1>0, <1>3, Dropped DEF DirFits
  <1> HIDE DEF now, d
  <1>7. /\ new \in DirType /\ new[b] = i
        /\ \A n \in Names : n # b => new[n] = now[n]
    <2>1. new \in DirType /\ \A n \in Names : new[n] = IF n \in Artifacts THEN 0 ELSE d[n]
      BY <1>4, Dropped
    <2> HIDE DEF new
    <2> QED BY <1>3, <1>4, <1>6, <2>1
  <1> HIDE DEF new
  <1>8. /\ \A j \in Inodes : file'[j] = IF j = i THEN At("active") ELSE file[j]
        /\ file' = [j \in Inodes |-> file'[j]]
        /\ file'[dir["active"]] = At("active")
    BY <1>0, <1>3 DEF FilesFit, At
  <1>9. \A e \in journal, n \in Names : e[n] # 0 =>
           e[n] \in Inodes /\ file'[e[n]] = file[e[n]]
    <2>1. \A e \in journal, n \in Names : e[n] # 0 => e[n] \in Inodes
      BY <1>0 DEF DirFits, DirType
    <2> QED BY <1>8, <2>1 DEF At
  <1>10. \A a \in Artifacts : dir'[a] = dir[a] /\ dir[a] # i
    <2>1. \A a \in Artifacts : dir[a] # i
      BY <1>0, <1>3, DirActive, Apart
    <2> QED BY <1>3, <1>4, <1>5, <2>1, Apart
  <1>11. dir'["active"] = dir["active"] /\ new["active"] = dir["active"]
    BY <1>3, <1>4, <1>5, <1>6, <1>7, Apart
  <1>12. Schema(dir)' = Schema(dir)
    BY <1>8, <1>11 DEF Schema, At
  <1>13. FilesFit'
    BY <1>0, <1>8, SchemaNow DEF FilesFit
  <1>14. DirFits'
    <2>1. dir' \in DirType /\ journal' \subseteq DirType /\ Drop(dir', Artifacts) \in journal'
      BY <1>0, <1>4, <1>5, <1>7 DEF DirFits, new
    <2>2. new["active"] # 0 /\ \A a \in Artifacts : new[a] = 0
      BY <1>0, <1>3, <1>6, <1>7, <1>11, DirActive, Apart
    <2>3. ASSUME NEW a \in Artifacts, dir[a] # 0, NEW n \in Names PROVE new[n] # dir[a]
      BY <1>0, <1>6, <1>7, <1>10, <2>3 DEF DirFits
    <2>4. \A e \in journal' : e["active"] # 0 /\ \A a \in Artifacts : e[a] = 0
      BY <1>0, <1>5, <2>2 DEF DirFits
    <2>5. \A a \in Artifacts : dir'[a] # 0 => \A e \in journal', n \in Names : e[n] # dir'[a]
      BY <1>0, <1>5, <1>10, <2>3 DEF DirFits
    <2>6. dir'["stage"] # 0 => dir'["stage"] # dir'["target"]
      BY <1>0, <1>10, Apart DEF DirFits
    <2> QED BY <2>1, <2>4, <2>5, <2>6 DEF DirFits
  <1>15. Safe'
    <2>1. ASSUME NEW e \in journal
          PROVE  /\ e["active"] \in synced' /\ file'[e["active"]] = file[e["active"]]
                 /\ \A id \in DOMAIN made : Told(file[e["active"]], id, made[id])
      <3>1. e["active"] # 0
        BY <1>0 DEF DirFits
      <3> QED BY <1>0, <1>3, <1>9, <3>1 DEF Safe
    <2>2. new["active"] = now["active"]
      BY <1>3, <1>7
    <2> QED BY <1>5, <1>6, <2>1, <2>2 DEF Safe
  <1>16. AgeFits'
    <2>1. \A e \in journal : e["active"] = dir["active"]
      BY <1>0, <1>2 DEF AgeFits, OldSchemas
    <2>2. \A e \in journal' : e["active"] = dir'["active"]
      BY <1>5, <1>11, <2>1
    <2>3. \A e \in journal' : Schema(e)' = Schema(dir)
      BY <1>12, <2>2 DEF Schema
    <2>4. \A e \in journal, c \in Range(Backups) : e[c] # 0 => file'[e[c]].schema # "V8"
      <3>1. \A e \in journal, c \in Range(Backups) : e[c] # 0 => file'[e[c]] = file[e[c]]
        BY <1>9, Apart
      <3> QED BY <1>0, <3>1 DEF AgeFits
    <2>5. \A c \in Range(Backups) : new[c] # 0 => file'[new[c]].schema # "V8"
      <3>1. file'[new[b]].schema # "V8"
        BY <1>2, <1>7, <1>8 DEF At, Schema, OldSchemas
      <3>2. \A c \in Range(Backups) : c \in Names
        BY Apart
      <3>3. ASSUME NEW c \in Range(Backups), new[c] # 0, c # b
            PROVE  file'[new[c]].schema # "V8"
        <4>1. new[c] = now[c]
          BY <1>7, <3>2, <3>3
        <4> QED BY <1>6, <2>4, <3>3, <4>1
      <3> QED BY <3>1, <3>3
    <2> QED BY <1>2, <1>5, <1>12, <2>2, <2>3, <2>4, <2>5 DEF AgeFits, OldSchemas
  <1>17. OldFits'
    <2>1. old.inode # 0 => file'[old.inode] = file[old.inode]
      BY <1>0, <1>8 DEF OldFits, At
    <2> QED BY <1>0, <1>10, <2>1 DEF OldFits
  <1>18. ProcFits' /\ proc'[p] = "rename" /\ \A q \in Procs : q # p => proc'[q] = proc[q]
    BY <1>0, <1>1, GoesOn, Moves
  <1>19. At("target")' = At("target") /\ dir'["target"] \in synced'
    <2>1. dir["target"] \in Inodes /\ "target" \in Artifacts
      BY <1>0, <1>2, DirActive, Apart
    <2> QED BY <1>2, <1>8, <1>10, <2>1 DEF At
  <1>20. TellsMade(At("target"))'
    <2>1. \A id \in DOMAIN made : Told(At("target"), id, made[id])
      BY <1>2 DEF TellsMade
    <2> QED BY <1>19, <2>1 DEF TellsMade
  <1>21. Phase(p)'
    BY <1>2, <1>10, <1>11, <1>12, <1>18, <1>19, <1>20, Apart DEF Phase
  <1>22. PhaseFits'
    BY <1>0, <1>2, <1>12, <1>18, <1>21, OthersWait DEF PhaseFits
  <1> QED BY <1>13, <1>14, <1>15, <1>16, <1>17, <1>18, <1>22 DEF IInv

LEMMA BackupStepKeeps ==
    ASSUME IInv, NEW p \in Procs, HardLink(p) \/ CopyBackup(p) PROVE IInv'
  <1>0. DirFits /\ FilesFit
    BY DEF IInv
  <1>1. proc[p] = "backup" /\ FreeBackups # {}
    BY DEF HardLink, CopyBackup
  <1> DEFINE b == unique_backup_path
  <1>2. b \in Range(Backups) /\ dir[b] = 0
    BY <1>1, BackupFree
  <1> HIDE DEF b
  <1>3. CASE HardLink(p)
    <2> DEFINE i == dir["active"]
    <2>1. i \in Inodes
      BY <1>0, DirActive
    <2>2. /\ Relink([dir EXCEPT ![b] = i]) /\ synced' = synced /\ Goto(p, "rename")
          /\ UNCHANGED <<file, lock, reserved, old, made, faults>>
      BY <1>3 DEF HardLink, b
    <2>3. file' = [file EXCEPT ![i] = At("active")]
      BY <1>0, <2>1, <2>2 DEF FilesFit, At
    <2> HIDE DEF i
    <2>4. i = dir["active"]
      BY DEF i
    <2> QED BY <1>1, <1>2, <2>1, <2>2, <2>3, <2>4, BackupKeeps
  <1>4. CASE CopyBackup(p)
    <2> DEFINE i == FreshInode
    <2>1. /\ i \in Inodes /\ i # old.inode
          /\ \A n \in Names : dir[n] # i
          /\ \A e \in journal, n \in Names : e[n] # i
      BY <1>0, <1>4, FreshApart DEF CopyBackup
    <2>2. /\ Relink([dir EXCEPT ![b] = i]) /\ synced' = synced \ {i} /\ Goto(p, "rename")
          /\ file' = [file EXCEPT ![i] = At("active")]
          /\ UNCHANGED <<lock, reserved, old, made, faults>>
      BY <1>4 DEF CopyBackup, b
    <2> HIDE DEF i
    <2> QED BY <1>1, <1>2, <2>1, <2>2, BackupKeeps
  <1> QED BY <1>3, <1>4

LEMMA RenameKeeps == ASSUME IInv, NEW p \in Procs, Rename(p) PROVE IInv'
  <1>0. FilesFit /\ DirFits /\ Safe /\ AgeFits /\ OldFits /\ ProcFits /\ PhaseFits
    BY DEF IInv
  <1> DEFINE t == dir["target"]
             d == [Drop(dir, {"target"}) EXCEPT !["active"] = t]
             now == Drop(dir, Artifacts)
             new == Drop(d, Artifacts)
  <1>1. /\ proc[p] = "rename" /\ Relink(d) /\ Goto(p, "sync_parent")
        /\ UNCHANGED <<file, synced, lock, reserved, old, made, faults>>
    BY DEF Rename
  <1>2. "sync_parent" \in Migrating /\ "rename" \in Migrating /\ "sync_parent" \in ProcStates
    BY DEF Migrating, ProcStates
  <1>3. /\ lock = p /\ Schema(dir) \in OldSchemas
        /\ t # 0 /\ file[t].schema = "V8" /\ TellsMade(file[t]) /\ t \in synced
    BY <1>0, <1>1, <1>2 DEF ProcFits, PhaseFits, Phase, At
  <1>4. /\ dir \in DirType /\ "stage" \in Names /\ "target" \in Names /\ "active" \in Names
        /\ t \in Inodes /\ t # dir["active"] /\ \A e \in journal, n \in Names : e[n] # t
    BY <1>0, <1>3, Apart, DirActive DEF DirFits
  <1>5. /\ d \in DirType /\ d["active"] = t /\ d["target"] = 0
        /\ \A n \in Names : n # "active" /\ n # "target" => d[n] = dir[n]
    <2>1. /\ Drop(dir, {"target"}) \in DirType
          /\ \A n \in Names : Drop(dir, {"target"})[n] = IF n = "target" THEN 0 ELSE dir[n]
      BY <1>4, Dropped
    <2> QED BY <1>4, <2>1, Apart DEF DirType
  <1>6. dir' = d /\ journal' = journal \union {new}
    BY <1>1 DEF Relink
  <1>7. now \in journal /\ now \in DirType
        /\ \A n \in Names : now[n] = IF n \in Artifacts THEN 0 ELSE dir[n]
    BY <1>0, <1>4, Dropped DEF DirFits
  <1> HIDE DEF now, d
  <1>8. /\ new \in DirType /\ new["active"] = t
        /\ \A n \in Names : n # "active" => new[n] = now[n]
    <2>1. new \in DirType /\ \A n \in Names : new[n] = IF n \in Artifacts THEN 0 ELSE d[n]
      BY <1>5, Dropped
    <2> HIDE DEF new
    <2> QED BY <1>4, <1>5, <1>7, <2>1, Apart
  <1>9. Drop(dir', Artifacts) = new
    BY <1>6
  <1> HIDE DEF new
  <1>10. dir'["active"] = t /\ dir'["target"] = 0 /\ dir'["stage"] = dir["stage"]
    BY <1>4, <1>5, <1>6
  <1>11. Schema(dir)' = "V8"
    BY <1>1, <1>3, <1>10 DEF Schema
  <1>12. DirFits'
    <2>1. new["active"] # 0 /\ \A a \in Artifacts : new[a] = 0
      BY <1>0, <1>3, <1>7, <1>8, Apart
    <2>2. \A e \in journal' : e["active"] # 0 /\ \A a \in Artifacts : e[a] = 0
      BY <1>0, <1>6, <2>1 DEF DirFits
    <2>3. ASSUME dir["stage"] # 0, NEW e \in journal', NEW n \in Names
          PROVE  e[n] # dir["stage"]
      BY <1>0, <1>3, <1>6, <1>7, <1>8, <2>3, Apart DEF DirFits
    <2>4. \A a \in Artifacts : dir'[a] # 0 => \A e \in journal', n \in Names : e[n] # dir'[a]
      BY <1>10, <2>3, Apart
    <2> QED BY <1>0, <1>5, <1>6, <1>8, <1>9, <1>10, <2>2, <2>4 DEF DirFits
  <1>13. FilesFit' /\ Safe'
    <2>1. FilesFit'
      BY <1>0, <1>1 DEF FilesFit
    <2>2. Safe'
      BY <1>0, <1>1, <1>3, <1>6, <1>8 DEF Safe, TellsMade
    <2> QED BY <2>1, <2>2
  <1>14. AgeFits'
    <2>1. \A e \in journal' : Schema(e)' # "Empty"
      BY <1>0, <1>1, <1>3, <1>6, <1>8 DEF AgeFits, Schema, OldSchemas
    <2>2. \A e \in journal', b \in Range(Backups) : e[b] # 0 => file'[e[b]].schema # "V8"
      <3>1. \A b \in Range(Backups) : new[b] = now[b]
        BY <1>8, Apart
      <3> QED BY <1>0, <1>1, <1>6, <1>7, <3>1 DEF AgeFits
    <2> QED BY <1>11, <2>1, <2>2 DEF AgeFits
  <1>15. OldFits'
    BY <1>0, <1>1, <1>10, Apart DEF OldFits
  <1>16. ProcFits' /\ proc'[p] = "sync_parent"
         /\ \A q \in Procs : q # p => proc'[q] = proc[q]
    BY <1>0, <1>1, <1>2, GoesOn, Moves
  <1>17. \A q \in Procs : proc'[q] \notin {"open", "serving"}
    BY <1>0, <1>3, <1>16 DEF PhaseFits, Phase, OldSchemas
  <1>18. PhaseFits'
    <2>1. ASSUME NEW q \in Procs PROVE Phase(q)'
      <3>1. q # p => proc[q] \notin Migrating
        BY <1>0, <1>3 DEF ProcFits
      <3>2. CASE q = p
        BY <1>10, <1>11, <1>16, <1>17, <3>2 DEF Phase
      <3>3. CASE q # p
        BY <1>11, <1>16, <1>17, <3>1, <3>3 DEF Phase, Migrating
      <3> QED BY <3>2, <3>3
    <2> QED BY <2>1 DEF PhaseFits
  <1> QED BY <1>12, <1>13, <1>14, <1>15, <1>16, <1>18 DEF IInv

LEMMA SyncParentKeeps == ASSUME IInv, NEW p \in Procs, SyncParent(p) PROVE IInv'
  <1>0. FilesFit /\ DirFits /\ Safe /\ AgeFits /\ OldFits /\ ProcFits /\ PhaseFits
    BY DEF IInv
  <1>1. /\ proc[p] = "sync_parent" /\ journal' = {Drop(dir, Artifacts)} /\ Goto(p, "clean")
        /\ UNCHANGED <<dir, file, synced, lock, reserved, old, made, faults>>
    BY DEF SyncParent
  <1>2. "sync_parent" \in Migrating /\ "clean" \in Migrating /\ "clean" \in ProcStates
    BY DEF Migrating, ProcStates
  <1>3. journal' \subseteq journal /\ Drop(dir, Artifacts) \in journal'
    BY <1>0, <1>1 DEF DirFits
  <1>4. DirFits'
    BY <1>0, <1>1, <1>3 DEF DirFits
  <1>5. FilesFit' /\ Safe' /\ AgeFits' /\ OldFits'
    <2>1. FilesFit' /\ OldFits'
      BY <1>0, <1>1 DEF FilesFit, OldFits
    <2>2. Safe'
      BY <1>0, <1>1, <1>3 DEF Safe
    <2>3. AgeFits'
      BY <1>0, <1>1, <1>3 DEF AgeFits, Schema
    <2> QED BY <2>1, <2>2, <2>3
  <1>6. ProcFits' /\ proc'[p] = "clean"
    BY <1>0, <1>1, <1>2, GoesOn, Moves
  <1>7. Schema(dir) = "V8" /\ dir["target"] = 0
        /\ \A q \in Procs : proc'[q] \notin {"open", "serving"}
    <2>1. Phase(p)
      BY <1>0 DEF PhaseFits
    <2> QED BY <1>0, <1>1, <1>2, <2>1, Moves DEF Phase
  <1>8. Phase(p)'
    BY <1>1, <1>6, <1>7 DEF Phase, Schema
  <1>9. PhaseFits'
    BY <1>0, <1>1, <1>2, <1>8, OthersStay DEF PhaseFits
  <1> QED BY <1>4, <1>5, <1>6, <1>9 DEF IInv

LEMMA OpenKeeps == ASSUME IInv, NEW p \in Procs, Open(p) PROVE IInv'
  <1>0. FilesFit /\ DirFits /\ Safe /\ AgeFits /\ OldFits /\ ProcFits /\ PhaseFits
    BY DEF IInv
  <1> DEFINE a == dir["active"]
  <1>1. /\ proc[p] = "open"
        /\ UNCHANGED <<dir, journal, synced, lock, reserved, old, made, faults>>
    BY DEF Open
  <1>2. "open" \notin Migrating /\ "serving" \in ProcStates \ Migrating
    BY DEF Migrating, ProcStates
  <1>3. Schema(dir) \in {"Empty", "V8"} /\ \A n \in Artifacts : dir[n] = 0
    BY <1>0, <1>1 DEF PhaseFits, Phase
  <1>4. file' = [file EXCEPT ![a].schema = "V8"] /\ Goto(p, "serving")
    BY <1>0, <1>3, SchemaNow DEF Open
  <1>5. ProcFits' /\ proc'[p] = "serving" /\ \A q \in Procs : q # p => proc'[q] = proc[q]
    BY <1>0, <1>1, <1>2, <1>4, GoesOn, Moves
  <1>6. /\ a \in Inodes /\ FileFits(file[a]) /\ Schema(dir) = file[a].schema
        /\ file = [i \in Inodes |-> file[i]]
        /\ file[a] = [schema |-> file[a].schema, recs |-> file[a].recs, pays |-> file[a].pays]
    BY <1>0, DirActive DEF Schema, FilesFit, FileFits
  <1> DEFINE g == [schema |-> "V8", recs |-> file[a].recs, pays |-> file[a].pays]
  <1>7. /\ file'[a] = g /\ \A i \in Inodes \ {a} : file'[i] = file[i]
        /\ file' = [i \in Inodes |-> file'[i]]
    <2>1. file'[a] = [file[a] EXCEPT !.schema = "V8"]
      BY <1>4, <1>6
    <2>2. file'[a] = g
      BY <1>6, <2>1
    <2>3. \A i \in Inodes \ {a} : file'[i] = file[i]
      BY <1>4, <1>6
    <2>4. file' = [i \in Inodes |-> file'[i]]
      BY <1>4, <1>6
    <2> QED BY <2>2, <2>3, <2>4
  <1>8. CASE Schema(dir) = "V8"
    <2>1. file' = file
      <3>1. \A i \in Inodes : file'[i] = file[i]
        BY <1>6, <1>7, <1>8
      <3> QED BY <1>6, <1>7, <3>1
    <2>2. FilesFit' /\ DirFits' /\ Safe' /\ AgeFits' /\ OldFits'
      BY <1>0, <1>1, <2>1, StillDisk
    <2>3. Phase(p)'
      BY <1>1, <1>3, <1>5, <1>8, <2>1 DEF Phase, Schema
    <2>4. PhaseFits'
      BY <1>0, <1>1, <1>2, <1>4, <2>1, <2>3, OthersStay DEF PhaseFits
    <2> QED BY <1>5, <2>2, <2>4 DEF IInv
  <1>9. CASE Schema(dir) = "Empty"
    <2>1. DOMAIN file[a].recs = {} /\ DOMAIN file[a].pays = {}
      <3>1. \A id, x : ~Told(file[a], id, x)
        BY <1>6, <1>9 DEF Told, OldSchemas
      <3> QED BY <1>6, <3>1 DEF FileFits
    <2>2. DOMAIN made = {}
      BY <1>0, <1>6, <1>9, SafeNow DEF TellsMade, Told, OldSchemas, At
    <2>3. FileFits(g)
      BY <1>6, <2>1 DEF FileFits, Schemas, OldSchemas
    <2>4. FilesFit'
      BY <1>0, <1>7, <2>3 DEF FilesFit
    <2>5. DirFits'
      BY <1>0, <1>1 DEF DirFits
    <2>6. Safe'
      BY <1>0, <1>1, <2>2 DEF Safe
    <2>7. \A d \in journal : d["active"] = a /\ \A b \in Range(Backups) : d[b] = 0
      BY <1>0, <1>9 DEF AgeFits
    <2>8. Schema(dir)' = "V8"
      BY <1>1, <1>7 DEF Schema
    <2>9. \A d \in journal : Schema(d)' = "V8"
      BY <1>7, <2>7 DEF Schema
    <2>10. AgeFits'
      BY <1>1, <2>7, <2>8, <2>9 DEF AgeFits
    <2>11. OldFits'
      BY <1>0, <1>1, <1>6, <1>7, <1>9 DEF OldFits, OldSchemas
    <2>12. PhaseFits'
      <3>1. ASSUME NEW q \in Procs PROVE Phase(q)'
        <4>1. proc'[q] \in {"start", "lock", "detect", "open", "serving"}
          BY <1>0, <1>5, <1>9 DEF PhaseFits, Phase, ProcFits, ProcStates, Migrating, OldSchemas
        <4> QED BY <1>1, <1>3, <2>8, <4>1 DEF Phase
      <3> QED BY <3>1 DEF PhaseFits
    <2> QED BY <1>5, <2>4, <2>5, <2>6, <2>10, <2>11, <2>12 DEF IInv
  <1> QED BY <1>3, <1>8, <1>9

-----------------------------------------------------------------------------
(* The environment.                                                        *)

LEMMA PowerLossKeeps == ASSUME IInv, PowerLoss PROVE IInv'
  <1>0. FilesFit /\ DirFits /\ Safe /\ AgeFits /\ OldFits /\ ProcFits /\ PhaseFits
    BY DEF IInv
  <1>1. PICK d \in journal, stage \in {0, dir["stage"]} :
           \E torn \in SUBSET (Range(d) \ (synced \union {0})),
              target \in {0, dir["target"]} \union ({dir["active"]} \ {d["active"]}) :
              /\ dir' = [d EXCEPT !["stage"] = stage, !["target"] = target]
              /\ journal' = {d}
              /\ file' = [i \in Inodes |-> IF i \in torn THEN Empty ELSE file[i]]
    BY DEF PowerLoss
  <1>2. PICK torn \in SUBSET (Range(d) \ (synced \union {0})),
              target \in {0, dir["target"]} \union ({dir["active"]} \ {d["active"]}) :
              /\ dir' = [d EXCEPT !["stage"] = stage, !["target"] = target]
              /\ journal' = {d}
              /\ file' = [i \in Inodes |-> IF i \in torn THEN Empty ELSE file[i]]
    BY <1>1
  <1>3. /\ faults' = faults + 1 /\ faults < MaxFaults /\ proc' = [p \in Procs |-> "start"]
        /\ lock' = Nobody /\ reserved' = 0 /\ old' = [inode |-> 0, writing |-> FALSE]
        /\ UNCHANGED <<synced, made>>
    BY DEF PowerLoss
  <1>4. /\ d \in DirType /\ dir \in DirType
        /\ "stage" \in Names /\ "target" \in Names /\ "active" \in Names
        /\ "stage" \in Artifacts /\ "target" \in Artifacts /\ "stage" # "target"
    BY <1>0, Apart DEF DirFits
  <1>5. /\ dir["active"] \in Inodes /\ dir["active"] # 0
        /\ d["active"] \in Inodes /\ d["active"] # 0 /\ \A a \in Artifacts : d[a] = 0
    BY <1>0, DirActive DEF DirFits
  <1>6. stage \in Inodes \union {0} /\ target \in Inodes \union {0}
    BY <1>4, <1>5 DEF DirType
  <1>7. /\ dir' \in DirType /\ dir'["stage"] = stage /\ dir'["target"] = target
        /\ \A n \in Names : n \notin Artifacts => dir'[n] = d[n]
    BY <1>2, <1>4, <1>6, Apart DEF DirType
  <1>8. dir'["active"] = d["active"]
    BY <1>4, <1>7, Apart
  <1>9. \A i \in Inodes : file'[i] = Empty \/ file'[i] = file[i]
    BY <1>2
  <1>10. \A i \in Inodes : i \in synced => file'[i] = file[i]
    BY <1>2
  <1>11. file'[d["active"]] = file[d["active"]]
    BY <1>0, <1>5, <1>10 DEF Safe
  <1>12. FilesFit'
    BY <1>0, <1>2, <1>9, NewFits DEF FilesFit
  <1>13. d["active"] # dir["active"] =>
            Schema(dir) = "V8" /\ \A n \in Names : d[n] # dir["active"]
    <2> SUFFICES ASSUME d["active"] # dir["active"], NEW n \in Names
                 PROVE  Schema(dir) = "V8" /\ d[n] # dir["active"]
      BY <1>4
    <2>1. Schema(dir) = "V8"
      BY <1>0 DEF AgeFits
    <2>2. n \in Range(Backups) /\ d[n] # 0 => file[d[n]].schema # "V8"
      BY <1>0 DEF AgeFits
    <2>3. n = "active" \/ n \in Artifacts \/ n \in Range(Backups)
      BY Apart
    <2> QED BY <1>5, <2>1, <2>2, <2>3 DEF Schema
  <1>14. DirFits'
    <2>1. Drop(dir', Artifacts) = d
      <3>1. \A n \in Names : d[n] = IF n \in Artifacts THEN 0 ELSE dir'[n]
        BY <1>5, <1>7
      <3>2. d = [n \in Names |-> d[n]]
        BY <1>4 DEF DirType
      <3> QED BY <3>1, <3>2 DEF Drop
    <2>2. ASSUME stage # 0, NEW n \in Names PROVE d[n] # stage
      BY <1>0, <1>4, <2>2 DEF DirFits
    <2>3. ASSUME target # 0, NEW n \in Names PROVE d[n] # target
      BY <1>0, <1>4, <1>13, <2>3 DEF DirFits
    <2>4. \A a \in Artifacts : dir'[a] # 0 => \A e \in journal', n \in Names : e[n] # dir'[a]
      BY <1>2, <1>7, <2>2, <2>3, Apart
    <2>5. stage # 0 => stage # target
      BY <1>0, <1>4, DirActive DEF DirFits
    <2> QED BY <1>2, <1>4, <1>5, <1>7, <2>1, <2>4, <2>5 DEF DirFits
  <1>15. Safe'
    BY <1>0, <1>2, <1>3, <1>11 DEF Safe
  <1>16. AgeFits'
    <2>1. Schema(dir)' = Schema(d) /\ Schema(d)' = Schema(d)
      BY <1>8, <1>11 DEF Schema
    <2>2. Schema(d) = "Empty" => Schema(dir) = "Empty"
      BY <1>0 DEF AgeFits
    <2>3. Schema(d) = "Empty" => /\ \A a \in Artifacts : dir'[a] = 0
                                 /\ \A b \in Range(Backups) : d[b] = 0
      <3> SUFFICES ASSUME Schema(d) = "Empty"
                   PROVE  /\ \A a \in Artifacts : dir'[a] = 0
                          /\ \A b \in Range(Backups) : d[b] = 0
        OBVIOUS
      <3>1. /\ dir["stage"] = 0 /\ dir["target"] = 0 /\ d["active"] = dir["active"]
            /\ \A b \in Range(Backups) : d[b] = 0
        BY <1>0, <1>4, <2>2 DEF AgeFits
      <3> QED BY <1>7, <3>1, Apart
    <2>4. ASSUME NEW b \in Range(Backups), d[b] # 0 PROVE file'[d[b]].schema # "V8"
      <3>1. d[b] \in Inodes /\ file[d[b]].schema # "V8"
        BY <1>0, <1>4, <2>4, Apart DEF AgeFits, DirType
      <3> QED BY <1>9, <3>1 DEF Empty
    <2> QED BY <1>2, <1>8, <2>1, <2>3, <2>4 DEF AgeFits
  <1>17. OldFits'
    BY <1>3 DEF OldFits
  <1>18. ProcFits'
    BY <1>0, <1>3, MigrationAssumption DEF ProcFits, ProcStates, Migrating
  <1>19. PhaseFits'
    <2>1. \A p \in Procs : proc'[p] = "start"
      BY <1>3
    <2> QED BY <2>1 DEF PhaseFits, Phase
  <1> QED BY <1>12, <1>14, <1>15, <1>16, <1>17, <1>18, <1>19 DEF IInv

LEMMA OldTurnKeeps ==
    ASSUME IInv, OldOpens \/ OldBegins \/ OldRollsBack \/ OldCloses
    PROVE  IInv'
  <1>0. FilesFit /\ DirFits /\ Safe /\ AgeFits /\ OldFits /\ ProcFits /\ PhaseFits
    BY DEF IInv
  <1>1. UNCHANGED <<dir, journal, file, synced, lock, reserved, proc, made, faults>>
    BY DEF OldOpens, OldBegins, OldRollsBack, OldCloses
  <1>2. FilesFit' /\ DirFits' /\ ProcFits'
    BY <1>0, <1>1 DEF FilesFit, DirFits, ProcFits
  <1>3. Safe' /\ AgeFits'
    BY <1>0, <1>1 DEF Safe, AgeFits, Schema
  <1>4. Schema(dir)' = Schema(dir) /\ \A n \in Names : At(n)' = At(n)
    BY <1>1 DEF Schema, At
  <1>5. SUFFICES /\ OldFits'
                 /\ \/ ~old'.writing
                    \/ old'.inode = old.inode /\ reserved # old.inode
    <2>1. ASSUME NEW p \in Procs PROVE Phase(p)'
      <3>1. Phase(p)
        BY <1>0 DEF PhaseFits
      <3>2. reserved = dir["active"] => ~(old'.writing /\ old'.inode = dir["active"])
        BY <1>5
      <3> QED BY <1>1, <1>4, <3>1, <3>2 DEF Phase, TellsMade, At
    <2> QED BY <1>2, <1>3, <1>5, <2>1 DEF IInv, PhaseFits
  <1>6. CASE OldOpens
    <2>1. /\ old' = [inode |-> dir["active"], writing |-> FALSE]
          /\ file[dir["active"]].schema \in OldSchemas
      BY <1>6 DEF OldOpens, At, OldSchemas
    <2>2. dir["active"] \in Inodes /\ \A a \in Artifacts : dir[a] # dir["active"]
      BY <1>0, DirActive
    <2> QED BY <1>1, <2>1, <2>2 DEF OldFits
  <1>7. CASE OldBegins
    <2>1. /\ old' = [inode |-> old.inode, writing |-> TRUE] /\ old.inode # 0
          /\ reserved # old.inode
      BY <1>0, <1>7 DEF OldBegins, OldFits
    <2> QED BY <1>0, <1>1, <2>1 DEF OldFits
  <1>8. CASE OldRollsBack \/ OldCloses
    <2>1. old' = [inode |-> 0, writing |-> FALSE]
      BY <1>8 DEF OldRollsBack, OldCloses
    <2> QED BY <2>1 DEF OldFits
  <1> QED BY <1>6, <1>7, <1>8

LEMMA AppendedFits ==
    ASSUME NEW f, FileFits(f), f.schema \in OldSchemas, NEW x \in Exch,
           Cardinality(DOMAIN f.recs) + 1 \in Ids
    PROVE  LET id == Cardinality(DOMAIN f.recs) + 1
               g == Appended(f, id, x)
           IN  /\ FileFits(g) /\ g.schema = f.schema /\ Told(g, id, x)
               /\ \A i \in DOMAIN f.recs : \A y : Told(f, i, y) => Told(g, i, y)
  <1> DEFINE id == Cardinality(DOMAIN f.recs) + 1
             recs == [i \in 1..id |-> IF i # id THEN f.recs[i]
                         ELSE IF f.schema = "V7" THEN Extracted(x) ELSE Plain(x)]
             pays == [i \in DOMAIN f.pays \union (IF f.schema = "V7" THEN {id} ELSE {}) |->
                         IF i = id THEN x ELSE f.pays[i]]
             g == [schema |-> f.schema, recs |-> recs, pays |-> pays]
  <1>1. Appended(f, id, x) = g
    BY DEF Appended
  <1>2. PICK n \in Nat : DOMAIN f.recs = 1..n
    BY DEF FileFits
  <1>3. Cardinality(DOMAIN f.recs) = n
    <2>1. Cardinality(1..n) = IF 1 > n THEN 0 ELSE n - 1 + 1
      BY FS_Interval
    <2> QED BY <1>2, <2>1
  <1>4. id = n + 1
    BY <1>3
  <1>5. id \in Ids
    OBVIOUS
  <1> HIDE DEF id
  <1>6. /\ 1..id = DOMAIN f.recs \union {id} /\ id \notin DOMAIN f.recs
        /\ 1..id \subseteq Ids
    <2>1. 1..(n + 1) = (1..n) \union {n + 1} /\ (n + 1) \notin 1..n
      OBVIOUS
    <2>2. 1..id \subseteq Ids
      BY <1>4, <1>5, MigrationAssumption DEF Ids
    <2> QED BY <1>2, <1>4, <2>1, <2>2
  <1>7. /\ DOMAIN f.pays \subseteq DOMAIN f.recs
        /\ \A i \in DOMAIN f.recs : RowFits(f.recs[i]) /\ \E y \in Exch : Told(f, i, y)
    BY DEF FileFits
  <1>8. DOMAIN recs = 1..id
        /\ DOMAIN pays = DOMAIN f.pays \union (IF f.schema = "V7" THEN {id} ELSE {})
        /\ recs = [i \in DOMAIN recs |-> recs[i]] /\ pays = [i \in DOMAIN pays |-> pays[i]]
    OBVIOUS
  <1>9. \A i \in DOMAIN f.recs : recs[i] = f.recs[i]
    BY <1>6
  <1>10. \A i \in DOMAIN f.pays : pays[i] = f.pays[i]
    BY <1>6, <1>7
  <1>11. /\ recs[id] = IF f.schema = "V7" THEN Extracted(x) ELSE Plain(x)
         /\ f.schema = "V7" => pays[id] = x
    <2>1. id \in 1..id
      BY <1>6
    <2> QED BY <2>1
  <1> HIDE DEF recs, pays
  <1>12. RowFits(recs[id]) /\ Told(g, id, x)
    <2>1. CASE f.schema = "V7"
      <3>1. recs[id] = Extracted(x) /\ pays[id] = x /\ id \in DOMAIN pays /\ id \in DOMAIN recs
        BY <1>6, <1>8, <1>11, <2>1
      <3> QED BY <2>1, <3>1 DEF RowFits, Extracted, Told, Converted, OldSchemas
    <2>2. CASE f.schema = "Legacy"
      <3>1. recs[id] = Plain(x) /\ id \notin DOMAIN pays /\ id \in DOMAIN recs
        BY <1>6, <1>7, <1>8, <1>11, <2>2
      <3> QED BY <2>2, <3>1 DEF RowFits, Plain, Told
    <2> QED BY <2>1, <2>2 DEF OldSchemas
  <1>13. ASSUME NEW i \in DOMAIN f.recs, NEW y, Told(f, i, y) PROVE Told(g, i, y)
    <2>1. i \in DOMAIN recs /\ recs[i] = f.recs[i] /\ i # id
          /\ (i \in DOMAIN pays <=> i \in DOMAIN f.pays)
          /\ (i \in DOMAIN f.pays => pays[i] = f.pays[i])
      BY <1>6, <1>7, <1>8, <1>9, <1>10
    <2>2. \/ f.schema \in OldSchemas /\ Converted(f, i, y)
          \/ f.schema = "Legacy" /\ i \notin DOMAIN f.pays /\ f.recs[i].body = {y}
      BY <1>13 DEF Told, OldSchemas
    <2> QED BY <2>1, <2>2 DEF Told, Converted
  <1>14. \A i \in DOMAIN recs : RowFits(recs[i]) /\ \E y \in Exch : Told(g, i, y)
    <2>1. ASSUME NEW i \in DOMAIN f.recs
          PROVE  RowFits(recs[i]) /\ \E y \in Exch : Told(g, i, y)
      BY <1>7, <1>9, <1>13
    <2> QED BY <1>6, <1>8, <1>12, <2>1
  <1>15. FileFits(g)
    <2>1. DOMAIN recs \subseteq Ids /\ DOMAIN pays \subseteq DOMAIN recs
      BY <1>6, <1>7, <1>8
    <2>2. \E m \in Nat : DOMAIN recs = 1..m
      BY <1>4, <1>8
    <2> QED BY <1>8, <1>14, <2>1, <2>2 DEF FileFits, Schemas, OldSchemas
  <1>16. FileFits(Appended(f, id, x)) /\ Appended(f, id, x).schema = f.schema
         /\ Told(Appended(f, id, x), id, x)
         /\ \A i \in DOMAIN f.recs : \A y : Told(f, i, y) => Told(Appended(f, id, x), i, y)
    BY <1>1, <1>12, <1>13, <1>15
  <1> QED BY <1>16 DEF id

LEMMA OldCommitsKeeps == ASSUME IInv, OldCommits PROVE IInv'
  <1>0. FilesFit /\ DirFits /\ Safe /\ AgeFits /\ OldFits /\ ProcFits /\ PhaseFits
    BY DEF IInv
  <1> DEFINE o == old.inode
             f == file[o]
             id == Cardinality(DOMAIN f.recs) + 1
  <1>1. /\ old.writing /\ old' = [inode |-> 0, writing |-> FALSE] /\ id \in Ids
        /\ UNCHANGED <<dir, journal, synced, lock, reserved, proc, faults>>
    BY DEF OldCommits
  <1>2. PICK x \in Exch :
           /\ file' = [file EXCEPT ![o] = Appended(f, id, x)]
           /\ made' = IF o = dir["active"]
                      THEN [i \in DOMAIN made \union {id} |-> IF i = id THEN x ELSE made[i]]
                      ELSE made
    BY DEF OldCommits
  <1> DEFINE g == Appended(f, id, x)
  <1>3. o \in Inodes /\ f.schema \in OldSchemas /\ \A a \in Artifacts : dir[a] # o
    BY <1>0, <1>1 DEF OldFits
  <1>4. FileFits(f)
    BY <1>0, <1>3 DEF FilesFit
  <1>5. /\ FileFits(g) /\ g.schema = f.schema /\ Told(g, id, x)
        /\ \A i \in DOMAIN f.recs : \A y : Told(f, i, y) => Told(g, i, y)
    BY <1>1, <1>3, <1>4, AppendedFits
  <1> HIDE DEF g, id
  <1>6. /\ file'[o] = g /\ \A i \in Inodes \ {o} : file'[i] = file[i]
        /\ file' = [i \in Inodes |-> file'[i]]
    BY <1>0, <1>2, <1>3 DEF FilesFit, g
  <1>7. FilesFit'
    BY <1>0, <1>5, <1>6 DEF FilesFit
  <1>8. \A i \in Inodes : file'[i].schema = file[i].schema
    BY <1>5, <1>6
  <1>9. DirFits' /\ OldFits' /\ ProcFits'
    BY <1>0, <1>1 DEF DirFits, OldFits, ProcFits
  <1>10. /\ dir["active"] \in Inodes
         /\ \A d \in journal : d["active"] \in Inodes
         /\ \A d \in journal, b \in Range(Backups) : d[b] # 0 => d[b] \in Inodes
    BY <1>0, DirActive, Apart DEF DirFits, DirType
  <1>11. Schema(dir)' = Schema(dir) /\ \A d \in journal : Schema(d)' = Schema(d)
    BY <1>1, <1>8, <1>10 DEF Schema
  <1>12. AgeFits'
    BY <1>0, <1>1, <1>8, <1>10, <1>11 DEF AgeFits
  <1>13. \A i, y : Told(f, i, y) => Told(g, i, y)
    <2>1. \A i, y : Told(f, i, y) => i \in DOMAIN f.recs
      BY DEF Told, Converted
    <2> QED BY <1>5, <2>1
  <1>14. Safe'
    <2> SUFFICES ASSUME NEW d \in journal
                 PROVE  /\ d["active"] \in synced
                        /\ \A i \in DOMAIN made' : Told(file'[d["active"]], i, made'[i])
      BY <1>1 DEF Safe
    <2>1. /\ d["active"] \in synced
          /\ \A i \in DOMAIN made : Told(file[d["active"]], i, made[i])
      BY <1>0 DEF Safe
    <2>2. CASE o = dir["active"]
      <3>1. d["active"] = o
        BY <1>0, <1>3, <2>2 DEF AgeFits, Schema, OldSchemas
      <3>2. made' = [i \in DOMAIN made \union {id} |-> IF i = id THEN x ELSE made[i]]
        BY <1>2, <2>2 DEF id
      <3>3. ASSUME NEW i \in DOMAIN made' PROVE Told(g, i, made'[i])
        BY <1>5, <1>13, <2>1, <3>1, <3>2
      <3> QED BY <1>6, <2>1, <3>1, <3>3
    <2>3. CASE o # dir["active"]
      <3>1. made' = made
        BY <1>2, <2>3
      <3>2. file'[d["active"]] = file[d["active"]] \/ (d["active"] = o /\ file'[d["active"]] = g)
        BY <1>6, <1>10
      <3> QED BY <1>13, <2>1, <3>1, <3>2
    <2> QED BY <2>2, <2>3
  <1>15. PhaseFits'
    <2>1. ASSUME NEW p \in Procs PROVE Phase(p)'
      <3>1. Phase(p)
        BY <1>0 DEF PhaseFits
      <3>2. CASE proc[p] \in {"convert", "copy", "sync", "backup", "rename"}
        <4>1. o # dir["active"] /\ made' = made
          BY <1>1, <1>2, <3>1, <3>2 DEF Phase
        <4>2. At("active")' = At("active")
              /\ (\A a \in Artifacts : dir[a] # 0 => At(a)' = At(a))
          BY <1>0, <1>1, <1>3, <1>6, <1>10, <4>1, DirActive DEF At
        <4>3. "stage" \in Artifacts /\ "target" \in Artifacts
          BY DEF Artifacts
        <4> QED BY <1>1, <1>11, <3>1, <3>2, <4>1, <4>2, <4>3
                DEF Phase, TellsMade, Copied, Told, Converted
      <3>3. CASE proc[p] \notin {"convert", "copy", "sync", "backup", "rename"}
        BY <1>1, <1>11, <3>1, <3>3 DEF Phase
      <3> QED BY <3>2, <3>3
    <2> QED BY <2>1 DEF PhaseFits
  <1> QED BY <1>7, <1>9, <1>12, <1>14, <1>15 DEF IInv

-----------------------------------------------------------------------------
(* The beginning, and every step.                                          *)

LEMMA OlderFits ==
    ASSUME NEW schema \in {"Empty", "Legacy", "V7"}, NEW n \in 0..MaxRows - 1,
           NEW about \in [1..n -> Exch], NEW plain \in SUBSET (1..n),
           schema = "Empty" => n = 0, schema = "V7" => plain = {}
    PROVE  /\ FileFits(Older(schema, about, plain))
           /\ Older(schema, about, plain).schema = schema
           /\ \A id \in 1..n : Told(Older(schema, about, plain), id, about[id])
  <1> DEFINE recs == [id \in DOMAIN about |-> IF id \in plain THEN Plain(about[id])
                                             ELSE Extracted(about[id])]
             pays == [id \in DOMAIN about \ plain |-> about[id]]
             f == [schema |-> schema, recs |-> recs, pays |-> pays]
  <1>1. Older(schema, about, plain) = f
    BY DEF Older
  <1>2. DOMAIN about = 1..n /\ 1..n \subseteq Ids /\ n \in Nat
    BY MigrationAssumption DEF Ids
  <1>3. ASSUME NEW id \in 1..n PROVE RowFits(recs[id]) /\ Told(f, id, about[id])
    <2>1. schema \in OldSchemas
      BY DEF OldSchemas
    <2>2. CASE id \in plain
      <3>1. recs[id] = Plain(about[id]) /\ id \in DOMAIN recs /\ id \notin DOMAIN pays
        BY <2>2
      <3>2. schema = "Legacy"
        BY <2>1, <2>2 DEF OldSchemas
      <3> HIDE DEF recs, pays
      <3> QED BY <3>1, <3>2 DEF RowFits, Plain, Told
    <2>3. CASE id \notin plain
      <3>1. /\ recs[id] = Extracted(about[id]) /\ id \in DOMAIN recs
            /\ pays[id] = about[id] /\ id \in DOMAIN pays
        BY <2>3
      <3> HIDE DEF recs, pays
      <3> QED BY <2>1, <3>1 DEF RowFits, Extracted, Told, Converted
    <2> QED BY <2>2, <2>3
  <1>4. /\ DOMAIN recs = 1..n /\ DOMAIN pays \subseteq DOMAIN recs
        /\ recs = [id \in DOMAIN recs |-> recs[id]] /\ pays = [id \in DOMAIN pays |-> pays[id]]
        /\ \A id \in 1..n : about[id] \in Exch
    BY <1>2
  <1> HIDE DEF recs, pays
  <1>5. FileFits(f)
    BY <1>2, <1>3, <1>4 DEF FileFits, Schemas, OldSchemas
  <1> QED BY <1>1, <1>3, <1>5

LEMMA InitInv == Init => IInv
  <1> SUFFICES ASSUME Init PROVE IInv
    OBVIOUS
  <1>1. PICK schema \in {"Empty", "Legacy", "V7"}, n \in 0..MaxRows - 1 :
         \E about \in [1..n -> Exch], plain \in SUBSET (1..n) :
            /\ schema = "Empty" => n = 0
            /\ schema = "V7" => plain = {}
            /\ file = [i \in Inodes |-> IF i = 1 THEN Older(schema, about, plain) ELSE Empty]
            /\ made = about
    BY DEF Init
  <1>2. PICK about \in [1..n -> Exch], plain \in SUBSET (1..n) :
            /\ schema = "Empty" => n = 0
            /\ schema = "V7" => plain = {}
            /\ file = [i \in Inodes |-> IF i = 1 THEN Older(schema, about, plain) ELSE Empty]
            /\ made = about
    BY <1>1
  <1> DEFINE f == Older(schema, about, plain)
  <1>3. FileFits(f) /\ f.schema = schema /\ \A id \in 1..n : Told(f, id, about[id])
    BY <1>2, OlderFits
  <1> HIDE DEF f
  <1>4. /\ dir = [m \in Names |-> IF m = "active" THEN 1 ELSE 0]
        /\ journal = {dir} /\ synced = {1} /\ lock = Nobody /\ reserved = 0
        /\ proc = [p \in Procs |-> "start"] /\ old = [inode |-> 0, writing |-> FALSE]
        /\ faults = 0
    BY DEF Init
  <1>5. 1 \in Inodes /\ file = [i \in Inodes |-> IF i = 1 THEN f ELSE Empty]
        /\ DOMAIN made = 1..n /\ made = about
    BY <1>2, MigrationAssumption DEF Inodes, f
  <1>6. /\ dir \in DirType /\ dir["active"] = 1
        /\ (\A a \in Artifacts : dir[a] = 0) /\ (\A b \in Range(Backups) : dir[b] = 0)
    BY <1>4, <1>5, Apart DEF DirType
  <1>7. file[1] = f /\ Schema(dir) = schema
    BY <1>3, <1>5, <1>6 DEF Schema
  <1>8. FilesFit
    BY <1>3, <1>5, NewFits DEF FilesFit
  <1>9. DirFits
    <2>1. Drop(dir, Artifacts) = dir
      <3>1. \A m \in Names : dir[m] = IF m \in Artifacts THEN 0 ELSE dir[m]
        BY <1>6
      <3>2. dir = [m \in Names |-> dir[m]]
        BY <1>6 DEF DirType
      <3> QED BY <3>1, <3>2 DEF Drop
    <2> QED BY <1>4, <1>6, <2>1, Apart DEF DirFits
  <1>10. Safe
    BY <1>3, <1>4, <1>5, <1>6, <1>7 DEF Safe
  <1>11. AgeFits
    BY <1>4, <1>6 DEF AgeFits
  <1>12. OldFits
    BY <1>4 DEF OldFits
  <1>13. ProcFits
    BY <1>4, MigrationAssumption DEF ProcFits, ProcStates, Migrating
  <1>14. PhaseFits
    <2>1. ASSUME NEW p \in Procs PROVE Phase(p)
      <3>1. proc[p] = "start"
        BY <1>4
      <3> QED BY <3>1 DEF Phase
    <2> QED BY <2>1 DEF PhaseFits
  <1> QED BY <1>8, <1>9, <1>10, <1>11, <1>12, <1>13, <1>14 DEF IInv

LEMMA StillInv == IInv /\ UNCHANGED vars => IInv'
  <1> SUFFICES ASSUME IInv, UNCHANGED vars PROVE IInv'
    OBVIOUS
  <1>1. UNCHANGED <<dir, journal, file, synced, lock, reserved, proc, old, made, faults>>
    BY DEF vars
  <1>2. FilesFit' /\ DirFits' /\ Safe' /\ AgeFits' /\ OldFits'
    BY <1>1, StillDisk DEF IInv
  <1>3. ProcFits'
    BY <1>1 DEF IInv, ProcFits
  <1>4. PhaseFits'
    <2>1. ASSUME NEW p \in Procs, Phase(p) PROVE Phase(p)'
      BY <1>1, <2>1 DEF Phase, Schema, At, TellsMade
    <2> QED BY <1>1, <2>1 DEF IInv, PhaseFits
  <1> QED BY <1>2, <1>3, <1>4 DEF IInv

LEMMA NextInv == IInv /\ [Next]_vars => IInv'
  <1> SUFFICES ASSUME IInv, [Next]_vars PROVE IInv'
    OBVIOUS
  <1>1. ASSUME NEW p \in Procs, Step(p) \/ Fail(p) PROVE IInv'
    <2>1. CASE Turn(p)
      BY <2>1, TurnKeeps
    <2>2. CASE Detect(p)
      BY <2>2, DetectKeeps
    <2>3. CASE snapshot_source(p)
      BY <2>3, SnapshotKeeps
    <2>4. CASE Convert(p)
      BY <2>4, ConvertKeeps
    <2>5. CASE Copy(p)
      BY <2>5, CopyKeeps
    <2>6. CASE SyncTarget(p)
      BY <2>6, SyncTargetKeeps
    <2>7. CASE HardLink(p) \/ CopyBackup(p)
      BY <2>7, BackupStepKeeps
    <2>8. CASE Rename(p)
      BY <2>8, RenameKeeps
    <2>9. CASE SyncParent(p)
      BY <2>9, SyncParentKeeps
    <2>10. CASE Clean(p)
      BY <2>10, CleanKeeps
    <2>11. CASE Open(p)
      BY <2>11, OpenKeeps
    <2> QED BY <1>1, <2>1, <2>2, <2>3, <2>4, <2>5, <2>6, <2>7, <2>8, <2>9, <2>10, <2>11
            DEF Step, Turn
  <1>2. CASE PowerLoss
    BY <1>2, PowerLossKeeps
  <1>3. CASE OldOpens \/ OldBegins \/ OldRollsBack \/ OldCloses
    BY <1>3, OldTurnKeeps
  <1>4. CASE OldCommits
    BY <1>4, OldCommitsKeeps
  <1>5. CASE UNCHANGED vars
    BY <1>5, StillInv
  <1> QED BY <1>1, <1>2, <1>3, <1>4, <1>5 DEF Next

LEMMA Invariance == Spec => []IInv
  BY InitInv, NextInv, PTL DEF Spec

(* Only the active database is ever put in WAL mode.                       *)
LEMMA WalNext == IInv /\ wal \subseteq Inodes /\ [Next]_vars => (wal \subseteq Inodes)'
  <1> SUFFICES ASSUME IInv, wal \subseteq Inodes, [Next]_vars PROVE wal' \subseteq Inodes
    OBVIOUS
  <1>1. ASSUME NEW p \in Procs, Step(p) \/ Fail(p) PROVE wal' \subseteq wal
    <2>1. CASE LeaveWal(p)
      BY <2>1 DEF LeaveWal
    <2>2. CASE ~LeaveWal(p)
      BY <1>1, <2>2
         DEF Step, Fail, Probe, AcquireLock, LockTimeout, Detect, WalBusy, snapshot_source,
             SnapshotBusy, Convert, Copy, Verify, SyncTarget, NotDrained, HardLink,
             CopyBackup, Rename, SyncParent, Clean, Open
    <2> QED BY <2>1, <2>2
  <1>2. CASE OldOpens
    BY <1>2, DirActive DEF IInv, OldOpens
  <1>3. CASE PowerLoss \/ OldBegins \/ OldCommits \/ OldRollsBack \/ OldCloses
             \/ UNCHANGED vars
    BY <1>3 DEF PowerLoss, OldBegins, OldCommits, OldRollsBack, OldCloses, vars
  <1> QED BY <1>1, <1>2, <1>3 DEF Next

LEMMA WalInvariance == Spec => [](wal \subseteq Inodes)
  <1>1. Init => wal \subseteq Inodes
    BY MigrationAssumption DEF Init, Inodes
  <1> QED BY <1>1, WalNext, Invariance, PTL DEF Spec

-----------------------------------------------------------------------------
(* Results.                                                                *)

\* Whatever is killed or loses power, the names of the artifacts never share a file with
\* another name, a file holds rows of the ids there are, with payloads only for rows it
\* has, and the process that migrates is the one that holds the lock file, without which
\* there is no reservation (migrate.rs: migrate_path_to_v8, snapshot_source).
THEOREM MigrationTypeCorrect == Spec => []TypeOK
  <1>1. IInv /\ wal \subseteq Inodes => TypeOK
    <2> SUFFICES ASSUME IInv, wal \subseteq Inodes PROVE TypeOK
      OBVIOUS
    <2>1. FilesFit /\ DirFits /\ ProcFits /\ Safe
      BY DEF IInv
    <2>2. dir \in [Names -> Inodes \union {0}]
      BY <2>1 DEF DirFits, DirType
    <2>3. ASSUME NEW n \in Names, NEW m \in Names, dir[n] = dir[m], dir[n] # 0, n # m
          PROVE  "active" \in {n, m} \/ {n, m} \subseteq Range(Backups)
      <3>1. \A a \in Artifacts, b \in Range(Backups) : dir[a] # 0 => dir[a] # dir[b]
        BY <2>1, DirActive
      <3>2. dir["stage"] # 0 => dir["stage"] # dir["target"]
        BY <2>1 DEF DirFits
      <3> QED BY <2>3, <3>1, <3>2, Apart
    <2>4. \A i \in Inodes : /\ file[i].schema \in {"Empty", "Legacy", "V7", "V8"}
                            /\ DOMAIN file[i].recs \subseteq Ids
                            /\ DOMAIN file[i].pays \subseteq DOMAIN file[i].recs
      BY <2>1 DEF FilesFit, FileFits, Schemas
    <2>5. DOMAIN made \subseteq Ids
      <3>1. TellsMade(At("active")) /\ FileFits(At("active"))
        BY <2>1, SafeNow, SchemaNow
      <3> QED BY <3>1 DEF TellsMade, Told, Converted, FileFits
    <2> QED BY <2>1, <2>2, <2>3, <2>4, <2>5 DEF TypeOK, ProcFits
  <1> QED BY <1>1, Invariance, WalInvariance, PTL

\* Whatever fails, is killed or loses power in the middle of a migration, the file under
\* the active name holds every record that was committed to the database, in its old form
\* or in its new one (migrate.rs: replace_active, sync_file, sync_parent).
THEOREM NoRecordIsLost == Spec => []NoRecordLost
  <1>1. IInv => NoRecordLost
    <2> SUFFICES ASSUME IInv PROVE NoRecordLost
      OBVIOUS
    <2>1. DirFits /\ Safe
      BY DEF IInv
    <2>2. dir["active"] # 0
      BY <2>1, DirActive
    <2>3. \A id \in DOMAIN made : Told(At("active"), id, made[id])
      BY <2>1, SafeNow DEF TellsMade
    <2>4. \A f, id, x : Told(f, id, x) => Tells(f, id, x)
      BY DEF Told, Converted, Tells
    <2> QED BY <2>2, <2>3, <2>4 DEF NoRecordLost
  <1> QED BY <1>1, Invariance, PTL

\* A process that serves the database has it in its new form: every row has its columns,
\* its time if the old text could be read, its payload under its own id and its search
\* text; and no stage or target of an earlier attempt is left (mod.rs: init_db;
\* migrate.rs: copy_batch, cleanup_artifacts).
THEOREM ServedDatabaseComplete == Spec => []ServedComplete
  <1>1. IInv => ServedComplete
    <2> SUFFICES ASSUME IInv, NEW p \in Procs, proc[p] = "serving"
                 PROVE  /\ At("active").schema = "V8"
                        /\ dir["stage"] = 0 /\ dir["target"] = 0
                        /\ \A id \in DOMAIN made :
                              LET r == At("active").recs[id]
                              IN  /\ r.cols = {Columns[made[id]]}
                                  /\ r.timed = Exchanges[made[id]].parsable
                                  /\ r.search = search_text(r)
                                  /\ At("active").pays[id] = made[id]
      BY DEF ServedComplete
    <2>1. FilesFit /\ DirFits /\ Safe /\ PhaseFits /\ Phase(p)
      BY DEF IInv, PhaseFits
    <2>2. Schema(dir) = "V8" /\ dir["stage"] = 0 /\ dir["target"] = 0
      BY <2>1, Apart DEF Phase
    <2>3. At("active").schema = "V8" /\ TellsMade(At("active"))
      BY <2>1, <2>2, SafeNow, SchemaNow
    <2>4. \A f, id, x : Told(f, id, x) /\ f.schema = "V8" =>
             /\ Converted(f, id, x) /\ f.recs[id].search = search_text(f.recs[id])
      BY DEF Told, OldSchemas
    <2>5. ASSUME NEW id \in DOMAIN made
          PROVE  /\ At("active").recs[id].cols = {Columns[made[id]]}
                 /\ At("active").recs[id].timed = Exchanges[made[id]].parsable
                 /\ At("active").recs[id].search = search_text(At("active").recs[id])
                 /\ At("active").pays[id] = made[id]
      BY <2>3, <2>4 DEF TellsMade, Converted
    <2> QED BY <2>2, <2>3, <2>5
  <1> QED BY <1>1, Invariance, PTL
=============================================================================
