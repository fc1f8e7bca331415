----------------------------- MODULE Migration -----------------------------
(***************************************************************************)
(* The upgrade of an audit database to the v8 schema at startup: db/mod.rs *)
(* (init_db), db/migrate.rs, db/legacy.rs and db/migrate_verify.rs.        *)
(*                                                                         *)
(* The disk is a directory, which maps names to inodes, and the contents   *)
(* of the inodes: the cutover links, renames and unlinks names, and a      *)
(* connection stays with the inode it opened.  Processes start, fail, are  *)
(* killed and start again; an older program may have the database open;    *)
(* the machine may lose power, and with it what was not synced.            *)
(***************************************************************************)
EXTENDS Extract

CONSTANTS Procs,       \* the processes that open the database
          Exchanges,   \* what the rows of the database are about, in a sequence
          MaxRows,     \* bound: ids of the database
          Batch,       \* --batch, 200 at startup
          Backups,     \* the names for backups, in order; bound: their number
          MaxInodes,   \* bound: files on the disk
          MaxFaults    \* bound: failing steps, kills and power losses

Artifacts == {"stage", "target"}
Nobody == "nobody"

ASSUME MigrationAssumption ==
    /\ MaxRows \in Nat /\ Batch \in Nat \ {0} /\ MaxFaults \in Nat
    /\ MaxInodes \in Nat \ {0}
    /\ Nobody \notin Procs
    /\ Backups \in Seq(STRING) /\ Range(Backups) \cap ({"active"} \union Artifacts) = {}

VARIABLES
    dir,      \* the directory: name -> inode, 0 when the name is free
    journal,  \* the directories since the last sync, without the artifacts
    file,     \* the contents of the inodes
    synced,   \* the inodes whose contents survive a power loss
    lock,     \* the process that holds <path>.v8-migrate.lock
    reserved, \* the inode on which a migration holds BEGIN IMMEDIATE
    proc,     \* the processes
    old,      \* the connection of the older program
    wal,      \* the inodes whose databases are in WAL mode
    made,     \* what was committed to the active database, by id
    faults    \* the faults so far

vars == <<dir, journal, file, synced, lock, reserved, proc, old, wal, made, faults>>

Ids == 1..MaxRows
Inodes == 1..MaxInodes
Names == {"active"} \union Artifacts \union Range(Backups)

-----------------------------------------------------------------------------
(* Contents *)

\* An exchange is named by its index; its columns are extracted once.
Exch == DOMAIN Exchanges
Columns == [x \in Exch |-> BuildRecord(Exchanges[x])]

\* A row: the plaintext body the old schema keeps, the columns extracted from it,
\* its SearchText (each a set of at most one), and whether TimeMs is known.

Empty == [schema |-> "Empty", recs |-> <<>>, pays |-> <<>>]

Plain(x) == [body |-> {x}, cols |-> {}, search |-> {}, timed |-> FALSE]
Extracted(x) == [body |-> {}, cols |-> {Columns[x]}, search |-> {},
                 timed |-> Exchanges[x].parsable]

\* A database of an older version: a payload for the rows that are not plain.
Older(schema, about, plain) ==
    [schema |-> schema,
     recs |-> [id \in DOMAIN about |-> IF id \in plain THEN Plain(about[id])
                                       ELSE Extracted(about[id])],
     pays |-> [id \in DOMAIN about \ plain |-> about[id]]]

\* migrate_archive, in one transaction: rows that have a payload keep their columns.
migrate_archive(f) ==
    LET body(id) == CHOOSE x \in f.recs[id].body : TRUE
    IN  [schema |-> "V7",
         recs |-> [id \in DOMAIN f.recs |->
                      IF id \in DOMAIN f.pays THEN [f.recs[id] EXCEPT !.body = {}]
                      ELSE Extracted(body(id))],
         pays |-> [id \in DOMAIN f.recs |->
                      IF id \in DOMAIN f.pays THEN f.pays[id] ELSE body(id)]]

\* SearchText as the copy builds it: the three previews, without the caps.
search_text(row) ==
    {<<Shown(c.request.prompt), Shown(c.request.tail), Shown(c.response.answer)>>
        : c \in row.cols}

\* The next batch of run_copy: records by id, with the payloads of their range.
NextIds(from, to) ==
    LET left == {id \in DOMAIN from.recs : \A d \in DOMAIN to.recs : d < id}
    IN  {id \in left : Cardinality({i \in left : i < id}) < Batch}

\* A bug: the payload of the last record of the batch is left for a batch that never comes.
CopyBatchShort(from, to) ==
    LET ids == NextIds(from, to)
        range == {id \in DOMAIN from.pays : /\ \A d \in DOMAIN to.recs : d < id
                                            /\ id < Max(ids)}
    IN  [schema |-> "V8",
         recs |-> [id \in DOMAIN to.recs \union ids |->
                      IF id \in ids
                      THEN [from.recs[id] EXCEPT !.search = search_text(from.recs[id])]
                      ELSE to.recs[id]],
         pays |-> [id \in DOMAIN to.pays \union range |-> from.pays[id]]]

CopyBatch(from, to) ==
    LET ids == NextIds(from, to)
        range == {id \in DOMAIN from.pays : /\ \A d \in DOMAIN to.recs : d < id
                                            /\ id <= Max(ids)}
    IN  [schema |-> "V8",
         recs |-> [id \in DOMAIN to.recs \union ids |->
                      IF id \in ids
                      THEN [from.recs[id] EXCEPT !.search = search_text(from.recs[id])]
                      ELSE to.recs[id]],
         pays |-> [id \in DOMAIN to.pays \union range |-> from.pays[id]]]

\* verify: as many records, the same payloads, the same bounds of TimeMs, and a
\* SearchText that is what the previews say.
verify(from, to) ==
    /\ Cardinality(DOMAIN from.recs) = Cardinality(DOMAIN to.recs)
    /\ from.pays = to.pays
    /\ {from.recs[id].timed : id \in DOMAIN from.recs}
        = {to.recs[id].timed : id \in DOMAIN to.recs}
    /\ \A id \in DOMAIN to.recs : to.recs[id].search = search_text(to.recs[id])

-----------------------------------------------------------------------------
(* The disk *)

\* A new file has an inode that nothing refers to.
FreeInodes == {i \in Inodes : /\ \A d \in journal \union {dir} : i \notin Range(d)
                              /\ i # old.inode}
FreshInode == CHOOSE i \in FreeInodes : TRUE

Drop(d, names) == [n \in Names |-> IF n \in names THEN 0 ELSE d[n]]

\* A change of the directory, durable only once the directory is synced.
Relink(d) == dir' = d /\ journal' = journal \union {Drop(d, Artifacts)}

At(name) == file[dir[name]]

\* unique_backup_path: the first name that is free.
FreeBackups == {i \in DOMAIN Backups : dir[Backups[i]] = 0}
unique_backup_path == Backups[Min(FreeBackups)]

detect_schema(name) == IF dir[name] = 0 THEN "Empty" ELSE At(name).schema

-----------------------------------------------------------------------------
(* The processes *)

Goto(p, pc) == proc' = [proc EXCEPT ![p] = pc]

\* A bug: the reservation outlives the lock.
ReleaseLockOnly(p) ==
    /\ lock' = IF lock = p THEN Nobody ELSE lock
    /\ reserved' = reserved

\* Leaving migrate_path_to_v8, by return, error or death: the lock file is closed
\* and the connection that holds the reservation with it.
Release(p) ==
    /\ lock' = IF lock = p THEN Nobody ELSE lock
    /\ reserved' = IF lock = p THEN 0 ELSE reserved

Init ==
    /\ \E schema \in {"Empty", "Legacy", "V7"}, n \in 0..MaxRows - 1 :
         \E about \in [1..n -> Exch], plain \in SUBSET (1..n) :
            /\ schema = "Empty" => n = 0
            /\ schema = "V7" => plain = {}
            /\ file = [i \in Inodes |-> IF i = 1 THEN Older(schema, about, plain) ELSE Empty]
            /\ made = about
    /\ dir = [n \in Names |-> IF n = "active" THEN 1 ELSE 0]
    /\ journal = {dir}
    /\ synced = {1}
    /\ lock = Nobody /\ reserved = 0
    /\ proc = [p \in Procs |-> "start"]
    /\ old = [inode |-> 0, writing |-> FALSE]
    /\ wal \in SUBSET {1}
    /\ faults = 0

\* init_db probes before the lock: an old database, or a v8 one whose artifacts are
\* to be removed, goes to migrate_path_to_v8; a new one is opened at once.
Probe(p) ==
    /\ proc[p] = "start"
    /\ Goto(p, IF detect_schema("active") = "Empty" THEN "open" ELSE "lock")
    /\ UNCHANGED <<dir, journal, file, synced, lock, reserved, old, wal, made, faults>>

AcquireLock(p) ==
    /\ proc[p] = "lock" /\ lock = Nobody
    /\ lock' = p
    /\ Goto(p, "detect")
    /\ UNCHANGED <<dir, journal, file, synced, reserved, old, wal, made, faults>>

\* MIGRATION_TIMEOUT passes while another process migrates: the process ends, and may
\* be started again, as after every other error.
LockTimeout(p) ==
    /\ proc[p] = "lock" /\ lock # Nobody
    /\ Goto(p, "start")
    /\ UNCHANGED <<dir, journal, file, synced, lock, reserved, old, wal, made, faults>>

\* A bug: a database that is v8 already is opened as it is, whatever lies beside it.
DetectKeepsStage(p) ==
    /\ proc[p] = "detect"
    /\ IF detect_schema("active") = "V8"
       THEN Goto(p, "open") /\ Release(p) /\ UNCHANGED <<dir, journal>>
       ELSE Goto(p, "snapshot") /\ Relink(Drop(dir, Artifacts))
            /\ UNCHANGED <<lock, reserved>>
    /\ UNCHANGED <<file, synced, old, wal, made, faults>>

\* The schema is read again under the lock.  What an earlier attempt left behind is
\* removed; a database that is v8 by now needs nothing else.
Detect(p) ==
    /\ proc[p] = "detect"
    /\ Relink(Drop(dir, Artifacts))
    /\ IF detect_schema("active") = "V8" THEN Goto(p, "open") /\ Release(p)
       ELSE Goto(p, "snapshot") /\ UNCHANGED <<lock, reserved>>
    /\ UNCHANGED <<file, synced, old, wal, made, faults>>

\* The older program has the database open.
OldHasOpen == old.inode # 0 /\ old.inode = dir["active"]

\* snapshot_source, PRAGMA journal_mode = DELETE: a database leaves WAL mode when no
\* other connection has it open, be it idle.
LeaveWal(p) ==
    /\ proc[p] = "snapshot" /\ ~(OldHasOpen /\ dir["active"] \in wal)
    /\ wal' = wal \ {dir["active"]}
    /\ Goto(p, "reserve")
    /\ UNCHANGED <<dir, journal, file, synced, lock, reserved, old, made, faults>>

WalBusy(p) ==
    /\ proc[p] = "snapshot" /\ OldHasOpen /\ dir["active"] \in wal
    /\ Goto(p, "start") /\ Release(p)
    /\ UNCHANGED <<dir, journal, file, synced, old, wal, made, faults>>

\* Then the reservation, and VACUUM INTO the stage.
snapshot_source(p) ==
    /\ proc[p] = "reserve" /\ ~(OldHasOpen /\ old.writing)
    /\ FreeInodes # {}
    /\ reserved' = dir["active"]
    /\ LET i == FreshInode
       IN  /\ Relink([dir EXCEPT !["stage"] = i])
           /\ file' = [file EXCEPT ![i] = At("active")]
           /\ synced' = synced \ {i}
    /\ Goto(p, "convert")
    /\ UNCHANGED <<lock, old, wal, made, faults>>

\* busy_timeout passes while the older program is in a transaction.
SnapshotBusy(p) ==
    /\ proc[p] = "reserve" /\ OldHasOpen /\ old.writing
    /\ Goto(p, "start") /\ Release(p)
    /\ UNCHANGED <<dir, journal, file, synced, old, wal, made, faults>>

\* migrate_staged_legacy on a legacy stage; then the empty target.
Convert(p) ==
    /\ proc[p] = "convert" /\ FreeInodes # {}
    /\ LET i == FreshInode
       IN  /\ Relink([dir EXCEPT !["target"] = i])
           /\ file' = [file EXCEPT ![i] = [Empty EXCEPT !.schema = "V8"],
                                   ![dir["stage"]] =
                                      IF @.schema = "Legacy" THEN migrate_archive(@) ELSE @]
           /\ synced' = synced \ {i}
    /\ Goto(p, "copy")
    /\ UNCHANGED <<lock, reserved, old, wal, made, faults>>

Copy(p) ==
    /\ proc[p] = "copy" /\ NextIds(At("stage"), At("target")) # {}
    /\ file' = [file EXCEPT ![dir["target"]] = CopyBatch(At("stage"), @)]
    /\ UNCHANGED <<dir, journal, synced, lock, reserved, proc, old, wal, made, faults>>

\* All rows are copied: the FTS index, the checkpoint, the verification.
Verify(p) ==
    /\ proc[p] = "copy" /\ NextIds(At("stage"), At("target")) = {}
    /\ IF verify(At("stage"), At("target")) THEN Goto(p, "sync") /\ UNCHANGED <<lock, reserved>>
       ELSE Goto(p, "start") /\ Release(p)
    /\ UNCHANGED <<dir, journal, file, synced, old, wal, made, faults>>

\* A bug: the target takes its name before its contents are on the disk.
SyncNothing(p) ==
    /\ proc[p] = "sync"
    /\ Goto(p, "backup")
    /\ UNCHANGED <<dir, journal, file, synced, lock, reserved, old, wal, made, faults>>

\* replace_active: the target is synced, the original gets a second name (or, where
\* links are not possible, a copy), and the target takes the name of the original.
SyncTarget(p) ==
    /\ proc[p] = "sync"
    /\ synced' = synced \union {dir["target"]}
    /\ Goto(p, "backup")
    /\ UNCHANGED <<dir, journal, file, lock, reserved, old, wal, made, faults>>

\* A database that was put in WAL mode before it was reserved has its sidecars still.
NotDrained(p) ==
    /\ proc[p] = "backup" /\ dir["active"] \in wal
    /\ Goto(p, "start") /\ Release(p)
    /\ UNCHANGED <<dir, journal, file, synced, old, wal, made, faults>>

HardLink(p) ==
    /\ proc[p] = "backup" /\ dir["active"] \notin wal /\ FreeBackups # {}
    /\ Relink([dir EXCEPT ![unique_backup_path] = dir["active"]])
    /\ Goto(p, "rename")
    /\ UNCHANGED <<file, synced, lock, reserved, old, wal, made, faults>>

CopyBackup(p) ==
    /\ proc[p] = "backup" /\ dir["active"] \notin wal
    /\ FreeBackups # {} /\ FreeInodes # {}
    /\ LET i == FreshInode
       IN  /\ Relink([dir EXCEPT ![unique_backup_path] = i])
           /\ file' = [file EXCEPT ![i] = At("active")]
           /\ synced' = synced \ {i}
    /\ Goto(p, "rename")
    /\ UNCHANGED <<lock, reserved, old, wal, made, faults>>

Rename(p) ==
    /\ proc[p] = "rename"
    /\ Relink([Drop(dir, {"target"}) EXCEPT !["active"] = dir["target"]])
    /\ Goto(p, "sync_parent")
    /\ UNCHANGED <<file, synced, lock, reserved, old, wal, made, faults>>

SyncParent(p) ==
    /\ proc[p] = "sync_parent"
    /\ journal' = {Drop(dir, Artifacts)}
    /\ Goto(p, "clean")
    /\ UNCHANGED <<dir, file, synced, lock, reserved, old, wal, made, faults>>

Clean(p) ==
    /\ proc[p] = "clean"
    /\ Relink(Drop(dir, {"stage"}))
    /\ Goto(p, "open") /\ Release(p)
    /\ UNCHANGED <<file, synced, old, wal, made, faults>>

\* AuditStore::open creates the schema of a new database and refuses one of another
\* version.
Open(p) ==
    /\ proc[p] = "open"
    /\ IF detect_schema("active") \in {"V8", "Empty"}
       THEN /\ file' = [file EXCEPT ![dir["active"]].schema = "V8"]
            /\ Goto(p, "serving")
       ELSE Goto(p, "start") /\ UNCHANGED file
    /\ UNCHANGED <<dir, journal, synced, lock, reserved, old, wal, made, faults>>

Migrating == {"detect", "snapshot", "reserve", "convert", "copy", "sync", "backup", "rename",
              "sync_parent", "clean"}

\* A step fails and migrate_path_to_v8 returns its error, or the process is killed.
\* Nothing is undone: when it is started again, it goes by what is on the disk.
Fail(p) ==
    /\ proc[p] \in Migrating /\ faults < MaxFaults
    /\ faults' = faults + 1
    /\ Goto(p, "start") /\ Release(p)
    /\ UNCHANGED <<dir, journal, file, synced, old, wal, made>>

-----------------------------------------------------------------------------
(* The environment *)

\* The machine stops: the database and its backups come back as at any moment since
\* the last sync, the artifacts in any form, and a file that was not synced torn.
PowerLoss ==
    /\ faults < MaxFaults
    /\ faults' = faults + 1
    /\ \E d \in journal :
         \E stage \in {0, dir["stage"]}, torn \in SUBSET (Range(d) \ (synced \union {0})),
            target \in {0, dir["target"]} \union ({dir["active"]} \ {d["active"]}) :
           /\ dir' = [d EXCEPT !["stage"] = stage, !["target"] = target]
           /\ journal' = {d}
           /\ file' = [i \in Inodes |-> IF i \in torn THEN Empty ELSE file[i]]
    /\ proc' = [p \in Procs |-> "start"]
    /\ lock' = Nobody /\ reserved' = 0
    /\ old' = [inode |-> 0, writing |-> FALSE]
    /\ UNCHANGED <<synced, wal, made>>

\* The older program: it opens the database, in WAL mode if it likes, and writes, both
\* while no reservation is held.
OldOpens ==
    /\ old.inode = 0 /\ dir["active"] # 0 /\ At("active").schema \in {"Legacy", "V7"}
    /\ old' = [inode |-> dir["active"], writing |-> FALSE]
    /\ wal' \in {wal} \union (IF reserved = dir["active"] THEN {}
                             ELSE {wal \union {dir["active"]}})
    /\ UNCHANGED <<dir, journal, file, synced, lock, reserved, proc, made, faults>>

OldBegins ==
    /\ old.inode # 0 /\ ~old.writing /\ reserved # old.inode
    /\ old' = [old EXCEPT !.writing = TRUE]
    /\ UNCHANGED <<dir, journal, file, synced, lock, reserved, proc, wal, made, faults>>

\* A row at the end: with its payload in a v7 database, as plain text in an older one.
Appended(f, id, x) ==
    [schema |-> f.schema,
     recs |-> [i \in 1..id |-> IF i # id THEN f.recs[i]
                               ELSE IF f.schema = "V7" THEN Extracted(x) ELSE Plain(x)],
     pays |-> [i \in DOMAIN f.pays \union (IF f.schema = "V7" THEN {id} ELSE {}) |->
                 IF i = id THEN x ELSE f.pays[i]]]

\* A row for another exchange than those recorded, which may be of the same content.
OldCommits ==
    /\ old.writing
    /\ old' = [inode |-> 0, writing |-> FALSE]
    /\ LET f == file[old.inode]
           id == Cardinality(DOMAIN f.recs) + 1
       IN  /\ id \in Ids
           /\ \E x \in Exch \ Range(made) :
                /\ file' = [file EXCEPT ![old.inode] = Appended(f, id, x)]
                /\ made' = IF old.inode = dir["active"]
                           THEN [i \in DOMAIN made \union {id} |-> IF i = id THEN x ELSE made[i]]
                           ELSE made
    /\ UNCHANGED <<dir, journal, synced, lock, reserved, proc, wal, faults>>

OldRollsBack ==
    /\ old.writing
    /\ old' = [inode |-> 0, writing |-> FALSE]
    /\ UNCHANGED <<dir, journal, file, synced, lock, reserved, proc, wal, made, faults>>

OldCloses ==
    /\ old.inode # 0 /\ ~old.writing
    /\ old' = [inode |-> 0, writing |-> FALSE]
    /\ UNCHANGED <<dir, journal, file, synced, lock, reserved, proc, wal, made, faults>>

Step(p) ==
    \/ Probe(p) \/ AcquireLock(p) \/ LockTimeout(p) \/ Detect(p)
    \/ LeaveWal(p) \/ WalBusy(p) \/ snapshot_source(p) \/ SnapshotBusy(p)
    \/ Convert(p) \/ Copy(p) \/ Verify(p) \/ SyncTarget(p)
    \/ NotDrained(p) \/ HardLink(p) \/ CopyBackup(p)
    \/ Rename(p) \/ SyncParent(p) \/ Clean(p) \/ Open(p)

Next ==
    \/ \E p \in Procs : Step(p) \/ Fail(p)
    \/ PowerLoss
    \/ OldOpens \/ OldBegins \/ OldCommits \/ OldRollsBack \/ OldCloses

\* A process that is started runs on; a transaction of the older program ends.
Spec == Init /\ [][Next]_vars
             /\ \A p \in Procs : WF_vars(Step(p))
             /\ WF_vars(OldRollsBack)

-----------------------------------------------------------------------------
(* Properties *)

\* Type correctness.  A reservation is held only by the holder of the lock file, and
\* the names of the migration's artifacts never share an inode.
TypeOK ==
    /\ dir \in [Names -> Inodes \union {0}]
    /\ \A n, m \in Names : dir[n] = dir[m] /\ dir[n] # 0 /\ n # m =>
          "active" \in {n, m} \/ {n, m} \subseteq Range(Backups)
    /\ \A i \in Inodes : /\ file[i].schema \in {"Empty", "Legacy", "V7", "V8"}
                         /\ DOMAIN file[i].recs \subseteq Ids
                         /\ DOMAIN file[i].pays \subseteq DOMAIN file[i].recs
    /\ lock \in Procs \union {Nobody}
    /\ reserved # 0 => lock # Nobody
    /\ \A p \in Procs : proc[p] \in Migrating <=> lock = p
    /\ wal \subseteq Inodes
    /\ DOMAIN made \subseteq Ids /\ faults \in 0..MaxFaults

\* What the database says of row id: the exchange it is about.
Tells(f, id, x) ==
    /\ id \in DOMAIN f.recs
    /\ \/ f.recs[id].body = {x}
       \/ f.recs[id].cols = {Columns[x]} /\ id \in DOMAIN f.pays /\ f.pays[id] = x

\* No record is lost: whatever fails, is killed or loses power in the middle of a
\* migration, the file under the active name holds every record that was committed
\* to the database, in its old form or in its new one.
NoRecordLost ==
    /\ dir["active"] # 0
    /\ \A id \in DOMAIN made : Tells(At("active"), id, made[id])

\* A process that serves the database has it in its new form: every row has its
\* columns, its time if the old text could be read, its payload under its own id and
\* its search text; and no stage or target of an earlier attempt is left.
ServedComplete ==
    (\E p \in Procs : proc[p] = "serving") =>
        /\ At("active").schema = "V8"
        /\ dir["stage"] = 0 /\ dir["target"] = 0
        /\ \A id \in DOMAIN made :
              LET r == At("active").recs[id]
              IN  /\ r.cols = {Columns[made[id]]} /\ r.timed = Exchanges[made[id]].parsable
                  /\ r.search = search_text(r) /\ At("active").pays[id] = made[id]

\* The faults being over, the database is served in the end, unless the older program
\* keeps taking the write lock or keeps the database open in WAL mode, in which it may
\* be idle: no failed attempt leaves a state a retry cannot pass.
EventuallyServed ==
    <>[](~(OldHasOpen /\ (old.writing \/ dir["active"] \in wal)))
        => <>(\E p \in Procs : proc[p] = "serving")
============================================================================
