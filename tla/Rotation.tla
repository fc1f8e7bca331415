------------------------------ MODULE Rotation ------------------------------
(***************************************************************************)
(* The files of the audit log: monthly rotation (src/db/rotation.rs), the  *)
(* start of the process (src/db/mod.rs, src/main.rs), the registry of      *)
(* archives (src/db/archive.rs) and how a query collects the files it      *)
(* reads (src/handlers/analysis_api/shards.rs).                            *)
(*                                                                         *)
(* Time is the local month and, for the suffix of an archive's name, the   *)
(* second.  A file is a number, so that a store kept open keeps its file   *)
(* when the file is renamed.  The audit writer is seen through what it     *)
(* promises (module AuditLog): accepted rows are committed to its store,   *)
(* seal commits what is pending and stops, resume continues.               *)
(***************************************************************************)
EXTENDS Integers, FiniteSets

CONSTANTS Loggers,    \* tasks that log records
          MaxMonth,   \* bound: the clock stops there
          MaxSecond,  \* bound: seconds that rotations may fall into
          MaxRows,    \* bound: how many records are logged
          MaxFiles,   \* bound: how many database files are created
          MaxFaults,  \* bound: failures of file operations and of the writer
          MaxCrashes, \* bound: how often the process dies
          MaxQueries  \* bound: how many queries collect their shards

ASSUME RotationBounds ==
    /\ {MaxMonth, MaxSecond, MaxFiles} \subseteq Nat \ {0}
    /\ {MaxRows, MaxFaults, MaxCrashes, MaxQueries} \subseteq Nat
ASSUME CheckerAssumption == "checker" \notin Loggers

Months == 1..MaxMonth
Files  == 1..MaxFiles
NoFile == 0
Row    == [n : 1..MaxRows, month : Months]

(* record_YYYYMM.db has suffix 0, record_YYYYMM_<unix seconds>.db another; *)
(* record.db itself has no month.                                          *)
Names  == [month : Months, suffix : 0..MaxSecond]
Active == [month |-> 0, suffix |-> 0]
Paths  == {Active} \cup Names

Tasks == Loggers \cup {"checker"}
Nobody == "nobody"

VARIABLES
    month, second,   \* the local clock
    disk,            \* which file each path names
    rows,            \* committed rows of each file
    created,         \* files created so far
    db,              \* app_state.db: the file of the active store
    store,           \* the writer's store, NoFile while it is sealed
    queue,           \* rows the writer accepted and has not committed
    active,          \* active_yyyymm; next_month_boundary_ms is its end
    log,             \* each logging task: where it is, and its record
    logged,          \* records built so far
    rot,             \* the holder of db_rotation_lock and its progress
    shards, failed,  \* the registry: opened archives, names given up on
    query,           \* a query that collects its shards
    asked, faults, crashes

clock    == <<month, second>>
registry == <<shards, failed>>
bounds   == <<asked, faults, crashes>>
vars == <<clock, disk, rows, created, db, store, queue, active, log, logged,
          rot, registry, query, bounds>>

MonthsOf(S) == {r.month : r \in S}
Latest(S)   == CHOOSE m \in S : \A k \in S : k <= m
Earliest(S) == CHOOSE m \in S : \A k \in S : k >= m

(* current_data_yyyymm: the month of MAX(TimeMs) of the active store. *)
HasData   == rows[db] # {}
DataMonth == Latest(MonthsOf(rows[db]))

Free == [by |-> Nobody, at |-> "free", name |-> Active]
Idle == [at |-> "idle", row |-> [n |-> 0, month |-> 1]]
NoQuery == [at |-> "idle", lo |-> 1, hi |-> 1, pending |-> {}, found |-> {},
            skipped |-> {}, before |-> {}, quiet |-> TRUE]

(* A start: init_db opens record.db or creates it, the writer gets the     *)
(* store, init_rotation_state takes the month from the data, or the clock. *)
Start(file) ==
    /\ db' = file
    /\ store' = file
    /\ disk' = [disk EXCEPT ![Active] = file]
    /\ active' = IF rows[file] = {} THEN month ELSE Latest(MonthsOf(rows[file]))

Init ==
    /\ month = 1 /\ second = 1
    /\ disk = [p \in Paths |-> IF p = Active THEN 1 ELSE NoFile]
    /\ rows = [f \in Files |-> {}]
    /\ created = 1
    /\ db = 1 /\ store = 1 /\ queue = {}
    /\ active = 1
    /\ log = [l \in Loggers |-> Idle] /\ logged = 0
    /\ rot = Free
    /\ shards = {} /\ failed = {}
    /\ query = NoQuery
    /\ asked = 0 /\ faults = 0 /\ crashes = 0

-----------------------------------------------------------------------------
(* The environment.                                                        *)

NextSecond ==
    /\ second < MaxSecond
    /\ second' = second + 1
    /\ month' \in {month} \cup {m \in Months : m = month + 1}
    /\ UNCHANGED <<disk, rows, created, db, store, queue, active, log, logged,
                   rot, registry, query, bounds>>

Fault == faults < MaxFaults /\ faults' = faults + 1

(* The process dies and is started again; what is not on disk is gone.     *)
Restart ==
    /\ crashes < MaxCrashes
    /\ crashes' = crashes + 1
    /\ IF disk[Active] # NoFile
       THEN Start(disk[Active]) /\ UNCHANGED created
       ELSE created < MaxFiles /\ created' = created + 1 /\ Start(created + 1)
    /\ queue' = {}
    /\ log' = [l \in Loggers |-> Idle]
    /\ rot' = Free
    /\ shards' = {} /\ failed' = {}
    /\ query' = NoQuery
    /\ UNCHANGED <<clock, rows, logged, asked, faults>>

(* The writer commits a row to its store. *)
Commit(r) ==
    /\ r \in queue
    /\ store # NoFile
    /\ rows' = [rows EXCEPT ![store] = @ \cup {r}]
    /\ queue' = queue \ {r}
    /\ UNCHANGED <<clock, disk, created, db, store, active, log, logged, rot,
                   registry, query, bounds>>

-----------------------------------------------------------------------------
(* log_request: the record gets the time at which it is built, then        *)
(* rotate_if_needed looks at the month boundary, then it is enqueued.      *)

Build(l) ==
    /\ log[l].at = "idle"
    /\ logged < MaxRows
    /\ logged' = logged + 1
    /\ log' = [log EXCEPT ![l] =
                 [at |-> "check", row |-> [n |-> logged + 1, month |-> month]]]
    /\ UNCHANGED <<clock, disk, rows, created, db, store, queue, active, rot,
                   registry, query, bounds>>

PastBoundary(l) == log[l].row.month > active

(* One atomic load decides between the fast path and the lock. *)
Check(l) ==
    /\ log[l].at = "check"
    /\ log' = [log EXCEPT ![l].at = IF PastBoundary(l) THEN "lock" ELSE "send"]
    /\ UNCHANGED <<clock, disk, rows, created, db, store, queue, active, logged,
                   rot, registry, query, bounds>>

(* A task that holds the rotation lock enqueues after it has released it. *)
Enqueue(l) ==
    /\ log[l].at = "send"
    /\ rot.by # l
    /\ queue' = queue \cup {log[l].row}
    /\ log' = [log EXCEPT ![l] = Idle]
    /\ UNCHANGED <<clock, disk, rows, created, db, store, active, logged, rot,
                   registry, query, bounds>>

-----------------------------------------------------------------------------
(* rotate_locked, once db_rotation_lock is held.                           *)

(* A bug: an archive that exists is not looked for. *)
ArchiveNamePlain(seal) == [month |-> seal, suffix |-> 0]

(* A bug: the suffix is the second after this one. *)
ArchiveNameLater(seal) == [month |-> seal, suffix |-> second + 1]

(* record_YYYYMM.db, or with the second appended when that name is taken. *)
ArchiveName(seal) ==
    [month |-> seal,
     suffix |-> IF disk[[month |-> seal, suffix |-> 0]] = NoFile
                THEN 0 ELSE second]

(* The lock is taken and, unless record.db is missing, the seal requested. *)
RotateLocked(t, seal) ==
    rot' = IF disk[Active] = NoFile THEN Free
           ELSE [by |-> t, at |-> "seal", name |-> ArchiveName(seal)]

(* A bug: the second check after the lock is left out. *)
LockUnchecked(l) ==
    /\ log[l].at = "lock"
    /\ rot = Free
    /\ log' = [log EXCEPT ![l].at = "send"]
    /\ RotateLocked(l, IF HasData /\ DataMonth < month THEN DataMonth ELSE active)
    /\ UNCHANGED <<clock, disk, rows, created, db, store, queue, active, logged,
                   registry, query, bounds>>

(* rotate_if_needed behind the lock: look again, then rotate. *)
Lock(l) ==
    /\ log[l].at = "lock"
    /\ rot = Free
    /\ log' = [log EXCEPT ![l].at = "send"]
    /\ IF ~PastBoundary(l) THEN UNCHANGED rot
       ELSE RotateLocked(l, IF HasData /\ DataMonth < month
                            THEN DataMonth ELSE active)
    /\ UNCHANGED <<clock, disk, rows, created, db, store, queue, active, logged,
                   registry, query, bounds>>

(* A bug: the data's month is compared with the month in memory. *)
CheckAgainstMemory ==
    /\ rot = Free
    /\ HasData
    /\ DataMonth < active
    /\ RotateLocked("checker", DataMonth)
    /\ UNCHANGED <<clock, disk, rows, created, db, store, queue, active, log,
                   logged, registry, query, bounds>>

(* check_and_rotate, on every tick of its interval. *)
CheckAndRotate ==
    /\ rot = Free
    /\ HasData
    /\ DataMonth < month \/ DataMonth # active
    /\ IF DataMonth < month
       THEN RotateLocked("checker", DataMonth) /\ UNCHANGED active
       ELSE active' = DataMonth /\ UNCHANGED rot
    /\ UNCHANGED <<clock, disk, rows, created, db, store, queue, log, logged,
                   registry, query, bounds>>

SealFails ==
    /\ rot.at = "seal"
    /\ store # NoFile
    /\ Fault
    /\ rot' = Free
    /\ UNCHANGED <<clock, disk, rows, created, db, store, queue, active, log,
                   logged, registry, query, asked, crashes>>

(* Seal commits everything pending (a sealed writer just says yes). *)
Sealed ==
    IF store = NoFile THEN UNCHANGED <<rows, queue>>
    ELSE /\ rows' = [rows EXCEPT ![store] = @ \cup queue]
         /\ queue' = {}

Disturbed == [query EXCEPT !.quiet = FALSE]

SealAndRename ==
    /\ rot.at = "seal"
    /\ Sealed
    /\ store' = NoFile
    /\ disk' = [disk EXCEPT ![rot.name] = disk[Active], ![Active] = NoFile]
    /\ rot' = [rot EXCEPT !.at = "init"]
    /\ query' = Disturbed
    /\ UNCHANGED <<clock, created, db, active, log, logged, registry, bounds>>

(* The rename fails: the writer gets its old store back, unless its resume *)
(* fails with it.                                                          *)
RenameFails ==
    /\ rot.at = "seal"
    /\ Fault
    /\ Sealed
    /\ store' \in {db, NoFile}
    /\ rot' = Free
    /\ UNCHANGED <<clock, disk, created, db, active, log, logged, registry,
                   query, asked, crashes>>

(* A bug: the new store is installed and the writer forgotten. *)
InitDbOnly ==
    /\ rot.at = "init"
    /\ created < MaxFiles
    /\ created' = created + 1
    /\ disk' = [disk EXCEPT ![Active] = created + 1]
    /\ db' = created + 1
    /\ rot' = Free
    /\ query' = Disturbed
    /\ UNCHANGED <<clock, rows, store, queue, active, log, logged, registry,
                   bounds>>

InitDb ==
    /\ rot.at = "init"
    /\ created < MaxFiles
    /\ created' = created + 1
    /\ disk' = [disk EXCEPT ![Active] = created + 1]
    /\ db' = created + 1
    /\ rot' = [rot EXCEPT !.at = "resume"]
    /\ query' = Disturbed
    /\ UNCHANGED <<clock, rows, store, queue, active, log, logged, registry,
                   bounds>>

(* A bug: the writer is given its old store back, as after a failed rename. *)
InitDbFailsResumesOld ==
    /\ rot.at = "init"
    /\ Fault
    /\ store' = db
    /\ rot' = Free
    /\ UNCHANGED <<clock, disk, rows, created, db, queue, active, log, logged,
                   registry, query, asked, crashes>>

(* init_db fails, before or after it has created the file; app_state.db    *)
(* stays the archived store and nobody resumes the writer.                 *)
InitDbFails ==
    /\ rot.at = "init"
    /\ Fault
    /\ \/ UNCHANGED <<created, disk>>
       \/ /\ created < MaxFiles
          /\ created' = created + 1
          /\ disk' = [disk EXCEPT ![Active] = created + 1]
    /\ rot' = Free
    /\ UNCHANGED <<clock, rows, db, store, queue, active, log, logged, registry,
                   query, asked, crashes>>

Resume ==
    /\ rot.at = "resume"
    /\ store' = db
    /\ active' = month
    /\ rot' = Free
    /\ UNCHANGED <<clock, disk, rows, created, db, queue, log, logged, registry,
                   query, bounds>>

ResumeFails ==
    /\ rot.at = "resume"
    /\ Fault
    /\ rot' = Free
    /\ UNCHANGED <<clock, disk, rows, created, db, store, queue, active, log,
                   logged, registry, query, asked, crashes>>

-----------------------------------------------------------------------------
(* A query: collect_shards scans the archives, picks the candidates of its *)
(* range, then takes the active store.                                     *)

InRange(q, S) == {r \in S : q.lo <= r.month /\ r.month <= q.hi}
Stems(R) == {s.name : s \in R}

(* ensure_scanned lists the directory. *)
BeginQuery(lo, hi) ==
    /\ query.at = "idle"
    /\ asked < MaxQueries
    /\ asked' = asked + 1
    /\ LET q == [NoQuery EXCEPT !.lo = lo, !.hi = hi]
       IN  query' = [q EXCEPT
               !.at = "scan",
               !.pending = {p \in Names : disk[p] # NoFile} \ (Stems(shards) \cup failed),
               !.before = InRange(q, UNION {rows[f] : f \in Files}),
               !.quiet = disk[Active] = db]
    /\ UNCHANGED <<clock, disk, rows, created, db, store, queue, active, log,
                   logged, rot, registry, faults, crashes>>

(* open_archive_shard notes MIN and MAX of the times in the file. *)
Shard(name) ==
    LET ms == MonthsOf(rows[disk[name]])
    IN  [name |-> name, file |-> disk[name],
         min |-> IF ms = {} THEN 0 ELSE Earliest(ms),
         max |-> IF ms = {} THEN 0 ELSE Latest(ms)]

(* The archives are opened and registered.  A busy one is left for the     *)
(* next scan; one that cannot be opened is given up on and quarantined,    *)
(* which renames its file away.                                            *)
Scan(busy, broken) ==
    /\ query.at = "scan"
    /\ busy \cup broken # {} => faults < MaxFaults
    /\ faults' = faults + IF busy \cup broken # {} THEN 1 ELSE 0
    /\ shards' = shards \cup {Shard(n) : n \in query.pending \ (busy \cup broken)}
    /\ failed' = failed \cup broken
    /\ disk' = [p \in Paths |-> IF p \in broken THEN NoFile ELSE disk[p]]
    /\ query' = [query EXCEPT !.at = "candidates", !.pending = {},
                                   !.skipped = busy \cup broken]
    /\ UNCHANGED <<clock, rows, created, db, store, queue, active, log, logged,
                   rot, asked, crashes>>

(* A bug: the range test of candidates is strict at its lower end. *)
IntersectsStrictly(s, q) == s.min # 0 /\ s.max > q.lo /\ s.min <= q.hi
Intersects(s, q) == s.min # 0 /\ s.max >= q.lo /\ s.min <= q.hi

Candidates ==
    /\ query.at = "candidates"
    /\ query' = [query EXCEPT !.at = "active",
                    !.found = {<<s.name, s.file>> :
                                  s \in {x \in shards : Intersects(x, query)}}]
    /\ UNCHANGED <<clock, disk, rows, created, db, store, queue, active, log,
                   logged, rot, registry, bounds>>

TakeActive ==
    /\ query.at = "active"
    /\ query' = [query EXCEPT !.at = "done", !.found = @ \cup {<<Active, db>>}]
    /\ UNCHANGED <<clock, disk, rows, created, db, store, queue, active, log,
                   logged, rot, registry, bounds>>

EndQuery ==
    /\ query.at = "done"
    /\ query' = NoQuery
    /\ UNCHANGED <<clock, disk, rows, created, db, store, queue, active, log,
                   logged, rot, registry, bounds>>

-----------------------------------------------------------------------------
RotationStep ==
    \/ SealAndRename \/ SealFails \/ RenameFails
    \/ InitDb \/ InitDbFails \/ Resume \/ ResumeFails

LogStep(l) == Build(l) \/ Check(l) \/ Enqueue(l) \/ Lock(l)

QueryStep ==
    \/ \E lo, hi \in Months : lo <= hi /\ BeginQuery(lo, hi)
    \/ \E busy, broken \in SUBSET query.pending :
         busy \cap broken = {} /\ Scan(busy, broken)
    \/ Candidates \/ TakeActive \/ EndQuery

Next ==
    \/ NextSecond \/ Restart
    \/ \E r \in queue : Commit(r)
    \/ \E l \in Loggers : LogStep(l)
    \/ CheckAndRotate \/ RotationStep
    \/ QueryStep

(* The interval of main ticks for ever, and the tasks that were started    *)
(* run on; records, queries, faults and the clock are not obliged to come. *)
Fairness ==
    /\ WF_vars(CheckAndRotate)
    /\ WF_vars(SealAndRename \/ InitDb \/ Resume)
    /\ \A l \in Loggers : WF_vars(Check(l) \/ Lock(l) \/ Enqueue(l))

Spec == Init /\ [][Next]_vars /\ Fairness

-----------------------------------------------------------------------------
(* Properties.                                                             *)

(* Type correctness of the clock, the files, the writer, the rotation, the *)
(* registry and the query.                                                 *)
TypeOK ==
    /\ month \in Months /\ second \in 1..MaxSecond
    /\ disk \in [Paths -> Files \cup {NoFile}]
    /\ rows \in [Files -> SUBSET Row]
    /\ created \in Files
    /\ db \in Files /\ store \in Files \cup {NoFile}
    /\ queue \subseteq Row
    /\ active \in Months
    /\ log \in [Loggers -> [at : {"idle", "check", "lock", "send"},
                           row : [n : 0..MaxRows, month : Months]]]
    /\ \A l \in Loggers : log[l].at # "idle" => log[l].row \in Row
    /\ logged \in 0..MaxRows
    /\ rot \in [by : Tasks \cup {Nobody}, name : Paths,
               at : {"free", "seal", "init", "resume"}]
    /\ shards \subseteq [name : Names, file : Files, min : 0..MaxMonth,
                        max : 0..MaxMonth]
    /\ failed \subseteq Names
    /\ query \in [at : {"idle", "scan", "candidates", "active", "done"},
                  lo : Months, hi : Months, pending : SUBSET Names,
                  found : SUBSET (Paths \X Files), skipped : SUBSET Names,
                  before : SUBSET Row, quiet : BOOLEAN]
    /\ {asked, faults, crashes} \subseteq Nat

(* The writer's store is the file that record.db names, whatever single    *)
(* step of a rotation fails and wherever the process dies: rows are never  *)
(* added to a file that has become an archive.  Two failures are too many: *)
(* after a failed init_db app_state.db is still the archive, and a failed  *)
(* rename of the next rotation gives that store back to the writer.        *)
WriterInActiveFile == faults <= 1 /\ store # NoFile => disk[Active] = store

(* An archive is only made of a month that is over, also when several      *)
(* records cross the boundary together: whoever gets the lock second       *)
(* notices that the rotation is done.                                      *)
OnlyPastMonthsSealed == [][SealAndRename => rot.name.month < month]_vars

(* A rotation never takes the plain name of an existing archive; it can    *)
(* replace only one whose name carries a second, its own.                  *)
ArchivesKept ==
    [][\A p \in Names :
         disk[p] # NoFile /\ disk'[p] \notin {disk[p], NoFile} => p.suffix # 0]_vars

(* Archives a query may legitimately not see: given up on, busy in its     *)
(* scan, or hidden by an earlier archive of the same name.                 *)
Unseen(p) ==
    \/ p \in failed \cup query.skipped
    \/ \E s \in shards : s.name = p /\ s.file # disk[p]

(* A query that no rotation disturbs reads every row of its range that was *)
(* committed when it began, and reads it from one file only, while no more *)
(* than one step has failed (see WriterInActiveFile: an archive that is    *)
(* still written outgrows the range the registry noted for it).            *)
QuietQueryExact ==
    faults <= 1 /\ query.at = "done" /\ query.quiet =>
        \A p \in Paths : \A r \in query.before :
            disk[p] # NoFile /\ r \in rows[disk[p]] /\ ~Unseen(p)
                => Cardinality({s \in query.found : r \in rows[s[2]]}) = 1

(* Every seal is followed by a resume, whatever records, checks, queries   *)
(* and crashes come in between, unless a step of a rotation fails.         *)
SealEnds == store = NoFile ~> store # NoFile \/ faults > 0

(* A month that is over is sealed: the active store does not keep data of  *)
(* a past month only, unless record.db is gone.                            *)
PastMonthSealed ==
    HasData /\ DataMonth < month
        ~> ~HasData \/ DataMonth = month \/ disk[Active] = NoFile
=============================================================================
