--------------------------- MODULE RotationProofs ---------------------------
(***************************************************************************)
(* Proofs about Rotation, for any number of logging tasks, months,         *)
(* seconds, records, files, failures, crashes and queries: the writer's    *)
(* store is the file record.db names, only months that are over are        *)
(* sealed, no archive is overwritten under its plain name, and a query     *)
(* that no rotation disturbs reads each of its rows exactly once.          *)
(***************************************************************************)
EXTENDS Rotation, FiniteSetTheorems, TLAPS

(* How far a rotation is tells what is on disk and where the writer is.    *)
RotationFits ==
    /\ rot.at # "free" => rot.name \in Names
    /\ rot.at = "seal" =>
          /\ disk[Active] # NoFile
          /\ rot.name.month < month
          /\ rot.name.suffix = 0 => disk[rot.name] = NoFile
    /\ rot.at \in {"init", "resume"} => store = NoFile
    /\ rot.at = "init" => disk[Active] = NoFile
    /\ rot.at = "resume" => disk[Active] = db
    /\ faults = 0 => disk[Active] = db \/ rot.at = "init"

(* Records are built in the past. *)
LogFits == \A l \in Loggers : log[l].row.month <= month

(* A file has one name, and files are numbered as they are created. *)
FilesDistinct ==
    \A p \in Paths : disk[p] # NoFile =>
        /\ disk[p] <= created
        /\ \A q \in Paths : disk[q] = disk[p] => q = p

(* A row is in one place: in a task, in the queue or in one file. *)
OnDisk(r) == \E f \in Files : r \in rows[f]

RowsDistinct ==
    /\ \A f \in Files : \A r \in rows[f] : r.n <= logged
    /\ \A r \in queue : r.n <= logged /\ ~OnDisk(r)
    /\ \A f, g \in Files : f # g => rows[f] \cap rows[g] = {}
    /\ \A l \in Loggers : log[l].at # "idle" =>
          /\ log[l].row.n <= logged
          /\ log[l].row \notin queue
          /\ ~OnDisk(log[l].row)
          /\ \A k \in Loggers : log[k].at # "idle" /\ log[k].row = log[l].row
                => k = l

(* The registry holds archives, one shard for a name and for a file. *)
ShardsDistinct ==
    \A s \in shards :
        /\ s.file <= created
        /\ s.file # disk[Active]
        /\ \A p \in Names : disk[p] = s.file => p = s.name
        /\ \A t \in shards : t.file = s.file \/ t.name = s.name => t = s

(* The range noted for a shard holds every row of its file. *)
Covers(s) == \A r \in rows[s.file] : s.min # 0 /\ s.min <= r.month /\ r.month <= s.max

ShardsCurrent == faults <= 1 => \A s \in shards : Covers(s)

(* What a query has in hand, and, while no rotation disturbed it, that no  *)
(* archive is left out.                                                    *)
Chosen == {<<s.name, s.file>> : s \in {x \in shards : Intersects(x, query)}}

Pending == query.at = "scan" =>
    \A p \in query.pending : disk[p] # NoFile /\ p \notin Stems(shards)

Within == \A r \in query.before : query.lo <= r.month /\ r.month <= query.hi

QuietFits ==
    /\ disk[Active] = db
    /\ query.at = "scan" => \A p \in Names : disk[p] # NoFile =>
          p \in query.pending \cup Stems(shards) \cup failed
    /\ query.at \in {"candidates", "active", "done"} =>
          \A p \in Names : disk[p] # NoFile =>
             p \in Stems(shards) \cup failed \cup query.skipped
    /\ query.at = "active" => query.found = Chosen
    /\ query.at = "done" => query.found = Chosen \cup {<<Active, db>>}

QueryFits == Pending /\ Within /\ (query.at # "idle" /\ query.quiet => QuietFits)

IInv == /\ TypeOK /\ RotationFits /\ LogFits /\ WriterInActiveFile
        /\ FilesDistinct /\ RowsDistinct
        /\ ShardsDistinct /\ ShardsCurrent /\ QueryFits

-----------------------------------------------------------------------------
(* The least and the greatest member of a set of numbers, which the model  *)
(* takes with CHOOSE: they exist, since < is well founded on Nat.          *)

LEMMA LeastNatural ==
    ASSUME NEW S, S \subseteq Nat, S # {}
    PROVE  \E m \in S : \A k \in S : m <= k
  <1> DEFINE Below == {p \in Nat \X Nat : p[1] < p[2]}
  <1>1. Below = OpToRel(<, Nat)
    BY DEF OpToRel
  <1>2. IsWellFoundedOn(Below, Nat)
    BY <1>1, NatLessThanWellFounded
  <1>3. \A k, m \in Nat : k < m => <<k, m>> \in Below
    OBVIOUS
  <1> HIDE DEF Below
  <1>4. PICK m \in S : \A k \in S : ~(<<k, m>> \in Below)
    BY <1>2, WFMin
  <1>5. ASSUME NEW k \in S PROVE ~(k < m)
    <2>1. ~(<<k, m>> \in Below)
      BY <1>4
    <2> QED BY <2>1, <1>3
  <1>6. \A k \in S : m <= k
    BY <1>5
  <1> QED BY <1>6

(* The greatest number of a bounded set is as far from the bound as the    *)
(* least distance.                                                         *)
LEMMA GreatestBounded ==
    ASSUME NEW N \in Nat, NEW S, S \subseteq 0..N, S # {}
    PROVE  \E m \in S : \A k \in S : k <= m
  <1> DEFINE T == {N - k : k \in S}
  <1>1. T \subseteq Nat
    <2>1. \A k \in S : N - k \in Nat
      OBVIOUS
    <2> QED BY <2>1
  <1>2. T # {}
    OBVIOUS
  <1>3. PICK t \in T : \A u \in T : t <= u
    BY <1>1, <1>2, LeastNatural
  <1>4. PICK m \in S : t = N - m
    BY <1>3
  <1>5. \A k \in S : k <= m
    BY <1>3, <1>4
  <1> QED BY <1>5

-----------------------------------------------------------------------------
(* Lemmas about the operators of the model.                                *)

LEMMA LatestIs ==
    ASSUME NEW S, S \subseteq Months, S # {}
    PROVE  Latest(S) \in S /\ \A k \in S : k <= Latest(S)
  <1>1. MaxMonth \in Nat /\ S \subseteq 0..MaxMonth
    BY RotationBounds DEF Months
  <1>2. PICK m \in S : \A k \in S : k <= m
    BY <1>1, GreatestBounded
  <1> QED BY <1>2 DEF Latest

LEMMA EarliestIs ==
    ASSUME NEW S, S \subseteq Months, S # {}
    PROVE  Earliest(S) \in S /\ \A k \in S : Earliest(S) <= k
  <1>1. S \subseteq Nat
    BY RotationBounds DEF Months
  <1>2. PICK m \in S : \A k \in S : m <= k
    BY <1>1, LeastNatural
  <1>3. \A k \in S : k >= m
    BY <1>1, <1>2
  <1>4. Earliest(S) \in S /\ \A k \in S : k >= Earliest(S)
    BY <1>3 DEF Earliest
  <1> QED BY <1>1, <1>4

LEMMA Numbers ==
    /\ 1 \in Months /\ Months \subseteq Nat
    /\ 1 \in Files /\ Files \subseteq Nat /\ NoFile \notin Files
    /\ 1 \in 1..MaxSecond
  BY RotationBounds DEF Months, Files, NoFile

LEMMA PathTypes ==
    /\ Active \in Paths /\ Active \notin Names /\ Names \subseteq Paths
    /\ \A p \in Names : p.month \in Months /\ p.suffix \in 0..MaxSecond
    /\ \A m \in Months : \A x \in 0..MaxSecond :
          [month |-> m, suffix |-> x] \in Names
  <1>1. Active \notin Names
    BY RotationBounds DEF Active, Names, Months
  <1> QED BY <1>1 DEF Paths, Names

LEMMA MonthsOfType ==
    ASSUME NEW S, S \subseteq Row
    PROVE  /\ MonthsOf(S) \subseteq Months
           /\ \A r \in S : r.month \in MonthsOf(S)
           /\ S # {} => MonthsOf(S) # {}
           /\ S = {} => MonthsOf(S) = {}
  BY DEF MonthsOf, Row

LEMMA DataMonthIs ==
    ASSUME TypeOK, HasData
    PROVE  DataMonth \in Months
  <1>1. rows[db] \subseteq Row /\ rows[db] # {}
    BY DEF TypeOK, HasData
  <1> QED BY <1>1, MonthsOfType, LatestIs DEF DataMonth

LEMMA LatestOfFile ==
    ASSUME TypeOK, NEW f \in Files, rows[f] # {}
    PROVE  Latest(MonthsOf(rows[f])) \in Months
  <1>1. rows[f] \subseteq Row
    BY DEF TypeOK
  <1> QED BY <1>1, MonthsOfType, LatestIs

LEMMA ArchiveNameIs ==
    ASSUME TypeOK, NEW seal \in Months
    PROVE  /\ ArchiveName(seal) \in Names
           /\ ArchiveName(seal).month = seal
           /\ ArchiveName(seal).suffix = 0 => disk[ArchiveName(seal)] = NoFile
  <1>1. second \in 1..MaxSecond /\ MaxSecond \in Nat
    BY RotationBounds DEF TypeOK
  <1>2. second \in 0..MaxSecond /\ 0 \in 0..MaxSecond /\ second # 0
    BY <1>1
  <1> QED BY <1>2, PathTypes DEF ArchiveName

(* What taking the lock and asking for the seal does to the rotation. *)
LEMMA RotateLockedIs ==
    ASSUME TypeOK, NEW t \in Tasks, NEW seal \in Months, seal < month,
           RotateLocked(t, seal)
    PROVE  \/ rot' = Free
           \/ /\ rot' \in [by : Tasks, name : Names, at : {"seal"}]
              /\ disk[Active] # NoFile
              /\ rot'.name.month < month
              /\ rot'.name.suffix = 0 => disk[rot'.name] = NoFile
  BY ArchiveNameIs DEF RotateLocked

LEMMA ShardIs ==
    ASSUME TypeOK, NEW n \in Names, disk[n] # NoFile
    PROVE  /\ Shard(n) \in [name : Names, file : Files, min : 0..MaxMonth,
                            max : 0..MaxMonth]
           /\ Shard(n).name = n /\ Shard(n).file = disk[n]
           /\ Covers(Shard(n))
  <1> DEFINE R == rows[disk[n]]
  <1>1. disk[n] \in Files /\ R \subseteq Row
    BY PathTypes DEF TypeOK
  <1>2. Months \subseteq 0..MaxMonth /\ 0 \in 0..MaxMonth /\ Months \subseteq Nat
        /\ 0 \notin Months
    BY RotationBounds DEF Months
  <1>3. CASE R = {}
    <2>1. MonthsOf(R) = {}
      BY <1>1, <1>3, MonthsOfType
    <2> QED BY <1>1, <1>2, <1>3, <2>1 DEF Shard, Covers
  <1>4. CASE R # {}
    <2>1. MonthsOf(R) # {} /\ MonthsOf(R) \subseteq Months
          /\ \A r \in R : r.month \in MonthsOf(R)
      BY <1>1, <1>4, MonthsOfType
    <2>2. /\ Earliest(MonthsOf(R)) \in Months /\ Latest(MonthsOf(R)) \in Months
          /\ \A k \in MonthsOf(R) :
                Earliest(MonthsOf(R)) <= k /\ k <= Latest(MonthsOf(R))
      BY <2>1, LatestIs, EarliestIs
    <2>3. Shard(n) = [name |-> n, file |-> disk[n],
                      min |-> Earliest(MonthsOf(R)),
                      max |-> Latest(MonthsOf(R))]
      BY <2>1 DEF Shard
    <2>4. /\ Shard(n).file = disk[n] /\ Shard(n).name = n
          /\ Shard(n).min = Earliest(MonthsOf(R))
          /\ Shard(n).max = Latest(MonthsOf(R))
      BY <2>3
    <2>5. Covers(Shard(n))
      BY <1>2, <2>1, <2>2, <2>4 DEF Covers
    <2>6. Shard(n) \in [name : Names, file : Files, min : 0..MaxMonth,
                        max : 0..MaxMonth]
      <3>1. /\ Earliest(MonthsOf(R)) \in 0..MaxMonth
            /\ Latest(MonthsOf(R)) \in 0..MaxMonth
        BY <1>2, <2>2
      <3> HIDE DEF R
      <3> QED BY <1>1, <2>3, <3>1
    <2> QED BY <2>4, <2>5, <2>6
  <1> QED BY <1>3, <1>4

-----------------------------------------------------------------------------
(* Types.                                                                  *)

LogRecord == [at : {"idle", "check", "lock", "send"},
              row : [n : 0..MaxRows, month : Months]]
Query == [at : {"idle", "scan", "candidates", "active", "done"},
          lo : Months, hi : Months, pending : SUBSET Names,
          found : SUBSET (Paths \X Files), skipped : SUBSET Names,
          before : SUBSET Row, quiet : BOOLEAN]
Rotating == [by : Tasks \cup {Nobody}, name : Paths,
             at : {"free", "seal", "init", "resume"}]

LEMMA RestTypes ==
    /\ Idle \in LogRecord /\ Free \in Rotating /\ NoQuery \in Query
    /\ Idle.at = "idle" /\ Free.at = "free" /\ NoQuery.at = "idle"
    /\ Idle.row.month = 1
  <1>1. 0 \in 0..MaxRows
    BY RotationBounds
  <1> QED BY <1>1, Numbers, PathTypes
          DEF Idle, Free, NoQuery, LogRecord, Rotating, Query

LEMMA InitTypes == Init => TypeOK
  <1> SUFFICES ASSUME Init PROVE TypeOK
    OBVIOUS
  <1>1. disk \in [Paths -> Files \cup {NoFile}]
    BY Numbers DEF Init
  <1>2. log \in [Loggers -> LogRecord] /\ rot \in Rotating /\ query \in Query
        /\ \A l \in Loggers : log[l].at = "idle"
    BY RestTypes DEF Init
  <1>3. 0 \in 0..MaxRows
    BY RotationBounds
  <1> QED BY <1>1, <1>2, <1>3, Numbers
          DEF Init, TypeOK, LogRecord, Rotating, Query

LEMMA StartTypes ==
    ASSUME TypeOK, NEW file \in Files, Start(file)
    PROVE  /\ db' \in Files /\ store' \in Files \cup {NoFile}
           /\ disk' \in [Paths -> Files \cup {NoFile}]
           /\ active' \in Months
  <1>1. active' \in Months
    BY LatestOfFile DEF Start, TypeOK
  <1> QED BY <1>1 DEF Start, TypeOK

LEMMA SealedTypes ==
    ASSUME TypeOK, Sealed
    PROVE  rows' \in [Files -> SUBSET Row] /\ queue' \subseteq Row
  BY DEF Sealed, TypeOK

LEMMA NextTypes == TypeOK /\ RotationFits /\ Pending /\ [Next]_vars => TypeOK'
  <1> SUFFICES ASSUME TypeOK, RotationFits, Pending, [Next]_vars PROVE TypeOK'
    OBVIOUS
  <1>q. query \in Query /\ log \in [Loggers -> LogRecord] /\ rot \in Rotating
    BY DEF TypeOK, Query, LogRecord, Rotating
  <1>1. CASE NextSecond
    <2>1. month' \in Months /\ second' \in 1..MaxSecond
      BY <1>1, RotationBounds DEF NextSecond, TypeOK
    <2> QED BY <1>1, <2>1 DEF NextSecond, TypeOK, registry, bounds
  <1>2. CASE Restart
    <2>1. \E file \in Files : Start(file)
      <3>1. CASE disk[Active] # NoFile
        BY <1>2, <3>1, PathTypes DEF Restart, TypeOK
      <3>2. CASE disk[Active] = NoFile
        <4>1. created + 1 \in Files
          BY <1>2, <3>2, RotationBounds DEF Restart, TypeOK, Files
        <4> QED BY <1>2, <3>2, <4>1 DEF Restart
      <3> QED BY <3>1, <3>2
    <2>2. created' \in Files
      <3>1. created' = created \/ (created < MaxFiles /\ created' = created + 1)
        BY <1>2 DEF Restart
      <3> QED BY <3>1, RotationBounds DEF TypeOK, Files
    <2>3. /\ log' \in [Loggers -> LogRecord] /\ rot' \in Rotating
          /\ query' \in Query /\ \A l \in Loggers : log'[l].at = "idle"
      BY <1>2, RestTypes DEF Restart
    <2>4. crashes' \in Nat
      BY <1>2 DEF Restart, TypeOK
    <2> QED BY <1>2, <2>1, <2>2, <2>3, <2>4, StartTypes
            DEF Restart, TypeOK, LogRecord, Rotating, Query, clock
  <1>3. CASE \E r \in queue : Commit(r)
    BY <1>3 DEF Commit, TypeOK, clock, registry, bounds
  <1>4. ASSUME NEW l \in Loggers, Build(l) PROVE TypeOK'
    <2> DEFINE row == [n |-> logged + 1, month |-> month]
    <2>1. logged + 1 \in 1..MaxRows /\ logged + 1 \in 0..MaxRows
      BY <1>4, RotationBounds DEF Build, TypeOK
    <2>2. row \in Row /\ row \in [n : 0..MaxRows, month : Months]
      BY <2>1 DEF Row, TypeOK
    <2>3. log' = [log EXCEPT ![l] = [at |-> "check", row |-> row]]
      BY <1>4 DEF Build
    <2> HIDE DEF row
    <2>4. [at |-> "check", row |-> row] \in LogRecord
      BY <2>2 DEF LogRecord
    <2>5. log' \in [Loggers -> LogRecord]
      BY <1>q, <2>3, <2>4
    <2>6. \A k \in Loggers : log'[k].at # "idle" => log'[k].row \in Row
      BY <1>q, <2>2, <2>3 DEF TypeOK
    <2> QED BY <1>4, <2>1, <2>5, <2>6
            DEF Build, TypeOK, LogRecord, clock, registry, bounds
  <1>5. ASSUME NEW l \in Loggers, Check(l) \/ Lock(l)
        PROVE  log' \in [Loggers -> LogRecord]
               /\ \A k \in Loggers : log'[k].at # "idle" => log'[k].row \in Row
    <2>1. PICK a \in {"lock", "send"} : log' = [log EXCEPT ![l].at = a]
      BY <1>5 DEF Check, Lock
    <2>2. log[l].row \in Row
      BY <1>5 DEF TypeOK, Check, Lock
    <2> QED BY <1>q, <2>1, <2>2 DEF LogRecord, TypeOK
  <1>6. ASSUME NEW l \in Loggers, Check(l) PROVE TypeOK'
    BY <1>5, <1>6 DEF Check, TypeOK, LogRecord, clock, registry, bounds
  <1>7. ASSUME NEW l \in Loggers, Enqueue(l) PROVE TypeOK'
    <2>1. log' \in [Loggers -> LogRecord]
          /\ \A k \in Loggers : log'[k].at # "idle" => log'[k].row \in Row
      BY <1>7, <1>q, RestTypes DEF Enqueue, TypeOK
    <2>2. log[l].row \in Row
      BY <1>7 DEF Enqueue, TypeOK
    <2> QED BY <1>7, <2>1, <2>2
            DEF Enqueue, TypeOK, LogRecord, clock, registry, bounds
  <1>8. ASSUME NEW t \in Tasks, NEW seal \in Months, RotateLocked(t, seal)
        PROVE  rot' \in Rotating
    BY <1>8, ArchiveNameIs, PathTypes, RestTypes DEF RotateLocked, Rotating
  <1>9. ASSUME NEW l \in Loggers, Lock(l) PROVE TypeOK'
    <2>1. rot' \in Rotating
      BY <1>8, <1>9, <1>q, DataMonthIs DEF Lock, Tasks, TypeOK
    <2> QED BY <1>5, <1>9, <2>1
            DEF Lock, TypeOK, LogRecord, Rotating, clock, registry, bounds
  <1>10. CASE CheckAndRotate
    <2>1. rot' \in Rotating /\ active' \in Months
      BY <1>8, <1>10, <1>q, DataMonthIs DEF CheckAndRotate, Tasks, TypeOK
    <2> QED BY <1>10, <2>1
            DEF CheckAndRotate, TypeOK, Rotating, clock, registry, bounds
  <1>11. CASE SealAndRename
    <2>1. /\ rot' \in Rotating
          /\ query' \in Query
          /\ disk' \in [Paths -> Files \cup {NoFile}]
      BY <1>11, <1>q, PathTypes
         DEF SealAndRename, Disturbed, Rotating, Query, TypeOK
    <2> QED BY <1>11, <2>1, SealedTypes
            DEF SealAndRename, TypeOK, Rotating, Query, clock, registry, bounds
  <1>12. CASE SealFails
    BY <1>12, RestTypes
       DEF SealFails, Fault, TypeOK, Rotating, clock, registry
  <1>13. CASE RenameFails
    BY <1>13, RestTypes, SealedTypes
       DEF RenameFails, Fault, TypeOK, Rotating, clock, registry
  <1>14. ASSUME created < MaxFiles PROVE created + 1 \in Files
    BY <1>14, RotationBounds DEF TypeOK, Files
  <1>15. CASE InitDb
    <2>1. /\ rot' \in Rotating
          /\ query' \in Query
          /\ disk' \in [Paths -> Files \cup {NoFile}]
          /\ db' \in Files /\ created' \in Files
      BY <1>14, <1>15, <1>q, PathTypes
         DEF InitDb, Disturbed, Rotating, Query, TypeOK
    <2> QED BY <1>15, <2>1
            DEF InitDb, TypeOK, Rotating, Query, clock, registry, bounds
  <1>16. CASE InitDbFails
    <2>1. disk' \in [Paths -> Files \cup {NoFile}] /\ created' \in Files
      BY <1>14, <1>16 DEF InitDbFails, TypeOK
    <2> QED BY <1>16, <2>1, RestTypes
            DEF InitDbFails, Fault, TypeOK, Rotating, clock, registry
  <1>17. CASE Resume
    BY <1>17, RestTypes DEF Resume, TypeOK, Rotating, clock, registry, bounds
  <1>18. CASE ResumeFails
    BY <1>18, RestTypes DEF ResumeFails, Fault, TypeOK, Rotating, clock, registry
  <1>19. ASSUME NEW lo \in Months, NEW hi \in Months, BeginQuery(lo, hi)
         PROVE  TypeOK'
    <2>1. query' \in Query
      <3> DEFINE q == [NoQuery EXCEPT !.lo = lo, !.hi = hi]
                 b == InRange(q, UNION {rows[f] : f \in Files})
                 p == {x \in Names : disk[x] # NoFile} \ (Stems(shards) \cup failed)
      <3>1. b \in SUBSET Row /\ p \in SUBSET Names
        BY DEF InRange, TypeOK
      <3> HIDE DEF b, p
      <3>2. query' = [q EXCEPT !.at = "scan", !.pending = p, !.before = b,
                               !.quiet = disk[Active] = db]
        BY <1>19 DEF BeginQuery, b, p
      <3>3. q \in Query
        BY RestTypes DEF Query
      <3> HIDE DEF q
      <3> QED BY <3>1, <3>2, <3>3 DEF Query
    <2>2. asked' \in Nat
      BY <1>19 DEF BeginQuery, TypeOK
    <2>3. UNCHANGED <<clock, disk, rows, created, db, store, queue, active,
                      log, logged, rot, registry, faults, crashes>>
      BY <1>19 DEF BeginQuery
    <2> QED BY <2>1, <2>2, <2>3 DEF TypeOK, Query, clock, registry
  <1>20. ASSUME NEW busy \in SUBSET query.pending,
                NEW broken \in SUBSET query.pending, Scan(busy, broken)
         PROVE  TypeOK'
    <2>1. query.pending \subseteq Names
      BY <1>q DEF Query
    <2>2. query' \in Query
      BY <1>20, <1>q, <2>1 DEF Scan, Query
    <2>3. \A n \in query.pending : disk[n] # NoFile
      BY <1>20 DEF Scan, Pending
    <2>4. shards' \subseteq [name : Names, file : Files, min : 0..MaxMonth,
                             max : 0..MaxMonth]
      BY <1>20, <2>1, <2>3, ShardIs DEF Scan, TypeOK
    <2>5. disk' \in [Paths -> Files \cup {NoFile}]
      BY <1>20 DEF Scan, TypeOK
    <2>6. faults' \in Nat
      BY <1>20 DEF Scan, TypeOK
    <2> QED BY <1>20, <2>1, <2>2, <2>4, <2>5, <2>6 DEF Scan, TypeOK, Query, clock
  <1>21. CASE Candidates
    <2>1. Chosen \subseteq Paths \X Files
      BY PathTypes DEF Chosen, TypeOK
    <2>2. query' \in Query
      BY <1>21, <1>q, <2>1 DEF Candidates, Query, Chosen
    <2> QED BY <1>21, <2>2 DEF Candidates, TypeOK, Query, clock, registry, bounds
  <1>22. CASE TakeActive
    <2>1. <<Active, db>> \in Paths \X Files
      BY PathTypes DEF TypeOK
    <2>2. query' \in Query
      BY <1>22, <1>q, <2>1 DEF TakeActive, Query
    <2> QED BY <1>22, <2>2 DEF TakeActive, TypeOK, Query, clock, registry, bounds
  <1>23. CASE EndQuery
    BY <1>23, RestTypes DEF EndQuery, TypeOK, Query, clock, registry, bounds
  <1>24. CASE UNCHANGED vars
    BY <1>24 DEF vars, TypeOK, clock, registry, bounds
  <1> QED BY <1>1, <1>2, <1>3, <1>4, <1>6, <1>7, <1>9, <1>10, <1>11, <1>12,
             <1>13, <1>15, <1>16, <1>17, <1>18, <1>19, <1>20, <1>21, <1>22,
             <1>23, <1>24 DEF Next, LogStep, RotationStep, QueryStep

-----------------------------------------------------------------------------
(* The rotation, the writer and the clock.                                 *)

LEMMA ScanKeeps ==
    ASSUME TypeOK, NEW busy \in SUBSET query.pending,
           NEW broken \in SUBSET query.pending, Scan(busy, broken)
    PROVE  /\ disk'[Active] = disk[Active]
           /\ broken \subseteq Names
           /\ faults' \in {faults, faults + 1}
           /\ \A p \in Paths : disk'[p] = IF p \in broken THEN NoFile ELSE disk[p]
  <1>1. broken \subseteq Names
    BY DEF TypeOK
  <1> QED BY <1>1, PathTypes DEF Scan, TypeOK

LEMMA NextLogFits == TypeOK /\ LogFits /\ [Next]_vars => LogFits'
  <1> SUFFICES ASSUME TypeOK, LogFits, [Next]_vars PROVE LogFits'
    OBVIOUS
  <1>0. /\ log \in [Loggers -> LogRecord] /\ month \in Nat /\ month >= 1
        /\ \A l \in Loggers : log[l].row.month \in Nat
    BY Numbers, RotationBounds DEF TypeOK, LogRecord, Months
  <1>1. CASE NextSecond
    <2>1. month' \in Nat /\ month' >= month
      BY <1>0, <1>1 DEF NextSecond
    <2> QED BY <1>0, <1>1, <2>1 DEF NextSecond, LogFits
  <1>2. CASE Restart
    BY <1>0, <1>2, RestTypes DEF Restart, LogFits, clock
  <1>3. ASSUME NEW l \in Loggers, Build(l) PROVE LogFits'
    BY <1>0, <1>3 DEF Build, LogFits, clock
  <1>4. ASSUME NEW l \in Loggers, Enqueue(l) PROVE LogFits'
    BY <1>0, <1>4, RestTypes DEF Enqueue, LogFits, clock
  <1>5. ASSUME NEW l \in Loggers, Check(l) \/ Lock(l) PROVE LogFits'
    <2>1. PICK a \in {"lock", "send"} :
             log' = [log EXCEPT ![l].at = a] /\ month' = month
      BY <1>5 DEF Check, Lock, clock
    <2> QED BY <1>0, <2>1 DEF LogFits, LogRecord
  <1>6. CASE UNCHANGED <<month, log>>
    BY <1>6 DEF LogFits
  <1> QED
    BY <1>1, <1>2, <1>3, <1>4, <1>5, <1>6
       DEF Next, LogStep, RotationStep, QueryStep, vars, clock, Commit,
           CheckAndRotate, SealAndRename, SealFails, RenameFails, InitDb,
           InitDbFails, Resume, ResumeFails, BeginQuery, Scan, Candidates,
           TakeActive, EndQuery

(* The lock is only taken to seal a month that is over. *)
LEMMA LockIs ==
    ASSUME TypeOK, LogFits, NEW l \in Loggers, Lock(l)
    PROVE  \/ rot' \in {rot, Free}
           \/ /\ rot' \in [by : Tasks, name : Names, at : {"seal"}]
              /\ disk[Active] # NoFile
              /\ rot'.name.month < month
              /\ rot'.name.suffix = 0 => disk[rot'.name] = NoFile
  <1> DEFINE seal == IF HasData /\ DataMonth < month THEN DataMonth ELSE active
  <1>1. CASE ~PastBoundary(l)
    BY <1>1 DEF Lock
  <1>2. CASE PastBoundary(l)
    <2>1. log[l].row.month \in Nat /\ log[l].row.month <= month
      BY Numbers DEF TypeOK, LogFits
    <2>2. active < month
      BY <1>2, <2>1, Numbers DEF PastBoundary, TypeOK
    <2>3. seal \in Months /\ seal < month
      BY <2>2, DataMonthIs DEF TypeOK
    <2>4. RotateLocked(l, seal)
      BY <1>2 DEF Lock
    <2> HIDE DEF seal
    <2> QED BY <2>3, <2>4, RotateLockedIs DEF Tasks
  <1> QED BY <1>1, <1>2

LEMMA CheckAndRotateIs ==
    ASSUME TypeOK, CheckAndRotate
    PROVE  \/ rot' \in {rot, Free}
           \/ /\ rot' \in [by : Tasks, name : Names, at : {"seal"}]
              /\ disk[Active] # NoFile
              /\ rot'.name.month < month
              /\ rot'.name.suffix = 0 => disk[rot'.name] = NoFile
  BY DataMonthIs, RotateLockedIs DEF CheckAndRotate, Tasks

LEMMA NextRotationFits ==
    ASSUME TypeOK, RotationFits, LogFits, WriterInActiveFile, [Next]_vars
    PROVE  RotationFits' /\ WriterInActiveFile'
  <1>0. /\ month \in Nat /\ faults \in Nat /\ db # NoFile
        /\ disk \in [Paths -> Files \cup {NoFile}]
        /\ rot \in Rotating /\ created \in Nat
    BY Numbers DEF TypeOK, Rotating
  <1>1. CASE NextSecond
    <2>1. month' \in Nat /\ month' >= month
      BY <1>0, <1>1 DEF NextSecond
    <2>2. rot.at = "seal" => rot.name.month \in Nat
      BY Numbers, PathTypes DEF RotationFits
    <2> QED BY <1>0, <1>1, <2>1, <2>2
            DEF NextSecond, RotationFits, WriterInActiveFile, bounds
  <1>2. CASE Restart
    <2>1. store' = db' /\ disk'[Active] = db' /\ rot' = Free
      BY <1>0, <1>2, PathTypes DEF Restart, Start
    <2> QED BY <2>1, RestTypes DEF RotationFits, WriterInActiveFile
  <1>3. CASE UNCHANGED <<month, disk, db, store, rot, faults>>
    BY <1>3 DEF RotationFits, WriterInActiveFile
  <1>4. ASSUME UNCHANGED <<month, disk, db, store, faults>>, rot.at = "free",
               \/ rot' \in {rot, Free}
               \/ /\ rot' \in [by : Tasks, name : Names, at : {"seal"}]
                  /\ disk[Active] # NoFile
                  /\ rot'.name.month < month
                  /\ rot'.name.suffix = 0 => disk[rot'.name] = NoFile
        PROVE  RotationFits' /\ WriterInActiveFile'
    <2>1. rot' \in {rot, Free} \/ (rot'.name \in Names /\ rot'.at = "seal")
      BY <1>4
    <2> QED BY <1>4, <2>1, RestTypes DEF RotationFits, WriterInActiveFile
  <1>5. ASSUME NEW l \in Loggers, Lock(l)
        PROVE  RotationFits' /\ WriterInActiveFile'
    BY <1>4, <1>5, LockIs, RestTypes DEF Lock, clock, bounds
  <1>6. CASE CheckAndRotate
    BY <1>4, <1>6, CheckAndRotateIs, RestTypes DEF CheckAndRotate, clock, bounds
  <1>7. CASE SealAndRename
    <2>1. /\ rot' = [rot EXCEPT !.at = "init"] /\ rot.name \in Names
          /\ store' = NoFile /\ disk'[Active] = NoFile /\ faults' = faults
      BY <1>0, <1>7, PathTypes DEF SealAndRename, RotationFits, bounds
    <2> QED BY <1>0, <2>1 DEF RotationFits, WriterInActiveFile, Rotating
  <1>9. CASE SealFails \/ ResumeFails
    BY <1>0, <1>9, RestTypes
       DEF SealFails, ResumeFails, Fault, RotationFits, WriterInActiveFile
  <1>10. CASE RenameFails
    <2>1. /\ rot' = Free /\ faults' = faults + 1 /\ store' \in {db, NoFile}
          /\ UNCHANGED <<disk, db>> /\ rot.at = "seal"
      BY <1>10 DEF RenameFails, Fault
    <2>2. RotationFits'
      BY <1>0, <2>1, RestTypes DEF RotationFits
    <2>3. WriterInActiveFile'
      BY <1>0, <2>1 DEF RotationFits, WriterInActiveFile
    <2> QED BY <2>2, <2>3
  <1>11. CASE InitDb
    <2>1. /\ rot' = [rot EXCEPT !.at = "resume"] /\ rot.at = "init"
          /\ disk'[Active] = db' /\ UNCHANGED <<month, store, faults>>
      BY <1>0, <1>11, PathTypes DEF InitDb, bounds, clock
    <2> QED BY <1>0, <2>1 DEF RotationFits, WriterInActiveFile, Rotating
  <1>12. CASE InitDbFails
    <2>1. /\ rot' = Free /\ rot.at = "init" /\ faults' = faults + 1
          /\ store' = store
      BY <1>12 DEF InitDbFails, Fault
    <2> QED BY <1>0, <2>1, RestTypes DEF RotationFits, WriterInActiveFile
  <1>13. CASE Resume
    <2>1. /\ rot' = Free /\ rot.at = "resume" /\ store' = db
          /\ UNCHANGED <<disk, db, faults>>
      BY <1>13 DEF Resume, bounds
    <2> QED BY <1>0, <2>1, RestTypes DEF RotationFits, WriterInActiveFile
  <1>14. ASSUME NEW busy \in SUBSET query.pending,
                NEW broken \in SUBSET query.pending, Scan(busy, broken)
         PROVE  RotationFits' /\ WriterInActiveFile'
    <2>1. /\ disk'[Active] = disk[Active]
          /\ rot.at = "seal" => rot.name \in Paths /\ disk'[rot.name] \in {disk[rot.name], NoFile}
          /\ faults' \in {faults, faults + 1}
          /\ UNCHANGED <<month, db, store, rot>>
      BY <1>14, ScanKeeps, PathTypes DEF Scan, clock, RotationFits
    <2> QED BY <1>0, <2>1 DEF RotationFits, WriterInActiveFile
  <1> QED
    BY <1>1, <1>2, <1>3, <1>5, <1>6, <1>7, <1>9, <1>10, <1>11, <1>12, <1>13,
       <1>14
       DEF Next, LogStep, RotationStep, QueryStep, vars, clock, bounds, Commit,
           Build, Check, Enqueue, BeginQuery, Candidates, TakeActive, EndQuery

-----------------------------------------------------------------------------
(* Files and rows.                                                         *)

LEMMA NextFilesDistinct ==
    ASSUME TypeOK, RotationFits, FilesDistinct, [Next]_vars
    PROVE  FilesDistinct'
  <1>0. /\ disk \in [Paths -> Files \cup {NoFile}] /\ created \in Files
        /\ Files \subseteq Nat /\ NoFile = 0
        /\ Active \in Paths /\ Names \subseteq Paths
    BY Numbers, PathTypes DEF TypeOK, NoFile
  <1>1. ASSUME UNCHANGED <<disk, created>> PROVE FilesDistinct'
    BY <1>1 DEF FilesDistinct
  <1>2. ASSUME created' = created + 1,
               disk' = [disk EXCEPT ![Active] = created + 1]
        PROVE  FilesDistinct'
    <2>1. \A p \in Paths : disk'[p] = IF p = Active THEN created + 1 ELSE disk[p]
      BY <1>0, <1>2
    <2>2. \A p \in Paths : disk[p] <= created
      BY <1>0 DEF FilesDistinct
    <2>3. ASSUME NEW p \in Paths PROVE disk[p] \in Nat
      <3>1. disk[p] \in Files \cup {NoFile}
        BY <1>0
      <3>2. Files \cup {NoFile} \subseteq Nat
        BY <1>0
      <3> QED BY <3>1, <3>2
    <2> QED BY <1>0, <1>2, <2>1, <2>2, <2>3 DEF FilesDistinct
  <1>3. CASE Restart
    <2>1. CASE disk[Active] # NoFile
      <3>1. disk' = disk /\ created' = created
        BY <1>0, <1>3, <2>1 DEF Restart, Start
      <3> QED BY <1>1, <3>1
    <2>2. CASE disk[Active] = NoFile
      BY <1>2, <1>3, <2>2 DEF Restart, Start
    <2> QED BY <2>1, <2>2
  <1>4. CASE SealAndRename
    <2>1. /\ disk' = [disk EXCEPT ![rot.name] = disk[Active],
                                  ![Active] = NoFile]
          /\ rot.name \in Paths /\ rot.name # Active /\ created' = created
      BY <1>4, PathTypes DEF SealAndRename, RotationFits
    <2> QED BY <1>0, <2>1 DEF FilesDistinct
  <1>5. CASE InitDb \/ InitDbFails
    BY <1>1, <1>2, <1>5 DEF InitDb, InitDbFails
  <1>6. ASSUME NEW busy \in SUBSET query.pending,
               NEW broken \in SUBSET query.pending, Scan(busy, broken)
        PROVE  FilesDistinct'
    <2>1. /\ \A p \in Paths : disk'[p] \in {disk[p], NoFile}
          /\ created' = created
      BY <1>6, ScanKeeps DEF Scan
    <2> QED BY <1>0, <2>1 DEF FilesDistinct
  <1> QED
    BY <1>1, <1>3, <1>4, <1>5, <1>6
       DEF Next, LogStep, RotationStep, QueryStep, vars, clock, NextSecond,
           Commit, Build, Check, Enqueue, Lock, CheckAndRotate, SealFails,
           RenameFails, Resume, ResumeFails, BeginQuery, Candidates,
           TakeActive, EndQuery

(* Rows only move on: from the queue to a file, all or some of them. *)
LEMMA Moved ==
    ASSUME TypeOK, RowsDistinct, NEW R, R \subseteq queue, store \in Files,
           rows' = [rows EXCEPT ![store] = @ \cup R], queue' = queue \ R,
           UNCHANGED <<log, logged>>
    PROVE  RowsDistinct'
  <1>0. /\ rows \in [Files -> SUBSET Row]
        /\ \A f \in Files : rows'[f] = IF f = store THEN rows[f] \cup R ELSE rows[f]
    BY DEF TypeOK
  <1>1. \A f \in Files : \A r \in rows'[f] : r.n <= logged
    BY <1>0 DEF RowsDistinct
  <1>2. \A r : OnDisk(r)' <=> OnDisk(r) \/ r \in R
    BY <1>0 DEF OnDisk
  <1>3. \A r \in queue' : r.n <= logged /\ ~OnDisk(r)'
    BY <1>2 DEF RowsDistinct
  <1>4. \A f, g \in Files : f # g => rows'[f] \cap rows'[g] = {}
    <2> SUFFICES ASSUME NEW f \in Files, NEW g \in Files, f # g, NEW r,
                        r \in rows'[f], r \in rows'[g]
                 PROVE  FALSE
      OBVIOUS
    <2>1. r \in rows[f] \/ r \in R
      BY <1>0
    <2>2. r \in rows[g] \/ r \in R
      BY <1>0
    <2>3. r \in rows[f] \/ r \in rows[g]
      BY <1>0
    <2>4. r \notin R
      BY <2>3 DEF RowsDistinct, OnDisk
    <2> QED BY <2>1, <2>2, <2>4 DEF RowsDistinct
  <1>5. \A l \in Loggers : log[l].at # "idle" =>
          /\ log[l].row.n <= logged
          /\ log[l].row \notin queue'
          /\ ~OnDisk(log[l].row)'
          /\ \A k \in Loggers : log[k].at # "idle" /\ log[k].row = log[l].row
                => k = l
    BY <1>2 DEF RowsDistinct
  <1> QED BY <1>1, <1>3, <1>4, <1>5 DEF RowsDistinct

LEMMA SealedMoves ==
    ASSUME TypeOK, RowsDistinct, Sealed, UNCHANGED <<log, logged>>
    PROVE  RowsDistinct'
  <1>1. CASE store = NoFile
    BY <1>1 DEF Sealed, RowsDistinct, OnDisk
  <1>2. CASE store # NoFile
    BY <1>2, Moved DEF Sealed, TypeOK
  <1> QED BY <1>1, <1>2

LEMMA NextRowsDistinct ==
    ASSUME TypeOK, RowsDistinct, [Next]_vars
    PROVE  RowsDistinct'
  <1>0. /\ log \in [Loggers -> LogRecord] /\ logged \in Nat
        /\ \A f \in Files : \A r \in rows[f] : r \in Row
        /\ \A r \in Row : r.n \in Nat
    BY RotationBounds DEF TypeOK, LogRecord, Row
  <1>1. ASSUME UNCHANGED <<rows, queue, log, logged>> PROVE RowsDistinct'
    BY <1>1 DEF RowsDistinct, OnDisk
  <1>2. CASE Restart
    <2>1. /\ queue' = {} /\ rows' = rows /\ logged' = logged
          /\ \A l \in Loggers : log'[l].at = "idle"
      BY <1>2, RestTypes DEF Restart
    <2> QED BY <2>1 DEF RowsDistinct, OnDisk
  <1>3. CASE \E r \in queue : Commit(r)
    <2>1. PICK r \in queue : Commit(r)
      BY <1>3
    <2>2. /\ store \in Files /\ {r} \subseteq queue
          /\ rows' = [rows EXCEPT ![store] = @ \cup {r}]
          /\ queue' = queue \ {r} /\ UNCHANGED <<log, logged>>
      BY <2>1 DEF Commit, TypeOK
    <2> QED BY <2>2, Moved
  <1>4. ASSUME NEW l \in Loggers, Build(l) PROVE RowsDistinct'
    <2> DEFINE row == [n |-> logged + 1, month |-> month]
    <2>1. /\ \A r \in queue : r.n <= logged
          /\ \A f \in Files : \A r \in rows[f] : r.n <= logged
          /\ \A k \in Loggers : log[k].at # "idle" => log[k].row.n <= logged
      BY DEF RowsDistinct
    <2>2. /\ row.n = logged + 1 /\ logged' = logged + 1
          /\ log' = [log EXCEPT ![l] = [at |-> "check", row |-> row]]
          /\ UNCHANGED <<rows, queue>>
      BY <1>4 DEF Build
    <2> HIDE DEF row
    <2>3. /\ row \notin queue /\ \A f \in Files : row \notin rows[f]
          /\ \A k \in Loggers : log[k].at # "idle" => log[k].row # row
      BY <1>0, <2>1, <2>2
    <2>4. \A k \in Loggers : log'[k] = IF k = l THEN [at |-> "check", row |-> row]
                                       ELSE log[k]
      BY <1>0, <2>2
    <2>5. /\ \A f \in Files : \A r \in rows'[f] : r.n <= logged'
          /\ \A r \in queue' : r.n <= logged' /\ ~OnDisk(r)'
          /\ \A f, g \in Files : f # g => rows'[f] \cap rows'[g] = {}
      <3>1. \A r \in queue : r \in Row
        BY DEF TypeOK
      <3> QED BY <1>0, <2>1, <2>2, <3>1 DEF RowsDistinct, OnDisk
    <2>6. ASSUME NEW k \in Loggers, log'[k].at # "idle"
          PROVE  /\ log'[k].row.n <= logged'
                 /\ log'[k].row \notin queue'
                 /\ \A f \in Files : log'[k].row \notin rows'[f]
      <3>1. CASE k = l
        BY <1>0, <2>2, <2>3, <2>4, <3>1
      <3>2. CASE k # l
        <4>1. log'[k] = log[k] /\ log[k].row.n \in Nat
          BY <1>0, <2>4, <3>2 DEF LogRecord
        <4> QED BY <1>0, <2>2, <2>6, <4>1 DEF RowsDistinct, OnDisk
      <3> QED BY <3>1, <3>2
    <2>7. ASSUME NEW k \in Loggers, NEW j \in Loggers, log'[k].at # "idle",
                 log'[j].at # "idle", log'[j].row = log'[k].row
          PROVE  j = k
      <3>1. ASSUME NEW i \in Loggers, log'[i].at # "idle"
            PROVE  IF i = l THEN log'[i].row = row
                   ELSE log'[i] = log[i] /\ log[i].row # row
        BY <2>3, <2>4, <3>1
      <3> QED BY <2>7, <3>1 DEF RowsDistinct
    <2> QED BY <2>5, <2>6, <2>7 DEF RowsDistinct, OnDisk
  <1>5. ASSUME NEW l \in Loggers, Check(l) \/ Lock(l) PROVE RowsDistinct'
    <2>1. PICK a \in {"lock", "send"} :
             log' = [log EXCEPT ![l].at = a] /\ UNCHANGED <<rows, queue, logged>>
      BY <1>5 DEF Check, Lock
    <2>2. log[l].at # "idle"
      BY <1>5 DEF Check, Lock
    <2>3. \A k \in Loggers : /\ log'[k].row = log[k].row
                             /\ log'[k].at # "idle" <=> log[k].at # "idle"
      BY <1>0, <2>1, <2>2 DEF LogRecord
    <2> QED BY <2>1, <2>3 DEF RowsDistinct, OnDisk
  <1>6. ASSUME NEW l \in Loggers, Enqueue(l) PROVE RowsDistinct'
    <2>1. /\ queue' = queue \cup {log[l].row} /\ UNCHANGED <<rows, logged>>
          /\ log[l].at # "idle" /\ log'[l].at = "idle"
          /\ \A k \in Loggers : k # l => log'[k] = log[k]
      BY <1>0, <1>6, RestTypes DEF Enqueue
    <2> QED BY <2>1 DEF RowsDistinct, OnDisk
  <1>7. CASE SealAndRename \/ RenameFails
    BY <1>7, SealedMoves DEF SealAndRename, RenameFails
  <1> QED
    BY <1>1, <1>2, <1>3, <1>4, <1>5, <1>6, <1>7
       DEF Next, LogStep, RotationStep, QueryStep, vars, NextSecond,
           CheckAndRotate, SealFails, InitDb, InitDbFails, Resume, ResumeFails,
           BeginQuery, Scan, Candidates, TakeActive, EndQuery

-----------------------------------------------------------------------------
(* The registry.                                                           *)

LEMMA NextShardsDistinct ==
    ASSUME TypeOK, RotationFits, FilesDistinct, Pending, ShardsDistinct,
           [Next]_vars
    PROVE  ShardsDistinct'
  <1>0. /\ disk \in [Paths -> Files \cup {NoFile}] /\ created \in Nat
        /\ Files \subseteq Nat /\ NoFile \notin Files
        /\ Active \in Paths /\ Names \subseteq Paths /\ Active \notin Names
        /\ \A s \in shards : s.file \in Files /\ s.name \in Names
    BY Numbers, PathTypes DEF TypeOK
  <1>1. ASSUME UNCHANGED <<disk, created, shards>> PROVE ShardsDistinct'
    BY <1>1 DEF ShardsDistinct
  <1>2. ASSUME created' = created + 1, shards' = shards,
               disk' = [disk EXCEPT ![Active] = created + 1]
        PROVE  ShardsDistinct'
    <2>1. \A p \in Names : disk'[p] = disk[p]
      BY <1>0, <1>2
    <2>2. disk'[Active] = created + 1
      BY <1>0, <1>2
    <2>3. \A s \in shards : s.file \in Nat /\ s.file <= created
      BY <1>0 DEF ShardsDistinct
    <2> QED BY <1>0, <1>2, <2>1, <2>2, <2>3 DEF ShardsDistinct
  <1>3. CASE Restart
    BY <1>3 DEF Restart, ShardsDistinct
  <1>4. CASE SealAndRename
    <2>1. /\ disk'[Active] = NoFile
          /\ \A p \in Names : disk'[p] \in {disk[p], disk[Active]}
          /\ created' = created /\ shards' = shards
      BY <1>0, <1>4 DEF SealAndRename, RotationFits, registry
    <2> QED BY <1>0, <2>1 DEF ShardsDistinct
  <1>5. CASE InitDb \/ InitDbFails
    BY <1>1, <1>2, <1>5 DEF InitDb, InitDbFails, registry
  <1>6. ASSUME NEW busy \in SUBSET query.pending,
               NEW broken \in SUBSET query.pending, Scan(busy, broken)
        PROVE  ShardsDistinct'
    <2>1. /\ \A p \in Paths : disk'[p] \in {disk[p], NoFile}
          /\ disk'[Active] = disk[Active]
          /\ created' = created
      BY <1>6, ScanKeeps DEF Scan
    <2>2. \A n \in query.pending :
             /\ n \in Names /\ disk[n] # NoFile
             /\ \A s \in shards : s.name # n
      BY <1>6 DEF Scan, Pending, Stems, TypeOK
    <2>3. ASSUME NEW s \in shards'
          PROVE  s \in shards \/ /\ s.name \in query.pending
                                 /\ s.file = disk[s.name] /\ s = Shard(s.name)
      BY <1>6, <2>2, <2>3, ShardIs DEF Scan
    <2>4. \A s \in shards' : s.file \in Files /\ s.name \in Names
      <3>1. \A n \in query.pending : disk[n] \in Files
        BY <1>0, <2>2
      <3> QED BY <1>0, <2>2, <2>3, <3>1
    <2>5. \A n \in query.pending : \A s \in shards : s.file # disk[n]
      BY <2>2 DEF ShardsDistinct
    <2>6. ASSUME NEW s \in shards', NEW t \in shards',
                 t.file = s.file \/ t.name = s.name
          PROVE  t = s
      <3>1. CASE s \in shards /\ t \in shards
        BY <2>6, <3>1 DEF ShardsDistinct
      <3>2. CASE s \in shards /\ t \notin shards
        BY <2>2, <2>3, <2>5, <2>6, <3>2
      <3>3. CASE s \notin shards /\ t \in shards
        BY <2>2, <2>3, <2>5, <2>6, <3>3
      <3>4. CASE s \notin shards /\ t \notin shards
        <4>1. /\ s.name \in query.pending /\ t.name \in query.pending
              /\ s = Shard(s.name) /\ t = Shard(t.name)
              /\ s.file = disk[s.name] /\ t.file = disk[t.name]
          BY <2>3, <3>4
        <4>2. t.name = s.name
          BY <1>0, <2>2, <2>6, <4>1 DEF FilesDistinct
        <4> QED BY <4>1, <4>2
      <3> QED BY <3>1, <3>2, <3>3, <3>4
    <2>7. ASSUME NEW s \in shards'
          PROVE  /\ s.file <= created /\ s.file # disk[Active]
                 /\ \A p \in Names : disk[p] = s.file => p = s.name
      <3>1. CASE s \in shards
        BY <3>1 DEF ShardsDistinct
      <3>2. CASE s \notin shards
        <4>1. s.name \in Names /\ s.file = disk[s.name] /\ disk[s.name] # NoFile
          BY <2>2, <2>3, <3>2
        <4> QED BY <1>0, <4>1 DEF FilesDistinct
      <3> QED BY <3>1, <3>2
    <2>8. \A s \in shards' : \A p \in Names : disk'[p] = s.file => p = s.name
      BY <1>0, <2>1, <2>4, <2>7
    <2> QED BY <2>1, <2>6, <2>7, <2>8 DEF ShardsDistinct
  <1> QED
    BY <1>1, <1>3, <1>4, <1>5, <1>6
       DEF Next, LogStep, RotationStep, QueryStep, vars, clock, registry,
           NextSecond, Commit, Build, Check, Enqueue, Lock, CheckAndRotate,
           SealFails, RenameFails, Resume, ResumeFails, BeginQuery, Candidates,
           TakeActive, EndQuery

LEMMA FaultsGrow ==
    ASSUME TypeOK, [Next]_vars
    PROVE  faults' \in {faults, faults + 1}
  <1>1. CASE RotationStep
    BY <1>1 DEF RotationStep, SealAndRename, SealFails, RenameFails, InitDb,
                InitDbFails, Resume, ResumeFails, Fault, bounds
  <1>2. CASE QueryStep
    BY <1>2, ScanKeeps DEF QueryStep, BeginQuery, Candidates, TakeActive,
                           EndQuery, bounds
  <1>3. CASE \E l \in Loggers : LogStep(l)
    BY <1>3 DEF LogStep, Build, Check, Enqueue, Lock, bounds
  <1>4. CASE NextSecond \/ Restart \/ CheckAndRotate
             \/ (\E r \in queue : Commit(r)) \/ UNCHANGED vars
    BY <1>4 DEF NextSecond, Restart, CheckAndRotate, Commit, vars, bounds
  <1> QED BY <1>1, <1>2, <1>3, <1>4 DEF Next

(* The writer does not touch an archive, so its range stays what was noted.*)
LEMMA NextShardsCurrent ==
    ASSUME TypeOK, RotationFits, WriterInActiveFile, Pending, ShardsDistinct,
           ShardsCurrent, [Next]_vars
    PROVE  ShardsCurrent'
  <1> SUFFICES ASSUME faults' <= 1 PROVE (\A s \in shards : Covers(s))'
    BY DEF ShardsCurrent
  <1>0. /\ faults \in Nat /\ rows \in [Files -> SUBSET Row]
        /\ \A s \in shards : s.file \in Files
    BY DEF TypeOK
  <1>1. faults <= 1
    <2>1. faults' \in {faults, faults + 1}
      BY FaultsGrow
    <2> QED BY <1>0, <2>1
  <1>2. \A s \in shards : Covers(s) /\ s.file # store
    BY <1>0, <1>1, Numbers
       DEF ShardsCurrent, ShardsDistinct, WriterInActiveFile
  <1>3. ASSUME shards' = shards,
               \/ rows' = rows
               \/ \E R \in SUBSET Row : rows' = [rows EXCEPT ![store] = @ \cup R]
        PROVE  (\A s \in shards : Covers(s))'
    <2>1. \A s \in shards : rows'[s.file] = rows[s.file]
      BY <1>0, <1>2, <1>3
    <2> QED BY <1>2, <1>3, <2>1 DEF Covers
  <1>4. CASE Restart
    BY <1>4 DEF Restart
  <1>5. CASE \E r \in queue : Commit(r)
    <2>1. PICK r \in queue : Commit(r)
      BY <1>5
    <2>2. {r} \in SUBSET Row /\ rows' = [rows EXCEPT ![store] = @ \cup {r}]
      BY <2>1 DEF Commit, TypeOK
    <2> QED BY <1>3, <2>1, <2>2 DEF Commit, registry
  <1>6. CASE SealAndRename \/ RenameFails
    <2>1. \/ rows' = rows
          \/ \E R \in SUBSET Row : rows' = [rows EXCEPT ![store] = @ \cup R]
      BY <1>6 DEF SealAndRename, RenameFails, Sealed, TypeOK
    <2> QED BY <1>3, <1>6, <2>1 DEF SealAndRename, RenameFails, registry
  <1>7. ASSUME NEW busy \in SUBSET query.pending,
               NEW broken \in SUBSET query.pending, Scan(busy, broken)
        PROVE  (\A s \in shards : Covers(s))'
    <2>1. \A n \in query.pending : n \in Names /\ disk[n] # NoFile
      BY <1>7 DEF Scan, Pending, TypeOK
    <2>2. ASSUME NEW s \in shards' PROVE Covers(s)
      <3>1. \/ s \in shards
            \/ \E n \in query.pending : s = Shard(n)
        BY <1>7, <2>2 DEF Scan
      <3> QED BY <1>2, <2>1, <3>1, ShardIs
    <2>3. rows' = rows
      BY <1>7 DEF Scan
    <2> QED BY <2>2, <2>3 DEF Covers
  <1> QED
    BY <1>3, <1>4, <1>5, <1>6, <1>7
       DEF Next, LogStep, RotationStep, QueryStep, vars, registry, NextSecond,
           Build, Check, Enqueue, Lock, CheckAndRotate, SealFails, InitDb,
           InitDbFails, Resume, ResumeFails, BeginQuery, Candidates,
           TakeActive, EndQuery

-----------------------------------------------------------------------------
(* A query.                                                                *)

(* The query's own fields other than where it is, and what it depends on. *)
LEMMA QueryFrame ==
    ASSUME TypeOK, QueryFits, UNCHANGED <<db, shards, failed, query>>,
           \A p \in Paths : disk'[p] = disk[p]
    PROVE  QueryFits'
  <1>1. /\ Chosen' = Chosen /\ Stems(shards)' = Stems(shards)
        /\ query' = query /\ UNCHANGED <<db, failed>>
        /\ disk'[Active] = disk[Active]
        /\ \A p \in Names : disk'[p] = disk[p]
    BY PathTypes DEF Chosen, Intersects, Stems
  <1>2. Pending' /\ Within'
    <2>1. query.pending \subseteq Names
      BY DEF TypeOK
    <2> QED BY <1>1, <2>1 DEF QueryFits, Pending, Within
  <1>3. QuietFits => QuietFits'
    BY <1>1 DEF QuietFits
  <1> QED BY <1>1, <1>2, <1>3 DEF QueryFits

LEMMA DisturbedFits ==
    ASSUME TypeOK, QueryFits, query' = Disturbed, shards' = shards,
           \A p \in Names : disk[p] # NoFile => disk'[p] # NoFile
    PROVE  QueryFits'
  <1>1. /\ query'.at = query.at /\ query'.pending = query.pending
        /\ query'.before = query.before /\ query'.lo = query.lo
        /\ query'.hi = query.hi /\ query'.quiet = FALSE
    BY DEF Disturbed, TypeOK
  <1>2. query.pending \subseteq Names
    BY DEF TypeOK
  <1> QED BY <1>1, <1>2 DEF QueryFits, Pending, Within, Stems

LEMMA NextQueryFits ==
    ASSUME TypeOK, RotationFits, QueryFits, [Next]_vars
    PROVE  QueryFits'
  <1>0. /\ disk \in [Paths -> Files \cup {NoFile}] /\ db \in Files
        /\ NoFile \notin Files /\ query \in Query
        /\ Active \in Paths /\ Names \subseteq Paths /\ Active \notin Names
    BY Numbers, PathTypes DEF TypeOK, Query
  <1>1. ASSUME UNCHANGED <<disk, db, shards, failed, query>> PROVE QueryFits'
    BY <1>1, QueryFrame
  <1>2. ASSUME query' = NoQuery PROVE QueryFits'
    <2>1. query'.at = "idle" /\ query'.before = {}
      BY <1>2 DEF NoQuery
    <2> QED BY <2>1 DEF QueryFits, Pending, Within
  <1>3. CASE SealAndRename
    <2>1. \A p \in Names : disk[p] # NoFile => disk'[p] # NoFile
      BY <1>0, <1>3 DEF SealAndRename, RotationFits
    <2> QED BY <1>3, <2>1, DisturbedFits DEF SealAndRename, registry
  <1>4. CASE InitDb
    <2>1. \A p \in Names : disk'[p] = disk[p]
      BY <1>0, <1>4 DEF InitDb
    <2> QED BY <1>4, <2>1, DisturbedFits DEF InitDb, registry
  <1>5. CASE InitDbFails
    <2>1. /\ \A p \in Names : disk'[p] = disk[p]
          /\ UNCHANGED <<shards, query>>
          /\ disk[Active] # db
      BY <1>0, <1>5 DEF InitDbFails, registry, RotationFits
    <2>2. query.pending \subseteq Names
      BY <1>0 DEF Query
    <2> QED BY <2>1, <2>2 DEF QueryFits, Pending, Within, QuietFits, Stems
  <1>6. ASSUME NEW lo \in Months, NEW hi \in Months, BeginQuery(lo, hi)
        PROVE  QueryFits'
    <2> DEFINE b == InRange([NoQuery EXCEPT !.lo = lo, !.hi = hi],
                            UNION {rows[f] : f \in Files})
               p == {x \in Names : disk[x] # NoFile} \ (Stems(shards) \cup failed)
    <2>1. \A r \in b : lo <= r.month /\ r.month <= hi
      BY DEF InRange, NoQuery
    <2>2. /\ \A x \in p : disk[x] # NoFile /\ x \notin Stems(shards)
          /\ \A x \in Names : disk[x] # NoFile =>
                x \in p \cup Stems(shards) \cup failed
      OBVIOUS
    <2> HIDE DEF b, p
    <2>3. /\ query'.at = "scan" /\ query'.lo = lo /\ query'.hi = hi
          /\ query'.pending = p /\ query'.before = b
          /\ query'.quiet = (disk[Active] = db)
          /\ UNCHANGED <<disk, db, shards, failed>>
      BY <1>6 DEF BeginQuery, NoQuery, b, p, registry
    <2> QED BY <2>1, <2>2, <2>3 DEF QueryFits, Pending, Within, QuietFits, Stems
  <1>7. ASSUME NEW busy \in SUBSET query.pending,
               NEW broken \in SUBSET query.pending, Scan(busy, broken)
        PROVE  QueryFits'
    <2>1. /\ query.at = "scan" /\ query'.at = "candidates"
          /\ query'.lo = query.lo /\ query'.hi = query.hi
          /\ query'.before = query.before /\ query'.quiet = query.quiet
          /\ query'.skipped = busy \cup broken
      BY <1>0, <1>7 DEF Scan, Query
    <2>2. /\ db' = db /\ disk'[Active] = disk[Active]
          /\ failed' = failed \cup broken
          /\ \A p \in Names : disk'[p] # NoFile => disk[p] # NoFile
      BY <1>0, <1>7, ScanKeeps DEF Scan
    <2>3. \A n \in query.pending : n \in Names /\ disk[n] # NoFile
      BY <1>0, <2>1 DEF QueryFits, Pending, Query
    <2>4. ASSUME NEW n \in (query.pending \ (busy \cup broken)) \cup Stems(shards)
          PROVE  n \in Stems(shards')
      <3>1. CASE n \in Stems(shards)
        BY <1>7, <3>1 DEF Scan, Stems
      <3>2. CASE n \in query.pending \ (busy \cup broken)
        <4>1. Shard(n) \in shards' /\ Shard(n).name = n
          BY <1>7, <2>3, <3>2, ShardIs DEF Scan
        <4> QED BY <4>1 DEF Stems
      <3> QED BY <2>4, <3>1, <3>2
    <2>5. ASSUME query.quiet, NEW p \in Names, disk'[p] # NoFile
          PROVE  p \in Stems(shards') \cup failed' \cup query'.skipped
      <3>1. p \in query.pending \cup Stems(shards) \cup failed
        BY <2>1, <2>2, <2>5 DEF QueryFits, QuietFits
      <3> QED BY <2>1, <2>2, <2>4, <3>1
    <2>6. Stems(shards)' = Stems(shards')
      BY DEF Stems
    <2> QED BY <2>1, <2>2, <2>5, <2>6 DEF QueryFits, Pending, Within, QuietFits
  <1>8. ASSUME UNCHANGED <<disk, db, shards, failed>>,
               query.at \in {"candidates", "active"},
               query'.lo = query.lo, query'.hi = query.hi,
               query'.skipped = query.skipped, query'.before = query.before,
               query'.quiet = query.quiet
        PROVE  /\ Chosen' = Chosen /\ Within'
               /\ query.quiet =>
                     /\ disk'[Active] = db'
                     /\ \A p \in Names : disk'[p] # NoFile =>
                           p \in Stems(shards)' \cup failed' \cup query'.skipped
    BY <1>8 DEF Chosen, Intersects, QueryFits, QuietFits, Within, Stems
  <1>9. CASE Candidates
    <2>1. /\ query.at = "candidates" /\ query'.at = "active"
          /\ query'.found = Chosen
          /\ query'.lo = query.lo /\ query'.hi = query.hi
          /\ query'.skipped = query.skipped /\ query'.before = query.before
          /\ query'.quiet = query.quiet
          /\ UNCHANGED <<disk, db, shards, failed>>
      BY <1>0, <1>9 DEF Candidates, Chosen, Query, registry
    <2> QED BY <1>8, <2>1 DEF QueryFits, Pending, QuietFits
  <1>10. CASE TakeActive
    <2>1. /\ query.at = "active" /\ query'.at = "done"
          /\ query'.found = query.found \cup {<<Active, db>>}
          /\ query'.lo = query.lo /\ query'.hi = query.hi
          /\ query'.skipped = query.skipped /\ query'.before = query.before
          /\ query'.quiet = query.quiet
          /\ UNCHANGED <<disk, db, shards, failed>>
      BY <1>0, <1>10 DEF TakeActive, Query, registry
    <2> QED BY <1>8, <2>1 DEF QueryFits, Pending, QuietFits
  <1> QED
    BY <1>1, <1>2, <1>3, <1>4, <1>5, <1>6, <1>7, <1>9, <1>10
       DEF Next, LogStep, RotationStep, QueryStep, vars, registry, NextSecond,
           Restart, Commit, Build, Check, Enqueue, Lock, CheckAndRotate,
           SealFails, RenameFails, Resume, ResumeFails, EndQuery

(* A finished query that was not disturbed has what the property asks. *)
LEMMA ExactlyOnce == IInv => QuietQueryExact
  <1> SUFFICES ASSUME IInv, faults <= 1, query.at = "done", query.quiet,
                      NEW p \in Paths, NEW r \in query.before,
                      disk[p] # NoFile, r \in rows[disk[p]], ~Unseen(p)
               PROVE  Cardinality({s \in query.found : r \in rows[s[2]]}) = 1
    BY DEF QuietQueryExact
  <1>0. /\ TypeOK /\ NoFile \notin Files /\ Active \in Paths
        /\ Names \subseteq Paths
    BY Numbers, PathTypes DEF IInv
  <1>1. /\ query.found = Chosen \cup {<<Active, db>>} /\ disk[Active] = db
        /\ \A n \in Names : disk[n] # NoFile =>
              n \in Stems(shards) \cup failed \cup query.skipped
    BY DEF IInv, QueryFits, QuietFits
  <1>2. query.lo <= r.month /\ r.month <= query.hi
    BY DEF IInv, QueryFits, Within
  <1>3. \E x \in query.found : x[2] = disk[p]
    <2>1. CASE p = Active
      <3>1. <<Active, db>> \in query.found /\ <<Active, db>>[2] = disk[p]
        BY <1>1, <2>1
      <3> QED BY <3>1
    <2>2. CASE p # Active
      <3>1. p \in Names /\ p \notin failed \cup query.skipped
        BY <2>2 DEF Paths, Unseen
      <3>2. PICK s \in shards : s.name = p
        BY <1>1, <3>1 DEF Stems
      <3>3. s.file = disk[p]
        BY <3>2 DEF Unseen
      <3>4. s.min # 0 /\ s.min <= r.month /\ r.month <= s.max
        BY <3>3 DEF IInv, ShardsCurrent, Covers
      <3>5. /\ s.min \in Nat /\ s.max \in Nat /\ r.month \in Nat
            /\ query.lo \in Nat /\ query.hi \in Nat
        <4>1. /\ s \in [name : Names, file : Files, min : 0..MaxMonth,
                         max : 0..MaxMonth]
              /\ r \in Row /\ query \in Query
          BY <1>0 DEF TypeOK, Query
        <4>2. MaxMonth \in Nat /\ Months \subseteq Nat
          BY Numbers, RotationBounds
        <4>3. s.min \in Nat /\ s.max \in Nat
          BY <4>1, <4>2
        <4>4. r.month \in Nat
          BY <4>1, <4>2 DEF Row
        <4>5. query.lo \in Nat /\ query.hi \in Nat
          BY <4>1, <4>2 DEF Query
        <4> QED BY <4>3, <4>4, <4>5
      <3>6. Intersects(s, query)
        BY <1>2, <3>4, <3>5 DEF Intersects
      <3>7. <<s.name, s.file>> \in Chosen
        BY <3>6 DEF Chosen
      <3> QED BY <1>1, <3>3, <3>7
    <2> QED BY <2>1, <2>2
  <1>4. PICK x \in query.found : x[2] = disk[p]
    BY <1>3
  <1>5. ASSUME NEW y \in query.found, r \in rows[y[2]]
        PROVE  y = x
    <2>1. y[2] \in Files /\ disk[p] \in Files
      BY <1>0 DEF TypeOK
    <2>2. y[2] = x[2]
      BY <1>4, <1>5, <2>1 DEF IInv, RowsDistinct
    <2>3. /\ y = <<Active, db>> \/ \E s \in shards : y = <<s.name, s.file>>
          /\ x = <<Active, db>> \/ \E s \in shards : x = <<s.name, s.file>>
      BY <1>1 DEF Chosen
    <2>4. \A s \in shards : s.file # db
      BY <1>1 DEF IInv, ShardsDistinct
    <2> QED BY <2>2, <2>3, <2>4 DEF IInv, ShardsDistinct
  <1>6. {s \in query.found : r \in rows[s[2]]} = {x}
    BY <1>4, <1>5
  <1> QED BY <1>6, FS_Singleton

-----------------------------------------------------------------------------
(* The invariant, and what follows.                                        *)

LEMMA InitInv == Init => IInv
  <1> SUFFICES ASSUME Init PROVE IInv
    OBVIOUS
  <1>1. TypeOK
    BY InitTypes
  <1>2. disk[Active] = 1 /\ \A p \in Names : disk[p] = NoFile
    BY PathTypes DEF Init
  <1>3. RotationFits /\ WriterInActiveFile
    BY <1>2, RestTypes DEF Init, RotationFits, WriterInActiveFile
  <1>4. LogFits
    BY RestTypes DEF Init, LogFits
  <1>5. FilesDistinct
    BY <1>2 DEF Init, FilesDistinct, Paths
  <1>6. RowsDistinct
    BY RestTypes DEF Init, RowsDistinct, OnDisk
  <1>7. ShardsDistinct /\ ShardsCurrent
    BY DEF Init, ShardsDistinct, ShardsCurrent
  <1>8. QueryFits
    BY DEF Init, QueryFits, Pending, Within, NoQuery
  <1> QED BY <1>1, <1>3, <1>4, <1>5, <1>6, <1>7, <1>8 DEF IInv

LEMMA NextInv == IInv /\ [Next]_vars => IInv'
  <1> SUFFICES ASSUME IInv, [Next]_vars PROVE IInv'
    OBVIOUS
  <1> USE DEF IInv
  <1>1. TypeOK'
    BY NextTypes DEF QueryFits
  <1>2. RotationFits' /\ WriterInActiveFile'
    BY NextRotationFits
  <1>3. LogFits'
    BY NextLogFits
  <1>4. FilesDistinct' /\ RowsDistinct'
    BY NextFilesDistinct, NextRowsDistinct
  <1>5. ShardsDistinct' /\ ShardsCurrent'
    BY NextShardsDistinct, NextShardsCurrent DEF QueryFits
  <1>6. QueryFits'
    BY NextQueryFits
  <1> QED BY <1>1, <1>2, <1>3, <1>4, <1>5, <1>6

LEMMA Invariance == Spec => []IInv
  BY InitInv, NextInv, PTL DEF Spec

(* The clock, the files, the writer, the lock's holder, the registry and   *)
(* the query keep their types, for every value of the constants.           *)
THEOREM RotationTypeCorrect == Spec => []TypeOK
  <1>1. IInv => TypeOK
    BY DEF IInv
  <1> QED BY Invariance, <1>1, PTL

(* While no more than one step has failed, the writer's store is the file  *)
(* that record.db names: seal, rename, init_db and resume, in whatever     *)
(* order a crash or one failure leaves them, never have it write into an   *)
(* archive.                                                                *)
THEOREM WriterStaysInActiveFile == Spec => []WriterInActiveFile
  <1>1. IInv => WriterInActiveFile
    BY DEF IInv
  <1> QED BY Invariance, <1>1, PTL

(* A query that no rotation disturbs gets every row of its range that was  *)
(* committed when collect_shards began, from exactly one file, whatever    *)
(* was opened, renamed, quarantined or restarted before.                   *)
THEOREM QuietQueriesExact == Spec => []QuietQueryExact
  BY Invariance, ExactlyOnce, PTL

(* rotate_locked seals only a month that is over, also when several tasks  *)
(* cross the month boundary together.                                      *)
THEOREM SealsPastMonths == Spec => OnlyPastMonthsSealed
  <1>1. IInv /\ [Next]_vars => [SealAndRename => rot.name.month < month]_vars
    BY DEF IInv, RotationFits, SealAndRename
  <1> QED BY Invariance, <1>1, PTL DEF Spec, OnlyPastMonthsSealed

(* The rename of a rotation never replaces an archive by its plain name,   *)
(* record_YYYYMM.db: nothing has taken that name since it was chosen.      *)
LEMMA StepKeepsArchives ==
    ASSUME IInv, [Next]_vars, NEW p \in Names, disk[p] # NoFile,
           disk'[p] \notin {disk[p], NoFile}
    PROVE  p.suffix # 0
  <1>0. /\ TypeOK /\ disk \in [Paths -> Files \cup {NoFile}]
        /\ p \in Paths /\ p # Active /\ Active \in Paths
    BY PathTypes DEF IInv, TypeOK
  <1>1. ASSUME disk' = disk \/ \E f : disk' = [disk EXCEPT ![Active] = f]
        PROVE  FALSE
    BY <1>0, <1>1
  <1>2. CASE Restart
    BY <1>1, <1>2 DEF Restart, Start
  <1>3. CASE SealAndRename
    <2>1. p = rot.name
      BY <1>0, <1>3 DEF SealAndRename
    <2> QED BY <1>3, <2>1 DEF SealAndRename, IInv, RotationFits
  <1>4. CASE InitDb \/ InitDbFails
    BY <1>1, <1>4 DEF InitDb, InitDbFails
  <1>5. ASSUME NEW busy \in SUBSET query.pending,
               NEW broken \in SUBSET query.pending, Scan(busy, broken)
        PROVE  FALSE
    BY <1>0, <1>5, ScanKeeps
  <1> QED
    BY <1>1, <1>2, <1>3, <1>4, <1>5
       DEF Next, LogStep, RotationStep, QueryStep, vars, NextSecond, Commit,
           Build, Check, Enqueue, Lock, CheckAndRotate, SealFails, RenameFails,
           Resume, ResumeFails, BeginQuery, Candidates, TakeActive, EndQuery

THEOREM PlainNamesKept == Spec => ArchivesKept
  <1>1. IInv /\ [Next]_vars =>
          [\A p \in Names :
             disk[p] # NoFile /\ disk'[p] \notin {disk[p], NoFile}
                => p.suffix # 0]_vars
    BY StepKeepsArchives
  <1> QED BY Invariance, <1>1, PTL DEF Spec, ArchivesKept
=============================================================================
