---------------------------- MODULE RollupProofs ----------------------------
(***************************************************************************)
(* Proofs about Rollup, for any number of files, rows, failures, restarts, *)
(* analyses and inodes, any clock and any length of a day: a build that    *)
(* nothing disturbs leaves a rollup that counts every row of the active    *)
(* file once, and an analysis that nothing disturbs is then exact.         *)
(***************************************************************************)
EXTENDS Rollup, FiniteSetTheorems, TLAPS

Prefix(f, n)  == {<<f, i>> : i \in 1..n}
Counted(f, n) == agg = Plus(Nothing, Prefix(f, n))
Whole         == agg = Plus(Nothing, Committed(file))
AllRows       == UNION {Committed(f) : f \in Files}

(* Files that are still to come are empty. *)
FilesFit == \A f \in Files : f > file => times[f] = <<>>

(* The cursor's time is that of the row n of a file f that the last build  *)
(* scanned last, at or behind the cursor's id: with times that differ, the *)
(* row at the cursor has that time only if nothing was committed between   *)
(* MAX(id) and the scan and the file is the same.                          *)
StateFits ==
    state # NoState =>
        /\ state.lastId > 0
        /\ \E f \in Files : \E n \in 1..Len(times[f]) :
              /\ state.lastId <= n
              /\ times[f][n] = state.lastTime
              /\ ~SameTime /\ ~torn /\ ~Cut => Counted(f, n)

(* A build goes on from a rollup that counts the rows up to where it scans *)
(* from, and has scanned up to a row behind MAX(id).                       *)
BuildFits ==
    /\ builder.at \in {"lock", "cursor"} => builder.from = 0
    /\ builder.at \in {"cursor", "scan", "apply"} =>
          /\ builder.maxId <= Len(times[builder.store])
          /\ builder.quiet => builder.store = file
    /\ builder.at \in {"scan", "apply"} =>
          /\ builder.from < builder.maxId
          /\ ~SameTime /\ ~torn => Counted(builder.store, builder.from)
    /\ builder.at = "apply" =>
          \E n \in builder.maxId..Len(times[builder.store]) :
             /\ builder.delta = {<<builder.store, i>> : i \in (builder.from + 1)..n}
             /\ builder.lastTime = times[builder.store][n]
             /\ builder.quiet => n = Len(times[builder.store])

(* The archives that have rows in a range. *)
Candidates(lo, hi) == {f \in 1..(file - 1) : Within(Committed(f), lo, hi) # {}}

(* What an analysis has added up so far, if nothing disturbed it. *)
AnalysisFits ==
    analysis.at # "idle" =>
        /\ analysis.lo \in Times /\ analysis.hi \in Times
        /\ analysis.lo <= analysis.hi
        /\ analysis.scanned => analysis.at = "done"
        /\ analysis.quiet =>
              /\ analysis.store = file
              /\ analysis.olds = Candidates(analysis.lo, analysis.hi)
              /\ analysis.at = "slice" => HasFullDay
              /\ analysis.at = "archives" /\ Whole => analysis.count =
                    Plus(Nothing, Within(Committed(file), analysis.lo, analysis.hi))
              /\ analysis.at = "done" /\ (Whole \/ analysis.scanned) => Exact(analysis)

IInv == /\ TypeOK /\ FilesFit /\ StateFits /\ BuildFits /\ QuietBuildExact
        /\ AnalysisFits

-----------------------------------------------------------------------------
(* The least and the greatest member of a set of numbers, which the model  *)
(* takes with CHOOSE: they exist, since < is well founded on Nat.          *)

LEMMA LeastNatural ==
    ASSUME NEW S, S \subseteq Nat, S # {}
    PROVE  \E m \in S : \A k \in S : m <= k
  <1> DEFINE Below == {p \in Nat \X Nat : p[1] < p[2]}
  <1>1. Below = OpToRel(<, Nat)
    BY DEF OpToRel
  <1>2. IsWellFoundedOn(Below, Nat)
    BY <1>1, NatLessThanWellFounded
  <1>3. \A k, m \in Nat : k < m => <<k, m>> \in Below
    OBVIOUS
  <1> HIDE DEF Below
  <1>4. PICK m \in S : \A k \in S : ~(<<k, m>> \in Below)
    BY <1>2, WFMin
  <1>5. ASSUME NEW k \in S PROVE ~(k < m)
    <2>1. ~(<<k, m>> \in Below)
      BY <1>4
    <2> QED BY <2>1, <1>3
  <1>6. \A k \in S : m <= k
    BY <1>5
  <1> QED BY <1>6

(* The greatest number of a bounded set is as far from the bound as the    *)
(* least distance.                                                         *)
LEMMA GreatestBounded ==
    ASSUME NEW N \in Nat, NEW S, S \subseteq 0..N, S # {}
    PROVE  \E m \in S : \A k \in S : k <= m
  <1> DEFINE T == {N - k : k \in S}
  <1>1. T \subseteq Nat
    <2>1. \A k \in S : N - k \in Nat
      OBVIOUS
    <2> QED BY <2>1
  <1>2. T # {}
    OBVIOUS
  <1>3. PICK t \in T : \A u \in T : t <= u
    BY <1>1, <1>2, LeastNatural
  <1>4. PICK m \in S : t = N - m
    BY <1>3
  <1>5. \A k \in S : k <= m
    BY <1>3, <1>4
  <1> QED BY <1>5

-----------------------------------------------------------------------------
(* Lemmas about the operators of the model.                                *)

LEMMA Numbers ==
    /\ 1 \in Files /\ Files \subseteq Nat
    /\ 1 \in Times /\ Times \subseteq 0..MaxTime /\ Times \subseteq Nat
    /\ 0 \notin Times /\ 0 \in 0..MaxTime /\ 0 \in 0..MaxRows
    /\ MaxTime \in Nat /\ MaxRows \in Nat /\ DayLength \in Nat \ {0}
    /\ MaxFiles \in Nat
  BY RollupBounds DEF Files, Times

LEMMA RowTypes ==
    ASSUME TypeOK, NEW f \in Files
    PROVE  /\ times[f] \in Seq(Times) /\ Len(times[f]) \in 0..MaxRows
           /\ \A i \in 1..Len(times[f]) : times[f][i] \in Times
           /\ Committed(f) \subseteq Rows
           /\ \A r \in Committed(f) :
                 r[1] = f /\ r[2] \in 1..Len(times[f]) /\ TimeOf(r) \in Times
  <1>1. times[f] \in Seq(Times) /\ Len(times[f]) \in 0..MaxRows
    BY Numbers DEF TypeOK
  <1>2. \A i \in 1..Len(times[f]) : times[f][i] \in Times
    BY <1>1
  <1>3. \A i \in 1..Len(times[f]) : i \in Ids
    BY <1>1, Numbers DEF Ids
  <1>4. Committed(f) \subseteq Rows
    BY <1>3 DEF Committed, Rows
  <1>5. ASSUME NEW r \in Committed(f)
        PROVE  r[1] = f /\ r[2] \in 1..Len(times[f]) /\ TimeOf(r) \in Times
    <2>1. PICK i \in 1..Len(times[f]) : r = <<f, i>>
      BY DEF Committed
    <2> QED BY <1>2, <2>1 DEF TimeOf
  <1> QED BY <1>1, <1>2, <1>4, <1>5

LEMMA NothingType == Nothing \in [Rows -> Nat]
  BY DEF Nothing

LEMMA PlusType ==
    ASSUME NEW c \in [Rows -> Nat], NEW S
    PROVE  Plus(c, S) \in [Rows -> Nat]
  BY DEF Plus

LEMMA PlusNothing ==
    ASSUME NEW S
    PROVE  /\ Plus(Nothing, S) \in [Rows -> Nat]
           /\ \A r \in Rows : Plus(Nothing, S)[r] = IF r \in S THEN 1 ELSE 0
  BY DEF Plus, Nothing

LEMMA PlusEmpty == Plus(Nothing, {}) = Nothing
  BY DEF Plus, Nothing

(* Counting on, and adding up, sets of rows that have nothing in common. *)
LEMMA PlusUnion ==
    ASSUME NEW S, NEW T, S \cap T = {}
    PROVE  Plus(Plus(Nothing, S), T) = Plus(Nothing, S \cup T)
  <1>1. \A r \in Rows : Plus(Plus(Nothing, S), T)[r] = Plus(Nothing, S \cup T)[r]
    BY DEF Plus, Nothing
  <1> QED BY <1>1 DEF Plus

LEMMA AddUnion ==
    ASSUME NEW S, NEW T, S \cap T = {}
    PROVE  Add(Plus(Nothing, S), Plus(Nothing, T)) = Plus(Nothing, S \cup T)
  <1>1. \A r \in Rows : Add(Plus(Nothing, S), Plus(Nothing, T))[r]
                           = Plus(Nothing, S \cup T)[r]
    BY DEF Add, Plus, Nothing
  <1> QED BY <1>1 DEF Add, Plus

LEMMA AddType ==
    ASSUME NEW c \in [Rows -> Nat], NEW d \in [Rows -> Nat]
    PROVE  Add(c, d) \in [Rows -> Nat]
  BY DEF Add

LEMMA LatestIs ==
    ASSUME NEW S, S \subseteq 0..MaxTime, S # {}
    PROVE  Latest(S) \in S /\ \A u \in S : u <= Latest(S)
  <1>1. PICK t \in S : \A u \in S : u <= t
    BY Numbers, GreatestBounded
  <1> QED BY <1>1 DEF Latest

(* How many of two windows are meant. *)
LEMMA CountOfTwo ==
    ASSUME NEW a, NEW b, NEW T, T \subseteq {a, b}
    PROVE  /\ Cardinality(T) \in Nat
           /\ a \notin T /\ b \notin T => Cardinality(T) = 0
           /\ a \in T /\ b \notin T => Cardinality(T) = 1
           /\ a \notin T /\ b \in T => Cardinality(T) = 1
  <1>1. IsFiniteSet({a, b})
    <2>1. IsFiniteSet({a})
      BY FS_Singleton
    <2>2. {a, b} = {a} \cup {b}
      OBVIOUS
    <2> QED BY <2>1, <2>2, FS_AddElement
  <1>2. Cardinality(T) \in Nat
    BY <1>1, FS_Subset, FS_CardinalityType
  <1>3. a \notin T /\ b \notin T => T = {}
    OBVIOUS
  <1>4. a \in T /\ b \notin T => T = {a}
    OBVIOUS
  <1>5. a \notin T /\ b \in T => T = {b}
    OBVIOUS
  <1> QED BY <1>2, <1>3, <1>4, <1>5, FS_EmptySet, FS_Singleton

LEMMA SliceType ==
    ASSUME NEW c \in [Rows -> Nat], NEW S, NEW lo, NEW hi
    PROVE  SliceCounts(c, S, lo, hi) \in [Rows -> Nat]
  <1> DEFINE W(r) == {w \in CorrectionWindows(lo, hi) : r \in Within(S, w[1], w[2])}
  <1>1. ASSUME NEW r \in Rows PROVE Cardinality(W(r)) \in Nat
    <2>1. W(r) \subseteq {<<lo, FirstFull(lo, hi) - 1>>, <<FullEnd(lo, hi), hi>>}
      BY DEF CorrectionWindows
    <2> HIDE DEF W
    <2> QED BY <2>1, CountOfTwo
  <1> HIDE DEF W
  <1>2. SliceCounts(c, S, lo, hi) =
          [r \in Rows |->
             (IF r \in Committed(r[1]) /\ TimeOf(r) >= FirstFull(lo, hi)
                                       /\ TimeOf(r) < FullEnd(lo, hi)
              THEN c[r] ELSE 0) + Cardinality(W(r))]
    BY DEF SliceCounts, W
  <1>3. \A r \in Rows : c[r] \in Nat
    OBVIOUS
  <1> QED BY <1>1, <1>2, <1>3

(* Where the whole days of a range lie. *)
LEMMA DayBounds ==
    ASSUME NEW lo \in Nat, NEW hi \in Nat, lo <= hi
    PROVE  /\ FirstFull(lo, hi) \in Nat /\ FullEnd(lo, hi) \in Nat
           /\ lo <= FirstFull(lo, hi) /\ FullEnd(lo, hi) <= hi + 1
  <1>1. /\ lo % DayLength \in 0..(DayLength - 1)
        /\ hi % DayLength \in 0..(DayLength - 1)
        /\ lo % DayLength <= lo /\ hi % DayLength <= hi
    BY Numbers
  <1>2. /\ DayStart(lo) \in Nat /\ DayStart(lo) <= lo
        /\ lo < DayStart(lo) + DayLength
        /\ DayStart(hi) \in Nat /\ DayStart(hi) <= hi
        /\ hi < DayStart(hi) + DayLength
    BY <1>1, Numbers DEF DayStart
  <1> QED BY <1>2, Numbers DEF FirstFull, FullEnd

(* The rollup of the whole days and the scans of the two windows count     *)
(* each row of the range once.                                             *)
LEMMA SliceExact ==
    ASSUME TypeOK, NEW S, NEW F, F \subseteq Files,
           S = UNION {Committed(f) : f \in F},
           NEW lo \in Times, NEW hi \in Times, lo <= hi,
           FullEnd(lo, hi) > FirstFull(lo, hi)
    PROVE  SliceCounts(Plus(Nothing, S), S, lo, hi) =
               Plus(Nothing, Within(S, lo, hi))
  <1> DEFINE a == FirstFull(lo, hi)  b == FullEnd(lo, hi)
             v == <<lo, a - 1>>  w == <<b, hi>>
             W(r) == {x \in CorrectionWindows(lo, hi) : r \in Within(S, x[1], x[2])}
  <1>1. /\ a \in Nat /\ b \in Nat /\ lo \in Nat /\ hi \in Nat
        /\ lo <= a /\ a < b /\ b <= hi + 1
    BY DayBounds, Numbers
  <1>2. v # w
    BY <1>1
  <1>3. CorrectionWindows(lo, hi) = {x \in {v, w} : x[1] <= x[2]}
    BY DEF CorrectionWindows
  <1> HIDE DEF a, b
  <1>4. ASSUME NEW r \in Rows
        PROVE  (IF r \in Committed(r[1]) /\ TimeOf(r) >= a /\ TimeOf(r) < b
                THEN Plus(Nothing, S)[r] ELSE 0) + Cardinality(W(r))
                  = IF r \in Within(S, lo, hi) THEN 1 ELSE 0
    <2>1. W(r) \subseteq {v, w}
      BY <1>3
    <2>2. CASE r \notin S
      <3>1. W(r) = {}
        BY <2>2 DEF Within
      <3>2. Cardinality(W(r)) = 0
        BY <3>1, FS_EmptySet
      <3>3. r \notin Within(S, lo, hi)
        BY <2>2 DEF Within
      <3>4. Plus(Nothing, S)[r] = 0
        BY <2>2, PlusNothing
      <3> HIDE DEF W
      <3> QED BY <3>2, <3>3, <3>4
    <2>3. CASE r \in S
      <3>1. r \in Committed(r[1]) /\ TimeOf(r) \in Nat
        <4>1. PICK f \in F : r \in Committed(f)
          BY <2>3
        <4> QED BY <4>1, RowTypes, Numbers
      <3>2. Plus(Nothing, S)[r] = 1
        BY <2>3, PlusNothing
      <3>3. v \in W(r) <=> lo <= TimeOf(r) /\ TimeOf(r) < a
        <4>1. v \in W(r) <=> lo <= a - 1 /\ lo <= TimeOf(r) /\ TimeOf(r) <= a - 1
          BY <1>3, <2>3 DEF Within
        <4> QED BY <1>1, <3>1, <4>1
      <3>4. w \in W(r) <=> b <= TimeOf(r) /\ TimeOf(r) <= hi
        <4>1. w \in W(r) <=> b <= hi /\ b <= TimeOf(r) /\ TimeOf(r) <= hi
          BY <1>3, <2>3 DEF Within
        <4> QED BY <1>1, <3>1, <4>1
      <3>5. r \in Within(S, lo, hi) <=> lo <= TimeOf(r) /\ TimeOf(r) <= hi
        BY <2>3 DEF Within
      <3>6. /\ v \notin W(r) /\ w \notin W(r) => Cardinality(W(r)) = 0
            /\ v \in W(r) /\ w \notin W(r) => Cardinality(W(r)) = 1
            /\ v \notin W(r) /\ w \in W(r) => Cardinality(W(r)) = 1
        <4> HIDE DEF W, v, w
        <4> QED BY <2>1, CountOfTwo
      <3> DEFINE t == TimeOf(r)  n == Cardinality(W(r))
      <3>7. /\ t \in Nat
            /\ t < lo => n = 0
            /\ lo <= t /\ t < a => n = 1
            /\ a <= t /\ t < b => n = 0
            /\ b <= t /\ t <= hi => n = 1
            /\ t > hi /\ t >= b => n = 0
        <4> HIDE DEF W, v, w
        <4> QED BY <1>1, <3>1, <3>3, <3>4, <3>6
      <3> HIDE DEF t, n, W, v, w
      <3>8. (IF t >= a /\ t < b THEN 1 ELSE 0) + n
               = IF lo <= t /\ t <= hi THEN 1 ELSE 0
        BY <1>1, <3>7
      <3> QED BY <3>1, <3>2, <3>5, <3>8 DEF t, n
    <2> QED BY <2>2, <2>3
  <1> HIDE DEF W, v, w
  <1>5. SliceCounts(Plus(Nothing, S), S, lo, hi) =
          [r \in Rows |->
             (IF r \in Committed(r[1]) /\ TimeOf(r) >= a /\ TimeOf(r) < b
              THEN Plus(Nothing, S)[r] ELSE 0) + Cardinality(W(r))]
    BY DEF SliceCounts, W, a, b
  <1>6. SliceCounts(Plus(Nothing, S), S, lo, hi) =
          [r \in Rows |-> IF r \in Within(S, lo, hi) THEN 1 ELSE 0]
    BY <1>4, <1>5
  <1>7. Plus(Nothing, Within(S, lo, hi)) =
          [r \in Rows |-> IF r \in Within(S, lo, hi) THEN 1 ELSE 0]
    BY DEF Plus, Nothing
  <1> QED BY <1>6, <1>7

-----------------------------------------------------------------------------
(* Types.                                                                  *)

Building == [at : {"idle", "lock", "cursor", "scan", "apply"},
             store : Files, maxId : 0..MaxRows, from : 0..MaxRows,
             inode : Inodes \cup {"none"}, maxTime : 0..MaxTime,
             delta : SUBSET Rows, lastTime : 0..MaxTime, quiet : BOOLEAN]
Analysing == [at : {"idle", "active", "slice", "archives", "done"},
              store : Files, lo : 0..MaxTime, hi : 0..MaxTime,
              olds : SUBSET Files, count : [Rows -> Nat],
              scanned : BOOLEAN, quiet : BOOLEAN]
CursorType == [lastId : 0..MaxRows, maxTime : 0..MaxTime, lastTime : 0..MaxTime,
               inode : Inodes \cup {"none"}]

LEMMA RestTypes ==
    /\ NoState \in CursorType /\ NoBuild \in Building /\ NoAnalysis \in Analysing
    /\ NoBuild.at = "idle" /\ NoAnalysis.at = "idle"
    /\ NoBuild.from <= NoBuild.maxId
  BY Numbers, NothingType
     DEF NoState, NoBuild, NoAnalysis, CursorType, Building, Analysing, Nothing

(* A build that has just been asked for. *)
LEMMA AskedTypes ==
    ASSUME NEW f \in Files, NEW b, b = [NoBuild EXCEPT !.at = "lock", !.store = f]
    PROVE  /\ b \in Building /\ b.at = "lock" /\ b.store = f
           /\ b.from = 0 /\ b.from <= b.maxId
  <1>1. NoBuild \in Building
    BY RestTypes
  <1>2. NoBuild.from = 0 /\ NoBuild.maxId = 0
    BY DEF NoBuild
  <1>3. b \in Building /\ b.at = "lock" /\ b.store = f
    BY <1>1 DEF Building
  <1>4. b.from = NoBuild.from /\ b.maxId = NoBuild.maxId
    BY <1>1 DEF Building
  <1> QED BY <1>2, <1>3, <1>4

LEMMA InitTypes == Init => TypeOK
  <1> SUFFICES ASSUME Init PROVE TypeOK
    OBVIOUS
  <1>1. /\ builder \in Building /\ builder.from <= builder.maxId
        /\ analysis \in Analysing /\ state \in CursorType
    BY RestTypes, AskedTypes, Numbers DEF Init
  <1>2. times \in [Files -> Seq(Times)] /\ \A f \in Files : Len(times[f]) <= MaxRows
    BY Numbers DEF Init
  <1>3. now \in Times /\ file \in Files /\ inode \in Inodes /\ agg \in [Rows -> Nat]
    BY Numbers, NothingType DEF Init
  <1>4. built \subseteq Files
    BY DEF Init
  <1>5. {asked, faults} \subseteq Nat
    BY DEF Init
  <1>6. settled \in BOOLEAN /\ torn \in BOOLEAN
    BY Zenon DEF Init
  <1> QED BY <1>1, <1>2, <1>3, <1>4, <1>5, <1>6 DEF TypeOK, Building, Analysing, CursorType

(* A step that disturbs changes no more of a build and an analysis. *)
LEMMA DisturbTypes ==
    ASSUME TypeOK, Disturb
    PROVE  /\ builder' \in Building /\ builder'.from <= builder'.maxId
           /\ analysis' \in Analysing /\ settled' = FALSE
  BY DEF Disturb, TypeOK, Building, Analysing

LEMMA NextTypes == TypeOK /\ BuildFits /\ [Next]_vars => TypeOK'
  <1> SUFFICES ASSUME TypeOK, BuildFits, [Next]_vars PROVE TypeOK'
    OBVIOUS
  <1>q. /\ builder \in Building /\ analysis \in Analysing /\ state \in CursorType
        /\ builder.from <= builder.maxId
    BY DEF TypeOK, Building, Analysing, CursorType
  <1> DEFINE BuilderOK == builder' \in Building /\ builder'.from <= builder'.maxId
  <1>f. ASSUME UNCHANGED <<now, times, file, inode, rollup, built, settled, torn>>,
               builder' \in Building /\ builder'.from <= builder'.maxId,
               analysis' \in Analysing, asked' \in Nat, faults' \in Nat
        PROVE  TypeOK'
    BY <1>f DEF TypeOK, Building, Analysing, rollup
  <1>n. builder.maxId \in 0..MaxRows /\ NoBuild.from <= NoBuild.maxId
        /\ asked \in Nat /\ faults \in Nat
    BY <1>q, RestTypes DEF TypeOK, Building
  <1>1. CASE Commit
    <2>1. now' \in Times
      BY <1>1, RollupBounds DEF Commit, TypeOK, Times
    <2>2. times' \in [Files -> Seq(Times)] /\ \A f \in Files : Len(times'[f]) <= MaxRows
      <3>1. ASSUME NEW f \in Files
            PROVE  times'[f] \in Seq(Times) /\ Len(times'[f]) <= MaxRows
        <4>1. times'[f] = IF f = file THEN Append(times[file], now') ELSE times[f]
          BY <1>1, <3>1 DEF Commit, TypeOK
        <4>2. times[f] \in Seq(Times) /\ Len(times[f]) <= MaxRows
          BY DEF TypeOK
        <4>3. f = file => Len(times[f]) < MaxRows
          BY <1>1 DEF Commit
        <4> QED BY <2>1, <4>1, <4>2, <4>3, Numbers
      <3> QED BY <1>1, <3>1 DEF Commit, TypeOK
    <2> QED BY <1>1, <2>1, <2>2, DisturbTypes
            DEF Commit, TypeOK, Building, Analysing, rollup, counts
  <1>2. CASE Rotate
    <2>1. file' \in Files /\ inode' \in Inodes
      BY <1>2, Numbers DEF Rotate, TypeOK, Files
    <2> QED BY <1>2, <2>1, DisturbTypes
            DEF Rotate, TypeOK, Building, Analysing, rollup, counts
  <1>3. CASE Restart
    <2>1. BuilderOK /\ analysis' \in Analysing
      <3>1. file \in Files
        BY DEF TypeOK
      <3> QED BY <1>3, <3>1, RestTypes, AskedTypes DEF Restart
    <2> QED BY <1>3, <1>f, <1>n, <2>1 DEF Restart
  <1>4. CASE ReadMaxId
    <2>1. builder.store \in Files
      BY <1>q DEF Building
    <2>2. Len(times[builder.store]) \in 0..MaxRows
      BY <2>1, RowTypes
    <2>3. builder.at = "lock" /\ builder' \in Building
      BY <1>4, <1>q, <2>2 DEF ReadMaxId, Building
    <2>4. builder'.from <= builder'.maxId
      BY <1>4, <1>q, <2>2 DEF ReadMaxId, Building, BuildFits
    <2> QED BY <1>4, <1>f, <1>n, <1>q, <2>3, <2>4 DEF ReadMaxId, counts
  <1>5. CASE CheckCursor
    <2> DEFINE stale == \/ Rotated(builder.store)
                        \/ state = NoState /\ agg # Nothing
                        \/ builder.maxId < state.lastId
               from  == IF stale THEN 0 ELSE state.lastId
               top   == IF stale THEN 0 ELSE state.maxTime
    <2>1. /\ from \in 0..MaxRows /\ from <= builder.maxId /\ top \in 0..MaxTime
          /\ state.lastId \in 0..MaxRows
      BY <1>n, <1>q, Numbers DEF CursorType
    <2>2. /\ agg' = IF stale THEN Nothing ELSE agg
          /\ settled' \in BOOLEAN /\ torn' \in BOOLEAN
          /\ builder' = IF builder.maxId = from THEN NoBuild
                        ELSE [builder EXCEPT !.at = "scan", !.from = from,
                                !.inode = inode, !.maxTime = top]
      BY <1>5 DEF CheckCursor, TypeOK
    <2> HIDE DEF from, top, stale
    <2>3. BuilderOK
      BY <1>n, <1>q, <2>1, <2>2, RestTypes DEF Building, TypeOK
    <2>4. agg' \in [Rows -> Nat]
      BY <2>2, NothingType DEF TypeOK
    <2>5. analysis' \in Analysing
      BY <1>5, <1>q DEF CheckCursor, Analysing
    <2> QED BY <1>5, <2>2, <2>3, <2>4, <2>5
            DEF CheckCursor, TypeOK, Building, Analysing, counts
  <1>6. CASE ScanAfter
    <2> DEFINE ts == times[builder.store]
               ids == (builder.from + 1)..Len(ts)
               top == Latest({builder.maxTime} \cup {ts[i] : i \in ids})
               last == IF ids = {} THEN 0 ELSE ts[Len(ts)]
               delta == {<<builder.store, i>> : i \in ids}
    <2>1. /\ builder.store \in Files /\ builder.from \in 0..MaxRows
          /\ builder.maxTime \in 0..MaxTime
      BY <1>q DEF Building
    <2>2. /\ Len(ts) \in 0..MaxRows /\ \A i \in 1..Len(ts) : ts[i] \in Times
      BY <2>1, RowTypes
    <2>3. \A i \in ids : i \in Ids /\ ts[i] \in 0..MaxTime
      <3>1. ASSUME NEW i \in ids PROVE i \in 1..Len(ts) /\ i \in 1..MaxRows
        BY <2>1, <2>2, Numbers
      <3> QED BY <2>2, <3>1, Numbers DEF Ids
    <2>4. top \in 0..MaxTime
      <3> DEFINE S == {builder.maxTime} \cup {ts[i] : i \in ids}
      <3>1. S \subseteq 0..MaxTime /\ S # {}
        BY <2>1, <2>3
      <3> HIDE DEF S
      <3>2. Latest(S) \in 0..MaxTime
        BY <3>1, LatestIs
      <3> QED BY <3>2 DEF S
    <2>5. last \in 0..MaxTime
      <3>1. CASE ids = {}
        BY <3>1, Numbers
      <3>2. CASE ids # {}
        <4>1. Len(ts) \in 1..Len(ts)
          BY <2>1, <2>2, <3>2, Numbers
        <4> QED BY <2>2, <3>2, <4>1, Numbers
      <3> QED BY <3>1, <3>2
    <2>6. delta \subseteq Rows
      BY <2>1, <2>3 DEF Rows
    <2>7. builder' = [builder EXCEPT !.at = "apply", !.delta = delta,
                        !.lastTime = last, !.maxTime = top]
      BY <1>6 DEF ScanAfter
    <2> HIDE DEF ts, ids, top, last, delta
    <2>8. BuilderOK
      BY <1>q, <2>4, <2>5, <2>6, <2>7 DEF Building
    <2> QED BY <1>6, <1>f, <1>n, <1>q, <2>8 DEF ScanAfter, counts
  <1>7. CASE ApplyDeltas
    <2>1. agg' \in [Rows -> Nat]
      BY <1>7, PlusType DEF ApplyDeltas, TypeOK
    <2>2. state' \in CursorType
      BY <1>7, <1>q DEF ApplyDeltas, Cursor, Building, CursorType
    <2>3. BuilderOK /\ analysis' \in Analysing /\ settled' \in BOOLEAN
      BY <1>7, <1>n, <1>q, RestTypes DEF ApplyDeltas, Building, Analysing
    <2> QED BY <1>7, <2>1, <2>2, <2>3
            DEF ApplyDeltas, TypeOK, Building, Analysing, CursorType, counts
  <1>8. CASE BuildFails
    BY <1>8, <1>f, <1>n, <1>q, RestTypes DEF BuildFails
  <1>9. ASSUME NEW f \in Files, BuildArchive(f) PROVE TypeOK'
    <2>1. built' \subseteq Files
      BY <1>9 DEF BuildArchive, TypeOK
    <2>2. UNCHANGED <<now, times, file, inode, rollup, builder, analysis, counts,
                      settled, torn>>
      BY <1>9 DEF BuildArchive
    <2> QED BY <2>1, <2>2 DEF TypeOK, rollup, counts
  <1>11. ASSUME NEW f \in Files, AskElsewhere(f) PROVE TypeOK'
    <2>1. BuilderOK
      BY <1>11, AskedTypes DEF AskElsewhere
    <2> QED BY <1>11, <1>f, <1>n, <1>q, <2>1 DEF AskElsewhere
  <1>12. ASSUME NEW lo \in Times, NEW hi \in Times, Collect(lo, hi) PROVE TypeOK'
    <2> DEFINE olds == {f \in 1..(file - 1) : Within(Committed(f), lo, hi) # {}}
    <2>1. olds \subseteq Files
      <3>1. file \in 1..MaxFiles /\ MaxFiles \in Nat
        BY Numbers DEF TypeOK, Files
      <3>2. 1..(file - 1) \subseteq Files
        BY <3>1 DEF Files
      <3> QED BY <3>2
    <2>2. analysis' = [NoAnalysis EXCEPT !.at = "active", !.store = file,
                         !.lo = lo, !.hi = hi, !.quiet = TRUE, !.olds = olds]
      BY <1>12 DEF Collect
    <2> HIDE DEF olds
    <2>3. analysis' \in Analysing
      BY <2>1, <2>2, RestTypes, Numbers DEF Analysing, TypeOK
    <2> QED BY <1>12, <1>f, <1>n, <1>q, <2>3 DEF Collect
  <1>c. ASSUME NEW c \in [Rows -> Nat], NEW a \in {"archives", "done"},
               \/ analysis' = [analysis EXCEPT !.at = a, !.count = c]
               \/ analysis' = [analysis EXCEPT !.at = a, !.scanned = TRUE,
                                               !.count = c]
        PROVE  analysis' \in Analysing
    BY <1>c, <1>q DEF Analysing
  <1>13. CASE ActiveByRollup
    <2>1. analysis' \in Analysing
      BY <1>13, <1>q DEF ActiveByRollup, Analysing
    <2> QED BY <1>13, <1>f, <1>n, <1>q, <2>1 DEF ActiveByRollup, counts
  <1>14. CASE ReadActiveSlice
    <2>1. SliceCounts(agg, Committed(analysis.store), analysis.lo, analysis.hi)
             \in [Rows -> Nat]
      BY SliceType DEF TypeOK
    <2>2. analysis' \in Analysing
      BY <1>14, <1>c, <2>1 DEF ReadActiveSlice
    <2> QED BY <1>14, <1>f, <1>n, <1>q, <2>2 DEF ReadActiveSlice, counts
  <1>15. CASE ActiveByScan
    <2>1. analysis' \in Analysing
      <3> DEFINE c == Plus(Nothing, Within(Committed(analysis.store), analysis.lo,
                                           analysis.hi))
      <3>1. c \in [Rows -> Nat]
        BY PlusNothing
      <3>2. analysis' = [analysis EXCEPT !.at = "archives", !.count = c]
        BY <1>15 DEF ActiveByScan
      <3> HIDE DEF c
      <3> QED BY <1>c, <3>1, <3>2
    <2>2. BuilderOK
      <3>1. analysis.store \in Files
        BY <1>q DEF Analysing
      <3> QED BY <1>15, <1>q, <3>1, AskedTypes DEF ActiveByScan
    <2> QED BY <1>15, <1>f, <1>n, <2>1, <2>2 DEF ActiveByScan, counts
  <1>16. CASE ReadArchives
    <2> DEFINE S == UNION {Committed(f) : f \in analysis.olds}
               d == IF HasFullDay
                    THEN SliceCounts(Plus(Nothing, S), S, analysis.lo, analysis.hi)
                    ELSE Plus(Nothing, Within(S, analysis.lo, analysis.hi))
    <2>1. d \in [Rows -> Nat]
      BY SliceType, PlusNothing
    <2>2. analysis.count \in [Rows -> Nat]
      BY <1>q DEF Analysing
    <2>3. analysis' = [analysis EXCEPT !.at = "done", !.count = Add(analysis.count, d)]
      BY <1>16 DEF ReadArchives
    <2> HIDE DEF d
    <2>4. analysis' \in Analysing
      BY <1>c, <2>1, <2>2, <2>3, AddType
    <2> QED BY <1>16, <1>f, <1>n, <1>q, <2>4 DEF ReadArchives, counts
  <1>17. CASE ScanEverything
    <2>1. analysis' \in Analysing
      <3> DEFINE S == UNION {Committed(f) : f \in analysis.olds \cup {analysis.store}}
                 c == Plus(Nothing, Within(S, analysis.lo, analysis.hi))
      <3>1. c \in [Rows -> Nat]
        BY PlusNothing
      <3>2. analysis' = [analysis EXCEPT !.at = "done", !.scanned = TRUE, !.count = c]
        BY <1>17 DEF ScanEverything
      <3> HIDE DEF c
      <3> QED BY <1>c, <3>1, <3>2
    <2> QED BY <1>17, <1>f, <1>n, <1>q, <2>1 DEF ScanEverything, counts
  <1>18. CASE Answered
    BY <1>18, <1>f, <1>n, <1>q, RestTypes DEF Answered, counts
  <1>19. CASE UNCHANGED vars
    BY <1>19 DEF vars, TypeOK, rollup, counts
  <1> QED BY <1>1, <1>2, <1>3, <1>4, <1>5, <1>6, <1>7, <1>8, <1>9, <1>11, <1>12,
             <1>13, <1>14, <1>15, <1>16, <1>17, <1>18, <1>19
          DEF Next, BuildStep
-----------------------------------------------------------------------------
(* What the steps have in common.                                          *)

(* Only a commit adds rows, only the build touches the rollup. *)
LEMMA QuietSteps ==
    ASSUME [Next]_vars
    PROVE  \/ Commit \/ Rotate \/ CheckCursor \/ ApplyDeltas
           \/ UNCHANGED <<times, file, agg, state, settled, torn>>
  <1> DEFINE Quiet == UNCHANGED <<times, file, agg, state, settled, torn>>
  <1>1. Restart \/ ReadMaxId \/ ScanAfter \/ BuildFails => Quiet
    BY DEF Restart, ReadMaxId, ScanAfter, BuildFails, rollup
  <1>2. ASSUME NEW f \in Files,
               AskElsewhere(f) \/ BuildArchive(f)
        PROVE  Quiet
    BY <1>2 DEF AskElsewhere, BuildArchive, rollup
  <1>3. ASSUME NEW lo \in Times, NEW hi \in Times, Collect(lo, hi) PROVE Quiet
    BY <1>3 DEF Collect, rollup
  <1>4. ActiveByRollup \/ ReadActiveSlice \/ ActiveByScan => Quiet
    BY DEF ActiveByRollup, ReadActiveSlice, ActiveByScan, rollup
  <1>5. ReadArchives \/ ScanEverything \/ Answered => Quiet
    BY DEF ReadArchives, ScanEverything, Answered, rollup
  <1>6. UNCHANGED vars => Quiet
    BY DEF vars, rollup
  <1> HIDE DEF Quiet
  <1>7. Commit \/ Rotate \/ CheckCursor \/ ApplyDeltas \/ Quiet
    BY <1>1, <1>2, <1>3, <1>4, <1>5, <1>6 DEF Next, BuildStep
  <1> QED BY <1>7 DEF Quiet

LEMMA CommitKeeps ==
    ASSUME TypeOK, Commit
    PROVE  /\ file' = file
           /\ \A f \in Files :
                 /\ Len(times'[f]) \in Nat /\ Len(times[f]) <= Len(times'[f])
                 /\ f # file => times'[f] = times[f]
                 /\ \A i \in 1..Len(times[f]) : times'[f][i] = times[f][i]
  <1>1. file \in Files /\ now' \in Times
    BY RollupBounds DEF TypeOK, Commit, Times
  <1>2. ASSUME NEW f \in Files
        PROVE  /\ Len(times'[f]) \in Nat /\ Len(times[f]) <= Len(times'[f])
               /\ f # file => times'[f] = times[f]
               /\ \A i \in 1..Len(times[f]) : times'[f][i] = times[f][i]
    <2>1. times'[f] = IF f = file THEN Append(times[f], now') ELSE times[f]
      BY <1>2 DEF Commit, TypeOK
    <2>2. times[f] \in Seq(Times)
      BY DEF TypeOK
    <2> QED BY <1>1, <2>1, <2>2
  <1> QED BY <1>2 DEF Commit

(* Two rows of one time stay so. *)
LEMMA CommitSameTime ==
    ASSUME TypeOK, Commit, SameTime
    PROVE  SameTime'
  <1>1. PICK r \in UNION {Committed(f) : f \in Files},
             q \in UNION {Committed(f) : f \in Files} :
                r # q /\ TimeOf(r) = TimeOf(q)
    BY DEF SameTime
  <1>2. ASSUME NEW s \in UNION {Committed(f) : f \in Files}
        PROVE  /\ s \in UNION {Committed(f)' : f \in Files}
               /\ times'[s[1]][s[2]] = TimeOf(s)
    <2>1. PICK f \in Files : s \in Committed(f)
      OBVIOUS
    <2>2. PICK i \in 1..Len(times[f]) : s = <<f, i>>
      BY <2>1 DEF Committed
    <2>3. i \in 1..Len(times'[f]) /\ times'[f][i] = times[f][i]
      BY <2>2, CommitKeeps, RowTypes
    <2> QED BY <2>2, <2>3 DEF Committed, TimeOf
  <1> QED BY <1>1, <1>2 DEF SameTime, TimeOf

(* With times that differ, a time tells where its row is. *)
LEMMA TimeTells ==
    ASSUME TypeOK, ~SameTime, NEW f \in Files, NEW g \in Files,
           NEW i \in 1..Len(times[f]), NEW j \in 1..Len(times[g]),
           times[f][i] = times[g][j]
    PROVE  f = g /\ i = j
  <1>1. <<f, i>> \in Committed(f) /\ <<g, j>> \in Committed(g)
    BY DEF Committed
  <1>2. TimeOf(<<f, i>>) = TimeOf(<<g, j>>)
    BY DEF TimeOf
  <1>3. <<f, i>> = <<g, j>>
    BY <1>1, <1>2 DEF SameTime
  <1> QED BY <1>3

(* Adding the rows behind row m to a rollup of the rows up to it. *)
LEMMA CountedOn ==
    ASSUME NEW f, NEW m \in Nat, NEW n \in Nat, m <= n, Counted(f, m)
    PROVE  Plus(agg, {<<f, i>> : i \in (m + 1)..n}) = Plus(Nothing, Prefix(f, n))
  <1> DEFINE D == {<<f, i>> : i \in (m + 1)..n}
  <1>1. Prefix(f, m) \cap D = {}
    BY DEF Prefix
  <1>2. Prefix(f, m) \cup D = Prefix(f, n)
    <2>1. \A i : i \in 1..n <=> i \in 1..m \/ i \in (m + 1)..n
      OBVIOUS
    <2> QED BY <2>1 DEF Prefix
  <1> HIDE DEF D
  <1>3. Plus(Plus(Nothing, Prefix(f, m)), D) = Plus(Nothing, Prefix(f, n))
    BY <1>1, <1>2, PlusUnion
  <1> QED BY <1>3 DEF Counted, D

-----------------------------------------------------------------------------
(* The parts of the invariant, step by step.                               *)

LEMMA FilesFitNext == TypeOK /\ FilesFit /\ [Next]_vars => FilesFit'
  <1> SUFFICES ASSUME TypeOK, FilesFit, [Next]_vars PROVE FilesFit'
    OBVIOUS
  <1>1. file \in Nat
    BY Numbers DEF TypeOK
  <1>2. CASE Commit
    BY <1>1, <1>2, CommitKeeps, Numbers DEF FilesFit
  <1>3. CASE Rotate
    BY <1>1, <1>3, Numbers DEF FilesFit, Rotate
  <1>4. CASE UNCHANGED <<times, file>>
    BY <1>4 DEF FilesFit
  <1> QED BY <1>2, <1>3, <1>4, QuietSteps DEF CheckCursor, ApplyDeltas

LEMMA StateFitsNext == TypeOK /\ StateFits /\ BuildFits /\ [Next]_vars => StateFits'
  <1> SUFFICES ASSUME TypeOK, StateFits, BuildFits, [Next]_vars PROVE StateFits'
    OBVIOUS
  <1>1. CASE Commit
    <2> SUFFICES ASSUME state # NoState PROVE StateFits'
      BY <1>1 DEF StateFits, Commit, rollup
    <2> DEFINE At(f, n) == /\ state.lastId <= n /\ times[f][n] = state.lastTime
                           /\ ~SameTime /\ ~torn /\ ~Cut => Counted(f, n)
    <2>a. PICK f \in Files : \E n \in 1..Len(times[f]) : At(f, n)
      BY DEF StateFits
    <2>1. PICK n \in 1..Len(times[f]) : At(f, n)
      BY <2>a
    <2>2. UNCHANGED <<agg, state, torn>>
      BY <1>1 DEF Commit, rollup
    <2>3. n \in 1..Len(times'[f]) /\ times'[f][n] = state'.lastTime
      BY <1>1, <2>1, <2>2, CommitKeeps, RowTypes
    <2>4. ~SameTime' => ~SameTime
      BY <1>1, CommitSameTime
    <2>5. (~SameTime /\ ~torn /\ ~Cut)' => Counted(f, n)'
      BY <2>1, <2>2, <2>4 DEF Cut, Counted, Prefix
    <2>6. state'.lastId > 0
      BY <2>2 DEF StateFits
    <2> QED BY <2>1, <2>2, <2>3, <2>5, <2>6 DEF StateFits
  <1>2. CASE CheckCursor
    <2> SUFFICES ASSUME state # NoState PROVE StateFits'
      BY <1>2 DEF StateFits, CheckCursor
    <2> DEFINE At(f, n) == /\ state.lastId <= n /\ times[f][n] = state.lastTime
                           /\ ~SameTime /\ ~torn /\ ~Cut => Counted(f, n)
    <2>a. PICK f \in Files : \E n \in 1..Len(times[f]) : At(f, n)
      BY DEF StateFits
    <2>1. PICK n \in 1..Len(times[f]) : At(f, n)
      BY <2>a
    <2>2. UNCHANGED <<times, state>>
      BY <1>2 DEF CheckCursor
    <2>3. \/ agg' = Nothing
          \/ agg' = agg /\ torn' = (torn \/ Cut)
      BY <1>2 DEF CheckCursor
    <2>4. SameTime' = SameTime
      BY <2>2 DEF SameTime, Committed, TimeOf
    <2>5. CASE agg' = Nothing
      <3>1. Cut'
        BY <2>2, <2>5 DEF Cut, NoState, Nothing
      <3> QED BY <2>1, <2>2, <3>1 DEF StateFits
    <2>6. CASE agg' = agg /\ torn' = (torn \/ Cut)
      <3>1. (~SameTime /\ ~torn /\ ~Cut)' => Counted(f, n)'
        BY <2>1, <2>2, <2>4, <2>6 DEF Cut, Counted, Prefix
      <3> QED BY <2>1, <2>2, <3>1 DEF StateFits
    <2> QED BY <2>3, <2>5, <2>6
  <1>3. CASE ApplyDeltas
    <2>0. builder.store \in Files
      BY DEF TypeOK
    <2>f. PICK f \in Files : f = builder.store
      BY <2>0
    <2>1. /\ builder.at = "apply"
          /\ builder.from \in Nat /\ builder.maxId \in Nat
          /\ builder.from < builder.maxId
      BY <1>3, Numbers DEF ApplyDeltas, TypeOK, BuildFits
    <2>2. PICK n \in builder.maxId..Len(times[f]) :
             /\ builder.delta = {<<f, i>> : i \in (builder.from + 1)..n}
             /\ builder.lastTime = times[f][n]
      BY <2>1, <2>f DEF BuildFits
    <2>3. /\ times' = times /\ torn' = torn
          /\ state'.lastId = builder.maxId /\ state'.lastTime = builder.lastTime
          /\ agg' = Plus(agg, builder.delta)
      BY <1>3 DEF ApplyDeltas, Cursor
    <2>4. n \in 1..Len(times[f]) /\ n \in Nat /\ builder.from <= n
      BY <2>1, <2>2, RowTypes
    <2>5. SameTime' = SameTime
      BY <2>3 DEF SameTime, Committed, TimeOf
    <2>6. (~SameTime /\ ~torn)' => Counted(f, n)'
      <3> SUFFICES ASSUME ~SameTime, ~torn PROVE agg' = Plus(Nothing, Prefix(f, n))
        BY <2>3, <2>5 DEF Counted, Prefix
      <3>1. Counted(f, builder.from)
        BY <2>1, <2>f DEF BuildFits
      <3> QED BY <2>1, <2>2, <2>3, <2>4, <3>1, CountedOn
    <2> QED BY <2>1, <2>2, <2>3, <2>4, <2>6 DEF StateFits
  <1>4. CASE UNCHANGED <<times, agg, state, torn>>
    <2>1. SameTime' = SameTime
      BY <1>4 DEF SameTime, Committed, TimeOf
    <2>2. Cut' = Cut /\ (torn' <=> torn)
      BY <1>4 DEF Cut
    <2>3. ASSUME NEW f, NEW n PROVE Counted(f, n)' = Counted(f, n)
      BY <1>4 DEF Counted, Prefix
    <2> QED BY <1>4, <2>1, <2>2, <2>3 DEF StateFits
  <1> QED BY <1>1, <1>2, <1>3, <1>4, QuietSteps DEF Rotate, rollup

(* What a step does to the build. *)
LEMMA BuilderSteps ==
    ASSUME TypeOK, [Next]_vars
    PROVE  \/ builder'.at = "idle"
           \/ builder'.at = "lock" /\ builder'.from = 0
           \/ Commit \/ Rotate \/ ReadMaxId \/ CheckCursor \/ ScanAfter
           \/ UNCHANGED <<times, file, agg, torn, builder>>
  <1> DEFINE New == \/ builder'.at = "idle"
                    \/ builder'.at = "lock" /\ builder'.from = 0
             Same == UNCHANGED <<times, file, agg, torn, builder>>
  <1>1. BuildFails \/ ApplyDeltas => New
    BY RestTypes DEF BuildFails, ApplyDeltas
  <1>2. Restart => New
    BY AskedTypes DEF Restart, TypeOK
  <1>3. ASSUME NEW f \in Files, AskElsewhere(f) PROVE New
    BY <1>3, AskedTypes DEF AskElsewhere
  <1>4. ASSUME NEW f \in Files, BuildArchive(f) PROVE Same
    BY <1>4 DEF BuildArchive, rollup
  <1>5. ASSUME NEW lo \in Times, NEW hi \in Times, Collect(lo, hi) PROVE Same
    BY <1>5 DEF Collect, rollup
  <1>6. ActiveByRollup \/ ReadActiveSlice => Same
    BY DEF ActiveByRollup, ReadActiveSlice, rollup
  <1>7. ActiveByScan => New \/ Same
    <2> SUFFICES ASSUME ActiveByScan PROVE New \/ Same
      OBVIOUS
    <2>1. analysis.store \in Files
      BY DEF TypeOK
    <2>2. UNCHANGED <<times, file, agg, torn>>
      BY DEF ActiveByScan, rollup
    <2>3. \/ UNCHANGED builder
          \/ builder' = [NoBuild EXCEPT !.at = "lock", !.store = analysis.store]
      BY DEF ActiveByScan
    <2>4. CASE UNCHANGED builder
      BY <2>2, <2>4
    <2>5. CASE builder' = [NoBuild EXCEPT !.at = "lock", !.store = analysis.store]
      BY <2>1, <2>5, AskedTypes
    <2> QED BY <2>3, <2>4, <2>5
  <1>8. ReadArchives \/ ScanEverything \/ Answered => Same
    BY DEF ReadArchives, ScanEverything, Answered, rollup
  <1>9. UNCHANGED vars => Same
    BY DEF vars, rollup
  <1> HIDE DEF New, Same
  <1>10. New \/ Same \/ Commit \/ Rotate \/ ReadMaxId \/ CheckCursor \/ ScanAfter
    BY <1>1, <1>2, <1>3, <1>4, <1>5, <1>6, <1>7, <1>8, <1>9 DEF Next, BuildStep
  <1> QED BY <1>10 DEF New, Same

LEMMA BuildFitsNext == TypeOK /\ StateFits /\ BuildFits /\ [Next]_vars => BuildFits'
  <1> SUFFICES ASSUME TypeOK, StateFits, BuildFits, [Next]_vars PROVE BuildFits'
    OBVIOUS
  <1>0. builder.store \in Files /\ builder \in Building
    BY DEF TypeOK, Building
  <1>f. PICK f \in Files : f = builder.store
    BY <1>0
  <1>n. /\ builder.from \in Nat /\ builder.maxId \in Nat /\ Len(times[f]) \in Nat
    BY <1>0, RowTypes, Numbers DEF Building
  <1>1. CASE builder'.at = "idle" \/ (builder'.at = "lock" /\ builder'.from = 0)
    BY <1>1 DEF BuildFits
  <1>2. CASE Commit
    <2>1. /\ agg' = agg /\ torn' = torn
          /\ builder' = [builder EXCEPT !.quiet = FALSE]
      BY <1>2 DEF Commit, Disturb, rollup
    <2>2. /\ builder'.quiet = FALSE /\ builder'.at = builder.at
          /\ builder'.store = f /\ builder'.from = builder.from
          /\ builder'.maxId = builder.maxId /\ builder'.delta = builder.delta
          /\ builder'.lastTime = builder.lastTime
      BY <2>1, <1>0, <1>f DEF Building
    <2>3. /\ Len(times'[f]) \in Nat /\ Len(times[f]) <= Len(times'[f])
          /\ \A i \in 1..Len(times[f]) : times'[f][i] = times[f][i]
      BY <1>2, CommitKeeps
    <2>4. ~SameTime' => ~SameTime
      BY <1>2, CommitSameTime
    <2>5. Counted(f, builder.from) => Counted(f, builder.from)'
      BY <2>1, <2>2 DEF Counted, Prefix
    <2>6. CASE builder.at \in {"idle", "lock", "cursor"}
      BY <2>1, <2>2, <2>3, <2>6, <1>f, <1>n DEF BuildFits
    <2>7. CASE builder.at \in {"scan", "apply"}
      <3>1. /\ builder.from < builder.maxId
            /\ builder.maxId <= Len(times'[f])
        BY <1>f, <1>n, <2>3, <2>7 DEF BuildFits
      <3>2. (~SameTime /\ ~torn)' => Counted(f, builder.from)'
        BY <1>f, <2>1, <2>4, <2>5, <2>7 DEF BuildFits
      <3>3. CASE builder.at = "apply"
        <4>1. PICK n \in builder.maxId..Len(times[f]) :
                 /\ builder.delta = {<<f, i>> : i \in (builder.from + 1)..n}
                 /\ builder.lastTime = times[f][n]
          BY <1>f, <3>3 DEF BuildFits
        <4>2. n \in 1..Len(times[f])
          BY <1>n, <3>1
        <4>3. n \in builder.maxId..Len(times'[f]) /\ times'[f][n] = times[f][n]
          BY <1>n, <2>3, <4>1, <4>2
        <4> QED BY <2>2, <3>1, <3>2, <3>3, <4>1, <4>3 DEF BuildFits, Counted
      <3>4. CASE builder.at = "scan"
        BY <2>2, <3>1, <3>2, <3>4 DEF BuildFits, Counted
      <3> QED BY <2>7, <3>3, <3>4
    <2> QED BY <1>0, <2>6, <2>7 DEF Building
  <1>3. CASE Rotate
    <2>1. /\ agg' = agg /\ torn' = torn /\ times' = times
          /\ builder' = [builder EXCEPT !.quiet = FALSE]
      BY <1>3 DEF Rotate, Disturb, rollup
    <2>2. /\ builder'.quiet = FALSE /\ builder'.at = builder.at
          /\ builder'.store = builder.store /\ builder'.from = builder.from
          /\ builder'.maxId = builder.maxId /\ builder'.delta = builder.delta
          /\ builder'.lastTime = builder.lastTime
      BY <2>1, <1>0 DEF Building
    <2>3. SameTime' = SameTime
      BY <2>1 DEF SameTime, Committed, TimeOf
    <2>4. Counted(builder.store, builder.from)' = Counted(builder.store, builder.from)
      BY <2>1, <2>2 DEF Counted, Prefix
    <2> QED BY <2>1, <2>2, <2>3, <2>4 DEF BuildFits
  <1>4. CASE ReadMaxId
    <2>1. /\ builder'.at = "cursor" /\ builder'.store = f
          /\ builder'.from = builder.from /\ builder.at = "lock"
          /\ builder'.maxId = Len(times[f])
          /\ builder'.quiet => f = file
          /\ times' = times /\ file' = file
      BY <1>0, <1>4, <1>f DEF ReadMaxId, Building
    <2> QED BY <1>n, <2>1 DEF BuildFits
  <1>5. CASE CheckCursor
    <2> DEFINE stale == \/ Rotated(builder.store)
                        \/ state = NoState /\ agg # Nothing
                        \/ builder.maxId < state.lastId
               from  == IF stale THEN 0 ELSE state.lastId
    <2> SUFFICES ASSUME builder'.at # "idle" PROVE BuildFits'
      BY <1>1
    <2>l. state.lastId \in Nat /\ NoState.lastId = 0
      BY Numbers DEF TypeOK, NoState
    <2>1. /\ builder.at = "cursor" /\ builder.maxId # from
          /\ agg' = (IF stale THEN Nothing ELSE agg)
          /\ torn' = (~stale /\ (torn \/ Cut))
          /\ builder' = [builder EXCEPT !.at = "scan", !.from = from, !.inode = inode,
                            !.maxTime = IF stale THEN 0 ELSE state.maxTime]
          /\ times' = times /\ file' = file
      BY <1>5, RestTypes DEF CheckCursor
    <2>2. /\ builder'.at = "scan" /\ builder'.store = f /\ builder'.from = from
          /\ builder'.maxId = builder.maxId /\ builder'.quiet = builder.quiet
      BY <2>1, <1>0, <1>f DEF Building
    <2>3. builder.maxId <= Len(times[f]) /\ (builder.quiet => f = file)
      BY <1>f, <2>1 DEF BuildFits
    <2>4. from < builder.maxId
      BY <1>n, <2>1, <2>l
    <2>5. SameTime' = SameTime
      BY <2>1 DEF SameTime, Committed, TimeOf
    <2>6. ~SameTime /\ ~torn' => agg' = Plus(Nothing, Prefix(f, from))
      <3>1. CASE stale
        <4>1. Prefix(f, from) = {}
          BY <3>1 DEF Prefix
        <4> QED BY <2>1, <3>1, <4>1, PlusEmpty
      <3>2. CASE ~stale /\ state = NoState
        <4>1. agg' = Nothing /\ from = 0
          BY <2>1, <2>l, <3>2
        <4>2. Prefix(f, from) = {}
          BY <4>1 DEF Prefix
        <4> QED BY <4>1, <4>2, PlusEmpty
      <3>3. CASE ~stale /\ state # NoState
        <4> SUFFICES ASSUME ~SameTime, ~torn, ~Cut
                     PROVE  agg = Plus(Nothing, Prefix(f, state.lastId))
          BY <2>1, <3>3
        <4>1. PICK g \in Files : \E n \in 1..Len(times[g]) :
                 times[g][n] = state.lastTime /\ Counted(g, n)
          BY <3>3 DEF StateFits
        <4>2. PICK n \in 1..Len(times[g]) :
                 times[g][n] = state.lastTime /\ Counted(g, n)
          BY <4>1
        <4>3. state.lastTime \in Nat /\ state.lastTime # 0 /\ state.lastId > 0
          <5>1. state.lastId > 0
            BY <3>3 DEF StateFits
          <5>2. times[g][n] \in Times
            BY RowTypes
          <5> QED BY <4>2, <5>1, <5>2, Numbers
        <4>4. ~Rotated(f)
          BY <1>f, <3>3
        <4>5. state.lastId \in 1..Len(times[f]) /\ times[f][state.lastId] = times[g][n]
          BY <1>n, <2>l, <3>3, <4>2, <4>3, <4>4 DEF Rotated
        <4>6. f = g /\ state.lastId = n
          BY <4>5, TimeTells
        <4> QED BY <4>2, <4>6 DEF Counted
      <3> QED BY <3>1, <3>2, <3>3
    <2> HIDE DEF from, stale
    <2>7. (~SameTime /\ ~torn)' => Counted(builder.store, builder.from)'
      BY <2>2, <2>5, <2>6 DEF Counted, Prefix
    <2> QED BY <2>1, <2>2, <2>3, <2>4, <2>7 DEF BuildFits
  <1>6. CASE ScanAfter
    <2> DEFINE ts == times[f]
               D  == {<<f, i>> : i \in (builder.from + 1)..Len(ts)}
    <2>1. /\ builder.at = "scan" /\ builder.from < builder.maxId
          /\ builder.maxId <= Len(ts) /\ (builder.quiet => f = file)
          /\ ~SameTime /\ ~torn => Counted(f, builder.from)
      BY <1>6, <1>f DEF BuildFits, ScanAfter
    <2>2. (builder.from + 1)..Len(ts) # {}
      BY <1>n, <2>1
    <2>3. /\ builder'.at = "apply" /\ builder'.store = f
          /\ builder'.from = builder.from /\ builder'.maxId = builder.maxId
          /\ builder'.quiet = builder.quiet /\ builder'.delta = D
          /\ builder'.lastTime = ts[Len(ts)]
      BY <1>0, <1>6, <1>f, <2>2 DEF ScanAfter, Building
    <2>4. UNCHANGED <<times, file, agg, torn>>
      BY <1>6 DEF ScanAfter, rollup
    <2>5. SameTime' = SameTime
      BY <2>4 DEF SameTime, Committed, TimeOf
    <2>6. (~SameTime /\ ~torn)' => Counted(builder.store, builder.from)'
      BY <2>1, <2>3, <2>4, <2>5 DEF Counted, Prefix
    <2>7. Len(ts) \in builder.maxId..Len(ts)
      BY <1>n, <2>1
    <2> QED BY <2>1, <2>3, <2>4, <2>6, <2>7 DEF BuildFits
  <1>7. CASE UNCHANGED <<times, file, agg, torn, builder>>
    <2>1. SameTime' = SameTime
      BY <1>7 DEF SameTime, Committed, TimeOf
    <2>2. Counted(builder.store, builder.from)' = Counted(builder.store, builder.from)
      BY <1>7 DEF Counted, Prefix
    <2> QED BY <1>7, <2>1, <2>2 DEF BuildFits
  <1> QED BY <1>1, <1>2, <1>3, <1>4, <1>5, <1>6, <1>7, BuilderSteps

LEMMA QuietBuildNext ==
    TypeOK /\ BuildFits /\ QuietBuildExact /\ [Next]_vars => QuietBuildExact'
  <1> SUFFICES ASSUME TypeOK, BuildFits, QuietBuildExact, [Next]_vars
               PROVE  QuietBuildExact'
    OBVIOUS
  <1>1. CASE Commit \/ Rotate
    <2>1. settled' = FALSE
      BY <1>1 DEF Commit, Rotate, Disturb
    <2> QED BY <2>1 DEF QuietBuildExact
  <1>2. CASE CheckCursor
    <2> SUFFICES ASSUME settled', ~SameTime', ~torn' PROVE QuietBuildExact'
      BY DEF QuietBuildExact
    <2>1. settled /\ ~torn /\ agg' = agg /\ times' = times /\ file' = file
      BY <1>2 DEF CheckCursor
    <2>2. SameTime' = SameTime /\ Committed(file)' = Committed(file)
      BY <2>1 DEF SameTime, Committed, TimeOf
    <2> QED BY <2>1, <2>2 DEF QuietBuildExact
  <1>3. CASE ApplyDeltas
    <2> SUFFICES ASSUME settled', ~SameTime', ~torn' PROVE QuietBuildExact'
      BY DEF QuietBuildExact
    <2>1. /\ builder.at = "apply" /\ builder.quiet /\ ~torn
          /\ agg' = Plus(agg, builder.delta) /\ times' = times /\ file' = file
      BY <1>3 DEF ApplyDeltas
    <2>2. SameTime' = SameTime /\ Committed(file)' = Committed(file)
      BY <2>1 DEF SameTime, Committed, TimeOf
    <2>3. builder.store = file /\ file \in Files /\ Len(times[file]) \in Nat
      BY <2>1, RowTypes DEF BuildFits, TypeOK
    <2>4. /\ Counted(file, builder.from)
          /\ builder.delta = {<<file, i>> : i \in (builder.from + 1)..Len(times[file])}
          /\ builder.from < builder.maxId /\ builder.maxId <= Len(times[file])
      BY <2>1, <2>2, <2>3 DEF BuildFits
    <2>5. builder.from \in Nat /\ builder.maxId \in Nat
      BY Numbers DEF TypeOK
    <2>6. Plus(agg, builder.delta) = Plus(Nothing, Prefix(file, Len(times[file])))
      BY <2>3, <2>4, <2>5, CountedOn
    <2> QED BY <2>1, <2>2, <2>6 DEF QuietBuildExact, Prefix, Committed
  <1>4. CASE UNCHANGED <<times, file, agg, settled, torn>>
    <2>1. SameTime' = SameTime /\ Committed(file)' = Committed(file)
      BY <1>4 DEF SameTime, Committed, TimeOf
    <2> QED BY <1>4, <2>1 DEF QuietBuildExact
  <1> QED BY <1>1, <1>2, <1>3, <1>4, QuietSteps

(* What a step does to the analysis. *)
LEMMA AnalysisSteps ==
    ASSUME TypeOK, [Next]_vars
    PROVE  \/ analysis'.at = "idle"
           \/ analysis' = [analysis EXCEPT !.quiet = FALSE]
           \/ \E lo, hi \in Times : lo <= hi /\ Collect(lo, hi)
           \/ ActiveByRollup \/ ReadActiveSlice \/ ActiveByScan
           \/ ReadArchives \/ ScanEverything
           \/ UNCHANGED <<times, file, agg, analysis>>
  <1> DEFINE Idle == analysis'.at = "idle"
             Loud == analysis' = [analysis EXCEPT !.quiet = FALSE]
             Same == UNCHANGED <<times, file, agg, analysis>>
  <1>1. Commit \/ Rotate \/ CheckCursor \/ ApplyDeltas => Loud
    BY DEF Commit, Rotate, Disturb, CheckCursor, ApplyDeltas
  <1>2. Restart \/ Answered => Idle
    BY RestTypes DEF Restart, Answered
  <1>3. ReadMaxId \/ ScanAfter \/ BuildFails => Same
    BY DEF ReadMaxId, ScanAfter, BuildFails, rollup
  <1>4. ASSUME NEW f \in Files,
               AskElsewhere(f) \/ BuildArchive(f)
        PROVE  Same
    BY <1>4 DEF AskElsewhere, BuildArchive, rollup
  <1>5. UNCHANGED vars => Same
    BY DEF vars, rollup
  <1> HIDE DEF Idle, Loud, Same
  <1>6. \/ Idle \/ Loud \/ Same
        \/ \E lo, hi \in Times : lo <= hi /\ Collect(lo, hi)
        \/ ActiveByRollup \/ ReadActiveSlice \/ ActiveByScan
        \/ ReadArchives \/ ScanEverything
    BY <1>1, <1>2, <1>3, <1>4, <1>5 DEF Next, BuildStep
  <1> QED BY <1>6 DEF Idle, Loud, Same

(* The rows of a range lie in the active file and in the archives that an  *)
(* analysis of it looks at.                                                *)
LEMMA RowsInRange ==
    ASSUME TypeOK, FilesFit, NEW lo, NEW hi, NEW olds, olds = Candidates(lo, hi)
    PROVE  /\ olds \subseteq Files /\ file \notin olds
           /\ Within(UNION {Committed(f) : f \in olds \cup {file}}, lo, hi)
                 = Within(AllRows, lo, hi)
           /\ Within(UNION {Committed(f) : f \in olds \cup {file}}, lo, hi)
                 = Within(Committed(file), lo, hi)
                     \cup Within(UNION {Committed(f) : f \in olds}, lo, hi)
           /\ Within(Committed(file), lo, hi)
                 \cap Within(UNION {Committed(f) : f \in olds}, lo, hi) = {}
  <1>1. file \in 1..MaxFiles /\ MaxFiles \in Nat
    BY Numbers DEF TypeOK, Files
  <1>2. 1..(file - 1) \subseteq Files /\ file \notin 1..(file - 1) /\ file \in Files
    BY <1>1 DEF Files
  <1>3. olds \subseteq Files /\ file \notin olds
    BY <1>2 DEF Candidates
  <1>4. ASSUME NEW f \in Files, f \notin olds \cup {file}
        PROVE  Within(Committed(f), lo, hi) = {}
    <2>1. CASE f > file
      <3>1. Len(times[f]) = 0
        BY <2>1 DEF FilesFit
      <3> QED BY <3>1 DEF Within, Committed
    <2>2. CASE f < file
      <3>1. f \in 1..(file - 1)
        BY <1>1, <2>2 DEF Files
      <3> QED BY <1>4, <3>1 DEF Candidates
    <2> QED BY <1>1, <1>4, <2>1, <2>2 DEF Files
  <1>5. Within(UNION {Committed(f) : f \in olds \cup {file}}, lo, hi)
           = Within(AllRows, lo, hi)
    BY <1>2, <1>3, <1>4 DEF AllRows, Within
  <1>6. Within(UNION {Committed(f) : f \in olds \cup {file}}, lo, hi)
           = Within(Committed(file), lo, hi)
               \cup Within(UNION {Committed(f) : f \in olds}, lo, hi)
    BY DEF Within
  <1>7. Committed(file) \cap UNION {Committed(f) : f \in olds} = {}
    BY <1>3 DEF Committed
  <1>8. Within(Committed(file), lo, hi)
           \cap Within(UNION {Committed(f) : f \in olds}, lo, hi) = {}
    BY <1>7 DEF Within
  <1> QED BY <1>3, <1>5, <1>6, <1>8

LEMMA AnalysisFitsNext ==
    TypeOK /\ FilesFit /\ AnalysisFits /\ [Next]_vars => AnalysisFits'
  <1> SUFFICES ASSUME TypeOK, FilesFit, AnalysisFits, [Next]_vars
               PROVE  AnalysisFits'
    OBVIOUS
  <1>0. analysis \in Analysing
    BY DEF TypeOK, Analysing
  <1>l. PICK lo, hi : lo = analysis.lo /\ hi = analysis.hi
    OBVIOUS
  <1>t. ASSUME UNCHANGED <<times, file>>, NEW l, NEW h, analysis'.lo = l,
               analysis'.hi = h
        PROVE  Candidates(analysis.lo, analysis.hi)' = Candidates(l, h)
    BY <1>t DEF Candidates, Committed, Within, TimeOf
  <1>1. CASE analysis'.at = "idle"
    BY <1>1 DEF AnalysisFits
  <1>2. CASE analysis' = [analysis EXCEPT !.quiet = FALSE]
    <2>1. /\ analysis'.at = analysis.at /\ analysis'.lo = lo /\ analysis'.hi = hi
          /\ analysis'.scanned = analysis.scanned /\ analysis'.quiet = FALSE
      BY <1>0, <1>2, <1>l DEF Analysing
    <2> QED BY <1>l, <2>1 DEF AnalysisFits
  <1>3. ASSUME NEW l \in Times, NEW h \in Times, l <= h, Collect(l, h)
        PROVE  AnalysisFits'
    <2>1. /\ analysis' = [NoAnalysis EXCEPT !.at = "active", !.store = file,
                            !.lo = l, !.hi = h, !.quiet = TRUE,
                            !.olds = Candidates(l, h)]
          /\ UNCHANGED <<times, file, agg>>
      BY <1>3 DEF Collect, rollup, Candidates
    <2>2. /\ analysis'.at = "active" /\ analysis'.store = file
          /\ analysis'.lo = l /\ analysis'.hi = h /\ analysis'.olds = Candidates(l, h)
          /\ analysis'.scanned = FALSE
      BY <2>1 DEF NoAnalysis
    <2>3. analysis'.olds = Candidates(analysis.lo, analysis.hi)'
      BY <1>t, <2>1, <2>2
    <2> QED BY <1>3, <2>1, <2>2, <2>3 DEF AnalysisFits
  <1>s. ASSUME UNCHANGED <<times, file, agg>>, analysis.at # "idle",
               analysis'.at \in {"slice", "archives", "done"},
               analysis'.store = analysis.store, analysis'.olds = analysis.olds,
               analysis'.lo = lo, analysis'.hi = hi,
               analysis'.quiet = analysis.quiet,
               analysis'.scanned => analysis'.at = "done",
               analysis.quiet =>
                  /\ analysis'.at = "slice" => HasFullDay
                  /\ analysis'.at = "archives" /\ Whole =>
                        analysis'.count = Plus(Nothing, Within(Committed(file), lo, hi))
                  /\ analysis'.at = "done" /\ (Whole \/ analysis'.scanned) =>
                        analysis'.count = Plus(Nothing, Within(AllRows, lo, hi))
        PROVE  AnalysisFits'
    <2>a. Whole' <=> Whole
      BY <1>s DEF Whole, Committed
    <2>b. HasFullDay' <=> HasFullDay
      BY <1>l, <1>s DEF HasFullDay, FullEnd, FirstFull, DayStart
    <2>1. (Whole' <=> Whole) /\ (HasFullDay' <=> HasFullDay)
      BY <2>a, <2>b
    <2>2. AllRows' = AllRows /\ Committed(file)' = Committed(file)
      BY <1>s DEF AllRows, Committed
    <2>3. /\ Within(Committed(file), lo, hi)' = Within(Committed(file), lo, hi)
          /\ Within(AllRows, lo, hi)' = Within(AllRows, lo, hi)
      BY <1>s, <2>2 DEF Within, TimeOf
    <2>4. analysis.quiet => analysis'.olds = Candidates(analysis.lo, analysis.hi)'
      BY <1>l, <1>s, <1>t DEF AnalysisFits
    <2>q. lo \in Times /\ hi \in Times /\ lo <= hi
            /\ (analysis.quiet => analysis.store = file)
      BY <1>l, <1>s DEF AnalysisFits
    <2>5. /\ analysis'.at = "done" /\ (Whole' \/ analysis'.scanned) /\ analysis'.quiet
                => Exact(analysis)'
          /\ analysis'.at = "archives" /\ Whole' /\ analysis'.quiet =>
                analysis'.count = Plus(Nothing, Within(Committed(file), lo, hi))'
      BY <1>s, <2>1, <2>2, <2>3 DEF Exact, AllRows
    <2> QED BY <1>s, <2>1, <2>4, <2>5, <2>q DEF AnalysisFits
  <1>q. ASSUME analysis.at # "idle"
        PROVE  /\ lo \in Times /\ hi \in Times /\ lo <= hi
               /\ analysis.scanned => analysis.at = "done"
               /\ analysis.quiet => analysis.store = file 
                                    /\ analysis.olds = Candidates(lo, hi)
    BY <1>l, <1>q DEF AnalysisFits
  <1>4. CASE ActiveByRollup
    <2>1. /\ UNCHANGED <<times, file, agg>> /\ analysis.at = "active" /\ HasFullDay
          /\ analysis' = [analysis EXCEPT !.at = "slice"]
      BY <1>4 DEF ActiveByRollup, UsesRollup, rollup
    <2>2. /\ analysis'.at = "slice" /\ analysis'.store = analysis.store
          /\ analysis'.olds = analysis.olds /\ analysis'.lo = lo /\ analysis'.hi = hi
          /\ analysis'.quiet = analysis.quiet /\ analysis'.scanned = analysis.scanned
      BY <1>0, <1>l, <2>1 DEF Analysing
    <2> QED BY <1>q, <1>s, <2>1, <2>2
  <1>5. CASE ReadActiveSlice
    <2> DEFINE c == SliceCounts(agg, Committed(analysis.store), lo, hi)
    <2>1. /\ UNCHANGED <<times, file, agg>> /\ analysis.at = "slice"
          /\ analysis' = [analysis EXCEPT !.at = "archives", !.count = c]
      BY <1>5, <1>l DEF ReadActiveSlice, rollup
    <2>2. /\ analysis'.at = "archives" /\ analysis'.store = analysis.store
          /\ analysis'.olds = analysis.olds /\ analysis'.lo = lo /\ analysis'.hi = hi
          /\ analysis'.quiet = analysis.quiet /\ analysis'.scanned = analysis.scanned
          /\ analysis'.count = c
      BY <1>0, <1>l, <2>1 DEF Analysing
    <2>3. ASSUME analysis.quiet, Whole
          PROVE  c = Plus(Nothing, Within(Committed(file), lo, hi))
      <3>1. file \in Files /\ analysis.store = file
        BY <1>q, <2>1, <2>3 DEF TypeOK
      <3>2. FullEnd(lo, hi) > FirstFull(lo, hi)
        BY <1>l, <2>1, <2>3 DEF AnalysisFits, HasFullDay
      <3> DEFINE F == {file}  S == UNION {Committed(f) : f \in F}
      <3>3. S = Committed(file)
        OBVIOUS
      <3>4. F \subseteq Files /\ lo \in Times /\ hi \in Times /\ lo <= hi
        BY <1>q, <2>1, <3>1
      <3>5. SliceCounts(Plus(Nothing, S), S, lo, hi) = Plus(Nothing, Within(S, lo, hi))
        <4> HIDE DEF F
        <4> QED BY <3>2, <3>4, SliceExact
      <3> HIDE DEF S
      <3> QED BY <2>3, <3>1, <3>3, <3>5 DEF Whole
    <2> HIDE DEF c
    <2> QED BY <1>q, <1>s, <2>1, <2>2, <2>3
  <1>6. CASE ActiveByScan
    <2> DEFINE c == Plus(Nothing, Within(Committed(analysis.store), lo, hi))
    <2>1. /\ UNCHANGED <<times, file, agg>> /\ analysis.at = "active"
          /\ analysis' = [analysis EXCEPT !.at = "archives", !.count = c]
      BY <1>6, <1>l DEF ActiveByScan, rollup
    <2>2. /\ analysis'.at = "archives" /\ analysis'.store = analysis.store
          /\ analysis'.olds = analysis.olds /\ analysis'.lo = lo /\ analysis'.hi = hi
          /\ analysis'.quiet = analysis.quiet /\ analysis'.scanned = analysis.scanned
          /\ analysis'.count = c
      BY <1>0, <1>l, <2>1 DEF Analysing
    <2>3. analysis.quiet => c = Plus(Nothing, Within(Committed(file), lo, hi))
      BY <1>q, <2>1
    <2> HIDE DEF c
    <2> QED BY <1>q, <1>s, <2>1, <2>2, <2>3
  <1>7. CASE ReadArchives
    <2> DEFINE S == UNION {Committed(f) : f \in analysis.olds}
               d == IF HasFullDay
                    THEN SliceCounts(Plus(Nothing, S), S, lo, hi)
                    ELSE Plus(Nothing, Within(S, lo, hi))
               c == Add(analysis.count, d)
    <2>1. /\ UNCHANGED <<times, file, agg>> /\ analysis.at = "archives"
          /\ analysis' = [analysis EXCEPT !.at = "done", !.count = c]
      BY <1>7, <1>l DEF ReadArchives, rollup
    <2>2. /\ analysis'.at = "done" /\ analysis'.store = analysis.store
          /\ analysis'.olds = analysis.olds /\ analysis'.lo = lo /\ analysis'.hi = hi
          /\ analysis'.quiet = analysis.quiet /\ analysis'.scanned = analysis.scanned
          /\ analysis'.count = c
      BY <1>0, <1>l, <2>1 DEF Analysing
    <2>3. ASSUME analysis.quiet, Whole
          PROVE  c = Plus(Nothing, Within(AllRows, lo, hi))
      <3>1. analysis.olds = Candidates(lo, hi) /\ lo \in Times /\ hi \in Times /\ lo <= hi
        BY <1>q, <2>1, <2>3
      <3>2. analysis.count = Plus(Nothing, Within(Committed(file), lo, hi))
        BY <1>l, <2>1, <2>3 DEF AnalysisFits
      <3>3. analysis.olds \subseteq Files
        BY <3>1, RowsInRange
      <3>4. d = Plus(Nothing, Within(S, lo, hi))
        <4>1. CASE HasFullDay
          <5>1. FullEnd(lo, hi) > FirstFull(lo, hi)
            BY <1>l, <4>1 DEF HasFullDay
          <5> QED BY <3>1, <3>3, <4>1, <5>1, SliceExact
        <4>2. CASE ~HasFullDay
          BY <4>2
        <4> QED BY <4>1, <4>2
      <3>5. /\ Within(Committed(file), lo, hi) \cap Within(S, lo, hi) = {}
            /\ Within(Committed(file), lo, hi) \cup Within(S, lo, hi)
                  = Within(AllRows, lo, hi)
        BY <3>1, RowsInRange
      <3> HIDE DEF d, S
      <3> QED BY <3>2, <3>4, <3>5, AddUnion
    <2> HIDE DEF c
    <2> QED BY <1>q, <1>s, <2>1, <2>2, <2>3
  <1>8. CASE ScanEverything
    <2> DEFINE S == UNION {Committed(f) : f \in analysis.olds \cup {analysis.store}}
               c == Plus(Nothing, Within(S, lo, hi))
    <2>1. /\ UNCHANGED <<times, file, agg>> /\ analysis.at = "archives"
          /\ analysis' = [analysis EXCEPT !.at = "done", !.scanned = TRUE, !.count = c]
      BY <1>8, <1>l DEF ScanEverything, rollup
    <2>2. /\ analysis'.at = "done" /\ analysis'.store = analysis.store
          /\ analysis'.olds = analysis.olds /\ analysis'.lo = lo /\ analysis'.hi = hi
          /\ analysis'.quiet = analysis.quiet /\ analysis'.count = c
      BY <1>0, <1>l, <2>1 DEF Analysing
    <2>3. ASSUME analysis.quiet
          PROVE  c = Plus(Nothing, Within(AllRows, lo, hi))
      <3>1. analysis.olds = Candidates(lo, hi) /\ analysis.store = file
        BY <1>q, <2>1, <2>3
      <3> QED BY <3>1, RowsInRange
    <2> HIDE DEF c
    <2> QED BY <1>q, <1>s, <2>1, <2>2, <2>3
  <1>9. CASE UNCHANGED <<times, file, agg, analysis>>
    <2>1. CASE analysis.at \in {"idle", "active"}
      <3>1. analysis.quiet /\ analysis.at # "idle" =>
               analysis'.olds = Candidates(analysis.lo, analysis.hi)'
        BY <1>9, <1>l, <1>q, <1>t
      <3> QED BY <1>9, <2>1, <3>1 DEF AnalysisFits
    <2>2. CASE analysis.at \in {"slice", "archives", "done"}
      <3>1. analysis.quiet /\ analysis.at = "done" /\ (Whole \/ analysis.scanned) =>
               analysis.count = Plus(Nothing, Within(AllRows, lo, hi))
        BY <1>l, <2>2 DEF AnalysisFits, Exact, AllRows
      <3>2. analysis.quiet /\ analysis.at = "archives" /\ Whole =>
               analysis.count = Plus(Nothing, Within(Committed(file), lo, hi))
        BY <1>l DEF AnalysisFits
      <3>3. analysis.quiet /\ analysis.at = "slice" => HasFullDay
        BY DEF AnalysisFits
      <3> QED BY <1>9, <1>l, <1>q, <1>s, <2>2, <3>1, <3>2, <3>3
    <2> QED BY <1>0, <2>1, <2>2 DEF Analysing
  <1> QED BY <1>1, <1>2, <1>3, <1>4, <1>5, <1>6, <1>7, <1>8, <1>9, AnalysisSteps

-----------------------------------------------------------------------------
(* The theorems.                                                           *)

LEMMA InitInv == Init => IInv
  <1> SUFFICES ASSUME Init PROVE IInv
    OBVIOUS
  <1>1. TypeOK
    BY InitTypes
  <1>2. FilesFit /\ StateFits /\ QuietBuildExact
    BY DEF Init, FilesFit, StateFits, QuietBuildExact
  <1>3. BuildFits
    BY AskedTypes, Numbers DEF Init, BuildFits
  <1>4. AnalysisFits
    BY RestTypes DEF Init, AnalysisFits
  <1> QED BY <1>1, <1>2, <1>3, <1>4 DEF IInv

LEMMA NextInv == IInv /\ [Next]_vars => IInv'
  BY NextTypes, FilesFitNext, StateFitsNext, BuildFitsNext, QuietBuildNext,
     AnalysisFitsNext DEF IInv

LEMMA Invariance == Spec => []IInv
  BY InitInv, NextInv, PTL DEF Spec

(* The rollup counts rows that there can be, the cursor and every scan     *)
(* behind it stay within a file: src/db/aggregate.rs, ensure_active.       *)
THEOREM RollupTypeCorrect == Spec => []TypeOK
  <1>1. IInv => TypeOK
    BY DEF IInv
  <1> QED BY <1>1, Invariance, PTL

(* A build in ensure_active that nothing disturbs leaves a rollup that     *)
(* counts every row of the active file once, whatever cursor, reused inode *)
(* or aborted build there was before.                                      *)
THEOREM QuietBuildsExact == Spec => []QuietBuildExact
  <1>1. IInv => QuietBuildExact
    BY DEF IInv
  <1> QED BY <1>1, Invariance, PTL

(* An analysis of src/handlers/analysis_api/rollup.rs that nothing         *)
(* disturbs, over any range, answers what a scan of all rows would: whole  *)
(* days from rollups, both ends scanned, each row counted once.            *)
THEOREM SettledAnalysesExact == Spec => []SettledAnalysisExact
  <1>1. ASSUME IInv PROVE SettledAnalysisExact
    <2> SUFFICES ASSUME analysis.at = "done", analysis.quiet, ~SameTime,
                        (settled /\ ~torn) \/ analysis.scanned
                 PROVE  Exact(analysis)
      BY DEF SettledAnalysisExact
    <2>1. Whole \/ analysis.scanned
      BY <1>1 DEF IInv, QuietBuildExact, Whole
    <2> QED BY <1>1, <2>1 DEF IInv, AnalysisFits
  <1> QED BY <1>1, Invariance, PTL
=============================================================================
