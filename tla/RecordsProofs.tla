--------------------------- MODULE RecordsProofs ----------------------------
(***************************************************************************)
(* Theorems about Records, for any conversations, times, files, pages,     *)
(* scans and caches: a client that follows the cursor sees every record    *)
(* once, timelines follow the conversations, and what is stored about an   *)
(* exchange is true of it.                                                 *)
(***************************************************************************)
EXTENDS Records, FiniteSetTheorems, TLAPS

-----------------------------------------------------------------------------
(* Definitions by recursion on a number.  There is no induction over an    *)
(* operator here: a set of numbers without a least member is empty.        *)

LEMMA LeastNatural ==
    ASSUME NEW S, S \subseteq Nat, S # {}
    PROVE  \E m \in S : \A k \in S : m <= k
  <1> DEFINE Below == {p \in Nat \X Nat : p[1] < p[2]}
  <1>1. Below = OpToRel(<, Nat)
    BY DEF OpToRel
  <1>2. IsWellFoundedOn(Below, Nat)
    BY <1>1, NatLessThanWellFounded
  <1>3. \A k, m \in Nat : k < m => <<k, m>> \in Below
    OBVIOUS
  <1> HIDE DEF Below
  <1>4. PICK m \in S : \A k \in S : ~(<<k, m>> \in Below)
    BY <1>2, WFMin
  <1>5. ASSUME NEW k \in S PROVE ~(k < m)
    <2>1. ~(<<k, m>> \in Below)
      BY <1>4
    <2> QED BY <2>1, <1>3
  <1>6. \A k \in S : m <= k
    BY <1>5
  <1> QED BY <1>6

LEMMA Induction ==
    ASSUME NEW N \in Nat, NEW S, 0 \in S,
           \A n \in 1..N : n - 1 \in S => n \in S
    PROVE  0..N \subseteq S
  <1> DEFINE T == {n \in 0..N : n \notin S}
  <1>1. SUFFICES ASSUME T # {} PROVE FALSE
    OBVIOUS
  <1>2. PICK m \in T : \A k \in T : m <= k
    <2>1. T \subseteq Nat
      OBVIOUS
    <2> QED BY <1>1, <2>1, LeastNatural
  <1>3. m \in 1..N /\ m \notin S
    BY <1>2
  <1>4. m - 1 \in 0..N /\ ~(m <= m - 1)
    BY <1>3
  <1>5. m - 1 \in S
    BY <1>2, <1>4
  <1> QED BY <1>3, <1>5

(* g begins with a and goes on by the step H, within C.                    *)
Recurs(g, N, C, a, H) ==
    g \in [0..N -> C] /\ g[0] = a /\ \A n \in 1..N : g[n] = H[<<n, g[n - 1]>>]

LEMMA Recursion ==
    ASSUME NEW N \in Nat, NEW C, NEW a \in C, NEW H, H \in [(1..N) \X C -> C]
    PROVE  \E g : Recurs(g, N, C, a, H)
  <1> DEFINE Fits(m, g) == g[0] = a /\ \A n \in 1..m : g[n] = H[<<n, g[n - 1]>>]
             S == {m \in 0..N : \E g \in [0..m -> C] : Fits(m, g)}
  <1>1. 0 \in S
    <2> DEFINE g == [n \in 0..0 |-> a]
    <2>1. g \in [0..0 -> C] /\ Fits(0, g)
      OBVIOUS
    <2> HIDE DEF g
    <2>2. \E f \in [0..0 -> C] : Fits(0, f)
      BY <2>1
    <2> QED BY <2>2
  <1>2. ASSUME NEW m \in 1..N, m - 1 \in S PROVE m \in S
    <2>1. PICK g \in [0..(m - 1) -> C] : Fits(m - 1, g)
      BY <1>2
    <2> DEFINE h == [n \in 0..m |-> IF n = m THEN H[<<m, g[m - 1]>>] ELSE g[n]]
    <2>2. m \in Nat /\ m >= 1 /\ m - 1 \in 0..(m - 1) /\ 0 \in 0..(m - 1)
      OBVIOUS
    <2>3. g[m - 1] \in C /\ <<m, g[m - 1]>> \in (1..N) \X C
      BY <2>2
    <2>4. H[<<m, g[m - 1]>>] \in C
      BY <2>3
    <2>5. h \in [0..m -> C]
      BY <2>4
    <2>6. h[0] = a
      BY <2>1, <2>2
    <2>7. ASSUME NEW n \in 1..m PROVE h[n] = H[<<n, h[n - 1]>>]
      <3>1. n - 1 \in 0..m /\ n - 1 # m /\ n \in 0..m
        OBVIOUS
      <3>2. h[n - 1] = g[n - 1]
        BY <3>1
      <3>3. CASE n = m
        BY <3>1, <3>2, <3>3
      <3>4. CASE n # m
        <4>1. n \in 1..(m - 1) /\ h[n] = g[n]
          BY <3>1, <3>4
        <4> QED BY <2>1, <3>2, <4>1
      <3> QED BY <3>3, <3>4
    <2>8. m \in 0..N
      OBVIOUS
    <2> HIDE DEF h
    <2> QED BY <2>5, <2>6, <2>7, <2>8
  <1> HIDE DEF S
  <1>3. 0..N \subseteq S
    BY <1>1, <1>2, Induction
  <1>4. N \in S
    BY <1>3
  <1> QED BY <1>4 DEF S, Recurs

-----------------------------------------------------------------------------
(* Lists in an order.                                                      *)

(* What comes before what in a set is a strict total order.                *)
Orders(before, S) ==
    /\ before \in [S -> SUBSET S]
    /\ \A r \in S : r \notin before[r]
    /\ \A q, r \in S : q # r => q \in before[r] \/ r \in before[q]
    /\ \A q, r \in S : q \in before[r] => before[q] \subseteq before[r]

LEMMA RankGrows ==
    ASSUME NEW S, IsFiniteSet(S), NEW before, Orders(before, S),
           NEW q \in S, NEW r \in S, q \in before[r]
    PROVE  /\ Cardinality(before[q]) \in Nat /\ Cardinality(before[r]) \in Nat
           /\ Cardinality(before[q]) < Cardinality(before[r])
  <1>1. before[q] \subseteq before[r] /\ before[r] \subseteq S /\ q \notin before[q]
    BY DEF Orders
  <1>2. IsFiniteSet(before[r]) /\ IsFiniteSet(before[q])
    BY <1>1, FS_Subset
  <1>3. Cardinality(before[q]) \in Nat /\ Cardinality(before[r]) \in Nat
    BY <1>2, FS_CardinalityType
  <1>4. Cardinality(before[q]) <= Cardinality(before[r])
    BY <1>1, <1>2, FS_Subset
  <1>5. Cardinality(before[q]) # Cardinality(before[r])
    BY <1>1, <1>2, FS_Subset
  <1> QED BY <1>3, <1>4, <1>5

LEMMA RanksDiffer ==
    ASSUME NEW S, IsFiniteSet(S), NEW before, Orders(before, S),
           NEW q \in S, NEW r \in S
    PROVE  /\ Cardinality(before[r]) \in Nat
           /\ Cardinality(before[q]) < Cardinality(before[r]) <=> q \in before[r]
           /\ Cardinality(before[q]) = Cardinality(before[r]) => q = r
  <1>0. \A t \in S : Cardinality(before[t]) \in Nat
    <2> SUFFICES ASSUME NEW t \in S PROVE Cardinality(before[t]) \in Nat
      OBVIOUS
    <2>1. before[t] \subseteq S
      BY DEF Orders
    <2> QED BY <2>1, FS_Subset, FS_CardinalityType
  <1>1. q = r \/ q \in before[r] \/ r \in before[q]
    BY DEF Orders
  <1>2. CASE q = r
    BY <1>0, <1>2 DEF Orders
  <1>3. CASE q \in before[r]
    BY <1>3, RankGrows
  <1>4. CASE r \in before[q]
    <2>1. Cardinality(before[r]) < Cardinality(before[q])
      BY <1>4, RankGrows
    <2>2. q \notin before[r]
      BY <1>0, <2>1, RankGrows
    <2> QED BY <1>0, <2>1, <2>2
  <1> QED BY <1>1, <1>2, <1>3, <1>4

(* InOrder lists each member once, and in the order.                       *)
LEMMA InOrderLists ==
    ASSUME NEW S, IsFiniteSet(S), NEW before, Orders(before, S)
    PROVE  /\ Cardinality(S) \in Nat
           /\ InOrder(S, before) \in [1..Cardinality(S) -> S]
           /\ \A i \in 1..Cardinality(S) :
                 Cardinality(before[InOrder(S, before)[i]]) = i - 1
           /\ \A r \in S : /\ Cardinality(before[r]) + 1 \in 1..Cardinality(S)
                           /\ InOrder(S, before)[Cardinality(before[r]) + 1] = r
  <1> DEFINE N == Cardinality(S)
             rank == [r \in S |-> Cardinality(before[r]) + 1]
  <1>1. N \in Nat
    BY FS_CardinalityType
  <1>2. ASSUME NEW r \in S
        PROVE  Cardinality(before[r]) \in Nat /\ Cardinality(before[r]) + 1 \in 1..N
    <2>1. before[r] \subseteq S \ {r} /\ before[r] \subseteq S
      BY DEF Orders
    <2>2. IsFiniteSet(S \ {r}) /\ Cardinality(S \ {r}) = N - 1
      BY FS_RemoveElement
    <2>3. Cardinality(before[r]) <= N - 1
      BY <2>1, <2>2, FS_Subset
    <2>4. Cardinality(before[r]) \in Nat
      BY <2>1, FS_Subset, FS_CardinalityType
    <2> QED BY <1>1, <2>3, <2>4
  <1>3. rank \in [S -> 1..N]
    BY <1>2
  <1>4. \A q, r \in S : rank[q] = rank[r] => q = r
    <2> SUFFICES ASSUME NEW q \in S, NEW r \in S, rank[q] = rank[r] PROVE q = r
      OBVIOUS
    <2>1. Cardinality(before[q]) = Cardinality(before[r])
      BY <1>2
    <2> QED BY <2>1, RanksDiffer
  <1>5. rank \in Injection(S, 1..N)
    BY <1>3, <1>4 DEF Injection, IsInjective
  <1>6. IsFiniteSet(1..N) /\ Cardinality(1..N) = N
    BY <1>1, FS_Interval
  <1>7. rank \in Surjection(S, 1..N)
    BY <1>5, <1>6, FS_Injection
  <1>8. ASSUME NEW i \in 1..N
        PROVE  \E r \in S : Cardinality(before[r]) = i - 1
    <2>1. PICK r \in S : rank[r] = i
      BY <1>7 DEF Surjection
    <2> QED BY <1>2, <2>1
  <1>9. ASSUME NEW i \in 1..N
        PROVE  /\ InOrder(S, before)[i] \in S
               /\ Cardinality(before[InOrder(S, before)[i]]) = i - 1
    BY <1>8, <1>9 DEF InOrder
  <1>10. InOrder(S, before) \in [1..N -> S]
    BY <1>9 DEF InOrder
  <1>11. ASSUME NEW r \in S
         PROVE  InOrder(S, before)[Cardinality(before[r]) + 1] = r
    <2> DEFINE q == InOrder(S, before)[Cardinality(before[r]) + 1]
    <2>1. q \in S /\ Cardinality(before[q]) = Cardinality(before[r])
      BY <1>2, <1>9
    <2> QED BY <2>1, RanksDiffer
  <1> QED BY <1>1, <1>2, <1>9, <1>10, <1>11

-----------------------------------------------------------------------------
(* Records and their places.                                               *)

Stamps == Time \union {Untimed}

FilesFit == files \in Seq(Seq(Rows)) /\ files # <<>>

LEMMA RowsAre ==
    ASSUME NEW row \in Rows
    PROVE  /\ row.conv \in DOMAIN Conversations
           /\ row.turn \in DOMAIN Conversations[row.conv]
           /\ row.time \in Stamps /\ row.time \in Int /\ row.time >= Untimed
           /\ row = RowOf(row.conv, row.turn, row.time)
  <1>0. PICK c \in DOMAIN Conversations :
           row \in {RowOf(c, k, t) : k \in DOMAIN Conversations[c], t \in Stamps}
    BY DEF Rows, Stamps
  <1>1. PICK k \in DOMAIN Conversations[c], t \in Stamps : row = RowOf(c, k, t)
    BY <1>0
  <1>2. row.conv = c /\ row.turn = k /\ row.time = t
    BY <1>1 DEF RowOf
  <1>3. Stamps \subseteq Int /\ \A u \in Stamps : u >= Untimed
    BY RecordsAssumption DEF Stamps, Time, Untimed
  <1> QED BY <1>1, <1>2, <1>3

LEMMA FilesAre ==
    ASSUME FilesFit
    PROVE  /\ ActiveFile \in Nat /\ ActiveFile \in DOMAIN files
           /\ DOMAIN files = 1..ActiveFile /\ ActiveFile >= 1
           /\ \A f \in DOMAIN files : /\ files[f] \in Seq(Rows)
                                     /\ Len(files[f]) \in Nat
                                     /\ DOMAIN files[f] = 1..Len(files[f])
                                     /\ \A id \in DOMAIN files[f] : files[f][id] \in Rows
  <1>1. files \in Seq(Seq(Rows)) /\ Len(files) \in Nat /\ Len(files) # 0
    BY DEF FilesFit
  <1>2. DOMAIN files = 1..Len(files)
    BY <1>1
  <1>3. \A f \in DOMAIN files : files[f] \in Seq(Rows)
    BY <1>1, <1>2
  <1> QED BY <1>1, <1>2, <1>3 DEF ActiveFile

LEMMA RecordsAre ==
    ASSUME FilesFit, NEW r \in AllRecords
    PROVE  /\ r = <<r[1], r[2]>> /\ r[1] \in DOMAIN files /\ r[2] \in DOMAIN files[r[1]]
           /\ r[1] \in Nat /\ r[2] \in Nat /\ Row(r) \in Rows /\ Row(r).time \in Int
           /\ Row(r).time >= Untimed
           /\ Shard(r[1]) \in Nat
           /\ Place(r[1], r[2]) = <<Row(r).time, r[2], Shard(r[1])>>
  <1>1. PICK f \in DOMAIN files : r \in RecordsOf(f)
    BY DEF AllRecords
  <1>2. PICK id \in DOMAIN files[f] : r = <<f, id>>
    BY <1>1 DEF RecordsOf
  <1>3. f \in Nat /\ id \in Nat /\ files[f][id] \in Rows
    BY <1>2, FilesAre
  <1> QED BY <1>2, <1>3, RowsAre DEF Row, Place, Shard

LEMMA IsRecord ==
    ASSUME NEW f \in DOMAIN files, NEW id \in DOMAIN files[f]
    PROVE  <<f, id>> \in AllRecords
  BY DEF AllRecords, RecordsOf

LEMMA RecordsFinite ==
    ASSUME FilesFit
    PROVE  IsFiniteSet(AllRecords)
  <1>1. ASSUME NEW f \in DOMAIN files PROVE IsFiniteSet(RecordsOf(f))
    <2>1. Len(files[f]) \in Nat /\ DOMAIN files[f] = 1..Len(files[f])
      BY FilesAre
    <2> DEFINE g == [id \in 1..Len(files[f]) |-> <<f, id>>]
    <2>2. g \in Surjection(1..Len(files[f]), RecordsOf(f))
      BY <2>1 DEF Surjection, RecordsOf
    <2> QED BY <2>1, <2>2, FS_NatSurjection DEF ExistsSurjection
  <1> DEFINE T == {RecordsOf(f) : f \in DOMAIN files}
             g == [f \in 1..ActiveFile |-> RecordsOf(f)]
  <1>2. g \in Surjection(1..ActiveFile, T)
    BY FilesAre DEF Surjection
  <1>3. IsFiniteSet(T)
    BY <1>2, FilesAre, FS_NatSurjection DEF ExistsSurjection
  <1> QED BY <1>1, <1>3, FS_UNION DEF AllRecords

LEMMA LessTwo ==
    ASSUME NEW a \in Int, NEW b \in Int, NEW c \in Int, NEW d \in Int
    PROVE  Less(<<a, b>>, <<c, d>>) <=> a < c \/ (a = c /\ b < d)
  <1>1. DOMAIN <<a, b>> = {1, 2} /\ 1..(1 - 1) = {} /\ 1..(2 - 1) = {1}
    OBVIOUS
  <1> QED BY <1>1 DEF Less

LEMMA LessThree ==
    ASSUME NEW a \in Int, NEW b \in Int, NEW c \in Int,
           NEW d \in Int, NEW e \in Int, NEW f \in Int
    PROVE  Less(<<a, b, c>>, <<d, e, f>>) <=>
              a < d \/ (a = d /\ (b < e \/ (b = e /\ c < f)))
  <1>1. /\ DOMAIN <<a, b, c>> = {1, 2, 3}
        /\ 1..(1 - 1) = {} /\ 1..(2 - 1) = {1} /\ 1..(3 - 1) = {1, 2}
    OBVIOUS
  <1> QED BY <1>1 DEF Less

Older(r, q) == Less(Place(r[1], r[2]), Place(q[1], q[2]))

LEMMA OlderMeans ==
    ASSUME FilesFit, NEW r \in AllRecords, NEW q \in AllRecords
    PROVE  Older(r, q) <=>
              \/ Row(r).time < Row(q).time
              \/ /\ Row(r).time = Row(q).time
                 /\ r[2] < q[2] \/ (r[2] = q[2] /\ Shard(r[1]) < Shard(q[1]))
  BY RecordsAre, LessThree DEF Older

LEMMA ShardsApart ==
    ASSUME FilesFit, NEW f \in DOMAIN files, NEW g \in DOMAIN files, Shard(f) = Shard(g)
    PROVE  f = g
  BY FilesAre DEF Shard

(* The places order the records strictly and totally.                      *)
LEMMA OlderOrders ==
    ASSUME FilesFit
    PROVE  /\ \A r \in AllRecords : ~Older(r, r)
           /\ \A q, r \in AllRecords : q # r => Older(q, r) \/ Older(r, q)
           /\ \A p, q, r \in AllRecords : Older(p, q) /\ Older(q, r) => Older(p, r)
  <1>1. ASSUME NEW r \in AllRecords PROVE ~Older(r, r)
    BY RecordsAre, OlderMeans
  <1>2. ASSUME NEW q \in AllRecords, NEW r \in AllRecords, ~Older(q, r), ~Older(r, q)
        PROVE  q = r
    <2>1. /\ q = <<q[1], q[2]>> /\ q[2] \in Nat /\ Row(q).time \in Int
          /\ Shard(q[1]) \in Nat /\ q[1] \in DOMAIN files
      BY RecordsAre
    <2>2. /\ r = <<r[1], r[2]>> /\ r[2] \in Nat /\ Row(r).time \in Int
          /\ Shard(r[1]) \in Nat /\ r[1] \in DOMAIN files
      BY RecordsAre
    <2>3. Row(q).time = Row(r).time /\ q[2] = r[2] /\ Shard(q[1]) = Shard(r[1])
      BY <1>2, <2>1, <2>2, OlderMeans
    <2>4. q[1] = r[1]
      BY <2>1, <2>2, <2>3, ShardsApart
    <2> QED BY <2>1, <2>2, <2>3, <2>4
  <1>3. ASSUME NEW p \in AllRecords, NEW q \in AllRecords, NEW r \in AllRecords,
               Older(p, q), Older(q, r)
        PROVE  Older(p, r)
    <2>1. /\ p[2] \in Nat /\ Row(p).time \in Int /\ Shard(p[1]) \in Nat
          /\ q[2] \in Nat /\ Row(q).time \in Int /\ Shard(q[1]) \in Nat
          /\ r[2] \in Nat /\ Row(r).time \in Int /\ Shard(r[1]) \in Nat
      BY RecordsAre
    <2> QED BY <1>3, <2>1, OlderMeans
  <1> QED BY <1>1, <1>2, <1>3

LEMMA NewerOrders ==
    ASSUME FilesFit, NEW S, S \subseteq AllRecords
    PROVE  /\ IsFiniteSet(S) /\ Orders(Newer(S), S)
           /\ \A r \in S : Newer(S)[r] = {q \in S : Older(r, q)}
  <1>1. IsFiniteSet(S)
    BY RecordsFinite, FS_Subset
  <1>2. \A r \in S : Newer(S)[r] = {q \in S : Older(r, q)}
    BY DEF Newer, Older
  <1>3. Newer(S) \in [S -> SUBSET S]
    BY DEF Newer
  <1>4. \A r \in S : r \notin Newer(S)[r]
    BY <1>2, OlderOrders
  <1>5. \A q, r \in S : q # r => q \in Newer(S)[r] \/ r \in Newer(S)[q]
    BY <1>2, OlderOrders
  <1>6. \A q, r \in S : q \in Newer(S)[r] => Newer(S)[q] \subseteq Newer(S)[r]
    BY <1>2, OlderOrders
  <1> QED BY <1>1, <1>2, <1>3, <1>4, <1>5, <1>6 DEF Orders

(* Newest: the records that fewer than n of the others are newer than.     *)
LEMMA NewestLists ==
    ASSUME FilesFit, NEW S, S \subseteq AllRecords, NEW n \in Nat
    PROVE  /\ Cardinality(S) \in Nat
           /\ Newest(S, n) \in Seq(S)
           /\ Len(Newest(S, n)) = IF Cardinality(S) <= n THEN Cardinality(S) ELSE n
           /\ \A i \in DOMAIN Newest(S, n) :
                 Cardinality(Newer(S)[Newest(S, n)[i]]) = i - 1
           /\ \A i, j \in DOMAIN Newest(S, n) :
                 Older(Newest(S, n)[j], Newest(S, n)[i]) <=> i < j
           /\ \A r \in S : r \in Range(Newest(S, n)) <=> Cardinality(Newer(S)[r]) < n
  <1> DEFINE N == Cardinality(S)
             all == NewestFirst(S)
             m == IF N <= n THEN N ELSE n
             s == Newest(S, n)
  <1>1. /\ IsFiniteSet(S) /\ Orders(Newer(S), S)
        /\ \A r \in S : Newer(S)[r] = {q \in S : Older(r, q)}
    BY NewerOrders
  <1>2. /\ N \in Nat /\ all \in [1..N -> S]
        /\ \A i \in 1..N : Cardinality(Newer(S)[all[i]]) = i - 1
        /\ \A r \in S : /\ Cardinality(Newer(S)[r]) + 1 \in 1..N
                        /\ all[Cardinality(Newer(S)[r]) + 1] = r
    BY <1>1, InOrderLists DEF NewestFirst
  <1>3. Min({n, N}) = m
    <2>1. /\ m \in {n, N} /\ \A y \in {n, N} : m <= y
          /\ \A x \in {n, N} : (\A y \in {n, N} : x <= y) => x = m
      BY <1>2
    <2> QED BY <2>1 DEF Min
  <1>4. s = SubSeq(all, 1, m)
    BY <1>3 DEF Newest
  <1>5. m \in Nat /\ m <= N /\ all \in Seq(S) /\ Len(all) = N
    BY <1>2
  <1>6. s \in Seq(S) /\ Len(s) = m /\ DOMAIN s = 1..m /\ \A i \in 1..m : s[i] = all[i]
    BY <1>4, <1>5
  <1>7. \A i \in 1..m : s[i] \in S /\ Cardinality(Newer(S)[s[i]]) = i - 1
    BY <1>2, <1>5, <1>6
  <1>8. ASSUME NEW i \in 1..m, NEW j \in 1..m
        PROVE  Older(s[j], s[i]) <=> i < j
    <2>1. s[i] \in S /\ s[j] \in S
      BY <1>7
    <2>2. s[i] \in Newer(S)[s[j]] <=> i - 1 < j - 1
      BY <1>1, <1>7, <2>1, RanksDiffer
    <2> QED BY <1>1, <2>1, <2>2
  <1>9. ASSUME NEW r \in S
        PROVE  r \in Range(s) <=> Cardinality(Newer(S)[r]) < n
    <2> DEFINE k == Cardinality(Newer(S)[r])
    <2>1. k \in Nat /\ k + 1 \in 1..N /\ all[k + 1] = r
      BY <1>1, <1>2, RanksDiffer
    <2>2. ASSUME k < n PROVE r \in Range(s)
      <3>1. k + 1 \in 1..m
        BY <1>2, <2>1, <2>2
      <3> QED BY <1>6, <2>1, <3>1 DEF Range
    <2>3. ASSUME r \in Range(s) PROVE k < n
      <3>1. PICK i \in 1..m : s[i] = r
        BY <1>6, <2>3 DEF Range
      <3> QED BY <1>2, <1>7, <3>1
    <2> QED BY <2>2, <2>3
  <1> QED BY <1>2, <1>6, <1>7, <1>8, <1>9

(* A list has as many members as it is long.                               *)
LEMMA ListedOnce ==
    ASSUME NEW s, NEW n \in Nat, DOMAIN s = 1..n,
           \A i, j \in 1..n : i # j => s[i] # s[j]
    PROVE  IsFiniteSet(Range(s)) /\ Cardinality(Range(s)) = n
  <1> DEFINE f == [i \in 1..n |-> s[i]]
  <1>1. f \in Surjection(1..n, Range(s))
    BY DEF Surjection, Range
  <1>2. f \in Injection(1..n, Range(s))
    BY DEF Injection, IsInjective, Range
  <1>3. IsFiniteSet(1..n) /\ Cardinality(1..n) = n
    BY FS_Interval
  <1> QED BY <1>1, <1>2, <1>3, FS_Surjection

(* What the pages of a list are cut from.                                  *)
Asked(shards, from, cursor) ==
    {r \in AllRecords : r[1] \in shards /\ Row(r).time >= from /\ Before(r[1], r[2], cursor)}

(* The merged pages of the shards are the newest records of all of them,   *)
(* as far as the limit: one that is left out is older than the last.       *)
LEMMA Merged ==
    ASSUME FilesFit, NEW shards, shards \subseteq DOMAIN files, NEW from, NEW cursor
    PROVE  LET found == query_records(shards, from, cursor)
               asked == Asked(shards, from, cursor)
           IN  /\ found \in Seq(asked) /\ Len(found) <= Limit + 1
               /\ \A i, j \in DOMAIN found : Older(found[j], found[i]) <=> i < j
               /\ \A r \in asked :
                     \/ \E i \in 1..Limit : i <= Len(found) /\ r = found[i]
                     \/ Len(found) > Limit /\ Older(r, found[Limit])
  <1> DEFINE L == Limit
             asked == Asked(shards, from, cursor)
             part(f) == {r \in RecordsOf(f) : Row(r).time >= from /\ Before(f, r[2], cursor)}
             T == UNION {Range(query_shard(f, from, cursor)) : f \in shards}
             found == query_records(shards, from, cursor)
  <1>1. L \in Nat /\ L >= 1 /\ L + 1 \in Nat
    BY RecordsAssumption
  <1>2. asked \subseteq AllRecords
    BY DEF Asked
  <1>3. ASSUME NEW f \in shards
        PROVE  part(f) \subseteq asked /\ part(f) \subseteq AllRecords
    BY <1>3 DEF Asked, AllRecords, RecordsOf
  <1>4. \A r \in asked : r[1] \in shards /\ r \in part(r[1])
    <2> SUFFICES ASSUME NEW r \in asked PROVE r[1] \in shards /\ r \in part(r[1])
      OBVIOUS
    <2>1. r \in AllRecords /\ r[1] \in shards
      BY DEF Asked
    <2>2. r = <<r[1], r[2]>> /\ r[2] \in DOMAIN files[r[1]]
      BY <2>1, RecordsAre
    <2>3. r \in RecordsOf(r[1])
      BY <2>2 DEF RecordsOf
    <2> QED BY <2>1, <2>3 DEF Asked
  <1>5. \A f \in shards : query_shard(f, from, cursor) = Newest(part(f), L + 1)
    BY DEF query_shard
  <1>6. found = Newest(T, L + 1)
    BY DEF query_records
  <1>7. T \subseteq asked
    <2> SUFFICES ASSUME NEW f \in shards
                 PROVE  Range(query_shard(f, from, cursor)) \subseteq asked
      OBVIOUS
    <2>1. Newest(part(f), L + 1) \in Seq(part(f))
      BY <1>1, <1>3, NewestLists
    <2>2. \A i \in DOMAIN Newest(part(f), L + 1) : Newest(part(f), L + 1)[i] \in part(f)
      BY <2>1
    <2> QED BY <1>3, <1>5, <2>2 DEF Range
  <1> HIDE DEF asked, part, T, found
  <1>8. T \subseteq AllRecords
    BY <1>2, <1>7
  <1>9. /\ Cardinality(T) \in Nat /\ found \in Seq(T)
        /\ Len(found) = IF Cardinality(T) <= L + 1 THEN Cardinality(T) ELSE L + 1
        /\ \A i \in DOMAIN found : Cardinality(Newer(T)[found[i]]) = i - 1
        /\ \A i, j \in DOMAIN found : Older(found[j], found[i]) <=> i < j
        /\ \A r \in T : r \in Range(found) <=> Cardinality(Newer(T)[r]) < L + 1
    BY <1>1, <1>6, <1>8, NewestLists
  <1>10. /\ IsFiniteSet(T) /\ Orders(Newer(T), T)
         /\ \A r \in T : Newer(T)[r] = {q \in T : Older(r, q)}
    BY <1>8, NewerOrders
  <1>11. found \in Seq(asked) /\ Len(found) \in Nat /\ DOMAIN found = 1..Len(found)
    BY <1>7, <1>9
  <1>12. ASSUME NEW r \in asked
         PROVE  \/ \E i \in 1..L : i <= Len(found) /\ r = found[i]
                \/ Len(found) > L /\ Older(r, found[L])
    <2>1. CASE r \in Range(found)
      <3>1. PICK i \in 1..Len(found) : r = found[i]
        BY <1>11, <2>1 DEF Range
      <3>2. CASE i <= L
        BY <1>1, <1>11, <3>1, <3>2
      <3>3. CASE i > L
        <4>1. L \in DOMAIN found /\ i \in DOMAIN found /\ L < i /\ Len(found) > L
          BY <1>1, <1>11, <3>1, <3>3
        <4> QED BY <1>9, <3>1, <4>1
      <3> QED BY <1>1, <1>11, <3>2, <3>3
    <2>2. CASE r \in T /\ r \notin Range(found)
      <3>1. Cardinality(Newer(T)[r]) \in Nat /\ Cardinality(Newer(T)[r]) >= L + 1
        BY <1>1, <1>9, <1>10, <2>2, RanksDiffer
      <3>2. Newer(T)[r] \subseteq T
        BY <1>10, <2>2
      <3>3. Cardinality(T) >= L + 1
        BY <1>1, <1>9, <1>10, <3>1, <3>2, FS_Subset
      <3>4. Len(found) > L /\ L \in DOMAIN found /\ found[L] \in T
        BY <1>1, <1>9, <1>11, <3>3
      <3>5. Cardinality(Newer(T)[found[L]]) < Cardinality(Newer(T)[r])
        BY <1>1, <1>9, <3>1, <3>4
      <3>6. found[L] \in Newer(T)[r]
        BY <1>10, <2>2, <3>4, <3>5, RanksDiffer
      <3> QED BY <1>10, <2>2, <3>4, <3>6
    <2>3. CASE r \notin T
      <3> DEFINE f == r[1]
                 S == part(f)
                 s == Newest(S, L + 1)
                 Q == Range(s)
      <3>1. f \in shards /\ r \in S /\ S \subseteq AllRecords
        BY <1>3, <1>4
      <3>2. Q \subseteq T
        BY <1>5, <3>1 DEF T
      <3> HIDE DEF f, S
      <3>3. /\ Cardinality(S) \in Nat /\ s \in Seq(S)
            /\ Len(s) = IF Cardinality(S) <= L + 1 THEN Cardinality(S) ELSE L + 1
            /\ \A i, j \in DOMAIN s : Older(s[j], s[i]) <=> i < j
            /\ \A q \in S : q \in Q <=> Cardinality(Newer(S)[q]) < L + 1
        BY <1>1, <3>1, NewestLists
      <3>4. /\ IsFiniteSet(S) /\ Orders(Newer(S), S)
            /\ \A q \in S : Newer(S)[q] = {p \in S : Older(q, p)}
        BY <3>1, NewerOrders
      <3> HIDE DEF s
      <3>5. Cardinality(Newer(S)[r]) \in Nat /\ Cardinality(Newer(S)[r]) >= L + 1
        BY <1>1, <2>3, <3>1, <3>2, <3>3, <3>4, RanksDiffer
      <3>6. Cardinality(S) >= L + 1
        <4>1. Newer(S)[r] \subseteq S
          BY <3>1, <3>4
        <4>2. Cardinality(Newer(S)[r]) <= Cardinality(S)
          BY <3>4, <4>1, FS_Subset
        <4> QED BY <1>1, <3>3, <3>5, <4>2
      <3>7. Len(s) = L + 1 /\ DOMAIN s = 1..(L + 1)
        BY <1>1, <3>3, <3>6
      <3>8. \A i, j \in 1..(L + 1) : i # j => s[i] # s[j]
        <4> SUFFICES ASSUME NEW i \in 1..(L + 1), NEW j \in 1..(L + 1), i < j
                     PROVE  s[i] # s[j]
          BY <1>1
        <4>1. Older(s[j], s[i]) /\ s[i] \in AllRecords
          BY <3>1, <3>3, <3>7
        <4> QED BY <4>1, OlderOrders
      <3>9. IsFiniteSet(Q) /\ Cardinality(Q) = L + 1
        BY <1>1, <3>7, <3>8, ListedOnce
      <3>10. Cardinality(T) >= L + 1
        <4>1. Cardinality(Q) <= Cardinality(T)
          BY <1>10, <3>2, FS_Subset
        <4> QED BY <1>1, <1>9, <3>9, <4>1
      <3>11. Len(found) > L /\ L \in DOMAIN found /\ found[L] \in T
        BY <1>1, <1>9, <1>11, <3>10
      <3>12. ASSUME NEW q \in Q PROVE Older(r, q) /\ q \in S
        <4>1. q \in S
          BY <3>3 DEF Range
        <4>2. Cardinality(Newer(S)[q]) \in Nat
          BY <3>4, <4>1, RanksDiffer
        <4>3. Cardinality(Newer(S)[q]) < Cardinality(Newer(S)[r])
          BY <1>1, <3>3, <3>5, <4>1, <4>2
        <4>4. q \in Newer(S)[r]
          BY <3>1, <3>4, <4>1, <4>3, RanksDiffer
        <4> QED BY <3>1, <3>4, <4>1, <4>4
      <3> DEFINE p == found[L]
      <3>13. p \in AllRecords /\ p # r /\ r \in AllRecords
        BY <1>2, <1>8, <2>3, <3>11
      <3>14. CASE Older(p, r)
        <4>1. Q \subseteq Newer(T)[p]
          <5> SUFFICES ASSUME NEW q \in Q PROVE q \in Newer(T)[p]
            OBVIOUS
          <5>1. Older(r, q) /\ q \in T /\ q \in AllRecords
            BY <1>8, <3>2, <3>12
          <5>2. Older(p, q)
            BY <3>13, <3>14, <5>1, OlderOrders
          <5> QED BY <1>10, <3>11, <5>1, <5>2
        <4>2. Newer(T)[p] \subseteq T
          BY <1>10, <3>11
        <4>3. Cardinality(Q) <= Cardinality(Newer(T)[p])
          BY <1>10, <4>1, <4>2, FS_Subset
        <4> QED BY <1>1, <1>9, <3>9, <3>11, <4>3
      <3> QED BY <3>11, <3>13, <3>14, OlderOrders
    <2> QED BY <2>1, <2>2, <2>3
  <1> QED BY <1>1, <1>9, <1>11, <1>12 DEF asked, found

-----------------------------------------------------------------------------
(* The list.                                                               *)

(* A record that the code leaves out: see PagesExact.                      *)
Excused(r) ==
    \/ pager.rotated /\ (~pager.ranged \/ Tied(r))
    \/ Row(r).time = Untimed /\ Len(pager.seen) >= Limit

(* A cursor of three parts comes from a list of several shards, and names  *)
(* the active file or a record of an archive.                              *)
CursorFits ==
    \/ pager.cursor = <<>>
    \/ \E t \in Int, id \in Int : pager.cursor = <<t, id>>
    \/ /\ candidates(pager.ranged, pager.from) # {}
       /\ \E t \in Int, id \in Int, s \in Nat :
             /\ pager.cursor = <<t, id, s>>
             /\ s # 0 => /\ s \in 1..(ActiveFile - 1) /\ HasId(s, id)
                         /\ files[s][id].time = t

(* Nothing that was seen is before the cursor, and all of it has a time;   *)
(* what is owed is before the cursor.                                      *)
PagerFits ==
    /\ pager \in [on : BOOLEAN, from : {0, 1, 2}, ranged : BOOLEAN, cursor : {pager.cursor},
                  seen : Seq(AllRecords), owed : SUBSET AllRecords,
                  over : BOOLEAN, rotated : BOOLEAN]
    /\ pager.on \/ pager = NoPager
    /\ CursorFits
    /\ IsInjective(pager.seen)
    /\ \A r \in pager.owed : /\ Row(r).time >= pager.from
                             /\ ~pager.ranged /\ ~pager.rotated => r[1] = ActiveFile
    /\ ~pager.over => \A r \in Range(pager.seen) :
          /\ pager.cursor # <<>> /\ ~Before(r[1], r[2], pager.cursor)
          /\ Row(r).time # Untimed
    /\ \A r \in pager.owed \ Range(pager.seen) :
          Excused(r) \/ (~pager.over /\ Before(r[1], r[2], pager.cursor))

LEMMA TwoParts ==
    ASSUME NEW a, NEW b
    PROVE  /\ SubSeq(<<a, b>>, 1, 2) = <<a, b>> /\ <<a, b>> # <<>> /\ Len(<<a, b>>) = 2
  <1> DEFINE s == <<a, b>>
  <1>1. s \in Seq({a, b}) /\ Len(s) = 2 /\ s = [i \in 1..2 |-> s[i]] /\ s # <<>>
    OBVIOUS
  <1>2. SubSeq(s, 1, 2) = [i \in 1..2 |-> s[i]]
    BY <1>1
  <1> QED BY <1>1, <1>2

LEMMA ThreeParts ==
    ASSUME NEW a, NEW b, NEW c
    PROVE  /\ SubSeq(<<a, b, c>>, 1, 2) = <<a, b>>
           /\ <<a, b, c>> # <<>> /\ Len(<<a, b, c>>) = 3
  <1> DEFINE s == <<a, b, c>>
             p == <<a, b>>
  <1>1. s \in Seq({a, b, c}) /\ Len(s) = 3 /\ s # <<>>
    OBVIOUS
  <1>2. p \in Seq({a, b, c}) /\ Len(p) = 2 /\ p = [i \in 1..2 |-> p[i]]
    OBVIOUS
  <1>4. p = [i \in 1..2 |-> s[i]]
    BY <1>2
  <1>3. SubSeq(s, 1, 2) = [i \in 1..2 |-> s[i]]
    BY <1>1
  <1> QED BY <1>1, <1>4, <1>3

LEMMA BeforeTwo ==
    ASSUME FilesFit, NEW r \in AllRecords, NEW t \in Int, NEW id \in Int
    PROVE  Before(r[1], r[2], <<t, id>>) <=>
              /\ Row(r).time # Untimed
              /\ Row(r).time < t \/ (Row(r).time = t /\ r[2] < id)
  <1>1. r[2] \in Int /\ Row(r).time \in Int /\ Row(r) = files[r[1]][r[2]]
    BY RecordsAre DEF Row
  <1>2. SubSeq(<<t, id>>, 1, 2) = <<t, id>> /\ <<t, id>> # <<>> /\ Len(<<t, id>>) = 2
    BY TwoParts
  <1> DEFINE place == <<files[r[1]][r[2]].time, r[2]>>
             cursor == <<t, id>>
  <1>3. Less(place, cursor) <=> Row(r).time < t \/ (Row(r).time = t /\ r[2] < id)
    BY <1>1, LessTwo
  <1>4. Before(r[1], r[2], cursor) <=>
           \/ cursor = <<>>
           \/ /\ Row(r).time # Untimed
              /\ \/ Less(place, SubSeq(cursor, 1, 2))
                 \/ Len(cursor) = 3 /\ place = SubSeq(cursor, 1, 2) /\ Shard(r[1]) < cursor[3]
    BY <1>1 DEF Before
  <1> HIDE DEF place, cursor
  <1>5. SubSeq(cursor, 1, 2) = cursor /\ cursor # <<>> /\ Len(cursor) = 2
    BY <1>2 DEF cursor
  <1>6. Len(cursor) # 3
    BY <1>5
  <1>7. Less(place, SubSeq(cursor, 1, 2)) <=> Less(place, cursor)
    BY <1>5, Zenon
  <1>8. Before(r[1], r[2], cursor) <=>
           Row(r).time # Untimed /\ Less(place, SubSeq(cursor, 1, 2))
    BY <1>4, <1>5, <1>6, Zenon
  <1> QED BY <1>3, <1>7, <1>8 DEF cursor

LEMMA BeforeThree ==
    ASSUME FilesFit, NEW r \in AllRecords, NEW t \in Int, NEW id \in Int, NEW s \in Int
    PROVE  Before(r[1], r[2], <<t, id, s>>) <=>
              /\ Row(r).time # Untimed
              /\ \/ Row(r).time < t
                 \/ Row(r).time = t /\ (r[2] < id \/ (r[2] = id /\ Shard(r[1]) < s))
  <1>1. r[2] \in Int /\ Row(r).time \in Int /\ Row(r) = files[r[1]][r[2]]
    BY RecordsAre DEF Row
  <1>2. /\ SubSeq(<<t, id, s>>, 1, 2) = <<t, id>> /\ <<t, id, s>> # <<>>
        /\ Len(<<t, id, s>>) = 3 /\ <<t, id, s>>[3] = s
    BY ThreeParts
  <1> DEFINE place == <<files[r[1]][r[2]].time, r[2]>>
             cursor == <<t, id, s>>
  <1>3. Less(place, <<t, id>>) <=> Row(r).time < t \/ (Row(r).time = t /\ r[2] < id)
    BY <1>1, LessTwo
  <1>4. place = <<t, id>> <=> Row(r).time = t /\ r[2] = id
    BY <1>1
  <1>5. Before(r[1], r[2], cursor) <=>
           \/ cursor = <<>>
           \/ /\ Row(r).time # Untimed
              /\ \/ Less(place, SubSeq(cursor, 1, 2))
                 \/ Len(cursor) = 3 /\ place = SubSeq(cursor, 1, 2) /\ Shard(r[1]) < cursor[3]
    BY <1>1 DEF Before
  <1> HIDE DEF place, cursor
  <1>6. /\ SubSeq(cursor, 1, 2) = <<t, id>> /\ cursor # <<>>
        /\ Len(cursor) = 3 /\ cursor[3] = s
    BY <1>2 DEF cursor
  <1>7. Before(r[1], r[2], cursor) <=>
           /\ Row(r).time # Untimed
           /\ Less(place, <<t, id>>) \/ (place = <<t, id>> /\ Shard(r[1]) < s)
    BY <1>5, <1>6
  <1> QED BY <1>1, <1>3, <1>4, <1>7 DEF cursor

LEMMA CursorCases ==
    ASSUME CursorFits
    PROVE  \/ pager.cursor = <<>>
           \/ \E t \in Int, id \in Int : pager.cursor = <<t, id>>
           \/ \E t \in Int, id \in Int, s \in Nat : pager.cursor = <<t, id, s>>
  BY DEF CursorFits

(* What is older than a record before the cursor is before it too, if it   *)
(* has a time.                                                             *)
LEMMA BeforeOlder ==
    ASSUME FilesFit, CursorFits, NEW r \in AllRecords, NEW q \in AllRecords, Older(r, q),
           Before(q[1], q[2], pager.cursor), Row(r).time # Untimed
    PROVE  Before(r[1], r[2], pager.cursor)
  <1>1. /\ r[2] \in Nat /\ Row(r).time \in Int /\ Shard(r[1]) \in Nat
        /\ q[2] \in Nat /\ Row(q).time \in Int /\ Shard(q[1]) \in Nat
    BY RecordsAre
  <1>2. \/ Row(r).time < Row(q).time
        \/ /\ Row(r).time = Row(q).time
           /\ r[2] < q[2] \/ (r[2] = q[2] /\ Shard(r[1]) < Shard(q[1]))
    BY OlderMeans
  <1>3. CASE pager.cursor = <<>>
    BY <1>3 DEF Before
  <1>4. ASSUME NEW t \in Int, NEW id \in Int, pager.cursor = <<t, id>>
        PROVE  Before(r[1], r[2], pager.cursor)
    <2>1. Row(q).time < t \/ (Row(q).time = t /\ q[2] < id)
      BY <1>4, BeforeTwo
    <2>2. Row(r).time < t \/ (Row(r).time = t /\ r[2] < id)
      BY <1>1, <1>2, <2>1
    <2> QED BY <1>4, <2>2, BeforeTwo
  <1>5. ASSUME NEW t \in Int, NEW id \in Int, NEW s \in Nat, pager.cursor = <<t, id, s>>
        PROVE  Before(r[1], r[2], pager.cursor)
    <2>1. \/ Row(q).time < t
          \/ Row(q).time = t /\ (q[2] < id \/ (q[2] = id /\ Shard(q[1]) < s))
      BY <1>5, BeforeThree
    <2>2. \/ Row(r).time < t
          \/ Row(r).time = t /\ (r[2] < id \/ (r[2] = id /\ Shard(r[1]) < s))
      BY <1>1, <1>2, <2>1
    <2> QED BY <1>5, <2>2, BeforeThree
  <1> QED BY <1>3, <1>4, <1>5, CursorCases

(* Files are only added to.                                                *)
Grown ==
    /\ FilesFit'
    /\ DOMAIN files \subseteq DOMAIN files'
    /\ \A f \in DOMAIN files : /\ DOMAIN files[f] \subseteq DOMAIN files'[f]
                               /\ \A id \in DOMAIN files[f] : files'[f][id] = files[f][id]
    /\ \A r \in AllRecords : r \in AllRecords' /\ Row(r)' = Row(r)

LEMMA CommitGrows ==
    ASSUME FilesFit, Commit
    PROVE  Grown /\ DOMAIN files' = DOMAIN files /\ ActiveFile' = ActiveFile
  <1>1. PICK c \in DOMAIN Conversations, t \in Time :
           /\ Cardinality({r \in AllRecords : Row(r).conv = c}) + 1
                 \in DOMAIN Conversations[c]
           /\ files' = [files EXCEPT ![ActiveFile] = Append(@,
                 RowOf(c, Cardinality({r \in AllRecords : Row(r).conv = c}) + 1, t))]
    BY DEF Commit
  <1> DEFINE row == RowOf(c, Cardinality({r \in AllRecords : Row(r).conv = c}) + 1, t)
  <1>2. row \in Rows
    <2> DEFINE k == Cardinality({r \in AllRecords : Row(r).conv = c}) + 1
    <2>1. k \in DOMAIN Conversations[c]
      BY <1>1
    <2> HIDE DEF k
    <2>2. RowOf(c, k, t) \in Rows
      BY <2>1 DEF Rows
    <2> QED BY <2>2 DEF k
  <1>3. files' = [files EXCEPT ![ActiveFile] = Append(@, row)]
    BY <1>1
  <1> HIDE DEF row
  <1>4. /\ files \in Seq(Seq(Rows)) /\ ActiveFile \in DOMAIN files
        /\ files[ActiveFile] \in Seq(Rows) /\ DOMAIN files = 1..ActiveFile
        /\ ActiveFile \in Nat /\ ActiveFile >= 1
    BY FilesAre DEF FilesFit
  <1>5. Append(files[ActiveFile], row) \in Seq(Rows)
    BY <1>2, <1>4
  <1>6. files' \in Seq(Seq(Rows)) /\ DOMAIN files' = DOMAIN files /\ Len(files') = Len(files)
    BY <1>3, <1>4, <1>5
  <1>7. FilesFit'
    BY <1>4, <1>6 DEF FilesFit, ActiveFile
  <1>8. ASSUME NEW f \in DOMAIN files
        PROVE  /\ DOMAIN files[f] \subseteq DOMAIN files'[f]
               /\ \A id \in DOMAIN files[f] : files'[f][id] = files[f][id]
    <2>1. CASE f = ActiveFile
      <3>1. files'[f] = Append(files[f], row)
        BY <1>3, <1>4, <2>1
      <3> QED BY <1>2, <1>4, <2>1, <3>1
    <2>2. CASE f # ActiveFile
      BY <1>3, <2>2
    <2> QED BY <2>1, <2>2
  <1>9. ASSUME NEW r \in AllRecords PROVE r \in AllRecords' /\ Row(r)' = Row(r)
    <2>1. r = <<r[1], r[2]>> /\ r[1] \in DOMAIN files /\ r[2] \in DOMAIN files[r[1]]
      BY RecordsAre
    <2>2. r[1] \in DOMAIN files' /\ r[2] \in DOMAIN files'[r[1]]
      BY <1>6, <1>8, <2>1
    <2> QED BY <1>8, <2>1, <2>2 DEF AllRecords, RecordsOf, Row
  <1> QED BY <1>6, <1>7, <1>8, <1>9 DEF Grown, ActiveFile

LEMMA RotateGrows ==
    ASSUME FilesFit, Rotate
    PROVE  Grown /\ ActiveFile' = ActiveFile + 1
  <1>1. files' = Append(files, <<>>)
    BY DEF Rotate
  <1>2. /\ files \in Seq(Seq(Rows)) /\ <<>> \in Seq(Rows) /\ Len(files) = ActiveFile
        /\ DOMAIN files = 1..ActiveFile /\ ActiveFile \in Nat
    BY FilesAre DEF FilesFit, ActiveFile
  <1>3. /\ files' \in Seq(Seq(Rows)) /\ DOMAIN files' = 1..(ActiveFile + 1)
        /\ Len(files') = ActiveFile + 1 /\ \A f \in DOMAIN files : files'[f] = files[f]
    BY <1>1, <1>2
  <1>4. FilesFit' /\ ActiveFile' = ActiveFile + 1
    BY <1>2, <1>3 DEF FilesFit, ActiveFile
  <1>5. DOMAIN files \subseteq DOMAIN files'
    BY <1>2, <1>3
  <1>6. ASSUME NEW r \in AllRecords PROVE r \in AllRecords' /\ Row(r)' = Row(r)
    <2>1. r = <<r[1], r[2]>> /\ r[1] \in DOMAIN files /\ r[2] \in DOMAIN files[r[1]]
      BY RecordsAre
    <2>2. r[1] \in DOMAIN files' /\ r[2] \in DOMAIN files'[r[1]]
      BY <1>3, <1>5, <2>1
    <2> QED BY <1>3, <2>1, <2>2 DEF AllRecords, RecordsOf, Row
  <1> QED BY <1>3, <1>4, <1>5, <1>6 DEF Grown

(* A rotation names the shard of what was the active file, and a record    *)
(* can only be passed over for one of the same time and id.                *)
LEMMA BeforeKept ==
    ASSUME FilesFit, Grown, ActiveFile' \in {ActiveFile, ActiveFile + 1},
           CursorFits, pager'.cursor = pager.cursor, NEW r \in AllRecords
    PROVE  /\ Tied(r) => Tied(r)'
           /\ ~Before(r[1], r[2], pager.cursor) => ~Before(r[1], r[2], pager.cursor)'
           /\ Before(r[1], r[2], pager.cursor) =>
                 \/ Before(r[1], r[2], pager.cursor)'
                 \/ r[1] = ActiveFile /\ ActiveFile' # ActiveFile /\ Tied(r)'
  <1>1. /\ r[1] \in DOMAIN files /\ r[2] \in DOMAIN files[r[1]] /\ r[1] \in Nat /\ r[2] \in Nat
        /\ Row(r).time \in Int /\ Row(r) = files[r[1]][r[2]]
        /\ ActiveFile \in Nat /\ DOMAIN files = 1..ActiveFile
    BY FilesAre, RecordsAre DEF Row
  <1>2. files'[r[1]][r[2]] = files[r[1]][r[2]]
    BY <1>1 DEF Grown
  <1>3. /\ Shard(r[1]) \in Nat /\ Shard(r[1])' \in Nat /\ Shard(r[1])' >= Shard(r[1])
        /\ \/ Shard(r[1])' = Shard(r[1])
           \/ /\ r[1] = ActiveFile /\ ActiveFile' # ActiveFile
              /\ Shard(r[1]) = 0 /\ Shard(r[1])' = ActiveFile
    BY <1>1 DEF Shard
  <1> DEFINE cursor == pager.cursor
             place == <<files[r[1]][r[2]].time, r[2]>>
             timed == files[r[1]][r[2]].time # Untimed
             head == timed /\ Less(place, SubSeq(cursor, 1, 2))
             same == timed /\ place = SubSeq(cursor, 1, 2)
  <1>4. Before(r[1], r[2], cursor) <=>
           cursor = <<>> \/ head \/ (Len(cursor) = 3 /\ same /\ Shard(r[1]) < cursor[3])
    BY DEF Before
  <1>5. Before(r[1], r[2], cursor)' <=>
           cursor = <<>> \/ head \/ (Len(cursor) = 3 /\ same /\ Shard(r[1])' < cursor[3])
    BY <1>2 DEF Before
  <1>6. Tied(r) => Tied(r)'
    <2> SUFFICES ASSUME Tied(r) PROVE Tied(r)'
      OBVIOUS
    <2>1. PICK f \in DOMAIN files \ {r[1]} :
             HasId(f, r[2]) /\ files[f][r[2]].time = files[r[1]][r[2]].time
      BY DEF Tied
    <2>2. f \in DOMAIN files' /\ r[2] \in DOMAIN files'[f] /\ files'[f][r[2]] = files[f][r[2]]
      BY <2>1 DEF Grown, HasId
    <2> QED BY <1>2, <2>1, <2>2 DEF Tied, HasId
  <1>7. ASSUME Len(cursor) = 3, same, cursor # <<>>
        PROVE  \E s \in Nat :
                  /\ cursor[3] = s
                  /\ s # 0 => /\ s \in 1..(ActiveFile - 1) /\ HasId(s, r[2])
                              /\ files[s][r[2]].time = Row(r).time
    <2>1. ASSUME NEW t \in Int, NEW id \in Int, cursor = <<t, id>>
          PROVE  FALSE
      <3>1. Len(<<t, id>>) = 2
        BY TwoParts
      <3> QED BY <1>7, <2>1, <3>1
    <2>2. PICK t \in Int, id \in Int, s \in Nat :
             /\ cursor = <<t, id, s>>
             /\ s # 0 => /\ s \in 1..(ActiveFile - 1) /\ HasId(s, id)
                         /\ files[s][id].time = t
      BY <1>7, <2>1 DEF CursorFits
    <2>3. SubSeq(cursor, 1, 2) = <<t, id>> /\ cursor[3] = s
      BY <2>2, ThreeParts
    <2>4. <<files[r[1]][r[2]].time, r[2]>> = <<t, id>>
      BY <1>7, <2>3, Zenon
    <2>5. Row(r).time = t /\ r[2] = id
      BY <1>1, <2>4
    <2> QED BY <2>2, <2>3, <2>5
  <1> HIDE DEF head, same, timed, place, cursor
  <1>8. ASSUME Before(r[1], r[2], cursor)', ~Before(r[1], r[2], cursor)
        PROVE  FALSE
    <2>1. cursor # <<>> /\ Len(cursor) = 3 /\ same
          /\ Shard(r[1])' < cursor[3] /\ ~(Shard(r[1]) < cursor[3])
      BY <1>4, <1>5, <1>8
    <2>2. cursor[3] \in Nat
      BY <1>7, <2>1
    <2> QED BY <1>3, <2>1, <2>2
  <1>9. ASSUME Before(r[1], r[2], cursor), ~Before(r[1], r[2], cursor)'
        PROVE  r[1] = ActiveFile /\ ActiveFile' # ActiveFile /\ Tied(r)'
    <2>1. cursor # <<>> /\ Len(cursor) = 3 /\ same
          /\ Shard(r[1]) < cursor[3] /\ ~(Shard(r[1])' < cursor[3])
      BY <1>4, <1>5, <1>9
    <2>2. PICK s \in Nat :
             /\ cursor[3] = s
             /\ s # 0 => /\ s \in 1..(ActiveFile - 1) /\ HasId(s, r[2])
                         /\ files[s][r[2]].time = Row(r).time
      BY <1>7, <2>1
    <2>3. s # 0 /\ r[1] = ActiveFile /\ ActiveFile' # ActiveFile
      BY <1>3, <2>1, <2>2
    <2>4. s \in DOMAIN files \ {r[1]} /\ r[2] \in DOMAIN files[s]
      BY <1>1, <2>2, <2>3 DEF HasId
    <2>5. s \in DOMAIN files' /\ r[2] \in DOMAIN files'[s] /\ files'[s][r[2]] = files[s][r[2]]
      BY <2>4 DEF Grown
    <2>6. Tied(r)'
      BY <1>1, <1>2, <2>2, <2>3, <2>4, <2>5 DEF Tied, HasId
    <2> QED BY <2>3, <2>6
  <1>10. cursor' = cursor
    BY DEF cursor
  <1>11. Before(r[1], r[2], cursor)' <=> Before(r[1], r[2], pager.cursor)'
    BY DEF cursor
  <1> QED BY <1>6, <1>8, <1>9, <1>11 DEF cursor

LEMMA FilesStep == FilesFit /\ [Next]_vars => FilesFit'
  <1> SUFFICES ASSUME FilesFit, [Next]_vars PROVE FilesFit'
    OBVIOUS
  <1>1. CASE Commit
    BY <1>1, CommitGrows DEF Grown
  <1>2. CASE Rotate
    BY <1>2, RotateGrows DEF Grown
  <1>3. CASE files' = files
    BY <1>3 DEF FilesFit
  <1> QED BY <1>1, <1>2, <1>3
          DEF Next, vars, StartPaging, list_records, ClosePager,
              FingerprintTimeline, SessionTimeline, record_detail

LEMMA FreshPagerFits ==
    ASSUME pager' = NoPager
    PROVE  PagerFits'
  <1>1. /\ pager'.on = FALSE /\ pager'.from = 0 /\ pager'.ranged = FALSE
        /\ pager'.cursor = <<>> /\ pager'.seen = <<>> /\ pager'.owed = {}
        /\ pager'.over = FALSE /\ pager'.rotated = FALSE
    BY DEF NoPager
  <1>2. CursorFits'
    BY <1>1 DEF CursorFits
  <1>3. IsInjective(pager'.seen) /\ Range(pager'.seen) = {}
    BY <1>1 DEF IsInjective, Range
  <1>4. pager' \in [on : BOOLEAN, from : {0, 1, 2}, ranged : BOOLEAN, cursor : {pager'.cursor},
                    seen : Seq(AllRecords'), owed : SUBSET AllRecords',
                    over : BOOLEAN, rotated : BOOLEAN]
    <2>1. <<>> \in Seq(AllRecords')
      OBVIOUS
    <2> QED BY <1>1, <2>1 DEF NoPager
  <1> QED BY <1>1, <1>2, <1>3, <1>4 DEF PagerFits

LEMMA PagerKept ==
    ASSUME FilesFit, PagerFits, Grown, ActiveFile' \in {ActiveFile, ActiveFile + 1},
           \/ ActiveFile' = ActiveFile /\ pager' = pager
           \/ ActiveFile' # ActiveFile /\ pager' = [pager EXCEPT !.rotated = pager.on]
    PROVE  PagerFits'
  <1>1. CASE ~pager.on
    <2>1. pager = NoPager
      BY <1>1 DEF PagerFits
    <2>2. pager' = NoPager
      BY <2>1 DEF NoPager
    <2> QED BY <2>2, FreshPagerFits
  <1>2. CASE pager.on
    <2>1. /\ pager \in [on : BOOLEAN, from : {0, 1, 2}, ranged : BOOLEAN,
                        cursor : {pager.cursor}, seen : Seq(AllRecords),
                        owed : SUBSET AllRecords, over : BOOLEAN, rotated : BOOLEAN]
          /\ CursorFits /\ IsInjective(pager.seen)
          /\ ActiveFile \in Nat /\ DOMAIN files = 1..ActiveFile
      BY FilesAre DEF PagerFits
    <2>2. /\ pager'.on = TRUE /\ pager'.from = pager.from /\ pager'.ranged = pager.ranged
          /\ pager'.cursor = pager.cursor /\ pager'.seen = pager.seen
          /\ pager'.owed = pager.owed /\ pager'.over = pager.over
          /\ pager'.rotated \in BOOLEAN
          /\ ActiveFile' = ActiveFile => pager'.rotated = pager.rotated
          /\ ActiveFile' # ActiveFile => pager'.rotated
      BY <1>2, <2>1
    <2>3. AllRecords \subseteq AllRecords'
      BY DEF Grown
    <2>4. pager' \in [on : BOOLEAN, from : {0, 1, 2}, ranged : BOOLEAN,
                      cursor : {pager'.cursor}, seen : Seq(AllRecords'),
                      owed : SUBSET AllRecords', over : BOOLEAN, rotated : BOOLEAN]
      <3>1. pager.seen \in Seq(AllRecords')
        BY <2>1, <2>3
      <3>2. pager' = [on |-> pager'.on, from |-> pager'.from, ranged |-> pager'.ranged,
                      cursor |-> pager'.cursor, seen |-> pager'.seen, owed |-> pager'.owed,
                      over |-> pager'.over, rotated |-> pager'.rotated]
        BY <2>1
      <3> QED BY <2>1, <2>2, <2>3, <3>1, <3>2
    <2>5. CursorFits'
      <3>1. CASE pager.cursor = <<>> \/ \E t \in Int, id \in Int : pager.cursor = <<t, id>>
        BY <2>2, <3>1 DEF CursorFits
      <3>2. ASSUME candidates(pager.ranged, pager.from) # {},
                   NEW t \in Int, NEW id \in Int, NEW s \in Nat, pager.cursor = <<t, id, s>>,
                   s # 0 => s \in 1..(ActiveFile - 1) /\ HasId(s, id) /\ files[s][id].time = t
            PROVE  CursorFits'
        <4>1. PICK f \in 1..(ActiveFile - 1) :
                 pager.ranged /\ \E row \in Range(files[f]) : row.time >= pager.from
          BY <3>2 DEF candidates
        <4>2. f \in DOMAIN files /\ f \in 1..(ActiveFile' - 1)
          BY <2>1
        <4>3. Range(files[f]) \subseteq Range(files'[f])
          BY <4>2 DEF Grown, Range
        <4>4. candidates(pager.ranged, pager.from)' # {}
          BY <2>2, <4>1, <4>2, <4>3 DEF candidates
        <4>5. s # 0 => s \in 1..(ActiveFile' - 1) /\ HasId(s, id)' /\ files'[s][id].time = t
          <5> SUFFICES ASSUME s # 0
                       PROVE  s \in 1..(ActiveFile' - 1) /\ HasId(s, id)' /\ files'[s][id].time = t
            OBVIOUS
          <5>1. s \in DOMAIN files /\ id \in DOMAIN files[s] /\ s \in 1..(ActiveFile - 1)
            BY <2>1, <3>2 DEF HasId
          <5>2. id \in DOMAIN files'[s] /\ files'[s][id] = files[s][id]
            BY <5>1 DEF Grown
          <5> QED BY <2>1, <3>2, <5>1, <5>2 DEF HasId
        <4> QED BY <2>2, <3>2, <4>4, <4>5 DEF CursorFits
      <3> QED BY <2>1, <3>1, <3>2 DEF CursorFits
    <2>6. ASSUME NEW r \in pager.owed
          PROVE  /\ Row(r)' = Row(r)
                 /\ Row(r).time >= pager.from
                 /\ ~pager'.ranged /\ ~pager'.rotated => r[1] = ActiveFile'
      <3>1. r \in AllRecords /\ Row(r).time >= pager.from
            /\ (~pager.ranged /\ ~pager.rotated => r[1] = ActiveFile)
        BY <2>1 DEF PagerFits
      <3>2. Row(r)' = Row(r)
        BY <3>1 DEF Grown
      <3> QED BY <2>2, <3>1, <3>2
    <2>7. ASSUME ~pager.over, NEW r \in Range(pager.seen)
          PROVE  /\ pager'.cursor # <<>> /\ ~Before(r[1], r[2], pager.cursor)'
                 /\ Row(r)'.time # Untimed
      <3>1. r \in AllRecords /\ pager.cursor # <<>> /\ ~Before(r[1], r[2], pager.cursor)
            /\ Row(r).time # Untimed
        BY <2>1, <2>7 DEF PagerFits, Range
      <3>2. ~Before(r[1], r[2], pager.cursor)'
        BY <2>1, <2>2, <3>1, BeforeKept
      <3> QED BY <2>2, <3>1, <3>2 DEF Grown
    <2>8. ASSUME NEW r \in pager.owed \ Range(pager.seen)
          PROVE  Excused(r)' \/ (~pager'.over /\ Before(r[1], r[2], pager.cursor)')
      <3>1. r \in AllRecords
            /\ (Excused(r) \/ (~pager.over /\ Before(r[1], r[2], pager.cursor)))
        BY <2>1 DEF PagerFits
      <3>2. pager.rotated => pager'.rotated
        BY <2>1, <2>2
      <3>3. Tied(r) => Tied(r)'
        BY <2>1, <2>2, <3>1, BeforeKept
      <3>6. Row(r)' = Row(r)
        BY <3>1 DEF Grown
      <3>4. CASE Excused(r)
        BY <2>2, <3>2, <3>3, <3>4, <3>6 DEF Excused
      <3>5. CASE ~pager.over /\ Before(r[1], r[2], pager.cursor)
        <4>1. \/ Before(r[1], r[2], pager.cursor)'
              \/ ActiveFile' # ActiveFile /\ Tied(r)'
          BY <2>1, <2>2, <3>1, <3>5, BeforeKept
        <4> QED BY <2>2, <3>5, <4>1 DEF Excused
      <3> QED BY <3>1, <3>4, <3>5
    <2>9. pager'.owed \ Range(pager'.seen) = pager.owed \ Range(pager.seen)
      BY <2>2
    <2> QED BY <2>1, <2>2, <2>4, <2>5, <2>6, <2>7, <2>8, <2>9 DEF PagerFits
  <1> QED BY <1>1, <1>2

LEMMA MinOfTwo ==
    ASSUME NEW a \in Nat, NEW b \in Nat
    PROVE  Min({a, b}) = IF a <= b THEN a ELSE b
  <1> DEFINE m == IF a <= b THEN a ELSE b
  <1>1. /\ m \in {a, b} /\ \A y \in {a, b} : m <= y
        /\ \A x \in {a, b} : (\A y \in {a, b} : x <= y) => x = m
    OBVIOUS
  <1> QED BY <1>1 DEF Min

(* A list of the active file alone has a cursor of two parts.              *)
LEMMA CursorAsked ==
    ASSUME CursorFits, candidates(pager.ranged, pager.from) = {}
    PROVE  /\ SubSeq(pager.cursor, 1, Min({2, Len(pager.cursor)})) = pager.cursor
           /\ pager.cursor = <<>> \/ \E t \in Int, id \in Int : pager.cursor = <<t, id>>
  <1>1. CASE pager.cursor = <<>>
    <2>1. Min({2, Len(<<>>)}) = 0
      BY MinOfTwo
    <2>2. SubSeq(<<>>, 1, 0) = <<>>
      OBVIOUS
    <2> QED BY <1>1, <2>1, <2>2
  <1>2. ASSUME NEW t \in Int, NEW id \in Int, pager.cursor = <<t, id>>
        PROVE  SubSeq(pager.cursor, 1, Min({2, Len(pager.cursor)})) = pager.cursor
    <2>1. Len(<<t, id>>) = 2 /\ SubSeq(<<t, id>>, 1, 2) = <<t, id>>
      BY TwoParts
    <2>2. Min({2, 2}) = 2
      BY MinOfTwo
    <2> QED BY <1>2, <2>1, <2>2
  <1> QED BY <1>1, <1>2 DEF CursorFits

(* The cursor after a page lets through what is older than its last.       *)
LEMMA NextCursor ==
    ASSUME FilesFit, NEW last \in AllRecords, NEW several \in BOOLEAN
    PROVE  LET next == format_cursor(last, several)
           IN  /\ next = IF several THEN <<Row(last).time, last[2], Shard(last[1])>>
                         ELSE <<Row(last).time, last[2]>>
               /\ next # <<>>
               /\ \A r \in AllRecords :
                     /\ Before(r[1], r[2], next) => Older(r, last)
                     /\ Older(r, last) /\ Row(r).time # Untimed /\ (several \/ r[1] = last[1])
                           => Before(r[1], r[2], next)
  <1> DEFINE next == format_cursor(last, several)
             t == Row(last).time
             id == last[2]
             s == Shard(last[1])
  <1>1. /\ t \in Int /\ id \in Nat /\ s \in Nat
        /\ Place(last[1], last[2]) = <<t, id, s>>
    BY RecordsAre
  <1>2. SubSeq(<<t, id, s>>, 1, 2) = <<t, id>> /\ <<t, id, s>> # <<>> /\ <<t, id>> # <<>>
    BY TwoParts, ThreeParts
  <1>3. next = IF several THEN <<t, id, s>> ELSE <<t, id>>
    BY <1>1, <1>2 DEF format_cursor
  <1>4. ASSUME NEW r \in AllRecords
        PROVE  /\ Before(r[1], r[2], next) => Older(r, last)
               /\ Older(r, last) /\ Row(r).time # Untimed /\ (several \/ r[1] = last[1])
                     => Before(r[1], r[2], next)
    <2>1. /\ Row(r).time \in Int /\ r[2] \in Nat /\ Shard(r[1]) \in Nat
      BY RecordsAre
    <2>2. Older(r, last) <=>
             \/ Row(r).time < t
             \/ /\ Row(r).time = t
                /\ r[2] < id \/ (r[2] = id /\ Shard(r[1]) < s)
      BY OlderMeans
    <2>3. CASE several
      <3>1. next = <<t, id, s>>
        BY <1>3, <2>3
      <3>2. Before(r[1], r[2], <<t, id, s>>) <=>
               /\ Row(r).time # Untimed
               /\ \/ Row(r).time < t
                  \/ Row(r).time = t /\ (r[2] < id \/ (r[2] = id /\ Shard(r[1]) < s))
        BY <1>1, BeforeThree
      <3> QED BY <2>2, <3>1, <3>2, Zenon
    <2>4. CASE ~several
      <3>1. next = <<t, id>>
        BY <1>3, <2>4
      <3>2. Before(r[1], r[2], <<t, id>>) <=>
               /\ Row(r).time # Untimed
               /\ Row(r).time < t \/ (Row(r).time = t /\ r[2] < id)
        BY <1>1, BeforeTwo
      <3>3. r[1] = last[1] => ~(Shard(r[1]) < s)
        BY <1>1
      <3> HIDE DEF next, t, id, s
      <3> QED BY <2>2, <2>4, <3>1, <3>2, <3>3, Zenon
    <2> QED BY <2>3, <2>4
  <1>5. next # <<>>
    BY <1>2, <1>3
  <1> QED BY <1>3, <1>4, <1>5

(* A page is new, and what it leaves is before the next cursor.            *)
LEMMA ListKept ==
    ASSUME FilesFit, PagerFits, list_records
    PROVE  PagerFits'
  <1> DEFINE archives == candidates(pager.ranged, pager.from)
             several == archives # {}
             shards == archives \union {ActiveFile}
             found == query_records(shards, pager.from, pager.cursor)
             more == Len(found) > Limit
             page == SubSeq(found, 1, Min({Limit, Len(found)}))
             goes == more /\ Row(Last(page)).time # Untimed
             next == IF goes THEN format_cursor(Last(page), several) ELSE <<>>
             asked == Asked(shards, pager.from, pager.cursor)
  <1>1. /\ pager \in [on : BOOLEAN, from : {0, 1, 2}, ranged : BOOLEAN,
                      cursor : {pager.cursor}, seen : Seq(AllRecords),
                      owed : SUBSET AllRecords, over : BOOLEAN, rotated : BOOLEAN]
        /\ CursorFits /\ IsInjective(pager.seen) /\ pager.on /\ ~pager.over
        /\ ActiveFile \in Nat /\ ActiveFile >= 1 /\ DOMAIN files = 1..ActiveFile
        /\ Limit \in Nat /\ Limit >= 1
    BY FilesAre, RecordsAssumption DEF PagerFits, list_records
  <1>2. pager' = [pager EXCEPT !.seen = @ \o page, !.over = ~goes, !.cursor = next]
        /\ files' = files
    <2>1. several \/ SubSeq(pager.cursor, 1, Min({2, Len(pager.cursor)})) = pager.cursor
      BY <1>1, CursorAsked
    <2>2. (IF several THEN pager.cursor
              ELSE SubSeq(pager.cursor, 1, Min({2, Len(pager.cursor)}))) = pager.cursor
      BY <2>1
    <2> QED BY <2>2 DEF list_records
  <1>3. shards \subseteq DOMAIN files
    BY <1>1 DEF candidates
  <1>4. /\ found \in Seq(asked) /\ Len(found) <= Limit + 1
        /\ \A i, j \in DOMAIN found : Older(found[j], found[i]) <=> i < j
        /\ \A r \in asked :
              \/ \E i \in 1..Limit : i <= Len(found) /\ r = found[i]
              \/ Len(found) > Limit /\ Older(r, found[Limit])
    BY <1>3, Merged
  <1>5. \A r \in asked : /\ r \in AllRecords /\ r[1] \in shards
                         /\ Row(r).time >= pager.from
                         /\ Before(r[1], r[2], pager.cursor)
    BY DEF Asked
  <1>6. ASSUME NEW r \in AllRecords, r[1] \in shards, Row(r).time >= pager.from,
               Before(r[1], r[2], pager.cursor)
        PROVE  r \in asked
    BY <1>6 DEF Asked
  <1> HIDE DEF found, asked
  <1> DEFINE n == IF more THEN Limit ELSE Len(found)
  <1>7. Len(found) \in Nat /\ DOMAIN found = 1..Len(found) /\ n \in Nat /\ n <= Len(found)
        /\ \A i \in 1..Len(found) : found[i] \in asked
    BY <1>1, <1>4
  <1>8. /\ page \in Seq(asked) /\ Len(page) = n /\ DOMAIN page = 1..n
        /\ \A i \in 1..n : page[i] = found[i]
    <2>1. Min({Limit, Len(found)}) = n
      BY <1>1, <1>7, MinOfTwo
    <2>2. page = SubSeq(found, 1, n)
      BY <2>1
    <2> HIDE DEF n, more, page
    <2> QED BY <1>4, <1>7, <2>2
  <1> HIDE DEF page
  <1>9. \A i \in 1..n : page[i] \in asked /\ page[i] \in AllRecords
    BY <1>5, <1>7, <1>8
  <1>10. /\ pager'.on /\ pager'.from = pager.from /\ pager'.ranged = pager.ranged
         /\ pager'.cursor = next /\ pager'.seen = pager.seen \o page
         /\ pager'.owed = pager.owed /\ pager'.over = ~goes /\ pager'.rotated = pager.rotated
    BY <1>1, <1>2
  <1>11. /\ pager.seen \o page \in Seq(AllRecords)
         /\ IsInjective(pager.seen \o page)
         /\ Range(pager.seen \o page) = Range(pager.seen) \union Range(page)
         /\ Len(pager.seen \o page) \in Nat /\ Len(pager.seen) \in Nat
         /\ Len(pager.seen \o page) = Len(pager.seen) + n
    <2>1. pager.seen \in Seq(AllRecords) /\ page \in Seq(AllRecords)
      BY <1>1, <1>8, <1>9
    <2>2. \A i \in 1..n : \A j \in 1..n : i < j => page[i] # page[j]
      <3> SUFFICES ASSUME NEW i \in 1..n, NEW j \in 1..n, i < j PROVE page[i] # page[j]
        OBVIOUS
      <3>1. Older(found[j], found[i])
        BY <1>4, <1>7
      <3> QED BY <1>8, <1>9, <3>1, OlderOrders
    <2>3. \A i \in DOMAIN pager.seen : \A j \in 1..n : pager.seen[i] # page[j]
      <3> SUFFICES ASSUME NEW i \in DOMAIN pager.seen, NEW j \in 1..n,
                          pager.seen[i] = page[j]
                   PROVE  FALSE
        OBVIOUS
      <3>1. pager.seen[i] \in Range(pager.seen)
        BY DEF Range
      <3>2. pager.cursor # <<>> /\ ~Before(page[j][1], page[j][2], pager.cursor)
        BY <1>1, <3>1 DEF PagerFits
      <3> QED BY <1>5, <1>9, <3>2
    <2>4. \A i, j \in DOMAIN pager.seen : pager.seen[i] = pager.seen[j] => i = j
      BY <1>1 DEF IsInjective
    <2> DEFINE m == Len(pager.seen)
               all == pager.seen \o page
    <2>5. /\ m \in Nat /\ DOMAIN pager.seen = 1..m /\ all \in Seq(AllRecords)
          /\ Len(all) = m + n /\ DOMAIN all = 1..(m + n)
          /\ \A i \in 1..m : all[i] = pager.seen[i]
          /\ \A i \in (m + 1)..(m + n) : all[i] = page[i - m] /\ i - m \in 1..n
          /\ \A i \in 1..n : all[m + i] = page[i] /\ m + i \in 1..(m + n)
      BY <1>7, <1>8, <2>1
    <2> HIDE DEF m, all
    <2>6. \A i, j \in 1..(m + n) : i < j => all[i] # all[j]
      <3> SUFFICES ASSUME NEW i \in 1..(m + n), NEW j \in 1..(m + n), i < j, all[i] = all[j]
                   PROVE  FALSE
        OBVIOUS
      <3>1. CASE j <= m
        <4>1. i \in 1..m /\ j \in 1..m /\ i # j
          BY <1>7, <2>5, <3>1
        <4>2. pager.seen[i] = pager.seen[j] /\ i \in DOMAIN pager.seen /\ j \in DOMAIN pager.seen
          BY <2>5, <4>1
        <4> QED BY <2>4, <4>1, <4>2
      <3>2. CASE i <= m /\ j > m
        <4>1. i \in DOMAIN pager.seen /\ j \in (m + 1)..(m + n)
          BY <1>7, <2>5, <3>2
        <4> QED BY <2>3, <2>5, <3>2, <4>1
      <3>3. CASE i > m
        <4>1. i \in (m + 1)..(m + n) /\ j \in (m + 1)..(m + n)
          BY <1>7, <2>5, <3>3
        <4>2. all[i] = page[i - m] /\ all[j] = page[j - m] /\ i - m \in 1..n /\ j - m \in 1..n
          BY <2>5, <4>1
        <4>3. i - m < j - m
          BY <1>7, <2>5
        <4> QED BY <2>2, <4>2, <4>3
      <3> QED BY <1>7, <2>5, <3>1, <3>2, <3>3
    <2>7. IsInjective(all)
      <3> SUFFICES ASSUME NEW i \in DOMAIN all, NEW j \in DOMAIN all, all[i] = all[j]
                   PROVE  i = j
        BY DEF IsInjective
      <3> QED BY <1>7, <2>5, <2>6
    <2>8. Range(all) = Range(pager.seen) \union Range(page)
      <3>1. ASSUME NEW x \in Range(all) PROVE x \in Range(pager.seen) \union Range(page)
        <4>1. PICK i \in 1..(m + n) : all[i] = x
          BY <2>5, <3>1 DEF Range
        <4>2. i \in 1..m \/ i \in (m + 1)..(m + n)
          BY <1>7, <2>5
        <4> QED BY <1>8, <2>5, <4>1, <4>2 DEF Range
      <3>2. Range(pager.seen) \subseteq Range(all)
        BY <1>7, <2>5 DEF Range
      <3>3. ASSUME NEW x \in Range(page) PROVE x \in Range(all)
        <4>1. PICK i \in 1..n : page[i] = x
          BY <1>8, <3>3 DEF Range
        <4>2. m + i \in DOMAIN all /\ all[m + i] = x
          BY <2>5, <4>1
        <4> QED BY <4>2 DEF Range
      <3> QED BY <3>1, <3>2, <3>3
    <2> QED BY <1>7, <2>5, <2>7, <2>8 DEF all, m
  <1> DEFINE last == found[Limit]
  <1>12. ASSUME more
         PROVE  /\ last \in asked /\ last \in AllRecords /\ Last(page) = last
                /\ Range(page) = {found[i] : i \in 1..Limit} /\ n = Limit
    <2>1. n = Limit /\ Limit \in 1..n
      BY <1>1, <1>12
    <2>2. Last(page) = last
      BY <1>8, <2>1 DEF Last
    <2>3. last \in asked
      BY <1>7, <1>8, <1>9, <2>1
    <2>4. Range(page) = {found[i] : i \in 1..Limit}
      BY <1>8, <2>1 DEF Range
    <2> QED BY <1>5, <2>1, <2>2, <2>3, <2>4
  <1>21. goes => more /\ next = format_cursor(last, several) /\ Row(last).time # Untimed
    BY <1>12
  <1>13. ASSUME goes, NEW r \in Range(pager'.seen)
         PROVE  next # <<>> /\ ~Before(r[1], r[2], next) /\ Row(r).time # Untimed
    <2>1. /\ r \in AllRecords /\ last \in AllRecords /\ next # <<>> /\ more
          /\ Before(r[1], r[2], next) => Older(r, last)
      <3>1. r \in AllRecords
        BY <1>10, <1>11, <1>13 DEF Range
      <3> QED BY <1>12, <1>13, <1>21, <3>1, NextCursor
    <2>2. CASE r \in Range(page)
      <3>1. PICK i \in 1..Limit : r = found[i]
        BY <1>12, <2>1, <2>2
      <3>2. ~Older(r, last) /\ (r = last \/ Older(last, r))
        BY <1>1, <1>4, <1>7, <2>1, <3>1
      <3>3. Row(r).time # Untimed
        BY <1>13, <1>21, <2>1, <3>2, RecordsAre, OlderMeans DEF Untimed
      <3> QED BY <2>1, <3>2, <3>3
    <2>3. CASE r \in Range(pager.seen)
      <3>1. ~Before(r[1], r[2], pager.cursor) /\ Row(r).time # Untimed
        BY <1>1, <2>3 DEF PagerFits
      <3>2. Before(last[1], last[2], pager.cursor)
        BY <1>5, <1>12, <2>1
      <3>3. ~Older(r, last)
        BY <1>1, <2>1, <3>1, <3>2, BeforeOlder
      <3> QED BY <2>1, <3>1, <3>3
    <2> QED BY <1>10, <1>11, <1>13, <2>2, <2>3
  <1>14. ASSUME NEW r \in pager.owed \ Range(pager'.seen), ~Excused(r)
         PROVE  \/ goes /\ Before(r[1], r[2], next)
                \/ Row(r).time = Untimed /\ Len(pager'.seen) >= Limit
    <2>1. r \in AllRecords /\ r \in pager.owed \ Range(pager.seen) /\ r \notin Range(page)
      BY <1>1, <1>10, <1>11, <1>14
    <2>2. Before(r[1], r[2], pager.cursor) /\ Row(r).time >= pager.from
          /\ (~pager.ranged /\ ~pager.rotated => r[1] = ActiveFile)
      BY <1>14, <2>1 DEF PagerFits
    <2>3. r[1] \in shards
      <3>1. CASE pager.ranged /\ r[1] # ActiveFile
        <4>1. r[1] \in 1..(ActiveFile - 1) /\ r[2] \in DOMAIN files[r[1]]
          BY <1>1, <2>1, <3>1, RecordsAre
        <4>2. Row(r) \in Range(files[r[1]])
          BY <4>1 DEF Row, Range
        <4> QED BY <2>2, <3>1, <4>1, <4>2 DEF candidates
      <3>2. CASE ~pager.ranged
        BY <1>1, <1>14, <2>1, <2>2, <3>2 DEF Excused
      <3> QED BY <1>1, <3>1, <3>2
    <2>4. r \in asked
      BY <1>6, <2>1, <2>2, <2>3
    <2>5. ~\E i \in 1..Limit : i <= Len(found) /\ r = found[i]
      <3> SUFFICES ASSUME NEW i \in 1..Limit, i <= Len(found), r = found[i] PROVE FALSE
        OBVIOUS
      <3>1. i \in 1..n
        BY <1>1, <1>7
      <3> QED BY <1>8, <2>1, <3>1 DEF Range
    <2>6. more /\ Older(r, last) /\ last \in AllRecords
      BY <1>4, <1>12, <2>4, <2>5
    <2>7. Len(pager'.seen) >= Limit
      <3>1. n = Limit
        BY <1>12, <2>6
      <3> QED BY <1>1, <1>10, <1>11, <3>1
    <2>8. CASE Row(r).time # Untimed
      <3>1. Row(last).time # Untimed
        BY <2>1, <2>6, <2>8, RecordsAre, OlderMeans DEF Untimed
      <3>2. goes
        BY <1>12, <2>6, <3>1
      <3>3. several \/ r[1] = last[1]
        <4>1. CASE ~several
          <5>1. last[1] \in shards /\ shards = {ActiveFile}
            BY <1>5, <1>12, <2>6, <4>1
          <5> QED BY <2>3, <5>1
        <4> QED BY <4>1
      <3> QED BY <1>21, <2>1, <2>6, <2>8, <3>2, <3>3, NextCursor
    <2> QED BY <2>7, <2>8
  <1>15. CursorFits'
    <2>1. CASE ~goes
      BY <1>10, <2>1 DEF CursorFits
    <2>2. CASE goes
      <3>1. /\ next = IF several THEN <<Row(last).time, last[2], Shard(last[1])>>
                      ELSE <<Row(last).time, last[2]>>
            /\ last \in AllRecords /\ last[2] \in Int /\ Row(last).time \in Int
            /\ Shard(last[1]) \in Nat /\ last[1] \in DOMAIN files
            /\ last[2] \in DOMAIN files[last[1]] /\ Row(last) = files[last[1]][last[2]]
        <4>1. last \in AllRecords /\ next = format_cursor(last, several)
          BY <1>12, <1>21, <2>2
        <4>2. format_cursor(last, several) =
                 IF several THEN <<Row(last).time, last[2], Shard(last[1])>>
                 ELSE <<Row(last).time, last[2]>>
          BY <4>1, NextCursor
        <4> QED BY <4>1, <4>2, RecordsAre DEF Row
      <3>2. CASE ~several
        BY <1>10, <3>1, <3>2 DEF CursorFits
      <3>3. CASE several
        <4> DEFINE s == Shard(last[1])
        <4>1. s # 0 => /\ s \in 1..(ActiveFile - 1) /\ HasId(s, last[2])
                       /\ files[s][last[2]].time = Row(last).time
          BY <1>1, <3>1 DEF Shard, HasId
        <4>2. candidates(pager.ranged, pager.from)' # {}
          BY <1>2, <1>10, <3>3 DEF candidates, ActiveFile
        <4>3. PICK t \in Int, id \in Int, z \in Nat : t = Row(last).time /\ id = last[2] /\ z = s
          BY <3>1
        <4>4. pager'.cursor = <<t, id, z>>
          BY <1>10, <3>1, <3>3, <4>3
        <4>5. z # 0 => z \in 1..(ActiveFile - 1) /\ HasId(z, id) /\ files[z][id].time = t
          BY <4>1, <4>3
        <4> HIDE DEF last, several, archives, next, s
        <4>6. z # 0 => z \in 1..(ActiveFile' - 1) /\ HasId(z, id)' /\ files'[z][id].time = t
          BY <1>2, <4>5 DEF HasId, ActiveFile
        <4> QED BY <4>2, <4>4, <4>6 DEF CursorFits
      <3> QED BY <3>2, <3>3
    <2> QED BY <2>1, <2>2
  <1>16. /\ AllRecords' = AllRecords /\ ActiveFile' = ActiveFile
         /\ \A r \in AllRecords : /\ Row(r)' = Row(r)
                                  /\ Excused(r) => Excused(r)'
                                  /\ Row(r).time = Untimed /\ Len(pager'.seen) >= Limit
                                        => Excused(r)'
                                  /\ Before(r[1], r[2], pager.cursor)'
                                        <=> Before(r[1], r[2], next)
    <2>1. ASSUME NEW r \in AllRecords
          PROVE  /\ Row(r)' = Row(r)
                 /\ Excused(r) => Excused(r)'
                 /\ Row(r).time = Untimed /\ Len(pager'.seen) >= Limit => Excused(r)'
                 /\ Before(r[1], r[2], pager.cursor)' <=> Before(r[1], r[2], next)
      <3>1. Row(r)' = Row(r)
        BY <1>2 DEF Row
      <3>4. Tied(r)' <=> Tied(r)
        BY <1>2 DEF Tied, HasId
      <3>5. Len(pager.seen) >= Limit => Len(pager'.seen) >= Limit
        BY <1>1, <1>7, <1>10, <1>11
      <3>2. /\ Excused(r) => Excused(r)'
            /\ Row(r).time = Untimed /\ Len(pager'.seen) >= Limit => Excused(r)'
        BY <1>10, <3>1, <3>4, <3>5 DEF Excused
      <3>3. Before(r[1], r[2], pager.cursor)' <=> Before(r[1], r[2], next)
        <4> HIDE DEF next
        <4> QED BY <1>2, <1>10 DEF Before, Shard, ActiveFile
      <3> QED BY <3>1, <3>2, <3>3
    <2>2. AllRecords' = AllRecords /\ ActiveFile' = ActiveFile
      BY <1>2 DEF AllRecords, RecordsOf, ActiveFile
    <2> QED BY <2>1, <2>2
  <1> HIDE DEF next, goes, more, archives, several, shards, n, last
  <1>17. pager' \in [on : BOOLEAN, from : {0, 1, 2}, ranged : BOOLEAN,
                     cursor : {pager'.cursor}, seen : Seq(AllRecords'),
                     owed : SUBSET AllRecords', over : BOOLEAN, rotated : BOOLEAN]
    <2>1. pager' = [on |-> pager'.on, from |-> pager'.from, ranged |-> pager'.ranged,
                    cursor |-> pager'.cursor, seen |-> pager'.seen, owed |-> pager'.owed,
                    over |-> pager'.over, rotated |-> pager'.rotated]
      BY <1>1, <1>2
    <2>2. (~goes) \in BOOLEAN
      BY DEF goes
    <2> QED BY <1>1, <1>10, <1>11, <1>16, <2>1, <2>2
  <1>18. ASSUME NEW r \in pager.owed
         PROVE  /\ Row(r)'.time >= pager'.from
                /\ ~pager'.ranged /\ ~pager'.rotated => r[1] = ActiveFile'
    <2>1. r \in AllRecords /\ Row(r).time >= pager.from
          /\ (~pager.ranged /\ ~pager.rotated => r[1] = ActiveFile)
      BY <1>1 DEF PagerFits
    <2> QED BY <1>10, <1>16, <2>1
  <1>19. ASSUME ~pager'.over, NEW r \in Range(pager'.seen)
         PROVE  /\ pager'.cursor # <<>> /\ ~Before(r[1], r[2], pager.cursor)'
                /\ Row(r)'.time # Untimed
    <2>1. r \in AllRecords
      BY <1>10, <1>11, <1>19 DEF Range
    <2> QED BY <1>10, <1>13, <1>16, <1>19, <2>1
  <1>20. ASSUME NEW r \in pager.owed \ Range(pager'.seen)
         PROVE  Excused(r)' \/ (~pager'.over /\ Before(r[1], r[2], pager.cursor)')
    BY <1>1, <1>10, <1>14, <1>16
  <1> QED BY <1>10, <1>11, <1>15, <1>17, <1>18, <1>19, <1>20 DEF PagerFits

LEMMA StartKept ==
    ASSUME FilesFit, PagerFits, StartPaging
    PROVE  PagerFits'
  <1>1. PICK ranged \in BOOLEAN, from \in 0..2 :
           pager' = [NoPager EXCEPT !.on = TRUE, !.ranged = ranged, !.from = from,
                        !.owed = {r \in UNION {RecordsOf(f) :
                                        f \in (IF ranged THEN DOMAIN files ELSE {ActiveFile})} :
                                    Row(r).time >= from}]
    BY DEF StartPaging
  <1>2. files' = files
    BY DEF StartPaging
  <1> DEFINE shards == IF ranged THEN DOMAIN files ELSE {ActiveFile}
             owed == {r \in UNION {RecordsOf(f) : f \in shards} : Row(r).time >= from}
  <1>3. owed \subseteq AllRecords /\ \A r \in owed : r[1] \in shards /\ Row(r).time >= from
    BY FilesAre DEF AllRecords, RecordsOf
  <1>4. pager' = [on |-> TRUE, from |-> from, ranged |-> ranged, cursor |-> <<>>,
                  seen |-> <<>>, owed |-> owed, over |-> FALSE, rotated |-> FALSE]
    BY <1>1 DEF NoPager
  <1> HIDE DEF owed
  <1>5. /\ pager'.on = TRUE /\ pager'.from = from /\ pager'.ranged = ranged
        /\ pager'.cursor = <<>> /\ pager'.seen = <<>> /\ pager'.owed = owed
        /\ pager'.over = FALSE /\ pager'.rotated = FALSE
    BY <1>4
  <1>6. AllRecords' = AllRecords /\ ActiveFile' = ActiveFile
    BY <1>2 DEF AllRecords, RecordsOf, ActiveFile
  <1>7. pager' \in [on : BOOLEAN, from : {0, 1, 2}, ranged : BOOLEAN, cursor : {pager'.cursor},
                    seen : Seq(AllRecords'), owed : SUBSET AllRecords',
                    over : BOOLEAN, rotated : BOOLEAN]
    <2>1. <<>> \in Seq(AllRecords')
      OBVIOUS
    <2> QED BY <1>3, <1>4, <1>6, <2>1
  <1>8. CursorFits'
    BY <1>5 DEF CursorFits
  <1>9. IsInjective(pager'.seen) /\ Range(pager'.seen) = {}
    BY <1>5 DEF IsInjective, Range
  <1>10. ASSUME NEW r \in owed
         PROVE  /\ Row(r)'.time >= from
                /\ ~ranged => r[1] = ActiveFile'
                /\ Before(r[1], r[2], pager.cursor)'
    BY <1>2, <1>3, <1>5, <1>6 DEF Row, Before
  <1> QED BY <1>5, <1>7, <1>8, <1>9, <1>10 DEF PagerFits

PagesInv == FilesFit /\ PagerFits

(* There is one file to begin with.                                        *)
LEMMA StartFits ==
    ASSUME Init
    PROVE  FilesFit /\ Len(files) = 1 /\ files[1] \in Seq(Rows)
  <1>1. PICK f \in Migrated : files = <<f>>
    BY DEF Init
  <1>2. PICK n \in 0..MaxMigrated : f \in [1..n -> Rows]
    BY <1>1 DEF Migrated
  <1>3. f \in Seq(Rows)
    BY <1>2, RecordsAssumption
  <1> HIDE DEF Rows
  <1>4. <<f>> \in Seq(Seq(Rows)) /\ <<f>> # <<>> /\ Len(<<f>>) = 1 /\ <<f>>[1] = f
    BY <1>3
  <1> QED BY <1>1, <1>3, <1>4 DEF FilesFit

LEMMA PagesStart == Init => PagesInv
  <1> SUFFICES ASSUME Init PROVE PagesInv
    OBVIOUS
  <1>1. FilesFit /\ pager = NoPager
    BY StartFits DEF Init
  <1>3. /\ pager.on = FALSE /\ pager.from = 0 /\ pager.ranged = FALSE
        /\ pager.cursor = <<>> /\ pager.seen = <<>> /\ pager.owed = {}
        /\ pager.over = FALSE /\ pager.rotated = FALSE
    BY <1>1 DEF NoPager
  <1>4. IsInjective(pager.seen) /\ Range(pager.seen) = {} /\ CursorFits
    BY <1>3 DEF IsInjective, Range, CursorFits
  <1>5. pager \in [on : BOOLEAN, from : {0, 1, 2}, ranged : BOOLEAN, cursor : {pager.cursor},
                   seen : Seq(AllRecords), owed : SUBSET AllRecords,
                   over : BOOLEAN, rotated : BOOLEAN]
    <2>1. <<>> \in Seq(AllRecords)
      OBVIOUS
    <2> QED BY <1>1, <1>3, <2>1 DEF NoPager
  <1> QED BY <1>1, <1>3, <1>4, <1>5 DEF PagesInv, PagerFits

LEMMA PagesStep == PagesInv /\ [Next]_vars => PagesInv'
  <1> SUFFICES ASSUME FilesFit, PagerFits, [Next]_vars PROVE PagerFits'
    BY FilesStep DEF PagesInv
  <1>1. CASE Commit
    <2>1. Grown /\ ActiveFile' = ActiveFile /\ pager' = pager
      BY <1>1, CommitGrows DEF Commit
    <2> QED BY <2>1, PagerKept DEF Grown
  <1>2. CASE Rotate
    <2>1. /\ Grown /\ ActiveFile' = ActiveFile + 1 /\ ActiveFile \in Nat
          /\ pager' = [pager EXCEPT !.rotated = pager.on]
      BY <1>2, RotateGrows, FilesAre DEF Rotate
    <2> QED BY <2>1, PagerKept DEF Grown
  <1>3. CASE StartPaging
    BY <1>3, StartKept
  <1>4. CASE list_records
    BY <1>4, ListKept
  <1>5. CASE ClosePager
    BY <1>5, FreshPagerFits DEF ClosePager
  <1>6. CASE files' = files /\ pager' = pager
    <2>1. Grown /\ ActiveFile' = ActiveFile
      BY <1>6, FilesStep DEF Grown, ActiveFile, AllRecords, RecordsOf, Row
    <2> QED BY <1>6, <2>1, PagerKept
  <1> QED BY <1>1, <1>2, <1>3, <1>4, <1>5, <1>6
          DEF Next, vars, FingerprintTimeline, SessionTimeline, record_detail

(* A client that follows the cursor sees no record twice, and when its list *)
(* ends it has seen what was there when it began, but for the three gaps the *)
(* property names: for pages, files, rows and times of any number, however  *)
(* list_records interleaves with records that are written and files that    *)
(* are rotated.                                                            *)
THEOREM ListsAreExact == Spec => []PagesExact
  <1>1. PagesInv => PagesExact
    BY DEF PagesInv, PagerFits, PagesExact, Excused
  <1> QED BY <1>1, PagesStart, PagesStep, PTL DEF Spec

-----------------------------------------------------------------------------
(* The timelines.                                                          *)

(* What is known of the first file, as long as it is the only one: keys of *)
(* records that name no session.                                           *)
KeyFits(id, key) ==
    /\ id \in DOMAIN files[1]
    /\ SessionOf(files[1][id]) = None
    /\ key = KeyOf(files[1][id]) /\ key # NoKey

CacheFits(c) == \A id \in DOMAIN c : KeyFits(id, c[id])

SessionFits ==
    LET f == files[1]
        of == Range(session.items)
    IN  /\ session.upto \in 0..Len(f)
        /\ of \subseteq DOMAIN f
        /\ \A i, j \in DOMAIN session.items : i < j =>
              f[session.items[i]].time <= f[session.items[j]].time
        /\ \A i, j \in of : SessionOf(f[i]) = SessionOf(f[j])
        /\ of # {} => session.items[1] \in of
        /\ session.upto <= PAGE_MAX => \A i \in 1..session.upto :
              of # {} /\ SessionOf(f[i]) = SessionOf(f[session.items[1]]) => i \in of

TimelineInv ==
    Len(files) = 1 => /\ CacheFits(cache)
                      /\ \A t \in told : KeyFits(t[2], t[3])
                      /\ SessionFits

LEMMA Remembered ==
    ASSUME NEW c, CacheFits(c), NEW id \in DOMAIN files[1],
           SessionOf(files[1][id]) = None
    PROVE  LET key == KeyOf(files[1][id])
           IN  /\ CacheFits(Remember(c, id, key))
               /\ key # NoKey => KeyFits(id, KnownKey(c, id, key))
  <1> DEFINE key == KeyOf(files[1][id])
             room == IF Cardinality(DOMAIN c) >= CACHE_CAPACITY THEN <<>> ELSE c
             d == [i \in DOMAIN room \union {id} |-> IF i = id THEN key ELSE room[i]]
  <1>1. CASE id \in DOMAIN c \/ key = NoKey
    BY <1>1 DEF Remember, KnownKey, KeyFits, CacheFits
  <1>2. CASE id \notin DOMAIN c /\ key # NoKey
    <2>1. Remember(c, id, key) = d
      BY <1>2 DEF Remember
    <2>2. DOMAIN room \subseteq DOMAIN c /\ \A i \in DOMAIN room : room[i] = c[i]
      OBVIOUS
    <2> HIDE DEF room
    <2>3. ASSUME NEW i \in DOMAIN d PROVE KeyFits(i, d[i])
      <3>1. CASE i = id
        BY <1>2, <3>1 DEF KeyFits
      <3>2. CASE i # id
        <4>1. i \in DOMAIN c /\ d[i] = c[i]
          BY <2>2, <3>2
        <4> QED BY <4>1 DEF CacheFits
      <3> QED BY <3>1, <3>2
    <2>4. CacheFits(d)
      BY <2>3 DEF CacheFits
    <2> QED BY <1>2, <2>1, <2>4 DEF KnownKey, KeyFits
  <1> QED BY <1>1, <1>2

(* The newest n of the only file: all, if it has no more.                  *)
LEMMA NewestFit ==
    ASSUME FilesFit, Len(files) = 1, NEW n \in Nat
    PROVE  LET newest == Range(Newest(RecordsOf(1), n))
           IN  /\ ActiveFile = 1 /\ RecordsOf(1) \subseteq AllRecords
               /\ RecordsOf(1) = {<<1, id>> : id \in 1..Len(files[1])}
               /\ newest \subseteq RecordsOf(1)
               /\ Len(files[1]) <= n => newest = RecordsOf(1)
  <1> DEFINE S == RecordsOf(1)
             m == Len(files[1])
             g == [id \in 1..m |-> <<1, id>>]
             found == Newest(S, n)
  <1>1. ActiveFile = 1 /\ 1 \in DOMAIN files
    BY FilesAre DEF ActiveFile
  <1>2. m \in Nat /\ DOMAIN files[1] = 1..m
    BY <1>1, FilesAre
  <1>3. S = {<<1, id>> : id \in 1..m} /\ S \subseteq AllRecords
    BY <1>1, <1>2 DEF AllRecords, RecordsOf
  <1>4. IsFiniteSet(Range(g)) /\ Cardinality(Range(g)) = m
    <2>1. DOMAIN g = 1..m /\ \A i, j \in 1..m : i # j => g[i] # g[j]
      OBVIOUS
    <2> HIDE DEF g
    <2> QED BY <1>2, <2>1, ListedOnce
  <1>5. Range(g) = S
    BY <1>3 DEF Range
  <1> HIDE DEF S, m, g
  <1>7. /\ found \in Seq(S)
        /\ \A r \in S : r \in Range(found) <=> Cardinality(Newer(S)[r]) < n
    BY <1>3, NewestLists
  <1> HIDE DEF found
  <1>8. Range(found) \subseteq S
    BY <1>7 DEF Range
  <1>9. ASSUME m <= n, NEW r \in S PROVE r \in Range(found)
    <2>1. IsFiniteSet(S) /\ Orders(Newer(S), S)
      BY <1>3, NewerOrders
    <2>2. Cardinality(Newer(S)[r]) \in Nat /\ Cardinality(Newer(S)[r]) + 1 \in 1..Cardinality(S)
      BY <2>1, InOrderLists, RanksDiffer
    <2>3. Cardinality(Newer(S)[r]) < n
      BY <1>2, <1>4, <1>5, <1>9, <2>2
    <2> QED BY <1>7, <2>3
  <1> QED BY <1>1, <1>3, <1>8, <1>9 DEF S, m, found

(* The scan, while there is one file.                                      *)
LEMMA ScanFits ==
    ASSUME FilesFit, Len(files) = 1
    PROVE  /\ ActiveFile = 1 /\ RecordsOf(1) \subseteq AllRecords
           /\ RecordsOf(1) = {<<1, id>> : id \in 1..Len(files[1])}
           /\ Scanned \subseteq RecordsOf(1)
  <1>1. SCAN_CAP \in Nat
    BY RecordsAssumption
  <1>2. /\ ActiveFile = 1 /\ RecordsOf(1) \subseteq AllRecords
        /\ RecordsOf(1) = {<<1, id>> : id \in 1..Len(files[1])}
        /\ Range(Newest(RecordsOf(1), SCAN_CAP)) \subseteq RecordsOf(1)
    BY <1>1, NewestFit
  <1>3. Scanned \subseteq Range(Newest(RecordsOf(ActiveFile), SCAN_CAP))
    BY DEF Scanned
  <1> QED BY <1>2, <1>3

(* However the answers of the cache come about, they are the keys of what  *)
(* was asked for.                                                          *)
LEMMA GroupsFit ==
    ASSUME FilesFit, Len(files) = 1, CacheFits(cache), \A t \in told : KeyFits(t[2], t[3]),
           group_by_fingerprint
    PROVE  CacheFits(cache') /\ \A t \in told' : KeyFits(t[2], t[3])
  <1> DEFINE keyless == NewestFirst({r \in Scanned : SessionOf(Row(r)) = None})
             key(i) == KeyOf(files[ActiveFile][keyless[i][2]])
             After[n \in 0..Len(keyless)] ==
                 IF n = 0 THEN cache ELSE Remember(After[n - 1], keyless[n][2], key(n))
  <1>1. /\ cache' = After[Len(keyless)]
        /\ told' = told \union
             {<<ActiveFile, keyless[i][2], KnownKey(After[i - 1], keyless[i][2], key(i))>>
                 : i \in {j \in DOMAIN keyless : key(j) # NoKey}}
    BY DEF group_by_fingerprint
  <1> DEFINE kept == {r \in Scanned : SessionOf(Row(r)) = None}
             N == Len(keyless)
  <1>2. /\ N \in Nat /\ DOMAIN keyless = 1..N /\ ActiveFile = 1
        /\ \A n \in 1..N : /\ keyless[n][2] \in DOMAIN files[1]
                           /\ SessionOf(files[1][keyless[n][2]]) = None
    <2>1. /\ ActiveFile = 1 /\ kept \subseteq RecordsOf(1) /\ kept \subseteq AllRecords
          /\ RecordsOf(1) = {<<1, id>> : id \in 1..Len(files[1])}
          /\ DOMAIN files[1] = 1..Len(files[1])
      BY ScanFits, FilesAre
    <2>2. IsFiniteSet(kept) /\ Orders(Newer(kept), kept)
      BY <2>1, NewerOrders
    <2>3. Cardinality(kept) \in Nat /\ keyless \in [1..Cardinality(kept) -> kept]
      BY <2>2, InOrderLists DEF NewestFirst
    <2>4. N = Cardinality(kept)
      BY <2>3
    <2>5. ASSUME NEW n \in 1..N
          PROVE  /\ keyless[n][2] \in DOMAIN files[1]
                 /\ SessionOf(files[1][keyless[n][2]]) = None
      <3>1. keyless[n] \in kept
        BY <2>3, <2>4
      <3>2. PICK id \in 1..Len(files[1]) : keyless[n] = <<1, id>>
        BY <2>1, <3>1
      <3>3. SessionOf(Row(keyless[n])) = None
        BY <3>1
      <3> HIDE DEF keyless, kept
      <3>4. keyless[n][1] = 1 /\ keyless[n][2] = id
        BY <3>2
      <3> QED BY <2>1, <3>3, <3>4 DEF Row
    <2> QED BY <2>1, <2>3, <2>4, <2>5
  <1>3. \A n \in 1..N : key(n) = KeyOf(files[1][keyless[n][2]])
    BY <1>2
  <1> DEFINE id(n) == keyless[n][2]
             K == {KeyOf(files[1][i]) : i \in DOMAIN files[1]}
             C == {c \in {cache} \union UNION {[D -> K] : D \in SUBSET DOMAIN files[1]} :
                      CacheFits(c)}
             H == [p \in (1..N) \X C |-> Remember(p[2], id(p[1]), key(p[1]))]
  <1> HIDE DEF keyless, key, After, N
  <1>4. ASSUME NEW n \in 1..N, NEW c, CacheFits(c)
        PROVE  /\ CacheFits(Remember(c, id(n), key(n)))
               /\ key(n) # NoKey => KeyFits(id(n), KnownKey(c, id(n), key(n)))
    <2> HIDE DEF K, C, H
    <2>1. /\ CacheFits(Remember(c, id(n), KeyOf(files[1][id(n)])))
          /\ KeyOf(files[1][id(n)]) # NoKey =>
                KeyFits(id(n), KnownKey(c, id(n), KeyOf(files[1][id(n)])))
      BY <1>2, <1>4, Remembered
    <2> QED BY <1>3, <2>1
  <1>5. ASSUME NEW n \in 1..N, NEW c \in C
        PROVE  Remember(c, id(n), key(n)) \in C
    <2> DEFINE d == Remember(c, id(n), key(n))
    <2>1. CacheFits(c)
      OBVIOUS
    <2>2. CacheFits(d)
      BY <2>1, <1>4
    <2>3. d = c \/ d = [i \in DOMAIN d |-> d[i]]
      BY DEF Remember
    <2> HIDE DEF d
    <2>4. CASE d = c
      BY <2>4 DEF d
    <2>5. CASE d = [i \in DOMAIN d |-> d[i]]
      <3>1. \A i \in DOMAIN d : i \in DOMAIN files[1] /\ d[i] = KeyOf(files[1][i])
        BY <2>2 DEF CacheFits, KeyFits
      <3>2. DOMAIN d \in SUBSET DOMAIN files[1] /\ d \in [DOMAIN d -> K]
        BY <2>5, <3>1
      <3>3. d \in UNION {[D -> K] : D \in SUBSET DOMAIN files[1]}
        BY <3>2
      <3> QED BY <2>2, <3>3 DEF d
    <2> QED BY <2>3, <2>4, <2>5
  <1>6. cache \in C
    OBVIOUS
  <1>7. H \in [(1..N) \X C -> C] /\ \A n \in 1..N : \A c \in C :
           H[<<n, c>>] = Remember(c, id(n), key(n))
    <2>1. \A p \in (1..N) \X C : Remember(p[2], id(p[1]), key(p[1])) \in C
      <3> SUFFICES ASSUME NEW p \in (1..N) \X C
                   PROVE  Remember(p[2], id(p[1]), key(p[1])) \in C
        OBVIOUS
      <3> HIDE DEF C, id
      <3>1. p[1] \in 1..N /\ p[2] \in C
        OBVIOUS
      <3> QED BY <1>5, <3>1
    <2> HIDE DEF C, id
    <2> QED BY <2>1
  <1> HIDE DEF C, H
  <1>8. PICK g : Recurs(g, N, C, cache, H)
    <2>1. N \in Nat /\ cache \in C /\ H \in [(1..N) \X C -> C]
      BY <1>2, <1>6, <1>7
    <2> HIDE DEF id, K
    <2> QED BY <2>1, Recursion
  <1>9. \E f : f = [n \in 0..N |-> IF n = 0 THEN cache ELSE Remember(f[n - 1], id(n), key(n))]
    <2>0. /\ g \in [0..N -> C] /\ g[0] = cache
          /\ \A n \in 1..N : g[n] = H[<<n, g[n - 1]>>]
      BY <1>8 DEF Recurs
    <2>1. ASSUME NEW n \in 0..N
          PROVE  g[n] = IF n = 0 THEN cache ELSE Remember(g[n - 1], id(n), key(n))
      <3>1. CASE n # 0
        <4>1. n \in 1..N /\ n - 1 \in 0..N
          BY <1>2, <3>1
        <4>2. g[n - 1] \in C
          BY <2>0, <4>1
        <4> QED BY <1>7, <2>0, <3>1, <4>1, <4>2
      <3> QED BY <2>0, <3>1
    <2>2. g = [n \in 0..N |-> g[n]]
      BY <2>0
    <2> HIDE DEF id
    <2>3. g = [n \in 0..N |-> IF n = 0 THEN cache ELSE Remember(g[n - 1], id(n), key(n))]
      BY <2>1, <2>2
    <2> QED BY <2>3
  <1>10. After = [n \in 0..N |->
                     IF n = 0 THEN cache ELSE Remember(After[n - 1], id(n), key(n))]
    <2>1. After = CHOOSE f : f = [n \in 0..Len(keyless) |->
             IF n = 0 THEN cache ELSE Remember(f[n - 1], keyless[n][2], key(n))]
      BY DEF After
    <2> QED BY <1>9, <2>1 DEF N
  <1>11. 0..N \subseteq {n \in 0..N : CacheFits(After[n])}
    <2> DEFINE S == {n \in 0..N : CacheFits(After[n])}
    <2>1. 0 \in S
      BY <1>2, <1>10
    <2>2. ASSUME NEW n \in 1..N, n - 1 \in S PROVE n \in S
      <3>1. After[n] = Remember(After[n - 1], id(n), key(n)) /\ n \in 0..N
        BY <1>2, <1>10
      <3>2. CacheFits(After[n - 1])
        BY <2>2
      <3> QED BY <1>4, <3>1, <3>2
    <2> HIDE DEF S
    <2>3. 0..N \subseteq S
      BY <1>2, <2>1, <2>2, Induction
    <2> QED BY <2>3 DEF S
  <1>12. CacheFits(cache')
    <2>1. N \in 0..N
      BY <1>2
    <2> QED BY <1>1, <1>11, <2>1 DEF N
  <1>13. ASSUME NEW n \in 1..N, key(n) # NoKey
         PROVE  KeyFits(id(n), KnownKey(After[n - 1], id(n), key(n)))
    <2>1. n - 1 \in 0..N
      BY <1>2
    <2> QED BY <1>4, <1>11, <1>13, <2>1
  <1>14. ASSUME NEW t \in told' \ told PROVE KeyFits(t[2], t[3])
    <2>1. PICK i \in 1..N :
             /\ key(i) # NoKey
             /\ t = <<ActiveFile, keyless[i][2], KnownKey(After[i - 1], keyless[i][2], key(i))>>
      BY <1>1, <1>2, <1>14
    <2> QED BY <1>13, <2>1
  <1> QED BY <1>12, <1>14

(* A session's timeline is in the order of times and leaves out nothing    *)
(* that was scanned.                                                       *)
LEMMA SessionShown ==
    ASSUME FilesFit, Len(files) = 1, SessionTimeline
    PROVE  SessionFits' /\ files' = files
  <1>1. PICK s \in {SessionOf(r) : r \in Range(files[ActiveFile])} \ {None} :
           session' = [file |-> ActiveFile, upto |-> Len(files[ActiveFile]),
                       items |-> sort_ascending({q[2] : q \in
                                    {r \in Range(Newest(RecordsOf(ActiveFile), PAGE_MAX)) :
                                        SessionOf(Row(r)) = s}})]
    BY DEF SessionTimeline
  <1> DEFINE newest == Range(Newest(RecordsOf(ActiveFile), PAGE_MAX))
             of == {r \in newest : SessionOf(Row(r)) = s}
             ids == {r[2] : r \in of}
             time(i) == files[ActiveFile][i].time
             before == [i \in ids |-> {j \in ids : Less(<<time(j), j>>, <<time(i), i>>)}]
             n == Cardinality(ids)
             f == files[1]
             items == sort_ascending(ids)
  <1>2. files' = files
    BY DEF SessionTimeline
  <1>3. /\ ActiveFile = 1 /\ of \subseteq RecordsOf(1)
        /\ RecordsOf(1) = {<<1, id>> : id \in 1..Len(f)}
        /\ Len(f) <= PAGE_MAX => newest = RecordsOf(1)
        /\ Len(f) \in Nat /\ DOMAIN f = 1..Len(f) /\ \A id \in DOMAIN f : f[id] \in Rows
    <2>1. PAGE_MAX \in Nat
      BY RecordsAssumption
    <2>2. /\ ActiveFile = 1 /\ RecordsOf(1) = {<<1, id>> : id \in 1..Len(f)}
          /\ Range(Newest(RecordsOf(1), PAGE_MAX)) \subseteq RecordsOf(1)
          /\ Len(f) <= PAGE_MAX => Range(Newest(RecordsOf(1), PAGE_MAX)) = RecordsOf(1)
      BY <2>1, NewestFit
    <2>3. newest \subseteq RecordsOf(1) /\ (Len(f) <= PAGE_MAX => newest = RecordsOf(1))
      BY <2>2
    <2> HIDE DEF newest
    <2> QED BY <2>2, <2>3, FilesAre
  <1>4. ASSUME NEW id \in ids
        PROVE  /\ id \in 1..Len(f) /\ SessionOf(f[id]) = s /\ time(id) = f[id].time
               /\ time(id) \in Int
    <2>1. PICK r \in of : r[2] = id
      OBVIOUS
    <2>2. PICK i \in 1..Len(f) : r = <<1, i>>
      BY <1>3, <2>1
    <2>3. SessionOf(Row(r)) = s
      BY <2>1
    <2> HIDE DEF of, ids
    <2>4. r[1] = 1 /\ i = id
      BY <2>1, <2>2
    <2>5. id \in DOMAIN f /\ SessionOf(f[id]) = s
      BY <1>3, <2>1, <2>3, <2>4 DEF Row
    <2>6. f[id].time \in Int
      BY <1>3, <2>5, RowsAre
    <2> QED BY <1>3, <2>5, <2>6
  <1>5. ASSUME Len(f) <= PAGE_MAX, NEW id \in 1..Len(f), SessionOf(f[id]) = s
        PROVE  id \in ids
    <2>1. <<1, id>> \in newest
      BY <1>3, <1>5
    <2>2. SessionOf(Row(<<1, id>>)) = s
      BY <1>5 DEF Row
    <2>3. <<1, id>> \in of
      BY <2>1, <2>2
    <2> HIDE DEF of
    <2>4. <<1, id>>[2] \in {r[2] : r \in of}
      BY <2>3
    <2> QED BY <2>4
  <1> HIDE DEF of, ids, time
  <1>6. \A i, j \in ids : Less(<<time(j), j>>, <<time(i), i>>) <=>
                             time(j) < time(i) \/ (time(j) = time(i) /\ j < i)
    <2> SUFFICES ASSUME NEW i \in ids, NEW j \in ids
                 PROVE  Less(<<time(j), j>>, <<time(i), i>>) <=>
                           time(j) < time(i) \/ (time(j) = time(i) /\ j < i)
      OBVIOUS
    <2>1. time(i) \in Int /\ time(j) \in Int /\ i \in Int /\ j \in Int
      BY <1>4
    <2> QED BY <2>1, LessTwo
  <1>7. \A i, j \in ids : j \in before[i] <=> time(j) < time(i) \/ (time(j) = time(i) /\ j < i)
    BY <1>6
  <1>8. before \in [ids -> SUBSET ids]
    OBVIOUS
  <1> HIDE DEF before
  <1>9. Orders(before, ids)
    <2>0. \A i \in ids : time(i) \in Int /\ i \in Int
      BY <1>4
    <2>1. \A i \in ids : i \notin before[i]
      BY <1>7, <2>0
    <2>2. \A i, j \in ids : i # j => i \in before[j] \/ j \in before[i]
      BY <1>7, <2>0
    <2>3. ASSUME NEW i \in ids, NEW j \in ids, i \in before[j]
          PROVE  before[i] \subseteq before[j]
      <3> SUFFICES ASSUME NEW h \in before[i] PROVE h \in before[j]
        OBVIOUS
      <3>1. h \in ids
        BY <1>8
      <3> QED BY <1>7, <2>0, <2>3, <3>1
    <2> QED BY <1>8, <2>1, <2>2, <2>3 DEF Orders
  <1>10. IsFiniteSet(ids)
    <2>1. ids \subseteq 1..Len(f)
      BY <1>4
    <2>2. IsFiniteSet(1..Len(f))
      BY <1>3, FS_Interval
    <2> QED BY <2>1, <2>2, FS_Subset
  <1>11. /\ n \in Nat /\ InOrder(ids, before) \in [1..n -> ids]
         /\ \A i \in 1..n : Cardinality(before[InOrder(ids, before)[i]]) = i - 1
         /\ \A r \in ids : /\ Cardinality(before[r]) + 1 \in 1..n
                           /\ InOrder(ids, before)[Cardinality(before[r]) + 1] = r
    BY <1>9, <1>10, InOrderLists
  <1>12. items = InOrder(ids, before)
    BY DEF sort_ascending, before, time
  <1> HIDE DEF items, n
  <1>13. DOMAIN items = 1..n /\ \A i \in 1..n : items[i] \in ids
    BY <1>11, <1>12
  <1>14. Range(items) = ids
    <2>1. \A r \in ids : \E i \in 1..n : items[i] = r
      BY <1>11, <1>12
    <2> QED BY <1>13, <2>1 DEF Range
  <1>15. ASSUME NEW i \in 1..n, NEW j \in 1..n, i < j
         PROVE  f[items[i]].time <= f[items[j]].time
    <2>1. Cardinality(before[items[i]]) < Cardinality(before[items[j]])
      BY <1>11, <1>12, <1>15
    <2>2. items[i] \in before[items[j]]
      BY <1>9, <1>10, <1>13, <2>1, RanksDiffer
    <2>3. time(items[i]) <= time(items[j])
      BY <1>4, <1>7, <1>13, <2>2
    <2> QED BY <1>4, <1>13, <2>3
  <1>16. ids # {} => items[1] \in ids
    <2>1. ids # {} => 1 \in 1..n
      BY <1>11
    <2> QED BY <1>13, <2>1
  <1>17. session'.upto = Len(f) /\ session'.items = items
    BY <1>1, <1>3 DEF items, ids, of
  <1>18. /\ Len(f) \in 0..Len(f)
         /\ ids \subseteq DOMAIN f
         /\ \A i, j \in ids : SessionOf(f[i]) = SessionOf(f[j])
         /\ Len(f) <= PAGE_MAX => \A i \in 1..Len(f) :
               ids # {} /\ SessionOf(f[i]) = SessionOf(f[items[1]]) => i \in ids
    <2>1. ASSUME Len(f) <= PAGE_MAX, NEW i \in 1..Len(f), ids # {},
                 SessionOf(f[i]) = SessionOf(f[items[1]])
          PROVE  i \in ids
      <3>1. SessionOf(f[i]) = s
        BY <1>4, <1>16, <2>1
      <3> QED BY <1>5, <2>1, <3>1
    <2>2. \A i, j \in ids : SessionOf(f[i]) = SessionOf(f[j])
      BY <1>4
    <2>3. ids \subseteq DOMAIN f /\ Len(f) \in 0..Len(f)
      BY <1>3, <1>4
    <2> QED BY <2>1, <2>2, <2>3
  <1>19. files'[1] = f
    BY <1>2
  <1> HIDE DEF f
  <1>20. SessionFits'
    BY <1>13, <1>14, <1>15, <1>16, <1>17, <1>18, <1>19 DEF SessionFits, SessionOf
  <1> QED BY <1>2, <1>20

LEMMA TimelineStart == Init => TimelineInv
  <1> SUFFICES ASSUME Init PROVE TimelineInv
    OBVIOUS
  <1>1. cache = <<>> /\ told = {} /\ session = NoSession
    BY DEF Init
  <1>2. Len(files[1]) \in Nat
    BY StartFits
  <1>3. session.upto = 0 /\ session.items = <<>>
    BY <1>1 DEF NoSession
  <1>4. DOMAIN session.items = {} /\ Range(session.items) = {}
    BY <1>3 DEF Range
  <1>5. SessionFits
    BY <1>2, <1>3, <1>4 DEF SessionFits
  <1>6. CacheFits(cache)
    BY <1>1 DEF CacheFits
  <1> QED BY <1>1, <1>5, <1>6 DEF TimelineInv

LEMMA TimelineStep == FilesFit /\ TimelineInv /\ [Next]_vars => TimelineInv'
  <1> SUFFICES ASSUME FilesFit, TimelineInv, [Next]_vars, Len(files') = 1 PROVE TimelineInv'
    BY DEF TimelineInv
  <1>1. Len(files) = 1 /\ 1 \in DOMAIN files
        /\ Len(files[1]) \in Nat /\ DOMAIN files[1] = 1..Len(files[1])
    <2>1. ActiveFile \in Nat /\ ActiveFile >= 1 /\ Len(files) = ActiveFile
      BY FilesAre DEF ActiveFile
    <2>2. CASE Rotate
      BY <2>1, <2>2, RotateGrows DEF ActiveFile
    <2>3. CASE Commit
      BY <2>1, <2>3, CommitGrows DEF ActiveFile
    <2>4. CASE files' = files
      BY <2>4
    <2>5. Len(files) = 1
      BY <2>2, <2>3, <2>4 DEF Next, vars, StartPaging, list_records, ClosePager,
                              FingerprintTimeline, SessionTimeline, record_detail
    <2> QED BY <2>1, <2>5, FilesAre
  <1>2. CacheFits(cache) /\ (\A t \in told : KeyFits(t[2], t[3])) /\ SessionFits
    BY <1>1 DEF TimelineInv
  <1>3. ASSUME files' = files, NEW id, NEW key, KeyFits(id, key)
        PROVE  KeyFits(id, key)'
    BY <1>3 DEF KeyFits, SessionOf, KeyOf
  <1>4. ASSUME files' = files, session' = session PROVE SessionFits'
    BY <1>2, <1>4 DEF SessionFits, SessionOf
  <1>5. CASE Rotate
    <2>1. ActiveFile' = ActiveFile + 1
      BY <1>5, RotateGrows
    <2> QED BY <1>1, <2>1 DEF ActiveFile
  <1>6. CASE Commit
    <2>1. /\ DOMAIN files[1] \subseteq DOMAIN files'[1]
          /\ \A id \in DOMAIN files[1] : files'[1][id] = files[1][id]
          /\ FilesFit' /\ DOMAIN files' = DOMAIN files
          /\ cache' = cache /\ told' = told /\ session' = session
      BY <1>1, <1>6, CommitGrows DEF Grown, Commit
    <2>2. ASSUME NEW id, NEW key, KeyFits(id, key) PROVE KeyFits(id, key)'
      BY <2>1, <2>2 DEF KeyFits, SessionOf, KeyOf
    <2>3. CacheFits(cache)'
      BY <1>2, <2>1, <2>2 DEF CacheFits
    <2>4. \A t \in told' : KeyFits(t[2], t[3])'
      BY <1>2, <2>1, <2>2
    <2>5. Len(files'[1]) \in Nat /\ DOMAIN files'[1] = 1..Len(files'[1])
      BY <1>1, <2>1 DEF FilesFit
    <2>6. Len(files[1]) <= Len(files'[1])
      BY <1>1, <2>1, <2>5
    <2>7. SessionFits'
      <3> DEFINE f == files[1]
                 g == files'[1]
                 of == Range(session.items)
      <3>1. session.upto \in 0..Len(g) /\ of \subseteq DOMAIN g
        BY <1>1, <1>2, <2>1, <2>5, <2>6 DEF SessionFits
      <3>2. \A i \in DOMAIN session.items : session.items[i] \in of
        BY DEF Range
      <3>3. \A i \in of : i \in DOMAIN f /\ g[i] = f[i]
        BY <1>2, <2>1 DEF SessionFits
      <3>4. \A i \in 1..session.upto : i \in DOMAIN f /\ g[i] = f[i]
        BY <1>1, <1>2, <2>1 DEF SessionFits
      <3>5. /\ \A i, j \in DOMAIN session.items : i < j =>
                  f[session.items[i]].time <= f[session.items[j]].time
            /\ \A i, j \in of : SessionOf(f[i]) = SessionOf(f[j])
            /\ of # {} => session.items[1] \in of
            /\ session.upto <= PAGE_MAX => \A i \in 1..session.upto :
                  of # {} /\ SessionOf(f[i]) = SessionOf(f[session.items[1]]) => i \in of
        BY <1>2 DEF SessionFits
      <3>6. session' = session
        BY <2>1
      <3> HIDE DEF f, of
      <3>7. /\ \A i, j \in DOMAIN session.items : i < j =>
                  g[session.items[i]].time <= g[session.items[j]].time
            /\ \A i, j \in of : SessionOf(g[i]) = SessionOf(g[j])
            /\ session.upto <= PAGE_MAX => \A i \in 1..session.upto :
                  of # {} /\ SessionOf(g[i]) = SessionOf(g[session.items[1]]) => i \in of
        BY <3>2, <3>3, <3>4, <3>5
      <3> QED BY <3>1, <3>5, <3>6, <3>7 DEF SessionFits, SessionOf, of
    <2> QED BY <2>3, <2>4, <2>7 DEF TimelineInv
  <1>7. CASE FingerprintTimeline
    <2>1. group_by_fingerprint /\ files' = files /\ session' = session
      BY <1>7 DEF FingerprintTimeline
    <2>2. CacheFits(cache') /\ \A t \in told' : KeyFits(t[2], t[3])
      BY <1>1, <1>2, <2>1, GroupsFit
    <2>3. CacheFits(cache)' /\ \A t \in told' : KeyFits(t[2], t[3])'
      BY <1>3, <2>1, <2>2 DEF CacheFits
    <2> QED BY <1>4, <2>1, <2>3 DEF TimelineInv
  <1>8. CASE SessionTimeline
    <2>1. cache' = cache /\ told' = told /\ files' = files /\ SessionFits'
      BY <1>1, <1>8, SessionShown DEF SessionTimeline
    <2>2. CacheFits(cache)' /\ \A t \in told' : KeyFits(t[2], t[3])'
      BY <1>2, <1>3, <2>1 DEF CacheFits
    <2> QED BY <2>1, <2>2 DEF TimelineInv
  <1>9. CASE record_detail
    <2>1. PICK id \in 1..MaxRows, named \in BOOLEAN :
             \E f \in (IF named THEN {g \in DOMAIN files : HasId(g, id)} ELSE Resolved(id)) :
                LET key == KeyOf(files[f][id])
                IN  /\ SessionOf(files[f][id]) = None /\ key # NoKey
                    /\ cache' = Remember(cache, id, key)
                    /\ told' = told \union {<<f, id, KnownKey(cache, id, key)>>}
      BY <1>9 DEF record_detail
    <2>2. PICK f \in (IF named THEN {g \in DOMAIN files : HasId(g, id)} ELSE Resolved(id)) :
                /\ SessionOf(files[f][id]) = None /\ KeyOf(files[f][id]) # NoKey
                /\ cache' = Remember(cache, id, KeyOf(files[f][id]))
                /\ told' = told \union {<<f, id, KnownKey(cache, id, KeyOf(files[f][id]))>>}
      BY <2>1
    <2>3. f = 1 /\ id \in DOMAIN files[1]
      <3>1. f \in DOMAIN files /\ HasId(f, id)
        BY <2>2, FilesAre DEF Resolved
      <3>2. DOMAIN files = 1..1
        BY <1>1, FilesAre DEF ActiveFile
      <3> QED BY <3>1, <3>2 DEF HasId
    <2>4. /\ CacheFits(cache')
          /\ KeyFits(id, KnownKey(cache, id, KeyOf(files[1][id])))
      BY <1>2, <2>2, <2>3, Remembered
    <2>5. files' = files /\ session' = session
      BY <1>9 DEF record_detail
    <2>6. \A t \in told' : KeyFits(t[2], t[3])
      BY <1>2, <2>2, <2>3, <2>4
    <2>7. CacheFits(cache)' /\ \A t \in told' : KeyFits(t[2], t[3])'
      BY <1>3, <2>4, <2>5, <2>6 DEF CacheFits
    <2> QED BY <1>4, <2>5, <2>7 DEF TimelineInv
  <1>10. CASE files' = files /\ cache' = cache /\ told' = told /\ session' = session
    <2>1. CacheFits(cache)' /\ \A t \in told' : KeyFits(t[2], t[3])'
      BY <1>2, <1>3, <1>10 DEF CacheFits
    <2> QED BY <1>4, <1>10, <2>1 DEF TimelineInv
  <1> QED BY <1>5, <1>6, <1>7, <1>8, <1>9, <1>10
          DEF Next, vars, StartPaging, list_records, ClosePager

(* The extrema of a set of numbers, which the model takes with CHOOSE.      *)
LEMMA MinOf ==
    ASSUME NEW S, S \subseteq Nat, S # {}
    PROVE  Min(S) \in S /\ \A y \in S : Min(S) <= y
  <1>1. \E m \in S : \A k \in S : m <= k
    BY LeastNatural
  <1> QED BY <1>1 DEF Min

LEMMA MaxOf ==
    ASSUME NEW N \in Nat, NEW S, S \subseteq 0..N, S # {}
    PROVE  Max(S) \in S /\ \A y \in S : Max(S) >= y
  <1> DEFINE T == {N - k : k \in S}
  <1>1. T \subseteq Nat /\ T # {}
    <2>1. \A k \in S : N - k \in Nat
      OBVIOUS
    <2> QED BY <2>1
  <1>2. PICK t \in T : \A u \in T : t <= u
    BY <1>1, LeastNatural
  <1>3. PICK m \in S : t = N - m
    BY <1>2
  <1>4. \A k \in S : m >= k
    BY <1>2, <1>3
  <1>5. \E x \in S : \A y \in S : x >= y
    BY <1>4
  <1> QED BY <1>5 DEF Max

(* A history that is sent again with more messages after it has the same   *)
(* key: only its beginning enters it.                                      *)
LEMMA KeyOfHistory ==
    ASSUME NEW x, NEW y, NEW M, x.msgs \in Seq(M), y.msgs \in Seq(M),
           IsPrefix(x.msgs, y.msgs), Turns(x.msgs) # {}
    PROVE  /\ x.msgs[Min(Turns(x.msgs))] = y.msgs[Min(Turns(y.msgs))]
           /\ KeyWith(x, x.msgs[Min(Turns(x.msgs))]) = KeyWith(y, y.msgs[Min(Turns(y.msgs))])
  <1> DEFINE a == x.msgs
             b == y.msgs
             m == Min(Turns(a))
             lead(s) == {i \in DOMAIN s : \A j \in 1..i : IsSystem(s[j])}
  <1>1. /\ Len(a) \in Nat /\ Len(b) \in Nat /\ Len(a) <= Len(b)
        /\ DOMAIN a = 1..Len(a) /\ DOMAIN b = 1..Len(b)
        /\ \A i \in 1..Len(a) : a[i] = b[i]
    <2>1. /\ Len(a) \in Nat /\ Len(b) \in Nat /\ Len(a) <= Len(b)
          /\ SubSeq(a, 1, Len(a)) = SubSeq(b, 1, Len(a))
      BY DEF IsPrefix
    <2>2. ASSUME NEW i \in 1..Len(a) PROVE a[i] = b[i]
      <3>1. SubSeq(a, 1, Len(a))[i] = a[i] /\ SubSeq(b, 1, Len(a))[i] = b[i]
        BY <2>1
      <3> QED BY <2>1, <3>1
    <2> QED BY <2>1, <2>2
  <1> HIDE DEF a, b
  <1>2. Turns(a) \subseteq DOMAIN a /\ Turns(b) \subseteq DOMAIN b
        /\ Turns(a) \subseteq Nat /\ Turns(b) \subseteq Nat /\ Turns(a) # {}
        /\ (\A i \in DOMAIN a : i \in Turns(a) <=> ~IsSystem(a[i]))
        /\ (\A i \in DOMAIN b : i \in Turns(b) <=> ~IsSystem(b[i]))
    BY <1>1 DEF Turns, a
  <1>3. m \in Turns(a) /\ \A i \in Turns(a) : m <= i
    BY <1>2, MinOf
  <1>4. m \in Turns(b)
    BY <1>1, <1>2, <1>3
  <1>5. Min(Turns(b)) \in Turns(b) /\ \A i \in Turns(b) : Min(Turns(b)) <= i
    BY <1>2, <1>4, MinOf
  <1>6. Min(Turns(b)) = m
    <2> DEFINE k == Min(Turns(b))
    <2>1. k <= m /\ k \in DOMAIN b /\ m \in DOMAIN a /\ k \in Nat /\ m \in Nat
      BY <1>2, <1>3, <1>4, <1>5
    <2>2. k \in DOMAIN a
      BY <1>1, <2>1
    <2>3. k \in Turns(a)
      BY <1>1, <1>2, <1>5, <2>2
    <2>4. m <= k
      BY <1>3, <2>3
    <2> QED BY <2>1, <2>4
  <1>7. a[m] = b[m]
    BY <1>1, <1>2, <1>3
  <1>8. lead(a) = lead(b) /\ lead(a) \subseteq 0..Len(a) /\ \A i \in lead(a) : a[i] = b[i]
    <2>1. ASSUME NEW i \in lead(a) PROVE i \in lead(b) /\ a[i] = b[i]
      <3>1. i \in 1..Len(a) /\ i \in 1..Len(b) /\ \A j \in 1..i : j \in 1..Len(a)
        BY <1>1
      <3> QED BY <1>1, <3>1
    <2>2. ASSUME NEW i \in lead(b) PROVE i \in lead(a)
      <3>1. ~IsSystem(b[m]) /\ m \in 1..Len(a) /\ i \in 1..Len(b)
        BY <1>1, <1>2, <1>3, <1>4
      <3>2. i < m
        BY <1>1, <3>1
      <3>3. i \in 1..Len(a) /\ \A j \in 1..i : j \in 1..Len(a)
        BY <1>1, <3>1, <3>2
      <3> QED BY <1>1, <3>3
    <2>3. lead(a) \subseteq 0..Len(a)
      BY <1>1
    <2> QED BY <2>1, <2>2, <2>3
  <1>9. LeadingSystem(a) = LeadingSystem(b)
    <2>1. LeadingSystem(a) = IF lead(a) = {} THEN <<>> ELSE a[Max(lead(a))].text
      BY DEF LeadingSystem
    <2>2. LeadingSystem(b) = IF lead(b) = {} THEN <<>> ELSE b[Max(lead(b))].text
      BY DEF LeadingSystem
    <2> HIDE DEF lead
    <2>3. lead(a) # {} => Max(lead(a)) \in lead(a)
      BY <1>1, <1>8, MaxOf
    <2> QED BY <1>8, <2>1, <2>2, <2>3
  <1> QED BY <1>6, <1>7, <1>9 DEF KeyWith, a, b

(* Two records that name no session have the same key exactly when they    *)
(* are of one conversation.                                                *)
LEMMA KeysTell ==
    ASSUME ExchangesProper, HistoriesResent, BeginningsDiffer,
           NEW p \in Rows, NEW q \in Rows,
           SessionOf(p) = None, SessionOf(q) = None, KeyOf(p) # NoKey, KeyOf(q) # NoKey
    PROVE  KeyOf(p) = KeyOf(q) <=> p.conv = q.conv
  <1> DEFINE x == Conversations[p.conv][p.turn]
             y == Conversations[q.conv][q.turn]
             first(z) == KeyWith(z, z.msgs[Min(Turns(z.msgs))])
  <1>1. ASSUME NEW r \in Rows, SessionOf(r) = None, KeyOf(r) # NoKey
        PROVE  LET z == Conversations[r.conv][r.turn]
               IN  /\ r.conv \in DOMAIN Conversations /\ r.turn \in Nameless(r.conv)
                   /\ z.msgs \in Seq(Message) /\ Keyed(z) /\ KeyOf(r) = first(z)
    <2> DEFINE z == Conversations[r.conv][r.turn]
    <2>1. /\ r.conv \in DOMAIN Conversations /\ r.turn \in DOMAIN Conversations[r.conv]
          /\ r = RowOf(r.conv, r.turn, r.time)
      BY RowsAre
    <2>2. SessionOf(r) = Columns[r.conv][r.turn].session
          /\ KeyOf(r) = Keys[r.conv][r.turn]
      BY <2>1 DEF RowOf, SessionOf, KeyOf
    <2>3. KeyOf(r) = conversation_fingerprint(z)
      BY <2>1, <2>2 DEF Keys
    <2>4. Keyed(z) /\ KeyOf(r) = first(z)
      BY <1>1, <2>3 DEF conversation_fingerprint
    <2>5. r.turn \in Nameless(r.conv)
      BY <1>1, <2>1, <2>2 DEF Nameless
    <2>6. z.msgs \in Seq(Message)
      BY <2>1 DEF ExchangesProper, IsProper
    <2> QED BY <2>1, <2>4, <2>5, <2>6
  <1>2. /\ p.conv \in DOMAIN Conversations /\ p.turn \in Nameless(p.conv)
        /\ x.msgs \in Seq(Message) /\ Keyed(x) /\ KeyOf(p) = first(x)
    BY <1>1
  <1>3. /\ q.conv \in DOMAIN Conversations /\ q.turn \in Nameless(q.conv)
        /\ y.msgs \in Seq(Message) /\ Keyed(y) /\ KeyOf(q) = first(y)
    BY <1>1
  <1>4. CASE p.conv # q.conv
    BY <1>2, <1>3, <1>4 DEF BeginningsDiffer
  <1>5. CASE p.conv = q.conv
    <2>1. IsPrefix(x.msgs, y.msgs) \/ IsPrefix(y.msgs, x.msgs)
      <3>1. p.turn \in Nat /\ q.turn \in Nat
        BY <1>2, <1>3 DEF Nameless, ExchangesProper
      <3>2. p.turn <= q.turn \/ q.turn <= p.turn
        BY <3>1
      <3> QED BY <1>2, <1>3, <1>5, <3>2 DEF HistoriesResent
    <2>2. Turns(x.msgs) # {} /\ Turns(y.msgs) # {}
      BY <1>2, <1>3 DEF Keyed
    <2> HIDE DEF x, y
    <2>3. first(x) = first(y)
      BY <1>2, <1>3, <2>1, <2>2, KeyOfHistory
    <2> QED BY <1>2, <1>3, <1>5, <2>3
  <1> QED BY <1>4, <1>5

TimelinesInv == FilesFit /\ TimelineInv

(* As long as there is one file, equal keys mean one conversation, and the *)
(* timeline of a session is in order and complete, whatever was asked for  *)
(* before and however full the cache was: for clients that send their      *)
(* history again with each turn and begin differently.                     *)
THEOREM TimelinesAreExact ==
    ASSUME ExchangesProper, HistoriesResent, BeginningsDiffer
    PROVE  Spec => []TimelineExact
  <1>1. TimelinesInv => TimelineExact
    <2> SUFFICES ASSUME FilesFit, TimelineInv, Len(files) = 1 PROVE TimelineExact
      BY DEF TimelinesInv, TimelineExact
    <2> DEFINE f == files[1]
    <2>1. (\A t \in told : KeyFits(t[2], t[3])) /\ SessionFits
      BY DEF TimelineInv
    <2>2. \A id \in DOMAIN f : f[id] \in Rows
      <3>1. 1 \in DOMAIN files
        BY FilesAre DEF ActiveFile
      <3> QED BY <3>1, FilesAre
    <2>3. ASSUME NEW t \in told, NEW u \in told
          PROVE  t[3] = u[3] <=> f[t[2]].conv = f[u[2]].conv
      <3>1. KeyFits(t[2], t[3]) /\ KeyFits(u[2], u[3])
        BY <2>1
      <3>2. /\ f[t[2]] \in Rows /\ SessionOf(f[t[2]]) = None
            /\ t[3] = KeyOf(f[t[2]]) /\ KeyOf(f[t[2]]) # NoKey
            /\ f[u[2]] \in Rows /\ SessionOf(f[u[2]]) = None
            /\ u[3] = KeyOf(f[u[2]]) /\ KeyOf(f[u[2]]) # NoKey
        BY <2>2, <3>1 DEF KeyFits
      <3> HIDE DEF f
      <3>3. KeyOf(f[t[2]]) = KeyOf(f[u[2]]) <=> f[t[2]].conv = f[u[2]].conv
        BY <3>2, KeysTell
      <3> QED BY <3>2, <3>3
    <2> QED BY <2>1, <2>3 DEF SessionFits, TimelineExact
  <1>2. Init => TimelinesInv
    BY PagesStart, TimelineStart DEF TimelinesInv, PagesInv
  <1>3. TimelinesInv /\ [Next]_vars => TimelinesInv'
    BY FilesStep, TimelineStep DEF TimelinesInv
  <1> QED BY <1>1, <1>2, <1>3, PTL DEF Spec

-----------------------------------------------------------------------------
(* What is stored about an exchange.                                       *)

LEMMA BytesAre ==
    ASSUME NEW s \in Seq(Nat)
    PROVE  bytes(s) \in Nat /\ (s = <<>> => bytes(s) = 0)
  <1> DEFINE N == Len(s)
             w(n) == Width(s[n])
             upto[n \in 0..N] == IF n = 0 THEN 0 ELSE upto[n - 1] + w(n)
             H == [p \in (1..N) \X Nat |-> p[2] + w(p[1])]
  <1>1. bytes(s) = upto[N]
    BY DEF bytes
  <1>2. N \in Nat /\ \A n \in 1..N : w(n) \in Nat
    BY DEF Width
  <1>3. H \in [(1..N) \X Nat -> Nat] /\ \A n \in 1..N : \A k \in Nat : H[<<n, k>>] = k + w(n)
    <2> HIDE DEF w, N
    <2>1. \A p \in (1..N) \X Nat : p[2] + w(p[1]) \in Nat
      BY <1>2
    <2> QED BY <2>1
  <1> HIDE DEF H, w
  <1>4. PICK g : Recurs(g, N, Nat, 0, H)
    <2> HIDE DEF N
    <2>1. 0 \in Nat
      OBVIOUS
    <2> QED BY <1>2, <1>3, <2>1, Recursion
  <1>5. /\ g \in [0..N -> Nat] /\ g[0] = 0
        /\ \A n \in 1..N : g[n] = H[<<n, g[n - 1]>>]
    BY <1>4 DEF Recurs
  <1>6. g = [n \in 0..N |-> IF n = 0 THEN 0 ELSE g[n - 1] + w(n)]
    <2>1. ASSUME NEW n \in 0..N
          PROVE  g[n] = IF n = 0 THEN 0 ELSE g[n - 1] + w(n)
      <3>1. CASE n # 0
        <4>1. n \in 1..N /\ n - 1 \in 0..N
          BY <1>2, <3>1
        <4>2. g[n - 1] \in Nat
          BY <1>5, <4>1
        <4> QED BY <1>3, <1>5, <3>1, <4>1, <4>2
      <3> QED BY <1>5, <3>1
    <2>2. g = [n \in 0..N |-> g[n]]
      BY <1>5
    <2> QED BY <2>1, <2>2
  <1>7. upto = [n \in 0..N |-> IF n = 0 THEN 0 ELSE upto[n - 1] + w(n)]
    <2>1. \E f : f = [n \in 0..N |-> IF n = 0 THEN 0 ELSE f[n - 1] + w(n)]
      BY <1>6
    <2> QED BY <2>1
  <1> HIDE DEF upto, N
  <1>8. 0..N \subseteq {n \in 0..N : upto[n] \in Nat}
    <2> DEFINE S == {n \in 0..N : upto[n] \in Nat}
    <2>1. 0 \in S
      BY <1>2, <1>7
    <2>2. ASSUME NEW n \in 1..N, n - 1 \in S PROVE n \in S
      <3>1. upto[n] = upto[n - 1] + w(n) /\ n \in 0..N
        BY <1>2, <1>7
      <3>2. upto[n - 1] \in Nat /\ w(n) \in Nat
        BY <1>2, <2>2
      <3> QED BY <3>1, <3>2
    <2> HIDE DEF S
    <2>3. 0..N \subseteq S
      BY <1>2, <2>1, <2>2, Induction
    <2> QED BY <2>3 DEF S
  <1>9. bytes(s) \in Nat
    <2>1. N \in 0..N
      BY <1>2
    <2> QED BY <1>1, <1>8, <2>1
  <1>10. s = <<>> => N = 0
    BY DEF N
  <1>11. upto[0] = 0
    BY <1>2, <1>7
  <1> QED BY <1>1, <1>9, <1>10, <1>11

(* The loops on is_char_boundary end, within the bytes they are given.      *)
LEMMA HeadFits ==
    ASSUME NEW s \in Seq(Nat), NEW n \in Nat
    PROVE  /\ HeadOf(s, n) \in Seq(Nat) /\ bytes(HeadOf(s, n)) \in Nat
           /\ bytes(HeadOf(s, n)) <= n /\ IsPrefix(HeadOf(s, n), s)
  <1> DEFINE size(k) == bytes(SubSeq(s, 1, k))
             S == {k \in 0..Len(s) : size(k) <= n}
             k == Max(S)
  <1>1. Len(s) \in Nat /\ S \subseteq 0..Len(s)
    OBVIOUS
  <1>2. 0 \in S
    <2>1. SubSeq(s, 1, 0) = <<>> /\ <<>> \in Seq(Nat)
      OBVIOUS
    <2>2. size(0) = 0
      BY <2>1, BytesAre
    <2> HIDE DEF size
    <2> QED BY <1>1, <2>2
  <1>3. k \in S
    <2> HIDE DEF S
    <2> QED BY <1>1, <1>2, MaxOf
  <1>4. HeadOf(s, n) = SubSeq(s, 1, k)
    BY DEF HeadOf
  <1>5. bytes(SubSeq(s, 1, k)) <= n /\ k \in 0..Len(s)
    BY <1>3
  <1> HIDE DEF k
  <1>6. SubSeq(s, 1, k) \in Seq(Nat) /\ Len(SubSeq(s, 1, k)) = k
    BY <1>1, <1>5
  <1>7. IsPrefix(SubSeq(s, 1, k), s)
    <2>1. SubSeq(SubSeq(s, 1, k), 1, k) = SubSeq(s, 1, k)
      BY <1>1, <1>5, <1>6
    <2> QED BY <1>5, <1>6, <2>1 DEF IsPrefix
  <1> QED BY <1>4, <1>5, <1>6, <1>7, BytesAre

LEMMA TailFits ==
    ASSUME NEW s \in Seq(Nat), NEW n \in Nat
    PROVE  /\ TailOf(s, n) \in Seq(Nat) /\ bytes(TailOf(s, n)) \in Nat
           /\ bytes(TailOf(s, n)) <= n /\ IsSuffix(TailOf(s, n), s)
  <1> DEFINE L == Len(s)
             size(j) == bytes(SubSeq(s, L - j + 1, L))
             S == {j \in 0..L : size(j) <= n}
             k == Max(S)
             t == SubSeq(s, L - k + 1, L)
  <1>1. L \in Nat /\ S \subseteq 0..L
    OBVIOUS
  <1>2. 0 \in S
    <2>1. SubSeq(s, L - 0 + 1, L) = <<>> /\ <<>> \in Seq(Nat)
      BY <1>1
    <2>2. size(0) = 0
      BY <2>1, BytesAre
    <2> HIDE DEF size
    <2> QED BY <1>1, <2>2
  <1>3. k \in S
    <2> HIDE DEF S, L
    <2> QED BY <1>1, <1>2, MaxOf
  <1>4. TailOf(s, n) = t
    BY DEF TailOf
  <1>5. bytes(t) <= n /\ k \in 0..L
    BY <1>3
  <1> HIDE DEF k
  <1>6. t \in Seq(Nat) /\ Len(t) = k /\ \A i \in 1..k : t[i] = s[L - k + i]
    BY <1>1, <1>5
  <1>7. IsSuffix(t, s)
    <2> DEFINE a == Reverse(t)
               b == Reverse(s)
    <2>1. /\ a = [i \in 1..k |-> t[k - i + 1]]
          /\ b = [i \in 1..L |-> s[L - i + 1]]
      BY <1>6 DEF Reverse
    <2> HIDE DEF t
    <2>2. \A i \in 1..k : t[k - i + 1] \in Nat
      <3> SUFFICES ASSUME NEW i \in 1..k PROVE t[k - i + 1] \in Nat
        OBVIOUS
      <3>1. k - i + 1 \in 1..Len(t)
        BY <1>1, <1>5, <1>6
      <3> QED BY <1>6, <3>1
    <2>3. a \in Seq(Nat) /\ Len(a) = k
      BY <1>1, <1>5, <2>1, <2>2
    <2>4. b \in Seq(Nat) /\ Len(b) = L
      <3>1. \A i \in 1..L : L - i + 1 \in 1..L
        BY <1>1
      <3>2. \A i \in 1..L : s[L - i + 1] \in Nat
        BY <3>1
      <3> QED BY <1>1, <2>1, <3>2
    <2>5. \A i \in 1..k : a[i] = b[i]
      <3> SUFFICES ASSUME NEW i \in 1..k PROVE a[i] = b[i]
        OBVIOUS
      <3>1. k - i + 1 \in 1..k /\ L - k + (k - i + 1) = L - i + 1 /\ i \in 1..L
        BY <1>1, <1>5
      <3>2. t[k - i + 1] = s[L - k + (k - i + 1)]
        BY <1>6, <3>1
      <3> HIDE DEF L
      <3> QED BY <2>1, <3>1, <3>2
    <2> HIDE DEF a, b
    <2>6. SubSeq(a, 1, k) = SubSeq(b, 1, k)
      BY <1>1, <1>5, <2>3, <2>4, <2>5
    <2> QED BY <1>1, <1>5, <2>3, <2>4, <2>6 DEF IsSuffix, IsPrefix, a, b
  <1> QED BY <1>4, <1>5, <1>6, <1>7, BytesAre

(* A text that fits is kept whole.                                         *)
LEMMA WholeIsPreview ==
    ASSUME NEW s \in Seq(Nat), NEW max \in Nat
    PROVE  PreviewOf(Whole(s), s, max)
  <1>1. IsPrefix(s, s)
    BY DEF IsPrefix
  <1>2. IsSuffix(<<>>, s)
    <2>1. Reverse(<<>>) = <<>> /\ Len(<<>>) = 0
      BY DEF Reverse
    <2>2. Reverse(s) = [i \in 1..Len(s) |-> s[Len(s) - i + 1]]
      BY DEF Reverse
    <2>3. \A i \in 1..Len(s) : s[Len(s) - i + 1] \in Nat
      <3> SUFFICES ASSUME NEW i \in 1..Len(s) PROVE s[Len(s) - i + 1] \in Nat
        OBVIOUS
      <3>1. Len(s) - i + 1 \in 1..Len(s)
        OBVIOUS
      <3> QED BY <3>1
    <2>4. Reverse(s) \in Seq(Nat)
      BY <2>2, <2>3
    <2>5. Len(Reverse(s)) \in Nat /\ SubSeq(Reverse(s), 1, 0) = <<>>
      BY <2>4
    <2> QED BY <2>1, <2>5 DEF IsSuffix, IsPrefix
  <1>3. bytes(s) \in Nat /\ bytes(<<>>) = 0
    <2>1. <<>> \in Seq(Nat)
      OBVIOUS
    <2> QED BY <2>1, BytesAre
  <1>4. /\ Whole(s).head = s /\ Whole(s).omitted = 0 /\ Whole(s).tail = <<>>
    BY DEF Whole
  <1> QED BY <1>1, <1>2, <1>3, <1>4 DEF PreviewOf

(* Both cuts account for every byte of the text.                           *)
LEMMA HeadIsPreview ==
    ASSUME NEW s \in Seq(Nat), NEW max \in Nat
    PROVE  PreviewOf(truncate_head(s, max), s, max)
  <1>0. bytes(s) \in Nat
    BY BytesAre
  <1>1. CASE bytes(s) <= max
    <2>1. truncate_head(s, max) = Whole(s)
      BY <1>1 DEF truncate_head
    <2> QED BY <2>1, WholeIsPreview
  <1>2. CASE ~(bytes(s) <= max)
    <2> DEFINE h == HeadOf(s, max)
    <2>1. /\ bytes(h) \in Nat /\ bytes(h) <= max /\ IsPrefix(h, s)
      BY HeadFits
    <2>2. truncate_head(s, max) = [head |-> h, omitted |-> bytes(s) - bytes(h), tail |-> <<>>]
      BY <1>2 DEF truncate_head
    <2> HIDE DEF h
    <2>3. /\ truncate_head(s, max).head = h
          /\ truncate_head(s, max).omitted = bytes(s) - bytes(h)
          /\ truncate_head(s, max).tail = <<>>
      BY <2>2
    <2>4. IsSuffix(<<>>, s) /\ bytes(<<>>) = 0
      <3>1. PreviewOf(Whole(s), s, max) /\ Whole(s).tail = <<>>
        BY WholeIsPreview DEF Whole
      <3>2. <<>> \in Seq(Nat)
        OBVIOUS
      <3> QED BY <3>1, <3>2, BytesAre DEF PreviewOf
    <2> QED BY <1>0, <1>2, <2>1, <2>3, <2>4 DEF PreviewOf
  <1> QED BY <1>1, <1>2

LEMMA EndsArePreview ==
    ASSUME NEW s \in Seq(Nat), NEW max \in Nat
    PROVE  PreviewOf(truncate_head_tail(s, max), s, max)
  <1>0. bytes(s) \in Nat
    BY BytesAre
  <1>1. CASE bytes(s) <= max
    <2>1. truncate_head_tail(s, max) = Whole(s)
      BY <1>1 DEF truncate_head_tail
    <2> QED BY <2>1, WholeIsPreview
  <1>2. CASE ~(bytes(s) <= max)
    <2> DEFINE head == (max * 3) \div 4
               h == HeadOf(s, head)
               t == TailOf(s, max - head)
               p == truncate_head_tail(s, max)
    <2>1. head \in Nat /\ max - head \in Nat
      OBVIOUS
    <2>2. p = [head |-> h, omitted |-> bytes(s) - bytes(h) - bytes(t), tail |-> t]
      BY <1>2 DEF truncate_head_tail
    <2> HIDE DEF head
    <2>3. /\ bytes(h) \in Nat /\ bytes(h) <= head /\ IsPrefix(h, s)
          /\ bytes(t) \in Nat /\ bytes(t) <= max - head /\ IsSuffix(t, s)
      BY <2>1, HeadFits, TailFits
    <2> HIDE DEF h, t, p
    <2>4. p.head = h /\ p.omitted = bytes(s) - bytes(h) - bytes(t) /\ p.tail = t
      BY <2>2
    <2>5. /\ bytes(h) + (bytes(s) - bytes(h) - bytes(t)) + bytes(t) = bytes(s)
          /\ bytes(h) + bytes(t) <= max /\ bytes(s) > max
      BY <1>0, <1>2, <2>1, <2>3
    <2>6. PreviewOf(p, s, max)
      BY <2>3, <2>4, <2>5 DEF PreviewOf
    <2> QED BY <2>6 DEF p
  <1> QED BY <1>1, <1>2

(* A session that is named anywhere is kept, and no blank one.             *)
LEMMA SessionNamed ==
    ASSUME NEW headers, NEW body,
           \A h \in DOMAIN headers : headers[h] # None,
           DOMAIN body \subseteq {"dsh_session", "prompt_cache_key", "dsh_parent"},
           \A k \in DOMAIN body : body[k] # None
    PROVE  LET sid == Or(header_meta(headers).session, body_session_meta(body).session)
               named == {headers[h] : h \in DOMAIN headers \intersect Range(SESSION_ID_HEADERS)}
                        \union {body[k] : k \in DOMAIN body \ {"dsh_parent"}}
           IN  sid \in named \ {""} \/ (sid = None /\ named \subseteq {""})
  <1> DEFINE names == SESSION_ID_HEADERS
             a == header_meta(headers).session
             b == body_session_meta(body).session
             of == {headers[h] : h \in DOMAIN headers \intersect Range(names)}
             in == {body[k] : k \in DOMAIN body \ {"dsh_parent"}}
             hits == {i \in DOMAIN names : Get(headers, names[i]) \notin {None, ""}}
  <1>1. a = IF hits = {} THEN None ELSE headers[names[Min(hits)]]
    BY DEF header_meta, first_header
  <1>2. DOMAIN names \subseteq Nat /\ Range(names) = {names[i] : i \in DOMAIN names}
    BY DEF SESSION_ID_HEADERS, Range
  <1>3. hits # {} => a \in of \ {None, ""}
    <2> SUFFICES ASSUME hits # {} PROVE a \in of \ {None, ""}
      OBVIOUS
    <2>1. hits \subseteq Nat
      BY <1>2
    <2> DEFINE m == Min(hits)
    <2>2. m \in hits
      <3> HIDE DEF hits
      <3> QED BY <2>1, MinOf
    <2>3. names[m] \in DOMAIN headers /\ headers[names[m]] \notin {None, ""}
          /\ names[m] \in Range(names)
      BY <1>2, <2>2 DEF Get
    <2>4. a = headers[names[m]]
      BY <1>1
    <2> HIDE DEF m, a, names
    <2> QED BY <2>3, <2>4
  <1>4. hits = {} => a = None /\ of \subseteq {""}
    <2> SUFFICES ASSUME hits = {} PROVE a = None /\ of \subseteq {""}
      OBVIOUS
    <2>1. ASSUME NEW h \in DOMAIN headers \intersect Range(names) PROVE headers[h] = ""
      <3>1. PICK i \in DOMAIN names : h = names[i]
        BY <1>2
      <3>2. Get(headers, names[i]) \in {None, ""}
        BY <3>1
      <3> QED BY <3>1, <3>2 DEF Get
    <2> QED BY <1>1, <2>1
  <1>5. b = Or(pick_str(body, "dsh_session"), pick_str(body, "prompt_cache_key"))
    BY DEF body_session_meta
  <1>6. b # None => b \in in \ {None, ""}
    BY <1>5 DEF Or, pick_str, Get, None
  <1>7. b = None => in \subseteq {""}
    <2> SUFFICES ASSUME b = None, NEW k \in DOMAIN body \ {"dsh_parent"} PROVE body[k] = ""
      OBVIOUS
    <2>1. k = "dsh_session" \/ k = "prompt_cache_key"
      OBVIOUS
    <2>2. pick_str(body, "dsh_session") = None /\ pick_str(body, "prompt_cache_key") = None
      BY <1>5 DEF Or
    <2> QED BY <2>1, <2>2 DEF pick_str, Get, None
  <1> HIDE DEF a, b, of, in, hits
  <1>8. LET sid == Or(a, b)
        IN  sid \in (of \union in) \ {""} \/ (sid = None /\ of \union in \subseteq {""})
    BY <1>3, <1>4, <1>6, <1>7 DEF Or
  <1> QED BY <1>8 DEF a, b, of, in

(* The greatest of a set of places, told by what it is.                    *)
LEMMA MaxIs ==
    ASSUME NEW N \in Nat, NEW S, S \subseteq 0..N, NEW m \in S, \A y \in S : m >= y
    PROVE  Max(S) = m
  <1> DEFINE k == Max(S)
  <1>1. k \in S /\ \A y \in S : k >= y
    BY MaxOf
  <1> HIDE DEF k
  <1>2. k \in Nat /\ m \in Nat
    BY <1>1
  <1>3. k >= m /\ m >= k
    BY <1>1
  <1>4. k = m
    BY <1>2, <1>3
  <1> QED BY <1>4 DEF k

(* What is asked and what is said last, for each way to extract it.        *)
LEMMA ExtractsAre ==
    ASSUME NEW x, IsProper(x)
    PROVE  LET msgs == x.msgs
               asks == {i \in DOMAIN msgs : msgs[i].role = "user" /\ msgs[i].text # <<>>}
           IN  /\ asks \subseteq 0..Len(msgs)
               /\ \E asked, counts :
                     /\ extract_request(x) = Summary(asked, Last(msgs).text, counts)
                     /\ asks # {} => asked = msgs[Max(asks)].text
  <1> DEFINE msgs == x.msgs
             N == Len(msgs)
             asks == {i \in DOMAIN msgs : msgs[i].role = "user" /\ msgs[i].text # <<>>}
             users == UserTurns(msgs)
             last == msgs[N].text
  <1>1. N \in Nat /\ N >= 1 /\ DOMAIN msgs = 1..N /\ N \in 1..N
    BY DEF IsProper
  <1>2. Last(msgs) = msgs[N] /\ last # <<>> /\ ~IsSystem(msgs[N])
    BY DEF IsProper, Last
  <1>3. asks = users \cap Worded(msgs) /\ users \subseteq 0..N /\ asks \subseteq 0..N
    BY <1>1 DEF UserTurns, Worded
  <1>4. LastText(msgs, DOMAIN msgs) = last
    <2> DEFINE S == DOMAIN msgs
    <2>1. S \subseteq 0..N /\ N \in S /\ \A i \in S : N >= i
      BY <1>1
    <2> HIDE DEF S
    <2>2. Max(S) = N
      BY <1>1, <2>1, MaxIs
    <2>3. LastText(msgs, S) = last
      BY <2>1, <2>2 DEF LastText
    <2> QED BY <2>3 DEF S
  <1>5. LastText(msgs, Worded(msgs)) = last
    <2>1. N \in Worded(msgs) /\ Worded(msgs) \subseteq 0..N /\ \A i \in Worded(msgs) : N >= i
      BY <1>1, <1>2 DEF Worded
    <2>2. Max(Worded(msgs)) = N
      BY <1>1, <2>1, MaxIs
    <2> QED BY <2>1, <2>2 DEF LastText
  <1>6. LastText(msgs, Turns(msgs) \cap Worded(msgs)) = last
    <2> DEFINE S == Turns(msgs) \cap Worded(msgs)
    <2>1. N \in S /\ S \subseteq 0..N /\ \A i \in S : N >= i
      BY <1>1, <1>2 DEF Worded, Turns
    <2> HIDE DEF S
    <2>2. Max(S) = N
      BY <1>1, <2>1, MaxIs
    <2>3. LastText(msgs, S) = last
      BY <2>1, <2>2 DEF LastText
    <2> QED BY <2>3 DEF S
  <1>7. asks # {} => LastText(msgs, users) = msgs[Max(asks)].text
    <2> SUFFICES ASSUME asks # {} PROVE LastText(msgs, users) = msgs[Max(asks)].text
      OBVIOUS
    <2>1. users # {} /\ asks \subseteq users
      BY <1>3
    <2> DEFINE m == Max(users)
    <2>2. m \in users /\ \A i \in users : m >= i
      BY <1>1, <1>3, <2>1, MaxOf
    <2>3. msgs[m].text # <<>>
      <3> SUFFICES ASSUME msgs[m].text = <<>> PROVE FALSE
        OBVIOUS
      <3>1. PICK j \in users : j > m
        BY <2>2 DEF IsProper
      <3> QED BY <1>3, <2>2, <3>1
    <2>4. m \in asks
      BY <1>3, <2>2, <2>3 DEF Worded, UserTurns
    <2>5. Max(asks) = m
      BY <1>1, <1>3, <2>1, <2>2, <2>4, MaxIs
    <2> QED BY <2>1, <2>5 DEF LastText
  <1>8. asks # {} => LastText(msgs, users \cap Worded(msgs)) = msgs[Max(asks)].text
    BY <1>3 DEF LastText
  <1> DEFINE q == extract_request(x)
             one == {"chat", "responses", "anthropic"}
  <1>9. CASE x.type = "chat"
    <2>1. q = chat_extract(msgs)
      BY <1>9 DEF extract_request
    <2>2. \E counts : q = Summary(LastText(msgs, users), LastText(msgs, DOMAIN msgs), counts)
      BY <2>1, Zenon DEF chat_extract
    <2> HIDE DEF q, asks, users, last
    <2> QED BY <1>2, <1>3, <1>4, <1>7, <2>2 DEF q, asks, last
  <1>10. CASE x.type = "responses"
    <2>1. q = responses_input_extract(msgs)
      BY <1>10 DEF extract_request
    <2>2. \E counts : q = Summary(LastText(msgs, users \cap Worded(msgs)),
                                  LastText(msgs, Worded(msgs)), counts)
      BY <2>1, Zenon DEF responses_input_extract
    <2> HIDE DEF q, asks, users, last
    <2> QED BY <1>2, <1>3, <1>5, <1>8, <2>2 DEF q, asks, last
  <1>11. CASE x.type = "anthropic"
    <2>1. q = anthropic_extract(msgs)
      BY <1>11 DEF extract_request
    <2>2. \E counts : q = Summary(LastText(msgs, users \cap Worded(msgs)),
                                  LastText(msgs, Turns(msgs) \cap Worded(msgs)), counts)
      BY <2>1, Zenon DEF anthropic_extract
    <2> HIDE DEF q, asks, users, last
    <2> QED BY <1>2, <1>3, <1>6, <1>8, <2>2 DEF q, asks, last
  <1>12. CASE x.type \notin one
    <2>1. q = value_prompt(msgs) \/ q = responses_text_extract(msgs)
      BY <1>12 DEF extract_request
    <2>2. \E counts : q = Summary(LastText(msgs, DOMAIN msgs), LastText(msgs, DOMAIN msgs), counts)
      BY <2>1, Zenon DEF value_prompt, responses_text_extract
    <2>3. N = 1
      BY <1>12 DEF IsProper
    <2>4. asks # {} => last = msgs[Max(asks)].text
      <3> SUFFICES ASSUME asks # {} PROVE last = msgs[Max(asks)].text
        OBVIOUS
      <3>1. 1 \in asks /\ \A i \in asks : 1 >= i
        BY <1>1, <2>3
      <3>2. Max(asks) = 1
        BY <1>1, <1>3, <3>1, MaxIs
      <3> QED BY <2>3, <3>2
    <2> HIDE DEF q, asks, users, last
    <2> QED BY <1>2, <1>3, <1>4, <2>2, <2>4 DEF q, asks, last
  <1> QED BY <1>9, <1>10, <1>11, <1>12

LEMMA ExtractIsFaithful ==
    ASSUME NEW x, IsProper(x)
    PROVE  Faithful(x, BuildRecord(x))
  <1> DEFINE msgs == x.msgs
             asks == {i \in DOMAIN msgs : msgs[i].role = "user" /\ msgs[i].text # <<>>}
             r == BuildRecord(x)
             sid == Or(header_meta(x.headers).session, body_session_meta(x.body).session)
  <1>1. PICK asked, counts :
           /\ extract_request(x) = Summary(asked, Last(msgs).text, counts)
           /\ asks # {} => asked = msgs[Max(asks)].text
    BY ExtractsAre
  <1>2. r.request = extract_request(x) /\ r.session = sid
    BY DEF BuildRecord
  <1>3. /\ r.request.prompt = truncate_head(asked, PROMPT_MAX)
        /\ r.request.prompt_bytes = bytes(asked)
        /\ r.request.tail = truncate_head_tail(Last(msgs).text, TEXT_MAX)
    BY <1>1, <1>2 DEF Summary
  <1>4. /\ \A i \in DOMAIN msgs : msgs[i].text \in Seq(Nat)
        /\ Last(msgs).text \in Seq(Nat)
        /\ PROMPT_MAX \in Nat /\ TEXT_MAX \in Nat
    <2>1. msgs \in Seq(Message) /\ msgs # <<>>
      BY DEF IsProper
    <2>2. \A i \in DOMAIN msgs : msgs[i] \in Message
      BY <2>1
    <2>3. Last(msgs) \in Message
      BY <2>1 DEF Last
    <2> QED BY <2>2, <2>3, LimitsAssumption DEF Message
  <1>5. asks # {} => /\ PreviewOf(r.request.prompt, msgs[Max(asks)].text, PROMPT_MAX)
                     /\ r.request.prompt_bytes = bytes(msgs[Max(asks)].text)
    <2> SUFFICES ASSUME asks # {}
                 PROVE  /\ PreviewOf(r.request.prompt, msgs[Max(asks)].text, PROMPT_MAX)
                        /\ r.request.prompt_bytes = bytes(msgs[Max(asks)].text)
      OBVIOUS
    <2>1. Max(asks) \in asks
      <3>1. Len(msgs) \in Nat /\ asks \subseteq 0..Len(msgs)
        BY ExtractsAre DEF IsProper
      <3> HIDE DEF asks
      <3> QED BY <3>1, MaxOf
    <2>2. asked \in Seq(Nat) /\ asked = msgs[Max(asks)].text
      BY <1>1, <1>4, <2>1
    <2> HIDE DEF asks
    <2> QED BY <1>3, <1>4, <2>2, HeadIsPreview
  <1>6. PreviewOf(r.request.tail, Last(msgs).text, TEXT_MAX)
    BY <1>3, <1>4, EndsArePreview
  <1> DEFINE named ==
                 {x.headers[h] : h \in DOMAIN x.headers \intersect Range(SESSION_ID_HEADERS)}
                 \union {x.body[k] : k \in DOMAIN x.body \ {"dsh_parent"}}
  <1>7. sid \in named \ {""} \/ (sid = None /\ named \subseteq {""})
    <2> HIDE DEF sid
    <2> QED BY SessionNamed DEF IsProper, sid
  <1> HIDE DEF sid, named
  <1>8. r.session \in named \ {""} \/ (r.session = None /\ named \subseteq {""})
    BY <1>2, <1>7
  <1> HIDE DEF r
  <1> QED BY <1>5, <1>6, <1>8 DEF Faithful, named, r

(* What is stored of an exchange is true of it, for any text and any       *)
(* limits: each preview is the two ends of its text and the number of the  *)
(* bytes between them, the prompt is what the user said last, and a        *)
(* session that a header or a field names is not lost.                     *)
THEOREM SummariesAreFaithful ==
    ASSUME ExchangesProper
    PROVE  Spec => []SummaryFaithful
  <1>1. FilesFit => SummaryFaithful
    <2> SUFFICES ASSUME FilesFit, NEW f \in DOMAIN files, NEW row \in Range(files[f])
                 PROVE  <<row.conv, row.turn>> \in FaithfulTurns
      BY DEF SummaryFaithful
    <2>1. row \in Rows
      BY FilesAre DEF Range
    <2> DEFINE c == row.conv
               k == row.turn
    <2>2. c \in DOMAIN Conversations /\ k \in DOMAIN Conversations[c]
      BY <2>1, RowsAre
    <2>3. Columns[c][k] = BuildRecord(Conversations[c][k])
      BY <2>2 DEF Columns
    <2>4. IsProper(Conversations[c][k])
      BY <2>2 DEF ExchangesProper
    <2>5. Faithful(Conversations[c][k], Columns[c][k])
      BY <2>3, <2>4, ExtractIsFaithful
    <2> HIDE DEF c, k
    <2>6. <<c, k>> \in FaithfulTurns
      BY <2>2, <2>5 DEF FaithfulTurns
    <2> QED BY <2>6 DEF c, k
  <1>2. Init => FilesFit
    BY PagesStart DEF PagesInv
  <1> QED BY <1>1, <1>2, FilesStep, PTL DEF Spec
=============================================================================
