--------------------------- MODULE BlockNetProofs ---------------------------
(***************************************************************************)
(* Theorems about the disk over HTTP, for any geometry, cache, prefetch    *)
(* and requests.                                                           *)
(***************************************************************************)
EXTENDS BlockNet, NaturalsInduction, WellFoundedInduction, SequenceTheorems, TLAPS

-----------------------------------------------------------------------------
(* Induction, and the loops of the code, which the model has as folds.     *)

Less == {ss \in Nat \X Nat : ss[1] < ss[2]}

\* The numbers are well ordered.
LEMMA LessIsWellFounded ==
  IsWellFoundedOn(Less, Nat)
BY NatLessThanWellFounded DEF OpToRel, Less

\* Induction, for a set of numbers.
LEMMA SetInduction ==
  ASSUME NEW T, 0 \in T, \A n \in Nat : n \in T => n + 1 \in T
  PROVE  Nat \subseteq T
<1> DEFINE U == Nat \ T
<1>1. SUFFICES ASSUME U # {} PROVE FALSE
  OBVIOUS
<1>2. U \subseteq Nat
  OBVIOUS
<1> HIDE DEF U
<1>3. PICK x \in U : \A y \in U : ~(<<y, x>> \in Less)
  BY <1>1, <1>2, LessIsWellFounded, WFMin
<1>4. x \in Nat /\ x # 0 /\ x \notin T
  BY <1>2 DEF U
<1>5. x - 1 \in Nat /\ (x - 1) + 1 = x
  BY <1>4
<1>6. x - 1 \in U
  BY <1>4, <1>5 DEF U
<1>7. <<x - 1, x>> \in Less
  BY <1>5, <1>4 DEF Less
<1>8. QED
  BY <1>3, <1>6, <1>7

\* A set of numbers up to n has a greatest and a least.
LEMMA Extremes ==
  ASSUME NEW n \in Nat, NEW s0 \in SUBSET (1 .. n), s0 # {}
  PROVE  /\ Max(s0) \in s0 /\ \A y \in s0 : y <= Max(s0)
         /\ Min(s0) \in s0 /\ \A y \in s0 : Min(s0) <= y
<1> DEFINE Greatest(m) == \A r \in SUBSET (1 .. m) : r # {} => \E x \in r : \A y \in r : x >= y
           Least(m) == \A r \in SUBSET (1 .. m) : r # {} => \E x \in r : \A y \in r : x <= y
           T == {m \in Nat : Greatest(m) /\ Least(m)}
<1>1. 0 \in T
  <2>1. \A r \in SUBSET (1 .. 0) : r = {}
    OBVIOUS
  <2>2. QED
    BY <2>1
<1>2. ASSUME NEW m \in Nat, m \in T
      PROVE  m + 1 \in T
  <2>1. ASSUME NEW r \in SUBSET (1 .. m + 1), r # {}
        PROVE  (\E x \in r : \A y \in r : x >= y) /\ (\E x \in r : \A y \in r : x <= y)
    <3>1. CASE r = {m + 1}
      BY <3>1
    <3>2. CASE m + 1 \notin r
      <4>1. r \in SUBSET (1 .. m)
        BY <3>2
      <4>2. QED
        BY <1>2, <2>1, <4>1
    <3>3. CASE m + 1 \in r /\ r # {m + 1}
      <4>1. r \ {m + 1} \in SUBSET (1 .. m) /\ r \ {m + 1} # {}
        BY <3>3, <2>1
      <4>2. PICK x \in r \ {m + 1} : \A y \in r \ {m + 1} : x <= y
        BY <1>2, <4>1
      <4>3. x <= m + 1 /\ \A y \in r : m + 1 >= y
        BY <4>1, <4>2
      <4>4. QED
        BY <3>3, <4>2, <4>3
    <3>4. QED
      BY <2>1, <3>1, <3>2, <3>3
  <2>2. QED
    BY <2>1
<1> HIDE DEF T
<1>3. Nat \subseteq T
  BY <1>1, <1>2, SetInduction
<1>4. (\E x \in s0 : \A y \in s0 : x >= y) /\ (\E x \in s0 : \A y \in s0 : x <= y)
  BY <1>3 DEF T
<1>5. /\ Max(s0) \in s0 /\ \A y \in s0 : Max(s0) >= y
      /\ Min(s0) \in s0 /\ \A y \in s0 : Min(s0) <= y
  BY <1>4 DEF Max, Min
<1>6. QED
  BY <1>5

\* One turn of a loop over a sequence: loop says which, t is what it has come to.
Do(loop, t, x) ==
  CASE loop = "free" -> KeepOrFree(t, x)
    [] loop = "group" -> PrefetchTurn(t, x)
    [] loop = "prefetch" -> StartPrefetch(t, x)
    [] loop = "rw" -> RwTurn(t)

\* What the loop has come to after the turns of a set of places.
LoopOver(f, loop, base, q, n) ==
  f = [S \in SUBSET (1 .. n) |-> IF S = {} THEN base ELSE Do(loop, f[S \ {Max(S)}], q[Max(S)])]

\* There is such a function.
LEMMA LoopExists ==
  ASSUME NEW loop, NEW base, NEW q, NEW n \in Nat
  PROVE  \E f : LoopOver(f, loop, base, q, n)
<1> DEFINE T == {m \in Nat : \E f : LoopOver(f, loop, base, q, m)}
<1>1. 0 \in T
  <2> DEFINE f == [S \in SUBSET (1 .. 0) |-> base]
  <2>1. \A S \in SUBSET (1 .. 0) : S = {}
    OBVIOUS
  <2>2. f = [S \in SUBSET (1 .. 0) |->
               IF S = {} THEN base ELSE Do(loop, f[S \ {Max(S)}], q[Max(S)])]
    BY <2>1
  <2> HIDE DEF f
  <2>3. QED
    BY <2>2 DEF LoopOver
<1>2. ASSUME NEW m \in Nat, m \in T
      PROVE  m + 1 \in T
  <2>1. PICK f : LoopOver(f, loop, base, q, m)
    BY <1>2
  <2> DEFINE A == SUBSET (1 .. m)
             B == SUBSET (1 .. m + 1)
             g == [S \in B |-> IF m + 1 \in S THEN Do(loop, f[S \ {m + 1}], q[m + 1]) ELSE f[S]]
  <2>2. ASSUME NEW S \in B
        PROVE  g[S] = IF S = {} THEN base ELSE Do(loop, g[S \ {Max(S)}], q[Max(S)])
    <3>1. CASE m + 1 \in S
      <4>1. Max(S) = m + 1
        <5>1. S # {} /\ m + 1 \in Nat /\ S \in SUBSET (1 .. m + 1)
          BY <3>1
        <5>2. \A k \in Nat : S \in SUBSET (1 .. k) => Max(S) \in S /\ \A y \in S : y <= Max(S)
          BY <5>1, Extremes
        <5>3. Max(S) \in S /\ \A y \in S : y <= Max(S)
          BY <5>1, <5>2
        <5>4. \A y \in S : y \in Nat /\ y <= m + 1
          BY <5>1
        <5>5. Max(S) \in Nat /\ Max(S) <= m + 1
          BY <5>3, <5>4
        <5>6. m + 1 <= Max(S)
          BY <3>1, <5>3
        <5>7. QED
          BY <5>5, <5>6
      <4>2. S \ {m + 1} \in B /\ m + 1 \notin S \ {m + 1}
        OBVIOUS
      <4>3. g[S \ {m + 1}] = f[S \ {m + 1}]
        BY <4>2
      <4>4. g[S] = Do(loop, f[S \ {m + 1}], q[m + 1])
        BY <3>1
      <4> HIDE DEF g
      <4>5. QED
        BY <3>1, <4>1, <4>3, <4>4
    <3>2. CASE m + 1 \notin S
      <4>1. S \in A
        BY <3>2
      <4>2. g[S] = f[S]
        BY <3>2
      <4>3. f[S] = IF S = {} THEN base ELSE Do(loop, f[S \ {Max(S)}], q[Max(S)])
        BY <2>1, <4>1 DEF LoopOver
      <4>4. S \ {Max(S)} \in B /\ m + 1 \notin S \ {Max(S)}
        BY <3>2
      <4>5. g[S \ {Max(S)}] = f[S \ {Max(S)}]
        BY <4>4
      <4> HIDE DEF g
      <4>6. QED
        BY <4>2, <4>3, <4>5
    <3>3. QED
      BY <3>1, <3>2
  <2>3. g = [S \in B |-> g[S]]
    OBVIOUS
  <2> HIDE DEF g
  <2>4. g = [S \in B |-> IF S = {} THEN base ELSE Do(loop, g[S \ {Max(S)}], q[Max(S)])]
    BY <2>2, <2>3
  <2>5. LoopOver(g, loop, base, q, m + 1)
    BY <2>4 DEF LoopOver
  <2>6. \E h : LoopOver(h, loop, base, q, m + 1)
    BY <2>5
  <2>7. QED
    BY <2>6
<1> HIDE DEF T
<1>3. Nat \subseteq T
  BY <1>1, <1>2, SetInduction
<1>4. QED
  BY <1>3 DEF T

\* Turn by turn.
LEMMA LoopTurns ==
  ASSUME NEW loop, NEW base, NEW q, NEW n \in Nat, NEW f, LoopOver(f, loop, base, q, n)
  PROVE  /\ f[1 .. 0] = base
         /\ \A i \in 1 .. n : f[1 .. i] = Do(loop, f[1 .. i - 1], q[i])
<1>1. 1 .. 0 \in SUBSET (1 .. n) /\ 1 .. 0 = {}
  OBVIOUS
<1>2. f[1 .. 0] = base
  BY <1>1 DEF LoopOver
<1>3. ASSUME NEW i \in 1 .. n
      PROVE  f[1 .. i] = Do(loop, f[1 .. i - 1], q[i])
  <2>1. 1 .. i \in SUBSET (1 .. n) /\ 1 .. i # {} /\ i \in 1 .. i
    OBVIOUS
  <2>2. Max(1 .. i) = i
    <3>1. Max(1 .. i) \in 1 .. i /\ \A y \in 1 .. i : y <= Max(1 .. i)
      BY <2>1, Extremes
    <3>2. QED
      BY <2>1, <3>1
  <2>3. (1 .. i) \ {i} = 1 .. i - 1
    OBVIOUS
  <2>4. QED
    BY <2>1, <2>2, <2>3 DEF LoopOver
<1>4. QED
  BY <1>2, <1>3


\* What a loop comes to turn by turn.
Course(h, loop, base, q, n) ==
  h[0] = base /\ \A i \in 1 .. n : h[i] = Do(loop, h[i - 1], q[i])

LEMMA LoopCourse ==
  ASSUME NEW loop, NEW base, NEW q, NEW n \in Nat, NEW f, LoopOver(f, loop, base, q, n)
  PROVE  \E h : Course(h, loop, base, q, n) /\ h[n] = f[1 .. n]
<1>0. f[1 .. 0] = base
  <2>1. {} \in SUBSET (1 .. n) /\ 1 .. 0 = {}
    OBVIOUS
  <2>2. f[{}] = base
    BY <2>1 DEF LoopOver
  <2>3. QED
    BY <2>1, <2>2
<1> DEFINE h == [i \in 0 .. n |-> f[1 .. i]]
<1>1. h[0] = base /\ h[n] = f[1 .. n]
  BY <1>0
<1>2. ASSUME NEW i \in 1 .. n
      PROVE  h[i] = Do(loop, h[i - 1], q[i])
  <2>1. h[i] = f[1 .. i] /\ h[i - 1] = f[1 .. i - 1]
    OBVIOUS
  <2>2. f[1 .. i] = Do(loop, f[1 .. i - 1], q[i])
    BY LoopTurns
  <2> HIDE DEF h
  <2>3. QED
    BY <2>1, <2>2
<1> HIDE DEF h
<1>3. QED
  BY <1>1, <1>2 DEF Course

-----------------------------------------------------------------------------
(* Sectors, clusters and blocks.                                           *)

LEMMA DivMod ==
  ASSUME NEW s \in Nat, NEW c \in Nat \ {0}
  PROVE  /\ s \div c \in Nat /\ s % c \in 0 .. c - 1
         /\ s = c * (s \div c) + (s % c)
  OBVIOUS

LEMMA DivModUnique ==
  ASSUME NEW c \in Nat \ {0}, NEW q \in Nat, NEW k \in 0 .. c - 1
  PROVE  (c * q + k) \div c = q /\ (c * q + k) % c = k
<1> DEFINE s == c * q + k
<1>0. s \in Nat
  OBVIOUS
<1> HIDE DEF s
<1>1. s \div c \in Nat /\ s % c \in 0 .. c - 1 /\ s = c * (s \div c) + (s % c)
  BY <1>0, DivMod
<1> DEFINE p == s \div c
           j == s % c
<1>2. p \in Nat /\ j \in 0 .. c - 1 /\ s = c * p + j
  BY <1>1
<1>3. c * q + k = c * p + j
  BY <1>2 DEF s
<1> HIDE DEF p, j
<1>4. p = q
  BY <1>2, <1>3
<1>5. j = k
  BY <1>2, <1>3, <1>4
<1>6. QED
  BY <1>4, <1>5 DEF s, p, j

\* Where a sector lies.
LEMMA Geometry ==
  ASSUME NEW s \in NetSector
  PROVE  /\ s \in Nat /\ s < NbBlocks * SectorsPerBlock
         /\ s \div SectorsPerCluster \in Cluster
         /\ s % SectorsPerCluster \in 0 .. SectorsPerCluster - 1
         /\ s = SectorsPerCluster * (s \div SectorsPerCluster) + (s % SectorsPerCluster)
         /\ s \div SectorsPerBlock \in Block
         /\ s % SectorsPerBlock \in 0 .. SectorsPerBlock - 1
         /\ s = SectorsPerBlock * (s \div SectorsPerBlock) + (s % SectorsPerBlock)
<1> DEFINE c == SectorsPerCluster
           b == SectorsPerBlock
           n == NbBlocks
           k == b \div c
           p == s \div c
           q == s \div b
<1>1. c \in Nat \ {0} /\ b \in Nat \ {0} /\ n \in Nat /\ b % c = 0
  BY GeometryAssumption
<1>2. b = c * k /\ k \in Nat
  <2>1. b \div c \in Nat /\ b = c * (b \div c) + (b % c)
    BY <1>1, DivMod
  <2>2. QED
    BY <1>1, <2>1
<1>3. s \in Nat /\ s < n * b
  <2>1. n * b \in Nat
    BY <1>1
  <2>2. QED
    BY <2>1 DEF NetSector
<1>4. p \in Nat /\ s % c \in 0 .. c - 1 /\ s = c * p + (s % c)
  BY <1>1, <1>3, DivMod
<1>5. q \in Nat /\ s % b \in 0 .. b - 1 /\ s = b * q + (s % b)
  BY <1>1, <1>3, DivMod
<1>6. p < n * k
  <2> HIDE DEF p, k, c, b, n
  <2>1. n * b = c * (n * k)
    BY <1>1, <1>2
  <2> DEFINE m == n * k
  <2>2. m \in Nat /\ c * p < c * m
    BY <1>1, <1>2, <1>3, <1>4, <2>1
  <2> HIDE DEF m
  <2>3. p < m
    BY <2>2, <1>1, <1>4
  <2>4. QED
    BY <2>3 DEF m
<1>7. q < n
  <2> HIDE DEF q, b, n
  <2>1. b * q < b * n
    BY <1>1, <1>3, <1>5
  <2>2. QED
    BY <2>1, <1>1, <1>5
<1>8. n * k \in Nat
  BY <1>1, <1>2
<1>9. p \in Cluster
  BY <1>4, <1>6, <1>8 DEF Cluster
<1>10. q \in Block
  BY <1>1, <1>5, <1>7 DEF Block
<1>11. QED
  BY <1>3, <1>4, <1>5, <1>9, <1>10

\* A cluster lies within a block.
LEMMA ClusterWithinBlock ==
  ASSUME NEW s \in NetSector
  PROVE  LET c == s \div SectorsPerCluster
             offset == (c * SectorsPerCluster) % SectorsPerBlock
         IN  /\ offset \in Nat /\ offset + SectorsPerCluster <= SectorsPerBlock
             /\ (s \div SectorsPerBlock) * SectorsPerBlock + offset = c * SectorsPerCluster
<1> DEFINE c == SectorsPerCluster
           b == SectorsPerBlock
           k == b \div c
           p == s \div c
           q == s \div b
           i == s % c
           j == s % b
           u == p - k * q
<1>1. c \in Nat \ {0} /\ b \in Nat \ {0} /\ b % c = 0
  BY GeometryAssumption
<1>2. b = c * k /\ k \in Nat
  <2>1. b \div c \in Nat /\ b = c * (b \div c) + (b % c)
    BY <1>1, DivMod
  <2>2. QED
    BY <1>1, <2>1
<1>3. /\ p \in Nat /\ i \in 0 .. c - 1 /\ s = c * p + i
      /\ q \in Nat /\ j \in 0 .. b - 1 /\ s = b * q + j
  BY Geometry DEF Cluster, Block
<1> HIDE DEF c, b, k, p, q, i, j
<1>4. u \in Int /\ c * p = b * q + c * u
  BY <1>1, <1>2, <1>3
<1> HIDE DEF u
<1>5. c * u = j - i
  <2> DEFINE x == c * p
             y == b * q
             z == c * u
  <2>1. x \in Int /\ y \in Int /\ z \in Int
    BY <1>1, <1>3, <1>4
  <2>2. x = y + z /\ x + i = y + j /\ i \in Int /\ j \in Int
    BY <1>3, <1>4
  <2> HIDE DEF x, y, z
  <2>3. z = j - i
    BY <2>1, <2>2
  <2>4. QED
    BY <2>3 DEF z
<1>6. u >= 0
  <2>1. c * u > 0 - c
    BY <1>5, <1>3, <1>1
  <2>2. QED
    BY <2>1, <1>1, <1>4
<1>7. u <= k - 1
  <2>1. c * u < c * k
    BY <1>5, <1>3, <1>2
  <2>2. QED
    BY <2>1, <1>1, <1>2, <1>4
<1>8. c * u \in Nat /\ c * u + c <= b
  <2>1. c * u <= c * (k - 1)
    BY <1>7, <1>6, <1>4, <1>1, <1>2
  <2>2. c * (k - 1) = b - c
    BY <1>1, <1>2
  <2>3. QED
    BY <2>1, <2>2, <1>6, <1>4, <1>1
<1>9. c * u \in 0 .. b - 1
  BY <1>8, <1>1
<1>10. (b * q + c * u) % b = c * u
  BY <1>9, <1>1, <1>3, DivModUnique
<1>11. p * c = b * q + c * u /\ q * b = b * q
  BY <1>4, <1>1, <1>3
<1>12. (p * c) % b = c * u
  BY <1>10, <1>11
<1>13. QED
  BY <1>8, <1>11, <1>12 DEF c, b, p, q

-----------------------------------------------------------------------------
(* The cache of blocks.                                                    *)

\* What the cache holds: a block that has been loaded has its part of the image.
Cached ==
  {c \in [block_num : Block, state : {"LOADING", "LOADED"},
          data : {<<>>} \cup {BlockImage(b) : b \in Block}] :
     c.state = "LOADED" => c.data = BlockImage(c.block_num)}

\* No block is there twice.
IsCache(q) ==
  /\ q \in Seq(Cached)
  /\ \A i, j \in DOMAIN q : q[i].block_num = q[j].block_num => i = j

Numbers(q) == {q[i].block_num : i \in DOMAIN q}
LoadingIn(q) == {q[i].block_num : i \in {j \in DOMAIN q : q[j].state = "LOADING"}}

Transfer == Seq([block_num : Block, wanted : BOOLEAN])
ClusterData == {<<>>} \cup [1 .. SectorsPerCluster -> NetData]
Device ==
  [cached_blocks : Seq(Cached), transfers : SUBSET Transfer,
   cur_block_num : Block \cup {NoBlock}, clusters : [Cluster -> ClusterData],
   aborted : BOOLEAN]

\* A sequence with one element moved to the front.
LEMMA MovedToFront ==
  ASSUME NEW S, NEW q \in Seq(S), NEW i \in 1 .. Len(q)
  PROVE  LET m == <<q[i]>> \o RemoveAt(q, i)
         IN  /\ m \in Seq(S) /\ Len(m) = Len(q)
             /\ \A k \in 1 .. Len(q) :
                  m[k] = q[IF k = 1 THEN i ELSE IF k <= i THEN k - 1 ELSE k]
<1> DEFINE a == SubSeq(q, 1, i - 1)
           b == SubSeq(q, i + 1, Len(q))
           m == <<q[i]>> \o (a \o b)
<1>1. /\ a \in Seq(S) /\ Len(a) = i - 1 /\ \A k \in 1 .. i - 1 : a[k] = q[k]
      /\ b \in Seq(S) /\ Len(b) = Len(q) - i /\ \A k \in 1 .. Len(q) - i : b[k] = q[i + k]
  <2>1. Len(q) \in Nat
    OBVIOUS
  <2>2. QED
    BY <2>1, SubSeqProperties
<1> HIDE DEF a, b
<1>2. /\ a \o b \in Seq(S) /\ Len(a \o b) = Len(q) - 1
      /\ \A k \in 1 .. Len(q) - 1 : (a \o b)[k] = IF k < i THEN q[k] ELSE q[k + 1]
  <2>1. /\ a \o b \in Seq(S) /\ Len(a \o b) = Len(a) + Len(b)
        /\ \A k \in 1 .. Len(a) + Len(b) : (a \o b)[k] = IF k <= Len(a) THEN a[k] ELSE b[k - Len(a)]
    BY <1>1, ConcatProperties
  <2>2. QED
    BY <1>1, <2>1
<1> DEFINE r == a \o b
<1> HIDE DEF r
<1>3. /\ <<q[i]>> \in Seq(S) /\ Len(<<q[i]>>) = 1 /\ <<q[i]>>[1] = q[i]
  OBVIOUS
<1>4. /\ <<q[i]>> \o r \in Seq(S) /\ Len(<<q[i]>> \o r) = 1 + Len(r)
      /\ \A k \in 1 .. 1 + Len(r) : (<<q[i]>> \o r)[k] = IF k <= 1 THEN <<q[i]>>[k] ELSE r[k - 1]
  BY <1>2, <1>3, ConcatProperties DEF r
<1>5. /\ Len(r) = Len(q) - 1 /\ \A k \in 1 .. Len(q) - 1 : r[k] = IF k < i THEN q[k] ELSE q[k + 1]
  BY <1>2 DEF r
<1>6. /\ <<q[i]>> \o r \in Seq(S) /\ Len(<<q[i]>> \o r) = Len(q)
      /\ \A k \in 1 .. Len(q) :
           (<<q[i]>> \o r)[k] = q[IF k = 1 THEN i ELSE IF k <= i THEN k - 1 ELSE k]
  BY <1>3, <1>4, <1>5
<1>7. RemoveAt(q, i) = r
  BY DEF RemoveAt, r, a, b
<1>8. QED
  BY <1>6, <1>7

LEMMA FrontKeepsCache ==
  ASSUME NEW q, IsCache(q), NEW i \in 1 .. Len(q)
  PROVE  LET m == <<q[i]>> \o RemoveAt(q, i)
         IN  /\ IsCache(m) /\ Numbers(m) = Numbers(q) /\ LoadingIn(m) = LoadingIn(q)
             /\ m # <<>> /\ m[1] = q[i]
<1> DEFINE m == <<q[i]>> \o RemoveAt(q, i)
           At(k) == IF k = 1 THEN i ELSE IF k <= i THEN k - 1 ELSE k
           To(k) == IF k = i THEN 1 ELSE IF k < i THEN k + 1 ELSE k
<1>1. q \in Seq(Cached) /\ Len(q) \in Nat /\ DOMAIN q = 1 .. Len(q)
  BY DEF IsCache
<1>2. /\ m \in Seq(Cached) /\ Len(m) = Len(q)
      /\ \A k \in 1 .. Len(q) : m[k] = q[At(k)]
  BY <1>1, MovedToFront
<1>3. DOMAIN m = 1 .. Len(q)
  BY <1>2
<1> HIDE DEF m
<1>4. \A k \in 1 .. Len(q) : /\ At(k) \in 1 .. Len(q) /\ To(k) \in 1 .. Len(q)
                             /\ At(To(k)) = k /\ To(At(k)) = k
  BY <1>1
<1>5. \A k \in 1 .. Len(q) : m[To(k)] = q[k]
  BY <1>2, <1>4
<1>6. IsCache(m)
  <2> SUFFICES ASSUME NEW k \in DOMAIN m, NEW l \in DOMAIN m, m[k].block_num = m[l].block_num
               PROVE  k = l
    BY <1>2 DEF IsCache
  <2>1. q[At(k)].block_num = q[At(l)].block_num
    BY <1>2, <1>3
  <2>2. At(k) = At(l)
    BY <2>1, <1>1, <1>3, <1>4 DEF IsCache
  <2> HIDE DEF At, To
  <2>3. QED
    BY <2>2, <1>3, <1>4
<1> HIDE DEF At, To
<1>7. Numbers(m) = Numbers(q)
  <2>1. ASSUME NEW k \in DOMAIN m
        PROVE  \E j \in DOMAIN q : q[j].block_num = m[k].block_num
    <3>1. At(k) \in DOMAIN q /\ m[k] = q[At(k)]
      BY <1>1, <1>2, <1>3, <1>4
    <3>2. QED
      BY <3>1
  <2>2. ASSUME NEW k \in DOMAIN q
        PROVE  \E j \in DOMAIN m : m[j].block_num = q[k].block_num
    <3>1. To(k) \in DOMAIN m /\ m[To(k)] = q[k]
      BY <1>1, <1>3, <1>4, <1>5
    <3>2. QED
      BY <3>1
  <2>3. QED
    BY <2>1, <2>2 DEF Numbers
<1>8. LoadingIn(m) = LoadingIn(q)
  <2>1. ASSUME NEW k \in DOMAIN m, m[k].state = "LOADING"
        PROVE  \E j \in DOMAIN q : q[j].state = "LOADING" /\ q[j].block_num = m[k].block_num
    <3>1. At(k) \in DOMAIN q /\ m[k] = q[At(k)]
      BY <1>1, <1>2, <1>3, <1>4
    <3>2. QED
      BY <2>1, <3>1
  <2>2. ASSUME NEW k \in DOMAIN q, q[k].state = "LOADING"
        PROVE  \E j \in DOMAIN m : m[j].state = "LOADING" /\ m[j].block_num = q[k].block_num
    <3>1. To(k) \in DOMAIN m /\ m[To(k)] = q[k]
      BY <1>1, <1>3, <1>4, <1>5
    <3>2. QED
      BY <2>2, <3>1
  <2>3. QED
    BY <2>1, <2>2 DEF LoadingIn
<1>9. m # <<>> /\ m[1] = q[i]
  BY <1>1, <1>2 DEF At
<1>10. QED
  BY <1>6, <1>7, <1>8, <1>9 DEF m

\* bf_find_block changes the order of the cache only, and what it finds is in front.
LEMMA FindBlock ==
  ASSUME NEW d \in Device, IsCache(d.cached_blocks), NEW b \in Block
  PROVE  LET f == bf_find_block(d, b)
             q == f.cached_blocks
         IN  /\ f \in Device /\ f = [d EXCEPT !.cached_blocks = q]
             /\ IsCache(q) /\ Numbers(q) = Numbers(d.cached_blocks)
             /\ LoadingIn(q) = LoadingIn(d.cached_blocks)
             /\ HasBlock(d, b) => q # <<>> /\ q[1].block_num = b
<1> DEFINE blocks == d.cached_blocks
           I == {k \in 1 .. Len(blocks) : blocks[k].block_num = b}
           i == SelectInSeq(blocks, LAMBDA c : c.block_num = b)
           f == bf_find_block(d, b)
<1>1. blocks \in Seq(Cached) /\ Len(blocks) \in Nat /\ DOMAIN blocks = 1 .. Len(blocks)
  BY DEF IsCache
<1>2. i = IF I # {} THEN Min(I) ELSE 0
  BY DEF SelectInSeq
<1>3. CASE I = {}
  <2>1. i = 0
    BY <1>2, <1>3
  <2>2. f = d
    BY <2>1 DEF bf_find_block
  <2>3. ~HasBlock(d, b)
    BY <1>1, <1>3 DEF HasBlock
  <2>4. d = [d EXCEPT !.cached_blocks = d.cached_blocks]
    BY DEF Device
  <2>5. QED
    BY <2>2, <2>3, <2>4
<1>4. CASE I # {}
  <2>1. I \in SUBSET (1 .. Len(blocks))
    OBVIOUS
  <2>2. Min(I) \in I
    BY <1>1, <1>4, <2>1, Extremes
  <2>3. i \in 1 .. Len(blocks) /\ blocks[i].block_num = b
    BY <1>2, <1>4, <2>2
  <2>4. i # 0
    BY <2>3
  <2> DEFINE m == <<blocks[i]>> \o RemoveAt(blocks, i)
  <2>5. f = [d EXCEPT !.cached_blocks = m]
    BY <2>4 DEF bf_find_block
  <2>6. /\ IsCache(m) /\ Numbers(m) = Numbers(blocks) /\ LoadingIn(m) = LoadingIn(blocks)
        /\ m # <<>> /\ m[1] = blocks[i]
    BY <2>3, FrontKeepsCache
  <2>7. m \in Seq(Cached)
    BY <2>6 DEF IsCache
  <2> HIDE DEF m, f, i
  <2>8. f \in Device /\ f.cached_blocks = m
    BY <2>5, <2>7 DEF Device
  <2>9. QED
    BY <2>3, <2>5, <2>6, <2>8 DEF f
<1>5. QED
  BY <1>3, <1>4

LEMMA FreeCourse ==
  ASSUME NEW q, NEW base, NEW n \in Nat, DOMAIN q = 1 .. n
  PROVE  \E h : Course(h, "free", base, q, n) /\ FoldLeft(KeepOrFree, base, q) = h[n]
<1> DEFINE IsLoop(f) == LoopOver(f, "free", base, q, n)
           g == CHOOSE f : IsLoop(f)
<1>1. \E f : IsLoop(f)
  BY LoopExists
<1> HIDE DEF IsLoop
<1>2. IsLoop(g)
  BY <1>1
<1>3. FoldLeft(KeepOrFree, base, q) = g[1 .. n]
  BY DEF FoldLeft, MapThenFoldSet, IsLoop, LoopOver, Do
<1> HIDE DEF g
<1>4. LoopOver(g, "free", base, q, n)
  BY <1>2 DEF IsLoop
<1>5. QED
  BY <1>3, <1>4, LoopCourse

\* What has been kept of the first blocks looked at.
KeptOf(kept, r, n) ==
  /\ IsCache(kept)
  /\ \A k \in DOMAIN kept : \E j \in 1 .. n : kept[k] = r[j]
  /\ \A j \in 1 .. n : r[j].state = "LOADING" => \E k \in DOMAIN kept : kept[k] = r[j]

LEMMA KeepOne ==
  ASSUME NEW r, IsCache(r), NEW n \in Nat, n + 1 <= Len(r),
         NEW kept, KeptOf(kept, r, n)
  PROVE  /\ KeptOf(<<r[n + 1]>> \o kept, r, n + 1)
         /\ r[n + 1].state # "LOADING" => KeptOf(kept, r, n + 1)
<1> DEFINE m == <<r[n + 1]>> \o kept
<1>1. /\ r \in Seq(Cached) /\ Len(r) \in Nat /\ DOMAIN r = 1 .. Len(r)
      /\ kept \in Seq(Cached) /\ Len(kept) \in Nat /\ DOMAIN kept = 1 .. Len(kept)
  BY DEF IsCache, KeptOf
<1>2. r[n + 1] \in Cached
  BY <1>1
<1>3. /\ m \in Seq(Cached) /\ Len(m) = 1 + Len(kept)
      /\ m[1] = r[n + 1] /\ \A k \in 1 .. Len(kept) : m[k + 1] = kept[k]
  <2>1. /\ <<r[n + 1]>> \in Seq(Cached) /\ Len(<<r[n + 1]>>) = 1
        /\ <<r[n + 1]>>[1] = r[n + 1]
    BY <1>2
  <2>2. /\ m \in Seq(Cached) /\ Len(m) = 1 + Len(kept)
        /\ \A k \in 1 .. 1 + Len(kept) :
             m[k] = IF k <= 1 THEN <<r[n + 1]>>[k] ELSE kept[k - 1]
    BY <1>1, <2>1, ConcatProperties
  <2> HIDE DEF m
  <2>3. QED
    BY <1>1, <2>1, <2>2
<1> HIDE DEF m
<1>4. DOMAIN m = 1 .. 1 + Len(kept)
  BY <1>3
<1>5. \A k \in DOMAIN m : k = 1 \/ (k - 1 \in DOMAIN kept /\ m[k] = kept[k - 1])
  BY <1>1, <1>3, <1>4
<1>6. \A k \in DOMAIN kept : kept[k].block_num # r[n + 1].block_num
  <2> SUFFICES ASSUME NEW k \in DOMAIN kept, kept[k].block_num = r[n + 1].block_num
               PROVE  FALSE
    OBVIOUS
  <2>1. PICK j \in 1 .. n : kept[k] = r[j]
    BY DEF KeptOf
  <2>2. j \in DOMAIN r /\ n + 1 \in DOMAIN r /\ j # n + 1
    BY <1>1
  <2>3. QED
    BY <2>1, <2>2 DEF IsCache
<1>7. IsCache(m)
  <2> SUFFICES ASSUME NEW k \in DOMAIN m, NEW l \in DOMAIN m, m[k].block_num = m[l].block_num
               PROVE  k = l
    BY <1>3 DEF IsCache
  <2>1. CASE k = 1 /\ l = 1
    BY <2>1
  <2>2. CASE k = 1 /\ l # 1
    BY <2>2, <1>3, <1>5, <1>6
  <2>3. CASE k # 1 /\ l = 1
    BY <2>3, <1>3, <1>5, <1>6
  <2>4. CASE k # 1 /\ l # 1
    <3>1. kept[k - 1].block_num = kept[l - 1].block_num
      BY <2>4, <1>5
    <3>2. k - 1 = l - 1
      BY <3>1, <2>4, <1>5 DEF KeptOf, IsCache
    <3>3. QED
      BY <3>2, <1>4
  <2>5. QED
    BY <2>1, <2>2, <2>3, <2>4
<1>8. \A k \in DOMAIN m : \E j \in 1 .. n + 1 : m[k] = r[j]
  <2> TAKE k \in DOMAIN m
  <2>1. CASE k = 1
    <3>1. m[k] = r[n + 1] /\ n + 1 \in 1 .. n + 1
      BY <2>1, <1>3
    <3>2. QED
      BY <3>1
  <2>2. CASE k # 1
    BY <2>2, <1>5 DEF KeptOf
  <2>3. QED
    BY <2>1, <2>2
<1>9. \A j \in 1 .. n + 1 : r[j].state = "LOADING" => \E k \in DOMAIN m : m[k] = r[j]
  <2> SUFFICES ASSUME NEW j \in 1 .. n + 1, r[j].state = "LOADING"
               PROVE  \E k \in DOMAIN m : m[k] = r[j]
    OBVIOUS
  <2>1. CASE j = n + 1
    BY <2>1, <1>1, <1>3, <1>4
  <2>2. CASE j \in 1 .. n
    <3>1. PICK k \in DOMAIN kept : kept[k] = r[j]
      BY <2>2 DEF KeptOf
    <3>2. k + 1 \in DOMAIN m /\ m[k + 1] = r[j]
      BY <3>1, <1>1, <1>3, <1>4
    <3>3. QED
      BY <3>2
  <2>3. QED
    BY <2>1, <2>2
<1>10. r[n + 1].state # "LOADING" => KeptOf(kept, r, n + 1)
  <2> SUFFICES ASSUME r[n + 1].state # "LOADING" PROVE KeptOf(kept, r, n + 1)
    OBVIOUS
  <2>1. \A j \in 1 .. n + 1 : j \in 1 .. n \/ j = n + 1
    OBVIOUS
  <2>2. 1 .. n \subseteq 1 .. n + 1
    OBVIOUS
  <2>3. QED
    BY <2>1, <2>2 DEF KeptOf
<1>11. KeptOf(m, r, n + 1)
  BY <1>7, <1>8, <1>9 DEF KeptOf
<1>12. QED
  BY <1>10, <1>11 DEF m

LEMMA ReversedCache ==
  ASSUME NEW q, IsCache(q)
  PROVE  /\ IsCache(Reverse(q)) /\ Len(Reverse(q)) = Len(q)
         /\ \A i \in 1 .. Len(q) : Reverse(q)[i] = q[Len(q) - i + 1]
<1>1. q \in Seq(Cached) /\ Len(q) \in Nat /\ DOMAIN q = 1 .. Len(q)
  BY DEF IsCache
<1> DEFINE n == Len(q)
           r == Reverse(q)
<1>2. r = [i \in 1 .. n |-> q[(n - i) + 1]]
  BY DEF Reverse
<1>3. \A i \in 1 .. n : (n - i) + 1 \in 1 .. n
  BY <1>1
<1>4. \A i \in 1 .. n : q[(n - i) + 1] \in Cached
  BY <1>1, <1>3
<1> HIDE DEF r
<1>5. r \in [1 .. n -> Cached]
  BY <1>2, <1>4
<1>6. r \in Seq(Cached) /\ Len(r) = n /\ DOMAIN r = 1 .. n
  BY <1>1, <1>5
<1>7. ASSUME NEW i \in 1 .. n, NEW j \in 1 .. n, r[i].block_num = r[j].block_num
      PROVE  i = j
  <2>1. q[(n - i) + 1].block_num = q[(n - j) + 1].block_num
    BY <1>2, <1>7
  <2>2. (n - i) + 1 = (n - j) + 1
    BY <2>1, <1>1, <1>3 DEF IsCache
  <2>3. QED
    BY <2>2, <1>1
<1>8. QED
  BY <1>2, <1>6, <1>7 DEF IsCache, r

\* Freeing blocks takes none that is being loaded, and adds none.
LEMMA BlocksFreed ==
  ASSUME NEW d \in Device, IsCache(d.cached_blocks)
  PROVE  LET f == FreeBlocks(d)
             q == f.cached_blocks
         IN  /\ f = [d EXCEPT !.cached_blocks = q]
             /\ IsCache(q)
             /\ Numbers(q) \subseteq Numbers(d.cached_blocks)
             /\ LoadingIn(q) = LoadingIn(d.cached_blocks)
<1> DEFINE c == d.cached_blocks
           n == Len(c)
           r == Reverse(c)
           base == [kept |-> <<>>, n |-> n]
           q == FoldLeft(KeepOrFree, base, r).kept
<1>1. c \in Seq(Cached) /\ n \in Nat /\ DOMAIN c = 1 .. n
  BY DEF IsCache
<1>2. IsCache(r) /\ Len(r) = n /\ \A i \in 1 .. n : r[i] = c[n - i + 1]
  BY ReversedCache
<1>3. r \in Seq(Cached) /\ DOMAIN r = 1 .. n
  BY <1>2 DEF IsCache
<1> HIDE DEF r, base
<1>4. PICK h : Course(h, "free", base, r, n) /\ FoldLeft(KeepOrFree, base, r) = h[n]
  BY <1>1, <1>3, FreeCourse
<1> DEFINE Kept(s, m) == /\ s = [kept |-> s.kept, n |-> s.n]
                         /\ s.n \in Int /\ KeptOf(s.kept, r, m)
           T == {m \in Nat : m <= n => Kept(h[m], m)}
<1>5. 0 \in T
  <2>1. h[0] = [kept |-> <<>>, n |-> n]
    BY <1>4 DEF Course, base
  <2>2. KeptOf(<<>>, r, 0)
    BY DEF KeptOf, IsCache
  <2>3. QED
    BY <1>1, <2>1, <2>2
<1>6. ASSUME NEW m \in Nat, m \in T
      PROVE  m + 1 \in T
  <2> SUFFICES ASSUME m + 1 <= n PROVE Kept(h[m + 1], m + 1)
    OBVIOUS
  <2>1. Kept(h[m], m)
    BY <1>1, <1>6
  <2> DEFINE x == r[m + 1]
             s == h[m]
  <2>2. m + 1 \in 1 .. n /\ (m + 1) - 1 = m
    BY <1>1
  <2>3. h[m + 1] = KeepOrFree(s, x)
    <3>1. h[m + 1] = Do("free", h[(m + 1) - 1], r[m + 1])
      BY <1>4, <2>2 DEF Course
    <3>2. QED
      BY <2>2, <3>1 DEF Do
  <2>4. /\ KeptOf(<<x>> \o s.kept, r, m + 1)
        /\ x.state # "LOADING" => KeptOf(s.kept, r, m + 1)
    <3>1. KeptOf(s.kept, r, m) /\ m + 1 <= Len(r)
      BY <1>2, <2>1
    <3>2. QED
      BY <1>2, <3>1, KeepOne
  <2> HIDE DEF x, s
  <2>5. s = [kept |-> s.kept, n |-> s.n] /\ s.n \in Int
    BY <2>1 DEF s
  <2>6. CASE x.state = "LOADED" /\ s.n >= CachedBlocksMax
    <3>1. h[m + 1] = [kept |-> s.kept, n |-> s.n - 1]
      BY <2>3, <2>5, <2>6 DEF KeepOrFree
    <3>2. QED
      BY <2>4, <2>5, <2>6, <3>1
  <2>7. CASE ~(x.state = "LOADED" /\ s.n >= CachedBlocksMax)
    <3>1. h[m + 1] = [kept |-> <<x>> \o s.kept, n |-> s.n]
      BY <2>3, <2>5, <2>7 DEF KeepOrFree
    <3>2. QED
      BY <2>4, <2>5, <3>1
  <2>8. QED
    BY <2>6, <2>7
<1> HIDE DEF T
<1>7. Nat \subseteq T
  BY <1>5, <1>6, SetInduction
<1>8. KeptOf(q, r, n)
  <2>1. Kept(h[n], n)
    BY <1>1, <1>7 DEF T
  <2>2. QED
    BY <1>4, <2>1
<1>9. FreeBlocks(d) = [d EXCEPT !.cached_blocks = q]
  BY DEF FreeBlocks, r, base
<1> HIDE DEF q
<1>10. FreeBlocks(d).cached_blocks = q
  BY <1>9 DEF Device
<1>11. /\ IsCache(q) /\ q \in Seq(Cached) /\ DOMAIN q = 1 .. Len(q) /\ Len(q) \in Nat
       /\ \A k \in DOMAIN q : \E j \in 1 .. n : q[k] = r[j]
       /\ \A j \in 1 .. n : r[j].state = "LOADING" => \E k \in DOMAIN q : q[k] = r[j]
  BY <1>8 DEF KeptOf, IsCache
<1>12. \A k \in DOMAIN q : \E j \in DOMAIN c : q[k] = c[j]
  <2> TAKE k \in DOMAIN q
  <2>1. PICK j \in 1 .. n : q[k] = r[j]
    BY <1>11
  <2>2. n - j + 1 \in DOMAIN c /\ q[k] = c[n - j + 1]
    BY <1>1, <1>2, <2>1
  <2>3. QED
    BY <2>2
<1>13. \A j \in DOMAIN c : c[j].state = "LOADING" => \E k \in DOMAIN q : q[k] = c[j]
  <2> TAKE j \in DOMAIN c
  <2>1. n - j + 1 \in 1 .. n /\ r[n - j + 1] = c[j]
    <3>1. n - j + 1 \in 1 .. n /\ n - (n - j + 1) + 1 = j
      BY <1>1
    <3>2. QED
      BY <1>2, <3>1
  <2>2. QED
    BY <2>1, <1>11
<1>14. Numbers(q) \subseteq Numbers(c)
  BY <1>12 DEF Numbers
<1>15. LoadingIn(q) = LoadingIn(c)
  BY <1>12, <1>13 DEF LoadingIn
<1>16. QED
  BY <1>9, <1>10, <1>11, <1>14, <1>15

-----------------------------------------------------------------------------
(* What the transfers under way will bring.                                *)

Wanted(t) == {t[i].block_num : i \in {j \in DOMAIN t : t[j].wanted}}

\* No block is wanted twice by a transfer.
WantedOnce(t) ==
  \A i, j \in DOMAIN t :
    t[i].wanted /\ t[j].wanted /\ t[i].block_num = t[j].block_num => i = j

\* Every block that a transfer is to bring, or the group at hand, is in the cache
\* as being loaded, and only one of them will bring it.
DeviceInv(d, g) ==
  /\ d \in Device /\ ~d.aborted
  /\ IsCache(d.cached_blocks)
  /\ g \in Transfer /\ WantedOnce(g)
  /\ Wanted(g) \subseteq LoadingIn(d.cached_blocks)
  /\ \A t \in d.transfers :
       /\ WantedOnce(t)
       /\ Wanted(t) \subseteq LoadingIn(d.cached_blocks)
       /\ Wanted(t) \cap Wanted(g) = {}
  /\ \A t, u \in d.transfers : t # u => Wanted(t) \cap Wanted(u) = {}

\* What is wanted does not depend on what else the device has come to.
LEMMA SameWanted ==
  ASSUME NEW d, NEW g, DeviceInv(d, g),
         NEW f \in Device, ~f.aborted, f.transfers = d.transfers,
         IsCache(f.cached_blocks),
         LoadingIn(d.cached_blocks) \subseteq LoadingIn(f.cached_blocks)
  PROVE  DeviceInv(f, g)
BY DEF DeviceInv

\* bf_find_block leaves everything as it was but the order of the cache.
LEMMA FoundBlock ==
  ASSUME NEW d, NEW g, DeviceInv(d, g), NEW b \in Block
  PROVE  LET f == bf_find_block(d, b)
         IN  /\ DeviceInv(f, g)
             /\ f.transfers = d.transfers /\ f.clusters = d.clusters
             /\ f.cur_block_num = d.cur_block_num
             /\ LoadingIn(f.cached_blocks) = LoadingIn(d.cached_blocks)
             /\ HasBlock(d, b) => f.cached_blocks # <<>> /\ f.cached_blocks[1].block_num = b
<1> DEFINE f == bf_find_block(d, b)
           q == f.cached_blocks
<1>1. d \in Device /\ IsCache(d.cached_blocks)
  BY DEF DeviceInv
<1>2. /\ f \in Device /\ f = [d EXCEPT !.cached_blocks = q]
      /\ IsCache(q) /\ LoadingIn(q) = LoadingIn(d.cached_blocks)
      /\ HasBlock(d, b) => q # <<>> /\ q[1].block_num = b
  BY <1>1, FindBlock
<1> HIDE DEF f
<1>3. /\ f.transfers = d.transfers /\ f.clusters = d.clusters
      /\ f.cur_block_num = d.cur_block_num /\ f.aborted = d.aborted
  BY <1>1, <1>2 DEF Device
<1>4. DeviceInv(f, g)
  BY <1>2, <1>3, SameWanted DEF DeviceInv
<1>5. QED
  BY <1>2, <1>3, <1>4 DEF f

\* bf_add_block adds a block that is being loaded, and takes none that is.
LEMMA AddedBlock ==
  ASSUME NEW d, NEW g, DeviceInv(d, g), NEW b \in Block, ~HasBlock(d, b)
  PROVE  LET f == bf_add_block(d, b)
         IN  /\ DeviceInv(f, g)
             /\ f.transfers = d.transfers /\ f.clusters = d.clusters
             /\ f.cur_block_num = d.cur_block_num
             /\ LoadingIn(f.cached_blocks) = LoadingIn(d.cached_blocks) \cup {b}
             /\ b \notin LoadingIn(d.cached_blocks)
<1> DEFINE e == FreeBlocks(d)
           q == e.cached_blocks
           x == [block_num |-> b, state |-> "LOADING", data |-> <<>>]
           m == <<x>> \o q
           f == bf_add_block(d, b)
<1>1. d \in Device /\ IsCache(d.cached_blocks) /\ ~d.aborted
  BY DEF DeviceInv
<1>2. /\ e = [d EXCEPT !.cached_blocks = q] /\ IsCache(q)
      /\ Numbers(q) \subseteq Numbers(d.cached_blocks)
      /\ LoadingIn(q) = LoadingIn(d.cached_blocks)
  BY <1>1, BlocksFreed
<1>3. b \notin Numbers(d.cached_blocks) /\ b \notin LoadingIn(d.cached_blocks)
  BY DEF HasBlock, Numbers, LoadingIn
<1>4. f = [e EXCEPT !.cached_blocks = m]
  BY DEF bf_add_block
<1> HIDE DEF e, q, f
<1>5. q \in Seq(Cached) /\ Len(q) \in Nat /\ DOMAIN q = 1 .. Len(q)
  BY <1>2 DEF IsCache
<1>6. x \in Cached /\ x.block_num = b /\ x.state = "LOADING"
  BY DEF Cached
<1> HIDE DEF x, m
<1>7. /\ m \in Seq(Cached) /\ DOMAIN m = 1 .. 1 + Len(q)
      /\ m[1] = x /\ \A k \in 1 .. Len(q) : m[k + 1] = q[k]
  <2>1. <<x>> \in Seq(Cached) /\ Len(<<x>>) = 1 /\ <<x>>[1] = x
    BY <1>6
  <2>2. /\ m \in Seq(Cached) /\ Len(m) = 1 + Len(q)
        /\ \A k \in 1 .. 1 + Len(q) : m[k] = IF k <= 1 THEN <<x>>[k] ELSE q[k - 1]
    BY <1>5, <2>1, ConcatProperties DEF m
  <2>3. QED
    BY <1>5, <2>1, <2>2
<1>8. \A k \in DOMAIN m : k = 1 \/ (k - 1 \in DOMAIN q /\ m[k] = q[k - 1])
  <2> TAKE k \in DOMAIN m
  <2>1. CASE k # 1
    <3>1. k - 1 \in 1 .. Len(q) /\ (k - 1) + 1 = k
      BY <1>5, <1>7, <2>1
    <3>2. QED
      BY <1>5, <1>7, <3>1
  <2>2. QED
    BY <2>1
<1>9. \A k \in DOMAIN q : q[k].block_num # b
  BY <1>2, <1>3 DEF Numbers
<1>10. IsCache(m)
  <2> SUFFICES ASSUME NEW k \in DOMAIN m, NEW l \in DOMAIN m, m[k].block_num = m[l].block_num
               PROVE  k = l
    BY <1>7 DEF IsCache
  <2>1. CASE k = 1 \/ l = 1
    BY <2>1, <1>6, <1>7, <1>8, <1>9
  <2>2. CASE k # 1 /\ l # 1
    <3>1. k - 1 = l - 1
      BY <2>2, <1>2, <1>8 DEF IsCache
    <3>2. QED
      BY <3>1, <1>7
  <2>3. QED
    BY <2>1, <2>2
<1>11. LoadingIn(m) = LoadingIn(q) \cup {b}
  <2>1. ASSUME NEW n \in LoadingIn(m) PROVE n \in LoadingIn(q) \cup {b}
    <3>1. PICK k \in DOMAIN m : m[k].state = "LOADING" /\ m[k].block_num = n
      BY DEF LoadingIn
    <3>2. QED
      BY <3>1, <1>6, <1>7, <1>8 DEF LoadingIn
  <2>2. ASSUME NEW n \in LoadingIn(q) PROVE n \in LoadingIn(m)
    <3>1. PICK k \in DOMAIN q : q[k].state = "LOADING" /\ q[k].block_num = n
      BY DEF LoadingIn
    <3>2. k + 1 \in DOMAIN m /\ m[k + 1] = q[k]
      BY <1>5, <1>7
    <3>3. QED
      BY <3>1, <3>2 DEF LoadingIn
  <2>3. b \in LoadingIn(m)
    <3>1. 1 \in DOMAIN m
      BY <1>5, <1>7
    <3>2. QED
      BY <3>1, <1>6, <1>7 DEF LoadingIn
  <2>4. QED
    BY <2>1, <2>2, <2>3
<1>12. f = [d EXCEPT !.cached_blocks = m]
  BY <1>1, <1>2, <1>4 DEF Device
<1>13. /\ f \in Device /\ f.cached_blocks = m
       /\ f.transfers = d.transfers /\ f.clusters = d.clusters
       /\ f.cur_block_num = d.cur_block_num /\ f.aborted = d.aborted
  BY <1>1, <1>7, <1>12 DEF Device
<1>14. DeviceInv(f, g)
  BY <1>1, <1>2, <1>10, <1>11, <1>13, SameWanted
<1>15. QED
  BY <1>2, <1>3, <1>11, <1>13, <1>14 DEF f

\* bf_start_load_block: the new block is what the new transfer is to bring.
LEMMA StartedLoad ==
  ASSUME NEW d, NEW g, DeviceInv(d, g), NEW b \in Block, ~HasBlock(d, b)
  PROVE  LET f == bf_start_load_block(d, b)
         IN  /\ DeviceInv(f, g)
             /\ f.clusters = d.clusters /\ f.cur_block_num = d.cur_block_num
             /\ LoadingIn(f.cached_blocks) = LoadingIn(d.cached_blocks) \cup {b}
<1> DEFINE e == bf_add_block(d, b)
           t == <<[block_num |-> b, wanted |-> TRUE]>>
           f == bf_start_load_block(d, b)
<1>1. /\ DeviceInv(e, g) /\ e.transfers = d.transfers /\ e.clusters = d.clusters
      /\ e.cur_block_num = d.cur_block_num
      /\ LoadingIn(e.cached_blocks) = LoadingIn(d.cached_blocks) \cup {b}
      /\ b \notin LoadingIn(d.cached_blocks)
  BY AddedBlock
<1>2. f = [e EXCEPT !.transfers = e.transfers \cup {t}]
  BY DEF bf_start_load_block
<1>3. t \in Transfer /\ WantedOnce(t) /\ Wanted(t) = {b}
  BY DEF Transfer, WantedOnce, Wanted
<1> HIDE DEF e, f, t
<1>4. /\ f \in Device /\ f.cached_blocks = e.cached_blocks
      /\ f.transfers = d.transfers \cup {t} /\ f.clusters = d.clusters
      /\ f.cur_block_num = d.cur_block_num /\ ~f.aborted
  BY <1>1, <1>2, <1>3 DEF Device, DeviceInv
<1>5. \A u \in d.transfers : Wanted(u) \cap {b} = {}
  BY <1>1 DEF DeviceInv
<1>6. Wanted(g) \cap {b} = {}
  BY <1>1 DEF DeviceInv
<1>7. \A u \in f.transfers : /\ WantedOnce(u)
                             /\ Wanted(u) \subseteq LoadingIn(f.cached_blocks)
                             /\ Wanted(u) \cap Wanted(g) = {}
  BY <1>1, <1>3, <1>4, <1>6 DEF DeviceInv
<1>8. \A u, v \in f.transfers : u # v => Wanted(u) \cap Wanted(v) = {}
  BY <1>1, <1>3, <1>4, <1>5 DEF DeviceInv
<1>9. DeviceInv(f, g)
  BY <1>1, <1>4, <1>7, <1>8 DEF DeviceInv
<1>10. QED
  BY <1>1, <1>4, <1>9 DEF f

-----------------------------------------------------------------------------
(* The start: what is prefetched.                                          *)

LEMMA GroupCourse ==
  ASSUME NEW q, NEW base, NEW n \in Nat, DOMAIN q = 1 .. n
  PROVE  \E h : Course(h, "group", base, q, n) /\ FoldLeft(PrefetchTurn, base, q) = h[n]
<1> DEFINE IsLoop(f) == LoopOver(f, "group", base, q, n)
           g == CHOOSE f : IsLoop(f)
<1>1. \E f : IsLoop(f)
  BY LoopExists
<1> HIDE DEF IsLoop
<1>2. IsLoop(g)
  BY <1>1
<1>3. FoldLeft(PrefetchTurn, base, q) = g[1 .. n]
  BY DEF FoldLeft, MapThenFoldSet, IsLoop, LoopOver, Do
<1> HIDE DEF g
<1>4. LoopOver(g, "group", base, q, n)
  BY <1>2 DEF IsLoop
<1>5. QED
  BY <1>3, <1>4, LoopCourse

LEMMA PrefetchCourse ==
  ASSUME NEW q, NEW base, NEW n \in Nat, DOMAIN q = 1 .. n
  PROVE  \E h : Course(h, "prefetch", base, q, n) /\ FoldLeft(StartPrefetch, base, q) = h[n]
<1> DEFINE IsLoop(f) == LoopOver(f, "prefetch", base, q, n)
           g == CHOOSE f : IsLoop(f)
<1>1. \E f : IsLoop(f)
  BY LoopExists
<1> HIDE DEF IsLoop
<1>2. IsLoop(g)
  BY <1>1
<1>3. FoldLeft(StartPrefetch, base, q) = g[1 .. n]
  BY DEF FoldLeft, MapThenFoldSet, IsLoop, LoopOver, Do
<1> HIDE DEF g
<1>4. LoopOver(g, "prefetch", base, q, n)
  BY <1>2 DEF IsLoop
<1>5. QED
  BY <1>3, <1>4, LoopCourse

\* What one more entry of a transfer adds to what it wants.
LEMMA OneMoreEntry ==
  ASSUME NEW t \in Transfer, WantedOnce(t), NEW b \in Block, NEW w \in BOOLEAN,
         w => b \notin Wanted(t)
  PROVE  LET u == Append(t, [block_num |-> b, wanted |-> w])
         IN  /\ u \in Transfer /\ WantedOnce(u)
             /\ Wanted(u) = Wanted(t) \cup (IF w THEN {b} ELSE {})
<1> DEFINE x == [block_num |-> b, wanted |-> w]
           n == Len(t)
           u == Append(t, x)
<1>1. n \in Nat /\ DOMAIN t = 1 .. n /\ x \in [block_num : Block, wanted : BOOLEAN]
  BY DEF Transfer
<1>2. x.block_num = b /\ x.wanted = w
  OBVIOUS
<1> HIDE DEF x
<1>3. /\ u \in Transfer /\ DOMAIN u = 1 .. n + 1
      /\ u[n + 1] = x /\ \A i \in 1 .. n : u[i] = t[i]
  BY <1>1 DEF Transfer
<1> HIDE DEF u
<1>4. \A i \in DOMAIN u : i = n + 1 \/ i \in DOMAIN t
  BY <1>1, <1>3
<1>5. n + 1 \in DOMAIN u /\ n + 1 \notin DOMAIN t /\ DOMAIN t \subseteq DOMAIN u
  BY <1>1, <1>3
<1>6. WantedOnce(u)
  <2> SUFFICES ASSUME NEW i \in DOMAIN u, NEW j \in DOMAIN u, u[i].wanted, u[j].wanted,
                      u[i].block_num = u[j].block_num
               PROVE  i = j
    BY DEF WantedOnce
  <2>1. CASE i = n + 1 /\ j \in DOMAIN t
    <3>1. w /\ t[j].wanted /\ t[j].block_num = b
      BY <2>1, <1>1, <1>2, <1>3
    <3>2. QED
      BY <2>1, <3>1 DEF Wanted
  <2>2. CASE j = n + 1 /\ i \in DOMAIN t
    <3>1. w /\ t[i].wanted /\ t[i].block_num = b
      BY <2>2, <1>1, <1>2, <1>3
    <3>2. QED
      BY <2>2, <3>1 DEF Wanted
  <2>3. CASE i \in DOMAIN t /\ j \in DOMAIN t
    BY <2>3, <1>1, <1>3 DEF WantedOnce
  <2>4. QED
    BY <2>1, <2>2, <2>3, <1>4
<1>7. Wanted(u) = Wanted(t) \cup (IF w THEN {b} ELSE {})
  <2>1. ASSUME NEW c \in Wanted(u) PROVE c \in Wanted(t) \cup (IF w THEN {b} ELSE {})
    <3>1. PICK i \in DOMAIN u : u[i].wanted /\ u[i].block_num = c
      BY DEF Wanted
    <3>2. CASE i = n + 1
      BY <3>1, <3>2, <1>2, <1>3
    <3>3. CASE i \in DOMAIN t
      BY <3>1, <3>3, <1>1, <1>3 DEF Wanted
    <3>4. QED
      BY <3>2, <3>3, <1>4
  <2>2. ASSUME NEW c \in Wanted(t) PROVE c \in Wanted(u)
    <3>1. PICK i \in DOMAIN t : t[i].wanted /\ t[i].block_num = c
      BY DEF Wanted
    <3>2. u[i].wanted /\ u[i].block_num = c
      BY <3>1, <1>1, <1>3
    <3>3. QED
      BY <3>2, <1>5 DEF Wanted
  <2>3. w => b \in Wanted(u)
    BY <1>2, <1>3, <1>5 DEF Wanted
  <2>4. QED
    BY <2>1, <2>2, <2>3
<1>8. QED
  BY <1>3, <1>6, <1>7 DEF u, x

\* The device before a request has come: no cluster, and no block that one waits for.
Fresh(d, g) ==
  /\ DeviceInv(d, g)
  /\ d.cur_block_num = NoBlock
  /\ d.clusters = [c \in Cluster |-> <<>>]

LEMMA OnePrefetchTurn ==
  ASSUME NEW s, s = [d |-> s.d, tab |-> s.tab], Fresh(s.d, s.tab), NEW b \in Block
  PROVE  LET t == PrefetchTurn(s, b)
         IN  t = [d |-> t.d, tab |-> t.tab] /\ Fresh(t.d, t.tab)
<1> DEFINE t == PrefetchTurn(s, b)
           x == Append(s.tab, [block_num |-> b, wanted |-> FALSE])
           y == Append(s.tab, [block_num |-> b, wanted |-> TRUE])
<1>1. DeviceInv(s.d, s.tab) /\ s.tab \in Transfer /\ WantedOnce(s.tab)
  BY DEF Fresh, DeviceInv
<1>2. CASE HasBlock(s.d, b)
  <2> DEFINE f == bf_find_block(s.d, b)
  <2>1. /\ DeviceInv(f, s.tab) /\ f.clusters = s.d.clusters
        /\ f.cur_block_num = s.d.cur_block_num
    BY <1>1, FoundBlock
  <2>2. x \in Transfer /\ WantedOnce(x) /\ Wanted(x) = Wanted(s.tab)
    <3> SUFFICES ASSUME NEW w \in BOOLEAN, ~w
                 PROVE  LET u == Append(s.tab, [block_num |-> b, wanted |-> w])
                        IN  u \in Transfer /\ WantedOnce(u) /\ Wanted(u) = Wanted(s.tab)
      OBVIOUS
    <3>1. w => b \notin Wanted(s.tab)
      OBVIOUS
    <3>2. QED
      BY <1>1, <3>1, OneMoreEntry
  <2>3. t = [d |-> f, tab |-> x]
    BY <1>2 DEF PrefetchTurn
  <2> HIDE DEF f, x, y, t
  <2>4. DeviceInv(f, x)
    BY <2>1, <2>2 DEF DeviceInv
  <2>5. Fresh(f, x)
    BY <2>1, <2>4 DEF Fresh
  <2>6. QED
    BY <2>3, <2>5 DEF t
<1>3. CASE ~HasBlock(s.d, b)
  <2> DEFINE f == bf_add_block(s.d, b)
  <2>1. /\ DeviceInv(f, s.tab) /\ f.clusters = s.d.clusters /\ f.transfers = s.d.transfers
        /\ f.cur_block_num = s.d.cur_block_num
        /\ LoadingIn(f.cached_blocks) = LoadingIn(s.d.cached_blocks) \cup {b}
        /\ b \notin LoadingIn(s.d.cached_blocks)
    BY <1>1, <1>3, AddedBlock
  <2>2. b \notin Wanted(s.tab) /\ \A u \in s.d.transfers : b \notin Wanted(u)
    BY <2>1, <1>1 DEF DeviceInv
  <2>3. /\ y \in Transfer /\ WantedOnce(y)
        /\ Wanted(y) = Wanted(s.tab) \cup {b}
    BY <1>1, <2>2, OneMoreEntry
  <2>4. t = [d |-> f, tab |-> y]
    BY <1>3 DEF PrefetchTurn
  <2> HIDE DEF f, x, y, t
  <2>5. Wanted(y) \subseteq LoadingIn(f.cached_blocks)
    BY <2>1, <2>3 DEF DeviceInv
  <2>6. \A u \in f.transfers : Wanted(u) \cap Wanted(y) = {}
    BY <2>1, <2>2, <2>3 DEF DeviceInv
  <2>7. DeviceInv(f, y)
    BY <2>1, <2>3, <2>5, <2>6 DEF DeviceInv
  <2>8. Fresh(f, y)
    BY <2>1, <2>7 DEF Fresh
  <2>9. QED
    BY <2>4, <2>8 DEF t
<1>4. QED
  BY <1>2, <1>3

\* A transfer that nothing is being done with yet.
LEMMA NothingAtHand ==
  ASSUME NEW d, NEW g, DeviceInv(d, g)
  PROVE  DeviceInv(d, <<>>)
<1>1. <<>> \in Transfer /\ WantedOnce(<<>>) /\ Wanted(<<>>) = {}
  BY DEF Transfer, WantedOnce, Wanted
<1>2. QED
  BY <1>1 DEF DeviceInv

\* bf_start_load_prefetch_group
LEMMA GroupStarted ==
  ASSUME NEW d, Fresh(d, <<>>), NEW blocks \in Seq(Block)
  PROVE  Fresh(bf_start_load_prefetch_group(d, blocks), <<>>)
<1> DEFINE n == Len(blocks)
           base == [d |-> d, tab |-> <<>>]
           all == FoldLeft(PrefetchTurn, base, blocks)
           Good(s) == s = [d |-> s.d, tab |-> s.tab] /\ Fresh(s.d, s.tab)
<1>1. n \in Nat /\ DOMAIN blocks = 1 .. n
  OBVIOUS
<1> HIDE DEF base
<1>2. PICK h : Course(h, "group", base, blocks, n) /\ all = h[n]
  BY <1>1, GroupCourse
<1> DEFINE T == {m \in Nat : m <= n => Good(h[m])}
<1>3. 0 \in T
  <2>1. h[0] = [d |-> d, tab |-> <<>>]
    BY <1>2 DEF Course, base
  <2>2. QED
    BY <2>1
<1>4. ASSUME NEW m \in Nat, m \in T PROVE m + 1 \in T
  <2> SUFFICES ASSUME m + 1 <= n PROVE Good(h[m + 1])
    OBVIOUS
  <2>1. Good(h[m])
    BY <1>1, <1>4
  <2>2. m + 1 \in 1 .. n /\ (m + 1) - 1 = m /\ blocks[m + 1] \in Block
    BY <1>1
  <2>3. h[m + 1] = Do("group", h[(m + 1) - 1], blocks[m + 1])
    BY <1>2, <2>2 DEF Course
  <2>4. h[m + 1] = PrefetchTurn(h[m], blocks[m + 1])
    BY <2>2, <2>3 DEF Do
  <2>5. QED
    BY <2>1, <2>2, <2>4, OnePrefetchTurn
<1> HIDE DEF T
<1>5. Nat \subseteq T
  BY <1>3, <1>4, SetInduction
<1>6. Good(all)
  BY <1>1, <1>2, <1>5 DEF T
<1> HIDE DEF all
<1>7. CASE \E i \in DOMAIN all.tab : all.tab[i].wanted
  <2> DEFINE f == [all.d EXCEPT !.transfers = all.d.transfers \cup {all.tab}]
  <2>1. bf_start_load_prefetch_group(d, blocks) = f
    BY <1>7 DEF bf_start_load_prefetch_group, all, base
  <2>2. DeviceInv(all.d, all.tab) /\ all.d \in Device
    BY <1>6 DEF Fresh, DeviceInv
  <2>3. /\ f \in Device /\ f.cached_blocks = all.d.cached_blocks /\ f.clusters = all.d.clusters
        /\ f.transfers = all.d.transfers \cup {all.tab} /\ ~f.aborted
        /\ f.cur_block_num = all.d.cur_block_num
    BY <2>2 DEF Device, DeviceInv
  <2> HIDE DEF f
  <2>4. <<>> \in Transfer /\ WantedOnce(<<>>) /\ Wanted(<<>>) = {}
    BY DEF Transfer, WantedOnce, Wanted
  <2>5. \A t \in f.transfers : /\ WantedOnce(t)
                               /\ Wanted(t) \subseteq LoadingIn(f.cached_blocks)
    BY <2>2, <2>3 DEF DeviceInv
  <2>6. \A t, u \in f.transfers : t # u => Wanted(t) \cap Wanted(u) = {}
    BY <2>2, <2>3 DEF DeviceInv
  <2>7. DeviceInv(f, <<>>)
    BY <2>2, <2>3, <2>4, <2>5, <2>6 DEF DeviceInv
  <2>8. QED
    BY <1>6, <2>1, <2>3, <2>7 DEF Fresh
<1>8. CASE ~(\E i \in DOMAIN all.tab : all.tab[i].wanted)
  <2>1. bf_start_load_prefetch_group(d, blocks) = all.d
    BY <1>8 DEF bf_start_load_prefetch_group, all, base
  <2>2. QED
    BY <1>6, <2>1, NothingAtHand DEF Fresh
<1>9. QED
  BY <1>7, <1>8

LEMMA PrefetchStarted ==
  ASSUME NEW d, Fresh(d, <<>>), NEW blocks \in Seq(Block), blocks # <<>>
  PROVE  Fresh(StartPrefetch(d, blocks), <<>>)
<1>1. Len(blocks) \in Nat /\ blocks[1] \in Block
  OBVIOUS
<1>2. CASE Len(blocks) > 1
  BY <1>2, GroupStarted DEF StartPrefetch
<1>3. CASE ~(Len(blocks) > 1) /\ HasBlock(d, blocks[1])
  BY <1>1, <1>3, FoundBlock DEF StartPrefetch, Fresh
<1>4. CASE ~(Len(blocks) > 1) /\ ~HasBlock(d, blocks[1])
  BY <1>1, <1>4, StartedLoad DEF StartPrefetch, Fresh
<1>5. QED
  BY <1>2, <1>3, <1>4

\* Whatever groups the description of the image has.
LEMMA InitialDevice ==
  ASSUME BlockNetInit
  PROVE  Fresh(net, <<>>)
<1> DEFINE base == [cached_blocks |-> <<>>, transfers |-> {}, cur_block_num |-> NoBlock,
                    clusters |-> [c \in Cluster |-> <<>>], aborted |-> FALSE]
<1>1. PICK list \in PrefetchLists : net = FoldLeft(StartPrefetch, base, list)
  BY DEF BlockNetInit
<1> DEFINE n == Len(list)
<1>2. /\ list \in Seq(Seq(Block)) /\ n \in Nat /\ DOMAIN list = 1 .. n
      /\ \A i \in 1 .. n : list[i] \in Seq(Block) /\ list[i] # <<>>
  BY PrefetchAssumption
<1>3. Fresh(base, <<>>)
  <2>1. base \in Device
    BY DEF Device, ClusterData
  <2>2. IsCache(<<>>)
    BY DEF IsCache
  <2> HIDE DEF base
  <2>3. /\ base.cached_blocks = <<>> /\ base.transfers = {} /\ base.cur_block_num = NoBlock
        /\ base.clusters = [c \in Cluster |-> <<>>] /\ base.aborted = FALSE
    BY DEF base
  <2>4. DeviceInv(base, <<>>)
    BY <2>1, <2>2, <2>3 DEF DeviceInv, Transfer, WantedOnce, Wanted
  <2>5. QED
    BY <2>3, <2>4 DEF Fresh
<1> HIDE DEF base
<1>4. PICK h : Course(h, "prefetch", base, list, n) /\ net = h[n]
  BY <1>1, <1>2, PrefetchCourse
<1> DEFINE T == {m \in Nat : m <= n => Fresh(h[m], <<>>)}
<1>5. 0 \in T
  BY <1>3, <1>4 DEF Course
<1>6. ASSUME NEW m \in Nat, m \in T PROVE m + 1 \in T
  <2> SUFFICES ASSUME m + 1 <= n PROVE Fresh(h[m + 1], <<>>)
    OBVIOUS
  <2>1. Fresh(h[m], <<>>)
    BY <1>2, <1>6
  <2>2. m + 1 \in 1 .. n /\ (m + 1) - 1 = m
    BY <1>2
  <2>3. h[m + 1] = Do("prefetch", h[(m + 1) - 1], list[m + 1])
    BY <1>4, <2>2 DEF Course
  <2>4. h[m + 1] = StartPrefetch(h[m], list[m + 1])
    BY <2>2, <2>3 DEF Do
  <2>5. QED
    BY <1>2, <2>1, <2>2, <2>4, PrefetchStarted
<1> HIDE DEF T
<1>7. Nat \subseteq T
  BY <1>5, <1>6, SetInduction
<1>8. QED
  BY <1>2, <1>4, <1>7 DEF T

-----------------------------------------------------------------------------
(* bf_rw_async1, turn by turn.                                             *)

\* A request on its way: what a read has found so far, or what is to be written.
IsIo(r) ==
  /\ r \in [type : {"IN", "OUT"}, sector : Nat, n : Nat, index : Nat, buf : Seq(NetData)]
  /\ r.index <= r.n
  /\ r.sector + r.n <= NbBlocks * SectorsPerBlock
  /\ Len(r.buf) = IF r.type = "IN" THEN r.index ELSE r.n

\* ReadsWithinCluster, of one request.
WithinCluster(r) ==
  r.type = "IN" =>
    \A s, t \in r.sector .. r.sector + r.n - 1 :
      s \div SectorsPerBlock = t \div SectorsPerBlock
        => s \div SectorsPerCluster = t \div SectorsPerCluster

\* What has been read is what the disk holds.
HasRead(r, contents) == \A i \in 1 .. r.index : r.buf[i] = contents[r.sector + i - 1]

\* The disk after the sectors of a write from one place to another.
Overwritten(contents, r, from, to) ==
  [x \in NetSector |-> IF x - r.sector \in from .. to - 1 THEN r.buf[x - r.sector + 1]
                       ELSE contents[x]]

\* What going from device d and request r to e and u does to the request and to
\* the contents of the disk.
Turned(d, r, e, u) ==
  /\ IsIo(u)
  /\ u.type = r.type /\ u.sector = r.sector /\ u.n = r.n
  /\ r.index <= u.index
  /\ r.type = "OUT" =>
       /\ u.buf = r.buf
       /\ Contents(e) = Overwritten(Contents(d), r, r.index, u.index)
  /\ r.type = "IN" =>
       /\ Contents(e) = Contents(d)
       /\ WithinCluster(r) /\ HasRead(r, Contents(d)) => HasRead(u, Contents(d))

\* Where the next sector is.
LEMMA NextPlace ==
  ASSUME NEW r, IsIo(r), Left(r) # 0
  PROVE  /\ NextSector(r) \in NetSector /\ NextSector(r) \in Nat
         /\ NextSector(r) = r.sector + r.index
         /\ Left(r) \in Nat \ {0} /\ Left(r) = r.n - r.index
         /\ ClusterOf(r) \in Cluster /\ BlockOf(r) \in Block
         /\ InCluster(r) \in 0 .. SectorsPerCluster - 1
         /\ InBlock(r) \in 0 .. SectorsPerBlock - 1
         /\ NextSector(r) = SectorsPerCluster * ClusterOf(r) + InCluster(r)
         /\ NextSector(r) = SectorsPerBlock * BlockOf(r) + InBlock(r)
         /\ ClusterOf(r) = NextSector(r) \div SectorsPerCluster
         /\ BlockOf(r) = NextSector(r) \div SectorsPerBlock
<1>1. r.sector \in Nat /\ r.n \in Nat /\ r.index \in Nat /\ r.index <= r.n
      /\ r.sector + r.n <= NbBlocks * SectorsPerBlock
  BY DEF IsIo
<1>2. NbBlocks * SectorsPerBlock \in Nat
  BY GeometryAssumption
<1>3. Left(r) \in Nat \ {0} /\ Left(r) = r.n - r.index
  BY <1>1 DEF Left
<1>4. NextSector(r) \in NetSector /\ NextSector(r) = r.sector + r.index
  BY <1>1, <1>2, <1>3 DEF NextSector, NetSector
<1> DEFINE x == NextSector(r)
<1> HIDE DEF x
<1>5. x \in NetSector
  BY <1>4 DEF x
<1>6. /\ x \in Nat /\ x \div SectorsPerCluster \in Cluster
      /\ x % SectorsPerCluster \in 0 .. SectorsPerCluster - 1
      /\ x = SectorsPerCluster * (x \div SectorsPerCluster) + (x % SectorsPerCluster)
      /\ x \div SectorsPerBlock \in Block
      /\ x % SectorsPerBlock \in 0 .. SectorsPerBlock - 1
      /\ x = SectorsPerBlock * (x \div SectorsPerBlock) + (x % SectorsPerBlock)
  BY <1>5, Geometry
<1>7. QED
  BY <1>3, <1>4, <1>6 DEF x, ClusterOf, BlockOf, InCluster, InBlock

\* The sectors that follow one within its cluster.
LEMMA FurtherInCluster ==
  ASSUME NEW s \in NetSector, NEW k \in Nat, (s % SectorsPerCluster) + k < SectorsPerCluster
  PROVE  /\ (s + k) \div SectorsPerCluster = s \div SectorsPerCluster
         /\ (s + k) % SectorsPerCluster = (s % SectorsPerCluster) + k
<1> DEFINE c == SectorsPerCluster
           q == s \div c
           j == (s % c) + k
<1>1. /\ c \in Nat \ {0} /\ q \in Nat /\ s \in Nat
      /\ s % c \in 0 .. c - 1 /\ s = c * q + (s % c)
  BY Geometry, GeometryAssumption DEF Cluster
<1>2. j \in 0 .. c - 1
  BY <1>1
<1>3. s + k = c * q + j
  <2> DEFINE y == c * q
             z == s % c
  <2>1. y \in Nat /\ z \in Nat /\ s = y + z
    BY <1>1
  <2> HIDE DEF y, z
  <2>2. s + k = y + (z + k)
    BY <2>1
  <2>3. QED
    BY <2>2 DEF y, z
<1> HIDE DEF j, q, c
<1>4. (c * q + j) \div c = q /\ (c * q + j) % c = j
  BY <1>1, <1>2, DivModUnique
<1>5. QED
  BY <1>3, <1>4 DEF c, q, j

\* What a cluster holds when it is there.
LEMMA ClusterHas ==
  ASSUME NEW d \in Device, NEW c \in Cluster, d.clusters[c] # <<>>
  PROVE  d.clusters[c] \in [1 .. SectorsPerCluster -> NetData]
BY DEF Device, ClusterData

\* A read that goes on by some sectors.
LEMMA ReadOn ==
  ASSUME NEW d, NEW e, Contents(e) = Contents(d),
         NEW r, IsIo(r), r.type = "IN",
         NEW more \in Seq(NetData), NEW n \in Nat, n = Len(more), n <= Left(r),
         WithinCluster(r) =>
           \A k \in 1 .. n : more[k] = Contents(d)[NextSector(r) + (k - 1)]
  PROVE  LET u == Done(r, r.buf \o more, n)
         IN  Turned(d, r, e, u) /\ u.index = r.index + n
<1> DEFINE buf == r.buf \o more
           u == Done(r, buf, n)
<1>1. /\ r.sector \in Nat /\ r.n \in Nat /\ r.index \in Nat /\ r.index <= r.n
  BY DEF IsIo
<1>2. r.buf \in Seq(NetData) /\ Len(r.buf) = r.index
  BY DEF IsIo
<1>3. r.sector + r.n <= NbBlocks * SectorsPerBlock
  BY DEF IsIo
<1>4. r.index + n \in Nat /\ r.index + n <= r.n
  BY <1>1 DEF Left
<1>5. u = [r EXCEPT !.buf = buf, !.index = r.index + n]
  BY DEF Done
<1>6. /\ buf \in Seq(NetData) /\ Len(buf) = r.index + n
      /\ \A i \in 1 .. r.index : buf[i] = r.buf[i]
      /\ \A i \in 1 .. n : buf[r.index + i] = more[i]
  <2>1. /\ buf \in Seq(NetData) /\ Len(buf) = Len(r.buf) + Len(more)
        /\ \A i \in 1 .. Len(r.buf) + Len(more) :
             buf[i] = IF i <= Len(r.buf) THEN r.buf[i] ELSE more[i - Len(r.buf)]
    BY <1>2, ConcatProperties
  <2> HIDE DEF buf
  <2>2. \A i \in 1 .. r.index + n : buf[i] = IF i <= r.index THEN r.buf[i] ELSE more[i - r.index]
    BY <2>1, <1>2
  <2>3. \A i \in 1 .. r.index : i \in 1 .. r.index + n /\ i <= r.index
    BY <1>1
  <2>4. \A i \in 1 .. n : /\ r.index + i \in 1 .. r.index + n /\ ~(r.index + i <= r.index)
                          /\ (r.index + i) - r.index = i
    BY <1>1
  <2>5. \A i \in 1 .. r.index : buf[i] = r.buf[i]
    BY <2>2, <2>3
  <2>6. ASSUME NEW i \in 1 .. n PROVE buf[r.index + i] = more[i]
    <3> DEFINE j == r.index + i
    <3>1. j \in 1 .. r.index + n /\ ~(j <= r.index) /\ j - r.index = i
      BY <2>4
    <3> HIDE DEF j
    <3>2. buf[j] = more[i]
      BY <2>2, <3>1
    <3>3. QED
      BY <3>2 DEF j
  <2>7. Len(buf) = r.index + n /\ buf \in Seq(NetData)
    BY <2>1, <1>2
  <2>8. QED
    BY <2>5, <2>6, <2>7
<1> HIDE DEF buf, u
<1>7. /\ u.type = r.type /\ u.sector = r.sector /\ u.n = r.n
      /\ u.index = r.index + n /\ u.buf = buf
      /\ u \in [type : {"IN", "OUT"}, sector : Nat, n : Nat, index : Nat, buf : Seq(NetData)]
  BY <1>4, <1>5, <1>6 DEF IsIo
<1>8. IsIo(u)
  BY <1>1, <1>3, <1>4, <1>6, <1>7 DEF IsIo
<1>9. ASSUME WithinCluster(r), HasRead(r, Contents(d)) PROVE HasRead(u, Contents(d))
  <2> SUFFICES ASSUME NEW i \in 1 .. r.index + n
               PROVE  buf[i] = Contents(d)[r.sector + i - 1]
    BY <1>7 DEF HasRead
  <2>1. CASE i \in 1 .. r.index
    BY <2>1, <1>6, <1>9 DEF HasRead
  <2>2. CASE i \notin 1 .. r.index
    <3> DEFINE k == i - r.index
    <3>1. k \in 1 .. n /\ i = r.index + k
      BY <2>2, <1>1
    <3> HIDE DEF k
    <3>2. buf[i] = more[k]
      BY <3>1, <1>6
    <3>3. NextSector(r) + (k - 1) = r.sector + i - 1
      BY <3>1, <1>1 DEF NextSector
    <3>4. QED
      BY <1>9, <3>1, <3>2, <3>3
  <2>3. QED
    BY <2>1, <2>2
<1>10. Turned(d, r, e, u)
  BY <1>1, <1>7, <1>8, <1>9 DEF Turned
<1>11. QED
  BY <1>7, <1>10 DEF u, buf

\* The k-th sector of a part that is copied is one of those asked for.
LEMMA WithinIo ==
  ASSUME NEW s \in Nat, NEW m \in Nat, NEW i \in Nat, NEW n \in Nat, NEW k \in Nat,
         n <= m - i, k >= 1, k <= n
  PROVE  /\ (s + i) + (k - 1) <= (s + m) - 1 /\ (s + i) + (k - 1) \in Nat
         /\ (s + i) + (k - 1) >= s
<1>1. k - 1 \in Nat /\ i + (k - 1) <= m - 1
  OBVIOUS
<1>2. QED
  BY <1>1

\* A read of sectors that are in a cluster.
LEMMA ReadAtCluster ==
  ASSUME NEW d \in Device, NEW r, IsIo(r), NEW w,
         r.type = "IN", Left(r) # 0, d.clusters[ClusterOf(r)] # <<>>
  PROVE  LET t == AtCluster([d |-> d, r |-> r, waits |-> w])
         IN  /\ t = [d |-> d, r |-> t.r, waits |-> w]
             /\ Turned(d, r, d, t.r) /\ t.r.index > r.index
<1> DEFINE c == d.clusters[ClusterOf(r)]
           C == SectorsPerCluster
           at == InCluster(r)
           x == NextSector(r)
           n == Smaller(Left(r), C - at)
           more == SubSeq(c, at + 1, at + n)
           u == Done(r, r.buf \o more, n)
           t == AtCluster([d |-> d, r |-> r, waits |-> w])
<1>1. t = [d |-> d, r |-> u, waits |-> w]
  BY DEF AtCluster
<1>2. /\ x \in NetSector /\ x \in Nat /\ x = r.sector + r.index
      /\ Left(r) \in Nat \ {0} /\ Left(r) = r.n - r.index
      /\ ClusterOf(r) \in Cluster /\ at \in Nat /\ at < C
  BY NextPlace, GeometryAssumption
<1>3. ClusterOf(r) = x \div C /\ at = x % C
  BY DEF InCluster, ClusterOf
<1>4. c \in [1 .. C -> NetData] /\ C \in Nat \ {0}
  BY <1>2, ClusterHas, GeometryAssumption
<1>5. r.sector \in Nat /\ r.n \in Nat /\ r.index \in Nat /\ r.index <= r.n
  BY DEF IsIo
<1> HIDE DEF c, C, at, x, u, t
<1>6. n \in Nat /\ 1 <= n /\ n <= C - at /\ n <= Left(r)
  BY <1>2, <1>4 DEF Smaller
<1> HIDE DEF n
<1>7. /\ more \in Seq(NetData) /\ Len(more) = n
      /\ \A i \in 1 .. n : more[i] = c[at + i]
  <2>1. c \in Seq(NetData) /\ Len(c) = C
    BY <1>4
  <2>2. at + 1 \in 1 .. Len(c) + 1 /\ at + n \in at .. Len(c)
    BY <1>2, <1>4, <1>6, <2>1
  <2>3. QED
    BY <1>2, <1>6, <2>1, <2>2, SubSeqProperties DEF more
<1> HIDE DEF more
<1>8. ASSUME NEW k \in 1 .. n PROVE more[k] = Contents(d)[x + (k - 1)]
  <2>1. k \in Nat /\ k >= 1 /\ k <= n
    BY <1>6
  <2>2. k - 1 \in Nat /\ at + (k - 1) < C
    BY <2>1, <1>2, <1>4, <1>6
  <2>3. (x + (k - 1)) \div C = x \div C /\ (x + (k - 1)) % C = (x % C) + (k - 1)
    BY <2>2, <1>2, <1>3, FurtherInCluster DEF C
  <2>4. x + (k - 1) \in NetSector
    <3>1. NbBlocks * SectorsPerBlock \in Nat
      BY GeometryAssumption
    <3>2. x + (k - 1) <= (r.sector + r.n) - 1 /\ x + (k - 1) \in Nat
      <4>1. n <= r.n - r.index
        BY <1>2, <1>6
      <4>2. x = r.sector + r.index
        BY <1>2
      <4>3. QED
        BY <4>1, <4>2, <2>1, <1>5, <1>6, WithinIo
    <3>3. QED
      BY <3>1, <3>2, <1>5 DEF NetSector, IsIo
  <2>5. d.clusters[(x + (k - 1)) \div C] = c /\ c # <<>>
    BY <2>3, <1>3 DEF c
  <2>6. Contents(d)[x + (k - 1)] = c[((x + (k - 1)) % C) + 1]
    BY <2>4, <2>5 DEF Contents, C
  <2>7. ((x % C) + (k - 1)) + 1 = at + k
    BY <2>1, <1>2, <1>3
  <2>8. QED
    BY <1>7, <2>3, <2>6, <2>7
<1>9. Turned(d, r, d, u) /\ u.index = r.index + n
  BY <1>6, <1>7, <1>8, ReadOn DEF u, x
<1>10. u.index > r.index
  BY <1>5, <1>6, <1>9
<1>11. t.r = u
  BY <1>1
<1>12. QED
  BY <1>1, <1>9, <1>10, <1>11 DEF t

\* A read of sectors that are in a block and in no cluster.
LEMMA ReadAtBlock ==
  ASSUME NEW d \in Device, NEW r, IsIo(r), NEW w,
         r.type = "IN", Left(r) # 0, d.clusters[ClusterOf(r)] = <<>>,
         d.cached_blocks[1].data = BlockImage(BlockOf(r))
  PROVE  LET t == AtBlock([d |-> d, r |-> r, waits |-> w])
         IN  /\ t = [d |-> [d EXCEPT !.cur_block_num = NoBlock], r |-> t.r, waits |-> w]
             /\ Turned(d, r, t.d, t.r) /\ t.r.index > r.index
<1> DEFINE b == BlockOf(r)
           data == d.cached_blocks[1].data
           B == SectorsPerBlock
           at == InBlock(r)
           x == NextSector(r)
           n == Smaller(Left(r), B - at)
           more == SubSeq(data, at + 1, at + n)
           u == Done(r, r.buf \o more, n)
           e == [d EXCEPT !.cur_block_num = NoBlock]
           t == AtBlock([d |-> d, r |-> r, waits |-> w])
<1>1. t = [d |-> e, r |-> u, waits |-> w]
  BY DEF AtBlock
<1>2. /\ x \in NetSector /\ x \in Nat /\ x = r.sector + r.index
      /\ Left(r) \in Nat \ {0} /\ Left(r) = r.n - r.index
      /\ ClusterOf(r) \in Cluster /\ at \in Nat /\ at < B /\ b \in Nat
  BY NextPlace, GeometryAssumption DEF Block
<1>3. x = B * b + at /\ B \in Nat \ {0}
  BY NextPlace, GeometryAssumption
<1>4. b = x \div B /\ ClusterOf(r) = x \div SectorsPerCluster
  BY DEF BlockOf, ClusterOf
<1>5. r.sector \in Nat /\ r.n \in Nat /\ r.index \in Nat /\ r.index <= r.n
  BY DEF IsIo
<1>6. data = [i \in 1 .. B |-> Image(b * B + i - 1)]
  BY DEF BlockImage
<1>7. e.clusters = d.clusters
  BY DEF Device
<1>8. Contents(e) = Contents(d)
  BY <1>7 DEF Contents
<1> HIDE DEF b, data, B, at, x, u, e, t
<1>9. n \in Nat /\ 1 <= n /\ n <= B - at /\ n <= Left(r)
  BY <1>2, <1>3 DEF Smaller
<1> HIDE DEF n
<1>10. NbBlocks * SectorsPerBlock \in Nat /\ r.sector + r.n <= NbBlocks * SectorsPerBlock
  BY GeometryAssumption DEF IsIo
<1>11. ASSUME NEW k \in 1 .. n
       PROVE  /\ k \in Nat /\ x + (k - 1) \in Nat /\ x + (k - 1) \in NetSector
              /\ x + (k - 1) \in r.sector .. r.sector + r.n - 1
              /\ (x + (k - 1)) \div B = b
  <2>1. k \in Nat /\ k >= 1 /\ k <= n
    BY <1>9
  <2>2. x + (k - 1) <= (r.sector + r.n) - 1 /\ x + (k - 1) \in Nat /\ x + (k - 1) >= r.sector
    <3>1. n \in Nat /\ n <= r.n - r.index
      BY <1>2, <1>9
    <3>2. x \in Nat /\ x = r.sector + r.index
      BY <1>2
    <3>3. QED
      BY <2>1, <3>1, <3>2, <1>5, WithinIo
  <2>3. x + (k - 1) \in NetSector
    BY <2>2, <1>5, <1>10 DEF NetSector
  <2> DEFINE j == at + (k - 1)
             y == B * b
  <2>4. j \in 0 .. B - 1
    BY <2>1, <1>2, <1>3, <1>9
  <2>5. y \in Nat /\ x = y + at
    BY <1>2, <1>3
  <2> HIDE DEF y
  <2>6. x + (k - 1) = y + j
    BY <2>1, <2>5, <1>2
  <2> HIDE DEF j
  <2>7. (B * b + j) \div B = b
    BY <2>4, <1>2, <1>3, DivModUnique
  <2>8. (x + (k - 1)) \div B = b
    BY <2>6, <2>7 DEF y
  <2>9. QED
    BY <2>1, <2>2, <2>3, <2>8, <1>5
<1>12. /\ more \in Seq(NetData) /\ Len(more) = n
       /\ \A k \in 1 .. n : more[k] = Image(x + (k - 1))
  <2>1. \A i \in at + 1 .. at + n : data[i] = Image(x + (i - at - 1)) /\ data[i] \in NetData
    <3> TAKE i \in at + 1 .. at + n
    <3>1. i \in 1 .. B /\ i - at \in 1 .. n /\ i \in Nat
      BY <1>2, <1>3, <1>9
    <3> DEFINE k == i - at
    <3>2. k \in 1 .. n /\ i = at + k /\ k \in Nat
      BY <3>1, <1>2, <1>9
    <3> HIDE DEF k
    <3>3. x + (k - 1) \in NetSector
      BY <3>2, <1>11
    <3>4. b * B + i - 1 = x + (k - 1)
      <4> DEFINE y == B * b
      <4>1. y \in Nat /\ x = y + at /\ b * B = y
        BY <1>2, <1>3
      <4> HIDE DEF y
      <4>2. y + i - 1 = x + (k - 1)
        BY <4>1, <3>2, <1>2
      <4>3. QED
        BY <4>1, <4>2
    <3>5. data[i] = Image(x + (k - 1))
      BY <3>1, <3>4, <1>6
    <3>6. (i - at) - 1 = k - 1
      BY <3>2, <1>2
    <3>7. Image(x + (k - 1)) \in NetData
      BY <3>3 DEF NetData
    <3>8. QED
      BY <3>5, <3>6, <3>7
  <2>2. at + 1 \in Int /\ at + n \in Int /\ (at + n) - (at + 1) + 1 = n /\ at + 1 <= at + n
    BY <1>2, <1>9
  <2>3. /\ more \in Seq(NetData) /\ Len(more) = n
        /\ \A k \in 1 .. n : more[k] = data[at + 1 + k - 1]
    BY <2>1, <2>2, SubSeqProperties DEF more
  <2>4. \A k \in 1 .. n : /\ at + 1 + k - 1 \in at + 1 .. at + n
                          /\ (at + 1 + k - 1) - at - 1 = k - 1
    BY <1>2, <1>9
  <2>5. ASSUME NEW k \in 1 .. n PROVE more[k] = Image(x + (k - 1))
    <3> DEFINE i == at + 1 + k - 1
    <3>1. i \in at + 1 .. at + n /\ (i - at) - 1 = k - 1
      BY <2>4
    <3>2. more[k] = data[i]
      BY <2>3
    <3> HIDE DEF i
    <3>3. data[i] = Image(x + ((i - at) - 1))
      BY <2>1, <3>1
    <3>4. QED
      BY <3>1, <3>2, <3>3
  <2>6. QED
    BY <2>3, <2>5
<1> HIDE DEF more
<1>13. ASSUME WithinCluster(r), NEW k \in 1 .. n
       PROVE  more[k] = Contents(d)[x + (k - 1)]
  <2> DEFINE y == x + (k - 1)
  <2>1. /\ y \in NetSector /\ y \in r.sector .. r.sector + r.n - 1 /\ y \div B = b
    BY <1>11
  <2>2. x \in r.sector .. r.sector + r.n - 1
    BY <1>2, <1>5
  <2> HIDE DEF y
  <2>3. y \div SectorsPerBlock = x \div SectorsPerBlock
    BY <2>1, <1>4 DEF B
  <2>4. y \div SectorsPerCluster = x \div SectorsPerCluster
    BY <1>13, <2>1, <2>2, <2>3 DEF WithinCluster
  <2>5. d.clusters[y \div SectorsPerCluster] = <<>>
    BY <2>4, <1>4
  <2>6. Contents(d)[y] = Image(y)
    BY <2>1, <2>5 DEF Contents
  <2>7. QED
    BY <2>6, <1>12 DEF y
<1>14. Turned(d, r, e, u) /\ u.index = r.index + n
  BY <1>8, <1>9, <1>12, <1>13, ReadOn DEF u, x
<1>15. u.index > r.index
  BY <1>5, <1>9, <1>14
<1>16. t.r = u /\ t.d = e
  BY <1>1
<1>17. t = [d |-> e, r |-> t.r, waits |-> w]
  BY <1>1, <1>16
<1>18. QED
  BY <1>14, <1>15, <1>16, <1>17 DEF t, e

\* Only the clusters differ, and what is under way is as it was.
SameButClusters(d, e) ==
  /\ e \in Device
  /\ e.cached_blocks = d.cached_blocks /\ e.transfers = d.transfers
  /\ e.cur_block_num = d.cur_block_num /\ e.aborted = d.aborted

LEMMA ClusterReplaced ==
  ASSUME NEW d \in Device, NEW c \in Cluster, NEW new \in ClusterData
  PROVE  LET e == [d EXCEPT !.clusters[c] = new]
         IN  SameButClusters(d, e) /\ e.clusters = [d.clusters EXCEPT ![c] = new]
<1>1. d.clusters \in [Cluster -> ClusterData]
  BY DEF Device
<1>2. [d EXCEPT !.clusters[c] = new] = [d EXCEPT !.clusters = [d.clusters EXCEPT ![c] = new]]
  OBVIOUS
<1> DEFINE f == [d.clusters EXCEPT ![c] = new]
<1>3. f \in [Cluster -> ClusterData]
  BY <1>1
<1> HIDE DEF f
<1>4. [d EXCEPT !.clusters = f].clusters = f /\ SameButClusters(d, [d EXCEPT !.clusters = f])
  BY <1>3 DEF SameButClusters, Device
<1>5. QED
  BY <1>2, <1>4 DEF f

\* A write of sectors that are in a cluster.
LEMMA WriteAtCluster ==
  ASSUME NEW d \in Device, NEW r, IsIo(r), NEW w,
         r.type = "OUT", Left(r) # 0, d.clusters[ClusterOf(r)] # <<>>
  PROVE  LET t == AtCluster([d |-> d, r |-> r, waits |-> w])
         IN  /\ t = [d |-> t.d, r |-> t.r, waits |-> w] /\ SameButClusters(d, t.d)
             /\ Turned(d, r, t.d, t.r) /\ t.r.index > r.index
<1> DEFINE p == ClusterOf(r)
           c == d.clusters[p]
           C == SectorsPerCluster
           at == InCluster(r)
           x == NextSector(r)
           n == Smaller(Left(r), C - at)
           new == [i \in DOMAIN c |-> IF i - at \in 1 .. n THEN r.buf[r.index + i - at] ELSE c[i]]
           u == Done(r, r.buf, n)
           e == [d EXCEPT !.clusters[p] = new]
           t == AtCluster([d |-> d, r |-> r, waits |-> w])
<1>1. t = [d |-> e, r |-> u, waits |-> w]
  BY DEF AtCluster
<1>2. /\ x \in NetSector /\ x \in Nat /\ x = r.sector + r.index
      /\ Left(r) \in Nat \ {0} /\ Left(r) = r.n - r.index
      /\ p \in Cluster /\ at \in Nat /\ at < C
  BY NextPlace, GeometryAssumption
<1>3. p = x \div C /\ at = x % C
  BY DEF InCluster, ClusterOf
<1>4. c \in [1 .. C -> NetData] /\ C \in Nat \ {0}
  BY <1>2, ClusterHas, GeometryAssumption
<1>5. r.sector \in Nat /\ r.n \in Nat /\ r.index \in Nat /\ r.index <= r.n
  BY DEF IsIo
<1>6. r.buf \in Seq(NetData) /\ Len(r.buf) = r.n
  BY DEF IsIo
<1>7. x = C * p + at
  BY NextPlace
<1>8. u = [r EXCEPT !.index = r.index + n]
  BY DEF Done, IsIo
<1> HIDE DEF p, c, C, at, x, u, e, t
<1>9. n \in Nat /\ 1 <= n /\ n <= C - at /\ n <= Left(r)
  BY <1>2, <1>4 DEF Smaller
<1> HIDE DEF n
<1>10. \A i \in 1 .. C : i - at \in 1 .. n => r.buf[r.index + i - at] \in NetData
  <2> SUFFICES ASSUME NEW i \in 1 .. C, i - at \in 1 .. n
               PROVE  r.buf[r.index + i - at] \in NetData
    OBVIOUS
  <2> DEFINE j == r.index + i - at
  <2>1. j \in 1 .. r.n
    BY <1>2, <1>5, <1>9
  <2> HIDE DEF j
  <2>2. r.buf[j] \in NetData
    BY <2>1, <1>6
  <2>3. QED
    BY <2>2 DEF j
<1>11. new \in [1 .. C -> NetData]
  <2>1. DOMAIN c = 1 .. C /\ \A i \in 1 .. C : c[i] \in NetData
    BY <1>4
  <2>2. QED
    BY <2>1, <1>10
<1>12. \A i \in 1 .. C : new[i] = IF i - at \in 1 .. n THEN r.buf[r.index + i - at] ELSE c[i]
  BY <1>4
<1> HIDE DEF new
<1>13. new \in ClusterData /\ new # <<>>
  BY <1>4, <1>11 DEF ClusterData, C
<1>14. SameButClusters(d, e) /\ e.clusters = [d.clusters EXCEPT ![p] = new]
  BY <1>2, <1>13, ClusterReplaced DEF e
<1>15. d.clusters \in [Cluster -> ClusterData]
  BY DEF Device
<1>16. /\ u.type = r.type /\ u.sector = r.sector /\ u.n = r.n
       /\ u.index = r.index + n /\ u.buf = r.buf
       /\ u \in [type : {"IN", "OUT"}, sector : Nat, n : Nat, index : Nat, buf : Seq(NetData)]
  <2>1. r.index + n \in Nat
    BY <1>5, <1>9
  <2>2. QED
    BY <1>8, <2>1 DEF IsIo
<1>17. IsIo(u)
  <2>1. u.index <= u.n
    BY <1>2, <1>5, <1>9, <1>16
  <2>2. QED
    BY <2>1, <1>6, <1>16 DEF IsIo
<1>18. ASSUME NEW y \in NetSector
       PROVE  Contents(e)[y] = Overwritten(Contents(d), r, r.index, u.index)[y]
  <2> DEFINE k == y - r.sector
             q == y \div C
             m == y % C
  <2>1. /\ y \in Nat /\ q \in Cluster /\ m \in 0 .. C - 1 /\ y = C * q + m
    BY Geometry DEF C
  <2>2. Overwritten(Contents(d), r, r.index, u.index)[y]
          = IF k \in r.index .. (r.index + n) - 1 THEN r.buf[k + 1] ELSE Contents(d)[y]
    BY <1>16 DEF Overwritten
  <2>3. Contents(d)[y] = IF d.clusters[q] # <<>> THEN d.clusters[q][m + 1] ELSE Image(y)
    BY DEF Contents, C
  <2>4. Contents(e)[y] = IF e.clusters[q] # <<>> THEN e.clusters[q][m + 1] ELSE Image(y)
    BY DEF Contents, C
  <2>5. k \in Int /\ y = r.sector + k
    BY <2>1, <1>5
  <2>a. y \in Nat /\ m \in Nat /\ m <= C - 1
    BY <2>1, <1>4
  <2> HIDE DEF q, m, k
  <2>6. CASE q = p
    <3>1. e.clusters[q] = new /\ d.clusters[q] = c /\ c # <<>>
      BY <2>1, <2>6, <1>14, <1>15 DEF c, p
    <3>2. Contents(e)[y] = new[m + 1] /\ Contents(d)[y] = c[m + 1]
      BY <3>1, <2>3, <2>4, <1>13
    <3>3. y - x = m - at
      <4> DEFINE z == C * p
      <4>1. z \in Nat /\ y = z + m /\ x = z + at
        BY <2>1, <2>6, <1>2, <1>4, <1>7 DEF Cluster
      <4> HIDE DEF z
      <4>2. QED
        BY <4>1, <2>1, <1>2
    <3>4. m + 1 \in 1 .. C /\ m \in Nat
      BY <2>1, <1>4
    <3>5. (m + 1) - at = (k - r.index) + 1
      <4>1. y = r.sector + k /\ x = r.sector + r.index /\ k \in Int
        BY <2>5, <1>2
      <4>2. y - x = k - r.index
        BY <4>1, <1>5
      <4>3. m - at = k - r.index
        BY <4>2, <3>3
      <4>4. QED
        BY <4>3, <2>a, <2>5, <1>2, <1>5
    <3>6. (m + 1) - at \in 1 .. n <=> k \in r.index .. (r.index + n) - 1
      BY <3>4, <3>5, <2>5, <1>2, <1>5, <1>9
    <3>7. r.index + (m + 1) - at = k + 1
      BY <3>4, <3>5, <2>5, <1>2, <1>5
    <3>8. new[m + 1] = IF (m + 1) - at \in 1 .. n THEN r.buf[r.index + (m + 1) - at] ELSE c[m + 1]
      BY <3>4, <1>12
    <3>9. QED
      BY <3>2, <3>6, <3>7, <3>8, <2>2
  <2>7. CASE q # p
    <3>1. e.clusters[q] = d.clusters[q]
      BY <2>1, <2>7, <1>14, <1>15
    <3>2. Contents(e)[y] = Contents(d)[y]
      BY <3>1, <2>3, <2>4
    <3>3. ASSUME k \in r.index .. (r.index + n) - 1 PROVE FALSE
      <4> DEFINE h == k - r.index
      <4>1. h \in Nat /\ at + h < C /\ x + h = y
        <5>1. h \in Nat /\ h <= n - 1
          BY <3>3, <2>5, <1>5, <1>9
        <5>2. at + h < C
          BY <5>1, <1>2, <1>4, <1>9
        <5>3. x + h = y
          BY <2>5, <1>2, <1>5
        <5>4. QED
          BY <5>1, <5>2, <5>3
      <4> HIDE DEF h
      <4>2. (x + h) \div C = x \div C
        BY <4>1, <1>2, <1>3, FurtherInCluster DEF C
      <4>3. QED
        BY <4>1, <4>2, <2>7, <1>3 DEF q
    <3>4. QED
      BY <3>2, <3>3, <2>2
  <2>8. QED
    BY <2>6, <2>7
<1>19. Contents(e) = Overwritten(Contents(d), r, r.index, u.index)
  BY <1>18 DEF Contents, Overwritten
<1>20. Turned(d, r, e, u)
  BY <1>5, <1>9, <1>16, <1>17, <1>19 DEF Turned
<1>21. u.index > r.index
  BY <1>5, <1>9, <1>16
<1>22. t.r = u /\ t.d = e
  BY <1>1
<1>23. t = [d |-> t.d, r |-> t.r, waits |-> w]
  BY <1>1, <1>22
<1>24. QED
  BY <1>14, <1>20, <1>21, <1>22, <1>23 DEF t

\* Nothing has been done yet.
LEMMA NothingTurned ==
  ASSUME NEW d, NEW e, Contents(e) = Contents(d), NEW r, IsIo(r)
  PROVE  Turned(d, r, e, r)
<1>1. r.index \in Nat
  BY DEF IsIo
<1>2. Overwritten(Contents(d), r, r.index, r.index) = Contents(d)
  <2>1. \A y \in NetSector : ~(y - r.sector \in r.index .. r.index - 1)
    BY <1>1 DEF IsIo, NetSector
  <2>2. QED
    BY <2>1 DEF Overwritten, Contents
<1>3. QED
  BY <1>1, <1>2 DEF Turned

\* A write of sectors that are in a block makes a cluster of what is there.
LEMMA WriteAtBlock ==
  ASSUME NEW d \in Device, NEW r, IsIo(r), NEW w,
         r.type = "OUT", Left(r) # 0, d.clusters[ClusterOf(r)] = <<>>,
         d.cached_blocks[1].data = BlockImage(BlockOf(r))
  PROVE  LET t == AtBlock([d |-> d, r |-> r, waits |-> w])
         IN  /\ t = [d |-> t.d, r |-> r, waits |-> w] /\ SameButClusters(d, t.d)
             /\ Turned(d, r, t.d, r) /\ t.d.clusters[ClusterOf(r)] # <<>>
<1> DEFINE p == ClusterOf(r)
           b == BlockOf(r)
           C == SectorsPerCluster
           B == SectorsPerBlock
           x == NextSector(r)
           data == d.cached_blocks[1].data
           at == (p * C) % B
           new == SubSeq(data, at + 1, at + C)
           e == [d EXCEPT !.clusters[p] = new]
           t == AtBlock([d |-> d, r |-> r, waits |-> w])
<1>1. t = [d |-> e, r |-> r, waits |-> w]
  BY DEF AtBlock, NewCluster
<1>2. x \in NetSector /\ p \in Cluster /\ b \in Nat
  BY NextPlace DEF Block
<1>3. C \in Nat \ {0} /\ B \in Nat \ {0}
  BY GeometryAssumption
<1>4. p = x \div C /\ b = x \div B
  BY DEF BlockOf, ClusterOf
<1>5. at \in Nat /\ at + C <= B /\ b * B + at = p * C
  BY <1>2, <1>4, ClusterWithinBlock
<1>6. data = [i \in 1 .. B |-> Image(b * B + i - 1)]
  BY DEF BlockImage
<1>7. d.clusters \in [Cluster -> ClusterData]
  BY DEF Device
<1>8. p \in Nat /\ \A m \in 0 .. C - 1 : p * C + m \in NetSector
  <2>1. p \in Nat /\ p < NbBlocks * (B \div C)
    BY <1>2, <1>3, GeometryAssumption, DivMod DEF Cluster
  <2> DEFINE k == B \div C
  <2>2. k \in Nat /\ B = C * k
    <3>1. B \div C \in Nat /\ B = C * (B \div C) + (B % C) /\ B % C = 0
      BY <1>3, GeometryAssumption, DivMod
    <3>2. QED
      BY <3>1, <1>3
  <2> HIDE DEF k, p
  <2> DEFINE N == NbBlocks * k
  <2>3. N \in Nat /\ p < N
    BY <2>1, <2>2, GeometryAssumption DEF k
  <2>4. NbBlocks * B = C * N
    BY <2>2, <1>3, GeometryAssumption
  <2> HIDE DEF N
  <2>5. p + 1 <= N /\ p \in Nat /\ p + 1 \in Nat
    BY <2>1, <2>3
  <2>6. C * (p + 1) <= C * N
    BY <2>3, <2>5, <1>3
  <2>7. C * (p + 1) = p * C + C
    BY <2>1, <1>3
  <2> DEFINE y == p * C
             z == C * N
  <2>8. y \in Nat /\ z \in Nat
    BY <2>1, <2>3, <1>3
  <2>9. y + C <= z
    BY <2>6, <2>7
  <2>10. z = NbBlocks * SectorsPerBlock
    BY <2>4 DEF B
  <2> HIDE DEF y, z
  <2>11. \A m \in 0 .. C - 1 : y + m \in 0 .. z - 1
    BY <2>8, <2>9, <1>3
  <2>12. QED
    BY <2>1, <2>10, <2>11 DEF NetSector, y
<1> HIDE DEF p, b, C, B, x, data, at, e, t
<1>9. /\ new \in [1 .. C -> NetData]
      /\ \A m \in 0 .. C - 1 : new[m + 1] = Image(p * C + m)
  <2>1. \A i \in at + 1 .. at + C :
          data[i] = Image(p * C + ((i - at) - 1)) /\ data[i] \in NetData
    <3> TAKE i \in at + 1 .. at + C
    <3> DEFINE m == (i - at) - 1
               y == b * B
               z == p * C
    <3>1. i \in 1 .. B /\ m \in 0 .. C - 1 /\ i = at + m + 1 /\ m \in Nat
      BY <1>3, <1>5
    <3>2. y \in Nat /\ z \in Nat /\ z = y + at
      BY <1>2, <1>3, <1>5, <1>8
    <3>3. data[i] = Image(y + i - 1)
      BY <3>1, <1>6
    <3>4. z + m \in NetSector
      BY <3>1, <1>8
    <3> HIDE DEF m, y, z
    <3>5. y + i - 1 = z + m
      BY <3>1, <3>2, <1>5
    <3>6. data[i] = Image(z + m)
      BY <3>3, <3>5
    <3>7. Image(z + m) \in NetData
      BY <3>4 DEF NetData
    <3>8. QED
      BY <3>6, <3>7 DEF m, z
  <2>2. at + 1 \in Int /\ at + C \in Int /\ (at + C) - (at + 1) + 1 = C /\ at + 1 <= at + C
    BY <1>3, <1>5
  <2>3. /\ new \in Seq(NetData) /\ Len(new) = C
        /\ \A k \in 1 .. C : new[k] = data[at + 1 + k - 1]
    BY <2>1, <2>2, SubSeqProperties
  <2> HIDE DEF new
  <2>4. ASSUME NEW m \in 0 .. C - 1 PROVE new[m + 1] = Image(p * C + m)
    <3> DEFINE i == at + 1 + (m + 1) - 1
    <3>1. m + 1 \in 1 .. C /\ i \in at + 1 .. at + C /\ (i - at) - 1 = m
      BY <1>3, <1>5
    <3>2. new[m + 1] = data[i]
      BY <2>3, <3>1
    <3> HIDE DEF i
    <3>3. data[i] = Image(p * C + ((i - at) - 1))
      BY <2>1, <3>1
    <3>4. QED
      BY <3>1, <3>2, <3>3
  <2>5. QED
    BY <2>3, <2>4
<1> HIDE DEF new
<1>10. new \in ClusterData /\ new # <<>>
  BY <1>3, <1>9 DEF ClusterData, C
<1>11. SameButClusters(d, e) /\ e.clusters = [d.clusters EXCEPT ![p] = new]
  BY <1>2, <1>10, ClusterReplaced DEF e
<1>12. e.clusters[p] = new
  BY <1>2, <1>7, <1>11
<1>13. ASSUME NEW y \in NetSector
       PROVE  Contents(e)[y] = Contents(d)[y]
  <2> DEFINE q == y \div C
             m == y % C
  <2>1. /\ q \in Cluster /\ q \in Nat /\ m \in 0 .. C - 1 /\ y = C * q + m
    BY Geometry DEF C, Cluster
  <2>2. Contents(d)[y] = IF d.clusters[q] # <<>> THEN d.clusters[q][m + 1] ELSE Image(y)
    BY DEF Contents, C
  <2>3. Contents(e)[y] = IF e.clusters[q] # <<>> THEN e.clusters[q][m + 1] ELSE Image(y)
    BY DEF Contents, C
  <2> HIDE DEF q, m
  <2>4. CASE q = p
    <3>1. d.clusters[q] = <<>> /\ e.clusters[q] = new
      BY <2>4, <1>12 DEF p
    <3>2. Contents(e)[y] = new[m + 1] /\ Contents(d)[y] = Image(y)
      BY <3>1, <2>2, <2>3, <1>10
    <3>3. p * C + m = y
      BY <2>1, <2>4, <1>3
    <3>4. QED
      BY <3>2, <3>3, <2>1, <1>9
  <2>5. CASE q # p
    BY <2>1, <2>2, <2>3, <2>5, <1>7, <1>11
  <2>6. QED
    BY <2>4, <2>5
<1>14. Contents(e) = Contents(d)
  BY <1>13 DEF Contents
<1>15. Turned(d, r, e, r)
  BY <1>14, NothingTurned
<1>16. t.d = e
  BY <1>1
<1>17. t = [d |-> t.d, r |-> r, waits |-> w]
  BY <1>1, <1>16
<1>18. QED
  BY <1>10, <1>11, <1>12, <1>15, <1>16, <1>17 DEF t, p

\* Turns one after the other.
LEMMA TurnedTwice ==
  ASSUME NEW d, NEW r, IsIo(r), NEW e, NEW u, Turned(d, r, e, u),
         NEW f, NEW v, Turned(e, u, f, v)
  PROVE  Turned(d, r, f, v)
<1>1. /\ r.index \in Nat /\ u.index \in Nat /\ v.index \in Nat
      /\ r.index <= u.index /\ u.index <= v.index /\ r.sector \in Nat
  BY DEF Turned, IsIo
<1>2. v.type = r.type /\ v.sector = r.sector /\ v.n = r.n /\ r.index <= v.index /\ IsIo(v)
  BY <1>1 DEF Turned
<1>3. ASSUME r.type = "OUT"
      PROVE  /\ v.buf = r.buf
             /\ Contents(f) = Overwritten(Contents(d), r, r.index, v.index)
  <2>1. /\ u.type = "OUT" /\ u.buf = r.buf /\ v.buf = r.buf /\ u.sector = r.sector
        /\ Contents(e) = Overwritten(Contents(d), r, r.index, u.index)
        /\ Contents(f) = Overwritten(Contents(e), u, u.index, v.index)
    BY <1>3 DEF Turned
  <2>2. ASSUME NEW x \in NetSector
        PROVE  Contents(f)[x] = Overwritten(Contents(d), r, r.index, v.index)[x]
    <3> DEFINE k == x - r.sector
    <3>1. k \in Int
      BY <1>1 DEF NetSector
    <3>2. Contents(e)[x] = IF k \in r.index .. u.index - 1 THEN r.buf[k + 1] ELSE Contents(d)[x]
      BY <2>1 DEF Overwritten
    <3>3. Contents(f)[x] = IF k \in u.index .. v.index - 1 THEN r.buf[k + 1] ELSE Contents(e)[x]
      BY <2>1 DEF Overwritten
    <3>4. Overwritten(Contents(d), r, r.index, v.index)[x]
            = IF k \in r.index .. v.index - 1 THEN r.buf[k + 1] ELSE Contents(d)[x]
      BY DEF Overwritten
    <3> HIDE DEF k
    <3>5. k \in r.index .. v.index - 1
            <=> k \in r.index .. u.index - 1 \/ k \in u.index .. v.index - 1
      BY <1>1, <3>1
    <3>6. QED
      BY <3>2, <3>3, <3>4, <3>5
  <2>3. QED
    BY <2>1, <2>2 DEF Contents, Overwritten
<1>4. ASSUME r.type = "IN"
      PROVE  /\ Contents(f) = Contents(d)
             /\ WithinCluster(r) /\ HasRead(r, Contents(d)) => HasRead(v, Contents(d))
  <2>1. u.type = "IN" /\ u.sector = r.sector /\ u.n = r.n
    BY <1>4 DEF Turned
  <2>2. WithinCluster(r) => WithinCluster(u)
    BY <2>1, <1>4 DEF WithinCluster
  <2>3. QED
    BY <1>4, <2>1, <2>2 DEF Turned
<1>5. QED
  BY <1>2, <1>3, <1>4 DEF Turned

\* What holds between the turns: a request that waits does so for a block that
\* is being loaded, and one that goes on is not taken to wait.
Steady(d, r, w, g) ==
  /\ DeviceInv(d, g) /\ IsIo(r) /\ w \in BOOLEAN
  /\ w => /\ d.cur_block_num = BlockOf(r) /\ d.cur_block_num \in LoadingIn(d.cached_blocks)
          /\ Left(r) # 0
  /\ ~w => d.cur_block_num \notin LoadingIn(d.cached_blocks)

\* The turns that a request needs at most.
Todo(d, r) ==
  IF Left(r) = 0 THEN 0
  ELSE IF d.clusters[ClusterOf(r)] # <<>> THEN 2 * Left(r) - 1 ELSE 2 * Left(r)

LEMMA FewerLeft ==
  ASSUME NEW d, NEW r, IsIo(r), NEW e, NEW u, IsIo(u), u.n = r.n,
         Left(r) # 0, u.index > r.index
  PROVE  Todo(e, u) <= Todo(d, r) - 1
<1>1. /\ Left(r) \in Nat /\ Left(u) \in Nat /\ Left(u) <= Left(r) - 1
  BY DEF IsIo, Left
<1>2. Todo(e, u) \in Nat /\ Todo(e, u) <= 2 * Left(u)
  BY <1>1 DEF Todo
<1>3. Todo(d, r) \in Nat /\ Todo(d, r) >= 2 * Left(r) - 1
  BY <1>1 DEF Todo
<1>4. QED
  BY <1>1, <1>2, <1>3

\* A device that differs in its clusters or in the block looked at only.
LEMMA SameCache ==
  ASSUME NEW d, NEW g, DeviceInv(d, g), NEW e \in Device,
         e.cached_blocks = d.cached_blocks, e.transfers = d.transfers, e.aborted = d.aborted
  PROVE  DeviceInv(e, g)
<1>1. LoadingIn(d.cached_blocks) \subseteq LoadingIn(e.cached_blocks) /\ IsCache(e.cached_blocks)
  BY DEF DeviceInv
<1>2. ~e.aborted
  BY DEF DeviceInv
<1>3. QED
  BY <1>1, <1>2, SameWanted

LEMMA TurnAtCluster ==
  ASSUME NEW d, NEW r, NEW g, Steady(d, r, FALSE, g),
         Left(r) # 0, d.clusters[ClusterOf(r)] # <<>>
  PROVE  LET t == AtCluster([d |-> d, r |-> r, waits |-> FALSE])
         IN  /\ t = [d |-> t.d, r |-> t.r, waits |-> FALSE]
             /\ Steady(t.d, t.r, FALSE, g) /\ Turned(d, r, t.d, t.r)
             /\ Todo(t.d, t.r) <= Todo(d, r) - 1
<1> DEFINE t == AtCluster([d |-> d, r |-> r, waits |-> FALSE])
<1>1. d \in Device /\ IsIo(r) /\ d.cur_block_num \notin LoadingIn(d.cached_blocks) /\ DeviceInv(d, g)
  BY DEF Steady, DeviceInv
<1>2. r.type \in {"IN", "OUT"}
  BY <1>1 DEF IsIo
<1>3. /\ t = [d |-> t.d, r |-> t.r, waits |-> FALSE] /\ SameButClusters(d, t.d)
      /\ Turned(d, r, t.d, t.r) /\ t.r.index > r.index
  <2>1. CASE r.type = "IN"
    <3>1. /\ t = [d |-> d, r |-> t.r, waits |-> FALSE]
          /\ Turned(d, r, d, t.r) /\ t.r.index > r.index
      BY <1>1, <2>1, ReadAtCluster
    <3> HIDE DEF t
    <3>2. t.d = d
      BY <3>1
    <3>3. QED
      BY <1>1, <3>1, <3>2 DEF SameButClusters
  <2>2. CASE r.type = "OUT"
    BY <1>1, <2>2, WriteAtCluster
  <2>3. QED
    BY <1>2, <2>1, <2>2
<1> HIDE DEF t
<1>4. IsIo(t.r) /\ t.r.n = r.n
  BY <1>3 DEF Turned
<1>5. DeviceInv(t.d, g)
  BY <1>1, <1>3, SameCache DEF SameButClusters
<1>6. Steady(t.d, t.r, FALSE, g)
  BY <1>1, <1>3, <1>4, <1>5 DEF Steady, SameButClusters
<1>7. Todo(t.d, t.r) <= Todo(d, r) - 1
  BY <1>1, <1>3, <1>4, FewerLeft
<1>8. QED
  BY <1>3, <1>6, <1>7 DEF t

\* A block at hand that has been loaded.
LEMMA TurnAtBlock ==
  ASSUME NEW d, NEW r, NEW g, DeviceInv(d, g), IsIo(r),
         Left(r) # 0, d.clusters[ClusterOf(r)] = <<>>,
         d.cached_blocks # <<>>, d.cached_blocks[1].block_num = BlockOf(r),
         d.cached_blocks[1].state # "LOADING", d.cur_block_num = BlockOf(r)
  PROVE  LET t == AtBlock([d |-> d, r |-> r, waits |-> FALSE])
         IN  /\ t = [d |-> t.d, r |-> t.r, waits |-> FALSE]
             /\ Steady(t.d, t.r, FALSE, g) /\ Turned(d, r, t.d, t.r)
             /\ Todo(t.d, t.r) <= Todo(d, r) - 1
<1> DEFINE t == AtBlock([d |-> d, r |-> r, waits |-> FALSE])
           q == d.cached_blocks
<1>1. d \in Device /\ IsCache(q)
  BY DEF DeviceInv
<1>2. q \in Seq(Cached) /\ 1 \in DOMAIN q /\ q[1] \in Cached
  BY <1>1 DEF IsCache
<1>3. q[1].data = BlockImage(BlockOf(r))
  BY <1>2 DEF Cached
<1>4. BlockOf(r) \notin LoadingIn(q)
  <2> SUFFICES ASSUME NEW i \in DOMAIN q, q[i].state = "LOADING", q[i].block_num = BlockOf(r)
               PROVE  FALSE
    BY DEF LoadingIn
  <2>1. i = 1
    BY <1>1, <1>2 DEF IsCache
  <2>2. QED
    BY <2>1
<1>5. NoBlock \notin LoadingIn(q)
  <2>1. \A i \in DOMAIN q : q[i].block_num \in Block
    BY <1>2 DEF Cached
  <2>2. NoBlock \notin Block
    BY DEF NoBlock, Block
  <2>3. QED
    BY <2>1, <2>2 DEF LoadingIn
<1>6. r.type \in {"IN", "OUT"}
  BY DEF IsIo
<1>7. CASE r.type = "IN"
  <2> DEFINE e == [d EXCEPT !.cur_block_num = NoBlock]
  <2>1. /\ t = [d |-> e, r |-> t.r, waits |-> FALSE]
        /\ Turned(d, r, t.d, t.r) /\ t.r.index > r.index
    BY <1>1, <1>3, <1>7, ReadAtBlock
  <2>2. /\ e \in Device /\ e.cached_blocks = q /\ e.transfers = d.transfers
        /\ e.aborted = d.aborted /\ e.cur_block_num = NoBlock
    BY <1>1 DEF Device
  <2> HIDE DEF t, e
  <2>3. t.d = e /\ t = [d |-> t.d, r |-> t.r, waits |-> FALSE]
    BY <2>1
  <2>4. IsIo(t.r) /\ t.r.n = r.n
    BY <2>1 DEF Turned
  <2>5. DeviceInv(e, g)
    BY <2>2, SameCache
  <2>6. Steady(t.d, t.r, FALSE, g)
    BY <1>5, <2>2, <2>3, <2>4, <2>5 DEF Steady
  <2>7. Todo(t.d, t.r) <= Todo(d, r) - 1
    BY <2>1, <2>4, FewerLeft
  <2>8. QED
    BY <2>1, <2>3, <2>6, <2>7 DEF t
<1>8. CASE r.type = "OUT"
  <2>1. /\ t = [d |-> t.d, r |-> r, waits |-> FALSE] /\ SameButClusters(d, t.d)
        /\ Turned(d, r, t.d, r) /\ t.d.clusters[ClusterOf(r)] # <<>>
    BY <1>1, <1>3, <1>8, WriteAtBlock
  <2> HIDE DEF t
  <2>2. t.r = r /\ t = [d |-> t.d, r |-> t.r, waits |-> FALSE]
    BY <2>1
  <2>3. DeviceInv(t.d, g)
    BY <2>1, SameCache DEF SameButClusters
  <2>4. Steady(t.d, t.r, FALSE, g)
    BY <1>4, <2>1, <2>2, <2>3 DEF Steady, SameButClusters
  <2>5. Todo(t.d, r) <= Todo(d, r) - 1
    <3>1. Left(r) \in Nat
      BY DEF Left, IsIo
    <3>2. Todo(t.d, r) = 2 * Left(r) - 1 /\ Todo(d, r) = 2 * Left(r)
      BY <2>1 DEF Todo
    <3>3. QED
      BY <3>1, <3>2
  <2>6. QED
    BY <2>1, <2>2, <2>4, <2>5 DEF t
<1>9. QED
  BY <1>6, <1>7, <1>8

\* One turn, whatever it finds.
LEMMA OneTurn ==
  ASSUME NEW d, NEW r, NEW w, NEW g, Steady(d, r, w, g)
  PROVE  LET s == [d |-> d, r |-> r, waits |-> w]
             t == RwTurn(s)
         IN  /\ t = [d |-> t.d, r |-> t.r, waits |-> t.waits]
             /\ Steady(t.d, t.r, t.waits, g) /\ Turned(d, r, t.d, t.r)
             /\ w => t = s
             /\ ~t.waits => Todo(t.d, t.r) <= Todo(d, r) - 1 \/ Todo(t.d, t.r) = 0
<1> DEFINE b == BlockOf(r)
           s == [d |-> d, r |-> r, waits |-> w]
           d2 == [d EXCEPT !.cur_block_num = b]
           f == bf_find_block(d2, b)
           t == RwTurn(s)
<1>1. DeviceInv(d, g) /\ IsIo(r) /\ d \in Device /\ w \in BOOLEAN
  BY DEF Steady, DeviceInv
<1>2. CASE w \/ Left(r) = 0
  <2>1. t = s
    BY <1>2 DEF RwTurn
  <2>2. Turned(d, r, d, r)
    BY <1>1, NothingTurned
  <2>3. Left(r) = 0 => Todo(d, r) = 0
    BY DEF Todo
  <2> HIDE DEF t
  <2>4. t.d = d /\ t.r = r /\ t.waits = w
    BY <2>1
  <2>5. QED
    BY <1>2, <2>1, <2>2, <2>3, <2>4 DEF t
<1>3. CASE ~w /\ Left(r) # 0 /\ d.clusters[ClusterOf(r)] # <<>>
  <2>1. w = FALSE
    BY <1>1, <1>3
  <2> DEFINE u == AtCluster([d |-> d, r |-> r, waits |-> FALSE])
  <2>2. t = u
    BY <1>3, <2>1 DEF RwTurn
  <2>3. /\ u = [d |-> u.d, r |-> u.r, waits |-> FALSE]
        /\ Steady(u.d, u.r, FALSE, g) /\ Turned(d, r, u.d, u.r)
        /\ Todo(u.d, u.r) <= Todo(d, r) - 1
    BY <1>3, <2>1, TurnAtCluster
  <2> HIDE DEF t, u
  <2>4. u.waits = FALSE
    BY <2>3
  <2>5. QED
    BY <1>3, <2>2, <2>3, <2>4 DEF t
<1>4. CASE ~w /\ Left(r) # 0 /\ d.clusters[ClusterOf(r)] = <<>>
  <2>1. w = FALSE
    BY <1>1, <1>4
  <2>2. b \in Block
    BY <1>1, <1>4, NextPlace
  <2>3. /\ d2 \in Device /\ d2.cached_blocks = d.cached_blocks /\ d2.transfers = d.transfers
        /\ d2.aborted = d.aborted /\ d2.cur_block_num = b /\ d2.clusters = d.clusters
    BY <1>1, <2>2 DEF Device
  <2> HIDE DEF d2
  <2>4. DeviceInv(d2, g)
    BY <1>1, <2>3, SameCache
  <2>5. CASE ~HasBlock(d2, b)
    <3> DEFINE e == bf_start_load_block(d2, b)
    <3>1. t = [d |-> e, r |-> r, waits |-> TRUE]
      BY <1>4, <2>1, <2>5 DEF RwTurn, d2
    <3>2. /\ DeviceInv(e, g) /\ e.clusters = d2.clusters /\ e.cur_block_num = b
          /\ b \in LoadingIn(e.cached_blocks)
      BY <2>2, <2>3, <2>4, <2>5, StartedLoad
    <3> HIDE DEF e, t
    <3>3. Contents(e) = Contents(d)
      BY <2>3, <3>2 DEF Contents
    <3>4. Turned(d, r, e, r)
      BY <1>1, <3>3, NothingTurned
    <3>5. Steady(e, r, TRUE, g)
      BY <1>1, <1>4, <3>2 DEF Steady
    <3>6. t.d = e /\ t.r = r /\ t.waits = TRUE
      BY <3>1
    <3>7. QED
      BY <1>4, <3>1, <3>4, <3>5, <3>6 DEF t
  <2>6. CASE HasBlock(d2, b)
    <3>1. /\ DeviceInv(f, g) /\ f.clusters = d.clusters /\ f.cur_block_num = b
          /\ LoadingIn(f.cached_blocks) = LoadingIn(d2.cached_blocks)
          /\ f.cached_blocks # <<>> /\ f.cached_blocks[1].block_num = b
      BY <2>2, <2>3, <2>4, <2>6, FoundBlock
    <3>2. Contents(f) = Contents(d)
      BY <3>1 DEF Contents
    <3>3. CASE f.cached_blocks[1].state = "LOADING"
      <4>1. t = [d |-> f, r |-> r, waits |-> TRUE]
        BY <1>4, <2>1, <2>6, <3>3 DEF RwTurn, d2
      <4> HIDE DEF f, t
      <4>2. b \in LoadingIn(f.cached_blocks)
        <5>1. f.cached_blocks \in Seq(Cached)
          BY <3>1 DEF DeviceInv, IsCache
        <5>2. 1 \in DOMAIN f.cached_blocks
          BY <3>1, <5>1
        <5>3. QED
          BY <3>1, <3>3, <5>2 DEF LoadingIn
      <4>3. Steady(f, r, TRUE, g)
        BY <1>1, <1>4, <3>1, <4>2 DEF Steady
      <4>4. Turned(d, r, f, r)
        BY <1>1, <3>2, NothingTurned
      <4>5. t.d = f /\ t.r = r /\ t.waits = TRUE
        BY <4>1
      <4>6. QED
        BY <1>4, <4>1, <4>3, <4>4, <4>5 DEF t
    <3>4. CASE f.cached_blocks[1].state # "LOADING"
      <4> DEFINE u == AtBlock([d |-> f, r |-> r, waits |-> FALSE])
      <4>1. t = u
        <5>1. [s EXCEPT !.d = f] = [d |-> f, r |-> r, waits |-> FALSE]
          <6> HIDE DEF f
          <6>1. [s EXCEPT !.d = f] = [d |-> f, r |-> r, waits |-> w]
            OBVIOUS
          <6>2. QED
            BY <2>1, <6>1
        <5>2. t = AtBlock([s EXCEPT !.d = f])
          BY <1>4, <2>1, <2>6, <3>4 DEF RwTurn, d2
        <5>3. QED
          BY <5>1, <5>2
      <4> HIDE DEF f
      <4>2. /\ u = [d |-> u.d, r |-> u.r, waits |-> FALSE]
            /\ Steady(u.d, u.r, FALSE, g) /\ Turned(f, r, u.d, u.r)
            /\ Todo(u.d, u.r) <= Todo(f, r) - 1
        BY <1>1, <1>4, <3>1, <3>4, TurnAtBlock
      <4> HIDE DEF t, u
      <4>3. Turned(d, r, f, r)
        BY <1>1, <3>2, NothingTurned
      <4>4. Turned(d, r, u.d, u.r)
        BY <1>1, <4>2, <4>3, TurnedTwice
      <4>5. Todo(f, r) = Todo(d, r)
        BY <3>1 DEF Todo
      <4>6. u.waits = FALSE
        BY <4>2
      <4>7. QED
        BY <1>4, <4>1, <4>2, <4>4, <4>5, <4>6 DEF t
    <3>5. QED
      BY <3>3, <3>4
  <2>7. QED
    BY <2>5, <2>6
<1>5. QED
  BY <1>1, <1>2, <1>3, <1>4

LEMMA RwCourse ==
  ASSUME NEW d, NEW r, NEW n \in Nat, n = 2 * r.n
  PROVE  \E h : /\ Course(h, "rw", [d |-> d, r |-> r, waits |-> FALSE], [i \in 1 .. n |-> i], n)
                /\ bf_rw_async1(d, r) = h[n]
<1> DEFINE base == [d |-> d, r |-> r, waits |-> FALSE]
           q == [i \in 1 .. n |-> i]
           IsLoop(f) == LoopOver(f, "rw", base, q, n)
           g == CHOOSE f : IsLoop(f)
<1>1. \E f : IsLoop(f)
  BY LoopExists
<1> HIDE DEF IsLoop
<1>2. IsLoop(g)
  BY <1>1
<1>3. bf_rw_async1(d, r) = FoldLeft(LAMBDA s, i : RwTurn(s), base, q)
  BY DEF bf_rw_async1
<1> HIDE DEF base
<1>4. DOMAIN q = 1 .. n
  OBVIOUS
<1> HIDE DEF q
<1>5. FoldLeft(LAMBDA s, i : RwTurn(s), base, q) = g[1 .. n]
  BY <1>4 DEF FoldLeft, MapThenFoldSet, IsLoop, LoopOver, Do
<1> HIDE DEF g
<1>6. LoopOver(g, "rw", base, q, n)
  BY <1>2 DEF IsLoop
<1>7. bf_rw_async1(d, r) = g[1 .. n]
  BY <1>3, <1>5
<1>8. \E h : Course(h, "rw", base, q, n) /\ h[n] = g[1 .. n]
  BY <1>6, LoopCourse
<1>9. QED
  BY <1>7, <1>8 DEF base, q

\* bf_rw_async1: it ends with the request done, or waiting for a block that is
\* being loaded, having done its part.
LEMMA RwAsync ==
  ASSUME NEW d, NEW r, NEW g, Steady(d, r, FALSE, g)
  PROVE  LET t == bf_rw_async1(d, r)
         IN  /\ Steady(t.d, t.r, t.waits, g) /\ Turned(d, r, t.d, t.r)
             /\ ~t.waits => t.r.index = t.r.n
<1> DEFINE n == 2 * r.n
           base == [d |-> d, r |-> r, waits |-> FALSE]
           q == [i \in 1 .. n |-> i]
<1>1. IsIo(r) /\ r.n \in Nat /\ r.index \in Nat /\ r.index <= r.n
  BY DEF Steady, IsIo
<1>2. n \in Nat
  BY <1>1
<1>3. PICK h : Course(h, "rw", base, q, n) /\ bf_rw_async1(d, r) = h[n]
  BY <1>2, RwCourse
<1> DEFINE Good(s, m) ==
             /\ s = [d |-> s.d, r |-> s.r, waits |-> s.waits]
             /\ Steady(s.d, s.r, s.waits, g) /\ Turned(d, r, s.d, s.r)
             /\ ~s.waits => Todo(s.d, s.r) <= n - m
           T == {m \in Nat : m <= n => Good(h[m], m)}
<1>4. 0 \in T
  <2>1. h[0] = base
    BY <1>3 DEF Course
  <2>2. Turned(d, r, d, r)
    BY <1>1, NothingTurned
  <2>3. Todo(d, r) <= n - 0
    BY <1>1 DEF Todo, Left
  <2>4. h[0].d = d /\ h[0].r = r /\ h[0].waits = FALSE
    BY <2>1
  <2>5. QED
    BY <1>2, <2>1, <2>2, <2>3, <2>4
<1>5. ASSUME NEW m \in Nat, m \in T PROVE m + 1 \in T
  <2> SUFFICES ASSUME m + 1 <= n PROVE Good(h[m + 1], m + 1)
    OBVIOUS
  <2>1. Good(h[m], m)
    BY <1>2, <1>5
  <2> DEFINE s == h[m]
             t == RwTurn(s)
  <2>2. m + 1 \in 1 .. n /\ (m + 1) - 1 = m
    BY <1>2
  <2>3. h[m + 1] = Do("rw", h[(m + 1) - 1], q[m + 1])
    BY <1>3, <2>2 DEF Course
  <2>4. h[m + 1] = t
    BY <2>2, <2>3 DEF Do
  <2>5. s = [d |-> s.d, r |-> s.r, waits |-> s.waits] /\ Steady(s.d, s.r, s.waits, g)
    BY <2>1
  <2> HIDE DEF s, n
  <2>6. /\ t = [d |-> t.d, r |-> t.r, waits |-> t.waits]
        /\ Steady(t.d, t.r, t.waits, g) /\ Turned(s.d, s.r, t.d, t.r)
        /\ s.waits => t = s
        /\ ~t.waits => Todo(t.d, t.r) <= Todo(s.d, s.r) - 1 \/ Todo(t.d, t.r) = 0
    <3> DEFINE S == [d |-> s.d, r |-> s.r, waits |-> s.waits]
               t2 == RwTurn(S)
    <3>1. /\ t2 = [d |-> t2.d, r |-> t2.r, waits |-> t2.waits]
          /\ Steady(t2.d, t2.r, t2.waits, g) /\ Turned(s.d, s.r, t2.d, t2.r)
          /\ s.waits => t2 = S
          /\ ~t2.waits => Todo(t2.d, t2.r) <= Todo(s.d, s.r) - 1 \/ Todo(t2.d, t2.r) = 0
      BY <2>5, OneTurn
    <3>2. S = s
      BY <2>5
    <3> HIDE DEF S
    <3>3. QED
      BY <3>1, <3>2
  <2> HIDE DEF t
  <2>7. Turned(d, r, t.d, t.r)
    BY <1>1, <2>1, <2>6, TurnedTwice DEF s
  <2>8. ASSUME ~t.waits PROVE Todo(t.d, t.r) <= n - (m + 1)
    <3>1. ~s.waits
      BY <2>6, <2>8
    <3>2. Todo(s.d, s.r) <= n - m
      BY <2>1, <3>1 DEF s
    <3>3. Todo(s.d, s.r) \in Nat /\ Todo(t.d, t.r) \in Nat
      <4>1. IsIo(s.r) /\ IsIo(t.r)
        BY <2>5, <2>6 DEF Steady
      <4>2. \A u : IsIo(u) => Left(u) \in Nat
        BY DEF IsIo, Left
      <4>3. QED
        BY <4>1, <4>2 DEF Todo
    <3>4. QED
      BY <1>2, <2>6, <2>8, <3>2, <3>3
  <2>9. QED
    BY <2>4, <2>6, <2>7, <2>8
<1> HIDE DEF T
<1>6. Nat \subseteq T
  BY <1>4, <1>5, SetInduction
<1>7. Good(h[n], n)
  BY <1>2, <1>6 DEF T
<1> DEFINE t == h[n]
<1>8. ASSUME ~t.waits PROVE t.r.index = t.r.n
  <2>1. Todo(t.d, t.r) <= n - n
    BY <1>7, <1>8
  <2>2. IsIo(t.r)
    BY <1>7 DEF Steady
  <2> HIDE DEF t
  <2>3. Left(t.r) \in Nat /\ t.r.n \in Nat /\ t.r.index \in Nat /\ Left(t.r) = t.r.n - t.r.index
    BY <2>2 DEF IsIo, Left
  <2>4. Left(t.r) = 0
    <3>1. Todo(t.d, t.r) <= 0
      BY <1>2, <2>1
    <3>2. Left(t.r) # 0 => Todo(t.d, t.r) >= 1
      BY <2>3 DEF Todo
    <3>3. Todo(t.d, t.r) \in Nat
      BY <2>3 DEF Todo
    <3>4. QED
      BY <3>1, <3>2, <3>3
  <2>5. QED
    BY <2>3, <2>4
<1>9. QED
  BY <1>3, <1>7, <1>8

-----------------------------------------------------------------------------
(* Blocks that come.                                                       *)

\* A transfer of which one entry has been looked at.
LEMMA RestOfTransfer ==
  ASSUME NEW t \in Transfer, t # <<>>, WantedOnce(t)
  PROVE  /\ Tail(t) \in Transfer /\ WantedOnce(Tail(t))
         /\ Wanted(Tail(t)) \subseteq Wanted(t)
         /\ Head(t).block_num \in Block
         /\ Head(t).wanted => /\ Head(t).block_num \in Wanted(t)
                              /\ Head(t).block_num \notin Wanted(Tail(t))
<1> DEFINE u == Tail(t)
<1>1. /\ Len(t) \in Nat /\ DOMAIN t = 1 .. Len(t) /\ 1 \in DOMAIN t /\ Head(t) = t[1]
      /\ t[1] \in [block_num : Block, wanted : BOOLEAN]
  <2> DEFINE S == [block_num : Block, wanted : BOOLEAN]
  <2>1. t \in Seq(S)
    BY DEF Transfer
  <2> HIDE DEF S
  <2>2. /\ Len(t) \in Nat /\ DOMAIN t = 1 .. Len(t) /\ 1 \in DOMAIN t /\ Head(t) = t[1]
        /\ t[1] \in S
    BY <2>1
  <2>3. QED
    BY <2>2 DEF S
<1>2. /\ u \in Transfer /\ DOMAIN u = 1 .. Len(t) - 1
      /\ \A i \in 1 .. Len(t) - 1 : u[i] = t[i + 1]
  BY <1>1 DEF Transfer
<1> HIDE DEF u
<1>3. \A i \in DOMAIN u : /\ i \in Nat /\ i + 1 \in DOMAIN t /\ u[i] = t[i + 1] /\ i + 1 # 1
  BY <1>1, <1>2
<1>4. WantedOnce(u)
  <2> SUFFICES ASSUME NEW i \in DOMAIN u, NEW j \in DOMAIN u, u[i].wanted, u[j].wanted,
                      u[i].block_num = u[j].block_num
               PROVE  i = j
    BY DEF WantedOnce
  <2>1. i + 1 = j + 1
    BY <1>3 DEF WantedOnce
  <2>2. QED
    BY <2>1, <1>3
<1>5. Wanted(u) \subseteq Wanted(t)
  <2> SUFFICES ASSUME NEW i \in DOMAIN u, u[i].wanted PROVE u[i].block_num \in Wanted(t)
    BY DEF Wanted
  <2>1. i + 1 \in DOMAIN t /\ u[i] = t[i + 1]
    BY <1>3
  <2>2. QED
    BY <2>1 DEF Wanted
<1>6. ASSUME t[1].wanted PROVE t[1].block_num \in Wanted(t) /\ t[1].block_num \notin Wanted(u)
  <2>1. t[1].block_num \in Wanted(t)
    BY <1>1, <1>6 DEF Wanted
  <2>2. ASSUME NEW i \in DOMAIN u, u[i].wanted, u[i].block_num = t[1].block_num PROVE FALSE
    <3>1. i + 1 = 1
      BY <1>1, <1>3, <1>6, <2>2 DEF WantedOnce
    <3>2. QED
      BY <3>1, <1>3
  <2>3. QED
    BY <2>1, <2>2 DEF Wanted
<1>7. QED
  BY <1>1, <1>2, <1>4, <1>5, <1>6 DEF u

\* The cache after a block has come.
Loaded(q, b) ==
  [i \in DOMAIN q |-> IF q[i].block_num = b
                      THEN [q[i] EXCEPT !.state = "LOADED", !.data = BlockImage(b)] ELSE q[i]]

LEMMA LoadedCache ==
  ASSUME NEW q, IsCache(q), NEW b \in Block
  PROVE  IsCache(Loaded(q, b)) /\ LoadingIn(Loaded(q, b)) = LoadingIn(q) \ {b}
<1> DEFINE m == Loaded(q, b)
<1>1. q \in Seq(Cached) /\ Len(q) \in Nat /\ DOMAIN q = 1 .. Len(q)
  BY DEF IsCache
<1>2. \A i \in DOMAIN q : /\ q[i].block_num = b =>
                             m[i] = [q[i] EXCEPT !.state = "LOADED", !.data = BlockImage(b)]
                          /\ q[i].block_num # b => m[i] = q[i]
  BY DEF Loaded
<1>3. DOMAIN m = DOMAIN q
  BY DEF Loaded
<1>4. m = [i \in 1 .. Len(q) |-> m[i]]
  BY <1>1 DEF Loaded
<1> HIDE DEF m
<1>5. \A i \in DOMAIN q : /\ m[i] \in Cached /\ m[i].block_num = q[i].block_num
                          /\ m[i].state = IF q[i].block_num = b THEN "LOADED" ELSE q[i].state
  <2> TAKE i \in DOMAIN q
  <2>1. q[i] \in Cached
    BY <1>1
  <2> DEFINE c == q[i]
  <2>2. /\ c \in [block_num : Block, state : {"LOADING", "LOADED"},
                  data : {<<>>} \cup {BlockImage(k) : k \in Block}]
    BY <2>1 DEF Cached
  <2>3. CASE c.block_num = b
    <3> DEFINE e == [c EXCEPT !.state = "LOADED", !.data = BlockImage(b)]
    <3>1. m[i] = e
      BY <1>2, <2>3
    <3> HIDE DEF c
    <3>2. /\ e \in [block_num : Block, state : {"LOADING", "LOADED"},
                    data : {<<>>} \cup {BlockImage(k) : k \in Block}]
          /\ e.block_num = b /\ e.state = "LOADED" /\ e.data = BlockImage(b)
      BY <2>2, <2>3
    <3> HIDE DEF e
    <3>3. e \in Cached
      BY <3>2 DEF Cached
    <3>4. QED
      BY <2>3, <3>1, <3>2, <3>3 DEF c
  <2>4. CASE c.block_num # b
    BY <1>2, <2>1, <2>4
  <2>5. QED
    BY <2>3, <2>4
<1>6. m \in [1 .. Len(q) -> Cached]
  BY <1>1, <1>4, <1>5
<1>7. m \in Seq(Cached)
  BY <1>1, <1>6
<1>8. IsCache(m)
  BY <1>3, <1>5, <1>7 DEF IsCache
<1>9. LoadingIn(m) = LoadingIn(q) \ {b}
  BY <1>3, <1>5 DEF LoadingIn
<1>10. QED
  BY <1>8, <1>9 DEF m

\* The contents of a disk are data, for every sector.
LEMMA ContentsTyped ==
  ASSUME NEW d \in Device
  PROVE  Contents(d) \in [NetSector -> NetData]
<1>1. ASSUME NEW x \in NetSector PROVE Contents(d)[x] \in NetData
  <2> DEFINE q == x \div SectorsPerCluster
             m == x % SectorsPerCluster
  <2>1. q \in Cluster /\ m \in 0 .. SectorsPerCluster - 1
    BY Geometry
  <2>2. Contents(d)[x] = IF d.clusters[q] # <<>> THEN d.clusters[q][m + 1] ELSE Image(x)
    BY DEF Contents
  <2> HIDE DEF q, m
  <2>3. m + 1 \in 1 .. SectorsPerCluster
    BY <2>1, GeometryAssumption
  <2>4. CASE d.clusters[q] # <<>>
    BY <2>1, <2>2, <2>3, <2>4, ClusterHas
  <2>5. CASE d.clusters[q] = <<>>
    BY <2>2, <2>5 DEF NetData
  <2>6. QED
    BY <2>4, <2>5
<1>2. QED
  BY <1>1 DEF Contents

-----------------------------------------------------------------------------
(* The invariant.                                                          *)

Ask == [tag : NetTag, req : {Asked(r, t) : r \in DiskRequests, t \in NetTag}]

\* What is known of a request that waits: the block it waits for is being
\* loaded, what it has read is what the disk held when it was taken, and only
\* its own sectors can have changed since.
Suspended ==
  /\ disk_request \in Ask
  /\ IsIo(io)
  /\ io.type = disk_request.req.type
  /\ io.sector = disk_request.req.sector
  /\ io.n = disk_request.req.n
  /\ net.cur_block_num = BlockOf(io)
  /\ net.cur_block_num \in LoadingIn(net.cached_blocks)
  /\ before \in [NetSector -> NetData]
  /\ io.type = "IN" => /\ Contents(net) = before
                       /\ WithinCluster(io) => HasRead(io, before)
  /\ \A x \in NetSector : x - io.sector \notin 0 .. io.n - 1 => Contents(net)[x] = before[x]

NetInv ==
  /\ DeviceInv(net, group)
  /\ asked \in 0 .. MaxDiskRequests
  /\ waiting \in Seq(Ask)
  /\ disk_busy \in BOOLEAN /\ notifying \in BOOLEAN
  /\ disk_busy => Suspended
  /\ ~disk_busy => net.cur_block_num \notin LoadingIn(net.cached_blocks)

\* What the guest asks for.
LEMMA AskTyped ==
  ASSUME NEW q \in {Asked(r, t) : r \in DiskRequests, t \in NetTag}
  PROVE  /\ IsIo(IoRequest(q)) /\ IoRequest(q).index = 0
         /\ IoRequest(q).type = q.type /\ IoRequest(q).sector = q.sector
         /\ IoRequest(q).n = q.n /\ IoRequest(q).buf = q.data
         /\ \A contents : HasRead(IoRequest(q), contents)
         /\ ReadsWithinCluster => WithinCluster(IoRequest(q))
<1>1. PICK r \in DiskRequests, t \in NetTag : q = Asked(r, t)
  OBVIOUS
<1>2. /\ r \in [type : {"IN", "OUT"}, sector : Nat, n : Nat, data : {<<>>}]
      /\ r.sector + r.n <= NbBlocks * SectorsPerBlock
  BY DiskRequestsAssumption
<1> DEFINE io1 == IoRequest(q)
<1>3. /\ q.type = r.type /\ q.sector = r.sector /\ q.n = r.n
      /\ q.data = IF r.type = "OUT" THEN [i \in 1 .. r.n |-> Tagged(t)] ELSE <<>>
  BY <1>1, <1>2 DEF Asked
<1>4. q.data \in Seq(NetData) /\ Len(q.data) = IF r.type = "IN" THEN 0 ELSE r.n
  <2>1. CASE r.type = "OUT"
    <3>1. Tagged(t) \in NetData /\ r.n \in Nat
      BY <1>2 DEF NetData
    <3> DEFINE data == [i \in 1 .. r.n |-> Tagged(t)]
    <3>2. data \in [1 .. r.n -> NetData]
      BY <3>1
    <3> HIDE DEF data
    <3>3. data \in Seq(NetData) /\ Len(data) = r.n
      BY <3>1, <3>2
    <3>4. q.data = data
      BY <1>3, <2>1 DEF data
    <3>5. QED
      BY <2>1, <3>3, <3>4
  <2>2. CASE r.type # "OUT"
    <3>1. r.type = "IN" /\ q.data = <<>>
      BY <1>2, <1>3, <2>2
    <3>2. QED
      BY <3>1
  <2>3. QED
    BY <2>1, <2>2
<1>5. io1 = [type |-> q.type, sector |-> q.sector, n |-> q.n, index |-> 0, buf |-> q.data]
  BY DEF IoRequest
<1> HIDE DEF io1
<1>6. /\ io1.type = q.type /\ io1.sector = q.sector /\ io1.n = q.n /\ io1.index = 0
      /\ io1.buf = q.data
      /\ io1 \in [type : {"IN", "OUT"}, sector : Nat, n : Nat, index : Nat, buf : Seq(NetData)]
  BY <1>2, <1>3, <1>4, <1>5
<1>7. IsIo(io1)
  BY <1>2, <1>3, <1>4, <1>6 DEF IsIo
<1>8. \A contents : HasRead(io1, contents)
  BY <1>6 DEF HasRead
<1>9. ReadsWithinCluster => WithinCluster(io1)
  <2>1. io1.type = r.type /\ io1.sector = r.sector /\ io1.n = r.n
    BY <1>3, <1>6
  <2> SUFFICES ASSUME ReadsWithinCluster, r.type = "IN",
                      NEW x \in r.sector .. r.sector + r.n - 1,
                      NEW y \in r.sector .. r.sector + r.n - 1,
                      x \div SectorsPerBlock = y \div SectorsPerBlock
               PROVE  x \div SectorsPerCluster = y \div SectorsPerCluster
    BY <2>1 DEF WithinCluster
  <2>2. QED
    BY DEF ReadsWithinCluster
<1>10. QED
  BY <1>6, <1>7, <1>8, <1>9 DEF io1

LEMMA InitNetInv ==
  BlockNetInit => NetInv
<1> SUFFICES ASSUME BlockNetInit PROVE NetInv
  OBVIOUS
<1>1. Fresh(net, <<>>)
  BY InitialDevice
<1>2. /\ group = <<>> /\ waiting = <<>> /\ asked = 0 /\ disk_busy = FALSE /\ notifying = FALSE
  BY DEF BlockNetInit
<1>3. NoBlock \notin LoadingIn(net.cached_blocks)
  <2>1. net.cached_blocks \in Seq(Cached)
    BY <1>1 DEF Fresh, DeviceInv, IsCache
  <2>2. \A i \in DOMAIN net.cached_blocks : net.cached_blocks[i].block_num \in Block
    BY <2>1 DEF Cached
  <2>3. NoBlock \notin Block
    BY DEF NoBlock, Block
  <2>4. QED
    BY <2>2, <2>3 DEF LoadingIn
<1>4. <<>> \in Seq(Ask) /\ 0 \in 0 .. MaxDiskRequests
  BY GeometryAssumption
<1>5. DeviceInv(net, group) /\ net.cur_block_num \notin LoadingIn(net.cached_blocks)
  BY <1>1, <1>2, <1>3 DEF Fresh
<1>6. QED
  BY <1>2, <1>4, <1>5 DEF NetInv

\* virtio_block_recv_request: what the call of bf_rw_async1 does.
LEMMA TakenCourse ==
  ASSUME NetInv, TakeDiskRequest
  PROVE  LET q == Head(waiting).req
             r == IoRequest(q)
             rw == bf_rw_async1(net, r)
         IN  /\ ~disk_busy /\ waiting # <<>>
             /\ Head(waiting) \in Ask /\ Tail(waiting) \in Seq(Ask)
             /\ IsIo(r) /\ r.index = 0
             /\ r.type = q.type /\ r.sector = q.sector /\ r.n = q.n /\ r.buf = q.data
             /\ ReadsWithinCluster => WithinCluster(r)
             /\ HasRead(r, Contents(net))
             /\ Steady(rw.d, rw.r, rw.waits, group) /\ Turned(net, r, rw.d, rw.r)
             /\ ~rw.waits => rw.r.index = rw.r.n
             /\ net' = rw.d
<1> DEFINE q == Head(waiting).req
           r == IoRequest(q)
           rw == bf_rw_async1(net, r)
<1>1. waiting \in Seq(Ask) /\ waiting # <<>> /\ ~disk_busy
  BY DEF NetInv, TakeDiskRequest
<1>2. Head(waiting) \in Ask /\ Tail(waiting) \in Seq(Ask)
  <2> HIDE DEF q
  <2> DEFINE S == Ask
  <2>1. waiting \in Seq(S)
    BY <1>1
  <2> HIDE DEF S
  <2>2. Head(waiting) \in S /\ Tail(waiting) \in Seq(S)
    BY <1>1, <2>1
  <2>3. QED
    BY <2>2 DEF S
<1>3. q \in {Asked(k, t) : k \in DiskRequests, t \in NetTag}
  BY <1>2 DEF Ask
<1>4. /\ IsIo(r) /\ r.index = 0
      /\ r.type = q.type /\ r.sector = q.sector /\ r.n = q.n /\ r.buf = q.data
      /\ ReadsWithinCluster => WithinCluster(r)
      /\ HasRead(r, Contents(net))
  <2> HIDE DEF q
  <2>1. QED
    BY <1>3, AskTyped
<1>5. net' = rw.d
  BY DEF TakeDiskRequest
<1>6. Steady(net, r, FALSE, group)
  BY <1>1, <1>4 DEF Steady, NetInv
<1> HIDE DEF r
<1>7. /\ Steady(rw.d, rw.r, rw.waits, group) /\ Turned(net, r, rw.d, rw.r)
      /\ ~rw.waits => rw.r.index = rw.r.n
  BY <1>6, RwAsync
<1>8. QED
  BY <1>1, <1>2, <1>4, <1>5, <1>7 DEF r

LEMMA TakeKeeps ==
  ASSUME NetInv, TakeDiskRequest
  PROVE  NetInv'
<1> DEFINE q == Head(waiting).req
           r == IoRequest(q)
           rw == bf_rw_async1(net, r)
<1>1. /\ ~disk_busy /\ waiting # <<>>
      /\ Head(waiting) \in Ask /\ Tail(waiting) \in Seq(Ask)
      /\ IsIo(r) /\ r.index = 0
      /\ r.type = q.type /\ r.sector = q.sector /\ r.n = q.n /\ r.buf = q.data
      /\ HasRead(r, Contents(net))
      /\ Steady(rw.d, rw.r, rw.waits, group) /\ Turned(net, r, rw.d, rw.r)
      /\ net' = rw.d
  BY TakenCourse
<1>2. /\ group' = group /\ notifying' = notifying /\ asked' = asked
      /\ disk_request' = Head(waiting) /\ waiting' = Tail(waiting)
  BY DEF TakeDiskRequest
<1>3. CASE ~rw.waits
  <2>1. disk_busy' = disk_busy
    BY <1>3 DEF TakeDiskRequest
  <2>2. DeviceInv(net', group') /\ net'.cur_block_num \notin LoadingIn(net'.cached_blocks)
    BY <1>1, <1>2, <1>3 DEF Steady
  <2>3. QED
    BY <1>1, <1>2, <2>1, <2>2 DEF NetInv
<1>4. CASE rw.waits
  <2> DEFINE u == rw.r
             freed == [i \in DOMAIN u.buf |-> Freed]
  <2>1. /\ disk_busy' = TRUE /\ before' = Contents(net)
        /\ io' = IF u.type = "OUT" THEN [u EXCEPT !.buf = freed] ELSE u
    BY <1>4 DEF TakeDiskRequest
  <2> HIDE DEF r, rw
  <2>2. /\ DeviceInv(rw.d, group) /\ IsIo(u) /\ rw.d.cur_block_num = BlockOf(u)
        /\ rw.d.cur_block_num \in LoadingIn(rw.d.cached_blocks)
    BY <1>1, <1>4 DEF Steady
  <2>3. u.type = r.type /\ u.sector = r.sector /\ u.n = r.n
    BY <1>1 DEF Turned
  <2> HIDE DEF u
  <2>4. /\ IsIo(io') /\ io'.type = u.type /\ io'.sector = u.sector /\ io'.n = u.n
        /\ io'.index = u.index
        /\ u.type = "IN" => io' = u
    <3>1. u.type \in {"IN", "OUT"}
      BY <2>2 DEF IsIo
    <3>2. CASE u.type = "IN"
      BY <2>1, <2>2, <3>2
    <3>3. CASE u.type = "OUT"
      <4>1. u.buf \in Seq(NetData) /\ Len(u.buf) = u.n /\ u.n \in Nat
        BY <2>2, <3>3 DEF IsIo
      <4>2. freed \in [1 .. u.n -> NetData]
        BY <4>1 DEF NetData
      <4> HIDE DEF freed
      <4>3. freed \in Seq(NetData) /\ Len(freed) = u.n
        BY <4>1, <4>2
      <4>4. io' = [u EXCEPT !.buf = freed]
        BY <2>1, <3>3
      <4>5. /\ io'.type = u.type /\ io'.sector = u.sector /\ io'.n = u.n
            /\ io'.index = u.index /\ io'.buf = freed
            /\ io' \in [type : {"IN", "OUT"}, sector : Nat, n : Nat, index : Nat,
                        buf : Seq(NetData)]
        BY <2>2, <4>3, <4>4 DEF IsIo
      <4>6. IsIo(io')
        BY <2>2, <3>3, <4>3, <4>5 DEF IsIo
      <4>7. QED
        BY <3>3, <4>5, <4>6
    <3>4. QED
      BY <3>1, <3>2, <3>3
  <2>5. BlockOf(io') = BlockOf(u)
    BY <2>4 DEF BlockOf, NextSector
  <2>6. net \in Device
    BY DEF NetInv, DeviceInv
  <2>7. before' \in [NetSector -> NetData]
    BY <2>1, <2>6, ContentsTyped
  <2>8. ASSUME io'.type = "IN"
        PROVE  Contents(net') = before' /\ (WithinCluster(io') => HasRead(io', before'))
    <3>1. r.type = "IN" /\ io' = u
      BY <2>3, <2>4, <2>8
    <3>2. WithinCluster(io') => WithinCluster(r)
      BY <2>3, <3>1 DEF WithinCluster
    <3>3. QED
      BY <1>1, <2>1, <3>1, <3>2 DEF Turned, u
  <2>9. ASSUME NEW x \in NetSector, x - io'.sector \notin 0 .. io'.n - 1
        PROVE  Contents(net')[x] = before'[x]
    <3>1. r.type \in {"IN", "OUT"} /\ r.sector \in Nat /\ r.n \in Nat /\ u.index \in Nat
          /\ u.index <= r.n
      BY <1>1, <2>2, <2>3 DEF IsIo
    <3>2. CASE r.type = "IN"
      BY <1>1, <2>1, <3>2 DEF Turned
    <3>3. CASE r.type = "OUT"
      <4>1. Contents(net') = Overwritten(Contents(net), r, 0, u.index)
        BY <1>1, <3>3 DEF Turned, u
      <4>2. x - r.sector \notin 0 .. u.index - 1
        BY <2>3, <2>4, <2>9, <3>1 DEF NetSector
      <4>3. QED
        BY <2>1, <4>1, <4>2 DEF Overwritten
    <3>4. QED
      BY <3>1, <3>2, <3>3
  <2>10. /\ io'.type = disk_request'.req.type /\ io'.sector = disk_request'.req.sector
         /\ io'.n = disk_request'.req.n
    BY <1>1, <1>2, <2>3, <2>4
  <2>11. Suspended'
    BY <1>1, <1>2, <2>2, <2>4, <2>5, <2>7, <2>8, <2>9, <2>10 DEF Suspended
  <2>12. DeviceInv(net', group')
    BY <1>1, <1>2, <2>2
  <2>13. QED
    BY <1>1, <1>2, <2>1, <2>11, <2>12 DEF NetInv
<1>5. QED
  BY <1>3, <1>4

\* bf_update_block: the block that comes is being loaded, and what the request
\* that waits for it goes on with.
LEMMA BlockStored ==
  ASSUME NetInv, BlockComes, Head(group).wanted
  PROVE  LET b == Head(group).block_num
             d == [net EXCEPT !.cached_blocks = Loaded(net.cached_blocks, b)]
         IN  /\ DeviceInv(d, Tail(group))
             /\ LoadingIn(d.cached_blocks) = LoadingIn(net.cached_blocks) \ {b}
             /\ d.cur_block_num = net.cur_block_num /\ Contents(d) = Contents(net)
             /\ b = net.cur_block_num => disk_busy /\ Continued(d)
             /\ b # net.cur_block_num =>
                  net' = d /\ UNCHANGED <<io, answered, disk_busy, notifying, before>>
<1> DEFINE b == Head(group).block_num
           q == net.cached_blocks
           d == [net EXCEPT !.cached_blocks = Loaded(q, b)]
           Stored(c) == IF c.block_num = b
                        THEN [c EXCEPT !.state = "LOADED", !.data = BlockImage(b)] ELSE c
           stored == [i \in DOMAIN q |-> Stored(q[i])]
<1>1. /\ DeviceInv(net, group) /\ net \in Device /\ IsCache(q) /\ group # <<>>
      /\ group \in Transfer /\ WantedOnce(group)
      /\ Wanted(group) \subseteq LoadingIn(q)
  BY DEF NetInv, DeviceInv, BlockComes
<1>2. /\ Tail(group) \in Transfer /\ WantedOnce(Tail(group))
      /\ Wanted(Tail(group)) \subseteq Wanted(group)
      /\ b \in Block /\ b \in Wanted(group) /\ b \notin Wanted(Tail(group))
  BY <1>1, RestOfTransfer
<1>3. IsCache(Loaded(q, b)) /\ LoadingIn(Loaded(q, b)) = LoadingIn(q) \ {b}
  BY <1>1, <1>2, LoadedCache
<1>4. b \in LoadingIn(q)
  BY <1>1, <1>2
<1>5. stored = Loaded(q, b)
  BY DEF Loaded
<1>6. UpdateBlock(b)
  BY DEF BlockComes
<1>7. \E i \in DOMAIN stored : q[i].block_num = b /\ q[i].state = "LOADING"
  <2>1. \E i \in DOMAIN q : q[i].block_num = b /\ q[i].state = "LOADING"
    BY <1>4 DEF LoadingIn
  <2>2. DOMAIN stored = DOMAIN q
    OBVIOUS
  <2>3. QED
    BY <2>1, <2>2
<1>8. /\ b = net.cur_block_num => Continued([net EXCEPT !.cached_blocks = stored])
      /\ b # net.cur_block_num =>
           /\ net' = [net EXCEPT !.cached_blocks = stored]
           /\ UNCHANGED <<io, answered, disk_busy, notifying, before>>
  <2> HIDE DEF b
  <2>1. QED
    BY <1>6, <1>7 DEF UpdateBlock
<1> HIDE DEF stored, b
<1>9. /\ d \in Device /\ d.cached_blocks = Loaded(q, b) /\ d.transfers = net.transfers
      /\ d.clusters = net.clusters /\ d.cur_block_num = net.cur_block_num
      /\ d.aborted = net.aborted
  <2>1. Loaded(q, b) \in Seq(Cached)
    BY <1>3 DEF IsCache
  <2>2. QED
    BY <1>1, <2>1 DEF Device
<1>10. Contents(d) = Contents(net)
  BY <1>9 DEF Contents
<1> DEFINE L == LoadingIn(Loaded(q, b))
<1>11. Wanted(Tail(group)) \subseteq L
  BY <1>1, <1>2, <1>3
<1>12. \A t \in net.transfers : /\ WantedOnce(t) /\ Wanted(t) \subseteq L
                                /\ Wanted(t) \cap Wanted(Tail(group)) = {}
  <2>1. \A t \in net.transfers : /\ WantedOnce(t) /\ Wanted(t) \subseteq LoadingIn(q)
                                 /\ Wanted(t) \cap Wanted(group) = {}
    BY <1>1 DEF DeviceInv
  <2>2. QED
    BY <2>1, <1>2, <1>3
<1>13. DeviceInv(d, Tail(group))
  <2>1. \A t, u \in d.transfers : t # u => Wanted(t) \cap Wanted(u) = {}
    BY <1>1, <1>9 DEF DeviceInv
  <2>2. ~d.aborted
    BY <1>1, <1>9 DEF DeviceInv
  <2> HIDE DEF d
  <2>3. QED
    BY <1>2, <1>3, <1>9, <1>11, <1>12, <2>1, <2>2 DEF DeviceInv
<1>14. b = net.cur_block_num => disk_busy
  BY <1>4 DEF NetInv
<1>15. QED
  BY <1>3, <1>5, <1>8, <1>9, <1>10, <1>13, <1>14 DEF b

\* The request goes on: what the call of bf_rw_async1 does.
LEMMA ContinuedCourse ==
  ASSUME NetInv, BlockComes, Head(group).wanted,
         Head(group).block_num = net.cur_block_num
  PROVE  LET b == Head(group).block_num
             d == [net EXCEPT !.cached_blocks = Loaded(net.cached_blocks, b)]
             rw == bf_rw_async1(d, io)
         IN  /\ disk_busy /\ Suspended
             /\ Contents(d) = Contents(net)
             /\ Steady(rw.d, rw.r, rw.waits, Tail(group)) /\ Turned(d, io, rw.d, rw.r)
             /\ ~rw.waits => rw.r.index = rw.r.n
             /\ Continued(d)
<1> DEFINE b == Head(group).block_num
           d == [net EXCEPT !.cached_blocks = Loaded(net.cached_blocks, b)]
           rw == bf_rw_async1(d, io)
<1>1. /\ DeviceInv(d, Tail(group))
      /\ LoadingIn(d.cached_blocks) = LoadingIn(net.cached_blocks) \ {b}
      /\ d.cur_block_num = net.cur_block_num /\ Contents(d) = Contents(net)
      /\ disk_busy /\ Continued(d)
  BY BlockStored
<1>2. b = net.cur_block_num
  OBVIOUS
<1> HIDE DEF d, b
<1>3. Suspended
  BY <1>1 DEF NetInv
<1>4. Steady(d, io, FALSE, Tail(group))
  BY <1>1, <1>2, <1>3 DEF Steady, Suspended
<1>5. /\ Steady(rw.d, rw.r, rw.waits, Tail(group)) /\ Turned(d, io, rw.d, rw.r)
      /\ ~rw.waits => rw.r.index = rw.r.n
  BY <1>4, RwAsync
<1>6. QED
  BY <1>1, <1>3, <1>5 DEF d, b

\* What the disk holds besides the sectors of the request is as it was.
LEMMA OthersUntouched ==
  ASSUME Suspended, NEW d, Contents(d) = Contents(net), NEW e, NEW u, Turned(d, io, e, u),
         NEW x \in NetSector, x - io.sector \notin 0 .. io.n - 1
  PROVE  Contents(e)[x] = before[x]
<1>1. /\ io.type \in {"IN", "OUT"} /\ io.index \in Nat /\ u.index \in Nat
      /\ u.index <= io.n /\ io.n \in Nat /\ io.sector \in Nat
  BY DEF Suspended, Turned, IsIo
<1>2. Contents(net)[x] = before[x]
  BY DEF Suspended
<1>3. CASE io.type = "IN"
  BY <1>2, <1>3 DEF Turned
<1>4. CASE io.type = "OUT"
  <2>1. Contents(e) = Overwritten(Contents(d), io, io.index, u.index)
    BY <1>4 DEF Turned
  <2>2. x - io.sector \notin io.index .. u.index - 1
    BY <1>1 DEF NetSector
  <2>3. QED
    BY <1>2, <2>1, <2>2 DEF Overwritten
<1>5. QED
  BY <1>1, <1>3, <1>4

LEMMA ComesKeeps ==
  ASSUME NetInv, BlockComes
  PROVE  NetInv'
<1>1. /\ group' = Tail(group) /\ disk_request' = disk_request /\ waiting' = waiting
      /\ asked' = asked /\ group # <<>>
  BY DEF BlockComes
<1>2. CASE ~Head(group).wanted
  <2>1. UNCHANGED <<net, io, disk_busy, notifying, before>>
    BY <1>2 DEF BlockComes
  <2>2. /\ DeviceInv(net, group) /\ group \in Transfer /\ WantedOnce(group)
    BY DEF NetInv, DeviceInv
  <2>3. /\ Tail(group) \in Transfer /\ WantedOnce(Tail(group))
        /\ Wanted(Tail(group)) \subseteq Wanted(group)
    BY <1>1, <2>2, RestOfTransfer
  <2>4. DeviceInv(net, Tail(group))
    BY <2>2, <2>3 DEF DeviceInv
  <2>5. Suspended => Suspended'
    BY <1>1, <2>1 DEF Suspended
  <2>6. QED
    BY <1>1, <2>1, <2>4, <2>5 DEF NetInv
<1>3. CASE Head(group).wanted /\ Head(group).block_num # net.cur_block_num
  <2> DEFINE b == Head(group).block_num
             d == [net EXCEPT !.cached_blocks = Loaded(net.cached_blocks, b)]
  <2>1. /\ DeviceInv(d, Tail(group))
        /\ LoadingIn(d.cached_blocks) = LoadingIn(net.cached_blocks) \ {b}
        /\ d.cur_block_num = net.cur_block_num /\ Contents(d) = Contents(net)
        /\ net' = d /\ UNCHANGED <<io, answered, disk_busy, notifying, before>>
    BY <1>3, BlockStored
  <2>2. b # net.cur_block_num
    BY <1>3
  <2> HIDE DEF b, d
  <2>3. Suspended => Suspended'
    BY <1>1, <2>1, <2>2 DEF Suspended
  <2>4. DeviceInv(net', group')
    BY <1>1, <2>1
  <2>5. ~disk_busy' => net'.cur_block_num \notin LoadingIn(net'.cached_blocks)
    BY <2>1 DEF NetInv
  <2>6. QED
    BY <1>1, <2>1, <2>3, <2>4, <2>5 DEF NetInv
<1>4. CASE Head(group).wanted /\ Head(group).block_num = net.cur_block_num
  <2> DEFINE b == Head(group).block_num
             d == [net EXCEPT !.cached_blocks = Loaded(net.cached_blocks, b)]
             rw == bf_rw_async1(d, io)
  <2>1. /\ disk_busy /\ Suspended
        /\ Contents(d) = Contents(net)
        /\ Steady(rw.d, rw.r, rw.waits, Tail(group)) /\ Turned(d, io, rw.d, rw.r)
        /\ Continued(d)
    BY <1>4, ContinuedCourse
  <2> HIDE DEF b, d
  <2>2. net' = rw.d /\ io' = rw.r
    BY <2>1 DEF Continued
  <2>3. CASE ~rw.waits
    <3>1. disk_busy' = FALSE /\ notifying' = TRUE
      BY <2>1, <2>3 DEF Continued
    <3>2. DeviceInv(net', group') /\ net'.cur_block_num \notin LoadingIn(net'.cached_blocks)
      BY <1>1, <2>1, <2>2, <2>3 DEF Steady
    <3>3. QED
      BY <1>1, <3>1, <3>2 DEF NetInv
  <2>4. CASE rw.waits
    <3>1. UNCHANGED <<disk_busy, notifying, before>>
      BY <2>1, <2>4 DEF Continued
    <3>2. /\ DeviceInv(rw.d, Tail(group)) /\ IsIo(rw.r)
          /\ rw.d.cur_block_num = BlockOf(rw.r)
          /\ rw.d.cur_block_num \in LoadingIn(rw.d.cached_blocks)
      BY <2>1, <2>4 DEF Steady
    <3>3. io'.type = io.type /\ io'.sector = io.sector /\ io'.n = io.n
      BY <2>1, <2>2 DEF Turned
    <3>4. ASSUME io'.type = "IN"
          PROVE  Contents(net') = before' /\ (WithinCluster(io') => HasRead(io', before'))
      <4>1. WithinCluster(io') => WithinCluster(io)
        BY <3>3 DEF WithinCluster
      <4>2. QED
        BY <2>1, <2>2, <3>1, <3>3, <3>4, <4>1 DEF Turned, Suspended
    <3>5. ASSUME NEW x \in NetSector, x - io'.sector \notin 0 .. io'.n - 1
          PROVE  Contents(net')[x] = before'[x]
      <4>1. x - io.sector \notin 0 .. io.n - 1
        BY <3>3, <3>5
      <4>2. Contents(rw.d)[x] = before[x]
        BY <2>1, <4>1, OthersUntouched
      <4>3. QED
        BY <2>2, <3>1, <4>2
    <3>6. Suspended'
      BY <1>1, <2>1, <2>2, <3>1, <3>2, <3>3, <3>4, <3>5 DEF Suspended
    <3>7. DeviceInv(net', group')
      BY <1>1, <2>2, <3>2
    <3>8. QED
      BY <1>1, <2>1, <3>1, <3>6, <3>7 DEF NetInv
  <2>5. QED
    BY <2>3, <2>4
<1>5. QED
  BY <1>2, <1>3, <1>4

LEMMA AskKeeps ==
  ASSUME NetInv, NEW r \in DiskRequests, AskDisk(r)
  PROVE  NetInv' /\ asked' \in NetTag /\ Asked(r, asked') \in {Asked(k, t) : k \in DiskRequests, t \in NetTag}
<1>1. /\ UNCHANGED <<net, io, group, disk_request, disk_busy, before>>
      /\ asked < MaxDiskRequests /\ asked' = asked + 1 /\ notifying' = TRUE
      /\ waiting' = Append(waiting, [tag |-> asked', req |-> Asked(r, asked')])
  BY DEF AskDisk
<1>2. asked' \in NetTag /\ asked' \in 0 .. MaxDiskRequests
  BY <1>1, GeometryAssumption DEF NetInv, NetTag
<1>3. Asked(r, asked') \in {Asked(k, t) : k \in DiskRequests, t \in NetTag}
  BY <1>2
<1> DEFINE x == [tag |-> asked', req |-> Asked(r, asked')]
           S == Ask
<1>4. x \in S /\ waiting \in Seq(S) /\ waiting' = Append(waiting, x)
  BY <1>1, <1>2, <1>3 DEF Ask, NetInv
<1> HIDE DEF x, S
<1>5. waiting' \in Seq(S)
  BY <1>4
<1>6. Suspended => Suspended'
  BY <1>1 DEF Suspended
<1>7. waiting' \in Seq(Ask)
  BY <1>5 DEF S
<1>8. NetInv'
  BY <1>1, <1>2, <1>6, <1>7 DEF NetInv
<1>9. QED
  BY <1>2, <1>3, <1>8

LEMMA ArriveKeeps ==
  ASSUME NetInv, NEW t \in net.transfers, BlocksArrive(t)
  PROVE  NetInv' /\ Contents(net') = Contents(net)
<1>1. /\ net' = [net EXCEPT !.transfers = net.transfers \ {t}] /\ group' = t
      /\ UNCHANGED <<io, disk_request, disk_busy, notifying, waiting, answered, asked, before>>
  BY DEF BlocksArrive
<1>2. DeviceInv(net, group) /\ net \in Device
  BY DEF NetInv, DeviceInv
<1>3. /\ net' \in Device /\ net'.cached_blocks = net.cached_blocks
      /\ net'.transfers = net.transfers \ {t} /\ net'.clusters = net.clusters
      /\ net'.cur_block_num = net.cur_block_num /\ net'.aborted = net.aborted
  BY <1>1, <1>2 DEF Device
<1>4. t \in Transfer
  BY <1>2 DEF Device
<1>5. DeviceInv(net', t)
  BY <1>2, <1>3, <1>4 DEF DeviceInv
<1>6. Contents(net') = Contents(net)
  BY <1>3 DEF Contents
<1>7. Suspended => Suspended'
  BY <1>1, <1>3, <1>6 DEF Suspended
<1>8. QED
  BY <1>1, <1>3, <1>5, <1>6, <1>7 DEF NetInv

LEMMA UnchangedKeeps ==
  ASSUME NetInv, UNCHANGED <<net, io, group, disk_request, disk_busy, waiting, asked, before>>,
         notifying' \in BOOLEAN
  PROVE  NetInv'
<1>1. Suspended => Suspended'
  BY DEF Suspended
<1>2. QED
  BY <1>1 DEF NetInv

LEMMA NextKeepsNetInv ==
  NetInv /\ [BlockNetNext]_netVars => NetInv'
<1> SUFFICES ASSUME NetInv, [BlockNetNext]_netVars PROVE NetInv'
  OBVIOUS
<1>1. CASE \E r \in DiskRequests : AskDisk(r)
  BY <1>1, AskKeeps
<1>2. CASE TakeDiskRequest
  BY <1>2, TakeKeeps
<1>3. CASE DiskNotified
  <2>1. UNCHANGED <<net, io, group, disk_request, disk_busy, waiting, asked, before>>
        /\ notifying' = FALSE
    BY <1>3 DEF DiskNotified
  <2>2. QED
    BY <2>1, UnchangedKeeps
<1>4. CASE BlockComes
  BY <1>4, ComesKeeps
<1>5. CASE SomeBlocksArrive
  BY <1>5, ArriveKeeps DEF SomeBlocksArrive
<1>6. CASE UNCHANGED netVars
  <2>1. UNCHANGED <<net, io, group, disk_request, disk_busy, waiting, asked, before>>
        /\ notifying' = notifying
    BY <1>6 DEF netVars
  <2>2. QED
    BY <2>1, UnchangedKeeps DEF NetInv
<1>7. QED
  BY <1>1, <1>2, <1>3, <1>4, <1>5, <1>6 DEF BlockNetNext, DiskRuns

-----------------------------------------------------------------------------
(* The theorems.                                                           *)

\* What is known of the device and of the request under way holds throughout.
THEOREM NetInvHolds ==
  BlockNetSpec => []NetInv
<1>1. BlockNetInit => NetInv
  BY InitNetInv
<1>2. NetInv /\ [BlockNetNext]_netVars => NetInv'
  BY NextKeepsNetInv
<1>3. QED
  BY <1>1, <1>2, PTL DEF BlockNetSpec

\* The assertion of bf_update_block never fails: whatever the order in which
\* blocks are asked for, come, are used and are freed, a block that comes is in
\* the cache and being loaded.
THEOREM BlocksAlwaysAwaited ==
  BlockNetSpec => []BlocksAwaited
<1>1. NetInv => BlocksAwaited
  BY DEF NetInv, DeviceInv, BlocksAwaited
<1>2. QED
  BY <1>1, NetInvHolds, PTL

-----------------------------------------------------------------------------
(* The disk that the device implements.                                    *)

DiskNow == IF disk_busy THEN before ELSE Contents(net)
CurrentNow == IF disk_busy THEN disk_request ELSE NoDiskRequest

\* A request that is being served is none of NoDiskRequest's kind.
LEMMA RealRequest ==
  \A q \in Ask : q # NoDiskRequest
BY DEF Ask, NetTag, NoDiskRequest

LEMMA InitIsDiskInit ==
  BlockNetInit => NetDisk!Init
<1> SUFFICES ASSUME BlockNetInit PROVE NetDisk!Init
  OBVIOUS
<1>1. net \in Device
  BY InitialDevice DEF Fresh, DeviceInv
<1>2. Contents(net) \in [NetSector -> NetData]
  BY <1>1, ContentsTyped
<1>3. waiting = <<>> /\ answered = <<>> /\ disk_busy = FALSE
  BY DEF BlockNetInit
<1>4. QED
  BY <1>2, <1>3 DEF NetDisk!Init

LEMMA AskIsSubmit ==
  ASSUME NetInv, NEW r \in DiskRequests, AskDisk(r)
  PROVE  NetDisk!Next
<1>1. /\ UNCHANGED <<net, disk_request, disk_busy, answered, before>>
      /\ waiting' = Append(waiting, [tag |-> asked', req |-> Asked(r, asked')])
  BY DEF AskDisk
<1>2. asked' \in NetTag /\ Asked(r, asked') \in {Asked(k, t) : k \in DiskRequests, t \in NetTag}
  BY AskKeeps
<1>3. NetDisk!Submit(asked', Asked(r, asked'))
  BY <1>1 DEF NetDisk!Submit
<1>4. QED
  BY <1>2, <1>3 DEF NetDisk!Next

\* A write that was done at once, and what Disk says of it.
LEMMA WholeWrite ==
  ASSUME NEW d, NEW r, IsIo(r), r.index = 0, NEW u, u = r.n
  PROVE  Overwritten(Contents(d), r, r.index, u)
           = [s \in NetSector |-> IF s \in r.sector .. r.sector + r.n - 1
                                  THEN r.buf[s - r.sector + 1] ELSE Contents(d)[s]]
<1>1. r.sector \in Nat /\ r.n \in Nat
  BY DEF IsIo
<1>2. \A s \in NetSector :
        s - r.sector \in r.index .. u - 1 <=> s \in r.sector .. r.sector + r.n - 1
  BY <1>1 DEF NetSector
<1>3. QED
  BY <1>2 DEF Overwritten

\* A read that was done, and what Disk says of it.
LEMMA WholeRead ==
  ASSUME NEW u, IsIo(u), u.type = "IN", u.index = u.n, NEW contents, HasRead(u, contents)
  PROVE  u.buf = [i \in 1 .. u.n |-> contents[u.sector + i - 1]]
<1>1. u.buf \in Seq(NetData) /\ Len(u.buf) = u.n /\ u.n \in Nat
  BY DEF IsIo
<1>2. DOMAIN u.buf = 1 .. u.n /\ u.buf = [i \in 1 .. u.n |-> u.buf[i]]
  BY <1>1
<1>3. \A i \in 1 .. u.n : u.buf[i] = contents[u.sector + i - 1]
  BY DEF HasRead
<1>4. QED
  BY <1>2, <1>3

LEMMA TakeIsTaken ==
  ASSUME ReadsWithinCluster, NetInv, TakeDiskRequest
  PROVE  NetDisk!Next
<1> DEFINE q == Head(waiting).req
           r == IoRequest(q)
           rw == bf_rw_async1(net, r)
<1>1. /\ ~disk_busy /\ waiting # <<>>
      /\ Head(waiting) \in Ask /\ Tail(waiting) \in Seq(Ask)
      /\ IsIo(r) /\ r.index = 0
      /\ r.type = q.type /\ r.sector = q.sector /\ r.n = q.n /\ r.buf = q.data
      /\ ReadsWithinCluster => WithinCluster(r)
      /\ HasRead(r, Contents(net))
      /\ Steady(rw.d, rw.r, rw.waits, group) /\ Turned(net, r, rw.d, rw.r)
      /\ ~rw.waits => rw.r.index = rw.r.n
      /\ net' = rw.d
  BY TakenCourse
<1>2. disk_request' = Head(waiting) /\ waiting' = Tail(waiting)
  BY DEF TakeDiskRequest
<1>3. q.type \in {"IN", "OUT"}
  BY <1>1 DEF IsIo
<1>4. NetDisk!Takes({"IN", "OUT"})
  BY <1>1, <1>2, <1>3 DEF NetDisk!Takes
<1>5. CASE rw.waits
  <2>1. disk_busy' = TRUE /\ before' = Contents(net) /\ answered' = answered
    BY <1>5 DEF TakeDiskRequest
  <2>2. NetDisk!Defer
    BY <1>1, <1>2, <1>4, <2>1 DEF NetDisk!Defer
  <2>3. QED
    BY <2>2 DEF NetDisk!Next
<1>6. CASE ~rw.waits
  <2> DEFINE u == rw.r
             t == Head(waiting).tag
  <2>1. disk_busy' = disk_busy /\ DiskAnswer(t, u)
    BY <1>6 DEF TakeDiskRequest
  <2> HIDE DEF rw, r
  <2>2. /\ IsIo(u) /\ u.type = r.type /\ u.sector = r.sector /\ u.n = r.n /\ u.index = u.n
    BY <1>1, <1>6 DEF Turned
  <2>3. answered' = Append(answered,
           [tag |-> t, result |-> [status |-> "OK", data |-> IF u.type = "IN" THEN u.buf ELSE <<>>]])
    BY <2>1 DEF DiskAnswer
  <2> HIDE DEF u
  <2>4. CASE q.type = "IN"
    <3>1. Contents(net') = Contents(net) /\ HasRead(u, Contents(net))
      BY <1>1, <2>4 DEF Turned, u
    <3>2. u.buf = [i \in 1 .. q.n |-> Contents(net)[q.sector + i - 1]]
      BY <1>1, <2>2, <2>4, <3>1, WholeRead
    <3>3. NetDisk!Answer(t, q, q.data)
      BY <1>1, <2>1, <2>2, <2>3, <2>4, <3>1, <3>2 DEF NetDisk!Answer
    <3>4. NetDisk!Perform
      BY <1>1, <1>4, <2>1, <3>3 DEF NetDisk!Perform
    <3>5. QED
      BY <3>4 DEF NetDisk!Next
  <2>5. CASE q.type = "OUT"
    <3>1. Contents(net') = Overwritten(Contents(net), r, r.index, u.index)
      BY <1>1, <2>5 DEF Turned, u
    <3>2. Contents(net') = [s \in NetSector |-> IF s \in q.sector .. q.sector + q.n - 1
                                  THEN q.data[s - q.sector + 1] ELSE Contents(net)[s]]
      BY <1>1, <2>2, <3>1, WholeWrite
    <3>3. NetDisk!Answer(t, q, q.data)
      BY <1>1, <2>1, <2>2, <2>3, <2>5, <3>2 DEF NetDisk!Answer, NetDisk!Sectors
    <3>4. NetDisk!Perform
      BY <1>1, <1>4, <2>1, <3>3 DEF NetDisk!Perform
    <3>5. QED
      BY <3>4 DEF NetDisk!Next
  <2>6. QED
    BY <1>3, <2>4, <2>5
<1>7. QED
  BY <1>5, <1>6

\* What stays as it is for Disk.
LEMMA DiskStutters ==
  ASSUME disk_busy' = disk_busy, disk_busy => before' = before,
         ~disk_busy => Contents(net') = Contents(net),
         disk_request' = disk_request, waiting' = waiting, answered' = answered
  PROVE  UNCHANGED NetDisk!vars
BY DEF NetDisk!vars

\* The end of a request that had to wait.
LEMMA ContinuedIsComplete ==
  ASSUME ReadsWithinCluster, NetInv, BlockComes, Head(group).wanted,
         Head(group).block_num = net.cur_block_num
  PROVE  NetDisk!Next \/ UNCHANGED NetDisk!vars
<1> DEFINE b == Head(group).block_num
           d == [net EXCEPT !.cached_blocks = Loaded(net.cached_blocks, b)]
           rw == bf_rw_async1(d, io)
           q == disk_request.req
           t == disk_request.tag
           u == rw.r
<1>1. /\ disk_busy /\ Suspended
      /\ Contents(d) = Contents(net)
      /\ Steady(rw.d, rw.r, rw.waits, Tail(group)) /\ Turned(d, io, rw.d, rw.r)
      /\ ~rw.waits => rw.r.index = rw.r.n
      /\ Continued(d)
  BY ContinuedCourse
<1>2. /\ disk_request' = disk_request /\ waiting' = waiting
  BY DEF BlockComes
<1> HIDE DEF b, d
<1>3. net' = rw.d
  BY <1>1 DEF Continued
<1>4. CASE rw.waits
  <2>1. UNCHANGED <<answered, disk_busy, before>>
    BY <1>1, <1>4 DEF Continued
  <2>2. QED
    BY <1>1, <1>2, <2>1, DiskStutters
<1>5. CASE ~rw.waits
  <2>1. DiskAnswer(t, u) /\ disk_busy' = FALSE
    BY <1>1, <1>5 DEF Continued
  <2>2. /\ IsIo(io) /\ io.type = q.type /\ io.sector = q.sector /\ io.n = q.n
        /\ disk_request \in Ask /\ before \in [NetSector -> NetData]
    BY <1>1 DEF Suspended
  <2>3. /\ IsIo(u) /\ u.type = q.type /\ u.sector = q.sector /\ u.n = q.n /\ u.index = u.n
    BY <1>1, <1>5, <2>2 DEF Turned
  <2>4. /\ q.sector \in Nat /\ q.n \in Nat /\ q.type \in {"IN", "OUT"}
        /\ q.sector + q.n <= NbBlocks * SectorsPerBlock
    BY <2>2 DEF IsIo
  <2>5. answered' = Append(answered,
           [tag |-> t, result |-> [status |-> "OK", data |-> IF u.type = "IN" THEN u.buf ELSE <<>>]])
    BY <2>1 DEF DiskAnswer
  <2>6. rw.d \in Device /\ Contents(rw.d) \in [NetSector -> NetData]
    BY <1>1, ContentsTyped DEF Steady, DeviceInv
  <2> DEFINE D == Contents(net')
             data == [i \in 1 .. q.n |-> D[q.sector + i - 1]]
  <2>7. D \in [NetSector -> NetData]
    BY <1>3, <2>6
  <2>8. \A x \in NetSector : x - q.sector \notin 0 .. q.n - 1 => D[x] = before[x]
    <3> SUFFICES ASSUME NEW x \in NetSector, x - q.sector \notin 0 .. q.n - 1
                 PROVE  D[x] = before[x]
      OBVIOUS
    <3>1. x - io.sector \notin 0 .. io.n - 1
      BY <2>2
    <3>2. Contents(rw.d)[x] = before[x]
      BY <1>1, <3>1, OthersUntouched
    <3>3. QED
      BY <1>3, <3>2
  <2>9. io.type = "IN" => D = before /\ HasRead(u, before)
    <3>1. WithinCluster(io)
      <4>1. q \in {Asked(k, m) : k \in DiskRequests, m \in NetTag}
        BY <2>2 DEF Ask
      <4> DEFINE r == IoRequest(q)
      <4> HIDE DEF q
      <4>2. /\ WithinCluster(r) /\ r.type = q.type /\ r.sector = q.sector /\ r.n = q.n
        BY <4>1, AskTyped
      <4>3. io.type = r.type /\ io.sector = r.sector /\ io.n = r.n
        BY <2>2, <4>2
      <4> HIDE DEF r
      <4>4. QED
        BY <4>2, <4>3 DEF WithinCluster
    <3>2. QED
      BY <1>1, <1>3, <3>1 DEF Suspended, Turned
  <2> HIDE DEF rw, u, D
  <2>10. data \in [1 .. q.n -> NetData]
    <3>1. NbBlocks * SectorsPerBlock \in Nat
      BY GeometryAssumption
    <3>2. \A i \in 1 .. q.n : q.sector + i - 1 \in NetSector
      BY <2>4, <3>1 DEF NetSector
    <3>3. QED
      BY <2>7, <3>2
  <2>11. NetDisk!Answer(t, q, data)
    <3>1. CASE q.type = "IN"
      <4>1. u.buf = [i \in 1 .. q.n |-> before[q.sector + i - 1]]
        BY <2>2, <2>3, <2>9, <3>1, WholeRead
      <4>2. QED
        BY <1>1, <2>1, <2>2, <2>3, <2>5, <2>9, <3>1, <4>1 DEF NetDisk!Answer, D
    <3>2. CASE q.type = "OUT"
      <4>1. ASSUME NEW x \in NetSector
            PROVE  D[x] = IF x \in q.sector .. q.sector + q.n - 1
                          THEN data[x - q.sector + 1] ELSE before[x]
        <5>1. x \in Nat
          BY DEF NetSector
        <5>2. CASE x \in q.sector .. q.sector + q.n - 1
          <6> DEFINE i == x - q.sector + 1
          <6>1. i \in 1 .. q.n /\ q.sector + i - 1 = x
            BY <2>4, <5>1, <5>2
          <6> HIDE DEF i
          <6>2. data[i] = D[x]
            BY <6>1
          <6>3. QED
            BY <5>2, <6>2 DEF i
        <5>3. CASE x \notin q.sector .. q.sector + q.n - 1
          <6>1. x - q.sector \notin 0 .. q.n - 1
            BY <2>4, <5>1, <5>3
          <6> HIDE DEF data
          <6>2. QED
            BY <2>8, <5>3, <6>1
        <5>4. QED
          BY <5>2, <5>3
      <4> HIDE DEF data
      <4>2. D = [x \in NetSector |-> IF x \in q.sector .. q.sector + q.n - 1
                                     THEN data[x - q.sector + 1] ELSE before[x]]
        <5>1. D = [x \in NetSector |-> D[x]]
          BY <2>7
        <5>2. QED
          BY <4>1, <5>1
      <4>3. u.type = "OUT"
        BY <2>3, <3>2
      <4>4. QED
        BY <1>1, <2>1, <2>5, <3>2, <4>2, <4>3 DEF NetDisk!Answer, NetDisk!Sectors, D
    <3>3. QED
      BY <2>4, <3>1, <3>2
  <2>12. disk_request # NoDiskRequest
    BY <2>2, RealRequest
  <2> HIDE DEF data
  <2>13. NetDisk!Complete
    BY <1>1, <1>2, <2>1, <2>10, <2>11, <2>12 DEF NetDisk!Complete
  <2>14. QED
    BY <2>13 DEF NetDisk!Next
<1>6. QED
  BY <1>4, <1>5

LEMMA ComesIsDiskStep ==
  ASSUME ReadsWithinCluster, NetInv, BlockComes
  PROVE  NetDisk!Next \/ UNCHANGED NetDisk!vars
<1>1. disk_request' = disk_request /\ waiting' = waiting
  BY DEF BlockComes
<1>2. CASE ~Head(group).wanted
  <2>1. UNCHANGED <<net, answered, disk_busy, before>>
    BY <1>2 DEF BlockComes
  <2>2. QED
    BY <1>1, <2>1, DiskStutters
<1>3. CASE Head(group).wanted /\ Head(group).block_num # net.cur_block_num
  <2> DEFINE b == Head(group).block_num
             d == [net EXCEPT !.cached_blocks = Loaded(net.cached_blocks, b)]
  <2>1. /\ Contents(d) = Contents(net)
        /\ net' = d /\ UNCHANGED <<answered, disk_busy, before>>
    BY <1>3, BlockStored
  <2> HIDE DEF d
  <2>2. QED
    BY <1>1, <2>1, DiskStutters
<1>4. CASE Head(group).wanted /\ Head(group).block_num = net.cur_block_num
  BY <1>4, ContinuedIsComplete
<1>5. QED
  BY <1>2, <1>3, <1>4

LEMMA NextIsDiskNext ==
  ASSUME ReadsWithinCluster, NetInv, [BlockNetNext]_netVars
  PROVE  [NetDisk!Next]_(NetDisk!vars)
<1>1. CASE \E r \in DiskRequests : AskDisk(r)
  BY <1>1, AskIsSubmit
<1>2. CASE TakeDiskRequest
  BY <1>2, TakeIsTaken
<1>3. CASE DiskNotified
  <2>1. UNCHANGED <<net, disk_request, disk_busy, waiting, answered, before>>
    BY <1>3 DEF DiskNotified
  <2>2. QED
    BY <2>1, DiskStutters
<1>4. CASE BlockComes
  BY <1>4, ComesIsDiskStep
<1>5. CASE SomeBlocksArrive
  <2>1. PICK t \in net.transfers : BlocksArrive(t)
    BY <1>5 DEF SomeBlocksArrive
  <2>2. Contents(net') = Contents(net)
    BY <2>1, ArriveKeeps
  <2>3. UNCHANGED <<disk_request, disk_busy, waiting, answered, before>>
    BY <2>1 DEF BlocksArrive
  <2>4. QED
    BY <2>2, <2>3, DiskStutters
<1>6. CASE UNCHANGED netVars
  <2>1. UNCHANGED <<net, disk_request, disk_busy, waiting, answered, before>>
    BY <1>6 DEF netVars
  <2>2. QED
    BY <2>1, DiskStutters
<1>7. QED
  BY <1>1, <1>2, <1>3, <1>4, <1>5, <1>6 DEF BlockNetNext, DiskRuns

\* Cache, clusters, prefetch and callbacks together are a disk, when no read goes
\* from one cluster to another of the same block: requests are taken in turn,
\* none is answered twice, and a read returns what the writes before it left over
\* the image, in whatever order the blocks come and go.
THEOREM NetIsDisk ==
  ReadsWithinCluster => (BlockNetSpec => ImplementsNetDisk)
<1>1. BlockNetInit => NetDisk!Init
  BY InitIsDiskInit
<1>2. ReadsWithinCluster /\ NetInv /\ [BlockNetNext]_netVars => [NetDisk!Next]_(NetDisk!vars)
  BY NextIsDiskNext
<1>3. SUFFICES ASSUME ReadsWithinCluster PROVE BlockNetSpec => ImplementsNetDisk
  OBVIOUS
<1>4. NetInv /\ [BlockNetNext]_netVars => [NetDisk!Next]_(NetDisk!vars)
  BY <1>2, <1>3
<1>5. QED
  BY <1>1, <1>4, NetInvHolds, PTL DEF BlockNetSpec, NetDisk!Spec, ImplementsNetDisk
=============================================================================
