--------------------------- MODULE Virtio9pProofs ---------------------------
(***************************************************************************)
(* Theorems about the 9P device and its file system, for any files, names  *)
(* and programs of the guest.                                              *)
(***************************************************************************)
EXTENDS Virtio9p, VirtQueueProofs, NaturalsInduction, WellFoundedInduction,
        SequenceTheorems, FiniteSetTheorems, TLAPS

-----------------------------------------------------------------------------
(* Induction, and the loops of the code, which the model has as folds.     *)

Less == {ss \in Nat \X Nat : ss[1] < ss[2]}

\* The numbers are well ordered.
LEMMA LessIsWellFounded ==
  IsWellFoundedOn(Less, Nat)
BY NatLessThanWellFounded DEF OpToRel, Less

\* Induction, for a set of numbers.
LEMMA SetInduction ==
  ASSUME NEW T, 0 \in T, \A n \in Nat : n \in T => n + 1 \in T
  PROVE  Nat \subseteq T
<1> DEFINE U == Nat \ T
<1>1. SUFFICES ASSUME U # {} PROVE FALSE
  OBVIOUS
<1>2. U \subseteq Nat
  OBVIOUS
<1> HIDE DEF U
<1>3. PICK x \in U : \A y \in U : ~(<<y, x>> \in Less)
  BY <1>1, <1>2, LessIsWellFounded, WFMin
<1>4. x \in Nat /\ x # 0 /\ x \notin T
  BY <1>2 DEF U
<1>5. x - 1 \in Nat /\ (x - 1) + 1 = x
  BY <1>4
<1>6. x - 1 \in U
  BY <1>4, <1>5 DEF U
<1>7. <<x - 1, x>> \in Less
  BY <1>5, <1>4 DEF Less
<1>8. QED
  BY <1>3, <1>6, <1>7

\* A set of numbers up to n has a greatest and a least.
LEMMA Extremes ==
  ASSUME NEW n \in Nat, NEW s0 \in SUBSET (1 .. n), s0 # {}
  PROVE  /\ Max(s0) \in s0 /\ \A y \in s0 : y <= Max(s0)
         /\ Min(s0) \in s0 /\ \A y \in s0 : Min(s0) <= y
<1> DEFINE Greatest(m) == \A r \in SUBSET (1 .. m) : r # {} => \E x \in r : \A y \in r : x >= y
           Least(m) == \A r \in SUBSET (1 .. m) : r # {} => \E x \in r : \A y \in r : x <= y
           T == {m \in Nat : Greatest(m) /\ Least(m)}
<1>1. 0 \in T
  <2>1. \A r \in SUBSET (1 .. 0) : r = {}
    OBVIOUS
  <2>2. QED
    BY <2>1
<1>2. ASSUME NEW m \in Nat, m \in T
      PROVE  m + 1 \in T
  <2>1. ASSUME NEW r \in SUBSET (1 .. m + 1), r # {}
        PROVE  (\E x \in r : \A y \in r : x >= y) /\ (\E x \in r : \A y \in r : x <= y)
    <3>1. CASE r = {m + 1}
      BY <3>1
    <3>2. CASE m + 1 \notin r
      <4>1. r \in SUBSET (1 .. m)
        BY <3>2
      <4>2. QED
        BY <1>2, <2>1, <4>1
    <3>3. CASE m + 1 \in r /\ r # {m + 1}
      <4>1. r \ {m + 1} \in SUBSET (1 .. m) /\ r \ {m + 1} # {}
        BY <3>3, <2>1
      <4>2. PICK x \in r \ {m + 1} : \A y \in r \ {m + 1} : x <= y
        BY <1>2, <4>1
      <4>3. x <= m + 1 /\ \A y \in r : m + 1 >= y
        BY <4>1, <4>2
      <4>4. QED
        BY <3>3, <4>2, <4>3
    <3>4. QED
      BY <2>1, <3>1, <3>2, <3>3
  <2>2. QED
    BY <2>1
<1> HIDE DEF T
<1>3. Nat \subseteq T
  BY <1>1, <1>2, SetInduction
<1>4. (\E x \in s0 : \A y \in s0 : x >= y) /\ (\E x \in s0 : \A y \in s0 : x <= y)
  BY <1>3 DEF T
<1>5. /\ Max(s0) \in s0 /\ \A y \in s0 : Max(s0) >= y
      /\ Min(s0) \in s0 /\ \A y \in s0 : Min(s0) <= y
  BY <1>4 DEF Max, Min
<1>6. QED
  BY <1>5

\* One turn of a loop over a sequence: kind says which, p is what it is about,
\* t what it has come to.
Do(kind, p, t, x) ==
  CASE kind = "error" -> LeaveArchive(SetError(t, x.ino), x.ino)
    [] kind = "flush" -> InodeDirentDelete(t, p, x.name)
    [] kind = "walk" -> LET next == InodeSearch(p, t.ino, x)
                        IN  IF t.stop \/ next = NoIno THEN [t EXCEPT !.stop = TRUE]
                            ELSE [t EXCEPT !.ino = next, !.count = @ + 1]
    [] kind = "trim" -> IF t.cache_size + p <= CacheLimit \/ t.ino[x].open_count # 0
                        THEN t ELSE Unload(t, x)
    [] kind = "alone" -> PreloadFile(t, x.name)
    [] kind = "members" -> AddMember(t, p.ino, Archives[p.name][x], Offset(p.name, x))
    [] kind = "preload" -> IF x.archive THEN PreloadArchive(t, x.name) ELSE PreloadFile(t, x.name)
    [] kind = "filelist" -> FilelistLoad(t, x)

\* What the loop has come to after the turns of a set of places.
LoopOver(f, kind, p, base, q, n) ==
  f = [S \in SUBSET (1 .. n) |-> IF S = {} THEN base ELSE Do(kind, p, f[S \ {Max(S)}], q[Max(S)])]

\* There is such a function.
LEMMA LoopExists ==
  ASSUME NEW kind, NEW p, NEW base, NEW q, NEW n \in Nat
  PROVE  \E f : LoopOver(f, kind, p, base, q, n)
<1> DEFINE T == {m \in Nat : \E f : LoopOver(f, kind, p, base, q, m)}
<1>1. 0 \in T
  <2> DEFINE f == [S \in SUBSET (1 .. 0) |-> base]
  <2>1. \A S \in SUBSET (1 .. 0) : S = {}
    OBVIOUS
  <2>2. f = [S \in SUBSET (1 .. 0) |->
               IF S = {} THEN base ELSE Do(kind, p, f[S \ {Max(S)}], q[Max(S)])]
    BY <2>1
  <2> HIDE DEF f
  <2>3. QED
    BY <2>2 DEF LoopOver
<1>2. ASSUME NEW m \in Nat, m \in T
      PROVE  m + 1 \in T
  <2>1. PICK f : LoopOver(f, kind, p, base, q, m)
    BY <1>2
  <2> DEFINE A == SUBSET (1 .. m)
             B == SUBSET (1 .. m + 1)
             g == [S \in B |-> IF m + 1 \in S THEN Do(kind, p, f[S \ {m + 1}], q[m + 1]) ELSE f[S]]
  <2>2. ASSUME NEW S \in B
        PROVE  g[S] = IF S = {} THEN base ELSE Do(kind, p, g[S \ {Max(S)}], q[Max(S)])
    <3>1. CASE m + 1 \in S
      <4>1. Max(S) = m + 1
        <5>1. S # {} /\ m + 1 \in Nat /\ S \in SUBSET (1 .. m + 1)
          BY <3>1
        <5>2. \A k \in Nat : S \in SUBSET (1 .. k) => Max(S) \in S /\ \A y \in S : y <= Max(S)
          BY <5>1, Extremes
        <5>3. Max(S) \in S /\ \A y \in S : y <= Max(S)
          BY <5>1, <5>2
        <5>4. \A y \in S : y \in Nat /\ y <= m + 1
          BY <5>1
        <5>5. Max(S) \in Nat /\ Max(S) <= m + 1
          BY <5>3, <5>4
        <5>6. m + 1 <= Max(S)
          BY <3>1, <5>3
        <5>7. QED
          BY <5>5, <5>6
      <4>2. S \ {m + 1} \in B /\ m + 1 \notin S \ {m + 1}
        OBVIOUS
      <4>3. g[S \ {m + 1}] = f[S \ {m + 1}]
        BY <4>2
      <4>4. g[S] = Do(kind, p, f[S \ {m + 1}], q[m + 1])
        BY <3>1
      <4> HIDE DEF g
      <4>5. QED
        BY <3>1, <4>1, <4>3, <4>4
    <3>2. CASE m + 1 \notin S
      <4>1. S \in A
        BY <3>2
      <4>2. g[S] = f[S]
        BY <3>2
      <4>3. f[S] = IF S = {} THEN base ELSE Do(kind, p, f[S \ {Max(S)}], q[Max(S)])
        BY <2>1, <4>1 DEF LoopOver
      <4>4. S \ {Max(S)} \in B /\ m + 1 \notin S \ {Max(S)}
        BY <3>2
      <4>5. g[S \ {Max(S)}] = f[S \ {Max(S)}]
        BY <4>4
      <4> HIDE DEF g
      <4>6. QED
        BY <4>2, <4>3, <4>5
    <3>3. QED
      BY <3>1, <3>2
  <2>3. g = [S \in B |-> g[S]]
    OBVIOUS
  <2> HIDE DEF g
  <2>4. g = [S \in B |-> IF S = {} THEN base ELSE Do(kind, p, g[S \ {Max(S)}], q[Max(S)])]
    BY <2>2, <2>3
  <2>5. LoopOver(g, kind, p, base, q, m + 1)
    BY <2>4 DEF LoopOver
  <2>6. \E h : LoopOver(h, kind, p, base, q, m + 1)
    BY <2>5
  <2>7. QED
    BY <2>6
<1> HIDE DEF T
<1>3. Nat \subseteq T
  BY <1>1, <1>2, SetInduction
<1>4. QED
  BY <1>3 DEF T

\* Turn by turn.
LEMMA LoopTurns ==
  ASSUME NEW kind, NEW p, NEW base, NEW q, NEW n \in Nat, NEW f, LoopOver(f, kind, p, base, q, n)
  PROVE  /\ f[1 .. 0] = base
         /\ \A i \in 1 .. n : f[1 .. i] = Do(kind, p, f[1 .. i - 1], q[i])
<1>1. 1 .. 0 \in SUBSET (1 .. n) /\ 1 .. 0 = {}
  OBVIOUS
<1>2. f[1 .. 0] = base
  BY <1>1 DEF LoopOver
<1>3. ASSUME NEW i \in 1 .. n
      PROVE  f[1 .. i] = Do(kind, p, f[1 .. i - 1], q[i])
  <2>1. 1 .. i \in SUBSET (1 .. n) /\ 1 .. i # {} /\ i \in 1 .. i
    OBVIOUS
  <2>2. Max(1 .. i) = i
    <3>1. Max(1 .. i) \in 1 .. i /\ \A y \in 1 .. i : y <= Max(1 .. i)
      BY <2>1, Extremes
    <3>2. QED
      BY <2>1, <3>1
  <2>3. (1 .. i) \ {i} = 1 .. i - 1
    OBVIOUS
  <2>4. QED
    BY <2>1, <2>2, <2>3 DEF LoopOver
<1>4. QED
  BY <1>2, <1>3

\* What a loop comes to turn by turn.
Course(h, kind, p, base, q, n) ==
  h[0] = base /\ \A i \in 1 .. n : h[i] = Do(kind, p, h[i - 1], q[i])

LEMMA LoopCourse ==
  ASSUME NEW kind, NEW p, NEW base, NEW q, NEW n \in Nat, NEW f, LoopOver(f, kind, p, base, q, n)
  PROVE  \E h : Course(h, kind, p, base, q, n) /\ h[n] = f[1 .. n]
<1>0. f[1 .. 0] = base
  <2>1. {} \in SUBSET (1 .. n) /\ 1 .. 0 = {}
    OBVIOUS
  <2>2. f[{}] = base
    BY <2>1 DEF LoopOver
  <2>3. QED
    BY <2>1, <2>2
<1> DEFINE h == [i \in 0 .. n |-> f[1 .. i]]
<1>1. h[0] = base /\ h[n] = f[1 .. n]
  BY <1>0
<1>2. ASSUME NEW i \in 1 .. n
      PROVE  h[i] = Do(kind, p, h[i - 1], q[i])
  <2>1. h[i] = f[1 .. i] /\ h[i - 1] = f[1 .. i - 1]
    OBVIOUS
  <2>2. f[1 .. i] = Do(kind, p, f[1 .. i - 1], q[i])
    BY LoopTurns
  <2> HIDE DEF h
  <2>3. QED
    BY <2>1, <2>2
<1> HIDE DEF h
<1>3. QED
  BY <1>1, <1>2 DEF Course

-----------------------------------------------------------------------------
(* Sequences and sets.                                                     *)

LEMMA MinIs ==
  ASSUME NEW S \in SUBSET Nat, S # {}
  PROVE  Min(S) \in S /\ \A y \in S : Min(S) <= y
<1>1. PICK x \in S : \A y \in S : ~(<<y, x>> \in Less)
  BY LessIsWellFounded, WFMin
<1>2. \A y \in S : x <= y
  <2>1. TAKE y \in S
  <2>2. x \in Nat /\ y \in Nat /\ ~(<<y, x>> \in Less)
    BY <1>1
  <2>3. ~(y < x)
    BY <2>2 DEF Less
  <2>4. QED
    BY <2>2, <2>3
<1>3. QED
  BY <1>2 DEF Min

\* A function from 1 to n is a sequence, whatever its values.
IsSeq(s) == Len(s) \in Nat /\ DOMAIN s = 1 .. Len(s)

LEMMA LenIs ==
  ASSUME NEW s, NEW n \in Nat, DOMAIN s = 1 .. n
  PROVE  IsSeq(s) /\ Len(s) = n
BY DEF IsSeq

LEMMA RemoveAtIs ==
  ASSUME NEW X, NEW q \in Seq(X), NEW pos \in 1 .. Len(q)
  PROVE  /\ RemoveAt(q, pos) \in Seq(X)
         /\ Len(RemoveAt(q, pos)) = Len(q) - 1
         /\ \A i \in 1 .. Len(q) - 1 : RemoveAt(q, pos)[i] = IF i < pos THEN q[i] ELSE q[i + 1]
<1> DEFINE a == SubSeq(q, 1, pos - 1)
           b == SubSeq(q, pos + 1, Len(q))
<1>1. a \in Seq(X) /\ Len(a) = pos - 1 /\ \A i \in 1 .. pos - 1 : a[i] = q[i]
  OBVIOUS
<1>2. b \in Seq(X) /\ Len(b) = Len(q) - pos /\ \A i \in 1 .. Len(q) - pos : b[i] = q[pos + i]
  OBVIOUS
<1>3. RemoveAt(q, pos) = a \o b
  BY DEF RemoveAt
<1> HIDE DEF a, b
<1>4. a \o b \in Seq(X) /\ Len(a \o b) = Len(q) - 1
  <2>1. a \in Seq(X) /\ b \in Seq(X)
    BY <1>1, <1>2
  <2>2. a \o b \in Seq(X) /\ Len(a \o b) = Len(a) + Len(b)
    BY <2>1
  <2>3. QED
    BY <1>1, <1>2, <2>2
<1>5. ASSUME NEW i \in 1 .. Len(q) - 1
      PROVE  (a \o b)[i] = IF i < pos THEN q[i] ELSE q[i + 1]
  <2>1. CASE i < pos
    <3>1. (a \o b)[i] = a[i]
      BY <1>1, <1>2, <2>1
    <3>2. QED
      BY <1>1, <2>1, <3>1
  <2>2. CASE ~(i < pos)
    <3>1. (a \o b)[i] = b[i - Len(a)]
      BY <1>1, <1>2, <2>2
    <3>2. b[i - (pos - 1)] = q[pos + (i - (pos - 1))]
      BY <1>2, <2>2
    <3>3. pos + (i - (pos - 1)) = i + 1
      OBVIOUS
    <3>4. QED
      BY <1>1, <2>2, <3>1, <3>2, <3>3
  <2>3. QED
    BY <2>1, <2>2
<1>6. QED
  BY <1>3, <1>4, <1>5

\* The first of those a test is true of leaves a sequence.
LEMMA RemoveFirstIs ==
  ASSUME NEW X, NEW q \in Seq(X), NEW pos \in 1 .. Len(q), NEW e,
         q[pos] = e, \A j \in 1 .. pos - 1 : q[j] # e
  PROVE  RemoveFirst(q, e) = RemoveAt(q, pos)
<1> DEFINE I == {i \in 1 .. Len(q) : q[i] = e}
<1>1. Min(I) = pos
  <2>1. I \in SUBSET Nat /\ pos \in I
    OBVIOUS
  <2>2. Min(I) \in I /\ Min(I) <= pos
    BY <2>1, MinIs
  <2>3. QED
    BY <2>2
<1>2. SelectInSeq(q, LAMBDA v : v = e) = pos
  BY <1>1 DEF SelectInSeq
<1>3. QED
  BY <1>2 DEF RemoveFirst

\* An entry that is there is found where it first is.
LEMMA SearchIs ==
  ASSUME NEW X, NEW q \in Seq(X), NEW name, \E k \in DOMAIN q : q[k].name = name
  PROVE  LET pos == Min({k \in DOMAIN q : q[k].name = name})
         IN  /\ pos \in 1 .. Len(q) /\ q[pos].name = name
             /\ \A j \in 1 .. pos - 1 : q[j].name # name
             /\ WithoutDent(q, name) = RemoveAt(q, pos)
<1> DEFINE I == {k \in DOMAIN q : q[k].name = name}
           pos == Min(I)
<1>1. Len(q) \in Nat /\ DOMAIN q = 1 .. Len(q)
  OBVIOUS
<1>2. I \in SUBSET Nat /\ I # {}
  BY <1>1
<1>3. pos \in I /\ \A y \in I : pos <= y
  BY <1>2, MinIs
<1>4. I = {i \in 1 .. Len(q) : q[i].name = name}
  BY <1>1
<1>5. SelectInSeq(q, LAMBDA de : de.name = name) = pos
  BY <1>2, <1>4 DEF SelectInSeq
<1>6. WithoutDent(q, name) = RemoveAt(q, pos)
  BY <1>1, <1>5 DEF RemoveFirstMatch, WithoutDent
<1>7. \A j \in 1 .. pos - 1 : q[j].name # name
  BY <1>1, <1>3
<1>8. QED
  BY <1>1, <1>3, <1>6, <1>7

\* The places of a sequence of entries or members that name an inode.
At(s, n) == {k \in DOMAIN s : s[k].ino = n}

LEMMA AtIs ==
  ASSUME NEW X, NEW s \in Seq(X), NEW n
  PROVE  IsFiniteSet(At(s, n)) /\ Cardinality(At(s, n)) \in Nat /\ At(s, n) \in SUBSET Nat
<1>1. Len(s) \in Nat /\ DOMAIN s = 1 .. Len(s)
  OBVIOUS
<1>2. IsFiniteSet(1 .. Len(s))
  BY <1>1, FS_Interval
<1>3. At(s, n) \in SUBSET (1 .. Len(s))
  BY <1>1 DEF At
<1>4. QED
  BY <1>2, <1>3, FS_Subset, FS_CardinalityType

LEMMA AtAppend ==
  ASSUME NEW X, NEW s \in Seq(X), NEW e \in X, NEW n
  PROVE  Cardinality(At(Append(s, e), n)) = Cardinality(At(s, n)) + (IF e.ino = n THEN 1 ELSE 0)
<1> DEFINE t == Append(s, e)
           L == Len(s)
<1>1. /\ L \in Nat /\ DOMAIN s = 1 .. L /\ DOMAIN t = 1 .. L + 1
      /\ t[L + 1] = e /\ \A k \in 1 .. L : t[k] = s[k]
  OBVIOUS
<1>2. IsFiniteSet(At(s, n)) /\ Cardinality(At(s, n)) \in Nat /\ L + 1 \notin At(s, n)
  <2>1. IsFiniteSet(At(s, n)) /\ Cardinality(At(s, n)) \in Nat
    BY AtIs
  <2>2. L + 1 \notin At(s, n)
    BY <1>1 DEF At
  <2>3. QED
    BY <2>1, <2>2
<1>3. At(t, n) = IF e.ino = n THEN At(s, n) \cup {L + 1} ELSE At(s, n)
  BY <1>1 DEF At
<1> DEFINE c == At(s, n)
<1> HIDE DEF t, c, L
<1>4. Cardinality(c \cup {L + 1}) = Cardinality(c) + 1
  BY <1>2, FS_AddElement DEF c
<1>5. Cardinality(At(t, n)) = Cardinality(At(s, n)) + (IF e.ino = n THEN 1 ELSE 0)
  BY <1>2, <1>3, <1>4 DEF c
<1>6. QED
  BY <1>5 DEF t

LEMMA AtRemove ==
  ASSUME NEW X, NEW s \in Seq(X), NEW pos \in 1 .. Len(s), NEW n
  PROVE  Cardinality(At(RemoveAt(s, pos), n))
           = Cardinality(At(s, n)) - (IF s[pos].ino = n THEN 1 ELSE 0)
<1> DEFINE t == RemoveAt(s, pos)
           L == Len(s)
           B == At(s, n) \ {pos}
           f == [k \in At(t, n) |-> IF k < pos THEN k ELSE k + 1]
<1>1. L \in Nat /\ DOMAIN s = 1 .. L
  OBVIOUS
<1>2. t \in Seq(X) /\ Len(t) = L - 1 /\ DOMAIN t = 1 .. L - 1
      /\ \A i \in 1 .. L - 1 : t[i] = IF i < pos THEN s[i] ELSE s[i + 1]
  <2>1. t \in Seq(X) /\ Len(t) = L - 1
        /\ \A i \in 1 .. L - 1 : t[i] = IF i < pos THEN s[i] ELSE s[i + 1]
    BY RemoveAtIs
  <2> HIDE DEF t, L
  <2>2. DOMAIN t = 1 .. Len(t)
    BY <2>1
  <2>3. QED
    BY <2>1, <2>2
<1> HIDE DEF t
<1>3. IsFiniteSet(At(t, n)) /\ IsFiniteSet(At(s, n)) /\ Cardinality(At(s, n)) \in Nat
  BY <1>2, AtIs
<1>4. f \in [At(t, n) -> B]
  BY <1>1, <1>2 DEF At
<1>5. \A k, l \in At(t, n) : f[k] = f[l] => k = l
  BY <1>1, <1>2 DEF At
<1>6. \A j \in B : \E k \in At(t, n) : f[k] = j
  <2>1. TAKE j \in B
  <2>2. j \in 1 .. L /\ j # pos /\ s[j].ino = n
    BY <1>1 DEF At
  <2>3. CASE j < pos
    <3>1. j \in At(t, n)
      BY <1>1, <1>2, <2>2, <2>3 DEF At
    <3>2. QED
      BY <2>3, <3>1
  <2>4. CASE j > pos
    <3>1. j - 1 \in 1 .. L - 1 /\ ~(j - 1 < pos) /\ (j - 1) + 1 = j
      BY <1>1, <2>2, <2>4
    <3>2. j - 1 \in At(t, n)
      BY <1>2, <2>2, <3>1 DEF At
    <3>3. QED
      BY <3>1, <3>2
  <2>5. QED
    BY <1>1, <2>2, <2>3, <2>4
<1> HIDE DEF f, B
<1> DEFINE A == At(t, n)
<1>a. f \in [A -> B] /\ (\A k, l \in A : f[k] = f[l] => k = l) /\ \A j \in B : \E k \in A : f[k] = j
  BY <1>4, <1>5, <1>6
<1> HIDE DEF A
<1>b. f \in Bijection(A, B)
  BY <1>a DEF Bijection, Injection, Surjection, IsInjective
<1>7. f \in Bijection(At(t, n), B)
  BY <1>b DEF A
<1>8. Cardinality(At(t, n)) = Cardinality(B)
  BY <1>3, <1>7, FS_Bijection DEF ExistsBijection
<1>9. Cardinality(B) = Cardinality(At(s, n)) - (IF s[pos].ino = n THEN 1 ELSE 0)
  <2>1. pos \in At(s, n) <=> s[pos].ino = n
    BY <1>1 DEF At
  <2>2. Cardinality(B) = IF pos \in At(s, n) THEN Cardinality(At(s, n)) - 1 ELSE Cardinality(At(s, n))
    BY <1>3, FS_RemoveElement DEF B
  <2>3. QED
    BY <1>3, <2>1, <2>2
<1>10. QED
  BY <1>8, <1>9 DEF t

-----------------------------------------------------------------------------
(* What the inodes add up to: pairs of an inode and one of its things.     *)

Pairs(F) == UNION {{d} \X F[d] : d \in Ino}
AllFinite(F) == \A d \in Ino : IsFiniteSet(F[d])

LEMMA PairsFinite ==
  ASSUME NEW F, AllFinite(F)
  PROVE  IsFiniteSet(Pairs(F)) /\ Cardinality(Pairs(F)) \in Nat
<1> DEFINE T == {{d} \X F[d] : d \in Ino}
           f == [d \in Ino |-> {d} \X F[d]]
<1>1. f \in Surjection(Ino, T)
  BY DEF Surjection
<1>2. IsFiniteSet(T)
  BY <1>1, FS_Surjection, InoAssumption
<1>3. \A t \in T : IsFiniteSet(t)
  <2>1. ASSUME NEW d \in Ino
        PROVE  IsFiniteSet({d} \X F[d])
    <3>1. IsFiniteSet({d}) /\ IsFiniteSet(F[d])
      BY FS_Singleton DEF AllFinite
    <3>2. QED
      BY <3>1, FS_Product
  <2>2. QED
    BY <2>1
<1> HIDE DEF T
<1>4. IsFiniteSet(UNION T)
  BY <1>2, <1>3, FS_UNION
<1>5. QED
  BY <1>4, FS_CardinalityType DEF Pairs, T

\* The sum changes as much as one of its parts does.
LEMMA PairsUpdate ==
  ASSUME NEW F, NEW G, NEW m \in Ino, AllFinite(F), IsFiniteSet(G[m]),
         \A d \in Ino : d # m => G[d] = F[d]
  PROVE  /\ Cardinality(Pairs(F)) \in Nat /\ Cardinality(Pairs(G)) \in Nat
         /\ Cardinality(Pairs(G)) = Cardinality(Pairs(F)) - Cardinality(F[m]) + Cardinality(G[m])
<1> DEFINE U == UNION {{d} \X F[d] : d \in Ino \ {m}}
           A == {m} \X F[m]
           B == {m} \X G[m]
<1>1. AllFinite(G)
  BY DEF AllFinite
<1>2. IsFiniteSet(Pairs(F)) /\ IsFiniteSet(Pairs(G))
  BY <1>1, PairsFinite
<1>3. Pairs(F) = U \cup A
  BY DEF Pairs
<1>4. Pairs(G) = U \cup B
  BY DEF Pairs
<1>5. U \cap A = {} /\ U \cap B = {}
  <2>1. \A u \in U : u[1] # m
    OBVIOUS
  <2>2. (\A u \in A : u[1] = m) /\ (\A u \in B : u[1] = m)
    OBVIOUS
  <2> HIDE DEF U, A, B
  <2>3. QED
    BY <2>1, <2>2
<1>6. IsFiniteSet(F[m])
  BY DEF AllFinite
<1>7. /\ IsFiniteSet(A) /\ Cardinality(A) = Cardinality(F[m])
      /\ IsFiniteSet(B) /\ Cardinality(B) = Cardinality(G[m])
  <2>1. Cardinality(F[m]) \in Nat /\ Cardinality(G[m]) \in Nat
    BY <1>6, FS_CardinalityType
  <2>2. \A c \in Nat : 1 * c = c
    OBVIOUS
  <2>3. IsFiniteSet({m}) /\ Cardinality({m}) = 1
    BY FS_Singleton
  <2>4. IsFiniteSet(A) /\ Cardinality(A) = 1 * Cardinality(F[m])
    BY <1>6, <2>3, FS_Product
  <2>5. IsFiniteSet(B) /\ Cardinality(B) = 1 * Cardinality(G[m])
    BY <2>3, FS_Product
  <2>6. QED
    BY <2>1, <2>2, <2>4, <2>5
<1> HIDE DEF U, A, B
<1>8. IsFiniteSet(U)
  <2>1. U \in SUBSET Pairs(F)
    BY <1>3
  <2>2. QED
    BY <1>2, <2>1, FS_Subset
<1>9. /\ Cardinality(Pairs(F)) = Cardinality(U) + Cardinality(A)
      /\ Cardinality(Pairs(G)) = Cardinality(U) + Cardinality(B)
  <2>1. Cardinality(U \cap A) = 0 /\ Cardinality(U \cap B) = 0
    BY <1>5, FS_EmptySet
  <2>2. Cardinality(U) \in Nat /\ Cardinality(A) \in Nat /\ Cardinality(B) \in Nat
    BY <1>7, <1>8, FS_CardinalityType
  <2>3. Cardinality(U \cup A) = Cardinality(U) + Cardinality(A) - Cardinality(U \cap A)
    BY <1>7, <1>8, FS_Union
  <2>4. Cardinality(U \cup B) = Cardinality(U) + Cardinality(B) - Cardinality(U \cap B)
    BY <1>7, <1>8, FS_Union
  <2>5. QED
    BY <1>3, <1>4, <2>1, <2>2, <2>3, <2>4
<1>10. /\ Cardinality(U) \in Nat /\ Cardinality(F[m]) \in Nat /\ Cardinality(G[m]) \in Nat
  BY <1>6, <1>8, FS_CardinalityType
<1>11. QED
  BY <1>7, <1>9, <1>10

-----------------------------------------------------------------------------
(* The file system's state: what a record of each kind holds.               *)

NodeFields == {"type", "refcount", "open_count", "dents", "state", "size", "buf",
               "file_id", "load"}
LoadFields == {"type", "members", "cb"}
FileFields == {"ino", "is_opened", "flags"}
FsFields == {"ino", "file", "blocks", "cache", "cache_size", "called", "broken"}

States == {"LOCAL", "LOADED", "LOADING", "UNLOADED"}
Dent == [name : AskName, ino : Ino]
Offsets == {Offset(o[1], o[2]) : o \in (DOMAIN Archives) \X Nat}
Member == [ino : Ino, off : Offsets]

IsLoad(l) ==
  /\ l = [k \in LoadFields |-> l[k]]
  /\ l.members \in Seq(Member) /\ l.cb \in FsFile \union {NoFile}

\* A free inode counts nothing, and only directories have entries.
IsNode(x) ==
  /\ x = [k \in NodeFields |-> x[k]]
  /\ x.refcount \in Int /\ x.open_count \in Int
  /\ x.dents \in Seq(Dent) /\ x.state \in States
  /\ x.size \in Nat /\ IsSeq(x.buf) /\ IsLoad(x.load)
  /\ x.type = "NONE" => x.refcount = 0 /\ x.open_count = 0 /\ x.size = 0
  /\ x.type # "DIR" => x.dents = <<>>
  /\ x.type = "DIR" => x.size = DirentSize * Len(x.dents)

IsFile(x) ==
  /\ x = [k \in FileFields |-> x[k]]
  /\ x.ino \in Ino \union {NoIno} /\ x.is_opened \in BOOLEAN

IsFs(f) ==
  /\ f = [k \in FsFields |-> f[k]]
  /\ f.ino = [n \in Ino |-> f.ino[n]] /\ \A n \in Ino : IsNode(f.ino[n])
  /\ f.file = [o \in FsFile |-> f.file[o]] /\ \A o \in FsFile : IsFile(f.file[o])
  /\ f.blocks \in Int /\ f.cache \in Seq(Ino) /\ f.cache_size \in Int
  /\ f.broken \in BOOLEAN

\* Calls that change nothing but what is in memory and what is being fetched.
SameNode(x, y) ==
  /\ y.type = x.type /\ y.refcount = x.refcount /\ y.open_count = x.open_count
  /\ y.dents = x.dents /\ y.size = x.size
  /\ y.load.cb \in {x.load.cb, NoFile}
  /\ y.state = "LOADED" => x.state = "LOADED"
Quiet(f) == \A n \in Ino : f.ino[n].load.cb = NoFile
Light(f, g) ==
  /\ IsFs(g) /\ g.file = f.file /\ g.blocks = f.blocks
  /\ f.broken = TRUE => g.broken = TRUE
  /\ \A n \in Ino : SameNode(f.ino[n], g.ino[n])
  /\ Quiet(f) => g.called = f.called

LEMMA LightSelf ==
  ASSUME NEW f, IsFs(f)
  PROVE  Light(f, f)
BY DEF Light, SameNode

LEMMA LightThen ==
  ASSUME NEW f, NEW g, NEW h, Light(f, g), Light(g, h)
  PROVE  Light(f, h)
<1>1. Quiet(f) => Quiet(g)
  BY DEF Light, SameNode, Quiet
<1>2. \A n \in Ino : SameNode(f.ino[n], h.ino[n])
  BY DEF Light, SameNode
<1>3. QED
  BY <1>1, <1>2 DEF Light

\* A node with other contents.
LEMMA NodeStays ==
  ASSUME NEW x, IsNode(x), NEW y, y = [k \in NodeFields |-> y[k]], SameNode(x, y),
         y.state \in States, IsSeq(y.buf), IsLoad(y.load)
  PROVE  IsNode(y)
BY DEF IsNode, SameNode

\* One inode becomes y.
Alters(f, g, n, y) ==
  /\ g = [k \in FsFields |-> g[k]] /\ g.ino = [f.ino EXCEPT ![n] = y]
  /\ g.file = f.file /\ g.blocks = f.blocks /\ g.cache \in Seq(Ino) /\ g.cache_size \in Int
  /\ g.broken \in BOOLEAN /\ (f.broken = TRUE => g.broken = TRUE)
  /\ (Quiet(f) => g.called = f.called)
  /\ IsNode(y) /\ SameNode(f.ino[n], y)

LEMMA LightChange ==
  ASSUME NEW f, IsFs(f), NEW n \in Ino, NEW y, NEW g, Alters(f, g, n, y)
  PROVE  /\ Light(f, g)
         /\ g.ino[n] = y /\ \A m \in Ino : m # n => g.ino[m] = f.ino[m]
<1>1. g.ino[n] = y /\ \A m \in Ino : m # n => g.ino[m] = f.ino[m]
  BY DEF IsFs, Alters
<1>2. g.ino = [m \in Ino |-> g.ino[m]]
  BY DEF IsFs, Alters
<1>3. \A m \in Ino : IsNode(g.ino[m])
  BY <1>1 DEF IsFs, Alters
<1>4. IsFs(g)
  BY <1>2, <1>3 DEF IsFs, Alters
<1>5. \A m \in Ino : SameNode(f.ino[m], g.ino[m])
  BY <1>1 DEF SameNode, Alters
<1>6. QED
  BY <1>1, <1>4, <1>5 DEF Light, Alters

\* The entries of a node, and its buffer, by what the operators do to them.
LEMMA NoLoadIs ==
  IsLoad(NoLoad) /\ NoLoad.cb = NoFile /\ NoLoad.members = <<>>
BY DEF NoLoad, IsLoad, LoadFields

LEMMA NoInodeIs ==
  /\ IsNode(NoInode)
  /\ NoInode.type = "NONE" /\ NoInode.refcount = 0 /\ NoInode.open_count = 0
  /\ NoInode.dents = <<>> /\ NoInode.state = "LOCAL" /\ NoInode.size = 0
  /\ NoInode.buf = <<>> /\ NoInode.load = NoLoad
<1>1. /\ NoInode.type = "NONE" /\ NoInode.refcount = 0 /\ NoInode.open_count = 0
      /\ NoInode.dents = <<>> /\ NoInode.state = "LOCAL" /\ NoInode.size = 0
      /\ NoInode.buf = <<>> /\ NoInode.load = NoLoad
  BY DEF NoInode
<1>2. NoInode = [k \in NodeFields |-> NoInode[k]]
  BY DEF NoInode, NodeFields
<1>3. IsSeq(<<>>)
  BY DEF IsSeq
<1> HIDE DEF NoInode
<1>4. QED
  BY <1>1, <1>2, <1>3, NoLoadIs DEF IsNode, States

LEMMA ResizedIs ==
  ASSUME NEW buf, NEW n \in Nat
  PROVE  IsSeq(Resized(buf, n)) /\ Len(Resized(buf, n)) = n
<1>1. DOMAIN Resized(buf, n) = 1 .. n
  BY DEF Resized
<1>2. QED
  BY <1>1, LenIs

LEMMA WrittenIs ==
  ASSUME NEW buf, IsSeq(buf), NEW off, NEW data
  PROVE  /\ IsSeq(Written(buf, off, data)) /\ Len(Written(buf, off, data)) = Len(buf)
         /\ IsSeq(Zeroed(buf, off, data)) /\ Len(Zeroed(buf, off, data)) = Len(buf)
<1>1. DOMAIN Written(buf, off, data) = 1 .. Len(buf) /\ DOMAIN Zeroed(buf, off, data) = 1 .. Len(buf)
  BY DEF Written, Zeroed, IsSeq
<1>2. Len(buf) \in Nat
  BY DEF IsSeq
<1>3. QED
  BY <1>1, <1>2, LenIs

-----------------------------------------------------------------------------
(* What is in memory.                                                      *)

Bytes(f) == [n \in Ino |-> IF f.ino[n].state = "LOADED" THEN 1 .. f.ino[n].size ELSE {}]

OpenAt(f, n) == \E o \in FsFile : f.file[o].is_opened = TRUE /\ f.file[o].ino = n
InMemory(x) == x.state \in {"LOCAL", "LOADED"}

NodeHere(f, n) ==
  LET x == f.ino[n]
  IN  /\ x.type # "REG" => x.state = "LOCAL"
      /\ x.type = "REG" /\ x.state # "UNLOADED" => x.size <= Len(x.buf)
      /\ x.type = "REG" /\ OpenAt(f, n) => InMemory(x)

\* The cache lists what is loaded, and adds up its sizes.
Cached(f) ==
  /\ \A i, j \in DOMAIN f.cache : f.cache[i] = f.cache[j] => i = j
  /\ \A n \in Ino : (\E i \in DOMAIN f.cache : f.cache[i] = n) <=> f.ino[n].state = "LOADED"
  /\ f.cache_size = Cardinality(Pairs(Bytes(f)))

Fresh(f) ==
  f.broken = FALSE => Cached(f) /\ \A n \in Ino : NodeHere(f, n)

LEMMA CachedStays ==
  ASSUME NEW f, NEW g, Cached(f), g.cache = f.cache, g.cache_size = f.cache_size,
         \A n \in Ino : /\ g.ino[n].state = "LOADED" <=> f.ino[n].state = "LOADED"
                        /\ g.ino[n].state = "LOADED" => g.ino[n].size = f.ino[n].size
  PROVE  Cached(g)
<1>1. Bytes(g) = Bytes(f)
  BY DEF Bytes
<1>2. QED
  BY <1>1 DEF Cached

LEMMA HereStays ==
  ASSUME NEW f, NEW g, NEW n \in Ino, NodeHere(f, n), g.ino[n] = f.ino[n], g.file = f.file
  PROVE  NodeHere(g, n)
BY DEF NodeHere, OpenAt

\* A member leaves its place in the lists of all archives.
LEMMA MembersLeave ==
  ASSUME NEW X, NEW q \in Seq(X), NEW n
  PROVE  WithoutMember(q, n) \in Seq(X)
<1> DEFINE I == {i \in 1 .. Len(q) : q[i].ino = n}
           t == WithoutMember(q, n)
<1>0. Len(q) \in Nat
  OBVIOUS
<1>1. CASE I = {}
  <2>1. t = q
    BY <1>1 DEF RemoveFirstMatch, WithoutMember
  <2>2. QED
    BY <2>1
<1>2. CASE I # {}
  <2>1. I \in SUBSET Nat
    BY <1>0
  <2>2. Min(I) \in 1 .. Len(q)
    BY <1>2, <2>1, MinIs
  <2>3. t = RemoveAt(q, Min(I))
    BY <1>2 DEF RemoveFirstMatch, SelectInSeq, WithoutMember
  <2>4. QED
    BY <2>2, <2>3, RemoveAtIs
<1>3. QED
  BY <1>1, <1>2

LEMMA LeaveListNode ==
  ASSUME NEW x, IsNode(x), NEW n, NEW y,
         y = [x EXCEPT !.load.members = WithoutMember(@, n)]
  PROVE  IsNode(y) /\ SameNode(x, y) /\ y.state = x.state /\ y.buf = x.buf
         /\ y.load.cb = x.load.cb
<1> DEFINE q == WithoutMember(x.load.members, n)
<1>1. q \in Seq(Member)
  <2>1. x.load.members \in Seq(Member)
    BY DEF IsNode, IsLoad
  <2>2. QED
    BY <2>1, MembersLeave
<1>2. y = [x EXCEPT !.load.members = q]
  OBVIOUS
<1> HIDE DEF q
<1>3. /\ y = [k \in NodeFields |-> y[k]]
      /\ y.type = x.type /\ y.refcount = x.refcount /\ y.open_count = x.open_count
      /\ y.dents = x.dents /\ y.size = x.size /\ y.state = x.state /\ y.buf = x.buf
      /\ y.load = [x.load EXCEPT !.members = q]
  BY <1>2 DEF IsNode, NodeFields
<1>4. IsLoad(x.load)
  BY DEF IsNode
<1>5. /\ y.load = [k \in LoadFields |-> y.load[k]] /\ y.load.members = q
      /\ y.load.cb = x.load.cb
  BY <1>3, <1>4 DEF IsLoad, LoadFields
<1>6. IsLoad(y.load)
  BY <1>1, <1>4, <1>5 DEF IsLoad
<1>7. SameNode(x, y)
  BY <1>3, <1>5 DEF SameNode
<1>8. IsNode(y)
  BY <1>3, <1>6, <1>7, NodeStays DEF IsNode
<1>9. QED
  BY <1>3, <1>5, <1>7, <1>8

\* Lists change; what is in memory and who waits does not.
SameLoads(f, g) ==
  /\ Light(f, g) /\ g.cache = f.cache /\ g.cache_size = f.cache_size
  /\ g.broken = f.broken /\ g.called = f.called
  /\ \A n \in Ino : /\ g.ino[n].state = f.ino[n].state /\ g.ino[n].buf = f.ino[n].buf
                    /\ g.ino[n].load.cb = f.ino[n].load.cb

LEMMA SameLoadsFresh ==
  ASSUME NEW f, NEW g, SameLoads(f, g), Fresh(f)
  PROVE  Fresh(g)
<1> SUFFICES ASSUME f.broken = FALSE, g.broken = FALSE
             PROVE  Cached(g) /\ \A n \in Ino : NodeHere(g, n)
  BY DEF Fresh, SameLoads
<1>1. Cached(f) /\ \A n \in Ino : NodeHere(f, n)
  BY DEF Fresh
<1>2. \A n \in Ino : SameNode(f.ino[n], g.ino[n])
  BY DEF SameLoads, Light
<1>3. Cached(g)
  BY <1>1, <1>2, CachedStays DEF SameLoads, SameNode
<1>4. ASSUME NEW n \in Ino
      PROVE  NodeHere(g, n)
  <2>1. NodeHere(f, n) /\ SameNode(f.ino[n], g.ino[n])
    BY <1>1, <1>2
  <2>2. g.ino[n].state = f.ino[n].state /\ g.ino[n].buf = f.ino[n].buf /\ g.file = f.file
    BY DEF SameLoads, Light
  <2>3. QED
    BY <2>1, <2>2 DEF NodeHere, OpenAt, InMemory, SameNode
<1>5. QED
  BY <1>3, <1>4

LEMMA LeaveListIs ==
  ASSUME NEW f, IsFs(f), NEW a \in Ino, NEW n
  PROVE  /\ SameLoads(f, LeaveList(f, a, n))
         /\ LeaveList(f, a, n).ino
              = [f.ino EXCEPT ![a].load.members = WithoutMember(@, n)]
<1> DEFINE g == LeaveList(f, a, n)
           x == f.ino[a]
           y == [x EXCEPT !.load.members = WithoutMember(@, n)]
<1>1. /\ g = [k \in FsFields |-> g[k]] /\ g.file = f.file /\ g.blocks = f.blocks
      /\ g.cache = f.cache /\ g.cache_size = f.cache_size /\ g.called = f.called
      /\ g.broken = f.broken
      /\ g.ino = [f.ino EXCEPT ![a].load.members = WithoutMember(@, n)]
  BY DEF LeaveList, IsFs, FsFields
<1>2. g.ino = [f.ino EXCEPT ![a] = y]
  BY <1>1
<1>3. IsNode(x)
  BY DEF IsFs
<1> HIDE DEF g, x
<1>4. IsNode(y) /\ SameNode(x, y) /\ y.state = x.state /\ y.buf = x.buf /\ y.load.cb = x.load.cb
  BY <1>3, LeaveListNode
<1> HIDE DEF y
<1>5. /\ Light(f, g) /\ g.ino[a] = y /\ \A m \in Ino : m # a => g.ino[m] = f.ino[m]
  <2>1. /\ f.cache \in Seq(Ino) /\ f.cache_size \in Int /\ f.broken \in BOOLEAN
    BY DEF IsFs
  <2>2. SameNode(f.ino[a], y) /\ IsNode(y)
    BY <1>4 DEF x
  <2>3. /\ g = [k \in FsFields |-> g[k]] /\ g.file = f.file /\ g.blocks = f.blocks
        /\ g.cache \in Seq(Ino) /\ g.cache_size \in Int /\ g.broken \in BOOLEAN
        /\ (f.broken = TRUE => g.broken = TRUE) /\ (Quiet(f) => g.called = f.called)
    BY <1>1, <2>1
  <2>4. Alters(f, g, a, y)
    BY <1>2, <2>2, <2>3 DEF Alters
  <2>5. QED
    BY <2>4, LightChange
<1>6. SameLoads(f, g)
  BY <1>1, <1>4, <1>5 DEF SameLoads, x
<1>7. QED
  BY <1>1, <1>6 DEF g

LEMMA LeaveArchiveIs ==
  ASSUME NEW f, IsFs(f), NEW n
  PROVE  SameLoads(f, LeaveArchive(f, n))
<1> DEFINE g == LeaveArchive(f, n)
<1>1. /\ g = [k \in FsFields |-> g[k]] /\ g.file = f.file /\ g.blocks = f.blocks
      /\ g.cache = f.cache /\ g.cache_size = f.cache_size /\ g.called = f.called
      /\ g.broken = f.broken
      /\ g.ino = [a \in Ino |-> LeaveList(f, a, n).ino[a]]
  BY DEF LeaveArchive, IsFs, FsFields
<1>2. \A a \in Ino : g.ino[a] = LeaveList(f, a, n).ino[a]
  BY <1>1
<1> HIDE DEF g
<1>3. ASSUME NEW a \in Ino
      PROVE  /\ IsNode(g.ino[a]) /\ SameNode(f.ino[a], g.ino[a])
             /\ g.ino[a].state = f.ino[a].state /\ g.ino[a].buf = f.ino[a].buf
             /\ g.ino[a].load.cb = f.ino[a].load.cb
  <2>1. SameLoads(f, LeaveList(f, a, n))
    BY LeaveListIs
  <2>2. QED
    BY <1>2, <2>1 DEF SameLoads, Light, IsFs
<1>4. g.ino = [m \in Ino |-> g.ino[m]]
  BY <1>1
<1>5. IsFs(g)
  BY <1>1, <1>3, <1>4 DEF IsFs
<1>6. Light(f, g)
  BY <1>1, <1>3, <1>5 DEF Light
<1>7. SameLoads(f, g)
  BY <1>1, <1>3, <1>6 DEF SameLoads
<1>8. QED
  BY <1>7 DEF g

\* A transfer that fails: what was to come is unloaded again.
Fails(f, g, n) ==
  /\ Light(f, g) /\ g.cache = f.cache /\ g.cache_size = f.cache_size
  /\ g.broken = FALSE <=> f.broken = FALSE /\ f.ino[n].state = "LOADING"
  /\ g.ino[n].state = "UNLOADED" /\ g.ino[n].load = NoLoad
  /\ \A m \in Ino : m # n => g.ino[m] = f.ino[m]

LEMMA SetErrorIs ==
  ASSUME NEW f, IsFs(f), NEW n \in Ino
  PROVE  Fails(f, SetError(f, n), n)
<1> DEFINE g == SetError(f, n)
           x == f.ino[n]
           y == [x EXCEPT !.state = "UNLOADED", !.buf = <<>>, !.load = NoLoad]
<1>1. /\ g = [k \in FsFields |-> g[k]] /\ g.file = f.file /\ g.blocks = f.blocks
      /\ g.cache = f.cache /\ g.cache_size = f.cache_size
      /\ g.broken = (f.broken \/ x.state # "LOADING")
      /\ g.called = IF x.load.cb = NoFile THEN f.called
                    ELSE Append(f.called, [file |-> x.load.cb, err |-> "EIO"])
  <2>1. f = [k \in FsFields |-> f[k]]
    BY DEF IsFs
  <2>2. g = [k \in FsFields |-> g[k]]
    <3> DEFINE h1 == [f EXCEPT !.broken = @ \/ f.ino[n].state # "LOADING"]
               h2 == [h1 EXCEPT !.ino[n].state = "UNLOADED"]
               h3 == [h2 EXCEPT !.ino[n].buf = <<>>]
               h4 == [h3 EXCEPT !.ino[n].load = NoLoad]
               h5 == [h4 EXCEPT !.called = IF f.ino[n].load.cb = NoFile THEN @
                                           ELSE Append(@, [file |-> f.ino[n].load.cb, err |-> "EIO"])]
    <3>1. g = h5
      BY DEF SetError
    <3>2. h1 = [k \in FsFields |-> h1[k]]
      BY <2>1 DEF FsFields
    <3> HIDE DEF h1
    <3>3. h2 = [k \in FsFields |-> h2[k]]
      BY <3>2 DEF FsFields
    <3> HIDE DEF h2
    <3>4. h3 = [k \in FsFields |-> h3[k]]
      BY <3>3 DEF FsFields
    <3> HIDE DEF h3
    <3>5. h4 = [k \in FsFields |-> h4[k]]
      BY <3>4 DEF FsFields
    <3> HIDE DEF h4
    <3>6. h5 = [k \in FsFields |-> h5[k]]
      BY <3>5 DEF FsFields
    <3> HIDE DEF h5, g
    <3>7. QED
      BY <3>1, <3>6
  <2>3. /\ g.file = f.file /\ g.blocks = f.blocks /\ g.cache = f.cache
        /\ g.cache_size = f.cache_size
    BY <2>1 DEF SetError, FsFields
  <2>4. g.broken = (f.broken \/ x.state # "LOADING")
    BY <2>1 DEF SetError, FsFields
  <2>5. g.called = IF x.load.cb = NoFile THEN f.called
                   ELSE Append(f.called, [file |-> x.load.cb, err |-> "EIO"])
    BY <2>1 DEF SetError, FsFields
  <2> HIDE DEF g, x
  <2>6. QED
    BY <2>2, <2>3, <2>4, <2>5
<1>2. g.ino = [f.ino EXCEPT ![n] = y]
  BY DEF SetError, IsFs, FsFields
<1>3. IsNode(x) /\ f.cache \in Seq(Ino) /\ f.cache_size \in Int /\ f.broken \in BOOLEAN
  BY DEF IsFs
<1>a. Quiet(f) => x.load.cb = NoFile
  BY DEF Quiet
<1> HIDE DEF g, x
<1>4. /\ y = [k \in NodeFields |-> y[k]]
      /\ y.type = x.type /\ y.refcount = x.refcount /\ y.open_count = x.open_count
      /\ y.dents = x.dents /\ y.size = x.size /\ y.state = "UNLOADED" /\ y.buf = <<>>
      /\ y.load = NoLoad
  BY <1>3 DEF IsNode, NodeFields
<1> HIDE DEF y
<1>5. IsSeq(<<>>) /\ "UNLOADED" \in States
  BY DEF IsSeq, States
<1>6. SameNode(x, y)
  BY <1>4, NoLoadIs DEF SameNode
<1>7. IsNode(y)
  BY <1>3, <1>4, <1>5, <1>6, NoLoadIs, NodeStays
<1>8. Alters(f, g, n, y)
  <2>1. g.broken \in BOOLEAN /\ (f.broken = TRUE => g.broken = TRUE)
    BY <1>1, <1>3
  <2>2. Quiet(f) => g.called = f.called
    BY <1>1, <1>a
  <2>3. QED
    BY <1>1, <1>2, <1>3, <1>6, <1>7, <2>1, <2>2 DEF Alters, x
<1>9. Light(f, g) /\ g.ino[n] = y /\ \A m \in Ino : m # n => g.ino[m] = f.ino[m]
  BY <1>8, LightChange
<1>b. g.broken = FALSE <=> f.broken = FALSE /\ x.state = "LOADING"
  BY <1>1, <1>3
<1>10. QED
  BY <1>1, <1>4, <1>9, <1>b DEF g, x, Fails

LEMMA SetErrorFresh ==
  ASSUME NEW f, IsFs(f), NEW n \in Ino, Fresh(f)
  PROVE  Fresh(SetError(f, n))
<1> DEFINE g == SetError(f, n)
<1>0. Fails(f, g, n)
  BY SetErrorIs
<1> HIDE DEF g
<1>1. /\ Light(f, g) /\ g.cache = f.cache /\ g.cache_size = f.cache_size
      /\ g.broken = FALSE <=> f.broken = FALSE /\ f.ino[n].state = "LOADING"
      /\ g.ino[n].state = "UNLOADED" /\ g.ino[n].load = NoLoad
      /\ \A m \in Ino : m # n => g.ino[m] = f.ino[m]
  BY <1>0 DEF Fails
<1> SUFFICES ASSUME g.broken = FALSE
             PROVE  Cached(g) /\ \A m \in Ino : NodeHere(g, m)
  BY DEF Fresh, g
<1>2. f.broken = FALSE /\ f.ino[n].state = "LOADING"
  BY <1>1 DEF IsFs
<1>3. Cached(f) /\ \A m \in Ino : NodeHere(f, m)
  BY <1>2 DEF Fresh
<1>4. Cached(g)
  <2>1. \A m \in Ino : /\ g.ino[m].state = "LOADED" <=> f.ino[m].state = "LOADED"
                       /\ g.ino[m].state = "LOADED" => g.ino[m].size = f.ino[m].size
    BY <1>1, <1>2
  <2>2. QED
    BY <1>1, <1>3, <2>1, CachedStays
<1>5. NodeHere(g, n)
  <2>1. NodeHere(f, n) /\ SameNode(f.ino[n], g.ino[n]) /\ g.file = f.file
    BY <1>1, <1>3 DEF Light
  <2>2. QED
    BY <1>1, <1>2, <2>1 DEF NodeHere, OpenAt, SameNode, InMemory
<1>6. \A m \in Ino : m # n => NodeHere(g, m)
  BY <1>1, <1>3, HereStays DEF Light
<1>7. QED
  BY <1>4, <1>5, <1>6

\* All members of an archive go without their contents.
LEMMA ErrorCourse ==
  ASSUME NEW f, NEW n, NEW k \in Nat, DOMAIN f.ino[n].load.members = 1 .. k
  PROVE  \E h : /\ Course(h, "error", NoIno, f, f.ino[n].load.members, k)
                /\ ErrorArchive(f, n) = h[k]
<1> DEFINE IsLoop(g) == LoopOver(g, "error", NoIno, f, f.ino[n].load.members, k)
           c == CHOOSE g : IsLoop(g)
<1>1. \E g : IsLoop(g)
  BY LoopExists
<1> HIDE DEF IsLoop
<1>2. IsLoop(c)
  BY <1>1
<1>3. ErrorArchive(f, n) = c[1 .. k]
  BY DEF ErrorArchive, FoldLeft, MapThenFoldSet, IsLoop, LoopOver, Do
<1> HIDE DEF c
<1>4. LoopOver(c, "error", NoIno, f, f.ino[n].load.members, k)
  BY <1>2 DEF IsLoop
<1>5. QED
  BY <1>3, <1>4, LoopCourse

LEMMA ErrorArchiveIs ==
  ASSUME NEW f, IsFs(f), NEW n \in Ino, Fresh(f)
  PROVE  Light(f, ErrorArchive(f, n)) /\ Fresh(ErrorArchive(f, n))
<1> DEFINE q == f.ino[n].load.members
<1>1. q \in Seq(Member) /\ Len(q) \in Nat /\ DOMAIN q = 1 .. Len(q)
  <2>1. q \in Seq(Member)
    BY DEF IsFs, IsNode, IsLoad
  <2>2. QED
    BY <2>1
<1>2. PICK h : Course(h, "error", NoIno, f, q, Len(q)) /\ ErrorArchive(f, n) = h[Len(q)]
  BY <1>1, ErrorCourse
<1> DEFINE T == {i \in Nat : i <= Len(q) => Light(f, h[i]) /\ Fresh(h[i])}
<1> HIDE DEF q
<1>3. 0 \in T
  BY <1>2, LightSelf DEF Course
<1>4. ASSUME NEW i \in Nat, i \in T
      PROVE  i + 1 \in T
  <2> SUFFICES ASSUME i + 1 <= Len(q)
               PROVE  Light(f, h[i + 1]) /\ Fresh(h[i + 1])
    OBVIOUS
  <2>1. Light(f, h[i]) /\ Fresh(h[i])
    BY <1>1, <1>4
  <2>2. i + 1 \in 1 .. Len(q) /\ (i + 1) - 1 = i
    BY <1>1
  <2> DEFINE e == q[i + 1]
             t == h[i]
             u == SetError(t, e.ino)
  <2>3. e.ino \in Ino
    <3>1. e \in Member
      BY <1>1, <2>2
    <3>2. QED
      BY <3>1 DEF Member
  <2>4. h[i + 1] = LeaveArchive(u, e.ino)
    BY <1>2, <2>2 DEF Course, Do
  <2> HIDE DEF e, t
  <2>5. IsFs(t) /\ Light(f, t) /\ Fresh(t)
    BY <2>1 DEF t, Light
  <2>6. Light(t, u) /\ Fresh(u)
    BY <2>3, <2>5, SetErrorIs, SetErrorFresh DEF Fails
  <2> HIDE DEF u
  <2>7. SameLoads(u, LeaveArchive(u, e.ino))
    BY <2>6, LeaveArchiveIs DEF Light
  <2>8. Light(u, h[i + 1]) /\ Fresh(h[i + 1])
    BY <2>4, <2>6, <2>7, SameLoadsFresh DEF SameLoads
  <2>9. QED
    BY <2>5, <2>6, <2>8, LightThen
<1> HIDE DEF T
<1>5. Nat \subseteq T
  BY <1>3, <1>4, SetInduction
<1>6. QED
  BY <1>1, <1>2, <1>5 DEF T

-----------------------------------------------------------------------------
(* The cache.                                                              *)

NoRepeat(q) == \A i, j \in DOMAIN q : q[i] = q[j] => i = j
In(q, e) == \E i \in DOMAIN q : q[i] = e

LEMMA RemovedType ==
  ASSUME NEW X, NEW q \in Seq(X), NEW e
  PROVE  RemoveFirst(q, e) \in Seq(X)
<1> DEFINE I == {i \in 1 .. Len(q) : q[i] = e}
<1>0. Len(q) \in Nat
  OBVIOUS
<1>1. CASE I = {}
  <2>1. RemoveFirst(q, e) = q
    BY <1>1 DEF RemoveFirst
  <2>2. QED
    BY <2>1
<1>2. CASE I # {}
  <2>1. I \in SUBSET Nat
    BY <1>0
  <2>2. Min(I) \in 1 .. Len(q)
    BY <1>2, <2>1, MinIs
  <2>3. RemoveFirst(q, e) = RemoveAt(q, Min(I))
    BY <1>2 DEF RemoveFirst, SelectInSeq
  <2>4. QED
    BY <2>2, <2>3, RemoveAtIs
<1>3. QED
  BY <1>1, <1>2

LEMMA RemovedIs ==
  ASSUME NEW X, NEW q \in Seq(X), NoRepeat(q), NEW e, In(q, e)
  PROVE  /\ NoRepeat(RemoveFirst(q, e))
         /\ \A x : In(RemoveFirst(q, e), x) <=> In(q, x) /\ x # e
<1>0. Len(q) \in Nat /\ DOMAIN q = 1 .. Len(q)
  OBVIOUS
<1>1. PICK pos \in 1 .. Len(q) : q[pos] = e
  BY <1>0 DEF In
<1>2. \A j \in 1 .. pos - 1 : q[j] # e
  BY <1>0, <1>1 DEF NoRepeat
<1> DEFINE t == RemoveFirst(q, e)
<1>3. t = RemoveAt(q, pos)
  BY <1>1, <1>2, RemoveFirstIs
<1>4. /\ t \in Seq(X) /\ Len(t) = Len(q) - 1
      /\ \A i \in 1 .. Len(q) - 1 : t[i] = IF i < pos THEN q[i] ELSE q[i + 1]
  BY <1>3, RemoveAtIs
<1> HIDE DEF t
<1>5. DOMAIN t = 1 .. Len(q) - 1
  BY <1>4
<1>6. NoRepeat(t)
  <2>1. \A i \in 1 .. Len(q) - 1 : /\ i \in DOMAIN q /\ i + 1 \in DOMAIN q
                                    /\ t[i] = IF i < pos THEN q[i] ELSE q[i + 1]
    BY <1>0, <1>4
  <2>2. ASSUME NEW i \in 1 .. Len(q) - 1, NEW j \in 1 .. Len(q) - 1, t[i] = t[j]
        PROVE  i = j
    <3>1. CASE i < pos /\ j < pos
      BY <2>1, <2>2, <3>1 DEF NoRepeat
    <3>2. CASE ~(i < pos) /\ ~(j < pos)
      <4>1. i + 1 = j + 1
        BY <2>1, <2>2, <3>2 DEF NoRepeat
      <4>2. QED
        BY <4>1
    <3>3. CASE i < pos /\ ~(j < pos)
      <4>1. i = j + 1
        BY <2>1, <2>2, <3>3 DEF NoRepeat
      <4>2. QED
        BY <4>1, <3>3
    <3>4. CASE ~(i < pos) /\ j < pos
      <4>1. i + 1 = j
        BY <2>1, <2>2, <3>4 DEF NoRepeat
      <4>2. QED
        BY <4>1, <3>4
    <3>5. QED
      BY <3>1, <3>2, <3>3, <3>4
  <2>3. QED
    BY <1>5, <2>2 DEF NoRepeat
<1>7. ASSUME NEW x
      PROVE  In(t, x) <=> In(q, x) /\ x # e
  <2>1. ASSUME NEW i \in DOMAIN t, t[i] = x
        PROVE  In(q, x) /\ x # e
    <3>2. CASE i < pos
      <4>1. q[i] = x /\ i \in DOMAIN q /\ pos \in DOMAIN q /\ i # pos
        BY <1>0, <1>4, <1>5, <2>1, <3>2
      <4>2. QED
        BY <1>1, <4>1 DEF In, NoRepeat
    <3>3. CASE ~(i < pos)
      <4>1. q[i + 1] = x /\ i + 1 \in DOMAIN q /\ pos \in DOMAIN q /\ i + 1 # pos
        BY <1>0, <1>4, <1>5, <2>1, <3>3
      <4>2. QED
        BY <1>1, <4>1 DEF In, NoRepeat
    <3>4. QED
      BY <3>2, <3>3
  <2>2. ASSUME NEW i \in DOMAIN q, q[i] = x, x # e
        PROVE  In(t, x)
    <3>1. i # pos
      BY <1>1, <2>2
    <3>2. CASE i < pos
      <4>1. i \in DOMAIN t /\ t[i] = x
        BY <1>0, <1>1, <1>4, <1>5, <2>2, <3>2
      <4>2. QED
        BY <4>1 DEF In
    <3>3. CASE i > pos
      <4>1. i - 1 \in 1 .. Len(q) - 1 /\ ~(i - 1 < pos) /\ (i - 1) + 1 = i
        BY <1>0, <3>3
      <4>2. t[i - 1] = x /\ i - 1 \in DOMAIN t
        BY <1>4, <1>5, <2>2, <4>1
      <4>3. QED
        BY <4>2 DEF In
    <3>4. QED
      BY <1>0, <3>1, <3>2, <3>3
  <2>3. QED
    BY <2>1, <2>2 DEF In
<1>8. QED
  BY <1>6, <1>7 DEF t

LEMMA FrontIs ==
  ASSUME NEW X, NEW q \in Seq(X), NoRepeat(q), NEW e \in X, ~In(q, e)
  PROVE  /\ <<e>> \o q \in Seq(X) /\ NoRepeat(<<e>> \o q)
         /\ \A x : In(<<e>> \o q, x) <=> In(q, x) \/ x = e
<1> DEFINE t == <<e>> \o q
<1>0. Len(q) \in Nat /\ DOMAIN q = 1 .. Len(q)
  OBVIOUS
<1>1. <<e>> \in Seq(X) /\ Len(<<e>>) = 1 /\ <<e>>[1] = e
  OBVIOUS
<1>2. /\ t \in Seq(X) /\ Len(t) = 1 + Len(q)
      /\ \A k \in 1 .. 1 + Len(q) : t[k] = IF k <= 1 THEN <<e>>[k] ELSE q[k - 1]
  BY <1>1, ConcatProperties
<1> HIDE DEF t
<1>3. DOMAIN t = 1 .. 1 + Len(q)
  BY <1>2
<1>4. t[1] = e /\ 1 \in DOMAIN t
  BY <1>0, <1>1, <1>2, <1>3
<1>5. \A k \in DOMAIN t : k = 1 \/ (k - 1 \in DOMAIN q /\ t[k] = q[k - 1])
  BY <1>0, <1>2, <1>3
<1>6. \A k \in DOMAIN q : k + 1 \in DOMAIN t /\ t[k + 1] = q[k]
  <2>1. TAKE k \in DOMAIN q
  <2>2. k + 1 \in 1 .. 1 + Len(q) /\ ~(k + 1 <= 1) /\ (k + 1) - 1 = k
    BY <1>0
  <2>3. QED
    BY <1>2, <1>3, <2>2
<1>7. NoRepeat(t)
  <2> SUFFICES ASSUME NEW i \in DOMAIN t, NEW j \in DOMAIN t, t[i] = t[j]
               PROVE  i = j
    BY DEF NoRepeat
  <2>1. CASE i = 1 /\ j # 1
    BY <1>4, <1>5, <2>1 DEF In
  <2>2. CASE i # 1 /\ j = 1
    BY <1>4, <1>5, <2>2 DEF In
  <2>3. CASE i # 1 /\ j # 1
    <3>1. i - 1 = j - 1
      BY <1>5, <2>3 DEF NoRepeat
    <3>2. i \in Nat /\ j \in Nat
      BY <1>0, <1>3
    <3>3. QED
      BY <3>1, <3>2
  <2>4. QED
    BY <2>1, <2>2, <2>3
<1>8. \A x : In(t, x) <=> In(q, x) \/ x = e
  BY <1>4, <1>5, <1>6 DEF In
<1>9. QED
  BY <1>2, <1>7, <1>8 DEF t

CachedIs(f) ==
  /\ NoRepeat(f.cache)
  /\ \A n \in Ino : In(f.cache, n) <=> f.ino[n].state = "LOADED"
  /\ f.cache_size = Cardinality(Pairs(Bytes(f)))

LEMMA CachedBoth ==
  ASSUME NEW f
  PROVE  Cached(f) <=> CachedIs(f)
BY DEF Cached, CachedIs, NoRepeat, In

\* What is loaded but for one inode.
ElseLoaded(f, g, n) ==
  \A m \in Ino : m # n => /\ g.ino[m].state = "LOADED" <=> f.ino[m].state = "LOADED"
                          /\ g.ino[m].size = f.ino[m].size

LEMMA BytesFinite ==
  ASSUME NEW f, IsFs(f)
  PROVE  AllFinite(Bytes(f))
<1>1. ASSUME NEW n \in Ino
      PROVE  IsFiniteSet(Bytes(f)[n])
  <2>1. f.ino[n].size \in Nat
    BY DEF IsFs, IsNode
  <2>2. IsFiniteSet(1 .. f.ino[n].size)
    BY <2>1, FS_Interval
  <2>3. IsFiniteSet({})
    BY FS_EmptySet
  <2>4. QED
    BY <2>2, <2>3 DEF Bytes
<1>2. QED
  BY <1>1 DEF AllFinite

LEMMA BytesChange ==
  ASSUME NEW f, IsFs(f), NEW g, IsFs(g), NEW n \in Ino, ElseLoaded(f, g, n)
  PROVE  /\ Cardinality(Pairs(Bytes(g))) \in Nat /\ Cardinality(Pairs(Bytes(f))) \in Nat
         /\ Cardinality(Pairs(Bytes(g))) = Cardinality(Pairs(Bytes(f)))
              - (IF f.ino[n].state = "LOADED" THEN f.ino[n].size ELSE 0)
              + (IF g.ino[n].state = "LOADED" THEN g.ino[n].size ELSE 0)
<1>1. AllFinite(Bytes(f)) /\ AllFinite(Bytes(g))
  BY BytesFinite
<1>2. \A m \in Ino : m # n => Bytes(g)[m] = Bytes(f)[m]
  BY DEF Bytes, ElseLoaded
<1>3. ASSUME NEW h, IsFs(h)
      PROVE  Cardinality(Bytes(h)[n]) = IF h.ino[n].state = "LOADED" THEN h.ino[n].size ELSE 0
  <2>1. h.ino[n].size \in Nat
    BY <1>3 DEF IsFs, IsNode
  <2>2. Cardinality(1 .. h.ino[n].size) = h.ino[n].size /\ Cardinality({}) = 0
    BY <2>1, FS_Interval, FS_EmptySet
  <2>3. QED
    BY <2>2 DEF Bytes
<1>4. Cardinality(Bytes(f)[n]) = IF f.ino[n].state = "LOADED" THEN f.ino[n].size ELSE 0
  BY <1>3
<1>5. Cardinality(Bytes(g)[n]) = IF g.ino[n].state = "LOADED" THEN g.ino[n].size ELSE 0
  BY <1>3
<1> DEFINE F == Bytes(f)
           G == Bytes(g)
<1>6. IsFiniteSet(G[n]) /\ AllFinite(F) /\ \A m \in Ino : m # n => G[m] = F[m]
  BY <1>1, <1>2 DEF AllFinite
<1> HIDE DEF F, G
<1>7. /\ Cardinality(Pairs(F)) \in Nat /\ Cardinality(Pairs(G)) \in Nat
      /\ Cardinality(Pairs(G)) = Cardinality(Pairs(F)) - Cardinality(F[n]) + Cardinality(G[n])
  BY <1>6, PairsUpdate
<1>8. QED
  BY <1>4, <1>5, <1>7 DEF F, G

\* One file leaves the cache, or comes to it.
Leaves(f, g, n) ==
  /\ IsFs(f) /\ IsFs(g) /\ ElseLoaded(f, g, n)
  /\ f.ino[n].state = "LOADED" /\ g.ino[n].state # "LOADED"
  /\ g.cache = RemoveFirst(f.cache, n) /\ g.cache_size = f.cache_size - f.ino[n].size
Enters(f, g, n) ==
  /\ IsFs(f) /\ IsFs(g) /\ ElseLoaded(f, g, n)
  /\ f.ino[n].state # "LOADED" /\ g.ino[n].state = "LOADED"
  /\ g.cache = <<n>> \o f.cache /\ g.cache_size = f.cache_size + g.ino[n].size

LEMMA CacheLeaves ==
  ASSUME NEW f, NEW g, NEW n \in Ino, Leaves(f, g, n), Cached(f)
  PROVE  Cached(g)
<1>1. CachedIs(f)
  BY CachedBoth
<1>2. f.cache \in Seq(Ino) /\ NoRepeat(f.cache) /\ In(f.cache, n)
  BY <1>1 DEF CachedIs, Leaves, IsFs
<1>3. /\ NoRepeat(RemoveFirst(f.cache, n))
      /\ \A x : In(RemoveFirst(f.cache, n), x) <=> In(f.cache, x) /\ x # n
  BY <1>2, RemovedIs
<1>4. \A m \in Ino : In(g.cache, m) <=> g.ino[m].state = "LOADED"
  BY <1>1, <1>3 DEF CachedIs, Leaves, ElseLoaded
<1>5. IsFs(f) /\ IsFs(g) /\ ElseLoaded(f, g, n)
  BY DEF Leaves
<1>6. /\ Cardinality(Pairs(Bytes(g))) \in Nat /\ Cardinality(Pairs(Bytes(f))) \in Nat
      /\ Cardinality(Pairs(Bytes(g))) = Cardinality(Pairs(Bytes(f)))
           - (IF f.ino[n].state = "LOADED" THEN f.ino[n].size ELSE 0)
           + (IF g.ino[n].state = "LOADED" THEN g.ino[n].size ELSE 0)
  BY <1>5, BytesChange
<1>7. f.ino[n].size \in Nat
  BY <1>5 DEF IsFs, IsNode
<1>8. g.cache_size = Cardinality(Pairs(Bytes(g)))
  BY <1>1, <1>6, <1>7 DEF CachedIs, Leaves
<1>9. CachedIs(g)
  BY <1>3, <1>4, <1>8 DEF CachedIs, Leaves
<1>10. QED
  BY <1>9, CachedBoth

LEMMA CacheEnters ==
  ASSUME NEW f, NEW g, NEW n \in Ino, Enters(f, g, n), Cached(f)
  PROVE  Cached(g)
<1>1. CachedIs(f)
  BY CachedBoth
<1>2. f.cache \in Seq(Ino) /\ NoRepeat(f.cache) /\ ~In(f.cache, n)
  BY <1>1 DEF CachedIs, Enters, IsFs
<1>3. NoRepeat(<<n>> \o f.cache) /\ \A x : In(<<n>> \o f.cache, x) <=> In(f.cache, x) \/ x = n
  BY <1>2, FrontIs
<1>4. \A m \in Ino : In(g.cache, m) <=> g.ino[m].state = "LOADED"
  BY <1>1, <1>3 DEF CachedIs, Enters, ElseLoaded
<1>5. IsFs(f) /\ IsFs(g) /\ ElseLoaded(f, g, n)
  BY DEF Enters
<1>6. /\ Cardinality(Pairs(Bytes(g))) \in Nat /\ Cardinality(Pairs(Bytes(f))) \in Nat
      /\ Cardinality(Pairs(Bytes(g))) = Cardinality(Pairs(Bytes(f)))
           - (IF f.ino[n].state = "LOADED" THEN f.ino[n].size ELSE 0)
           + (IF g.ino[n].state = "LOADED" THEN g.ino[n].size ELSE 0)
  BY <1>5, BytesChange
<1>7. g.ino[n].size \in Nat
  BY <1>5 DEF IsFs, IsNode
<1>8. g.cache_size = Cardinality(Pairs(Bytes(g)))
  BY <1>1, <1>6, <1>7 DEF CachedIs, Enters
<1>9. CachedIs(g)
  BY <1>3, <1>4, <1>8 DEF CachedIs, Enters
<1>10. QED
  BY <1>9, CachedBoth

\* No file object stands for an inode that is not open.
Guarded(f) == \A n \in Ino : f.ino[n].open_count = 0 => \A o \in FsFile : f.file[o].ino # n

LEMMA GuardedStays ==
  ASSUME NEW f, NEW g, Light(f, g), Guarded(f)
  PROVE  Guarded(g)
BY DEF Guarded, Light, SameNode

\* What an eviction does.
Out(x) == x.state \in {"UNLOADED", "LOADING"}
Loading(f, g) ==
  /\ Light(f, g) /\ g.broken = f.broken
  /\ \A n \in Ino : Out(f.ino[n]) => Out(g.ino[n])

LEMMA LoadingSelf ==
  ASSUME NEW f, IsFs(f)
  PROVE  Loading(f, f)
BY LightSelf DEF Loading

LEMMA LoadingThen ==
  ASSUME NEW f, NEW g, NEW h, Loading(f, g), Loading(g, h)
  PROVE  Loading(f, h)
BY LightThen DEF Loading

Unloads(f, g, n) ==
  /\ Loading(f, g)
  /\ g.ino[n].state = "UNLOADED" /\ \A m \in Ino : m # n => g.ino[m] = f.ino[m]
  /\ g.cache = RemoveFirst(f.cache, n) /\ g.cache_size = f.cache_size - f.ino[n].size

LEMMA UnloadIs ==
  ASSUME NEW f, IsFs(f), NEW n \in Ino
  PROVE  Unloads(f, Unload(f, n), n)
<1> DEFINE g == Unload(f, n)
           x == f.ino[n]
           y == [x EXCEPT !.state = "UNLOADED", !.buf = <<>>]
           u == [f EXCEPT !.ino[n].buf = <<>>, !.ino[n].state = "UNLOADED"]
<1>1. IsNode(x) /\ f.cache \in Seq(Ino) /\ f.cache_size \in Int /\ f.broken \in BOOLEAN
  BY DEF IsFs
<1>2. /\ u = [k \in FsFields |-> u[k]] /\ u.file = f.file /\ u.blocks = f.blocks
      /\ u.cache = f.cache /\ u.cache_size = f.cache_size /\ u.called = f.called
      /\ u.broken = f.broken
  BY DEF IsFs, FsFields
<1>3. u.ino = [f.ino EXCEPT ![n] = y]
  BY DEF IsFs, FsFields
<1>a. u.ino[n] = y
  BY <1>3 DEF IsFs
<1>b. g = [u EXCEPT !.cache = RemoveFirst(@, n), !.cache_size = @ - u.ino[n].size]
  BY DEF Unload, LeaveCache
<1> HIDE DEF g, u, x
<1>4. /\ y = [k \in NodeFields |-> y[k]]
      /\ y.type = x.type /\ y.refcount = x.refcount /\ y.open_count = x.open_count
      /\ y.dents = x.dents /\ y.size = x.size /\ y.state = "UNLOADED" /\ y.buf = <<>>
      /\ y.load = x.load
  BY <1>1 DEF IsNode, NodeFields
<1> HIDE DEF y
<1>5. IsSeq(<<>>) /\ "UNLOADED" \in States
  BY DEF IsSeq, States
<1>6. SameNode(x, y)
  BY <1>4 DEF SameNode
<1>7. IsNode(y)
  <2>1. IsLoad(y.load)
    BY <1>1, <1>4 DEF IsNode
  <2>2. QED
    BY <1>1, <1>4, <1>5, <1>6, <2>1, NodeStays
<1>8. /\ g = [k \in FsFields |-> g[k]] /\ g.file = f.file /\ g.blocks = f.blocks
      /\ g.cache = RemoveFirst(f.cache, n) /\ g.cache_size = f.cache_size - x.size
      /\ g.called = f.called /\ g.broken = f.broken /\ g.ino = u.ino
  BY <1>2, <1>a, <1>b, <1>4 DEF FsFields
<1>9. g.cache \in Seq(Ino) /\ g.cache_size \in Int
  <2>1. x.size \in Nat
    BY <1>1 DEF IsNode
  <2>2. QED
    BY <1>1, <1>8, <2>1, RemovedType
<1>10. Alters(f, g, n, y)
  BY <1>1, <1>3, <1>6, <1>7, <1>8, <1>9 DEF Alters, x
<1>11. Light(f, g) /\ g.ino[n] = y /\ \A m \in Ino : m # n => g.ino[m] = f.ino[m]
  BY <1>10, LightChange
<1>12. Loading(f, g)
  BY <1>4, <1>8, <1>11 DEF Loading, Out
<1>13. Unloads(f, g, n)
  BY <1>4, <1>8, <1>11, <1>12 DEF Unloads, x
<1>14. QED
  BY <1>13 DEF g

LEMMA UnloadFresh ==
  ASSUME NEW f, IsFs(f), NEW n \in Ino, NEW g, Unloads(f, g, n), Fresh(f), Guarded(f),
         f.broken = FALSE => f.ino[n].state = "LOADED", f.ino[n].open_count = 0
  PROVE  Fresh(g)
<1> SUFFICES ASSUME g.broken = FALSE
             PROVE  Cached(g) /\ \A m \in Ino : NodeHere(g, m)
  BY DEF Fresh
<1>1. Light(f, g) /\ IsFs(g) /\ f.broken = FALSE /\ f.ino[n].state = "LOADED" /\ g.file = f.file
  BY DEF Unloads, Loading, Light
<1>2. Cached(f) /\ \A m \in Ino : NodeHere(f, m)
  BY <1>1 DEF Fresh
<1>3. ElseLoaded(f, g, n)
  BY DEF Unloads, ElseLoaded
<1>4. Leaves(f, g, n)
  BY <1>1, <1>3 DEF Leaves, Unloads
<1>5. Cached(g)
  BY <1>2, <1>4, CacheLeaves
<1>6. NodeHere(g, n)
  <2>1. NodeHere(f, n) /\ SameNode(f.ino[n], g.ino[n])
    BY <1>1, <1>2 DEF Light
  <2>2. \A o \in FsFile : f.file[o].ino # n
    BY DEF Guarded
  <2>3. ~OpenAt(g, n)
    BY <1>1, <2>2 DEF OpenAt
  <2>4. g.ino[n].state = "UNLOADED" /\ g.ino[n].type = "REG"
    BY <1>1, <2>1 DEF Unloads, NodeHere, SameNode
  <2>5. QED
    BY <2>3, <2>4 DEF NodeHere
<1>7. \A m \in Ino : m # n => NodeHere(g, m)
  BY <1>1, <1>2, HereStays DEF Unloads
<1>8. QED
  BY <1>5, <1>6, <1>7

\* From the least recently opened on.
LEMMA TrimCourse ==
  ASSUME NEW f, NEW added, NEW k \in Nat, DOMAIN Reverse(f.cache) = 1 .. k
  PROVE  \E h : /\ Course(h, "trim", added, f, Reverse(f.cache), k)
                /\ FsTrimCache(f, added) = h[k]
<1> DEFINE IsLoop(g) == LoopOver(g, "trim", added, f, Reverse(f.cache), k)
           c == CHOOSE g : IsLoop(g)
<1>1. \E g : IsLoop(g)
  BY LoopExists
<1> HIDE DEF IsLoop
<1>2. IsLoop(c)
  BY <1>1
<1>3. FsTrimCache(f, added) = c[1 .. k]
  BY DEF FsTrimCache, FoldLeft, MapThenFoldSet, IsLoop, LoopOver, Do
<1> HIDE DEF c
<1>4. LoopOver(c, "trim", added, f, Reverse(f.cache), k)
  BY <1>2 DEF IsLoop
<1>5. QED
  BY <1>3, <1>4, LoopCourse

LEMMA TrimIs ==
  ASSUME NEW f, IsFs(f), NEW added, Fresh(f), Guarded(f)
  PROVE  Loading(f, FsTrimCache(f, added)) /\ Fresh(FsTrimCache(f, added))
<1> DEFINE q == Reverse(f.cache)
           L == Len(f.cache)
<1>1. L \in Nat /\ f.cache \in Seq(Ino) /\ DOMAIN f.cache = 1 .. L
  BY DEF IsFs
<1>2. DOMAIN q = 1 .. L /\ \A i \in 1 .. L : q[i] = f.cache[(L - i) + 1]
  BY DEF Reverse
<1>3. PICK h : Course(h, "trim", added, f, q, L) /\ FsTrimCache(f, added) = h[L]
  BY <1>1, <1>2, TrimCourse
<1> HIDE DEF q, L
<1>4. \A i \in 1 .. L : q[i] \in Ino
  <2>1. TAKE i \in 1 .. L
  <2>2. (L - i) + 1 \in 1 .. L
    BY <1>1
  <2>3. QED
    BY <1>1, <1>2, <2>2
<1>5. f.broken = FALSE =>
        /\ \A i, j \in 1 .. L : q[i] = q[j] => i = j
        /\ \A i \in 1 .. L : f.ino[q[i]].state = "LOADED"
  <2> SUFFICES ASSUME f.broken = FALSE
               PROVE  /\ \A i, j \in 1 .. L : q[i] = q[j] => i = j
                      /\ \A i \in 1 .. L : f.ino[q[i]].state = "LOADED"
    OBVIOUS
  <2>1. Cached(f)
    BY DEF Fresh
  <2>2. \A i \in 1 .. L : (L - i) + 1 \in DOMAIN f.cache
    BY <1>1
  <2>3. ASSUME NEW i \in 1 .. L, NEW j \in 1 .. L, q[i] = q[j]
        PROVE  i = j
    <3>1. (L - i) + 1 = (L - j) + 1
      BY <1>2, <2>1, <2>2, <2>3 DEF Cached
    <3>2. QED
      BY <1>1, <3>1
  <2>4. \A i \in 1 .. L : f.ino[q[i]].state = "LOADED"
    BY <1>2, <1>4, <2>1, <2>2 DEF Cached
  <2>5. QED
    BY <2>3, <2>4
<1> DEFINE Rest(t, i) == f.broken = FALSE => \A j \in i + 1 .. L : t.ino[q[j]].state = "LOADED"
           T == {i \in Nat : i <= L => Loading(f, h[i]) /\ Fresh(h[i]) /\ Rest(h[i], i)}
<1> HIDE DEF Rest
<1>6. 0 \in T
  BY <1>1, <1>3, <1>5, LoadingSelf DEF Course, Rest
<1>7. ASSUME NEW i \in Nat, i \in T
      PROVE  i + 1 \in T
  <2> SUFFICES ASSUME i + 1 <= L
               PROVE  Loading(f, h[i + 1]) /\ Fresh(h[i + 1]) /\ Rest(h[i + 1], i + 1)
    OBVIOUS
  <2> USE DEF Rest
  <2> DEFINE t == h[i]
             n == q[i + 1]
  <2>1. Loading(f, t) /\ Fresh(t) /\ Rest(t, i)
    BY <1>1, <1>7
  <2>2. i + 1 \in 1 .. L /\ (i + 1) - 1 = i
    BY <1>1
  <2>3. n \in Ino
    BY <1>4, <2>2
  <2>4. h[i + 1] = IF t.cache_size + added <= CacheLimit \/ t.ino[n].open_count # 0
                   THEN t ELSE Unload(t, n)
    BY <1>3, <2>2 DEF Course, Do
  <2>5. \A j \in (i + 1) + 1 .. L : j \in i + 1 .. L /\ j # i + 1 /\ j \in 1 .. L
    BY <1>1
  <2>6. i + 1 \in i + 1 .. L
    BY <1>1
  <2>7. f.broken = FALSE => t.ino[n].state = "LOADED"
    BY <2>1, <2>6
  <2>8. f.broken = FALSE => \A j \in (i + 1) + 1 .. L : q[j] # n /\ q[j] \in Ino /\ t.ino[q[j]].state = "LOADED"
    BY <1>4, <1>5, <2>1, <2>2, <2>5
  <2>9. CASE h[i + 1] = t
    BY <2>1, <2>8, <2>9
  <2>10. CASE h[i + 1] = Unload(t, n) /\ t.ino[n].open_count = 0
    <3> DEFINE g == h[i + 1]
    <3> HIDE DEF t, n
    <3>1. IsFs(t) /\ Light(f, t) /\ t.broken = f.broken
      BY <2>1 DEF Loading, Light
    <3>2. Unloads(t, g, n)
      BY <2>3, <2>10, <3>1, UnloadIs
    <3>3. Guarded(t)
      BY <3>1, GuardedStays
    <3>4. Fresh(g)
      BY <2>1, <2>3, <2>7, <2>10, <3>1, <3>2, <3>3, UnloadFresh
    <3>5. Loading(f, g)
      BY <2>1, <3>2, LoadingThen DEF Unloads
    <3>6. Rest(g, i + 1)
      BY <2>8, <3>2 DEF Unloads
    <3>7. QED
      BY <3>4, <3>5, <3>6
  <2>11. QED
    BY <2>4, <2>9, <2>10
<1> HIDE DEF T
<1>8. Nat \subseteq T
  BY <1>6, <1>7, SetInduction
<1>9. QED
  BY <1>1, <1>3, <1>8 DEF T

\* What has been changed is local from then on.
Localizes(f, g, n) ==
  /\ Light(f, g) /\ g.broken = f.broken
  /\ f.ino[n].state = "LOADED" => g.ino[n].state = "LOCAL"
  /\ f.ino[n].state # "LOADED" => g.ino[n].state = f.ino[n].state
  /\ g.ino[n].buf = f.ino[n].buf
  /\ \A m \in Ino : m # n => g.ino[m] = f.ino[m]
  /\ f.ino[n].state = "LOADED" =>
       g.cache = RemoveFirst(f.cache, n) /\ g.cache_size = f.cache_size - f.ino[n].size
  /\ f.ino[n].state # "LOADED" => g.cache = f.cache /\ g.cache_size = f.cache_size

LEMMA BecomeLocalIs ==
  ASSUME NEW f, IsFs(f), NEW n \in Ino
  PROVE  Localizes(f, BecomeLocal(f, n), n)
<1>1. CASE f.ino[n].state # "LOADED"
  <2>1. BecomeLocal(f, n) = f
    BY <1>1 DEF BecomeLocal
  <2>2. Light(f, f)
    BY LightSelf
  <2>3. QED
    BY <1>1, <2>1, <2>2 DEF Localizes
<1>2. CASE f.ino[n].state = "LOADED"
  <2> DEFINE x == f.ino[n]
             y == [x EXCEPT !.state = "LOCAL"]
             u == [f EXCEPT !.cache = RemoveFirst(@, n), !.cache_size = @ - x.size]
             g == [u EXCEPT !.ino[n].state = "LOCAL"]
  <2>1. IsNode(x) /\ f.cache \in Seq(Ino) /\ f.cache_size \in Int /\ f.broken \in BOOLEAN
    BY DEF IsFs
  <2>2. BecomeLocal(f, n) = g
    BY <1>2 DEF BecomeLocal, LeaveCache
  <2>3. /\ u = [k \in FsFields |-> u[k]] /\ u.file = f.file /\ u.blocks = f.blocks
        /\ u.cache = RemoveFirst(f.cache, n) /\ u.cache_size = f.cache_size - x.size
        /\ u.called = f.called /\ u.broken = f.broken /\ u.ino = f.ino
    BY DEF IsFs, FsFields
  <2> HIDE DEF u
  <2>4. /\ g = [k \in FsFields |-> g[k]] /\ g.file = f.file /\ g.blocks = f.blocks
        /\ g.cache = RemoveFirst(f.cache, n) /\ g.cache_size = f.cache_size - x.size
        /\ g.called = f.called /\ g.broken = f.broken
    BY <2>3 DEF FsFields
  <2>5. g.ino = [f.ino EXCEPT ![n] = y]
    BY <2>3 DEF FsFields
  <2> HIDE DEF g, x
  <2>6. /\ y = [k \in NodeFields |-> y[k]]
        /\ y.type = x.type /\ y.refcount = x.refcount /\ y.open_count = x.open_count
        /\ y.dents = x.dents /\ y.size = x.size /\ y.state = "LOCAL" /\ y.buf = x.buf
        /\ y.load = x.load
    BY <2>1 DEF IsNode, NodeFields
  <2> HIDE DEF y
  <2>7. SameNode(x, y)
    BY <2>6 DEF SameNode
  <2>8. IsNode(y)
    <3>1. IsLoad(y.load) /\ IsSeq(y.buf) /\ "LOCAL" \in States
      BY <2>1, <2>6 DEF IsNode, States
    <3>2. QED
      BY <2>1, <2>6, <2>7, <3>1, NodeStays
  <2>9. g.cache \in Seq(Ino) /\ g.cache_size \in Int
    <3>1. x.size \in Nat
      BY <2>1 DEF IsNode
    <3>2. QED
      BY <2>1, <2>4, <3>1, RemovedType
  <2>10. Alters(f, g, n, y)
    BY <2>1, <2>4, <2>5, <2>7, <2>8, <2>9 DEF Alters, x
  <2>11. Light(f, g) /\ g.ino[n] = y /\ \A m \in Ino : m # n => g.ino[m] = f.ino[m]
    BY <2>10, LightChange
  <2>12. Localizes(f, g, n)
    BY <1>2, <2>4, <2>6, <2>11 DEF Localizes, x
  <2>13. QED
    BY <2>2, <2>12
<1>3. QED
  BY <1>1, <1>2

LEMMA LocalFresh ==
  ASSUME NEW f, IsFs(f), NEW n \in Ino, NEW g, Localizes(f, g, n), Fresh(f)
  PROVE  Fresh(g)
<1> SUFFICES ASSUME g.broken = FALSE
             PROVE  Cached(g) /\ \A m \in Ino : NodeHere(g, m)
  BY DEF Fresh
<1>1. Light(f, g) /\ IsFs(g) /\ f.broken = FALSE /\ g.file = f.file
  BY DEF Localizes, Light
<1>2. Cached(f) /\ \A m \in Ino : NodeHere(f, m)
  BY <1>1 DEF Fresh
<1>3. NodeHere(g, n)
  <2>1. NodeHere(f, n) /\ SameNode(f.ino[n], g.ino[n])
    BY <1>1, <1>2 DEF Light
  <2>2. QED
    BY <1>1, <2>1 DEF NodeHere, OpenAt, SameNode, InMemory, Localizes
<1>4. \A m \in Ino : m # n => NodeHere(g, m)
  BY <1>1, <1>2, HereStays DEF Localizes
<1>5. CASE f.ino[n].state = "LOADED"
  <2>1. ElseLoaded(f, g, n)
    BY DEF Localizes, ElseLoaded
  <2>2. Leaves(f, g, n)
    BY <1>1, <1>5, <2>1 DEF Leaves, Localizes
  <2>3. QED
    BY <1>2, <1>3, <1>4, <2>2, CacheLeaves
<1>6. CASE f.ino[n].state # "LOADED"
  <2>1. \A m \in Ino : /\ g.ino[m].state = "LOADED" <=> f.ino[m].state = "LOADED"
                       /\ g.ino[m].state = "LOADED" => g.ino[m].size = f.ino[m].size
    BY <1>6 DEF Localizes
  <2>2. g.cache = f.cache /\ g.cache_size = f.cache_size
    BY <1>6 DEF Localizes
  <2>3. QED
    BY <1>2, <1>3, <1>4, <2>1, <2>2, CachedStays
<1>7. QED
  BY <1>5, <1>6

-----------------------------------------------------------------------------
(* Names, and the loading of files.                                        *)

\* What a search finds.
Finds(f, d, name, n) ==
  /\ n \in Ino \union {NoIno}
  /\ n # NoIno =>
       /\ f.ino[d].type = "DIR"
       /\ \E k \in DOMAIN f.ino[d].dents : /\ f.ino[d].dents[k].name = name
                                           /\ f.ino[d].dents[k].ino = n

LEMMA SearchFinds ==
  ASSUME NEW f, IsFs(f), NEW d \in Ino, NEW name
  PROVE  Finds(f, d, name, InodeSearch(f, d, name))
<1> DEFINE q == f.ino[d].dents
           I == {k \in DOMAIN q : q[k].name = name}
           n == InodeSearch(f, d, name)
<1>1. q \in Seq(Dent) /\ DOMAIN q = 1 .. Len(q) /\ Len(q) \in Nat
  <2>1. q \in Seq(Dent)
    BY DEF IsFs, IsNode
  <2>2. QED
    BY <2>1
<1>2. n = IF f.ino[d].type # "DIR" \/ I = {} THEN NoIno ELSE q[Min(I)].ino
  BY DEF InodeSearch
<1>a. NoIno \notin Ino
  BY InoAssumption
<1> HIDE DEF n, q
<1>3. CASE f.ino[d].type # "DIR" \/ I = {}
  BY <1>2, <1>3 DEF Finds, n
<1>4. CASE ~(f.ino[d].type # "DIR" \/ I = {})
  <2>1. I \in SUBSET Nat /\ I # {}
    BY <1>1, <1>4
  <2>2. Min(I) \in I
    BY <2>1, MinIs
  <2>3. Min(I) \in DOMAIN q /\ q[Min(I)].name = name
    BY <2>2
  <2>4. q[Min(I)] \in Dent
    BY <1>1, <2>3
  <2>5. n = q[Min(I)].ino /\ n \in Ino
    BY <1>2, <1>4, <2>4 DEF Dent
  <2> HIDE DEF I
  <2>6. QED
    BY <1>4, <2>3, <2>5 DEF Finds, n, q
<1>5. QED
  BY <1>3, <1>4

LEMMA SearchAll ==
  ASSUME NEW f, IsFs(f), NEW d \in Ino, NEW name, InodeSearch(f, d, name) = NoIno,
         f.ino[d].type = "DIR"
  PROVE  \A k \in DOMAIN f.ino[d].dents : f.ino[d].dents[k].name # name
<1> DEFINE q == f.ino[d].dents
           I == {k \in DOMAIN q : q[k].name = name}
<1>1. q \in Seq(Dent) /\ DOMAIN q = 1 .. Len(q) /\ Len(q) \in Nat
  <2>1. q \in Seq(Dent)
    BY DEF IsFs, IsNode
  <2>2. QED
    BY <2>1
<1>2. I # {} => InodeSearch(f, d, name) = q[Min(I)].ino
  BY DEF InodeSearch
<1>3. SUFFICES ASSUME I # {} PROVE FALSE
  OBVIOUS
<1>4. I \in SUBSET Nat
  BY <1>1
<1>5. Min(I) \in I
  BY <1>3, <1>4, MinIs
<1> HIDE DEF q
<1>6. q[Min(I)] \in Dent
  <2>1. Min(I) \in 1 .. Len(q)
    BY <1>1, <1>5
  <2>2. QED
    BY <1>1, <2>1
<1>7. q[Min(I)].ino \in Ino
  BY <1>6 DEF Dent
<1>8. QED
  BY <1>2, <1>3, <1>7, InoAssumption

Unloaded(f, n) == f.ino[n].type = "REG" /\ f.ino[n].state = "UNLOADED"

LEMMA OpenWgetIs ==
  ASSUME NEW f, IsFs(f), NEW n \in Ino, Unloaded(f, n), NEW type, Fresh(f), Guarded(f)
  PROVE  /\ Loading(f, OpenWget(f, n, type)) /\ Fresh(OpenWget(f, n, type))
         /\ OpenWget(f, n, type).ino[n].state = "LOADING"
<1> DEFINE t == FsTrimCache(f, f.ino[n].size)
           g == OpenWget(f, n, type)
           x == t.ino[n]
           y == [x EXCEPT !.buf = Resized(@, f.ino[n].size), !.state = "LOADING",
                          !.load = [NoLoad EXCEPT !.type = type]]
<1>1. Loading(f, t) /\ Fresh(t)
  BY TrimIs
<1> HIDE DEF t
<1>2. IsFs(t) /\ Light(f, t) /\ SameNode(f.ino[n], x) /\ IsNode(x)
  BY <1>1 DEF Loading, Light, IsFs
<1>3. Out(x) /\ x.type = "REG" /\ x.size = f.ino[n].size /\ x.size \in Nat
  BY <1>1, <1>2 DEF Unloaded, Out, Loading, SameNode, IsNode
<1>4. g = [t EXCEPT !.ino[n].buf = Resized(@, f.ino[n].size),
                    !.ino[n].state = "LOADING",
                    !.ino[n].load = [NoLoad EXCEPT !.type = type]]
  BY DEF OpenWget, t
<1> HIDE DEF g
<1>5. /\ g = [k \in FsFields |-> g[k]] /\ g.file = t.file /\ g.blocks = t.blocks
      /\ g.cache = t.cache /\ g.cache_size = t.cache_size /\ g.called = t.called
      /\ g.broken = t.broken
  BY <1>2, <1>4 DEF IsFs, FsFields
<1>6. g.ino = [t.ino EXCEPT ![n] = y]
  BY <1>2, <1>4 DEF IsFs, FsFields
<1> HIDE DEF x
<1> DEFINE l == [NoLoad EXCEPT !.type = type]
           b == Resized(x.buf, f.ino[n].size)
<1>7. IsLoad(l) /\ l.cb = NoFile
  <2>1. l = [k \in LoadFields |-> l[k]] /\ l.members = <<>> /\ l.cb = NoFile
    BY NoLoadIs DEF IsLoad, LoadFields
  <2> HIDE DEF l
  <2>2. <<>> \in Seq(Member)
    OBVIOUS
  <2>3. QED
    BY <2>1, <2>2 DEF IsLoad
<1>8. IsSeq(b) /\ Len(b) = x.size /\ "LOADING" \in States
  <2>1. f.ino[n].size \in Nat
    BY <1>3
  <2>2. IsSeq(b) /\ Len(b) = f.ino[n].size
    BY <2>1, ResizedIs
  <2>3. QED
    BY <1>3, <2>2 DEF States
<1>9. y = [x EXCEPT !.buf = b, !.state = "LOADING", !.load = l]
  OBVIOUS
<1> HIDE DEF y, l, b
<1>10. /\ y = [k \in NodeFields |-> y[k]]
       /\ y.type = x.type /\ y.refcount = x.refcount /\ y.open_count = x.open_count
       /\ y.dents = x.dents /\ y.size = x.size /\ y.state = "LOADING" /\ y.buf = b
       /\ y.load = l
  BY <1>2, <1>9 DEF IsNode, NodeFields
<1>11. SameNode(x, y)
  BY <1>7, <1>10 DEF SameNode
<1>12. IsNode(y)
  BY <1>2, <1>7, <1>8, <1>10, <1>11, NodeStays
<1>13. Alters(t, g, n, y)
  <2>1. g.cache \in Seq(Ino) /\ g.cache_size \in Int /\ g.broken \in BOOLEAN
    BY <1>2, <1>5 DEF IsFs
  <2>2. QED
    BY <1>5, <1>6, <1>11, <1>12, <2>1 DEF Alters, x
<1>14. Light(t, g) /\ g.ino[n] = y /\ \A m \in Ino : m # n => g.ino[m] = t.ino[m]
  BY <1>2, <1>13, LightChange
<1>15. Loading(t, g)
  BY <1>5, <1>10, <1>14 DEF Loading, Out
<1>16. Fresh(g)
  <2> SUFFICES ASSUME g.broken = FALSE
               PROVE  Cached(g) /\ \A m \in Ino : NodeHere(g, m)
    BY DEF Fresh
  <2>1. Cached(t) /\ \A m \in Ino : NodeHere(t, m)
    BY <1>1, <1>5 DEF Fresh
  <2>2. \A m \in Ino : /\ g.ino[m].state = "LOADED" <=> t.ino[m].state = "LOADED"
                       /\ g.ino[m].state = "LOADED" => g.ino[m].size = t.ino[m].size
    BY <1>3, <1>10, <1>14 DEF Out, x
  <2>3. Cached(g)
    BY <1>5, <2>1, <2>2, CachedStays
  <2>4. \A m \in Ino : m # n => NodeHere(g, m)
    BY <1>5, <1>14, <2>1, HereStays
  <2>5. ~OpenAt(t, n)
    BY <1>3, <2>1 DEF NodeHere, Out, InMemory, x
  <2>6. ~OpenAt(g, n)
    BY <1>5, <2>5 DEF OpenAt
  <2>7. NodeHere(g, n)
    <3>1. x.size <= x.size
      BY <1>3
    <3>2. g.ino[n].type = "REG" /\ g.ino[n].size <= Len(g.ino[n].buf)
      BY <1>3, <1>8, <1>10, <1>14, <3>1
    <3>3. QED
      BY <2>6, <3>2 DEF NodeHere
  <2>8. QED
    BY <2>3, <2>4, <2>7
<1>17. QED
  BY <1>1, <1>10, <1>14, <1>15, <1>16, LoadingThen DEF g

\* A load, or several.
Loaded(f, g) == Loading(f, g) /\ IsFs(g) /\ Fresh(g) /\ Guarded(g)

LEMMA LoadedThen ==
  ASSUME NEW f, NEW g, NEW h, Loaded(f, g), Loaded(g, h)
  PROVE  Loaded(f, h)
BY LoadingThen DEF Loaded

LEMMA LoadedSelf ==
  ASSUME NEW f, IsFs(f), Fresh(f), Guarded(f)
  PROVE  Loaded(f, f)
BY LoadingSelf DEF Loaded

LEMMA WgetLoads ==
  ASSUME NEW f, IsFs(f), Fresh(f), Guarded(f), NEW n \in Ino, Unloaded(f, n), NEW type
  PROVE  Loaded(f, OpenWget(f, n, type))
<1>1. Loading(f, OpenWget(f, n, type)) /\ Fresh(OpenWget(f, n, type))
  BY OpenWgetIs
<1>2. QED
  BY <1>1, GuardedStays DEF Loaded, Loading, Light

LEMMA PreloadFileIs ==
  ASSUME NEW f, IsFs(f), Fresh(f), Guarded(f), NEW name
  PROVE  Loaded(f, PreloadFile(f, name))
<1> DEFINE n == InodeSearch(f, Root, name)
<1>1. CASE IsUnloaded(f, n)
  <2>1. n \in Ino \union {NoIno}
    BY SearchFinds, InoAssumption DEF Finds
  <2>2. n \in Ino /\ Unloaded(f, n)
    BY <1>1, <2>1 DEF IsUnloaded, IsType, Unloaded
  <2>3. PreloadFile(f, name) = OpenWget(f, n, "REG")
    BY <1>1 DEF PreloadFile
  <2> HIDE DEF n
  <2>4. QED
    BY <2>2, <2>3, WgetLoads
<1>2. CASE ~IsUnloaded(f, n)
  <2>1. PreloadFile(f, name) = f
    BY <1>2 DEF PreloadFile
  <2>2. QED
    BY <2>1, LoadedSelf
<1>3. QED
  BY <1>1, <1>2

\* A file that waits for an archive is entered in its list.
Entered(f, a, m) == [f EXCEPT !.ino[a].load.members = Append(@, m)]

LEMMA EnteredIs ==
  ASSUME NEW f, IsFs(f), NEW a \in Ino, NEW m \in Member
  PROVE  SameLoads(f, Entered(f, a, m))
<1> DEFINE g == Entered(f, a, m)
           x == f.ino[a]
           q == Append(x.load.members, m)
           y == [x EXCEPT !.load.members = q]
<1>1. /\ g = [k \in FsFields |-> g[k]] /\ g.file = f.file /\ g.blocks = f.blocks
      /\ g.cache = f.cache /\ g.cache_size = f.cache_size /\ g.called = f.called
      /\ g.broken = f.broken
  BY DEF Entered, IsFs, FsFields
<1>2. g.ino = [f.ino EXCEPT ![a] = y]
  BY DEF Entered, IsFs, FsFields
<1>3. IsNode(x) /\ IsLoad(x.load)
  BY DEF IsFs, IsNode
<1>a. f.cache \in Seq(Ino) /\ f.cache_size \in Int /\ f.broken \in BOOLEAN
  BY DEF IsFs
<1> HIDE DEF g, x
<1>4. q \in Seq(Member)
  <2>1. x.load.members \in Seq(Member)
    BY <1>3 DEF IsLoad
  <2>2. QED
    BY <2>1
<1> HIDE DEF q
<1>5. /\ y = [k \in NodeFields |-> y[k]]
      /\ y.type = x.type /\ y.refcount = x.refcount /\ y.open_count = x.open_count
      /\ y.dents = x.dents /\ y.size = x.size /\ y.state = x.state /\ y.buf = x.buf
      /\ y.load = [x.load EXCEPT !.members = q]
  BY <1>3 DEF IsNode, NodeFields
<1> HIDE DEF y
<1>6. /\ y.load = [k \in LoadFields |-> y.load[k]] /\ y.load.members = q
      /\ y.load.cb = x.load.cb
  BY <1>3, <1>5 DEF IsLoad, LoadFields
<1>7. IsLoad(y.load)
  BY <1>3, <1>4, <1>6 DEF IsLoad
<1>8. SameNode(x, y)
  BY <1>5, <1>6 DEF SameNode
<1>9. IsNode(y)
  BY <1>3, <1>5, <1>7, <1>8, NodeStays DEF IsNode
<1>10. Alters(f, g, a, y)
  BY <1>1, <1>2, <1>8, <1>9, <1>a DEF Alters, x
<1>11. Light(f, g) /\ g.ino[a] = y /\ \A n \in Ino : n # a => g.ino[n] = f.ino[n]
  BY <1>10, LightChange
<1>12. SameLoads(f, g)
  BY <1>1, <1>5, <1>6, <1>11 DEF SameLoads, x
<1>13. QED
  BY <1>12 DEF g

LEMMA SameLoadsLoaded ==
  ASSUME NEW f, NEW g, IsFs(f), Fresh(f), Guarded(f), SameLoads(f, g)
  PROVE  Loaded(f, g)
<1>1. Light(f, g) /\ Loading(f, g)
  BY DEF SameLoads, Loading, Out
<1>2. QED
  BY <1>1, SameLoadsFresh, GuardedStays DEF Loaded, Light

LEMMA AddMemberIs ==
  ASSUME NEW f, IsFs(f), Fresh(f), Guarded(f), NEW a \in Ino, NEW entry, NEW off \in Offsets
  PROVE  Loaded(f, AddMember(f, a, entry, off))
<1> DEFINE n1 == InodeSearch(f, Root, entry.name)
           g == AddMember(f, a, entry, off)
           same == f.ino[n1].size = entry.size /\ f.ino[n1].file_id = entry.file_id
<1>1. CASE ~IsUnloaded(f, n1)
  <2>1. g = f
    BY <1>1 DEF AddMember
  <2>2. QED
    BY <2>1, LoadedSelf
<1>2. CASE IsUnloaded(f, n1) /\ ~same
  <2>1. g = PreloadFile(f, entry.name)
    BY <1>2 DEF AddMember
  <2>2. QED
    BY <2>1, PreloadFileIs
<1>3. CASE IsUnloaded(f, n1) /\ same
  <2> DEFINE t == OpenWget(f, n1, "ARCHIVE_FILE")
             m == [ino |-> n1, off |-> off]
  <2>1. n1 \in Ino \union {NoIno}
    BY SearchFinds, InoAssumption DEF Finds
  <2>2. n1 \in Ino /\ Unloaded(f, n1)
    BY <1>3, <2>1 DEF IsUnloaded, IsType, Unloaded
  <2>3. g = Entered(t, a, m)
    BY <1>3 DEF AddMember, Entered
  <2> HIDE DEF n1
  <2>4. m \in Member
    BY <2>2 DEF Member
  <2>5. Loaded(f, t)
    BY <2>2, WgetLoads
  <2> HIDE DEF t, m, g
  <2>6. IsFs(t) /\ Fresh(t) /\ Guarded(t)
    BY <2>5 DEF Loaded
  <2>7. Loaded(t, g)
    BY <2>3, <2>4, <2>6, EnteredIs, SameLoadsLoaded
  <2>8. Loaded(f, g)
    BY <2>5, <2>7, LoadedThen
  <2>9. QED
    BY <2>8 DEF g
<1>4. QED
  BY <1>1, <1>2, <1>3

LEMMA AloneCourse ==
  ASSUME NEW f, NEW files, NEW k \in Nat, DOMAIN files = 1 .. k
  PROVE  \E h : Course(h, "alone", NoIno, f, files, k) /\ PreloadAlone(f, files) = h[k]
<1> DEFINE IsLoop(g) == LoopOver(g, "alone", NoIno, f, files, k)
           c == CHOOSE g : IsLoop(g)
<1>1. \E g : IsLoop(g)
  BY LoopExists
<1> HIDE DEF IsLoop
<1>2. IsLoop(c)
  BY <1>1
<1>3. PreloadAlone(f, files) = c[1 .. k]
  BY DEF PreloadAlone, FoldLeft, MapThenFoldSet, IsLoop, LoopOver, Do
<1> HIDE DEF c
<1>4. LoopOver(c, "alone", NoIno, f, files, k)
  BY <1>2 DEF IsLoop
<1>5. QED
  BY <1>3, <1>4, LoopCourse

\* A loop of loads is a load.
LEMMA LoadsTogether ==
  ASSUME NEW f, IsFs(f), Fresh(f), Guarded(f), NEW k \in Nat, NEW h, h[0] = f,
         \A i \in 1 .. k : IsFs(h[i - 1]) /\ Fresh(h[i - 1]) /\ Guarded(h[i - 1])
                             => Loaded(h[i - 1], h[i])
  PROVE  Loaded(f, h[k])
<1> DEFINE T == {i \in Nat : i <= k => Loaded(f, h[i])}
<1>1. 0 \in T
  BY LoadedSelf
<1>2. ASSUME NEW i \in Nat, i \in T
      PROVE  i + 1 \in T
  <2> SUFFICES ASSUME i + 1 <= k
               PROVE  Loaded(f, h[i + 1])
    OBVIOUS
  <2>1. Loaded(f, h[i]) /\ i + 1 \in 1 .. k /\ (i + 1) - 1 = i
    BY <1>2
  <2>2. IsFs(h[i]) /\ Fresh(h[i]) /\ Guarded(h[i])
    BY <2>1 DEF Loaded
  <2>3. Loaded(h[i], h[i + 1])
    BY <2>1, <2>2
  <2>4. QED
    BY <2>1, <2>3, LoadedThen
<1> HIDE DEF T
<1>3. Nat \subseteq T
  BY <1>1, <1>2, SetInduction
<1>4. QED
  BY <1>3 DEF T

LEMMA PreloadAloneIs ==
  ASSUME NEW f, IsFs(f), Fresh(f), Guarded(f), NEW files, NEW k \in Nat, DOMAIN files = 1 .. k
  PROVE  Loaded(f, PreloadAlone(f, files))
<1>1. PICK h : Course(h, "alone", NoIno, f, files, k) /\ PreloadAlone(f, files) = h[k]
  BY AloneCourse
<1>2. h[0] = f /\ \A i \in 1 .. k : h[i] = PreloadFile(h[i - 1], files[i].name)
  BY <1>1 DEF Course, Do
<1>3. \A i \in 1 .. k : IsFs(h[i - 1]) /\ Fresh(h[i - 1]) /\ Guarded(h[i - 1])
                           => Loaded(h[i - 1], h[i])
  BY <1>2, PreloadFileIs
<1>4. QED
  BY <1>1, <1>2, <1>3, LoadsTogether

\* The loop over the members of an archive, one step a member.
MembersRun(h, f, n, name, k) ==
  /\ Course(h, "members", [ino |-> n, name |-> name], OpenWget(f, n, "ARCHIVE"),
            [j \in DOMAIN Archives[name] |-> j], k)
  /\ AddMembers(f, n, name) = h[k]

LEMMA MembersCourse ==
  ASSUME NEW f, NEW n, NEW name, NEW k \in Nat, DOMAIN Archives[name] = 1 .. k
  PROVE  \E h : MembersRun(h, f, n, name, k)
<1> DEFINE p == [ino |-> n, name |-> name]
           base == OpenWget(f, n, "ARCHIVE")
           q == [j \in DOMAIN Archives[name] |-> j]
           IsLoop(g) == LoopOver(g, "members", p, base, q, k)
           c == CHOOSE g : IsLoop(g)
<1>1. \E g : IsLoop(g)
  BY LoopExists
<1> HIDE DEF IsLoop
<1>2. IsLoop(c)
  BY <1>1
<1>3. AddMembers(f, n, name) = c[1 .. k]
  BY DEF AddMembers, FoldLeft, MapThenFoldSet, IsLoop, LoopOver, Do
<1> HIDE DEF c
<1>4. LoopOver(c, "members", p, base, q, k)
  BY <1>2 DEF IsLoop
<1> HIDE DEF p, base, q
<1>5. \E h : Course(h, "members", p, base, q, k) /\ h[k] = c[1 .. k]
  BY <1>4, LoopCourse
<1>6. PICK h : Course(h, "members", p, base, q, k) /\ h[k] = c[1 .. k]
  BY <1>5
<1>7. MembersRun(h, f, n, name, k)
  BY <1>3, <1>6 DEF MembersRun, p, base, q
<1>8. QED
  BY <1>7

LEMMA ArchivesAre ==
  ASSUME NEW name \in DOMAIN Archives
  PROVE  /\ Len(Archives[name]) \in Nat /\ DOMAIN Archives[name] = 1 .. Len(Archives[name])
<1>1. Archives[name] \in Seq(Range(Archives[name]))
  BY PreloadAssumption
<1>2. QED
  BY <1>1

LEMMA AddMembersIs ==
  ASSUME NEW f, IsFs(f), Fresh(f), Guarded(f), NEW n \in Ino, Unloaded(f, n),
         NEW name \in DOMAIN Archives
  PROVE  Loaded(f, AddMembers(f, n, name))
<1> DEFINE files == Archives[name]
           k == Len(files)
           base == OpenWget(f, n, "ARCHIVE")
           q == [j \in DOMAIN files |-> j]
<1>1. k \in Nat /\ DOMAIN files = 1 .. k
  BY ArchivesAre
<1>a. \E h : MembersRun(h, f, n, name, k)
  <2> HIDE DEF k
  <2>1. k \in Nat /\ DOMAIN Archives[name] = 1 .. k
    BY <1>1
  <2>2. QED
    BY <2>1, MembersCourse
<1>b. PICK h : MembersRun(h, f, n, name, k)
  BY <1>a
<1>2. /\ Course(h, "members", [ino |-> n, name |-> name], base, q, k)
      /\ AddMembers(f, n, name) = h[k]
  BY <1>b DEF MembersRun
<1>3. Loaded(f, base) /\ IsFs(base) /\ Fresh(base) /\ Guarded(base)
  BY WgetLoads DEF Loaded
<1>4. \A i \in 1 .. k : q[i] = i
  BY <1>1
<1> HIDE DEF files, k, base, q
<1>5. h[0] = base
  BY <1>2 DEF Course
<1>6. ASSUME NEW i \in 1 .. k
      PROVE  h[i] = AddMember(h[i - 1], n, files[i], Offset(name, i))
  <2>1. h[i] = Do("members", [ino |-> n, name |-> name], h[i - 1], q[i])
    BY <1>2 DEF Course
  <2>2. QED
    BY <1>4, <2>1 DEF Do, files
<1>7. \A i \in 1 .. k : Offset(name, i) \in Offsets
  <2>1. TAKE i \in 1 .. k
  <2> DEFINE o == <<name, i>>
  <2>2. o \in (DOMAIN Archives) \X Nat /\ o[1] = name /\ o[2] = i
    BY <1>1
  <2>3. QED
    BY <2>2 DEF Offsets
<1>8. \A i \in 1 .. k : IsFs(h[i - 1]) /\ Fresh(h[i - 1]) /\ Guarded(h[i - 1])
                           => Loaded(h[i - 1], h[i])
  BY <1>6, <1>7, AddMemberIs
<1>9. Loaded(base, h[k])
  BY <1>1, <1>3, <1>5, <1>8, LoadsTogether
<1>10. QED
  BY <1>2, <1>3, <1>9, LoadedThen

LEMMA PreloadArchiveIs ==
  ASSUME NEW f, IsFs(f), Fresh(f), Guarded(f), NEW name
  PROVE  Loaded(f, PreloadArchive(f, name))
<1> DEFINE files == Archives[name]
           n == InodeSearch(f, Root, name)
           g == PreloadArchive(f, name)
<1>1. \/ g = f
      \/ name \in DOMAIN Archives /\ g = PreloadAlone(f, files)
      \/ name \in DOMAIN Archives /\ IsUnloaded(f, n) /\ g = AddMembers(f, n, name)
  BY DEF PreloadArchive
<1>2. CASE g = f
  BY <1>2, LoadedSelf
<1>3. CASE name \in DOMAIN Archives /\ g = PreloadAlone(f, files)
  <2>1. Len(files) \in Nat /\ DOMAIN files = 1 .. Len(files)
    BY <1>3, ArchivesAre
  <2>2. QED
    BY <1>3, <2>1, PreloadAloneIs
<1>4. CASE name \in DOMAIN Archives /\ IsUnloaded(f, n) /\ g = AddMembers(f, n, name)
  <2>1. n \in Ino \union {NoIno}
    BY SearchFinds, InoAssumption DEF Finds
  <2>2. n \in Ino /\ Unloaded(f, n)
    BY <1>4, <2>1 DEF IsUnloaded, IsType, Unloaded
  <2> HIDE DEF n
  <2>3. QED
    BY <1>4, <2>2, AddMembersIs
<1>5. QED
  BY <1>1, <1>2, <1>3, <1>4

LEMMA PreloadCourse ==
  ASSUME NEW f, NEW id \in DOMAIN Preload, NEW k \in Nat, DOMAIN Preload[id] = 1 .. k
  PROVE  \E h : Course(h, "preload", NoIno, f, Preload[id], k) /\ PreloadFiles(f, id) = h[k]
<1> DEFINE IsLoop(g) == LoopOver(g, "preload", NoIno, f, Preload[id], k)
           c == CHOOSE g : IsLoop(g)
<1>1. \E g : IsLoop(g)
  BY LoopExists
<1> HIDE DEF IsLoop
<1>2. IsLoop(c)
  BY <1>1
<1>3. PreloadFiles(f, id) = c[1 .. k]
  BY DEF PreloadFiles, FoldLeft, MapThenFoldSet, IsLoop, LoopOver, Do
<1> HIDE DEF c
<1>4. LoopOver(c, "preload", NoIno, f, Preload[id], k)
  BY <1>2 DEF IsLoop
<1>5. QED
  BY <1>3, <1>4, LoopCourse

LEMMA PreloadFilesIs ==
  ASSUME NEW f, IsFs(f), Fresh(f), Guarded(f), NEW id
  PROVE  Loaded(f, PreloadFiles(f, id))
<1>1. CASE id \notin DOMAIN Preload
  <2>1. PreloadFiles(f, id) = f
    BY <1>1 DEF PreloadFiles
  <2>2. QED
    BY <2>1, LoadedSelf
<1>2. CASE id \in DOMAIN Preload
  <2> DEFINE q == Preload[id]
             k == Len(q)
  <2>1. k \in Nat /\ DOMAIN q = 1 .. k
    <3>1. q \in Seq(Range(q))
      BY <1>2, PreloadAssumption
    <3>2. QED
      BY <3>1
  <2>2. PICK h : Course(h, "preload", NoIno, f, q, k) /\ PreloadFiles(f, id) = h[k]
    BY <1>2, <2>1, PreloadCourse
  <2> HIDE DEF q, k
  <2>3. h[0] = f /\ \A i \in 1 .. k : h[i] = IF q[i].archive THEN PreloadArchive(h[i - 1], q[i].name)
                                             ELSE PreloadFile(h[i - 1], q[i].name)
    BY <2>2 DEF Course, Do
  <2>4. \A i \in 1 .. k : IsFs(h[i - 1]) /\ Fresh(h[i - 1]) /\ Guarded(h[i - 1])
                             => Loaded(h[i - 1], h[i])
    BY <2>3, PreloadFileIs, PreloadArchiveIs
  <2>5. QED
    BY <2>1, <2>2, <2>3, <2>4, LoadsTogether
<1>3. QED
  BY <1>1, <1>2

\* An opened file comes to the front of the cache.
LEMMA ToFrontIs ==
  ASSUME NEW f, IsFs(f), NEW n \in Ino, f.ino[n].state = "LOADED", Fresh(f), Guarded(f)
  PROVE  Loaded(f, ToFront(f, n)) /\ ToFront(f, n).ino = f.ino
<1> DEFINE g == ToFront(f, n)
           q == RemoveFirst(f.cache, n)
<1>1. f.cache \in Seq(Ino) /\ q \in Seq(Ino)
  BY RemovedType DEF IsFs
<1>2. /\ g = [k \in FsFields |-> g[k]] /\ g.file = f.file /\ g.blocks = f.blocks
      /\ g.cache = <<n>> \o q /\ g.cache_size = f.cache_size /\ g.called = f.called
      /\ g.broken = f.broken /\ g.ino = f.ino
  BY DEF ToFront, IsFs, FsFields
<1> HIDE DEF g, q
<1>3. g.cache \in Seq(Ino)
  <2>1. <<n>> \in Seq(Ino) /\ q \in Seq(Ino)
    BY <1>1
  <2>2. <<n>> \o q \in Seq(Ino)
    BY <2>1, ConcatProperties
  <2>3. QED
    BY <1>2, <2>2
<1>4. IsFs(g)
  BY <1>2, <1>3 DEF IsFs
<1>5. Light(f, g)
  BY <1>2, <1>4 DEF Light, SameNode
<1>6. Loading(f, g)
  BY <1>2, <1>5 DEF Loading
<1>7. Fresh(g)
  <2> SUFFICES ASSUME g.broken = FALSE
               PROVE  Cached(g) /\ \A m \in Ino : NodeHere(g, m)
    BY DEF Fresh
  <2>1. CachedIs(f) /\ \A m \in Ino : NodeHere(f, m)
    BY <1>2, CachedBoth DEF Fresh
  <2>2. NoRepeat(q) /\ \A x : In(q, x) <=> In(f.cache, x) /\ x # n
    <3>1. NoRepeat(f.cache) /\ In(f.cache, n)
      BY <2>1 DEF CachedIs
    <3>2. QED
      BY <1>1, <3>1, RemovedIs DEF q
  <2>3. ~In(q, n)
    BY <2>2
  <2>4. NoRepeat(g.cache) /\ \A x : In(g.cache, x) <=> In(q, x) \/ x = n
    <3>1. /\ NoRepeat(<<n>> \o q)
          /\ \A x : In(<<n>> \o q, x) <=> In(q, x) \/ x = n
      BY <1>1, <2>2, <2>3, FrontIs
    <3>2. QED
      BY <1>2, <3>1
  <2>5. Bytes(g) = Bytes(f)
    BY <1>2 DEF Bytes
  <2>6. \A m \in Ino : In(g.cache, m) <=> g.ino[m].state = "LOADED"
    BY <1>2, <2>1, <2>2, <2>4 DEF CachedIs
  <2>7. CachedIs(g)
    BY <1>2, <2>1, <2>4, <2>5, <2>6 DEF CachedIs
  <2>8. \A m \in Ino : NodeHere(g, m)
    BY <1>2, <2>1, HereStays
  <2>9. QED
    BY <2>7, <2>8, CachedBoth
<1>8. Guarded(g)
  BY <1>5, GuardedStays
<1>9. QED
  BY <1>2, <1>4, <1>6, <1>7, <1>8 DEF Loaded, g

-----------------------------------------------------------------------------
(* What the counts count.  An operation takes them apart step by step: R   *)
(* has the references that are no directory entry, x is a file object that *)
(* is on its way, and a the inode it still counts for; y may be unused.    *)

NamedAt(f, n) == [d \in Ino |-> At(f.ino[d].dents, n)]
Names(f, n) == Cardinality(Pairs(NamedAt(f, n)))
If1(c) == IF c THEN 1 ELSE 0
Refs(f, R) ==
  /\ R \in [Ino -> Nat]
  /\ \A n \in Ino : /\ f.ino[n].refcount >= Names(f, n) + If1(n = Root) + R[n]
                    /\ f.broken = FALSE =>
                         f.ino[n].refcount = Names(f, n) + If1(n = Root) + R[n]

Standing(f, n, x) == {o \in FsFile \ {x} : f.file[o].ino = n}
Opens(f, x, a) ==
  \A n \in Ino : f.ino[n].open_count = Cardinality(Standing(f, n, x)) + If1(n = a)

BlocksOf(f) == [n \in Ino |-> 1 .. ToBlocks(f.ino[n].size)]
Blocks(f) == f.blocks = Cardinality(Pairs(BlocksOf(f)))

Busy(f, y) ==
  \A n \in Ino \ {y} :
    f.ino[n].type = "NONE" \/ f.ino[n].refcount > 0 \/ f.ino[n].open_count > 0

Counts(f, R, x, a, y) == IsFs(f) /\ Refs(f, R) /\ Opens(f, x, a) /\ Blocks(f) /\ Busy(f, y)
Solid(f, R, x, a) == Counts(f, R, x, a, NoIno) /\ Fresh(f)

NoRefs == [n \in Ino |-> 0]
Up(R, n) == [R EXCEPT ![n] = @ + 1]
Down(R, n) == [R EXCEPT ![n] = @ - 1]

LEMMA UpDown ==
  ASSUME NEW R \in [Ino -> Nat], NEW n \in Ino
  PROVE  /\ Up(R, n) \in [Ino -> Nat] /\ Up(R, n)[n] = R[n] + 1 /\ Down(Up(R, n), n) = R
         /\ \A m \in Ino : m # n => Up(R, n)[m] = R[m]
         /\ R[n] > 0 => /\ Down(R, n) \in [Ino -> Nat] /\ Down(R, n)[n] = R[n] - 1
                        /\ \A m \in Ino : m # n => Down(R, n)[m] = R[m]
<1>1. /\ Up(R, n) \in [Ino -> Nat] /\ Up(R, n)[n] = R[n] + 1
      /\ \A m \in Ino : m # n => Up(R, n)[m] = R[m]
  BY DEF Up
<1>2. Down(Up(R, n), n) = R
  <2> DEFINE u == Up(R, n)
  <2>1. u \in [Ino -> Nat] /\ u[n] = R[n] + 1 /\ \A m \in Ino : m # n => u[m] = R[m]
    BY <1>1
  <2> HIDE DEF u
  <2>2. Down(u, n) = [m \in Ino |-> Down(u, n)[m]]
    BY <2>1 DEF Down
  <2>3. \A m \in Ino : Down(u, n)[m] = R[m]
    BY <2>1 DEF Down
  <2>4. Down(u, n) = R
    BY <2>2, <2>3
  <2>5. QED
    BY <2>4 DEF u
<1>3. R[n] > 0 => /\ Down(R, n) \in [Ino -> Nat] /\ Down(R, n)[n] = R[n] - 1
                  /\ \A m \in Ino : m # n => Down(R, n)[m] = R[m]
  BY DEF Down
<1>4. QED
  BY <1>1, <1>2, <1>3

LEMMA NamedFinite ==
  ASSUME NEW f, IsFs(f), NEW n
  PROVE  AllFinite(NamedAt(f, n)) /\ Names(f, n) \in Nat
<1>1. ASSUME NEW d \in Ino
      PROVE  IsFiniteSet(NamedAt(f, n)[d])
  <2>1. f.ino[d].dents \in Seq(Dent)
    BY DEF IsFs, IsNode
  <2>2. IsFiniteSet(At(f.ino[d].dents, n))
    BY <2>1, AtIs
  <2>3. QED
    BY <2>2 DEF NamedAt
<1>2. AllFinite(NamedAt(f, n))
  BY <1>1 DEF AllFinite
<1>3. QED
  BY <1>2, PairsFinite DEF Names

SameDentsBut(f, g, d) == \A m \in Ino : m # d => g.ino[m].dents = f.ino[m].dents
SameDents(f, g) == \A m \in Ino : g.ino[m].dents = f.ino[m].dents

LEMMA NamesSame ==
  ASSUME NEW f, NEW g, SameDents(f, g), NEW n
  PROVE  Names(g, n) = Names(f, n)
<1>1. NamedAt(g, n) = NamedAt(f, n)
  BY DEF NamedAt, SameDents
<1>2. QED
  BY <1>1 DEF Names

LEMMA NamesChange ==
  ASSUME NEW f, IsFs(f), NEW g, IsFs(g), NEW d \in Ino, SameDentsBut(f, g, d), NEW n
  PROVE  /\ Names(f, n) \in Nat /\ Names(g, n) \in Nat
         /\ Names(g, n) = Names(f, n) - Cardinality(At(f.ino[d].dents, n))
                                      + Cardinality(At(g.ino[d].dents, n))
<1> DEFINE F == NamedAt(f, n)
           G == NamedAt(g, n)
<1>1. AllFinite(F) /\ AllFinite(G)
  BY NamedFinite
<1>2. \A m \in Ino : m # d => G[m] = F[m]
  BY DEF NamedAt, SameDentsBut
<1>3. F[d] = At(f.ino[d].dents, n) /\ G[d] = At(g.ino[d].dents, n)
  BY DEF NamedAt
<1> HIDE DEF F, G
<1>4. IsFiniteSet(G[d])
  BY <1>1 DEF AllFinite
<1>5. /\ Cardinality(Pairs(F)) \in Nat /\ Cardinality(Pairs(G)) \in Nat
      /\ Cardinality(Pairs(G)) = Cardinality(Pairs(F)) - Cardinality(F[d]) + Cardinality(G[d])
  BY <1>1, <1>2, <1>4, PairsUpdate
<1>6. QED
  BY <1>3, <1>5 DEF Names, F, G

LEMMA ToBlocksIs ==
  ASSUME NEW size \in Nat
  PROVE  ToBlocks(size) \in Nat /\ ToBlocks(0) = 0
<1>1. BlockSize \in Nat /\ BlockSize > 0
  BY SizesAssumption
<1>2. \A k \in Nat : k \div BlockSize \in Nat /\ (k < BlockSize => k \div BlockSize = 0)
  BY <1>1
<1>3. size + BlockSize - 1 \in Nat /\ 0 + BlockSize - 1 \in Nat /\ 0 + BlockSize - 1 < BlockSize
  BY <1>1
<1>4. QED
  BY <1>2, <1>3 DEF ToBlocks

SameSizesBut(f, g, d) == \A m \in Ino : m # d => g.ino[m].size = f.ino[m].size

LEMMA BlocksFinite ==
  ASSUME NEW f, IsFs(f)
  PROVE  /\ AllFinite(BlocksOf(f))
         /\ \A n \in Ino : Cardinality(BlocksOf(f)[n]) = ToBlocks(f.ino[n].size)
<1>1. ASSUME NEW n \in Ino
      PROVE  IsFiniteSet(BlocksOf(f)[n]) /\ Cardinality(BlocksOf(f)[n]) = ToBlocks(f.ino[n].size)
  <2>1. f.ino[n].size \in Nat
    BY DEF IsFs, IsNode
  <2>2. ToBlocks(f.ino[n].size) \in Nat
    BY <2>1, ToBlocksIs
  <2> DEFINE b == ToBlocks(f.ino[n].size)
  <2> HIDE DEF b
  <2>3. IsFiniteSet(1 .. b) /\ Cardinality(1 .. b) = b
    BY <2>2, FS_Interval DEF b
  <2>4. QED
    BY <2>3 DEF BlocksOf, b
<1>2. QED
  BY <1>1 DEF AllFinite

LEMMA BlocksChange ==
  ASSUME NEW f, IsFs(f), NEW g, IsFs(g), NEW d \in Ino, SameSizesBut(f, g, d)
  PROVE  /\ Cardinality(Pairs(BlocksOf(f))) \in Nat /\ Cardinality(Pairs(BlocksOf(g))) \in Nat
         /\ Cardinality(Pairs(BlocksOf(g))) = Cardinality(Pairs(BlocksOf(f)))
              - ToBlocks(f.ino[d].size) + ToBlocks(g.ino[d].size)
<1> DEFINE F == BlocksOf(f)
           G == BlocksOf(g)
<1>1. AllFinite(F) /\ AllFinite(G)
  BY BlocksFinite
<1>2. \A m \in Ino : m # d => G[m] = F[m]
  BY DEF BlocksOf, SameSizesBut
<1>3. Cardinality(F[d]) = ToBlocks(f.ino[d].size) /\ Cardinality(G[d]) = ToBlocks(g.ino[d].size)
  BY BlocksFinite
<1> HIDE DEF F, G
<1>4. IsFiniteSet(G[d])
  BY <1>1 DEF AllFinite
<1>5. /\ Cardinality(Pairs(F)) \in Nat /\ Cardinality(Pairs(G)) \in Nat
      /\ Cardinality(Pairs(G)) = Cardinality(Pairs(F)) - Cardinality(F[d]) + Cardinality(G[d])
  BY <1>1, <1>2, <1>4, PairsUpdate
<1>6. QED
  BY <1>3, <1>5 DEF F, G

LEMMA StandingIs ==
  ASSUME NEW f, NEW n, NEW x
  PROVE  IsFiniteSet(Standing(f, n, x)) /\ Cardinality(Standing(f, n, x)) \in Nat
<1>1. Standing(f, n, x) \in SUBSET FsFile
  BY DEF Standing
<1>2. QED
  BY <1>1, FsFileAssumption, FS_Subset, FS_CardinalityType

\* What is not open has no file object, but the one on its way.
LEMMA OpensGuard ==
  ASSUME NEW f, NEW x, NEW a, Opens(f, x, a), NEW n \in Ino, f.ino[n].open_count <= 0
  PROVE  n # a /\ f.ino[n].open_count = 0 /\ \A o \in FsFile : o # x => f.file[o].ino # n
<1>1. Cardinality(Standing(f, n, x)) \in Nat /\ IsFiniteSet(Standing(f, n, x))
  BY StandingIs
<1>2. f.ino[n].open_count = Cardinality(Standing(f, n, x)) + If1(n = a)
  BY DEF Opens
<1>3. n # a /\ Cardinality(Standing(f, n, x)) = 0 /\ f.ino[n].open_count = 0
  BY <1>1, <1>2 DEF If1
<1>4. Standing(f, n, x) = {}
  BY <1>1, <1>3, FS_EmptySet
<1>5. QED
  BY <1>3, <1>4 DEF Standing

LEMMA SolidGuarded ==
  ASSUME NEW f, NEW R, Solid(f, R, NoFile, NoIno)
  PROVE  Guarded(f)
<1>1. Opens(f, NoFile, NoIno)
  BY DEF Solid, Counts
<1>2. QED
  BY <1>1, OpensGuard, FsFileAssumption DEF Guarded

-----------------------------------------------------------------------------
(* Single changes.                                                         *)

\* Loads, evictions and transfers change no count.
SameCounts(f, g) ==
  /\ IsFs(g) /\ g.file = f.file /\ g.blocks = f.blocks
  /\ f.broken = TRUE => g.broken = TRUE
  /\ \A n \in Ino : /\ g.ino[n].type = f.ino[n].type /\ g.ino[n].refcount = f.ino[n].refcount
                    /\ g.ino[n].open_count = f.ino[n].open_count
                    /\ g.ino[n].dents = f.ino[n].dents /\ g.ino[n].size = f.ino[n].size

LEMMA CountsKept ==
  ASSUME NEW f, NEW g, SameCounts(f, g), NEW R, NEW x, NEW a, NEW y, Counts(f, R, x, a, y)
  PROVE  Counts(g, R, x, a, y)
<1>1. /\ IsFs(f) /\ IsFs(g) /\ g.file = f.file /\ g.blocks = f.blocks
      /\ (g.broken = FALSE => f.broken = FALSE)
  BY DEF Counts, SameCounts, IsFs
<1>2. SameDents(f, g)
  BY DEF SameDents, SameCounts
<1>3. \A n \in Ino : Names(g, n) = Names(f, n)
  BY <1>2, NamesSame
<1>4. Refs(g, R)
  BY <1>1, <1>3 DEF Counts, Refs, SameCounts
<1>5. Opens(g, x, a)
  BY <1>1 DEF Counts, Opens, Standing, SameCounts
<1>6. BlocksOf(g) = BlocksOf(f)
  BY DEF BlocksOf, SameCounts
<1>7. Blocks(g)
  BY <1>1, <1>6 DEF Counts, Blocks
<1>8. Busy(g, y)
  BY DEF Counts, Busy, SameCounts
<1>9. QED
  BY <1>1, <1>4, <1>5, <1>7, <1>8 DEF Counts

LEMMA LightCounts ==
  ASSUME NEW f, NEW g, Light(f, g), NEW R, NEW x, NEW a, NEW y, Counts(f, R, x, a, y)
  PROVE  Counts(g, R, x, a, y)
<1>1. SameCounts(f, g)
  BY DEF SameCounts, Light, SameNode
<1>2. QED
  BY <1>1, CountsKept

\* What a change leaves alone: inodes are at most freed, nobody is called.
Mild(f, g) ==
  /\ g.file = f.file
  /\ \A n \in Ino : g.ino[n].type \in {f.ino[n].type, "NONE"}
  /\ Quiet(f) => Quiet(g) /\ g.called = f.called

LEMMA MildSelf ==
  ASSUME NEW f
  PROVE  Mild(f, f)
BY DEF Mild

LEMMA MildThen ==
  ASSUME NEW f, NEW g, NEW h, Mild(f, g), Mild(g, h)
  PROVE  Mild(f, h)
BY DEF Mild

LEMMA LightMild ==
  ASSUME NEW f, NEW g, Light(f, g)
  PROVE  Mild(f, g)
BY DEF Light, Mild, SameNode, Quiet

\* Contents stay where they are.
Still(f, g) ==
  /\ g.cache = f.cache /\ g.cache_size = f.cache_size /\ (g.broken = FALSE => f.broken = FALSE)
  /\ \A n \in Ino : /\ g.ino[n].type = f.ino[n].type /\ g.ino[n].state = f.ino[n].state
                    /\ g.ino[n].buf = f.ino[n].buf
                    /\ g.ino[n].size = f.ino[n].size \/ f.ino[n].type # "REG"
                    /\ OpenAt(g, n) => OpenAt(f, n)

LEMMA StillFresh ==
  ASSUME NEW f, NEW g, Still(f, g), Fresh(f)
  PROVE  Fresh(g)
<1> SUFFICES ASSUME g.broken = FALSE
             PROVE  Cached(g) /\ \A n \in Ino : NodeHere(g, n)
  BY DEF Fresh
<1>1. Cached(f) /\ \A n \in Ino : NodeHere(f, n)
  BY DEF Fresh, Still
<1>2. \A n \in Ino : NodeHere(g, n)
  BY <1>1 DEF NodeHere, Still, InMemory
<1>3. \A n \in Ino : /\ g.ino[n].state = "LOADED" <=> f.ino[n].state = "LOADED"
                     /\ g.ino[n].state = "LOADED" => g.ino[n].size = f.ino[n].size
  BY <1>1 DEF NodeHere, Still
<1>4. Cached(g)
  BY <1>1, <1>3, CachedStays DEF Still
<1>5. QED
  BY <1>2, <1>4

\* One inode becomes y.
Edits(f, g, n, y) ==
  /\ g = [k \in FsFields |-> g[k]] /\ g.ino = [f.ino EXCEPT ![n] = y] /\ IsNode(y)
  /\ g.file = f.file /\ g.blocks \in Int /\ g.cache = f.cache /\ g.cache_size = f.cache_size
  /\ g.called = f.called /\ g.broken = f.broken

LEMMA EditsIs ==
  ASSUME NEW f, IsFs(f), NEW n \in Ino, NEW y, NEW g, Edits(f, g, n, y)
  PROVE  IsFs(g) /\ g.ino[n] = y /\ \A m \in Ino : m # n => g.ino[m] = f.ino[m]
<1>1. g.ino[n] = y /\ \A m \in Ino : m # n => g.ino[m] = f.ino[m]
  BY DEF IsFs, Edits
<1>2. g.ino = [m \in Ino |-> g.ino[m]]
  BY DEF IsFs, Edits
<1>3. \A m \in Ino : IsNode(g.ino[m])
  BY <1>1 DEF IsFs, Edits
<1>4. QED
  BY <1>1, <1>2, <1>3 DEF IsFs, Edits

\* A count of an inode changes.
Recounts(f, g, n, ref, open) ==
  LET x == f.ino[n]
  IN  /\ IsFs(g) /\ Mild(f, g) /\ Still(f, g) /\ g.blocks = f.blocks /\ g.broken = f.broken
      /\ g.ino[n].refcount = x.refcount + ref /\ g.ino[n].open_count = x.open_count + open
      /\ SameDents(f, g)
      /\ \A m \in Ino : g.ino[m].size = f.ino[m].size
      /\ \A m \in Ino : g.ino[m].type = f.ino[m].type
      /\ \A m \in Ino : m # n => g.ino[m] = f.ino[m]

\* A record with other counts.
CountedNode(x, y, ref, open) ==
  /\ y = [k \in NodeFields |-> y[k]]
  /\ y.refcount = x.refcount + ref /\ y.open_count = x.open_count + open
  /\ y.type = x.type /\ y.dents = x.dents /\ y.state = x.state /\ y.size = x.size
  /\ y.buf = x.buf /\ y.load = x.load
CountedFs(f, g, n, y) ==
  /\ g = [k \in FsFields |-> g[k]] /\ g.file = f.file /\ g.blocks = f.blocks
  /\ g.cache = f.cache /\ g.cache_size = f.cache_size /\ g.called = f.called
  /\ g.broken = f.broken /\ g.ino = [f.ino EXCEPT ![n] = y]

LEMMA CountedIsNode ==
  ASSUME NEW x, IsNode(x), x.type # "NONE", NEW ref \in Int, NEW open \in Int, NEW y,
         CountedNode(x, y, ref, open)
  PROVE  IsNode(y)
<1>1. y.refcount \in Int /\ y.open_count \in Int
  BY DEF IsNode, CountedNode
<1>2. /\ y.dents \in Seq(Dent) /\ y.state \in States
      /\ y.size \in Nat /\ IsSeq(y.buf) /\ IsLoad(y.load)
  BY DEF IsNode, CountedNode
<1>3. /\ y.type # "NONE" /\ (y.type # "DIR" => y.dents = <<>>)
      /\ (y.type = "DIR" => y.size = DirentSize * Len(y.dents))
  BY DEF IsNode, CountedNode
<1>4. QED
  BY <1>1, <1>2, <1>3 DEF IsNode, CountedNode

LEMMA CountedIs ==
  ASSUME NEW f, IsFs(f), NEW n \in Ino, f.ino[n].type # "NONE",
         NEW ref \in Int, NEW open \in Int, NEW g, NEW y,
         CountedFs(f, g, n, y), CountedNode(f.ino[n], y, ref, open)
  PROVE  Recounts(f, g, n, ref, open)
<1> DEFINE x == f.ino[n]
<1>1. IsNode(x) /\ x.type # "NONE" /\ f.blocks \in Int /\ CountedNode(x, y, ref, open)
  BY DEF IsFs
<1> HIDE DEF x
<1>2. IsNode(y)
  BY <1>1, CountedIsNode
<1>3. Edits(f, g, n, y)
  BY <1>1, <1>2 DEF Edits, CountedFs
<1>4. IsFs(g) /\ g.ino[n] = y /\ \A m \in Ino : m # n => g.ino[m] = f.ino[m]
  BY <1>3, EditsIs
<1>5. /\ y.refcount = x.refcount + ref /\ y.open_count = x.open_count + open
      /\ y.type = x.type /\ y.dents = x.dents /\ y.state = x.state /\ y.size = x.size
      /\ y.buf = x.buf /\ y.load = x.load
  BY <1>1 DEF CountedNode
<1>6. /\ g.file = f.file /\ g.blocks = f.blocks /\ g.cache = f.cache
      /\ g.cache_size = f.cache_size /\ g.called = f.called /\ g.broken = f.broken
  BY DEF CountedFs
<1>7. Mild(f, g)
  BY <1>4, <1>5, <1>6 DEF Mild, Quiet, x
<1>8. Still(f, g)
  BY <1>4, <1>5, <1>6 DEF Still, OpenAt, x
<1>9. SameDents(f, g) /\ (\A m \in Ino : g.ino[m].size = f.ino[m].size)
      /\ (\A m \in Ino : g.ino[m].type = f.ino[m].type)
  BY <1>4, <1>5 DEF SameDents, x
<1>10. QED
  BY <1>4, <1>5, <1>6, <1>7, <1>8, <1>9 DEF Recounts, x

LEMMA IncrefIs ==
  ASSUME NEW f, IsFs(f), NEW n \in Ino, f.ino[n].type # "NONE"
  PROVE  Recounts(f, InodeIncref(f, n), n, 1, 0)
<1> DEFINE g == InodeIncref(f, n)
           x == f.ino[n]
           y == [x EXCEPT !.refcount = @ + 1]
<1>1. /\ g = [k \in FsFields |-> g[k]] /\ g.file = f.file /\ g.blocks = f.blocks
      /\ g.cache = f.cache /\ g.cache_size = f.cache_size /\ g.called = f.called
      /\ g.broken = f.broken
  BY DEF InodeIncref, IsFs, FsFields
<1>2. g.ino = [f.ino EXCEPT ![n] = y]
  BY DEF InodeIncref, IsFs, FsFields
<1>3. IsNode(x)
  BY DEF IsFs
<1> HIDE DEF g, x
<1>4. CountedNode(x, y, 1, 0)
  BY <1>3 DEF IsNode, NodeFields, CountedNode
<1> HIDE DEF y
<1>5. CountedFs(f, g, n, y) /\ CountedNode(f.ino[n], y, 1, 0) /\ 1 \in Int /\ 0 \in Int
  BY <1>1, <1>2, <1>4 DEF CountedFs, x
<1>6. Recounts(f, g, n, 1, 0)
  BY <1>5, CountedIs
<1>7. QED
  BY <1>6 DEF g

LEMMA IncOpenIs ==
  ASSUME NEW f, IsFs(f), NEW n \in Ino, f.ino[n].type # "NONE"
  PROVE  Recounts(f, InodeIncOpen(f, n), n, 0, 1)
<1> DEFINE g == InodeIncOpen(f, n)
           x == f.ino[n]
           y == [x EXCEPT !.open_count = @ + 1]
<1>1. /\ g = [k \in FsFields |-> g[k]] /\ g.file = f.file /\ g.blocks = f.blocks
      /\ g.cache = f.cache /\ g.cache_size = f.cache_size /\ g.called = f.called
      /\ g.broken = f.broken
  BY DEF InodeIncOpen, IsFs, FsFields
<1>2. g.ino = [f.ino EXCEPT ![n] = y]
  BY DEF InodeIncOpen, IsFs, FsFields
<1>3. IsNode(x)
  BY DEF IsFs
<1> HIDE DEF g, x
<1>4. CountedNode(x, y, 0, 1)
  BY <1>3 DEF IsNode, NodeFields, CountedNode
<1> HIDE DEF y
<1>5. CountedFs(f, g, n, y) /\ CountedNode(f.ino[n], y, 0, 1) /\ 0 \in Int /\ 1 \in Int
  BY <1>1, <1>2, <1>4 DEF CountedFs, x
<1>6. Recounts(f, g, n, 0, 1)
  BY <1>5, CountedIs
<1>7. QED
  BY <1>6 DEF g

LEMMA DecrefIs ==
  ASSUME NEW f, IsFs(f), NEW n \in Ino, f.ino[n].type # "NONE"
  PROVE  Recounts(f, [f EXCEPT !.ino[n].refcount = @ - 1], n, -1, 0)
<1> DEFINE g == [f EXCEPT !.ino[n].refcount = @ - 1]
           x == f.ino[n]
           y == [x EXCEPT !.refcount = @ - 1]
<1>1. /\ g = [k \in FsFields |-> g[k]] /\ g.file = f.file /\ g.blocks = f.blocks
      /\ g.cache = f.cache /\ g.cache_size = f.cache_size /\ g.called = f.called
      /\ g.broken = f.broken
  BY DEF IsFs, FsFields
<1>2. g.ino = [f.ino EXCEPT ![n] = y]
  BY DEF IsFs, FsFields
<1>3. IsNode(x)
  BY DEF IsFs
<1> HIDE DEF g, x
<1>4. CountedNode(x, y, -1, 0)
  BY <1>3 DEF IsNode, NodeFields, CountedNode
<1> HIDE DEF y
<1>5. CountedFs(f, g, n, y) /\ CountedNode(f.ino[n], y, -1, 0) /\ -1 \in Int /\ 0 \in Int
  BY <1>1, <1>2, <1>4 DEF CountedFs, x
<1>6. Recounts(f, g, n, -1, 0)
  BY <1>5, CountedIs
<1>7. QED
  BY <1>6 DEF g

LEMMA DecOpenIs ==
  ASSUME NEW f, IsFs(f), NEW n \in Ino, f.ino[n].type # "NONE"
  PROVE  Recounts(f, [f EXCEPT !.ino[n].open_count = @ - 1], n, 0, -1)
<1> DEFINE g == [f EXCEPT !.ino[n].open_count = @ - 1]
           x == f.ino[n]
           y == [x EXCEPT !.open_count = @ - 1]
<1>1. /\ g = [k \in FsFields |-> g[k]] /\ g.file = f.file /\ g.blocks = f.blocks
      /\ g.cache = f.cache /\ g.cache_size = f.cache_size /\ g.called = f.called
      /\ g.broken = f.broken
  BY DEF IsFs, FsFields
<1>2. g.ino = [f.ino EXCEPT ![n] = y]
  BY DEF IsFs, FsFields
<1>3. IsNode(x)
  BY DEF IsFs
<1> HIDE DEF g, x
<1>4. CountedNode(x, y, 0, -1)
  BY <1>3 DEF IsNode, NodeFields, CountedNode
<1> HIDE DEF y
<1>5. CountedFs(f, g, n, y) /\ CountedNode(f.ino[n], y, 0, -1) /\ 0 \in Int /\ -1 \in Int
  BY <1>1, <1>2, <1>4 DEF CountedFs, x
<1>6. Recounts(f, g, n, 0, -1)
  BY <1>5, CountedIs
<1>7. QED
  BY <1>6 DEF g

-----------------------------------------------------------------------------
(* What the calls do to the counts.                                        *)

\* An inode that is referred to, or open, is in use.
LEMMA InUse ==
  ASSUME NEW f, NEW R, NEW x, NEW a, NEW y, Counts(f, R, x, a, y), NEW n \in Ino
  PROVE  /\ f.ino[n].refcount >= R[n] /\ f.ino[n].refcount >= Names(f, n)
         /\ f.ino[n].refcount >= 0 /\ f.ino[n].open_count >= 0
         /\ n = Root => f.ino[n].refcount > 0
         /\ n = a => f.ino[n].open_count > 0
         /\ f.ino[n].refcount > 0 \/ f.ino[n].open_count > 0 => f.ino[n].type # "NONE"
<1>1. /\ Names(f, n) \in Nat /\ R[n] \in Nat /\ IsNode(f.ino[n])
      /\ f.ino[n].refcount >= Names(f, n) + If1(n = Root) + R[n]
  BY NamedFinite DEF Counts, Refs, IsFs
<1>2. /\ Cardinality(Standing(f, n, x)) \in Nat
      /\ f.ino[n].open_count = Cardinality(Standing(f, n, x)) + If1(n = a)
  BY StandingIs DEF Counts, Opens
<1>3. f.ino[n].type = "NONE" => f.ino[n].refcount = 0 /\ f.ino[n].open_count = 0
  BY <1>1 DEF IsNode
<1>4. f.ino[n].refcount \in Int
  BY <1>1 DEF IsNode
<1>5. QED
  BY <1>1, <1>2, <1>3, <1>4 DEF If1

\* A reference comes or goes.
LEMMA RecountRefs ==
  ASSUME NEW f, NEW R, NEW x, NEW a, Counts(f, R, x, a, NoIno), NEW n \in Ino, NEW ref \in Int,
         NEW g, Recounts(f, g, n, ref, 0), NEW S \in [Ino -> Nat], S[n] = R[n] + ref,
         \A m \in Ino : m # n => S[m] = R[m], NEW y, y = n \/ ref = 1
  PROVE  Counts(g, S, x, a, y)
<1>1. /\ IsFs(g) /\ g.blocks = f.blocks /\ g.broken = f.broken
      /\ g.ino[n].refcount = f.ino[n].refcount + ref
      /\ g.ino[n].open_count = f.ino[n].open_count + 0
      /\ SameDents(f, g) /\ g.file = f.file
      /\ \A m \in Ino : g.ino[m].size = f.ino[m].size
      /\ \A m \in Ino : g.ino[m].type = f.ino[m].type
      /\ \A m \in Ino : m # n => g.ino[m] = f.ino[m]
  BY DEF Recounts, Mild
<1>2. \A m \in Ino : Names(g, m) = Names(f, m) /\ Names(f, m) \in Nat
  BY <1>1, NamesSame, NamedFinite DEF Counts
<1>3. \A m \in Ino : f.ino[m].refcount \in Int /\ f.ino[m].open_count \in Int
  BY DEF Counts, IsFs, IsNode
<1>4. Refs(g, S)
  <2> SUFFICES ASSUME NEW m \in Ino
               PROVE  /\ g.ino[m].refcount >= Names(g, m) + If1(m = Root) + S[m]
                      /\ g.broken = FALSE =>
                           g.ino[m].refcount = Names(g, m) + If1(m = Root) + S[m]
    BY DEF Refs
  <2>1. /\ f.ino[m].refcount >= Names(f, m) + If1(m = Root) + R[m]
        /\ f.broken = FALSE => f.ino[m].refcount = Names(f, m) + If1(m = Root) + R[m]
        /\ R[m] \in Nat /\ If1(m = Root) \in Nat
    BY DEF Counts, Refs, If1
  <2>2. CASE m = n
    BY <2>1, <2>2, <1>1, <1>2, <1>3
  <2>3. CASE m # n
    BY <2>1, <2>3, <1>1, <1>2, <1>3
  <2>4. QED
    BY <2>2, <2>3
<1>5. Opens(g, x, a)
  BY <1>1, <1>3 DEF Counts, Opens, Standing
<1>6. BlocksOf(g) = BlocksOf(f)
  BY <1>1 DEF BlocksOf
<1>7. Blocks(g)
  BY <1>1, <1>6 DEF Counts, Blocks
<1>8. Busy(g, y)
  <2> SUFFICES ASSUME NEW m \in Ino, m # y
               PROVE  g.ino[m].type = "NONE" \/ g.ino[m].refcount > 0 \/ g.ino[m].open_count > 0
    BY DEF Busy
  <2>1. CASE m = n
    BY <2>1, <1>1, <1>3, InUse
  <2>2. CASE m # n
    BY <2>2, <1>1, InoAssumption DEF Counts, Busy
  <2>3. QED
    BY <2>1, <2>2
<1>9. QED
  BY <1>1, <1>4, <1>5, <1>7, <1>8 DEF Counts

\* A file object that is on its way comes to an inode, or goes from it.
LEMMA RecountOpens ==
  ASSUME NEW f, NEW R, NEW x, NEW a, Counts(f, R, x, a, NoIno), NEW n \in Ino, NEW open \in Int,
         NEW g, Recounts(f, g, n, 0, open), NEW b,
         (open = 1 /\ a = NoIno /\ b = n) \/ (open = -1 /\ a = n /\ b = NoIno),
         NEW y, y = n \/ open = 1
  PROVE  Counts(g, R, x, b, y)
<1>1. /\ IsFs(g) /\ g.blocks = f.blocks /\ g.broken = f.broken
      /\ g.ino[n].refcount = f.ino[n].refcount + 0
      /\ g.ino[n].open_count = f.ino[n].open_count + open
      /\ SameDents(f, g) /\ g.file = f.file
      /\ \A m \in Ino : g.ino[m].size = f.ino[m].size
      /\ \A m \in Ino : g.ino[m].type = f.ino[m].type
      /\ \A m \in Ino : m # n => g.ino[m] = f.ino[m]
  BY DEF Recounts, Mild
<1>2. \A m \in Ino : Names(g, m) = Names(f, m) /\ Names(f, m) \in Nat
  BY <1>1, NamesSame, NamedFinite DEF Counts
<1>3. \A m \in Ino : f.ino[m].refcount \in Int /\ f.ino[m].open_count \in Int
  BY DEF Counts, IsFs, IsNode
<1>4. Refs(g, R)
  BY <1>1, <1>2, <1>3 DEF Counts, Refs
<1>5. Opens(g, x, b)
  <2> SUFFICES ASSUME NEW m \in Ino
               PROVE  g.ino[m].open_count = Cardinality(Standing(g, m, x)) + If1(m = b)
    BY DEF Opens
  <2>1. f.ino[m].open_count = Cardinality(Standing(f, m, x)) + If1(m = a)
    BY DEF Counts, Opens
  <2>2. Standing(g, m, x) = Standing(f, m, x)
    BY <1>1 DEF Standing
  <2>3. Cardinality(Standing(f, m, x)) \in Nat
    BY StandingIs
  <2>4. QED
    BY <2>1, <2>2, <2>3, <1>1, <1>3, InoAssumption DEF If1
<1>6. BlocksOf(g) = BlocksOf(f)
  BY <1>1 DEF BlocksOf
<1>7. Blocks(g)
  BY <1>1, <1>6 DEF Counts, Blocks
<1>8. Busy(g, y)
  <2> SUFFICES ASSUME NEW m \in Ino, m # y
               PROVE  g.ino[m].type = "NONE" \/ g.ino[m].refcount > 0 \/ g.ino[m].open_count > 0
    BY DEF Busy
  <2>1. CASE m = n
    BY <2>1, <1>1, <1>3, InUse
  <2>2. CASE m # n
    BY <2>2, <1>1, InoAssumption DEF Counts, Busy
  <2>3. QED
    BY <2>1, <2>2
<1>9. QED
  BY <1>1, <1>4, <1>5, <1>7, <1>8 DEF Counts

LEMMA IncrefSolid ==
  ASSUME NEW f, NEW R, NEW x, NEW a, Solid(f, R, x, a), NEW n \in Ino, f.ino[n].type # "NONE"
  PROVE  /\ Solid(InodeIncref(f, n), Up(R, n), x, a)
         /\ Recounts(f, InodeIncref(f, n), n, 1, 0)
<1>1. Recounts(f, InodeIncref(f, n), n, 1, 0)
  BY IncrefIs DEF Solid, Counts
<1>2. R \in [Ino -> Nat]
  BY DEF Solid, Counts, Refs
<1>3. Counts(InodeIncref(f, n), Up(R, n), x, a, NoIno)
  BY <1>1, <1>2, UpDown, RecountRefs DEF Solid
<1>4. QED
  BY <1>1, <1>3, StillFresh DEF Solid, Recounts

LEMMA IncOpenSolid ==
  ASSUME NEW f, NEW R, NEW x, Solid(f, R, x, NoIno), NEW n \in Ino, f.ino[n].type # "NONE"
  PROVE  /\ Solid(InodeIncOpen(f, n), R, x, n)
         /\ Recounts(f, InodeIncOpen(f, n), n, 0, 1)
<1>1. Recounts(f, InodeIncOpen(f, n), n, 0, 1)
  BY IncOpenIs DEF Solid, Counts
<1>2. Counts(InodeIncOpen(f, n), R, x, n, NoIno)
  BY <1>1, RecountOpens DEF Solid
<1>3. QED
  BY <1>1, <1>2, StillFresh DEF Solid, Recounts

LEMMA DecrefCounts ==
  ASSUME NEW f, NEW R, NEW x, NEW a, Solid(f, R, x, a), NEW n \in Ino, R[n] > 0
  PROVE  LET g == [f EXCEPT !.ino[n].refcount = @ - 1]
         IN  /\ Counts(g, Down(R, n), x, a, n) /\ Fresh(g)
             /\ Recounts(f, g, n, -1, 0)
<1> DEFINE g == [f EXCEPT !.ino[n].refcount = @ - 1]
<1>1. R \in [Ino -> Nat] /\ f.ino[n].type # "NONE" /\ IsFs(f)
  <2>1. R \in [Ino -> Nat] /\ IsFs(f) /\ IsNode(f.ino[n])
    BY DEF Solid, Counts, Refs, IsFs
  <2>2. f.ino[n].refcount >= R[n] /\ f.ino[n].refcount \in Int /\ R[n] \in Nat
    BY <2>1, InUse DEF Solid, IsNode
  <2>3. QED
    BY <2>1, <2>2, InUse DEF Solid
<1>2. Recounts(f, g, n, -1, 0)
  BY <1>1, DecrefIs
<1> HIDE DEF g
<1>3. Counts(g, Down(R, n), x, a, n)
  <2>1. /\ Down(R, n) \in [Ino -> Nat] /\ Down(R, n)[n] = R[n] - 1 /\ R[n] \in Nat
        /\ \A m \in Ino : m # n => Down(R, n)[m] = R[m]
    BY <1>1, UpDown
  <2>2. Down(R, n)[n] = R[n] + (-1)
    BY <2>1
  <2>3. QED
    BY <1>2, <2>1, <2>2, RecountRefs DEF Solid
<1>4. Fresh(g)
  BY <1>2, StillFresh DEF Solid, Recounts
<1>5. QED
  BY <1>2, <1>3, <1>4 DEF g

LEMMA DecOpenCounts ==
  ASSUME NEW f, NEW R, NEW x, NEW n \in Ino, Solid(f, R, x, n)
  PROVE  LET g == [f EXCEPT !.ino[n].open_count = @ - 1]
         IN  /\ Counts(g, R, x, NoIno, n) /\ Fresh(g)
             /\ Recounts(f, g, n, 0, -1)
<1> DEFINE g == [f EXCEPT !.ino[n].open_count = @ - 1]
<1>1. f.ino[n].type # "NONE" /\ IsFs(f)
  BY InUse DEF Solid, Counts
<1>2. Recounts(f, g, n, 0, -1)
  BY <1>1, DecOpenIs
<1> HIDE DEF g
<1>3. Counts(g, R, x, NoIno, n)
  BY <1>2, RecountOpens DEF Solid
<1>4. Fresh(g)
  BY <1>2, StillFresh DEF Solid, Recounts
<1>5. QED
  BY <1>2, <1>3, <1>4 DEF g
-----------------------------------------------------------------------------
(* Directory entries, new inodes and file objects.                         *)

\* A directory's entries change, nothing else but its size.
Relinks(f, g, d) ==
  /\ IsFs(g) /\ Mild(f, g) /\ Still(f, g) /\ g.broken = f.broken
  /\ \A m \in Ino : m # d => g.ino[m] = f.ino[m]
  /\ g.ino[d].type = f.ino[d].type /\ g.ino[d].refcount = f.ino[d].refcount
  /\ g.ino[d].open_count = f.ino[d].open_count

\* The parts of the file system and of the directory after the change.
SizedFs(f, g, d, y) ==
  /\ g = [k \in FsFields |-> g[k]] /\ g.ino = [f.ino EXCEPT ![d] = y]
  /\ g.blocks = f.blocks + ToBlocks(y.size) - ToBlocks(f.ino[d].size)
  /\ g.file = f.file /\ g.cache = f.cache /\ g.cache_size = f.cache_size
  /\ g.called = f.called /\ g.broken = f.broken
DirNode(x, y, q) ==
  /\ y = [k \in NodeFields |-> y[k]] /\ y.dents = q /\ y.size = DirentSize * Len(q)
  /\ y.type = x.type /\ y.refcount = x.refcount /\ y.open_count = x.open_count
  /\ y.state = x.state /\ y.buf = x.buf /\ y.load = x.load

\* What is named more often is referred to less from elsewhere.
TakesOver(R, S, s, q) ==
  /\ S \in [Ino -> Nat]
  /\ \A n \in Ino : R[n] - S[n] = Cardinality(At(q, n)) - Cardinality(At(s, n))

LEMMA DirentsSize ==
  ASSUME NEW n \in Nat
  PROVE  /\ DirentSize * n \in Nat /\ DirentSize * (n + 1) = DirentSize * n + DirentSize
         /\ n > 0 => DirentSize * (n - 1) = DirentSize * n - DirentSize
                     /\ DirentSize * (n - 1) \in Nat
<1>1. DirentSize \in Nat
  BY SizesAssumption
<1>2. \A b \in Nat, c \in Nat : b * c \in Nat /\ b * (c + 1) = b * c + b
  OBVIOUS
<1>3. n > 0 => n - 1 \in Nat /\ n = (n - 1) + 1
  OBVIOUS
<1>4. n > 0 => DirentSize * ((n - 1) + 1) = DirentSize * (n - 1) + DirentSize
  BY <1>1, <1>2, <1>3
<1>5. QED
  BY <1>1, <1>2, <1>3, <1>4

LEMMA DirChange ==
  ASSUME NEW f, NEW R, NEW x, NEW a, Solid(f, R, x, a), NEW d \in Ino, f.ino[d].type = "DIR",
         NEW q \in Seq(Dent), NEW g, NEW y, SizedFs(f, g, d, y), DirNode(f.ino[d], y, q),
         NEW S, TakesOver(R, S, f.ino[d].dents, q)
  PROVE  Solid(g, S, x, a) /\ Relinks(f, g, d) /\ g.ino[d].dents = q
<1> DEFINE z == f.ino[d]
<1>1. IsFs(f) /\ IsNode(z) /\ DirNode(z, y, q) /\ z.type = "DIR"
  BY DEF Solid, Counts, IsFs
<1>2. \A k \in Ino : ToBlocks(f.ino[k].size) \in Nat
  BY <1>1, ToBlocksIs DEF IsFs, IsNode
<1>3. z.size = f.ino[d].size
  OBVIOUS
<1> HIDE DEF z
<1>4. y.size \in Nat /\ ToBlocks(y.size) \in Nat
  BY DirentsSize, ToBlocksIs, LenProperties DEF DirNode
<1>5. IsNode(y)
  <2>1. /\ y.refcount \in Int /\ y.open_count \in Int /\ y.dents \in Seq(Dent)
        /\ y.state \in States /\ IsSeq(y.buf) /\ IsLoad(y.load)
    BY <1>1 DEF IsNode, DirNode
  <2>2. /\ y = [k \in NodeFields |-> y[k]]
        /\ y.type = "DIR" /\ y.size = DirentSize * Len(y.dents)
    BY <1>1 DEF DirNode
  <2>3. QED
    BY <1>4, <2>1, <2>2 DEF IsNode
<1>6. g.blocks \in Int
  <2>1. f.blocks \in Int /\ ToBlocks(f.ino[d].size) \in Nat
    BY <1>1, <1>2 DEF IsFs
  <2>2. g.blocks = f.blocks + ToBlocks(y.size) - ToBlocks(f.ino[d].size)
    BY DEF SizedFs
  <2>3. QED
    BY <2>1, <2>2, <1>4
<1>7. IsFs(g) /\ g.ino[d] = y /\ \A m \in Ino : m # d => g.ino[m] = f.ino[m]
  <2>1. Edits(f, g, d, y)
    BY <1>5, <1>6 DEF Edits, SizedFs
  <2>2. QED
    BY <2>1, <1>1, EditsIs
<1>8. /\ g.file = f.file /\ g.cache = f.cache /\ g.cache_size = f.cache_size
      /\ g.called = f.called /\ g.broken = f.broken
      /\ g.blocks = f.blocks + ToBlocks(y.size) - ToBlocks(f.ino[d].size)
  BY DEF SizedFs
<1>9. /\ y.type = z.type /\ y.refcount = z.refcount /\ y.open_count = z.open_count
      /\ y.state = z.state /\ y.buf = z.buf /\ y.load = z.load /\ y.dents = q
  BY <1>1 DEF DirNode
<1>10. Mild(f, g)
  BY <1>7, <1>8, <1>9 DEF Mild, Quiet, z
<1>11. Still(f, g)
  BY <1>1, <1>7, <1>8, <1>9 DEF Still, OpenAt, z
<1>12. Relinks(f, g, d)
  BY <1>7, <1>8, <1>9, <1>10, <1>11 DEF Relinks, z
<1>13. Refs(g, S)
  <2> SUFFICES ASSUME NEW m \in Ino
               PROVE  /\ g.ino[m].refcount >= Names(g, m) + If1(m = Root) + S[m]
                      /\ g.broken = FALSE =>
                           g.ino[m].refcount = Names(g, m) + If1(m = Root) + S[m]
    BY DEF Refs, TakesOver
  <2>1. /\ f.ino[m].refcount >= Names(f, m) + If1(m = Root) + R[m]
        /\ f.broken = FALSE => f.ino[m].refcount = Names(f, m) + If1(m = Root) + R[m]
        /\ R[m] \in Nat /\ S[m] \in Nat /\ If1(m = Root) \in Nat
    BY DEF Solid, Counts, Refs, If1, TakesOver
  <2>2. SameDentsBut(f, g, d)
    BY <1>7 DEF SameDentsBut
  <2>3. /\ Names(f, m) \in Nat /\ Names(g, m) \in Nat
        /\ Names(g, m) = Names(f, m) - Cardinality(At(f.ino[d].dents, m))
                                     + Cardinality(At(g.ino[d].dents, m))
    BY <2>2, <1>1, <1>7, NamesChange
  <2>4. g.ino[d].dents = q
    BY <1>7, <1>9
  <2>5. Cardinality(At(q, m)) \in Nat /\ Cardinality(At(f.ino[d].dents, m)) \in Nat
    BY AtIs, <1>1 DEF IsNode, z
  <2>6. g.ino[m].refcount = f.ino[m].refcount /\ f.ino[m].refcount \in Int
    BY <1>1, <1>7, <1>9 DEF IsFs, IsNode, z
  <2>7. R[m] - S[m] = Cardinality(At(q, m)) - Cardinality(At(f.ino[d].dents, m))
    BY DEF TakesOver
  <2>8. Names(g, m) = Names(f, m) - Cardinality(At(f.ino[d].dents, m)) + Cardinality(At(q, m))
    BY <2>3, <2>4
  <2> DEFINE r == f.ino[m].refcount
             i == If1(m = Root)
  <2>9. /\ r >= Names(f, m) + i + R[m] => r >= Names(g, m) + i + S[m]
        /\ r = Names(f, m) + i + R[m] => r = Names(g, m) + i + S[m]
    <3> DEFINE r0 == R[m]
               r1 == S[m]
               n0 == Names(f, m)
               n1 == Names(g, m)
               c0 == Cardinality(At(f.ino[d].dents, m))
               c1 == Cardinality(At(q, m))
    <3>1. /\ r \in Int /\ i \in Nat /\ r0 \in Nat /\ r1 \in Nat /\ n0 \in Nat /\ n1 \in Nat
          /\ c0 \in Nat /\ c1 \in Nat /\ r0 - r1 = c1 - c0 /\ n1 = n0 - c0 + c1
      BY <2>1, <2>3, <2>5, <2>6, <2>7, <2>8
    <3> HIDE DEF r, i, r0, r1, n0, n1, c0, c1
    <3>2. n0 + i + r0 = n1 + i + r1
      BY <3>1
    <3>3. QED
      BY <3>2 DEF r, i, r0, r1, n0, n1
  <2>10. QED
    BY <2>1, <2>6, <2>9, <1>8
<1>14. Opens(g, x, a)
  <2>1. \A m \in Ino : g.ino[m].open_count = f.ino[m].open_count
    BY <1>7, <1>9 DEF z
  <2>2. QED
    BY <2>1, <1>8 DEF Solid, Counts, Opens, Standing
<1>15. Blocks(g)
  <2>1. SameSizesBut(f, g, d)
    BY <1>7 DEF SameSizesBut
  <2>2. /\ Cardinality(Pairs(BlocksOf(f))) \in Nat
        /\ Cardinality(Pairs(BlocksOf(g))) = Cardinality(Pairs(BlocksOf(f)))
             - ToBlocks(f.ino[d].size) + ToBlocks(g.ino[d].size)
    BY <2>1, <1>1, <1>7, BlocksChange
  <2>3. QED
    BY <2>2, <1>2, <1>4, <1>7, <1>8 DEF Solid, Counts, Blocks
<1>16. Busy(g, NoIno)
  BY <1>7, <1>9 DEF Solid, Counts, Busy, z
<1>17. Fresh(g)
  BY <1>11, StillFresh DEF Solid
<1>18. QED
  BY <1>7, <1>9, <1>12, <1>13, <1>14, <1>15, <1>16, <1>17 DEF Solid, Counts

LEMMA ResizeIs ==
  ASSUME NEW f, IsFs(f), NEW d \in Ino, f.ino[d].type = "DIR", NEW q \in Seq(Dent),
         NEW diff \in Int, DirentSize * Len(f.ino[d].dents) + diff = DirentSize * Len(q)
  PROVE  LET e == [f EXCEPT !.ino[d].dents = q]
             y == [f.ino[d] EXCEPT !.dents = q, !.size = f.ino[d].size + diff]
             g == DirResize(e, d, diff)
         IN  SizedFs(f, g, d, y) /\ DirNode(f.ino[d], y, q)
<1> DEFINE e == [f EXCEPT !.ino[d].dents = q]
           z == f.ino[d]
           y == [f.ino[d] EXCEPT !.dents = q, !.size = f.ino[d].size + diff]
           g == DirResize(e, d, diff)
<1> SUFFICES SizedFs(f, g, d, y) /\ DirNode(z, y, q)
  OBVIOUS
<1>1. IsNode(z) /\ z.size = DirentSize * Len(z.dents)
      /\ DirentSize * Len(z.dents) + diff = DirentSize * Len(q)
  BY DEF IsFs, IsNode
<1>2. /\ e = [k \in FsFields |-> e[k]] /\ e.ino = [f.ino EXCEPT ![d] = [z EXCEPT !.dents = q]]
      /\ e.file = f.file /\ e.blocks = f.blocks /\ e.cache = f.cache
      /\ e.cache_size = f.cache_size /\ e.called = f.called /\ e.broken = f.broken
  BY DEF IsFs, FsFields
<1>3. f.ino = [n \in Ino |-> f.ino[n]]
  BY DEF IsFs
<1>4. e.ino[d] = [z EXCEPT !.dents = q] /\ e.ino = [n \in Ino |-> e.ino[n]]
  BY <1>2, <1>3
<1> HIDE DEF e
<1>5. [z EXCEPT !.dents = q].size = z.size
  BY <1>1 DEF IsNode, NodeFields
<1>6. /\ g = [k \in FsFields |-> g[k]]
      /\ g.ino = [e.ino EXCEPT ![d] = [e.ino[d] EXCEPT !.size = e.ino[d].size + diff]]
      /\ g.blocks = e.blocks + ToBlocks(e.ino[d].size + diff) - ToBlocks(e.ino[d].size)
      /\ g.file = e.file /\ g.cache = e.cache
      /\ g.cache_size = e.cache_size /\ g.called = e.called /\ g.broken = e.broken
  BY <1>2 DEF DirResize, FsFields
<1> HIDE DEF g
<1>7. [e.ino[d] EXCEPT !.size = e.ino[d].size + diff] = y
  BY <1>1, <1>4, <1>5 DEF IsNode, NodeFields
<1>8. y.size = z.size + diff
  BY <1>1 DEF IsNode, NodeFields
<1>9. DirNode(z, y, q)
  BY <1>1, <1>8 DEF IsNode, NodeFields, DirNode
<1> HIDE DEF y
<1>10. g.ino = [f.ino EXCEPT ![d] = y]
  BY <1>2, <1>3, <1>4, <1>6, <1>7
<1>11. SizedFs(f, g, d, y)
  <2>1. e.ino[d].size = z.size
    BY <1>4, <1>5
  <2>2. y.size = e.ino[d].size + diff
    BY <1>8, <2>1
  <2> HIDE DEF z
  <2>3. g.blocks = f.blocks + ToBlocks(y.size) - ToBlocks(z.size)
    BY <1>2, <1>6, <2>1, <2>2
  <2>4. z = f.ino[d]
    BY DEF z
  <2>5. /\ g = [k \in FsFields |-> g[k]]
        /\ g.file = f.file /\ g.cache = f.cache /\ g.cache_size = f.cache_size
        /\ g.called = f.called /\ g.broken = f.broken
    BY <1>2, <1>6
  <2>6. QED
    BY <1>10, <2>3, <2>4, <2>5 DEF SizedFs
<1>12. QED
  BY <1>9, <1>11

\* An entry takes over a reference to what it names.
LEMMA DirAddIs ==
  ASSUME NEW f, NEW R, NEW x, NEW a, Solid(f, R, x, a), NEW d \in Ino, f.ino[d].type = "DIR",
         NEW name \in AskName, NEW n1 \in Ino, R[n1] > 0
  PROVE  LET g == InodeDirAdd(f, d, name, n1)
         IN  /\ Solid(g, Down(R, n1), x, a) /\ Relinks(f, g, d)
             /\ g.ino[d].dents = Append(f.ino[d].dents, [name |-> name, ino |-> n1])
<1> DEFINE q == Append(f.ino[d].dents, [name |-> name, ino |-> n1])
           e == [f EXCEPT !.ino[d].dents = q]
           y == [f.ino[d] EXCEPT !.dents = q, !.size = f.ino[d].size + DirentSize]
           g == DirResize(e, d, DirentSize)
<1>1. IsFs(f) /\ f.ino[d].dents \in Seq(Dent) /\ R \in [Ino -> Nat]
  BY DEF Solid, Counts, IsFs, IsNode, Refs
<1>2. [name |-> name, ino |-> n1] \in Dent
  BY DEF Dent
<1>3. q \in Seq(Dent) /\ Len(q) = Len(f.ino[d].dents) + 1
  BY <1>1, <1>2, AppendProperties
<1>4. InodeDirAdd(f, d, name, n1) = g
  BY DEF InodeDirAdd
<1>5. \A n \in Ino : Cardinality(At(q, n)) = Cardinality(At(f.ino[d].dents, n))
                                              + (IF n1 = n THEN 1 ELSE 0)
  <2> SUFFICES ASSUME NEW n \in Ino
               PROVE  Cardinality(At(q, n)) = Cardinality(At(f.ino[d].dents, n))
                                                + (IF n1 = n THEN 1 ELSE 0)
    OBVIOUS
  <2> DEFINE de == [name |-> name, ino |-> n1]
  <2>1. de.ino = n1 /\ de \in Dent
    BY <1>2
  <2> HIDE DEF de
  <2>2. Cardinality(At(Append(f.ino[d].dents, de), n))
          = Cardinality(At(f.ino[d].dents, n)) + (IF de.ino = n THEN 1 ELSE 0)
    BY <2>1, <1>1, AtAppend
  <2>3. QED
    BY <2>1, <2>2 DEF de
<1>6. \A n \in Ino : Cardinality(At(f.ino[d].dents, n)) \in Nat
  BY <1>1, AtIs
<1> HIDE DEF q
<1>7. SizedFs(f, g, d, y) /\ DirNode(f.ino[d], y, q)
  <2>1. DirentSize * Len(f.ino[d].dents) + DirentSize = DirentSize * Len(q)
    BY <1>1, <1>3, DirentsSize, LenProperties
  <2>2. DirentSize \in Int
    BY SizesAssumption
  <2>3. QED
    BY <2>1, <2>2, <1>1, <1>3, ResizeIs, ZenonT(30)
<1> HIDE DEF g, y, e
<1>8. Down(R, n1) \in [Ino -> Nat]
      /\ \A n \in Ino : R[n] - Down(R, n1)[n] = (IF n1 = n THEN 1 ELSE 0)
  <2>1. /\ Down(R, n1) \in [Ino -> Nat] /\ Down(R, n1)[n1] = R[n1] - 1
        /\ \A n \in Ino : n # n1 => Down(R, n1)[n] = R[n]
    BY <1>1, UpDown
  <2>2. \A n \in Ino : R[n] \in Nat
    BY <1>1
  <2>3. QED
    BY <2>1, <2>2
<1>9. TakesOver(R, Down(R, n1), f.ino[d].dents, q)
  BY <1>5, <1>6, <1>8 DEF TakesOver
<1>10. Solid(g, Down(R, n1), x, a) /\ Relinks(f, g, d) /\ g.ino[d].dents = q
  BY <1>3, <1>7, <1>9, DirChange
<1>11. QED
  BY <1>4, <1>10 DEF q

FirstNamed(q, name) == Min({k \in DOMAIN q : q[k].name = name})

\* An entry that goes leaves the reference that it was.
LEMMA DirRemoveIs ==
  ASSUME NEW f, NEW R, NEW x, NEW a, Solid(f, R, x, a), NEW d \in Ino, NEW name,
         InodeSearch(f, d, name) # NoIno
  PROVE  LET g == InodeDirentDeleteNoDecref(f, d, name)
             n1 == InodeSearch(f, d, name)
             pos == FirstNamed(f.ino[d].dents, name)
         IN  /\ n1 \in Ino /\ f.ino[d].type = "DIR"
             /\ Solid(g, Up(R, n1), x, a) /\ Relinks(f, g, d)
             /\ pos \in 1 .. Len(f.ino[d].dents) /\ f.ino[d].dents[pos].name = name
             /\ f.ino[d].dents[pos].ino = n1
             /\ g.ino[d].dents = RemoveAt(f.ino[d].dents, pos)
<1> DEFINE s == f.ino[d].dents
           n1 == InodeSearch(f, d, name)
           pos == FirstNamed(s, name)
           q == WithoutDent(s, name)
           e == [f EXCEPT !.ino[d].dents = q]
           y == [f.ino[d] EXCEPT !.dents = q, !.size = f.ino[d].size + -DirentSize]
           g == DirResize(e, d, -DirentSize)
<1>1. IsFs(f) /\ s \in Seq(Dent) /\ R \in [Ino -> Nat]
  BY ZenonT(30) DEF Solid, Counts, IsFs, IsNode, Refs
<1>2. Finds(f, d, name, n1) /\ n1 # NoIno
  BY <1>1, SearchFinds
<1>3. n1 = s[pos].ino
  BY <1>2, ZenonT(30) DEF InodeSearch, FirstNamed
<1>4. InodeDirentDeleteNoDecref(f, d, name) = g
  BY DEF InodeDirentDeleteNoDecref
<1>5. f.ino[d].type = "DIR" /\ \E k \in DOMAIN s : s[k].name = name
  BY <1>2 DEF Finds
<1>6. pos \in 1 .. Len(s) /\ s[pos].name = name /\ q = RemoveAt(s, pos)
  BY <1>1, <1>5, SearchIs DEF FirstNamed
<1>7. n1 \in Ino
  BY <1>2 DEF Finds
<1> HIDE DEF n1, pos
<1>8. q \in Seq(Dent) /\ Len(q) = Len(s) - 1
  BY <1>1, <1>6, RemoveAtIs
<1>9. \A n \in Ino : Cardinality(At(q, n)) = Cardinality(At(s, n)) - (IF n1 = n THEN 1 ELSE 0)
  BY <1>1, <1>3, <1>6, AtRemove
<1>10. \A n \in Ino : Cardinality(At(s, n)) \in Nat
  BY <1>1, AtIs
<1> HIDE DEF q
<1>11. SizedFs(f, g, d, y) /\ DirNode(f.ino[d], y, q)
  <2>1. DirentSize * Len(s) + -DirentSize = DirentSize * Len(q)
    <3>1. Len(s) \in Nat /\ Len(s) > 0
      BY <1>1, <1>6, LenProperties
    <3>2. DirentSize * (Len(s) - 1) = DirentSize * Len(s) - DirentSize /\ DirentSize * Len(s) \in Nat
      BY <3>1, DirentsSize
    <3>3. DirentSize \in Nat
      BY SizesAssumption
    <3>4. DirentSize * Len(s) + -DirentSize = DirentSize * Len(s) - DirentSize
      BY <3>2, <3>3
    <3>5. QED
      BY <3>2, <3>4, <1>8
  <2>2. -DirentSize \in Int
    BY SizesAssumption
  <2>3. QED
    BY <2>1, <2>2, <1>1, <1>5, <1>8, ResizeIs, ZenonT(30)
<1> HIDE DEF g, y, e
<1>12. Up(R, n1) \in [Ino -> Nat]
       /\ \A n \in Ino : Up(R, n1)[n] = R[n] + (IF n1 = n THEN 1 ELSE 0)
  BY <1>1, <1>7, UpDown
<1>13. TakesOver(R, Up(R, n1), s, q)
  BY <1>1, <1>9, <1>10, <1>12 DEF TakesOver
<1>14. Solid(g, Up(R, n1), x, a) /\ Relinks(f, g, d) /\ g.ino[d].dents = q
  BY <1>5, <1>8, <1>11, <1>13, DirChange
<1>15. QED
  BY <1>3, <1>4, <1>5, <1>6, <1>7, <1>14 DEF n1, pos
\* A free inode is used.
News(f, g, n, type) ==
  /\ IsFs(g) /\ g.file = f.file /\ g.broken = f.broken
  /\ n \in Ino /\ n # Root /\ f.ino[n].type = "NONE"
  /\ g.ino[n] = [NoInode EXCEPT !.type = type, !.refcount = 1]
  /\ g.ino[n].type = type /\ g.ino[n].dents = <<>> /\ g.ino[n].load.cb = NoFile
  /\ g.ino[n].state = "LOCAL" /\ g.ino[n].size = 0
  /\ \A m \in Ino : m # n => g.ino[m] = f.ino[m]
  /\ g.called = f.called

NewNode(type) == [NoInode EXCEPT !.type = type, !.refcount = 1]

LEMMA NewNodeIs ==
  ASSUME NEW type \in FileTypes
  PROVE  LET x == NewNode(type)
         IN  /\ IsNode(x) /\ x.type = type /\ x.refcount = 1 /\ x.open_count = 0
             /\ x.dents = <<>> /\ x.state = "LOCAL" /\ x.size = 0 /\ x.buf = <<>>
             /\ x.load = NoLoad
<1> DEFINE z == NoInode
           x == NewNode(type)
<1>1. /\ IsNode(z) /\ z.type = "NONE" /\ z.refcount = 0 /\ z.open_count = 0
      /\ z.dents = <<>> /\ z.state = "LOCAL" /\ z.size = 0 /\ z.buf = <<>> /\ z.load = NoLoad
  BY NoInodeIs
<1>2. x = [z EXCEPT !.type = type, !.refcount = 1]
  BY DEF NewNode
<1> HIDE DEF z, x
<1>3. /\ x = [k \in NodeFields |-> x[k]]
      /\ x.type = type /\ x.refcount = 1 /\ x.open_count = z.open_count
      /\ x.dents = z.dents /\ x.state = z.state /\ x.size = z.size /\ x.buf = z.buf
      /\ x.load = z.load
  BY <1>1, <1>2 DEF IsNode, NodeFields
<1>4. x.type # "NONE"
  BY <1>3 DEF FileTypes
<1>5. Len(<<>>) = 0 /\ DirentSize * 0 = 0
  BY SizesAssumption
<1>6. IsNode(x)
  <2>1. /\ x.refcount \in Int /\ x.open_count \in Int /\ x.dents \in Seq(Dent)
        /\ x.state \in States /\ x.size \in Nat /\ IsSeq(x.buf) /\ IsLoad(x.load)
    BY <1>1, <1>3 DEF IsNode
  <2>2. x.dents = <<>> /\ x.size = DirentSize * Len(x.dents)
    BY <1>1, <1>3, <1>5
  <2>3. QED
    BY <1>3, <1>4, <2>1, <2>2 DEF IsNode
<1>7. QED
  BY <1>1, <1>3, <1>6 DEF x

LEMMA NewInoIs ==
  ASSUME NEW f, Allocated(f) # Ino
  PROVE  NewIno(f) \in Ino /\ f.ino[NewIno(f)].type = "NONE"
<1>1. Ino \ Allocated(f) \in SUBSET Nat /\ Ino \ Allocated(f) # {}
  BY InoAssumption DEF Allocated
<1>2. NewIno(f) \in Ino \ Allocated(f)
  BY <1>1, MinIs DEF NewIno
<1>3. QED
  BY <1>2 DEF Allocated

LEMMA NewIs ==
  ASSUME NEW f, NEW R, NEW x, NEW a, Solid(f, R, x, a), Allocated(f) # Ino, NEW type \in FileTypes
  PROVE  /\ News(f, InodeNew(f, type), NewIno(f), type)
         /\ Solid(InodeNew(f, type), Up(R, NewIno(f)), x, a)
<1> DEFINE n == NewIno(f)
           y == NewNode(type)
           g == InodeNew(f, type)
<1>1. n \in Ino /\ f.ino[n].type = "NONE"
  BY NewInoIs
<1>2. IsFs(f) /\ IsNode(f.ino[n]) /\ R \in [Ino -> Nat]
  BY <1>1 DEF Solid, Counts, IsFs, Refs
<1>3. /\ IsNode(y) /\ y.type = type /\ y.refcount = 1 /\ y.open_count = 0
      /\ y.dents = <<>> /\ y.state = "LOCAL" /\ y.size = 0 /\ y.buf = <<>>
      /\ y.load = NoLoad
  BY NewNodeIs
<1>4. /\ g = [k \in FsFields |-> g[k]] /\ g.ino = [f.ino EXCEPT ![n] = y] 
      /\ g.file = f.file /\ g.blocks = f.blocks /\ g.cache = f.cache
      /\ g.cache_size = f.cache_size /\ g.called = f.called /\ g.broken = f.broken
  BY <1>2 DEF InodeNew, IsFs, FsFields, NewNode
<1>5. y = [NoInode EXCEPT !.type = type, !.refcount = 1]
  BY DEF NewNode
<1> HIDE DEF n, y, g
<1>6. /\ f.ino[n].dents = <<>> /\ f.ino[n].size = 0 /\ f.ino[n].refcount = 0
      /\ f.ino[n].open_count = 0
  BY <1>1, <1>2 DEF IsNode
<1>7. n # Root
  BY <1>1, <1>6, InUse DEF Solid
<1>8. IsFs(g) /\ g.ino[n] = y /\ \A m \in Ino : m # n => g.ino[m] = f.ino[m]
  <2>1. Edits(f, g, n, y)
    BY <1>2, <1>3, <1>4 DEF Edits, IsFs
  <2>2. QED
    BY <2>1, <1>1, <1>2, EditsIs
<1>9. News(f, g, n, type)
  BY <1>1, <1>3, <1>4, <1>5, <1>7, <1>8, NoLoadIs DEF News
<1>10. SameDents(f, g)
  BY <1>3, <1>6, <1>8 DEF SameDents
<1>11. \A m \in Ino : Names(g, m) = Names(f, m) /\ Names(f, m) \in Nat
  BY <1>2, <1>10, NamesSame, NamedFinite
<1>12. Refs(g, Up(R, n))
  <2>1. /\ Up(R, n) \in [Ino -> Nat] /\ Up(R, n)[n] = R[n] + 1
        /\ \A m \in Ino : m # n => Up(R, n)[m] = R[m]
    BY <1>1, <1>2, UpDown
  <2>2. \A m \in Ino : /\ f.ino[m].refcount >= Names(f, m) + If1(m = Root) + R[m]
                       /\ f.broken = FALSE =>
                            f.ino[m].refcount = Names(f, m) + If1(m = Root) + R[m]
                       /\ R[m] \in Nat /\ If1(m = Root) \in Nat
    BY <1>2 DEF Solid, Counts, Refs, If1
  <2>3. g.ino[n].refcount = f.ino[n].refcount + 1
    BY <1>3, <1>6, <1>8
  <2>4. \A m \in Ino : m # n => g.ino[m].refcount = f.ino[m].refcount
    BY <1>8
  <2>5. /\ g.ino[n].refcount >= Names(g, n) + If1(n = Root) + Up(R, n)[n]
        /\ g.broken = FALSE =>
             g.ino[n].refcount = Names(g, n) + If1(n = Root) + Up(R, n)[n]
    <3>1. /\ Names(f, n) \in Nat /\ Names(g, n) = Names(f, n)
          /\ f.ino[n].refcount >= Names(f, n) + If1(n = Root) + R[n]
          /\ f.broken = FALSE => f.ino[n].refcount = Names(f, n) + If1(n = Root) + R[n]
          /\ R[n] \in Nat /\ If1(n = Root) \in Nat
      BY <1>1, <1>11, <2>2
    <3>2. f.ino[n].refcount = 0 /\ g.ino[n].refcount = 1 /\ Up(R, n)[n] = R[n] + 1
      BY <1>6, <2>1, <2>3
    <3>3. Names(f, n) = 0 /\ If1(n = Root) = 0 /\ R[n] = 0
      BY <3>1, <3>2
    <3>4. QED
      BY <3>1, <3>2, <3>3
  <2>6. QED
    BY <1>4, <1>11, <2>1, <2>2, <2>4, <2>5 DEF Refs
<1>13. Opens(g, x, a)
  <2>1. \A m \in Ino : g.ino[m].open_count = f.ino[m].open_count
    BY <1>3, <1>6, <1>8
  <2>2. QED
    BY <2>1, <1>4 DEF Solid, Counts, Opens, Standing
<1>14. Blocks(g)
  <2>1. BlocksOf(g) = BlocksOf(f)
    <3>1. \A m \in Ino : g.ino[m].size = f.ino[m].size
      BY <1>3, <1>6, <1>8
    <3>2. QED
      BY <3>1 DEF BlocksOf
  <2>2. QED
    BY <2>1, <1>4 DEF Solid, Counts, Blocks
<1>15. Busy(g, NoIno)
  BY <1>3, <1>8 DEF Solid, Counts, Busy
<1>16. Fresh(g)
  <2> SUFFICES ASSUME g.broken = FALSE
               PROVE  Cached(g) /\ \A m \in Ino : NodeHere(g, m)
    BY DEF Fresh
  <2>1. Cached(f) /\ \A m \in Ino : NodeHere(f, m)
    BY <1>4 DEF Solid, Fresh
  <2>2. f.ino[n].state = "LOCAL"
    BY <1>1, <2>1 DEF NodeHere
  <2>3. \A m \in Ino : m # n => NodeHere(g, m)
    BY <1>4, <1>8, <2>1, HereStays
  <2>4. NodeHere(g, n)
    <3>1. Len(y.buf) = 0
      BY <1>3
    <3>2. QED
      BY <1>3, <1>8, <3>1 DEF NodeHere, InMemory
  <2>5. \A m \in Ino : /\ g.ino[m].state = "LOADED" <=> f.ino[m].state = "LOADED"
                       /\ g.ino[m].state = "LOADED" => g.ino[m].size = f.ino[m].size
    BY <1>3, <1>8, <2>2
  <2>6. Cached(g)
    BY <1>4, <2>1, <2>5, CachedStays
  <2>7. QED
    BY <2>3, <2>4, <2>6
<1>17. QED
  BY <1>8, <1>9, <1>12, <1>13, <1>14, <1>15, <1>16 DEF Solid, Counts, n, g

\* A file object that stands for an inode can be looked at as on its way.
LEMMA OpensAs ==
  ASSUME NEW f, IsFs(f), NEW o \in FsFile
  PROVE  /\ f.file[o].ino \in Ino => (Opens(f, NoFile, NoIno) <=> Opens(f, o, f.file[o].ino))
         /\ f.file[o].ino = NoIno => \A b : Opens(f, NoFile, b) <=> Opens(f, o, b)
<1>1. \A n \in Ino : n = f.file[o].ino =>
        Cardinality(Standing(f, n, NoFile)) = Cardinality(Standing(f, n, o)) + 1
  <2> SUFFICES ASSUME NEW n \in Ino, n = f.file[o].ino
               PROVE  Cardinality(Standing(f, n, NoFile)) = Cardinality(Standing(f, n, o)) + 1
    OBVIOUS
  <2>1. Standing(f, n, NoFile) = Standing(f, n, o) \union {o} /\ o \notin Standing(f, n, o)
    BY FsFileAssumption DEF Standing
  <2>2. QED
    BY <2>1, StandingIs, FS_AddElement
<1>2. \A n \in Ino : n # f.file[o].ino => Standing(f, n, NoFile) = Standing(f, n, o)
  BY FsFileAssumption DEF Standing
<1>3. \A n \in Ino : \A z : Cardinality(Standing(f, n, z)) \in Nat
  BY StandingIs
<1>4. \A n \in Ino : f.ino[n].open_count \in Int
  BY DEF IsFs, IsNode
<1>5. ASSUME f.file[o].ino \in Ino
      PROVE  Opens(f, NoFile, NoIno) <=> Opens(f, o, f.file[o].ino)
  BY <1>1, <1>2, <1>3, <1>4, <1>5, InoAssumption DEF Opens, If1
<1>6. ASSUME f.file[o].ino = NoIno, NEW b
      PROVE  Opens(f, NoFile, b) <=> Opens(f, o, b)
  BY <1>2, <1>6, InoAssumption DEF Opens
<1>7. QED
  BY <1>5, <1>6

\* A file object changes.
SetsFile(f, g, o, z) ==
  /\ g = [k \in FsFields |-> g[k]] /\ g.file = [f.file EXCEPT ![o] = z] /\ IsFile(z)
  /\ g.ino = f.ino /\ g.blocks = f.blocks /\ g.cache = f.cache /\ g.cache_size = f.cache_size
  /\ g.called = f.called /\ g.broken = f.broken
MayOpen(f, z) ==
  f.broken = FALSE /\ z.is_opened = TRUE /\ z.ino # NoIno =>
    OpenAt(f, z.ino) \/ f.ino[z.ino].type # "REG" \/ InMemory(f.ino[z.ino])

LEMMA SetFileIs ==
  ASSUME NEW f, NEW R, NEW o \in FsFile, NEW b, Solid(f, R, o, b), NEW z, NEW g,
         SetsFile(f, g, o, z), MayOpen(f, z)
  PROVE  /\ Solid(g, R, o, b)
         /\ g.file[o] = z /\ \A p \in FsFile : p # o => g.file[p] = f.file[p]
<1>1. IsFs(f)
  BY DEF Solid, Counts
<1>2. g.file[o] = z /\ \A p \in FsFile : p # o => g.file[p] = f.file[p]
  BY <1>1 DEF SetsFile, IsFs
<1>3. /\ g.ino = f.ino /\ g.blocks = f.blocks /\ g.cache = f.cache
      /\ g.cache_size = f.cache_size /\ g.called = f.called /\ g.broken = f.broken
  BY DEF SetsFile
<1>4. IsFs(g)
  <2>1. g.file = [p \in FsFile |-> g.file[p]] /\ g = [k \in FsFields |-> g[k]]
    BY <1>1 DEF SetsFile, IsFs
  <2>2. \A p \in FsFile : IsFile(g.file[p])
    BY <1>1, <1>2 DEF SetsFile, IsFs
  <2>3. QED
    BY <1>1, <1>3, <2>1, <2>2 DEF IsFs
<1>5. NamedAt(g, 0) = NamedAt(f, 0) /\ BlocksOf(g) = BlocksOf(f)
      /\ \A n : Names(g, n) = Names(f, n)
  BY <1>3 DEF NamedAt, BlocksOf, Names
<1>6. Refs(g, R) /\ Blocks(g) /\ Busy(g, NoIno)
  BY <1>3, <1>5 DEF Solid, Counts, Refs, Blocks, Busy
<1>7. Opens(g, o, b)
  <2>1. \A n : Standing(g, n, o) = Standing(f, n, o)
    BY <1>2 DEF Standing
  <2>2. QED
    BY <2>1, <1>3 DEF Solid, Counts, Opens
<1>8. Fresh(g)
  <2> SUFFICES ASSUME g.broken = FALSE
               PROVE  Cached(g) /\ \A m \in Ino : NodeHere(g, m)
    BY DEF Fresh
  <2>1. Cached(f) /\ \A m \in Ino : NodeHere(f, m)
    BY <1>3 DEF Solid, Fresh
  <2>2. Cached(g)
    BY <1>3, <2>1, CachedStays
  <2>3. ASSUME NEW m \in Ino
        PROVE  NodeHere(g, m)
    <3>1. ASSUME f.ino[m].type = "REG", OpenAt(g, m)
          PROVE  InMemory(f.ino[m])
      <4>1. PICK p \in FsFile : g.file[p].is_opened = TRUE /\ g.file[p].ino = m
        BY <3>1 DEF OpenAt
      <4>2. CASE p = o
        <5>1. OpenAt(f, m) \/ InMemory(f.ino[m])
          BY <1>2, <1>3, <3>1, <4>1, <4>2, InoAssumption DEF MayOpen
        <5>2. QED
          BY <5>1, <3>1, <2>1 DEF NodeHere
      <4>3. CASE p # o
        BY <1>2, <3>1, <4>1, <4>3, <2>1 DEF NodeHere, OpenAt
      <4>4. QED
        BY <4>2, <4>3
    <3>2. QED
      BY <1>3, <2>1, <3>1 DEF NodeHere
  <2>4. QED
    BY <2>2, <2>3
<1>9. QED
  BY <1>2, <1>4, <1>6, <1>7, <1>8 DEF Solid, Counts
-----------------------------------------------------------------------------
(* An inode that nothing refers to is freed.                               *)

Frees(f, g, n) ==
  /\ IsFs(g) /\ g.file = f.file /\ g.blocks = f.blocks - ToBlocks(f.ino[n].size)
  /\ g.ino[n] = NoInode
  /\ \A m \in Ino : m # n => SameNode(f.ino[m], g.ino[m])
  /\ g.broken = FALSE => f.broken = FALSE /\ f.ino[n].dents = <<>>
  /\ Quiet(f) => g.called = f.called

\* The last thing that InodeFree does, of e to g.
Gone(e, g, n) ==
  /\ g = [k \in FsFields |-> g[k]] /\ g.ino = [e.ino EXCEPT ![n] = NoInode]
  /\ g.file = e.file /\ g.blocks = e.blocks /\ g.cache = e.cache
  /\ g.cache_size = e.cache_size /\ g.called = e.called /\ g.broken \in BOOLEAN
  /\ g.broken = FALSE <=> e.broken = FALSE /\ e.ino[n].dents = <<>>

LEMMA GoneIs ==
  ASSUME NEW e, IsFs(e), NEW n \in Ino
  PROVE  Gone(e, InodeGone(e, n), n)
<1> DEFINE c == e.broken
           d == e.ino[n].dents # <<>>
           g == InodeGone(e, n)
<1>1. /\ g = [k \in FsFields |-> g[k]] /\ g.ino = [e.ino EXCEPT ![n] = NoInode]
      /\ g.file = e.file /\ g.blocks = e.blocks /\ g.cache = e.cache
      /\ g.cache_size = e.cache_size /\ g.called = e.called /\ g.broken = (c \/ d)
  BY DEF IsFs, FsFields, InodeGone
<1>2. c \in BOOLEAN /\ d \in BOOLEAN
  BY DEF IsFs
<1>3. (c \/ d) \in BOOLEAN /\ ((c \/ d) = FALSE <=> c = FALSE /\ d = FALSE)
  BY <1>2
<1>4. d = FALSE <=> e.ino[n].dents = <<>>
  OBVIOUS
<1> HIDE DEF c, d, g
<1>5. g.broken \in BOOLEAN /\ (g.broken = FALSE <=> c = FALSE /\ d = FALSE)
  BY <1>1, <1>3
<1>6. QED
  BY <1>1, <1>4, <1>5 DEF Gone, c, g

LEMMA GoneFs ==
  ASSUME NEW e, IsFs(e), NEW n \in Ino, NEW g, Gone(e, g, n)
  PROVE  IsFs(g) /\ g.ino[n] = NoInode /\ \A m \in Ino : m # n => g.ino[m] = e.ino[m]
<1>1. g.ino[n] = NoInode /\ \A m \in Ino : m # n => g.ino[m] = e.ino[m]
  BY DEF IsFs, Gone
<1>2. g.ino = [m \in Ino |-> g.ino[m]]
  BY DEF IsFs, Gone
<1>3. \A m \in Ino : IsNode(g.ino[m])
  BY <1>1, NoInodeIs DEF IsFs
<1>4. QED
  BY <1>1, <1>2, <1>3 DEF IsFs, Gone

\* What was in memory before and had been loaded is not any more.
LEMMA GoneFresh ==
  ASSUME NEW e, IsFs(e), NEW n \in Ino, NEW g, Gone(e, g, n), Fresh(e),
         e.ino[n].state # "LOADED"
  PROVE  Fresh(g)
<1> SUFFICES ASSUME g.broken = FALSE
             PROVE  Cached(g) /\ \A m \in Ino : NodeHere(g, m)
  BY DEF Fresh
<1>1. Cached(e) /\ \A m \in Ino : NodeHere(e, m)
  BY DEF Gone, Fresh
<1>2. g.ino[n] = NoInode /\ \A m \in Ino : m # n => g.ino[m] = e.ino[m]
  BY GoneFs
<1>3. \A m \in Ino : m # n => NodeHere(g, m)
  BY <1>1, <1>2, HereStays DEF Gone
<1>4. NodeHere(g, n)
  BY <1>2, NoInodeIs DEF NodeHere
<1>5. \A m \in Ino : /\ g.ino[m].state = "LOADED" <=> e.ino[m].state = "LOADED"
                     /\ g.ino[m].state = "LOADED" => g.ino[m].size = e.ino[m].size
  BY <1>2, NoInodeIs
<1>6. Cached(g)
  BY <1>1, <1>5, CachedStays DEF Gone
<1>7. QED
  BY <1>3, <1>4, <1>6

\* The blocks are given back.
Freed(f, n) == [f EXCEPT !.blocks = @ - ToBlocks(f.ino[n].size)]

LEMMA FreedIs ==
  ASSUME NEW f, IsFs(f), NEW n \in Ino, Fresh(f)
  PROVE  LET e == Freed(f, n)
         IN  /\ IsFs(e) /\ Fresh(e) /\ e.ino = f.ino /\ e.file = f.file /\ e.cache = f.cache
             /\ e.cache_size = f.cache_size /\ e.called = f.called /\ e.broken = f.broken
             /\ e.blocks = f.blocks - ToBlocks(f.ino[n].size)
<1> DEFINE e == Freed(f, n)
<1>1. /\ e = [k \in FsFields |-> e[k]]
      /\ e.ino = f.ino /\ e.file = f.file /\ e.cache = f.cache
      /\ e.cache_size = f.cache_size /\ e.called = f.called /\ e.broken = f.broken
      /\ e.blocks = f.blocks - ToBlocks(f.ino[n].size)
  BY DEF IsFs, FsFields, Freed
<1> HIDE DEF e
<1>2. e.blocks \in Int
  <2>1. f.ino[n].size \in Nat /\ f.blocks \in Int
    BY DEF IsFs, IsNode
  <2>2. ToBlocks(f.ino[n].size) \in Nat
    BY <2>1, ToBlocksIs
  <2>3. QED
    BY <1>1, <2>1, <2>2
<1>3. IsFs(e)
  BY <1>1, <1>2 DEF IsFs
<1>4. Fresh(e)
  <2>1. Still(f, e)
    BY <1>1 DEF Still, OpenAt
  <2>2. QED
    BY <2>1, StillFresh
<1>5. QED
  BY <1>1, <1>3, <1>4 DEF e

\* A file in the cache leaves it.
LEMMA FreeLoaded ==
  ASSUME NEW f, IsFs(f), NEW n \in Ino, Fresh(f), f.ino[n].state = "LOADED"
  PROVE  Frees(f, InodeFree(f, n), n) /\ Fresh(InodeFree(f, n))
<1> DEFINE d == Freed(f, n)
           e == [d EXCEPT !.cache = RemoveFirst(@, n), !.cache_size = @ - f.ino[n].size]
           g == InodeGone(e, n)
<1>1. InodeFree(f, n) = g
  BY DEF InodeFree, Freed
<1>2. /\ IsFs(d) /\ d.ino = f.ino /\ d.file = f.file /\ d.cache = f.cache
      /\ d.cache_size = f.cache_size /\ d.called = f.called /\ d.broken = f.broken
      /\ d.blocks = f.blocks - ToBlocks(f.ino[n].size)
  BY FreedIs
<1> HIDE DEF d
<1>3. /\ e = [k \in FsFields |-> e[k]] /\ e.ino = d.ino /\ e.file = d.file
      /\ e.cache = RemoveFirst(d.cache, n) /\ e.cache_size = d.cache_size - f.ino[n].size
      /\ e.called = d.called /\ e.broken = d.broken /\ e.blocks = d.blocks
  BY <1>2 DEF IsFs, FsFields
<1> HIDE DEF e
<1>4. IsFs(e)
  <2>1. e.cache \in Seq(Ino)
    BY <1>2, <1>3, RemovedType DEF IsFs
  <2>2. e.cache_size \in Int
    <3>1. d.cache_size \in Int /\ f.ino[n].size \in Nat
      BY <1>2 DEF IsFs, IsNode
    <3>2. QED
      BY <3>1, <1>3
  <2>3. QED
    BY <1>2, <1>3, <2>1, <2>2 DEF IsFs
<1>5. Gone(e, g, n)
  BY <1>4, GoneIs
<1> HIDE DEF g
<1>6. IsFs(g) /\ g.ino[n] = NoInode /\ \A m \in Ino : m # n => g.ino[m] = f.ino[m]
  BY <1>2, <1>3, <1>4, <1>5, GoneFs
<1>7. /\ g.file = f.file /\ g.called = f.called /\ g.cache = RemoveFirst(f.cache, n)
      /\ g.cache_size = f.cache_size - f.ino[n].size
      /\ g.blocks = f.blocks - ToBlocks(f.ino[n].size)
      /\ g.broken = FALSE => f.broken = FALSE /\ f.ino[n].dents = <<>>
  BY <1>2, <1>3, <1>5 DEF Gone
<1>8. Frees(f, g, n)
  BY <1>6, <1>7 DEF Frees, SameNode
<1>9. Fresh(g)
  <2> SUFFICES ASSUME g.broken = FALSE
               PROVE  Cached(g) /\ \A m \in Ino : NodeHere(g, m)
    BY DEF Fresh
  <2>1. Cached(f) /\ \A m \in Ino : NodeHere(f, m)
    BY <1>7 DEF Fresh
  <2>2. \A m \in Ino : m # n => NodeHere(g, m)
    BY <1>6, <1>7, <2>1, HereStays
  <2>3. NodeHere(g, n)
    BY <1>6, NoInodeIs DEF NodeHere
  <2>4. Leaves(f, g, n)
    <3>1. ElseLoaded(f, g, n)
      BY <1>6 DEF ElseLoaded
    <3>2. QED
      BY <3>1, <1>6, <1>7, NoInodeIs DEF Leaves
  <2>5. Cached(g)
    BY <2>1, <2>4, CacheLeaves
  <2>6. QED
    BY <2>2, <2>3, <2>5
<1>10. QED
  BY <1>1, <1>8, <1>9

\* Any other may leave the list of an archive, or fail with its members.
LEMMA FreeOther ==
  ASSUME NEW f, IsFs(f), NEW n \in Ino, Fresh(f), f.ino[n].state # "LOADED"
  PROVE  Frees(f, InodeFree(f, n), n) /\ Fresh(InodeFree(f, n))
<1> DEFINE d == Freed(f, n)
           e == IF f.ino[n].state # "LOADING" THEN d
                ELSE IF f.ino[n].load.type = "ARCHIVE" THEN ErrorArchive(d, n)
                ELSE LeaveArchive(d, n)
           g == InodeGone(e, n)
<1>1. InodeFree(f, n) = g
  BY DEF InodeFree, Freed
<1>2. /\ IsFs(d) /\ Fresh(d) /\ d.ino = f.ino /\ d.file = f.file
      /\ d.called = f.called /\ d.broken = f.broken
      /\ d.blocks = f.blocks - ToBlocks(f.ino[n].size)
  BY FreedIs
<1> HIDE DEF d
<1>3. Light(d, e) /\ Fresh(e)
  <2>1. CASE f.ino[n].state # "LOADING"
    BY <2>1, <1>2, LightSelf
  <2>2. CASE f.ino[n].state = "LOADING" /\ f.ino[n].load.type = "ARCHIVE"
    BY <2>2, <1>2, ErrorArchiveIs
  <2>3. CASE f.ino[n].state = "LOADING" /\ f.ino[n].load.type # "ARCHIVE"
    BY <2>3, <1>2, LeaveArchiveIs, SameLoadsFresh DEF SameLoads
  <2>4. QED
    BY <2>1, <2>2, <2>3
<1> HIDE DEF e
<1>4. /\ IsFs(e) /\ e.file = d.file /\ e.blocks = d.blocks
      /\ (e.broken = FALSE => d.broken = FALSE) /\ (Quiet(d) => e.called = d.called)
      /\ \A m \in Ino : SameNode(d.ino[m], e.ino[m])
  BY <1>2, <1>3 DEF Light, IsFs
<1>5. e.ino[n].state # "LOADED" /\ e.ino[n].dents = f.ino[n].dents
  BY <1>2, <1>4 DEF SameNode
<1>6. Gone(e, g, n)
  BY <1>4, GoneIs
<1> HIDE DEF g
<1>7. IsFs(g) /\ g.ino[n] = NoInode /\ \A m \in Ino : m # n => g.ino[m] = e.ino[m]
  BY <1>4, <1>6, GoneFs
<1>8. Fresh(g)
  BY <1>3, <1>4, <1>5, <1>6, GoneFresh
<1>9. /\ g.file = f.file
      /\ g.blocks = f.blocks - ToBlocks(f.ino[n].size)
      /\ g.broken = FALSE => f.broken = FALSE /\ f.ino[n].dents = <<>>
  BY <1>2, <1>4, <1>5, <1>6 DEF Gone
<1>10. Quiet(f) => g.called = f.called
  BY <1>2, <1>4, <1>6 DEF Gone, Quiet
<1>11. Frees(f, g, n)
  BY <1>2, <1>4, <1>7, <1>9, <1>10 DEF Frees
<1>12. QED
  BY <1>1, <1>8, <1>11

\* What is freed is counted nowhere.
LEMMA FreeSolid ==
  ASSUME NEW f, NEW R, NEW x, NEW a, NEW n \in Ino, Counts(f, R, x, a, n), Fresh(f),
         Unused(f, n)
  PROVE  Solid(InodeFree(f, n), R, x, a) /\ Mild(f, InodeFree(f, n))
         /\ Frees(f, InodeFree(f, n), n)
<1> DEFINE g == InodeFree(f, n)
<1>1. IsFs(f) /\ IsNode(f.ino[n])
  BY DEF Counts, IsFs
<1>2. Frees(f, g, n) /\ Fresh(g)
  BY <1>1, FreeLoaded, FreeOther
<1> HIDE DEF g
<1>3. /\ IsFs(g) /\ g.file = f.file /\ g.ino[n] = NoInode
      /\ \A m \in Ino : m # n => SameNode(f.ino[m], g.ino[m])
      /\ g.broken = FALSE => f.broken = FALSE /\ f.ino[n].dents = <<>>
  BY <1>2 DEF Frees
<1>4. f.ino[n].refcount <= 0 /\ f.ino[n].open_count <= 0
  BY DEF Unused
<1>5. n # a /\ f.ino[n].open_count = 0
  BY <1>4, OpensGuard DEF Counts
<1>6. /\ R[n] = 0 /\ Names(f, n) = 0 /\ n # Root /\ f.ino[n].refcount = 0
  <2>1. R[n] \in Nat /\ Names(f, n) \in Nat /\ f.ino[n].refcount \in Int
    BY <1>1, NamedFinite DEF Counts, Refs, IsNode
  <2>2. /\ f.ino[n].refcount >= R[n] /\ f.ino[n].refcount >= Names(f, n)
        /\ n = Root => f.ino[n].refcount > 0
    BY InUse
  <2>3. QED
    BY <1>4, <2>1, <2>2
<1>7. SameDentsBut(f, g, n)
  BY <1>3 DEF SameDentsBut, SameNode
<1>8. \A m \in Ino : /\ Names(f, m) \in Nat /\ Names(g, m) \in Nat
                     /\ Names(g, m) <= Names(f, m)
                     /\ g.broken = FALSE => Names(g, m) = Names(f, m)
  <2> SUFFICES ASSUME NEW m \in Ino
               PROVE  /\ Names(f, m) \in Nat /\ Names(g, m) \in Nat
                      /\ Names(g, m) <= Names(f, m)
                      /\ g.broken = FALSE => Names(g, m) = Names(f, m)
    OBVIOUS
  <2>1. /\ Names(f, m) \in Nat /\ Names(g, m) \in Nat
        /\ Names(g, m) = Names(f, m) - Cardinality(At(f.ino[n].dents, m))
                                     + Cardinality(At(g.ino[n].dents, m))
    BY <1>1, <1>3, <1>7, NamesChange
  <2>2. At(g.ino[n].dents, m) = {} /\ (f.ino[n].dents = <<>> => At(f.ino[n].dents, m) = {})
    BY <1>3, NoInodeIs DEF At
  <2>3. Cardinality(At(g.ino[n].dents, m)) = 0
        /\ (f.ino[n].dents = <<>> => Cardinality(At(f.ino[n].dents, m)) = 0)
    BY <2>2, FS_EmptySet
  <2>4. Cardinality(At(f.ino[n].dents, m)) \in Nat
    BY <1>1, AtIs DEF IsNode
  <2>5. QED
    BY <1>3, <2>1, <2>3, <2>4
<1>9. Refs(g, R)
  <2> SUFFICES ASSUME NEW m \in Ino
               PROVE  /\ g.ino[m].refcount >= Names(g, m) + If1(m = Root) + R[m]
                      /\ g.broken = FALSE =>
                           g.ino[m].refcount = Names(g, m) + If1(m = Root) + R[m]
    BY DEF Counts, Refs
  <2>1. /\ f.ino[m].refcount >= Names(f, m) + If1(m = Root) + R[m]
        /\ f.broken = FALSE => f.ino[m].refcount = Names(f, m) + If1(m = Root) + R[m]
        /\ R[m] \in Nat /\ If1(m = Root) \in Nat /\ f.ino[m].refcount \in Int
    BY <1>1 DEF Counts, Refs, If1, IsFs, IsNode
  <2>2. /\ Names(f, m) \in Nat /\ Names(g, m) \in Nat /\ Names(g, m) <= Names(f, m)
        /\ g.broken = FALSE => Names(g, m) = Names(f, m)
    BY <1>8
  <2>3. g.ino[m].refcount = f.ino[m].refcount
    BY <1>3, <1>6, NoInodeIs DEF SameNode
  <2> DEFINE i == If1(m = Root)
             n0 == Names(f, m)
             n1 == Names(g, m)
             r == R[m]
             c == f.ino[m].refcount
  <2>4. c >= n1 + i + r
    <3>1. c >= n0 + i + r /\ n1 <= n0 /\ n0 \in Nat /\ n1 \in Nat /\ i \in Nat /\ r \in Nat
          /\ c \in Int
      BY <2>1, <2>2
    <3> HIDE DEF c, n0, n1, i, r
    <3>2. QED
      BY <3>1
  <2>5. QED
    BY <1>3, <2>1, <2>2, <2>3, <2>4
<1>10. Opens(g, x, a)
  <2>1. \A m \in Ino : g.ino[m].open_count = f.ino[m].open_count
    BY <1>3, <1>5, NoInodeIs DEF SameNode
  <2>2. QED
    BY <2>1, <1>3 DEF Counts, Opens, Standing
<1>11. Blocks(g)
  <2>1. SameSizesBut(f, g, n)
    BY <1>3 DEF SameSizesBut, SameNode
  <2>2. /\ Cardinality(Pairs(BlocksOf(f))) \in Nat /\ Cardinality(Pairs(BlocksOf(g))) \in Nat
        /\ Cardinality(Pairs(BlocksOf(g))) = Cardinality(Pairs(BlocksOf(f)))
             - ToBlocks(f.ino[n].size) + ToBlocks(g.ino[n].size)
    BY <2>1, <1>1, <1>3, BlocksChange
  <2>3. f.ino[n].size \in Nat
    BY <1>1 DEF IsNode
  <2>4. ToBlocks(g.ino[n].size) = 0 /\ ToBlocks(f.ino[n].size) \in Nat
    BY <1>3, <2>3, NoInodeIs, ToBlocksIs
  <2>5. QED
    BY <1>2, <2>2, <2>4 DEF Counts, Blocks, Frees
<1>12. Busy(g, NoIno)
  BY <1>3, NoInodeIs DEF Counts, Busy, SameNode
<1>13. Mild(f, g)
  <2>1. \A m \in Ino : g.ino[m].type \in {f.ino[m].type, "NONE"}
    BY <1>3, NoInodeIs DEF SameNode
  <2>2. Quiet(f) => Quiet(g)
    BY <1>3, NoInodeIs, NoLoadIs DEF SameNode, Quiet
  <2>3. QED
    BY <1>2, <2>1, <2>2 DEF Mild, Frees
<1>14. QED
  BY <1>2, <1>3, <1>9, <1>10, <1>11, <1>12, <1>13 DEF Solid, Counts, g

LEMMA FreeIfUnusedIs ==
  ASSUME NEW f, NEW R, NEW x, NEW a, NEW n \in Ino, Counts(f, R, x, a, n), Fresh(f)
  PROVE  /\ Solid(FreeIfUnused(f, n), R, x, a) /\ Mild(f, FreeIfUnused(f, n))
         /\ ~Unused(f, n) => FreeIfUnused(f, n) = f
         /\ \A m \in Ino : m # n => SameNode(f.ino[m], FreeIfUnused(f, n).ino[m])
<1>1. CASE Unused(f, n)
  BY <1>1, FreeSolid DEF FreeIfUnused, Frees
<1>2. CASE ~Unused(f, n)
  <2>1. FreeIfUnused(f, n) = f
    BY <1>2 DEF FreeIfUnused
  <2>2. f.ino[n].refcount \in Int /\ f.ino[n].open_count \in Int
    BY DEF Counts, IsFs, IsNode
  <2>3. Busy(f, NoIno)
    BY <1>2, <2>2 DEF Counts, Busy, Unused
  <2>4. QED
    BY <2>1, <2>3, <1>2, MildSelf DEF Solid, Counts, SameNode
<1>3. QED
  BY <1>1, <1>2
\* What stays of an inode that is not freed.
Keeps(f, g, n) ==
  /\ g.ino[n].type = f.ino[n].type /\ g.ino[n].dents = f.ino[n].dents
  /\ g.ino[n].open_count = f.ino[n].open_count

LEMMA InodeDecrefIs ==
  ASSUME NEW f, NEW R, NEW x, NEW a, Solid(f, R, x, a), NEW n \in Ino, R[n] > 0
  PROVE  LET g == InodeDecref(f, n)
         IN  /\ Solid(g, Down(R, n), x, a) /\ Mild(f, g)
             /\ \A m \in Ino : m # n => SameNode(f.ino[m], g.ino[m])
             /\ f.ino[n].open_count > 0 \/ f.ino[n].refcount > 1 => Keeps(f, g, n)
<1> DEFINE e == [f EXCEPT !.ino[n].refcount = @ - 1]
           g == FreeIfUnused(e, n)
<1>1. Counts(e, Down(R, n), x, a, n) /\ Fresh(e) /\ Recounts(f, e, n, -1, 0)
  BY DecrefCounts
<1> HIDE DEF e
<1>2. /\ Solid(g, Down(R, n), x, a) /\ Mild(e, g) /\ (~Unused(e, n) => g = e)
      /\ \A m \in Ino : m # n => SameNode(e.ino[m], g.ino[m])
  BY <1>1, FreeIfUnusedIs
<1> HIDE DEF g
<1>3. Mild(f, e) /\ e.ino[n].refcount = f.ino[n].refcount - 1
      /\ e.ino[n].open_count = f.ino[n].open_count /\ SameDents(f, e)
      /\ e.ino[n].type = f.ino[n].type
      /\ \A m \in Ino : m # n => e.ino[m] = f.ino[m]
  <2>1. f.ino[n].refcount \in Int /\ f.ino[n].open_count \in Int
    BY DEF Solid, Counts, IsFs, IsNode
  <2>2. QED
    BY <1>1, <2>1 DEF Recounts
<1>4. Mild(f, g)
  BY <1>2, <1>3, MildThen
<1>5. ASSUME f.ino[n].open_count > 0 \/ f.ino[n].refcount > 1
      PROVE  Keeps(f, g, n)
  <2>1. f.ino[n].refcount \in Int /\ f.ino[n].open_count \in Int
    BY DEF Solid, Counts, IsFs, IsNode
  <2>2. ~Unused(e, n)
    BY <1>3, <1>5, <2>1 DEF Unused
  <2>3. QED
    BY <1>2, <1>3, <2>2 DEF Keeps, SameDents
<1>6. QED
  BY <1>2, <1>3, <1>4, <1>5 DEF InodeDecref, g, e

LEMMA InodeDecOpenIs ==
  ASSUME NEW f, NEW R, NEW x, NEW n \in Ino, Solid(f, R, x, n)
  PROVE  LET g == InodeDecOpen(f, n)
         IN  /\ Solid(g, R, x, NoIno) /\ Mild(f, g)
             /\ \A m \in Ino : m # n => SameNode(f.ino[m], g.ino[m])
<1> DEFINE e == [f EXCEPT !.ino[n].open_count = @ - 1]
           g == FreeIfUnused(e, n)
<1>1. Counts(e, R, x, NoIno, n) /\ Fresh(e) /\ Recounts(f, e, n, 0, -1)
  BY DecOpenCounts
<1> HIDE DEF e
<1>2. /\ Solid(g, R, x, NoIno) /\ Mild(e, g)
      /\ \A m \in Ino : m # n => SameNode(e.ino[m], g.ino[m])
  BY <1>1, FreeIfUnusedIs
<1> HIDE DEF g
<1>3. Mild(f, e) /\ \A m \in Ino : m # n => e.ino[m] = f.ino[m]
  BY <1>1 DEF Recounts
<1>4. Mild(f, g)
  BY <1>2, <1>3, MildThen
<1>5. QED
  BY <1>2, <1>3, <1>4 DEF InodeDecOpen, g, e

\* An entry is deleted, and what nothing else refers to with it.
LEMMA DirentDeleteIs ==
  ASSUME NEW f, NEW R, NEW x, NEW a, Solid(f, R, x, a), NEW d \in Ino, NEW name,
         InodeSearch(f, d, name) # NoIno
  PROVE  LET g == InodeDirentDelete(f, d, name)
         IN  Solid(g, R, x, a) /\ Mild(f, g)
<1> DEFINE e == InodeDirentDeleteNoDecref(f, d, name)
           n1 == InodeSearch(f, d, name)
           S == Up(R, n1)
<1>1. n1 \in Ino /\ Solid(e, S, x, a) /\ Relinks(f, e, d)
  BY DirRemoveIs
<1>2. R \in [Ino -> Nat]
  BY DEF Solid, Counts, Refs
<1> HIDE DEF e, n1
<1>3. S[n1] > 0 /\ Down(S, n1) = R
  BY <1>1, <1>2, UpDown
<1> HIDE DEF S
<1>4. Solid(InodeDecref(e, n1), R, x, a) /\ Mild(e, InodeDecref(e, n1))
  BY <1>1, <1>3, InodeDecrefIs
<1>5. Mild(f, InodeDecref(e, n1))
  BY <1>1, <1>4, MildThen DEF Relinks
<1>6. QED
  BY <1>4, <1>5 DEF InodeDirentDelete, e, n1

-----------------------------------------------------------------------------
(* File objects come and go.                                               *)

\* What a change of file objects leaves alone.
Steady(f, g) ==
  /\ \A n \in Ino : g.ino[n].type \in {f.ino[n].type, "NONE"}
  /\ Quiet(f) => Quiet(g) /\ g.called = f.called

LEMMA SteadyThen ==
  ASSUME NEW f, NEW g, NEW h, Steady(f, g), Steady(g, h)
  PROVE  Steady(f, h)
BY DEF Steady

LEMMA MildSteady ==
  ASSUME NEW f, NEW g, Mild(f, g)
  PROVE  Steady(f, g) /\ g.file = f.file
BY DEF Mild, Steady

LEMMA SolidAs ==
  ASSUME NEW f, NEW R, NEW o \in FsFile, IsFs(f)
  PROVE  Solid(f, R, NoFile, NoIno) <=> Solid(f, R, o, f.file[o].ino)
<1>1. f.file[o].ino \in Ino \union {NoIno}
  BY DEF IsFs, IsFile
<1>2. Opens(f, NoFile, NoIno) <=> Opens(f, o, f.file[o].ino)
  BY <1>1, OpensAs
<1>3. QED
  BY <1>2 DEF Solid, Counts

\* A file object is opened, closed or given flags.
LEMMA EditFileIs ==
  ASSUME NEW f, NEW R, Solid(f, R, NoFile, NoIno), NEW o \in FsFile, NEW z, NEW g,
         SetsFile(f, g, o, z), MayOpen(f, z), z.ino = f.file[o].ino
  PROVE  /\ Solid(g, R, NoFile, NoIno) /\ Steady(f, g)
         /\ g.file[o] = z /\ \A p \in FsFile : p # o => g.file[p] = f.file[p]
<1>1. IsFs(f)
  BY DEF Solid, Counts
<1>2. Solid(f, R, o, f.file[o].ino)
  BY <1>1, SolidAs
<1>3. /\ Solid(g, R, o, f.file[o].ino)
      /\ g.file[o] = z /\ \A p \in FsFile : p # o => g.file[p] = f.file[p]
  BY <1>2, SetFileIs
<1>4. IsFs(g) /\ g.file[o].ino = f.file[o].ino
  BY <1>3 DEF Solid, Counts
<1>5. Solid(g, R, NoFile, NoIno)
  BY <1>3, <1>4, SolidAs
<1>6. Steady(f, g)
  BY DEF SetsFile, Steady, Quiet
<1>7. QED
  BY <1>3, <1>5, <1>6

LEMMA CloseIs ==
  ASSUME NEW f, IsFs(f), NEW o \in FsFile
  PROVE  LET z == [f.file[o] EXCEPT !.is_opened = FALSE]
         IN  /\ SetsFile(f, FsClose(f, o), o, z) /\ MayOpen(f, z)
             /\ z.ino = f.file[o].ino /\ z.is_opened = FALSE
<1> DEFINE x == f.file[o]
           z == [x EXCEPT !.is_opened = FALSE]
           g == FsClose(f, o)
<1>1. IsFile(x)
  BY DEF IsFs
<1>2. /\ g = [k \in FsFields |-> g[k]] /\ g.file = [f.file EXCEPT ![o] = z]
      /\ g.ino = f.ino /\ g.blocks = f.blocks /\ g.cache = f.cache
      /\ g.cache_size = f.cache_size /\ g.called = f.called /\ g.broken = f.broken
  BY DEF IsFs, FsFields, FsClose
<1> HIDE DEF x, g
<1>3. IsFile(z) /\ z.ino = x.ino /\ z.is_opened = FALSE
  BY <1>1 DEF IsFile, FileFields
<1> HIDE DEF z
<1>4. SetsFile(f, g, o, z) /\ MayOpen(f, z)
  BY <1>2, <1>3 DEF SetsFile, MayOpen
<1>5. QED
  BY <1>3, <1>4 DEF x, z, g

\* A file object is released.
LEMMA DeleteIs ==
  ASSUME NEW f, NEW R, Solid(f, R, NoFile, NoIno), NEW o \in FsFile, f.file[o].ino \in Ino
  PROVE  LET g == FsDelete(f, o)
         IN  /\ Solid(g, R, NoFile, NoIno) /\ Steady(f, g)
             /\ g.file[o].ino = NoIno /\ \A p \in FsFile : p # o => g.file[p] = f.file[p]
<1> DEFINE n == f.file[o].ino
           z == ClosedFile
           e == [FsClose(f, o) EXCEPT !.file[o] = z]
           g == InodeDecOpen(e, n)
<1>1. IsFs(f) /\ Solid(f, R, o, n)
  BY SolidAs DEF Solid, Counts
<1>2. IsFile(z) /\ z.ino = NoIno /\ z.is_opened = FALSE
  BY DEF ClosedFile, IsFile, FileFields
<1>3. SetsFile(f, e, o, z)
  BY <1>1, <1>2 DEF FsClose, IsFs, FsFields, SetsFile
<1>4. MayOpen(f, z)
  BY <1>2 DEF MayOpen
<1> HIDE DEF e, z
<1>5. /\ Solid(e, R, o, n) /\ e.file[o] = z
      /\ \A p \in FsFile : p # o => e.file[p] = f.file[p]
  BY <1>1, <1>3, <1>4, SetFileIs
<1>6. Solid(g, R, o, NoIno) /\ Mild(e, g)
  BY <1>5, InodeDecOpenIs
<1>7. IsFs(g) /\ Steady(e, g) /\ g.file = e.file
  BY <1>6, MildSteady DEF Solid, Counts
<1>8. Steady(f, e)
  BY <1>3 DEF SetsFile, Steady, Quiet
<1> HIDE DEF g, n
<1>9. g.file[o].ino = NoIno /\ \A p \in FsFile : p # o => g.file[p] = f.file[p]
  BY <1>2, <1>5, <1>7
<1>10. Solid(g, R, NoFile, NoIno)
  BY <1>6, <1>7, <1>9, SolidAs
<1>11. Steady(f, g)
  BY <1>7, <1>8, SteadyThen
<1>12. QED
  BY <1>9, <1>10, <1>11 DEF FsDelete, g, e, n, z

\* A file object is made for an inode.
Creates(f, g, o, n) ==
  /\ o \in FsFile /\ f.file[o].ino = NoIno /\ g.file[o].ino = n
  /\ \A p \in FsFile : p # o => g.file[p] = f.file[p]
  /\ Steady(f, g)

LEMMA CreateIs ==
  ASSUME NEW f, NEW R, Solid(f, R, NoFile, NoIno), NEW n \in Ino, f.ino[n].type # "NONE",
         \E o \in FsFile : f.file[o].ino = NoIno
  PROVE  Solid(FidCreate(f, n), R, NoFile, NoIno) /\ Creates(f, FidCreate(f, n), Created(f), n)
<1> DEFINE o == Created(f)
           z == [ClosedFile EXCEPT !.ino = n]
           e == InodeIncOpen(f, n)
           g == FidCreate(f, n)
<1>1. o \in FsFile /\ f.file[o].ino = NoIno
  <2> DEFINE S == {p \in FsFile : f.file[p].ino = NoIno}
  <2>1. S \in SUBSET Nat /\ S # {}
    BY FsFileAssumption
  <2>2. Min(S) \in S
    BY <2>1, MinIs
  <2>3. QED
    BY <2>2 DEF Created
<1>2. g = [e EXCEPT !.file[o] = z]
  BY DEF FidCreate, Created
<1> HIDE DEF o
<1>3. IsFs(f) /\ Solid(f, R, o, NoIno)
  BY <1>1, SolidAs DEF Solid, Counts
<1>4. Solid(e, R, o, n) /\ Recounts(f, e, n, 0, 1)
  BY <1>3, IncOpenSolid
<1> HIDE DEF e, g
<1>5. IsFile(z) /\ z.ino = n /\ z.is_opened = FALSE
  BY DEF ClosedFile, IsFile, FileFields
<1> HIDE DEF z
<1>6. IsFs(e) /\ Steady(f, e) /\ e.file = f.file
  BY <1>4, MildSteady DEF Recounts
<1>7. SetsFile(e, g, o, z)
  BY <1>2, <1>5, <1>6 DEF IsFs, FsFields, SetsFile
<1>8. MayOpen(e, z)
  BY <1>5 DEF MayOpen
<1>9. /\ Solid(g, R, o, n) /\ g.file[o] = z
      /\ \A p \in FsFile : p # o => g.file[p] = e.file[p]
  BY <1>1, <1>4, <1>7, <1>8, SetFileIs
<1>10. Solid(g, R, NoFile, NoIno)
  BY <1>1, <1>5, <1>9, SolidAs DEF Solid, Counts
<1>11. Steady(e, g)
  BY <1>7 DEF SetsFile, Steady, Quiet
<1>12. Steady(f, g)
  BY <1>6, <1>11, SteadyThen
<1>13. Creates(f, g, o, n)
  BY <1>1, <1>5, <1>6, <1>9, <1>12 DEF Creates
<1>14. QED
  BY <1>10, <1>13 DEF g, o
-----------------------------------------------------------------------------
(* Names that lead to inodes.                                              *)

LEMMA NamedIs ==
  ASSUME NEW f, IsFs(f), NEW d \in Ino, NEW k \in DOMAIN f.ino[d].dents, NEW n,
         f.ino[d].dents[k].ino = n
  PROVE  Names(f, n) \in Nat /\ Names(f, n) > 0
<1>1. Names(f, n) \in Nat /\ IsFiniteSet(Pairs(NamedAt(f, n)))
  BY NamedFinite, PairsFinite
<1>2. k \in NamedAt(f, n)[d]
  BY DEF NamedAt, At
<1>3. <<d, k>> \in Pairs(NamedAt(f, n))
  BY <1>2 DEF Pairs
<1>4. Names(f, n) # 0
  BY <1>1, <1>3, FS_EmptySet DEF Names
<1>5. QED
  BY <1>1, <1>4

\* What a search finds is in use.
LEMMA FoundIs ==
  ASSUME NEW f, NEW R, NEW x, NEW a, Solid(f, R, x, a), NEW d \in Ino, NEW name, NEW n,
         n = InodeSearch(f, d, name), n # NoIno
  PROVE  /\ n \in Ino /\ f.ino[n].refcount > 0 /\ f.ino[n].type # "NONE"
         /\ f.ino[d].type = "DIR"
         /\ \E k \in DOMAIN f.ino[d].dents : /\ f.ino[d].dents[k].name = name
                                             /\ f.ino[d].dents[k].ino = n
<1>1. IsFs(f)
  BY DEF Solid, Counts
<1>2. Finds(f, d, name, n)
  BY <1>1, SearchFinds
<1>3. n \in Ino /\ f.ino[d].type = "DIR"
      /\ \E k \in DOMAIN f.ino[d].dents : /\ f.ino[d].dents[k].name = name
                                          /\ f.ino[d].dents[k].ino = n
  BY <1>2 DEF Finds
<1>4. Names(f, n) \in Nat /\ Names(f, n) > 0
  BY <1>1, <1>3, NamedIs
<1>5. f.ino[n].refcount \in Int
  BY <1>1, <1>3 DEF IsFs, IsNode
<1>6. f.ino[n].refcount >= Names(f, n)
  BY <1>3, InUse DEF Solid
<1>7. f.ino[n].refcount > 0
  BY <1>4, <1>5, <1>6
<1>8. f.ino[n].type # "NONE"
  BY <1>3, <1>7, InUse DEF Solid
<1>9. QED
  BY <1>3, <1>7, <1>8

WalkStart(n) == [ino |-> n, count |-> 0, stop |-> FALSE]

LEMMA WalkCourse ==
  ASSUME NEW f, NEW n, NEW names, NEW k \in Nat, DOMAIN names = 1 .. k
  PROVE  \E h : Course(h, "walk", f, WalkStart(n), names, k) /\ Walked(f, n, names) = h[k]
<1> DEFINE IsLoop(g) == LoopOver(g, "walk", f, WalkStart(n), names, k)
           c == CHOOSE g : IsLoop(g)
<1>1. \E g : IsLoop(g)
  BY LoopExists
<1> HIDE DEF IsLoop
<1>2. IsLoop(c)
  BY <1>1
<1>3. Walked(f, n, names) = c[1 .. k]
  BY DEF Walked, WalkStart, FoldLeft, MapThenFoldSet, IsLoop, LoopOver, Do
<1> HIDE DEF c
<1>4. LoopOver(c, "walk", f, WalkStart(n), names, k)
  BY <1>2 DEF IsLoop
<1>5. QED
  BY <1>3, <1>4, LoopCourse

\* A walk ends at an inode in use.
Walks(f, w) ==
  /\ w = [ino |-> w.ino, count |-> w.count, stop |-> w.stop]
  /\ w.ino \in Ino /\ f.ino[w.ino].type # "NONE" /\ w.count \in Nat

LEMMA WalkedIs ==
  ASSUME NEW f, NEW R, NEW x, NEW a, Solid(f, R, x, a), NEW n \in Ino, f.ino[n].type # "NONE",
         NEW names, NEW k \in Nat, DOMAIN names = 1 .. k
  PROVE  Walks(f, Walked(f, n, names))
<1>1. PICK h : Course(h, "walk", f, WalkStart(n), names, k) /\ Walked(f, n, names) = h[k]
  BY WalkCourse
<1> DEFINE T == {i \in Nat : i <= k => Walks(f, h[i])}
<1>2. 0 \in T
  BY <1>1 DEF Course, Walks, WalkStart
<1>3. ASSUME NEW i \in Nat, i \in T
      PROVE  i + 1 \in T
  <2> SUFFICES ASSUME i + 1 <= k
               PROVE  Walks(f, h[i + 1])
    OBVIOUS
  <2>1. Walks(f, h[i]) /\ i + 1 \in 1 .. k /\ (i + 1) - 1 = i
    BY <1>3
  <2> DEFINE t == h[i]
             next == InodeSearch(f, t.ino, names[i + 1])
  <2>2. h[i + 1] = IF t.stop \/ next = NoIno THEN [t EXCEPT !.stop = TRUE]
                   ELSE [t EXCEPT !.ino = next, !.count = @ + 1]
    BY <1>1, <2>1, ZenonT(30) DEF Course, Do
  <2> HIDE DEF t
  <2>3. Walks(f, t)
    BY <2>1 DEF t
  <2>4. next # NoIno => next \in Ino /\ f.ino[next].type # "NONE"
    BY <2>3, FoundIs DEF Walks
  <2> HIDE DEF next
  <2>5. CASE t.stop \/ next = NoIno
    <3>1. h[i + 1] = [t EXCEPT !.stop = TRUE]
      BY <2>2, <2>5
    <3>2. QED
      BY <2>3, <3>1 DEF Walks
  <2>6. CASE ~(t.stop \/ next = NoIno)
    <3>1. h[i + 1] = [t EXCEPT !.ino = next, !.count = @ + 1]
      BY <2>2, <2>6
    <3>2. t = [ino |-> t.ino, count |-> t.count, stop |-> t.stop] /\ t.count \in Nat
      BY <2>3 DEF Walks
    <3>3. h[i + 1] = [ino |-> next, count |-> t.count + 1, stop |-> t.stop]
      BY <3>1, <3>2
    <3>4. next \in Ino /\ f.ino[next].type # "NONE" /\ t.count + 1 \in Nat
      BY <2>4, <2>6, <3>2
    <3>5. QED
      BY <3>3, <3>4 DEF Walks
  <2>7. QED
    BY <2>5, <2>6
<1> HIDE DEF T
<1>4. Nat \subseteq T
  BY <1>2, <1>3, SetInduction
<1>5. QED
  BY <1>1, <1>4 DEF T

LEMMA FlushCourse ==
  ASSUME NEW f, NEW n, NEW k \in Nat, DOMAIN f.ino[n].dents = 1 .. k
  PROVE  \E h : Course(h, "flush", n, f, f.ino[n].dents, k) /\ FlushDir(f, n) = h[k]
<1> DEFINE IsLoop(g) == LoopOver(g, "flush", n, f, f.ino[n].dents, k)
           c == CHOOSE g : IsLoop(g)
<1>1. \E g : IsLoop(g)
  BY LoopExists
<1> HIDE DEF IsLoop
<1>2. IsLoop(c)
  BY <1>1
<1>3. FlushDir(f, n) = c[1 .. k]
  BY DEF FlushDir, FoldLeft, MapThenFoldSet, IsLoop, LoopOver, Do
<1> HIDE DEF c
<1>4. LoopOver(c, "flush", n, f, f.ino[n].dents, k)
  BY <1>2 DEF IsLoop
<1>5. QED
  BY <1>3, <1>4, LoopCourse

\* The entries of a directory after some have been deleted from its front.
Left(t, n, s, i) ==
  /\ t.ino[n].type = "DIR" /\ Len(t.ino[n].dents) = Len(s) - i
  /\ \A j \in 1 .. Len(s) - i : t.ino[n].dents[j] = s[j + i]

\* Deleting the first entry of a directory that another one names, which is
\* open, frees neither.
LEMMA FlushTurn ==
  ASSUME NEW t, NEW R, NEW x, NEW a, Solid(t, R, x, a), NEW n \in Ino, NEW d \in Ino, d # n,
         NEW s \in Seq(Dent), NEW i \in Nat, i + 1 <= Len(s), Left(t, n, s, i),
         \E k \in DOMAIN t.ino[d].dents : t.ino[d].dents[k].ino = n, t.ino[d].open_count > 0
  PROVE  LET g == InodeDirentDelete(t, n, s[i + 1].name)
         IN  Solid(g, R, x, a) /\ Mild(t, g) /\ Left(g, n, s, i + 1) /\ Keeps(t, g, d)
<1> DEFINE name == s[i + 1].name
           q == t.ino[n].dents
           n1 == InodeSearch(t, n, name)
           e == InodeDirentDeleteNoDecref(t, n, name)
           g == InodeDecref(e, n1)
           K == {k \in DOMAIN q : q[k].name = name}
           S == Up(R, n1)
<1>1. IsFs(t) /\ q \in Seq(Dent) /\ R \in [Ino -> Nat] /\ t.ino[n].type = "DIR"
  BY DEF Solid, Counts, IsFs, IsNode, Refs, Left
<1>2. Len(s) \in Nat /\ Len(q) = Len(s) - i /\ 1 \in DOMAIN q /\ q[1] = s[1 + i]
      /\ \A j \in 1 .. Len(s) - i : q[j] = s[j + i]
  <2>1. Len(s) \in Nat /\ Len(q) = Len(s) - i /\ \A j \in 1 .. Len(s) - i : q[j] = s[j + i]
    BY LenProperties DEF Left
  <2>2. 1 \in 1 .. Len(s) - i
    BY <2>1
  <2>3. DOMAIN q = 1 .. Len(q)
    BY <1>1
  <2>4. QED
    BY <2>1, <2>2, <2>3
<1>3. q[1].name = name
  <2>1. 1 + i = i + 1
    OBVIOUS
  <2>2. QED
    BY <1>2, <2>1
<1>4. n1 # NoIno
  BY <1>1, <1>2, <1>3, SearchAll
<1>5. FirstNamed(q, name) = 1
  <2>1. K \in SUBSET Nat /\ 1 \in K
    BY <1>1, <1>2, <1>3
  <2>2. Min(K) \in K /\ Min(K) <= 1
    BY <2>1, MinIs
  <2>3. \A k \in K : k \in Nat /\ k >= 1
    BY <1>1
  <2>4. FirstNamed(q, name) = Min(K)
    BY DEF FirstNamed
  <2> HIDE DEF K
  <2>5. Min(K) \in Nat /\ Min(K) >= 1
    BY <2>2, <2>3
  <2>6. QED
    BY <2>2, <2>4, <2>5
<1>6. /\ n1 \in Ino /\ Solid(e, S, x, a) /\ Relinks(t, e, n)
      /\ e.ino[n].dents = RemoveAt(q, 1)
  <2>1. /\ n1 \in Ino /\ Solid(e, S, x, a) /\ Relinks(t, e, n)
        /\ e.ino[n].dents = RemoveAt(q, FirstNamed(q, name))
    BY <1>4, DirRemoveIs
  <2>2. QED
    BY <2>1, <1>5
<1>7. InodeDirentDelete(t, n, name) = g
  BY DEF InodeDirentDelete
<1> HIDE DEF name, n1, e, K
<1>8. S[n1] = R[n1] + 1 /\ S[n1] > 0 /\ Down(S, n1) = R /\ R[n1] \in Nat
  BY <1>1, <1>6, UpDown
<1>9. /\ Mild(t, e) /\ e.ino[d] = t.ino[d] /\ e.ino[n].type = "DIR" /\ IsFs(e)
  BY <1>1, <1>6 DEF Relinks
<1>10. Names(e, n) \in Nat /\ Names(e, n) > 0
  BY <1>9, NamedIs
<1>11. n1 = n => e.ino[n].refcount > 1
  <2> SUFFICES ASSUME n1 = n
               PROVE  e.ino[n].refcount > 1
    OBVIOUS
  <2> DEFINE i1 == If1(n = Root)
             c == e.ino[n].refcount
             m1 == Names(e, n)
             r == S[n]
  <2>1. c >= m1 + i1 + r /\ i1 \in Nat /\ c \in Int /\ m1 \in Nat /\ m1 > 0 /\ r \in Nat /\ r > 0
    BY <1>8, <1>9, <1>10, <1>6 DEF Solid, Counts, Refs, If1, IsFs, IsNode
  <2> HIDE DEF i1, c, m1, r
  <2>2. c > 1
    BY <2>1
  <2>3. QED
    BY <2>2 DEF c
<1> HIDE DEF S, g, q
<1>12. /\ Solid(g, R, x, a) /\ Mild(e, g)
       /\ \A m \in Ino : m # n1 => SameNode(e.ino[m], g.ino[m])
       /\ e.ino[n1].open_count > 0 \/ e.ino[n1].refcount > 1 => Keeps(e, g, n1)
  BY <1>6, <1>8, InodeDecrefIs DEF g
<1>13. Mild(t, g)
  BY <1>9, <1>12, MildThen
<1>14. Keeps(e, g, d) /\ Keeps(e, g, n)
  BY <1>9, <1>11, <1>12 DEF Keeps, SameNode
<1>15. Keeps(t, g, d)
  BY <1>9, <1>14 DEF Keeps
<1>16. Left(g, n, s, i + 1)
  <2>1. g.ino[n].type = "DIR" /\ g.ino[n].dents = RemoveAt(q, 1)
    BY <1>6, <1>9, <1>14 DEF Keeps
  <2>2. 1 \in 1 .. Len(q)
    BY <1>1, <1>2 DEF q
  <2>3. /\ Len(RemoveAt(q, 1)) = Len(q) - 1
        /\ \A j \in 1 .. Len(q) - 1 : RemoveAt(q, 1)[j] = IF j < 1 THEN q[j] ELSE q[j + 1]
    BY <1>1, <2>2, RemoveAtIs
  <2>4. Len(q) - 1 = Len(s) - (i + 1)
    BY <1>2
  <2>5. ASSUME NEW j \in 1 .. Len(s) - (i + 1)
        PROVE  RemoveAt(q, 1)[j] = s[j + (i + 1)]
    <3>1. j \in 1 .. Len(q) - 1 /\ ~(j < 1) /\ j + 1 \in 1 .. Len(s) - i
          /\ (j + 1) + i = j + (i + 1)
      BY <1>2, <2>4
    <3>2. RemoveAt(q, 1)[j] = q[j + 1] /\ q[j + 1] = s[(j + 1) + i]
      BY <1>2, <2>3, <3>1
    <3>3. QED
      BY <3>1, <3>2
  <2>6. QED
    BY <2>1, <2>3, <2>4, <2>5 DEF Left
<1>17. QED
  BY <1>7, <1>12, <1>13, <1>15, <1>16 DEF name

LEMMA FlushIs ==
  ASSUME NEW f, NEW R, NEW x, NEW a, Solid(f, R, x, a), NEW n \in Ino, f.ino[n].type = "DIR",
         NEW d \in Ino, d # n,
         \E k \in DOMAIN f.ino[d].dents : f.ino[d].dents[k].ino = n, f.ino[d].open_count > 0
  PROVE  LET g == FlushDir(f, n)
         IN  Solid(g, R, x, a) /\ Mild(f, g) /\ Keeps(f, g, d)
<1> DEFINE s == f.ino[n].dents
<1>1. s \in Seq(Dent) /\ Len(s) \in Nat /\ DOMAIN s = 1 .. Len(s)
  <2>1. s \in Seq(Dent)
    BY DEF Solid, Counts, IsFs, IsNode
  <2>2. QED
    BY <2>1
<1>2. PICK h : Course(h, "flush", n, f, s, Len(s)) /\ FlushDir(f, n) = h[Len(s)]
  BY <1>1, FlushCourse
<1> DEFINE T == {i \in Nat : i <= Len(s) => /\ Solid(h[i], R, x, a) /\ Mild(f, h[i])
                                            /\ Keeps(f, h[i], d) /\ Left(h[i], n, s, i)}
<1>3. Left(f, n, s, 0)
  BY <1>1 DEF Left
<1> HIDE DEF s
<1>4. 0 \in T
  BY <1>2, <1>3, MildSelf DEF Course, Keeps
<1>5. ASSUME NEW i \in Nat, i \in T
      PROVE  i + 1 \in T
  <2> SUFFICES ASSUME i + 1 <= Len(s)
               PROVE  /\ Solid(h[i + 1], R, x, a) /\ Mild(f, h[i + 1])
                      /\ Keeps(f, h[i + 1], d) /\ Left(h[i + 1], n, s, i + 1)
    OBVIOUS
  <2> DEFINE t == h[i]
  <2>1. Solid(t, R, x, a) /\ Mild(f, t) /\ Keeps(f, t, d) /\ Left(t, n, s, i)
    BY <1>1, <1>5
  <2>2. i + 1 \in 1 .. Len(s) /\ (i + 1) - 1 = i
    BY <1>1
  <2>3. h[i + 1] = InodeDirentDelete(t, n, s[i + 1].name)
    BY <1>2, <2>2 DEF Course, Do
  <2> HIDE DEF t
  <2>4. (\E k \in DOMAIN t.ino[d].dents : t.ino[d].dents[k].ino = n) /\ t.ino[d].open_count > 0
    BY <2>1 DEF Keeps
  <2>5. /\ Solid(h[i + 1], R, x, a) /\ Mild(t, h[i + 1]) /\ Left(h[i + 1], n, s, i + 1)
        /\ Keeps(t, h[i + 1], d)
    BY <1>1, <2>1, <2>3, <2>4, FlushTurn
  <2>6. QED
    BY <2>1, <2>5, MildThen DEF Keeps
<1> HIDE DEF T
<1>6. Nat \subseteq T
  BY <1>4, <1>5, SetInduction
<1>7. QED
  BY <1>1, <1>2, <1>6 DEF T
-----------------------------------------------------------------------------
(* Sizes and contents.                                                     *)

\* A regular file that is not in the cache gets another size.
Resizes(x, y) ==
  /\ IsNode(y) /\ y.type = x.type /\ y.refcount = x.refcount /\ y.open_count = x.open_count
  /\ y.dents = x.dents /\ y.load = x.load /\ x.state # "LOADED" /\ y.state # "LOADED"
Holds(f, n, y) ==
  f.broken = FALSE => /\ y.state # "UNLOADED" => y.size <= Len(y.buf)
                      /\ OpenAt(f, n) => InMemory(y)

LEMMA SizeIs ==
  ASSUME NEW f, NEW R, NEW x, NEW a, Solid(f, R, x, a), NEW n \in Ino, f.ino[n].type = "REG",
         NEW y, Resizes(f.ino[n], y), Holds(f, n, y), NEW g, SizedFs(f, g, n, y)
  PROVE  Solid(g, R, x, a) /\ Mild(f, g) /\ g.ino[n] = y
<1> DEFINE z == f.ino[n]
<1>1. IsFs(f) /\ IsNode(z) /\ Resizes(z, y) /\ z.type = "REG"
  BY DEF Solid, Counts, IsFs
<1>2. ToBlocks(f.ino[n].size) \in Nat /\ ToBlocks(y.size) \in Nat /\ f.blocks \in Int
  <2>1. f.ino[n].size \in Nat /\ y.size \in Nat /\ f.blocks \in Int
    BY <1>1 DEF IsNode, Resizes, IsFs
  <2>2. QED
    BY <2>1, ToBlocksIs
<1>3. /\ g.file = f.file /\ g.cache = f.cache /\ g.cache_size = f.cache_size
      /\ g.called = f.called /\ g.broken = f.broken
      /\ g.blocks = f.blocks + ToBlocks(y.size) - ToBlocks(f.ino[n].size)
  BY DEF SizedFs
<1>4. IsFs(g) /\ g.ino[n] = y /\ \A m \in Ino : m # n => g.ino[m] = f.ino[m]
  <2>1. g.blocks \in Int
    BY <1>2, <1>3
  <2>2. Edits(f, g, n, y)
    BY <1>1, <2>1 DEF Edits, SizedFs, Resizes
  <2>3. QED
    BY <2>2, <1>1, EditsIs
<1> HIDE DEF z
<1>5. /\ y.type = z.type /\ y.refcount = z.refcount /\ y.open_count = z.open_count
      /\ y.dents = z.dents /\ y.load = z.load /\ z.state # "LOADED" /\ y.state # "LOADED"
  BY <1>1 DEF Resizes
<1>6. Mild(f, g)
  BY <1>3, <1>4, <1>5 DEF Mild, Quiet, z
<1>7. SameDents(f, g)
  BY <1>4, <1>5 DEF SameDents, z
<1>8. Refs(g, R)
  <2>1. \A m \in Ino : Names(g, m) = Names(f, m)
    BY <1>7, NamesSame
  <2>2. \A m \in Ino : g.ino[m].refcount = f.ino[m].refcount
    BY <1>4, <1>5 DEF z
  <2>3. QED
    BY <2>1, <2>2, <1>3 DEF Solid, Counts, Refs
<1>9. Opens(g, x, a)
  <2>1. \A m \in Ino : g.ino[m].open_count = f.ino[m].open_count
    BY <1>4, <1>5 DEF z
  <2>2. QED
    BY <2>1, <1>3 DEF Solid, Counts, Opens, Standing
<1>10. Blocks(g)
  <2>1. SameSizesBut(f, g, n)
    BY <1>4 DEF SameSizesBut
  <2>2. /\ Cardinality(Pairs(BlocksOf(f))) \in Nat
        /\ Cardinality(Pairs(BlocksOf(g))) = Cardinality(Pairs(BlocksOf(f)))
             - ToBlocks(f.ino[n].size) + ToBlocks(g.ino[n].size)
    BY <2>1, <1>1, <1>4, BlocksChange
  <2>3. QED
    BY <2>2, <1>2, <1>3, <1>4 DEF Solid, Counts, Blocks
<1>11. Busy(g, NoIno)
  BY <1>4, <1>5 DEF Solid, Counts, Busy, z
<1>12. Fresh(g)
  <2> SUFFICES ASSUME g.broken = FALSE
               PROVE  Cached(g) /\ \A m \in Ino : NodeHere(g, m)
    BY DEF Fresh
  <2>1. Cached(f) /\ \A m \in Ino : NodeHere(f, m)
    BY <1>3 DEF Solid, Fresh
  <2>2. \A m \in Ino : m # n => NodeHere(g, m)
    BY <1>3, <1>4, <2>1, HereStays
  <2>3. NodeHere(g, n)
    <3>1. y.type = "REG" /\ (OpenAt(g, n) => OpenAt(f, n))
      BY <1>1, <1>3, <1>5 DEF OpenAt
    <3>2. (y.state # "UNLOADED" => y.size <= Len(y.buf)) /\ (OpenAt(f, n) => InMemory(y))
      BY <1>3 DEF Holds
    <3>3. QED
      BY <1>4, <3>1, <3>2 DEF NodeHere
  <2>4. \A m \in Ino : /\ g.ino[m].state = "LOADED" <=> f.ino[m].state = "LOADED"
                       /\ g.ino[m].state = "LOADED" => g.ino[m].size = f.ino[m].size
    BY <1>4, <1>5 DEF z
  <2>5. Cached(g)
    BY <1>3, <2>1, <2>4, CachedStays
  <2>6. QED
    BY <2>2, <2>3, <2>5
<1>13. QED
  BY <1>4, <1>6, <1>8, <1>9, <1>10, <1>11, <1>12 DEF Solid, Counts

\* The buffer of a file that grows or shrinks.
GrownTo(node, size) ==
  LET allocated == Len(node.buf)
  IN  IF size <= allocated THEN node.buf
      ELSE Resized(node.buf, Max({size, (allocated * 5) \div 4}))
ShrunkTo(node, size) ==
  LET allocated == Len(node.buf)
  IN  IF size > (allocated * 4) \div 5 THEN node.buf
      ELSE Resized(node.buf, (allocated * 4) \div 5)
BufTo(node, size) ==
  IF size > node.size THEN Zeroed(GrownTo(node, size), node.size, size - node.size)
  ELSE ShrunkTo(node, size)

LEMMA MaxTwo ==
  ASSUME NEW i \in Nat, NEW j \in Nat
  PROVE  Max({i, j}) \in Nat /\ Max({i, j}) >= i
<1>1. \E m \in {i, j} : \A y \in {i, j} : m >= y
  OBVIOUS
<1>2. Max({i, j}) \in {i, j} /\ \A y \in {i, j} : Max({i, j}) >= y
  BY <1>1 DEF Max
<1>3. QED
  BY <1>2

LEMMA BufToIs ==
  ASSUME NEW x, IsNode(x), NEW size \in Nat
  PROVE  /\ IsSeq(BufTo(x, size))
         /\ x.size <= Len(x.buf) => size <= Len(BufTo(x, size))
<1> DEFINE old == Len(x.buf)
<1>1. old \in Nat /\ x.size \in Nat /\ IsSeq(x.buf)
  BY DEF IsNode, IsSeq
<1> HIDE DEF old
<1>2. (old * 5) \div 4 \in Nat /\ (old * 4) \div 5 \in Nat
  BY <1>1
<1>3. CASE size > x.size
  <2>1. IsSeq(GrownTo(x, size)) /\ size <= Len(GrownTo(x, size))
    <3>1. CASE size <= old
      BY <1>1, <3>1 DEF GrownTo, old
    <3>2. CASE ~(size <= old)
      <4> DEFINE m == Max({size, (old * 5) \div 4})
      <4>1. m \in Nat /\ m >= size
        BY <1>2, MaxTwo
      <4>2. GrownTo(x, size) = Resized(x.buf, m)
        BY <3>2 DEF GrownTo, old
      <4> HIDE DEF m
      <4>3. QED
        BY <4>1, <4>2, ResizedIs
    <3>3. QED
      BY <3>1, <3>2
  <2>2. BufTo(x, size) = Zeroed(GrownTo(x, size), x.size, size - x.size)
    BY <1>3 DEF BufTo
  <2>3. QED
    BY <2>1, <2>2, WrittenIs
<1>4. CASE ~(size > x.size)
  <2>1. BufTo(x, size) = ShrunkTo(x, size)
    BY <1>4 DEF BufTo
  <2>2. CASE size > (old * 4) \div 5
    <3>1. ShrunkTo(x, size) = x.buf
      BY <2>2 DEF ShrunkTo, old
    <3>2. QED
      BY <1>1, <1>4, <2>1, <3>1 DEF old
  <2>3. CASE ~(size > (old * 4) \div 5)
    <3> DEFINE m == (old * 4) \div 5
    <3>1. ShrunkTo(x, size) = Resized(x.buf, m)
      BY <2>3 DEF ShrunkTo, old
    <3>2. m \in Nat /\ size <= m
      BY <1>2, <2>3
    <3> HIDE DEF m
    <3>3. QED
      BY <2>1, <3>1, <3>2, ResizedIs
  <2>4. QED
    BY <2>2, <2>3
<1>5. QED
  BY <1>3, <1>4

\* A record with another size, state and buffer.
SizedNode(x, y, size, state, buf) ==
  /\ y = [k \in NodeFields |-> y[k]] /\ y.size = size /\ y.state = state /\ y.buf = buf
  /\ y.type = x.type /\ y.refcount = x.refcount /\ y.open_count = x.open_count
  /\ y.dents = x.dents /\ y.load = x.load

LEMMA SizedNodeIs ==
  ASSUME NEW x, IsNode(x), x.type = "REG", x.state # "LOADED", NEW size \in Nat,
         NEW state \in States, state # "LOADED", NEW buf, IsSeq(buf), NEW y,
         SizedNode(x, y, size, state, buf)
  PROVE  Resizes(x, y)
<1>1. /\ y = [k \in NodeFields |-> y[k]] /\ y.size \in Nat /\ y.state \in States
      /\ IsSeq(y.buf) /\ y.type = "REG" /\ y.refcount \in Int /\ y.open_count \in Int
      /\ y.dents \in Seq(Dent) /\ IsLoad(y.load) /\ y.dents = <<>>
  BY DEF SizedNode, IsNode
<1>2. IsNode(y)
  BY <1>1 DEF IsNode
<1>3. QED
  BY <1>2 DEF SizedNode, Resizes

SizedTo(f, n, size, diff) == [f EXCEPT !.blocks = @ + diff, !.ino[n].size = size]

LEMMA TruncateCases ==
  ASSUME NEW f, NEW n, NEW size
  PROVE  LET node == f.ino[n]
             diff == ToBlocks(size) - ToBlocks(node.size)
             g == FsTruncate(f, n, size).fs
         IN  \/ g = f
             \/ /\ node.type = "REG" /\ node.state = "UNLOADED"
                /\ g = SizedTo([f EXCEPT !.ino[n].state = IF size = 0 THEN "LOCAL" ELSE @],
                               n, size, diff)
             \/ /\ node.type = "REG" /\ node.state # "UNLOADED" /\ node.state # "LOADING"
                /\ g = SizedTo([BecomeLocal(f, n) EXCEPT !.ino[n].buf = BufTo(node, size)],
                               n, size, diff)
BY DEF FsTruncate, Result, SizedTo, BufTo, GrownTo, ShrunkTo
\* A file object's inode may be of another size after it.
LEMMA TruncateUnloaded ==
  ASSUME NEW f, NEW R, NEW x, NEW a, Solid(f, R, x, a), NEW n \in Ino, NEW size \in Nat,
         f.ino[n].type = "REG", f.ino[n].state = "UNLOADED", NEW g,
         g = SizedTo([f EXCEPT !.ino[n].state = IF size = 0 THEN "LOCAL" ELSE @], n, size,
                     ToBlocks(size) - ToBlocks(f.ino[n].size))
  PROVE  Solid(g, R, x, a) /\ Mild(f, g) /\ g.ino[n].type = "REG"
<1> DEFINE z == f.ino[n]
           state == IF size = 0 THEN "LOCAL" ELSE "UNLOADED"
           e == [f EXCEPT !.ino[n].state = IF size = 0 THEN "LOCAL" ELSE @]
           diff == ToBlocks(size) - ToBlocks(z.size)
           y == [z EXCEPT !.state = state, !.size = size]
<1>1. IsFs(f) /\ IsNode(z) /\ z.type = "REG" /\ z.state = "UNLOADED" /\ IsSeq(z.buf)
  BY DEF Solid, Counts, IsFs, IsNode
<1>2. /\ e = [k \in FsFields |-> e[k]] /\ e.ino = [f.ino EXCEPT ![n] = [z EXCEPT !.state = state]]
      /\ e.file = f.file /\ e.blocks = f.blocks /\ e.cache = f.cache
      /\ e.cache_size = f.cache_size /\ e.called = f.called /\ e.broken = f.broken
  BY <1>1 DEF IsFs, FsFields
<1>3. g = SizedTo(e, n, size, diff)
  OBVIOUS
<1>4. f.ino = [m \in Ino |-> f.ino[m]]
  BY <1>1 DEF IsFs
<1> HIDE DEF e, diff
<1>5. e.ino[n] = [z EXCEPT !.state = state] /\ e.ino = [m \in Ino |-> e.ino[m]]
  BY <1>2, <1>4
<1>6. /\ g = [k \in FsFields |-> g[k]]
      /\ g.ino = [e.ino EXCEPT ![n] = [e.ino[n] EXCEPT !.size = size]]
      /\ g.blocks = e.blocks + diff /\ g.file = e.file /\ g.cache = e.cache
      /\ g.cache_size = e.cache_size /\ g.called = e.called /\ g.broken = e.broken
  BY <1>2, <1>3 DEF SizedTo, FsFields
<1>7. [e.ino[n] EXCEPT !.size = size] = y
  BY <1>1, <1>5 DEF IsNode, NodeFields
<1>8. SizedNode(z, y, size, state, z.buf)
  BY <1>1 DEF IsNode, NodeFields, SizedNode
<1> HIDE DEF y, z
<1>9. g.ino = [f.ino EXCEPT ![n] = y]
  BY <1>2, <1>4, <1>5, <1>6, <1>7
<1>10. Resizes(z, y)
  <2>1. state \in States /\ state # "LOADED" /\ z.state # "LOADED"
    BY <1>1 DEF States
  <2> HIDE DEF state
  <2>2. QED
    BY <1>1, <1>8, <2>1, SizedNodeIs
<1>11. Holds(f, n, y)
  <2>1. y.size = size /\ y.state = state /\ y.buf = z.buf
    BY <1>8 DEF SizedNode
  <2>2. Len(z.buf) \in Nat
    BY <1>1 DEF IsSeq
  <2>3. f.broken = FALSE => ~OpenAt(f, n)
    BY <1>1 DEF Solid, Fresh, NodeHere, InMemory, z
  <2>4. QED
    BY <2>1, <2>2, <2>3 DEF Holds
<1>12. g.blocks = f.blocks + ToBlocks(y.size) - ToBlocks(f.ino[n].size)
  <2>1. y.size = size /\ f.blocks \in Int /\ z.size \in Nat
    BY <1>1, <1>8 DEF SizedNode, IsFs, IsNode
  <2>2. ToBlocks(size) \in Nat /\ ToBlocks(z.size) \in Nat
    BY <2>1, ToBlocksIs
  <2>3. QED
    BY <1>2, <1>6, <2>1, <2>2 DEF diff, z
<1>13. SizedFs(f, g, n, y)
  BY <1>2, <1>6, <1>9, <1>12 DEF SizedFs
<1>14. Solid(g, R, x, a) /\ Mild(f, g) /\ g.ino[n] = y
  BY <1>10, <1>11, <1>13, SizeIs DEF z
<1>15. QED
  BY <1>1, <1>10, <1>14 DEF Resizes

LEMMA TruncateLocal ==
  ASSUME NEW f, NEW R, NEW x, NEW a, Solid(f, R, x, a), NEW n \in Ino, NEW size \in Nat,
         f.ino[n].type = "REG", f.ino[n].state # "UNLOADED", f.ino[n].state # "LOADING", NEW g,
         g = SizedTo([BecomeLocal(f, n) EXCEPT !.ino[n].buf = BufTo(f.ino[n], size)], n, size,
                     ToBlocks(size) - ToBlocks(f.ino[n].size))
  PROVE  Solid(g, R, x, a) /\ Mild(f, g) /\ g.ino[n].type = "REG"
<1> DEFINE u == BecomeLocal(f, n)
           z == u.ino[n]
           buf == BufTo(f.ino[n], size)
           e == [u EXCEPT !.ino[n].buf = buf]
           diff == ToBlocks(size) - ToBlocks(f.ino[n].size)
           y == [z EXCEPT !.buf = buf, !.size = size]
<1>1. IsFs(f) /\ IsNode(f.ino[n]) /\ f.ino[n].type = "REG" /\ f.ino[n].state \in States
  BY DEF Solid, Counts, IsFs, IsNode
<1>2. Localizes(f, u, n)
  BY <1>1, BecomeLocalIs
<1>3. g = SizedTo(e, n, size, diff)
  OBVIOUS
<1> HIDE DEF u
<1>4. Solid(u, R, x, a)
  BY <1>1, <1>2, LightCounts, LocalFresh DEF Solid, Localizes
<1>5. /\ IsFs(u) /\ IsNode(z) /\ u.broken = f.broken /\ z.state = "LOCAL" /\ z.type = "REG"
      /\ z.buf = f.ino[n].buf /\ z.size = f.ino[n].size
  <2>1. Light(f, u) /\ z.buf = f.ino[n].buf /\ u.broken = f.broken
    BY <1>2 DEF Localizes
  <2>2. IsFs(u) /\ IsNode(z) /\ SameNode(f.ino[n], z)
    BY <2>1 DEF Light, IsFs
  <2>3. f.ino[n].state \in {"LOCAL", "LOADED"}
    BY <1>1 DEF States
  <2>4. z.state = "LOCAL"
    BY <1>2, <2>3 DEF Localizes
  <2>5. QED
    BY <1>1, <2>1, <2>2, <2>4 DEF SameNode
<1>6. /\ e = [k \in FsFields |-> e[k]] /\ e.ino = [u.ino EXCEPT ![n] = [z EXCEPT !.buf = buf]]
      /\ e.file = u.file /\ e.blocks = u.blocks /\ e.cache = u.cache
      /\ e.cache_size = u.cache_size /\ e.called = u.called /\ e.broken = u.broken
  BY <1>5 DEF IsFs, FsFields
<1>7. u.ino = [m \in Ino |-> u.ino[m]]
  BY <1>5 DEF IsFs
<1> HIDE DEF e, diff, buf
<1>8. e.ino[n] = [z EXCEPT !.buf = buf] /\ e.ino = [m \in Ino |-> e.ino[m]]
  BY <1>6, <1>7
<1>9. /\ g = [k \in FsFields |-> g[k]]
      /\ g.ino = [e.ino EXCEPT ![n] = [e.ino[n] EXCEPT !.size = size]]
      /\ g.blocks = e.blocks + diff /\ g.file = e.file /\ g.cache = e.cache
      /\ g.cache_size = e.cache_size /\ g.called = e.called /\ g.broken = e.broken
  BY <1>3, <1>6 DEF SizedTo, FsFields
<1>10. [e.ino[n] EXCEPT !.size = size] = y
  BY <1>5, <1>8 DEF IsNode, NodeFields
<1>11. SizedNode(z, y, size, "LOCAL", buf)
  BY <1>5 DEF IsNode, NodeFields, SizedNode
<1> HIDE DEF y, z
<1>12. g.ino = [u.ino EXCEPT ![n] = y]
  BY <1>6, <1>7, <1>8, <1>9, <1>10
<1>13. IsSeq(buf) /\ (f.ino[n].size <= Len(f.ino[n].buf) => size <= Len(buf))
  BY <1>1, BufToIs DEF buf
<1>14. Resizes(z, y)
  <2>1. "LOCAL" \in States /\ "LOCAL" # "LOADED" /\ z.state # "LOADED"
    BY <1>5 DEF States
  <2>2. QED
    BY <1>5, <1>11, <1>13, <2>1, SizedNodeIs
<1>15. Holds(u, n, y)
  <2>1. y.size = size /\ y.state = "LOCAL" /\ y.buf = buf
    BY <1>11 DEF SizedNode
  <2>2. u.broken = FALSE => f.ino[n].size <= Len(f.ino[n].buf)
    BY <1>5 DEF Solid, Fresh, NodeHere
  <2>3. QED
    BY <2>1, <2>2, <1>13 DEF Holds, InMemory
<1>16. g.blocks = u.blocks + ToBlocks(y.size) - ToBlocks(u.ino[n].size)
  <2>1. y.size = size /\ u.blocks \in Int /\ z.size \in Nat /\ f.ino[n].size = z.size
    BY <1>5, <1>11 DEF SizedNode, IsFs, IsNode
  <2>2. ToBlocks(size) \in Nat /\ ToBlocks(z.size) \in Nat
    BY <2>1, ToBlocksIs
  <2>3. QED
    BY <1>6, <1>9, <2>1, <2>2 DEF diff, z
<1>17. SizedFs(u, g, n, y)
  BY <1>6, <1>9, <1>12, <1>16 DEF SizedFs
<1>18. Solid(g, R, x, a) /\ Mild(u, g) /\ g.ino[n] = y
  BY <1>4, <1>5, <1>14, <1>15, <1>17, SizeIs DEF z
<1>19. Mild(f, g)
  BY <1>2, <1>18, LightMild, MildThen DEF Localizes
<1>20. QED
  BY <1>5, <1>14, <1>18, <1>19 DEF Resizes

LEMMA TruncateIs ==
  ASSUME NEW f, NEW R, NEW x, NEW a, Solid(f, R, x, a), NEW n \in Ino, NEW size \in Nat
  PROVE  LET g == FsTruncate(f, n, size).fs
         IN  Solid(g, R, x, a) /\ Mild(f, g) /\ g.ino[n].type = f.ino[n].type
<1> DEFINE g == FsTruncate(f, n, size).fs
           diff == ToBlocks(size) - ToBlocks(f.ino[n].size)
<1>1. CASE g = f
  BY <1>1, MildSelf
<1>2. CASE /\ f.ino[n].type = "REG" /\ f.ino[n].state = "UNLOADED"
           /\ g = SizedTo([f EXCEPT !.ino[n].state = IF size = 0 THEN "LOCAL" ELSE @],
                          n, size, diff)
  BY <1>2, TruncateUnloaded
<1>3. CASE /\ f.ino[n].type = "REG" /\ f.ino[n].state # "UNLOADED"
           /\ f.ino[n].state # "LOADING"
           /\ g = SizedTo([BecomeLocal(f, n) EXCEPT !.ino[n].buf = BufTo(f.ino[n], size)],
                          n, size, diff)
  BY <1>3, TruncateLocal
<1>4. QED
  BY <1>1, <1>2, <1>3, TruncateCases

\* A buffer with other bytes.
Rebuffers(f, g, n) ==
  /\ Light(f, g) /\ g.broken = f.broken /\ g.cache = f.cache /\ g.cache_size = f.cache_size
  /\ g.called = f.called
  /\ \A m \in Ino : /\ g.ino[m].state = f.ino[m].state /\ g.ino[m].load = f.ino[m].load
                    /\ Len(g.ino[m].buf) = Len(f.ino[m].buf)
                    /\ m # n => g.ino[m] = f.ino[m]

LEMMA BufIs ==
  ASSUME NEW f, IsFs(f), Fresh(f), NEW n \in Ino, NEW b, IsSeq(b), Len(b) = Len(f.ino[n].buf)
  PROVE  LET g == [f EXCEPT !.ino[n].buf = b]
         IN  Rebuffers(f, g, n) /\ Fresh(g)
<1> DEFINE g == [f EXCEPT !.ino[n].buf = b]
           z == f.ino[n]
           y == [z EXCEPT !.buf = b]
<1>1. IsNode(z)
  BY DEF IsFs
<1>2. /\ g = [k \in FsFields |-> g[k]] /\ g.ino = [f.ino EXCEPT ![n] = y]
      /\ g.file = f.file /\ g.blocks = f.blocks /\ g.cache = f.cache
      /\ g.cache_size = f.cache_size /\ g.called = f.called /\ g.broken = f.broken
  BY DEF IsFs, FsFields
<1>3. /\ y = [k \in NodeFields |-> y[k]] /\ SameNode(z, y) /\ y.state = z.state
      /\ y.load = z.load /\ y.buf = b
  BY <1>1 DEF IsNode, NodeFields, SameNode
<1>4. y.state \in States /\ IsSeq(y.buf) /\ IsLoad(y.load)
  BY <1>1, <1>3 DEF IsNode
<1> HIDE DEF y, g, z
<1>5. IsNode(y)
  BY <1>1, <1>3, <1>4, NodeStays
<1>6. Alters(f, g, n, y)
  BY <1>2, <1>3, <1>5 DEF Alters, IsFs, z
<1>7. Light(f, g) /\ g.ino[n] = y /\ \A m \in Ino : m # n => g.ino[m] = f.ino[m]
  BY <1>6, LightChange
<1>8. Rebuffers(f, g, n)
  BY <1>2, <1>3, <1>7 DEF Rebuffers, z
<1>9. Fresh(g)
  <2> SUFFICES ASSUME g.broken = FALSE
               PROVE  Cached(g) /\ \A m \in Ino : NodeHere(g, m)
    BY DEF Fresh
  <2>1. Cached(f) /\ \A m \in Ino : NodeHere(f, m)
    BY <1>2 DEF Fresh
  <2>2. \A m \in Ino : /\ g.ino[m].state = f.ino[m].state /\ g.ino[m].type = f.ino[m].type
                       /\ g.ino[m].size = f.ino[m].size
                       /\ Len(g.ino[m].buf) = Len(f.ino[m].buf)
    BY <1>7, <1>8 DEF Rebuffers, Light, SameNode
  <2>3. Cached(g)
    BY <1>2, <2>1, <2>2, CachedStays
  <2>4. \A m \in Ino : NodeHere(g, m)
    BY <1>2, <2>1, <2>2 DEF NodeHere, OpenAt, InMemory
  <2>5. QED
    BY <2>3, <2>4
<1>10. QED
  BY <1>8, <1>9 DEF g

Longer(f, n, end) == IF end > f.ino[n].size THEN FsTruncate(f, n, end).fs ELSE f
Wrote(u, n, off, data) == [u EXCEPT !.ino[n].buf = Written(@, off, data)]

LEMMA WriteCases ==
  ASSUME NEW f, NEW o, NEW off, NEW data
  PROVE  LET n == f.file[o].ino
             long == Longer(f, n, off + Len(data))
             g == FsWrite(f, o, off, data).fs
         IN  \/ g = f
             \/ MayWrite(f, o) /\ g = long
             \/ MayWrite(f, o) /\ g = Wrote(BecomeLocal(long, n), n, off, data)
BY ZenonT(30) DEF FsWrite, Result, Longer, Wrote

LEMMA WriteIs ==
  ASSUME NEW f, NEW R, NEW x, NEW a, Solid(f, R, x, a), NEW o \in FsFile, NEW off \in Nat,
         NEW data, Len(data) \in Nat
  PROVE  LET g == FsWrite(f, o, off, data).fs
         IN  Solid(g, R, x, a) /\ Mild(f, g)
<1> DEFINE n == f.file[o].ino
           end == off + Len(data)
           long == Longer(f, n, end)
           u == BecomeLocal(long, n)
           g == FsWrite(f, o, off, data).fs
<1>1. ASSUME g = f
      PROVE  Solid(g, R, x, a) /\ Mild(f, g)
  BY <1>1, MildSelf
<1>2. ASSUME MayWrite(f, o)
      PROVE  n \in Ino /\ Solid(long, R, x, a) /\ Mild(f, long)
  <2>1. n \in Ino
    BY <1>2 DEF MayWrite, IsType, Solid, Counts, IsFs, IsFile
  <2>2. end \in Nat
    OBVIOUS
  <2>3. CASE end > f.ino[n].size
    BY <2>1, <2>2, <2>3, TruncateIs DEF Longer
  <2>4. CASE ~(end > f.ino[n].size)
    BY <2>1, <2>4, MildSelf DEF Longer
  <2>5. QED
    BY <2>1, <2>3, <2>4
<1>3. ASSUME MayWrite(f, o), g = long
      PROVE  Solid(g, R, x, a) /\ Mild(f, g)
  BY <1>2, <1>3
<1>4. ASSUME MayWrite(f, o), g = Wrote(u, n, off, data)
      PROVE  Solid(g, R, x, a) /\ Mild(f, g)
  <2>1. n \in Ino /\ Solid(long, R, x, a) /\ Mild(f, long)
    BY <1>2, <1>4
  <2> HIDE DEF n, long
  <2>2. Localizes(long, u, n) /\ IsFs(long)
    BY <2>1, BecomeLocalIs DEF Solid, Counts
  <2>3. g = [u EXCEPT !.ino[n].buf = Written(@, off, data)]
    BY <1>4 DEF Wrote
  <2> HIDE DEF u, g
  <2>4. Solid(u, R, x, a) /\ Mild(long, u)
    BY <2>1, <2>2, LightCounts, LightMild, LocalFresh DEF Solid, Localizes
  <2> DEFINE b == Written(u.ino[n].buf, off, data)
  <2>5. IsFs(u) /\ Fresh(u)
    BY <2>4 DEF Solid, Counts
  <2>6. IsSeq(b) /\ Len(b) = Len(u.ino[n].buf)
    <3>1. IsSeq(u.ino[n].buf)
      BY <2>1, <2>5 DEF IsFs, IsNode
    <3>2. QED
      BY <3>1, WrittenIs
  <2>7. g = [u EXCEPT !.ino[n].buf = b]
    BY <2>1, <2>3, <2>5 DEF IsFs, FsFields, IsNode, NodeFields
  <2> HIDE DEF b
  <2>8. Rebuffers(u, g, n) /\ Fresh(g)
    BY <2>1, <2>5, <2>6, <2>7, BufIs
  <2>9. Solid(g, R, x, a) /\ Mild(u, g)
    BY <2>4, <2>8, LightCounts, LightMild DEF Solid, Rebuffers
  <2>10. Mild(f, g)
    BY <2>1, <2>4, <2>9, MildThen
  <2>11. QED
    BY <2>9, <2>10
<1>5. \/ g = f
      \/ MayWrite(f, o) /\ g = long
      \/ MayWrite(f, o) /\ g = Wrote(u, n, off, data)
  BY WriteCases
<1>6. Solid(g, R, x, a) /\ Mild(f, g)
  <2> HIDE DEF g, u, long, n
  <2>1. QED
    BY <1>1, <1>3, <1>4, <1>5
<1>7. QED
  BY <1>6

-----------------------------------------------------------------------------
(* Opens.                                                                  *)

FileInos(f, g) == \A p \in FsFile : g.file[p].ino = f.file[p].ino

\* Who waits for what after an open: nobody, or the file object that is opened.
Waits(f, r, o) ==
  Quiet(f) =>
    /\ r.fs.called = f.called
    /\ r.err # "LATER" => Quiet(r.fs)
    /\ r.err = "LATER" => \A m \in Ino : r.fs.ino[m].load.cb \in {NoFile, o}
                                          /\ (r.fs.ino[m].load.cb = o => m = f.file[o].ino)
Opening(f, R, r, o) ==
  /\ Solid(r.fs, R, NoFile, NoIno) /\ FileInos(f, r.fs) /\ Waits(f, r, o)
  /\ \A m \in Ino : r.fs.ino[m].type \in {f.ino[m].type, "NONE"}

LEMMA OpenedIs ==
  ASSUME NEW f, NEW R, Solid(f, R, NoFile, NoIno), NEW o \in FsFile, f.file[o].ino \in Ino,
         f.broken = FALSE => \/ f.ino[f.file[o].ino].type # "REG"
                             \/ InMemory(f.ino[f.file[o].ino])
  PROVE  Opening(f, R, Opened(f, o), o)
<1> DEFINE x == f.file[o]
           z == [x EXCEPT !.is_opened = TRUE]
           g == [f EXCEPT !.file[o].is_opened = TRUE]
<1>1. IsFs(f) /\ IsFile(x)
  BY DEF Solid, Counts, IsFs
<1>2. /\ g = [k \in FsFields |-> g[k]] /\ g.file = [f.file EXCEPT ![o] = z]
      /\ g.ino = f.ino /\ g.blocks = f.blocks /\ g.cache = f.cache
      /\ g.cache_size = f.cache_size /\ g.called = f.called /\ g.broken = f.broken
  BY <1>1 DEF IsFs, FsFields
<1>3. Opened(f, o).fs = g /\ Opened(f, o).err = "OK"
  BY DEF Opened, Result
<1> HIDE DEF x, g
<1>4. IsFile(z) /\ z.ino = x.ino /\ z.is_opened = TRUE
  BY <1>1 DEF IsFile, FileFields
<1> HIDE DEF z
<1>5. SetsFile(f, g, o, z) /\ MayOpen(f, z) /\ z.ino = f.file[o].ino
  BY <1>2, <1>4 DEF SetsFile, MayOpen, x
<1>6. /\ Solid(g, R, NoFile, NoIno) /\ Steady(f, g)
      /\ g.file[o] = z /\ \A p \in FsFile : p # o => g.file[p] = f.file[p]
  BY <1>5, EditFileIs
<1>7. FileInos(f, g)
  BY <1>5, <1>6 DEF FileInos
<1>8. QED
  BY <1>3, <1>6, <1>7 DEF Opening, Waits, Steady

\* An open waits for the transfer.
LEMMA WaitForIs ==
  ASSUME NEW f, NEW R, Solid(f, R, NoFile, NoIno), NEW o \in FsFile, NEW n \in Ino,
         n = f.file[o].ino
  PROVE  Opening(f, R, WaitFor(f, o, n), o)
<1> DEFINE x == f.ino[n]
           y == [x EXCEPT !.load.cb = o]
           g == [f EXCEPT !.ino[n].load.cb = o]
           r == WaitFor(f, o, n)
<1>1. IsFs(f) /\ IsNode(x) /\ IsLoad(x.load)
  BY ZenonT(30) DEF Solid, Counts, IsFs, IsNode
<1>2. /\ g = [k \in FsFields |-> g[k]] /\ g.ino = [f.ino EXCEPT ![n] = y]
      /\ g.file = f.file /\ g.blocks = f.blocks /\ g.cache = f.cache
      /\ g.cache_size = f.cache_size /\ g.called = f.called /\ g.broken = f.broken
  BY <1>1 DEF IsFs, FsFields
<1>3. IF f.ino[n].load.cb # NoFile THEN r.fs = f /\ r.err = "EIO"
      ELSE r.fs = g /\ r.err = "LATER"
  BY DEF WaitFor, Result
<1>4. CASE f.ino[n].load.cb # NoFile
  <2>1. r.fs = f /\ r.err = "EIO"
    BY <1>3, <1>4
  <2>2. QED
    BY <2>1 DEF Opening, Waits, FileInos
<1>5. CASE f.ino[n].load.cb = NoFile
  <2> HIDE DEF x, g, r
  <2>1. y = [x EXCEPT !.load = [x.load EXCEPT !.cb = o]]
    BY <1>1 DEF IsNode, NodeFields
  <2> DEFINE l == [x.load EXCEPT !.cb = o]
  <2>2. IsLoad(l) /\ l.cb = o
    BY <1>1 DEF IsLoad, LoadFields
  <2> HIDE DEF l, y
  <2>3. /\ y = [k \in NodeFields |-> y[k]] /\ y.load = l
        /\ y.type = x.type /\ y.refcount = x.refcount /\ y.open_count = x.open_count
        /\ y.dents = x.dents /\ y.state = x.state /\ y.size = x.size /\ y.buf = x.buf
    BY <1>1, <2>1 DEF IsNode, NodeFields, l
  <2>4. IsNode(y)
    <3>1. /\ y.refcount \in Int /\ y.open_count \in Int /\ y.dents \in Seq(Dent)
          /\ y.state \in States /\ y.size \in Nat /\ IsSeq(y.buf) /\ IsLoad(y.load)
      BY <1>1, <2>2, <2>3 DEF IsNode
    <3>2. /\ y.type = "NONE" => y.refcount = 0 /\ y.open_count = 0 /\ y.size = 0
          /\ y.type # "DIR" => y.dents = <<>>
          /\ y.type = "DIR" => y.size = DirentSize * Len(y.dents)
      BY <1>1, <2>3 DEF IsNode
    <3>3. QED
      BY <2>3, <3>1, <3>2 DEF IsNode
  <2>5. IsFs(g) /\ g.ino[n] = y /\ \A m \in Ino : m # n => g.ino[m] = f.ino[m]
    <3>1. Edits(f, g, n, y)
      BY <1>1, <1>2, <2>4 DEF Edits, IsFs
    <3>2. QED
      BY <3>1, <1>1, EditsIs
  <2>6. \A m \in Ino : /\ g.ino[m].type = f.ino[m].type /\ g.ino[m].refcount = f.ino[m].refcount
                       /\ g.ino[m].open_count = f.ino[m].open_count
                       /\ g.ino[m].dents = f.ino[m].dents /\ g.ino[m].state = f.ino[m].state
                       /\ g.ino[m].size = f.ino[m].size /\ g.ino[m].buf = f.ino[m].buf
    BY <2>3, <2>5 DEF x
  <2>7. Fresh(g)
    <3>1. Still(f, g)
      BY <1>2, <2>6 DEF Still, OpenAt
    <3>2. QED
      BY <3>1, StillFresh DEF Solid
  <2>8. SameCounts(f, g)
    BY <1>2, <2>5, <2>6 DEF SameCounts
  <2>12. Solid(g, R, NoFile, NoIno)
    BY <2>7, <2>8, CountsKept DEF Solid
  <2>13. r.fs = g /\ r.err = "LATER"
    BY <1>3, <1>5 DEF r
  <2>14. FileInos(f, g)
    BY <1>2 DEF FileInos
  <2>15. Waits(f, r, o)
    <3>1. y.load.cb = o
      BY <2>2, <2>3
    <3>2. o # NoFile
      BY FsFileAssumption
    <3>3. QED
      BY <1>2, <2>5, <2>13, <3>1, <3>2 DEF Waits, Quiet
  <2>16. QED
    BY <2>6, <2>12, <2>13, <2>14, <2>15 DEF Opening, r
<1>6. QED
  BY <1>4, <1>5

\* After a load.
LEMMA OpeningAfter ==
  ASSUME NEW f, NEW g, NEW R, NEW o \in FsFile, NEW r, Steady(f, g), FileInos(f, g), Opening(g, R, r, o)
  PROVE  Opening(f, R, r, o)
<1>1. FileInos(f, r.fs)
  BY DEF Opening, FileInos
<1>2. Waits(f, r, o)
  BY DEF Opening, Waits, Steady, FileInos
<1>3. QED
  BY <1>1, <1>2 DEF Opening, Steady

LEMMA LoadedSolid ==
  ASSUME NEW f, NEW g, NEW R, NEW x, NEW a, Solid(f, R, x, a), Light(f, g), Fresh(g)
  PROVE  Solid(g, R, x, a) /\ Steady(f, g) /\ FileInos(f, g)
<1>1. Counts(g, R, x, a, NoIno)
  BY LightCounts DEF Solid
<1>2. Mild(f, g)
  BY LightMild
<1>3. QED
  BY <1>1, <1>2, MildSteady DEF Solid, FileInos

LEMMA OpenRegularIs ==
  ASSUME NEW f, NEW R, Solid(f, R, NoFile, NoIno), NEW o \in FsFile, NEW n \in Ino,
         n = f.file[o].ino, f.ino[n].type = "REG"
  PROVE  Opening(f, R, FsOpenRegular(f, o, n), o)
<1> DEFINE r == FsOpenRegular(f, o, n)
<1>1. IsFs(f) /\ Fresh(f) /\ Guarded(f) /\ f.ino[n].state \in States
  BY SolidGuarded DEF Solid, Counts, IsFs, IsNode
<1>2. CASE f.ino[n].state = "UNLOADED"
  <2> DEFINE l == PreloadFiles(f, f.ino[n].file_id)
             w == IF l.ino[n].state = "LOADING" THEN l ELSE OpenWget(l, n, "REG")
  <2>1. r = WaitFor(w, o, n)
    BY <1>2 DEF FsOpenRegular
  <2>2. Loaded(f, l)
    BY <1>1, PreloadFilesIs
  <2> HIDE DEF l
  <2>3. /\ Light(f, l) /\ IsFs(l) /\ Fresh(l) /\ Guarded(l)
        /\ l.ino[n].state \in {"UNLOADED", "LOADING"} /\ l.ino[n].type = "REG"
    BY <1>2, <2>2 DEF Loaded, Loading, Out, Light, SameNode
  <2>4. Light(l, w) /\ Fresh(w)
    <3>1. CASE l.ino[n].state = "LOADING"
      BY <2>3, <3>1, LightSelf
    <3>2. CASE l.ino[n].state # "LOADING"
      <4>1. Unloaded(l, n)
        BY <2>3, <3>2 DEF Unloaded
      <4>2. Loading(l, OpenWget(l, n, "REG")) /\ Fresh(OpenWget(l, n, "REG"))
        BY <4>1, <2>3, OpenWgetIs
      <4>3. QED
        BY <3>2, <4>2 DEF Loading
    <3>3. QED
      BY <3>1, <3>2
  <2> HIDE DEF w
  <2>5. Light(f, w)
    BY <2>3, <2>4, LightThen
  <2>6. Solid(w, R, NoFile, NoIno) /\ Steady(f, w) /\ FileInos(f, w)
    BY <2>4, <2>5, LoadedSolid
  <2>7. Opening(w, R, WaitFor(w, o, n), o)
    BY <2>6, WaitForIs DEF FileInos
  <2>8. QED
    BY <2>1, <2>6, <2>7, OpeningAfter
<1>3. CASE f.ino[n].state = "LOADING"
  <2>1. r = WaitFor(f, o, n)
    BY <1>3 DEF FsOpenRegular
  <2>2. QED
    BY <2>1, WaitForIs
<1>4. CASE f.ino[n].state = "LOCAL"
  <2>1. r = Opened(f, o)
    BY <1>4 DEF FsOpenRegular
  <2>2. QED
    BY <1>4, <2>1, OpenedIs DEF InMemory
<1>5. CASE f.ino[n].state = "LOADED"
  <2> DEFINE w == ToFront(f, n)
  <2>1. r = Opened(w, o)
    BY <1>5 DEF FsOpenRegular
  <2>2. Loaded(f, w) /\ w.ino = f.ino
    BY <1>1, <1>5, ToFrontIs
  <2> HIDE DEF w
  <2>3. Solid(w, R, NoFile, NoIno) /\ Steady(f, w) /\ FileInos(f, w)
    BY <2>2, LoadedSolid DEF Loaded, Loading
  <2>4. Opening(w, R, Opened(w, o), o)
    BY <1>5, <2>2, <2>3, OpenedIs DEF InMemory, FileInos
  <2>5. QED
    BY <2>1, <2>3, <2>4, OpeningAfter
<1>6. QED
  BY <1>1, <1>2, <1>3, <1>4, <1>5 DEF States

LEMMA FlagIs ==
  ASSUME NEW f, NEW R, Solid(f, R, NoFile, NoIno), NEW o \in FsFile, NEW flags
  PROVE  LET closed == FsClose(f, o)
             flagged == [closed EXCEPT !.file[o].flags = flags]
         IN  /\ Solid(closed, R, NoFile, NoIno) /\ Steady(f, closed) /\ FileInos(f, closed)
             /\ Solid(flagged, R, NoFile, NoIno) /\ Steady(f, flagged) /\ FileInos(f, flagged)
             /\ flagged.ino = f.ino /\ closed.ino = f.ino
<1> DEFINE c == FsClose(f, o)
           g == [c EXCEPT !.file[o].flags = flags]
           x == [f.file[o] EXCEPT !.is_opened = FALSE]
           z == [x EXCEPT !.flags = flags]
<1>1. IsFs(f) /\ IsFile(f.file[o])
  BY DEF Solid, Counts, IsFs
<1>2. SetsFile(f, c, o, x) /\ MayOpen(f, x) /\ x.ino = f.file[o].ino /\ x.is_opened = FALSE
  BY <1>1, CloseIs
<1> HIDE DEF c, x
<1>3. /\ Solid(c, R, NoFile, NoIno) /\ Steady(f, c)
      /\ c.file[o] = x /\ \A p \in FsFile : p # o => c.file[p] = f.file[p]
  BY <1>2, EditFileIs
<1>4. FileInos(f, c) /\ c.ino = f.ino
  BY <1>2, <1>3 DEF FileInos, SetsFile
<1>5. IsFs(c) /\ IsFile(x)
  BY <1>2, <1>3 DEF Solid, Counts, SetsFile
<1>6. /\ g = [k \in FsFields |-> g[k]] /\ g.file = [c.file EXCEPT ![o] = z]
      /\ g.ino = c.ino /\ g.blocks = c.blocks /\ g.cache = c.cache
      /\ g.cache_size = c.cache_size /\ g.called = c.called /\ g.broken = c.broken
  BY <1>3, <1>5 DEF IsFs, FsFields
<1>7. IsFile(z) /\ z.ino = x.ino /\ z.is_opened = FALSE
  BY <1>2, <1>5 DEF IsFile, FileFields
<1> HIDE DEF g, z
<1>8. SetsFile(c, g, o, z) /\ MayOpen(c, z) /\ z.ino = c.file[o].ino
  BY <1>3, <1>6, <1>7 DEF SetsFile, MayOpen
<1>9. /\ Solid(g, R, NoFile, NoIno) /\ Steady(c, g)
      /\ g.file[o] = z /\ \A p \in FsFile : p # o => g.file[p] = c.file[p]
  BY <1>3, <1>8, EditFileIs
<1>10. FileInos(f, g) /\ g.ino = f.ino
  BY <1>4, <1>6, <1>8, <1>9 DEF FileInos
<1>11. Steady(f, g)
  BY <1>3, <1>9, SteadyThen
<1>12. QED
  BY <1>3, <1>4, <1>9, <1>10, <1>11 DEF c, g

LEMMA OpenIs ==
  ASSUME NEW f, NEW R, Solid(f, R, NoFile, NoIno), NEW o \in FsFile, f.file[o].ino \in Ino,
         NEW flags, NEW dir, NEW trunc
  PROVE  Opening(f, R, FsOpen(f, o, flags, dir, trunc), o)
<1> DEFINE n == f.file[o].ino
           type == f.ino[n].type
           closed == FsClose(f, o)
           flagged == [closed EXCEPT !.file[o].flags = flags]
           cut == IF trunc /\ flags # "R" THEN FsTruncate(flagged, n, 0).fs ELSE flagged
           r == FsOpen(f, o, flags, dir, trunc)
<1>1. /\ Solid(closed, R, NoFile, NoIno) /\ Steady(f, closed) /\ FileInos(f, closed)
      /\ Solid(flagged, R, NoFile, NoIno) /\ Steady(f, flagged) /\ FileInos(f, flagged)
      /\ flagged.ino = f.ino /\ closed.ino = f.ino
  BY FlagIs
<1>2. \/ r.fs = closed /\ r.err # "LATER"
      \/ type = "DIR" /\ r = Opened(flagged, o)
      \/ type = "REG" /\ r = FsOpenRegular(cut, o, n)
  BY DEF FsOpen, Result
<1> HIDE DEF r, closed, flagged
<1>3. /\ Solid(cut, R, NoFile, NoIno) /\ Steady(f, cut) /\ FileInos(f, cut)
      /\ cut.ino[n].type = type
  <2>1. CASE trunc /\ flags # "R"
    <3> DEFINE g == FsTruncate(flagged, n, 0).fs
    <3>0. n \in Ino /\ 0 \in Nat
      OBVIOUS
    <3> HIDE DEF n
    <3>1. Solid(g, R, NoFile, NoIno) /\ Mild(flagged, g) /\ g.ino[n].type = flagged.ino[n].type
      BY <1>1, <3>0, TruncateIs
    <3>2. cut = g
      BY <2>1
    <3> HIDE DEF g, cut
    <3>3. Steady(flagged, g) /\ g.file = flagged.file
      BY <3>1, MildSteady
    <3>4. FileInos(f, g)
      BY <1>1, <3>3 DEF FileInos
    <3>5. QED
      BY <1>1, <3>1, <3>2, <3>3, <3>4, SteadyThen
  <2>2. CASE ~(trunc /\ flags # "R")
    BY <1>1, <2>2
  <2>3. QED
    BY <2>1, <2>2
<1> HIDE DEF cut
<1>4. CASE r.fs = closed /\ r.err # "LATER"
  BY <1>1, <1>4 DEF Opening, Waits, Steady, r
<1>5. CASE type = "DIR" /\ r = Opened(flagged, o)
  <2>1. Opening(flagged, R, Opened(flagged, o), o)
    BY <1>1, <1>5, OpenedIs DEF FileInos
  <2>2. QED
    BY <1>1, <1>5, <2>1, OpeningAfter DEF r
<1>6. CASE type = "REG" /\ r = FsOpenRegular(cut, o, n)
  <2>1. Opening(cut, R, FsOpenRegular(cut, o, n), o)
    BY <1>3, <1>6, OpenRegularIs DEF FileInos
  <2>2. QED
    BY <1>3, <1>6, <2>1, OpeningAfter DEF r
<1>7. QED
  BY <1>2, <1>4, <1>5, <1>6

-----------------------------------------------------------------------------
(* The ends of transfers.                                                  *)

\* A transfer has ended, and who waits for it is called.
Calls(f, g, n, err) ==
  /\ FileInos(f, g)
  /\ \A m \in Ino : g.ino[m].type = f.ino[m].type
  /\ g.ino[n].load.cb = NoFile
  /\ \A m \in Ino : m # n => g.ino[m].load.cb = f.ino[m].load.cb
  /\ g.called = IF f.ino[n].load.cb = NoFile THEN f.called
                ELSE Append(f.called, [file |-> f.ino[n].load.cb, err |-> err])

LEMMA ErrorSolid ==
  ASSUME NEW f, NEW R, NEW x, NEW a, Solid(f, R, x, a), NEW n \in Ino
  PROVE  Solid(SetError(f, n), R, x, a) /\ Calls(f, SetError(f, n), n, "EIO")
<1> DEFINE g == SetError(f, n)
<1>1. IsFs(f) /\ Fresh(f)
  BY DEF Solid, Counts
<1>2. Fails(f, g, n) /\ Fresh(g)
  BY <1>1, SetErrorIs, SetErrorFresh
<1>3. g.called = IF f.ino[n].load.cb = NoFile THEN f.called
                 ELSE Append(f.called, [file |-> f.ino[n].load.cb, err |-> "EIO"])
  BY <1>1 DEF SetError, IsFs, FsFields
<1> HIDE DEF g
<1>4. Light(f, g)
  BY <1>2 DEF Fails
<1>5. Solid(g, R, x, a)
  BY <1>2, <1>4, LightCounts DEF Solid
<1>6. Calls(f, g, n, "EIO")
  BY <1>2, <1>3, <1>4, NoLoadIs DEF Calls, Fails, Light, SameNode, FileInos
<1>7. QED
  BY <1>5, <1>6 DEF g

\* The state of a file that has come, before who waits for it is called.
Comes(f, g, n, y) ==
  /\ g = [k \in FsFields |-> g[k]] /\ g.ino = [f.ino EXCEPT ![n] = y] /\ g.file = f.file
  /\ g.blocks = f.blocks /\ g.cache = <<n>> \o f.cache
  /\ g.cache_size = f.cache_size + f.ino[n].size /\ g.called = f.called
  /\ g.broken \in BOOLEAN
  /\ g.broken = FALSE <=> f.broken = FALSE /\ f.ino[n].state = "LOADING"
ComeNode(x, y) ==
  /\ y = [k \in NodeFields |-> y[k]] /\ y.state = "LOADED" /\ y.load = NoLoad
  /\ y.type = x.type /\ y.refcount = x.refcount /\ y.open_count = x.open_count
  /\ y.dents = x.dents /\ y.size = x.size /\ y.buf = x.buf

LEMMA ComesIs ==
  ASSUME NEW f, NEW R, NEW x, NEW a, Solid(f, R, x, a), NEW n \in Ino, NEW y, NEW g,
         Comes(f, g, n, y), ComeNode(f.ino[n], y)
  PROVE  /\ Solid(g, R, x, a) /\ g.ino[n] = y /\ \A m \in Ino : m # n => g.ino[m] = f.ino[m]
         /\ g.file = f.file /\ g.called = f.called
<1>1. IsFs(f) /\ IsNode(f.ino[n]) /\ Fresh(f)
  BY DEF Solid, Counts, IsFs
<1>2. IsNode(y)
  <2>1. /\ y.refcount \in Int /\ y.open_count \in Int /\ y.dents \in Seq(Dent)
        /\ y.state \in States /\ y.size \in Nat /\ IsSeq(y.buf) /\ IsLoad(y.load)
    BY <1>1, NoLoadIs DEF ComeNode, IsNode, States
  <2>2. /\ y.type = "NONE" => y.refcount = 0 /\ y.open_count = 0 /\ y.size = 0
        /\ y.type # "DIR" => y.dents = <<>>
        /\ y.type = "DIR" => y.size = DirentSize * Len(y.dents)
    BY <1>1 DEF ComeNode, IsNode
  <2>3. QED
    BY <2>1, <2>2 DEF IsNode, ComeNode
<1>3. g.ino[n] = y /\ \A m \in Ino : m # n => g.ino[m] = f.ino[m]
  BY <1>1 DEF Comes, IsFs
<1>4. g.ino = [m \in Ino |-> g.ino[m]]
  BY <1>1 DEF Comes, IsFs
<1>5. <<n>> \o f.cache \in Seq(Ino) /\ f.cache_size + f.ino[n].size \in Int
  BY <1>1 DEF IsFs, IsNode
<1>6. IsFs(g)
  <2>1. \A m \in Ino : IsNode(g.ino[m])
    BY <1>1, <1>2, <1>3 DEF IsFs
  <2>2. g.file = [o \in FsFile |-> g.file[o]] /\ \A o \in FsFile : IsFile(g.file[o])
    BY <1>1 DEF Comes, IsFs
  <2>3. g.blocks \in Int /\ g.cache \in Seq(Ino) /\ g.cache_size \in Int /\ g.broken \in BOOLEAN
    BY <1>1, <1>5 DEF Comes, IsFs
  <2>4. QED
    BY <1>4, <2>1, <2>2, <2>3 DEF Comes, IsFs
<1>7. Counts(g, R, x, a, NoIno)
  <2>1. f.broken = TRUE => g.broken = TRUE
    BY DEF Comes
  <2>2. SameCounts(f, g)
    BY <1>3, <1>6, <2>1 DEF SameCounts, Comes, ComeNode
  <2>3. QED
    BY <2>2, CountsKept DEF Solid
<1>8. ASSUME g.broken = FALSE
      PROVE  Cached(g) /\ \A m \in Ino : NodeHere(g, m)
  <2>1. f.ino[n].state = "LOADING" /\ Cached(f) /\ \A m \in Ino : NodeHere(f, m)
    BY <1>1, <1>8 DEF Comes, Fresh
  <2>2. ElseLoaded(f, g, n)
    BY <1>3 DEF ElseLoaded
  <2>3. Enters(f, g, n)
    BY <1>1, <1>3, <1>6, <2>1, <2>2 DEF Enters, Comes, ComeNode
  <2>4. Cached(g)
    BY <2>1, <2>3, CacheEnters
  <2>5. NodeHere(g, n)
    <3>1. NodeHere(f, n) /\ g.ino[n] = y
      BY <1>3, <2>1
    <3>2. QED
      BY <2>1, <3>1 DEF NodeHere, ComeNode, InMemory
  <2>6. \A m \in Ino : m # n => NodeHere(g, m)
    BY <1>3, <2>1, HereStays DEF Comes
  <2>7. QED
    BY <2>4, <2>5, <2>6
<1>9. QED
  BY <1>3, <1>7, <1>8 DEF Solid, Fresh, Comes

\* A file comes, and the open that waits for it is answered.
LEMMA SetLoadedIs ==
  ASSUME NEW f, NEW R, Solid(f, R, NoFile, NoIno), NEW n \in Ino,
         f.ino[n].load.cb # NoFile => f.file[f.ino[n].load.cb].ino = n
  PROVE  LET g == SetLoaded(f, n)
         IN  Solid(g, R, NoFile, NoIno) /\ Calls(f, g, n, "OK")
<1> DEFINE x == f.ino[n]
           o == x.load.cb
           y == [x EXCEPT !.state = "LOADED", !.load = NoLoad]
           e == [f EXCEPT !.broken = @ \/ f.ino[n].state # "LOADING",
                          !.ino[n].state = "LOADED", !.ino[n].load = NoLoad,
                          !.cache = <<n>> \o @, !.cache_size = @ + f.ino[n].size]
           g == SetLoaded(f, n)
<1>1. IsFs(f) /\ IsNode(x) /\ f.broken \in BOOLEAN /\ IsLoad(x.load)
  BY DEF Solid, Counts, IsFs, IsNode
<1>2. /\ e = [k \in FsFields |-> e[k]] /\ e.ino = [f.ino EXCEPT ![n] = y] /\ e.file = f.file
      /\ e.blocks = f.blocks /\ e.cache = <<n>> \o f.cache
      /\ e.cache_size = f.cache_size + f.ino[n].size /\ e.called = f.called
      /\ e.broken = (f.broken \/ f.ino[n].state # "LOADING")
  BY <1>1 DEF IsFs, FsFields
<1>3. g = IF o = NoFile THEN e
          ELSE [e EXCEPT !.file[o].is_opened = TRUE,
                         !.called = Append(@, [file |-> o, err |-> "OK"])]
  BY DEF SetLoaded
<1> HIDE DEF x, e, g
<1>4. ComeNode(f.ino[n], y)
  BY <1>1 DEF ComeNode, IsNode, NodeFields, x
<1> HIDE DEF y
<1>5. Comes(f, e, n, y)
  BY <1>1, <1>2 DEF Comes
<1>6. /\ Solid(e, R, NoFile, NoIno) /\ e.ino[n] = y
      /\ \A m \in Ino : m # n => e.ino[m] = f.ino[m]
      /\ e.file = f.file /\ e.called = f.called
  BY <1>4, <1>5, ComesIs
<1>7. y.load.cb = NoFile /\ y.type = x.type /\ y.state = "LOADED"
  BY <1>4, NoLoadIs DEF ComeNode, x
<1>8. /\ \A m \in Ino : e.ino[m].type = f.ino[m].type
      /\ e.ino[n].load.cb = NoFile
      /\ \A m \in Ino : m # n => e.ino[m].load.cb = f.ino[m].load.cb
  BY <1>6, <1>7 DEF x
<1>9. CASE o = NoFile
  <2>1. g = e
    BY <1>3, <1>9
  <2>2. Calls(f, e, n, "OK")
    BY <1>6, <1>8, <1>9 DEF Calls, FileInos, x
  <2>3. QED
    BY <1>6, <2>1, <2>2 DEF g
<1>10. CASE o # NoFile
  <2> DEFINE z == [e.file[o] EXCEPT !.is_opened = TRUE]
             w == [e EXCEPT !.file[o].is_opened = TRUE]
  <2>1. o \in FsFile /\ e.file[o].ino = n
    BY <1>1, <1>6, <1>10 DEF IsLoad, x
  <2>2. IsFs(e) /\ IsFile(e.file[o])
    BY <1>6, <2>1 DEF Solid, Counts, IsFs
  <2>3. /\ w = [k \in FsFields |-> w[k]] /\ w.file = [e.file EXCEPT ![o] = z] /\ w.ino = e.ino
        /\ w.blocks = e.blocks /\ w.cache = e.cache /\ w.cache_size = e.cache_size
        /\ w.called = e.called /\ w.broken = e.broken
    BY <2>2 DEF IsFs, FsFields
  <2>4. g = [w EXCEPT !.called = Append(@, [file |-> o, err |-> "OK"])]
    BY <1>3, <1>10, <2>2 DEF IsFs, FsFields
  <2>5. IsFile(z) /\ z.ino = n /\ z.is_opened = TRUE
    BY <2>1, <2>2 DEF IsFile, FileFields
  <2> HIDE DEF w, z
  <2>6. SetsFile(e, w, o, z)
    BY <2>3, <2>5 DEF SetsFile
  <2>7. MayOpen(e, z)
    BY <1>6, <1>7, <2>5 DEF MayOpen, InMemory
  <2>8. /\ Solid(w, R, NoFile, NoIno)
        /\ w.file[o] = z /\ \A p \in FsFile : p # o => w.file[p] = e.file[p]
    BY <1>6, <2>1, <2>5, <2>6, <2>7, EditFileIs
  <2>9. IsFs(w)
    BY <2>8 DEF Solid, Counts
  <2>10. /\ g = [k \in FsFields |-> g[k]] /\ g.ino = w.ino /\ g.file = w.file
         /\ g.blocks = w.blocks /\ g.cache = w.cache /\ g.cache_size = w.cache_size
         /\ g.broken = w.broken
         /\ g.called = Append(w.called, [file |-> o, err |-> "OK"])
    BY <2>4, <2>9 DEF IsFs, FsFields
  <2>11. Solid(g, R, NoFile, NoIno)
    <3>1. IsFs(g)
      BY <2>9, <2>10 DEF IsFs
    <3>2. SameCounts(w, g)
      BY <2>10, <3>1 DEF SameCounts
    <3>3. Still(w, g)
      BY <2>10 DEF Still, OpenAt
    <3>4. QED
      BY <2>8, <3>2, <3>3, CountsKept, StillFresh DEF Solid
  <2>12. FileInos(f, g)
    BY <1>6, <2>1, <2>5, <2>8, <2>10 DEF FileInos
  <2>13. Calls(f, g, n, "OK")
    <3>1. g.called = Append(f.called, [file |-> o, err |-> "OK"])
      BY <1>6, <2>3, <2>10
    <3>2. g.ino = e.ino
      BY <2>3, <2>10
    <3>3. g.called = IF f.ino[n].load.cb = NoFile THEN f.called
                     ELSE Append(f.called, [file |-> f.ino[n].load.cb, err |-> "OK"])
      BY <1>10, <3>1 DEF x
    <3>4. QED
      BY <1>8, <2>12, <3>2, <3>3 DEF Calls
  <2>14. QED
    BY <2>11, <2>13 DEF g
<1>11. QED
  BY <1>9, <1>10

\* A transfer's bytes change nothing but the buffer.
Sameness(f, g) ==
  /\ g.file = f.file /\ g.called = f.called /\ g.broken = f.broken
  /\ \A m \in Ino : /\ g.ino[m].type = f.ino[m].type
                    /\ g.ino[m].load.cb = f.ino[m].load.cb
                    /\ g.ino[m].state = f.ino[m].state

LEMMA SamenessThen ==
  ASSUME NEW f, NEW g, NEW h, Sameness(f, g), Sameness(g, h)
  PROVE  Sameness(f, h)
BY DEF Sameness

LEMMA WrittenSolid ==
  ASSUME NEW f, NEW R, NEW x, NEW a, Solid(f, R, x, a), NEW n \in Ino, NEW data, NEW g,
         g = [f EXCEPT !.ino[n].buf = Written(f.ino[n].buf, 0, data)]
  PROVE  Solid(g, R, x, a) /\ Sameness(f, g)
<1> DEFINE b == Written(f.ino[n].buf, 0, data)
<1>1. IsFs(f) /\ Fresh(f) /\ IsSeq(f.ino[n].buf)
  BY DEF Solid, Counts, IsFs, IsNode
<1>2. IsSeq(b) /\ Len(b) = Len(f.ino[n].buf)
  BY <1>1, WrittenIs
<1> HIDE DEF b
<1>3. g = [f EXCEPT !.ino[n].buf = b]
  BY DEF b
<1>4. Rebuffers(f, g, n) /\ Fresh(g)
  BY <1>1, <1>2, <1>3, BufIs
<1>5. Counts(g, R, x, a, NoIno)
  BY <1>4, LightCounts DEF Rebuffers, Solid
<1>6. QED
  BY <1>4, <1>5 DEF Solid, Rebuffers, Light, SameNode, Sameness

LEMMA ArrivedIs ==
  ASSUME NEW f, NEW R, NEW x, NEW a, Solid(f, R, x, a), NEW n \in Ino
  PROVE  Solid(Arrived(f, n), R, x, a) /\ Sameness(f, Arrived(f, n))
<1> DEFINE data == Server[f.ino[n].file_id]
           d == SubSeq(data, 1, Min({Len(data), f.ino[n].size}))
<1>1. Arrived(f, n) = [f EXCEPT !.ino[n].buf = Written(f.ino[n].buf, 0, d)]
  BY DEF Arrived
<1> HIDE DEF d
<1>2. QED
  BY <1>1, WrittenSolid

LEMMA CopyIs ==
  ASSUME NEW f, NEW R, NEW x, NEW a, Solid(f, R, x, a), NEW archive, NEW member, member.ino \in Ino
  PROVE  LET g == CopyMember(f, archive, member)
         IN  Solid(g, R, x, a) /\ Sameness(f, g)
<1> DEFINE n == member.ino
           d == BufRead(f.ino[archive].buf, member.off, f.ino[n].size)
<1>1. CopyMember(f, archive, member) = [f EXCEPT !.ino[n].buf = Written(f.ino[n].buf, 0, d)]
  BY DEF CopyMember
<1> HIDE DEF d
<1>2. QED
  BY <1>1, WrittenSolid

LEMMA LeaveSolid ==
  ASSUME NEW f, NEW R, NEW x, NEW a, Solid(f, R, x, a), NEW n \in Ino, NEW m
  PROVE  Solid(LeaveList(f, n, m), R, x, a) /\ Sameness(f, LeaveList(f, n, m))
<1> DEFINE g == LeaveList(f, n, m)
<1>1. IsFs(f) /\ Fresh(f)
  BY DEF Solid, Counts
<1>2. SameLoads(f, g)
  BY <1>1, LeaveListIs
<1> HIDE DEF g
<1>3. Fresh(g) /\ Light(f, g)
  BY <1>1, <1>2, SameLoadsFresh DEF SameLoads
<1>4. Counts(g, R, x, a, NoIno)
  BY <1>3, LightCounts DEF Solid
<1>5. QED
  BY <1>2, <1>3, <1>4 DEF Solid, Sameness, SameLoads, Light, SameNode, g

\* A transfer ends, with the file or without.
LEMMA SetEndIs ==
  ASSUME NEW f, NEW R, Solid(f, R, NoFile, NoIno), NEW n \in Ino, NEW good,
         f.ino[n].load.cb # NoFile => f.file[f.ino[n].load.cb].ino = n
  PROVE  LET g == SetEnd(f, n, good)
         IN  Solid(g, R, NoFile, NoIno) /\ \E err \in {"OK", "EIO"} : Calls(f, g, n, err)
BY ErrorSolid, SetLoadedIs DEF SetEnd

-----------------------------------------------------------------------------
(* The operations of the file system, each from counts that are right to   *)
(* counts that are right.                                                  *)

Whole(f) == Solid(f, NoRefs, NoFile, NoIno)

\* What an operation leaves alone: what an inode is while it is in use.
Lives(f, g) ==
  /\ \A n \in Ino : f.ino[n].type # "NONE" => g.ino[n].type \in {f.ino[n].type, "NONE"}
  /\ Quiet(f) => Quiet(g) /\ g.called = f.called

LEMMA SteadyLives ==
  ASSUME NEW f, NEW g, Steady(f, g)
  PROVE  Lives(f, g)
BY DEF Steady, Lives

LEMMA LivesThen ==
  ASSUME NEW f, NEW g, NEW h, Lives(f, g), Steady(g, h)
  PROVE  Lives(f, h)
BY DEF Steady, Lives

LEMMA NewsLives ==
  ASSUME NEW f, NEW g, NEW n, NEW type, News(f, g, n, type)
  PROVE  Lives(f, g)
BY DEF News, Lives, Quiet

LEMMA NoRefsIs ==
  /\ NoRefs \in [Ino -> Nat]
  /\ \A n \in Ino : /\ Up(NoRefs, n) \in [Ino -> Nat] /\ Up(NoRefs, n)[n] > 0
                    /\ Down(Up(NoRefs, n), n) = NoRefs
<1>1. NoRefs \in [Ino -> Nat] /\ \A n \in Ino : NoRefs[n] = 0
  BY DEF NoRefs
<1>2. QED
  BY <1>1, UpDown

\* A file object stands for an inode in use.
LEMMA StandsFor ==
  ASSUME NEW f, NEW R, Solid(f, R, NoFile, NoIno), NEW o \in FsFile, f.file[o].ino \in Ino
  PROVE  /\ f.ino[f.file[o].ino].type # "NONE" /\ f.ino[f.file[o].ino].open_count > 0
         /\ Solid(f, R, o, f.file[o].ino)
<1>1. IsFs(f)
  BY DEF Solid, Counts
<1>2. Solid(f, R, o, f.file[o].ino)
  BY <1>1, SolidAs
<1>3. QED
  BY <1>2, InUse DEF Solid

LEMMA RecountsSteady ==
  ASSUME NEW f, NEW g, NEW n, NEW ref, NEW open, Recounts(f, g, n, ref, open)
  PROVE  Steady(f, g) /\ g.file = f.file
BY MildSteady DEF Recounts

LEMMA RelinksSteady ==
  ASSUME NEW f, NEW g, NEW d, Relinks(f, g, d)
  PROVE  /\ Steady(f, g) /\ g.file = f.file
         /\ \A m \in Ino : g.ino[m].type = f.ino[m].type
BY MildSteady DEF Relinks, Still

\* A new inode with an entry in a directory.
LEMMA NewEntry ==
  ASSUME NEW f, Whole(f), NEW d \in Ino, f.ino[d].type = "DIR", NEW name \in AskName,
         NEW type \in FileTypes, Allocated(f) # Ino
  PROVE  LET n1 == NewIno(f)
             e == InodeNew(f, type)
             g == InodeDirAdd(e, d, name, n1)
         IN  /\ News(f, e, n1, type) /\ Whole(g) /\ Lives(f, g) /\ g.file = f.file
             /\ n1 \in Ino /\ n1 # d /\ g.ino[n1] = e.ino[n1] /\ g.ino[d].type = "DIR"
             /\ \A m \in Ino : m # n1 => g.ino[m].type = f.ino[m].type
<1> DEFINE n1 == NewIno(f)
           e == InodeNew(f, type)
           g == InodeDirAdd(e, d, name, n1)
<1>1. News(f, e, n1, type) /\ Solid(e, Up(NoRefs, n1), NoFile, NoIno)
  BY NewIs DEF Whole
<1> HIDE DEF e, n1
<1>2. n1 \in Ino /\ n1 # d /\ e.ino[d].type = "DIR" /\ e.file = f.file
  BY <1>1 DEF News
<1>3. Solid(g, Down(Up(NoRefs, n1), n1), NoFile, NoIno) /\ Relinks(e, g, d)
  BY <1>1, <1>2, NoRefsIs, DirAddIs
<1> HIDE DEF g
<1>4. Whole(g)
  BY <1>2, <1>3, NoRefsIs DEF Whole
<1>5. Steady(e, g) /\ g.file = e.file /\ \A m \in Ino : g.ino[m].type = e.ino[m].type
  BY <1>3, RelinksSteady
<1>6. Lives(f, g)
  BY <1>1, <1>5, NewsLives, LivesThen
<1>7. g.ino[n1] = e.ino[n1]
  BY <1>2, <1>3 DEF Relinks
<1>8. \A m \in Ino : m # n1 => g.ino[m].type = f.ino[m].type
  BY <1>1, <1>5 DEF News
<1>9. QED
  BY <1>1, <1>2, <1>4, <1>5, <1>6, <1>7, <1>8 DEF e, g, n1

\* Symbolic links, pipes and devices.
LEMMA MakeNodeIs ==
  ASSUME NEW f, Whole(f), NEW o, f.file[o].ino \in Ino, f.ino[f.file[o].ino].type = "DIR",
         NEW name \in AskName, NEW type \in FileTypes, Allocated(f) # Ino
  PROVE  LET g == FsMakeNode(f, o, name, type).fs
         IN  Whole(g) /\ Lives(f, g) /\ g.file = f.file
<1> DEFINE n == f.file[o].ino
           e == InodeDirAdd(InodeNew(f, type), n, name, NewIno(f))
<1>1. \/ FsMakeNode(f, o, name, type).fs = f
      \/ FsMakeNode(f, o, name, type).fs = e
  BY DEF FsMakeNode, Result
<1>2. Whole(e) /\ Lives(f, e) /\ e.file = f.file
  BY NewEntry
<1> HIDE DEF e
<1>3. Lives(f, f)
  BY DEF Lives
<1>4. QED
  BY <1>1, <1>2, <1>3

\* Another name for a file.
LEMMA LinkIs ==
  ASSUME NEW f, Whole(f), NEW d, f.file[d].ino \in Ino, f.ino[f.file[d].ino].type = "DIR",
         NEW o \in FsFile, f.file[o].ino \in Ino, NEW name \in AskName
  PROVE  LET g == FsLink(f, d, o, name).fs
         IN  Whole(g) /\ Lives(f, g) /\ g.file = f.file
<1> DEFINE n == f.file[d].ino
           n1 == f.file[o].ino
           e == InodeIncref(f, n1)
           g == InodeDirAdd(e, n, name, n1)
<1>1. FsLink(f, d, o, name).fs = f \/ FsLink(f, d, o, name).fs = g
  BY DEF FsLink, Result
<1>2. f.ino[n1].type # "NONE"
  BY StandsFor DEF Whole
<1>3. Solid(e, Up(NoRefs, n1), NoFile, NoIno) /\ Recounts(f, e, n1, 1, 0)
  BY <1>2, IncrefSolid DEF Whole
<1> HIDE DEF e
<1>4. e.ino[n].type = "DIR"
  BY <1>3 DEF Recounts
<1>5. Solid(g, Down(Up(NoRefs, n1), n1), NoFile, NoIno) /\ Relinks(e, g, n)
  BY <1>3, <1>4, NoRefsIs, DirAddIs
<1> HIDE DEF g
<1>6. Whole(g) /\ Steady(e, g) /\ g.file = e.file
  BY <1>5, NoRefsIs, RelinksSteady DEF Whole
<1>7. Steady(f, g) /\ g.file = f.file
  BY <1>3, <1>6, RecountsSteady, SteadyThen
<1>8. Lives(f, f) /\ Lives(f, g)
  BY <1>7, SteadyLives DEF Lives
<1>9. QED
  BY <1>1, <1>6, <1>7, <1>8

\* A directory, which names itself and its parent, with its name.
LEMMA TwiceUp ==
  ASSUME NEW d \in Ino, NEW n \in Ino, n # d
  PROVE  LET R == Up(Up(Up(NoRefs, n), n), d)
         IN  /\ R[n] > 0 /\ Down(R, n)[d] > 0 /\ Down(Down(R, n), d)[n] > 0
             /\ Up(Up(NoRefs, n), n) \in [Ino -> Nat]
             /\ Down(Down(Down(R, n), d), n) = NoRefs
BY DEF Up, Down, NoRefs

LEMMA MakeDirIs ==
  ASSUME NEW f, Whole(f), NEW d \in Ino, f.ino[d].type = "DIR", NEW name \in AskName,
         Allocated(f) # Ino
  PROVE  LET g == MakeDir(InodeNew(f, "DIR"), d, NewIno(f), name)
         IN  Whole(g) /\ Lives(f, g) /\ g.file = f.file
<1> DEFINE n == NewIno(f)
           e0 == InodeNew(f, "DIR")
           e1 == InodeIncref(e0, n)
           e2 == InodeIncref(e1, d)
           e3 == InodeDirAdd(e2, n, Self, n)
           e4 == InodeDirAdd(e3, n, Parent, d)
           g == InodeDirAdd(e4, d, name, n)
           R0 == Up(NoRefs, n)
           R1 == Up(R0, n)
           R2 == Up(R1, d)
           R3 == Down(R2, n)
           R4 == Down(R3, d)
<1>1. g = MakeDir(InodeNew(f, "DIR"), d, NewIno(f), name)
  BY DEF MakeDir
<1>2. News(f, e0, n, "DIR") /\ Solid(e0, R0, NoFile, NoIno)
  BY NewIs DEF Whole, FileTypes
<1> HIDE DEF g, e4, e3, e2, e1, e0, n
<1>3. n \in Ino /\ n # d /\ e0.ino[n].type = "DIR" /\ e0.ino[d].type = "DIR" /\ e0.file = f.file
  BY <1>2 DEF News
<1>4. /\ R2[n] > 0 /\ R3[d] > 0 /\ R4[n] > 0 /\ Down(R4, n) = NoRefs
  BY <1>3, TwiceUp
<1> HIDE DEF R0, R1, R2, R3, R4
<1>5. Solid(e1, R1, NoFile, NoIno) /\ Recounts(e0, e1, n, 1, 0)
  BY <1>2, <1>3, IncrefSolid DEF e1, R1
<1>6. e1.ino[n].type = "DIR" /\ e1.ino[d].type = "DIR"
  BY <1>3, <1>5 DEF Recounts
<1>7. Solid(e2, R2, NoFile, NoIno) /\ Recounts(e1, e2, d, 1, 0)
  BY <1>5, <1>6, IncrefSolid DEF e2, R2
<1>8. e2.ino[n].type = "DIR" /\ e2.ino[d].type = "DIR"
  BY <1>3, <1>6, <1>7 DEF Recounts
<1>9. Self \in AskName /\ Parent \in AskName
  BY DEF AskName
<1>10. Solid(e3, R3, NoFile, NoIno) /\ Relinks(e2, e3, n)
  BY <1>3, <1>4, <1>7, <1>8, <1>9, DirAddIs DEF e3, R3
<1>11. /\ Steady(e2, e3) /\ e3.file = e2.file
       /\ e3.ino[n].type = "DIR" /\ e3.ino[d].type = "DIR"
  BY <1>3, <1>8, <1>10, RelinksSteady
<1>12. Solid(e4, R4, NoFile, NoIno) /\ Relinks(e3, e4, n)
  BY <1>3, <1>4, <1>9, <1>10, <1>11, DirAddIs DEF e4, R4
<1>13. Steady(e3, e4) /\ e4.file = e3.file /\ e4.ino[d].type = "DIR"
  BY <1>11, <1>12, RelinksSteady
<1>14. Solid(g, NoRefs, NoFile, NoIno) /\ Relinks(e4, g, d)
  BY <1>3, <1>4, <1>12, <1>13, DirAddIs DEF g
<1>15. Steady(e4, g) /\ g.file = e4.file
  BY <1>14, RelinksSteady
<1>16. Steady(e0, e1) /\ e1.file = e0.file /\ Steady(e1, e2) /\ e2.file = e1.file
  BY <1>5, <1>7, RecountsSteady
<1>17. Lives(f, g)
  <2>1. Lives(f, e0)
    BY <1>2, NewsLives
  <2>2. Lives(f, e1)
    BY <2>1, <1>16, LivesThen
  <2>3. Lives(f, e2)
    BY <2>2, <1>16, LivesThen
  <2>4. Lives(f, e3)
    BY <2>3, <1>11, LivesThen
  <2>5. Lives(f, e4)
    BY <2>4, <1>13, LivesThen
  <2>6. QED
    BY <2>5, <1>15, LivesThen
<1>18. g.file = f.file
  BY <1>3, <1>11, <1>13, <1>15, <1>16
<1>19. QED
  BY <1>1, <1>14, <1>17, <1>18 DEF Whole

LEMMA MkdirIs ==
  ASSUME NEW f, Whole(f), NEW o, f.file[o].ino \in Ino, NEW name \in AskName, Allocated(f) # Ino
  PROVE  LET g == FsMkdir(f, o, name).fs
         IN  Whole(g) /\ Lives(f, g) /\ g.file = f.file
<1> DEFINE n == f.file[o].ino
           e == MakeDir(InodeNew(f, "DIR"), n, NewIno(f), name)
<1>1. \/ FsMkdir(f, o, name).fs = f
      \/ f.ino[n].type = "DIR" /\ FsMkdir(f, o, name).fs = e
  BY DEF FsMkdir, Result
<1>2. f.ino[n].type = "DIR" => Whole(e) /\ Lives(f, e) /\ e.file = f.file
  BY MakeDirIs
<1> HIDE DEF e
<1>3. Lives(f, f)
  BY DEF Lives
<1>4. QED
  BY <1>1, <1>2, <1>3

\* A directory that is freed was no file of an archive: the others stay.
LEMMA DecOpenDir ==
  ASSUME NEW f, NEW R, NEW x, NEW n \in Ino, Solid(f, R, x, n), f.ino[n].type = "DIR"
  PROVE  LET g == InodeDecOpen(f, n)
         IN  g.broken = FALSE => \A m \in Ino : m # n => g.ino[m] = f.ino[m]
<1> DEFINE e == [f EXCEPT !.ino[n].open_count = @ - 1]
           freed == [e EXCEPT !.blocks = @ - ToBlocks(e.ino[n].size)]
           h == InodeGone(freed, n)
           g == InodeDecOpen(f, n)
<1>1. Fresh(e) /\ Recounts(f, e, n, 0, -1)
  BY DecOpenCounts
<1> HIDE DEF e
<1>2. IsFs(e) /\ \A m \in Ino : m # n => e.ino[m] = f.ino[m]
  BY <1>1 DEF Recounts
<1>3. e.ino[n].type = "DIR"
  BY <1>1 DEF Recounts
<1>4. g = FreeIfUnused(e, n)
  BY DEF InodeDecOpen, e
<1>5. CASE ~Unused(e, n)
  <2>1. g = e
    BY <1>4, <1>5 DEF FreeIfUnused
  <2>2. QED
    BY <1>2, <2>1
<1>6. CASE Unused(e, n) /\ e.broken = FALSE
  <2>1. NodeHere(e, n)
    BY <1>1, <1>6 DEF Fresh
  <2>2. e.ino[n].state = "LOCAL"
    BY <1>3, <2>1 DEF NodeHere
  <2>3. g = h
    BY <1>4, <1>6, <2>2 DEF FreeIfUnused, InodeFree
  <2>4. freed.ino = e.ino /\ freed = [k \in FsFields |-> freed[k]]
    BY <1>2 DEF IsFs, FsFields
  <2> HIDE DEF freed, g
  <2>5. h.ino = [freed.ino EXCEPT ![n] = NoInode]
    BY <2>4 DEF InodeGone, FsFields
  <2> HIDE DEF h
  <2>6. \A m \in Ino : m # n => h.ino[m] = e.ino[m]
    BY <1>2, <2>4, <2>5 DEF IsFs
  <2>7. QED
    BY <1>2, <2>3, <2>6 DEF g
<1>7. CASE Unused(e, n) /\ e.broken # FALSE
  <2>1. Counts(e, R, x, NoIno, n)
    BY DecOpenCounts DEF e
  <2>2. Frees(e, InodeFree(e, n), n)
    BY <1>1, <1>7, <2>1, FreeSolid
  <2>3. g = InodeFree(e, n)
    BY <1>4, <1>7 DEF FreeIfUnused
  <2>4. QED
    BY <1>7, <2>2, <2>3 DEF Frees
<1>8. QED
  BY <1>5, <1>6, <1>7

\* The file object moves from the directory to the file that it makes.
Moves(f, g, o) ==
  /\ Whole(g) /\ Lives(f, g) /\ g.file[o].ino \in Ino
  /\ \A p \in FsFile : p # o => g.file[p].ino = f.file[p].ino

LEMMA CreateMoves ==
  ASSUME NEW f, Whole(f), NEW o \in FsFile, f.file[o].ino \in Ino,
         f.ino[f.file[o].ino].type = "DIR", NEW name \in AskName, Allocated(f) # Ino, NEW flags
  PROVE  LET n == f.file[o].ino
             n1 == NewIno(f)
             made == InodeDirAdd(InodeNew(FsClose(f, o), "REG"), n, name, n1)
             moved == [InodeIncOpen(InodeDecOpen(made, n), n1) EXCEPT
                         !.file[o].ino = n1, !.file[o].is_opened = TRUE,
                         !.file[o].flags = flags]
         IN  Moves(f, moved, o)
<1> DEFINE n == f.file[o].ino
           n1 == NewIno(f)
           c == FsClose(f, o)
           made == InodeDirAdd(InodeNew(c, "REG"), n, name, n1)
           e == InodeDecOpen(made, n)
           w == InodeIncOpen(e, n1)
           x == w.file[o]
           z == [x EXCEPT !.ino = n1, !.is_opened = TRUE, !.flags = flags]
           g == [w EXCEPT !.file[o].ino = n1, !.file[o].is_opened = TRUE, !.file[o].flags = flags]
<1>1. Whole(c) /\ Steady(f, c) /\ FileInos(f, c) /\ c.ino = f.ino
  BY FlagIs DEF Whole
<1>2. NewIno(c) = n1 /\ Allocated(c) # Ino
  BY <1>1 DEF NewIno, Allocated
<1>3. /\ News(c, InodeNew(c, "REG"), n1, "REG") /\ Whole(made) /\ Lives(c, made)
      /\ made.file = c.file /\ n1 \in Ino /\ n1 # n
      /\ made.ino[n1] = InodeNew(c, "REG").ino[n1] /\ made.ino[n].type = "DIR"
  <2> DEFINE k == NewIno(c)
             h == InodeDirAdd(InodeNew(c, "REG"), n, name, k)
  <2>1. "REG" \in FileTypes /\ c.ino[n].type = "DIR"
    BY <1>1 DEF FileTypes
  <2>2. k = n1 /\ h = made
    BY <1>2
  <2> HIDE DEF c
  <2>3. /\ News(c, InodeNew(c, "REG"), k, "REG") /\ Whole(h) /\ Lives(c, h)
        /\ h.file = c.file /\ k \in Ino /\ k # n
        /\ h.ino[k] = InodeNew(c, "REG").ino[k] /\ h.ino[n].type = "DIR"
    BY <1>1, <1>2, <2>1, NewEntry
  <2> HIDE DEF k, h, n1, made
  <2>4. QED
    BY <2>2, <2>3
<1>4. made.ino[n1].type = "REG" /\ made.ino[n1].state = "LOCAL"
  BY <1>3 DEF News
<1> HIDE DEF made, n1, c
<1>5. made.file[o].ino = n
  BY <1>1, <1>3 DEF FileInos
<1>6. Solid(made, NoRefs, o, n)
  BY <1>3, <1>5, StandsFor DEF Whole
<1>7. /\ Solid(e, NoRefs, o, NoIno) /\ Mild(made, e)
      /\ \A m \in Ino : m # n => SameNode(made.ino[m], e.ino[m])
  BY <1>6, InodeDecOpenIs
<1>8. e.broken = FALSE => e.ino[n1] = made.ino[n1]
  BY <1>3, <1>6, DecOpenDir
<1> HIDE DEF e
<1>9. e.ino[n1].type = "REG"
  BY <1>3, <1>4, <1>7 DEF SameNode
<1>10. Solid(w, NoRefs, o, n1) /\ Recounts(e, w, n1, 0, 1)
  BY <1>3, <1>7, <1>9, IncOpenSolid DEF w
<1> HIDE DEF w
<1>11. w.broken = FALSE => w.ino[n1].state = "LOCAL"
  BY <1>3, <1>4, <1>8, <1>10 DEF Recounts, Still
<1>12. IsFs(w) /\ IsFile(x)
  BY <1>10 DEF Solid, Counts, IsFs
<1>13. /\ g = [k \in FsFields |-> g[k]] /\ g.file = [w.file EXCEPT ![o] = z] /\ g.ino = w.ino
       /\ g.blocks = w.blocks /\ g.cache = w.cache /\ g.cache_size = w.cache_size
       /\ g.called = w.called /\ g.broken = w.broken
  BY <1>12 DEF IsFs, FsFields
<1> HIDE DEF x
<1>14. IsFile(z) /\ z.ino = n1
  BY <1>3, <1>12 DEF IsFile, FileFields
<1> HIDE DEF z, g
<1>15. SetsFile(w, g, o, z) /\ MayOpen(w, z)
  BY <1>11, <1>13, <1>14 DEF SetsFile, MayOpen, InMemory
<1>16. /\ Solid(g, NoRefs, o, n1)
       /\ g.file[o] = z /\ \A p \in FsFile : p # o => g.file[p] = w.file[p]
  BY <1>10, <1>15, SetFileIs
<1>17. Whole(g)
  <2>1. IsFs(g) /\ g.file[o].ino = n1
    BY <1>14, <1>16 DEF Solid, Counts
  <2>2. QED
    BY <1>16, <2>1, SolidAs DEF Whole
<1>18. Steady(made, e) /\ e.file = made.file /\ Steady(e, w) /\ w.file = e.file
  BY <1>7, <1>10, MildSteady, RecountsSteady
<1>19. Steady(w, g)
  BY <1>13 DEF Steady, Quiet
<1>20. Lives(f, g)
  <2>1. Lives(f, made)
    BY <1>1, <1>3 DEF Lives, Steady
  <2>2. Lives(f, e)
    BY <2>1, <1>18, LivesThen
  <2>3. Lives(f, w)
    BY <2>2, <1>18, LivesThen
  <2>4. QED
    BY <2>3, <1>19, LivesThen
<1>21. \A p \in FsFile : p # o => g.file[p].ino = f.file[p].ino
  BY <1>1, <1>3, <1>16, <1>18 DEF FileInos
<1>22. g.file[o].ino \in Ino
  BY <1>3, <1>14, <1>16
<1>23. QED
  BY <1>17, <1>20, <1>21, <1>22, ZenonT(30) DEF Moves, g, x, w, e, made, c, n1

LEMMA FsCreateIs ==
  ASSUME NEW f, Whole(f), NEW o \in FsFile, f.file[o].ino \in Ino, NEW name \in AskName,
         Allocated(f) # Ino, NEW flags
  PROVE  Moves(f, FsCreate(f, o, name, flags).fs, o)
<1> DEFINE n == f.file[o].ino
           n1 == NewIno(f)
           made == InodeDirAdd(InodeNew(FsClose(f, o), "REG"), n, name, n1)
           moved == [InodeIncOpen(InodeDecOpen(made, n), n1) EXCEPT
                       !.file[o].ino = n1, !.file[o].is_opened = TRUE,
                       !.file[o].flags = flags]
<1>1. \/ FsCreate(f, o, name, flags).fs = f
      \/ f.ino[n].type = "DIR" /\ FsCreate(f, o, name, flags).fs = moved
  BY DEF FsCreate, Result
<1>2. f.ino[n].type = "DIR" => Moves(f, moved, o)
  BY CreateMoves, ZenonT(30)
<1> HIDE DEF moved
<1>3. Moves(f, f, o)
  BY DEF Moves, Lives
<1>4. QED
  BY <1>1, <1>2, <1>3

\* Entries that stay when another one goes or comes.
LEMMA StillNamed ==
  ASSUME NEW s \in Seq(Dent), NEW name, NEW new_name, name # new_name,
         \E k \in DOMAIN s : s[k].name = name, NEW pos \in 1 .. Len(s), s[pos].name = new_name
  PROVE  \E k \in DOMAIN RemoveAt(s, pos) : RemoveAt(s, pos)[k].name = name
<1> DEFINE q == RemoveAt(s, pos)
<1>1. /\ q \in Seq(Dent) /\ Len(q) = Len(s) - 1
      /\ \A i \in 1 .. Len(s) - 1 : q[i] = IF i < pos THEN s[i] ELSE s[i + 1]
  BY RemoveAtIs
<1> HIDE DEF q
<1>2. PICK k \in DOMAIN s : s[k].name = name
  OBVIOUS
<1>3. k \in 1 .. Len(s) /\ k # pos /\ DOMAIN q = 1 .. Len(s) - 1
  BY <1>1, <1>2
<1>4. CASE k < pos
  BY <1>1, <1>2, <1>3, <1>4 DEF q
<1>5. CASE k > pos
  <2>1. k - 1 \in 1 .. Len(s) - 1 /\ ~(k - 1 < pos) /\ (k - 1) + 1 = k
    BY <1>3, <1>5
  <2>2. q[k - 1] = s[k]
    BY <1>1, <2>1
  <2>3. QED
    BY <1>2, <1>3, <2>1, <2>2 DEF q
<1>6. QED
  BY <1>3, <1>4, <1>5

LEMMA AppendNamed ==
  ASSUME NEW s \in Seq(Dent), NEW new \in Dent, NEW name,
         name = new.name \/ \E k \in DOMAIN s : s[k].name = name
  PROVE  \E k \in DOMAIN Append(s, new) : Append(s, new)[k].name = name
<1>1. Len(s) \in Nat /\ DOMAIN Append(s, new) = 1 .. Len(s) + 1 /\ DOMAIN s = 1 .. Len(s)
  OBVIOUS
<1>2. /\ Append(s, new)[Len(s) + 1] = new
      /\ \A k \in 1 .. Len(s) : Append(s, new)[k] = s[k]
  OBVIOUS
<1>3. QED
  BY <1>1, <1>2

\* An entry moves, and takes the place of another one.
LEMMA RenameIs ==
  ASSUME NEW f, Whole(f), NEW d, f.file[d].ino \in Ino, NEW name,
         NEW d1, f.file[d1].ino \in Ino, f.ino[f.file[d1].ino].type = "DIR",
         NEW new_name \in AskName
  PROVE  LET g == FsRenameat(f, d, name, d1, new_name).fs
         IN  Whole(g) /\ Lives(f, g) /\ g.file = f.file
<1> DEFINE dir == f.file[d].ino
           new_dir == f.file[d1].ino
           n == InodeSearch(f, dir, name)
           n1 == InodeSearch(f, new_dir, new_name)
           e == IF n1 = NoIno THEN f ELSE InodeDirentDeleteNoDecref(f, new_dir, new_name)
           w == InodeIncref(e, n)
           a == InodeDirAdd(w, new_dir, new_name, n)
           renamed == InodeDirentDelete(a, dir, name)
           g == IF n1 = NoIno THEN renamed ELSE InodeDecref(renamed, n1)
           r == FsRenameat(f, d, name, d1, new_name).fs
           R == IF n1 = NoIno THEN NoRefs ELSE Up(NoRefs, n1)
<1>1. r = f \/ (n # NoIno /\ r = g)
  BY DEF FsRenameat, Result
<1>2. CASE r = f
  BY <1>2 DEF Lives
<1>3. CASE n # NoIno /\ r = g
  <2> HIDE DEF r
  <2>1. n \in Ino /\ f.ino[n].type # "NONE" /\ f.ino[dir].type = "DIR" /\ n1 \in Ino \union {NoIno}
    BY <1>3, FoundIs, SearchFinds DEF Whole, Solid, Counts, Finds
  <2>2. /\ R \in [Ino -> Nat]
        /\ n1 # NoIno => R[n1] > 0 /\ Down(R, n1) = NoRefs
    BY <2>1, NoRefsIs
  <2>3. /\ Solid(e, R, NoFile, NoIno) /\ Steady(f, e) /\ e.file = f.file
        /\ \A m \in Ino : e.ino[m].type = f.ino[m].type
        /\ n1 = NoIno => e = f
        /\ n1 # NoIno => /\ Relinks(f, e, new_dir)
                         /\ LET pos == FirstNamed(f.ino[new_dir].dents, new_name)
                            IN  /\ pos \in 1 .. Len(f.ino[new_dir].dents)
                                /\ f.ino[new_dir].dents[pos].name = new_name
                                /\ e.ino[new_dir].dents = RemoveAt(f.ino[new_dir].dents, pos)
    <3>1. CASE n1 = NoIno
      BY <3>1 DEF Whole, Steady
    <3>2. CASE n1 # NoIno
      <4> DEFINE u == InodeDirentDeleteNoDecref(f, new_dir, new_name)
      <4>1. e = u /\ R = Up(NoRefs, n1)
        BY <3>2
      <4>2. /\ Solid(u, Up(NoRefs, n1), NoFile, NoIno) /\ Relinks(f, u, new_dir)
            /\ LET pos == FirstNamed(f.ino[new_dir].dents, new_name)
               IN  /\ pos \in 1 .. Len(f.ino[new_dir].dents)
                   /\ f.ino[new_dir].dents[pos].name = new_name
                   /\ u.ino[new_dir].dents = RemoveAt(f.ino[new_dir].dents, pos)
        BY <3>2, DirRemoveIs DEF Whole
      <4> HIDE DEF u, e, R
      <4>3. Steady(f, u) /\ u.file = f.file /\ \A m \in Ino : u.ino[m].type = f.ino[m].type
        BY <4>2, RelinksSteady
      <4>4. QED
        BY <3>2, <4>1, <4>2, <4>3
    <3>3. QED
      BY <3>1, <3>2
  <2> HIDE DEF e
  <2>4. Solid(w, Up(R, n), NoFile, NoIno) /\ Recounts(e, w, n, 1, 0)
    BY <2>1, <2>3, IncrefSolid
  <2> HIDE DEF w
  <2>5. /\ Steady(e, w) /\ w.file = e.file /\ SameDents(e, w)
        /\ \A m \in Ino : w.ino[m].type = e.ino[m].type
    <3>1. Steady(e, w) /\ w.file = e.file
      BY <2>4, RecountsSteady
    <3>2. SameDents(e, w) /\ \A m \in Ino : w.ino[m].type = e.ino[m].type
      BY <2>4 DEF Recounts
    <3>3. QED
      BY <3>1, <3>2
  <2>6. Up(R, n)[n] > 0 /\ Down(Up(R, n), n) = R
    <3> HIDE DEF R
    <3>1. QED
      BY <2>1, <2>2, UpDown
  <2>7. /\ Solid(a, R, NoFile, NoIno) /\ Relinks(w, a, new_dir)
        /\ a.ino[new_dir].dents = Append(w.ino[new_dir].dents, [name |-> new_name, ino |-> n])
    <3>1. w.ino[new_dir].type = "DIR" /\ new_dir \in Ino /\ n \in Ino
      BY <2>1, <2>3, <2>5
    <3> HIDE DEF R, n, n1, new_dir, dir
    <3>2. /\ Solid(a, Down(Up(R, n), n), NoFile, NoIno) /\ Relinks(w, a, new_dir)
          /\ a.ino[new_dir].dents = Append(w.ino[new_dir].dents, [name |-> new_name, ino |-> n])
      BY <2>4, <2>6, <3>1, DirAddIs
    <3>3. QED
      BY <2>6, <3>2
  <2> HIDE DEF a
  <2>8. Steady(w, a) /\ a.file = w.file /\ \A m \in Ino : a.ino[m].type = w.ino[m].type
    BY <2>7, RelinksSteady, ZenonT(30)
  <2>9. InodeSearch(a, dir, name) # NoIno
    <3>1. a.ino[dir].type = "DIR"
      BY <2>1, <2>3, <2>5, <2>8
    <3>2. \E k \in DOMAIN a.ino[dir].dents : a.ino[dir].dents[k].name = name
      <4>1. \E k \in DOMAIN f.ino[dir].dents : f.ino[dir].dents[k].name = name
        BY <1>3, FoundIs DEF Whole
      <4>2. /\ f.ino[dir].dents \in Seq(Dent) /\ e.ino[dir].dents \in Seq(Dent)
            /\ w.ino[dir].dents = e.ino[dir].dents
        BY <2>3, <2>5, ZenonT(30) DEF Whole, Solid, Counts, IsFs, IsNode, SameDents
      <4>3. CASE dir # new_dir
        <5>1. a.ino[dir] = w.ino[dir] /\ e.ino[dir] = f.ino[dir]
          BY <2>3, <2>7, <4>3, ZenonT(30) DEF Relinks
        <5>2. QED
          BY <4>1, <4>2, <5>1, ZenonT(30)
      <4>4. CASE dir = new_dir
        <5> DEFINE s == e.ino[dir].dents
                   new == [name |-> new_name, ino |-> n]
        <5>1. a.ino[dir].dents = Append(s, new)
          BY <2>7, <4>2, <4>4, ZenonT(30)
        <5>2. name = new_name \/ \E k \in DOMAIN s : s[k].name = name
          <6>1. CASE n1 = NoIno
            BY <2>3, <4>1, <6>1
          <6>2. CASE n1 # NoIno /\ name # new_name
            <7> DEFINE s0 == f.ino[new_dir].dents
                       pos == FirstNamed(s0, new_name)
            <7>1. /\ pos \in 1 .. Len(s0) /\ s0[pos].name = new_name
                  /\ e.ino[new_dir].dents = RemoveAt(s0, pos)
              BY <2>3, <6>2
            <7> HIDE DEF pos, n1, R, n
            <7>2. s0 \in Seq(Dent) /\ name # new_name /\ \E k \in DOMAIN s0 : s0[k].name = name
              BY <4>1, <4>2, <4>4, <6>2
            <7> HIDE DEF s0
            <7>3. \E k \in DOMAIN RemoveAt(s0, pos) : RemoveAt(s0, pos)[k].name = name
              BY <7>1, <7>2, StillNamed
            <7>4. QED
              BY <4>4, <7>1, <7>3
          <6>3. QED
            BY <6>1, <6>2
        <5>3. new \in Dent /\ new.name = new_name
          BY <2>1 DEF Dent
        <5>4. s \in Seq(Dent)
          BY <4>2
        <5> HIDE DEF s, new
        <5>5. QED
          BY <5>1, <5>2, <5>3, <5>4, AppendNamed
      <4>5. QED
        BY <4>3, <4>4
    <3>3. QED
      BY <3>1, <3>2, <2>7, SearchAll, ZenonT(30) DEF Solid, Counts
  <2>10. Solid(renamed, R, NoFile, NoIno) /\ Mild(a, renamed)
    BY <2>7, <2>9, DirentDeleteIs, ZenonT(30)
  <2> HIDE DEF renamed
  <2>11. Whole(g) /\ Mild(renamed, g)
    <3>1. CASE n1 = NoIno
      BY <2>10, <3>1, MildSelf DEF Whole
    <3>2. CASE n1 # NoIno
      <4> DEFINE u == InodeDecref(renamed, n1)
      <4>1. g = u
        BY <3>2
      <4> HIDE DEF R, g
      <4>2. Solid(u, Down(R, n1), NoFile, NoIno) /\ Mild(renamed, u)
        BY <2>1, <2>2, <2>10, <3>2, InodeDecrefIs
      <4>3. QED
        BY <2>2, <3>2, <4>1, <4>2 DEF Whole
    <3>3. QED
      BY <3>1, <3>2
  <2> HIDE DEF g
  <2>12. Steady(a, renamed) /\ renamed.file = a.file /\ Steady(renamed, g) /\ g.file = renamed.file
    BY <2>10, <2>11, MildSteady
  <2>13. Steady(f, g)
    <3>1. Steady(f, w)
      BY <2>3, <2>5, SteadyThen
    <3>2. Steady(f, a)
      BY <3>1, <2>8, SteadyThen
    <3>3. Steady(f, renamed)
      BY <3>2, <2>12, SteadyThen
    <3>4. QED
      BY <3>3, <2>12, SteadyThen
  <2>14. g.file = f.file
    BY <2>3, <2>5, <2>8, <2>12
  <2>15. QED
    BY <1>3, <2>11, <2>13, <2>14, SteadyLives DEF r
<1>4. QED
  BY <1>1, <1>2, <1>3

\* A name goes, and an empty directory with it.
LEMMA UnlinkIs ==
  ASSUME NEW f, Whole(f), NEW o \in FsFile, f.file[o].ino \in Ino, NEW name
  PROVE  LET g == FsUnlinkat(f, o, name).fs
         IN  Whole(g) /\ Lives(f, g) /\ g.file = f.file
<1> DEFINE dir == f.file[o].ino
           n == InodeSearch(f, dir, name)
           e == IF IsType(f, n, "DIR") THEN FlushDir(f, n) ELSE f
           r == FsUnlinkat(f, o, name).fs
<1>1. \/ r = f
      \/ /\ n # NoIno /\ name \notin {Self, Parent} /\ r = InodeDirentDelete(e, dir, name)
         /\ IsType(f, n, "DIR") => IsEmptyDir(f, n)
  BY DEF FsUnlinkat, Result
<1>2. CASE r = f
  BY <1>2 DEF Lives
<1>3. ASSUME n # NoIno, name \notin {Self, Parent}, r = InodeDirentDelete(e, dir, name),
             IsType(f, n, "DIR") => IsEmptyDir(f, n)
      PROVE  Whole(r) /\ Lives(f, r) /\ r.file = f.file
  <2> HIDE DEF r
  <2>1. /\ n \in Ino /\ f.ino[dir].type = "DIR" /\ f.ino[dir].open_count > 0 /\ IsFs(f)
        /\ \E k \in DOMAIN f.ino[dir].dents : /\ f.ino[dir].dents[k].name = name
                                              /\ f.ino[dir].dents[k].ino = n
    <3>1. Solid(f, NoRefs, NoFile, NoIno) /\ IsFs(f)
      BY DEF Whole, Solid, Counts
    <3>2. f.ino[dir].open_count > 0
      BY <3>1, StandsFor
    <3>3. n = InodeSearch(f, dir, name) /\ n # NoIno
      BY <1>3
    <3> HIDE DEF n, dir
    <3>4. dir \in Ino
      BY DEF dir
    <3>5. /\ n \in Ino /\ f.ino[dir].type = "DIR"
          /\ \E k \in DOMAIN f.ino[dir].dents : /\ f.ino[dir].dents[k].name = name
                                                /\ f.ino[dir].dents[k].ino = n
      BY <3>1, <3>3, <3>4, FoundIs
    <3>6. QED
      BY <3>1, <3>2, <3>5
  <2> HIDE DEF n
  <2>2. Whole(e) /\ Mild(f, e) /\ Keeps(f, e, dir)
    <3>1. CASE IsType(f, n, "DIR")
      <4> DEFINE u == FlushDir(f, n)
      <4>1. f.ino[n].type = "DIR" /\ e = u
        BY <3>1 DEF IsType
      <4>2. dir # n
        BY <1>3, <2>1, <3>1 DEF IsEmptyDir
      <4> HIDE DEF e
      <4>3. \E k \in DOMAIN f.ino[dir].dents : f.ino[dir].dents[k].ino = n
        BY <2>1
      <4>4. Solid(u, NoRefs, NoFile, NoIno) /\ Mild(f, u) /\ Keeps(f, u, dir)
        BY <2>1, <4>1, <4>2, <4>3, FlushIs DEF Whole
      <4>5. QED
        BY <4>1, <4>4 DEF Whole
    <3>2. CASE ~IsType(f, n, "DIR")
      BY <3>2, MildSelf DEF Keeps
    <3>3. QED
      BY <3>1, <3>2
  <2> HIDE DEF e
  <2>3. InodeSearch(e, dir, name) # NoIno
    <3>1. IsFs(e) /\ e.ino[dir].type = "DIR" /\ e.ino[dir].dents = f.ino[dir].dents
      BY <2>1, <2>2 DEF Whole, Solid, Counts, Keeps
    <3>2. QED
      BY <2>1, <3>1, SearchAll
  <2> DEFINE g == InodeDirentDelete(e, dir, name)
  <2>4. Solid(g, NoRefs, NoFile, NoIno) /\ Mild(e, g)
    BY <2>2, <2>3, DirentDeleteIs DEF Whole
  <2> HIDE DEF g
  <2>5. Steady(f, e) /\ e.file = f.file /\ Steady(e, g) /\ g.file = e.file
    BY <2>2, <2>4, MildSteady
  <2>6. Lives(f, g)
    BY <2>5, SteadyThen, SteadyLives
  <2>7. QED
    BY <1>3, <2>4, <2>5, <2>6 DEF Whole, g
<1>4. QED
  BY <1>1, <1>2, <1>3

LEMMA SetattrIs ==
  ASSUME NEW f, Whole(f), NEW o, f.file[o].ino \in Ino, NEW size \in Nat
  PROVE  LET g == FsSetattr(f, o, size).fs
         IN  Whole(g) /\ Lives(f, g) /\ g.file = f.file
<1> DEFINE g == FsTruncate(f, f.file[o].ino, size).fs
<1>1. Solid(g, NoRefs, NoFile, NoIno) /\ Mild(f, g)
  BY TruncateIs DEF Whole
<1>2. FsSetattr(f, o, size).fs = g
  BY DEF FsSetattr
<1> HIDE DEF g
<1>3. QED
  BY <1>1, <1>2, MildSteady, SteadyLives DEF Whole

LEMMA WriteLives ==
  ASSUME NEW f, Whole(f), NEW o \in FsFile, NEW off \in Nat, NEW data, Len(data) \in Nat
  PROVE  LET g == FsWrite(f, o, off, data).fs
         IN  Whole(g) /\ Lives(f, g) /\ g.file = f.file
<1> DEFINE g == FsWrite(f, o, off, data).fs
<1>1. Solid(g, NoRefs, NoFile, NoIno) /\ Mild(f, g)
  BY WriteIs DEF Whole
<1> HIDE DEF g
<1>2. Whole(g) /\ Lives(f, g) /\ g.file = f.file
  BY <1>1, MildSteady, SteadyLives DEF Whole
<1>3. QED
  BY <1>2 DEF g

LEMMA OpenLives ==
  ASSUME NEW f, Whole(f), NEW o \in FsFile, f.file[o].ino \in Ino,
         NEW flags, NEW dir, NEW trunc
  PROVE  LET r == FsOpen(f, o, flags, dir, trunc)
         IN  /\ Whole(r.fs) /\ FileInos(f, r.fs) /\ Waits(f, r, o)
             /\ \A m \in Ino : r.fs.ino[m].type \in {f.ino[m].type, "NONE"}
BY OpenIs DEF Whole, Opening

\* A walk makes a file object for an inode in use.
LEMMA WalkIs ==
  ASSUME NEW f, Whole(f), NEW o \in FsFile, f.file[o].ino \in Ino, NEW names \in Seq(AskName),
         \E p \in FsFile : f.file[p].ino = NoIno
  PROVE  LET g == FsWalk(f, o, names).fs
         IN  /\ Whole(g)
             /\ \E n \in Ino : Creates(f, g, Created(f), n)
<1> DEFINE w == Walked(f, f.file[o].ino, names)
           g == FidCreate(f, w.ino)
<1>1. Walks(f, w)
  <2>1. Len(names) \in Nat /\ DOMAIN names = 1 .. Len(names)
    OBVIOUS
  <2>2. f.ino[f.file[o].ino].type # "NONE"
    BY StandsFor DEF Whole
  <2>3. QED
    BY <2>1, <2>2, WalkedIs DEF Whole
<1>2. FsWalk(f, o, names).fs = g
  BY DEF FsWalk
<1> HIDE DEF w
<1>3. w.ino \in Ino /\ f.ino[w.ino].type # "NONE"
  BY <1>1 DEF Walks
<1>4. Solid(g, NoRefs, NoFile, NoIno) /\ Creates(f, g, Created(f), w.ino)
  BY <1>3, CreateIs DEF Whole
<1> HIDE DEF g
<1>5. QED
  BY <1>2, <1>3, <1>4 DEF Whole

LEMMA AttachIs ==
  ASSUME NEW f, Whole(f), f.ino[Root].type # "NONE", \E p \in FsFile : f.file[p].ino = NoIno
  PROVE  LET g == FsAttach(f).fs
         IN  Whole(g) /\ \E n \in Ino : Creates(f, g, Created(f), n)
<1> DEFINE g == FidCreate(f, Root)
<1>1. FsAttach(f).fs = g
  BY DEF FsAttach, Result
<1>2. Solid(g, NoRefs, NoFile, NoIno) /\ Creates(f, g, Created(f), Root)
  BY InoAssumption, CreateIs DEF Whole
<1> HIDE DEF g
<1>3. QED
  BY <1>1, <1>2, InoAssumption DEF Whole

LEMMA RootLives ==
  ASSUME NEW f, Whole(f)
  PROVE  f.ino[Root].type # "NONE"
BY InUse, InoAssumption DEF Whole, Solid

-----------------------------------------------------------------------------
(* The invariant of the device: its file objects are those of the fids in  *)
(* use, and the requests that it has not answered find what they need.     *)

Owned == {h \in Desc : request[h] # NoRequest}
Current == IF in_progress = NoDesc THEN {} ELSE {in_progress}
Pending == Current \union {Avail(queue)[k] : k \in 1 .. Len(Avail(queue))}
Answered == {Used(queue, last_used)[k] : k \in 1 .. Len(Used(queue, last_used))}

\* The fids that a request needs before it is answered, and has afterwards.
Needs(r) ==
  CASE r.op = "attach" -> {}
    [] r.op = "walk" -> {r.fid}
    [] OTHER -> FidsOf(r)
Keeps9(r) == IF r.op = "clunk" THEN {} ELSE FidsOf(r)

\* The fid of the directory that gets an entry without a look at its type.
DirOf(r) ==
  CASE r.op \in {"symlink", "mknod", "link"} -> {r.fid}
    [] r.op = "renameat" -> {r.new_fid}
    [] OTHER -> {}
Makes(r) == r.op \in {"lcreate", "symlink", "mknod", "mkdir"}

QueueOK ==
  /\ queue \in QueueType /\ last_used \in Idx
  /\ HeadsOK(Avail(queue), Used(queue, last_used), Current, Owned)
RequestsOK ==
  /\ request = [h \in Desc |-> request[h]] /\ client.name \in DOMAIN Clients
  /\ client = [k \in {"name", "left"} |-> client[k]]
  /\ \A h \in Owned : AskOK(request[h])
  /\ \A h, k \in Owned : h # k =>
       /\ Claims(request[h]) \intersect FidsOf(request[k]) = {}
       /\ ~(ChangesNames(request[h]) /\ ChangesNames(request[k]))
FidsOK ==
  /\ fid_list = [i \in Fid |-> fid_list[i]]
  /\ \A i \in Fid : \/ fid_list[i] = NoFile
                    \/ fid_list[i] \in FsFile /\ fs.file[fid_list[i]].ino \in Ino
  /\ \A i, j \in Fid : fid_list[i] = fid_list[j] => fid_list[i] = NoFile \/ i = j
  /\ \A o \in FsFile : fs.file[o].ino # NoIno => \E i \in Fid : fid_list[i] = o
HeldOK ==
  /\ held = [i \in Fid |-> held[i]]
  /\ \A i \in Fid : held[i] # "free" =>
       \/ fid_list[i] # NoFile
       \/ \E h \in Owned : request[h].op = "clunk" /\ request[h].fid = i
PendingOK ==
  \A h \in Pending :
    /\ \A i \in Needs(request[h]) : fid_list[i] # NoFile
    /\ \A i \in DirOf(request[h]) : fs.ino[InodeOf(i)].type = "DIR"
    /\ Makes(request[h]) => InodeLeft
AnsweredOK ==
  \A h \in Answered : \A i \in Keeps9(request[h]) : fid_list[i] # NoFile
WaitsOK ==
  /\ in_progress \in Desc \union {NoDesc}
  /\ in_progress # NoDesc => request[in_progress].op = "lopen"
  /\ \A m \in Ino : fs.ino[m].load.cb # NoFile =>
       /\ in_progress # NoDesc
       /\ fs.ino[m].load.cb = fid_list[request[in_progress].fid]
       /\ fs.file[fs.ino[m].load.cb].ino = m
LoopOK ==
  /\ loop = [k \in {"of", "good", "cur", "next"} |-> loop[k]]
  /\ loop = NoLoop \/ loop.of \in Ino
  /\ at = "loop" => loop.of \in Ino
DeviceOK ==
  /\ Whole(fs) /\ fs.called = <<>>
  /\ QueueOK /\ RequestsOK /\ FidsOK /\ HeldOK /\ PendingOK /\ AnsweredOK /\ WaitsOK /\ LoopOK
DeviceInv == IF fs.broken = FALSE THEN DeviceOK ELSE fs.broken = TRUE

-----------------------------------------------------------------------------
(* The beginning: the root, and the files that the server lists.           *)

FirstFs ==
  [ino |-> [n \in Ino |-> NoInode], file |-> [f \in FsFile |-> ClosedFile],
   blocks |-> 0, cache |-> <<>>, cache_size |-> 0, called |-> <<>>, broken |-> FALSE]
RootNode(y) ==
  /\ y = [k \in NodeFields |-> y[k]]
  /\ y.type = "DIR" /\ y.refcount = 3 /\ y.open_count = 0 /\ y.dents = <<>>
  /\ y.state = "LOCAL" /\ y.size = 0 /\ y.buf = <<>> /\ y.load = NoLoad

\* The root before it has its two entries.
LEMMA EmptyRoot ==
  LET f == InodeIncref(InodeIncref(InodeNew(FirstFs, "DIR"), Root), Root)
  IN  /\ f = [k \in FsFields |-> f[k]]
      /\ f.ino = [n \in Ino |-> f.ino[n]] /\ RootNode(f.ino[Root])
      /\ \A n \in Ino : n # Root => f.ino[n] = NoInode
      /\ f.file = [o \in FsFile |-> ClosedFile] /\ f.blocks = 0 /\ f.cache = <<>>
      /\ f.cache_size = 0 /\ f.called = <<>> /\ f.broken = FALSE
<1> DEFINE f0 == FirstFs
           f1 == InodeNew(f0, "DIR")
           f2 == InodeIncref(f1, Root)
           f == InodeIncref(f2, Root)
           x == NewNode("DIR")
           x2 == [x EXCEPT !.refcount = @ + 1]
           y == [x2 EXCEPT !.refcount = @ + 1]
<1>1. NewIno(f0) = Root
  <2>1. Ino \ Allocated(f0) = Ino
    BY NoInodeIs DEF FirstFs, Allocated
  <2>2. Min(Ino) \in Ino /\ \A n \in Ino : Min(Ino) <= n
    BY InoAssumption, MinIs
  <2>3. Min(Ino) <= 1 /\ Min(Ino) \in Nat /\ Min(Ino) # 0
    BY <2>2, InoAssumption DEF Root, NoIno
  <2>4. QED
    BY <2>1, <2>3 DEF NewIno, Root
<1>2. /\ IsNode(x) /\ x.type = "DIR" /\ x.refcount = 1 /\ x.open_count = 0
      /\ x.dents = <<>> /\ x.state = "LOCAL" /\ x.size = 0 /\ x.buf = <<>>
      /\ x.load = NoLoad
  BY NewNodeIs DEF FileTypes
<1>3. /\ f0 = [k \in FsFields |-> f0[k]] /\ f0.ino = [n \in Ino |-> NoInode]
      /\ f0.file = [o \in FsFile |-> ClosedFile] /\ f0.blocks = 0 /\ f0.cache = <<>>
      /\ f0.cache_size = 0 /\ f0.called = <<>> /\ f0.broken = FALSE
  BY DEF FirstFs, FsFields
<1> HIDE DEF f0
<1>4. f1 = [f0 EXCEPT !.ino[Root] = x]
  BY <1>1 DEF InodeNew, NewNode
<1> HIDE DEF x
<1>5. /\ f1 = [k \in FsFields |-> f1[k]] /\ f1.ino = [f0.ino EXCEPT ![Root] = x]
      /\ f1.file = f0.file /\ f1.blocks = 0 /\ f1.cache = <<>>
      /\ f1.cache_size = 0 /\ f1.called = <<>> /\ f1.broken = FALSE
  BY <1>3, <1>4 DEF FsFields
<1> HIDE DEF f1
<1>6. /\ f1.ino = [n \in Ino |-> f1.ino[n]] /\ f1.ino[Root] = x
      /\ \A n \in Ino : n # Root => f1.ino[n] = NoInode
  BY <1>3, <1>5, InoAssumption
<1>7. /\ f2 = [k \in FsFields |-> f2[k]] /\ f2.ino = [f1.ino EXCEPT ![Root] = x2]
      /\ f2.file = f1.file /\ f2.blocks = 0 /\ f2.cache = <<>>
      /\ f2.cache_size = 0 /\ f2.called = <<>> /\ f2.broken = FALSE
  BY <1>5, <1>6 DEF InodeIncref, FsFields
<1> HIDE DEF f2
<1>8. /\ f2.ino = [n \in Ino |-> f2.ino[n]] /\ f2.ino[Root] = x2
      /\ \A n \in Ino : n # Root => f2.ino[n] = NoInode
  BY <1>6, <1>7, InoAssumption
<1>9. /\ f = [k \in FsFields |-> f[k]] /\ f.ino = [f2.ino EXCEPT ![Root] = y]
      /\ f.file = f2.file /\ f.blocks = 0 /\ f.cache = <<>>
      /\ f.cache_size = 0 /\ f.called = <<>> /\ f.broken = FALSE
  BY <1>7, <1>8 DEF InodeIncref, FsFields
<1> HIDE DEF f
<1>10. /\ f.ino = [n \in Ino |-> f.ino[n]] /\ f.ino[Root] = y
       /\ \A n \in Ino : n # Root => f.ino[n] = NoInode
  BY <1>8, <1>9, InoAssumption
<1>11. RootNode(y)
  <2>1. x = [k \in NodeFields |-> x[k]]
    BY <1>2 DEF IsNode
  <2>2. /\ x2 = [k \in NodeFields |-> x2[k]]
        /\ x2.type = "DIR" /\ x2.refcount = 2 /\ x2.open_count = 0 /\ x2.dents = <<>>
        /\ x2.state = "LOCAL" /\ x2.size = 0 /\ x2.buf = <<>> /\ x2.load = NoLoad
    BY <1>2, <2>1 DEF NodeFields
  <2> HIDE DEF x2
  <2>3. /\ y = [k \in NodeFields |-> y[k]]
        /\ y.type = "DIR" /\ y.refcount = 3 /\ y.open_count = 0 /\ y.dents = <<>>
        /\ y.state = "LOCAL" /\ y.size = 0 /\ y.buf = <<>> /\ y.load = NoLoad
    BY <2>2 DEF NodeFields
  <2> HIDE DEF y
  <2>4. QED
    BY <2>3 DEF RootNode
<1> HIDE DEF y
<1>12. QED
  BY <1>3, <1>5, <1>7, <1>9, <1>10, <1>11 DEF f, f2, f1, f0

LEMMA EmptyPairs ==
  ASSUME NEW F, \A d \in Ino : F[d] = {}
  PROVE  Cardinality(Pairs(F)) = 0
<1>1. Pairs(F) = {}
  BY DEF Pairs
<1>2. QED
  BY <1>1, FS_EmptySet

LEMMA EmptyRootSolid ==
  ASSUME NEW f, f = InodeIncref(InodeIncref(InodeNew(FirstFs, "DIR"), Root), Root)
  PROVE  /\ Solid(f, Up(Up(NoRefs, Root), Root), NoFile, NoIno)
         /\ f.ino[Root].type = "DIR" /\ Quiet(f) /\ f.called = <<>>
         /\ \A o \in FsFile : f.file[o].ino = NoIno
         /\ \A n \in Ino : n # Root => f.ino[n].type = "NONE"
<1> DEFINE y == f.ino[Root]
           R == Up(Up(NoRefs, Root), Root)
<1>1. /\ f = [k \in FsFields |-> f[k]]
      /\ f.ino = [n \in Ino |-> f.ino[n]] /\ RootNode(y)
      /\ \A n \in Ino : n # Root => f.ino[n] = NoInode
      /\ f.file = [o \in FsFile |-> ClosedFile] /\ f.blocks = 0 /\ f.cache = <<>>
      /\ f.cache_size = 0 /\ f.called = <<>> /\ f.broken = FALSE
  BY EmptyRoot
<1> HIDE DEF y
<1>2. IsNode(y)
  <2>a. /\ y.type = "DIR" /\ y.refcount = 3 /\ y.open_count = 0 /\ y.dents = <<>>
        /\ y.state = "LOCAL" /\ y.size = 0 /\ y.buf = <<>> /\ y.load = NoLoad
    BY <1>1 DEF RootNode
  <2>b. y.refcount \in Int /\ y.open_count \in Int /\ y.size \in Nat
    BY <2>a
  <2>c. y.dents \in Seq(Dent)
    BY <2>a, EmptySeq
  <2>d. IsSeq(<<>>)
    BY EmptySeq DEF IsSeq
  <2>1. /\ y.refcount \in Int /\ y.open_count \in Int /\ y.dents \in Seq(Dent)
        /\ y.state \in States /\ y.size \in Nat /\ IsSeq(y.buf) /\ IsLoad(y.load)
    BY <2>a, <2>b, <2>c, <2>d, NoLoadIs DEF States
  <2>2. DirentSize * Len(<<>>) = 0
    BY SizesAssumption
  <2>3. /\ y.type = "NONE" => y.refcount = 0 /\ y.open_count = 0 /\ y.size = 0
        /\ y.type # "DIR" => y.dents = <<>>
        /\ y.type = "DIR" => y.size = DirentSize * Len(y.dents)
    BY <1>1, <2>2 DEF RootNode
  <2>4. QED
    BY <1>1, <2>1, <2>3 DEF IsNode, RootNode
<1>3. \A n \in Ino : IsNode(f.ino[n])
  BY <1>1, <1>2, NoInodeIs DEF y
<1>4. \A o \in FsFile : f.file[o] = ClosedFile
  BY <1>1
<1>5. IsFile(ClosedFile) /\ ClosedFile.ino = NoIno /\ ClosedFile.is_opened = FALSE
  BY DEF ClosedFile, IsFile, FileFields
<1>6. IsFs(f)
  <2>1. f.file = [o \in FsFile |-> f.file[o]] /\ \A o \in FsFile : IsFile(f.file[o])
    BY <1>1, <1>4, <1>5
  <2>2. f.blocks \in Int /\ f.cache \in Seq(Ino) /\ f.cache_size \in Int /\ f.broken \in BOOLEAN
    <3>1. f.cache \in Seq(Ino)
      BY <1>1, EmptySeq
    <3>2. f.blocks \in Int /\ f.cache_size \in Int
      BY <1>1
    <3>3. f.broken \in BOOLEAN
      BY <1>1
    <3>4. QED
      BY <3>1, <3>2, <3>3
  <2>3. QED
    BY <1>1, <1>3, <2>1, <2>2 DEF IsFs
<1>7. \A n \in Ino : /\ f.ino[n].dents = <<>> /\ f.ino[n].size = 0 /\ f.ino[n].open_count = 0
                     /\ f.ino[n].state = "LOCAL" /\ f.ino[n].load.cb = NoFile
                     /\ n # Root => f.ino[n].refcount = 0 /\ f.ino[n].type = "NONE"
  BY <1>1, NoInodeIs, NoLoadIs DEF RootNode, y
<1>8. f.ino[Root].refcount = 3 /\ f.ino[Root].type = "DIR"
  BY <1>1 DEF RootNode, y
<1>9. R \in [Ino -> Nat] /\ R[Root] = 2 /\ \A n \in Ino : n # Root => R[n] = 0
  BY InoAssumption DEF Up, NoRefs
<1> HIDE DEF R
<1>10. Refs(f, R)
  <2>1. ASSUME NEW n \in Ino
        PROVE  Names(f, n) = 0
    <3>1. \A d \in Ino : NamedAt(f, n)[d] = {}
      BY <1>7 DEF NamedAt, At
    <3>2. QED
      BY <3>1, EmptyPairs DEF Names
  <2>2. \A n \in Ino : f.ino[n].refcount = Names(f, n) + If1(n = Root) + R[n]
    BY <1>7, <1>8, <1>9, <2>1 DEF If1
  <2>3. \A n \in Ino : f.ino[n].refcount \in Int
    BY <1>6 DEF IsFs, IsNode
  <2>4. QED
    BY <1>9, <2>2, <2>3 DEF Refs
<1>11. Opens(f, NoFile, NoIno)
  <2>1. \A n \in Ino : Standing(f, n, NoFile) = {}
    BY <1>4, <1>5, InoAssumption DEF Standing
  <2>2. \A n \in Ino : Cardinality(Standing(f, n, NoFile)) = 0
    BY <2>1, FS_EmptySet
  <2>3. QED
    BY <1>7, <2>2, InoAssumption DEF Opens, If1
<1>12. Blocks(f)
  <2>1. ToBlocks(0) = 0
    BY ToBlocksIs
  <2>2. \A n \in Ino : BlocksOf(f)[n] = {}
    BY <1>7, <2>1 DEF BlocksOf
  <2>3. QED
    BY <1>1, <2>2, EmptyPairs DEF Blocks
<1>13. Busy(f, NoIno)
  BY <1>7, <1>8 DEF Busy
<1>14. Fresh(f)
  <2>1. \A n \in Ino : Bytes(f)[n] = {}
    BY <1>7 DEF Bytes
  <2>2. f.cache_size = Cardinality(Pairs(Bytes(f)))
    BY <1>1, <2>1, EmptyPairs
  <2>3. Cached(f)
    BY <1>1, <1>7, <2>2 DEF Cached
  <2>4. \A n \in Ino : NodeHere(f, n)
    BY <1>7, <1>8 DEF NodeHere, InMemory
  <2>5. QED
    BY <2>3, <2>4 DEF Fresh
<1>15. QED
  BY <1>1, <1>4, <1>5, <1>6, <1>7, <1>8, <1>10, <1>11, <1>12, <1>13, <1>14
  DEF Solid, Counts, Quiet, R
\* After some files of the list: a root with their names, nobody at work.
Start(f, k) ==
  /\ Whole(f) /\ f.ino[Root].type = "DIR" /\ Quiet(f) /\ f.called = <<>>
  /\ \A o \in FsFile : f.file[o].ino = NoIno
  /\ Cardinality(Allocated(f)) <= k

LEMMA AllocatedFinite ==
  ASSUME NEW f
  PROVE  IsFiniteSet(Allocated(f)) /\ Cardinality(Allocated(f)) \in Nat
<1>1. Allocated(f) \in SUBSET Ino
  BY DEF Allocated
<1>2. QED
  BY <1>1, InoAssumption, FS_Subset, FS_CardinalityType

\* The root has its entries for itself and for its parent, itself.
LEMMA FsMemInitIs == Start(FsMemInit, 1)
<1> DEFINE f == InodeIncref(InodeIncref(InodeNew(FirstFs, "DIR"), Root), Root)
           R == Up(NoRefs, Root)
           RR == Up(R, Root)
           g == InodeDirAdd(f, Root, Self, Root)
           h == InodeDirAdd(g, Root, Parent, Root)
<1>1. FsMemInit = h
  BY DEF FsMemInit, FirstFs
<1>2. /\ Solid(f, RR, NoFile, NoIno)
      /\ f.ino[Root].type = "DIR" /\ Quiet(f) /\ f.called = <<>>
      /\ \A o \in FsFile : f.file[o].ino = NoIno
      /\ \A n \in Ino : n # Root => f.ino[n].type = "NONE"
  BY EmptyRootSolid
<1> HIDE DEF f
<1>3. /\ R \in [Ino -> Nat] /\ R[Root] > 0 /\ Down(R, Root) = NoRefs
      /\ RR[Root] > 0 /\ Down(RR, Root) = R /\ Root \in Ino
  BY NoRefsIs, UpDown, InoAssumption
<1>4. Self \in AskName /\ Parent \in AskName
  BY DEF AskName
<1> HIDE DEF R, RR
<1>5. Solid(g, R, NoFile, NoIno) /\ Relinks(f, g, Root)
  BY <1>2, <1>3, <1>4, DirAddIs
<1> HIDE DEF g
<1>6. g.ino[Root].type = "DIR"
  BY <1>2, <1>5 DEF Relinks
<1>7. Solid(h, NoRefs, NoFile, NoIno) /\ Relinks(g, h, Root)
  BY <1>3, <1>4, <1>5, <1>6, DirAddIs
<1> HIDE DEF h
<1>8. /\ Quiet(h) /\ h.called = <<>> /\ h.ino[Root].type = "DIR"
      /\ \A o \in FsFile : h.file[o].ino = NoIno
      /\ \A n \in Ino : n # Root => h.ino[n].type = "NONE"
  BY <1>2, <1>3, <1>5, <1>6, <1>7 DEF Relinks, Mild
<1>9. Allocated(h) = {Root}
  BY <1>3, <1>8 DEF Allocated
<1>10. Cardinality({Root}) = 1
  BY FS_Singleton
<1>11. QED
  BY <1>1, <1>7, <1>8, <1>9, <1>10 DEF Start, Whole

\* A new file without contents gets its size, and is unloaded.
LEMMA SetUrlIs ==
  ASSUME NEW f, Whole(f), NEW n \in Ino, f.ino[n].type = "REG", f.ino[n].state = "LOCAL",
         f.ino[n].size = 0, NEW id, NEW size \in Nat, \A o \in FsFile : f.file[o].ino = NoIno
  PROVE  LET g == SetUrl(f, n, id, size)
         IN  Whole(g) /\ Mild(f, g) /\ g.ino[n].type = "REG"
<1> DEFINE g == SetUrl(f, n, id, size)
           x == f.ino[n]
           y == [x EXCEPT !.state = "UNLOADED", !.size = size, !.file_id = id]
<1>1. CASE size = 0
  <2>1. g = f
    BY <1>1 DEF SetUrl
  <2>2. QED
    BY <2>1, MildSelf
<1>2. CASE size # 0
  <2>1. IsFs(f) /\ IsNode(x) /\ f.blocks \in Int
    BY DEF Whole, Solid, Counts, IsFs
  <2>2. ToBlocks(0) = 0 /\ ToBlocks(size) \in Nat
    BY ToBlocksIs
  <2>3. g = [f EXCEPT !.ino[n].state = "UNLOADED", !.ino[n].size = size,
                      !.ino[n].file_id = id, !.blocks = @ + ToBlocks(size)]
    BY <1>2 DEF SetUrl
  <2>a. f = [k \in FsFields |-> f[k]] /\ f.ino = [m \in Ino |-> f.ino[m]]
    BY <2>1 DEF IsFs
  <2>b. g = [f EXCEPT !.ino = [f.ino EXCEPT ![n].state = "UNLOADED", ![n].size = size,
                                            ![n].file_id = id],
                      !.blocks = f.blocks + ToBlocks(size)]
    BY <2>3, <2>a DEF FsFields
  <2>c. [f.ino EXCEPT ![n].state = "UNLOADED", ![n].size = size, ![n].file_id = id]
          = [f.ino EXCEPT ![n] = y]
    BY <2>a
  <2> HIDE DEF g, y
  <2>4. /\ g = [k \in FsFields |-> g[k]] /\ g.ino = [f.ino EXCEPT ![n] = y]
        /\ g.file = f.file /\ g.blocks = f.blocks + ToBlocks(size)
        /\ g.cache = f.cache /\ g.cache_size = f.cache_size
        /\ g.called = f.called /\ g.broken = f.broken
    BY <2>a, <2>b, <2>c DEF FsFields
  <2> USE DEF y
  <2> HIDE DEF x
  <2>5. x = [k \in NodeFields |-> x[k]]
    BY <2>1 DEF IsNode
  <2>6. SizedNode(x, y, size, "UNLOADED", x.buf)
    BY <2>5 DEF SizedNode, NodeFields
  <2> HIDE DEF y
  <2>7. x.type = "REG" /\ x.state # "LOADED" /\ x.size = 0 /\ IsSeq(x.buf)
    BY <2>1 DEF x, IsNode
  <2>8. Resizes(x, y)
    BY <2>1, <2>6, <2>7, SizedNodeIs DEF States
  <2>9. y.size = size /\ y.state = "UNLOADED"
    BY <2>6 DEF SizedNode
  <2>10. Holds(f, n, y)
    <3>1. ~OpenAt(f, n)
      BY InoAssumption DEF OpenAt
    <3>2. QED
      BY <2>9, <3>1 DEF Holds
  <2>11. SizedFs(f, g, n, y)
    <3>1. f.blocks + ToBlocks(size) = f.blocks + ToBlocks(y.size) - ToBlocks(f.ino[n].size)
      BY <2>1, <2>2, <2>7, <2>9 DEF x
    <3>2. QED
      BY <2>4, <3>1 DEF SizedFs
  <2>12. Solid(g, NoRefs, NoFile, NoIno) /\ Mild(f, g) /\ g.ino[n] = y
    BY <2>8, <2>10, <2>11, SizeIs DEF Whole, x
  <2>13. y.type = "REG"
    BY <2>6, <2>7 DEF SizedNode
  <2>14. QED
    BY <2>12, <2>13 DEF Whole, g
<1>3. QED
  BY <1>1, <1>2

\* A file of the list.
LEMMA FilelistLoadIs ==
  ASSUME NEW f, NEW k \in Nat, Start(f, k), k < Cardinality(Ino),
         NEW file \in [name : Name, file_id : DOMAIN Server]
  PROVE  Start(FilelistLoad(f, file), k + 1)
<1> DEFINE n == NewIno(f)
           e == InodeNew(f, "REG")
           d == InodeDirAdd(e, Root, file.name, n)
           g == SetUrl(d, n, file.file_id, Len(Server[file.file_id]))
<1>1. FilelistLoad(f, file) = g
  BY DEF FilelistLoad
<1>2. Allocated(f) # Ino
  BY InoAssumption, FS_CardinalityType, AllocatedFinite DEF Start
<1>3. /\ file.name \in AskName /\ "REG" \in FileTypes /\ Root \in Ino
      /\ Len(Server[file.file_id]) \in Nat
  BY ServerAssumption, InoAssumption DEF AskName, FileTypes
<1>4. Whole(f) /\ f.ino[Root].type = "DIR"
  BY DEF Start
<1>5. /\ News(f, e, n, "REG") /\ Whole(d) /\ Lives(f, d) /\ d.file = f.file
      /\ n \in Ino /\ n # Root /\ d.ino[n] = e.ino[n] /\ d.ino[Root].type = "DIR"
      /\ \A m \in Ino : m # n => d.ino[m].type = f.ino[m].type
  BY <1>2, <1>3, <1>4, NewEntry
<1>6. d.ino[n].type = "REG" /\ d.ino[n].state = "LOCAL" /\ d.ino[n].size = 0
  BY <1>5 DEF News
<1> HIDE DEF e, n, d
<1>7. \A o \in FsFile : d.file[o].ino = NoIno
  BY <1>5 DEF Start
<1>8. Whole(g) /\ Mild(d, g) /\ g.ino[n].type = "REG"
  BY <1>3, <1>5, <1>6, <1>7, SetUrlIs
<1> HIDE DEF g
<1>9. /\ Quiet(d) /\ d.called = <<>>
  BY <1>5 DEF Start, Lives
<1>10. /\ Quiet(g) /\ g.called = <<>>
       /\ \A o \in FsFile : g.file[o].ino = NoIno
  BY <1>7, <1>8, <1>9 DEF Mild
<1>11. g.ino[Root].type = "DIR"
  <2>1. g.ino[Root].type # "NONE"
    BY <1>8, RootLives
  <2>2. QED
    BY <1>3, <1>5, <1>8, <2>1 DEF Mild
<1>12. Cardinality(Allocated(g)) <= k + 1
  <2>1. Allocated(g) \in SUBSET (Allocated(f) \union {n})
    BY <1>5, <1>8 DEF Allocated, Mild
  <2>2. IsFiniteSet(Allocated(f) \union {n})
        /\ Cardinality(Allocated(f) \union {n}) <= Cardinality(Allocated(f)) + 1
    <3>1. IsFiniteSet(Allocated(f)) /\ Cardinality(Allocated(f)) \in Nat
      BY AllocatedFinite
    <3> DEFINE A == Allocated(f)
    <3> HIDE DEF A
    <3>2. /\ IsFiniteSet(A \union {n})
          /\ Cardinality(A \union {n}) = IF n \in A THEN Cardinality(A) ELSE Cardinality(A) + 1
      BY <3>1, FS_AddElement DEF A
    <3>3. QED
      BY <3>1, <3>2 DEF A
  <2>3. Cardinality(Allocated(g)) <= Cardinality(Allocated(f) \union {n})
    BY <2>1, <2>2, FS_Subset
  <2>4. /\ Cardinality(Allocated(g)) \in Nat /\ Cardinality(Allocated(f)) \in Nat
        /\ Cardinality(Allocated(f) \union {n}) \in Nat /\ Cardinality(Allocated(f)) <= k
    BY <2>2, AllocatedFinite, FS_CardinalityType DEF Start
  <2>5. QED
    BY <2>2, <2>3, <2>4
<1>13. QED
  BY <1>1, <1>8, <1>10, <1>11, <1>12 DEF Start

LEMMA FilelistCourse ==
  ASSUME NEW f, NEW k \in Nat, DOMAIN Filelist = 1 .. k
  PROVE  \E h : /\ Course(h, "filelist", NoIno, f, Filelist, k)
                /\ FoldLeft(FilelistLoad, f, Filelist) = h[k]
<1> DEFINE IsLoop(g) == LoopOver(g, "filelist", NoIno, f, Filelist, k)
           c == CHOOSE g : IsLoop(g)
<1>1. \E g : IsLoop(g)
  BY LoopExists
<1> HIDE DEF IsLoop
<1>2. IsLoop(c)
  BY <1>1
<1>3. FoldLeft(FilelistLoad, f, Filelist) = c[1 .. k]
  BY DEF FoldLeft, MapThenFoldSet, IsLoop, LoopOver, Do
<1> HIDE DEF c
<1>4. LoopOver(c, "filelist", NoIno, f, Filelist, k)
  BY <1>2 DEF IsLoop
<1>5. QED
  BY <1>3, <1>4, LoopCourse

\* The file system that the device begins with.
LEMMA FirstIs ==
  LET f == FoldLeft(FilelistLoad, FsMemInit, Filelist)
  IN  /\ Whole(f) /\ Quiet(f) /\ f.called = <<>>
      /\ \A o \in FsFile : f.file[o].ino = NoIno
<1> DEFINE k == Len(Filelist)
<1>1. k \in Nat /\ DOMAIN Filelist = 1 .. k /\ k + 1 < Cardinality(Ino)
      /\ \A i \in 1 .. k : Filelist[i] \in [name : Name, file_id : DOMAIN Server]
  <2> DEFINE File == [name : Name, file_id : DOMAIN Server]
  <2>1. Filelist \in Seq(File) /\ k + 1 < Cardinality(Ino)
    BY FilelistAssumption
  <2> HIDE DEF File
  <2>2. k \in Nat /\ DOMAIN Filelist = 1 .. k /\ \A i \in 1 .. k : Filelist[i] \in File
    BY <2>1
  <2>3. QED
    BY <2>1, <2>2 DEF File
<1>2. PICK h : /\ Course(h, "filelist", NoIno, FsMemInit, Filelist, k)
               /\ FoldLeft(FilelistLoad, FsMemInit, Filelist) = h[k]
  BY <1>1, FilelistCourse, ZenonT(30)
<1> HIDE DEF k
<1>3. h[0] = FsMemInit /\ \A i \in 1 .. k : h[i] = FilelistLoad(h[i - 1], Filelist[i])
  BY <1>2 DEF Course, Do
<1> DEFINE T == {i \in Nat : i <= k => Start(h[i], i + 1)}
<1>4. 0 \in T
  BY <1>3, FsMemInitIs
<1>5. ASSUME NEW i \in Nat, i \in T
      PROVE  i + 1 \in T
  <2>1. CASE i + 1 <= k
    <3>1. i + 1 \in 1 .. k /\ (i + 1) - 1 = i /\ i + 1 \in Nat
      BY <1>1, <2>1
    <3>2. Start(h[i], i + 1)
      BY <1>1, <1>5, <2>1
    <3>3. h[i + 1] = FilelistLoad(h[i], Filelist[i + 1])
      BY <1>3, <3>1
    <3>4. i + 1 < Cardinality(Ino)
      BY <1>1, <2>1, InoAssumption, FS_CardinalityType
    <3>5. Start(h[i + 1], (i + 1) + 1)
      BY <1>1, <3>1, <3>2, <3>3, <3>4, FilelistLoadIs
    <3>6. QED
      BY <3>1, <3>5
  <2>2. CASE ~(i + 1 <= k)
    BY <2>2
  <2>3. QED
    BY <2>1, <2>2
<1>6. Nat \subseteq T
  <2> HIDE DEF T
  <2>1. QED
    BY <1>4, <1>5, SetInduction
<1>7. Start(h[k], k + 1)
  BY <1>1, <1>6
<1>8. QED
  BY <1>2, <1>7 DEF Start

LEMMA QueueInitIs ==
  /\ QueueInit \in QueueType /\ 0 \in Idx
  /\ Avail(QueueInit) = <<>> /\ Used(QueueInit, 0) = <<>>
<1> DEFINE q == QueueInit
<1>1. q \in QueueType /\ 0 \in Idx
  BY Indices DEF QueueInit, QueueType, Head0
<1>2. EmptyRings(q) = q
  <2> DEFINE ring == [i \in Desc |-> Head0]
  <2>1. q = [avail_idx |-> 0, avail_ring |-> ring, used_idx |-> 0, used_ring |-> ring,
             last_avail_idx |-> 0, int_status |-> {}, irq |-> FALSE]
    BY DEF QueueInit
  <2>2. EmptyRings(q) = [q EXCEPT !.avail_idx = 0, !.avail_ring = ring,
                                  !.used_idx = 0,  !.used_ring = ring]
    BY DEF EmptyRings
  <2> HIDE DEF ring, q
  <2>3. QED
    BY <2>1, <2>2
<1>3. q.last_avail_idx = 0
  BY DEF QueueInit
<1> HIDE DEF q
<1>4. Avail(q) = <<>> /\ Used(q, 0) = <<>>
  BY <1>1, <1>2, <1>3, RingSetup
<1>5. QED
  BY <1>1, <1>4 DEF q

\* The device begins with its invariant.
LEMMA DeviceBegins == Init => DeviceInv
<1> SUFFICES ASSUME Init
             PROVE  DeviceOK
  <2>1. DeviceOK => fs.broken \in BOOLEAN
    BY DEF DeviceOK, Whole, Solid, Counts, IsFs
  <2>2. QED
    BY <2>1 DEF DeviceInv
<1>1. /\ Whole(fs) /\ Quiet(fs) /\ fs.called = <<>>
      /\ \A o \in FsFile : fs.file[o].ino = NoIno
  <2>1. fs = FoldLeft(FilelistLoad, FsMemInit, Filelist)
    BY DEF Init
  <2>2. QED
    BY <2>1, FirstIs
<1>2. Owned = {} /\ Current = {}
  BY DEF Init, Owned, Current
<1>3. /\ queue \in QueueType /\ last_used \in Idx
      /\ Avail(queue) = <<>> /\ Used(queue, last_used) = <<>>
  BY QueueInitIs DEF Init
<1>4. QueueOK
  BY <1>2, <1>3, HeadsEmpty DEF QueueOK
<1>5. RequestsOK
  BY <1>2 DEF Init, RequestsOK
<1>6. FidsOK
  BY <1>1, InoAssumption DEF Init, FidsOK
<1>7. HeldOK
  BY DEF Init, HeldOK
<1>8. Pending = {} /\ Answered = {}
  BY <1>2, <1>3 DEF Pending, Answered
<1>9. PendingOK /\ AnsweredOK
  BY <1>8 DEF PendingOK, AnsweredOK
<1>10. WaitsOK
  BY <1>1 DEF Init, WaitsOK, Quiet
<1>11. LoopOK
  BY DEF Init, LoopOK, NoLoop
<1>12. QED
  BY <1>1, <1>4, <1>5, <1>6, <1>7, <1>9, <1>10, <1>11 DEF DeviceOK

-----------------------------------------------------------------------------
(* The device answers a request.                                           *)

\* What a request leaves, when the device has done r for it.
Done(r) ==
  /\ Whole(fs)' /\ Quiet(fs)' /\ fs'.called = <<>> /\ FidsOK'
  /\ \A i \in Fid : fid_list[i] # NoFile =>
       fid_list'[i] # NoFile \/ (r.op = "clunk" /\ i = r.fid)
  /\ \A i \in Keeps9(r) : fid_list'[i] # NoFile
  /\ \A i \in Fid \ Claims(r) : fid_list[i] # NoFile =>
       fs'.ino[InodeOf(i)'].type = fs.ino[InodeOf(i)].type
  /\ ~ChangesNames(r) /\ InodeLeft => InodeLeft'

\* What a request says of its fids.
LEMMA FidsOfRequest ==
  ASSUME NEW r, AskOK(r)
  PROVE  /\ Needs(r) \subseteq FidsOf(r) /\ Keeps9(r) \subseteq FidsOf(r)
         /\ DirOf(r) \subseteq FidsOf(r) /\ FidsOf(r) \subseteq Fid
         /\ DirOf(r) \subseteq Needs(r) /\ Claims(r) \subseteq FidsOf(r)
         /\ Makes(r) => ChangesNames(r)
         /\ r.op = "clunk" => r.fid \in Claims(r)
<1>1. Claims(r) \subseteq FidsOf(r)
  BY DEF Claims, FidsOf
<1>2. Needs(r) \subseteq FidsOf(r) /\ Keeps9(r) \subseteq FidsOf(r)
  BY DEF Needs, Keeps9, FidsOf
<1>3. DirOf(r) \subseteq FidsOf(r) /\ DirOf(r) \subseteq Needs(r)
  BY DEF DirOf, FidsOf, Needs
<1>4. FidsOf(r) \subseteq Fid
  BY DEF AskOK
<1>5. Makes(r) => ChangesNames(r)
  BY DEF Makes, ChangesNames
<1>6. r.op = "clunk" => r.fid \in Claims(r)
  BY DEF Claims
<1>7. QED
  BY <1>1, <1>2, <1>3, <1>4, <1>5, <1>6

\* Another request keeps what it needs.
LEMMA OthersKeep ==
  ASSUME DeviceOK, NEW h \in Owned, NEW k \in Owned, h # k, Done(request[h])
  PROVE  /\ \A i \in FidsOf(request[k]) : fid_list[i] # NoFile =>
              /\ fid_list'[i] # NoFile
              /\ fs'.ino[InodeOf(i)'].type = fs.ino[InodeOf(i)].type
         /\ Makes(request[k]) /\ InodeLeft => InodeLeft'
<1> DEFINE r == request[h]
           s == request[k]
<1>1. /\ AskOK(r) /\ AskOK(s) /\ Claims(r) \intersect FidsOf(s) = {}
      /\ ~(ChangesNames(r) /\ ChangesNames(s))
  BY DEF DeviceOK, RequestsOK
<1> HIDE DEF r, s
<1>2. FidsOf(s) \subseteq Fid /\ (Makes(s) => ChangesNames(s)) /\ (r.op = "clunk" => r.fid \in Claims(r))
  BY <1>1, FidsOfRequest
<1>3. ASSUME NEW i \in FidsOf(s), fid_list[i] # NoFile
      PROVE  /\ fid_list'[i] # NoFile
             /\ fs'.ino[InodeOf(i)'].type = fs.ino[InodeOf(i)].type
  <2>1. i \in Fid /\ i \notin Claims(r)
    BY <1>1, <1>2
  <2>2. QED
    BY <1>2, <1>3, <2>1 DEF Done, r
<1>4. Makes(s) /\ InodeLeft => InodeLeft'
  BY <1>1, <1>2 DEF Done, r
<1>5. QED
  BY <1>3, <1>4 DEF s

LEMMA AnswerStep ==
  ASSUME DeviceOK, HasAvail(queue), in_progress = NoDesc,
         queue' = ConsumeDesc(Advance(queue), NextDesc(queue)),
         UNCHANGED <<in_progress, at, loop, guest>>, Done(Taken)
  PROVE  DeviceOK'
<1> DEFINE h == NextDesc(queue)
           r == request[h]
<1>1. /\ queue \in QueueType /\ last_used \in Idx /\ Current = {}
      /\ HeadsOK(Avail(queue), Used(queue, last_used), {}, Owned)
  BY DEF DeviceOK, QueueOK, Current
<1>2. /\ h \in Desc /\ h \in Owned
      /\ Avail(queue) # <<>> /\ Head(Avail(queue)) = h
      /\ \A k \in 1 .. Len(Tail(Avail(queue))) : Tail(Avail(queue))[k] # h
      /\ \A k \in 1 .. Len(Used(queue, last_used)) : Used(queue, last_used)[k] # h
      /\ Avail(queue') = Tail(Avail(queue))
      /\ Used(queue', last_used) = Append(Used(queue, last_used), h)
      /\ HeadsOK(Avail(queue'), Used(queue', last_used), {}, Owned)
  BY <1>1, TakeAndReturn
<1>3. queue' \in QueueType
  BY <1>1, <1>2, QueueOperators
<1>4. /\ request' = request /\ last_used' = last_used /\ held' = held /\ client' = client
      /\ in_progress' = in_progress /\ at' = at /\ loop' = loop /\ Owned' = Owned /\ Current' = {}
  BY DEF guest, Owned, Current
<1>5. QueueOK'
  BY <1>1, <1>2, <1>3, <1>4 DEF QueueOK
<1>6. RequestsOK'
  BY <1>4 DEF DeviceOK, RequestsOK
<1>7. Done(r)
  BY DEF Taken
<1> HIDE DEF h, r
<1>8. FidsOK' /\ Whole(fs)' /\ fs'.called = <<>> /\ Quiet(fs)'
  BY <1>7 DEF Done
<1>9. HeldOK'
  <2>1. ASSUME NEW i \in Fid, held[i] # "free"
        PROVE  \/ fid_list'[i] # NoFile
               \/ \E g \in Owned : request[g].op = "clunk" /\ request[g].fid = i
    <3>1. \/ fid_list[i] # NoFile
          \/ \E g \in Owned : request[g].op = "clunk" /\ request[g].fid = i
      BY <2>1 DEF DeviceOK, HeldOK
    <3>2. fid_list[i] # NoFile => fid_list'[i] # NoFile \/ (r.op = "clunk" /\ i = r.fid)
      BY <1>7 DEF Done
    <3>3. QED
      BY <1>2, <3>1, <3>2 DEF r
  <2>2. QED
    BY <1>4, <2>1 DEF DeviceOK, HeldOK
<1>10. \A k \in Pending' : k \in Pending /\ k \in Owned /\ k # h
  <2>1. Avail(queue) \in Seq(Desc)
    BY <1>1, AvailAndUsed
  <2>2. /\ Len(Tail(Avail(queue))) = Len(Avail(queue)) - 1 /\ Len(Avail(queue)) \in Nat
        /\ \A k \in 1 .. Len(Avail(queue)) - 1 : Tail(Avail(queue))[k] = Avail(queue)[k + 1]
    BY <1>2, <2>1, TailIs
  <2>3. \A k \in 1 .. Len(Avail(queue)) : Avail(queue)[k] \in Owned
    BY <1>1 DEF HeadsOK
  <2>4. Pending' = {Tail(Avail(queue))[k] : k \in 1 .. Len(Tail(Avail(queue)))}
    BY <1>2, <1>4 DEF Pending
  <2>5. Pending = {Avail(queue)[k] : k \in 1 .. Len(Avail(queue))}
    BY <1>1 DEF Pending
  <2>6. ASSUME NEW k \in 1 .. Len(Avail(queue)) - 1
        PROVE  Tail(Avail(queue))[k] = Avail(queue)[k + 1] /\ k + 1 \in 1 .. Len(Avail(queue))
    BY <2>2
  <2>7. QED
    BY <1>2, <2>2, <2>3, <2>4, <2>5, <2>6
<1>11. \A k \in Answered' : k = h \/ (k \in Answered /\ k \in Owned)
  <2>1. Used(queue, last_used) \in Seq(Desc)
    BY <1>1, AvailAndUsed
  <2> DEFINE u == Used(queue, last_used)
             v == Append(u, h)
  <2>2. /\ Len(v) = Len(u) + 1
        /\ \A k \in 1 .. Len(u) + 1 : v[k] = IF k = Len(u) + 1 THEN h ELSE u[k]
    BY <1>2, <2>1, AppendIs
  <2>3. \A k \in 1 .. Len(u) : u[k] \in Owned
    BY <1>1 DEF HeadsOK
  <2>4. Answered' = {v[k] : k \in 1 .. Len(v)} /\ Len(u) \in Nat
    BY <1>2, <1>4, <2>1 DEF Answered
  <2>5. Answered = {u[k] : k \in 1 .. Len(u)}
    BY DEF Answered
  <2> HIDE DEF u, v
  <2>6. QED
    BY <2>2, <2>3, <2>4, <2>5
<1>12. PendingOK'
  <2>1. ASSUME NEW k \in Pending'
        PROVE  /\ \A i \in Needs(request[k]) : fid_list'[i] # NoFile
               /\ \A i \in DirOf(request[k]) : fs'.ino[InodeOf(i)'].type = "DIR"
               /\ Makes(request[k]) => InodeLeft'
    <3>1. k \in Pending /\ k \in Owned /\ k # h
      BY <1>10
    <3>2. /\ \A i \in Needs(request[k]) : fid_list[i] # NoFile
          /\ \A i \in DirOf(request[k]) : fs.ino[InodeOf(i)].type = "DIR"
          /\ Makes(request[k]) => InodeLeft
      BY <3>1 DEF DeviceOK, PendingOK
    <3>3. AskOK(request[k])
      BY <3>1 DEF DeviceOK, RequestsOK
    <3>4. Needs(request[k]) \subseteq FidsOf(request[k])
          /\ DirOf(request[k]) \subseteq Needs(request[k])
      BY <3>3, FidsOfRequest
    <3>5. /\ \A i \in FidsOf(request[k]) : fid_list[i] # NoFile =>
                /\ fid_list'[i] # NoFile
                /\ fs'.ino[InodeOf(i)'].type = fs.ino[InodeOf(i)].type
          /\ Makes(request[k]) /\ InodeLeft => InodeLeft'
      BY <1>2, <1>7, <3>1, OthersKeep DEF r
    <3>6. QED
      BY <3>2, <3>4, <3>5
  <2>2. QED
    BY <1>4, <2>1 DEF PendingOK
<1>13. AnsweredOK'
  <2>1. ASSUME NEW k \in Answered'
        PROVE  \A i \in Keeps9(request[k]) : fid_list'[i] # NoFile
    <3>1. CASE k = h
      BY <1>7, <3>1 DEF Done, r
    <3>2. CASE k # h
      <4>1. k \in Answered /\ k \in Owned
        BY <1>11, <3>2
      <4>2. \A i \in Keeps9(request[k]) : fid_list[i] # NoFile
        BY <4>1 DEF DeviceOK, AnsweredOK
      <4>3. AskOK(request[k])
        BY <4>1 DEF DeviceOK, RequestsOK
      <4>4. Keeps9(request[k]) \subseteq FidsOf(request[k])
        BY <4>3, FidsOfRequest
      <4>5. \A i \in FidsOf(request[k]) : fid_list[i] # NoFile => fid_list'[i] # NoFile
        BY <1>2, <1>7, <3>2, <4>1, OthersKeep DEF r
      <4>6. QED
        BY <4>2, <4>4, <4>5
    <3>3. QED
      BY <3>1, <3>2
  <2>2. QED
    BY <1>4, <2>1 DEF AnsweredOK
<1>14. WaitsOK'
  BY <1>4, <1>8 DEF WaitsOK, Quiet
<1>15. LoopOK'
  BY <1>4 DEF DeviceOK, LoopOK
<1>16. QED
  BY <1>5, <1>6, <1>8, <1>9, <1>12, <1>13, <1>14, <1>15 DEF DeviceOK

\* A fid in use stands for a file object, and that for an inode in use.
LEMMA FidStands ==
  ASSUME DeviceOK, NEW i \in Fid, fid_list[i] # NoFile
  PROVE  /\ fid_list[i] \in FsFile /\ fs.file[fid_list[i]].ino \in Ino
         /\ fs.ino[fs.file[fid_list[i]].ino].type # "NONE"
<1>1. fid_list[i] \in FsFile /\ fs.file[fid_list[i]].ino \in Ino
  BY DEF DeviceOK, FidsOK
<1>2. QED
  BY <1>1, StandsFor DEF DeviceOK, Whole

\* What the device finds when it takes a request.
LEMMA Found ==
  ASSUME DeviceOK, NEW ops, Take(ops)
  PROVE  /\ NextDesc(queue) \in Pending /\ NextDesc(queue) \in Owned
         /\ AskOK(Taken) /\ Taken.op \in ops
         /\ HasAvail(queue) /\ in_progress = NoDesc /\ Quiet(fs) /\ fs.called = <<>>
         /\ Whole(fs)
         /\ \A i \in Needs(Taken) :
              /\ i \in Fid /\ fid_list[i] \in FsFile /\ fid_list[i] # NoFile
              /\ InodeOf(i) \in Ino
              /\ i \in DirOf(Taken) => fs.ino[InodeOf(i)].type = "DIR"
         /\ Makes(Taken) => Allocated(fs) # Ino
<1> DEFINE h == NextDesc(queue)
<1>1. /\ queue \in QueueType /\ last_used \in Idx /\ Current = {}
      /\ HeadsOK(Avail(queue), Used(queue, last_used), {}, Owned)
      /\ HasAvail(queue) /\ in_progress = NoDesc /\ Taken.op \in ops
  BY DEF DeviceOK, QueueOK, Current, Take
<1>2. /\ h \in Owned /\ Avail(queue) # <<>> /\ Head(Avail(queue)) = h
  BY <1>1, TakeAndReturn
<1>3. h \in Pending
  <2>1. Avail(queue) \in Seq(Desc)
    BY <1>1, AvailAndUsed
  <2>2. Len(Avail(queue)) >= 1 /\ Len(Avail(queue)) \in Nat /\ Avail(queue)[1] = h
    BY <1>2, <2>1, TailIs
  <2>3. 1 \in 1 .. Len(Avail(queue))
    BY <2>2
  <2>4. QED
    BY <2>2, <2>3 DEF Pending
<1>4. AskOK(Taken)
  BY <1>2 DEF DeviceOK, RequestsOK, Taken
<1>5. Quiet(fs)
  BY <1>1 DEF DeviceOK, WaitsOK, Quiet
<1>6. ASSUME NEW i \in Needs(Taken)
      PROVE  /\ i \in Fid /\ fid_list[i] \in FsFile /\ fid_list[i] # NoFile
             /\ InodeOf(i) \in Ino
             /\ i \in DirOf(Taken) => fs.ino[InodeOf(i)].type = "DIR"
  <2>1. i \in Fid
    BY <1>4, FidsOfRequest
  <2>2. fid_list[i] # NoFile /\ (i \in DirOf(Taken) => fs.ino[InodeOf(i)].type = "DIR")
    BY <1>3 DEF DeviceOK, PendingOK, Taken
  <2>3. QED
    BY <2>1, <2>2, FidStands DEF InodeOf
<1>7. Makes(Taken) => Allocated(fs) # Ino
  BY <1>3 DEF DeviceOK, PendingOK, Taken, InodeLeft
<1>8. QED
  BY <1>1, <1>2, <1>3, <1>4, <1>5, <1>6, <1>7 DEF DeviceOK

\* An operation that leaves the fids as they are.
SameFids(r) ==
  /\ fid_list' = fid_list /\ Whole(fs)' /\ Quiet(fs)' /\ fs'.called = <<>>
  /\ \A o \in FsFile : fs'.file[o].ino = fs.file[o].ino
  /\ \A n \in Ino : fs.ino[n].type # "NONE" => fs'.ino[n].type \in {fs.ino[n].type, "NONE"}
  /\ ChangesNames(r) \/ \A n \in Ino : fs'.ino[n].type \in {fs.ino[n].type, "NONE"}
  /\ Keeps9(r) \subseteq Needs(r)

\* A file object stands for an inode that is what it was, or would be free.
StillFor(f, g, p, n) ==
  /\ Whole(f) /\ Whole(g) /\ p \in FsFile /\ n \in Ino /\ g.file[p].ino = n
  /\ f.ino[n].type # "NONE" /\ g.ino[n].type \in {f.ino[n].type, "NONE"}

\* What is in use stays what it is.
LEMMA InUseStays ==
  ASSUME NEW f, NEW g, NEW p, NEW n, StillFor(f, g, p, n)
  PROVE  g.ino[n].type = f.ino[n].type
<1>1. p \in FsFile /\ g.file[p].ino \in Ino /\ Solid(g, NoRefs, NoFile, NoIno)
  BY DEF StillFor, Whole
<1>2. g.ino[g.file[p].ino].type # "NONE"
  BY <1>1, StandsFor
<1>3. QED
  BY <1>2 DEF StillFor

LEMMA SameFidsDone ==
  ASSUME DeviceOK, NEW ops, Take(ops), SameFids(Taken)
  PROVE  Done(Taken)
<1> DEFINE r == Taken
<1>1. /\ AskOK(r) /\ \A i \in Needs(r) : fid_list[i] # NoFile
  BY Found
<1>2. FidsOK'
  BY DEF DeviceOK, FidsOK, SameFids
<1>3. \A i \in Keeps9(r) : fid_list'[i] # NoFile
  BY <1>1 DEF SameFids
<1>4. ASSUME NEW i \in Fid, fid_list[i] # NoFile
      PROVE  fs'.ino[InodeOf(i)'].type = fs.ino[InodeOf(i)].type
  <2> DEFINE o == fid_list[i]
             n == fs.file[o].ino
             g == fs'
  <2>1. o \in FsFile /\ n \in Ino /\ fs.ino[n].type # "NONE"
    BY <1>4, FidStands
  <2>2. /\ g.file[o].ino = n /\ g.ino[n].type \in {fs.ino[n].type, "NONE"}
        /\ Whole(fs) /\ Whole(g)
    BY <2>1 DEF SameFids, DeviceOK
  <2>3. InodeOf(i)' = g.file[o].ino /\ InodeOf(i) = n
    BY DEF InodeOf, SameFids
  <2>4. StillFor(fs, g, o, n)
    BY <2>1, <2>2 DEF StillFor
  <2> HIDE DEF g, o, n
  <2>5. g.ino[n].type = fs.ino[n].type
    BY <2>4, InUseStays
  <2>6. fs'.ino[InodeOf(i)'].type = g.ino[n].type
    BY <2>2, <2>3 DEF g
  <2>7. QED
    BY <2>3, <2>5, <2>6
<1>5. ~ChangesNames(r) /\ InodeLeft => InodeLeft'
  BY DEF SameFids, InodeLeft, Allocated
<1>6. QED
  BY <1>2, <1>3, <1>4, <1>5 DEF Done, SameFids

\* An operation on names or contents.
LEMMA LivesSame ==
  ASSUME DeviceOK, NEW ops, Take(ops), fid_list' = fid_list,
         Whole(fs'), Lives(fs, fs'), fs'.file = fs.file,
         ChangesNames(Taken) \/ Steady(fs, fs'), Keeps9(Taken) \subseteq Needs(Taken)
  PROVE  SameFids(Taken)
<1>1. Quiet(fs) /\ fs.called = <<>>
  BY Found
<1>2. QED
  BY <1>1 DEF SameFids, Lives, Steady

\* The device answers at once.
AnswersNow ==
  /\ queue' = ConsumeDesc(Advance(queue), NextDesc(queue))
  /\ UNCHANGED <<in_progress, at, loop, guest>>

LEMMA DoneIs ==
  ASSUME DeviceOK, NEW ops, Take(ops), AnswersNow, Done(Taken)
  PROVE  DeviceOK'
BY Found, AnswerStep DEF AnswersNow

\* Names or contents may have changed.
LEMMA SameIs ==
  ASSUME DeviceOK, NEW ops, Take(ops), "attach" \notin ops, "walk" \notin ops, AnswersNow,
         fid_list' = fid_list, Whole(fs'), Lives(fs, fs'), fs'.file = fs.file,
         ChangesNames(Taken) \/ Steady(fs, fs')
  PROVE  DeviceOK'
<1>1. Taken.op # "attach" /\ Taken.op # "walk"
  BY DEF Take
<1>2. Keeps9(Taken) \subseteq Needs(Taken)
  BY <1>1 DEF Keeps9, Needs
<1>3. SameFids(Taken)
  BY <1>2, LivesSame
<1>4. Done(Taken)
  BY <1>3, SameFidsDone
<1>5. QED
  BY <1>4, DoneIs

\* Nothing has.
LEMMA NothingIs ==
  ASSUME DeviceOK, NEW ops, Take(ops), "attach" \notin ops, "walk" \notin ops, AnswersNow,
         fid_list' = fid_list, fs' = fs
  PROVE  DeviceOK'
<1>1. Whole(fs') /\ Lives(fs, fs') /\ fs'.file = fs.file /\ Steady(fs, fs')
  BY DEF DeviceOK, Lives, Steady
<1>2. QED
  BY <1>1, SameIs

LEMMA ReadOnly ==
  ASSUME DeviceOK, Stateless \/ Getattr \/ Readdir \/ Readlink \/ Lock \/ Read
  PROVE  DeviceOK'
<1>1. fs' = fs /\ fid_list' = fid_list /\ AnswersNow
  BY DEF Stateless, Getattr, Readdir, Readlink, Lock, Read, AnswerCode, Answer, SendReply,
         AnswersNow
<1>2. CASE Stateless
  BY <1>1, <1>2, NothingIs DEF Stateless
<1>3. CASE Getattr
  BY <1>1, <1>3, NothingIs DEF Getattr
<1>4. CASE Readdir
  BY <1>1, <1>4, NothingIs DEF Readdir
<1>5. CASE Readlink
  BY <1>1, <1>5, NothingIs DEF Readlink
<1>6. CASE Lock
  BY <1>1, <1>6, NothingIs DEF Lock
<1>7. CASE Read
  BY <1>1, <1>7, NothingIs DEF Read
<1>8. QED
  BY <1>2, <1>3, <1>4, <1>5, <1>6, <1>7

\* What a request with one fid needs.
LEMMA OneFid ==
  ASSUME DeviceOK, NEW ops, Take(ops), Taken.op \notin {"attach", "none", "stateless",
         "xattrwalk", "unknown"}
  PROVE  LET o == FileOf(Taken.fid)
         IN  /\ Taken.fid \in Fid /\ o \in FsFile /\ fs.file[o].ino \in Ino
             /\ Taken.fid \in DirOf(Taken) => fs.ino[fs.file[o].ino].type = "DIR"
<1>1. Taken.fid \in Needs(Taken)
  BY DEF Needs, FidsOf
<1>2. QED
  BY <1>1, Found DEF FileOf, InodeOf

LEMMA TwoFids ==
  ASSUME DeviceOK, NEW ops, Take(ops), Taken.op \in {"link", "renameat"}
  PROVE  LET o == FileOf(Taken.new_fid)
         IN  /\ o \in FsFile /\ fs.file[o].ino \in Ino
             /\ Taken.new_fid \in DirOf(Taken) => fs.ino[fs.file[o].ino].type = "DIR"
<1>1. Taken.new_fid \in Needs(Taken)
  BY DEF Needs, FidsOf
<1>2. QED
  BY <1>1, Found DEF FileOf, InodeOf

LEMMA NamesStep ==
  ASSUME DeviceOK, Symlink \/ Mknod \/ Mkdir \/ Link \/ Renameat \/ Unlinkat
  PROVE  DeviceOK'
<1> DEFINE r == Taken
           o == FileOf(r.fid)
           p == FileOf(r.new_fid)
<1>1. fid_list' = fid_list /\ AnswersNow
  BY DEF Symlink, Mknod, Mkdir, Link, Renameat, Unlinkat, AnswerResult, AnswerCode, Answer,
         SendReply, AnswersNow
<1>2. Whole(fs)
  BY DEF DeviceOK
<1> HIDE DEF r
<1>3. CASE Symlink
  <2>1. Take({"symlink"}) /\ fs' = FsMakeNode(fs, o, r.name, "LNK").fs
    BY <1>3 DEF Symlink, AnswerResult, r
  <2>2. r.op = "symlink" /\ AskOK(r) /\ Makes(r) /\ Allocated(fs) # Ino /\ r.fid \in DirOf(r)
    BY <2>1, Found DEF Makes, DirOf, r
  <2>3. /\ fs.file[o].ino \in Ino /\ fs.ino[fs.file[o].ino].type = "DIR"
    BY <2>1, <2>2, OneFid DEF r
  <2>4. r.name \in AskName /\ "LNK" \in FileTypes /\ ChangesNames(r)
    BY <2>2 DEF AskOK, ChangesNames, FileTypes
  <2>5. Whole(fs') /\ Lives(fs, fs') /\ fs'.file = fs.file
    BY <1>2, <2>1, <2>2, <2>3, <2>4, MakeNodeIs
  <2>6. QED
    BY <1>1, <2>1, <2>4, <2>5, SameIs DEF r
<1>4. CASE Mknod
  <2>1. Take({"mknod"}) /\ fs' = FsMakeNode(fs, o, r.name, r.type).fs
    BY <1>4 DEF Mknod, AnswerResult, r
  <2>2. r.op = "mknod" /\ AskOK(r) /\ Makes(r) /\ Allocated(fs) # Ino /\ r.fid \in DirOf(r)
    BY <2>1, Found DEF Makes, DirOf, r
  <2>3. /\ fs.file[o].ino \in Ino /\ fs.ino[fs.file[o].ino].type = "DIR"
    BY <2>1, <2>2, OneFid DEF r
  <2>4. r.name \in AskName /\ r.type \in FileTypes /\ ChangesNames(r)
    BY <2>2 DEF AskOK, ChangesNames
  <2>5. Whole(fs') /\ Lives(fs, fs') /\ fs'.file = fs.file
    BY <1>2, <2>1, <2>2, <2>3, <2>4, MakeNodeIs
  <2>6. QED
    BY <1>1, <2>1, <2>4, <2>5, SameIs DEF r
<1>5. CASE Mkdir
  <2>1. Take({"mkdir"}) /\ fs' = FsMkdir(fs, o, r.name).fs
    BY <1>5 DEF Mkdir, AnswerResult, r
  <2>2. r.op = "mkdir" /\ AskOK(r) /\ Makes(r) /\ Allocated(fs) # Ino
    BY <2>1, Found DEF Makes, r
  <2>3. fs.file[o].ino \in Ino
    BY <2>1, <2>2, OneFid DEF r
  <2>4. r.name \in AskName /\ ChangesNames(r)
    BY <2>2 DEF AskOK, ChangesNames
  <2>5. Whole(fs') /\ Lives(fs, fs') /\ fs'.file = fs.file
    BY <1>2, <2>1, <2>2, <2>3, <2>4, MkdirIs
  <2>6. QED
    BY <1>1, <2>1, <2>4, <2>5, SameIs DEF r
<1>6. CASE Link
  <2>1. Take({"link"}) /\ fs' = FsLink(fs, o, p, r.name).fs
    BY <1>6 DEF Link, AnswerResult, r
  <2>2. r.op = "link" /\ AskOK(r) /\ r.fid \in DirOf(r)
    BY <2>1, Found DEF DirOf, r
  <2>3. fs.file[o].ino \in Ino /\ fs.ino[fs.file[o].ino].type = "DIR"
    BY <2>1, <2>2, OneFid DEF r
  <2>4. p \in FsFile /\ fs.file[p].ino \in Ino
    BY <2>1, <2>2, TwoFids DEF r
  <2>5. r.name \in AskName /\ ChangesNames(r)
    BY <2>2 DEF AskOK, ChangesNames
  <2>6. Whole(fs') /\ Lives(fs, fs') /\ fs'.file = fs.file
    BY <1>2, <2>1, <2>3, <2>4, <2>5, LinkIs
  <2>7. QED
    BY <1>1, <2>1, <2>5, <2>6, SameIs DEF r
<1>7. CASE Renameat
  <2>1. Take({"renameat"}) /\ fs' = FsRenameat(fs, o, r.name, p, r.new_name).fs
    BY <1>7 DEF Renameat, AnswerResult, r
  <2>2. r.op = "renameat" /\ AskOK(r) /\ r.new_fid \in DirOf(r)
    BY <2>1, Found DEF DirOf, r
  <2>3. fs.file[o].ino \in Ino
    BY <2>1, <2>2, OneFid DEF r
  <2>4. fs.file[p].ino \in Ino /\ fs.ino[fs.file[p].ino].type = "DIR"
    BY <2>1, <2>2, TwoFids DEF r
  <2>5. r.new_name \in AskName /\ ChangesNames(r)
    BY <2>2 DEF AskOK, ChangesNames
  <2>6. Whole(fs') /\ Lives(fs, fs') /\ fs'.file = fs.file
    BY <1>2, <2>1, <2>3, <2>4, <2>5, RenameIs
  <2>7. QED
    BY <1>1, <2>1, <2>5, <2>6, SameIs DEF r
<1>8. CASE Unlinkat
  <2>1. Take({"unlinkat"}) /\ fs' = FsUnlinkat(fs, o, r.name).fs
    BY <1>8 DEF Unlinkat, AnswerResult, r
  <2>2. r.op = "unlinkat" /\ ChangesNames(r)
    BY <2>1, Found DEF ChangesNames, r
  <2>3. o \in FsFile /\ fs.file[o].ino \in Ino
    BY <2>1, <2>2, OneFid DEF r
  <2>4. Whole(fs') /\ Lives(fs, fs') /\ fs'.file = fs.file
    BY <1>2, <2>1, <2>3, UnlinkIs
  <2>5. QED
    BY <1>1, <2>1, <2>2, <2>4, SameIs DEF r
<1>9. QED
  BY <1>3, <1>4, <1>5, <1>6, <1>7, <1>8

LEMMA ContentsStep ==
  ASSUME DeviceOK, Setattr \/ Write
  PROVE  DeviceOK'
<1> DEFINE r == Taken
           o == FileOf(r.fid)
<1>1. fid_list' = fid_list /\ AnswersNow
  BY DEF Setattr, Write, AnswerResult, AnswerCode, Answer, SendReply, AnswersNow
<1>2. Solid(fs, NoRefs, NoFile, NoIno)
  BY DEF DeviceOK, Whole
<1> HIDE DEF r
<1>3. ASSUME NEW g, Solid(g, NoRefs, NoFile, NoIno), Mild(fs, g)
      PROVE  Whole(g) /\ Lives(fs, g) /\ g.file = fs.file /\ Steady(fs, g)
  BY <1>3, MildSteady, SteadyLives DEF Whole
<1>4. CASE Setattr
  <2>1. Take({"setattr"}) /\ fs' = FsTruncate(fs, fs.file[o].ino, r.size).fs
    BY <1>4 DEF Setattr, AnswerResult, FsSetattr, r
  <2>2. r.op = "setattr" /\ AskOK(r)
    BY <2>1, Found DEF r
  <2>3. r.size \in Nat
    BY <2>2 DEF AskOK
  <2>4. fs.file[o].ino \in Ino
    BY <2>1, <2>2, OneFid DEF r
  <2>5. Solid(fs', NoRefs, NoFile, NoIno) /\ Mild(fs, fs')
    BY <1>2, <2>1, <2>3, <2>4, TruncateIs
  <2>6. Whole(fs') /\ Lives(fs, fs') /\ fs'.file = fs.file /\ Steady(fs, fs')
    BY <1>3, <2>5
  <2>7. QED
    BY <1>1, <2>1, <2>6, SameIs
<1>5. CASE Write
  <2>1. Take({"write"}) /\ fs' = FsWrite(fs, o, r.off, r.data).fs
    BY <1>5 DEF Write, AnswerResult, r
  <2>2. r.op = "write" /\ AskOK(r)
    BY <2>1, Found DEF r
  <2>3. r.off \in Nat /\ Len(r.data) \in Nat
    BY <2>2 DEF AskOK
  <2>4. o \in FsFile
    BY <2>1, <2>2, OneFid DEF r
  <2>5. Solid(fs', NoRefs, NoFile, NoIno) /\ Mild(fs, fs')
    BY <1>2, <2>1, <2>3, <2>4, WriteIs
  <2>6. Whole(fs') /\ Lives(fs, fs') /\ fs'.file = fs.file /\ Steady(fs, fs')
    BY <1>3, <2>5
  <2>7. QED
    BY <1>1, <2>1, <2>6, SameIs
<1>6. QED
  BY <1>4, <1>5

\* Fids stand for different file objects.
LEMMA FidsDiffer ==
  ASSUME DeviceOK, NEW i \in Fid, NEW j \in Fid, i # j, fid_list[i] # NoFile
  PROVE  fid_list[i] # fid_list[j]
BY DEF DeviceOK, FidsOK

\* A created file takes the place of its directory.
LEMMA LcreateStep ==
  ASSUME DeviceOK, Lcreate
  PROVE  DeviceOK'
<1> DEFINE r == Taken
           o == FileOf(r.fid)
           g == fs'
<1>1. /\ Take({"lcreate"}) /\ fid_list' = fid_list /\ AnswersNow
      /\ g = FsCreate(fs, o, r.name, r.flags).fs
  BY DEF Lcreate, AnswerResult, AnswerCode, Answer, SendReply, AnswersNow
<1>2. /\ r.op = "lcreate" /\ AskOK(r) /\ Allocated(fs) # Ino /\ Whole(fs) /\ Quiet(fs)
      /\ fs.called = <<>>
  BY <1>1, Found DEF Makes
<1>3. r.fid \in Fid /\ o \in FsFile /\ fs.file[o].ino \in Ino
  BY <1>1, <1>2, OneFid
<1>4. r.name \in AskName /\ ChangesNames(r) /\ Claims(r) = {r.fid} /\ Keeps9(r) = {r.fid}
  BY <1>2 DEF AskOK, ChangesNames, Claims, Keeps9, FidsOf
<1> HIDE DEF r
<1>5. Moves(fs, g, o)
  BY <1>1, <1>2, <1>3, <1>4, FsCreateIs
<1>6. FidsOK'
  <2>1. /\ \A p \in FsFile : g.file[p].ino \in Ino <=> fs.file[p].ino \in Ino
        /\ \A p \in FsFile : g.file[p].ino # NoIno <=> fs.file[p].ino # NoIno
    BY <1>3, <1>5, InoAssumption DEF Moves
  <2>2. QED
    BY <1>1, <2>1 DEF DeviceOK, FidsOK
<1>7. ASSUME NEW i \in Fid \ {r.fid}, fid_list[i] # NoFile
      PROVE  g.ino[InodeOf(i)'].type = fs.ino[InodeOf(i)].type
  <2> DEFINE p == fid_list[i]
             n == fs.file[p].ino
  <2>1. p \in FsFile /\ n \in Ino /\ fs.ino[n].type # "NONE"
    BY <1>7, FidStands
  <2>2. p # o
    BY <1>3, <1>7, FidsDiffer DEF FileOf
  <2>3. g.file[p].ino = n /\ Whole(g) /\ g.ino[n].type \in {fs.ino[n].type, "NONE"}
    BY <1>5, <2>1, <2>2 DEF Moves, Lives
  <2>4. InodeOf(i)' = g.file[p].ino /\ InodeOf(i) = n
    BY <1>1 DEF InodeOf
  <2>5. StillFor(fs, g, p, n)
    BY <1>2, <2>1, <2>3 DEF StillFor
  <2> HIDE DEF g, p, n
  <2>6. g.ino[n].type = fs.ino[n].type
    BY <2>5, InUseStays
  <2>7. QED
    BY <2>3, <2>4, <2>6
<1>8. fid_list[r.fid] # NoFile
  BY <1>3, FsFileAssumption DEF FileOf
<1>9. Whole(g) /\ Quiet(g) /\ g.called = <<>>
  BY <1>2, <1>5 DEF Moves, Lives
<1>10. Done(r)
  BY <1>1, <1>4, <1>6, <1>7, <1>8, <1>9 DEF Done
<1>11. QED
  BY <1>1, <1>10, DoneIs DEF r

\* There is a file object for a fid: there are more of them than fids.
LEMMA FileLeft ==
  ASSUME DeviceOK
  PROVE  \E o \in FsFile : fs.file[o].ino = NoIno
<1> SUFFICES ASSUME \A o \in FsFile : fs.file[o].ino # NoIno
             PROVE  FALSE
  OBVIOUS
<1>1. \A o \in FsFile : \E i \in Fid : fid_list[i] = o
  BY DEF DeviceOK, FidsOK
<1> DEFINE q == [o \in FsFile |-> CHOOSE i \in Fid : fid_list[i] = o]
<1>2. \A o \in FsFile : q[o] \in Fid /\ fid_list[q[o]] = o
  BY <1>1
<1>3. q \in [FsFile -> Fid]
  BY <1>2
<1> HIDE DEF q
<1>4. \E o, p \in FsFile : o # p /\ q[o] = q[p]
  BY <1>3, FidAssumption, FsFileAssumption, FS_PigeonHole
<1>5. QED
  BY <1>2, <1>4

\* The file object that a fid stands for is another one than the new one.
LEMMA FidSetDone ==
  ASSUME DeviceOK, NEW ops, Take(ops), Taken.op \in {"attach", "walk"}, NEW i \in Fid,
         Claims(Taken) = {i}, Keeps9(Taken) \subseteq Needs(Taken) \union {i},
         NEW f, Whole(f), NEW n \in Ino, NEW c, Creates(fs, f, c, n), FidSet(f, i, c)
  PROVE  Done(Taken)
<1> DEFINE r == Taken
           d == fid_list[i]
           g == fs'
<1>1. /\ Whole(fs) /\ Quiet(fs) /\ fs.called = <<>>
      /\ \A j \in Needs(r) : j \in Fid /\ fid_list[j] # NoFile
  BY Found
<1>2. /\ c \in FsFile /\ fs.file[c].ino = NoIno /\ f.file[c].ino = n
      /\ \A p \in FsFile : p # c => f.file[p] = fs.file[p]
      /\ Steady(fs, f)
  BY DEF Creates
<1>3. /\ g = IF d = NoFile THEN f ELSE FsDelete(f, d)
      /\ fid_list' = [fid_list EXCEPT ![i] = c]
      /\ fid_list = [j \in Fid |-> fid_list[j]]
  BY DEF FidSet, DeviceOK, FidsOK
<1>4. fid_list'[i] = c /\ \A j \in Fid : j # i => fid_list'[j] = fid_list[j]
  BY <1>3
<1>5. \A j \in Fid : fid_list[j] # NoFile =>
        fid_list[j] \in FsFile /\ fs.file[fid_list[j]].ino \in Ino /\ fid_list[j] # c
  BY <1>2, FidStands, InoAssumption
<1>6. c # d /\ c # NoFile
  BY <1>2, <1>5, FsFileAssumption
<1>7. /\ Whole(g) /\ Steady(f, g)
      /\ d # NoFile => g.file[d].ino = NoIno
      /\ \A p \in FsFile : p # d => g.file[p] = f.file[p]
  <2>1. CASE d = NoFile
    <3>1. g = f
      BY <1>3, <2>1
    <3>2. QED
      BY <2>1, <3>1 DEF Steady
  <2>2. CASE d # NoFile
    <3>1. d \in FsFile /\ f.file[d].ino \in Ino
      BY <1>2, <1>5, <1>6, <2>2
    <3>2. g = FsDelete(f, d)
      BY <1>3, <2>2
    <3> HIDE DEF d, g
    <3>3. QED
      BY <2>2, <3>1, <3>2, DeleteIs DEF Whole
  <2>3. QED
    BY <2>1, <2>2
<1> HIDE DEF r, d, g
<1>8. /\ g.file[c].ino = n
      /\ \A p \in FsFile : p # c /\ p # d => g.file[p] = fs.file[p]
  BY <1>2, <1>6, <1>7
<1>9. \A j \in Fid : j # i /\ fid_list[j] # NoFile => fid_list[j] # d
  BY FidsDiffer DEF d
<1>10. FidsOK'
  <2>1. fid_list' = [j \in Fid |-> fid_list'[j]]
    BY <1>3
  <2>2. ASSUME NEW j \in Fid
        PROVE  \/ fid_list'[j] = NoFile
               \/ fid_list'[j] \in FsFile /\ g.file[fid_list'[j]].ino \in Ino
    BY <1>2, <1>4, <1>5, <1>8, <1>9
  <2>3. ASSUME NEW j \in Fid, NEW k \in Fid, fid_list'[j] = fid_list'[k]
        PROVE  fid_list'[j] = NoFile \/ j = k
    BY <1>4, <1>5, <1>6, <2>3, FidsDiffer
  <2>4. ASSUME NEW o \in FsFile, g.file[o].ino # NoIno
        PROVE  \E j \in Fid : fid_list'[j] = o
    <3>1. CASE o = c
      BY <1>4, <3>1
    <3>2. CASE o # c
      <4>1. o # d
        BY <1>7, <2>4, FsFileAssumption
      <4>2. fs.file[o].ino # NoIno
        BY <1>8, <2>4, <3>2, <4>1
      <4>3. PICK j \in Fid : fid_list[j] = o
        BY <4>2 DEF DeviceOK, FidsOK
      <4>4. j # i
        BY <4>1, <4>3 DEF d
      <4>5. QED
        BY <1>4, <4>3, <4>4
    <3>3. QED
      BY <3>1, <3>2
  <2>5. QED
    BY <2>1, <2>2, <2>3, <2>4 DEF FidsOK, g
<1>11. \A j \in Fid : fid_list[j] # NoFile => fid_list'[j] # NoFile
  BY <1>4, <1>6
<1>12. \A j \in Keeps9(r) : fid_list'[j] # NoFile
  <2>1. Keeps9(r) \subseteq Needs(r) \union {i}
    BY DEF r
  <2>2. QED
    BY <1>1, <1>4, <1>6, <1>11, <2>1
<1>13. ASSUME NEW j \in Fid, j # i, fid_list[j] # NoFile
       PROVE  g.ino[InodeOf(j)'].type = fs.ino[InodeOf(j)].type
  <2> DEFINE p == fid_list[j]
             m == fs.file[p].ino
  <2>1. p \in FsFile /\ m \in Ino /\ fs.ino[m].type # "NONE" /\ p # c /\ p # d
    BY <1>5, <1>9, <1>13, FidStands
  <2>2. g.file[p].ino = m
    BY <1>8, <2>1
  <2>3. g.ino[m].type \in {fs.ino[m].type, "NONE"}
    BY <1>2, <1>7, <2>1 DEF Steady
  <2>4. InodeOf(j)' = g.file[p].ino /\ InodeOf(j) = m
    BY <1>4, <1>13 DEF InodeOf, g
  <2>5. Whole(g) /\ Whole(fs)
    BY <1>1, <1>7
  <2> HIDE DEF p, m
  <2>6. StillFor(fs, g, p, m)
    BY <2>1, <2>2, <2>3, <2>5 DEF StillFor
  <2>7. g.ino[m].type = fs.ino[m].type
    BY <2>6, InUseStays
  <2>8. QED
    BY <2>2, <2>4, <2>7
<1>14. InodeLeft => InodeLeft'
  BY <1>2, <1>7 DEF InodeLeft, Allocated, Steady, g
<1>15. Quiet(g) /\ g.called = <<>>
  BY <1>1, <1>2, <1>7 DEF Steady
<1>16. QED
  BY <1>7, <1>10, <1>11, <1>12, <1>13, <1>14, <1>15 DEF Done, r, g

LEMMA AttachStep ==
  ASSUME DeviceOK, Attach
  PROVE  DeviceOK'
<1> DEFINE r == Taken
<1>1. /\ Take({"attach"}) /\ FidSet(FsAttach(fs).fs, r.fid, Created(fs)) /\ AnswersNow
  BY DEF Attach, AnswerCode, Answer, SendReply, AnswersNow
<1>2. r.op = "attach" /\ AskOK(r) /\ Whole(fs)
  BY <1>1, Found
<1>3. r.fid \in Fid /\ Claims(r) = {r.fid} /\ Keeps9(r) = {r.fid}
  BY <1>2 DEF AskOK, Claims, Keeps9, FidsOf
<1>4. \E p \in FsFile : fs.file[p].ino = NoIno
  BY FileLeft
<1>5. /\ Whole(FsAttach(fs).fs)
      /\ \E n \in Ino : Creates(fs, FsAttach(fs).fs, Created(fs), n)
  BY <1>2, <1>4, RootLives, AttachIs
<1>6. Done(r)
  BY <1>1, <1>2, <1>3, <1>5, FidSetDone
<1>7. QED
  BY <1>1, <1>6, DoneIs

LEMMA WalkStep ==
  ASSUME DeviceOK, Walk
  PROVE  DeviceOK'
<1> DEFINE r == Taken
           f == FsWalk(fs, FileOf(r.fid), r.names).fs
<1>1. /\ Take({"walk"}) /\ FidSet(f, r.newfid, Created(fs)) /\ AnswersNow
  BY DEF Walk, Answer, SendReply, AnswersNow
<1>2. r.op = "walk" /\ AskOK(r) /\ Whole(fs)
  BY <1>1, Found
<1>3. /\ r.newfid \in Fid /\ Claims(r) = {r.newfid} /\ r.names \in Seq(AskName)
      /\ Keeps9(r) \subseteq Needs(r) \union {r.newfid}
  BY <1>2 DEF AskOK, Claims, Keeps9, Needs, FidsOf
<1>4. FileOf(r.fid) \in FsFile /\ fs.file[FileOf(r.fid)].ino \in Ino
  BY <1>1, <1>2, OneFid
<1>5. \E p \in FsFile : fs.file[p].ino = NoIno
  BY FileLeft
<1>6. Whole(f) /\ \E n \in Ino : Creates(fs, f, Created(fs), n)
  BY <1>2, <1>3, <1>4, <1>5, WalkIs
<1> HIDE DEF f
<1>7. Done(r)
  BY <1>1, <1>2, <1>3, <1>6, FidSetDone
<1>8. QED
  BY <1>1, <1>7, DoneIs

LEMMA ClunkStep ==
  ASSUME DeviceOK, Clunk
  PROVE  DeviceOK'
<1> DEFINE r == Taken
           i == r.fid
           d == FileOf(i)
           g == fs'
<1>1. /\ Take({"clunk"}) /\ g = FsDelete(fs, d) /\ AnswersNow
      /\ fid_list' = [fid_list EXCEPT ![i] = NoFile]
  BY DEF Clunk, AnswerCode, Answer, SendReply, AnswersNow
<1>2. r.op = "clunk" /\ Whole(fs) /\ Quiet(fs) /\ fs.called = <<>>
  BY <1>1, Found
<1>3. i \in Fid /\ d \in FsFile /\ fs.file[d].ino \in Ino
  BY <1>1, <1>2, OneFid
<1>4. Claims(r) = {i} /\ Keeps9(r) = {}
  BY <1>2 DEF Claims, Keeps9
<1> HIDE DEF r
<1>5. /\ Whole(g) /\ Steady(fs, g)
      /\ g.file[d].ino = NoIno /\ \A p \in FsFile : p # d => g.file[p] = fs.file[p]
  <2> HIDE DEF g, d
  <2>1. QED
    BY <1>1, <1>2, <1>3, DeleteIs DEF Whole
<1>6. fid_list = [j \in Fid |-> fid_list[j]] /\ d = fid_list[i] /\ d # NoFile
  BY <1>3, FsFileAssumption DEF DeviceOK, FidsOK, FileOf
<1> HIDE DEF g, i, d
<1>7. /\ fid_list' = [j \in Fid |-> fid_list'[j]]
      /\ fid_list'[i] = NoFile /\ \A j \in Fid : j # i => fid_list'[j] = fid_list[j]
  BY <1>1, <1>3, <1>6
<1>8. \A j \in Fid : j # i => fid_list[j] # d
  BY <1>3, <1>6, FidsDiffer
<1>9. FidsOK'
  <2>1. ASSUME NEW j \in Fid
        PROVE  \/ fid_list'[j] = NoFile
               \/ fid_list'[j] \in FsFile /\ g.file[fid_list'[j]].ino \in Ino
    BY <1>5, <1>7, <1>8, FidStands
  <2>2. ASSUME NEW j \in Fid, NEW k \in Fid, fid_list'[j] = fid_list'[k]
        PROVE  fid_list'[j] = NoFile \/ j = k
    BY <1>7, <2>2, FidsDiffer
  <2>3. ASSUME NEW o \in FsFile, g.file[o].ino # NoIno
        PROVE  \E j \in Fid : fid_list'[j] = o
    <3>1. o # d /\ fs.file[o].ino # NoIno
      BY <1>5, <2>3
    <3>2. PICK j \in Fid : fid_list[j] = o
      BY <3>1 DEF DeviceOK, FidsOK
    <3>3. j # i
      BY <1>6, <3>1, <3>2
    <3>4. QED
      BY <1>7, <3>2, <3>3
  <2>4. QED
    BY <1>7, <2>1, <2>2, <2>3 DEF FidsOK, g
<1>10. \A j \in Fid : fid_list[j] # NoFile => fid_list'[j] # NoFile \/ (r.op = "clunk" /\ j = r.fid)
  BY <1>2, <1>7 DEF i
<1>11. ASSUME NEW j \in Fid, j # i, fid_list[j] # NoFile
       PROVE  g.ino[InodeOf(j)'].type = fs.ino[InodeOf(j)].type
  <2> DEFINE p == fid_list[j]
             m == fs.file[p].ino
  <2>1. p \in FsFile /\ m \in Ino /\ fs.ino[m].type # "NONE" /\ p # d
    BY <1>8, <1>11, FidStands
  <2>2. g.file[p].ino = m /\ g.ino[m].type \in {fs.ino[m].type, "NONE"}
    BY <1>5, <2>1 DEF Steady
  <2>3. InodeOf(j)' = g.file[p].ino /\ InodeOf(j) = m
    BY <1>7, <1>11 DEF InodeOf, g
  <2> HIDE DEF p, m
  <2>4. StillFor(fs, g, p, m)
    BY <1>2, <1>5, <2>1, <2>2 DEF StillFor
  <2>5. g.ino[m].type = fs.ino[m].type
    BY <2>4, InUseStays
  <2>6. QED
    BY <2>2, <2>3, <2>5
<1>12. InodeLeft => InodeLeft'
  BY <1>5 DEF InodeLeft, Allocated, Steady, g
<1>13. Quiet(g) /\ g.called = <<>>
  BY <1>2, <1>5 DEF Steady
<1>14. Done(r)
  BY <1>4, <1>5, <1>9, <1>10, <1>11, <1>12, <1>13 DEF Done, g
<1>15. QED
  BY <1>1, <1>14, DoneIs DEF r

\* The open waits: the device has the request until the transfer ends.
LEMMA DeferStep ==
  ASSUME DeviceOK, Take({"lopen"}),
         queue' = Advance(queue), in_progress' = NextDesc(queue), fid_list' = fid_list,
         UNCHANGED <<at, loop, guest>>, Whole(fs'), FileInos(fs, fs'), fs'.called = <<>>,
         \A m \in Ino : fs'.ino[m].type \in {fs.ino[m].type, "NONE"},
         \A m \in Ino : fs'.ino[m].load.cb # NoFile =>
           /\ fs'.ino[m].load.cb = FileOf(Taken.fid)
           /\ fs.file[FileOf(Taken.fid)].ino = m
  PROVE  DeviceOK'
<1> DEFINE h == NextDesc(queue)
           r == Taken
           g == fs'
<1>1. /\ queue \in QueueType /\ last_used \in Idx /\ Current = {}
      /\ HeadsOK(Avail(queue), Used(queue, last_used), {}, Owned)
      /\ HasAvail(queue) /\ in_progress = NoDesc /\ r.op = "lopen"
  BY DEF DeviceOK, QueueOK, Current, Take
<1>2. h \in Pending /\ h \in Owned /\ AskOK(r) /\ r = request[h] /\ Whole(fs)
  BY Found DEF Taken
<1>3. r.fid \in Fid /\ FileOf(r.fid) \in FsFile
  BY <1>1, OneFid
<1>4. /\ Avail(queue) # <<>> /\ Head(Avail(queue)) = h
      /\ Avail(queue') = Tail(Avail(queue))
      /\ Used(queue', last_used) = Used(queue, last_used)
  BY <1>1, RingTake
<1>5. /\ \A k \in 1 .. Len(Tail(Avail(queue))) : Tail(Avail(queue))[k] # h
      /\ \A k \in 1 .. Len(Used(queue, last_used)) : Used(queue, last_used)[k] # h
      /\ HeadsOK(Tail(Avail(queue)), Used(queue, last_used), {}, Owned)
      /\ Len(Tail(Avail(queue))) + Len(Used(queue, last_used)) + Cardinality({}) + 1
           <= Cardinality(Owned)
      /\ h \in Desc
  BY <1>1, <1>4, HeadsTake
<1>6. HeadsOK(Tail(Avail(queue)), Used(queue, last_used), {h}, Owned)
  BY <1>2, <1>5, HeadsDefer
<1>7. /\ request' = request /\ last_used' = last_used /\ held' = held /\ client' = client
      /\ at' = at /\ loop' = loop /\ Owned' = Owned
  BY DEF guest, Owned
<1>8. h # NoDesc /\ in_progress' = h /\ Current' = {h}
  BY <1>5, QueueNumAssumption DEF Current, NoDesc, Desc
<1>9. queue' \in QueueType
  BY <1>1, <1>5, QueueOperators
<1> HIDE DEF h, r, g
<1>10. QueueOK'
  BY <1>1, <1>4, <1>6, <1>7, <1>8, <1>9 DEF QueueOK
<1>11. RequestsOK'
  BY <1>7 DEF DeviceOK, RequestsOK
<1>12. FidsOK'
  BY DEF DeviceOK, FidsOK, FileInos
<1>13. HeldOK'
  BY <1>7 DEF DeviceOK, HeldOK
<1>14. \A k \in Pending' : k \in Pending
  <2>1. Avail(queue) \in Seq(Desc)
    BY <1>1, AvailAndUsed
  <2>2. /\ Len(Tail(Avail(queue))) = Len(Avail(queue)) - 1 /\ Len(Avail(queue)) \in Nat
        /\ \A k \in 1 .. Len(Avail(queue)) - 1 : Tail(Avail(queue))[k] = Avail(queue)[k + 1]
    BY <1>4, <2>1, TailIs
  <2>3. Pending' = {h} \union {Tail(Avail(queue))[k] : k \in 1 .. Len(Tail(Avail(queue)))}
    BY <1>4, <1>8 DEF Pending
  <2>4. Pending = {Avail(queue)[k] : k \in 1 .. Len(Avail(queue))}
    BY <1>1 DEF Pending
  <2>5. ASSUME NEW k \in 1 .. Len(Avail(queue)) - 1
        PROVE  Tail(Avail(queue))[k] = Avail(queue)[k + 1] /\ k + 1 \in 1 .. Len(Avail(queue))
    BY <2>2
  <2>6. QED
    BY <1>2, <2>2, <2>3, <2>4, <2>5
<1>15. Pending \subseteq Owned
  <2>1. \A k \in 1 .. Len(Avail(queue)) : Avail(queue)[k] \in Owned
    BY <1>1 DEF HeadsOK
  <2>2. QED
    BY <1>1, <2>1 DEF Pending
<1>16. PendingOK'
  <2>1. ASSUME NEW k \in Pending'
        PROVE  /\ \A i \in Needs(request[k]) : fid_list[i] # NoFile
               /\ \A i \in DirOf(request[k]) : g.ino[InodeOf(i)'].type = "DIR"
               /\ Makes(request[k]) => InodeLeft'
    <3>1. k \in Pending /\ k \in Owned
      BY <1>14, <1>15, <2>1
    <3>2. /\ \A i \in Needs(request[k]) : fid_list[i] # NoFile
          /\ \A i \in DirOf(request[k]) : fs.ino[InodeOf(i)].type = "DIR"
          /\ Makes(request[k]) => InodeLeft
      BY <3>1 DEF DeviceOK, PendingOK
    <3>3. AskOK(request[k])
      BY <3>1 DEF DeviceOK, RequestsOK
    <3>4. DirOf(request[k]) \subseteq Needs(request[k]) /\ Needs(request[k]) \subseteq Fid
      BY <3>3, FidsOfRequest
    <3>5. Makes(request[k]) => InodeLeft'
      BY <3>2 DEF InodeLeft, Allocated
    <3>6. ASSUME NEW i \in DirOf(request[k])
          PROVE  g.ino[InodeOf(i)'].type = "DIR"
      <4> DEFINE o == fid_list[i]
                 n == fs.file[o].ino
      <4>1. o \in FsFile /\ n \in Ino /\ fs.ino[n].type # "NONE"
        BY <3>2, <3>4, FidStands
      <4>2. g.file[o].ino = n /\ Whole(g) /\ g.ino[n].type \in {fs.ino[n].type, "NONE"}
        BY <4>1 DEF FileInos, g
      <4>3. InodeOf(i)' = g.file[o].ino /\ InodeOf(i) = n
        BY DEF InodeOf, g
      <4>4. StillFor(fs, g, o, n)
        BY <1>2, <4>1, <4>2 DEF StillFor
      <4> HIDE DEF o, n
      <4>5. g.ino[n].type = fs.ino[n].type
        BY <4>4, InUseStays
      <4>6. QED
        BY <3>2, <4>2, <4>3, <4>5
    <3>7. QED
      BY <3>2, <3>5, <3>6
  <2>2. QED
    BY <1>7, <2>1 DEF PendingOK, g
<1>17. AnsweredOK'
  <2>1. Answered' = Answered
    BY <1>4, <1>7 DEF Answered
  <2>2. QED
    BY <1>7, <2>1 DEF DeviceOK, AnsweredOK
<1>18. WaitsOK'
  <2>1. in_progress' \in Desc \union {NoDesc} /\ request'[in_progress'].op = "lopen"
    BY <1>1, <1>2, <1>5, <1>7, <1>8
  <2>2. fid_list'[request'[in_progress'].fid] = FileOf(r.fid)
    BY <1>2, <1>7, <1>8 DEF FileOf
  <2>3. g.file[FileOf(r.fid)].ino = fs.file[FileOf(r.fid)].ino
    BY <1>3 DEF FileInos, g
  <2>4. QED
    BY <1>8, <2>1, <2>2, <2>3 DEF WaitsOK, g, r
<1>19. LoopOK'
  BY <1>7 DEF DeviceOK, LoopOK
<1>20. QED
  BY <1>10, <1>11, <1>12, <1>13, <1>16, <1>17, <1>18, <1>19 DEF DeviceOK

LEMMA LopenStep ==
  ASSUME DeviceOK, Lopen
  PROVE  DeviceOK'
<1> DEFINE r == Taken
           o == FileOf(r.fid)
           t == FsOpen(fs, o, r.flags, r.dir, r.trunc)
<1>1. /\ Take({"lopen"}) /\ fs' = t.fs /\ fid_list' = fid_list
      /\ \/ t.err # "LATER" /\ AnswersNow
         \/ /\ t.err = "LATER" /\ queue' = Advance(queue) /\ in_progress' = NextDesc(queue)
            /\ UNCHANGED <<at, loop, guest>>
  BY DEF Lopen, AnswerResult, AnswerCode, Answer, SendReply, AnswersNow
<1>2. r.op = "lopen" /\ AskOK(r) /\ Whole(fs) /\ Quiet(fs) /\ fs.called = <<>>
  BY <1>1, Found
<1>3. o \in FsFile /\ fs.file[o].ino \in Ino
  BY <1>1, <1>2, OneFid
<1> HIDE DEF r, o
<1>4. /\ Whole(t.fs) /\ FileInos(fs, t.fs) /\ Waits(fs, t, o)
      /\ \A m \in Ino : t.fs.ino[m].type \in {fs.ino[m].type, "NONE"}
  BY <1>2, <1>3, OpenLives
<1> HIDE DEF t
<1>5. /\ fs'.called = <<>> /\ (t.err # "LATER" => Quiet(fs'))
      /\ t.err = "LATER" => \A m \in Ino : fs'.ino[m].load.cb # NoFile =>
                              fs'.ino[m].load.cb = o /\ fs.file[o].ino = m
  BY <1>1, <1>2, <1>4 DEF Waits
<1>6. CASE t.err = "LATER"
  BY <1>1, <1>4, <1>5, <1>6, DeferStep DEF o, r
<1>7. CASE t.err # "LATER"
  <2>1. Keeps9(r) \subseteq Needs(r)
    BY <1>2 DEF Keeps9, Needs
  <2>2. SameFids(r)
    BY <1>1, <1>4, <1>5, <1>7, <2>1 DEF SameFids, FileInos
  <2>3. Done(r)
    BY <1>1, <2>2, SameFidsDone DEF r
  <2>4. QED
    BY <1>1, <1>7, <2>3, DoneIs DEF r
<1>8. QED
  BY <1>6, <1>7

\* That the calls have been made is forgotten.
LEMMA CalledIs ==
  ASSUME NEW f, NEW R, NEW x, NEW a, Solid(f, R, x, a), NEW g, g = [f EXCEPT !.called = <<>>]
  PROVE  Solid(g, R, x, a) /\ g.ino = f.ino /\ g.file = f.file /\ g.called = <<>>
<1>1. IsFs(f) /\ Fresh(f)
  BY DEF Solid, Counts
<1>2. /\ g = [k \in FsFields |-> g[k]] /\ g.ino = f.ino /\ g.file = f.file
      /\ g.blocks = f.blocks /\ g.cache = f.cache /\ g.cache_size = f.cache_size
      /\ g.called = <<>> /\ g.broken = f.broken
  BY <1>1 DEF IsFs, FsFields
<1>3. IsFs(g)
  BY <1>1, <1>2 DEF IsFs
<1>4. SameCounts(f, g)
  BY <1>2, <1>3 DEF SameCounts
<1>5. Counts(g, R, x, a, NoIno)
  BY <1>3, <1>4, CountsKept DEF Solid
<1>6. Fresh(g)
  <2>1. CASE f.broken = FALSE
    <3>1. Cached(f) /\ \A n \in Ino : NodeHere(f, n)
      BY <1>1, <2>1 DEF Fresh
    <3>2. Cached(g)
      BY <1>2, <3>1, CachedStays
    <3>3. \A n \in Ino : NodeHere(g, n)
      BY <1>2, <3>1, HereStays
    <3>4. QED
      BY <3>2, <3>3 DEF Fresh
  <2>2. CASE f.broken # FALSE
    BY <1>2, <2>2 DEF Fresh
  <2>3. QED
    BY <2>1, <2>2
<1>7. QED
  BY <1>2, <1>5, <1>6 DEF Solid
\* A transfer's end calls back who waited for it.
LEMMA OpenCbStep ==
  ASSUME DeviceOK, NEW e, Whole(e), Sameness(fs, e), NEW n \in Ino, NEW good, NEW then,
         OpenCb(SetEnd(e, n, good), then), UNCHANGED <<fid_list, guest>>, LoopOK'
  PROVE  DeviceOK'
<1> DEFINE g == SetEnd(e, n, good)
           h == in_progress
           cb == fs.ino[n].load.cb
<1>1. /\ e.file = fs.file /\ e.called = <<>>
      /\ \A m \in Ino : e.ino[m].type = fs.ino[m].type /\ e.ino[m].load.cb = fs.ino[m].load.cb
  BY DEF Sameness, DeviceOK
<1>2. \A m \in Ino : fs.ino[m].load.cb # NoFile =>
        /\ h # NoDesc /\ fs.ino[m].load.cb = fid_list[request[h].fid]
        /\ fs.file[fs.ino[m].load.cb].ino = m
  BY DEF DeviceOK, WaitsOK
<1>3. Whole(g) /\ \E err \in {"OK", "EIO"} : Calls(e, g, n, err)
  <2>1. e.ino[n].load.cb # NoFile => e.file[e.ino[n].load.cb].ino = n
    BY <1>1, <1>2
  <2>2. QED
    BY <2>1, SetEndIs DEF Whole
<1> HIDE DEF g
<1>4. PICK err \in {"OK", "EIO"} : Calls(e, g, n, err)
  BY <1>3
<1>5. /\ \A p \in FsFile : g.file[p].ino = fs.file[p].ino
      /\ \A m \in Ino : g.ino[m].type = fs.ino[m].type
      /\ g.ino[n].load.cb = NoFile
      /\ \A m \in Ino : m # n => g.ino[m].load.cb = fs.ino[m].load.cb
      /\ cb = NoFile => g.called = <<>>
      /\ cb # NoFile => g.called = Append(<<>>, [file |-> cb, err |-> err])
  BY <1>1, <1>4 DEF Calls, FileInos
<1>6. /\ request' = request /\ last_used' = last_used /\ held' = held /\ client' = client
      /\ fid_list' = fid_list /\ Owned' = Owned
  BY DEF guest, Owned
<1>7. /\ queue \in QueueType /\ last_used \in Idx
      /\ HeadsOK(Avail(queue), Used(queue, last_used), Current, Owned)
      /\ h \in Desc \union {NoDesc}
  BY DEF DeviceOK, QueueOK, WaitsOK
<1>8. RequestsOK' /\ HeldOK'
  BY <1>6 DEF DeviceOK, RequestsOK, HeldOK
<1>9. CASE cb = NoFile
  <2>1. fs' = g /\ queue' = queue /\ in_progress' = h
    BY <1>5, <1>9 DEF OpenCb, g
  <2>2. QueueOK'
    BY <1>6, <1>7, <2>1 DEF QueueOK, Current
  <2>3. FidsOK'
    BY <1>5, <1>6, <2>1 DEF DeviceOK, FidsOK
  <2>4. Pending' = Pending /\ Answered' = Answered
    BY <1>6, <2>1 DEF Pending, Answered, Current
  <2>5. AnsweredOK'
    BY <1>6, <2>4 DEF DeviceOK, AnsweredOK
  <2>6. Allocated(fs') = Allocated(fs)
    BY <1>5, <2>1 DEF Allocated
  <2>7. PendingOK'
    <3>1. ASSUME NEW k \in Pending, NEW i \in DirOf(request[k])
          PROVE  fs'.ino[InodeOf(i)'].type = "DIR"
      <4>1. k \in Owned
        BY <1>7 DEF Pending, HeadsOK
      <4>2. AskOK(request[k])
        BY <4>1 DEF DeviceOK, RequestsOK
      <4>3. i \in Needs(request[k]) /\ i \in Fid
        BY <4>2, FidsOfRequest
      <4>4. fid_list[i] # NoFile /\ fs.ino[InodeOf(i)].type = "DIR"
        BY <4>3 DEF DeviceOK, PendingOK
      <4>5. fid_list[i] \in FsFile /\ fs.file[fid_list[i]].ino \in Ino
        BY <4>3, <4>4, FidStands
      <4>6. QED
        BY <1>5, <1>6, <2>1, <4>4, <4>5 DEF InodeOf
    <3>2. QED
      BY <1>6, <2>4, <2>6, <3>1 DEF DeviceOK, PendingOK, InodeLeft
  <2>8. WaitsOK'
    <3>1. /\ in_progress \in Desc \union {NoDesc}
          /\ in_progress # NoDesc => request[in_progress].op = "lopen"
      BY DEF DeviceOK, WaitsOK
    <3>2. ASSUME NEW m \in Ino, g.ino[m].load.cb # NoFile
          PROVE  /\ h # NoDesc /\ g.ino[m].load.cb = fid_list[request[h].fid]
                 /\ g.file[g.ino[m].load.cb].ino = m
      <4>1. m # n /\ g.ino[m].load.cb = fs.ino[m].load.cb
        BY <1>5, <3>2
      <4>2. /\ h # NoDesc /\ fs.ino[m].load.cb = fid_list[request[h].fid]
            /\ fs.file[fs.ino[m].load.cb].ino = m
        BY <1>2, <3>2, <4>1
      <4>3. fs.ino[m].load.cb \in FsFile
        <5>1. IsLoad(fs.ino[m].load)
          BY DEF DeviceOK, Whole, Solid, Counts, IsFs, IsNode
        <5>2. QED
          BY <3>2, <4>1, <5>1 DEF IsLoad
      <4>4. QED
        BY <1>5, <4>1, <4>2, <4>3
    <3>3. QED
      BY <1>6, <2>1, <3>1, <3>2 DEF WaitsOK
  <2>9. QED
    BY <1>3, <1>5, <1>8, <1>9, <2>1, <2>2, <2>3, <2>5, <2>7, <2>8 DEF DeviceOK
<1>10. CASE cb # NoFile
  <2>1. g.called # <<>>
    BY <1>5, <1>10
  <2>2. /\ fs' = [g EXCEPT !.called = <<>>] /\ queue' = ConsumeDesc(queue, h)
        /\ in_progress' = NoDesc
    BY <2>1 DEF OpenCb, SendReply, g
  <2>3. /\ Whole(fs') /\ fs'.ino = g.ino /\ fs'.file = g.file /\ fs'.called = <<>>
    BY <1>3, <2>2, CalledIs DEF Whole
  <2>4. h # NoDesc /\ h \in Desc /\ Current = {h} /\ Current' = {}
    BY <1>2, <1>7, <1>10, <2>2 DEF Current
  <2>5. /\ HeadsOK(Avail(queue), Used(queue, last_used), {}, Owned) /\ h \in Owned
        /\ \A k \in 1 .. Len(Avail(queue)) : Avail(queue)[k] # h
        /\ \A k \in 1 .. Len(Used(queue, last_used)) : Used(queue, last_used)[k] # h
        /\ Len(Avail(queue)) + Len(Used(queue, last_used)) + Cardinality({}) + 1
             <= Cardinality(Owned)
    <3>1. HeadsOK(Avail(queue), Used(queue, last_used), {h}, Owned)
      BY <1>7, <2>4
    <3>2. QED
      BY <2>4, <3>1, HeadsComplete
  <2>6. /\ Len(Used(queue, last_used)) < QueueNum
        /\ HeadsOK(Avail(queue), Append(Used(queue, last_used), h), {}, Owned)
    BY <2>4, <2>5, HeadsReturn
  <2>7. /\ Avail(queue') = Avail(queue)
        /\ Used(queue', last_used) = Append(Used(queue, last_used), h)
    BY <1>7, <2>2, <2>4, <2>6, RingReturn
  <2>8. queue' \in QueueType
    BY <1>7, <2>2, <2>4, QueueOperators
  <2>9. QueueOK'
    BY <1>6, <1>7, <2>4, <2>6, <2>7, <2>8 DEF QueueOK
  <2>10. FidsOK'
    BY <1>5, <1>6, <2>3 DEF DeviceOK, FidsOK
  <2>11. Pending' \subseteq Pending /\ h \in Pending
    BY <2>4, <2>7 DEF Pending
  <2>12. \A k \in Answered' : k = h \/ k \in Answered
    <3> DEFINE u == Used(queue, last_used)
               v == Append(u, h)
    <3>1. u \in Seq(Desc)
      BY <1>7, AvailAndUsed
    <3>2. /\ Len(v) = Len(u) + 1
          /\ \A k \in 1 .. Len(u) + 1 : v[k] = IF k = Len(u) + 1 THEN h ELSE u[k]
      BY <2>4, <3>1, AppendIs
    <3>3. Answered' = {v[k] : k \in 1 .. Len(v)} /\ Len(u) \in Nat
      BY <1>6, <2>7, <3>1 DEF Answered
    <3>4. Answered = {u[k] : k \in 1 .. Len(u)}
      BY DEF Answered
    <3> HIDE DEF u, v
    <3>5. QED
      BY <3>2, <3>3, <3>4
  <2>13. AnsweredOK'
    <3>1. Keeps9(request[h]) \subseteq Needs(request[h])
      <4>1. request[h].op = "lopen"
        BY <2>4 DEF DeviceOK, WaitsOK
      <4>2. QED
        BY <4>1 DEF Keeps9, Needs
    <3>2. \A i \in Keeps9(request[h]) : fid_list[i] # NoFile
      BY <2>11, <3>1 DEF DeviceOK, PendingOK
    <3>3. QED
      BY <1>6, <2>12, <3>2 DEF DeviceOK, AnsweredOK
  <2>14. Allocated(fs') = Allocated(fs)
    BY <1>5, <2>3 DEF Allocated
  <2>15. PendingOK'
    <3>1. ASSUME NEW k \in Pending, NEW i \in DirOf(request[k])
          PROVE  fs'.ino[InodeOf(i)'].type = "DIR"
      <4>1. k \in Owned
        BY <1>7 DEF Pending, HeadsOK
      <4>2. AskOK(request[k])
        BY <4>1 DEF DeviceOK, RequestsOK
      <4>3. i \in Needs(request[k]) /\ i \in Fid
        BY <4>2, FidsOfRequest
      <4>4. fid_list[i] # NoFile /\ fs.ino[InodeOf(i)].type = "DIR"
        BY <4>3 DEF DeviceOK, PendingOK
      <4>5. fid_list[i] \in FsFile /\ fs.file[fid_list[i]].ino \in Ino
        BY <4>3, <4>4, FidStands
      <4>6. QED
        BY <1>5, <1>6, <2>3, <4>4, <4>5 DEF InodeOf
    <3>2. QED
      BY <1>6, <2>11, <2>14, <3>1 DEF DeviceOK, PendingOK, InodeLeft
  <2>16. \A m \in Ino : fs'.ino[m].load.cb = NoFile
    <3>1. ASSUME NEW m \in Ino, m # n, fs.ino[m].load.cb # NoFile
          PROVE  FALSE
      <4>1. fs.ino[m].load.cb = cb
        BY <1>2, <1>10, <3>1
      <4>2. fs.file[cb].ino = m /\ fs.file[cb].ino = n
        BY <1>2, <1>10, <3>1, <4>1
      <4>3. QED
        BY <3>1, <4>2
    <3>2. QED
      BY <1>5, <2>3, <3>1
  <2>17. WaitsOK'
    BY <2>2, <2>16 DEF WaitsOK
  <2>18. QED
    BY <1>8, <2>3, <2>9, <2>10, <2>13, <2>15, <2>17 DEF DeviceOK
<1>11. QED
  BY <1>9, <1>10

LEMMA SamenessSelf ==
  ASSUME NEW f
  PROVE  Sameness(f, f)
BY DEF Sameness

\* Nobody is called, and the queue is left alone.
LEMMA StillStep ==
  ASSUME DeviceOK, Whole(fs'), Sameness(fs, fs'),
         UNCHANGED <<queue, in_progress, fid_list, guest>>, LoopOK'
  PROVE  DeviceOK'
<1>1. /\ request' = request /\ last_used' = last_used /\ held' = held /\ client' = client
      /\ fid_list' = fid_list /\ Owned' = Owned /\ queue' = queue /\ in_progress' = in_progress
      /\ Current' = Current /\ Pending' = Pending /\ Answered' = Answered
  BY DEF guest, Owned, Current, Pending, Answered
<1>2. QueueOK' /\ RequestsOK' /\ HeldOK' /\ AnsweredOK'
  BY <1>1 DEF DeviceOK, QueueOK, RequestsOK, HeldOK, AnsweredOK
<1>3. /\ fs'.file = fs.file /\ fs'.called = <<>>
      /\ \A m \in Ino : fs'.ino[m].type = fs.ino[m].type /\ fs'.ino[m].load.cb = fs.ino[m].load.cb
  BY DEF DeviceOK, Sameness
<1>4. FidsOK'
  BY <1>1, <1>3 DEF DeviceOK, FidsOK
<1>5. WaitsOK'
  BY <1>1, <1>3 DEF DeviceOK, WaitsOK
<1>6. Allocated(fs') = Allocated(fs)
  BY <1>3 DEF Allocated
<1>7. ASSUME NEW k \in Pending, NEW i \in DirOf(request[k])
      PROVE  fs'.ino[InodeOf(i)'].type = "DIR"
  <2>1. HeadsOK(Avail(queue), Used(queue, last_used), Current, Owned)
    BY DEF DeviceOK, QueueOK
  <2>2. k \in Owned
    BY <2>1 DEF Pending, HeadsOK
  <2>3. AskOK(request[k])
    BY <2>2 DEF DeviceOK, RequestsOK
  <2>4. i \in Needs(request[k]) /\ i \in Fid
    BY <2>3, FidsOfRequest
  <2>5. fid_list[i] # NoFile /\ fs.ino[InodeOf(i)].type = "DIR"
    BY <2>4 DEF DeviceOK, PendingOK
  <2>6. fid_list[i] \in FsFile /\ fs.file[fid_list[i]].ino \in Ino
    BY <2>4, <2>5, FidStands
  <2>7. QED
    BY <1>1, <1>3, <2>5, <2>6 DEF InodeOf
<1>8. PendingOK'
  BY <1>1, <1>6, <1>7 DEF DeviceOK, PendingOK, InodeLeft
<1>9. QED
  BY <1>2, <1>3, <1>4, <1>5, <1>8 DEF DeviceOK

LEMMA NotifyStep ==
  ASSUME DeviceOK, Refuse \/ NotifyDone
  PROVE  DeviceOK'
<1>1. /\ UNCHANGED <<queue, in_progress, fid_list, guest>> /\ fs' = fs /\ loop' = loop
      /\ at' = IF loop = NoLoop THEN "guest" ELSE "loop"
  BY DEF Refuse, NotifyDone
<1>2. LoopOK'
  BY <1>1 DEF DeviceOK, LoopOK
<1>3. Whole(fs') /\ Sameness(fs, fs')
  BY <1>1, SamenessSelf DEF DeviceOK
<1>4. QED
  BY <1>1, <1>2, <1>3, StillStep

LEMMA CbGoesOn ==
  ASSUME NEW f, NEW then, OpenCb(f, then)
  PROVE  at' = then \/ at' = "notify"
BY DEF OpenCb

LEMMA TransferStep ==
  ASSUME DeviceOK, NEW n \in Ino, NEW ok, TransferEnds(n, ok)
  PROVE  DeviceOK'
<1> DEFINE good == ok /\ Complete(fs, n)
           come == IF ok THEN Arrived(fs, n) ELSE fs
<1>1. Whole(come) /\ Sameness(fs, come)
  <2>1. Solid(Arrived(fs, n), NoRefs, NoFile, NoIno) /\ Sameness(fs, Arrived(fs, n))
    BY ArrivedIs DEF DeviceOK, Whole
  <2>2. Whole(fs) /\ Sameness(fs, fs)
    BY SamenessSelf DEF DeviceOK
  <2>3. QED
    BY <2>1, <2>2 DEF Whole
<1>2. /\ UNCHANGED <<fid_list, guest>>
      /\ \/ OpenCb(SetEnd(come, n, good), "guest") /\ loop' = loop
         \/ /\ fs' = come
            /\ loop' = [NoLoop EXCEPT !.of = n, !.good = good, !.next = FirstMember(come, n)]
            /\ at' = "loop"
            /\ UNCHANGED <<queue, reply, in_progress>>
  BY DEF TransferEnds
<1> HIDE DEF good, come
<1>3. CASE OpenCb(SetEnd(come, n, good), "guest") /\ loop' = loop
  <2>1. at' = "guest" \/ at' = "notify"
    BY <1>3, CbGoesOn
  <2>2. LoopOK'
    BY <1>3, <2>1 DEF DeviceOK, LoopOK
  <2>3. QED
    BY <1>1, <1>2, <1>3, <2>2, OpenCbStep
<1>4. CASE /\ fs' = come
           /\ loop' = [NoLoop EXCEPT !.of = n, !.good = good, !.next = FirstMember(come, n)]
           /\ at' = "loop"
           /\ UNCHANGED <<queue, reply, in_progress>>
  <2>1. LoopOK'
    BY <1>4 DEF LoopOK, NoLoop
  <2>2. QED
    BY <1>1, <1>2, <1>4, <2>1, StillStep
<1>5. QED
  BY <1>2, <1>3, <1>4

\* One turn of the loop over an archive.
LEMMA TurnStep ==
  ASSUME DeviceOK, LoopTurn, fs' # [fs EXCEPT !.broken = TRUE]
  PROVE  DeviceOK'
<1> DEFINE left == LeaveList(fs, loop.of, loop.cur)
           members == left.ino[loop.of].load.members
           k == Min(Places(left))
           part == IF loop.good THEN CopyMember(left, loop.of, members[k]) ELSE left
<1>1. /\ at = "loop" /\ Places(left) # {} /\ UNCHANGED <<fid_list, guest>>
      /\ OpenCb(SetEnd(part, loop.next, loop.good), "loop")
      /\ loop' = [loop EXCEPT !.cur = loop.next,
                    !.next = IF k < Len(members) THEN members[k + 1].ino ELSE NoIno]
  BY DEF LoopTurn
<1>2. /\ loop.of \in Ino /\ loop = [i \in {"of", "good", "cur", "next"} |-> loop[i]]
  BY <1>1 DEF DeviceOK, LoopOK
<1>3. Solid(left, NoRefs, NoFile, NoIno) /\ Sameness(fs, left)
  BY <1>2, LeaveSolid DEF DeviceOK, Whole
<1>4. members \in Seq(Member)
  <2> HIDE DEF left
  <2>1. IsLoad(left.ino[loop.of].load)
    BY <1>2, <1>3 DEF Solid, Counts, IsFs, IsNode
  <2>2. QED
    BY <2>1 DEF IsLoad
<1>5. k \in DOMAIN members /\ members[k].ino = loop.next
  <2>1. Places(left) = {i \in DOMAIN members : members[i].ino = loop.next}
    BY DEF Places
  <2> HIDE DEF left
  <2> HIDE DEF members
  <2>2. Places(left) \in SUBSET Nat
    BY <1>4, <2>1
  <2>3. Min(Places(left)) \in Places(left)
    BY <1>1, <2>2, MinIs
  <2>4. QED
    BY <2>1, <2>3
<1> HIDE DEF left
<1>6. loop.next \in Ino
  <2> HIDE DEF members, k
  <2>1. members[k] \in Member
    BY <1>4, <1>5
  <2>2. members[k].ino \in Ino
    BY <2>1 DEF Member
  <2>3. QED
    BY <1>5, <2>2
<1>7. Whole(part) /\ Sameness(fs, part)
  <2> DEFINE copied == CopyMember(left, loop.of, members[k])
  <2>1. Solid(copied, NoRefs, NoFile, NoIno) /\ Sameness(left, copied)
    BY <1>3, <1>5, <1>6, CopyIs
  <2> HIDE DEF copied, members, k
  <2>2. Sameness(fs, copied)
    BY <1>3, <2>1, SamenessThen
  <2>3. part = copied \/ part = left
    BY DEF copied
  <2> HIDE DEF part
  <2>4. QED
    BY <1>3, <2>1, <2>2, <2>3 DEF Whole
<1>8. LoopOK'
  <2> HIDE DEF members, k
  <2>1. /\ loop' = [i \in {"of", "good", "cur", "next"} |-> loop'[i]] /\ loop'.of = loop.of
    BY <1>1, <1>2
  <2>2. QED
    BY <1>2, <2>1 DEF LoopOK
<1> HIDE DEF part
<1>9. QED
  BY <1>1, <1>6, <1>7, <1>8, OpenCbStep

LEMMA EndStep ==
  ASSUME DeviceOK, LoopEnds
  PROVE  DeviceOK'
<1> DEFINE left == LeaveList(fs, loop.of, loop.cur)
<1>1. /\ at = "loop" /\ UNCHANGED <<fid_list, guest>> /\ loop' = NoLoop
      /\ OpenCb(SetEnd(left, loop.of, loop.good), "guest")
  BY DEF LoopEnds
<1>2. loop.of \in Ino
  BY <1>1 DEF DeviceOK, LoopOK
<1>3. Solid(left, NoRefs, NoFile, NoIno) /\ Sameness(fs, left)
  BY <1>2, LeaveSolid DEF DeviceOK, Whole
<1> HIDE DEF left
<1>4. at' = "guest" \/ at' = "notify"
  BY <1>1, CbGoesOn
<1>5. LoopOK'
  BY <1>1, <1>4 DEF LoopOK, NoLoop
<1>6. QED
  BY <1>1, <1>2, <1>3, <1>5, OpenCbStep DEF Whole

\* When the next member has been freed, the loop is lost.
LEMMA LostStep ==
  ASSUME DeviceOK, fs' = [fs EXCEPT !.broken = TRUE]
  PROVE  DeviceInv'
<1>1. fs = [i \in FsFields |-> fs[i]]
  BY DEF DeviceOK, Whole, Solid, Counts, IsFs
<1>2. fs'.broken = TRUE
  BY <1>1 DEF FsFields
<1>3. QED
  BY <1>2 DEF DeviceInv

\* The guest may ask what the code can do.
LEMMA AskedIs ==
  ASSUME DeviceOK, NEW h \in Desc, NEW r, Undisturbed(r), Allowed(r), AskOK(r)
  PROVE  /\ \A i \in Needs(r) : fid_list[i] # NoFile
         /\ \A i \in DirOf(r) : fs.ino[InodeOf(i)].type = "DIR"
         /\ Makes(r) => InodeLeft
<1>1. Needs(r) \subseteq FidsOf(r) /\ FidsOf(r) \subseteq Fid
  BY FidsOfRequest
<1>2. ASSUME NEW i \in Needs(r), held[i] # "free"
      PROVE  fid_list[i] # NoFile
  <2>1. i \in Fid /\ i \in FidsOf(r)
    BY <1>1
  <2>2. \A g \in Owned : ~(request[g].op = "clunk" /\ request[g].fid = i)
    <3>1. ASSUME NEW g \in Owned, request[g].op = "clunk", request[g].fid = i
          PROVE  FALSE
      <4>1. g \in Desc /\ i \in Claims(request[g])
        BY <3>1 DEF Owned, Claims
      <4>2. FidsOf(r) \intersect Claims(request[g]) = {}
        BY <4>1 DEF Undisturbed
      <4>3. QED
        BY <2>1, <4>1, <4>2
    <3>2. QED
      BY <3>1
  <2>3. QED
    BY <1>2, <2>1, <2>2 DEF DeviceOK, HeldOK
<1>3. ASSUME NEW i \in Needs(r)
      PROVE  held[i] # "free"
  <2>1. CASE r.op \in {"attach", "stateless", "xattrwalk", "unknown"}
    BY <2>1 DEF Needs, FidsOf
  <2>2. CASE r.op = "walk"
    BY <2>2 DEF Needs, Allowed, IsHeld
  <2>3. CASE r.op \in {"link", "renameat"}
    BY <2>3 DEF Needs, FidsOf, Allowed, IsHeld
  <2>4. CASE r.op \in {"lopen", "lcreate", "symlink", "mknod", "mkdir", "clunk"}
    BY <2>4 DEF Needs, FidsOf, Allowed, IsHeld
  <2>5. CASE r.op \in {"unlinkat", "getattr", "setattr", "readdir", "readlink", "lock",
                       "read", "write"}
    BY <2>5 DEF Needs, FidsOf, Allowed, IsHeld
  <2>6. QED
    BY <2>1, <2>2, <2>3, <2>4, <2>5 DEF AskOK
<1>4. ASSUME NEW i \in DirOf(r)
      PROVE  fs.ino[InodeOf(i)].type = "DIR"
  <2>1. CASE r.op \in {"symlink", "mknod", "link"}
    BY <2>1 DEF DirOf, Allowed, InLiveDir, IsType
  <2>2. CASE r.op = "renameat"
    BY <2>2 DEF DirOf, Allowed, InLiveDir, IsType
  <2>3. QED
    BY <2>1, <2>2 DEF DirOf
<1>5. Makes(r) => InodeLeft
  BY DEF Makes, Allowed
<1>6. QED
  BY <1>2, <1>3, <1>4, <1>5

LEMMA SubmitStep ==
  ASSUME DeviceOK, NEW h \in Desc, NEW r \in Clients[client.name].asks, Submit(h, r)
  PROVE  DeviceOK'
<1>1. AskOK(r)
  BY ClientsAssumption DEF DeviceOK, RequestsOK
<1>2. /\ request[h] = NoRequest /\ Undisturbed(r) /\ Allowed(r)
      /\ request' = [request EXCEPT ![h] = r] /\ queue' = AddAvail(queue, h) /\ at' = "notify"
      /\ client' = [client EXCEPT !.left = @ - 1]
      /\ fid_list' = fid_list /\ in_progress' = in_progress /\ fs' = fs /\ loop' = loop
      /\ last_used' = last_used /\ held' = held
  BY DEF Submit
<1>3. request = [k \in Desc |-> request[k]] /\ client.name \in DOMAIN Clients
      /\ client = [k \in {"name", "left"} |-> client[k]]
  BY DEF DeviceOK, RequestsOK
<1>4. request'[h] = r /\ \A k \in Desc : k # h => request'[k] = request[k]
  BY <1>2, <1>3
<1>5. r # NoRequest
  BY <1>1 DEF AskOK, NoRequest
<1>6. h \notin Owned /\ Owned' = Owned \union {h}
  BY <1>2, <1>4, <1>5 DEF Owned
<1>7. /\ queue \in QueueType /\ last_used \in Idx
      /\ HeadsOK(Avail(queue), Used(queue, last_used), Current, Owned)
  BY DEF DeviceOK, QueueOK
<1>8. /\ Len(Avail(queue)) < QueueNum /\ h \notin Current
      /\ HeadsOK(Append(Avail(queue), h), Used(queue, last_used), Current, Owned \union {h})
      /\ \A k \in 1 .. Len(Used(queue, last_used)) : Used(queue, last_used)[k] # h
      /\ \A k \in 1 .. Len(Avail(queue)) : Avail(queue)[k] # h
  BY <1>6, <1>7, HeadsSubmit
<1>9. /\ Avail(queue') = Append(Avail(queue), h)
      /\ Used(queue', last_used) = Used(queue, last_used)
      /\ queue' \in QueueType
  BY <1>2, <1>7, <1>8, RingSubmit, QueueOperators
<1>10. QueueOK'
  BY <1>2, <1>6, <1>7, <1>8, <1>9 DEF QueueOK, Current
<1>11. RequestsOK'
  <2>1. request' = [k \in Desc |-> request'[k]]
    BY <1>2, <1>3
  <2>2. client' = [k \in {"name", "left"} |-> client'[k]] /\ client'.name \in DOMAIN Clients
    BY <1>2, <1>3
  <2>3. ASSUME NEW k \in Owned'
        PROVE  AskOK(request'[k])
    <3>1. CASE k = h
      BY <1>1, <1>4, <3>1
    <3>2. CASE k # h
      BY <1>4, <1>6, <3>2 DEF DeviceOK, RequestsOK, Owned
    <3>3. QED
      BY <3>1, <3>2
  <2>4. ASSUME NEW k \in Owned', NEW l \in Owned', k # l
        PROVE  /\ Claims(request'[k]) \intersect FidsOf(request'[l]) = {}
               /\ ~(ChangesNames(request'[k]) /\ ChangesNames(request'[l]))
    <3>1. CASE k = h
      <4>1. l \in Desc /\ request'[l] = request[l]
        BY <1>4, <1>6, <2>4, <3>1 DEF Owned
      <4>2. QED
        BY <1>2, <1>4, <3>1, <4>1 DEF Undisturbed
    <3>2. CASE l = h
      <4>1. k \in Desc /\ request'[k] = request[k]
        BY <1>4, <1>6, <2>4, <3>2 DEF Owned
      <4>2. QED
        BY <1>2, <1>4, <3>2, <4>1 DEF Undisturbed
    <3>3. CASE k # h /\ l # h
      <4>1. k \in Owned /\ l \in Owned /\ request'[k] = request[k] /\ request'[l] = request[l]
        BY <1>4, <1>6, <3>3 DEF Owned
      <4>2. QED
        BY <2>4, <4>1 DEF DeviceOK, RequestsOK
    <3>4. QED
      BY <3>1, <3>2, <3>3
  <2>5. QED
    BY <2>1, <2>2, <2>3, <2>4 DEF RequestsOK
<1>12. FidsOK'
  BY <1>2 DEF DeviceOK, FidsOK
<1>13. HeldOK'
  <2>1. ASSUME NEW i \in Fid, held[i] # "free"
        PROVE  \/ fid_list[i] # NoFile
               \/ \E g \in Owned' : request'[g].op = "clunk" /\ request'[g].fid = i
    <3>1. \/ fid_list[i] # NoFile
          \/ \E g \in Owned : request[g].op = "clunk" /\ request[g].fid = i
      BY <2>1 DEF DeviceOK, HeldOK
    <3>2. \A g \in Owned : g \in Owned' /\ request'[g] = request[g]
      BY <1>4, <1>6 DEF Owned
    <3>3. QED
      BY <3>1, <3>2
  <2>2. QED
    BY <1>2, <2>1 DEF DeviceOK, HeldOK
<1>14. \A k \in Pending' : k = h \/ (k \in Pending /\ k \in Owned)
  <2> DEFINE u == Avail(queue)
             v == Append(u, h)
  <2>1. u \in Seq(Desc)
    BY <1>7, AvailAndUsed
  <2>2. /\ Len(v) = Len(u) + 1
        /\ \A k \in 1 .. Len(u) + 1 : v[k] = IF k = Len(u) + 1 THEN h ELSE u[k]
    BY <2>1, AppendIs
  <2>3. Pending' = Current \union {v[k] : k \in 1 .. Len(v)} /\ Len(u) \in Nat
    BY <1>2, <1>9, <2>1 DEF Pending, Current
  <2>4. Pending = Current \union {u[k] : k \in 1 .. Len(u)}
    BY DEF Pending
  <2>5. \A k \in 1 .. Len(u) : u[k] \in Owned
    BY <1>7 DEF HeadsOK
  <2>6. \A k \in Current : k \in Owned
    BY <1>7 DEF HeadsOK
  <2> HIDE DEF u, v
  <2>7. QED
    BY <2>2, <2>3, <2>4, <2>5, <2>6
<1>15. PendingOK'
  <2>1. ASSUME NEW k \in Pending'
        PROVE  /\ \A i \in Needs(request'[k]) : fid_list[i] # NoFile
               /\ \A i \in DirOf(request'[k]) : fs.ino[InodeOf(i)].type = "DIR"
               /\ Makes(request'[k]) => InodeLeft
    <3>1. CASE k = h
      BY <1>1, <1>2, <1>4, <3>1, AskedIs
    <3>2. CASE k # h
      <4>1. k \in Pending /\ k \in Owned
        BY <1>14, <3>2
      <4>2. request'[k] = request[k]
        BY <1>4, <3>2, <4>1 DEF Owned
      <4>3. QED
        BY <4>1, <4>2 DEF DeviceOK, PendingOK
    <3>3. QED
      BY <3>1, <3>2
  <2>2. fid_list' = fid_list /\ fs' = fs
    BY <1>2
  <2>3. QED
    BY <2>1, <2>2 DEF PendingOK, InodeOf, InodeLeft
<1>16. AnsweredOK'
  <2>1. Answered' = Answered
    BY <1>2, <1>9 DEF Answered
  <2>2. \A k \in Answered : k # h /\ k \in Owned
    BY <1>7, <1>8 DEF Answered, HeadsOK
  <2>3. \A k \in Answered : request'[k] = request[k]
    BY <1>4, <2>2 DEF Owned
  <2>4. QED
    BY <1>2, <2>1, <2>3 DEF DeviceOK, AnsweredOK
<1>17. WaitsOK'
  <2>1. in_progress # NoDesc => request'[in_progress] = request[in_progress]
    BY <1>4, <1>8 DEF DeviceOK, WaitsOK, Current
  <2>2. QED
    BY <1>2, <2>1 DEF DeviceOK, WaitsOK
<1>18. LoopOK'
  BY <1>2 DEF DeviceOK, LoopOK
<1>19. Whole(fs)' /\ fs'.called = <<>>
  BY <1>2 DEF DeviceOK
<1>20. QED
  BY <1>10, <1>11, <1>12, <1>13, <1>15, <1>16, <1>17, <1>18, <1>19 DEF DeviceOK

LEMMA HeldAfterIs ==
  ASSUME DeviceOK, NEW r, AskOK(r), NEW res
  PROVE  /\ HeldAfter(r, res) = [i \in Fid |-> HeldAfter(r, res)[i]]
         /\ \A i \in Fid : HeldAfter(r, res)[i] # "free" =>
              /\ held[i] # "free" \/ i \in Keeps9(r)
              /\ ~(r.op = "clunk" /\ r.fid = i)
<1>1. held = [i \in Fid |-> held[i]]
  BY DEF DeviceOK, HeldOK
<1>2. FidsOf(r) \subseteq Fid
  BY DEF AskOK
<1>3. CASE r.op = "attach"
  BY <1>1, <1>2, <1>3 DEF HeldAfter, Keeps9, FidsOf
<1>4. CASE r.op = "walk"
  BY <1>1, <1>2, <1>4 DEF HeldAfter, Keeps9, FidsOf
<1>5. CASE r.op \in {"lopen", "lcreate"}
  BY <1>1, <1>2, <1>5 DEF HeldAfter, Keeps9, FidsOf
<1>6. CASE r.op = "clunk"
  BY <1>1, <1>2, <1>6 DEF HeldAfter, Keeps9, FidsOf
<1>7. CASE r.op \notin {"attach", "walk", "lopen", "lcreate", "clunk"}
  <2>1. HeldAfter(r, res) = held
    BY <1>7 DEF HeldAfter
  <2>2. QED
    BY <1>1, <1>7, <2>1
<1>8. QED
  BY <1>3, <1>4, <1>5, <1>6, <1>7

LEMMA ReapStep ==
  ASSUME DeviceOK, Reap
  PROVE  DeviceOK'
<1> DEFINE h == UsedDesc(queue, last_used)
           r == request[h]
<1>1. /\ last_used # queue.used_idx
      /\ held' = HeldAfter(r, reply[h])
      /\ request' = [request EXCEPT ![h] = NoRequest]
      /\ last_used' = NextIdx(last_used) /\ queue' = InterruptAck(queue, queue.int_status)
      /\ fid_list' = fid_list /\ in_progress' = in_progress /\ fs' = fs /\ at' = at
      /\ loop' = loop /\ client' = client
  BY DEF Reap
<1>2. /\ queue \in QueueType /\ last_used \in Idx
      /\ HeadsOK(Avail(queue), Used(queue, last_used), Current, Owned)
      /\ last_used' \in Idx
  BY <1>1, Indices DEF DeviceOK, QueueOK
<1>3. /\ Used(queue, last_used) # <<>> /\ Head(Used(queue, last_used)) = h
      /\ Used(queue, last_used') = Tail(Used(queue, last_used))
      /\ queue' \in QueueType
  <2>1. /\ Used(queue, last_used) # <<>> /\ Head(Used(queue, last_used)) = h
        /\ Used(queue, NextIdx(last_used)) = Tail(Used(queue, last_used))
    BY <1>1, <1>2, RingReap
  <2>2. last_used' = NextIdx(last_used) /\ queue' = InterruptAck(queue, queue.int_status)
    BY <1>1
  <2>3. \A bits : InterruptAck(queue, bits) \in QueueType
    BY <1>2, Indices, QueueOperators
  <2>4. InterruptAck(queue, queue.int_status) \in QueueType
    BY <2>3
  <2> HIDE DEF h
  <2>5. QED
    BY <2>1, <2>2, <2>4
<1>4. /\ Avail(queue') = Avail(queue)
      /\ Used(queue', last_used') = Tail(Used(queue, last_used))
  <2>1. queue' = InterruptAck(queue, queue.int_status)
    BY <1>1
  <2>2. /\ Avail(InterruptAck(queue, queue.int_status)) = Avail(queue)
        /\ Used(InterruptAck(queue, queue.int_status), last_used') = Used(queue, last_used')
    BY <1>2, RingAck
  <2> HIDE DEF h
  <2>3. QED
    BY <1>3, <2>1, <2>2
<1> HIDE DEF h
<1>5. /\ h \in Owned /\ h \notin Current
      /\ \A k \in 1 .. Len(Avail(queue)) : Avail(queue)[k] # h
      /\ \A k \in 1 .. Len(Tail(Used(queue, last_used))) : Tail(Used(queue, last_used))[k] # h
      /\ HeadsOK(Avail(queue), Tail(Used(queue, last_used)), Current, Owned \ {h})
  <2> DEFINE A == Avail(queue)
             U == Used(queue, last_used)
             C == Current
             o == Owned
  <2>1. U # <<>> /\ Head(U) = h /\ HeadsOK(A, U, C, o)
    BY <1>2, <1>3
  <2> HIDE DEF A, U, C, o
  <2>2. /\ h \in o /\ h \notin C
        /\ \A k \in 1 .. Len(A) : A[k] # h
        /\ \A k \in 1 .. Len(Tail(U)) : Tail(U)[k] # h
        /\ HeadsOK(A, Tail(U), C, o \ {h})
    BY <2>1, HeadsReap
  <2>3. QED
    BY <2>2 DEF A, U, C, o
<1>6. h \in Desc /\ request = [k \in Desc |-> request[k]]
  BY <1>5 DEF Owned, DeviceOK, RequestsOK
<1>7. request'[h] = NoRequest /\ \A k \in Desc : k # h => request'[k] = request[k]
  BY <1>1, <1>6
<1>8. Owned' = Owned \ {h}
  BY <1>6, <1>7 DEF Owned
<1>9. Current' = Current
  BY <1>1 DEF Current
<1>10. QueueOK'
  BY <1>2, <1>3, <1>4, <1>5, <1>8, <1>9 DEF QueueOK
<1>11. \A k \in Owned' : k \in Owned /\ k # h /\ request'[k] = request[k]
  BY <1>7, <1>8 DEF Owned
<1>12. RequestsOK'
  <2>1. request' = [k \in Desc |-> request'[k]]
    BY <1>1, <1>6
  <2>2. QED
    BY <1>1, <1>11, <2>1 DEF DeviceOK, RequestsOK
<1>13. FidsOK'
  BY <1>1 DEF DeviceOK, FidsOK
<1>14. h \in Answered
  <2>1. Used(queue, last_used) \in Seq(Desc)
    BY <1>2, AvailAndUsed
  <2>2. Len(Used(queue, last_used)) >= 1 /\ Used(queue, last_used)[1] = h
        /\ Len(Used(queue, last_used)) \in Nat
    BY <1>3, <2>1, TailIs
  <2>3. 1 \in 1 .. Len(Used(queue, last_used))
    BY <2>2
  <2>4. QED
    BY <2>2, <2>3 DEF Answered
<1>15. AskOK(r)
  BY <1>5 DEF DeviceOK, RequestsOK
<1>16. HeldOK'
  <2>1. held' = [i \in Fid |-> held'[i]]
    BY <1>1, <1>15, HeldAfterIs
  <2>2. ASSUME NEW i \in Fid, held'[i] # "free"
        PROVE  \/ fid_list[i] # NoFile
               \/ \E g \in Owned' : request'[g].op = "clunk" /\ request'[g].fid = i
    <3>1. (held[i] # "free" \/ i \in Keeps9(r)) /\ ~(r.op = "clunk" /\ r.fid = i)
      BY <1>1, <1>15, <2>2, HeldAfterIs
    <3>2. CASE i \in Keeps9(r)
      BY <1>14, <3>2 DEF DeviceOK, AnsweredOK
    <3>3. CASE held[i] # "free"
      <4>1. \/ fid_list[i] # NoFile
            \/ \E g \in Owned : request[g].op = "clunk" /\ request[g].fid = i
        BY <3>3 DEF DeviceOK, HeldOK
      <4>2. \A g \in Owned : g # h => g \in Owned' /\ request'[g] = request[g]
        BY <1>7, <1>8 DEF Owned
      <4>3. QED
        BY <3>1, <4>1, <4>2
    <3>4. QED
      BY <3>1, <3>2, <3>3
  <2>3. QED
    BY <1>1, <2>1, <2>2 DEF HeldOK
<1>17. Pending' = Pending /\ \A k \in Pending : k \in Owned /\ k # h
  <2>1. Pending' = Pending
    BY <1>4, <1>9 DEF Pending
  <2>2. QED
    BY <1>2, <1>5, <2>1 DEF Pending, HeadsOK
<1>18. \A k \in Pending : request'[k] = request[k]
  BY <1>7, <1>17 DEF Owned
<1>19. PendingOK'
  <2>1. fid_list' = fid_list /\ fs' = fs
    BY <1>1
  <2>2. QED
    BY <1>17, <1>18, <2>1 DEF DeviceOK, PendingOK, InodeOf, InodeLeft
<1>20. \A k \in Answered' : k \in Answered /\ k \in Owned /\ k # h
  <2> DEFINE u == Used(queue, last_used)
             v == Tail(u)
  <2>1. u \in Seq(Desc)
    BY <1>2, AvailAndUsed
  <2>2. /\ Len(v) = Len(u) - 1 /\ Len(u) \in Nat
        /\ \A k \in 1 .. Len(u) - 1 : v[k] = u[k + 1]
    BY <1>3, <2>1, TailIs
  <2>3. Answered' = {v[k] : k \in 1 .. Len(v)}
    BY <1>4 DEF Answered
  <2>4. Answered = {u[k] : k \in 1 .. Len(u)}
    BY DEF Answered
  <2>5. \A k \in 1 .. Len(u) : u[k] \in Owned
    BY <1>2 DEF HeadsOK
  <2>6. \A k \in 1 .. Len(v) : v[k] # h
    BY <1>5
  <2> HIDE DEF u, v
  <2>7. ASSUME NEW k \in 1 .. Len(v)
        PROVE  v[k] = u[k + 1] /\ k + 1 \in 1 .. Len(u)
    BY <2>2
  <2>8. QED
    BY <2>3, <2>4, <2>5, <2>6, <2>7
<1>21. AnsweredOK'
  <2>1. \A k \in Answered' : request'[k] = request[k]
    BY <1>7, <1>20 DEF Owned
  <2>2. QED
    BY <1>1, <1>20, <2>1 DEF DeviceOK, AnsweredOK
<1>22. WaitsOK'
  <2>1. in_progress # NoDesc => request'[in_progress] = request[in_progress]
    BY <1>5, <1>7 DEF DeviceOK, WaitsOK, Current
  <2>2. QED
    BY <1>1, <2>1 DEF DeviceOK, WaitsOK
<1>23. LoopOK'
  BY <1>1 DEF DeviceOK, LoopOK
<1>24. Whole(fs)' /\ fs'.called = <<>>
  BY <1>1 DEF DeviceOK
<1>25. QED
  BY <1>10, <1>12, <1>13, <1>16, <1>19, <1>21, <1>22, <1>23, <1>24 DEF DeviceOK

-----------------------------------------------------------------------------
(* What holds in every state of the device.                                *)

\* Only the loops of queue_notify still run when the archive's loop is lost.
LEMMA LostStays ==
  ASSUME fs.broken = TRUE, [Next]_vars
  PROVE  fs' = fs
<1>1. CASE UNCHANGED vars
  BY <1>1 DEF vars
<1>2. CASE Guest
  BY <1>2 DEF Guest, Reap, Submit
<1>3. CASE Refuse \/ NotifyDone
  BY <1>3 DEF Refuse, NotifyDone
<1>4. ASSUME NEW ops, Take(ops)
      PROVE  FALSE
  BY <1>4 DEF Take
<1>5. CASE RecvRequest
  BY <1>4, <1>5 DEF RecvRequest, Stateless, Attach, Walk, Lopen, Lcreate, Symlink, Mknod,
       Mkdir, Link, Renameat, Unlinkat, Getattr, Setattr, Readdir, Readlink, Lock, Read,
       Write, Clunk
<1>6. CASE Transfers
  BY <1>6 DEF Transfers, TransferEnds
<1>7. CASE Archive
  BY <1>7 DEF Archive, LoopTurn, LoopEnds
<1>8. QED
  BY <1>1, <1>2, <1>3, <1>5, <1>6, <1>7 DEF Next, Notified

\* Each request that the device takes.
LEMMA RequestStep ==
  ASSUME DeviceOK, RecvRequest
  PROVE  DeviceOK'
<1>1. CASE Stateless \/ Getattr \/ Readdir \/ Readlink \/ Lock \/ Read
  BY <1>1, ReadOnly
<1>2. CASE Symlink \/ Mknod \/ Mkdir \/ Link \/ Renameat \/ Unlinkat
  BY <1>2, NamesStep
<1>3. CASE Setattr \/ Write
  BY <1>3, ContentsStep
<1>4. CASE Attach
  BY <1>4, AttachStep
<1>5. CASE Walk
  BY <1>5, WalkStep
<1>6. CASE Lopen
  BY <1>6, LopenStep
<1>7. CASE Lcreate
  BY <1>7, LcreateStep
<1>8. CASE Clunk
  BY <1>8, ClunkStep
<1>9. QED
  BY <1>1, <1>2, <1>3, <1>4, <1>5, <1>6, <1>7, <1>8 DEF RecvRequest

LEMMA DeviceStill ==
  ASSUME DeviceOK, UNCHANGED vars
  PROVE  DeviceOK'
<1>1. /\ queue' = queue /\ fid_list' = fid_list /\ in_progress' = in_progress /\ fs' = fs
      /\ at' = at /\ loop' = loop /\ request' = request /\ last_used' = last_used
      /\ held' = held /\ client' = client
  BY DEF vars
<1>2. Owned' = Owned /\ Current' = Current /\ Pending' = Pending /\ Answered' = Answered
  BY <1>1 DEF Owned, Current, Pending, Answered
<1>3. QueueOK' /\ RequestsOK' /\ FidsOK'
  BY <1>1, <1>2 DEF DeviceOK, QueueOK, RequestsOK, FidsOK
<1>4. HeldOK' /\ AnsweredOK' /\ WaitsOK' /\ LoopOK'
  BY <1>1, <1>2 DEF DeviceOK, HeldOK, AnsweredOK, WaitsOK, LoopOK
<1>5. PendingOK'
  BY <1>1, <1>2 DEF DeviceOK, PendingOK, InodeOf, InodeLeft
<1>6. QED
  BY <1>1, <1>3, <1>4, <1>5 DEF DeviceOK

\* Every step keeps the invariant, or loses the archive's loop.
LEMMA DeviceStep ==
  ASSUME DeviceInv, [Next]_vars
  PROVE  DeviceInv'
<1>1. CASE fs.broken # FALSE
  <2>1. fs.broken = TRUE
    BY <1>1 DEF DeviceInv
  <2>2. fs' = fs
    BY <2>1, LostStays
  <2>3. QED
    BY <2>1, <2>2 DEF DeviceInv
<1>2. CASE fs.broken = FALSE
  <2>1. DeviceOK
    BY <1>2 DEF DeviceInv
  <2>2. ASSUME DeviceOK'
        PROVE  DeviceInv'
    <3>1. fs'.broken \in BOOLEAN
      BY <2>2 DEF DeviceOK, Whole, Solid, Counts, IsFs
    <3>2. QED
      BY <2>2, <3>1 DEF DeviceInv
  <2>3. CASE UNCHANGED vars
    BY <2>1, <2>2, <2>3, DeviceStill
  <2>4. CASE Guest
    <3>1. CASE Reap
      BY <2>1, <2>2, <3>1, ReapStep
    <3>2. ASSUME NEW h \in Desc, NEW r \in Clients[client.name].asks, Submit(h, r)
          PROVE  DeviceInv'
      BY <2>1, <2>2, <3>2, SubmitStep
    <3>3. QED
      BY <2>4, <3>1, <3>2 DEF Guest
  <2>5. CASE Notified
    <3>1. CASE Refuse \/ NotifyDone
      BY <2>1, <2>2, <3>1, NotifyStep
    <3>2. CASE RecvRequest
      BY <2>1, <2>2, <3>2, RequestStep
    <3>3. QED
      BY <2>5, <3>1, <3>2 DEF Notified
  <2>6. CASE Transfers
    <3>1. PICK n \in Ino, ok \in BOOLEAN : TransferEnds(n, ok)
      BY <2>6 DEF Transfers
    <3>2. QED
      BY <2>1, <2>2, <3>1, TransferStep
  <2>7. CASE Archive
    <3>1. CASE fs' = [fs EXCEPT !.broken = TRUE]
      BY <2>1, <3>1, LostStep
    <3>2. CASE LoopTurn /\ fs' # [fs EXCEPT !.broken = TRUE]
      BY <2>1, <2>2, <3>2, TurnStep
    <3>3. CASE LoopEnds
      BY <2>1, <2>2, <3>3, EndStep
    <3>4. QED
      BY <2>7, <3>1, <3>2, <3>3 DEF Archive
  <2>8. QED
    BY <2>3, <2>4, <2>5, <2>6, <2>7 DEF Next
<1>3. QED
  BY <1>1, <1>2

\* The invariant of the device: unless a loop over an archive has lost its
\* next member, the inodes, the file objects, the cache and the counts agree
\* (fs_net.c), every request in the queue finds its fids in place, and the one
\* open in progress is the one a transfer will call back (virtio_9p_open_cb).
THEOREM DeviceInvHolds == Spec => []DeviceInv
<1>1. Init => DeviceInv
  BY DeviceBegins
<1>2. DeviceInv /\ [Next]_vars => DeviceInv'
  BY DeviceStep
<1>3. QED
  BY <1>1, <1>2, PTL DEF Spec

LEMMA OpenIsPresent ==
  ASSUME DeviceInv
  PROVE  OpenFilesArePresent
<1> SUFFICES ASSUME ~fs.broken, NEW o \in FsFile, fs.file[o].is_opened,
                    IsType(fs, fs.file[o].ino, "REG")
             PROVE  LET node == fs.ino[fs.file[o].ino]
                    IN  node.state \in {"LOCAL", "LOADED"} /\ node.size <= Len(node.buf)
  BY DEF OpenFilesArePresent
<1>1. fs.broken = FALSE /\ DeviceOK
  BY DEF DeviceInv
<1>2. IsFs(fs) /\ Fresh(fs)
  BY <1>1 DEF DeviceOK, Whole, Solid, Counts
<1>3. fs.file[o].ino \in Ino /\ fs.file[o].is_opened = TRUE
  BY <1>2 DEF IsFs, IsFile, IsType
<1> DEFINE n == fs.file[o].ino
<1>4. NodeHere(fs, n) /\ OpenAt(fs, n) /\ fs.ino[n].type = "REG"
  BY <1>1, <1>2, <1>3 DEF Fresh, OpenAt, IsType
<1>5. QED
  BY <1>4 DEF NodeHere, InMemory

\* A file that the guest has open is in memory with its whole size, whatever
\* is loaded, trimmed from the cache or truncated meanwhile (fs_read and
\* fs_write do not ask for the state of its inode).
THEOREM OpenFilesStayPresent == Spec => []OpenFilesArePresent
<1>1. DeviceInv => OpenFilesArePresent
  BY OpenIsPresent
<1>2. QED
  BY <1>1, DeviceInvHolds, PTL

\* A list without repetition is as long as what it lists.
LEMMA ListedOnce ==
  ASSUME NEW T, NEW s \in Seq(T), NoRepeat(s)
  PROVE  Len(s) = Cardinality({s[i] : i \in DOMAIN s})
<1> DEFINE S == {s[i] : i \in DOMAIN s}
           m == Len(s)
<1>1. m \in Nat /\ DOMAIN s = 1 .. m
  OBVIOUS
<1>2. s \in [1 .. m -> S] /\ \A x \in S : \E i \in 1 .. m : s[i] = x
  <2>1. s = [i \in 1 .. m |-> s[i]]
    BY <1>1
  <2>2. \A i \in 1 .. m : s[i] \in S
    BY <1>1
  <2>3. QED
    BY <1>1, <2>1, <2>2
<1>3. \A i, j \in 1 .. m : s[i] = s[j] => i = j
  BY <1>1 DEF NoRepeat
<1>4. IsFiniteSet(1 .. m) /\ Cardinality(1 .. m) = m
  BY <1>1, FS_Interval
<1> HIDE DEF S, m
<1>5. ExistsBijection(1 .. m, S)
  BY <1>2, <1>3 DEF ExistsBijection, Bijection, Injection, Surjection, IsInjective
<1>6. Cardinality(S) = m
  BY <1>4, <1>5, FS_Bijection
<1>7. QED
  BY <1>6 DEF S, m

LEMMA CountsAgree ==
  ASSUME DeviceInv
  PROVE  CountsMatchReferences
<1> SUFFICES ASSUME ~fs.broken
             PROVE  /\ \A n \in Allocated(fs) :
                         /\ fs.ino[n].refcount =
                              Cardinality(NamesOf(n)) + (IF n = Root THEN 1 ELSE 0)
                         /\ fs.ino[n].open_count = Cardinality({f \in FsFile : fs.file[f].ino = n})
                         /\ n = Root \/ ~Unused(fs, n)
                    /\ fs.blocks = Cardinality(UsedBlocks)
                    /\ ToSet(fs.cache) = CachedInodes
                    /\ Len(fs.cache) = Cardinality(CachedInodes)
                    /\ fs.cache_size = Cardinality(CachedBytes)
  BY DEF CountsMatchReferences
<1>1. fs.broken = FALSE /\ DeviceOK
  BY DEF DeviceInv
<1>2. IsFs(fs) /\ Refs(fs, NoRefs) /\ Opens(fs, NoFile, NoIno) /\ Blocks(fs) /\ Busy(fs, NoIno)
      /\ Fresh(fs)
  BY <1>1 DEF DeviceOK, Whole, Solid, Counts
<1>3. CachedIs(fs)
  BY <1>1, <1>2, CachedBoth DEF Fresh
<1>4. ASSUME NEW n \in Ino
      PROVE  fs.ino[n].refcount = Cardinality(NamesOf(n)) + (IF n = Root THEN 1 ELSE 0)
  <2>1. Pairs(NamedAt(fs, n)) = NamesOf(n)
    <3>1. \A d \in Ino : NamedAt(fs, n)[d]
                           = {k \in DOMAIN fs.ino[d].dents : fs.ino[d].dents[k].ino = n}
      BY DEF NamedAt, At
    <3>2. QED
      BY <3>1 DEF Pairs, NamesOf
  <2>2. fs.ino[n].refcount = Names(fs, n) + If1(n = Root) + NoRefs[n]
    BY <1>1, <1>2, <1>4 DEF Refs
  <2>3. NoRefs[n] = 0 /\ fs.ino[n].refcount \in Int
    BY <1>2, <1>4 DEF NoRefs, IsFs, IsNode
  <2>4. Names(fs, n) \in Nat
    BY <1>2, <1>4, NamesChange DEF SameDentsBut
  <2>5. If1(n = Root) = (IF n = Root THEN 1 ELSE 0)
    BY DEF If1
  <2>6. QED
    BY <2>1, <2>2, <2>3, <2>4, <2>5 DEF Names
<1>5. ASSUME NEW n \in Ino
      PROVE  fs.ino[n].open_count = Cardinality({f \in FsFile : fs.file[f].ino = n})
  <2>1. Standing(fs, n, NoFile) = {f \in FsFile : fs.file[f].ino = n}
    BY FsFileAssumption DEF Standing
  <2>2. n # NoIno
    BY InoAssumption
  <2>3. fs.ino[n].open_count = Cardinality(Standing(fs, n, NoFile)) + If1(n = NoIno)
    BY <1>2, <1>5 DEF Opens
  <2>4. Cardinality(Standing(fs, n, NoFile)) \in Nat
    BY StandingIs
  <2>5. If1(n = NoIno) = 0
    BY <2>2 DEF If1
  <2>6. QED
    BY <2>1, <2>3, <2>4, <2>5
<1>6. ASSUME NEW n \in Allocated(fs)
      PROVE  n = Root \/ ~Unused(fs, n)
  <2>1. n \in Ino \ {NoIno} /\ fs.ino[n].type # "NONE"
    BY <1>6, InoAssumption DEF Allocated
  <2>2. fs.ino[n].refcount \in Int /\ fs.ino[n].open_count \in Int
    BY <1>2, <2>1 DEF IsFs, IsNode
  <2>3. fs.ino[n].refcount > 0 \/ fs.ino[n].open_count > 0
    BY <1>2, <2>1 DEF Busy
  <2>4. QED
    BY <2>2, <2>3 DEF Unused
<1>7. fs.blocks = Cardinality(UsedBlocks)
  <2>1. \A d \in Ino : BlocksOf(fs)[d] = 1 .. ToBlocks(fs.ino[d].size)
    BY DEF BlocksOf
  <2>2. Pairs(BlocksOf(fs)) = UsedBlocks
    BY <2>1 DEF Pairs, UsedBlocks
  <2>3. QED
    BY <1>2, <2>2 DEF Blocks
<1>8. ToSet(fs.cache) = CachedInodes
  <2>1. \A k \in DOMAIN fs.cache : fs.cache[k] \in Ino
    BY <1>2 DEF IsFs
  <2>2. QED
    BY <1>3, <2>1 DEF ToSet, CachedIs, In, CachedInodes
<1>9. Len(fs.cache) = Cardinality(CachedInodes)
  <2>1. fs.cache \in Seq(Ino) /\ NoRepeat(fs.cache)
    BY <1>2, <1>3 DEF IsFs, CachedIs
  <2>2. Len(fs.cache) = Cardinality({fs.cache[i] : i \in DOMAIN fs.cache})
    BY <2>1, ListedOnce
  <2>3. QED
    BY <1>8, <2>2 DEF ToSet
<1>10. fs.cache_size = Cardinality(CachedBytes)
  <2>1. \A d \in Ino : Bytes(fs)[d] = IF d \in CachedInodes THEN 1 .. fs.ino[d].size ELSE {}
    BY DEF Bytes, CachedInodes
  <2>2. CachedInodes \subseteq Ino
    BY DEF CachedInodes
  <2>3. Pairs(Bytes(fs)) = CachedBytes
    BY <2>1, <2>2 DEF Pairs, CachedBytes
  <2>4. QED
    BY <1>3, <2>3 DEF CachedIs
<1>11. Allocated(fs) \subseteq Ino
  BY DEF Allocated
<1>12. QED
  BY <1>4, <1>5, <1>6, <1>7, <1>8, <1>9, <1>10, <1>11

\* The counts that decide when an inode is freed, how full the disk is and
\* what the cache holds agree with the directory entries, the file objects,
\* the sizes and the states (inode_decref, inode_dec_open, fs_trim_cache).
THEOREM CountsStayRight == Spec => []CountsMatchReferences
<1>1. DeviceInv => CountsMatchReferences
  BY CountsAgree
<1>2. QED
  BY <1>1, DeviceInvHolds, PTL
=============================================================================
