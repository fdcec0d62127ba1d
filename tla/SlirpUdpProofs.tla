--------------------------- MODULE SlirpUdpProofs ---------------------------
(***************************************************************************)
(* Theorems about the user mode network below TCP, for any datagrams and   *)
(* scenarios, any number of sockets, buffers and leases.                   *)
(***************************************************************************)
EXTENDS SlirpUdp, NaturalsInduction, WellFoundedInduction, SequenceTheorems, TLAPS

-----------------------------------------------------------------------------
(* Induction, and the loops of the code, which the model has as folds.     *)

Less == {ss \in Nat \X Nat : ss[1] < ss[2]}

\* The numbers are well ordered.
LEMMA LessIsWellFounded ==
  IsWellFoundedOn(Less, Nat)
BY NatLessThanWellFounded DEF OpToRel, Less

\* Induction, for a set of numbers.
LEMMA SetInduction ==
  ASSUME NEW T, 0 \in T, \A n \in Nat : n \in T => n + 1 \in T
  PROVE  Nat \subseteq T
<1> DEFINE U == Nat \ T
<1>1. SUFFICES ASSUME U # {} PROVE FALSE
  OBVIOUS
<1>2. U \subseteq Nat
  OBVIOUS
<1> HIDE DEF U
<1>3. PICK x \in U : \A y \in U : ~(<<y, x>> \in Less)
  BY <1>1, <1>2, LessIsWellFounded, WFMin
<1>4. x \in Nat /\ x # 0 /\ x \notin T
  BY <1>2 DEF U
<1>5. x - 1 \in Nat /\ (x - 1) + 1 = x
  BY <1>4
<1>6. x - 1 \in U
  BY <1>4, <1>5 DEF U
<1>7. <<x - 1, x>> \in Less
  BY <1>5, <1>4 DEF Less
<1>8. QED
  BY <1>3, <1>6, <1>7

\* A set of numbers up to n has a greatest and a least.
LEMMA Extremes ==
  ASSUME NEW n \in Nat, NEW s0 \in SUBSET (1 .. n), s0 # {}
  PROVE  /\ Max(s0) \in s0 /\ \A y \in s0 : y <= Max(s0)
         /\ Min(s0) \in s0 /\ \A y \in s0 : Min(s0) <= y
<1> DEFINE Greatest(m) == \A r \in SUBSET (1 .. m) : r # {} => \E x \in r : \A y \in r : x >= y
           Least(m) == \A r \in SUBSET (1 .. m) : r # {} => \E x \in r : \A y \in r : x <= y
           T == {m \in Nat : Greatest(m) /\ Least(m)}
<1>1. 0 \in T
  <2>1. \A r \in SUBSET (1 .. 0) : r = {}
    OBVIOUS
  <2>2. QED
    BY <2>1
<1>2. ASSUME NEW m \in Nat, m \in T
      PROVE  m + 1 \in T
  <2>1. ASSUME NEW r \in SUBSET (1 .. m + 1), r # {}
        PROVE  (\E x \in r : \A y \in r : x >= y) /\ (\E x \in r : \A y \in r : x <= y)
    <3>1. CASE r = {m + 1}
      BY <3>1
    <3>2. CASE m + 1 \notin r
      <4>1. r \in SUBSET (1 .. m)
        BY <3>2
      <4>2. QED
        BY <1>2, <2>1, <4>1
    <3>3. CASE m + 1 \in r /\ r # {m + 1}
      <4>1. r \ {m + 1} \in SUBSET (1 .. m) /\ r \ {m + 1} # {}
        BY <3>3, <2>1
      <4>2. PICK x \in r \ {m + 1} : \A y \in r \ {m + 1} : x <= y
        BY <1>2, <4>1
      <4>3. x <= m + 1 /\ \A y \in r : m + 1 >= y
        BY <4>1, <4>2
      <4>4. QED
        BY <3>3, <4>2, <4>3
    <3>4. QED
      BY <2>1, <3>1, <3>2, <3>3
  <2>2. QED
    BY <2>1
<1> HIDE DEF T
<1>3. Nat \subseteq T
  BY <1>1, <1>2, SetInduction
<1>4. (\E x \in s0 : \A y \in s0 : x >= y) /\ (\E x \in s0 : \A y \in s0 : x <= y)
  BY <1>3 DEF T
<1>5. /\ Max(s0) \in s0 /\ \A y \in s0 : Max(s0) >= y
      /\ Min(s0) \in s0 /\ \A y \in s0 : Min(s0) <= y
  BY <1>4 DEF Max, Min
<1>6. QED
  BY <1>5

\* One turn of a loop over a sequence: p says which loop, t is what it has come to.
Do(p, t, x) ==
  CASE p.loop = "if_start" -> Turn(t)
    [] p.loop = "ip_output" -> if_output(t, p.so, x)
    [] p.loop = "m_cat" -> t \o x.data
    [] p.loop = "ip_slowtimo" -> Ticked(t, x)
    [] p.loop = "fill" -> IF t.sock[x].expire <= 0 THEN udp_detach(t, x) ELSE t
    [] p.loop = "poll" -> IF x \in p.ready THEN sorecvfrom(t, x) ELSE t

\* What the loop has come to after the turns of a set of places.
LoopOver(f, p, base, q, n) ==
  f = [S \in SUBSET (1 .. n) |-> IF S = {} THEN base ELSE Do(p, f[S \ {Max(S)}], q[Max(S)])]

\* There is such a function.
LEMMA LoopExists ==
  ASSUME NEW p, NEW base, NEW q, NEW n \in Nat
  PROVE  \E f : LoopOver(f, p, base, q, n)
<1> DEFINE T == {m \in Nat : \E f : LoopOver(f, p, base, q, m)}
<1>1. 0 \in T
  <2> DEFINE f == [S \in SUBSET (1 .. 0) |-> base]
  <2>1. \A S \in SUBSET (1 .. 0) : S = {}
    OBVIOUS
  <2>2. f = [S \in SUBSET (1 .. 0) |->
               IF S = {} THEN base ELSE Do(p, f[S \ {Max(S)}], q[Max(S)])]
    BY <2>1
  <2> HIDE DEF f
  <2>3. QED
    BY <2>2 DEF LoopOver
<1>2. ASSUME NEW m \in Nat, m \in T
      PROVE  m + 1 \in T
  <2>1. PICK f : LoopOver(f, p, base, q, m)
    BY <1>2
  <2> DEFINE A == SUBSET (1 .. m)
             B == SUBSET (1 .. m + 1)
             g == [S \in B |-> IF m + 1 \in S THEN Do(p, f[S \ {m + 1}], q[m + 1]) ELSE f[S]]
  <2>2. ASSUME NEW S \in B
        PROVE  g[S] = IF S = {} THEN base ELSE Do(p, g[S \ {Max(S)}], q[Max(S)])
    <3>1. CASE m + 1 \in S
      <4>1. Max(S) = m + 1
        <5>1. S # {} /\ m + 1 \in Nat /\ S \in SUBSET (1 .. m + 1)
          BY <3>1
        <5>2. \A k \in Nat : S \in SUBSET (1 .. k) => Max(S) \in S /\ \A y \in S : y <= Max(S)
          BY <5>1, Extremes
        <5>3. Max(S) \in S /\ \A y \in S : y <= Max(S)
          BY <5>1, <5>2
        <5>4. \A y \in S : y \in Nat /\ y <= m + 1
          BY <5>1
        <5>5. Max(S) \in Nat /\ Max(S) <= m + 1
          BY <5>3, <5>4
        <5>6. m + 1 <= Max(S)
          BY <3>1, <5>3
        <5>7. QED
          BY <5>5, <5>6
      <4>2. S \ {m + 1} \in B /\ m + 1 \notin S \ {m + 1}
        OBVIOUS
      <4>3. g[S \ {m + 1}] = f[S \ {m + 1}]
        BY <4>2
      <4>4. g[S] = Do(p, f[S \ {m + 1}], q[m + 1])
        BY <3>1
      <4> HIDE DEF g
      <4>5. QED
        BY <3>1, <4>1, <4>3, <4>4
    <3>2. CASE m + 1 \notin S
      <4>1. S \in A
        BY <3>2
      <4>2. g[S] = f[S]
        BY <3>2
      <4>3. f[S] = IF S = {} THEN base ELSE Do(p, f[S \ {Max(S)}], q[Max(S)])
        BY <2>1, <4>1 DEF LoopOver
      <4>4. S \ {Max(S)} \in B /\ m + 1 \notin S \ {Max(S)}
        BY <3>2
      <4>5. g[S \ {Max(S)}] = f[S \ {Max(S)}]
        BY <4>4
      <4> HIDE DEF g
      <4>6. QED
        BY <4>2, <4>3, <4>5
    <3>3. QED
      BY <3>1, <3>2
  <2>3. g = [S \in B |-> g[S]]
    OBVIOUS
  <2> HIDE DEF g
  <2>4. g = [S \in B |-> IF S = {} THEN base ELSE Do(p, g[S \ {Max(S)}], q[Max(S)])]
    BY <2>2, <2>3
  <2>5. LoopOver(g, p, base, q, m + 1)
    BY <2>4 DEF LoopOver
  <2>6. \E h : LoopOver(h, p, base, q, m + 1)
    BY <2>5
  <2>7. QED
    BY <2>6
<1> HIDE DEF T
<1>3. Nat \subseteq T
  BY <1>1, <1>2, SetInduction
<1>4. QED
  BY <1>3 DEF T

\* Turn by turn.
LEMMA LoopTurns ==
  ASSUME NEW p, NEW base, NEW q, NEW n \in Nat, NEW f, LoopOver(f, p, base, q, n)
  PROVE  /\ f[1 .. 0] = base
         /\ \A i \in 1 .. n : f[1 .. i] = Do(p, f[1 .. i - 1], q[i])
<1>1. 1 .. 0 \in SUBSET (1 .. n) /\ 1 .. 0 = {}
  OBVIOUS
<1>2. f[1 .. 0] = base
  BY <1>1 DEF LoopOver
<1>3. ASSUME NEW i \in 1 .. n
      PROVE  f[1 .. i] = Do(p, f[1 .. i - 1], q[i])
  <2>1. 1 .. i \in SUBSET (1 .. n) /\ 1 .. i # {} /\ i \in 1 .. i
    OBVIOUS
  <2>2. Max(1 .. i) = i
    <3>1. Max(1 .. i) \in 1 .. i /\ \A y \in 1 .. i : y <= Max(1 .. i)
      BY <2>1, Extremes
    <3>2. QED
      BY <2>1, <3>1
  <2>3. (1 .. i) \ {i} = 1 .. i - 1
    OBVIOUS
  <2>4. QED
    BY <2>1, <2>2, <2>3 DEF LoopOver
<1>4. QED
  BY <1>2, <1>3


\* What a loop comes to turn by turn.
Course(h, p, base, q, n) ==
  h[0] = base /\ \A i \in 1 .. n : h[i] = Do(p, h[i - 1], q[i])

LEMMA LoopCourse ==
  ASSUME NEW p, NEW base, NEW q, NEW n \in Nat, NEW f, LoopOver(f, p, base, q, n)
  PROVE  \E h : Course(h, p, base, q, n) /\ h[n] = f[1 .. n]
<1>0. f[1 .. 0] = base
  <2>1. {} \in SUBSET (1 .. n) /\ 1 .. 0 = {}
    OBVIOUS
  <2>2. f[{}] = base
    BY <2>1 DEF LoopOver
  <2>3. QED
    BY <2>1, <2>2
<1> DEFINE h == [i \in 0 .. n |-> f[1 .. i]]
<1>1. h[0] = base /\ h[n] = f[1 .. n]
  BY <1>0
<1>2. ASSUME NEW i \in 1 .. n
      PROVE  h[i] = Do(p, h[i - 1], q[i])
  <2>1. h[i] = f[1 .. i] /\ h[i - 1] = f[1 .. i - 1]
    OBVIOUS
  <2>2. f[1 .. i] = Do(p, f[1 .. i - 1], q[i])
    BY LoopTurns
  <2> HIDE DEF h
  <2>3. QED
    BY <2>1, <2>2
<1> HIDE DEF h
<1>3. QED
  BY <1>1, <1>2 DEF Course

\* The sockets that have something are read.
Polled(w, ready) ==
  FoldLeft(LAMBDA t, so : IF so \in ready THEN sorecvfrom(t, so) ELSE t, w, w.udb)

LEMMA IfStartCourse ==
  ASSUME NEW w, w.rx \in Nat
  PROVE  \E h : Course(h, [loop |-> "if_start"], w, [i \in 1 .. w.rx |-> i], w.rx) /\ if_start(w) = h[w.rx]
<1> DEFINE p == [loop |-> "if_start"]
           IsLoop(f) == LoopOver(f, p, w, [i \in 1 .. w.rx |-> i], w.rx)
           q == [i \in 1 .. w.rx |-> i]
           g == CHOOSE f : IsLoop(f)
<1>1. \E f : IsLoop(f)
  BY LoopExists
<1> HIDE DEF IsLoop
<1>2. IsLoop(g)
  BY <1>1
<1>3. if_start(w) = g[1 .. w.rx]
  BY DEF if_start, FoldLeft, MapThenFoldSet, IsLoop, LoopOver, Do
<1> HIDE DEF g, p, q
<1>4. LoopOver(g, p, w, q, w.rx)
  BY <1>2 DEF IsLoop, q
<1>5. \E h : Course(h, p, w, q, w.rx) /\ h[w.rx] = g[1 .. w.rx]
  BY <1>4, LoopCourse
<1>6. QED
  BY <1>3, <1>5 DEF p, q

LEMMA OutputCourse ==
  ASSUME NEW w, NEW so, NEW m, NEW n \in Nat, DOMAIN Fragments(m) = 1 .. n
  PROVE  \E h : Course(h, [loop |-> "ip_output", so |-> so], w, Fragments(m), n) /\ ip_output(w, so, m) = h[n]
<1> DEFINE p == [loop |-> "ip_output", so |-> so]
           IsLoop(f) == LoopOver(f, p, w, Fragments(m), n)
           q == Fragments(m)
           g == CHOOSE f : IsLoop(f)
<1>1. \E f : IsLoop(f)
  BY LoopExists
<1> HIDE DEF IsLoop
<1>2. IsLoop(g)
  BY <1>1
<1>3. ip_output(w, so, m) = g[1 .. n]
  BY DEF ip_output, FoldLeft, MapThenFoldSet, IsLoop, LoopOver, Do
<1> HIDE DEF g, p, q
<1>4. LoopOver(g, p, w, q, n)
  BY <1>2 DEF IsLoop, q
<1>5. \E h : Course(h, p, w, q, n) /\ h[n] = g[1 .. n]
  BY <1>4, LoopCourse
<1>6. QED
  BY <1>3, <1>5 DEF p, q

LEMMA JoinedCourse ==
  ASSUME NEW frags, NEW n \in Nat, DOMAIN frags = 1 .. n
  PROVE  \E h : Course(h, [loop |-> "m_cat"], <<>>, frags, n) /\ Joined(frags) = h[n]
<1> DEFINE p == [loop |-> "m_cat"]
           IsLoop(f) == LoopOver(f, p, <<>>, frags, n)
           q == frags
           g == CHOOSE f : IsLoop(f)
<1>1. \E f : IsLoop(f)
  BY LoopExists
<1> HIDE DEF IsLoop
<1>2. IsLoop(g)
  BY <1>1
<1>3. Joined(frags) = g[1 .. n]
  BY DEF Joined, FoldLeft, MapThenFoldSet, IsLoop, LoopOver, Do
<1> HIDE DEF g, p, q
<1>4. LoopOver(g, p, <<>>, q, n)
  BY <1>2 DEF IsLoop, q
<1>5. \E h : Course(h, p, <<>>, q, n) /\ h[n] = g[1 .. n]
  BY <1>4, LoopCourse
<1>6. QED
  BY <1>3, <1>5 DEF p, q

LEMMA SlowTimoCourse ==
  ASSUME NEW ipq, NEW n \in Nat, DOMAIN ipq = 1 .. n
  PROVE  \E h : Course(h, [loop |-> "ip_slowtimo"], <<>>, ipq, n) /\ ip_slowtimo(ipq) = h[n]
<1> DEFINE p == [loop |-> "ip_slowtimo"]
           IsLoop(f) == LoopOver(f, p, <<>>, ipq, n)
           q == ipq
           g == CHOOSE f : IsLoop(f)
<1>1. \E f : IsLoop(f)
  BY LoopExists
<1> HIDE DEF IsLoop
<1>2. IsLoop(g)
  BY <1>1
<1>3. ip_slowtimo(ipq) = g[1 .. n]
  BY DEF ip_slowtimo, FoldLeft, MapThenFoldSet, IsLoop, LoopOver, Do
<1> HIDE DEF g, p, q
<1>4. LoopOver(g, p, <<>>, q, n)
  BY <1>2 DEF IsLoop, q
<1>5. \E h : Course(h, p, <<>>, q, n) /\ h[n] = g[1 .. n]
  BY <1>4, LoopCourse
<1>6. QED
  BY <1>3, <1>5 DEF p, q

LEMMA PollCourse ==
  ASSUME NEW w, NEW ready, NEW n \in Nat, DOMAIN w.udb = 1 .. n
  PROVE  \E h : Course(h, [loop |-> "poll", ready |-> ready], w, w.udb, n) /\ Polled(w, ready) = h[n]
<1> DEFINE p == [loop |-> "poll", ready |-> ready]
           IsLoop(f) == LoopOver(f, p, w, w.udb, n)
           q == w.udb
           g == CHOOSE f : IsLoop(f)
<1>1. \E f : IsLoop(f)
  BY LoopExists
<1> HIDE DEF IsLoop
<1>2. IsLoop(g)
  BY <1>1
<1>3. Polled(w, ready) = g[1 .. n]
  BY DEF Polled, FoldLeft, MapThenFoldSet, IsLoop, LoopOver, Do
<1> HIDE DEF g, p, q
<1>4. LoopOver(g, p, w, q, n)
  BY <1>2 DEF IsLoop, q
<1>5. \E h : Course(h, p, w, q, n) /\ h[n] = g[1 .. n]
  BY <1>4, LoopCourse
<1>6. QED
  BY <1>3, <1>5 DEF p, q

LEMMA ExpireCourse ==
  ASSUME NEW w, NEW n \in Nat, DOMAIN w.udb = 1 .. n
  PROVE  \E h : Course(h, [loop |-> "fill"], w, w.udb, n) /\ Expire(w) = h[n]
<1> DEFINE p == [loop |-> "fill"]
           IsLoop(f) == LoopOver(f, p, w, w.udb, n)
           q == w.udb
           g == CHOOSE f : IsLoop(f)
<1>1. \E f : IsLoop(f)
  BY LoopExists
<1> HIDE DEF IsLoop
<1>2. IsLoop(g)
  BY <1>1
<1>3. Expire(w) = g[1 .. n]
  BY DEF Expire, FoldLeft, MapThenFoldSet, IsLoop, LoopOver, Do
<1> HIDE DEF g, p, q
<1>4. LoopOver(g, p, w, q, n)
  BY <1>2 DEF IsLoop, q
<1>5. \E h : Course(h, p, w, q, n) /\ h[n] = g[1 .. n]
  BY <1>4, LoopCourse
<1>6. QED
  BY <1>3, <1>5 DEF p, q

-----------------------------------------------------------------------------
(* The output queues.  M stands for the packets that are on their way.      *)

Socks == Sockets \cup {NoSocket}
Entry(M) == [so : Socks, m : M, sn : Nat]
Session(M) == Seq(Entry(M)) \ {<<>>}
Owner(x) == x[1].so

\* Every packet of session x was queued before every packet of y.
Sooner(x, y) == \A k \in DOMAIN x, l \in DOMAIN y : x[k].sn < y[l].sn

\* A session: packets of one socket in order, none of them sent.
Proper(x, last, serial) ==
  /\ \A k \in DOMAIN x : x[k].so = Owner(x) /\ last[Owner(x)] < x[k].sn /\ x[k].sn <= serial
  /\ \A k, l \in DOMAIN x : k < l => x[k].sn < x[l].sn

\* The sessions of the two queues: a socket may have several in if_fastq, in order,
\* and after these one in if_batchq.
Queued(M, f, b, last, serial) ==
  /\ f \in Seq(Session(M)) /\ b \in Seq(Session(M))
  /\ \A i \in DOMAIN f : Proper(f[i], last, serial)
  /\ \A i \in DOMAIN b : Proper(b[i], last, serial)
  /\ \A i, j \in DOMAIN f : i < j /\ Owner(f[i]) = Owner(f[j]) => Sooner(f[i], f[j])
  /\ \A i \in DOMAIN f, j \in DOMAIN b : Owner(f[i]) = Owner(b[j]) => Sooner(f[i], b[j])
  /\ \A i, j \in DOMAIN b : Owner(b[i]) = Owner(b[j]) => i = j

Fields ==
  {"ipq", "udb", "udpLast", "slow", "fds", "sock", "fastq", "batchq", "nextM", "serial",
   "last", "mac", "ip", "rx", "got", "sent", "leases", "acked", "lost"}

QueuesOK(M, w) ==
  /\ Fields \subseteq DOMAIN w /\ DOMAIN w.sock = Sockets
  /\ w.serial \in Nat /\ w.rx \in Nat /\ w.last \in [Socks -> Nat]
  /\ \A so \in Socks : w.last[so] <= w.serial
  /\ w.nextM \in 0 .. Len(w.batchq)
  /\ Queued(M, w.fastq, w.batchq, w.last, w.serial)
  /\ \A g \in w.got : g.p = "ip" => g.m \in M

LEMMA RemoveAtIs ==
  ASSUME NEW X, NEW q \in Seq(X), NEW at \in 1 .. Len(q)
  PROVE  /\ RemoveAt(q, at) \in Seq(X)
         /\ Len(RemoveAt(q, at)) = Len(q) - 1
         /\ \A i \in 1 .. Len(q) - 1 : RemoveAt(q, at)[i] = IF i < at THEN q[i] ELSE q[i + 1]
<1> DEFINE a == SubSeq(q, 1, at - 1)
           b == SubSeq(q, at + 1, Len(q))
<1>1. a \in Seq(X) /\ Len(a) = at - 1 /\ \A i \in 1 .. at - 1 : a[i] = q[i]
  OBVIOUS
<1>2. b \in Seq(X) /\ Len(b) = Len(q) - at /\ \A i \in 1 .. Len(q) - at : b[i] = q[at + i]
  OBVIOUS
<1>3. RemoveAt(q, at) = a \o b
  BY DEF RemoveAt
<1> HIDE DEF a, b
<1>4. a \o b \in Seq(X) /\ Len(a \o b) = Len(q) - 1
  <2>1. a \in Seq(X) /\ b \in Seq(X)
    BY <1>1, <1>2
  <2>2. a \o b \in Seq(X) /\ Len(a \o b) = Len(a) + Len(b)
    BY <2>1
  <2>3. QED
    BY <1>1, <1>2, <2>2
<1>5. ASSUME NEW i \in 1 .. Len(q) - 1
      PROVE  (a \o b)[i] = IF i < at THEN q[i] ELSE q[i + 1]
  <2>1. CASE i < at
    <3>1. (a \o b)[i] = a[i]
      BY <1>1, <1>2, <2>1
    <3>2. QED
      BY <1>1, <2>1, <3>1
  <2>2. CASE ~(i < at)
    <3>1. (a \o b)[i] = b[i - Len(a)]
      BY <1>1, <1>2, <2>2
    <3>2. b[i - (at - 1)] = q[at + (i - (at - 1))]
      BY <1>2, <2>2
    <3>3. at + (i - (at - 1)) = i + 1
      OBVIOUS
    <3>4. QED
      BY <1>1, <2>2, <3>1, <3>2, <3>3
  <2>3. QED
    BY <2>1, <2>2
<1>6. QED
  BY <1>3, <1>4, <1>5

LEMMA SessionIs ==
  ASSUME NEW M, NEW x \in Session(M)
  PROVE  /\ x \in Seq(Entry(M)) /\ Len(x) \in Nat /\ Len(x) >= 1 /\ DOMAIN x = 1 .. Len(x)
         /\ 1 \in DOMAIN x /\ Owner(x) \in Socks
         /\ \A k \in DOMAIN x : x[k] \in Entry(M) /\ x[k].so \in Socks /\ x[k].m \in M /\ x[k].sn \in Nat
<1>1. x \in Seq(Entry(M)) /\ x # <<>>
  BY DEF Session
<1>2. Len(x) \in Nat /\ Len(x) # 0 /\ DOMAIN x = 1 .. Len(x)
  BY <1>1, EmptySeq, LenProperties
<1>3. \A k \in DOMAIN x : x[k] \in Entry(M)
  BY <1>1
<1>4. \A k \in DOMAIN x : x[k].so \in Socks /\ x[k].m \in M /\ x[k].sn \in Nat
  BY <1>3 DEF Entry
<1>5. 1 \in DOMAIN x
  BY <1>2
<1>6. QED
  BY <1>1, <1>2, <1>3, <1>4, <1>5 DEF Owner

LEMMA IsSession ==
  ASSUME NEW M, NEW x \in Seq(Entry(M)), Len(x) # 0
  PROVE  x \in Session(M)
BY EmptySeq DEF Session

\* The first packet of a session is sent.
LEMMA SessionTail ==
  ASSUME NEW M, NEW x \in Session(M), NEW last \in [Socks -> Nat], NEW serial \in Nat,
         Proper(x, last, serial), Len(x) # 1
  PROVE  /\ Tail(x) \in Session(M) /\ Owner(Tail(x)) = Owner(x)
         /\ Proper(Tail(x), [last EXCEPT ![Owner(x)] = x[1].sn], serial)
         /\ \A y \in Session(M) : Sooner(x, y) => Sooner(Tail(x), y)
         /\ \A y \in Session(M) : Sooner(y, x) => Sooner(y, Tail(x))
<1>1. x \in Seq(Entry(M)) /\ Len(x) > 1 /\ Len(x) \in Nat
  <2>1. x \in Seq(Entry(M)) /\ Len(x) \in Nat /\ Len(x) >= 1
    BY SessionIs
  <2>2. \A n \in Nat : n >= 1 /\ n # 1 => n > 1
    OBVIOUS
  <2>3. QED
    BY <2>1, <2>2
<1>2. /\ Tail(x) \in Seq(Entry(M)) /\ Len(Tail(x)) = Len(x) - 1
      /\ \A k \in 1 .. Len(x) - 1 : Tail(x)[k] = x[k + 1]
  BY <1>1
<1>3. Tail(x) \in Session(M)
  <2>1. Len(Tail(x)) # 0
    BY <1>1, <1>2
  <2>2. QED
    BY <1>2, <2>1, IsSession
<1>4. DOMAIN x = 1 .. Len(x) /\ DOMAIN Tail(x) = 1 .. Len(x) - 1
  BY <1>1, <1>2
<1>5. \A k \in DOMAIN Tail(x) : k + 1 \in DOMAIN x /\ Tail(x)[k] = x[k + 1] /\ 1 < k + 1 /\ k \in Nat
  BY <1>2, <1>4
<1>6. 1 \in DOMAIN Tail(x) /\ 1 \in DOMAIN x
  BY <1>1, <1>4
<1> DEFINE y == Tail(x)
<1> HIDE DEF y
<1>7. Owner(y) = Owner(x)
  BY <1>5, <1>6 DEF y, Proper, Owner
<1>8. Owner(x) \in Socks /\ \A k \in DOMAIN x : x[k].sn \in Nat
  BY SessionIs
<1>9. Proper(y, [last EXCEPT ![Owner(x)] = x[1].sn], serial)
  <2>1. [last EXCEPT ![Owner(x)] = x[1].sn][Owner(x)] = x[1].sn
    BY <1>8
  <2>2. \A k \in DOMAIN y : y[k].so = Owner(x) /\ x[1].sn < y[k].sn /\ y[k].sn <= serial
    BY <1>5, <1>6 DEF Proper, y
  <2>3. \A k, l \in DOMAIN y : k < l => y[k].sn < y[l].sn
    BY <1>5 DEF Proper, y
  <2>4. QED
    BY <1>7, <2>1, <2>2, <2>3 DEF Proper
<1>10. \A z \in Session(M) : (Sooner(x, z) => Sooner(y, z)) /\ (Sooner(z, x) => Sooner(z, y))
  BY <1>5 DEF Sooner, y
<1>11. QED
  BY <1>3, <1>7, <1>9, <1>10 DEF y

\* It does not disturb the sessions of others, nor those behind it.
LEMMA SessionWaits ==
  ASSUME NEW M, NEW x \in Session(M), NEW y \in Session(M), NEW last \in [Socks -> Nat],
         NEW serial \in Nat, Proper(x, last, serial), Proper(y, last, serial),
         Owner(x) = Owner(y) => Sooner(x, y)
  PROVE  Proper(y, [last EXCEPT ![Owner(x)] = x[1].sn], serial)
<1>1. 1 \in DOMAIN x /\ 1 \in DOMAIN y
  BY SessionIs
<1>2. Owner(x) \in Socks /\ Owner(y) \in Socks
  BY SessionIs
<1>3. QED
  BY <1>1, <1>2 DEF Proper, Sooner

\* The newest packet is put behind a session of its socket.
LEMMA SessionGrows ==
  ASSUME NEW M, NEW x \in Session(M), NEW e \in Entry(M), NEW last \in [Socks -> Nat],
         NEW serial \in Nat, Proper(x, last, serial), e.so = Owner(x), e.sn = serial + 1,
         last[e.so] <= serial
  PROVE  /\ Append(x, e) \in Session(M) /\ Owner(Append(x, e)) = Owner(x)
         /\ Proper(Append(x, e), last, serial + 1)
         /\ \A y \in Session(M) :
               Sooner(y, x) /\ Proper(y, last, serial) => Sooner(y, Append(x, e))
<1>1. x \in Seq(Entry(M)) /\ 1 \in DOMAIN x /\ Len(x) \in Nat /\ DOMAIN x = 1 .. Len(x)
  BY SessionIs
<1>2. /\ Append(x, e) \in Seq(Entry(M)) /\ Len(Append(x, e)) = Len(x) + 1
      /\ \A k \in 1 .. Len(x) : Append(x, e)[k] = x[k]
      /\ Append(x, e)[Len(x) + 1] = e
  BY <1>1
<1>3. Append(x, e) \in Session(M) /\ DOMAIN Append(x, e) = 1 .. Len(x) + 1
  <2>1. Len(Append(x, e)) # 0 /\ DOMAIN Append(x, e) = 1 .. Len(x) + 1
    BY <1>1, <1>2
  <2>2. QED
    BY <1>2, <2>1, IsSession
<1> DEFINE z == Append(x, e)
           n == Len(x) + 1
<1>4. \A k \in DOMAIN z : (k \in DOMAIN x /\ z[k] = x[k] /\ k < n) \/ (k = n /\ z[k] = e)
  BY <1>1, <1>2, <1>3
<1>5. 1 \in DOMAIN z /\ z[1] = x[1] /\ n \in Nat /\ \A k \in DOMAIN x : k \in Nat /\ k < n
  BY <1>1, <1>2, <1>3
<1> HIDE DEF z, n
<1>6. Owner(z) = Owner(x)
  BY <1>5 DEF Owner
<1>7. Owner(x) \in Socks /\ \A k \in DOMAIN x : x[k].sn \in Nat
  BY SessionIs
<1>8. Proper(z, last, serial + 1)
  <2>1. \A k \in DOMAIN z : z[k].so = Owner(x) /\ last[Owner(x)] < z[k].sn /\ z[k].sn <= serial + 1
    BY <1>4, <1>7 DEF Proper
  <2>2. \A k, l \in DOMAIN z : k < l => z[k].sn < z[l].sn
    BY <1>4, <1>5, <1>7 DEF Proper
  <2>3. QED
    BY <1>6, <2>1, <2>2 DEF Proper
<1>9. ASSUME NEW y \in Session(M), Sooner(y, x), Proper(y, last, serial)
      PROVE  Sooner(y, z)
  <2>1. \A k \in DOMAIN y : y[k].sn \in Nat
    BY SessionIs
  <2>2. QED
    BY <1>4, <1>9, <2>1 DEF Sooner, Proper
<1>10. QED
  BY <1>3, <1>6, <1>8, <1>9 DEF z

\* A session of its own for the newest packet.
LEMMA SessionStarts ==
  ASSUME NEW M, NEW e \in Entry(M), NEW last \in [Socks -> Nat], NEW serial \in Nat,
         e.sn = serial + 1, last[e.so] <= serial
  PROVE  /\ <<e>> \in Session(M) /\ Owner(<<e>>) = e.so /\ Proper(<<e>>, last, serial + 1)
         /\ \A y \in Session(M) : Proper(y, last, serial) =>
               Sooner(y, <<e>>) /\ Proper(y, last, serial + 1)
<1>1. e.so \in Socks /\ last[e.so] \in Nat
  BY DEF Entry
<1>2. ASSUME NEW y \in Session(M), Proper(y, last, serial)
      PROVE  Sooner(y, <<e>>) /\ Proper(y, last, serial + 1)
  <2>1. \A k \in DOMAIN y : y[k].sn \in Nat
    BY SessionIs
  <2>2. QED
    BY <1>2, <2>1 DEF Sooner, Proper
<1>3. QED
  BY <1>1, <1>2 DEF Session, Owner, Proper

\* The place in a queue of what is at place i once a packet of session at has left.
From(q, at, i) == IF Len(q[at]) = 1 /\ i >= at THEN i + 1 ELSE i

\* A session takes the place of another: nothing that is in order gets out of order.
Follows(M, x, y) ==
  /\ Owner(x) = Owner(y)
  /\ \A z \in Session(M) : (Sooner(y, z) => Sooner(x, z)) /\ (Sooner(z, y) => Sooner(z, x))

LEMMA WithoutFirstIs ==
  ASSUME NEW M, NEW last \in [Socks -> Nat], NEW serial \in Nat,
         NEW q \in Seq(Session(M)), NEW at \in 1 .. Len(q),
         \A i \in DOMAIN q : Proper(q[i], last, serial),
         \A i \in DOMAIN q : i # at /\ Owner(q[i]) = Owner(q[at]) => Sooner(q[at], q[i])
  PROVE  /\ WithoutFirst(q, at) \in Seq(Session(M))
         /\ \A i \in DOMAIN WithoutFirst(q, at) :
               /\ i \in Nat /\ From(q, at, i) \in DOMAIN q
               /\ Follows(M, WithoutFirst(q, at)[i], q[From(q, at, i)])
               /\ Proper(WithoutFirst(q, at)[i],
                         [last EXCEPT ![Owner(q[at])] = q[at][1].sn], serial)
<1> DEFINE r == [last EXCEPT ![Owner(q[at])] = q[at][1].sn]
           w == WithoutFirst(q, at)
<1>1. /\ DOMAIN q = 1 .. Len(q) /\ Len(q) \in Nat /\ at \in DOMAIN q
      /\ \A i \in DOMAIN q : q[i] \in Session(M)
  OBVIOUS
<1>2. \A i \in DOMAIN q : i # at => Proper(q[i], r, serial)
  BY <1>1, SessionWaits
<1> HIDE DEF r
<1>3. \A x : Follows(M, x, x)
  BY DEF Follows
<1>4. CASE Len(q[at]) = 1
  <2>1. w = RemoveAt(q, at)
    BY <1>4 DEF WithoutFirst
  <2> HIDE DEF w
  <2>2. /\ w \in Seq(Session(M)) /\ Len(w) = Len(q) - 1
        /\ \A i \in 1 .. Len(q) - 1 : w[i] = IF i < at THEN q[i] ELSE q[i + 1]
    BY <2>1, RemoveAtIs
  <2>3. DOMAIN w = 1 .. Len(q) - 1
    BY <2>2
  <2>4. ASSUME NEW i \in DOMAIN w
        PROVE  /\ i \in Nat /\ From(q, at, i) \in DOMAIN q
               /\ w[i] = q[From(q, at, i)] /\ From(q, at, i) # at
    BY <1>1, <1>4, <2>2, <2>3 DEF From
  <2>5. QED
    BY <1>2, <1>3, <1>4, <2>2, <2>4 DEF w, r
<1>5. CASE Len(q[at]) # 1
  <2>1. w = [q EXCEPT ![at] = Tail(@)]
    BY <1>5 DEF WithoutFirst
  <2> HIDE DEF w
  <2>2. /\ Tail(q[at]) \in Session(M) /\ Follows(M, Tail(q[at]), q[at])
        /\ Proper(Tail(q[at]), r, serial)
    BY <1>1, <1>5, SessionTail DEF Follows, r
  <2>3. /\ w \in Seq(Session(M)) /\ Len(w) = Len(q) /\ w[at] = Tail(q[at]) /\ DOMAIN w = DOMAIN q
        /\ \A i \in DOMAIN q : i # at => w[i] = q[i]
    BY <1>1, <2>1, <2>2
  <2>4. \A i \in DOMAIN w : i \in Nat /\ From(q, at, i) = i
    BY <1>1, <1>5, <2>3 DEF From
  <2>5. QED
    BY <1>2, <1>3, <1>5, <2>2, <2>3, <2>4 DEF w, r
<1>6. QED
  BY <1>4, <1>5

LEMMA WithoutFirstLength ==
  ASSUME NEW M, NEW q \in Seq(Session(M)), NEW at \in 1 .. Len(q)
  PROVE  Len(WithoutFirst(q, at)) = IF Len(q[at]) = 1 THEN Len(q) - 1 ELSE Len(q)
<1>1. Len(RemoveAt(q, at)) = Len(q) - 1
  BY RemoveAtIs
<1>2. Len([q EXCEPT ![at] = Tail(@)]) = Len(q)
  <2>1. q \in Seq(Seq(Entry(M)))
    BY SeqMonotonic DEF Session
  <2>2. q[at] \in Session(M)
    OBVIOUS
  <2>3. Tail(q[at]) \in Seq(Entry(M))
    BY <2>2 DEF Session
  <2>4. QED
    BY <2>1, <2>3, ExceptSeq
<1>3. QED
  BY <1>1, <1>2 DEF WithoutFirst

LEMMA FollowsSooner ==
  ASSUME NEW M, NEW x \in Session(M), NEW y \in Session(M), NEW u \in Session(M),
         NEW v \in Session(M), Follows(M, u, x), Follows(M, v, y), Sooner(x, y)
  PROVE  Sooner(u, v)
BY DEF Follows

\* The first packet of if_fastq leaves.
LEMMA FastLeaves ==
  ASSUME NEW M, NEW last \in [Socks -> Nat], NEW serial \in Nat, NEW f, NEW b,
         Queued(M, f, b, last, serial), f # <<>>
  PROVE  Queued(M, WithoutFirst(f, 1), b, [last EXCEPT ![Owner(f[1])] = f[1][1].sn], serial)
<1> DEFINE r == [last EXCEPT ![Owner(f[1])] = f[1][1].sn]
           w == WithoutFirst(f, 1)
<1>1. /\ f \in Seq(Session(M)) /\ b \in Seq(Session(M)) /\ 1 \in 1 .. Len(f)
      /\ DOMAIN f = 1 .. Len(f) /\ DOMAIN b = 1 .. Len(b) /\ Len(f) \in Nat
  BY EmptySeq, LenProperties DEF Queued
<1>2. /\ \A i \in DOMAIN f : Proper(f[i], last, serial)
      /\ \A i \in DOMAIN b : Proper(b[i], last, serial)
      /\ \A i, j \in DOMAIN f : i < j /\ Owner(f[i]) = Owner(f[j]) => Sooner(f[i], f[j])
      /\ \A i \in DOMAIN f, j \in DOMAIN b : Owner(f[i]) = Owner(b[j]) => Sooner(f[i], b[j])
      /\ \A i, j \in DOMAIN b : Owner(b[i]) = Owner(b[j]) => i = j
  BY DEF Queued
<1>3. \A i \in DOMAIN f : i # 1 /\ Owner(f[i]) = Owner(f[1]) => Sooner(f[1], f[i])
  BY <1>1, <1>2
<1>4. /\ w \in Seq(Session(M))
      /\ \A i \in DOMAIN w : /\ i \in Nat /\ From(f, 1, i) \in DOMAIN f
                             /\ Follows(M, w[i], f[From(f, 1, i)]) /\ Proper(w[i], r, serial)
  BY <1>1, <1>2, <1>3, WithoutFirstIs
<1>5. \A i \in DOMAIN b : Proper(b[i], r, serial)
  <2>1. TAKE i \in DOMAIN b
  <2>2. f[1] \in Session(M) /\ b[i] \in Session(M) /\ 1 \in DOMAIN f
    BY <1>1
  <2>3. Proper(f[1], last, serial) /\ Proper(b[i], last, serial)
    BY <1>2, <2>2
  <2>4. Owner(f[1]) = Owner(b[i]) => Sooner(f[1], b[i])
    BY <1>2, <2>2
  <2>5. QED
    BY <2>2, <2>3, <2>4, SessionWaits
<1> HIDE DEF r, w
<1>6. \A i \in DOMAIN w : w[i] \in Session(M)
  BY <1>4
<1>7. \A i, j \in DOMAIN w : i < j => From(f, 1, i) < From(f, 1, j)
  BY <1>4 DEF From
<1>8. \A i, j \in DOMAIN w : i < j /\ Owner(w[i]) = Owner(w[j]) => Sooner(w[i], w[j])
  <2>1. TAKE i, j \in DOMAIN w
  <2>2. HAVE i < j /\ Owner(w[i]) = Owner(w[j])
  <2> DEFINE k == From(f, 1, i)
             l == From(f, 1, j)
  <2>3. k \in DOMAIN f /\ l \in DOMAIN f /\ k < l /\ Follows(M, w[i], f[k]) /\ Follows(M, w[j], f[l])
    BY <1>4, <1>7, <2>2
  <2> HIDE DEF k, l
  <2>4. Sooner(f[k], f[l])
    BY <1>2, <2>2, <2>3 DEF Follows
  <2>5. QED
    BY <1>1, <1>6, <2>3, <2>4, FollowsSooner
<1>9. \A i \in DOMAIN w, j \in DOMAIN b : Owner(w[i]) = Owner(b[j]) => Sooner(w[i], b[j])
  <2>1. TAKE i \in DOMAIN w, j \in DOMAIN b
  <2>2. HAVE Owner(w[i]) = Owner(b[j])
  <2> DEFINE k == From(f, 1, i)
  <2>3. k \in DOMAIN f /\ Follows(M, w[i], f[k])
    BY <1>4
  <2> HIDE DEF k
  <2>4. Sooner(f[k], b[j])
    <3>1. Owner(f[k]) = Owner(b[j])
      BY <2>2, <2>3 DEF Follows
    <3>2. QED
      BY <1>2, <2>3, <3>1
  <2>5. b[j] \in Session(M)
    BY <1>1
  <2>6. QED
    BY <2>3, <2>4, <2>5 DEF Follows
<1>10. QED
  BY <1>1, <1>2, <1>4, <1>5, <1>8, <1>9 DEF Queued, r, w

\* The first packet of a session of if_batchq leaves.
LEMMA BatchLeaves ==
  ASSUME NEW M, NEW last \in [Socks -> Nat], NEW serial \in Nat, NEW f, NEW b,
         Queued(M, f, b, last, serial), f = <<>>, NEW at \in 1 .. Len(b)
  PROVE  Queued(M, f, WithoutFirst(b, at), [last EXCEPT ![Owner(b[at])] = b[at][1].sn], serial)
<1> DEFINE r == [last EXCEPT ![Owner(b[at])] = b[at][1].sn]
           w == WithoutFirst(b, at)
<1>1. /\ f \in Seq(Session(M)) /\ b \in Seq(Session(M)) /\ DOMAIN f = {}
      /\ DOMAIN b = 1 .. Len(b) /\ Len(b) \in Nat
  BY DEF Queued
<1>2. /\ \A i \in DOMAIN b : Proper(b[i], last, serial)
      /\ \A i, j \in DOMAIN b : Owner(b[i]) = Owner(b[j]) => i = j
  BY DEF Queued
<1>3. \A i \in DOMAIN b : i # at /\ Owner(b[i]) = Owner(b[at]) => Sooner(b[at], b[i])
  BY <1>1, <1>2
<1>4. /\ w \in Seq(Session(M))
      /\ \A i \in DOMAIN w : /\ i \in Nat /\ From(b, at, i) \in DOMAIN b
                             /\ Follows(M, w[i], b[From(b, at, i)]) /\ Proper(w[i], r, serial)
  BY <1>1, <1>2, <1>3, WithoutFirstIs
<1> HIDE DEF r, w
<1>5. \A i, j \in DOMAIN w : From(b, at, i) = From(b, at, j) => i = j
  BY <1>1, <1>4 DEF From
<1>6. \A i, j \in DOMAIN w : Owner(w[i]) = Owner(w[j]) => i = j
  BY <1>2, <1>4, <1>5 DEF Follows
<1>7. QED
  BY <1>1, <1>4, <1>6 DEF Queued, r, w

LEMMA QueuedMore ==
  ASSUME NEW M, NEW N, M \subseteq N, NEW last \in [Socks -> Nat], NEW serial \in Nat,
         NEW f, NEW b, Queued(M, f, b, last, serial)
  PROVE  Queued(N, f, b, last, serial)
<1>1. Entry(M) \subseteq Entry(N)
  BY DEF Entry
<1>2. Session(M) \subseteq Session(N)
  BY <1>1, SeqMonotonic DEF Session
<1>3. f \in Seq(Session(N)) /\ b \in Seq(Session(N))
  BY <1>2, SeqMonotonic DEF Queued
<1>4. QED
  BY <1>3 DEF Queued

\* The newest packet is put behind the session its socket has in if_batchq.
LEMMA BatchGrows ==
  ASSUME NEW M, NEW last \in [Socks -> Nat], NEW serial \in Nat, NEW f, NEW b,
         Queued(M, f, b, last, serial), NEW e \in Entry(M), e.sn = serial + 1,
         last[e.so] <= serial, NEW at \in DOMAIN b, Owner(b[at]) = e.so
  PROVE  Queued(M, f, [b EXCEPT ![at] = Append(@, e)], last, serial + 1)
<1> DEFINE c == [b EXCEPT ![at] = Append(@, e)]
           x == Append(b[at], e)
<1>1. /\ f \in Seq(Session(M)) /\ b \in Seq(Session(M))
      /\ \A i \in DOMAIN f : f[i] \in Session(M)
      /\ \A i \in DOMAIN b : b[i] \in Session(M)
  BY DEF Queued
<1>2. /\ \A i \in DOMAIN f : Proper(f[i], last, serial)
      /\ \A i \in DOMAIN b : Proper(b[i], last, serial)
      /\ \A i, j \in DOMAIN f : i < j /\ Owner(f[i]) = Owner(f[j]) => Sooner(f[i], f[j])
      /\ \A i \in DOMAIN f, j \in DOMAIN b : Owner(f[i]) = Owner(b[j]) => Sooner(f[i], b[j])
      /\ \A i, j \in DOMAIN b : Owner(b[i]) = Owner(b[j]) => i = j
  BY DEF Queued
<1>3. /\ x \in Session(M) /\ Owner(x) = Owner(b[at]) /\ Proper(x, last, serial + 1)
      /\ \A y \in Session(M) : Sooner(y, b[at]) /\ Proper(y, last, serial) => Sooner(y, x)
  BY <1>1, <1>2, SessionGrows
<1>4. \A y \in Session(M) : Proper(y, last, serial) => Proper(y, last, serial + 1)
  BY SessionStarts
<1> HIDE DEF x
<1>5. /\ c \in Seq(Session(M)) /\ DOMAIN c = DOMAIN b /\ c[at] = x
      /\ \A i \in DOMAIN b : i # at => c[i] = b[i]
  BY <1>1, <1>3 DEF x
<1> HIDE DEF c
<1>6. \A i \in DOMAIN c : Owner(c[i]) = Owner(b[i]) /\ Proper(c[i], last, serial + 1)
  BY <1>1, <1>2, <1>3, <1>4, <1>5
<1>7. \A i \in DOMAIN f, j \in DOMAIN c : Owner(f[i]) = Owner(c[j]) => Sooner(f[i], c[j])
  BY <1>1, <1>2, <1>3, <1>5
<1>8. \A i, j \in DOMAIN c : Owner(c[i]) = Owner(c[j]) => i = j
  BY <1>2, <1>5, <1>6
<1>9. \A i \in DOMAIN f : Proper(f[i], last, serial + 1)
  BY <1>1, <1>2, <1>4
<1>10. QED
  BY <1>1, <1>2, <1>5, <1>6, <1>7, <1>8, <1>9 DEF Queued, c

\* It starts a session in if_batchq; its socket has none there.
LEMMA BatchStarts ==
  ASSUME NEW M, NEW last \in [Socks -> Nat], NEW serial \in Nat, NEW f, NEW b,
         Queued(M, f, b, last, serial), NEW e \in Entry(M), e.sn = serial + 1,
         last[e.so] <= serial, \A i \in DOMAIN b : Owner(b[i]) # e.so
  PROVE  Queued(M, f, Append(b, <<e>>), last, serial + 1)
<1> DEFINE c == Append(b, <<e>>)
           x == <<e>>
           n == Len(b) + 1
<1>1. /\ f \in Seq(Session(M)) /\ b \in Seq(Session(M))
      /\ \A i \in DOMAIN f : f[i] \in Session(M)
      /\ \A i \in DOMAIN b : b[i] \in Session(M)
  BY DEF Queued
<1>2. /\ \A i \in DOMAIN f : Proper(f[i], last, serial)
      /\ \A i \in DOMAIN b : Proper(b[i], last, serial)
      /\ \A i, j \in DOMAIN f : i < j /\ Owner(f[i]) = Owner(f[j]) => Sooner(f[i], f[j])
      /\ \A i \in DOMAIN f, j \in DOMAIN b : Owner(f[i]) = Owner(b[j]) => Sooner(f[i], b[j])
      /\ \A i, j \in DOMAIN b : Owner(b[i]) = Owner(b[j]) => i = j
  BY DEF Queued
<1>3. /\ x \in Session(M) /\ Owner(x) = e.so /\ Proper(x, last, serial + 1)
      /\ \A y \in Session(M) : Proper(y, last, serial) =>
            Sooner(y, x) /\ Proper(y, last, serial + 1)
  BY SessionStarts
<1> HIDE DEF x
<1>4. /\ c \in Seq(Session(M)) /\ c[n] = x
      /\ \A i \in DOMAIN c : i = n \/ (i \in DOMAIN b /\ c[i] = b[i])
  <2>1. c = Append(b, x) /\ Len(b) \in Nat /\ DOMAIN b = 1 .. Len(b)
    BY <1>1 DEF x
  <2>2. c \in Seq(Session(M)) /\ DOMAIN c = 1 .. n /\ c[n] = x /\ \A i \in 1 .. Len(b) : c[i] = b[i]
    <3> DEFINE X == Session(M)
    <3>1. x \in X /\ b \in Seq(X)
      BY <1>1, <1>3
    <3> HIDE DEF X, c
    <3>2. /\ c \in Seq(X) /\ Len(c) = Len(b) + 1 /\ c[Len(b) + 1] = x
          /\ \A i \in 1 .. Len(b) : c[i] = b[i]
      BY <2>1, <3>1, AppendProperties
    <3>3. DOMAIN c = 1 .. n
      BY <3>2
    <3>4. QED
      BY <3>2, <3>3 DEF X
  <2>3. QED
    BY <2>1, <2>2
<1> HIDE DEF c, n
<1>5. \A i \in DOMAIN c : Proper(c[i], last, serial + 1)
  BY <1>1, <1>2, <1>3, <1>4
<1>6. \A i \in DOMAIN f, j \in DOMAIN c : Owner(f[i]) = Owner(c[j]) => Sooner(f[i], c[j])
  BY <1>1, <1>2, <1>3, <1>4
<1>7. \A i, j \in DOMAIN c : Owner(c[i]) = Owner(c[j]) => i = j
  BY <1>2, <1>3, <1>4
<1>8. \A i \in DOMAIN f : Proper(f[i], last, serial + 1)
  BY <1>1, <1>2, <1>3
<1>9. QED
  BY <1>1, <1>2, <1>4, <1>5, <1>6, <1>7, <1>8 DEF Queued, c

\* It is put behind the last session of if_fastq, one of its socket, which has none in
\* if_batchq.
LEMMA FastGrows ==
  ASSUME NEW M, NEW last \in [Socks -> Nat], NEW serial \in Nat, NEW f, NEW b,
         Queued(M, f, b, last, serial), NEW e \in Entry(M), e.sn = serial + 1,
         last[e.so] <= serial, \A i \in DOMAIN b : Owner(b[i]) # e.so,
         NEW at \in DOMAIN f, at = Len(f), Owner(f[at]) = e.so
  PROVE  Queued(M, [f EXCEPT ![at] = Append(@, e)], b, last, serial + 1)
<1> DEFINE c == [f EXCEPT ![at] = Append(@, e)]
           x == Append(f[at], e)
<1>1. /\ f \in Seq(Session(M)) /\ b \in Seq(Session(M))
      /\ \A i \in DOMAIN f : f[i] \in Session(M)
      /\ \A i \in DOMAIN b : b[i] \in Session(M)
  BY DEF Queued
<1>2. /\ \A i \in DOMAIN f : Proper(f[i], last, serial)
      /\ \A i \in DOMAIN b : Proper(b[i], last, serial)
      /\ \A i, j \in DOMAIN f : i < j /\ Owner(f[i]) = Owner(f[j]) => Sooner(f[i], f[j])
      /\ \A i \in DOMAIN f, j \in DOMAIN b : Owner(f[i]) = Owner(b[j]) => Sooner(f[i], b[j])
      /\ \A i, j \in DOMAIN b : Owner(b[i]) = Owner(b[j]) => i = j
  BY DEF Queued
<1>3. /\ x \in Session(M) /\ Owner(x) = Owner(f[at]) /\ Proper(x, last, serial + 1)
      /\ \A y \in Session(M) : Sooner(y, f[at]) /\ Proper(y, last, serial) => Sooner(y, x)
  BY <1>1, <1>2, SessionGrows
<1>4. \A y \in Session(M) : Proper(y, last, serial) => Proper(y, last, serial + 1)
  BY SessionStarts
<1> HIDE DEF x
<1>5. /\ c \in Seq(Session(M)) /\ DOMAIN c = DOMAIN f /\ c[at] = x
      /\ \A i \in DOMAIN f : i # at => c[i] = f[i]
  BY <1>1, <1>3 DEF x
<1>6. \A i \in DOMAIN f : ~(at < i)
  BY <1>1
<1> HIDE DEF c
<1>7. \A i \in DOMAIN c : Owner(c[i]) = Owner(f[i]) /\ Proper(c[i], last, serial + 1)
  BY <1>1, <1>2, <1>3, <1>4, <1>5
<1>8. \A i, j \in DOMAIN c : i < j /\ Owner(c[i]) = Owner(c[j]) => Sooner(c[i], c[j])
  <2>1. TAKE i, j \in DOMAIN c
  <2>2. HAVE i < j /\ Owner(c[i]) = Owner(c[j])
  <2>3. i # at /\ c[i] = f[i] /\ f[i] \in Session(M) /\ Proper(f[i], last, serial)
    BY <1>1, <1>2, <1>5, <1>6, <2>2
  <2>4. Sooner(f[i], f[j])
    BY <1>2, <1>5, <1>7, <2>2
  <2>5. QED
    BY <1>3, <1>5, <2>3, <2>4
<1>9. \A i \in DOMAIN c, j \in DOMAIN b : Owner(c[i]) = Owner(b[j]) => Sooner(c[i], b[j])
  BY <1>2, <1>3, <1>5
<1>10. \A i \in DOMAIN b : Proper(b[i], last, serial + 1)
  BY <1>1, <1>2, <1>4
<1>11. QED
  BY <1>1, <1>2, <1>5, <1>7, <1>8, <1>9, <1>10 DEF Queued, c

\* It starts a session in if_fastq.
LEMMA FastStarts ==
  ASSUME NEW M, NEW last \in [Socks -> Nat], NEW serial \in Nat, NEW f, NEW b,
         Queued(M, f, b, last, serial), NEW e \in Entry(M), e.sn = serial + 1,
         last[e.so] <= serial, \A i \in DOMAIN b : Owner(b[i]) # e.so
  PROVE  Queued(M, Append(f, <<e>>), b, last, serial + 1)
<1> DEFINE c == Append(f, <<e>>)
           x == <<e>>
           n == Len(f) + 1
<1>1. /\ f \in Seq(Session(M)) /\ b \in Seq(Session(M))
      /\ \A i \in DOMAIN f : f[i] \in Session(M)
      /\ \A i \in DOMAIN b : b[i] \in Session(M)
  BY DEF Queued
<1>2. /\ \A i \in DOMAIN f : Proper(f[i], last, serial)
      /\ \A i \in DOMAIN b : Proper(b[i], last, serial)
      /\ \A i, j \in DOMAIN f : i < j /\ Owner(f[i]) = Owner(f[j]) => Sooner(f[i], f[j])
      /\ \A i \in DOMAIN f, j \in DOMAIN b : Owner(f[i]) = Owner(b[j]) => Sooner(f[i], b[j])
      /\ \A i, j \in DOMAIN b : Owner(b[i]) = Owner(b[j]) => i = j
  BY DEF Queued
<1>3. /\ x \in Session(M) /\ Owner(x) = e.so /\ Proper(x, last, serial + 1)
      /\ \A y \in Session(M) : Proper(y, last, serial) =>
            Sooner(y, x) /\ Proper(y, last, serial + 1)
  BY SessionStarts
<1> HIDE DEF x
<1>4. /\ c \in Seq(Session(M)) /\ c[n] = x
      /\ \A i \in DOMAIN c : i = n \/ (i \in DOMAIN f /\ c[i] = f[i])
      /\ \A i \in DOMAIN c : ~(n < i)
  <2>1. c = Append(f, x) /\ Len(f) \in Nat /\ DOMAIN f = 1 .. Len(f)
    BY <1>1 DEF x
  <2>2. c \in Seq(Session(M)) /\ DOMAIN c = 1 .. n /\ c[n] = x /\ \A i \in 1 .. Len(f) : c[i] = f[i]
    BY <1>1, <1>3, <2>1
  <2>3. QED
    BY <2>1, <2>2
<1> HIDE DEF c, n
<1>5. \A i \in DOMAIN c : Proper(c[i], last, serial + 1)
  BY <1>1, <1>2, <1>3, <1>4
<1>6. \A i, j \in DOMAIN c : i < j /\ Owner(c[i]) = Owner(c[j]) => Sooner(c[i], c[j])
  <2>1. TAKE i, j \in DOMAIN c
  <2>2. HAVE i < j /\ Owner(c[i]) = Owner(c[j])
  <2>3. i # n /\ i \in DOMAIN f /\ c[i] = f[i] /\ f[i] \in Session(M) /\ Proper(f[i], last, serial)
    BY <1>1, <1>2, <1>4, <2>2
  <2>4. QED
    BY <1>2, <1>3, <1>4, <2>2, <2>3
<1>7. \A i \in DOMAIN c, j \in DOMAIN b : Owner(c[i]) = Owner(b[j]) => Sooner(c[i], b[j])
  BY <1>2, <1>3, <1>4
<1>8. \A i \in DOMAIN b : Proper(b[i], last, serial + 1)
  BY <1>1, <1>2, <1>3
<1>9. QED
  BY <1>1, <1>2, <1>4, <1>5, <1>6, <1>7, <1>8 DEF Queued, c

\* A greedy session whose last packet is the newest is moved from if_fastq.
LEMMA FastMoves ==
  ASSUME NEW M, NEW last \in [Socks -> Nat], NEW serial \in Nat, NEW f, NEW b,
         Queued(M, f, b, last, serial), NEW at \in DOMAIN f, Last(f[at]).sn = serial
  PROVE  Queued(M, RemoveAt(f, at), <<f[at]>> \o b, last, serial)
<1> DEFINE g == RemoveAt(f, at)
           x == f[at]
           c == <<f[at]>> \o b
           Old(i) == IF i < at THEN i ELSE i + 1
<1>1. /\ f \in Seq(Session(M)) /\ b \in Seq(Session(M)) /\ x \in Session(M)
      /\ DOMAIN f = 1 .. Len(f) /\ Len(f) \in Nat
      /\ \A i \in DOMAIN f : f[i] \in Session(M)
      /\ \A i \in DOMAIN b : b[i] \in Session(M)
  BY DEF Queued
<1>2. /\ \A i \in DOMAIN f : Proper(f[i], last, serial)
      /\ \A i \in DOMAIN b : Proper(b[i], last, serial)
      /\ \A i, j \in DOMAIN f : i < j /\ Owner(f[i]) = Owner(f[j]) => Sooner(f[i], f[j])
      /\ \A i \in DOMAIN f, j \in DOMAIN b : Owner(f[i]) = Owner(b[j]) => Sooner(f[i], b[j])
      /\ \A i, j \in DOMAIN b : Owner(b[i]) = Owner(b[j]) => i = j
  BY DEF Queued
<1>3. \A y \in Session(M) : Proper(y, last, serial) => ~Sooner(x, y)
  <2>1. Len(x) \in DOMAIN x /\ x[Len(x)].sn = serial
    BY <1>1, SessionIs DEF Last
  <2>2. \A y \in Session(M) : 1 \in DOMAIN y /\ y[1].sn \in Nat
    BY SessionIs
  <2>3. QED
    BY <2>1, <2>2 DEF Sooner, Proper
<1>4. /\ g \in Seq(Session(M)) /\ DOMAIN g = 1 .. Len(f) - 1
      /\ \A i \in DOMAIN g : g[i] = f[Old(i)] /\ Old(i) \in DOMAIN f /\ Old(i) # at
      /\ \A i, j \in DOMAIN g : i < j => Old(i) < Old(j)
  <2>1. /\ g \in Seq(Session(M)) /\ Len(g) = Len(f) - 1
        /\ \A i \in 1 .. Len(f) - 1 : g[i] = IF i < at THEN f[i] ELSE f[i + 1]
    BY <1>1, RemoveAtIs
  <2> HIDE DEF g
  <2>2. DOMAIN g = 1 .. Len(f) - 1
    BY <1>1, <2>1
  <2>3. QED
    BY <1>1, <2>1, <2>2
<1>5. /\ c \in Seq(Session(M)) /\ \A i \in DOMAIN c : i \in Nat
      /\ \A i \in DOMAIN c : (i = 1 /\ c[i] = x) \/ (i # 1 /\ i - 1 \in DOMAIN b /\ c[i] = b[i - 1])
  <2>1. <<x>> \in Seq(Session(M)) /\ Len(<<x>>) = 1 /\ <<x>>[1] = x
    BY <1>1
  <2>2. /\ c \in Seq(Session(M)) /\ Len(c) = 1 + Len(b) /\ Len(b) \in Nat
        /\ DOMAIN c = 1 .. Len(b) + 1 /\ DOMAIN b = 1 .. Len(b)
    BY <1>1, <2>1
  <2>3. c[1] = x /\ \A i \in 2 .. Len(b) + 1 : c[i] = b[i - 1]
    BY <1>1, <2>1, <2>2
  <2> HIDE DEF c
  <2>4. QED
    BY <2>2, <2>3
<1> HIDE DEF c, g, x
<1>6. \A i, j \in DOMAIN g : i < j /\ Owner(g[i]) = Owner(g[j]) => Sooner(g[i], g[j])
  BY <1>2, <1>4
<1>7. \A i \in DOMAIN g : Owner(g[i]) = Owner(x) => Sooner(g[i], x)
  <2>1. TAKE i \in DOMAIN g
  <2>2. HAVE Owner(g[i]) = Owner(x)
  <2> DEFINE k == Old(i)
  <2>3. k \in DOMAIN f /\ g[i] = f[k] /\ k # at /\ f[k] \in Session(M) /\ Proper(f[k], last, serial)
    BY <1>1, <1>2, <1>4
  <2> HIDE DEF k
  <2>4. at < k => Sooner(x, f[k])
    BY <1>2, <2>2, <2>3 DEF x
  <2>5. k < at
    BY <1>1, <1>3, <2>3, <2>4
  <2>6. QED
    BY <1>2, <2>2, <2>3, <2>5 DEF x
<1>8. \A i \in DOMAIN g, j \in DOMAIN c : Owner(g[i]) = Owner(c[j]) => Sooner(g[i], c[j])
  <2>1. TAKE i \in DOMAIN g, j \in DOMAIN c
  <2>2. HAVE Owner(g[i]) = Owner(c[j])
  <2>3. CASE j = 1
    BY <1>5, <1>7, <2>2, <2>3
  <2>4. CASE j # 1
    BY <1>2, <1>4, <1>5, <2>2, <2>4
  <2>5. QED
    BY <2>3, <2>4
<1>9. \A i, j \in DOMAIN c : Owner(c[i]) = Owner(c[j]) => i = j
  <2>1. TAKE i, j \in DOMAIN c
  <2>2. HAVE Owner(c[i]) = Owner(c[j])
  <2>3. i # 1 /\ j # 1 => i - 1 = j - 1
    BY <1>2, <1>5, <2>2
  <2>4. (i = 1) <=> (j = 1)
    <3>1. \A k \in DOMAIN b : Owner(b[k]) # Owner(x)
      BY <1>1, <1>2, <1>3 DEF x
    <3>2. QED
      BY <1>5, <2>2, <3>1
  <2>5. QED
    BY <1>5, <2>3, <2>4
<1>10. \A i \in DOMAIN g : Proper(g[i], last, serial)
  BY <1>2, <1>4
<1>11. \A i \in DOMAIN c : Proper(c[i], last, serial)
  BY <1>2, <1>5 DEF x
<1>12. QED
  BY <1>4, <1>5, <1>6, <1>8, <1>9, <1>10, <1>11 DEF Queued, c, g

Fronted(b, at) == <<b[at]>> \o RemoveAt(b, at)

LEMMA FrontedLength ==
  ASSUME NEW X, NEW b \in Seq(X), NEW at \in 1 .. Len(b)
  PROVE  Fronted(b, at) \in Seq(X) /\ Len(Fronted(b, at)) = Len(b)
<1> DEFINE r == RemoveAt(b, at)
           x == b[at]
<1>1. Fronted(b, at) = <<x>> \o r
  BY DEF Fronted
<1>2. r \in Seq(X) /\ Len(r) = Len(b) - 1 /\ Len(b) \in Nat
  BY RemoveAtIs
<1>3. <<x>> \in Seq(X) /\ Len(<<x>>) = 1
  OBVIOUS
<1> HIDE DEF r
<1>4. <<x>> \o r \in Seq(X) /\ Len(<<x>> \o r) = Len(<<x>>) + Len(r)
  BY <1>2, <1>3
<1>5. QED
  BY <1>1, <1>2, <1>3, <1>4

\* One of if_batchq is moved to its front.
LEMMA BatchMoves ==
  ASSUME NEW M, NEW last \in [Socks -> Nat], NEW serial \in Nat, NEW f, NEW b,
         Queued(M, f, b, last, serial), NEW at \in DOMAIN b
  PROVE  Queued(M, f, Fronted(b, at), last, serial)
<1> DEFINE x == b[at]
           r == RemoveAt(b, at)
           c == Fronted(b, at)
           Old(i) == IF i = 1 THEN at ELSE IF i - 1 < at THEN i - 1 ELSE i
<1>1. /\ f \in Seq(Session(M)) /\ b \in Seq(Session(M)) /\ x \in Session(M)
      /\ DOMAIN b = 1 .. Len(b) /\ Len(b) \in Nat
  BY DEF Queued
<1>2. /\ \A i \in DOMAIN f : Proper(f[i], last, serial)
      /\ \A i \in DOMAIN b : Proper(b[i], last, serial)
      /\ \A i, j \in DOMAIN f : i < j /\ Owner(f[i]) = Owner(f[j]) => Sooner(f[i], f[j])
      /\ \A i \in DOMAIN f, j \in DOMAIN b : Owner(f[i]) = Owner(b[j]) => Sooner(f[i], b[j])
      /\ \A i, j \in DOMAIN b : Owner(b[i]) = Owner(b[j]) => i = j
  BY DEF Queued
<1>3. /\ r \in Seq(Session(M)) /\ Len(r) = Len(b) - 1
      /\ \A i \in 1 .. Len(b) - 1 : r[i] = IF i < at THEN b[i] ELSE b[i + 1]
  BY <1>1, RemoveAtIs
<1>4. c = <<x>> \o r
  BY DEF Fronted
<1> HIDE DEF r, c, x
<1>5. c \in Seq(Session(M)) /\ Len(c) = Len(b) /\ DOMAIN c = 1 .. Len(b)
  <2>1. c \in Seq(Session(M)) /\ Len(c) = Len(b)
    BY <1>1, FrontedLength DEF c
  <2>2. QED
    BY <2>1
<1>6. c[1] = x /\ \A i \in 2 .. Len(b) : c[i] = r[i - 1]
  <2>1. <<x>> \in Seq(Session(M)) /\ Len(<<x>>) = 1 /\ <<x>>[1] = x
    BY <1>1
  <2>2. (<<x>> \o r)[1] = x /\ \A i \in 2 .. Len(b) : (<<x>> \o r)[i] = r[i - 1]
    BY <1>1, <1>3, <2>1
  <2>3. QED
    BY <1>4, <2>2
<1>7. \A i \in DOMAIN c : Old(i) \in DOMAIN b /\ c[i] = b[Old(i)]
  <2>1. TAKE i \in DOMAIN c
  <2>2. CASE i = 1
    BY <1>1, <1>6, <2>2 DEF x
  <2>3. CASE i # 1
    <3>1. i \in 2 .. Len(b) /\ i - 1 \in 1 .. Len(b) - 1
      BY <1>1, <1>5, <2>3
    <3>2. QED
      BY <1>1, <1>3, <1>6, <2>3, <3>1
  <2>4. QED
    BY <2>2, <2>3
<1>8. \A i, j \in DOMAIN c : Old(i) = Old(j) => i = j
  BY <1>1, <1>5
<1> HIDE DEF Old
<1>9. QED
  BY <1>1, <1>2, <1>5, <1>7, <1>8 DEF Queued, c, r, x

-----------------------------------------------------------------------------
(* What goes out changes the queues and little else.                        *)

KeptFields == {"ipq", "udb", "udpLast", "slow", "fds", "mac", "sent", "leases", "acked", "lost"}
KeptOfSocket ==
  {"laddr", "lport", "faddr", "fport", "expire", "con", "type", "lowdelay", "m", "inq", "fd",
   "shifted"}

SameSocket(k, l) == DOMAIN l = DOMAIN k /\ \A x \in KeptOfSocket : l[x] = k[x]
SameSocks(w, t) ==
  /\ DOMAIN t.sock = DOMAIN w.sock
  /\ \A so \in Sockets : SameSocket(w.sock[so], t.sock[so])
  /\ \A so \in Sockets : w.sock[so] = Free => t.sock[so] = Free

Beside(w, t) ==
  /\ DOMAIN t = DOMAIN w
  /\ \A x \in KeptFields : t[x] = w[x]
  /\ SameSocks(w, t)

LEMMA BesideItself ==
  ASSUME NEW w
  PROVE  Beside(w, w)
BY DEF Beside, SameSocks, SameSocket

LEMMA BesideBoth ==
  ASSUME NEW w, NEW t, NEW u, Beside(w, t), Beside(t, u)
  PROVE  Beside(w, u)
<1>1. SameSocks(w, u)
  BY DEF Beside, SameSocks, SameSocket
<1>2. QED
  BY <1>1 DEF Beside

\* virtio_net_write_packet.
LEMMA WritePacket ==
  ASSUME NEW M, NEW w, QueuesOK(M, w), NEW frame, frame.p = "ip" => frame.m \in M
  PROVE  QueuesOK(M, write_packet(w, frame)) /\ Beside(w, write_packet(w, frame))
<1> DEFINE t == [w EXCEPT !.rx = @ - 1, !.got = @ \cup {frame}]
<1>1. CASE ~can_write_packet(w)
  BY <1>1, BesideItself DEF write_packet
<1>2. CASE can_write_packet(w)
  <2>1. write_packet(w, frame) = t
    BY <1>2 DEF write_packet
  <2>2. Fields \subseteq DOMAIN w /\ w.rx \in Nat /\ w.rx > 0
    BY <1>2 DEF QueuesOK, can_write_packet
  <2>3. /\ DOMAIN t = DOMAIN w /\ t.rx = w.rx - 1 /\ t.got = w.got \cup {frame}
        /\ \A x \in Fields \ {"rx", "got"} : t[x] = w[x]
    BY <2>2 DEF Fields
  <2> HIDE DEF t
  <2>4. /\ t.serial = w.serial /\ t.last = w.last /\ t.nextM = w.nextM /\ t.fastq = w.fastq
        /\ t.batchq = w.batchq /\ t.sock = w.sock
    BY <2>3 DEF Fields
  <2>5. Beside(w, t)
    BY <2>3, <2>4 DEF Beside, SameSocks, SameSocket, Fields, KeptFields
  <2>6. \A g \in t.got : g.p = "ip" => g.m \in M
    BY <2>3 DEF QueuesOK
  <2>7. t.rx \in Nat
    BY <2>2, <2>3
  <2>8. QueuesOK(M, t)
    BY <2>3, <2>4, <2>6, <2>7 DEF QueuesOK
  <2>9. QED
    BY <2>1, <2>5, <2>8
<1>3. QED
  BY <1>1, <1>2

LEMMA IfEncap ==
  ASSUME NEW M, NEW w, QueuesOK(M, w), NEW m \in M
  PROVE  QueuesOK(M, if_encap(w, m)) /\ Beside(w, if_encap(w, m))
<1> DEFINE t == [w EXCEPT !.ip = m.dst]
           arp == [p |-> "arp", op |-> "request", tip |-> m.dst]
           frame == [m |-> m, to |-> w.mac, p |-> "ip"]
<1>1. CASE w.mac = NoMac
  <2>1. if_encap(w, m) = write_packet(t, arp)
    BY <1>1 DEF if_encap
  <2>2. Fields \subseteq DOMAIN w
    BY DEF QueuesOK
  <2>3. DOMAIN t = DOMAIN w /\ \A x \in Fields \ {"ip"} : t[x] = w[x]
    BY <2>2 DEF Fields
  <2>4. arp.p # "ip"
    OBVIOUS
  <2> HIDE DEF t, arp
  <2>5. Beside(w, t)
    BY <2>3 DEF Beside, SameSocks, SameSocket, Fields, KeptFields
  <2>6. QueuesOK(M, t)
    BY <2>3 DEF QueuesOK, Fields
  <2>7. QED
    BY <2>1, <2>4, <2>5, <2>6, WritePacket, BesideBoth
<1>2. CASE w.mac # NoMac
  <2>1. if_encap(w, m) = write_packet(w, frame) /\ frame.m = m
    BY <1>2 DEF if_encap
  <2> HIDE DEF frame
  <2>2. QED
    BY <2>1, WritePacket
<1>3. QED
  BY <1>1, <1>2

\* so_queued and so_nqueued.
LEMMA CountSentIs ==
  ASSUME NEW w, NEW so \in Socks, Fields \subseteq DOMAIN w, DOMAIN w.sock = Sockets
  PROVE  /\ DOMAIN CountSent(w, so) = DOMAIN w
         /\ \A x \in Fields \ {"sock"} : CountSent(w, so)[x] = w[x]
         /\ SameSocks(w, CountSent(w, so))
<1> DEFINE t == CountSent(w, so)
<1>1. CASE ~Live(w, so)
  BY <1>1 DEF CountSent, SameSocks, SameSocket
<1>2. CASE Live(w, so)
  <2> DEFINE left == w.sock[so].queued - 1
             k == [w.sock[so] EXCEPT !.queued = left]
             l == [k EXCEPT !.nqueued = IF left = 0 THEN 0 ELSE @]
  <2>1. t = [w EXCEPT !.sock = [[@ EXCEPT ![so] = k] EXCEPT ![so] = l]]
    BY <1>2 DEF CountSent
  <2>2. w.sock[so] # Free /\ "sock" \in DOMAIN w /\ so \in DOMAIN w.sock
    BY <1>2 DEF Live, Fields, Socks
  <2>3. SameSocket(w.sock[so], l)
    BY DEF SameSocket, KeptOfSocket
  <2> HIDE DEF k, l
  <2>4. t.sock = [[w.sock EXCEPT ![so] = k] EXCEPT ![so] = l]
    BY <2>1, <2>2
  <2>5. DOMAIN t = DOMAIN w /\ \A x \in Fields \ {"sock"} : t[x] = w[x]
    BY <2>1
  <2>6. DOMAIN t.sock = DOMAIN w.sock /\ \A a \in DOMAIN w.sock : a # so => t.sock[a] = w.sock[a]
    BY <2>4
  <2>7. t.sock[so] = l
    BY <2>2, <2>4
  <2> HIDE DEF t
  <2>8. \A a : SameSocket(w.sock[a], w.sock[a])
    BY DEF SameSocket
  <2>9. SameSocks(w, t)
    BY <2>2, <2>3, <2>6, <2>7, <2>8 DEF SameSocks
  <2>10. QED
    BY <2>5, <2>9 DEF t
<1>3. QED
  BY <1>1, <1>2

\* if_start sends one packet.
LEMMA SendOneKeeps ==
  ASSUME NEW M, NEW w, QueuesOK(M, w), w.fastq \o w.batchq # <<>>
  PROVE  QueuesOK(M, SendOne(w)) /\ Beside(w, SendOne(w))
<1> DEFINE f == w.fastq
           b == w.batchq
           pick == Picked(w)
           x == IF pick.q = "fast" THEN f[1] ELSE b[pick.at]
           e == x[1]
           t == Unqueued(w, pick)
           u == CountSent(t, e.so)
           v == [u EXCEPT !.last[e.so] = e.sn]
           r == [w.last EXCEPT ![Owner(x)] = x[1].sn]
<1>1. /\ Fields \subseteq DOMAIN w /\ DOMAIN w.sock = Sockets
      /\ w.serial \in Nat /\ w.rx \in Nat /\ w.last \in [Socks -> Nat]
      /\ \A so \in Socks : w.last[so] <= w.serial
      /\ w.nextM \in 0 .. Len(b) /\ Queued(M, f, b, w.last, w.serial)
      /\ \A g \in w.got : g.p = "ip" => g.m \in M
      /\ f \in Seq(Session(M)) /\ b \in Seq(Session(M))
  BY DEF QueuesOK, Queued
<1>2. /\ x \in Session(M) /\ Proper(x, w.last, w.serial) /\ DOMAIN t = DOMAIN w
      /\ \A y \in Fields \ {"fastq", "batchq", "nextM"} : t[y] = w[y]
      /\ Queued(M, t.fastq, t.batchq, r, w.serial) /\ t.nextM \in 0 .. Len(t.batchq)
  <2>1. CASE f # <<>>
    <3>1. pick = [q |-> "fast", at |-> 1] /\ x = f[1]
      BY <2>1 DEF Picked
    <3>2. t = [w EXCEPT !.fastq = WithoutFirst(@, 1)]
      BY <3>1 DEF Unqueued
    <3>3. /\ DOMAIN t = DOMAIN w /\ \A y \in Fields \ {"fastq"} : t[y] = w[y]
          /\ t.fastq = WithoutFirst(f, 1)
      BY <1>1, <3>2 DEF Fields
    <3>4. 1 \in DOMAIN f
      BY <1>1, <2>1, EmptySeq, LenProperties
    <3>5. x \in Session(M) /\ Proper(x, w.last, w.serial)
      BY <1>1, <3>1, <3>4 DEF Queued
    <3>6. Queued(M, WithoutFirst(f, 1), b, [w.last EXCEPT ![Owner(f[1])] = f[1][1].sn], w.serial)
      BY <1>1, <2>1, FastLeaves
    <3> HIDE DEF t, x
    <3>7. t.batchq = b /\ t.nextM = w.nextM
      BY <3>3 DEF Fields
    <3>8. QED
      BY <1>1, <3>1, <3>3, <3>5, <3>6, <3>7
  <2>2. CASE f = <<>>
    <3> DEFINE at == pick.at
    <3>1. b # <<>>
      BY <1>1, <2>2
    <3>2. Len(b) \in Nat /\ Len(b) >= 1 /\ DOMAIN b = 1 .. Len(b)
      BY <1>1, <3>1, EmptySeq, LenProperties
    <3>3. pick.q = "batch" /\ at = IF w.nextM = 0 THEN 1 ELSE w.nextM
      BY <2>2 DEF Picked
    <3>4. at \in DOMAIN b /\ x = b[at]
      BY <1>1, <3>2, <3>3
    <3>5. t = [w EXCEPT !.batchq = WithoutFirst(@, at), !.nextM = NextAfter(w, at)]
      BY <3>3 DEF Unqueued
    <3>6. /\ DOMAIN t = DOMAIN w /\ \A y \in Fields \ {"batchq", "nextM"} : t[y] = w[y]
          /\ t.batchq = WithoutFirst(b, at) /\ t.nextM = NextAfter(w, at)
      BY <1>1, <3>5 DEF Fields
    <3> HIDE DEF at, x, t
    <3>7. x \in Session(M) /\ Proper(x, w.last, w.serial)
      BY <1>1, <3>4 DEF Queued
    <3>8. Queued(M, f, WithoutFirst(b, at), r, w.serial)
      BY <1>1, <2>2, <3>2, <3>4, BatchLeaves
    <3>9. Len(WithoutFirst(b, at)) = IF Len(b[at]) = 1 THEN Len(b) - 1 ELSE Len(b)
      <4>1. at \in 1 .. Len(b) /\ b \in Seq(Session(M))
        BY <1>1, <3>2, <3>4
      <4>2. QED
        BY <4>1, WithoutFirstLength
    <3>10. NextAfter(w, at) \in 0 .. Len(WithoutFirst(b, at))
      BY <3>2, <3>4, <3>9 DEF NextAfter
    <3>11. t.fastq = f
      BY <3>6 DEF Fields
    <3>12. QED
      BY <3>6, <3>7, <3>8, <3>10, <3>11
  <2>3. QED
    BY <2>1, <2>2
<1>3. e = Head(x) /\ SendOne(w) = if_encap(v, e.m)
  <2>1. x \in Seq(Entry(M)) /\ x # <<>>
    BY <1>2 DEF Session
  <2>2. e = Head(x)
    BY <2>1
  <2>3. QED
    BY <2>2 DEF SendOne
<1> HIDE DEF pick, x, t
<1>4. e.so = Owner(x) /\ e.so \in Socks /\ e.m \in M /\ e.sn \in Nat /\ e.sn <= w.serial
  BY <1>2, SessionIs DEF Owner, Proper
<1>5. Fields \subseteq DOMAIN t /\ t.sock = w.sock
  BY <1>1, <1>2 DEF Fields
<1>6. /\ DOMAIN u = DOMAIN t /\ \A y \in Fields \ {"sock"} : u[y] = t[y]
      /\ SameSocks(t, u)
  BY <1>1, <1>4, <1>5, CountSentIs
<1> HIDE DEF u, e, r
<1>7. /\ DOMAIN v = DOMAIN u /\ \A y \in Fields \ {"last"} : v[y] = u[y]
      /\ v.last = [u.last EXCEPT ![e.so] = e.sn]
  BY <1>2, <1>5, <1>6 DEF Fields
<1> HIDE DEF v
<1>8. v.last = r
  BY <1>2, <1>4, <1>6, <1>7 DEF Fields, r, e
<1>9. r \in [Socks -> Nat] /\ \A so \in Socks : r[so] <= w.serial
  BY <1>1, <1>4 DEF r, e
<1>10. /\ v.serial = w.serial /\ v.rx = w.rx /\ v.got = w.got /\ v.fastq = t.fastq
       /\ v.batchq = t.batchq /\ v.nextM = t.nextM /\ v.sock = u.sock
  BY <1>2, <1>6, <1>7 DEF Fields
<1>11. Beside(w, v)
  <2>1. DOMAIN v = DOMAIN w
    BY <1>2, <1>6, <1>7
  <2>2. \A y \in KeptFields : v[y] = w[y]
    BY <1>2, <1>6, <1>7 DEF Fields, KeptFields
  <2>3. SameSocks(w, v)
    BY <1>5, <1>6, <1>10 DEF SameSocks
  <2>4. QED
    BY <2>1, <2>2, <2>3 DEF Beside
<1>12. QueuesOK(M, v)
  <2>1. Fields \subseteq DOMAIN v /\ DOMAIN v.sock = Sockets
    BY <1>1, <1>11 DEF Beside, SameSocks
  <2>2. Queued(M, v.fastq, v.batchq, v.last, v.serial)
    BY <1>2, <1>8, <1>10
  <2>3. QED
    BY <1>1, <1>2, <1>8, <1>9, <1>10, <2>1, <2>2 DEF QueuesOK
<1>13. QED
  BY <1>3, <1>4, <1>11, <1>12, IfEncap, BesideBoth

LEMMA TurnKeeps ==
  ASSUME NEW M, NEW w, QueuesOK(M, w)
  PROVE  QueuesOK(M, Turn(w)) /\ Beside(w, Turn(w))
BY SendOneKeeps, BesideItself DEF Turn

LEMMA IfStartKeeps ==
  ASSUME NEW M, NEW w, QueuesOK(M, w)
  PROVE  QueuesOK(M, if_start(w)) /\ Beside(w, if_start(w))
<1> DEFINE p == [loop |-> "if_start"]
           q == [i \in 1 .. w.rx |-> i]
           n == w.rx
<1>1. n \in Nat
  BY DEF QueuesOK
<1>2. PICK h : Course(h, p, w, q, n) /\ if_start(w) = h[n]
  BY <1>1, IfStartCourse
<1> DEFINE T == {i \in Nat : i <= n => QueuesOK(M, h[i]) /\ Beside(w, h[i])}
<1>3. \A t, x : Do(p, t, x) = Turn(t)
  BY DEF Do
<1> HIDE DEF p, q, n
<1>4. 0 \in T
  BY <1>2, BesideItself DEF Course
<1>5. ASSUME NEW i \in Nat, i \in T
      PROVE  i + 1 \in T
  <2>1. ASSUME i + 1 <= n
        PROVE  QueuesOK(M, h[i + 1]) /\ Beside(w, h[i + 1])
    <3>1. i + 1 \in 1 .. n /\ (i + 1) - 1 = i /\ i <= n
      BY <1>1, <2>1
    <3>2. h[i + 1] = Turn(h[i])
      BY <1>2, <1>3, <3>1 DEF Course
    <3>3. QueuesOK(M, h[i]) /\ Beside(w, h[i])
      BY <1>5, <3>1
    <3>4. QED
      BY <3>2, <3>3, TurnKeeps, BesideBoth
  <2>2. QED
    BY <2>1
<1> HIDE DEF T
<1>6. n \in T
  BY <1>1, <1>4, <1>5, SetInduction
<1>7. QED
  BY <1>1, <1>2, <1>6 DEF T

\* A packet is put into one of the queues.
LEMMA EnqueueKeeps ==
  ASSUME NEW M, NEW w, QueuesOK(M, w), NEW so \in Socks, NEW m
  PROVE  LET e == [so |-> so, m |-> m, sn |-> w.serial + 1]
             t == Enqueue([w EXCEPT !.serial = @ + 1], so, e)
         IN  /\ QueuesOK(M \cup {m}, t) /\ Beside(w, t) /\ t.serial = e.sn
             /\ (\E i \in DOMAIN t.fastq : Last(t.fastq[i]) = e)
                \/ (\E i \in DOMAIN t.batchq : Last(t.batchq[i]) = e)
<1> DEFINE N == M \cup {m}
           f == w.fastq
           b == w.batchq
           e == [so |-> so, m |-> m, sn |-> w.serial + 1]
           u == [w EXCEPT !.serial = @ + 1]
           t == Enqueue(u, so, e)
           last == w.last
           sn == w.serial + 1
           at == SessionOf(u.batchq, so)
           n == Len(f)
           Newest(q) == \E i \in DOMAIN q : Last(q[i]) = e
           Good(c, d) == /\ Queued(N, c, d, last, sn) /\ (Newest(c) \/ Newest(d))
                         /\ Len(b) <= Len(d) /\ Len(d) \in Nat
<1>1. /\ Fields \subseteq DOMAIN w /\ DOMAIN w.sock = Sockets
      /\ w.serial \in Nat /\ w.rx \in Nat /\ last \in [Socks -> Nat]
      /\ \A k \in Socks : last[k] <= w.serial
      /\ w.nextM \in 0 .. Len(b) /\ Queued(N, f, b, last, w.serial)
      /\ \A g \in w.got : g.p = "ip" => g.m \in M
  BY QueuedMore DEF QueuesOK
<1>2. /\ e \in Entry(N) /\ e.sn = w.serial + 1 /\ e.so = so /\ last[e.so] <= w.serial
  BY <1>1 DEF Entry
<1>3. /\ DOMAIN u = DOMAIN w /\ \A x \in Fields \ {"serial"} : u[x] = w[x]
      /\ u.serial = sn /\ u.fastq = f /\ u.batchq = b
  BY <1>1 DEF Fields
<1>4. /\ f \in Seq(Session(N)) /\ b \in Seq(Session(N)) /\ Len(f) \in Nat /\ Len(b) \in Nat
      /\ DOMAIN f = 1 .. Len(f) /\ DOMAIN b = 1 .. Len(b)
      /\ \A i \in DOMAIN f : f[i] \in Session(N) /\ f[i] \in Seq(Entry(N)) /\ Len(f[i]) \in Nat
      /\ \A i \in DOMAIN b : b[i] \in Session(N) /\ b[i] \in Seq(Entry(N)) /\ Len(b[i]) \in Nat
  <2>1. f \in Seq(Session(N)) /\ b \in Seq(Session(N))
    BY <1>1 DEF Queued
  <2>2. \A x \in Session(N) : x \in Seq(Entry(N)) /\ Len(x) \in Nat
    BY SessionIs
  <2>3. Len(f) \in Nat /\ Len(b) \in Nat /\ DOMAIN f = 1 .. Len(f) /\ DOMAIN b = 1 .. Len(b)
    BY <2>1
  <2>4. (\A i \in DOMAIN f : f[i] \in Session(N)) /\ (\A i \in DOMAIN b : b[i] \in Session(N))
    <3>1. \A q \in Seq(Session(N)) : \A i \in DOMAIN q : q[i] \in Session(N)
      OBVIOUS
    <3>2. QED
      BY <2>1, <3>1
  <2>5. QED
    BY <2>1, <2>2, <2>3, <2>4
<1>5. /\ at \in {0} \cup DOMAIN b
      /\ at # 0 => Owner(b[at]) = so
      /\ at = 0 => \A i \in DOMAIN b : Owner(b[i]) # so
  <2> DEFINE I == {i \in 1 .. Len(b) : b[i][1].so = so}
  <2>1. at = IF I # {} THEN Max(I) ELSE 0
    BY <1>3 DEF SessionOf, SelectLastInSeq
  <2>2. I \in SUBSET (1 .. Len(b)) /\ \A i \in I : Owner(b[i]) = so
    BY DEF Owner
  <2>3. I = {} => \A i \in DOMAIN b : Owner(b[i]) # so
    BY <1>4 DEF Owner
  <2> HIDE DEF I, at
  <2>4. Len(b) \in Nat /\ DOMAIN b = 1 .. Len(b)
    BY <1>4
  <2>5. CASE I = {}
    BY <2>1, <2>3, <2>5
  <2>6. CASE I # {}
    <3>1. Max(I) \in I
      BY <2>2, <2>4, <2>6, Extremes
    <3>2. at \in DOMAIN b /\ Owner(b[at]) = so
      BY <2>1, <2>2, <2>4, <2>6, <3>1
    <3>3. at # 0
      BY <2>4, <3>2
    <3>4. QED
      BY <3>2, <3>3
  <2>7. QED
    BY <2>5, <2>6
<1>6. \A x \in Seq(Entry(N)) : Last(Append(x, e)) = e
  BY <1>2 DEF Last
<1>7. Last(<<e>>) = e
  BY DEF Last
<1> HIDE DEF e, u, at
<1>8. \A i \in DOMAIN b :
         Owner(b[i]) = so => Good(f, [b EXCEPT ![i] = Append(@, e)])
  <2>1. TAKE i \in DOMAIN b
  <2>2. HAVE Owner(b[i]) = so
  <2> DEFINE c == [b EXCEPT ![i] = Append(@, e)]
  <2>3. Queued(N, f, c, last, sn)
    BY <1>1, <1>2, <2>2, BatchGrows
  <2>4. DOMAIN c = DOMAIN b /\ c[i] = Append(b[i], e)
    OBVIOUS
  <2>5. Newest(c)
    BY <1>4, <1>6, <2>4
  <2>6. Len(c) = Len(b)
    <3>1. c \in Seq(Session(N))
      BY <2>3 DEF Queued
    <3>2. Len(c) \in Nat /\ DOMAIN c = 1 .. Len(c)
      BY <3>1
    <3> HIDE DEF c
    <3>3. QED
      BY <1>4, <2>4, <3>2
  <2>7. QED
    BY <1>4, <2>3, <2>5, <2>6
<1>9. at = 0 => Good(f, Append(b, <<e>>))
  <2>1. HAVE at = 0
  <2>2. Queued(N, f, Append(b, <<e>>), last, sn)
    BY <1>1, <1>2, <1>5, <2>1, BatchStarts
  <2>3. <<e>> \in Session(N)
    BY <1>1, <1>2, SessionStarts
  <2>4. /\ Len(Append(b, <<e>>)) = Len(b) + 1 /\ Append(b, <<e>>)[Len(b) + 1] = <<e>>
        /\ Len(b) + 1 \in DOMAIN Append(b, <<e>>)
    BY <1>4, <2>3
  <2>5. Newest(Append(b, <<e>>))
    BY <1>7, <2>4
  <2>6. QED
    BY <1>4, <2>2, <2>4, <2>5
<1>10. at = 0 /\ n # 0 /\ Owner(f[n]) = so => Good([f EXCEPT ![n] = Append(@, e)], b)
  <2>1. HAVE at = 0 /\ n # 0 /\ Owner(f[n]) = so
  <2> DEFINE c == [f EXCEPT ![n] = Append(@, e)]
  <2>2. n \in DOMAIN f
    BY <1>4, <2>1
  <2>3. Queued(N, c, b, last, sn)
    BY <1>1, <1>2, <1>5, <2>1, <2>2, FastGrows
  <2>4. DOMAIN c = DOMAIN f /\ c[n] = Append(f[n], e)
    BY <2>2
  <2>5. Newest(c)
    BY <1>4, <1>6, <2>2, <2>4
  <2>6. QED
    BY <1>4, <2>3, <2>5
<1>11. at = 0 => Good(Append(f, <<e>>), b)
  <2>1. HAVE at = 0
  <2>2. Queued(N, Append(f, <<e>>), b, last, sn)
    BY <1>1, <1>2, <1>5, <2>1, FastStarts
  <2>3. <<e>> \in Session(N)
    BY <1>1, <1>2, SessionStarts
  <2>4. /\ Append(f, <<e>>)[Len(f) + 1] = <<e>>
        /\ Len(f) + 1 \in DOMAIN Append(f, <<e>>)
    BY <1>4, <2>3
  <2>5. Newest(Append(f, <<e>>))
    BY <1>7, <2>4
  <2>6. QED
    BY <1>4, <2>2, <2>5
<1>12. \E c, d : /\ Good(c, d) /\ DOMAIN t = DOMAIN u /\ t.fastq = c /\ t.batchq = d
                 /\ \A x \in Fields \ {"fastq", "batchq"} : t[x] = u[x]
  <2> HIDE DEF Good
  <2>1. Fields \subseteq DOMAIN u
    BY <1>1, <1>3
  <2>2. CASE at # 0
    <3> DEFINE d == [b EXCEPT ![at] = Append(@, e)]
    <3>1. Good(f, d)
      BY <1>5, <1>8, <2>2
    <3>2. t = [u EXCEPT !.batchq = d]
      BY <1>3, <2>2 DEF Enqueue, at
    <3> HIDE DEF d, t
    <3>3. QED
      BY <1>3, <2>1, <3>1, <3>2 DEF Fields
  <2>3. CASE at = 0 /\ ~LowDelay(u, so)
    <3> DEFINE d == Append(b, <<e>>)
    <3>1. Good(f, d)
      BY <1>9, <2>3
    <3>2. t = [u EXCEPT !.batchq = d]
      BY <1>3, <2>3 DEF Enqueue, at
    <3> HIDE DEF d, t
    <3>3. QED
      BY <1>3, <2>1, <3>1, <3>2 DEF Fields
  <2>4. CASE at = 0 /\ LowDelay(u, so) /\ n # 0 /\ Owner(f[n]) = so
    <3> DEFINE c == [f EXCEPT ![n] = Append(@, e)]
    <3>1. Good(c, b)
      BY <1>10, <2>4
    <3>2. t = [u EXCEPT !.fastq = c]
      BY <1>3, <2>4 DEF Enqueue, at, Owner
    <3> HIDE DEF c, t
    <3>3. QED
      BY <1>3, <2>1, <3>1, <3>2 DEF Fields
  <2>5. CASE at = 0 /\ LowDelay(u, so) /\ ~(n # 0 /\ Owner(f[n]) = so)
    <3> DEFINE c == Append(f, <<e>>)
    <3>1. Good(c, b)
      BY <1>11, <2>5
    <3>2. t = [u EXCEPT !.fastq = c]
      BY <1>3, <2>5 DEF Enqueue, at, Owner
    <3> HIDE DEF c, t
    <3>3. QED
      BY <1>3, <2>1, <3>1, <3>2 DEF Fields
  <2>6. QED
    BY <2>2, <2>3, <2>4, <2>5
<1>13. PICK c, d : /\ Good(c, d) /\ DOMAIN t = DOMAIN u /\ t.fastq = c /\ t.batchq = d
                   /\ \A x \in Fields \ {"fastq", "batchq"} : t[x] = u[x]
  BY <1>12
<1> HIDE DEF t
<1>14. /\ DOMAIN t = DOMAIN w /\ \A x \in Fields \ {"fastq", "batchq", "serial"} : t[x] = w[x]
       /\ t.serial = sn
  BY <1>3, <1>13 DEF Fields
<1>15. /\ t.rx = w.rx /\ t.last = last /\ t.nextM = w.nextM /\ t.got = w.got /\ t.sock = w.sock
  BY <1>14 DEF Fields
<1>16. t.nextM \in 0 .. Len(t.batchq)
  BY <1>1, <1>4, <1>13, <1>15
<1>17. sn \in Nat /\ \A k \in Socks : last[k] <= sn
  BY <1>1
<1>18. QueuesOK(N, t)
  BY <1>1, <1>13, <1>14, <1>15, <1>16, <1>17 DEF QueuesOK
<1>19. Beside(w, t)
  BY <1>14, <1>15 DEF Beside, SameSocks, SameSocket, Fields, KeptFields
<1>20. t.serial = e.sn
  BY <1>14 DEF e
<1>21. QED
  BY <1>13, <1>18, <1>19, <1>20 DEF t, u, e

\* The position of next_m after at has been moved to the front.
LEMMA MovedNext ==
  ASSUME NEW n \in Nat, NEW next \in 0 .. n, NEW at \in 1 .. n
  PROVE  (IF next = at THEN 1 ELSE IF next # 0 /\ next < at THEN next + 1 ELSE next) \in 0 .. n
OBVIOUS

LEMMA MoveToFrontKeeps ==
  ASSUME NEW M, NEW w, QueuesOK(M, w), NEW so, NEW e, e.sn = w.serial,
         (\E i \in DOMAIN w.fastq : Last(w.fastq[i]) = e)
         \/ (\E i \in DOMAIN w.batchq : Last(w.batchq[i]) = e)
  PROVE  QueuesOK(M, MoveToFront(w, so, e)) /\ Beside(w, MoveToFront(w, so, e))
<1> DEFINE f == w.fastq
           b == w.batchq
           I == {i \in 1 .. Len(f) : Last(f[i]) = e}
           J == {i \in 1 .. Len(b) : Last(b[i]) = e}
           fast == SelectInSeq(f, LAMBDA session : Last(session) = e)
           batch == SelectInSeq(b, LAMBDA session : Last(session) = e)
           t == MoveToFront(w, so, e)
           Good(c, d, next) == Queued(M, c, d, w.last, w.serial) /\ next \in 0 .. Len(d)
<1>1. /\ Fields \subseteq DOMAIN w /\ DOMAIN w.sock = Sockets
      /\ w.serial \in Nat /\ w.rx \in Nat /\ w.last \in [Socks -> Nat]
      /\ \A k \in Socks : w.last[k] <= w.serial
      /\ w.nextM \in 0 .. Len(b) /\ Queued(M, f, b, w.last, w.serial)
      /\ \A g \in w.got : g.p = "ip" => g.m \in M
      /\ f \in Seq(Session(M)) /\ b \in Seq(Session(M)) /\ Len(f) \in Nat /\ Len(b) \in Nat
      /\ DOMAIN f = 1 .. Len(f) /\ DOMAIN b = 1 .. Len(b)
  BY DEF QueuesOK, Queued
<1>2. fast \in {0} \cup I /\ (I # {} => fast # 0)
  <2>1. fast = IF I # {} THEN Min(I) ELSE 0
    BY DEF SelectInSeq
  <2>2. I \in SUBSET (1 .. Len(f)) /\ 0 \notin I
    OBVIOUS
  <2> HIDE DEF I, fast
  <2>3. I # {} => Min(I) \in I
    BY <1>1, <2>2, Extremes
  <2>4. QED
    BY <2>1, <2>2, <2>3
<1>3. batch \in {0} \cup J /\ (J # {} => batch # 0)
  <2>1. batch = IF J # {} THEN Min(J) ELSE 0
    BY DEF SelectInSeq
  <2>2. J \in SUBSET (1 .. Len(b)) /\ 0 \notin J
    OBVIOUS
  <2> HIDE DEF J, batch
  <2>3. J # {} => Min(J) \in J
    BY <1>1, <2>2, Extremes
  <2>4. QED
    BY <2>1, <2>2, <2>3
<1>4. I # {} \/ J # {}
  BY <1>1
<1>5. (fast # 0 => fast \in DOMAIN f /\ Last(f[fast]).sn = w.serial) /\ (batch # 0 => batch \in DOMAIN b)
  BY <1>1, <1>2, <1>3
<1> HIDE DEF I, J, fast, batch
<1>6. \E c, d, next : /\ Good(c, d, next) /\ DOMAIN t = DOMAIN w
                      /\ t.fastq = c /\ t.batchq = d /\ t.nextM = next
                      /\ \A x \in Fields \ {"fastq", "batchq", "nextM"} : t[x] = w[x]
  <2>1. CASE fast # 0
    <3> DEFINE c == RemoveAt(f, fast)
               d == <<f[fast]>> \o b
               next == IF w.nextM = 0 THEN 0 ELSE w.nextM + 1
    <3>1. fast \in DOMAIN f /\ Last(f[fast]).sn = w.serial
      BY <1>5, <2>1
    <3>2. Queued(M, c, d, w.last, w.serial)
      BY <1>1, <3>1, FastMoves
    <3>3. Len(d) = 1 + Len(b)
      <4>1. <<f[fast]>> \in Seq(Session(M)) /\ Len(<<f[fast]>>) = 1
        BY <1>1, <3>1
      <4>2. QED
        BY <1>1, <4>1
    <3>4. t = [w EXCEPT !.fastq = c, !.batchq = d, !.nextM = next]
      BY <2>1 DEF MoveToFront, fast
    <3> HIDE DEF c, d, t
    <3>5. next \in 0 .. Len(d)
      BY <1>1, <3>3
    <3> HIDE DEF next
    <3>6. /\ DOMAIN t = DOMAIN w /\ t.fastq = c /\ t.batchq = d /\ t.nextM = next
          /\ \A x \in Fields \ {"fastq", "batchq", "nextM"} : t[x] = w[x]
      BY <1>1, <3>4 DEF Fields
    <3>7. QED
      BY <3>2, <3>5, <3>6
  <2>2. CASE fast = 0
    <3> DEFINE d == Fronted(b, batch)
               next == IF w.nextM = batch THEN 1
                       ELSE IF w.nextM # 0 /\ w.nextM < batch THEN w.nextM + 1 ELSE w.nextM
    <3>1. batch \in DOMAIN b
      BY <1>2, <1>3, <1>4, <1>5, <2>2
    <3>2. Queued(M, f, d, w.last, w.serial) /\ Len(d) = Len(b)
      <4>1. Queued(M, f, b, w.last, w.serial) /\ w.last \in [Socks -> Nat] /\ w.serial \in Nat
        BY <1>1
      <4> HIDE DEF f, b
      <4>2. Queued(M, f, Fronted(b, batch), w.last, w.serial)
        BY <3>1, <4>1, BatchMoves
      <4>3. Len(Fronted(b, batch)) = Len(b)
        BY <1>1, <3>1, FrontedLength
      <4>4. QED
        BY <4>2, <4>3
    <3>3. t = [w EXCEPT !.batchq = d, !.nextM = next]
      BY <2>2 DEF MoveToFront, fast, batch, Fronted
    <3> HIDE DEF d, t
    <3>4. next \in 0 .. Len(d)
      BY <1>1, <3>1, <3>2, MovedNext
    <3> HIDE DEF next
    <3>5. /\ DOMAIN t = DOMAIN w /\ t.fastq = f /\ t.batchq = d /\ t.nextM = next
          /\ \A x \in Fields \ {"fastq", "batchq", "nextM"} : t[x] = w[x]
      BY <1>1, <3>3 DEF Fields
    <3>6. QED
      BY <3>2, <3>4, <3>5
  <2>3. QED
    BY <2>1, <2>2
<1> HIDE DEF t
<1>7. /\ t.serial = w.serial /\ t.rx = w.rx /\ t.last = w.last /\ t.got = w.got
      /\ t.sock = w.sock
  BY <1>6 DEF Fields
<1>8. Beside(w, t)
  BY <1>6, <1>7 DEF Beside, SameSocks, SameSocket, Fields, KeptFields
<1>9. QueuesOK(M, t)
  BY <1>1, <1>6, <1>7 DEF QueuesOK
<1>10. QED
  BY <1>8, <1>9 DEF t

\* so_queued and so_nqueued go up, and the session may be moved.
LEMMA CountQueuedKeeps ==
  ASSUME NEW M, NEW w, QueuesOK(M, w), NEW so \in Socks, NEW e, e.sn = w.serial,
         (\E i \in DOMAIN w.fastq : Last(w.fastq[i]) = e)
         \/ (\E i \in DOMAIN w.batchq : Last(w.batchq[i]) = e)
  PROVE  QueuesOK(M, CountQueued(w, so, e)) /\ Beside(w, CountQueued(w, so, e))
<1>1. CASE ~Live(w, so)
  BY <1>1, BesideItself DEF CountQueued
<1>2. CASE Live(w, so)
  <2> DEFINE k == [w.sock[so] EXCEPT !.queued = @ + 1]
             l == [k EXCEPT !.nqueued = @ + 1]
             t == [w EXCEPT !.sock[so].queued = @ + 1, !.sock[so].nqueued = @ + 1]
  <2>1. t = [w EXCEPT !.sock = [[@ EXCEPT ![so] = k] EXCEPT ![so] = l]]
    OBVIOUS
  <2>2. w.sock[so] # Free /\ Fields \subseteq DOMAIN w /\ so \in DOMAIN w.sock /\ DOMAIN w.sock = Sockets
    BY <1>2 DEF Live, Socks, QueuesOK
  <2>3. SameSocket(w.sock[so], l)
    BY DEF SameSocket, KeptOfSocket
  <2>4. CountQueued(w, so, e) \in {t, MoveToFront(t, so, e)}
    BY <1>2 DEF CountQueued
  <2> HIDE DEF k, l, t
  <2>5. t.sock = [[w.sock EXCEPT ![so] = k] EXCEPT ![so] = l]
    BY <2>1, <2>2 DEF Fields
  <2>6. DOMAIN t = DOMAIN w /\ \A x \in Fields \ {"sock"} : t[x] = w[x]
    BY <2>1, <2>2
  <2>7. DOMAIN t.sock = DOMAIN w.sock /\ \A a \in DOMAIN w.sock : a # so => t.sock[a] = w.sock[a]
    BY <2>5
  <2>8. t.sock[so] = l
    BY <2>2, <2>5
  <2>9. \A a : SameSocket(w.sock[a], w.sock[a])
    BY DEF SameSocket
  <2>10. SameSocks(w, t)
    BY <2>2, <2>3, <2>7, <2>8, <2>9 DEF SameSocks
  <2>11. /\ t.serial = w.serial /\ t.rx = w.rx /\ t.last = w.last /\ t.got = w.got
         /\ t.nextM = w.nextM /\ t.fastq = w.fastq /\ t.batchq = w.batchq
    BY <2>6 DEF Fields
  <2>12. Beside(w, t)
    BY <2>6, <2>10 DEF Beside, Fields, KeptFields
  <2>13. QueuesOK(M, t)
    BY <2>2, <2>6, <2>7, <2>11 DEF QueuesOK
  <2>14. QueuesOK(M, MoveToFront(t, so, e)) /\ Beside(t, MoveToFront(t, so, e))
    BY <2>11, <2>13, MoveToFrontKeeps
  <2>15. QED
    BY <2>4, <2>12, <2>13, <2>14, BesideBoth
<1>3. QED
  BY <1>1, <1>2

\* if_output.
LEMMA IfOutputKeeps ==
  ASSUME NEW M, NEW w, QueuesOK(M, w), NEW so \in Socks, NEW m
  PROVE  QueuesOK(M \cup {m}, if_output(w, so, m)) /\ Beside(w, if_output(w, so, m))
<1> DEFINE N == M \cup {m}
           e == [so |-> so, m |-> m, sn |-> w.serial + 1]
           t == Enqueue([w EXCEPT !.serial = @ + 1], so, e)
           u == CountQueued(t, so, e)
<1>1. /\ QueuesOK(N, t) /\ Beside(w, t) /\ e.sn = t.serial
      /\ (\E i \in DOMAIN t.fastq : Last(t.fastq[i]) = e)
         \/ (\E i \in DOMAIN t.batchq : Last(t.batchq[i]) = e)
  BY EnqueueKeeps
<1>2. if_output(w, so, m) = if_start(u)
  BY DEF if_output
<1> HIDE DEF N, e, t
<1>3. QueuesOK(N, u) /\ Beside(t, u)
  BY <1>1, CountQueuedKeeps
<1> HIDE DEF u
<1>4. QueuesOK(N, if_start(u)) /\ Beside(u, if_start(u))
  BY <1>3, IfStartKeeps
<1>5. QED
  BY <1>1, <1>2, <1>3, <1>4, BesideBoth DEF N

-----------------------------------------------------------------------------
(* What the packets on their way say of the datagrams of the guest.         *)

\* The addresses a port of the guest has sent to.
AskedOf(sent, d) ==
  {Datagrams[sent[i].d].dst : i \in {j \in DOMAIN sent :
      /\ Datagrams[sent[j].d].sport = Datagrams[d].sport
      /\ Datagrams[sent[j].d].src = Datagrams[d].src}}

\* A send of datagram d has failed.
FailedOf(sent, d) == \E i \in DOMAIN sent : sent[i].d = d /\ sent[i].fd = 0

\* Packet m is an answer as Answers demands, and stays one when more has been sent.
Answered(sent, m) ==
  LET kind == m.data[1][1]
      d == m.data[1][2]
      e == Datagrams[d]
  IN  /\ kind = "answer" =>
           /\ m.dst = e.src /\ m.data[1][6] = e.sport /\ m.data[1][5] = e.dport
           /\ AskedOf(sent, d) \subseteq {e.dst} /\ e.dst \notin {Broadcast, VnetBroadcast} =>
                m.src = e.dst
           /\ WellPlaced(m, m.data[1][4])
      /\ kind = "echo" => /\ m.dst = e.src /\ m.src = e.dst
                          /\ e.p = "icmp" => WellPlaced(m, e.n)
      /\ kind \in Errors =>
           /\ m.src = Vhost
           /\ m.dst = e.src \/ (m.dst = "garbage" /\ FailedOf(sent, d))

\* The queues and the frames received are in order, and hold answers only.
OutOK(w) == \E M : QueuesOK(M, w) /\ \A m \in M : Answered(w.sent, m)

LEMMA IfOutputGood ==
  ASSUME NEW w, OutOK(w), NEW so \in Socks, NEW m, Answered(w.sent, m)
  PROVE  OutOK(if_output(w, so, m)) /\ Beside(w, if_output(w, so, m))
<1>1. PICK M : QueuesOK(M, w) /\ \A k \in M : Answered(w.sent, k)
  BY DEF OutOK
<1> DEFINE t == if_output(w, so, m)
<1>2. QueuesOK(M \cup {m}, t) /\ Beside(w, t)
  BY <1>1, IfOutputKeeps
<1> HIDE DEF t
<1>3. t.sent = w.sent
  BY <1>2 DEF Beside, KeptFields
<1>4. \A k \in M \cup {m} : Answered(t.sent, k)
  BY <1>1, <1>3
<1>5. OutOK(t)
  BY <1>2, <1>4 DEF OutOK
<1>6. QED
  BY <1>2, <1>5 DEF t

LEMMA IfStartGood ==
  ASSUME NEW w, OutOK(w)
  PROVE  OutOK(if_start(w)) /\ Beside(w, if_start(w))
<1>1. PICK M : QueuesOK(M, w) /\ \A k \in M : Answered(w.sent, k)
  BY DEF OutOK
<1> DEFINE t == if_start(w)
<1>2. QueuesOK(M, t) /\ Beside(w, t)
  BY <1>1, IfStartKeeps
<1> HIDE DEF t
<1>3. t.sent = w.sent
  BY <1>2 DEF Beside, KeptFields
<1>4. OutOK(t)
  BY <1>1, <1>2, <1>3 DEF OutOK
<1>5. QED
  BY <1>2, <1>4 DEF t

\* ip_output: every part of the packet is queued.
LEMMA IpOutputGood ==
  ASSUME NEW w, OutOK(w), NEW so \in Socks, NEW m, NEW n \in Nat, DOMAIN Fragments(m) = 1 .. n,
         \A i \in 1 .. n : Answered(w.sent, Fragments(m)[i])
  PROVE  OutOK(ip_output(w, so, m)) /\ Beside(w, ip_output(w, so, m))
<1> DEFINE p == [loop |-> "ip_output", so |-> so]
           q == Fragments(m)
<1>1. PICK h : Course(h, p, w, q, n) /\ ip_output(w, so, m) = h[n]
  BY OutputCourse
<1>2. \A t, x : Do(p, t, x) = if_output(t, so, x)
  BY DEF Do
<1> DEFINE T == {i \in Nat : i <= n => OutOK(h[i]) /\ Beside(w, h[i])}
<1> HIDE DEF p, q
<1>3. 0 \in T
  BY <1>1, BesideItself DEF Course
<1>4. ASSUME NEW i \in Nat, i \in T
      PROVE  i + 1 \in T
  <2>1. ASSUME i + 1 <= n
        PROVE  OutOK(h[i + 1]) /\ Beside(w, h[i + 1])
    <3>1. i + 1 \in 1 .. n /\ (i + 1) - 1 = i /\ i <= n
      BY <2>1
    <3>2. h[i + 1] = if_output(h[i], so, q[i + 1])
      BY <1>1, <1>2, <3>1 DEF Course
    <3>3. OutOK(h[i]) /\ Beside(w, h[i])
      BY <1>4, <3>1
    <3>4. h[i].sent = w.sent
      BY <3>3 DEF Beside, KeptFields
    <3>5. Answered(h[i].sent, q[i + 1])
      BY <3>1, <3>4 DEF q
    <3>6. QED
      BY <3>2, <3>3, <3>5, IfOutputGood, BesideBoth
  <2>2. QED
    BY <2>1
<1> HIDE DEF T
<1>5. n \in T
  BY <1>3, <1>4, SetInduction
<1>6. QED
  BY <1>1, <1>5 DEF T

\* How many parts a packet leaves as, and which units part i has.
LEMMA PartsOf ==
  ASSUME NEW u \in Nat \ {0}, u > Mtu
  PROVE  LET n == (u + Mtu - 1) \div Mtu
         IN  /\ n \in Nat
             /\ \A i \in 1 .. n :
                  LET first == (i - 1) * Mtu
                      end == IF i < n THEN i * Mtu ELSE u
                  IN  /\ first \in Nat /\ end \in Nat /\ first < end /\ end <= u
                      /\ (i < n) <=> (end < u)
<1> DEFINE n == (u + Mtu - 1) \div Mtu
<1>1. Mtu \in Nat /\ Mtu >= 1
  BY MtuAssumption
<1>2. u + Mtu - 1 \in Nat /\ Mtu \in Nat \ {0}
  BY <1>1
<1>3. n \in Nat /\ Mtu * n <= u + Mtu - 1 /\ u + Mtu - 1 < Mtu * n + Mtu
  BY <1>2
<1> HIDE DEF n
<1>4. u <= Mtu * n /\ Mtu * n - Mtu < u
  BY <1>1, <1>3
<1>5. ASSUME NEW i \in 1 .. n
      PROVE  LET first == (i - 1) * Mtu
                 end == IF i < n THEN i * Mtu ELSE u
             IN  /\ first \in Nat /\ end \in Nat /\ first < end /\ end <= u
                 /\ (i < n) <=> (end < u)
  <2>1. (i - 1) * Mtu \in Nat /\ i * Mtu \in Nat /\ i * Mtu = (i - 1) * Mtu + Mtu
    BY <1>1, <1>3
  <2>2. CASE i < n
    <3>1. i * Mtu <= (n - 1) * Mtu
      BY <1>1, <1>3, <2>2
    <3>2. (n - 1) * Mtu = Mtu * n - Mtu
      BY <1>1, <1>3
    <3>3. i * Mtu < u
      BY <1>1, <1>3, <1>4, <2>1, <3>1, <3>2
    <3>4. QED
      BY <1>1, <2>1, <2>2, <3>3
  <2>3. CASE i = n
    <3>1. (i - 1) * Mtu = Mtu * n - Mtu
      BY <1>1, <1>3, <2>3
    <3>2. QED
      BY <1>3, <1>4, <2>1, <2>3, <3>1
  <2>4. QED
    BY <1>3, <2>2, <2>3
<1>6. QED
  BY <1>3, <1>5 DEF n

\* Packet f is a part of packet m.
PartOf(m, f) ==
  /\ f.src = m.src /\ f.dst = m.dst
  /\ 1 \in DOMAIN f.data
  /\ f.off \in Nat
  /\ \A j \in DOMAIN f.data : f.off + j \in DOMAIN m.data /\ f.data[j] = m.data[f.off + j]
  /\ f.mf = (EndOf(f) < Units(m))

\* A packet that is no fragment.
WholePacket(m) ==
  /\ {"src", "dst", "off", "mf", "data"} \subseteq DOMAIN m
  /\ m.off = 0 /\ m.mf = FALSE
  /\ m.data # <<>> /\ \E X : m.data \in Seq(X)

LEMMA FragmentsAreParts ==
  ASSUME NEW m, WholePacket(m)
  PROVE  \E n \in Nat : /\ DOMAIN Fragments(m) = 1 .. n
                        /\ \A i \in 1 .. n : PartOf(m, Fragments(m)[i])
<1> DEFINE u == Len(m.data)
           n == (u + Mtu - 1) \div Mtu
           first(i) == (i - 1) * Mtu
           end(i) == IF i < n THEN i * Mtu ELSE u
           cut(i) == [m EXCEPT !.off = first(i), !.mf = i < n,
                               !.data = SubSeq(@, first(i) + 1, end(i))]
<1>1. PICK X : m.data \in Seq(X)
  BY DEF WholePacket
<1>2. /\ u \in Nat \ {0} /\ DOMAIN m.data = 1 .. u /\ m.off = 0 /\ m.mf = FALSE
      /\ {"src", "dst", "off", "mf", "data"} \subseteq DOMAIN m
  BY <1>1, EmptySeq, LenProperties DEF WholePacket
<1>3. Mtu \in Nat
  BY MtuAssumption
<1>4. CASE u <= Mtu
  <2>1. Fragments(m) = <<m>>
    BY <1>4 DEF Fragments, Units
  <2>2. DOMAIN <<m>> = 1 .. 1 /\ <<m>>[1] = m
    OBVIOUS
  <2>3. PartOf(m, m)
    <3> HIDE DEF u
    <3>1. EndOf(m) = u /\ Units(m) = u
      BY <1>2 DEF EndOf, Units, u
    <3>2. m.mf = (EndOf(m) < Units(m))
      <4>1. ~(EndOf(m) < Units(m))
        BY <1>2, <3>1
      <4> DEFINE less == EndOf(m) < Units(m)
      <4>2. less = FALSE
        BY <4>1
      <4> HIDE DEF less
      <4>3. m.mf = less
        BY <1>2, <4>2
      <4>4. QED
        BY <4>3 DEF less
    <3>3. 1 \in DOMAIN m.data /\ \A j \in DOMAIN m.data : m.off + j = j
      BY <1>2
    <3>4. QED
      BY <1>2, <3>2, <3>3 DEF PartOf
  <2>4. QED
    BY <2>1, <2>2, <2>3
<1>5. CASE ~(u <= Mtu)
  <2>1. Fragments(m) = [i \in 1 .. n |-> cut(i)]
    BY <1>5 DEF Fragments, Units
  <2>2. u > Mtu
    BY <1>2, <1>3, <1>5
  <2>3. /\ n \in Nat
        /\ \A i \in 1 .. n : /\ first(i) \in Nat /\ end(i) \in Nat /\ first(i) < end(i)
                             /\ end(i) <= u /\ ((i < n) <=> (end(i) < u))
    BY <1>2, <2>2, PartsOf
  <2> HIDE DEF n, u
  <2>4. ASSUME NEW i \in 1 .. n
        PROVE  PartOf(m, cut(i))
    <3> DEFINE a == first(i)
               z == end(i)
               d == SubSeq(m.data, a + 1, z)
               f == cut(i)
    <3>1. a \in Nat /\ z \in Nat /\ a < z /\ z <= u /\ ((i < n) <=> (z < u))
      BY <2>3
    <3>2. f.src = m.src /\ f.dst = m.dst /\ f.off = a /\ f.mf = (i < n) /\ f.data = d
      BY <1>2
    <3> HIDE DEF f, a, z
    <3>3. a + 1 \in 1 .. u + 1 /\ z \in a .. u
      BY <3>1, <1>2
    <3>4. /\ Len(d) = z - a /\ DOMAIN d = 1 .. z - a
          /\ \A j \in 1 .. z - a : d[j] = m.data[a + j]
      <4>1. Len(d) = z - a /\ \A j \in 1 .. Len(d) : d[j] = m.data[(a + 1) + j - 1]
        BY <1>1, <1>2, <3>1 DEF u
      <4>2. d \in Seq(X)
        BY <1>1, <1>2, <3>1 DEF u
      <4>3. QED
        BY <3>1, <4>1, <4>2
    <3> HIDE DEF d
    <3>5. \A j \in DOMAIN f.data : f.off + j \in DOMAIN m.data /\ f.data[j] = m.data[f.off + j]
      BY <1>2, <3>1, <3>2, <3>4
    <3>6. EndOf(f) = z /\ 1 \in DOMAIN f.data /\ f.off \in Nat
      BY <3>1, <3>2, <3>4 DEF EndOf, Units
    <3>7. f.mf = (EndOf(f) < Units(m))
      BY <3>1, <3>2, <3>6 DEF u, Units
    <3>8. PartOf(m, f)
      BY <3>2, <3>5, <3>6, <3>7 DEF PartOf
    <3>9. QED
      BY <3>8 DEF f
  <2> HIDE DEF cut
  <2>5. QED
    BY <2>1, <2>3, <2>4
<1>6. QED
  BY <1>4, <1>5

LEMMA OutputGood ==
  ASSUME NEW w, OutOK(w), NEW so \in Socks, NEW m, WholePacket(m),
         \A f : PartOf(m, f) => Answered(w.sent, f)
  PROVE  OutOK(ip_output(w, so, m)) /\ Beside(w, ip_output(w, so, m))
BY FragmentsAreParts, IpOutputGood

\* The parts of a packet of one unit, and what a packet of any length says.
LEMMA FirstUnit ==
  ASSUME NEW m, NEW f, PartOf(m, f)
  PROVE  /\ f.off + 1 \in DOMAIN m.data /\ f.data[1] = m.data[f.off + 1]
         /\ f.src = m.src /\ f.dst = m.dst
BY DEF PartOf

LEMMA PartsArePlaced ==
  ASSUME NEW m, NEW f, PartOf(m, f), \A j \in DOMAIN m.data : m.data[j][3] = j
  PROVE  WellPlaced(f, Units(m))
BY DEF PartOf, WellPlaced

\* An error, or any other single unit of slirp's own.
LEMMA SingleGood ==
  ASSUME NEW w, OutOK(w), NEW so \in Socks, NEW p, NEW src, NEW dst, NEW kind, NEW d, NEW x,
         kind \notin {"answer", "echo"},
         kind \in Errors =>
            /\ src = Vhost
            /\ dst = Datagrams[d].src \/ (dst = "garbage" /\ FailedOf(w.sent, d))
  PROVE  LET m == Packet(p, src, dst, <<<<kind, d, x>>>>)
         IN  OutOK(ip_output(w, so, m)) /\ Beside(w, ip_output(w, so, m))
<1> DEFINE m == Packet(p, src, dst, <<<<kind, d, x>>>>)
<1>1. m.src = src /\ m.dst = dst /\ m.data = <<<<kind, d, x>>>>
  BY DEF Packet
<1>2. WholePacket(m)
  <2> DEFINE unit == <<kind, d, x>>
  <2> HIDE DEF unit
  <2>1. <<unit>> \in Seq({unit}) /\ <<unit>> # <<>>
    OBVIOUS
  <2>2. m.data \in Seq({unit}) /\ m.data # <<>>
    BY <1>1, <2>1 DEF unit
  <2>3. QED
    BY <2>2 DEF WholePacket, Packet
<1>3. ASSUME NEW f, PartOf(m, f)
      PROVE  Answered(w.sent, f)
  <2>1. f.data[1] = <<kind, d, x>> /\ f.src = src /\ f.dst = dst
    BY <1>1, <1>3, FirstUnit
  <2>2. f.data[1][1] = kind /\ f.data[1][2] = d
    BY <2>1
  <2>3. QED
    BY <2>1, <2>2 DEF Answered
<1> HIDE DEF m
<1>4. QED
  BY <1>2, <1>3, OutputGood DEF m

-----------------------------------------------------------------------------
(* The sockets.  What holds of them holds between the operations; k stands  *)
(* for the record of a socket.                                              *)

HostOf(a) == IF a \in Vnet THEN Loopback ELSE a
Hosts == {HostOf(e.dst) : e \in Range(Datagrams)}
Ports == {e.dport : e \in Range(Datagrams)} \cup {7}
Reply == [err : BOOLEAN, d : DOMAIN Datagrams, from : Hosts, port : Ports]
Sent == [d : DOMAIN Datagrams, fd : Nat, to : Hosts, port : Ports, whole : BOOLEAN]

\* Datagram d is one of the port of the guest that socket k serves, sent to port and to.
Serves(k, d, port, to) ==
  /\ Datagrams[d].src = k.laddr /\ Datagrams[d].sport = k.lport
  /\ port = Datagrams[d].dport /\ to = HostOf(Datagrams[d].dst)

\* The datagram a socket keeps: a ping's is the request as the guest has sent it.
Kept(m) ==
  /\ m \in Part /\ m.off = 0 /\ m.mf = FALSE
  /\ m.p = "icmp" => Unharmed(m)

\* The address a socket sends to is that of a datagram it has sent.
Directed(sent, k) ==
  \E i \in DOMAIN sent : LET e == Datagrams[sent[i].d]
                         IN  e.src = k.laddr /\ e.sport = k.lport /\ e.dst = k.faddr

\* What a socket keeps with its start moved twice is a datagram whose send failed.
Backed(sent, k) == k.shifted => FailedOf(sent, k.m[1].data[1][1])

SocketOK(sent, fds, k) ==
  /\ KeptOfSocket \subseteq DOMAIN k
  /\ k.fd \in 1 .. fds /\ Kept(k.m[1]) /\ k.inq \in Seq(Reply) /\ Backed(sent, k)
  /\ k.type # "icmp" =>
       /\ \A i \in DOMAIN k.inq : Serves(k, k.inq[i].d, k.inq[i].port, k.inq[i].from)
       /\ Directed(sent, k)

SocksOK(w) ==
  /\ w.fds \in Nat
  /\ w.udb \in Seq(Sockets) /\ \A i, j \in DOMAIN w.udb : w.udb[i] = w.udb[j] => i = j
  /\ w.udpLast \in Range(w.udb) \cup {NoSocket}
  /\ \A so \in Sockets : so \notin Range(w.udb) => w.sock[so] = Free
  /\ \A so \in Range(w.udb) : SocketOK(w.sent, w.fds, w.sock[so])
  /\ \A a, b \in Range(w.udb) : w.sock[a].fd = w.sock[b].fd => a = b
  /\ w.sent \in Seq(Sent) /\ \A i \in DOMAIN w.sent : w.sent[i].fd <= w.fds
  /\ \A i \in DOMAIN w.sent, so \in Range(w.udb) :
        w.sent[i].fd = w.sock[so].fd /\ w.sock[so].type # "icmp" =>
           Serves(w.sock[so], w.sent[i].d, w.sent[i].port, w.sent[i].to)

\* What the guest sends.
LEMMA PartIs ==
  ASSUME NEW m \in Part
  PROVE  /\ m \in IpPacket /\ m.data \in Seq(Unit) /\ m.data # <<>>
         /\ Len(m.data) \in Nat /\ Len(m.data) >= 1 /\ DOMAIN m.data = 1 .. Len(m.data)
         /\ m.off \in Nat /\ m.mf \in BOOLEAN
         /\ {"src", "dst", "off", "mf", "data", "p", "id"} \subseteq DOMAIN m
         /\ 1 \in DOMAIN m.data /\ m.data[1][1] \in DOMAIN Datagrams
         /\ D(m).p = m.p /\ D(m).src = m.src /\ D(m).dst = m.dst
<1>1. /\ m \in IpPacket /\ m.data # <<>>
      /\ \A i \in DOMAIN m.data :
            LET e == Datagrams[m.data[i][1]] IN e.p = m.p /\ e.src = m.src /\ e.dst = m.dst
  BY DEF Part
<1>2. /\ m.data \in Seq(Unit) /\ m.off \in Nat /\ m.mf \in BOOLEAN
      /\ {"src", "dst", "off", "mf", "data", "p", "id"} \subseteq DOMAIN m
  BY <1>1 DEF IpPacket
<1>3. Len(m.data) \in Nat /\ Len(m.data) >= 1 /\ DOMAIN m.data = 1 .. Len(m.data)
  <2>1. Len(m.data) \in Nat /\ Len(m.data) # 0 /\ DOMAIN m.data = 1 .. Len(m.data)
    BY <1>1, <1>2, EmptySeq, LenProperties
  <2>2. QED
    BY <2>1
<1>4. 1 \in DOMAIN m.data
  BY <1>3
<1>5. m.data[1] \in Unit
  BY <1>2, <1>4
<1>6. m.data[1][1] \in DOMAIN Datagrams
  BY <1>5 DEF Unit
<1>7. QED
  BY <1>1, <1>2, <1>3, <1>4, <1>6 DEF D

OutFields == {"fastq", "batchq", "nextM", "serial", "last", "rx", "got"}

\* Answers stay answers when more has been sent.
LEMMA AnsweredMore ==
  ASSUME NEW a, NEW b, NEW m, Answered(a, m),
         \A d : AskedOf(a, d) \subseteq AskedOf(b, d) /\ (FailedOf(a, d) => FailedOf(b, d))
  PROVE  Answered(b, m)
BY DEF Answered

LEMMA AskedMore ==
  ASSUME NEW sent \in Seq(Sent), NEW e \in Sent, NEW d
  PROVE  /\ AskedOf(sent, d) \subseteq AskedOf(Append(sent, e), d)
         /\ FailedOf(sent, d) => FailedOf(Append(sent, e), d)
<1>1. /\ DOMAIN sent \subseteq DOMAIN Append(sent, e)
      /\ \A i \in DOMAIN sent : Append(sent, e)[i] = sent[i]
  OBVIOUS
<1>2. QED
  BY <1>1 DEF AskedOf, FailedOf

\* What is done to sockets leaves the queues alone.
LEMMA OutSame ==
  ASSUME NEW w, NEW t, OutOK(w), DOMAIN t = DOMAIN w, \A x \in OutFields : t[x] = w[x],
         DOMAIN t.sock = Sockets,
         t.sent = w.sent \/ (w.sent \in Seq(Sent) /\ \E e \in Sent : t.sent = Append(w.sent, e))
  PROVE  OutOK(t)
<1>1. PICK M : QueuesOK(M, w) /\ \A k \in M : Answered(w.sent, k)
  BY DEF OutOK
<1>2. /\ t.serial = w.serial /\ t.rx = w.rx /\ t.last = w.last /\ t.got = w.got
      /\ t.nextM = w.nextM /\ t.fastq = w.fastq /\ t.batchq = w.batchq
  BY DEF OutFields
<1>3. QueuesOK(M, t)
  BY <1>1, <1>2 DEF QueuesOK
<1>4. \A k \in M : Answered(t.sent, k)
  BY <1>1, AnsweredMore, AskedMore
<1>5. QED
  BY <1>3, <1>4 DEF OutOK

\* What goes out leaves the sockets as they are.
LEMMA SameSocketOK ==
  ASSUME NEW sent, NEW fds, NEW k, NEW l, SameSocket(k, l), SocketOK(sent, fds, k)
  PROVE  SocketOK(sent, fds, l)
<1>1. DOMAIN l = DOMAIN k /\ \A x \in KeptOfSocket : l[x] = k[x]
  BY DEF SameSocket
<1>2. /\ l.laddr = k.laddr /\ l.lport = k.lport /\ l.faddr = k.faddr /\ l.m = k.m
      /\ l.inq = k.inq /\ l.fd = k.fd /\ l.type = k.type /\ l.shifted = k.shifted
  BY <1>1 DEF KeptOfSocket
<1> HIDE DEF SameSocket
<1>3. QED
  BY <1>1, <1>2 DEF SocketOK, Serves, Directed, Backed

LEMMA SocksBeside ==
  ASSUME NEW w, NEW t, SocksOK(w), Beside(w, t)
  PROVE  SocksOK(t)
<1>1. /\ t.fds = w.fds /\ t.udb = w.udb /\ t.udpLast = w.udpLast /\ t.sent = w.sent
      /\ \A so \in Sockets : SameSocket(w.sock[so], t.sock[so])
      /\ \A so \in Sockets : w.sock[so] = Free => t.sock[so] = Free
  BY DEF Beside, SameSocks, KeptFields
<1>2. \A so \in Range(w.udb) : so \in Sockets
  BY DEF SocksOK, Range
<1>3. \A so \in Sockets : /\ t.sock[so].laddr = w.sock[so].laddr /\ t.sock[so].lport = w.sock[so].lport
                          /\ t.sock[so].fd = w.sock[so].fd /\ t.sock[so].type = w.sock[so].type
  BY <1>1 DEF SameSocket, KeptOfSocket
<1>4. \A so \in Range(t.udb) : SocketOK(t.sent, t.fds, t.sock[so])
  BY <1>1, <1>2, SameSocketOK DEF SocksOK
<1>5. \A a, b \in Range(t.udb) : t.sock[a].fd = t.sock[b].fd => a = b
  BY <1>1, <1>2, <1>3 DEF SocksOK
<1>6. \A i \in DOMAIN t.sent, so \in Range(t.udb) :
        t.sent[i].fd = t.sock[so].fd /\ t.sock[so].type # "icmp" =>
           Serves(t.sock[so], t.sent[i].d, t.sent[i].port, t.sent[i].to)
  BY <1>1, <1>2, <1>3 DEF SocksOK, Serves
<1>7. QED
  BY <1>1, <1>4, <1>5, <1>6 DEF SocksOK

\* A socket is taken out of the list.
LEMMA RemoveFirstIs ==
  ASSUME NEW q \in Seq(Sockets), \A i, j \in DOMAIN q : q[i] = q[j] => i = j, NEW so
  PROVE  /\ RemoveFirst(q, so) \in Seq(Sockets)
         /\ \A i, j \in DOMAIN RemoveFirst(q, so) :
               RemoveFirst(q, so)[i] = RemoveFirst(q, so)[j] => i = j
         /\ Range(RemoveFirst(q, so)) = Range(q) \ {so}
<1> DEFINE I == {i \in 1 .. Len(q) : q[i] = so}
           at == SelectInSeq(q, LAMBDA v : v = so)
           r == RemoveAt(q, at)
           Old(i) == IF i < at THEN i ELSE i + 1
<1>1. Len(q) \in Nat /\ DOMAIN q = 1 .. Len(q)
  OBVIOUS
<1>2. CASE I = {}
  <2>1. RemoveFirst(q, so) = q
    BY <1>2 DEF RemoveFirst
  <2>2. so \notin Range(q)
    BY <1>1, <1>2 DEF Range
  <2>3. QED
    BY <2>1, <2>2
<1>3. CASE I # {}
  <2>1. RemoveFirst(q, so) = r
    BY <1>3 DEF RemoveFirst
  <2>2. at = Min(I)
    BY <1>3 DEF SelectInSeq
  <2>3. Min(I) \in I
    <3>1. I \in SUBSET (1 .. Len(q))
      OBVIOUS
    <3> HIDE DEF I
    <3>2. QED
      BY <1>1, <1>3, <3>1, Extremes
  <2>4. at \in 1 .. Len(q) /\ q[at] = so
    BY <2>2, <2>3
  <2> HIDE DEF at
  <2>5. /\ r \in Seq(Sockets) /\ Len(r) = Len(q) - 1
        /\ \A i \in 1 .. Len(q) - 1 : r[i] = IF i < at THEN q[i] ELSE q[i + 1]
    BY <2>4, RemoveAtIs
  <2> HIDE DEF r
  <2>6. DOMAIN r = 1 .. Len(q) - 1
    BY <1>1, <2>5
  <2>7. \A i \in DOMAIN r : r[i] = q[Old(i)] /\ Old(i) \in DOMAIN q /\ Old(i) # at
    BY <1>1, <2>4, <2>5, <2>6
  <2>8. \A i, j \in DOMAIN r : Old(i) = Old(j) => i = j
    BY <1>1, <2>4, <2>6
  <2>9. \A j \in DOMAIN q : j # at => \E i \in DOMAIN r : Old(i) = j
    <3>1. TAKE j \in DOMAIN q
    <3>2. HAVE j # at
    <3>3. CASE j < at
      BY <1>1, <2>4, <2>6, <3>3
    <3>4. CASE j > at
      <4>1. j - 1 \in DOMAIN r /\ Old(j - 1) = j
        BY <1>1, <2>4, <2>6, <3>4
      <4>2. QED
        BY <4>1
    <3>5. QED
      BY <1>1, <2>4, <3>2, <3>3, <3>4
  <2> HIDE DEF Old
  <2>10. \A i, j \in DOMAIN r : r[i] = r[j] => i = j
    BY <2>7, <2>8
  <2>11. Range(r) = Range(q) \ {so}
    <3>1. \A x \in Range(r) : x \in Range(q) /\ x # so
      BY <1>1, <2>4, <2>7 DEF Range
    <3>2. \A x \in Range(q) \ {so} : x \in Range(r)
      BY <2>4, <2>7, <2>9 DEF Range
    <3>3. QED
      BY <3>1, <3>2
  <2>12. QED
    BY <2>1, <2>5, <2>10, <2>11
<1>4. QED
  BY <1>2, <1>3

LEMMA RangeOf ==
  ASSUME NEW X, NEW q \in Seq(X)
  PROVE  Range(q) \subseteq X /\ \A i \in DOMAIN q : q[i] \in Range(q)
BY DEF Range

\* One socket is changed or new, and a datagram may have been sent on it.
LEMMA SocketChanges ==
  ASSUME NEW w, NEW x, SocksOK(w), NEW so \in Sockets,
         x.fds \in Nat, w.fds <= x.fds,
         x.udb \in Seq(Sockets), \A i, j \in DOMAIN x.udb : x.udb[i] = x.udb[j] => i = j,
         Range(x.udb) = Range(w.udb) \cup {so},
         x.udpLast \in Range(x.udb) \cup {NoSocket},
         \A a \in Sockets : a # so => SameSocket(w.sock[a], x.sock[a]),
         \A a \in Sockets : a # so /\ w.sock[a] = Free => x.sock[a] = Free,
         SocketOK(x.sent, x.fds, x.sock[so]),
         \/ so \in Range(w.udb) /\ x.sock[so].fd = w.sock[so].fd
         \/ so \notin Range(w.udb) /\ x.sock[so].fd = w.fds + 1,
         \A i \in DOMAIN w.sent :
            w.sent[i].fd = x.sock[so].fd /\ x.sock[so].type # "icmp" =>
               Serves(x.sock[so], w.sent[i].d, w.sent[i].port, w.sent[i].to),
         \/ x.sent = w.sent
         \/ \E e \in Sent :
              /\ x.sent = Append(w.sent, e) /\ e.fd \in {0, x.sock[so].fd}
              /\ e.fd = x.sock[so].fd /\ x.sock[so].type # "icmp" =>
                   Serves(x.sock[so], e.d, e.port, e.to)
  PROVE  SocksOK(x)
<1>1. /\ w.fds \in Nat /\ w.sent \in Seq(Sent)
      /\ \A a \in Range(w.udb) : a \in Sockets /\ SocketOK(w.sent, w.fds, w.sock[a])
      /\ \A a \in Range(w.udb) : w.sock[a].fd \in 1 .. w.fds
      /\ \A a, b \in Range(w.udb) : w.sock[a].fd = w.sock[b].fd => a = b
      /\ \A i \in DOMAIN w.sent : w.sent[i].fd <= w.fds /\ w.sent[i].fd \in Nat
      /\ \A i \in DOMAIN w.sent, a \in Range(w.udb) :
            w.sent[i].fd = w.sock[a].fd /\ w.sock[a].type # "icmp" =>
               Serves(w.sock[a], w.sent[i].d, w.sent[i].port, w.sent[i].to)
  <2>1. w.sent \in Seq(Sent) /\ w.udb \in Seq(Sockets)
    BY DEF SocksOK
  <2>2. \A i \in DOMAIN w.sent : w.sent[i] \in Sent
    BY <2>1
  <2>3. \A i \in DOMAIN w.sent : w.sent[i].fd \in Nat
    BY <2>2 DEF Sent
  <2>4. \A a \in Range(w.udb) : a \in Sockets
    BY <2>1, RangeOf
  <2>5. \A a \in Range(w.udb) : SocketOK(w.sent, w.fds, w.sock[a])
    BY DEF SocksOK
  <2>6. \A a \in Range(w.udb) : w.sock[a].fd \in 1 .. w.fds
    BY <2>5 DEF SocketOK
  <2>7. QED
    BY <2>1, <2>3, <2>4, <2>5, <2>6 DEF SocksOK
<1>2. \A i \in DOMAIN x.sent :
         \/ i \in DOMAIN w.sent /\ x.sent[i] = w.sent[i]
         \/ /\ x.sent[i] \in Sent /\ x.sent[i].fd \in {0, x.sock[so].fd}
            /\ x.sent[i].fd = x.sock[so].fd /\ x.sock[so].type # "icmp" =>
                 Serves(x.sock[so], x.sent[i].d, x.sent[i].port, x.sent[i].to)
  <2>1. CASE x.sent = w.sent
    BY <2>1
  <2>2. CASE x.sent # w.sent
    <3>1. PICK e \in Sent :
              /\ x.sent = Append(w.sent, e) /\ e.fd \in {0, x.sock[so].fd}
              /\ e.fd = x.sock[so].fd /\ x.sock[so].type # "icmp" =>
                   Serves(x.sock[so], e.d, e.port, e.to)
      BY <2>2
    <3>2. \A i \in DOMAIN x.sent : (i \in DOMAIN w.sent /\ x.sent[i] = w.sent[i]) \/ x.sent[i] = e
      BY <1>1, <3>1
    <3>3. QED
      BY <3>1, <3>2
  <2>3. QED
    BY <2>1, <2>2
<1>3. /\ x.sent \in Seq(Sent) /\ \A i \in DOMAIN w.sent : i \in DOMAIN x.sent /\ x.sent[i] = w.sent[i]
  <2>1. \A e \in Sent : /\ Append(w.sent, e) \in Seq(Sent)
                        /\ \A i \in DOMAIN w.sent : /\ i \in DOMAIN Append(w.sent, e)
                                                    /\ Append(w.sent, e)[i] = w.sent[i]
    BY <1>1
  <2>2. QED
    BY <1>1, <2>1
<1>4. x.sock[so].fd \in 1 .. x.fds
  BY DEF SocketOK
<1>5. \A a \in Range(w.udb) : a # so =>
         /\ x.sock[a].fd = w.sock[a].fd /\ x.sock[a].type = w.sock[a].type
         /\ x.sock[a].laddr = w.sock[a].laddr /\ x.sock[a].lport = w.sock[a].lport
  BY <1>1 DEF SameSocket, KeptOfSocket
<1>6. \A a \in Range(x.udb) : SocketOK(x.sent, x.fds, x.sock[a])
  <2>1. TAKE a \in Range(x.udb)
  <2>2. CASE a = so
    BY <2>2
  <2>3. CASE a # so
    <3>1. a \in Range(w.udb) /\ SameSocket(w.sock[a], x.sock[a])
      BY <1>1, <2>3
    <3>2. SocketOK(w.sent, w.fds, w.sock[a])
      BY <1>1, <3>1
    <3>3. w.sock[a].fd \in 1 .. x.fds
      BY <1>1, <3>1
    <3>4. Directed(w.sent, w.sock[a]) => Directed(x.sent, w.sock[a])
      BY <1>3 DEF Directed
    <3>5. Backed(w.sent, w.sock[a]) => Backed(x.sent, w.sock[a])
      BY <1>3 DEF Backed, FailedOf
    <3>6. SocketOK(x.sent, x.fds, w.sock[a])
      BY <3>2, <3>3, <3>4, <3>5 DEF SocketOK
    <3>7. QED
      BY <3>1, <3>6, SameSocketOK
  <2>4. QED
    BY <2>2, <2>3
<1>7. \A a \in Range(w.udb) : a # so => x.sock[a].fd # x.sock[so].fd
  BY <1>1, <1>5
<1>8. \A a, b \in Range(x.udb) : x.sock[a].fd = x.sock[b].fd => a = b
  <2>1. TAKE a, b \in Range(x.udb)
  <2>2. HAVE x.sock[a].fd = x.sock[b].fd
  <2>3. CASE a # so /\ b # so
    <3>1. a \in Range(w.udb) /\ b \in Range(w.udb)
      BY <2>3
    <3>2. QED
      BY <1>1, <1>5, <2>2, <2>3, <3>1
  <2>4. CASE a = so \/ b = so
    BY <1>7, <2>2, <2>4
  <2>5. QED
    BY <2>3, <2>4
<1>9. \A i \in DOMAIN x.sent : x.sent[i].fd <= x.fds
  <2>1. TAKE i \in DOMAIN x.sent
  <2>2. x.sock[so].fd \in 1 .. x.fds /\ 0 <= x.fds
    BY <1>4
  <2>3. CASE i \in DOMAIN w.sent /\ x.sent[i] = w.sent[i]
    BY <1>1, <2>3
  <2>4. CASE x.sent[i].fd \in {0, x.sock[so].fd}
    BY <2>2, <2>4
  <2>5. QED
    BY <1>2, <2>3, <2>4
<1>10. \A i \in DOMAIN x.sent, a \in Range(x.udb) :
         x.sent[i].fd = x.sock[a].fd /\ x.sock[a].type # "icmp" =>
            Serves(x.sock[a], x.sent[i].d, x.sent[i].port, x.sent[i].to)
  <2>1. TAKE i \in DOMAIN x.sent, a \in Range(x.udb)
  <2>2. HAVE x.sent[i].fd = x.sock[a].fd /\ x.sock[a].type # "icmp"
  <2>3. CASE a = so
    BY <1>2, <2>2, <2>3
  <2>4. CASE a # so
    <3>1. a \in Range(w.udb) /\ w.sock[a].fd \in 1 .. w.fds
      BY <1>1, <2>4
    <3>2. x.sent[i].fd \notin {0, x.sock[so].fd}
      BY <1>5, <1>7, <2>2, <2>4, <3>1
    <3>3. i \in DOMAIN w.sent /\ x.sent[i] = w.sent[i]
      BY <1>2, <3>2
    <3>4. Serves(w.sock[a], w.sent[i].d, w.sent[i].port, w.sent[i].to)
      BY <1>1, <1>5, <2>2, <2>4, <3>1, <3>3
    <3>5. QED
      BY <1>5, <2>4, <3>1, <3>3, <3>4 DEF Serves
  <2>5. QED
    BY <2>3, <2>4
<1>11. \A a \in Sockets : a \notin Range(x.udb) => x.sock[a] = Free
  BY DEF SocksOK
<1>12. QED
  BY <1>3, <1>6, <1>8, <1>9, <1>10, <1>11 DEF SocksOK

\* What an operation on sockets leaves alone.
Keeps(w, t) ==
  /\ OutOK(t) /\ SocksOK(t)
  /\ t.leases = w.leases /\ t.acked = w.acked /\ t.ipq = w.ipq

\* It leaves all sockets but one alone.
OnlyOf(w, t, so) ==
  \A a \in Sockets : a # so => /\ SameSocket(w.sock[a], t.sock[a])
                               /\ a \in Range(w.udb) <=> a \in Range(t.udb)

LEMMA BesideKeeps ==
  ASSUME NEW w, NEW t, OutOK(t), SocksOK(w), Beside(w, t)
  PROVE  Keeps(w, t) /\ \A so : OnlyOf(w, t, so)
<1>1. SocksOK(t)
  BY SocksBeside
<1>2. /\ t.leases = w.leases /\ t.acked = w.acked /\ t.ipq = w.ipq /\ t.udb = w.udb
      /\ \A a \in Sockets : SameSocket(w.sock[a], t.sock[a])
  BY DEF Beside, KeptFields, SameSocks
<1>3. QED
  BY <1>1, <1>2 DEF Keeps, OnlyOf

LEMMA KeepsBoth ==
  ASSUME NEW w, NEW t, NEW u, Keeps(w, t), Keeps(t, u)
  PROVE  Keeps(w, u)
BY DEF Keeps

LEMMA OnlyOfBoth ==
  ASSUME NEW w, NEW t, NEW u, NEW so, OnlyOf(w, t, so), OnlyOf(t, u, so)
  PROVE  OnlyOf(w, u, so)
BY DEF OnlyOf, SameSocket

LEMMA FieldsOf ==
  ASSUME NEW w, OutOK(w)
  PROVE  Fields \subseteq DOMAIN w /\ DOMAIN w.sock = Sockets
BY DEF OutOK, QueuesOK

\* sofree.
LEMMA SofreeKeeps ==
  ASSUME NEW w, OutOK(w), SocksOK(w), NEW so \in Sockets
  PROVE  /\ Keeps(w, udp_detach(w, so)) /\ OnlyOf(w, udp_detach(w, so), so)
         /\ so \notin Range(udp_detach(w, so).udb)
<1> DEFINE t == udp_detach(w, so)
<1>1. Fields \subseteq DOMAIN w /\ DOMAIN w.sock = Sockets
  BY FieldsOf
<1>2. /\ DOMAIN t = DOMAIN w /\ t.udb = RemoveFirst(w.udb, so)
      /\ t.udpLast = (IF w.udpLast = so THEN NoSocket ELSE w.udpLast)
      /\ t.sock = [w.sock EXCEPT ![so] = Free]
      /\ \A x \in Fields \ {"udb", "udpLast", "sock"} : t[x] = w[x]
  BY <1>1 DEF udp_detach, sofree, Fields
<1> HIDE DEF t
<1>3. /\ t.sent = w.sent /\ t.fds = w.fds /\ t.leases = w.leases /\ t.acked = w.acked
      /\ t.ipq = w.ipq /\ \A x \in OutFields : t[x] = w[x]
  BY <1>2 DEF Fields, OutFields
<1>4. DOMAIN t.sock = Sockets /\ t.sock[so] = Free /\ \A a \in Sockets : a # so => t.sock[a] = w.sock[a]
  BY <1>1, <1>2
<1>5. OutOK(t)
  BY <1>2, <1>3, <1>4, OutSame
<1>6. /\ t.udb \in Seq(Sockets) /\ \A i, j \in DOMAIN t.udb : t.udb[i] = t.udb[j] => i = j
      /\ Range(t.udb) = Range(w.udb) \ {so}
  BY <1>2, RemoveFirstIs DEF SocksOK
<1>7. \A a \in Range(t.udb) : a \in Range(w.udb) /\ a # so /\ a \in Sockets /\ t.sock[a] = w.sock[a]
  BY <1>4, <1>6, RangeOf
<1>8. t.udpLast \in Range(t.udb) \cup {NoSocket}
  BY <1>2, <1>6 DEF SocksOK
<1>9. \A a \in Sockets : a \notin Range(t.udb) => t.sock[a] = Free
  BY <1>4, <1>6 DEF SocksOK
<1>10. SocksOK(t)
  BY <1>3, <1>6, <1>7, <1>8, <1>9 DEF SocksOK
<1>11. OnlyOf(w, t, so)
  BY <1>4, <1>6 DEF OnlyOf, SameSocket
<1>12. QED
  BY <1>3, <1>5, <1>6, <1>10, <1>11 DEF Keeps, t

\* icmp_error.
LEMMA IcmpErrorGood ==
  ASSUME NEW w, OutOK(w), NEW m \in Part, NEW code \in Errors
  PROVE  OutOK(icmp_error(w, m, code)) /\ Beside(w, icmp_error(w, m, code))
<1> DEFINE d == m.data[1][1]
           e == Packet("icmp", Vhost, m.src, <<<<code, d, 1>>>>)
<1>1. CASE m.off # 0
  BY <1>1, BesideItself DEF icmp_error
<1>2. CASE m.off = 0
  <2>1. icmp_error(w, m, code) = ip_output(w, NoSocket, e)
    BY <1>2 DEF icmp_error
  <2>2. m.src = Datagrams[d].src
    BY PartIs DEF D
  <2>3. code \notin {"answer", "echo"} /\ NoSocket \in Socks
    BY DEF Socks, Errors
  <2> HIDE DEF d
  <2>4. OutOK(ip_output(w, NoSocket, e)) /\ Beside(w, ip_output(w, NoSocket, e))
    BY <2>2, <2>3, SingleGood
  <2>5. QED
    BY <2>1, <2>4
<1>3. QED
  BY <1>1, <1>2

\* The socket of a source address and port.
LEMMA LocateIs ==
  ASSUME NEW w, SocksOK(w), NEW src, NEW sport, Locate(w, src, sport) # {}
  PROVE  \E so \in Range(w.udb) : /\ Locate(w, src, sport) = {so}
                                  /\ w.sock[so].lport = sport /\ w.sock[so].laddr = src
<1> DEFINE Mine(so) == w.sock[so].lport = sport /\ w.sock[so].laddr = src
           I == {i \in 1 .. Len(w.udb) : Mine(w.udb[i])}
           at == SelectInSeq(w.udb, Mine)
<1>1. CASE w.udpLast # NoSocket /\ Mine(w.udpLast)
  <2>1. Locate(w, src, sport) = {w.udpLast}
    BY <1>1 DEF Locate
  <2>2. w.udpLast \in Range(w.udb)
    BY <1>1 DEF SocksOK
  <2>3. QED
    BY <1>1, <2>1, <2>2
<1>2. CASE ~(w.udpLast # NoSocket /\ Mine(w.udpLast))
  <2>1. Locate(w, src, sport) = IF at = 0 THEN {} ELSE {w.udb[at]}
    BY <1>2 DEF Locate
  <2>2. at = IF I # {} THEN Min(I) ELSE 0
    BY DEF SelectInSeq
  <2>3. I \in SUBSET (1 .. Len(w.udb)) /\ Len(w.udb) \in Nat /\ w.udb \in Seq(Sockets)
    BY DEF SocksOK
  <2> HIDE DEF at
  <2>4. I # {} /\ at = Min(I)
    BY <2>1, <2>2
  <2>5. Min(I) \in I
    <3> HIDE DEF I
    <3>1. QED
      BY <2>3, <2>4, Extremes
  <2>6. at \in DOMAIN w.udb /\ Mine(w.udb[at]) /\ at # 0
    <3>1. at \in I
      BY <2>4, <2>5
    <3>2. at \in 1 .. Len(w.udb) /\ Mine(w.udb[at])
      BY <3>1
    <3> HIDE DEF I, Mine
    <3>3. DOMAIN w.udb = 1 .. Len(w.udb)
      BY <2>3
    <3>4. QED
      BY <2>3, <3>2, <3>3
  <2>7. w.udb[at] \in Range(w.udb)
    BY <2>3, <2>6, RangeOf
  <2>8. QED
    BY <2>1, <2>6, <2>7
<1>3. QED
  BY <1>1, <1>2

\* State b is w, with socket so found or new, before its datagram is sent.
Ready(w, b, so) ==
  /\ DOMAIN b = DOMAIN w /\ \A x \in Fields \ {"sock", "fds", "udb", "udpLast"} : b[x] = w[x]
  /\ DOMAIN b.sock = Sockets /\ \A a \in Sockets : a # so => b.sock[a] = w.sock[a]
  /\ b.fds \in Nat /\ w.fds <= b.fds
  /\ b.udb \in Seq(Sockets) /\ \A i, j \in DOMAIN b.udb : b.udb[i] = b.udb[j] => i = j
  /\ Range(b.udb) = Range(w.udb) \cup {so}
  /\ b.udpLast \in Range(b.udb) \cup {NoSocket}
  /\ LET k == b.sock[so]
     IN  /\ KeptOfSocket \subseteq DOMAIN k /\ k.fd \in 1 .. b.fds /\ k.inq \in Seq(Reply)
         /\ \/ so \in Range(w.udb) /\ k.fd = w.sock[so].fd
            \/ so \notin Range(w.udb) /\ k.fd = w.fds + 1
         /\ k.type # "icmp" =>
              /\ \A i \in DOMAIN k.inq : Serves(k, k.inq[i].d, k.inq[i].port, k.inq[i].from)
              /\ \A i \in DOMAIN w.sent : w.sent[i].fd = k.fd =>
                    Serves(k, w.sent[i].d, w.sent[i].port, w.sent[i].to)

\* A socket that is in the list.
LEMMA FoundReady ==
  ASSUME NEW w, OutOK(w), SocksOK(w), NEW so \in Range(w.udb), NEW b, DOMAIN b = DOMAIN w,
         \A x \in Fields \ {"udpLast"} : b[x] = w[x], b.udpLast \in {so, w.udpLast}
  PROVE  Ready(w, b, so)
<1>1. Fields \subseteq DOMAIN w /\ DOMAIN w.sock = Sockets
  BY FieldsOf
<1>2. b.sock = w.sock /\ b.fds = w.fds /\ b.udb = w.udb
  BY DEF Fields
<1>3. SocketOK(w.sent, w.fds, w.sock[so])
  BY DEF SocksOK
<1>4. Range(b.udb) = Range(w.udb) \cup {so}
  BY <1>2
<1>5. b.udpLast \in Range(b.udb) \cup {NoSocket}
  BY <1>2 DEF SocksOK
<1>6. LET k == b.sock[so]
      IN  /\ KeptOfSocket \subseteq DOMAIN k /\ k.fd \in 1 .. b.fds /\ k.inq \in Seq(Reply)
          /\ k.type # "icmp" =>
               \A i \in DOMAIN k.inq : Serves(k, k.inq[i].d, k.inq[i].port, k.inq[i].from)
  BY <1>2, <1>3 DEF SocketOK
<1>7. \A i \in DOMAIN w.sent : w.sent[i].fd = w.sock[so].fd /\ w.sock[so].type # "icmp" =>
          Serves(w.sock[so], w.sent[i].d, w.sent[i].port, w.sent[i].to)
  BY DEF SocksOK
<1>8. w.fds \in Nat /\ w.udb \in Seq(Sockets) /\ \A i, j \in DOMAIN w.udb : w.udb[i] = w.udb[j] => i = j
  BY DEF SocksOK
<1>9. QED
  BY <1>1, <1>2, <1>4, <1>5, <1>6, <1>7, <1>8 DEF Ready

\* A new one.
LEMMA AttachReady ==
  ASSUME NEW w, OutOK(w), SocksOK(w), NEW so \in Sockets, so \notin Range(w.udb),
         NEW k, KeptOfSocket \subseteq DOMAIN k, k.fd = w.fds + 1, k.inq = <<>>,
         NEW b, DOMAIN b = DOMAIN w, b.sock = [w.sock EXCEPT ![so] = k], b.fds = w.fds + 1,
         b.udb = <<so>> \o w.udb, \A x \in Fields \ {"sock", "fds", "udb"} : b[x] = w[x]
  PROVE  Ready(w, b, so)
<1>1. Fields \subseteq DOMAIN w /\ DOMAIN w.sock = Sockets
  BY FieldsOf
<1>4. DOMAIN b.sock = Sockets /\ b.sock[so] = k /\ \A a \in Sockets : a # so => b.sock[a] = w.sock[a]
  BY <1>1
<1>5. w.fds \in Nat /\ w.udb \in Seq(Sockets) /\ \A i, j \in DOMAIN w.udb : w.udb[i] = w.udb[j] => i = j
  BY DEF SocksOK
<1>6. /\ b.udb \in Seq(Sockets) /\ DOMAIN b.udb = 1 .. Len(w.udb) + 1 /\ b.udb[1] = so
      /\ \A i \in 2 .. Len(w.udb) + 1 : b.udb[i] = w.udb[i - 1]
  <2>1. <<so>> \in Seq(Sockets) /\ Len(<<so>>) = 1 /\ <<so>>[1] = so /\ Len(w.udb) \in Nat
    BY <1>5
  <2>2. <<so>> \o w.udb \in Seq(Sockets) /\ Len(<<so>> \o w.udb) = Len(w.udb) + 1
    BY <1>5, <2>1
  <2>3. (<<so>> \o w.udb)[1] = so /\ \A i \in 2 .. Len(w.udb) + 1 : (<<so>> \o w.udb)[i] = w.udb[i - 1]
    BY <1>5, <2>1
  <2>4. QED
    BY <2>2, <2>3
<1>7. \A i \in DOMAIN b.udb : i = 1 \/ (i - 1 \in DOMAIN w.udb /\ b.udb[i] = w.udb[i - 1])
  BY <1>5, <1>6
<1>8. Range(b.udb) = Range(w.udb) \cup {so}
  <2>1. \A x \in Range(b.udb) : x \in Range(w.udb) \cup {so}
    BY <1>6, <1>7 DEF Range
  <2>2. so \in Range(b.udb)
    <3>1. Len(w.udb) \in Nat
      BY <1>5
    <3>2. 1 \in DOMAIN b.udb /\ b.udb[1] = so
      BY <1>6, <3>1
    <3>3. QED
      BY <3>2 DEF Range
  <2>3. \A x \in Range(w.udb) : x \in Range(b.udb)
    <3>1. TAKE x \in Range(w.udb)
    <3>2. PICK i \in DOMAIN w.udb : x = w.udb[i]
      BY DEF Range
    <3>3. i + 1 \in DOMAIN b.udb /\ b.udb[i + 1] = x
      BY <1>5, <1>6, <3>2
    <3>4. QED
      BY <1>6, <3>3, RangeOf
  <2>4. QED
    BY <2>1, <2>2, <2>3
<1>9. \A i, j \in DOMAIN b.udb : b.udb[i] = b.udb[j] => i = j
  <2>1. TAKE i, j \in DOMAIN b.udb
  <2>2. HAVE b.udb[i] = b.udb[j]
  <2>3. \A l \in DOMAIN b.udb : b.udb[l] = so <=> l = 1
    BY <1>5, <1>6, <1>7, RangeOf
  <2>4. CASE i # 1 /\ j # 1
    <3>1. i - 1 = j - 1
      BY <1>5, <1>7, <2>2, <2>4
    <3>2. QED
      BY <1>5, <1>6, <3>1
  <2>5. QED
    BY <2>2, <2>3, <2>4
<1>10. b.udpLast \in Range(b.udb) \cup {NoSocket}
  BY <1>8 DEF Fields, SocksOK
<1>11. \A i \in DOMAIN w.sent : w.sent[i].fd # k.fd
  <2>1. \A i \in DOMAIN w.sent : w.sent[i].fd <= w.fds /\ w.sent[i] \in Sent
    BY DEF SocksOK
  <2>2. QED
    BY <1>5, <2>1 DEF Sent
<1>12. k.fd \in 1 .. b.fds /\ b.fds \in Nat /\ w.fds <= b.fds
  BY <1>5
<1>13. k.inq \in Seq(Reply) /\ DOMAIN k.inq = {}
  OBVIOUS
<1>14. QED
  BY <1>4, <1>6, <1>8, <1>9, <1>10, <1>11, <1>12, <1>13 DEF Ready

\* A datagram is sent on a socket that is ready.
\* The hypotheses of SocketChanges, in one.
SockChange(w, x, so) ==
  /\ x.fds \in Nat /\ w.fds <= x.fds
  /\ x.udb \in Seq(Sockets) /\ \A i, j \in DOMAIN x.udb : x.udb[i] = x.udb[j] => i = j
  /\ Range(x.udb) = Range(w.udb) \cup {so}
  /\ x.udpLast \in Range(x.udb) \cup {NoSocket}
  /\ \A a \in Sockets : a # so => SameSocket(w.sock[a], x.sock[a])
  /\ \A a \in Sockets : a # so /\ w.sock[a] = Free => x.sock[a] = Free
  /\ SocketOK(x.sent, x.fds, x.sock[so])
  /\ \/ so \in Range(w.udb) /\ x.sock[so].fd = w.sock[so].fd
     \/ so \notin Range(w.udb) /\ x.sock[so].fd = w.fds + 1
  /\ \A i \in DOMAIN w.sent :
        w.sent[i].fd = x.sock[so].fd /\ x.sock[so].type # "icmp" =>
           Serves(x.sock[so], w.sent[i].d, w.sent[i].port, w.sent[i].to)
  /\ \/ x.sent = w.sent
     \/ \E e \in Sent :
           /\ x.sent = Append(w.sent, e) /\ e.fd \in {0, x.sock[so].fd}
           /\ e.fd = x.sock[so].fd /\ x.sock[so].type # "icmp" =>
                Serves(x.sock[so], e.d, e.port, e.to)

LEMMA SockChangeKeeps ==
  ASSUME NEW w, NEW x, SocksOK(w), NEW so \in Sockets, SockChange(w, x, so)
  PROVE  SocksOK(x)
BY SocketChanges DEF SockChange

LEMMA SentOn ==
  ASSUME NEW w, SocksOK(w), NEW so \in Sockets, NEW b, Ready(w, b, so), NEW x, OutOK(x),
         NEW e \in Sent,
         \A f \in KeptFields \ {"sent"} : x[f] = b[f],
         x.sent = Append(w.sent, e),
         \A a \in Sockets : a # so => SameSocket(b.sock[a], x.sock[a]),
         \A a \in Sockets : a # so /\ b.sock[a] = Free => x.sock[a] = Free,
         NEW k, k = x.sock[so], KeptOfSocket \subseteq DOMAIN k,
         k.laddr = b.sock[so].laddr, k.lport = b.sock[so].lport, k.inq = b.sock[so].inq,
         k.fd = b.sock[so].fd, k.type = b.sock[so].type,
         Kept(k.m[1]), e.fd \in {0, k.fd},
         k.type # "icmp" => Serves(k, e.d, e.port, e.to) /\ Datagrams[e.d].dst = k.faddr,
         k.shifted => e.fd = 0 /\ e.d = k.m[1].data[1][1]
  PROVE  Keeps(w, x) /\ OnlyOf(w, x, so)
<1> DEFINE l == b.sock[so]
<1>1. /\ x.fds = b.fds /\ x.udb = b.udb /\ x.udpLast = b.udpLast /\ x.leases = b.leases
      /\ x.acked = b.acked /\ x.ipq = b.ipq
  BY DEF KeptFields
<1>2. b.leases = w.leases /\ b.acked = w.acked /\ b.ipq = w.ipq /\ b.sent = w.sent
  BY DEF Ready, Fields
<1>3. /\ b.fds \in Nat /\ w.fds <= b.fds
      /\ b.udb \in Seq(Sockets) /\ \A i, j \in DOMAIN b.udb : b.udb[i] = b.udb[j] => i = j
      /\ Range(b.udb) = Range(w.udb) \cup {so}
      /\ b.udpLast \in Range(b.udb) \cup {NoSocket}
      /\ \A a \in Sockets : a # so => b.sock[a] = w.sock[a]
  BY DEF Ready
<1>4. /\ l.fd \in 1 .. b.fds /\ l.inq \in Seq(Reply)
      /\ \/ so \in Range(w.udb) /\ l.fd = w.sock[so].fd
         \/ so \notin Range(w.udb) /\ l.fd = w.fds + 1
      /\ l.type # "icmp" =>
           /\ \A i \in DOMAIN l.inq : Serves(l, l.inq[i].d, l.inq[i].port, l.inq[i].from)
           /\ \A i \in DOMAIN w.sent : w.sent[i].fd = l.fd =>
                 Serves(l, w.sent[i].d, w.sent[i].port, w.sent[i].to)
  BY DEF Ready
<1>5. \A d, port, to : Serves(l, d, port, to) => Serves(k, d, port, to)
  BY DEF Serves
<1>6. w.sent \in Seq(Sent)
  BY DEF SocksOK
<1>7. \E i \in DOMAIN x.sent : x.sent[i] = e
  <2>1. Len(w.sent) + 1 \in DOMAIN Append(w.sent, e) /\ Append(w.sent, e)[Len(w.sent) + 1] = e
    BY <1>6
  <2>2. QED
    BY <2>1
<1>8. k.type # "icmp" => Directed(x.sent, k)
  <2>1. PICK i \in DOMAIN x.sent : x.sent[i] = e
    BY <1>7
  <2>2. QED
    BY <2>1 DEF Directed, Serves
<1>9. SocketOK(x.sent, x.fds, k)
  <2>1. k.shifted => FailedOf(x.sent, k.m[1].data[1][1])
    <3>1. SUFFICES ASSUME k.shifted
                   PROVE  FailedOf(x.sent, k.m[1].data[1][1])
      OBVIOUS
    <3>2. e.fd = 0 /\ e.d = k.m[1].data[1][1]
      BY <3>1
    <3>3. QED
      BY <1>7, <3>2 DEF FailedOf
  <2>2. QED
    BY <1>1, <1>4, <1>5, <1>8, <2>1 DEF SocketOK, Backed
<1>10. \/ so \in Range(w.udb) /\ k.fd = w.sock[so].fd
       \/ so \notin Range(w.udb) /\ k.fd = w.fds + 1
  BY <1>4
<1>11. \A i \in DOMAIN w.sent : w.sent[i].fd = k.fd /\ k.type # "icmp" =>
          Serves(k, w.sent[i].d, w.sent[i].port, w.sent[i].to)
  BY <1>4, <1>5
<1>12. \A a \in Sockets : a # so => SameSocket(w.sock[a], x.sock[a])
  BY <1>3
<1>13. \A a \in Sockets : a # so /\ w.sock[a] = Free => x.sock[a] = Free
  BY <1>3
<1>14. SocksOK(x)
  <2>1. /\ x.fds \in Nat /\ w.fds <= x.fds
        /\ x.udb \in Seq(Sockets) /\ \A i, j \in DOMAIN x.udb : x.udb[i] = x.udb[j] => i = j
        /\ Range(x.udb) = Range(w.udb) \cup {so}
        /\ x.udpLast \in Range(x.udb) \cup {NoSocket}
    BY <1>1, <1>3
  <2>2. SocketOK(x.sent, x.fds, x.sock[so])
    BY <1>9
  <2>3. \/ so \in Range(w.udb) /\ x.sock[so].fd = w.sock[so].fd
        \/ so \notin Range(w.udb) /\ x.sock[so].fd = w.fds + 1
    BY <1>10
  <2>4. \A i \in DOMAIN w.sent :
           w.sent[i].fd = x.sock[so].fd /\ x.sock[so].type # "icmp" =>
              Serves(x.sock[so], w.sent[i].d, w.sent[i].port, w.sent[i].to)
    BY <1>11
  <2>5. x.sent = w.sent \/ \E y \in Sent :
           /\ x.sent = Append(w.sent, y) /\ y.fd \in {0, x.sock[so].fd}
           /\ y.fd = x.sock[so].fd /\ x.sock[so].type # "icmp" =>
                Serves(x.sock[so], y.d, y.port, y.to)
    OBVIOUS
  <2>6. SockChange(w, x, so)
    BY <1>12, <1>13, <2>1, <2>2, <2>3, <2>4, <2>5 DEF SockChange
  <2>7. QED
    BY <2>6, SockChangeKeeps
<1>15. QED
  BY <1>1, <1>2, <1>3, <1>12, <1>14 DEF Keeps, OnlyOf

\* What is recorded of a datagram that goes out.
LEMMA RecordIs ==
  ASSUME NEW m \in Part, NEW fd \in Nat, NEW port \in Ports, NEW f \in BOOLEAN
  PROVE  [d |-> m.data[1][1], fd |-> fd, to |-> HostOf(m.dst), port |-> port, whole |-> f] \in Sent
<1>1. m.data[1][1] \in DOMAIN Datagrams /\ D(m).dst = m.dst
  BY PartIs
<1>2. D(m) \in Range(Datagrams)
  BY <1>1 DEF D, Range
<1>3. HostOf(m.dst) \in Hosts
  BY <1>1, <1>2 DEF Hosts
<1>4. QED
  BY <1>1, <1>3 DEF Sent

\* A packet without its last units is still one of the guest's.
LEMMA CheckedIs ==
  ASSUME NEW m \in Part, Checked(m) # <<>>
  PROVE  LET cut == [m EXCEPT !.data = SubSeq(@, 1, D(m).n)]
         IN  /\ Checked(m) = <<cut>> /\ cut \in Part /\ cut.off = m.off /\ cut.mf = m.mf
             /\ cut.p = m.p /\ cut.src = m.src /\ cut.dst = m.dst
             /\ cut.data[1] = m.data[1]
<1> DEFINE n == D(m).n
           d == SubSeq(m.data, 1, n)
           cut == [m EXCEPT !.data = d]
<1>1. Checked(m) = <<cut>> /\ n <= Units(m)
  <2>1. Checked(m) = <<>> \/ (Checked(m) = <<cut>> /\ ~(n > Units(m)))
    BY DEF Checked
  <2>2. m.data[1][1] \in DOMAIN Datagrams /\ Units(m) \in Nat
    BY PartIs DEF Units
  <2>3. n \in Nat
    BY <2>2, DatagramsAssumption DEF D
  <2>4. QED
    BY <2>1, <2>2, <2>3
<1>2. m.data[1][1] \in DOMAIN Datagrams /\ m.data \in Seq(Unit) /\ Len(m.data) \in Nat
  BY PartIs
<1>3. n \in Nat \ {0}
  BY <1>2, DatagramsAssumption DEF D
<1>4. n <= Len(m.data)
  BY <1>1 DEF Units
<1> HIDE DEF n
<1>5. /\ d \in Seq(Unit) /\ Len(d) = n /\ \A i \in 1 .. n : d[i] = m.data[i]
  BY <1>2, <1>3, <1>4
<1>6. DOMAIN d = 1 .. n /\ d # <<>> /\ 1 \in 1 .. n
  <2>1. DOMAIN d = 1 .. n /\ 1 \in 1 .. n
    BY <1>3, <1>5
  <2>2. Len(d) # 0
    BY <1>3, <1>5
  <2>4. d # <<>>
    BY <2>2, EmptySeq
  <2>3. QED
    BY <2>1, <2>4
<1>7. \A i \in DOMAIN d : i \in DOMAIN m.data /\ d[i] = m.data[i]
  BY <1>2, <1>3, <1>4, <1>5, <1>6
<1> HIDE DEF d
<1>8. /\ m \in IpPacket /\ m.data # <<>>
      /\ \A i \in DOMAIN m.data :
            LET e == Datagrams[m.data[i][1]] IN e.p = m.p /\ e.src = m.src /\ e.dst = m.dst
  BY DEF Part
<1>9. cut \in IpPacket /\ cut.data = d /\ cut.p = m.p /\ cut.src = m.src /\ cut.dst = m.dst
      /\ cut.off = m.off /\ cut.mf = m.mf
  BY <1>5, <1>8 DEF IpPacket
<1> HIDE DEF cut
<1>10. cut \in Part
  BY <1>6, <1>7, <1>8, <1>9 DEF Part
<1>11. cut.data[1] = m.data[1]
  BY <1>6, <1>7, <1>9
<1>12. QED
  BY <1>1, <1>9, <1>10, <1>11 DEF cut, d, n

\* The socket of a datagram, found or new.
LEMMA WithSocketReady ==
  ASSUME NEW w, OutOK(w), SocksOK(w), NEW m \in Part, NEW so,
         LET found == Locate(w, m.src, D(m).sport)
         IN  IF found # {} THEN so = CHOOSE x \in found : TRUE
             ELSE so \in Sockets /\ so \notin Range(w.udb)
  PROVE  LET b == WithSocket(w, m, so)
         IN  /\ so \in Sockets /\ Ready(w, b, so)
             /\ b.sock[so].laddr = m.src /\ b.sock[so].lport = D(m).sport
<1> DEFINE found == Locate(w, m.src, D(m).sport)
           b == WithSocket(w, m, so)
<1>1. Fields \subseteq DOMAIN w /\ DOMAIN w.sock = Sockets /\ w.udb \in Seq(Sockets)
  BY FieldsOf DEF SocksOK
<1>2. CASE found # {}
  <2>1. PICK a \in Range(w.udb) : /\ found = {a} /\ w.sock[a].lport = D(m).sport
                                  /\ w.sock[a].laddr = m.src
    BY <1>2, LocateIs
  <2>2. so = a
    BY <2>1
  <2>3. b = [w EXCEPT !.udpLast = so]
    BY <1>2 DEF WithSocket
  <2>4. /\ DOMAIN b = DOMAIN w /\ \A x \in Fields \ {"udpLast"} : b[x] = w[x]
        /\ b.udpLast \in {so, w.udpLast} /\ b.sock = w.sock
    BY <1>1, <2>3 DEF Fields
  <2> HIDE DEF b
  <2>5. Ready(w, b, so)
    BY <2>1, <2>2, <2>4, FoundReady
  <2>6. so \in Sockets
    BY <1>1, <2>1, <2>2, RangeOf
  <2>7. QED
    BY <2>1, <2>2, <2>4, <2>5, <2>6 DEF b
<1>3. CASE found = {}
  <2> DEFINE k == [NewSocket(w.fds + 1) EXCEPT !.laddr = m.src, !.lport = D(m).sport,
                                               !.lowdelay = D(m).low]
  <2>1. b = [udp_attach(w, so) EXCEPT !.sock[so].laddr = m.src, !.sock[so].lport = D(m).sport,
                                      !.sock[so].lowdelay = D(m).low]
    BY <1>3 DEF WithSocket
  <2>2. so \in Sockets /\ so \notin Range(w.udb)
    BY <1>3
  <2>3. /\ DOMAIN b = DOMAIN w /\ b.sock = [w.sock EXCEPT ![so] = k] /\ b.fds = w.fds + 1
        /\ b.udb = <<so>> \o w.udb /\ \A x \in Fields \ {"sock", "fds", "udb"} : b[x] = w[x]
    <3> DEFINE a == udp_attach(w, so)
               new == NewSocket(w.fds + 1)
    <3>1. /\ DOMAIN a = DOMAIN w /\ a.sock = [w.sock EXCEPT ![so] = new] /\ a.fds = w.fds + 1
          /\ a.udb = <<so>> \o w.udb /\ \A x \in Fields \ {"sock", "fds", "udb"} : a[x] = w[x]
      BY <1>1 DEF udp_attach, Fields
    <3>2. DOMAIN a.sock = Sockets /\ a.sock[so] = new /\ "sock" \in DOMAIN a
      BY <1>1, <2>2, <3>1 DEF Fields
    <3> HIDE DEF a, new
    <3>3. b = [a EXCEPT !.sock[so].laddr = m.src, !.sock[so].lport = D(m).sport,
                        !.sock[so].lowdelay = D(m).low]
      BY <2>1 DEF a
    <3>4. /\ DOMAIN b.sock = Sockets /\ \A y \in Sockets : y # so => b.sock[y] = a.sock[y]
          /\ b.sock[so] = k /\ b.sock \in [Sockets -> {b.sock[y] : y \in Sockets}]
      BY <2>2, <3>2, <3>3 DEF new
    <3> HIDE DEF k
    <3>5. b.sock = [w.sock EXCEPT ![so] = k]
      BY <1>1, <2>2, <3>1, <3>2, <3>4
    <3>6. DOMAIN b = DOMAIN a /\ \A x \in DOMAIN a : x # "sock" => b[x] = a[x]
      BY <3>3
    <3> HIDE DEF b
    <3>7. QED
      BY <1>1, <3>1, <3>5, <3>6 DEF Fields
  <2>4. /\ KeptOfSocket \subseteq DOMAIN k /\ k.fd = w.fds + 1 /\ k.inq = <<>>
        /\ k.laddr = m.src /\ k.lport = D(m).sport
    BY DEF NewSocket, KeptOfSocket
  <2> HIDE DEF b, k
  <2>5. Ready(w, b, so)
    BY <2>2, <2>3, <2>4, AttachReady
  <2>6. b.sock[so] = k
    BY <1>1, <2>2, <2>3
  <2>7. QED
    BY <2>2, <2>4, <2>5, <2>6 DEF b
<1>4. QED
  BY <1>2, <1>3

\* One of the free sockets.
LEMMA FreeSocketIs ==
  ASSUME NEW w, FreeSockets(w) # {}
  PROVE  FreeSocket(w) \in Sockets /\ FreeSocket(w) \notin Range(w.udb)
BY DEF FreeSocket, FreeSockets

\* udp_input, of anything but DHCP.
LEMMA UdpSent ==
  ASSUME NEW w, OutOK(w), SocksOK(w), NEW m \in Part, m.off = 0, m.mf = FALSE, m.p = "udp",
         NEW cut \in Part, cut.off = 0, cut.mf = FALSE, cut.p = "udp", cut.src = m.src,
         cut.dst = m.dst, cut.data[1] = m.data[1], NEW fails \in BOOLEAN,
         NEW so \in Sockets, NEW b, Ready(w, b, so),
         b.sock[so].laddr = m.src, b.sock[so].lport = D(m).sport
  PROVE  LET t == [b EXCEPT !.sock[so].faddr = m.dst, !.sock[so].fport = D(m).dport]
             u == sosendto(t, so, cut, fails)
             v == IF fails THEN icmp_error(u, cut, "net") ELSE u
             x == [v EXCEPT !.sock[so].m = <<cut>>, !.sock[so].shifted = fails]
         IN  Keeps(w, x)
<1> DEFINE t == [b EXCEPT !.sock[so].faddr = m.dst, !.sock[so].fport = D(m).dport]
           u == sosendto(t, so, cut, fails)
           v == IF fails THEN icmp_error(u, cut, "net") ELSE u
           x == [v EXCEPT !.sock[so].m = <<cut>>, !.sock[so].shifted = fails]
           l == b.sock[so]
           d == m.data[1][1]
           e == [d |-> d, fd |-> IF fails THEN 0 ELSE l.fd, to |-> HostOf(m.dst),
                 port |-> D(m).dport, whole |-> cut.data = Whole(d)]
<1>1. /\ Fields \subseteq DOMAIN b /\ DOMAIN b = DOMAIN w
      /\ \A f \in Fields \ {"sock", "fds", "udb", "udpLast"} : b[f] = w[f]
      /\ DOMAIN b.sock = Sockets /\ KeptOfSocket \subseteq DOMAIN l
      /\ b.fds \in Nat /\ l.fd \in 1 .. b.fds
      /\ OutFields \subseteq Fields \ {"sock", "fds", "udb", "udpLast"}
  BY FieldsOf DEF Ready, OutFields, Fields
<1>2. w.sent \in Seq(Sent) /\ b.sent = w.sent
  BY <1>1 DEF SocksOK, Fields
<1>3. /\ DOMAIN t = DOMAIN b /\ DOMAIN t.sock = Sockets
      /\ \A f \in Fields \ {"sock"} : t[f] = b[f]
      /\ \A a \in Sockets : a # so => t.sock[a] = b.sock[a]
      /\ DOMAIN t.sock[so] = DOMAIN l /\ t.sock[so].faddr = m.dst /\ t.sock[so].fport = D(m).dport
      /\ \A f \in KeptOfSocket \ {"faddr", "fport"} : t.sock[so][f] = l[f]
  BY <1>1 DEF Fields, KeptOfSocket
<1> HIDE DEF t
<1>4. e \in Sent
  <2>1. D(m) \in Range(Datagrams)
    BY PartIs DEF D, Range
  <2>2. D(m).dport \in Ports
    BY <2>1 DEF Ports
  <2>3. (IF fails THEN 0 ELSE l.fd) \in Nat
    BY <1>1
  <2>4. (cut.data = Whole(d)) \in BOOLEAN
    OBVIOUS
  <2>5. QED
    BY <2>2, <2>3, <2>4, RecordIs
<1>5. cut.data[1][1] = d
  OBVIOUS
<1>6. l.fd = t.sock[so].fd
  BY <1>3 DEF KeptOfSocket
<1>7. Sendto(t, so, cut, fails) = [t EXCEPT !.sent = Append(@, e)]
  BY <1>3, <1>5, <1>6 DEF Sendto, HostAddress, HostOf
<1> HIDE DEF e
<1>8. /\ DOMAIN u = DOMAIN b /\ DOMAIN u.sock = Sockets /\ u.sent = Append(w.sent, e)
      /\ \A f \in Fields \ {"sock", "sent"} : u[f] = b[f]
      /\ \A a \in Sockets : a # so => u.sock[a] = b.sock[a]
      /\ DOMAIN u.sock[so] = DOMAIN l /\ u.sock[so].faddr = m.dst
      /\ \A f \in KeptOfSocket \ {"faddr", "fport", "expire", "con"} : u.sock[so][f] = l[f]
  <2> DEFINE z == [t EXCEPT !.sent = Append(@, e)]
  <2>1. /\ DOMAIN z = DOMAIN t /\ \A f \in Fields \ {"sent"} : z[f] = t[f]
        /\ z.sent = Append(t.sent, e) /\ z.sock = t.sock
    BY <1>1, <1>3 DEF Fields
  <2> HIDE DEF z
  <2>2. t.sent = w.sent
    BY <1>2, <1>3 DEF Fields
  <2>3. CASE fails
    <3>1. u = z
      BY <1>7, <2>3 DEF sosendto, z
    <3> HIDE DEF u
    <3>2. QED
      BY <1>3, <2>1, <2>2, <3>1 DEF Fields, KeptOfSocket
  <2>4. CASE ~fails
    <3>1. u = [z EXCEPT !.sock[so].expire = SoExpire, !.sock[so].con = TRUE]
      BY <1>7, <2>4 DEF sosendto, z
    <3>2. DOMAIN z.sock = Sockets /\ Fields \subseteq DOMAIN z
      BY <1>1, <1>3, <2>1
    <3>3. /\ DOMAIN u = DOMAIN z /\ DOMAIN u.sock = Sockets
          /\ \A f \in Fields \ {"sock"} : u[f] = z[f]
          /\ \A a \in Sockets : a # so => u.sock[a] = z.sock[a]
          /\ DOMAIN u.sock[so] = DOMAIN z.sock[so]
          /\ \A f \in KeptOfSocket \ {"expire", "con"} : u.sock[so][f] = z.sock[so][f]
      <4>1. /\ DOMAIN u = DOMAIN z /\ DOMAIN u.sock = Sockets
            /\ \A f \in DOMAIN z : f # "sock" => u[f] = z[f]
        BY <3>1, <3>2 DEF Fields
      <4>2. \A a \in Sockets : a # so => u.sock[a] = z.sock[a]
        BY <3>1, <3>2 DEF Fields
      <4>3. DOMAIN u.sock[so] = DOMAIN z.sock[so]
        BY <3>1, <3>2 DEF Fields
      <4>4. \A f \in DOMAIN z.sock[so] : f \notin {"expire", "con"} => u.sock[so][f] = z.sock[so][f]
        <5> DEFINE y == [z EXCEPT !.sock[so].expire = SoExpire]
        <5>1. /\ "sock" \in DOMAIN y /\ DOMAIN y.sock = Sockets
              /\ y.sock[so] = [z.sock[so] EXCEPT !.expire = SoExpire]
          BY <3>2 DEF Fields
        <5>2. u = [y EXCEPT !.sock[so].con = TRUE]
          BY <3>1
        <5> HIDE DEF y, u
        <5>3. u.sock[so] = [y.sock[so] EXCEPT !.con = TRUE]
          BY <5>1, <5>2
        <5>4. QED
          BY <5>1, <5>3
      <4>5. KeptOfSocket \subseteq DOMAIN z.sock[so]
        BY <1>1, <1>3, <2>1
      <4> HIDE DEF u
      <4>6. QED
        BY <3>2, <4>1, <4>2, <4>3, <4>4, <4>5 DEF Fields
    <3> HIDE DEF u
    <3>4. QED
      BY <1>3, <2>1, <2>2, <3>3 DEF Fields, KeptOfSocket
  <2>5. QED
    BY <2>3, <2>4
<1> HIDE DEF u
<1>9. OutOK(u)
  <2>1. \A f \in OutFields : u[f] = w[f]
    BY <1>1, <1>8 DEF OutFields, Fields
  <2>2. DOMAIN u = DOMAIN w
    BY <1>1, <1>8
  <2>3. QED
    BY <1>2, <1>4, <1>8, <2>1, <2>2, OutSame
<1>10. OutOK(v) /\ Beside(u, v)
  <2>1. OutOK(icmp_error(u, cut, "net")) /\ Beside(u, icmp_error(u, cut, "net"))
    BY <1>9, IcmpErrorGood DEF Errors
  <2>2. CASE fails
    BY <2>1, <2>2
  <2>3. CASE ~fails
    BY <1>9, <2>3, BesideItself
  <2>4. QED
    BY <2>2, <2>3
<1> HIDE DEF v
<1>11. /\ DOMAIN v = DOMAIN u /\ \A f \in KeptFields : v[f] = u[f]
       /\ DOMAIN v.sock = Sockets /\ \A a \in Sockets : SameSocket(u.sock[a], v.sock[a])
       /\ \A a \in Sockets : u.sock[a] = Free => v.sock[a] = Free
  BY <1>8, <1>10 DEF Beside, SameSocks
<1>12. /\ DOMAIN x = DOMAIN v /\ DOMAIN x.sock = Sockets
       /\ \A f \in Fields \ {"sock"} : x[f] = v[f]
       /\ \A a \in Sockets : a # so => x.sock[a] = v.sock[a]
       /\ DOMAIN x.sock[so] = DOMAIN v.sock[so] /\ x.sock[so].m = <<cut>>
       /\ x.sock[so].shifted = fails
       /\ \A f \in KeptOfSocket \ {"m", "shifted"} : x.sock[so][f] = v.sock[so][f]
  <2>1. Fields \subseteq DOMAIN v
    BY <1>1, <1>8, <1>11
  <2>2. KeptOfSocket \subseteq DOMAIN v.sock[so]
    BY <1>1, <1>8, <1>11 DEF SameSocket
  <2>3. QED
    BY <1>11, <2>1, <2>2 DEF Fields, KeptOfSocket
<1> HIDE DEF x
<1>13. OutOK(x)
  <2>1. \A f \in OutFields : x[f] = v[f]
    BY <1>12 DEF OutFields, Fields
  <2>2. x.sent = v.sent
    BY <1>12 DEF Fields
  <2>3. QED
    BY <1>10, <1>12, <2>1, <2>2, OutSame
<1> DEFINE k == x.sock[so]
<1>14. /\ KeptOfSocket \subseteq DOMAIN k /\ k.laddr = l.laddr /\ k.lport = l.lport
       /\ k.inq = l.inq /\ k.fd = l.fd /\ k.type = l.type /\ k.faddr = m.dst /\ k.m[1] = cut
       /\ k.shifted = fails
  BY <1>1, <1>8, <1>11, <1>12 DEF SameSocket, KeptOfSocket
<1>15. \A f \in KeptFields \ {"sent"} : x[f] = b[f]
  BY <1>8, <1>11, <1>12 DEF KeptFields, Fields
<1>16. x.sent = Append(w.sent, e)
  BY <1>8, <1>11, <1>12 DEF KeptFields, Fields
<1>17. /\ \A a \in Sockets : a # so => SameSocket(b.sock[a], x.sock[a])
       /\ \A a \in Sockets : a # so /\ b.sock[a] = Free => x.sock[a] = Free
  BY <1>8, <1>11, <1>12
<1>18. Kept(k.m[1])
  BY <1>14 DEF Kept
<1>19. e.fd \in {0, k.fd} /\ Serves(k, e.d, e.port, e.to) /\ Datagrams[e.d].dst = k.faddr
  <2>1. D(m).src = m.src /\ D(m).dst = m.dst /\ D(m) = Datagrams[d]
    BY PartIs DEF D
  <2>2. /\ e.d = d /\ e.port = D(m).dport /\ e.to = HostOf(m.dst)
        /\ e.fd \in {0, l.fd}
    BY DEF e
  <2>3. QED
    BY <1>14, <2>1, <2>2 DEF Serves
<1>20. k.shifted => e.fd = 0 /\ e.d = k.m[1].data[1][1]
  <2>1. e.d = d /\ (fails => e.fd = 0)
    BY DEF e
  <2> HIDE DEF k
  <2>2. QED
    BY <1>5, <1>14, <2>1
<1>21. Keeps(w, x)
  <2> HIDE DEF k, l
  <2>1. k = x.sock[so] /\ l = b.sock[so]
    BY DEF k, l
  <2>2. QED
    BY <1>4, <1>13, <1>14, <1>15, <1>16, <1>17, <1>18, <1>19, <1>20, <2>1, SentOn
<1>22. QED
  BY <1>21 DEF t, u, v, x

\* A whole state: the queues, the sockets and the leases.
LeasesOK(w) ==
  /\ DOMAIN w.leases = Leases
  /\ \A a \in w.acked : a[1] \in Leases /\ a[2] # Free /\ w.leases[a[1]] = a[2]

Good(w) == OutOK(w) /\ SocksOK(w) /\ LeasesOK(w)

LEMMA KeepsGood ==
  ASSUME NEW w, NEW t, Good(w), Keeps(w, t)
  PROVE  Good(t) /\ t.ipq = w.ipq
BY DEF Good, Keeps, LeasesOK

LEMMA BesideGood ==
  ASSUME NEW w, NEW t, Good(w), OutOK(t), Beside(w, t)
  PROVE  Good(t) /\ t.ipq = w.ipq
<1>1. Keeps(w, t)
  BY BesideKeeps DEF Good
<1>2. QED
  BY <1>1, KeepsGood

\* Changes that neither the queues nor the sockets see.
LEMMA GoodSame ==
  ASSUME NEW w, NEW t, Good(w), DOMAIN t = DOMAIN w,
         \A x \in OutFields \cup {"sock", "udb", "udpLast", "fds", "sent"} : t[x] = w[x],
         LeasesOK(t)
  PROVE  Good(t)
<1>1. /\ t.sock = w.sock /\ t.udb = w.udb /\ t.udpLast = w.udpLast /\ t.fds = w.fds
      /\ t.sent = w.sent /\ \A x \in OutFields : t[x] = w[x]
  OBVIOUS
<1>2. OutOK(t)
  <2>1. OutOK(w) /\ DOMAIN t.sock = Sockets
    BY <1>1, FieldsOf DEF Good
  <2>2. QED
    BY <1>1, <2>1, OutSame
<1>3. SocksOK(t)
  BY <1>1 DEF SocksOK, Good
<1>4. QED
  BY <1>2, <1>3 DEF Good

\* Whoever is granted an address had it, or nobody had.
LEMMA GrantedIs ==
  ASSUME NEW w, NEW msg, NEW i \in Granted(w, msg)
  PROVE  i \in Leases /\ w.leases[i] \in {Free, msg.mac}
<1> DEFINE requested == IF msg.addr = 0 THEN {} ELSE request_addr(w, msg.addr, msg.mac)
           new == get_new_addr(w, msg.mac)
           found == find_addr(w, msg.mac)
<1>1. \A j \in requested : j \in Leases /\ w.leases[j] \in {Free, msg.mac}
  BY DEF request_addr
<1>2. \A j \in new \cup found : j \in Leases /\ w.leases[j] \in {Free, msg.mac}
  BY DEF get_new_addr, find_addr, First
<1>3. Granted(w, msg) \in {requested, new, found}
  BY DEF Granted
<1> HIDE DEF requested, new, found
<1>4. QED
  BY <1>1, <1>2, <1>3

LEMMA BootpGood ==
  ASSUME NEW w, Good(w), NEW msg, msg.mac # Free
  PROVE  Good(bootp_reply(w, msg)) /\ bootp_reply(w, msg).ipq = w.ipq
<1> DEFINE addr == Granted(w, msg)
           kind == IF addr = {} THEN "nak" ELSE IF msg.type = "discover" THEN "offer" ELSE "ack"
           t == [w EXCEPT !.mac = msg.mac,
                          !.leases = [i \in Leases |-> IF i \in addr THEN msg.mac ELSE @[i]],
                          !.acked = IF kind = "ack" THEN @ \cup {<<a, msg.mac>> : a \in addr}
                                    ELSE @]
           reply == Packet("dhcp", Vhost, Broadcast, <<<<kind, msg.mac, addr>>>>)
<1>1. bootp_reply(w, msg) \in {w, t, ip_output(t, NoSocket, reply)}
  BY DEF bootp_reply
<1>2. Fields \subseteq DOMAIN w
  BY FieldsOf DEF Good
<1>3. kind \in {"nak", "offer", "ack"}
  OBVIOUS
<1>4. \A i \in addr : i \in Leases /\ w.leases[i] \in {Free, msg.mac}
  BY GrantedIs
<1> HIDE DEF addr, kind
<1>5. /\ DOMAIN t = DOMAIN w /\ \A x \in Fields \ {"mac", "leases", "acked"} : t[x] = w[x]
      /\ t.leases = [i \in Leases |-> IF i \in addr THEN msg.mac ELSE w.leases[i]]
      /\ t.acked \subseteq w.acked \cup {<<a, msg.mac>> : a \in addr}
  BY <1>2 DEF Fields
<1> HIDE DEF t
<1>6. LeasesOK(t)
  <2>1. ASSUME NEW a \in t.acked
        PROVE  a[1] \in Leases /\ a[2] # Free /\ t.leases[a[1]] = a[2]
    <3>1. CASE a \in w.acked
      <4>1. a[1] \in Leases /\ a[2] # Free /\ w.leases[a[1]] = a[2]
        BY <3>1 DEF Good, LeasesOK
      <4>2. QED
        BY <1>4, <1>5, <4>1
    <3>2. CASE a \notin w.acked
      <4>1. PICK i \in addr : a = <<i, msg.mac>>
        BY <1>5, <2>1, <3>2
      <4>2. QED
        BY <1>4, <1>5, <4>1
    <3>3. QED
      BY <3>1, <3>2
  <2>2. QED
    BY <1>5, <2>1 DEF LeasesOK
<1>7. Good(t) /\ t.ipq = w.ipq
  <2>1. \A x \in OutFields \cup {"sock", "udb", "udpLast", "fds", "sent"} : t[x] = w[x]
    BY <1>5 DEF OutFields, Fields
  <2>2. t.ipq = w.ipq
    BY <1>5 DEF Fields
  <2>3. QED
    BY <1>5, <1>6, <2>1, <2>2, GoodSame
<1>8. OutOK(ip_output(t, NoSocket, reply)) /\ Beside(t, ip_output(t, NoSocket, reply))
  <2>1. OutOK(t) /\ NoSocket \in Socks
    BY <1>7 DEF Good, Socks
  <2>2. kind \notin {"answer", "echo"} /\ kind \notin Errors
    BY <1>3 DEF Errors
  <2>3. QED
    BY <2>1, <2>2, SingleGood
<1> HIDE DEF reply
<1>9. Good(ip_output(t, NoSocket, reply)) /\ ip_output(t, NoSocket, reply).ipq = t.ipq
  BY <1>7, <1>8, BesideGood
<1>10. QED
  BY <1>1, <1>7, <1>9

\* udp_input.
LEMMA UdpInputGood ==
  ASSUME NEW w, Good(w), NEW m \in Part, m.off = 0, m.mf = FALSE, m.p = "udp",
         NEW fails \in BOOLEAN
  PROVE  Good(udp_input(w, m, fails)) /\ udp_input(w, m, fails).ipq = w.ipq
<1> DEFINE found == Locate(w, m.src, D(m).sport)
           so == IF found # {} THEN CHOOSE x \in found : TRUE ELSE FreeSocket(w)
           cut == [m EXCEPT !.data = SubSeq(@, 1, D(m).n)]
           b == WithSocket(w, m, so)
           t == [b EXCEPT !.sock[so].faddr = m.dst, !.sock[so].fport = D(m).dport]
           u == sosendto(t, so, cut, fails)
           v == IF fails THEN icmp_error(u, cut, "net") ELSE u
           x == [v EXCEPT !.sock[so].m = <<cut>>, !.sock[so].shifted = fails]
<1>1. CASE Checked(m) = <<>>
  BY <1>1 DEF udp_input
<1>2. CASE Checked(m) # <<>> /\ D(m).dport = Bootps
  <2>1. udp_input(w, m, fails) = bootp_reply(w, D(m).msg)
    BY <1>2 DEF udp_input
  <2>2. m.data[1][1] \in DOMAIN Datagrams
    BY PartIs
  <2>3. D(m).msg.mac # Free
    BY <1>2, <2>2, DatagramsAssumption DEF D
  <2>4. QED
    BY <2>1, <2>3, BootpGood
<1>3. CASE Checked(m) # <<>> /\ D(m).dport # Bootps /\ found = {} /\ FreeSockets(w) = {}
  BY <1>3 DEF udp_input
<1>4. CASE Checked(m) # <<>> /\ D(m).dport # Bootps /\ ~(found = {} /\ FreeSockets(w) = {})
  <2>1. /\ Checked(m) = <<cut>> /\ cut \in Part /\ cut.off = 0 /\ cut.mf = FALSE
        /\ cut.p = "udp" /\ cut.src = m.src /\ cut.dst = m.dst /\ cut.data[1] = m.data[1]
    BY <1>4, CheckedIs
  <2>2. udp_input(w, m, fails) = x
    <3> DEFINE Sent1(c) == sosendto(t, so, c, fails)
               All(g, c) == [IF fails THEN icmp_error(Sent1(c), c, "net") ELSE Sent1(c)
                             EXCEPT !.sock[so].m = g, !.sock[so].shifted = fails]
    <3>1. udp_input(w, m, fails) = All(Checked(m), Checked(m)[1])
      BY <1>4 DEF udp_input
    <3>2. x = All(<<cut>>, cut)
      OBVIOUS
    <3> HIDE DEF All, cut, x
    <3>3. Checked(m)[1] = cut
      BY <2>1
    <3>4. QED
      BY <2>1, <3>1, <3>2, <3>3
  <2>3. IF found # {} THEN so = CHOOSE y \in found : TRUE
        ELSE so \in Sockets /\ so \notin Range(w.udb)
    BY <1>4, FreeSocketIs
  <2> HIDE DEF cut, so
  <2>4. OutOK(w) /\ SocksOK(w)
    BY DEF Good
  <2>5. /\ so \in Sockets /\ Ready(w, b, so)
        /\ b.sock[so].laddr = m.src /\ b.sock[so].lport = D(m).sport
    BY <2>3, <2>4, WithSocketReady
  <2> HIDE DEF b
  <2>6. Keeps(w, x)
    BY <2>1, <2>4, <2>5, UdpSent
  <2> HIDE DEF x
  <2>7. QED
    BY <2>2, <2>6, KeepsGood
<1>5. QED
  BY <1>1, <1>2, <1>3, <1>4

\* icmp_reflect, of a ping as the guest has sent it.
LEMMA ReflectGood ==
  ASSUME NEW w, OutOK(w), NEW m, Kept(m)
  PROVE  OutOK(icmp_reflect(w, m)) /\ Beside(w, icmp_reflect(w, m))
<1> DEFINE d == [i \in DOMAIN m.data |-> <<"echo">> \o m.data[i]]
           r == [m EXCEPT !.src = m.dst, !.dst = m.src, !.id = 0, !.data = d]
<1>1. m \in Part /\ m.off = 0 /\ m.mf = FALSE
  BY DEF Kept
<1>2. /\ m.data \in Seq(Unit) /\ Len(m.data) \in Nat /\ Len(m.data) >= 1
      /\ DOMAIN m.data = 1 .. Len(m.data)
      /\ {"src", "dst", "off", "mf", "data", "p", "id"} \subseteq DOMAIN m
  BY <1>1, PartIs
<1>3. icmp_reflect(w, m) = ip_output(w, NoSocket, r)
  BY DEF icmp_reflect
<1>4. /\ {"src", "dst", "off", "mf", "data"} \subseteq DOMAIN r
      /\ r.src = m.dst /\ r.dst = m.src /\ r.data = d /\ r.off = 0 /\ r.mf = FALSE
  BY <1>1, <1>2
<1>5. \A i \in DOMAIN m.data : /\ m.data[i] \in Unit
                               /\ m.data[i][1] \in DOMAIN Datagrams
                               /\ Datagrams[m.data[i][1]].p = m.p
                               /\ Datagrams[m.data[i][1]].src = m.src
                               /\ Datagrams[m.data[i][1]].dst = m.dst
  <2>1. \A i \in DOMAIN m.data : m.data[i] \in Unit
    BY <1>2
  <2>2. \A x \in Unit : x[1] \in DOMAIN Datagrams
    BY DEF Unit
  <2>3. QED
    BY <1>1, <2>1, <2>2 DEF Part
<1>6. \A x \in Unit : LET y == <<"echo">> \o x IN y[1] = "echo" /\ y[2] = x[1] /\ y[3] = x[2]
  <2>1. TAKE x \in Unit
  <2>2. PICK a \in DOMAIN Datagrams, n \in Nat : x = <<a, n>>
    BY DEF Unit
  <2> DEFINE S == {"echo", a, n}
             p == <<"echo">>
             q == <<a, n>>
  <2>3. /\ p \in Seq(S) /\ q \in Seq(S) /\ Len(p) = 1 /\ Len(q) = 2
        /\ p[1] = "echo" /\ q[1] = a /\ q[2] = n /\ q = x
    BY <2>2
  <2> HIDE DEF S, q
  <2>4. (p \o q)[1] = p[1] /\ (p \o q)[2] = q[1] /\ (p \o q)[3] = q[2]
    <3> HIDE DEF p
    <3>1. p \in Seq(S) /\ q \in Seq(S) /\ Len(p) = 1 /\ Len(q) = 2
      BY <2>3
    <3>2. \A i \in 1 .. Len(p) + Len(q) : (p \o q)[i] = IF i <= Len(p) THEN p[i] ELSE q[i - Len(p)]
      BY <3>1, ConcatProperties
    <3>3. /\ {1, 2, 3} \subseteq 1 .. Len(p) + Len(q) /\ 1 <= Len(p)
          /\ ~(2 <= Len(p)) /\ ~(3 <= Len(p)) /\ 2 - Len(p) = 1 /\ 3 - Len(p) = 2
      BY <3>1
    <3>4. (p \o q)[1] = p[1]
      BY <3>2, <3>3
    <3>5. (p \o q)[2] = q[2 - Len(p)] /\ (p \o q)[3] = q[3 - Len(p)]
      BY <3>2, <3>3
    <3>6. QED
      BY <3>3, <3>4, <3>5
  <2>5. QED
    BY <2>2, <2>3, <2>4
<1>7. \A i \in DOMAIN m.data : d[i] = <<"echo">> \o m.data[i]
  OBVIOUS
<1>8. DOMAIN d = 1 .. Len(m.data) /\ d \in Seq({d[i] : i \in DOMAIN m.data}) /\ d # <<>>
  <2>1. d \in [1 .. Len(m.data) -> {d[i] : i \in DOMAIN m.data}]
    BY <1>2
  <2>2. DOMAIN d = 1 .. Len(m.data)
    BY <1>2
  <2> HIDE DEF d
  <2>3. d \in Seq({d[i] : i \in DOMAIN m.data})
    BY <1>2, <2>1
  <2>4. Len(d) = Len(m.data)
    BY <1>2, <2>2, <2>3
  <2>5. d # <<>>
    BY <1>2, <2>3, <2>4, EmptySeq
  <2>6. QED
    BY <2>2, <2>3, <2>5
<1> HIDE DEF d, r
<1>9. WholePacket(r)
  BY <1>4, <1>8 DEF WholePacket
<1>10. \A i \in DOMAIN d : /\ d[i][1] = "echo" /\ d[i][2] = m.data[i][1] /\ d[i][3] = m.data[i][2]
  <2>1. TAKE i \in DOMAIN d
  <2>2. i \in DOMAIN m.data
    BY <1>2, <1>8
  <2>3. d[i] = <<"echo">> \o m.data[i] /\ m.data[i] \in Unit
    BY <1>5, <1>7, <2>2
  <2>4. QED
    BY <1>6, <2>3
<1>11. Units(r) = Units(m)
  BY <1>2, <1>4, <1>8 DEF Units
<1>12. ASSUME NEW f, PartOf(r, f)
       PROVE  Answered(w.sent, f)
  <2> DEFINE i == f.off + 1
             c == m.data[i][1]
  <2>1. i \in DOMAIN d /\ f.data[1] = d[i] /\ f.src = m.dst /\ f.dst = m.src
    BY <1>4, <1>12, FirstUnit
  <2>2. /\ f.data[1][1] = "echo" /\ f.data[1][2] = c
        /\ Datagrams[c].p = m.p /\ Datagrams[c].src = m.src /\ Datagrams[c].dst = m.dst
    BY <1>2, <1>5, <1>8, <1>10, <2>1
  <2>3. Datagrams[c].p = "icmp" => WellPlaced(f, Datagrams[c].n)
    <3>1. HAVE Datagrams[c].p = "icmp"
    <3>2. PICK a \in DOMAIN Datagrams : m.data = Whole(a)
      BY <2>2, <3>1 DEF Kept, Unharmed
    <3>3. Datagrams[a].n \in Nat
      BY DatagramsAssumption
    <3>4. /\ Len(m.data) = Datagrams[a].n /\ \A j \in DOMAIN m.data : m.data[j] = <<a, j>>
      BY <1>2, <3>2, <3>3 DEF Whole
    <3>5. c = a
      BY <1>2, <1>8, <2>1, <3>4
    <3>6. \A j \in DOMAIN r.data : r.data[j][3] = j
      BY <1>2, <1>4, <1>8, <1>10, <3>4
    <3>7. WellPlaced(f, Units(r))
      BY <1>12, <3>6, PartsArePlaced
    <3>8. QED
      BY <1>11, <3>4, <3>5, <3>7 DEF Units
  <2> HIDE DEF c
  <2>4. QED
    BY <2>1, <2>2, <2>3 DEF Answered, Errors
<1>13. NoSocket \in Socks
  BY DEF Socks
<1>14. OutOK(ip_output(w, NoSocket, r)) /\ Beside(w, ip_output(w, NoSocket, r))
  BY <1>9, <1>12, <1>13, OutputGood
<1>15. QED
  BY <1>3, <1>14

\* The datagram of a ping that goes to a host.
LEMMA PingSent ==
  ASSUME NEW w, OutOK(w), SocksOK(w), NEW m, Kept(m), NEW so \in Sockets, so \notin Range(w.udb),
         NEW fails \in BOOLEAN
  PROVE  LET t == [udp_attach(w, so) EXCEPT !.sock[so].m = <<m>>, !.sock[so].laddr = m.src,
                      !.sock[so].lport = 9, !.sock[so].faddr = m.dst, !.sock[so].fport = 7,
                      !.sock[so].type = "icmp", !.sock[so].con = TRUE]
             z == Sendto(t, so, m, fails)
         IN  OutOK(z) /\ \A x : OutOK(x) /\ Beside(z, x) => Keeps(w, x)
<1> DEFINE k == [NewSocket(w.fds + 1) EXCEPT !.m = <<m>>, !.laddr = m.src, !.lport = 9,
                    !.faddr = m.dst, !.fport = 7, !.type = "icmp", !.con = TRUE]
           t == [udp_attach(w, so) EXCEPT !.sock[so].m = <<m>>, !.sock[so].laddr = m.src,
                    !.sock[so].lport = 9, !.sock[so].faddr = m.dst, !.sock[so].fport = 7,
                    !.sock[so].type = "icmp", !.sock[so].con = TRUE]
           z == Sendto(t, so, m, fails)
           d == m.data[1][1]
           e == [d |-> d, fd |-> IF fails THEN 0 ELSE w.fds + 1, to |-> HostOf(m.dst), port |-> 7,
                 whole |-> m.data = Whole(d)]
<1>1. /\ Fields \subseteq DOMAIN w /\ DOMAIN w.sock = Sockets
      /\ w.fds \in Nat /\ w.sent \in Seq(Sent)
  BY FieldsOf DEF SocksOK
<1>2. /\ DOMAIN t = DOMAIN w /\ t.sock = [w.sock EXCEPT ![so] = k] /\ t.fds = w.fds + 1
      /\ t.udb = <<so>> \o w.udb /\ \A x \in Fields \ {"sock", "fds", "udb"} : t[x] = w[x]
  <2> DEFINE a == udp_attach(w, so)
             new == NewSocket(w.fds + 1)
  <2>1. /\ DOMAIN a = DOMAIN w /\ a.sock = [w.sock EXCEPT ![so] = new] /\ a.fds = w.fds + 1
        /\ a.udb = <<so>> \o w.udb /\ \A x \in Fields \ {"sock", "fds", "udb"} : a[x] = w[x]
    BY <1>1 DEF udp_attach, Fields
  <2>2. DOMAIN a.sock = Sockets /\ a.sock[so] = new /\ "sock" \in DOMAIN a
    BY <1>1, <2>1 DEF Fields
  <2> HIDE DEF a, new
  <2>3. t = [a EXCEPT !.sock[so].m = <<m>>, !.sock[so].laddr = m.src,
                      !.sock[so].lport = 9, !.sock[so].faddr = m.dst, !.sock[so].fport = 7,
                      !.sock[so].type = "icmp", !.sock[so].con = TRUE]
    BY DEF a
  <2> HIDE DEF t
  <2>4. /\ DOMAIN t.sock = Sockets /\ \A y \in Sockets : y # so => t.sock[y] = a.sock[y]
        /\ t.sock[so] = k /\ t.sock \in [Sockets -> {t.sock[y] : y \in Sockets}]
    <3>1. DOMAIN t.sock = Sockets
      BY <2>2, <2>3
    <3>2. \A y \in Sockets : y # so => t.sock[y] = a.sock[y]
      BY <2>2, <2>3
    <3>3. t.sock[so] = [a.sock[so] EXCEPT !.m = <<m>>, !.laddr = m.src, !.lport = 9,
                           !.faddr = m.dst, !.fport = 7, !.type = "icmp", !.con = TRUE]
      BY <2>2, <2>3
    <3>4. t.sock[so] = k
      BY <2>2, <3>3 DEF new
    <3>5. t.sock = [y \in DOMAIN t.sock |-> t.sock[y]]
      <4> DEFINE x == [a EXCEPT !.sock[so].m = <<m>>, !.sock[so].laddr = m.src,
                         !.sock[so].lport = 9, !.sock[so].faddr = m.dst, !.sock[so].fport = 7,
                         !.sock[so].type = "icmp"]
      <4>1. "sock" \in DOMAIN x
        BY <2>2
      <4>2. t = [x EXCEPT !.sock[so].con = TRUE]
        BY <2>3
      <4> HIDE DEF x
      <4>3. t.sock = [x.sock EXCEPT ![so].con = TRUE]
        BY <4>1, <4>2
      <4>4. QED
        BY <4>3
    <3>6. t.sock \in [Sockets -> {t.sock[y] : y \in Sockets}]
      BY <3>1, <3>5
    <3> HIDE DEF k
    <3>7. QED
      BY <3>1, <3>2, <3>4, <3>6
  <2> HIDE DEF k
  <2>5. t.sock = [w.sock EXCEPT ![so] = k]
    BY <1>1, <2>1, <2>2, <2>4
  <2>6. DOMAIN t = DOMAIN a /\ \A x \in DOMAIN a : x # "sock" => t[x] = a[x]
    BY <2>3
  <2>7. QED
    BY <1>1, <2>1, <2>5, <2>6 DEF Fields
<1>3. /\ KeptOfSocket \subseteq DOMAIN k /\ k.fd = w.fds + 1 /\ k.inq = <<>>
      /\ k.faddr = m.dst /\ k.fport = 7 /\ k.type = "icmp" /\ k.m[1] = m /\ ~k.shifted
  BY DEF NewSocket, KeptOfSocket
<1> HIDE DEF k, t
<1>4. Ready(w, t, so)
  BY <1>2, <1>3, AttachReady
<1>5. t.sock[so] = k /\ DOMAIN t.sock = Sockets
  BY <1>1, <1>2
<1>6. z = [t EXCEPT !.sent = Append(@, e)]
  BY <1>3, <1>5 DEF Sendto, HostAddress, HostOf
<1>7. e \in Sent
  <2>1. m \in Part /\ 7 \in Ports
    BY DEF Kept, Ports
  <2>2. (IF fails THEN 0 ELSE w.fds + 1) \in Nat
    BY <1>1
  <2>3. (m.data = Whole(d)) \in BOOLEAN
    OBVIOUS
  <2>4. QED
    BY <2>1, <2>2, <2>3, RecordIs
<1>8. e.fd \in {0, k.fd}
  BY <1>3
<1> HIDE DEF e, z
<1>9. /\ DOMAIN z = DOMAIN w /\ z.sock = t.sock /\ z.sent = Append(w.sent, e)
      /\ \A f \in Fields \ {"sent"} : z[f] = t[f]
  BY <1>1, <1>2, <1>6 DEF Fields
<1>10. OutOK(z)
  <2>1. \A f \in OutFields : z[f] = w[f]
    BY <1>2, <1>9 DEF OutFields, Fields
  <2>2. QED
    BY <1>1, <1>5, <1>7, <1>9, <2>1, OutSame
<1>11. ASSUME NEW x, OutOK(x), Beside(z, x)
       PROVE  Keeps(w, x)
  <2>1. /\ \A f \in KeptFields : x[f] = z[f]
        /\ \A a \in Sockets : SameSocket(z.sock[a], x.sock[a])
        /\ \A a \in Sockets : z.sock[a] = Free => x.sock[a] = Free
    BY <1>11 DEF Beside, SameSocks
  <2>2. \A f \in KeptFields \ {"sent"} : x[f] = t[f]
    BY <1>9, <2>1 DEF KeptFields, Fields
  <2>3. x.sent = Append(w.sent, e)
    BY <1>9, <2>1 DEF KeptFields
  <2> DEFINE l == x.sock[so]
  <2>4. /\ KeptOfSocket \subseteq DOMAIN l /\ l.laddr = k.laddr /\ l.lport = k.lport
        /\ l.inq = k.inq /\ l.fd = k.fd /\ l.type = k.type /\ l.m[1] = m
        /\ l.shifted = k.shifted
    BY <1>3, <1>5, <1>9, <2>1 DEF SameSocket, KeptOfSocket
  <2>5. l.type = "icmp" /\ Kept(l.m[1]) /\ ~l.shifted
    BY <1>3, <2>4
  <2>6. /\ \A a \in Sockets : a # so => SameSocket(t.sock[a], x.sock[a])
        /\ \A a \in Sockets : a # so /\ t.sock[a] = Free => x.sock[a] = Free
    BY <1>9, <2>1
  <2> HIDE DEF l
  <2>7. l = x.sock[so]
    BY DEF l
  <2>8. QED
    BY <1>4, <1>5, <1>7, <1>8, <1>11, <2>2, <2>3, <2>4, <2>5, <2>6, <2>7, SentOn
<1>12. QED
  BY <1>10, <1>11 DEF t, z

\* icmp_input.
LEMMA IcmpInputGood ==
  ASSUME NEW w, Good(w), NEW m \in Part, m.off = 0, m.mf = FALSE, NEW fails \in BOOLEAN
  PROVE  Good(icmp_input(w, m, fails)) /\ icmp_input(w, m, fails).ipq = w.ipq
<1> DEFINE so == FreeSocket(w)
           t == [udp_attach(w, so) EXCEPT !.sock[so].m = <<m>>, !.sock[so].laddr = m.src,
                    !.sock[so].lport = 9, !.sock[so].faddr = m.dst, !.sock[so].fport = 7,
                    !.sock[so].type = "icmp", !.sock[so].con = TRUE]
           v == icmp_error(Sendto(t, so, m, TRUE), m, "net")
<1>1. OutOK(w) /\ SocksOK(w)
  BY DEF Good
<1>2. CASE ~Unharmed(m) \/ ~D(m).echo
  BY <1>2 DEF icmp_input
<1>3. CASE Unharmed(m) /\ D(m).echo /\ m.dst = Vhost
  <2>1. icmp_input(w, m, fails) = icmp_reflect(w, m)
    BY <1>3 DEF icmp_input
  <2>2. Kept(m)
    BY <1>3 DEF Kept
  <2>3. QED
    BY <1>1, <2>1, <2>2, ReflectGood, BesideGood
<1>4. CASE Unharmed(m) /\ D(m).echo /\ m.dst # Vhost /\ FreeSockets(w) = {}
  BY <1>4 DEF icmp_input
<1>5. CASE Unharmed(m) /\ D(m).echo /\ m.dst # Vhost /\ FreeSockets(w) # {}
  <2>1. Kept(m)
    BY <1>5 DEF Kept
  <2>2. so \in Sockets /\ so \notin Range(w.udb)
    BY <1>5, FreeSocketIs
  <2>3. icmp_input(w, m, fails) = IF fails THEN udp_detach(v, so) ELSE Sendto(t, so, m, FALSE)
    BY <1>5, ZenonT(30) DEF icmp_input
  <2> HIDE DEF so
  <2>4. \A f \in BOOLEAN : /\ OutOK(Sendto(t, so, m, f))
                           /\ \A x : OutOK(x) /\ Beside(Sendto(t, so, m, f), x) => Keeps(w, x)
    BY <1>1, <2>1, <2>2, PingSent
  <2> HIDE DEF t
  <2>5. Good(Sendto(t, so, m, FALSE)) /\ Sendto(t, so, m, FALSE).ipq = w.ipq
    <3>1. Keeps(w, Sendto(t, so, m, FALSE))
      BY <2>4, BesideItself
    <3>2. QED
      BY <3>1, KeepsGood
  <2>6. Good(udp_detach(v, so)) /\ udp_detach(v, so).ipq = w.ipq
    <3>1. OutOK(v) /\ Beside(Sendto(t, so, m, TRUE), v)
      BY <2>4, IcmpErrorGood DEF Errors
    <3> HIDE DEF v
    <3>2. Keeps(w, v)
      BY <2>4, <3>1
    <3>3. Good(v) /\ v.ipq = w.ipq
      BY <3>2, KeepsGood
    <3>4. OutOK(v) /\ SocksOK(v)
      BY <3>3 DEF Good
    <3>5. Keeps(v, udp_detach(v, so))
      BY <2>2, <3>4, SofreeKeeps
    <3>6. QED
      BY <3>3, <3>5, KeepsGood
  <2>7. QED
    BY <2>3, <2>5, <2>6
<1>6. QED
  BY <1>2, <1>3, <1>4, <1>5

-----------------------------------------------------------------------------
(* Reassembly.  What is put together of parts of datagrams between the same *)
(* two hosts is such a part.                                                *)

UnitsOf(src, dst, p) ==
  {x \in Unit : LET e == Datagrams[x[1]] IN e.p = p /\ e.src = src /\ e.dst = dst}
PartsBetween(src, dst, p) == {f \in Part : f.src = src /\ f.dst = dst /\ f.p = p}
Names == {f.id : f \in {g \in Frames : g.p # "arp"}}
Queue ==
  {q \in [id : Names, src : {e.src : e \in Range(Datagrams)}, dst : {e.dst : e \in Range(Datagrams)},
          p : {e.p : e \in Range(Datagrams)}, ttl : Nat \ {0}, frags : Seq(Part)] :
      q.frags # <<>> /\ q.frags \in Seq(PartsBetween(q.src, q.dst, q.p))}

LEMMA PartUnits ==
  ASSUME NEW m \in Part
  PROVE  m.data \in Seq(UnitsOf(m.src, m.dst, m.p))
<1>1. m.data \in Seq(Unit) /\ DOMAIN m.data = 1 .. Len(m.data) /\ Len(m.data) \in Nat
  BY PartIs
<1>2. \A i \in DOMAIN m.data : m.data[i] \in UnitsOf(m.src, m.dst, m.p)
  BY <1>1 DEF UnitsOf, Part
<1>3. m.data \in [1 .. Len(m.data) -> UnitsOf(m.src, m.dst, m.p)]
  BY <1>1, <1>2
<1>4. QED
  BY <1>1, <1>3

\* A packet with other units of the same kind.
LEMMA PartWith ==
  ASSUME NEW m \in Part, NEW data \in Seq(UnitsOf(m.src, m.dst, m.p)), data # <<>>,
         NEW off \in Nat, NEW mf \in BOOLEAN
  PROVE  [m EXCEPT !.off = off, !.mf = mf, !.data = data] \in PartsBetween(m.src, m.dst, m.p)
<1> DEFINE f == [m EXCEPT !.off = off, !.mf = mf, !.data = data]
<1>1. m \in IpPacket
  BY PartIs
<1>2. \A i \in DOMAIN data : data[i] \in UnitsOf(m.src, m.dst, m.p)
  OBVIOUS
<1>3. data \in Seq(Unit)
  BY DEF UnitsOf
<1>4. /\ f \in IpPacket /\ f.src = m.src /\ f.dst = m.dst /\ f.p = m.p /\ f.data = data
  BY <1>1, <1>3 DEF IpPacket
<1> HIDE DEF f
<1>5. \A i \in DOMAIN f.data : LET e == Datagrams[f.data[i][1]]
                               IN  e.p = f.p /\ e.src = f.src /\ e.dst = f.dst
  BY <1>2, <1>4 DEF UnitsOf
<1>6. f \in Part
  BY <1>4, <1>5 DEF Part
<1>7. QED
  BY <1>4, <1>6 DEF PartsBetween, f

LEMMA CutFrontIs ==
  ASSUME NEW m \in Part, NEW n \in Nat, n < Units(m)
  PROVE  CutFront(m, n) \in PartsBetween(m.src, m.dst, m.p)
<1> DEFINE U == UnitsOf(m.src, m.dst, m.p)
           data == SubSeq(m.data, n + 1, Len(m.data))
<1>1. /\ m.data \in Seq(U) /\ m.off \in Nat /\ m.mf \in BOOLEAN /\ Len(m.data) \in Nat
      /\ m \in IpPacket
  BY PartIs, PartUnits
<1> HIDE DEF U
<1>2. data \in Seq(U) /\ Len(data) = Len(m.data) - n
  BY <1>1 DEF Units
<1>3. Len(data) # 0
  BY <1>1, <1>2 DEF Units
<1> HIDE DEF data
<1>4. data # <<>>
  BY <1>3, EmptySeq
<1>5. CutFront(m, n) = [m EXCEPT !.off = m.off + n, !.mf = m.mf, !.data = data]
  BY <1>1 DEF CutFront, data, IpPacket
<1>6. m.off + n \in Nat
  BY <1>1
<1>7. \A off \in Nat, mf \in BOOLEAN :
         [m EXCEPT !.off = off, !.mf = mf, !.data = data] \in PartsBetween(m.src, m.dst, m.p)
  BY <1>2, <1>4, PartWith DEF U
<1>8. QED
  BY <1>1, <1>5, <1>6, <1>7

\* Where a fragment goes among those there are.
LEMMA PlaceIs ==
  ASSUME NEW P, NEW frags \in Seq(P), NEW m
  PROVE  Before(frags, m) \in Seq(P) /\ Behind(frags, m) \in Seq(P)
<1> DEFINE I == {i \in 1 .. Len(frags) : frags[i].off > m.off}
           at == Place(frags, m)
<1>1. Len(frags) \in Nat
  OBVIOUS
<1>2. at = IF I # {} THEN Min(I) ELSE 0
  BY DEF Place, SelectInSeq
<1>3. CASE I = {}
  BY <1>2, <1>3 DEF Before, Behind
<1>4. CASE I # {}
  <2>1. I \in SUBSET (1 .. Len(frags))
    OBVIOUS
  <2>2. Min(I) \in I
    <3> HIDE DEF I
    <3>1. QED
      BY <1>1, <1>4, <2>1, Extremes
  <2>3. at \in 1 .. Len(frags)
    <3> HIDE DEF at
    <3>1. at \in I
      BY <1>2, <1>4, <2>2
    <3>2. QED
      BY <3>1
  <2> HIDE DEF I
  <2>4. Before(frags, m) = SubSeq(frags, 1, at - 1) /\ Behind(frags, m) = SubSeq(frags, at, Len(frags))
    BY <2>3 DEF Before, Behind
  <2> HIDE DEF at
  <2>5. SubSeq(frags, 1, at - 1) \in Seq(P) /\ SubSeq(frags, at, Len(frags)) \in Seq(P)
    BY <1>1, <2>3
  <2>6. QED
    BY <2>4, <2>5
<1>5. QED
  BY <1>3, <1>4

\* The incoming fragment, less what is there.
LEMMA TrimmedIs ==
  ASSUME NEW src, NEW dst, NEW p, NEW frags \in Seq(PartsBetween(src, dst, p)),
         NEW m \in PartsBetween(src, dst, p)
  PROVE  LET cut == TrimmedByPrevious(frags, m)
         IN  \/ cut = <<>>
             \/ \E f \in PartsBetween(src, dst, p) : cut = <<f>>
<1> DEFINE before == Before(frags, m)
           over == IF before = <<>> THEN 0 ELSE EndOf(Last(before)) - m.off
<1>1. before \in Seq(PartsBetween(src, dst, p))
  BY PlaceIs
<1>2. m \in Part /\ m.src = src /\ m.dst = dst /\ m.p = p
  BY DEF PartsBetween
<1>3. over \in Int
  <2>1. m.off \in Nat
    BY <1>2, PartIs
  <2>2. CASE before = <<>>
    BY <2>2
  <2>3. CASE before # <<>>
    <3>1. Last(before) \in Part
      <4>1. Len(before) \in 1 .. Len(before) /\ Len(before) \in Nat
        <5> HIDE DEF before
        <5>1. Len(before) \in Nat /\ Len(before) # 0
          BY <1>1, <2>3, EmptySeq
        <5>2. QED
          BY <5>1
      <4>2. before[Len(before)] \in PartsBetween(src, dst, p)
        <5> HIDE DEF before
        <5>1. QED
          BY <1>1, <4>1
      <4>3. QED
        BY <4>2 DEF Last, PartsBetween
    <3>2. EndOf(Last(before)) \in Nat
      <4>1. Last(before).off \in Nat /\ Len(Last(before).data) \in Nat
        BY <3>1, PartIs
      <4> HIDE DEF before
      <4>2. QED
        BY <4>1 DEF EndOf, Units
    <3> HIDE DEF before
    <3>3. EndOf(Last(before)) - m.off \in Int
      BY <2>1, <3>2
    <3>4. QED
      BY <2>3, <3>3
  <2>4. QED
    BY <2>2, <2>3
<1>4. TrimmedByPrevious(frags, m) = IF over <= 0 THEN <<m>>
                                    ELSE IF over >= Units(m) THEN <<>>
                                    ELSE <<CutFront(m, over)>>
  BY DEF TrimmedByPrevious
<1> HIDE DEF before, over
<1>5. Units(m) \in Nat
  BY <1>2, PartIs DEF Units
<1>6. over > 0 /\ over < Units(m) => CutFront(m, over) \in PartsBetween(src, dst, p)
  BY <1>2, <1>3, <1>5, CutFrontIs
<1>7. QED
  BY <1>3, <1>4, <1>5, <1>6

\* What it leaves of those behind it.
LEMMA TrimFollowingIs ==
  ASSUME NEW src, NEW dst, NEW p, NEW after \in Seq(PartsBetween(src, dst, p)),
         NEW m \in PartsBetween(src, dst, p)
  PROVE  TrimFollowing(after, m) \in Seq(PartsBetween(src, dst, p))
<1> DEFINE P == PartsBetween(src, dst, p)
           Over(f) == EndOf(m) - f.off
           I == {i \in 1 .. Len(after) : Over(after[i]) <= 0 \/ Over(after[i]) < Units(after[i])}
           first == SelectInSeq(after, LAMBDA f : Over(f) <= 0 \/ Over(f) < Units(f))
           left == SubSeq(after, first, Len(after))
           cut == CutFront(left[1], Over(left[1]))
<1>1. Len(after) \in Nat /\ after \in Seq(P)
  OBVIOUS
<1>2. first = IF I # {} THEN Min(I) ELSE 0
  BY DEF SelectInSeq
<1>3. TrimFollowing(after, m) =
        IF first = 0 THEN <<>>
        ELSE IF Over(left[1]) > 0 THEN [left EXCEPT ![1] = cut] ELSE left
  BY DEF TrimFollowing
<1> HIDE DEF first, P
<1>4. CASE I = {}
  <2>1. TrimFollowing(after, m) = <<>>
    <3>1. first = 0
      BY <1>2, <1>4
    <3> HIDE DEF left, cut, Over, I
    <3>2. QED
      BY <1>3, <3>1
  <2>2. QED
    BY <2>1
<1>5. CASE I # {}
  <2>1. I \in SUBSET (1 .. Len(after))
    OBVIOUS
  <2>2. Min(I) \in I
    <3> HIDE DEF I
    <3>1. QED
      BY <1>1, <1>5, <2>1, Extremes
  <2>3. first \in I
    BY <1>2, <1>5, <2>2
  <2>4. first \in 1 .. Len(after) /\ (Over(after[first]) <= 0 \/ Over(after[first]) < Units(after[first]))
    BY <2>3
  <2> HIDE DEF I, Over
  <2>5. left \in Seq(P) /\ left[1] = after[first] /\ Len(left) >= 1 /\ Len(left) \in Nat
    BY <1>1, <2>4
  <2> HIDE DEF left
  <2>6. after[first] \in P
    BY <1>1, <2>4
  <2>7. left[1] \in Part /\ left[1].src = src /\ left[1].dst = dst /\ left[1].p = p
    BY <2>5, <2>6 DEF P, PartsBetween
  <2>8. left[1].off \in Nat /\ Len(left[1].data) \in Nat
    BY <2>7, PartIs
  <2>9. m.off \in Nat /\ Len(m.data) \in Nat
    BY PartIs DEF PartsBetween
  <2>10. Over(left[1]) \in Int
    BY <2>8, <2>9 DEF Over, EndOf, Units
  <2>11. Over(left[1]) <= 0 \/ Over(left[1]) < Units(left[1])
    BY <2>4, <2>5
  <2>12. Over(left[1]) > 0 => cut \in P
    <3>1. HAVE Over(left[1]) > 0
    <3>2. Over(left[1]) \in Nat /\ Over(left[1]) < Units(left[1])
      BY <2>10, <2>11, <3>1
    <3>3. QED
      BY <2>7, <3>2, CutFrontIs DEF P
  <2> HIDE DEF cut
  <2>13. cut \in P => [left EXCEPT ![1] = cut] \in Seq(P)
    BY <2>5
  <2>14. QED
    BY <1>3, <2>5, <2>12, <2>13 DEF P
<1>6. QED
  BY <1>4, <1>5

\* The fragments with the new one, if anything of it is new.
LEMMA InsertIs ==
  ASSUME NEW src, NEW dst, NEW p, NEW frags \in Seq(PartsBetween(src, dst, p)),
         NEW m \in PartsBetween(src, dst, p)
  PROVE  /\ Insert(frags, m) \in Seq(PartsBetween(src, dst, p))
         /\ TrimmedByPrevious(frags, m) # <<>> => Insert(frags, m) # <<>>
<1> DEFINE P == PartsBetween(src, dst, p)
           cut == TrimmedByPrevious(frags, m)
           a == Before(frags, m)
           b == TrimFollowing(Behind(frags, m), cut[1])
<1>1. CASE cut = <<>>
  BY <1>1 DEF Insert
<1>2. CASE cut # <<>>
  <2>1. PICK f \in P : cut = <<f>>
    BY <1>2, TrimmedIs
  <2>2. a \in Seq(P)
    BY PlaceIs
  <2>3. b \in Seq(P)
    <3>1. Behind(frags, m) \in Seq(P) /\ cut[1] \in P
      BY <2>1, PlaceIs
    <3> HIDE DEF cut
    <3>2. QED
      BY <3>1, TrimFollowingIs
  <2>4. Insert(frags, m) = a \o cut \o b
    BY <1>2 DEF Insert
  <2> HIDE DEF a, b, P, cut
  <2>5. cut \in Seq(P) /\ Len(cut) = 1
    BY <2>1
  <2>6. a \o cut \in Seq(P) /\ Len(a \o cut) = Len(a) + Len(cut)
    BY <2>2, <2>5, ConcatProperties
  <2>7. (a \o cut) \o b \in Seq(P) /\ Len((a \o cut) \o b) = Len(a \o cut) + Len(b)
    <3> DEFINE c == a \o cut
    <3>1. c \in Seq(P)
      BY <2>6
    <3> HIDE DEF c
    <3>2. c \o b \in Seq(P) /\ Len(c \o b) = Len(c) + Len(b)
      BY <2>3, <3>1
    <3>3. QED
      BY <3>2 DEF c
  <2>8. Len(a) \in Nat /\ Len(b) \in Nat
    BY <2>2, <2>3
  <2>9. Len((a \o cut) \o b) # 0
    BY <2>5, <2>6, <2>7, <2>8
  <2>10. (a \o cut) \o b # <<>>
    <3> DEFINE c == (a \o cut) \o b
    <3>1. c \in Seq(P) /\ Len(c) # 0
      BY <2>7, <2>9
    <3> HIDE DEF c
    <3>2. c # <<>>
      BY <3>1, EmptySeq
    <3>3. QED
      BY <3>2 DEF c
  <2>11. QED
    BY <2>4, <2>7, <2>10 DEF P, cut
<1>3. QED
  BY <1>1, <1>2

\* m_cat.
LEMMA JoinedIs ==
  ASSUME NEW src, NEW dst, NEW p, NEW frags \in Seq(PartsBetween(src, dst, p)), frags # <<>>
  PROVE  Joined(frags) \in Seq(UnitsOf(src, dst, p)) /\ Joined(frags) # <<>>
<1> DEFINE U == UnitsOf(src, dst, p)
           n == Len(frags)
           loop == [loop |-> "m_cat"]
<1>1. n \in Nat /\ n # 0 /\ DOMAIN frags = 1 .. n
  BY EmptySeq, LenProperties
<1>2. PICK h : Course(h, loop, <<>>, frags, n) /\ Joined(frags) = h[n]
  BY <1>1, JoinedCourse
<1>3. \A t, x : Do(loop, t, x) = t \o x.data
  BY DEF Do
<1>4. \A i \in 1 .. n : /\ frags[i].data \in Seq(U) /\ Len(frags[i].data) \in Nat
                        /\ Len(frags[i].data) >= 1
  <2>1. TAKE i \in 1 .. n
  <2>2. frags[i] \in PartsBetween(src, dst, p)
    BY <1>1
  <2>3. frags[i] \in Part /\ frags[i].src = src /\ frags[i].dst = dst /\ frags[i].p = p
    BY <2>2 DEF PartsBetween
  <2>4. QED
    BY <2>3, PartIs, PartUnits
<1> HIDE DEF U, n, loop
<1> DEFINE T == {i \in Nat : i <= n => h[i] \in Seq(U) /\ (i # 0 => Len(h[i]) # 0)}
<1>5. 0 \in T
  <2>1. h[0] = <<>>
    BY <1>2 DEF Course
  <2>2. <<>> \in Seq(U)
    OBVIOUS
  <2>3. QED
    BY <2>1, <2>2
<1>6. ASSUME NEW i \in Nat, i \in T
      PROVE  i + 1 \in T
  <2>1. ASSUME i + 1 <= n
        PROVE  h[i + 1] \in Seq(U) /\ Len(h[i + 1]) # 0
    <3>1. i + 1 \in 1 .. n /\ (i + 1) - 1 = i /\ i <= n
      BY <1>1, <2>1
    <3>2. h[i + 1] = h[i] \o frags[i + 1].data
      BY <1>2, <1>3, <3>1 DEF Course
    <3>3. h[i] \in Seq(U)
      BY <1>6, <3>1
    <3> DEFINE a == h[i]
               b == frags[i + 1].data
    <3>4. a \in Seq(U) /\ b \in Seq(U) /\ Len(b) \in Nat /\ Len(b) >= 1
      BY <1>4, <3>1, <3>3
    <3> HIDE DEF a, b
    <3>5. a \o b \in Seq(U) /\ Len(a \o b) = Len(a) + Len(b) /\ Len(a) \in Nat
      BY <3>4
    <3>6. Len(a \o b) # 0
      BY <3>4, <3>5
    <3>7. h[i + 1] = a \o b
      BY <3>2 DEF a, b
    <3>8. QED
      BY <3>5, <3>6, <3>7
  <2>2. QED
    BY <2>1
<1> HIDE DEF T
<1>7. n \in T
  BY <1>1, <1>5, <1>6, SetInduction
<1>8. h[n] \in Seq(U) /\ Len(h[n]) # 0
  BY <1>1, <1>7 DEF T
<1>9. h[n] # <<>>
  BY <1>8, EmptySeq
<1>10. QED
  BY <1>2, <1>8, <1>9 DEF U

\* The timer over the reassembly queues.
LEMMA SlowTimoIs ==
  ASSUME NEW ipq \in Seq(Queue)
  PROVE  ip_slowtimo(ipq) \in Seq(Queue)
<1> DEFINE n == Len(ipq)
           loop == [loop |-> "ip_slowtimo"]
<1>1. n \in Nat /\ DOMAIN ipq = 1 .. n
  OBVIOUS
<1>2. PICK h : Course(h, loop, <<>>, ipq, n) /\ ip_slowtimo(ipq) = h[n]
  BY <1>1, SlowTimoCourse
<1>3. \A t, x : Do(loop, t, x) = Ticked(t, x)
  BY DEF Do
<1>4. ASSUME NEW t \in Seq(Queue), NEW q \in Queue
      PROVE  Ticked(t, q) \in Seq(Queue)
  <2>1. CASE q.ttl = 1
    BY <2>1 DEF Ticked
  <2>2. CASE q.ttl # 1
    <3> DEFINE r == [q EXCEPT !.ttl = @ - 1]
    <3>1. q.ttl - 1 \in Nat \ {0}
      BY <2>2 DEF Queue
    <3>2. r \in Queue
      BY <3>1 DEF Queue
    <3>3. Ticked(t, q) = Append(t, r)
      BY <2>2 DEF Ticked
    <3> HIDE DEF r
    <3>4. QED
      BY <3>2, <3>3
  <2>3. QED
    BY <2>1, <2>2
<1> DEFINE T == {i \in Nat : i <= n => h[i] \in Seq(Queue)}
<1> HIDE DEF loop, n
<1>5. 0 \in T
  <2>1. h[0] = <<>>
    BY <1>2 DEF Course
  <2>2. <<>> \in Seq(Queue)
    OBVIOUS
  <2>3. QED
    BY <2>1, <2>2
<1>6. ASSUME NEW i \in Nat, i \in T
      PROVE  i + 1 \in T
  <2>1. ASSUME i + 1 <= n
        PROVE  h[i + 1] \in Seq(Queue)
    <3>1. i + 1 \in 1 .. n /\ (i + 1) - 1 = i /\ i <= n
      BY <1>1, <2>1
    <3>2. h[i + 1] = Ticked(h[i], ipq[i + 1])
      BY <1>2, <1>3, <3>1 DEF Course
    <3>3. h[i] \in Seq(Queue) /\ ipq[i + 1] \in Queue
      BY <1>1, <1>6, <3>1
    <3>4. QED
      BY <1>4, <3>2, <3>3
  <2>2. QED
    BY <2>1
<1> HIDE DEF T
<1>7. n \in T
  BY <1>1, <1>5, <1>6, SetInduction
<1>8. QED
  BY <1>1, <1>2, <1>7 DEF T

\* ip_reass.
LEMMA ReassIs ==
  ASSUME NEW ipq \in Seq(Queue), NEW m \in Part
  PROVE  LET r == ip_reass(ipq, m)
         IN  /\ r.ipq \in Seq(Queue)
             /\ r.done # <<>> => /\ r.done[1] \in Part /\ r.done[1].p = m.p
                                 /\ r.done[1].off = 0 /\ r.done[1].mf = FALSE
<1> DEFINE I == {i \in 1 .. Len(ipq) : SameDatagram(ipq[i], m)}
           at == SelectInSeq(ipq, LAMBDA q : SameDatagram(q, m))
           new == [id |-> m.id, src |-> m.src, dst |-> m.dst, p |-> m.p, ttl |-> IpFragTtl,
                   frags |-> <<>>]
           old == IF at = 0 THEN new ELSE ipq[at]
           frags == Insert(old.frags, m)
           whole == [frags[1] EXCEPT !.mf = FALSE, !.data = Joined(frags)]
           P == PartsBetween(m.src, m.dst, m.p)
           r == ip_reass(ipq, m)
<1>1. Len(ipq) \in Nat /\ DOMAIN ipq = 1 .. Len(ipq)
  OBVIOUS
<1>2. at = 0 \/ (at \in 1 .. Len(ipq) /\ SameDatagram(ipq[at], m))
  <2>1. at = IF I # {} THEN Min(I) ELSE 0
    BY DEF SelectInSeq
  <2>2. I \in SUBSET (1 .. Len(ipq))
    OBVIOUS
  <2>3. I # {} => Min(I) \in I
    <3> HIDE DEF I
    <3>1. QED
      BY <1>1, <2>2, Extremes
  <2> HIDE DEF at
  <2>4. I # {} => at \in I
    BY <2>1, <2>3
  <2>5. QED
    BY <2>1, <2>4
<1>3. m \in P /\ m \in IpPacket
  BY PartIs DEF PartsBetween
<1>4. /\ old.id \in Names /\ old.src = m.src /\ old.dst = m.dst /\ old.p = m.p
      /\ old.ttl \in Nat \ {0} /\ old.frags \in Seq(P)
      /\ DOMAIN old = {"id", "src", "dst", "p", "ttl", "frags"}
  <2>1. CASE at = 0
    <3>1. old = new
      BY <2>1
    <3>2. m.id \in Names
      BY <1>3 DEF IpPacket, Names
    <3>3. <<>> \in Seq(P)
      OBVIOUS
    <3> HIDE DEF old, at
    <3>4. QED
      BY <3>1, <3>2, <3>3, TtlAssumption
  <2>2. CASE at # 0
    <3>1. old = ipq[at] /\ at \in 1 .. Len(ipq) /\ SameDatagram(ipq[at], m)
      BY <1>2, <2>2
    <3> HIDE DEF old, at
    <3>2. old \in Queue
      BY <1>1, <3>1
    <3>3. old.src = m.src /\ old.dst = m.dst /\ old.p = m.p
      BY <3>1 DEF SameDatagram
    <3>4. QED
      BY <3>2, <3>3 DEF Queue
  <2>3. QED
    BY <2>1, <2>2
<1>5. old \in [id : Names, src : {e.src : e \in Range(Datagrams)}, dst : {e.dst : e \in Range(Datagrams)},
               p : {e.p : e \in Range(Datagrams)}, ttl : Nat \ {0}, frags : Seq(Part)]
  <2>1. CASE at = 0
    <3>1. old = new
      BY <2>1
    <3>2. new.frags \in Seq(Part)
      OBVIOUS
    <3> HIDE DEF old, at
    <3>3. QED
      BY <1>3, <1>4, <3>1, <3>2 DEF IpPacket
  <2>2. CASE at # 0
    <3>1. old = ipq[at] /\ at \in 1 .. Len(ipq)
      BY <1>2, <2>2
    <3> HIDE DEF old, at
    <3>2. old \in Queue
      BY <1>1, <3>1
    <3>3. QED
      BY <3>2 DEF Queue
  <2>3. QED
    BY <2>1, <2>2
<1>6. CASE at # 0 /\ TrimmedByPrevious(old.frags, m) = <<>>
  <2>1. r = [ipq |-> ipq, done |-> <<>>]
    BY <1>6 DEF ip_reass
  <2>2. QED
    BY <2>1
<1>7. CASE ~(at # 0 /\ TrimmedByPrevious(old.frags, m) = <<>>)
  <2>1. TrimmedByPrevious(old.frags, m) # <<>>
    <3>1. CASE at # 0
      BY <1>7, <3>1
    <3>2. CASE at = 0
      <4>1. old.frags = <<>>
        BY <3>2
      <4>2. Before(<<>>, m) = <<>>
        <5>1. Before(<<>>, m) \in {<<>>, SubSeq(<<>>, 1, Place(<<>>, m) - 1)}
          BY DEF Before
        <5>2. Place(<<>>, m) = 0
          <6>1. {i \in 1 .. Len(<<>>) : <<>>[i].off > m.off} = {}
            OBVIOUS
          <6>2. QED
            BY <6>1 DEF Place, SelectInSeq
        <5>3. QED
          BY <5>2 DEF Before
      <4>3. TrimmedByPrevious(<<>>, m) = <<m>>
        BY <4>2 DEF TrimmedByPrevious
      <4>4. <<m>> # <<>>
        OBVIOUS
      <4>5. \A x : x = <<>> => TrimmedByPrevious(x, m) # <<>>
        BY <4>3, <4>4
      <4> HIDE DEF old
      <4>6. QED
        BY <4>1, <4>5
    <3>3. QED
      BY <3>1, <3>2
  <2> HIDE DEF old
  <2>2. frags \in Seq(P) /\ frags # <<>>
    BY <1>3, <1>4, <2>1, InsertIs
  <2>3. r = IF Complete(frags)
            THEN [ipq |-> IF at = 0 THEN ipq ELSE RemoveAt(ipq, at), done |-> <<whole>>]
            ELSE [ipq |-> IF at = 0 THEN <<[old EXCEPT !.frags = frags]>> \o ipq
                          ELSE [ipq EXCEPT ![at].frags = frags],
                  done |-> <<>>]
    BY <1>7 DEF ip_reass, old
  <2> HIDE DEF frags, at, r
  <2> DEFINE q == [old EXCEPT !.frags = frags]
  <2>4. frags \in Seq(Part)
    BY <2>2 DEF P, PartsBetween
  <2>5. q \in Queue
    <3>1. /\ q.id = old.id /\ q.src = m.src /\ q.dst = m.dst /\ q.p = m.p /\ q.ttl = old.ttl
          /\ q.frags = frags /\ DOMAIN q = DOMAIN old
      BY <1>4
    <3>2. q \in [id : Names, src : {e.src : e \in Range(Datagrams)}, dst : {e.dst : e \in Range(Datagrams)},
                 p : {e.p : e \in Range(Datagrams)}, ttl : Nat \ {0}, frags : Seq(Part)]
      BY <1>5, <2>4
    <3> HIDE DEF q
    <3>3. QED
      BY <2>2, <3>1, <3>2 DEF Queue, P
  <2>6. CASE ~Complete(frags)
    <3>1. r.done = <<>> /\ r.ipq = IF at = 0 THEN <<q>> \o ipq ELSE [ipq EXCEPT ![at].frags = frags]
      BY <2>3, <2>6
    <3>2. at # 0 => [ipq EXCEPT ![at].frags = frags] = [ipq EXCEPT ![at] = q]
      BY <1>1, <1>2 DEF at, old
    <3> HIDE DEF q
    <3>3. <<q>> \in Seq(Queue)
      BY <2>5
    <3>4. <<q>> \o ipq \in Seq(Queue)
      BY <3>3, ConcatProperties
    <3>5. at # 0 => [ipq EXCEPT ![at] = q] \in Seq(Queue)
      BY <1>2, <2>5 DEF at
    <3>6. r.ipq \in Seq(Queue)
      BY <3>1, <3>2, <3>4, <3>5
    <3>7. QED
      BY <3>1, <3>6 DEF r
  <2>7. CASE Complete(frags)
    <3>1. r.done = <<whole>> /\ r.ipq = IF at = 0 THEN ipq ELSE RemoveAt(ipq, at)
      BY <2>3, <2>7
    <3>2. at # 0 => RemoveAt(ipq, at) \in Seq(Queue)
      BY <1>2, RemoveAtIs DEF at
    <3>3. r.ipq \in Seq(Queue)
      BY <3>1, <3>2
    <3>4. frags[1] \in P /\ frags[1].off = 0
      <4>1. Len(frags) \in Nat /\ Len(frags) # 0 /\ DOMAIN frags = 1 .. Len(frags)
        BY <2>2, EmptySeq, LenProperties
      <4>2. 1 \in DOMAIN frags
        BY <4>1
      <4>3. frags[1] \in P
        BY <2>2, <4>2
      <4>4. frags[1].off = 0
        BY <2>7, <4>2 DEF Complete
      <4>5. QED
        BY <4>3, <4>4
    <3> DEFINE f == frags[1]
               data == Joined(frags)
    <3>5. f \in Part /\ f.src = m.src /\ f.dst = m.dst /\ f.p = m.p /\ f.off = 0
      BY <3>4 DEF P, PartsBetween
    <3>6. data \in Seq(UnitsOf(f.src, f.dst, f.p)) /\ data # <<>>
      BY <2>2, <3>5, JoinedIs DEF P
    <3> HIDE DEF f, data
    <3>7. \A off \in Nat, mf \in BOOLEAN :
             [f EXCEPT !.off = off, !.mf = mf, !.data = data] \in PartsBetween(f.src, f.dst, f.p)
      BY <3>5, <3>6, PartWith
    <3>8. f \in IpPacket
      BY <3>5, PartIs
    <3>9. [f EXCEPT !.mf = FALSE, !.data = data] = [f EXCEPT !.off = 0, !.mf = FALSE, !.data = data]
      BY <3>5, <3>8 DEF IpPacket
    <3>10. [f EXCEPT !.off = 0, !.mf = FALSE, !.data = data] \in PartsBetween(f.src, f.dst, f.p)
      BY <3>7
    <3>11. whole = [f EXCEPT !.mf = FALSE, !.data = data]
      BY DEF f, data
    <3> HIDE DEF whole
    <3>12. whole \in Part /\ whole.p = m.p
      BY <3>5, <3>9, <3>10, <3>11 DEF PartsBetween
    <3>13. whole.off = 0 /\ whole.mf = FALSE
      BY <3>5, <3>8, <3>11 DEF IpPacket
    <3>14. r.done[1] = whole
      BY <3>1
    <3>15. QED
      BY <3>3, <3>12, <3>13, <3>14 DEF r
  <2>8. QED
    BY <2>6, <2>7
<1>8. QED
  BY <1>6, <1>7

-----------------------------------------------------------------------------
(* The steps of the guest and of the host's peers.                          *)

StateOK(w) == Good(w) /\ w.ipq \in Seq(Queue)

LEMMA DispatchKeeps ==
  ASSUME NEW w, StateOK(w), NEW m \in Part, m.off = 0, m.mf = FALSE, NEW fails \in BOOLEAN
  PROVE  StateOK(Dispatch(w, m, fails))
<1>1. CASE m.p = "udp"
  BY <1>1, UdpInputGood DEF StateOK, Dispatch
<1>2. CASE m.p # "udp" /\ m.p = "icmp"
  BY <1>2, IcmpInputGood DEF StateOK, Dispatch
<1>3. CASE m.p # "udp" /\ m.p # "icmp"
  BY <1>3 DEF Dispatch
<1>4. QED
  BY <1>1, <1>2, <1>3

LEMMA IpInputKeeps ==
  ASSUME NEW w, StateOK(w), NEW m \in Part, NEW fails \in BOOLEAN
  PROVE  StateOK(ip_input(w, m, fails))
<1> DEFINE r == ip_reass(w.ipq, m)
           t == [w EXCEPT !.ipq = r.ipq]
<1>1. /\ r.ipq \in Seq(Queue)
      /\ r.done # <<>> => /\ r.done[1] \in Part /\ r.done[1].off = 0 /\ r.done[1].mf = FALSE
  BY ReassIs DEF StateOK
<1>2. ip_input(w, m, fails) = IF D(m).ttl = 0 THEN icmp_error(w, m, "timxceed")
                              ELSE IF ~IsFragment(m) THEN Dispatch(w, m, fails)
                              ELSE IF r.done = <<>> THEN t ELSE Dispatch(t, r.done[1], fails)
  BY DEF ip_input
<1> HIDE DEF r
<1>3. StateOK(t)
  <2>1. Fields \subseteq DOMAIN w
    BY FieldsOf DEF StateOK, Good
  <2>2. DOMAIN t = DOMAIN w /\ t.ipq = r.ipq /\ \A x \in Fields \ {"ipq"} : t[x] = w[x]
    BY <2>1 DEF Fields
  <2> HIDE DEF t
  <2>3. \A x \in OutFields \cup {"sock", "udb", "udpLast", "fds", "sent"} : t[x] = w[x]
    BY <2>2 DEF OutFields, Fields
  <2>4. t.leases = w.leases /\ t.acked = w.acked
    BY <2>2 DEF Fields
  <2>5. LeasesOK(t)
    BY <2>4 DEF LeasesOK, StateOK, Good
  <2>6. Good(t)
    BY <2>2, <2>3, <2>5, GoodSame DEF StateOK
  <2>7. QED
    BY <1>1, <2>2, <2>6 DEF StateOK
<1> HIDE DEF t
<1>4. StateOK(icmp_error(w, m, "timxceed"))
  <2>1. OutOK(w)
    BY DEF StateOK, Good
  <2>2. OutOK(icmp_error(w, m, "timxceed")) /\ Beside(w, icmp_error(w, m, "timxceed"))
    BY <2>1, IcmpErrorGood DEF Errors
  <2>3. QED
    BY <2>2, BesideGood DEF StateOK
<1>5. ~IsFragment(m) => m.off = 0 /\ m.mf = FALSE
  BY PartIs DEF IsFragment
<1>6. ~IsFragment(m) => StateOK(Dispatch(w, m, fails))
  BY <1>5, DispatchKeeps
<1>7. r.done # <<>> => StateOK(Dispatch(t, r.done[1], fails))
  BY <1>1, <1>3, DispatchKeeps
<1>8. QED
  BY <1>2, <1>3, <1>4, <1>6, <1>7

\* A change that the queues, the sockets, the leases and the fragments do not see.
LEMMA StateSame ==
  ASSUME NEW w, NEW t, StateOK(w), DOMAIN t = DOMAIN w,
         \A x \in Fields \ {"mac", "ip", "slow", "lost"} : t[x] = w[x]
  PROVE  StateOK(t)
<1>1. \A x \in OutFields \cup {"sock", "udb", "udpLast", "fds", "sent"} : t[x] = w[x]
  BY DEF OutFields, Fields
<1>2. t.leases = w.leases /\ t.acked = w.acked /\ t.ipq = w.ipq
  BY DEF Fields
<1>3. LeasesOK(t)
  BY <1>2 DEF LeasesOK, StateOK, Good
<1>4. QED
  BY <1>1, <1>2, <1>3, GoodSame DEF StateOK

LEMMA ArpInputKeeps ==
  ASSUME NEW w, StateOK(w), NEW a, a.op \in {"request", "reply"}
  PROVE  StateOK(arp_input(w, a))
<1> DEFINE t == [w EXCEPT !.mac = a.mac]
           frame == [p |-> "arp", op |-> "reply", tip |-> a.tip]
           u == write_packet(t, frame)
<1>1. arp_input(w, a) \in {w, t, u}
  BY DEF arp_input
<1>2. StateOK(t)
  <2>1. Fields \subseteq DOMAIN w
    BY FieldsOf DEF StateOK, Good
  <2>2. DOMAIN t = DOMAIN w /\ \A x \in Fields \ {"mac"} : t[x] = w[x]
    BY <2>1 DEF Fields
  <2> HIDE DEF t
  <2>3. QED
    BY <2>2, StateSame
<1> HIDE DEF t
<1>3. StateOK(u)
  <2>1. PICK M : QueuesOK(M, t) /\ \A m \in M : Answered(t.sent, m)
    BY <1>2 DEF StateOK, Good, OutOK
  <2>2. frame.p # "ip"
    OBVIOUS
  <2> HIDE DEF frame
  <2>3. QueuesOK(M, u) /\ Beside(t, u)
    BY <2>1, <2>2, WritePacket
  <2> HIDE DEF u
  <2>4. u.sent = t.sent
    BY <2>3 DEF Beside, KeptFields
  <2>5. OutOK(u)
    BY <2>1, <2>3, <2>4 DEF OutOK
  <2>6. QED
    BY <1>2, <2>3, <2>5, BesideGood DEF StateOK
<1> HIDE DEF u
<1>4. QED
  BY <1>1, <1>2, <1>3

LEMMA InputKeeps ==
  ASSUME NEW w, StateOK(w), NEW frame, NEW fails \in BOOLEAN,
         IF frame.p = "arp" THEN frame.op \in {"request", "reply"} ELSE frame \in Part
  PROVE  StateOK(slirp_input(w, frame, fails))
BY ArpInputKeeps, IpInputKeeps DEF slirp_input

\* The driver makes a buffer available.
LEMMA ProvidesKeeps ==
  ASSUME NEW w, StateOK(w)
  PROVE  StateOK([w EXCEPT !.rx = @ + 1])
<1> DEFINE t == [w EXCEPT !.rx = @ + 1]
<1>1. PICK M : QueuesOK(M, w) /\ \A m \in M : Answered(w.sent, m)
  BY DEF StateOK, Good, OutOK
<1>2. Fields \subseteq DOMAIN w
  BY <1>1 DEF QueuesOK
<1>3. DOMAIN t = DOMAIN w /\ t.rx = w.rx + 1 /\ \A x \in Fields \ {"rx"} : t[x] = w[x]
  BY <1>2 DEF Fields
<1> HIDE DEF t
<1>4. t.rx \in Nat
  BY <1>1, <1>3 DEF QueuesOK
<1>5. /\ t.sock = w.sock /\ t.serial = w.serial /\ t.last = w.last /\ t.nextM = w.nextM
      /\ t.fastq = w.fastq /\ t.batchq = w.batchq /\ t.got = w.got /\ t.sent = w.sent
      /\ t.fds = w.fds /\ t.udb = w.udb /\ t.udpLast = w.udpLast /\ t.leases = w.leases
      /\ t.acked = w.acked /\ t.ipq = w.ipq
  BY <1>3 DEF Fields
<1>6. QueuesOK(M, t)
  BY <1>1, <1>3, <1>4, <1>5 DEF QueuesOK
<1>7. OutOK(t)
  BY <1>1, <1>5, <1>6 DEF OutOK
<1>8. SocksOK(t)
  BY <1>5 DEF SocksOK, StateOK, Good
<1>9. LeasesOK(t)
  BY <1>5 DEF LeasesOK, StateOK, Good
<1>10. StateOK(t)
  BY <1>5, <1>7, <1>8, <1>9 DEF StateOK, Good
<1>11. QED
  BY <1>10 DEF t

\* What a socket has to read changes.
LEMMA InqKeeps ==
  ASSUME NEW w, StateOK(w), NEW so \in Range(w.udb), NEW t, DOMAIN t = DOMAIN w,
         DOMAIN t.sock = Sockets, \A x \in Fields \ {"sock"} : t[x] = w[x],
         \A a \in Sockets : a # so => t.sock[a] = w.sock[a],
         KeptOfSocket \subseteq DOMAIN t.sock[so],
         \A x \in KeptOfSocket \ {"inq", "expire"} : t.sock[so][x] = w.sock[so][x],
         t.sock[so].inq \in Seq(Reply),
         w.sock[so].type # "icmp" =>
           \A j \in DOMAIN t.sock[so].inq :
              LET r == t.sock[so].inq[j] IN Serves(w.sock[so], r.d, r.port, r.from)
  PROVE  StateOK(t) /\ OnlyOf(w, t, so) /\ t.udb = w.udb /\ t.sent = w.sent
<1> DEFINE k == w.sock[so]
           l == t.sock[so]
<1>1. OutOK(w) /\ SocksOK(w) /\ LeasesOK(w)
  BY DEF StateOK, Good
<1>2. so \in Sockets
  BY <1>1, RangeOf DEF SocksOK
<1>3. SocketOK(w.sent, w.fds, k)
  BY <1>1 DEF SocksOK
<1>4. /\ l.laddr = k.laddr /\ l.lport = k.lport /\ l.faddr = k.faddr /\ l.m = k.m
      /\ l.fd = k.fd /\ l.type = k.type /\ l.shifted = k.shifted
  BY DEF KeptOfSocket
<1>5. SocketOK(w.sent, w.fds, l)
  BY <1>3, <1>4 DEF SocketOK, Serves, Directed, Backed
<1>6. /\ t.fds = w.fds /\ t.udb = w.udb /\ t.udpLast = w.udpLast /\ t.sent = w.sent
      /\ t.leases = w.leases /\ t.acked = w.acked /\ t.ipq = w.ipq
      /\ \A x \in OutFields : t[x] = w[x]
  BY DEF Fields, OutFields
<1>7. OutOK(t)
  BY <1>1, <1>6, OutSame
<1>8. \A j \in DOMAIN w.sent : w.sent[j].fd = l.fd /\ l.type # "icmp" =>
         Serves(l, w.sent[j].d, w.sent[j].port, w.sent[j].to)
  <2>1. \A j \in DOMAIN w.sent : w.sent[j].fd = k.fd /\ k.type # "icmp" =>
          Serves(k, w.sent[j].d, w.sent[j].port, w.sent[j].to)
    BY <1>1 DEF SocksOK
  <2> HIDE DEF k, l
  <2>2. QED
    BY <1>4, <2>1 DEF Serves
<1> HIDE DEF k, l
<1>9. \A a \in Sockets : a # so => SameSocket(w.sock[a], t.sock[a])
  BY DEF SameSocket
<1>10. SocksOK(t)
  <2>1. /\ w.fds \in Nat /\ w.udb \in Seq(Sockets)
        /\ \A a, b \in DOMAIN w.udb : w.udb[a] = w.udb[b] => a = b
        /\ w.udpLast \in Range(w.udb) \cup {NoSocket}
    BY <1>1 DEF SocksOK
  <2>2. /\ t.fds \in Nat /\ w.fds <= t.fds
        /\ t.udb \in Seq(Sockets) /\ \A a, b \in DOMAIN t.udb : t.udb[a] = t.udb[b] => a = b
        /\ Range(t.udb) = Range(w.udb) \cup {so}
        /\ t.udpLast \in Range(t.udb) \cup {NoSocket}
    BY <1>6, <2>1
  <2>3. SocketOK(t.sent, t.fds, t.sock[so])
    BY <1>5, <1>6 DEF l
  <2>4. so \in Range(w.udb) /\ t.sock[so].fd = w.sock[so].fd
    BY <1>4 DEF k, l
  <2>5. \A j \in DOMAIN w.sent : w.sent[j].fd = t.sock[so].fd /\ t.sock[so].type # "icmp" =>
           Serves(t.sock[so], w.sent[j].d, w.sent[j].port, w.sent[j].to)
    BY <1>8 DEF l
  <2>6. \A a \in Sockets : a # so /\ w.sock[a] = Free => t.sock[a] = Free
    OBVIOUS
  <2>7. SockChange(w, t, so)
    BY <1>6, <1>9, <2>2, <2>3, <2>4, <2>5, <2>6 DEF SockChange
  <2>8. QED
    BY <1>1, <1>2, <2>7, SockChangeKeeps
<1>11. LeasesOK(t)
  BY <1>1, <1>6 DEF LeasesOK
<1>12. OnlyOf(w, t, so)
  BY <1>6, <1>9 DEF OnlyOf
<1>13. QED
  BY <1>6, <1>7, <1>10, <1>11, <1>12 DEF StateOK, Good

\* The hypotheses of InqKeeps, in one.
InqChange(w, t, so) ==
  /\ DOMAIN t = DOMAIN w /\ DOMAIN t.sock = Sockets
  /\ \A x \in Fields \ {"sock"} : t[x] = w[x]
  /\ \A a \in Sockets : a # so => t.sock[a] = w.sock[a]
  /\ KeptOfSocket \subseteq DOMAIN t.sock[so]
  /\ \A x \in KeptOfSocket \ {"inq", "expire"} : t.sock[so][x] = w.sock[so][x]
  /\ t.sock[so].inq \in Seq(Reply)
  /\ w.sock[so].type # "icmp" =>
       \A j \in DOMAIN t.sock[so].inq :
          Serves(w.sock[so], t.sock[so].inq[j].d, t.sock[so].inq[j].port, t.sock[so].inq[j].from)

LEMMA InqChangeKeeps ==
  ASSUME NEW w, StateOK(w), NEW so \in Range(w.udb), NEW t, InqChange(w, t, so)
  PROVE  StateOK(t) /\ OnlyOf(w, t, so) /\ t.udb = w.udb /\ t.sent = w.sent
BY InqKeeps DEF InqChange

\* A host answers.
LEMMA AnswerKeeps ==
  ASSUME NEW w, StateOK(w), NEW i \in DOMAIN w.sent, NEW so \in Sockets, w.sock[so] # Free,
         w.sock[so].fd = w.sent[i].fd, NEW err \in BOOLEAN
  PROVE  LET e == w.sent[i]
         IN  StateOK([w EXCEPT !.sock[so].inq = Append(@,
                        [err |-> err, d |-> e.d, from |-> e.to, port |-> e.port])])
<1> DEFINE e == w.sent[i]
           r == [err |-> err, d |-> e.d, from |-> e.to, port |-> e.port]
           t == [w EXCEPT !.sock[so].inq = Append(@, r)]
           k == w.sock[so]
           l == t.sock[so]
<1>1. /\ OutOK(w) /\ SocksOK(w) /\ LeasesOK(w) /\ Fields \subseteq DOMAIN w
      /\ DOMAIN w.sock = Sockets
  BY FieldsOf DEF StateOK, Good
<1>2. so \in Range(w.udb)
  BY <1>1 DEF SocksOK
<1>3. SocketOK(w.sent, w.fds, k)
  BY <1>1, <1>2 DEF SocksOK
<1>4. e \in Sent
  BY <1>1 DEF SocksOK
<1>5. r \in Reply
  BY <1>4 DEF Sent, Reply
<1>6. k.type # "icmp" => Serves(k, e.d, e.port, e.to)
  BY <1>1, <1>2 DEF SocksOK
<1>7. /\ DOMAIN t = DOMAIN w /\ DOMAIN t.sock = Sockets
      /\ \A x \in Fields \ {"sock"} : t[x] = w[x]
      /\ \A a \in Sockets : a # so => t.sock[a] = w.sock[a]
  BY <1>1 DEF Fields
<1>8. DOMAIN l = DOMAIN k /\ l.inq = Append(k.inq, r) /\ \A x \in KeptOfSocket \ {"inq"} : l[x] = k[x]
  <2>1. l = [k EXCEPT !.inq = Append(@, r)]
    BY <1>1 DEF Fields
  <2>2. KeptOfSocket \subseteq DOMAIN k
    BY <1>3 DEF SocketOK
  <2> HIDE DEF l, r, k
  <2>3. QED
    BY <2>1, <2>2 DEF KeptOfSocket
<1> HIDE DEF t
<1>9. k.inq \in Seq(Reply) /\ KeptOfSocket \subseteq DOMAIN k
  BY <1>3 DEF SocketOK
<1>10. r.d = e.d /\ r.port = e.port /\ r.from = e.to
  OBVIOUS
<1>11. k.type # "icmp" =>
         \A j \in DOMAIN k.inq : Serves(k, k.inq[j].d, k.inq[j].port, k.inq[j].from)
  BY <1>3 DEF SocketOK
<1> HIDE DEF k, r, e
<1>12. /\ l.inq \in Seq(Reply)
       /\ \A j \in DOMAIN l.inq : (j \in DOMAIN k.inq /\ l.inq[j] = k.inq[j]) \/ l.inq[j] = r
  BY <1>5, <1>8, <1>9
<1> HIDE DEF l
<1>13. k.type # "icmp" =>
         \A j \in DOMAIN l.inq : Serves(k, l.inq[j].d, l.inq[j].port, l.inq[j].from)
  BY <1>6, <1>10, <1>11, <1>12
<1>14. KeptOfSocket \subseteq DOMAIN l /\ \A x \in KeptOfSocket \ {"inq", "expire"} : l[x] = k[x]
  BY <1>8, <1>9
<1>15. StateOK(t)
  BY <1>2, <1>7, <1>12, <1>13, <1>14, InqKeeps DEF k, l
<1>16. QED
  BY <1>15 DEF t, r, e

-----------------------------------------------------------------------------
(* A round of the main loop.                                                *)

\* Sockets that differ in what the invariant does not see.
LEMMA SocksAlike ==
  ASSUME NEW w, NEW t, StateOK(w), DOMAIN t = DOMAIN w, DOMAIN t.sock = Sockets,
         \A x \in Fields \ {"sock", "mac", "ip", "slow", "lost"} : t[x] = w[x],
         \A so \in Sockets : w.sock[so] = Free => t.sock[so] = Free,
         \A so \in Range(w.udb) :
            /\ KeptOfSocket \subseteq DOMAIN t.sock[so]
            /\ \A x \in KeptOfSocket \ {"expire", "con"} :
                  t.sock[so][x] = w.sock[so][x]
  PROVE  StateOK(t)
<1>1. /\ OutOK(w) /\ SocksOK(w) /\ LeasesOK(w)
  BY DEF StateOK, Good
<1>2. /\ t.fds = w.fds /\ t.udb = w.udb /\ t.udpLast = w.udpLast /\ t.sent = w.sent
      /\ t.leases = w.leases /\ t.acked = w.acked /\ t.ipq = w.ipq
      /\ \A x \in OutFields : t[x] = w[x]
  BY DEF Fields, OutFields
<1>3. OutOK(t)
  BY <1>1, <1>2, OutSame
<1>4. \A so \in Range(w.udb) :
         /\ t.sock[so].laddr = w.sock[so].laddr /\ t.sock[so].lport = w.sock[so].lport
         /\ t.sock[so].faddr = w.sock[so].faddr /\ t.sock[so].m = w.sock[so].m
         /\ t.sock[so].inq = w.sock[so].inq /\ t.sock[so].fd = w.sock[so].fd
         /\ t.sock[so].type = w.sock[so].type /\ t.sock[so].shifted = w.sock[so].shifted
  BY DEF KeptOfSocket
<1>5. \A so \in Range(w.udb) : SocketOK(w.sent, w.fds, t.sock[so])
  <2>1. TAKE so \in Range(w.udb)
  <2> DEFINE k == w.sock[so]
             l == t.sock[so]
  <2>2. /\ l.laddr = k.laddr /\ l.lport = k.lport /\ l.faddr = k.faddr /\ l.m = k.m
        /\ l.inq = k.inq /\ l.fd = k.fd /\ l.type = k.type /\ l.shifted = k.shifted
    BY <1>4
  <2>3. SocketOK(w.sent, w.fds, k) /\ KeptOfSocket \subseteq DOMAIN l
    BY <1>1 DEF SocksOK
  <2> HIDE DEF k, l
  <2>4. SocketOK(w.sent, w.fds, l)
    BY <2>2, <2>3 DEF SocketOK, Serves, Directed, Backed
  <2>5. QED
    BY <2>4 DEF l
<1>6. SocksOK(t)
  <2>1. /\ w.fds \in Nat /\ w.udb \in Seq(Sockets)
        /\ \A a, b \in DOMAIN w.udb : w.udb[a] = w.udb[b] => a = b
        /\ w.udpLast \in Range(w.udb) \cup {NoSocket}
        /\ w.sent \in Seq(Sent) /\ \A i \in DOMAIN w.sent : w.sent[i].fd <= w.fds
    BY <1>1 DEF SocksOK
  <2>2. \A so \in Sockets : so \notin Range(w.udb) => t.sock[so] = Free
    BY <1>1 DEF SocksOK
  <2>3. \A a, b \in Range(w.udb) : t.sock[a].fd = t.sock[b].fd => a = b
    BY <1>1, <1>4 DEF SocksOK
  <2>4. \A i \in DOMAIN w.sent, so \in Range(w.udb) :
          w.sent[i].fd = t.sock[so].fd /\ t.sock[so].type # "icmp" =>
             Serves(t.sock[so], w.sent[i].d, w.sent[i].port, w.sent[i].to)
    BY <1>1, <1>4 DEF SocksOK, Serves
  <2>5. QED
    BY <1>2, <1>5, <2>1, <2>2, <2>3, <2>4 DEF SocksOK
<1>7. LeasesOK(t)
  BY <1>1, <1>2 DEF LeasesOK
<1>8. QED
  BY <1>2, <1>3, <1>6, <1>7 DEF StateOK, Good

\* The fragments get older.
LEMMA SlowTimoKeeps ==
  ASSUME NEW w, StateOK(w), NEW dt
  PROVE  LET t == SlowTimo(w, dt)
         IN  StateOK(t) /\ t.udb = w.udb /\ t.sock = w.sock
<1> DEFINE t == SlowTimo(w, dt)
<1>1. Fields \subseteq DOMAIN w
  BY FieldsOf DEF StateOK, Good
<1>2. /\ DOMAIN t = DOMAIN w /\ \A x \in Fields \ {"slow", "ipq", "lost"} : t[x] = w[x]
      /\ t.ipq \in {w.ipq, ip_slowtimo(w.ipq)}
  <2> DEFINE older == ip_slowtimo(w.ipq)
             lost == {q.id : q \in {x \in Range(w.ipq) : x.ttl = 1}}
             a == [w EXCEPT !.slow = 0, !.ipq = older, !.lost = @ \cup lost]
             b == [w EXCEPT !.slow = IF @ + dt >= 1 THEN 1 ELSE 0]
  <2>1. t \in {a, b}
    BY DEF SlowTimo
  <2> HIDE DEF t, older, lost
  <2>2. /\ DOMAIN a = DOMAIN w /\ \A x \in Fields \ {"slow", "ipq", "lost"} : a[x] = w[x]
        /\ a.ipq = older
    BY <1>1 DEF Fields
  <2>3. /\ DOMAIN b = DOMAIN w /\ \A x \in Fields \ {"slow", "ipq", "lost"} : b[x] = w[x]
        /\ b.ipq = w.ipq
    BY <1>1 DEF Fields
  <2> HIDE DEF a, b
  <2>4. QED
    BY <2>1, <2>2, <2>3 DEF older
<1> HIDE DEF t
<1>3. t.ipq \in Seq(Queue)
  BY <1>2, SlowTimoIs DEF StateOK
<1>4. \A x \in OutFields \cup {"sock", "udb", "udpLast", "fds", "sent"} : t[x] = w[x]
  BY <1>2 DEF OutFields, Fields
<1>5. t.leases = w.leases /\ t.acked = w.acked
  BY <1>2 DEF Fields
<1>6. LeasesOK(t)
  BY <1>5 DEF LeasesOK, StateOK, Good
<1>7. Good(t)
  BY <1>2, <1>4, <1>6, GoodSame DEF StateOK
<1>8. QED
  BY <1>3, <1>4, <1>7 DEF StateOK, t

\* The sockets get older.
LEMMA AgeKeeps ==
  ASSUME NEW w, StateOK(w), NEW dt
  PROVE  LET t == Age(w, dt)
         IN  /\ StateOK(t) /\ t.udb = w.udb
             /\ \A so \in Range(w.udb) : t.sock[so].inq = w.sock[so].inq
<1> DEFINE t == Age(w, dt)
<1>1. Fields \subseteq DOMAIN w /\ DOMAIN w.sock = Sockets
  BY FieldsOf DEF StateOK, Good
<1>2. /\ DOMAIN t = DOMAIN w /\ \A x \in Fields \ {"sock"} : t[x] = w[x]
      /\ t.sock = [so \in Sockets |->
             IF w.sock[so] = Free THEN Free
             ELSE [w.sock[so] EXCEPT !.expire = IF @ <= dt THEN 0 ELSE @ - dt]]
  <2> DEFINE X == [so \in Sockets |->
             IF w.sock[so] = Free THEN Free
             ELSE [w.sock[so] EXCEPT !.expire = IF @ <= dt THEN 0 ELSE @ - dt]]
  <2>1. t = [w EXCEPT !.sock = X]
    BY <1>1 DEF Age, Fields
  <2> HIDE DEF X, t
  <2>2. DOMAIN t = DOMAIN w /\ (\A x \in Fields \ {"sock"} : t[x] = w[x]) /\ t.sock = X
    BY <1>1, <2>1 DEF Fields
  <2>3. QED
    BY <2>2 DEF X
<1> HIDE DEF t
<1>3. \A so \in Sockets :
         /\ w.sock[so] = Free => t.sock[so] = Free
         /\ DOMAIN t.sock[so] = DOMAIN w.sock[so]
         /\ \A x \in DOMAIN w.sock[so] : x # "expire" => t.sock[so][x] = w.sock[so][x]
  BY <1>2
<1>4. \A so \in Range(w.udb) : so \in Sockets /\ KeptOfSocket \subseteq DOMAIN w.sock[so]
  BY RangeOf DEF StateOK, Good, SocksOK, SocketOK
<1>5. \A so \in Range(w.udb) : \A x \in KeptOfSocket \ {"expire"} : t.sock[so][x] = w.sock[so][x]
  BY <1>3, <1>4
<1>6. StateOK(t)
  <2>1. DOMAIN t.sock = Sockets
    BY <1>2
  <2>2. \A so \in Range(w.udb) : KeptOfSocket \subseteq DOMAIN t.sock[so]
    BY <1>3, <1>4
  <2>3. \A x \in Fields \ {"sock", "mac", "ip", "slow", "lost"} : t[x] = w[x]
    BY <1>2
  <2>4. \A so \in Sockets : w.sock[so] = Free => t.sock[so] = Free
    BY <1>3
  <2>5. \A so \in Range(w.udb) :
            /\ KeptOfSocket \subseteq DOMAIN t.sock[so]
            /\ \A x \in KeptOfSocket \ {"expire", "con"} :
                  t.sock[so][x] = w.sock[so][x]
    BY <1>5, <2>2
  <2>6. DOMAIN t = DOMAIN w
    BY <1>2
  <2>7. QED
    BY <2>1, <2>3, <2>4, <2>5, <2>6, SocksAlike
<1>7. \A so \in Range(w.udb) : t.sock[so].inq = w.sock[so].inq
  BY <1>5 DEF KeptOfSocket
<1>8. t.udb = w.udb
  BY <1>2 DEF Fields
<1>9. QED
  BY <1>6, <1>7, <1>8 DEF t

\* slirp_select_fill.
LEMMA ExpireKeeps ==
  ASSUME NEW w, StateOK(w)
  PROVE  StateOK(Expire(w))
<1> DEFINE n == Len(w.udb)
           loop == [loop |-> "fill"]
<1>1. n \in Nat /\ DOMAIN w.udb = 1 .. n /\ \A i \in 1 .. n : w.udb[i] \in Sockets
  BY DEF StateOK, Good, SocksOK
<1>2. PICK h : Course(h, loop, w, w.udb, n) /\ Expire(w) = h[n]
  BY <1>1, ExpireCourse
<1>3. \A t, x : Do(loop, t, x) = IF t.sock[x].expire <= 0 THEN udp_detach(t, x) ELSE t
  BY DEF Do
<1> DEFINE T == {i \in Nat : i <= n => StateOK(h[i])}
<1> HIDE DEF loop, n
<1>4. 0 \in T
  BY <1>2 DEF Course
<1>5. ASSUME NEW i \in Nat, i \in T
      PROVE  i + 1 \in T
  <2>1. ASSUME i + 1 <= n
        PROVE  StateOK(h[i + 1])
    <3> DEFINE so == w.udb[i + 1]
    <3>1. i + 1 \in 1 .. n /\ (i + 1) - 1 = i /\ i <= n
      BY <1>1, <2>1
    <3>2. h[i + 1] = IF h[i].sock[so].expire <= 0 THEN udp_detach(h[i], so) ELSE h[i]
      BY <1>2, <1>3, <3>1 DEF Course
    <3>3. StateOK(h[i]) /\ so \in Sockets
      BY <1>1, <1>5, <3>1
    <3> HIDE DEF so
    <3>4. Keeps(h[i], udp_detach(h[i], so))
      BY <3>3, SofreeKeeps DEF StateOK, Good
    <3>5. StateOK(udp_detach(h[i], so))
      BY <3>3, <3>4, KeepsGood DEF StateOK
    <3>6. QED
      BY <3>2, <3>3, <3>5
  <2>2. QED
    BY <2>1
<1> HIDE DEF T
<1>6. n \in T
  BY <1>1, <1>4, <1>5, SetInduction
<1>7. QED
  BY <1>1, <1>2, <1>6 DEF T

\* The error to a socket's own datagram.
LEMMA BackupErrorGood ==
  ASSUME NEW w, OutOK(w), SocksOK(w), NEW so \in Range(w.udb)
  PROVE  OutOK(BackupError(w, so, "port")) /\ Beside(w, BackupError(w, so, "port"))
<1> DEFINE k == w.sock[so]
           d == k.m[1].data[1][1]
           e == Packet("icmp", Vhost, "garbage", <<<<"port", d, 1>>>>)
<1>1. SocketOK(w.sent, w.fds, k)
  BY DEF SocksOK
<1>2. k.m[1] \in Part /\ (k.shifted => FailedOf(w.sent, d))
  BY <1>1 DEF SocketOK, Kept, Backed
<1>3. "port" \in Errors /\ "port" \notin {"answer", "echo"} /\ NoSocket \in Socks
  BY DEF Errors, Socks
<1>4. CASE ~k.shifted
  <2>1. BackupError(w, so, "port") = icmp_error(w, k.m[1], "port")
    BY <1>4 DEF BackupError
  <2> HIDE DEF k
  <2>2. QED
    BY <1>2, <1>3, <2>1, IcmpErrorGood
<1>5. CASE k.shifted /\ BeforeBuffer = "offset"
  <2>1. BackupError(w, so, "port") = w
    BY <1>5 DEF BackupError
  <2>2. QED
    BY <2>1, BesideItself
<1>6. CASE k.shifted /\ BeforeBuffer # "offset"
  <2>1. BackupError(w, so, "port") = ip_output(w, NoSocket, e)
    BY <1>6 DEF BackupError
  <2>2. FailedOf(w.sent, d)
    BY <1>2, <1>6
  <2> HIDE DEF d, k
  <2>3. OutOK(ip_output(w, NoSocket, e)) /\ Beside(w, ip_output(w, NoSocket, e))
    BY <1>3, <2>2, SingleGood
  <2>4. QED
    BY <2>1, <2>3
<1>7. QED
  BY <1>4, <1>5, <1>6

\* What a socket's answers go back with.
LEMMA ReplySourceIs ==
  ASSUME NEW k, NEW a, a # VnetBroadcast, k.faddr = a
  PROVE  ReplySource(k, HostOf(a)) = a
BY DEF ReplySource, HostOf

\* udp_output.
LEMMA UdpOutputGood ==
  ASSUME NEW w, OutOK(w), SocksOK(w), NEW so \in Range(w.udb), w.sock[so].type # "icmp",
         NEW r \in Reply, Serves(w.sock[so], r.d, r.port, r.from), peers.n \in Nat \ {0}
  PROVE  OutOK(udp_output(w, so, r)) /\ Beside(w, udp_output(w, so, r))
<1> DEFINE k == w.sock[so]
           data == [i \in 1 .. peers.n |-> <<"answer", r.d, i, peers.n, r.port, k.lport>>]
           m == [src |-> ReplySource(k, r.from), dst |-> k.laddr, p |-> "udp", id |-> 0,
                 off |-> 0, mf |-> FALSE, data |-> data]
           e == Datagrams[r.d]
<1>1. udp_output(w, so, r) = ip_output(w, so, m)
  BY DEF udp_output
<1>2. /\ e.src = k.laddr /\ e.sport = k.lport /\ r.port = e.dport /\ r.from = HostOf(e.dst)
  BY DEF Serves
<1>3. \E i \in DOMAIN w.sent : LET c == Datagrams[w.sent[i].d]
                               IN  c.src = k.laddr /\ c.sport = k.lport /\ c.dst = k.faddr
  BY DEF SocksOK, SocketOK, Directed
<1>4. \A i \in 1 .. peers.n : /\ data[i][1] = "answer" /\ data[i][2] = r.d /\ data[i][3] = i
                              /\ data[i][4] = peers.n /\ data[i][5] = r.port
                              /\ data[i][6] = k.lport
  OBVIOUS
<1>5. /\ DOMAIN data = 1 .. peers.n /\ Len(data) = peers.n /\ data # <<>>
      /\ data \in Seq({data[i] : i \in 1 .. peers.n})
  <2>1. data \in [1 .. peers.n -> {data[i] : i \in 1 .. peers.n}] /\ DOMAIN data = 1 .. peers.n
    OBVIOUS
  <2> HIDE DEF data
  <2>2. data \in Seq({data[i] : i \in 1 .. peers.n})
    BY <2>1
  <2>3. Len(data) = peers.n /\ Len(data) # 0
    BY <2>1, <2>2
  <2>4. data # <<>>
    BY <2>2, <2>3, EmptySeq
  <2>5. QED
    BY <2>1, <2>2, <2>3, <2>4
<1>6. /\ {"src", "dst", "off", "mf", "data"} \subseteq DOMAIN m
      /\ m.src = ReplySource(k, r.from) /\ m.dst = k.laddr /\ m.data = data
      /\ m.off = 0 /\ m.mf = FALSE
  BY DEF m
<1> HIDE DEF m, data, k
<1>7. WholePacket(m)
  BY <1>5, <1>6 DEF WholePacket
<1>8. ASSUME NEW f, PartOf(m, f)
      PROVE  Answered(w.sent, f)
  <2>1. /\ f.off + 1 \in 1 .. peers.n /\ f.data[1] = data[f.off + 1]
        /\ f.src = m.src /\ f.dst = m.dst
    BY <1>5, <1>6, <1>8, FirstUnit
  <2>2. /\ f.data[1][1] = "answer" /\ f.data[1][2] = r.d /\ f.data[1][4] = peers.n
        /\ f.data[1][5] = r.port /\ f.data[1][6] = k.lport
    BY <1>4, <2>1
  <2>3. WellPlaced(f, peers.n)
    <3>1. \A j \in DOMAIN m.data : m.data[j][3] = j
      BY <1>4, <1>5, <1>6
    <3>2. Units(m) = peers.n
      BY <1>5, <1>6 DEF Units
    <3>3. QED
      BY <1>8, <3>1, <3>2, PartsArePlaced
  <2>4. AskedOf(w.sent, r.d) \subseteq {e.dst} /\ e.dst \notin {Broadcast, VnetBroadcast} =>
           f.src = e.dst
    <3>1. HAVE AskedOf(w.sent, r.d) \subseteq {e.dst} /\ e.dst \notin {Broadcast, VnetBroadcast}
    <3>2. k.faddr \in AskedOf(w.sent, r.d)
      BY <1>2, <1>3 DEF AskedOf
    <3>3. k.faddr = e.dst
      BY <3>1, <3>2
    <3>4. QED
      BY <1>2, <1>6, <2>1, <3>1, <3>3, ReplySourceIs
  <2>5. QED
    BY <1>2, <1>6, <2>1, <2>2, <2>3, <2>4 DEF Answered, Errors
<1>9. so \in Socks
  BY RangeOf DEF SocksOK, Socks
<1>10. OutOK(ip_output(w, so, m)) /\ Beside(w, ip_output(w, so, m))
  BY <1>7, <1>8, <1>9, OutputGood
<1>11. QED
  BY <1>1, <1>10

\* One datagram or error is read.
LEMMA RecvKeeps ==
  ASSUME NEW w, StateOK(w), NEW so \in Range(w.udb), w.sock[so].inq # <<>>,
         peers.n \in Nat \ {0}
  PROVE  StateOK(sorecvfrom(w, so)) /\ OnlyOf(w, sorecvfrom(w, so), so)
<1> DEFINE k == w.sock[so]
           r == Head(k.inq)
           t == [w EXCEPT !.sock[so].inq = Tail(@)]
           age == IF k.fport = Dns THEN SoExpireFast ELSE SoExpire
           u == [t EXCEPT !.sock[so].expire = age]
           x == sorecvfrom(w, so)
<1>1. /\ OutOK(w) /\ SocksOK(w) /\ Fields \subseteq DOMAIN w /\ DOMAIN w.sock = Sockets
      /\ so \in Sockets
  BY FieldsOf, RangeOf DEF StateOK, Good, SocksOK
<1>2. SocketOK(w.sent, w.fds, k)
  BY <1>1 DEF SocksOK
<1>3. /\ KeptOfSocket \subseteq DOMAIN k /\ k.inq \in Seq(Reply) /\ Kept(k.m[1])
      /\ k.type # "icmp" =>
           \A i \in DOMAIN k.inq : Serves(k, k.inq[i].d, k.inq[i].port, k.inq[i].from)
  BY <1>2 DEF SocketOK
<1>4. /\ r \in Reply /\ Tail(k.inq) \in Seq(Reply) /\ 1 \in DOMAIN k.inq /\ r = k.inq[1]
      /\ \A j \in DOMAIN Tail(k.inq) : j + 1 \in DOMAIN k.inq /\ Tail(k.inq)[j] = k.inq[j + 1]
  <2> DEFINE q == k.inq
  <2>1. q \in Seq(Reply) /\ q # <<>>
    BY <1>3
  <2> HIDE DEF q
  <2>2. /\ Head(q) \in Reply /\ Tail(q) \in Seq(Reply) /\ 1 \in DOMAIN q /\ Head(q) = q[1]
        /\ \A j \in DOMAIN Tail(q) : j + 1 \in DOMAIN q /\ Tail(q)[j] = q[j + 1]
    BY <2>1, HeadTailProperties
  <2>3. QED
    BY <2>2 DEF q
<1>5. k.type # "icmp" => Serves(k, r.d, r.port, r.from)
  BY <1>3, <1>4
<1>6. k.type # "icmp" => \A j \in DOMAIN Tail(k.inq) :
         Serves(k, Tail(k.inq)[j].d, Tail(k.inq)[j].port, Tail(k.inq)[j].from)
  BY <1>3, <1>4
<1>7. /\ DOMAIN t = DOMAIN w /\ DOMAIN t.sock = Sockets
      /\ \A f \in Fields \ {"sock"} : t[f] = w[f]
      /\ \A a \in Sockets : a # so => t.sock[a] = w.sock[a]
      /\ t.sock[so] = [k EXCEPT !.inq = Tail(k.inq)]
  BY <1>1 DEF Fields
<1> DEFINE l == t.sock[so]
<1>8. /\ KeptOfSocket \subseteq DOMAIN l /\ l.inq = Tail(k.inq) /\ DOMAIN l = DOMAIN k
      /\ \A f \in KeptOfSocket \ {"inq"} : l[f] = k[f]
  <2> HIDE DEF k, t
  <2>1. QED
    BY <1>3, <1>7 DEF KeptOfSocket
<1> HIDE DEF t
<1>9. StateOK(t) /\ OnlyOf(w, t, so) /\ t.udb = w.udb /\ t.sent = w.sent
  <2>1. l.inq \in Seq(Reply)
    BY <1>4, <1>8
  <2>2. k.type # "icmp" => \A j \in DOMAIN l.inq : Serves(k, l.inq[j].d, l.inq[j].port, l.inq[j].from)
    BY <1>6, <1>8
  <2>3. \A f \in KeptOfSocket \ {"inq", "expire"} : l[f] = k[f]
    BY <1>8
  <2>4. InqChange(w, t, so)
    BY <1>7, <1>8, <2>1, <2>2, <2>3 DEF InqChange
  <2> HIDE DEF k, r, x, l
  <2>5. QED
    BY <2>4, InqChangeKeeps
<1>10. OutOK(t) /\ SocksOK(t)
  BY <1>9 DEF StateOK, Good
<1>11. l.type = k.type /\ l.m = k.m
  BY <1>8 DEF KeptOfSocket
<1>12. OutOK(BackupError(t, so, "port")) /\ Beside(t, BackupError(t, so, "port"))
  BY <1>9, <1>10, BackupErrorGood
<1>13. OutOK(icmp_reflect(t, k.m[1])) /\ Beside(t, icmp_reflect(t, k.m[1]))
  BY <1>3, <1>10, ReflectGood
<1>14. ASSUME NEW y, OutOK(y), Beside(t, y)
       PROVE  /\ StateOK(y) /\ OnlyOf(w, y, so)
              /\ StateOK(udp_detach(y, so)) /\ OnlyOf(w, udp_detach(y, so), so)
  <2>1. StateOK(y)
    BY <1>9, <1>14, BesideGood DEF StateOK
  <2>2. OnlyOf(w, y, so)
    BY <1>9, <1>10, <1>14, BesideKeeps, OnlyOfBoth
  <2>3. OutOK(y) /\ SocksOK(y)
    BY <2>1 DEF StateOK, Good
  <2>4. Keeps(y, udp_detach(y, so)) /\ OnlyOf(y, udp_detach(y, so), so)
    BY <1>1, <2>3, SofreeKeeps
  <2>5. StateOK(udp_detach(y, so))
    BY <2>1, <2>4, KeepsGood DEF StateOK
  <2>6. QED
    BY <2>1, <2>2, <2>4, <2>5, OnlyOfBoth
<1>15. CASE k.type = "icmp"
  <2>1. x = udp_detach(IF r.err THEN BackupError(t, so, "port") ELSE icmp_reflect(t, k.m[1]), so)
    BY <1>15 DEF sorecvfrom, t
  <2> HIDE DEF x, r, k
  <2>2. CASE r.err
    BY <1>12, <1>14, <2>1, <2>2 DEF x
  <2>3. CASE ~r.err
    BY <1>13, <1>14, <2>1, <2>3 DEF x
  <2>4. QED
    BY <2>2, <2>3
<1>16. CASE k.type # "icmp" /\ r.err
  <2>1. x = BackupError(t, so, "port")
    BY <1>16 DEF sorecvfrom, t
  <2> HIDE DEF x, r, k
  <2>2. QED
    BY <1>12, <1>14, <2>1 DEF x
<1>17. CASE k.type # "icmp" /\ ~r.err
  <2>1. x = udp_output(u, so, r)
    BY <1>17 DEF sorecvfrom, t
  <2> DEFINE v == u.sock[so]
  <2>2. /\ DOMAIN u = DOMAIN t /\ DOMAIN u.sock = Sockets
        /\ \A f \in Fields \ {"sock"} : u[f] = t[f]
        /\ \A a \in Sockets : a # so => u.sock[a] = t.sock[a]
        /\ v = [l EXCEPT !.expire = age]
    BY <1>1, <1>7 DEF Fields
  <2> HIDE DEF l, u, age
  <2>3. /\ KeptOfSocket \subseteq DOMAIN v
        /\ \A f \in KeptOfSocket \ {"expire"} : v[f] = l[f]
    BY <1>8, <2>2
  <2>4. v.inq = l.inq /\ v.type = k.type /\ v.laddr = k.laddr /\ v.lport = k.lport
        /\ l.laddr = k.laddr /\ l.lport = k.lport
    BY <1>8, <2>3 DEF KeptOfSocket
  <2>5. l.type # "icmp" =>
           \A j \in DOMAIN v.inq : Serves(l, v.inq[j].d, v.inq[j].port, v.inq[j].from)
    <3> HIDE DEF k, v, x, r
    <3>1. v.inq = Tail(k.inq)
      BY <1>8, <2>4
    <3>2. \A d, p, to : Serves(k, d, p, to) => Serves(l, d, p, to)
      BY <2>4 DEF Serves
    <3>3. QED
      BY <1>6, <1>11, <3>1, <3>2
  <2>6. StateOK(u) /\ OnlyOf(t, u, so) /\ u.udb = t.udb
    <3>1. so \in Range(t.udb)
      BY <1>9
    <3>2. v.inq \in Seq(Reply)
      BY <1>4, <1>8, <2>4
    <3>3. \A f \in KeptOfSocket \ {"inq", "expire"} : v[f] = l[f]
      BY <2>3
    <3>4. InqChange(t, u, so)
      <4> HIDE DEF k, x, r
      <4>1. QED
        BY <2>2, <2>3, <2>5, <3>2, <3>3 DEF InqChange, l
    <3> HIDE DEF k, v, x, r
    <3>5. QED
      BY <1>9, <3>1, <3>4, InqChangeKeeps
  <2>7. v.type # "icmp" /\ Serves(v, r.d, r.port, r.from)
    BY <1>5, <1>17, <2>4 DEF Serves
  <2>8. OutOK(u) /\ SocksOK(u) /\ so \in Range(u.udb)
    BY <1>9, <2>6 DEF StateOK, Good
  <2> HIDE DEF x, r, k
  <2>9. OutOK(x) /\ Beside(u, x)
    BY <1>4, <2>1, <2>7, <2>8, UdpOutputGood
  <2>10. StateOK(x)
    BY <2>6, <2>9, BesideGood DEF StateOK
  <2>11. OnlyOf(u, x, so)
    BY <2>8, <2>9, BesideKeeps
  <2>12. OnlyOf(w, x, so)
    BY <1>9, <2>6, <2>11, OnlyOfBoth
  <2>13. QED
    BY <2>10, <2>12 DEF x
<1>18. QED
  BY <1>15, <1>16, <1>17

\* slirp_select_poll.
LEMMA PolledKeeps ==
  ASSUME NEW w, StateOK(w), NEW ready, ready \subseteq Range(w.udb),
         \A so \in ready : w.sock[so].inq # <<>>, peers.n \in Nat \ {0}
  PROVE  StateOK(Polled(w, ready))
<1> DEFINE n == Len(w.udb)
           loop == [loop |-> "poll", ready |-> ready]
           q == w.udb
<1>1. /\ n \in Nat /\ DOMAIN q = 1 .. n /\ \A i \in 1 .. n : q[i] \in Sockets
      /\ \A i, j \in 1 .. n : q[i] = q[j] => i = j
  BY DEF StateOK, Good, SocksOK
<1>2. \A i \in 1 .. n : q[i] \in Range(w.udb)
  BY <1>1 DEF Range
<1>3. PICK h : Course(h, loop, w, q, n) /\ Polled(w, ready) = h[n]
  BY <1>1, PollCourse
<1>4. \A t, x : Do(loop, t, x) = IF x \in ready THEN sorecvfrom(t, x) ELSE t
  BY DEF Do
<1> DEFINE Unread(t, i) == \A j \in i + 1 .. n :
             q[j] \in Range(t.udb) /\ (q[j] \in ready => t.sock[q[j]].inq # <<>>)
           T == {i \in Nat : i <= n => StateOK(h[i]) /\ Unread(h[i], i)}
<1> HIDE DEF loop, n, q
<1>5. 0 \in T
  <2>1. h[0] = w
    BY <1>3 DEF Course
  <2>2. Unread(w, 0)
    BY <1>1, <1>2
  <2>3. QED
    BY <2>1, <2>2
<1>6. ASSUME NEW i \in Nat, i \in T
      PROVE  i + 1 \in T
  <2>1. ASSUME i + 1 <= n
        PROVE  StateOK(h[i + 1]) /\ Unread(h[i + 1], i + 1)
    <3> DEFINE so == q[i + 1]
               x == sorecvfrom(h[i], so)
    <3>1. i + 1 \in 1 .. n /\ (i + 1) - 1 = i /\ i <= n
      BY <1>1, <2>1
    <3>2. h[i + 1] = IF so \in ready THEN x ELSE h[i]
      BY <1>3, <1>4, <3>1 DEF Course
    <3>3. StateOK(h[i]) /\ Unread(h[i], i)
      BY <1>6, <3>1
    <3>4. so \in Range(h[i].udb) /\ (so \in ready => h[i].sock[so].inq # <<>>)
      BY <1>1, <3>1, <3>3
    <3>5. \A j \in (i + 1) + 1 .. n : j \in i + 1 .. n /\ j \in 1 .. n /\ q[j] # so /\ q[j] \in Sockets
      BY <1>1, <3>1
    <3> HIDE DEF so, x
    <3>6. so \in ready => StateOK(x) /\ OnlyOf(h[i], x, so)
      BY <3>3, <3>4, RecvKeeps DEF x
    <3>7. OnlyOf(h[i], x, so) => Unread(x, i + 1)
      <4>1. HAVE OnlyOf(h[i], x, so)
      <4>2. \A a \in Sockets : a # so =>
               /\ x.sock[a].inq = h[i].sock[a].inq
               /\ a \in Range(h[i].udb) <=> a \in Range(x.udb)
        BY <4>1 DEF OnlyOf, SameSocket, KeptOfSocket
      <4>3. QED
        BY <3>3, <3>5, <4>2
    <3>8. Unread(h[i], i + 1)
      BY <3>3, <3>5
    <3>9. QED
      BY <3>2, <3>3, <3>6, <3>7, <3>8
  <2>2. QED
    BY <2>1
<1> HIDE DEF T
<1>7. n \in T
  BY <1>1, <1>5, <1>6, SetInduction
<1>8. QED
  BY <1>1, <1>3, <1>7 DEF T

\* A round of the main loop.
LEMMA PollKeeps ==
  ASSUME NEW w, StateOK(w), NEW dt, peers.n \in Nat \ {0}
  PROVE  StateOK(SelectAndPoll(w, dt))
<1> DEFINE filled == Expire(w)
           slow == SlowTimo(filled, dt)
           old == Age(slow, dt)
           ready == Selected(filled)
           x == Polled(old, ready)
<1>1. SelectAndPoll(w, dt) = if_start(x)
  BY DEF SelectAndPoll, PollSockets, Polled
<1>2. StateOK(filled)
  BY ExpireKeeps
<1> HIDE DEF filled
<1>3. ready \subseteq Range(filled.udb) /\ \A so \in ready : filled.sock[so].inq # <<>>
  BY DEF Selected
<1> HIDE DEF ready
<1>4. StateOK(slow) /\ slow.udb = filled.udb /\ slow.sock = filled.sock
  BY <1>2, SlowTimoKeeps
<1> HIDE DEF slow
<1>5. /\ StateOK(old) /\ old.udb = slow.udb
      /\ \A so \in Range(slow.udb) : old.sock[so].inq = slow.sock[so].inq
  BY <1>4, AgeKeeps
<1> HIDE DEF old
<1>6. ready \subseteq Range(old.udb) /\ \A so \in ready : old.sock[so].inq # <<>>
  BY <1>3, <1>4, <1>5
<1>7. StateOK(x)
  BY <1>5, <1>6, PolledKeeps
<1> HIDE DEF x
<1>8. OutOK(if_start(x)) /\ Beside(x, if_start(x))
  BY <1>7, IfStartGood DEF StateOK, Good
<1>9. StateOK(if_start(x))
  BY <1>7, <1>8, BesideGood DEF StateOK
<1>10. QED
  BY <1>1, <1>9

-----------------------------------------------------------------------------
(* The theorems.                                                            *)

SlirpInv ==
  /\ StateOK(s)
  /\ todo \subseteq Frames
  /\ DOMAIN peers = {"n", "left", "errors", "frames"} /\ peers.n \in Nat \ {0}

LEMMA InitInv ==
  Init => SlirpInv
<1>1. SUFFICES ASSUME Init PROVE SlirpInv
  OBVIOUS
<1>2. PICK case \in Scenarios : todo = case.frames /\
         peers = [n |-> case.answer, left |-> case.answers, errors |-> case.errors,
                  frames |-> case.frames]
  BY <1>1 DEF Init
<1>3. todo \subseteq Frames
  BY <1>2 DEF Frames
<1>4. DOMAIN peers = {"n", "left", "errors", "frames"} /\ peers.n \in Nat \ {0}
  BY <1>2, ScenariosAssumption
<1>5. /\ s.ipq = <<>> /\ s.udb = <<>> /\ s.udpLast = NoSocket /\ s.fds = 0
      /\ s.sock = [so \in Sockets |-> Free] /\ s.fastq = <<>> /\ s.batchq = <<>>
      /\ s.nextM = 0 /\ s.serial = 0 /\ s.last = [so \in Socks |-> 0] /\ s.rx = 0
      /\ s.got = {} /\ s.sent = <<>> /\ s.leases = [i \in Leases |-> Free] /\ s.acked = {}
      /\ DOMAIN s = Fields
  BY <1>1 DEF Init, Fields, Socks
<1>6. QueuesOK({}, s)
  <2>1. <<>> \in Seq(Session({})) /\ DOMAIN <<>> = {} /\ Len(<<>>) = 0
    OBVIOUS
  <2>2. Queued({}, <<>>, <<>>, s.last, s.serial)
    BY <2>1 DEF Queued
  <2>3. QED
    BY <1>5, <2>1, <2>2 DEF QueuesOK
<1>7. OutOK(s)
  BY <1>6 DEF OutOK
<1>8. SocksOK(s)
  <2>1. <<>> \in Seq(Sockets) /\ <<>> \in Seq(Sent) /\ DOMAIN <<>> = {}
    OBVIOUS
  <2>2. Range(s.udb) = {}
    BY <1>5, <2>1 DEF Range
  <2>3. QED
    BY <1>5, <2>1, <2>2 DEF SocksOK
<1>9. LeasesOK(s)
  BY <1>5 DEF LeasesOK
<1>10. s.ipq \in Seq(Queue)
  BY <1>5
<1>11. QED
  BY <1>3, <1>4, <1>7, <1>8, <1>9, <1>10 DEF SlirpInv, StateOK, Good

LEMMA NextInv ==
  SlirpInv /\ [Next]_vars => SlirpInv'
<1>1. SUFFICES ASSUME SlirpInv, [Next]_vars PROVE SlirpInv'
  OBVIOUS
<1>2. /\ StateOK(s) /\ todo \subseteq Frames /\ peers.n \in Nat \ {0}
      /\ DOMAIN peers = {"n", "left", "errors", "frames"}
  BY <1>1 DEF SlirpInv
<1>3. StateOK(s') /\ todo' \subseteq Frames /\ peers'.n = peers.n /\ DOMAIN peers' = DOMAIN peers
        => SlirpInv'
  BY <1>2 DEF SlirpInv, StateOK, Good, OutOK, SocksOK, LeasesOK
<1>4. CASE GuestSends
  <2>1. PICK frame \in todo, fails \in BOOLEAN :
          /\ s' = slirp_input(s, frame, fails)
          /\ todo' = todo \ {frame}
          /\ peers' = IF fails THEN [peers EXCEPT !.errors = @ - 1] ELSE peers
    BY <1>4 DEF GuestSends
  <2>2. IF frame.p = "arp" THEN frame.op \in {"request", "reply"} ELSE frame \in Part
    BY <1>2, ScenariosAssumption
  <2>3. StateOK(s')
    BY <1>2, <2>1, <2>2, InputKeeps
  <2>4. peers'.n = peers.n /\ DOMAIN peers' = DOMAIN peers /\ todo' \subseteq Frames
    BY <1>2, <2>1
  <2>5. QED
    BY <1>3, <2>3, <2>4
<1>5. CASE GuestAnswersArp
  <2>1. PICK frame \in s.got :
          /\ s' = slirp_input(s, [p |-> "arp", op |-> "reply", sip |-> frame.tip,
                                  mac |-> GuestMac], FALSE)
          /\ UNCHANGED <<todo, peers>>
    BY <1>5 DEF GuestAnswersArp
  <2> DEFINE arp == [p |-> "arp", op |-> "reply", sip |-> frame.tip, mac |-> GuestMac]
  <2>2. arp.p = "arp" /\ arp.op \in {"request", "reply"}
    OBVIOUS
  <2> HIDE DEF arp
  <2>3. StateOK(slirp_input(s, arp, FALSE))
    BY <1>2, <2>2, InputKeeps
  <2>4. QED
    BY <1>2, <1>3, <2>1, <2>3 DEF arp
<1>6. CASE GuestProvides
  BY <1>2, <1>3, <1>6, ProvidesKeeps DEF GuestProvides
<1>7. CASE SoonAgain \/ Later
  BY <1>2, <1>3, <1>7, PollKeeps DEF SoonAgain, Later, Poll
<1>8. CASE PeerAnswers
  <2>1. PICK i \in DOMAIN s.sent, so \in Sockets, err \in BOOLEAN :
          LET e == s.sent[i]
          IN  /\ s.sock[so] # Free /\ s.sock[so].fd = e.fd
              /\ s' = [s EXCEPT !.sock[so].inq = Append(@,
                          [err |-> err, d |-> e.d, from |-> e.to, port |-> e.port])]
              /\ peers' = [peers EXCEPT !.left = @ - 1, !.errors = IF err THEN @ - 1 ELSE @]
              /\ UNCHANGED todo
    BY <1>8 DEF PeerAnswers
  <2>2. StateOK(s')
    BY <1>2, <2>1, AnswerKeeps
  <2>3. peers'.n = peers.n /\ DOMAIN peers' = DOMAIN peers
    BY <1>2, <2>1
  <2>4. QED
    BY <1>2, <1>3, <2>1, <2>2, <2>3
<1>9. CASE UNCHANGED vars
  BY <1>2, <1>3, <1>9 DEF vars
<1>10. QED
  BY <1>1, <1>4, <1>5, <1>6, <1>7, <1>8, <1>9 DEF Next

\* The sockets, the output queues, the reassembly queues and the leases are always
\* in order: a socket that is in the list has a descriptor of its own and the last
\* datagram sent on it, and what waits on it answers a datagram of its port; the
\* fragments of a queue are parts of datagrams between its hosts.
\* (udp_attach, udp_input, icmp_input, sofree, ip_reass, if_output)
THEOREM SlirpStaysInOrder ==
  Spec => []SlirpInv
<1>1. QED
  BY InitInv, NextInv, PTL DEF Spec

\* An address granted by DISCOVER, REQUEST or BOOTP stays its client's.  (bootp_reply)
THEOREM AddressesStayDistinct ==
  Spec => []AddressesAreDistinct
<1>1. SlirpInv => AddressesAreDistinct
  BY DEF SlirpInv, StateOK, Good, LeasesOK, AddressesAreDistinct
<1>2. QED
  BY <1>1, SlirpStaysInOrder, PTL

\* The packets of a socket leave in the order in which they were queued.
\* (if_output, if_start)
THEOREM SessionsStayInOrder ==
  Spec => []SessionsLeaveInOrder
<1>1. ASSUME SlirpInv
      PROVE  SessionsLeaveInOrder
  <2>1. PICK M : QueuesOK(M, s)
    BY <1>1 DEF SlirpInv, StateOK, Good, OutOK
  <2> DEFINE f == s.fastq
             b == s.batchq
             q == f \o b
             Before1(i, k, j, l) == i < j \/ (i = j /\ k < l)
  <2>2. Queued(M, f, b, s.last, s.serial)
    BY <2>1 DEF QueuesOK
  <2> HIDE DEF f, b
  <2>3. f \in Seq(Session(M)) /\ b \in Seq(Session(M)) /\ Len(f) \in Nat /\ Len(b) \in Nat
    BY <2>2 DEF Queued
  <2>4. /\ DOMAIN q = 1 .. Len(f) + Len(b)
        /\ \A i \in DOMAIN q : q[i] = IF i <= Len(f) THEN f[i] ELSE b[i - Len(f)]
    BY <2>3
  <2>5. DOMAIN f = 1 .. Len(f) /\ DOMAIN b = 1 .. Len(b)
    BY <2>3
  <2>6. \A i \in DOMAIN q : \/ i \in DOMAIN f /\ q[i] = f[i]
                            \/ i - Len(f) \in DOMAIN b /\ q[i] = b[i - Len(f)] /\ i > Len(f)
    BY <2>3, <2>4, <2>5
  <2> HIDE DEF q
  <2>7. \A i \in DOMAIN q : Proper(q[i], s.last, s.serial) /\ q[i] \in Session(M)
    <3>1. \A i \in DOMAIN f : f[i] \in Session(M)
      BY <2>3
    <3>2. \A i \in DOMAIN b : b[i] \in Session(M)
      BY <2>3
    <3>3. QED
      BY <2>2, <2>6, <3>1, <3>2 DEF Queued
  <2>8. \A i, j \in DOMAIN q : i < j /\ Owner(q[i]) = Owner(q[j]) => Sooner(q[i], q[j])
    <3>1. TAKE i, j \in DOMAIN q
    <3>2. HAVE i < j /\ Owner(q[i]) = Owner(q[j])
    <3>3. i \in Nat /\ j \in Nat
      BY <2>4 DEF q
    <3>4. CASE j \in DOMAIN f /\ q[j] = f[j]
      <4>1. i \in DOMAIN f /\ q[i] = f[i]
        BY <2>3, <2>5, <2>6, <3>2, <3>3, <3>4
      <4>2. QED
        BY <2>2, <3>2, <3>4, <4>1 DEF Queued
    <3>5. CASE j - Len(f) \in DOMAIN b /\ q[j] = b[j - Len(f)]
      <4>1. CASE i \in DOMAIN f /\ q[i] = f[i]
        BY <2>2, <3>2, <3>5, <4>1 DEF Queued
      <4>2. CASE i - Len(f) \in DOMAIN b /\ q[i] = b[i - Len(f)]
        <5>1. i - Len(f) = j - Len(f)
          BY <2>2, <3>2, <3>5, <4>2 DEF Queued
        <5>2. QED
          BY <2>3, <3>2, <3>3, <5>1
      <4>3. QED
        BY <2>6, <4>1, <4>2
    <3>6. QED
      BY <2>6, <3>4, <3>5
  <2>9. ASSUME NEW i \in DOMAIN q, NEW j \in DOMAIN q, NEW k \in DOMAIN q[i], NEW l \in DOMAIN q[j]
        PROVE  LET e == q[i][k]
               IN  /\ e.sn > s.last[e.so]
                   /\ e.so = q[j][l].so /\ Before1(i, k, j, l) => e.sn < q[j][l].sn
    <3>1. q[i][k].so = Owner(q[i]) /\ s.last[Owner(q[i])] < q[i][k].sn
      BY <2>7 DEF Proper
    <3>2. q[j][l].so = Owner(q[j])
      BY <2>7 DEF Proper
    <3>3. i = j /\ k < l => q[i][k].sn < q[j][l].sn
      BY <2>7 DEF Proper
    <3>4. i < j /\ Owner(q[i]) = Owner(q[j]) => q[i][k].sn < q[j][l].sn
      BY <2>8 DEF Sooner
    <3>5. s.last[Owner(q[i])] \in Nat /\ q[i][k].sn \in Nat
      BY <2>1, <2>7, SessionIs DEF QueuesOK
    <3>6. QED
      BY <3>1, <3>2, <3>3, <3>4, <3>5
  <2>10. QED
    BY <2>9 DEF SessionsLeaveInOrder, q, f, b
<1>2. QED
  BY <1>1, SlirpStaysInOrder, PTL

\* Whatever the guest gets of IP answers a datagram of its own, and reaches the
\* address and the port that sent it; only an error about a datagram whose send has
\* failed may go elsewhere.
\* (udp_input's search for the socket, so_faddr, udp_output, icmp_reflect, icmp_error)
THEOREM AnswersReachAsker ==
  Spec => []AnswersReachTheAsker
<1>1. ASSUME SlirpInv
      PROVE  AnswersReachTheAsker
  <2>1. PICK M : QueuesOK(M, s) /\ \A m \in M : Answered(s.sent, m)
    BY <1>1 DEF SlirpInv, StateOK, Good, OutOK
  <2>2. \A i \in DOMAIN s.sent : s.sent[i].d \in DOMAIN Datagrams
    <3>1. s.sent \in Seq(Sent)
      BY <1>1 DEF SlirpInv, StateOK, Good, SocksOK
    <3>2. \A i \in DOMAIN s.sent : s.sent[i] \in Sent
      BY <3>1
    <3>3. QED
      BY <3>2 DEF Sent
  <2>3. \A i \in DOMAIN s.sent : Datagrams[s.sent[i].d] \in Range(Datagrams)
    BY <2>2 DEF Range
  <2>4. \A d : AskedOf(s.sent, d) \subseteq AskedBy(d)
    BY <2>3 DEF AskedOf, AskedBy
  <2>5. ASSUME NEW m, Answered(s.sent, m)
        PROVE  Answers(m)
    <3>1. \A d : FailedOf(s.sent, d) => SendFailed(d)
      BY DEF FailedOf, SendFailed
    <3>2. QED
      BY <2>4, <2>5, <3>1 DEF Answered, Answers
  <2>6. QED
    BY <2>1, <2>5 DEF QueuesOK, AnswersReachTheAsker
<1>2. QED
  BY <1>1, SlirpStaysInOrder, PTL
====
