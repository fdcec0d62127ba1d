------------------------ MODULE VirtioDeviceProofs --------------------------
(***************************************************************************)
(* Theorems about the virtio block device, the console and the input       *)
(* devices, for rings of any size: any number of sectors and any requests; *)
(* any lengths of buffers, any terminal and any buttons of the three.      *)
(***************************************************************************)
EXTENDS VirtioBlock, VirtioConsole, VirtioInput, VirtQueueProofs, SequenceTheorems, NaturalsInduction,
        WellFoundedInduction

Less == {ss \in Nat \X Nat : ss[1] < ss[2]}

\* The numbers are well ordered.
LEMMA LessIsWellFounded ==
  IsWellFoundedOn(Less, Nat)
BY NatLessThanWellFounded DEF OpToRel, Less

\* Induction, for a set of numbers.
LEMMA SetInduction ==
  ASSUME NEW T, 0 \in T, \A n \in Nat : n \in T => n + 1 \in T
  PROVE  Nat \subseteq T
<1> DEFINE U == Nat \ T
<1>1. SUFFICES ASSUME U # {} PROVE FALSE
  OBVIOUS
<1>2. U \subseteq Nat
  OBVIOUS
<1> HIDE DEF U
<1>3. PICK x \in U : \A y \in U : ~(<<y, x>> \in Less)
  BY <1>1, <1>2, LessIsWellFounded, WFMin
<1>4. x \in Nat /\ x # 0 /\ x \notin T
  BY <1>2 DEF U
<1>5. x - 1 \in Nat /\ (x - 1) + 1 = x
  BY <1>4
<1>6. x - 1 \in U
  BY <1>4, <1>5 DEF U
<1>7. <<x - 1, x>> \in Less
  BY <1>5, <1>4 DEF Less
<1>8. QED
  BY <1>3, <1>6, <1>7

\* The concatenation of the first sequences of s, one more at a time.
Joined(s, f) == f = [i \in 1 .. Len(s) |-> IF i = 1 THEN s[i] ELSE f[i - 1] \o s[i]]

\* A sequence of sequences, flattened, is the last of these concatenations.
LEMMA FlattenIs ==
  ASSUME NEW S, NEW s \in Seq(Seq(S)), s # <<>>, NEW g, Joined(s, g)
  PROVE  FlattenSeq(s) = g[Len(s)]
<1> DEFINE f == CHOOSE h : Joined(s, h)
           T == {i \in Nat : i \in 1 .. Len(s) => f[i] = g[i]}
<1>1. FlattenSeq(s) = f[Len(s)]
  BY DEF FlattenSeq, Joined
<1>2. Joined(s, f)
  OBVIOUS
<1> HIDE DEF f
<1>3. \A i \in 1 .. Len(s) : /\ f[i] = IF i = 1 THEN s[i] ELSE f[i - 1] \o s[i]
                             /\ g[i] = IF i = 1 THEN s[i] ELSE g[i - 1] \o s[i]
  BY <1>2 DEF Joined
<1>4. 0 \in T
  OBVIOUS
<1>5. ASSUME NEW i \in Nat, i \in T
      PROVE  i + 1 \in T
  <2>1. CASE i = 0
    BY <1>3, <2>1
  <2>2. CASE i # 0 /\ i + 1 \in 1 .. Len(s)
    <3>1. i \in 1 .. Len(s) /\ (i + 1) - 1 = i /\ i + 1 # 1
      BY <2>2
    <3>2. f[i + 1] = f[i] \o s[i + 1] /\ g[i + 1] = g[i] \o s[i + 1]
      BY <1>3, <2>2, <3>1
    <3>3. f[i] = g[i]
      BY <1>5, <3>1
    <3>4. f[i + 1] = g[i + 1]
      BY <3>2, <3>3
    <3>5. QED
      BY <3>4
  <2>3. CASE i + 1 \notin 1 .. Len(s)
    BY <2>3
  <2>4. QED
    BY <2>1, <2>2, <2>3
<1> HIDE DEF T
<1>6. Nat \subseteq T
  BY <1>4, <1>5, SetInduction
<1>7. Len(s) \in Nat /\ Len(s) \in 1 .. Len(s)
  OBVIOUS
<1>8. QED
  BY <1>1, <1>6, <1>7 DEF T

\* Two functions on one set that agree everywhere.
LEMMA FunctionIs ==
  ASSUME NEW S, NEW v, NEW w, NEW g, g = [i \in S |-> v[i]], \A i \in S : g[i] = w[i]
  PROVE  g = [i \in S |-> w[i]]
OBVIOUS

\* There is such a function.
LEMMA JoinedExists ==
  ASSUME NEW S, NEW s \in Seq(Seq(S))
  PROVE  \E f \in [1 .. Len(s) -> Seq(S)] : Joined(s, f)
<1> DEFINE J(n, f) == f = [i \in 1 .. n |-> IF i = 1 THEN s[i] ELSE f[i - 1] \o s[i]]
           E(n) == \E f \in [1 .. n -> Seq(S)] : J(n, f)
           T == {n \in Nat : n <= Len(s) => E(n)}
<1>1. 0 \in T
  <2>1. J(0, <<>>) /\ <<>> \in [1 .. 0 -> Seq(S)]
    OBVIOUS
  <2>2. E(0)
    BY <2>1
  <2> HIDE DEF E
  <2>3. QED
    BY <2>2
<1>2. ASSUME NEW n \in Nat, n \in T
      PROVE  n + 1 \in T
  <2>1. SUFFICES ASSUME n + 1 <= Len(s)
                 PROVE  E(n + 1)
    <3> HIDE DEF E
    <3>1. QED
      OBVIOUS
  <2>2. PICK f \in [1 .. n -> Seq(S)] : J(n, f)
    <3>1. E(n)
      <4> HIDE DEF E
      <4>1. QED
        BY <1>2, <2>1
    <3>2. QED
      BY <3>1
  <2> DEFINE v == IF n + 1 = 1 THEN s[n + 1] ELSE f[n] \o s[n + 1]
             g == [i \in 1 .. n + 1 |-> IF i = n + 1 THEN v ELSE f[i]]
  <2>3. v \in Seq(S) /\ n + 1 \in 1 .. Len(s)
    <3>1. s[n + 1] \in Seq(S) /\ n + 1 \in 1 .. Len(s)
      BY <2>1
    <3>2. n + 1 # 1 => f[n] \in Seq(S)
      OBVIOUS
    <3>3. QED
      BY <3>1, <3>2
  <2>4. g \in [1 .. n + 1 -> Seq(S)]
    BY <2>3
  <2>5. ASSUME NEW i \in 1 .. n + 1
        PROVE  g[i] = IF i = 1 THEN s[i] ELSE g[i - 1] \o s[i]
    <3>1. CASE i = n + 1
      <4>1. i # 1 => g[i - 1] = f[n]
        BY <3>1
      <4>2. QED
        BY <3>1, <4>1
    <3>2. CASE i # n + 1
      <4>1. i \in 1 .. n /\ g[i] = f[i] /\ (i # 1 => g[i - 1] = f[i - 1])
        BY <3>2
      <4>2. f[i] = IF i = 1 THEN s[i] ELSE f[i - 1] \o s[i]
        BY <2>2, <4>1
      <4>3. QED
        BY <4>1, <4>2
    <3>3. QED
      BY <3>1, <3>2
  <2>6. J(n + 1, g)
    <3> DEFINE k == [i \in 1 .. n + 1 |-> IF i = 1 THEN s[i] ELSE g[i - 1] \o s[i]]
    <3>1. \A i \in 1 .. n + 1 : g[i] = k[i]
      BY <2>5
    <3>2. DOMAIN g = 1 .. n + 1 /\ g = [i \in DOMAIN g |-> g[i]]
      OBVIOUS
    <3>3. DOMAIN k = 1 .. n + 1 /\ k = [i \in DOMAIN k |-> k[i]]
      OBVIOUS
    <3> HIDE DEF g, k
    <3>4. g = k
      BY <3>1, <3>2, <3>3
    <3>5. QED
      BY <3>4 DEF k
  <2>7. QED
    BY <2>4, <2>6
<1> HIDE DEF T
<1>3. Nat \subseteq T
  BY <1>1, <1>2, SetInduction
<1>4. Len(s) \in Nat
  OBVIOUS
<1>5. E(Len(s))
  <2> HIDE DEF E
  <2>1. QED
    BY <1>3, <1>4 DEF T
<1>6. QED
  BY <1>5 DEF Joined

\* Flattened, sequences over S are one sequence over S.
LEMMA FlattenType ==
  ASSUME NEW S, NEW s \in Seq(Seq(S))
  PROVE  FlattenSeq(s) \in Seq(S)
<1>1. CASE s = <<>>
  BY <1>1 DEF FlattenSeq
<1>2. CASE s # <<>>
  <2>1. PICK f \in [1 .. Len(s) -> Seq(S)] : Joined(s, f)
    BY JoinedExists
  <2>2. Len(s) \in 1 .. Len(s)
    BY <1>2
  <2>3. FlattenSeq(s) = f[Len(s)]
    BY <1>2, <2>1, FlattenIs
  <2>4. QED
    BY <2>2, <2>3
<1>3. QED
  BY <1>1, <1>2

\* One more sequence at the end.
LEMMA FlattenAppend ==
  ASSUME NEW S, NEW s \in Seq(Seq(S)), NEW x \in Seq(S)
  PROVE  FlattenSeq(Append(s, x)) = FlattenSeq(s) \o x
<1> DEFINE n == Len(s)
           u == Append(s, x)
<1>1. /\ n \in Nat /\ u \in Seq(Seq(S)) /\ u # <<>> /\ Len(u) = n + 1
      /\ u[n + 1] = x /\ \A i \in 1 .. n : u[i] = s[i]
  <2> DEFINE R == Seq(S)
  <2>1. s \in Seq(R) /\ x \in R
    OBVIOUS
  <2> HIDE DEF R
  <2>2. /\ n \in Nat /\ u \in Seq(R) /\ u # <<>> /\ Len(u) = n + 1
        /\ u[n + 1] = x /\ \A i \in 1 .. n : u[i] = s[i]
    BY <2>1
  <2>3. QED
    BY <2>2 DEF R
<1> HIDE DEF u
<1>2. PICK f \in [1 .. n + 1 -> Seq(S)] : Joined(u, f)
  BY <1>1, JoinedExists
<1>3. \A i \in 1 .. n + 1 : f[i] = IF i = 1 THEN u[i] ELSE f[i - 1] \o u[i]
  BY <1>1, <1>2 DEF Joined
<1>4. FlattenSeq(u) = f[n + 1]
  BY <1>1, <1>2, FlattenIs
<1>5. CASE s = <<>>
  <2>1. f[1] = x
    BY <1>1, <1>3, <1>5
  <2>2. FlattenSeq(s) = <<>> /\ n = 0 /\ <<>> \o x = x
    BY <1>5, ConcatEmptySeq DEF FlattenSeq
  <2>3. QED
    BY <1>4, <2>1, <2>2 DEF u
<1>6. CASE s # <<>>
  <2>1. n >= 1 /\ n + 1 # 1 /\ (n + 1) - 1 = n
    BY <1>6
  <2>2. f[n + 1] = f[n] \o x
    <3> DEFINE j == n + 1
    <3>1. j \in 1 .. n + 1 /\ j # 1 /\ j - 1 = n /\ u[j] = x
      BY <1>1, <2>1
    <3> HIDE DEF j
    <3>2. f[j] = f[j - 1] \o u[j]
      BY <1>3, <3>1
    <3>3. QED
      BY <3>1, <3>2 DEF j
  <2> DEFINE g == [i \in 1 .. n |-> f[i]]
  <2> HIDE DEF n
  <2>3. \A i \in 1 .. n : g[i] = f[i]
    OBVIOUS
  <2>4. ASSUME NEW i \in 1 .. n
        PROVE  g[i] = IF i = 1 THEN s[i] ELSE g[i - 1] \o s[i]
    <3> HIDE DEF g
    <3>1. i \in 1 .. n + 1 /\ (i # 1 => i - 1 \in 1 .. n)
      BY <1>1
    <3>2. u[i] = s[i] /\ g[i] = f[i] /\ (i # 1 => g[i - 1] = f[i - 1])
      BY <1>1, <2>3, <3>1
    <3>3. QED
      BY <1>3, <3>1, <3>2
  <2>5. Joined(s, g)
    BY <2>4, FunctionIs DEF Joined, n
  <2>6. FlattenSeq(s) = g[n]
    BY <1>6, <2>5, FlattenIs DEF n
  <2>7. g[n] = f[n]
    BY <2>1, <1>1
  <2>8. QED
    BY <1>4, <2>2, <2>6, <2>7 DEF u
<1>7. QED
  BY <1>5, <1>6

\* The first sequence, and the others.
LEMMA FlattenCons ==
  ASSUME NEW S, NEW s \in Seq(Seq(S)), s # <<>>
  PROVE  FlattenSeq(s) = Head(s) \o FlattenSeq(Tail(s))
<1> DEFINE n == Len(s)
           x == Head(s)
           t == Tail(s)
<1>1. /\ n \in Nat /\ n >= 1 /\ x = s[1] /\ x \in Seq(S)
      /\ t \in Seq(Seq(S)) /\ Len(t) = n - 1
      /\ \A i \in 1 .. n - 1 : t[i] = s[i + 1] /\ t[i] \in Seq(S)
  OBVIOUS
<1>2. PICK f \in [1 .. n - 1 -> Seq(S)] : Joined(t, f)
  BY <1>1, JoinedExists
<1> HIDE DEF n, x, t
<1>3. \A i \in 1 .. n - 1 : f[i] = IF i = 1 THEN t[i] ELSE f[i - 1] \o t[i]
  BY <1>1, <1>2 DEF Joined
<1>4. \A i \in 1 .. n - 1 : f[i] \in Seq(S)
  OBVIOUS
<1> DEFINE g == [i \in 1 .. n |-> IF i = 1 THEN x ELSE x \o f[i - 1]]
<1>5. \A i \in 1 .. n : g[i] = IF i = 1 THEN x ELSE x \o f[i - 1]
  OBVIOUS
<1>6. ASSUME NEW i \in 1 .. n
      PROVE  g[i] = IF i = 1 THEN s[i] ELSE g[i - 1] \o s[i]
  <2> HIDE DEF g
  <2>1. CASE i = 1
    BY <1>1, <1>5, <2>1
  <2>2. CASE i = 2
    <3> DEFINE j == i - 1
    <3>1. j \in 1 .. n - 1 /\ j \in 1 .. n /\ j = 1 /\ j + 1 = i
      BY <1>1, <2>2
    <3>2. i # 1
      BY <2>2
    <3>3. g[i] = x \o f[j]
      BY <1>5, <3>2
    <3> HIDE DEF j
    <3>4. f[j] = t[j] /\ t[j] = s[j + 1] /\ g[j] = x
      BY <1>1, <1>3, <1>5, <3>1
    <3>5. g[i] = g[j] \o s[i]
      BY <3>1, <3>3, <3>4
    <3>6. QED
      BY <3>2, <3>5 DEF j
  <2>3. CASE i \notin {1, 2}
    <3> DEFINE j == i - 1
    <3>1. /\ j \in 1 .. n /\ j # 1 /\ j \in 1 .. n - 1 /\ j - 1 \in 1 .. n - 1
          /\ j + 1 = i
      BY <1>1, <2>3
    <3>2. g[i] = x \o f[j]
      BY <1>5, <2>3
    <3> HIDE DEF j
    <3>3. f[j] = f[j - 1] \o t[j] /\ g[j] = x \o f[j - 1]
      BY <1>3, <1>5, <3>1
    <3>4. t[j] = s[i] /\ t[j] \in Seq(S) /\ f[j - 1] \in Seq(S)
      BY <1>1, <1>4, <3>1
    <3>5. (x \o f[j - 1]) \o t[j] = x \o (f[j - 1] \o t[j])
      <4> DEFINE v == f[j - 1]
                 w == t[j]
      <4>1. x \in Seq(S) /\ v \in Seq(S) /\ w \in Seq(S)
        BY <1>1, <3>4
      <4> HIDE DEF v, w
      <4>2. (x \o v) \o w = x \o (v \o w)
        BY <4>1, ConcatAssociative, SMTT(60)
      <4>3. QED
        BY <4>2 DEF v, w
    <3>6. g[i] = g[j] \o s[i]
      BY <3>2, <3>3, <3>4, <3>5
    <3>7. QED
      BY <2>3, <3>6 DEF j
  <2>4. QED
    BY <2>1, <2>2, <2>3
<1>7. Joined(s, g)
  BY <1>6, FunctionIs DEF Joined, n
<1>8. FlattenSeq(s) = g[n]
  BY <1>7, FlattenIs DEF n
<1>9. n \in 1 .. n
  BY <1>1
<1> HIDE DEF g
<1>10. CASE n = 1
  <2>1. t = <<>>
    BY <1>1, <1>10
  <2>2. FlattenSeq(t) = <<>>
    BY <2>1 DEF FlattenSeq
  <2>3. g[n] = x /\ x \o <<>> = x
    BY <1>1, <1>5, <1>9, <1>10, ConcatEmptySeq
  <2>4. QED
    BY <1>8, <2>2, <2>3 DEF x, t
<1>11. CASE n # 1
  <2>1. t # <<>>
    BY <1>1, <1>11
  <2>2. FlattenSeq(t) = f[n - 1]
    BY <1>1, <1>2, <2>1, FlattenIs
  <2>3. g[n] = x \o f[n - 1]
    BY <1>5, <1>9, <1>11
  <2>4. QED
    BY <1>8, <2>2, <2>3 DEF x, t
<1>12. QED
  BY <1>10, <1>11
-----------------------------------------------------------------------------
(* The console.                                                            *)

LEMMA QueueTypes ==
  ASSUME ConsoleTypeOK
  PROVE  rx \in QueueType /\ tx \in QueueType
BY DEF ConsoleTypeOK, QueueTypeOK, QueueType

LEMMA Numbered ==
  ASSUME NEW n \in Nat, NEW m \in Nat
  PROVE  [i \in 1 .. n |-> m + i] \in Seq(Nat) /\ Len([i \in 1 .. n |-> m + i]) = n
OBVIOUS

\* The types hold at first.
LEMMA ConsoleTypeInit ==
  ASSUME ConsoleInit
  PROVE  ConsoleTypeOK
<1>1. rx \in QueueType /\ tx \in QueueType
  BY Indices DEF ConsoleInit, QueueInit, QueueType, Head0
<1>2. left \in [input : Nat, output : Nat, resizes : Nat]
  BY BoundsAssumption DEF ConsoleInit
<1>3. <<>> \in Seq(Nat) /\ 0 \in Idx
  BY Indices
<1>4. QED
  BY <1>1, <1>2, <1>3 DEF ConsoleInit, ConsoleTypeOK, QueueTypeOK, QueueType

\* The driver's steps keep the types.
LEMMA ConsoleDriverTypes ==
  ASSUME ConsoleTypeOK, ConsoleDriver
  PROVE  ConsoleTypeOK'
<1>0. rx \in QueueType /\ tx \in QueueType /\ rx_used \in Idx /\ tx_used \in Idx
  BY QueueTypes DEF ConsoleTypeOK
<1>1. ASSUME NEW h \in Desc, NEW n \in RxLen, PostBuffer(h, n)
      PROVE  ConsoleTypeOK'
  <2>1. rx' \in QueueType /\ n \in Nat
    BY <1>0, <1>1, QueueOperators, RxLenAssumption DEF PostBuffer
  <2>2. rx_room' \in [Desc -> Nat]
    BY <1>1, <2>1 DEF PostBuffer, ConsoleTypeOK
  <2>3. QED
    BY <1>1, <2>1, <2>2 DEF PostBuffer, ConsoleTypeOK, QueueTypeOK, QueueType,
       terminal, txDriver, irqDriver, sizeDriver
<1>2. ASSUME NEW h \in Desc, NEW n \in RxLen, WriteMessage(h, n)
      PROVE  ConsoleTypeOK'
  <2>1. tx' \in QueueType /\ n \in Nat
    BY <1>0, <1>2, QueueOperators, RxLenAssumption DEF WriteMessage
  <2>2. written \in Nat /\ written' \in Nat /\ [i \in 1 .. n |-> written + i] \in Seq(Nat)
    <3>1. written \in Nat /\ written' = written + n
      BY <1>2 DEF WriteMessage, ConsoleTypeOK
    <3>2. QED
      BY <2>1, <3>1, Numbered
  <2>3. tx_data' \in [Desc -> Seq(Nat)]
    BY <1>2, <2>2 DEF WriteMessage, ConsoleTypeOK
  <2>4. left' \in [input : Nat, output : Nat, resizes : Nat]
    <3>1. left.output - n \in Nat /\ left \in [input : Nat, output : Nat, resizes : Nat]
      BY <1>2, <2>1 DEF WriteMessage, ConsoleTypeOK
    <3>2. QED
      BY <1>2, <3>1 DEF WriteMessage
  <2>5. QED
    BY <1>2, <2>1, <2>2, <2>3, <2>4 DEF WriteMessage, ConsoleTypeOK, QueueTypeOK, QueueType,
       rxDriver, irqDriver, sizeDriver
<1>3. CASE NotifyTx \/ ReadStatus \/ HandlerDone
  <2>1. IntStatus \in SUBSET {UsedBuffer, ConfigChange}
    BY <1>0 DEF IntStatus, QueueType
  <2>2. QED
    BY <1>3, <2>1 DEF NotifyTx, ReadStatus, HandlerDone, ConsoleTypeOK, consoleDevice,
       terminal, rxDriver, txDriver, irqDriver, sizeDriver
<1>4. CASE AckStatus
  <2>1. 0 \in Desc
    BY Indices
  <2>2. rx' \in QueueType /\ tx' \in QueueType
    BY <1>0, <1>4, <2>1, QueueOperators DEF AckStatus, Acknowledge
  <2>3. config_change' \in BOOLEAN
    BY <1>4 DEF AckStatus, Acknowledge, ConsoleTypeOK
  <2>4. QED
    BY <1>4, <2>2, <2>3 DEF AckStatus, ConsoleTypeOK, QueueTypeOK, QueueType,
       terminal, rxDriver, txDriver
<1>5. CASE ReapRx
  <2> DEFINE h == UsedDesc(rx, rx_used)
  <2>1. h \in Desc /\ NextIdx(rx_used) \in Idx
    <3>1. 0 \in Desc
      BY Indices
    <3>2. QED
      BY <1>0, <3>1, Indices, QueueOperators
  <2> HIDE DEF h
  <2>2. received' \in Seq(Nat)
    <3>1. received \in Seq(Nat) /\ rx_data[h] \in Seq(Nat) /\ received' = received \o rx_data[h]
      BY <1>5, <2>1 DEF ReapRx, ConsoleTypeOK, h
    <3>2. QED
      BY <3>1, ConcatProperties
  <2>3. rx_data' \in [Desc -> Seq(Nat)] /\ rx_room' \in [Desc -> Nat]
    BY <1>5, <2>1 DEF ReapRx, ConsoleTypeOK, h
  <2>4. QED
    BY <1>5, <2>1, <2>2, <2>3 DEF ReapRx, ConsoleTypeOK, consoleDevice,
       terminal, txDriver, irqDriver, sizeDriver
<1>6. CASE ReapTx
  <2>1. NextIdx(tx_used) \in Idx
    BY <1>0, Indices
  <2>2. tx_data' \in [Desc -> Seq(Nat)]
    <3>1. UsedDesc(tx, tx_used) \in Desc /\ <<>> \in Seq(Nat)
      <4>1. 0 \in Desc
        BY Indices
      <4>2. UsedDesc(tx, tx_used) \in Desc
        BY <1>0, <4>1, QueueOperators
      <4>3. QED
        BY <4>2
    <3>2. QED
      BY <1>6, <3>1 DEF ReapTx, ConsoleTypeOK
  <2>3. QED
    BY <1>6, <2>1, <2>2 DEF ReapTx, ConsoleTypeOK, consoleDevice,
       terminal, rxDriver, irqDriver, sizeDriver
<1>7. CASE ReadSize
  BY <1>7 DEF ReadSize, ConsoleTypeOK, consoleDevice, terminal, rxDriver, txDriver, irqDriver
<1>8. QED
  BY <1>1, <1>2, <1>3, <1>4, <1>5, <1>6, <1>7 DEF ConsoleDriver

\* A part of the input that the buffer at the head of the avail ring takes.
LEMMA PollTakes ==
  ASSUME ConsoleTypeOK, NEW n \in 1 .. WriteLen(BufLen)
  PROVE  /\ n \in Nat /\ NextDesc(rx) \in Desc /\ HasAvail(rx)
         /\ [i \in 1 .. n |-> taken + i] \in Seq(Nat)
         /\ Fitting(NextDesc(rx), [i \in 1 .. n |-> taken + i]) = [i \in 1 .. n |-> taken + i]
<1> DEFINE h == NextDesc(rx)
           data == [i \in 1 .. n |-> taken + i]
<1>1. h \in Desc
  <2>1. 0 \in Desc
    BY Indices
  <2>2. QED
    BY <2>1, QueueTypes, QueueOperators
<1>2. rx_room[h] \in Nat /\ taken \in Nat
  BY <1>1 DEF ConsoleTypeOK
<1>3. HasAvail(rx) /\ n <= rx_room[h] /\ n \in Nat
  BY <1>2, BufLenAssumption DEF WriteLen
<1> HIDE DEF h
<1>4. data \in Seq(Nat) /\ Len(data) = n
  BY <1>2, <1>3, Numbered
<1> HIDE DEF data
<1>5. SubSeq(data, 1, n) = data
  BY <1>4
<1>6. Fitting(h, data) = data
  BY <1>2, <1>3, <1>4, <1>5 DEF Fitting
<1>7. QED
  BY <1>1, <1>3, <1>4, <1>6 DEF h, data

\* The steps of device and main loop keep them.
LEMMA ConsoleHostTypes ==
  ASSUME ConsoleTypeOK, ConsoleHost
  PROVE  ConsoleTypeOK'
<1>0. rx \in QueueType /\ tx \in QueueType /\ 0 \in Desc
  BY QueueTypes, Indices
<1>1. CASE PrintNext
  <2>1. NextDesc(tx) \in Desc /\ Advance(tx) \in QueueType
    BY <1>0, QueueOperators
  <2>2. tx' \in QueueType
    BY <1>1, <2>1, QueueOperators DEF PrintNext
  <2>3. printed' \in Seq(Nat)
    <3>1. /\ printed \in Seq(Nat) /\ tx_data[NextDesc(tx)] \in Seq(Nat)
          /\ printed' = printed \o tx_data[NextDesc(tx)]
      BY <1>1, <2>1 DEF PrintNext, ConsoleTypeOK
    <3>2. QED
      BY <3>1, ConcatProperties
  <2>4. QED
    BY <1>1, <2>2, <2>3 DEF PrintNext, ConsoleTypeOK, QueueTypeOK, QueueType,
       rxDriver, txDriver, irqDriver, sizeDriver
<1>2. CASE NotifyTxDone \/ TellSize \/ ResizeTold
  <2>1. term_size \in [cols : Nat, rows : Nat]
    BY TermSizeAssumption DEF ConsoleTypeOK
  <2>2. QED
    BY <1>2, <2>1 DEF NotifyTxDone, TellSize, ResizeTold, ConsoleTypeOK,
       terminal, rxDriver, txDriver, irqDriver, sizeDriver
<1>3. CASE PollInput
  <2>1. PICK n \in 1 .. WriteLen(BufLen) :
          /\ n <= left.input
          /\ write_data([i \in 1 .. n |-> taken + i])
          /\ taken' = taken + n
          /\ left' = [left EXCEPT !.input = @ - n]
    BY <1>3 DEF PollInput
  <2> DEFINE h == NextDesc(rx)
             data == [i \in 1 .. n |-> taken + i]
  <2>2. n \in Nat /\ h \in Desc /\ data \in Seq(Nat) /\ Fitting(h, data) = data
    BY PollTakes
  <2>3. rx' = Advance(ConsumeDesc(rx, h)) /\ rx_data' = [rx_data EXCEPT ![h] = data]
    BY <2>1, <2>2 DEF write_data
  <2> HIDE DEF h, data
  <2>4. rx' \in QueueType
    BY <1>0, <2>2, <2>3, QueueOperators
  <2>5. rx_data' \in [Desc -> Seq(Nat)]
    BY <2>2, <2>3 DEF ConsoleTypeOK
  <2>6. taken' \in Nat /\ left' \in [input : Nat, output : Nat, resizes : Nat]
    <3>1. left.input - n \in Nat /\ left \in [input : Nat, output : Nat, resizes : Nat]
      <4>1. left \in [input : Nat, output : Nat, resizes : Nat]
        BY DEF ConsoleTypeOK
      <4>2. left.input \in Nat
        BY <4>1
      <4>3. left.input - n \in Nat
        BY <4>2, <2>1, <2>2
      <4>4. QED
        BY <4>1, <4>3
    <3>2. left' = [left EXCEPT !.input = left.input - n]
      BY <2>1
    <3>3. left' \in [input : Nat, output : Nat, resizes : Nat]
      BY <3>1, <3>2
    <3>4. taken \in Nat /\ taken' = taken + n
      BY <2>1 DEF ConsoleTypeOK
    <3>5. QED
      BY <2>2, <3>3, <3>4
  <2>7. QED
    BY <1>3, <2>4, <2>5, <2>6 DEF PollInput, ConsoleTypeOK, QueueTypeOK, QueueType,
       txDriver, irqDriver, sizeDriver
<1>4. ASSUME NEW new \in TermSize, Resize(new)
      PROVE  ConsoleTypeOK'
  <2>1. left' \in [input : Nat, output : Nat, resizes : Nat]
    <3>1. left.resizes - 1 \in Nat /\ left \in [input : Nat, output : Nat, resizes : Nat]
      BY <1>4 DEF Resize, ConsoleTypeOK
    <3>2. QED
      BY <1>4, <3>1 DEF Resize
  <2>2. QED
    BY <1>4, <2>1 DEF Resize, ConsoleTypeOK, consoleDevice, rxDriver, txDriver,
       irqDriver, sizeDriver
<1>5. QED
  BY <1>1, <1>2, <1>3, <1>4 DEF ConsoleHost

\* Every step keeps the types.
LEMMA ConsoleTypeStep ==
  ASSUME ConsoleTypeOK, [ConsoleNext]_consoleVars
  PROVE  ConsoleTypeOK'
<1>1. CASE UNCHANGED consoleVars
  BY <1>1 DEF ConsoleTypeOK, consoleVars, consoleDevice, terminal, rxDriver, txDriver,
     irqDriver, sizeDriver
<1>2. QED
  BY <1>1, ConsoleDriverTypes, ConsoleHostTypes DEF ConsoleNext

\* Queues, terminal and driver of the console keep their types.
THEOREM ConsoleTypeCorrect == ConsoleSpec => []ConsoleTypeOK
<1>1. ConsoleInit => ConsoleTypeOK
  BY ConsoleTypeInit
<1>2. ConsoleTypeOK /\ [ConsoleNext]_consoleVars => ConsoleTypeOK'
  BY ConsoleTypeStep
<1>3. QED
  BY <1>1, <1>2, PTL DEF ConsoleSpec

\* The size, from the halves read: config_change is down only while what was
\* read of it is current.
HalvesAreCurrent ==
  ~config_change =>
    /\ reading = "no" => known = size
    /\ reading = "rows" => known.cols = size.cols

\* Every step keeps current the half of the size that has been read.
LEMMA SizeStep ==
  ASSUME ConsoleTypeOK, HalvesAreCurrent, [ConsoleNext]_consoleVars
  PROVE  HalvesAreCurrent'
<1>1. CASE AckStatus
  BY <1>1 DEF AckStatus, Acknowledge, HalvesAreCurrent, ConsoleTypeOK
<1>2. CASE ReadSize
  <2>1. size \in [cols : Nat, rows : Nat] /\ known \in [cols : Nat, rows : Nat]
        /\ reading \in {"cols", "rows"}
    BY <1>2 DEF ReadSize, ConsoleTypeOK
  <2>2. /\ config_change' = config_change /\ size' = size
        /\ known' = [known EXCEPT ![reading] = size[reading]]
        /\ reading' = IF reading = "cols" THEN "rows" ELSE "no"
    BY <1>2 DEF ReadSize, consoleDevice
  <2>3. QED
    BY <2>1, <2>2 DEF HalvesAreCurrent
<1>3. CASE TellSize
  BY <1>3 DEF TellSize, HalvesAreCurrent
<1>4. CASE ConsoleNext /\ ~(AckStatus \/ ReadSize \/ TellSize)
  <2>1. UNCHANGED <<config_change, size, reading, known>>
    BY <1>4 DEF ConsoleNext, ConsoleDriver, ConsoleHost, PostBuffer, WriteMessage, NotifyTx,
       ReadStatus, ReapRx, ReapTx, HandlerDone, PrintNext, NotifyTxDone, ResizeTold,
       PollInput, Resize, consoleDevice, sizeDriver
  <2>2. QED
    BY <2>1 DEF HalvesAreCurrent
<1>5. CASE UNCHANGED consoleVars
  BY <1>5 DEF HalvesAreCurrent, consoleVars, consoleDevice, sizeDriver
<1>6. QED
  BY <1>1, <1>2, <1>3, <1>4, <1>5

\* A driver that has nothing left to handle knows the terminal's size, however
\* a resize falls between its reading of status, columns and rows
\* (virtio_console_resize_event).
THEOREM SizeStaysCurrent == ConsoleSpec => []SizeIsCurrent
<1>1. ConsoleInit => HalvesAreCurrent
  BY DEF ConsoleInit, HalvesAreCurrent
<1>2. ConsoleTypeOK /\ HalvesAreCurrent /\ [ConsoleNext]_consoleVars => HalvesAreCurrent'
  BY SizeStep
<1>3. HalvesAreCurrent => SizeIsCurrent
  BY DEF HalvesAreCurrent, SizeIsCurrent
<1>4. QED
  BY <1>1, <1>2, <1>3, ConsoleTypeCorrect, PTL DEF ConsoleSpec

-----------------------------------------------------------------------------
(* The streams of the console.                                             *)

LEMMA ContentsAre ==
  ASSUME NEW data \in [Desc -> Seq(Nat)], NEW s \in Seq(Desc)
  PROVE  /\ Contents(data, s) = FlattenSeq(MapSeq(data, s))
         /\ MapSeq(data, s) \in Seq(Seq(Nat))
         /\ Contents(data, s) \in Seq(Nat)
<1>1. Contents(data, s) = FlattenSeq(MapSeq(data, s))
  BY DEF Contents, MapSeq
<1>2. MapSeq(data, s) \in Seq(Seq(Nat))
  BY MapSeqIs
<1>3. QED
  BY <1>1, <1>2, FlattenType

\* One more buffer in a ring.
LEMMA ContentsAppend ==
  ASSUME NEW data \in [Desc -> Seq(Nat)], NEW s \in Seq(Desc), NEW h \in Desc
  PROVE  Contents(data, Append(s, h)) = Contents(data, s) \o data[h]
<1>1. Append(s, h) \in Seq(Desc)
  OBVIOUS
<1>2. MapSeq(data, Append(s, h)) = Append(MapSeq(data, s), data[h])
  BY MapSeqAppend
<1>3. /\ Contents(data, s) = FlattenSeq(MapSeq(data, s))
      /\ MapSeq(data, s) \in Seq(Seq(Nat))
  BY ContentsAre
<1>4. Contents(data, Append(s, h)) = FlattenSeq(MapSeq(data, Append(s, h)))
  BY <1>1, ContentsAre
<1>5. data[h] \in Seq(Nat)
  OBVIOUS
<1>6. FlattenSeq(Append(MapSeq(data, s), data[h])) = FlattenSeq(MapSeq(data, s)) \o data[h]
  BY <1>3, <1>5, FlattenAppend
<1>7. QED
  BY <1>2, <1>3, <1>4, <1>6

\* The first buffer of a ring, and the others.
LEMMA ContentsTail ==
  ASSUME NEW data \in [Desc -> Seq(Nat)], NEW s \in Seq(Desc), s # <<>>
  PROVE  Contents(data, s) = data[Head(s)] \o Contents(data, Tail(s))
<1>1. Tail(s) \in Seq(Desc)
  OBVIOUS
<1>2. /\ MapSeq(data, s) # <<>> /\ Head(MapSeq(data, s)) = data[Head(s)]
      /\ Tail(MapSeq(data, s)) = MapSeq(data, Tail(s))
  BY MapSeqTail
<1>3. /\ Contents(data, s) = FlattenSeq(MapSeq(data, s))
      /\ MapSeq(data, s) \in Seq(Seq(Nat))
  BY ContentsAre
<1>4. Contents(data, Tail(s)) = FlattenSeq(MapSeq(data, Tail(s)))
  BY <1>1, ContentsAre
<1>5. FlattenSeq(MapSeq(data, s))
        = Head(MapSeq(data, s)) \o FlattenSeq(Tail(MapSeq(data, s)))
  BY <1>2, <1>3, FlattenCons
<1>6. QED
  BY <1>2, <1>3, <1>4, <1>5

\* Only the buffers in the ring count.
LEMMA ContentsAgree ==
  ASSUME NEW f, NEW g, NEW s \in Seq(Desc), \A k \in 1 .. Len(s) : f[s[k]] = g[s[k]]
  PROVE  Contents(f, s) = Contents(g, s)
<1>1. MapSeq(f, s) = MapSeq(g, s)
  BY MapSeqAgree
<1>2. QED
  BY <1>1 DEF MapSeq, Contents

\* The next numbers after the first n.
LEMMA UptoAppend ==
  ASSUME NEW n \in Nat, NEW k \in Nat
  PROVE  Upto(n) \o [i \in 1 .. k |-> n + i] = Upto(n + k)
<1> DEFINE u == Upto(n)
           v == [i \in 1 .. k |-> n + i]
           w == Upto(n + k)
<1>1. u \in Seq(Nat) /\ Len(u) = n /\ \A i \in 1 .. n : u[i] = i
  BY DEF Upto
<1>2. v \in Seq(Nat) /\ Len(v) = k /\ \A i \in 1 .. k : v[i] = n + i
  BY Numbered
<1>3. w \in Seq(Nat) /\ Len(w) = n + k /\ \A i \in 1 .. n + k : w[i] = i
  BY DEF Upto
<1> HIDE DEF u, v, w
<1>4. /\ u \o v \in Seq(Nat) /\ Len(u \o v) = n + k
      /\ \A i \in 1 .. n + k : (u \o v)[i] = IF i <= n THEN u[i] ELSE v[i - n]
  BY <1>1, <1>2, ConcatProperties
<1>5. \A i \in 1 .. n + k : (u \o v)[i] = w[i]
  <2> SUFFICES ASSUME NEW i \in 1 .. n + k PROVE (u \o v)[i] = w[i]
    OBVIOUS
  <2>1. CASE i <= n
    BY <1>1, <1>3, <1>4, <2>1
  <2>2. CASE i > n
    <3>1. i - n \in 1 .. k /\ n + (i - n) = i
      BY <2>2
    <3>2. QED
      BY <1>2, <1>3, <1>4, <2>2, <3>1
  <2>3. i <= n \/ i > n
    OBVIOUS
  <2>4. QED
    BY <2>1, <2>2, <2>3
<1>6. u \o v = w
  BY <1>3, <1>4, <1>5, SMTT(60)
<1>7. QED
  BY <1>6 DEF u, v, w

\* The buffers given to the device, and the messages under way.
RxOwned == {h \in Desc : rx_room[h] # 0}
TxOwned == {h \in Desc : tx_data[h] # <<>>}

RxInv ==
  /\ HeadsOK(Avail(rx), Used(rx, rx_used), {}, RxOwned)
  /\ received \o Contents(rx_data, Used(rx, rx_used)) = Upto(taken)

TxInv ==
  /\ HeadsOK(Avail(tx), Used(tx, tx_used), {}, TxOwned)
  /\ printed \o Contents(tx_data, Avail(tx)) = Upto(written)

StreamInv == ConsoleTypeOK /\ RxInv /\ TxInv

\* A head more, its data just given to it.
LEMMA ContentsGrow ==
  ASSUME NEW data \in [Desc -> Seq(Nat)], NEW new \in [Desc -> Seq(Nat)],
         NEW s \in Seq(Desc), NEW h \in Desc,
         \A k \in 1 .. Len(s) : new[s[k]] = data[s[k]]
  PROVE  Contents(new, Append(s, h)) = Contents(data, s) \o new[h]
<1>1. Contents(new, Append(s, h)) = Contents(new, s) \o new[h]
  BY ContentsAppend
<1>2. Contents(new, s) = Contents(data, s)
  BY ContentsAgree
<1>3. QED
  BY <1>1, <1>2

\* Three parts of a stream, in order.
LEMMA ConcatNumbers ==
  ASSUME NEW r \in Seq(Nat), NEW c \in Seq(Nat), NEW x \in Seq(Nat)
  PROVE  (r \o c) \o x = r \o (c \o x)
BY SMTT(30)

\* A stream goes on with the numbers that follow.
LEMMA StreamGrows ==
  ASSUME NEW r \in Seq(Nat), NEW c \in Seq(Nat), NEW m \in Nat, NEW n \in Nat,
         r \o c = Upto(m)
  PROVE  r \o (c \o [i \in 1 .. n |-> m + i]) = Upto(m + n)
<1> DEFINE x == [i \in 1 .. n |-> m + i]
<1>1. x \in Seq(Nat)
  BY Numbered
<1>2. Upto(m) \o x = Upto(m + n)
  BY UptoAppend
<1> HIDE DEF x
<1>3. (r \o c) \o x = r \o (c \o x)
  BY <1>1, ConcatNumbers, Zenon
<1>4. QED
  BY <1>2, <1>3 DEF x

LEMMA StreamTypes ==
  ASSUME StreamInv
  PROVE  /\ rx \in QueueType /\ rx_used \in Idx
         /\ tx \in QueueType /\ tx_used \in Idx
         /\ Avail(rx) \in Seq(Desc) /\ Used(rx, rx_used) \in Seq(Desc)
         /\ Avail(tx) \in Seq(Desc) /\ Used(tx, tx_used) \in Seq(Desc)
         /\ rx_room \in [Desc -> Nat]
         /\ rx_data \in [Desc -> Seq(Nat)] /\ tx_data \in [Desc -> Seq(Nat)]
         /\ received \in Seq(Nat) /\ printed \in Seq(Nat)
         /\ taken \in Nat /\ written \in Nat
BY QueueTypes, AvailAndUsed DEF StreamInv, ConsoleTypeOK

\* The driver gives a buffer.
LEMMA PostRx ==
  ASSUME StreamInv, NEW h \in Desc, NEW n \in RxLen, PostBuffer(h, n)
  PROVE  RxInv'
<1> DEFINE A == Avail(rx)
           U == Used(rx, rx_used)
           o == RxOwned
<1>1. /\ rx' = AddAvail(rx, h) /\ rx_room' = [rx_room EXCEPT ![h] = n]
      /\ rx_room[h] = 0 /\ n # 0
      /\ UNCHANGED <<rx_data, rx_used, received, taken>>
  BY RxLenAssumption DEF PostBuffer, terminal
<1>2. HeadsOK(A, U, {}, o) /\ h \notin o
  BY <1>1 DEF StreamInv, RxInv, RxOwned
<1>3. RxOwned' = o \union {h}
  BY <1>1, StreamTypes DEF RxOwned
<1> HIDE DEF A, U, o
<1>4. Len(A) < QueueNum /\ HeadsOK(Append(A, h), U, {}, o \union {h})
  BY <1>2, HeadsSubmit
<1>5. Avail(rx') = Append(A, h) /\ Used(rx', rx_used') = U
  BY <1>1, <1>4, StreamTypes, RingSubmit DEF A, U
<1>6. received' \o Contents(rx_data', Used(rx', rx_used')) = Upto(taken')
  BY <1>1, <1>5 DEF StreamInv, RxInv, U
<1>7. QED
  BY <1>3, <1>4, <1>5, <1>6 DEF RxInv

\* The driver takes a filled buffer back.
LEMMA ReapedRx ==
  ASSUME StreamInv, ReapRx
  PROVE  RxInv'
<1> DEFINE A == Avail(rx)
           U == Used(rx, rx_used)
           o == RxOwned
           h == UsedDesc(rx, rx_used)
<1>1. /\ rx' = rx /\ rx_used' = NextIdx(rx_used) /\ taken' = taken /\ rx_used # rx.used_idx
      /\ received' = received \o rx_data[h]
      /\ rx_data' = [rx_data EXCEPT ![h] = <<>>]
      /\ rx_room' = [rx_room EXCEPT ![h] = 0]
  BY DEF ReapRx, consoleDevice, terminal
<1>2. U # <<>> /\ Head(U) = h /\ Used(rx', rx_used') = Tail(U) /\ Avail(rx') = A
  BY <1>1, StreamTypes, RingReap
<1>3. HeadsOK(A, U, {}, o)
  BY DEF StreamInv, RxInv
<1> HIDE DEF A, U, o, h
<1>4. /\ h \in o /\ \A k \in 1 .. Len(Tail(U)) : Tail(U)[k] # h
      /\ HeadsOK(A, Tail(U), {}, o \ {h})
  BY <1>2, <1>3, HeadsReap
<1>5. h \in Desc
  BY <1>4 DEF o, RxOwned
<1>6. RxOwned' = o \ {h}
  BY <1>1, <1>5, StreamTypes DEF RxOwned, o
<1>7. Contents(rx_data, U) = rx_data[h] \o Contents(rx_data, Tail(U))
  BY <1>2, StreamTypes, ContentsTail DEF U
<1> DEFINE t == Tail(U)
<1>8. t \in Seq(Desc)
  BY <1>2, StreamTypes DEF U
<1>9. \A k \in 1 .. Len(t) : t[k] # h /\ t[k] \in Desc
  BY <1>4, <1>8
<1> HIDE DEF t
<1>10. Contents(rx_data', t) = Contents(rx_data, t)
  <2>1. \A k \in 1 .. Len(t) : rx_data'[t[k]] = rx_data[t[k]]
    BY <1>1, <1>9, StreamTypes
  <2>2. QED
    BY <1>8, <2>1, ContentsAgree
<1>11. received' \o Contents(rx_data', t) = Upto(taken')
  <2> DEFINE r == received
             x == rx_data[h]
             c == Contents(rx_data, t)
  <2>1. r \in Seq(Nat) /\ x \in Seq(Nat) /\ c \in Seq(Nat)
    BY <1>5, <1>8, StreamTypes, ContentsAre
  <2>2. r \o Contents(rx_data, U) = Upto(taken)
    BY DEF StreamInv, RxInv, U
  <2>3. Contents(rx_data, U) = x \o c
    BY <1>7 DEF t
  <2> HIDE DEF r, x, c
  <2>4. (r \o x) \o c = r \o (x \o c)
    BY <2>1, ConcatAssociative
  <2>5. received' \o Contents(rx_data', t) = (r \o x) \o c
    BY <1>1, <1>10 DEF r, x, c
  <2>6. QED
    BY <1>1, <2>2, <2>3, <2>4, <2>5
<1>12. QED
  BY <1>2, <1>4, <1>6, <1>11 DEF RxInv, t

\* The device fills a buffer with what the terminal has.
LEMMA PolledRx ==
  ASSUME StreamInv, PollInput
  PROVE  RxInv'
<1>1. PICK n \in 1 .. WriteLen(BufLen) :
        /\ write_data([i \in 1 .. n |-> taken + i])
        /\ taken' = taken + n
  BY DEF PollInput
<1> DEFINE A == Avail(rx)
           U == Used(rx, rx_used)
           o == RxOwned
           h == NextDesc(rx)
           data == [i \in 1 .. n |-> taken + i]
<1>2. n \in Nat /\ h \in Desc /\ data \in Seq(Nat) /\ Fitting(h, data) = data /\ HasAvail(rx)
  BY PollTakes DEF StreamInv
<1>3. /\ rx' = Advance(ConsumeDesc(rx, h)) /\ rx_data' = [rx_data EXCEPT ![h] = data]
      /\ UNCHANGED <<rx_room, rx_used, received>>
  BY <1>1, <1>2 DEF write_data, PollInput
<1>4. HeadsOK(A, U, {}, o)
  BY DEF StreamInv, RxInv
<1>5. /\ rx' = ConsumeDesc(Advance(rx), h)
      /\ \A k \in 1 .. Len(U) : U[k] # h
      /\ Used(rx', rx_used) = Append(U, h)
      /\ HeadsOK(Avail(rx'), Used(rx', rx_used), {}, o)
  <2> HIDE DEF o
  <2>1. QED
    BY <1>2, <1>3, <1>4, StreamTypes, TakeAndReturn
<1>6. RxOwned' = o
  BY <1>3 DEF RxOwned
<1>7. rx_data' \in [Desc -> Seq(Nat)] /\ U \in Seq(Desc) /\ rx_data'[h] = data
  BY <1>2, <1>3, StreamTypes
<1> HIDE DEF U, o, h, data
<1>8. Contents(rx_data', Append(U, h)) = Contents(rx_data, U) \o data
  <2> DEFINE new == rx_data'
  <2>1. ASSUME NEW k \in 1 .. Len(U)
        PROVE  new[U[k]] = rx_data[U[k]]
    <3>1. U[k] # h /\ U[k] \in Desc
      BY <1>5, <1>7
    <3>2. QED
      BY <1>3, <3>1, StreamTypes
  <2>2. new \in [Desc -> Seq(Nat)] /\ new[h] = data /\ rx_data \in [Desc -> Seq(Nat)]
    BY <1>7, StreamTypes
  <2> HIDE DEF new
  <2>3. Contents(new, Append(U, h)) = Contents(rx_data, U) \o new[h]
    BY <1>2, <1>7, <2>1, <2>2, ContentsGrow
  <2>4. QED
    BY <2>2, <2>3 DEF new
<1>9. received \o (Contents(rx_data, U) \o data) = Upto(taken + n)
  <2> DEFINE r == received
             c == Contents(rx_data, U)
  <2>1. r \in Seq(Nat) /\ taken \in Nat
    BY StreamTypes
  <2>2. c \in Seq(Nat)
    BY <1>7, StreamTypes, ContentsAre
  <2>3. r \o c = Upto(taken)
    BY DEF StreamInv, RxInv, U
  <2> HIDE DEF r, c
  <2>4. r \o (c \o data) = Upto(taken + n)
    BY <1>2, <2>1, <2>2, <2>3, StreamGrows DEF data
  <2>5. QED
    BY <2>4 DEF r, c
<1>10. QED
  BY <1>1, <1>3, <1>5, <1>6, <1>8, <1>9 DEF RxInv

\* Every step keeps the input whole.
LEMMA RxSteps ==
  ASSUME StreamInv, [ConsoleNext]_consoleVars
  PROVE  RxInv'
<1>1. CASE AckStatus
  <2>1. rx' = InterruptAck(rx, irq_bits) /\ UNCHANGED <<rx_room, rx_data, rx_used, received, taken>>
    BY <1>1 DEF AckStatus, Acknowledge, rxDriver, terminal
  <2>2. Avail(rx') = Avail(rx) /\ Used(rx', rx_used') = Used(rx, rx_used)
    BY <2>1, StreamTypes, RingAck
  <2>3. RxOwned' = RxOwned
    BY <2>1 DEF RxOwned
  <2>4. QED
    BY <2>1, <2>2, <2>3 DEF RxInv, StreamInv
<1>2. CASE ReapRx
  BY <1>2, ReapedRx
<1>3. CASE PollInput
  BY <1>3, PolledRx
<1>4. ASSUME NEW h \in Desc, NEW n \in RxLen, PostBuffer(h, n)
      PROVE  RxInv'
  BY <1>4, PostRx
<1>5. CASE UNCHANGED <<rx, rx_room, rx_data, rx_used, received, taken>>
  BY <1>5 DEF RxInv, RxOwned, StreamInv
<1>6. CASE UNCHANGED consoleVars
  BY <1>5, <1>6 DEF consoleVars, consoleDevice, terminal, rxDriver
<1>7. CASE ConsoleNext
  BY <1>1, <1>2, <1>3, <1>4, <1>5, <1>7 DEF ConsoleNext, ConsoleDriver, ConsoleHost,
     WriteMessage, NotifyTx, ReadStatus, ReapTx, HandlerDone, ReadSize, PrintNext, NotifyTxDone,
     TellSize, ResizeTold, Resize, consoleDevice, terminal, rxDriver
<1>8. QED
  BY <1>6, <1>7

\* The driver writes.
LEMMA WrittenTx ==
  ASSUME StreamInv, NEW h \in Desc, NEW n \in RxLen, WriteMessage(h, n)
  PROVE  TxInv'
<1> DEFINE A == Avail(tx)
           U == Used(tx, tx_used)
           o == TxOwned
           data == [i \in 1 .. n |-> written + i]
<1>1. /\ tx' = AddAvail(tx, h) /\ tx_data' = [tx_data EXCEPT ![h] = data]
      /\ tx_data[h] = <<>> /\ written' = written + n
      /\ UNCHANGED <<tx_used, printed>>
  BY DEF WriteMessage
<1>2. n \in Nat /\ n # 0
  BY RxLenAssumption
<1>3. data \in Seq(Nat) /\ data # <<>>
  BY <1>2, StreamTypes, Numbered
<1>4. HeadsOK(A, U, {}, o) /\ h \notin o
  BY <1>1 DEF StreamInv, TxInv, TxOwned
<1> HIDE DEF data
<1>5. TxOwned' = o \union {h}
  BY <1>1, <1>3, StreamTypes DEF TxOwned
<1>6. A \in Seq(Desc) /\ tx_data' \in [Desc -> Seq(Nat)] /\ tx_data'[h] = data
  BY <1>1, <1>3, StreamTypes
<1> HIDE DEF A, U, o
<1>7. /\ Len(A) < QueueNum /\ HeadsOK(Append(A, h), U, {}, o \union {h})
      /\ \A k \in 1 .. Len(A) : A[k] # h
  BY <1>4, HeadsSubmit
<1>8. Avail(tx') = Append(A, h) /\ Used(tx', tx_used') = U
  BY <1>1, <1>7, StreamTypes, RingSubmit DEF A, U
<1>9. Contents(tx_data', Append(A, h)) = Contents(tx_data, A) \o data
  <2> DEFINE new == tx_data'
  <2>1. ASSUME NEW k \in 1 .. Len(A)
        PROVE  new[A[k]] = tx_data[A[k]]
    <3>1. A[k] # h /\ A[k] \in Desc
      BY <1>6, <1>7
    <3>2. QED
      BY <1>1, <3>1, StreamTypes
  <2>2. new \in [Desc -> Seq(Nat)] /\ new[h] = data /\ tx_data \in [Desc -> Seq(Nat)]
    BY <1>6, StreamTypes
  <2> HIDE DEF new
  <2>3. Contents(new, Append(A, h)) = Contents(tx_data, A) \o new[h]
    BY <1>6, <2>1, <2>2, ContentsGrow
  <2>4. QED
    BY <2>2, <2>3 DEF new
<1>10. printed \o (Contents(tx_data, A) \o data) = Upto(written + n)
  <2> DEFINE p == printed
             c == Contents(tx_data, A)
  <2>1. p \in Seq(Nat) /\ written \in Nat
    BY StreamTypes
  <2>2. c \in Seq(Nat)
    BY <1>6, StreamTypes, ContentsAre
  <2>3. p \o c = Upto(written)
    BY DEF StreamInv, TxInv, A
  <2> HIDE DEF p, c
  <2>4. p \o (c \o data) = Upto(written + n)
    BY <1>2, <2>1, <2>2, <2>3, StreamGrows DEF data
  <2>5. QED
    BY <2>4 DEF p, c
<1>11. QED
  BY <1>1, <1>5, <1>7, <1>8, <1>9, <1>10 DEF TxInv

\* The device prints a buffer.
LEMMA PrintedTx ==
  ASSUME StreamInv, PrintNext
  PROVE  TxInv'
<1> DEFINE A == Avail(tx)
           U == Used(tx, tx_used)
           o == TxOwned
           h == NextDesc(tx)
           t == Tail(A)
<1>1. /\ tx' = ConsumeDesc(Advance(tx), h) /\ printed' = printed \o tx_data[h] /\ HasAvail(tx)
      /\ UNCHANGED <<tx_data, tx_used, written>>
  BY DEF PrintNext, txDriver
<1>2. HeadsOK(A, U, {}, o)
  BY DEF StreamInv, TxInv
<1>3. /\ h \in Desc /\ A # <<>> /\ Head(A) = h
      /\ Avail(tx') = t
      /\ HeadsOK(Avail(tx'), Used(tx', tx_used), {}, o)
  <2> HIDE DEF o
  <2>1. QED
    BY <1>1, <1>2, StreamTypes, TakeAndReturn
<1>4. TxOwned' = o
  BY <1>1 DEF TxOwned
<1>5. A \in Seq(Desc)
  BY StreamTypes
<1> HIDE DEF A, U, o, h
<1>6. t \in Seq(Desc) /\ Contents(tx_data, A) = tx_data[h] \o Contents(tx_data, t)
  <2>1. t \in Seq(Desc)
    BY <1>3, <1>5
  <2>2. tx_data \in [Desc -> Seq(Nat)] /\ A # <<>>
    BY <1>3, StreamTypes
  <2>3. Contents(tx_data, A) = tx_data[Head(A)] \o Contents(tx_data, Tail(A))
    BY <1>5, <2>2, ContentsTail
  <2>4. QED
    BY <1>3, <2>1, <2>3
<1> HIDE DEF t
<1>7. printed' \o Contents(tx_data, t) = Upto(written)
  <2> DEFINE p == printed
             x == tx_data[h]
             c == Contents(tx_data, t)
  <2>1. p \in Seq(Nat) /\ x \in Seq(Nat) /\ c \in Seq(Nat)
    BY <1>3, <1>6, StreamTypes, ContentsAre
  <2>2. p \o Contents(tx_data, A) = Upto(written)
    BY DEF StreamInv, TxInv, A
  <2>3. Contents(tx_data, A) = x \o c
    BY <1>6
  <2> HIDE DEF p, x, c
  <2>4. (p \o x) \o c = p \o (x \o c)
    BY <2>1, ConcatAssociative
  <2>5. printed' \o Contents(tx_data, t) = (p \o x) \o c
    BY <1>1 DEF p, x, c
  <2>6. QED
    BY <2>2, <2>3, <2>4, <2>5
<1>8. QED
  BY <1>1, <1>3, <1>4, <1>7 DEF TxInv

\* The driver takes a printed buffer back.
LEMMA ReapedTx ==
  ASSUME StreamInv, ReapTx
  PROVE  TxInv'
<1> DEFINE A == Avail(tx)
           U == Used(tx, tx_used)
           o == TxOwned
           h == UsedDesc(tx, tx_used)
<1>1. /\ tx' = tx /\ tx_used' = NextIdx(tx_used) /\ tx_used # tx.used_idx
      /\ tx_data' = [tx_data EXCEPT ![h] = <<>>]
      /\ UNCHANGED <<printed, written>>
  BY DEF ReapTx, consoleDevice, terminal
<1>2. U # <<>> /\ Head(U) = h /\ Used(tx', tx_used') = Tail(U) /\ Avail(tx') = A
  BY <1>1, StreamTypes, RingReap
<1>3. HeadsOK(A, U, {}, o)
  BY DEF StreamInv, TxInv
<1>4. A \in Seq(Desc)
  BY StreamTypes
<1> HIDE DEF A, U, o, h
<1>5. /\ h \in o /\ \A k \in 1 .. Len(A) : A[k] # h
      /\ HeadsOK(A, Tail(U), {}, o \ {h})
  BY <1>2, <1>3, HeadsReap
<1>6. h \in Desc
  BY <1>5 DEF o, TxOwned
<1>7. TxOwned' = o \ {h}
  BY <1>1, <1>6, StreamTypes DEF TxOwned, o
<1>8. Contents(tx_data', A) = Contents(tx_data, A)
  <2>1. tx_data \in [Desc -> Seq(Nat)]
    BY StreamTypes
  <2>2. \A d \in Desc : d # h => tx_data'[d] = tx_data[d]
    BY <1>1, <2>1
  <2>3. \A k \in 1 .. Len(A) : A[k] \in Desc /\ A[k] # h
    BY <1>4, <1>5
  <2>4. \A k \in 1 .. Len(A) : tx_data'[A[k]] = tx_data[A[k]]
    BY <2>2, <2>3
  <2>5. QED
    BY <1>4, <2>4, ContentsAgree
<1>9. printed' \o Contents(tx_data', A) = Upto(written')
  BY <1>1, <1>8 DEF StreamInv, TxInv, A
<1>10. QED
  BY <1>2, <1>5, <1>7, <1>9 DEF TxInv

\* Every step keeps the output whole.
LEMMA TxSteps ==
  ASSUME StreamInv, [ConsoleNext]_consoleVars
  PROVE  TxInv'
<1>1. CASE AckStatus
  <2>1. tx' = InterruptAck(tx, irq_bits) /\ UNCHANGED <<tx_data, tx_used, written, printed>>
    BY <1>1 DEF AckStatus, Acknowledge, txDriver, terminal
  <2>2. Avail(tx') = Avail(tx) /\ Used(tx', tx_used') = Used(tx, tx_used)
    BY <2>1, StreamTypes, RingAck
  <2>3. TxOwned' = TxOwned
    BY <2>1 DEF TxOwned
  <2>4. QED
    BY <2>1, <2>2, <2>3 DEF TxInv, StreamInv
<1>2. CASE ReapTx
  BY <1>2, ReapedTx
<1>3. CASE PrintNext
  BY <1>3, PrintedTx
<1>4. ASSUME NEW h \in Desc, NEW n \in RxLen, WriteMessage(h, n)
      PROVE  TxInv'
  BY <1>4, WrittenTx
<1>5. CASE UNCHANGED <<tx, tx_data, tx_used, written, printed>>
  BY <1>5 DEF TxInv, TxOwned, StreamInv
<1>6. CASE UNCHANGED consoleVars
  BY <1>5, <1>6 DEF consoleVars, consoleDevice, terminal, txDriver
<1>7. CASE ConsoleNext
  BY <1>1, <1>2, <1>3, <1>4, <1>5, <1>7 DEF ConsoleNext, ConsoleDriver, ConsoleHost,
     PostBuffer, NotifyTx, ReadStatus, ReapRx, HandlerDone, ReadSize, NotifyTxDone, PollInput,
     TellSize, ResizeTold, Resize, consoleDevice, terminal, txDriver
<1>8. QED
  BY <1>6, <1>7

\* At first both streams are empty.
LEMMA StreamInit ==
  ASSUME ConsoleInit
  PROVE  StreamInv
<1>1. ConsoleTypeOK
  BY ConsoleTypeInit
<1> DEFINE zero == [i \in Desc |-> Head0]
<1>2. zero \in [Desc -> Desc] /\ 0 \in Idx
  BY Indices DEF Head0
<1>3. Entries(zero, 0, 0) = <<>>
  BY <1>2, EntriesEmpty
<1>4. /\ Avail(rx) = <<>> /\ Used(rx, rx_used) = <<>>
      /\ Avail(tx) = <<>> /\ Used(tx, tx_used) = <<>>
  BY <1>3 DEF ConsoleInit, QueueInit, Avail, Used
<1>5. RxOwned = {} /\ TxOwned = {}
  BY DEF ConsoleInit, RxOwned, TxOwned
<1>6. Contents(rx_data, <<>>) = <<>> /\ Contents(tx_data, <<>>) = <<>> /\ Upto(0) = <<>>
  BY DEF Contents, FlattenSeq, Upto
<1>7. QED
  BY <1>1, <1>4, <1>5, <1>6, HeadsEmpty DEF StreamInv, RxInv, TxInv, ConsoleInit

\* Nothing typed and nothing printed is lost, cut, doubled or put out of order,
\* whatever the lengths of the guest's buffers (virtio_console_write_data,
\* queue_notify, virtio_console_recv_request).
THEOREM StreamsStayWhole == ConsoleSpec => []ConsoleKeepsStreams
<1>1. ConsoleInit => StreamInv
  BY StreamInit
<1>2. StreamInv /\ [ConsoleNext]_consoleVars => StreamInv'
  <2>1. ASSUME StreamInv, [ConsoleNext]_consoleVars
        PROVE  StreamInv'
    BY <2>1, ConsoleTypeStep, RxSteps, TxSteps DEF StreamInv
  <2>2. QED
    BY <2>1
<1>3. StreamInv => ConsoleKeepsStreams
  BY DEF StreamInv, RxInv, TxInv, ConsoleKeepsStreams, Avail, Used
<1>4. QED
  BY <1>1, <1>2, <1>3, PTL DEF ConsoleSpec

-----------------------------------------------------------------------------
(* Folds.                                                                  *)

\* A set of numbers up to n has a greatest.
LEMMA MaxIs ==
  ASSUME NEW n \in Nat, NEW s \in SUBSET (1 .. n), s # {}
  PROVE  Max(s) \in s /\ \A y \in s : y <= Max(s)
<1> DEFINE M(m) == \A r \in SUBSET (1 .. m) : r # {} => \E x \in r : \A y \in r : x >= y
           T == {m \in Nat : M(m)}
<1>1. 0 \in T
  <2>1. \A r \in SUBSET (1 .. 0) : r = {}
    OBVIOUS
  <2>2. QED
    BY <2>1
<1>2. ASSUME NEW m \in Nat, m \in T
      PROVE  m + 1 \in T
  <2>1. SUFFICES ASSUME NEW r \in SUBSET (1 .. m + 1), r # {}
                 PROVE  \E x \in r : \A y \in r : x >= y
    OBVIOUS
  <2>2. CASE m + 1 \in r
    BY <2>2
  <2>3. CASE m + 1 \notin r
    <3>1. r \in SUBSET (1 .. m)
      BY <2>3
    <3>2. QED
      BY <1>2, <2>1, <3>1
  <2>4. QED
    BY <2>2, <2>3
<1> HIDE DEF T
<1>3. Nat \subseteq T
  BY <1>1, <1>2, SetInduction
<1>4. \E x \in s : \A y \in s : x >= y
  BY <1>3 DEF T
<1>5. Max(s) \in s /\ \A y \in s : Max(s) >= y
  BY <1>4 DEF Max
<1>6. QED
  BY <1>5

\* The values of a fold, for the sets of the places it has been over.
FoldValues(f, base, F, n) ==
  \A s \in SUBSET (1 .. n) :
    f[s] = IF s = {} THEN base ELSE F[<<f[s \ {Max(s)}], Max(s)>>]

\* Such a function exists, whatever function F one step of the fold is.
LEMMA FoldExists ==
  ASSUME NEW S, NEW base \in S, NEW F \in [S \X Nat -> S], NEW n \in Nat
  PROVE  \E f \in [SUBSET (1 .. n) -> S] : FoldValues(f, base, F, n)
<1> DEFINE Folds(f, m) == \A s \in SUBSET (1 .. m) :
                            f[s] = IF s = {} THEN base ELSE F[<<f[s \ {Max(s)}], Max(s)>>]
           E(m) == \E f \in [SUBSET (1 .. m) -> S] : Folds(f, m)
           T == {m \in Nat : E(m)}
<1>1. 0 \in T
  <2> DEFINE f == [s \in SUBSET (1 .. 0) |-> base]
  <2>1. \A s \in SUBSET (1 .. 0) : s = {}
    OBVIOUS
  <2>2. f \in [SUBSET (1 .. 0) -> S] /\ Folds(f, 0)
    BY <2>1
  <2> HIDE DEF f, Folds
  <2>3. E(0)
    BY <2>2
  <2> HIDE DEF E
  <2>4. QED
    BY <2>3
<1>2. ASSUME NEW m \in Nat, m \in T
      PROVE  m + 1 \in T
  <2>1. PICK f \in [SUBSET (1 .. m) -> S] : Folds(f, m)
    <3> HIDE DEF Folds
    <3>1. E(m)
      <4> HIDE DEF E
      <4>1. QED
        BY <1>2
    <3>2. QED
      BY <3>1
  <2> DEFINE P == SUBSET (1 .. m + 1)
             g == [s \in P |-> IF m + 1 \in s THEN F[<<f[s \ {m + 1}], m + 1>>] ELSE f[s]]
  <2>2. \A s \in P : s \ {m + 1} \in SUBSET (1 .. m)
    OBVIOUS
  <2>3. \A s \in P : m + 1 \notin s => s \in SUBSET (1 .. m)
    OBVIOUS
  <2>4. g \in [P -> S]
    <3>1. ASSUME NEW s \in P
          PROVE  (IF m + 1 \in s THEN F[<<f[s \ {m + 1}], m + 1>>] ELSE f[s]) \in S
      <4>1. f[s \ {m + 1}] \in S /\ (m + 1 \notin s => f[s] \in S)
        BY <2>2, <2>3
      <4>2. m + 1 \in s => <<f[s \ {m + 1}], m + 1>> \in S \X Nat
        BY <4>1
      <4>3. QED
        BY <4>1, <4>2
    <3>2. QED
      BY <3>1
  <2>5. ASSUME NEW s \in P
        PROVE  g[s] = IF s = {} THEN base ELSE F[<<g[s \ {Max(s)}], Max(s)>>]
    <3>1. CASE m + 1 \in s
      <4>1. Max(s) \in s /\ \A y \in s : y <= Max(s)
        <5>1. m + 1 \in Nat /\ s \in SUBSET (1 .. m + 1) /\ s # {}
          BY <3>1
        <5>2. QED
          BY <5>1, MaxIs
      <4>2. Max(s) = m + 1
        <5>1. Max(s) \in 1 .. m + 1 /\ m + 1 <= Max(s)
          BY <3>1, <4>1
        <5>2. QED
          BY <5>1
      <4>3. s \ {m + 1} \in P /\ g[s \ {m + 1}] = f[s \ {m + 1}]
        BY <2>2
      <4>4. QED
        BY <3>1, <4>2, <4>3
    <3>2. CASE m + 1 \notin s /\ s # {}
      <4>1. s \in SUBSET (1 .. m)
        BY <2>3, <3>2
      <4>2. Max(s) \in s
        BY <3>2, <4>1, MaxIs
      <4>3. s \ {Max(s)} \in P /\ m + 1 \notin s \ {Max(s)}
        BY <3>2
      <4>4. g[s \ {Max(s)}] = f[s \ {Max(s)}] /\ g[s] = f[s]
        BY <3>2, <4>3
      <4>5. f[s] = F[<<f[s \ {Max(s)}], Max(s)>>]
        BY <2>1, <3>2, <4>1
      <4>6. QED
        BY <3>2, <4>4, <4>5
    <3>3. CASE s = {}
      <4>1. s \in SUBSET (1 .. m) /\ g[s] = f[s]
        BY <3>3
      <4>2. f[s] = base
        BY <2>1, <3>3, <4>1
      <4>3. QED
        BY <3>3, <4>1, <4>2
    <3>4. QED
      BY <3>1, <3>2, <3>3
  <2> HIDE DEF g
  <2>6. Folds(g, m + 1)
    BY <2>5
  <2> HIDE DEF Folds
  <2>7. E(m + 1)
    BY <2>4, <2>6
  <2> HIDE DEF E
  <2>8. QED
    BY <2>7
<1> HIDE DEF T
<1>3. Nat \subseteq T
  BY <1>1, <1>2, SetInduction
<1>4. E(n)
  <2> HIDE DEF E
  <2>1. QED
    BY <1>3 DEF T
<1>5. QED
  BY <1>4 DEF FoldValues
-----------------------------------------------------------------------------
(* The input devices.                                                      *)

QP == INSTANCE VirtQueueProofs WITH QueueNum <- EventQueueNum, IdxSpace <- EventIdxSpace

\* The queue of the model and that of the lemmas are the same.
LEMMA SameQueue ==
  /\ Q!Desc = QP!Desc /\ Q!Idx = QP!Idx /\ Q!UsedBuffer = QP!UsedBuffer
  /\ Q!QueueInit = QP!QueueInit
  /\ \A q : /\ Q!QueueTypeOK(q) <=> q \in QP!QueueType
            /\ Q!Advance(q) = QP!Advance(q) /\ Q!NextDesc(q) = QP!NextDesc(q)
            /\ Q!EmptyRings(q) = QP!EmptyRings(q) /\ Q!VirtioReset(q) = QP!VirtioReset(q)
            /\ \A h : Q!ConsumeDesc(q, h) = QP!ConsumeDesc(q, h)
            /\ \A h : Q!AddAvail(q, h) = QP!AddAvail(q, h)
            /\ \A b : Q!InterruptAck(q, b) = QP!InterruptAck(q, b)
            /\ \A i : Q!UsedDesc(q, i) = QP!UsedDesc(q, i)
  /\ \A i : Q!NextIdx(i) = QP!NextIdx(i)
  /\ \A r, i, j : Q!Entries(r, i, j) = QP!Entries(r, i, j)
BY DEF Q!Desc, QP!Desc, Q!Idx, QP!Idx, Q!UsedBuffer, QP!UsedBuffer, Q!QueueInit, QP!QueueInit,
   Q!Advance, QP!Advance, Q!NextDesc, QP!NextDesc, Q!EmptyRings, QP!EmptyRings,
   Q!VirtioReset, QP!VirtioReset, Q!ConsumeDesc, QP!ConsumeDesc, Q!AddAvail, QP!AddAvail,
   Q!InterruptAck, QP!InterruptAck, Q!UsedDesc, QP!UsedDesc, Q!NextIdx, QP!NextIdx,
   Q!Entries, QP!Entries, Q!Slot, QP!Slot, Q!Head0, QP!Head0, Q!QueueTypeOK, QP!QueueType

\* The queue and its buffers, as far as an event changes them.
State == [q : QP!QueueType, buffer : [QP!Desc -> Event]]

\* The queue and the buffers after each of the entries of an event.
LEMMA PutSteps ==
  ASSUME NEW base \in State, NEW s \in Seq(Event)
  PROVE  \E st \in [0 .. Len(s) -> State] :
           /\ st[0] = base
           /\ \A i \in 1 .. Len(s) : st[i] = PutEvent(st[i - 1], s[i])
           /\ FoldLeft(PutEvent, base, s) = st[Len(s)]
<1> DEFINE n == Len(s)
           P == SUBSET (1 .. n)
           F == [p \in State \X Nat |-> IF p[2] \in 1 .. n THEN PutEvent(p[1], s[p[2]]) ELSE base]
           IsFold(f) == f = [r \in P |-> IF r = {} THEN base
                                        ELSE PutEvent(f[r \ {Max(r)}], s[Max(r)])]
           g == CHOOSE f : IsFold(f)
<1>1. n \in Nat /\ DOMAIN s = 1 .. n /\ \A i \in 1 .. n : s[i] \in Event
  OBVIOUS
<1>2. ASSUME NEW t \in State, NEW e \in Event
      PROVE  PutEvent(t, e) \in State
  <2>1. /\ QP!Advance(t.q) \in QP!QueueType /\ QP!NextDesc(t.q) \in QP!Desc
        /\ \A q \in QP!QueueType, h \in QP!Desc : QP!ConsumeDesc(q, h) \in QP!QueueType
    <3>1. \A q \in QP!QueueType, h \in QP!Desc :
            /\ QP!Advance(q) \in QP!QueueType /\ QP!NextDesc(q) \in QP!Desc
            /\ QP!ConsumeDesc(q, h) \in QP!QueueType
      BY QP!QueueOperators, EventQueueNumAssumption, EventIdxSpaceAssumption
    <3>2. 0 \in QP!Desc /\ t.q \in QP!QueueType
      BY QP!Indices, EventQueueNumAssumption, EventIdxSpaceAssumption DEF State
    <3>3. QED
      BY <3>1, <3>2
  <2>2. PutEvent(t, e) = [q |-> QP!ConsumeDesc(QP!Advance(t.q), QP!NextDesc(t.q)),
                          buffer |-> [t.buffer EXCEPT ![QP!NextDesc(t.q)] = e]]
    BY SameQueue DEF PutEvent
  <2>3. t.buffer \in [QP!Desc -> Event]
    BY DEF State
  <2>4. [t.buffer EXCEPT ![QP!NextDesc(t.q)] = e] \in [QP!Desc -> Event]
    BY <2>3
  <2>5. QED
    BY <2>1, <2>2, <2>4 DEF State
<1> HIDE DEF n
<1>3. F \in [State \X Nat -> State]
  <2>1. ASSUME NEW p \in State \X Nat
        PROVE  (IF p[2] \in 1 .. n THEN PutEvent(p[1], s[p[2]]) ELSE base) \in State
    <3>1. p[1] \in State
      OBVIOUS
    <3>2. QED
      BY <1>1, <1>2, <3>1
  <2>2. QED
    BY <2>1
<1>4. PICK f \in [P -> State] :
        \A r \in P : f[r] = IF r = {} THEN base ELSE F[<<f[r \ {Max(r)}], Max(r)>>]
  <2> HIDE DEF F
  <2>1. n \in Nat /\ F \in [State \X Nat -> State] /\ base \in State
    BY <1>1, <1>3
  <2>2. PICK f \in [SUBSET (1 .. n) -> State] : FoldValues(f, base, F, n)
    BY <2>1, FoldExists
  <2>3. QED
    BY <2>2 DEF FoldValues
<1>5. ASSUME NEW r \in P, r # {}
      PROVE  /\ Max(r) \in 1 .. n
             /\ f[r \ {Max(r)}] \in State
             /\ f[r] = PutEvent(f[r \ {Max(r)}], s[Max(r)])
  <2>1. Max(r) \in r
    BY <1>1, <1>5, MaxIs
  <2>2. Max(r) \in 1 .. n /\ r \ {Max(r)} \in P
    BY <2>1
  <2>3. f[r \ {Max(r)}] \in State
    BY <2>2
  <2>4. <<f[r \ {Max(r)}], Max(r)>> \in State \X Nat
    BY <2>2, <2>3
  <2>5. F[<<f[r \ {Max(r)}], Max(r)>>] = PutEvent(f[r \ {Max(r)}], s[Max(r)])
    BY <2>2, <2>4
  <2>6. QED
    BY <1>4, <1>5, <2>2, <2>3, <2>5
<1>6. IsFold(f)
  <2> HIDE DEF F
  <2>1. \A r \in P : f[r] = IF r = {} THEN base ELSE PutEvent(f[r \ {Max(r)}], s[Max(r)])
    BY <1>4, <1>5
  <2>2. f = [r \in P |-> f[r]]
    OBVIOUS
  <2>3. QED
    BY <2>1, <2>2, Zenon
<1>7. IsFold(g)
  BY <1>6
<1>8. \A r \in P : g[r] = IF r = {} THEN base ELSE PutEvent(g[r \ {Max(r)}], s[Max(r)])
  <2> HIDE DEF g
  <2>1. QED
    BY <1>7
<1>9. FoldLeft(PutEvent, base, s) = g[1 .. n]
  BY <1>1 DEF FoldLeft, MapThenFoldSet
<1> HIDE DEF g, F
<1> DEFINE st == [i \in 0 .. n |-> g[1 .. i]]
<1>10. st[0] = base /\ st[n] = g[1 .. n]
  <2>1. 1 .. 0 = {} /\ 1 .. 0 \in P
    OBVIOUS
  <2>2. g[1 .. 0] = base
    BY <1>8, <2>1
  <2>3. QED
    BY <1>1, <2>2
<1>11. ASSUME NEW i \in 1 .. n
       PROVE  st[i] = PutEvent(st[i - 1], s[i])
  <2>1. 1 .. i \in P /\ 1 .. i # {} /\ i \in Nat
    BY <1>1
  <2>2. Max(1 .. i) = i
    <3>1. Max(1 .. i) \in 1 .. i /\ \A y \in 1 .. i : y <= Max(1 .. i)
      BY <2>1, MaxIs
    <3>2. QED
      BY <2>1, <3>1
  <2>3. (1 .. i) \ {i} = 1 .. i - 1 /\ i - 1 \in 0 .. n /\ i \in 0 .. n
    BY <1>1
  <2>4. g[1 .. i] = PutEvent(g[1 .. i - 1], s[i])
    BY <1>8, <2>1, <2>2, <2>3
  <2>5. QED
    BY <2>3, <2>4
<1>12. ASSUME NEW i \in 0 .. n
       PROVE  st[i] \in State
  <2> DEFINE T == {k \in Nat : k \in 0 .. n => st[k] \in State}
  <2> HIDE DEF st
  <2>1. 0 \in T
    BY <1>10
  <2>2. ASSUME NEW k \in Nat, k \in T
        PROVE  k + 1 \in T
    <3>1. SUFFICES ASSUME k + 1 \in 0 .. n PROVE st[k + 1] \in State
      OBVIOUS
    <3>2. k + 1 \in 1 .. n /\ (k + 1) - 1 = k /\ k \in 0 .. n
      BY <1>1, <3>1
    <3>3. st[k] \in State /\ s[k + 1] \in Event
      BY <1>1, <2>2, <3>2
    <3>4. QED
      BY <1>2, <1>11, <3>2, <3>3
  <2> HIDE DEF T
  <2>3. Nat \subseteq T
    BY <2>1, <2>2, SetInduction
  <2>4. i \in Nat
    BY <1>1
  <2>5. QED
    BY <2>3, <2>4 DEF T
<1>13. st \in [0 .. n -> State]
  BY <1>12
<1> HIDE DEF st
<1>14. QED
  BY <1>9, <1>10, <1>11, <1>13 DEF n

\* One more event after those unread.
LEMMA BelievedAppend ==
  ASSUME NEW on, NEW u \in Seq(Event), NEW e \in Event, NEW declared, NEW b \in Button, b \in declared
  PROVE  b \in Believed(on, Append(u, e), declared)
           <=> IF e.code = b THEN e.value = 1 ELSE b \in Believed(on, u, declared)
<1> DEFINE n == Len(u)
           v == Append(u, e)
           T == TellingOf(u, b)
           V == TellingOf(v, b)
<1>1. /\ n \in Nat /\ DOMAIN u = 1 .. n /\ DOMAIN v = 1 .. n + 1
      /\ v[n + 1] = e /\ \A k \in 1 .. n : v[k] = u[k]
  OBVIOUS
<1> HIDE DEF n, v
<1>2. T = {k \in 1 .. n : u[k].code = b} /\ V = {k \in 1 .. n + 1 : v[k].code = b}
  BY <1>1 DEF TellingOf
<1>3. /\ b \in Believed(on, v, declared) <=> IF V = {} THEN b \in on ELSE v[Max(V)].value = 1
      /\ b \in Believed(on, u, declared) <=> IF T = {} THEN b \in on ELSE u[Max(T)].value = 1
  BY DEF Believed
<1>4. CASE e.code = b
  <2>1. n + 1 \in V /\ V \in SUBSET (1 .. n + 1) /\ n + 1 \in Nat
    BY <1>1, <1>2, <1>4
  <2>2. Max(V) \in V /\ \A y \in V : y <= Max(V)
    BY <2>1, MaxIs
  <2>3. Max(V) = n + 1
    <3>1. Max(V) \in 1 .. n + 1 /\ n + 1 <= Max(V)
      BY <2>1, <2>2
    <3>2. QED
      BY <1>1, <3>1
  <2>4. QED
    BY <1>1, <1>3, <1>4, <2>1, <2>3 DEF v
<1>5. CASE e.code # b
  <2>1. V = T
    BY <1>1, <1>2, <1>5
  <2>2. CASE T = {}
    BY <1>3, <1>5, <2>1, <2>2 DEF v
  <2>3. CASE T # {}
    <3>1. T \in SUBSET (1 .. n)
      BY <1>2
    <3>2. Max(T) \in 1 .. n
      BY <1>1, <2>3, <3>1, MaxIs
    <3>3. v[Max(V)] = u[Max(T)]
      BY <1>1, <2>1, <3>2
    <3>4. QED
      BY <1>3, <1>5, <2>1, <2>3, <3>3 DEF v
  <2>4. QED
    BY <2>2, <2>3
<1>6. QED
  BY <1>4, <1>5

\* The oldest of them is read.
LEMMA BelievedTail ==
  ASSUME NEW on \in SUBSET Button, NEW u \in Seq(Event), u # <<>>, NEW declared, NEW b \in Button
  PROVE  b \in Believed(Applied(on, Head(u), declared), Tail(u), declared) <=> b \in Believed(on, u, declared)
<1> DEFINE n == Len(u)
           v == Tail(u)
           now == Applied(on, Head(u), declared)
           T == TellingOf(u, b)
           V == TellingOf(v, b)
<1>1. /\ n \in Nat /\ n >= 1 /\ DOMAIN u = 1 .. n /\ DOMAIN v = 1 .. n - 1
      /\ Head(u) = u[1] /\ \A k \in 1 .. n - 1 : v[k] = u[k + 1]
  OBVIOUS
<1>2. b \in declared => (b \in now <=> IF u[1].code = b THEN u[1].value = 1 ELSE b \in on)
  BY <1>1 DEF Applied
<1>3. b \notin declared => (b \in now <=> b \in on)
  BY DEF Applied
<1> HIDE DEF n, v, now
<1>4. T = {k \in 1 .. n : u[k].code = b} /\ V = {k \in 1 .. n - 1 : v[k].code = b}
  BY <1>1 DEF TellingOf
<1>5. /\ b \in Believed(now, v, declared) <=> IF b \notin declared \/ V = {} THEN b \in now
                                           ELSE v[Max(V)].value = 1
      /\ b \in Believed(on, u, declared) <=> IF b \notin declared \/ T = {} THEN b \in on
                                          ELSE u[Max(T)].value = 1
  BY DEF Believed
<1>6. CASE b \notin declared
  BY <1>3, <1>5, <1>6 DEF now, v
<1>7. CASE b \in declared /\ V = {}
  <2>1. \A k \in T : k = 1
    <3>1. SUFFICES ASSUME NEW k \in T, k # 1 PROVE FALSE
      OBVIOUS
    <3>2. k - 1 \in 1 .. n - 1 /\ (k - 1) + 1 = k /\ u[k].code = b
      BY <1>1, <1>4, <3>1
    <3>3. v[k - 1] = u[k]
      BY <1>1, <3>2
    <3>4. k - 1 \in V
      BY <1>4, <3>2, <3>3
    <3>5. QED
      BY <1>7, <3>4
  <2>2. CASE u[1].code = b
    <3>1. 1 \in T /\ T \in SUBSET (1 .. n)
      BY <1>1, <1>4, <2>2
    <3>2. Max(T) = 1
      BY <1>1, <2>1, <3>1, MaxIs
    <3>3. QED
      BY <1>2, <1>5, <1>7, <2>2, <3>1, <3>2 DEF now, v
  <2>3. CASE u[1].code # b
    <3>1. T = {}
      BY <1>4, <2>1, <2>3
    <3>2. QED
      BY <1>2, <1>5, <1>7, <2>3, <3>1 DEF now, v
  <2>4. QED
    BY <2>2, <2>3
<1>8. CASE b \in declared /\ V # {}
  <2>1. V \in SUBSET (1 .. n - 1) /\ n - 1 \in Nat
    BY <1>1, <1>4
  <2>2. Max(V) \in V /\ \A y \in V : y <= Max(V)
    BY <1>8, <2>1, MaxIs
  <2> DEFINE m == Max(V)
  <2> HIDE DEF m
  <2>3. m \in 1 .. n - 1 /\ v[m].code = b /\ v[m] = u[m + 1]
    BY <1>1, <1>4, <2>1, <2>2 DEF m
  <2>4. m + 1 \in T /\ T \in SUBSET (1 .. n)
    BY <1>1, <1>4, <2>3
  <2>5. Max(T) \in T /\ \A y \in T : y <= Max(T)
    BY <1>1, <2>4, MaxIs
  <2> DEFINE l == Max(T)
  <2> HIDE DEF l
  <2>6. l \in 1 .. n /\ m + 1 <= l /\ u[l].code = b
    BY <1>4, <2>4, <2>5 DEF l
  <2>7. l - 1 \in 1 .. n - 1 /\ (l - 1) + 1 = l
    BY <1>1, <2>3, <2>6
  <2>8. v[l - 1] = u[l]
    BY <1>1, <2>7
  <2>9. l - 1 \in V
    BY <1>4, <2>6, <2>7, <2>8
  <2>10. l - 1 <= m
    BY <2>2, <2>9 DEF m
  <2>11. l = m + 1
    BY <1>1, <2>3, <2>6, <2>10
  <2>12. v[Max(V)] = u[Max(T)] /\ T # {}
    BY <2>3, <2>4, <2>11 DEF m, l
  <2>13. QED
    BY <1>5, <1>8, <2>12 DEF now, v
<1>9. QED
  BY <1>6, <1>7, <1>8

\* The events unread.
UnreadOf(s) == QP!MapSeq(s.buffer, QP!Used(s.q, event_used))

\* What is unread, from the queue and the buffers.
LEMMA UnreadIs ==
  Unread = UnreadOf([q |-> events, buffer |-> buffer])
BY SameQueue DEF Unread, UnreadOf, QP!MapSeq, QP!Used

\* Each head of the queue is with the device or with the driver, and in one place.
HeadsApart(q) == QP!HeadsOK(QP!Avail(q), QP!Used(q, event_used), {}, QP!Desc)

\* An event put into the queue is the last of those unread.
LEMMA PutOne ==
  ASSUME NEW s \in State, NEW e \in Event, event_used \in QP!Idx,
         HeadsApart(s.q), QP!Avail(s.q) # <<>>
  PROVE  LET t == PutEvent(s, e)
         IN  /\ HeadsApart(t.q)
             /\ QP!Avail(t.q) = Tail(QP!Avail(s.q))
             /\ UnreadOf(s) \in Seq(Event)
             /\ UnreadOf(t) = Append(UnreadOf(s), e)
<1> DEFINE t == PutEvent(s, e)
           h == QP!NextDesc(s.q)
           used == QP!Used(s.q, event_used)
<1>1. s.q \in QP!QueueType /\ s.buffer \in [QP!Desc -> Event]
  BY DEF State
<1>2. QP!HasAvail(s.q)
  <2>1. s.q.last_avail_idx = s.q.avail_idx => QP!Avail(s.q) = <<>>
    BY <1>1, QP!EntriesEmpty, EventQueueNumAssumption, EventIdxSpaceAssumption
    DEF QP!Avail, QP!QueueType
  <2>2. QED
    BY <2>1 DEF QP!HasAvail
<1>3. /\ h \in QP!Desc
      /\ \A k \in 1 .. Len(used) : used[k] # h
      /\ QP!Avail(QP!ConsumeDesc(QP!Advance(s.q), h)) = Tail(QP!Avail(s.q))
      /\ QP!Used(QP!ConsumeDesc(QP!Advance(s.q), h), event_used) = Append(used, h)
      /\ HeadsApart(QP!ConsumeDesc(QP!Advance(s.q), h))
  BY <1>1, <1>2, QP!TakeAndReturn, EventQueueNumAssumption, EventIdxSpaceAssumption
  DEF HeadsApart
<1>4. t.q = QP!ConsumeDesc(QP!Advance(s.q), h) /\ t.buffer = [s.buffer EXCEPT ![h] = e]
  BY SameQueue DEF PutEvent
<1>5. used \in Seq(QP!Desc)
  BY DEF HeadsApart, QP!HeadsOK
<1> HIDE DEF t, h, used
<1>6. t.buffer \in [QP!Desc -> Event] /\ t.buffer[h] = e
      /\ \A k \in DOMAIN used : s.buffer[used[k]] = t.buffer[used[k]]
  <2>1. DOMAIN used = 1 .. Len(used) /\ \A k \in 1 .. Len(used) : used[k] \in QP!Desc
    BY <1>5
  <2>2. QED
    BY <1>1, <1>3, <1>4, <2>1
<1>7. QP!MapSeq(t.buffer, used) = QP!MapSeq(s.buffer, used)
  BY <1>5, <1>6, QP!MapSeqAgree, EventQueueNumAssumption, EventIdxSpaceAssumption
<1>8. QP!MapSeq(t.buffer, Append(used, h)) = Append(QP!MapSeq(t.buffer, used), e)
  BY <1>3, <1>5, <1>6, QP!MapSeqAppend, EventQueueNumAssumption, EventIdxSpaceAssumption
<1>9. QP!MapSeq(s.buffer, used) \in Seq(Event)
  BY <1>1, <1>5, QP!MapSeqIs, EventQueueNumAssumption, EventIdxSpaceAssumption
<1>10. UnreadOf(s) = QP!MapSeq(s.buffer, used)
  BY DEF UnreadOf, used
<1>11. UnreadOf(t) = QP!MapSeq(t.buffer, Append(used, h))
  BY <1>3, <1>4 DEF UnreadOf
<1>12. QED
  BY <1>3, <1>4, <1>7, <1>8, <1>9, <1>10, <1>11 DEF t

\* What the entries of an event say of the buttons.
Tells(s, down) ==
  \A j \in DOMAIN s : s[j].code \in Button => (s[j].value = 1 <=> s[j].code \in down)

\* The queue, as far as it depends on no constant of the run.
InputQueueOK ==
  /\ [q |-> events, buffer |-> buffer] \in State
  /\ event_used \in QP!Idx
  /\ HeadsApart(events)

\* Once what an event tells of a button is in the queue, the driver will believe it.
LEMMA Sending ==
  ASSUME InputQueueOK, NEW down, NEW entries \in Seq(Event), Tells(entries, down),
         Button \subseteq codes, input_ready, QueueEvents(entries),
         UNCHANGED <<event_used, pressed, codes>>
  PROVE  /\ InputQueueOK'
         /\ \A b \in Button :
              b \in AfterUnread' <=> IF b \in CodesOf(Sent(entries)) THEN b \in down
                                     ELSE b \in AfterUnread
<1> DEFINE sent == Sent(entries)
           base == [q |-> events, buffer |-> buffer]
           room == Len(QP!Avail(events))
<1>1. base \in State /\ events \in QP!QueueType /\ event_used \in QP!Idx /\ HeadsApart(events)
  BY DEF InputQueueOK, State
<1>2. Room = room /\ room \in Nat
  BY <1>1, QP!EntriesAre, EventQueueNumAssumption, EventIdxSpaceAssumption
  DEF Room, QP!Avail, QP!Dist, QP!QueueType
<1>3. /\ sent \in Seq(Event) /\ Len(sent) \in Nat /\ DOMAIN sent = 1 .. Len(sent)
      /\ Len(sent) <= room
      /\ \A j \in 1 .. Len(sent) : j \in DOMAIN entries /\ sent[j] = entries[j]
  BY <1>2 DEF Sent
<1>4. PICK st \in [0 .. Len(sent) -> State] :
        /\ st[0] = base
        /\ \A i \in 1 .. Len(sent) : st[i] = PutEvent(st[i - 1], sent[i])
        /\ FoldLeft(PutEvent, base, sent) = st[Len(sent)]
  BY <1>1, <1>3, PutSteps
<1>5. events' = st[Len(sent)].q /\ buffer' = st[Len(sent)].buffer
  BY <1>4 DEF QueueEvents
<1> HIDE DEF sent, base, room
<1> DEFINE B(i) == Believed(pressed, UnreadOf(st[i]), codes)
           Told(i) == {sent[j].code : j \in 1 .. i}
           Good(i) == /\ HeadsApart(st[i].q)
                      /\ Len(QP!Avail(st[i].q)) = room - i
                      /\ \A b \in Button :
                           b \in B(i) <=> IF b \in Told(i) THEN b \in down ELSE b \in B(0)
           T == {i \in Nat : i <= Len(sent) => Good(i)}
<1>6. 0 \in T
  <2>1. Told(0) = {}
    OBVIOUS
  <2>2. HeadsApart(st[0].q) /\ Len(QP!Avail(st[0].q)) = room - 0
    BY <1>1, <1>2, <1>4 DEF base, room
  <2> HIDE DEF B, Told
  <2>3. QED
    BY <2>1, <2>2
<1>7. ASSUME NEW i \in Nat, i \in T
      PROVE  i + 1 \in T
  <2>1. SUFFICES ASSUME i + 1 <= Len(sent)
                 PROVE  Good(i + 1)
    <3> HIDE DEF Good
    <3>1. QED
      OBVIOUS
  <2>2. /\ i \in 0 .. Len(sent) /\ i + 1 \in 1 .. Len(sent) /\ (i + 1) - 1 = i
        /\ sent[i + 1] \in Event
    BY <1>3, <2>1
  <2>3. Good(i)
    <3> HIDE DEF Good
    <3>1. QED
      BY <1>7, <2>2
  <2> DEFINE e == sent[i + 1]
  <2>4. st[i] \in State /\ st[i + 1] = PutEvent(st[i], e)
    BY <1>4, <2>2
  <2>5. QP!Avail(st[i].q) \in Seq(QP!Desc) /\ QP!Avail(st[i].q) # <<>>
    <3>1. QP!Avail(st[i].q) \in Seq(QP!Desc)
      BY <2>3 DEF HeadsApart, QP!HeadsOK
    <3>2. Len(QP!Avail(st[i].q)) # 0
      BY <1>2, <1>3, <2>1, <2>3
    <3>3. QED
      BY <3>1, <3>2
  <2> HIDE DEF e
  <2>6. /\ HeadsApart(st[i + 1].q)
        /\ QP!Avail(st[i + 1].q) = Tail(QP!Avail(st[i].q))
        /\ UnreadOf(st[i]) \in Seq(Event)
        /\ UnreadOf(st[i + 1]) = Append(UnreadOf(st[i]), e)
    BY <1>1, <2>2, <2>3, <2>4, <2>5, PutOne DEF e
  <2>7. Len(QP!Avail(st[i + 1].q)) = room - (i + 1)
    <3>1. Len(QP!Avail(st[i].q)) = room - i
      BY <2>3
    <3>2. Len(Tail(QP!Avail(st[i].q))) = Len(QP!Avail(st[i].q)) - 1
      BY <2>5
    <3>3. QED
      BY <1>2, <2>6, <3>1, <3>2
  <2>8. ASSUME NEW b \in Button
        PROVE  b \in B(i + 1) <=> IF b \in Told(i + 1) THEN b \in down ELSE b \in B(0)
    <3>1. b \in B(i + 1) <=> IF e.code = b THEN e.value = 1 ELSE b \in B(i)
      BY <2>2, <2>6, BelievedAppend DEF e
    <3>2. b \in B(i) <=> IF b \in Told(i) THEN b \in down ELSE b \in B(0)
      BY <2>3
    <3>3. e.code = b => (e.value = 1 <=> b \in down)
      BY <1>3, <2>2 DEF Tells, e
    <3>4. b \in Told(i + 1) <=> e.code = b \/ b \in Told(i)
      <4>1. \A j \in 1 .. i + 1 : j = i + 1 \/ j \in 1 .. i
        OBVIOUS
      <4>2. QED
        BY <2>2, <4>1 DEF e
    <3> HIDE DEF B, Told
    <3>5. QED
      BY <3>1, <3>2, <3>3, <3>4
  <2> HIDE DEF B, Told
  <2>9. QED
    BY <2>6, <2>7, <2>8
<1> HIDE DEF T
<1>8. Nat \subseteq T
  BY <1>6, <1>7, SetInduction
<1> HIDE DEF Good
<1>9. Good(Len(sent))
  BY <1>3, <1>8 DEF T
<1>10. InputQueueOK'
  <2>1. [q |-> events, buffer |-> buffer]' = st[Len(sent)]
    <3>1. st[Len(sent)] \in State
      BY <1>3
    <3>2. QED
      BY <1>5, <3>1 DEF State
  <2>2. st[Len(sent)] \in State
    BY <1>3
  <2>3. HeadsApart(events)'
    BY <1>5, <1>9 DEF Good, HeadsApart
  <2>4. QED
    BY <1>1, <2>1, <2>2, <2>3 DEF InputQueueOK
<1>11. AfterUnread = B(0) /\ AfterUnread' = B(Len(sent))
  <2>1. AfterUnread = B(0)
    BY <1>4, UnreadIs DEF AfterUnread, base
  <2>2. Unread' = UnreadOf(st[Len(sent)])
    BY <1>5, SameQueue DEF Unread, UnreadOf, QP!MapSeq, QP!Used
  <2>3. QED
    BY <2>1, <2>2 DEF AfterUnread
<1>12. CodesOf(Sent(entries)) = Told(Len(sent))
  BY <1>3 DEF CodesOf, sent
<1>13. QED
  BY <1>9, <1>10, <1>11, <1>12 DEF Good

\* The question for the buttons and keys.
AskKey == <<"EV_BITS", "KEY">>

\* The driver has been told of the buttons, or has still to ask.
ConfigInv ==
  /\ chosen > 0 => asked # <<>> /\ config.select = Head(asked)[1]
  /\ chosen = 2 /\ Head(asked) = AskKey => config.size = 1 /\ config.data = Button
  /\ Button \subseteq codes \/ \E k \in DOMAIN asked : asked[k] = AskKey
  /\ input_ready => asked = <<>> /\ chosen = 0

\* The rings are empty until the driver is ready.
QueueInv ==
  /\ HeadsApart(events)
  /\ ~input_ready => /\ events.last_avail_idx = 0 /\ events.avail_idx = 0
                     /\ events.used_idx = 0 /\ event_used = 0

\* What the device takes to be pressed; the driver will believe it.
Known == IF input_type = "KEYBOARD" THEN held ELSE buttons_state
AgreeInv == \A b \in Button \ unsure : b \in AfterUnread <=> b \in Known

\* The inductive invariant.
InputInv == InputTypeOK /\ ConfigInv /\ QueueInv /\ AgreeInv

\* The buttons, one by one.
LEMMA ButtonValues == Button = {"BTN_LEFT", "BTN_RIGHT", "BTN_MIDDLE"}
BY DEF Button, buttons_list, ToSet

\* Two sequences one after the other, by their places.
LEMMA ConcatIs ==
  ASSUME NEW S, NEW a \in Seq(S), NEW b \in Seq(S)
  PROVE  /\ a \o b \in Seq(S)
         /\ Len(a \o b) = Len(a) + Len(b)
         /\ DOMAIN (a \o b) = 1 .. Len(a) + Len(b)
         /\ \A k \in 1 .. Len(a) : (a \o b)[k] = a[k]
         /\ \A k \in 1 .. Len(b) : (a \o b)[Len(a) + k] = b[k]
OBVIOUS

\* Among the questions of a driver is the one for the keys.
LEMMA QuestionsAre ==
  ASSUME NEW t
  PROVE  /\ Questions(t) \in Seq(Selector \X Subselector)
         /\ \E k \in DOMAIN Questions(t) : Questions(t)[k] = AskKey
<1> DEFINE S == Selector \X Subselector
           name == <<"ID_NAME", "NONE">>
           rep == <<"EV_BITS", "REP">>
           key == <<"EV_BITS", "KEY">>
           rel == <<"EV_BITS", "REL">>
           abs == <<"EV_BITS", "ABS">>
           led == <<"EV_BITS", "LED">>
           abs_x == <<"ABS_INFO", "ABS_X">>
           abs_y == <<"ABS_INFO", "ABS_Y">>
           a == <<name, rep, key, rel, abs, led>>
           b == IF t = "TABLET" THEN <<abs_x, abs_y>> ELSE <<>>
<1>1. /\ name \in S /\ rep \in S /\ key \in S /\ rel \in S /\ abs \in S /\ led \in S
      /\ abs_x \in S /\ abs_y \in S /\ key = AskKey
  BY DEF AskKey, Selector, Subselector
<1>2. Questions(t) = a \o b
  BY DEF Questions
<1> HIDE DEF S, name, rep, key, rel, abs, led, abs_x, abs_y
<1>3. a \in Seq(S) /\ Len(a) = 6 /\ a[3] = AskKey /\ b \in Seq(S)
  BY <1>1
<1> HIDE DEF a, b
<1> DEFINE c == a \o b
<1>4. /\ c \in Seq(S) /\ Len(c) = Len(a) + Len(b) /\ DOMAIN c = 1 .. Len(a) + Len(b)
      /\ \A k \in 1 .. Len(a) : c[k] = a[k]
  BY <1>3, ConcatIs, ZenonT(60)
<1>5. Questions(t) = c
  BY <1>2
<1> HIDE DEF c
<1>6. 3 \in 1 .. Len(a) /\ 3 \in DOMAIN c
  BY <1>3, <1>4
<1>7. QED
  BY <1>3, <1>4, <1>5, <1>6 DEF S

\* The configuration space keeps its type, and tells of the keys when asked.
LEMMA AnswerTyped ==
  ASSUME NEW c \in Config,
         NEW t
  PROVE  /\ ConfigAnswer(c, t) \in Config
         /\ ConfigAnswer(c, t).select = c.select
         /\ c.select = "EV_BITS" /\ c.subsel = "KEY" =>
              ConfigAnswer(c, t).size = 1 /\ ConfigAnswer(c, t).data = Button
<1> DEFINE ev == c.subsel
           d == Declared(t, ev)
           answer == ConfigAnswer(c, t)
<1>1. /\ Button \in SUBSET Text /\ Button # {} /\ {"name"} \in SUBSET Text
      /\ {"range"} \in SUBSET Text /\ {"REL_WHEEL"} \in SUBSET Text
      /\ {"REL_X", "REL_Y", "REL_WHEEL"} \in SUBSET Text /\ {"ABS_X", "ABS_Y"} \in SUBSET Text
  BY ButtonValues DEF Text, Code
<1>2. d = IF ev = "KEY" THEN Button
          ELSE IF ev = "REL" /\ t = "MOUSE" THEN {"REL_X", "REL_Y", "REL_WHEEL"}
          ELSE IF ev = "REL" /\ t = "TABLET" THEN {"REL_WHEEL"}
          ELSE IF ev = "ABS" /\ t = "TABLET" THEN {"ABS_X", "ABS_Y"} ELSE {}
  BY DEF Declared
<1> HIDE DEF d
<1>3. d \in SUBSET Text
  BY <1>1, <1>2
<1>5. CASE c.select = "UNSET"
  BY <1>5 DEF ConfigAnswer, Config
<1>6. CASE c.select = "ID_NAME"
  BY <1>1, <1>6 DEF ConfigAnswer, Config
<1>7. CASE c.select = "EV_BITS" /\ d # {}
  <2>1. answer = [c EXCEPT !.size = 1, !.data = d]
    BY <1>7 DEF ConfigAnswer, Config, d
  <2>2. QED
    BY <1>2, <1>3, <1>7, <2>1 DEF Config
<1>8. CASE c.select = "EV_BITS" /\ d = {}
  <2>1. answer = [c EXCEPT !.size = IF t = "KEYBOARD" /\ c.subsel = "REP" THEN 1 ELSE 0]
    BY <1>8 DEF ConfigAnswer, Config, d
  <2>2. c.subsel # "KEY"
    BY <1>1, <1>2, <1>8
  <2>3. QED
    BY <1>8, <2>1, <2>2 DEF Config
<1>9. CASE c.select = "ABS_INFO"
  BY <1>1, <1>9 DEF ConfigAnswer, Config
<1>10. CASE c.select \notin {"UNSET", "ID_NAME", "EV_BITS", "ABS_INFO"}
  BY <1>10 DEF ConfigAnswer, Config
<1>11. QED
  BY <1>5, <1>6, <1>7, <1>8, <1>9, <1>10

\* The questions of the driver.
LEMMA ConfigStep ==
  ASSUME InputInv, Select \/ ReadAnswer
  PROVE  InputTypeOK' /\ ConfigInv'
<1>1. CASE Select
  <2> DEFINE c == IF chosen = 0 THEN [config EXCEPT !.select = Head(asked)[1]]
                  ELSE [config EXCEPT !.subsel = Head(asked)[2]]
  <2>1. Head(asked) \in Selector \X Subselector
    BY <1>1 DEF Select, InputInv, InputTypeOK
  <2>2. c \in Config
    BY <2>1 DEF InputInv, InputTypeOK, Config
  <2>3. config' = ConfigAnswer(c, input_type)
    BY <1>1 DEF Select, WriteConfig
  <2>4. c.select = Head(asked)[1] /\ (chosen = 1 => c.subsel = Head(asked)[2])
    BY <2>1 DEF InputInv, InputTypeOK, ConfigInv, Config
  <2> HIDE DEF c
  <2>5. /\ config' \in Config
        /\ config'.select = Head(asked)[1]
        /\ chosen = 1 /\ Head(asked) = AskKey => config'.size = 1 /\ config'.data = Button
    BY <2>2, <2>3, <2>4, AnswerTyped DEF AskKey
  <2>6. InputTypeOK'
    BY <1>1, <2>5 DEF InputInv, InputTypeOK, Select, Q!QueueTypeOK
  <2>7. ConfigInv'
    BY <1>1, <2>5 DEF InputInv, InputTypeOK, Select, ConfigInv
  <2>8. QED
    BY <2>6, <2>7
<1>2. CASE ReadAnswer
  <2>1. asked # <<>> /\ asked \in Seq(Selector \X Subselector)
    BY <1>2 DEF ReadAnswer, InputInv, InputTypeOK, ConfigInv
  <2>2. Tail(asked) \in Seq(Selector \X Subselector) /\ Head(asked) = asked[1]
        /\ \A k \in DOMAIN asked : k = 1 \/ (k - 1 \in DOMAIN Tail(asked) /\ Tail(asked)[k - 1] = asked[k])
    BY <2>1
  <2>3. codes \subseteq codes' /\ codes' \subseteq Text
    BY <1>2 DEF ReadAnswer, InputInv, InputTypeOK, Config
  <2>4. Head(asked) = AskKey => Button \subseteq codes'
    BY <1>2 DEF ReadAnswer, InputInv, ConfigInv, AskKey
  <2>5. InputTypeOK'
    BY <1>2, <2>2, <2>3 DEF InputInv, InputTypeOK, ReadAnswer, Q!QueueTypeOK
  <2>6. Button \subseteq codes' \/ \E k \in DOMAIN asked' : asked'[k] = AskKey
    <3>1. CASE Button \subseteq codes
      BY <2>3, <3>1
    <3>2. CASE \E k \in DOMAIN asked : asked[k] = AskKey
      BY <1>2, <2>2, <2>4, <3>2 DEF ReadAnswer
    <3>3. QED
      BY <3>1, <3>2 DEF InputInv, ConfigInv
  <2>7. ~input_ready /\ input_ready' = input_ready
    BY <1>2, <2>1 DEF InputInv, ConfigInv, ReadAnswer
  <2>8. QED
    BY <1>2, <2>5, <2>6, <2>7 DEF ConfigInv, ReadAnswer
<1>3. QED
  BY <1>1, <1>2

LEMMA TypeIsQueue ==
  InputTypeOK /\ QueueInv => InputQueueOK
BY SameQueue DEF InputTypeOK, QueueInv, InputQueueOK, State

\* With empty rings nothing is unread.
LEMMA NothingUnread ==
  ASSUME InputTypeOK, QueueInv, ~input_ready
  PROVE  /\ Unread = <<>> /\ Room = 0
         /\ QP!Avail(events) = <<>> /\ QP!Used(events, event_used) = <<>>
<1>1. events \in QP!QueueType /\ 0 \in QP!Idx
  BY SameQueue, QP!Indices, EventQueueNumAssumption, EventIdxSpaceAssumption DEF InputTypeOK
<1>2. QP!Avail(events) = <<>> /\ QP!Used(events, event_used) = <<>>
  BY <1>1, QP!EntriesEmpty, EventQueueNumAssumption, EventIdxSpaceAssumption
  DEF QueueInv, QP!Avail, QP!Used, QP!QueueType
<1>3. Unread = <<>>
  BY <1>2, UnreadIs DEF UnreadOf, QP!MapSeq
<1>4. QED
  BY <1>2, <1>3 DEF Room

\* With nothing unread, what is believed stands.
LEMMA BelievedNothing ==
  ASSUME NEW on, NEW declared, NEW b \in Button
  PROVE  b \in Believed(on, <<>>, declared) <=> b \in on
BY DEF Believed, TellingOf

LEMMA AskingAgrees ==
  ASSUME InputInv, Select \/ ReadAnswer
  PROVE  QueueInv' /\ AgreeInv'
<1>1. QueueInv'
  BY DEF Select, ReadAnswer, InputInv, QueueInv, HeadsApart
<1>2. CASE Select
  <2>1. Unread' = Unread /\ Known' = Known
    BY <1>2 DEF Select, Unread, Known
  <2>2. UNCHANGED <<pressed, codes, unsure>>
    BY <1>2 DEF Select
  <2>3. AfterUnread' = AfterUnread
    BY <2>1, <2>2 DEF AfterUnread
  <2>4. QED
    BY <1>1, <2>1, <2>2, <2>3 DEF InputInv, AgreeInv
<1>3. CASE ReadAnswer
  <2>1. ~input_ready
    BY <1>3 DEF ReadAnswer, InputInv, ConfigInv
  <2>2. Unread = <<>>
    BY <2>1, NothingUnread DEF InputInv
  <2>3. Unread' = Unread /\ pressed' = pressed /\ unsure' = unsure /\ Known' = Known
    BY <1>3 DEF ReadAnswer, Unread, Known
  <2>4. QED
    <3>1. \A b \in Button : b \in AfterUnread <=> b \in pressed
      BY <2>2, BelievedNothing DEF AfterUnread
    <3>2. \A b \in Button : b \in AfterUnread' <=> b \in pressed
      <4>1. AfterUnread' = Believed(pressed, <<>>, codes')
        BY <2>2, <2>3 DEF AfterUnread
      <4>2. QED
        BY <4>1, BelievedNothing
    <3>3. QED
      BY <1>1, <2>3, <3>1, <3>2 DEF InputInv, AgreeInv
<1>4. QED
  BY <1>1, <1>2, <1>3

\* Before it gives any buffer the driver has them all.
LEMMA NoHeads == QP!HeadsOK(<<>>, <<>>, {}, QP!Desc)
<1>1. QP!IsFiniteSet({}) /\ QP!Cardinality({}) = 0
  BY QP!FS_EmptySet, EventQueueNumAssumption, EventIdxSpaceAssumption
<1>2. QP!Cardinality(QP!Desc) \in Nat
  BY QP!OwnedBound, EventQueueNumAssumption, EventIdxSpaceAssumption
<1>3. <<>> \in Seq(QP!Desc) /\ 1 .. Len(<<>>) = {} /\ Len(<<>>) = 0
  OBVIOUS
<1>4. QED
  BY <1>1, <1>2, <1>3 DEF QP!HeadsOK

\* The driver gives all its buffers.
LEMMA SetupStep ==
  ASSUME InputInv, SetupEvents
  PROVE  InputInv'
<1> DEFINE ring == [i \in QP!Desc |-> i]
           q == [events EXCEPT !.avail_ring = ring, !.avail_idx = EventQueueNum]
           A == QP!Avail(q)
<1>1. EventQueueNum \in Nat \ {0} /\ EventIdxSpace \in Nat /\ EventQueueNum < EventIdxSpace
  BY EventQueueNumAssumption, EventIdxSpaceAssumption
<1>2. /\ events \in QP!QueueType /\ ~input_ready /\ events' = q
      /\ UNCHANGED <<input_type, buttons_state, config, asked, chosen, codes, event_used, pressed,
                     buffer, held, unsure>>
      /\ input_ready' = TRUE /\ asked = <<>> /\ event_used \in QP!Idx
  BY SameQueue DEF SetupEvents, InputInv, InputTypeOK, driverVars
<1>3. /\ ring \in [QP!Desc -> QP!Desc] /\ 0 \in QP!Idx /\ EventQueueNum \in QP!Idx
      /\ \A k \in 1 .. EventQueueNum : k - 1 \in QP!Desc /\ QP!Slot(0 + (k - 1)) = k - 1
  <2>1. \A k \in 1 .. EventQueueNum : k - 1 \in 0 .. EventQueueNum - 1
    BY <1>1
  <2>2. QED
    BY <1>1, <2>1, QP!SmallMod, EventQueueNumAssumption, EventIdxSpaceAssumption
    DEF QP!Desc, QP!Idx, QP!Slot
<1>4. QP!Dist(0, EventQueueNum) = EventQueueNum
  BY <1>1, <1>3, QP!DistValue, EventQueueNumAssumption, EventIdxSpaceAssumption
<1>5. /\ q.avail_ring = ring /\ q.avail_idx = EventQueueNum /\ q.last_avail_idx = 0
      /\ q.used_ring = events.used_ring /\ q.used_idx = events.used_idx
      /\ q \in QP!QueueType
  BY <1>2, <1>3 DEF InputInv, QueueInv, QP!QueueType
<1> HIDE DEF ring, q
<1>6. /\ A \in Seq(QP!Desc) /\ Len(A) = EventQueueNum
      /\ \A k \in 1 .. EventQueueNum : A[k] = k - 1
  <2>1. /\ A \in Seq(QP!Desc) /\ Len(A) = EventQueueNum
        /\ \A k \in 1 .. EventQueueNum : A[k] = ring[QP!Slot(0 + (k - 1))]
    BY <1>3, <1>4, <1>5, QP!EntriesAre, EventQueueNumAssumption, EventIdxSpaceAssumption
    DEF QP!Avail
  <2>2. QED
    BY <1>3, <2>1 DEF ring
<1>7. QP!Used(q, event_used) = <<>>
  <2>1. QP!Used(q, event_used) = QP!Used(events, event_used)
    BY <1>5 DEF QP!Used
  <2>2. QED
    BY <1>2, <2>1, NothingUnread DEF InputInv
<1> HIDE DEF A
<1>8. HeadsApart(q)
  <2>1. QP!IsFiniteSet({}) /\ QP!Cardinality({}) = 0
    BY QP!FS_EmptySet, EventQueueNumAssumption, EventIdxSpaceAssumption
  <2>2. QP!Cardinality(QP!Desc) = EventQueueNum
    <3>1. 0 \in Int /\ EventQueueNum - 1 \in Int
      BY <1>1
    <3>2. QP!Cardinality(0 .. EventQueueNum - 1) = IF 0 > EventQueueNum - 1 THEN 0
                                                ELSE (EventQueueNum - 1) - 0 + 1
      BY <3>1, QP!FS_Interval, EventQueueNumAssumption, EventIdxSpaceAssumption
    <3>3. QED
      BY <1>1, <3>2 DEF QP!Desc
  <2>3. QP!HeadsOK(A, <<>>, {}, QP!Desc)
    <3>1. \A k \in 1 .. Len(A) : A[k] \in QP!Desc
      BY <1>6, <1>3
    <3>2. \A k, l \in 1 .. Len(A) : A[k] = A[l] => k = l
      BY <1>1, <1>6
    <3>3. Len(A) + Len(<<>>) + QP!Cardinality({}) <= QP!Cardinality(QP!Desc)
      BY <1>1, <1>6, <2>1, <2>2
    <3>4. <<>> \in Seq(QP!Desc) /\ 1 .. Len(<<>>) = {}
      OBVIOUS
    <3>5. QED
      BY <1>6, <2>1, <3>1, <3>2, <3>3, <3>4 DEF QP!HeadsOK
  <2>4. QED
    BY <1>7, <2>3 DEF HeadsApart, A
<1>9. InputTypeOK'
  <2>1. Q!QueueTypeOK(q)
    BY <1>5, SameQueue
  <2>2. Q!QueueTypeOK(events)'
    BY <1>2, <2>1 DEF Q!QueueTypeOK
  <2>3. QED
    BY <1>2, <2>2 DEF InputInv, InputTypeOK
<1>10. ConfigInv'
  <2>1. chosen = 0
    BY <1>2 DEF InputInv, InputTypeOK, ConfigInv
  <2>2. QED
    BY <1>2, <2>1 DEF InputInv, ConfigInv
<1>11. QueueInv'
  BY <1>2, <1>8 DEF QueueInv, HeadsApart
<1>12. AgreeInv'
  <2>1. Unread' = Unread
    BY <1>2, <1>5, SameQueue DEF Unread
  <2>2. QED
    BY <1>2, <2>1 DEF InputInv, AgreeInv, AfterUnread, Known
<1>13. QED
  BY <1>9, <1>10, <1>11, <1>12 DEF InputInv

\* virtio_reset, with the driver's part of it.
LEMMA ResetStep ==
  ASSUME InputInv, ResetInput
  PROVE  InputInv'
<1> DEFINE q == QP!EmptyRings(QP!VirtioReset(events))
           zero == [i \in QP!Desc |-> QP!Head0]
           none == [h \in QP!Desc |-> NoEvent]
<1>1. /\ events \in QP!QueueType /\ input_ready /\ events' = q /\ buffer' = none
      /\ input_ready' = FALSE /\ asked' = Questions(input_type) /\ codes' = {}
      /\ event_used' = 0 /\ pressed' = {} /\ unsure' = Button
      /\ UNCHANGED <<input_type, buttons_state, config, chosen, held>>
  BY SameQueue DEF ResetInput, InputInv, InputTypeOK
<1>2. 0 \in QP!Desc /\ 0 \in QP!Idx
  BY QP!Indices, EventQueueNumAssumption, EventIdxSpaceAssumption
<1>3. /\ q \in QP!QueueType
      /\ q.last_avail_idx = 0 /\ q.avail_idx = 0 /\ q.used_idx = 0
  <2>1. \A p \in QP!QueueType : QP!EmptyRings(p) \in QP!QueueType /\ QP!VirtioReset(p) \in QP!QueueType
    BY <1>2, QP!QueueOperators, EventQueueNumAssumption, EventIdxSpaceAssumption
  <2>2. q \in QP!QueueType
    BY <1>1, <2>1
  <2>3. QED
    BY <1>1, <2>2 DEF QP!EmptyRings, QP!VirtioReset, QP!QueueType
<1>4. none \in [QP!Desc -> Event]
  BY DEF NoEvent, Event, Code
<1> HIDE DEF q, none
<1>5. Q!QueueTypeOK(q) /\ Q!Desc = QP!Desc /\ Q!Idx = QP!Idx
  BY <1>3, SameQueue
<1>6. Q!QueueTypeOK(events)'
  BY <1>1, <1>5 DEF Q!QueueTypeOK
<1>7. InputTypeOK'
  <2>1. Questions(input_type) \in Seq(Selector \X Subselector)
    BY QuestionsAre
  <2>2. QED
    BY <1>1, <1>2, <1>4, <1>5, <1>6, <2>1 DEF InputInv, InputTypeOK
<1>8. ConfigInv'
  BY <1>1, QuestionsAre DEF InputInv, ConfigInv
<1>9. QueueInv'
  <2>1. QP!Avail(q) = <<>> /\ QP!Used(q, 0) = <<>>
    BY <1>2, <1>3, QP!EntriesEmpty, EventQueueNumAssumption, EventIdxSpaceAssumption
    DEF QP!Avail, QP!Used, QP!QueueType
  <2>2. QP!HeadsOK(<<>>, <<>>, {}, QP!Desc)
    BY NoHeads
  <2>3. QED
    BY <1>1, <1>3, <2>1, <2>2 DEF QueueInv, HeadsApart
<1>10. AgreeInv'
  BY <1>1 DEF AgreeInv
<1>11. QED
  BY <1>7, <1>8, <1>9, <1>10 DEF InputInv

\* The invariant holds at first.
LEMMA InputInitInv ==
  ASSUME InputInit
  PROVE  InputInv
<1>1. 0 \in QP!Desc /\ 0 \in QP!Idx
  BY QP!Indices, EventQueueNumAssumption, EventIdxSpaceAssumption
<1>2. events = QP!QueueInit /\ events \in QP!QueueType
  <2>1. events = QP!QueueInit
    BY SameQueue DEF InputInit
  <2>2. QP!QueueInit \in QP!QueueType
    BY <1>1 DEF QP!QueueInit, QP!QueueType, QP!Head0
  <2>3. QED
    BY <2>1, <2>2
<1>3. InputTypeOK
  <2>1. Questions(input_type) \in Seq(Selector \X Subselector)
    BY QuestionsAre
  <2>2. [h \in Q!Desc |-> NoEvent] \in [Q!Desc -> Event]
    BY DEF NoEvent, Event, Code
  <2>3. Q!QueueTypeOK(events) /\ 0 \in Q!Idx
    BY <1>1, <1>2, SameQueue
  <2>4. config \in Config /\ buffer \in [Q!Desc -> Event]
    BY <2>2 DEF InputInit, Config, Selector, Subselector
  <2>5. /\ input_type \in InputType /\ input_ready = FALSE /\ chosen = 0
        /\ asked = Questions(input_type) /\ event_used = 0
        /\ buttons_state = {} /\ codes = {} /\ pressed = {} /\ held = {} /\ unsure = {}
    BY DEF InputInit
  <2>6. chosen \in 0 .. 2
    BY DEF InputInit
  <2>10. input_ready \in BOOLEAN
    BY DEF InputInit
  <2>7. asked \in Seq(Selector \X Subselector) /\ event_used \in Q!Idx
    BY <2>1, <2>3, <2>5
  <2>8. /\ buttons_state \subseteq Button /\ codes \subseteq Text
        /\ pressed \subseteq Button /\ held \subseteq Button /\ unsure \subseteq Button
    BY <2>5
  <2>9. QED
    BY <2>3, <2>4, <2>5, <2>6, <2>7, <2>8, <2>10 DEF InputTypeOK
<1>4. ConfigInv
  BY QuestionsAre DEF InputInit, ConfigInv
<1>5. /\ events.last_avail_idx = 0 /\ events.avail_idx = 0 /\ events.used_idx = 0
      /\ event_used = 0 /\ ~input_ready
  BY <1>2 DEF QP!QueueInit, InputInit
<1>6. QP!Avail(events) = <<>> /\ QP!Used(events, event_used) = <<>>
  BY <1>1, <1>2, <1>5, QP!EntriesEmpty, EventQueueNumAssumption, EventIdxSpaceAssumption
  DEF QP!Avail, QP!Used, QP!QueueType
<1>7. QueueInv
  BY <1>5, <1>6, NoHeads DEF QueueInv, HeadsApart
<1>8. AgreeInv
  <2>1. Unread = <<>>
    BY <1>3, <1>5, <1>7, NothingUnread
  <2>2. QED
    BY <2>1, BelievedNothing DEF AgreeInv, AfterUnread, Known, InputInit
<1>9. QED
  BY <1>3, <1>4, <1>7, <1>8 DEF InputInv

\* The driver reads the oldest event and gives its buffer back.
LEMMA ReadEventStep ==
  ASSUME InputInv, ReadEvent
  PROVE  InputInv'
<1> DEFINE h == QP!UsedDesc(events, event_used)
           U == QP!Used(events, event_used)
           A == QP!Avail(events)
           e == buffer[h]
           acked == QP!InterruptAck(events, {QP!UsedBuffer})
           q == QP!AddAvail(acked, h)
           next == QP!NextIdx(event_used)
           given == [buffer EXCEPT ![h] = NoEvent]
<1>1. /\ events \in QP!QueueType /\ event_used \in QP!Idx /\ HeadsApart(events)
      /\ buffer \in [QP!Desc -> Event] /\ input_ready /\ event_used # events.used_idx
      /\ pressed \in SUBSET Button /\ asked = <<>> /\ chosen = 0 /\ Button \subseteq codes
  BY SameQueue DEF InputInv, InputTypeOK, QueueInv, ConfigInv, ReadEvent
<1>2. /\ pressed' = Applied(pressed, e, codes) /\ events' = q /\ buffer' = given
      /\ event_used' = next
      /\ UNCHANGED <<input_type, input_ready, buttons_state, config, asked, chosen, codes, held, unsure>>
  BY SameQueue DEF ReadEvent
<1>3. /\ h \in QP!Desc /\ next \in QP!Idx /\ acked \in QP!QueueType
  <2>1. 0 \in QP!Desc /\ \A i \in QP!Idx : QP!NextIdx(i) \in QP!Idx
    BY QP!Indices, EventQueueNumAssumption, EventIdxSpaceAssumption
  <2>2. \A p \in QP!QueueType : /\ \A bits : QP!InterruptAck(p, bits) \in QP!QueueType
                                /\ \A i \in QP!Idx : QP!UsedDesc(p, i) \in QP!Desc
    BY <2>1, QP!QueueOperators, EventQueueNumAssumption, EventIdxSpaceAssumption
  <2>3. QED
    BY <1>1, <2>1, <2>2
<1> HIDE DEF h, acked, next
<1>4. U # <<>> /\ Head(U) = h /\ QP!Used(events, next) = Tail(U)
  BY <1>1, QP!RingReap, EventQueueNumAssumption, EventIdxSpaceAssumption DEF h, next
<1>5. /\ QP!Avail(acked) = A /\ QP!Used(acked, next) = Tail(U)
  BY <1>1, <1>4, QP!RingAck, EventQueueNumAssumption, EventIdxSpaceAssumption DEF acked
<1> HIDE DEF U, A
<1>6. QP!HeadsOK(A, U, {}, QP!Desc)
  BY <1>1 DEF HeadsApart, A, U
<1>7. /\ \A k \in 1 .. Len(Tail(U)) : Tail(U)[k] # h
      /\ QP!HeadsOK(A, Tail(U), {}, QP!Desc \ {h})
  BY <1>4, <1>6, QP!HeadsReap, EventQueueNumAssumption, EventIdxSpaceAssumption
<1>8. /\ Len(A) < EventQueueNum
      /\ QP!HeadsOK(Append(A, h), Tail(U), {}, QP!Desc)
  <2> DEFINE others == QP!Desc \ {h}
             V == Tail(U)
  <2>1. h \notin others /\ others \union {h} = QP!Desc /\ QP!HeadsOK(A, V, {}, others)
    BY <1>3, <1>7
  <2> HIDE DEF others, V
  <2>2. Len(A) < EventQueueNum /\ QP!HeadsOK(Append(A, h), V, {}, others \union {h})
    BY <1>3, <2>1, QP!HeadsSubmit, EventQueueNumAssumption, EventIdxSpaceAssumption
  <2>3. QED
    BY <2>1, <2>2 DEF V
<1>9. QP!Avail(q) = Append(A, h) /\ QP!Used(q, next) = Tail(U)
  BY <1>3, <1>5, <1>8, QP!RingSubmit, EventQueueNumAssumption, EventIdxSpaceAssumption
<1>10. q \in QP!QueueType
  BY <1>3, QP!QueueOperators, EventQueueNumAssumption, EventIdxSpaceAssumption
<1> HIDE DEF q
<1>11. given \in [QP!Desc -> Event] /\ e \in Event
  BY <1>1, <1>3 DEF NoEvent, Event, Code
<1>12. U \in Seq(QP!Desc) /\ Tail(U) \in Seq(QP!Desc)
  BY <1>4, <1>6 DEF QP!HeadsOK
<1>13. QueueInv'
  BY <1>1, <1>2, <1>8, <1>9 DEF QueueInv, HeadsApart
<1>14. InputTypeOK'
  <2>1. Q!QueueTypeOK(q) /\ Q!Desc = QP!Desc /\ Q!Idx = QP!Idx
    BY <1>10, SameQueue
  <2>2. Q!QueueTypeOK(events)'
    BY <1>2, <2>1 DEF Q!QueueTypeOK
  <2>3. pressed' \subseteq Button
    BY <1>1, <1>2 DEF Applied
  <2> HIDE DEF given, e
  <2>4. QED
    BY <1>2, <1>3, <1>11, <2>1, <2>2, <2>3 DEF InputInv, InputTypeOK
<1>15. ConfigInv'
  BY <1>1, <1>2 DEF InputInv, ConfigInv
<1> HIDE DEF given
<1>16. Unread # <<>> /\ Head(Unread) = e /\ Unread' = Tail(Unread) /\ Unread \in Seq(Event)
  <2>1. Unread = QP!MapSeq(buffer, U) /\ Unread' = QP!MapSeq(given, Tail(U))
    <3>1. Unread = QP!MapSeq(buffer, QP!Used(events, event_used))
      BY SameQueue DEF Unread, QP!MapSeq, QP!Used
    <3>2. Unread' = QP!MapSeq(given, QP!Used(q, next))
      BY <1>2, SameQueue DEF Unread, QP!MapSeq, QP!Used
    <3>3. QED
      BY <1>9, <3>1, <3>2 DEF U
  <2>2. QP!MapSeq(given, Tail(U)) = QP!MapSeq(buffer, Tail(U))
    <3> DEFINE V == Tail(U)
    <3>1. DOMAIN V = 1 .. Len(V) /\ \A k \in 1 .. Len(V) : V[k] \in QP!Desc
      BY <1>12
    <3>2. \A k \in 1 .. Len(V) : V[k] # h
      BY <1>7
    <3> HIDE DEF V
    <3>3. \A k \in DOMAIN V : given[V[k]] = buffer[V[k]]
      BY <1>1, <1>3, <3>1, <3>2 DEF given
    <3>4. V \in Seq(QP!Desc)
      BY <1>12 DEF V
    <3>5. QP!MapSeq(given, V) = QP!MapSeq(buffer, V)
      BY <3>3, <3>4, QP!MapSeqAgree, EventQueueNumAssumption, EventIdxSpaceAssumption
    <3>6. QED
      BY <3>5 DEF V
  <2>3. /\ QP!MapSeq(buffer, U) # <<>>
        /\ Head(QP!MapSeq(buffer, U)) = buffer[Head(U)]
        /\ Tail(QP!MapSeq(buffer, U)) = QP!MapSeq(buffer, Tail(U))
    BY <1>1, <1>4, <1>12, QP!MapSeqTail, EventQueueNumAssumption, EventIdxSpaceAssumption
  <2>4. QP!MapSeq(buffer, U) \in Seq(Event)
    BY <1>1, <1>12, QP!MapSeqIs, EventQueueNumAssumption, EventIdxSpaceAssumption
  <2>5. QED
    BY <1>4, <2>1, <2>2, <2>3, <2>4
<1> HIDE DEF e
<1>17. AfterUnread' = Believed(Applied(pressed, Head(Unread), codes), Tail(Unread), codes)
  BY <1>2, <1>16 DEF AfterUnread
<1>18. \A b \in Button : b \in AfterUnread' <=> b \in AfterUnread
  BY <1>1, <1>16, <1>17, BelievedTail DEF AfterUnread
<1>19. AgreeInv'
  BY <1>2, <1>18 DEF InputInv, AgreeInv, Known
<1>20. QED
  BY <1>13, <1>14, <1>15, <1>19 DEF InputInv

\* Before the driver is ready an event of the host goes nowhere.
LEMMA NothingSent ==
  ASSUME InputInv, ~input_ready, NEW entries \in Seq(Event), QueueEvents(entries)
  PROVE  Sent(entries) = <<>> /\ events' = events /\ buffer' = buffer
<1>1. Room = 0
  BY NothingUnread DEF InputInv
<1>2. Sent(entries) = <<>>
  <2>1. Len(entries) \in Nat /\ (Len(entries) = 0 => entries = <<>>)
        /\ SubSeq(entries, 1, 0) = <<>>
    OBVIOUS
  <2>2. QED
    BY <1>1, <2>1 DEF Sent
<1> DEFINE base == [q |-> events, buffer |-> buffer]
           s == <<>>
<1>3. base \in State
  BY TypeIsQueue DEF InputInv, InputQueueOK
<1>4. s \in Seq(Event) /\ Len(s) = 0
  OBVIOUS
<1>5. QueueEvents(entries) => /\ events' = FoldLeft(PutEvent, base, s).q
                              /\ buffer' = FoldLeft(PutEvent, base, s).buffer
  BY <1>2 DEF QueueEvents
<1> HIDE DEF base, s
<1>6. PICK st \in [0 .. Len(s) -> State] : st[0] = base /\ FoldLeft(PutEvent, base, s) = st[Len(s)]
  BY <1>3, <1>4, PutSteps, ZenonT(60)
<1>7. FoldLeft(PutEvent, base, s) = base
  BY <1>4, <1>6
<1>8. events' = base.q /\ buffer' = base.buffer
  BY <1>5, <1>7
<1>9. QED
  BY <1>2, <1>8 DEF base

\* An event of the host, sent before the driver is ready or after.
LEMMA HostSends ==
  ASSUME InputInv, NEW down, NEW entries \in Seq(Event), Tells(entries, down),
         QueueEvents(entries), UNCHANGED <<input_type, input_ready, config, driverVars>>,
         buttons_state' \in SUBSET Button, held' \in SUBSET Button, unsure' \in SUBSET Button
  PROVE  /\ InputTypeOK' /\ ConfigInv' /\ QueueInv'
         /\ \A b \in Button :
              b \in AfterUnread' <=> IF b \in CodesOf(Sent(entries)) THEN b \in down
                                     ELSE b \in AfterUnread
<1>1. UNCHANGED <<input_type, input_ready, config, asked, chosen, codes, event_used, pressed>>
  BY DEF driverVars
<1>2. InputQueueOK
  BY TypeIsQueue DEF InputInv
<1>3. InputQueueOK' /\ \A b \in Button :
        b \in AfterUnread' <=> IF b \in CodesOf(Sent(entries)) THEN b \in down ELSE b \in AfterUnread
  <2>1. CASE input_ready
    <3>1. Button \subseteq codes
      BY <2>1 DEF InputInv, ConfigInv
    <3>2. QED
      BY <1>1, <1>2, <2>1, <3>1, Sending
  <2>2. CASE ~input_ready
    <3>1. Sent(entries) = <<>> /\ events' = events /\ buffer' = buffer
      BY <2>2, NothingSent
    <3>2. InputQueueOK'
      BY <1>1, <1>2, <3>1 DEF InputQueueOK, HeadsApart
    <3>3. AfterUnread' = AfterUnread
      BY <1>1, <3>1 DEF AfterUnread, Unread
    <3>4. CodesOf(Sent(entries)) = {}
      BY <3>1 DEF CodesOf
    <3>5. QED
      BY <3>2, <3>3, <3>4
  <2>3. QED
    BY <2>1, <2>2
<1>4. ~input_ready => events' = events
  BY NothingSent
<1>5. InputTypeOK'
  <2>1. Q!QueueTypeOK(events)' /\ buffer' \in [Q!Desc -> Event]
    <3>1. [q |-> events, buffer |-> buffer]' \in State
      BY <1>3 DEF InputQueueOK
    <3>2. events' \in QP!QueueType /\ buffer' \in [QP!Desc -> Event]
      BY <3>1 DEF State
    <3>3. Q!QueueTypeOK(events') /\ Q!Desc = QP!Desc
      BY <3>2, SameQueue
    <3>4. QED
      BY <3>2, <3>3 DEF Q!QueueTypeOK
  <2>2. QED
    BY <1>1, <2>1 DEF InputInv, InputTypeOK
<1>6. ConfigInv'
  BY <1>1 DEF InputInv, ConfigInv
<1>7. QueueInv'
  BY <1>1, <1>3, <1>4 DEF InputInv, QueueInv, InputQueueOK, HeadsApart
<1>8. QED
  BY <1>3, <1>5, <1>6, <1>7

\* What two parts of an event say, both together say.
LEMMA TellsBoth ==
  ASSUME NEW down, NEW s \in Seq(Event), NEW t \in Seq(Event), Tells(s, down), Tells(t, down)
  PROVE  /\ s \o t \in Seq(Event) /\ Tells(s \o t, down)
         /\ CodesOf(s \o t) = CodesOf(s) \union CodesOf(t)
         /\ Len(s \o t) = Len(s) + Len(t)
<1> DEFINE u == s \o t
<1>1. /\ u \in Seq(Event) /\ Len(u) = Len(s) + Len(t) /\ DOMAIN u = 1 .. Len(s) + Len(t)
      /\ \A k \in 1 .. Len(s) : u[k] = s[k]
      /\ \A k \in 1 .. Len(t) : u[Len(s) + k] = t[k]
  OBVIOUS
<1>2. /\ Len(s) \in Nat /\ Len(t) \in Nat /\ DOMAIN s = 1 .. Len(s) /\ DOMAIN t = 1 .. Len(t)
  OBVIOUS
<1> HIDE DEF u
<1>3. \A k \in DOMAIN u : (k \in DOMAIN s /\ u[k] = s[k]) \/ (k - Len(s) \in DOMAIN t /\ u[k] = t[k - Len(s)])
  <2>1. SUFFICES ASSUME NEW k \in DOMAIN u, k \notin DOMAIN s
                 PROVE  k - Len(s) \in DOMAIN t /\ u[k] = t[k - Len(s)]
    BY <1>1, <1>2
  <2>2. k - Len(s) \in 1 .. Len(t) /\ Len(s) + (k - Len(s)) = k
    BY <1>1, <1>2, <2>1
  <2>3. QED
    BY <1>1, <1>2, <2>2
<1>4. Tells(u, down)
  BY <1>3 DEF Tells
<1>5. CodesOf(u) = CodesOf(s) \union CodesOf(t)
  <2>1. \A k \in DOMAIN u : u[k].code \in CodesOf(s) \union CodesOf(t)
    BY <1>3 DEF CodesOf
  <2>2. \A k \in DOMAIN s : s[k].code \in CodesOf(u)
    <3>1. \A k \in DOMAIN s : k \in DOMAIN u /\ u[k] = s[k]
      BY <1>1, <1>2
    <3>2. QED
      BY <3>1 DEF CodesOf
  <2>3. \A k \in DOMAIN t : t[k].code \in CodesOf(u)
    <3>1. \A k \in DOMAIN t : Len(s) + k \in DOMAIN u /\ u[Len(s) + k] = t[k]
      BY <1>1, <1>2
    <3>2. QED
      BY <3>1 DEF CodesOf
  <2>4. QED
    BY <2>1, <2>2, <2>3 DEF CodesOf
<1>6. QED
  BY <1>1, <1>4, <1>5 DEF u

\* What is sent of an event is as many of its first entries as there is room for.
LEMMA SentIsStart ==
  ASSUME InputInv, NEW s \in Seq(Event), NEW down, Tells(s, down)
  PROVE  /\ Room \in Nat
         /\ Sent(s) \in Seq(Event) /\ CodesOf(Sent(s)) \subseteq CodesOf(s)
         /\ \A j \in 1 .. Len(s) : j <= Room => s[j].code \in CodesOf(Sent(s))
<1>1. Room \in Nat
  <2>1. events.avail_idx \in Int /\ events.last_avail_idx \in Int /\ EventIdxSpace \in Nat \ {0}
    BY EventQueueNumAssumption, EventIdxSpaceAssumption, SameQueue
    DEF InputInv, InputTypeOK, QP!QueueType, QP!Idx
  <2>2. events.avail_idx - events.last_avail_idx \in Int
    BY <2>1
  <2>3. (events.avail_idx - events.last_avail_idx) % EventIdxSpace \in 0 .. EventIdxSpace - 1
    BY <2>1, <2>2, QP!Mod, EventQueueNumAssumption, EventIdxSpaceAssumption
  <2>4. QED
    BY <2>1, <2>3 DEF Room
<1>2. /\ Len(Sent(s)) = IF Len(s) <= Room THEN Len(s) ELSE Room
      /\ Sent(s) \in Seq(Event) /\ DOMAIN Sent(s) = 1 .. Len(Sent(s)) /\ Len(s) \in Nat
      /\ \A j \in 1 .. Len(Sent(s)) : j \in DOMAIN s /\ Sent(s)[j] = s[j]
  BY <1>1 DEF Sent
<1> DEFINE r == Sent(s)
<1> HIDE DEF r
<1>3. /\ Len(r) = IF Len(s) <= Room THEN Len(s) ELSE Room
      /\ DOMAIN r = 1 .. Len(r)
      /\ \A j \in 1 .. Len(r) : j \in DOMAIN s /\ r[j] = s[j]
  BY <1>2 DEF r
<1>4. CodesOf(r) \subseteq CodesOf(s)
  BY <1>3 DEF CodesOf
<1>5. ASSUME NEW j \in 1 .. Len(s), j <= Room
      PROVE  s[j].code \in CodesOf(r)
  <2>1. j \in DOMAIN r /\ r[j] = s[j]
    BY <1>1, <1>2, <1>3, <1>5
  <2>2. QED
    BY <2>1 DEF CodesOf
<1>6. QED
  BY <1>1, <1>2, <1>4, <1>5 DEF r

\* The entries of an event, and which of them are about a button.
LEMMA KeyIs ==
  ASSUME NEW b \in Button, NEW on \in BOOLEAN
  PROVE  /\ Key(b, on) \in Event /\ Key(b, on).code = b /\ (Key(b, on).value = 1 <=> on)
         /\ Syn \in Event /\ Wheel \in Event
         /\ Syn.code \notin Button /\ Wheel.code \notin Button
BY ButtonValues DEF Key, Event, Code, Syn, Wheel

\* A key of the keyboard.
LEMMA KeyStep ==
  ASSUME InputInv, NEW b \in UsedKey, NEW down \in BOOLEAN, send_key_event(b, down)
  PROVE  InputInv'
<1> DEFINE k == Key(b, down)
           entries == <<k, Syn>>
<1>1. b \in Button
  BY UsedAssumption
<1>2. /\ k \in Event /\ k.code = b /\ (k.value = 1 <=> down) /\ Syn \in Event /\ Syn.code \notin Button
  BY <1>1, KeyIs
<1>3. /\ input_type = "KEYBOARD" /\ QueueEvents(entries)
      /\ held' = IF down THEN held \union {b} ELSE held \ {b}
      /\ unsure' = IF Room = 0 THEN unsure \union {b} ELSE unsure \ {b}
      /\ UNCHANGED <<input_type, input_ready, buttons_state, config, driverVars>>
  BY DEF send_key_event
<1> HIDE DEF k
<1>4. /\ entries \in Seq(Event) /\ DOMAIN entries = {1, 2} /\ Len(entries) = 2
      /\ entries[1] = k /\ entries[2] = Syn
  BY <1>2
<1> HIDE DEF entries
<1>5. Tells(entries, held')
  BY <1>1, <1>2, <1>3, <1>4 DEF Tells
<1>6. /\ buttons_state \in SUBSET Button /\ held \in SUBSET Button /\ unsure \in SUBSET Button
      /\ input_type \in InputType
  BY DEF InputInv, InputTypeOK
<1>7. /\ InputTypeOK' /\ ConfigInv' /\ QueueInv'
      /\ \A c \in Button :
           c \in AfterUnread' <=> IF c \in CodesOf(Sent(entries)) THEN c \in held'
                                  ELSE c \in AfterUnread
  <2>1. held' \in SUBSET Button /\ unsure' \in SUBSET Button /\ buttons_state' \in SUBSET Button
    BY <1>1, <1>3, <1>6
  <2>2. UNCHANGED <<input_type, input_ready, config, driverVars>>
    BY <1>3
  <2>3. QED
    BY <1>3, <1>4, <1>5, <2>1, <2>2, HostSends
<1>8. /\ Room \in Nat /\ CodesOf(Sent(entries)) \subseteq CodesOf(entries)
      /\ \A j \in 1 .. Len(entries) : j <= Room => entries[j].code \in CodesOf(Sent(entries))
  BY <1>4, <1>5, SentIsStart
<1>9. \A c \in Button : c \in CodesOf(entries) => c = b
  BY <1>2, <1>4 DEF CodesOf
<1>10. Room # 0 => b \in CodesOf(Sent(entries))
  <2>1. SUFFICES ASSUME Room # 0 PROVE b \in CodesOf(Sent(entries))
    OBVIOUS
  <2>2. 1 \in 1 .. Len(entries) /\ 1 <= Room
    BY <1>4, <1>8, <2>1
  <2>3. QED
    BY <1>2, <1>4, <1>8, <2>2
<1>11. AgreeInv'
  <2>1. SUFFICES ASSUME NEW c \in Button, c \notin unsure'
                 PROVE  c \in AfterUnread' <=> c \in held'
    BY <1>3 DEF AgreeInv, Known
  <2>2. CASE c = b
    BY <1>3, <1>7, <1>10, <2>1, <2>2
  <2>3. CASE c # b
    <3>1. c \in AfterUnread' <=> c \in AfterUnread
      BY <1>7, <1>8, <1>9, <2>3
    <3>2. c \notin unsure /\ (c \in held <=> c \in held')
      BY <1>3, <2>1, <2>3
    <3>3. c \in AfterUnread <=> c \in held
      BY <1>3, <3>2 DEF InputInv, AgreeInv, Known
    <3>4. QED
      BY <3>1, <3>2, <3>3
  <2>4. QED
    BY <2>2, <2>3
<1>12. QED
  BY <1>7, <1>11 DEF InputInv

\* The mouse or the tablet.
LEMMA MouseStep ==
  ASSUME InputInv, NEW turned \in BOOLEAN, NEW buttons \in SUBSET UsedButton,
         send_mouse_event(turned, buttons)
  PROVE  InputInv'
<1> DEFINE Change(i) == LET b == buttons_list[i]
                        IN  IF (b \in buttons) # (b \in buttons_state)
                            THEN <<Key(b, b \in buttons)>> ELSE <<>>
           before == Moved(input_type) \o (IF turned THEN <<Wheel>> ELSE <<>>)
           keys == Change(1) \o Change(2) \o Change(3)
           entries == before \o keys \o <<Syn>>
           told == CodesOf(Sent(entries)) \intersect Button
           all == Len(before \o keys) <= Room
<1>1. /\ input_type \in {"MOUSE", "TABLET"} /\ QueueEvents(entries)
      /\ buttons_state' = IF all THEN buttons ELSE buttons_state
      /\ unsure' = IF all THEN unsure \ told ELSE unsure \union told
      /\ UNCHANGED <<input_type, input_ready, config, driverVars, held>>
  BY DEF send_mouse_event, NewButtons
<1>2. /\ buttons_state \in SUBSET Button /\ held \in SUBSET Button /\ unsure \in SUBSET Button
      /\ buttons \in SUBSET Button
  BY UsedAssumption DEF InputInv, InputTypeOK
<1>3. \A i \in 1 .. 3 : buttons_list[i] \in Button
  BY DEF Button, buttons_list, ToSet
<1>4. \A b \in Button : \E i \in 1 .. 3 : buttons_list[i] = b
  BY DEF Button, buttons_list, ToSet
<1>5. ASSUME NEW i \in 1 .. 3
      PROVE  /\ Change(i) \in Seq(Event) /\ Tells(Change(i), buttons)
             /\ (buttons_list[i] \in buttons) # (buttons_list[i] \in buttons_state) =>
                  buttons_list[i] \in CodesOf(Change(i))
  <2> DEFINE b == buttons_list[i]
             k == Key(b, b \in buttons)
  <2>1. b \in Button
    BY <1>3
  <2>2. k \in Event /\ k.code = b /\ (k.value = 1 <=> b \in buttons)
    <3>1. (b \in buttons) \in BOOLEAN
      OBVIOUS
    <3> HIDE DEF b
    <3>2. QED
      BY <2>1, <3>1, KeyIs
  <2> HIDE DEF b, k
  <2>3. /\ <<k>> \in Seq(Event) /\ DOMAIN <<k>> = {1} /\ <<k>>[1] = k
        /\ <<>> \in Seq(Event) /\ DOMAIN <<>> = {}
    BY <2>2
  <2>4. /\ Tells(<<k>>, buttons) /\ Tells(<<>>, buttons) /\ b \in CodesOf(<<k>>)
    BY <2>2, <2>3 DEF Tells, CodesOf
  <2>5. Change(i) = IF (b \in buttons) # (b \in buttons_state) THEN <<k>> ELSE <<>>
    BY DEF b, k
  <2> HIDE DEF Change
  <2>6. QED
    BY <2>3, <2>4, <2>5 DEF b
<1> HIDE DEF Change
<1>6. /\ keys \in Seq(Event) /\ Tells(keys, buttons)
      /\ \A b \in Button : (b \in buttons) # (b \in buttons_state) => b \in CodesOf(keys)
  <2> DEFINE one == Change(1)
             two == Change(2)
             three == Change(3)
             both == one \o two
  <2>1. /\ one \in Seq(Event) /\ Tells(one, buttons) /\ two \in Seq(Event) /\ Tells(two, buttons)
        /\ three \in Seq(Event) /\ Tells(three, buttons)
    BY <1>5
  <2>2. keys = both \o three
    OBVIOUS
  <2> HIDE DEF one, two, three, keys
  <2>3. both \in Seq(Event) /\ Tells(both, buttons) /\ CodesOf(both) = CodesOf(one) \union CodesOf(two)
    BY <2>1, TellsBoth
  <2> HIDE DEF both
  <2>4. /\ keys \in Seq(Event) /\ Tells(keys, buttons)
        /\ CodesOf(keys) = CodesOf(both) \union CodesOf(three)
    BY <2>1, <2>2, <2>3, TellsBoth
  <2>5. \A i \in 1 .. 3 : CodesOf(Change(i)) \subseteq CodesOf(keys)
    BY <2>3, <2>4 DEF one, two, three
  <2>6. QED
    BY <1>4, <1>5, <2>4, <2>5
<1> HIDE DEF keys
<1>7. /\ before \in Seq(Event) /\ Tells(before, buttons) /\ Len(before) >= 1
  <2> DEFINE move == Moved(input_type)
             wheel == IF turned THEN <<Wheel>> ELSE <<>>
             e1 == IF input_type = "MOUSE" THEN [code |-> "REL_X", value |-> 0]
                   ELSE [code |-> "ABS_X", value |-> 0]
             e2 == IF input_type = "MOUSE" THEN [code |-> "REL_Y", value |-> 0]
                   ELSE [code |-> "ABS_Y", value |-> 0]
  <2>1. /\ e1 \in Event /\ e2 \in Event /\ e1.code \notin Button /\ e2.code \notin Button
        /\ Wheel \in Event /\ Wheel.code \notin Button
    BY ButtonValues DEF Event, Code, Wheel
  <2>2. move = <<e1, e2>>
    BY DEF Moved
  <2> HIDE DEF e1, e2
  <2>3. /\ <<e1, e2>> \in Seq(Event) /\ DOMAIN <<e1, e2>> = {1, 2} /\ Len(<<e1, e2>>) = 2
        /\ <<e1, e2>>[1] = e1 /\ <<e1, e2>>[2] = e2
    BY <2>1
  <2>4. /\ <<Wheel>> \in Seq(Event) /\ DOMAIN <<Wheel>> = {1} /\ <<Wheel>>[1] = Wheel
        /\ <<>> \in Seq(Event) /\ DOMAIN <<>> = {}
    BY <2>1
  <2> HIDE DEF move
  <2>5. move \in Seq(Event) /\ Tells(move, buttons) /\ Len(move) = 2
    BY <2>1, <2>2, <2>3 DEF Tells
  <2>6. wheel \in Seq(Event) /\ Tells(wheel, buttons)
    BY <2>1, <2>4 DEF Tells
  <2>7. before = move \o wheel
    BY DEF move
  <2> HIDE DEF wheel, before
  <2>8. before \in Seq(Event) /\ Tells(before, buttons) /\ Len(before) = Len(move) + Len(wheel)
    BY <2>5, <2>6, <2>7, TellsBoth
  <2>9. Len(wheel) \in Nat
    BY <2>6
  <2>10. QED
    BY <2>5, <2>8, <2>9
<1> HIDE DEF before
<1> DEFINE said == before \o keys
<1>8. /\ said \in Seq(Event) /\ Tells(said, buttons) /\ Len(said) >= 1 /\ Len(said) \in Nat
      /\ CodesOf(said) = CodesOf(before) \union CodesOf(keys)
  <2>1. /\ said \in Seq(Event) /\ Tells(said, buttons) /\ Len(said) = Len(before) + Len(keys)
        /\ CodesOf(said) = CodesOf(before) \union CodesOf(keys)
    BY <1>6, <1>7, TellsBoth
  <2>2. Len(keys) \in Nat /\ Len(before) \in Nat
    BY <1>6, <1>7
  <2>3. QED
    BY <1>7, <2>1, <2>2
<1>9. /\ entries \in Seq(Event) /\ Tells(entries, buttons) /\ Len(entries) = Len(said) + 1
      /\ \A j \in 1 .. Len(said) : entries[j] = said[j]
  <2> DEFINE last == <<Syn>>
  <2>1. Syn \in Event /\ Syn.code \notin Button
    BY ButtonValues DEF Event, Code, Syn
  <2>2. last \in Seq(Event) /\ DOMAIN last = {1} /\ last[1] = Syn /\ Len(last) = 1
    BY <2>1
  <2> HIDE DEF last
  <2>3. Tells(last, buttons)
    BY <2>1, <2>2 DEF Tells
  <2>4. entries = said \o last
    BY DEF last
  <2> HIDE DEF said, entries
  <2>5. /\ entries \in Seq(Event) /\ Tells(entries, buttons) /\ Len(entries) = Len(said) + Len(last)
    BY <1>8, <2>2, <2>3, <2>4, TellsBoth
  <2>6. \A j \in 1 .. Len(said) : (said \o last)[j] = said[j]
    <3>1. said \in Seq(Event)
      BY <1>8
    <3>2. QED
      BY <2>2, <3>1
  <2>7. QED
    BY <2>2, <2>4, <2>5, <2>6
<1> HIDE DEF entries, told
<1>10. all <=> Len(said) <= Room
  OBVIOUS
<1> HIDE DEF said, all
<1>11. /\ Room \in Nat /\ CodesOf(Sent(entries)) \subseteq CodesOf(entries)
       /\ \A j \in 1 .. Len(entries) : j <= Room => entries[j].code \in CodesOf(Sent(entries))
  BY <1>9, SentIsStart
<1>12. all => CodesOf(said) \subseteq CodesOf(Sent(entries))
  <2>1. SUFFICES ASSUME all, NEW j \in DOMAIN said
                 PROVE  said[j].code \in CodesOf(Sent(entries))
    BY DEF CodesOf
  <2>2. j \in 1 .. Len(said) /\ j \in 1 .. Len(entries) /\ j <= Room
    BY <1>8, <1>9, <1>10, <1>11, <2>1
  <2>3. QED
    BY <1>9, <1>11, <2>2
<1>13. /\ InputTypeOK' /\ ConfigInv' /\ QueueInv'
       /\ \A b \in Button :
            b \in AfterUnread' <=> IF b \in CodesOf(Sent(entries)) THEN b \in buttons
                                   ELSE b \in AfterUnread
  <2>1. held' \in SUBSET Button /\ unsure' \in SUBSET Button /\ buttons_state' \in SUBSET Button
    BY <1>1, <1>2 DEF told
  <2>2. UNCHANGED <<input_type, input_ready, config, driverVars>>
    BY <1>1
  <2>3. QED
    BY <1>1, <1>9, <2>1, <2>2, HostSends
<1>14. AgreeInv'
  <2>1. SUFFICES ASSUME NEW b \in Button, b \notin unsure'
                 PROVE  b \in AfterUnread' <=> b \in buttons_state'
    BY <1>1 DEF AgreeInv, Known
  <2>2. b \notin unsure => (b \in AfterUnread <=> b \in buttons_state)
    BY <1>1 DEF InputInv, AgreeInv, Known
  <2>3. b \in told <=> b \in CodesOf(Sent(entries))
    BY DEF told
  <2>4. CASE all /\ b \in told
    BY <1>1, <1>13, <2>3, <2>4
  <2>5. CASE all /\ b \notin told
    <3>1. b \in buttons <=> b \in buttons_state
      BY <1>6, <1>8, <1>12, <2>3, <2>5
    <3>2. b \notin unsure
      BY <1>1, <2>1, <2>5
    <3>3. QED
      BY <1>1, <1>13, <2>2, <2>3, <2>5, <3>1, <3>2
  <2>6. CASE ~all
    BY <1>1, <1>13, <2>1, <2>2, <2>3, <2>6
  <2>7. QED
    BY <2>4, <2>5, <2>6
<1>15. QED
  BY <1>13, <1>14 DEF InputInv

\* Every step keeps the invariant.
LEMMA InputStep ==
  ASSUME InputInv, [InputNext]_inputVars
  PROVE  InputInv'
<1>1. CASE Select \/ ReadAnswer
  BY <1>1, ConfigStep, AskingAgrees DEF InputInv
<1>2. CASE SetupEvents
  BY <1>2, SetupStep
<1>3. CASE ResetInput
  BY <1>3, ResetStep
<1>4. CASE ReadEvent
  BY <1>4, ReadEventStep
<1>5. ASSUME NEW b \in UsedKey, NEW down \in BOOLEAN, send_key_event(b, down)
      PROVE  InputInv'
  BY <1>5, KeyStep
<1>6. ASSUME NEW turned \in BOOLEAN, NEW buttons \in SUBSET UsedButton,
             send_mouse_event(turned, buttons)
      PROVE  InputInv'
  BY <1>6, MouseStep
<1>7. CASE UNCHANGED inputVars
  BY <1>7 DEF inputVars, InputInv, InputTypeOK, ConfigInv, QueueInv, AgreeInv, HeadsApart,
     AfterUnread, Unread, Known, Q!QueueTypeOK
<1>8. QED
  BY <1>1, <1>2, <1>3, <1>4, <1>5, <1>6, <1>7 DEF InputNext

\* The types: what the device writes into its queue and answers from its configuration
\* space, and what the driver makes of both, stay what they should be.
THEOREM InputTypeCorrect == InputSpec => []InputTypeOK
<1>1. InputInit => InputInv
  BY InputInitInv
<1>2. InputInv /\ [InputNext]_inputVars => InputInv'
  BY InputStep
<1>3. InputInv => InputTypeOK
  BY DEF InputInv
<1>4. QED
  BY <1>1, <1>2, <1>3, PTL DEF InputSpec

\* Whatever the host does and however far behind the driver is, what it believes of
\* the buttons once it has read its queue is what the device does, those cut short
\* and those of before a reset left out (virtio_input_send_mouse_event,
\* virtio_input_send_key_event, virtio_input_config_write).
THEOREM ButtonsStayAgreed == InputSpec => []ButtonsAgree
<1>1. InputInit => InputInv
  BY InputInitInv
<1>2. InputInv /\ [InputNext]_inputVars => InputInv'
  BY InputStep
<1>3. InputInv => ButtonsAgree
  BY DEF InputInv, AgreeInv, Known, ButtonsAgree
<1>4. QED
  BY <1>1, <1>2, <1>3, PTL DEF InputSpec

-----------------------------------------------------------------------------
(* The block device.                                                       *)

BfType == [mode : Mode \union {"NET"}, file : [Sector -> Data],
           sector_table : [Sector -> Data \union {NULL}]]

LEMMA BfReadType ==
  ASSUME NEW dev \in BfType, NEW s \in Sector, NEW n \in Nat, s + n <= NbSectors
  PROVE  /\ BfRead(dev, s, n) \in Seq(Data)
         /\ BfRead(dev, s, n)
              = [i \in 1 .. n |-> [t \in Sector |-> BfSector(dev, t)][s + i - 1]]
<1>1. ASSUME NEW i \in 1 .. n
      PROVE  s + i - 1 \in Sector
  BY NbSectorsAssumption DEF Sector
<1>2. \A t \in Sector : BfSector(dev, t) \in Data
  BY DEF BfSector, BfType
<1>3. QED
  BY <1>1, <1>2 DEF BfRead

LEMMA BfWriteType ==
  ASSUME NEW dev \in BfType, NEW s \in Sector, NEW data \in Seq(Data)
  PROVE  /\ BfWrite(dev, s, data) \in BfType
         /\ BfWrite(dev, s, data).mode = dev.mode
         /\ dev.mode \in {"RO", "SNAPSHOT"} => BfWrite(dev, s, data).file = dev.file
<1> DEFINE Overwritten(f) == Overwrite(f, s, data)
<1>1. ASSUME NEW t \in s .. s + Len(data) - 1
      PROVE  data[t - s + 1] \in Data
  BY <1>1 DEF Sector
<1>2. Overwritten(dev.file) \in [Sector -> Data]
  BY <1>1 DEF Overwrite, BfType
<1>3. Overwritten(dev.sector_table) \in [Sector -> Data \union {NULL}]
  BY <1>1 DEF Overwrite, BfType
<1>4. CASE BfWriteFails(dev, s, data)
  BY <1>4 DEF BfWrite
<1>5. CASE ~BfWriteFails(dev, s, data) /\ dev.mode = "SNAPSHOT"
  <2>1. BfWrite(dev, s, data) = [dev EXCEPT !.sector_table = Overwritten(dev.sector_table)]
    BY <1>5 DEF BfWrite
  <2> HIDE DEF Overwritten
  <2>2. QED
    BY <2>1, <1>3 DEF BfType
<1>6. CASE ~BfWriteFails(dev, s, data) /\ dev.mode # "SNAPSHOT"
  <2>1. BfWrite(dev, s, data) = [dev EXCEPT !.file = Overwritten(dev.file)]
    BY <1>6 DEF BfWrite
  <2>2. dev.mode # "RO"
    BY <1>6 DEF BfWriteFails
  <2> HIDE DEF Overwritten
  <2>3. QED
    BY <1>6, <2>1, <2>2, <1>2 DEF BfType
<1>7. QED
  BY <1>4, <1>5, <1>6

-----------------------------------------------------------------------------
(* Types.                                                                  *)

\* What a request that is not free looks like.
LEMMA KnownRequest ==
  ASSUME NEW r \in Requests \union {NoRequest}, r.type \in RequestType
  PROVE  /\ r \in Requests
         /\ r.sector \in Sector /\ r.n \in Nat /\ r.data \in Seq(Data)
         /\ r.sector + r.n <= NbSectors
         /\ r.type = "OUT" => Len(r.data) = r.n
<1>1. NoRequest.type \notin RequestType
  BY DEF NoRequest, RequestType
<1>2. r \in Requests
  BY <1>1
<1>3. QED
  BY <1>2, RequestsAssumption

LEMMA TypeStep ==
  ASSUME TypeOK, [Next]_vars
  PROVE  TypeOK'
<1> USE DEF QueueTypeOK, BfTypeOK
<1> queue \in QueueType /\ bf \in BfType
  BY DEF TypeOK, QueueType, BfType
<1>0. /\ NextDesc(queue) \in Desc /\ req_desc \in Desc /\ 0 \in Idx
      /\ last_used \in Idx /\ NextIdx(last_used) \in Idx
      /\ UsedDesc(queue, last_used) \in Desc
  BY QueueOperators, Indices DEF TypeOK
<1>a. ASSUME NEW q \in QueueType, NEW h \in Desc, NEW status \in {"OK", "IOERR"},
             NEW data \in Seq(Data), ReqEnd(q, h, status, data)
      PROVE  queue' \in QueueType /\ result' \in [Desc -> Result]
  <2>1. queue' \in QueueType
    BY <1>a, QueueOperators DEF ReqEnd
  <2>2. [status |-> status, data |-> data] \in Result
    BY DEF Result
  <2>3. result' \in [Desc -> Result]
    BY <1>a, <2>2 DEF ReqEnd, TypeOK
  <2>4. QED
    BY <2>1, <2>3
<1>c. NoResult \in Result /\ <<>> \in Seq(Data)
  BY DEF NoResult, Result
<1>b. Advance(queue) \in QueueType
  BY <1>0, QueueOperators
<1>1. CASE Driver
  <2>1. CASE Reset
    BY <2>1, <1>0, <1>c, QueueOperators DEF Reset, TypeOK, QueueType, BfType
  <2>2. CASE Setup
    BY <2>2, <1>0, QueueOperators DEF Setup, TypeOK, QueueType, BfType
  <2>3. ASSUME NEW h \in Desc, NEW r \in Requests, Submit(h, r)
        PROVE  TypeOK'
    <3>1. queue' \in QueueType
      BY <2>3, QueueOperators DEF Submit
    <3>2. request' \in [Desc -> Requests \union {NoRequest}]
      BY <2>3 DEF Submit, TypeOK
    <3>3. QED
      BY <2>3, <3>1, <3>2 DEF Submit, TypeOK, QueueType, BfType
  <2>4. CASE Notify \/ ReapDone
    BY <2>4 DEF Notify, ReapDone, TypeOK
  <2>5. CASE Ack
    <3>1. queue' \in QueueType
      BY <2>5, <1>0, QueueOperators DEF Ack
    <3>2. QED
      BY <2>5, <3>1 DEF Ack, TypeOK, QueueType, BfType
  <2>6. CASE Reap
    <3>1. request' \in [Desc -> Requests \union {NoRequest}]
      BY <2>6, <1>0 DEF Reap, TypeOK
    <3>2. result' \in [Desc -> Result]
      BY <2>6, <1>0, <1>c DEF Reap, TypeOK
    <3>3. QED
      BY <2>6, <1>0, <3>1, <3>2 DEF Reap, TypeOK
  <2>7. QED
    BY <1>1, <2>1, <2>2, <2>3, <2>4, <2>5, <2>6 DEF Driver
<1>2. CASE SkipBad \/ TakeOther \/ Later
  <2>1. queue' \in QueueType
    BY <1>2, <1>b DEF SkipBad, TakeOther, Later
  <2>2. QED
    BY <1>2, <2>1, <1>0 DEF SkipBad, TakeOther, Later, TypeOK, QueueType, BfType, driver
<1>3. CASE Refuse \/ NotifyDone
  BY <1>3 DEF Refuse, NotifyDone, TypeOK, driver
<1>4. CASE ReadNow
  <2>1. BfRead(bf, Taken.sector, Taken.n) \in Seq(Data)
    BY <1>4, <1>0, KnownRequest, BfReadType
       DEF ReadNow, Taking, Taken, TypeOK, RequestType
  <2>2. queue' \in QueueType /\ result' \in [Desc -> Result]
    BY <1>4, <1>0, <1>a, <1>b, <2>1 DEF ReadNow
  <2>3. QED
    BY <1>4, <1>0, <2>2 DEF ReadNow, TypeOK, QueueType, BfType, driver
<1>5. CASE WriteNow
  <2>1. Taken.sector \in Sector /\ Taken.data \in Seq(Data)
    BY <1>5, <1>0, KnownRequest DEF WriteNow, Taking, Taken, TypeOK, RequestType
  <2>2. bf' \in BfType
    BY <1>5, <2>1, BfWriteType DEF WriteNow
  <2>3. queue' \in QueueType /\ result' \in [Desc -> Result]
    BY <1>5, <1>0, <1>a, <1>b, <1>c DEF WriteNow
  <2>4. QED
    BY <1>5, <2>2, <2>3, <1>0 DEF WriteNow, TypeOK, QueueType, BfType, driver
<1>6. CASE Callback
  <2>1. queue' \in QueueType /\ result' \in [Desc -> Result]
    <3> DEFINE r == request[req_desc]
    <3>1. CASE r.type = "IN"
      <4>1. BfRead(bf, r.sector, r.n) \in Seq(Data)
        BY <3>1, <1>0, KnownRequest, BfReadType DEF TypeOK, RequestType
      <4>2. QED
        BY <1>6, <3>1, <4>1, <1>0, <1>a DEF Callback, Completed
    <3>2. CASE r.type = "OUT"
      BY <1>6, <3>2, <1>0, <1>a, <1>c DEF Callback, Completed
    <3>3. QED
      BY <1>6, <3>1, <3>2 DEF Callback, Completed
  <2>2. bf' \in BfType
    <3>1. CASE request[req_desc].type = "IN"
      BY <1>6, <3>1 DEF Callback, Completed
    <3>2. CASE request[req_desc].type = "OUT"
      <4> DEFINE r == request[req_desc]
      <4>1. r.sector \in Sector /\ r.n \in Nat
        BY <3>2, <1>0, KnownRequest DEF TypeOK, RequestType
      <4>2. PICK data \in [1 .. r.n -> Data] : bf' = BfWrite(bf, r.sector, data)
        BY <1>6, <3>2 DEF Callback, Completed
      <4>3. data \in Seq(Data)
            BY <4>1
      <4>4. QED
        BY <4>1, <4>2, <4>3, BfWriteType
    <3>3. QED
      BY <1>6, <3>1, <3>2 DEF Callback, Completed
  <2>3. QED
    BY <1>6, <2>1, <2>2, <1>0 DEF Callback, TypeOK, QueueType, BfType, driver
<1>7. CASE UNCHANGED vars
  BY <1>7 DEF vars, TypeOK
<1>8. QED
  BY <1>1, <1>2, <1>3, <1>4, <1>5, <1>6, <1>7 DEF Next, QueueNotify

LEMMA TypeInit ==
  ASSUME Init
  PROVE  TypeOK
<1>1. queue \in QueueType
  BY Indices DEF Init, QueueInit, QueueType, Head0
<1>2. bf \in BfType
  BY DEF Init, BfInit, BfType
<1>3. result \in [Desc -> Result]
  BY DEF Init, NoResult, Result
<1>4. QED
  BY <1>1, <1>2, <1>3, Indices
     DEF Init, TypeOK, QueueTypeOK, BfTypeOK, QueueType, BfType, Head0

\* Rings, device and driver keep their types: no index leaves its range and
\* every head is a descriptor (virtio_consume_desc, queue_notify).
THEOREM TypeCorrect == Spec => []TypeOK
BY TypeInit, TypeStep, PTL DEF Spec

-----------------------------------------------------------------------------
(* Requests are not left in the queue.                                     *)

\* Before the driver has set up the queue nothing goes on.
QueueIdle ==
  ~ready => /\ queue.last_avail_idx = 0
            /\ at = "guest" /\ ~to_notify /\ ~req_in_progress

NotStalled == TypeOK /\ QueueIdle /\ NoStalledRequest

LEMMA NotStalledStep ==
  ASSUME NotStalled, [Next]_vars
  PROVE  (QueueIdle /\ NoStalledRequest)'
<1> queue \in QueueType
  BY DEF NotStalled, TypeOK, QueueTypeOK, QueueType
<1> USE DEF NotStalled, QueueIdle, NoStalledRequest, HasAvail
<1>1. CASE Reset
  BY <1>1 DEF Reset, VirtioReset, QueueType
<1>2. CASE Setup
  BY <1>2 DEF Setup, EmptyRings, QueueType
<1>3. ASSUME NEW h \in Desc, NEW r \in Requests, Submit(h, r)
      PROVE  (QueueIdle /\ NoStalledRequest)'
  BY <1>3 DEF Submit
<1>4. CASE Notify \/ Reap \/ ReapDone
  BY <1>4 DEF Notify, Reap, ReapDone
<1>5. CASE Ack
  BY <1>5 DEF Ack, InterruptAck, QueueType
<1>6. CASE SkipBad \/ TakeOther \/ Later \/ ReadNow \/ WriteNow
  BY <1>6 DEF SkipBad, TakeOther, Later, ReadNow, WriteNow, Taking, driver
<1>7. CASE Refuse \/ NotifyDone
  BY <1>7 DEF Refuse, NotifyDone, Taking, driver
<1>8. CASE Callback
  BY <1>8 DEF Callback, driver
<1>9. CASE UNCHANGED vars
  BY <1>9 DEF vars
<1>10. QED
  BY <1>1, <1>2, <1>3, <1>4, <1>5, <1>6, <1>7, <1>8, <1>9 DEF Next, Driver, QueueNotify

\* An entry the driver has notified is left in the avail ring only behind a
\* request in progress: the loop of queue_notify ends at no other, and the
\* callback enters it again (virtio_block_req_cb).
THEOREM NoRequestStalls == Spec => []NoStalledRequest
<1>1. Init => QueueIdle /\ NoStalledRequest
  BY DEF Init, QueueInit, QueueIdle, NoStalledRequest
<1>2. TypeOK /\ (QueueIdle /\ NoStalledRequest) /\ [Next]_vars
        => (QueueIdle /\ NoStalledRequest)'
  BY NotStalledStep DEF NotStalled
<1>3. QED
  BY <1>1, <1>2, TypeCorrect, PTL DEF Spec

-----------------------------------------------------------------------------
(* The interrupt.                                                          *)

LEMMA InterruptStep ==
  ASSUME TypeOK, InterruptUntilSeen, [Next]_vars
  PROVE  InterruptUntilSeen'
<1> queue \in QueueType
  BY DEF TypeOK, QueueTypeOK, QueueType
<1> USE DEF InterruptUntilSeen
<1>1. CASE Reset
  BY <1>1 DEF Reset, VirtioReset, QueueType
<1>2. CASE Setup
  BY <1>2 DEF Setup, EmptyRings, QueueType
<1>3. ASSUME NEW h \in Desc, NEW r \in Requests, Submit(h, r)
      PROVE  InterruptUntilSeen'
  BY <1>3 DEF Submit, AddAvail, QueueType
<1>4. CASE Notify \/ Reap \/ ReapDone
  BY <1>4 DEF Notify, Reap, ReapDone
<1>5. CASE Ack
  <2>1. /\ queue'.irq <=> queue'.int_status # {}
        /\ handler' = "reaping"
    BY <1>5 DEF Ack, InterruptAck, QueueType
  <2>2. QED
    BY <2>1
<1>6. CASE SkipBad \/ TakeOther \/ Later
  BY <1>6 DEF SkipBad, TakeOther, Later, Advance, QueueType, driver
<1>7. CASE Refuse \/ NotifyDone
  BY <1>7 DEF Refuse, NotifyDone, driver
<1>8. CASE ReadNow \/ WriteNow \/ Callback
  <2>1. PICK q \in QueueType, h \in Desc : queue' = ConsumeDesc(q, h)
    <3>1. Advance(queue) \in QueueType /\ NextDesc(queue) \in Desc /\ req_desc \in Desc
      BY QueueOperators, Indices DEF TypeOK
    <3>2. QED
      BY <1>8, <3>1 DEF ReadNow, WriteNow, Callback, Completed, ReqEnd
  <2>2. queue'.irq = TRUE /\ queue'.int_status # {}
    BY <2>1 DEF ConsumeDesc, QueueType
  <2>3. QED
    BY <2>2
<1>9. CASE UNCHANGED vars
  BY <1>9 DEF vars
<1>10. QED
  BY <1>1, <1>2, <1>3, <1>4, <1>5, <1>6, <1>7, <1>8, <1>9 DEF Next, Driver, QueueNotify

\* Entries of the used ring that the driver has not seen keep the line up,
\* or its handler is about to see them (virtio_consume_desc, InterruptAck).
THEOREM InterruptStaysUp == Spec => []InterruptUntilSeen
<1>1. Init => InterruptUntilSeen
  BY DEF Init, QueueInit, InterruptUntilSeen
<1>2. QED
  BY <1>1, InterruptStep, TypeCorrect, PTL DEF Spec

-----------------------------------------------------------------------------
(* The file.                                                               *)

LEMMA FileStep ==
  ASSUME TypeOK, [Next]_vars, bf.mode \in {"RO", "SNAPSHOT"}
  PROVE  bf'.file = bf.file
<1> bf \in BfType
  BY DEF TypeOK, BfTypeOK, BfType
<1>1. CASE WriteNow
  <2>1. Taken.sector \in Sector /\ Taken.data \in Seq(Data)
    <3>1. NextDesc(queue) \in Desc
      BY QueueOperators, Indices DEF TypeOK, QueueTypeOK, QueueType
    <3>2. QED
      BY <1>1, <3>1, KnownRequest DEF WriteNow, Taking, Taken, TypeOK, RequestType
  <2>2. QED
    BY <1>1, <2>1, BfWriteType DEF WriteNow
<1>2. CASE Callback
  <2>1. CASE request[req_desc].type = "IN"
    BY <1>2, <2>1 DEF Callback, Completed
  <2>2. CASE request[req_desc].type = "OUT"
    <3> DEFINE r == request[req_desc]
    <3>1. r.sector \in Sector /\ r.n \in Nat
      BY <2>2, KnownRequest DEF TypeOK, RequestType
    <3>2. PICK data \in [1 .. r.n -> Data] : bf' = BfWrite(bf, r.sector, data)
      BY <1>2, <2>2 DEF Callback, Completed
    <3>3. data \in Seq(Data)
      BY <3>1
    <3>4. QED
      BY <3>1, <3>2, <3>3, BfWriteType
  <2>3. QED
    BY <1>2, <2>1, <2>2 DEF Callback, Completed
<1>3. CASE Driver
  BY <1>3 DEF Driver, Reset, Setup, Submit, Notify, Ack, Reap, ReapDone
<1>4. CASE SkipBad \/ Refuse \/ TakeOther \/ ReadNow \/ Later \/ NotifyDone
  BY <1>4 DEF SkipBad, Refuse, TakeOther, ReadNow, Later, NotifyDone
<1>5. CASE UNCHANGED vars
  BY <1>5 DEF vars
<1>6. QED
  BY <1>1, <1>2, <1>3, <1>4, <1>5 DEF Next, QueueNotify

\* No request changes the file of a device opened read-only or as a
\* snapshot (bf_write_async).
THEOREM FileStaysUntouched == Spec => FileUntouched
<1>1. TypeOK /\ [Next]_vars
        => [bf.mode \in {"RO", "SNAPSHOT"} => bf'.file = bf.file]_vars
  BY FileStep
<1>2. QED
  BY <1>1, TypeCorrect, PTL DEF Spec, FileUntouched


NoTable(dev) == dev.mode # "SNAPSHOT" => \A t \in Sector : dev.sector_table[t] = NULL

LEMMA BfWriteDisk ==
  ASSUME NEW dev \in BfType, NoTable(dev), NEW s \in Sector, NEW data \in Seq(Data),
         s + Len(data) <= NbSectors
  PROVE  /\ BfWriteFails(dev, s, data) <=> dev.mode = "RO"
         /\ NoTable(BfWrite(dev, s, data))
         /\ \A t \in Sector :
              BfSector(BfWrite(dev, s, data), t)
                = IF dev.mode # "RO" /\ t \in s .. s + Len(data) - 1
                  THEN data[t - s + 1] ELSE BfSector(dev, t)
<1> DEFINE new == BfWrite(dev, s, data)
           Within(t) == t \in s .. s + Len(data) - 1
<1>1. BfWriteFails(dev, s, data) <=> dev.mode = "RO"
  BY NbSectorsAssumption DEF BfWriteFails, Sector
<1>2. \A t \in Sector : Within(t) => data[t - s + 1] \in Data /\ data[t - s + 1] # NULL
  <2> SUFFICES ASSUME NEW t \in Sector, Within(t)
               PROVE  data[t - s + 1] \in Data
    BY DataAssumption
  <2>1. t - s + 1 \in 1 .. Len(data)
    BY DEF Sector
  <2>2. QED
    BY <2>1
<1>3. CASE dev.mode = "RO"
  BY <1>1, <1>3 DEF BfWrite
<1>4. CASE dev.mode = "SNAPSHOT"
  <2>1. new = [dev EXCEPT !.sector_table = Overwrite(dev.sector_table, s, data)]
    BY <1>1, <1>4 DEF BfWrite
  <2>2. new.mode = dev.mode /\ new.file = dev.file
        /\ new.sector_table = Overwrite(dev.sector_table, s, data)
    BY <2>1 DEF BfType
  <2>3. \A t \in Sector : Overwrite(dev.sector_table, s, data)[t]
          = IF Within(t) THEN data[t - s + 1] ELSE dev.sector_table[t]
    BY DEF Overwrite, BfType
  <2> HIDE DEF new, Within
  <2>4. \A t \in Sector : BfSector(new, t) = IF Within(t) THEN data[t - s + 1] ELSE BfSector(dev, t)
    BY <1>2, <2>2, <2>3 DEF BfSector
  <2>5. QED
    BY <1>1, <1>4, <2>2, <2>4 DEF NoTable, new, Within
<1>5. CASE dev.mode # "RO" /\ dev.mode # "SNAPSHOT"
  <2>1. new = [dev EXCEPT !.file = Overwrite(dev.file, s, data)]
    BY <1>1, <1>5 DEF BfWrite
  <2>2. new.mode = dev.mode /\ new.sector_table = dev.sector_table
        /\ new.file = Overwrite(dev.file, s, data)
    BY <2>1 DEF BfType
  <2>3. \A t \in Sector : Overwrite(dev.file, s, data)[t]
          = IF Within(t) THEN data[t - s + 1] ELSE dev.file[t]
    BY DEF Overwrite, BfType
  <2> HIDE DEF new, Within
  <2>4. \A t \in Sector : BfSector(new, t) = IF Within(t) THEN data[t - s + 1] ELSE BfSector(dev, t)
    BY <1>5, <2>2, <2>3 DEF BfSector, NoTable
  <2>5. QED
    BY <1>1, <1>5, <2>2, <2>4 DEF NoTable, new, Within
<1>6. QED
  BY <1>3, <1>4, <1>5

-----------------------------------------------------------------------------
(* The disk that rings and device are.                                     *)

\* The heads the driver uses, and the one the device keeps.
Owned(req) == {h \in Desc : req[h] # NoRequest}
InProgress == IF req_in_progress THEN {req_desc} ELSE {}

Tags == [h \in Desc |-> [tag |-> h, req |-> request[h]]]
Results == [h \in Desc |-> [tag |-> h, result |-> result[h]]]

\* The variables of Disk, as ImplementsDisk maps them.
DiskNow == [s \in Sector |-> BfSector(bf, s)]
Pending == IF ready THEN MapSeq(Tags, Avail(queue)) ELSE <<>>
Current == IF req_in_progress
           THEN [tag |-> req_desc, req |-> request[req_desc]] ELSE NoneCurrent
Answers == IF ready THEN MapSeq(Results, Used(queue, last_used)) ELSE <<>>

HeadsInv ==
  /\ ~ready => handler = "idle" /\ ~queue.irq /\ \A h \in Desc : request[h] = NoRequest
  /\ ready => HeadsOK(Avail(queue), Used(queue, last_used), InProgress, Owned(request))
  /\ req_in_progress => bf.mode = "NET" /\ request[req_desc].type \in {"IN", "OUT"}
  /\ NoTable(bf)

DiskInv == TypeOK /\ QueueIdle /\ HeadsInv

LEMMA TagTypes ==
  ASSUME TypeOK
  PROVE  /\ Tags \in [Desc -> [tag : Desc, req : Requests \union {NoRequest}]]
         /\ Results \in [Desc -> [tag : Desc, result : Result]]
         /\ queue \in QueueType /\ last_used \in Idx /\ bf \in BfType
         /\ req_desc \in Desc
         /\ Avail(queue) \in Seq(Desc) /\ Used(queue, last_used) \in Seq(Desc)
<1>1. queue \in QueueType /\ last_used \in Idx /\ bf \in BfType /\ req_desc \in Desc
  BY DEF TypeOK, QueueTypeOK, BfTypeOK, QueueType, BfType
<1>2. Tags \in [Desc -> [tag : Desc, req : Requests \union {NoRequest}]]
  BY DEF Tags, TypeOK
<1>3. Results \in [Desc -> [tag : Desc, result : Result]]
  BY DEF Results, TypeOK
<1>4. QED
  BY <1>1, <1>2, <1>3, AvailAndUsed

\* A request is taken from the rings as one is from the disk's queue.
LEMMA TakeMaps ==
  ASSUME DiskInv, ready, HasAvail(queue)
  PROVE  LET h == NextDesc(queue)
         IN  /\ h \in Desc /\ Taken \in Requests
             /\ Pending # <<>> /\ Head(Pending) = [tag |-> h, req |-> Taken]
             /\ MapSeq(Tags, Avail(Advance(queue))) = Tail(Pending)
             /\ Used(Advance(queue), last_used) = Used(queue, last_used)
             /\ Advance(queue) \in QueueType
             /\ HeadsOK(Avail(Advance(queue)), Used(queue, last_used), InProgress, Owned(request))
             /\ h \notin InProgress /\ request[h] # NoRequest
             /\ \A k \in 1 .. Len(Avail(Advance(queue))) : Avail(Advance(queue))[k] # h
             /\ \A k \in 1 .. Len(Used(queue, last_used)) : Used(queue, last_used)[k] # h
             /\ Len(Avail(Advance(queue))) + Len(Used(queue, last_used))
                  + Cardinality(InProgress) + 1 <= Cardinality(Owned(request))
<1> DEFINE h == NextDesc(queue)
           A == Avail(queue)
           U == Used(queue, last_used)
<1>1. /\ Tags \in [Desc -> [tag : Desc, req : Requests \union {NoRequest}]]
      /\ queue \in QueueType /\ A \in Seq(Desc) /\ U \in Seq(Desc)
  BY TagTypes DEF DiskInv
<1>2. /\ A # <<>> /\ Head(A) = h
      /\ Avail(Advance(queue)) = Tail(A)
      /\ Used(Advance(queue), last_used) = U
  BY <1>1, RingTake
<1>3. Advance(queue) \in QueueType /\ h \in Desc
  <2>1. 0 \in Desc
    BY Indices
  <2>2. QED
    BY <1>1, <2>1, QueueOperators
<1>4. HeadsOK(A, U, InProgress, Owned(request))
  BY DEF DiskInv, HeadsInv
<1> HIDE DEF h, A, U
<1>5. /\ request[h] # NoRequest /\ h \notin InProgress
      /\ \A k \in 1 .. Len(Tail(A)) : Tail(A)[k] # h
      /\ \A k \in 1 .. Len(U) : U[k] # h
      /\ HeadsOK(Tail(A), U, InProgress, Owned(request))
      /\ Len(Tail(A)) + Len(U) + Cardinality(InProgress) + 1 <= Cardinality(Owned(request))
  <2>1. /\ Head(A) \in Desc /\ Head(A) \in Owned(request)
        /\ Head(A) \notin InProgress
        /\ \A k \in 1 .. Len(Tail(A)) : Tail(A)[k] # Head(A)
        /\ \A k \in 1 .. Len(U) : U[k] # Head(A)
        /\ HeadsOK(Tail(A), U, InProgress, Owned(request))
        /\ Len(Tail(A)) + Len(U) + Cardinality(InProgress) + 1 <= Cardinality(Owned(request))
    BY <1>2, <1>4, HeadsTake
  <2>2. QED
    BY <1>2, <2>1 DEF Owned
<1>6. /\ MapSeq(Tags, A) # <<>> /\ Head(MapSeq(Tags, A)) = Tags[h]
      /\ Tail(MapSeq(Tags, A)) = MapSeq(Tags, Tail(A))
  <2> DEFINE S == [tag : Desc, req : Requests \union {NoRequest}]
  <2> HIDE DEF S
  <2>1. Tags \in [Desc -> S]
    BY <1>1 DEF S
  <2>2. QED
    BY <1>1, <1>2, <2>1, MapSeqTail
<1>7. Tags[h] = [tag |-> h, req |-> Taken]
  BY <1>3 DEF Tags, Taken, h
<1>8. Taken \in Requests
  BY <1>3, <1>5 DEF Taken, h, DiskInv, TypeOK
<1>9. Pending = MapSeq(Tags, A)
  BY DEF Pending, A
<1>10. QED
  BY <1>2, <1>3, <1>5, <1>6, <1>7, <1>8, <1>9 DEF h, U

\* A head is returned with its result as the disk appends an answer.
LEMMA ReturnMaps ==
  ASSUME DiskInv, ready, NEW q \in QueueType, NEW h \in Desc, NEW x \in Result, NEW cur,
         Used(q, last_used) = Used(queue, last_used),
         HeadsOK(Avail(q), Used(queue, last_used), cur, Owned(request)),
         request[h] # NoRequest, h \notin cur,
         \A k \in 1 .. Len(Avail(q)) : Avail(q)[k] # h,
         \A k \in 1 .. Len(Used(queue, last_used)) : Used(queue, last_used)[k] # h,
         Len(Avail(q)) + Len(Used(queue, last_used)) + Cardinality(cur) + 1
           <= Cardinality(Owned(request)),
         queue' = ConsumeDesc(q, h), result' = [result EXCEPT ![h] = x],
         TypeOK', ready' = ready, last_used' = last_used, request' = request
  PROVE  /\ Answers' = Append(Answers, [tag |-> h, result |-> x])
         /\ Pending' = MapSeq(Tags, Avail(q))
         /\ HeadsOK(Avail(queue'), Used(queue', last_used'), cur, Owned(request'))
<1> DEFINE U == Used(queue, last_used)
           A == Avail(q)
<1>1. /\ Results \in [Desc -> [tag : Desc, result : Result]]
      /\ last_used \in Idx /\ U \in Seq(Desc)
  BY TagTypes DEF DiskInv
<1>2. Len(U) < QueueNum /\ HeadsOK(A, Append(U, h), cur, Owned(request))
  <2> HIDE DEF U, A
  <2>1. /\ HeadsOK(A, U, cur, Owned(request))
        /\ \A k \in 1 .. Len(A) : A[k] # h
        /\ \A k \in 1 .. Len(U) : U[k] # h
        /\ Len(A) + Len(U) + Cardinality(cur) + 1 <= Cardinality(Owned(request))
    BY DEF U, A
  <2>2. h \in Owned(request)
    BY DEF Owned
  <2>3. QED
    BY <2>1, <2>2, HeadsReturn
<1>3. Avail(queue') = A /\ Used(queue', last_used) = Append(U, h)
  BY <1>1, <1>2, RingReturn
<1>4. HeadsOK(Avail(queue'), Used(queue', last_used'), cur, Owned(request'))
  BY <1>2, <1>3
<1> DEFINE R2 == [g \in Desc |-> [tag |-> g, result |-> result'[g]]]
<1>5. /\ R2 \in [Desc -> [tag : Desc, result : Result]]
      /\ R2[h] = [tag |-> h, result |-> x]
      /\ \A g \in Desc : g # h => R2[g] = Results[g]
  BY DEF TypeOK, DiskInv, Results
<1>6. \A k \in DOMAIN U : R2[U[k]] = Results[U[k]]
  BY <1>1, <1>5
<1> HIDE DEF U, A, R2
<1>7. MapSeq(R2, Append(U, h)) = Append(MapSeq(Results, U), R2[h])
  <2> DEFINE S == [tag : Desc, result : Result]
  <2> HIDE DEF S
  <2>1. R2 \in [Desc -> S]
    BY <1>5 DEF S
  <2>2. MapSeq(R2, Append(U, h)) = Append(MapSeq(R2, U), R2[h])
    BY <1>1, <2>1, MapSeqAppend
  <2>3. MapSeq(R2, U) = MapSeq(Results, U)
    BY <1>1, <1>6, MapSeqAgree
  <2>4. QED
    BY <2>2, <2>3
<1>8. Answers' = MapSeq(R2, Append(U, h))
  BY <1>3 DEF Answers, Results, R2
<1>9. Answers = MapSeq(Results, U)
  BY DEF Answers, U
<1>10. Pending' = MapSeq(Tags, A)
  BY <1>3 DEF Pending, Tags
<1>11. QED
  BY <1>4, <1>5, <1>7, <1>8, <1>9, <1>10 DEF A

-----------------------------------------------------------------------------
(* Steps of Disk, in the operators above.                                  *)

LEMMA MapsAre ==
  ASSUME NEW f, NEW s \in Seq(Desc)
  PROVE  /\ [k \in DOMAIN s |-> [tag |-> s[k], req |-> f[s[k]]]]
              = MapSeq([h \in Desc |-> [tag |-> h, req |-> f[h]]], s)
         /\ [k \in DOMAIN s |-> [tag |-> s[k], result |-> f[s[k]]]]
              = MapSeq([h \in Desc |-> [tag |-> h, result |-> f[h]]], s)
<1>1. \A k \in DOMAIN s : s[k] \in Desc
  OBVIOUS
<1>2. QED
  BY <1>1 DEF MapSeq

\* The mapping of ImplementsDisk, before and after a step.
LEMMA Mapped ==
  ASSUME TypeOK
  PROVE  /\ Pending = IF ready
              THEN Tagged(Entries(queue.avail_ring, queue.last_avail_idx, queue.avail_idx))
              ELSE <<>>
         /\ Answers = IF ready
              THEN Answered(Entries(queue.used_ring, last_used, queue.used_idx))
              ELSE <<>>
<1>1. Avail(queue) \in Seq(Desc) /\ Used(queue, last_used) \in Seq(Desc)
  BY TagTypes
<1>2. Tagged(Avail(queue)) = MapSeq(Tags, Avail(queue))
  BY <1>1, MapsAre DEF Tagged, Tags
<1>3. Answered(Used(queue, last_used)) = MapSeq(Results, Used(queue, last_used))
  BY <1>1, MapsAre DEF Answered, Results
<1>4. QED
  BY <1>2, <1>3 DEF Pending, Answers, Avail, Used

LEMMA MappedNext ==
  ASSUME TypeOK'
  PROVE  /\ Pending' = (IF ready
              THEN Tagged(Entries(queue.avail_ring, queue.last_avail_idx, queue.avail_idx))
              ELSE <<>>)'
         /\ Answers' = (IF ready
              THEN Answered(Entries(queue.used_ring, last_used, queue.used_idx))
              ELSE <<>>)'
<1>1. queue' \in QueueType /\ last_used' \in Idx
  BY DEF TypeOK, QueueTypeOK, QueueType
<1> DEFINE A == Avail(queue')
           U == Used(queue', last_used')
<1>2. A \in Seq(Desc) /\ U \in Seq(Desc)
  BY <1>1, AvailAndUsed
<1> HIDE DEF A, U
<1>3. [k \in DOMAIN A |-> [tag |-> A[k], req |-> request'[A[k]]]]
        = MapSeq([h \in Desc |-> [tag |-> h, req |-> request'[h]]], A)
  BY <1>2, MapsAre
<1>4. [k \in DOMAIN U |-> [tag |-> U[k], result |-> result'[U[k]]]]
        = MapSeq([h \in Desc |-> [tag |-> h, result |-> result'[h]]], U)
  BY <1>2, MapsAre
<1>5. QED
  BY <1>3, <1>4 DEF Pending, Answers, Avail, Used, A, U, Tags, Results, Tagged, Answered

LEMMA IsSubmit ==
  ASSUME TypeOK, TypeOK', NEW h \in Desc, NEW r \in Requests,
         Pending' = Append(Pending, [tag |-> h, req |-> r]),
         bf' = bf, Current' = Current, Answers' = Answers
  PROVE  D!Next
<1>1. D!Submit(h, r)
  BY Mapped, MappedNext DEF D!Submit, DiskNow, Current
<1>2. QED
  BY <1>1 DEF D!Next

LEMMA IsDrop ==
  ASSUME TypeOK, TypeOK', Pending # <<>>, Head(Pending).req.type \in {"OTHER", "BAD"},
         Pending' = Tail(Pending),
         bf' = bf, Current' = Current, Answers' = Answers
  PROVE  D!Next
<1>1. D!Drop
  BY Mapped, MappedNext DEF D!Drop, D!Takes, DiskNow, Current
<1>2. QED
  BY <1>1 DEF D!Next

LEMMA IsDefer ==
  ASSUME TypeOK, TypeOK', Pending # <<>>, Head(Pending).req.type \in {"IN", "OUT"},
         Pending' = Tail(Pending), Current = NoneCurrent, Current' = Head(Pending),
         bf' = bf, Answers' = Answers
  PROVE  D!Next
<1>1. D!Defer
  BY Mapped, MappedNext DEF D!Defer, D!Takes, DiskNow, Current
<1>2. QED
  BY <1>1 DEF D!Next

LEMMA IsCollect ==
  ASSUME TypeOK, TypeOK', Answers # <<>>, Answers' = Tail(Answers),
         bf' = bf, Current' = Current, Pending' = Pending
  PROVE  D!Next
<1>1. D!Collect
  BY Mapped, MappedNext DEF D!Collect, DiskNow, Current
<1>2. QED
  BY <1>1 DEF D!Next

LEMMA IsReset ==
  ASSUME TypeOK, TypeOK', Answers' = <<>>, Pending' = <<>>,
         bf' = bf, Current = NoneCurrent, Current' = Current
  PROVE  D!Next
<1>1. D!Reset
  BY Mapped, MappedNext DEF D!Reset, DiskNow, Current
<1>2. QED
  BY <1>1 DEF D!Next

LEMMA IsStutter ==
  ASSUME TypeOK, TypeOK', Answers' = Answers, Pending' = Pending,
         bf' = bf, Current' = Current
  PROVE  UNCHANGED D!vars
BY Mapped, MappedNext DEF D!vars, DiskNow, Current

\* What Disk answers: the result of a request, and the sectors it leaves.
Performed(t, r, data) ==
  /\ r.type = "IN" =>
       /\ Answers' = Append(Answers,
            [tag |-> t, result |->
              [status |-> "OK", data |-> [i \in 1 .. r.n |-> DiskNow[r.sector + i - 1]]]])
       /\ bf' = bf
  /\ r.type = "OUT" =>
       /\ Answers' = Append(Answers,
            [tag |-> t, result |->
              [status |-> IF bf.mode = "RO" THEN "IOERR" ELSE "OK", data |-> <<>>]])
       /\ bf'.mode = bf.mode
       /\ \A s \in Sector : BfSector(bf', s) =
            IF bf.mode # "RO" /\ s \in r.sector .. r.sector + r.n - 1
            THEN data[s - r.sector + 1] ELSE BfSector(bf, s)

LEMMA IsAnswer ==
  ASSUME TypeOK, TypeOK', NEW t, NEW r, NEW data, r.type \in {"IN", "OUT"},
         Performed(t, r, data)
  PROVE  D!Answer(t, r, data)
<1>1. CASE r.type = "IN"
  BY <1>1, Mapped, MappedNext DEF D!Answer, Performed, DiskNow
<1>2. CASE r.type = "OUT"
  <2>1. DiskNow' = IF bf.mode # "RO"
                   THEN [s \in Sector |-> IF s \in r.sector .. r.sector + r.n - 1
                                          THEN data[s - r.sector + 1] ELSE DiskNow[s]]
                   ELSE DiskNow
    BY <1>2 DEF Performed, DiskNow
  <2>2. Answers' = Append(Answers,
            [tag |-> t, result |->
              [status |-> IF bf.mode = "RO" THEN "IOERR" ELSE "OK", data |-> <<>>]])
    BY <1>2 DEF Performed
  <2>3. (bf.mode = "RO")' = (bf.mode = "RO")
    BY <1>2 DEF Performed
  <2>4. QED
    BY <1>2, <2>1, <2>2, <2>3, Mapped, MappedNext DEF D!Answer, D!Sectors, DiskNow
<1>3. QED
  BY <1>1, <1>2

LEMMA IsPerform ==
  ASSUME TypeOK, TypeOK', Pending # <<>>, Head(Pending).req.type \in {"IN", "OUT"},
         Pending' = Tail(Pending), Current = NoneCurrent, Current' = Current,
         Performed(Head(Pending).tag, Head(Pending).req, Head(Pending).req.data)
  PROVE  D!Next
<1>1. D!Answer(Head(Pending).tag, Head(Pending).req, Head(Pending).req.data)
  BY IsAnswer
<1>2. D!Perform
  BY <1>1, Mapped, MappedNext DEF D!Perform, D!Takes, Current
<1>3. QED
  BY <1>2 DEF D!Next

LEMMA IsComplete ==
  ASSUME TypeOK, TypeOK', Current # NoneCurrent, Current' = NoneCurrent,
         Pending' = Pending, Current.req.type \in {"IN", "OUT"},
         NEW data \in [1 .. Current.req.n -> Data],
         Performed(Current.tag, Current.req, data)
  PROVE  D!Next
<1>1. D!Answer(Current.tag, Current.req, data)
  BY IsAnswer
<1>2. D!Complete
  BY <1>1, Mapped, MappedNext DEF D!Complete, Current
<1>3. QED
  BY <1>2 DEF D!Next

-----------------------------------------------------------------------------
(* Each action keeps the invariant and is a step of Disk or none.          *)

DiskStep == D!Next \/ UNCHANGED D!vars

LEMMA NoneMapped ==
  ASSUME NEW f
  PROVE  MapSeq(f, <<>>) = <<>>
BY DEF MapSeq

LEMMA RequestUsed ==
  ASSUME NEW r \in Requests
  PROVE  r # NoRequest /\ r.type \in RequestType
BY RequestsAssumption DEF NoRequest, RequestType

LEMMA ResetMaps ==
  ASSUME DiskInv, TypeOK', Reset
  PROVE  HeadsInv' /\ DiskStep
<1>1. HeadsInv'
  BY TagTypes DEF Reset, HeadsInv, DiskInv, VirtioReset, QueueType
<1>2. Answers' = <<>> /\ Pending' = <<>> /\ Current = NoneCurrent /\ Current' = Current
  BY DEF Reset, Answers, Pending, Current
<1>3. D!Next
  BY <1>2, IsReset DEF Reset, DiskInv
<1>4. QED
  BY <1>1, <1>3 DEF DiskStep

LEMMA SetupMaps ==
  ASSUME DiskInv, TypeOK', Setup
  PROVE  HeadsInv' /\ DiskStep
<1>1. Avail(queue') = <<>> /\ Used(queue', last_used') = <<>>
  BY TagTypes, RingSetup DEF Setup, DiskInv, QueueIdle
<1>2. ~req_in_progress /\ ~req_in_progress'
  BY DEF Setup, DiskInv, QueueIdle
<1>a. Owned(request') = {}
  BY DEF Setup, HeadsInv, DiskInv, Owned
<1>3. HeadsOK(Avail(queue'), Used(queue', last_used'), InProgress', Owned(request'))
  BY <1>1, <1>2, <1>a, HeadsEmpty DEF InProgress
<1>4. HeadsInv'
  BY <1>2, <1>3 DEF Setup, HeadsInv, DiskInv
<1>5. Answers' = Answers /\ Pending' = Pending /\ Current' = Current
  BY <1>1, <1>2, NoneMapped DEF Setup, Answers, Pending, Current
<1>6. UNCHANGED D!vars
  BY <1>5, IsStutter DEF Setup, DiskInv
<1>7. QED
  BY <1>4, <1>6 DEF DiskStep

LEMMA SubmitMaps ==
  ASSUME DiskInv, TypeOK', NEW h \in Desc, NEW r \in Requests, Submit(h, r)
  PROVE  HeadsInv' /\ DiskStep
<1> DEFINE A == Avail(queue)
           U == Used(queue, last_used)
           S == [tag : Desc, req : Requests \union {NoRequest}]
           T2 == [g \in Desc |-> [tag |-> g, req |-> request'[g]]]
<1>1. /\ Tags \in [Desc -> S] /\ queue \in QueueType
      /\ A \in Seq(Desc) /\ U \in Seq(Desc)
      /\ request \in [Desc -> Requests \union {NoRequest}]
  BY TagTypes DEF DiskInv, TypeOK
<1>2. r # NoRequest /\ request[h] = NoRequest /\ request' = [request EXCEPT ![h] = r]
      /\ HeadsOK(A, U, InProgress, Owned(request))
  BY RequestUsed DEF Submit, DiskInv, HeadsInv
<1>a. T2 \in [Desc -> S] /\ T2[h] = [tag |-> h, req |-> r]
      /\ \A g \in Desc : g # h => T2[g] = Tags[g]
  BY <1>1, <1>2 DEF Tags
<1> HIDE DEF A, U, S, T2
<1>3. /\ Len(A) < QueueNum /\ \A k \in 1 .. Len(A) : A[k] # h
      /\ h \notin InProgress
      /\ HeadsOK(Append(A, h), U, InProgress, Owned(request'))
  <2> DEFINE p == InProgress
             o == Owned(request)
  <2>1. HeadsOK(A, U, p, o) /\ h \notin o
    BY <1>2 DEF Owned
  <2>2. o \union {h} = Owned(request')
    BY <1>1, <1>2 DEF Owned
  <2> HIDE DEF p, o
  <2>3. /\ Len(A) < QueueNum
        /\ \A k \in 1 .. Len(A) : A[k] # h
        /\ h \notin p
        /\ HeadsOK(Append(A, h), U, p, o \union {h})
    BY <2>1, HeadsSubmit
  <2>4. QED
    BY <2>2, <2>3 DEF p
<1>4. Avail(queue') = Append(A, h) /\ Used(queue', last_used') = U
  BY <1>1, <1>3, RingSubmit DEF Submit, A, U
<1>5. InProgress' = InProgress
  BY DEF InProgress, Submit
<1>6. HeadsInv'
  <2>1. HeadsOK(Avail(queue'), Used(queue', last_used'), InProgress', Owned(request'))
    BY <1>2, <1>3, <1>4, <1>5
  <2>2. req_in_progress => request'[req_desc] = request[req_desc]
    BY <1>1, <1>2, <1>3, TagTypes DEF InProgress, DiskInv
  <2>3. QED
    BY <2>1, <2>2 DEF Submit, HeadsInv, DiskInv
<1>7. MapSeq(T2, Append(A, h)) = Append(MapSeq(Tags, A), T2[h])
  <2>1. MapSeq(T2, Append(A, h)) = Append(MapSeq(T2, A), T2[h])
    BY <1>1, <1>a, MapSeqAppend
  <2>2. \A k \in DOMAIN A : T2[A[k]] = Tags[A[k]]
    BY <1>1, <1>3, <1>a
  <2>3. MapSeq(T2, A) = MapSeq(Tags, A)
    BY <1>1, <2>2, MapSeqAgree
  <2>4. QED
    BY <2>1, <2>3
<1>8. Pending' = Append(Pending, [tag |-> h, req |-> r])
  <2>1. Pending' = MapSeq(T2, Append(A, h))
    BY <1>4 DEF Pending, Tags, T2, Submit
  <2>2. Pending = MapSeq(Tags, A)
    BY DEF Pending, A, Submit
  <2>3. QED
    BY <1>7, <1>a, <2>1, <2>2
<1>9. Answers' = Answers
  BY <1>4 DEF Answers, Results, U, Submit
<1>10. Current' = Current
  BY <1>1, <1>2, <1>3, TagTypes DEF Current, InProgress, Submit, DiskInv
<1>11. D!Next
  BY <1>8, <1>9, <1>10, IsSubmit DEF Submit, DiskInv
<1>12. QED
  BY <1>6, <1>11 DEF DiskStep

\* Steps that leave the rings as they are.
LEMMA IdleMaps ==
  ASSUME DiskInv, TypeOK', Notify \/ Ack \/ ReapDone \/ Refuse \/ NotifyDone \/ UNCHANGED vars
  PROVE  HeadsInv' /\ DiskStep
<1>1. /\ UNCHANGED <<req_in_progress, req_desc, bf, ready, request, result, last_used>>
      /\ ~ready => UNCHANGED <<queue, handler>>
  <2>1. CASE Ack
    BY <2>1 DEF Ack, DiskInv, HeadsInv
  <2>2. CASE ReapDone
    BY <2>2 DEF ReapDone, DiskInv, HeadsInv
  <2>3. QED
    BY <2>1, <2>2 DEF Notify, Refuse, NotifyDone, vars, driver
<1>2. Avail(queue') = Avail(queue) /\ Used(queue', last_used') = Used(queue, last_used)
  <2>1. CASE Ack
    BY <2>1, TagTypes, RingAck DEF Ack, DiskInv
  <2>2. CASE ~Ack
    BY <2>2 DEF Notify, ReapDone, Refuse, NotifyDone, vars, driver
  <2>3. QED
    BY <2>1, <2>2
<1>3. InProgress' = InProgress /\ Current' = Current
  BY <1>1 DEF InProgress, Current
<1>4. HeadsInv'
  BY <1>1, <1>2, <1>3 DEF HeadsInv, DiskInv
<1>5. Pending' = Pending /\ Answers' = Answers
  BY <1>1, <1>2 DEF Pending, Answers, Tags, Results
<1>6. UNCHANGED D!vars
  BY <1>1, <1>3, <1>5, IsStutter DEF DiskInv
<1>7. QED
  BY <1>4, <1>6 DEF DiskStep

LEMMA ReapMaps ==
  ASSUME DiskInv, TypeOK', Reap
  PROVE  HeadsInv' /\ DiskStep
<1> DEFINE A == Avail(queue)
           U == Used(queue, last_used)
           h == UsedDesc(queue, last_used)
           S == [tag : Desc, req : Requests \union {NoRequest}]
           R == [tag : Desc, result : Result]
           T2 == [g \in Desc |-> [tag |-> g, req |-> request'[g]]]
           R2 == [g \in Desc |-> [tag |-> g, result |-> result'[g]]]
<1>0. ready
  BY DEF Reap, DiskInv, HeadsInv
<1>1. /\ Tags \in [Desc -> S] /\ Results \in [Desc -> R]
      /\ queue \in QueueType /\ last_used \in Idx
      /\ A \in Seq(Desc) /\ U \in Seq(Desc)
      /\ request \in [Desc -> Requests \union {NoRequest}]
  BY TagTypes DEF DiskInv, TypeOK
<1>2. /\ U # <<>> /\ Head(U) = h
      /\ Used(queue', last_used') = Tail(U) /\ Avail(queue') = A
  BY <1>1, RingReap DEF Reap
<1>3. /\ request' = [request EXCEPT ![h] = NoRequest]
      /\ result' = [result EXCEPT ![h] = NoResult]
      /\ HeadsOK(A, U, InProgress, Owned(request))
  BY <1>0 DEF Reap, DiskInv, HeadsInv
<1>a. /\ T2 \in [Desc -> S] /\ R2 \in [Desc -> R]
      /\ \A g \in Desc : g # h => T2[g] = Tags[g] /\ R2[g] = Results[g]
  BY <1>1, <1>3 DEF Tags, Results, DiskInv, TypeOK
<1> HIDE DEF A, U, S, R, h, T2, R2
<1>4. /\ h \in Desc /\ h \notin InProgress
      /\ \A k \in 1 .. Len(A) : A[k] # h
      /\ \A k \in 1 .. Len(Tail(U)) : Tail(U)[k] # h
      /\ HeadsOK(A, Tail(U), InProgress, Owned(request'))
  <2> DEFINE p == InProgress
             o == Owned(request)
  <2>1. HeadsOK(A, U, p, o) /\ U # <<>>
    BY <1>2, <1>3
  <2>2. o \ {h} = Owned(request')
    BY <1>1, <1>3 DEF Owned
  <2>3. o \subseteq Desc
    BY DEF Owned
  <2> HIDE DEF p, o
  <2>4. /\ Head(U) \in o /\ Head(U) \notin p
        /\ \A k \in 1 .. Len(A) : A[k] # Head(U)
        /\ \A k \in 1 .. Len(Tail(U)) : Tail(U)[k] # Head(U)
        /\ HeadsOK(A, Tail(U), p, o \ {Head(U)})
    BY <2>1, HeadsReap
  <2>5. QED
    BY <1>2, <2>2, <2>3, <2>4 DEF p
<1>5. InProgress' = InProgress
  BY DEF InProgress, Reap
<1>6. req_in_progress => request'[req_desc] = request[req_desc]
  BY <1>1, <1>3, <1>4, TagTypes DEF InProgress, DiskInv
<1>7. HeadsInv'
  BY <1>0, <1>2, <1>4, <1>5, <1>6 DEF HeadsInv, Reap, DiskInv
<1>8. Pending' = Pending
  <2>1. MapSeq(T2, A) = MapSeq(Tags, A)
    BY <1>1, <1>4, <1>a, MapSeqAgree
  <2>2. Pending' = MapSeq(T2, A)
    BY <1>0, <1>2 DEF Pending, Tags, T2, Reap
  <2>3. Pending = MapSeq(Tags, A)
    BY <1>0 DEF Pending, A
  <2>4. QED
    BY <2>1, <2>2, <2>3
<1>9. Answers # <<>> /\ Answers' = Tail(Answers)
  <2>1. Tail(U) \in Seq(Desc)
    BY <1>1, <1>2
  <2>2. MapSeq(R2, Tail(U)) = MapSeq(Results, Tail(U))
    <3> DEFINE V == Tail(U)
    <3>1. V \in Seq(Desc) /\ \A k \in 1 .. Len(V) : V[k] # h
      BY <1>4, <2>1
    <3> HIDE DEF V
    <3>2. \A k \in DOMAIN V : R2[V[k]] = Results[V[k]]
      BY <1>a, <3>1
    <3>3. MapSeq(R2, V) = MapSeq(Results, V)
      BY <3>1, <3>2, MapSeqAgree
    <3>4. QED
      BY <3>3 DEF V
  <2>3. MapSeq(Results, U) # <<>> /\ Tail(MapSeq(Results, U)) = MapSeq(Results, Tail(U))
    BY <1>1, <1>2, MapSeqTail
  <2>4. Answers' = MapSeq(R2, Tail(U))
    BY <1>0, <1>2 DEF Answers, Results, R2, Reap
  <2>5. Answers = MapSeq(Results, U)
    BY <1>0 DEF Answers, U
  <2>6. QED
    BY <2>2, <2>3, <2>4, <2>5
<1>10. Current' = Current
  BY <1>6 DEF Current, Reap
<1>11. D!Next
  BY <1>8, <1>9, <1>10, IsCollect DEF Reap, DiskInv
<1>12. QED
  BY <1>7, <1>11 DEF DiskStep

LEMMA Notified ==
  ASSUME DiskInv, at = "notify" \/ req_in_progress
  PROVE  ready
BY DEF DiskInv, QueueIdle

LEMMA DropMaps ==
  ASSUME DiskInv, TypeOK', SkipBad \/ TakeOther
  PROVE  HeadsInv' /\ DiskStep
<1>1. /\ ready /\ HasAvail(queue) /\ Taken.type \in {"OTHER", "BAD"}
      /\ queue' = Advance(queue)
      /\ UNCHANGED <<req_in_progress, bf, at, result, driver>>
      /\ req_in_progress => req_desc' = req_desc
  BY Notified DEF SkipBad, TakeOther, Taking, Accepts
<1>2. /\ Pending # <<>> /\ Head(Pending) = [tag |-> NextDesc(queue), req |-> Taken]
      /\ MapSeq(Tags, Avail(Advance(queue))) = Tail(Pending)
      /\ Used(Advance(queue), last_used) = Used(queue, last_used)
      /\ HeadsOK(Avail(Advance(queue)), Used(queue, last_used), InProgress, Owned(request))
  BY <1>1, TakeMaps
<1>3. InProgress' = InProgress /\ Current' = Current
  BY <1>1 DEF InProgress, Current, driver
<1>4. HeadsInv'
  BY <1>1, <1>2, <1>3 DEF HeadsInv, DiskInv, driver
<1>5. Pending' = Tail(Pending) /\ Answers' = Answers
  BY <1>1, <1>2 DEF Pending, Answers, Tags, Results, driver
<1>6. Head(Pending).req.type \in {"OTHER", "BAD"}
  BY <1>1, <1>2
<1>7. D!Next
  BY <1>1, <1>2, <1>3, <1>5, <1>6, IsDrop DEF DiskInv
<1>8. QED
  BY <1>4, <1>7 DEF DiskStep

LEMMA LaterMaps ==
  ASSUME DiskInv, TypeOK', Later
  PROVE  HeadsInv' /\ DiskStep
<1> DEFINE h == NextDesc(queue)
           A2 == Avail(Advance(queue))
           U == Used(queue, last_used)
<1>1. /\ ready /\ HasAvail(queue) /\ Taken.type \in {"IN", "OUT"}
      /\ queue' = Advance(queue) /\ bf.mode = "NET"
      /\ ~req_in_progress /\ req_in_progress' /\ req_desc' = h
      /\ UNCHANGED <<bf, at, result, driver>>
  BY Notified DEF Later, Taking, Accepts
<1>a. InProgress = {} /\ InProgress' = {h}
  BY <1>1 DEF InProgress
<1> HIDE DEF h, A2, U
<1>2. /\ h \in Desc
      /\ Pending # <<>> /\ Head(Pending) = [tag |-> h, req |-> Taken]
      /\ MapSeq(Tags, A2) = Tail(Pending)
      /\ Used(Advance(queue), last_used) = U
      /\ HeadsOK(A2, U, InProgress, Owned(request))
      /\ request[h] # NoRequest
      /\ \A k \in 1 .. Len(A2) : A2[k] # h
      /\ \A k \in 1 .. Len(U) : U[k] # h
      /\ Len(A2) + Len(U) + Cardinality(InProgress) + 1 <= Cardinality(Owned(request))
  BY <1>1, TakeMaps DEF h, A2, U
<1>3. HeadsOK(A2, U, {h}, Owned(request))
  <2> DEFINE o == Owned(request)
  <2>1. /\ HeadsOK(A2, U, {}, o) /\ h \in o
        /\ Len(A2) + Len(U) + Cardinality({}) + 1 <= Cardinality(o)
    BY <1>2, <1>a DEF Owned
  <2> HIDE DEF o
  <2>2. HeadsOK(A2, U, {h}, o)
    BY <1>2, <2>1, HeadsDefer
  <2>3. QED
    BY <2>2 DEF o
<1>4. HeadsInv'
  <2>1. HeadsOK(Avail(queue'), Used(queue', last_used'), InProgress', Owned(request'))
    BY <1>1, <1>2, <1>3, <1>a DEF A2, driver
  <2>2. request'[req_desc'].type \in {"IN", "OUT"}
    BY <1>1 DEF Taken, h, driver
  <2>3. QED
    BY <1>1, <2>1, <2>2 DEF HeadsInv, DiskInv, driver
<1>5. Pending' = Tail(Pending) /\ Answers' = Answers
  BY <1>1, <1>2 DEF Pending, Answers, Tags, Results, driver, A2, U
<1>6. Current = NoneCurrent /\ Current' = Head(Pending)
  BY <1>1, <1>2 DEF Current, Taken, h, driver
<1>7. Head(Pending).req.type \in {"IN", "OUT"}
  BY <1>1, <1>2
<1>8. D!Next
  BY <1>1, <1>2, <1>5, <1>6, <1>7, IsDefer DEF DiskInv
<1>9. QED
  BY <1>4, <1>8 DEF DiskStep

\* ReadNow and WriteNow.
LEMMA NowMaps ==
  ASSUME DiskInv, TypeOK', ReadNow \/ WriteNow
  PROVE  HeadsInv' /\ DiskStep
<1> DEFINE h == NextDesc(queue)
           q == Advance(queue)
           A2 == Avail(q)
           U == Used(queue, last_used)
           x == result'[h]
<1>1. /\ ready /\ HasAvail(queue) /\ Taken.type \in {"IN", "OUT"}
      /\ queue' = ConsumeDesc(q, h)
      /\ result' \in [Desc -> Result]
      /\ ~req_in_progress /\ ~req_in_progress' /\ UNCHANGED driver
      /\ result \in [Desc -> Result]
  BY Notified DEF ReadNow, WriteNow, Taking, Accepts, ReqEnd, TypeOK, DiskInv
<1>2. /\ h \in Desc /\ Taken \in Requests
      /\ Pending # <<>> /\ Head(Pending) = [tag |-> h, req |-> Taken]
      /\ MapSeq(Tags, A2) = Tail(Pending)
      /\ Used(q, last_used) = U
      /\ q \in QueueType
      /\ HeadsOK(A2, U, InProgress, Owned(request))
      /\ h \notin InProgress /\ request[h] # NoRequest
      /\ \A k \in 1 .. Len(A2) : A2[k] # h
      /\ \A k \in 1 .. Len(U) : U[k] # h
      /\ Len(A2) + Len(U) + Cardinality(InProgress) + 1 <= Cardinality(Owned(request))
  BY <1>1, TakeMaps
<1>3. result' = [result EXCEPT ![h] = x] /\ x \in Result
  BY <1>1, <1>2 DEF ReadNow, WriteNow, ReqEnd
<1>4. InProgress' = InProgress /\ Current = NoneCurrent /\ Current' = Current
  BY <1>1 DEF InProgress, Current
<1>5. /\ Answers' = Append(Answers, [tag |-> h, result |-> x])
      /\ Pending' = MapSeq(Tags, A2)
      /\ HeadsOK(Avail(queue'), Used(queue', last_used'), InProgress, Owned(request'))
  <2>1. ready' = ready /\ last_used' = last_used /\ request' = request
    BY <1>1 DEF driver
  <2> DEFINE p == InProgress
  <2> HIDE DEF h, q, A2, U, x, p
  <2>2. /\ HeadsOK(A2, U, p, Owned(request)) /\ h \notin p
        /\ Len(A2) + Len(U) + Cardinality(p) + 1 <= Cardinality(Owned(request))
    BY <1>2 DEF p
  <2>3. /\ Answers' = Append(Answers, [tag |-> h, result |-> x])
        /\ Pending' = MapSeq(Tags, A2)
        /\ HeadsOK(Avail(queue'), Used(queue', last_used'), p, Owned(request'))
    BY <1>1, <1>2, <1>3, <2>1, <2>2, ReturnMaps DEF A2, U
  <2>4. QED
    BY <2>3 DEF p
<1>6. /\ Taken.sector \in Sector /\ Taken.n \in Nat /\ Taken.data \in Seq(Data)
      /\ Taken.sector + Taken.n <= NbSectors
      /\ Taken.type = "OUT" => Len(Taken.data) = Taken.n
  BY <1>2, RequestsAssumption
<1>7. bf \in BfType /\ NoTable(bf)
  BY TagTypes DEF DiskInv, HeadsInv
<1>8. NoTable(bf') /\ Performed(h, Taken, Taken.data)
  <2> HIDE DEF h, q, A2, U
  <2>1. CASE ReadNow
    <3>1. x = [status |-> "OK", data |-> BfRead(bf, Taken.sector, Taken.n)]
      BY <2>1, <1>1, <1>2 DEF ReadNow, ReqEnd, h
    <3>2. BfRead(bf, Taken.sector, Taken.n)
            = [i \in 1 .. Taken.n |-> DiskNow[Taken.sector + i - 1]]
      BY <1>6, <1>7, BfReadType DEF DiskNow
    <3>3. bf' = bf /\ Taken.type = "IN"
      BY <2>1 DEF ReadNow, Taking
    <3>4. QED
      BY <1>5, <1>7, <3>1, <3>2, <3>3 DEF Performed
  <2>2. CASE WriteNow
    <3>1. x = [status |-> IF BfWriteFails(bf, Taken.sector, Taken.data)
                          THEN "IOERR" ELSE "OK", data |-> <<>>]
      BY <2>2, <1>1, <1>2 DEF WriteNow, ReqEnd, h
    <3>2. bf' = BfWrite(bf, Taken.sector, Taken.data) /\ Taken.type = "OUT"
      BY <2>2 DEF WriteNow, Taking
    <3>3. bf'.mode = bf.mode
      BY <1>6, <1>7, <3>2, BfWriteType
    <3>4. /\ BfWriteFails(bf, Taken.sector, Taken.data) <=> bf.mode = "RO"
          /\ NoTable(bf')
          /\ \A t \in Sector : BfSector(bf', t)
               = IF bf.mode # "RO" /\ t \in Taken.sector .. Taken.sector + Taken.n - 1
                 THEN Taken.data[t - Taken.sector + 1] ELSE BfSector(bf, t)
      BY <1>6, <1>7, <3>2, BfWriteDisk
    <3>5. QED
      BY <1>5, <3>1, <3>2, <3>3, <3>4 DEF Performed
  <2>3. QED
    BY <2>1, <2>2
<1>9. HeadsInv'
  BY <1>1, <1>4, <1>5, <1>8 DEF HeadsInv, DiskInv, driver
<1>10. D!Next
  <2> HIDE DEF h, q, A2, U
  <2>1. Head(Pending).tag = h /\ Head(Pending).req = Taken
    BY <1>2
  <2>2. QED
    BY <1>1, <1>2, <1>4, <1>5, <1>8, <2>1, IsPerform DEF DiskInv
<1>11. QED
  BY <1>9, <1>10 DEF DiskStep

LEMMA CallbackMaps ==
  ASSUME DiskInv, TypeOK', Callback
  PROVE  HeadsInv' /\ DiskStep
<1> DEFINE h == req_desc
           r == request[h]
           A == Avail(queue)
           U == Used(queue, last_used)
           x == result'[h]
<1>1. /\ ready /\ req_in_progress /\ ~req_in_progress'
      /\ queue' = ConsumeDesc(queue, h)
      /\ result' = [result EXCEPT ![h] = x] /\ x \in Result
      /\ bf.mode = "NET" /\ r.type \in {"IN", "OUT"}
      /\ UNCHANGED driver /\ h \in Desc /\ queue \in QueueType
      /\ result \in [Desc -> Result]
  <2>1. ready /\ req_in_progress /\ ~req_in_progress' /\ UNCHANGED driver
    BY Notified DEF Callback
  <2>2. bf.mode = "NET" /\ r.type \in {"IN", "OUT"} /\ h \in Desc /\ queue \in QueueType
        /\ result \in [Desc -> Result] /\ result' \in [Desc -> Result]
    BY <2>1, TagTypes DEF DiskInv, HeadsInv, TypeOK
  <2>3. queue' = ConsumeDesc(queue, h) /\ result' = [result EXCEPT ![h] = x]
    BY <2>2 DEF Callback, Completed, ReqEnd
  <2>4. QED
    BY <2>1, <2>2, <2>3
<1>2. InProgress = {h} /\ InProgress' = {}
      /\ Current = [tag |-> h, req |-> r] /\ Current' = NoneCurrent
  BY <1>1 DEF InProgress, Current
<1>3. HeadsOK(A, U, {h}, Owned(request))
  BY <1>1, <1>2 DEF DiskInv, HeadsInv
<1> HIDE DEF h, A, U, x
<1>4. /\ HeadsOK(A, U, {}, Owned(request)) /\ request[h] # NoRequest
      /\ \A k \in 1 .. Len(A) : A[k] # h
      /\ \A k \in 1 .. Len(U) : U[k] # h
      /\ Len(A) + Len(U) + Cardinality({}) + 1 <= Cardinality(Owned(request))
  <2> DEFINE o == Owned(request)
  <2>1. HeadsOK(A, U, {h}, o) /\ h \in Desc
    BY <1>1, <1>3
  <2>2. \A g : g \in o => request[g] # NoRequest
    BY DEF Owned
  <2> HIDE DEF o
  <2>3. /\ HeadsOK(A, U, {}, o) /\ h \in o
        /\ \A k \in 1 .. Len(A) : A[k] # h
        /\ \A k \in 1 .. Len(U) : U[k] # h
        /\ Len(A) + Len(U) + Cardinality({}) + 1 <= Cardinality(o)
    BY <2>1, HeadsComplete
  <2>4. QED
    BY <2>2, <2>3 DEF o
<1>5. /\ Answers' = Append(Answers, [tag |-> h, result |-> x])
      /\ Pending' = MapSeq(Tags, A)
      /\ HeadsOK(Avail(queue'), Used(queue', last_used'), {}, Owned(request'))
  <2>1. ready' = ready /\ last_used' = last_used /\ request' = request
    BY <1>1 DEF driver
  <2> DEFINE p == {}
  <2>2. /\ HeadsOK(A, U, p, Owned(request)) /\ h \notin p
        /\ Len(A) + Len(U) + Cardinality(p) + 1 <= Cardinality(Owned(request))
    BY <1>4
  <2> HIDE DEF p
  <2>3. /\ Answers' = Append(Answers, [tag |-> h, result |-> x])
        /\ Pending' = MapSeq(Tags, A)
        /\ HeadsOK(Avail(queue'), Used(queue', last_used'), p, Owned(request'))
    BY <1>1, <1>4, <2>1, <2>2, ReturnMaps DEF A, U
  <2>4. QED
    BY <2>3 DEF p
<1>6. Pending' = Pending
  BY <1>1, <1>5 DEF Pending, A
<1>7. /\ r.sector \in Sector /\ r.n \in Nat /\ r.sector + r.n <= NbSectors
  <2>1. r \in Requests \union {NoRequest} /\ r.type \in RequestType
    BY <1>1 DEF DiskInv, TypeOK, RequestType
  <2>2. QED
    BY <2>1, KnownRequest
<1>8. bf \in BfType /\ NoTable(bf)
  BY TagTypes DEF DiskInv, HeadsInv
<1>9. ASSUME r.type = "IN"
      PROVE  NoTable(bf') /\ \A data : Performed(h, r, data)
  <2>1. bf' = bf /\ x = [status |-> "OK", data |-> BfRead(bf, r.sector, r.n)]
    BY <1>1, <1>9 DEF Callback, Completed, ReqEnd, h, x
  <2>2. BfRead(bf, r.sector, r.n) = [i \in 1 .. r.n |-> DiskNow[r.sector + i - 1]]
    BY <1>7, <1>8, BfReadType DEF DiskNow
  <2>3. QED
    BY <1>5, <1>8, <1>9, <2>1, <2>2 DEF Performed
<1>10. ASSUME r.type = "OUT"
       PROVE  NoTable(bf') /\ \E data \in [1 .. r.n -> Data] : Performed(h, r, data)
  <2>1. PICK data \in [1 .. r.n -> Data] : bf' = BfWrite(bf, r.sector, data)
    BY <1>10 DEF Callback, Completed, h
  <2>2. x = [status |-> "OK", data |-> <<>>]
    BY <1>1, <1>10 DEF Callback, Completed, ReqEnd, h, x
  <2>3. data \in Seq(Data) /\ Len(data) = r.n
    BY <1>7
  <2>4. bf'.mode = bf.mode
    BY <1>7, <1>8, <2>1, <2>3, BfWriteType
  <2>5. /\ NoTable(bf')
        /\ \A t \in Sector : BfSector(bf', t)
             = IF bf.mode # "RO" /\ t \in r.sector .. r.sector + r.n - 1
               THEN data[t - r.sector + 1] ELSE BfSector(bf, t)
    <3>1. r.sector + Len(data) <= NbSectors
      BY <1>7, <2>3
    <3>2. /\ NoTable(bf')
          /\ \A t \in Sector : BfSector(bf', t)
               = IF bf.mode # "RO" /\ t \in r.sector .. r.sector + Len(data) - 1
                 THEN data[t - r.sector + 1] ELSE BfSector(bf, t)
      BY <1>7, <1>8, <2>1, <2>3, <3>1, BfWriteDisk
    <3>3. QED
      BY <2>3, <3>2
  <2>6. Performed(h, r, data)
    BY <1>1, <1>5, <1>10, <2>2, <2>4, <2>5 DEF Performed
  <2>7. QED
    BY <2>5, <2>6
<1>11. NoTable(bf')
  BY <1>1, <1>9, <1>10
<1>12. \E data \in [1 .. r.n -> Data] : Performed(h, r, data)
  <2>1. \E data : data \in [1 .. r.n -> Data]
    <3>1. PICK d \in Data : TRUE
      BY DataAssumption
    <3>2. [i \in 1 .. r.n |-> d] \in [1 .. r.n -> Data]
      OBVIOUS
    <3>3. QED
      BY <3>2
  <2>2. QED
    BY <1>1, <1>9, <1>10, <2>1
<1>13. HeadsInv'
  BY <1>1, <1>2, <1>5, <1>11 DEF HeadsInv, driver
<1>14. D!Next
  <2>1. PICK data \in [1 .. r.n -> Data] : Performed(h, r, data)
    BY <1>12
  <2>2. /\ Current.tag = h /\ Current.req = r /\ Current # NoneCurrent
        /\ Current.req.type \in {"IN", "OUT"}
    <3>1. Current.tag = h /\ Current.req = r
      BY <1>2
    <3>2. NoneCurrent.req.type = "NONE"
      BY DEF NoneCurrent, NoRequest
    <3>3. QED
      BY <1>1, <3>1, <3>2
  <2>3. QED
    BY <1>2, <1>6, <2>1, <2>2, IsComplete DEF DiskInv
<1>15. QED
  BY <1>13, <1>14 DEF DiskStep

LEMMA DiskSteps ==
  ASSUME DiskInv, NoStalledRequest, [Next]_vars
  PROVE  DiskInv' /\ DiskStep
<1>1. TypeOK'
  BY TypeStep DEF DiskInv
<1>2. QueueIdle'
  BY NotStalledStep DEF DiskInv, NotStalled
<1>3. HeadsInv' /\ DiskStep
  BY <1>1, ResetMaps, SetupMaps, SubmitMaps, IdleMaps, ReapMaps, DropMaps, LaterMaps,
     NowMaps, CallbackMaps DEF Next, Driver, QueueNotify
<1>4. QED
  BY <1>1, <1>2, <1>3 DEF DiskInv

LEMMA DiskInitially ==
  ASSUME Init
  PROVE  DiskInv /\ D!Init
<1>1. TypeOK
  BY TypeInit
<1>2. QueueIdle
  BY DEF Init, QueueInit, QueueIdle
<1>3. HeadsInv
  BY DEF Init, QueueInit, BfInit, HeadsInv, NoTable
<1>4. bf \in BfType
  BY <1>1, TagTypes
<1>5. [s \in Sector |-> BfSector(bf, s)] \in [Sector -> Data]
  BY <1>4 DEF BfSector, BfType
<1>6. D!Init
  BY <1>5 DEF Init, D!Init
<1>7. QED
  BY <1>1, <1>2, <1>3, <1>6 DEF DiskInv

\* Rings, interrupt handler, snapshot and late answers together are a disk:
\* every request is taken in its turn and answered once, with its own data,
\* however often the indices wrap (queue_notify, virtio_consume_desc,
\* virtio_block_req_cb, bf_read_async, bf_write_async).
THEOREM BlockImplementsDisk == Spec => ImplementsDisk
<1>1. Init => DiskInv /\ D!Init
  BY DiskInitially
<1>2. DiskInv /\ NoStalledRequest /\ [Next]_vars => DiskInv' /\ [D!Next]_(D!vars)
  BY DiskSteps DEF DiskStep
<1>3. QED
  BY <1>1, <1>2, NoRequestStalls, PTL DEF Spec, ImplementsDisk, D!Spec
=============================================================================
