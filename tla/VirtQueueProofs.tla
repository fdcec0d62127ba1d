-------------------------- MODULE VirtQueueProofs ---------------------------
(***************************************************************************)
(* Lemmas about a virtqueue, for rings of any size: the entries between    *)
(* two indices, and the heads the driver owns, each of which is in one     *)
(* place at a time.                                                        *)
(***************************************************************************)
EXTENDS VirtQueue, FiniteSetTheorems, TLAPS

-----------------------------------------------------------------------------
(* The queue.                                                              *)

QueueType ==
  [avail_idx : Idx, avail_ring : [Desc -> Desc],
   used_idx : Idx,  used_ring : [Desc -> Desc],
   last_avail_idx : Idx, int_status : SUBSET {UsedBuffer}, irq : BOOLEAN]

LEMMA Mod ==
  ASSUME NEW n \in Nat \ {0}, NEW i \in Int
  PROVE  i % n \in 0 .. n - 1
OBVIOUS

LEMMA Division ==
  ASSUME NEW n \in Nat \ {0}, NEW i \in Int
  PROVE  i \div n \in Int /\ i = n * (i \div n) + (i % n)
OBVIOUS

LEMMA Indices ==
  /\ 0 \in Desc /\ 0 \in Idx
  /\ \A i \in Idx : Slot(i) \in Desc /\ NextIdx(i) \in Idx
<1>1. IdxSpace \in Nat \ {0} /\ QueueNum \in Nat \ {0}
  BY QueueNumAssumption, IdxSpaceAssumption
<1>2. 0 \in Desc /\ 0 \in Idx
  BY <1>1 DEF Desc, Idx
<1>3. ASSUME NEW i \in Idx
      PROVE  Slot(i) \in Desc /\ NextIdx(i) \in Idx
  BY <1>1, Mod DEF Slot, NextIdx, Desc, Idx
<1>4. QED
  BY <1>2, <1>3

LEMMA QueueOperators ==
  ASSUME NEW q \in QueueType, NEW h \in Desc
  PROVE  /\ EmptyRings(q) \in QueueType
         /\ VirtioReset(q) \in QueueType
         /\ Advance(q) \in QueueType
         /\ ConsumeDesc(q, h) \in QueueType
         /\ \A bits : InterruptAck(q, bits) \in QueueType
         /\ AddAvail(q, h) \in QueueType
         /\ NextDesc(q) \in Desc
         /\ \A i \in Idx : UsedDesc(q, i) \in Desc
<1>1. /\ q.avail_idx \in Idx /\ q.used_idx \in Idx /\ q.last_avail_idx \in Idx
      /\ q.avail_ring \in [Desc -> Desc] /\ q.used_ring \in [Desc -> Desc]
      /\ q.irq \in BOOLEAN
  BY DEF QueueType
<1>2. /\ Slot(q.avail_idx) \in Desc /\ Slot(q.used_idx) \in Desc
      /\ Slot(q.last_avail_idx) \in Desc
      /\ NextIdx(q.avail_idx) \in Idx /\ NextIdx(q.used_idx) \in Idx
      /\ NextIdx(q.last_avail_idx) \in Idx
  BY <1>1, Indices
<1>3. EmptyRings(q) \in QueueType /\ VirtioReset(q) \in QueueType
  BY Indices DEF EmptyRings, VirtioReset, QueueType, Head0
<1>4. Advance(q) \in QueueType
  BY <1>2 DEF Advance, QueueType
<1>5. ConsumeDesc(q, h) \in QueueType
  <2>1. [q.used_ring EXCEPT ![Slot(q.used_idx)] = h] \in [Desc -> Desc]
    BY <1>1
  <2>2. q.int_status \union {UsedBuffer} \in SUBSET {UsedBuffer}
    BY DEF QueueType
  <2>3. QED
    BY <1>2, <2>1, <2>2 DEF ConsumeDesc, QueueType
<1>6. ASSUME NEW bits
      PROVE  InterruptAck(q, bits) \in QueueType
  <2>1. q.int_status \ bits \in SUBSET {UsedBuffer}
    BY DEF QueueType
  <2>2. QED
    BY <1>1, <2>1 DEF InterruptAck, QueueType
<1>7. AddAvail(q, h) \in QueueType
  <2>1. [q.avail_ring EXCEPT ![Slot(q.avail_idx)] = h] \in [Desc -> Desc]
    BY <1>1
  <2>2. QED
    BY <1>2, <2>1 DEF AddAvail, QueueType
<1>8. NextDesc(q) \in Desc /\ \A i \in Idx : UsedDesc(q, i) \in Desc
  BY <1>1, <1>2, Indices DEF NextDesc, UsedDesc
<1>9. QED
  BY <1>3, <1>4, <1>5, <1>6, <1>7, <1>8

-----------------------------------------------------------------------------
(* Entries of a ring.                                                      *)

\* Remainders are unique.
LEMMA Remainder ==
  ASSUME NEW n \in Nat \ {0}, NEW q \in Int, NEW r \in 0 .. n - 1
  PROVE  (n * q + r) % n = r
<1> DEFINE x == n * q + r
           p == x \div n
           s == x % n
<1>1. x \in Int
  OBVIOUS
<1>2. p \in Int /\ s \in 0 .. n - 1 /\ x = n * p + s
  BY <1>1
<1>3. n * q + r = n * p + s
  BY <1>2
<1> HIDE DEF x, p, s
<1>4. n * (q - p) = s - r
  BY <1>2, <1>3
<1>5. q - p < 1
  <2>1. SUFFICES ASSUME q - p >= 1 PROVE FALSE
    BY <1>2
  <2>2. n * (q - p) >= n * 1
    BY <1>2, <2>1
  <2>3. QED
    BY <1>2, <1>4, <2>2
<1>6. q - p > -1
  <2>1. SUFFICES ASSUME q - p <= -1 PROVE FALSE
    BY <1>2
  <2>2. n * (q - p) <= n * (-1)
    BY <1>2, <2>1
  <2>3. QED
    BY <1>2, <1>4, <2>2
<1>7. q = p
  BY <1>2, <1>5, <1>6
<1>8. s = r
  BY <1>2, <1>3, <1>7
<1>9. QED
  BY <1>8 DEF s, x

\* An index that has gone round leads to the same slot.
LEMMA SlotWraps ==
  ASSUME NEW x \in Int
  PROVE  Slot(x % IdxSpace) = Slot(x)
<1> DEFINE n == QueueNum
           m == IdxSpace
           c == m \div n
           q == x \div m
           y == x % m
           p == y \div n
           r == y % n
<1>1. n \in Nat \ {0} /\ m \in Nat \ {0} /\ m % n = 0
  BY QueueNumAssumption, IdxSpaceAssumption
<1>2. c \in Int /\ m = n * c
  BY <1>1
<1>3. q \in Int /\ y \in Int /\ x = m * q + y
  BY <1>1, Mod, Division
<1> HIDE DEF m, q, y
<1>4. p \in Int /\ r \in 0 .. n - 1 /\ y = n * p + r
  BY <1>1, <1>3, Mod, Division
<1> HIDE DEF n, m, c, q, y, p, r
<1>5. x = n * (c * q + p) + r
  <2>1. m * q = n * (c * q)
    BY <1>1, <1>2, <1>3
  <2>2. n * (c * q + p) = n * (c * q) + n * p
    BY <1>1, <1>2, <1>3, <1>4
  <2>3. c * q \in Int /\ n * p \in Int
    BY <1>1, <1>2, <1>3, <1>4
  <2>4. QED
    BY <1>1, <1>3, <1>4, <2>1, <2>2, <2>3
<1>6. c * q + p \in Int
  BY <1>2, <1>3, <1>4
<1>7. x % n = r
  BY <1>1, <1>4, <1>5, <1>6, Remainder
<1>8. QED
  BY <1>7 DEF Slot, n, m, y, r

\* Fewer than QueueNum steps do not come back to a slot.
LEMMA SlotsDiffer ==
  ASSUME NEW x \in Int, NEW d \in 1 .. QueueNum - 1
  PROVE  Slot(x) # Slot(x + d)
<1> DEFINE n == QueueNum
           q == x \div n
           r == x % n
<1>1. n \in Nat \ {0}
  BY QueueNumAssumption
<1>2. q \in Int /\ r \in 0 .. n - 1 /\ x = n * q + r
  BY <1>1, Mod
<1> HIDE DEF n, q, r
<1>3. d \in Int /\ 0 < d /\ d < n
  BY <1>1 DEF n
<1>4. CASE r + d < n
  <2>1. x + d = n * q + (r + d) /\ r + d \in 0 .. n - 1
    BY <1>1, <1>2, <1>3, <1>4
  <2>2. (x + d) % n = r + d
    BY <1>1, <1>2, <2>1, Remainder
  <2>3. (x + d) % n # r
    BY <1>1, <1>2, <1>3, <2>2
  <2>4. QED
    BY <2>3 DEF Slot, n, r
<1>5. CASE r + d >= n
  <2>1. x + d = n * (q + 1) + (r + d - n) /\ r + d - n \in 0 .. n - 1 /\ q + 1 \in Int
    BY <1>1, <1>2, <1>3, <1>5
  <2>2. (x + d) % n = r + d - n
    BY <1>1, <2>1, Remainder
  <2>3. (x + d) % n # r
    BY <1>1, <1>2, <1>3, <2>2
  <2>4. QED
    BY <2>3 DEF Slot, n, r
<1>6. QED
  BY <1>1, <1>2, <1>3, <1>4, <1>5

\* Number of entries from one index to another.
Dist(from, to) == (to - from) % IdxSpace

LEMMA SmallMod ==
  ASSUME NEW n \in Nat \ {0}, NEW i \in 0 .. n - 1
  PROVE  i % n = i
OBVIOUS

LEMMA IdxValues ==
  ASSUME NEW i \in Idx
  PROVE  /\ i \in Int
         /\ i < IdxSpace - 1 => NextIdx(i) = i + 1
         /\ i = IdxSpace - 1 => NextIdx(i) = 0
<1>1. IdxSpace \in Nat \ {0}
  BY QueueNumAssumption, IdxSpaceAssumption
<1>2. CASE i < IdxSpace - 1
  BY <1>1, <1>2, SmallMod DEF NextIdx, Idx
<1>3. CASE i = IdxSpace - 1
  <2>1. IdxSpace * 1 + 0 = i + 1
    BY <1>1, <1>3
  <2>2. (IdxSpace * 1 + 0) % IdxSpace = 0
    BY <1>1, Remainder
  <2>3. QED
    BY <1>1, <1>3, <2>1, <2>2 DEF NextIdx
<1>4. QED
  BY <1>1, <1>2, <1>3 DEF Idx

LEMMA DistValue ==
  ASSUME NEW from \in Idx, NEW to \in Idx
  PROVE  /\ from <= to => Dist(from, to) = to - from
         /\ from > to => Dist(from, to) = (to - from) + IdxSpace
<1>1. IdxSpace \in Nat \ {0} /\ from \in Int /\ to \in Int
  BY QueueNumAssumption, IdxSpaceAssumption DEF Idx
<1>2. CASE from <= to
  <2>1. to - from \in 0 .. IdxSpace - 1
    BY <1>1, <1>2 DEF Idx
  <2>2. QED
    BY <1>1, <1>2, <2>1, SmallMod DEF Dist
<1>3. CASE from > to
  <2> DEFINE r == (to - from) + IdxSpace
  <2>1. r \in 0 .. IdxSpace - 1
    BY <1>1, <1>3 DEF Idx
  <2>2. IdxSpace * (-1) + r = to - from
    BY <1>1
  <2>3. (IdxSpace * (-1) + r) % IdxSpace = r
    BY <1>1, <2>1, Remainder
  <2>4. QED
    BY <1>1, <1>3, <2>2, <2>3 DEF Dist
<1>4. QED
  BY <1>1, <1>2, <1>3

LEMMA Distance ==
  ASSUME NEW from \in Idx, NEW to \in Idx
  PROVE  /\ Dist(from, to) \in Nat
         /\ Dist(from, to) = 0 <=> from = to
         /\ from # to => Dist(NextIdx(from), to) = Dist(from, to) - 1
         /\ Dist(from, to) < QueueNum => Dist(from, NextIdx(to)) = Dist(from, to) + 1
         /\ Slot(to) = Slot(from + Dist(from, to))
<1>1. /\ IdxSpace \in Nat \ {0} /\ QueueNum \in Nat \ {0} /\ QueueNum < IdxSpace
      /\ from \in Int /\ to \in Int /\ from >= 0 /\ to >= 0
      /\ from < IdxSpace /\ to < IdxSpace
  BY QueueNumAssumption, IdxSpaceAssumption DEF Idx
<1>2. NextIdx(from) \in Idx /\ NextIdx(to) \in Idx
  BY <1>1, Mod DEF NextIdx, Idx
<1>3. /\ Dist(from, to) \in Nat
      /\ Dist(from, to) = 0 <=> from = to
  BY <1>1, DistValue
<1>4. ASSUME from # to
      PROVE  Dist(NextIdx(from), to) = Dist(from, to) - 1
  <2>1. CASE from < IdxSpace - 1
    BY <1>1, <1>2, <1>4, <2>1, IdxValues, DistValue
  <2>2. CASE from = IdxSpace - 1
    BY <1>1, <1>2, <1>4, <2>2, IdxValues, DistValue
  <2>3. QED
    BY <1>1, <2>1, <2>2
<1>5. ASSUME Dist(from, to) < QueueNum
      PROVE  Dist(from, NextIdx(to)) = Dist(from, to) + 1
  <2>1. CASE to < IdxSpace - 1
    BY <1>1, <1>2, <1>5, <2>1, IdxValues, DistValue
  <2>2. CASE to = IdxSpace - 1
    BY <1>1, <1>2, <1>5, <2>2, IdxValues, DistValue
  <2>3. QED
    BY <1>1, <2>1, <2>2
<1>6. Slot(to) = Slot(from + Dist(from, to))
  <2>1. CASE from <= to
    BY <1>1, <2>1, DistValue
  <2>2. CASE from > to
    <3>1. from + Dist(from, to) = IdxSpace * 1 + to
      BY <1>1, <2>2, DistValue
    <3>2. (IdxSpace * 1 + to) % IdxSpace = to
      BY <1>1, Remainder DEF Idx
    <3>3. from + Dist(from, to) \in Int
      BY <1>1, <1>3
    <3>4. QED
      BY <3>1, <3>2, <3>3, SlotWraps
  <2>3. QED
    BY <1>1, <2>1, <2>2
<1>7. QED
  BY <1>3, <1>4, <1>5, <1>6

LEMMA EntriesAre ==
  ASSUME NEW ring \in [Desc -> Desc], NEW from \in Idx, NEW to \in Idx
  PROVE  LET E == Entries(ring, from, to)
         IN  /\ E \in Seq(Desc)
             /\ Len(E) = Dist(from, to)
             /\ DOMAIN E = 1 .. Dist(from, to)
             /\ \A k \in 1 .. Dist(from, to) : E[k] = ring[Slot(from + (k - 1))]
<1> DEFINE E == Entries(ring, from, to)
           d == Dist(from, to)
<1>1. d \in Nat
  BY Distance
<1>2. E = [k \in 1 .. d |-> ring[Slot(from + k - 1)]]
  BY DEF Entries, Dist
<1>3. \A k \in 1 .. d : from + k - 1 \in Int /\ from + k - 1 = from + (k - 1)
  BY <1>1 DEF Idx
<1>4. \A k \in 1 .. d : ring[Slot(from + k - 1)] \in Desc
  <2>1. QueueNum \in Nat \ {0}
    BY QueueNumAssumption
  <2>2. \A k \in 1 .. d : Slot(from + k - 1) \in Desc
    BY <1>3, <2>1, Mod DEF Slot, Desc
  <2>3. QED
    BY <2>2
<1> HIDE DEF E, d
<1>5. E \in Seq(Desc) /\ Len(E) = d /\ DOMAIN E = 1 .. d
  BY <1>1, <1>2, <1>4
<1>6. \A k \in 1 .. d : E[k] = ring[Slot(from + (k - 1))]
  BY <1>2, <1>3
<1>7. QED
  BY <1>5, <1>6 DEF E, d

\* The device takes, or the driver collects, the first entry.
LEMMA EntriesTail ==
  ASSUME NEW ring \in [Desc -> Desc], NEW from \in Idx, NEW to \in Idx, from # to
  PROVE  /\ Entries(ring, from, to) # <<>>
         /\ Head(Entries(ring, from, to)) = ring[Slot(from)]
         /\ Entries(ring, NextIdx(from), to) = Tail(Entries(ring, from, to))
<1> DEFINE E == Entries(ring, from, to)
           F == Entries(ring, NextIdx(from), to)
           d == Dist(from, to)
<1>1. IdxSpace \in Nat \ {0} /\ from \in Int
  BY QueueNumAssumption, IdxSpaceAssumption DEF Idx
<1>2. NextIdx(from) \in Idx
  BY <1>1, Mod DEF NextIdx, Idx
<1>3. d \in Nat /\ d >= 1 /\ Dist(NextIdx(from), to) = d - 1
  BY Distance
<1>4. /\ E \in Seq(Desc) /\ Len(E) = d
      /\ \A k \in 1 .. d : E[k] = ring[Slot(from + (k - 1))]
  BY EntriesAre
<1>5. /\ F \in Seq(Desc) /\ Len(F) = d - 1
      /\ \A k \in 1 .. d - 1 : F[k] = ring[Slot(NextIdx(from) + (k - 1))]
  <2> DEFINE s == NextIdx(from)
             t == Dist(s, to)
  <2>1. s \in Idx
    BY <1>2
  <2>2. t = d - 1
    BY <1>3
  <2> HIDE DEF s, d
  <2>3. /\ Entries(ring, s, to) \in Seq(Desc) /\ Len(Entries(ring, s, to)) = t
        /\ \A k \in 1 .. t : Entries(ring, s, to)[k] = ring[Slot(s + (k - 1))]
    BY <2>1, EntriesAre
  <2> HIDE DEF t
  <2>4. /\ Entries(ring, s, to) \in Seq(Desc) /\ Len(Entries(ring, s, to)) = d - 1
        /\ \A k \in 1 .. d - 1 : Entries(ring, s, to)[k] = ring[Slot(s + (k - 1))]
    BY <2>2, <2>3
  <2>5. QED
    BY <2>4 DEF s
<1> HIDE DEF E, F, d
<1>6. E # <<>>
  BY <1>3, <1>4
<1>7. Head(E) = ring[Slot(from)]
  <2>1. E[1] = ring[Slot(from + (1 - 1))] /\ from + (1 - 1) = from
    BY <1>1, <1>3, <1>4
  <2>2. QED
    BY <1>4, <1>6, <2>1
<1>8. ASSUME NEW k \in 1 .. d - 1
      PROVE  F[k] = E[k + 1]
  <2>1. Slot(NextIdx(from) + (k - 1)) = Slot(from + k)
    <3>1. CASE from < IdxSpace - 1
      <4>1. NextIdx(from) + (k - 1) = from + k
        BY <1>1, <1>3, <3>1, IdxValues
      <4>2. QED
        BY <4>1
    <3>2. CASE from = IdxSpace - 1
      <4>1. NextIdx(from) + (k - 1) = k - 1
        BY <1>1, <1>3, <3>2, IdxValues
      <4>2. from + k = IdxSpace * 1 + (k - 1) /\ from + k \in Int
        BY <1>1, <1>3, <3>2
      <4>3. d <= IdxSpace
        <5>1. Dist(from, to) <= IdxSpace
          BY <1>1, Mod DEF Dist, Idx
        <5>2. QED
          BY <5>1 DEF d
      <4>4. (IdxSpace * 1 + (k - 1)) % IdxSpace = k - 1
        <5>1. k - 1 \in 0 .. IdxSpace - 1
          BY <1>1, <1>3, <4>3
        <5>2. QED
          BY <1>1, <5>1, Remainder
      <4>5. QED
        BY <4>1, <4>2, <4>4, SlotWraps
    <3>3. QED
      BY <1>1, <3>1, <3>2 DEF Idx
  <2>2. E[k + 1] = ring[Slot(from + k)]
    <3>1. k + 1 \in 1 .. d /\ (k + 1) - 1 = k
      BY <1>3
    <3>2. QED
      BY <1>4, <3>1
  <2>3. QED
    BY <1>5, <2>1, <2>2
<1>9. F = Tail(E)
  <2>1. Tail(E) \in Seq(Desc) /\ Len(Tail(E)) = d - 1
    BY <1>3, <1>4, <1>6
  <2>2. \A k \in 1 .. d - 1 : Tail(E)[k] = E[k + 1]
    BY <1>3, <1>4, <1>6
  <2>3. \A k \in 1 .. d - 1 : F[k] = Tail(E)[k]
    BY <1>8, <2>2
  <2>4. QED
    BY <1>3, <1>5, <2>1, <2>3
<1>10. QED
  BY <1>6, <1>7, <1>9 DEF E, F

\* The driver submits, or the device returns, one entry: the ring has room.
LEMMA EntriesAppend ==
  ASSUME NEW ring \in [Desc -> Desc], NEW from \in Idx, NEW to \in Idx, NEW h \in Desc,
         Len(Entries(ring, from, to)) < QueueNum
  PROVE  Entries([ring EXCEPT ![Slot(to)] = h], from, NextIdx(to))
           = Append(Entries(ring, from, to), h)
<1> DEFINE E == Entries(ring, from, to)
           new == [ring EXCEPT ![Slot(to)] = h]
           F == Entries(new, from, NextIdx(to))
           d == Dist(from, to)
<1>1. IdxSpace \in Nat \ {0} /\ QueueNum \in Nat \ {0} /\ from \in Int /\ to \in Int
  BY QueueNumAssumption, IdxSpaceAssumption DEF Idx
<1>2. NextIdx(to) \in Idx
  BY Indices
<1>3. Slot(to) \in Desc /\ new \in [Desc -> Desc]
  BY Indices
<1>4. /\ E \in Seq(Desc) /\ Len(E) = d
      /\ \A k \in 1 .. d : E[k] = ring[Slot(from + (k - 1))]
  BY EntriesAre
<1>5. d \in Nat /\ d < QueueNum /\ Dist(from, NextIdx(to)) = d + 1 /\ Slot(to) = Slot(from + d)
  BY <1>4, Distance
<1>6. /\ F \in Seq(Desc) /\ Len(F) = d + 1
      /\ \A k \in 1 .. d + 1 : F[k] = new[Slot(from + (k - 1))]
  <2> HIDE DEF d, new
  <2>1. /\ F \in Seq(Desc) /\ Len(F) = Dist(from, NextIdx(to))
        /\ \A k \in 1 .. Dist(from, NextIdx(to)) : F[k] = new[Slot(from + (k - 1))]
    BY <1>2, <1>3, EntriesAre
  <2>2. QED
    BY <1>5, <2>1
<1>7. new[Slot(to)] = h /\ \A s \in Desc : s # Slot(to) => new[s] = ring[s]
  BY <1>3
<1> HIDE DEF E, F, d, new
<1>8. F[d + 1] = h
  <2>1. F[d + 1] = new[Slot(from + ((d + 1) - 1))] /\ (d + 1) - 1 = d
    BY <1>5, <1>6
  <2>2. QED
    BY <1>5, <1>7, <2>1
<1>9. ASSUME NEW k \in 1 .. d
      PROVE  F[k] = E[k]
  <2> DEFINE x == from + (k - 1)
             e == d - (k - 1)
  <2>1. x \in Int /\ e \in 1 .. QueueNum - 1 /\ x + e = from + d
    BY <1>1, <1>5
  <2> HIDE DEF x, e
  <2>2. Slot(x) # Slot(x + e)
    BY <2>1, SlotsDiffer
  <2>3. Slot(x) \in Desc
    BY <1>1, <2>1, Mod DEF Slot, Desc
  <2>4. new[Slot(x)] = ring[Slot(x)]
    BY <1>5, <1>7, <2>1, <2>2, <2>3
  <2>5. k \in 1 .. d + 1
    BY <1>5
  <2>6. QED
    BY <1>4, <1>6, <2>4, <2>5 DEF x
<1>10. F = Append(E, h)
  <2>1. Append(E, h) \in Seq(Desc) /\ Len(Append(E, h)) = d + 1
    BY <1>4
  <2>2. \A k \in 1 .. d + 1 : F[k] = Append(E, h)[k]
    BY <1>4, <1>5, <1>8, <1>9
  <2>3. QED
    BY <1>5, <1>6, <2>1, <2>2
<1>11. QED
  BY <1>10 DEF E, F, new

LEMMA EntriesEmpty ==
  ASSUME NEW ring \in [Desc -> Desc], NEW i \in Idx
  PROVE  Entries(ring, i, i) = <<>>
<1>1. Dist(i, i) = 0
  BY Distance
<1>2. QED
  BY <1>1, EntriesAre

-----------------------------------------------------------------------------
(* Heads.  A head in use is in one place: avail, in progress, or used.     *)

MapSeq(f, s) == [k \in DOMAIN s |-> f[s[k]]]

LEMMA MapSeqIs ==
  ASSUME NEW S, NEW f \in [Desc -> S], NEW s \in Seq(Desc)
  PROVE  LET m == MapSeq(f, s)
         IN  /\ m \in Seq(S)
             /\ Len(m) = Len(s)
             /\ \A k \in 1 .. Len(s) : m[k] = f[s[k]]
<1> DEFINE m == MapSeq(f, s)
           n == Len(s)
<1>1. n \in Nat /\ DOMAIN s = 1 .. n /\ \A k \in 1 .. n : s[k] \in Desc
  OBVIOUS
<1>2. m = [k \in 1 .. n |-> f[s[k]]]
  BY <1>1 DEF MapSeq
<1> HIDE DEF n, m
<1>3. m \in Seq(S)
  BY <1>1, <1>2
<1>4. Len(m) = n
  BY <1>1, <1>2, <1>3
<1>5. QED
  BY <1>2, <1>3, <1>4 DEF m, n

LEMMA MapSeqTail ==
  ASSUME NEW S, NEW f \in [Desc -> S], NEW s \in Seq(Desc), s # <<>>
  PROVE  /\ MapSeq(f, s) # <<>>
         /\ Head(MapSeq(f, s)) = f[Head(s)]
         /\ Tail(MapSeq(f, s)) = MapSeq(f, Tail(s))
<1> DEFINE m == MapSeq(f, s)
           u == Tail(s)
           t == MapSeq(f, u)
           n == Len(s)
<1>1. n \in Nat /\ n >= 1 /\ Head(s) = s[1]
  OBVIOUS
<1>2. u \in Seq(Desc) /\ Len(u) = n - 1
  OBVIOUS
<1>3. \A k \in 1 .. n - 1 : u[k] = s[k + 1]
  BY <1>1
<1>4. m \in Seq(S) /\ Len(m) = n /\ \A k \in 1 .. n : m[k] = f[s[k]]
  BY MapSeqIs
<1> HIDE DEF m, n, u
<1>5. t \in Seq(S) /\ Len(t) = n - 1 /\ \A k \in 1 .. n - 1 : t[k] = f[u[k]]
  <2>1. t \in Seq(S) /\ Len(t) = Len(u) /\ \A k \in 1 .. Len(u) : t[k] = f[u[k]]
    BY <1>2, MapSeqIs
  <2>2. QED
    BY <1>2, <2>1
<1> HIDE DEF t
<1>6. m # <<>> /\ Head(m) = f[Head(s)]
  BY <1>1, <1>4
<1>7. Tail(m) \in Seq(S) /\ Len(Tail(m)) = n - 1
  BY <1>1, <1>4, <1>6
<1>8. \A k \in 1 .. n - 1 : Tail(m)[k] = t[k]
  <2>1. \A k \in 1 .. n - 1 : Tail(m)[k] = m[k + 1] /\ k + 1 \in 1 .. n
    BY <1>1, <1>4, <1>6
  <2>2. QED
    BY <1>1, <1>3, <1>4, <1>5, <2>1
<1>9. Tail(m) = t
  BY <1>1, <1>5, <1>7, <1>8
<1>10. QED
  BY <1>6, <1>9 DEF m, t, u

LEMMA MapSeqAppend ==
  ASSUME NEW S, NEW f \in [Desc -> S], NEW s \in Seq(Desc), NEW h \in Desc
  PROVE  MapSeq(f, Append(s, h)) = Append(MapSeq(f, s), f[h])
<1> DEFINE m == MapSeq(f, s)
           u == Append(s, h)
           t == MapSeq(f, u)
           n == Len(s)
<1>1. n \in Nat
  OBVIOUS
<1>2. u \in Seq(Desc) /\ Len(u) = n + 1
  OBVIOUS
<1>3. /\ u[n + 1] = h
      /\ \A k \in 1 .. n : u[k] = s[k]
  OBVIOUS
<1>6. f[h] \in S
  OBVIOUS
<1>4. m \in Seq(S) /\ Len(m) = n /\ \A k \in 1 .. n : m[k] = f[s[k]]
  BY MapSeqIs
<1> HIDE DEF m, n, u
<1>5. t \in Seq(S) /\ Len(t) = n + 1 /\ \A k \in 1 .. n + 1 : t[k] = f[u[k]]
  <2>1. t \in Seq(S) /\ Len(t) = Len(u) /\ \A k \in 1 .. Len(u) : t[k] = f[u[k]]
    BY <1>2, MapSeqIs
  <2>2. QED
    BY <1>2, <2>1
<1> HIDE DEF t
<1>7. Append(m, f[h]) \in Seq(S) /\ Len(Append(m, f[h])) = n + 1
  BY <1>1, <1>4, <1>6
<1>8. \A k \in 1 .. n + 1 : Append(m, f[h])[k] = t[k]
  <2>1. /\ Append(m, f[h])[n + 1] = f[h]
        /\ \A k \in 1 .. n : Append(m, f[h])[k] = m[k]
    BY <1>1, <1>4, <1>6
  <2>2. t[n + 1] = f[h] /\ \A k \in 1 .. n : t[k] = f[s[k]]
    BY <1>1, <1>3, <1>5
  <2>3. \A k \in 1 .. n + 1 : k = n + 1 \/ k \in 1 .. n
    BY <1>1
  <2>4. QED
    BY <1>4, <2>1, <2>2, <2>3
<1>9. Append(m, f[h]) = t
  BY <1>1, <1>5, <1>7, <1>8
<1>10. QED
  BY <1>9 DEF m, t, u

LEMMA MapSeqAgree ==
  ASSUME NEW f, NEW g, NEW s \in Seq(Desc), \A k \in DOMAIN s : f[s[k]] = g[s[k]]
  PROVE  MapSeq(f, s) = MapSeq(g, s)
BY DEF MapSeq

\* avail, used and current are the heads in the avail ring, in the used ring,
\* and in progress; owned are those the driver uses.
HeadsOK(avail, used, current, owned) ==
  /\ owned \in SUBSET Desc
  /\ avail \in Seq(Desc) /\ used \in Seq(Desc)
  /\ current \in SUBSET Desc /\ IsFiniteSet(current)
  /\ \A k \in 1 .. Len(avail) : avail[k] \in owned /\ avail[k] \notin current
  /\ \A k \in 1 .. Len(used) : used[k] \in owned /\ used[k] \notin current
  /\ \A h \in current : h \in owned
  /\ \A k, l \in 1 .. Len(avail) : avail[k] = avail[l] => k = l
  /\ \A k, l \in 1 .. Len(used) : used[k] = used[l] => k = l
  /\ \A k \in 1 .. Len(avail), l \in 1 .. Len(used) : avail[k] # used[l]
  /\ Len(avail) + Len(used) + Cardinality(current) <= Cardinality(owned)

LEMMA OwnedBound ==
  ASSUME NEW owned \in SUBSET Desc
  PROVE  /\ IsFiniteSet(owned) /\ Cardinality(owned) \in Nat
         /\ Cardinality(owned) <= QueueNum
         /\ \A h \in Desc \ owned : Cardinality(owned) < QueueNum
<1>1. QueueNum \in Nat /\ QueueNum >= 1
  BY QueueNumAssumption
<1>2. IsFiniteSet(Desc) /\ Cardinality(Desc) = QueueNum
  <2>1. 0 \in Int /\ QueueNum - 1 \in Int
    BY <1>1
  <2>2. Cardinality(Desc) = IF 0 > QueueNum - 1 THEN 0 ELSE (QueueNum - 1) - 0 + 1
    BY <2>1, FS_Interval DEF Desc
  <2>3. QED
    BY <1>1, <2>1, <2>2, FS_Interval DEF Desc
<1>3. /\ IsFiniteSet(owned) /\ Cardinality(owned) <= QueueNum
      /\ Cardinality(owned) = QueueNum => owned = Desc
  BY <1>2, FS_Subset
<1>4. Cardinality(owned) \in Nat
  BY <1>3, FS_CardinalityType
<1>5. QED
  BY <1>1, <1>3, <1>4

LEMMA AppendIs ==
  ASSUME NEW s \in Seq(Desc), NEW h \in Desc
  PROVE  /\ Append(s, h) \in Seq(Desc) /\ Len(Append(s, h)) = Len(s) + 1
         /\ \A k \in 1 .. Len(s) + 1 :
              Append(s, h)[k] = IF k = Len(s) + 1 THEN h ELSE s[k]
OBVIOUS

LEMMA TailIs ==
  ASSUME NEW s \in Seq(Desc), s # <<>>
  PROVE  /\ Tail(s) \in Seq(Desc) /\ Len(Tail(s)) = Len(s) - 1 /\ Len(s) >= 1
         /\ Head(s) = s[1] /\ Head(s) \in Desc
         /\ \A k \in 1 .. Len(s) - 1 : Tail(s)[k] = s[k + 1]
OBVIOUS

LEMMA InjectiveAppend ==
  ASSUME NEW n \in Nat, NEW s, NEW new, NEW h,
         \A k \in 1 .. n + 1 : new[k] = IF k = n + 1 THEN h ELSE s[k],
         \A k, l \in 1 .. n : s[k] = s[l] => k = l,
         \A k \in 1 .. n : s[k] # h
  PROVE  \A k, l \in 1 .. n + 1 : new[k] = new[l] => k = l
<1> SUFFICES ASSUME NEW k \in 1 .. n + 1, NEW l \in 1 .. n + 1, new[k] = new[l]
             PROVE  k = l
  OBVIOUS
<1>1. k = n + 1 \/ (k \in 1 .. n /\ k # n + 1)
  OBVIOUS
<1>2. l = n + 1 \/ (l \in 1 .. n /\ l # n + 1)
  OBVIOUS
<1>3. (k = n + 1 => new[k] = h) /\ (k # n + 1 => new[k] = s[k])
  OBVIOUS
<1>4. (l = n + 1 => new[l] = h) /\ (l # n + 1 => new[l] = s[l])
  OBVIOUS
<1>5. QED
  BY <1>1, <1>2, <1>3, <1>4

\* The driver submits h.
LEMMA HeadsSubmit ==
  ASSUME NEW avail, NEW used, NEW current, NEW owned, NEW h \in Desc, h \notin owned,
         HeadsOK(avail, used, current, owned)
  PROVE  /\ Len(avail) < QueueNum
         /\ \A k \in 1 .. Len(avail) : avail[k] # h
         /\ \A k \in 1 .. Len(used) : used[k] # h
         /\ h \notin current
         /\ HeadsOK(Append(avail, h), used, current, owned \union {h})
<1> DEFINE new == Append(avail, h)
           n == Len(avail)
           both == owned \union {h}
<1>1. n \in Nat /\ Len(used) \in Nat /\ Cardinality(current) \in Nat
  BY FS_CardinalityType DEF HeadsOK
<1>2. IsFiniteSet(owned) /\ Cardinality(owned) \in Nat /\ Cardinality(owned) < QueueNum
  BY OwnedBound DEF HeadsOK
<1>3. n + Len(used) + Cardinality(current) <= Cardinality(owned)
  BY DEF HeadsOK
<1>4. n < QueueNum
  BY <1>1, <1>2, <1>3, QueueNumAssumption
<1>5. Cardinality(both) = Cardinality(owned) + 1
  BY <1>2, FS_AddElement
<1>6. new \in Seq(Desc) /\ Len(new) = n + 1
      /\ \A k \in 1 .. n + 1 : new[k] = IF k = n + 1 THEN h ELSE avail[k]
  BY AppendIs DEF HeadsOK
<1>7. both \in SUBSET Desc /\ h \in both /\ owned \subseteq both
  BY DEF HeadsOK
<1> HIDE DEF new, n, both
<1>8. /\ \A k \in 1 .. n : avail[k] # h
      /\ \A k \in 1 .. Len(used) : used[k] # h
      /\ h \notin current
  BY DEF HeadsOK, n
<1>9. \A k \in 1 .. n + 1 : new[k] = h \/ (k \in 1 .. n /\ new[k] = avail[k])
  BY <1>1, <1>6
<1>10. \A k \in 1 .. n + 1 : new[k] \in both /\ new[k] \notin current
  BY <1>7, <1>8, <1>9 DEF HeadsOK, n
<1>11. /\ \A k \in 1 .. Len(used) : used[k] \in both /\ used[k] \notin current
       /\ \A g \in current : g \in both
  BY <1>7 DEF HeadsOK
<1>12. \A k, l \in 1 .. n + 1 : new[k] = new[l] => k = l
  <2>1. \A k, l \in 1 .. n : avail[k] = avail[l] => k = l
    BY DEF HeadsOK, n
  <2>2. QED
    BY <1>1, <1>6, <1>8, <2>1, InjectiveAppend
<1>13. \A k \in 1 .. n + 1, l \in 1 .. Len(used) : new[k] # used[l]
  BY <1>8, <1>9 DEF HeadsOK, n
<1>14. (n + 1) + Len(used) + Cardinality(current) <= Cardinality(both)
  BY <1>1, <1>2, <1>3, <1>5
<1>15. HeadsOK(new, used, current, both)
  BY <1>6, <1>7, <1>10, <1>11, <1>12, <1>13, <1>14 DEF HeadsOK
<1>16. QED
  BY <1>4, <1>8, <1>15 DEF n, new, both

\* The device takes the first head of the avail ring: it is in no other place.
LEMMA HeadsTake ==
  ASSUME NEW avail, NEW used, NEW current, NEW owned,
         avail # <<>>, HeadsOK(avail, used, current, owned)
  PROVE  /\ Head(avail) \in Desc /\ Head(avail) \in owned
         /\ Head(avail) \notin current
         /\ \A k \in 1 .. Len(Tail(avail)) : Tail(avail)[k] # Head(avail)
         /\ \A k \in 1 .. Len(used) : used[k] # Head(avail)
         /\ HeadsOK(Tail(avail), used, current, owned)
         /\ Len(Tail(avail)) + Len(used) + Cardinality(current) + 1 <= Cardinality(owned)
<1> DEFINE rest == Tail(avail)
           h == Head(avail)
           n == Len(avail)
           c == Cardinality(owned)
<1>1. n \in Nat /\ Len(used) \in Nat /\ Cardinality(current) \in Nat /\ c \in Nat
  BY FS_CardinalityType, OwnedBound DEF HeadsOK
<1>2. /\ rest \in Seq(Desc) /\ Len(rest) = n - 1 /\ n >= 1
      /\ h = avail[1] /\ h \in Desc
      /\ \A k \in 1 .. n - 1 : rest[k] = avail[k + 1]
  BY TailIs DEF HeadsOK
<1>3. n + Len(used) + Cardinality(current) <= c
  BY DEF HeadsOK
<1> HIDE DEF rest, h, n, c
<1>4. \A k \in 1 .. n - 1 : k + 1 \in 1 .. n /\ k + 1 # 1
  BY <1>1
<1>5. 1 \in 1 .. n
  BY <1>1, <1>2
<1>6. \A k \in 1 .. n - 1 : /\ rest[k] \in owned /\ rest[k] \notin current
                            /\ rest[k] # h
  <2> SUFFICES ASSUME NEW k \in 1 .. n - 1
               PROVE  rest[k] \in owned /\ rest[k] \notin current /\ rest[k] # h
    OBVIOUS
  <2>1. rest[k] = avail[k + 1] /\ k + 1 \in 1 .. n /\ k + 1 # 1
    BY <1>2, <1>4
  <2>2. avail[k + 1] \in owned /\ avail[k + 1] \notin current
    BY <2>1 DEF HeadsOK, n
  <2>3. avail[k + 1] # avail[1]
    BY <1>5, <2>1 DEF HeadsOK, n
  <2>4. QED
    BY <1>2, <2>1, <2>2, <2>3
<1>7. h \in owned /\ h \notin current
      /\ \A k \in 1 .. Len(used) : used[k] # h
  BY <1>2, <1>5 DEF HeadsOK, n
<1>8. \A k, l \in 1 .. n - 1 : rest[k] = rest[l] => k = l
  <2> SUFFICES ASSUME NEW k \in 1 .. n - 1, NEW l \in 1 .. n - 1, rest[k] = rest[l]
               PROVE  k = l
    OBVIOUS
  <2>1. avail[k + 1] = avail[l + 1]
    BY <1>2
  <2>2. k + 1 = l + 1
    BY <1>4, <2>1 DEF HeadsOK, n
  <2>3. QED
    BY <2>2
<1>9. \A k \in 1 .. n - 1, l \in 1 .. Len(used) : rest[k] # used[l]
  BY <1>2, <1>4 DEF HeadsOK, n
<1>10. (n - 1) + Len(used) + Cardinality(current) <= c
  BY <1>1, <1>3
<1>11. HeadsOK(rest, used, current, owned)
  BY <1>2, <1>6, <1>8, <1>9, <1>10 DEF HeadsOK, c
<1>12. (n - 1) + Len(used) + Cardinality(current) + 1 <= c
  BY <1>1, <1>3
<1>13. QED
  BY <1>2, <1>6, <1>7, <1>11, <1>12 DEF rest, h, c

\* A head that is in no place is returned: the used ring has room for it.
LEMMA HeadsReturn ==
  ASSUME NEW avail, NEW used, NEW current, NEW owned, NEW h \in Desc,
         HeadsOK(avail, used, current, owned), h \in owned, h \notin current,
         \A k \in 1 .. Len(avail) : avail[k] # h,
         \A k \in 1 .. Len(used) : used[k] # h,
         Len(avail) + Len(used) + Cardinality(current) + 1 <= Cardinality(owned)
  PROVE  /\ Len(used) < QueueNum
         /\ HeadsOK(avail, Append(used, h), current, owned)
<1> DEFINE new == Append(used, h)
           n == Len(used)
           c == Cardinality(owned)
<1>1. Len(avail) \in Nat /\ n \in Nat /\ Cardinality(current) \in Nat
      /\ c \in Nat /\ c <= QueueNum /\ QueueNum \in Nat
  BY FS_CardinalityType, OwnedBound, QueueNumAssumption DEF HeadsOK
<1>2. new \in Seq(Desc) /\ Len(new) = n + 1
      /\ \A k \in 1 .. n + 1 : new[k] = IF k = n + 1 THEN h ELSE used[k]
  BY AppendIs DEF HeadsOK
<1>3. Len(avail) + (n + 1) + Cardinality(current) <= c /\ n < QueueNum
  BY <1>1
<1> HIDE DEF new, n, c
<1>4. \A k \in 1 .. n + 1 : new[k] = h \/ (k \in 1 .. n /\ new[k] = used[k])
  BY <1>1, <1>2
<1>5. \A k \in 1 .. n + 1 : new[k] \in owned /\ new[k] \notin current
  BY <1>4 DEF HeadsOK, n
<1>6. \A k, l \in 1 .. n + 1 : new[k] = new[l] => k = l
  <2>1. \A k \in 1 .. n : used[k] # h
    BY DEF n
  <2>2. \A k, l \in 1 .. n : used[k] = used[l] => k = l
    BY DEF HeadsOK, n
  <2>3. n \in Nat /\ \A k \in 1 .. n + 1 : new[k] = IF k = n + 1 THEN h ELSE used[k]
    BY <1>1, <1>2
  <2>4. QED
    BY <2>1, <2>2, <2>3, InjectiveAppend
<1>7. \A k \in 1 .. Len(avail), l \in 1 .. n + 1 : avail[k] # new[l]
  BY <1>4 DEF HeadsOK, n
<1>8. HeadsOK(avail, new, current, owned)
  BY <1>2, <1>3, <1>5, <1>6, <1>7 DEF HeadsOK, c
<1>9. QED
  BY <1>3, <1>8 DEF new, n

\* A head becomes, or stops being, the one in progress.
LEMMA HeadsDefer ==
  ASSUME NEW avail, NEW used, NEW owned, NEW h \in Desc,
         HeadsOK(avail, used, {}, owned), h \in owned,
         \A k \in 1 .. Len(avail) : avail[k] # h,
         \A k \in 1 .. Len(used) : used[k] # h,
         Len(avail) + Len(used) + Cardinality({}) + 1 <= Cardinality(owned)
  PROVE  HeadsOK(avail, used, {h}, owned)
<1>1. IsFiniteSet({h}) /\ Cardinality({h}) = 1 /\ Cardinality({}) = 0
  BY FS_Singleton, FS_EmptySet
<1>2. Len(avail) \in Nat /\ Len(used) \in Nat
  BY DEF HeadsOK
<1>3. Len(avail) + Len(used) + Cardinality({h}) <= Cardinality(owned)
  BY <1>1, <1>2
<1>4. QED
  BY <1>1, <1>3 DEF HeadsOK

LEMMA HeadsComplete ==
  ASSUME NEW avail, NEW used, NEW owned, NEW h \in Desc,
         HeadsOK(avail, used, {h}, owned)
  PROVE  /\ HeadsOK(avail, used, {}, owned)
         /\ h \in owned
         /\ \A k \in 1 .. Len(avail) : avail[k] # h
         /\ \A k \in 1 .. Len(used) : used[k] # h
         /\ Len(avail) + Len(used) + Cardinality({}) + 1 <= Cardinality(owned)
<1>1. IsFiniteSet({}) /\ Cardinality({h}) = 1 /\ Cardinality({}) = 0
  BY FS_Singleton, FS_EmptySet
<1>2. Len(avail) \in Nat /\ Len(used) \in Nat
  BY DEF HeadsOK
<1>3. Len(avail) + Len(used) + Cardinality({}) + 1 <= Cardinality(owned)
  BY <1>1, <1>2 DEF HeadsOK
<1>4. Cardinality(owned) \in Nat
  BY OwnedBound DEF HeadsOK
<1>5. Len(avail) + Len(used) + Cardinality({}) <= Cardinality(owned)
  BY <1>1, <1>2, <1>3, <1>4
<1>6. HeadsOK(avail, used, {}, owned)
  BY <1>1, <1>5 DEF HeadsOK
<1>7. QED
  BY <1>3, <1>6 DEF HeadsOK

\* The driver collects the first head of the used ring and frees it.
LEMMA HeadsReap ==
  ASSUME NEW avail, NEW used, NEW current, NEW owned,
         used # <<>>, HeadsOK(avail, used, current, owned)
  PROVE  /\ Head(used) \in owned /\ Head(used) \notin current
         /\ \A k \in 1 .. Len(avail) : avail[k] # Head(used)
         /\ \A k \in 1 .. Len(Tail(used)) : Tail(used)[k] # Head(used)
         /\ HeadsOK(avail, Tail(used), current, owned \ {Head(used)})
<1> DEFINE rest == Tail(used)
           h == Head(used)
           n == Len(used)
           less == owned \ {h}
<1>1. n \in Nat /\ Len(avail) \in Nat /\ Cardinality(current) \in Nat
  BY FS_CardinalityType DEF HeadsOK
<1>2. /\ rest \in Seq(Desc) /\ Len(rest) = n - 1 /\ n >= 1
      /\ h = used[1] /\ h \in Desc
      /\ \A k \in 1 .. n - 1 : rest[k] = used[k + 1]
  BY TailIs DEF HeadsOK
<1>3. Len(avail) + n + Cardinality(current) <= Cardinality(owned)
      /\ Cardinality(owned) \in Nat /\ IsFiniteSet(owned)
  BY OwnedBound DEF HeadsOK
<1> HIDE DEF rest, h, n
<1>4. \A k \in 1 .. n - 1 : k + 1 \in 1 .. n /\ k + 1 # 1
  BY <1>1
<1>5. 1 \in 1 .. n
  BY <1>1, <1>2
<1>6. /\ h \in owned /\ h \notin current
      /\ \A k \in 1 .. Len(avail) : avail[k] # h
  BY <1>2, <1>5 DEF HeadsOK, n
<1>7. \A k \in 1 .. n - 1 : rest[k] \in owned /\ rest[k] \notin current /\ rest[k] # h
  BY <1>2, <1>4, <1>5 DEF HeadsOK, n
<1>8. \A k, l \in 1 .. n - 1 : rest[k] = rest[l] => k = l
  <2> SUFFICES ASSUME NEW k \in 1 .. n - 1, NEW l \in 1 .. n - 1, rest[k] = rest[l]
               PROVE  k = l
    OBVIOUS
  <2>1. used[k + 1] = used[l + 1]
    BY <1>2
  <2>2. k + 1 = l + 1
    BY <1>4, <2>1 DEF HeadsOK, n
  <2>3. QED
    BY <2>2
<1>9. \A k \in 1 .. Len(avail), l \in 1 .. n - 1 : avail[k] # rest[l]
  BY <1>2, <1>4 DEF HeadsOK, n
<1>10. Cardinality(less) = Cardinality(owned) - 1
  BY <1>3, <1>6, FS_RemoveElement
<1>11. Len(avail) + (n - 1) + Cardinality(current) <= Cardinality(less)
  BY <1>1, <1>3, <1>10
<1>12. /\ less \in SUBSET Desc
       /\ \A k \in 1 .. Len(avail) : avail[k] \in less /\ avail[k] \notin current
       /\ \A k \in 1 .. n - 1 : rest[k] \in less
       /\ \A g \in current : g \in less
  BY <1>6, <1>7 DEF HeadsOK
<1> HIDE DEF less
<1>13. HeadsOK(avail, rest, current, less)
  BY <1>2, <1>7, <1>8, <1>9, <1>11, <1>12 DEF HeadsOK
<1>14. QED
  BY <1>2, <1>6, <1>7, <1>13 DEF rest, h, less

\* The driver begins anew.
LEMMA HeadsEmpty ==
  HeadsOK(<<>>, <<>>, {}, {})
<1>1. IsFiniteSet({}) /\ Cardinality({}) = 0
  BY FS_EmptySet
<1>2. Len(<<>>) + Len(<<>>) + Cardinality({}) <= Cardinality({})
  BY <1>1
<1>3. QED
  BY <1>1, <1>2 DEF HeadsOK

-----------------------------------------------------------------------------
(* The heads in the rings, as the steps of driver and device move them.    *)

Avail(q) == Entries(q.avail_ring, q.last_avail_idx, q.avail_idx)
Used(q, last) == Entries(q.used_ring, last, q.used_idx)

LEMMA AvailAndUsed ==
  ASSUME NEW q \in QueueType, NEW last \in Idx
  PROVE  Avail(q) \in Seq(Desc) /\ Used(q, last) \in Seq(Desc)
BY EntriesAre DEF Avail, Used, QueueType

LEMMA RingTake ==
  ASSUME NEW q \in QueueType, HasAvail(q), NEW last
  PROVE  /\ Avail(q) # <<>> /\ Head(Avail(q)) = NextDesc(q)
         /\ Avail(Advance(q)) = Tail(Avail(q))
         /\ Used(Advance(q), last) = Used(q, last)
<1>1. /\ q.avail_ring \in [Desc -> Desc] /\ q.last_avail_idx \in Idx
      /\ q.avail_idx \in Idx /\ q.last_avail_idx # q.avail_idx
  BY DEF QueueType, HasAvail
<1>2. Avail(q) # <<>> /\ Head(Avail(q)) = NextDesc(q)
      /\ Entries(q.avail_ring, NextIdx(q.last_avail_idx), q.avail_idx) = Tail(Avail(q))
  BY <1>1, EntriesTail DEF Avail, NextDesc
<1>3. /\ Advance(q).avail_ring = q.avail_ring /\ Advance(q).avail_idx = q.avail_idx
      /\ Advance(q).last_avail_idx = NextIdx(q.last_avail_idx)
      /\ Advance(q).used_ring = q.used_ring /\ Advance(q).used_idx = q.used_idx
  BY DEF Advance, QueueType
<1>4. QED
  BY <1>2, <1>3 DEF Avail, Used

LEMMA RingSubmit ==
  ASSUME NEW q \in QueueType, NEW h \in Desc, Len(Avail(q)) < QueueNum, NEW last
  PROVE  /\ Avail(AddAvail(q, h)) = Append(Avail(q), h)
         /\ Used(AddAvail(q, h), last) = Used(q, last)
<1>1. /\ q.avail_ring \in [Desc -> Desc] /\ q.last_avail_idx \in Idx
      /\ q.avail_idx \in Idx
  BY DEF QueueType
<1>2. Entries([q.avail_ring EXCEPT ![Slot(q.avail_idx)] = h], q.last_avail_idx,
              NextIdx(q.avail_idx)) = Append(Avail(q), h)
  BY <1>1, EntriesAppend DEF Avail
<1>3. /\ AddAvail(q, h).avail_ring = [q.avail_ring EXCEPT ![Slot(q.avail_idx)] = h]
      /\ AddAvail(q, h).avail_idx = NextIdx(q.avail_idx)
      /\ AddAvail(q, h).last_avail_idx = q.last_avail_idx
      /\ AddAvail(q, h).used_ring = q.used_ring /\ AddAvail(q, h).used_idx = q.used_idx
  BY DEF AddAvail, QueueType
<1>4. QED
  BY <1>2, <1>3 DEF Avail, Used

LEMMA RingReturn ==
  ASSUME NEW q \in QueueType, NEW h \in Desc, NEW last \in Idx,
         Len(Used(q, last)) < QueueNum
  PROVE  /\ Avail(ConsumeDesc(q, h)) = Avail(q)
         /\ Used(ConsumeDesc(q, h), last) = Append(Used(q, last), h)
<1>1. q.used_ring \in [Desc -> Desc] /\ q.used_idx \in Idx
  BY DEF QueueType
<1>2. Entries([q.used_ring EXCEPT ![Slot(q.used_idx)] = h], last, NextIdx(q.used_idx))
        = Append(Used(q, last), h)
  BY <1>1, EntriesAppend DEF Used
<1>3. /\ ConsumeDesc(q, h).used_ring = [q.used_ring EXCEPT ![Slot(q.used_idx)] = h]
      /\ ConsumeDesc(q, h).used_idx = NextIdx(q.used_idx)
      /\ ConsumeDesc(q, h).last_avail_idx = q.last_avail_idx
      /\ ConsumeDesc(q, h).avail_ring = q.avail_ring
      /\ ConsumeDesc(q, h).avail_idx = q.avail_idx
  BY DEF ConsumeDesc, QueueType
<1>4. QED
  BY <1>2, <1>3 DEF Avail, Used

LEMMA RingReap ==
  ASSUME NEW q \in QueueType, NEW last \in Idx, last # q.used_idx
  PROVE  /\ Used(q, last) # <<>> /\ Head(Used(q, last)) = UsedDesc(q, last)
         /\ Used(q, NextIdx(last)) = Tail(Used(q, last))
BY EntriesTail DEF Used, UsedDesc, QueueType

LEMMA RingSetup ==
  ASSUME NEW q \in QueueType, q.last_avail_idx = 0
  PROVE  Avail(EmptyRings(q)) = <<>> /\ Used(EmptyRings(q), 0) = <<>>
<1> DEFINE zero == [i \in Desc |-> Head0]
<1>1. zero \in [Desc -> Desc] /\ 0 \in Idx
  BY Indices DEF Head0
<1>2. /\ EmptyRings(q).avail_ring = zero /\ EmptyRings(q).avail_idx = 0
      /\ EmptyRings(q).used_ring = zero /\ EmptyRings(q).used_idx = 0
      /\ EmptyRings(q).last_avail_idx = 0
  BY DEF EmptyRings, QueueType
<1> HIDE DEF zero
<1>3. QED
  BY <1>1, <1>2, EntriesEmpty DEF Avail, Used

LEMMA RingAck ==
  ASSUME NEW q \in QueueType, NEW bits, NEW last
  PROVE  Avail(InterruptAck(q, bits)) = Avail(q) /\ Used(InterruptAck(q, bits), last) = Used(q, last)
BY DEF InterruptAck, QueueType, Avail, Used

-----------------------------------------------------------------------------
(* What the device's sectors read as.                                      *)

\* The device takes a head and returns it at once.
LEMMA TakeAndReturn ==
  ASSUME NEW q \in QueueType, NEW last \in Idx, NEW owned, HasAvail(q),
         HeadsOK(Avail(q), Used(q, last), {}, owned)
  PROVE  LET h == NextDesc(q)
             p == ConsumeDesc(Advance(q), h)
         IN  /\ p = Advance(ConsumeDesc(q, h))
             /\ h \in Desc /\ h \in owned
             /\ Avail(q) # <<>> /\ Head(Avail(q)) = h
             /\ \A k \in 1 .. Len(Tail(Avail(q))) : Tail(Avail(q))[k] # h
             /\ \A k \in 1 .. Len(Used(q, last)) : Used(q, last)[k] # h
             /\ Avail(p) = Tail(Avail(q))
             /\ Used(p, last) = Append(Used(q, last), h)
             /\ HeadsOK(Avail(p), Used(p, last), {}, owned)
<1> DEFINE h == NextDesc(q)
           A == Avail(q)
           U == Used(q, last)
           p == ConsumeDesc(Advance(q), h)
<1>1. h \in Desc /\ Advance(q) \in QueueType
  <2>1. 0 \in Desc
    BY Indices
  <2>2. QED
    BY <2>1, QueueOperators
<1>2. A # <<>> /\ Head(A) = h /\ Avail(Advance(q)) = Tail(A) /\ Used(Advance(q), last) = U
  BY RingTake
<1>3. p = Advance(ConsumeDesc(q, h))
  BY DEF ConsumeDesc, Advance, QueueType
<1> HIDE DEF h, A, U, p
<1>4. HeadsOK(A, U, {}, owned)
  BY DEF A, U
<1>5. /\ Head(A) \in owned /\ Head(A) \notin {}
      /\ \A k \in 1 .. Len(Tail(A)) : Tail(A)[k] # Head(A)
      /\ \A k \in 1 .. Len(U) : U[k] # Head(A)
      /\ HeadsOK(Tail(A), U, {}, owned)
      /\ Len(Tail(A)) + Len(U) + Cardinality({}) + 1 <= Cardinality(owned)
  BY <1>2, <1>4, HeadsTake
<1>6. Len(U) < QueueNum /\ HeadsOK(Tail(A), Append(U, h), {}, owned)
  <2> DEFINE B == Tail(A)
  <2>1. /\ HeadsOK(B, U, {}, owned) /\ h \in owned /\ h \notin {}
        /\ \A k \in 1 .. Len(B) : B[k] # h
        /\ \A k \in 1 .. Len(U) : U[k] # h
        /\ Len(B) + Len(U) + Cardinality({}) + 1 <= Cardinality(owned)
    BY <1>2, <1>5
  <2> HIDE DEF B
  <2>2. Len(U) < QueueNum /\ HeadsOK(B, Append(U, h), {}, owned)
    BY <1>1, <2>1, HeadsReturn
  <2>3. QED
    BY <2>2 DEF B
<1>7. Avail(p) = Tail(A) /\ Used(p, last) = Append(U, h)
  BY <1>1, <1>2, <1>6, RingReturn DEF p
<1>8. QED
  BY <1>1, <1>2, <1>3, <1>5, <1>6, <1>7 DEF h, A, U, p
=============================================================================
