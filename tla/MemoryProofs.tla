---------------------------- MODULE MemoryProofs ----------------------------
(***************************************************************************)
(* Theorems about the memory of the guest, from the containers up, for any *)
(* set of pages, frames, bytes and pointers.                               *)
(*                                                                         *)
(* The LRU list and the two-level index: each operation keeps IndexOK, and *)
(* changes the map from pages to pointers exactly as its caller expects.   *)
(* Above them, the page cache keeps PageCacheOK, and seen through          *)
(* StoreView it is an array of pages: set changes one page, get and        *)
(* evictions none.  With that, PageStore is a memory of pages.             *)
(*                                                                         *)
(* The VMM: VmmOK is what every operator of the paging machinery keeps,    *)
(* VmmUsable what it needs on top, until lru_cache_free leaves the direct  *)
(* cache behind; View is what none of them changes but vmm_write_internal. *)
(***************************************************************************)
EXTENDS Vmm, PageStore, LruUse, SequenceTheorems, TLAPS

(***************************************************************************)
(* The direct cache.                                                       *)
(***************************************************************************)

\* A key's cell exists.
LEMMA CellInRange ==
  ASSUME NEW size \in Nat \ {0, 1}, NEW key \in Nat
  PROVE  /\ Cell(size, key) \in Cells(size)
         /\ Cell(size, key) \in Nat
BY DEF Cell, Cells

\* An empty line, key i + 1 in cell i, answers no lookup of its cell.
LEMMA EmptyLineMisses ==
  ASSUME NEW size \in Nat \ {0, 1}, NEW i \in Cells(size)
  PROVE  Cell(size, i + 1) # i
BY DEF Cell, Cells

(***************************************************************************)
(* The list.                                                               *)
(***************************************************************************)

LEMMA RemoveAtProperties ==
  ASSUME NEW S, NEW s \in Seq(S), NEW i \in DOMAIN s
  PROVE  /\ RemoveAt(s, i) \in Seq(S)
         /\ Len(RemoveAt(s, i)) = Len(s) - 1
         /\ \A j \in 1 .. Len(s) - 1 :
              RemoveAt(s, i)[j] = IF j < i THEN s[j] ELSE s[j + 1]
<1> DEFINE a == SubSeq(s, 1, i - 1)
           b == SubSeq(s, i + 1, Len(s))
<1>1. /\ i \in 1 .. Len(s)
      /\ Len(s) \in Nat
      /\ \A k \in 1 .. Len(s) : s[k] \in S
  BY LenProperties, ElementOfSeq
<1>2. /\ a \in Seq(S)
      /\ Len(a) = i - 1
      /\ \A j \in 1 .. i - 1 : a[j] = s[j]
  BY <1>1, SubSeqProperties
<1>3. /\ b \in Seq(S)
      /\ Len(b) = Len(s) - i
      /\ \A j \in 1 .. Len(s) - i : b[j] = s[i + j]
  BY <1>1, SubSeqProperties
<1>4. RemoveAt(s, i) = a \o b
  BY DEF RemoveAt
<1> HIDE DEF a, b
<1>5. QED
  BY <1>1, <1>2, <1>3, <1>4, ConcatProperties

\* Detaching a node takes it out and leaves the others.
LEMMA DetachProperties ==
  ASSUME NEW S, NEW s \in Seq(S), IsInjective(s), NEW k \in S
  PROVE  /\ Detach(s, k) \in Seq(S)
         /\ IsInjective(Detach(s, k))
         /\ \A p \in S : Contains(Detach(s, k), p) <=> Contains(s, p) /\ p # k
         /\ Len(Detach(s, k)) = IF Contains(s, k) THEN Len(s) - 1 ELSE Len(s)
<1>1. /\ Len(s) \in Nat
      /\ DOMAIN s = 1 .. Len(s)
  BY LenProperties
<1>2. CASE ~Contains(s, k)
  BY <1>1, <1>2 DEF Detach, Contains
<1>3. CASE Contains(s, k)
  <2> DEFINE i == CHOOSE i \in DOMAIN s : s[i] = k
             d == RemoveAt(s, i)
  <2>1. /\ i \in DOMAIN s
        /\ s[i] = k
    BY <1>1, <1>3 DEF Contains
  <2>2. Detach(s, k) = d
    BY <1>3 DEF Detach
  <2> HIDE DEF i
  <2>3. /\ d \in Seq(S)
        /\ Len(d) = Len(s) - 1
        /\ \A j \in 1 .. Len(s) - 1 : d[j] = IF j < i THEN s[j] ELSE s[j + 1]
    BY <2>1, RemoveAtProperties
  <2>4. DOMAIN d = 1 .. Len(s) - 1
    BY <2>3, LenProperties
  <2> HIDE DEF d
  <2>5. IsInjective(d)
    BY <1>1, <2>1, <2>3, <2>4 DEF IsInjective
  <2>6. ASSUME NEW p \in S
        PROVE  Contains(d, p) <=> Contains(s, p) /\ p # k
    <3>1. Contains(d, p) => Contains(s, p) /\ p # k
      BY <1>1, <2>1, <2>3 DEF Contains, IsInjective
    <3>2. ASSUME Contains(s, p), p # k
          PROVE  Contains(d, p)
      <4>1. PICK j \in 1 .. Len(s) : s[j] = p
        BY <3>2 DEF Contains
      <4>2. j # i
        BY <2>1, <3>2, <4>1
      <4>3. CASE j < i
        BY <1>1, <2>1, <2>3, <4>1, <4>3 DEF Contains
      <4>4. CASE j > i
        <5>1. /\ j - 1 \in 1 .. Len(d)
              /\ d[j - 1] = p
          BY <1>1, <2>1, <2>3, <4>1, <4>4
        <5>2. QED
          BY <5>1 DEF Contains
      <4>5. QED
        BY <1>1, <2>1, <4>2, <4>3, <4>4
    <3>3. QED
      BY <3>1, <3>2
  <2>7. QED
    BY <1>3, <2>2, <2>3, <2>5, <2>6
<1>4. QED
  BY <1>2, <1>3

\* Pushing a key the list does not hold.
LEMMA ConsProperties ==
  ASSUME NEW S, NEW s \in Seq(S), IsInjective(s), NEW k \in S, ~Contains(s, k)
  PROVE  /\ <<k>> \o s \in Seq(S)
         /\ IsInjective(<<k>> \o s)
         /\ \A p \in S : Contains(<<k>> \o s, p) <=> Contains(s, p) \/ p = k
         /\ Len(<<k>> \o s) = Len(s) + 1
<1> DEFINE c == <<k>> \o s
<1>1. /\ Len(s) \in Nat
      /\ DOMAIN s = 1 .. Len(s)
  BY LenProperties
<1>2. /\ <<k>> \in Seq(S)
      /\ Len(<<k>>) = 1
      /\ <<k>>[1] = k
  OBVIOUS
<1>3. /\ c \in Seq(S)
      /\ Len(c) = Len(s) + 1
      /\ \A i \in 1 .. Len(s) + 1 : c[i] = IF i = 1 THEN k ELSE s[i - 1]
  BY <1>1, <1>2, ConcatProperties
<1>4. DOMAIN c = 1 .. Len(s) + 1
  BY <1>3, LenProperties
<1> HIDE DEF c
<1>5. IsInjective(c)
  <2>1. SUFFICES ASSUME NEW i \in 1 .. Len(s) + 1, NEW j \in 1 .. Len(s) + 1,
                        c[i] = c[j]
                 PROVE  i = j
    BY <1>4 DEF IsInjective
  <2>2. \A m \in 1 .. Len(s) : s[m] # k
    BY DEF Contains
  <2>3. CASE i = 1
    BY <1>1, <1>3, <2>1, <2>2, <2>3
  <2>4. CASE j = 1
    BY <1>1, <1>3, <2>1, <2>2, <2>4
  <2>5. CASE i # 1 /\ j # 1
    <3>1. /\ i - 1 \in DOMAIN s
          /\ j - 1 \in DOMAIN s
          /\ s[i - 1] = s[j - 1]
      BY <1>1, <1>3, <2>1, <2>5
    <3>2. i - 1 = j - 1
      BY <3>1 DEF IsInjective
    <3>3. QED
      BY <1>1, <3>2
  <2>6. QED
    BY <2>3, <2>4, <2>5
<1>6. ASSUME NEW p \in S
      PROVE  Contains(c, p) <=> Contains(s, p) \/ p = k
  <2>1. Contains(c, p) => Contains(s, p) \/ p = k
    BY <1>1, <1>3 DEF Contains
  <2>2. p = k => Contains(c, p)
    BY <1>1, <1>3 DEF Contains
  <2>3. ASSUME Contains(s, p)
        PROVE  Contains(c, p)
    <3>1. PICK j \in 1 .. Len(s) : s[j] = p
      BY <2>3 DEF Contains
    <3>2. /\ j + 1 \in 1 .. Len(c)
          /\ c[j + 1] = p
      BY <1>1, <1>3, <3>1
    <3>3. QED
      BY <3>2 DEF Contains
  <2>4. QED
    BY <2>1, <2>2, <2>3
<1>7. QED
  BY <1>3, <1>5, <1>6 DEF c

\* Moving a key to the head, or adding it there, keeps each key once.
LEMMA PushFrontProperties ==
  ASSUME NEW S, NEW s \in Seq(S), IsInjective(s), NEW k \in S
  PROVE  /\ PushFront(s, k) \in Seq(S)
         /\ IsInjective(PushFront(s, k))
         /\ \A p \in S : Contains(PushFront(s, k), p) <=> Contains(s, p) \/ p = k
         /\ Len(PushFront(s, k)) = IF Contains(s, k) THEN Len(s) ELSE Len(s) + 1
<1> DEFINE d == Detach(s, k)
<1>1. Len(s) \in Nat
  BY LenProperties
<1>2. /\ d \in Seq(S)
      /\ IsInjective(d)
      /\ \A p \in S : Contains(d, p) <=> Contains(s, p) /\ p # k
      /\ Len(d) = IF Contains(s, k) THEN Len(s) - 1 ELSE Len(s)
  BY DetachProperties
<1>3. PushFront(s, k) = <<k>> \o d
  BY DEF PushFront
<1> HIDE DEF d
<1>4. ~Contains(d, k)
  BY <1>2
<1>5. /\ <<k>> \o d \in Seq(S)
      /\ IsInjective(<<k>> \o d)
      /\ \A p \in S : Contains(<<k>> \o d, p) <=> Contains(d, p) \/ p = k
      /\ Len(<<k>> \o d) = Len(d) + 1
  BY <1>2, <1>4, ConsProperties
<1>6. QED
  BY <1>1, <1>2, <1>3, <1>5

(***************************************************************************)
(* The LRU cache.                                                          *)
(***************************************************************************)

LEMMA LruInitOK ==
  ASSUME NEW K, NEW V
  PROVE  /\ LruOK(LruInit, K, V)
         /\ LruKeys(LruInit) = {}
<1>1. /\ LruInit.list = << >>
      /\ LruInit.value = [k \in {} |-> NULL]
      /\ LruInit.access = [k \in {} |-> 0]
      /\ LruInit.number_of_items = 0
  BY DEF LruInit
<1>2. IsInjective(<< >>) /\ << >> \in Seq(K) /\ Len(<< >>) = 0
  BY DEF IsInjective
<1>3. \A k \in K : ~Contains(<< >>, k)
  BY <1>2 DEF Contains
<1>4. QED
  BY <1>1, <1>2, <1>3 DEF LruOK, LruKeys, LruInit

\* A get changes only the order and the counters.
LEMMA LruTouchOK ==
  ASSUME NEW K, NEW V, NEW lru, LruOK(lru, K, V), NEW k \in K
  PROVE  /\ LruOK(LruTouch(lru, k), K, V)
         /\ LruTouch(lru, k).value = lru.value
         /\ LruTouch(lru, k).number_of_items = lru.number_of_items
<1> USE LruMarkingAssumption
<1>1. CASE k \notin LruKeys(lru)
  BY <1>1 DEF LruTouch
<1>2. CASE k \in LruKeys(lru)
  <2> DEFINE n == (lru.access[k] + 1) % LRU_MARKING
             t == LruTouch(lru, k)
             list == IF n = 0 THEN PushFront(lru.list, k) ELSE lru.list
             access == [lru.access EXCEPT ![k] = n]
  <2>1. n \in 0 .. LRU_MARKING - 1
    BY <1>2 DEF LruOK
  <2>2. access \in [LruKeys(lru) -> 0 .. LRU_MARKING - 1]
    BY <2>1 DEF LruOK
  <2>3. t = [list |-> list, value |-> lru.value, access |-> access,
             number_of_items |-> lru.number_of_items]
    BY <1>2 DEF LruTouch, LruOK
  <2>4. Contains(lru.list, k)
    BY <1>2 DEF LruOK
  <2>5. /\ list \in Seq(K)
        /\ IsInjective(list)
        /\ \A p \in K : Contains(list, p) <=> Contains(lru.list, p)
        /\ Len(list) = Len(lru.list)
    <3>1. lru.list \in Seq(K) /\ IsInjective(lru.list)
      BY DEF LruOK
    <3>2. /\ PushFront(lru.list, k) \in Seq(K)
          /\ IsInjective(PushFront(lru.list, k))
          /\ \A p \in K : Contains(PushFront(lru.list, k), p) <=>
                            Contains(lru.list, p) \/ p = k
          /\ Len(PushFront(lru.list, k)) = Len(lru.list)
      BY <2>4, <3>1, PushFrontProperties
    <3>3. QED
      BY <2>4, <3>1, <3>2
  <2> HIDE DEF n, t, list, access
  <2>6. QED
    BY <1>2, <2>2, <2>3, <2>5 DEF LruOK, LruKeys, t
<1>3. QED
  BY <1>1, <1>2

LEMMA LruAddOK ==
  ASSUME NEW K, NEW V, NEW lru, LruOK(lru, K, V),
         NEW k \in K, k \notin LruKeys(lru), NEW v \in V
  PROVE  /\ LruOK(LruAdd(lru, k, v), K, V)
         /\ LruKeys(LruAdd(lru, k, v)) = LruKeys(lru) \cup {k}
         /\ LruAdd(lru, k, v).value[k] = v
         /\ \A p \in LruKeys(lru) : LruAdd(lru, k, v).value[p] = lru.value[p]
         /\ LruAdd(lru, k, v).number_of_items = lru.number_of_items + 1
<1> USE LruMarkingAssumption
<1> DEFINE a == LruAdd(lru, k, v)
<1>1. /\ a.list = <<k>> \o lru.list
      /\ a.number_of_items = lru.number_of_items + 1
      /\ a.value = [p \in LruKeys(lru) \cup {k} |-> IF p = k THEN v ELSE lru.value[p]]
      /\ a.access = [p \in LruKeys(lru) \cup {k} |-> IF p = k THEN 0 ELSE lru.access[p]]
      /\ a = [list |-> a.list, value |-> a.value, access |-> a.access,
              number_of_items |-> a.number_of_items]
  BY DEF LruAdd
<1>2. ~Contains(lru.list, k)
  BY DEF LruOK
<1>3. /\ a.list \in Seq(K)
      /\ IsInjective(a.list)
      /\ \A p \in K : Contains(a.list, p) <=> Contains(lru.list, p) \/ p = k
      /\ Len(a.list) = Len(lru.list) + 1
  BY <1>1, <1>2, ConsProperties DEF LruOK
<1> HIDE DEF a
<1>4. /\ a.value \in [LruKeys(a) -> V]
      /\ a.access \in [LruKeys(a) -> 0 .. LRU_MARKING - 1]
      /\ LruKeys(a) = LruKeys(lru) \cup {k}
  BY <1>1 DEF LruOK, LruKeys
<1>5. LruOK(a, K, V)
  BY <1>1, <1>3, <1>4 DEF LruOK
<1>6. QED
  BY <1>1, <1>4, <1>5 DEF a

LEMMA LruRemoveOK ==
  ASSUME NEW K, NEW V, NEW lru, LruOK(lru, K, V), NEW k \in K
  PROVE  /\ LruOK(LruRemove(lru, k), K, V)
         /\ LruKeys(LruRemove(lru, k)) = LruKeys(lru) \ {k}
         /\ \A p \in LruKeys(lru) \ {k} : LruRemove(lru, k).value[p] = lru.value[p]
         /\ k \in LruKeys(lru) =>
              LruRemove(lru, k).number_of_items = lru.number_of_items - 1
<1>1. CASE k \notin LruKeys(lru)
  BY <1>1 DEF LruRemove
<1>2. CASE k \in LruKeys(lru)
  <2> DEFINE r == LruRemove(lru, k)
  <2>1. /\ r.list = Detach(lru.list, k)
        /\ r.number_of_items = lru.number_of_items - 1
        /\ r.value = [p \in LruKeys(lru) \ {k} |-> lru.value[p]]
        /\ r.access = [p \in LruKeys(lru) \ {k} |-> lru.access[p]]
        /\ r = [list |-> r.list, value |-> r.value, access |-> r.access,
                number_of_items |-> r.number_of_items]
    BY <1>2 DEF LruRemove, Restrict
  <2>2. Contains(lru.list, k)
    BY <1>2 DEF LruOK
  <2>3. /\ r.list \in Seq(K)
        /\ IsInjective(r.list)
        /\ \A p \in K : Contains(r.list, p) <=> Contains(lru.list, p) /\ p # k
        /\ Len(r.list) = Len(lru.list) - 1
    <3>1. lru.list \in Seq(K) /\ IsInjective(lru.list)
      BY DEF LruOK
    <3>2. /\ Detach(lru.list, k) \in Seq(K)
          /\ IsInjective(Detach(lru.list, k))
          /\ \A p \in K : Contains(Detach(lru.list, k), p) <=>
                            Contains(lru.list, p) /\ p # k
          /\ Len(Detach(lru.list, k)) = Len(lru.list) - 1
      BY <2>2, <3>1, DetachProperties
    <3>3. QED
      BY <2>1, <3>2
  <2> HIDE DEF r
  <2>4. /\ r.value \in [LruKeys(r) -> V]
        /\ r.access \in [LruKeys(r) -> 0 .. LRU_MARKING - 1]
        /\ LruKeys(r) = LruKeys(lru) \ {k}
    BY <2>1 DEF LruOK, LruKeys
  <2>5. LruOK(r, K, V)
    BY <2>1, <2>3, <2>4 DEF LruOK
  <2>6. QED
    BY <1>2, <2>1, <2>4, <2>5 DEF r
<1>3. QED
  BY <1>1, <1>2

\* The tail is an indexed key, unless there is none.
LEMMA LruTailOK ==
  ASSUME NEW K, NEW V, NEW lru, LruOK(lru, K, V)
  PROVE  /\ lru.list = << >> <=> LruKeys(lru) = {}
         /\ lru.list = << >> <=> lru.number_of_items = 0
         /\ lru.list # << >> =>
              /\ LruTail(lru) \in LruKeys(lru)
              /\ LeastRecentlyUsed(lru) = lru.value[LruTail(lru)]
<1>1. /\ Len(lru.list) \in Nat
      /\ DOMAIN lru.list = 1 .. Len(lru.list)
      /\ lru.list = << >> <=> Len(lru.list) = 0
      /\ \A i \in 1 .. Len(lru.list) : lru.list[i] \in K
  BY LenProperties, ElementOfSeq, EmptySeq DEF LruOK
<1>2. lru.list # << >> => LruTail(lru) \in LruKeys(lru)
  BY <1>1 DEF LruOK, LruTail, Last, Contains
<1>3. lru.list = << >> => LruKeys(lru) = {}
  BY <1>1 DEF LruOK, Contains
<1>4. QED
  BY <1>1, <1>2, <1>3 DEF LruOK, LeastRecentlyUsed

\* list_rpop takes the tail out.
LEMMA FrontProperties ==
  ASSUME NEW S, NEW s \in Seq(S), IsInjective(s), s # << >>
  PROVE  /\ Front(s) \in Seq(S)
         /\ IsInjective(Front(s))
         /\ \A p \in S : Contains(Front(s), p) <=> Contains(s, p) /\ p # Last(s)
         /\ Len(Front(s)) = Len(s) - 1
<1> DEFINE f == Front(s)
<1>1. /\ Len(s) \in Nat \ {0}
      /\ DOMAIN s = 1 .. Len(s)
      /\ \A i \in 1 .. Len(s) : s[i] \in S
  BY EmptySeq, LenProperties, ElementOfSeq
<1>2. /\ f \in Seq(S)
      /\ Len(f) = Len(s) - 1
      /\ \A i \in 1 .. Len(s) - 1 : f[i] = s[i]
  BY <1>1, SubSeqProperties DEF Front
<1>3. DOMAIN f = 1 .. Len(s) - 1
  BY <1>2, LenProperties
<1> HIDE DEF f
<1>4. IsInjective(f)
  BY <1>1, <1>2, <1>3 DEF IsInjective
<1>5. ASSUME NEW p \in S
      PROVE  Contains(f, p) <=> Contains(s, p) /\ p # Last(s)
  <2>1. Contains(f, p) => Contains(s, p) /\ p # Last(s)
    BY <1>1, <1>2 DEF Contains, IsInjective, Last
  <2>2. Contains(s, p) /\ p # Last(s) => Contains(f, p)
    BY <1>1, <1>2 DEF Contains, Last
  <2>3. QED
    BY <2>1, <2>2
<1>6. QED
  BY <1>2, <1>4, <1>5 DEF f

LEMMA LruFlushTailOK ==
  ASSUME NEW K, NEW V, NEW lru, LruOK(lru, K, V), lru.list # << >>
  PROVE  /\ LruOK(LruFlushTail(lru), K, V)
         /\ LruKeys(LruFlushTail(lru)) = LruKeys(lru) \ {LruTail(lru)}
         /\ \A p \in LruKeys(lru) \ {LruTail(lru)} :
              LruFlushTail(lru).value[p] = lru.value[p]
<1> DEFINE r == LruFlushTail(lru)
           k == LruTail(lru)
<1>1. /\ r.list = Front(lru.list)
      /\ r.number_of_items = lru.number_of_items - 1
      /\ r.value = [p \in LruKeys(lru) \ {k} |-> lru.value[p]]
      /\ r.access = [p \in LruKeys(lru) \ {k} |-> lru.access[p]]
      /\ r = [list |-> r.list, value |-> r.value, access |-> r.access,
              number_of_items |-> r.number_of_items]
  BY DEF LruFlushTail, Restrict
<1>2. lru.list \in Seq(K) /\ IsInjective(lru.list)
  BY DEF LruOK
<1>3. k = Last(lru.list)
  BY DEF LruTail
<1>4. /\ Front(lru.list) \in Seq(K)
      /\ IsInjective(Front(lru.list))
      /\ \A p \in K : Contains(Front(lru.list), p) <=> Contains(lru.list, p) /\ p # k
      /\ Len(Front(lru.list)) = Len(lru.list) - 1
  BY <1>2, <1>3, FrontProperties
<1> HIDE DEF r, k
<1>5. /\ r.value \in [LruKeys(r) -> V]
      /\ r.access \in [LruKeys(r) -> 0 .. LRU_MARKING - 1]
      /\ LruKeys(r) = LruKeys(lru) \ {k}
  BY <1>1 DEF LruOK, LruKeys
<1>6. LruOK(r, K, V)
  BY <1>1, <1>4, <1>5 DEF LruOK
<1>7. QED
  BY <1>1, <1>5, <1>6 DEF r, k

(***************************************************************************)
(* The two-level index.                                                    *)
(***************************************************************************)

LEMMA IndexInitOK ==
  ASSUME NEW size, NEW K, NEW V, size \in Nat \ {0, 1}
  PROVE  /\ IndexOK(size, IndexInit(size), K, V)
         /\ IndexedPages(IndexInit(size)) = {}
<1> DEFINE index == IndexInit(size)
<1>1. /\ index = [direct |-> index.direct, lru |-> index.lru]
      /\ index.direct = [i \in Cells(size) |-> [key |-> i + 1, value |-> Garbage]]
      /\ index.lru = LruInit
  BY DEF IndexInit, DirectInit
<1>2. LruOK(index.lru, K, V) /\ LruKeys(index.lru) = {}
  BY <1>1, LruInitOK
<1>3. index.direct \in [Cells(size) -> [key : Nat, value : V \cup {NULL, Garbage}]]
  BY <1>1 DEF Cells
<1>4. DirectAgrees(size, index)
  BY <1>1, EmptyLineMisses DEF DirectAgrees
<1>5. QED
  BY <1>1, <1>2, <1>3, <1>4 DEF IndexOK, IndexTypeOK, IndexedPages

\* A lookup finds a page exactly if the LRU cache holds it, and finds the
\* pointer stored last: the direct cache in front is never stale.
LEMMA IndexFindOK ==
  ASSUME NEW size, NEW K, NEW V, NEW index, NEW k,
         size \in Nat \ {0, 1}, K \subseteq Nat, NULL \notin V,
         IndexOK(size, index, K, V), k \in K
  PROVE  IndexFind(size, index, k) = IF k \in IndexedPages(index)
                                     THEN index.lru.value[k] ELSE NULL
<1> DEFINE i == Cell(size, k)
<1>1. i \in Cells(size)
  BY CellInRange
<1>2. CASE index.direct[i].key = k
  <2>1. /\ k \in IndexedPages(index)
        /\ index.direct[i].value = index.lru.value[k]
    BY <1>1, <1>2 DEF IndexOK, DirectAgrees
  <2>2. index.lru.value[k] \in V
    BY <2>1 DEF IndexOK, IndexTypeOK, LruOK, IndexedPages
  <2>3. QED
    BY <1>2, <2>1, <2>2 DEF IndexFind, DirectGet
<1>3. CASE index.direct[i].key # k
  BY <1>3 DEF IndexFind, DirectGet, LruFind, IndexedPages
<1>4. QED
  BY <1>2, <1>3

\* A lookup leaves the map from pages to pointers as it is.
SameIndexedPages(index, r) ==
  /\ r.lru.value = index.lru.value
  /\ r.lru.number_of_items = index.lru.number_of_items

LEMMA IndexTouchOK ==
  ASSUME NEW size, NEW K, NEW V, NEW index, NEW k,
         size \in Nat \ {0, 1}, K \subseteq Nat, NULL \notin V,
         IndexOK(size, index, K, V), k \in K
  PROVE  /\ IndexOK(size, IndexTouch(size, index, k), K, V)
         /\ SameIndexedPages(index, IndexTouch(size, index, k))
<1>1. CASE DirectGet(size, index.direct, k) # NULL
  BY <1>1 DEF IndexTouch, SameIndexedPages
<1>2. CASE DirectGet(size, index.direct, k) = NULL
  <2> DEFINE t == IndexTouch(size, index, k)
  <2>1. /\ t.direct = index.direct
        /\ t.lru = LruTouch(index.lru, k)
        /\ t = [direct |-> t.direct, lru |-> t.lru]
    BY <1>2 DEF IndexTouch, IndexOK, IndexTypeOK
  <2>2. /\ LruOK(t.lru, K, V)
        /\ t.lru.value = index.lru.value
        /\ t.lru.number_of_items = index.lru.number_of_items
    <3>1. LruOK(index.lru, K, V)
      BY DEF IndexOK, IndexTypeOK
    <3>2. QED
      BY <2>1, <3>1, LruTouchOK
  <2> HIDE DEF t
  <2>3. QED
    BY <2>1, <2>2
       DEF IndexOK, IndexTypeOK, DirectAgrees, IndexedPages, LruKeys, SameIndexedPages, t
<1>3. QED
  BY <1>1, <1>2

\* What adding a page, and removing one, does to the map from pages to pointers.
IndexAdded(index, r, k, v) ==
  /\ IndexedPages(r) = IndexedPages(index) \cup {k}
  /\ r.lru.value[k] = v
  /\ \A p \in IndexedPages(index) : r.lru.value[p] = index.lru.value[p]
  /\ r.lru.number_of_items = index.lru.number_of_items + 1

IndexRemoved(index, r, k) ==
  /\ IndexedPages(r) = IndexedPages(index) \ {k}
  /\ \A p \in IndexedPages(index) \ {k} : r.lru.value[p] = index.lru.value[p]
  /\ k \in IndexedPages(index) =>
       r.lru.number_of_items = index.lru.number_of_items - 1

LEMMA IndexAddOK ==
  ASSUME NEW size, NEW K, NEW V, NEW index, NEW k, NEW v,
         size \in Nat \ {0, 1}, K \subseteq Nat, IndexOK(size, index, K, V),
         k \in K, k \notin IndexedPages(index), v \in V
  PROVE  /\ IndexOK(size, IndexAdd(size, index, k, v), K, V)
         /\ IndexAdded(index, IndexAdd(size, index, k, v), k, v)
<1> DEFINE a == IndexAdd(size, index, k, v)
           c == Cell(size, k)
<1>1. c \in Cells(size)
  BY CellInRange
<1>2. /\ a.direct = [index.direct EXCEPT ![c] = [key |-> k, value |-> v]]
      /\ a.lru = LruAdd(index.lru, k, v)
      /\ a = [direct |-> a.direct, lru |-> a.lru]
  BY DEF IndexAdd, DirectSet
<1>3. LruOK(index.lru, K, V) /\ k \notin LruKeys(index.lru)
  BY DEF IndexOK, IndexTypeOK, IndexedPages
<1>4. /\ LruOK(a.lru, K, V)
      /\ IndexedPages(a) = IndexedPages(index) \cup {k}
      /\ a.lru.value[k] = v
      /\ \A p \in IndexedPages(index) : a.lru.value[p] = index.lru.value[p]
      /\ a.lru.number_of_items = index.lru.number_of_items + 1
  BY <1>2, <1>3, LruAddOK DEF IndexedPages
<1>5. a.direct \in [Cells(size) -> [key : Nat, value : V \cup {NULL, Garbage}]]
  BY <1>1, <1>2 DEF IndexOK, IndexTypeOK
<1> HIDE DEF a
<1>6. ASSUME NEW i \in Cells(size), Cell(size, a.direct[i].key) = i
      PROVE  /\ a.direct[i].key \in IndexedPages(a)
             /\ a.direct[i].value = a.lru.value[a.direct[i].key]
  <2>1. CASE i = c
    BY <1>1, <1>2, <1>4, <2>1 DEF IndexOK, IndexTypeOK
  <2>2. CASE i # c
    <3>1. a.direct[i] = index.direct[i]
      BY <1>2, <2>2 DEF IndexOK, IndexTypeOK
    <3>2. /\ index.direct[i].key \in IndexedPages(index)
          /\ index.direct[i].value = index.lru.value[index.direct[i].key]
      BY <1>6, <3>1 DEF IndexOK, DirectAgrees
    <3>3. QED
      BY <1>4, <3>1, <3>2
  <2>3. QED
    BY <2>1, <2>2
<1>7. IndexOK(size, a, K, V)
  BY <1>2, <1>4, <1>5, <1>6 DEF IndexOK, IndexTypeOK, DirectAgrees
<1>8. QED
  BY <1>4, <1>7 DEF IndexAdded, a

LEMMA IndexRemoveOK ==
  ASSUME NEW size, NEW K, NEW V, NEW index, NEW k,
         size \in Nat \ {0, 1}, K \subseteq Nat, IndexOK(size, index, K, V), k \in K
  PROVE  /\ IndexOK(size, IndexRemove(size, index, k), K, V)
         /\ IndexRemoved(index, IndexRemove(size, index, k), k)
<1> DEFINE r == IndexRemove(size, index, k)
           c == Cell(size, k)
<1>1. c \in Cells(size) /\ c \in Nat
  BY CellInRange
<1>2. /\ r.direct = [index.direct EXCEPT ![c] = [key |-> c + 1, value |-> NULL]]
      /\ r.lru = LruRemove(index.lru, k)
      /\ r = [direct |-> r.direct, lru |-> r.lru]
  BY DEF IndexRemove, DirectRemove
<1>3. LruOK(index.lru, K, V)
  BY DEF IndexOK, IndexTypeOK
<1>4. /\ LruOK(r.lru, K, V)
      /\ IndexedPages(r) = IndexedPages(index) \ {k}
      /\ \A p \in IndexedPages(index) \ {k} : r.lru.value[p] = index.lru.value[p]
      /\ k \in IndexedPages(index) =>
           r.lru.number_of_items = index.lru.number_of_items - 1
  BY <1>2, <1>3, LruRemoveOK DEF IndexedPages
<1>5. r.direct \in [Cells(size) -> [key : Nat, value : V \cup {NULL, Garbage}]]
  BY <1>1, <1>2 DEF IndexOK, IndexTypeOK
<1> HIDE DEF r
<1>6. ASSUME NEW i \in Cells(size), Cell(size, r.direct[i].key) = i
      PROVE  /\ r.direct[i].key \in IndexedPages(r)
             /\ r.direct[i].value = r.lru.value[r.direct[i].key]
  <2>1. i # c
    <3>1. Cell(size, c + 1) # c
      BY <1>1, EmptyLineMisses
    <3>2. i = c => r.direct[i].key = c + 1
      BY <1>1, <1>2 DEF IndexOK, IndexTypeOK
    <3>3. QED
      BY <1>6, <3>1, <3>2
  <2>2. r.direct[i] = index.direct[i]
    BY <1>2, <2>1 DEF IndexOK, IndexTypeOK
  <2>3. /\ index.direct[i].key \in IndexedPages(index)
        /\ index.direct[i].value = index.lru.value[index.direct[i].key]
    BY <1>6, <2>2 DEF IndexOK, DirectAgrees
  <2>4. index.direct[i].key # k
    BY <1>6, <2>1, <2>2
  <2>5. QED
    BY <1>4, <2>2, <2>3, <2>4
<1>7. IndexOK(size, r, K, V)
  BY <1>2, <1>4, <1>5, <1>6 DEF IndexOK, IndexTypeOK, DirectAgrees
<1>8. QED
  BY <1>4, <1>7 DEF IndexRemoved, r

-----------------------------------------------------------------------------
(* The page cache.                                                           *)

LEMMA PageCacheConstants ==
  /\ Page \subseteq Nat
  /\ PageCacheCells \in Nat \ {0, 1}
  /\ NULL \notin Block
  /\ Block \subseteq Nat
  /\ HimemBlocks \in Nat \ {0}
  /\ ZeroPage \in Data
BY PageCacheAssumption DEF Page, Block

\* The lemmas about indices, for the index of a page cache.
LEMMA BlockIndexAdd ==
  ASSUME NEW index, IndexOK(PageCacheCells, index, Page, Block),
         NEW p \in Page, p \notin IndexedPages(index), NEW b \in Block
  PROVE  /\ IndexOK(PageCacheCells, IndexAdd(PageCacheCells, index, p, b), Page, Block)
         /\ IndexAdded(index, IndexAdd(PageCacheCells, index, p, b), p, b)
<1>1. Page \subseteq Nat /\ PageCacheCells \in Nat \ {0, 1}
  BY PageCacheConstants
<1>2. QED
  BY <1>1, IndexAddOK, Zenon

LEMMA BlockIndexRemove ==
  ASSUME NEW index, IndexOK(PageCacheCells, index, Page, Block), NEW p \in Page
  PROVE  /\ IndexOK(PageCacheCells, IndexRemove(PageCacheCells, index, p), Page, Block)
         /\ IndexRemoved(index, IndexRemove(PageCacheCells, index, p), p)
<1>1. Page \subseteq Nat /\ PageCacheCells \in Nat \ {0, 1}
  BY PageCacheConstants
<1>2. QED
  BY <1>1, IndexRemoveOK, Zenon

LEMMA PageCacheInitOK ==
  ASSUME NEW contents \in [Block -> Data]
  PROVE  /\ PageCacheOK(PageCacheInit(contents))
         /\ StoreView(PageCacheInit(contents)) = [p \in Page |-> ZeroPage]
<1> DEFINE pc == PageCacheInit(contents)
<1>1. /\ pc.index = IndexInit(PageCacheCells)
      /\ pc.item_page = [b \in Block |-> NULL]
      /\ pc.himem = contents
      /\ pc.last_block = 0
      /\ pc.file = [p \in Page |-> ZeroPage]
      /\ pc = [index |-> pc.index, item_page |-> pc.item_page, himem |-> pc.himem,
               last_block |-> pc.last_block, file |-> pc.file]
  BY DEF PageCacheInit
<1> HIDE DEF pc
<1>2. /\ IndexOK(PageCacheCells, pc.index, Page, Block)
      /\ IndexedPages(pc.index) = {}
  BY <1>1, PageCacheConstants, IndexInitOK
<1>3. PageCacheTypeOK(pc)
  BY <1>1, PageCacheConstants DEF PageCacheTypeOK
<1>4. BlocksOK(pc)
  BY <1>1, <1>2 DEF BlocksOK, Block
<1>5. QED
  BY <1>1, <1>2, <1>3, <1>4 DEF PageCacheOK, StoreView, pc

\* A lookup finds the block of the page, if it has one.
LEMMA FindBlockOK ==
  ASSUME NEW pc, PageCacheOK(pc), NEW p \in Page
  PROVE  /\ FindBlock(pc, p) = IF p \in IndexedPages(pc.index)
                               THEN pc.index.lru.value[p] ELSE NULL
         /\ FindBlock(pc, p) # NULL <=> p \in IndexedPages(pc.index)
         /\ FindBlock(pc, p) # NULL => FindBlock(pc, p) \in Block
<1>1. FindBlock(pc, p) = IF p \in IndexedPages(pc.index)
                         THEN pc.index.lru.value[p] ELSE NULL
  BY PageCacheConstants, IndexFindOK DEF PageCacheOK, FindBlock
<1>2. p \in IndexedPages(pc.index) => pc.index.lru.value[p] \in Block
  BY DEF PageCacheOK, IndexOK, IndexTypeOK, LruOK, IndexedPages
<1>3. QED
  BY <1>1, <1>2, PageCacheConstants

\* A read returns the page's contents in the store.
LEMMA StoreReadOK ==
  ASSUME NEW pc, PageCacheOK(pc), NEW p \in Page
  PROVE  StoreRead(pc, p) = StoreView(pc)[p]
BY FindBlockOK DEF StoreRead, StoreView

LEMMA StoreViewType ==
  ASSUME NEW pc, PageCacheOK(pc)
  PROVE  StoreView(pc) \in [Page -> Data]
BY DEF PageCacheOK, PageCacheTypeOK, IndexOK, IndexTypeOK, LruOK, IndexedPages, StoreView

LEMMA TouchBlockOK ==
  ASSUME NEW pc, PageCacheOK(pc), NEW p \in Page
  PROVE  /\ PageCacheOK(TouchBlock(pc, p))
         /\ StoreView(TouchBlock(pc, p)) = StoreView(pc)
         /\ TouchBlock(pc, p).himem = pc.himem
         /\ TouchBlock(pc, p).file = pc.file
         /\ TouchBlock(pc, p).last_block = pc.last_block
         /\ TouchBlock(pc, p).index.lru.value = pc.index.lru.value
<1> DEFINE t == TouchBlock(pc, p)
<1>1. /\ t.index = IndexTouch(PageCacheCells, pc.index, p)
      /\ t.item_page = pc.item_page
      /\ t.himem = pc.himem
      /\ t.last_block = pc.last_block
      /\ t.file = pc.file
      /\ t = [index |-> t.index, item_page |-> t.item_page, himem |-> t.himem,
              last_block |-> t.last_block, file |-> t.file]
  BY DEF TouchBlock, PageCacheOK, PageCacheTypeOK
<1> HIDE DEF t
<1>2. /\ IndexOK(PageCacheCells, t.index, Page, Block)
      /\ t.index.lru.value = pc.index.lru.value
  <2> DEFINE index == IndexTouch(PageCacheCells, pc.index, p)
  <2>1. /\ IndexOK(PageCacheCells, pc.index, Page, Block)
        /\ Page \subseteq Nat
        /\ PageCacheCells \in Nat \ {0, 1}
        /\ NULL \notin Block
    BY PageCacheConstants DEF PageCacheOK
  <2>2. /\ IndexOK(PageCacheCells, index, Page, Block)
        /\ SameIndexedPages(pc.index, index)
    BY <2>1, IndexTouchOK, Zenon
  <2>3. QED
    BY <1>1, <2>2 DEF SameIndexedPages
<1>3. IndexedPages(t.index) = IndexedPages(pc.index)
  BY <1>2 DEF IndexedPages, LruKeys
<1>4. PageCacheTypeOK(t)
  BY <1>1 DEF PageCacheOK, PageCacheTypeOK
<1>5. BlocksOK(t)
  BY <1>1, <1>2, <1>3 DEF PageCacheOK, BlocksOK
<1>6. StoreView(t) = StoreView(pc)
  BY <1>1, <1>2, <1>3 DEF StoreView
<1>7. QED
  BY <1>1, <1>2, <1>4, <1>5, <1>6 DEF PageCacheOK, t

\* A page that has no block takes one that no page has.
LEMMA PutBlockOK ==
  ASSUME NEW pc, PageCacheTypeOK(pc), IndexOK(PageCacheCells, pc.index, Page, Block),
         NEW b \in Block, NEW p \in Page, p \notin IndexedPages(pc.index), NEW d \in Data,
         \A q \in IndexedPages(pc.index) :
           /\ pc.item_page[pc.index.lru.value[q]] = q
           /\ pc.index.lru.value[q] # b,
         \A c \in Block : c < pc.last_block <=>
           c = b \/ \E q \in IndexedPages(pc.index) : pc.index.lru.value[q] = c
  PROVE  /\ PageCacheOK(PutBlock(pc, b, p, d))
         /\ StoreView(PutBlock(pc, b, p, d)) = [StoreView(pc) EXCEPT ![p] = d]
<1> DEFINE r == PutBlock(pc, b, p, d)
<1>1. /\ r.index = IndexAdd(PageCacheCells, pc.index, p, b)
      /\ r.item_page = [pc.item_page EXCEPT ![b] = p]
      /\ r.himem = [pc.himem EXCEPT ![b] = d]
      /\ r.last_block = pc.last_block
      /\ r.file = pc.file
      /\ r = [index |-> r.index, item_page |-> r.item_page, himem |-> r.himem,
              last_block |-> r.last_block, file |-> r.file]
  BY DEF PutBlock, PageCacheTypeOK
<1> HIDE DEF r
<1>2. /\ IndexOK(PageCacheCells, r.index, Page, Block)
      /\ IndexedPages(r.index) = IndexedPages(pc.index) \cup {p}
      /\ r.index.lru.value[p] = b
      /\ \A q \in IndexedPages(pc.index) : r.index.lru.value[q] = pc.index.lru.value[q]
  <2>1. \A q \in IndexedPages(pc.index) : pc.index.lru.value[q] # b
    OBVIOUS
  <2> DEFINE index == IndexAdd(PageCacheCells, pc.index, p, b)
  <2>2. /\ IndexOK(PageCacheCells, index, Page, Block)
        /\ IndexedPages(index) = IndexedPages(pc.index) \cup {p}
        /\ index.lru.value[p] = b
        /\ \A q \in IndexedPages(pc.index) : index.lru.value[q] = pc.index.lru.value[q]
    BY BlockIndexAdd DEF IndexAdded
  <2> HIDE DEF index
  <2>3. r.index = index
    BY <1>1 DEF index
  <2>4. QED
    BY <2>2, <2>3
<1>3. \A q \in IndexedPages(pc.index) : pc.index.lru.value[q] \in Block
  BY DEF IndexOK, IndexTypeOK, LruOK, IndexedPages
<1>4. PageCacheTypeOK(r)
  BY <1>1 DEF PageCacheTypeOK
<1>5. BlocksOK(r)
  <2>1. \A q \in IndexedPages(r.index) : r.item_page[r.index.lru.value[q]] = q
    BY <1>1, <1>2, <1>3 DEF PageCacheTypeOK
  <2>2. ASSUME NEW c \in Block
        PROVE  c < r.last_block <=>
                 \E q \in IndexedPages(r.index) : r.index.lru.value[q] = c
    BY <1>1, <1>2, <1>3
  <2>3. QED
    BY <2>1, <2>2 DEF BlocksOK
<1>6. StoreView(r) = [StoreView(pc) EXCEPT ![p] = d]
  <2>1. ASSUME NEW q \in Page
        PROVE  StoreView(r)[q] = IF q = p THEN d ELSE StoreView(pc)[q]
    <3>1. CASE q = p
      BY <1>1, <1>2, <3>1 DEF StoreView, PageCacheTypeOK
    <3>2. CASE q # p /\ q \in IndexedPages(pc.index)
      BY <1>1, <1>2, <1>3, <3>2 DEF StoreView, PageCacheTypeOK
    <3>3. CASE q # p /\ q \notin IndexedPages(pc.index)
      BY <1>1, <1>2, <3>3 DEF StoreView
    <3>4. QED
      BY <3>1, <3>2, <3>3
  <2>2. QED
    BY <2>1 DEF StoreView
<1>7. QED
  BY <1>2, <1>4, <1>5, <1>6 DEF PageCacheOK, r

\* The evicted page is in the file, and its block is free.
LEMMA EvictBlockOK ==
  ASSUME NEW pc, PageCacheOK(pc), pc.last_block >= HimemBlocks
  PROVE  LET e    == EvictBlock(pc)
             b    == LeastRecentlyUsed(pc.index.lru)
             page == pc.item_page[b]
         IN  /\ PageCacheTypeOK(e)
             /\ IndexOK(PageCacheCells, e.index, Page, Block)
             /\ b \in Block
             /\ page \in IndexedPages(pc.index)
             /\ IndexedPages(e.index) = IndexedPages(pc.index) \ {page}
             /\ e.item_page = pc.item_page
             /\ e.last_block = pc.last_block
             /\ e.himem = pc.himem
             /\ e.file = [pc.file EXCEPT ![page] = pc.himem[b]]
             /\ pc.index.lru.value[page] = b
             /\ \A q \in IndexedPages(e.index) :
                  /\ e.index.lru.value[q] = pc.index.lru.value[q]
                  /\ e.index.lru.value[q] # b
             /\ StoreView(e) = StoreView(pc)
<1> DEFINE e    == EvictBlock(pc)
           lru  == pc.index.lru
           b    == LeastRecentlyUsed(lru)
           page == pc.item_page[b]
<1>1. /\ LruOK(lru, Page, Block)
      /\ \A q \in LruKeys(lru) : lru.value[q] \in Block /\ q \in Page
  BY DEF PageCacheOK, IndexOK, IndexTypeOK, LruOK
<1>2. IndexedPages(pc.index) # {}
  <2>1. /\ 0 \in Block
        /\ 0 < pc.last_block
    BY PageCacheConstants DEF PageCacheOK, PageCacheTypeOK, Block
  <2>2. 0 < pc.last_block => \E q \in IndexedPages(pc.index) : pc.index.lru.value[q] = 0
    BY <2>1 DEF PageCacheOK, BlocksOK
  <2>3. QED
    BY <2>1, <2>2
<1>3. /\ LruTail(lru) \in LruKeys(lru)
      /\ b = lru.value[LruTail(lru)]
  BY <1>1, <1>2, LruTailOK DEF IndexedPages
<1>4. /\ page = LruTail(lru)
      /\ page \in IndexedPages(pc.index)
      /\ page \in Page
      /\ b \in Block
      /\ lru.value[page] = b
  BY <1>1, <1>3 DEF PageCacheOK, BlocksOK, IndexedPages
<1> HIDE DEF b, page
<1>5. /\ e.index = IndexRemove(PageCacheCells, pc.index, page)
      /\ e.item_page = pc.item_page
      /\ e.himem = pc.himem
      /\ e.last_block = pc.last_block
      /\ e.file = [pc.file EXCEPT ![page] = pc.himem[b]]
      /\ e = [index |-> e.index, item_page |-> e.item_page, himem |-> e.himem,
              last_block |-> e.last_block, file |-> e.file]
  BY <1>4 DEF EvictBlock, FlushBlock, PageCacheOK, PageCacheTypeOK, page, b
<1> HIDE DEF e
<1>6. /\ IndexOK(PageCacheCells, e.index, Page, Block)
      /\ IndexedPages(e.index) = IndexedPages(pc.index) \ {page}
      /\ \A q \in IndexedPages(pc.index) \ {page} : e.index.lru.value[q] = lru.value[q]
  <2>1. IndexOK(PageCacheCells, pc.index, Page, Block)
    BY DEF PageCacheOK
  <2> DEFINE index == IndexRemove(PageCacheCells, pc.index, page)
  <2>2. /\ IndexOK(PageCacheCells, index, Page, Block)
        /\ IndexedPages(index) = IndexedPages(pc.index) \ {page}
        /\ \A q \in IndexedPages(pc.index) \ {page} :
             index.lru.value[q] = pc.index.lru.value[q]
    BY <1>4, <2>1, BlockIndexRemove DEF IndexRemoved
  <2> HIDE DEF index
  <2>3. e.index = index
    BY <1>5 DEF index
  <2>4. QED
    BY <2>2, <2>3
<1>7. PageCacheTypeOK(e)
  BY <1>4, <1>5 DEF PageCacheOK, PageCacheTypeOK
<1>8. \A q \in IndexedPages(e.index) : e.index.lru.value[q] # b
  BY <1>4, <1>6 DEF PageCacheOK, BlocksOK
<1>9. StoreView(e) = StoreView(pc)
  <2>1. ASSUME NEW q \in Page
        PROVE  StoreView(e)[q] = StoreView(pc)[q]
    <3>1. CASE q = page
      BY <1>4, <1>5, <1>6, <3>1 DEF StoreView, PageCacheOK, PageCacheTypeOK
    <3>2. CASE q # page
      BY <1>4, <1>5, <1>6, <3>2 DEF StoreView, PageCacheOK, PageCacheTypeOK
    <3>3. QED
      BY <3>1, <3>2
  <2>2. QED
    BY <2>1 DEF StoreView
<1>10. QED
  BY <1>4, <1>5, <1>6, <1>7, <1>8, <1>9 DEF e, b, page

\* Setting a page changes that page only, whether it has a block, takes a new
\* one, or takes over the block of an evicted page.
LEMMA PageCacheSetOK ==
  ASSUME NEW pc, PageCacheOK(pc), NEW p \in Page, NEW d \in Data
  PROVE  /\ PageCacheOK(PageCacheSet(pc, p, d))
         /\ StoreView(PageCacheSet(pc, p, d)) = [StoreView(pc) EXCEPT ![p] = d]
<1> DEFINE s == PageCacheSet(pc, p, d)
           b == FindBlock(pc, p)
<1>1. CASE b # NULL
  <2> DEFINE t == TouchBlock(pc, p)
  <2>1. s = [t EXCEPT !.himem[b] = d]
    BY <1>1 DEF PageCacheSet
  <2>2. /\ b \in Block
        /\ p \in IndexedPages(pc.index)
        /\ b = pc.index.lru.value[p]
    BY <1>1, FindBlockOK
  <2>3. /\ PageCacheOK(t)
        /\ StoreView(t) = StoreView(pc)
        /\ t.index.lru.value = pc.index.lru.value
    BY TouchBlockOK
  <2> HIDE DEF t, b
  <2>4. /\ s.index = t.index
        /\ s.item_page = t.item_page
        /\ s.himem = [t.himem EXCEPT ![b] = d]
        /\ s.last_block = t.last_block
        /\ s.file = t.file
        /\ s = [index |-> s.index, item_page |-> s.item_page, himem |-> s.himem,
                last_block |-> s.last_block, file |-> s.file]
    BY <2>1, <2>3 DEF PageCacheOK, PageCacheTypeOK
  <2> HIDE DEF s
  <2>5. PageCacheOK(s)
    BY <2>2, <2>3, <2>4 DEF PageCacheOK, PageCacheTypeOK, BlocksOK
  <2>6. /\ p \in IndexedPages(t.index)
        /\ t.index.lru.value[p] = b
        /\ \A q \in IndexedPages(t.index) : q # p =>
             /\ t.index.lru.value[q] \in Block
             /\ t.index.lru.value[q] # b
    <3>1. p \in IndexedPages(t.index) /\ t.index.lru.value[p] = b
      BY <2>2, <2>3 DEF IndexedPages, LruKeys
    <3>2. \A q \in IndexedPages(t.index) : t.index.lru.value[q] \in Block
      BY <2>3 DEF PageCacheOK, IndexOK, IndexTypeOK, LruOK, IndexedPages
    <3>3. \A q \in IndexedPages(t.index) : t.item_page[t.index.lru.value[q]] = q
      BY <2>3 DEF PageCacheOK, BlocksOK
    <3>4. QED
      BY <3>1, <3>2, <3>3
  <2>7. ASSUME NEW q \in Page
        PROVE  StoreView(s)[q] = IF q = p THEN d ELSE StoreView(t)[q]
    <3>1. t.himem \in [Block -> Data]
      BY <2>3 DEF PageCacheOK, PageCacheTypeOK
    <3>2. CASE q = p
      BY <2>2, <2>4, <2>6, <3>1, <3>2 DEF StoreView
    <3>3. CASE q # p
      BY <2>2, <2>4, <2>6, <3>1, <3>3 DEF StoreView
    <3>4. QED
      BY <3>2, <3>3
  <2>8. StoreView(s) = [StoreView(t) EXCEPT ![p] = d]
    BY <2>7 DEF StoreView
  <2>9. QED
    BY <2>3, <2>5, <2>8 DEF s
<1>2. CASE b = NULL /\ pc.last_block < HimemBlocks
  <2> DEFINE n == pc.last_block
             r == [pc EXCEPT !.last_block = @ + 1]
  <2>1. s = PutBlock(r, n, p, d)
    BY <1>2 DEF PageCacheSet
  <2>2. /\ n \in Block
        /\ p \notin IndexedPages(pc.index)
    BY <1>2, PageCacheConstants, FindBlockOK DEF PageCacheOK, PageCacheTypeOK, Block
  <2>3. /\ r.index = pc.index
        /\ r.item_page = pc.item_page
        /\ r.himem = pc.himem
        /\ r.last_block = n + 1
        /\ r.file = pc.file
        /\ PageCacheTypeOK(r)
    BY <1>2, PageCacheConstants DEF PageCacheOK, PageCacheTypeOK
  <2>4. \A q \in IndexedPages(pc.index) : pc.index.lru.value[q] \in Block
    BY DEF PageCacheOK, IndexOK, IndexTypeOK, LruOK, IndexedPages
  <2> HIDE DEF r
  <2>5. /\ IndexOK(PageCacheCells, r.index, Page, Block)
        /\ \A q \in IndexedPages(r.index) :
             /\ r.item_page[r.index.lru.value[q]] = q
             /\ r.index.lru.value[q] # n
    <3>1. IndexOK(PageCacheCells, r.index, Page, Block)
      BY <2>3 DEF PageCacheOK
    <3>2. ASSUME NEW q \in IndexedPages(pc.index)
          PROVE  /\ pc.item_page[pc.index.lru.value[q]] = q
                 /\ pc.index.lru.value[q] < n
      BY <2>4 DEF PageCacheOK, BlocksOK
    <3>3. ~(n < n)
      <4>1. n \in Nat
        BY <2>2, PageCacheConstants
      <4> HIDE DEF n
      <4>2. QED
        BY <4>1
    <3> HIDE DEF n
    <3>4. QED
      BY <2>3, <3>1, <3>2, <3>3
  <2>6. ASSUME NEW c \in Block
        PROVE  c < r.last_block <=>
                 c = n \/ \E q \in IndexedPages(r.index) : r.index.lru.value[q] = c
    <3>1. c < n + 1 <=> c = n \/ c < n
      <4>1. c \in Nat /\ n \in Nat
        <5> HIDE DEF n
        <5>1. QED
          BY <2>2, <2>6, PageCacheConstants
      <4> HIDE DEF n
      <4>2. QED
        BY <4>1
    <3>2. c < n <=> \E q \in IndexedPages(pc.index) : pc.index.lru.value[q] = c
      BY DEF PageCacheOK, BlocksOK
    <3>3. QED
      BY <2>3, <3>1, <3>2
  <2>7. StoreView(r) = StoreView(pc)
    BY <2>3 DEF StoreView
  <2> HIDE DEF n
  <2>8. QED
    BY <2>1, <2>2, <2>3, <2>5, <2>6, <2>7, PutBlockOK
<1>3. CASE b = NULL /\ pc.last_block >= HimemBlocks
  <2> DEFINE e    == EvictBlock(pc)
             last == LeastRecentlyUsed(pc.index.lru)
             page == pc.item_page[last]
  <2>1. s = PutBlock(e, last, p, d)
    BY <1>3, PageCacheConstants DEF PageCacheSet, PageCacheOK, PageCacheTypeOK
  <2>2. p \notin IndexedPages(pc.index)
    BY <1>3, FindBlockOK
  <2>3. /\ PageCacheTypeOK(e)
        /\ IndexOK(PageCacheCells, e.index, Page, Block)
        /\ last \in Block
        /\ page \in IndexedPages(pc.index)
        /\ IndexedPages(e.index) = IndexedPages(pc.index) \ {page}
        /\ e.item_page = pc.item_page
        /\ e.last_block = pc.last_block
        /\ pc.index.lru.value[page] = last
        /\ \A q \in IndexedPages(e.index) :
             /\ e.index.lru.value[q] = pc.index.lru.value[q]
             /\ e.index.lru.value[q] # last
        /\ StoreView(e) = StoreView(pc)
    BY <1>3, EvictBlockOK
  <2> HIDE DEF e, last, page
  <2>4. \A q \in IndexedPages(e.index) : e.item_page[e.index.lru.value[q]] = q
    BY <2>3 DEF PageCacheOK, BlocksOK
  <2>5. ASSUME NEW c \in Block
        PROVE  c < e.last_block <=>
                 c = last \/ \E q \in IndexedPages(e.index) : e.index.lru.value[q] = c
    <3>1. c < pc.last_block <=>
            \E q \in IndexedPages(pc.index) : pc.index.lru.value[q] = c
      BY DEF PageCacheOK, BlocksOK
    <3>2. QED
      BY <2>3, <3>1
  <2>6. p \notin IndexedPages(e.index)
    BY <2>2, <2>3
  <2>7. QED
    BY <2>1, <2>3, <2>4, <2>5, <2>6, PutBlockOK
<1>4. QED
  BY <1>1, <1>2, <1>3, PageCacheConstants DEF PageCacheOK, PageCacheTypeOK

-----------------------------------------------------------------------------
(***************************************************************************)
(* Any sequence of backing_store_write and backing_store_read calls.       *)
(* PageCacheOK is inductive: the lemmas above say so of each operation.    *)
(***************************************************************************)

StoreInv ==
  /\ PageCacheOK(page_cache)
  /\ put \in UNION {[S -> Data] : S \in SUBSET Page}
  /\ got \in UNION {[S -> Data] : S \in SUBSET Page}

LEMMA StoreInitInv == StoreInit => StoreInv
<1> SUFFICES ASSUME StoreInit PROVE StoreInv
  OBVIOUS
<1>1. PageCacheOK(page_cache)
  BY PageCacheInitOK DEF StoreInit
<1>2. put \in [{} -> Data] /\ got \in [{} -> Data]
  BY DEF StoreInit, NoPages
<1>3. QED
  BY <1>1, <1>2 DEF StoreInv

LEMMA StoreNextInv == StoreInv /\ [StoreNext]_storeVars => StoreInv'
<1> SUFFICES ASSUME StoreInv, [StoreNext]_storeVars PROVE StoreInv'
  OBVIOUS
<1>1. ASSUME NEW page \in Page, NEW data \in Data, BackingStoreWrite(page, data)
      PROVE  StoreInv'
  <2>1. PageCacheOK(page_cache')
    BY <1>1, PageCacheSetOK DEF StoreInv, BackingStoreWrite
  <2>2. got' \in [{} -> Data]
    BY <1>1 DEF BackingStoreWrite, NoPages
  <2>3. put' \in [{page} -> Data]
    BY <1>1 DEF BackingStoreWrite
  <2>4. QED
    BY <2>1, <2>2, <2>3 DEF StoreInv
<1>2. ASSUME NEW page \in Page, BackingStoreRead(page)
      PROVE  StoreInv'
  <2>1. PageCacheOK(page_cache')
    BY <1>2, TouchBlockOK DEF StoreInv, BackingStoreRead
  <2>2. StoreRead(page_cache, page) \in Data
    BY StoreReadOK, StoreViewType DEF StoreInv
  <2>3. got' \in [{page} -> Data]
    BY <1>2, <2>2 DEF BackingStoreRead
  <2>4. put' \in [{} -> Data]
    BY <1>2 DEF BackingStoreRead, NoPages
  <2>5. QED
    BY <2>1, <2>3, <2>4 DEF StoreInv
<1>3. CASE UNCHANGED storeVars
  BY <1>3 DEF StoreInv, storeVars
<1>4. QED
  BY <1>1, <1>2, <1>3 DEF StoreNext

LEMMA StoreInvariance == StoreSpec => []StoreInv
BY StoreInitInv, StoreNextInv, PTL DEF StoreSpec

\* The page cache keeps the types of its fields, of its index and of the
\* contents it returns.
THEOREM StoreTypeCorrect == StoreSpec => []StoreTypeOK
<1>1. StoreInv => StoreTypeOK
  BY DEF StoreInv, StoreTypeOK, PageCacheOK, IndexOK
<1>2. QED
  BY <1>1, StoreInvariance, PTL

\* page_cache_set never gives two pages the same himem block, and the direct
\* cache in front never answers with the block of another page.
THEOREM OneBlockPerPageCorrect == StoreSpec => []OneBlockPerPage
<1>1. StoreInv => OneBlockPerPage
  BY DEF StoreInv, OneBlockPerPage, PageCacheOK, IndexOK
<1>2. QED
  BY <1>1, StoreInvariance, PTL

\* Only the page of the block taken over leaves the index, and on_page_flush
\* has written it.
LEMMA SetWritesBack ==
  ASSUME NEW pc, PageCacheOK(pc), NEW p \in Page, NEW d \in Data,
         NEW q \in IndexedPages(pc.index),
         q \notin IndexedPages(PageCacheSet(pc, p, d).index)
  PROVE  /\ pc.last_block = HimemBlocks
         /\ PageCacheSet(pc, p, d).file[q] = pc.himem[pc.index.lru.value[q]]
<1> DEFINE s == PageCacheSet(pc, p, d)
           b == FindBlock(pc, p)
<1>1. b = NULL
  <2>1. CASE b # NULL
    <3> DEFINE t == TouchBlock(pc, p)
    <3>1. t.index.lru.value = pc.index.lru.value
      BY TouchBlockOK
    <3>2. s = [t EXCEPT !.himem[b] = d]
      BY <2>1 DEF PageCacheSet
    <3>3. PageCacheOK(t)
      BY TouchBlockOK
    <3> HIDE DEF t, b
    <3>4. s.index = t.index
      BY <3>2, <3>3 DEF PageCacheOK, PageCacheTypeOK
    <3>5. QED
      BY <3>1, <3>4 DEF IndexedPages, LruKeys
  <2>2. QED
    BY <2>1
<1>2. p \notin IndexedPages(pc.index)
  BY <1>1, FindBlockOK
<1>3. pc.last_block >= HimemBlocks
  <2>1. CASE pc.last_block < HimemBlocks
    <3> DEFINE r == [pc EXCEPT !.last_block = @ + 1]
               n == pc.last_block
    <3>1. s = PutBlock(r, n, p, d)
      BY <1>1, <2>1 DEF PageCacheSet
    <3>2. /\ n \in Block
          /\ r.index = pc.index
      BY <2>1, PageCacheConstants DEF PageCacheOK, PageCacheTypeOK, Block
    <3> HIDE DEF r, n
    <3>3. s.index = IndexAdd(PageCacheCells, pc.index, p, n)
      BY <3>1, <3>2 DEF PutBlock
    <3>4. IndexAdded(pc.index, IndexAdd(PageCacheCells, pc.index, p, n), p, n)
      BY <1>2, <3>2, BlockIndexAdd DEF PageCacheOK
    <3>5. IndexedPages(s.index) = IndexedPages(pc.index) \cup {p}
      BY <3>3, <3>4 DEF IndexAdded
    <3>6. QED
      BY <3>5
  <2>2. QED
    BY <2>1, PageCacheConstants DEF PageCacheOK, PageCacheTypeOK
<1>4. pc.last_block = HimemBlocks
  BY <1>3, PageCacheConstants DEF PageCacheOK, PageCacheTypeOK
<1> DEFINE e    == EvictBlock(pc)
           last == LeastRecentlyUsed(pc.index.lru)
           page == pc.item_page[last]
<1>5. s = PutBlock(e, last, p, d)
  BY <1>1, <1>4, PageCacheConstants DEF PageCacheSet
<1>6. /\ PageCacheTypeOK(e)
      /\ IndexOK(PageCacheCells, e.index, Page, Block)
      /\ last \in Block
      /\ IndexedPages(e.index) = IndexedPages(pc.index) \ {page}
      /\ e.file = [pc.file EXCEPT ![page] = pc.himem[last]]
      /\ pc.index.lru.value[page] = last
  BY <1>3, EvictBlockOK
<1> HIDE DEF e, last, page
<1>7. /\ s.index = IndexAdd(PageCacheCells, e.index, p, last)
      /\ s.file = e.file
  BY <1>5 DEF PutBlock
<1>8. IndexAdded(e.index, IndexAdd(PageCacheCells, e.index, p, last), p, last)
  <2>1. p \notin IndexedPages(e.index)
    BY <1>2, <1>6
  <2>2. QED
    BY <1>6, <2>1, BlockIndexAdd
<1>9. q = page
  <2>1. IndexedPages(s.index) = IndexedPages(e.index) \cup {p}
    BY <1>7, <1>8 DEF IndexAdded
  <2>2. QED
    BY <1>6, <2>1
<1>10. q \in Page
  BY DEF PageCacheOK, IndexOK, IndexTypeOK, LruOK, IndexedPages
<1>11. QED
  BY <1>4, <1>6, <1>7, <1>9, <1>10 DEF PageCacheOK, PageCacheTypeOK

\* A page leaves himem only when every block is in use, and only once the
\* page file has what its block held.
THEOREM EvictionsWriteBackCorrect == StoreSpec => EvictionsWriteBack
<1> DEFINE Step == \A p \in IndexedPages(page_cache.index) \ IndexedPages(page_cache'.index) :
                     /\ page_cache.last_block = HimemBlocks
                     /\ page_cache'.file[p] = page_cache.himem[page_cache.index.lru.value[p]]
<1>1. StoreInv /\ [StoreNext]_storeVars => [Step]_storeVars
  <2> SUFFICES ASSUME StoreInv, [StoreNext]_storeVars PROVE [Step]_storeVars
    OBVIOUS
  <2>1. ASSUME NEW page \in Page, NEW data \in Data, BackingStoreWrite(page, data)
        PROVE  Step
    BY <2>1, SetWritesBack DEF StoreInv, BackingStoreWrite
  <2>2. ASSUME NEW page \in Page, BackingStoreRead(page)
        PROVE  Step
    <3>1. page_cache'.index.lru.value = page_cache.index.lru.value
      BY <2>2, TouchBlockOK DEF StoreInv, BackingStoreRead
    <3>2. QED
      BY <3>1 DEF IndexedPages, LruKeys
  <2>3. QED
    BY <2>1, <2>2 DEF StoreNext
<1>2. QED
  BY <1>1, StoreInvariance, PTL DEF StoreSpec, EvictionsWriteBack

\* The page cache with its file is a memory of pages: a read returns what was
\* last written, whether it comes from a block or from the file.
THEOREM StoreImplementsRam == StoreSpec => StoreIsRam
<1> DEFINE mem == StoreView(page_cache)
<1>1. StoreInit => StoreMemory!Init
  <2> SUFFICES ASSUME StoreInit PROVE StoreMemory!Init
    OBVIOUS
  <2>1. mem = [p \in Page |-> ZeroPage]
    BY PageCacheInitOK DEF StoreInit
  <2>2. QED
    BY <2>1 DEF StoreInit, NoPages, StoreMemory!Init, StoreMemory!NoBytes
<1>2. StoreInv /\ [StoreNext]_storeVars => [StoreMemory!Next]_<<mem, put, got>>
  <2> SUFFICES ASSUME StoreInv, [StoreNext]_storeVars PROVE [StoreMemory!Next]_<<mem, put, got>>
    OBVIOUS
  <2>1. ASSUME NEW page \in Page, NEW data \in Data, BackingStoreWrite(page, data)
        PROVE  StoreMemory!Next
    <3> DEFINE bytes == [p \in {page} |-> data]
    <3>1. bytes \in [{page} -> Data] /\ {page} \in SUBSET Page
      OBVIOUS
    <3>2. mem' = [mem EXCEPT ![page] = data]
      BY <2>1, PageCacheSetOK DEF StoreInv, BackingStoreWrite
    <3>3. mem' = [p \in Page |-> IF p \in DOMAIN bytes THEN bytes[p] ELSE mem[p]]
      BY <3>2 DEF StoreView
    <3>4. StoreMemory!Write(bytes)
      BY <2>1, <3>3 DEF BackingStoreWrite, NoPages, StoreMemory!Write, StoreMemory!NoBytes
    <3> HIDE DEF bytes
    <3>5. QED
      BY <3>1, <3>4 DEF StoreMemory!Next
  <2>2. ASSUME NEW page \in Page, BackingStoreRead(page)
        PROVE  StoreMemory!Next
    <3>1. mem' = mem /\ StoreRead(page_cache, page) = mem[page]
      BY <2>2, TouchBlockOK, StoreReadOK DEF StoreInv, BackingStoreRead
    <3>2. got' = [p \in {page} |-> mem[p]]
      BY <2>2, <3>1 DEF BackingStoreRead
    <3>3. StoreMemory!Read({page})
      BY <2>2, <3>1, <3>2 DEF BackingStoreRead, NoPages, StoreMemory!Read, StoreMemory!NoBytes
    <3>4. {page} \in SUBSET Page
      OBVIOUS
    <3>5. QED
      BY <3>3, <3>4 DEF StoreMemory!Next
  <2>3. CASE UNCHANGED storeVars
    BY <2>3 DEF storeVars
  <2>4. QED
    BY <2>1, <2>2, <2>3 DEF StoreNext
<1>3. QED
  BY <1>1, <1>2, StoreInvariance, PTL DEF StoreSpec, StoreIsRam, StoreMemory!Spec

(***************************************************************************)
(* The LRU cache under any legal caller.  UsedItemsOutliveIdleOnes is not  *)
(* inductive: what keeps it is that a key behind another was got, since    *)
(* the other was pushed, no oftener than since it was pushed itself.       *)
(***************************************************************************)

\* In the list, j stands behind k.
Behind(list, j, k) ==
  \E x, y \in DOMAIN list : x < y /\ list[x] = k /\ list[y] = j

LEMMA BehindDetach ==
  ASSUME NEW S, NEW s \in Seq(S), NEW p \in S, NEW j, NEW k, Behind(Detach(s, p), j, k)
  PROVE  Behind(s, j, k)
<1>1. CASE ~Contains(s, p)
  BY <1>1 DEF Detach
<1>2. CASE Contains(s, p)
  <2> DEFINE i == CHOOSE i \in DOMAIN s : s[i] = p
             d == RemoveAt(s, i)
  <2>1. Len(s) \in Nat /\ DOMAIN s = 1 .. Len(s)
    BY LenProperties
  <2>2. i \in DOMAIN s
    BY <1>2, <2>1 DEF Contains
  <2>3. Detach(s, p) = d
    BY <1>2 DEF Detach
  <2> HIDE DEF i
  <2>4. /\ DOMAIN d = 1 .. Len(s) - 1
        /\ \A y \in 1 .. Len(s) - 1 : d[y] = IF y < i THEN s[y] ELSE s[y + 1]
    BY <2>2, RemoveAtProperties, LenProperties
  <2> HIDE DEF d
  <2>5. PICK x, y \in 1 .. Len(s) - 1 : x < y /\ d[x] = k /\ d[y] = j
    BY <2>3, <2>4 DEF Behind
  <2> DEFINE u == IF x < i THEN x ELSE x + 1
             v == IF y < i THEN y ELSE y + 1
  <2>6. u \in DOMAIN s /\ v \in DOMAIN s /\ u < v
    BY <2>1, <2>2, <2>5
  <2>7. s[u] = k /\ s[v] = j
    BY <2>4, <2>5
  <2>8. QED
    BY <2>6, <2>7 DEF Behind
<1>3. QED
  BY <1>1, <1>2

LEMMA BehindCons ==
  ASSUME NEW S, NEW s \in Seq(S), NEW p \in S, NEW j, NEW k, Behind(<<p>> \o s, j, k)
  PROVE  Behind(s, j, k) \/ (k = p /\ Contains(s, j))
<1> DEFINE c == <<p>> \o s
<1>1. Len(s) \in Nat /\ DOMAIN s = 1 .. Len(s)
  BY LenProperties
<1>2. <<p>> \in Seq(S) /\ Len(<<p>>) = 1 /\ <<p>>[1] = p
  OBVIOUS
<1>3. /\ DOMAIN c = 1 .. Len(s) + 1
      /\ \A i \in 1 .. Len(s) + 1 : c[i] = IF i = 1 THEN p ELSE s[i - 1]
  BY <1>1, <1>2, ConcatProperties, LenProperties
<1> HIDE DEF c
<1>4. PICK x, y \in 1 .. Len(s) + 1 : x < y /\ c[x] = k /\ c[y] = j
  BY <1>3 DEF Behind, c
<1>5. y - 1 \in DOMAIN s /\ s[y - 1] = j
  BY <1>1, <1>3, <1>4
<1>6. CASE x = 1
  BY <1>1, <1>3, <1>4, <1>5, <1>6 DEF Contains
<1>7. CASE x # 1
  <2>1. x - 1 \in DOMAIN s /\ s[x - 1] = k /\ x - 1 < y - 1
    BY <1>1, <1>3, <1>4, <1>7
  <2>2. QED
    BY <1>5, <2>1 DEF Behind
<1>8. QED
  BY <1>6, <1>7

LEMMA BehindPushFront ==
  ASSUME NEW S, NEW s \in Seq(S), IsInjective(s), NEW p \in S, NEW j \in S, NEW k \in S,
         Behind(PushFront(s, p), j, k)
  PROVE  j # p /\ (k = p \/ Behind(s, j, k))
<1> DEFINE d == Detach(s, p)
<1>1. d \in Seq(S) /\ \A q \in S : Contains(d, q) => q # p
  BY DetachProperties
<1>2. Behind(d, j, k) \/ (k = p /\ Contains(d, j))
  <2> HIDE DEF d
  <2>1. Behind(<<p>> \o d, j, k)
    BY DEF PushFront, d
  <2>2. QED
    BY <1>1, <2>1, BehindCons
<1>3. ASSUME Behind(d, j, k)
      PROVE  Behind(s, j, k) /\ Contains(d, j)
  <2>1. Behind(s, j, k)
    BY <1>3, BehindDetach
  <2> HIDE DEF d
  <2>2. DOMAIN d = 1 .. Len(d)
    BY <1>1, LenProperties
  <2>3. QED
    BY <1>3, <2>1, <2>2 DEF Behind, Contains
<1>4. QED
  BY <1>1, <1>2, <1>3

LEMMA BehindFront ==
  ASSUME NEW S, NEW s \in Seq(S), s # << >>, NEW j, NEW k, Behind(Front(s), j, k)
  PROVE  Behind(s, j, k)
<1>1. Len(s) \in Nat \ {0} /\ DOMAIN s = 1 .. Len(s)
  BY EmptySeq, LenProperties
<1>2. /\ DOMAIN Front(s) = 1 .. Len(s) - 1
      /\ \A i \in 1 .. Len(s) - 1 : Front(s)[i] = s[i]
  BY <1>1, SubSeqProperties, LenProperties DEF Front
<1>3. QED
  BY <1>1, <1>2 DEF Behind

LEMMA DetachType ==
  ASSUME NEW S, NEW s \in Seq(S), NEW p
  PROVE  Detach(s, p) \in Seq(S)
<1>1. CASE ~Contains(s, p)
  BY <1>1 DEF Detach
<1>2. CASE Contains(s, p)
  <2> DEFINE i == CHOOSE i \in DOMAIN s : s[i] = p
  <2>1. i \in DOMAIN s
    BY <1>2, LenProperties DEF Contains
  <2> HIDE DEF i
  <2>2. RemoveAt(s, i) \in Seq(S)
    BY <2>1, RemoveAtProperties
  <2>3. QED
    BY <1>2, <2>2 DEF Detach, i
<1>3. QED
  BY <1>1, <1>2

LEMMA PushFrontType ==
  ASSUME NEW S, NEW s \in Seq(S), NEW p \in S
  PROVE  PushFront(s, p) \in Seq(S)
<1>1. Detach(s, p) \in Seq(S) /\ <<p>> \in Seq(S)
  BY DetachType
<1>2. QED
  BY <1>1, ConcatProperties DEF PushFront

LruUseInv ==
  /\ LruUseTypeOK
  /\ \A j, k \in LruKeys(cache) :
       Behind(cache.list, j, k) => gets[j][k] <= cache.access[j]

LEMMA CappedBound ==
  ASSUME NEW n \in Nat
  PROVE  Capped(n) \in 0 .. LRU_MARKING /\ Capped(n) <= n
BY LruMarkingAssumption DEF Capped

LEMMA LruUseInitInv == LruUseInit => LruUseInv
<1> SUFFICES ASSUME LruUseInit PROVE LruUseInv
  OBVIOUS
<1>1. LruOK(cache, Key, Value) /\ LruKeys(cache) = {}
  BY LruInitOK DEF LruUseInit
<1>2. gets \in [Key -> [Key -> 0 .. LRU_MARKING]]
  BY LruMarkingAssumption DEF LruUseInit
<1>3. recency \in Seq(Key)
  BY DEF LruUseInit
<1>4. QED
  BY <1>1, <1>2, <1>3 DEF LruUseInv, LruUseTypeOK

LEMMA AddKeeps ==
  ASSUME LruUseInv, NEW key \in Key, NEW value \in Value, Add(key, value)
  PROVE  LruUseInv'
<1>1. LruOK(cache, Key, Value) /\ key \notin LruKeys(cache) /\ cache' = LruAdd(cache, key, value)
  BY DEF LruUseInv, LruUseTypeOK, Add
<1>2. LruOK(cache', Key, Value) /\ LruKeys(cache') = LruKeys(cache) \cup {key}
  BY <1>1, LruAddOK
<1>3. /\ cache'.list = <<key>> \o cache.list
      /\ cache'.access = [p \in LruKeys(cache) \cup {key} |->
                            IF p = key THEN 0 ELSE cache.access[p]]
  BY <1>1 DEF LruAdd
<1>4. gets' = [j \in Key |-> [k \in Key |-> IF key \in {j, k} THEN 0 ELSE gets[j][k]]]
  BY DEF Add
<1>5. gets' \in [Key -> [Key -> 0 .. LRU_MARKING]]
  BY <1>4, LruMarkingAssumption DEF LruUseInv, LruUseTypeOK
<1>6. recency' \in Seq(Key)
  BY PushFrontType DEF LruUseInv, LruUseTypeOK, Add
<1>7. ASSUME NEW j \in LruKeys(cache'), NEW k \in LruKeys(cache'), Behind(cache'.list, j, k)
      PROVE  gets'[j][k] <= cache'.access[j]
  <2>1. j \in Key /\ k \in Key /\ cache'.access[j] \in Nat
    BY <1>2 DEF LruOK
  <2>2. CASE key \in {j, k}
    BY <1>4, <2>1, <2>2
  <2>3. CASE key \notin {j, k}
    <3>1. cache.list \in Seq(Key)
      BY <1>1 DEF LruOK
    <3>2. Behind(cache.list, j, k)
      BY <1>3, <1>7, <2>3, <3>1, BehindCons
    <3>3. gets[j][k] <= cache.access[j] /\ cache'.access[j] = cache.access[j]
      BY <1>2, <1>3, <2>3, <3>2 DEF LruUseInv
    <3>4. QED
      BY <1>4, <2>1, <2>3, <3>3
  <2>4. QED
    BY <2>2, <2>3
<1>8. QED
  BY <1>2, <1>5, <1>6, <1>7 DEF LruUseInv, LruUseTypeOK

LEMMA GetKeeps ==
  ASSUME LruUseInv, NEW key \in Key, Get(key)
  PROVE  LruUseInv'
<1> DEFINE n == (cache.access[key] + 1) % LRU_MARKING
<1>1. LruOK(cache, Key, Value) /\ key \in LruKeys(cache) /\ cache' = LruTouch(cache, key)
  BY DEF LruUseInv, LruUseTypeOK, Get
<1>2. LruOK(cache', Key, Value) /\ LruKeys(cache') = LruKeys(cache)
  BY <1>1, LruTouchOK DEF LruKeys
<1>3. /\ cache'.list = IF n = 0 THEN PushFront(cache.list, key) ELSE cache.list
      /\ cache'.access = [cache.access EXCEPT ![key] = n]
  BY <1>1 DEF LruTouch, LruOK
<1>4. /\ cache.list \in Seq(Key) /\ IsInjective(cache.list)
      /\ cache.access \in [LruKeys(cache) -> 0 .. LRU_MARKING - 1]
      /\ LruKeys(cache) \subseteq Key
  BY <1>1 DEF LruOK
<1>5. cache'.access[key] = n /\ n \in Nat /\ (n # 0 => n = cache.access[key] + 1)
  <2>1. cache.access[key] \in 0 .. LRU_MARKING - 1
    BY <1>1, <1>4
  <2>2. cache'.access[key] = n
    BY <1>1, <1>3, <1>4
  <2>3. QED
    BY <2>1, <2>2, LruMarkingAssumption
<1> HIDE DEF n
<1>6. gets' = [j \in Key |-> [k \in Key |->
                 IF k = key /\ (n = 0 \/ j = key) THEN 0
                 ELSE IF j = key THEN Capped(gets[j][k] + 1) ELSE gets[j][k]]]
  BY <1>5 DEF Get, Record
<1>7. \A j, k \in Key : gets[j][k] \in 0 .. LRU_MARKING /\ gets[j][k] + 1 \in Nat
  BY LruMarkingAssumption DEF LruUseInv, LruUseTypeOK
<1>8. gets' \in [Key -> [Key -> 0 .. LRU_MARKING]]
  <2>1. \A j, k \in Key : Capped(gets[j][k] + 1) \in 0 .. LRU_MARKING
    BY <1>7, CappedBound
  <2>2. QED
    BY <1>6, <1>7, <2>1, LruMarkingAssumption
<1>9. recency' \in Seq(Key)
  BY PushFrontType DEF LruUseInv, LruUseTypeOK, Get, Record
<1>10. ASSUME NEW j \in LruKeys(cache), NEW k \in LruKeys(cache), Behind(cache'.list, j, k)
       PROVE  gets'[j][k] <= cache'.access[j]
  <2>1. j \in Key /\ k \in Key /\ cache.access[j] \in Nat /\ gets[j][k] \in Nat
    BY <1>4, <1>7
  <2>2. Behind(cache.list, j, k) => gets[j][k] <= cache.access[j]
    BY DEF LruUseInv
  <2>3. j # key => cache'.access[j] = cache.access[j]
    BY <1>3, <1>4
  <2>4. CASE n = 0
    <3>1. j # key /\ (k = key \/ Behind(cache.list, j, k))
      BY <1>3, <1>4, <1>10, <2>1, <2>4, BehindPushFront
    <3>2. k = key => gets'[j][k] = 0
      BY <1>6, <2>1, <2>4
    <3>3. k # key => gets'[j][k] = gets[j][k]
      BY <1>6, <2>1, <3>1
    <3>4. QED
      BY <2>1, <2>2, <2>3, <3>1, <3>2, <3>3
  <2>5. CASE n # 0
    <3>1. gets[j][k] <= cache.access[j]
      BY <1>3, <1>10, <2>2, <2>5
    <3>2. CASE j # key
      <4>1. gets'[j][k] = gets[j][k]
        BY <1>6, <2>1, <2>5, <3>2
      <4>2. QED
        BY <2>3, <3>1, <3>2, <4>1
    <3>3. CASE j = key
      <4>1. gets'[j][k] = 0 \/ gets'[j][k] = Capped(gets[j][k] + 1)
        BY <1>6, <2>1, <3>3
      <4>2. Capped(gets[j][k] + 1) \in Nat /\ Capped(gets[j][k] + 1) <= gets[j][k] + 1
        BY <1>7, <2>1, CappedBound
      <4>3. cache'.access[j] = cache.access[j] + 1
        BY <1>5, <2>5, <3>3
      <4>4. QED
        BY <2>1, <3>1, <4>1, <4>2, <4>3
    <3>4. QED
      BY <3>2, <3>3
  <2>6. QED
    BY <2>4, <2>5
<1>11. QED
  BY <1>2, <1>8, <1>9, <1>10 DEF LruUseInv, LruUseTypeOK

LEMMA RemovalKeeps ==
  ASSUME LruUseInv, LruOK(cache', Key, Value), recency' \in Seq(Key), UNCHANGED gets,
         LruKeys(cache') \subseteq LruKeys(cache),
         \A j, k : Behind(cache'.list, j, k) => Behind(cache.list, j, k),
         \A j \in LruKeys(cache') : cache'.access[j] = cache.access[j]
  PROVE  LruUseInv'
<1>1. \A j, k \in LruKeys(cache') : Behind(cache'.list, j, k) => gets'[j][k] <= cache'.access[j]
  BY DEF LruUseInv
<1>2. QED
  BY <1>1 DEF LruUseInv, LruUseTypeOK

LEMMA DropKeeps ==
  ASSUME LruUseInv, NEW key \in Key, Drop(key)
  PROVE  LruUseInv'
<1>1. LruOK(cache, Key, Value) /\ cache' = LruRemove(cache, key) /\ UNCHANGED gets
  BY DEF LruUseInv, LruUseTypeOK, Drop
<1>2. LruOK(cache', Key, Value) /\ LruKeys(cache') = LruKeys(cache) \ {key}
  BY <1>1, LruRemoveOK
<1>3. recency' \in Seq(Key)
  BY DetachType DEF LruUseInv, LruUseTypeOK, Drop
<1>4. cache.list \in Seq(Key)
  BY <1>1 DEF LruOK
<1>5. cache'.list = Detach(cache.list, key) \/ cache'.list = cache.list
  BY <1>1 DEF LruRemove
<1>6. \A j, k : Behind(cache'.list, j, k) => Behind(cache.list, j, k)
  BY <1>4, <1>5, BehindDetach
<1>7. \A j \in LruKeys(cache') : cache'.access[j] = cache.access[j]
  BY <1>1, <1>2 DEF LruRemove, Restrict
<1>8. QED
  BY <1>1, <1>2, <1>3, <1>6, <1>7, RemovalKeeps

LEMMA FlushKeeps ==
  ASSUME LruUseInv, FlushTail
  PROVE  LruUseInv'
<1>1. /\ LruOK(cache, Key, Value) /\ cache' = LruFlushTail(cache) /\ UNCHANGED gets
      /\ cache.list # << >>
  BY DEF LruUseInv, LruUseTypeOK, FlushTail
<1>2. LruOK(cache', Key, Value) /\ LruKeys(cache') = LruKeys(cache) \ {LruTail(cache)}
  BY <1>1, LruFlushTailOK
<1>3. recency' \in Seq(Key)
  BY DetachType DEF LruUseInv, LruUseTypeOK, FlushTail
<1>4. cache.list \in Seq(Key) /\ cache'.list = Front(cache.list)
  BY <1>1 DEF LruOK, LruFlushTail
<1>5. \A j, k : Behind(cache'.list, j, k) => Behind(cache.list, j, k)
  BY <1>1, <1>4, BehindFront
<1>6. \A j \in LruKeys(cache') : cache'.access[j] = cache.access[j]
  BY <1>1, <1>2 DEF LruFlushTail, Restrict
<1>7. QED
  BY <1>1, <1>2, <1>3, <1>5, <1>6, RemovalKeeps

LEMMA LruUseNextInv == LruUseInv /\ [LruUseNext]_lruUseVars => LruUseInv'
<1> SUFFICES ASSUME LruUseInv, [LruUseNext]_lruUseVars PROVE LruUseInv'
  OBVIOUS
<1>1. ASSUME NEW key \in Key, Miss(key)
      PROVE  LruUseInv'
  <2>1. UNCHANGED lruUseVars
    BY <1>1 DEF Miss, LruTouch, lruUseVars
  <2>2. QED
    BY <2>1 DEF LruUseInv, LruUseTypeOK, lruUseVars
<1>2. CASE UNCHANGED lruUseVars
  BY <1>2 DEF LruUseInv, LruUseTypeOK, lruUseVars
<1>3. QED
  BY <1>1, <1>2, AddKeeps, GetKeeps, DropKeeps, FlushKeeps DEF LruUseNext

LEMMA LruUseInvariance == LruUseSpec => []LruUseInv
BY LruUseInitInv, LruUseNextInv, PTL DEF LruUseSpec

\* Under any legal caller the list holds each indexed key once, the counter
\* counts them, and every item keeps its type (lru_cache_add, lru_cache_get,
\* lru_cache_remove, lru_cache_flush_items).
THEOREM LruUseTypeCorrect == LruUseSpec => []LruUseTypeOK
<1>1. LruUseInv => LruUseTypeOK
  BY DEF LruUseInv
<1>2. QED
  BY <1>1, LruUseInvariance, PTL

\* For any number of gets to a move, an item got that often since another was
\* last pushed to the head stands before it: lru_cache_get approximates LRU
\* no worse than that.
THEOREM UsedItemsStayAhead == LruUseSpec => []UsedItemsOutliveIdleOnes
<1>1. ASSUME LruUseInv
      PROVE  UsedItemsOutliveIdleOnes
  <2>1. SUFFICES ASSUME NEW j \in LruKeys(cache), NEW k \in LruKeys(cache), j # k,
                        gets[j][k] = LRU_MARKING
                 PROVE  Position(j) < Position(k)
    BY DEF UsedItemsOutliveIdleOnes
  <2>2. LruOK(cache, Key, Value)
    BY <1>1 DEF LruUseInv, LruUseTypeOK
  <2>3. /\ DOMAIN cache.list = 1 .. Len(cache.list) /\ Len(cache.list) \in Nat
        /\ \A p \in LruKeys(cache) : \E i \in DOMAIN cache.list : cache.list[i] = p
    BY <2>2, LenProperties DEF LruOK, Contains
  <2>4. \A p \in LruKeys(cache) :
          Position(p) \in DOMAIN cache.list /\ cache.list[Position(p)] = p
    BY <2>3 DEF Position
  <2>5. cache.access[j] < LRU_MARKING /\ cache.access[j] \in Nat
    BY <2>2, LruMarkingAssumption DEF LruOK
  <2>6. ~Behind(cache.list, j, k)
    BY <1>1, <2>1, <2>5, LruMarkingAssumption DEF LruUseInv
  <2>7. ~(Position(k) < Position(j))
    BY <2>4, <2>6 DEF Behind
  <2>8. Position(j) # Position(k)
    BY <2>1, <2>4
  <2>9. QED
    BY <2>3, <2>4, <2>7, <2>8
<1>2. QED
  BY <1>1, LruUseInvariance, PTL

-----------------------------------------------------------------------------
(***************************************************************************)
(* The VMM.                                                                *)
(***************************************************************************)

VmmOK(v) ==
  /\ VmmTypeOK(v)
  /\ IndexTypeOK(TlbCells, v.index, Page, Frame)
  /\ PageCacheOK(v.store)
  /\ FramesOK(v)
  /\ CleanOK(v)
  /\ v.pagetable_size <= NumberOfPages

\* The direct cache can be trusted, and the entries in use are counted.
VmmUsable(v) ==
  /\ VmmOK(v)
  /\ DirectAgrees(TlbCells, v.index)
  /\ v.pagetable_size = v.index.lru.number_of_items

LEMMA VmmConstants ==
  /\ Page \subseteq Nat
  /\ TlbCells \in Nat \ {0, 1}
  /\ NumberOfPages \in Nat \ {0}
  /\ NULL \notin Frame
  /\ Zero \in Byte
  /\ Data = [Offset -> Byte]
  /\ ZeroPage = [o \in Offset |-> Zero]
BY VmmAssumption, PageCacheConstants

LEMMA FreeEntryType == FreeEntry \in Entry
BY PageCacheAssumption DEF FreeEntry, Entry, Page

\* Where the frames are, and that no two pages share one.
LEMMA FrameFacts ==
  ASSUME NEW v, VmmTypeOK(v), IndexTypeOK(TlbCells, v.index, Page, Frame), FramesOK(v)
  PROVE  /\ Resident(v) \subseteq Page
         /\ \A p \in Resident(v) : FrameOf(v, p) \in Frame
         /\ \A p \in Resident(v) : v.frame[FrameOf(v, p)].page_number = p
         /\ \A p, q \in Resident(v) : FrameOf(v, p) = FrameOf(v, q) => p = q
<1>1. /\ Resident(v) \subseteq Page
      /\ \A p \in Resident(v) : FrameOf(v, p) \in Frame
  BY DEF IndexTypeOK, LruOK, IndexedPages, Resident, FrameOf
<1>2. \A p \in Resident(v) : v.frame[FrameOf(v, p)].page_number = p
  BY DEF FramesOK
<1>3. QED
  BY <1>1, <1>2

LEMMA ViewAt ==
  ASSUME NEW v, NEW a \in Addr
  PROVE  View(v)[a] = IF a[1] \in Resident(v)
                      THEN v.frame[FrameOf(v, a[1])].page_cache[a[2]]
                      ELSE StoreView(v.store)[a[1]][a[2]]
BY DEF View

\* The view only depends on the bytes of each page.
PageView(v, p) == IF p \in Resident(v) THEN v.frame[FrameOf(v, p)].page_cache
                  ELSE StoreView(v.store)[p]

LEMMA SamePages ==
  ASSUME NEW v, NEW w, \A p \in Page : PageView(w, p) = PageView(v, p)
  PROVE  View(w) = View(v)
<1>1. \A a \in Addr : a[1] \in Page
  BY DEF Addr
<1>2. \A u : View(u) = [a \in Addr |-> PageView(u, a[1])[a[2]]]
  BY DEF View, PageView
<1>3. QED
  BY <1>1, <1>2

-----------------------------------------------------------------------------
(***************************************************************************)
(* on_page_flush.                                                          *)
(***************************************************************************)

LEMMA OnPageFlushOK ==
  ASSUME NEW v, VmmOK(v), NEW p \in Resident(v)
  PROVE  LET f == FrameOf(v, p)
             w == OnPageFlush(v, f)
         IN  /\ VmmOK(w)
             /\ w.index = v.index
             /\ w.pagetable_size = v.pagetable_size
             /\ w.frame = [v.frame EXCEPT ![f].dirty = FALSE]
             /\ \A q \in Page : PageView(w, q) = PageView(v, q)
<1> DEFINE f == FrameOf(v, p)
           w == OnPageFlush(v, f)
<1>1. /\ f \in Frame
      /\ p \in Page
      /\ v.frame[f] \in Entry
      /\ v.frame[f].page_number = p
      /\ v.frame[f].page_cache \in Data
  BY FrameFacts DEF VmmOK, VmmTypeOK, Entry
<1> HIDE DEF f
<1>2. CASE ~v.frame[f].dirty
  <2>1. w = v
    BY <1>2 DEF OnPageFlush
  <2>2. v.frame = [v.frame EXCEPT ![f].dirty = FALSE]
    BY <1>1, <1>2 DEF VmmOK, VmmTypeOK, Entry
  <2>3. QED
    BY <2>1, <2>2 DEF f
<1>3. CASE v.frame[f].dirty
  <2> DEFINE data == v.frame[f].page_cache
  <2>1. /\ w.index = v.index
        /\ w.frame = [v.frame EXCEPT ![f].dirty = FALSE]
        /\ w.pagetable_size = v.pagetable_size
        /\ w.store = PageCacheSet(v.store, p, data)
        /\ w = [index |-> w.index, frame |-> w.frame, pagetable_size |-> w.pagetable_size,
                store |-> w.store]
    BY <1>1, <1>3 DEF OnPageFlush, VmmOK, VmmTypeOK
  <2>2. /\ PageCacheOK(w.store)
        /\ StoreView(w.store) = [StoreView(v.store) EXCEPT ![p] = data]
    BY <1>1, <2>1, PageCacheSetOK DEF VmmOK
  <2> HIDE DEF w
  <2>3. /\ w.frame \in [Frame -> Entry]
        /\ w.frame[f].page_cache = data
        /\ w.frame[f].page_number = p
        /\ w.frame[f].allocated = v.frame[f].allocated
        /\ w.frame[f].dirty = FALSE
        /\ \A g \in Frame : g # f => w.frame[g] = v.frame[g]
    BY <1>1, <2>1 DEF VmmOK, VmmTypeOK, Entry
  <2>4. /\ Resident(w) = Resident(v)
        /\ \A q \in Resident(v) : FrameOf(w, q) = FrameOf(v, q)
    BY <2>1 DEF Resident, FrameOf
  <2>5. \A q \in Resident(v) : q # p => FrameOf(v, q) \in Frame /\ FrameOf(v, q) # f
    BY FrameFacts DEF VmmOK, f
  <2>6. FramesOK(w)
    BY <2>3, <2>4, <2>5 DEF VmmOK, FramesOK, f
  <2>7. StoreView(v.store) \in [Page -> Data]
    BY StoreViewType DEF VmmOK
  <2>8. CleanOK(w)
    BY <1>1, <2>2, <2>3, <2>4, <2>5, <2>7, FrameFacts DEF VmmOK, CleanOK, f
  <2>9. VmmOK(w)
    BY <2>1, <2>2, <2>3, <2>6, <2>8 DEF VmmOK, VmmTypeOK
  <2>10. ASSUME NEW q \in Page
         PROVE  PageView(w, q) = PageView(v, q)
    BY <1>1, <2>2, <2>3, <2>4, <2>5, <2>7 DEF PageView, f
  <2>11. QED
    BY <2>1, <2>9, <2>10 DEF f, w
<1>4. QED
  BY <1>2, <1>3

-----------------------------------------------------------------------------
(***************************************************************************)
(* free_vmtable and the eviction of the frame at the tail.                 *)
(***************************************************************************)

LEMMA UsableIndex ==
  ASSUME NEW v, VmmUsable(v)
  PROVE  IndexOK(TlbCells, v.index, Page, Frame)
BY DEF VmmUsable, VmmOK, IndexOK

LEMMA FreeVmtableOK ==
  ASSUME NEW v, VmmUsable(v), NEW p \in Resident(v)
  PROVE  LET f == FrameOf(v, p)
             r == FreeVmtable(v, f)
         IN  /\ VmmOK(r)
             /\ DirectAgrees(TlbCells, r.index)
             /\ Resident(r) = Resident(v) \ {p}
             /\ r.pagetable_size = v.pagetable_size
             /\ r.index.lru.number_of_items = v.index.lru.number_of_items - 1
             /\ \A q \in Page : PageView(r, q) = PageView(v, q)
<1> DEFINE f == FrameOf(v, p)
           w == OnPageFlush(v, f)
           r == FreeVmtable(v, f)
<1>1. /\ f \in Frame
      /\ p \in Page
      /\ v.frame[f].page_number = p
  BY FrameFacts DEF VmmUsable, VmmOK
<1>2. /\ VmmOK(w)
      /\ w.index = v.index
      /\ w.pagetable_size = v.pagetable_size
      /\ w.frame = [v.frame EXCEPT ![f].dirty = FALSE]
      /\ \A q \in Page : PageView(w, q) = PageView(v, q)
  BY OnPageFlushOK DEF VmmUsable
<1>3. r = [w EXCEPT !.index = IndexRemove(TlbCells, @, p), !.frame[f] = FreeEntry]
  BY <1>1 DEF FreeVmtable
<1> DEFINE index == IndexRemove(TlbCells, v.index, p)
<1>4. /\ IndexOK(TlbCells, index, Page, Frame)
      /\ IndexRemoved(v.index, index, p)
  <2>1. /\ IndexOK(TlbCells, v.index, Page, Frame)
        /\ TlbCells \in Nat \ {0, 1}
        /\ Page \subseteq Nat
    BY UsableIndex, VmmConstants
  <2>2. QED
    BY <1>1, <2>1, IndexRemoveOK, Zenon
<1> HIDE DEF w, index
<1>5. /\ r.index = index
      /\ r.frame = [w.frame EXCEPT ![f] = FreeEntry]
      /\ r.pagetable_size = w.pagetable_size
      /\ r.store = w.store
      /\ r = [index |-> r.index, frame |-> r.frame, pagetable_size |-> r.pagetable_size,
              store |-> r.store]
  BY <1>2, <1>3 DEF VmmOK, VmmTypeOK, index
<1> HIDE DEF r
<1>6. /\ Resident(r) = Resident(v) \ {p}
      /\ Resident(w) = Resident(v)
      /\ \A q \in Resident(r) : FrameOf(r, q) = FrameOf(w, q)
      /\ r.index.lru.number_of_items = v.index.lru.number_of_items - 1
  BY <1>2, <1>4, <1>5 DEF IndexRemoved, Resident, FrameOf
<1>7. FrameOf(w, p) = f
  BY <1>2 DEF FrameOf, f
<1> HIDE DEF f
<1>8. /\ r.frame \in [Frame -> Entry]
      /\ \A q \in Resident(r) : r.frame[FrameOf(r, q)] = w.frame[FrameOf(w, q)]
  <2>1. w.frame \in [Frame -> Entry]
    BY <1>2 DEF VmmOK, VmmTypeOK
  <2>2. \A q \in Resident(r) : FrameOf(w, q) \in Frame /\ FrameOf(w, q) # f
    BY <1>2, <1>6, <1>7, FrameFacts DEF VmmOK
  <2>3. QED
    BY <1>1, <1>5, <1>6, <2>1, <2>2, FreeEntryType
<1>9. w.frame[f].page_cache = StoreView(w.store)[p]
  <2>1. v.frame \in [Frame -> Entry]
    BY DEF VmmUsable, VmmOK, VmmTypeOK
  <2>2. ~w.frame[f].dirty
    BY <1>1, <1>2, <2>1 DEF Entry
  <2>3. QED
    BY <1>2, <1>6, <1>7, <2>2 DEF VmmOK, CleanOK
<1>10. FramesOK(r) /\ CleanOK(r)
  BY <1>2, <1>5, <1>6, <1>8 DEF VmmOK, FramesOK, CleanOK
<1>11. VmmOK(r) /\ DirectAgrees(TlbCells, r.index)
  BY <1>2, <1>4, <1>5, <1>8, <1>10 DEF VmmOK, VmmTypeOK, IndexOK
<1>12. ASSUME NEW q \in Page
       PROVE  PageView(r, q) = PageView(w, q)
  BY <1>5, <1>6, <1>7, <1>8, <1>9 DEF PageView
<1>13. QED
  BY <1>2, <1>5, <1>6, <1>11, <1>12 DEF r, f

LEMMA CountFacts ==
  ASSUME NEW v, VmmUsable(v)
  PROVE  /\ v.index.lru.number_of_items = Len(v.index.lru.list)
         /\ v.index.lru.number_of_items \in Nat
         /\ v.pagetable_size > 0 => Resident(v) # {}
<1>1. LruOK(v.index.lru, Page, Frame)
  BY DEF VmmUsable, VmmOK, IndexTypeOK
<1>2. /\ v.index.lru.number_of_items = Len(v.index.lru.list)
      /\ v.index.lru.list \in Seq(Page)
  BY <1>1 DEF LruOK
<1>3. Len(v.index.lru.list) > 0 => v.index.lru.list[1] \in Page /\ 1 \in DOMAIN v.index.lru.list
  BY <1>2
<1>4. Len(v.index.lru.list) > 0 => v.index.lru.list[1] \in LruKeys(v.index.lru)
  BY <1>1, <1>2, <1>3 DEF LruOK, Contains
<1>5. v.index.lru.number_of_items \in Nat
  BY <1>2
<1>6. QED
  BY <1>2, <1>4, <1>5 DEF Resident, IndexedPages, VmmUsable

\* The tail of the list is resident, and its frame is what the cache returns.
LEMMA LastFrame ==
  ASSUME NEW v, VmmOK(v), Resident(v) # {}
  PROVE  /\ LruTail(v.index.lru) \in Resident(v)
         /\ LeastRecentlyUsed(v.index.lru) = FrameOf(v, LruTail(v.index.lru))
<1>1. LruOK(v.index.lru, Page, Frame) /\ LruKeys(v.index.lru) # {}
  BY DEF VmmOK, IndexTypeOK, Resident, IndexedPages
<1>2. QED
  BY <1>1, LruTailOK DEF Resident, IndexedPages, FrameOf

LEMMA EvictLastOK ==
  ASSUME NEW v, VmmUsable(v), Resident(v) # {}
  PROVE  LET w == EvictLast(v)
         IN  /\ VmmUsable(w)
             /\ w.pagetable_size = v.pagetable_size - 1
             /\ Resident(w) \subseteq Resident(v)
             /\ \A q \in Page : PageView(w, q) = PageView(v, q)
<1> DEFINE p == LruTail(v.index.lru)
           f == LeastRecentlyUsed(v.index.lru)
           r == FreeVmtable(v, f)
           w == EvictLast(v)
<1>1. p \in Resident(v) /\ f = FrameOf(v, p)
  BY LastFrame DEF VmmUsable
<1>2. f # NULL
  BY <1>1, FrameFacts, VmmConstants DEF VmmUsable, VmmOK
<1>3. w = [r EXCEPT !.pagetable_size = @ - 1]
  BY <1>2 DEF EvictLast
<1>4. /\ VmmOK(r)
      /\ DirectAgrees(TlbCells, r.index)
      /\ Resident(r) = Resident(v) \ {p}
      /\ r.pagetable_size = v.pagetable_size
      /\ r.index.lru.number_of_items = v.index.lru.number_of_items - 1
      /\ \A q \in Page : PageView(r, q) = PageView(v, q)
  BY <1>1, FreeVmtableOK
<1> HIDE DEF r, f, p
<1>5. /\ w.index = r.index
      /\ w.frame = r.frame
      /\ w.store = r.store
      /\ w.pagetable_size = v.pagetable_size - 1
      /\ w = [index |-> w.index, frame |-> w.frame, pagetable_size |-> w.pagetable_size,
              store |-> w.store]
  BY <1>3, <1>4 DEF VmmOK, VmmTypeOK
<1> HIDE DEF w
<1>6. w.pagetable_size \in Nat /\ w.pagetable_size = w.index.lru.number_of_items
  <2>1. r.index.lru.number_of_items \in Nat
    <3>1. LruOK(r.index.lru, Page, Frame)
      BY <1>4 DEF VmmOK, IndexTypeOK
    <3>2. QED
      BY <3>1 DEF LruOK
  <2>2. QED
    BY <1>4, <1>5, <2>1 DEF VmmUsable
<1>7. v.pagetable_size \in Nat /\ v.pagetable_size <= NumberOfPages /\ NumberOfPages \in Nat
  BY VmmConstants DEF VmmUsable, VmmOK, VmmTypeOK
<1>8. VmmTypeOK(w) /\ w.pagetable_size <= NumberOfPages
  BY <1>4, <1>5, <1>6, <1>7 DEF VmmOK, VmmTypeOK
<1>9. Resident(w) = Resident(r) /\ \A q : FrameOf(w, q) = FrameOf(r, q)
  BY <1>5 DEF Resident, FrameOf
<1>10. FramesOK(w) /\ CleanOK(w)
  BY <1>4, <1>5, <1>9 DEF VmmOK, FramesOK, CleanOK
<1>11. VmmUsable(w)
  BY <1>4, <1>5, <1>6, <1>8, <1>10 DEF VmmOK, VmmUsable
<1>12. ASSUME NEW q \in Page
       PROVE  PageView(w, q) = PageView(v, q)
  <2>1. PageView(w, q) = PageView(r, q)
    BY <1>5, <1>9 DEF PageView
  <2>2. QED
    BY <1>4, <2>1
<1>13. QED
  BY <1>4, <1>5, <1>9, <1>11, <1>12 DEF w

-----------------------------------------------------------------------------
(***************************************************************************)
(* get_page.                                                               *)
(***************************************************************************)

LEMMA MakeRoomOK ==
  ASSUME NEW v, VmmUsable(v)
  PROVE  LET w == MakeRoom(v)
         IN  /\ VmmUsable(w)
             /\ w.pagetable_size < NumberOfPages
             /\ Resident(w) \subseteq Resident(v)
             /\ \A q \in Page : PageView(w, q) = PageView(v, q)
<1>1. /\ v.pagetable_size \in Nat
      /\ v.pagetable_size <= NumberOfPages
      /\ NumberOfPages \in Nat \ {0}
  BY VmmConstants DEF VmmUsable, VmmOK, VmmTypeOK
<1>2. CASE v.pagetable_size >= NumberOfPages
  <2>1. Resident(v) # {}
    BY <1>1, <1>2, CountFacts
  <2>2. MakeRoom(v) = EvictLast(v)
    BY <1>2 DEF MakeRoom
  <2>3. EvictLast(v).pagetable_size = v.pagetable_size - 1
    BY <2>1, EvictLastOK
  <2>4. EvictLast(v).pagetable_size < NumberOfPages
    BY <1>1, <2>3
  <2>5. QED
    BY <2>1, <2>2, <2>4, EvictLastOK
<1>3. CASE ~(v.pagetable_size >= NumberOfPages)
  <2>1. MakeRoom(v) = v
    BY <1>3 DEF MakeRoom
  <2>2. v.pagetable_size < NumberOfPages
    BY <1>1, <1>3
  <2>3. QED
    BY <2>1, <2>2
<1>4. QED
  BY <1>2, <1>3

LEMMA LoadPageOK ==
  ASSUME NEW v, VmmUsable(v), v.pagetable_size < NumberOfPages,
         NEW p \in Page, p \notin Resident(v),
         NEW f \in Frame, ~v.frame[f].allocated, NEW dirty \in BOOLEAN
  PROVE  LET w == LoadPage(v, p, f, dirty)
         IN  /\ VmmUsable(w)
             /\ p \in Resident(w)
             /\ FrameOf(w, p) = f
             /\ \A q \in Page : PageView(w, q) = PageView(v, q)
<1> DEFINE w     == LoadPage(v, p, f, dirty)
           data  == StoreRead(v.store, p)
           entry == [allocated |-> TRUE, page_number |-> p, dirty |-> dirty,
                     page_cache |-> data]
           index == IndexAdd(TlbCells, v.index, p, f)
<1>1. /\ w.index = index
      /\ w.frame = [v.frame EXCEPT ![f] = entry]
      /\ w.pagetable_size = v.pagetable_size + 1
      /\ w.store = TouchBlock(v.store, p)
      /\ w = [index |-> w.index, frame |-> w.frame, pagetable_size |-> w.pagetable_size,
              store |-> w.store]
  BY DEF LoadPage, VmmUsable, VmmOK, VmmTypeOK
<1>2. /\ IndexOK(TlbCells, index, Page, Frame)
      /\ IndexAdded(v.index, index, p, f)
  <2>1. /\ IndexOK(TlbCells, v.index, Page, Frame)
        /\ TlbCells \in Nat \ {0, 1}
        /\ Page \subseteq Nat
    BY UsableIndex, VmmConstants
  <2>2. p \notin IndexedPages(v.index)
    BY DEF Resident
  <2>3. QED
    BY <2>1, <2>2, IndexAddOK, Zenon
<1>3. /\ PageCacheOK(w.store)
      /\ StoreView(w.store) = StoreView(v.store)
      /\ data = StoreView(v.store)[p]
      /\ data \in Data
  <2>1. PageCacheOK(v.store)
    BY DEF VmmUsable, VmmOK
  <2>2. StoreView(v.store)[p] \in Data
    BY <2>1, StoreViewType
  <2>3. QED
    BY <1>1, <2>1, <2>2, TouchBlockOK, StoreReadOK
<1>4. entry \in Entry /\ entry.allocated /\ entry.page_number = p /\ entry.page_cache = data
  BY <1>3 DEF Entry
<1> HIDE DEF w, index, data, entry
<1>5. /\ Resident(w) = Resident(v) \cup {p}
      /\ FrameOf(w, p) = f
      /\ \A q \in Resident(v) : FrameOf(w, q) = FrameOf(v, q)
      /\ w.index.lru.number_of_items = v.index.lru.number_of_items + 1
  BY <1>1, <1>2 DEF IndexAdded, Resident, FrameOf
<1>6. /\ w.frame \in [Frame -> Entry]
      /\ w.frame[f] = entry
      /\ \A q \in Resident(v) : w.frame[FrameOf(w, q)] = v.frame[FrameOf(v, q)]
  <2>1. v.frame \in [Frame -> Entry]
    BY DEF VmmUsable, VmmOK, VmmTypeOK
  <2>2. \A q \in Resident(v) : FrameOf(v, q) \in Frame /\ FrameOf(v, q) # f
    BY FrameFacts DEF VmmUsable, VmmOK, FramesOK
  <2>3. QED
    BY <1>1, <1>4, <1>5, <2>1, <2>2
<1>7. FramesOK(w)
  BY <1>4, <1>5, <1>6 DEF VmmUsable, VmmOK, FramesOK
<1>8. CleanOK(w)
  BY <1>3, <1>4, <1>5, <1>6 DEF VmmUsable, VmmOK, CleanOK
<1>9. /\ w.pagetable_size \in Nat
      /\ w.pagetable_size <= NumberOfPages
      /\ w.pagetable_size = w.index.lru.number_of_items
  <2>1. v.pagetable_size \in Nat /\ NumberOfPages \in Nat
    BY VmmConstants DEF VmmUsable, VmmOK, VmmTypeOK
  <2>2. v.pagetable_size = v.index.lru.number_of_items
    BY DEF VmmUsable
  <2>3. QED
    BY <1>1, <1>5, <2>1, <2>2
<1>10. VmmUsable(w)
  BY <1>1, <1>2, <1>3, <1>6, <1>7, <1>8, <1>9 DEF VmmUsable, VmmOK, VmmTypeOK, IndexOK
<1>11. ASSUME NEW q \in Page
       PROVE  PageView(w, q) = PageView(v, q)
  BY <1>3, <1>4, <1>5, <1>6 DEF PageView
<1>12. QED
  BY <1>5, <1>10, <1>11 DEF w

\* What get_TLB answers.
LEMMA GetTLBOK ==
  ASSUME NEW v, VmmUsable(v), NEW p \in Page
  PROVE  /\ GetTLB(v, p) # NULL <=> p \in Resident(v)
         /\ GetTLB(v, p) # NULL => GetTLB(v, p) = FrameOf(v, p)
<1>1. /\ IndexOK(TlbCells, v.index, Page, Frame)
      /\ TlbCells \in Nat \ {0, 1}
      /\ Page \subseteq Nat
      /\ NULL \notin Frame
  BY UsableIndex, VmmConstants
<1>2. GetTLB(v, p) = IF p \in IndexedPages(v.index) THEN v.index.lru.value[p] ELSE NULL
  BY <1>1, IndexFindOK DEF GetTLB
<1>3. p \in Resident(v) => FrameOf(v, p) # NULL
  BY FrameFacts, VmmConstants DEF VmmUsable, VmmOK
<1>4. QED
  BY <1>2, <1>3 DEF Resident, FrameOf

LEMMA TouchTLBOK ==
  ASSUME NEW v, VmmUsable(v), NEW p \in Page
  PROVE  LET w == TouchTLB(v, p)
         IN  /\ VmmUsable(w)
             /\ w.frame = v.frame
             /\ Resident(w) = Resident(v)
             /\ \A q : FrameOf(w, q) = FrameOf(v, q)
             /\ \A q \in Page : PageView(w, q) = PageView(v, q)
<1> DEFINE w == TouchTLB(v, p)
           index == IndexTouch(TlbCells, v.index, p)
<1>1. /\ w.index = index
      /\ w.frame = v.frame
      /\ w.pagetable_size = v.pagetable_size
      /\ w.store = v.store
      /\ w = [index |-> w.index, frame |-> w.frame, pagetable_size |-> w.pagetable_size,
              store |-> w.store]
  BY DEF TouchTLB, VmmUsable, VmmOK, VmmTypeOK
<1>2. /\ IndexOK(TlbCells, index, Page, Frame)
      /\ index.lru.value = v.index.lru.value
      /\ index.lru.number_of_items = v.index.lru.number_of_items
  <2>1. /\ IndexOK(TlbCells, v.index, Page, Frame)
        /\ TlbCells \in Nat \ {0, 1}
        /\ Page \subseteq Nat
        /\ NULL \notin Frame
    BY UsableIndex, VmmConstants
  <2>2. /\ IndexOK(TlbCells, index, Page, Frame)
        /\ SameIndexedPages(v.index, index)
    BY <2>1, IndexTouchOK, Zenon
  <2>3. QED
    BY <2>2 DEF SameIndexedPages
<1> HIDE DEF w, index
<1>3. Resident(w) = Resident(v) /\ \A q : FrameOf(w, q) = FrameOf(v, q)
  BY <1>1, <1>2 DEF Resident, FrameOf, IndexedPages, LruKeys
<1>4. VmmUsable(w)
  BY <1>1, <1>2, <1>3 DEF VmmUsable, VmmOK, VmmTypeOK, IndexOK, FramesOK, CleanOK
<1>5. QED
  BY <1>1, <1>3, <1>4 DEF PageView, w

\* get_page returns a frame that holds the page and is the page's only one.
LEMMA GetPageOK ==
  ASSUME NEW v, VmmUsable(v), NEW p \in Page, NEW f \in Frame, NEW dirty \in BOOLEAN,
         Returns(v, p, f)
  PROVE  LET w == GetPage(v, p, f, dirty)
         IN  /\ VmmUsable(w)
             /\ p \in Resident(w)
             /\ FrameOf(w, p) = f
             /\ \A q \in Page : PageView(w, q) = PageView(v, q)
<1>1. CASE GetTLB(v, p) # NULL
  <2>1. GetPage(v, p, f, dirty) = TouchTLB(v, p)
    BY <1>1 DEF GetPage
  <2>2. p \in Resident(v) /\ f = FrameOf(v, p)
    BY <1>1, GetTLBOK DEF Returns
  <2>3. QED
    BY <2>1, <2>2, TouchTLBOK
<1>2. CASE GetTLB(v, p) = NULL
  <2> DEFINE m == MakeRoom(v)
  <2>1. GetPage(v, p, f, dirty) = LoadPage(m, p, f, dirty)
    BY <1>2 DEF GetPage
  <2>2. ~m.frame[f].allocated
    BY <1>2 DEF Returns
  <2>3. p \notin Resident(v)
    BY <1>2, GetTLBOK
  <2>4. /\ VmmUsable(m)
        /\ m.pagetable_size < NumberOfPages
        /\ Resident(m) \subseteq Resident(v)
        /\ \A q \in Page : PageView(m, q) = PageView(v, q)
    BY MakeRoomOK
  <2> HIDE DEF m
  <2>5. QED
    BY <2>1, <2>2, <2>3, <2>4, LoadPageOK
<1>3. QED
  BY <1>1, <1>2

\* The bytes of an access that fall in a page, over what the page held.
Written(page, bytes, old) ==
  [o \in Offset |-> IF <<page, o>> \in DOMAIN bytes THEN bytes[<<page, o>>] ELSE old[o]]

LEMMA StoreBytesOK ==
  ASSUME NEW v, VmmUsable(v), NEW p \in Resident(v),
         NEW S \in SUBSET Addr, NEW bytes \in [S -> Byte]
  PROVE  LET f == FrameOf(v, p)
             w == StoreBytes(v, f, p, bytes)
         IN  /\ VmmUsable(w)
             /\ PageView(w, p) = Written(p, bytes, PageView(v, p))
             /\ \A q \in Page \ {p} : PageView(w, q) = PageView(v, q)
<1> DEFINE f == FrameOf(v, p)
           w == StoreBytes(v, f, p, bytes)
           old == v.frame[f].page_cache
           new == Written(p, bytes, old)
           entry == [v.frame[f] EXCEPT !.page_cache = new, !.dirty = TRUE]
<1>1. /\ f \in Frame
      /\ p \in Page
      /\ v.frame \in [Frame -> Entry]
      /\ v.frame[f].page_number = p
      /\ v.frame[f].allocated
      /\ \A q \in Resident(v) : q # p => FrameOf(v, q) \in Frame /\ FrameOf(v, q) # f
  BY FrameFacts DEF VmmUsable, VmmOK, VmmTypeOK, FramesOK
<1>2. old \in Data /\ new \in Data
  <2>1. old \in [Offset -> Byte]
    BY <1>1, VmmConstants DEF Entry
  <2>2. ASSUME NEW o \in Offset
        PROVE  (IF <<p, o>> \in DOMAIN bytes THEN bytes[<<p, o>>] ELSE old[o]) \in Byte
    BY <2>1
  <2>3. new \in [Offset -> Byte]
    BY <2>2 DEF Written
  <2>4. QED
    BY <2>1, <2>3, VmmConstants
<1>3. /\ w.index = v.index
      /\ w.frame = [v.frame EXCEPT ![f] = entry]
      /\ w.pagetable_size = v.pagetable_size
      /\ w.store = v.store
      /\ w = [index |-> w.index, frame |-> w.frame, pagetable_size |-> w.pagetable_size,
              store |-> w.store]
  BY DEF StoreBytes, Written, VmmUsable, VmmOK, VmmTypeOK
<1>4. /\ entry \in Entry
      /\ entry.page_cache = new
      /\ entry.dirty = TRUE
      /\ entry.page_number = p
      /\ entry.allocated
  BY <1>1, <1>2 DEF Entry
<1> HIDE DEF w, f, old, new, entry
<1>5. /\ w.frame \in [Frame -> Entry]
      /\ w.frame[f].page_cache = new
      /\ w.frame[f].dirty = TRUE
      /\ w.frame[f].page_number = p
      /\ w.frame[f].allocated
      /\ \A g \in Frame : g # f => w.frame[g] = v.frame[g]
  BY <1>1, <1>3, <1>4
<1>6. Resident(w) = Resident(v) /\ \A q : FrameOf(w, q) = FrameOf(v, q)
  BY <1>3 DEF Resident, FrameOf
<1>7. FramesOK(w)
  BY <1>1, <1>5, <1>6 DEF VmmUsable, VmmOK, FramesOK, f
<1>8. CleanOK(w)
  BY <1>1, <1>3, <1>5, <1>6 DEF VmmUsable, VmmOK, CleanOK, f
<1>9. VmmUsable(w)
  BY <1>3, <1>5, <1>7, <1>8 DEF VmmUsable, VmmOK, VmmTypeOK
<1>10. PageView(w, p) = new /\ PageView(v, p) = old
  BY <1>5, <1>6 DEF PageView, f, old
<1>11. ASSUME NEW q \in Page \ {p}
       PROVE  PageView(w, q) = PageView(v, q)
  BY <1>1, <1>3, <1>5, <1>6 DEF PageView
<1>12. QED
  BY <1>9, <1>10, <1>11 DEF w, f, new

-----------------------------------------------------------------------------
(***************************************************************************)
(* lru_cache_free: on_page_flush for the tail, then the tail is forgotten. *)
(***************************************************************************)

LEMMA DropTailOK ==
  ASSUME NEW v, VmmOK(v), v.index.lru.list # << >>
  PROVE  LET f == LeastRecentlyUsed(v.index.lru)
             w == [OnPageFlush(v, f) EXCEPT !.index.lru = LruFlushTail(@)]
         IN  /\ VmmOK(w)
             /\ Resident(w) \subseteq Resident(v)
             /\ \A q \in Resident(w) : FrameOf(w, q) = FrameOf(v, q)
             /\ \E g \in Frame : w.frame = [v.frame EXCEPT ![g].dirty = FALSE]
             /\ \A q \in Page : PageView(w, q) = PageView(v, q)
<1> DEFINE p   == LruTail(v.index.lru)
           f   == LeastRecentlyUsed(v.index.lru)
           x   == OnPageFlush(v, f)
           lru == LruFlushTail(v.index.lru)
           w   == [x EXCEPT !.index.lru = LruFlushTail(@)]
<1>1. LruOK(v.index.lru, Page, Frame)
  BY DEF VmmOK, IndexTypeOK
<1>2. Resident(v) # {}
  <2>1. v.index.lru.list \in Seq(Page) /\ v.index.lru.list # << >>
    BY <1>1 DEF LruOK
  <2>2. v.index.lru.list[1] \in Page /\ 1 \in DOMAIN v.index.lru.list
    BY <2>1
  <2>3. v.index.lru.list[1] \in LruKeys(v.index.lru)
    BY <1>1, <2>2 DEF LruOK, Contains
  <2>4. QED
    BY <2>3 DEF Resident, IndexedPages
<1>3. /\ p \in Resident(v)
      /\ f = FrameOf(v, p)
      /\ f \in Frame
  BY <1>2, LastFrame, FrameFacts DEF VmmOK
<1>4. /\ VmmOK(x)
      /\ x.index = v.index
      /\ x.pagetable_size = v.pagetable_size
      /\ x.frame = [v.frame EXCEPT ![f].dirty = FALSE]
      /\ \A q \in Page : PageView(x, q) = PageView(v, q)
  BY <1>3, OnPageFlushOK
<1>5. /\ LruOK(lru, Page, Frame)
      /\ LruKeys(lru) = LruKeys(v.index.lru) \ {p}
      /\ \A q \in LruKeys(lru) : lru.value[q] = v.index.lru.value[q]
  <2> DEFINE old == v.index.lru
  <2>1. LruOK(old, Page, Frame) /\ old.list # << >>
    BY <1>1
  <2> HIDE DEF old
  <2>2. /\ LruOK(LruFlushTail(old), Page, Frame)
        /\ LruKeys(LruFlushTail(old)) = LruKeys(old) \ {LruTail(old)}
        /\ \A q \in LruKeys(old) \ {LruTail(old)} : LruFlushTail(old).value[q] = old.value[q]
    BY <2>1, LruFlushTailOK
  <2>3. QED
    BY <2>2 DEF old
<1> HIDE DEF x, lru
<1>6. /\ w.index = [direct |-> v.index.direct, lru |-> lru]
      /\ w.frame = x.frame
      /\ w.pagetable_size = x.pagetable_size
      /\ w.store = x.store
      /\ w = [index |-> w.index, frame |-> w.frame, pagetable_size |-> w.pagetable_size,
              store |-> w.store]
  BY <1>4, SMTT(60) DEF VmmOK, VmmTypeOK, IndexTypeOK, lru
<1> HIDE DEF w, p, f
<1>7. IndexTypeOK(TlbCells, w.index, Page, Frame)
  BY <1>5, <1>6 DEF VmmOK, IndexTypeOK
<1>8. /\ Resident(w) = Resident(v) \ {p}
      /\ Resident(x) = Resident(v)
      /\ \A q \in Resident(w) : FrameOf(w, q) = FrameOf(x, q)
      /\ \A q \in Resident(v) : FrameOf(x, q) = FrameOf(v, q)
  BY <1>4, <1>5, <1>6 DEF Resident, IndexedPages, FrameOf
<1>9. FramesOK(w) /\ CleanOK(w)
  BY <1>4, <1>6, <1>8 DEF VmmOK, FramesOK, CleanOK
<1>10. VmmOK(w)
  BY <1>4, <1>6, <1>7, <1>9 DEF VmmOK, VmmTypeOK
<1>11. PageView(x, p) = StoreView(x.store)[p]
  <2>1. v.frame \in [Frame -> Entry]
    BY DEF VmmOK, VmmTypeOK
  <2>2. ~x.frame[FrameOf(x, p)].dirty
    BY <1>3, <1>4, <1>8, <2>1 DEF Entry
  <2>3. QED
    BY <1>3, <1>4, <1>8, <2>2 DEF VmmOK, CleanOK, PageView
<1>12. ASSUME NEW q \in Page
       PROVE  PageView(w, q) = PageView(x, q)
  BY <1>6, <1>8, <1>11 DEF PageView
<1>13. QED
  BY <1>3, <1>4, <1>6, <1>8, <1>10, <1>12 DEF w, x, f

-----------------------------------------------------------------------------
(***************************************************************************)
(* The inductive invariant, and what each action does to the view.         *)
(***************************************************************************)

Inv ==
  /\ VmmOK(vmm)
  /\ phase \notin {"drop", "closed"} => VmmUsable(vmm)
  /\ RequestTypeOK
  /\ \A a \in DOMAIN target : target[a] = View(vmm)[a]
  /\ phase \in {"flush", "last_flush"} => cursor \in Nat \ {0}
  /\ NothingWrittenAfterClose

LEMMA VmmCreateOK ==
  ASSUME NEW himem \in [Block -> Data]
  PROVE  /\ VmmUsable(VmmCreate(himem))
         /\ View(VmmCreate(himem)) = [a \in Addr |-> Zero]
<1> DEFINE v == VmmCreate(himem)
<1>1. /\ v.index = IndexInit(TlbCells)
      /\ v.frame = [f \in Frame |-> FreeEntry]
      /\ v.pagetable_size = 0
      /\ v.store = PageCacheInit(himem)
      /\ v = [index |-> v.index, frame |-> v.frame, pagetable_size |-> v.pagetable_size,
              store |-> v.store]
  BY DEF VmmCreate
<1> HIDE DEF v
<1>2. /\ IndexOK(TlbCells, v.index, Page, Frame)
      /\ Resident(v) = {}
  <2>1. TlbCells \in Nat \ {0, 1}
    BY VmmConstants
  <2>2. /\ IndexOK(TlbCells, IndexInit(TlbCells), Page, Frame)
        /\ IndexedPages(IndexInit(TlbCells)) = {}
    BY <2>1, IndexInitOK
  <2>3. QED
    BY <1>1, <2>2 DEF Resident
<1>3. v.index.lru.number_of_items = 0
  BY <1>1 DEF IndexInit, LruInit
<1>4. /\ PageCacheOK(v.store)
      /\ StoreView(v.store) = [p \in Page |-> ZeroPage]
  BY <1>1, PageCacheInitOK
<1>5. VmmTypeOK(v) /\ v.pagetable_size <= NumberOfPages
  BY <1>1, VmmConstants, FreeEntryType DEF VmmTypeOK
<1>6. VmmUsable(v)
  BY <1>1, <1>2, <1>3, <1>4, <1>5 DEF VmmUsable, VmmOK, IndexOK, FramesOK, CleanOK
<1>7. View(v) = [a \in Addr |-> Zero]
  <2>1. \A a \in Addr : a[1] \in Page /\ a[2] \in Offset
    BY DEF Addr
  <2>2. \A a \in Addr : StoreView(v.store)[a[1]][a[2]] = Zero
    BY <1>4, <2>1, VmmConstants
  <2>3. QED
    BY <1>2, <2>2 DEF View
<1>8. QED
  BY <1>6, <1>7 DEF v

LEMMA InitInv == Init => Inv
<1> SUFFICES ASSUME Init PROVE Inv
  OBVIOUS
<1>1. VmmUsable(vmm) /\ VmmOK(vmm)
  BY VmmCreateOK DEF Init, VmmUsable
<1>2. writing \in [{} -> Byte] /\ target \in [{} -> Byte]
  BY DEF Init, NoBytes
<1>3. RequestTypeOK
  BY <1>2 DEF Init, RequestTypeOK
<1>4. NothingWrittenAfterClose
  BY DEF Init, NothingWrittenAfterClose
<1>5. QED
  BY <1>1, <1>2, <1>3, <1>4 DEF Inv, Init

LEMMA StartWriteInv ==
  ASSUME Inv, NEW a \in Addr, NEW len,
         NEW bytes \in [Span(a, len) -> Byte], StartWrite(a, len, bytes)
  PROVE  Inv'
<1>1. Span(a, len) \in SUBSET Addr
  BY DEF Span
<1>2. target' \in [{} -> Byte]
  BY DEF StartWrite, NoBytes
<1>3. RequestTypeOK'
  BY <1>1, <1>2 DEF Inv, RequestTypeOK, StartWrite, Idle
<1>4. phase = "run"
  BY DEF StartWrite, Idle
<1>5. QED
  BY <1>2, <1>3, <1>4 DEF Inv, StartWrite, NothingWrittenAfterClose

LEMMA StartReadInv ==
  ASSUME Inv, NEW a \in Addr, NEW len, StartRead(a, len)
  PROVE  Inv'
<1>1. reading' \in SUBSET Addr
  BY DEF StartRead, Span
<1>2. target' \in [{} -> Byte]
  BY DEF StartRead, NoBytes
<1>3. RequestTypeOK'
  BY <1>1, <1>2 DEF Inv, RequestTypeOK, StartRead, Idle
<1>4. phase = "run"
  BY DEF StartRead, Idle
<1>5. QED
  BY <1>2, <1>3, <1>4 DEF Inv, StartRead, NothingWrittenAfterClose

LEMMA StartCallInv ==
  ASSUME Inv, Flush \/ Destroy
  PROVE  Inv'
<1>1. target' \in [{} -> Byte]
  BY DEF Flush, Destroy, Start, NoBytes
<1>2. RequestTypeOK'
  BY <1>1 DEF Inv, RequestTypeOK, Flush, Destroy, Start, Idle
<1>3. NothingWrittenAfterClose'
  BY DEF NothingWrittenAfterClose, Flush, Destroy, Start, Idle
<1>4. QED
  BY <1>1, <1>2, <1>3 DEF Inv, Flush, Destroy, Start, Idle

\* The memory after a piece of a write, and of a read.
LEMMA WriteInternalStep ==
  ASSUME Inv, NEW p \in Page, NEW f \in Frame, NEW dirty \in BOOLEAN,
         WriteInternal(p, f, dirty)
  PROVE  Inv' /\ Contents' = Contents
<1> DEFINE S == DOMAIN writing
           w == GetPage(vmm, p, f, dirty)
<1>1. /\ phase = "run"
      /\ S # {}
      /\ S \in SUBSET Addr
      /\ writing \in [S -> Byte]
      /\ reading = {}
      /\ DOMAIN target = {}
  BY DEF Inv, RequestTypeOK, WriteInternal, NextPage
<1>2. VmmUsable(vmm)
  BY <1>1 DEF Inv
<1>3. /\ VmmUsable(w)
      /\ p \in Resident(w)
      /\ FrameOf(w, p) = f
      /\ \A q \in Page : PageView(w, q) = PageView(vmm, q)
  BY <1>2, GetPageOK DEF WriteInternal
<1>4. vmm' = StoreBytes(w, f, p, writing)
  BY DEF WriteInternal
<1> HIDE DEF w
<1>5. /\ VmmUsable(vmm')
      /\ PageView(vmm', p) = Written(p, writing, PageView(vmm, p))
      /\ \A q \in Page \ {p} : PageView(vmm', q) = PageView(vmm, q)
  BY <1>1, <1>3, <1>4, StoreBytesOK
<1>6. /\ DOMAIN writing' = S \ Piece(S, p)
      /\ \A a \in DOMAIN writing' : writing'[a] = writing[a]
      /\ writing' \in [DOMAIN writing' -> Byte]
  BY <1>1 DEF WriteInternal, Piece, Restrict
<1>7. RequestTypeOK'
  <2>1. UNCHANGED <<reading, target, phase, cursor>>
    BY DEF WriteInternal
  <2>2. DOMAIN writing' \in SUBSET Addr
    BY <1>1, <1>6
  <2>3. QED
    BY <1>1, <1>6, <2>1, <2>2 DEF Inv, RequestTypeOK
<1>8. Inv'
  BY <1>1, <1>5, <1>7
     DEF Inv, WriteInternal, VmmUsable, NothingWrittenAfterClose
<1>9. ASSUME NEW a \in Addr
      PROVE  (IF a \in DOMAIN writing' THEN writing'[a] ELSE PageView(vmm', a[1])[a[2]])
               = (IF a \in S THEN writing[a] ELSE PageView(vmm, a[1])[a[2]])
  <2>1. /\ a[1] \in Page
        /\ a[2] \in Offset
        /\ a = <<a[1], a[2]>>
    BY DEF Addr
  <2>2. CASE a \in S /\ a[1] = p
    <3>1. a \notin DOMAIN writing'
      BY <1>6, <2>2 DEF Piece
    <3>2. PageView(vmm', p)[a[2]] = writing[<<p, a[2]>>]
      BY <1>5, <2>1, <2>2 DEF Written
    <3>3. QED
      BY <2>1, <2>2, <3>1, <3>2
  <2>3. CASE a \in S /\ a[1] # p
    BY <1>6, <2>3 DEF Piece
  <2>4. CASE a \notin S /\ a[1] = p
    <3>1. PageView(vmm', p)[a[2]] = PageView(vmm, p)[a[2]]
      BY <1>5, <2>1, <2>4 DEF Written
    <3>2. QED
      BY <1>6, <2>4, <3>1
  <2>5. CASE a \notin S /\ a[1] # p
    BY <1>5, <1>6, <2>1, <2>5
  <2>6. QED
    BY <2>2, <2>3, <2>4, <2>5
<1>10. Contents' = Contents
  BY <1>9 DEF Contents, View, PageView
<1>11. QED
  BY <1>8, <1>10

LEMMA ReadInternalStep ==
  ASSUME Inv, NEW p \in Page, NEW f \in Frame, NEW dirty \in BOOLEAN,
         ReadInternal(p, f, dirty)
  PROVE  Inv' /\ View(vmm') = View(vmm)
<1> DEFINE D == DOMAIN target
           T == D \cup Piece(reading, p)
<1>1. /\ phase = "run"
      /\ reading \in SUBSET Addr
      /\ reading # {}
      /\ writing \in UNION {[S -> Byte] : S \in SUBSET Addr}
      /\ DOMAIN writing = {}
      /\ D \in SUBSET Addr
      /\ target \in [D -> Byte]
  BY DEF Inv, RequestTypeOK, ReadInternal, NextPage
<1>2. VmmUsable(vmm)
  BY <1>1 DEF Inv
<1>3. /\ VmmUsable(vmm')
      /\ p \in Resident(vmm')
      /\ FrameOf(vmm', p) = f
      /\ \A q \in Page : PageView(vmm', q) = PageView(vmm, q)
  BY <1>2, GetPageOK DEF ReadInternal
<1>4. View(vmm') = View(vmm)
  BY <1>3, SamePages
<1>5. /\ target' = [a \in T |-> IF a \in D THEN target[a]
                               ELSE vmm'.frame[f].page_cache[a[2]]]
      /\ reading' = reading \ Piece(reading, p)
  BY DEF ReadInternal
<1>6. ASSUME NEW a \in Piece(reading, p)
      PROVE  /\ vmm'.frame[f].page_cache[a[2]] = View(vmm')[a]
             /\ vmm'.frame[f].page_cache[a[2]] \in Byte
             /\ a \in Addr
  <2>1. /\ a \in Addr
        /\ a[1] = p
        /\ a[2] \in Offset
    BY <1>1 DEF Piece, Addr
  <2>2. vmm'.frame[f].page_cache \in [Offset -> Byte]
    BY <1>3, VmmConstants DEF VmmUsable, VmmOK, VmmTypeOK, Entry
  <2>3. QED
    BY <1>3, <2>1, <2>2, ViewAt
<1>7. \A a \in DOMAIN target' : target'[a] = View(vmm')[a]
  BY <1>4, <1>5, <1>6 DEF Inv
<1>8. target' \in [T -> Byte] /\ T \in SUBSET Addr
  BY <1>1, <1>5, <1>6
<1>9. RequestTypeOK'
  <2>1. UNCHANGED <<writing, phase, cursor>>
    BY DEF ReadInternal
  <2>2. reading' \cap DOMAIN target' = {}
    BY <1>5, <1>8 DEF Inv, RequestTypeOK
  <2>3. QED
    BY <1>1, <1>5, <1>8, <2>1, <2>2 DEF Inv, RequestTypeOK
<1>10. Inv'
  BY <1>1, <1>3, <1>7, <1>9
     DEF Inv, ReadInternal, VmmUsable, NothingWrittenAfterClose
<1>11. QED
  BY <1>4, <1>10

\* The list holds the resident pages, at positions from 1 on.
LEMMA ListFacts ==
  ASSUME NEW v, VmmOK(v)
  PROVE  /\ Len(v.index.lru.list) \in Nat
         /\ DOMAIN v.index.lru.list = 1 .. Len(v.index.lru.list)
         /\ \A i \in DOMAIN v.index.lru.list : v.index.lru.list[i] \in Resident(v)
         /\ \A q \in Resident(v) :
              \E i \in DOMAIN v.index.lru.list : v.index.lru.list[i] = q
<1> DEFINE list == v.index.lru.list
<1>1. LruOK(v.index.lru, Page, Frame)
  BY DEF VmmOK, IndexTypeOK
<1>2. list \in Seq(Page)
  BY <1>1 DEF LruOK
<1>3. \A q \in Page : q \in Resident(v) <=> Contains(list, q)
  BY <1>1 DEF LruOK, Resident, IndexedPages
<1>4. Resident(v) \subseteq Page
  BY <1>1 DEF LruOK, Resident, IndexedPages
<1> HIDE DEF list
<1>5. /\ Len(list) \in Nat
      /\ DOMAIN list = 1 .. Len(list)
      /\ \A i \in DOMAIN list : list[i] \in Page
  BY <1>2
<1>6. \A q : Contains(list, q) <=> \E i \in DOMAIN list : list[i] = q
  BY <1>5 DEF Contains
<1>7. QED
  BY <1>3, <1>4, <1>5, <1>6 DEF list

LEMMA SyncNextStep ==
  ASSUME Inv, SyncNext
  PROVE  Inv' /\ View(vmm') = View(vmm)
<1> DEFINE list == vmm.index.lru.list
           p == list[cursor]
           f == FrameOf(vmm, p)
<1>1. /\ phase \in {"flush", "last_flush"}
      /\ VmmUsable(vmm)
      /\ cursor \in Nat \ {0}
      /\ cursor <= Len(list)
      /\ UNCHANGED <<writing, reading, target, phase>>
      /\ cursor' = cursor + 1
  BY DEF Inv, SyncNext
<1>2. /\ cursor \in DOMAIN list
      /\ p \in Resident(vmm)
      /\ \A i \in DOMAIN list : list[i] \in Resident(vmm)
      /\ DOMAIN list = 1 .. Len(list)
      /\ Len(list) \in Nat
  <2>1. /\ Len(list) \in Nat
        /\ DOMAIN list = 1 .. Len(list)
        /\ \A i \in DOMAIN list : list[i] \in Resident(vmm)
    BY <1>1, ListFacts DEF VmmUsable
  <2>2. cursor \in DOMAIN list
    BY <1>1, <2>1
  <2>3. QED
    BY <2>1, <2>2
<1>3. vmm' = OnPageFlush(vmm, f)
  BY DEF SyncNext
<1>4. /\ VmmOK(vmm')
      /\ vmm'.index = vmm.index
      /\ vmm'.pagetable_size = vmm.pagetable_size
      /\ vmm'.frame = [vmm.frame EXCEPT ![f].dirty = FALSE]
      /\ \A q \in Page : PageView(vmm', q) = PageView(vmm, q)
  BY <1>1, <1>2, <1>3, OnPageFlushOK DEF VmmUsable
<1>5. VmmUsable(vmm')
  BY <1>1, <1>4 DEF VmmUsable
<1>6. View(vmm') = View(vmm)
  BY <1>4, SamePages
<1>7. \A q \in Resident(vmm) : FrameOf(vmm', q) = FrameOf(vmm, q) /\ FrameOf(vmm, q) \in Frame
  BY <1>1, <1>4, FrameFacts DEF VmmUsable, VmmOK, FrameOf
<1>8. \A g \in Frame : vmm'.frame[g].dirty => vmm.frame[g].dirty /\ g # f
  <2>1. vmm.frame \in [Frame -> Entry]
    BY <1>1 DEF VmmUsable, VmmOK, VmmTypeOK
  <2>2. TAKE g \in Frame
  <2>3. CASE g = f
    <3>1. vmm'.frame[g].dirty = FALSE
      BY <1>4, <2>1, <2>3 DEF Entry
    <3>2. QED
      BY <3>1
  <2>4. CASE g # f
    <3>1. vmm'.frame[g] = vmm.frame[g]
      BY <1>4, <2>1, <2>4
    <3>2. QED
      BY <3>1, <2>4
  <2>5. QED
    BY <2>3, <2>4
<1>9. NothingWrittenAfterClose'
  <2>1. ASSUME NEW i \in 1 .. cursor' - 1, i \in DOMAIN list
        PROVE  ~vmm'.frame[FrameOf(vmm', list[i])].dirty
    <3>1. list[i] \in Resident(vmm)
      BY <1>2, <2>1
    <3>2. CASE i = cursor
      BY <1>7, <1>8, <3>1, <3>2
    <3>3. CASE i # cursor
      <4>1. i \in 1 .. cursor - 1
        BY <1>1, <2>1, <3>3
      <4>2. ~vmm.frame[FrameOf(vmm, list[i])].dirty
        BY <1>1, <2>1, <4>1 DEF Inv, NothingWrittenAfterClose
      <4>3. QED
        BY <1>7, <1>8, <3>1, <4>2
    <3>4. QED
      BY <3>2, <3>3
  <2>2. vmm'.index.lru.list = list
    BY <1>4
  <2>3. QED
    BY <1>1, <2>1, <2>2 DEF NothingWrittenAfterClose
<1>10. RequestTypeOK'
  BY <1>1 DEF Inv, RequestTypeOK
<1>11. cursor' \in Nat \ {0}
  BY <1>1
<1>12. Inv'
  BY <1>1, <1>5, <1>6, <1>9, <1>10, <1>11 DEF Inv, VmmUsable
<1>13. QED
  BY <1>6, <1>12

LEMMA SyncDoneStep ==
  ASSUME Inv, SyncDone
  PROVE  Inv'
<1>1. /\ phase \in {"flush", "last_flush"}
      /\ VmmOK(vmm)
      /\ cursor \in Nat
      /\ cursor > Len(vmm.index.lru.list)
  BY DEF Inv, SyncDone, RequestTypeOK
<1>2. ASSUME NEW q \in Resident(vmm)
      PROVE  ~vmm.frame[FrameOf(vmm, q)].dirty
  <2>1. /\ Len(vmm.index.lru.list) \in Nat
        /\ DOMAIN vmm.index.lru.list = 1 .. Len(vmm.index.lru.list)
        /\ \E i \in DOMAIN vmm.index.lru.list : vmm.index.lru.list[i] = q
    BY <1>1, ListFacts
  <2>2. PICK i \in DOMAIN vmm.index.lru.list : vmm.index.lru.list[i] = q
    BY <2>1
  <2>3. i \in 1 .. cursor - 1
    BY <1>1, <2>1, <2>2
  <2>4. QED
    BY <1>1, <2>2, <2>3 DEF Inv, NothingWrittenAfterClose
<1>3. RequestTypeOK'
  BY <1>1 DEF Inv, RequestTypeOK, SyncDone
<1>4. NothingWrittenAfterClose'
  BY <1>1, <1>2 DEF SyncDone, NothingWrittenAfterClose
<1>5. QED
  BY <1>1, <1>3, <1>4 DEF Inv, SyncDone

LEMMA DestroyNextStep ==
  ASSUME Inv, DestroyNext
  PROVE  Inv' /\ View(vmm') = View(vmm)
<1>1. /\ phase = "free"
      /\ VmmUsable(vmm)
      /\ cursor \in Nat
      /\ cursor < vmm.index.lru.number_of_items
      /\ UNCHANGED <<writing, reading, target, phase>>
      /\ cursor' = cursor + 1
      /\ vmm' = EvictLast(vmm)
  BY DEF Inv, DestroyNext, RequestTypeOK
<1>2. Resident(vmm) # {}
  <2>1. vmm.pagetable_size > 0
    <3>1. /\ vmm.index.lru.number_of_items \in Nat
          /\ vmm.pagetable_size = vmm.index.lru.number_of_items
      BY <1>1, CountFacts DEF VmmUsable
    <3>2. QED
      BY <1>1, <3>1
  <2>2. QED
    BY <1>1, <2>1, CountFacts
<1>3. /\ VmmUsable(vmm')
      /\ \A q \in Page : PageView(vmm', q) = PageView(vmm, q)
  BY <1>1, <1>2, EvictLastOK
<1>4. View(vmm') = View(vmm)
  BY <1>3, SamePages
<1>5. RequestTypeOK'
  <2>1. cursor' \in Nat
    BY <1>1
  <2>2. UNCHANGED <<writing, reading, target, phase>>
    BY <1>1
  <2>3. RequestTypeOK
    BY DEF Inv
  <2>4. QED
    BY <2>1, <2>2, <2>3 DEF RequestTypeOK
<1>6. Inv'
  BY <1>1, <1>3, <1>4, <1>5 DEF Inv, VmmUsable, NothingWrittenAfterClose
<1>7. QED
  BY <1>4, <1>6

LEMMA DestroyFlushStep ==
  ASSUME Inv, DestroyFlush
  PROVE  Inv'
<1>1. /\ phase = "free"
      /\ phase' = "last_flush"
      /\ cursor' = 1
      /\ UNCHANGED <<vmm, writing, reading, target>>
  BY DEF DestroyFlush
<1>2. RequestTypeOK'
  <2>1. RequestTypeOK
    BY DEF Inv
  <2>2. cursor' \in Nat
    BY <1>1
  <2>3. QED
    BY <1>1, <2>1, <2>2 DEF RequestTypeOK
<1>3. NothingWrittenAfterClose'
  BY <1>1 DEF NothingWrittenAfterClose
<1>4. QED
  BY <1>1, <1>2, <1>3 DEF Inv

LEMMA DropNextStep ==
  ASSUME Inv, DropNext
  PROVE  Inv' /\ View(vmm') = View(vmm)
<1>1. /\ phase = "drop"
      /\ VmmOK(vmm)
      /\ UNCHANGED <<writing, reading, target, phase, cursor>>
  BY DEF Inv, DropNext
<1>2. /\ VmmOK(vmm')
      /\ Resident(vmm') \subseteq Resident(vmm)
      /\ \A q \in Resident(vmm') : FrameOf(vmm', q) = FrameOf(vmm, q)
      /\ \E g \in Frame : vmm'.frame = [vmm.frame EXCEPT ![g].dirty = FALSE]
      /\ \A q \in Page : PageView(vmm', q) = PageView(vmm, q)
  BY <1>1, DropTailOK DEF DropNext
<1>3. View(vmm') = View(vmm)
  BY <1>2, SamePages
<1>4. \A g \in Frame : vmm'.frame[g].dirty => vmm.frame[g].dirty
  BY <1>1, <1>2 DEF VmmOK, VmmTypeOK, Entry
<1>5. NothingWrittenAfterClose'
  <2>1. ASSUME NEW q \in Resident(vmm')
        PROVE  ~vmm'.frame[FrameOf(vmm', q)].dirty
    <3>1. FrameOf(vmm, q) \in Frame
      BY <1>1, <1>2, FrameFacts DEF VmmOK
    <3>2. ~vmm.frame[FrameOf(vmm, q)].dirty
      BY <1>1, <1>2 DEF Inv, NothingWrittenAfterClose
    <3>3. QED
      BY <1>2, <1>4, <3>1, <3>2
  <2>2. QED
    BY <1>1, <2>1 DEF NothingWrittenAfterClose
<1>6. RequestTypeOK'
  BY <1>1 DEF Inv, RequestTypeOK
<1>7. Inv'
  BY <1>1, <1>2, <1>3, <1>5, <1>6 DEF Inv
<1>8. QED
  BY <1>3, <1>7

LEMMA DropDoneStep ==
  ASSUME Inv, DropDone
  PROVE  Inv'
<1>1. RequestTypeOK'
  BY DEF Inv, RequestTypeOK, DropDone
<1>2. NothingWrittenAfterClose'
  BY DEF Inv, NothingWrittenAfterClose, DropDone
<1>3. QED
  BY <1>1, <1>2 DEF Inv, DropDone

LEMMA StutterInv ==
  ASSUME Inv, UNCHANGED vars
  PROVE  Inv'
<1>1. RequestTypeOK' /\ NothingWrittenAfterClose'
  BY DEF Inv, RequestTypeOK, NothingWrittenAfterClose, vars
<1>2. QED
  BY <1>1 DEF Inv, vars

LEMMA NextInv == Inv /\ [Next]_vars => Inv'
<1> SUFFICES ASSUME Inv, [Next]_vars PROVE Inv'
  OBVIOUS
<1>1. ASSUME NEW a \in Addr, NEW len \in 1 .. PageCount * PageSize,
             NEW bytes \in [Span(a, len) -> Byte], StartWrite(a, len, bytes)
      PROVE  Inv'
  BY <1>1, StartWriteInv
<1>2. ASSUME NEW a \in Addr, NEW len \in 1 .. PageCount * PageSize, StartRead(a, len)
      PROVE  Inv'
  BY <1>2, StartReadInv
<1>3. ASSUME NEW p \in Page, NEW f \in Frame, NEW dirty \in BOOLEAN,
             WriteInternal(p, f, dirty)
      PROVE  Inv'
  BY <1>3, WriteInternalStep
<1>4. ASSUME NEW p \in Page, NEW f \in Frame, NEW dirty \in BOOLEAN,
             ReadInternal(p, f, dirty)
      PROVE  Inv'
  BY <1>4, ReadInternalStep
<1>5. CASE Flush \/ Destroy
  BY <1>5, StartCallInv
<1>6. CASE SyncNext
  BY <1>6, SyncNextStep
<1>7. CASE SyncDone
  BY <1>7, SyncDoneStep
<1>8. CASE DestroyNext
  BY <1>8, DestroyNextStep
<1>9. CASE DestroyFlush
  BY <1>9, DestroyFlushStep
<1>10. CASE DropNext
  BY <1>10, DropNextStep
<1>11. CASE DropDone
  BY <1>11, DropDoneStep
<1>12. CASE UNCHANGED vars
  BY <1>12, StutterInv
<1>13. QED
  BY <1>1, <1>2, <1>3, <1>4, <1>5, <1>6, <1>7, <1>8, <1>9, <1>10, <1>11, <1>12
     DEF Next, Closed

LEMMA Invariance == Spec => []Inv
BY InitInv, NextInv, PTL DEF Spec

-----------------------------------------------------------------------------
(***************************************************************************)
(* The theorems.                                                           *)
(***************************************************************************)

\* The VMM, its index and its page cache keep their types through every
\* sequence of vmm_read, vmm_write, vmm_flush and vmm_destroy.
THEOREM TypeCorrect == Spec => []TypeOK
<1>1. Inv => TypeOK
  BY DEF Inv, TypeOK, VmmOK, PageCacheOK, IndexOK
<1>2. QED
  BY <1>1, Invariance, PTL

\* After find_empty_TLB and free_vmtable no cache leads to an entry that was
\* freed or that holds another page.
THEOREM NoDanglingEntryCorrect == Spec => []NoDanglingEntry
<1>1. Inv => NoDanglingEntry
  BY DEF Inv, NoDanglingEntry, VmmUsable, VmmOK, PageCacheOK, IndexOK
<1>2. QED
  BY <1>1, Invariance, PTL

\* on_page_flush may skip a page that is not dirty: the store has its bytes.
THEOREM CleanFramesMatchStoreCorrect == Spec => []CleanFramesMatchStore
<1>1. Inv => CleanFramesMatchStore
  BY DEF Inv, CleanFramesMatchStore, VmmOK
<1>2. QED
  BY <1>1, Invariance, PTL

\* pagetable_size counts the resident pages and never exceeds
\* number_of_pages, and the blocks handed out are the ones in use.
THEOREM LimitsCorrect == Spec => []Limits
<1>1. Inv => Limits
  BY DEF Inv, Limits, VmmUsable, VmmOK, PageCacheOK
<1>2. QED
  BY <1>1, Invariance, PTL

\* vmm_destroy's first loop stops half way, but lru_cache_sync has written the
\* rest before the file is closed.
THEOREM NothingWrittenAfterCloseCorrect == Spec => []NothingWrittenAfterClose
<1>1. Inv => NothingWrittenAfterClose
  BY DEF Inv
<1>2. QED
  BY <1>1, Invariance, PTL

\* A step that leaves the memory alone and drops the answer.
LEMMA ForgetAll ==
  ASSUME Contents' = Contents, Answer' = NoBytes, writing' = writing,
         writing \in UNION {[S -> Byte] : S \in SUBSET Addr}
  PROVE  Memory!Next
<1>1. writing = [a \in DOMAIN writing |-> writing[a]]
  OBVIOUS
<1>2. Memory!Forget(DOMAIN writing)
  BY <1>1 DEF Memory!Forget, Memory!NoBytes, NoBytes
<1>3. QED
  BY <1>2 DEF Memory!Next

\* vmm_read and vmm_write make a memory: an access cut at page boundaries,
\* with pages loaded and evicted between its pieces, is one read or one write.
THEOREM VmmImplementsRam == Spec => ImplementsRam
<1>1. Init => Memory!Init
  <2> SUFFICES ASSUME Init PROVE Memory!Init
    OBVIOUS
  <2>1. View(vmm) = [a \in Addr |-> Zero]
    BY VmmCreateOK DEF Init
  <2>2. writing = NoBytes /\ reading = {} /\ target = NoBytes
    BY DEF Init, NoBytes
  <2>3. QED
    BY <2>1, <2>2 DEF Memory!Init, Memory!NoBytes, Contents, Answer, NoBytes
<1>2. Inv /\ [Next]_vars => [Memory!Next]_<<Contents, writing, Answer>>
  <2> SUFFICES ASSUME Inv, [Next]_vars PROVE [Memory!Next]_<<Contents, writing, Answer>>
    OBVIOUS
  <2>1. ASSUME NEW a \in Addr, NEW len, NEW bytes \in [Span(a, len) -> Byte],
               StartWrite(a, len, bytes)
        PROVE  Memory!Next
    <3>1. DOMAIN writing = {} /\ DOMAIN bytes = Span(a, len) /\ Span(a, len) \in SUBSET Addr
      BY <2>1 DEF StartWrite, Idle, Span
    <3>2. /\ vmm' = vmm
          /\ writing' = bytes
          /\ reading' = {}
          /\ target' = NoBytes
      BY <2>1 DEF StartWrite, Idle
    <3>3. Answer' = NoBytes
      BY <3>2 DEF Answer
    <3>4. Contents' = [b \in Addr |-> IF b \in DOMAIN bytes THEN bytes[b] ELSE Contents[b]]
      BY <3>1, <3>2 DEF Contents
    <3>5. Memory!Write(bytes)
      BY <3>2, <3>3, <3>4 DEF Memory!Write, Memory!NoBytes, NoBytes
    <3>6. QED
      BY <3>1, <3>5 DEF Memory!Next
  <2>2. ASSUME NEW a \in Addr, NEW len, StartRead(a, len)
        PROVE  Memory!Next
    <3>1. vmm' = vmm /\ writing' = writing /\ target' = NoBytes
      BY <2>2 DEF StartRead
    <3>2. Contents' = Contents /\ Answer' = NoBytes
      BY <3>1 DEF Contents, Answer
    <3>3. QED
      BY <3>1, <3>2, ForgetAll DEF Inv, RequestTypeOK
  <2>3. ASSUME NEW p \in Page, NEW f \in Frame, NEW dirty \in BOOLEAN,
               WriteInternal(p, f, dirty)
        PROVE  Memory!Next
    <3> DEFINE S == DOMAIN writing \ Piece(DOMAIN writing, p)
    <3>1. Contents' = Contents
      BY <2>3, WriteInternalStep
    <3>2. Answer' = NoBytes
      <4>1. reading' = {} /\ target' = target /\ DOMAIN target = {}
        BY <2>3 DEF WriteInternal, NextPage, Inv, RequestTypeOK
      <4>2. target = NoBytes
        BY <4>1 DEF Inv, RequestTypeOK, NoBytes
      <4>3. QED
        BY <4>1, <4>2 DEF Answer
    <3>3. S \in SUBSET DOMAIN writing
      OBVIOUS
    <3>4. writing' = [a \in S |-> writing[a]]
      BY <2>3, <3>3 DEF WriteInternal, Restrict
    <3> HIDE DEF S
    <3>5. Memory!Forget(S)
      BY <3>1, <3>2, <3>4 DEF Memory!Forget, Memory!NoBytes, NoBytes
    <3>6. QED
      BY <3>3, <3>5 DEF Memory!Next
  <2>4. ASSUME NEW p \in Page, NEW f \in Frame, NEW dirty \in BOOLEAN,
               ReadInternal(p, f, dirty)
        PROVE  [Memory!Next]_<<Contents, writing, Answer>>
    <3>1. Inv' /\ View(vmm') = View(vmm)
      BY <2>4, ReadInternalStep
    <3>2. writing' = writing /\ DOMAIN writing = {} /\ reading # {}
      BY <2>4 DEF ReadInternal, NextPage, Inv, RequestTypeOK
    <3>3. Contents' = Contents /\ Contents = View(vmm)
      BY <3>1, <3>2 DEF Contents, View
    <3>4. CASE reading' # {}
      BY <3>2, <3>3, <3>4 DEF Answer
    <3>5. CASE reading' = {}
      <4> DEFINE S == DOMAIN target'
      <4>1. S \in SUBSET Addr /\ target' = [b \in S |-> target'[b]]
        BY <3>1 DEF Inv, RequestTypeOK
      <4>2. \A b \in S : target'[b] = Contents[b]
        BY <3>1, <3>3 DEF Inv
      <4>3. Answer' = [b \in S |-> Contents[b]]
        BY <3>5, <4>1, <4>2 DEF Answer
      <4>4. writing' = NoBytes
        BY <3>2 DEF Inv, RequestTypeOK, NoBytes
      <4> HIDE DEF S
      <4>5. Memory!Read(S)
        BY <3>3, <4>3, <4>4 DEF Memory!Read, Memory!NoBytes, NoBytes
      <4>6. QED
        BY <4>1, <4>5 DEF Memory!Next
    <3>6. QED
      BY <3>4, <3>5
  <2>5. CASE Flush \/ Destroy
    <3>1. vmm' = vmm /\ writing' = writing /\ target' = NoBytes
      BY <2>5 DEF Flush, Destroy, Start
    <3>2. Contents' = Contents /\ Answer' = NoBytes
      BY <3>1 DEF Contents, Answer
    <3>3. QED
      BY <3>1, <3>2, ForgetAll DEF Inv, RequestTypeOK
  <2>6. CASE SyncNext \/ DestroyNext \/ DropNext
    <3>1. View(vmm') = View(vmm)
      BY <2>6, SyncNextStep, DestroyNextStep, DropNextStep
    <3>2. UNCHANGED <<writing, reading, target>>
      BY <2>6 DEF SyncNext, DestroyNext, DropNext
    <3>3. QED
      BY <3>1, <3>2 DEF Contents, Answer
  <2>7. CASE SyncDone \/ DestroyFlush \/ DropDone \/ UNCHANGED vars
    <3>1. UNCHANGED <<vmm, writing, reading, target>>
      BY <2>7 DEF SyncDone, DestroyFlush, DropDone, vars
    <3>2. QED
      BY <3>1 DEF Contents, Answer
  <2>8. QED
    BY <2>1, <2>2, <2>3, <2>4, <2>5, <2>6, <2>7 DEF Next, Closed
<1>3. QED
  BY <1>1, <1>2, Invariance, PTL DEF Spec, ImplementsRam, Memory!Spec
=============================================================================
