------------------------------- MODULE LruUse -------------------------------
(***************************************************************************)
(* An LRU cache driven by one caller in any legal order, with ghost        *)
(* variables that record how its items were used.  Like the VMM and the    *)
(* page cache, the caller adds a key only after a lookup missed it.        *)
(***************************************************************************)
EXTENDS PageIndex

CONSTANTS Key, Value

ASSUME LruUseAssumption == NULL \notin Value

VARIABLES
  cache,     \* the cache_t
  recency,   \* ghost: the keys by their last use (add or get), latest first
  gets       \* ghost: gets[j][k], the gets of j since k was pushed to the
             \* head, counted up to LRU_MARKING

lruUseVars == <<cache, recency, gets>>

Capped(n) == IF n > LRU_MARKING THEN LRU_MARKING ELSE n

\* The ghosts after a get of the key, which pushed it to the head or did not.
Record(key, pushed) ==
  /\ recency' = PushFront(recency, key)
  /\ gets' = [j \in Key |-> [k \in Key |->
                IF k = key /\ (pushed \/ j = key) THEN 0
                ELSE IF j = key THEN Capped(gets[j][k] + 1) ELSE gets[j][k]]]

LruUseInit ==
  /\ cache = LruInit
  /\ recency = << >>
  /\ gets = [j \in Key |-> [k \in Key |-> 0]]

\* The add itself is no get.
Add(key, value) ==
  /\ key \notin LruKeys(cache)
  /\ cache' = LruAdd(cache, key, value)
  /\ recency' = PushFront(recency, key)
  /\ gets' = [j \in Key |-> [k \in Key |->
                IF key \in {j, k} THEN 0 ELSE gets[j][k]]]

Get(key) ==
  /\ key \in LruKeys(cache)
  /\ cache' = LruTouch(cache, key)
  /\ Record(key, cache'.access[key] = 0)

Miss(key) ==
  /\ key \notin LruKeys(cache)
  /\ cache' = LruTouch(cache, key)
  /\ UNCHANGED <<recency, gets>>

Drop(key) ==
  /\ cache' = LruRemove(cache, key)
  /\ recency' = Detach(recency, key)
  /\ UNCHANGED gets

FlushTail ==
  /\ cache.list # << >>
  /\ cache' = LruFlushTail(cache)
  /\ recency' = Detach(recency, LruTail(cache))
  /\ UNCHANGED gets

LruUseNext ==
  \/ \E key \in Key :
       \/ \E value \in Value : Add(key, value)
       \/ Get(key) \/ Miss(key) \/ Drop(key)
  \/ FlushTail

LruUseSpec == LruUseInit /\ [][LruUseNext]_lruUseVars

-----------------------------------------------------------------------------
\* The list and the index hold the same keys, each once, and are counted.
LruUseTypeOK ==
  /\ LruOK(cache, Key, Value)
  /\ recency \in Seq(Key)
  /\ gets \in [Key -> [Key -> 0 .. LRU_MARKING]]

Position(key) == CHOOSE i \in DOMAIN cache.list : cache.list[i] = key

\* How good the approximation is: an item got LRU_MARKING times since another
\* was last pushed to the head stands before it, so is not evicted before it.
UsedItemsOutliveIdleOnes ==
  \A j, k \in LruKeys(cache) :
    j # k /\ gets[j][k] = LRU_MARKING => Position(j) < Position(k)

=============================================================================
