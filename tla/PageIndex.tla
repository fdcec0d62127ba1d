----------------------------- MODULE PageIndex -----------------------------
(***************************************************************************)
(* lib/direct_cache, lib/lru_cache over lib/list and lib/memory_indexer,   *)
(* and the two-level index that both the VMM (get_TLB, get_page,           *)
(* free_vmtable) and the page cache (page_cache_get, page_cache_set) build *)
(* of them: a direct cache in front of an LRU cache, both from page        *)
(* numbers to pointers.                                                    *)
(***************************************************************************)
EXTENDS Integers, SequencesExt

(* The direct cache: a direct-mapped cache of pointers.  A key has one cell, *)
(* key % cache_size, and a cell holds one key and the pointer last stored   *)
(* under it.  A cache is a function from cells to lines; its cache_size is  *)
(* a parameter of the operators.                                            *)

CONSTANTS
  NULL,     \* the null pointer, what a miss returns
  Garbage   \* a pointer read from a line that malloc left uninitialised

Cells(size) == 0 .. size - 1

Cell(size, key) == key % size

\* Every line starts under key i + 1, which belongs to the next cell: that is
\* how an empty line is told from a full one.  Its value is uninitialised.
DirectInit(size) == [i \in Cells(size) |-> [key |-> i + 1, value |-> Garbage]]

DirectGet(size, cache, key) ==
  LET line == cache[Cell(size, key)]
  IN  IF line.key = key THEN line.value ELSE NULL

DirectSet(size, cache, key, value) ==
  [cache EXCEPT ![Cell(size, key)] = [key |-> key, value |-> value]]

\* Empties the cell of the key, whichever key the cell holds by now.
DirectRemove(size, cache, key) ==
  [cache EXCEPT ![Cell(size, key)] = [key |-> Cell(size, key) + 1, value |-> NULL]]

-----------------------------------------------------------------------------
(* The LRU cache, a record:                                                 *)
(*   list             the keys, head (last pushed) first                    *)
(*   value, access    the indexed items: pointer stored, number of gets     *)
(*   number_of_items  the counter lru_cache_count returns                   *)
(* A list node is named by its key.  The counter "access" is only ever      *)
(* compared with multiples of LRU_MARKING, so it is kept modulo that.  The  *)
(* on_flush callbacks belong to the users of the cache, who put their       *)
(* effect in front of LruRemove and LruFlushTail.                           *)

CONSTANT LRU_MARKING   \* gets of an item between two moves to the head

ASSUME LruMarkingAssumption == LRU_MARKING \in Nat \ {0}

LruInit == [list            |-> << >>,
            value           |-> [k \in {} |-> NULL],
            access          |-> [k \in {} |-> 0],
            number_of_items |-> 0]

LruKeys(cache) == DOMAIN cache.value

\* list_remove_internal: a node that is not in the list changes nothing.
Detach(list, key) ==
  IF Contains(list, key)
  THEN RemoveAt(list, CHOOSE i \in DOMAIN list : list[i] = key)
  ELSE list

\* list_lpush detaches a node that is already linked before it pushes it.
PushFront(list, key) == <<key>> \o Detach(list, key)

\* memory_indexer_search: the pointer stored under the key.
LruFind(cache, key) ==
  IF key \in LruKeys(cache) THEN cache.value[key] ELSE NULL

\* Faulty: the item that is got never moves to the head.
LruTouchInPlace(cache, key) ==
  IF key \in LruKeys(cache)
  THEN [cache EXCEPT !.access[key] = (@ + 1) % LRU_MARKING]
  ELSE cache

\* What lru_cache_get does to the cache: only every LRU_MARKING-th get of an
\* item moves it to the head.
LruTouch(cache, key) ==
  LET n == (cache.access[key] + 1) % LRU_MARKING
  IN  IF key \in LruKeys(cache)
      THEN [cache EXCEPT !.access[key] = n,
                         !.list = IF n = 0 THEN PushFront(@, key) ELSE @]
      ELSE cache

\* Pushes a new node, also when the key has one; the index keeps the new one.
LruAdd(cache, key, value) ==
  [list            |-> <<key>> \o cache.list,
   value           |-> [k \in LruKeys(cache) \cup {key} |->
                          IF k = key THEN value ELSE cache.value[k]],
   access          |-> [k \in LruKeys(cache) \cup {key} |->
                          IF k = key THEN 0 ELSE cache.access[k]],
   number_of_items |-> cache.number_of_items + 1]

LruRemove(cache, key) ==
  IF key \in LruKeys(cache)
  THEN [list            |-> Detach(cache.list, key),
        value           |-> Restrict(cache.value, LruKeys(cache) \ {key}),
        access          |-> Restrict(cache.access, LruKeys(cache) \ {key}),
        number_of_items |-> cache.number_of_items - 1]
  ELSE cache

\* The key of the list's tail, list_at(list, -1), and the pointer stored there.
LruTail(cache) == Last(cache.list)

LeastRecentlyUsed(cache) ==
  IF cache.list = << >> THEN NULL ELSE cache.value[LruTail(cache)]

\* One iteration of lru_cache_flush_items: list_rpop, then forget the item.
LruFlushTail(cache) ==
  LET key == LruTail(cache)
  IN  [list            |-> Front(cache.list),
       value           |-> Restrict(cache.value, LruKeys(cache) \ {key}),
       access          |-> Restrict(cache.access, LruKeys(cache) \ {key}),
       number_of_items |-> cache.number_of_items - 1]

-----------------------------------------------------------------------------
(* The index, [direct, lru]: a direct hit never reaches the LRU cache, so   *)
(* it does not count as a use there.                                        *)

IndexInit(size) == [direct |-> DirectInit(size), lru |-> LruInit]

IndexedPages(index) == LruKeys(index.lru)

IndexFind(size, index, page) ==
  LET hit == DirectGet(size, index.direct, page)
  IN  IF hit # NULL THEN hit ELSE LruFind(index.lru, page)

\* What a lookup does to the index.
IndexTouch(size, index, page) ==
  IF DirectGet(size, index.direct, page) # NULL
  THEN index
  ELSE [index EXCEPT !.lru = LruTouch(@, page)]

IndexAdd(size, index, page, pointer) ==
  [direct |-> DirectSet(size, index.direct, page, pointer),
   lru    |-> LruAdd(index.lru, page, pointer)]

\* Faulty: the removed page stays in the direct cache.
IndexRemoveKeepsLine(size, index, page) ==
  [direct |-> index.direct, lru |-> LruRemove(index.lru, page)]

IndexRemove(size, index, page) ==
  [direct |-> DirectRemove(size, index.direct, page),
   lru    |-> LruRemove(index.lru, page)]

-----------------------------------------------------------------------------
(***************************************************************************)
(* What makes an index usable.                                             *)
(***************************************************************************)

\* The list holds each indexed key once and nothing else, and the counter
\* counts them.
LruOK(lru, Key, Pointer) ==
  /\ lru = [list |-> lru.list, value |-> lru.value, access |-> lru.access,
            number_of_items |-> lru.number_of_items]
  /\ lru.list \in Seq(Key)
  /\ IsInjective(lru.list)
  /\ LruKeys(lru) \subseteq Key
  /\ \A k \in Key : k \in LruKeys(lru) <=> Contains(lru.list, k)
  /\ lru.value \in [LruKeys(lru) -> Pointer]
  /\ lru.access \in [LruKeys(lru) -> 0 .. LRU_MARKING - 1]
  /\ lru.number_of_items = Len(lru.list)

\* A line that answers for its own cell answers what the LRU cache answers:
\* no line names a page that was evicted, or another page's pointer.
DirectAgrees(size, index) ==
  \A i \in Cells(size) :
    Cell(size, index.direct[i].key) = i =>
      /\ index.direct[i].key \in IndexedPages(index)
      /\ index.direct[i].value = index.lru.value[index.direct[i].key]

IndexTypeOK(size, index, Page, Pointer) ==
  /\ index = [direct |-> index.direct, lru |-> index.lru]
  /\ index.direct \in [Cells(size) -> [key : Nat, value : Pointer \cup {NULL, Garbage}]]
  /\ LruOK(index.lru, Page, Pointer)

IndexOK(size, index, Page, Pointer) ==
  /\ IndexTypeOK(size, index, Page, Pointer)
  /\ DirectAgrees(size, index)
=============================================================================
