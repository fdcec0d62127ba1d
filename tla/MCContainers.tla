---------------------------- MODULE MCContainers ----------------------------
(***************************************************************************)
(* Three instances in one run; part says which of them it is about and the *)
(* others do not move: an LRU cache with three keys, moved to the head at  *)
(* every third get; a memory indexer whose tree grows to ten keys, four    *)
(* levels, enough for a removal to rotate at two of them; and a page cache *)
(* of two blocks for four pages.                                           *)
(***************************************************************************)
EXTENDS LruUse, PageStore, MemoryIndexer, TLC

VARIABLE part

KeySymmetry == Permutations(Key) \cup Permutations(Value)

MCInit ==
  /\ part \in {"lru", "index", "store"}
  /\ LruUseInit
  /\ IndexerInit
  /\ StoreInit
  /\ part # "store" => page_cache.himem = [b \in Block |-> ZeroPage]

MCNext ==
  \/ /\ part = "lru"
     /\ LruUseNext
     /\ UNCHANGED <<indexerVars, storeVars, part>>
  \/ /\ part = "index"
     /\ IndexerNext
     /\ UNCHANGED <<lruUseVars, storeVars, part>>
  \/ /\ part = "store"
     /\ StoreNext
     /\ UNCHANGED <<lruUseVars, indexerVars, part>>

MCSpec == MCInit /\ [][MCNext]_<<lruUseVars, indexerVars, storeVars, part>>
=============================================================================
