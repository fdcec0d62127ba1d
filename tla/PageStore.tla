----------------------------- MODULE PageStore -----------------------------
(***************************************************************************)
(* The page cache and the page file driven as the VMM drives them, by      *)
(* backing_store_write and backing_store_read, but in any order and for    *)
(* any page.                                                               *)
(***************************************************************************)
EXTENDS PageCache

VARIABLES
  page_cache,   \* the page_cache_t, its himem and the file
  put,          \* page -> contents the last write was given, none after a read
  got           \* page -> contents the last read returned, none after a write

storeVars == <<page_cache, put, got>>

NoPages == [p \in {} |-> ZeroPage]

StoreInit ==
  /\ \E himem \in [Block -> Data] : page_cache = PageCacheInit(himem)
  /\ put = NoPages
  /\ got = NoPages

BackingStoreWrite(page, data) ==
  /\ page_cache' = PageCacheSet(page_cache, page, data)
  /\ put' = [p \in {page} |-> data]
  /\ got' = NoPages

BackingStoreRead(page) ==
  /\ page_cache' = TouchBlock(page_cache, page)
  /\ put' = NoPages
  /\ got' = [p \in {page} |-> StoreRead(page_cache, page)]

StoreNext ==
  \E page \in Page :
    \/ \E data \in Data : BackingStoreWrite(page, data)
    \/ BackingStoreRead(page)

StoreSpec == StoreInit /\ [][StoreNext]_storeVars

-----------------------------------------------------------------------------
\* Types of the page cache, of its index, and of the last request and reply.
StoreTypeOK ==
  /\ PageCacheTypeOK(page_cache)
  /\ IndexTypeOK(PageCacheCells, page_cache.index, Page, Block)
  /\ put \in UNION {[S -> Data] : S \in SUBSET Page}
  /\ got \in UNION {[S -> Data] : S \in SUBSET Page}

\* Each block in use belongs to one page, the one its item names, and the
\* direct cache never leads to the block of another page.
OneBlockPerPage ==
  /\ BlocksOK(page_cache)
  /\ DirectAgrees(PageCacheCells, page_cache.index)

\* A block leaves the LRU cache only when no block is left to hand out, and
\* what it held is in the file from then on.
EvictionsWriteBack ==
  [][\A p \in IndexedPages(page_cache.index) \ IndexedPages(page_cache'.index) :
       /\ page_cache.last_block = HimemBlocks
       /\ page_cache'.file[p] = page_cache.himem[page_cache.index.lru.value[p]]]_storeVars

StoreMemory == INSTANCE Ram WITH Addr <- Page, Byte <- Data, Zero <- ZeroPage,
                            mem <- StoreView(page_cache), last <- put, reply <- got

\* A page read is the page last written, wherever it was kept, and no page
\* changes but the one written, whatever is evicted for it.
StoreIsRam == StoreMemory!Spec
=============================================================================
