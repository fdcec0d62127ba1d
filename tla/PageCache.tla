----------------------------- MODULE PageCache -----------------------------
(***************************************************************************)
(* lib/page_cache with the backing file below it: the second level of the  *)
(* paged memory.  Pages the VMM evicts are kept in himem blocks; when the  *)
(* blocks run out, the least recently used one is written to the page file *)
(* and reused.  The state of a page cache is a record:                     *)
(*   index       page -> block (an item is named by its block)             *)
(*   item_page   block -> page_number recorded in the item                 *)
(*   himem       block -> contents                                         *)
(*   last_block  himem_last_allocated_block: blocks handed out so far      *)
(*   file        page -> contents of the page file                         *)
(***************************************************************************)
EXTENDS PageIndex

CONSTANTS
  PageCount,       \* pages of the memory
  Data,            \* contents a page can have
  ZeroPage,        \* the contents of a page never written
  HimemBlocks,     \* himem_maximum_blocks
  PageCacheCells   \* cells of the page cache's direct cache (2048)

Page  == 0 .. PageCount - 1
Block == 0 .. HimemBlocks - 1

\* A direct cache of one cell would take its empty line for page 1; without a
\* block, page_cache_set would evict from an empty cache.
ASSUME PageCacheAssumption ==
  /\ PageCount \in Nat \ {0}
  /\ HimemBlocks \in Nat \ {0}
  /\ PageCacheCells \in Nat \ {0, 1}
  /\ ZeroPage \in Data
  /\ NULL \notin Block
  /\ Garbage \notin Block \cup {NULL}

\* vmm_create extends the file with zeros; himem is whatever malloc returned.
PageCacheInit(contents) ==
  [index      |-> IndexInit(PageCacheCells),
   item_page  |-> [b \in Block |-> NULL],
   himem      |-> contents,
   last_block |-> 0,
   file       |-> [p \in Page |-> ZeroPage]]

FindBlock(pc, page) == IndexFind(PageCacheCells, pc.index, page)

TouchBlock(pc, page) ==
  [pc EXCEPT !.index = IndexTouch(PageCacheCells, @, page)]

\* on_page_flush, and through it the VMM's on_page_cache_flush: the file
\* after the write.
FlushBlock(pc, page, block) == [pc.file EXCEPT ![page] = pc.himem[block]]

\* The first block of the LRU list leaves: lru_cache_remove flushes what the
\* index has under the item's page, then both caches forget that page.
EvictBlock(pc) ==
  LET page == pc.item_page[LeastRecentlyUsed(pc.index.lru)]
  IN  [index      |-> IndexRemove(PageCacheCells, pc.index, page),
       item_page  |-> pc.item_page,
       himem      |-> pc.himem,
       last_block |-> pc.last_block,
       file       |-> IF page \in IndexedPages(pc.index)
                      THEN FlushBlock(pc, page, pc.index.lru.value[page])
                      ELSE pc.file]

\* The page takes the block.
PutBlock(pc, block, page, data) ==
  [index      |-> IndexAdd(PageCacheCells, pc.index, page, block),
   item_page  |-> [pc.item_page EXCEPT ![block] = page],
   himem      |-> [pc.himem EXCEPT ![block] = data],
   last_block |-> pc.last_block,
   file       |-> pc.file]

PageCacheSet(pc, page, data) ==
  LET block == FindBlock(pc, page)
  IN  IF block # NULL
      THEN [TouchBlock(pc, page) EXCEPT !.himem[block] = data]
      ELSE IF pc.last_block < HimemBlocks
      THEN PutBlock([pc EXCEPT !.last_block = @ + 1], pc.last_block, page, data)
      ELSE PutBlock(EvictBlock(pc), LeastRecentlyUsed(pc.index.lru), page, data)

\* Faulty: the page file is read even when himem has a newer copy.
StoreReadFileOnly(pc, page) == pc.file[page]

\* backing_store_read: page_cache_get, or else the file.
StoreRead(pc, page) ==
  LET block == FindBlock(pc, page)
  IN  IF block # NULL THEN pc.himem[block] ELSE pc.file[page]

-----------------------------------------------------------------------------
(***************************************************************************)
(* What the operations rely on and keep.                                   *)
(***************************************************************************)

\* The page cache as one array of pages, found by the index alone.
StoreView(pc) ==
  [p \in Page |-> IF p \in IndexedPages(pc.index)
                  THEN pc.himem[pc.index.lru.value[p]]
                  ELSE pc.file[p]]

PageCacheTypeOK(pc) ==
  /\ pc = [index |-> pc.index, item_page |-> pc.item_page, himem |-> pc.himem,
           last_block |-> pc.last_block, file |-> pc.file]
  /\ pc.item_page \in [Block -> Page \cup {NULL}]
  /\ pc.himem \in [Block -> Data]
  /\ pc.last_block \in 0 .. HimemBlocks
  /\ pc.file \in [Page -> Data]

\* The blocks handed out are exactly the indexed ones, and the item of a
\* block names the page the index has it under: no two pages share a block.
BlocksOK(pc) ==
  /\ \A p \in IndexedPages(pc.index) : pc.item_page[pc.index.lru.value[p]] = p
  /\ \A b \in Block : b < pc.last_block <=>
       \E p \in IndexedPages(pc.index) : pc.index.lru.value[p] = b

PageCacheOK(pc) ==
  /\ PageCacheTypeOK(pc)
  /\ IndexOK(PageCacheCells, pc.index, Page, Block)
  /\ BlocksOK(pc)
=============================================================================
