-------------------------------- MODULE Vmm --------------------------------
(***************************************************************************)
(* lib/VMM: the memory of the machine, paged between number_of_pages page  *)
(* frames, the page cache (himem) and the page file.  One thread drives    *)
(* it: vmm_read and vmm_write cut an access at the page boundaries, and    *)
(* each piece finds its page in the index or loads it, evicting the page   *)
(* at the tail of the LRU list when the frames are used up.                *)
(*                                                                         *)
(* The VMM_t is a record:                                                  *)
(*   index           page -> frame (lru_cache and direct_cache)            *)
(*   frame           the vmTable_t entries malloc can return               *)
(*   pagetable_size  the entries in use                                    *)
(*   store           the page cache and the page file                      *)
(***************************************************************************)
EXTENDS PageCache

CONSTANTS
  PageSize,       \* bytes of a page
  Byte,           \* values of a byte
  Zero,           \* the byte fseek leaves in the new page file
  Frame,          \* addresses malloc gives to vmTable_t entries
  NumberOfPages,  \* number_of_pages: frames used at most
  TlbCells        \* cells of the VMM's direct cache (8192)

Offset == 0 .. PageSize - 1
Addr   == Page \X Offset

ASSUME VmmAssumption ==
  /\ PageSize \in Nat \ {0}
  /\ Zero \in Byte
  /\ Data = [Offset -> Byte]
  /\ ZeroPage = [o \in Offset |-> Zero]
  /\ NumberOfPages \in Nat \ {0}
  /\ TlbCells \in Nat \ {0, 1}
  /\ NULL \notin Frame
  /\ Garbage \notin Frame \cup {NULL}

VARIABLES
  vmm,      \* the VMM_t
  writing,  \* vmm_write: the bytes still to store, by address
  reading,  \* vmm_read: the addresses still to fetch
  target,   \* vmm_read: the bytes fetched, by address
  phase,    \* the call that runs
  cursor    \* lru_cache_sync: position of the iterator; vmm_destroy: its i

vars == <<vmm, writing, reading, target, phase, cursor>>

NoBytes == [a \in {} |-> Zero]

\* An address is a page number and an offset: addr / page_size and the rest.
Linear(a) == a[1] * PageSize + a[2]

\* The addresses of an access of len bytes at a.
Span(a, len) == {b \in Addr : Linear(a) <= Linear(b) /\ Linear(b) < Linear(a) + len}

-----------------------------------------------------------------------------
(***************************************************************************)
(* The paging machinery: each operator returns the VMM_t after the call.   *)
(***************************************************************************)

FreeEntry == [allocated |-> FALSE, page_number |-> 0, dirty |-> FALSE, page_cache |-> ZeroPage]

VmmCreate(himem) ==
  [index          |-> IndexInit(TlbCells),
   frame          |-> [f \in Frame |-> FreeEntry],
   pagetable_size |-> 0,
   store          |-> PageCacheInit(himem)]

Resident(v) == IndexedPages(v.index)

FrameOf(v, page) == v.index.lru.value[page]

GetTLB(v, page) == IndexFind(TlbCells, v.index, page)

TouchTLB(v, page) == [v EXCEPT !.index = IndexTouch(TlbCells, @, page)]

\* on_page_flush: a dirty page goes to the page cache and is clean.
OnPageFlush(v, f) ==
  IF v.frame[f].dirty
  THEN [v EXCEPT !.store = PageCacheSet(@, v.frame[f].page_number, v.frame[f].page_cache),
                 !.frame[f].dirty = FALSE]
  ELSE v

\* Faulty: an entry is freed without its page being flushed.
FreeVmtableUnflushed(v, f) ==
  [v EXCEPT !.index = IndexRemove(TlbCells, @, v.frame[f].page_number),
            !.frame[f] = FreeEntry]

\* free_vmtable: lru_cache_remove flushes what the index has under the
\* entry's page; both caches forget the page; the entry is freed.
FreeVmtable(v, f) ==
  LET page == v.frame[f].page_number
      w    == IF page \in Resident(v) THEN OnPageFlush(v, FrameOf(v, page)) ELSE v
  IN  [w EXCEPT !.index = IndexRemove(TlbCells, @, page),
                !.frame[f] = FreeEntry]

EvictLast(v) ==
  LET last == LeastRecentlyUsed(v.index.lru)
  IN  IF last # NULL
      THEN [FreeVmtable(v, last) EXCEPT !.pagetable_size = @ - 1]
      ELSE v

\* find_empty_TLB, up to new_vmtable.
MakeRoom(v) == IF v.pagetable_size >= NumberOfPages THEN EvictLast(v) ELSE v

\* The rest of find_empty_TLB and the miss branch of get_page: malloc returns
\* entry f, whose dirty flag keeps the value it finds there.
LoadPage(v, page, f, dirty) ==
  [index          |-> IndexAdd(TlbCells, v.index, page, f),
   frame          |-> [v.frame EXCEPT ![f] =
                         [allocated |-> TRUE, page_number |-> page, dirty |-> dirty,
                          page_cache |-> StoreRead(v.store, page)]],
   pagetable_size |-> v.pagetable_size + 1,
   store          |-> TouchBlock(v.store, page)]

\* get_page may return frame f: the one it finds, or one malloc has to give.
Returns(v, page, f) ==
  IF GetTLB(v, page) # NULL
  THEN f = GetTLB(v, page)
  ELSE ~MakeRoom(v).frame[f].allocated

GetPage(v, page, f, dirty) ==
  IF GetTLB(v, page) # NULL
  THEN TouchTLB(v, page)
  ELSE LoadPage(MakeRoom(v), page, f, dirty)

-----------------------------------------------------------------------------
Init ==
  /\ \E himem \in [Block -> Data] : vmm = VmmCreate(himem)
  /\ writing = NoBytes
  /\ reading = {}
  /\ target = NoBytes
  /\ phase = "run"
  /\ cursor = 0

Idle == phase = "run" /\ DOMAIN writing = {} /\ reading = {}

\* The page of the lowest address in S, where addr + offset stands.
NextPage(S, page) ==
  /\ \E o \in Offset : <<page, o>> \in S
  /\ \A a \in S : page <= a[1]

\* The part of an access that lies in a page.
Piece(S, page) == {a \in S : a[1] = page}

StartWrite(a, len, bytes) ==
  /\ Idle
  /\ bytes \in [Span(a, len) -> Byte]
  /\ writing' = bytes
  /\ target' = NoBytes
  /\ UNCHANGED <<vmm, reading, phase, cursor>>

StartRead(a, len) ==
  /\ Idle
  /\ reading' = Span(a, len)
  /\ target' = NoBytes
  /\ UNCHANGED <<vmm, writing, phase, cursor>>

\* Faulty: the rest of the page does not survive a partial write.
StoreBytesWholePage(v, f, page, bytes) ==
  LET new == [o \in Offset |-> IF <<page, o>> \in DOMAIN bytes
                               THEN bytes[<<page, o>>] ELSE Zero]
  IN  [v EXCEPT !.frame[f] = [@ EXCEPT !.page_cache = new, !.dirty = TRUE]]

\* vmm_write_internal: memcpy into the page, which is dirty from then on.
StoreBytes(v, f, page, bytes) ==
  LET old == v.frame[f].page_cache
      new == [o \in Offset |-> IF <<page, o>> \in DOMAIN bytes
                               THEN bytes[<<page, o>>] ELSE old[o]]
  IN  [v EXCEPT !.frame[f] = [@ EXCEPT !.page_cache = new, !.dirty = TRUE]]

WriteInternal(page, f, dirty) ==
  /\ NextPage(DOMAIN writing, page)
  /\ Returns(vmm, page, f)
  /\ vmm' = StoreBytes(GetPage(vmm, page, f, dirty), f, page, writing)
  /\ writing' = Restrict(writing, DOMAIN writing \ Piece(DOMAIN writing, page))
  /\ UNCHANGED <<reading, target, phase, cursor>>

ReadInternal(page, f, dirty) ==
  /\ NextPage(reading, page)
  /\ Returns(vmm, page, f)
  /\ vmm' = GetPage(vmm, page, f, dirty)
  /\ target' = [a \in DOMAIN target \cup Piece(reading, page) |->
                  IF a \in DOMAIN target THEN target[a]
                  ELSE vmm'.frame[f].page_cache[a[2]]]
  /\ reading' = reading \ Piece(reading, page)
  /\ UNCHANGED <<writing, phase, cursor>>

-----------------------------------------------------------------------------
(***************************************************************************)
(* vmm_flush and vmm_destroy.                                              *)
(***************************************************************************)

Start(call, from) ==
  /\ phase' = call
  /\ cursor' = from
  /\ target' = NoBytes
  /\ UNCHANGED <<vmm, writing, reading>>

Flush   == Idle /\ Start("flush", 1)
Destroy == Idle /\ Start("free", 0)

\* One iteration of lru_cache_sync.
SyncNext ==
  /\ phase \in {"flush", "last_flush"}
  /\ cursor <= Len(vmm.index.lru.list)
  /\ vmm' = OnPageFlush(vmm, FrameOf(vmm, vmm.index.lru.list[cursor]))
  /\ cursor' = cursor + 1
  /\ UNCHANGED <<writing, reading, target, phase>>

\* fflush; in vmm_destroy, fclose follows.
SyncDone ==
  /\ phase \in {"flush", "last_flush"}
  /\ cursor > Len(vmm.index.lru.list)
  /\ phase' = IF phase = "flush" THEN "run" ELSE "drop"
  /\ cursor' = 0
  /\ UNCHANGED <<vmm, writing, reading, target>>

\* One iteration of vmm_destroy's loop; its bound, the item count, is read
\* again each time.
DestroyNext ==
  /\ phase = "free"
  /\ cursor < vmm.index.lru.number_of_items
  /\ vmm' = EvictLast(vmm)
  /\ cursor' = cursor + 1
  /\ UNCHANGED <<writing, reading, target, phase>>

DestroyFlush ==
  /\ phase = "free"
  /\ cursor >= vmm.index.lru.number_of_items
  /\ phase' = "last_flush"
  /\ cursor' = 1
  /\ UNCHANGED <<vmm, writing, reading, target>>

\* One iteration of lru_cache_free's lru_cache_flush_items, after fclose; the
\* direct cache is not told.
DropNext ==
  /\ phase = "drop"
  /\ vmm.index.lru.list # << >>
  /\ LET f == LeastRecentlyUsed(vmm.index.lru)
     IN  vmm' = [OnPageFlush(vmm, f) EXCEPT !.index.lru = LruFlushTail(@)]
  /\ UNCHANGED <<writing, reading, target, phase, cursor>>

DropDone ==
  /\ phase = "drop"
  /\ vmm.index.lru.list = << >>
  /\ phase' = "closed"
  /\ UNCHANGED <<vmm, writing, reading, target, cursor>>

\* The memory is gone: nothing happens to it any more.
Closed == phase = "closed" /\ UNCHANGED vars

Next ==
  \/ \E a \in Addr, len \in 1 .. PageCount * PageSize :
       /\ Linear(a) + len <= PageCount * PageSize
       /\ \/ \E bytes \in [Span(a, len) -> Byte] : StartWrite(a, len, bytes)
          \/ StartRead(a, len)
  \/ \E page \in Page, f \in Frame, dirty \in BOOLEAN :
       WriteInternal(page, f, dirty) \/ ReadInternal(page, f, dirty)
  \/ Flush \/ SyncNext \/ SyncDone
  \/ Destroy \/ DestroyNext \/ DestroyFlush \/ DropNext \/ DropDone
  \/ Closed

Spec == Init /\ [][Next]_vars

-----------------------------------------------------------------------------
(***************************************************************************)
(* Properties.                                                             *)
(***************************************************************************)

Entry == [allocated : BOOLEAN, page_number : Page, dirty : BOOLEAN, page_cache : Data]

VmmTypeOK(v) ==
  /\ v = [index |-> v.index, frame |-> v.frame, pagetable_size |-> v.pagetable_size,
          store |-> v.store]
  /\ v.frame \in [Frame -> Entry]
  /\ v.pagetable_size \in Nat

\* At most one access or call is under way.
RequestTypeOK ==
  /\ writing \in UNION {[S -> Byte] : S \in SUBSET Addr}
  /\ reading \subseteq Addr
  /\ target \in UNION {[S -> Byte] : S \in SUBSET Addr}
  /\ phase \in {"run", "flush", "free", "last_flush", "drop", "closed"}
  /\ cursor \in Nat
  /\ phase # "run" => DOMAIN writing = {} /\ reading = {}
  /\ DOMAIN writing # {} => reading = {} /\ DOMAIN target = {}
  /\ reading \cap DOMAIN target = {}

\* Every value is of its type, from vmm_create to the end of vmm_destroy.
TypeOK ==
  /\ VmmTypeOK(vmm)
  /\ PageCacheTypeOK(vmm.store)
  /\ IndexTypeOK(TlbCells, vmm.index, Page, Frame)
  /\ IndexTypeOK(PageCacheCells, vmm.store.index, Page, Block)
  /\ RequestTypeOK

\* The frame the index gives for a page is an entry in use, and holds that
\* page: nothing reaches an entry after free, or another page's bytes.
FramesOK(v) ==
  \A p \in Resident(v) :
    /\ v.frame[FrameOf(v, p)].allocated
    /\ v.frame[FrameOf(v, p)].page_number = p

NoDanglingEntry ==
  /\ FramesOK(vmm)
  /\ phase \notin {"drop", "closed"} => DirectAgrees(TlbCells, vmm.index)
  /\ DirectAgrees(PageCacheCells, vmm.store.index)

\* A frame that is not dirty has the bytes the store would load again: an
\* eviction that writes nothing loses nothing.
CleanOK(v) ==
  \A p \in Resident(v) :
    ~v.frame[FrameOf(v, p)].dirty =>
      v.frame[FrameOf(v, p)].page_cache = StoreView(v.store)[p]

CleanFramesMatchStore == CleanOK(vmm)

\* The frames and the blocks in use stay within their limits, and each is in
\* use for one page.
Limits ==
  /\ phase \notin {"drop", "closed"} =>
       vmm.pagetable_size = vmm.index.lru.number_of_items
  /\ vmm.pagetable_size <= NumberOfPages
  /\ BlocksOK(vmm.store)

\* lru_cache_free, which runs after fclose, has nothing left to write.
NothingWrittenAfterClose ==
  /\ phase \in {"flush", "last_flush"} =>
       \A i \in 1 .. cursor - 1 :
         i \in DOMAIN vmm.index.lru.list =>
           ~vmm.frame[FrameOf(vmm, vmm.index.lru.list[i])].dirty
  /\ phase \in {"drop", "closed"} =>
       \A p \in Resident(vmm) : ~vmm.frame[FrameOf(vmm, p)].dirty

\* The memory the machine sees: the frame of a resident page, the store's copy
\* of any other; a write counts as done when vmm_write is called.
View(v) ==
  [a \in Addr |-> IF a[1] \in Resident(v)
                  THEN v.frame[FrameOf(v, a[1])].page_cache[a[2]]
                  ELSE StoreView(v.store)[a[1]][a[2]]]

Contents == [a \in Addr |-> IF a \in DOMAIN writing THEN writing[a] ELSE View(vmm)[a]]

Answer == IF reading = {} THEN target ELSE NoBytes

Memory == INSTANCE Ram WITH mem <- Contents, last <- writing, reply <- Answer

\* Whatever is paged in, out, flushed or freed meanwhile, a read returns the
\* bytes last written to its addresses, and only vmm_write changes a byte.
ImplementsRam == Memory!Spec
=============================================================================
