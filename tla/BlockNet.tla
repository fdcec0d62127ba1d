------------------------------ MODULE BlockNet ------------------------------
(***************************************************************************)
(* A disk whose image is fetched over HTTP (block_net.c) behind the virtio *)
(* block device.                                                           *)
(*                                                                         *)
(* The image is read in blocks, which are kept while there is room; what   *)
(* the guest writes is kept apart, in clusters, and never sent.  A request *)
(* that meets a block not there yet waits, and goes on when the block      *)
(* comes, alone or in a group that was prefetched.                         *)
(*                                                                         *)
(* All of it runs in one thread.  A request that ends calls back into the  *)
(* device (notifying), which starts the next one before the rest of a      *)
(* group has been looked at; the guest runs when neither has more to do.   *)
(***************************************************************************)
EXTENDS Integers, Sequences, SequencesExt, FiniteSets

CONSTANTS
  NbBlocks,
  SectorsPerBlock,    \* block_size
  SectorsPerCluster,  \* at most SectorsPerBlock, which it divides
  CachedBlocksMax,
  PrefetchLists,      \* the lists of groups that the image's description may have
  DiskRequests,       \* what the guest may ask for
  MaxDiskRequests     \* and how often

Block == 0 .. NbBlocks - 1

\* The code's clusters have eight sectors, and are smaller than its blocks.
ASSUME GeometryAssumption ==
  /\ NbBlocks \in Nat
  /\ SectorsPerCluster \in Nat \ {0}
  /\ SectorsPerBlock \in Nat \ {0}
  /\ SectorsPerBlock % SectorsPerCluster = 0
  /\ CachedBlocksMax \in Nat
  /\ MaxDiskRequests \in Nat
ASSUME PrefetchAssumption ==
  \A list \in PrefetchLists :
    list \in Seq(Seq(Block)) /\ \A i \in DOMAIN list : list[i] # <<>>

NetSector == 0 .. NbBlocks * SectorsPerBlock - 1
NetTag == 1 .. MaxDiskRequests
Image(s) == <<"image", s>>
Tagged(t) == <<"written", t>>
Freed == <<"freed", 0>>
NetData == {Image(s) : s \in NetSector} \cup {Tagged(t) : t \in NetTag} \cup {Freed}
NoBlock == -1
Cluster == 0 .. NbBlocks * (SectorsPerBlock \div SectorsPerCluster) - 1

ASSUME DiskRequestsAssumption ==
  \A r \in DiskRequests :
    /\ r \in [type : {"IN", "OUT"}, sector : Nat, n : Nat, data : {<<>>}]
    /\ r.sector + r.n <= NbBlocks * SectorsPerBlock

NoDiskRequest == [tag |-> 0, req |-> [type |-> "IN", sector |-> 0, n |-> 0, data |-> <<>>]]

VARIABLES
  net,          \* the BlockDeviceHTTP
  io,           \* its current request: where it is, the buffer, what has been read
  group,        \* what is left of the transfer that is being looked at
  (* the virtio device *)
  disk_request, \* s1->req
  disk_busy,    \* s1->req_in_progress
  notifying,    \* within queue_notify
  (* the guest *)
  waiting,      \* the avail ring: requests not taken yet
  answered,     \* the used ring
  asked,        \* number of requests made
  before        \* ghost: the disk as it was when the request was taken

netVars == <<net, io, group, disk_request, disk_busy, notifying, waiting, answered, asked, before>>

-----------------------------------------------------------------------------
(* Blocks                                                                  *)

BlockImage(b) == [i \in 1 .. SectorsPerBlock |-> Image(b * SectorsPerBlock + i - 1)]

HasBlock(d, b) == \E i \in DOMAIN d.cached_blocks : d.cached_blocks[i].block_num = b

\* The block moves to the front.
bf_find_block(d, b) ==
  LET blocks == d.cached_blocks
      i == SelectInSeq(blocks, LAMBDA c : c.block_num = b)
  IN  IF i = 0 THEN d
      ELSE [d EXCEPT !.cached_blocks = <<blocks[i]>> \o RemoveAt(blocks, i)]

\* Faulty: frees blocks that are being loaded as well.
KeepOrFreeAny(s, c) ==
  IF s.n >= CachedBlocksMax
  THEN [s EXCEPT !.n = @ - 1]
  ELSE [s EXCEPT !.kept = <<c>> \o @]

\* A block that is being loaded stays; another is freed while there are too many.
KeepOrFree(s, c) ==
  IF c.state = "LOADED" /\ s.n >= CachedBlocksMax
  THEN [s EXCEPT !.n = @ - 1]
  ELSE [s EXCEPT !.kept = <<c>> \o @]

\* The least used block is looked at first.
FreeBlocks(d) ==
  LET s == [kept |-> <<>>, n |-> Len(d.cached_blocks)]
  IN  [d EXCEPT !.cached_blocks = FoldLeft(KeepOrFree, s, Reverse(@)).kept]

bf_add_block(d, b) ==
  [FreeBlocks(d) EXCEPT
     !.cached_blocks = <<[block_num |-> b, state |-> "LOADING", data |-> <<>>]>> \o @]

\* A transfer is what it brings, block by block, and which blocks still want it.
bf_start_load_block(d, b) ==
  [bf_add_block(d, b) EXCEPT !.transfers = @ \cup {<<[block_num |-> b, wanted |-> TRUE]>>}]

PrefetchTurn(s, b) ==
  IF HasBlock(s.d, b)
  THEN [d |-> bf_find_block(s.d, b), tab |-> Append(s.tab, [block_num |-> b, wanted |-> FALSE])]
  ELSE [d |-> bf_add_block(s.d, b), tab |-> Append(s.tab, [block_num |-> b, wanted |-> TRUE])]

bf_start_load_prefetch_group(d, blocks) ==
  LET all == FoldLeft(PrefetchTurn, [d |-> d, tab |-> <<>>], blocks)
  IN  IF \E i \in DOMAIN all.tab : all.tab[i].wanted
      THEN [all.d EXCEPT !.transfers = @ \cup {all.tab}]
      ELSE all.d

\* bf_init_onload: a group of one is loaded as a block.
StartPrefetch(d, blocks) ==
  IF Len(blocks) > 1 THEN bf_start_load_prefetch_group(d, blocks)
  ELSE IF HasBlock(d, blocks[1]) THEN bf_find_block(d, blocks[1])
  ELSE bf_start_load_block(d, blocks[1])

-----------------------------------------------------------------------------
(* Requests                                                                *)

Smaller(m, n) == IF m < n THEN m ELSE n

\* Faulty: copies the first sectors of the block, wherever in it the cluster lies.
NewClusterUnshifted(data, cluster) == SubSeq(data, 1, SectorsPerCluster)

\* What a new cluster starts with: the sectors of the block it lies over.
NewCluster(data, cluster) ==
  LET offset == (cluster * SectorsPerCluster) % SectorsPerBlock
  IN  SubSeq(data, offset + 1, offset + SectorsPerCluster)

\* The loop of bf_rw_async1, with the device and the request it has come to in s.
NextSector(r) == r.sector + r.index
Left(r) == r.n - r.index
ClusterOf(r) == NextSector(r) \div SectorsPerCluster
BlockOf(r) == NextSector(r) \div SectorsPerBlock
InCluster(r) == NextSector(r) % SectorsPerCluster
InBlock(r) == NextSector(r) % SectorsPerBlock

Done(r, buf, n) == [r EXCEPT !.buf = buf, !.index = @ + n]

\* The sectors are in a cluster.
AtCluster(s) ==
  LET r == s.r
      c == s.d.clusters[ClusterOf(r)]
      at == InCluster(r)
      n == Smaller(Left(r), SectorsPerCluster - at)
      written == [i \in DOMAIN c |-> IF i - at \in 1 .. n THEN r.buf[r.index + i - at] ELSE c[i]]
  IN  IF r.type = "OUT"
      THEN [s EXCEPT !.d.clusters[ClusterOf(r)] = written, !.r = Done(r, r.buf, n)]
      ELSE [s EXCEPT !.r = Done(r, r.buf \o SubSeq(c, at + 1, at + n), n)]

\* The sectors are in the block, which is at the front of the cache: a write
\* makes a cluster of them, a read takes what is left of the block.
AtBlock(s) ==
  LET r == s.r
      data == s.d.cached_blocks[1].data
      offset == InBlock(r)
      m == Smaller(Left(r), SectorsPerBlock - offset)
  IN  IF r.type = "OUT"
      THEN [s EXCEPT !.d.clusters[ClusterOf(r)] = NewCluster(data, ClusterOf(r))]
      ELSE [s EXCEPT !.d.cur_block_num = NoBlock,
                     !.r = Done(r, r.buf \o SubSeq(data, offset + 1, offset + m), m)]

RwTurn(s) ==
  LET block == BlockOf(s.r)
      d == [s.d EXCEPT !.cur_block_num = block]
      found == [s EXCEPT !.d = bf_find_block(d, block)]
  IN  IF s.waits \/ Left(s.r) = 0 THEN s
      ELSE IF s.d.clusters[ClusterOf(s.r)] # <<>> THEN AtCluster(s)
      ELSE IF ~HasBlock(d, block)
      THEN [s EXCEPT !.d = bf_start_load_block(d, block), !.waits = TRUE]
      ELSE IF found.d.cached_blocks[1].state = "LOADING" THEN [found EXCEPT !.waits = TRUE]
      ELSE AtBlock(found)

\* Two turns do at least a sector.
bf_rw_async1(d, r) ==
  FoldLeft(LAMBDA s, i : RwTurn(s), [d |-> d, r |-> r, waits |-> FALSE], [i \in 1 .. 2 * r.n |-> i])

IoRequest(r) == [type |-> r.type, sector |-> r.sector, n |-> r.n, index |-> 0, buf |-> r.data]

\* The contents of the disk: clusters over the image.
Contents(d) ==
  [s \in NetSector |->
     LET c == d.clusters[s \div SectorsPerCluster]
     IN  IF c # <<>> THEN c[(s % SectorsPerCluster) + 1] ELSE Image(s)]

-----------------------------------------------------------------------------
(* Steps.  The description of the image has come, the machine starts.      *)

BlockNetInit ==
  /\ \E list \in PrefetchLists :
       net = FoldLeft(StartPrefetch,
                      [cached_blocks |-> <<>>, transfers |-> {}, cur_block_num |-> NoBlock,
                       clusters |-> [c \in Cluster |-> <<>>],
                       aborted |-> FALSE],
                      list)
  /\ io = IoRequest(NoDiskRequest.req)
  /\ group = <<>>
  /\ disk_request = NoDiskRequest
  /\ disk_busy = FALSE
  /\ notifying = FALSE
  /\ waiting = <<>>
  /\ answered = <<>>
  /\ asked = 0
  /\ before = <<>>

GuestRuns == ~notifying /\ group = <<>> /\ ~net.aborted

\* What is written tells which request it came with.
Asked(r, t) ==
  IF r.type = "OUT" THEN [r EXCEPT !.data = [i \in 1 .. r.n |-> Tagged(t)]] ELSE r

AskDisk(r) ==
  /\ GuestRuns
  /\ asked < MaxDiskRequests
  /\ asked' = asked + 1
  /\ waiting' = Append(waiting, [tag |-> asked', req |-> Asked(r, asked')])
  /\ notifying' = TRUE
  /\ UNCHANGED <<net, io, group, disk_request, disk_busy, answered, before>>

\* virtio_block_req_end
DiskAnswer(t, r) ==
  answered' = Append(answered,
    [tag |-> t, result |-> [status |-> "OK", data |-> IF r.type = "IN" THEN r.buf ELSE <<>>]])

\* virtio_block_recv_request: the buffer of a write is freed when the call returns.
TakeDiskRequest ==
  /\ notifying /\ ~disk_busy /\ waiting # <<>>
  /\ disk_request' = Head(waiting)
  /\ waiting' = Tail(waiting)
  /\ LET rw == bf_rw_async1(net, IoRequest(Head(waiting).req))
     IN  /\ net' = rw.d
         /\ IF ~rw.waits
            THEN /\ DiskAnswer(Head(waiting).tag, rw.r)
                 /\ io' = rw.r
                 /\ UNCHANGED <<disk_busy, before>>
            ELSE /\ disk_busy' = TRUE
                 /\ io' = IF rw.r.type = "OUT"
                          THEN [rw.r EXCEPT !.buf = [i \in DOMAIN @ |-> Freed]] ELSE rw.r
                 /\ before' = Contents(net)
                 /\ UNCHANGED answered
  /\ UNCHANGED <<group, notifying, asked>>

DiskNotified ==
  /\ notifying
  /\ disk_busy \/ waiting = <<>>
  /\ notifying' = FALSE
  /\ UNCHANGED <<net, io, group, disk_request, disk_busy, waiting, answered, asked, before>>

\* The server has sent what was asked for.
BlocksArrive(t) ==
  /\ ~notifying /\ group = <<>> /\ ~net.aborted
  /\ net' = [net EXCEPT !.transfers = @ \ {t}]
  /\ group' = t
  /\ UNCHANGED <<io, disk_request, disk_busy, notifying, waiting, answered, asked, before>>

\* Faulty: what was asked for meanwhile is not looked at.
ContinuedQuietly(d) ==
  LET rw == bf_rw_async1(d, io)
  IN  /\ net' = rw.d
      /\ io' = rw.r
      /\ IF ~rw.waits
         THEN /\ DiskAnswer(disk_request.tag, rw.r)
              /\ disk_busy' = FALSE
              /\ before' = <<>>
         ELSE UNCHANGED <<answered, disk_busy, before>>
      /\ UNCHANGED notifying

\* bf_update_block; the request that waits for the block goes on, and its end
\* is virtio_block_req_cb.
Continued(d) ==
  LET rw == bf_rw_async1(d, io)
  IN  /\ net' = rw.d
      /\ io' = rw.r
      /\ IF ~rw.waits
         THEN /\ DiskAnswer(disk_request.tag, rw.r)
              /\ disk_busy' = FALSE
              /\ notifying' = TRUE
              /\ before' = <<>>
         ELSE UNCHANGED <<answered, disk_busy, notifying, before>>

UpdateBlock(b) ==
  LET Stored(c) == IF c.block_num = b
                   THEN [c EXCEPT !.state = "LOADED", !.data = BlockImage(b)] ELSE c
      stored == [i \in DOMAIN net.cached_blocks |-> Stored(net.cached_blocks[i])]
      loading == \E i \in DOMAIN stored : net.cached_blocks[i].block_num = b
                                          /\ net.cached_blocks[i].state = "LOADING"
  IN  IF ~loading
      THEN /\ net' = [net EXCEPT !.aborted = TRUE]
           /\ UNCHANGED <<io, answered, disk_busy, notifying, before>>
      ELSE IF b = net.cur_block_num
      THEN Continued([net EXCEPT !.cached_blocks = stored])
      ELSE /\ net' = [net EXCEPT !.cached_blocks = stored]
           /\ UNCHANGED <<io, answered, disk_busy, notifying, before>>

\* bf_read_onload, and a turn of the loop of bf_prefetch_group_onload.
BlockComes ==
  /\ ~notifying /\ group # <<>> /\ ~net.aborted
  /\ group' = Tail(group)
  /\ IF Head(group).wanted
     THEN UpdateBlock(Head(group).block_num)
     ELSE UNCHANGED <<net, io, answered, disk_busy, notifying, before>>
  /\ UNCHANGED <<disk_request, waiting, asked>>

DiskRuns == TakeDiskRequest \/ DiskNotified \/ BlockComes
SomeBlocksArrive == \E t \in net.transfers : BlocksArrive(t)

BlockNetNext ==
  \/ \E r \in DiskRequests : AskDisk(r)
  \/ DiskRuns
  \/ SomeBlocksArrive

DiskRunning == notifying \/ (group # <<>> /\ ~net.aborted)
DiskFetching == GuestRuns /\ net.transfers # {}

\* The device's own steps wait for nothing, and the server answers.  No step of
\* them leaves its own guard true for ever, so this is their weak fairness.
BlockNetFairness ==
  /\ []<>~DiskRunning
  /\ []<>~DiskFetching

BlockNetSpec == BlockNetInit /\ [][BlockNetNext]_netVars

-----------------------------------------------------------------------------
\* bf_update_block is called only for blocks that are still being loaded, as
\* its assertion says: no block that a transfer will bring is freed, found
\* twice in the cache, or asked for twice.
BlocksAwaited == ~net.aborted

\* "Modified data is stored per cluster" (block_net.c:66): what a read returns
\* is what the clusters hold where there are any, and the image elsewhere.
ReadsReturnWrites ==
  [][ answered' # answered /\ io'.type = "IN" =>
        \A i \in 1 .. io'.n : io'.buf[i] = Contents(net)[io'.sector + i - 1] ]_netVars

NetDisk == INSTANCE Disk WITH
  Sector <- NetSector,
  Data <- NetData,
  Tag <- NetTag,
  Request <- {Asked(r, t) : r \in DiskRequests, t \in NetTag},
  Nothing <- NoDiskRequest,
  disk <- IF disk_busy THEN before ELSE Contents(net),
  readonly <- FALSE,
  queue <- waiting,
  current <- IF disk_busy THEN disk_request ELSE NoDiskRequest,
  answers <- answered

\* A read that meets a block without a cluster takes the rest of the block from
\* the image, whatever clusters lie there (bf_rw_async1, the n of the second
\* case).  So that it does not matter, no read goes from one cluster to another
\* of the same block.
ReadsWithinCluster ==
  \A r \in DiskRequests : r.type = "IN" =>
    \A s, t \in r.sector .. r.sector + r.n - 1 :
      s \div SectorsPerBlock = t \div SectorsPerBlock
        => s \div SectorsPerCluster = t \div SectorsPerCluster

\* Cache, clusters, prefetch and callbacks together are a disk, for such reads
\* and all writes: the requests are taken in turn, none is answered twice, and
\* a read returns what the writes before it left over the image, in whatever
\* order the blocks come and go.  What a write that had to wait leaves in its
\* sectors is not promised.  (bf_rw_async1, bf_update_block)
ImplementsNetDisk == NetDisk!Spec

\* Every request is answered in the end (bf_rw_async1, virtio_block_req_cb).
DiskRequestsAnswered ==
  \A t \in NetTag : asked = t ~> \E i \in DOMAIN answered : answered[i].tag = t
=============================================================================
