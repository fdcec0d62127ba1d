---------------------------- MODULE VirtioBlock ----------------------------
(***************************************************************************)
(* The virtio block device (virtio.c) between a driver in the guest and a  *)
(* block device of the host.                                               *)
(*                                                                         *)
(* The guest runs (at = "guest") until it notifies the queue; the loop of  *)
(* queue_notify then takes the entries of the avail ring one by one, and   *)
(* the guest does not run before it ends.  The host's device answers       *)
(* within the call, or later, from the main loop, through                  *)
(* virtio_block_req_cb: the file's always at once, block_net.c's when a    *)
(* block has to be fetched (mode "NET").                                   *)
(*                                                                         *)
(* The driver follows the rules of its side: a descriptor it has submitted *)
(* is not used again before it is returned, a reset waits for the request  *)
(* in progress, and an interrupt is acknowledged before the used ring is   *)
(* looked at.  It may send any request, also one the device does not know  *)
(* ("OTHER") and one whose descriptors are out of order ("BAD").           *)
(***************************************************************************)
EXTENDS VirtQueue

CONSTANTS
  Requests,   \* what the driver may ask for
  NULL,
  NbSectors,  \* sectors of the file
  Data        \* what a sector can hold

ASSUME NbSectorsAssumption == NbSectors \in Nat \ {0}
ASSUME DataAssumption == Data # {} /\ NULL \notin Data

-----------------------------------------------------------------------------
(* The block device over a file (BlockDeviceFile of temu.c).  Its state is *)
(* a record of the mode it was opened in, the file's sectors, and the      *)
(* table of sectors kept in memory by a snapshot.  A sector's contents are *)
(* one value.                                                              *)

Sector == 0 .. NbSectors - 1
Mode == {"RO", "RW", "SNAPSHOT"}

\* block_device_init
BfInit(mode, file) ==
  [mode |-> mode, file |-> file, sector_table |-> [s \in Sector |-> NULL]]

\* What a sector reads as.  Only a snapshot has a table.
BfSector(bf, s) ==
  IF bf.sector_table[s] = NULL THEN bf.file[s] ELSE bf.sector_table[s]

\* bf_read_async of n sectors from s on, all of them on the device.
BfRead(bf, s, n) == [i \in 1 .. n |-> BfSector(bf, s + i - 1)]

\* Writes the sequence data to a function from sectors, from sector s on.
Overwrite(f, s, data) ==
  [t \in DOMAIN f |-> IF t \in s .. s + Len(data) - 1 THEN data[t - s + 1] ELSE f[t]]

\* bf_write_async: the file afterwards, and its return value.  Read-only, it
\* fails; a snapshot fails beyond its end and else fills its table.
BfWriteFails(bf, s, data) ==
  \/ bf.mode = "RO"
  \/ bf.mode = "SNAPSHOT" /\ s + Len(data) > NbSectors

BfWrite(bf, s, data) ==
  IF BfWriteFails(bf, s, data) THEN bf
  ELSE IF bf.mode = "SNAPSHOT"
       THEN [bf EXCEPT !.sector_table = Overwrite(@, s, data)]
       ELSE [bf EXCEPT !.file = Overwrite(@, s, data)]

BfTypeOK(bf, modes) ==
  bf \in [mode : modes, file : [Sector -> Data],
          sector_table : [Sector -> Data \union {NULL}]]

-----------------------------------------------------------------------------
(* The rings, the device and its driver                                    *)

RequestType == {"IN", "OUT", "OTHER", "BAD"}
NoRequest == [type |-> "NONE", sector |-> 0, n |-> 0, data |-> <<>>]
NoResult == [status |-> "NONE", data |-> <<>>]
Result == [status : {"NONE", "OK", "IOERR"}, data : Seq(Data)]

ASSUME RequestsAssumption ==
  \A r \in Requests :
    /\ r \in [type : RequestType, sector : Sector, n : Nat, data : Seq(Data)]
    /\ r.sector + r.n <= NbSectors
    /\ r.type = "OUT" => Len(r.data) = r.n

VARIABLES
  (* the rings, the device's place in them, its interrupt *)
  queue,
  (* the device *)
  req_in_progress, req_desc,  \* s1->req_in_progress, s1->req.desc_idx
  bf,                         \* the host's block device
  at,                         \* "guest", or "notify" within queue_notify
  (* the driver *)
  ready,          \* it has set up the queue
  request,        \* head -> what its descriptors ask for, NoRequest when free
  result,         \* head -> what the device wrote to them
  last_used,      \* its place in the used ring
  handler,        \* "idle", or "reaping" within its interrupt handler
  to_notify       \* it has submitted since it last notified

vars == <<queue, req_in_progress, req_desc, bf, at,
          ready, request, result, last_used, handler, to_notify>>
driver == <<ready, request, last_used, handler, to_notify>>

Init ==
  /\ queue = QueueInit
  /\ req_in_progress = FALSE
  /\ req_desc = Head0
  /\ \E mode \in Mode \union {"NET"}, file \in [Sector -> Data] :
       bf = BfInit(mode, file)
  /\ at = "guest"
  /\ ready = FALSE
  /\ request = [h \in Desc |-> NoRequest]
  /\ result = [h \in Desc |-> NoResult]
  /\ last_used = 0
  /\ handler = "idle"
  /\ to_notify = FALSE

-----------------------------------------------------------------------------
(* The driver                                                              *)

\* VIRTIO_MMIO_STATUS is written with 0.
Reset ==
  /\ at = "guest"
  /\ handler = "idle"
  /\ ~req_in_progress
  /\ queue' = VirtioReset(queue)
  /\ ready' = FALSE
  /\ request' = [h \in Desc |-> NoRequest]
  /\ result' = [h \in Desc |-> NoResult]
  /\ to_notify' = FALSE
  /\ UNCHANGED <<req_in_progress, req_desc, bf, at, last_used, handler>>

\* Zeroes the rings and gives their addresses and size to the device.
Setup ==
  /\ at = "guest"
  /\ ~ready
  /\ queue' = EmptyRings(queue)
  /\ ready' = TRUE
  /\ last_used' = 0
  /\ UNCHANGED <<req_in_progress, req_desc, bf, at, request, result, handler, to_notify>>

Submit(h, r) ==
  /\ at = "guest"
  /\ ready
  /\ request[h] = NoRequest
  /\ request' = [request EXCEPT ![h] = r]
  /\ queue' = AddAvail(queue, h)
  /\ to_notify' = TRUE
  /\ UNCHANGED <<req_in_progress, req_desc, bf, at, ready, result, last_used, handler>>

\* VIRTIO_MMIO_QUEUE_NOTIFY
Notify ==
  /\ at = "guest"
  /\ to_notify
  /\ to_notify' = FALSE
  /\ at' = "notify"
  /\ UNCHANGED <<queue, req_in_progress, req_desc, bf, ready, request, result,
                 last_used, handler>>

Ack ==
  /\ at = "guest"
  /\ handler = "idle"
  /\ queue.irq
  /\ queue' = InterruptAck(queue, queue.int_status)
  /\ handler' = "reaping"
  /\ UNCHANGED <<req_in_progress, req_desc, bf, at, ready, request, result,
                 last_used, to_notify>>

Reap ==
  /\ at = "guest"
  /\ handler = "reaping"
  /\ last_used # queue.used_idx
  /\ LET h == UsedDesc(queue, last_used)
     IN  /\ request' = [request EXCEPT ![h] = NoRequest]
         /\ result' = [result EXCEPT ![h] = NoResult]
  /\ last_used' = NextIdx(last_used)
  /\ UNCHANGED <<queue, req_in_progress, req_desc, bf, at, ready, handler, to_notify>>

ReapDone ==
  /\ at = "guest"
  /\ handler = "reaping"
  /\ last_used = queue.used_idx
  /\ handler' = "idle"
  /\ UNCHANGED <<queue, req_in_progress, req_desc, bf, at, ready, request, result,
                 last_used, to_notify>>

Driver ==
  \/ Reset \/ Setup \/ Notify \/ Ack \/ Reap \/ ReapDone
  \/ \E h \in Desc, r \in Requests : Submit(h, r)

-----------------------------------------------------------------------------
(* The device                                                              *)

\* virtio_block_req_end: data and status, or the status alone, go to the
\* descriptors, and the head to the used ring.
ReqEnd(q, h, status, data) ==
  /\ result' = [result EXCEPT ![h] = [status |-> status, data |-> data]]
  /\ queue' = ConsumeDesc(q, h)

\* The entry queue_notify looks at.
Taken == request[NextDesc(queue)]

Taking(types) ==
  /\ at = "notify"
  /\ HasAvail(queue)
  /\ Taken.type \in types

\* get_desc_rw_size fails on a writable descriptor before a readable one:
\* device_recv is not called.
SkipBad ==
  /\ Taking({"BAD"})
  /\ queue' = Advance(queue)
  /\ UNCHANGED <<req_in_progress, req_desc, bf, at, result, driver>>

\* drops the entry it refuses
RefuseAdvances ==
  /\ Taking({"IN", "OUT", "OTHER"})
  /\ req_in_progress
  /\ at' = "guest"
  /\ queue' = Advance(queue)
  /\ UNCHANGED <<req_in_progress, req_desc, bf, result, driver>>

\* device_recv refuses: the loop ends, the entry stays.
Refuse ==
  /\ Taking({"IN", "OUT", "OTHER"})
  /\ req_in_progress
  /\ at' = "guest"
  /\ UNCHANGED <<queue, req_in_progress, req_desc, bf, result, driver>>

\* takes the next request while one is in progress
AcceptsAlways == TRUE

Accepts == ~req_in_progress

\* A type other than IN and OUT: nothing happens, the entry is not consumed.
TakeOther ==
  /\ Taking({"OTHER"})
  /\ Accepts
  /\ queue' = Advance(queue)
  /\ req_desc' = NextDesc(queue)
  /\ UNCHANGED <<req_in_progress, bf, at, result, driver>>

\* read_async and write_async return 0 or less: they have been performed.
ReadNow ==
  /\ Taking({"IN"})
  /\ Accepts
  /\ req_desc' = NextDesc(queue)
  /\ ReqEnd(Advance(queue), NextDesc(queue), "OK", BfRead(bf, Taken.sector, Taken.n))
  /\ UNCHANGED <<req_in_progress, bf, at, driver>>

WriteNow ==
  /\ Taking({"OUT"})
  /\ Accepts
  /\ req_desc' = NextDesc(queue)
  /\ bf' = BfWrite(bf, Taken.sector, Taken.data)
  /\ ReqEnd(Advance(queue), NextDesc(queue),
            IF BfWriteFails(bf, Taken.sector, Taken.data) THEN "IOERR" ELSE "OK", <<>>)
  /\ UNCHANGED <<req_in_progress, at, driver>>

\* They return 1: virtio_block_req_cb will be called.
Later ==
  /\ bf.mode = "NET"
  /\ Taking({"IN", "OUT"})
  /\ Accepts
  /\ req_in_progress' = TRUE
  /\ req_desc' = NextDesc(queue)
  /\ queue' = Advance(queue)
  /\ UNCHANGED <<bf, at, result, driver>>

NotifyDone ==
  /\ at = "notify"
  /\ ~HasAvail(queue)
  /\ at' = "guest"
  /\ UNCHANGED <<queue, req_in_progress, req_desc, bf, result, driver>>

\* virtio_block_req_cb, from the main loop.  The buffer of a write was freed
\* when write_async returned: what is stored may be anything.
Completed ==
  LET r == request[req_desc]
  IN  \/ /\ r.type = "IN"
         /\ ReqEnd(queue, req_desc, "OK", BfRead(bf, r.sector, r.n))
         /\ UNCHANGED bf
      \/ /\ r.type = "OUT"
         /\ \E data \in [1 .. r.n -> Data] : bf' = BfWrite(bf, r.sector, data)
         /\ ReqEnd(queue, req_desc, "OK", <<>>)

\* does not look at the queue again
CallbackOnly ==
  /\ at = "guest"
  /\ req_in_progress
  /\ Completed
  /\ req_in_progress' = FALSE
  /\ UNCHANGED <<at, req_desc, driver>>

Callback ==
  /\ at = "guest"
  /\ req_in_progress
  /\ Completed
  /\ req_in_progress' = FALSE
  /\ at' = "notify"
  /\ UNCHANGED <<req_desc, driver>>

QueueNotify ==
  SkipBad \/ Refuse \/ TakeOther \/ ReadNow \/ WriteNow \/ Later \/ NotifyDone

Next == Driver \/ QueueNotify \/ Callback

Spec == Init /\ [][Next]_vars

\* The loop of queue_notify waits for nothing; the host answers; the driver
\* notifies what it has submitted.
BlockFairness ==
  /\ WF_vars(QueueNotify)
  /\ WF_vars(Callback)
  /\ WF_vars(Notify)

FairSpec == Spec /\ BlockFairness

-----------------------------------------------------------------------------
\* Types of queue, device and driver; an index stays below 2^16.
TypeOK ==
  /\ QueueTypeOK(queue)
  /\ req_in_progress \in BOOLEAN
  /\ req_desc \in Desc
  /\ BfTypeOK(bf, Mode \union {"NET"})
  /\ at \in {"guest", "notify"}
  /\ ready \in BOOLEAN
  /\ request \in [Desc -> Requests \union {NoRequest}]
  /\ result \in [Desc -> Result]
  /\ last_used \in Idx
  /\ handler \in {"idle", "reaping"}
  /\ to_notify \in BOOLEAN

\* While the guest runs, an entry of the avail ring that the driver has
\* notified is left only because a request is in progress, whose callback
\* will look at the queue again (queue_notify, virtio_block_req_cb).
NoStalledRequest ==
  at = "guest" /\ ready /\ HasAvail(queue) /\ ~to_notify => req_in_progress

\* The interrupt is up, for a reason the driver can read, until the driver
\* has acknowledged it and goes through the used ring, entries that are
\* added meanwhile included (virtio_consume_desc, VIRTIO_MMIO_INTERRUPT_ACK).
InterruptUntilSeen ==
  /\ ready /\ last_used # queue.used_idx /\ handler = "idle" => queue.irq
  /\ queue.irq <=> queue.int_status # {}

\* Nothing the guest writes reaches the file of a device opened read-only or
\* as a snapshot (bf_write_async).
FileUntouched ==
  [][bf.mode \in {"RO", "SNAPSHOT"} => bf'.file = bf.file]_vars

Tagged(heads) == [k \in DOMAIN heads |-> [tag |-> heads[k], req |-> request[heads[k]]]]
Answered(heads) == [k \in DOMAIN heads |-> [tag |-> heads[k], result |-> result[heads[k]]]]

NoneCurrent == [tag |-> Head0, req |-> NoRequest]

D == INSTANCE Disk WITH
  Tag <- Desc,
  Request <- Requests,
  Nothing <- NoneCurrent,
  disk <- [s \in Sector |-> BfSector(bf, s)],
  readonly <- bf.mode = "RO",
  queue <- IF ready
           THEN Tagged(Entries(queue.avail_ring, queue.last_avail_idx, queue.avail_idx))
           ELSE <<>>,
  current <- IF req_in_progress
             THEN [tag |-> req_desc, req |-> request[req_desc]]
             ELSE NoneCurrent,
  answers <- IF ready
             THEN Answered(Entries(queue.used_ring, last_used, queue.used_idx))
             ELSE <<>>

\* Rings, interrupt, snapshot and deferred requests together are a disk:
\* every request is taken in its turn, answered once and with its own data,
\* over any number of turns of the rings and across resets.
ImplementsDisk == D!Spec

\* A read or write submitted is answered, unless the driver resets the
\* device (queue_notify, virtio_block_req_cb).
Waiting(h) == request[h].type \in {"IN", "OUT"} /\ result[h] = NoResult
RequestsAnswered == \A h \in Desc : Waiting(h) ~> ~Waiting(h)
=============================================================================
