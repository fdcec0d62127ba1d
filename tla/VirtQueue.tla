----------------------------- MODULE VirtQueue -----------------------------
(***************************************************************************)
(* A virtqueue (virtio.c): the rings that a driver and a device share in   *)
(* guest memory, the device's place in the avail ring, and the interrupt   *)
(* it raises.  An operator takes the queue and returns it after the call.  *)
(*                                                                         *)
(* A chain of descriptors is named by the index of its head; what it says  *)
(* is kept by the modules that use the queue.  The indices of the rings    *)
(* are counted modulo IdxSpace (2^16 in the code) and reduced modulo the   *)
(* number of entries, a power of two, when an entry is looked up.          *)
(***************************************************************************)
EXTENDS Integers, Sequences

CONSTANTS
  QueueNum,   \* qs->num, the entries of each ring
  IdxSpace    \* number of values of an index, 2^16

ASSUME QueueNumAssumption == QueueNum \in Nat \ {0}
ASSUME IdxSpaceAssumption ==
  IdxSpace \in Nat /\ IdxSpace > QueueNum /\ IdxSpace % QueueNum = 0

Head0 == 0              \* what memory holds before a driver writes it
Desc == 0 .. QueueNum - 1
Idx == 0 .. IdxSpace - 1
UsedBuffer == 1         \* bit of int_status

NextIdx(i) == (i + 1) % IdxSpace
Slot(i) == i % QueueNum

\* The guest's part: both rings as a driver sets them up.
EmptyRings(q) ==
  [q EXCEPT !.avail_idx = 0, !.avail_ring = [i \in Desc |-> Head0],
            !.used_idx = 0,  !.used_ring = [i \in Desc |-> Head0]]

\* The device's part after virtio_reset, and the line lowered with it.
VirtioReset(q) ==
  [q EXCEPT !.last_avail_idx = 0, !.int_status = {}, !.irq = FALSE]

QueueInit ==
  [avail_idx |-> 0, avail_ring |-> [i \in Desc |-> Head0],
   used_idx |-> 0,  used_ring |-> [i \in Desc |-> Head0],
   last_avail_idx |-> 0, int_status |-> {}, irq |-> FALSE]

-----------------------------------------------------------------------------
(* The device                                                              *)

\* The condition of queue_notify's loop, the entry it looks at, and its end.
HasAvail(q) == q.last_avail_idx # q.avail_idx
NextDesc(q) == q.avail_ring[Slot(q.last_avail_idx)]

Advance(q) == [q EXCEPT !.last_avail_idx = NextIdx(@)]

\* sets the status but not the line
ConsumeDescSilent(q, desc) ==
  [q EXCEPT !.used_idx = NextIdx(@),
            !.used_ring[Slot(q.used_idx)] = desc,
            !.int_status = @ \union {UsedBuffer}]

\* virtio_consume_desc, but for the length it stores with the head.
ConsumeDesc(q, desc) ==
  [q EXCEPT !.used_idx = NextIdx(@),
            !.used_ring[Slot(q.used_idx)] = desc,
            !.int_status = @ \union {UsedBuffer},
            !.irq = TRUE]

\* VIRTIO_MMIO_INTERRUPT_ACK
InterruptAck(q, bits) ==
  LET left == q.int_status \ bits
  IN  [q EXCEPT !.int_status = left, !.irq = @ /\ left # {}]

-----------------------------------------------------------------------------
(* The driver, as Linux's virtio_ring                                      *)

AddAvail(q, desc) ==
  [q EXCEPT !.avail_ring[Slot(q.avail_idx)] = desc, !.avail_idx = NextIdx(@)]

UsedDesc(q, last_used) == q.used_ring[Slot(last_used)]

-----------------------------------------------------------------------------
QueueTypeOK(q) ==
  q \in [avail_idx : Idx, avail_ring : [Desc -> Desc],
         used_idx : Idx,  used_ring : [Desc -> Desc],
         last_avail_idx : Idx, int_status : SUBSET {UsedBuffer}, irq : BOOLEAN]

\* The entries of a ring from one index to another, in order.
Entries(ring, from, to) ==
  [k \in 1 .. (to - from) % IdxSpace |-> ring[Slot(from + k - 1)]]
=============================================================================
