--------------------------- MODULE VirtioConsole ---------------------------
(***************************************************************************)
(* The virtio console (virtio.c) between a driver in the guest and the     *)
(* host's terminal, which the main loop (temu.c) polls between two slices  *)
(* of the guest: anywhere between two of the driver's accesses.            *)
(*                                                                         *)
(* What is typed, and what the guest writes, is numbered from 1.  The two  *)
(* queues and the configuration share one interrupt and one status word,   *)
(* of which rx and tx keep the share they have set.                        *)
(***************************************************************************)
EXTENDS VirtQueue, SequencesExt

CONSTANTS
  BufLen,       \* what the main loop reads at most in one round
  RxLen,        \* the lengths a receive buffer may have
  TermSize,     \* sizes the terminal may have, [cols, rows]
  ConsoleBounds \* [input, output, resizes]: how much of each there is at most

ASSUME BufLenAssumption == BufLen \in Nat
ASSUME RxLenAssumption == RxLen \subseteq Nat \ {0}
ASSUME TermSizeAssumption == TermSize \subseteq [cols : Nat, rows : Nat]
ASSUME BoundsAssumption == ConsoleBounds \subseteq [input : Nat, output : Nat, resizes : Nat]

VARIABLES
  (* the device *)
  rx, tx,
  config_change,    \* the bit of int_status
  size,             \* config_space
  busy,             \* "no" while the guest runs, "notify" within queue_notify,
                    \* "resize" before resize_pending is cleared
  (* the terminal *)
  left,             \* how much of each may still come
  taken,            \* how much read_data has returned
  term_size, resize_pending,
  printed,
  (* the driver *)
  rx_room, rx_data, \* head -> length of its buffer (0: not given), contents
  tx_data,          \* head -> what it is to print, <<>> when free
  rx_used, tx_used, \* its places in the used rings
  received, written,
  irq_step, irq_bits,   \* its interrupt handler, and the status it has read
  reading, known        \* its reading of the size: cols, then rows

consoleDevice == <<rx, tx, config_change, size, busy>>
terminal == <<left, taken, term_size, resize_pending, printed>>
rxDriver == <<rx_room, rx_data, rx_used, received>>
txDriver == <<tx_data, tx_used, written>>
irqDriver == <<irq_step, irq_bits>>
sizeDriver == <<reading, known>>
consoleVars == <<consoleDevice, terminal, rxDriver, txDriver, irqDriver, sizeDriver>>

ConfigChange == 2
IntStatus ==
  rx.int_status \union tx.int_status \union (IF config_change THEN {ConfigChange} ELSE {})
IrqLine == rx.irq \/ tx.irq \/ config_change

\* console_init asks for a resize; the driver is about to read the size.
ConsoleInit ==
  /\ rx = QueueInit /\ tx = QueueInit
  /\ config_change = FALSE
  /\ size = [cols |-> 0, rows |-> 0]
  /\ busy = "no"
  /\ left \in ConsoleBounds /\ taken = 0
  /\ term_size \in TermSize
  /\ resize_pending = TRUE
  /\ printed = <<>>
  /\ rx_room = [h \in Desc |-> 0] /\ rx_data = [h \in Desc |-> <<>>]
  /\ tx_data = [h \in Desc |-> <<>>]
  /\ rx_used = 0 /\ tx_used = 0
  /\ received = <<>> /\ written = 0
  /\ irq_step = "idle" /\ irq_bits = {}
  /\ reading = "cols" /\ known = size

-----------------------------------------------------------------------------
(* The driver                                                              *)

\* Outside its interrupt handler.
Running == busy = "no" /\ irq_step = "idle"

PostBuffer(h, n) ==
  /\ Running
  /\ rx_room[h] = 0
  /\ rx_room' = [rx_room EXCEPT ![h] = n]
  /\ rx' = AddAvail(rx, h)
  /\ UNCHANGED <<tx, config_change, size, busy, terminal, rx_data, rx_used, received,
                 txDriver, irqDriver, sizeDriver>>

WriteMessage(h, n) ==
  /\ Running
  /\ tx_data[h] = <<>>
  /\ n <= left.output
  /\ left' = [left EXCEPT !.output = @ - n]
  /\ tx_data' = [tx_data EXCEPT ![h] = [i \in 1 .. n |-> written + i]]
  /\ written' = written + n
  /\ tx' = AddAvail(tx, h)
  /\ UNCHANGED <<rx, config_change, size, busy, taken, term_size, resize_pending, printed,
                 rxDriver, tx_used, irqDriver, sizeDriver>>

NotifyTx ==
  /\ Running
  /\ HasAvail(tx)
  /\ busy' = "notify"
  /\ UNCHANGED <<rx, tx, config_change, size, terminal, rxDriver, txDriver, irqDriver, sizeDriver>>

\* The handler reads the status, writes it to the acknowledge register, and
\* goes through the used rings; the size is read later, one half at a time.
ReadStatus ==
  /\ Running
  /\ IrqLine
  /\ irq_step' = "acking"
  /\ irq_bits' = IntStatus
  /\ UNCHANGED <<consoleDevice, terminal, rxDriver, txDriver, sizeDriver>>

\* clears the status as a whole
AcknowledgeAll(bits) ==
  /\ rx' = InterruptAck(rx, {UsedBuffer})
  /\ tx' = InterruptAck(tx, {UsedBuffer})
  /\ config_change' = FALSE

Acknowledge(bits) ==
  /\ rx' = InterruptAck(rx, bits)
  /\ tx' = InterruptAck(tx, bits)
  /\ config_change' = (config_change /\ ConfigChange \notin bits)

AckStatus ==
  /\ busy = "no"
  /\ irq_step = "acking"
  /\ Acknowledge(irq_bits)
  /\ irq_step' = "reaping"
  /\ irq_bits' = {}
  /\ reading' = IF ConfigChange \in irq_bits THEN "cols" ELSE reading
  /\ UNCHANGED <<size, busy, terminal, rxDriver, txDriver, known>>

ReapRx ==
  /\ busy = "no"
  /\ irq_step = "reaping"
  /\ rx_used # rx.used_idx
  /\ LET h == UsedDesc(rx, rx_used)
     IN  /\ received' = received \o rx_data[h]
         /\ rx_data' = [rx_data EXCEPT ![h] = <<>>]
         /\ rx_room' = [rx_room EXCEPT ![h] = 0]
  /\ rx_used' = NextIdx(rx_used)
  /\ UNCHANGED <<consoleDevice, terminal, txDriver, irqDriver, sizeDriver>>

ReapTx ==
  /\ busy = "no"
  /\ irq_step = "reaping"
  /\ rx_used = rx.used_idx
  /\ tx_used # tx.used_idx
  /\ tx_data' = [tx_data EXCEPT ![UsedDesc(tx, tx_used)] = <<>>]
  /\ tx_used' = NextIdx(tx_used)
  /\ UNCHANGED <<consoleDevice, terminal, rxDriver, written, irqDriver, sizeDriver>>

HandlerDone ==
  /\ busy = "no"
  /\ irq_step = "reaping"
  /\ rx_used = rx.used_idx /\ tx_used = tx.used_idx
  /\ irq_step' = "idle"
  /\ UNCHANGED <<consoleDevice, terminal, rxDriver, txDriver, irq_bits, sizeDriver>>

ReadSize ==
  /\ Running
  /\ reading # "no"
  /\ known' = [known EXCEPT ![reading] = size[reading]]
  /\ reading' = IF reading = "cols" THEN "rows" ELSE "no"
  /\ UNCHANGED <<consoleDevice, terminal, rxDriver, txDriver, irqDriver>>

ConsoleDriver ==
  \/ \E h \in Desc, n \in RxLen : PostBuffer(h, n)
  \/ \E h \in Desc, n \in RxLen : WriteMessage(h, n)
  \/ NotifyTx \/ ReadStatus \/ AckStatus \/ ReapRx \/ ReapTx \/ HandlerDone \/ ReadSize

-----------------------------------------------------------------------------
(* The device and the main loop                                            *)

\* queue_notify, virtio_console_recv_request: written out at once, never refused.
PrintNext ==
  /\ busy = "notify"
  /\ HasAvail(tx)
  /\ printed' = printed \o tx_data[NextDesc(tx)]
  /\ tx' = ConsumeDesc(Advance(tx), NextDesc(tx))
  /\ UNCHANGED <<rx, config_change, size, busy, left, taken, term_size, resize_pending,
                 rxDriver, txDriver, irqDriver, sizeDriver>>

NotifyTxDone ==
  /\ busy = "notify"
  /\ ~HasAvail(tx)
  /\ busy' = "no"
  /\ UNCHANGED <<rx, tx, config_change, size, terminal, rxDriver, txDriver, irqDriver, sizeDriver>>

can_write_data == HasAvail(rx)

\* offers the room of the main loop's buffer
WriteLenUnasked(n) == IF HasAvail(rx) THEN n ELSE 0

\* virtio_console_get_write_len, and the main loop's limit
WriteLen(n) ==
  IF ~HasAvail(rx) THEN 0
  ELSE IF rx_room[NextDesc(rx)] < n THEN rx_room[NextDesc(rx)] ELSE n

\* memcpy_to_queue: as much as the buffer takes.
Fitting(h, data) ==
  SubSeq(data, 1, IF Len(data) < rx_room[h] THEN Len(data) ELSE rx_room[h])

write_data(data) ==
  LET h == NextDesc(rx)
  IN  /\ rx_data' = [rx_data EXCEPT ![h] = Fitting(h, data)]
      /\ rx' = Advance(ConsumeDesc(rx, h))

\* virt_machine_run: a new size is told, and input read, only while the guest
\* has given a receive buffer.
TellSize ==
  /\ busy = "no"
  /\ can_write_data
  /\ resize_pending
  /\ size' = term_size
  /\ config_change' = TRUE
  /\ busy' = "resize"
  /\ UNCHANGED <<rx, tx, terminal, rxDriver, txDriver, irqDriver, sizeDriver>>

ResizeTold ==
  /\ busy = "resize"
  /\ resize_pending' = FALSE
  /\ busy' = "no"
  /\ UNCHANGED <<rx, tx, config_change, size, left, taken, term_size, printed,
                 rxDriver, txDriver, irqDriver, sizeDriver>>

PollInput ==
  /\ busy = "no"
  /\ \E n \in 1 .. WriteLen(BufLen) :
       /\ n <= left.input
       /\ write_data([i \in 1 .. n |-> taken + i])
       /\ taken' = taken + n
       /\ left' = [left EXCEPT !.input = @ - n]
  /\ UNCHANGED <<tx, config_change, size, busy, term_size, resize_pending, printed,
                 rx_room, rx_used, received, txDriver, irqDriver, sizeDriver>>

\* The signal handler: between any two steps of the main loop.
Resize(new) ==
  /\ left.resizes > 0
  /\ new # term_size
  /\ term_size' = new
  /\ resize_pending' = TRUE
  /\ left' = [left EXCEPT !.resizes = @ - 1]
  /\ UNCHANGED <<consoleDevice, taken, printed, rxDriver, txDriver, irqDriver, sizeDriver>>

ConsoleHost ==
  \/ PrintNext \/ NotifyTxDone \/ TellSize \/ ResizeTold \/ PollInput
  \/ \E new \in TermSize : Resize(new)

ConsoleNext == ConsoleDriver \/ ConsoleHost

ConsoleSpec == ConsoleInit /\ [][ConsoleNext]_consoleVars

-----------------------------------------------------------------------------
\* Types of the two queues, terminal and driver.
ConsoleTypeOK ==
  /\ QueueTypeOK(rx) /\ QueueTypeOK(tx)
  /\ config_change \in BOOLEAN
  /\ size \in [cols : Nat, rows : Nat]
  /\ busy \in {"no", "notify", "resize"}
  /\ left \in [input : Nat, output : Nat, resizes : Nat]
  /\ taken \in Nat
  /\ term_size \in TermSize
  /\ resize_pending \in BOOLEAN
  /\ printed \in Seq(Nat)
  /\ rx_room \in [Desc -> Nat]
  /\ rx_data \in [Desc -> Seq(Nat)] /\ tx_data \in [Desc -> Seq(Nat)]
  /\ rx_used \in Idx /\ tx_used \in Idx
  /\ received \in Seq(Nat)
  /\ written \in Nat
  /\ irq_step \in {"idle", "acking", "reaping"}
  /\ irq_bits \in SUBSET {UsedBuffer, ConfigChange}
  /\ reading \in {"cols", "rows", "no"}
  /\ known \in [cols : Nat, rows : Nat]

Upto(n) == [i \in 1 .. n |-> i]
Contents(data, heads) == FlattenSeq([k \in DOMAIN heads |-> data[heads[k]]])

\* Nothing typed is lost, cut or told twice between the terminal and the guest,
\* whatever the length of its buffers, and nothing the guest writes on the way
\* out (get_write_len, write_data, queue_notify, the main loop).
ConsoleKeepsStreams ==
  /\ received \o Contents(rx_data, Entries(rx.used_ring, rx_used, rx.used_idx)) = Upto(taken)
  /\ printed \o Contents(tx_data, Entries(tx.avail_ring, tx.last_avail_idx, tx.avail_idx))
       = Upto(written)

\* However a resize falls between the driver's reading of status, columns and
\* rows, a driver with nothing left to handle knows the size the device shows
\* (virtio_console_resize_event, VIRTIO_MMIO_INTERRUPT_ACK).
SizeIsCurrent ==
  irq_step = "idle" /\ reading = "no" /\ ~config_change => known = size
=============================================================================
