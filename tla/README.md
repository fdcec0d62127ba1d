# esp32-tinyemu in TLA+

This directory models the emulator kept in `src/`: a port of TinyEMU's RISC-V
system emulator to small boards, whose RAM is paged between a few page frames,
himem and a page file. The modules follow the code in `src/lib` and
`src/src/temu.c`; TLC checks small instances of them, and TLAPS proves what is
proved here for every size.

Read it in this order: the inventory of the system, the modules and how they
correspond to the code, what the runs check, what is proved, and what is left out.

## 1. The system

One thread does everything. `virt_machine_run` (`src/src/temu.c`) goes round for
ever: look at the timer, wait for input for at most the time the CPU may sleep,
hand input to the devices, interpret up to 500 000 instructions. The guest's
instructions read and write the RAM and the devices' registers; a device answers
within the access, raises a line of the interrupt controller, or waits for the
main loop. Concurrency is therefore that of the guest and the world outside: a
guest may execute anything at any level; input, time, the ends of transfers and the
host's sockets come between any two rounds.

    temu.c  virt_machine_run
      |  get_sleep_duration     select, console, net        virt_machine_interp
      v                                 v                          v
    riscv_machine.c: CLINT (timecmp), PLIC  <--set_irq--  virtio.c devices
      |  set_mip / reset_mip                                  ^    |
      v                                             MMIO, DMA |    v
    riscv_cpu.c, riscv_cpu_template.h --------------------+   block files, block_net,
      |  get_phys_addr, then a range of iomem.c               fs_net, slirp, console
      v
    VMM  ->  page_cache  ->  himem blocks, page file
      each over  direct_cache + lru_cache (list, memory_indexer over avltree)

`src/lib/tinyemu/library.json` leaves slirp, the file systems and `block_net.c` out of
the firmware's build; `src/src/temu.c` has the calls of all of them, and they are
the parts of this code with the most concurrency. They are modelled as the source
has them, behind the devices of `virtio.c`.

### Components

| Component | State | Operations | Hard behaviour | What makes it correct |
|---|---|---|---|---|
| direct_cache | one line per cell: key, pointer | get, set, remove | an empty line is told by a key of the next cell; a line outlives the page | a hit is what the LRU cache would answer |
| lru_cache over list | list, map, counter, gets of an item | add, get, remove, sync, flush_items | only every 100th get moves an item; list, map and counter must agree | an item in use is not evicted before an idle one |
| memory_indexer over avltree | a balanced tree with parent links | set, get, remove, walk, free | a removal exchanges nodes and rotates at several levels | a balanced search tree that answers as a map |
| page_cache over HimemAllocator | page -> block, item -> page, blocks handed out | get, set with eviction | a block changes hands: both caches must forget the old page first | it is a memory of pages |
| VMM | page -> frame, frames with dirty flag, counter, page cache, page file | read, write, flush, destroy | three copies of a page, two evictions in one fault, accesses across pages | it is a memory |
| RISC-V privileged state | level, mstatus stacks, mip, mie, delegation, power_down | CSR writes, traps, returns, wfi, set_mip, reset_mip | nested traps, windows on registers, wfi against an interrupt | traps undone exactly; machine state out of the supervisor's reach; no lost wakeup |
| RISC-V instructions, floating point | registers, fcsr | decode, execute | scattered immediates, roundings, flags, boundaries | what the ISA and IEEE 754 say |
| RISC-V machine | CLINT timecmp, PLIC pending and served | MMIO, set_irq, timer check | timecmp in halves, claim against raise, signed difference | lines agree with mip |
| main loop and interpreter loop | where it is, budget, block | check, poll, interpret | budget and interrupts looked at only between blocks | devices never wait for more than a budget and a block |
| MMU | page tables in RAM, satp, mstatus.MPRV, SUM, MXR | page walk, A and D bits | a block keeps its code address; stores over two pages | what changed is marked; code is current |
| LR/SC | load_res | lr, sc | the reservation outlives a trap | an sc that succeeds saw its lr's value last |
| iomem | ranges, two dirty bitmaps | register, find, dirty bits | bitmaps alternate | a page written is reported once |
| virtio transport | queues, interrupt status, configuration | MMIO registers, notify, consume, reset | driver and device share rings, interrupt status and configuration | no entry and no interrupt is lost |
| virtio block | request in progress | read, write, completion | completion re-enters the queue | it is a disk |
| virtio console, consoles | the two queues, size, resize pending | read, write, resize | input read before its buffer is looked up again; two interrupts in one word | what is typed arrives once and in order |
| virtio input | events in the queue, buttons, configuration | key, mouse, tablet events, queries | a full queue in the middle of an event | the guest learns of every button |
| virtio 9P, fs_net, fs_wget | fids, inodes with two counts, cache, transfers | the 9P requests, loads, archives | opens wait for transfers whose callbacks answer further requests | it is one file server |
| virtio net | receive ring | packets from slirp | no buffer for a packet | see slirp |
| block device files | sector table, mode | read, write | snapshot over a read-only file | a disk |
| HTTP block device | cached blocks, clusters, prefetch | read, write, transfers | blocks come in any order and go; callbacks nest | a block that comes is awaited; a disk that serves |
| slirp: TCP | control block, two buffers, socket | segments, timers, poll | loss, windows, closing from both ends | streams intact; the connection ends |
| slirp: IP, UDP, ping, DHCP | reassembly queues, sockets, leases, two packet queues | packets, timeouts, poll | overlapping fragments, reused ids, fairness of sessions | datagrams whole, answers to who asked |
| virtual_directory | current directory | chdir, cwd, normalisation | relative after absolute paths | the path a shell would reach |
| configuration, log, SD mount, FDT | none that lasts | run once at start | none | |
| aes, sha256 | none | pure functions | word arithmetic | |
| x86, PC devices, SDL, JS, image tools | | | not built, or a stub, in this port | |

`PROJECT.json` lists each with what is modelled of it, and under "hazards" the
places in the code that a test would hardly reach, with the properties that watch
them. A hazard without a property says why.

## 2. The modules

A module of operators on a record stands for a C library whose state is a struct:
the operator takes the struct and returns it after the call. A module with
VARIABLES drives such operators the way the program does.

| Module | Models | Kind |
|---|---|---|
| `PageIndex` | `direct_cache.c`; `lru_cache.c` with the list as a sequence and the indexer as a function; the pair of them as `vmm.c` and `page_cache.c` use it | operators |
| `LruUse` | any legal caller of an LRU cache, with two ghosts that record the uses | specification |
| `MemoryIndexer` | `avltree.c` node by node, `memory_indexer.c` over it, any caller | specification |
| `PageCache` | `page_cache.c`, himem blocks, page file | operators |
| `PageStore` | the page cache driven by `backing_store_read` and `backing_store_write` | specification |
| `Vmm` | `vmm.c` | specification |
| `Ram` | what a memory promises | abstract specification |
| `RiscvCpu` | `riscv_cpu.c`: set_mip, interrupts, raise_exception2, sret, mret, csr_write; the privileged instructions of any guest, and devices that set bits of mip | specification |
| `RiscvContext` | `RiscvCpu` with the contexts that traps saved, as an auxiliary variable | specification |
| `RiscvMachine` | `riscv_machine.c`, the loop of `virt_machine_run` and of `riscv_cpu_interp_x32` | specification, composes `RiscvCpu` |
| `RiscvMmu` | `riscv_cpu.c`: get_phys_addr, loads and stores; the interpreter's code block | specification |
| `RiscvInteger`, `RiscvFpu` | `riscv_cpu_template.h`, `riscv_cpu.c`, `riscv_cpu_fp_template.h`: which instruction a word is, and what it does | operators |
| `SoftFloat` | `softfp_template.h`, `softfp_template_icvt.h`, for any format | operators |
| `RiscvIsa` | the instructions as the ISA manual and IEEE 754 define them, on integers and exact rationals | reference definitions |
| `VirtQueue` | `virtio.c`: the rings, virtio_reset, virtio_consume_desc, the interrupt | operators |
| `VirtioBlock` | `virtio.c`: queue_notify, virtio_block_recv_request, virtio_block_req_cb, and a driver; `temu.c`: BlockDeviceFile in its three modes | specification over `VirtQueue` |
| `Disk` | what a disk behind a queue promises | abstract specification |
| `VirtioConsole` | `virtio.c`, `temu.c`: the console device, the main loop's part in it, and a driver | specification |
| `VirtioInput` | `virtio.c`: keyboard, mouse and tablet, and a driver | specification |
| `FsNet` | `fs_net.c`: inodes, names, files; loads, cache, archives, and `fs_wget.c` | operators |
| `Virtio9p` | `virtio.c`: the 9P device over `FsNet`, and a client | specification, composes `VirtQueue` and the above |
| `FileServer` | what a file server promises | abstract specification |
| `BlockNet` | `block_net.c` behind the virtio block device | specification, refines `Disk` |
| `SlirpTcp` | `socket.c`, `sbuf.c`, `tcp_input.c`, `tcp_output.c`, `tcp_subr.c`, `tcp_timer.c` | operators |
| `SlirpNet` | the rounds of `slirp.c` with a guest's TCP, a link and an application of the host | specification |
| `SlirpIp` | `ip_input.c`, `ip_output.c`; `if.c` and the receive ring of virtio net | operators |
| `SlirpUdp` | `udp.c`, `ip_icmp.c`, `bootp.c` and the rounds of `slirp.c` with a guest and hosts | specification over `SlirpIp` |
| `MC...` | constants of the runs | instances |
| `...Proofs` | theorems of the module they are named after; `RiscvProofs` are those of `RiscvCpu`, `RiscvContext` and `RiscvMachine`, `MemoryProofs` those of `Vmm`, `PageStore`, `PageCache`, `PageIndex` and `LruUse`, `VirtioDeviceProofs` of the block device, console and input, `Virtio9pProofs` also of `FsNet`, `SlirpUdpProofs` also of `SlirpIp`; `VirtQueueProofs` has the rings' lemmas | proofs |

Three of the instances join specifications that share no state (`MCContainers`,
`MCVirtioDevices`, `MCHttpStorage`); a variable `part` says which of them a behaviour
is about. Each part has the whole of its own next-state relation.

### Paged memory

A VMM piece is an action: `WriteInternal` and `ReadInternal` are one call of
`vmm_write_internal` or `vmm_read_internal`, with the whole page fault in it,
`get_TLB`, `find_empty_TLB` with its eviction through `lru_cache_remove` and the
flush callbacks down to the file, `new_vmtable`, and `backing_store_read`. An
access over several pages takes several actions, in the order of the addresses,
and the next access starts when it is done, as in the code. `vmm_flush` and
`vmm_destroy` are one action per iteration of their loops. `malloc` returns any
entry that is not in use, and what it leaves uninitialised is chosen freely: the
dirty flag of a new entry (`new_vmtable` does not set it), the contents of himem,
the value of an empty line of a direct cache.

Abstracted: a page number is the address divided by the page size; a byte has two
values; the gets of an item are counted modulo LRU_MARKING, which is all the code
looks at; keys stand for list nodes. The constants `PageCacheCells` and
`TlbCells` are at least two: with one cell the empty line would be taken for
page 1.

`MemoryIndexer` keeps the tree as the code does, a left, right and parent link and a
balance factor of two bits per node, and climbs, rotates and exchanges nodes in the
code's order. To `PageIndex` it is a map, which `AnswersLikeAMap` justifies.

### RISC-V

`RiscvCpu` lets the guest do anything: write any value of a set to any of the
modelled CSRs, return, trap, sleep, at whatever level it is at, as far as the
level checks of the code allow. Registers of interrupt bits are sets of interrupt
numbers; `mstatus` is a record of its fields. `raise_exception2` saves the enable
of the level it interrupts, `mstatus.ie[priv]`, as the code does. Left out are the
registers that only carry data (epc, cause, tval, tvec), counters, FS and the
fields for XLEN and the MMU.

`RiscvContext` adds no behaviour: it remembers, per level that handles traps, what
the last trap to it found, until software rewrites the fields of mstatus that
hold it or returns. `ContextImplementsCpu` proves that it only observes.

`RiscvMachine` is the program counter of the main thread (`at`), the budget
(`cycles`), the instructions left in the block being interpreted (`left`) and the
devices. A block is a run of instructions in one code page, of any length up to
`MaxBlock`; the code looks at interrupts and at the budget only when a new one is
fetched. `Main` is one step of the thread, `Tick` is the RTC. `Irqs` are raised by
`PollDevice` (input from the main loop) and raised or lowered by an access of the
guest (`Mmio`), for a virtio device acts inside the access.

`RiscvMmu` has two levels of tables with two entries each, in RAM the guest writes,
and the code block the interpreter keeps: `block` is the physical page it fetches
from without another walk. The port walks the tables on every access; the arrays of
its TLBs are only flushed, and are not in the model. The only rule on the guest is
that a supervisor saves the pages of an entry with D set before it clears the bit:
`saved` is what it has saved. `recent` is what the program counter has stood for since the
last fence, as a fetch without one may use any of it.

The instructions are operators on a state of registers, one action of
`MCRiscvInstructions` each. `SoftFloat` has the widths of exponent and mantissa as
parameters, as the template of the code has: formats of a few bits are then run over
all their boundaries, where a lost sticky bit or a wrong tie shows in a few operands
of thousands. `RiscvIsa` computes the exact rational, or the square root, and rounds
it once.

### The block device

`VirtioBlock` puts a driver and the device around the two rings in guest memory. The
guest runs (`at` is "guest") until it writes QUEUE_NOTIFY; then each action is one
turn of queue_notify's loop, with everything device_recv does in it: an entry
skipped because its descriptors are out of order, refused because a request is in
progress, dropped because its type is unknown, performed at once or begun. The guest
does not run inside a notification, as in the code. `Callback` is
virtio_block_req_cb, which ends the request in progress and enters the loop again.

A chain of descriptors is its head; `request` says what it asks for and `result`
what the device has written to it. `IdxSpace` stands for 2^16. The data of a sector
are one value, and a chain has the room its request needs. Mode "NET" is any device
that may answer later. `write_async` gets a buffer that is freed on return, so a late
write stores any data; `Disk` accordingly promises nothing of what a deferred write
leaves in its sectors.

The driver is external. It follows the rules a driver has to: it does not use a head
again before it is returned, does not reset the device while a request is in
progress (virtio_reset would forget the rings and not the request), acknowledges
the interrupt before it looks at the used ring, and asks for sectors the device
has. It may send requests of unknown type or malformed chains, submit while the
device works, and set up and reset the queue again and again.

`BlockNet` is such a device, `block_net.c`: blocks are loaded when a request meets
one that is not there, kept in a list of limited length, or fetched ahead by the
prefetch in groups; written sectors live in clusters and are never sent. Transfers
end in any order. The block that ends a wait continues the request inside its
callback, which may answer the guest and take the next request before the rest of
its group is looked at (`group`, `notifying`). The turns of the loop in `bf_rw_async1`, a cluster
or a block each, are a fold over the sectors of the request. Where the block of a sector is in the
cache but its cluster is not written, the code copies to the end of the block without
a look at the clusters that follow; the model does the same (see the findings), and `ImplementsNetDisk`
is about reads that go from no cluster to another of the same block.

### Console and input

`VirtioConsole` numbers what is typed and what is printed. `PollInput` is the main
loop's part between two slices of the guest: how much the descriptor at hand takes,
the read, the descriptor found again, the write. The resize flag, the configuration
interrupt and the two queues share one status word, of which the driver reads and
acknowledges in two steps; the terminal may change its size at any moment.

`VirtioInput` queues an event entry by entry until the ring is full, as
`virtio_input_queue_event` does. The driver asks for the supported codes first, and
ignores others as Linux does. Buttons that were told in an event then cut short are
`unsure` until they are told again.

### 9P

`Virtio9p` has one action per turn of queue_notify, with the whole request in it; an
open whose file has to be fetched leaves `req_in_progress` set, refuses what follows,
and is answered by `fs_open_cb`, which runs queue_notify again. `FsNet` has the inodes with
both counts, so that an inode is freed where the code frees it. A transfer ends with
the file or without (`TransferEnds`); an archive's end goes through its members one turn at
a time (`LoopTurn`), because each may call back and change the list the loop is in.
`broken` is set where the code would fail an assertion or go on in a freed list:
nothing is claimed of what comes after. The clients of the run do not bring it about; where
others could is among the behaviour listed at the end.

The client keeps the rules of a kernel's 9P client: it does not use a fid while a request that
may end its use is out, changes names one at a time, and does not move a directory
below itself. `FileServer` knows nothing of transfers: every file is at hand, and a request
is one step from the state to an answer. `ImplementsFileServer` is that refinement.

### slirp

`SlirpTcp` follows the routines of BSD's TCP as slirp has them, on a record of the
control block and the socket. Sequence numbers are modulo `SeqSpace`, windows modulo
`WinMod`, both small enough to wrap. `SlirpNet` adds what surrounds it: a link of a
few segments each way that may lose them, a guest's TCP with its own window, probes
and timeouts, which may send data past slirp's window, and an application of the host that reads slowly and closes when it
likes. Each step of `slirp_select_poll` (connect, write, read, delayed ACKs, slow timer)
is an action.

`SlirpUdp` is everything else a guest may send: fragments in any order with
reassembly and its timer, UDP sockets found, made and expired, pings, DHCP and ARP; the host
answers or fails. A unit of data is its datagram and place, so a mixture of two datagrams
is seen as one; what the guest sends besides ARP are non-empty parts of its datagrams. A datagram
for which `socreate` finds no memory for a socket is dropped. Packets to the guest wait in the two queues of `if.c` and are dropped when the
ring has no buffer, as `virtio_net_write_packet` does. An error about a datagram whose send
failed is built from a header read 28 bytes before the packet (`BackupError`): its address is
"garbage", or nothing is sent.

## 3. What is checked

Each run answers one question; `PROJECT.json` has the list.

| Run | Instance | States | Shows |
|---|---|---|---|
| `containers` | LRU_MARKING 3: an LRU cache of 3 keys, 2 values; a tree of 10 keys; a page cache of 4 pages, 2 blocks, 2 cells | 164 813 | an item got LRU_MARKING times since another was last pushed is not evicted before it; the tree is a balanced search tree and answers like a map; the page cache refines `Ram` |
| `vmm` | 3 pages of a byte, 2 frames, 1 block, 2-cell direct caches, symmetry of frames | 458 090 | no dangling entry, refines `Ram` |
| `vmm_bytes` | pages of 2 bytes, 1 frame | 105 912 | accesses of part of a page and across pages refine `Ram` |
| `riscv_context` | one delegable and one machine interrupt, page faults | 121 610 | traps undone exactly, interrupts respect enables |
| `riscv_machine` | the timer and one source, timecmp of two 1-bit halves, budget and block of 2 | 205 304 | lines of CLINT and PLIC agree with mip; timers fire, sleepers wake, interrupts let through are taken |
| `riscv_timer` | as `riscv_machine` | stops at the counterexample | a timecmp of 2^63 or more fires at once |
| `riscv_instructions` | floats of 8 and 14 bits, words of 8 bits, all 49 152 compressed words; 4 virtual and 2 physical pages | 1 011 938 | each instruction is the ISA's; stores are marked; code is current |
| `virtio_devices` | rings of 2, indices modulo 4: 2 sectors and 5 requests in all modes; 4 bytes in, 3 out, a resize; 4 event buffers, indices modulo 8, 2 buttons, a key, 3 kinds | 1 055 130 | nothing stalls, no interrupt is lost, refines `Disk`, requests are answered; the console keeps its streams and its size; the guest learns of every button |
| `http_disk` | as `http_storage`, with a read of a whole block | stops at the counterexample | a read over a written cluster returns the image |
| `http_storage` | 4 clients of 7 or 8 requests on 3 files, one an archive, a cache of 3 bytes; 3 blocks of 4 sectors, clusters of 2, a cache of one block, 3 requests of 7 kinds, 4 prefetch lists | 259 950 | counts match references, open files are present, refines `FileServer`, requests are answered; a block that comes is awaited, the disk over HTTP refines `Disk` for reads within clusters, and answers |
| `slirp_tcp` | 9 connections of up to 4 bytes each way, opened by either end, with a fault or none, one whose guest overruns the window; buffers of 4 and 2, sequence numbers modulo 16, a long of 32 bits | 381 652 | streams arrive intact if no FIN is sent past the window, nothing acknowledged is lost, windows are storable, the connection ends |
| `slirp_udp` | 11 guests of up to 5 frames, 2 sockets, 2 leases, 2 receive buffers | 157 122 | datagrams arrive once and whole, answers reach the asker, sessions stay in order, addresses are distinct, nothing stays behind |

Why the bounds are enough. The paged memory: more pages than frames and blocks
together, so that a fault evicts at both levels and a page returns from the file;
two cells for more pages, so that lines collide; fewer LRU gets to a move than
accesses, so that both outcomes happen. The VMM with one block makes every second
eviction evict in the page cache too. A tree of ten keys has four levels, and a
removal that rotates at two of them. The CPU: both kinds of interrupt, delegated
or not, both handlers, all four values of mpp, and every order of traps, since the
instance has no bound on their number. The machine: two halves of one bit each
have every relation to the time that 32-bit ones have, including a set top bit,
which the signed reading turns on; a budget shorter than, equal to or longer than
a block. Floats: every exponent at which a case changes, with the mantissas around
the tie and the carry; the wide format has more than twice the mantissa of the narrow
one, as double has of single. The MMU: a page with two addresses, a superpage, an entry
that may be taken away, and a last page that a store may cross; jumps,
traps and returns lead to that page, and the other pages are reached by running on. The devices: the rings can be full, the indices wrap,
requests overlap in their sectors, and requests that are dropped come before and
after good ones; an event of the mouse is longer than the buffers left; the console's
buffers are shorter than what is typed. 9P: the cache holds less than the files, an open file is
dropped by nothing, an archive brings a file that is being opened and one that has been
removed meanwhile; each client keeps to one part of the file system because the requests
are bounded, not the interleavings. The HTTP disk: one cached block for three, requests over two
blocks, and a group with a block that is already wanted. TCP: windows of nought and one,
data longer than both buffers, a lost segment at any place, FINs in either order, wrapping
sequence numbers; more faults than one in a connection are left out, and so are first
sequence numbers of the guest below half the number space, which matter only for a SYN repeated to
a socket whose `connect` met an error that passes: it is old there, and beyond the window here. UDP: fragments that overlap
on both sides, two datagrams under one id, an answer of more fragments than the ring has buffers.

Each property has a mutant, a faulty version of a definition kept beside it in the
module (`FreeVmtableUnflushed`, `SetMipNoWakeup`, ...), with which the run finds the
property violated.

### Fairness

Nothing is assumed of a guest's programs: they may loop, sleep with everything disabled or
rewrite a timer for ever. The liveness properties are stated so that they hold
nevertheless. What is assumed, per run:

- `riscv_machine`: weak fairness of `Main`, for the loop of `virt_machine_run` never blocks
  for longer than the delay of `select` and nothing else runs on the thread, and of
  `Tick`, for `main` (`temu.c`) sets `rtc_real_time`, so the RTC is the host's
  clock. `TimerFires` is about a timer that stays due, `SleeperWakes` about one that is
  enabled.
- `virtio_devices`: of `QueueNotify`, a loop that waits for nothing, of
  `Callback`, the host's answer, and of `Notify`, for a driver that has submitted
  notifies. Nothing makes it reap: `RequestsAnswered` holds with a used ring left full.
- `http_storage`: the device's loops go on (`Running`), and a transfer ends, with the file or
  without (`Fetching`); for the disk, that it does not stay in its own steps (`DiskRunning`) nor a transfer under way (`DiskFetching`). The transfers of
  `fs_wget.c` have no timeout of their own: that they end is the HTTP library's.
- `slirp_tcp`: of each step of `slirp_select_poll`, which the main loop repeats, of the guest's
  TCP and both applications; of the link, but a segment may be lost as often as the faults of the
  scenario allow. Timers fire when nothing else is on its way, or early, as a fault. Keeping the
  connection alive, losing a segment and an abort of the host are not fair.
- `slirp_udp`: time passes, and the guest's driver provides buffers.

Fairness is stated as `[]<>~guard` where a step falsifies its own guard, which is weak
fairness of it and cheaper to check.

### Findings

- `http_disk`: `block_net.c:66` says modified data is stored per cluster, and the cluster holds the only
  copy of what the guest wrote. `bf_rw_async1` looks up the cluster of the first sector; if there is
  none, it copies from the cached block up to the block's end (lines 290 and 319), over clusters
  that were written. A read that starts before a written cluster returns the image in its place.
  Bounding the piece by the end of the cluster, as line 277 does in the other case, would do.
- `riscv_timer`: `readme.md` says privileged architecture 1.10, in which mtime and
  mtimecmp are compared unsigned; `get_sleep_duration` reads the difference as
  signed, so the customary mtimecmp of -1 (no timer) interrupts at once.

Two disagreements with comments of slirp are kept out of the runs' scenarios or stated
as exceptions of their properties:

- "If segment ends after window, drop trailing data (and PUSH and FIN)" (`tcp_input.c:769`). The code
  clears FIN in `tiflags` (line 804), but `TCP_REASS` and `tcp_reass` take it from `ti_flags`
  (lines 72 and 89), which still has it; so does the model. When a guest sends its last bytes
  with the FIN past the window, what fits is kept, the rest is dropped, the FIN is counted as
  received, and the host's application gets the end of the stream before its last byte. TLC finds this
  (four bytes, a window of two of which one is taken) if `GuestSend` may do so: its
  conjunct on `fin` keeps the FIN inside the window, and `StreamsIntact` and `AcknowledgedIsKept` are about guests
  that keep it there. Data past the window they may send.
- `udp_input` moves `m_data` back to the header when `sosendto` fails, and moves it back again where
  it means to "restore the orig mbuf packet" (`udp.c:216`), which it then keeps as `so_m`. An
  error about it, when a later read from the socket fails, reads its header 28 bytes too early:
  with 32-bit pointers it goes to an address that is nobody's, with 64-bit ones it mostly is not
  sent, while `ip_icmp.c:179` says it goes "back to the source regarding msrc".
  `AnswersReachTheAsker` states this as its one exception, and TLC finds it violated without.

## 4. What is proved

All theorems are of the specifications as they are checked, for every value of the
constants that satisfies the named assumptions, and TLAPS checks every leaf. Some invariants
are only proved, and no run repeats them: the type invariants, `OneBlockPerPage` and
`EvictionsWriteBack` of the page cache, `CleanFramesMatchStore`, `Limits` and `NothingWrittenAfterClose`
of the VMM, `ContextsKept`, from which `ReturnsUndoTraps` follows, `SleepsOnlyWhenIdle` and `MachineStateIsolated` of the CPU, `BudgetKept` of the machine,
`FileUntouched` of the block device, `SlirpInv` of slirp below TCP.

**The paged memory is a memory.** `VmmImplementsRam` and `StoreImplementsRam`: `Vmm`
and `PageStore` refine `Ram`, through `View` and `StoreView`, the newest copy of each
page. The argument goes up the modules. `MemoryProofs` first proves, per operator of
the two caches, that the list stays without duplicates and agrees with the map, and
that a line which answers for its own cell answers what the map has (`IndexOK`).
It then proves that each operator of the page cache keeps `PageCacheOK` (types,
`IndexOK`, `BlocksOK`) and says what it does to `StoreView`: an eviction nothing, a
`PageCacheSet` one page. The same is then done for the operators of the VMM: the
inductive invariant joins `VmmOK` (types, frames in the index allocated and naming
their page, clean frames matching the store, `PageCacheOK` below), `VmmUsable` until
lru_cache_free leaves the direct cache behind (its lines agree with the LRU cache,
pagetable_size counts the frames), and what flush and destroy have done up to the
cursor. None of the
checked invariants is inductive alone: an eviction keeps the bytes only because a
clean frame matches the store, which a load keeps only because no line leads to
another page's block.

**Used items stay.** `UsedItemsStayAhead` is about any legal caller of
`lru_cache.c`. The invariant (`LruUseInv`) ties the ghosts to the counter the code keeps with an item: of an
item that stands behind another, no more gets are counted since the other was last pushed than
its counter has, and the counter moves the item before it comes to LRU_MARKING.

**The CPU.** `CpuInv` (the record's type and `SleepsOnlyWhenIdle`) is
inductive over `CpuNext`; the wakeup in `SetMip` and the test in `Wfi` are its two
cases, and no CSR write runs while the CPU sleeps. `IsolationHolds` and
`EnablesRespected` are action properties proved from it. `ContextsKept` is
inductive with the record's type and `SleepsOnlyWhenIdle`; its case is the trap, where
`spp`, of one bit, can hold the level because raise_exception2 delegates only traps
from below the machine level. `ReturnsRestore` follows from it.

**The machine.** `MachineImplementsCpu`: each step of the machine is a step of `RiscvCpu`
or leaves the CPU alone, so what was proved of the CPU holds in the machine.
On top, three invariants, each inductive with `CpuInv`: `Budget` (a block starts
within the budget, so what is left of a block is paid for), `Plic` (no guest write
reaches MEIP), `Timer` (only `GetSleepDuration` sets MTIP, and every write of a half
clears it, which is why the interrupt is never left over from a half-written
timecmp). The arithmetic of the halves, for any even width, is in `Halves`,
`QuotientRange` and `DueMeaning`.

**The MMU.** `ChangedPagesStayDirty` is inductive with the types. Its cases are the store, where each
walk sets D before its bytes are written, also when the second walk faults, and the
supervisor's write of an entry, which clears D after the pages the entry maps were saved. `FetchesStayCurrent` needs that
`recent` has the page the program counter stands for and that of the code block
(`FetchInv`): what goes on in a block remembers, what empties `recent` ends the block.

**The block device.** `BlockImplementsDisk`. `VirtQueueProofs` first treats a ring as
what it is, indices counted modulo 2^16 and reduced modulo the entries: `Entries`, the
heads between two indices, loses its first when the lower index moves on and gains one
at its end when the upper does, provided there is room (`EntriesTail`, `EntriesAppend`;
the arithmetic is that of remainders). That there is room is the counting in `HeadsOK`:
a head in use is in one place only, the avail ring, in progress, or the used ring, and
the places together hold no more than the heads in use. With it `DiskInv` is
inductive, and each action is a step of `Disk` or none. `NoRequestStalls`,
`InterruptStaysUp` and `FileStaysUntouched` are proved beside it and need only the types. The
arithmetic of the rings and `HeadsOK` are lemmas of `VirtQueueProofs`, for any device.

**The HTTP block device.** `BlocksAlwaysAwaited` and `NetIsDisk`, from one invariant, `NetInv`. Of the
device (`DeviceInv`): a block is in the cache once; the blocks that the transfers under way and what
is left of the group at hand will bring are there and being loaded, and none is wanted twice.
What keeps it is that bf_free_block frees only blocks that are loaded, and that
the prefetch asks for blocks that are not there. Of a request that waits (`Suspended`): its block is one
that is being loaded; a read has in its buffer the sectors up to where it is, and the disk
is as it was when the request was taken; a write has changed no sector but its own. The turns of `bf_rw_async1` are a fold whose
courses are sequences of states (`LoopCourse`, `LoopTurns`): `Turned` is what one turn does to the disk's contents and the
request, `Steady` what a loop of them keeps, for a read (`ReadOn`, with a lemma for a turn within a cluster and one within a block) and
for a write. `Geometry` and `ClusterWithinBlock` are the arithmetic of sectors, clusters and blocks.
The refinement then takes the contents of `Disk` to be those of the clusters over the image, before
the request while one is in progress: taking a request is `Take`, its end in the loop or in the callback
is `Complete`, and all else stutters. `ReadsWithinCluster` is a condition on the requests the guest
makes, and the finding above shows that it cannot be left out; it is used for the turn within a block only.
`NetInv` and `BlocksAlwaysAwaited` need no such condition.

**The console and the input devices.** `StreamsStayWhole`: what the guest has got and what lies in
the used ring are, in this order, what the device took of the input, and what is printed and what lies in the
avail ring is what the guest has written; `StreamInv` adds `HeadsOK`, so that no buffer is given twice. The
stream is a concatenation over the entries; its lemmas are by induction over their number.
`SizeStaysCurrent`: the driver
reads the two halves of a size one after the other, and while the configuration interrupt is down
each half it has read is current (`HalvesAreCurrent`). `ButtonsStayAgreed`: what
the device takes to be pressed is what the driver will believe once it has read the
entries it has not read yet (`AgreeInv`), for the buttons that are not `unsure`, those of an event cut short. It needs that a
driver that is ready knows the codes (`ConfigInv`) and that no head is in two places (`QueueInv`).

**The 9P device and its file system.** `OpenFilesStayPresent` and `CountsStayRight`, from one invariant,
`DeviceInvHolds`. Neither property is inductive: that a file object is counted where it
stands needs that no other fid has it, that an open file is in memory needs that the open a transfer
will call back is the one in progress, and that an inode is freed no earlier than its last reference
needs that a request in the queue still finds its fids. `DeviceInv` says all this unless `broken` is set:

- of the file system (`Whole`, which is `Solid` with no reference on its way): the fields
  are of their types (`IsFs`); `refcount` is the entries that name the inode, one more for the root (`Refs`),
  `open_count` the file objects that stand for it (`Opens`), the blocks are those of the sizes (`Blocks`), no
  inode in use is without a count (`Busy`); the cache lists what is loaded, once, and adds up its
  sizes, and what is open is in memory (`Fresh`);
- of the queue and the requests: `HeadsOK` of the rings; of those that
  overlap none ends or replaces a fid that another uses, and one at most changes names (`RequestsOK`, the rules of the client in `Undisturbed` and `Allowed`);
- of the fids: each stands for a file object of its own, and no object is without one (`FidsOK`); what the guest knows of them
  (`HeldOK`), and what requests before and after their answer rely on (`PendingOK`, `AnsweredOK`);
- of the open that waits: a load has a callback only if an open is in progress, and then the file object
  is that of its fid and stands for the inode that is loaded (`WaitsOK`); of the loop over an archive, its place (`LoopOK`).

The proof goes up the calls. `Solid` has parameters for what a function holds on its way: a reference
that no entry accounts for yet, a file object being closed, so that `inode_incref` and `inode_decref`,
`inode_dir_add` and `inode_dirent_delete`, `fid_create` and `fs_delete` are each proved alone; `Busy` and `Guarded` carry
the inode that inode_decref is about to look at. The loops of the code (`fs_walk`, `fs_trim_cache`, `fs_preload_archive`,
`fs_error_archive`, `flush_dir`) are folds, and `LoopOver` gives the course of states of each. What an
operation promises the device is then `Lives` (an inode in use keeps its type until it is freed, and nobody is
called unless somebody waits), `Creates` or `Moves` of a file object, and each request of the device is
one lemma on top of that (`NamesStep`, `WalkStep`, `LopenStep`, ...), as are the ends of transfers, whose callbacks are in `OpenCbStep`.
Two assumptions bound the model and not the code: more file objects than fids (`malloc` has one for `fid_create`)
and more inodes than listed files.

**slirp below TCP.** One invariant, `SlirpInv`, carries three properties.

- `AddressesStayDistinct`: what was granted stays in the name of its client (`LeasesOK`); the case is
  `request_addr`, which grants an allocated address to its owner only.
- `SessionsStayInOrder`: a session has packets of one socket, ascending and all above the
  latest sent; the sessions of a socket ascend along `if_fastq`, and at most one in `if_batchq`
  comes after them (`Queued`). The case is `MoveToFront`: what it takes from `if_fastq` is the session of the packet
  just queued, the last of its socket, and no session of the socket is in `if_batchq` then, for the packet would have gone there.
  `Follows` says when a session may take the place of another, as one does whose first packet leaves.
- `AnswersReachAsker`: a packet on its way is already an answer (`Answered`), for the guest may
  get it long after the socket is gone or serves another port. A socket in the list has a
  descriptor of its own, and the address and port of the guest whose datagrams were sent on it, to an
  address one of them went to (`SocketOK`, `Serves`, `Directed`); fragments in a queue are parts of datagrams between its hosts (`Queue`),
  so that what is assembled of them has the sender of its first unit, even when two datagrams share an id.
  For long answers, that the pieces of `ip_output` are cut in their places. An error is sent by slirp to
  the sender of the datagram it is about, except to nobody's address if a send of that
  datagram has failed, as said above; `Backed` ties the socket's moved packet to that failure.

The loops of the code (`if_start`, the sockets of a round, `ip_slowtimo`, the concatenation of
fragments) are folds; `Course` is the sequence of states such a loop goes through, and what
each turn keeps is kept by the whole. Each operation is then one lemma on what it changes: nothing
but the queues (`Beside`), nothing of other sockets (`OnlyOf`), neither leases nor reassembly queues (`Keeps`).

Assumptions are those named in the modules: sizes are positive, `NULL` and `Garbage`
are no pointers, values written are of the register's type, the RTC stays below
2^63, an index has more values than a ring has entries, and a multiple of them,
requests lie within the device, the lines devices drive include MTIP, SEIP and MEIP; the entries a
supervisor writes and the status values are of their types; the console reads at least a byte at a time and
sizes are numbers; keys and buttons of the devices are codes the driver may know; a datagram has
some data, a DHCP message a hardware address, `NoSocket` is not a socket,
answers are not empty, `Mtu` and `IpFragTtl` are positive; a cluster has sectors and its size divides a
block's, the prefetch's groups are not empty; inodes and file objects are finitely many, the guest asks 9P for
what the device can parse, and `Preload`, `Archives` and `Filelist` are lists.

### Only model-checked

The balanced tree, whose links are reached by recursion; the instructions, which are compared
with their references operand by operand; slirp's TCP; of 9P that it refines `FileServer`; what a read over several clusters returns; of slirp below TCP
`DatagramsArrive`, which counts what went out against all the fragments there ever were. Every
liveness property, as TLAPS does not prove properties that depend on fairness. Operators declared
RECURSIVE are out of the prover's reach as well; `MemoryIndexer`, `RiscvIsa` and
`SlirpTcp` use them. Induction over data is possible for a given set, from the fact that a
set of numbers that is not empty has a least element, which is how the folds above are reasoned about;
the library's induction rules, which take an operator, cannot be applied.

## 5. What is not modelled

**Of modelled components.**

- Paged memory: recovery of the page file (`vmm_create` truncates it, so no run of the
  program reads what an earlier one wrote); failures of `malloc` and of file operations, on
  which the code stops or prints and goes on; the node pointers of `llist.c`; the window through
  which the ESP32 sees high memory (`map_superblock` is called before every access, so the array of
  blocks is what remains of it; block sizes that do not divide 32 K would run over the window).
- CPU: epc, cause, tval, tvec, counters, FS and XLEN fields; fcsr as a CSR; F_SIZE 128;
  LR and SC (see below); XLEN 64, which the port does not build.
- virtio: PCI, feature bits, the address registers; a reset with a request or an open pending;
  receive descriptors of no length; three buttons at once, amounts of movement, the LED queue.
- 9P: encryption, base URLs and `.fscmd`, the initial synchronisation and `dump_cache_load`,
  owners, modes and times, paths of several components, the parsers, getlock.
- `block_net.c`: failed transfers, which end the program; the description of the disk.
- slirp: congestion window and round trip times (any window is allowed instead),
  options, urgent data, `tcp_emu`, exec and control sockets, restricted mode, checksums, keepalive
  probes, TIME_WAIT reopened, several connections at once, failures of `m_get`, lengths beyond
  65535, host forwarding (`udp_listen` has no caller), TFTP.
- consoles: the C-a escapes and the mode of the terminal.

**Components.** LR and SC: `load_res` is an address that `sc` compares and nothing clears. Two
threads switched in between both succeed; no document of the repository promises otherwise,
and only the ISA manual could be contradicted. `virtual_directory` drops a relative path when the current
directory ends in a slash and looks before the first character of an empty one: seen at once
in the source, with nothing that says what it should do. `iomem`'s dirty bits serve displays
that no configuration of the port has. Configuration, log, SD mount and device tree run once;
aes and sha256 are functions on wide words whose contents are their standards; the x86 machine,
PC devices, SDL, browser and image tools are not part of the port's machine.

**Behaviour met while modelling, that no property here is about.** It is in the source,
no document says otherwise, and it may interest who maintains the code.

- RISC-V: a supervisor that writes sip with SEIP delegated clears SEIP though the PLIC's line is
  up, and it stays clear until the next `plic_update_mip` (`riscv_cpu.c:1086`);
  `ExternalInterruptLine` is about MEIP, which no write reaches. SUM lets the supervisor fetch user pages; misaligned superpages do not fault; a
  misaligned store writes bytes before the second page faults; NaN boxing is not checked; some
  comparisons and conversions leave FS clean; MPP may be written 2; FENCE.TSO is illegal.
- Console: a change of the terminal's size that comes between reading it and clearing
  `resize_pending` is lost (`temu.c:661`); `SizeIsCurrent` is about sizes the main loop was told.
- Block: `block_net.c` accepts a block size below its cluster of 8 sectors; a write that waits
  stores from a buffer already freed.
- 9P: `fs_error_archive` and `fs_read_archive` hold a list position over a callback; a rename onto
  itself, `set_url` of an open empty file, and assertions at `fs_net.c:726` and `735` that an ill-timed
  transfer can meet; O_TRUNC is ignored while a file loads; the cache limit does not count files
  being loaded; an HTTP code of 0 counts as success (`fs_wget.c:239`).
- TCP: closing both ends may free data the host's socket has not taken; with 64-bit longs a window that should be nought is
  advertised as 65535 after a probe (`tcp_output.c:365`).
- UDP: a session in the queue outlives its
  socket; `if_encap` sends an ARP request in place of the first packet; `temu.c:673` gives `select`
  milliseconds as microseconds.

## 6. Where it could go next

In order of what it would add: more than one fault in a connection and two connections at
once in `SlirpNet`, which share `if.c` and the fast socket; a driver that resets a virtio device with a
request or an open in progress; `LinkedList`, the pointers of `llist.c` as a refinement of the sequence in
`PageIndex`, and the ESP32's window as one of the array of blocks, which would carry over to what is
proved of the modules above them; the refinement of `FileServer` by `Virtio9p`, which can start from
`DeviceInv` and has to follow names and contents besides; and a proof of `DatagramsArrive`, whose invariant follows each unit of a datagram from the guest through the
reassembly queue to the host.
