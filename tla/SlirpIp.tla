------------------------------ MODULE SlirpIp ------------------------------
(***************************************************************************)
(* Packets in slirp.  Those of the guest: ip_reass and the timer over the  *)
(* reassembly queues (slirp/ip_input.c).  Those on their way to it: the    *)
(* cutting of long packets (slirp/ip_output.c), the two output queues of   *)
(* slirp/if.c, the link layer of slirp/slirp.c and the receive queue of    *)
(* the network device (virtio.c).                                          *)
(*                                                                         *)
(* A packet is a record with src, dst, p, id, off, mf and its data; data   *)
(* are counted, and offsets given, in units of eight bytes, a unit being   *)
(* any value.  Header lengths and checksums of headers are left out.       *)
(***************************************************************************)
EXTENDS Integers, SequencesExt

(* Fragments.                                                                *)

CONSTANTS IpFragTtl,              \* IPFRAGTTL, in ticks of the slow timer
          Mtu                     \* data of a packet that fits IF_MTU

ASSUME MtuAssumption == Mtu \in Nat \ {0}
ASSUME TtlAssumption == IpFragTtl \in Nat \ {0}

Units(m) == Len(m.data)
EndOf(m) == m.off + Units(m)
CutFront(m, n) == [m EXCEPT !.off = @ + n, !.data = SubSeq(@, n + 1, Len(@))]

SameDatagram(q, m) == q.id = m.id /\ q.src = m.src /\ q.dst = m.dst /\ q.p = m.p
IsFragment(m) == m.mf \/ m.off # 0

-----------------------------------------------------------------------------
\* The queue of fragments of a datagram, and what is assembled of them.

\* The first fragment that begins after this one does; 0 if none does.
Place(frags, m) == SelectInSeq(frags, LAMBDA f : f.off > m.off)
Before(frags, m) == IF Place(frags, m) = 0 THEN frags ELSE SubSeq(frags, 1, Place(frags, m) - 1)
Behind(frags, m) ==
    IF Place(frags, m) = 0 THEN <<>> ELSE SubSeq(frags, Place(frags, m), Len(frags))

\* The incoming fragment without what its predecessor has; <<>> if it is all there.
TrimmedByPrevious(frags, m) ==
    LET before == Before(frags, m)
        over == IF before = <<>> THEN 0 ELSE EndOf(Last(before)) - m.off
    IN  IF over <= 0 THEN <<m>>
        ELSE IF over >= Units(m) THEN <<>>
        ELSE <<CutFront(m, over)>>

\* What a fragment leaves of those behind it: the first it does not cover is cut.
TrimFollowing(after, m) ==
    LET Over(f) == EndOf(m) - f.off
        first == SelectInSeq(after, LAMBDA f : Over(f) <= 0 \/ Over(f) < Units(f))
        left == SubSeq(after, first, Len(after))
    IN  IF first = 0 THEN <<>>
        ELSE IF Over(left[1]) > 0 THEN [left EXCEPT ![1] = CutFront(@, Over(@))]
        ELSE left

Insert(frags, m) ==
    LET cut == TrimmedByPrevious(frags, m)
    IN  IF cut = <<>> THEN frags
        ELSE Before(frags, m) \o cut \o TrimFollowing(Behind(frags, m), cut[1])

\* Faulty variant of Complete: the last fragment need not be there.
CompleteSoFar(frags) ==
    \A i \in DOMAIN frags : frags[i].off = IF i = 1 THEN 0 ELSE EndOf(frags[i - 1])

Complete(frags) ==
    /\ \A i \in DOMAIN frags : frags[i].off = IF i = 1 THEN 0 ELSE EndOf(frags[i - 1])
    /\ ~Last(frags).mf

\* m_cat, one by one.
Joined(frags) == FoldLeft(LAMBDA data, f : data \o f.data, <<>>, frags)

\* ip_reass: the queues after fragment m, and the datagram it completes, if any.
ip_reass(ipq, m) ==
    LET at == SelectInSeq(ipq, LAMBDA q : SameDatagram(q, m))
        old == IF at = 0 THEN [id |-> m.id, src |-> m.src, dst |-> m.dst, p |-> m.p,
                               ttl |-> IpFragTtl, frags |-> <<>>]
               ELSE ipq[at]
        frags == Insert(old.frags, m)
        whole == [frags[1] EXCEPT !.mf = FALSE, !.data = Joined(frags)]
    IN  IF at # 0 /\ TrimmedByPrevious(old.frags, m) = <<>>
        THEN [ipq |-> ipq, done |-> <<>>]
        ELSE IF Complete(frags)
        THEN [ipq |-> IF at = 0 THEN ipq ELSE RemoveAt(ipq, at), done |-> <<whole>>]
        ELSE [ipq |-> IF at = 0 THEN <<[old EXCEPT !.frags = frags]>> \o ipq
                      ELSE [ipq EXCEPT ![at].frags = frags],
              done |-> <<>>]

\* One tick for every queue; those whose time is over are freed (ip_freef).
Ticked(left, q) == IF q.ttl = 1 THEN left ELSE Append(left, [q EXCEPT !.ttl = @ - 1])
ip_slowtimo(ipq) == FoldLeft(Ticked, <<>>, ipq)

-----------------------------------------------------------------------------
\* ip_output: the packets a packet leaves as.
Fragments(m) ==
    LET n == (Units(m) + Mtu - 1) \div Mtu
        Cut(i) == [m EXCEPT !.off = (i - 1) * Mtu,
                            !.mf = i < n,
                            !.data = SubSeq(@, (i - 1) * Mtu + 1,
                                            IF i < n THEN i * Mtu ELSE Units(m))]
    IN  IF Units(m) <= Mtu THEN <<m>> ELSE [i \in 1 .. n |-> Cut(i)]

-----------------------------------------------------------------------------
(* A queue to the guest is a sequence of sessions, a session the sequence   *)
(* of packets of a socket (ifq_so), its head the mbuf that is linked into   *)
(* the queue. The operators take and give back s, the state of slirp with   *)
(* these fields among others:                                               *)
(*   sock    the sockets, by address; Free where there is none              *)
(*   fastq, batchq, nextM   if_fastq, if_batchq; the position of next_m in  *)
(*           if_batchq, 0 when it points to the queue's own head            *)
(*   serial, last   history: number of the latest packet queued, and of     *)
(*           the latest one sent for each socket                            *)
(*   mac, ip     client_ethaddr, client_ipaddr                              *)
(*   rx      buffers the guest has made available                           *)
(*   got     history: the frames the guest has received                     *)

CONSTANTS Sockets,                \* addresses socreate may get from malloc
          Free,
          NoSocket,               \* so == NULL
          NoMac,                  \* zero_ethaddr
          QueuedInARow,           \* if_output: packets queued without pausing (6)
          SentInARow              \* and of these already sent (3)

Live(s, so) == so # NoSocket /\ s.sock[so] # Free

-----------------------------------------------------------------------------
\* virtio_net_can_write_packet: is there a buffer of the guest's?
can_write_packet(s) == s.rx > 0

\* virtio_net_write_packet: without a buffer the frame is dropped.
write_packet(s, frame) ==
    IF ~can_write_packet(s) THEN s
    ELSE [s EXCEPT !.rx = @ - 1, !.got = @ \cup {frame}]

\* if_encap: while the guest's address is not known, asking for it takes the
\* place of the packet.
if_encap(s, m) ==
    IF s.mac = NoMac
    THEN write_packet([s EXCEPT !.ip = m.dst], [p |-> "arp", op |-> "request", tip |-> m.dst])
    ELSE write_packet(s, [m |-> m, to |-> s.mac, p |-> "ip"])

-----------------------------------------------------------------------------
\* if_start: one packet, and the position next_m gets.
Picked(s) ==
    IF s.fastq # <<>> THEN [q |-> "fast", at |-> 1]
    ELSE [q |-> "batch", at |-> IF s.nextM = 0 THEN 1 ELSE s.nextM]

\* The queue without the first packet of session `at'.
WithoutFirst(q, at) ==
    IF Len(q[at]) = 1 THEN RemoveAt(q, at) ELSE [q EXCEPT ![at] = Tail(@)]

NextAfter(s, at) ==
    IF at = Len(s.batchq) THEN 0
    ELSE IF Len(s.batchq[at]) = 1 THEN at ELSE at + 1

Unqueued(s, pick) ==
    IF pick.q = "fast" THEN [s EXCEPT !.fastq = WithoutFirst(@, 1)]
    ELSE [s EXCEPT !.batchq = WithoutFirst(@, pick.at), !.nextM = NextAfter(s, pick.at)]

\* so_queued goes down; with the last packet so_nqueued starts anew.
CountSent(s, so) ==
    IF ~Live(s, so) THEN s
    ELSE LET left == s.sock[so].queued - 1
         IN  [s EXCEPT !.sock[so].queued = left,
                       !.sock[so].nqueued = IF left = 0 THEN 0 ELSE @]

SendOne(s) ==
    LET pick == Picked(s)
        e == Head(IF pick.q = "fast" THEN s.fastq[1] ELSE s.batchq[pick.at])
    IN  if_encap([CountSent(Unqueued(s, pick), e.so) EXCEPT !.last[e.so] = e.sn], e.m)

\* Each turn of the loop takes a buffer of the guest's.
Turn(s) == IF s.fastq \o s.batchq = <<>> \/ ~can_write_packet(s) THEN s ELSE SendOne(s)
if_start(s) == FoldLeft(LAMBDA t, i : Turn(t), s, [i \in 1 .. s.rx |-> i])

-----------------------------------------------------------------------------
\* if_output: where the packet goes.
SessionOf(q, so) == SelectLastInSeq(q, LAMBDA session : session[1].so = so)

LowDelay(s, so) == Live(s, so) /\ s.sock[so].lowdelay

\* Faulty variant of Enqueue: the session is looked for in its own queue only.
EnqueueOwnQueue(s, so, e) ==
    LET n == Len(s.fastq)
        batch == SessionOf(s.batchq, so)
    IN  IF LowDelay(s, so)
        THEN IF n # 0 /\ s.fastq[n][1].so = so THEN [s EXCEPT !.fastq[n] = Append(@, e)]
             ELSE [s EXCEPT !.fastq = Append(@, <<e>>)]
        ELSE IF batch # 0 THEN [s EXCEPT !.batchq[batch] = Append(@, e)]
        ELSE [s EXCEPT !.batchq = Append(@, <<e>>)]

Enqueue(s, so, e) ==
    LET batch == SessionOf(s.batchq, so)
        n == Len(s.fastq)
    IN  IF batch # 0
        THEN [s EXCEPT !.batchq[batch] = Append(@, e)]
        ELSE IF ~LowDelay(s, so) THEN [s EXCEPT !.batchq = Append(@, <<e>>)]
        ELSE IF n # 0 /\ s.fastq[n][1].so = so THEN [s EXCEPT !.fastq[n] = Append(@, e)]
        ELSE [s EXCEPT !.fastq = Append(@, <<e>>)]

\* A greedy session goes to the front of if_batchq.  on_fastq is 1 also for a
\* session that is there already.
MoveToFront(s, so, e) ==
    LET fast == SelectInSeq(s.fastq, LAMBDA session : Last(session) = e)
        batch == SelectInSeq(s.batchq, LAMBDA session : Last(session) = e)
        moved(at) == IF s.nextM = at THEN 1 ELSE IF s.nextM # 0 /\ s.nextM < at
                                           THEN s.nextM + 1 ELSE s.nextM
    IN  IF fast # 0
        THEN [s EXCEPT !.fastq = RemoveAt(@, fast), !.batchq = <<s.fastq[fast]>> \o @,
                       !.nextM = IF @ = 0 THEN 0 ELSE @ + 1]
        ELSE [s EXCEPT !.batchq = <<s.batchq[batch]>> \o RemoveAt(@, batch),
                       !.nextM = moved(batch)]

CountQueued(s, so, e) ==
    IF ~Live(s, so) THEN s
    ELSE LET t == [s EXCEPT !.sock[so].queued = @ + 1, !.sock[so].nqueued = @ + 1]
             k == t.sock[so]
         IN  IF k.nqueued >= QueuedInARow /\ k.nqueued - k.queued >= SentInARow
             THEN MoveToFront(t, so, e)
             ELSE t

if_output(s, so, m) ==
    LET e == [so |-> so, m |-> m, sn |-> s.serial + 1]
        t == Enqueue([s EXCEPT !.serial = @ + 1], so, e)
    IN  if_start(CountQueued(t, so, e))
=============================================================================
