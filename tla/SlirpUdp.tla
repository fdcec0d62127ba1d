------------------------------ MODULE SlirpUdp ------------------------------
(***************************************************************************)
(* The user mode network below TCP: IP input with reassembly, UDP, ping,   *)
(* DHCP and ARP (slirp/ip_input.c, udp.c, socket.c, ip_icmp.c, bootp.c,    *)
(* slirp.c) between the guest's network device and the host's sockets.     *)
(*   s      the state of slirp and of the device's receive queue; the      *)
(*          fields of SlirpIp and                                          *)
(*          ipq       the reassembly queues, the latest first              *)
(*          udb       the UDP sockets, the latest first                    *)
(*          udpLast   udp_last_so; NoSocket when it is &udb                *)
(*          leases    bootp_clients: the hardware address, Free if not     *)
(*                    allocated                                            *)
(*          slow      time since last_slowtimo, if a tick or more then 1   *)
(*          fds       sockets the host has opened                          *)
(*          sent, acked, lost   history: the datagrams the host has sent,  *)
(*                    the addresses granted, the queues that ran out       *)
(*   todo   frames the guest has still to send                             *)
(*   peers  external: the size of answers, the answers and errors left     *)
(*          (bounds), and all frames of this run of the guest              *)
(* Time is counted in ticks of the slow timer (half a second); so_expire   *)
(* is kept as the time that is left.                                       *)
(***************************************************************************)
EXTENDS SlirpIp, FiniteSets

CONSTANTS Datagrams,              \* what the guest may send, by name
          Scenarios,              \* frames to send, answers, errors (bound)
          Vhost, Vdns, Vnet,      \* vhost_addr, vnameserver_addr, the network
          Loopback,               \* loopback_addr, also the host's name server
          Broadcast,              \* 0xffffffff, outside the network
          VnetBroadcast,          \* the broadcast address of the network
          Bootps, Dns,            \* BOOTP_SERVER, port 53
          BeforeBuffer,           \* what ip_off reads there: "offset" or "first"
          Leases,                 \* 0 .. NB_BOOTP_CLIENTS - 1; lease i is its address
          SoExpire, SoExpireFast, \* SO_EXPIRE, SO_EXPIREFAST in ticks
          SelectLimit,            \* slirp_select_fill: packets queued to read on (4)
          GuestMac,
          RxBuffers               \* buffers of the guest's receive queue (bound)

ASSUME DatagramsAssumption ==
    \A d \in DOMAIN Datagrams :
        /\ Datagrams[d].n \in Nat \ {0}
        /\ Datagrams[d].dport = Bootps => Datagrams[d].msg.mac # Free
ASSUME SocketsAssumption == NoSocket \notin Sockets
ASSUME RxBuffersAssumption == RxBuffers \in Nat

VARIABLES s, todo, peers
vars == <<s, todo, peers>>

D(m) == Datagrams[m.data[1][1]]
Whole(d) == [i \in 1 .. Datagrams[d].n |-> <<d, i>>]

\* What the guest sends besides ARP are parts of its datagrams.
Unit == (DOMAIN Datagrams) \X Nat
Frames == UNION {case.frames : case \in Scenarios}
IpPacket == [p : {e.p : e \in Range(Datagrams)}, src : {e.src : e \in Range(Datagrams)},
             dst : {e.dst : e \in Range(Datagrams)},
             id : {f.id : f \in {g \in Frames : g.p # "arp"}}, off : Nat, mf : BOOLEAN, data : Seq(Unit)]
Part ==
    {f \in IpPacket : /\ f.data # <<>>
                      /\ \A i \in DOMAIN f.data :
                           LET e == Datagrams[f.data[i][1]]
                           IN  e.p = f.p /\ e.src = f.src /\ e.dst = f.dst}
ASSUME ScenariosAssumption ==
    /\ \A case \in Scenarios : case.answer \in Nat \ {0}
    /\ \A f \in Frames : IF f.p = "arp" THEN f.op \in {"request", "reply"} ELSE f \in Part

Unharmed(m) == \E d \in DOMAIN Datagrams : m.data = Whole(d)

NewSocket(fd) ==
    [laddr |-> 0, lport |-> 0, faddr |-> 0, fport |-> 0, expire |-> SoExpire,
     con |-> FALSE, type |-> "udp", lowdelay |-> FALSE, m |-> <<>>, queued |-> 0,
     nqueued |-> 0, inq |-> <<>>, fd |-> fd, shifted |-> FALSE]

Init ==
    /\ s = [ipq |-> <<>>, udb |-> <<>>, udpLast |-> NoSocket, slow |-> 1, fds |-> 0,
            sock |-> [so \in Sockets |-> Free], fastq |-> <<>>, batchq |-> <<>>,
            nextM |-> 0, serial |-> 0, last |-> [so \in Sockets \cup {NoSocket} |-> 0],
            mac |-> NoMac, ip |-> Broadcast, rx |-> 0, got |-> {}, sent |-> <<>>,
            leases |-> [i \in Leases |-> Free], acked |-> {}, lost |-> {}]
    /\ \E case \in Scenarios :
          /\ todo = case.frames
          /\ peers = [n |-> case.answer, left |-> case.answers, errors |-> case.errors,
                      frames |-> case.frames]

-----------------------------------------------------------------------------
\* Packets of slirp itself.  ip_output numbers and cuts them, if_output queues.
Packet(p, src, dst, data) ==
    [p |-> p, src |-> src, dst |-> dst, id |-> 0, off |-> 0, mf |-> FALSE, data |-> data]

ip_output(w, so, m) ==
    FoldLeft(LAMBDA t, frag : if_output(t, so, frag), w, Fragments(m))

\* Only the first fragment is answered with an error.
icmp_error(w, m, code) ==
    IF m.off # 0 THEN w
    ELSE ip_output(w, NoSocket, Packet("icmp", Vhost, m.src, <<<<code, m.data[1][1], 1>>>>))

\* An error about so_m.  After a failed sendto udp_input has moved the start of
\* so_m twice: the header is read 28 bytes before that of the packet, among the last
\* fields of struct mbuf and the first bytes of the frame.  ip_off is the upper half
\* of m_len, 0, where pointers have 32 bits: the error goes out, to the address read
\* there.  It lies in a pointer where they have 64: the packet seems to be no first
\* fragment, unless those bits are 0, and nobody is told.
BackupError(w, so, code) ==
    LET k == w.sock[so]
    IN  IF ~k.shifted THEN icmp_error(w, k.m[1], code)
        ELSE IF BeforeBuffer = "offset" THEN w
        ELSE ip_output(w, NoSocket,
                       Packet("icmp", Vhost, "garbage", <<<<code, k.m[1].data[1][1], 1>>>>))

icmp_reflect(w, m) ==
    ip_output(w, NoSocket,
              [m EXCEPT !.src = m.dst, !.dst = m.src, !.id = 0,
                        !.data = [i \in DOMAIN @ |-> <<"echo">> \o @[i]]])

-----------------------------------------------------------------------------
\* Sockets: in use are those in the list.
FreeSockets(w) == Sockets \ Range(w.udb)
FreeSocket(w) == CHOOSE so \in Sockets : so \in FreeSockets(w)

\* udp_attach of a socket just created.
udp_attach(w, so) ==
    [w EXCEPT !.sock[so] = NewSocket(w.fds + 1), !.fds = @ + 1, !.udb = <<so>> \o @]

\* sofree: the caches that point to the socket are reset, its packets stay queued.
sofree(w, so) ==
    [w EXCEPT !.udpLast = IF @ = so THEN NoSocket ELSE @,
              !.udb = RemoveFirst(@, so),
              !.sock[so] = Free]

udp_detach(w, so) == sofree(w, so)

\* The host address a socket sends to.
HostAddress(k) == IF k.faddr \in Vnet THEN Loopback ELSE k.faddr

\* sendto: recorded with the descriptor it was sent on, 0 if it fails.
Sendto(w, so, m, fails) ==
    LET d == m.data[1][1]
    IN  [w EXCEPT !.sent = Append(@, [d |-> d, fd |-> IF fails THEN 0 ELSE w.sock[so].fd,
                                      to |-> HostAddress(w.sock[so]),
                                      port |-> w.sock[so].fport,
                                      whole |-> m.data = Whole(d)])]

sosendto(w, so, m, fails) ==
    LET t == Sendto(w, so, m, fails)
    IN  IF fails THEN t
        ELSE [t EXCEPT !.sock[so].expire = SoExpire, !.sock[so].con = TRUE]

-----------------------------------------------------------------------------
\* DHCP: bootp_reply.

\* Faulty variant of request_addr: whoever asks for an allocated address gets it.
request_addrAny(w, addr, mac) == IF addr \in Leases THEN {addr} ELSE {}

request_addr(w, addr, mac) ==
    IF addr \in Leases /\ w.leases[addr] \in {Free, mac} THEN {addr} ELSE {}

First(leases) == {i \in leases : \A j \in leases : i <= j}
get_new_addr(w, mac) == First({i \in Leases : w.leases[i] \in {Free, mac}})
find_addr(w, mac) == First({i \in Leases : w.leases[i] = mac})

\* The address a message is answered with; {} for none.
Granted(w, msg) ==
    LET requested == IF msg.addr = 0 THEN {} ELSE request_addr(w, msg.addr, msg.mac)
        new == get_new_addr(w, msg.mac)
    IN  IF msg.type = "discover" THEN IF requested # {} THEN requested ELSE new
        ELSE IF msg.addr # 0 THEN requested
        ELSE IF find_addr(w, msg.mac) # {} THEN find_addr(w, msg.mac) ELSE new

\* A message without a type counts as a request.  Without an address left only a
\* request for a certain one is answered, with a NAK.
bootp_reply(w, msg) ==
    LET addr == Granted(w, msg)
        kind == IF addr = {} THEN "nak" ELSE IF msg.type = "discover" THEN "offer" ELSE "ack"
        t == [w EXCEPT !.mac = msg.mac,
                       !.leases = [i \in Leases |-> IF i \in addr THEN msg.mac ELSE @[i]],
                       !.acked = IF kind = "ack" THEN @ \cup {<<a, msg.mac>> : a \in addr}
                                 ELSE @]
        reply == Packet("dhcp", Vhost, Broadcast, <<<<kind, msg.mac, addr>>>>)
    IN  IF msg.type \notin {"discover", "request", "bootp"} THEN w
        ELSE IF addr = {} /\ ~(msg.type # "discover" /\ msg.addr # 0) THEN t
        ELSE ip_output(t, NoSocket, reply)

-----------------------------------------------------------------------------
\* udp_input.

\* Faulty variant of Locate: the guest's address is not looked at.
LocateByPort(w, src, sport) ==
    LET Mine(so) == w.sock[so].lport = sport
    IN  IF w.udpLast # NoSocket /\ Mine(w.udpLast) THEN {w.udpLast}
        ELSE LET at == SelectInSeq(w.udb, Mine) IN IF at = 0 THEN {} ELSE {w.udb[at]}

Locate(w, src, sport) ==
    LET Mine(so) == w.sock[so].lport = sport /\ w.sock[so].laddr = src
    IN  IF w.udpLast # NoSocket /\ Mine(w.udpLast) THEN {w.udpLast}
        ELSE LET at == SelectInSeq(w.udb, Mine) IN IF at = 0 THEN {} ELSE {w.udb[at]}

\* The datagram of the length the UDP header tells, if it is unharmed.
Checked(m) ==
    LET cut == [m EXCEPT !.data = SubSeq(@, 1, D(m).n)]
    IN  IF D(m).n > Units(m) \/ (D(m).ck /\ cut.data # Whole(m.data[1][1]))
        THEN <<>> ELSE <<cut>>

\* The socket of the datagram, a new one if there is none; only one that is found
\* by the search becomes udp_last_so.
WithSocket(w, m, so) ==
    IF Locate(w, m.src, D(m).sport) # {}
    THEN [w EXCEPT !.udpLast = so]
    ELSE [udp_attach(w, so) EXCEPT !.sock[so].laddr = m.src, !.sock[so].lport = D(m).sport,
                                   !.sock[so].lowdelay = D(m).low]

udp_input(w, m, fails) ==
    LET good == Checked(m)
        found == Locate(w, m.src, D(m).sport)
        so == IF found # {} THEN CHOOSE x \in found : TRUE ELSE FreeSocket(w)
        none == found = {} /\ FreeSockets(w) = {}
        t == [WithSocket(w, m, so) EXCEPT !.sock[so].faddr = m.dst,
                                          !.sock[so].fport = D(m).dport]
    IN  IF good = <<>> THEN w
        ELSE IF D(m).dport = Bootps THEN bootp_reply(w, D(m).msg)
        ELSE IF none THEN w
        ELSE LET u == sosendto(t, so, good[1], fails)
             IN  [IF fails THEN icmp_error(u, good[1], "net") ELSE u
                  EXCEPT !.sock[so].m = good, !.sock[so].shifted = fails]

\* icmp_input: the echo of slirp's own address is answered at once, that of
\* another goes to the UDP echo port of the host behind it.
icmp_input(w, m, fails) ==
    LET so == FreeSocket(w)
        t == [udp_attach(w, so) EXCEPT !.sock[so].m = <<m>>, !.sock[so].laddr = m.src,
                  !.sock[so].lport = 9, !.sock[so].faddr = m.dst, !.sock[so].fport = 7,
                  !.sock[so].type = "icmp", !.sock[so].con = TRUE]
    IN  IF ~Unharmed(m) \/ ~D(m).echo THEN w
        ELSE IF m.dst = Vhost THEN icmp_reflect(w, m)
        ELSE IF FreeSockets(w) = {} THEN w
        ELSE IF fails THEN udp_detach(icmp_error(Sendto(t, so, m, TRUE), m, "net"), so)
        ELSE Sendto(t, so, m, FALSE)

-----------------------------------------------------------------------------
\* ip_input and slirp_input: a frame of the guest.
Dispatch(w, m, fails) ==
    IF m.p = "udp" THEN udp_input(w, m, fails)
    ELSE IF m.p = "icmp" THEN icmp_input(w, m, fails) ELSE w

ip_input(w, m, fails) ==
    LET r == ip_reass(w.ipq, m)
        t == [w EXCEPT !.ipq = r.ipq]
    IN  IF D(m).ttl = 0 THEN icmp_error(w, m, "timxceed")
        ELSE IF ~IsFragment(m) THEN Dispatch(w, m, fails)
        ELSE IF r.done = <<>> THEN t ELSE Dispatch(t, r.done[1], fails)

arp_input(w, a) ==
    CASE a.op = "request" ->
            IF a.tip \in {Vhost, Vdns}
            THEN write_packet([w EXCEPT !.mac = a.mac],
                              [p |-> "arp", op |-> "reply", tip |-> a.tip])
            ELSE w
      [] a.op = "reply" ->
            IF w.mac = NoMac /\ a.sip = w.ip THEN [w EXCEPT !.mac = a.mac] ELSE w

slirp_input(w, frame, fails) ==
    IF frame.p = "arp" THEN arp_input(w, frame) ELSE ip_input(w, frame, fails)

-----------------------------------------------------------------------------
\* A round of the main loop.

\* udp_output: the source the guest sees.
ReplySource(k, from) ==
    IF k.faddr \in Vnet
    THEN IF k.faddr = VnetBroadcast THEN Vhost
         ELSE IF from = Loopback \/ k.faddr # Vhost THEN k.faddr ELSE from
    ELSE from

udp_output(w, so, r) ==
    LET k == w.sock[so]
    IN  ip_output(w, so,
            [src |-> ReplySource(k, r.from), dst |-> k.laddr, p |-> "udp", id |-> 0, off |-> 0,
             mf |-> FALSE, data |-> [i \in 1 .. peers.n |->
                                          <<"answer", r.d, i, peers.n, r.port, k.lport>>]])

\* One datagram is read; a ping's socket has then done its work.
sorecvfrom(w, so) ==
    LET r == Head(w.sock[so].inq)
        t == [w EXCEPT !.sock[so].inq = Tail(@)]
    IN  IF w.sock[so].type = "icmp"
        THEN udp_detach(IF r.err THEN BackupError(t, so, "port")
                        ELSE icmp_reflect(t, w.sock[so].m[1]), so)
        ELSE IF r.err THEN BackupError(t, so, "port")
        ELSE udp_output([t EXCEPT !.sock[so].expire = IF w.sock[so].fport = Dns
                                                      THEN SoExpireFast ELSE SoExpire], so, r)

\* slirp_select_fill: sockets whose time is over go.
Expire(w) ==
    FoldLeft(LAMBDA t, so : IF t.sock[so].expire <= 0 THEN udp_detach(t, so) ELSE t, w, w.udb)

Selected(w) ==
    {so \in Range(w.udb) : w.sock[so].con /\ w.sock[so].queued <= SelectLimit
                           /\ w.sock[so].inq # <<>>}

\* The slow timer runs for fragments and sockets that may expire.
NeedsSlowTimo(w) == w.ipq # <<>> \/ w.udb # <<>>

Age(w, dt) ==
    LET Older(k) == [k EXCEPT !.expire = IF @ <= dt THEN 0 ELSE @ - dt]
    IN  [w EXCEPT !.sock = [so \in Sockets |->
            IF w.sock[so] = Free THEN Free ELSE Older(w.sock[so])]]

SlowTimo(w, dt) ==
    LET older == ip_slowtimo(w.ipq)
    IN  IF NeedsSlowTimo(w) /\ w.slow + dt >= 1
        THEN [w EXCEPT !.slow = 0, !.ipq = older,
                       !.lost = @ \cup {q.id : q \in {x \in Range(w.ipq) : x.ttl = 1}}]
        ELSE [w EXCEPT !.slow = IF @ + dt >= 1 THEN 1 ELSE 0]

\* Faulty variant of PollSockets: nothing is sent but what a socket brings.
PollSocketsOnly(w, ready) ==
    FoldLeft(LAMBDA t, so : IF so \in ready THEN sorecvfrom(t, so) ELSE t, w, w.udb)

PollSockets(w, ready) ==
    if_start(FoldLeft(LAMBDA t, so : IF so \in ready THEN sorecvfrom(t, so) ELSE t, w, w.udb))

\* slirp_select_fill, select and slirp_select_poll, dt later than the last time.
SelectAndPoll(w, dt) ==
    LET filled == Expire(w)
        slow == SlowTimo(filled, dt)
    IN  PollSockets(Age(slow, dt), Selected(filled))

-----------------------------------------------------------------------------
CanFail(frame) == frame.p # "arp" /\ peers.errors > 0

GuestSends ==
    \E frame \in todo, fails \in BOOLEAN :
        /\ fails => CanFail(frame)
        /\ s' = slirp_input(s, frame, fails)
        /\ todo' = todo \ {frame}
        /\ peers' = IF fails THEN [peers EXCEPT !.errors = @ - 1] ELSE peers

\* The guest answers the request for its address.
GuestAnswersArp ==
    \E frame \in s.got :
        /\ frame.p = "arp" /\ frame.op = "request" /\ s.mac = NoMac
        /\ s' = slirp_input(s, [p |-> "arp", op |-> "reply", sip |-> frame.tip, mac |-> GuestMac],
                            FALSE)
        /\ UNCHANGED <<todo, peers>>

\* The driver makes a buffer available; the device is not told.
GuestProvides ==
    /\ s.rx < RxBuffers
    /\ s' = [s EXCEPT !.rx = @ + 1]
    /\ UNCHANGED <<todo, peers>>

Poll(dt) == s' = SelectAndPoll(s, dt) /\ UNCHANGED <<todo, peers>>

\* A round that comes soon after the last, and one half a second later.
SoonAgain == Poll(0)
Later == Poll(1)

\* A host answers a datagram, or its network tells that it cannot be reached.
PeerAnswers ==
    \E i \in DOMAIN s.sent, so \in Sockets, err \in BOOLEAN :
        LET e == s.sent[i]
        IN  /\ peers.left > 0 /\ (err => peers.errors > 0)
            /\ s.sock[so] # Free /\ s.sock[so].fd = e.fd
            /\ s' = [s EXCEPT !.sock[so].inq = Append(@,
                        [err |-> err, d |-> e.d, from |-> e.to, port |-> e.port])]
            /\ peers' = [peers EXCEPT !.left = @ - 1, !.errors = IF err THEN @ - 1 ELSE @]
            /\ UNCHANGED todo

Next == GuestSends \/ GuestAnswersArp \/ GuestProvides \/ SoonAgain \/ Later \/ PeerAnswers

Spec == Init /\ [][Next]_vars

\* The main loop goes on and time with it: WF_vars(Later), with what enables a step
\* that changes something written out.  The driver keeps its queue filled.
TimePasses == []<>(SelectAndPoll(s, 1) = s) \/ []<><<Later>>_vars
FairSpec == Spec /\ TimePasses /\ WF_vars(GuestProvides)

-----------------------------------------------------------------------------
\* The datagrams a port of the guest has sent out, and the addresses they went to.
AskedBy(d) ==
    {e.dst : e \in {Datagrams[s.sent[i].d] : i \in DOMAIN s.sent}
                   \cap {x \in Range(Datagrams) : /\ x.sport = Datagrams[d].sport
                                                  /\ x.src = Datagrams[d].src}}

FramesOf(d) == {f \in peers.frames : f.p # "arp" /\ f.data[1][1] = d}
Ids(d) == {f.id : f \in FramesOf(d)}

\* The datagrams that go out to a socket of the host.
Outbound(d) ==
    LET e == Datagrams[d]
    IN  e.ttl # 0 /\ (IF e.p = "udp" THEN e.dport # Bootps ELSE e.dst # Vhost)

\* Shares its id with no other datagram of the guest.
Alone(d) == \A c \in DOMAIN Datagrams \ {d} : Ids(c) \cap Ids(d) = {}

\* A datagram whose fragments have all come, in whatever order, goes out exactly
\* once and as it was, unless its queue ran out of time; one whose id is used by
\* another goes out at most once, and unharmed if it has a checksum.  (ip_reass)
DatagramsArrive ==
    \A d \in DOMAIN Datagrams : Outbound(d) =>
        LET out == {i \in DOMAIN s.sent : s.sent[i].d = d}
        IN  /\ Cardinality(out) <= 1
            /\ Alone(d) \/ Datagrams[d].ck => \A i \in out : s.sent[i].whole
            /\ /\ Alone(d) /\ Ids(d) \cap s.lost = {}
               /\ FramesOf(d) # {} /\ FramesOf(d) \cap todo = {}
               => Cardinality(out) = 1

\* What a received packet says of its datagram: its units are in their place, and
\* more fragments follow unless it has the last one.
WellPlaced(m, n) ==
    /\ \A j \in DOMAIN m.data : m.data[j][3] = m.off + j
    /\ m.mf = (EndOf(m) < n)

\* A send of the datagram has failed.
SendFailed(d) == \E i \in DOMAIN s.sent : s.sent[i].d = d /\ s.sent[i].fd = 0

\* Whatever the guest gets comes in answer to a datagram of its own: an answer goes
\* to the address and the port that sent it, from the port it was sent to, and from
\* the address too as long as this port has used one address only, and this not to
\* all hosts; an echo goes to the sender; long ones are cut so that they can be put
\* together.  An error comes from slirp and goes to the sender, with one exception:
\* an error about a datagram whose send has failed may go to an address that is
\* nobody's, as udp_input keeps that datagram with its start moved twice.
\* (udp_input's search for the socket, so_faddr, udp_output, ip_output, icmp_error)
Errors == {"net", "port", "timxceed"}
Answers(m) ==
    LET kind == m.data[1][1]
        d == m.data[1][2]
        e == Datagrams[d]
    IN  /\ kind = "answer" =>
             /\ m.dst = e.src /\ m.data[1][6] = e.sport /\ m.data[1][5] = e.dport
             /\ AskedBy(d) = {e.dst} /\ e.dst \notin {Broadcast, VnetBroadcast} => m.src = e.dst
             /\ WellPlaced(m, m.data[1][4])
        /\ kind = "echo" => /\ m.dst = e.src /\ m.src = e.dst
                            /\ e.p = "icmp" => WellPlaced(m, e.n)
        /\ kind \in Errors =>
             /\ m.src = Vhost
             /\ m.dst = e.src \/ (m.dst = "garbage" /\ SendFailed(d))
AnswersReachTheAsker == \A f \in s.got : f.p = "ip" => Answers(f.m)

\* The packets of a socket leave in the order in which they were queued, also when
\* it is put back behind the others while some of them wait: the sessions leave one
\* after the other as far as a socket is concerned.  (if_output, if_start)
SessionsLeaveInOrder ==
    LET q == s.fastq \o s.batchq
        Sooner(i, k, j, l) == i < j \/ (i = j /\ k < l)
    IN  \A i, j \in DOMAIN q : \A k \in DOMAIN q[i], l \in DOMAIN q[j] :
            LET e == q[i][k]
            IN  /\ e.sn > s.last[e.so]
                /\ e.so = q[j][l].so /\ Sooner(i, k, j, l) => e.sn < q[j][l].sn

\* An address granted to one client is never granted to another, whichever of
\* DISCOVER, REQUEST and BOOTP each of them sends, and stays in its name.  (bootp.c)
AddressesAreDistinct ==
    \A a \in s.acked :
        /\ s.leases[a[1]] = a[2]
        /\ \A b \in s.acked : a[1] = b[1] => a[2] = b[2]

\* Nothing stays behind: fragments that are not completed are given up, sockets
\* without traffic are closed, and what is queued reaches the guest once it makes
\* buffers available, though the device is not told of them.  (ip_slowtimo,
\* slirp_select_fill, the if_start at the end of slirp_select_poll)
Idle == s.ipq = <<>> /\ s.udb = <<>> /\ s.fastq = <<>> /\ s.batchq = <<>>
EverythingSettles == <>[]Idle
=============================================================================
