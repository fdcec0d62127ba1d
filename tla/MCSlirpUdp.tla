----------------------------- MODULE MCSlirpUdp -----------------------------
(***************************************************************************)
(* Instance of SlirpUdp: what a small guest sends, in any order.           *)
(***************************************************************************)
EXTENDS SlirpUdp, TLC

Udp(src, sport, dst, dport, n, ck, low) ==
    [p |-> "udp", src |-> src, sport |-> sport, dst |-> dst, dport |-> dport, n |-> n,
     ck |-> ck, low |-> low, ttl |-> 64, echo |-> FALSE, msg |-> [type |-> "none"]]
Ping(dst, n, ttl) ==
    [Udp("g1", 0, dst, 0, n, TRUE, FALSE) EXCEPT !.p = "icmp", !.ttl = ttl, !.echo = TRUE]
Dhcp(type, mac, addr) ==
    [Udp("g0", 68, "broadcast", Bootps, 1, TRUE, FALSE) EXCEPT
        !.msg = [type |-> type, mac |-> mac, addr |-> addr]]

MCDatagrams ==
    [big |-> Udp("g1", 100, "far", 7, 4, FALSE, FALSE),
     old |-> Udp("g1", 100, "far", 7, 3, TRUE, FALSE),
     new |-> Udp("g1", 101, "far", 8, 3, TRUE, FALSE),
     a |-> Udp("g1", 100, "far", 7, 1, TRUE, FALSE),
     b |-> Udp("g2", 100, "near", 7, 1, TRUE, FALSE),
     c |-> Udp("g1", 100, "vdns", 53, 1, TRUE, FALSE),
     all |-> Udp("g1", 100, "vnetcast", 7, 1, TRUE, FALSE),
     q |-> Udp("g1", 102, "vdns", 53, 1, TRUE, TRUE),
     r |-> Udp("g1", 103, "vdns", 53, 1, TRUE, TRUE),
     ping |-> Ping("far", 3, 64), here |-> Ping("vhost", 3, 64), trace |-> Ping("far", 2, 0),
     d1 |-> Dhcp("discover", "m1", 0), d2 |-> Dhcp("discover", "m2", 1),
     r1 |-> Dhcp("request", "m1", 0), r2 |-> Dhcp("request", "m2", 1),
     b3 |-> Dhcp("bootp", "m3", 0)]

\* The fragment of datagram d that has its units from first to last.
Frame(d, id, first, last) ==
    LET e == MCDatagrams[d]
    IN  [p |-> e.p, src |-> e.src, dst |-> e.dst, id |-> id, off |-> first - 1,
         mf |-> last < e.n, data |-> [i \in 1 .. last - first + 1 |-> <<d, first + i - 1>>]]
One(d, id) == Frame(d, id, 1, MCDatagrams[d].n)
Arp == [p |-> "arp", op |-> "request", tip |-> "vhost", mac |-> "m1"]

Case(frames, answer, answers, errors) ==
    [frames |-> frames, answer |-> answer, answers |-> answers, errors |-> errors]

MCScenarios ==
    {\* a datagram in overlapping fragments, as after a retransmission
     Case({Frame("big", 1, 1, 1), Frame("big", 1, 2, 3), Frame("big", 1, 3, 4),
           Frame("big", 1, 1, 2)}, 1, 0, 0),
     \* two datagrams with one id, cut differently
     Case({Frame("old", 1, 1, 1), Frame("old", 1, 2, 3), Frame("new", 1, 1, 2),
           Frame("new", 1, 3, 3)}, 1, 0, 0),
     \* two addresses of the guest and one port; two peers
     Case({Arp, One("a", 1), One("b", 2)}, 1, 2, 0),
     \* a long answer, errors, an expired socket
     Case({Arp, One("a", 1)}, 3, 2, 1),
     \* one port talks to a host and to the name server's alias
     Case({Arp, One("a", 1), One("c", 2)}, 1, 2, 0),
     Case({One("a", 1), One("c", 2)}, 1, 1, 2),
     \* one port talks to all hosts of the network and to a host elsewhere
     Case({Arp, One("all", 1), One("a", 2)}, 1, 2, 0),
     \* pings
     Case({Arp, Frame("ping", 1, 1, 2), Frame("ping", 1, 3, 3)}, 1, 1, 1),
     Case({Frame("here", 1, 1, 2), Frame("here", 1, 3, 3), One("trace", 2)}, 1, 0, 0),
     \* DHCP
     Case({One("d1", 1), One("r1", 2), One("d2", 3), One("r2", 4), One("b3", 5)}, 1, 0, 0),
     \* long answers to sessions with low delay
     Case({Arp, One("q", 1), One("r", 2)}, 5, 2, 0)}
=============================================================================
