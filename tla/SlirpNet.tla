------------------------------ MODULE SlirpNet ------------------------------
(***************************************************************************)
(* One TCP connection through the user mode network: the guest's TCP, the  *)
(* link to it (slirp/if.c, the network device), slirp's end of the         *)
(* connection (SlirpTcp) and an application on the host behind a socket.   *)
(*   slirp   the socket and control block, `w' of SlirpTcp                 *)
(*   inq     segments the guest has sent (slirp.outq: those for it)        *)
(*   guest   external: the guest's TCP and the application above it        *)
(*   host    external: what the host's application has read and written    *)
(*   faults  how many segments may still be lost, or timeouts come early   *)
(* The actions of slirp are the steps of slirp_select_poll and slirp_input. *)
(***************************************************************************)
EXTENDS SlirpTcp

CONSTANTS Scenarios,              \* who opens, how many bytes go up and down,
                                  \* the faults (bound), whether the host may
                                  \* fail and the guest overruns the window
          GuestIss,               \* the guest's first sequence number (bound: in
                                  \* the upper half, where it is old against 0)
          GuestBuf,               \* its receive buffer
          MaxCwnd,                \* largest congestion window tried
          LinkCap                 \* bound: segments on the link each way

VARIABLES slirp, inq, guest, host, faults
vars == <<slirp, inq, guest, host, faults>>

\* The streams of the two applications.
GuestStream == [i \in 1 .. guest.bytes |-> i]
HostStream == [i \in 1 .. host.bytes |-> guest.bytes + i]

ClosedSocket == [open |-> FALSE, up |-> <<>>, down |-> <<>>, eof |-> FALSE,
                 peof |-> FALSE, err |-> FALSE, gone |-> FALSE]

Init ==
    /\ slirp = NewConnection(<<>>, ClosedSocket)
    /\ inq = <<>>
    /\ \E case \in Scenarios :
          /\ guest = [st |-> IF case.opens = "guest" THEN "SYN_SENT" ELSE "LISTEN",
                      una |-> GuestIss, nxt |-> GuestIss, max |-> GuestIss, wnd |-> 0,
                      rnxt |-> 0, rcvd |-> <<>>, read |-> 0, eof |-> FALSE,
                      ack |-> FALSE, bytes |-> case.up, overruns |-> case.overruns]
          /\ host = [rcvd |-> <<>>, sent |-> 0, bytes |-> case.down, fails |-> case.fails]
          /\ faults = case.faults

LinkFree == Len(inq) < LinkCap
OutFree == Len(slirp.outq) < LinkCap

\* Nothing is on its way: the next timeout is not early.
Quiet == inq = <<>> /\ slirp.outq = <<>> /\ ~guest.ack /\ "DELACK" \notin slirp.fl

\* A timeout comes when nothing is on its way, or is one of the early ones.
Timeout == \/ Quiet /\ UNCHANGED faults
           \/ ~Quiet /\ faults > 0 /\ faults' = faults - 1

-----------------------------------------------------------------------------
\* slirp_input: the next segment of the guest.
SlirpInput ==
    /\ inq # <<>> /\ OutFree
    /\ \E cwnd \in MaxSeg .. MaxCwnd,
          outcome \in IF slirp.sock.gone THEN {"ECONNREFUSED"}
                      ELSE {"EINPROGRESS", "ECONNREFUSED", "EHOSTUNREACH"} :
          slirp' = tcp_input(slirp, Head(inq), outcome, cwnd)
    /\ inq' = Tail(inq)
    /\ UNCHANGED <<guest, host, faults>>

\* The host's socket turns out connected, or failed, or the error is one that
\* passes: then the socket counts as neither, and only the timer of
\* TCPT_KEEP ends it.
CanConnect == "ISFCONNECTING" \in slirp.so /\ OutFree
PollConnect ==
    /\ CanConnect
    /\ \/ \E connected \in BOOLEAN :
             slirp' = [Continue(slirp, connected, MaxSeg) EXCEPT !.sock.open = @ \/ connected]
       \/ slirp' = [slirp EXCEPT !.so = @ \ {"ISFCONNECTING"}]
    /\ UNCHANGED <<inq, guest, host, faults>>

\* A connection to the forwarded port.
PollAccept ==
    /\ slirp.st = "NONE" /\ ~slirp.sock.gone /\ guest.st = "LISTEN"
    /\ slirp' = tcp_connect(slirp, MaxSeg)
    /\ UNCHANGED <<inq, guest, host, faults>>

CanRead == /\ SelectsRead(slirp) /\ OutFree
           /\ slirp.sock.down # <<>> \/ slirp.sock.peof \/ slirp.sock.err
PollRead ==
    /\ CanRead
    /\ \E cwnd \in MaxSeg .. MaxCwnd : slirp' = soread(slirp, cwnd)
    /\ UNCHANGED <<inq, guest, host, faults>>

CanWrite == /\ SelectsWrite(slirp) /\ OutFree
            /\ slirp.sock.err \/ Taken(slirp, 1) = 1
PollWrite ==
    /\ CanWrite
    /\ slirp' = sowrite(slirp, MaxSeg)
    /\ UNCHANGED <<inq, guest, host, faults>>

FastTimo ==
    /\ "DELACK" \in slirp.fl /\ OutFree
    /\ \E cwnd \in MaxSeg .. MaxCwnd : slirp' = tcp_fasttimo(slirp, cwnd)
    /\ UNCHANGED <<inq, guest, host, faults>>

\* tcp_slowtimo: a timer that is armed runs out.
SlowTimo ==
    /\ OutFree
    /\ \E timer \in slirp.tim :
          slirp' = tcp_timers(slirp, timer, MaxSeg)
    /\ Timeout
    /\ UNCHANGED <<inq, guest, host>>

\* The timer TCPT_KEEP, before the connection is established.
KeepTimo ==
    /\ slirp.st \in {"SYN_SENT", "SYN_RECEIVED"}
    /\ Quiet /\ OutFree
    /\ slirp' = tcp_timers(slirp, "KEEP", MaxSeg)
    /\ UNCHANGED <<inq, guest, host, faults>>

-----------------------------------------------------------------------------
\* The link loses the next segment, one way or the other.
Lose ==
    /\ faults > 0
    /\ faults' = faults - 1
    /\ \/ inq # <<>> /\ inq' = Tail(inq) /\ UNCHANGED slirp
       \/ slirp.outq # <<>> /\ slirp' = [slirp EXCEPT !.outq = Tail(@)] /\ UNCHANGED inq
    /\ UNCHANGED <<guest, host>>

-----------------------------------------------------------------------------
\* The guest's TCP: sends what the window allows, or more bytes but no FIN past
\* it; acknowledges what it gets, keeps only what comes in order, and goes back
\* to snd_una after a timeout.
GuestWindow == GuestBuf - (Len(guest.rcvd) - guest.read)
GuestSegment(seq, flags, bytes) ==
    Segment(seq, guest.rnxt, flags, GuestWindow, bytes)

GuestSyn ==
    /\ guest.st \in {"SYN_SENT", "SYN_RCVD"} /\ guest.nxt = GuestIss /\ LinkFree
    /\ inq' = Append(inq, GuestSegment(GuestIss, IF guest.st = "SYN_SENT" THEN {"SYN"}
                                                 ELSE {"SYN", "ACK"}, <<>>))
    /\ guest' = [guest EXCEPT !.nxt = Plus(GuestIss, 1), !.max = Plus(GuestIss, 1)]
    /\ UNCHANGED <<slirp, host, faults>>

\* Position in the stream of the next byte to send; the FIN follows the last.
GuestPos == Minus(guest.nxt, GuestIss)
GuestRoom == Minus(Plus(guest.una, guest.wnd), guest.nxt)

GuestSentFin == Minus(guest.max, GuestIss) = guest.bytes + 2

GuestPut(n, fin) ==
    LET nxt == Plus(guest.nxt, n + IF fin THEN 1 ELSE 0)
    IN  /\ n > 0 \/ fin
        /\ fin => GuestPos + n = guest.bytes + 1
        /\ inq' = Append(inq, GuestSegment(guest.nxt, IF fin THEN {"FIN", "ACK"} ELSE {"ACK"},
                                           SubSeq(GuestStream, GuestPos, GuestPos + n - 1)))
        /\ guest' = [guest EXCEPT !.nxt = nxt, !.ack = FALSE,
                                  !.max = IF SEQ_GT(nxt, @) THEN nxt ELSE @]
        /\ UNCHANGED <<slirp, host, faults>>

GuestSend ==
    /\ guest.st = "ESTABLISHED" /\ LinkFree
    /\ \E n \in 0 .. MaxSeg, fin \in BOOLEAN :
          /\ n <= GuestRoom \/ guest.overruns
          /\ fin => n + 1 <= GuestRoom
          /\ GuestPos + n <= guest.bytes + 1
          /\ GuestPut(n, fin)

\* One byte, or the FIN, into a closed window.
GuestProbe ==
    /\ guest.st = "ESTABLISHED" /\ LinkFree /\ Quiet
    /\ guest.wnd = 0 /\ guest.nxt = guest.una /\ GuestPos <= guest.bytes + 1
    /\ IF GuestPos <= guest.bytes THEN GuestPut(1, FALSE) ELSE GuestPut(0, TRUE)

\* (numbered inside the window, also after a probe)
GuestAck ==
    /\ guest.st = "ESTABLISHED" /\ guest.ack /\ LinkFree
    /\ LET edge == Plus(guest.una, guest.wnd)
           seq == IF SEQ_GT(guest.max, edge) THEN edge ELSE guest.max
       IN  inq' = Append(inq, GuestSegment(seq, {"ACK"}, <<>>))
    /\ guest' = [guest EXCEPT !.ack = FALSE]
    /\ UNCHANGED <<slirp, host, faults>>

GuestTimeout ==
    /\ guest.st \in {"SYN_SENT", "SYN_RCVD", "ESTABLISHED"} /\ guest.nxt # guest.una
    /\ guest' = [guest EXCEPT !.nxt = guest.una]
    /\ Timeout
    /\ UNCHANGED <<slirp, inq, host>>

GuestRead ==
    /\ guest.read < Len(guest.rcvd)
    /\ guest' = [guest EXCEPT !.read = Len(guest.rcvd), !.ack = @ \/ GuestWindow = 0]
    /\ UNCHANGED <<slirp, inq, host, faults>>

\* What the guest makes of a segment.
Acknowledged(g, s) ==
    IF "ACK" \in s.fl /\ ~SEQ_LT(s.ack, g.una) /\ SEQ_LEQ(s.ack, g.max)
    THEN [g EXCEPT !.una = s.ack, !.wnd = s.win, !.nxt = IF SEQ_LT(@, s.ack) THEN s.ack ELSE @]
    ELSE g
Accepted(g, s) ==
    LET skip == Minus(g.rnxt, s.seq)
        n == Least(Len(s.data) - skip, GuestWindow)
        whole == skip + n = Len(s.data) /\ "FIN" \in s.fl
    IN  IF s.data = <<>> /\ "FIN" \notin s.fl
        THEN [g EXCEPT !.ack = @ \/ s.seq # g.rnxt]
        ELSE IF skip < 0 \/ n < 0 \/ g.eof THEN [g EXCEPT !.ack = TRUE]
        ELSE [g EXCEPT !.rcvd = @ \o SubSeq(s.data, skip + 1, skip + n), !.ack = TRUE,
                       !.rnxt = Plus(@, n + IF whole THEN 1 ELSE 0), !.eof = whole]

GuestTakes(s) ==
    CASE "RST" \in s.fl ->
            [guest EXCEPT !.st = IF @ = "LISTEN" THEN @ ELSE "RESET"]
      [] guest.st = "LISTEN" /\ "RST" \notin s.fl ->
            [guest EXCEPT !.st = "SYN_RCVD", !.rnxt = Plus(s.seq, 1)]
      [] guest.st = "SYN_SENT" /\ s.fl = {"SYN", "ACK"} /\ s.ack = Plus(GuestIss, 1) ->
            [guest EXCEPT !.st = "ESTABLISHED", !.rnxt = Plus(s.seq, 1), !.ack = TRUE,
                          !.una = s.ack, !.nxt = s.ack, !.wnd = s.win]
      [] guest.st = "SYN_RCVD" /\ s.fl = {"SYN"} -> [guest EXCEPT !.nxt = GuestIss]
      [] guest.st = "SYN_RCVD" /\ "ACK" \in s.fl /\ s.ack = Plus(GuestIss, 1) ->
            Accepted([Acknowledged(guest, s) EXCEPT !.st = "ESTABLISHED"], s)
      [] guest.st = "ESTABLISHED" /\ "SYN" \in s.fl -> [guest EXCEPT !.ack = TRUE]
      [] guest.st = "ESTABLISHED" /\ s.fl \cap {"SYN", "RST"} = {} ->
            Accepted(Acknowledged(guest, s), s)
      [] OTHER -> guest

\* if_start hands the guest the next segment.
LinkOutput ==
    /\ slirp.outq # <<>>
    /\ guest' = GuestTakes(Head(slirp.outq))
    /\ slirp' = [slirp EXCEPT !.outq = Tail(@)]
    /\ UNCHANGED <<inq, host, faults>>

-----------------------------------------------------------------------------
\* The application on the host.
HostWrite ==
    /\ slirp.sock.open /\ ~slirp.sock.gone /\ ~slirp.sock.peof /\ ~slirp.sock.err
    /\ IF host.sent < host.bytes
       THEN /\ Len(slirp.sock.down) < KernelBuf
            /\ host' = [host EXCEPT !.sent = @ + 1]
            /\ slirp' = [slirp EXCEPT !.sock.down = Append(@, HostStream[host.sent + 1])]
       ELSE slirp' = [slirp EXCEPT !.sock.peof = TRUE] /\ UNCHANGED host
    /\ UNCHANGED <<inq, guest, faults>>

HostRead ==
    /\ slirp.sock.up # <<>>
    /\ host' = [host EXCEPT !.rcvd = @ \o slirp.sock.up]
    /\ slirp' = [slirp EXCEPT !.sock.up = <<>>]
    /\ UNCHANGED <<inq, guest, faults>>

HostAbort ==
    /\ host.fails /\ slirp.sock.open /\ ~slirp.sock.gone /\ ~slirp.sock.err
    /\ slirp' = [slirp EXCEPT !.sock.err = TRUE, !.sock.down = <<>>]
    /\ UNCHANGED <<inq, guest, host, faults>>

-----------------------------------------------------------------------------
SlirpNext == SlirpInput \/ PollConnect \/ PollAccept \/ PollRead \/ PollWrite
             \/ FastTimo \/ SlowTimo \/ KeepTimo
GuestNext == GuestSyn \/ GuestSend \/ GuestProbe \/ GuestAck \/ GuestTimeout \/ GuestRead
             \/ LinkOutput
Next == SlirpNext \/ GuestNext \/ Lose \/ HostWrite \/ HostRead \/ HostAbort
Spec == Init /\ [][Next]_vars

\* The select loop of slirp keeps running. Its steps end what enables them, so
\* that fairness of each is that it does not stay enabled for ever.
SlirpFairness ==
    /\ WF_inq(inq # <<>> /\ OutFree /\ inq' = Tail(inq))
    /\ []<>~CanConnect /\ []<>~CanRead /\ []<>~CanWrite
    /\ []<>~("DELACK" \in slirp.fl /\ OutFree)
    /\ <>[]~(slirp.tim # {} /\ OutFree /\ Quiet) \/ []<><<SlowTimo>>_vars
Fairness ==
    /\ SlirpFairness
    /\ WF_vars(GuestSyn) /\ WF_vars(GuestSend) /\ WF_vars(GuestProbe)
    /\ WF_vars(GuestAck) /\ WF_vars(GuestTimeout) /\ WF_vars(GuestRead)
    /\ WF_vars(LinkOutput) /\ WF_vars(HostWrite) /\ WF_vars(HostRead)
FairSpec == Spec /\ Fairness

-----------------------------------------------------------------------------
\* Every byte the guest sent, as far as slirp has taken it.
Upward == host.rcvd \o slirp.sock.up \o slirp.rcv

\* What each application reads is a prefix of what the other wrote, with
\* segments lost, repeated, overlapping or cut to the window on the way, a slow
\* socket and so_rcv between them; and the end of a stream is passed on only
\* after all its bytes (tcp_reass, sbappend, sowrite, FWDRAIN; tcp_output's
\* FIN).  It is about guests that send no FIN past the window: of a segment with
\* one that is cut, the code takes the FIN (tcp_input.c:89).
StreamsIntact ==
    /\ IsPrefix(Upward, GuestStream)
    /\ IsPrefix(guest.rcvd, HostStream)
    /\ slirp.sock.eof /\ ~slirp.sock.gone /\ ~slirp.sock.err =>
          Upward = GuestStream /\ GuestSentFin
    /\ guest.eof /\ ~slirp.sock.err => guest.rcvd = HostStream

\* While the socket takes data, rcv_nxt counts exactly the bytes of the guest
\* that are with the host or kept for it: none is acknowledged and lost.
\* (again of guests that send no FIN past the window)
Taking == HaveEstablished(slirp.st) /\ "ISFCONNECTED" \in slirp.so
          /\ "FCANTSENDMORE" \notin slirp.so
AcknowledgedIsKept ==
    Taking => Len(Upward) = Least(Minus(slirp.rnxt, GuestIss) - 1, guest.bytes)

\* A window on its way to the guest promises no byte that so_rcv has no room
\* for, whatever was taken since it was sent, where a long has 32 bits as on the
\* ESP32 (a wider one reads rcv_adv - rcv_nxt as unsigned, tcp_output.c:365).
WindowIsStorable ==
    Taking => \A i \in DOMAIN slirp.outq :
        LET s == slirp.outq[i] IN
        "ACK" \in s.fl /\ "RST" \notin s.fl =>
            Minus(Plus(s.ack, s.win), slirp.rnxt) <= sbspace(slirp)

\* A connection the guest sees established ends: slirp frees it, and the guest
\* has got the host's whole stream and its end, or a reset, or the host failed.
\* Zero windows, lost window updates and lost FINs must not stop it.
ConnectionEnds ==
    guest.st = "ESTABLISHED" ~>
        /\ slirp.st = "NONE"
        /\ guest.st = "RESET" \/ slirp.sock.err \/ (guest.rcvd = HostStream /\ guest.eof)

=============================================================================
