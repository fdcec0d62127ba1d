----------------------------- MODULE SlirpTcp ------------------------------
(***************************************************************************)
(* The TCP of the user mode network (slirp/socket.c, sbuf.c, tcp_input.c,  *)
(* tcp_output.c, tcp_subr.c, tcp_timer.c): what each routine does to one   *)
(* struct socket and its struct tcpcb, as one record w.  Of the socket:    *)
(*   so    so_state, a set of SS_ flags                                    *)
(*   snd   so_snd: bytes read from the host's socket, kept until the guest *)
(*         acknowledges them                                               *)
(*   rcv   so_rcv: bytes of the guest the host's socket did not take yet   *)
(*   sock  the host's socket so->s (external): up, bytes the host has not  *)
(*         read; down, bytes slirp has not read; eof, shutdown(1) or close *)
(*         was called; peof, the host stopped sending; err, the host reset *)
(*         the connection                                                  *)
(* The ring layout of a struct sbuf is abstracted to the sequence of bytes *)
(* it holds.  Of the control block:                                        *)
(*   st               t_state, "NONE" when there is no socket              *)
(*   una, nxt, max    snd_una, snd_nxt, snd_max                            *)
(*   wnd, maxwnd      snd_wnd, max_sndwnd    wl1, wl2  snd_wl1, snd_wl2    *)
(*   rnxt, adv        rcv_nxt, rcv_adv       frags     seg_next list       *)
(*   tim   armed timers    shift  t_rxtshift    rtt    <<t_rtseq>> or <<>> *)
(*   dup   t_dupacks       fl     t_flags       syn    <<so_ti>> or <<>>   *)
(*   mss   t_maxseg                                                        *)
(* and outq, the segments if_output queued for the guest.  A segment has   *)
(* seq, ack, fl (its flags), win and data (a sequence of bytes).  Sequence *)
(* numbers are the integers modulo SeqSpace.  The congestion window is not *)
(* kept: a routine that sends is given any window of at least one segment; *)
(* round-trip estimates, options, urgent data and so_emu are left out.     *)
(***************************************************************************)
EXTENDS Integers, SequencesExt, FiniteSets

(* socket.c and sbuf.c.                                                      *)

CONSTANTS SndSpace,   \* so_snd.sb_datalen
          RcvSpace,   \* so_rcv.sb_datalen
          KernelBuf   \* bytes the host's kernel buffers for an application

Least(a, b) == IF a < b THEN a ELSE b

sbspace(w) == RcvSpace - Len(w.rcv)

sbdrop(w, n) == [w EXCEPT !.snd = SubSeq(@, Least(n, Len(@)) + 1, Len(@))]

-----------------------------------------------------------------------------
\* send(): takes what the kernel has room for, or fails.
Taken(w, n) == IF w.sock.err \/ w.sock.eof THEN 0
               ELSE Least(n, KernelBuf - Len(w.sock.up))

slirp_send(w, bytes) == [w EXCEPT !.sock.up = @ \o bytes]

sbappendsb(w, bytes) ==
    [w EXCEPT !.rcv = @ \o SubSeq(bytes, 1, Least(Len(bytes), sbspace(w)))]

\* Faulty: writes past the bytes already waiting for the socket.
sbappendOvertakes(w, bytes) ==
    LET n == Taken(w, Len(bytes))
    IN  sbappendsb(slirp_send(w, SubSeq(bytes, 1, n)), SubSeq(bytes, n + 1, Len(bytes)))

\* Straight to the socket if nothing waits, the rest into so_rcv.
sbappend(w, bytes) ==
    LET n == IF w.rcv = <<>> THEN Taken(w, Len(bytes)) ELSE 0
    IN  sbappendsb(slirp_send(w, SubSeq(bytes, 1, n)), SubSeq(bytes, n + 1, Len(bytes)))

-----------------------------------------------------------------------------
\* sofcantrcvmore, sofcantsendmore: one direction of the host's socket ends;
\* after the second the socket is no longer selected.
sofcantrcvmore(w) ==
    [w EXCEPT !.so = IF "FCANTSENDMORE" \in @ THEN {"NOFDREF"}
                     ELSE (@ \ {"ISFCONNECTING"}) \cup {"FCANTRCVMORE"}]

sofcantsendmore(w) ==
    [w EXCEPT !.sock.eof = @ \/ "NOFDREF" \notin w.so,
              !.so = IF "FCANTRCVMORE" \in @ THEN {"NOFDREF"}
                     ELSE (@ \ {"ISFCONNECTING"}) \cup {"FCANTSENDMORE"}]

\* The guest sent FIN: the host's end of stream waits for so_rcv to drain.
sofwdrain(w) == IF w.rcv # <<>> THEN [w EXCEPT !.so = @ \cup {"FWDRAIN"}]
                ELSE sofcantsendmore(w)

soisfconnecting(w) ==
    [w EXCEPT !.so = (@ \ {"NOFDREF", "ISFCONNECTED", "FCANTRCVMORE",
                           "FCANTSENDMORE", "FWDRAIN"}) \cup {"ISFCONNECTING"}]

soisfconnected(w) ==
    [w EXCEPT !.so = (@ \ {"ISFCONNECTING", "FWDRAIN", "NOFDREF"}) \cup {"ISFCONNECTED"}]

\* CONN_CANFSEND, CONN_CANFRCV and the room test of slirp_select_fill.
SelectsWrite(w) == "ISFCONNECTED" \in w.so /\ "FCANTSENDMORE" \notin w.so /\ w.rcv # <<>>
SelectsRead(w) == /\ "ISFCONNECTED" \in w.so
                  /\ "FCANTRCVMORE" \notin w.so
                  /\ Len(w.snd) < SndSpace \div 2

-----------------------------------------------------------------------------
CONSTANTS SeqSpace,       \* 2^32 in the code
          WinMod,       \* 2^16 in the code
          LongIs64,     \* whether a long is wider than a sequence number
          MaxSeg,       \* TCP_MSS
          MinSeg,       \* below it (32) the retransmissions give up
          SlirpIss,     \* tcp_iss
          MaxRxtShift   \* TCP_MAXRXTSHIFT

Plus(a, n) == (a + n) % SeqSpace

\* (int)(a - b)
Minus(a, b) == LET d == (a + SeqSpace - b) % SeqSpace
               IN  IF d < SeqSpace \div 2 THEN d ELSE d - SeqSpace

SEQ_LT(a, b) == Minus(a, b) < 0
SEQ_GT(a, b) == Minus(a, b) > 0
SEQ_LEQ(a, b) == ~SEQ_GT(a, b)

Segment(seq, ack, flags, win, bytes) ==
    [seq |-> seq, ack |-> ack, fl |-> flags, win |-> win, data |-> bytes]

\* The states after CLOSE_WAIT.
Finishing == {"FIN_WAIT_1", "CLOSING", "LAST_ACK", "FIN_WAIT_2", "TIME_WAIT"}
HaveEstablished(st) == st \in {"ESTABLISHED", "CLOSE_WAIT"} \cup Finishing

\* A fresh socket and control block: socreate, tcp_attach, tcp_newtcpcb.
NewConnection(outq, sock) ==
    [st |-> "NONE", so |-> {"NOFDREF"}, snd |-> <<>>, rcv |-> <<>>, sock |-> sock,
     una |-> 0, nxt |-> 0, max |-> 0, wnd |-> 0, maxwnd |-> 0, wl1 |-> 0, wl2 |-> 0,
     rnxt |-> 0, adv |-> 0, frags |-> <<>>, tim |-> {}, shift |-> 0, rtt |-> <<>>,
     dup |-> 0, fl |-> {}, syn |-> <<>>, mss |-> MaxSeg, outq |-> outq]

\* if_output: at the end of the queue to the guest.
if_output(w, seg) == [w EXCEPT !.outq = Append(@, seg)]

tcp_respond(w, ack, seq, flags) ==
    if_output(w, Segment(seq, ack, flags, IF w.st = "NONE" THEN 0 ELSE sbspace(w), <<>>))

\* dropwithreset
Reset(w, seg) ==
    IF "ACK" \in seg.tif THEN tcp_respond(w, 0, seg.ack, {"RST"})
    ELSE LET n == Len(seg.data) + IF "SYN" \in seg.tif THEN 1 ELSE 0
         IN  tcp_respond(w, Plus(seg.seq, n), 0, {"RST", "ACK"})

-----------------------------------------------------------------------------
tcp_outflags == [CLOSED |-> {"RST", "ACK"}, SYN_SENT |-> {"SYN"},
                 SYN_RECEIVED |-> {"SYN", "ACK"}, ESTABLISHED |-> {"ACK"},
                 CLOSE_WAIT |-> {"ACK"}, FIN_WAIT_1 |-> {"FIN", "ACK"},
                 CLOSING |-> {"FIN", "ACK"}, LAST_ACK |-> {"FIN", "ACK"},
                 FIN_WAIT_2 |-> {"ACK"}, TIME_WAIT |-> {"ACK"}]

\* Faulty: backs off, but never starts the timer.
tcp_setpersistUnarmed(w) == [w EXCEPT !.shift = Least(@ + 1, MaxRxtShift)]

tcp_setpersist(w) == [w EXCEPT !.tim = @ \cup {"PERSIST"},
                               !.shift = Least(@ + 1, MaxRxtShift)]

\* What tcp_output has to send: off, len, flags and sendalot.
Pending(w, force, cwnd) ==
    LET off == Minus(w.nxt, w.una)
        cc == Len(w.snd)
        win == IF force /\ Least(w.wnd, cwnd) = 0 THEN 1 ELSE Least(w.wnd, cwnd)
        avail == Least(cc, win) - off
        len == IF avail < 0 THEN 0 ELSE Least(avail, w.mss)
        shut == avail < 0 /\ win = 0          \* pull snd_nxt back
        nxt == IF shut THEN w.una ELSE w.nxt
        probe == force /\ Least(w.wnd, cwnd) = 0 /\ off < cc
        left == SEQ_LT(Plus(nxt, len), Plus(w.una, cc))
    IN  [off |-> off, len |-> len, more |-> avail > w.mss, shut |-> shut, nxt |-> nxt,
         fl |-> tcp_outflags[w.st] \ (IF probe \/ left THEN {"FIN"} ELSE {})]

\* (long)(rcv_adv - rcv_nxt), an unsigned difference: once the guest has sent
\* past what was advertised, a wider long takes it for a huge window.
Known(w) == IF LongIs64 THEN (w.adv + SeqSpace - w.rnxt) % SeqSpace ELSE Minus(w.adv, w.rnxt)

\* The window the guest does not know of yet.
Growth(w) == sbspace(w) - Known(w)

MustSend(w, p, force) ==
    \/ /\ p.len > 0
       /\ \/ p.len = w.mss
          \/ p.len + p.off >= Len(w.snd)
          \/ force
          \/ p.len >= w.maxwnd \div 2 /\ w.maxwnd > 0
          \/ SEQ_LT(w.nxt, w.max)
    \/ sbspace(w) > 0 /\ (Growth(w) >= 2 * w.mss \/ 2 * Growth(w) >= RcvSpace)
    \/ "ACKNOW" \in w.fl
    \/ p.fl \cap {"SYN", "RST"} # {}
    \/ "FIN" \in p.fl /\ ("SENTFIN" \notin w.fl \/ w.nxt = w.una)

\* Faulty: advertises the whole buffer, whatever waits in it.
AdvertisedWhole(w) == IF RcvSpace < Known(w) THEN Known(w) ELSE RcvSpace

\* The window to advertise: no silly ones, and never less than before.
AdvertisedWindow(w) ==
    LET space == sbspace(w)
        win == IF space < RcvSpace \div 4 /\ space < w.mss THEN 0 ELSE space
    IN  IF win < Known(w) THEN Known(w) ELSE win

\* snd_nxt, snd_max and the timers after sending len bytes and flags.
Sent(w, len, flags, force) ==
    IF force /\ "PERSIST" \in w.tim
    THEN [w EXCEPT !.max = IF SEQ_GT(Plus(w.nxt, len), @) THEN Plus(w.nxt, len) ELSE @]
    ELSE LET nxt == Plus(w.nxt, len + Cardinality(flags \cap {"SYN", "FIN"}))
             new == SEQ_GT(nxt, w.max)
             arm == "REXMT" \notin w.tim /\ nxt # w.una
         IN  [w EXCEPT !.nxt = nxt,
                       !.max = IF new THEN nxt ELSE @,
                       !.rtt = IF new /\ @ = <<>> THEN <<w.nxt>> ELSE @,
                       !.fl = IF "FIN" \in flags THEN @ \cup {"SENTFIN"} ELSE @,
                       !.shift = IF arm /\ "PERSIST" \in w.tim THEN 0 ELSE @,
                       !.tim = IF arm THEN (@ \ {"PERSIST"}) \cup {"REXMT"} ELSE @]

\* The label send: of tcp_output, one segment.
Emit(w0, p, force) ==
    LET again == "FIN" \in p.fl /\ "SENTFIN" \in w0.fl /\ w0.nxt = w0.max
        w == [w0 EXCEPT !.nxt = IF "SYN" \in p.fl THEN SlirpIss
                                ELSE IF again THEN Plus(@, SeqSpace - 1) ELSE @]
        bytes == SubSeq(w.snd, p.off + 1, p.off + p.len)
        useNxt == p.len > 0 \/ p.fl \cap {"SYN", "FIN"} # {} \/ "PERSIST" \in w.tim
        win == AdvertisedWindow(w)
        seg == Segment(IF useNxt THEN w.nxt ELSE w.max, w.rnxt, p.fl, win % WinMod, bytes)
        s == if_output(Sent(w, p.len, p.fl, force), seg)
    IN  [s EXCEPT !.adv = IF win > 0 /\ SEQ_GT(Plus(w.rnxt, win), @)
                          THEN Plus(w.rnxt, win) ELSE @,
                  !.fl = @ \ {"ACKNOW", "DELACK"}]

RECURSIVE Output(_, _, _)
Output(w0, force, cwnd) ==
    LET p == Pending(w0, force, cwnd)
        w == [w0 EXCEPT !.nxt = p.nxt,
                        !.tim = @ \ ((IF force /\ Least(w0.wnd, cwnd) > 0 THEN {"PERSIST"}
                                      ELSE {}) \cup IF p.shut THEN {"REXMT"} ELSE {}),
                        !.shift = IF force /\ Least(w0.wnd, cwnd) > 0 THEN 0 ELSE @]
    IN  IF MustSend(w, p, force)
        THEN LET s == Emit(w, p, force) IN IF p.more THEN Output(s, force, cwnd) ELSE s
        ELSE IF w.snd # <<>> /\ w.tim \cap {"REXMT", "PERSIST"} = {}
        THEN tcp_setpersist([w EXCEPT !.shift = 0])
        ELSE w

tcp_output(w, cwnd) == Output(w, FALSE, cwnd)

-----------------------------------------------------------------------------
\* Frees the socket and closes the host's.
tcp_close(w) == NewConnection(w.outq, [w.sock EXCEPT !.eof = TRUE, !.down = <<>>,
                                                     !.gone = TRUE])

tcp_drop(w, cwnd) ==
    IF w.st \in {"CLOSED", "LISTEN", "SYN_SENT"} THEN tcp_close(w)
    ELSE tcp_close(tcp_output([w EXCEPT !.st = "CLOSED"], cwnd))

\* The host's side ended: send FIN.
tcp_sockclosed(w, cwnd) ==
    CASE w.st \in {"CLOSED", "LISTEN", "SYN_SENT"} -> tcp_close(w)
      [] w.st \in {"SYN_RECEIVED", "ESTABLISHED"} ->
            tcp_output([w EXCEPT !.st = "FIN_WAIT_1"], cwnd)
      [] w.st = "CLOSE_WAIT" -> tcp_output([w EXCEPT !.st = "LAST_ACK"], cwnd)
      [] OTHER -> tcp_output(w, cwnd)

\* Reads what the host sent, as far as there is room, or learns it stopped.
soread(w, cwnd) ==
    LET free == SndSpace - Len(w.snd)
        room == IF free > w.mss THEN free - (free % w.mss) ELSE free   \* sopreprbuf
        n == Least(room, Len(w.sock.down))
    IN  IF w.sock.err \/ w.sock.down = <<>>
        THEN tcp_sockclosed(sofcantrcvmore(w), cwnd)
        ELSE tcp_output([w EXCEPT !.snd = @ \o SubSeq(w.sock.down, 1, n),
                                  !.sock.down = SubSeq(@, n + 1, Len(@))], cwnd)

\* Writes what the socket takes of so_rcv; a drained stream ends here.
sowrite(w, cwnd) ==
    IF w.sock.err THEN tcp_sockclosed(sofcantsendmore(w), cwnd)
    ELSE LET n == Taken(w, Len(w.rcv))
             s == [slirp_send(w, SubSeq(w.rcv, 1, n)) EXCEPT !.rcv = SubSeq(@, n + 1, Len(@))]
         IN  IF "FWDRAIN" \in s.so /\ s.rcv = <<>> THEN sofcantsendmore(s) ELSE s

\* A connection from the host is accepted: SYN to the guest.
tcp_connect(w, cwnd) ==
    tcp_output([w EXCEPT !.st = "SYN_SENT", !.sock.open = TRUE, !.una = SlirpIss,
                         !.nxt = SlirpIss, !.max = SlirpIss], cwnd)

-----------------------------------------------------------------------------
\* tcp_timers for a timer that ran out.
tcp_timers(w0, timer, cwnd) ==
    LET w == [w0 EXCEPT !.tim = @ \ {timer}] IN
    CASE timer = "2MSL" -> tcp_close(w)          \* (or armed again: not idle for long)
      [] timer = "KEEP" -> tcp_drop(w, cwnd)     \* before ESTABLISHED; armed again later
      [] timer = "PERSIST" -> Output(tcp_setpersist(w), TRUE, cwnd)
      [] timer = "REXMT" ->
            LET last == w.shift >= MaxRxtShift
                mss == IF last THEN w.mss \div 2 ELSE w.mss
            IN  IF mss < MinSeg THEN tcp_drop(w, cwnd)
                ELSE tcp_output([w EXCEPT !.shift = IF last THEN MaxRxtShift \div 2 ELSE @ + 1,
                                          !.mss = mss, !.tim = @ \cup {"REXMT"},
                                          !.nxt = w.una, !.rtt = <<>>, !.dup = 0], cwnd)

tcp_fasttimo(w, cwnd) ==
    tcp_output([w EXCEPT !.fl = (@ \ {"DELACK"}) \cup {"ACKNOW"}], cwnd)
-----------------------------------------------------------------------------
\* m_adj and ti_seq, ti_len: a segment without its first n bytes.
Behind(seg, n) == [seg EXCEPT !.seq = Plus(@, n), !.data = SubSeq(@, n + 1, Len(@))]

\* The queue with new between the segments before it and those after it, of
\* which it replaces what it covers.
Splice(before, new, after) ==
    LET Over(f) == Minus(Plus(new.seq, Len(new.data)), f.seq)
        kept == SelectSeq(after, LAMBDA f : Over(f) < Len(f.data) \/ Over(f) <= 0)
        Cut(f) == IF Over(f) > 0 THEN Behind(f, Over(f)) ELSE f
    IN  before \o <<new>> \o [i \in DOMAIN kept |-> Cut(kept[i])]

\* How many bytes of a segment at seq the segments before it hold.
Have(before, seq) ==
    IF before = <<>> THEN 0 ELSE Minus(Plus(Last(before).seq, Len(Last(before).data)), seq)

\* What tcp_reass does with a segment that starts before or in queued ones:
\* the queue with the new bytes of seg in their place.
InsertAfter(before, after, seg, have) ==
    IF have > 0 /\ have >= Len(seg.data) THEN before \o after
    ELSE Splice(before, IF have > 0 THEN Behind(seg, have) ELSE seg, after)

Insert(frags, seg) ==
    LET before == SelectSeq(frags, LAMBDA f : SEQ_LEQ(f.seq, seg.seq))
        after == SelectSeq(frags, LAMBDA f : SEQ_GT(f.seq, seg.seq))
    IN  InsertAfter(before, after, seg, Have(before, seg.seq))

\* present: hands the in-order head of the queue to the socket; `fin' is the
\* FIN flag of the last segment handed over.
RECURSIVE Present(_, _)
Present(w, fin) ==
    IF w.frags = <<>> \/ ~HaveEstablished(w.st) THEN [w |-> w, fin |-> fin]
    ELSE LET f == Head(w.frags)
             s == [w EXCEPT !.frags = Tail(@), !.rnxt = Plus(@, Len(f.data))]
         IN  IF f.seq # w.rnxt THEN [w |-> w, fin |-> fin]
             ELSE Present(IF "FCANTSENDMORE" \in w.so THEN s ELSE sbappend(s, f.data),
                          "FIN" \in f.fl)

\* TCP_REASS
Reassemble(w, seg) ==
    IF seg.seq = w.rnxt /\ w.frags = <<>> /\ w.st = "ESTABLISHED"
    THEN [w |-> sbappend([w EXCEPT !.fl = @ \cup {"DELACK"},
                                   !.rnxt = Plus(@, Len(seg.data))], seg.data),
          fin |-> "FIN" \in seg.fl]
    ELSE [Present([w EXCEPT !.frags = Insert(@, seg)], FALSE)
          EXCEPT !.w.fl = @ \cup {"ACKNOW"}]

-----------------------------------------------------------------------------
\* The duplicate and out-of-window parts of a segment are cut off; `tif' is
\* tiflags, the flags the rest of tcp_input looks at, TCP_REASS excepted.
TrimHead(seg, rnxt) ==
    LET todrop == Minus(rnxt, seg.seq)
        syn == todrop > 0 /\ "SYN" \in seg.tif
        s == IF syn THEN [seg EXCEPT !.seq = Plus(@, 1), !.tif = @ \ {"SYN"}] ELSE seg
        rest == IF syn THEN todrop - 1 ELSE todrop
        whole == \/ rest > Len(s.data)
                 \/ rest = Len(s.data) /\ "FIN" \notin s.tif
    IN  IF todrop <= 0 THEN [seg |-> seg, dup |-> FALSE]
        ELSE IF whole THEN [seg |-> [Behind(s, Len(s.data)) EXCEPT !.tif = @ \ {"FIN"}],
                            dup |-> TRUE]
        ELSE [seg |-> Behind(s, rest), dup |-> FALSE]

\* rcv_wnd
ReceiveWindow(w) == LET known == Minus(w.adv, w.rnxt)
                    IN  IF known > sbspace(w) THEN known ELSE sbspace(w)

Overhang(w, seg) == Minus(Plus(seg.seq, Len(seg.data)), Plus(w.rnxt, ReceiveWindow(w)))

TrimTail(seg, n) == [seg EXCEPT !.data = SubSeq(@, 1, Len(@) - n), !.tif = @ \ {"FIN"}]

\* Header prediction: a plain acknowledgement, or plain data in order.
Plain(w, seg) ==
    /\ w.st = "ESTABLISHED"
    /\ seg.fl = {"ACK"}
    /\ seg.seq = w.rnxt
    /\ seg.win # 0 /\ seg.win = w.wnd
    /\ w.nxt = w.max
PlainAck(w, seg, cwnd) == /\ Plain(w, seg) /\ seg.data = <<>>
                          /\ SEQ_GT(seg.ack, w.una) /\ SEQ_LEQ(seg.ack, w.max)
                          /\ cwnd >= w.wnd
\* Faulty: plain data is taken whether or not there is room.
PlainDataAnyRoom(w, seg) ==
    Plain(w, seg) /\ seg.data # <<>> /\ seg.ack = w.una /\ w.frags = <<>>

PlainData(w, seg) == /\ Plain(w, seg) /\ seg.data # <<>>
                     /\ seg.ack = w.una
                     /\ w.frags = <<>>
                     /\ Len(seg.data) <= sbspace(w)

\* tcp_xmit_timer: a measured round trip ends the backoff.
Timed(w, ack) == IF w.rtt # <<>> /\ SEQ_GT(ack, w.rtt[1])
                 THEN [w EXCEPT !.rtt = <<>>, !.shift = 0] ELSE w

RexmtAfterAck(w, ack) ==
    [w EXCEPT !.tim = IF ack = w.max THEN @ \ {"REXMT"}
                      ELSE IF "PERSIST" \notin @ THEN @ \cup {"REXMT"} ELSE @]

TakePlainAck(w, seg, cwnd) ==
    LET s == [sbdrop(Timed(w, seg.ack), Minus(seg.ack, w.una)) EXCEPT !.una = seg.ack]
        t == RexmtAfterAck(s, seg.ack)
    IN  IF t.snd # <<>> THEN tcp_output(t, cwnd) ELSE t

TakePlainData(w, seg, cwnd) ==
    tcp_output([sbappend([w EXCEPT !.rnxt = Plus(@, Len(seg.data))], seg.data)
                EXCEPT !.fl = @ \cup {"ACKNOW"}], cwnd)

-----------------------------------------------------------------------------
\* From dodata: on: the text, the FIN, and any answer owed.
TakeFin(w) ==
    LET s == [sofwdrain(w) EXCEPT !.fl = @ \cup {"ACKNOW"}, !.rnxt = Plus(@, 1)]
    IN  CASE w.st \in {"SYN_RECEIVED", "ESTABLISHED"} -> [s EXCEPT !.st = "CLOSE_WAIT"]
          [] w.st = "FIN_WAIT_1" -> [s EXCEPT !.st = "CLOSING"]
          [] w.st = "FIN_WAIT_2" -> [s EXCEPT !.st = "TIME_WAIT", !.tim = {"2MSL"}]
          [] OTHER -> s

AfterText(r) == IF r.fin THEN TakeFin(r.w) ELSE r.w

Answer(w, need, cwnd) == IF need \/ "ACKNOW" \in w.fl THEN tcp_output(w, cwnd) ELSE w

TakeText(w, seg, need, cwnd) ==
    Answer(IF w.st # "TIME_WAIT" /\ (seg.data # <<>> \/ "FIN" \in seg.tif)
           THEN AfterText(Reassemble(w, seg)) ELSE w, need, cwnd)

\* step6: the send window, from the newest segment only.
Step6(w, seg, need, cwnd) ==
    LET newer == \/ SEQ_LT(w.wl1, seg.seq)
                 \/ w.wl1 = seg.seq /\ SEQ_LT(w.wl2, seg.ack)
                 \/ w.wl1 = seg.seq /\ w.wl2 = seg.ack /\ seg.win > w.wnd
        update == "ACK" \in seg.tif /\ newer
    IN  TakeText(IF update
                 THEN [w EXCEPT !.wnd = seg.win, !.wl1 = seg.seq, !.wl2 = seg.ack,
                                !.maxwnd = IF seg.win > @ THEN seg.win ELSE @]
                 ELSE w, seg, need \/ update, cwnd)

DropAfterAck(w, seg, cwnd) ==
    IF "RST" \in seg.tif THEN w
    ELSE tcp_output([w EXCEPT !.fl = @ \cup {"ACKNOW"}], cwnd)

\* An acknowledgement of bytes sent, from synrx_to_est: on.
FinAcked(w) ==
    CASE w.st = "FIN_WAIT_1" ->
            [w EXCEPT !.st = "FIN_WAIT_2",
                      !.tim = IF "FCANTRCVMORE" \in w.so THEN @ \cup {"2MSL"} ELSE @]
      [] w.st = "CLOSING" -> [w EXCEPT !.st = "TIME_WAIT", !.tim = {"2MSL"}]
      [] OTHER -> w

AfterAck(w, seg, finAcked, cwnd) ==
    CASE w.st = "LAST_ACK" /\ finAcked -> tcp_close(w)
      [] w.st = "TIME_WAIT" -> DropAfterAck([w EXCEPT !.tim = @ \cup {"2MSL"}], seg, cwnd)
      [] OTHER -> Step6(IF finAcked THEN FinAcked(w) ELSE w, seg, seg.ack = w.max, cwnd)

NewAck(w0, seg, cwnd) ==
    LET w == RexmtAfterAck(Timed([w0 EXCEPT !.dup = 0], seg.ack), seg.ack)
        acked == Minus(seg.ack, w0.una)
        n == Least(acked, Len(w0.snd))
        s == [sbdrop(w, n) EXCEPT !.wnd = Plus(@, SeqSpace - n), !.una = seg.ack,
                                  !.nxt = IF SEQ_LT(@, seg.ack) THEN seg.ack ELSE @]
    IN  IF SEQ_GT(seg.ack, w0.max) THEN DropAfterAck([w0 EXCEPT !.dup = 0], seg, cwnd)
        ELSE AfterAck(s, seg, acked > Len(w0.snd), cwnd)

\* An acknowledgement of nothing new; the third in a row retransmits.
OldAck(w, seg, cwnd) ==
    LET same == seg.data = <<>> /\ seg.win = w.wnd
        counts == same /\ "REXMT" \in w.tim /\ seg.ack = w.una
        s == [w EXCEPT !.dup = IF counts THEN Least(@ + 1, 4) ELSE 0]
        r == tcp_output([s EXCEPT !.tim = @ \ {"REXMT"}, !.rtt = <<>>, !.nxt = seg.ack], w.mss)
    IN  CASE counts /\ s.dup = 3 -> [r EXCEPT !.nxt = IF SEQ_GT(w.nxt, @) THEN w.nxt ELSE @]
          [] counts /\ s.dup > 3 -> tcp_output(s, cwnd)
          [] OTHER -> Step6(s, seg, FALSE, cwnd)

Establish(w, seg) ==
    LET s == soisfconnected([w EXCEPT !.st = "ESTABLISHED", !.una = seg.ack])
    IN  [Present(s, FALSE).w EXCEPT !.wl1 = Plus(seg.seq, SeqSpace - 1)]

AckProcessing(w, seg, cwnd) ==
    LET opening == w.st = "SYN_RECEIVED"
    IN  IF opening /\ (SEQ_GT(w.una, seg.ack) \/ SEQ_GT(seg.ack, w.max)) THEN Reset(w, seg)
        ELSE IF ~opening /\ SEQ_LEQ(seg.ack, w.una) THEN OldAck(w, seg, cwnd)
        ELSE NewAck(IF opening THEN Establish(w, seg) ELSE w, seg, cwnd)

InWindow(w, seg, cwnd) ==
    IF "RST" \in seg.tif THEN tcp_close(w)
    ELSE IF "SYN" \in seg.tif THEN Reset(tcp_drop(w, cwnd), seg)
    ELSE IF "ACK" \notin seg.tif THEN w
    ELSE AckProcessing(w, seg, cwnd)

\* The states after SYN_SENT, from the trimming of the segment on.
Synchronized(w0, seg0, cwnd) ==
    LET head == TrimHead(seg0, w0.rnxt)
        over == Overhang(w0, head.seg)
        cut == over > 0
        edge == ReceiveWindow(w0) = 0 /\ head.seg.seq = w0.rnxt
        seg == IF cut THEN TrimTail(head.seg, Least(over, Len(head.seg.data))) ELSE head.seg
        w == [w0 EXCEPT !.fl = IF head.dup \/ (cut /\ over >= Len(head.seg.data))
                               THEN @ \cup {"ACKNOW"} ELSE @]
    IN  IF "NOFDREF" \in w.so /\ w.st \in Finishing /\ head.seg.data # <<>>
        THEN Reset(tcp_close(w), head.seg)
        ELSE IF cut /\ over >= Len(head.seg.data) /\ ~edge THEN DropAfterAck(w, head.seg, cwnd)
        ELSE InWindow(w, seg, cwnd)

-----------------------------------------------------------------------------
\* trimthenstep6, for a SYN that is taken.
TrimThenStep6(w, seg, cwnd) ==
    LET over == Len(seg.data) - ReceiveWindow(w)
        s == [seg EXCEPT !.seq = Plus(@, 1)]
    IN  Step6([w EXCEPT !.wl1 = seg.seq], IF over > 0 THEN TrimTail(s, over) ELSE s, FALSE, cwnd)

\* SYN_SENT, the answer to a connection from the host. (rcv_wnd is computed
\* before rcv_nxt and rcv_adv are set, with both still 0.)
SynSent(w, seg, cwnd) ==
    LET acks == "ACK" \in seg.tif
        una == IF acks THEN seg.ack ELSE w.una
        s == [w EXCEPT !.una = una, !.nxt = IF SEQ_LT(@, una) THEN una ELSE @,
                       !.tim = @ \ {"REXMT"}, !.rnxt = Plus(seg.seq, 1),
                       !.adv = Plus(seg.seq, 1), !.fl = @ \cup {"ACKNOW"}]
    IN  IF acks /\ (SEQ_LEQ(seg.ack, SlirpIss) \/ SEQ_GT(seg.ack, w.max)) THEN Reset(w, seg)
        ELSE IF "RST" \in seg.tif THEN IF acks THEN tcp_drop(w, cwnd) ELSE w
        ELSE IF "SYN" \notin seg.tif THEN w
        ELSE TrimThenStep6(IF acks
                           THEN Timed(soisfconnected([s EXCEPT !.st = "ESTABLISHED"]), seg.ack)
                           ELSE [s EXCEPT !.st = "SYN_RECEIVED"], seg, cwnd)

\* cont_conn: the connect of a guest's SYN has ended.
Continue(w, connected, cwnd) ==
    LET seg == w.syn[1]
        s == [w EXCEPT !.so = @ \ {"ISFCONNECTING"}, !.syn = <<>>]
        t == [s EXCEPT !.una = SlirpIss, !.nxt = SlirpIss, !.max = SlirpIss,
                       !.rnxt = Plus(seg.seq, 1), !.adv = Plus(seg.seq, 1),
                       !.fl = @ \cup {"ACKNOW"}, !.st = "SYN_RECEIVED"]
    IN  IF connected THEN TrimThenStep6(t, seg, cwnd)
        ELSE Reset(tcp_close(s), seg)

\* A segment for which there is no socket: a SYN starts a connection, with
\* `outcome' what connect() says at once.
NoSocket(w, seg, outcome) ==
    IF seg.tif # {"SYN"} THEN Reset(w, seg)
    ELSE CASE outcome = "EINPROGRESS" ->
                [soisfconnecting(w) EXCEPT !.st = "SYN_RECEIVED", !.syn = <<seg>>]
           [] outcome = "ECONNREFUSED" ->
                tcp_close(tcp_respond(w, Plus(seg.seq, 1), 0, {"RST", "ACK"}))
           [] OTHER -> tcp_close(w)

tcp_input(w, segment, outcome, cwnd) ==
    LET seg == [seq |-> segment.seq, ack |-> segment.ack, fl |-> segment.fl,
                win |-> segment.win, data |-> segment.data, tif |-> segment.fl]
    IN  CASE w.st = "NONE" -> NoSocket(w, seg, outcome)
          [] w.st # "NONE" /\ "ISFCONNECTING" \in w.so -> w
          [] w.st = "SYN_SENT" -> SynSent(w, seg, cwnd)
          [] PlainAck(w, seg, cwnd) -> TakePlainAck(w, seg, cwnd)
          [] PlainData(w, seg) -> TakePlainData(w, seg, cwnd)
          [] OTHER -> Synchronized(w, seg, cwnd)
=============================================================================
