----------------------------- MODULE TcpSession -----------------------------
(***************************************************************************)
(* One TCP session of the native engine (cpp/tcp.c): the engine answers    *)
(* the app's TCP over the tun device and relays its bytes over a socket of *)
(* its own.  The event loop (cpp/session.c) serves the session in rounds:  *)
(* monitor_tcp_session, check_tcp_session, then epoll_wait, whose report   *)
(* for the socket (pending) is handled before, between or after any number *)
(* of packets read from tun.                                               *)
(***************************************************************************)
EXTENDS AppTcp, SequencesExt

CONSTANTS Ports,      \* destination ports: 80, 443 or any other
          LocalIsns,  \* what rand() may return for the local ISN
          Mss,        \* largest segment the app accepts
          MaxDown,    \* how many bytes the server sends at most
          Request,    \* the shortest data patch_http_url may rewrite: 3 bytes, for find_data
          Faults      \* calls that may fail: "open", "tun", "epoll", "send", "recv"

ASSUME SessionAssumption ==
  /\ Ports \subseteq Nat
  /\ LocalIsns \subseteq 0 .. Half - 1  \* RAND_MAX is 0x7FFFFFFF
  /\ Mss \in Nat \ {0}
  /\ MaxDown \in Nat
  /\ Request \in Nat \ {0}

States == {"LISTEN", "SYN_RECV", "ESTABLISHED", "CLOSE_WAIT", "FIN_WAIT1",
           "LAST_ACK", "CLOSING", "CLOSE"}

\* Why the engine writes a RST.
Causes == {"none", "CONNECT", "was closed", "data while closed", "future ACK",
           "socket error", "CONNECT refused", "recv error", "close with queue",
           "timeout"}

\* struct segment
QueuedSegment == [seq : Seq32, len : Nat, sent : Nat]

VARIABLES
  registered,    \* the session is in the list ng_session
  phase,         \* where the event loop is: "check" or "dispatch"
  dest,          \* struct tcp_session's dest, and so on
  state, connect_sent, local_seq, remote_seq, acked, send_window, recv_window,
  forward,       \* the segments queued for the socket
  socket,        \* the session's socket is open (socket >= 0)
  events,        \* what epoll watches the socket for, beside EPOLLERR
  pending,       \* what epoll_wait reported for the socket, not handled yet
  upstream,      \* history: offsets of the bytes the socket has taken, in order
  downstream,    \* history: how many bytes recv has returned
  cause          \* history: why the engine last wrote a RST

seqs == <<local_seq, remote_seq, acked>>
link == <<registered, dest, socket, events>>
history == <<upstream, downstream, cause>>
vars == <<app, phase, link, state, connect_sent, seqs, send_window, recv_window,
          forward, pending, history>>

\* The outcomes of a call: TRUE, and FALSE if it is one of those that may fail.
Outcomes(call) == {TRUE} \cup {FALSE : f \in Faults \cap {call}}

closed == state \in {"CLOSING", "CLOSE"}

\* Port 443 goes through the proxy's CONNECT first.
connecting == dest = 443 /\ connect_sent # "ESTABLISHED"

-----------------------------------------------------------------------------
\* Writing to tun.

\* The packet write_tcp builds.
write_tcp(flags, lseq, rseq, n) ==
  [syn |-> "SYN" \in flags, ack |-> "ACK" \in flags, fin |-> "FIN" \in flags,
   rst |-> "RST" \in flags, seq |-> lseq,
   ack_seq |-> IF "ACK" \in flags THEN rseq ELSE 0,
   len |-> n]

\* write_rst on a session in state st, with a the app at that point: the SYN is
\* counted when the app has had no answer to it, and a CLOSE session stays CLOSE.
write_rst(a, st, rseq, why) ==
  LET r == IF st = "LISTEN" THEN Uint(rseq + 1) ELSE rseq
      flags == IF st = "LISTEN" THEN {"RST", "ACK"} ELSE {"RST"}
  IN  /\ remote_seq' = r
      /\ state' = IF st = "CLOSE" THEN "CLOSE" ELSE "CLOSING"
      /\ \E ok \in Outcomes("tun") :
           app' = IF ok THEN Receive(a, write_tcp(flags, local_seq, r, 0)) ELSE a
      /\ cause' = why

\* Mutant: the result of the write is not looked at.
write_unchecked(a, st, flags, lseq, rseq, n, ok) ==
  /\ state' = st
  /\ app' = IF ok THEN Receive(a, write_tcp(flags, lseq, rseq, n)) ELSE a

\* write_ack, write_syn_ack, write_fin_ack, write_data: the state becomes st, or
\* CLOSING if tun does not take the packet.
write_or_close(a, st, flags, lseq, rseq, n, ok) ==
  /\ state' = IF ok THEN st ELSE "CLOSING"
  /\ app' = IF ok THEN Receive(a, write_tcp(flags, lseq, rseq, n)) ELSE a

-----------------------------------------------------------------------------
\* Mutant: what is on its way is not counted.
whole_window == send_window

\* The window the app leaves open, less what is on its way.
get_send_window ==
  LET behind == IF compare_u32(acked, local_seq) <= 0
                THEN Uint(local_seq - acked) ELSE acked
  IN  IF behind < send_window THEN send_window - behind ELSE 0

\* Where a segment numbered seq goes: before the first that does not precede it.
position(fw, seq) ==
  LET behind == {n \in 1 .. Len(fw) : compare_u32(fw[n].seq, seq) >= 0}
  IN  CHOOSE n \in behind \cup {Len(fw) + 1} :
        \A m \in behind \cup {Len(fw) + 1} : n <= m

\* queue_tcp: sorted by sequence number.  A segment with the number of a queued
\* one is dropped; a longer one replaces the data but not the length.
queue_tcp(fw, rseq, p) ==
  LET n == position(fw, p.seq)
  IN  IF \/ compare_u32(p.seq, rseq) < 0
         \/ n <= Len(fw) /\ fw[n].seq = p.seq
      THEN fw
      ELSE InsertAt(fw, n, [seq |-> p.seq, len |-> p.len, sent |-> 0])

-----------------------------------------------------------------------------
(* handle_tcp: a packet read from tun. *)

\* A SYN that finds no session, and the socket it opens.
NewSession(p) ==
  /\ ~registered /\ p.syn
  /\ \E opened \in Outcomes("open") : registered' = opened
  /\ IF ~registered'
     THEN UNCHANGED <<app, dest, socket, events, state, connect_sent, seqs,
                      send_window, recv_window, forward>>
     ELSE /\ app' = Sent(p)
          /\ dest' \in Ports
          /\ state' = "LISTEN"
          /\ connect_sent' = IF dest' = 80 THEN "ESTABLISHED" ELSE "NOT_SENT"
          /\ remote_seq' = p.seq
          /\ local_seq' \in LocalIsns
          /\ acked' = 0
          /\ send_window' = p.window
          /\ recv_window' \in {0, 1}
          /\ forward' = IF p.len > 0
                        THEN <<[seq |-> p.seq, len |-> p.len, sent |-> 0]>>
                        ELSE <<>>
          /\ socket' = TRUE
          /\ events' = {"OUT"}
  /\ UNCHANGED <<pending, history>>

\* Any other packet that finds no session is answered with a RST.
UnknownSession(p) ==
  /\ ~registered /\ ~p.syn
  /\ \E ok \in Outcomes("tun") :
       app' = IF ok
              THEN Receive(Sent(p), write_tcp({"RST"}, p.ack_seq,
                     Uint(p.seq + p.len + (IF p.fin THEN 1 ELSE 0)), 0))
              ELSE Sent(p)
  /\ UNCHANGED <<link, state, connect_sent, seqs, send_window, recv_window,
                 forward, pending, history>>

\* Mutant: the CONNECT is sent whether the socket is still open or not.
ConnectAnyway ==
  /\ connect_sent = "NOT_SENT"
  /\ connect_sent' = "SENT"
  /\ state' = "LISTEN"

\* Mutant: the proxy is taken to have agreed.
ConnectOptimistic ==
  /\ connect_sent = "NOT_SENT" /\ socket
  /\ connect_sent' = "SENT"
  /\ state' = "ESTABLISHED"

SendConnect ==
  /\ connect_sent = "NOT_SENT" /\ socket
  /\ connect_sent' = "SENT"
  /\ state' = "LISTEN"

\* Port 443 before the proxy has accepted the CONNECT: the first packet sends it,
\* whatever the state, and every packet is queued and otherwise ignored.
ConnectPhase(p) ==
  /\ registered /\ connecting
  /\ \/ /\ SendConnect
        /\ app' = Sent(p)
        /\ UNCHANGED <<remote_seq, cause>>
     \/ /\ connect_sent = "NOT_SENT"  \* send fails: closed, or not yet connected
        /\ write_rst(Sent(p), state, remote_seq, "CONNECT")
        /\ UNCHANGED connect_sent
     \/ /\ connect_sent = "SENT"
        /\ app' = Sent(p)
        /\ UNCHANGED <<connect_sent, state, remote_seq, cause>>
  /\ forward' = queue_tcp(forward, remote_seq', p)
  /\ UNCHANGED <<link, local_seq, acked, send_window, recv_window, pending,
                 upstream, downstream>>

\* A packet for a session that has been closed.
WasClosed(p) ==
  /\ registered /\ ~connecting /\ closed
  /\ write_rst(Sent(p), state, remote_seq, "was closed")
  /\ UNCHANGED <<link, connect_sent, local_seq, acked, send_window, recv_window,
                 forward, pending, upstream, downstream>>

\* Data after either end has closed.
refused(p) == p.len > 0 /\ (~socket \/ state = "CLOSE_WAIT")

DataRefused(p) ==
  /\ registered /\ ~connecting /\ ~closed /\ refused(p)
  /\ send_window' = p.window
  /\ write_rst(Sent(p), state, remote_seq, "data while closed")
  /\ UNCHANGED <<link, connect_sent, local_seq, acked, recv_window, forward,
                 pending, upstream, downstream>>

\* What every other packet does to an open session.
Accept(p) ==
  /\ registered /\ ~connecting /\ ~closed /\ ~refused(p)
  /\ send_window' = p.window
  /\ forward' = IF p.len > 0 THEN queue_tcp(forward, remote_seq, p) ELSE forward
  /\ UNCHANGED <<link, connect_sent, local_seq, recv_window, pending,
                 upstream, downstream>>

ReceiveRst(p) ==
  /\ p.rst
  /\ Accept(p)
  /\ state' = "CLOSING"
  /\ app' = Sent(p)
  /\ UNCHANGED <<remote_seq, acked, cause>>

current(p) == ~p.ack \/ p.ack_seq = local_seq

RepeatedSyn(p) ==
  /\ p.syn /\ ~p.rst /\ current(p)
  /\ Accept(p)
  /\ app' = Sent(p)
  /\ UNCHANGED <<state, remote_seq, acked, cause>>

\* Mutant: a FIN is confirmed without a look at the queue.
confirmable_always == state \in {"ESTABLISHED", "FIN_WAIT1"}

\* Mutant: a FIN that is repeated is counted once more.
confirmable_again ==
  \/ state = "ESTABLISHED" /\ forward' = <<>>
  \/ state \in {"CLOSE_WAIT", "FIN_WAIT1"}

\* A FIN is confirmed at once unless data is still queued before it.
confirmable ==
  \/ state = "ESTABLISHED" /\ forward' = <<>>
  \/ state = "FIN_WAIT1"

ReceiveFin(p) ==
  /\ p.fin /\ ~p.syn /\ ~p.rst /\ current(p)
  /\ Accept(p)
  /\ \/ /\ confirmable
        /\ remote_seq' = Uint(remote_seq + 1)
        /\ LET next == IF state = "FIN_WAIT1" THEN "CLOSE" ELSE "CLOSE_WAIT"
           IN  \E ok \in Outcomes("tun") :
                 write_or_close(Sent(p), next, {"ACK"}, local_seq, remote_seq', 0, ok)
     \/ /\ state = "ESTABLISHED" /\ forward' # <<>>
        /\ state' = "CLOSE_WAIT"
        /\ app' = Sent(p)
        /\ UNCHANGED remote_seq
     \/ /\ state \notin {"ESTABLISHED", "FIN_WAIT1"}
        /\ app' = Sent(p)
        /\ UNCHANGED <<state, remote_seq>>
  /\ UNCHANGED <<acked, cause>>

ReceiveAck(p) ==
  /\ p.ack /\ ~p.fin /\ ~p.syn /\ ~p.rst /\ current(p)
  /\ Accept(p)
  /\ acked' = p.ack_seq
  /\ state' = CASE state = "SYN_RECV" -> "ESTABLISHED"
                [] state = "LAST_ACK" -> "CLOSING"
                [] OTHER -> state
  /\ app' = Sent(p)
  /\ UNCHANGED <<remote_seq, cause>>

\* An acknowledgement of less than everything; one byte less is a keep alive.
PreviousAck(p) ==
  /\ ~p.rst /\ ~current(p)
  /\ \/ Uint(p.ack_seq + 1) = local_seq
     \/ compare_u32(p.ack_seq, local_seq) < 0
  /\ Accept(p)
  /\ acked' = IF /\ Uint(p.ack_seq + 1) # local_seq
                 /\ compare_u32(p.ack_seq, acked) > 0
              THEN p.ack_seq ELSE acked
  /\ app' = Sent(p)
  /\ UNCHANGED <<state, remote_seq, cause>>

FutureAck(p) ==
  /\ ~p.rst /\ ~current(p)
  /\ Uint(p.ack_seq + 1) # local_seq
  /\ compare_u32(p.ack_seq, local_seq) > 0
  /\ Accept(p)
  /\ write_rst(Sent(p), state, remote_seq, "future ACK")
  /\ UNCHANGED acked

handle_tcp(p) ==
  \/ NewSession(p) \/ UnknownSession(p)
  \/ ConnectPhase(p) \/ WasClosed(p) \/ DataRefused(p)
  \/ ReceiveRst(p) \/ RepeatedSyn(p) \/ ReceiveFin(p)
  \/ ReceiveAck(p) \/ PreviousAck(p) \/ FutureAck(p)

-----------------------------------------------------------------------------
(* check_tcp_socket: what epoll_wait reported for the socket. *)

SocketError ==
  /\ "ERR" \in pending
  /\ write_rst(app, state, remote_seq, "socket error")
  /\ UNCHANGED <<socket, connect_sent, local_seq, acked, recv_window, forward,
                 upstream, downstream>>

\* Mutant: the SYN of the engine is not counted.
ConnectedUncounted ==
  /\ "ERR" \notin pending /\ state = "LISTEN" /\ "IN" \notin pending
  /\ remote_seq' = Uint(remote_seq + 1)
  /\ \E ok \in Outcomes("tun") :
       write_or_close(app, "SYN_RECV", {"SYN", "ACK"}, local_seq, remote_seq', 0, ok)
  /\ UNCHANGED <<socket, connect_sent, local_seq, acked, recv_window, forward, history>>

\* The socket is writable: connected.
Connected ==
  /\ "ERR" \notin pending /\ state = "LISTEN" /\ "IN" \notin pending
  /\ remote_seq' = Uint(remote_seq + 1)
  /\ \E ok \in Outcomes("tun") :
       /\ write_or_close(app, "SYN_RECV", {"SYN", "ACK"}, local_seq, remote_seq', 0, ok)
       /\ local_seq' = IF ok THEN Uint(local_seq + 1) ELSE local_seq
  /\ UNCHANGED <<socket, connect_sent, acked, recv_window, forward, history>>

\* Mutant: a closing session reads the answer as well.
answered_late == "IN" \in pending /\ state \in {"LISTEN", "CLOSING"}

answered == "IN" \in pending /\ state = "LISTEN"

\* The proxy's answer to the CONNECT: anything but the twelve bytes of a 200
\* status line, an error and an early end included, is a refusal.  A listening session
\* waits for EPOLLIN only once the CONNECT is sent.
ConnectReply ==
  /\ "ERR" \notin pending /\ answered
  /\ \/ /\ connect_sent = "SENT"
        /\ connect_sent' = "ESTABLISHED"
        /\ state' = "SYN_RECV"
        /\ UNCHANGED <<app, remote_seq, cause>>
     \/ /\ write_rst(app, state, remote_seq, "CONNECT refused")
        /\ UNCHANGED connect_sent
  /\ UNCHANGED <<socket, local_seq, acked, recv_window, forward, upstream, downstream>>

\* Mutant: the queue is sent whether it continues at remote_seq or not.
sendable_any(k) == k \in Nat

\* remote_seq once the first k segments have been forwarded, and whether the loop
\* gets that far: it stops at a segment that does not start at remote_seq.
reached(k) ==
  IF k = 0 THEN remote_seq ELSE Uint(forward[k].seq + forward[k].len)
sendable(k) ==
  \A i \in 1 .. k : Uint(forward[i].seq + forward[i].sent) = reached(i - 1)

\* What send is given of a segment: the offsets of bytes i .. j of it.
bytes(seg, i, j) ==
  [b \in 1 .. j - i |-> Uint(seg.seq + i + b - 1 - app.isn)]

\* patch_http_url puts the host into a request to port 80, which makes it longer; which of
\* the n bytes left of a segment are one is a choice.
rewritten(n) == dest = 80 /\ n >= Request

\* How many bytes of a segment send has taken when the next n count as sent: those.  Of a
\* request made longer, what send takes counts as bytes of the segment, so that a partial
\* send takes fewer of them than are counted.  The comparison sent > len, which limits the
\* count to the segment, also turns a -1 into the whole of it.
taken(seg, n) ==
  LET unsent == seg.len - seg.sent
  IN  {n} \cup {k \in 1 .. n : rewritten(unsent)}
          \cup {k \in {0} : "send" \in Faults /\ n = unsent}

\* How far the forwarding loop gets: c.whole segments leave the queue, and c.part bytes
\* of the next one are counted as sent.
Advances ==
  {c \in [whole : 0 .. Len(forward), part : 0 .. MaxSeg] :
     /\ sendable(c.whole)
     /\ c.part > 0 => /\ c.whole < Len(forward) /\ sendable(c.whole + 1)
                      /\ LET next == forward[c.whole + 1]
                         IN  c.part < next.len - next.sent}

\* What the socket takes of each of these segments.
Taken(c) ==
  {t \in [1 .. c.whole + 1 -> 0 .. MaxSeg] :
     /\ \A i \in 1 .. c.whole : t[i] \in taken(forward[i], forward[i].len - forward[i].sent)
     /\ t[c.whole + 1] \in IF c.part = 0 THEN {0} ELSE taken(forward[c.whole + 1], c.part)}

ForwardChoices ==
  UNION {{[whole |-> c.whole, part |-> c.part, took |-> t] : t \in Taken(c)} : c \in Advances}

NoForward == [whole |-> 0, part |-> 0, took |-> <<0>>]

\* The queue and remote_seq as the loop leaves them, and the bytes the socket has taken.
Forwarding(c) ==
  LET rest == SubSeq(forward, c.whole + 1, Len(forward))
      sent == [i \in 1 .. c.whole |->
                 bytes(forward[i], forward[i].sent, forward[i].sent + c.took[i])]
      some == IF c.part = 0 THEN <<>>
              ELSE bytes(rest[1], rest[1].sent, rest[1].sent + c.took[c.whole + 1])
  IN  [queue |-> IF c.part = 0 THEN rest
                 ELSE [rest EXCEPT ![1].sent = @ + c.part],
       seq   |-> Uint(reached(c.whole) + c.part),
       bytes |-> FlattenSeq(sent) \o some]

\* Mutant: a session is read from in any state.
readable_any(st) == st \in States /\ "IN" \in pending /\ get_send_window > 0

\* The read half, on the session as the write half has left it: state st, queue fw,
\* remote_seq r and the app a.
readable(st) ==
  st \in {"ESTABLISHED", "CLOSE_WAIT"} /\ "IN" \in pending /\ get_send_window > 0

NoRead(st, r, a) ==
  /\ state' = st /\ remote_seq' = r /\ app' = a
  /\ UNCHANGED <<socket, local_seq, downstream, cause>>

ReadData(st, r, a) ==
  /\ remote_seq' = r
  /\ \E n \in 1 .. Mss, ok \in Outcomes("tun") :
       /\ n <= get_send_window /\ downstream + n <= MaxDown
       /\ write_or_close(a, st, {"ACK"}, local_seq, r, n, ok)
       /\ local_seq' = IF ok THEN Uint(local_seq + n) ELSE local_seq
       /\ downstream' = downstream + n
  /\ UNCHANGED <<socket, cause>>

\* The server has closed: FIN, or RST if the app's data has not all gone out.
ReadEof(st, r, a, fw) ==
  /\ socket' = FALSE
  /\ \/ /\ fw = <<>>
        /\ remote_seq' = r
        /\ \E ok \in Outcomes("tun") :
             /\ write_or_close(a, IF st = "ESTABLISHED" THEN "FIN_WAIT1" ELSE "LAST_ACK",
                               {"FIN", "ACK"}, local_seq, r, 0, ok)
             /\ local_seq' = IF ok THEN Uint(local_seq + 1) ELSE local_seq
        /\ UNCHANGED cause
     \/ /\ fw # <<>>
        /\ write_rst(a, st, r, "close with queue")
        /\ UNCHANGED local_seq
  /\ UNCHANGED downstream

ReadError(st, r, a) ==
  /\ "recv" \in Faults
  /\ write_rst(a, st, r, "recv error")
  /\ UNCHANGED <<socket, local_seq, downstream>>

Read(st, r, a, fw) ==
  \/ NoRead(st, r, a)  \* not readable, or EAGAIN
  \/ readable(st) /\ (ReadData(st, r, a) \/ ReadEof(st, r, a, fw) \/ ReadError(st, r, a))

\* Forward what can be, acknowledge it if tun is ok, then read; window is what
\* get_receive_window returns.
ForwardAndRead(c, window, ok) ==
  LET f == Forwarding(c)
      fwd == c.whole > 0 \/ c.part > 0
      confirm == fwd \/ (recv_window = 0 /\ window > 0)
      r == IF fwd /\ f.queue = <<>> /\ state = "CLOSE_WAIT"
           THEN Uint(f.seq + 1)  \* the FIN that waited for the queue
           ELSE f.seq
      st == IF confirm /\ ~ok THEN "CLOSING" ELSE state
      ack == write_tcp({"ACK"}, local_seq, r, 0)
  IN  /\ forward' = f.queue
      /\ upstream' = upstream \o f.bytes
      /\ recv_window' = window
      /\ Read(st, r, IF confirm /\ ok THEN Receive(app, ack) ELSE app, f.queue)

Transfer ==
  /\ "ERR" \notin pending /\ state # "LISTEN"
  /\ \E c \in IF "OUT" \in pending THEN ForwardChoices ELSE {NoForward},
        window \in IF socket THEN {0, 1} ELSE {0}, ok \in Outcomes("tun") :
       ForwardAndRead(c, window, ok)
  /\ UNCHANGED <<connect_sent, acked>>

check_tcp_socket ==
  /\ phase = "dispatch" /\ pending # {}
  /\ SocketError \/ Connected \/ ConnectReply \/ Transfer
  /\ pending' = {}
  /\ UNCHANGED <<phase, registered, dest, events, send_window>>

-----------------------------------------------------------------------------
(* The event loop's round. *)

\* monitor_tcp_session: choose what to wait for; with the window shut, probe it by
\* acknowledging one byte less.
monitor_tcp_session ==
  /\ phase = "dispatch" /\ pending = {} /\ registered
  /\ phase' = "check"
  /\ \E due, room \in BOOLEAN, ok \in Outcomes("tun"), mod \in Outcomes("epoll") :
       LET open == socket /\ state \in {"ESTABLISHED", "CLOSE_WAIT"}
           probe == open /\ get_send_window = 0 /\ due
           watch ==
             IF ~socket THEN events
             ELSE IF state = "LISTEN"
             THEN IF connect_sent = "SENT" /\ dest = 443 THEN {"IN"} ELSE {"OUT"}
             ELSE {e \in {"IN", "OUT"} :
                     /\ open
                     /\ e = "IN" => get_send_window > 0
                     /\ e = "OUT" => forward # <<>> /\ sendable(1) /\ room}
       IN  /\ events' = watch
           /\ state' = IF (probe /\ ~ok) \/ (watch # events /\ ~mod)
                       THEN "CLOSING" ELSE state
           /\ app' = IF probe /\ ok
                     THEN Receive(app, write_tcp({"ACK"}, local_seq,
                                                 Uint(remote_seq - 1), 0))
                     ELSE app
  /\ UNCHANGED <<registered, dest, socket, connect_sent, seqs, send_window,
                 recv_window, forward, pending, history>>

\* An idle session: no answer to a SYN that is still waiting, else a RST.
Expire ==
  /\ ~closed
  /\ \E ok \in Outcomes("tun") :
       app' = IF state # "LISTEN" /\ ok
              THEN Receive(app, write_tcp({"RST"}, local_seq, remote_seq, 0)) ELSE app
  /\ cause' = IF state # "LISTEN" THEN "timeout" ELSE cause
  /\ state' = "CLOSE"
  /\ socket' = FALSE
  /\ UNCHANGED registered

\* Mutant: the descriptor is not closed.
CloseNothing ==
  /\ state = "CLOSING"
  /\ state' = "CLOSE"
  /\ UNCHANGED <<app, socket, registered, cause>>

CloseSocket ==
  /\ state = "CLOSING"
  /\ state' = "CLOSE"
  /\ socket' = FALSE
  /\ UNCHANGED <<app, registered, cause>>

\* The session is freed some time after it was closed.
Delete ==
  /\ state = "CLOSE"
  /\ registered' = FALSE
  /\ UNCHANGED <<app, state, socket, cause>>

\* Nothing has expired, or the last check was less than EPOLL_MIN_CHECK ago.
CheckNothing == UNCHANGED <<app, state, socket, registered, cause>>

check_tcp_session ==
  /\ phase = "check"
  /\ phase' = "dispatch"
  /\ Expire \/ CloseSocket \/ Delete \/ CheckNothing
  /\ pending' \in IF registered' /\ socket' THEN (SUBSET events) \cup {{"ERR"}} ELSE {{}}
  /\ UNCHANGED <<dest, events, connect_sent, seqs, send_window, recv_window,
                 forward, upstream, downstream>>

-----------------------------------------------------------------------------
Init ==
  /\ AppInit
  /\ phase = "dispatch"
  /\ registered = FALSE /\ socket = FALSE /\ dest = 0 /\ events = {}
  /\ state = "CLOSE" /\ connect_sent = "NOT_SENT"
  /\ local_seq = 0 /\ remote_seq = 0 /\ acked = 0
  /\ send_window = 0 /\ recv_window = 0
  /\ forward = <<>> /\ pending = {}
  /\ upstream = <<>> /\ downstream = 0 /\ cause = "none"

\* A SYN does not stay in the tun queue until its session has come and gone.
check_tun ==
  /\ phase = "dispatch"
  /\ \E p \in AppPackets : (p.syn => registered \/ app.rcv = 0) /\ handle_tcp(p)
  /\ UNCHANGED phase

Next == check_tun \/ check_tcp_socket \/ monitor_tcp_session \/ check_tcp_session

Spec == Init /\ [][Next]_vars

-----------------------------------------------------------------------------
\* Each variable holds a value of its C type: sequence numbers stay uint32_t through
\* every increment and decrement, and windows and offsets never go below zero.
TypeOK ==
  /\ app \in AppType
  /\ phase \in {"check", "dispatch"}
  /\ registered \in BOOLEAN /\ socket \in BOOLEAN /\ dest \in Ports \cup {0}
  /\ events \subseteq {"IN", "OUT"} /\ pending \subseteq {"IN", "OUT", "ERR"}
  /\ state \in States
  /\ connect_sent \in {"NOT_SENT", "SENT", "ESTABLISHED"}
  /\ local_seq \in Seq32 /\ remote_seq \in Seq32 /\ acked \in Seq32
  /\ send_window \in Nat /\ recv_window \in {0, 1}
  /\ forward \in Seq(QueuedSegment)
  /\ downstream \in Nat
  /\ cause \in Causes

relaying == registered /\ state \in {"ESTABLISHED", "CLOSE_WAIT", "FIN_WAIT1", "LAST_ACK"}

\* A byte the app has seen acknowledged was handed to the socket: remote_seq counts
\* confirmed bytes only.
AckedMeansForwarded ==
  \A b \in 1 .. app.total : b < app.una => b \in Range(upstream)

\* The socket takes the app's bytes in order, each once, whatever order and how
\* often their segments are read from tun (queue_tcp and the forwarding loop).
ForwardedInOrder == upstream = [i \in 1 .. Len(upstream) |-> i]

\* A session that has answered the SYN owes the app nothing: what recv has returned,
\* and after the server's end the FIN, has been written to tun.
StreamToApp ==
  (relaying \/ (registered /\ state = "SYN_RECV")) /\ ~app.reset
    => app.rcv = 1 + downstream
                   + (IF state \in {"FIN_WAIT1", "LAST_ACK"} THEN 1 ELSE 0)

\* The engine never sends beyond a window the app has advertised, although windows
\* come from packets whose acknowledgement it may have ignored.
WithinWindow == app.rcv > 1 => app.rcv <= app.edge

\* An acknowledgement the app can send is never taken for one of data not sent yet.
NoFutureAck == cause # "future ACK"

\* A session that still relays has its socket, and one that is about to be freed
\* has given it back.
SocketHeld ==
  registered =>
    /\ state \in {"LISTEN", "SYN_RECV", "ESTABLISHED", "CLOSE_WAIT"} => socket
    /\ state = "CLOSE" => ~socket

\* Until the proxy has accepted the CONNECT the session does not get past the
\* handshake and none of the app's bytes reach the proxy.
ConnectFirst ==
  registered /\ connecting =>
    /\ state \in {"LISTEN", "SYN_RECV", "CLOSING", "CLOSE"}
    /\ upstream = <<>>

\* What the app sees acknowledged has been handed to the socket, but for its FIN: one
\* number more than the SYN and the bytes, and only once the session has confirmed a FIN,
\* after which it forwards nothing.  (FINs are confirmed by their flag, not their number.)
AcksHeld ==
  /\ app.una <= Len(upstream) + 2
  /\ registered /\ ~connecting /\ (state \in {"ESTABLISHED", "FIN_WAIT1"} \/ forward # <<>>)
       => app.una <= Len(upstream) + 1

\* A session that is closing, reset or timed out stays so until it is freed; only a
\* CONNECT, which handle_tcp sends without looking at the state, revives it.
ClosedStaysClosed ==
  [][registered /\ registered' /\ closed /\ ~closed' =>
       connect_sent = "NOT_SENT" /\ connect_sent' = "SENT"]_vars

\* The thread of the event loop keeps running: it drains tun and handles what
\* epoll_wait reported.  It may skip the check of the sessions, when the last one is
\* less than EPOLL_MIN_CHECK ago, but not for ever, as it does not wait longer.
Fairness ==
  /\ WF_vars(monitor_tcp_session)
  /\ WF_vars(check_tcp_socket)
  /\ WF_vars(check_tcp_session)
  /\ SF_vars(check_tcp_session /\ CloseSocket)

FairSpec == Spec /\ Fairness

\* A closing session's descriptor is given back.
ClosingReleases == (registered /\ closed) ~> ~socket

-----------------------------------------------------------------------------
\* What the app and the server make of the session's state: what is left of it once
\* write_rst, a failed write or monitor_tcp_session has closed it is all the same to them.
stage ==
  CASE ~registered                                   -> "none"
    [] registered /\ closed                           -> "closed"
    [] registered /\ state \in {"LISTEN", "SYN_RECV"} -> "opening"
    [] registered /\ state \in {"ESTABLISHED", "CLOSE_WAIT"} -> "open"
    [] registered /\ state \in {"FIN_WAIT1", "LAST_ACK"}     -> "half"

Promise == INSTANCE TcpRelay WITH
  total <- app.total, given <- upstream, confirmed <- app.una, fetched <- downstream,
  got <- app.rcv, gone <- app.reset

\* A session keeps what TcpRelay promises: the app's bytes are given in order and each
\* once before they are confirmed, and what is fetched has been passed on, whatever
\* overtakes what between tun, the socket and the loop's rounds, and whatever write fails.
RelayRefined == Promise!RelaySpec
=============================================================================
