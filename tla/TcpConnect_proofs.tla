------------------------- MODULE TcpConnect_proofs -------------------------
(***************************************************************************)
(* The CONNECT of port 443: why no byte of the app reaches the proxy       *)
(* before the proxy has accepted it, whatever the loop's order.            *)
(***************************************************************************)
EXTENDS TcpSession_proofs

-----------------------------------------------------------------------------
(* The invariant. *)

\* What the SYN puts into the queue.
FromSyn == {g \in QueuedSegment : g.seq = app.isn /\ g.sent = 0}
OnlySyn == forward \in Seq(FromSyn)

\* A session that has not answered the SYN, and has not sent the CONNECT, has seen
\* nothing but the SYN, and waits for its socket to be connected.
Unanswered ==
  registered /\ state = "LISTEN" /\ ~(dest = 443 /\ connect_sent = "SENT") =>
    app.rcv = 0 /\ events = {"OUT"} /\ remote_seq = app.isn /\ OnlySyn

\* Nothing is relayed for an app that has had no answer.
Answered ==
  app.rcv = 0 =>
    /\ upstream = <<>>
    /\ registered => state \notin {"ESTABLISHED", "CLOSE_WAIT", "FIN_WAIT1", "LAST_ACK"}

\* Epoll watches for room to connect, or for room for the bytes of the app.
Waits ==
  \/ app.rcv = 0 /\ state = "LISTEN"
  \/ app.rcv > 0 /\ state # "LISTEN" /\ ~connecting

\* A report of room that a packet has overtaken finds either such a session, or one that
\* the packet has closed, with nothing in the queue that continues at remote_seq.
Overtaken ==
  /\ app.rcv = 0 /\ state = "CLOSING"
  /\ remote_seq = Uint(app.isn + 1) /\ OnlySyn

Writable ==
  /\ registered /\ socket /\ phase = "check" /\ "OUT" \in events => Waits
  /\ "OUT" \in pending => Waits \/ Overtaken

\* What ConnectFirst rests on.
ConnectInv == Unanswered /\ Answered /\ Writable /\ ConnectFirst

-----------------------------------------------------------------------------
(* The app. *)

\* What the app expects next never goes back, and only a SYN, a FIN or data moves it.
LEMMA ReceiveKeeps ==
  ASSUME NEW a \in AppType, NEW p \in Reply
  PROVE  /\ Receive(a, p).isn = a.isn
         /\ Receive(a, p).rcv \in Nat /\ Receive(a, p).rcv >= a.rcv
         /\ ~p.syn /\ ~p.fin /\ p.len = 0 => Receive(a, p).rcv = a.rcv
  <1> DEFINE confirmed == Uint(p.ack_seq - a.isn)
             expected == Uint(p.seq - a.peer) = a.rcv
             una == IF confirmed <= a.total + 2 THEN Larger(a.una, confirmed) ELSE a.una
             rcv == IF expected THEN a.rcv + p.len + (IF p.fin THEN 1 ELSE 0) ELSE a.rcv
  <1>1. a.rcv \in Nat /\ p.len \in Nat
    BY DEF AppType, Reply
  <1> HIDE DEF expected, una
  <1>2. rcv \in Nat /\ rcv >= a.rcv /\ (~p.fin /\ p.len = 0 => rcv = a.rcv)
    BY <1>1
  <1> HIDE DEF rcv
  <1>3. CASE a.reset
    BY <1>1, <1>3 DEF Receive
  <1>4. CASE ~a.reset /\ p.rst
    <2>1. Receive(a, p) = [a EXCEPT !.reset = TRUE]
      BY <1>4 DEF Receive
    <2> QED
      BY <1>1, <2>1 DEF AppType
  <1>5. CASE ~a.reset /\ ~p.rst /\ p.syn
    <2>1. Receive(a, p) = IF a.rcv = 0 THEN [a EXCEPT !.peer = p.seq, !.rcv = 1, !.una = 1]
                          ELSE a
      BY <1>5 DEF Receive
    <2> QED
      BY <1>1, <1>5, <2>1 DEF AppType
  <1>6. CASE ~a.reset /\ ~p.rst /\ ~p.syn /\ a.rcv = 0
    BY <1>1, <1>6 DEF Receive
  <1>7. CASE ~a.reset /\ ~p.rst /\ ~p.syn /\ a.rcv # 0
    <2>1. Receive(a, p) = [a EXCEPT !.rcv = rcv, !.una = una]
      BY <1>7 DEF Receive, rcv, expected, una
    <2> QED
      BY <1>1, <1>2, <2>1 DEF AppType
  <1> QED
    BY <1>3, <1>4, <1>5, <1>6, <1>7

\* What the app sends moves neither.
LEMMA SentKeeps ==
  ASSUME app \in AppType, NEW p
  PROVE  Sent(p).isn = app.isn /\ Sent(p).rcv = app.rcv
  BY DEF Sent, AppType

\* An app that has had no answer has sent its SYN only.
LEMMA SynOnly ==
  ASSUME NEW p \in AppPackets, p.syn \/ ~p.ack \/ ~(app.rcv > 0), app \in AppType
  PROVE  p.syn /\ ~p.ack /\ ~p.fin /\ ~p.rst /\ p.seq = app.isn
  <1>1. p \in Syns
    <2>1. \A o, r : Segment(o, r).ack /\ ~Segment(o, r).syn
      BY DEF Segment
    <2>2. p \in Segments \cup Resets => p.ack /\ ~p.syn
      BY <2>1 DEF Segments, Resets
    <2> QED
      BY <2>2 DEF AppPackets
  <1> QED
    BY <1>1 DEF Syns

\* A queue of the SYN's data stays one when another SYN is read.
LEMMA QueueSyn ==
  ASSUME NEW T \in SUBSET QueuedSegment, NEW fw \in Seq(T), NEW rseq, NEW p \in Packet,
         [seq |-> p.seq, len |-> p.len, sent |-> 0] \in T
  PROVE  queue_tcp(fw, rseq, p) \in Seq(T)
  <1> DEFINE n == position(fw, p.seq)
             e == [seq |-> p.seq, len |-> p.len, sent |-> 0]
  <1>1. n \in 1 .. Len(fw) + 1
    <2>1. fw \in Seq(QueuedSegment)
      <3>1. Len(fw) \in Nat /\ fw \in [1 .. Len(fw) -> T]
        BY LenProperties
      <3> QED
        BY <3>1
    <2> QED
      BY <2>1, PositionType
  <1>2. e \in T
    OBVIOUS
  <1> HIDE DEF n, e
  <1>3. Len(fw) \in Nat /\ n \in Int /\ 1 \in Int /\ n - 1 \in Int
    BY <1>1
  <1>4. SubSeq(fw, 1, n - 1) \in Seq(T)
    <2>1. \A i \in 1 .. n - 1 : fw[i] \in T
      BY <1>1, <1>3, ElementOfSeq
    <2> QED
      BY <2>1, <1>3, SubSeqProperties
  <1>5. SubSeq(fw, n, Len(fw)) \in Seq(T)
    <2>1. \A i \in n .. Len(fw) : fw[i] \in T
      BY <1>1, <1>3, ElementOfSeq
    <2> QED
      BY <2>1, <1>3, SubSeqProperties
  <1>6. InsertAt(fw, n, e) \in Seq(T)
    BY <1>2, <1>4, <1>5 DEF InsertAt
  <1> QED
    BY <1>6 DEF queue_tcp, n, e

\* The same of the session's queue.
LEMMA OnlySynKept ==
  ASSUME TypeOK, OnlySyn, NEW p \in AppPackets, p.syn, NEW r,
         app'.isn = app.isn, forward' = queue_tcp(forward, r, p) \/ forward' = forward
  PROVE  OnlySyn'
  <1>1. p \in Packet /\ p.seq = app.isn
    BY SynOnly, AppPacketsType DEF TypeOK
  <1>2. FromSyn' = FromSyn
    BY DEF FromSyn
  <1>3. [seq |-> p.seq, len |-> p.len, sent |-> 0] \in FromSyn
    BY <1>1 DEF FromSyn, QueuedSegment, Packet
  <1>4. FromSyn \in SUBSET QueuedSegment
    BY DEF FromSyn
  <1>5. queue_tcp(forward, r, p) \in Seq(FromSyn)
    BY <1>1, <1>3, <1>4, QueueSyn DEF OnlySyn
  <1> QED
    BY <1>2, <1>5 DEF OnlySyn

\* A RST.
LEMMA RstKeeps ==
  ASSUME TypeOK, NEW a \in AppType, NEW st, NEW rseq \in Seq32, NEW why,
         write_rst(a, st, rseq, why)
  PROVE  /\ app'.isn = a.isn /\ app'.rcv = a.rcv
         /\ state' = IF st = "CLOSE" THEN "CLOSE" ELSE "CLOSING"
         /\ remote_seq' = IF st = "LISTEN" THEN Uint(rseq + 1) ELSE rseq
  <1> DEFINE r == IF st = "LISTEN" THEN Uint(rseq + 1) ELSE rseq
             flags == IF st = "LISTEN" THEN {"RST", "ACK"} ELSE {"RST"}
             p == write_tcp(flags, local_seq, r, 0)
  <1>1. r \in Seq32
    BY StepType
  <1> HIDE DEF r
  <1>2. p \in Reply /\ ~p.syn /\ ~p.fin /\ p.len = 0
    <2>1. p \in Reply
      BY <1>1, WriteType DEF TypeOK
    <2> QED
      BY <2>1 DEF write_tcp
  <1> HIDE DEF p
  <1>3. app' = a \/ app' = Receive(a, p)
    BY DEF write_rst, p, r
  <1>4. app'.isn = a.isn /\ app'.rcv = a.rcv
    BY <1>2, <1>3, ReceiveKeeps
  <1> QED
    BY <1>4 DEF write_rst

\* An acknowledgement or what a relaying session is left with.
LEMMA WriteKeeps ==
  ASSUME TypeOK, NEW a \in AppType, NEW st, NEW flags, NEW lseq \in Seq32,
         NEW rseq \in Seq32, NEW n \in Nat, NEW ok,
         write_or_close(a, st, flags, lseq, rseq, n, ok)
  PROVE  /\ app'.isn = a.isn /\ app'.rcv \in Nat /\ app'.rcv >= a.rcv
         /\ flags = {"ACK"} /\ n = 0 => app'.rcv = a.rcv
         /\ state' \in {st, "CLOSING"}
  <1> DEFINE p == write_tcp(flags, lseq, rseq, n)
  <1>1. p \in Reply /\ p.len = n /\ (flags = {"ACK"} => ~p.syn /\ ~p.fin)
    <2>1. p \in Reply
      BY WriteType
    <2> QED
      BY <2>1 DEF write_tcp
  <1> HIDE DEF p
  <1>2. app' = a \/ app' = Receive(a, p)
    BY DEF write_or_close, p
  <1>3. a.rcv \in Nat
    BY DEF AppType
  <1>4. app'.isn = a.isn /\ app'.rcv \in Nat /\ app'.rcv >= a.rcv
        /\ (flags = {"ACK"} /\ n = 0 => app'.rcv = a.rcv)
    BY <1>1, <1>2, <1>3, ReceiveKeeps
  <1> QED
    BY <1>4 DEF write_or_close

-----------------------------------------------------------------------------
(* Packets. *)

\* A session that is opened has seen nothing but the SYN ...
LEMMA NewConnect ==
  ASSUME TypeOK, SocketInv, ConnectInv, NEW p \in AppPackets, NewSession(p),
         p.syn => registered \/ app.rcv = 0, UNCHANGED phase, phase = "dispatch"
  PROVE  ConnectInv'
  <1>1. p.syn /\ ~registered /\ app.rcv = 0 /\ UNCHANGED <<pending, upstream>>
    BY DEF NewSession, history
  <1>2. pending = {} /\ upstream = <<>>
    BY <1>1 DEF SocketInv, ConnectInv, Answered
  <1>3. CASE ~registered'
    BY <1>1, <1>2, <1>3 DEF ConnectInv, Unanswered, Answered, Writable, ConnectFirst
  <1>4. CASE registered'
    <2>1. /\ app' = Sent(p) /\ state' = "LISTEN" /\ remote_seq' = p.seq /\ events' = {"OUT"}
          /\ forward' = IF p.len > 0 THEN <<[seq |-> p.seq, len |-> p.len, sent |-> 0]>>
                                     ELSE <<>>
      BY <1>4 DEF NewSession
    <2>2. app'.isn = app.isn /\ app'.rcv = 0 /\ p.seq = app.isn /\ p \in Packet
      BY <1>1, <2>1, SentKeeps, SynOnly, AppPacketsType DEF TypeOK
    <2>3. OnlySyn'
      <3>1. [seq |-> p.seq, len |-> p.len, sent |-> 0] \in FromSyn'
        BY <2>2 DEF FromSyn, QueuedSegment, Packet
      <3> QED
        BY <2>1, <3>1 DEF OnlySyn
    <2> QED
      BY <1>1, <1>2, <2>1, <2>2, <2>3
         DEF ConnectInv, Unanswered, Answered, Writable, ConnectFirst
  <1> QED
    BY <1>3, <1>4

\* ... one that waits for the proxy keeps what it is sent in the queue, and if it is
\* closed for the CONNECT to fail a report of room finds nothing to send there ...
LEMMA PhaseConnect ==
  ASSUME TypeOK, SocketInv, ConnectInv, NEW p \in AppPackets, ConnectPhase(p),
         UNCHANGED phase, phase = "dispatch"
  PROVE  ConnectInv'
  <1>1. /\ registered /\ connecting /\ dest = 443
        /\ UNCHANGED <<registered, dest, socket, events, pending, upstream>>
        /\ forward' = queue_tcp(forward, remote_seq', p)
        /\ state \in {"LISTEN", "SYN_RECV", "CLOSING", "CLOSE"} /\ upstream = <<>>
        /\ Sent(p) \in AppType /\ Sent(p).isn = app.isn /\ Sent(p).rcv = app.rcv
        /\ app.rcv \in Nat
    <2>1. p \in Packet /\ app.rcv \in Nat
      BY AppPacketsType DEF TypeOK, AppType
    <2>2. Sent(p) \in AppType /\ Sent(p).isn = app.isn /\ Sent(p).rcv = app.rcv
      BY <2>1, SentType, SentKeeps DEF TypeOK
    <2> QED
      BY <2>1, <2>2 DEF ConnectPhase, connecting, link, ConnectInv, ConnectFirst
  <1>2. "OUT" \in pending => app.rcv = 0 /\ (state = "LISTEN" \/ Overtaken)
    BY <1>1 DEF ConnectInv, Writable, Waits, Overtaken
  <1>3. ASSUME app'.isn = app.isn, app.rcv = 0, OnlySyn PROVE OnlySyn'
    BY <1>1, <1>3, SynOnly, OnlySynKept DEF TypeOK
  <1>4. CASE SendConnect /\ app' = Sent(p)
    <2>1. state' = "LISTEN" /\ connect_sent' = "SENT" /\ app'.rcv = app.rcv
      BY <1>1, <1>4 DEF SendConnect
    <2>2. Writable'
      BY <1>1, <1>2, <2>1 DEF Writable, Waits
    <2> QED
      BY <1>1, <2>1, <2>2 DEF ConnectInv, Unanswered, Answered, ConnectFirst
  <1>5. CASE /\ connect_sent = "NOT_SENT"
             /\ write_rst(Sent(p), state, remote_seq, "CONNECT")
             /\ UNCHANGED connect_sent
    <2>1. /\ app'.isn = app.isn /\ app'.rcv = app.rcv
          /\ state' = IF state = "CLOSE" THEN "CLOSE" ELSE "CLOSING"
          /\ remote_seq' = IF state = "LISTEN" THEN Uint(remote_seq + 1) ELSE remote_seq
      BY <1>1, <1>5, RstKeeps DEF TypeOK
    <2>2. "OUT" \in pending => Overtaken'
      <3>1. CASE "OUT" \in pending /\ state = "LISTEN"
        <4>1. app.rcv = 0 /\ remote_seq = app.isn /\ OnlySyn
          BY <1>1, <1>5, <3>1 DEF ConnectInv, Unanswered
        <4> QED
          BY <1>3, <2>1, <3>1, <4>1 DEF Overtaken
      <3>2. CASE Overtaken
        BY <1>3, <2>1, <3>2 DEF Overtaken
      <3> QED
        BY <1>2, <3>1, <3>2
    <2> QED
      BY <1>1, <2>1, <2>2 DEF ConnectInv, Unanswered, Answered, Writable, ConnectFirst
  <1>6. CASE /\ connect_sent = "SENT" /\ app' = Sent(p)
             /\ UNCHANGED <<connect_sent, state, remote_seq>>
    <2>1. app'.isn = app.isn /\ app'.rcv = app.rcv
      BY <1>1, <1>6
    <2>2. "OUT" \in pending => Waits' \/ Overtaken'
      <3>1. CASE "OUT" \in pending /\ state = "LISTEN"
        BY <1>2, <1>6, <2>1, <3>1 DEF Waits
      <3>2. CASE Overtaken
        BY <1>3, <1>6, <2>1, <3>2 DEF Overtaken
      <3> QED
        BY <1>2, <3>1, <3>2
    <2> QED
      BY <1>1, <1>6, <2>1, <2>2 DEF ConnectInv, Unanswered, Answered, Writable, ConnectFirst
  <1> QED
    BY <1>4, <1>5, <1>6 DEF ConnectPhase

\* ... and every other packet finds a session that is closed, that has answered, or that
\* has seen nothing but the SYN.
LEMMA OtherConnect ==
  ASSUME TypeOK, SocketInv, ConnectInv, NEW p \in AppPackets, registered, ~connecting,
         handle_tcp(p), UNCHANGED phase, phase = "dispatch"
  PROVE  ConnectInv'
  <1>1. /\ Sent(p) \in AppType /\ Sent(p).isn = app.isn /\ Sent(p).rcv = app.rcv
        /\ app.rcv \in Nat /\ p \in Packet
    <2>1. p \in Packet /\ app.rcv \in Nat
      BY AppPacketsType DEF TypeOK, AppType
    <2> QED
      BY <2>1, SentType, SentKeeps DEF TypeOK
  <1>2. ASSUME UNCHANGED <<registered, dest, connect_sent, pending, upstream>>,
               state # "LISTEN", state' # "LISTEN", app'.isn = app.isn, app'.rcv = app.rcv,
               \/ app.rcv > 0
               \/ /\ state' \in {state, "CLOSING"} /\ closed
                  /\ UNCHANGED <<remote_seq, forward>>
        PROVE  ConnectInv'
    <2>1. ~connecting' /\ Unanswered' /\ ConnectFirst'
      BY <1>2 DEF connecting, Unanswered, ConnectFirst
    <2>2. Answered'
      BY <1>1, <1>2 DEF ConnectInv, Answered, closed
    <2>3. "OUT" \in pending => Waits' \/ Overtaken'
      <3>1. CASE Waits
        BY <1>2, <2>1, <3>1 DEF Waits
      <3>2. CASE Overtaken
        <4>1. OnlySyn' /\ app.rcv = 0 /\ state' = "CLOSING" /\ UNCHANGED remote_seq
          BY <1>2, <3>2 DEF Overtaken, OnlySyn, FromSyn
        <4> QED
          BY <1>2, <3>2, <4>1 DEF Overtaken
      <3> QED
        BY <3>1, <3>2 DEF ConnectInv, Writable
    <2> QED
      BY <1>2, <2>1, <2>2, <2>3 DEF ConnectInv, Writable
  <1>3. CASE WasClosed(p)
    <2>1. /\ app'.isn = app.isn /\ app'.rcv = app.rcv /\ closed
          /\ state' = IF state = "CLOSE" THEN "CLOSE" ELSE "CLOSING"
          /\ remote_seq' = remote_seq /\ UNCHANGED forward
          /\ UNCHANGED <<registered, dest, connect_sent, pending, upstream>>
      BY <1>1, <1>3, RstKeeps DEF WasClosed, TypeOK, closed, link
    <2> QED
      BY <1>2, <2>1 DEF closed
  <1>4. ASSUME ~closed, app.rcv = 0, p.syn, RepeatedSyn(p) PROVE ConnectInv'
    <2>1. /\ app' = Sent(p) /\ UNCHANGED <<state, remote_seq>>
          /\ UNCHANGED <<registered, dest, socket, events, connect_sent, pending, upstream>>
          /\ forward' = queue_tcp(forward, remote_seq, p) \/ forward' = forward
      BY <1>4 DEF RepeatedSyn, Accept, link
    <2>2. OnlySyn => OnlySyn'
      BY <1>1, <1>4, <2>1, OnlySynKept
    <2>3. ~connecting' /\ Unanswered' /\ Answered'
      BY <1>1, <2>1, <2>2 DEF ConnectInv, connecting, Unanswered, Answered
    <2>4. "OUT" \in pending => Waits'
      BY <1>1, <1>4, <2>1, <2>3 DEF ConnectInv, Writable, Waits, Overtaken, closed
    <2> QED
      BY <2>1, <2>3, <2>4 DEF ConnectInv, Writable, ConnectFirst
  <1>5. ASSUME app.rcv > 0, ~closed,
               DataRefused(p) \/ ReceiveRst(p) \/ RepeatedSyn(p) \/ ReceiveFin(p)
               \/ ReceiveAck(p) \/ PreviousAck(p) \/ FutureAck(p)
        PROVE  ConnectInv'
    <2>1. state # "LISTEN"
      BY <1>5 DEF ConnectInv, Unanswered, connecting
    <2>2. UNCHANGED <<registered, dest, connect_sent, pending, upstream>>
      BY <1>5 DEF DataRefused, ReceiveRst, RepeatedSyn, ReceiveFin, ReceiveAck, PreviousAck,
                  FutureAck, Accept, link
    <2>3. app'.isn = app.isn /\ app'.rcv = app.rcv /\ state' # "LISTEN"
      <3>1. CASE DataRefused(p) \/ FutureAck(p)
        BY <1>1, <3>1, RstKeeps DEF DataRefused, FutureAck, TypeOK
      <3>2. CASE ReceiveRst(p) \/ RepeatedSyn(p) \/ ReceiveAck(p) \/ PreviousAck(p)
        BY <1>1, <2>1, <3>2 DEF ReceiveRst, RepeatedSyn, ReceiveAck, PreviousAck
      <3>3. CASE ReceiveFin(p)
        <4>1. CASE /\ remote_seq' = Uint(remote_seq + 1)
                   /\ \E ok \in Outcomes("tun"), next \in {"CLOSE", "CLOSE_WAIT"} :
                        write_or_close(Sent(p), next, {"ACK"}, local_seq, remote_seq', 0, ok)
          <5>1. PICK ok \in Outcomes("tun"), next \in {"CLOSE", "CLOSE_WAIT"} :
                  write_or_close(Sent(p), next, {"ACK"}, local_seq, remote_seq', 0, ok)
            BY <4>1
          <5>2. remote_seq' \in Seq32 /\ local_seq \in Seq32 /\ 0 \in Nat
            BY <4>1, StepType DEF TypeOK
          <5> QED
            BY <1>1, <5>1, <5>2, WriteKeeps
        <4>2. CASE app' = Sent(p) /\ state' \in {state, "CLOSE_WAIT"}
          BY <1>1, <2>1, <4>2
        <4> QED
          BY <3>3, <4>1, <4>2 DEF ReceiveFin
      <3> QED
        BY <1>5, <3>1, <3>2, <3>3
    <2> QED
      BY <1>2, <1>5, <2>1, <2>2, <2>3
  <1>6. ASSUME app.rcv = 0, ~closed,
               DataRefused(p) \/ ReceiveRst(p) \/ ReceiveFin(p)
               \/ ReceiveAck(p) \/ PreviousAck(p) \/ FutureAck(p)
        PROVE  ConnectInv'
    <2>1. p.syn /\ ~p.ack /\ ~p.fin /\ ~p.rst
      BY <1>6, SynOnly DEF TypeOK
    <2>2. DataRefused(p)
      BY <1>6, <2>1 DEF ReceiveRst, ReceiveFin, ReceiveAck, PreviousAck, FutureAck, current
    <2>3. ~socket /\ state \notin Open
      BY <1>6, <2>2 DEF DataRefused, refused, SocketInv, Open, ConnectInv, Answered
    <2>4. state \in {"FIN_WAIT1", "LAST_ACK"}
      BY <1>6, <2>3 DEF SocketInv, States, Open, closed
    <2> QED
      BY <1>6, <2>4 DEF ConnectInv, Answered
  <1>7. ~NewSession(p) /\ ~UnknownSession(p) /\ ~ConnectPhase(p)
    BY DEF NewSession, UnknownSession, ConnectPhase
  <1>8. p.syn \/ app.rcv > 0
    BY <1>1, SynOnly DEF TypeOK
  <1>9. closed => WasClosed(p)
    BY <1>7 DEF handle_tcp, DataRefused, ReceiveRst, RepeatedSyn, ReceiveFin, ReceiveAck,
                PreviousAck, FutureAck, Accept
  <1> QED
    BY <1>1, <1>3, <1>4, <1>5, <1>6, <1>7, <1>8, <1>9 DEF handle_tcp

\* A packet keeps the invariant.
LEMMA ConnectTun ==
  TypeOK /\ SocketInv /\ ConnectInv /\ check_tun => ConnectInv'
  <1> SUFFICES ASSUME TypeOK, SocketInv, ConnectInv, check_tun PROVE ConnectInv'
    OBVIOUS
  <1>1. phase = "dispatch" /\ UNCHANGED phase
    BY DEF check_tun
  <1>2. PICK p \in AppPackets : (p.syn => registered \/ app.rcv = 0) /\ handle_tcp(p)
    BY DEF check_tun
  <1>3. CASE NewSession(p)
    BY <1>1, <1>2, <1>3, NewConnect
  <1>4. CASE UnknownSession(p)
    <2>1. /\ ~registered /\ UNCHANGED <<registered, upstream, pending>>
      BY <1>4 DEF UnknownSession, link, history
    <2>2. app'.rcv = app.rcv
      <3>1. p \in Packet /\ app.rcv \in Nat
        BY AppPacketsType DEF TypeOK, AppType
      <3>2. Sent(p) \in AppType /\ Sent(p).rcv = app.rcv
        BY <3>1, SentType, SentKeeps DEF TypeOK
      <3>3. PICK r : r = Uint(p.seq + p.len + (IF p.fin THEN 1 ELSE 0))
        OBVIOUS
      <3>4. r \in Seq32 /\ p.ack_seq \in Seq32
        <4>1. p.seq + p.len + (IF p.fin THEN 1 ELSE 0) \in Int
          BY <3>1, Seq32Nat DEF Packet
        <4> QED
          BY <3>1, <3>3, <4>1, UintType DEF Packet
      <3>5. PICK q : q = write_tcp({"RST"}, p.ack_seq, r, 0)
        OBVIOUS
      <3>6. q \in Reply
        BY <3>4, <3>5, WriteType
      <3>7. ~q.syn /\ ~q.fin /\ q.len = 0
        BY <3>5 DEF write_tcp
      <3>8. app' = Sent(p) \/ app' = Receive(Sent(p), q)
        BY <1>4, <3>3, <3>5 DEF UnknownSession
      <3> QED
        BY <3>2, <3>6, <3>7, <3>8, ReceiveKeeps
    <2> QED
      BY <1>1, <2>1, <2>2
         DEF ConnectInv, SocketInv, Unanswered, Answered, Writable, ConnectFirst
  <1>5. CASE ConnectPhase(p)
    BY <1>1, <1>5, PhaseConnect
  <1>6. CASE registered /\ ~connecting
    BY <1>1, <1>2, <1>6, OtherConnect
  <1>7. registered /\ connecting => ConnectPhase(p)
    BY <1>2 DEF handle_tcp, NewSession, UnknownSession, WasClosed, DataRefused, ReceiveRst,
                RepeatedSyn, ReceiveFin, ReceiveAck, PreviousAck, FutureAck, Accept
  <1>8. ~registered => NewSession(p) \/ UnknownSession(p)
    BY <1>2 DEF handle_tcp, ConnectPhase, WasClosed, DataRefused, ReceiveRst, RepeatedSyn,
                ReceiveFin, ReceiveAck, PreviousAck, FutureAck, Accept
  <1> QED
    BY <1>3, <1>4, <1>5, <1>6, <1>7, <1>8

-----------------------------------------------------------------------------
(* Reports for the socket. *)

\* There is nothing to forward for a session that is closed before it has answered.
LEMMA NothingToForward ==
  ASSUME TypeOK, Overtaken, NEW c \in ForwardChoices
  PROVE  c.whole = 0 /\ c.part = 0
  <1>1. Len(forward) \in Nat /\ forward \in Seq(FromSyn)
    BY DEF TypeOK, Overtaken, OnlySyn
  <1>2. Len(forward) > 0 => ~sendable(1)
    <2> SUFFICES ASSUME Len(forward) > 0, sendable(1) PROVE FALSE
      OBVIOUS
    <2>1. 1 \in 1 .. Len(forward)
      BY <1>1
    <2>2. forward[1] \in FromSyn
      BY <1>1, <2>1, ElementOfSeq
    <2>3. Uint(app.isn + 0) = Uint(app.isn + 1)
      BY <2>2, 1 \in 1 .. 1, 1 - 1 = 0 DEF sendable, reached, Overtaken, FromSyn
    <2>4. app.isn \in Seq32
      BY DEF TypeOK, AppType
    <2>5. /\ Wrap \in Nat /\ Wrap > 2
          /\ app.isn \in Nat /\ app.isn < Wrap
      BY <2>4, HalfAssumption DEF Seq32, Wrap
    <2>6. Uint(app.isn + 0) = app.isn
      BY <2>5 DEF Uint
    <2>7. CASE app.isn + 1 < Wrap
      <3>1. Uint(app.isn + 1) = app.isn + 1
        BY <2>5, <2>7 DEF Uint
      <3> QED
        BY <2>3, <2>5, <2>6, <3>1
    <2>8. CASE app.isn = Wrap - 1
      <3>1. app.isn + 1 = Wrap /\ Wrap % Wrap = 0
        BY <2>5, <2>8
      <3>2. Uint(app.isn + 1) = 0
        BY <3>1 DEF Uint
      <3> QED
        BY <2>3, <2>5, <2>6, <2>8, <3>2
    <2> QED
      BY <2>5, <2>7, <2>8
  <1>3. /\ c.whole \in 0 .. Len(forward) /\ c.part \in Nat /\ sendable(c.whole)
        /\ c.part > 0 => c.whole < Len(forward) /\ sendable(c.whole + 1)
    BY <1>1, AppAssumption, ChoiceParts
  <1>4. ASSUME NEW k \in Nat, k > 0, sendable(k) PROVE sendable(1)
    BY <1>4 DEF sendable
  <1>5. c.whole = 0
    BY <1>1, <1>2, <1>3, <1>4
  <1> QED
    BY <1>1, <1>2, <1>3, <1>5

\* What is forwarded then is nothing.
LEMMA ForwardsNothing ==
  ASSUME NEW c, c.whole = 0, c.part = 0
  PROVE  Forwarding(c).bytes = <<>>
  <1>1. PICK s : s = [i \in 1 .. c.whole |->
                        bytes(forward[i], forward[i].sent, forward[i].sent + c.took[i])]
    OBVIOUS
  <1>2. s = <<>>
    BY <1>1
  <1>3. FlattenSeq(s) = <<>>
    BY <1>2 DEF FlattenSeq
  <1>4. Forwarding(c).bytes = FlattenSeq(s) \o <<>>
    BY <1>1 DEF Forwarding
  <1> QED
    BY <1>3, <1>4

\* Once a session has left LISTEN it stays as it is unless the app has been answered
\* and the proxy has accepted the CONNECT.
LEMMA EventKeeps ==
  ASSUME TypeOK, ConnectInv, UNCHANGED <<registered, dest, phase>>, phase = "dispatch",
         pending' = {}, registered, state' # "LISTEN", connecting' => connecting,
         app'.rcv \in Nat, app'.rcv >= app.rcv,
         \/ app.rcv > 0 /\ ~connecting
         \/ /\ upstream' = upstream
            /\ \/ state' \in {state, "CLOSING", "SYN_RECV"}
               \/ app.rcv > 0 /\ state' = "CLOSE"
  PROVE  ConnectInv'
  <1>1. app.rcv \in Nat
    BY DEF TypeOK, AppType
  <1>2. Unanswered' /\ Writable'
    BY DEF Unanswered, Writable
  <1>3. Answered'
    BY <1>1 DEF ConnectInv, Answered
  <1>4. ConnectFirst'
    BY DEF ConnectInv, ConnectFirst
  <1> QED
    BY <1>2, <1>3, <1>4 DEF ConnectInv

\* What is forwarded before the answer, or before the CONNECT is accepted, is nothing.
LEMMA TransferConnect ==
  ASSUME TypeOK, SocketInv, ConnectInv, registered, socket, Transfer,
         UNCHANGED <<registered, dest, phase>>, phase = "dispatch", pending' = {}
  PROVE  ConnectInv'
  <1>1. PICK c \in (IF "OUT" \in pending THEN ForwardChoices ELSE {NoForward}),
             window \in (IF socket THEN {0, 1} ELSE {0}), ok \in Outcomes("tun") :
               ForwardAndRead(c, window, ok)
    BY DEF Transfer
  <1>2. state # "LISTEN" /\ UNCHANGED connect_sent /\ app \in AppType /\ app.rcv \in Nat
    BY DEF Transfer, TypeOK, AppType
  <1>3. app.rcv = 0 \/ connecting => upstream' = upstream
    <2> SUFFICES ASSUME app.rcv = 0 \/ connecting PROVE upstream' = upstream
      OBVIOUS
    <2>1. upstream = <<>>
      BY DEF ConnectInv, Answered, ConnectFirst
    <2>2. Overtaken \/ c = NoForward
      BY <1>1, <1>2 DEF ConnectInv, Writable, Waits
    <2>3. c.whole = 0 /\ c.part = 0
      <3>1. CASE c = NoForward
        BY <3>1 DEF NoForward
      <3>2. CASE c # NoForward
        <4>1. Overtaken /\ c \in ForwardChoices
          BY <1>1, <2>2, <3>2
        <4> QED
          BY <4>1, NothingToForward
      <3> QED
        BY <3>1, <3>2
    <2>4. Forwarding(c).bytes = <<>>
      BY <2>3, ForwardsNothing
    <2>5. upstream' = upstream \o Forwarding(c).bytes
      BY <1>1 DEF ForwardAndRead
    <2> QED
      BY <2>1, <2>4, <2>5
  <1>4. PICK st, r, a, fw :
          /\ st \in {state, "CLOSING"} /\ r \in Seq32
          /\ a \in AppType /\ a.rcv = app.rcv
          /\ Read(st, r, a, fw)
    <2>1. PICK f : f = Forwarding(c)
      OBVIOUS
    <2>2. f.seq \in Seq32
      BY <1>1, <2>1, ForwardingType
    <2>3. PICK r : r = IF (c.whole > 0 \/ c.part > 0) /\ f.queue = <<>> /\ state = "CLOSE_WAIT"
                       THEN Uint(f.seq + 1) ELSE f.seq
      OBVIOUS
    <2>4. r \in Seq32
      BY <2>2, <2>3, StepType
    <2>5. PICK p : p = write_tcp({"ACK"}, local_seq, r, 0)
      OBVIOUS
    <2>6. p \in Reply /\ ~p.syn /\ ~p.fin /\ p.len = 0
      <3>1. p \in Reply
        BY <2>4, <2>5, WriteType DEF TypeOK
      <3> QED
        BY <2>5, <3>1 DEF write_tcp
    <2>7. Receive(app, p) \in AppType /\ Receive(app, p).rcv = app.rcv
      BY <1>2, <2>6, ReceiveType, ReceiveKeeps
    <2>8. PICK st \in {state, "CLOSING"}, a \in {app, Receive(app, p)} : Read(st, r, a, f.queue)
      BY <1>1, <2>1, <2>3, <2>5 DEF ForwardAndRead
    <2> QED
      BY <1>2, <2>4, <2>7, <2>8
  <1>5. connecting' => connecting
    BY <1>2 DEF connecting
  <1>6. readable(st) => app.rcv > 0 /\ ~connecting
    <2> SUFFICES ASSUME readable(st) PROVE app.rcv > 0 /\ ~connecting
      OBVIOUS
    <2>1. state \in {"ESTABLISHED", "CLOSE_WAIT"}
      BY <1>4 DEF readable
    <2> QED
      BY <1>2, <2>1 DEF ConnectInv, Answered, ConnectFirst
  <1>7. /\ app'.rcv \in Nat /\ app'.rcv >= app.rcv /\ state' # "LISTEN"
        /\ readable(st) \/ state' \in {state, "CLOSING"}
    <2>1. CASE NoRead(st, r, a)
      BY <1>2, <1>4, <2>1 DEF NoRead
    <2>2. CASE readable(st) /\ ReadData(st, r, a)
      <3>1. PICK n \in 1 .. Mss, o \in Outcomes("tun") :
              write_or_close(a, st, {"ACK"}, local_seq, r, n, o)
        BY <2>2 DEF ReadData
      <3>2. n \in Nat /\ local_seq \in Seq32
        BY SessionAssumption DEF TypeOK
      <3>3. app'.rcv \in Nat /\ app'.rcv >= a.rcv /\ state' \in {st, "CLOSING"}
        BY <1>4, <3>1, <3>2, WriteKeeps
      <3> QED
        BY <1>2, <1>4, <2>2, <3>3
    <2>3. CASE readable(st) /\ ReadEof(st, r, a, fw)
      <3>1. CASE \E s \in {"FIN_WAIT1", "LAST_ACK"}, o \in Outcomes("tun") :
                   write_or_close(a, s, {"FIN", "ACK"}, local_seq, r, 0, o)
        <4>1. PICK s \in {"FIN_WAIT1", "LAST_ACK"}, o \in Outcomes("tun") :
                write_or_close(a, s, {"FIN", "ACK"}, local_seq, r, 0, o)
          BY <3>1
        <4>2. 0 \in Nat /\ local_seq \in Seq32
          BY DEF TypeOK
        <4>3. app'.rcv \in Nat /\ app'.rcv >= a.rcv /\ state' \in {s, "CLOSING"}
          BY <1>4, <4>1, <4>2, WriteKeeps
        <4>4. state' # "LISTEN"
          BY <4>3
        <4> QED
          BY <1>4, <2>3, <4>3, <4>4
      <3>2. CASE write_rst(a, st, r, "close with queue")
        <4>1. app'.rcv = a.rcv /\ state' \in {"CLOSE", "CLOSING"}
          BY <1>4, <3>2, RstKeeps
        <4> QED
          BY <1>2, <1>4, <2>3, <4>1
      <3> QED
        BY <2>3, <3>1, <3>2 DEF ReadEof
    <2>4. CASE readable(st) /\ ReadError(st, r, a)
      <3>1. write_rst(a, st, r, "recv error")
        BY <2>4 DEF ReadError
      <3>2. app'.rcv = a.rcv /\ state' \in {"CLOSE", "CLOSING"}
        BY <1>4, <3>1, RstKeeps
      <3> QED
        BY <1>2, <1>4, <2>4, <3>2
    <2> QED
      BY <1>4, <2>1, <2>2, <2>3, <2>4 DEF Read
  <1> QED
    BY <1>2, <1>3, <1>5, <1>6, <1>7, EventKeeps

\* A report for the socket keeps the invariant.
LEMMA ConnectEvent ==
  TypeOK /\ SocketInv /\ ConnectInv /\ check_tcp_socket => ConnectInv'
  <1> SUFFICES ASSUME TypeOK, SocketInv, ConnectInv, check_tcp_socket PROVE ConnectInv'
    OBVIOUS
  <1>1. /\ registered /\ socket /\ phase = "dispatch" /\ pending' = {}
        /\ UNCHANGED <<registered, dest, phase>> /\ state # "CLOSE"
    BY DEF SocketInv, check_tcp_socket
  <1>2. app \in AppType /\ remote_seq \in Seq32 /\ local_seq \in Seq32 /\ app.rcv \in Nat
    BY DEF TypeOK, AppType
  <1>3. ASSUME NEW why, write_rst(app, state, remote_seq, why),
               UNCHANGED <<connect_sent, upstream>>
        PROVE  ConnectInv'
    <2>1. app'.rcv = app.rcv /\ state' = "CLOSING"
      BY <1>1, <1>2, <1>3, RstKeeps
    <2>2. connecting' => connecting
      BY <1>1, <1>3 DEF connecting
    <2> QED
      BY <1>1, <1>2, <1>3, <2>1, <2>2, EventKeeps
  <1>4. CASE SocketError
    BY <1>3, <1>4 DEF SocketError
  <1>5. CASE Connected
    <2>1. PICK ok \in Outcomes("tun") :
            write_or_close(app, "SYN_RECV", {"SYN", "ACK"}, local_seq, remote_seq', 0, ok)
      BY <1>5 DEF Connected
    <2>2. remote_seq' \in Seq32 /\ 0 \in Nat
      BY <1>2, <1>5, StepType DEF Connected
    <2>3. app'.rcv \in Nat /\ app'.rcv >= app.rcv /\ state' \in {"SYN_RECV", "CLOSING"}
      BY <1>2, <2>1, <2>2, WriteKeeps
    <2>4. upstream' = upstream /\ (connecting' => connecting)
      BY <1>1, <1>5 DEF Connected, history, connecting
    <2> QED
      BY <1>1, <2>3, <2>4, EventKeeps
  <1>6. CASE ConnectReply
    <2>1. CASE /\ connect_sent' = "ESTABLISHED" /\ state' = "SYN_RECV" /\ UNCHANGED app
      <3>1. ~connecting' /\ upstream' = upstream
        BY <1>6, <2>1 DEF connecting, ConnectReply
      <3> QED
        BY <1>1, <1>2, <2>1, <3>1, EventKeeps
    <2>2. CASE write_rst(app, state, remote_seq, "CONNECT refused") /\ UNCHANGED connect_sent
      BY <1>3, <1>6, <2>2 DEF ConnectReply
    <2> QED
      BY <1>6, <2>1, <2>2 DEF ConnectReply
  <1>7. CASE Transfer
    BY <1>1, <1>7, TransferConnect
  <1> QED
    BY <1>4, <1>5, <1>6, <1>7 DEF check_tcp_socket

-----------------------------------------------------------------------------
(* Rounds. *)

\* What epoll is made to watch for fits the state.
LEMMA ConnectMonitor ==
  TypeOK /\ SocketInv /\ ConnectInv /\ monitor_tcp_session => ConnectInv'
  <1> SUFFICES ASSUME TypeOK, SocketInv, ConnectInv, monitor_tcp_session PROVE ConnectInv'
    OBVIOUS
  <1>1. /\ registered /\ pending = {} /\ phase' = "check"
        /\ UNCHANGED <<registered, dest, socket, connect_sent, remote_seq, forward,
                       pending, upstream>>
    BY DEF monitor_tcp_session, seqs, history
  <1>2. app \in AppType /\ app.rcv \in Nat
    BY DEF TypeOK, AppType
  <1>3. app'.rcv = app.rcv /\ app'.isn = app.isn /\ (state = "LISTEN" => app' = app)
    <2>1. PICK p : p = write_tcp({"ACK"}, local_seq, Uint(remote_seq - 1), 0)
      OBVIOUS
    <2>2. p \in Reply /\ ~p.syn /\ ~p.fin /\ p.len = 0
      <3>1. Uint(remote_seq - 1) \in Seq32 /\ local_seq \in Seq32
        BY StepType DEF TypeOK
      <3>2. p \in Reply
        BY <2>1, <3>1, WriteType
      <3> QED
        BY <2>1, <3>2 DEF write_tcp
    <2>3. Receive(app, p).rcv = app.rcv /\ Receive(app, p).isn = app.isn
      BY <1>2, <2>2, ReceiveKeeps
    <2>4. app' \in {app, Receive(app, p)} /\ (state = "LISTEN" => app' = app)
      BY <2>1 DEF monitor_tcp_session
    <2> QED
      BY <2>3, <2>4
  <1>4. state' \in {state, "CLOSING"}
    BY DEF monitor_tcp_session
  <1>5. /\ socket /\ state # "LISTEN" /\ "OUT" \in events' =>
             state \in {"ESTABLISHED", "CLOSE_WAIT"}
        /\ socket /\ state = "LISTEN" =>
             \/ dest = 443 /\ connect_sent = "SENT" /\ "OUT" \notin events'
             \/ /\ ~(dest = 443 /\ connect_sent = "SENT")
                /\ events' = {"OUT"} /\ (events = {"OUT"} => state' = state)
    BY DEF monitor_tcp_session
  <1>6. Unanswered'
    <2> SUFFICES ASSUME state' = "LISTEN", ~(dest = 443 /\ connect_sent = "SENT")
                 PROVE  Unanswered'
      BY <1>1 DEF Unanswered
    <2>1. state = "LISTEN" /\ socket
      BY <1>1, <1>4 DEF SocketInv, Open
    <2>2. app.rcv = 0 /\ remote_seq = app.isn /\ OnlySyn /\ events' = {"OUT"} /\ app' = app
      BY <1>1, <1>3, <1>5, <2>1 DEF ConnectInv, Unanswered
    <2>3. OnlySyn'
      BY <1>1, <2>2 DEF OnlySyn, FromSyn
    <2> QED
      BY <1>1, <2>2, <2>3 DEF Unanswered
  <1>7. Answered'
    BY <1>1, <1>3, <1>4 DEF ConnectInv, Answered
  <1>8. Writable'
    <2> SUFFICES ASSUME socket, "OUT" \in events' PROVE Waits'
      BY <1>1 DEF Writable
    <2>1. CASE state = "LISTEN"
      <3>1. ~(dest = 443 /\ connect_sent = "SENT")
        BY <1>5, <2>1
      <3>2. app.rcv = 0 /\ events = {"OUT"}
        BY <1>1, <2>1, <3>1 DEF ConnectInv, Unanswered
      <3> QED
        BY <1>3, <1>5, <2>1, <3>1, <3>2 DEF Waits
    <2>2. CASE state # "LISTEN"
      <3>1. state \in {"ESTABLISHED", "CLOSE_WAIT"}
        BY <1>5, <2>2
      <3>2. app.rcv > 0 /\ ~connecting
        BY <1>1, <1>2, <3>1 DEF ConnectInv, Answered, ConnectFirst
      <3> QED
        BY <1>1, <1>3, <1>4, <2>2, <3>2 DEF Waits, connecting
    <2> QED
      BY <2>1, <2>2
  <1>9. ConnectFirst'
    BY <1>1, <1>4 DEF ConnectInv, ConnectFirst, connecting
  <1> QED
    BY <1>6, <1>7, <1>8, <1>9 DEF ConnectInv

\* A session that epoll reports on is as it was when it was watched.
LEMMA ConnectCheck ==
  TypeOK /\ SocketInv /\ ConnectInv /\ check_tcp_session => ConnectInv'
  <1> SUFFICES ASSUME TypeOK, SocketInv, ConnectInv, check_tcp_session PROVE ConnectInv'
    OBVIOUS
  <1>1. /\ phase = "check" /\ phase' = "dispatch"
        /\ UNCHANGED <<dest, events, connect_sent, remote_seq, forward, upstream>>
        /\ "OUT" \in pending' => registered' /\ socket' /\ "OUT" \in events
    BY DEF check_tcp_session, seqs
  <1>2. CASE CheckNothing
    <2>1. UNCHANGED <<app, state, socket, registered>>
      BY <1>2 DEF CheckNothing
    <2>2. Unanswered'
      BY <1>1, <2>1 DEF ConnectInv, Unanswered, OnlySyn, FromSyn
    <2>3. Answered' /\ ConnectFirst'
      BY <1>1, <2>1 DEF ConnectInv, Answered, ConnectFirst, connecting
    <2>4. Writable'
      BY <1>1, <2>1 DEF ConnectInv, Writable, Waits, connecting
    <2> QED
      BY <2>2, <2>3, <2>4 DEF ConnectInv
  <1>3. CASE Expire \/ CloseSocket \/ Delete
    <2>1. /\ state' = "CLOSE" /\ "OUT" \notin pending'
          /\ registered' => registered
      <3>1. CASE Expire \/ CloseSocket
        BY <1>1, <3>1 DEF Expire, CloseSocket
      <3>2. CASE Delete
        BY <1>1, <3>2 DEF Delete
      <3> QED
        BY <1>3, <3>1, <3>2
    <2>2. app'.rcv = app.rcv
      <3>1. PICK p : p = write_tcp({"RST"}, local_seq, remote_seq, 0)
        OBVIOUS
      <3>2. p \in Reply /\ ~p.syn /\ ~p.fin /\ p.len = 0
        <4>1. p \in Reply
          BY <3>1, WriteType DEF TypeOK
        <4> QED
          BY <3>1, <4>1 DEF write_tcp
      <3>3. Receive(app, p).rcv = app.rcv
        BY <3>2, ReceiveKeeps DEF TypeOK
      <3>4. app' \in {app, Receive(app, p)}
        BY <1>3, <3>1 DEF Expire, CloseSocket, Delete
      <3> QED
        BY <3>3, <3>4
    <2> QED
      BY <1>1, <2>1, <2>2
         DEF ConnectInv, Unanswered, Answered, Writable, ConnectFirst, connecting
  <1> QED
    BY <1>2, <1>3 DEF check_tcp_session

\* Nothing has been relayed at the start.
LEMMA ConnectInit == Init => ConnectInv
  BY DEF Init, ConnectInv, Unanswered, Answered, Writable, ConnectFirst

\* What holds of the socket and of the CONNECT holds throughout.
LEMMA ConnectHolds == Spec => []SocketInv /\ []ConnectInv
  <1>1. TypeOK /\ SocketInv /\ ConnectInv /\ [Next]_vars => ConnectInv'
    <2> SUFFICES ASSUME TypeOK, SocketInv, ConnectInv, [Next]_vars PROVE ConnectInv'
      OBVIOUS
    <2>1. CASE UNCHANGED vars
      BY <2>1 DEF vars, link, seqs, history, ConnectInv, Unanswered, Answered, Writable,
                  Waits, Overtaken, OnlySyn, FromSyn, ConnectFirst, connecting
    <2> QED
      BY <2>1, ConnectTun, ConnectEvent, ConnectMonitor, ConnectCheck DEF Next
  <1>2. SocketInv /\ [Next]_vars => SocketInv'
    <2> SUFFICES ASSUME SocketInv, [Next]_vars PROVE SocketInv'
      OBVIOUS
    <2>1. CASE UNCHANGED vars
      BY <2>1 DEF vars, link, SocketInv
    <2> QED
      BY <2>1, SocketTun, SocketEvent, SocketMonitor, SocketCheck DEF Next
  <1> QED
    BY <1>1, <1>2, ConnectInit, SocketInit, TypeCorrect, PTL DEF Spec

\* For port 443 the proxy has accepted the CONNECT before it is sent a byte of the app's,
\* in whatever order packets, reports for the socket and rounds of the loop come.
THEOREM ConnectComesFirst == Spec => []ConnectFirst
  <1>1. ConnectInv => ConnectFirst
    BY DEF ConnectInv
  <1> QED
    BY <1>1, ConnectHolds, PTL
=============================================================================
