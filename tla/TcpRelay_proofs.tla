-------------------------- MODULE TcpRelay_proofs --------------------------
(***************************************************************************)
(* What a session promises: why what the app sees confirmed has been       *)
(* given to the server, and why every step of a session is one of          *)
(* TcpRelay, whatever overtakes what and whichever write fails.            *)
(***************************************************************************)
EXTENDS TcpOrder_proofs

-----------------------------------------------------------------------------
(* The invariant. *)

\* The app's numbers, that of its FIN included, do not come round, and send takes what
\* counts as sent.
Numbers == "send" \notin Faults /\ 80 \notin Ports /\ \A n \in Totals : n + 2 < Wrap

\* The order of the stream is proved of what does not come round, its FIN aside.
LEMMA NumbersInOrder == Numbers => InOrder
  <1> SUFFICES ASSUME Numbers PROVE InOrder
    OBVIOUS
  <1>1. \A n \in Totals : n \in Nat /\ n + 1 < n + 2
    BY AppAssumption
  <1>2. \A n \in Totals : n + 1 < Wrap
    BY <1>1, HalfAssumption DEF Numbers, Wrap
  <1> QED
    BY <1>2 DEF Numbers, InOrder

\* What the app has seen confirmed is below remote_seq, which counts the SYN, what has been
\* forwarded and, once, the FIN (or the SYN of a session that was refused before it).
Confirmed ==
  /\ app.una <= Len(upstream) + 2 /\ Len(upstream) <= app.total
  /\ app.rcv = 0 => app.una = 0
  /\ registered /\ app.rcv > 0 =>
       reach \in {Len(upstream) + 1, Len(upstream) + 2} /\ app.una <= reach

\* Until the CONNECT is sent, and while its answer is awaited, remote_seq has counted the SYN
\* once at most, although a session that has been closed may be taken on again.
Starting ==
  registered /\ connecting /\ app.rcv = 0 /\ (connect_sent = "NOT_SENT" \/ state = "LISTEN") =>
    reach \in {0, 1}

\* A session that has not been opened has relayed nothing.
Fresh == registered /\ state \in {"LISTEN", "SYN_RECV"} => upstream = <<>> /\ downstream = 0

\* Epoll watches the socket of a session that waits for the app's acknowledgement for errors
\* only.
Idle ==
  registered /\ state = "SYN_RECV" =>
    pending \subseteq {"ERR"} /\ (phase = "check" => events = {})

RelayInv == Confirmed /\ Starting /\ Fresh /\ Idle

\* A run from the first byte on is a beginning of the app's stream.
LEMMA RunBegins ==
  ASSUME NEW u, \E k \in Nat \ {0} : u = Run(1, k)
  PROVE  u = Promise!beginning(Len(u)) /\ Len(u) \in Nat
  <1>1. PICK k \in Nat \ {0} : u = Run(1, k)
    OBVIOUS
  <1>2. 1 \in Nat /\ 1 <= k /\ k - 1 \in Nat
    OBVIOUS
  <1>3. Len(Run(1, k)) = k - 1
    BY <1>2, RunType
  <1>4. \A b \in 1 .. k - 1 : 1 + b - 1 = b
    OBVIOUS
  <1>5. Run(1, k) = Promise!beginning(k - 1)
    BY <1>4 DEF Run, Promise!beginning
  <1> QED
    BY <1>1, <1>2, <1>3, <1>5

\* So is what has been forwarded, before a step and after it.
LEMMA GivenLength ==
  /\ OrderInv => upstream = Promise!beginning(Len(upstream)) /\ Len(upstream) \in Nat
  /\ OrderInv' => upstream' = Promise!beginning(Len(upstream')) /\ Len(upstream') \in Nat
  BY RunBegins DEF OrderInv

\* How far the stream has been forwarded while remote_seq continues it.
LEMMA ContinuedLength ==
  ASSUME Continued
  PROVE  reach = Len(upstream) + 1 /\ reach \in Nat
  <1>1. reach \in 1 .. app.total + 1 /\ upstream = Run(1, reach)
    BY DEF Continued
  <1>2. reach \in Nat /\ 1 \in Nat /\ 1 <= reach
    BY <1>1
  <1>3. Len(Run(1, reach)) = reach - 1
    BY <1>2, RunType
  <1> QED
    BY <1>1, <1>2, <1>3

-----------------------------------------------------------------------------
(* The app. *)

\* What a packet to the app that confirms nothing does to it: it may be told that the
\* session is over.
Silent(a, b) ==
  /\ b.isn = a.isn /\ b.total = a.total /\ b.una = a.una /\ b.rcv = a.rcv
  /\ a.reset => b.reset

\* What a packet does that confirms what comes before offset r, if the app takes it.
Confirming(a, b, r) ==
  /\ b.isn = a.isn /\ b.total = a.total /\ b.reset = a.reset
  /\ a.una <= b.una /\ b.una \in {a.una, r} /\ a.rcv <= b.rcv
  /\ a.reset \/ a.rcv = 0 => b.una = a.una /\ b.rcv = a.rcv

\* A RST.
LEMMA RstSilent ==
  ASSUME NEW a \in AppType, NEW p \in Reply, p.rst
  PROVE  Silent(a, Receive(a, p))
  <1>1. CASE a.reset
    BY <1>1 DEF Receive, Silent
  <1>2. CASE ~a.reset
    <2>1. Receive(a, p) = [a EXCEPT !.reset = TRUE]
      BY <1>2 DEF Receive
    <2> QED
      BY <2>1 DEF AppType, Silent
  <1> QED
    BY <1>1, <1>2

\* Everything else but the SYN-ACK.
LEMMA ReplyConfirms ==
  ASSUME NEW a \in AppType, NEW p \in Reply, ~p.rst, ~p.syn
  PROVE  Confirming(a, Receive(a, p), Uint(p.ack_seq - a.isn))
  <1>1. a.una \in Nat /\ a.rcv \in Nat /\ p.len \in Nat /\ a.total \in Nat
    BY DEF AppType, Reply
  <1>2. CASE a.reset \/ a.rcv = 0
    <2>1. Receive(a, p) = a
      BY <1>2 DEF Receive
    <2> QED
      BY <1>1, <2>1 DEF Confirming
  <1>3. CASE ~a.reset /\ a.rcv # 0
    <2>1. PICK c : c = Uint(p.ack_seq - a.isn)
      OBVIOUS
    <2>2. c \in Nat
      <3>1. p.ack_seq \in Seq32 /\ a.isn \in Seq32
        BY DEF AppType, Reply
      <3>2. Uint(p.ack_seq - a.isn) \in 0 .. Wrap - 1
        BY <3>1, ValueOffset
      <3> QED
        BY <2>1, <3>2
    <2>3. PICK u : u = IF c <= a.total + 2 THEN Larger(a.una, c) ELSE a.una
      OBVIOUS
    <2>4. a.una <= u /\ u \in {a.una, c}
      BY <1>1, <2>2, <2>3 DEF Larger
    <2>5. PICK r : r = IF Uint(p.seq - a.peer) = a.rcv
                       THEN a.rcv + p.len + (IF p.fin THEN 1 ELSE 0) ELSE a.rcv
      OBVIOUS
    <2>6. a.rcv <= r
      BY <1>1, <2>5
    <2>7. Receive(a, p) = [a EXCEPT !.rcv = r, !.una = u]
      BY <1>3, <2>1, <2>3, <2>5 DEF Receive
    <2>8. /\ Receive(a, p).isn = a.isn /\ Receive(a, p).total = a.total
          /\ Receive(a, p).reset = a.reset
          /\ Receive(a, p).una = u /\ Receive(a, p).rcv = r
      BY <2>7 DEF AppType
    <2> QED
      BY <1>3, <2>1, <2>4, <2>6, <2>8 DEF Confirming
  <1> QED
    BY <1>2, <1>3

\* The SYN-ACK.
LEMMA SynConfirms ==
  ASSUME NEW a \in AppType, NEW p \in Reply, p.syn, ~p.rst, a.rcv = 0
  PROVE  \/ a.reset /\ Receive(a, p) = a
         \/ /\ ~a.reset /\ ~Receive(a, p).reset
            /\ Receive(a, p).rcv = 1 /\ Receive(a, p).una = 1
            /\ Receive(a, p).isn = a.isn /\ Receive(a, p).total = a.total
  <1>1. CASE a.reset
    BY <1>1 DEF Receive
  <1>2. CASE ~a.reset
    <2>1. Receive(a, p) = [a EXCEPT !.peer = p.seq, !.rcv = 1, !.una = 1]
      BY <1>2 DEF Receive
    <2> QED
      BY <1>2, <2>1 DEF AppType
  <1> QED
    BY <1>1, <1>2

\* A packet from the app takes back nothing it has seen, and tells it nothing.
LEMMA SentSilent ==
  ASSUME app \in AppType, NEW p
  PROVE  Silent(app, Sent(p)) /\ Sent(p).reset = app.reset
  BY DEF Sent, AppType, Silent

\* A RST of a session.
LEMMA WriteRst ==
  ASSUME TypeOK, NEW a \in AppType, NEW st, NEW rseq \in Seq32, NEW why,
         write_rst(a, st, rseq, why)
  PROVE  /\ Silent(a, app') /\ closed' /\ state' \in {"CLOSE", "CLOSING"}
         /\ remote_seq' = IF st = "LISTEN" THEN Uint(rseq + 1) ELSE rseq
  <1>1. PICK r, flags, ok :
          /\ r \in Seq32 /\ flags \in {{"RST"}, {"RST", "ACK"}}
          /\ app' = IF ok THEN Receive(a, write_tcp(flags, local_seq, r, 0)) ELSE a
    <2>1. Uint(rseq + 1) \in Seq32
      BY StepType
    <2> QED
      BY <2>1 DEF write_rst
  <1>2. PICK p : p = write_tcp(flags, local_seq, r, 0)
    OBVIOUS
  <1>3. p \in Reply /\ p.rst
    <2>1. p \in Reply
      BY <1>1, <1>2, WriteType DEF TypeOK
    <2> QED
      BY <1>1, <1>2, <2>1 DEF write_tcp
  <1>4. Silent(a, Receive(a, p)) /\ Silent(a, a)
    BY <1>3, RstSilent DEF Silent
  <1>5. Silent(a, app')
    BY <1>1, <1>2, <1>4
  <1> QED
    BY <1>5 DEF write_rst, closed

\* An acknowledgement, data or a FIN of a session confirms what comes before remote_seq.
LEMMA WriteConfirms ==
  ASSUME NEW a \in AppType, NEW flags, flags \in {{"ACK"}, {"FIN", "ACK"}},
         NEW lseq \in Seq32, NEW rseq \in Seq32, NEW n \in Nat
  PROVE  /\ Confirming(a, Receive(a, write_tcp(flags, lseq, rseq, n)), Uint(rseq - a.isn))
         /\ Receive(a, write_tcp(flags, lseq, rseq, n)) \in AppType
         /\ Confirming(a, a, Uint(rseq - a.isn))
  <1>1. PICK p : p = write_tcp(flags, lseq, rseq, n)
    OBVIOUS
  <1>2. p \in Reply
    BY <1>1, WriteType
  <1>3. ~p.rst /\ ~p.syn /\ p.ack_seq = rseq
    BY <1>1 DEF write_tcp
  <1>4. Confirming(a, Receive(a, p), Uint(rseq - a.isn)) /\ Receive(a, p) \in AppType
    BY <1>2, <1>3, ReplyConfirms, ReceiveType
  <1>5. a.una <= a.una /\ a.rcv <= a.rcv
    BY DEF AppType
  <1> QED
    BY <1>1, <1>4, <1>5 DEF Confirming

-----------------------------------------------------------------------------
(* What is confirmed. *)

\* remote_seq counts a FIN, or a SYN, after a stream that it continues.
LEMMA NextOffset ==
  ASSUME TypeOK, OrderInv, Numbers, Continued
  PROVE  Uint(Uint(remote_seq + 1) - app.isn) = reach + 1
  <1>1. /\ app.isn \in Seq32 /\ remote_seq \in Seq32 /\ app.total \in Nat
        /\ app.total + 2 < Wrap /\ Wrap \in Nat
    BY HalfAssumption DEF TypeOK, AppType, OrderInv, Numbers, Wrap
  <1>2. reach \in Nat /\ reach + 1 < Wrap
    BY <1>1 DEF Continued
  <1> QED
    BY <1>1, <1>2, OffsetStep DEF reach

\* A session that has answered the app and has not ended its stream continues it.
LEMMA Continues ==
  ASSUME OrderInv, registered, app.rcv > 0,
         \/ state = "LISTEN"
         \/ ~connecting /\ (state \in {"ESTABLISHED", "FIN_WAIT1"} \/ forward # <<>>)
  PROVE  Continued
  BY DEF OrderInv, Onward, Ended, Refused

\* What keeps the invariant where nothing is forwarded and nothing confirmed.
LEMMA ConfirmedKept ==
  ASSUME TypeOK, OrderInv, Confirmed, Silent(app, app'), upstream' = upstream,
         registered' /\ app.rcv > 0 =>
           /\ registered
           /\ \/ remote_seq' = remote_seq
              \/ Continued /\ Uint(remote_seq' - app.isn) = reach + 1
  PROVE  Confirmed'
  <1>1. /\ app'.isn = app.isn /\ app'.total = app.total /\ app'.una = app.una
        /\ app'.rcv = app.rcv /\ app.una \in Nat
    BY DEF Silent, TypeOK, AppType
  <1>2. ASSUME registered', app.rcv > 0
        PROVE  reach' \in {Len(upstream) + 1, Len(upstream) + 2} /\ app.una <= reach'
    <2>1. reach \in {Len(upstream) + 1, Len(upstream) + 2} /\ app.una <= reach
      BY <1>2 DEF Confirmed
    <2>2. CASE remote_seq' = remote_seq
      <3>1. reach' = reach
        BY <1>1, <2>2 DEF reach
      <3> QED
        BY <2>1, <3>1
    <2>3. CASE Continued /\ Uint(remote_seq' - app.isn) = reach + 1
      <3>1. reach' = reach + 1
        BY <1>1, <2>3 DEF reach
      <3>2. reach = Len(upstream) + 1 /\ reach \in Nat /\ Len(upstream) \in Nat
        BY <2>3, ContinuedLength, GivenLength
      <3> QED
        BY <1>1, <2>1, <3>1, <3>2
    <2> QED
      BY <1>2, <2>2, <2>3
  <1> QED
    BY <1>1, <1>2 DEF Confirmed

\* A RST of a session, on the app as the last packet has left it.
LEMMA RstConfirmed ==
  ASSUME TypeOK, OrderInv, Numbers, Confirmed, registered, NEW a \in AppType, Silent(app, a),
         NEW why, write_rst(a, state, remote_seq, why), UNCHANGED <<registered, upstream>>
  PROVE  Confirmed' /\ Silent(app, app') /\ closed'
  <1>1. /\ Silent(a, app') /\ closed'
        /\ remote_seq' = IF state = "LISTEN" THEN Uint(remote_seq + 1) ELSE remote_seq
    BY WriteRst DEF TypeOK
  <1>2. Silent(app, app')
    BY <1>1 DEF Silent
  <1>3. ASSUME state = "LISTEN", app.rcv > 0
        PROVE  Continued /\ Uint(remote_seq' - app.isn) = reach + 1
    <2>1. Continued
      BY <1>3, Continues
    <2> QED
      BY <1>1, <1>3, <2>1, NextOffset
  <1> QED
    BY <1>1, <1>2, <1>3, ConfirmedKept

\* A FIN that is confirmed ends a stream that has all been forwarded as far as it is known.
LEMMA FinConfirms ==
  ASSUME TypeOK, ConnectInv, OrderInv, Numbers, NEW p \in AppPackets, registered, ~connecting,
         NEW next, remote_seq' = Uint(remote_seq + 1),
         \E ok \in Outcomes("tun") :
           write_or_close(Sent(p), next, {"ACK"}, local_seq, remote_seq', 0, ok),
         state \in {"ESTABLISHED", "FIN_WAIT1"}
  PROVE  /\ Continued /\ reach' = reach + 1 /\ Confirming(app, app', reach')
         /\ app'.rcv = app.rcv /\ app.rcv > 0 /\ state' \in {next, "CLOSING"}
  <1>1. app.rcv > 0 /\ app.rcv \in Nat
    BY DEF ConnectInv, Answered, TypeOK, AppType
  <1>2. Continued
    BY <1>1, Continues
  <1>3. Uint(remote_seq' - app.isn) = reach + 1
    BY <1>2, NextOffset
  <1>4. /\ Sent(p) \in AppType /\ remote_seq' \in Seq32 /\ local_seq \in Seq32
        /\ SameSource(app, Sent(p))
    BY SentSource, StepType DEF TypeOK
  <1>5. PICK q : q = Receive(Sent(p), write_tcp({"ACK"}, local_seq, remote_seq', 0))
    OBVIOUS
  <1>6. app' \in {Sent(p), q} /\ state' \in {next, "CLOSING"}
    BY <1>5 DEF write_or_close
  <1>7. SameSource(Sent(p), q)
    BY <1>4, <1>5, AckSource
  <1>8. /\ Confirming(Sent(p), q, Uint(remote_seq' - Sent(p).isn))
        /\ Confirming(Sent(p), Sent(p), Uint(remote_seq' - Sent(p).isn))
    BY <1>4, <1>5, WriteConfirms, 0 \in Nat
  <1>9. Confirming(Sent(p), app', Uint(remote_seq' - app.isn)) /\ SameSource(Sent(p), app')
    BY <1>4, <1>6, <1>7, <1>8 DEF SameSource
  <1>10. Silent(app, Sent(p)) /\ Sent(p).reset = app.reset
    BY SentSilent DEF TypeOK
  <1>11. Confirming(app, app', Uint(remote_seq' - app.isn))
    BY <1>9, <1>10 DEF Confirming, Silent
  <1>12. reach' = Uint(remote_seq' - app.isn)
    BY <1>11 DEF reach, Confirming
  <1> QED
    BY <1>1, <1>2, <1>3, <1>4, <1>6, <1>9, <1>11, <1>12 DEF SameSource

\* What keeps the invariant when bytes are forwarded or what remote_seq counts is confirmed.
LEMMA ConfirmedMoved ==
  ASSUME TypeOK, Confirmed, registered, app.rcv > 0,
         app'.total = app.total, app.una <= app'.una, app'.una <= app.una \/ app'.una <= reach',
         app.rcv <= app'.rcv, app'.una \in Nat, app'.rcv \in Nat,
         Len(upstream) \in Nat, Len(upstream') \in Nat,
         Len(upstream) <= Len(upstream'), Len(upstream') <= app.total,
         reach' \in {Len(upstream') + 1, Len(upstream') + 2}, reach <= reach'
  PROVE  Confirmed'
  <1>1. app.una \in Nat /\ app.rcv \in Nat /\ app.total \in Nat
    BY DEF TypeOK, AppType
  <1>2. reach \in Nat /\ app.una <= reach
    BY DEF Confirmed
  <1>3. reach' \in Nat /\ app'.una <= reach'
    BY <1>1, <1>2
  <1> QED
    BY <1>1, <1>3 DEF Confirmed

\* What a packet does to a session: nothing is forwarded, and it is answered by a RST or the
\* confirmation of a FIN, if at all.
LEMMA PacketKinds ==
  ASSUME TypeOK, NEW p \in AppPackets, registered, handle_tcp(p)
  PROVE  /\ UNCHANGED <<registered, upstream, downstream>>
         /\ \/ app' = Sent(p) /\ UNCHANGED remote_seq
            \/ \E why : write_rst(Sent(p), state, remote_seq, why)
            \/ /\ ~connecting /\ state \in {"ESTABLISHED", "FIN_WAIT1"}
               /\ remote_seq' = Uint(remote_seq + 1)
               /\ \E ok \in Outcomes("tun") :
                    write_or_close(Sent(p),
                      IF state = "FIN_WAIT1" THEN "CLOSE" ELSE "CLOSE_WAIT", {"ACK"},
                      local_seq, remote_seq', 0, ok)
  <1>1. CASE ConnectPhase(p) \/ WasClosed(p) \/ DataRefused(p)
    BY <1>1 DEF ConnectPhase, WasClosed, DataRefused, link
  <1>2. CASE Accept(p)
    <2>1. UNCHANGED <<registered, upstream, downstream>> /\ ~connecting
      BY <1>2 DEF Accept, link
    <2>2. CASE ReceiveRst(p) \/ RepeatedSyn(p) \/ ReceiveAck(p) \/ PreviousAck(p) \/ FutureAck(p)
      BY <2>1, <2>2 DEF ReceiveRst, RepeatedSyn, ReceiveAck, PreviousAck, FutureAck
    <2>3. CASE ReceiveFin(p)
      BY <2>1, <2>3 DEF ReceiveFin, confirmable
    <2> QED
      BY <1>2, <2>2, <2>3 DEF handle_tcp, NewSession, UnknownSession, ConnectPhase,
        WasClosed, DataRefused, Accept
  <1> QED
    BY <1>1, <1>2 DEF handle_tcp, NewSession, UnknownSession, ReceiveRst, RepeatedSyn,
      ReceiveFin, ReceiveAck, PreviousAck, FutureAck

\* A packet that finds no session.
LEMMA UnknownSilent ==
  ASSUME TypeOK, NEW p \in AppPackets, ~registered, handle_tcp(p)
  PROVE  /\ NewSession(p) \/ UnknownSession(p)
         /\ UNCHANGED <<upstream, downstream>>
         /\ NewSession(p) => p.syn /\ app' \in {app, Sent(p)}
         /\ UnknownSession(p) => ~registered'
         /\ Silent(app, app') /\ (NewSession(p) => app'.reset = app.reset)
  <1>1. NewSession(p) \/ UnknownSession(p)
    BY DEF handle_tcp, ConnectPhase, WasClosed, DataRefused, ReceiveRst, RepeatedSyn,
      ReceiveFin, ReceiveAck, PreviousAck, FutureAck, Accept
  <1>2. UNCHANGED <<upstream, downstream>>
    BY <1>1 DEF NewSession, UnknownSession, history
  <1>3. /\ Sent(p) \in AppType /\ Silent(app, Sent(p)) /\ Sent(p).reset = app.reset
        /\ p \in Packet /\ Silent(app, app)
    BY SentSource, SentSilent, AppPacketsType DEF TypeOK, Silent
  <1>4. NewSession(p) => p.syn /\ app' \in {app, Sent(p)}
    BY DEF NewSession
  <1>5. UnknownSession(p) => ~registered'
    BY DEF UnknownSession, link
  <1>6. ASSUME UnknownSession(p) PROVE Silent(app, app')
    <2>1. PICK r : r = Uint(p.seq + p.len + (IF p.fin THEN 1 ELSE 0))
      OBVIOUS
    <2>2. r \in Seq32 /\ p.ack_seq \in Seq32
      <3>1. p.seq + p.len + (IF p.fin THEN 1 ELSE 0) \in Int
        BY <1>3, Seq32Nat DEF Packet
      <3> QED
        BY <1>3, <2>1, <3>1, UintType DEF Packet
    <2>3. PICK q : q = write_tcp({"RST"}, p.ack_seq, r, 0)
      OBVIOUS
    <2>4. q \in Reply /\ q.rst
      <3>1. q \in Reply
        BY <2>2, <2>3, WriteType
      <3> QED
        BY <2>3, <3>1 DEF write_tcp
    <2>5. Silent(Sent(p), Receive(Sent(p), q))
      BY <1>3, <2>4, RstSilent
    <2>6. app' \in {Sent(p), Receive(Sent(p), q)}
      BY <1>6, <2>1, <2>3 DEF UnknownSession
    <2> QED
      BY <1>3, <2>5, <2>6 DEF Silent
  <1> QED
    BY <1>1, <1>2, <1>3, <1>4, <1>5, <1>6

\* A packet confirms nothing but a FIN.
LEMMA ConfirmedTun ==
  ASSUME TypeOK, TypeOK', ConnectInv, OrderInv, Numbers, Confirmed, check_tun
  PROVE  Confirmed'
  <1>1. PICK p \in AppPackets : (p.syn => registered \/ app.rcv = 0) /\ handle_tcp(p)
    BY DEF check_tun
  <1>2. Sent(p) \in AppType /\ Silent(app, Sent(p)) /\ app.rcv \in Nat
    BY SentSource, SentSilent DEF TypeOK, AppType
  <1>3. CASE ~registered
    <2>1. /\ Silent(app, app') /\ upstream' = upstream
          /\ registered' => app.rcv = 0
      BY <1>1, <1>3, UnknownSilent
    <2> QED
      BY <1>2, <2>1, ConfirmedKept
  <1>4. CASE registered
    <2>1. /\ UNCHANGED <<registered, upstream>>
          /\ \/ app' = Sent(p) /\ UNCHANGED remote_seq
             \/ \E why : write_rst(Sent(p), state, remote_seq, why)
             \/ /\ ~connecting /\ state \in {"ESTABLISHED", "FIN_WAIT1"}
                /\ remote_seq' = Uint(remote_seq + 1)
                /\ \E next, ok : /\ ok \in Outcomes("tun")
                                 /\ write_or_close(Sent(p), next, {"ACK"}, local_seq,
                                                   remote_seq', 0, ok)
      BY <1>1, <1>4, PacketKinds
    <2>2. CASE app' = Sent(p) /\ UNCHANGED remote_seq
      BY <1>2, <1>4, <2>1, <2>2, ConfirmedKept
    <2>3. CASE \E why : write_rst(Sent(p), state, remote_seq, why)
      BY <1>2, <1>4, <2>1, <2>3, RstConfirmed
    <2>4. CASE /\ ~connecting /\ state \in {"ESTABLISHED", "FIN_WAIT1"}
               /\ remote_seq' = Uint(remote_seq + 1)
               /\ \E next, ok : /\ ok \in Outcomes("tun")
                                /\ write_or_close(Sent(p), next, {"ACK"}, local_seq,
                                                  remote_seq', 0, ok)
      <3>1. PICK next : \E ok \in Outcomes("tun") :
                          write_or_close(Sent(p), next, {"ACK"}, local_seq, remote_seq', 0, ok)
        BY <2>4
      <3>2. /\ Continued /\ reach' = reach + 1 /\ Confirming(app, app', reach')
            /\ app'.rcv = app.rcv /\ app.rcv > 0
        BY <1>4, <2>4, <3>1, FinConfirms
      <3>3. reach = Len(upstream) + 1 /\ reach \in Nat /\ Len(upstream) \in Nat
        BY <3>2, ContinuedLength, GivenLength
      <3>4. /\ reach' = Len(upstream') + 2 /\ Len(upstream') = Len(upstream)
            /\ Len(upstream) <= Len(upstream') /\ reach <= reach' /\ Len(upstream') <= app.total
        BY <2>1, <3>2, <3>3 DEF Confirmed
      <3>5. app'.una \in Nat /\ app'.rcv \in Nat /\ app.una \in Nat
        BY DEF TypeOK, AppType
      <3>6. /\ app'.total = app.total /\ app.una <= app'.una /\ app.rcv <= app'.rcv
            /\ app'.una <= app.una \/ app'.una <= reach'
        BY <3>2, <3>3, <3>5 DEF Confirming
      <3> QED
        BY <1>4, <3>2, <3>3, <3>4, <3>5, <3>6, ConfirmedMoved
    <2> QED
      BY <2>1, <2>2, <2>3, <2>4
  <1> QED
    BY <1>3, <1>4

-----------------------------------------------------------------------------
(* Forwarding and reading. *)

\* What a report for the socket may do to the app: confirm what comes before offset r, pass
\* on what has been read, and tell the app that the session is over.
Told(a, b, r) ==
  /\ b.isn = a.isn /\ b.total = a.total
  /\ a.una <= b.una /\ b.una \in {a.una, r}
  /\ a.rcv <= b.rcv
  /\ a.reset => b.reset /\ b.rcv = a.rcv

\* What the read half does to an app a.
LEMMA ReadTold ==
  ASSUME TypeOK, NEW st, NEW r \in Seq32, NEW a \in AppType, NEW fw, Read(st, r, a, fw)
  PROVE  /\ Told(a, app', Uint(r - a.isn))
         /\ closed' \/ app'.reset = a.reset
         /\ downstream <= downstream'
         /\ ~readable(st) => app' = a /\ state' = st /\ downstream' = downstream
  <1>1. /\ local_seq \in Seq32 /\ downstream \in Nat /\ 0 \in Nat
        /\ a.una \in Nat /\ a.rcv \in Nat
    BY DEF TypeOK, AppType
  <1>2. Told(a, a, Uint(r - a.isn))
    BY <1>1 DEF Told
  <1>3. ASSUME NEW b, Confirming(a, b, Uint(r - a.isn)) PROVE Told(a, b, Uint(r - a.isn))
    BY <1>3 DEF Confirming, Told
  <1>4. ASSUME NEW why, write_rst(a, st, r, why)
        PROVE  Told(a, app', Uint(r - a.isn)) /\ closed'
    <2>1. Silent(a, app') /\ closed'
      BY <1>4, WriteRst
    <2> QED
      BY <1>1, <2>1 DEF Silent, Told
  <1>5. ASSUME NEW s, NEW flags, flags \in {{"ACK"}, {"FIN", "ACK"}}, NEW n \in Nat,
               NEW ok, write_or_close(a, s, flags, local_seq, r, n, ok)
        PROVE  Told(a, app', Uint(r - a.isn)) /\ app'.reset = a.reset
    <2>1. PICK q : q = Receive(a, write_tcp(flags, local_seq, r, n))
      OBVIOUS
    <2>2. Confirming(a, q, Uint(r - a.isn)) /\ Confirming(a, a, Uint(r - a.isn))
      BY <1>1, <1>5, <2>1, WriteConfirms
    <2>3. app' \in {a, q}
      BY <1>5, <2>1 DEF write_or_close
    <2>4. Confirming(a, app', Uint(r - a.isn))
      BY <2>2, <2>3
    <2> QED
      BY <1>3, <2>4 DEF Confirming
  <1>6. CASE NoRead(st, r, a)
    BY <1>1, <1>2, <1>6 DEF NoRead
  <1>7. CASE readable(st) /\ ReadData(st, r, a)
    <2>1. PICK n, ok : /\ n \in 1 .. Mss
                       /\ write_or_close(a, st, {"ACK"}, local_seq, r, n, ok)
                       /\ downstream' = downstream + n
      BY <1>7 DEF ReadData
    <2>2. n \in Nat
      BY <2>1, SessionAssumption
    <2>3. Told(a, app', Uint(r - a.isn)) /\ app'.reset = a.reset
      BY <1>5, <2>1, <2>2
    <2> QED
      BY <1>1, <1>7, <2>1, <2>2, <2>3
  <1>8. CASE readable(st) /\ ReadEof(st, r, a, fw)
    <2>1. downstream' = downstream
      BY <1>8 DEF ReadEof
    <2>2. CASE fw = <<>>
      <3>1. PICK s, ok : /\ s = IF st = "ESTABLISHED" THEN "FIN_WAIT1" ELSE "LAST_ACK"
                         /\ write_or_close(a, s, {"FIN", "ACK"}, local_seq, r, 0, ok)
        BY <1>8, <2>2 DEF ReadEof
      <3>2. Told(a, app', Uint(r - a.isn)) /\ app'.reset = a.reset
        BY <1>1, <1>5, <3>1
      <3> QED
        BY <1>1, <1>8, <2>1, <3>2
    <2>3. CASE fw # <<>>
      <3>1. write_rst(a, st, r, "close with queue")
        BY <1>8, <2>3 DEF ReadEof
      <3>2. Told(a, app', Uint(r - a.isn)) /\ closed'
        BY <1>4, <3>1
      <3> QED
        BY <1>1, <1>8, <2>1, <3>2
    <2> QED
      BY <2>2, <2>3
  <1>9. CASE readable(st) /\ ReadError(st, r, a)
    <2>1. write_rst(a, st, r, "recv error")
      BY <1>9 DEF ReadError
    <2>2. downstream' = downstream
      BY <1>9 DEF ReadError
    <2>3. Told(a, app', Uint(r - a.isn)) /\ closed'
      BY <1>4, <2>1
    <2> QED
      BY <1>1, <1>9, <2>2, <2>3
  <1> QED
    BY <1>6, <1>7, <1>8, <1>9 DEF Read

\* How far the loop moves remote_seq and the stream to the server.
LEMMA ForwardMoves ==
  ASSUME TypeOK, ConnectInv, OrderInv, OrderInv', Numbers, Confirmed, registered,
         state # "LISTEN", NEW c, c \in ForwardChoices \cup {NoForward}, NEW r,
         "OUT" \notin pending => c = NoForward,
         upstream' = upstream \o Forwarding(c).bytes,
         \/ r = Forwarding(c).seq
         \/ (c.whole > 0 \/ c.part > 0) /\ r = Uint(Forwarding(c).seq + 1)
  PROVE  /\ app.rcv = 0 => upstream' = upstream /\ Uint(r - app.isn) = reach
         /\ upstream' = upstream \/ Continued
         /\ app.rcv > 0 =>
              /\ reach \in Nat /\ reach <= Uint(r - app.isn)
              /\ Uint(r - app.isn) \in {Len(upstream') + 1, Len(upstream') + 2}
              /\ Len(upstream) <= Len(upstream') /\ Len(upstream') <= app.total
  <1>1. /\ app.isn \in Seq32 /\ app.total \in Totals /\ app.total \in Nat /\ InOrder
        /\ app.total + 2 < Wrap /\ Wrap \in Nat /\ app.rcv \in Nat /\ forward \in Seq(Piece)
    <2>1. app.isn \in Seq32 /\ app.total \in Nat /\ app.rcv \in Nat /\ Wrap \in Nat
      BY HalfAssumption DEF TypeOK, AppType, Wrap
    <2>2. app.total \in Totals /\ forward \in Seq(Piece)
      BY DEF OrderInv, Queued
    <2>3. app.total + 2 < Wrap
      BY <2>2 DEF Numbers
    <2> QED
      BY <2>1, <2>2, <2>3, NumbersInOrder
  <1>2. /\ upstream = Promise!beginning(Len(upstream)) /\ Len(upstream) \in Nat
        /\ Len(upstream') \in Nat
    BY GivenLength
  <1>3. ASSUME c.whole = 0, c.part = 0
        PROVE  r = remote_seq /\ upstream' = upstream
    <2>1. Forwarding(c).seq = remote_seq /\ Forwarding(c).bytes = <<>>
      BY <1>1, <1>3, ForwardsNone
    <2>2. PICK k \in Nat \ {0} : upstream = Run(1, k)
      BY DEF OrderInv
    <2>3. upstream \in Seq(Nat)
      BY <2>2, RunType
    <2> QED
      BY <1>3, <2>1, <2>3, ConcatEmptySeq
  <1>4. CASE app.rcv = 0 \/ Ended \/ Refused
    <2>1. c.whole = 0 /\ c.part = 0
      <3>1. CASE Ended
        <4>1. Len(forward) = 0
          BY <3>1 DEF Ended
        <4>2. c.whole \in 0 .. 0 /\ c.part \in Nat /\ ~(c.part > 0)
          BY <1>1, <4>1, ChoiceType
        <4> QED
          BY <4>2
      <3>2. CASE app.rcv = 0 \/ Refused
        <4>1. Overtaken \/ c = NoForward
          BY <1>1, <3>2 DEF ConnectInv, Writable, Waits, Overtaken, Refused
        <4> QED
          BY <4>1, NothingToForward DEF NoForward
      <3> QED
        BY <1>4, <3>1, <3>2
    <2>2. Uint(r - app.isn) = reach
      BY <1>3, <2>1 DEF reach
    <2> QED
      BY <1>2, <1>3, <2>1, <2>2 DEF Confirmed
  <1>5. CASE app.rcv > 0 /\ Continued
    <2>1. reach \in 1 .. app.total + 1 /\ upstream = Run(1, reach)
      BY <1>5 DEF Continued
    <2>2. PICK y \in reach .. app.total + 1 :
            Uint(Forwarding(c).seq - app.isn) = y /\ Forwarding(c).bytes = Run(reach, y)
      BY <1>1, <2>1, ForwardsRun
    <2>3. reach \in Nat /\ y \in Nat /\ 1 <= reach /\ reach <= y /\ y <= app.total + 1
      BY <1>1, <2>1
    <2>4. upstream' = Run(1, y)
      <3>1. PICK x \in Nat : x = reach
        BY <2>3
      <3>2. Run(1, x) \o Run(x, y) = Run(1, y)
        BY <2>3, <3>1, RunsMeet
      <3> QED
        BY <2>1, <2>2, <3>1, <3>2
    <2>5. Len(upstream') = y - 1
      <3>1. 1 \in Nat /\ 1 <= y
        BY <2>3
      <3>2. Len(Run(1, y)) = y - 1
        BY <2>3, <3>1, RunType
      <3> QED
        BY <2>4, <3>2
    <2>6. Len(upstream) = reach - 1
      BY <1>5, <2>3, ContinuedLength
    <2>7. Uint(r - app.isn) \in {y, y + 1}
      <3>1. Forwarding(c).seq \in Seq32
        BY <1>1, ForwardingType DEF TypeOK
      <3>2. Uint(Uint(Forwarding(c).seq + 1) - app.isn) = y + 1
        <4>1. y + 1 < Wrap /\ 1 \in Nat
          BY <1>1, <2>3
        <4> QED
          BY <1>1, <2>2, <3>1, <4>1, OffsetStep
      <3> QED
        BY <2>2, <3>2
    <2> QED
      BY <1>1, <1>5, <2>3, <2>5, <2>6, <2>7
  <1> QED
    BY <1>1, <1>4, <1>5 DEF OrderInv, Onward

\* What a report for a session that has left LISTEN does.
LEMMA TransferMoves ==
  ASSUME TypeOK, SocketInv, ConnectInv, OrderInv, OrderInv', Numbers, Confirmed, registered,
         Transfer
  PROVE  /\ app.rcv = 0 => upstream' = upstream /\ reach' = reach
         /\ upstream' = upstream \/ Continued
         /\ app.rcv > 0 =>
              /\ reach \in Nat /\ reach <= reach'
              /\ reach' \in {Len(upstream') + 1, Len(upstream') + 2}
              /\ Len(upstream) <= Len(upstream') /\ Len(upstream') <= app.total
         /\ Told(app, app', reach') /\ (app.rcv = 0 => app'.una = app.una /\ app'.rcv = 0)
         /\ closed' \/ app'.reset = app.reset
         /\ downstream <= downstream'
         /\ \/ state \in {"ESTABLISHED", "CLOSE_WAIT"}
            \/ /\ app'.rcv = app.rcv /\ app'.reset = app.reset /\ downstream' = downstream
               /\ state' \in {state, "CLOSING"}
         /\ state' \in {state, "FIN_WAIT1", "LAST_ACK", "CLOSING", "CLOSE"}
  <1>1. PICK c \in (IF "OUT" \in pending THEN ForwardChoices ELSE {NoForward}),
             window \in (IF socket THEN {0, 1} ELSE {0}), ok \in Outcomes("tun") :
               ForwardAndRead(c, window, ok)
    BY DEF Transfer
  <1>2. /\ state # "LISTEN" /\ c \in ForwardChoices \cup {NoForward}
        /\ app \in AppType /\ app.rcv \in Nat /\ app.una \in Nat
        /\ local_seq \in Seq32 /\ downstream \in Nat /\ 0 \in Nat
        /\ "OUT" \notin pending => c = NoForward
    BY <1>1 DEF Transfer, TypeOK, AppType
  <1>3. PICK f : f = Forwarding(c)
    OBVIOUS
  <1>4. PICK r : r = IF (c.whole > 0 \/ c.part > 0) /\ f.queue = <<>> /\ state = "CLOSE_WAIT"
                     THEN Uint(f.seq + 1) ELSE f.seq
    OBVIOUS
  <1>5. r \in Seq32
    <2>1. f.seq \in Seq32
      BY <1>2, <1>3, ForwardingType
    <2> QED
      BY <1>4, <2>1, StepType
  <1>6. PICK q : q = Receive(app, write_tcp({"ACK"}, local_seq, r, 0))
    OBVIOUS
  <1>7. /\ q \in AppType /\ SameSource(app, q)
        /\ Confirming(app, q, Uint(r - app.isn)) /\ Confirming(app, app, Uint(r - app.isn))
    BY <1>2, <1>5, <1>6, WriteConfirms, AckSource
  <1>8. PICK st \in {state, "CLOSING"}, a \in {app, q} : Read(st, r, a, f.queue)
    BY <1>1, <1>3, <1>4, <1>6 DEF ForwardAndRead
  <1>9. /\ a \in AppType /\ a.rcv = app.rcv /\ Confirming(app, a, Uint(r - app.isn))
    BY <1>2, <1>7, <1>8 DEF SameSource
  <1>10. /\ a.isn = app.isn /\ a.total = app.total /\ a.reset = app.reset
         /\ app.una <= a.una /\ a.una \in {app.una, Uint(r - app.isn)} /\ a.una \in Nat
         /\ app.rcv = 0 => a.una = app.una
    BY <1>9 DEF Confirming, AppType
  <1>11. /\ Told(a, app', Uint(r - a.isn))
         /\ closed' \/ app'.reset = a.reset
         /\ downstream <= downstream'
         /\ ~readable(st) => app' = a /\ state' = st /\ downstream' = downstream
    BY <1>5, <1>8, <1>9, ReadTold
  <1>12. remote_seq' = r /\ state' \in {state, "FIN_WAIT1", "LAST_ACK", "CLOSING", "CLOSE"}
    <2>1. st # "LISTEN"
      BY <1>2
    <2>2. remote_seq' = r /\ state' \in {st, "FIN_WAIT1", "LAST_ACK", "CLOSING", "CLOSE"}
      BY <1>5, <1>8, <1>9, <2>1, ReadOrder
    <2> QED
      BY <1>8, <2>2
  <1>13. reach' = Uint(r - app.isn)
    BY <1>10, <1>11, <1>12 DEF reach, Told
  <1>14. Told(app, app', reach')
    <2>1. app.una <= app'.una /\ app'.una \in {app.una, Uint(r - app.isn)}
      <3>1. /\ a.una <= app'.una /\ app'.una \in {a.una, Uint(r - app.isn)}
        BY <1>10, <1>11 DEF Told
      <3>2. app'.una \in Nat
        <4>1. Uint(r - app.isn) \in Nat
          BY <1>2, <1>5, ValueOffset DEF AppType
        <4> QED
          BY <1>10, <3>1, <4>1
      <3> QED
        BY <1>2, <1>10, <3>1, <3>2
    <2> QED
      BY <1>9, <1>10, <1>11, <1>13, <2>1 DEF Told
  <1>15. ASSUME readable(st) PROVE state \in {"ESTABLISHED", "CLOSE_WAIT"} /\ app.rcv # 0
    <2>1. state \in {"ESTABLISHED", "CLOSE_WAIT"}
      BY <1>8, <1>15 DEF readable
    <2> QED
      BY <2>1 DEF ConnectInv, Answered
  <1>16. app.rcv = 0 => app'.una = app.una /\ app'.rcv = 0
    BY <1>9, <1>10, <1>11, <1>15
  <1>17. \/ state \in {"ESTABLISHED", "CLOSE_WAIT"}
         \/ /\ app'.rcv = app.rcv /\ app'.reset = app.reset /\ downstream' = downstream
            /\ state' \in {state, "CLOSING"}
    BY <1>8, <1>9, <1>10, <1>11, <1>15
  <1>18. /\ upstream' = upstream \o Forwarding(c).bytes
         /\ \/ r = Forwarding(c).seq
            \/ (c.whole > 0 \/ c.part > 0) /\ r = Uint(Forwarding(c).seq + 1)
    BY <1>1, <1>3, <1>4 DEF ForwardAndRead
  <1>19. /\ app.rcv = 0 => upstream' = upstream /\ Uint(r - app.isn) = reach
         /\ upstream' = upstream \/ Continued
         /\ app.rcv > 0 =>
              /\ reach \in Nat /\ reach <= Uint(r - app.isn)
              /\ Uint(r - app.isn) \in {Len(upstream') + 1, Len(upstream') + 2}
              /\ Len(upstream) <= Len(upstream') /\ Len(upstream') <= app.total
    BY <1>2, <1>18, ForwardMoves
  <1>20. closed' \/ app'.reset = app.reset
    BY <1>10, <1>11
  <1> QED
    BY <1>11, <1>12, <1>13, <1>14, <1>16, <1>17, <1>19, <1>20

-----------------------------------------------------------------------------
(* Reports for the socket. *)

\* The SYN is answered, for an app that has had no answer.
LEMMA ConnectedMoves ==
  ASSUME TypeOK, SocketInv, ConnectInv, Connected, registered, pending # {}
  PROVE  /\ app.rcv = 0 /\ state = "LISTEN" /\ upstream = <<>>
         /\ UNCHANGED <<connect_sent, upstream, downstream>>
         /\ remote_seq' = Uint(remote_seq + 1)
         /\ \/ app' = app /\ state' \in {"SYN_RECV", "CLOSING"}
            \/ /\ ~app.reset /\ ~app'.reset /\ app'.rcv = 1 /\ app'.una = 1
               /\ app'.isn = app.isn /\ app'.total = app.total
               /\ state' = "SYN_RECV"
  <1>1. /\ "OUT" \in pending /\ state = "LISTEN" /\ remote_seq' = Uint(remote_seq + 1)
        /\ UNCHANGED <<connect_sent, upstream, downstream>>
    BY DEF Connected, TypeOK, history
  <1>2. app.rcv = 0 /\ upstream = <<>>
    BY <1>1 DEF ConnectInv, Writable, Waits, Overtaken, Answered
  <1>3. /\ local_seq \in Seq32 /\ remote_seq' \in Seq32 /\ app \in AppType /\ 0 \in Nat
    BY <1>1, StepType DEF TypeOK
  <1>4. PICK p : p = write_tcp({"SYN", "ACK"}, local_seq, remote_seq', 0)
    OBVIOUS
  <1>5. \/ app' = app /\ state' = "CLOSING"
        \/ app' = Receive(app, p) /\ state' = "SYN_RECV"
    BY <1>4 DEF Connected, write_or_close
  <1>6. p \in Reply /\ p.syn /\ ~p.rst
    <2>1. p \in Reply
      BY <1>3, <1>4, WriteType
    <2> QED
      BY <1>4, <2>1 DEF write_tcp
  <1>7. \/ app.reset /\ Receive(app, p) = app
        \/ /\ ~app.reset /\ ~Receive(app, p).reset
           /\ Receive(app, p).rcv = 1 /\ Receive(app, p).una = 1
           /\ Receive(app, p).isn = app.isn /\ Receive(app, p).total = app.total
    BY <1>2, <1>3, <1>6, SynConfirms
  <1> QED
    BY <1>1, <1>2, <1>5, <1>7

\* A session that listens has seen nothing but the SYN, unless it has sent the CONNECT.
LEMMA Listening ==
  ASSUME TypeOK, ConnectInv, registered, state = "LISTEN", ~(dest = 443 /\ connect_sent = "SENT")
  PROVE  app.rcv = 0 /\ reach = 0 /\ Uint(Uint(remote_seq + 1) - app.isn) = 1
  <1>1. app.rcv = 0 /\ remote_seq = app.isn
    BY DEF ConnectInv, Unanswered
  <1>2. app.isn \in Seq32 /\ app.isn \in Nat /\ 0 \in Nat /\ 1 \in Nat /\ 0 < Wrap /\ 1 < Wrap
    BY Seq32Nat, HalfAssumption DEF TypeOK, AppType, Wrap
  <1>3. Uint(app.isn + 1) \in Seq32
    BY <1>2, StepType
  <1>4. Uint(Uint(app.isn + 1) - app.isn) = 1
    BY <1>2, OffsetValue
  <1>5. Uint(app.isn - app.isn) = 0
    BY <1>2, UintValue, app.isn - app.isn = 0
  <1> QED
    BY <1>1, <1>4, <1>5 DEF reach

\* Reports confirm what comes before remote_seq.
LEMMA ConfirmedEvent ==
  ASSUME TypeOK, TypeOK', SocketInv, ConnectInv, OrderInv, OrderInv', Numbers,
         Confirmed, Starting, check_tcp_socket
  PROVE  Confirmed'
  <1>1. /\ registered /\ UNCHANGED <<registered, dest>> /\ pending # {} /\ app \in AppType
        /\ Silent(app, app) /\ app.total \in Nat /\ app.rcv \in Nat /\ app.una \in Nat
        /\ app'.rcv \in Nat /\ app'.una \in Nat
    BY DEF SocketInv, check_tcp_socket, TypeOK, AppType, Silent
  <1>2. ASSUME NEW why, write_rst(app, state, remote_seq, why), upstream' = upstream
        PROVE  Confirmed'
    BY <1>1, <1>2, RstConfirmed
  <1>3. CASE SocketError
    BY <1>2, <1>3 DEF SocketError
  <1>4. CASE ConnectReply
    <2>1. CASE app' = app /\ remote_seq' = remote_seq
      <3>1. upstream' = upstream
        BY <1>4 DEF ConnectReply
      <3> QED
        BY <1>1, <2>1, <3>1, ConfirmedKept
    <2>2. CASE write_rst(app, state, remote_seq, "CONNECT refused")
      <3>1. upstream' = upstream
        BY <1>4 DEF ConnectReply
      <3> QED
        BY <1>2, <2>2, <3>1
    <2> QED
      BY <1>4, <2>1, <2>2 DEF ConnectReply
  <1>5. CASE Connected
    <2>1. /\ app.rcv = 0 /\ state = "LISTEN" /\ upstream = <<>> /\ upstream' = upstream
          /\ remote_seq' = Uint(remote_seq + 1)
          /\ \/ app' = app
             \/ /\ app'.rcv = 1 /\ app'.una = 1
                /\ app'.isn = app.isn /\ app'.total = app.total
      BY <1>1, <1>5, ConnectedMoves
    <2>2. CASE app' = app
      BY <1>1, <2>1, <2>2, ConfirmedKept
    <2>3. CASE /\ app'.rcv = 1 /\ app'.una = 1
               /\ app'.isn = app.isn /\ app'.total = app.total
      <3>1. reach \in {0, 1}
        <4>1. CASE connecting
          BY <1>1, <2>1, <4>1 DEF Starting
        <4>2. CASE ~connecting
          BY <1>1, <2>1, <4>2, Listening DEF connecting
        <4> QED
          BY <4>1, <4>2
      <3>2. Uint(Uint(remote_seq + 1) - app.isn) = reach + 1
        <4>1. remote_seq \in Seq32 /\ app.isn \in Seq32 /\ 1 \in Nat
          BY DEF TypeOK, AppType
        <4>2. reach + 1 < Wrap
          BY <3>1, HalfAssumption DEF Wrap
        <4> QED
          BY <4>1, <4>2, OffsetStep DEF reach
      <3>3. reach' = reach + 1
        BY <2>1, <2>3, <3>2 DEF reach
      <3>4. Len(upstream') = 0
        BY <2>1
      <3> QED
        BY <1>1, <2>3, <3>1, <3>3, <3>4 DEF Confirmed
    <2> QED
      BY <2>1, <2>2, <2>3
  <1>6. CASE Transfer
    <2>1. /\ app.rcv = 0 => upstream' = upstream /\ reach' = reach
          /\ app.rcv > 0 =>
               /\ reach \in Nat /\ reach <= reach'
               /\ reach' \in {Len(upstream') + 1, Len(upstream') + 2}
               /\ Len(upstream) <= Len(upstream') /\ Len(upstream') <= app.total
          /\ Told(app, app', reach') /\ (app.rcv = 0 => app'.una = app.una /\ app'.rcv = 0)
      BY <1>1, <1>6, TransferMoves
    <2>2. /\ app'.total = app.total /\ app.una <= app'.una /\ app.rcv <= app'.rcv
          /\ app'.una \in {app.una, reach'}
      BY <2>1 DEF Told
    <2>3. CASE app.rcv = 0
      BY <1>1, <2>1, <2>2, <2>3 DEF Confirmed
    <2>4. CASE app.rcv > 0
      <3>1. Len(upstream) \in Nat /\ Len(upstream') \in Nat
        BY GivenLength
      <3>2. app'.una <= app.una \/ app'.una <= reach'
        BY <1>1, <2>2
      <3> QED
        BY <1>1, <2>1, <2>2, <2>4, <3>1, <3>2, ConfirmedMoved
    <2> QED
      BY <1>1, <2>3, <2>4
  <1> QED
    BY <1>3, <1>4, <1>5, <1>6 DEF check_tcp_socket

-----------------------------------------------------------------------------
(* Rounds. *)

\* The number before remote_seq.
LEMMA ProbeOffset ==
  ASSUME TypeOK, reach \in Nat, reach > 0
  PROVE  Uint(Uint(remote_seq - 1) - app.isn) = reach - 1
  <1>1. /\ app.isn \in Nat /\ app.isn < Wrap /\ remote_seq \in Nat /\ remote_seq < Wrap
        /\ Wrap \in Nat
    BY HalfAssumption DEF TypeOK, AppType, Seq32, Wrap
  <1>2. CASE remote_seq > app.isn
    <2>1. reach = remote_seq - app.isn
      BY <1>1, <1>2, UintValue DEF reach
    <2>2. Uint(remote_seq - 1) = remote_seq - 1
      BY <1>1, <1>2, UintValue
    <2>3. Uint(remote_seq - 1 - app.isn) = remote_seq - 1 - app.isn
      BY <1>1, <1>2, UintValue
    <2> QED
      BY <1>1, <2>1, <2>2, <2>3
  <1>3. CASE remote_seq = app.isn
    <2>1. reach = 0
      BY <1>1, <1>3, UintValue, app.isn - app.isn = 0 DEF reach
    <2> QED
      BY <2>1
  <1>4. CASE remote_seq < app.isn
    <2>1. reach = remote_seq - app.isn + Wrap
      BY <1>1, <1>4, UintValue DEF reach
    <2>2. CASE remote_seq = 0
      <3>1. Uint(remote_seq - 1) = Wrap - 1
        BY <1>1, <2>2, UintValue
      <3>2. Uint(Wrap - 1 - app.isn) = Wrap - 1 - app.isn
        BY <1>1, UintValue
      <3> QED
        BY <1>1, <2>1, <2>2, <3>1, <3>2
    <2>3. CASE remote_seq > 0
      <3>1. Uint(remote_seq - 1) = remote_seq - 1
        BY <1>1, <2>3, UintValue
      <3>2. Uint(remote_seq - 1 - app.isn) = remote_seq - 1 - app.isn + Wrap
        BY <1>1, <1>4, <2>3, UintValue
      <3> QED
        BY <1>1, <2>1, <3>1, <3>2
    <2> QED
      BY <1>1, <2>2, <2>3
  <1> QED
    BY <1>1, <1>2, <1>3, <1>4

\* The probe of a shut window confirms less than everything.
LEMMA MonitorMoves ==
  ASSUME TypeOK, OrderInv, Confirmed, monitor_tcp_session
  PROVE  /\ registered /\ UNCHANGED <<registered, dest, socket, connect_sent, remote_seq,
                                      forward, pending, upstream, downstream>>
         /\ state' \in {state, "CLOSING"}
         /\ \/ app' = app
            \/ /\ state \in {"ESTABLISHED", "CLOSE_WAIT"}
               /\ app'.isn = app.isn /\ app'.total = app.total /\ app'.reset = app.reset
               /\ app'.rcv = app.rcv /\ app.una <= app'.una
               /\ app'.una = app.una \/ app'.una <= reach
  <1>1. /\ registered /\ UNCHANGED <<registered, dest, socket, connect_sent, remote_seq,
                                     forward, pending, upstream, downstream>>
        /\ state' \in {state, "CLOSING"}
    BY DEF monitor_tcp_session, seqs, history
  <1>2. PICK p : p = Receive(app, write_tcp({"ACK"}, local_seq, Uint(remote_seq - 1), 0))
    OBVIOUS
  <1>3. \/ app' = app
        \/ state \in {"ESTABLISHED", "CLOSE_WAIT"} /\ app' = p
    BY <1>2 DEF monitor_tcp_session
  <1>4. /\ local_seq \in Seq32 /\ Uint(remote_seq - 1) \in Seq32 /\ app \in AppType /\ 0 \in Nat
        /\ app.una \in Nat /\ app.rcv \in Nat
    BY StepType DEF TypeOK, AppType
  <1>5. /\ Confirming(app, p, Uint(Uint(remote_seq - 1) - app.isn)) /\ SameSource(app, p)
    BY <1>2, <1>4, WriteConfirms, AckSource
  <1>6. p.una = app.una \/ p.una <= reach
    <2>1. CASE app.rcv = 0
      BY <1>5, <2>1 DEF Confirming
    <2>2. CASE app.rcv > 0
      <3>1. reach \in Nat
        <4>1. remote_seq \in Seq32 /\ app.isn \in Seq32
          BY DEF TypeOK, AppType
        <4>2. Uint(remote_seq - app.isn) \in 0 .. Wrap - 1
          BY <4>1, ValueOffset
        <4> QED
          BY <4>2 DEF reach
      <3>2. reach > 0
        <4>1. reach \in {Len(upstream) + 1, Len(upstream) + 2}
          BY <1>1, <2>2 DEF Confirmed
        <4>2. Len(upstream) \in Nat
          BY GivenLength
        <4> QED
          BY <4>1, <4>2
      <3>3. Uint(Uint(remote_seq - 1) - app.isn) = reach - 1
        BY <3>1, <3>2, ProbeOffset
      <3> QED
        BY <1>5, <3>1, <3>3 DEF Confirming
    <2> QED
      BY <1>4, <2>1, <2>2
  <1>7. /\ p.isn = app.isn /\ p.total = app.total /\ p.reset = app.reset
        /\ p.rcv = app.rcv /\ app.una <= p.una
    BY <1>5 DEF Confirming, SameSource
  <1> QED
    BY <1>1, <1>3, <1>6, <1>7

\* What expires is told so, or not.
LEMMA CheckMoves ==
  ASSUME TypeOK, check_tcp_session
  PROVE  /\ UNCHANGED <<dest, connect_sent, remote_seq, forward, upstream, downstream>>
         /\ Silent(app, app')
         /\ \/ registered' = registered /\ state' = "CLOSE"
            \/ ~registered' /\ state' = "CLOSE" /\ state = "CLOSE" /\ app' = app
            \/ registered' = registered /\ state' = state /\ app' = app
  <1>1. UNCHANGED <<dest, connect_sent, remote_seq, forward, upstream, downstream>>
    BY DEF check_tcp_session, seqs
  <1>2. Silent(app, app) /\ local_seq \in Seq32 /\ remote_seq \in Seq32 /\ app \in AppType
    BY DEF Silent, TypeOK
  <1>3. PICK p : p = write_tcp({"RST"}, local_seq, remote_seq, 0)
    OBVIOUS
  <1>4. p \in Reply /\ p.rst
    <2>1. p \in Reply
      BY <1>2, <1>3, WriteType, 0 \in Nat
    <2> QED
      BY <1>3, <2>1 DEF write_tcp
  <1>5. app' \in {app, Receive(app, p)}
    BY <1>3 DEF check_tcp_session, Expire, CloseSocket, Delete, CheckNothing
  <1>6. Silent(app, app')
    BY <1>2, <1>4, <1>5, RstSilent
  <1>7. \/ registered' = registered /\ state' = "CLOSE"
        \/ ~registered' /\ state' = "CLOSE" /\ state = "CLOSE" /\ app' = app
        \/ registered' = registered /\ state' = state /\ app' = app
    BY DEF check_tcp_session, Expire, CloseSocket, Delete, CheckNothing
  <1> QED
    BY <1>1, <1>6, <1>7

\* Rounds confirm no more than remote_seq counts.
LEMMA ConfirmedRound ==
  ASSUME TypeOK, TypeOK', OrderInv, Confirmed, monitor_tcp_session \/ check_tcp_session
  PROVE  Confirmed'
  <1>1. /\ app.una \in Nat /\ app.rcv \in Nat /\ app'.una \in Nat /\ app'.rcv \in Nat
        /\ app.total \in Nat /\ Silent(app, app) /\ registered \in BOOLEAN
        /\ registered' \in BOOLEAN
    BY DEF TypeOK, AppType, Silent
  <1>2. CASE monitor_tcp_session
    <2>1. /\ registered /\ UNCHANGED <<registered, remote_seq, upstream>>
          /\ \/ app' = app
             \/ /\ app'.isn = app.isn /\ app'.total = app.total
                /\ app'.rcv = app.rcv /\ app.una <= app'.una
                /\ app'.una = app.una \/ app'.una <= reach
      BY <1>2, MonitorMoves
    <2>2. CASE app' = app
      BY <1>1, <2>1, <2>2, ConfirmedKept
    <2>3. CASE /\ app'.isn = app.isn /\ app'.total = app.total
               /\ app'.rcv = app.rcv /\ app.una <= app'.una
               /\ app'.una = app.una \/ app'.una <= reach
      <3>1. Len(upstream) \in Nat
        BY GivenLength
      <3>2. reach' = reach
        BY <2>1, <2>3 DEF reach
      <3>3. CASE app.rcv = 0
        <4>1. app'.una = app.una
          <5>1. PICK p : p = Receive(app, write_tcp({"ACK"}, local_seq, Uint(remote_seq - 1), 0))
            OBVIOUS
          <5>2. app' \in {app, p}
            BY <1>2, <5>1 DEF monitor_tcp_session
          <5>3. /\ local_seq \in Seq32 /\ Uint(remote_seq - 1) \in Seq32 /\ app \in AppType
                /\ 0 \in Nat
            BY StepType DEF TypeOK
          <5>4. Confirming(app, p, Uint(Uint(remote_seq - 1) - app.isn))
            BY <5>1, <5>3, WriteConfirms
          <5> QED
            BY <3>3, <5>2, <5>4 DEF Confirming
        <4> QED
          BY <1>1, <2>1, <2>3, <3>3, <4>1 DEF Confirmed
      <3>4. CASE app.rcv > 0
        <4>1. reach \in {Len(upstream) + 1, Len(upstream) + 2} /\ Len(upstream) <= app.total
          BY <2>1, <3>4 DEF Confirmed
        <4>2. app'.una <= app.una \/ app'.una <= reach'
          BY <1>1, <2>3, <3>2
        <4>3. reach <= reach' /\ Len(upstream') = Len(upstream) /\ app.rcv <= app'.rcv
          BY <1>1, <2>1, <2>3, <3>1, <3>2, <4>1
        <4> QED
          BY <1>1, <2>1, <2>3, <3>1, <3>2, <3>4, <4>1, <4>2, <4>3, ConfirmedMoved
      <3> QED
        BY <1>1, <3>3, <3>4
    <2> QED
      BY <2>1, <2>2, <2>3
  <1>3. CASE check_tcp_session
    <2>1. /\ UNCHANGED <<remote_seq, upstream>> /\ Silent(app, app')
          /\ UNCHANGED registered \/ ~registered'
      BY <1>3, CheckMoves
    <2> QED
      BY <2>1, ConfirmedKept
  <1> QED
    BY <1>2, <1>3


-----------------------------------------------------------------------------
(* Before the session opens. *)

\* A packet that a session handles once the CONNECT is accepted does not take it back to
\* its opening.
LEMMA PacketOpens ==
  ASSUME NEW p \in AppPackets, registered, ~connecting, handle_tcp(p)
  PROVE  state' = state \/ state' \notin {"LISTEN", "SYN_RECV"}
  <1>1. \/ WasClosed(p) \/ DataRefused(p) \/ ReceiveRst(p) \/ RepeatedSyn(p)
        \/ ReceiveFin(p) \/ ReceiveAck(p) \/ PreviousAck(p) \/ FutureAck(p)
    BY DEF handle_tcp, NewSession, UnknownSession, ConnectPhase
  <1>2. CASE WasClosed(p) \/ DataRefused(p) \/ FutureAck(p)
    BY <1>2 DEF WasClosed, DataRefused, FutureAck, write_rst
  <1>3. CASE ReceiveFin(p)
    BY <1>3 DEF ReceiveFin, write_or_close
  <1>4. CASE ReceiveRst(p) \/ RepeatedSyn(p) \/ PreviousAck(p)
    BY <1>4 DEF ReceiveRst, RepeatedSyn, PreviousAck
  <1>5. CASE ReceiveAck(p)
    <2>1. state' \in {"ESTABLISHED", "CLOSING", state}
      BY <1>5 DEF ReceiveAck
    <2> QED
      BY <2>1
  <1> QED
    BY <1>1, <1>2, <1>3, <1>4, <1>5

\* A new session, and the CONNECT's phase, before a packet and after it.
LEMMA StartingTun ==
  ASSUME TypeOK, ConnectInv, Starting, check_tun
  PROVE  Starting'
  <1>1. PICK p \in AppPackets : (p.syn => registered \/ app.rcv = 0) /\ handle_tcp(p)
    BY DEF check_tun
  <1>2. /\ app \in AppType /\ app.isn \in Seq32 /\ remote_seq \in Seq32
        /\ Sent(p) \in AppType /\ Sent(p).isn = app.isn /\ Sent(p).rcv = app.rcv
    BY SentKeeps, SentSource DEF TypeOK, AppType
  <1>3. CASE ~registered
    <2>1. NewSession(p) \/ UnknownSession(p)
      BY <1>1, <1>3, UnknownSilent
    <2>2. CASE UnknownSession(p)
      BY <1>3, <2>2 DEF UnknownSession, link, Starting
    <2>3. CASE NewSession(p) /\ registered'
      <3>1. p.syn /\ app' = Sent(p) /\ remote_seq' = p.seq
        BY <2>3 DEF NewSession
      <3>2. p.seq = app.isn
        BY <1>1, <1>2, <3>1, SynOnly
      <3>3. app.isn - app.isn = 0 /\ 0 < Wrap /\ 0 \in Int
        BY <1>2, HalfAssumption DEF Seq32, Wrap
      <3>4. Uint(0) = 0
        BY <3>3, UintValue
      <3>5. reach' = 0
        BY <1>2, <3>1, <3>2, <3>3, <3>4 DEF reach
      <3> QED
        BY <3>5 DEF Starting
    <2>4. CASE ~registered'
      BY <2>4 DEF Starting
    <2> QED
      BY <2>1, <2>2, <2>3, <2>4
  <1>4. CASE registered /\ connecting
    <2>1. ConnectPhase(p) /\ registered' = registered /\ dest' = dest
      BY <1>1, <1>4 DEF handle_tcp, NewSession, UnknownSession, ConnectPhase, WasClosed,
        DataRefused, Accept, ReceiveRst, RepeatedSyn, ReceiveFin, ReceiveAck, PreviousAck,
        FutureAck, link
    <2>2. CASE SendConnect /\ app' = Sent(p) /\ remote_seq' = remote_seq
      <3>1. connect_sent = "NOT_SENT" /\ reach' = reach /\ app'.rcv = app.rcv
        BY <1>2, <2>2 DEF SendConnect, reach
      <3> QED
        BY <1>4, <3>1 DEF Starting
    <2>3. CASE /\ connect_sent = "NOT_SENT" /\ connect_sent' = connect_sent
               /\ write_rst(Sent(p), state, remote_seq, "CONNECT")
      <3>1. /\ app'.isn = app.isn /\ app'.rcv = app.rcv
            /\ remote_seq' = IF state = "LISTEN" THEN Uint(remote_seq + 1) ELSE remote_seq
        BY <1>2, <2>3, RstKeeps
      <3>2. CASE state = "LISTEN"
        <4>1. Uint(Uint(remote_seq + 1) - app.isn) = 1
          BY <1>4, <2>3, <3>2, Listening
        <4>2. reach' = 1
          BY <3>1, <3>2, <4>1 DEF reach
        <4> QED
          BY <4>2 DEF Starting
      <3>3. CASE state # "LISTEN"
        <4>1. reach' = reach
          BY <3>1, <3>3 DEF reach
        <4> QED
          BY <1>4, <2>3, <3>1, <4>1 DEF Starting
      <3> QED
        BY <3>2, <3>3
    <2>4. CASE app' = Sent(p) /\ UNCHANGED <<connect_sent, state, remote_seq>>
      <3>1. reach' = reach /\ app'.rcv = app.rcv
        BY <1>2, <2>4 DEF reach
      <3> QED
        BY <1>4, <2>1, <2>4, <3>1 DEF Starting, connecting
    <2> QED
      BY <2>1, <2>2, <2>3, <2>4 DEF ConnectPhase
  <1>5. CASE registered /\ ~connecting
    <2>1. dest' = dest /\ connect_sent' = connect_sent
      BY <1>1, <1>5 DEF handle_tcp, NewSession, UnknownSession, ConnectPhase, WasClosed,
        DataRefused, Accept, ReceiveRst, RepeatedSyn, ReceiveFin, ReceiveAck, PreviousAck,
        FutureAck, link
    <2> QED
      BY <1>5, <2>1 DEF Starting, connecting
  <1> QED
    BY <1>3, <1>4, <1>5

\* Reports.
LEMMA StartingEvent ==
  ASSUME TypeOK, TypeOK', SocketInv, ConnectInv, OrderInv, OrderInv', Numbers, Confirmed,
         Starting, check_tcp_socket
  PROVE  Starting'
  <1>1. /\ registered /\ UNCHANGED <<registered, dest>> /\ pending # {} /\ app \in AppType
        /\ remote_seq \in Seq32 /\ app.rcv \in Nat /\ app'.rcv \in Nat
    BY DEF SocketInv, check_tcp_socket, TypeOK, AppType
  <1>2. ASSUME NEW why, write_rst(app, state, remote_seq, why), connect_sent' = connect_sent
        PROVE  Starting'
    <2>1. /\ app'.isn = app.isn /\ app'.rcv = app.rcv /\ state' # "LISTEN"
          /\ remote_seq' = IF state = "LISTEN" THEN Uint(remote_seq + 1) ELSE remote_seq
      BY <1>1, <1>2, RstKeeps DEF write_rst
    <2>2. CASE connect_sent = "NOT_SENT" /\ state = "LISTEN"
      <3>1. Uint(Uint(remote_seq + 1) - app.isn) = 1
        BY <1>1, <2>2, Listening
      <3>2. reach' = 1
        BY <2>1, <2>2, <3>1 DEF reach
      <3> QED
        BY <3>2 DEF Starting
    <2>3. CASE connect_sent = "NOT_SENT" /\ state # "LISTEN"
      <3>1. reach' = reach
        BY <2>1, <2>3 DEF reach
      <3> QED
        BY <1>1, <1>2, <2>1, <2>3, <3>1 DEF Starting, connecting
    <2>4. CASE connect_sent # "NOT_SENT"
      BY <1>2, <2>1, <2>4 DEF Starting
    <2> QED
      BY <2>2, <2>3, <2>4
  <1>3. CASE SocketError
    BY <1>2, <1>3 DEF SocketError
  <1>4. CASE ConnectReply
    <2>1. CASE connect_sent' = "ESTABLISHED"
      BY <2>1 DEF Starting, connecting
    <2>2. CASE write_rst(app, state, remote_seq, "CONNECT refused") /\ UNCHANGED connect_sent
      BY <1>2, <2>2
    <2> QED
      BY <1>4, <2>1, <2>2 DEF ConnectReply
  <1>5. CASE Connected
    <2>1. /\ state = "LISTEN" /\ connect_sent' = connect_sent
          /\ remote_seq' = Uint(remote_seq + 1)
          /\ app' = app \/ app'.rcv = 1
          /\ state' \in {"SYN_RECV", "CLOSING"}
      BY <1>1, <1>5, ConnectedMoves
    <2>2. CASE app' = app /\ connect_sent = "NOT_SENT"
      <3>1. Uint(Uint(remote_seq + 1) - app.isn) = 1
        BY <1>1, <2>1, <2>2, Listening
      <3>2. reach' = 1
        BY <2>1, <2>2, <3>1 DEF reach
      <3> QED
        BY <3>2 DEF Starting
    <2> QED
      BY <2>1, <2>2 DEF Starting
  <1>6. CASE Transfer
    <2>1. /\ app.rcv = 0 => reach' = reach
          /\ Told(app, app', reach')
          /\ state' \in {state, "FIN_WAIT1", "LAST_ACK", "CLOSING", "CLOSE"}
      BY <1>1, <1>6, TransferMoves
    <2>2. state # "LISTEN" /\ connect_sent' = connect_sent /\ app.rcv <= app'.rcv
      BY <1>6, <2>1 DEF Transfer, Told
    <2>3. CASE app'.rcv = 0 /\ connect_sent = "NOT_SENT"
      <3>1. app.rcv = 0
        BY <1>1, <2>2, <2>3
      <3> QED
        BY <1>1, <2>1, <2>2, <2>3, <3>1 DEF Starting, connecting
    <2> QED
      BY <2>1, <2>2, <2>3 DEF Starting
  <1> QED
    BY <1>3, <1>4, <1>5, <1>6 DEF check_tcp_socket

\* Rounds leave the app's answer and remote_seq alone.
LEMMA StartingRound ==
  ASSUME TypeOK, OrderInv, Confirmed, Starting, monitor_tcp_session \/ check_tcp_session
  PROVE  Starting'
  <1>1. CASE monitor_tcp_session
    <2>1. /\ registered /\ UNCHANGED <<registered, dest, connect_sent, remote_seq>>
          /\ state' \in {state, "CLOSING"}
          /\ app'.isn = app.isn /\ app'.rcv = app.rcv
      BY <1>1, MonitorMoves
    <2>2. reach' = reach
      BY <2>1 DEF reach
    <2> QED
      BY <2>1, <2>2 DEF Starting, connecting
  <1>2. CASE check_tcp_session
    <2>1. /\ UNCHANGED <<dest, connect_sent, remote_seq>> /\ Silent(app, app')
          /\ ~registered' \/ UNCHANGED registered
          /\ state' \in {state, "CLOSE"}
      BY <1>2, CheckMoves
    <2>2. reach' = reach /\ app'.rcv = app.rcv
      BY <2>1 DEF reach, Silent
    <2> QED
      BY <2>1, <2>2 DEF Starting, connecting
  <1> QED
    BY <1>1, <1>2

\* A packet leaves a session that has not been opened as it was, or begins one.
LEMMA FreshTun ==
  ASSUME TypeOK, ConnectInv, StreamInv, Fresh, check_tun
  PROVE  Fresh'
  <1>1. PICK p \in AppPackets : (p.syn => registered \/ app.rcv = 0) /\ handle_tcp(p)
    BY DEF check_tun
  <1>2. UNCHANGED <<upstream, downstream>>
    BY <1>1 DEF handle_tcp, NewSession, UnknownSession, ConnectPhase, WasClosed,
      DataRefused, Accept, ReceiveRst, RepeatedSyn, ReceiveFin, ReceiveAck, PreviousAck,
      FutureAck, history
  <1>3. CASE ~registered
    <2>1. NewSession(p) \/ UnknownSession(p)
      BY <1>1, <1>3, UnknownSilent
    <2>2. CASE NewSession(p)
      <3>1. app.rcv = 0
        BY <1>1, <1>3, <2>2 DEF NewSession
      <3> QED
        BY <1>2, <3>1 DEF ConnectInv, Answered, StreamInv, Counted, Fresh
    <2>3. CASE UnknownSession(p)
      BY <1>3, <2>3 DEF UnknownSession, link, Fresh
    <2> QED
      BY <2>1, <2>2, <2>3
  <1>4. CASE registered /\ connecting
    BY <1>2, <1>4 DEF ConnectInv, ConnectFirst, StreamInv, Waiting, Fresh
  <1>5. CASE registered /\ ~connecting
    BY <1>1, <1>2, <1>5, PacketOpens DEF Fresh
  <1> QED
    BY <1>3, <1>4, <1>5

\* Nothing is forwarded or read for a session that waits for the app's acknowledgement.
LEMMA NoTransfer ==
  ASSUME Idle, SocketInv, phase = "dispatch", pending # {}, state = "SYN_RECV"
  PROVE  ~Transfer
  <1>1. "ERR" \in pending
    BY DEF Idle, SocketInv
  <1> QED
    BY <1>1 DEF Transfer

\* Reports answer a session that is opening, or close it.
LEMMA FreshEvent ==
  ASSUME TypeOK, TypeOK', SocketInv, ConnectInv, OrderInv, OrderInv', Numbers, Confirmed,
         Fresh, Idle, check_tcp_socket
  PROVE  Fresh'
  <1>1. /\ registered /\ registered' = registered /\ pending # {} /\ phase = "dispatch"
    BY DEF SocketInv, check_tcp_socket
  <1>2. CASE SocketError
    BY <1>2 DEF SocketError, write_rst, Fresh
  <1>3. CASE ConnectReply
    <2>1. state = "LISTEN" /\ UNCHANGED <<upstream, downstream>>
      BY <1>3 DEF ConnectReply, answered
    <2> QED
      BY <1>1, <2>1 DEF Fresh
  <1>4. CASE Connected
    <2>1. state = "LISTEN" /\ UNCHANGED <<upstream, downstream>>
      BY <1>4 DEF Connected, history
    <2> QED
      BY <1>1, <2>1 DEF Fresh
  <1>5. CASE Transfer
    <2>1. state # "SYN_RECV" /\ state # "LISTEN"
      BY <1>1, <1>5, NoTransfer DEF Transfer
    <2>2. state' \in {state, "FIN_WAIT1", "LAST_ACK", "CLOSING", "CLOSE"}
      BY <1>1, <1>5, TransferMoves
    <2> QED
      BY <2>1, <2>2 DEF Fresh
  <1> QED
    BY <1>2, <1>3, <1>4, <1>5 DEF check_tcp_socket

\* Rounds at most close it.
LEMMA FreshRound ==
  ASSUME TypeOK, OrderInv, Confirmed, Fresh, monitor_tcp_session \/ check_tcp_session
  PROVE  Fresh'
  <1>1. CASE monitor_tcp_session
    <2>1. /\ registered /\ UNCHANGED <<upstream, downstream>> /\ state' \in {state, "CLOSING"}
      BY <1>1, MonitorMoves
    <2> QED
      BY <2>1 DEF Fresh
  <1>2. CASE check_tcp_session
    <2>1. /\ UNCHANGED <<upstream, downstream>> /\ state' \in {state, "CLOSE"}
          /\ ~registered' \/ UNCHANGED registered
      BY <1>2, CheckMoves
    <2> QED
      BY <2>1 DEF Fresh
  <1> QED
    BY <1>1, <1>2

\* A packet comes while nothing is awaited, or what has been reported is still pending.
LEMMA IdleTun ==
  ASSUME SocketInv, Idle, check_tun
  PROVE  Idle'
  <1>1. PICK p \in AppPackets : handle_tcp(p)
    BY DEF check_tun
  <1>2. pending' = pending /\ phase = "dispatch" /\ phase' = phase
    BY <1>1 DEF check_tun, handle_tcp, NewSession, UnknownSession, ConnectPhase, WasClosed,
      DataRefused, Accept, ReceiveRst, RepeatedSyn, ReceiveFin, ReceiveAck, PreviousAck,
      FutureAck
  <1>3. CASE ~registered
    BY <1>2, <1>3 DEF SocketInv, Idle
  <1>4. CASE registered /\ connecting
    <2>1. ConnectPhase(p)
      BY <1>1, <1>4 DEF handle_tcp, NewSession, UnknownSession, ConnectPhase, WasClosed,
        DataRefused, Accept, ReceiveRst, RepeatedSyn, ReceiveFin, ReceiveAck, PreviousAck,
        FutureAck
    <2>2. state' = state \/ state' # "SYN_RECV"
      BY <2>1 DEF ConnectPhase, SendConnect, write_rst
    <2> QED
      BY <1>2, <1>4, <2>2 DEF Idle
  <1>5. CASE registered /\ ~connecting
    <2>1. state' = state \/ state' # "SYN_RECV"
      BY <1>1, <1>5, PacketOpens
    <2> QED
      BY <1>2, <1>5, <2>1 DEF Idle
  <1> QED
    BY <1>3, <1>4, <1>5

\* What has been reported is handled, and what is awaited is chosen anew in each round.
LEMMA IdleElse ==
  ASSUME TypeOK, SocketInv, OrderInv, Confirmed, Idle,
         check_tcp_socket \/ monitor_tcp_session \/ check_tcp_session
  PROVE  Idle'
  <1>1. CASE check_tcp_socket
    BY <1>1 DEF check_tcp_socket, Idle
  <1>2. CASE monitor_tcp_session
    <2>1. /\ registered /\ UNCHANGED <<registered, socket, pending>> /\ pending = {}
          /\ state' \in {state, "CLOSING"}
      BY <1>2, MonitorMoves DEF monitor_tcp_session
    <2>2. CASE state = "SYN_RECV"
      <3>1. socket
        BY <2>1, <2>2 DEF SocketInv, Open
      <3>2. events' = {}
        BY <1>2, <2>2, <3>1 DEF monitor_tcp_session
      <3> QED
        BY <2>1, <3>2 DEF Idle
    <2>3. CASE state # "SYN_RECV"
      BY <2>1, <2>3 DEF Idle
    <2> QED
      BY <2>2, <2>3
  <1>3. CASE check_tcp_session
    <2>1. state' \in {state, "CLOSE"} /\ (~registered' \/ UNCHANGED registered)
      BY <1>3, CheckMoves
    <2>2. CASE registered /\ state = "SYN_RECV"
      <3>1. events = {} /\ phase' = "dispatch"
        BY <1>3, <2>2 DEF Idle, check_tcp_session
      <3>2. pending' \subseteq {"ERR"}
        BY <1>3, <3>1 DEF check_tcp_session
      <3> QED
        BY <3>1, <3>2 DEF Idle
    <2>3. CASE ~(registered /\ state = "SYN_RECV")
      BY <2>1, <2>3 DEF Idle
    <2> QED
      BY <2>2, <2>3
  <1> QED
    BY <1>1, <1>2, <1>3

\* Nothing has been relayed at the start.
LEMMA RelayInvInit == Init => RelayInv
  <1> SUFFICES ASSUME Init PROVE RelayInv
    OBVIOUS
  <1>1. PICK i \in AppIsns, n \in Totals :
          app.total = n /\ app.una = 0 /\ app.rcv = 0
    BY DEF Init, AppInit
  <1>2. upstream = <<>> /\ ~registered /\ n \in Nat /\ Len(upstream) = 0
    BY AppAssumption DEF Init
  <1> QED
    BY <1>1, <1>2 DEF RelayInv, Confirmed, Starting, Fresh, Idle

-----------------------------------------------------------------------------
(* What the app has seen confirmed. *)

\* The invariant is kept by every step.
LEMMA ConfirmedStep ==
  ASSUME TypeOK, TypeOK', SocketInv, ConnectInv, OrderInv, OrderInv', Numbers,
         Confirmed, Starting, [Next]_vars
  PROVE  Confirmed' /\ Starting'
  <1>1. CASE UNCHANGED vars
    BY <1>1 DEF vars, link, seqs, history, Confirmed, Starting, reach, connecting
  <1>2. CASE check_tun
    BY <1>2, ConfirmedTun, StartingTun
  <1>3. CASE check_tcp_socket
    BY <1>3, ConfirmedEvent, StartingEvent
  <1>4. CASE monitor_tcp_session \/ check_tcp_session
    BY <1>4, ConfirmedRound, StartingRound
  <1> QED
    BY <1>1, <1>2, <1>3, <1>4 DEF Next

\* What is confirmed of a stream that remote_seq continues is in it.
LEMMA ConfirmedHeld ==
  ASSUME TypeOK, OrderInv, Confirmed
  PROVE  AcksHeld
  <1>1. app.una \in Nat /\ app.rcv \in Nat /\ Len(upstream) \in Nat
    BY GivenLength DEF TypeOK, AppType
  <1>2. ASSUME registered, ~connecting,
               state \in {"ESTABLISHED", "FIN_WAIT1"} \/ forward # <<>>
        PROVE  app.una <= Len(upstream) + 1
    <2>1. CASE app.rcv = 0
      BY <1>1, <2>1 DEF Confirmed
    <2>2. CASE app.rcv > 0
      <3>1. Continued
        BY <1>2, <2>2, Continues
      <3>2. reach = Len(upstream) + 1
        BY <3>1, ContinuedLength
      <3> QED
        BY <1>2, <2>2, <3>2 DEF Confirmed
    <2> QED
      BY <1>1, <2>1, <2>2
  <1> QED
    BY <1>2 DEF AcksHeld, Confirmed

\* What the app sees confirmed has been handed to the socket, but for its FIN, whatever
\* order segments and FINs are read in, however often they are repeated and whichever write
\* to tun, recv, connect or epoll_ctl fails (handle_tcp, queue_tcp, the forwarding loop).
\* What it does not survive is a send that fails, whose -1 is counted as sent, and port 80,
\* where the bytes patch_http_url adds to a request are.
THEOREM AcksAlwaysHeld ==
  ASSUME "send" \notin Faults, 80 \notin Ports, \A n \in Totals : n + 2 < Wrap
  PROVE  Spec => []AcksHeld
  <1>1. Numbers
    BY DEF Numbers
  <1>2. InOrder
    BY <1>1, NumbersInOrder
  <1>3. TypeOK /\ SocketInv /\ ConnectInv /\ OrderInv /\ [Next]_vars => OrderInv'
    BY <1>2, OrderStep
  <1>4. (TypeOK /\ TypeOK' /\ SocketInv /\ ConnectInv /\ OrderInv /\ OrderInv'
         /\ Confirmed /\ Starting /\ [Next]_vars) => Confirmed' /\ Starting'
    BY <1>1, ConfirmedStep
  <1>5. Init => Confirmed /\ Starting
    BY RelayInvInit DEF RelayInv
  <1>6. TypeOK /\ OrderInv /\ Confirmed => AcksHeld
    BY ConfirmedHeld
  <1> QED
    BY <1>3, <1>4, <1>5, <1>6, OrderInit, TypeCorrect, ConnectHolds, PTL DEF Spec

-----------------------------------------------------------------------------
(* Every step is one that TcpRelay allows. *)

PromiseStep == [Promise!RelayNext]_(Promise!relayVars)

\* What the promise makes of the session's state, before a step and after it.
LEMMA StageValue ==
  /\ ~registered => stage = "none"
  /\ registered /\ closed => stage = "closed"
  /\ registered /\ state \in {"LISTEN", "SYN_RECV"} => stage = "opening"
  /\ registered /\ state \in {"ESTABLISHED", "CLOSE_WAIT"} => stage = "open"
  /\ registered /\ state \in {"FIN_WAIT1", "LAST_ACK"} => stage = "half"
  BY DEF stage, closed

LEMMA NextStageValue ==
  /\ ~registered' => stage' = "none"
  /\ registered' /\ closed' => stage' = "closed"
  /\ registered' /\ state' \in {"LISTEN", "SYN_RECV"} => stage' = "opening"
  /\ registered' /\ state' \in {"ESTABLISHED", "CLOSE_WAIT"} => stage' = "open"
  /\ registered' /\ state' \in {"FIN_WAIT1", "LAST_ACK"} => stage' = "half"
  BY DEF stage, closed

\* A step that relays nothing leaves the session where it is, or shuts it.
LEMMA QuietStep ==
  ASSUME TypeOK, TypeOK', registered, registered', Silent(app, app'),
         UNCHANGED <<upstream, downstream>>,
         closed' \/ (state' = state /\ app'.reset = app.reset)
  PROVE  PromiseStep
  <1>1. /\ app'.total = app.total /\ app'.una = app.una /\ app'.rcv = app.rcv
        /\ app.reset => app'.reset
    BY DEF Silent
  <1>2. CASE closed'
    <2>1. stage' = "closed" /\ stage # "none"
      <3>1. stage' = "closed"
        BY <1>2, NextStageValue
      <3>2. stage \in {"closed", "opening", "open", "half"}
        BY StageValue DEF TypeOK, States, closed
      <3> QED
        BY <3>1, <3>2
    <2>2. Promise!Shut
      BY <1>1, <2>1 DEF Promise!Shut
    <2> QED
      BY <2>2 DEF PromiseStep, Promise!RelayNext
  <1>3. CASE state' = state /\ app'.reset = app.reset
    <2>1. stage' = stage
      BY <1>3 DEF stage, closed
    <2>2. UNCHANGED Promise!relayVars
      BY <1>1, <1>3, <2>1 DEF Promise!relayVars
    <2> QED
      BY <2>2 DEF PromiseStep
  <1> QED
    BY <1>2, <1>3

\* A session that is freed, or not begun, is forgotten.
LEMMA ForgetStep ==
  ASSUME ~registered', ~registered \/ closed, Silent(app, app'),
         UNCHANGED <<upstream, downstream>>
  PROVE  PromiseStep
  <1>1. stage \in {"none", "closed"} /\ stage' = "none"
    BY StageValue, NextStageValue
  <1>2. Promise!Forget
    BY <1>1 DEF Promise!Forget, Silent
  <1> QED
    BY <1>2 DEF PromiseStep, Promise!RelayNext

\* A session begins for an app of which nothing has been relayed.
LEMMA BeginStep ==
  ASSUME registered', state' = "LISTEN", ~registered \/ closed, Silent(app, app'),
         app'.reset = app.reset, upstream = <<>>, downstream = 0,
         UNCHANGED <<upstream, downstream>>
  PROVE  PromiseStep
  <1>1. stage \in {"none", "closed"} /\ stage' = "opening"
    BY StageValue, NextStageValue
  <1>2. Promise!Begin
    BY <1>1 DEF Promise!Begin, Silent
  <1> QED
    BY <1>2 DEF PromiseStep, Promise!RelayNext

\* An open session has passed on what it has fetched.
Passed ==
  /\ app.rcv <= downstream + 2
  /\ stage = "open" /\ ~app.reset => app.rcv = downstream + 1
  /\ stage = "half" /\ ~app.reset => app.rcv = downstream + 2

\* It owes the app nothing.
LEMMA PassedOn == TypeOK /\ ConnectInv /\ StreamInv => Passed
  <1> SUFFICES ASSUME TypeOK, ConnectInv, StreamInv PROVE Passed
    OBVIOUS
  <1>1. app.rcv \in Nat /\ downstream \in Nat
    BY DEF TypeOK, AppType
  <1>2. app.rcv <= downstream + 2
    BY DEF StreamInv, Counted
  <1>3. stage = "open" => registered /\ state \in {"ESTABLISHED", "CLOSE_WAIT"}
    BY DEF stage, TypeOK, States, closed
  <1>4. stage = "half" => registered /\ state \in {"FIN_WAIT1", "LAST_ACK"}
    BY DEF stage, TypeOK, States, closed
  <1>5. ASSUME registered, ~app.reset,
               state \in {"ESTABLISHED", "CLOSE_WAIT", "FIN_WAIT1", "LAST_ACK"}
        PROVE  app.rcv = owed
    <2>1. app.rcv > 0
      BY <1>1, <1>5 DEF ConnectInv, Answered
    <2> QED
      BY <1>5, <2>1 DEF StreamInv, Numbered, closed
  <1>6. ASSUME stage = "open", ~app.reset PROVE app.rcv = downstream + 1
    BY <1>1, <1>3, <1>5, <1>6 DEF owed
  <1>7. ASSUME stage = "half", ~app.reset PROVE app.rcv = downstream + 2
    BY <1>1, <1>4, <1>5, <1>7 DEF owed
  <1> QED
    BY <1>2, <1>6, <1>7 DEF Passed

\* More of the app's bytes are a longer beginning of its stream.
LEMMA GiveStep ==
  ASSUME OrderInv, OrderInv', app'.total = app.total, Confirmed', TypeOK,
         upstream' = upstream \/ Len(upstream) <= Len(upstream'),
         upstream' # upstream => app.una <= Len(upstream) + 1
  PROVE  Promise!Give
  <1>1. /\ Len(upstream) \in Nat /\ Len(upstream') \in Nat /\ app.total \in Nat
        /\ upstream' = Promise!beginning(Len(upstream'))
    BY GivenLength DEF TypeOK, AppType
  <1>2. Len(upstream) <= Len(upstream') /\ Len(upstream') <= app.total
    BY <1>1 DEF Confirmed
  <1>3. Len(upstream') \in Len(upstream) .. app.total
    BY <1>1, <1>2
  <1> QED
    BY <1>1, <1>3 DEF Promise!Give

\* An open session forwards, confirms and passes on.
LEMMA RelayStep ==
  ASSUME TypeOK, TypeOK', OrderInv, OrderInv', Confirmed', Passed',
         registered, registered', state \in {"ESTABLISHED", "CLOSE_WAIT"},
         state' \notin {"LISTEN", "SYN_RECV"},
         app'.total = app.total, app.una <= app'.una, app.rcv <= app'.rcv,
         downstream <= downstream',
         upstream' = upstream \/ Len(upstream) <= Len(upstream'),
         upstream' # upstream => app.una <= Len(upstream) + 1,
         app.reset => app'.reset /\ app'.rcv = app.rcv,
         closed' \/ app'.reset = app.reset
  PROVE  PromiseStep
  <1>1. stage = "open"
    BY StageValue
  <1>2. stage' \in {"open", "half", "closed"} /\ (stage' = "closed" \/ ~closed')
    BY NextStageValue DEF TypeOK, States, closed
  <1>3. Promise!Give
    BY GiveStep
  <1>4. Promise!Confirm
    BY DEF Promise!Confirm, Confirmed
  <1>5. Promise!Fetch
    BY DEF Promise!Fetch, Passed
  <1>6. IF stage' = "closed" THEN app.reset => app'.reset ELSE UNCHANGED app.reset
    BY <1>2
  <1>7. Promise!Relay
    BY <1>1, <1>2, <1>3, <1>4, <1>5, <1>6 DEF Promise!Relay
  <1> QED
    BY <1>7 DEF PromiseStep, Promise!RelayNext

\* What a closing session still forwards, and the end of the app's stream when it is the
\* second.
LEMMA FinishStep ==
  ASSUME TypeOK, TypeOK', OrderInv, OrderInv', Confirmed',
         registered, registered', closed', state \in {"FIN_WAIT1", "CLOSING"},
         app'.total = app.total, app.una <= app'.una, app'.rcv = app.rcv,
         app'.reset = app.reset, downstream' = downstream,
         upstream' = upstream \/ (state = "CLOSING" /\ Len(upstream) <= Len(upstream')),
         upstream' # upstream => app.una <= Len(upstream) + 1
  PROVE  PromiseStep
  <1>1. /\ state = "FIN_WAIT1" => stage = "half"
        /\ state = "CLOSING" => stage = "closed"
        /\ stage' = "closed"
    BY StageValue, NextStageValue DEF closed
  <1>2. Promise!Give
    BY GiveStep
  <1>3. Promise!Confirm
    BY DEF Promise!Confirm, Confirmed
  <1>4. Promise!Finish
    BY <1>1, <1>2, <1>3 DEF Promise!Finish
  <1> QED
    BY <1>4 DEF PromiseStep, Promise!RelayNext

\* A FIN that is confirmed.
LEMMA FinStep ==
  ASSUME TypeOK, TypeOK', ConnectInv, OrderInv, OrderInv', Numbers, Confirmed, Confirmed',
         Passed', NEW p \in AppPackets, registered, ~connecting, ReceiveFin(p), confirmable
  PROVE  PromiseStep
  <1>1. PICK next : next = IF state = "FIN_WAIT1" THEN "CLOSE" ELSE "CLOSE_WAIT"
    OBVIOUS
  <1>2. /\ UNCHANGED <<registered, upstream, downstream>>
        /\ state \in {"ESTABLISHED", "FIN_WAIT1"}
    BY DEF ReceiveFin, Accept, link, confirmable
  <1>3. \/ /\ remote_seq' = Uint(remote_seq + 1)
           /\ \E ok \in Outcomes("tun") :
                write_or_close(Sent(p), next, {"ACK"}, local_seq, remote_seq', 0, ok)
        \/ /\ state = "ESTABLISHED" /\ state' = "CLOSE_WAIT"
           /\ app' = Sent(p)
    BY <1>1, <1>2 DEF ReceiveFin
  <1>4. app \in AppType /\ app.una \in Nat /\ app.rcv \in Nat /\ app'.una \in Nat
    BY DEF TypeOK, AppType
  <1>5. CASE /\ remote_seq' = Uint(remote_seq + 1)
             /\ \E ok \in Outcomes("tun") :
                  write_or_close(Sent(p), next, {"ACK"}, local_seq, remote_seq', 0, ok)
    <2>1. /\ Confirming(app, app', reach') /\ app'.rcv = app.rcv
          /\ state' \in {next, "CLOSING"}
      BY <1>2, <1>5, FinConfirms
    <2>2. /\ app'.total = app.total /\ app'.reset = app.reset /\ app.una <= app'.una
      BY <2>1 DEF Confirming
    <2>3. CASE state = "ESTABLISHED"
      <3>1. state' \in {"CLOSE_WAIT", "CLOSING"} /\ downstream <= downstream'
        BY <1>1, <1>2, <2>1, <2>3 DEF TypeOK
      <3> QED
        BY <1>2, <1>4, <2>1, <2>2, <2>3, <3>1, RelayStep
    <2>4. CASE state = "FIN_WAIT1"
      <3>1. closed'
        BY <1>1, <2>1, <2>4 DEF closed
      <3> QED
        BY <1>2, <1>4, <2>1, <2>2, <2>4, <3>1, FinishStep
    <2> QED
      BY <1>2, <2>3, <2>4
  <1>6. CASE state = "ESTABLISHED" /\ state' = "CLOSE_WAIT" /\ app' = Sent(p)
    <2>1. Silent(app, app') /\ app'.reset = app.reset
      BY <1>4, <1>6, SentSilent
    <2>2. /\ app'.total = app.total /\ app.una <= app'.una /\ app'.rcv = app.rcv
          /\ downstream <= downstream' /\ app.rcv <= app'.rcv
      BY <1>2, <1>4, <2>1 DEF Silent, TypeOK
    <2> QED
      BY <1>2, <1>6, <2>1, <2>2, RelayStep
  <1> QED
    BY <1>3, <1>5, <1>6

\* An acknowledgement that finds the session waiting for it opens it: the app has got the
\* SYN-ACK and nothing else.
LEMMA OpenStep ==
  ASSUME TypeOK, ConnectInv, StreamInv, Fresh, NEW p \in AppPackets, registered,
         p.ack, ~p.syn, state = "SYN_RECV", registered', state' = "ESTABLISHED",
         Silent(app, app'), app'.reset = app.reset, UNCHANGED <<upstream, downstream>>
  PROVE  PromiseStep
  <1>1. app.rcv \in Nat /\ downstream = 0 /\ upstream = <<>>
    BY DEF TypeOK, AppType, Fresh
  <1>2. app.rcv > 0
    BY SynOnly DEF TypeOK
  <1>3. app.rcv = 1
    <2>1. offset \in app.rcv .. 2 /\ offset = 1
      BY <1>1, <1>2 DEF StreamInv, Numbered, closed, owed
    <2> QED
      BY <1>1, <1>2, <2>1
  <1>4. stage = "opening" /\ stage' = "open"
    BY StageValue, NextStageValue
  <1>5. Promise!Open
    BY <1>1, <1>3, <1>4 DEF Promise!Open, Silent
  <1> QED
    BY <1>5 DEF PromiseStep, Promise!RelayNext

\* A packet that finds no session.
LEMMA UnknownStep ==
  ASSUME TypeOK, ConnectInv, StreamInv, NEW p \in AppPackets, ~registered, handle_tcp(p),
         p.syn => registered \/ app.rcv = 0
  PROVE  PromiseStep
  <1>1. /\ NewSession(p) \/ UnknownSession(p)
        /\ UNCHANGED <<upstream, downstream>>
        /\ NewSession(p) => p.syn
        /\ UnknownSession(p) => ~registered'
        /\ Silent(app, app') /\ (NewSession(p) => app'.reset = app.reset)
    BY UnknownSilent
  <1>2. CASE ~registered'
    BY <1>1, <1>2, ForgetStep
  <1>3. CASE registered' /\ NewSession(p)
    <2>1. app.rcv = 0 /\ state' = "LISTEN"
      BY <1>1, <1>3 DEF NewSession
    <2>2. upstream = <<>> /\ downstream = 0
      BY <2>1 DEF ConnectInv, Answered, StreamInv, Counted
    <2> QED
      BY <1>1, <1>3, <2>1, <2>2, BeginStep
  <1> QED
    BY <1>1, <1>2, <1>3

\* A RST of a session.
LEMMA RstStep ==
  ASSUME TypeOK, TypeOK', OrderInv, Numbers, Confirmed, registered, registered',
         NEW a \in AppType, Silent(app, a), NEW why, write_rst(a, state, remote_seq, why),
         UNCHANGED <<upstream, downstream>>
  PROVE  PromiseStep
  <1>1. UNCHANGED <<registered, upstream>>
    BY DEF TypeOK
  <1>2. Silent(app, app') /\ closed'
    BY <1>1, RstConfirmed
  <1> QED
    BY <1>2, QuietStep

\* A packet in the CONNECT's phase.
LEMMA PhaseStep ==
  ASSUME TypeOK, TypeOK', ConnectInv, StreamInv, OrderInv, Numbers, Confirmed,
         NEW p \in AppPackets, ConnectPhase(p)
  PROVE  PromiseStep
  <1>1. /\ registered /\ connecting /\ UNCHANGED <<registered, upstream, downstream>>
    BY DEF ConnectPhase, link
  <1>2. /\ Sent(p) \in AppType /\ Silent(app, Sent(p)) /\ Sent(p).reset = app.reset
        /\ registered'
    BY <1>1, SentSilent, SentSource DEF TypeOK
  <1>3. /\ state \in {"LISTEN", "SYN_RECV", "CLOSING", "CLOSE"}
        /\ upstream = <<>> /\ downstream = 0
    BY <1>1 DEF ConnectInv, ConnectFirst, StreamInv, Waiting
  <1>4. CASE SendConnect /\ app' = Sent(p)
    <2>1. state' = "LISTEN"
      BY <1>4 DEF SendConnect
    <2>2. CASE closed
      BY <1>1, <1>2, <1>3, <1>4, <2>1, <2>2, BeginStep
    <2>3. CASE ~closed
      <3>1. state \in {"LISTEN", "SYN_RECV"}
        BY <1>3, <2>3 DEF closed
      <3>2. stage = "opening" /\ stage' = "opening"
        BY <1>1, <2>1, <3>1, StageValue, NextStageValue
      <3>3. UNCHANGED Promise!relayVars
        BY <1>1, <1>2, <1>4, <3>2 DEF Silent, Promise!relayVars
      <3> QED
        BY <3>3 DEF PromiseStep
    <2> QED
      BY <2>2, <2>3
  <1>5. CASE write_rst(Sent(p), state, remote_seq, "CONNECT")
    BY <1>1, <1>2, <1>5, RstStep
  <1>6. CASE app' = Sent(p) /\ state' = state
    BY <1>1, <1>2, <1>6, QuietStep
  <1> QED
    BY <1>4, <1>5, <1>6 DEF ConnectPhase

\* A packet from then on.
LEMMA PacketStep ==
  ASSUME TypeOK, TypeOK', ConnectInv, StreamInv, OrderInv, OrderInv', Numbers, Confirmed,
         Confirmed', Fresh, Passed', NEW p \in AppPackets, registered, ~connecting,
         handle_tcp(p)
  PROVE  PromiseStep
  <1>1. /\ UNCHANGED <<registered, upstream, downstream>> /\ registered'
    BY PacketKinds
  <1>2. /\ Sent(p) \in AppType /\ Silent(app, Sent(p)) /\ Sent(p).reset = app.reset
    BY SentSilent, SentSource DEF TypeOK
  <1>3. ASSUME NEW why, write_rst(Sent(p), state, remote_seq, why) PROVE PromiseStep
    BY <1>1, <1>2, <1>3, RstStep
  <1>4. CASE WasClosed(p)
    BY <1>3, <1>4 DEF WasClosed
  <1>5. CASE DataRefused(p)
    BY <1>3, <1>5 DEF DataRefused
  <1>6. CASE FutureAck(p)
    BY <1>3, <1>6 DEF FutureAck
  <1>7. ASSUME app' = Sent(p), state' = state \/ state' = "CLOSING" PROVE PromiseStep
    BY <1>1, <1>2, <1>7, QuietStep DEF closed
  <1>8. CASE ReceiveRst(p)
    BY <1>7, <1>8 DEF ReceiveRst
  <1>9. CASE RepeatedSyn(p)
    BY <1>7, <1>9 DEF RepeatedSyn
  <1>10. CASE PreviousAck(p)
    BY <1>7, <1>10 DEF PreviousAck
  <1>11. CASE ReceiveAck(p)
    <2>1. /\ p.ack /\ ~p.syn /\ app' = Sent(p)
          /\ \/ state = "SYN_RECV" /\ state' = "ESTABLISHED"
             \/ state' = "CLOSING"
             \/ state' = state
      BY <1>11 DEF ReceiveAck
    <2>2. CASE state = "SYN_RECV" /\ state' = "ESTABLISHED"
      BY <1>1, <1>2, <2>1, <2>2, OpenStep
    <2> QED
      BY <1>7, <2>1, <2>2
  <1>12. CASE ReceiveFin(p)
    <2>1. CASE confirmable
      BY <1>12, <2>1, FinStep
    <2>2. CASE ~confirmable /\ state = "ESTABLISHED"
      <3>1. app' = Sent(p) /\ state' = "CLOSE_WAIT"
        BY <1>12, <2>2 DEF ReceiveFin
      <3>2. Silent(app, app') /\ app'.reset = app.reset
        BY <1>2, <3>1
      <3>3. /\ app'.total = app.total /\ app.una <= app'.una /\ app.rcv <= app'.rcv
            /\ app'.rcv = app.rcv /\ downstream <= downstream'
        BY <1>1, <3>2 DEF Silent, TypeOK, AppType
      <3> QED
        BY <1>1, <2>2, <3>1, <3>2, <3>3, RelayStep
    <2>3. CASE ~confirmable /\ state # "ESTABLISHED"
      <3>1. app' = Sent(p) /\ state' = state
        BY <1>12, <2>3 DEF ReceiveFin
      <3> QED
        BY <1>7, <3>1
    <2> QED
      BY <2>1, <2>2, <2>3
  <1> QED
    BY <1>4, <1>5, <1>6, <1>8, <1>9, <1>10, <1>11, <1>12
      DEF handle_tcp, NewSession, UnknownSession, ConnectPhase

\* Packets.
LEMMA TunStep ==
  ASSUME TypeOK, TypeOK', ConnectInv, StreamInv, OrderInv, OrderInv', Numbers, Confirmed,
         Confirmed', Fresh, Passed', check_tun
  PROVE  PromiseStep
  <1>1. PICK p \in AppPackets : (p.syn => registered \/ app.rcv = 0) /\ handle_tcp(p)
    BY DEF check_tun
  <1>2. CASE ~registered
    BY <1>1, <1>2, UnknownStep
  <1>3. CASE registered /\ connecting
    <2>1. ConnectPhase(p)
      BY <1>1, <1>3 DEF handle_tcp, NewSession, UnknownSession, ConnectPhase, WasClosed,
        DataRefused, Accept, ReceiveRst, RepeatedSyn, ReceiveFin, ReceiveAck, PreviousAck,
        FutureAck
    <2> QED
      BY <2>1, PhaseStep
  <1>4. CASE registered /\ ~connecting
    BY <1>1, <1>4, PacketStep
  <1> QED
    BY <1>2, <1>3, <1>4

\* The SYN is answered.
LEMMA AnswerStep ==
  ASSUME TypeOK, TypeOK', SocketInv, ConnectInv, registered, registered', pending # {},
         Connected
  PROVE  PromiseStep
  <1>1. /\ app.rcv = 0 /\ state = "LISTEN"
        /\ UNCHANGED <<upstream, downstream>>
        /\ \/ app' = app /\ state' \in {"SYN_RECV", "CLOSING"}
           \/ /\ ~app.reset /\ ~app'.reset /\ app'.rcv = 1 /\ app'.una = 1
              /\ app'.isn = app.isn /\ app'.total = app.total
              /\ state' = "SYN_RECV"
    BY ConnectedMoves
  <1>2. stage = "opening" /\ (state' = "SYN_RECV" => stage' = "opening")
    BY <1>1, StageValue, NextStageValue
  <1>3. Silent(app, app)
    BY DEF Silent
  <1>4. CASE app' = app /\ state' = "CLOSING"
    BY <1>1, <1>3, <1>4, QuietStep DEF closed
  <1>5. CASE app' = app /\ state' = "SYN_RECV"
    <2>1. UNCHANGED Promise!relayVars
      BY <1>1, <1>2, <1>5 DEF Promise!relayVars
    <2> QED
      BY <2>1 DEF PromiseStep
  <1>6. CASE /\ ~app.reset /\ ~app'.reset /\ app'.rcv = 1 /\ app'.una = 1
             /\ app'.total = app.total /\ state' = "SYN_RECV"
    <2>1. app'.reset = app.reset
      BY <1>6 DEF TypeOK, AppType
    <2>2. Promise!Answer
      BY <1>1, <1>2, <1>6, <2>1 DEF Promise!Answer
    <2> QED
      BY <2>2 DEF PromiseStep, Promise!RelayNext
  <1> QED
    BY <1>1, <1>4, <1>5, <1>6

\* The write half and the read half.
LEMMA TransferStep ==
  ASSUME TypeOK, TypeOK', SocketInv, ConnectInv, OrderInv, OrderInv', Numbers, Confirmed,
         Confirmed', Idle, Passed', registered, registered', pending # {},
         phase = "dispatch", Transfer
  PROVE  PromiseStep
  <1>1. state \in {"ESTABLISHED", "CLOSE_WAIT", "CLOSING"}
    <2>1. state # "LISTEN" /\ state # "SYN_RECV"
      BY NoTransfer DEF Transfer
    <2>2. state \notin {"FIN_WAIT1", "LAST_ACK", "CLOSE"}
      BY DEF SocketInv
    <2> QED
      BY <2>1, <2>2 DEF TypeOK, States
  <1>2. /\ app.rcv = 0 => upstream' = upstream
        /\ upstream' = upstream \/ Continued
        /\ app.rcv > 0 =>
             reach \in Nat /\ Len(upstream) <= Len(upstream')
        /\ Told(app, app', reach')
        /\ closed' \/ app'.reset = app.reset
        /\ downstream <= downstream'
        /\ \/ state \in {"ESTABLISHED", "CLOSE_WAIT"}
           \/ /\ app'.rcv = app.rcv /\ app'.reset = app.reset /\ downstream' = downstream
              /\ state' \in {state, "CLOSING"}
        /\ state' \in {state, "FIN_WAIT1", "LAST_ACK", "CLOSING", "CLOSE"}
    BY TransferMoves
  <1>3. /\ app'.total = app.total /\ app.una <= app'.una /\ app.rcv <= app'.rcv
        /\ app.reset => app'.reset /\ app'.rcv = app.rcv
    BY <1>2 DEF Told
  <1>4. app.rcv \in Nat /\ app.una \in Nat
    BY DEF TypeOK, AppType
  <1>5. upstream' = upstream \/ Len(upstream) <= Len(upstream')
    BY <1>2, <1>4
  <1>6. upstream' # upstream => app.una <= Len(upstream) + 1
    <2> SUFFICES ASSUME upstream' # upstream PROVE app.una <= Len(upstream) + 1
      OBVIOUS
    <2>1. Continued /\ app.rcv > 0
      BY <1>2, <1>4
    <2>2. reach = Len(upstream) + 1
      BY <2>1, ContinuedLength
    <2>3. app.una <= reach
      BY <2>1 DEF Confirmed
    <2> QED
      BY <2>2, <2>3
  <1>7. CASE state \in {"ESTABLISHED", "CLOSE_WAIT"}
    <2>1. state' \notin {"LISTEN", "SYN_RECV"}
      BY <1>2, <1>7
    <2> QED
      BY <1>2, <1>3, <1>5, <1>6, <1>7, <2>1, RelayStep
  <1>8. CASE state = "CLOSING"
    <2>1. /\ closed' /\ app'.rcv = app.rcv /\ app'.reset = app.reset
          /\ downstream' = downstream
      BY <1>2, <1>8 DEF closed
    <2> QED
      BY <1>3, <1>5, <1>6, <1>8, <2>1, FinishStep
  <1> QED
    BY <1>1, <1>7, <1>8

\* Reports.
LEMMA EventStep ==
  ASSUME TypeOK, TypeOK', SocketInv, ConnectInv, OrderInv, OrderInv', Numbers, Confirmed,
         Confirmed', Idle, Passed', check_tcp_socket
  PROVE  PromiseStep
  <1>1. /\ registered /\ registered' /\ pending # {} /\ phase = "dispatch"
    BY DEF SocketInv, check_tcp_socket
  <1>2. Silent(app, app) /\ app \in AppType
    BY DEF Silent, TypeOK
  <1>3. CASE SocketError
    BY <1>1, <1>2, <1>3, RstStep DEF SocketError
  <1>4. CASE ConnectReply
    <2>1. /\ state = "LISTEN" /\ UNCHANGED <<upstream, downstream>>
          /\ \/ state' = "SYN_RECV" /\ app' = app
             \/ write_rst(app, state, remote_seq, "CONNECT refused")
      BY <1>4 DEF ConnectReply, answered
    <2>2. CASE state' = "SYN_RECV" /\ app' = app
      <3>1. stage = "opening" /\ stage' = "opening"
        BY <1>1, <2>1, <2>2, StageValue, NextStageValue
      <3>2. UNCHANGED Promise!relayVars
        BY <2>1, <2>2, <3>1 DEF Promise!relayVars
      <3> QED
        BY <3>2 DEF PromiseStep
    <2>3. CASE write_rst(app, state, remote_seq, "CONNECT refused")
      BY <1>1, <1>2, <2>1, <2>3, RstStep
    <2> QED
      BY <2>1, <2>2, <2>3
  <1>5. CASE Connected
    BY <1>1, <1>5, AnswerStep
  <1>6. CASE Transfer
    BY <1>1, <1>6, TransferStep
  <1> QED
    BY <1>3, <1>4, <1>5, <1>6 DEF check_tcp_socket

\* Rounds.
LEMMA RoundStep ==
  ASSUME TypeOK, TypeOK', SocketInv, ConnectInv, OrderInv, OrderInv', Confirmed, Confirmed',
         Passed', monitor_tcp_session \/ check_tcp_session
  PROVE  PromiseStep
  <1>1. /\ app.rcv \in Nat /\ app.una \in Nat /\ downstream \in Nat /\ Silent(app, app)
        /\ registered \in BOOLEAN /\ registered' \in BOOLEAN
    BY DEF TypeOK, AppType, Silent
  <1>2. CASE monitor_tcp_session
    <2>1. /\ registered /\ registered' /\ UNCHANGED <<upstream, downstream>>
          /\ state' \in {state, "CLOSING"}
          /\ \/ app' = app
             \/ /\ state \in {"ESTABLISHED", "CLOSE_WAIT"}
                /\ app'.total = app.total /\ app'.reset = app.reset
                /\ app'.rcv = app.rcv /\ app.una <= app'.una
      BY <1>2, MonitorMoves
    <2>2. CASE app' = app
      BY <1>1, <2>1, <2>2, QuietStep DEF closed
    <2>3. CASE /\ state \in {"ESTABLISHED", "CLOSE_WAIT"}
               /\ app'.total = app.total /\ app'.reset = app.reset
               /\ app'.rcv = app.rcv /\ app.una <= app'.una
      <3>1. app.rcv <= app'.rcv /\ downstream <= downstream'
        BY <1>1, <2>1, <2>3
      <3> QED
        BY <2>1, <2>3, <3>1, RelayStep
    <2> QED
      BY <2>1, <2>2, <2>3
  <1>3. CASE check_tcp_session
    <2>1. /\ UNCHANGED <<upstream, downstream>> /\ Silent(app, app')
          /\ \/ registered' = registered /\ state' = "CLOSE"
             \/ ~registered' /\ state = "CLOSE"
             \/ registered' = registered /\ state' = state /\ app' = app
      BY <1>3, CheckMoves
    <2>2. CASE ~registered'
      <3>1. ~registered \/ closed
        BY <2>1, <2>2 DEF closed
      <3> QED
        BY <2>1, <2>2, <3>1, ForgetStep
    <2>3. CASE registered'
      <3>1. registered /\ (closed' \/ (state' = state /\ app'.reset = app.reset))
        BY <1>1, <2>1, <2>3 DEF closed
      <3> QED
        BY <2>1, <2>3, <3>1, QuietStep
    <2> QED
      BY <2>2, <2>3
  <1> QED
    BY <1>2, <1>3

\* The invariant of the refinement is kept.
LEMMA FreshStep ==
  ASSUME TypeOK, TypeOK', SocketInv, ConnectInv, StreamInv, OrderInv, OrderInv', Numbers,
         Confirmed, Fresh, Idle, [Next]_vars
  PROVE  Fresh' /\ Idle'
  <1>1. CASE UNCHANGED vars
    BY <1>1 DEF vars, link, history, Fresh, Idle
  <1>2. CASE check_tun
    BY <1>2, FreshTun, IdleTun
  <1>3. CASE check_tcp_socket
    BY <1>3, FreshEvent, IdleElse
  <1>4. CASE monitor_tcp_session \/ check_tcp_session
    BY <1>4, FreshRound, IdleElse
  <1> QED
    BY <1>1, <1>2, <1>3, <1>4 DEF Next

\* So every step of the session is one the promise allows.
LEMMA PromiseKept ==
  ASSUME TypeOK, TypeOK', SocketInv, ConnectInv, StreamInv, OrderInv, OrderInv', Numbers,
         Confirmed, Confirmed', Fresh, Idle, Passed', [Next]_vars
  PROVE  PromiseStep
  <1>1. CASE UNCHANGED vars
    <2>1. UNCHANGED <<app, registered, state, upstream, downstream>>
      BY <1>1 DEF vars, link, history
    <2>2. stage' = stage
      BY <2>1 DEF stage, closed
    <2>3. UNCHANGED Promise!relayVars
      BY <2>1, <2>2 DEF Promise!relayVars
    <2> QED
      BY <2>3 DEF PromiseStep
  <1>2. CASE check_tun
    BY <1>2, TunStep
  <1>3. CASE check_tcp_socket
    BY <1>3, EventStep
  <1>4. CASE monitor_tcp_session \/ check_tcp_session
    BY <1>4, RoundStep
  <1> QED
    BY <1>1, <1>2, <1>3, <1>4 DEF Next

\* It starts where the promise does.
LEMMA PromiseInit == Init => Promise!RelayInit
  <1> SUFFICES ASSUME Init PROVE Promise!RelayInit
    OBVIOUS
  <1>1. PICK i \in AppIsns, n \in Totals :
          app.total = n /\ app.una = 0 /\ app.rcv = 0 /\ app.reset = FALSE
    BY DEF Init, AppInit
  <1>2. upstream = <<>> /\ downstream = 0 /\ ~registered /\ n \in Nat
    BY <1>1, AppAssumption DEF Init
  <1>3. stage = "none"
    BY <1>2, StageValue
  <1> QED
    BY <1>1, <1>2, <1>3 DEF Promise!RelayInit

\* A session keeps what TcpRelay promises, for all ports but 80, streams, windows and numbers
\* that do not come round: the app's bytes are given in order and each once, and before they are
\* confirmed; while the session is open the app has got all that has been fetched; a session
\* that has been closed relays no more than what was under way, and begins anew (the CONNECT
\* of handle_tcp) only if nothing has been relayed.  Any call but send may fail.
THEOREM RelayImplemented ==
  ASSUME "send" \notin Faults, 80 \notin Ports, \A n \in Totals : n + 2 < Wrap,
         MaxDown + 2 < Wrap
  PROVE  Spec => RelayRefined
  <1>1. Numbers
    BY DEF Numbers
  <1>2. InOrder
    BY <1>1, NumbersInOrder
  <1>3. TypeOK /\ SocketInv /\ ConnectInv /\ OrderInv /\ [Next]_vars => OrderInv'
    BY <1>2, OrderStep
  <1>4. TypeOK /\ SocketInv /\ ConnectInv /\ StreamInv /\ [Next]_vars => StreamInv'
    BY StreamStep
  <1>5. (TypeOK /\ TypeOK' /\ SocketInv /\ ConnectInv /\ OrderInv /\ OrderInv'
         /\ Confirmed /\ Starting /\ [Next]_vars) => Confirmed' /\ Starting'
    BY <1>1, ConfirmedStep
  <1>6. (TypeOK /\ TypeOK' /\ SocketInv /\ ConnectInv /\ StreamInv /\ OrderInv /\ OrderInv'
         /\ Confirmed /\ Fresh /\ Idle /\ [Next]_vars) => Fresh' /\ Idle'
    BY <1>1, FreshStep
  <1>7. (TypeOK /\ TypeOK' /\ SocketInv /\ ConnectInv /\ StreamInv /\ OrderInv /\ OrderInv'
         /\ Confirmed /\ Confirmed' /\ Fresh /\ Idle /\ Passed' /\ [Next]_vars)
          => [Promise!RelayNext]_(Promise!relayVars)
    BY <1>1, PromiseKept DEF PromiseStep
  <1>8. Init => Confirmed /\ Starting /\ Fresh /\ Idle
    BY RelayInvInit DEF RelayInv
  <1> QED
    BY <1>3, <1>4, <1>5, <1>6, <1>7, <1>8, PassedOn, PromiseInit, OrderInit, StreamInit,
      TypeCorrect, ConnectHolds, PTL DEF Spec, RelayRefined, Promise!RelaySpec
=============================================================================
