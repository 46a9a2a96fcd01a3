-------------------------- MODULE TcpAnswer_proofs --------------------------
(***************************************************************************)
(* The stream to the app: why every byte read from the server reaches the  *)
(* app once, within its window, and why no acknowledgement of the app's is *)
(* taken for one of data not sent yet.                                     *)
(***************************************************************************)
EXTENDS TcpConnect_proofs

-----------------------------------------------------------------------------
(* Arithmetic on sequence numbers. *)

\* uint32_t wraps once at most when a number is moved by less than the width.
LEMMA UintValue ==
  ASSUME NEW x \in Int
  PROVE  /\ 0 <= x /\ x < Wrap => Uint(x) = x
         /\ Wrap <= x /\ x < 2 * Wrap => Uint(x) = x - Wrap
         /\ -Wrap <= x /\ x < 0 => Uint(x) = x + Wrap
  BY HalfAssumption DEF Uint, Wrap

\* The offset of a number from another is what was added to it.
LEMMA OffsetValue ==
  ASSUME NEW s \in Seq32, NEW k \in Nat, k < Wrap
  PROVE  Uint(Uint(s + k) - s) = k
  <1>1. s \in Nat /\ s < Wrap /\ Wrap \in Nat
    BY HalfAssumption DEF Seq32, Wrap
  <1>2. CASE s + k < Wrap
    <2>1. Uint(s + k) = s + k
      BY <1>1, <1>2, UintValue
    <2>2. Uint(k) = k
      BY <1>1, UintValue
    <2> QED
      BY <1>1, <2>1, <2>2, s + k - s = k
  <1>3. CASE ~(s + k < Wrap)
    <2>1. Uint(s + k) = s + k - Wrap
      BY <1>1, <1>3, UintValue
    <2>2. Uint(k - Wrap) = k
      BY <1>1, UintValue
    <2> QED
      BY <1>1, <2>1, <2>2, s + k - Wrap - s = k - Wrap
  <1> QED
    BY <1>2, <1>3

\* A number is its offset from another one further.
LEMMA ValueOffset ==
  ASSUME NEW s \in Seq32, NEW t \in Seq32
  PROVE  Uint(t - s) \in 0 .. Wrap - 1 /\ t = Uint(s + Uint(t - s))
  <1>1. s \in Nat /\ s < Wrap /\ t \in Nat /\ t < Wrap /\ Wrap \in Nat
    BY HalfAssumption DEF Seq32, Wrap
  <1>2. CASE s <= t
    <2>1. Uint(t - s) = t - s
      BY <1>1, <1>2, UintValue
    <2>2. Uint(t) = t
      BY <1>1, UintValue
    <2> QED
      BY <1>1, <1>2, <2>1, <2>2, s + (t - s) = t
  <1>3. CASE ~(s <= t)
    <2>1. Uint(t - s) = t - s + Wrap
      BY <1>1, <1>3, UintValue
    <2>2. Uint(t + Wrap) = t
      BY <1>1, UintValue
    <2> QED
      BY <1>1, <1>3, <2>1, <2>2, s + (t - s + Wrap) = t + Wrap
  <1> QED
    BY <1>2, <1>3

\* Offsets add up as long as they stay below the width.
LEMMA OffsetStep ==
  ASSUME NEW s \in Seq32, NEW t \in Seq32, NEW n \in Nat, Uint(t - s) + n < Wrap
  PROVE  Uint(Uint(t + n) - s) = Uint(t - s) + n
  <1>1. s \in Nat /\ s < Wrap /\ t \in Nat /\ t < Wrap /\ Wrap \in Nat
    BY HalfAssumption DEF Seq32, Wrap
  <1> DEFINE k == Uint(t - s)
  <1>2. k \in Nat /\ k < Wrap /\ t = Uint(s + k)
    BY <1>1, ValueOffset
  <1>3. k + n < Wrap
    OBVIOUS
  <1> HIDE DEF k
  <1>4. Uint(t + n) = Uint(s + (k + n))
    <2>1. CASE s + k < Wrap
      <3>1. t = s + k
        BY <1>1, <1>2, <2>1, UintValue
      <3> QED
        BY <1>1, <1>2, <3>1, s + k + n = s + (k + n)
    <2>2. CASE ~(s + k < Wrap)
      <3>1. t = s + k - Wrap
        BY <1>1, <1>2, <2>2, UintValue
      <3>2. Uint(t + n) = t + n
        BY <1>1, <1>2, <1>3, <3>1, UintValue
      <3>3. Uint(s + (k + n)) = s + (k + n) - Wrap
        BY <1>1, <1>2, <1>3, <2>2, UintValue
      <3> QED
        BY <1>1, <1>2, <3>1, <3>2, <3>3
    <2> QED
      BY <2>1, <2>2
  <1>5. Uint(Uint(s + (k + n)) - s) = k + n
    BY <1>2, <1>3, OffsetValue
  <1> QED
    BY <1>4, <1>5 DEF k

-----------------------------------------------------------------------------
(* The invariant. *)

\* How far the engine has counted what it has written to the app, and what the app has
\* acknowledged of it.
offset == Uint(local_seq - app.peer)
acked_offset == Uint(acked - app.peer)

\* The engine's SYN, what recv has returned and the FIN.
owed == 1 + downstream + (IF state \in {"FIN_WAIT1", "LAST_ACK"} THEN 1 ELSE 0)

\* The app has no more than has been sent, and acknowledges no more than it has.
Counted ==
  /\ downstream <= MaxDown
  /\ app.rcv = 0 => downstream = 0
  /\ app.rcv <= downstream + 2
  /\ app.ack <= app.rcv

\* local_seq is what the app expects next, until a write has failed or the app has been
\* reset; and an open session has counted everything it owes.
Numbered ==
  registered /\ app.rcv > 0 =>
    /\ offset \in app.rcv .. downstream + 2
    /\ ~app.reset => offset = app.rcv
    /\ ~closed => offset = owed

\* The engine's numbers start where rand() has put them.
First ==
  /\ registered /\ app.rcv = 0 /\ ~app.reset => local_seq \in LocalIsns
  /\ app.rcv > 0 => app.peer \in LocalIsns

\* Nothing follows the SYN before the proxy has accepted the CONNECT: a session that the
\* CONNECT revives owes the app nothing else.
Waiting ==
  registered /\ connecting => downstream = 0 /\ (app.rcv > 0 => offset = 1)

\* A session that has been connected without a CONNECT has answered the SYN.
Greeted ==
  registered /\ dest # 443 =>
    /\ connect_sent # "SENT"
    /\ state = "SYN_RECV" => app.rcv > 0 \/ app.reset

StreamInv == Counted /\ Numbered /\ First /\ Waiting /\ Greeted

-----------------------------------------------------------------------------
(* The app. *)

\* What a packet to the app leaves alone if it carries nothing of the stream.
SameStream(a, b) ==
  /\ b.peer = a.peer /\ b.rcv = a.rcv /\ b.ack = a.ack /\ b.edge = a.edge
  /\ a.reset => b.reset

\* An acknowledgement or a RST.
LEMMA EmptyReply ==
  ASSUME NEW a \in AppType, NEW p \in Reply, ~p.syn, ~p.fin, p.len = 0
  PROVE  SameStream(a, Receive(a, p))
  <1>1. a.rcv \in Nat /\ a.rcv + 0 + 0 = a.rcv
    BY DEF AppType
  <1>2. CASE a.reset
    BY <1>2 DEF Receive, SameStream
  <1>3. CASE ~a.reset /\ ~p.rst /\ a.rcv = 0
    <2>1. Receive(a, p) = a
      BY <1>3 DEF Receive
    <2> QED
      BY <2>1 DEF SameStream
  <1>4. CASE ~a.reset /\ p.rst
    <2>1. Receive(a, p) = [a EXCEPT !.reset = TRUE]
      BY <1>4 DEF Receive
    <2> QED
      BY <2>1 DEF AppType, SameStream
  <1>5. CASE ~a.reset /\ ~p.rst /\ a.rcv # 0
    <2> DEFINE confirmed == Uint(p.ack_seq - a.isn)
               u == IF confirmed <= a.total + 2 THEN Larger(a.una, confirmed) ELSE a.una
               r == IF Uint(p.seq - a.peer) = a.rcv
                    THEN a.rcv + p.len + (IF p.fin THEN 1 ELSE 0) ELSE a.rcv
    <2>1. r = a.rcv
      BY <1>1
    <2> HIDE DEF u, r
    <2>2. Receive(a, p) = [a EXCEPT !.rcv = r, !.una = u]
      BY <1>5 DEF Receive, u, r
    <2>3. /\ Receive(a, p).peer = a.peer /\ Receive(a, p).rcv = r
          /\ Receive(a, p).ack = a.ack /\ Receive(a, p).edge = a.edge
          /\ Receive(a, p).reset = a.reset
      BY <2>2 DEF AppType
    <2> QED
      BY <2>1, <2>3 DEF SameStream
  <1> QED
    BY <1>2, <1>3, <1>4, <1>5, Zenon

\* The SYN-ACK.
LEMMA SynReply ==
  ASSUME NEW a \in AppType, NEW p \in Reply, p.syn, ~p.rst, a.rcv = 0
  PROVE  /\ Receive(a, p).ack = a.ack /\ Receive(a, p).edge = a.edge
         /\ Receive(a, p).reset = a.reset
         /\ a.reset => Receive(a, p) = a
         /\ ~a.reset => Receive(a, p).rcv = 1 /\ Receive(a, p).peer = p.seq
  <1>1. CASE a.reset
    BY <1>1 DEF Receive
  <1>2. CASE ~a.reset
    <2>1. Receive(a, p) = [a EXCEPT !.peer = p.seq, !.rcv = 1, !.una = 1]
      BY <1>2 DEF Receive
    <2> QED
      BY <1>2, <2>1 DEF AppType
  <1> QED
    BY <1>1, <1>2

\* Data and FINs that continue where the app is.
LEMMA StreamReply ==
  ASSUME NEW a \in AppType, NEW p \in Reply, ~p.syn, ~p.rst, a.rcv > 0,
         ~a.reset => Uint(p.seq - a.peer) = a.rcv
  PROVE  /\ Receive(a, p).peer = a.peer
         /\ Receive(a, p).ack = a.ack /\ Receive(a, p).edge = a.edge
         /\ Receive(a, p).reset = a.reset
         /\ Receive(a, p).rcv = IF a.reset THEN a.rcv
                                ELSE a.rcv + p.len + (IF p.fin THEN 1 ELSE 0)
  <1>1. CASE a.reset
    BY <1>1 DEF Receive
  <1>2. CASE ~a.reset
    <2> DEFINE confirmed == Uint(p.ack_seq - a.isn)
               u == IF confirmed <= a.total + 2 THEN Larger(a.una, confirmed) ELSE a.una
               n == a.rcv + p.len + (IF p.fin THEN 1 ELSE 0)
    <2>1. a.rcv # 0 /\ Uint(p.seq - a.peer) = a.rcv
      BY <1>2 DEF AppType
    <2> HIDE DEF u, n
    <2>2. Receive(a, p) = [a EXCEPT !.rcv = n, !.una = u]
      BY <1>2, <2>1 DEF Receive, u, n
    <2>3. /\ Receive(a, p).peer = a.peer /\ Receive(a, p).ack = a.ack
          /\ Receive(a, p).edge = a.edge /\ Receive(a, p).reset = a.reset
          /\ Receive(a, p).rcv = n
      BY <2>2 DEF AppType
    <2> QED
      BY <1>2, <2>3 DEF n
  <1> QED
    BY <1>1, <1>2

\* What the app sends: it takes no acknowledgement and no part of its window back, and
\* acknowledges what it has.
LEMMA SentStream ==
  ASSUME app \in AppType, NEW p \in AppPackets, app.rcv < Wrap, app.ack <= app.rcv
  PROVE  /\ Sent(p).peer = app.peer /\ Sent(p).rcv = app.rcv /\ Sent(p).reset = app.reset
         /\ Sent(p).ack \in app.ack .. app.rcv /\ Sent(p).edge >= app.edge
         /\ p.ack /\ ~p.rst => /\ Sent(p).ack > 0
                               /\ p.ack_seq = Uint(app.peer + Sent(p).ack)
                               /\ Sent(p).edge = Sent(p).ack + p.window
         /\ ~p.ack => p.syn /\ app.ack = 0 /\ ~p.rst
  <1>1. /\ app.peer \in Seq32 /\ app.rcv \in Nat /\ app.ack \in Nat /\ app.edge \in Nat
        /\ Wrap \in Nat
    BY HalfAssumption DEF AppType, Wrap
  <1>2. CASE p \in Syns
    <2>1. p.syn /\ ~p.ack /\ ~p.rst
      BY <1>2 DEF Syns
    <2>2. app.ack = 0
      <3>1. \A o, r : Segment(o, r).ack
        BY DEF Segment
      <3>2. p \notin Segments /\ p \notin Resets
        BY <2>1, <3>1 DEF Segments, Resets
      <3> QED
        BY <3>2 DEF AppPackets
    <2>3. Sent(p) = app
      BY <2>1 DEF Sent
    <2> QED
      BY <1>1, <2>1, <2>2, <2>3
  <1>3. CASE p \in Resets
    <2>1. p.rst /\ p.ack
      BY <1>3 DEF Resets, Segment
    <2>2. Sent(p) = app
      BY <2>1 DEF Sent
    <2> QED
      BY <1>1, <2>1, <2>2
  <1>4. CASE p \in Segments
    <2>1. PICK o \in Offers : p = Segment(o, FALSE)
      BY <1>4 DEF Segments
    <2>2. /\ o.ack \in app.ack .. app.rcv /\ o.ack > 0
          /\ o.window \in Nat /\ o.ack + o.window >= app.edge
      BY AppAssumption DEF Offers
    <2>3. /\ p.ack /\ ~p.rst /\ p.ack_seq = Uint(app.peer + o.ack) /\ p.window = o.window
      BY <2>1 DEF Segment
    <2>4. o.ack \in Nat /\ o.ack < Wrap
      BY <1>1, <2>2
    <2>5. Uint(p.ack_seq - app.peer) = o.ack
      BY <1>1, <2>3, <2>4, OffsetValue
    <2>6. PICK m : Sent(p) = [app EXCEPT !.ack = o.ack, !.edge = o.ack + p.window, !.nxt = m]
      BY <2>3, <2>5 DEF Sent
    <2>7. /\ Sent(p).peer = app.peer /\ Sent(p).rcv = app.rcv /\ Sent(p).reset = app.reset
          /\ Sent(p).ack = o.ack /\ Sent(p).edge = o.ack + p.window
      BY <2>6 DEF AppType
    <2> QED
      BY <1>1, <2>2, <2>3, <2>7
  <1> QED
    BY <1>2, <1>3, <1>4 DEF AppPackets

-----------------------------------------------------------------------------
(* Steps that leave the stream alone. *)

Fin == {"FIN_WAIT1", "LAST_ACK"}

\* The app's end of the stream where nothing is written to it.
SameAnswer ==
  /\ app'.peer = app.peer /\ app'.rcv = app.rcv /\ app'.ack <= app'.rcv
  /\ app.reset => app'.reset

\* A session may be closed, or be taken on by the CONNECT, but owes the app what it did.
LEMMA StreamKept ==
  ASSUME TypeOK, StreamInv, SameAnswer, UNCHANGED <<local_seq, downstream>>,
         registered' => registered /\ dest' = dest /\ (connecting' => connecting),
         registered' /\ dest # 443 =>
           connect_sent' = connect_sent /\ (state' = "SYN_RECV" => state = "SYN_RECV"),
         registered' => \/ closed'
                        \/ connecting /\ state' \notin Fin
                        \/ ~closed /\ (state' \in Fin <=> state \in Fin)
  PROVE  StreamInv'
  <1>1. app.rcv \in Nat /\ offset' = offset /\ downstream \in Nat
    BY DEF TypeOK, AppType, SameAnswer, offset
  <1>2. Counted' /\ First'
    BY DEF StreamInv, Counted, First, SameAnswer
  <1>3. Waiting'
    BY <1>1 DEF StreamInv, Waiting, SameAnswer
  <1>4. ASSUME registered', app'.rcv > 0
        PROVE  /\ offset' \in app'.rcv .. downstream' + 2
               /\ ~app'.reset => offset' = app'.rcv
               /\ ~closed' => offset' = owed'
    <2>1. registered /\ app.rcv > 0
      BY <1>4 DEF SameAnswer
    <2>2. /\ offset \in app.rcv .. downstream + 2
          /\ ~app.reset => offset = app.rcv
          /\ ~closed => offset = owed
      BY <2>1 DEF StreamInv, Numbered
    <2>3. ASSUME ~closed'
          PROVE  offset' = owed'
      <3>1. CASE connecting /\ state' \notin Fin
        <4>1. downstream = 0 /\ offset = 1
          BY <2>1, <3>1 DEF StreamInv, Waiting
        <4> QED
          BY <1>1, <3>1, <4>1 DEF owed, Fin
      <3>2. CASE ~closed /\ (state' \in Fin <=> state \in Fin)
        BY <1>1, <2>2, <3>2 DEF owed, Fin
      <3> QED
        BY <1>4, <2>3, <3>1, <3>2
    <2> QED
      BY <1>1, <2>2, <2>3 DEF SameAnswer
  <1>5. Greeted'
    <2> SUFFICES ASSUME registered', dest' # 443
                 PROVE  /\ connect_sent' # "SENT"
                        /\ state' = "SYN_RECV" => app'.rcv > 0 \/ app'.reset
      BY DEF Greeted
    <2>1. /\ connect_sent # "SENT"
          /\ state = "SYN_RECV" => app.rcv > 0 \/ app.reset
      BY DEF StreamInv, Greeted
    <2>2. (app.rcv > 0 => app'.rcv > 0) /\ (app.reset => app'.reset)
      BY DEF SameAnswer
    <2>3. connect_sent' = connect_sent /\ (state' = "SYN_RECV" => state = "SYN_RECV")
      OBVIOUS
    <2> QED
      BY <2>1, <2>2, <2>3, Zenon
  <1> QED
    BY <1>2, <1>3, <1>4, <1>5 DEF StreamInv, Numbered

\* A RST.
LEMMA RstStream ==
  ASSUME TypeOK, NEW a \in AppType, NEW st, NEW rseq \in Seq32, NEW why,
         write_rst(a, st, rseq, why)
  PROVE  SameStream(a, app') /\ closed'
  <1> DEFINE r == IF st = "LISTEN" THEN Uint(rseq + 1) ELSE rseq
             flags == IF st = "LISTEN" THEN {"RST", "ACK"} ELSE {"RST"}
             p == write_tcp(flags, local_seq, r, 0)
  <1>1. r \in Seq32
    BY StepType
  <1> HIDE DEF r
  <1>2. p \in Reply /\ ~p.syn /\ ~p.fin /\ p.len = 0
    <2>1. p \in Reply
      BY <1>1, WriteType DEF TypeOK
    <2> QED
      BY <2>1 DEF write_tcp
  <1> HIDE DEF p
  <1>3. app' = a \/ app' = Receive(a, p)
    BY DEF write_rst, p, r
  <1>4. SameStream(a, Receive(a, p)) /\ SameStream(a, a)
    BY <1>2, EmptyReply DEF SameStream
  <1> QED
    BY <1>3, <1>4, RstCloses

\* An acknowledgement.
LEMMA AckStream ==
  ASSUME NEW a \in AppType, NEW lseq \in Seq32, NEW rseq \in Seq32, NEW flags,
         flags \in {{"ACK"}, {"RST"}}
  PROVE  /\ SameStream(a, Receive(a, write_tcp(flags, lseq, rseq, 0)))
         /\ Receive(a, write_tcp(flags, lseq, rseq, 0)) \in AppType
  <1> DEFINE p == write_tcp(flags, lseq, rseq, 0)
  <1>1. p \in Reply
    BY WriteType
  <1>2. ~p.syn /\ ~p.fin /\ p.len = 0
    BY DEF write_tcp
  <1> HIDE DEF p
  <1>3. SameStream(a, Receive(a, p)) /\ Receive(a, p) \in AppType
    BY <1>1, <1>2, EmptyReply, ReceiveType
  <1> QED
    BY <1>3 DEF p

\* What follows the app's packets and what is written in answer to them.
LEMMA SentAnswer ==
  ASSUME TypeOK, StreamInv, MaxDown + 2 < Wrap, NEW p \in AppPackets,
         SameStream(Sent(p), app')
  PROVE  SameAnswer
  <1>1. app.rcv < Wrap /\ app.ack <= app.rcv /\ app.rcv \in Nat
    BY SessionAssumption, HalfAssumption DEF StreamInv, Counted, TypeOK, AppType, Wrap
  <1>2. /\ Sent(p).peer = app.peer /\ Sent(p).rcv = app.rcv /\ Sent(p).reset = app.reset
        /\ Sent(p).ack \in app.ack .. app.rcv
    BY <1>1, SentStream DEF TypeOK
  <1> QED
    BY <1>1, <1>2 DEF SameStream, SameAnswer, TypeOK, AppType

\* The socket's reports, the rounds and timeouts.
LEMMA SameApp ==
  ASSUME StreamInv, SameStream(app, app')
  PROVE  SameAnswer
  BY DEF StreamInv, Counted, SameStream, SameAnswer

-----------------------------------------------------------------------------
(* Packets. *)

\* A session starts for an app that has had no answer.
LEMMA NewStream ==
  ASSUME MaxDown + 2 < Wrap, TypeOK, StreamInv, NEW p \in AppPackets, NewSession(p),
         app.rcv = 0
  PROVE  StreamInv'
  <1>1. downstream' = downstream /\ downstream = 0
    BY DEF NewSession, history, StreamInv, Counted
  <1>2. app' = app \/ app' = Sent(p)
    BY DEF NewSession
  <1>3. SameAnswer
    <2>1. SameStream(Sent(p), Sent(p))
      BY DEF SameStream
    <2>2. CASE app' = Sent(p)
      BY <2>1, <2>2, SentAnswer
    <2>3. CASE app' = app
      <3>1. SameStream(app, app')
        BY <2>3 DEF SameStream
      <3> QED
        BY <3>1, SameApp
    <2> QED
      BY <1>2, <2>2, <2>3
  <1>4. registered' => local_seq' \in LocalIsns
    BY DEF NewSession
  <1>5. Counted'
    BY <1>1, <1>3 DEF StreamInv, Counted, SameAnswer
  <1>6. Numbered' /\ First' /\ Waiting'
    BY <1>1, <1>3, <1>4 DEF Numbered, First, Waiting, SameAnswer
  <1>7. Greeted'
    BY DEF NewSession, Greeted
  <1> QED
    BY <1>5, <1>6, <1>7 DEF StreamInv

\* A packet without a session.
LEMMA UnknownStream ==
  ASSUME MaxDown + 2 < Wrap, TypeOK, StreamInv, NEW p \in AppPackets, UnknownSession(p)
  PROVE  StreamInv'
  <1>1. ~registered' /\ UNCHANGED <<local_seq, downstream>>
    BY DEF UnknownSession, link, seqs, history
  <1>2. p \in Packet /\ Sent(p) \in AppType
    BY AppPacketsType, SentType DEF TypeOK
  <1> DEFINE r == Uint(p.seq + p.len + (IF p.fin THEN 1 ELSE 0))
  <1>3. r \in Seq32 /\ p.ack_seq \in Seq32
    <2>1. p.seq + p.len + (IF p.fin THEN 1 ELSE 0) \in Int
      BY <1>2, Seq32Nat DEF Packet
    <2> QED
      BY <1>2, <2>1, UintType DEF Packet
  <1> DEFINE q == write_tcp({"RST"}, p.ack_seq, r, 0)
  <1>4. app' = Sent(p) \/ app' = Receive(Sent(p), q)
    BY DEF UnknownSession
  <1> HIDE DEF r
  <1>5. SameStream(Sent(p), Receive(Sent(p), q))
    BY <1>2, <1>3, AckStream
  <1> HIDE DEF q
  <1>6. SameStream(Sent(p), app')
    BY <1>4, <1>5 DEF SameStream
  <1>7. SameAnswer
    BY <1>6, SentAnswer
  <1> QED
    BY <1>1, <1>7, StreamKept

\* What every packet does to a session: it is answered with an acknowledgement or a RST.
LEMMA PacketAnswer ==
  ASSUME MaxDown + 2 < Wrap, TypeOK, StreamInv, NEW p \in AppPackets, registered,
         handle_tcp(p)
  PROVE  /\ SameAnswer /\ SameStream(Sent(p), app')
         /\ UNCHANGED <<registered, dest, local_seq, downstream>>
  <1>1. p \in Packet /\ Sent(p) \in AppType /\ local_seq \in Seq32 /\ remote_seq \in Seq32
    BY AppPacketsType, SentType DEF TypeOK
  <1>2. ASSUME NEW st, NEW why, write_rst(Sent(p), st, remote_seq, why)
        PROVE  SameStream(Sent(p), app')
    BY <1>1, <1>2, RstStream
  <1>3. SameStream(Sent(p), Sent(p))
    BY DEF SameStream
  <1>4. CASE ConnectPhase(p) \/ WasClosed(p) \/ DataRefused(p) \/ FutureAck(p)
    <2>1. SameStream(Sent(p), app')
      BY <1>2, <1>3, <1>4 DEF ConnectPhase, WasClosed, DataRefused, FutureAck
    <2>2. UNCHANGED <<registered, dest, local_seq, downstream>>
      BY <1>4 DEF ConnectPhase, WasClosed, DataRefused, FutureAck, Accept, link
    <2> QED
      BY <2>1, <2>2, SentAnswer
  <1>5. CASE ReceiveRst(p) \/ RepeatedSyn(p) \/ ReceiveAck(p) \/ PreviousAck(p) \/ ReceiveFin(p)
    <2>1. SameStream(Sent(p), app')
      <3>1. CASE app' = Sent(p)
        BY <1>3, <3>1
      <3>2. CASE /\ remote_seq' = Uint(remote_seq + 1)
                 /\ \E next \in {"CLOSE", "CLOSE_WAIT"}, ok \in Outcomes("tun") :
                      write_or_close(Sent(p), next, {"ACK"}, local_seq, remote_seq', 0, ok)
        <4>1. remote_seq' \in Seq32
          BY <1>1, <3>2, StepType
        <4>2. app' \in {Sent(p), Receive(Sent(p), write_tcp({"ACK"}, local_seq, remote_seq', 0))}
          BY <3>2 DEF write_or_close
        <4>3. SameStream(Sent(p), Receive(Sent(p), write_tcp({"ACK"}, local_seq, remote_seq', 0)))
          BY <1>1, <4>1, AckStream
        <4> QED
          BY <1>3, <4>2, <4>3
      <3>3. \/ app' = Sent(p)
            \/ /\ remote_seq' = Uint(remote_seq + 1)
               /\ \E next \in {"CLOSE", "CLOSE_WAIT"}, ok \in Outcomes("tun") :
                    write_or_close(Sent(p), next, {"ACK"}, local_seq, remote_seq', 0, ok)
        BY <1>5 DEF ReceiveRst, RepeatedSyn, ReceiveAck, PreviousAck, ReceiveFin
      <3> QED
        BY <3>1, <3>2, <3>3
    <2>2. UNCHANGED <<registered, dest, local_seq, downstream>>
      BY <1>5 DEF ReceiveRst, RepeatedSyn, ReceiveAck, PreviousAck, ReceiveFin, Accept, link
    <2> QED
      BY <2>1, <2>2, SentAnswer
  <1> QED
    BY <1>4, <1>5 DEF handle_tcp, NewSession, UnknownSession

\* A packet counts nothing as written, whatever it does to the session's state.
LEMMA StreamTun ==
  ASSUME MaxDown + 2 < Wrap, TypeOK, ConnectInv, StreamInv, check_tun
  PROVE  StreamInv'
  <1>1. PICK p \in AppPackets : (p.syn => registered \/ app.rcv = 0) /\ handle_tcp(p)
    BY DEF check_tun
  <1>2. CASE ~registered
    <2>1. NewSession(p) \/ UnknownSession(p)
      BY <1>1, <1>2 DEF handle_tcp, ConnectPhase, WasClosed, DataRefused, ReceiveRst,
        RepeatedSyn, ReceiveFin, ReceiveAck, PreviousAck, FutureAck, Accept
    <2> QED
      BY <1>1, <1>2, <2>1, NewStream, UnknownStream DEF NewSession
  <1>3. CASE registered
    <2>1. SameAnswer /\ UNCHANGED <<registered, dest, local_seq, downstream>>
      BY <1>1, <1>3, PacketAnswer
    <2>2. connecting' => connecting
      BY <1>1, <1>3, <2>1 DEF connecting, handle_tcp, NewSession, UnknownSession, ConnectPhase,
        WasClosed, DataRefused, ReceiveRst, RepeatedSyn, ReceiveFin, ReceiveAck, PreviousAck,
        FutureAck, Accept
    <2>3. ASSUME NEW st, NEW rseq, NEW why, write_rst(Sent(p), st, rseq, why)
          PROVE  closed'
      BY <2>3, RstCloses
    <2>4. \/ closed'
          \/ connecting /\ state' \notin Fin
          \/ ~closed /\ (state' \in Fin <=> state \in Fin)
      <3>1. CASE ConnectPhase(p)
        <4>1. state \notin Fin /\ connecting
          BY <1>3, <3>1 DEF ConnectPhase, ConnectInv, ConnectFirst, Fin
        <4> QED
          BY <2>3, <3>1, <4>1 DEF ConnectPhase, SendConnect, Fin
      <3>2. CASE WasClosed(p) \/ DataRefused(p) \/ FutureAck(p)
        BY <2>3, <3>2 DEF WasClosed, DataRefused, FutureAck
      <3>3. CASE ReceiveRst(p) \/ RepeatedSyn(p) \/ ReceiveAck(p) \/ PreviousAck(p)
        BY <3>3 DEF ReceiveRst, RepeatedSyn, ReceiveAck, PreviousAck, Accept, Fin, closed
      <3>4. CASE ReceiveFin(p)
        <4>1. ~closed
          BY <3>4 DEF ReceiveFin, Accept
        <4>2. \/ state \in {"ESTABLISHED", "FIN_WAIT1"} /\ state' = "CLOSING"
              \/ state = "FIN_WAIT1" /\ state' = "CLOSE"
              \/ state = "ESTABLISHED" /\ state' = "CLOSE_WAIT"
              \/ state' = state
          BY <3>4 DEF ReceiveFin, confirmable, write_or_close
        <4> QED
          BY <4>1, <4>2 DEF Fin, closed
      <3> QED
        BY <1>1, <1>3, <3>1, <3>2, <3>3, <3>4 DEF handle_tcp, NewSession, UnknownSession
    <2>5. ASSUME dest # 443
          PROVE  connect_sent' = connect_sent /\ (state' = "SYN_RECV" => state = "SYN_RECV")
      <3>1. ~connecting
        BY <2>5 DEF connecting
      <3>2. \/ WasClosed(p) \/ DataRefused(p) \/ FutureAck(p)
            \/ ReceiveRst(p) \/ RepeatedSyn(p) \/ ReceiveAck(p) \/ PreviousAck(p)
            \/ ReceiveFin(p)
        BY <1>1, <1>3, <3>1 DEF handle_tcp, NewSession, UnknownSession, ConnectPhase
      <3>3. connect_sent' = connect_sent
        BY <3>2 DEF WasClosed, DataRefused, FutureAck, ReceiveRst, RepeatedSyn, ReceiveAck,
          PreviousAck, ReceiveFin, Accept
      <3>4. closed' \/ state' \in {state, "ESTABLISHED", "CLOSE_WAIT"}
        <4>1. CASE WasClosed(p) \/ DataRefused(p) \/ FutureAck(p)
          BY <2>3, <4>1 DEF WasClosed, DataRefused, FutureAck
        <4>2. CASE ReceiveRst(p) \/ RepeatedSyn(p) \/ ReceiveAck(p) \/ PreviousAck(p)
          BY <4>2 DEF ReceiveRst, RepeatedSyn, ReceiveAck, PreviousAck, closed
        <4>3. CASE ReceiveFin(p)
          BY <4>3 DEF ReceiveFin, write_or_close, closed
        <4> QED
          BY <3>2, <4>1, <4>2, <4>3
      <3> QED
        BY <3>3, <3>4 DEF closed
    <2> QED
      BY <1>3, <2>1, <2>2, <2>4, <2>5, StreamKept
  <1> QED
    BY <1>2, <1>3

-----------------------------------------------------------------------------
(* Reports for the socket. *)

\* The SYN-ACK is written to an app that has had no answer, by a session that still has
\* its first number.
LEMMA ConnectedStream ==
  ASSUME MaxDown + 2 < Wrap, TypeOK, SocketInv, ConnectInv, StreamInv, Connected,
         pending # {}, UNCHANGED <<registered, dest>>
  PROVE  StreamInv'
  <1>1. registered /\ "OUT" \in pending
    BY DEF SocketInv, Connected, TypeOK
  <1>2. app.rcv = 0 /\ downstream = 0 /\ downstream' = 0
    BY <1>1 DEF ConnectInv, Writable, Waits, Overtaken, Connected, StreamInv, Counted, history
  <1>3. /\ local_seq \in Seq32 /\ remote_seq \in Seq32 /\ remote_seq' \in Seq32
        /\ app \in AppType /\ app.ack \in Nat /\ app.ack = 0 /\ 1 < Wrap
    BY <1>2, StepType, HalfAssumption
       DEF TypeOK, Connected, AppType, StreamInv, Counted, Wrap
  <1>4. PICK ok \in Outcomes("tun") :
          /\ write_or_close(app, "SYN_RECV", {"SYN", "ACK"}, local_seq, remote_seq', 0, ok)
          /\ local_seq' = IF ok THEN Uint(local_seq + 1) ELSE local_seq
    BY DEF Connected
  <1> DEFINE p == write_tcp({"SYN", "ACK"}, local_seq, remote_seq', 0)
  <1>5. p \in Reply
    BY <1>3, WriteType
  <1>6. p.syn /\ ~p.rst /\ p.seq = local_seq
    BY DEF write_tcp
  <1>7. ok => app' = Receive(app, p) /\ state' = "SYN_RECV"
    BY <1>4 DEF write_or_close
  <1>8. ~ok => app' = app /\ state' = "CLOSING"
    BY <1>4 DEF write_or_close
  <1> HIDE DEF p
  <1>9. ASSUME app' = app, app.reset \/ (state' = "CLOSING" /\ local_seq' = local_seq)
        PROVE  StreamInv'
    <2>1. UNCHANGED <<registered, dest, connect_sent>>
      BY DEF Connected
    <2> QED
      BY <1>1, <1>2, <1>9, <2>1
         DEF StreamInv, Counted, Numbered, First, Waiting, Greeted
  <1>10. CASE ok /\ ~app.reset
    <2>1. /\ app'.ack = app.ack /\ app'.rcv = 1 /\ app'.peer = local_seq
      BY <1>2, <1>3, <1>5, <1>6, <1>7, <1>10, SynReply
    <2>2. local_seq \in LocalIsns
      BY <1>1, <1>2, <1>10 DEF StreamInv, First
    <2>3. offset' = 1
      BY <1>3, <1>4, <1>10, <2>1, OffsetValue DEF offset
    <2>4. owed' = 1
      BY <1>2, <1>7, <1>10 DEF owed
    <2>5. Counted'
      BY <1>2, <1>3, <2>1 DEF StreamInv, Counted
    <2>6. Greeted'
      BY <2>1 DEF StreamInv, Greeted, Connected
    <2> QED
      BY <1>2, <2>1, <2>2, <2>3, <2>4, <2>5, <2>6 DEF StreamInv, Numbered, First, Waiting
  <1>11. ok /\ app.reset => app' = app
    BY <1>2, <1>3, <1>5, <1>6, <1>7, SynReply
  <1>12. ~ok => local_seq' = local_seq
    BY <1>4
  <1> QED
    <2>1. CASE ~ok
      <3>1. app' = app /\ state' = "CLOSING" /\ local_seq' = local_seq
        BY <1>8, <1>12, <2>1
      <3> QED
        BY <1>9, <3>1
    <2>2. CASE ok /\ app.reset
      <3>1. app' = app /\ app.reset
        BY <1>11, <2>2
      <3> QED
        BY <1>9, <3>1, Zenon
    <2> QED
      BY <1>10, <2>1, <2>2

\* What a relaying session writes is counted, and the app has it unless it has been reset.
LEMMA WriteStream ==
  ASSUME TypeOK, StreamInv, registered, ~closed, app.rcv > 0,
         NEW a \in AppType, SameStream(app, a), NEW p \in Reply, ~p.syn, ~p.rst,
         p.seq = local_seq, NEW n \in Nat, n = p.len + (IF p.fin THEN 1 ELSE 0),
         app' = Receive(a, p), local_seq' = Uint(local_seq + n), offset + n < Wrap,
         owed' = owed + n, owed' <= downstream' + 2, downstream' \in Nat,
         downstream' <= MaxDown, ~(registered' /\ connecting'),
         UNCHANGED <<registered, dest, connect_sent>>
  PROVE  StreamInv'
  <1>1. /\ app \in AppType /\ app.rcv \in Nat /\ app.ack \in Nat /\ app.peer \in Seq32
        /\ local_seq \in Seq32 /\ downstream \in Nat
    BY DEF TypeOK, AppType
  <1>2. /\ offset \in app.rcv .. downstream + 2 /\ (~app.reset => offset = app.rcv)
        /\ offset = owed
    BY DEF StreamInv, Numbered
  <1>3. offset \in Nat
    BY <1>1, <1>2
  <1>4. /\ a.peer = app.peer /\ a.rcv = app.rcv /\ a.ack = app.ack /\ (app.reset => a.reset)
        /\ a.rcv > 0
    BY DEF SameStream
  <1>5. ~a.reset => Uint(p.seq - a.peer) = a.rcv
    BY <1>2, <1>4 DEF offset
  <1>6. /\ app'.peer = app.peer /\ app'.ack = app.ack /\ app'.reset = a.reset
        /\ app'.rcv = IF a.reset THEN app.rcv ELSE app.rcv + n
    <2>1. /\ app'.peer = a.peer /\ app'.ack = a.ack /\ app'.reset = a.reset
          /\ app'.rcv = IF a.reset THEN a.rcv ELSE a.rcv + p.len + (IF p.fin THEN 1 ELSE 0)
      BY <1>4, <1>5, StreamReply
    <2>2. a.rcv + p.len + (IF p.fin THEN 1 ELSE 0) = app.rcv + n
      BY <1>1, <1>4 DEF Reply
    <2> QED
      BY <1>4, <2>1, <2>2
  <1>7. offset' = offset + n
    <2>1. Uint(Uint(local_seq + n) - app.peer) = Uint(local_seq - app.peer) + n
      BY <1>1, OffsetStep DEF offset
    <2> QED
      BY <1>6, <2>1 DEF offset
  <1>8. /\ offset' = owed' /\ app'.rcv \in Nat /\ app'.rcv >= app.rcv /\ app'.rcv <= offset'
        /\ ~app'.reset => offset' = app'.rcv
    BY <1>1, <1>2, <1>3, <1>4, <1>6, <1>7
  <1>9. Counted'
    BY <1>1, <1>3, <1>6, <1>7, <1>8 DEF StreamInv, Counted
  <1>10. Numbered'
    BY <1>3, <1>7, <1>8 DEF Numbered
  <1>11. First'
    BY <1>1, <1>6, <1>8 DEF StreamInv, First
  <1>12. Waiting'
    BY DEF Waiting
  <1>13. Greeted'
    BY <1>1, <1>8 DEF StreamInv, Greeted
  <1> QED
    BY <1>9, <1>10, <1>11, <1>12, <1>13 DEF StreamInv

\* What recv has returned and tun has not taken is lost with the session.
LEMMA LostWrite ==
  ASSUME TypeOK, StreamInv, registered, app.rcv > 0, SameStream(app, app'),
         UNCHANGED <<registered, dest, connect_sent, local_seq>>, ~connecting,
         state' = "CLOSING", NEW n \in Nat, downstream' = downstream + n,
         downstream' <= MaxDown
  PROVE  StreamInv'
  <1>1. app.rcv \in Nat /\ downstream \in Nat /\ downstream' \in Nat /\ downstream' >= downstream
    BY DEF TypeOK, AppType
  <1>2. SameAnswer
    BY SameApp
  <1>3. /\ offset \in app.rcv .. downstream + 2 /\ (~app.reset => offset = app.rcv)
        /\ offset' = offset
    BY <1>2 DEF StreamInv, Numbered, SameAnswer, offset
  <1>4. Counted' /\ First'
    BY <1>1, <1>2 DEF StreamInv, Counted, First, SameAnswer
  <1>5. Numbered'
    BY <1>1, <1>2, <1>3 DEF Numbered, SameAnswer, closed
  <1>6. Waiting' /\ Greeted'
    BY DEF Waiting, Greeted, StreamInv, connecting
  <1> QED
    BY <1>4, <1>5, <1>6 DEF StreamInv

\* The read half: bytes and the FIN are counted when tun takes them, else the session
\* closes.
LEMMA ReadStream ==
  ASSUME MaxDown + 2 < Wrap, TypeOK, StreamInv, registered, state # "LISTEN",
         UNCHANGED <<registered, dest, connect_sent>>,
         NEW st \in {state, "CLOSING"}, NEW r \in Seq32, NEW a \in AppType,
         SameStream(app, a), NEW fw, Read(st, r, a, fw),
         readable(st) => app.rcv > 0 /\ ~connecting
  PROVE  StreamInv'
  <1>1. /\ local_seq \in Seq32 /\ downstream \in Nat /\ app.rcv \in Nat
        /\ MaxDown \in Nat /\ downstream <= MaxDown
    BY SessionAssumption DEF TypeOK, AppType, StreamInv, Counted
  <1>2. connecting' => connecting
    BY DEF connecting
  <1>3. ASSUME SameStream(app, app'), UNCHANGED <<local_seq, downstream>>,
               state' = st \/ closed'
        PROVE  StreamInv'
    <2>1. SameAnswer
      BY <1>3, SameApp
    <2>2. closed' \/ (~closed /\ state' = state)
      BY <1>3 DEF closed
    <2>3. state' = "SYN_RECV" => state = "SYN_RECV"
      BY <2>2 DEF closed
    <2> QED
      BY <1>2, <1>3, <2>1, <2>2, <2>3, StreamKept
  <1>4. ASSUME NEW why, write_rst(a, st, r, why), UNCHANGED <<local_seq, downstream>>
        PROVE  StreamInv'
    <2>1. SameStream(a, app') /\ closed'
      BY <1>4, RstStream
    <2>2. SameStream(app, app')
      BY <2>1 DEF SameStream
    <2> QED
      BY <1>3, <1>4, <2>1, <2>2
  <1>5. CASE NoRead(st, r, a)
    BY <1>3, <1>5 DEF NoRead
  <1>6. ASSUME readable(st)
        PROVE  /\ app.rcv > 0 /\ ~connecting /\ ~connecting' /\ ~closed
               /\ st = state /\ state \in {"ESTABLISHED", "CLOSE_WAIT"}
               /\ owed = 1 + downstream /\ offset = 1 + downstream
    <2>1. st = state /\ state \in {"ESTABLISHED", "CLOSE_WAIT"}
      BY <1>6 DEF readable
    <2>2. ~closed /\ owed = 1 + downstream
      BY <1>1, <2>1 DEF closed, owed
    <2> QED
      BY <1>2, <1>6, <2>1, <2>2 DEF StreamInv, Numbered
  <1>7. CASE readable(st) /\ ReadData(st, r, a)
    <2>1. PICK n \in 1 .. Mss, ok \in Outcomes("tun") :
            /\ downstream + n <= MaxDown
            /\ write_or_close(a, st, {"ACK"}, local_seq, r, n, ok)
            /\ local_seq' = IF ok THEN Uint(local_seq + n) ELSE local_seq
            /\ downstream' = downstream + n
      BY <1>7 DEF ReadData
    <2>2. n \in Nat
      BY SessionAssumption
    <2>3. CASE ok
      <3> DEFINE p == write_tcp({"ACK"}, local_seq, r, n)
      <3>1. p \in Reply /\ ~p.syn /\ ~p.rst /\ ~p.fin /\ p.len = n /\ p.seq = local_seq
        <4>1. p \in Reply
          BY <1>1, <2>2, WriteType
        <4> QED
          BY <4>1 DEF write_tcp
      <3>2. app' = Receive(a, p) /\ state' = st /\ local_seq' = Uint(local_seq + n)
        BY <2>1, <2>3 DEF write_or_close
      <3> HIDE DEF p
      <3>3. n = p.len + (IF p.fin THEN 1 ELSE 0) /\ offset + n < Wrap
        BY <1>1, <1>6, <1>7, <2>1, <2>2, <3>1, HalfAssumption DEF Wrap
      <3>4. downstream' \in Nat /\ downstream' <= MaxDown
        BY <1>1, <2>1, <2>2
      <3>5. owed' = owed + n /\ owed' <= downstream' + 2
        <4>1. owed' = 1 + downstream'
          BY <1>6, <1>7, <3>2, <3>4 DEF owed
        <4> QED
          BY <1>1, <1>6, <1>7, <2>1, <2>2, <4>1
      <3> QED
        BY <1>6, <1>7, <2>2, <3>1, <3>2, <3>3, <3>4, <3>5, WriteStream
    <2>4. CASE ~ok
      <3>1. app' = a /\ state' = "CLOSING" /\ local_seq' = local_seq
        BY <2>1, <2>4 DEF write_or_close
      <3> QED
        BY <1>6, <1>7, <2>1, <2>2, <3>1, LostWrite
    <2> QED
      BY <2>3, <2>4
  <1>8. CASE readable(st) /\ ReadEof(st, r, a, fw)
    <2>1. downstream' = downstream
      BY <1>8 DEF ReadEof
    <2>2. CASE fw = <<>>
      <3> DEFINE next == IF st = "ESTABLISHED" THEN "FIN_WAIT1" ELSE "LAST_ACK"
      <3>1. PICK ok \in Outcomes("tun") :
              /\ write_or_close(a, next, {"FIN", "ACK"}, local_seq, r, 0, ok)
              /\ local_seq' = IF ok THEN Uint(local_seq + 1) ELSE local_seq
        BY <1>8, <2>2 DEF ReadEof
      <3>2. next \in Fin
        BY DEF Fin
      <3> HIDE DEF next
      <3>3. CASE ok
        <4> DEFINE p == write_tcp({"FIN", "ACK"}, local_seq, r, 0)
        <4>1. p \in Reply /\ ~p.syn /\ ~p.rst /\ p.fin /\ p.len = 0 /\ p.seq = local_seq
          <5>1. p \in Reply
            BY <1>1, WriteType
          <5> QED
            BY <5>1 DEF write_tcp
        <4>2. app' = Receive(a, p) /\ state' = next /\ local_seq' = Uint(local_seq + 1)
          BY <3>1, <3>3 DEF write_or_close
        <4> HIDE DEF p
        <4>3. 1 = p.len + (IF p.fin THEN 1 ELSE 0) /\ offset + 1 < Wrap
          BY <1>1, <1>6, <1>8, <4>1, HalfAssumption DEF Wrap
        <4>4. owed' = owed + 1 /\ owed' <= downstream' + 2
          <5>1. owed' = 1 + downstream + 1
            BY <2>1, <3>2, <4>2 DEF owed, Fin
          <5> QED
            BY <1>1, <1>6, <1>8, <2>1, <5>1
        <4> QED
          BY <1>1, <1>6, <1>8, <2>1, <4>1, <4>2, <4>3, <4>4, WriteStream
      <3>4. CASE ~ok
        <4>1. app' = a /\ state' = "CLOSING" /\ local_seq' = local_seq
          BY <3>1, <3>4 DEF write_or_close
        <4> QED
          BY <1>3, <2>1, <4>1 DEF closed
      <3> QED
        BY <3>3, <3>4
    <2>3. CASE fw # <<>>
      BY <1>4, <1>8, <2>1, <2>3 DEF ReadEof
    <2> QED
      BY <2>2, <2>3
  <1>9. CASE readable(st) /\ ReadError(st, r, a)
    BY <1>4, <1>9 DEF ReadError
  <1> QED
    BY <1>5, <1>7, <1>8, <1>9 DEF Read

\* The forwarding half writes nothing but an acknowledgement, and what it leaves is read
\* only for an app that has been answered.
LEMMA TransferReads ==
  ASSUME TypeOK, ConnectInv, registered, Transfer
  PROVE  \E st, r, a, fw :
           /\ st \in {state, "CLOSING"} /\ r \in Seq32 /\ a \in AppType
           /\ SameStream(app, a) /\ Read(st, r, a, fw)
           /\ readable(st) => app.rcv > 0 /\ ~connecting
  <1>1. PICK c \in (IF "OUT" \in pending THEN ForwardChoices ELSE {NoForward}),
             window \in (IF socket THEN {0, 1} ELSE {0}), ok \in Outcomes("tun") :
               ForwardAndRead(c, window, ok)
    BY DEF Transfer
  <1>2. app \in AppType /\ local_seq \in Seq32
    BY DEF TypeOK
  <1>3. PICK st, r, a, fw :
          /\ st \in {state, "CLOSING"} /\ r \in Seq32
          /\ a \in AppType /\ SameStream(app, a)
          /\ Read(st, r, a, fw)
    <2>1. PICK f : f = Forwarding(c)
      OBVIOUS
    <2>2. f.seq \in Seq32
      BY <1>1, <2>1, ForwardingType
    <2>3. PICK r : r = IF (c.whole > 0 \/ c.part > 0) /\ f.queue = <<>> /\ state = "CLOSE_WAIT"
                       THEN Uint(f.seq + 1) ELSE f.seq
      OBVIOUS
    <2>4. r \in Seq32
      BY <2>2, <2>3, StepType
    <2>5. PICK p : p = write_tcp({"ACK"}, local_seq, r, 0)
      OBVIOUS
    <2>6. Receive(app, p) \in AppType /\ SameStream(app, Receive(app, p))
      BY <1>2, <2>4, <2>5, AckStream
    <2>7. SameStream(app, app)
      BY DEF SameStream
    <2>8. PICK st \in {state, "CLOSING"}, a \in {app, Receive(app, p)} : Read(st, r, a, f.queue)
      BY <1>1, <2>1, <2>3, <2>5 DEF ForwardAndRead
    <2> QED
      BY <1>2, <2>4, <2>6, <2>7, <2>8
  <1>4. readable(st) => app.rcv > 0 /\ ~connecting
    <2> SUFFICES ASSUME readable(st) PROVE app.rcv > 0 /\ ~connecting
      OBVIOUS
    <2>1. state \in {"ESTABLISHED", "CLOSE_WAIT"}
      BY <1>3 DEF readable
    <2>2. app.rcv \in Nat
      BY <1>2 DEF AppType
    <2> QED
      BY <2>1, <2>2 DEF ConnectInv, Answered, ConnectFirst
  <1> QED
    BY <1>3, <1>4

\* Forwarding and reading.
LEMMA TransferStream ==
  ASSUME MaxDown + 2 < Wrap, TypeOK, ConnectInv, StreamInv, registered, Transfer,
         UNCHANGED <<registered, dest>>
  PROVE  StreamInv'
  <1>1. state # "LISTEN" /\ UNCHANGED connect_sent
    BY DEF Transfer
  <1>2. PICK st, r, a, fw :
          /\ st \in {state, "CLOSING"} /\ r \in Seq32 /\ a \in AppType
          /\ SameStream(app, a) /\ Read(st, r, a, fw)
          /\ readable(st) => app.rcv > 0 /\ ~connecting
    BY TransferReads
  <1> QED
    BY <1>1, <1>2, ReadStream

\* Every report for the socket.
LEMMA StreamEvent ==
  ASSUME MaxDown + 2 < Wrap, TypeOK, SocketInv, ConnectInv, StreamInv, check_tcp_socket
  PROVE  StreamInv'
  <1>1. /\ registered /\ pending # {} /\ UNCHANGED <<registered, dest>>
        /\ state # "CLOSE"
    BY DEF SocketInv, check_tcp_socket
  <1>2. remote_seq \in Seq32 /\ app \in AppType
    BY DEF TypeOK
  <1>3. ASSUME NEW why, write_rst(app, state, remote_seq, why),
               UNCHANGED <<connect_sent, local_seq, downstream>>
        PROVE  StreamInv'
    <2>1. SameStream(app, app') /\ closed'
      BY <1>2, <1>3, RstStream
    <2>2. SameAnswer
      BY <2>1, SameApp
    <2>3. (connecting' => connecting) /\ state' # "SYN_RECV"
      BY <1>1, <1>3, <2>1 DEF connecting, closed
    <2> QED
      BY <1>1, <1>3, <2>1, <2>2, <2>3, StreamKept
  <1>4. CASE SocketError
    BY <1>3, <1>4 DEF SocketError
  <1>5. CASE Connected
    BY <1>1, <1>5, ConnectedStream
  <1>6. CASE ConnectReply
    <2>1. CASE connect_sent = "SENT" /\ connect_sent' = "ESTABLISHED" /\ app' = app
      <3>1. dest = 443 /\ connecting /\ ~connecting' /\ state' \notin Fin
        BY <1>1, <1>6, <2>1 DEF ConnectReply, StreamInv, Greeted, connecting, Fin, write_rst
      <3>2. SameAnswer
        <4>1. SameStream(app, app')
          BY <2>1 DEF SameStream
        <4> QED
          BY <4>1, SameApp
      <3>3. UNCHANGED <<local_seq, downstream>>
        BY <1>6 DEF ConnectReply
      <3> QED
        BY <1>1, <3>1, <3>2, <3>3, StreamKept
    <2>2. CASE write_rst(app, state, remote_seq, "CONNECT refused") /\ UNCHANGED connect_sent
      BY <1>3, <1>6, <2>2 DEF ConnectReply
    <2> QED
      BY <1>6, <2>1, <2>2 DEF ConnectReply
  <1>7. CASE Transfer
    BY <1>1, <1>7, TransferStream
  <1> QED
    BY <1>4, <1>5, <1>6, <1>7 DEF check_tcp_socket

-----------------------------------------------------------------------------
(* Rounds. *)

\* The probe of a shut window carries nothing.
LEMMA StreamMonitor ==
  ASSUME TypeOK, StreamInv, monitor_tcp_session
  PROVE  StreamInv'
  <1>1. UNCHANGED <<registered, dest, connect_sent, local_seq, downstream>>
    BY DEF monitor_tcp_session, seqs, history
  <1>2. SameAnswer
    <2>1. PICK p : p = write_tcp({"ACK"}, local_seq, Uint(remote_seq - 1), 0)
      OBVIOUS
    <2>2. Uint(remote_seq - 1) \in Seq32 /\ local_seq \in Seq32 /\ app \in AppType
      BY StepType DEF TypeOK
    <2>3. SameStream(app, Receive(app, p))
      BY <2>1, <2>2, AckStream
    <2>4. app' \in {app, Receive(app, p)}
      BY <2>1 DEF monitor_tcp_session
    <2>5. SameStream(app, app)
      BY DEF SameStream
    <2> QED
      BY <2>3, <2>4, <2>5, SameApp
  <1>3. state' \in {state, "CLOSING"}
    BY DEF monitor_tcp_session
  <1>4. closed' \/ (~closed /\ state' = state)
    BY <1>3 DEF closed
  <1>5. connecting' = connecting
    BY <1>1 DEF connecting
  <1> QED
    BY <1>1, <1>2, <1>3, <1>4, <1>5, StreamKept

\* Nor does what is written when a session expires.
LEMMA StreamCheck ==
  ASSUME TypeOK, StreamInv, check_tcp_session
  PROVE  StreamInv'
  <1>1. UNCHANGED <<dest, connect_sent, local_seq, downstream>>
    BY DEF check_tcp_session, seqs
  <1>2. SameAnswer
    <2>1. PICK p : p = write_tcp({"RST"}, local_seq, remote_seq, 0)
      OBVIOUS
    <2>2. local_seq \in Seq32 /\ remote_seq \in Seq32 /\ app \in AppType
      BY DEF TypeOK
    <2>3. SameStream(app, Receive(app, p))
      BY <2>1, <2>2, AckStream
    <2>4. app' \in {app, Receive(app, p)}
      BY <2>1 DEF check_tcp_session, Expire, CloseSocket, Delete, CheckNothing
    <2>5. SameStream(app, app)
      BY DEF SameStream
    <2> QED
      BY <2>3, <2>4, <2>5, SameApp
  <1>3. registered' => registered /\ state' \in {state, "CLOSE"}
    BY DEF check_tcp_session, Expire, CloseSocket, Delete, CheckNothing
  <1>4. registered' => closed' \/ (~closed /\ state' = state)
    BY <1>3 DEF closed
  <1>5. connecting' = connecting
    BY <1>1 DEF connecting
  <1> QED
    BY <1>1, <1>2, <1>3, <1>4, <1>5, StreamKept

\* Nothing is owed at the start.
LEMMA StreamInit == Init => StreamInv
  <1> SUFFICES ASSUME Init PROVE StreamInv
    OBVIOUS
  <1>1. app.rcv = 0 /\ app.ack = 0
    BY DEF Init, AppInit
  <1>2. ~registered /\ downstream = 0
    BY DEF Init
  <1> QED
    BY <1>1, <1>2, SessionAssumption
       DEF StreamInv, Counted, Numbered, First, Waiting, Greeted

\* Every step leaves the stream in order.
LEMMA StreamStep ==
  ASSUME MaxDown + 2 < Wrap, TypeOK, SocketInv, ConnectInv, StreamInv, [Next]_vars
  PROVE  StreamInv'
  <1>1. CASE UNCHANGED vars
    BY <1>1 DEF vars, link, seqs, history, StreamInv, Counted, Numbered, First, Waiting,
                Greeted, offset, owed, connecting, closed
  <1> QED
    BY <1>1, StreamTun, StreamEvent, StreamMonitor, StreamCheck DEF Next

\* An app that a session has answered, over any port, gets every byte read from the
\* server and the end of it once and in order, whatever tun refuses, as long as the
\* connection does not carry so much that its numbers come round; over a port other than
\* 443 a session that relays has answered it.
THEOREM AnswerAlways ==
  ASSUME MaxDown + 2 < Wrap
  PROVE  Spec => [](dest # 443 \/ app.rcv > 0 => StreamToApp)
  <1>1. TypeOK /\ SocketInv /\ ConnectInv /\ StreamInv /\ [Next]_vars => StreamInv'
    BY StreamStep
  <1>2. TypeOK /\ ConnectInv /\ StreamInv => (dest # 443 \/ app.rcv > 0 => StreamToApp)
    <2> SUFFICES ASSUME TypeOK, ConnectInv, StreamInv, dest # 443 \/ app.rcv > 0,
                        registered, ~app.reset,
                        state \in {"SYN_RECV", "ESTABLISHED", "CLOSE_WAIT", "FIN_WAIT1", "LAST_ACK"}
                 PROVE  app.rcv = owed
      BY DEF StreamToApp, relaying, owed
    <2>1. app.rcv \in Nat /\ ~closed
      BY DEF TypeOK, AppType, closed
    <2>2. app.rcv > 0
      BY <2>1 DEF ConnectInv, Answered, StreamInv, Greeted
    <2> QED
      BY <2>1, <2>2 DEF StreamInv, Numbered
  <1> QED
    BY <1>1, <1>2, StreamInit, TypeCorrect, ConnectHolds, PTL DEF Spec

-----------------------------------------------------------------------------
(* The window. *)

\* The engine's numbers stay below 0x80000000, where compare_u32 orders them.
Below == \A s \in LocalIsns \cup {0} : s + MaxDown + 2 < Half

Reading == {"ESTABLISHED", "CLOSE_WAIT"}

\* A session that reads has noted an acknowledgement the app has sent, and a window the
\* app has advertised.
Window ==
  registered /\ state \in Reading =>
    /\ app.ack > 0 /\ acked_offset \in 1 .. app.ack
    /\ send_window + app.ack <= app.edge

WindowInv == Window /\ WithinWindow /\ NoFutureAck

\* The bounds, as they are used.
LEMMA BelowHalf ==
  ASSUME Below
  PROVE  /\ MaxDown + 2 < Half /\ MaxDown + 2 < Wrap
         /\ \A s \in LocalIsns : s \in Seq32 /\ s \in Nat /\ s + MaxDown + 2 < Half
  <1>1. Half \in Nat /\ MaxDown \in Nat /\ LocalIsns \subseteq 0 .. Half - 1
    BY HalfAssumption, SessionAssumption
  <1>2. 0 + MaxDown + 2 < Half /\ \A s \in LocalIsns : s + MaxDown + 2 < Half
    BY DEF Below
  <1> QED
    BY <1>1, <1>2 DEF Seq32, Wrap

\* compare_u32 orders numbers that are counted from one of the engine's by their offsets.
LEMMA CompareOffsets ==
  ASSUME Below, NEW s \in LocalIsns, NEW t \in Seq32, NEW u \in Seq32,
         Uint(t - s) <= Uint(u - s), Uint(u - s) <= MaxDown + 2,
         Uint(u - s) = MaxDown + 2 => Uint(t - s) > 0
  PROVE  compare_u32(t, u) <= 0 /\ Uint(u - t) = Uint(u - s) - Uint(t - s)
  <1> DEFINE j == Uint(t - s)
             k == Uint(u - s)
  <1>1. /\ s \in Seq32 /\ s \in Nat /\ s + MaxDown + 2 < Half /\ MaxDown + 2 < Half
        /\ Half \in Nat /\ MaxDown \in Nat /\ Wrap = 2 * Half
    BY BelowHalf, HalfAssumption, SessionAssumption DEF Wrap
  <1>2. j \in Nat /\ k \in Nat /\ t = Uint(s + j) /\ u = Uint(s + k)
    BY <1>1, ValueOffset
  <1>3. j <= k /\ k <= MaxDown + 2 /\ (k = MaxDown + 2 => j > 0)
    OBVIOUS
  <1> HIDE DEF j, k
  <1>4. t = s + j /\ u = s + k
    BY <1>1, <1>2, <1>3, UintValue
  <1>5. t < Half /\ u < Half /\ u - t < Half - 1 /\ t - u < Half - 1
    BY <1>1, <1>2, <1>3, <1>4
  <1>6. compare_u32(t, u) = compare_rfc1982(t, u)
    BY <1>5, CompareWithinHalf
  <1>7. Uint(u - t) = u - t /\ u - t = k - j
    BY <1>1, <1>2, <1>3, <1>4, UintValue
  <1>8. compare_rfc1982(t, u) <= 0
    <2>1. t # u => SerialLess(t, u)
      BY <1>1, <1>2, <1>3, <1>4, <1>5, <1>7 DEF SerialLess
    <2> QED
      BY <2>1 DEF compare_rfc1982
  <1> QED
    BY <1>6, <1>7, <1>8 DEF j, k

\* get_send_window is never negative.
LEMMA SendWindowType == TypeOK => get_send_window \in Nat
  <1> SUFFICES ASSUME TypeOK PROVE get_send_window \in Nat
    OBVIOUS
  <1>1. send_window \in Nat /\ acked \in Seq32 /\ local_seq \in Seq32
    BY DEF TypeOK
  <1>2. local_seq - acked \in Int /\ acked \in Nat
    BY <1>1, Seq32Nat
  <1>3. Uint(local_seq - acked) \in Nat
    BY <1>2, UintType, Seq32Nat
  <1> QED
    BY <1>1, <1>2, <1>3 DEF get_send_window

\* What get_send_window leaves fits into what the app allows.
LEMMA SendWindow ==
  ASSUME Below, TypeOK, StreamInv, Window, registered, state \in Reading, app.rcv > 0,
         get_send_window > 0
  PROVE  offset + get_send_window <= app.edge
  <1>1. /\ app.ack \in Nat /\ app.rcv \in Nat /\ app.edge \in Nat /\ downstream \in Nat
        /\ app.peer \in LocalIsns /\ acked \in Seq32 /\ local_seq \in Seq32
        /\ send_window \in Nat /\ MaxDown \in Nat
    BY SessionAssumption DEF TypeOK, AppType, StreamInv, First
  <1>2. /\ acked_offset \in 1 .. app.ack /\ app.ack <= app.rcv
        /\ send_window + app.ack <= app.edge
    BY DEF Window, StreamInv, Counted
  <1>3. offset \in app.rcv .. downstream + 2 /\ downstream <= MaxDown
    BY DEF StreamInv, Counted, Numbered
  <1>4. /\ Uint(acked - app.peer) <= Uint(local_seq - app.peer)
        /\ Uint(local_seq - app.peer) <= MaxDown + 2
        /\ Uint(acked - app.peer) > 0
    BY <1>1, <1>2, <1>3 DEF offset, acked_offset
  <1>5. compare_u32(acked, local_seq) <= 0 /\ Uint(local_seq - acked) = offset - acked_offset
    BY <1>1, <1>4, CompareOffsets DEF offset, acked_offset
  <1>6. get_send_window = send_window - (offset - acked_offset)
    BY <1>5 DEF get_send_window
  <1> QED
    BY <1>1, <1>2, <1>3, <1>6

\* No acknowledgement the app can send lies beyond local_seq.
LEMMA NoneAhead ==
  ASSUME Below, TypeOK, StreamInv, registered, NEW p \in AppPackets
  PROVE  ~FutureAck(p)
  <1> SUFFICES ASSUME FutureAck(p) PROVE FALSE
    OBVIOUS
  <1>1. p.ack /\ ~p.rst /\ compare_u32(p.ack_seq, local_seq) > 0
    BY DEF FutureAck, current
  <1>2. /\ app.ack \in Nat /\ app.rcv \in Nat /\ app.ack <= app.rcv /\ downstream <= MaxDown
        /\ downstream \in Nat /\ MaxDown \in Nat /\ local_seq \in Seq32 /\ app.peer \in Seq32
        /\ app.rcv <= downstream + 2
    BY SessionAssumption DEF TypeOK, AppType, StreamInv, Counted
  <1>3. app.rcv < Wrap
    BY <1>2, BelowHalf, HalfAssumption DEF Wrap
  <1>4. /\ Sent(p).ack \in app.ack .. app.rcv /\ Sent(p).ack > 0
        /\ p.ack_seq = Uint(app.peer + Sent(p).ack)
    BY <1>1, <1>2, <1>3, SentStream DEF TypeOK
  <1> DEFINE k == Sent(p).ack
  <1>5. k \in Nat /\ k > 0 /\ k <= app.rcv /\ p.ack_seq = Uint(app.peer + k)
    BY <1>2, <1>4
  <1> HIDE DEF k
  <1>6. p.ack_seq \in Seq32 /\ Uint(p.ack_seq - app.peer) = k
    <2>1. k < Wrap /\ k \in Int /\ Wrap \in Int
      BY <1>2, <1>3, <1>5, HalfAssumption DEF Wrap
    <2>2. Uint(app.peer + k) \in Seq32
      BY <1>2, <2>1, StepType
    <2>3. Uint(Uint(app.peer + k) - app.peer) = k
      BY <1>2, <1>5, <2>1, OffsetValue
    <2> QED
      BY <1>5, <2>2, <2>3
  <1>7. app.rcv > 0 /\ app.peer \in LocalIsns /\ offset \in app.rcv .. downstream + 2
    BY <1>2, <1>5 DEF StreamInv, First, Numbered
  <1>8. /\ Uint(p.ack_seq - app.peer) <= Uint(local_seq - app.peer)
        /\ Uint(local_seq - app.peer) <= MaxDown + 2
        /\ Uint(p.ack_seq - app.peer) > 0
    BY <1>2, <1>5, <1>6, <1>7 DEF offset
  <1>9. compare_u32(p.ack_seq, local_seq) <= 0
    BY <1>2, <1>6, <1>7, <1>8, CompareOffsets
  <1>10. compare_u32(p.ack_seq, local_seq) \in {-1, 0, 1}
    BY DEF compare_u32
  <1> QED
    BY <1>1, <1>9, <1>10

\* Where nothing is written and nothing acknowledged the window is what it was.
LEMMA WindowKept ==
  ASSUME WindowInv, SameStream(app, app'), UNCHANGED <<acked, send_window>>,
         cause' # "future ACK",
         registered' => registered /\ (state' \in Reading => state' = state)
  PROVE  WindowInv'
  <1>1. /\ app'.peer = app.peer /\ app'.rcv = app.rcv /\ app'.ack = app.ack
        /\ app'.edge = app.edge
    BY DEF SameStream
  <1>2. Window'
    BY <1>1 DEF WindowInv, Window, acked_offset
  <1>3. WithinWindow' /\ NoFutureAck'
    BY <1>1 DEF WindowInv, WithinWindow, NoFutureAck
  <1> QED
    BY <1>2, <1>3 DEF WindowInv

\* A packet moves the edge of the window forward only, and what it acknowledges and the
\* window it carries are noted together.
LEMMA WindowTun ==
  ASSUME Below, TypeOK, ConnectInv, StreamInv, WindowInv, check_tun
  PROVE  WindowInv'
  <1>1. PICK p \in AppPackets : (p.syn => registered \/ app.rcv = 0) /\ handle_tcp(p)
    BY DEF check_tun
  <1>2. /\ app.rcv \in Nat /\ app.ack \in Nat /\ app.edge \in Nat /\ app.peer \in Seq32
        /\ app.rcv < Wrap /\ app.ack <= app.rcv /\ Wrap \in Nat /\ MaxDown + 2 < Wrap
    BY BelowHalf, SessionAssumption, HalfAssumption
       DEF TypeOK, AppType, StreamInv, Counted, Wrap
  <1>3. /\ Sent(p).peer = app.peer /\ Sent(p).rcv = app.rcv
        /\ Sent(p).ack \in app.ack .. app.rcv /\ Sent(p).edge >= app.edge
        /\ p.ack /\ ~p.rst => /\ Sent(p).ack > 0
                              /\ p.ack_seq = Uint(app.peer + Sent(p).ack)
                              /\ Sent(p).edge = Sent(p).ack + p.window
        /\ ~p.ack => p.syn /\ app.ack = 0 /\ ~p.rst
    BY <1>1, <1>2, SentStream DEF TypeOK
  <1>4. Sent(p) \in AppType /\ p \in Packet
    BY <1>1, SentType, AppPacketsType DEF TypeOK
  <1>5. Sent(p).edge \in Nat /\ Sent(p).ack \in Nat
    BY <1>2, <1>3, <1>4 DEF AppType
  <1>6. SameStream(Sent(p), app') \/ app' = app
    <2>1. CASE registered
      BY <1>1, <1>2, <2>1, PacketAnswer
    <2>2. CASE ~registered
      <3>1. NewSession(p) \/ UnknownSession(p)
        BY <1>1, <2>2 DEF handle_tcp, ConnectPhase, WasClosed, DataRefused, ReceiveRst,
          RepeatedSyn, ReceiveFin, ReceiveAck, PreviousAck, FutureAck, Accept
      <3>2. CASE NewSession(p)
        BY <3>2 DEF NewSession, SameStream
      <3>3. CASE UnknownSession(p)
        <4> DEFINE r == Uint(p.seq + p.len + (IF p.fin THEN 1 ELSE 0))
        <4>1. r \in Seq32 /\ p.ack_seq \in Seq32
          <5>1. p.seq + p.len + (IF p.fin THEN 1 ELSE 0) \in Int
            BY <1>4, Seq32Nat DEF Packet
          <5> QED
            BY <1>4, <5>1, UintType DEF Packet
        <4> DEFINE q == write_tcp({"RST"}, p.ack_seq, r, 0)
        <4>2. app' = Sent(p) \/ app' = Receive(Sent(p), q)
          BY <3>3 DEF UnknownSession
        <4> HIDE DEF r
        <4>3. SameStream(Sent(p), Receive(Sent(p), q)) /\ SameStream(Sent(p), Sent(p))
          BY <1>4, <4>1, AckStream DEF SameStream
        <4> HIDE DEF q
        <4> QED
          BY <4>2, <4>3
      <3> QED
        BY <3>1, <3>2, <3>3
    <2> QED
      BY <2>1, <2>2
  <1>7. app'.rcv = app.rcv /\ app'.edge \in Nat /\ app'.edge >= app.edge
    BY <1>2, <1>3, <1>5, <1>6 DEF SameStream
  <1>8. WithinWindow'
    BY <1>2, <1>7 DEF WindowInv, WithinWindow
  <1>9. ~(registered /\ FutureAck(p))
    BY <1>1, NoneAhead
  <1>10. ASSUME NEW st, NEW rseq, NEW why, write_rst(Sent(p), st, rseq, why),
                why # "future ACK"
         PROVE  closed' /\ cause' # "future ACK"
    BY <1>10, RstCloses DEF write_rst
  <1>11. NoFutureAck'
    <2>1. CASE NewSession(p) \/ UnknownSession(p) \/ ReceiveRst(p) \/ RepeatedSyn(p)
               \/ ReceiveAck(p) \/ PreviousAck(p) \/ ReceiveFin(p)
      BY <2>1 DEF NewSession, UnknownSession, ReceiveRst, RepeatedSyn, ReceiveAck, PreviousAck,
        ReceiveFin, history, WindowInv, NoFutureAck
    <2>2. CASE ConnectPhase(p) \/ WasClosed(p) \/ DataRefused(p)
      BY <1>10, <2>2 DEF ConnectPhase, WasClosed, DataRefused, WindowInv, NoFutureAck
    <2> QED
      BY <1>1, <1>9, <2>1, <2>2 DEF handle_tcp, FutureAck, Accept
  <1>12. Window'
    <2> SUFFICES ASSUME registered', state' \in Reading
                 PROVE  /\ app'.ack > 0 /\ acked_offset' \in 1 .. app'.ack
                        /\ send_window' + app'.ack <= app'.edge
      BY DEF Window
    <2>1. registered /\ ~closed'
      BY <1>1 DEF handle_tcp, NewSession, UnknownSession, ConnectPhase, WasClosed, DataRefused,
        ReceiveRst, RepeatedSyn, ReceiveAck, PreviousAck, ReceiveFin, FutureAck, Accept,
        link, Reading, closed
    <2>2. SameStream(Sent(p), app')
      BY <1>1, <1>2, <2>1, PacketAnswer
    <2>3. /\ app'.peer = app.peer /\ app'.ack = Sent(p).ack /\ app'.edge = Sent(p).edge
      BY <1>3, <2>2 DEF SameStream
    <2>4. ReceiveRst(p) \/ RepeatedSyn(p) \/ ReceiveAck(p) \/ PreviousAck(p) \/ ReceiveFin(p)
      <3>1. ~ConnectPhase(p)
        <4>1. ASSUME ConnectPhase(p)
              PROVE  FALSE
          <5>1. state \notin Reading
            BY <4>1 DEF ConnectPhase, ConnectInv, ConnectFirst, Reading
          <5> QED
            BY <1>10, <2>1, <4>1, <5>1 DEF ConnectPhase, SendConnect, Reading
        <4> QED
          BY <4>1
      <3>2. ~WasClosed(p) /\ ~DataRefused(p)
        BY <1>10, <2>1 DEF WasClosed, DataRefused
      <3> QED
        BY <1>1, <1>9, <2>1, <3>1, <3>2 DEF handle_tcp, NewSession, UnknownSession
    <2>5. send_window' = p.window /\ state' \in Reading /\ ~closed
      BY <2>4 DEF ReceiveRst, RepeatedSyn, ReceiveAck, PreviousAck, ReceiveFin, Accept
    <2>6. ASSUME p.ack, ~p.rst, state \in Reading, acked' = acked
          PROVE  /\ app'.ack > 0 /\ acked_offset' \in 1 .. app'.ack
                 /\ send_window' + app'.ack <= app'.edge
      <3>1. acked_offset' = acked_offset
        BY <2>3, <2>6 DEF acked_offset
      <3>2. acked_offset \in 1 .. app.ack
        BY <2>1, <2>6 DEF WindowInv, Window
      <3>3. p.window \in Nat
        BY <1>4 DEF Packet
      <3> QED
        BY <1>2, <1>3, <1>5, <2>3, <2>5, <2>6, <3>1, <3>2, <3>3
    <2>7. ASSUME p.ack, ~p.rst, acked' = p.ack_seq
          PROVE  /\ app'.ack > 0 /\ acked_offset' \in 1 .. app'.ack
                 /\ send_window' + app'.ack <= app'.edge
      <3>1. Sent(p).ack < Wrap
        BY <1>2, <1>3, <1>5
      <3>2. Uint(Uint(app.peer + Sent(p).ack) - app.peer) = Sent(p).ack
        BY <1>2, <1>5, <3>1, OffsetValue
      <3>3. acked_offset' = Sent(p).ack
        BY <1>3, <2>3, <2>7, <3>2 DEF acked_offset
      <3>4. p.window \in Nat
        BY <1>4 DEF Packet
      <3> QED
        BY <1>3, <1>5, <2>3, <2>5, <2>7, <3>3, <3>4
    <2>8. CASE ReceiveRst(p)
      BY <2>1, <2>8 DEF ReceiveRst, closed
    <2>9. CASE RepeatedSyn(p)
      <3>1. state \in Reading /\ p.syn
        BY <2>9 DEF RepeatedSyn
      <3>2. app.ack > 0
        BY <2>1, <3>1 DEF WindowInv, Window
      <3>3. p.ack
        BY <1>2, <1>3, <3>2
      <3>4. ~p.rst /\ acked' = acked
        BY <2>9 DEF RepeatedSyn
      <3> QED
        BY <2>6, <3>1, <3>3, <3>4
    <2>10. CASE ReceiveAck(p)
      BY <2>7, <2>10 DEF ReceiveAck
    <2>11. CASE PreviousAck(p)
      <3>1. p.ack /\ ~p.rst /\ state \in Reading /\ (acked' = acked \/ acked' = p.ack_seq)
        BY <2>11 DEF PreviousAck, current
      <3> QED
        BY <2>6, <2>7, <3>1
    <2>12. CASE ReceiveFin(p)
      <3>1. ~p.syn /\ ~p.rst /\ acked' = acked
        BY <2>12 DEF ReceiveFin
      <3>2. p.ack
        BY <1>3, <3>1
      <3>3. state \in Reading
        BY <2>5, <2>12 DEF ReceiveFin, confirmable, write_or_close, Reading
      <3> QED
        BY <2>6, <3>1, <3>2, <3>3
    <2> QED
      BY <2>4, <2>8, <2>9, <2>10, <2>11, <2>12
  <1> QED
    BY <1>8, <1>11, <1>12 DEF WindowInv

\* A write to an app that has been answered stays within the window.
LEMMA WriteWindow ==
  ASSUME Below, TypeOK, StreamInv, WindowInv, registered, state \in Reading, app.rcv > 0,
         NEW a \in AppType, SameStream(app, a), NEW p \in Reply, ~p.syn, ~p.rst,
         p.seq = local_seq, p.len + (IF p.fin THEN 1 ELSE 0) <= get_send_window,
         get_send_window > 0, app' = Receive(a, p),
         UNCHANGED <<registered, acked, send_window, cause>>
  PROVE  WindowInv'
  <1>1. /\ app.rcv \in Nat /\ app.edge \in Nat /\ app.peer \in Seq32 /\ app.ack \in Nat
        /\ offset + get_send_window <= app.edge
    BY SendWindow DEF TypeOK, AppType, WindowInv
  <1>2. /\ offset \in Nat /\ offset >= app.rcv /\ (~app.reset => offset = app.rcv)
        /\ get_send_window \in Nat
    <2>1. offset \in app.rcv .. downstream + 2 /\ (~app.reset => offset = app.rcv)
      BY DEF StreamInv, Numbered
    <2>2. downstream \in Nat
      BY DEF TypeOK
    <2> QED
      BY <1>1, <2>1, <2>2, SendWindowType
  <1>3. /\ a.peer = app.peer /\ a.rcv = app.rcv /\ a.ack = app.ack /\ a.edge = app.edge
        /\ (app.reset => a.reset) /\ a.rcv > 0
    BY DEF SameStream
  <1>4. ~a.reset => Uint(p.seq - a.peer) = a.rcv
    BY <1>2, <1>3 DEF offset
  <1>5. /\ app'.peer = app.peer /\ app'.ack = app.ack /\ app'.edge = app.edge
        /\ app'.rcv = IF a.reset THEN a.rcv ELSE a.rcv + p.len + (IF p.fin THEN 1 ELSE 0)
    <2>1. /\ app'.peer = a.peer /\ app'.ack = a.ack /\ app'.edge = a.edge
          /\ app'.rcv = IF a.reset THEN a.rcv ELSE a.rcv + p.len + (IF p.fin THEN 1 ELSE 0)
      BY <1>3, <1>4, StreamReply
    <2> QED
      BY <1>3, <2>1
  <1>6. app'.rcv <= app'.edge
    <2>1. p.len \in Nat
      BY DEF Reply
    <2>2. a.rcv + p.len + (IF p.fin THEN 1 ELSE 0) <= offset + get_send_window
      BY <1>1, <1>2, <1>3, <2>1
    <2> QED
      BY <1>1, <1>2, <1>3, <1>5, <2>1, <2>2
  <1>7. Window'
    <2>1. /\ app.ack > 0 /\ acked_offset \in 1 .. app.ack
          /\ send_window + app.ack <= app.edge
      BY DEF WindowInv, Window
    <2>2. acked_offset' = acked_offset
      BY <1>5 DEF acked_offset
    <2> QED
      BY <1>5, <2>1, <2>2 DEF Window
  <1> QED
    BY <1>6, <1>7 DEF WindowInv, WithinWindow, NoFutureAck

\* The read half asks for no more than get_send_window, and for nothing with none left.
LEMMA WindowRead ==
  ASSUME Below, TypeOK, StreamInv, WindowInv, registered,
         UNCHANGED <<registered, acked, send_window>>,
         NEW st \in {state, "CLOSING"}, NEW r \in Seq32, NEW a \in AppType,
         SameStream(app, a), NEW fw, Read(st, r, a, fw), readable(st) => app.rcv > 0
  PROVE  WindowInv'
  <1>1. local_seq \in Seq32
    BY DEF TypeOK
  <1>2. ASSUME SameStream(app, app'), cause' # "future ACK", state' = st \/ closed'
        PROVE  WindowInv'
    <2>1. state' \in Reading => state' = state
      BY <1>2 DEF closed, Reading
    <2> QED
      BY <1>2, <2>1, WindowKept
  <1>3. cause # "future ACK"
    BY DEF WindowInv, NoFutureAck
  <1>4. ASSUME NEW why, write_rst(a, st, r, why), why # "future ACK"
        PROVE  WindowInv'
    <2>1. SameStream(a, app') /\ closed' /\ cause' # "future ACK"
      BY <1>4, RstStream DEF write_rst
    <2>2. SameStream(app, app')
      BY <2>1 DEF SameStream
    <2> QED
      BY <1>2, <2>1, <2>2
  <1>5. CASE NoRead(st, r, a)
    BY <1>2, <1>3, <1>5 DEF NoRead
  <1>6. ASSUME readable(st)
        PROVE  st = state /\ state \in Reading /\ app.rcv > 0 /\ get_send_window > 0
    BY <1>6 DEF readable, Reading
  <1>7. CASE readable(st) /\ ReadData(st, r, a)
    <2>1. PICK n \in 1 .. Mss, ok \in Outcomes("tun") :
            /\ n <= get_send_window
            /\ write_or_close(a, st, {"ACK"}, local_seq, r, n, ok)
      BY <1>7 DEF ReadData
    <2>2. n \in Nat /\ UNCHANGED cause
      BY <1>7, SessionAssumption DEF ReadData
    <2>3. CASE ok
      <3> DEFINE p == write_tcp({"ACK"}, local_seq, r, n)
      <3>1. p \in Reply /\ ~p.syn /\ ~p.rst /\ ~p.fin /\ p.len = n /\ p.seq = local_seq
        <4>1. p \in Reply
          BY <1>1, <2>2, WriteType
        <4> QED
          BY <4>1 DEF write_tcp
      <3>2. app' = Receive(a, p)
        BY <2>1, <2>3 DEF write_or_close
      <3> HIDE DEF p
      <3>3. p.len + (IF p.fin THEN 1 ELSE 0) <= get_send_window
        BY <2>1, <2>2, <3>1
      <3> QED
        BY <1>6, <1>7, <2>2, <3>1, <3>2, <3>3, WriteWindow
    <2>4. CASE ~ok
      BY <1>2, <1>3, <2>1, <2>2, <2>4 DEF write_or_close, closed
    <2> QED
      BY <2>3, <2>4
  <1>8. CASE readable(st) /\ ReadEof(st, r, a, fw)
    <2>1. CASE fw = <<>>
      <3> DEFINE next == IF st = "ESTABLISHED" THEN "FIN_WAIT1" ELSE "LAST_ACK"
      <3>1. PICK ok \in Outcomes("tun") :
              write_or_close(a, next, {"FIN", "ACK"}, local_seq, r, 0, ok)
        BY <1>8, <2>1 DEF ReadEof
      <3>2. UNCHANGED cause
        BY <1>8, <2>1 DEF ReadEof
      <3> HIDE DEF next
      <3>3. CASE ok
        <4> DEFINE p == write_tcp({"FIN", "ACK"}, local_seq, r, 0)
        <4>1. p \in Reply /\ ~p.syn /\ ~p.rst /\ p.fin /\ p.len = 0 /\ p.seq = local_seq
          <5>1. p \in Reply
            BY <1>1, WriteType
          <5> QED
            BY <5>1 DEF write_tcp
        <4>2. app' = Receive(a, p)
          BY <3>1, <3>3 DEF write_or_close
        <4> HIDE DEF p
        <4>3. p.len + (IF p.fin THEN 1 ELSE 0) <= get_send_window
          <5>1. get_send_window > 0 /\ get_send_window \in Int
            BY <1>6, <1>8, SendWindowType
          <5> QED
            BY <4>1, <5>1
        <4> QED
          BY <1>6, <1>8, <3>2, <4>1, <4>2, <4>3, WriteWindow
      <3>4. CASE ~ok
        BY <1>2, <1>3, <3>1, <3>2, <3>4 DEF write_or_close, closed
      <3> QED
        BY <3>3, <3>4
    <2>2. CASE fw # <<>>
      BY <1>4, <1>8, <2>2 DEF ReadEof
    <2> QED
      BY <2>1, <2>2
  <1>9. CASE readable(st) /\ ReadError(st, r, a)
    BY <1>4, <1>9 DEF ReadError
  <1> QED
    BY <1>5, <1>7, <1>8, <1>9 DEF Read

\* Every report for the socket.
LEMMA WindowEvent ==
  ASSUME Below, TypeOK, SocketInv, ConnectInv, StreamInv, WindowInv, check_tcp_socket
  PROVE  WindowInv'
  <1>1. registered /\ UNCHANGED <<registered, send_window>> /\ pending # {}
    BY DEF SocketInv, check_tcp_socket
  <1>2. remote_seq \in Seq32 /\ local_seq \in Seq32 /\ app \in AppType
    BY DEF TypeOK
  <1>3. ASSUME NEW why, write_rst(app, state, remote_seq, why), why # "future ACK",
               UNCHANGED acked
        PROVE  WindowInv'
    <2>1. SameStream(app, app') /\ closed' /\ cause' # "future ACK"
      BY <1>2, <1>3, RstStream DEF write_rst
    <2>2. state' \notin Reading
      BY <2>1 DEF closed, Reading
    <2> QED
      BY <1>1, <1>3, <2>1, <2>2, WindowKept
  <1>4. CASE SocketError
    BY <1>3, <1>4 DEF SocketError
  <1>5. CASE Connected
    <2>1. /\ UNCHANGED <<acked, cause>> /\ state' \notin Reading
      BY <1>5 DEF Connected, history, write_or_close, Reading
    <2>2. app'.edge = app.edge /\ (app'.rcv = app.rcv \/ app'.rcv = 1)
      <3>1. "OUT" \in pending
        BY <1>1, <1>5 DEF Connected, TypeOK
      <3>2. app.rcv = 0
        BY <1>5, <3>1 DEF ConnectInv, Writable, Waits, Overtaken, Connected
      <3>3. remote_seq' \in Seq32
        BY <1>2, <1>5, StepType DEF Connected
      <3> DEFINE p == write_tcp({"SYN", "ACK"}, local_seq, remote_seq', 0)
      <3>4. p \in Reply
        BY <1>2, <3>3, WriteType
      <3>5. p.syn /\ ~p.rst
        BY DEF write_tcp
      <3>6. app' = app \/ app' = Receive(app, p)
        BY <1>5 DEF Connected, write_or_close
      <3> HIDE DEF p
      <3>7. Receive(app, p).edge = app.edge
            /\ (Receive(app, p) = app \/ Receive(app, p).rcv = 1)
        BY <1>2, <3>2, <3>4, <3>5, SynReply
      <3> QED
        BY <3>6, <3>7
    <2>3. WithinWindow'
      BY <2>2 DEF WindowInv, WithinWindow
    <2>4. Window' /\ NoFutureAck'
      BY <2>1 DEF WindowInv, Window, NoFutureAck
    <2> QED
      BY <2>3, <2>4 DEF WindowInv
  <1>6. CASE ConnectReply
    <2>1. UNCHANGED acked
      BY <1>6 DEF ConnectReply
    <2>2. CASE state' = "SYN_RECV" /\ app' = app /\ cause' = cause
      BY <2>1, <2>2 DEF WindowInv, Window, WithinWindow, NoFutureAck, Reading
    <2>3. CASE write_rst(app, state, remote_seq, "CONNECT refused")
      BY <1>3, <2>1, <2>3
    <2> QED
      BY <1>6, <2>2, <2>3 DEF ConnectReply
  <1>7. CASE Transfer
    <2>1. PICK st, r, a, fw :
            /\ st \in {state, "CLOSING"} /\ r \in Seq32 /\ a \in AppType
            /\ SameStream(app, a) /\ Read(st, r, a, fw)
            /\ readable(st) => app.rcv > 0 /\ ~connecting
      BY <1>1, <1>7, TransferReads
    <2>2. UNCHANGED acked
      BY <1>7 DEF Transfer
    <2> QED
      BY <1>1, <2>1, <2>2, WindowRead
  <1> QED
    BY <1>4, <1>5, <1>6, <1>7 DEF check_tcp_socket

\* Rounds note no acknowledgement and no window.
LEMMA WindowRound ==
  ASSUME TypeOK, WindowInv, monitor_tcp_session \/ check_tcp_session
  PROVE  WindowInv'
  <1>1. UNCHANGED <<acked, send_window>>
    BY DEF monitor_tcp_session, check_tcp_session, seqs
  <1>2. local_seq \in Seq32 /\ remote_seq \in Seq32 /\ Uint(remote_seq - 1) \in Seq32
        /\ app \in AppType
    BY StepType DEF TypeOK
  <1>3. SameStream(app, app')
    <2>1. PICK p : p = write_tcp({"ACK"}, local_seq, Uint(remote_seq - 1), 0)
      OBVIOUS
    <2>2. PICK q : q = write_tcp({"RST"}, local_seq, remote_seq, 0)
      OBVIOUS
    <2>3. app' \in {app, Receive(app, p), Receive(app, q)}
      BY <2>1, <2>2 DEF monitor_tcp_session, check_tcp_session, Expire, CloseSocket, Delete,
        CheckNothing
    <2>4. SameStream(app, Receive(app, p)) /\ SameStream(app, Receive(app, q))
      BY <1>2, <2>1, <2>2, AckStream
    <2>5. SameStream(app, app)
      BY DEF SameStream
    <2> QED
      BY <2>3, <2>4, <2>5
  <1>4. registered' => registered /\ (state' \in Reading => state' = state)
    BY DEF monitor_tcp_session, check_tcp_session, Expire, CloseSocket, Delete, CheckNothing,
      Reading
  <1>5. cause' # "future ACK"
    BY DEF monitor_tcp_session, check_tcp_session, Expire, CloseSocket, Delete, CheckNothing,
      history, WindowInv, NoFutureAck
  <1> QED
    BY <1>1, <1>3, <1>4, <1>5, WindowKept

\* No window is open and nothing has been sent at the start.
LEMMA WindowInit == Init => WindowInv
  <1> SUFFICES ASSUME Init PROVE WindowInv
    OBVIOUS
  <1>1. app.rcv = 0
    BY DEF Init, AppInit
  <1>2. ~registered /\ cause = "none"
    BY DEF Init
  <1> QED
    BY <1>1, <1>2 DEF WindowInv, Window, WithinWindow, NoFutureAck

\* The invariant of the windows, from the stream's.
LEMMA WindowHolds ==
  ASSUME Below
  PROVE  Spec => []WindowInv
  <1>1. MaxDown + 2 < Wrap
    BY BelowHalf
  <1>2. TypeOK /\ SocketInv /\ ConnectInv /\ StreamInv /\ WindowInv /\ [Next]_vars
          => StreamInv' /\ WindowInv'
    <2> SUFFICES ASSUME TypeOK, SocketInv, ConnectInv, StreamInv, WindowInv, [Next]_vars
                 PROVE  StreamInv' /\ WindowInv'
      OBVIOUS
    <2>1. StreamInv'
      BY <1>1, StreamStep
    <2>2. CASE UNCHANGED vars
      BY <2>1, <2>2 DEF vars, link, seqs, history, WindowInv, Window, WithinWindow, NoFutureAck,
                        acked_offset
    <2>3. CASE Next
      BY <2>1, <2>3, WindowTun, WindowEvent, WindowRound DEF Next
    <2> QED
      BY <2>2, <2>3
  <1> QED
    BY <1>2, StreamInit, WindowInit, TypeCorrect, ConnectHolds, PTL DEF Spec

\* Below 0x80000000 the engine never writes past the window the app has advertised: what
\* write_data compares with compare_u32 it gets wrong across that boundary only.
THEOREM WindowAlways ==
  ASSUME Below
  PROVE  Spec => []WithinWindow
  <1>1. WindowInv => WithinWindow
    BY DEF WindowInv
  <1> QED
    BY <1>1, WindowHolds, PTL

\* Below 0x80000000 handle_tcp takes no acknowledgement of the app's for one of data the
\* engine has not sent, and so resets no session for it (run tcp_boundary shows that it
\* does across that boundary).
THEOREM AcksAlways ==
  ASSUME Below
  PROVE  Spec => []NoFutureAck
  <1>1. WindowInv => NoFutureAck
    BY DEF WindowInv
  <1> QED
    BY <1>1, WindowHolds, PTL
=============================================================================
