-------------------------- MODULE TcpSession_proofs --------------------------
(***************************************************************************)
(* What holds of TcpSession for every value of its constants.              *)
(***************************************************************************)
EXTENDS TcpSession, SequenceTheorems, WellFoundedInduction, TLAPS

-----------------------------------------------------------------------------
(* Lemmas about the operators. *)

\* Arithmetic modulo 2^32 stays within uint32_t.
LEMMA UintType ==
  ASSUME NEW x \in Int
  PROVE  Uint(x) \in Seq32
  BY HalfAssumption DEF Uint, Seq32, Wrap

\* Every sequence number is a natural number.
LEMMA Seq32Nat == \A x \in Seq32 : x \in Nat /\ x \in Int
  BY HalfAssumption DEF Seq32, Wrap

\* A non-empty set of natural numbers has a least element.
LEMMA LeastNatural ==
  ASSUME NEW T \in SUBSET Nat, T # {}
  PROVE  \E n \in T : \A m \in T : n <= m
  <1> DEFINE R == {ss \in Nat \X Nat : ss[1] < ss[2]}
  <1>1. IsWellFoundedOn(R, Nat)
    BY NatLessThanWellFounded, Zenon DEF OpToRel
  <1>2. PICK n \in T : \A m \in T : <<m, n>> \notin R
    <2> HIDE DEF R
    <2> QED
      BY <1>1, WFMin
  <1>3. \A m \in T : ~ (m < n)
    BY <1>2
  <1> QED
    BY <1>3

\* A place in the queue, or the one after its end.
LEMMA PositionType ==
  ASSUME NEW fw \in Seq(QueuedSegment), NEW seq
  PROVE  position(fw, seq) \in 1 .. Len(fw) + 1
  <1> DEFINE behind == {n \in 1 .. Len(fw) : compare_u32(fw[n].seq, seq) >= 0}
             T == behind \cup {Len(fw) + 1}
  <1>1. Len(fw) \in Nat
    OBVIOUS
  <1>2. T \subseteq 1 .. Len(fw) + 1
    BY <1>1
  <1>3. \E n \in T : \A m \in T : n <= m
    <2>1. T \in SUBSET Nat /\ T # {}
      BY <1>1, <1>2
    <2> HIDE DEF T
    <2> QED
      BY <2>1, LeastNatural
  <1> HIDE DEF T
  <1>4. position(fw, seq) = CHOOSE n \in T : \A m \in T : n <= m
    BY Zenon DEF position, T, behind
  <1> QED
    BY <1>2, <1>3, <1>4

\* queue_tcp keeps the queue a list of segments.
LEMMA QueueType ==
  ASSUME NEW fw \in Seq(QueuedSegment), NEW rseq, NEW p \in Packet
  PROVE  queue_tcp(fw, rseq, p) \in Seq(QueuedSegment)
  <1> DEFINE n == position(fw, p.seq)
             e == [seq |-> p.seq, len |-> p.len, sent |-> 0]
  <1>1. n \in 1 .. Len(fw) + 1
    BY PositionType
  <1>2. e \in QueuedSegment
    BY DEF QueuedSegment, Packet
  <1> HIDE DEF n, e
  <1>3. Len(fw) \in Nat /\ n \in Int /\ 1 \in Int /\ n - 1 \in Int
    BY <1>1
  <1>4. SubSeq(fw, 1, n - 1) \in Seq(QueuedSegment)
    <2>1. \A i \in 1 .. n - 1 : fw[i] \in QueuedSegment
      BY <1>1, <1>3, ElementOfSeq
    <2> QED
      BY <2>1, <1>3, SubSeqProperties
  <1>5. SubSeq(fw, n, Len(fw)) \in Seq(QueuedSegment)
    <2>1. \A i \in n .. Len(fw) : fw[i] \in QueuedSegment
      BY <1>1, <1>3, ElementOfSeq
    <2> QED
      BY <2>1, <1>3, SubSeqProperties
  <1>6. InsertAt(fw, n, e) \in Seq(QueuedSegment)
    BY <1>2, <1>4, <1>5 DEF InsertAt
  <1> QED
    BY <1>6 DEF queue_tcp, n, e

\* What the engine writes to tun is a packet.
LEMMA WriteType ==
  ASSUME NEW flags, NEW lseq \in Seq32, NEW rseq \in Seq32, NEW n \in Nat
  PROVE  write_tcp(flags, lseq, rseq, n) \in Reply
  BY HalfAssumption DEF write_tcp, Reply, Seq32, Wrap

\* The app stays well formed when it is sent a packet ...
LEMMA ReceiveType ==
  ASSUME NEW a \in AppType, NEW p \in Reply
  PROVE  Receive(a, p) \in AppType
  <1>1. p.ack_seq \in Int /\ a.isn \in Int /\ p.len \in Nat
    BY Seq32Nat DEF AppType, Reply
  <1> DEFINE confirmed == Uint(p.ack_seq - a.isn)
             end == a.rcv + p.len + (IF p.fin THEN 1 ELSE 0)
             expected == Uint(p.seq - a.peer) = a.rcv
             una == IF confirmed <= a.total + 2 THEN Larger(a.una, confirmed) ELSE a.una
             rcv == IF expected THEN end ELSE a.rcv
  <1>2. confirmed \in Nat
    BY <1>1, Seq32Nat, UintType
  <1> HIDE DEF confirmed, expected
  <1>3. una \in Nat
    BY <1>2 DEF Larger, AppType
  <1>4. rcv \in Nat
    BY <1>1 DEF AppType
  <1> HIDE DEF una, rcv
  <1>5. [a EXCEPT !.rcv = rcv, !.una = una] \in AppType
    BY <1>3, <1>4 DEF AppType
  <1>6. [a EXCEPT !.peer = p.seq, !.rcv = 1, !.una = 1] \in AppType
    BY DEF AppType, Reply
  <1>7. [a EXCEPT !.reset = TRUE] \in AppType
    BY DEF AppType
  <1> QED
    BY <1>5, <1>6, <1>7 DEF Receive, rcv, una, confirmed, expected

\* ... and when the engine reads one of its own.
LEMMA SentType ==
  ASSUME app \in AppType, NEW p \in Packet
  PROVE  Sent(p) \in AppType
  <1>1. /\ p.ack_seq \in Int /\ p.seq \in Int /\ app.isn \in Int /\ app.peer \in Int
        /\ p.len \in Nat /\ p.window \in Nat
    BY Seq32Nat DEF AppType, Packet
  <1> DEFINE a == Uint(p.ack_seq - app.peer)
             end == Uint(p.seq - app.isn) + p.len + (IF p.fin THEN 1 ELSE 0)
  <1>2. a \in Nat /\ Uint(p.seq - app.isn) \in Nat
    BY <1>1, Seq32Nat, UintType
  <1>3. end \in Nat
    BY <1>1, <1>2
  <1> HIDE DEF a, end
  <1>4. Larger(app.nxt, end) \in Nat /\ a + p.window \in Nat
    BY <1>1, <1>2, <1>3 DEF Larger, AppType
  <1>5. [app EXCEPT !.ack = a, !.edge = a + p.window, !.nxt = Larger(@, end)] \in AppType
    BY <1>2, <1>4 DEF AppType
  <1> QED
    BY <1>5 DEF Sent, a, end

\* Whatever the app may send next is a packet.
LEMMA AppPacketsType ==
  ASSUME app \in AppType, NEW p \in AppPackets
  PROVE  p \in Packet
  <1>1. CASE p \in Syns
    <2>1. PICK n \in SynData :
            p = [syn |-> TRUE, ack |-> FALSE, fin |-> FALSE, rst |-> FALSE,
                 seq |-> app.isn, ack_seq |-> 0, len |-> n, window |-> Buffer]
      BY <1>1 DEF Syns
    <2>2. n \in Nat /\ Buffer \in Nat /\ app.isn \in Seq32 /\ 0 \in Seq32
      BY AppAssumption, HalfAssumption DEF AppType, Seq32, Wrap
    <2> QED
      BY <2>1, <2>2 DEF Packet
  <1>2. ASSUME NEW o \in [from : Nat, len : Nat, fin : BOOLEAN, ack : Nat, window : Nat],
               NEW rst \in BOOLEAN
        PROVE  Segment(o, rst) \in Packet
    <2>1. app.isn \in Int /\ app.peer \in Int /\ o.from \in Int /\ o.ack \in Int
      BY Seq32Nat DEF AppType
    <2>2. Uint(app.isn + o.from) \in Seq32 /\ Uint(app.peer + o.ack) \in Seq32
      BY <2>1, UintType
    <2> QED
      BY <2>2 DEF Segment, Packet
  <1>3. CASE p \in Segments
    <2>1. PICK o \in Offers : p = Segment(o, FALSE)
      BY <1>3 DEF Segments
    <2>2. o \in [from : Nat, len : Nat, fin : BOOLEAN, ack : Nat, window : Nat]
      BY AppAssumption DEF Offers, AppType
    <2> QED
      BY <1>2, <2>1, <2>2
  <1>4. CASE p \in Resets
    <2>1. app.una \in Nat /\ app.rcv \in Nat
      BY DEF AppType
    <2> QED
      BY <1>2, <1>4, <2>1 DEF Resets
  <1> QED
    BY <1>1, <1>3, <1>4 DEF AppPackets

-----------------------------------------------------------------------------
(* Comparing sequence numbers. *)

\* The int a uint32_t becomes.
LEMMA Int32Value ==
  ASSUME NEW s \in Seq32
  PROVE  Int32(s) = IF s < Half THEN s ELSE s - Wrap
  BY HalfAssumption DEF Int32, Seq32, Wrap

\* compare_u32 orders two numbers the way RFC 1982 does as long as both lie on the same
\* side of 0x80000000 and less than 0x7FFFFFFF apart; run boundary shows that it does
\* not when they lie on either side of it.
THEOREM CompareWithinHalf ==
  ASSUME NEW s1 \in Seq32, NEW s2 \in Seq32,
         s1 < Half <=> s2 < Half,
         s1 - s2 < Half - 1, s2 - s1 < Half - 1
  PROVE  compare_u32(s1, s2) = compare_rfc1982(s1, s2)
  <1> DEFINE i1 == Int32(s1)
             i2 == Int32(s2)
  <1>1. s1 \in Int /\ s2 \in Int /\ i1 \in Int /\ i2 \in Int /\ i2 - i1 = s2 - s1
    BY HalfAssumption, Int32Value DEF Seq32, Wrap
  <1>2. Int32(i2 - i1) = s2 - s1 /\ Int32(i1 - i2) = s1 - s2
    BY <1>1, HalfAssumption DEF Int32, Wrap
  <1>3. compare_u32(s1, s2) = IF s1 = s2 THEN 0 ELSE IF s1 < s2 THEN -1 ELSE 1
    BY <1>1, <1>2, HalfAssumption DEF compare_u32
  <1>4. Uint(s2 - s1) = IF s1 <= s2 THEN s2 - s1 ELSE s2 - s1 + Wrap
    <2>1. CASE s1 <= s2
      BY <1>1, <2>1, HalfAssumption DEF Uint, Wrap
    <2>2. CASE s2 < s1
      BY <1>1, <2>2, HalfAssumption, SMTT(60) DEF Uint, Wrap
    <2> QED
      BY <1>1, <2>1, <2>2
  <1>5. s1 # s2 => (SerialLess(s1, s2) <=> s1 < s2)
    BY <1>1, <1>4, HalfAssumption DEF SerialLess, Wrap
  <1> QED
    BY <1>1, <1>3, <1>5 DEF compare_rfc1982

-----------------------------------------------------------------------------
(* Types. *)

\* A RST leaves a well-formed session, whatever its state.
LEMMA RstType ==
  ASSUME NEW a \in AppType, NEW st \in States, NEW rseq \in Seq32, NEW why \in Causes,
         TypeOK, write_rst(a, st, rseq, why)
  PROVE  app' \in AppType /\ state' \in States /\ remote_seq' \in Seq32 /\ cause' \in Causes
  <1>1. rseq + 1 \in Int
    BY Seq32Nat
  <1>2. remote_seq' \in Seq32
    BY <1>1, UintType DEF write_rst
  <1>3. ASSUME NEW flags
        PROVE  Receive(a, write_tcp(flags, local_seq, remote_seq', 0)) \in AppType
    BY <1>2, WriteType, ReceiveType DEF TypeOK
  <1>4. app' \in AppType
    BY <1>3 DEF write_rst
  <1> QED
    BY <1>2, <1>4 DEF write_rst, States

\* So does any other packet, written or not.
LEMMA WriteOrCloseType ==
  ASSUME NEW a \in AppType, NEW st \in States, NEW flags, NEW lseq \in Seq32,
         NEW rseq \in Seq32, NEW n \in Nat, NEW ok,
         write_or_close(a, st, flags, lseq, rseq, n, ok)
  PROVE  app' \in AppType /\ state' \in States
  <1>1. Receive(a, write_tcp(flags, lseq, rseq, n)) \in AppType
    BY WriteType, ReceiveType
  <1> QED
    BY <1>1 DEF write_or_close, States

\* A call succeeds or fails.
LEMMA OutcomeType == \A call : Outcomes(call) \subseteq BOOLEAN
  BY DEF Outcomes

\* A sequence number counted up or down by a whole number is one again.
LEMMA StepType ==
  ASSUME NEW s \in Seq32, NEW n \in Int
  PROVE  Uint(s + n) \in Seq32 /\ Uint(s - n) \in Seq32
  <1>1. s + n \in Int /\ s - n \in Int
    BY Seq32Nat
  <1> QED
    BY <1>1, UintType

\* The engine starts with no session.
LEMMA TypeInit == Init => TypeOK
  <1> SUFFICES ASSUME Init PROVE TypeOK
    OBVIOUS
  <1>1. 0 \in Seq32
    BY HalfAssumption DEF Seq32, Wrap
  <1>2. app \in AppType
    BY <1>1, AppAssumption DEF Init, AppInit, AppType
  <1>3. forward \in Seq(QueuedSegment)
    BY EmptySeq DEF Init
  <1> QED
    BY <1>1, <1>2, <1>3 DEF Init, TypeOK, States, Causes

\* A packet read from tun (handle_tcp) keeps the types ...
LEMMA TypeTun == TypeOK /\ check_tun => TypeOK'
  <1> SUFFICES ASSUME TypeOK, check_tun PROVE TypeOK'
    OBVIOUS
  <1>1. PICK p \in AppPackets : handle_tcp(p)
    BY DEF check_tun
  <1>2. phase' \in {"check", "dispatch"}
    BY DEF check_tun, TypeOK
  <1>3. p \in Packet
    BY AppPacketsType DEF TypeOK
  <1>4. Sent(p) \in AppType
    BY <1>3, SentType DEF TypeOK
  <1>5. /\ p.window \in Nat /\ p.len \in Nat /\ p.seq \in Seq32 /\ p.ack_seq \in Seq32
        /\ p.seq \in Int
    BY <1>3, Seq32Nat DEF Packet
  <1>6. \A rseq : queue_tcp(forward, rseq, p) \in Seq(QueuedSegment)
    BY <1>3, QueueType DEF TypeOK
  <1>7. \A why \in Causes :
          write_rst(Sent(p), state, remote_seq, why) =>
            /\ app' \in AppType /\ state' \in States
            /\ remote_seq' \in Seq32 /\ cause' \in Causes
    BY <1>4, RstType DEF TypeOK
  <1>8. Accept(p) =>
          /\ send_window' \in Nat /\ forward' \in Seq(QueuedSegment)
          /\ UNCHANGED <<registered, dest, socket, events, connect_sent, local_seq,
                         recv_window, pending, downstream>>
    BY <1>5, <1>6 DEF Accept, TypeOK, link
  <1>9. CASE NewSession(p)
    <2>1. CASE ~registered'
      BY <1>2, <1>9, <2>1, OutcomeType DEF NewSession, TypeOK, seqs, history
    <2>2. CASE registered'
      <3>1. 0 \in Seq32 /\ LocalIsns \subseteq Seq32 /\ Ports \subseteq Nat
        BY HalfAssumption, SessionAssumption DEF Seq32, Wrap
      <3>2. ASSUME p.len > 0
            PROVE  <<[seq |-> p.seq, len |-> p.len, sent |-> 0]>> \in Seq(QueuedSegment)
        BY <1>5 DEF QueuedSegment
      <3>3. forward' \in Seq(QueuedSegment)
        BY <1>9, <2>2, <3>2, EmptySeq DEF NewSession
      <3> QED
        BY <1>2, <1>4, <1>5, <1>9, <2>2, <3>1, <3>3 DEF NewSession, TypeOK, States, history
    <2> QED
      BY <2>1, <2>2
  <1>10. CASE UnknownSession(p)
    <2> DEFINE next == Uint(p.seq + p.len + (IF p.fin THEN 1 ELSE 0))
    <2>1. next \in Seq32
      BY <1>5, UintType
    <2> HIDE DEF next
    <2>2. Receive(Sent(p), write_tcp({"RST"}, p.ack_seq, next, 0)) \in AppType
      BY <1>4, <1>5, <2>1, WriteType, ReceiveType
    <2>3. app' \in AppType
      BY <1>4, <1>10, <2>2 DEF UnknownSession, next
    <2> QED
      BY <1>2, <1>10, <2>3 DEF UnknownSession, TypeOK, link, seqs, history
  <1>11. CASE ConnectPhase(p)
    <2>1. /\ app' \in AppType /\ state' \in States /\ remote_seq' \in Seq32
          /\ cause' \in Causes /\ connect_sent' \in {"NOT_SENT", "SENT", "ESTABLISHED"}
      BY <1>4, <1>7, <1>11 DEF ConnectPhase, SendConnect, TypeOK, States, Causes
    <2> QED
      BY <1>2, <1>6, <1>11, <2>1 DEF ConnectPhase, TypeOK, link
  <1>12. CASE WasClosed(p)
    BY <1>2, <1>7, <1>12 DEF WasClosed, TypeOK, link, Causes
  <1>13. CASE DataRefused(p)
    BY <1>2, <1>5, <1>7, <1>13 DEF DataRefused, TypeOK, link, Causes
  <1>14. CASE ReceiveRst(p)
    BY <1>2, <1>4, <1>8, <1>14 DEF ReceiveRst, TypeOK, States
  <1>15. CASE RepeatedSyn(p)
    BY <1>2, <1>4, <1>8, <1>15 DEF RepeatedSyn, TypeOK
  <1>16. CASE ReceiveFin(p)
    <2>1. Uint(remote_seq + 1) \in Seq32
      BY StepType DEF TypeOK
    <2>2. ASSUME NEW st \in {"CLOSE", "CLOSE_WAIT"}, NEW ok, NEW r \in Seq32,
                 write_or_close(Sent(p), st, {"ACK"}, local_seq, r, 0, ok)
          PROVE  app' \in AppType /\ state' \in States
      BY <1>4, <2>2, WriteOrCloseType DEF TypeOK, States
    <2>3. app' \in AppType /\ state' \in States /\ remote_seq' \in Seq32
      BY <1>4, <1>16, <2>1, <2>2 DEF ReceiveFin, TypeOK, States
    <2> QED
      BY <1>2, <1>8, <1>16, <2>3 DEF ReceiveFin, TypeOK
  <1>17. CASE ReceiveAck(p)
    BY <1>2, <1>4, <1>5, <1>8, <1>17 DEF ReceiveAck, TypeOK, States
  <1>18. CASE PreviousAck(p)
    BY <1>2, <1>4, <1>5, <1>8, <1>18 DEF PreviousAck, TypeOK
  <1>19. CASE FutureAck(p)
    BY <1>2, <1>7, <1>8, <1>19 DEF FutureAck, TypeOK, Causes
  <1> QED
    BY <1>1, <1>9, <1>10, <1>11, <1>12, <1>13, <1>14, <1>15, <1>16, <1>17, <1>18, <1>19
       DEF handle_tcp

\* How far the forwarding loop gets, and what the socket takes meanwhile.
LEMMA ChoiceParts ==
  ASSUME NEW c \in ForwardChoices
  PROVE  /\ c.whole \in 0 .. Len(forward) /\ c.part \in 0 .. MaxSeg /\ sendable(c.whole)
         /\ c.part > 0 => /\ c.whole < Len(forward) /\ sendable(c.whole + 1)
                          /\ c.part < forward[c.whole + 1].len - forward[c.whole + 1].sent
         /\ c.took \in Taken(c)
  <1>1. PICK d \in Advances :
          \E t \in Taken(d) : c = [whole |-> d.whole, part |-> d.part, took |-> t]
    BY DEF ForwardChoices
  <1>2. c.whole = d.whole /\ c.part = d.part /\ c.took \in Taken(d)
    BY <1>1
  <1>3. Taken(c) = Taken(d)
    BY <1>2 DEF Taken
  <1> QED
    BY <1>2, <1>3 DEF Advances

\* The segments that are left and the number the loop has reached.
LEMMA ForwardingType ==
  ASSUME TypeOK, NEW c \in ForwardChoices \cup {NoForward}
  PROVE  Forwarding(c).queue \in Seq(QueuedSegment) /\ Forwarding(c).seq \in Seq32
  <1>1. Len(forward) \in Nat /\ forward \in Seq(QueuedSegment)
    BY DEF TypeOK
  <1>2. /\ c.whole \in 0 .. Len(forward) /\ c.part \in Nat
        /\ c.part > 0 => c.whole < Len(forward)
    BY <1>1, AppAssumption, ChoiceParts DEF NoForward
  <1> DEFINE rest == SubSeq(forward, c.whole + 1, Len(forward))
  <1>3. rest \in Seq(QueuedSegment) /\ (c.part > 0 => Len(rest) > 0)
    <2>1. \A i \in c.whole + 1 .. Len(forward) : forward[i] \in QueuedSegment
      BY <1>1, <1>2, ElementOfSeq
    <2>2. c.whole + 1 \in Int /\ Len(forward) \in Int
      BY <1>1, <1>2
    <2> QED
      BY <1>2, <2>1, <2>2, SubSeqProperties
  <1>4. Forwarding(c).seq \in Seq32
    <2>1. ASSUME c.whole # 0
          PROVE  Uint(forward[c.whole].seq + forward[c.whole].len) \in Seq32
      <3>1. c.whole \in 1 .. Len(forward)
        BY <1>1, <1>2, <2>1
      <3>2. forward[c.whole] \in QueuedSegment
        BY <1>1, <3>1, ElementOfSeq
      <3>3. forward[c.whole].seq \in Seq32 /\ forward[c.whole].len \in Int
        BY <3>2 DEF QueuedSegment
      <3> QED
        BY <3>3, StepType
    <2>2. reached(c.whole) \in Seq32
      BY <2>1 DEF reached, TypeOK
    <2>3. Uint(reached(c.whole) + c.part) \in Seq32
      BY <1>2, <2>2, StepType
    <2> QED
      BY <2>3 DEF Forwarding
  <1>5. ASSUME c.part # 0
        PROVE  [rest EXCEPT ![1].sent = @ + c.part] \in Seq(QueuedSegment)
    <2> HIDE DEF rest
    <2>1. 1 \in 1 .. Len(rest)
      BY <1>2, <1>3, <1>5
    <2>2. rest[1] \in QueuedSegment
      BY <1>3, <2>1, ElementOfSeq
    <2>3. [rest[1] EXCEPT !.sent = @ + c.part] \in QueuedSegment
      BY <1>2, <2>2 DEF QueuedSegment
    <2> QED
      BY <1>3, <2>1, <2>3, ExceptSeq
  <1>6. Forwarding(c).queue = IF c.part = 0 THEN rest
                              ELSE [rest EXCEPT ![1].sent = @ + c.part]
    BY DEF Forwarding
  <1> QED
    BY <1>3, <1>4, <1>5, <1>6

\* What the read half leaves behind.
LEMMA ReadType ==
  ASSUME TypeOK, NEW st \in States, NEW r \in Seq32, NEW a \in AppType, NEW fw,
         Read(st, r, a, fw)
  PROVE  /\ app' \in AppType /\ state' \in States /\ socket' \in BOOLEAN
         /\ local_seq' \in Seq32 /\ remote_seq' \in Seq32 /\ downstream' \in Nat
         /\ cause' \in Causes
  <1> USE DEF TypeOK
  <1>1. CASE NoRead(st, r, a)
    BY <1>1 DEF NoRead
  <1>2. CASE ReadData(st, r, a)
    <2>1. PICK n \in 1 .. Mss, ok \in Outcomes("tun") :
            /\ write_or_close(a, st, {"ACK"}, local_seq, r, n, ok)
            /\ local_seq' = IF ok THEN Uint(local_seq + n) ELSE local_seq
            /\ downstream' = downstream + n
      BY <1>2 DEF ReadData
    <2>2. n \in Nat /\ n \in Int
      BY SessionAssumption
    <2>3. app' \in AppType /\ state' \in States
      BY <2>1, <2>2, WriteOrCloseType
    <2>4. Uint(local_seq + n) \in Seq32
      BY <2>2, StepType
    <2> QED
      BY <1>2, <2>1, <2>2, <2>3, <2>4 DEF ReadData
  <1>3. CASE ReadEof(st, r, a, fw)
    <2>1. CASE fw = <<>>
      <3>1. ASSUME NEW next \in {"FIN_WAIT1", "LAST_ACK"}, NEW ok,
                   write_or_close(a, next, {"FIN", "ACK"}, local_seq, r, 0, ok)
            PROVE  app' \in AppType /\ state' \in States
        BY <3>1, WriteOrCloseType DEF States
      <3>2. Uint(local_seq + 1) \in Seq32
        BY StepType
      <3> QED
        BY <1>3, <2>1, <3>1, <3>2 DEF ReadEof
    <2>2. CASE fw # <<>>
      <3>1. write_rst(a, st, r, "close with queue")
        BY <1>3, <2>2 DEF ReadEof
      <3>2. app' \in AppType /\ state' \in States /\ remote_seq' \in Seq32 /\ cause' \in Causes
        BY <3>1, RstType DEF Causes
      <3> QED
        BY <1>3, <2>2, <3>2 DEF ReadEof
    <2> QED
      BY <2>1, <2>2
  <1>4. CASE ReadError(st, r, a)
    <2>1. app' \in AppType /\ state' \in States /\ remote_seq' \in Seq32 /\ cause' \in Causes
      BY <1>4, RstType DEF ReadError, Causes
    <2> QED
      BY <1>4, <2>1 DEF ReadError
  <1> QED
    BY <1>1, <1>2, <1>3, <1>4 DEF Read

\* ... as do what epoll_wait reports (check_tcp_socket) ...
LEMMA TypeEvent == TypeOK /\ check_tcp_socket => TypeOK'
  <1> SUFFICES ASSUME TypeOK, check_tcp_socket PROVE TypeOK'
    OBVIOUS
  <1>1. /\ phase' \in {"check", "dispatch"} /\ registered' \in BOOLEAN /\ dest' \in Ports \cup {0}
        /\ events' \subseteq {"IN", "OUT"} /\ pending' \subseteq {"IN", "OUT", "ERR"}
        /\ send_window' \in Nat
    BY DEF check_tcp_socket, TypeOK
  <1>2. \A why \in Causes :
          write_rst(app, state, remote_seq, why) =>
            /\ app' \in AppType /\ state' \in States
            /\ remote_seq' \in Seq32 /\ cause' \in Causes
    BY RstType DEF TypeOK
  <1>3. CASE SocketError
    BY <1>1, <1>2, <1>3 DEF SocketError, TypeOK, Causes
  <1>4. CASE Connected
    <2>1. Uint(remote_seq + 1) \in Seq32 /\ Uint(local_seq + 1) \in Seq32
      BY StepType DEF TypeOK
    <2>2. ASSUME NEW ok,
                 write_or_close(app, "SYN_RECV", {"SYN", "ACK"}, local_seq,
                                Uint(remote_seq + 1), 0, ok)
          PROVE  app' \in AppType /\ state' \in States
      BY <2>1, <2>2, WriteOrCloseType DEF TypeOK, States
    <2>3. app' \in AppType /\ state' \in States /\ local_seq' \in Seq32
      BY <1>4, <2>1, <2>2 DEF Connected, TypeOK
    <2> QED
      BY <1>1, <1>4, <2>1, <2>3 DEF Connected, TypeOK, history
  <1>5. CASE ConnectReply
    <2>1. /\ app' \in AppType /\ state' \in States /\ remote_seq' \in Seq32
          /\ cause' \in Causes /\ connect_sent' \in {"NOT_SENT", "SENT", "ESTABLISHED"}
      BY <1>2, <1>5 DEF ConnectReply, TypeOK, States, Causes
    <2> QED
      BY <1>1, <1>5, <2>1 DEF ConnectReply, TypeOK
  <1>6. CASE Transfer
    <2>1. PICK c \in ForwardChoices \cup {NoForward}, window \in {0, 1},
               ok \in Outcomes("tun") :
            ForwardAndRead(c, window, ok)
      BY <1>6 DEF Transfer
    <2> DEFINE f == Forwarding(c)
    <2>2. f.queue \in Seq(QueuedSegment) /\ f.seq \in Seq32 /\ Uint(f.seq + 1) \in Seq32
      BY ForwardingType, StepType
    <2> HIDE DEF f
    <2>3. PICK st \in {state, "CLOSING"}, r \in {f.seq, Uint(f.seq + 1)}, heard \in BOOLEAN :
            /\ Read(st, r, IF heard THEN Receive(app, write_tcp({"ACK"}, local_seq, r, 0))
                           ELSE app, f.queue)
            /\ forward' = f.queue
            /\ recv_window' = window
      BY <2>1 DEF ForwardAndRead, f
    <2> DEFINE a == IF heard THEN Receive(app, write_tcp({"ACK"}, local_seq, r, 0)) ELSE app
    <2>4. st \in States /\ r \in Seq32
      BY <2>2 DEF TypeOK, States
    <2>5. a \in AppType
      BY <2>4, WriteType, ReceiveType DEF TypeOK
    <2> HIDE DEF a
    <2>6. Read(st, r, a, f.queue)
      BY <2>3 DEF a
    <2>7. /\ app' \in AppType /\ state' \in States /\ socket' \in BOOLEAN
          /\ local_seq' \in Seq32 /\ remote_seq' \in Seq32 /\ downstream' \in Nat
          /\ cause' \in Causes
      BY <2>4, <2>5, <2>6, ReadType
    <2> QED
      BY <1>1, <1>6, <2>2, <2>3, <2>7 DEF Transfer, TypeOK
  <1> QED
    BY <1>3, <1>4, <1>5, <1>6 DEF check_tcp_socket

\* ... the choice of events to wait for (monitor_tcp_session) ...
LEMMA TypeMonitor == TypeOK /\ monitor_tcp_session => TypeOK'
  <1> SUFFICES ASSUME TypeOK, monitor_tcp_session PROVE TypeOK'
    OBVIOUS
  <1>1. Uint(remote_seq - 1) \in Seq32
    BY StepType DEF TypeOK
  <1>2. Receive(app, write_tcp({"ACK"}, local_seq, Uint(remote_seq - 1), 0)) \in AppType
    BY <1>1, WriteType, ReceiveType DEF TypeOK
  <1>3. app' \in AppType /\ state' \in States /\ events' \subseteq {"IN", "OUT"}
    BY <1>2, ZenonT(60) DEF monitor_tcp_session, TypeOK, States
  <1> QED
    BY <1>3 DEF monitor_tcp_session, TypeOK, seqs, history

\* ... and timeouts, closing and deletion (check_tcp_session).
LEMMA TypeCheck == TypeOK /\ check_tcp_session => TypeOK'
  <1> SUFFICES ASSUME TypeOK, check_tcp_session PROVE TypeOK'
    OBVIOUS
  <1>1. Receive(app, write_tcp({"RST"}, local_seq, remote_seq, 0)) \in AppType
    BY WriteType, ReceiveType DEF TypeOK
  <1>2. /\ app' \in AppType /\ state' \in States /\ socket' \in BOOLEAN
        /\ registered' \in BOOLEAN /\ cause' \in Causes
    BY <1>1 DEF check_tcp_session, Expire, CloseSocket, Delete, CheckNothing, TypeOK,
                States, Causes
  <1>3. phase' \in {"check", "dispatch"} /\ pending' \subseteq {"IN", "OUT", "ERR"}
    BY DEF check_tcp_session, TypeOK
  <1> QED
    BY <1>2, <1>3 DEF check_tcp_session, TypeOK, seqs

\* Every variable of a session keeps its type through all of the operations: sequence
\* arithmetic wraps at 2^32 and the queue stays a list of segments.
THEOREM TypeCorrect == Spec => []TypeOK
  <1>1. TypeOK /\ [Next]_vars => TypeOK'
    <2> SUFFICES ASSUME TypeOK, [Next]_vars PROVE TypeOK'
      OBVIOUS
    <2>1. CASE UNCHANGED vars
      BY <2>1 DEF vars, link, seqs, history, TypeOK
    <2> QED
      BY <2>1, TypeTun, TypeEvent, TypeMonitor, TypeCheck DEF Next
  <1> QED
    BY <1>1, TypeInit, PTL DEF Spec

-----------------------------------------------------------------------------
(* The socket. *)

Open == {"LISTEN", "SYN_RECV", "ESTABLISHED", "CLOSE_WAIT"}

SocketInv ==
  /\ state \in States
  /\ registered => (state \in Open => socket)
  /\ registered => (state \in {"FIN_WAIT1", "LAST_ACK", "CLOSE"} => ~socket)
  /\ pending # {} => registered /\ socket
  /\ phase = "check" => pending = {}

\* No session holds a socket at the start.
LEMMA SocketInit == Init => SocketInv
  BY DEF Init, SocketInv, States, Open

\* handle_tcp opens a socket with the session and never closes one ...
LEMMA SocketTun == SocketInv /\ check_tun => SocketInv'
  <1> SUFFICES ASSUME SocketInv, check_tun PROVE SocketInv'
    OBVIOUS
  <1>1. PICK p \in AppPackets : handle_tcp(p)
    BY DEF check_tun
  <1> USE DEF SocketInv, States, Open
  <1>2. UNCHANGED phase
    BY DEF check_tun
  <1>3. CASE NewSession(p)
    BY <1>2, <1>3 DEF NewSession, history
  <1>4. CASE UnknownSession(p)
    BY <1>2, <1>4 DEF UnknownSession, link
  <1>5. CASE ConnectPhase(p)
    BY <1>2, <1>5 DEF ConnectPhase, SendConnect, write_rst, link
  <1>6. CASE WasClosed(p)
    BY <1>2, <1>6 DEF WasClosed, write_rst, link, closed
  <1>7. CASE DataRefused(p)
    BY <1>2, <1>7 DEF DataRefused, write_rst, link, closed
  <1>8. CASE ReceiveRst(p)
    BY <1>2, <1>8 DEF ReceiveRst, Accept, link
  <1>9. CASE RepeatedSyn(p)
    BY <1>2, <1>9 DEF RepeatedSyn, Accept, link
  <1>10. CASE ReceiveFin(p)
    BY <1>2, <1>10 DEF ReceiveFin, Accept, link, confirmable, write_or_close
  <1>11. CASE ReceiveAck(p)
    BY <1>2, <1>11 DEF ReceiveAck, Accept, link
  <1>12. CASE PreviousAck(p)
    BY <1>2, <1>12 DEF PreviousAck, Accept, link
  <1>13. CASE FutureAck(p)
    BY <1>2, <1>13 DEF FutureAck, Accept, link, write_rst, closed
  <1> QED
    BY <1>1, <1>3, <1>4, <1>5, <1>6, <1>7, <1>8, <1>9, <1>10, <1>11, <1>12, <1>13
       DEF handle_tcp

\* ... check_tcp_socket closes it as it leaves ESTABLISHED or CLOSE_WAIT ...
LEMMA SocketEvent == SocketInv /\ check_tcp_socket => SocketInv'
  <1> SUFFICES ASSUME SocketInv, check_tcp_socket PROVE SocketInv'
    OBVIOUS
  <1>1. registered /\ socket /\ pending' = {} /\ UNCHANGED <<phase, registered>>
    BY DEF SocketInv, check_tcp_socket
  <1> USE DEF SocketInv, States, Open
  <1>2. CASE SocketError
    BY <1>1, <1>2 DEF SocketError, write_rst
  <1>3. CASE Connected
    BY <1>1, <1>3 DEF Connected, write_or_close
  <1>4. CASE ConnectReply
    BY <1>1, <1>4 DEF ConnectReply, answered, write_rst
  <1>5. CASE Transfer
    <2>1. PICK c, window, ok : ForwardAndRead(c, window, ok)
      BY <1>5 DEF Transfer
    <2> PICK st, r, a, fw : st \in {state, "CLOSING"} /\ Read(st, r, a, fw)
      BY <2>1 DEF ForwardAndRead
    <2>2. CASE NoRead(st, r, a)
      BY <1>1, <2>2 DEF NoRead
    <2>3. CASE readable(st) /\ ReadData(st, r, a)
      BY <1>1, <2>3 DEF readable, ReadData, write_or_close
    <2>4. CASE readable(st) /\ ReadEof(st, r, a, fw)
      BY <1>1, <2>4 DEF readable, ReadEof, write_or_close, write_rst
    <2>5. CASE readable(st) /\ ReadError(st, r, a)
      BY <1>1, <2>5 DEF readable, ReadError, write_rst
    <2> QED
      BY <2>2, <2>3, <2>4, <2>5 DEF Read
  <1> QED
    BY <1>2, <1>3, <1>4, <1>5 DEF check_tcp_socket

\* ... monitor_tcp_session leaves it alone ...
LEMMA SocketMonitor == SocketInv /\ monitor_tcp_session => SocketInv'
  BY DEF SocketInv, States, Open, monitor_tcp_session

\* ... and check_tcp_session closes it before the session is CLOSE.
LEMMA SocketCheck == SocketInv /\ check_tcp_session => SocketInv'
  BY DEF SocketInv, States, Open, check_tcp_session, Expire, CloseSocket, Delete,
         CheckNothing, closed

\* A session keeps its socket as long as it relays and has given it back by the time
\* it is freed, whatever fails and in whatever order events and packets come.
THEOREM SocketHolds == Spec => []SocketHeld
  <1>1. SocketInv /\ [Next]_vars => SocketInv'
    <2> SUFFICES ASSUME SocketInv, [Next]_vars PROVE SocketInv'
      OBVIOUS
    <2>1. CASE UNCHANGED vars
      BY <2>1 DEF vars, link, SocketInv
    <2> QED
      BY <2>1, SocketTun, SocketEvent, SocketMonitor, SocketCheck DEF Next
  <1>2. SocketInv => SocketHeld
    BY DEF SocketInv, SocketHeld, Open
  <1> QED
    BY <1>1, <1>2, SocketInit, PTL DEF Spec
-----------------------------------------------------------------------------
(* Closed sessions. *)

Revived == registered /\ registered' /\ closed /\ ~closed'

\* Writing a RST leaves a closed session closed.
LEMMA RstCloses ==
  ASSUME NEW a, NEW st, NEW rseq, NEW why, write_rst(a, st, rseq, why)
  PROVE  closed'
  BY DEF write_rst, closed

LEMMA RevivedByTun ==
  check_tun /\ Revived => connect_sent = "NOT_SENT" /\ connect_sent' = "SENT"
  <1> SUFFICES ASSUME check_tun, Revived
               PROVE  connect_sent = "NOT_SENT" /\ connect_sent' = "SENT"
    OBVIOUS
  <1>1. PICK p \in AppPackets : handle_tcp(p)
    BY DEF check_tun
  <1>2. ~NewSession(p) /\ ~UnknownSession(p)
    BY DEF Revived, NewSession, UnknownSession
  <1>3. ~WasClosed(p)
    BY RstCloses DEF Revived, WasClosed
  <1>4. ~DataRefused(p) /\ ~Accept(p)
    BY DEF Revived, DataRefused, Accept
  <1>5. ConnectPhase(p)
    BY <1>1, <1>2, <1>3, <1>4 DEF handle_tcp, ReceiveRst, RepeatedSyn, ReceiveFin,
       ReceiveAck, PreviousAck, FutureAck
  <1>6. ~write_rst(Sent(p), state, remote_seq, "CONNECT") /\ state # state'
    BY RstCloses DEF Revived, closed
  <1> QED
    BY <1>5, <1>6 DEF ConnectPhase, SendConnect

LEMMA NotRevivedByEvent == check_tcp_socket => ~Revived
  <1> SUFFICES ASSUME check_tcp_socket, Revived PROVE FALSE
    OBVIOUS
  <1>1. /\ ~SocketError
        /\ \A a, st, rseq, why : ~write_rst(a, st, rseq, why)
    BY RstCloses DEF Revived, SocketError
  <1>2. ~Connected
    BY DEF Revived, closed, Connected
  <1>3. ~ConnectReply
    BY DEF Revived, closed, ConnectReply, answered
  <1>4. Transfer
    BY <1>1, <1>2, <1>3 DEF check_tcp_socket
  <1>5. PICK st, r, a, fw : st \in {state, "CLOSING"} /\ Read(st, r, a, fw)
    <2>1. PICK c, window, ok : ForwardAndRead(c, window, ok)
      BY <1>4 DEF Transfer
    <2> QED
      BY <2>1 DEF ForwardAndRead
  <1>6. NoRead(st, r, a)
    BY <1>5 DEF Revived, closed, Read, readable
  <1> QED
    BY <1>5, <1>6 DEF Revived, closed, NoRead

LEMMA NotRevivedByRound == monitor_tcp_session \/ check_tcp_session => ~Revived
  BY DEF Revived, closed, monitor_tcp_session, check_tcp_session, Expire, CloseSocket,
         Delete, CheckNothing

\* A closing session is never used again: no event, packet or timeout takes it back to
\* an open state, except the CONNECT that handle_tcp sends without a look at it.
THEOREM ClosedStays == Spec => ClosedStaysClosed
  <1>1. [Next]_vars => [Revived => connect_sent = "NOT_SENT" /\ connect_sent' = "SENT"]_vars
    BY RevivedByTun, NotRevivedByEvent, NotRevivedByRound DEF Next
  <1> QED
    BY <1>1, PTL DEF Spec, ClosedStaysClosed, Revived
=============================================================================
