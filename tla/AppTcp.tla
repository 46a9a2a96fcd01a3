------------------------------- MODULE AppTcp -------------------------------
(***************************************************************************)
(* The app's end of one TCP connection: the kernel of the phone, which     *)
(* writes packets the tun device hands to the engine and receives what the *)
(* engine writes back.  It is not part of the repository; it is the        *)
(* environment of TcpSession.  Positions are offsets from the app's        *)
(* initial sequence number: 0 is its SYN, 1 .. total its bytes and         *)
(* total + 1 its FIN.                                                      *)
(*                                                                         *)
(* The next packet the engine reads is any segment of the app's stream: a  *)
(* new one, a retransmission, which may have been in the tun queue before  *)
(* the acknowledgement was written, and, if the queue drops packets        *)
(* (Lossy), one that leaves a gap.  The app never acknowledges or sends    *)
(* what it does not have, takes back an acknowledgement or shrinks its     *)
(* window.                                                                 *)
(***************************************************************************)
EXTENDS SeqNum, FiniteSets

CONSTANTS AppIsns,   \* initial sequence numbers the app may pick
          Totals,    \* how many bytes the app may have to send
          MaxSeg,    \* the longest segment, in bytes
          SynData,   \* lengths of data a SYN may carry
          Buffer,    \* the app's receive buffer, in bytes
          Lossy      \* packets may get lost between the app and the engine

ASSUME AppAssumption ==
  /\ AppIsns \subseteq Seq32
  /\ Totals \subseteq Nat
  /\ SynData \subseteq Nat
  /\ MaxSeg \in Nat
  /\ Buffer \in Nat
  /\ Lossy \in BOOLEAN

VARIABLE app

\* A packet read from tun and one written to it.  The engine's window is left out of
\* its replies: the app sends what it has, whatever the window.
Packet ==
  [syn : BOOLEAN, ack : BOOLEAN, fin : BOOLEAN, rst : BOOLEAN,
   seq : Seq32, ack_seq : Seq32, len : Nat, window : Nat]
Reply ==
  [syn : BOOLEAN, ack : BOOLEAN, fin : BOOLEAN, rst : BOOLEAN,
   seq : Seq32, ack_seq : Seq32, len : Nat]

AppType ==
  [isn : Seq32, peer : Seq32, total : Nat, una : Nat, nxt : Nat, rcv : Nat,
   ack : Nat, edge : Nat, reset : BOOLEAN]

AppInit ==
  \E i \in AppIsns, n \in Totals :
    app = [isn |-> i, total |-> n, peer |-> 0,
           una |-> 0,       \* everything below it has been acknowledged
           nxt |-> 1,       \* nothing from it on has reached the engine
           rcv |-> 0,       \* the next offset it expects from the engine
           ack |-> 0,       \* the acknowledgement its last packet carried
           edge |-> 0,      \* the highest offset its window has allowed
           reset |-> FALSE]

Syns ==
  {[syn |-> TRUE, ack |-> FALSE, fin |-> FALSE, rst |-> FALSE, seq |-> app.isn,
    ack_seq |-> 0, len |-> n, window |-> Buffer] : n \in SynData}

\* A segment at offset o.from, acknowledging up to offset o.ack.
Segment(o, rst) ==
  [syn |-> FALSE, ack |-> TRUE, fin |-> o.fin, rst |-> rst,
   seq |-> Uint(app.isn + o.from), ack_seq |-> Uint(app.peer + o.ack),
   len |-> o.len, window |-> o.window]

\* Data, FINs and bare acknowledgements; a bare acknowledgement carries the next
\* number to send, which is past the FIN once the app has closed.
Offers ==
  {o \in [from : 1 .. app.total + 2, len : 0 .. MaxSeg, fin : BOOLEAN,
          ack : app.ack .. app.rcv, window : 0 .. Buffer] :
     /\ o.ack > 0
     /\ Lossy \/ o.from <= app.nxt
     /\ o.from + o.len <= app.total + (IF o.len = 0 /\ ~o.fin THEN 2 ELSE 1)
     /\ o.fin => o.from + o.len = app.total + 1
     /\ o.ack + o.window >= app.edge}

Segments == {Segment(o, FALSE) : o \in Offers}

Resets ==
  {Segment([from |-> app.una, len |-> 0, fin |-> FALSE, ack |-> app.rcv,
            window |-> 0], TRUE)}

\* What the engine may read from tun next.  The tun device is a queue, so a SYN
\* cannot follow an acknowledgement; it can follow the engine's SYN-ACK.
AppPackets ==
  (IF app.ack = 0 /\ ~app.reset THEN Syns ELSE {})
  \cup (IF app.rcv > 0 THEN Segments \cup Resets ELSE {})

Larger(x, y) == IF x > y THEN x ELSE y

\* The app after the engine has read packet p from it.
Sent(p) ==
  IF ~p.ack \/ p.rst THEN app
  ELSE LET a == Uint(p.ack_seq - app.peer)
           end == Uint(p.seq - app.isn) + p.len + (IF p.fin THEN 1 ELSE 0)
       IN  [app EXCEPT !.ack = a, !.edge = a + p.window, !.nxt = Larger(@, end)]

\* The app after packet p has been written to tun.
Receive(a, p) ==
  IF a.reset THEN a
  ELSE IF p.rst THEN [a EXCEPT !.reset = TRUE]
  ELSE IF p.syn
  THEN IF a.rcv = 0 THEN [a EXCEPT !.peer = p.seq, !.rcv = 1, !.una = 1] ELSE a
  ELSE IF a.rcv = 0 THEN a
  ELSE LET confirmed == Uint(p.ack_seq - a.isn)
       IN  [a EXCEPT
             !.rcv = IF Uint(p.seq - a.peer) = @
                     THEN @ + p.len + (IF p.fin THEN 1 ELSE 0) ELSE @,
             !.una = IF confirmed <= a.total + 2 THEN Larger(@, confirmed) ELSE @]
=============================================================================
