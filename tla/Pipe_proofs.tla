---------------------------- MODULE Pipe_proofs ----------------------------
(***************************************************************************)
(* A pair of tunnels implements BytePipe, for every size of the sockets'   *)
(* buffers, of GL_BUFFER, of the CONNECT and of what the peers send.       *)
(***************************************************************************)
EXTENDS Tunnel_proofs

-----------------------------------------------------------------------------
(* Numbered bytes. *)

\* The first n bytes of a peer.
first(n) == [i \in 1 .. n |-> i]

\* They are a sequence.
LEMMA FirstType ==
  ASSUME NEW n \in Nat
  PROVE  first(n) \in Seq(Nat) /\ Len(first(n)) = n /\ \A i \in 1 .. n : first(n)[i] = i
  BY DEF first

\* What stands in s behind p are the first bytes of n.
Behind(p, s, n) ==
  LET g == SubSeq(s, Len(p) + 1, Len(s))
  IN  /\ Len(g) \in 0 .. n /\ g = first(Len(g))
      /\ Len(g) = IF Len(s) > Len(p) THEN Len(s) - Len(p) ELSE 0

\* It is so if s begins what p begins and the bytes continue.
LEMMA FirstBytes ==
  ASSUME NEW p \in Seq(Nat), NEW s \in Seq(Nat), NEW w \in Seq(Nat), NEW n \in Nat,
         s \o w = p \o first(n)
  PROVE  Behind(p, s, n)
  <1> DEFINE g == SubSeq(s, Len(p) + 1, Len(s))
             m == IF Len(s) > Len(p) THEN Len(s) - Len(p) ELSE 0
  <1>1. first(n) \in Seq(Nat) /\ Len(first(n)) = n /\ \A i \in 1 .. n : first(n)[i] = i
    BY FirstType
  <1>2. Len(s) \in Nat /\ Len(p) \in Nat /\ Len(w) \in Nat
    BY LenProperties
  <1>3. Len(s) + Len(w) = Len(p) + n
    <2>1. Len(s \o w) = Len(s) + Len(w)
      OBVIOUS
    <2>2. PICK x \in Seq(Nat) : x = first(n) /\ Len(x) = n
      BY <1>1
    <2>3. Len(p \o x) = Len(p) + Len(x)
      OBVIOUS
    <2> QED
      BY <2>1, <2>2, <2>3
  <1>4. m \in 0 .. n
    BY <1>2, <1>3
  <1>5. g \in Seq(Nat) /\ Len(g) = m
    BY <1>2
  <1>6. \A i \in 1 .. m : g[i] = i
    <2> TAKE i \in 1 .. m
    <2>1. g[i] = s[Len(p) + i] /\ Len(p) + i \in 1 .. Len(s) /\ i \in 1 .. n
      BY <1>2, <1>3
    <2>2. (s \o w)[Len(p) + i] = s[Len(p) + i]
      BY <1>2, <2>1
    <2>3. (p \o first(n))[Len(p) + i] = first(n)[i]
      BY <1>1, <1>2, <2>1
    <2> QED
      BY <1>1, <2>1, <2>2, <2>3
  <1>7. first(m) \in Seq(Nat) /\ Len(first(m)) = m /\ \A i \in 1 .. m : first(m)[i] = i
    <2>1. m \in Nat
      BY <1>4
    <2> HIDE DEF m
    <2> QED
      BY <2>1, FirstType
  <1>8. g = first(m)
    BY <1>5, <1>6, <1>7, SeqEqual
  <1> QED
    BY <1>4, <1>5, <1>8 DEF Behind

\* A longer beginning is a shorter one and the bytes between.
LEMMA NextBytes ==
  ASSUME NEW n \in Nat, NEW k \in 0 .. n, NEW m \in 0 .. k
  PROVE  first(k) = first(m) \o SubSeq(first(n), m + 1, k)
  <1> DEFINE x == SubSeq(first(n), m + 1, k)
  <1>1. first(n) \in Seq(Nat) /\ Len(first(n)) = n /\ \A i \in 1 .. n : first(n)[i] = i
    BY FirstType
  <1>2. first(k) \in Seq(Nat) /\ Len(first(k)) = k /\ \A i \in 1 .. k : first(k)[i] = i
    BY FirstType
  <1>3. first(m) \in Seq(Nat) /\ Len(first(m)) = m /\ \A i \in 1 .. m : first(m)[i] = i
    BY FirstType
  <1>4. x \in Seq(Nat) /\ Len(x) = k - m
    BY <1>1
  <1>5. \A i \in 1 .. k - m : x[i] = m + i
    BY <1>1, <1>4
  <1>6. first(m) \o x \in Seq(Nat) /\ Len(first(m) \o x) = k
    BY <1>3, <1>4
  <1>7. \A i \in 1 .. k : (first(m) \o x)[i] = i
    <2> TAKE i \in 1 .. k
    <2> HIDE DEF x
    <2>1. CASE i \in 1 .. m
      <3>1. (first(m) \o x)[i] = first(m)[i]
        BY <1>3, <1>4, <2>1
      <3> QED
        BY <1>3, <2>1, <3>1
    <2>2. CASE i \in m + 1 .. k
      <3>1. i - m \in 1 .. k - m /\ m + (i - m) = i
        BY <2>2
      <3>2. (first(m) \o x)[i] = x[i - m]
        BY <1>3, <1>4, <2>2
      <3> QED
        BY <1>5, <3>1, <3>2
    <2>3. i \in 1 .. m \/ i \in m + 1 .. k
      OBVIOUS
    <2> QED
      BY <2>1, <2>2, <2>3, Zenon
  <1> HIDE DEF x
  <1>8. first(k) = first(m) \o x
    BY <1>2, <1>6, <1>7, SeqEqual
  <1> QED
    BY <1>8 DEF x

-----------------------------------------------------------------------------
(* What the peers have been given. *)

\* What is written to a socket before the bytes of the other peer.
head(b) == IF b = "remote" THEN CONNECT ELSE <<>>

given == [t \in Tunnels |-> payload(t)]

\* What a peer has been given is what its socket has got behind the head.
LEMMA PayloadIs ==
  ASSUME NEW b \in Tunnels
  PROVE  /\ head(b) \in Seq(Nat)
         /\ payload(b) = SubSeq(out[b], Len(head(b)) + 1, Len(out[b]))
         /\ payload(b)' = SubSeq(out'[b], Len(head(b)) + 1, Len(out'[b]))
  <1>1. head(b) \in Seq(Nat) /\ Len(<<>>) = 0
    BY Texts DEF head
  <1> QED
    BY <1>1 DEF payload, head

\* Nothing is behind the head of a socket that has been given no byte of a peer.
LEMMA GivenNone ==
  ASSUME NEW b \in Tunnels, NEW o \in Seq(Nat), Len(o) <= Len(head(b))
  PROVE  SubSeq(o, Len(head(b)) + 1, Len(o)) = <<>>
  <1>1. Len(head(b)) \in Nat /\ Len(o) \in Nat
    BY PayloadIs, LenProperties
  <1> QED
    BY <1>1

\* The bytes between two connections that are established, before a step.
LEMMA OnTheWay ==
  ASSUME TypeOK, ByteInv, open = "yes", connected, NEW t \in Tunnels,
         established \/ t = "local"
  PROVE  /\ brother(t) \in Tunnels /\ sent[t] \in Nat
         /\ out[brother(t)] \in Seq(Nat)
         /\ (out[brother(t)] \o remain[brother(t)]) \o inbox[t]
              = head(brother(t)) \o first(sent[t])
  <1>1. brother(t) \in Tunnels /\ sent[t] \in Nat /\ out[brother(t)] \in Seq(Nat)
    BY DEF brother, Tunnels, TypeOK
  <1>2. Sent(t) = first(sent[t])
    BY DEF Sent, first
  <1>3. CASE t = "local"
    BY <1>1, <1>2, <1>3 DEF ByteInv, NothingLost, head, brother
  <1>4. CASE t = "remote"
    BY <1>1, <1>2, <1>4 DEF ByteInv, NothingLost, head, brother
  <1> QED
    BY <1>1, <1>3, <1>4 DEF Tunnels

\* The CONNECT has no byte of a peer.
LEMMA NoneAmongZeros ==
  ASSUME NEW o \in Seq(Nat), NEW k \in Nat, Range(o) \subseteq {0},
         SubSeq(o, k + 1, Len(o)) = first(Len(SubSeq(o, k + 1, Len(o))))
  PROVE  SubSeq(o, k + 1, Len(o)) = <<>>
  <1> DEFINE g == SubSeq(o, k + 1, Len(o))
  <1>1. Len(o) \in Nat /\ g \in Seq(Nat) /\ Len(g) \in Nat
    OBVIOUS
  <1>2. SUFFICES ASSUME Len(g) # 0 PROVE FALSE
    <2> HIDE DEF g
    <2> SUFFICES ASSUME Len(g) = 0 PROVE g = <<>>
      BY <1>1 DEF g
    <2> QED
      BY <1>1
  <1>3. k + 1 \in 1 .. Len(o) /\ g[1] = o[k + 1]
    BY <1>1, <1>2
  <1>4. g[1] = 1
    <2>1. g = first(Len(g))
      OBVIOUS
    <2> HIDE DEF g
    <2>2. Len(g) \in Nat /\ 1 \in 1 .. Len(g)
      BY <1>1, <1>2
    <2>3. first(Len(g))[1] = 1
      BY <2>2, FirstType
    <2> QED
      BY <2>1, <2>3, Zenon
  <1>5. o[k + 1] \in Range(o)
    BY <1>1, <1>3 DEF Range
  <1> QED
    BY <1>3, <1>4, <1>5

\* A step has only moved bytes of t to the other socket, where w is what is still on its way.
Moved(t, w) ==
  /\ UNCHANGED <<established, sent>>
  /\ out'[brother(t)] \o w = (out[brother(t)] \o remain[brother(t)]) \o inbox[t]
  /\ Len(out[brother(t)]) <= Len(out'[brother(t)]) /\ out'[t] = out[t]

\* It carries them.
LEMMA Carries ==
  ASSUME TypeOK, TypeOK', ByteInv, Apart', open = "yes", connected,
         NEW t \in Tunnels, established \/ t = "local",
         NEW w \in Seq(Nat), Moved(t, w)
  PROVE  Pipe!Carry(t)
  <1> DEFINE b == brother(t)
             count == sent[t]
             x0 == SubSeq(out[b], Len(head(b)) + 1, Len(out[b]))
             x1 == SubSeq(out'[b], Len(head(b)) + 1, Len(out'[b]))
  <1>1. b \in Tunnels /\ b # t /\ \A u \in Tunnels : u = t \/ u = b
    BY DEF brother, Tunnels
  <1>2. /\ count \in Nat /\ out[b] \in Seq(Nat)
        /\ (out[b] \o remain[b]) \o inbox[t] = head(b) \o first(count)
    BY OnTheWay
  <1>3. out'[b] \in Seq(Nat) /\ remain[b] \in Seq(Nat) /\ inbox[t] \in Seq(Nat)
    BY <1>1 DEF TypeOK
  <1>4. out[b] \o (remain[b] \o inbox[t]) = head(b) \o first(count)
        /\ remain[b] \o inbox[t] \in Seq(Nat)
    <2>1. ASSUME NEW x \in Seq(Nat), NEW y \in Seq(Nat), NEW z \in Seq(Nat)
          PROVE  (x \o y) \o z = x \o (y \o z) /\ y \o z \in Seq(Nat)
      BY Associative
    <2> QED
      BY <1>2, <1>3, <2>1, Zenon
  <1>5. head(b) \in Seq(Nat) /\ payload(b) = x0 /\ payload(b)' = x1
        /\ payload(t)' = payload(t)
    <2>1. payload(t)' = payload(t)
      BY PayloadIs DEF Moved
    <2> QED
      BY <1>1, <2>1, PayloadIs
  <1>6. /\ Len(x0) \in 0 .. count /\ x0 = first(Len(x0))
        /\ Len(x0) = IF Len(out[b]) > Len(head(b)) THEN Len(out[b]) - Len(head(b)) ELSE 0
    <2>1. \A o \in Seq(Nat), v \in Seq(Nat), n \in Nat :
            o \o v = head(b) \o first(n) => Behind(head(b), o, n)
      BY <1>5, FirstBytes
    <2>2. Behind(head(b), out[b], count)
      BY <1>2, <1>4, <2>1, Zenon
    <2> QED
      BY <2>2 DEF Behind
  <1>7. /\ Len(x1) \in 0 .. count /\ x1 = first(Len(x1))
        /\ Len(x1) = IF Len(out'[b]) > Len(head(b)) THEN Len(out'[b]) - Len(head(b)) ELSE 0
    <2>1. \A o \in Seq(Nat), v \in Seq(Nat), n \in Nat :
            o \o v = head(b) \o first(n) => Behind(head(b), o, n)
      BY <1>5, FirstBytes
    <2>2. out'[b] \o w = head(b) \o first(count)
      BY <1>2 DEF Moved
    <2>3. Behind(head(b), out'[b], count)
      BY <1>2, <1>3, <2>1, <2>2, Zenon
    <2> QED
      BY <2>3 DEF Behind
  <1>8. Len(x0) <= Len(x1)
    <2>1. Len(out[b]) \in Nat /\ Len(out'[b]) \in Nat /\ Len(head(b)) \in Nat
      BY <1>2, <1>3, <1>5, LenProperties
    <2> QED
      BY <1>6, <1>7, <2>1 DEF Moved
  <1>9. CASE ~established
    <2>1. b = "remote" /\ Range(out[b]) \subseteq {0} /\ Range(out'[b]) \subseteq {0}
      BY <1>9 DEF ByteInv, Apart, Tunnels, brother, Moved
    <2>2. x0 = <<>> /\ x1 = <<>>
      <3>1. Len(head(b)) \in Nat
        BY <1>5, LenProperties
      <3> QED
        BY <1>2, <1>3, <1>6, <1>7, <2>1, <3>1, NoneAmongZeros
    <2>3. given' = given
      BY <1>1, <1>5, <2>2 DEF given
    <2> QED
      BY <2>3 DEF Pipe!Carry, given
  <1>10. CASE established
    <2>1. x1 = x0 \o SubSeq(first(count), Len(x0) + 1, Len(x1))
      <3> HIDE DEF x0, x1, count
      <3>1. Len(x1) \in 0 .. count /\ Len(x0) \in 0 .. Len(x1)
        BY <1>2, <1>6, <1>7, <1>8
      <3>2. first(Len(x1)) = first(Len(x0)) \o SubSeq(first(count), Len(x0) + 1, Len(x1))
        BY <1>2, <3>1, NextBytes
      <3> QED
        BY <1>6, <1>7, <3>2
    <2>2. relay = "established"
      BY <1>10 DEF relay, connected
    <2>3. given[b] = x0 /\ given' = [given EXCEPT ![b] = x1]
      BY <1>1, <1>5 DEF given
    <2>4. Len(x1) \in Len(given[b]) .. sent[t]
      BY <1>2, <1>6, <1>7, <1>8, <2>3
    <2>5. given' = [given EXCEPT ![b] = @ \o SubSeq(first(count), Len(given[b]) + 1, Len(x1))]
      BY <2>1, <2>3
    <2> HIDE DEF b, x1, x0
    <2>6. \E k \in Len(given[b]) .. sent[t] :
            given' = [given EXCEPT ![b] = @ \o SubSeq(first(count), Len(given[b]) + 1, k)]
      BY <2>4, <2>5
    <2> QED
      BY <2>2, <2>6 DEF Moved, b, Pipe!Carry, Pipe!undelivered, Pipe!stream, given, first
  <1> QED
    BY <1>9, <1>10

\* Two sequences of bytes make one.
LEMMA Joined == \A s, u \in Seq(Nat) : s \o u \in Seq(Nat)
  OBVIOUS

\* What is on its way from t is s and then l.
Following(t, s, l) == s \o l = remain[brother(t)] \o inbox[t]

\* What goes out of s to the other socket, or does not, has only moved.
LEMMA SendMoves ==
  ASSUME TypeOK, NEW t \in Tunnels, NEW s \in Seq(Nat), NEW l \in Seq(Nat),
         Following(t, s, l), UNCHANGED <<established, sent>>,
         Send(brother(t), s) \/ UNCHANGED out
  PROVE  \E w \in Seq(Nat) : Moved(t, w)
  <1> DEFINE b == brother(t)
  <1>1. b \in Tunnels /\ b # t
    BY DEF brother, Tunnels
  <1>2. \A p \in Seq(Nat) : (p \o s) \o l = p \o (s \o l)
    BY Associative, Zenon
  <1>3. PICK o \in Seq(Nat), m \in Seq(Nat), i \in Seq(Nat) :
               o = out[b] /\ m = remain[b] /\ i = inbox[t]
    BY <1>1 DEF TypeOK
  <1>4. (o \o m) \o i = o \o (s \o l)
    <2>1. (o \o m) \o i = o \o (m \o i)
      BY Associative, Zenon
    <2> QED
      BY <1>3, <2>1 DEF Following
  <1>5. CASE Send(b, s)
    <2>1. PICK r \in Seq(Nat), a \in Seq(Nat) :
                 r = rest(b, s) /\ a = SubSeq(s, 1, accepted(b, s))
      BY <1>1, WriteSplits
    <2>2. out'[b] = o \o a /\ (o \o a) \o r = o \o s /\ out'[t] = out[t]
      BY <1>1, <1>3, <1>5, <2>1, SendRange, SendInOrder
    <2>3. r \o l \in Seq(Nat) /\ Len(o) <= Len(o \o a)
      OBVIOUS
    <2>4. (o \o a) \o (r \o l) = o \o (s \o l)
      <3>1. PICK x \in Seq(Nat) : x = o \o a
        BY Joined, Zenon
      <3>2. (x \o r) \o l = x \o (r \o l)
        BY Associative, Zenon
      <3>3. (o \o s) \o l = o \o (s \o l)
        BY <1>2, Zenon
      <3> QED
        BY <2>2, <3>1, <3>2, <3>3, Zenon
    <2>5. (o \o a) \o (r \o l) = (o \o m) \o i
      BY <1>4, <2>4, Zenon
    <2> QED
      BY <1>3, <2>2, <2>3, <2>5 DEF Moved
  <1>6. CASE UNCHANGED out
    <2>1. s \o l \in Seq(Nat)
      BY Joined, Zenon
    <2>2. Len(o) <= Len(o)
      BY LenProperties
    <2> QED
      BY <1>3, <1>4, <1>6, <2>1, <2>2 DEF Moved
  <1> QED
    BY <1>5, <1>6

-----------------------------------------------------------------------------
(* Steps. *)

\* A step that the peers see.
PipeStep == [Pipe!PipeNext]_(Pipe!pipeVars)

\* A step that changes nothing of what the peers see.
LEMMA Stutters ==
  ASSUME UNCHANGED <<relay, cause, sent, given>>
  PROVE  PipeStep
  BY DEF PipeStep, Pipe!pipeVars, given

\* The relay opens.
LEMMA Opens ==
  ASSUME relay \in {"no", "connecting"}, relay' \in {"connecting", "established"},
         UNCHANGED <<cause, sent, given>>
  PROVE  PipeStep
  BY DEF PipeStep, Pipe!pipeVars, Pipe!PipeNext, Pipe!Open, given

\* It gives up.
LEMMA Aborts ==
  ASSUME open # "disposed", open' = "disposed", cause' \notin Tunnels, UNCHANGED sent,
         NEW t \in Tunnels, Pipe!Carry(t)
  PROVE  PipeStep
  <1>1. relay # "closed" /\ relay' = "closed"
    BY DEF relay
  <1> QED
    BY <1>1 DEF PipeStep, Pipe!PipeNext, Pipe!Abort

\* Nothing is carried if nothing is written.
LEMMA NothingCarried ==
  ASSUME UNCHANGED out
  PROVE  UNCHANGED given /\ \A t \in Tunnels : Pipe!Carry(t)
  <1>1. UNCHANGED given
    BY DEF given, payload
  <1> QED
    BY <1>1 DEF given, Pipe!Carry

\* A handler that has only moved bytes delivers them, or gives up with them on the way.
LEMMA Passes ==
  ASSUME TypeOK, TypeOK', ByteInv, Apart', open = "yes", connected,
         NEW t \in Tunnels, established \/ t = "local",
         NEW s \in Seq(Nat), NEW l \in Seq(Nat), Following(t, s, l),
         UNCHANGED <<established, sent>>, Send(brother(t), s) \/ UNCHANGED out,
         \/ open' = open /\ cause' = cause /\ connected'
         \/ \E why \in {"write", "cancelled key"} : dispose(why)
  PROVE  PipeStep
  <1>1. Pipe!Carry(t)
    <2>1. PICK w \in Seq(Nat) : Moved(t, w)
      BY SendMoves
    <2> QED
      BY <2>1, Carries
  <1>2. CASE open' = open /\ cause' = cause /\ connected'
    <2>1. UNCHANGED <<relay, cause, sent>>
      BY <1>2 DEF relay
    <2> QED
      BY <1>1, <2>1 DEF PipeStep, Pipe!PipeNext, Pipe!Deliver
  <1>3. CASE \E why \in {"write", "cancelled key"} : dispose(why)
    <2>1. open' = "disposed" /\ cause' \notin Tunnels
      BY <1>3 DEF dispose, Tunnels
    <2> QED
      BY <1>1, <2>1, Aborts
  <1> QED
    BY <1>2, <1>3

\* The end of a connection is passed on when all before it has been delivered.
LEMMA Closes ==
  ASSUME TypeOK, EndDelivered', open = "yes", NEW t \in Tunnels, dispose(t),
         UNCHANGED <<sent, out>>
  PROVE  PipeStep
  <1> DEFINE b == brother(t)
  <1>1. b \in Tunnels /\ head(b) \in Seq(Nat) /\ Sent(t) \in Seq(Nat)
    BY PayloadIs, Texts DEF brother, Tunnels
  <1>2. out[b] = head(b) \o Sent(t)
    <2>1. cause' = t /\ out' = out /\ Sent(t)' = Sent(t)
      BY DEF dispose, Sent
    <2>2. CASE t = "local"
      BY <2>1, <2>2 DEF EndDelivered, head, brother, Sent
    <2>3. CASE t = "remote"
      <3>1. out[b] = Sent(t) /\ head(b) = <<>>
        BY <2>1, <2>3 DEF EndDelivered, head, brother, Sent
      <3> QED
        BY <1>1, <3>1, ConcatEmptySeq
    <2> QED
      BY <2>2, <2>3 DEF Tunnels
  <1>3. given[b] = Sent(t)
    <2>1. \A p \in Seq(Nat), s \in Seq(Nat) : SubSeq(p \o s, Len(p) + 1, Len(p \o s)) = s
      <3> TAKE p \in Seq(Nat), s \in Seq(Nat)
      <3>1. Len(p \o s) = Len(p) + Len(s) /\ p \o s \in Seq(Nat)
        OBVIOUS
      <3>2. /\ SubSeq(p \o s, Len(p) + 1, Len(p \o s)) \in Seq(Nat)
            /\ Len(SubSeq(p \o s, Len(p) + 1, Len(p \o s))) = Len(s)
            /\ \A i \in 1 .. Len(s) : SubSeq(p \o s, Len(p) + 1, Len(p \o s))[i] = s[i]
        BY <3>1
      <3> QED
        BY <3>2, SeqEqual
    <2>2. SubSeq(out[b], Len(head(b)) + 1, Len(out[b])) = Sent(t)
      BY <1>1, <1>2, <2>1
    <2> QED
      BY <1>1, <2>2, PayloadIs DEF given
  <1>4. relay # "closed" /\ relay' = "closed" /\ cause' = t
    BY DEF relay, dispose
  <1>5. UNCHANGED given
    BY NothingCarried
  <1> QED
    BY <1>3, <1>4, <1>5
       DEF PipeStep, Pipe!PipeNext, Pipe!Close, Pipe!stream, Sent, given

\* Establishing the tunnel opens the relay.
LEMMA Establishes ==
  ASSUME open = "yes", ~(connected /\ established), Establish,
         UNCHANGED <<open, cause, sent, out>>
  PROVE  PipeStep
  <1>1. relay = "connecting" /\ relay' = "established"
    BY DEF relay, connected, Establish, Tunnels
  <1>2. UNCHANGED given
    BY NothingCarried
  <1> QED
    BY <1>1, <1>2, Opens

\* The accept opens it, or refuses it.
LEMMA AcceptedStep ==
  ASSUME TypeOK, onAccepted
  PROVE  PipeStep
  <1>1. open = "no" /\ relay = "no" /\ UNCHANGED <<sent, out>>
    BY DEF onAccepted, Accept, peers, sockets, relay
  <1>2. UNCHANGED given /\ \A t \in Tunnels : Pipe!Carry(t)
    BY <1>1, NothingCarried
  <1>3. CASE open' = "yes" /\ interest' = [interest EXCEPT !["remote"] = {"CONNECT"}]
             /\ UNCHANGED cause
    <2>1. relay' = "connecting"
      BY <1>3 DEF relay, connected, TypeOK, Tunnels
    <2> QED
      BY <1>1, <1>2, <1>3, <2>1, Opens
  <1>4. CASE open' = "disposed" /\ cause' = "refused"
    <2>1. "local" \in Tunnels /\ cause' \notin Tunnels
      BY <1>4 DEF Tunnels
    <2> QED
      BY <1>1, <1>2, <1>4, <2>1, Aborts
  <1> QED
    BY <1>3, <1>4 DEF onAccepted, Accept

\* What onReadable does the peers may see.
LEMMA ReadableStep ==
  ASSUME TypeOK, TypeOK', KeyInv, ByteInv, ByteInv', NEW t \in Tunnels, onReadable(t),
         interest[t] # {}, "READ" \in selected[t]
  PROVE  PipeStep
  <1> DEFINE chunk == SubSeq(inbox[t], 1, chunk_max(t))
             left == SubSeq(inbox[t], chunk_max(t) + 1, Len(inbox[t]))
             b == brother(t)
  <1>1. /\ open = "yes" /\ connected /\ remain[b] = <<>> /\ UNCHANGED sent
        /\ "CONNECT" \notin interest["remote"]
    BY ReadingKey DEF connected, onReadable, peers
  <1>2. CASE dispose(t) /\ UNCHANGED <<established, peers, buffered, out>>
    BY <1>1, <1>2, Closes DEF ByteInv
  <1>3. CASE ~established /\ Establish /\ UNCHANGED <<sockets, open, cause>>
    BY <1>1, <1>3, Establishes DEF sockets
  <1>4. CASE dispose("refused") /\ UNCHANGED <<established, buffered, out>>
    <2>1. open # "disposed" /\ open' = "disposed" /\ cause' \notin Tunnels
      BY <1>1, <1>4 DEF dispose, Tunnels
    <2> QED
      BY <1>1, <1>4, <2>1, NothingCarried, Aborts
  <1>5. CASE (t = "local" \/ established) /\ Forward(t, chunk) /\ UNCHANGED established
    <2>1. chunk \in Seq(Nat) /\ left \in Seq(Nat) /\ chunk \o left = remain[b] \o inbox[t]
      <3>1. inbox[t] \in Seq(Nat)
        BY DEF TypeOK
      <3>2. <<>> \o inbox[t] = inbox[t]
        BY <3>1, ConcatEmptySeq
      <3> QED
        BY <1>1, <3>2, ReadSplits
    <2>2. Send(b, chunk) \/ UNCHANGED out
      BY <1>5 DEF Forward
    <2>3. \/ open' = open /\ cause' = cause /\ connected'
          \/ \E why \in {"write", "cancelled key"} : dispose(why)
      <3>1. b \in Tunnels
        BY DEF brother, Tunnels
      <3>2. CASE UNCHANGED <<interest, open, cause>>
        BY <1>1, <3>2 DEF connected
      <3>3. CASE /\ interest' = [watched(b) EXCEPT ![t] = IF t \in cancelled' THEN {} ELSE @]
                 /\ UNCHANGED <<open, cause>>
        BY <1>1, <3>1, <3>3 DEF connected, watched, TypeOK, Tunnels
      <3> QED
        BY <1>5, <3>2, <3>3 DEF Forward
    <2> HIDE DEF chunk, left, b
    <2> QED
      BY <1>1, <1>5, <2>1, <2>2, <2>3, Passes DEF b, ByteInv, Following
  <1> QED
    BY <1>2, <1>3, <1>4, <1>5 DEF onReadable

\* What onWritable does: the bytes that waited for room are the brother's.
LEMMA WritableStep ==
  ASSUME TypeOK, TypeOK', KeyInv, ByteInv, ByteInv', NEW t \in Tunnels, onWritable(t),
         interest[t] # {}, "WRITE" \in selected[t]
  PROVE  PipeStep
  <1> DEFINE b == brother(t)
  <1>1. b \in Tunnels /\ brother(b) = t /\ \A u \in Tunnels : u = t \/ u = b
    BY DEF brother, Tunnels
  <1>2. /\ open = "yes" /\ interest[t] = {"WRITE"} /\ interest[b] = {}
        /\ ~established => t = "remote"
    BY WritingKey
  <1>3. connected
    BY <1>1, <1>2 DEF connected, Tunnels
  <1>4. established \/ b = "local"
    BY <1>2 DEF brother
  <1>5. remain[t] \in Seq(Nat) /\ inbox[b] \in Seq(Nat)
    BY <1>1 DEF TypeOK
  <1>6. UNCHANGED <<established, sent>> /\ (Send(t, remain[t]) \/ UNCHANGED out)
    BY DEF onWritable, peers
  <1>7. \/ open' = open /\ cause' = cause /\ connected'
        \/ \E why \in {"write", "cancelled key"} : dispose(why)
    <2> DEFINE next == IF t = "local" \/ established THEN b ELSE t
    <2>1. CASE UNCHANGED <<interest, open, cause>>
      BY <1>3, <2>1 DEF connected
    <2>2. CASE /\ interest' = [interest EXCEPT ![t] = {}, ![next] = {"READ"}]
               /\ UNCHANGED <<open, cause>>
      <3>1. next \in Tunnels
        BY <1>1
      <3> HIDE DEF next
      <3>2. \A u \in Tunnels : "CONNECT" \notin interest'[u]
        BY <1>1, <1>2, <2>2, <3>1 DEF TypeOK
      <3> QED
        BY <1>3, <2>2, <3>2 DEF connected, Tunnels
    <2> QED
      BY <2>1, <2>2 DEF onWritable
  <1> HIDE DEF b
  <1> QED
    BY <1>1, <1>2, <1>3, <1>4, <1>5, <1>6, <1>7, Passes DEF ByteInv, Following

\* What onConnectable does: the CONNECT is not for the peers.
LEMMA ConnectableStep ==
  ASSUME TypeOK, TypeOK', KeyInv, ByteInv, NEW t \in Tunnels, onConnectable,
         interest[t] # {}, "CONNECT" \in selected[t]
  PROVE  PipeStep
  <1>1. open = "yes" /\ "CONNECT" \in interest["remote"] /\ ~connected
    BY DEF KeyInv, Connecting, Unopened, Tunnels, connected
  <1>2. UNCHANGED sent /\ \A u \in Tunnels : out[u] = <<>>
    BY <1>1 DEF onConnectable, peers, ByteInv, Opening
  <1>3. CASE Establish /\ UNCHANGED <<sockets, open, cause>>
    BY <1>1, <1>2, <1>3, Establishes DEF sockets
  <1>4. CASE /\ Http
             /\ Send("remote", CONNECT)
             /\ UNCHANGED <<established, open, cause>>
    <2>1. relay = "connecting" /\ relay' \in {"connecting", "established"}
      BY <1>1, <1>4 DEF relay
    <2>2. out'["local"] = out["local"] /\ Len(out'["remote"]) <= Len(CONNECT)
      <3>1. "remote" \in Tunnels /\ "local" \in Tunnels /\ CONNECT \in Seq(Nat)
        BY Texts DEF Tunnels
      <3>2. PICK r \in Seq(Nat), a \in Seq(Nat) :
                   r = rest("remote", CONNECT) /\ a \o r = CONNECT
                   /\ a = SubSeq(CONNECT, 1, accepted("remote", CONNECT))
        BY <3>1, WriteSplits
      <3>3. out'["remote"] = <<>> \o a /\ out'["local"] = out["local"]
        BY <1>2, <1>4, <3>1, <3>2, SendRange
      <3>4. <<>> \o a = a /\ Len(a) <= Len(a \o r)
        OBVIOUS
      <3> QED
        BY <3>2, <3>3, <3>4
    <2>3. UNCHANGED given
      <3>1. out["remote"] \in Seq(Nat) /\ out'["remote"] \in Seq(Nat)
            /\ Len(out["remote"]) <= Len(CONNECT)
        <4>1. Len(CONNECT) \in Nat /\ Len(<<>>) = 0
          BY Texts, LenProperties
        <4> QED
          BY <1>2, <4>1 DEF TypeOK, Tunnels
      <3>2. head("remote") = CONNECT
        BY DEF head
      <3>3. payload("remote") = <<>> /\ payload("remote")' = <<>>
        BY <2>2, <3>1, <3>2, PayloadIs, GivenNone DEF Tunnels
      <3>4. payload("local")' = payload("local")
        BY <2>2 DEF payload
      <3> QED
        BY <3>3, <3>4 DEF given, Tunnels
    <2> QED
      BY <1>2, <1>4, <2>1, <2>3, Opens
  <1>5. CASE dispose("refused") /\ UNCHANGED <<established, buffered, out>>
    <2>1. open # "disposed" /\ open' = "disposed" /\ cause' \notin Tunnels
      BY <1>1, <1>5 DEF dispose, Tunnels
    <2> QED
      BY <1>2, <1>5, <2>1, NothingCarried, Aborts
  <1> QED
    BY <1>3, <1>4, <1>5 DEF onConnectable

\* Every step of the tunnels is one of the relay, or nothing to it.
LEMMA PipeStepped ==
  TypeOK /\ KeyInv /\ ByteInv /\ TypeOK' /\ ByteInv' /\ [Next]_vars => PipeStep
  <1> SUFFICES ASSUME TypeOK, KeyInv, ByteInv, TypeOK', ByteInv', [Next]_vars
               PROVE  PipeStep
    OBVIOUS
  <1>1. CASE UNCHANGED <<open, established, interest, sent, out, cause>>
    <2>1. UNCHANGED <<relay, given>>
      BY <1>1, NothingCarried DEF relay, connected
    <2> QED
      BY <1>1, <2>1, Stutters
  <1>2. ASSUME NEW t \in Tunnels, handle(t) PROVE PipeStep
    BY <1>1, <1>2, ReadableStep, WritableStep, ConnectableStep DEF handle, peers, sockets
  <1>3. ASSUME NEW t \in Tunnels, PeerWrites(t) PROVE PipeStep
    <2>1. /\ UNCHANGED <<open, established, interest, out, cause>> /\ open = "yes"
          /\ sent' = [sent EXCEPT ![t] = @ + 1]
      BY <1>3 DEF PeerWrites, keys, sockets
    <2>2. UNCHANGED <<relay, given>> /\ relay # "closed"
      BY <2>1, NothingCarried DEF relay, connected
    <2> QED
      BY <2>1, <2>2 DEF PipeStep, Pipe!PipeNext, Pipe!Write, given
  <1>4. CASE \/ select \/ ProxyAnswers \/ UNCHANGED vars
             \/ \E t \in Tunnels : PeerReads(t) \/ PeerCloses(t)
    BY <1>1, <1>4
       DEF select, ProxyAnswers, PeerReads, PeerCloses, vars, keys, peers, sockets
  <1> QED
    BY <1>2, <1>3, <1>4, AcceptedStep DEF Next, Peers

\* It starts as the relay does.
LEMMA PipeStarted == Init => Pipe!PipeInit
  <1> SUFFICES ASSUME Init PROVE Pipe!PipeInit
    OBVIOUS
  <1>1. \A t \in Tunnels : payload(t) = <<>>
    <2> TAKE t \in Tunnels
    <2>1. out[t] = <<>> /\ <<>> \in Seq(Nat) /\ Len(<<>>) = 0 /\ Len(head(t)) \in Nat
      BY PayloadIs, LenProperties DEF Init
    <2> QED
      BY <2>1, PayloadIs, GivenNone
  <1> QED
    BY <1>1 DEF Init, Pipe!PipeInit, relay

\* A pair of tunnels implements the relay: it passes on every byte in order, and the end
\* of a connection only after all that was sent on it.
THEOREM PipeImplemented == Spec => PipeRefined
  <1>1. TypeOK /\ KeyInv /\ ByteInv /\ [Next]_vars => PipeStep
    BY TypeStep, ByteStep, PipeStepped
  <1> QED
    BY <1>1, PipeStarted, Inductive, PTL DEF Spec, PipeRefined, Pipe!PipeSpec, PipeStep
=============================================================================
