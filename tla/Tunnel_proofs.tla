--------------------------- MODULE Tunnel_proofs ---------------------------
(***************************************************************************)
(* Theorems about a pair of tunnels, for every size of the sockets'        *)
(* buffers, of GL_BUFFER, of the CONNECT and of what the peers send.       *)
(***************************************************************************)
EXTENDS Tunnel, SequenceTheorems, TLAPS

-----------------------------------------------------------------------------
(* Sequences of bytes. *)

\* A sequence is its first k elements and the others.
LEMMA Split ==
  ASSUME NEW s \in Seq(Nat), NEW k \in 0 .. Len(s)
  PROVE  /\ SubSeq(s, 1, k) \in Seq(Nat) /\ SubSeq(s, k + 1, Len(s)) \in Seq(Nat)
         /\ SubSeq(s, 1, k) \o SubSeq(s, k + 1, Len(s)) = s
  <1>1. Len(s) \in Nat
    BY LenProperties
  <1>2. SubSeq(s, 1, k) \in Seq(Nat) /\ SubSeq(s, k + 1, Len(s)) \in Seq(Nat)
    BY <1>1
  <1>3. SubSeq(s, 1, k) \o SubSeq(s, k + 1, Len(s)) = SubSeq(s, 1, Len(s))
    <2>1. 1 \in 1 .. Len(s) + 1 /\ k \in 0 .. Len(s) /\ Len(s) \in k .. Len(s)
      BY <1>1
    <2>2. k \in 1 - 1 .. Len(s)
      BY <1>1
    <2> QED
      BY <2>1, <2>2, ConcatAdjacentSubSeq, Zenon
  <1> QED
    BY <1>2, <1>3, SubSeqFull

\* A socket takes a part of what it is given, and no more than it has room for.
LEMMA AcceptedType ==
  ASSUME TypeOK, NEW t \in Tunnels, NEW s \in Seq(Nat)
  PROVE  /\ accepted(t, s) \in 0 .. Len(s)
         /\ buffered[t] + accepted(t, s) \in Nat
         /\ buffered[t] + accepted(t, s) <= Room[t]
  BY TunnelAssumption, LenProperties, SMTT(40) DEF TypeOK, accepted, Tunnels, Room

\* write loses nothing: what it has sent and what is left make up what it was given.
LEMMA WriteSplits ==
  ASSUME TypeOK, NEW t \in Tunnels, NEW s \in Seq(Nat)
  PROVE  /\ SubSeq(s, 1, accepted(t, s)) \in Seq(Nat) /\ rest(t, s) \in Seq(Nat)
         /\ SubSeq(s, 1, accepted(t, s)) \o rest(t, s) = s
  BY AcceptedType, Split DEF rest

\* What a read takes and what it leaves.
LEMMA ReadSplits ==
  ASSUME TypeOK, NEW t \in Tunnels
  PROVE  /\ chunk_max(t) \in 0 .. Len(inbox[t])
         /\ SubSeq(inbox[t], 1, chunk_max(t)) \in Seq(Nat)
         /\ SubSeq(inbox[t], chunk_max(t) + 1, Len(inbox[t])) \in Seq(Nat)
         /\ SubSeq(inbox[t], 1, chunk_max(t))
              \o SubSeq(inbox[t], chunk_max(t) + 1, Len(inbox[t])) = inbox[t]
  <1>1. inbox[t] \in Seq(Nat)
    BY DEF TypeOK
  <1>2. chunk_max(t) \in 0 .. Len(inbox[t])
    BY <1>1, TunnelAssumption, LenProperties DEF chunk_max
  <1> QED
    BY <1>1, <1>2, Split

\* The CONNECT and what the peers have sent are sequences of bytes.
LEMMA Texts ==
  /\ CONNECT \in Seq(Nat) /\ answer \in Seq(Nat)
  /\ TypeOK => \A t \in Tunnels : Sent(t) \in Seq(Nat)
  BY TunnelAssumption DEF CONNECT, answer, Sent, TypeOK
-----------------------------------------------------------------------------
(* Types. *)

\* A write keeps the types of the socket it is made on.
LEMMA SendType ==
  ASSUME TypeOK, NEW t \in Tunnels, NEW s \in Seq(Nat), Send(t, s)
  PROVE  /\ out' \in [Tunnels -> Seq(Nat)] /\ buffered' \in [Tunnels -> Nat]
         /\ \A u \in Tunnels : buffered'[u] <= Room[u]
  <1>1. out[t] \o SubSeq(s, 1, accepted(t, s)) \in Seq(Nat)
    BY WriteSplits, ConcatProperties DEF TypeOK
  <1> QED
    BY <1>1, AcceptedType DEF Send, TypeOK

\* So does the disposal of a pair.
LEMMA DisposeType ==
  ASSUME TypeOK, NEW why \in Causes, dispose(why)
  PROVE  /\ open' = "disposed" /\ cause' \in Causes /\ cancelled' = {}
         /\ interest' \in [Tunnels -> {{}} \cup {{op} : op \in Ops}]
         /\ remain' \in [Tunnels -> Seq(Nat)]
  BY DEF dispose

\* Forwarding what was read keeps the types ...
LEMMA ForwardType ==
  ASSUME TypeOK, NEW t \in Tunnels, NEW chunk \in Seq(Nat), Forward(t, chunk)
  PROVE  /\ open' \in {"yes", "disposed", open} /\ cause' \in Causes
         /\ cancelled' \subseteq Tunnels
         /\ interest' \in [Tunnels -> {{}} \cup {{op} : op \in Ops}]
         /\ remain' \in [Tunnels -> Seq(Nat)] /\ out' \in [Tunnels -> Seq(Nat)]
         /\ buffered' \in [Tunnels -> Nat]
         /\ \A u \in Tunnels : buffered'[u] <= Room[u]
  <1> DEFINE b == brother(t)
  <1>1. b \in Tunnels
    BY DEF brother, Tunnels
  <1>2. rest(b, chunk) \in Seq(Nat)
    BY <1>1, WriteSplits
  <1>3. CASE Send(b, chunk) /\ UNCHANGED <<remain, interest, cancelled, open, cause>>
    BY <1>1, <1>3, SendType DEF TypeOK
  <1>4. CASE /\ Send(b, chunk)
             /\ remain' = [remain EXCEPT ![b] = rest(b, chunk)]
             /\ cancelled' = held(t)
             /\ interest' = [watched(b) EXCEPT ![t] = IF t \in cancelled' THEN {} ELSE @]
             /\ UNCHANGED <<open, cause>>
    <2>1. out' \in [Tunnels -> Seq(Nat)] /\ buffered' \in [Tunnels -> Nat]
          /\ \A u \in Tunnels : buffered'[u] <= Room[u]
      BY <1>1, <1>4, SendType
    <2>2. remain' \in [Tunnels -> Seq(Nat)]
      BY <1>1, <1>2, <1>4 DEF TypeOK
    <2>3. cancelled' \subseteq Tunnels
      BY <1>4 DEF TypeOK, held
    <2>4. interest' \in [Tunnels -> {{}} \cup {{op} : op \in Ops}]
      BY <1>1, <1>4 DEF TypeOK, watched, held, Ops
    <2> QED
      BY <1>4, <2>1, <2>2, <2>3, <2>4 DEF TypeOK
  <1>5. CASE Send(b, chunk) /\ dispose("cancelled key")
    BY <1>1, <1>5, SendType, DisposeType DEF Causes
  <1>6. CASE dispose("write") /\ UNCHANGED <<buffered, out>>
    BY <1>6, DisposeType DEF Causes, TypeOK
  <1> QED
    BY <1>3, <1>4, <1>5, <1>6 DEF Forward

\* ... and so do the handlers ...
LEMMA ReadableType ==
  ASSUME TypeOK, NEW t \in Tunnels, onReadable(t),
         selected' \in [Tunnels -> SUBSET Ops]
  PROVE  TypeOK'
  <1>1. CASE inbox[t] = <<>> /\ dispose(t) /\ UNCHANGED <<established, peers, buffered, out>>
    BY <1>1, DisposeType DEF Causes, TypeOK, peers
  <1>2. CASE /\ inbox' = [inbox EXCEPT ![t] = SubSeq(@, chunk_max(t) + 1, Len(@))]
             /\ \/ Establish /\ UNCHANGED <<sockets, open, cause>>
                \/ dispose("refused") /\ UNCHANGED <<established, buffered, out>>
                \/ /\ Forward(t, SubSeq(inbox[t], 1, chunk_max(t)))
                   /\ UNCHANGED established
             /\ UNCHANGED <<ended, sent>>
    <2>1. inbox' \in [Tunnels -> Seq(Nat)]
      BY <1>2, ReadSplits DEF TypeOK
    <2>2. CASE Establish /\ UNCHANGED <<sockets, open, cause>>
      BY <1>2, <2>1, <2>2 DEF Establish, sockets, TypeOK, Ops
    <2>3. CASE dispose("refused") /\ UNCHANGED <<established, buffered, out>>
      BY <1>2, <2>1, <2>3, DisposeType DEF Causes, TypeOK
    <2>4. CASE /\ Forward(t, SubSeq(inbox[t], 1, chunk_max(t)))
               /\ UNCHANGED established
      <3>1. SubSeq(inbox[t], 1, chunk_max(t)) \in Seq(Nat)
        BY ReadSplits
      <3> QED
        BY <1>2, <2>1, <2>4, <3>1, ForwardType DEF TypeOK
    <2> QED
      BY <1>2, <2>2, <2>3, <2>4
  <1> QED
    BY <1>1, <1>2 DEF onReadable

\* (what is left is written when there is room)
LEMMA WritableType ==
  ASSUME TypeOK, NEW t \in Tunnels, onWritable(t),
         selected' \in [Tunnels -> SUBSET Ops]
  PROVE  TypeOK'
  <1> DEFINE next == IF t = "local" \/ established THEN brother(t) ELSE t
  <1>1. remain[t] \in Seq(Nat) /\ rest(t, remain[t]) \in Seq(Nat) /\ next \in Tunnels
    BY WriteSplits DEF TypeOK, Tunnels, brother
  <1>2. UNCHANGED <<established, inbox, ended, sent>>
    BY DEF onWritable, peers
  <1>3. CASE /\ Send(t, remain[t])
             /\ remain' = [remain EXCEPT ![t] = rest(t, @)]
             /\ UNCHANGED <<interest, cancelled, open, cause>>
    BY <1>1, <1>2, <1>3, SendType DEF TypeOK
  <1>4. CASE /\ Send(t, remain[t])
             /\ remain' = [remain EXCEPT ![t] = <<>>]
             /\ interest' = [interest EXCEPT ![t] = {}, ![next] = {"READ"}]
             /\ cancelled' = cancelled \cup {t}
             /\ UNCHANGED <<open, cause>>
    <2>1. out' \in [Tunnels -> Seq(Nat)] /\ buffered' \in [Tunnels -> Nat]
          /\ \A u \in Tunnels : buffered'[u] <= Room[u]
      BY <1>1, <1>4, SendType
    <2>2. remain' \in [Tunnels -> Seq(Nat)]
      BY <1>1, <1>4 DEF TypeOK
    <2>3. cancelled' \subseteq Tunnels
      BY <1>4 DEF TypeOK
    <2>4. interest' \in [Tunnels -> {{}} \cup {{op} : op \in Ops}]
      <3> HIDE DEF next
      <3> QED
        BY <1>1, <1>4 DEF TypeOK, Ops
    <2> QED
      BY <1>2, <1>4, <2>1, <2>2, <2>3, <2>4 DEF TypeOK
  <1>5. CASE Send(t, remain[t]) /\ dispose("cancelled key")
    BY <1>1, <1>2, <1>5, SendType, DisposeType DEF Causes, TypeOK
  <1>6. CASE dispose("write") /\ UNCHANGED <<buffered, out>>
    BY <1>2, <1>6, DisposeType DEF Causes, TypeOK
  <1> QED
    BY <1>3, <1>4, <1>5, <1>6 DEF onWritable

\* (the remote tunnel is connected)
LEMMA ConnectableType ==
  ASSUME TypeOK, onConnectable, selected' \in [Tunnels -> SUBSET Ops]
  PROVE  TypeOK'
  <1>1. UNCHANGED <<inbox, ended, sent>>
    BY DEF onConnectable, peers
  <1>2. CASE Establish /\ UNCHANGED <<sockets, open, cause>>
    BY <1>1, <1>2 DEF Establish, sockets, TypeOK, Ops
  <1>3. CASE /\ Send("remote", CONNECT)
             /\ remain' = [remain EXCEPT !["remote"] = rest("remote", CONNECT)]
             /\ interest' = [interest EXCEPT !["remote"] =
                               IF remain'["remote"] = <<>> THEN {"READ"} ELSE {"WRITE"}]
             /\ UNCHANGED <<established, cancelled, open, cause>>
    <2>1. "remote" \in Tunnels /\ CONNECT \in Seq(Nat)
      BY Texts DEF Tunnels
    <2>2. rest("remote", CONNECT) \in Seq(Nat)
      BY <2>1, WriteSplits
    <2>3. out' \in [Tunnels -> Seq(Nat)] /\ buffered' \in [Tunnels -> Nat]
          /\ \A u \in Tunnels : buffered'[u] <= Room[u]
      BY <1>3, <2>1, SendType
    <2>4. interest' \in [Tunnels -> {{}} \cup {{op} : op \in Ops}]
      BY <1>3, <2>1 DEF TypeOK, Ops
    <2> QED
      BY <1>1, <1>3, <2>1, <2>2, <2>3, <2>4 DEF TypeOK
  <1>4. CASE dispose("refused") /\ UNCHANGED <<established, buffered, out>>
    BY <1>1, <1>4, DisposeType DEF Causes, TypeOK
  <1> QED
    BY <1>2, <1>3, <1>4 DEF onConnectable

\* A key is ready for what it is interested in only.
LEMMA ReadyInterest == \A t \in Tunnels : ready(t) \subseteq interest[t]
  BY Zenon DEF ready

\* ... and every step.
LEMMA TypeStep == TypeOK /\ [Next]_vars => TypeOK'
  <1> SUFFICES ASSUME TypeOK, [Next]_vars PROVE TypeOK'
    OBVIOUS
  <1>1. CASE onAccepted
    BY <1>1 DEF TypeOK, onAccepted, Accept, peers, sockets, Tunnels, Ops, Causes
  <1>2. CASE select
    <2>1. \A t \in Tunnels : ready(t) \subseteq Ops
      <3>1. \A t \in Tunnels : interest[t] \subseteq Ops
        <4> SUFFICES ASSUME NEW t \in Tunnels PROVE interest[t] \subseteq Ops
          OBVIOUS
        <4>1. interest[t] \in {{}} \cup {{op} : op \in Ops}
          BY DEF TypeOK
        <4> QED
          BY <4>1
      <3> QED
        BY <3>1, ReadyInterest
    <2> QED
      BY <1>2, <2>1 DEF TypeOK, select, peers, sockets
  <1>3. ASSUME NEW t \in Tunnels, handle(t) PROVE TypeOK'
    <2>1. selected' \in [Tunnels -> SUBSET Ops]
      BY <1>3 DEF handle, TypeOK
    <2>2. CASE UNCHANGED <<open, established, interest, cancelled, peers, sockets, cause>>
      BY <2>1, <2>2 DEF TypeOK, peers, sockets
    <2> QED
      BY <1>3, <2>1, <2>2, ReadableType, WritableType, ConnectableType DEF handle
  <1>4. ASSUME NEW t \in Tunnels, PeerWrites(t) PROVE TypeOK'
    <2>1. sent[t] + 1 \in Nat /\ sent[t] + 1 <= Count[t]
      BY <1>4, TunnelAssumption DEF PeerWrites, TypeOK, Count, Tunnels
    <2>2. sent' = [sent EXCEPT ![t] = sent[t] + 1]
          /\ inbox' = [inbox EXCEPT ![t] = Append(inbox[t], sent[t] + 1)]
      BY <1>4 DEF PeerWrites, TypeOK
    <2>3. Append(inbox[t], sent[t] + 1) \in Seq(Nat)
      BY <2>1, AppendProperties DEF TypeOK
    <2> QED
      BY <1>4, <2>1, <2>2, <2>3, ZenonT(60) DEF TypeOK, PeerWrites, keys, sockets
  <1>5. CASE ProxyAnswers
    BY <1>5, Texts DEF TypeOK, ProxyAnswers, keys, sockets
  <1>6. ASSUME NEW t \in Tunnels, PeerReads(t) PROVE TypeOK'
    <2>1. \A u \in Tunnels : Room[u] \in Nat
      BY TunnelAssumption DEF Room, Tunnels
    <2>2. buffered' \in [Tunnels -> Nat] /\ \A u \in Tunnels : buffered'[u] <= Room[u]
      BY <1>6, <2>1 DEF TypeOK, PeerReads
    <2> QED
      BY <1>6, <2>2 DEF TypeOK, PeerReads, keys, peers
  <1>7. ASSUME NEW t \in Tunnels, PeerCloses(t) PROVE TypeOK'
    BY <1>7 DEF TypeOK, PeerCloses, keys, sockets
  <1>8. CASE UNCHANGED vars
    BY <1>8 DEF TypeOK, vars, keys, peers, sockets
  <1> QED
    BY <1>1, <1>2, <1>3, <1>4, <1>5, <1>6, <1>7, <1>8 DEF Next, Peers

\* The variables keep their types: a key waits for one operation, and no socket is given
\* more than it has room for.
THEOREM TypeCorrect == Spec => []TypeOK
  <1>1. Init => TypeOK
    BY TunnelAssumption DEF Init, TypeOK, Tunnels, Ops, Causes, Room, Count
  <1> QED
    BY <1>1, TypeStep, PTL DEF Spec

-----------------------------------------------------------------------------
(* Keys. *)

\* A pair that is not open has no key and nothing to send.
Unopened ==
  /\ open = "no" => cancelled = {} /\ \A t \in Tunnels : selected[t] = {}
  /\ open # "yes" => \A t \in Tunnels : interest[t] = {} /\ remain[t] = <<>>

\* While the remote tunnel connects its key is the only one.
Connecting ==
  /\ "CONNECT" \notin interest["local"] \cup selected["local"]
  /\ "CONNECT" \in interest["remote"] =>
       /\ interest["local"] = {} /\ selected["local"] = {} /\ cancelled = {}
       /\ selected["remote"] \subseteq {"CONNECT"}
       /\ \A t \in Tunnels : remain[t] = <<>>
  /\ open = "yes" /\ "CONNECT" \in selected["remote"] => interest["remote"] = {"CONNECT"}

\* Until the proxy has accepted the CONNECT the remote tunnel's key is the only one.
Waiting ==
  open = "yes" /\ ~established =>
    /\ interest["local"] = {} /\ selected["local"] = {} /\ remain["local"] = <<>>
    /\ cancelled = {} /\ selected["remote"] \subseteq interest["remote"]

\* A tunnel has a rest to send exactly while its key waits for room, and the brother has
\* no key then: one that was ready to read before it lost its key is not asked.
Holding ==
  /\ \A t \in cancelled : interest[t] = {}
  /\ \A t \in Tunnels : interest[t] = {"WRITE"} <=> remain[t] # <<>>
  /\ \A t \in Tunnels : remain[t] # <<>> => interest[brother(t)] = {}
  /\ \A t \in Tunnels : remain[t] # <<>> /\ "READ" \in selected[t] => brother(t) \in cancelled
  /\ \A t \in Tunnels : open = "yes" /\ "WRITE" \in selected[t] =>
       remain[t] # <<>> /\ selected[brother(t)] = {}

\* What the theorems about keys rest on.
KeyInv == Unopened /\ Connecting /\ Waiting /\ Holding

\* The disposal of a pair leaves no key.
LEMMA DisposeKeys ==
  ASSUME NEW why, dispose(why), KeyInv, NEW t \in Tunnels,
         TypeOK, selected' = [selected EXCEPT ![t] = {}]
  PROVE  KeyInv'
  <1>1. open' = "disposed" /\ cancelled' = {}
        /\ \A u \in Tunnels : interest'[u] = {} /\ remain'[u] = <<>>
    BY DEF dispose
  <1>2. "CONNECT" \notin selected'["local"]
    BY DEF KeyInv, Connecting, TypeOK, Tunnels
  <1> QED
    BY <1>1, <1>2 DEF KeyInv, Unopened, Connecting, Waiting, Holding, Tunnels

\* What a key that is handled tells of its tunnel and the brother.
LEMMA ReadingKey ==
  ASSUME TypeOK, KeyInv, NEW t \in Tunnels, interest[t] # {}, "READ" \in selected[t]
  PROVE  /\ open = "yes" /\ "CONNECT" \notin interest["remote"]
         /\ remain[brother(t)] = <<>> /\ t \notin cancelled
         /\ remain[t] # <<>> => brother(t) \in cancelled
         /\ ~established => /\ t = "remote" /\ cancelled = {}
                           /\ \A u \in Tunnels : remain[u] = <<>> /\ selected["local"] = {}
         /\ "WRITE" \notin selected[brother(t)] /\ "CONNECT" \notin selected[brother(t)]
  <1>1. brother(t) \in Tunnels /\ brother(brother(t)) = t
    BY DEF brother, Tunnels
  <1>2. open = "yes" /\ t \notin cancelled /\ remain[brother(t)] = <<>>
        /\ (remain[t] # <<>> => brother(t) \in cancelled)
        /\ "WRITE" \notin selected[brother(t)]
    BY <1>1 DEF KeyInv, Unopened, Holding
  <1>3. "CONNECT" \notin interest["remote"] /\ "CONNECT" \notin selected[brother(t)]
    BY <1>2 DEF KeyInv, Connecting, Tunnels, brother
  <1>4. ~established => /\ t = "remote" /\ cancelled = {} /\ selected["local"] = {}
                        /\ remain["local"] = <<>> /\ remain["remote"] = <<>>
    <2> SUFFICES ASSUME ~established
                 PROVE  /\ t = "remote" /\ cancelled = {} /\ selected["local"] = {}
                        /\ remain["local"] = <<>> /\ remain["remote"] = <<>>
      OBVIOUS
    <2>1. /\ t = "remote" /\ cancelled = {} /\ selected["local"] = {}
          /\ remain["local"] = <<>>
      BY <1>2 DEF KeyInv, Waiting, Tunnels
    <2> QED
      BY <1>2, <2>1 DEF Tunnels
  <1> QED
    BY <1>2, <1>3, <1>4 DEF Tunnels

\* A key handled because there is room: all that is left is its tunnel's.
LEMMA WritingKey ==
  ASSUME TypeOK, KeyInv, NEW t \in Tunnels, interest[t] # {}, "WRITE" \in selected[t]
  PROVE  /\ open = "yes" /\ interest[t] = {"WRITE"} /\ interest[brother(t)] = {}
         /\ remain[t] # <<>> /\ remain[brother(t)] = <<>> /\ selected[brother(t)] = {}
         /\ ~established => t = "remote" /\ cancelled = {}
  <1>1. brother(t) \in Tunnels /\ brother(brother(t)) = t
    BY DEF brother, Tunnels
  <1>2. open = "yes" /\ remain[t] # <<>> /\ selected[brother(t)] = {}
    BY DEF KeyInv, Unopened, Holding
  <1>3. interest[t] = {"WRITE"} /\ interest[brother(t)] = {}
    BY <1>2 DEF KeyInv, Holding
  <1>4. remain[brother(t)] = <<>>
    BY <1>1, <1>3 DEF KeyInv, Holding
  <1>5. ~established => t = "remote" /\ cancelled = {}
    BY <1>2 DEF KeyInv, Waiting, Tunnels
  <1> QED
    BY <1>2, <1>3, <1>4, <1>5

\* Handling what was read keeps the invariant ...
LEMMA ReadableKeys ==
  ASSUME TypeOK, KeyInv, NEW t \in Tunnels, onReadable(t),
         interest[t] # {}, "READ" \in selected[t], selected' = [selected EXCEPT ![t] = {}]
  PROVE  KeyInv'
  <1> DEFINE b == brother(t)
             chunk == SubSeq(inbox[t], 1, chunk_max(t))
  <1>1. b \in Tunnels /\ b # t /\ brother(b) = t /\ \A u \in Tunnels : u = t \/ u = b
    BY DEF brother, Tunnels
  <1>2. /\ open = "yes" /\ "CONNECT" \notin interest["remote"]
        /\ remain[b] = <<>> /\ t \notin cancelled
        /\ remain[t] # <<>> => b \in cancelled
        /\ ~established => /\ t = "remote" /\ cancelled = {}
                          /\ \A u \in Tunnels : remain[u] = <<>> /\ selected["local"] = {}
        /\ "WRITE" \notin selected[b] /\ "CONNECT" \notin selected[b]
    BY ReadingKey
  <1>3. selected'[t] = {} /\ selected'[b] = selected[b]
    BY <1>1 DEF TypeOK
  <1>4. CASE Establish /\ t = "remote" /\ ~established /\ UNCHANGED <<sockets, open, cause>>
    <2>1. /\ cancelled' = {} /\ established' /\ open' = "yes"
          /\ \A u \in Tunnels : interest'[u] = {"READ"} /\ remain'[u] = <<>>
                               /\ selected'[u] = {}
      BY <1>1, <1>2, <1>3, <1>4 DEF Establish, sockets, brother
    <2> QED
      BY <2>1 DEF KeyInv, Unopened, Connecting, Waiting, Holding, Tunnels
  <1>5. CASE \E why : dispose(why)
    BY <1>5, DisposeKeys
  <1>6. CASE Send(b, chunk) /\ UNCHANGED <<established, remain, interest, cancelled, open, cause>>
    <2>1. Unopened' /\ Connecting' /\ Waiting'
      BY <1>1, <1>2, <1>3, <1>6 DEF KeyInv, Unopened, Connecting, Waiting, Tunnels
    <2>2. Holding'
      BY <1>1, <1>2, <1>3, <1>6 DEF KeyInv, Holding
    <2> QED
      BY <2>1, <2>2 DEF KeyInv
  <1>7. CASE /\ t = "local" \/ established
             /\ rest(b, chunk) # <<>> /\ b \notin cancelled
             /\ remain' = [remain EXCEPT ![b] = rest(b, chunk)]
             /\ cancelled' = held(t)
             /\ interest' = [watched(b) EXCEPT ![t] = IF t \in cancelled' THEN {} ELSE @]
             /\ UNCHANGED <<open, established>>
    <2>1. remain[t] = <<>> /\ established
      BY <1>2, <1>7
    <2>2. interest'[t] = {} /\ interest'[b] = {"WRITE"} /\ cancelled' = cancelled \cup {t}
      BY <1>1, <1>7 DEF TypeOK, watched, held
    <2>3. remain'[t] = <<>> /\ remain'[b] # <<>>
      BY <1>1, <1>7, <2>1 DEF TypeOK
    <2>4. Unopened' /\ Waiting'
      BY <1>2, <1>7, <2>1 DEF Unopened, Waiting
    <2>5. Connecting'
      BY <1>1, <1>2, <1>3, <2>2 DEF Connecting, Tunnels
    <2>6. Holding'
      <3>1. cancelled \subseteq Tunnels
        BY DEF TypeOK
      <3> QED
        BY <1>1, <1>2, <1>3, <1>7, <2>2, <2>3, <3>1 DEF KeyInv, Holding
    <2> QED
      BY <2>4, <2>5, <2>6 DEF KeyInv
  <1> QED
    BY <1>4, <1>5, <1>6, <1>7 DEF onReadable, Forward

\* ... as writing what is left does ...
LEMMA WritableKeys ==
  ASSUME TypeOK, KeyInv, NEW t \in Tunnels, onWritable(t),
         interest[t] # {}, "WRITE" \in selected[t], selected' = [selected EXCEPT ![t] = {}]
  PROVE  KeyInv'
  <1> DEFINE b == brother(t)
             next == IF t = "local" \/ established THEN b ELSE t
  <1>1. b \in Tunnels /\ b # t /\ brother(b) = t /\ \A u \in Tunnels : u = t \/ u = b
    BY DEF brother, Tunnels
  <1>2. /\ open = "yes" /\ interest[t] = {"WRITE"} /\ interest[b] = {}
        /\ remain[t] # <<>> /\ remain[b] = <<>> /\ selected[b] = {}
        /\ ~established => t = "remote" /\ cancelled = {}
    BY WritingKey
  <1>3. \A u \in Tunnels : selected'[u] = {}
    BY <1>1, <1>2 DEF TypeOK
  <1>4. CASE /\ rest(t, remain[t]) # <<>>
             /\ remain' = [remain EXCEPT ![t] = rest(t, @)]
             /\ UNCHANGED <<interest, cancelled, open, established>>
    <2>1. remain'[t] # <<>> /\ remain'[b] = <<>>
      BY <1>1, <1>2, <1>4 DEF TypeOK
    <2>2. Unopened' /\ Connecting' /\ Waiting'
      BY <1>1, <1>2, <1>3, <1>4, <2>1 DEF KeyInv, Unopened, Connecting, Waiting, Tunnels
    <2>3. Holding'
      BY <1>1, <1>2, <1>3, <1>4, <2>1 DEF KeyInv, Holding
    <2> QED
      BY <2>2, <2>3 DEF KeyInv
  <1>5. CASE /\ next \notin cancelled \cup {t}
             /\ remain' = [remain EXCEPT ![t] = <<>>]
             /\ interest' = [interest EXCEPT ![t] = {}, ![next] = {"READ"}]
             /\ cancelled' = cancelled \cup {t}
             /\ UNCHANGED <<open, established>>
    <2>1. next = b /\ b \notin cancelled /\ established
      BY <1>2, <1>5
    <2>2. interest' = [interest EXCEPT ![t] = {}, ![b] = {"READ"}]
      BY <1>5, <2>1
    <2>3. interest'[t] = {} /\ interest'[b] = {"READ"}
      BY <1>1, <2>2 DEF TypeOK
    <2>4. remain'[t] = <<>> /\ remain'[b] = <<>>
      BY <1>1, <1>2, <1>5 DEF TypeOK
    <2>5. open' = "yes" /\ established' /\ b \notin cancelled' /\ cancelled' \subseteq Tunnels
      BY <1>1, <1>2, <1>5, <2>1 DEF TypeOK
    <2>6. Unopened' /\ Connecting' /\ Waiting'
      BY <1>1, <1>3, <2>3, <2>5 DEF Unopened, Connecting, Waiting, Tunnels
    <2>7. Holding'
      BY <1>1, <1>3, <2>3, <2>4, <2>5 DEF Holding
    <2> QED
      BY <2>6, <2>7 DEF KeyInv
  <1>6. CASE \E why : dispose(why)
    BY <1>6, DisposeKeys
  <1> QED
    BY <1>4, <1>5, <1>6 DEF onWritable

\* ... and as connecting does ...
LEMMA ConnectableKeys ==
  ASSUME TypeOK, KeyInv, NEW t \in Tunnels, onConnectable,
         interest[t] # {}, "CONNECT" \in selected[t], selected' = [selected EXCEPT ![t] = {}]
  PROVE  KeyInv'
  <1>1. t = "remote" /\ open = "yes"
    BY DEF KeyInv, Connecting, Unopened, Tunnels
  <1>2. /\ "CONNECT" \in interest["remote"] /\ interest["local"] = {} /\ cancelled = {}
        /\ selected["local"] = {} /\ \A u \in Tunnels : remain[u] = <<>>
    BY <1>1 DEF KeyInv, Connecting
  <1>3. \A u \in Tunnels : selected'[u] = {}
    BY <1>1, <1>2 DEF TypeOK, Tunnels
  <1>4. CASE Establish /\ UNCHANGED <<sockets, open, cause>>
    <2>1. /\ cancelled' = {} /\ established' /\ open' = "yes"
          /\ \A u \in Tunnels : interest'[u] = {"READ"} /\ remain'[u] = <<>>
      BY <1>1, <1>2, <1>4 DEF Establish, sockets
    <2> QED
      BY <1>3, <2>1 DEF KeyInv, Unopened, Connecting, Waiting, Holding, Tunnels
  <1>5. CASE /\ remain' = [remain EXCEPT !["remote"] = rest("remote", CONNECT)]
             /\ interest' = [interest EXCEPT !["remote"] =
                               IF remain'["remote"] = <<>> THEN {"READ"} ELSE {"WRITE"}]
             /\ UNCHANGED <<established, cancelled, open, cause>>
    <2>1. /\ interest'["local"] = {} /\ remain'["local"] = <<>>
          /\ remain'["remote"] = <<>> => interest'["remote"] = {"READ"}
          /\ remain'["remote"] # <<>> => interest'["remote"] = {"WRITE"}
      BY <1>2, <1>5 DEF TypeOK, Tunnels
    <2>2. open' = "yes" /\ cancelled' = {}
      BY <1>1, <1>2, <1>5
    <2>3. Unopened' /\ Connecting' /\ Waiting'
      BY <1>3, <2>1, <2>2 DEF Unopened, Connecting, Waiting, Tunnels
    <2>4. Holding'
      BY <1>3, <2>1, <2>2 DEF Holding, Tunnels, brother
    <2> QED
      BY <2>3, <2>4 DEF KeyInv
  <1>6. CASE dispose("refused")
    BY <1>6, DisposeKeys
  <1> QED
    BY <1>4, <1>5, <1>6 DEF onConnectable

\* ... and every other step.
LEMMA KeyStep == TypeOK /\ KeyInv /\ [Next]_vars => KeyInv'
  <1> SUFFICES ASSUME TypeOK, KeyInv, [Next]_vars PROVE KeyInv'
    OBVIOUS
  <1>1. CASE onAccepted
    <2>1. /\ open = "no" /\ cancelled = {}
          /\ \A t \in Tunnels : selected[t] = {} /\ interest[t] = {} /\ remain[t] = <<>>
      BY <1>1 DEF onAccepted, Accept, KeyInv, Unopened
    <2>2. cancelled' = {} /\ \A t \in Tunnels : selected'[t] = {} /\ remain'[t] = <<>>
      BY <1>1, <2>1 DEF onAccepted, sockets
    <2>3. /\ open' \in {"yes", "disposed"} /\ interest'["local"] = {}
          /\ interest'["remote"] = IF open' = "yes" THEN {"CONNECT"} ELSE {}
      BY <1>1, <2>1 DEF onAccepted, Accept, TypeOK, Tunnels
    <2> QED
      BY <2>2, <2>3 DEF KeyInv, Unopened, Connecting, Waiting, Holding, Tunnels, brother
  <1>2. CASE select
    <2>1. /\ open = "yes" /\ open' = "yes" /\ cancelled' = {}
          /\ UNCHANGED <<established, interest, remain>>
      BY <1>2 DEF select, sockets
    <2>2. \A t \in Tunnels : selected'[t] \subseteq interest[t]
      BY <1>2, ReadyInterest DEF select
    <2>3. \A t \in Tunnels : interest[t] \in {{}} \cup {{op} : op \in Ops}
      BY DEF TypeOK
    <2>4. Unopened' /\ Connecting' /\ Waiting'
      BY <2>1, <2>2, <2>3 DEF KeyInv, Unopened, Connecting, Waiting, Tunnels
    <2>5. Holding'
      <3>1. \A t \in Tunnels : "WRITE" \in interest[t] => remain[t] # <<>>
        BY <2>3 DEF KeyInv, Holding
      <3>2. \A t \in Tunnels : brother(t) \in Tunnels
        BY DEF Tunnels, brother
      <3> QED
        BY <2>1, <2>2, <3>1, <3>2 DEF KeyInv, Holding
    <2> QED
      BY <2>4, <2>5 DEF KeyInv
  <1>3. ASSUME NEW t \in Tunnels, handle(t) PROVE KeyInv'
    <2>1. CASE UNCHANGED <<open, established, interest, cancelled, peers, sockets, cause>>
      <3>1. \A u \in Tunnels : selected'[u] \subseteq selected[u]
        BY <1>3 DEF handle, TypeOK
      <3>2. UNCHANGED remain
        BY <2>1 DEF sockets
      <3>3. Unopened' /\ Connecting' /\ Waiting'
        BY <2>1, <3>1, <3>2 DEF KeyInv, Unopened, Connecting, Waiting, Tunnels
      <3>4. Holding'
        <4>1. \A u \in Tunnels : brother(u) \in Tunnels
          BY DEF Tunnels, brother
        <4> QED
          BY <2>1, <3>1, <3>2, <4>1 DEF KeyInv, Holding
      <3> QED
        BY <3>3, <3>4 DEF KeyInv
    <2> QED
      BY <1>3, <2>1, ReadableKeys, WritableKeys, ConnectableKeys DEF handle
  <1>4. CASE UNCHANGED <<open, established, keys, remain>>
    BY <1>4 DEF keys, KeyInv, Unopened, Connecting, Waiting, Holding
  <1> QED
    BY <1>1, <1>2, <1>3, <1>4
       DEF Next, Peers, ProxyAnswers, PeerWrites, PeerReads, PeerCloses, vars, sockets

\* What a socket does not take is watched, and nothing is read over it before it is out.
THEOREM RestIsWatched == Spec => []RemainderWatched
  <1>1. Init => KeyInv
    BY DEF Init, KeyInv, Unopened, Connecting, Waiting, Holding, Tunnels
  <1>2. KeyInv => RemainderWatched
    BY DEF KeyInv, Holding, RemainderWatched
  <1> QED
    BY <1>1, <1>2, KeyStep, TypeCorrect, PTL DEF Spec

-----------------------------------------------------------------------------
(* Bytes. *)

\* Until the CONNECT has been accepted nothing but the CONNECT and the answer has passed.
Opening ==
  /\ open = "no" => \A t \in Tunnels : out[t] = <<>> /\ inbox[t] = <<>> /\ sent[t] = 0
  /\ open = "yes" /\ ~connected =>
       /\ sent["remote"] = 0 /\ inbox["remote"] = <<>>
       /\ \A t \in Tunnels : out[t] = <<>>
  /\ ~established => Http
  /\ open = "yes" /\ ~established =>
       /\ sent["remote"] = 0 /\ out["local"] = <<>> /\ inbox["remote"] \in {<<>>, answer}
  /\ cause # "none" => open = "disposed"

\* The app has been given no byte of the proxy's answer, and the proxy no byte of the app.
Apart ==
  /\ ~established => Range(out["remote"]) \cup Range(remain["remote"]) \subseteq {0}
  /\ 0 \notin Range(out["local"]) \cup Range(remain["local"])
  /\ established => 0 \notin Range(inbox["remote"])

\* What the theorems about bytes rest on.
ByteInv == Opening /\ NothingLost /\ EndDelivered /\ Apart

\* Nothing has been sent yet.
LEMMA NoneSent == \A t \in Tunnels : sent[t] = 0 => Sent(t) = <<>>
  BY DEF Sent

\* The next byte is one more.
LEMMA OneMoreSent ==
  ASSUME NEW n \in Nat
  PROVE  [i \in 1 .. n + 1 |-> i] = [i \in 1 .. n |-> i] \o <<n + 1>>
  <1> DEFINE s == [i \in 1 .. n |-> i]
             u == [i \in 1 .. n + 1 |-> i]
  <1>1. s \in Seq(Nat) /\ Len(s) = n /\ u \in Seq(Nat) /\ Len(u) = n + 1
    OBVIOUS
  <1>2. <<n + 1>> \in Seq(Nat) /\ Len(<<n + 1>>) = 1 /\ <<n + 1>>[1] = n + 1
    OBVIOUS
  <1>3. /\ s \o <<n + 1>> \in Seq(Nat) /\ Len(s \o <<n + 1>>) = n + 1
        /\ \A i \in 1 .. n + 1 : (s \o <<n + 1>>)[i] = i
    BY <1>1, <1>2
  <1> QED
    BY <1>1, <1>3, SeqEqual

\* What is forwarded, and what is left of it, stays behind what has gone out.
LEMMA Associative == \A s, u, w \in Seq(Nat) : (s \o u) \o w = s \o (u \o w)
  OBVIOUS

\* A part of a sequence has no bytes but those of the sequence.
LEMMA PartRange ==
  ASSUME NEW s, NEW a \in Seq(Nat), NEW r \in Seq(Nat), a \o r = s
  PROVE  Range(a) \subseteq Range(s) /\ Range(r) \subseteq Range(s)
  <1>1. Range(a \o r) = Range(a) \cup Range(r)
    BY RangeConcatenation, ZenonT(60)
  <1> QED
    BY <1>1, Zenon

\* A socket is given no byte that is not in what is written to it.
LEMMA SendRange ==
  ASSUME TypeOK, NEW t \in Tunnels, NEW s \in Seq(Nat), Send(t, s)
  PROVE  /\ Range(out'[t]) \subseteq Range(out[t]) \cup Range(s)
         /\ Range(rest(t, s)) \subseteq Range(s)
         /\ \A u \in Tunnels : u # t => out'[u] = out[u]
         /\ out'[t] = out[t] \o SubSeq(s, 1, accepted(t, s))
  <1> DEFINE a == SubSeq(s, 1, accepted(t, s))
  <1>1. a \in Seq(Nat) /\ rest(t, s) \in Seq(Nat) /\ a \o rest(t, s) = s /\ out[t] \in Seq(Nat)
    BY WriteSplits DEF TypeOK
  <1>2. Range(s) = Range(a) \cup Range(rest(t, s))
    <2>1. PICK x \in Seq(Nat), y \in Seq(Nat) : x = a /\ y = rest(t, s)
      BY <1>1
    <2>2. Range(x \o y) = Range(x) \cup Range(y)
      BY RangeConcatenation
    <2> HIDE DEF a
    <2> QED
      BY <2>1, <2>2, <1>1, Zenon
  <1>3. Range(out[t] \o a) = Range(out[t]) \cup Range(a)
    <2>1. PICK x \in Seq(Nat), y \in Seq(Nat) : x = out[t] /\ y = a
      BY <1>1
    <2>2. Range(x \o y) = Range(x) \cup Range(y)
      BY RangeConcatenation
    <2> HIDE DEF a
    <2> QED
      BY <2>1, <2>2, Zenon
  <1>4. out'[t] = out[t] \o a /\ \A u \in Tunnels : u # t => out'[u] = out[u]
    BY DEF Send, TypeOK
  <1> QED
    BY <1>2, <1>3, <1>4

\* What a socket takes goes out before what is left of it.
LEMMA SendInOrder ==
  ASSUME TypeOK, NEW t \in Tunnels, NEW s \in Seq(Nat), Send(t, s)
  PROVE  out'[t] \o rest(t, s) = out[t] \o s
  <1> DEFINE a == SubSeq(s, 1, accepted(t, s))
             r == rest(t, s)
  <1>1. out[t] \in Seq(Nat) /\ a \in Seq(Nat) /\ r \in Seq(Nat) /\ a \o r = s
    BY WriteSplits DEF TypeOK
  <1>2. PICK o \in Seq(Nat), x \in Seq(Nat), y \in Seq(Nat) : o = out[t] /\ x = a /\ y = r
    BY <1>1
  <1>3. (o \o x) \o y = o \o (x \o y)
    BY Associative
  <1>4. (out[t] \o a) \o r = out[t] \o (a \o r)
    <2> HIDE DEF a, r
    <2> QED
      BY <1>2, <1>3, Zenon
  <1> QED
    BY <1>1, <1>4, SendRange

\* A pair that is disposed of for anything but the end of a connection promises nothing
\* more of its bytes.
LEMMA DisposeBytes ==
  ASSUME TypeOK, ByteInv, NEW why \in Causes \ (Tunnels \cup {"none"}), dispose(why),
         ~established' => ~established, Apart'
  PROVE  ByteInv'
  <1>1. open' = "disposed" /\ cause' = why
    BY DEF dispose
  <1>2. Opening' /\ NothingLost'
    BY <1>1 DEF ByteInv, Opening, NothingLost
  <1>3. EndDelivered'
    BY <1>1 DEF EndDelivered, Tunnels
  <1> QED
    BY <1>2, <1>3 DEF ByteInv

\* The bytes of nothing and of the answer.
LEMMA EmptyRange == Range(<<>>) = {} /\ Range(answer) = {0}
  BY DEF Range, answer


\* Forwarding ...
LEMMA ForwardApart ==
  ASSUME TypeOK, Apart, established, established', NEW t \in Tunnels,
         inbox' = [inbox EXCEPT ![t] = SubSeq(@, chunk_max(t) + 1, Len(@))],
         NEW chunk, chunk = SubSeq(inbox[t], 1, chunk_max(t)),
         Send(brother(t), chunk) \/ UNCHANGED out,
         \A u \in Tunnels : \/ remain'[u] \in {remain[u], <<>>}
                            \/ u = brother(t) /\ remain'[u] = rest(u, chunk)
  PROVE  Apart'
  <1> DEFINE b == brother(t)
             left == SubSeq(inbox[t], chunk_max(t) + 1, Len(inbox[t]))
  <1>1. b \in Tunnels /\ b # t /\ \A u \in Tunnels : u = t \/ u = b
    BY DEF brother, Tunnels
  <1>2. chunk \in Seq(Nat) /\ left \in Seq(Nat) /\ chunk \o left = inbox[t]
    BY ReadSplits
  <1>3. Range(inbox[t]) = Range(chunk) \cup Range(left)
    <2>1. PICK x \in Seq(Nat), y \in Seq(Nat) : x = chunk /\ y = left
      BY <1>2
    <2>2. Range(x \o y) = Range(x) \cup Range(y)
      BY RangeConcatenation
    <2> HIDE DEF left
    <2> QED
      BY <2>1, <2>2, <1>2, Zenon
  <1>4. inbox'[t] = left /\ inbox'[b] = inbox[b]
    BY <1>1 DEF TypeOK
  <1>5. /\ Range(out'[b]) \subseteq Range(out[b]) \cup Range(chunk) /\ out'[t] = out[t]
        /\ Send(b, chunk) => Range(rest(b, chunk)) \subseteq Range(chunk)
    BY <1>1, <1>2, SendRange
  <1>6. Range(rest(b, chunk)) \subseteq Range(chunk)
    <2>1. SubSeq(chunk, 1, accepted(b, chunk)) \in Seq(Nat) /\ rest(b, chunk) \in Seq(Nat)
          /\ SubSeq(chunk, 1, accepted(b, chunk)) \o rest(b, chunk) = chunk
      BY <1>1, <1>2, WriteSplits
    <2> QED
      BY <2>1, PartRange
  <1>7. /\ Range(remain'[b]) \subseteq Range(remain[b]) \cup Range(chunk)
        /\ Range(remain'[t]) \subseteq Range(remain[t])
    BY <1>1, <1>6, EmptyRange
  <1>8. CASE t = "remote"
    <2>1. b = "local" /\ 0 \notin Range(chunk) /\ 0 \notin Range(left)
      BY <1>3, <1>8 DEF brother, Apart
    <2> QED
      BY <1>4, <1>5, <1>7, <1>8, <2>1 DEF Apart
  <1>9. CASE t = "local"
    <2>1. b = "remote"
      BY <1>9 DEF brother
    <2> QED
      BY <1>4, <1>5, <1>7, <1>9, <2>1 DEF Apart
  <1> QED
    BY <1>8, <1>9 DEF Tunnels

\* ... what was read keeps the invariant ...
LEMMA ReadableBytes ==
  ASSUME TypeOK, KeyInv, ByteInv, NEW t \in Tunnels, onReadable(t),
         interest[t] # {}, "READ" \in selected[t]
  PROVE  ByteInv'
  <1> DEFINE b == brother(t)
             chunk == SubSeq(inbox[t], 1, chunk_max(t))
             left == SubSeq(inbox[t], chunk_max(t) + 1, Len(inbox[t]))
  <1>1. b \in Tunnels /\ b # t /\ brother(b) = t /\ \A u \in Tunnels : u = t \/ u = b
    BY DEF brother, Tunnels
  <1>2. /\ open = "yes" /\ "CONNECT" \notin interest["remote"]
        /\ remain[b] = <<>> /\ cause = "none"
        /\ ~established => t = "remote" /\ \A u \in Tunnels : remain[u] = <<>>
    <2>1. cause = "none"
      BY ReadingKey DEF ByteInv, Opening
    <2> QED
      BY <2>1, ReadingKey
  <1>3. connected
    BY <1>2 DEF connected
  <1>4. out[b] \o remain[b] = out[b]
    BY <1>1, <1>2, ConcatEmptySeq DEF TypeOK
  <1>5. CASE inbox[t] = <<>> /\ dispose(t) /\ UNCHANGED <<established, peers, buffered, out>>
    <2>1. open' = "disposed" /\ cause' = t /\ UNCHANGED <<established, inbox, sent, out>>
          /\ \A u \in Tunnels : remain'[u] = <<>>
      BY <1>5 DEF dispose, peers
    <2>2. Opening' /\ NothingLost'
      BY <2>1 DEF ByteInv, Opening, NothingLost
    <2>3. Apart'
      BY <2>1, EmptyRange DEF ByteInv, Apart, Tunnels
    <2>4. out[b] \o inbox[t] = out[b]
      BY <1>1, <1>5, ConcatEmptySeq DEF TypeOK
    <2>5. EndDelivered'
      <3>1. CASE t = "local"
        <4>1. out["remote"] = CONNECT \o Sent("local")
          BY <1>2, <1>3, <1>4, <2>4, <3>1 DEF ByteInv, NothingLost, brother
        <4> QED
          BY <2>1, <3>1, <4>1 DEF EndDelivered, Sent
      <3>2. CASE t = "remote"
        <4>1. out["local"] = <<>> \o Sent("remote")
          BY <1>2, <1>4, <1>5, <2>4, <3>2 DEF ByteInv, NothingLost, brother
        <4>2. Sent("remote") \in Seq(Nat)
          BY Texts DEF Tunnels
        <4>3. out["local"] = Sent("remote")
          BY <4>1, <4>2, ConcatEmptySeq
        <4> QED
          BY <2>1, <3>2, <4>3 DEF EndDelivered, Sent
      <3> QED
        BY <3>1, <3>2 DEF Tunnels
    <2> QED
      BY <2>2, <2>3, <2>5 DEF ByteInv
  <1>6. ASSUME inbox[t] # <<>>,
               inbox' = [inbox EXCEPT ![t] = SubSeq(@, chunk_max(t) + 1, Len(@))],
               UNCHANGED <<ended, sent>>
        PROVE  /\ inbox'[t] = left /\ inbox'[b] = inbox[b]
               /\ chunk \in Seq(Nat) /\ left \in Seq(Nat) /\ chunk \o left = inbox[t]
    BY <1>1, <1>6, ReadSplits DEF TypeOK
  <1>7. ASSUME inbox[t] # <<>>, t = "remote", ~established,
               inbox' = [inbox EXCEPT ![t] = SubSeq(@, chunk_max(t) + 1, Len(@))],
               UNCHANGED <<ended, sent>>
        PROVE  inbox'["remote"] = <<>> /\ inbox'["local"] = inbox["local"]
    <2>1. inbox["remote"] = answer /\ Len(answer) = 1
      BY <1>2, <1>7 DEF ByteInv, Opening, answer
    <2>2. chunk_max("remote") = 1
      BY <2>1, TunnelAssumption DEF chunk_max
    <2>3. SubSeq(answer, 2, 1) = <<>>
      BY DEF answer
    <2> QED
      BY <1>7, <2>1, <2>2, <2>3 DEF TypeOK, Tunnels
  <1>8. CASE /\ inbox[t] # <<>> /\ t = "remote" /\ ~established
             /\ inbox' = [inbox EXCEPT ![t] = SubSeq(@, chunk_max(t) + 1, Len(@))]
             /\ Establish /\ UNCHANGED <<sockets, open, cause>> /\ UNCHANGED <<ended, sent>>
    <2>1. /\ inbox'["remote"] = <<>> /\ inbox'["local"] = inbox["local"]
          /\ established' /\ \A u \in Tunnels : interest'[u] = {"READ"}
          /\ UNCHANGED <<out, remain, open, cause, sent>>
      BY <1>7, <1>8 DEF Establish, sockets
    <2>2. /\ connected' /\ open' = "yes" /\ cause' = "none"
      BY <1>2, <2>1 DEF connected, Tunnels
    <2>3. Opening' /\ EndDelivered'
      BY <2>1, <2>2 DEF Opening, EndDelivered
    <2>4. Apart'
      BY <2>1, EmptyRange DEF ByteInv, Apart
    <2>5. NothingLost'
      <3>1. out["remote"] \o remain["remote"] \o inbox["local"] = CONNECT \o Sent("local")
        BY <1>2, <1>3 DEF ByteInv, NothingLost
      <3>2. out["local"] = <<>> /\ remain["local"] = <<>> /\ Sent("remote") = <<>>
        BY <1>2, <1>8, NoneSent DEF ByteInv, Opening, Tunnels
      <3>3. <<>> \o <<>> = <<>>
        OBVIOUS
      <3> QED
        BY <2>1, <2>2, <3>1, <3>2, <3>3 DEF NothingLost, Sent
    <2> QED
      BY <2>3, <2>4, <2>5 DEF ByteInv
  <1>9. CASE /\ inbox[t] # <<>> /\ t = "remote" /\ ~established
             /\ inbox' = [inbox EXCEPT ![t] = SubSeq(@, chunk_max(t) + 1, Len(@))]
             /\ dispose("refused") /\ UNCHANGED <<established, buffered, out>>
             /\ UNCHANGED <<ended, sent>>
    <2>1. \A u \in Tunnels : remain'[u] = <<>>
      BY <1>9 DEF dispose
    <2>2. Apart'
      BY <1>9, <2>1, EmptyRange DEF ByteInv, Apart, Tunnels
    <2>3. "refused" \in Causes \ (Tunnels \cup {"none"})
      BY DEF Causes, Tunnels
    <2> QED
      BY <1>9, <2>2, <2>3, DisposeBytes
  <1>10. CASE /\ inbox[t] # <<>>
              /\ t = "local" \/ established
              /\ inbox' = [inbox EXCEPT ![t] = SubSeq(@, chunk_max(t) + 1, Len(@))]
              /\ Forward(t, chunk) /\ UNCHANGED established
              /\ UNCHANGED <<ended, sent>>
    <2>1. established /\ established'
      BY <1>2, <1>10
    <2>2. /\ inbox'[t] = left /\ inbox'[b] = inbox[b] /\ UNCHANGED sent
          /\ chunk \in Seq(Nat) /\ left \in Seq(Nat) /\ chunk \o left = inbox[t]
      BY <1>6, <1>10
    <2>3. CASE \E why \in {"write", "cancelled key"} :
                 dispose(why) /\ (Send(b, chunk) \/ UNCHANGED out)
      <3>1. PICK why \in {"write", "cancelled key"} :
              dispose(why) /\ (Send(b, chunk) \/ UNCHANGED out)
        BY <2>3
      <3>2. \A u \in Tunnels : remain'[u] = <<>>
        BY <3>1 DEF dispose
      <3>3. Apart'
        BY <1>10, <2>1, <3>1, <3>2, ForwardApart DEF ByteInv
      <3>4. why \in Causes \ (Tunnels \cup {"none"})
        BY DEF Causes, Tunnels
      <3> QED
        BY <2>1, <3>1, <3>3, <3>4, DisposeBytes
    <2>4. CASE /\ Send(b, chunk) /\ UNCHANGED <<open, cause>>
               /\ remain'[b] = rest(b, chunk) /\ remain'[t] = remain[t]
               /\ "CONNECT" \notin interest'["remote"]
      <3>1. open' = "yes" /\ connected' /\ cause' = "none"
        BY <1>2, <2>4 DEF connected
      <3>2. Opening' /\ EndDelivered'
        BY <2>1, <3>1 DEF Opening, EndDelivered
      <3>3. Apart'
        BY <1>1, <1>10, <2>1, <2>4, ForwardApart DEF ByteInv
      <3>4. out[b] \in Seq(Nat) /\ out'[b] \o rest(b, chunk) = out[b] \o chunk
        BY <1>1, <2>2, <2>4, SendInOrder DEF TypeOK
      <3>5. out'[t] = out[t]
        BY <1>1, <2>2, <2>4, SendRange
      <3>6. (out[b] \o chunk) \o left = out[b] \o inbox[t]
        <4>1. PICK o \in Seq(Nat), c \in Seq(Nat), z \in Seq(Nat) :
                     o = out[b] /\ c = chunk /\ z = left
          BY <2>2, <3>4
        <4>2. (o \o c) \o z = o \o (c \o z)
          BY Associative
        <4>3. (out[b] \o chunk) \o left = out[b] \o (chunk \o left)
          <5> HIDE DEF left, chunk, b
          <5> QED
            BY <4>1, <4>2, Zenon
        <4> QED
          BY <2>2, <4>3
      <3>7. (out'[b] \o remain'[b]) \o inbox'[t] = (out[b] \o remain[b]) \o inbox[t]
        BY <1>4, <2>2, <2>4, <3>4, <3>6
      <3>8. (out'[t] \o remain'[t]) \o inbox'[b] = (out[t] \o remain[t]) \o inbox[b]
        BY <2>2, <2>4, <3>5
      <3>9. NothingLost'
        BY <1>2, <1>3, <2>1, <2>2, <3>1, <3>7, <3>8
           DEF ByteInv, NothingLost, Tunnels, brother, Sent
      <3> QED
        BY <3>2, <3>3, <3>9 DEF ByteInv
    <2>5. CASE /\ Send(b, chunk) /\ rest(b, chunk) = <<>>
               /\ UNCHANGED <<remain, interest, cancelled, open, cause>>
      BY <1>2, <2>4, <2>5
    <2>6. CASE /\ rest(b, chunk) # <<>> /\ b \notin cancelled
               /\ Send(b, chunk)
               /\ remain' = [remain EXCEPT ![b] = rest(b, chunk)]
               /\ cancelled' = held(t)
               /\ interest' = [watched(b) EXCEPT ![t] = IF t \in cancelled' THEN {} ELSE @]
               /\ UNCHANGED <<open, cause>>
      <3>1. interest'[t] = {} /\ interest'[b] = {"WRITE"}
        BY <1>1, <2>6 DEF TypeOK, watched, held
      <3>2. "CONNECT" \notin interest'["remote"]
        BY <1>1, <3>1 DEF Tunnels
      <3>3. remain'[b] = rest(b, chunk) /\ remain'[t] = remain[t]
        BY <1>1, <2>6 DEF TypeOK
      <3> QED
        BY <2>4, <2>6, <3>2, <3>3
    <2> QED
      BY <1>10, <2>3, <2>5, <2>6 DEF Forward
  <1> QED
    BY <1>5, <1>8, <1>9, <1>10 DEF onReadable

\* ... so does writing what is left ...
LEMMA WritableBytes ==
  ASSUME TypeOK, KeyInv, ByteInv, NEW t \in Tunnels, onWritable(t),
         interest[t] # {}, "WRITE" \in selected[t]
  PROVE  ByteInv'
  <1> DEFINE b == brother(t)
             next == IF t = "local" \/ established THEN b ELSE t
             r == rest(t, remain[t])
  <1>1. b \in Tunnels /\ b # t /\ \A u \in Tunnels : u = t \/ u = b
    BY DEF brother, Tunnels
  <1>2. /\ open = "yes" /\ interest[t] = {"WRITE"} /\ remain[t] # <<>> /\ cause = "none"
        /\ ~established => t = "remote"
    <2>1. cause = "none"
      BY WritingKey DEF ByteInv, Opening
    <2> QED
      BY <2>1, WritingKey
  <1>3. connected
    <2>1. "CONNECT" \in interest["remote"] => remain[t] = <<>>
      BY DEF KeyInv, Connecting
    <2> QED
      BY <1>2, <2>1 DEF connected
  <1>4. UNCHANGED <<established, inbox, ended, sent>> /\ remain[t] \in Seq(Nat)
    BY DEF onWritable, peers, TypeOK
  <1>5. ASSUME Send(t, remain[t]) \/ UNCHANGED out,
               remain'[t] \in {r, <<>>}, remain'[b] \in {remain[b], <<>>}
        PROVE  Apart'
    <2>1. Range(r) \subseteq Range(remain[t])
      BY <1>4, WriteSplits, PartRange
    <2>2. Range(out'[t]) \subseteq Range(out[t]) \cup Range(remain[t]) /\ out'[b] = out[b]
      BY <1>1, <1>4, <1>5, SendRange
    <2>3. Range(remain'[t]) \subseteq Range(remain[t]) /\ Range(remain'[b]) \subseteq Range(remain[b])
      BY <1>5, <2>1, EmptyRange
    <2>4. CASE t = "remote" /\ b = "local"
      BY <1>4, <2>2, <2>3, <2>4 DEF ByteInv, Apart
    <2>5. CASE t = "local" /\ b = "remote"
      BY <1>2, <1>4, <2>2, <2>3, <2>5 DEF ByteInv, Apart
    <2> QED
      BY <1>1, <2>4, <2>5 DEF Tunnels
  <1>6. CASE /\ Send(t, remain[t]) /\ UNCHANGED <<open, cause>>
             /\ remain'[t] = r /\ remain'[b] = remain[b]
             /\ "CONNECT" \notin interest'["remote"]
    <2>1. open' = "yes" /\ connected' /\ cause' = "none"
      BY <1>2, <1>6 DEF connected
    <2>2. Apart'
      BY <1>5, <1>6
    <2>3. out'[t] \o remain'[t] = out[t] \o remain[t] /\ out'[b] = out[b]
      BY <1>1, <1>4, <1>6, SendInOrder, SendRange
    <2>4. \A u \in Tunnels : out'[u] \o remain'[u] = out[u] \o remain[u]
      BY <1>1, <1>6, <2>3
    <2>5. NothingLost'
      BY <1>2, <1>3, <1>4, <2>1, <2>4 DEF ByteInv, NothingLost, Tunnels, Sent
    <2>6. EndDelivered'
      BY <2>1 DEF EndDelivered
    <2>7. ~established => out'["local"] = <<>>
      BY <1>1, <1>2, <2>3 DEF ByteInv, Opening, Tunnels
    <2>8. Opening'
      BY <1>2, <1>4, <2>1, <2>7 DEF ByteInv, Opening, Tunnels
    <2> QED
      BY <2>2, <2>5, <2>6, <2>8 DEF ByteInv
  <1>7. CASE \E why \in {"write", "cancelled key"} :
               dispose(why) /\ (Send(t, remain[t]) \/ UNCHANGED out)
    <2>1. PICK why \in {"write", "cancelled key"} :
            dispose(why) /\ (Send(t, remain[t]) \/ UNCHANGED out)
      BY <1>7
    <2>2. \A u \in Tunnels : remain'[u] = <<>>
      BY <2>1 DEF dispose
    <2>3. Apart'
      BY <1>1, <1>5, <2>1, <2>2
    <2>4. why \in Causes \ (Tunnels \cup {"none"})
      BY DEF Causes, Tunnels
    <2> QED
      BY <1>4, <2>1, <2>3, <2>4, DisposeBytes
  <1>8. CASE /\ Send(t, remain[t])
             /\ remain' = [remain EXCEPT ![t] = rest(t, @)]
             /\ UNCHANGED <<interest, cancelled, open, cause>>
    <2>1. remain'[t] = r /\ remain'[b] = remain[b] /\ "CONNECT" \notin interest'["remote"]
      BY <1>1, <1>3, <1>8 DEF TypeOK, connected
    <2> QED
      BY <1>6, <1>8, <2>1
  <1>9. CASE /\ r = <<>> /\ next \notin cancelled \cup {t}
             /\ Send(t, remain[t])
             /\ remain' = [remain EXCEPT ![t] = <<>>]
             /\ interest' = [interest EXCEPT ![t] = {}, ![next] = {"READ"}]
             /\ UNCHANGED <<open, cause>>
    <2>1. next = b
      BY <1>9
    <2>2. interest' = [interest EXCEPT ![t] = {}, ![b] = {"READ"}]
      BY <1>9, <2>1
    <2>3. interest'[t] = {} /\ interest'[b] = {"READ"}
      BY <1>1, <2>2 DEF TypeOK
    <2>4. "CONNECT" \notin interest'["remote"]
      BY <1>1, <2>3 DEF Tunnels
    <2>5. remain'[t] = r /\ remain'[b] = remain[b]
      BY <1>1, <1>9 DEF TypeOK
    <2> QED
      BY <1>6, <1>9, <2>4, <2>5
  <1> QED
    BY <1>7, <1>8, <1>9 DEF onWritable

\* ... and connecting ...
LEMMA ConnectableBytes ==
  ASSUME TypeOK, KeyInv, ByteInv, NEW t \in Tunnels, onConnectable,
         interest[t] # {}, "CONNECT" \in selected[t]
  PROVE  ByteInv'
  <1>1. t = "remote" /\ open = "yes"
    BY DEF KeyInv, Connecting, Unopened, Tunnels
  <1>2. "CONNECT" \in interest["remote"] /\ \A u \in Tunnels : remain[u] = <<>>
    BY <1>1 DEF KeyInv, Connecting
  <1>3. /\ sent["remote"] = 0 /\ inbox["remote"] = <<>> /\ cause = "none"
        /\ \A u \in Tunnels : out[u] = <<>>
    BY <1>1, <1>2 DEF ByteInv, Opening, connected
  <1>4. UNCHANGED <<inbox, ended, sent>>
    BY DEF onConnectable, peers
  <1>5. inbox["local"] \in Seq(Nat) /\ Sent("local") \in Seq(Nat) /\ CONNECT \in Seq(Nat)
    BY Texts DEF TypeOK, Tunnels
  <1>6. inbox["local"] = Sent("local") /\ Sent("remote") = <<>>
    <2>1. (<<>> \o <<>>) \o inbox["local"] = <<>> \o Sent("local")
      BY <1>1, <1>2, <1>3 DEF ByteInv, NothingLost, connected, Tunnels
    <2>2. <<>> \o <<>> = <<>>
      OBVIOUS
    <2>3. <<>> \o inbox["local"] = inbox["local"] /\ <<>> \o Sent("local") = Sent("local")
      BY <1>5, ConcatEmptySeq
    <2> QED
      BY <1>3, <2>1, <2>2, <2>3, NoneSent DEF Tunnels
  <1>7. (<<>> \o <<>>) \o <<>> = <<>> /\ (<<>> \o <<>>) \o inbox["local"] = Sent("local")
        /\ <<>> \o Sent("local") = Sent("local") /\ <<>> \o Sent("remote") = <<>>
    <2>1. <<>> \o <<>> = <<>>
      OBVIOUS
    <2> QED
      BY <1>5, <1>6, <2>1, ConcatEmptySeq
  <1>8. CASE ~Http /\ Establish /\ UNCHANGED <<sockets, open, cause>>
    <2>1. /\ established /\ established' /\ open' = "yes" /\ connected' /\ cause' = "none"
          /\ \A u \in Tunnels : out'[u] = <<>> /\ remain'[u] = <<>>
      BY <1>1, <1>2, <1>3, <1>8
         DEF ByteInv, Opening, Establish, sockets, connected, Tunnels
    <2>2. Opening' /\ EndDelivered'
      BY <2>1 DEF Opening, EndDelivered
    <2>3. Apart'
      BY <1>3, <1>4, <2>1, EmptyRange DEF Apart, Tunnels
    <2>4. CONNECT = <<>>
      BY <1>8 DEF CONNECT
    <2>5. NothingLost'
      <3>1. /\ (out'["remote"] \o remain'["remote"]) \o inbox'["local"] = CONNECT \o Sent("local")
            /\ (out'["local"] \o remain'["local"]) \o inbox'["remote"] = <<>> \o Sent("remote")
        BY <1>3, <1>4, <1>7, <2>1, <2>4 DEF Tunnels
      <3> QED
        BY <1>4, <2>1, <3>1 DEF NothingLost, Sent
    <2> QED
      BY <2>2, <2>3, <2>5 DEF ByteInv
  <1>9. CASE /\ Http
             /\ Send("remote", CONNECT)
             /\ remain' = [remain EXCEPT !["remote"] = rest("remote", CONNECT)]
             /\ interest' = [interest EXCEPT !["remote"] =
                               IF remain'["remote"] = <<>> THEN {"READ"} ELSE {"WRITE"}]
             /\ UNCHANGED <<established, cancelled, open, cause>>
    <2>1. /\ remain'["remote"] = rest("remote", CONNECT) /\ remain'["local"] = <<>>
          /\ "CONNECT" \notin interest'["remote"]
      BY <1>2, <1>9 DEF TypeOK, Tunnels
    <2>2. /\ out'["local"] = <<>> /\ out'["remote"] \o remain'["remote"] = <<>> \o CONNECT
          /\ Range(out'["remote"]) \subseteq Range(out["remote"]) \cup Range(CONNECT)
          /\ Range(remain'["remote"]) \subseteq Range(CONNECT)
      BY <1>3, <1>5, <1>9, <2>1, SendRange, SendInOrder DEF Tunnels
    <2>3. open' = "yes" /\ connected' /\ cause' = "none"
      BY <1>1, <1>3, <1>9, <2>1 DEF connected
    <2>4. Opening' /\ EndDelivered'
      BY <1>3, <1>4, <1>9, <2>2, <2>3 DEF ByteInv, Opening, EndDelivered
    <2>5. Apart'
      <3>1. Range(CONNECT) \subseteq {0}
        BY DEF Range, CONNECT
      <3> QED
        BY <1>3, <1>4, <2>1, <2>2, <3>1, EmptyRange DEF Apart, Tunnels
    <2>6. <<>> \o CONNECT = CONNECT
      BY <1>5, ConcatEmptySeq
    <2>7. NothingLost'
      <3>1. /\ (out'["remote"] \o remain'["remote"]) \o inbox'["local"] = CONNECT \o Sent("local")
            /\ (out'["local"] \o remain'["local"]) \o inbox'["remote"] = <<>> \o Sent("remote")
        BY <1>3, <1>4, <1>6, <1>7, <2>1, <2>2, <2>6
      <3> QED
        BY <1>3, <1>4, <2>3, <3>1 DEF NothingLost, Sent
    <2> QED
      BY <2>4, <2>5, <2>7 DEF ByteInv
  <1>10. CASE dispose("refused") /\ UNCHANGED <<established, buffered, out>>
    <2>1. \A u \in Tunnels : remain'[u] = <<>>
      BY <1>10 DEF dispose
    <2>2. Apart'
      BY <1>4, <1>10, <2>1, EmptyRange DEF ByteInv, Apart, Tunnels
    <2>3. "refused" \in Causes \ (Tunnels \cup {"none"})
      BY DEF Causes, Tunnels
    <2> QED
      BY <1>10, <2>2, <2>3, DisposeBytes
  <1> QED
    BY <1>8, <1>9, <1>10 DEF onConnectable

\* ... and what the peers do ...
LEMMA PeerWritesBytes ==
  ASSUME TypeOK, ByteInv, NEW t \in Tunnels, PeerWrites(t)
  PROVE  ByteInv'
  <1> DEFINE b == brother(t)
             n == sent[t] + 1
  <1>1. b \in Tunnels /\ b # t /\ brother(b) = t /\ \A u \in Tunnels : u = t \/ u = b
    BY DEF brother, Tunnels
  <1>2. /\ UNCHANGED <<open, established, interest, remain, out, cause>>
        /\ open = "yes" /\ cause = "none" /\ n \in Nat \ {0}
    BY DEF PeerWrites, keys, sockets, ByteInv, Opening, TypeOK
  <1>3. sent'[t] = n /\ sent'[b] = sent[b]
    BY <1>1 DEF PeerWrites, TypeOK
  <1>4. inbox'[t] = Append(inbox[t], n) /\ inbox'[b] = inbox[b]
    BY <1>1, <1>3 DEF PeerWrites, TypeOK
  <1>5. /\ out[b] \o remain[b] \in Seq(Nat) /\ inbox[t] \in Seq(Nat)
        /\ Sent(t) \in Seq(Nat) /\ <<n>> \in Seq(Nat)
    <2>1. out[b] \in Seq(Nat) /\ remain[b] \in Seq(Nat) /\ inbox[t] \in Seq(Nat)
      BY <1>1 DEF TypeOK
    <2>2. out[b] \o remain[b] \in Seq(Nat)
      BY <2>1, ConcatProperties
    <2>3. Sent(t) \in Seq(Nat) /\ <<n>> \in Seq(Nat)
      BY <1>2, Texts
    <2> QED
      BY <2>1, <2>2, <2>3
  <1>6. inbox'[t] = inbox[t] \o <<n>>
    <2>1. \A s \in Seq(Nat), x \in Nat : Append(s, x) = s \o <<x>>
      OBVIOUS
    <2>2. Append(inbox[t], n) = inbox[t] \o <<n>>
      BY <1>2, <1>5, <2>1, Zenon
    <2> QED
      BY <1>4, <2>2
  <1>7. Sent(t)' = Sent(t) \o <<n>> /\ Sent(b)' = Sent(b)
    BY <1>3, OneMoreSent DEF Sent, TypeOK
  <1>8. t = "remote" => connected /\ established
    <2>1. t = "remote" => connected /\ (Http => Range(out["remote"]) \ {0} # {})
      BY DEF PeerWrites, mayWrite
    <2> QED
      BY <2>1 DEF ByteInv, Opening, Apart
  <1>9. UNCHANGED connected
    BY <1>2 DEF connected
  <1>10. Opening' /\ EndDelivered'
    BY <1>1, <1>2, <1>3, <1>4, <1>8, <1>9
       DEF ByteInv, Opening, EndDelivered, Tunnels, brother
  <1>11. Apart'
    <2>1. t = "remote" => 0 \notin Range(inbox'["remote"])
      <3>1. Range(inbox'[t]) = Range(inbox[t]) \cup Range(<<n>>)
        <4>1. PICK x \in Seq(Nat), y \in Seq(Nat) : x = inbox[t] /\ y = <<n>>
          BY <1>5
        <4>2. Range(x \o y) = Range(x) \cup Range(y)
          BY RangeConcatenation
        <4> QED
          BY <1>6, <4>1, <4>2, Zenon
      <3>2. Range(<<n>>) = {n}
        BY DEF Range
      <3> QED
        BY <1>2, <1>8, <3>1, <3>2, SMTT(40) DEF ByteInv, Apart
    <2> QED
      BY <1>1, <1>2, <1>4, <2>1 DEF ByteInv, Apart, Tunnels, brother
  <1>12. ASSUME NEW p \in Seq(Nat),
                (out[b] \o remain[b]) \o inbox[t] = p \o Sent(t)
         PROVE  (out[b] \o remain[b]) \o inbox'[t] = p \o Sent(t)'
    <2>1. PICK o \in Seq(Nat), i \in Seq(Nat), s \in Seq(Nat), x \in Seq(Nat) :
                 o = out[b] \o remain[b] /\ i = inbox[t] /\ s = Sent(t) /\ x = <<n>>
      BY <1>5
    <2>2. (o \o i) \o x = o \o (i \o x) /\ (p \o s) \o x = p \o (s \o x)
      BY Associative, ZenonT(60)
    <2>3. o \o i = p \o s
      BY <1>12, <2>1, Zenon
    <2>4. o \o (i \o x) = p \o (s \o x)
      BY <2>2, <2>3, Zenon
    <2> QED
      BY <1>6, <1>7, <2>1, <2>4, Zenon
  <1>13. NothingLost'
    <2>1. CASE t = "local"
      <3> DEFINE p == IF connected THEN CONNECT ELSE <<>>
      <3>1. p \in Seq(Nat)
        BY Texts
      <3>2. (out[b] \o remain[b]) \o inbox[t] = p \o Sent(t)
        BY <1>2, <2>1 DEF ByteInv, NothingLost, brother
      <3>3. (out[b] \o remain[b]) \o inbox'[t] = p \o Sent(t)'
        BY <1>12, <3>1, <3>2
      <3> QED
        BY <1>2, <1>4, <1>7, <1>9, <2>1, <3>3 DEF ByteInv, NothingLost, brother
    <2>2. CASE t = "remote"
      <3>1. <<>> \in Seq(Nat) /\ b = "local"
        BY <2>2 DEF brother
      <3>2. (out[b] \o remain[b]) \o inbox[t] = <<>> \o Sent(t)
        BY <1>2, <1>8, <2>2, <3>1 DEF ByteInv, NothingLost
      <3>3. (out[b] \o remain[b]) \o inbox'[t] = <<>> \o Sent(t)'
        BY <1>12, <3>1, <3>2
      <3> QED
        BY <1>2, <1>4, <1>7, <1>8, <1>9, <2>2, <3>3 DEF ByteInv, NothingLost, brother
    <2> QED
      BY <2>1, <2>2 DEF Tunnels
  <1> QED
    BY <1>10, <1>11, <1>13 DEF ByteInv

\* (the proxy answers once the CONNECT has gone out)
LEMMA ProxyAnswersBytes ==
  ASSUME TypeOK, KeyInv, ByteInv, ProxyAnswers
  PROVE  ByteInv'
  <1>1. /\ UNCHANGED <<open, established, interest, remain, out, sent, cause>>
        /\ open = "yes" /\ connected /\ ~established
        /\ inbox["remote"] = <<>>
    BY DEF ProxyAnswers, keys, sockets, connected
  <1>2. inbox'["remote"] = answer /\ inbox'["local"] = inbox["local"]
    BY DEF ProxyAnswers, TypeOK, Tunnels
  <1>3. connected'
    BY <1>1 DEF connected
  <1>4. out["local"] = <<>> /\ remain["local"] = <<>> /\ Sent("remote") = <<>>
    BY <1>1, NoneSent DEF ByteInv, Opening, KeyInv, Waiting, Tunnels
  <1>5. Opening' /\ EndDelivered'
    BY <1>1, <1>2, <1>3 DEF ByteInv, Opening, EndDelivered, Sent
  <1>6. Apart'
    BY <1>1 DEF ByteInv, Apart
  <1>7. (<<>> \o <<>>) \o answer = answer \o <<>> /\ answer # <<>>
    BY DEF answer
  <1>8. NothingLost'
    BY <1>1, <1>2, <1>3, <1>4, <1>7 DEF ByteInv, NothingLost, Sent
  <1> QED
    BY <1>5, <1>6, <1>8 DEF ByteInv

\* ... and every other step.
LEMMA ByteStep == TypeOK /\ KeyInv /\ ByteInv /\ [Next]_vars => ByteInv'
  <1> SUFFICES ASSUME TypeOK, KeyInv, ByteInv, [Next]_vars PROVE ByteInv'
    OBVIOUS
  <1>1. CASE onAccepted
    <2>1. /\ open = "no" /\ UNCHANGED <<established, inbox, sent, remain, out>>
          /\ \A t \in Tunnels : /\ out[t] = <<>> /\ inbox[t] = <<>> /\ sent[t] = 0
                                /\ remain[t] = <<>>
      BY <1>1 DEF onAccepted, Accept, peers, sockets, ByteInv, Opening, KeyInv, Unopened
    <2>2. /\ open' = "yes" => ~connected' /\ cause' = "none"
          /\ open' \in {"yes", "disposed"} /\ cause' \in {"none", "refused"}
      BY <1>1, <2>1 DEF onAccepted, Accept, connected, ByteInv, Opening, TypeOK, Tunnels
    <2>3. Opening' /\ EndDelivered' /\ Apart'
      BY <2>1, <2>2 DEF ByteInv, Opening, EndDelivered, Apart, Tunnels
    <2>4. \A t \in Tunnels : Sent(t)' = <<>>
      BY <2>1, NoneSent DEF Sent
    <2>5. (<<>> \o <<>>) \o <<>> = <<>> \o <<>>
      OBVIOUS
    <2>6. NothingLost'
      BY <2>1, <2>2, <2>4, <2>5 DEF NothingLost, Tunnels
    <2> QED
      BY <2>3, <2>6 DEF ByteInv
  <1>2. CASE UNCHANGED <<open, established, interest, inbox, sent, remain, out, cause>>
    BY <1>2 DEF ByteInv, Opening, NothingLost, EndDelivered, Apart, connected, Sent
  <1>3. ASSUME NEW t \in Tunnels, handle(t) PROVE ByteInv'
    BY <1>2, <1>3, ReadableBytes, WritableBytes, ConnectableBytes DEF handle, peers, sockets
  <1>4. CASE select \/ UNCHANGED vars
    BY <1>2, <1>4 DEF select, vars, keys, peers, sockets
  <1>5. ASSUME NEW t \in Tunnels, PeerReads(t) \/ PeerCloses(t) PROVE ByteInv'
    BY <1>2, <1>5 DEF PeerReads, PeerCloses, keys, peers, sockets
  <1> QED
    BY <1>1, <1>3, <1>4, <1>5, PeerWritesBytes, ProxyAnswersBytes DEF Next, Peers

\* Before the accept there is no byte anywhere.
LEMMA ByteInit == Init => ByteInv
  <1> SUFFICES ASSUME Init PROVE ByteInv
    OBVIOUS
  <1>1. /\ open = "no" /\ cause = "none" /\ (~established => Http)
        /\ \A t \in Tunnels : /\ out[t] = <<>> /\ inbox[t] = <<>> /\ sent[t] = 0
                              /\ remain[t] = <<>>
    BY TunnelAssumption DEF Init
  <1> QED
    BY <1>1, EmptyRange
       DEF ByteInv, Opening, NothingLost, EndDelivered, Apart, Tunnels

\* The three invariants hold together.
LEMMA Inductive == Spec => [](TypeOK /\ KeyInv /\ ByteInv)
  <1>1. Init => KeyInv
    BY DEF Init, KeyInv, Unopened, Connecting, Waiting, Holding, Tunnels
  <1> QED
    BY <1>1, ByteInit, TypeCorrect, KeyStep, ByteStep, PTL DEF Spec

-----------------------------------------------------------------------------
(* What the tunnels promise. *)

\* No byte is lost, doubled or reordered between the two sockets.
THEOREM BytesKept == Spec => []NothingLost
  <1>1. ByteInv => NothingLost
    BY DEF ByteInv
  <1> QED
    BY <1>1, Inductive, PTL

\* When one connection ends the other has been given all that was sent on it.
THEOREM EndIsDelivered == Spec => []EndDelivered
  <1>1. ByteInv => EndDelivered
    BY DEF ByteInv
  <1> QED
    BY <1>1, Inductive, PTL

\* The tunnel through the proxy carries nothing before the proxy has accepted it, and the
\* app never sees the proxy's answer.
THEOREM NothingBeforeConnect == Spec => []ConnectFirst
  <1>1. ByteInv => ConnectFirst
    BY DEF ByteInv, Apart, ConnectFirst
  <1> QED
    BY <1>1, Inductive, PTL
=============================================================================
