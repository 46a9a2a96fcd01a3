------------------------------- MODULE Tunnel -------------------------------
(***************************************************************************)
(* A pair of tunnels of the Java engine (tunnel/Tunnel.java and its        *)
(* subclasses) on the selector of core/TcpProxyServer.java: "local" is the *)
(* connection the redirected app has made to the proxy server, "remote"    *)
(* the one to the destination (RawTunnel) or to the HTTP proxy             *)
(* (HttpConnectTunnel).  One thread runs the selector and every handler.   *)
(*                                                                         *)
(* The sockets and the peers behind them are the environment.  A channel   *)
(* has one key per selector: registering again replaces its interest, and  *)
(* throws while a cancelled key waits for the next select.                 *)
(***************************************************************************)
EXTENDS Integers, SequencesExt

CONSTANTS Http,      \* the remote tunnel is an HttpConnectTunnel
          RoomLocal, \* bytes the send buffer of the local socket holds
          RoomRemote,\* bytes the send buffer of the remote socket holds
          Up, Down,  \* how many bytes the app and the destination send
          Request,   \* the length of the CONNECT request
          GL_BUFFER  \* the capacity of the buffer the handlers share

Tunnels == {"local", "remote"}
Room == [local |-> RoomLocal, remote |-> RoomRemote]
Count == [local |-> Up, remote |-> Down]

ASSUME TunnelAssumption ==
  /\ Http \in BOOLEAN
  /\ RoomLocal \in Nat \ {0} /\ RoomRemote \in Nat \ {0}
  /\ Up \in Nat /\ Down \in Nat
  /\ GL_BUFFER \in Nat \ {0} /\ Request \in 1 .. GL_BUFFER

Ops == {"READ", "WRITE", "CONNECT"}

VARIABLES
  open,        \* "no" before the accept, then "yes" until the pair is disposed
  established, \* isTunnelEstablished of the remote tunnel
  interest,    \* interest[t]: the interest of t's valid key, {} if it has none
  cancelled,   \* the tunnels whose cancelled key the selector still holds
  selected,    \* selected[t]: the ready set of t's key while it is a selected key
  remain,      \* remain[t]: m_SendRemainBuffer, what is still to be sent on t
  inbox,       \* inbox[t]: sent by the peer of t and not read yet
  ended,       \* the tunnels whose peer has closed the connection
  buffered,    \* buffered[t]: bytes in the send buffer of t's socket
  out,         \* history: out[t] is everything written to t's socket
  sent,        \* history: how many bytes the peer of t has sent
  cause        \* history: why the pair was disposed

keys == <<interest, cancelled, selected>>
peers == <<inbox, ended, sent>>
sockets == <<remain, buffered, out>>
vars == <<open, established, keys, peers, sockets, cause>>

brother(t) == IF t = "local" THEN "remote" ELSE "local"

\* The bytes of a peer are numbered from 1; those of the CONNECT, if there is one, and
\* of the answer to it are 0.
CONNECT == [i \in 1 .. (IF Http THEN Request ELSE 0) |-> 0]
answer == <<0>>
Sent(t) == [i \in 1 .. sent[t] |-> i]

\* Why a pair was disposed: a tunnel has read the end of its connection, a write has
\* failed, a cancelled key was used, or there has been no connection.
Causes == Tunnels \cup {"none", "refused", "write", "cancelled key"}

-----------------------------------------------------------------------------
(* The handlers' building blocks. *)

\* dispose: both channels are closed and with them their keys.
dispose(why) ==
  /\ open' = "disposed"
  /\ cause' = why
  /\ interest' = [t \in Tunnels |-> {}]
  /\ cancelled' = {}
  /\ remain' = [t \in Tunnels |-> <<>>]

\* How much of s the socket of t takes.
accepted(t, s) ==
  LET free == Room[t] - buffered[t] IN IF Len(s) < free THEN Len(s) ELSE free

\* Mutant: what has gone out stays in the buffer.
rest_rewound(t, s) == IF accepted(t, s) = Len(s) THEN <<>> ELSE s

\* What a write leaves in the buffer.
rest(t, s) == SubSeq(s, accepted(t, s) + 1, Len(s))

\* write, up to what is left.
Send(t, s) ==
  /\ buffered' = [buffered EXCEPT ![t] = @ + accepted(t, s)]
  /\ out' = [out EXCEPT ![t] = @ \o SubSeq(s, 1, accepted(t, s))]

-----------------------------------------------------------------------------
(* The handlers. *)

\* Mutant: the local tunnel reads before the proxy has answered.
Accept_reading ==
  /\ open = "no"
  /\ open' = "yes"
  /\ interest' = [local |-> {"READ"}, remote |-> {"CONNECT"}]
  /\ UNCHANGED cause

\* onAccepted: the remote tunnel starts to connect; or the port is in no NAT session,
\* or the remote tunnel cannot be made, and the local one is disposed.
Accept ==
  /\ open = "no"
  /\ \/ /\ open' = "yes"
        /\ interest' = [interest EXCEPT !["remote"] = {"CONNECT"}]
        /\ UNCHANGED cause
     \/ /\ open' = "disposed"
        /\ cause' = "refused"
        /\ UNCHANGED interest

onAccepted ==
  /\ Accept
  /\ UNCHANGED <<established, cancelled, selected, peers, sockets>>

\* onTunnelEstablished: both begin to receive.
Establish ==
  /\ established' = TRUE
  /\ interest' = [t \in Tunnels |-> {"READ"}]
  /\ UNCHANGED cancelled

\* onConnectable and onConnected.
onConnectable ==
  /\ \/ /\ ~Http
        /\ Establish
        /\ UNCHANGED <<sockets, open, cause>>
     \/ /\ Http
        /\ Send("remote", CONNECT)
        /\ remain' = [remain EXCEPT !["remote"] = rest("remote", CONNECT)]
        /\ interest' = [interest EXCEPT !["remote"] =
                          IF remain'["remote"] = <<>> THEN {"READ"} ELSE {"WRITE"}]
        /\ UNCHANGED <<established, cancelled, open, cause>>
     \/ /\ dispose("refused")
        /\ UNCHANGED <<established, buffered, out>>
  /\ UNCHANGED peers

\* Mutant: the reader goes on when its brother cannot keep up.
held_none(t) == cancelled

\* The tunnels with a cancelled key once t has had to wait for its brother.
held(t) == cancelled \cup {t}

\* Mutants: what is left waits for no event; the reading goes on with it.
watched_none(t) == [interest EXCEPT ![t] = {}]
watched_both(t) == [interest EXCEPT ![t] = @ \cup {"WRITE"}]

\* The interest of the keys when t has to wait for room.
watched(t) == [interest EXCEPT ![t] = {"WRITE"}]

\* write on the brother of t: what its socket does not take waits for OP_WRITE, and t
\* stops reading.
Forward(t, chunk) ==
  LET b == brother(t)
  IN  \/ /\ rest(b, chunk) = <<>>
         /\ Send(b, chunk)
         /\ UNCHANGED <<remain, interest, cancelled, open, cause>>
      \/ /\ rest(b, chunk) # <<>> /\ b \notin cancelled
         /\ Send(b, chunk)
         /\ remain' = [remain EXCEPT ![b] = rest(b, chunk)]
         /\ cancelled' = held(t)
         /\ interest' = [watched(b) EXCEPT ![t] = IF t \in cancelled' THEN {} ELSE @]
         /\ UNCHANGED <<open, cause>>
      \/ /\ rest(b, chunk) # <<>> /\ b \in cancelled  \* CancelledKeyException
         /\ Send(b, chunk)
         /\ dispose("cancelled key")
      \/ /\ b \in ended
         /\ dispose("write")
         /\ UNCHANGED <<buffered, out>>

\* How many bytes one read returns at most.
chunk_max(t) == IF Len(inbox[t]) < GL_BUFFER THEN Len(inbox[t]) ELSE GL_BUFFER

\* onReadable and afterReceived: the answer to the CONNECT is consumed, everything else
\* forwarded.
onReadable(t) ==
  \/ /\ inbox[t] = <<>>
     /\ dispose(t)
     /\ UNCHANGED <<established, peers, buffered, out>>
  \/ /\ inbox[t] # <<>>
     /\ inbox' = [inbox EXCEPT ![t] = SubSeq(@, chunk_max(t) + 1, Len(@))]
     /\ \/ /\ t = "remote" /\ ~established
           /\ Establish
           /\ UNCHANGED <<sockets, open, cause>>
        \/ /\ t = "remote" /\ ~established
           /\ dispose("refused")
           /\ UNCHANGED <<established, buffered, out>>
        \/ /\ t = "local" \/ established
           /\ Forward(t, SubSeq(inbox[t], 1, chunk_max(t)))
           /\ UNCHANGED established
     /\ UNCHANGED <<ended, sent>>

\* onWritable: once the rest has gone out the key is cancelled and the brother, or this
\* tunnel if it is still waiting for the proxy, begins to receive.
onWritable(t) ==
  LET next == IF t = "local" \/ established THEN brother(t) ELSE t
  IN  /\ \/ /\ rest(t, remain[t]) # <<>>
            /\ Send(t, remain[t])
            /\ remain' = [remain EXCEPT ![t] = rest(t, @)]
            /\ UNCHANGED <<interest, cancelled, open, cause>>
         \/ /\ rest(t, remain[t]) = <<>> /\ next \notin cancelled \cup {t}
            /\ Send(t, remain[t])
            /\ remain' = [remain EXCEPT ![t] = <<>>]
            /\ interest' = [interest EXCEPT ![t] = {}, ![next] = {"READ"}]
            /\ cancelled' = cancelled \cup {t}
            /\ UNCHANGED <<open, cause>>
         \/ /\ rest(t, remain[t]) = <<>> /\ next \in cancelled \cup {t}
            /\ Send(t, remain[t])  \* CancelledKeyException
            /\ dispose("cancelled key")
         \/ /\ t \in ended
            /\ dispose("write")
            /\ UNCHANGED <<buffered, out>>
      /\ UNCHANGED <<established, peers>>

-----------------------------------------------------------------------------
(* TcpProxyServer.run *)

ready(t) ==
  {op \in interest[t] :
     CASE op = "READ"    -> inbox[t] # <<>> \/ t \in ended
       [] op = "WRITE"   -> buffered[t] < Room[t] \/ t \in ended
       [] op = "CONNECT" -> TRUE}

\* select: forgets the cancelled keys and waits for a key to be ready.
select ==
  /\ open = "yes"
  /\ \A t \in Tunnels : selected[t] = {}
  /\ cancelled # {} \/ \E t \in Tunnels : ready(t) # {}
  /\ cancelled' = {}
  /\ selected' = [t \in Tunnels |-> ready(t)]
  /\ UNCHANGED <<open, established, interest, peers, sockets, cause>>

\* One turn of the loop over the selected keys: a key that is not valid any more is
\* skipped, and a valid one is asked for what it was ready for at the select.
handle(t) ==
  /\ selected[t] # {}
  /\ selected' = [selected EXCEPT ![t] = {}]
  /\ \/ /\ interest[t] = {}
        /\ UNCHANGED <<open, established, interest, cancelled, peers, sockets, cause>>
     \/ /\ interest[t] # {}
        /\ \/ "READ" \in selected[t] /\ onReadable(t)
           \/ "WRITE" \in selected[t] /\ onWritable(t)
           \/ "CONNECT" \in selected[t] /\ onConnectable

-----------------------------------------------------------------------------
(* The environment. *)

connected == open = "yes" /\ "CONNECT" \notin interest["remote"]

\* Behind an HTTP proxy the destination answers what the client has sent, so nothing
\* follows the proxy's answer to the CONNECT at once, and that answer comes whole.
mayWrite(t) ==
  t = "remote" => connected /\ (Http => Range(out["remote"]) \ {0} # {})

PeerWrites(t) ==
  /\ open = "yes" /\ t \notin ended /\ mayWrite(t) /\ sent[t] < Count[t]
  /\ sent' = [sent EXCEPT ![t] = @ + 1]
  /\ inbox' = [inbox EXCEPT ![t] = Append(@, sent'[t])]
  /\ UNCHANGED <<open, established, keys, ended, sockets, cause>>

ProxyAnswers ==
  /\ connected /\ ~established /\ "remote" \notin ended
  /\ inbox["remote"] = <<>> /\ out["remote"] = CONNECT
  /\ inbox' = [inbox EXCEPT !["remote"] = answer]
  /\ UNCHANGED <<open, established, keys, ended, sent, sockets, cause>>

PeerReads(t) ==
  /\ open = "yes" /\ buffered[t] > 0
  /\ buffered' = [buffered EXCEPT ![t] = 0]
  /\ UNCHANGED <<open, established, keys, peers, remain, out, cause>>

PeerCloses(t) ==
  /\ open = "yes" /\ t \notin ended
  /\ t = "remote" => connected
  /\ ended' = ended \cup {t}
  /\ UNCHANGED <<open, established, keys, inbox, sent, sockets, cause>>

-----------------------------------------------------------------------------
Init ==
  /\ open = "no" /\ established = ~Http /\ cause = "none"
  /\ interest = [t \in Tunnels |-> {}] /\ cancelled = {}
  /\ selected = [t \in Tunnels |-> {}]
  /\ remain = [t \in Tunnels |-> <<>>] /\ out = [t \in Tunnels |-> <<>>]
  /\ inbox = [t \in Tunnels |-> <<>>] /\ ended = {}
  /\ buffered = [t \in Tunnels |-> 0] /\ sent = [t \in Tunnels |-> 0]

Peers ==
  \/ ProxyAnswers
  \/ \E t \in Tunnels : PeerWrites(t) \/ PeerReads(t) \/ PeerCloses(t)

Next == onAccepted \/ select \/ (\E t \in Tunnels : handle(t)) \/ Peers

Spec == Init /\ [][Next]_vars

\* The selector's thread goes on, and the peers read what they are sent.
FairSpec ==
  /\ Spec
  /\ WF_vars(select)
  /\ \A t \in Tunnels : WF_vars(handle(t)) /\ WF_vars(PeerReads(t))

-----------------------------------------------------------------------------
\* Each variable holds what the code can put there: a key is interested in one
\* operation, and a tunnel keeps at most the rest of one read.
TypeOK ==
  /\ open \in {"no", "yes", "disposed"} /\ established \in BOOLEAN
  /\ interest \in [Tunnels -> {{}} \cup {{op} : op \in Ops}]
  /\ selected \in [Tunnels -> SUBSET Ops]
  /\ cancelled \subseteq Tunnels /\ ended \subseteq Tunnels /\ cause \in Causes
  /\ remain \in [Tunnels -> Seq(Nat)]
  /\ inbox \in [Tunnels -> Seq(Nat)] /\ out \in [Tunnels -> Seq(Nat)]
  /\ buffered \in [Tunnels -> Nat] /\ sent \in [Tunnels -> Nat]
  /\ \A t \in Tunnels : buffered[t] <= Room[t] /\ sent[t] <= Count[t]

\* Every byte of either peer, behind the CONNECT or the answer to it, is in the other's
\* socket, in the one remainder that waits for it or not read yet, in the order it was
\* sent (GL_BUFFER and m_SendRemainBuffer are reused for every read).
NothingLost ==
  open = "yes" =>
    /\ out["remote"] \o remain["remote"] \o inbox["local"]
         = (IF connected THEN CONNECT ELSE <<>>) \o Sent("local")
    /\ out["local"] \o remain["local"] \o inbox["remote"]
         = (IF ~established /\ inbox["remote"] # <<>> THEN answer ELSE <<>>)
           \o Sent("remote")

\* What is left of a write is waiting for OP_WRITE, and until it has gone out nothing is
\* read that would overwrite it.
RemainderWatched ==
  \A t \in Tunnels :
    remain[t] # <<>> => /\ interest[t] = {"WRITE"}
                        /\ "READ" \notin interest[brother(t)]

\* The app's bytes do not reach the proxy before it has accepted the CONNECT, nor the
\* proxy's answer the app.
ConnectFirst ==
  Http => /\ ~established => Range(out["remote"]) \subseteq {0}
          /\ 0 \notin Range(out["local"])

\* A connection that ends disposes of both: all that its peer has sent has been written
\* to the other one before.
EndDelivered ==
  /\ cause = "local"  => out["remote"] = CONNECT \o Sent("local")
  /\ cause = "remote" => out["local"] = Sent("remote")

\* The relay as its peers see it: the CONNECT and the answer to it are not part of it.
relay ==
  CASE open = "disposed" -> "closed"
    [] open = "no"       -> "no"
    [] OTHER             -> IF connected /\ established THEN "established" ELSE "connecting"

payload(t) ==
  SubSeq(out[t], (IF t = "remote" THEN Len(CONNECT) ELSE 0) + 1, Len(out[t]))

Pipe == INSTANCE BytePipe WITH
  Ends <- Tunnels, other <- brother, reason <- cause, written <- sent,
  received <- [t \in Tunnels |-> payload(t)]

\* A pair of tunnels is a relay that passes on each byte in order, and an end only after
\* all that came before it, whatever the sockets take at a time (Tunnel.java, write,
\* onWritable and dispose).
PipeRefined == Pipe!PipeSpec

\* What is left of a write goes out (or the pair is disposed).
Flushed == \A t \in Tunnels : remain[t] # <<>> ~> remain[t] = <<>>

\* Cancelling "the write event" (Tunnel.java 153) is all onWritable does to a key: a
\* tunnel that has had to wait once goes on reading what its peer sends.
ReadingResumes ==
  \A t \in Tunnels :
    (open = "yes" /\ inbox[t] # <<>> /\ established)
      ~> (open = "disposed" \/ inbox[t] = <<>>)

\* A CONNECT that does not go out at once is followed by "begin to receive the proxy
\* server's response" (Tunnel.java 157): no pair is disposed for the use of its own
\* cancelled key.
ResponseAwaited == cause # "cancelled key"
=============================================================================
