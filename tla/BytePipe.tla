------------------------------ MODULE BytePipe ------------------------------
(***************************************************************************)
(* What a relay promises the two peers it stands between: each receives    *)
(* what the other has sent, in order, without loss or repetition and not   *)
(* before the relay is established; and if the relay closes because one    *)
(* of them has closed, the other has received everything before.           *)
(* It promises nothing about when.                                         *)
(***************************************************************************)
EXTENDS Integers, Sequences

CONSTANTS Ends,      \* the relay's two connections
          other(_)   \* the one of a connection that is not it

VARIABLES
  relay,     \* "no", "connecting", "established" or "closed"
  reason,    \* the end whose close the relay has passed on, or anything else
  written,   \* written[t]: how many bytes the peer of t has sent
  received   \* received[t]: the bytes the peer of t has been given

pipeVars == <<relay, reason, written, received>>

\* The bytes of a peer are numbered.
stream(t) == [i \in 1 .. written[t] |-> i]

\* The bytes from t that have not been delivered yet, up to the nth.
undelivered(t, n) == SubSeq(stream(t), Len(received[other(t)]) + 1, n)

\* Some more of what t's peer has sent reaches the other one, or nothing does.
Carry(t) ==
  \/ UNCHANGED received
  \/ /\ relay = "established"
     /\ \E n \in Len(received[other(t)]) .. written[t] :
          received' = [received EXCEPT ![other(t)] = @ \o undelivered(t, n)]

PipeInit ==
  /\ relay = "no" /\ reason = "none"
  /\ written = [t \in Ends |-> 0]
  /\ received = [t \in Ends |-> <<>>]

Write(t) ==
  /\ relay # "closed"
  /\ written' = [written EXCEPT ![t] = @ + 1]
  /\ UNCHANGED <<relay, reason, received>>

Open ==
  /\ \/ relay = "no" /\ relay' \in {"connecting", "established"}
     \/ relay = "connecting" /\ relay' = "established"
  /\ UNCHANGED <<reason, written, received>>

Deliver(t) ==
  /\ Carry(t)
  /\ UNCHANGED <<relay, reason, written>>

\* The relay gives up for a reason of its own, perhaps in the middle of a delivery, ...
Abort(t) ==
  /\ relay # "closed"
  /\ relay' = "closed"
  /\ reason' \notin Ends
  /\ Carry(t)
  /\ UNCHANGED written

\* ... or passes on that t's peer has closed.
Close(t) ==
  /\ relay # "closed"
  /\ relay' = "closed"
  /\ reason' = t
  /\ received[other(t)] = stream(t)
  /\ UNCHANGED <<written, received>>

PipeNext ==
  \/ Open
  \/ \E t \in Ends : Write(t) \/ Deliver(t) \/ Abort(t) \/ Close(t)

PipeSpec == PipeInit /\ [][PipeNext]_pipeVars
=============================================================================
