------------------------------ MODULE Sessions ------------------------------
(***************************************************************************)
(* The UDP and ICMP sessions of the native engine (cpp/udp.c, cpp/icmp.c)  *)
(* and the descriptors they hold.  A session is a struct ng_session on the *)
(* list ng_session: its fields are functions of its pointer.  Time is what *)
(* has passed since the session's field time was set, in seconds.          *)
(*                                                                         *)
(* The kernel is the environment: it hands out the lowest descriptor,      *)
(* keeps one pointer per descriptor in the epoll set and forgets           *)
(* everything about a descriptor that is closed.                           *)
(***************************************************************************)
EXTENDS Integers, Sequences, FiniteSets

CONSTANTS
  UdpFlows,          \* UDP flows of the apps: version, addresses and ports
  DnsFlows,          \* those of them to port 53
  IcmpFlows,         \* pairs of addresses of which the first pings the second
  Ids,               \* identifiers of echo requests
  Pointers,          \* the addresses malloc may return
  Descriptors,       \* the descriptors the process may have for the engine's sockets
  maxsessions,       \* 40 percent of the limit on descriptors
  ICMP_TIMEOUT, UDP_TIMEOUT_53, UDP_TIMEOUT_ANY, UDP_KEEP_TIMEOUT,
  fwd53,             \* the argument of jni_start
  Faults             \* calls that may fail, by name

Flows == UdpFlows \cup IcmpFlows

\* A flow that check_dhcp has answered: it overwrites the session's source address.
LEASED == "10.1.10.1"

ASSUME SessionsAssumption ==
  /\ DnsFlows \subseteq UdpFlows /\ UdpFlows \cap IcmpFlows = {}
  /\ LEASED \notin Flows
  /\ Ids \subseteq Nat \ {0}
  /\ IsFiniteSet(Pointers) /\ {-1, 0} \cap Pointers = {}
  /\ Descriptors \subseteq Nat \ {0}
  /\ maxsessions \in Nat \ {0}
  /\ UDP_TIMEOUT_ANY \in Nat /\ ICMP_TIMEOUT \in 0 .. UDP_TIMEOUT_ANY
  /\ UDP_TIMEOUT_53 \in 0 .. UDP_TIMEOUT_ANY /\ UDP_KEEP_TIMEOUT \in 0 .. UDP_TIMEOUT_ANY
  /\ fwd53 \in BOOLEAN

VARIABLES
  state,      \* "free", UDP_ACTIVE and so on; of ICMP "ACTIVE", and "STOP" if stop is set
  flow,       \* what the session is found by: version, addresses, ports
  socket,     \* the session's descriptor, 0 for none
  idle,       \* now - time, counted up to Long
  id,         \* icmp.id
  opened,     \* the descriptors that are open
  epoll,      \* epoll[d]: the pointer epoll reports for d, 0 if it does not watch d
  inbox,      \* inbox[d]: the identifiers answered by the messages waiting in d
  asked,      \* asked[d]: the identifiers of the requests sent on d (0 for UDP)
  failed,     \* descriptors with an error waiting (SO_ERROR)
  leaked,     \* history: descriptors no session was made for
  echoed      \* history: <<identifier of a ping, identifier of the answer the app got>>

fields == <<state, flow, socket, idle, id>>
kernel == <<opened, epoll, inbox, asked, failed, leaked>>
sessionVars == <<fields, kernel, echoed>>

\* Past every timeout a second more makes no difference.
Long == UDP_TIMEOUT_ANY + 3

registered == {p \in Pointers : state[p] # "free"}
udp == {p \in registered : flow[p] \in UdpFlows \cup {LEASED}}
icmp == {p \in registered : flow[p] \in IcmpFlows}
active == {p \in registered : state[p] = "ACTIVE"}

\* The outcomes of a call: TRUE, and FALSE if it is one of those that may fail.
Outcomes(call) == {TRUE} \cup {FALSE : f \in Faults \cap {call}}

-----------------------------------------------------------------------------
(* Timeouts. *)

\* Integer division as C does it, towards zero.
quotient(a, b) == IF a >= 0 THEN a \div b ELSE -((-a) \div b)

\* get_udp_timeout and get_icmp_timeout before they are scaled.
base_timeout(p) ==
  IF flow[p] \in IcmpFlows THEN ICMP_TIMEOUT
  ELSE IF flow[p] \in DnsFlows THEN UDP_TIMEOUT_53 ELSE UDP_TIMEOUT_ANY

\* The more sessions there are the sooner they expire.
timeout(p, count) ==
  quotient(base_timeout(p) * (100 - (count * 100) \div maxsessions), 100)

\* Mutant: a session expires a second early.
expired_early(p, count) == state[p] = "ACTIVE" /\ idle[p] >= timeout(p, count)

expired(p, count) == state[p] = "ACTIVE" /\ idle[p] > timeout(p, count)

-----------------------------------------------------------------------------
(* The building blocks of the handlers. *)

\* The kernel forgets the descriptors in S.
close(S) ==
  /\ opened' = opened \ S
  /\ epoll' = [d \in Descriptors |-> IF d \in S THEN 0 ELSE epoll[d]]
  /\ inbox' = [d \in Descriptors |-> IF d \in S THEN <<>> ELSE inbox[d]]
  /\ asked' = [d \in Descriptors |-> IF d \in S THEN {} ELSE asked[d]]
  /\ failed' = failed \ S
  /\ UNCHANGED leaked

\* The sessions in S are taken off the list and freed.
free(S) ==
  /\ flow' = [p \in Pointers |-> IF p \in S THEN "none" ELSE flow[p]]
  /\ id' = [p \in Pointers |-> IF p \in S THEN 0 ELSE id[p]]

\* Every session of the list is closed and freed.
clear ==
  /\ close({socket[p] : p \in registered})
  /\ free(registered)
  /\ state' = [p \in Pointers |-> "free"]
  /\ socket' = [p \in Pointers |-> 0]
  /\ idle' = [p \in Pointers |-> 0]
  /\ UNCHANGED echoed

\* Mutant: only ICMP is stopped when a new thread takes over.
allowed_udp(p) == IF state[p] = "ACTIVE" /\ p \in icmp THEN "STOP" ELSE state[p]

\* check_allowed of one session.
allowed(p) ==
  IF state[p] = "ACTIVE" THEN IF p \in icmp THEN "STOP" ELSE "FINISHING"
  ELSE state[p]

check_allowed == state' = [p \in Pointers |-> allowed(p)]

-----------------------------------------------------------------------------
(* The checks of a round. *)

\* check_icmp_session closes and deletes a session at once, ...
icmp_over(count) == {p \in icmp : state[p] = "STOP" \/ expired(p, count)}

\* Mutant: a session that is over by itself is not closed.
udp_expired(count) == {p \in udp : expired(p, count)}

\* ... check_udp_session first closes it ...
udp_over(count) == {p \in udp : state[p] = "FINISHING" \/ expired(p, count)}

\* ... and deletes it when it has been closed for a while.
udp_kept == {p \in udp : state[p] = "CLOSED" /\ idle[p] > UDP_KEEP_TIMEOUT}

\* Mutant: the descriptor's number is kept.
closed_socket_kept(p) == socket[p]

closed_socket(p) == 0

check_sessions(count) ==
  LET gone == icmp_over(count) \cup udp_kept
      over == udp_over(count)
  IN  /\ close({socket[p] : p \in icmp_over(count) \cup over})
      /\ free(gone)
      /\ state' = [p \in Pointers |->
                    IF p \in gone THEN "free" ELSE IF p \in over THEN "CLOSED" ELSE state[p]]
      /\ socket' = [p \in Pointers |->
                     IF p \in gone THEN 0 ELSE IF p \in over THEN closed_socket(p) ELSE socket[p]]
      /\ idle' = [p \in Pointers |-> IF p \in gone \cup over THEN 0 ELSE idle[p]]
      /\ UNCHANGED echoed

-----------------------------------------------------------------------------
(* What a socket has: check_icmp_socket and check_udp_socket. *)

\* recv returns an error that is waiting, or takes the first message, which is forwarded
\* to tun; an empty one is taken for the end.
receive(p, end, done) ==
  LET d == socket[p]
  IN  /\ idle' = [idle EXCEPT ![p] = 0]
      /\ \/ /\ d \in failed
            /\ state' = [state EXCEPT ![p] = end]
            /\ failed' = failed \ {d}
            /\ UNCHANGED <<inbox, echoed>>
         \/ /\ d \notin failed
            /\ inbox' = [inbox EXCEPT ![d] = Tail(@)]
            /\ \/ /\ "empty" \in Faults
                  /\ state' = [state EXCEPT ![p] = end]
                  /\ UNCHANGED echoed
               \/ \E written \in Outcomes("write") :
                    /\ state' = [state EXCEPT ![p] = IF ~written \/ done THEN end ELSE @]
                    /\ echoed' = IF written /\ p \in icmp
                                 THEN echoed \cup {<<Head(inbox[d]), id[p]>>}
                                 ELSE echoed
            /\ UNCHANGED failed
      /\ UNCHANGED <<flow, socket, id, opened, epoll, asked, leaked>>

check_icmp_socket(p, error) ==
  \/ /\ error  \* getsockopt takes the error
     /\ state' = [state EXCEPT ![p] = "STOP"]
     /\ idle' = [idle EXCEPT ![p] = 0]
     /\ failed' = failed \ {socket[p]}
     /\ UNCHANGED <<flow, socket, id, opened, epoll, inbox, asked, leaked, echoed>>
  \/ /\ ~error
     /\ receive(p, "STOP", FALSE)

\* An answer on port 53 is the last one ("Prevent too many open files").
check_udp_socket(p) == receive(p, "FINISHING", flow[p] \in DnsFlows)

-----------------------------------------------------------------------------
(* Packets from tun: handle_ip, handle_udp and handle_icmp. *)

\* A packet: its flow, the identifier of an echo request, 0 for UDP, and whether
\* check_dhcp takes it.
Packets == [flow : UdpFlows, id : {0}, dhcp : {FALSE}]
           \cup [flow : UdpFlows \ DnsFlows, id : {0}, dhcp : {TRUE}]
           \cup [flow : IcmpFlows, id : Ids, dhcp : {FALSE}]

\* Mutant: a UDP session that is over is passed over too.
matching_active(pkt) == {p \in registered : flow[p] = pkt.flow /\ state[p] = "ACTIVE"}

\* The sessions a packet belongs to; handle_icmp passes over those that are stopped.
matching(pkt) == {p \in registered : flow[p] = pkt.flow /\ state[p] # "STOP"}

\* has_udp_session
has_udp_session(pkt) == (pkt.flow \in DnsFlows /\ ~fwd53) \/ matching(pkt) # {}

\* handle_ip's limit: count is that of the beginning of the round.
over_limit(pkt, count) ==
  /\ count >= maxsessions
  /\ pkt.flow \in IcmpFlows \/ ~has_udp_session(pkt)

\* The session at p takes the packet, on descriptor d: check_dhcp answers it, or drops it
\* if it is no request; or sendto takes it, has no room for it, or fails; an error waiting
\* is what sendto returns.
forward(p, d, age, i, pkt) ==
  LET put(st, f, a) ==
        /\ state' = [state EXCEPT ![p] = st]
        /\ flow' = [flow EXCEPT ![p] = f]
        /\ socket' = [socket EXCEPT ![p] = d]
        /\ idle' = [idle EXCEPT ![p] = a]
        /\ id' = [id EXCEPT ![p] = i]
      end == IF pkt.flow \in IcmpFlows THEN "STOP" ELSE "FINISHING"
  IN  /\ \/ /\ pkt.dhcp
            /\ \E f \in {LEASED, pkt.flow} : put("ACTIVE", f, age)
            /\ UNCHANGED <<asked, failed>>
         \/ /\ ~pkt.dhcp /\ d \notin failed
            /\ put("ACTIVE", pkt.flow, 0)
            /\ \E taken \in Outcomes("again") :
                 asked' = IF taken THEN [asked EXCEPT ![d] = @ \cup {pkt.id}] ELSE asked
            /\ UNCHANGED failed
         \/ /\ ~pkt.dhcp
            /\ d \in failed \/ "send" \in Faults
            /\ put(end, pkt.flow, 0)
            /\ failed' = failed \ {d}
            /\ UNCHANGED asked
      /\ UNCHANGED <<inbox, echoed>>

\* The descriptor socket returns: POSIX promises the lowest one.
lowest == {d \in Descriptors \ opened : \A e \in Descriptors \ opened : d =< e}

\* A new session: the descriptor that protect refuses is not closed, and one that epoll
\* does not take is only logged.
open_session(pkt) ==
  \/ /\ lowest = {} \/ "socket" \in Faults
     /\ UNCHANGED sessionVars
  \/ /\ "protect" \in Faults
     /\ \E d \in lowest :
          /\ opened' = opened \cup {d}
          /\ leaked' = leaked \cup {d}
     /\ UNCHANGED <<fields, epoll, inbox, asked, failed, echoed>>
  \/ \E d \in lowest :
       \E p \in Pointers \ registered :
         /\ opened' = opened \cup {d}
         /\ \E watched \in Outcomes("epoll_ctl") :
              epoll' = [epoll EXCEPT ![d] = IF watched THEN p ELSE 0]
         /\ forward(p, d, 0, pkt.id, pkt)
         /\ UNCHANGED leaked

\* Mutant: at the limit sessions are checked at once, to make room.
handle_ip_checks(pkt, count) ==
  IF over_limit(pkt, count) THEN check_sessions(count)
  ELSE IF matching(pkt) = {} THEN open_session(pkt)
  ELSE UNCHANGED sessionVars

\* A packet for a UDP session that is over is ignored, until the session is deleted.
handle_ip(pkt, count) ==
  \/ /\ over_limit(pkt, count)
     /\ UNCHANGED sessionVars
  \/ /\ ~over_limit(pkt, count) /\ matching(pkt) = {}
     /\ open_session(pkt)
  \/ /\ ~over_limit(pkt, count)
     /\ \E p \in matching(pkt) :
          \/ /\ state[p] # "ACTIVE"
             /\ UNCHANGED sessionVars
          \/ /\ state[p] = "ACTIVE"
             /\ forward(p, socket[p], idle[p], id[p], pkt)
             /\ UNCHANGED <<opened, epoll, leaked>>

-----------------------------------------------------------------------------
InitSessions ==
  /\ state = [p \in Pointers |-> "free"] /\ flow = [p \in Pointers |-> "none"]
  /\ socket = [p \in Pointers |-> 0] /\ idle = [p \in Pointers |-> 0]
  /\ id = [p \in Pointers |-> 0]
  /\ opened = {} /\ epoll = [d \in Descriptors |-> 0]
  /\ inbox = [d \in Descriptors |-> <<>>] /\ asked = [d \in Descriptors |-> {}]
  /\ failed = {} /\ leaked = {} /\ echoed = {}

SessionsType ==
  /\ state \in [Pointers -> {"free", "ACTIVE", "FINISHING", "CLOSED", "STOP"}]
  /\ flow \in [Pointers -> Flows \cup {"none", LEASED}]
  /\ socket \in [Pointers -> Descriptors \cup {0}]
  /\ idle \in [Pointers -> 0 .. Long]
  /\ id \in [Pointers -> Ids \cup {0}]
  /\ opened \subseteq Descriptors /\ failed \subseteq opened /\ leaked \subseteq opened
  /\ epoll \in [Descriptors -> Pointers \cup {0}]
  /\ inbox \in [Descriptors -> Seq(Ids \cup {0})]
  /\ asked \in [Descriptors -> SUBSET (Ids \cup {0})]
  /\ echoed \subseteq (Ids \cup {0}) \X (Ids \cup {0})
=============================================================================
