--------------------------- MODULE Engine_proofs ---------------------------
(***************************************************************************)
(* What holds of Engine for every value of its constants.                  *)
(***************************************************************************)
EXTENDS Engine, FiniteSetTheorems, TLAPS

-----------------------------------------------------------------------------
(* Lemmas about the operators. *)

\* There are finitely many sessions, so they can be counted.
LEMMA CountType == Cardinality(active) \in Nat
  <1>1. active \subseteq Pointers
    BY DEF active, registered
  <1> QED
    BY <1>1, FS_Subset, FS_CardinalityType, SessionsAssumption

\* A timeout is an integer, also when there are more sessions than the limit.
LEMMA TimeoutType ==
  ASSUME NEW p \in Pointers, NEW count \in Nat
  PROVE  timeout(p, count) \in Int
  <1>1. base_timeout(p) \in Nat
    BY SessionsAssumption DEF base_timeout
  <1>2. (count * 100) \div maxsessions \in Int
    BY SessionsAssumption
  <1> DEFINE b == base_timeout(p) * (100 - (count * 100) \div maxsessions)
  <1>3. b \in Int
    BY <1>1, <1>2
  <1> HIDE DEF b
  <1>4. quotient(b, 100) \in Int
    BY <1>3 DEF quotient
  <1> QED
    BY <1>4 DEF timeout, b

\* Only active sessions expire.
LEMMA ExpiredActive ==
  \A p, count : expired(p, count) => state[p] = "ACTIVE"
  BY DEF expired

-----------------------------------------------------------------------------
(* Type correctness of what the handlers do to the sessions. *)

\* Closing descriptors keeps what the kernel knows well formed, and drops all it knew.
LEMMA CloseType ==
  ASSUME SessionsType, NEW S, close(S)
  PROVE  /\ opened' \subseteq Descriptors /\ failed' \subseteq opened'
         /\ epoll' \in [Descriptors -> Pointers \cup {0}]
         /\ inbox' \in [Descriptors -> Seq(Ids \cup {0})]
         /\ asked' \in [Descriptors -> SUBSET (Ids \cup {0})]
         /\ leaked' = leaked
  <1>1. <<>> \in Seq(Ids \cup {0})
    OBVIOUS
  <1> QED
    BY <1>1 DEF close, SessionsType

\* clear
LEMMA ClearType ==
  ASSUME SessionsType, DescriptorsOwned, clear
  PROVE  SessionsType'
  <1>1. close({socket[p] : p \in registered})
    BY DEF clear
  <1>2. leaked' \subseteq opened'
    BY DEF clear, close, SessionsType, DescriptorsOwned
  <1>3. 0 \in 0 .. Long
    BY SessionsAssumption DEF Long
  <1> QED
    BY <1>1, <1>2, <1>3, CloseType DEF clear, free, SessionsType

\* check_sessions
LEMMA CheckType ==
  ASSUME SessionsType, DescriptorsOwned, NEW count \in Nat, check_sessions(count)
  PROVE  SessionsType'
  <1> DEFINE over == udp_over(count)
             gone == icmp_over(count) \cup udp_kept
             S == {socket[p] : p \in icmp_over(count) \cup over}
  <1>1. close(S) /\ free(gone)
    BY DEF check_sessions
  <1>2. leaked' \subseteq opened'
    <2>1. over \subseteq registered /\ icmp_over(count) \subseteq registered
      BY DEF udp_over, icmp_over, udp, icmp
    <2> HIDE DEF over
    <2>2. \A d \in S : d \notin leaked
      BY <2>1 DEF DescriptorsOwned
    <2> QED
      BY <1>1, <2>2 DEF close, SessionsType
  <1>3. 0 \in 0 .. Long
    BY SessionsAssumption DEF Long
  <1>4. /\ state' \in [Pointers -> {"free", "ACTIVE", "FINISHING", "CLOSED", "STOP"}]
        /\ socket' \in [Pointers -> Descriptors \cup {0}]
        /\ idle' \in [Pointers -> 0 .. Long]
    BY <1>3 DEF check_sessions, SessionsType, closed_socket
  <1>5. echoed' = echoed
    BY DEF check_sessions
  <1> HIDE DEF S, gone
  <1>6. /\ flow' \in [Pointers -> Flows \cup {"none", LEASED}]
        /\ id' \in [Pointers -> Ids \cup {0}]
    BY <1>1 DEF free, SessionsType
  <1> QED
    BY <1>1, <1>2, <1>4, <1>5, <1>6, CloseType DEF SessionsType

\* check_icmp_socket and check_udp_socket, of a session with a socket.
LEMMA ReceiveType ==
  ASSUME SessionsType, NEW p \in Pointers, NEW end \in {"FINISHING", "STOP"}, NEW done,
         socket[p] \in Descriptors, inbox[socket[p]] # <<>>, receive(p, end, done)
  PROVE  SessionsType'
  <1>1. /\ Head(inbox[socket[p]]) \in Ids \cup {0}
        /\ Tail(inbox[socket[p]]) \in Seq(Ids \cup {0})
    BY DEF SessionsType
  <1>2. 0 \in 0 .. Long
    BY SessionsAssumption DEF Long
  <1>3. /\ idle' \in [Pointers -> 0 .. Long]
        /\ UNCHANGED <<flow, socket, id, opened, epoll, asked, leaked>>
    BY <1>2 DEF receive, SessionsType
  <1>4. state' \in [Pointers -> {"free", "ACTIVE", "FINISHING", "CLOSED", "STOP"}]
    BY DEF receive, SessionsType
  <1>5. inbox' \in [Descriptors -> Seq(Ids \cup {0})]
    <2>1. \/ UNCHANGED inbox
          \/ inbox' = [inbox EXCEPT ![socket[p]] = Tail(inbox[socket[p]])]
      BY Zenon DEF receive
    <2>2. inbox \in [Descriptors -> Seq(Ids \cup {0})]
      BY DEF SessionsType
    <2> QED
      BY <1>1, <2>1, <2>2
  <1>7. failed' \subseteq failed
    BY DEF receive
  <1>6. echoed' \subseteq (Ids \cup {0}) \X (Ids \cup {0})
    BY <1>1 DEF receive, SessionsType
  <1> QED
    BY <1>3, <1>4, <1>5, <1>6, <1>7 DEF SessionsType

\* The answer to a ping or a UDP packet, and SO_ERROR.
LEMMA IcmpErrorType ==
  ASSUME SessionsType, NEW p \in Pointers, NEW error \in BOOLEAN,
         socket[p] \in Descriptors, error \/ inbox[socket[p]] # <<>>,
         check_icmp_socket(p, error)
  PROVE  SessionsType'
  <1>1. CASE error
    <2>1. 0 \in 0 .. Long
      BY SessionsAssumption DEF Long
    <2>2. /\ state' = [state EXCEPT ![p] = "STOP"]
          /\ idle' = [idle EXCEPT ![p] = 0]
          /\ failed' = failed \ {socket[p]}
          /\ UNCHANGED <<flow, socket, id, opened, epoll, inbox, asked, leaked, echoed>>
      BY <1>1 DEF check_icmp_socket
    <2> QED
      BY <2>1, <2>2 DEF SessionsType
  <1>2. CASE ~error
    BY <1>2, ReceiveType DEF check_icmp_socket
  <1> QED
    BY <1>1, <1>2

\* A session takes a packet, as a new one or again.
LEMMA ForwardType ==
  ASSUME SessionsType, NEW p \in Pointers, NEW d \in Descriptors, NEW age \in 0 .. Long,
         NEW i \in Ids \cup {0}, NEW pkt \in Packets, forward(p, d, age, i, pkt),
         opened \subseteq opened', opened' \subseteq Descriptors, leaked' \subseteq opened',
         epoll' \in [Descriptors -> Pointers \cup {0}]
  PROVE  SessionsType'
  <1>1. pkt.flow \in Flows /\ pkt.id \in Ids \cup {0}
    BY DEF Packets, Flows
  <1>2. 0 \in 0 .. Long
    BY SessionsAssumption DEF Long
  <1>3. UNCHANGED <<inbox, echoed>>
    BY DEF forward
  <1>4. state' \in [Pointers -> {"free", "ACTIVE", "FINISHING", "CLOSED", "STOP"}]
    BY DEF forward, SessionsType
  <1>5. flow' \in [Pointers -> Flows \cup {"none", LEASED}]
    BY <1>1 DEF forward, SessionsType
  <1>6. /\ socket' \in [Pointers -> Descriptors \cup {0}]
        /\ idle' \in [Pointers -> 0 .. Long]
        /\ id' \in [Pointers -> Ids \cup {0}]
    <2>1. /\ socket' = [socket EXCEPT ![p] = d]
          /\ id' = [id EXCEPT ![p] = i]
          /\ \/ idle' = [idle EXCEPT ![p] = age]
             \/ idle' = [idle EXCEPT ![p] = 0]
      BY Zenon DEF forward
    <2>2. /\ socket \in [Pointers -> Descriptors \cup {0}]
          /\ idle \in [Pointers -> 0 .. Long]
          /\ id \in [Pointers -> Ids \cup {0}]
      BY DEF SessionsType
    <2> QED
      BY <1>2, <2>1, <2>2
  <1>7. failed' \subseteq failed
    BY DEF forward
  <1>8. asked' \in [Descriptors -> SUBSET (Ids \cup {0})]
    <2>1. asked' = asked \/ asked' = [asked EXCEPT ![d] = asked[d] \cup {pkt.id}]
      BY DEF forward
    <2> QED
      BY <1>1, <2>1 DEF SessionsType
  <1> QED
    BY <1>3, <1>4, <1>5, <1>6, <1>7, <1>8 DEF SessionsType

\* handle_ip
LEMMA PacketType ==
  ASSUME SessionsType, DescriptorsOwned, NEW pkt \in Packets, NEW count, handle_ip(pkt, count)
  PROVE  SessionsType'
  <1>1. CASE UNCHANGED sessionVars
    BY <1>1 DEF sessionVars, fields, kernel, SessionsType
  <1>2. CASE open_session(pkt)
    <2>1. CASE UNCHANGED sessionVars
      BY <2>1, <1>1
    <2>2. ASSUME NEW d \in lowest,
                 opened' = opened \cup {d}, leaked' = leaked \cup {d},
                 UNCHANGED <<fields, epoll, inbox, asked, failed, echoed>>
          PROVE  SessionsType'
      BY <2>2 DEF lowest, fields, SessionsType
    <2>3. ASSUME NEW d \in lowest, NEW p \in Pointers \ registered, NEW watched,
                 opened' = opened \cup {d},
                 epoll' = [epoll EXCEPT ![d] = IF watched THEN p ELSE 0],
                 forward(p, d, 0, pkt.id, pkt), UNCHANGED leaked
          PROVE  SessionsType'
      <3>1. d \in Descriptors /\ 0 \in 0 .. Long /\ pkt.id \in Ids \cup {0}
        <4>1. d \in Descriptors
          BY DEF lowest
        <4>2. 0 \in 0 .. Long
          BY SessionsAssumption DEF Long
        <4>3. pkt.id \in Ids \cup {0}
          BY DEF Packets
        <4> QED
          BY <4>1, <4>2, <4>3
      <3>2. epoll' \in [Descriptors -> Pointers \cup {0}]
        BY <2>3 DEF SessionsType
      <3>3. opened \subseteq opened' /\ opened' \subseteq Descriptors /\ leaked' \subseteq opened'
        BY <2>3, <3>1 DEF SessionsType
      <3> QED
        BY <2>3, <3>1, <3>2, <3>3, ForwardType
    <2> QED
      BY <1>2, <2>1, <2>2, <2>3 DEF open_session
  <1>3. ASSUME NEW p \in matching(pkt), state[p] = "ACTIVE",
               forward(p, socket[p], idle[p], id[p], pkt), UNCHANGED <<opened, epoll, leaked>>
        PROVE  SessionsType'
    <2>1. p \in registered /\ p \in Pointers
      BY DEF matching, registered
    <2>2. /\ socket[p] \in Descriptors /\ idle[p] \in 0 .. Long
          /\ id[p] \in Ids \cup {0}
      BY <1>3, <2>1 DEF DescriptorsOwned, SessionsType
    <2>3. /\ opened \subseteq opened' /\ opened' \subseteq Descriptors
          /\ leaked' \subseteq opened' /\ epoll' \in [Descriptors -> Pointers \cup {0}]
      BY <1>3 DEF SessionsType
    <2> QED
      BY <1>3, <2>1, <2>2, <2>3, ForwardType
  <1> QED
    BY <1>1, <1>2, <1>3 DEF handle_ip

-----------------------------------------------------------------------------
(* The descriptors. *)

\* Who owns what does not change with a session's state alone.
LEMMA OwnedKept ==
  ASSUME SessionsType, DescriptorsOwned, UNCHANGED <<socket, opened, leaked>>,
         \A p \in Pointers : /\ state'[p] = "free" <=> state[p] = "free"
                             /\ state'[p] = "CLOSED" <=> state[p] = "CLOSED"
  PROVE  DescriptorsOwned'
  <1>1. registered' = registered
    BY DEF registered
  <1>2. registered \subseteq Pointers
    BY DEF registered
  <1> QED
    BY <1>1, <1>2 DEF DescriptorsOwned

\* clear
LEMMA ClearOwned ==
  ASSUME SessionsType, DescriptorsOwned, clear
  PROVE  DescriptorsOwned'
  <1>1. registered' = {}
    BY DEF clear, registered
  <1>2. opened' = opened \ {socket[p] : p \in registered} /\ leaked' = leaked
    BY DEF clear, close
  <1>3. opened' \ leaked' = {}
    BY <1>2 DEF DescriptorsOwned
  <1> QED
    BY <1>1, <1>3 DEF DescriptorsOwned

\* check_allowed
LEMMA AllowedOwned ==
  ASSUME SessionsType, DescriptorsOwned, check_allowed, UNCHANGED <<socket, opened, leaked>>
  PROVE  DescriptorsOwned'
  BY OwnedKept DEF check_allowed, allowed

\* check_sessions closes what it frees.
LEMMA CheckOwned ==
  ASSUME SessionsType, DescriptorsOwned, NEW count, check_sessions(count)
  PROVE  DescriptorsOwned'
  <1> DEFINE over == udp_over(count)
             stopped == icmp_over(count)
             gone == stopped \cup udp_kept
             S == {socket[p] : p \in stopped \cup over}
  <1>1. /\ opened' = opened \ S /\ leaked' = leaked
        /\ \A p \in Pointers :
             /\ state'[p] = IF p \in gone THEN "free"
                            ELSE IF p \in over THEN "CLOSED" ELSE state[p]
             /\ socket'[p] = IF p \in gone \cup over THEN 0 ELSE socket[p]
    BY DEF check_sessions, close, closed_socket
  <1>2. /\ over \subseteq registered /\ stopped \subseteq registered
        /\ udp_kept \subseteq registered /\ registered \subseteq Pointers
        /\ \A p \in udp_kept : state[p] = "CLOSED"
        /\ \A p \in over \cup stopped : state[p] # "CLOSED"
    BY ExpiredActive DEF udp_over, icmp_over, udp_kept, udp, icmp, registered
  <1> HIDE DEF over, stopped
  <1>3. registered' = registered \ gone
    BY <1>1, <1>2 DEF registered
  <1>4. \A p \in registered : socket[p] = 0 <=> state[p] = "CLOSED"
    BY DEF DescriptorsOwned
  <1>5. \A p \in registered' : socket'[p] = 0 <=> state'[p] = "CLOSED"
    BY <1>1, <1>2, <1>3, <1>4
  <1>6. \A p \in registered' : \A q \in registered' :
          socket'[p] = socket'[q] /\ socket'[p] # 0 => p = q
    BY <1>1, <1>2, <1>3 DEF DescriptorsOwned
  <1>7. \A p \in registered' : socket'[p] \notin leaked'
    <2>1. 0 \notin leaked
      BY SessionsAssumption DEF SessionsType
    <2> QED
      BY <1>1, <1>2, <1>3, <2>1 DEF DescriptorsOwned
  <1>8. opened' \ leaked' = {socket'[p] : p \in registered'} \ {0}
    <2>1. opened \ leaked = {socket[p] : p \in registered} \ {0}
      BY DEF DescriptorsOwned
    <2>2. ASSUME NEW d, d \in opened' \ leaked'
          PROVE  d \in {socket'[p] : p \in registered'} \ {0}
      <3>1. d \in opened \ leaked /\ d \notin S
        BY <2>2, <1>1
      <3>2. PICK p \in registered : d = socket[p] /\ d # 0
        BY <3>1, <2>1
      <3>3. p \notin stopped \cup over
        BY <3>1, <3>2
      <3>4. p \notin udp_kept
        BY <3>2, <1>2, <1>4
      <3> QED
        BY <3>2, <3>3, <3>4, <1>1, <1>2, <1>3
    <2>3. ASSUME NEW p \in registered', socket'[p] # 0
          PROVE  socket'[p] \in opened' \ leaked'
      <3>1. p \in registered /\ p \in Pointers /\ p \notin gone
        BY <1>2, <1>3
      <3>2. p \notin over /\ socket'[p] = socket[p]
        BY <2>3, <3>1, <1>1
      <3>3. socket[p] \in opened \ leaked
        BY <2>1, <2>3, <3>1, <3>2
      <3>4. socket[p] \notin S
        <4>1. ASSUME NEW q \in stopped \cup over, socket[q] = socket[p]
              PROVE  FALSE
          <5>1. q \in registered
            BY <1>2
          <5>2. q = p
            BY <5>1, <4>1, <3>1, <3>2, <2>3 DEF DescriptorsOwned
          <5> QED
            BY <5>2, <3>1, <3>2
        <4> QED
          BY <4>1
      <3> QED
        BY <3>2, <3>3, <3>4, <1>1
    <2> QED
      BY <2>2, <2>3
  <1> QED
    BY <1>5, <1>6, <1>7, <1>8 DEF DescriptorsOwned
-----------------------------------------------------------------------------
(* The invariant of the sessions alone. *)

\* What epoll points to is a session on the list with that descriptor.
EpollOwned ==
  \A d \in Descriptors : epoll[d] # 0 => epoll[d] \in registered /\ socket[epoll[d]] = d

\* Only ICMP has the field stop.
StopIsIcmp == \A p \in registered : state[p] = "STOP" => flow[p] \in IcmpFlows

Watched == \A p \in active : epoll[socket[p]] = p \/ "epoll_ctl" \in Faults

SessionsInv == SessionsType /\ DescriptorsOwned /\ EpollOwned /\ OneSession /\ StopIsIcmp

\* No two sessions get a flow in common when none is added and none comes back from STOP.
LEMMA OneKept ==
  ASSUME OneSession, StopIsIcmp, registered' \subseteq registered,
         \A p \in registered' :
           /\ flow'[p] = flow[p] \/ (flow'[p] = LEASED /\ state'[p] # "STOP")
           /\ state[p] = "STOP" => state'[p] = "STOP"
           /\ state'[p] = "STOP" => state[p] = "STOP" \/ p \in icmp
  PROVE  OneSession' /\ StopIsIcmp'
  <1>1. OneSession'
    <2> SUFFICES ASSUME NEW p \in registered', NEW q \in registered',
                        flow'[p] = flow'[q], flow'[p] # LEASED,
                        state'[p] # "STOP", state'[q] # "STOP"
                 PROVE  p = q
      BY DEF OneSession
    <2>1. p \in registered /\ q \in registered /\ flow[p] = flow[q] /\ flow[p] # LEASED
      OBVIOUS
    <2>2. state[p] # "STOP" /\ state[q] # "STOP"
      OBVIOUS
    <2> QED
      BY <2>1, <2>2 DEF OneSession
  <1>2. StopIsIcmp'
    <2> SUFFICES ASSUME NEW p \in registered', state'[p] = "STOP"
                 PROVE  flow'[p] \in IcmpFlows
      BY DEF StopIsIcmp
    <2> QED
      BY DEF StopIsIcmp, icmp
  <1> QED
    BY <1>1, <1>2

\* clear
LEMMA ClearInv ==
  ASSUME SessionsInv, clear
  PROVE  SessionsInv' /\ Watched'
  <1>1. SessionsType' /\ DescriptorsOwned'
    BY ClearType, ClearOwned DEF SessionsInv
  <1>2. registered' = {}
    BY DEF clear, registered
  <1>3. EpollOwned'
    BY DEF clear, close, EpollOwned, SessionsInv
  <1> QED
    BY <1>1, <1>2, <1>3 DEF SessionsInv, OneSession, StopIsIcmp, Watched, active

\* A new thread leaves no session active, so none that its epoll set lacks.
LEMMA AllowedInv ==
  ASSUME SessionsInv, check_allowed,
         UNCHANGED <<flow, socket, idle, id, kernel, echoed>>
  PROVE  SessionsInv' /\ Watched'
  <1>1. UNCHANGED <<opened, epoll, inbox, asked, failed, leaked>>
    BY DEF kernel
  <1>2. /\ state \in [Pointers -> {"free", "ACTIVE", "FINISHING", "CLOSED", "STOP"}]
        /\ \A p \in Pointers : state'[p] = allowed(p)
        /\ state' \in [Pointers -> {"free", "ACTIVE", "FINISHING", "CLOSED", "STOP"}]
    BY DEF check_allowed, allowed, SessionsInv, SessionsType
  <1>3. SessionsType'
    BY <1>1, <1>2 DEF SessionsInv, SessionsType
  <1>4. registered' = registered /\ registered \subseteq Pointers
    BY <1>2 DEF registered, allowed
  <1>5. DescriptorsOwned'
    BY <1>1, AllowedOwned DEF SessionsInv
  <1>6. EpollOwned'
    BY <1>1, <1>4 DEF EpollOwned, SessionsInv
  <1>7. OneSession' /\ StopIsIcmp'
    BY <1>2, <1>4, OneKept DEF SessionsInv, allowed
  <1>8. active' = {}
    BY <1>2, <1>4 DEF active, allowed
  <1> QED
    BY <1>3, <1>5, <1>6, <1>7, <1>8 DEF SessionsInv, Watched

\* The checks of a round.
LEMMA CheckInv ==
  ASSUME SessionsInv, NEW count \in Nat, check_sessions(count)
  PROVE  SessionsInv' /\ (Watched => Watched')
  <1> DEFINE over == udp_over(count)
             stopped == icmp_over(count)
             gone == stopped \cup udp_kept
             S == {socket[p] : p \in stopped \cup over}
  <1>1. SessionsType' /\ DescriptorsOwned'
    BY CheckType, CheckOwned DEF SessionsInv
  <1>2. /\ \A d \in Descriptors : epoll'[d] = IF d \in S THEN 0 ELSE epoll[d]
        /\ \A p \in Pointers :
             /\ state'[p] = IF p \in gone THEN "free"
                            ELSE IF p \in over THEN "CLOSED" ELSE state[p]
             /\ socket'[p] = IF p \in gone \cup over THEN 0 ELSE socket[p]
             /\ flow'[p] = IF p \in gone THEN "none" ELSE flow[p]
    BY DEF check_sessions, close, free, closed_socket
  <1>3. /\ over \subseteq registered /\ stopped \subseteq registered
        /\ udp_kept \subseteq registered /\ registered \subseteq Pointers
        /\ \A p \in udp_kept : state[p] = "CLOSED"
        /\ \A p \in over : state[p] \in {"FINISHING", "ACTIVE"}
        /\ \A p \in stopped : state[p] # "CLOSED"
    BY ExpiredActive DEF udp_over, icmp_over, udp_kept, udp, icmp, registered
  <1> HIDE DEF over, stopped
  <1>4. registered' = registered \ gone
    BY <1>2, <1>3 DEF registered
  <1>5. OneSession' /\ StopIsIcmp'
    <2>1. ASSUME NEW p \in registered'
          PROVE  /\ flow'[p] = flow[p]
                 /\ state[p] = "STOP" => state'[p] = "STOP"
                 /\ state'[p] = "STOP" => state[p] = "STOP"
      BY <1>2, <1>3, <1>4
    <2> QED
      BY <1>4, <2>1, OneKept DEF SessionsInv
  <1>6. EpollOwned'
    <2> SUFFICES ASSUME NEW d \in Descriptors, epoll'[d] # 0
                 PROVE  epoll'[d] \in registered' /\ socket'[epoll'[d]] = d
      BY DEF EpollOwned
    <2>1. d \notin S /\ epoll'[d] = epoll[d]
      BY <1>2
    <2>2. epoll[d] \in registered /\ socket[epoll[d]] = d
      BY <2>1 DEF EpollOwned, SessionsInv
    <2>3. epoll[d] \notin stopped \cup over
      BY <2>1, <2>2
    <2>4. epoll[d] \notin udp_kept
      BY <1>3, <2>2, SessionsAssumption DEF DescriptorsOwned, SessionsInv
    <2> QED
      BY <1>2, <1>3, <1>4, <2>1, <2>2, <2>3, <2>4
  <1>7. ASSUME Watched
        PROVE  Watched'
    <2> SUFFICES ASSUME NEW p \in active', "epoll_ctl" \notin Faults
                 PROVE  epoll'[socket'[p]] = p
      BY DEF Watched
    <2>1. p \in registered' /\ state'[p] = "ACTIVE"
      BY DEF active
    <2>2. p \in registered /\ p \notin gone \cup over /\ state[p] = "ACTIVE" /\ socket'[p] = socket[p]
      BY <2>1, <1>2, <1>3, <1>4
    <2>3. epoll[socket[p]] = p
      BY <1>7, <2>2 DEF Watched, active
    <2>4. socket[p] \in Descriptors
      BY <2>2, <1>3 DEF SessionsInv, SessionsType, DescriptorsOwned
    <2>5. socket[p] \notin S
      <3>1. ASSUME NEW q \in stopped \cup over, socket[q] = socket[p]
            PROVE  FALSE
        <4>1. q \in registered /\ socket[p] # 0
          BY <1>3, <2>4, SessionsAssumption
        <4>2. q = p
          BY <4>1, <3>1, <2>2 DEF DescriptorsOwned, SessionsInv
        <4> QED
          BY <4>2, <2>2
      <3> QED
        BY <3>1
    <2> QED
      BY <1>2, <2>2, <2>3, <2>4, <2>5
  <1> QED
    BY <1>1, <1>5, <1>6, <1>7 DEF SessionsInv
-----------------------------------------------------------------------------
(* Handlers while reports wait. *)

\* What a handler may not take away from the sessions epoll has reported.
Stable ==
  /\ opened \subseteq opened'
  /\ \A p \in registered :
       /\ p \in registered' /\ socket'[p] = socket[p]
       /\ socket[p] \in opened => epoll'[socket[p]] = epoll[socket[p]]
       /\ p \in icmp' => p \in icmp

\* A session that is not closed has a descriptor.
LEMMA HasSocket ==
  ASSUME SessionsInv, NEW p \in registered, state[p] # "CLOSED"
  PROVE  /\ p \in Pointers /\ socket[p] \in opened \ leaked
         /\ socket[p] \in Descriptors /\ socket[p] # 0
  <1>1. p \in Pointers
    BY DEF registered
  <1>2. socket[p] # 0
    BY DEF SessionsInv, DescriptorsOwned
  <1>3. socket[p] \in opened \ leaked
    BY <1>2 DEF SessionsInv, DescriptorsOwned
  <1>4. socket[p] \in Descriptors
    BY <1>3 DEF SessionsInv, SessionsType
  <1> QED
    BY <1>1, <1>2, <1>3, <1>4

\* An open session goes on or ends, or gets the flow no packet has.
LEMMA StateInv ==
  ASSUME SessionsInv, SessionsType', NEW p \in registered, state[p] # "CLOSED",
         NEW st, NEW f, state' = [state EXCEPT ![p] = st], flow' = [flow EXCEPT ![p] = f],
         \/ st = state[p] /\ f = flow[p]
         \/ st = "ACTIVE" /\ f = LEASED /\ state[p] = "ACTIVE"
         \/ st = "STOP" /\ f = flow[p] /\ p \in icmp
         \/ st = "FINISHING" /\ f = flow[p] /\ p \in udp,
         UNCHANGED <<socket, opened, epoll, leaked>>
  PROVE  SessionsInv' /\ (Watched => Watched') /\ Stable
  <1>1. /\ state \in [Pointers -> {"free", "ACTIVE", "FINISHING", "CLOSED", "STOP"}]
        /\ flow \in [Pointers -> Flows \cup {"none", LEASED}]
        /\ p \in Pointers /\ state[p] # "free" /\ registered \subseteq Pointers
    BY DEF SessionsInv, SessionsType, registered
  <1>2. \A q \in Pointers : /\ state'[q] = IF q = p THEN st ELSE state[q]
                            /\ flow'[q] = IF q = p THEN f ELSE flow[q]
    BY <1>1
  <1>3. st \notin {"free", "CLOSED"}
    BY <1>1
  <1>4. registered' = registered
    BY <1>1, <1>2, <1>3 DEF registered
  <1>5. DescriptorsOwned'
    BY <1>1, <1>2, <1>3, OwnedKept DEF SessionsInv
  <1>6. EpollOwned'
    BY <1>4 DEF EpollOwned, SessionsInv
  <1>7. p \in udp => state[p] # "STOP" /\ p \notin icmp
    BY SessionsAssumption DEF SessionsInv, StopIsIcmp, udp, icmp, Flows
  <1>8. \A q \in registered :
          /\ flow'[q] = flow[q] \/ (flow'[q] = LEASED /\ state'[q] # "STOP")
          /\ state[q] = "STOP" => state'[q] = "STOP"
          /\ state'[q] = "STOP" => state[q] = "STOP" \/ q \in icmp
    BY <1>1, <1>2, <1>7
  <1>9. OneSession' /\ StopIsIcmp'
    BY <1>4, <1>8, OneKept DEF SessionsInv
  <1>10. Watched => Watched'
    <2>1. active' \subseteq active
      BY <1>1, <1>2, <1>4 DEF active
    <2> QED
      BY <2>1 DEF Watched
  <1>11. Stable
    BY <1>1, <1>4, <1>8, SessionsAssumption DEF Stable, icmp, Flows
  <1> QED
    BY <1>5, <1>6, <1>9, <1>10, <1>11 DEF SessionsInv

\* check_icmp_socket and check_udp_socket, after recv.
LEMMA ReceiveInv ==
  ASSUME SessionsInv, NEW p \in registered, state[p] # "CLOSED", inbox[socket[p]] # <<>>,
         NEW end, NEW done, receive(p, end, done),
         (end = "STOP" /\ p \in icmp) \/ (end = "FINISHING" /\ p \in udp)
  PROVE  SessionsInv' /\ (Watched => Watched') /\ Stable
  <1>1. SessionsType'
    BY HasSocket, ReceiveType DEF SessionsInv
  <1>2. /\ UNCHANGED <<flow, socket, opened, epoll, leaked>>
        /\ state' = [state EXCEPT ![p] = end] \/ state' = [state EXCEPT ![p] = state[p]]
    BY DEF receive
  <1>3. flow' = [flow EXCEPT ![p] = flow[p]]
    BY <1>2 DEF SessionsInv, SessionsType
  <1>4. CASE state' = [state EXCEPT ![p] = end]
    BY <1>1, <1>2, <1>3, <1>4, StateInv
  <1>5. CASE state' = [state EXCEPT ![p] = state[p]]
    <2> HIDE DEF SessionsInv
    <2> QED
      BY <1>1, <1>2, <1>3, <1>5, StateInv
  <1> QED
    BY <1>2, <1>4, <1>5

\* check_icmp_socket
LEMMA IcmpInv ==
  ASSUME SessionsInv, NEW p \in icmp, state[p] # "CLOSED", NEW error \in BOOLEAN,
         error \/ inbox[socket[p]] # <<>>, check_icmp_socket(p, error)
  PROVE  SessionsInv' /\ (Watched => Watched') /\ Stable
  <1>1. p \in registered
    BY DEF icmp
  <1>2. CASE error
    <2>1. SessionsType'
      BY <1>1, <1>2, HasSocket, IcmpErrorType DEF SessionsInv
    <2>2. /\ UNCHANGED <<flow, socket, opened, epoll, leaked>>
          /\ state' = [state EXCEPT ![p] = "STOP"]
      BY <1>2 DEF check_icmp_socket
    <2>3. flow' = [flow EXCEPT ![p] = flow[p]]
      BY <2>2 DEF SessionsInv, SessionsType
    <2> QED
      BY <1>1, <2>1, <2>2, <2>3, StateInv
  <1>3. CASE ~error
    BY <1>1, <1>3, ReceiveInv DEF check_icmp_socket
  <1> QED
    BY <1>2, <1>3
\* A session takes another packet.
LEMMA ForwardInv ==
  ASSUME SessionsInv, SessionsType', NEW pkt \in Packets, NEW p \in matching(pkt),
         state[p] = "ACTIVE", forward(p, socket[p], idle[p], id[p], pkt),
         UNCHANGED <<opened, epoll, leaked>>
  PROVE  SessionsInv' /\ (Watched => Watched') /\ Stable
  <1>1. p \in registered /\ p \in Pointers /\ flow[p] = pkt.flow
    BY DEF matching, registered
  <1>2. socket' = socket
    <2>1. socket' = [socket EXCEPT ![p] = socket[p]]
      BY Zenon DEF forward
    <2> QED
      BY <2>1 DEF SessionsInv, SessionsType
  <1> DEFINE end == IF pkt.flow \in IcmpFlows THEN "STOP" ELSE "FINISHING"
  <1>3. \/ /\ pkt.dhcp
           /\ state' = [state EXCEPT ![p] = "ACTIVE"]
           /\ flow' = [flow EXCEPT ![p] = LEASED]
        \/ /\ state' = [state EXCEPT ![p] = "ACTIVE"]
           /\ flow' = [flow EXCEPT ![p] = pkt.flow]
        \/ /\ state' = [state EXCEPT ![p] = end]
           /\ flow' = [flow EXCEPT ![p] = pkt.flow]
    BY Zenon DEF forward
  <1>4. CASE /\ state' = [state EXCEPT ![p] = "ACTIVE"]
             /\ flow' = [flow EXCEPT ![p] = LEASED]
    BY <1>1, <1>2, <1>4, StateInv
  <1>5. CASE /\ state' = [state EXCEPT ![p] = "ACTIVE"]
             /\ flow' = [flow EXCEPT ![p] = pkt.flow]
    <2>1. state[p] = "ACTIVE"
      OBVIOUS
    <2> QED
      BY <1>1, <1>2, <1>5, <2>1, StateInv
  <1>6. CASE /\ state' = [state EXCEPT ![p] = end]
             /\ flow' = [flow EXCEPT ![p] = pkt.flow]
    <2>1. pkt.flow \in UdpFlows \cup IcmpFlows
      BY DEF Packets
    <2>2. (end = "STOP" /\ p \in icmp) \/ (end = "FINISHING" /\ p \in udp)
      BY <1>1, <2>1 DEF udp, icmp
    <2> HIDE DEF end
    <2>3. CASE end = "STOP" /\ p \in icmp
      BY <1>1, <1>2, <1>6, <2>3, StateInv
    <2>4. CASE end = "FINISHING" /\ p \in udp
      BY <1>1, <1>2, <1>6, <2>4, StateInv
    <2> QED
      BY <2>2, <2>3, <2>4
  <1> QED
    BY <1>3, <1>4, <1>5, <1>6

\* A new session with a new descriptor.
LEMMA OpenInv ==
  ASSUME SessionsInv, SessionsType', NEW pkt \in Packets, matching(pkt) = {},
         NEW d \in lowest, NEW p \in Pointers \ registered,
         opened' = opened \cup {d}, leaked' = leaked,
         NEW watched \in Outcomes("epoll_ctl"),
         epoll' = [epoll EXCEPT ![d] = IF watched THEN p ELSE 0],
         forward(p, d, 0, pkt.id, pkt)
  PROVE  SessionsInv' /\ (Watched => Watched') /\ Stable
  <1> DEFINE end == IF pkt.flow \in IcmpFlows THEN "STOP" ELSE "FINISHING"
  <1>1. d \in Descriptors \ opened /\ d # 0 /\ p \in Pointers /\ p # 0
    BY SessionsAssumption DEF lowest
  <1>2. \E st \in {"ACTIVE", end} : \E f \in {pkt.flow, LEASED} :
          /\ state' = [state EXCEPT ![p] = st]
          /\ flow' = [flow EXCEPT ![p] = f]
          /\ socket' = [socket EXCEPT ![p] = d]
          /\ f = LEASED => st = "ACTIVE"
    <2>1. \/ /\ state' = [state EXCEPT ![p] = "ACTIVE"]
             /\ flow' = [flow EXCEPT ![p] = LEASED]
             /\ socket' = [socket EXCEPT ![p] = d]
          \/ /\ state' = [state EXCEPT ![p] = "ACTIVE"]
             /\ flow' = [flow EXCEPT ![p] = pkt.flow]
             /\ socket' = [socket EXCEPT ![p] = d]
          \/ /\ state' = [state EXCEPT ![p] = end]
             /\ flow' = [flow EXCEPT ![p] = pkt.flow]
             /\ socket' = [socket EXCEPT ![p] = d]
      BY Zenon DEF forward
    <2>2. pkt.flow # LEASED
      BY SessionsAssumption DEF Packets, Flows
    <2> QED
      BY <2>1, <2>2
  <1>3. PICK st \in {"ACTIVE", end}, f \in {pkt.flow, LEASED} :
          /\ state' = [state EXCEPT ![p] = st]
          /\ flow' = [flow EXCEPT ![p] = f]
          /\ socket' = [socket EXCEPT ![p] = d]
          /\ f = LEASED => st = "ACTIVE"
    BY <1>2
  <1>4. /\ registered \subseteq Pointers
        /\ \A q \in Pointers : /\ state'[q] = IF q = p THEN st ELSE state[q]
                               /\ flow'[q] = IF q = p THEN f ELSE flow[q]
                               /\ socket'[q] = IF q = p THEN d ELSE socket[q]
        /\ \A e \in Descriptors :
             epoll'[e] = IF e # d THEN epoll[e] ELSE IF watched THEN p ELSE 0
    BY <1>3 DEF SessionsInv, SessionsType, registered
  <1>5. st \in {"ACTIVE", "STOP", "FINISHING"} /\ (st = "STOP" => f \in IcmpFlows)
    BY <1>3
  <1> HIDE DEF end
  <1>6. registered' = registered \cup {p}
    BY <1>1, <1>4, <1>5 DEF registered
  <1>7. \A q \in registered : socket[q] \in opened \cup {0}
    BY DEF SessionsInv, DescriptorsOwned
  <1>8. DescriptorsOwned'
    <2>1. \A q \in registered' : socket'[q] = 0 <=> state'[q] = "CLOSED"
      BY <1>1, <1>4, <1>5, <1>6 DEF SessionsInv, DescriptorsOwned
    <2>2. \A q \in registered' : \A r \in registered' :
            socket'[q] = socket'[r] /\ socket'[q] # 0 => q = r
      BY <1>1, <1>4, <1>6, <1>7 DEF SessionsInv, DescriptorsOwned
    <2>3. d \notin leaked
      BY <1>1 DEF SessionsInv, SessionsType
    <2>4. \A q \in registered' : socket'[q] \notin leaked'
      BY <1>1, <1>4, <1>6, <2>3 DEF SessionsInv, DescriptorsOwned
    <2>5. opened \ leaked = {socket[q] : q \in registered} \ {0}
      BY DEF SessionsInv, DescriptorsOwned
    <2>6. {socket'[q] : q \in registered'} = {socket[q] : q \in registered} \cup {d}
      BY <1>1, <1>4, <1>6
    <2>7. opened' \ leaked' = {socket'[q] : q \in registered'} \ {0}
      BY <1>1, <2>3, <2>5, <2>6
    <2> QED
      BY <2>1, <2>2, <2>4, <2>7 DEF DescriptorsOwned
  <1>9. EpollOwned'
    BY <1>1, <1>4, <1>6 DEF SessionsInv, EpollOwned
  <1>10. OneSession'
    <2> SUFFICES ASSUME NEW q \in registered', NEW r \in registered',
                        flow'[q] = flow'[r], flow'[q] # LEASED,
                        state'[q] # "STOP", state'[r] # "STOP"
                 PROVE  q = r
      BY DEF OneSession
    <2>1. \A s \in registered : flow[s] # pkt.flow \/ state[s] = "STOP"
      BY DEF matching
    <2>2. CASE q \in registered /\ r \in registered
      BY <1>1, <1>4, <2>2 DEF SessionsInv, OneSession
    <2>3. CASE q = p /\ r \in registered
      BY <1>1, <1>4, <2>1, <2>3
    <2>4. CASE r = p /\ q \in registered
      BY <1>1, <1>4, <2>1, <2>4
    <2> QED
      BY <1>6, <2>2, <2>3, <2>4
  <1>11. StopIsIcmp'
    BY <1>1, <1>4, <1>5, <1>6 DEF SessionsInv, StopIsIcmp
  <1>12. Watched => Watched'
    <2> SUFFICES ASSUME Watched, NEW q \in active', "epoll_ctl" \notin Faults
                 PROVE  epoll'[socket'[q]] = q
      BY DEF Watched
    <2>1. q \in registered'
      BY DEF active
    <2>2. CASE q = p
      BY <1>1, <1>4, <2>2 DEF Outcomes
    <2>3. CASE q \in registered /\ q # p
      <3>1. state[q] = "ACTIVE" /\ socket'[q] = socket[q]
        BY <1>4, <2>3 DEF active
      <3>2. socket[q] \in opened /\ socket[q] \in Descriptors
        BY <2>3, <3>1, HasSocket
      <3> QED
        BY <1>1, <1>4, <2>3, <3>1, <3>2 DEF Watched, active
    <2> QED
      BY <1>6, <2>1, <2>2, <2>3
  <1>13. Stable
    BY <1>1, <1>4, <1>6 DEF Stable, icmp, SessionsInv, SessionsType
  <1> QED
    BY <1>8, <1>9, <1>10, <1>11, <1>12, <1>13 DEF SessionsInv

\* handle_ip
LEMMA PacketInv ==
  ASSUME SessionsInv, NEW pkt \in Packets, NEW count, handle_ip(pkt, count)
  PROVE  SessionsInv' /\ (Watched => Watched') /\ Stable /\ UNCHANGED inbox
  <1>1. SessionsType'
    BY PacketType DEF SessionsInv
  <1>2. CASE UNCHANGED sessionVars
    <2>1. UNCHANGED <<state, flow, socket, opened, epoll, leaked, inbox>>
      BY <1>2 DEF sessionVars, fields, kernel
    <2> QED
      BY <1>1, <2>1 DEF SessionsInv, DescriptorsOwned, EpollOwned, OneSession, StopIsIcmp,
        Watched, Stable, registered, active, icmp
  <1>3. ASSUME matching(pkt) = {}, open_session(pkt)
        PROVE  SessionsInv' /\ (Watched => Watched') /\ Stable /\ UNCHANGED inbox
    <2>1. ASSUME NEW d \in lowest,
                 opened' = opened \cup {d}, leaked' = leaked \cup {d},
                 UNCHANGED <<fields, epoll, inbox, asked, failed, echoed>>
          PROVE  SessionsInv' /\ (Watched => Watched') /\ Stable /\ UNCHANGED inbox
      <3>1. UNCHANGED <<state, flow, socket, epoll, inbox>>
        BY <2>1 DEF fields
      <3>2. registered' = registered /\ active' = active /\ icmp' = icmp
        BY <3>1 DEF registered, active, icmp
      <3>3. d \in Descriptors \ opened /\ d # 0
        BY SessionsAssumption DEF lowest
      <3>4. \A p \in registered : socket[p] \in opened \cup {0}
        BY DEF SessionsInv, DescriptorsOwned
      <3>5. opened' \ leaked' = opened \ leaked
        BY <2>1, <3>3
      <3>6. DescriptorsOwned'
        BY <2>1, <3>1, <3>2, <3>3, <3>4, <3>5 DEF SessionsInv, DescriptorsOwned
      <3>7. EpollOwned' /\ OneSession' /\ StopIsIcmp' /\ (Watched => Watched')
        BY <3>1, <3>2 DEF SessionsInv, EpollOwned, OneSession, StopIsIcmp, Watched
      <3>8. Stable
        BY <2>1, <3>1, <3>2 DEF Stable
      <3> QED
        BY <1>1, <3>1, <3>6, <3>7, <3>8 DEF SessionsInv
    <2>2. ASSUME NEW d \in lowest, NEW p \in Pointers \ registered,
                 opened' = opened \cup {d}, UNCHANGED leaked,
                 NEW watched \in Outcomes("epoll_ctl"),
                 epoll' = [epoll EXCEPT ![d] = IF watched THEN p ELSE 0],
                 forward(p, d, 0, pkt.id, pkt)
          PROVE  SessionsInv' /\ (Watched => Watched') /\ Stable /\ UNCHANGED inbox
      <3>1. UNCHANGED inbox
        BY <2>2 DEF forward
      <3> QED
        BY <1>1, <1>3, <2>2, <3>1, OpenInv
    <2> QED
      BY <1>2, <1>3, <2>1, <2>2 DEF open_session
  <1>4. ASSUME NEW p \in matching(pkt), state[p] = "ACTIVE",
               forward(p, socket[p], idle[p], id[p], pkt), UNCHANGED <<opened, epoll, leaked>>
        PROVE  SessionsInv' /\ (Watched => Watched') /\ Stable /\ UNCHANGED inbox
    <2>1. UNCHANGED inbox
      BY <1>4 DEF forward
    <2> QED
      BY <1>1, <1>4, <2>1, ForwardInv
  <1> QED
    BY <1>2, <1>3, <1>4 DEF handle_ip
-----------------------------------------------------------------------------
(* The invariant of the engine. *)

\* A reported session is still there, with the socket epoll reported, ...
Valid(r) ==
  r.ptr \notin {PIPE, TUN} =>
    r.ptr \in registered /\ socket[r.ptr] \in opened /\ epoll[socket[r.ptr]] = r.ptr

\* ... and what was reported is still there to be read.
Unread(r) ==
  /\ (r.ptr \in icmp /\ ~r.err) => inbox[socket[r.ptr]] # <<>>
  /\ r.ptr = PIPE => pipe > 0

ReportsInv ==
  /\ pc \notin {"handle", "drain"} => reports = {}
  /\ \A r \in reports : Valid(r) /\ Unread(r)
  /\ \A r \in reports : \A s \in reports : r.ptr = s.ptr => r = s

ThreadInv == (pc # "none" => thread_id) /\ StoppedIsStopped

\* The inductive invariant.
IInv == TypeOK /\ SessionsInv /\ ReportsInv /\ ThreadInv /\ SessionsWatched

\* Where the sessions are left alone.
LEMMA SameSessions ==
  ASSUME SessionsInv, UNCHANGED sessionVars
  PROVE  SessionsInv' /\ (Watched => Watched') /\ Stable /\ UNCHANGED inbox
  <1>1. UNCHANGED <<state, flow, socket, idle, id, opened, epoll, inbox, asked, failed, leaked, echoed>>
    BY DEF sessionVars, fields, kernel
  <1>2. registered' = registered /\ active' = active /\ icmp' = icmp
    BY <1>1 DEF registered, active, icmp
  <1>3. SessionsType'
    BY <1>1 DEF SessionsInv, SessionsType
  <1>4. DescriptorsOwned' /\ EpollOwned' /\ OneSession' /\ StopIsIcmp'
    BY <1>1, <1>2 DEF SessionsInv, DescriptorsOwned, EpollOwned, OneSession, StopIsIcmp
  <1> QED
    BY <1>1, <1>2, <1>3, <1>4 DEF SessionsInv, Watched, Stable

\* A step after which no report waits.
LEMMA NoReports ==
  ASSUME SessionsInv', LoopType',
         call' \in {"uninitialised", "out", "stopping", "write", "join", "stopped"},
         starts' \in Nat, sent' \in Nat,
         reports' = {}, ThreadInv', running' => Watched'
  PROVE  IInv'
  BY DEF IInv, TypeOK, SessionsInv, ReportsInv, SessionsWatched, Watched

\* A step that may leave reports: those were there before, and are as good as they were.
LEMMA WithReports ==
  ASSUME IInv, SessionsInv', Stable, Watched => Watched', LoopType',
         UNCHANGED <<thread_id, pipe, call, starts, sent>>,
         reports' \subseteq reports, pc' \in {"handle", "drain"} \/ reports' = {},
         pc \notin {"none", "start", "end"}, pc' # "none",
         \A r \in reports' : (r.ptr \in icmp /\ ~r.err) => inbox'[socket[r.ptr]] # <<>>
  PROVE  IInv'
  <1>1. TypeOK'
    BY DEF IInv, TypeOK, SessionsInv
  <1>2. ASSUME NEW r \in reports'
        PROVE  Valid(r)' /\ Unread(r)'
    <2>1. Valid(r) /\ Unread(r)
      BY DEF IInv, ReportsInv
    <2>2. Valid(r)'
      BY <2>1 DEF Valid, Stable
    <2>3. Unread(r)'
      <3>1. ASSUME r.ptr \in icmp', ~r.err
            PROVE  inbox'[socket'[r.ptr]] # <<>>
        <4>1. r.ptr \in Pointers
          BY <3>1 DEF icmp, registered
        <4>2. r.ptr \notin {PIPE, TUN}
          BY <4>1, SessionsAssumption DEF PIPE, TUN
        <4>3. r.ptr \in registered
          BY <2>1, <4>2 DEF Valid
        <4>4. r.ptr \in icmp /\ socket'[r.ptr] = socket[r.ptr]
          BY <3>1, <4>3 DEF Stable
        <4> QED
          BY <3>1, <4>4
      <3> QED
        BY <2>1, <3>1 DEF Unread
    <2> QED
      BY <2>2, <2>3
  <1>3. ReportsInv'
    BY <1>2 DEF ReportsInv, IInv
  <1>4. ThreadInv'
    BY DEF IInv, ThreadInv, StoppedIsStopped
  <1>5. SessionsWatched'
    BY DEF IInv, SessionsWatched, Watched, running
  <1> QED
    BY <1>1, <1>3, <1>4, <1>5 DEF IInv

\* Where the thread goes keeps its state well formed.
LEMMA GotoType ==
  ASSUME LoopType, NEW next \in {"none", "top", "handle", "drain", "end"}, goto(next),
         reports' \subseteq reports
  PROVE  LoopType' /\ pc' = next /\ UNCHANGED <<thread_id, pipe>>
  BY DEF LoopType, goto

-----------------------------------------------------------------------------
(* The calls and the environment. *)

\* The steps of the caller that leave the thread and the sessions alone.
LEMMA CallerInv ==
  ASSUME IInv, UNCHANGED <<sessionVars, loopVars>>, starts' \in Nat, sent' = sent,
         call' \in {"uninitialised", "out", "stopping", "write", "join", "stopped"},
         call' \in {"stopped", "uninitialised"} => pc = "none"
  PROVE  IInv'
  <1>1. UNCHANGED <<pc, thread_id, sessions, since, recheck, wait, reports, tun, up, pipe>>
    BY DEF loopVars
  <1>2. UNCHANGED <<state, flow, socket, idle, id, opened, epoll, inbox, asked, failed, leaked, echoed>>
    BY DEF sessionVars, fields, kernel
  <1>3. registered' = registered /\ active' = active /\ icmp' = icmp
    BY <1>2 DEF registered, active, icmp
  <1>4. SessionsInv'
    BY SameSessions DEF IInv
  <1>5. TypeOK'
    BY <1>1, <1>4 DEF IInv, TypeOK, SessionsInv, LoopType
  <1>6. ReportsInv'
    BY <1>1, <1>2, <1>3 DEF IInv, ReportsInv, Valid, Unread
  <1>7. ThreadInv'
    BY <1>1 DEF IInv, ThreadInv, StoppedIsStopped
  <1>8. SessionsWatched'
    BY <1>1, <1>2, <1>3 DEF IInv, SessionsWatched, running
  <1> QED
    BY <1>4, <1>5, <1>6, <1>7, <1>8 DEF IInv

\* jni_init
LEMMA InitInv == ASSUME IInv, jni_init PROVE IInv'
  <1>1. starts' \in Nat
    BY DEF IInv, TypeOK, jni_init
  <1> QED
    BY <1>1, CallerInv DEF jni_init

\* jni_start
LEMMA StartInv == ASSUME IInv, jni_start PROVE IInv'
  <1>1. starts' \in Nat /\ call' = "out" /\ sent' = sent /\ UNCHANGED sessionVars
    BY DEF IInv, TypeOK, jni_start
  <1>2. CASE UNCHANGED loopVars
    BY <1>1, <1>2, CallerInv
  <1>3. CASE /\ thread_id => pc = "none"
             /\ thread_id' = TRUE
             /\ pc' = "start"
             /\ tun' = <<>>
             /\ up' = TRUE
             /\ UNCHANGED <<sessions, since, recheck, wait, reports, pipe>>
    <2>1. pc = "none" /\ reports = {}
      BY <1>3 DEF IInv, ThreadInv, ReportsInv
    <2>2. SessionsInv'
      BY <1>1, SameSessions DEF IInv
    <2>3. <<>> \in Seq(Packets)
      OBVIOUS
    <2>4. LoopType'
      BY <1>3, <2>3 DEF IInv, TypeOK, LoopType
    <2>5. ThreadInv' /\ ~running'
      BY <1>1, <1>3 DEF ThreadInv, StoppedIsStopped, running
    <2>6. sent' \in Nat
      BY <1>1 DEF IInv, TypeOK
    <2> QED
      BY <1>1, <1>3, <2>1, <2>2, <2>4, <2>5, <2>6, NoReports
  <1> QED
    BY <1>2, <1>3 DEF jni_start

\* jni_stop until it waits for the thread: it takes no thread for stopped that runs.
LEMMA StopInv == ASSUME IInv, StopReads \/ StopKills PROVE IInv'
  <1>1. CASE StopReads
    <2>1. ~thread_id => pc = "none"
      BY DEF IInv, ThreadInv
    <2>2. UNCHANGED <<sessionVars, loopVars, starts, sent>>
      BY <1>1 DEF StopReads
    <2>3. call' = "stopping" \/ (call' = "stopped" /\ ~thread_id)
      BY <1>1 DEF StopReads
    <2>4. starts' \in Nat
      BY <2>2 DEF IInv, TypeOK
    <2> QED
      BY <2>1, <2>2, <2>3, <2>4, CallerInv
  <1>2. CASE StopKills
    <2>1. UNCHANGED <<sessionVars, loopVars, starts, sent>>
      BY <1>2 DEF StopKills
    <2>2. call' = "write" \/ (call' = "stopped" /\ pc = "none")
      BY <1>2 DEF StopKills
    <2>3. starts' \in Nat
      BY <2>1 DEF IInv, TypeOK
    <2> QED
      BY <2>1, <2>2, <2>3, CallerInv
  <1> QED
    BY <1>1, <1>2

\* The byte for the thread.
LEMMA WriteInv == ASSUME IInv, StopWrites PROVE IInv'
  <1>1. /\ call = "write" /\ call' = "join" /\ pipe' = pipe + 1 /\ pipe \in Nat
        /\ UNCHANGED <<pc, thread_id, sessions, since, recheck, wait, reports, tun, up, starts, sent>>
    BY DEF StopWrites, IInv, TypeOK, LoopType
  <1>2. UNCHANGED <<state, flow, socket, idle, id, opened, epoll, inbox, asked, failed, leaked, echoed>>
    BY DEF StopWrites, sessionVars, fields, kernel
  <1>3. registered' = registered /\ active' = active /\ icmp' = icmp
    BY <1>2 DEF registered, active, icmp
  <1>4. SessionsInv'
    BY SameSessions DEF IInv, StopWrites
  <1>5. TypeOK'
    BY <1>1, <1>4 DEF IInv, TypeOK, SessionsInv, LoopType
  <1>6. ReportsInv'
    BY <1>1, <1>2, <1>3 DEF IInv, ReportsInv, Valid, Unread
  <1>7. ThreadInv'
    BY <1>1 DEF IInv, ThreadInv, StoppedIsStopped
  <1>8. SessionsWatched'
    BY <1>1, <1>2, <1>3 DEF IInv, SessionsWatched, running
  <1> QED
    BY <1>4, <1>5, <1>6, <1>7, <1>8 DEF IInv

\* The thread has ended when the sessions are cleared.
LEMMA JoinInv == ASSUME IInv, StopJoins \/ jni_done PROVE IInv'
  <1>1. pc = "none" /\ reports = {}
    BY DEF IInv, StopJoins, joined, jni_done, ThreadInv, StoppedIsStopped, ReportsInv
  <1>2. clear /\ UNCHANGED <<pc, thread_id, sessions, since, recheck, wait, reports, tun, up>>
    BY DEF StopJoins, jni_done, loopVars
  <1>3. SessionsInv' /\ Watched'
    BY <1>2, ClearInv DEF IInv
  <1>4. pipe' \in Nat
    BY DEF StopJoins, jni_done, loopVars, IInv, TypeOK, LoopType
  <1>5. LoopType'
    BY <1>2, <1>4 DEF IInv, TypeOK, LoopType
  <1>6. ThreadInv'
    BY <1>1, <1>2 DEF IInv, ThreadInv, StoppedIsStopped
  <1>7. /\ call' \in {"uninitialised", "stopped"}
        /\ starts' \in Nat /\ sent' \in Nat
    BY DEF StopJoins, jni_done, IInv, TypeOK
  <1> QED
    BY <1>1, <1>2, <1>3, <1>5, <1>6, <1>7, NoReports
\* An app's packet.
LEMMA AppInv == ASSUME IInv, AppSends PROVE IInv'
  <1>1. /\ UNCHANGED <<pc, thread_id, sessions, since, recheck, wait, reports, up, pipe, call, starts>>
        /\ sent' = sent + 1
    BY DEF AppSends
  <1>2. UNCHANGED <<state, flow, socket, idle, id, opened, epoll, inbox, asked, failed, leaked, echoed>>
    BY DEF AppSends, sessionVars, fields, kernel
  <1>3. registered' = registered /\ active' = active /\ icmp' = icmp
    BY <1>2 DEF registered, active, icmp
  <1>4. SessionsInv'
    BY SameSessions DEF IInv, AppSends
  <1>5. tun' \in Seq(Packets)
    <2>1. tun \in Seq(Packets)
      BY DEF IInv, TypeOK, LoopType
    <2>2. PICK pkt \in Packets : tun' = Append(tun, pkt)
      BY DEF AppSends
    <2> QED
      BY <2>1, <2>2
  <1>6. TypeOK'
    BY <1>1, <1>4, <1>5 DEF IInv, TypeOK, SessionsInv, LoopType
  <1>7. ReportsInv'
    BY <1>1, <1>2, <1>3 DEF IInv, ReportsInv, Valid, Unread
  <1>8. ThreadInv' /\ SessionsWatched'
    BY <1>1, <1>2, <1>3 DEF IInv, ThreadInv, StoppedIsStopped, SessionsWatched, running
  <1> QED
    BY <1>4, <1>6, <1>7, <1>8 DEF IInv

\* The tun device is taken away.
LEMMA TunInv == ASSUME IInv, TunFails PROVE IInv'
  <1>1. UNCHANGED <<pc, thread_id, sessions, since, recheck, wait, reports, pipe, call, starts, sent>>
    BY DEF TunFails, callVars
  <1>2. UNCHANGED <<state, flow, socket, idle, id, opened, epoll, inbox, asked, failed, leaked, echoed>>
    BY DEF TunFails, sessionVars, fields, kernel
  <1>3. registered' = registered /\ active' = active /\ icmp' = icmp
    BY <1>2 DEF registered, active, icmp
  <1>4. SessionsInv'
    BY SameSessions DEF IInv, TunFails
  <1>5. tun' \in Seq(Packets) /\ up' \in BOOLEAN
    <2>1. <<>> \in Seq(Packets)
      OBVIOUS
    <2>2. tun' = <<>> /\ up' = FALSE
      BY DEF TunFails
    <2> QED
      BY <2>1, <2>2
  <1>6. TypeOK'
    BY <1>1, <1>4, <1>5 DEF IInv, TypeOK, SessionsInv, LoopType
  <1>7. ReportsInv'
    BY <1>1, <1>2, <1>3 DEF IInv, ReportsInv, Valid, Unread
  <1>8. ThreadInv' /\ SessionsWatched'
    BY <1>1, <1>2, <1>3 DEF IInv, ThreadInv, StoppedIsStopped, SessionsWatched, running
  <1> QED
    BY <1>4, <1>6, <1>7, <1>8 DEF IInv

\* A server's answer, or an error: no message is taken away.
LEMMA ServerInv == ASSUME IInv, Answer \/ SocketFails PROVE IInv'
  <1>1. UNCHANGED <<pc, thread_id, sessions, since, recheck, wait, reports, tun, up, pipe, call, starts, sent>>
    BY DEF Answer, SocketFails, loopVars, callVars
  <1>2. UNCHANGED <<state, flow, socket, idle, id, opened, epoll, leaked, echoed>>
    BY DEF Answer, SocketFails, fields
  <1>3. registered' = registered /\ active' = active /\ icmp' = icmp
    BY <1>2 DEF registered, active, icmp
  <1>4. /\ asked' \in [Descriptors -> SUBSET (Ids \cup {0})]
        /\ inbox' \in [Descriptors -> Seq(Ids \cup {0})]
        /\ failed' \subseteq opened
        /\ \A d \in Descriptors : inbox[d] # <<>> => inbox'[d] # <<>>
    <2>1. /\ asked \in [Descriptors -> SUBSET (Ids \cup {0})]
          /\ inbox \in [Descriptors -> Seq(Ids \cup {0})]
          /\ failed \subseteq opened /\ opened \subseteq Descriptors
      BY DEF IInv, TypeOK, SessionsType
    <2>2. CASE Answer
      <3>1. PICK d \in opened : \E i \in asked[d] :
              /\ asked' = [asked EXCEPT ![d] = asked[d] \ {i}]
              /\ inbox' = [inbox EXCEPT ![d] = Append(inbox[d], i)]
        BY <2>2 DEF Answer
      <3>2. PICK i \in asked[d] :
              /\ asked' = [asked EXCEPT ![d] = asked[d] \ {i}]
              /\ inbox' = [inbox EXCEPT ![d] = Append(inbox[d], i)]
        BY <3>1
      <3>3. d \in Descriptors /\ i \in Ids \cup {0}
        BY <2>1, <3>2
      <3>4. Append(inbox[d], i) \in Seq(Ids \cup {0}) /\ Append(inbox[d], i) # <<>>
        BY <2>1, <3>3
      <3>5. asked' \in [Descriptors -> SUBSET (Ids \cup {0})]
        BY <2>1, <3>2, <3>3
      <3>6. inbox' \in [Descriptors -> Seq(Ids \cup {0})]
        BY <2>1, <3>2, <3>4
      <3>7. \A e \in Descriptors : inbox'[e] = IF e = d THEN Append(inbox[d], i) ELSE inbox[e]
        BY <2>1, <3>2
      <3>8. failed' = failed
        BY <2>2 DEF Answer
      <3> QED
        BY <2>1, <3>4, <3>5, <3>6, <3>7, <3>8
    <2>3. CASE SocketFails
      <3>1. PICK d \in opened : \E i \in asked[d] :
              /\ asked' = [asked EXCEPT ![d] = asked[d] \ {i}]
              /\ failed' = failed \cup {d}
        BY <2>3 DEF SocketFails
      <3>2. inbox' = inbox
        BY <2>3 DEF SocketFails
      <3> QED
        BY <2>1, <3>1, <3>2
    <2> QED
      BY <2>2, <2>3
  <1>5. SessionsInv'
    <2>1. SessionsType'
      BY <1>2, <1>4 DEF IInv, SessionsInv, SessionsType
    <2> QED
      BY <1>2, <1>3, <2>1 DEF IInv, SessionsInv, DescriptorsOwned, EpollOwned, OneSession, StopIsIcmp
  <1>6. TypeOK'
    BY <1>1, <1>5 DEF IInv, TypeOK, SessionsInv, LoopType
  <1>7. ReportsInv'
    <2>1. ASSUME NEW r \in reports
          PROVE  Valid(r)' /\ Unread(r)'
      <3>1. Valid(r) /\ Unread(r)
        BY DEF IInv, ReportsInv
      <3>2. Valid(r)'
        BY <1>2, <1>3, <3>1 DEF Valid
      <3>3. r.ptr \in icmp => socket[r.ptr] \in opened
        BY <3>1, SessionsAssumption DEF Valid, icmp, registered, PIPE, TUN
      <3>4. r.ptr \in icmp => socket[r.ptr] \in Descriptors
        BY <3>3 DEF IInv, TypeOK, SessionsType
      <3>5. Unread(r)'
        BY <1>1, <1>2, <1>3, <1>4, <3>1, <3>4 DEF Unread
      <3> QED
        BY <3>2, <3>5
    <2> QED
      BY <1>1, <2>1 DEF IInv, ReportsInv
  <1>8. ThreadInv' /\ SessionsWatched'
    BY <1>1, <1>2, <1>3 DEF IInv, ThreadInv, StoppedIsStopped, SessionsWatched, running
  <1> QED
    BY <1>5, <1>6, <1>7, <1>8 DEF IInv

\* A second passes.
LEMMA TickInv == ASSUME IInv, Tick, UNCHANGED callVars PROVE IInv'
  <1>1. UNCHANGED <<pc, thread_id, sessions, recheck, reports, tun, up, pipe, call, starts, sent>>
    BY DEF Tick, callVars
  <1>2. UNCHANGED <<state, flow, socket, id, opened, epoll, inbox, asked, failed, leaked, echoed>>
    BY DEF Tick, kernel
  <1>3. registered' = registered /\ active' = active /\ icmp' = icmp
    BY <1>2 DEF registered, active, icmp
  <1>4. idle' \in [Pointers -> 0 .. Long]
    <2>1. idle \in [Pointers -> 0 .. Long] /\ Long \in Nat
      BY SessionsAssumption DEF IInv, TypeOK, SessionsType, Long
    <2>2. \A p \in Pointers : idle[p] < Long => idle[p] + 1 \in 0 .. Long
      BY <2>1
    <2> QED
      BY <2>1, <2>2 DEF Tick
  <1>5. since' \in 0 .. 2 /\ wait' \in Nat
    BY DEF Tick, IInv, TypeOK, LoopType
  <1>6. SessionsInv'
    <2>1. SessionsType'
      BY <1>2, <1>4 DEF IInv, SessionsInv, SessionsType
    <2> QED
      BY <1>2, <1>3, <2>1 DEF IInv, SessionsInv, DescriptorsOwned, EpollOwned, OneSession, StopIsIcmp
  <1>7. TypeOK'
    BY <1>1, <1>5, <1>6 DEF IInv, TypeOK, SessionsInv, LoopType
  <1>8. ReportsInv'
    BY <1>1, <1>2, <1>3 DEF IInv, ReportsInv, Valid, Unread
  <1>9. ThreadInv' /\ SessionsWatched'
    BY <1>1, <1>2, <1>3 DEF IInv, ThreadInv, StoppedIsStopped, SessionsWatched, running
  <1> QED
    BY <1>6, <1>7, <1>8, <1>9 DEF IInv

-----------------------------------------------------------------------------
(* The thread. *)

\* Where the thread starts, the sessions are terminated before epoll is set up.
LEMMA BeginInv == ASSUME IInv, Start, UNCHANGED callVars PROVE IInv'
  <1>1. /\ pc = "start" /\ pc' \in {"top", "end"}
        /\ UNCHANGED <<thread_id, sessions, since, recheck, wait, reports, tun, up, pipe>>
        /\ UNCHANGED <<call, starts, sent>>
    BY DEF Start, Outcomes, callVars
  <1>2. SessionsInv' /\ Watched'
    BY AllowedInv DEF Start, IInv
  <1>3. LoopType' /\ reports' = {}
    BY <1>1 DEF IInv, TypeOK, LoopType, ReportsInv
  <1>4. ThreadInv'
    BY <1>1 DEF IInv, ThreadInv, StoppedIsStopped
  <1>5. /\ call' \in {"uninitialised", "out", "stopping", "write", "join", "stopped"}
        /\ starts' \in Nat /\ sent' \in Nat
    BY <1>1 DEF IInv, TypeOK
  <1> QED
    BY <1>2, <1>3, <1>4, <1>5, NoReports

\* The thread ends: its epoll set is gone, and no other thread relies on it.
LEMMA EndInv == ASSUME IInv, End, UNCHANGED callVars PROVE IInv'
  <1>1. /\ pc = "end" /\ pc' = "none" /\ thread_id' = FALSE /\ since' = 2
        /\ UNCHANGED <<sessions, recheck, wait, reports, tun, up, pipe, call, starts, sent>>
    BY DEF End, callVars
  <1>2. /\ UNCHANGED <<state, flow, socket, idle, id, opened, inbox, asked, failed, leaked, echoed>>
        /\ epoll' = [d \in Descriptors |-> 0]
    BY DEF End, fields
  <1>3. registered' = registered
    BY <1>2 DEF registered
  <1>4. SessionsInv'
    BY <1>2, <1>3 DEF IInv, SessionsInv, SessionsType, DescriptorsOwned, EpollOwned, OneSession, StopIsIcmp
  <1>5. LoopType' /\ reports' = {}
    <2>1. LoopType /\ reports = {}
      BY <1>1 DEF IInv, TypeOK, ReportsInv
    <2>2. thread_id' \in BOOLEAN
      BY <1>1, Zenon
    <2>3. since' \in 0 .. 2
      BY <1>1
    <2> QED
      BY <1>1, <2>1, <2>2, <2>3 DEF LoopType
  <1>6. ThreadInv' /\ ~running'
    BY <1>1 DEF IInv, ThreadInv, StoppedIsStopped, running
  <1>7. /\ call' \in {"uninitialised", "out", "stopping", "write", "join", "stopped"}
        /\ starts' \in Nat /\ sent' \in Nat
    BY <1>1 DEF IInv, TypeOK
  <1> QED
    BY <1>4, <1>5, <1>6, <1>7, NoReports
\* A step of the thread that leaves no report and the sessions alone.
LEMMA QuietInv ==
  ASSUME IInv, UNCHANGED sessionVars, UNCHANGED callVars, LoopType', reports' = {},
         thread_id' = thread_id, pc # "none", running' => running
  PROVE  IInv'
  <1>1. SessionsInv' /\ (Watched => Watched')
    BY SameSessions DEF IInv
  <1>2. UNCHANGED <<call, starts, sent>>
    BY DEF callVars
  <1>3. ThreadInv'
    BY <1>2 DEF IInv, ThreadInv, StoppedIsStopped
  <1>4. running' => Watched'
    BY <1>1 DEF IInv, SessionsWatched, Watched
  <1>5. /\ call' \in {"uninitialised", "out", "stopping", "write", "join", "stopped"}
        /\ starts' \in Nat /\ sent' \in Nat
    BY <1>2 DEF IInv, TypeOK
  <1> QED
    BY <1>1, <1>3, <1>4, <1>5, NoReports

\* The calls that fail end the thread.
LEMMA FailureInv == ASSUME IInv, Failure, UNCHANGED callVars PROVE IInv'
  <1>1. LoopType /\ (pc \notin {"handle", "drain"} => reports = {})
    BY DEF IInv, TypeOK, ReportsInv
  <1>2. /\ goto("none") \/ goto("end")
        /\ UNCHANGED sessionVars
        /\ pc # "none"
        /\ reports' = {}
    BY <1>1 DEF Failure, AttachFails, WaitFails, ReadFails
  <1>3. LoopType' /\ pc' \in {"none", "end"} /\ thread_id' = thread_id
    BY <1>1, <1>2, GotoType
  <1>4. ~running'
    BY <1>3 DEF running
  <1> QED
    BY <1>2, <1>3, <1>4, QuietInv

\* The wait for the next timeout is not negative.
LEMMA WaitType ==
  ASSUME SessionsType, NEW count \in Nat, NEW w \in waits(count)
  PROVE  w \in Nat
  <1>1. ASSUME NEW p \in active, ~expired(p, count)
        PROVE  timeout(p, count) + 1 - idle[p] \in Nat
    <2>1. p \in Pointers /\ state[p] = "ACTIVE"
      BY DEF active, registered
    <2>2. timeout(p, count) \in Int
      BY <2>1, TimeoutType
    <2>3. idle[p] \in Nat
      BY <2>1 DEF SessionsType
    <2>4. ~(idle[p] > timeout(p, count))
      BY <1>1, <2>1 DEF expired
    <2> QED
      BY <2>2, <2>3, <2>4
  <1> QED
    BY <1>1, EventLoopAssumption DEF waits

\* The checks of a round.
LEMMA RoundInv == ASSUME IInv, Check \/ SkipCheck, UNCHANGED callVars PROVE IInv'
  <1>1. /\ pc = "top" /\ pc' = "poll" /\ sessions' = Cardinality(active)
        /\ UNCHANGED <<thread_id, reports, tun, up, pipe>>
    BY DEF Check, SkipCheck
  <1>2. /\ LoopType /\ SessionsType /\ reports = {} /\ SessionsInv /\ Watched
        /\ Cardinality(active) \in Nat
    BY <1>1, CountType DEF IInv, TypeOK, ReportsInv, SessionsWatched, Watched, running
  <1>3. recheck' \in BOOLEAN
    BY Zenon DEF Check, SkipCheck
  <1>4. since' \in 0 .. 2 /\ wait' \in Nat
    <2>1. CASE Check
      BY <1>2, <2>1, WaitType DEF Check
    <2>2. CASE SkipCheck
      BY <1>2, <2>2 DEF SkipCheck, LoopType
    <2> QED
      BY <2>1, <2>2
  <1>5. LoopType'
    BY <1>1, <1>2, <1>3, <1>4 DEF LoopType
  <1>6. SessionsInv' /\ Watched'
    <2>1. CASE Check
      BY <1>2, <2>1, CheckInv DEF Check
    <2>2. CASE SkipCheck
      BY <1>2, <2>2, SameSessions DEF SkipCheck
    <2> QED
      BY <2>1, <2>2
  <1>7. UNCHANGED <<call, starts, sent>>
    BY DEF callVars
  <1>8. ThreadInv'
    BY <1>1, <1>7 DEF IInv, ThreadInv, StoppedIsStopped
  <1>9. /\ call' \in {"uninitialised", "out", "stopping", "write", "join", "stopped"}
        /\ starts' \in Nat /\ sent' \in Nat
    BY <1>7 DEF IInv, TypeOK
  <1> QED
    BY <1>1, <1>2, <1>5, <1>6, <1>8, <1>9, NoReports

\* What epoll_wait returns.
LEMMA ReportInv == ASSUME IInv, Report, UNCHANGED callVars PROVE IInv'
  <1>1. /\ pc = "poll" /\ pc' = "handle" /\ reports' = ready
        /\ recheck' = FALSE /\ wait' = 0
        /\ UNCHANGED <<thread_id, sessions, since, tun, up, pipe, call, starts, sent>>
    BY DEF Report, callVars
  <1>2. UNCHANGED <<state, flow, socket, idle, id, opened, epoll, inbox, asked, failed, leaked, echoed>>
    BY DEF Report, sessionVars, fields, kernel
  <1>3. registered' = registered /\ active' = active /\ icmp' = icmp
    BY <1>2 DEF registered, active, icmp
  <1>4. SessionsInv'
    BY SameSessions DEF IInv, Report
  <1>5. SessionsType /\ LoopType /\ EpollOwned /\ DescriptorsOwned
    BY DEF IInv, TypeOK, SessionsInv
  <1>6. ASSUME NEW r \in ready
        PROVE  \/ r = [ptr |-> PIPE, err |-> FALSE] /\ pipe > 0
               \/ r = [ptr |-> TUN, err |-> ~up]
               \/ \E d \in Descriptors :
                    /\ epoll[d] # 0 /\ (inbox[d] # <<>> \/ d \in failed)
                    /\ r = [ptr |-> epoll[d], err |-> d \in failed]
    <2> DEFINE ofPipe == {[ptr |-> PIPE, err |-> FALSE] : b \in {c \in {pipe} : c > 0}}
               ofTun == {[ptr |-> TUN, err |-> ~u] : u \in {v \in {up} : tun # <<>> \/ ~v}}
               ofSockets == {[ptr |-> epoll[d], err |-> d \in failed] :
                              d \in {e \in Descriptors :
                                       epoll[e] # 0 /\ (inbox[e] # <<>> \/ e \in failed)}}
    <2>1. r \in ofPipe \/ r \in ofTun \/ r \in ofSockets
      BY Zenon DEF ready
    <2>2. ASSUME r \in ofPipe
          PROVE  r = [ptr |-> PIPE, err |-> FALSE] /\ pipe > 0
      <3>1. PICK b \in {c \in {pipe} : c > 0} : r = [ptr |-> PIPE, err |-> FALSE]
        BY <2>2, Zenon
      <3>2. pipe > 0
        OBVIOUS
      <3> QED
        BY <3>1, <3>2
    <2>3. ASSUME r \in ofTun
          PROVE  r = [ptr |-> TUN, err |-> ~up]
      <3>1. PICK u \in {v \in {up} : tun # <<>> \/ ~v} : r = [ptr |-> TUN, err |-> ~u]
        BY <2>3, Zenon
      <3>2. u = up
        BY Zenon
      <3> QED
        BY <3>1, <3>2, Zenon
    <2>4. ASSUME r \in ofSockets
          PROVE  \E d \in Descriptors :
                   /\ epoll[d] # 0 /\ (inbox[d] # <<>> \/ d \in failed)
                   /\ r = [ptr |-> epoll[d], err |-> d \in failed]
      BY <2>4, Zenon
    <2> HIDE DEF ofPipe, ofTun, ofSockets
    <2> QED
      BY <2>1, <2>2, <2>3, <2>4, Zenon
  <1>7. ready \subseteq [ptr : Pointers \cup {PIPE, TUN}, err : BOOLEAN]
    <2> SUFFICES ASSUME NEW r \in ready
                 PROVE  r \in [ptr : Pointers \cup {PIPE, TUN}, err : BOOLEAN]
      OBVIOUS
    <2>1. ASSUME NEW x \in {PIPE, TUN}, NEW y \in BOOLEAN
          PROVE  [ptr |-> x, err |-> y] \in [ptr : Pointers \cup {PIPE, TUN}, err : BOOLEAN]
      OBVIOUS
    <2>3. (~up) \in BOOLEAN /\ FALSE \in BOOLEAN
      BY Zenon
    <2>2. ASSUME NEW d \in Descriptors, epoll[d] # 0, r = [ptr |-> epoll[d], err |-> d \in failed]
          PROVE  r \in [ptr : Pointers \cup {PIPE, TUN}, err : BOOLEAN]
      <3>1. epoll[d] \in Pointers
        BY <1>5, <2>2 DEF SessionsType
      <3> QED
        BY <2>2, <3>1
    <2> QED
      BY <1>6, <2>1, <2>2, <2>3, Zenon
  <1>8. ASSUME NEW r \in ready
        PROVE  Valid(r)' /\ Unread(r)'
    <2>1. CASE r = [ptr |-> PIPE, err |-> FALSE] /\ pipe > 0
      <3>1. r.ptr \notin icmp /\ r.ptr = PIPE
        BY <2>1, SessionsAssumption DEF PIPE, icmp, registered
      <3> QED
        BY <1>1, <1>3, <2>1, <3>1 DEF Valid, Unread
    <2>2. CASE r = [ptr |-> TUN, err |-> ~up]
      <3>1. r.ptr \notin icmp /\ r.ptr = TUN /\ r.ptr # PIPE
        BY <2>2, SessionsAssumption DEF PIPE, TUN, icmp, registered
      <3> QED
        BY <1>1, <1>3, <3>1 DEF Valid, Unread
    <2>3. ASSUME NEW d \in Descriptors, epoll[d] # 0, inbox[d] # <<>> \/ d \in failed,
                 r = [ptr |-> epoll[d], err |-> d \in failed]
          PROVE  Valid(r)' /\ Unread(r)'
      <3>1. r.ptr = epoll[d] /\ (~r.err => inbox[d] # <<>>)
        BY <2>3
      <3>2. r.ptr \in registered /\ socket[r.ptr] = d
        BY <1>5, <2>3, <3>1 DEF EpollOwned
      <3>3. r.ptr # PIPE
        BY <3>2, SessionsAssumption DEF registered, PIPE
      <3>4. d \in opened
        <4>1. d # 0
          BY <2>3, SessionsAssumption
        <4> QED
          BY <1>5, <3>2, <4>1 DEF DescriptorsOwned
      <3>5. Valid(r) /\ Unread(r)
        BY <3>1, <3>2, <3>3, <3>4 DEF Valid, Unread
      <3> QED
        BY <1>1, <1>2, <1>3, <3>5 DEF Valid, Unread
    <2> QED
      BY <1>6, <2>1, <2>2, <2>3
  <1>9. ASSUME NEW r \in ready, NEW s \in ready, r.ptr = s.ptr
        PROVE  r = s
    <2>1. \A d \in Descriptors : epoll[d] # 0 =>
            epoll[d] # PIPE /\ epoll[d] # TUN /\ socket[epoll[d]] = d
      BY <1>5, SessionsAssumption DEF EpollOwned, registered, PIPE, TUN
    <2>2. PIPE # TUN
      BY DEF PIPE, TUN
    <2> DEFINE a == [ptr |-> PIPE, err |-> FALSE]
               b == [ptr |-> TUN, err |-> ~up]
    <2>3. ASSUME NEW q \in ready
          PROVE  (q.ptr = PIPE => q = a) /\ (q.ptr = TUN => q = b)
      <3>1. CASE q = a
        BY <2>2, <3>1
      <3>2. CASE q = b
        BY <2>2, <3>2
      <3>3. ASSUME NEW d \in Descriptors, epoll[d] # 0, q = [ptr |-> epoll[d], err |-> d \in failed]
            PROVE  q.ptr # PIPE /\ q.ptr # TUN
        BY <2>1, <3>3
      <3> HIDE DEF a, b
      <3> QED
        BY <1>6, <3>1, <3>2, <3>3 DEF a, b
    <2>4. CASE r.ptr \in {PIPE, TUN}
      BY <1>9, <2>3, <2>4
    <2>5. CASE r.ptr \notin {PIPE, TUN}
      <3>1. PICK d \in Descriptors : epoll[d] # 0 /\ r = [ptr |-> epoll[d], err |-> d \in failed]
        BY <1>6, <2>5
      <3>2. PICK e \in Descriptors : epoll[e] # 0 /\ s = [ptr |-> epoll[e], err |-> e \in failed]
        BY <1>6, <1>9, <2>5
      <3>3. epoll[d] = epoll[e]
        BY <1>9, <3>1, <3>2
      <3>4. d = e
        BY <2>1, <3>1, <3>2, <3>3
      <3> QED
        BY <3>1, <3>2, <3>4
    <2> QED
      BY <2>4, <2>5
  <1>10. TypeOK'
    <2>1. LoopType'
      BY <1>1, <1>5, <1>7 DEF LoopType
    <2> QED
      BY <1>1, <1>4, <2>1 DEF IInv, TypeOK, SessionsInv
  <1>11. ReportsInv'
    BY <1>1, <1>8, <1>9 DEF ReportsInv
  <1>12. ThreadInv' /\ SessionsWatched'
    BY <1>1, <1>2, <1>3 DEF IInv, ThreadInv, StoppedIsStopped, SessionsWatched, running
  <1> QED
    BY <1>4, <1>10, <1>11, <1>12 DEF IInv
\* Nothing is reported, the pipe stops the thread, or tun is to be read.
LEMMA LoopInv ==
  ASSUME IInv, Timeout \/ HandlePipe \/ HandleTun \/ Drained, UNCHANGED callVars
  PROVE  IInv'
  <1>1. LoopType /\ UNCHANGED <<call, starts, sent>>
    BY DEF IInv, TypeOK, callVars
  <1>2. CASE Timeout
    <2>1. goto("top") /\ UNCHANGED sessionVars /\ reports' = reports /\ pc = "poll"
      BY <1>2 DEF Timeout
    <2>2. reports = {}
      BY <2>1 DEF IInv, ReportsInv
    <2>3. LoopType' /\ pc' = "top" /\ thread_id' = thread_id
      BY <1>1, <2>1, GotoType
    <2> QED
      BY <2>1, <2>2, <2>3, QuietInv DEF running
  <1>3. CASE HandlePipe
    <2>1. /\ pc = "handle" /\ pc' = "end" /\ pipe' = pipe - 1 /\ sessions' = 0 /\ reports' = {}
          /\ UNCHANGED <<sessionVars, thread_id, since, recheck, wait, tun, up>>
      BY <1>3 DEF HandlePipe
    <2>2. pipe > 0
      <3>1. PICK r \in reports : r.ptr = PIPE
        BY <1>3 DEF HandlePipe
      <3> QED
        BY <3>1 DEF IInv, ReportsInv, Unread
    <2>3. pipe' \in Nat
      BY <1>1, <2>1, <2>2 DEF LoopType
    <2>4. LoopType'
      BY <1>1, <2>1, <2>3 DEF LoopType
    <2>5. ~running' /\ UNCHANGED sessionVars
      BY <2>1 DEF running
    <2> QED
      BY <2>1, <2>4, <2>5, QuietInv
  <1>4. CASE HandleTun
    <2>1. /\ goto("drain") /\ UNCHANGED sessionVars /\ pc = "handle"
          /\ reports' \subseteq reports
      BY <1>4 DEF HandleTun
    <2>2. LoopType' /\ pc' = "drain" /\ UNCHANGED <<thread_id, pipe>>
      BY <1>1, <2>1, GotoType
    <2>3. SessionsInv' /\ (Watched => Watched') /\ Stable /\ UNCHANGED inbox
      BY <2>1, SameSessions DEF IInv
    <2>4. \A r \in reports' : (r.ptr \in icmp /\ ~r.err) => inbox'[socket[r.ptr]] # <<>>
      BY <2>1, <2>3 DEF IInv, ReportsInv, Unread
    <2> QED
      BY <1>1, <2>1, <2>2, <2>3, <2>4, WithReports
  <1>5. CASE Drained
    <2>1. /\ goto_next(reports) /\ UNCHANGED sessionVars /\ pc = "drain"
      BY <1>5 DEF Drained
    <2>2. reports' = reports
      BY <2>1 DEF goto_next
    <2>3. /\ LoopType' /\ UNCHANGED <<thread_id, pipe>>
          /\ pc' = IF reports = {} THEN "top" ELSE "handle"
      BY <1>1, <2>1, <2>2, GotoType DEF goto_next
    <2>4. SessionsInv' /\ (Watched => Watched') /\ Stable /\ UNCHANGED inbox
      BY <2>1, SameSessions DEF IInv
    <2>5. \A r \in reports' : (r.ptr \in icmp /\ ~r.err) => inbox'[socket[r.ptr]] # <<>>
      BY <2>2, <2>4 DEF IInv, ReportsInv, Unread
    <2> QED
      BY <1>1, <2>1, <2>2, <2>3, <2>4, <2>5, WithReports
  <1> QED
    BY <1>2, <1>3, <1>4, <1>5

\* A packet from tun, while reports of sockets wait.
LEMMA TunPacketInv == ASSUME IInv, check_tun, UNCHANGED callVars PROVE IInv'
  <1>1. /\ pc = "drain" /\ tun # <<>> /\ tun' = Tail(tun) /\ handle_ip(Head(tun), sessions)
        /\ UNCHANGED <<pc, thread_id, sessions, since, recheck, wait, reports, up, pipe>>
        /\ UNCHANGED <<call, starts, sent>>
    BY DEF check_tun, callVars
  <1>2. LoopType /\ SessionsInv
    BY DEF IInv, TypeOK
  <1>3. Head(tun) \in Packets /\ Tail(tun) \in Seq(Packets)
    BY <1>1, <1>2 DEF LoopType
  <1>4. SessionsInv' /\ (Watched => Watched') /\ Stable /\ UNCHANGED inbox
    BY <1>1, <1>2, <1>3, PacketInv
  <1>5. LoopType'
    BY <1>1, <1>2, <1>3 DEF LoopType
  <1>6. \A r \in reports' : (r.ptr \in icmp /\ ~r.err) => inbox'[socket[r.ptr]] # <<>>
    BY <1>1, <1>4 DEF IInv, ReportsInv, Unread
  <1> QED
    BY <1>1, <1>4, <1>5, <1>6, WithReports

\* A reported session is open.
LEMMA ReportedOpen ==
  ASSUME IInv, NEW r \in reports, r.ptr \in registered
  PROVE  /\ state[r.ptr] # "CLOSED" /\ r.err \in BOOLEAN /\ socket[r.ptr] \in Descriptors
         /\ (r.ptr \in icmp /\ ~r.err) => inbox[socket[r.ptr]] # <<>>
  <1>1. r.ptr \notin {PIPE, TUN}
    BY SessionsAssumption DEF registered, PIPE, TUN
  <1>2. socket[r.ptr] \in opened /\ Unread(r)
    BY <1>1 DEF IInv, ReportsInv, Valid
  <1>3. socket[r.ptr] \in Descriptors /\ socket[r.ptr] # 0
    BY <1>2, SessionsAssumption DEF IInv, TypeOK, SessionsType
  <1>4. state[r.ptr] # "CLOSED"
    BY <1>3 DEF IInv, SessionsInv, DescriptorsOwned
  <1>5. r.err \in BOOLEAN
    BY DEF IInv, TypeOK, LoopType
  <1> QED
    BY <1>2, <1>3, <1>4, <1>5 DEF Unread

\* Sessions do not share a socket, so that reading one leaves what is reported of another.
LEMMA OtherUnread ==
  ASSUME IInv, NEW p \in registered, socket[p] \in Descriptors,
         \A d \in Descriptors : d # socket[p] => inbox'[d] = inbox[d],
         NEW r \in reports, r.ptr # p, r.ptr \in icmp, ~r.err
  PROVE  inbox'[socket[r.ptr]] # <<>>
  <1>1. r.ptr \in registered
    BY DEF icmp
  <1>2. socket[r.ptr] \in Descriptors /\ inbox[socket[r.ptr]] # <<>>
    BY <1>1, ReportedOpen
  <1>3. socket[r.ptr] # socket[p]
    BY <1>1, <1>2, SessionsAssumption DEF IInv, SessionsInv, DescriptorsOwned
  <1> QED
    BY <1>2, <1>3

\* What recv takes is of one descriptor.
LEMMA ReceiveOne ==
  ASSUME SessionsType, NEW p, NEW end, NEW done, receive(p, end, done)
  PROVE  \A d \in Descriptors : d # socket[p] => inbox'[d] = inbox[d]
  <1>1. inbox' = inbox \/ inbox' = [inbox EXCEPT ![socket[p]] = Tail(inbox[socket[p]])]
    BY Zenon DEF receive
  <1> QED
    BY <1>1 DEF SessionsType

\* The report of an ICMP socket.
LEMMA IcmpReportInv == ASSUME IInv, HandleIcmp, UNCHANGED callVars PROVE IInv'
  <1>1. PICK r \in reports :
          r.ptr \in icmp /\ check_icmp_socket(r.ptr, r.err) /\ goto_next(reports \ {r})
    BY DEF HandleIcmp
  <1>2. r.ptr \in registered /\ pc = "handle" /\ SessionsInv /\ SessionsType /\ LoopType
    BY <1>1 DEF icmp, HandleIcmp, IInv, TypeOK
  <1>3. /\ state[r.ptr] # "CLOSED" /\ r.err \in BOOLEAN /\ socket[r.ptr] \in Descriptors
        /\ r.err \/ inbox[socket[r.ptr]] # <<>>
    BY <1>1, <1>2, ReportedOpen
  <1>4. SessionsInv' /\ (Watched => Watched') /\ Stable
    BY <1>1, <1>2, <1>3, IcmpInv
  <1>5. \A d \in Descriptors : d # socket[r.ptr] => inbox'[d] = inbox[d]
    <2>1. CASE r.err
      BY <1>1, <2>1 DEF check_icmp_socket
    <2>2. CASE ~r.err
      BY <1>1, <1>2, <2>2, ReceiveOne DEF check_icmp_socket
    <2> QED
      BY <2>1, <2>2
  <1>6. reports' = reports \ {r}
    BY <1>1 DEF goto_next
  <1>7. /\ LoopType' /\ UNCHANGED <<thread_id, pipe>>
        /\ pc' = IF reports \ {r} = {} THEN "top" ELSE "handle"
    BY <1>1, <1>2, <1>6, GotoType DEF goto_next
  <1>8. ASSUME NEW s \in reports', s.ptr \in icmp, ~s.err
        PROVE  inbox'[socket[s.ptr]] # <<>>
    <2>1. s \in reports /\ s.ptr # r.ptr
      BY <1>6 DEF IInv, ReportsInv
    <2> QED
      BY <1>2, <1>3, <1>5, <1>8, <2>1, OtherUnread
  <1>9. UNCHANGED <<call, starts, sent>>
    BY DEF callVars
  <1> QED
    BY <1>2, <1>4, <1>6, <1>7, <1>8, <1>9, WithReports

\* The report of a UDP socket, which stays until nothing is left to read.
LEMMA UdpReportInv == ASSUME IInv, HandleUdp, UNCHANGED callVars PROVE IInv'
  <1>1. PICK r \in reports :
          /\ r.ptr \in udp
          /\ \/ /\ readable(r)
                /\ check_udp_socket(r.ptr)
                /\ UNCHANGED loopVars
             \/ /\ ~readable(r)
                /\ goto_next(reports \ {r})
                /\ UNCHANGED sessionVars
    BY DEF HandleUdp
  <1>2. r.ptr \in registered /\ pc = "handle" /\ SessionsInv /\ SessionsType /\ LoopType
    BY <1>1 DEF udp, HandleUdp, IInv, TypeOK
  <1>3. state[r.ptr] # "CLOSED" /\ socket[r.ptr] \in Descriptors
    BY <1>1, <1>2, ReportedOpen
  <1>4. UNCHANGED <<call, starts, sent>>
    BY DEF callVars
  <1>5. CASE readable(r) /\ check_udp_socket(r.ptr) /\ UNCHANGED loopVars
    <2>1. receive(r.ptr, "FINISHING", flow[r.ptr] \in DnsFlows)
      BY <1>5 DEF check_udp_socket
    <2>2. inbox[socket[r.ptr]] # <<>>
      BY <1>5 DEF readable
    <2>3. SessionsInv' /\ (Watched => Watched') /\ Stable
      BY <1>1, <1>2, <1>3, <2>1, <2>2, ReceiveInv
    <2>4. UNCHANGED <<pc, thread_id, sessions, since, recheck, wait, reports, tun, up, pipe>>
      BY <1>5 DEF loopVars
    <2>5. LoopType'
      BY <1>2, <2>4 DEF LoopType
    <2>6. \A d \in Descriptors : d # socket[r.ptr] => inbox'[d] = inbox[d]
      BY <1>2, <2>1, ReceiveOne
    <2>7. ASSUME NEW s \in reports', s.ptr \in icmp, ~s.err
          PROVE  inbox'[socket[s.ptr]] # <<>>
      <3>1. s.ptr # r.ptr
        BY <1>1, <2>7, SessionsAssumption DEF udp, icmp, Flows
      <3> QED
        BY <1>2, <1>3, <2>4, <2>6, <2>7, <3>1, OtherUnread
    <2> QED
      BY <1>2, <1>4, <2>3, <2>4, <2>5, <2>7, WithReports
  <1>6. CASE goto_next(reports \ {r}) /\ UNCHANGED sessionVars
    <2>1. reports' = reports \ {r}
      BY <1>6 DEF goto_next
    <2>2. /\ LoopType' /\ UNCHANGED <<thread_id, pipe>>
          /\ pc' = IF reports \ {r} = {} THEN "top" ELSE "handle"
      BY <1>2, <1>6, <2>1, GotoType DEF goto_next
    <2>3. SessionsInv' /\ (Watched => Watched') /\ Stable /\ UNCHANGED inbox
      BY <1>2, <1>6, SameSessions
    <2>4. \A s \in reports' : (s.ptr \in icmp /\ ~s.err) => inbox'[socket[s.ptr]] # <<>>
      BY <2>1, <2>3 DEF IInv, ReportsInv, Unread
    <2> QED
      BY <1>2, <1>4, <2>1, <2>2, <2>3, <2>4, WithReports
  <1> QED
    BY <1>1, <1>5, <1>6

-----------------------------------------------------------------------------
(* The theorems. *)

\* The invariant holds at first.
LEMMA InitHolds == Init => IInv
  <1> SUFFICES ASSUME Init PROVE IInv
    OBVIOUS
  <1>1. InitSessions /\ InitLoop /\ call = "uninitialised" /\ starts = 0 /\ sent = 0
    BY DEF Init
  <1>2. registered = {} /\ active = {}
    BY <1>1 DEF InitSessions, registered, active
  <1>3. <<>> \in Seq(Ids \cup {0}) /\ <<>> \in Seq(Packets)
    OBVIOUS
  <1>4. 0 \in 0 .. Long
    BY SessionsAssumption DEF Long
  <1>5. SessionsType
    BY <1>1, <1>3, <1>4 DEF InitSessions, SessionsType
  <1>6. thread_id \in BOOLEAN /\ recheck \in BOOLEAN /\ up \in BOOLEAN
    BY <1>1, Zenon DEF InitLoop
  <1>7. LoopType
    BY <1>1, <1>3, <1>6 DEF InitLoop, LoopType
  <1>8. SessionsInv
    BY <1>1, <1>2, <1>5 DEF InitSessions, SessionsInv, DescriptorsOwned, EpollOwned,
      OneSession, StopIsIcmp
  <1>9. ReportsInv /\ ThreadInv /\ SessionsWatched
    BY <1>1, <1>2 DEF InitLoop, ReportsInv, ThreadInv, StoppedIsStopped, SessionsWatched
  <1> QED
    BY <1>1, <1>5, <1>7, <1>8, <1>9 DEF IInv, TypeOK

\* Every step keeps it.
LEMMA StepHolds == IInv /\ [Next]_vars => IInv'
  <1> SUFFICES ASSUME IInv, [Next]_vars PROVE IInv'
    OBVIOUS
  <1>1. CASE Call
    BY <1>1, InitInv, StartInv, StopInv, WriteInv, JoinInv DEF Call, Stop
  <1>2. CASE Environment
    BY <1>2, AppInv, ServerInv, TunInv DEF Environment
  <1>3. CASE Failure /\ UNCHANGED callVars
    BY <1>3, FailureInv
  <1>4. CASE Round /\ UNCHANGED callVars
    BY <1>4, BeginInv, RoundInv, ReportInv, LoopInv, TunPacketInv, IcmpReportInv,
      UdpReportInv, EndInv DEF Round
  <1>5. CASE Tick /\ UNCHANGED callVars
    BY <1>5, TickInv
  <1>6. CASE UNCHANGED vars
    <2>1. UNCHANGED <<sessionVars, loopVars, call, starts, sent>>
      BY <1>6 DEF vars, callVars
    <2>2. /\ call' \in {"uninitialised", "out", "stopping", "write", "join", "stopped"}
          /\ call' \in {"stopped", "uninitialised"} => pc = "none"
          /\ starts' \in Nat
      BY <2>1 DEF IInv, TypeOK, ThreadInv, StoppedIsStopped
    <2> QED
      BY <2>1, <2>2, CallerInv
  <1> QED
    BY <1>1, <1>2, <1>3, <1>4, <1>5, <1>6 DEF Next, Thread

\* So it always holds.
THEOREM Invariant == Spec => []IInv
  BY InitHolds, StepHolds, PTL DEF Spec
\* A timeout is negative only past the limit of sessions.
LEMMA NegativeTimeout ==
  ASSUME NEW p \in Pointers, NEW count \in Nat, timeout(p, count) < 0
  PROVE  count > maxsessions
  <1> DEFINE percent == (count * 100) \div maxsessions
             b == base_timeout(p)
  <1> SUFFICES ASSUME count =< maxsessions PROVE FALSE
    BY SessionsAssumption
  <1>1. b \in Nat /\ maxsessions \in Nat \ {0}
    BY SessionsAssumption DEF base_timeout
  <1>2. percent \in Int /\ percent =< 100
    <2>1. percent \in Int /\ percent * maxsessions =< count * 100
      BY <1>1
    <2>2. count * 100 =< 100 * maxsessions
      BY <1>1
    <2> HIDE DEF percent
    <2>3. ASSUME percent >= 101
          PROVE  FALSE
      <3>1. percent * maxsessions >= 101 * maxsessions
        BY <1>1, <2>1, <2>3
      <3> QED
        BY <1>1, <2>1, <2>2, <3>1
    <2> QED
      BY <2>1, <2>3
  <1> HIDE DEF percent, b
  <1>3. b * (100 - percent) \in Nat
    BY <1>1, <1>2
  <1> DEFINE product == b * (100 - percent)
  <1> HIDE DEF product
  <1>4. quotient(product, 100) \in Nat
    BY <1>3 DEF quotient, product
  <1>5. timeout(p, count) = quotient(product, 100)
    BY Zenon DEF timeout, product, percent, b
  <1> QED
    BY <1>4, <1>5

\* The steps that take the socket of a session in use are those of a check that expires it.
LEMMA ClosedByCheck ==
  ASSUME IInv, Next, NEW p \in active, running, idle[p] = 0, socket'[p] = 0
  PROVE  Cardinality(active) > maxsessions
  <1>1. p \in Pointers /\ p \in registered /\ state[p] = "ACTIVE"
    BY DEF active, registered
  <1>2. socket[p] # 0 /\ socket[p] \in Descriptors
    BY <1>1, HasSocket DEF IInv
  <1>3. ASSUME socket' = socket
        PROVE  FALSE
    BY <1>2, <1>3
  <1>4. CASE Call
    <2>1. pc # "none"
      BY DEF running
    <2>2. CASE StopJoins \/ jni_done
      BY <2>1, <2>2 DEF StopJoins, joined, jni_done, IInv, ThreadInv, StoppedIsStopped
    <2>3. CASE jni_init \/ jni_start \/ StopReads \/ StopKills \/ StopWrites
      <3>1. UNCHANGED sessionVars
        BY <2>3 DEF jni_init, jni_start, StopReads, StopKills, StopWrites
      <3> QED
        BY <1>3, <3>1 DEF sessionVars, fields
    <2> QED
      BY <1>4, <2>2, <2>3 DEF Call, Stop
  <1>5. CASE Environment \/ Failure \/ Tick
    <2>1. socket' = socket
      BY <1>5 DEF Environment, AppSends, Answer, SocketFails, TunFails, Failure, AttachFails,
        WaitFails, ReadFails, Tick, sessionVars, fields
    <2> QED
      BY <1>3, <2>1
  <1>6. CASE Round
    <2>1. CASE Start \/ SkipCheck \/ Report \/ Timeout \/ HandlePipe \/ HandleTun \/ Drained \/ End
      <3>1. socket' = socket
        BY <2>1 DEF Start, SkipCheck, Report, Timeout, HandlePipe, HandleTun, Drained, End,
          sessionVars, fields
      <3> QED
        BY <1>3, <3>1
    <2>2. CASE HandleIcmp
      BY <1>3, <2>2 DEF HandleIcmp, check_icmp_socket, receive
    <2>3. CASE HandleUdp
      BY <1>3, <2>3 DEF HandleUdp, check_udp_socket, receive, sessionVars, fields
    <2>4. CASE check_tun
      <3>1. Head(tun) \in Packets
        BY <2>4 DEF check_tun, IInv, TypeOK, LoopType
      <3>2. Stable
        BY <2>4, <3>1, PacketInv DEF check_tun, IInv
      <3> QED
        BY <1>1, <1>2, <3>2 DEF Stable
    <2>5. CASE Check
      <3> DEFINE count == Cardinality(active)
      <3>1. count \in Nat
        BY CountType
      <3>2. check_sessions(count)
        BY <2>5 DEF Check
      <3> HIDE DEF count
      <3>3. p \in icmp_over(count) \cup udp_kept \cup udp_over(count)
        BY <1>1, <1>2, <3>2 DEF check_sessions
      <3>4. expired(p, count)
        BY <1>1, <3>3 DEF icmp_over, udp_kept, udp_over
      <3>5. timeout(p, count) < 0
        BY <1>1, <3>1, <3>4, TimeoutType DEF expired
      <3> QED
        BY <1>1, <3>1, <3>5, NegativeTimeout DEF count
    <2> QED
      BY <1>6, <2>1, <2>2, <2>3, <2>4, <2>5 DEF Round
  <1> QED
    BY <1>4, <1>5, <1>6 DEF Next, Thread

\* Every variable keeps its type: no wait is negative, whatever the number of sessions, no
\* empty queue is read and the pipe is read only when there is a byte in it.
THEOREM TypeCorrect == Spec => []TypeOK
  <1>1. IInv => TypeOK
    BY DEF IInv
  <1> QED
    BY <1>1, Invariant, PTL

\* No descriptor is lost, closed twice or used after it is closed, whichever of the checks,
\* of the events and of the calls from outside takes a session off the list.
THEOREM OwnedAlways == Spec => []DescriptorsOwned
  <1>1. IInv => DescriptorsOwned
    BY DEF IInv, SessionsInv
  <1> QED
    BY <1>1, Invariant, PTL

\* The pointers epoll reports are of sessions on the list until they are handled, however
\* many packets from tun are handled first.
THEOREM ValidAlways == Spec => []ReportsValid
  <1>1. IInv => ReportsValid
    BY DEF IInv, SessionsInv, EpollOwned, ReportsInv, Valid, ReportsValid
  <1> QED
    BY <1>1, Invariant, PTL

\* No packet has two sessions to choose from.
THEOREM OneSessionAlways == Spec => []OneSession
  <1>1. IInv => OneSession
    BY DEF IInv, SessionsInv
  <1> QED
    BY <1>1, Invariant, PTL

\* No session in use is left out of the epoll set of the thread that runs.
THEOREM WatchedAlways == Spec => []SessionsWatched
  <1>1. IInv => SessionsWatched
    BY DEF IInv
  <1> QED
    BY <1>1, Invariant, PTL

\* After jni_stop no thread is left to touch what jni_stop and jni_done clear.
THEOREM StoppedAlways == Spec => []StoppedIsStopped
  <1>1. IInv => StoppedIsStopped
    BY DEF IInv, ThreadInv
  <1> QED
    BY <1>1, Invariant, PTL

\* Up to the limit no session is closed in the second it was used.
THEOREM InUseAlways == Spec => InUseStays
  <1> DEFINE P == \A p \in active : (idle[p] = 0 /\ running /\ socket'[p] = 0)
                    => Cardinality(active) > maxsessions
  <1>1. IInv /\ [Next]_vars => [P]_vars
    BY ClosedByCheck
  <1> QED
    BY <1>1, Invariant, PTL DEF Spec, InUseStays

-----------------------------------------------------------------------------
(* How long a session is kept. *)

\* A session on the list has a flow, so that one of the two checks of a round is for it.
HasFlow == \A p \in registered : flow[p] \in Flows \cup {LEASED}

\* No session has outlived its timeout by more than the rounding at the last check; while
\* the next check may be skipped there is the second of the skipped one to come, and in
\* epoll_wait what is left of the wait.
IdleInv ==
  running => \A p \in active :
    /\ since < 2 => idle[p] =< base_timeout(p) + since
    /\ idle[p] + (IF pc = "poll" THEN wait ELSE 0) =< base_timeout(p) + 2

\* More sessions never make a timeout longer than get_udp_timeout or get_icmp_timeout has it.
LEMMA TimeoutBound ==
  ASSUME NEW p \in Pointers, NEW count \in Nat
  PROVE  timeout(p, count) =< base_timeout(p)
  <1> DEFINE percent == (count * 100) \div maxsessions
             b == base_timeout(p)
  <1>1. b \in Nat /\ maxsessions \in Nat \ {0}
    BY SessionsAssumption DEF base_timeout
  <1>2. percent \in Nat
    BY <1>1
  <1> HIDE DEF percent, b
  <1> DEFINE product == b * (100 - percent)
  <1>3. product \in Int /\ product =< 100 * b
    <2>1. b * percent \in Nat
      BY <1>1, <1>2
    <2>2. product = 100 * b - b * percent
      BY <1>1, <1>2
    <2> HIDE DEF product
    <2> QED
      BY <1>1, <2>1, <2>2
  <1> HIDE DEF product
  <1>4. quotient(product, 100) =< b
    <2>1. CASE product >= 0
      BY <1>1, <1>3, <2>1 DEF quotient
    <2>2. CASE ~(product >= 0)
      <3>1. (-product) \div 100 \in Nat
        BY <1>3, <2>2
      <3> QED
        BY <1>1, <1>3, <2>2, <3>1 DEF quotient
    <2> QED
      BY <2>1, <2>2
  <1>5. timeout(p, count) = quotient(product, 100)
    BY Zenon DEF timeout, product, percent, b
  <1> QED
    BY <1>4, <1>5 DEF b

\* A step that no session outlives: the clock stands still, and a session in use has just
\* been used or has not changed.
LEMMA IdleKept ==
  ASSUME IInv, IInv', IdleInv, since' = since, running' => running,
         pc' = "poll" => pc = "poll" /\ wait' = wait,
         \A p \in active' :
           \/ idle'[p] = 0 /\ pc' # "poll"
           \/ p \in active /\ idle'[p] = idle[p] /\ base_timeout(p)' = base_timeout(p)
  PROVE  IdleInv'
  <1> SUFFICES ASSUME running', NEW p \in active'
               PROVE  /\ since' < 2 => idle'[p] =< base_timeout(p)' + since'
                      /\ idle'[p] + (IF pc' = "poll" THEN wait' ELSE 0) =< base_timeout(p)' + 2
    BY DEF IdleInv
  <1>1. /\ since \in 0 .. 2 /\ wait \in Nat
        /\ p \in Pointers /\ base_timeout(p)' \in Nat
    BY SessionsAssumption DEF IInv, TypeOK, LoopType, active, registered, base_timeout
  <1>2. CASE idle'[p] = 0 /\ pc' # "poll"
    BY <1>1, <1>2
  <1>3. CASE p \in active /\ idle'[p] = idle[p] /\ base_timeout(p)' = base_timeout(p)
    <2>1. /\ since < 2 => idle[p] =< base_timeout(p) + since
          /\ idle[p] + (IF pc = "poll" THEN wait ELSE 0) =< base_timeout(p) + 2
      BY <1>3 DEF IdleInv
    <2>2. idle[p] \in Nat /\ base_timeout(p) \in Nat
      BY <1>1, SessionsAssumption DEF IInv, TypeOK, SessionsType, base_timeout
    <2> QED
      BY <1>1, <1>3, <2>1, <2>2
  <1> QED
    BY <1>2, <1>3

\* Where no session is used or checked.
LEMMA SameIdle ==
  ASSUME IInv, IInv', HasFlow, IdleInv, UNCHANGED <<state, flow, idle, since>>,
         running' => running, pc' = "poll" => pc = "poll" /\ wait' = wait
  PROVE  HasFlow' /\ IdleInv'
  <1>1. registered' = registered /\ active' = active
    BY DEF registered, active
  <1>2. \A p \in active' : base_timeout(p)' = base_timeout(p)
    BY DEF base_timeout
  <1>3. HasFlow'
    BY <1>1 DEF HasFlow
  <1> QED
    BY <1>1, <1>2, <1>3, IdleKept

\* Where the thread does not run.
LEMMA NotRunningIdle ==
  ASSUME HasFlow, ~running', \A p \in registered' : p \in registered /\ flow'[p] = flow[p]
  PROVE  HasFlow' /\ IdleInv'
  BY DEF HasFlow, IdleInv

\* The caller, the apps and the servers use no session.
LEMMA OutsideIdle ==
  ASSUME IInv, IInv', HasFlow, IdleInv, Call \/ Environment
  PROVE  HasFlow' /\ IdleInv'
  <1>1. CASE StopJoins \/ jni_done
    <2>1. registered' = {}
      BY <1>1 DEF StopJoins, jni_done, clear, registered
    <2> QED
      BY <2>1 DEF HasFlow, IdleInv, active
  <1>2. CASE jni_start
    <2>1. UNCHANGED sessionVars
      BY <1>2 DEF jni_start
    <2>2. UNCHANGED <<state, flow, idle>> /\ since' = since
      BY <1>2, <2>1 DEF jni_start, loopVars, sessionVars, fields
    <2>3. CASE UNCHANGED loopVars
      BY <2>2, <2>3, SameIdle DEF loopVars, running
    <2>4. CASE pc' = "start"
      BY <2>2, <2>4, NotRunningIdle DEF running, registered
    <2> QED
      BY <1>2, <2>3, <2>4 DEF jni_start
  <1>3. CASE jni_init \/ StopReads \/ StopKills \/ StopWrites \/ Environment
    <2>1. UNCHANGED <<state, flow, idle>>
      BY <1>3 DEF jni_init, StopReads, StopKills, StopWrites, Environment, AppSends, Answer,
        SocketFails, TunFails, sessionVars, fields
    <2>2. UNCHANGED <<pc, since, wait>>
      BY <1>3 DEF jni_init, StopReads, StopKills, StopWrites, Environment, AppSends, Answer,
        SocketFails, TunFails, loopVars
    <2> QED
      BY <2>1, <2>2, SameIdle DEF running
  <1> QED
    BY <1>1, <1>2, <1>3 DEF Call, Stop

\* A second passes.
LEMMA TickIdle ==
  ASSUME IInv, IInv', HasFlow, IdleInv, Tick
  PROVE  HasFlow' /\ IdleInv'
  <1>1. UNCHANGED <<state, flow, pc>>
    BY DEF Tick
  <1>2. registered' = registered /\ active' = active
    BY <1>1 DEF registered, active
  <1>3. HasFlow'
    BY <1>1, <1>2 DEF HasFlow
  <1>4. CASE pc = "none"
    BY <1>1, <1>3, <1>4 DEF IdleInv, running
  <1>5. CASE pc = "poll" /\ wait > 0
    <2> SUFFICES ASSUME NEW p \in active
                 PROVE  /\ since' < 2 => idle'[p] =< base_timeout(p)' + since'
                        /\ idle'[p] + wait' =< base_timeout(p)' + 2
      BY <1>1, <1>2, <1>3, <1>5 DEF IdleInv
    <2>1. /\ p \in Pointers /\ idle[p] \in Nat /\ base_timeout(p) \in Nat
          /\ since \in 0 .. 2 /\ wait \in Nat
      BY SessionsAssumption DEF IInv, TypeOK, SessionsType, LoopType, active, registered,
        base_timeout
    <2>2. base_timeout(p)' = base_timeout(p)
      BY <1>1 DEF base_timeout
    <2>3. /\ since < 2 => idle[p] =< base_timeout(p) + since
          /\ idle[p] + wait =< base_timeout(p) + 2
      BY <1>5 DEF IdleInv, running
    <2>4. idle'[p] \in {idle[p], idle[p] + 1}
      BY <2>1 DEF Tick
    <2>5. /\ since' = IF since < 2 THEN since + 1 ELSE since
          /\ wait' = wait - 1
      BY <1>5 DEF Tick
    <2> QED
      BY <1>5, <2>1, <2>2, <2>3, <2>4, <2>5
  <1> QED
    BY <1>3, <1>4, <1>5 DEF Tick

\* A new thread leaves no session in use; one that ends or fails bounds none.
LEMMA BeginIdle ==
  ASSUME HasFlow, Start \/ End \/ AttachFails \/ WaitFails \/ ReadFails \/ HandlePipe
  PROVE  HasFlow' /\ IdleInv'
  <1>1. CASE Start
    <2>1. flow' = flow /\ check_allowed
      BY <1>1 DEF Start
    <2>2. registered' = registered /\ active' = {}
      BY <2>1 DEF check_allowed, allowed, registered, active
    <2> QED
      BY <2>1, <2>2 DEF HasFlow, IdleInv
  <1>2. CASE End \/ AttachFails \/ WaitFails \/ ReadFails \/ HandlePipe
    <2>1. UNCHANGED <<state, flow>>
      BY <1>2 DEF End, AttachFails, WaitFails, ReadFails, HandlePipe, sessionVars, fields
    <2>2. ~running'
      BY <1>2 DEF End, AttachFails, WaitFails, ReadFails, HandlePipe, goto, running
    <2> QED
      BY <2>1, <2>2, NotRunningIdle DEF registered
  <1> QED
    BY <1>1, <1>2

\* The round's check ends every session past its timeout, and epoll_wait returns when the
\* first of the others is.
LEMMA CheckIdle ==
  ASSUME IInv, IInv', HasFlow, IdleInv, Check
  PROVE  HasFlow' /\ IdleInv'
  <1> DEFINE count == Cardinality(active)
  <1>1. count \in Nat
    BY CountType
  <1>2. /\ check_sessions(count) /\ since' = 0 /\ pc' = "poll"
        /\ \A w \in waits(count) : wait' =< w
    BY DEF Check
  <1> HIDE DEF count
  <1> DEFINE gone == icmp_over(count) \cup udp_kept
             over == udp_over(count)
  <1>3. /\ \A p \in Pointers :
             /\ state'[p] = IF p \in gone THEN "free" ELSE IF p \in over THEN "CLOSED" ELSE state[p]
             /\ idle'[p] = IF p \in gone \cup over THEN 0 ELSE idle[p]
             /\ flow'[p] = IF p \in gone THEN "none" ELSE flow[p]
    BY <1>2 DEF check_sessions, free
  <1>4. gone \subseteq registered /\ over \subseteq registered
    BY DEF icmp_over, udp_kept, udp_over, icmp, udp
  <1>5. \A p \in active : expired(p, count) => p \in gone \cup over
    BY DEF icmp_over, udp_kept, udp_over, icmp, udp, HasFlow, Flows, active
  <1> HIDE DEF gone, over
  <1>6. \A p \in registered' : p \in registered /\ p \notin gone /\ flow'[p] = flow[p]
    BY <1>3, <1>4 DEF registered
  <1>7. HasFlow'
    BY <1>6 DEF HasFlow
  <1> SUFFICES ASSUME NEW p \in active'
               PROVE  /\ idle'[p] =< base_timeout(p)'
                      /\ idle'[p] + wait' =< base_timeout(p)' + 2
    <2>1. since' \in Nat
      BY <1>2
    <2>2. \A p \in active' : idle'[p] \in Nat /\ base_timeout(p)' \in Nat
      BY SessionsAssumption DEF IInv, TypeOK, SessionsType, active, registered, base_timeout
    <2> QED
      BY <1>2, <1>7, <2>1, <2>2 DEF IdleInv
  <1>8. p \in Pointers /\ p \in registered' /\ state'[p] = "ACTIVE"
    BY DEF active, registered
  <1>9. p \in active /\ p \notin gone \cup over /\ flow'[p] = flow[p] /\ idle'[p] = idle[p]
    BY <1>3, <1>6, <1>8 DEF active
  <1>10. ~expired(p, count) /\ timeout(p, count) \in Int /\ idle[p] \in Nat /\ wait' \in Nat
    BY <1>1, <1>5, <1>8, <1>9, TimeoutType DEF IInv, TypeOK, SessionsType, LoopType
  <1>11. idle[p] =< timeout(p, count)
    BY <1>9, <1>10 DEF expired, active
  <1>12. wait' =< timeout(p, count) + 1 - idle[p]
    BY <1>2, <1>9, <1>10 DEF waits
  <1>13. timeout(p, count) =< base_timeout(p) /\ base_timeout(p)' = base_timeout(p)
    BY <1>1, <1>8, <1>9, TimeoutBound DEF base_timeout
  <1>14. base_timeout(p) \in Nat
    BY SessionsAssumption DEF base_timeout
  <1> QED
    BY <1>9, <1>10, <1>11, <1>12, <1>13, <1>14

\* The check is skipped only in the second of the last one or the next.
LEMMA SkipIdle ==
  ASSUME IInv, IInv', HasFlow, IdleInv, SkipCheck
  PROVE  HasFlow' /\ IdleInv'
  <1>1. /\ UNCHANGED <<state, flow, idle, since>>
        /\ pc = "top" /\ pc' = "poll" /\ since < 2 /\ wait' = 1
    BY DEF SkipCheck, sessionVars, fields
  <1>2. registered' = registered /\ active' = active
    BY <1>1 DEF registered, active
  <1>3. HasFlow'
    BY <1>1, <1>2 DEF HasFlow
  <1>4. ASSUME NEW p \in active
        PROVE  /\ idle'[p] =< base_timeout(p)' + since'
               /\ idle'[p] + 1 =< base_timeout(p)' + 2
    <2>1. idle[p] =< base_timeout(p) + since
      BY <1>1 DEF IdleInv, running
    <2>2. idle[p] \in Nat /\ base_timeout(p) \in Nat /\ since \in 0 .. 2
      BY SessionsAssumption DEF IInv, TypeOK, SessionsType, LoopType, active, registered,
        base_timeout
    <2>3. base_timeout(p)' = base_timeout(p)
      BY <1>1 DEF base_timeout
    <2> QED
      BY <1>1, <2>1, <2>2, <2>3
  <1> QED
    BY <1>1, <1>2, <1>3, <1>4 DEF IdleInv

\* A socket's answer or error is of the session's own last second.
LEMMA ReceiveIdle ==
  ASSUME IInv, IInv', HasFlow, IdleInv, pc = "handle", pc' \in {"handle", "top"},
         since' = since, flow' = flow, NEW p \in Pointers, p \in registered, NEW st,
         idle' = [idle EXCEPT ![p] = 0],
         state' = [state EXCEPT ![p] = st], st = state[p] \/ st # "ACTIVE"
  PROVE  HasFlow' /\ IdleInv'
  <1>1. \A q \in Pointers : /\ state'[q] = IF q = p THEN st ELSE state[q]
                            /\ idle'[q] = IF q = p THEN 0 ELSE idle[q]
    BY DEF IInv, TypeOK, SessionsType
  <1>2. registered' \subseteq registered
    BY <1>1 DEF registered
  <1>3. HasFlow'
    BY <1>2 DEF HasFlow
  <1>4. ASSUME NEW q \in active'
        PROVE  idle'[q] = 0 \/ (q \in active /\ idle'[q] = idle[q] /\ base_timeout(q)' = base_timeout(q))
    <2>1. q \in Pointers /\ q \in registered /\ state'[q] = "ACTIVE"
      BY <1>2 DEF active, registered
    <2>2. base_timeout(q)' = base_timeout(q)
      BY DEF base_timeout
    <2> QED
      BY <1>1, <2>1, <2>2 DEF active
  <1>5. running
    BY DEF running
  <1> QED
    BY <1>3, <1>4, <1>5, IdleKept

\* The events of the sockets.
LEMMA SocketIdle ==
  ASSUME IInv, IInv', HasFlow, IdleInv, HandleIcmp \/ HandleUdp
  PROVE  HasFlow' /\ IdleInv'
  <1>1. ASSUME NEW p \in registered, NEW end \in {"STOP", "FINISHING"}, NEW done,
               receive(p, end, done), pc = "handle", pc' \in {"handle", "top"}, since' = since
        PROVE  HasFlow' /\ IdleInv'
    <2>1. p \in Pointers /\ flow' = flow /\ idle' = [idle EXCEPT ![p] = 0]
      BY <1>1 DEF receive, registered
    <2>2. state' = [state EXCEPT ![p] = end] \/ state' = [state EXCEPT ![p] = state[p]]
      BY <1>1 DEF receive
    <2> QED
      BY <1>1, <2>1, <2>2, ReceiveIdle
  <1>2. CASE HandleIcmp
    <2>1. PICK r \in reports :
            r.ptr \in icmp /\ check_icmp_socket(r.ptr, r.err) /\ goto_next(reports \ {r})
      BY <1>2 DEF HandleIcmp
    <2>2. pc = "handle" /\ pc' \in {"handle", "top"} /\ since' = since /\ r.ptr \in registered
      BY <1>2, <2>1 DEF HandleIcmp, goto_next, goto, icmp
    <2>3. CASE receive(r.ptr, "STOP", FALSE)
      BY <1>1, <2>2, <2>3
    <2>4. CASE /\ flow' = flow
               /\ state' = [state EXCEPT ![r.ptr] = "STOP"]
               /\ idle' = [idle EXCEPT ![r.ptr] = 0]
      BY <2>2, <2>4, ReceiveIdle DEF registered
    <2> QED
      BY <2>1, <2>3, <2>4 DEF check_icmp_socket
  <1>3. CASE HandleUdp
    <2>1. PICK r \in reports :
            /\ r.ptr \in udp
            /\ \/ check_udp_socket(r.ptr) /\ UNCHANGED loopVars
               \/ goto_next(reports \ {r}) /\ UNCHANGED sessionVars
      BY <1>3 DEF HandleUdp
    <2>2. pc = "handle" /\ r.ptr \in registered
      BY <1>3, <2>1 DEF HandleUdp, udp
    <2>3. CASE check_udp_socket(r.ptr) /\ UNCHANGED loopVars
      <3>1. receive(r.ptr, "FINISHING", flow[r.ptr] \in DnsFlows)
        BY <2>3 DEF check_udp_socket
      <3>2. pc' = pc /\ since' = since
        BY <2>3 DEF loopVars
      <3> QED
        BY <1>1, <2>2, <3>1, <3>2
    <2>4. CASE goto_next(reports \ {r}) /\ UNCHANGED sessionVars
      <3>1. UNCHANGED <<state, flow, idle, since>> /\ pc' \in {"handle", "top"}
        BY <2>4 DEF goto_next, goto, sessionVars, fields
      <3> QED
        BY <2>2, <3>1, SameIdle DEF running
    <2> QED
      BY <2>1, <2>3, <2>4
  <1> QED
    BY <1>2, <1>3

\* A packet makes its session new, but for what check_dhcp takes, which leaves the
\* session's time alone: the new address is none of another timeout.
LEMMA ForwardIdle ==
  ASSUME IInv, IInv', HasFlow, IdleInv, pc = "drain", pc' = "drain", since' = since,
         NEW p \in Pointers, NEW d, NEW age, NEW i, NEW pkt \in Packets,
         forward(p, d, age, i, pkt),
         age = 0 \/ (p \in active /\ age = idle[p] /\ flow[p] = pkt.flow)
  PROVE  HasFlow' /\ IdleInv'
  <1> DEFINE end == IF pkt.flow \in IcmpFlows THEN "STOP" ELSE "FINISHING"
  <1>1. PICK st \in {"ACTIVE", end}, f \in {LEASED, pkt.flow}, a \in {age, 0} :
          /\ state' = [state EXCEPT ![p] = st]
          /\ flow' = [flow EXCEPT ![p] = f]
          /\ idle' = [idle EXCEPT ![p] = a]
          /\ a = 0 \/ (a = age /\ pkt.dhcp)
    <2>1. \/ /\ pkt.dhcp
             /\ \E f \in {LEASED, pkt.flow} :
                  /\ state' = [state EXCEPT ![p] = "ACTIVE"]
                  /\ flow' = [flow EXCEPT ![p] = f]
                  /\ idle' = [idle EXCEPT ![p] = age]
          \/ /\ state' = [state EXCEPT ![p] = "ACTIVE"]
             /\ flow' = [flow EXCEPT ![p] = pkt.flow]
             /\ idle' = [idle EXCEPT ![p] = 0]
          \/ /\ state' = [state EXCEPT ![p] = end]
             /\ flow' = [flow EXCEPT ![p] = pkt.flow]
             /\ idle' = [idle EXCEPT ![p] = 0]
      BY Zenon DEF forward
    <2> HIDE DEF end
    <2> QED
      BY <2>1
  <1>2. \A q \in Pointers : /\ state'[q] = IF q = p THEN st ELSE state[q]
                            /\ flow'[q] = IF q = p THEN f ELSE flow[q]
                            /\ idle'[q] = IF q = p THEN a ELSE idle[q]
    BY <1>1 DEF IInv, TypeOK, SessionsType
  <1>3. pkt.flow \in Flows
    BY DEF Packets, Flows
  <1>4. HasFlow'
    <2> SUFFICES ASSUME NEW q \in registered'
                 PROVE  flow'[q] \in Flows \cup {LEASED}
      BY DEF HasFlow
    <2>1. q \in Pointers /\ state'[q] # "free"
      BY DEF registered
    <2> QED
      BY <1>2, <1>3, <2>1 DEF HasFlow, registered
  <1>5. ASSUME NEW q \in active'
        PROVE  idle'[q] = 0 \/ (q \in active /\ idle'[q] = idle[q] /\ base_timeout(q)' = base_timeout(q))
    <2>1. q \in Pointers /\ state'[q] = "ACTIVE"
      BY DEF active, registered
    <2>2. CASE q # p
      BY <1>2, <2>1, <2>2 DEF active, registered, base_timeout
    <2>3. CASE q = p /\ a # 0
      <3>1. pkt.dhcp /\ p \in active /\ a = idle[p] /\ flow[p] = pkt.flow
        BY <1>1, <2>3
      <3>2. pkt.flow \in UdpFlows \ DnsFlows
        BY <3>1 DEF Packets
      <3>3. {pkt.flow, LEASED} \cap (IcmpFlows \cup DnsFlows) = {}
        BY <3>2, SessionsAssumption DEF Flows
      <3>4. base_timeout(p)' = base_timeout(p)
        BY <1>2, <3>1, <3>3 DEF base_timeout
      <3> QED
        BY <1>2, <2>3, <3>1, <3>4
    <2>4. CASE q = p /\ a = 0
      BY <1>2, <2>4
    <2> QED
      BY <2>2, <2>3, <2>4
  <1>6. running
    BY DEF running
  <1> QED
    BY <1>4, <1>5, <1>6, IdleKept

\* A packet from tun.
LEMMA PacketIdle ==
  ASSUME IInv, IInv', HasFlow, IdleInv, check_tun
  PROVE  HasFlow' /\ IdleInv'
  <1>1. pc = "drain" /\ pc' = "drain" /\ since' = since /\ handle_ip(Head(tun), sessions)
    BY DEF check_tun
  <1>2. Head(tun) \in Packets
    BY DEF check_tun, IInv, TypeOK, LoopType
  <1> DEFINE pkt == Head(tun)
  <1> HIDE DEF pkt
  <1>3. pkt \in Packets /\ handle_ip(pkt, sessions)
    BY <1>1, <1>2 DEF pkt
  <1>4. CASE UNCHANGED <<state, flow, idle>>
    BY <1>1, <1>4, SameIdle DEF running
  <1>5. CASE open_session(pkt)
    <2>1. ASSUME NEW d \in lowest, NEW p \in Pointers, forward(p, d, 0, pkt.id, pkt)
          PROVE  HasFlow' /\ IdleInv'
      BY <1>1, <1>3, <2>1, ForwardIdle
    <2> QED
      BY <1>4, <1>5, <2>1 DEF open_session, sessionVars, fields
  <1>6. ASSUME NEW p \in matching(pkt), state[p] = "ACTIVE",
               forward(p, socket[p], idle[p], id[p], pkt)
        PROVE  HasFlow' /\ IdleInv'
    <2>1. p \in Pointers /\ p \in active /\ flow[p] = pkt.flow
      BY <1>6 DEF matching, registered, active
    <2> QED
      BY <1>1, <1>3, <1>6, <2>1, ForwardIdle
  <1> QED
    BY <1>3, <1>4, <1>5, <1>6 DEF handle_ip, sessionVars, fields

\* Every step of the engine.
LEMMA IdleStep ==
  ASSUME IInv, IInv', HasFlow, IdleInv, [Next]_vars
  PROVE  HasFlow' /\ IdleInv'
  <1>1. CASE Report \/ Timeout \/ HandleTun \/ Drained
    <2>1. UNCHANGED <<state, flow, idle, since>>
      BY <1>1 DEF Report, Timeout, HandleTun, Drained, goto_next, goto, sessionVars, fields
    <2>2. running /\ pc' # "poll"
      BY <1>1 DEF Report, Timeout, HandleTun, Drained, goto_next, goto, running
    <2> QED
      BY <2>1, <2>2, SameIdle
  <1>2. CASE UNCHANGED vars
    BY <1>2, SameIdle DEF vars, sessionVars, fields, loopVars, running
  <1> QED
    BY <1>1, <1>2, OutsideIdle, TickIdle, BeginIdle, CheckIdle, SkipIdle, SocketIdle,
      PacketIdle DEF Next, Thread, Round, Failure

\* No session in use is kept longer than its timeout and two seconds, however many sessions
\* there are, whatever check is skipped, and whatever else wakes or occupies the thread.
THEOREM IdleAlways == Spec => []IdleBounded
  <1>1. Init => HasFlow /\ IdleInv
    BY DEF Init, InitSessions, InitLoop, HasFlow, IdleInv, registered, running
  <1>2. IInv /\ IInv' /\ HasFlow /\ IdleInv /\ [Next]_vars => HasFlow' /\ IdleInv'
    BY IdleStep
  <1>3. IInv /\ IdleInv => IdleBounded
    <2> SUFFICES ASSUME IInv, IdleInv, running, NEW p \in active
                 PROVE  idle[p] =< base_timeout(p) + 2
      BY DEF IdleBounded
    <2>1. idle[p] \in Nat /\ wait \in Nat /\ base_timeout(p) \in Nat
      BY SessionsAssumption DEF IInv, TypeOK, SessionsType, LoopType, active, registered,
        base_timeout
    <2>2. idle[p] + (IF pc = "poll" THEN wait ELSE 0) =< base_timeout(p) + 2
      BY DEF IdleInv
    <2> QED
      BY <2>1, <2>2
  <1> QED
    BY <1>1, <1>2, <1>3, Invariant, PTL DEF Spec
=============================================================================
