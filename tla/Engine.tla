------------------------------- MODULE Engine -------------------------------
(***************************************************************************)
(* The native engine as a whole: the calls of cpp/tun2http.c, the thread   *)
(* they start and stop (EventLoop) with its UDP and ICMP sessions          *)
(* (Sessions), and the apps, servers and faults around it.                 *)
(*                                                                         *)
(* The repository has no caller of the jni functions.  The caller here is  *)
(* one thread that calls jni_init first, starts and stops as it likes, and *)
(* calls jni_done only after jni_stop.                                     *)
(***************************************************************************)
EXTENDS EventLoop

CONSTANTS
  MaxStarts,         \* bound: calls of jni_start
  MaxPackets,        \* bound: packets the apps send
  MaxQueue,          \* bound: packets waiting in tun
  MaxBytes           \* bound: bytes in the pipe when jni_stop is called

ASSUME EngineAssumption == {MaxStarts, MaxPackets, MaxQueue, MaxBytes} \subseteq Nat

VARIABLES
  call,       \* where the caller is: in no call, or how far in one
  starts,     \* calls of jni_start so far
  sent        \* packets sent so far

callVars == <<call, starts, sent>>
vars == <<sessionVars, loopVars, callVars>>

-----------------------------------------------------------------------------
(* The calls of the caller. *)

\* A new pipe and an empty list.
jni_init ==
  /\ call = "uninitialised"
  /\ call' = "out"
  /\ UNCHANGED <<sessionVars, loopVars, starts, sent>>

\* A thread that may be running is left alone; else the next one gets the tun device of
\* the call.  What pthread_kill says of a thread that has ended is not defined.
jni_start ==
  /\ call \in {"out", "stopped"}
  /\ starts < MaxStarts
  /\ starts' = starts + 1
  /\ call' = "out"
  /\ \/ /\ thread_id
        /\ UNCHANGED loopVars
     \/ /\ thread_id => pc = "none"
        /\ thread_id' = TRUE
        /\ pc' = "start"
        /\ tun' = <<>>
        /\ up' = TRUE
        /\ UNCHANGED <<sessions, since, recheck, wait, reports, pipe>>
  /\ UNCHANGED <<sessionVars, sent>>

\* jni_stop reads thread_id, ...
StopReads ==
  /\ call \in {"out", "stopped"}
  /\ pipe =< MaxBytes
  /\ call' = IF thread_id THEN "stopping" ELSE "stopped"
  /\ UNCHANGED <<sessionVars, loopVars, starts, sent>>

\* ... asks whether the thread runs, and leaves the sessions alone if it does not, ...
StopKills ==
  /\ call = "stopping"
  /\ \/ call' = "write"
     \/ pc = "none" /\ call' = "stopped"
  /\ UNCHANGED <<sessionVars, loopVars, starts, sent>>

\* ... writes a byte to the pipe, which takes it: pipe() has not failed in jni_init, and
\* what earlier stops have left unread does not fill it.  (If write failed, jni_stop would
\* not join the thread and clear its sessions all the same.) ...
StopWrites ==
  /\ call = "write"
  /\ call' = "join"
  /\ pipe' = pipe + 1
  /\ UNCHANGED <<sessionVars, pc, thread_id, sessions, since, recheck, wait, reports>>
  /\ UNCHANGED <<tun, up, starts, sent>>

\* Mutant: the thread is not waited for.
not_joined == TRUE

joined == pc = "none"

\* ... and clears the sessions when the thread has ended.
StopJoins ==
  /\ call = "join"
  /\ joined
  /\ clear
  /\ call' = "stopped"
  /\ UNCHANGED <<loopVars, starts, sent>>

\* The sessions are cleared and the pipe is closed.
jni_done ==
  /\ call = "stopped"
  /\ clear
  /\ call' = "uninitialised"
  /\ pipe' = 0
  /\ UNCHANGED <<pc, thread_id, sessions, since, recheck, wait, reports, tun, up>>
  /\ UNCHANGED <<starts, sent>>

Stop == StopKills \/ StopWrites \/ StopJoins

-----------------------------------------------------------------------------
(* The environment. *)

\* An app sends a packet.
AppSends ==
  /\ starts > 0 /\ up
  /\ sent < MaxPackets /\ Len(tun) < MaxQueue
  /\ sent' = sent + 1
  /\ \E pkt \in Packets : tun' = Append(tun, pkt)
  /\ UNCHANGED <<sessionVars, pc, thread_id, sessions, since, recheck, wait, reports>>
  /\ UNCHANGED <<up, pipe, call, starts>>

\* A server answers a request, once at most.
Answer ==
  /\ \E d \in opened :
       \E i \in asked[d] :
         /\ asked' = [asked EXCEPT ![d] = @ \ {i}]
         /\ inbox' = [inbox EXCEPT ![d] = Append(@, i)]
  /\ UNCHANGED <<fields, opened, epoll, failed, leaked, echoed, loopVars, callVars>>

\* Or the socket has an error instead: the request is refused, or the socket is aborted.
SocketFails ==
  /\ "socket_error" \in Faults
  /\ \E d \in opened :
       \E i \in asked[d] :
         /\ asked' = [asked EXCEPT ![d] = @ \ {i}]
         /\ failed' = failed \cup {d}
  /\ UNCHANGED <<fields, opened, epoll, inbox, leaked, echoed, loopVars, callVars>>

\* The tun device is taken away.
TunFails ==
  /\ "detach" \in Faults
  /\ up' = FALSE
  /\ tun' = <<>>
  /\ UNCHANGED <<sessionVars, pc, thread_id, sessions, since, recheck, wait, reports>>
  /\ UNCHANGED <<pipe, callVars>>

-----------------------------------------------------------------------------
Init ==
  /\ InitSessions
  /\ InitLoop
  /\ call = "uninitialised" /\ starts = 0 /\ sent = 0

Call == jni_init \/ jni_start \/ StopReads \/ Stop \/ jni_done

Environment == AppSends \/ Answer \/ SocketFails \/ TunFails

Thread == (Round \/ Failure) /\ UNCHANGED callVars

Next == Call \/ Environment \/ Thread \/ (Tick /\ UNCHANGED callVars)

Spec == Init /\ [][Next]_vars

\* The thread and a call of jni_stop go on, and time passes.
Fairness ==
  /\ WF_vars(Round /\ UNCHANGED callVars)
  /\ WF_vars(Stop)
  /\ SF_vars(Tick /\ UNCHANGED callVars)

FairSpec == Spec /\ Fairness

-----------------------------------------------------------------------------
(* Properties. *)

\* The type invariant.
TypeOK ==
  /\ SessionsType
  /\ LoopType
  /\ call \in {"uninitialised", "out", "stopping", "write", "join", "stopped"}
  /\ starts \in Nat /\ sent \in Nat

running == pc \notin {"none", "start", "end"}

\* Every open descriptor belongs to one session or is one that open_udp_socket or
\* open_icmp_socket lost: none is closed twice, used after it is closed, or forgotten by
\* check_udp_session, check_icmp_session and clear.
DescriptorsOwned ==
  /\ \A p \in registered : socket[p] = 0 <=> state[p] = "CLOSED"
  /\ \A p \in registered : \A q \in registered :
       socket[p] = socket[q] /\ socket[p] # 0 => p = q
  /\ opened \ leaked = {socket[p] : p \in registered} \ {0}
  /\ \A p \in registered : socket[p] \notin leaked

\* What epoll reports for a socket is a session that still exists, and has that socket:
\* handle_events uses the pointer, although the packets it reads from tun in between change
\* the list.
ReportsValid ==
  /\ \A r \in reports : r.ptr \notin {PIPE, TUN} =>
       r.ptr \in registered /\ socket[r.ptr] \in opened /\ epoll[socket[r.ptr]] = r.ptr
  /\ \A d \in Descriptors : epoll[d] # 0 => epoll[d] \in registered /\ socket[epoll[d]] = d

\* A packet finds one session: handle_udp opens none for a flow that has one, closed or not,
\* and handle_icmp none beside one that is not stopped.
OneSession ==
  \A p \in registered : \A q \in registered :
    flow[p] = flow[q] /\ flow[p] # LEASED /\ "STOP" \notin {state[p], state[q]} => p = q

\* A session is not kept longer than its timeout and the two seconds that rounding and a
\* skipped check may add: epoll_wait does not sleep past the next timeout.
IdleBounded ==
  running => \A p \in active : idle[p] =< base_timeout(p) + 2

\* While the thread runs every session in use is watched: none is left over from an earlier
\* thread, whose epoll set is gone.
SessionsWatched ==
  running => \A p \in active : epoll[socket[p]] = p \/ "epoll_ctl" \in Faults

\* A session is not closed in the second of its last packet, unless there are more sessions
\* than the limit, which makes the timeout negative.
InUseStays ==
  [][\A p \in active : (idle[p] = 0 /\ running /\ socket'[p] = 0)
       => Cardinality(active) > maxsessions]_vars

\* When jni_stop has returned no thread is left: what jni_done clears and closes is not in
\* use, whether the thread ended by itself, was ending, or had just been started.
StoppedIsStopped == call \in {"stopped", "uninitialised"} => pc = "none"

\* jni_stop returns.
StopReturns == call = "join" ~> call = "stopped"

\* A session that is over gives back its descriptor, if the thread does not end.
Released ==
  \A p \in Pointers :
    state[p] \in {"FINISHING", "STOP"} ~> (socket[p] = 0 \/ pc = "none")

\* The app gets the identifier of its ping back: "restore original ID" (icmp.c:105).
EchoRestored == \A e \in echoed : e[1] = e[2]
=============================================================================
