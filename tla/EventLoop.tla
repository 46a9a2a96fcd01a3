----------------------------- MODULE EventLoop -----------------------------
(***************************************************************************)
(* The thread of the native engine, handle_events of cpp/session.c, which  *)
(* is alone to touch the sessions while it runs.  A round counts and       *)
(* checks the sessions, waits in epoll_wait and handles what it reports.   *)
(* The TCP sessions of the same list are in TcpSession.                    *)
(*                                                                         *)
(* A round takes no time: the clock ticks, in seconds, while the thread    *)
(* waits, and while there is none.                                         *)
(***************************************************************************)
EXTENDS Sessions

CONSTANTS
  EPOLL_TIMEOUT      \* the longest a round waits, in seconds

ASSUME EventLoopAssumption == EPOLL_TIMEOUT \in Nat \ {0}

VARIABLES
  pc,         \* where the thread is; "none" if there is none
  thread_id,  \* is it set?
  sessions,   \* the sessions counted at the beginning of the round
  since,      \* seconds begun since last_check, at most 2, which is far enough
  recheck,    \* wait EPOLL_MIN_CHECK only
  wait,       \* seconds epoll_wait has left
  reports,    \* what epoll_wait returned and has not been handled
  tun,        \* packets waiting in the tun device
  up,         \* the tun device is there; a detached one only has EPOLLERR
  pipe        \* bytes waiting in the pipe

loopVars == <<pc, thread_id, sessions, since, recheck, wait, reports, tun, up, pipe>>

\* What ev.data.ptr is for the pipe and for tun; it is the session's pointer for a socket.
PIPE == -1
TUN == 0

\* The thread goes on at next; sessions is of the round.
goto(next) ==
  /\ pc' = next
  /\ sessions' = IF next \in {"handle", "drain"} THEN sessions ELSE 0
  /\ recheck' = FALSE /\ wait' = 0
  /\ UNCHANGED <<thread_id, since, tun, up, pipe>>

\* The reports rs are left to handle.
goto_next(rs) ==
  /\ reports' = rs
  /\ goto(IF rs = {} THEN "top" ELSE "handle")

-----------------------------------------------------------------------------
(* Start and end of the thread. *)

\* AttachCurrentThread fails, and thread_id stays.
AttachFails ==
  /\ pc = "start"
  /\ "attach" \in Faults
  /\ goto("none")
  /\ UNCHANGED <<sessionVars, reports>>

\* The sessions an earlier thread left are terminated, then epoll is set up; last_check is 0.
Start ==
  /\ pc = "start"
  /\ check_allowed
  /\ \E set \in Outcomes("epoll_create") : pc' = IF set THEN "top" ELSE "end"
  /\ UNCHANGED <<flow, socket, idle, id, kernel, echoed>>
  /\ UNCHANGED <<thread_id, sessions, since, recheck, wait, reports, tun, up, pipe>>

\* The thread ends and leaves the sessions where they are.
End ==
  /\ pc = "end"
  /\ pc' = "none"
  /\ thread_id' = FALSE
  /\ since' = 2
  /\ epoll' = [d \in Descriptors |-> 0]
  /\ UNCHANGED <<fields, opened, inbox, asked, failed, leaked, echoed>>
  /\ UNCHANGED <<sessions, recheck, wait, reports, tun, up, pipe>>

-----------------------------------------------------------------------------
(* A round: count, check, wait. *)

\* Mutant: sessions that expired in this check count too.
waits_expired(count) ==
  {EPOLL_TIMEOUT} \cup {timeout(p, count) + 1 - idle[p] : p \in active}

\* Mutant: sessions do not shorten the wait.
waits_fixed(count) == {EPOLL_TIMEOUT}

\* How long epoll_wait may take: until the first active session expires.
waits(count) ==
  {EPOLL_TIMEOUT} \cup {timeout(p, count) + 1 - idle[p] :
                          p \in {q \in active : ~expired(q, count)}}

Check ==
  /\ pc = "top"
  /\ sessions' = Cardinality(active)
  /\ check_sessions(Cardinality(active))
  /\ since' = 0
  /\ recheck' = FALSE
  /\ wait' \in waits(Cardinality(active))
  /\ \A w \in waits(Cardinality(active)) : wait' =< w
  /\ pc' = "poll"
  /\ UNCHANGED <<thread_id, reports, tun, up, pipe>>

\* The last check was less than EPOLL_MIN_CHECK ago.
SkipCheck ==
  /\ pc = "top"
  /\ since < 2
  /\ sessions' = Cardinality(active)
  /\ recheck' = TRUE
  /\ wait' = 1
  /\ pc' = "poll"
  /\ UNCHANGED sessionVars
  /\ UNCHANGED <<thread_id, since, reports, tun, up, pipe>>

\* What epoll_wait finds ready, each with EPOLLERR or without.
ready ==
  {[ptr |-> PIPE, err |-> FALSE] : b \in {c \in {pipe} : c > 0}}
  \cup {[ptr |-> TUN, err |-> ~u] : u \in {v \in {up} : tun # <<>> \/ ~v}}
  \cup {[ptr |-> epoll[d], err |-> d \in failed] :
          d \in {e \in Descriptors : epoll[e] # 0 /\ (inbox[e] # <<>> \/ e \in failed)}}

Report ==
  /\ pc = "poll"
  /\ ready # {}
  /\ reports' = ready
  /\ pc' = "handle"
  /\ recheck' = FALSE /\ wait' = 0
  /\ UNCHANGED <<sessionVars, thread_id, sessions, since, tun, up, pipe>>

\* epoll_wait returns nothing; a signal has the same effect.
Timeout ==
  /\ pc = "poll"
  /\ ready = {}
  /\ wait = 0 \/ recheck
  /\ goto("top")
  /\ UNCHANGED <<sessionVars, reports>>

WaitFails ==
  /\ pc = "poll"
  /\ "epoll_wait" \in Faults
  /\ goto("end")
  /\ UNCHANGED <<sessionVars, reports>>

-----------------------------------------------------------------------------
(* The reports, in any order. *)

\* Mutant: stopping is not set.
HandlePipe_goes_on ==
  /\ pc = "handle"
  /\ \E r \in reports : r.ptr = PIPE
  /\ pipe' = pipe - 1
  /\ reports' = {}
  /\ pc' = "top"
  /\ sessions' = 0
  /\ UNCHANGED <<sessionVars, thread_id, since, recheck, wait, tun, up>>

\* A byte from the pipe stops the thread, which forgets the other reports.
HandlePipe ==
  /\ pc = "handle"
  /\ \E r \in reports : r.ptr = PIPE
  /\ pipe' = pipe - 1
  /\ reports' = {}
  /\ pc' = "end"
  /\ sessions' = 0
  /\ UNCHANGED <<sessionVars, thread_id, since, recheck, wait, tun, up>>

HandleTun ==
  /\ pc = "handle"
  /\ \E r \in reports :
       /\ r.ptr = TUN
       /\ reports' = reports \ {r}
  /\ goto("drain")
  /\ UNCHANGED sessionVars

\* check_tun, as long as tun is readable.
check_tun ==
  /\ pc = "drain"
  /\ tun # <<>>
  /\ tun' = Tail(tun)
  /\ handle_ip(Head(tun), sessions)
  /\ UNCHANGED <<pc, thread_id, sessions, since, recheck, wait, reports, up, pipe>>

\* tun cannot be read: the thread ends, whatever else was reported.
ReadFails ==
  /\ pc = "drain"
  /\ tun # <<>>
  /\ "read" \in Faults
  /\ reports' = {}
  /\ goto("end")
  /\ UNCHANGED sessionVars

Drained ==
  /\ pc = "drain"
  /\ tun = <<>>
  /\ goto_next(reports)
  /\ UNCHANGED sessionVars

HandleIcmp ==
  /\ pc = "handle"
  /\ \E r \in reports :
       /\ r.ptr \in icmp
       /\ check_icmp_socket(r.ptr, r.err)
       /\ goto_next(reports \ {r})

\* check_udp_socket is called as long as there is something to read and no error was reported.
readable(r) == ~r.err /\ inbox[socket[r.ptr]] # <<>>

HandleUdp ==
  /\ pc = "handle"
  /\ \E r \in reports :
       /\ r.ptr \in udp
       /\ \/ /\ readable(r)
             /\ check_udp_socket(r.ptr)
             /\ UNCHANGED loopVars
          \/ /\ ~readable(r)
             /\ goto_next(reports \ {r})
             /\ UNCHANGED sessionVars

\* Calls the thread makes that fail.
Failure == AttachFails \/ WaitFails \/ ReadFails

Round ==
  \/ Start \/ Check \/ SkipCheck \/ Report \/ Timeout
  \/ HandlePipe \/ HandleTun \/ check_tun \/ Drained \/ HandleIcmp \/ HandleUdp \/ End

-----------------------------------------------------------------------------
\* A second passes.
Tick ==
  /\ pc = "none" \/ (pc = "poll" /\ wait > 0)
  /\ idle' = [p \in Pointers |->
                IF p \in registered /\ idle[p] < Long THEN idle[p] + 1 ELSE idle[p]]
  /\ since' = IF since < 2 THEN since + 1 ELSE since
  /\ wait' = IF wait > 0 THEN wait - 1 ELSE 0
  /\ UNCHANGED <<state, flow, socket, id, kernel, echoed>>
  /\ UNCHANGED <<pc, thread_id, sessions, recheck, reports, tun, up, pipe>>

InitLoop ==
  /\ pc = "none" /\ thread_id = FALSE
  /\ sessions = 0 /\ since = 2 /\ recheck = FALSE /\ wait = 0
  /\ reports = {} /\ tun = <<>> /\ up = TRUE /\ pipe = 0

LoopType ==
  /\ pc \in {"none", "start", "top", "poll", "handle", "drain", "end"}
  /\ thread_id \in BOOLEAN
  /\ sessions \in Nat /\ since \in 0 .. 2 /\ wait \in Nat
  /\ recheck \in BOOLEAN
  /\ reports \subseteq [ptr : Pointers \cup {PIPE, TUN}, err : BOOLEAN]
  /\ tun \in Seq(Packets) /\ up \in BOOLEAN
  /\ pipe \in Nat
=============================================================================
