# MobileInjection: TLA+ models, checks and proofs

MobileInjection is an Android VPN app: it reads every packet the phone's apps send
from a tun device and relays their traffic over sockets of its own, part of it through
an HTTP proxy. The repository holds two engines for that, an app shell and an updater.
It has no tests beyond the generated stubs and a README of one line, so what a part
promises is taken from its code and comments.

Paths below are relative to `src/app/src/main/` (`cpp/`, `java/tun/proxy/`) and, for
the updater, to `src/openkarlandroid_update/src/main/java/com/karl/openkarlandroid_update/`.

## 1. The system

### 1.1 Components

| Component | State it keeps | Operations | Model |
|---|---|---|---|
| Native TCP relay `cpp/tcp.c` | per session: TCP state, sequence numbers, windows, queue `forward`, socket, `connect_sent` | `handle_tcp`, `check_tcp_socket`, `monitor_tcp_session`, `check_tcp_session` | `TcpSession`, `AppTcp`, `SeqNum`; what a session promises, `TcpRelay` |
| Native event loop `cpp/session.c`, `cpp/ip.c` | list `ng_session`, epoll set, stop flag | `handle_events`, `check_tun`, `handle_ip`, `clear` | `EventLoop` for the list of UDP and ICMP sessions; the round one TCP session sees, in `TcpSession` |
| Native UDP, ICMP `cpp/udp.c`, `cpp/icmp.c` | per session: state, idle time, identifiers | `handle_udp`, `check_udp_socket`, `check_udp_session`, the same for ICMP | `Sessions` |
| Native lifecycle `cpp/tun2http.c` | thread, pipe, global arguments | `jni_init`, `jni_start`, `jni_stop`, `jni_done` | `Engine` |
| Native parsers `cpp/dns.c`, `dhcp.c`, `http.c`, `tls.c`, `util.c` | none | names, URLs, SNI, checksum, `compare_u32` | `SeqNum` (`compare_u32`), `Sessions` (what `check_dhcp` does to a session), `TcpSession` (what `patch_http_url` does to a segment's length); the rest left out |
| Tunnel pair `tunnel/*.java`, `core/TcpProxyServer.java`, `core/TunnelFactory.java` | per tunnel: channel, key, `m_SendRemainBuffer`, brother, established, disposed; shared `GL_BUFFER` | `onAccepted`, `onConnectable`, `onReadable`, `onWritable`, `dispose` | `Tunnel`; what a pair promises, `BytePipe` |
| NAT and redirection `core/LocalVpnService.java`, `core/NatSessionManager.java` | table port -> session, with times | `onIPPacketReceived`, `createSession`, `getSession`, `clearExpiredSessions` | not modelled (6) |
| VPN service lifecycle `core/LocalVpnService.java` | `IsRunning`, threads, tun descriptor | `onStartCommand`, `run`, `runVPN`, `establishVPN`, `disconnectVPN`, `dispose` | not modelled (6) |
| DNS proxy `core/DnsProxy.java` | query table, fake addresses | `onDnsRequestReceived`, `OnDnsResponseReceived`, `clearExpiredQueries` | not modelled: its caller is commented out |
| Configuration `core/ProxyConfig.java`, `AppProxyManager`, `ChinaIpMaskManager`, `HttpHostHeaderParser` | rule tables | load, `needProxy` | not modelled: searches of tables |
| Packet views `tcpip/*`, `dns/*` | none | accessors, checksum | not modelled: bytes at fixed offsets |
| App shell `MainActivity.kt`, `MainViewModel.kt`, `util/*` | UI | permissions, buttons | not modelled: framework calls |
| Updater `DownLoadApkService.java`, `FUpdateUtils.java`, ... | download id, preferences | `onStartCommand`, `checkDownloadStatus` | not modelled (6) |

### 1.2 How they interact

*Native engine.* One thread runs `handle_events`. A round monitors the sessions
(chooses what epoll waits for), checks them at most every `EPOLL_MIN_CHECK` (timeouts,
closing, deletion), waits, and handles what epoll reports: a byte in the pipe, which
ends the thread, tun readable, in which case `check_tun` reads packets as long as there
are any, and each ready socket. Sessions share the list, the thread and the count of
them, on which the timeouts depend. `jni_start` and `jni_stop` run on a thread of the
caller's; what the two threads share is `thread_id`, the pipe, and, once the engine's
thread has ended, the list. The Gradle build does not compile this
engine at present (`externalNativeBuild` is commented out); it is modelled as the code
it is, because it is the larger and the more intricate of the two.

*Java engine.* The VPN thread reads IP packets, rewrites the addresses of TCP packets
so that an app's connection reaches `TcpProxyServer` on the phone itself, and records
the real destination in the NAT table. The proxy server's thread accepts the
connection, looks the destination up and makes a pair of tunnels: *local* (to the app)
and *remote* (to the destination, or to the HTTP proxy that is asked to CONNECT to it).
What one tunnel reads it writes to its brother.

### 1.3 What is hard

* A TCP endpoint written by hand: wrap-around of sequence numbers, retransmissions,
  reordering, windows that shut, half-closed connections, RSTs in any state.
* Two sources of events for one session (tun and its socket) in any order within a
  round, with the report for the socket made before the packets changed its state.
* Failures of single calls (`send`, `recv`, the write to tun, `epoll_ctl`, `open`)
  between two assignments.
* The CONNECT to the proxy interposed in the TCP handshake of port 443.
* Java NIO: one key per channel whose interest is replaced, not extended; cancelled
  keys that stay in the selector until the next select; a shared buffer; handlers of a
  pair that change each other's keys within one round.
* Pointers to sessions that the kernel gives back (`ev.data.ptr`), in a list that changes
  between `epoll_wait` and their use, and an epoll set that dies with its thread while
  the list lives on.
* Timeouts that shrink with the number of sessions, to zero at the limit and below zero
  beyond it, and that are also how long the thread sleeps.
* A thread that may end by itself, start or be stopped at any moment, with `thread_id`
  as the only trace of it.
* Two threads of the Java engine over one NAT table without a lock.

PROJECT.json lists the hazards one by one, with the line at which each bites and the
properties that cover it, or why none does yet.

## 2. Modules

| Module | What it is |
|---|---|
| `SeqNum` | `uint32_t` arithmetic and `compare_u32` at width `2 * Half`, beside the RFC 1982 order its comment names |
| `AppTcp` | the environment of a TCP session: the kernel of the phone, which sends an app's stream, retransmits, acknowledges and advertises windows |
| `TcpSession` | one session of `tcp.c` from its SYN to its deletion, and again |
| `TcpRelay` | abstract: what a session promises the app and the server it stands between |
| `MCTcpSession` | the instances TLC checks |
| `TcpSession_proofs` | theorems about `TcpSession` and `SeqNum` |
| `TcpConnect_proofs` | the theorem that the CONNECT of port 443 comes first |
| `TcpAnswer_proofs` | the theorems about the stream to the app and its window |
| `TcpOrder_proofs` | the theorem about the stream to the server |
| `TcpRelay_proofs` | the theorems that `TcpSession` implements `TcpRelay`, and about what is confirmed |
| `Sessions` | the UDP and ICMP sessions, their descriptors and what the kernel keeps of them: the handlers |
| `EventLoop` | the thread of the native engine, `handle_events`, over `Sessions` |
| `Engine` | `jni_init` to `jni_done`, the thread, the apps, the servers and the faults: the composition, and its properties |
| `MCEngine` | the instances TLC checks |
| `Engine_proofs` | theorems about `Engine` |
| `BytePipe` | abstract: what a relay promises the two peers it stands between |
| `Tunnel` | one pair of tunnels, the selector's loop and the peers |
| `MCTunnel` | the instances TLC checks |
| `Tunnel_proofs` | theorems about `Tunnel` |
| `Pipe_proofs` | the theorem that `Tunnel` implements `BytePipe` |

### 2.1 `TcpSession`

The variables are the fields of `struct tcp_session` and `struct ng_session` that
decide anything: `state`, `connect_sent`, `local_seq`, `remote_seq`, `acked`,
`send_window`, `recv_window`, `forward`, `dest`, `socket` (open or not), `registered`
(in the list), `events` (what epoll watches) and `pending` (what it reported and has
not been handled). `phase` is the place in the loop's round. `upstream`, `downstream`
and `cause` are history.

| Code | Action |
|---|---|
| `check_tun` -> `handle_ip` -> `handle_tcp` | `check_tun`, with one disjunct of `handle_tcp` for each of its branches |
| `check_tcp_socket` | `check_tcp_socket`: `SocketError`, `Connected`, `ConnectReply`, `Transfer` |
| `monitor_tcp_session` | `monitor_tcp_session` |
| `check_tcp_session` and the `epoll_wait` after it | `check_tcp_session`: `Expire`, `CloseSocket`, `Delete`, `CheckNothing` |
| `write_rst`, `write_ack`, `write_data`, ... | operators that say what the write does to the state and to the app |

Each action is a whole handler. `Transfer` forwards any prefix of the queue the loop's
conditions allow, acknowledges it, and reads once. A call that may fail is a choice
over `Outcomes(call)`; which calls may fail is the constant `Faults`.

What the loop counts as sent (`Advances`) and what the socket takes (`Taken`) are kept
apart, because the code has two ways to tell them apart. A `send` that fails returns -1,
which the comparison `sent > len` turns into the whole segment. And on port 80
`patch_http_url` puts `http://` and the host into a request, so that `send` is given more
than the segment: what it takes of that is counted, up to `len`, as bytes of the segment,
and a partial send takes fewer of those than are counted. Which data hold a request is a
choice; `Request` bounds its length from below, by the three bytes without which
`find_data` looks at nothing.

Abstractions. A segment is its number, its length and how much of it was sent; the
bytes are their positions in the app's stream. `recv_window` is shut or open; the
engine's window is not in its replies, so the app sends whatever the window (a superset
of what it may do). The window scale is 0. Time is a choice: a timeout may come at any
check. EPOLLHUP, which the code does not ask for, is left out. The name in the CONNECT and
the text `patch_http_url` inserts are data; what the insertion does to the count of bytes
is not, see above. The `time`, `sent` and `received`
statistics and the logging are left out. A segment longer than a queued one with its
number replaces the data, which is the same bytes, and keeps the length, as in the code.

`AppTcp` is the environment, so it is marked external in the map. It lets the engine
read any segment of the app's stream, in any order, any number of times (a
retransmission may have been in the tun queue before its acknowledgement was written),
and with `Lossy` also one that leaves a gap. The app never takes back an
acknowledgement, acknowledges what it was not sent, or shrinks its window.

`Promise` maps a session to `TcpRelay`. Of the code's eight states the app and the server
can tell five apart (`stage`): no session, opening (`LISTEN`, `SYN_RECV`), open
(`ESTABLISHED`, `CLOSE_WAIT`), half closed by the server (`FIN_WAIT1`, `LAST_ACK`) and closed
(`CLOSING`, `CLOSE`). The rest of the mapping is what either end has seen: `upstream` is what
the server has been given, `app.una` and `app.rcv` what the app has seen confirmed and has
got, `downstream` what has been fetched from the server. A whole handler is one step of
`TcpRelay`, although it may forward, confirm, read and pass on:

| `TcpRelay` | `TcpSession` |
|---|---|
| `Begin` | `NewSession`, and `SendConnect` in a session that has been closed |
| `Answer`, `Open` | `Connected`; `ReceiveAck` in `SYN_RECV` |
| `Relay` | `Transfer`, `ReceiveFin`, the probe of `monitor_tcp_session`, while the session is open |
| `Finish` | `Transfer` in a closing session, `ReceiveFin` in `FIN_WAIT1` |
| `Shut` | `write_rst`, a failed write or `epoll_ctl`, a RST, the last acknowledgement, `Expire` |
| `Forget` | `Delete`, `UnknownSession`, a socket that does not open |

It promises nothing about when. That the app's end may be confirmed before all its bytes
have been given is what the code does (a FIN is taken without a look at its number):
`confirmed` may exceed what has been given by that one number, and then nothing more is
given.

### 2.2 `Tunnel`

`interest[t]` is the interest of the tunnel's valid key, `cancelled` the tunnels whose
cancelled key the selector still holds, `selected[t]` what the key was ready for at the
last select. `remain[t]` is `m_SendRemainBuffer`; `inbox`, `ended`, `buffered` and
`sent` belong to the peers and the sockets. One action is one select, or one turn of
the loop over the selected keys, which calls the handler of a key that is still valid:

| Code | Definition |
|---|---|
| `TcpProxyServer.onAccepted`, `getDestAddress`, `TunnelFactory` | `onAccepted` |
| `Tunnel.onConnectable`, `onConnected` of the two classes | `onConnectable`, `Establish` |
| `Tunnel.onReadable`, `afterReceived`, `beforeSend`, `write` | `onReadable`, `Forward`, `Send` |
| `Tunnel.onWritable` | `onWritable` |
| `dispose`, `disposeInternal` | `dispose` |
| `TcpProxyServer.run` | `select`, `handle` |

One pair is enough: the pairs share the selector and `GL_BUFFER`, but every handler runs
to its end in the one thread and fills the buffer before it reads it. The exception are
the twelve bytes taken of a shorter answer to the CONNECT (a hazard in PROJECT.json),
which decide whether it is a 200: a choice in the model.

`register` on a channel whose cancelled key is still in the selector throws
`CancelledKeyException`; the handlers catch it and dispose. `trySendPartOfHeader`
splits a write in two and does not change what is written, so it is part of `Send`.

Abstractions. Bytes are numbered; those of the CONNECT and of the answer to it are 0.
The answer to the CONNECT comes whole and with nothing behind it (an assumption about
the proxy; the code handles neither of the other cases, see the hazards). Whether it is
a 200 is a choice. A socket's send buffer holds `RoomLocal` or `RoomRemote` bytes and
is emptied when its peer reads. A connection that ends does so after its data; an abort
that discards received data is left out.

`Pipe` maps a pair to `BytePipe`: `relay` is what the peers see of `open` and
`established`, `payload(t)` what they have been given without the CONNECT. The abstract
pipe numbers the bytes of each peer, delivers any next part of them once it is
established, may give up at any time for a reason of its own, but passes on a close
only when everything before it has been delivered. `PipeRefined` is its specification as
a property of the pair: each handler is one step of the pipe, or none.

### 2.3 `Sessions`, `EventLoop` and `Engine`

The fields of `struct ng_session` are functions of the session's pointer: `state`,
`flow` (version, addresses and ports, one value), `socket` (0 for none), `idle` (what
has passed since `time`) and `id`. `opened`, `epoll`, `inbox`, `failed` are what the
kernel keeps of a descriptor, `asked` which requests its server has not answered. `pc`,
`sessions`, `since`, `recheck`, `wait` are the locals of `handle_events`, `reports` what
`epoll_wait` returned and is not handled yet.

| Code | Definition |
|---|---|
| `get_udp_timeout`, `get_icmp_timeout` | `timeout` (with C's division, in `quotient`) |
| `check_udp_session`, `check_icmp_session`, deletion from the list | `check_sessions` |
| `check_udp_socket`, `check_icmp_socket` | the same names, over `receive` |
| `handle_ip`, `handle_udp`, `handle_icmp`, `open_udp_socket`, `open_icmp_socket` | `handle_ip`, `open_session`, `forward` |
| `check_allowed`, `clear` | the same names |
| `handle_events`: start and end | `AttachFails`, `Start`, `End` |
| a round up to `epoll_wait` | `Check`, `SkipCheck` |
| what `epoll_wait` returns | `Report`, `Timeout`, `WaitFails` |
| the loop over the reports | `HandlePipe`, `HandleTun`, `check_tun`, `ReadFails`, `Drained`, `HandleIcmp`, `HandleUdp` |
| `jni_init`, `jni_start`, `jni_done` | the same names |
| `jni_stop` | `StopReads`, `StopKills`, `StopWrites`, `StopJoins`: four steps, since the thread runs between them |

`handle_events` takes its reports in the order of the array; the model takes them in any
order, since the kernel promises none. It drains tun packet by packet, so a packet may
come while it does.

Assumptions and abstractions. The caller is external (no code of the repository calls
the jni functions): one thread that initialises, starts and stops in that order, and
calls `jni_done` after `jni_stop`. The byte `jni_stop` writes goes into the pipe: `pipe()`
has succeeded in `jni_init`, which only logs a failure, and the pipe is never full, which
would take 64 KiB of bytes left by earlier stops (a write that failed would leave the
thread running while `clear` frees its sessions, `cpp/tun2http.c:126`). What `pthread_kill` says of a
thread that has ended by itself is undefined, so both answers are possible. A round takes no time: the clock ticks
while the thread waits. A server answers a request once at most; a descriptor is the
lowest free one, as POSIX promises; `malloc` does not fail and may return any pointer
that is not in use. TCP sessions are in `TcpSession` and not in this list: all they share
with the others is the count. `block_udp`, which nobody calls, and `check_domain`, behind
`if (0)`, are left out, and with them `UDP_BLOCKED`. The sets of calls that may fail are
the constant `Faults`, as in `TcpSession`.

## 3. Runs

Sizes are those that make the interesting cases happen; the states are those TLC
reports with two workers.

| Run | Bounds | Shows |
|---|---|---|
| `tcp_plain` (763,766 states) | ports 22 and 80; app sends 0 or 2 bytes, server 2, in one-byte segments; window 2; `Half` 16 with the app's ISN 30, so that `remote_seq` wraps at 2^32; `open`, tun, `epoll_ctl`, `recv` may fail; packets lost | the session implements `TcpRelay`; type invariant; bytes in order both ways; what is confirmed has been forwarded, but for the FIN; the app's window; no spurious "future ACK"; the socket's lifetime; closed stays closed |
| `tcp_connect` (676,541) | port 443; local ISN 14, so that `local_seq` passes 2^31; segments to the app of 2 bytes; the same faults but `recv` | the session implements `TcpRelay`, also when the CONNECT revives it; what is confirmed; the CONNECT comes first; the window; the socket's lifetime; what revives a closed session |
| `tcp_reliable` (53,609) | port 22, 2 bytes up, 1 down, window 1; nothing lost; tun, `epoll_ctl`, `recv` may fail; fairness | acknowledged bytes were handed to the server; closing sessions release their descriptor |
| `tcp_boundary` (violation) | local ISN 14, `Half` 16 | `NoFutureAck` fails: see 5 |
| `tcp_send_error` (violation) | `send` may fail | `AckedMeansForwarded` fails: see 5 |
| `tunnel_raw` (36,421) | send buffers of 1 and 2 bytes, reads of 3, 4 bytes each way; fairness | the pair implements `BytePipe`; type invariant; nothing lost, repeated or reordered; what is left of a write is guarded and goes out; an end delivers everything before it |
| `tunnel_connect` (15,362) | an HTTP proxy; CONNECT of 3, buffers of 2 and 3 | the CONNECT comes first, and what passes after it implements `BytePipe`; the same |
| `engine` (5,886,783) | flows: one of DNS, one of UDP that may be DHCP, one of pings; 3 packets, 2 starts, 2 descriptors, a limit of 1 session; `AttachCurrentThread`, `epoll_create`, `epoll_wait`, `protect`, `sendto`, `write`, `read` of tun may fail, an answer be empty, a socket have an error, tun be taken away | descriptors have one owner; reports are valid; one session per flow; nothing used that an earlier thread left; what `jni_stop` promises; which sessions the timeouts may take |
| `engine_sessions` (233,171) | one UDP flow, one of pings, 2 packets, 1 start, far below the limit; socket errors, `epoll_ctl` and `EAGAIN`; fairness | sessions expire in time; those that are over give back their descriptor; `jni_stop` returns |
| `engine_echo` (violation) | two identifiers, 2 packets, no faults | `EchoRestored` fails: see 5 |
| `tunnel_reading` (violation) | buffers of 1 and 2, 2 bytes each way; fairness | `ReadingResumes` fails: see 5 |
| `tunnel_answer` (violation) | CONNECT of 3, buffer of 2 | `ResponseAwaited` fails: see 5 |

Why the bounds are enough. Two bytes in one-byte segments give every order of first and
second segment, duplicates, a gap and a FIN behind either; what one-byte segments leave out,
partial sends and segments that overlap or replace each other, is in the theorems, which
hold for segments of any size (4); the rewriting of port 80, which they leave out too, is
shown in 5; a window of 2 with two bytes
down shuts and opens again; the two ISNs cross both places where sequence arithmetic
changes sign. A session is deleted and opened again within a run only by a new SYN of
the same app, which is how the code's search finds it. For the tunnels a read longer
than the brother's buffer plus one byte more gives a partial write, a partial
rest, and a second read while the first is waiting. For the engine, two descriptors and a limit of one
session are enough for a second session opened beyond the limit in the same round (a
negative timeout), for a descriptor's number used again by another session, for a
pointer freed and returned again by `malloc`, and for a session that outlives its thread
into the second start; the third packet finds either of the two. Timeouts of 1 and 2
seconds, with a tick of one, distinguish too early, in time and too late; a wait of 4 is
longer than all of them. The run below the limit has the long waits, which the limit of
one never leaves. The widths scale down because
the code only adds, subtracts and compares sequence numbers; the theorems hold for
every width.

`CHECK_DEADLOCK FALSE` is set throughout because the systems really end: a session
after its deletion, a pair after `dispose`, the engine after its last stop.

`AckedMeansForwarded` is checked without loss: the code accepts a FIN without looking
at its sequence number, so after a lost segment it confirms the FIN in its place. What
holds with loss, and for segments of any size, is `AcksHeld`, one number less strict.
`StreamToApp` is not checked for port 443, where a repeated SYN makes the code skip the
SYN-ACK. Both are hazards in PROJECT.json.

### 3.1 Fairness

`TcpSession!Fairness`: the event loop's thread runs, so `monitor_tcp_session`,
`check_tcp_socket` and `check_tcp_session` are weakly fair. The check may be skipped
when the last one is less than `EPOLL_MIN_CHECK` ago, but epoll does not wait longer
than that while a session needs checking, so the closing of a session that is enabled
again and again is taken in the end: strong fairness of `CloseSocket`. The app is not
fair. This supposes that draining tun ends, which the loop does not enforce (a hazard).

`Engine!Fairness`: the engine's thread runs (`Round`), so does a call of `jni_stop` that
has begun (`Stop`), and time passes (`Tick`, strongly fair: a thread that spins passes
through its wait again and again, and the clock does not stand still for it). Neither
the apps nor the servers are fair, and no failure is. `StopReturns` asks for no more:
the pipe's byte is reported in the next round. That the next round comes rests on the
draining of tun ending, as it does here because the apps' packets are bounded.

`Tunnel!FairSpec`: the selector's thread runs (`select`, `handle`) and the peers read
what they are sent; a peer that never reads leaves a rest unsent rightly.

## 4. Proofs

`TcpSession_proofs` is checked by TLAPS, for every value of the constants that
satisfies the named assumptions: `HalfAssumption` (any width), `AppAssumption` and
`SessionAssumption` (any ports, sizes and faults; `rand()` returns a non-negative int).

* `TypeCorrect`: `Spec => []TypeOK`. `TypeOK` is inductive; one lemma per action, with
  lemmas for the packets of the environment, the queue and the forwarding loop. The
  history `upstream` is left out of it, since it is typed by `ForwardedInOrder`.
* `SocketHolds`: `Spec => []SocketHeld`. `SocketHeld` is not inductive: CLOSE is also
  reached from FIN_WAIT1 by a FIN, without `check_tcp_session`, so `SocketInv` adds that
  FIN_WAIT1 and LAST_ACK have no socket; and a report for a socket must not outlive it,
  so it adds that `pending` is empty without a session and a socket, and while sessions
  are checked.
* `ClosedStays`: `Spec => ClosedStaysClosed`. Action by action: writing a RST keeps a
  closed session closed, the read half needs ESTABLISHED or CLOSE_WAIT, and of
  `handle_tcp` only the CONNECT is left.
* `CompareWithinHalf`: `compare_u32` agrees with RFC 1982 for numbers on one side of
  2^31 and less than 2^31 - 1 apart. The run `tcp_boundary` shows the condition is needed.

`TcpConnect_proofs` proves `ConnectComesFirst`: `Spec => []ConnectFirst`, from the same
assumptions. `ConnectFirst` is not inductive: what keeps the forwarding loop from sending
what is queued while the proxy has not answered is not a test of `connect_sent` but what
epoll was told to watch for, and a packet may be handled between the report and its use.
`ConnectInv` adds three facts. `Unanswered`: a session in LISTEN whose CONNECT has not been
sent has seen nothing but the SYN, so its queue holds at most the SYN's data, which starts
at `remote_seq`. `Answered`: nothing is relayed while the app has had no SYN-ACK.
`Writable`: a report of room was asked for by a session in LISTEN or by one the proxy has
accepted, and if a packet has overtaken it, the session is closing and its queue starts
behind `remote_seq`, which the RST has moved over the SYN (`Overtaken`), so that nothing in
it can be sent (`NothingToForward`). One lemma per action, relative to `TypeOK` and
`SocketInv`.

`TcpAnswer_proofs` adds what the app is sent, each theorem with a condition on the sizes
of the numbers that it states itself.

* `AnswerAlways`: `StreamToApp` whenever the app has been answered, and for a port other
  than 443 without that (over 443 a repeated SYN makes the code skip the SYN-ACK). The
  property speaks of an open session and of what it owes; the invariant `StreamInv` of
  every state between. `Numbered`: `local_seq` is the number the app expects, until a write to
  tun has failed, which closes the session; only an open session has counted all it owes,
  the SYN, what `recv` has returned and the FIN (`owed`). `Waiting` is there for the one
  case in which a closed session is opened again, by the CONNECT: it owes nothing but the
  SYN. Hypothesis: `MaxDown + 2 < Wrap`, less than 2^32 bytes on one connection, since the
  property measures them by offsets in the numbers.
* `WindowAlways`, `AcksAlways`: `WithinWindow` and `NoFutureAck`, from `WindowInv`. A
  session that reads holds an acknowledgement and a window the app has really sent, and
  the app never shrinks the edge they add up to. Hypothesis `Below`: the engine's numbers
  stay below 0x80000000. It is what the code needs: across that boundary `compare_u32`
  is wrong, and `tcp_boundary` violates `NoFutureAck` there.

`TcpOrder_proofs` proves `OrderAlways`: `Spec => []ForwardedInOrder`, for all sizes and
packets. The hypotheses are that what counts as sent has been taken, so that `send` is not
among the faults (`tcp_send_error`) and 80 not among the ports (5), and that no stream comes
round (`n + 1 < Wrap` for its length). The queue says little by itself: it may hold segments
that overlap, lie behind `remote_seq` or leave a gap. `OrderInv` says of each of them only
that it is a part of the stream that starts where its number says (`Piece`; or the data
of the SYN, or nothing), and of the session that what the server has is exactly the bytes
before `remote_seq` (`Continued`), unless nothing will be sent any more: a FIN has been
confirmed, whose number `remote_seq` has moved over, or the session is closing
(`Ended`), or a packet has overtaken the proxy's answer to the CONNECT (`Refused`). The
forwarding loop sends those at the head whose number is the one reached; `ForwardsRun`
shows that their bytes are one run of consecutive positions. Two lemmas carry it:
`RunsMeet`, two runs that meet are one, and `FlattenRuns`, the same for a sequence of
runs. The latter would be an induction; it is proved by the first place at which the flattened
sequence would differ, for which the value of the community modules' `FlattenSeq` is
unfolded once (`FlattenValue`).

`TcpRelay_proofs` proves two theorems, for all ports but 80, sizes, packets and faults but
`send`'s, of streams that with their FIN do not come round (`n + 2 < Wrap`).

* `AcksAlwaysHeld`: `Spec => []AcksHeld`. The property compares what the app has seen
  confirmed with what the server has been given; between them is `remote_seq`, which may be
  written to tun, counted up and written again, at places with no order among them. The
  invariant `Confirmed` puts it there: what is confirmed is at most `reach`, the offset of
  `remote_seq`, and `reach` is the bytes given, the SYN, and at most once the FIN. It rests
  on `OrderInv`: a FIN is only counted where the stream continues at `remote_seq`
  (`FinConfirms`; `confirmable`, with an empty queue or in FIN_WAIT1). `Starting` is
  needed for port 443, where a session that was refused, and so has counted the SYN, is taken
  on again by the CONNECT: nothing else has been counted then. The probe of a shut window
  confirms one byte less (`ProbeOffset`: also where `remote_seq` is the first number after
  2^32).
* `RelayImplemented`: `Spec => RelayRefined`, with `MaxDown + 2 < Wrap` as for `AnswerAlways`.
  One lemma per handler shows which step of `TcpRelay` it is (`PhaseStep`, `PacketStep`,
  `TransferStep`, ...), over lemmas for the steps themselves (`QuietStep`: a handler that relays
  nothing is `Shut` or none; `RelayStep`, `FinishStep`). The guards of the abstract steps are
  the invariants: `Give` needs that what is forwarded continues the stream (`Continued`) and
  that no FIN has been confirmed before (`ContinuedLength`); `Fetch`, that an open session owes
  the app nothing (`Passed`, from `StreamInv`); `Open` and `Begin`, that nothing has been relayed
  (`Fresh`). `Fresh` in turn needs `Idle`: a session in SYN_RECV waits for nothing but
  errors, or a report of room could have the write half send what is queued, which tests the
  state nowhere.

`Tunnel_proofs` assumes `TunnelAssumption` only: sockets with room for at least one byte,
any amount of data either way, and a CONNECT that fits `GL_BUFFER`. Every safety
invariant the tunnel runs check is proved, and in `Pipe_proofs` the refinement, so of the
tunnels only `Flushed` is left to TLC. The argument has three layers, each inductive relative to the ones before it:

* `TypeCorrect`: `Spec => []TypeOK`. The lemmas `WriteSplits` and `ReadSplits` say that a
  partial write or a read cuts a sequence in two and loses nothing.
* `RestIsWatched`: `Spec => []RemainderWatched`, from `KeyInv`. The invariant alone says
  nothing of keys selected before the handler that changed them ran. `Holding` adds what
  saves them: a tunnel that is left with a rest and whose key was ready to read has a
  brother with a cancelled key, so its read can only end in `CancelledKeyException` or
  be sent whole. `Connecting` and `Waiting` say that the remote key is the only one
  until the pair is established, `Unopened` that a disposed pair has none.
* `BytesKept`, `EndIsDelivered`, `NothingBeforeConnect`: `NothingLost`, `EndDelivered` and
  `ConnectFirst`, from `ByteInv`. `Opening` says what has passed at each stage before
  the pair is established; `Apart` keeps the CONNECT and the answer (0) apart from the
  peers' bytes. A forwarded read moves a prefix of `inbox[t]` to `out` and `remain` of
  the brother; `KeyInv` gives that nothing was left there before.

`Pipe_proofs` proves `PipeImplemented`: `Spec => PipeRefined`, from the same assumption
and the three invariants above: every step of the tunnels is a step of the pipe or leaves
what the peers see alone (`PipeStepped`, with one lemma per handler).

* *Delivery* (`Carries`). `NothingLost` makes `out \o remain \o inbox` of the two sockets
  the CONNECT and the numbered bytes sent. A handler moves the border between `out` and
  the rest (`SendMoves`), so what has gone out stays a beginning of the same sequence;
  behind the CONNECT that is the peer's first bytes (`FirstBytes`), and what is new are
  the next ones (`NextBytes`). Before the proxy has accepted the CONNECT `Apart` leaves
  nothing but zeros in `out`, so nothing is delivered (`NoneAmongZeros`).
* *Close* (`Closes`). A read that finds the end disposes of the pair with its tunnel as
  the cause; `EndDelivered` after the step is the guard of the pipe's `Close`.
* *Giving up* (`Aborts`). A disposal for any other cause is the pipe's `Abort`, also when
  a part of the write had gone out before `CancelledKeyException`.

`Engine_proofs` assumes `SessionsAssumption`, `EventLoopAssumption` and
`EngineAssumption`: any finite set of pointers, any flows, descriptors and timeouts (none
longer than `UDP_TIMEOUT_ANY`, which is 300 s in the code), any limit of at least one,
any faults. All safety properties of the engine's runs are proved, but for `IdleBounded` from one
inductive invariant, `IInv`, whose parts need each other:

* `SessionsInv`: the types, `DescriptorsOwned`, `OneSession`, and what is missing from
  `ReportsValid` (`EpollOwned`: epoll watches a descriptor only for the session that has
  it; without it a descriptor's number used again would be reported for a session freed
  before), and that only ICMP sessions are stopped, since `matching` passes over those.
* `ReportsInv`: between `epoll_wait` and a report's turn its session exists, has its
  descriptor, and, if it is ICMP without an error, still has the message it was reported
  for, as the pipe has its byte; and there is one report per pointer. The lemma `Stable` says what a handler may
  not take away from the sessions reported beside its own. Only `check_sessions` and
  `clear` free a session or close a descriptor, and no report is pending when they run;
  `handle_ip` is the handler to look at, and it closes nothing.
* `ThreadInv`: a thread implies `thread_id`, and `StoppedIsStopped`. `jni_stop` can only
  return early when `thread_id` is 0 or the thread has ended.
* `SessionsWatched`: kept by `open_session`, and at a thread's start by `check_allowed`,
  which leaves nothing active.

`NegativeTimeout` is the lemma on the scaled timeouts: they are negative only if the
sessions exceed the limit, which gives `InUseStays`.

`IdleAlways`: `Spec => []IdleBounded`, from `IdleInv`, which is inductive relative to
`IInv`. The bound is kept by the clock only because `epoll_wait` was given no more than what
the sessions have left: so `IdleInv` bounds idle time and what is left of the wait
together, in the wait, and, while a check may still be skipped (less than
`EPOLL_MIN_CHECK` since the last), the idle time alone by one second less
(`TimeoutBound`: the scaling by the number of sessions only ever shortens a timeout).

Model-checked only:

* the liveness properties `ClosingReleases`, `Flushed`, `StopReturns`, `Released`: TLAPS does
  not do fairness.
* `AckedMeansForwarded`: likewise for segments of one byte. Of a retransmission longer than the
  queued segment with its number the rest is dropped, and its FIN is confirmed all the
  same (see 5). `AcksAlwaysHeld` is what is left of it for segments of any size, with loss.
* Port 80 in `tcp_plain`, for segments too short to be rewritten.
* `WithinWindow` in `tcp_connect`, whose numbers pass 0x80000000: there it holds for the
  one ISN, window and length of the run, and `Below` excludes it.

## 5. What the violations show

* `tcp_boundary`: `compare_u32` (`cpp/util.c:33`) orders numbers as signed ints, so an
  acknowledgement just below 2^31 of a `local_seq` just above it counts as one of
  the future, and the session is reset. The comment names RFC 1982.
* `tcp_send_error`: `sent > len` (`cpp/tcp.c:325`) compares a `ssize_t` with a `size_t`;
  -1 becomes the whole length and the failed bytes are acknowledged.
* `tunnel_reading`: cancelling "the write event" (`tunnel/Tunnel.java:153`) cancels the
  channel's only key; after one partial write its reading never resumes.
* `tunnel_answer`: after a CONNECT that took two writes, `beginReceive`
  (`tunnel/Tunnel.java:157`) uses the key cancelled four lines before, and the pair is
  disposed of.

* `engine_echo`: a session of pings is found by its addresses (`cpp/icmp.c:162`) and
  keeps the identifier of the first ping (line 192), which every answer gets
  (line 106, "restore original ID").

Three more things the model of the TCP session shows, with longer segments, of which no
text of the repository says otherwise. With one of three bytes to port 80
(`MaxSeg = Request = 3`, `Ports = {80}`, no faults) TLC violates `AckedMeansForwarded` in a few
steps: two bytes of the rewritten segment count as sent when the socket has taken one of
the app's and one of those put in (`cpp/tcp.c:313`); the other is confirmed and never sent.
This is why the theorems about the stream leave port 80 out. The other two are about
boundaries. Apps retransmit with other boundaries than the first time (after a shorter write, or for a smaller path MTU), and `queue_tcp` (`cpp/tcp.c:912`) takes
or drops whole segments. One that starts within a segment already queued stays at the head
for ever once the other has been forwarded, and everything behind it with it: `remote_seq`
has passed its number, and the loop looks for the very number. One that is longer than a queued one with its number keeps the old
length, so that the bytes between are skipped if it carries the FIN
(`AckedMeansForwarded`).

Three more things the model of the engine shows and no text of the repository
excludes, so that no run is made of them: the limit on sessions is exceeded when several
flows start in one round, since the count is the round's (`cpp/ip.c:236`); a byte written
by `jni_stop` for a thread that was just ending by itself stays in the pipe and ends the
next thread at once (`cpp/tun2http.c:126`); an error of a UDP socket is not handed to
`check_udp_socket` (`cpp/session.c:247`), so the thread spins until the session expires.

## 6. Plan

Done:

1. `SeqNum`, `AppTcp`, `TcpSession`, their runs, and theorems for every safety property that
   holds for all sizes; `TcpRelay`, checked and proved.
2. `Tunnel`, its runs, the proofs of its safety; `BytePipe`, checked and proved.
3. `Sessions`, `EventLoop`, `Engine`: several sessions, the limit and the scaled timeouts,
   start and stop of the thread; their runs and the proofs of their safety.

Left, in the order in which they would be worth doing:

1. `NatTable`: `onIPPacketReceived`, the table and its expiry, the proxy server's thread
   that reads it; composed with the accept of `Tunnel`. Abstract specification: a
   connection's packets reach the destination it was opened to.
2. Start and stop of the Java service and of its proxy server.
3. TCP sessions in the list of `Sessions`: what they share with the others is the count.
4. The download requests of the updater.
5. Pure algorithms against reference definitions: checksum, `needProxy`, the address mask
   search, `get_qname`.

Not modelled: the app shell, byte-level parsing and formatting, logging, statistics; of
the native engine the contents of DNS and DHCP messages, the uid lookup in /proc, the
helpers around JNI, and the code nothing calls (`block_udp`, `check_domain`).
