-------------------------- MODULE TcpOrder_proofs --------------------------
(***************************************************************************)
(* The stream to the server: why the socket takes the app's bytes in       *)
(* order, each once, however their segments are cut, repeated, overtaken   *)
(* or lost.                                                                *)
(***************************************************************************)
EXTENDS TcpAnswer_proofs

-----------------------------------------------------------------------------
(* Consecutive numbers. *)

\* The numbers from x up to, and without, y.
Run(x, y) == [b \in 1 .. y - x |-> x + b - 1]

\* A run is a sequence of numbers.
LEMMA RunType ==
  ASSUME NEW x \in Nat, NEW y \in Nat, x <= y
  PROVE  /\ Run(x, y) \in Seq(Nat) /\ Len(Run(x, y)) = y - x
         /\ \A b \in 1 .. y - x : Run(x, y)[b] = x + b - 1
  <1>1. y - x \in Nat
    OBVIOUS
  <1>2. \A b \in 1 .. y - x : x + b - 1 \in Nat
    OBVIOUS
  <1>3. Run(x, y) \in Seq(Nat)
    BY <1>1, <1>2, IsASeq DEF Run
  <1>4. DOMAIN Run(x, y) = 1 .. y - x
    BY DEF Run
  <1>5. Len(Run(x, y)) = y - x
    BY <1>1, <1>3, <1>4, LenProperties
  <1> QED
    BY <1>3, <1>5 DEF Run

\* Two runs that meet are one.
LEMMA RunsMeet ==
  ASSUME NEW x \in Nat, NEW y \in Nat, NEW z \in Nat, x <= y, y <= z
  PROVE  Run(x, y) \o Run(y, z) = Run(x, z)
  <1>1. PICK s, t, u : s = Run(x, y) /\ t = Run(y, z) /\ u = Run(x, z)
    OBVIOUS
  <1>2. /\ s \in Seq(Nat) /\ Len(s) = y - x /\ \A b \in 1 .. y - x : s[b] = x + b - 1
        /\ t \in Seq(Nat) /\ Len(t) = z - y /\ \A b \in 1 .. z - y : t[b] = y + b - 1
        /\ u \in Seq(Nat) /\ Len(u) = z - x /\ \A b \in 1 .. z - x : u[b] = x + b - 1
    BY <1>1, RunType, x <= z
  <1>3. /\ s \o t \in Seq(Nat) /\ Len(s \o t) = Len(s) + Len(t)
        /\ \A i \in 1 .. Len(s) + Len(t) :
             (s \o t)[i] = IF i <= Len(s) THEN s[i] ELSE t[i - Len(s)]
    BY <1>2, ConcatProperties
  <1>4. Len(s \o t) = z - x
    BY <1>2, <1>3
  <1>5. ASSUME NEW i \in 1 .. z - x
        PROVE  (s \o t)[i] = u[i]
    <2>1. CASE i <= y - x
      <3>1. i \in 1 .. y - x /\ i \in 1 .. Len(s) + Len(t)
        BY <1>2, <2>1
      <3> QED
        BY <1>2, <1>3, <2>1, <3>1
    <2>2. CASE ~(i <= y - x)
      <3>1. i - (y - x) \in 1 .. z - y /\ i \in 1 .. Len(s) + Len(t)
        BY <1>2, <2>2
      <3>2. t[i - (y - x)] = y + (i - (y - x)) - 1
        BY <1>2, <3>1
      <3>3. (s \o t)[i] = t[i - (y - x)]
        BY <1>2, <1>3, <2>2, <3>1
      <3>4. u[i] = x + i - 1
        BY <1>2
      <3> QED
        BY <3>2, <3>3, <3>4, y + (i - (y - x)) - 1 = x + i - 1
    <2> QED
      BY <2>1, <2>2
  <1>6. s \o t = u
    BY <1>2, <1>3, <1>4, <1>5, SeqEqual
  <1> QED
    BY <1>1, <1>6

\* What FlattenSeq makes of a sequence that is not empty: its values are given by the
\* equation that defines them.
LEMMA FlattenValue ==
  ASSUME NEW s, NEW n \in Nat, n > 0, Len(s) = n, NEW w,
         \A i \in 1 .. n : w[i] = IF i = 1 THEN s[i] ELSE w[i - 1] \o s[i]
  PROVE  FlattenSeq(s) = w[n]
  <1> DEFINE P(f) == f = [i \in 1 .. n |-> IF i = 1 THEN s[i] ELSE f[i - 1] \o s[i]]
  <1>1. FlattenSeq(s) = (CHOOSE f : P(f))[n]
    BY DEF FlattenSeq
  <1>2. P([i \in 1 .. n |-> w[i]])
    <2>1. PICK v : v = [i \in 1 .. n |-> w[i]]
      OBVIOUS
    <2>2. ASSUME NEW i \in 1 .. n
          PROVE  w[i] = IF i = 1 THEN s[i] ELSE v[i - 1] \o s[i]
      <3>1. CASE i = 1
        BY <3>1
      <3>2. CASE i # 1
        <4>1. i - 1 \in 1 .. n
          BY <3>2
        <4> QED
          BY <2>1, <3>2, <4>1
      <3> QED
        BY <3>1, <3>2
    <2>3. v = [i \in 1 .. n |-> IF i = 1 THEN s[i] ELSE v[i - 1] \o s[i]]
      BY <2>1, <2>2
    <2> QED
      BY <2>1, <2>3
  <1>3. PICK f : f = CHOOSE g : P(g)
    OBVIOUS
  <1>4. P(f)
    <2> HIDE DEF P
    <2>1. \E g : P(g)
      BY <1>2
    <2> QED
      BY <1>3, <2>1
  <1>5. ASSUME NEW g, P(g), NEW i \in 1 .. n
        PROVE  g[i] = IF i = 1 THEN s[i] ELSE g[i - 1] \o s[i]
    <2>1. PICK e : e = [k \in 1 .. n |-> IF k = 1 THEN s[k] ELSE g[k - 1] \o s[k]]
      OBVIOUS
    <2>2. g = e
      BY <1>5, <2>1
    <2>3. e[i] = IF i = 1 THEN s[i] ELSE g[i - 1] \o s[i]
      BY <2>1
    <2> QED
      BY <2>2, <2>3
  <1> HIDE DEF P
  <1>6. ASSUME NEW j \in 1 .. n, f[j] # w[j] PROVE FALSE
    <2> DEFINE T == {i \in 1 .. n : f[i] # w[i]}
    <2>1. PICK i \in T : \A m \in T : i <= m
      <3>1. j \in T /\ T \in SUBSET Nat
        BY <1>6
      <3> HIDE DEF T
      <3> QED
        BY <3>1, LeastNatural
    <2>2. /\ f[i] = IF i = 1 THEN s[i] ELSE f[i - 1] \o s[i]
          /\ w[i] = IF i = 1 THEN s[i] ELSE w[i - 1] \o s[i]
      BY <1>4, <1>5
    <2>3. i # 1
      BY <2>1, <2>2
    <2>4. i \in 1 .. n /\ i - 1 \in 1 .. n /\ ~(i <= i - 1)
      BY <2>3
    <2>5. f[i - 1] = w[i - 1]
      BY <2>1, <2>4
    <2> QED
      BY <2>1, <2>2, <2>3, <2>5
  <1>7. f[n] = w[n]
    <2>1. n \in 1 .. n
      OBVIOUS
    <2> QED
      BY <1>6, <2>1
  <1> QED
    BY <1>1, <1>3, <1>7

\* Of numbers each of which is at least the one before it the first is the least.
LEMMA Ascending ==
  ASSUME NEW n \in Nat, NEW R, \A i \in 0 .. n : R[i] \in Nat,
         \A i \in 1 .. n : R[i - 1] <= R[i]
  PROVE  \A i \in 0 .. n : R[0] <= R[i]
  <1> SUFFICES ASSUME NEW j \in 0 .. n, ~(R[0] <= R[j]) PROVE FALSE
    OBVIOUS
  <1> DEFINE T == {i \in 0 .. n : ~(R[0] <= R[i])}
  <1>1. T \in SUBSET Nat /\ T # {}
    OBVIOUS
  <1>2. PICK i \in T : \A m \in T : i <= m
    <2> HIDE DEF T
    <2> QED
      BY <1>1, LeastNatural
  <1>3. i \in 0 .. n /\ ~(R[0] <= R[i])
    BY <1>2
  <1>4. i # 0
    BY <1>3
  <1>5. i \in 1 .. n /\ i - 1 \in 0 .. n /\ i - 1 \notin T
    BY <1>2, <1>3, <1>4
  <1>6. R[0] <= R[i - 1] /\ R[i - 1] <= R[i] /\ R[0] \in Nat /\ R[i - 1] \in Nat /\ R[i] \in Nat
    BY <1>3, <1>5
  <1> QED
    BY <1>3, <1>6

\* Runs each of which starts where the one before it ends are flattened to one run.
LEMMA FlattenRuns ==
  ASSUME NEW n \in Nat, NEW R, \A i \in 0 .. n : R[i] \in Nat,
         \A i \in 1 .. n : R[i - 1] <= R[i],
         NEW s \in Seq(Seq(Nat)), Len(s) = n, \A i \in 1 .. n : s[i] = Run(R[i - 1], R[i])
  PROVE  FlattenSeq(s) = Run(R[0], R[n])
  <1>1. \A i \in 0 .. n : R[0] <= R[i]
    BY Ascending
  <1>2. CASE n = 0
    <2>1. s = <<>>
      BY <1>2
    <2>2. FlattenSeq(s) = <<>>
      BY <2>1 DEF FlattenSeq
    <2>3. Run(R[0], R[n]) = <<>>
      BY <1>2 DEF Run
    <2> QED
      BY <2>2, <2>3
  <1>3. CASE n > 0
    <2>1. PICK w : w = [i \in 1 .. n |-> Run(R[0], R[i])]
      OBVIOUS
    <2>2. ASSUME NEW i \in 1 .. n
          PROVE  Run(R[0], R[i]) = IF i = 1 THEN s[i] ELSE w[i - 1] \o s[i]
      <3>1. s[i] = Run(R[i - 1], R[i])
        OBVIOUS
      <3>2. CASE i = 1
        BY <3>1, <3>2
      <3>3. CASE i # 1
        <4>1. i - 1 \in 1 .. n /\ i - 1 \in 0 .. n /\ i \in 0 .. n /\ 0 \in 0 .. n
          BY <3>3
        <4>2. w[i - 1] = Run(R[0], R[i - 1])
          BY <2>1, <4>1
        <4>3. R[0] \in Nat /\ R[i - 1] \in Nat /\ R[i] \in Nat
          BY <4>1
        <4>4. R[0] <= R[i - 1] /\ R[i - 1] <= R[i]
          BY <1>1, <4>1
        <4>5. Run(R[0], R[i - 1]) \o Run(R[i - 1], R[i]) = Run(R[0], R[i])
          BY <4>3, <4>4, RunsMeet
        <4> QED
          BY <3>1, <3>3, <4>2, <4>5
      <3> QED
        BY <3>2, <3>3
    <2>3. \A i \in 1 .. n : w[i] = IF i = 1 THEN s[i] ELSE w[i - 1] \o s[i]
      BY <2>1, <2>2
    <2>4. FlattenSeq(s) = w[n]
      BY <1>3, <2>3, FlattenValue
    <2> QED
      BY <1>3, <2>1, <2>4
  <1> QED
    BY <1>2, <1>3

-----------------------------------------------------------------------------
(* The invariant. *)

\* How far the engine has taken the app's stream, and where a queued segment starts in it.
reach == Uint(remote_seq - app.isn)
place(g) == Uint(g.seq - app.isn)

\* What the queue holds: what the SYN has put there, parts of the stream, or nothing
\* (before the CONNECT is accepted packets without data are queued as well).
Piece ==
  {g \in QueuedSegment :
     \/ g.seq = app.isn /\ g.sent = 0
     \/ /\ g.sent <= g.len
        /\ g.len > 0 => place(g) > 0 /\ place(g) + g.len <= app.total + 1}

\* The server has been sent all of the stream before remote_seq.
Continued == reach \in 1 .. app.total + 1 /\ upstream = Run(1, reach)

\* Nothing more is queued, since a FIN has been confirmed or the session is closing.
Ended ==
  ~connecting /\ forward = <<>> /\ state \in {"CLOSE_WAIT", "LAST_ACK", "CLOSING", "CLOSE"}

\* The session waits for an answer to the CONNECT that it will not look at.
Refused == connecting /\ connect_sent = "SENT" /\ state # "LISTEN"

\* The queue of an open session, and where it has got to.
Queued ==
  registered =>
    /\ forward \in Seq(Piece)
    /\ state \in {"FIN_WAIT1", "LAST_ACK"} => forward = <<>>
Onward == registered /\ app.rcv > 0 => Continued \/ Ended \/ Refused

\* What ForwardedInOrder rests on.
OrderInv ==
  /\ app.total \in Totals
  /\ \E k \in Nat \ {0} : upstream = Run(1, k)
  /\ Queued
  /\ Onward

\* The app's streams do not come round, and send takes what counts as sent: it does not
\* fail, and is never given a request patch_http_url has made longer.
InOrder == "send" \notin Faults /\ 80 \notin Ports /\ \A n \in Totals : n + 1 < Wrap

-----------------------------------------------------------------------------
(* The app's stream. *)

\* A packet to or from the app does not change its stream.
LEMMA StreamFixed ==
  ASSUME NEW a \in AppType, NEW p \in Reply, NEW q
  PROVE  /\ Receive(a, p).isn = a.isn /\ Receive(a, p).total = a.total
         /\ app \in AppType => Sent(q).isn = app.isn /\ Sent(q).total = app.total
  BY DEF Receive, Sent, AppType

-----------------------------------------------------------------------------
(* The forwarding loop. *)

\* What send is given of a segment that continues the stream at offset x continues it.
LEMMA SegmentRun ==
  ASSUME app \in AppType, app.total + 1 < Wrap, NEW g \in Piece, NEW r \in Seq32,
         Uint(g.seq + g.sent) = r, Uint(r - app.isn) \in 1 .. app.total + 1
  PROVE  /\ Uint(r - app.isn) = place(g) + g.sent
         /\ place(g) \in Nat /\ g.sent <= g.len /\ place(g) + g.len <= app.total + 1
         /\ g.seq \in Seq32 /\ g.len \in Nat /\ g.sent \in Nat
  <1>1. /\ g.seq \in Seq32 /\ g.len \in Nat /\ g.sent \in Nat /\ app.isn \in Seq32
        /\ app.total \in Nat /\ Wrap \in Nat
    BY HalfAssumption DEF Piece, QueuedSegment, AppType, Wrap
  <1>2. place(g) \in Nat /\ place(g) < Wrap
    BY <1>1, ValueOffset DEF place
  <1>3. g.seq \in Nat /\ app.isn \in Nat /\ g.seq < Wrap /\ r \in Nat /\ r < Wrap /\ app.isn < Wrap
    BY <1>1, HalfAssumption DEF Seq32, Wrap
  <1>4. ~(g.seq = app.isn /\ g.sent = 0)
    <2> SUFFICES ASSUME g.seq = app.isn, g.sent = 0 PROVE FALSE
      OBVIOUS
    <2>1. r = app.isn
      BY <1>1, <1>3, UintValue, app.isn + 0 = app.isn
    <2>2. Uint(r - app.isn) = 0
      BY <1>1, <1>3, <2>1, UintValue, r - app.isn = 0
    <2> QED
      BY <2>2
  <1>5. /\ g.sent <= g.len
        /\ g.len > 0 => place(g) + g.len <= app.total + 1
    BY <1>4 DEF Piece
  <1>6. place(g) + g.sent < Wrap
    BY <1>1, <1>2, <1>5
  <1>7. Uint(r - app.isn) = place(g) + g.sent
    BY <1>1, <1>2, <1>6, OffsetStep DEF place
  <1> QED
    BY <1>1, <1>2, <1>5, <1>7

\* The bytes from the first to the last of a segment are a run.
LEMMA BytesRun ==
  ASSUME app \in AppType, app.total + 1 < Wrap, NEW g, g.seq \in Seq32,
         NEW i \in Nat, NEW j \in Nat, i <= j, place(g) + j <= app.total + 1
  PROVE  bytes(g, i, j) = Run(place(g) + i, place(g) + j)
  <1>1. app.isn \in Seq32 /\ app.total \in Nat /\ Wrap \in Nat
    BY HalfAssumption DEF AppType, Wrap
  <1>2. place(g) \in Nat /\ place(g) < Wrap
    BY <1>1, ValueOffset DEF place
  <1>3. PICK x \in Nat : x = place(g)
    BY <1>2
  <1>4. ASSUME NEW b \in 1 .. j - i
        PROVE  Uint(g.seq + i + b - 1 - app.isn) = x + i + b - 1
    <2>1. i + b - 1 \in Nat /\ x + (i + b - 1) < Wrap
      BY <1>1, <1>3
    <2>2. g.seq \in Nat /\ g.seq < Wrap /\ app.isn \in Nat /\ app.isn < Wrap
      BY <1>1, HalfAssumption DEF Seq32, Wrap
    <2>3. g.seq - app.isn \in {x, x - Wrap}
      <3>1. CASE g.seq >= app.isn
        <4>1. Uint(g.seq - app.isn) = g.seq - app.isn
          BY <1>1, <2>2, <3>1, UintValue
        <4> QED
          BY <1>3, <4>1 DEF place
      <3>2. CASE ~(g.seq >= app.isn)
        <4>1. Uint(g.seq - app.isn) = g.seq - app.isn + Wrap
          BY <1>1, <2>2, <3>2, UintValue
        <4> QED
          BY <1>1, <1>3, <2>2, <4>1 DEF place
      <3> QED
        BY <3>1, <3>2
    <2>4. PICK m \in Nat : m = i + b - 1
      BY <2>1
    <2>5. g.seq + i + b - 1 - app.isn = (g.seq - app.isn) + m
      BY <2>2, <2>4
    <2>6. Uint(x + m) = x + m /\ Uint(x - Wrap + m) = x + m
      BY <1>1, <2>1, <2>4, UintValue
    <2> QED
      BY <2>3, <2>4, <2>5, <2>6
  <1>5. (x + j) - (x + i) = j - i
    BY <1>3
  <1>6. \A b \in 1 .. j - i : x + i + b - 1 = (x + i) + b - 1
    BY <1>3
  <1>7. bytes(g, i, j) = [b \in 1 .. j - i |-> x + i + b - 1]
    BY <1>4 DEF bytes
  <1> QED
    BY <1>3, <1>5, <1>6, <1>7 DEF Run

\* What the loop may do, whether it may forward or not.
LEMMA ChoiceType ==
  ASSUME TypeOK, InOrder, NEW c \in ForwardChoices \cup {NoForward}
  PROVE  /\ c.whole \in 0 .. Len(forward) /\ c.part \in Nat
         /\ sendable(c.whole)
         /\ \A i \in 1 .. c.whole : c.took[i] = forward[i].len - forward[i].sent
         /\ c.part > 0 => /\ c.whole + 1 \in 1 .. Len(forward)
                          /\ sendable(c.whole + 1)
                          /\ c.part < forward[c.whole + 1].len - forward[c.whole + 1].sent
                          /\ c.took[c.whole + 1] = c.part
  <1>1. Len(forward) \in Nat
    BY DEF TypeOK
  <1>2. CASE c = NoForward
    BY <1>1, <1>2 DEF NoForward, sendable
  <1>3. CASE c \in ForwardChoices
    <2>1. /\ c.whole \in 0 .. Len(forward) /\ c.part \in 0 .. MaxSeg /\ sendable(c.whole)
          /\ c.part > 0 => /\ c.whole < Len(forward) /\ sendable(c.whole + 1)
                           /\ c.part < forward[c.whole + 1].len - forward[c.whole + 1].sent
          /\ c.took \in Taken(c)
      BY <1>3, ChoiceParts
    <2>2. dest # 80
      BY DEF TypeOK, InOrder
    <2>3. \A g, n : taken(g, n) = {n}
      BY <2>2 DEF taken, rewritten, InOrder
    <2>4. /\ \A i \in 1 .. c.whole : c.took[i] \in {forward[i].len - forward[i].sent}
          /\ c.part > 0 => c.took[c.whole + 1] \in {c.part}
      BY <2>1, <2>3 DEF Taken
    <2> QED
      BY <1>1, <2>1, <2>4, AppAssumption
  <1> QED
    BY <1>2, <1>3

\* The loop's segments follow each other in the stream, from remote_seq on.
LEMMA ReachedInOrder ==
  ASSUME TypeOK, app.total + 1 < Wrap, forward \in Seq(Piece), reach \in 1 .. app.total + 1,
         NEW n \in 0 .. Len(forward), sendable(n), NEW k \in 0 .. n
  PROVE  reached(k) \in Seq32 /\ Uint(reached(k) - app.isn) \in 1 .. app.total + 1
  <1>1. app \in AppType /\ Len(forward) \in Nat /\ app.total \in Nat
    BY DEF TypeOK, AppType
  <1>2. ASSUME NEW i \in 0 .. n
        PROVE  reached(i) \in Seq32
    <2>1. CASE i = 0
      BY <2>1 DEF reached, TypeOK
    <2>2. CASE i # 0
      <3>1. i \in 1 .. Len(forward)
        BY <1>1, <2>2
      <3>2. forward[i] \in QueuedSegment
        BY <3>1, ElementOfSeq DEF TypeOK
      <3>3. Uint(forward[i].seq + forward[i].len) \in Seq32
        BY <3>2, StepType DEF QueuedSegment
      <3> QED
        BY <2>2, <3>3 DEF reached
    <2> QED
      BY <2>1, <2>2
  <1>3. SUFFICES ASSUME ~(Uint(reached(k) - app.isn) \in 1 .. app.total + 1) PROVE FALSE
    BY <1>2
  <1> DEFINE T == {i \in 0 .. n : ~(Uint(reached(i) - app.isn) \in 1 .. app.total + 1)}
  <1>4. PICK i \in T : \A m \in T : i <= m
    <2>1. k \in T /\ T \in SUBSET Nat
      BY <1>3
    <2> HIDE DEF T
    <2> QED
      BY <2>1, LeastNatural
  <1>5. i \in 0 .. n /\ ~(Uint(reached(i) - app.isn) \in 1 .. app.total + 1)
    BY <1>4
  <1>6. i # 0
    BY <1>5 DEF reached, reach
  <1>7. i \in 1 .. n /\ i \in 1 .. Len(forward) /\ i - 1 \in 0 .. n /\ ~(i <= i - 1)
    BY <1>1, <1>5, <1>6
  <1>8. Uint(reached(i - 1) - app.isn) \in 1 .. app.total + 1
    BY <1>4, <1>7
  <1>9. forward[i] \in Piece
    BY <1>7, ElementOfSeq
  <1>10. reached(i - 1) \in Seq32
    BY <1>2, <1>7
  <1>11. Uint(forward[i].seq + forward[i].sent) = reached(i - 1)
    BY <1>7 DEF sendable
  <1>12. PICK g, r : g = forward[i] /\ r = reached(i - 1)
    OBVIOUS
  <1>13. /\ place(g) \in Nat /\ place(g) + g.len <= app.total + 1 /\ g.sent <= g.len
         /\ g.seq \in Seq32 /\ g.len \in Nat /\ g.sent \in Nat
         /\ place(g) + g.sent \in 1 .. app.total + 1
    BY <1>1, <1>8, <1>9, <1>10, <1>11, <1>12, SegmentRun
  <1>14. place(g) + g.len \in 1 .. app.total + 1 /\ place(g) + g.len < Wrap
    <2>1. Wrap \in Nat
      BY HalfAssumption DEF Wrap
    <2>2. PICK x \in Nat, l \in Nat, m \in Nat : x = place(g) /\ l = g.len /\ m = g.sent
      BY <1>13
    <2>3. x + l <= app.total + 1 /\ m <= l /\ x + m >= 1
      BY <1>1, <1>13, <2>2
    <2>4. x + l \in 1 .. app.total + 1 /\ x + l < Wrap
      BY <1>1, <2>1, <2>3
    <2> QED
      BY <2>2, <2>4
  <1>15. Uint(Uint(g.seq + g.len) - app.isn) = place(g) + g.len
    BY <1>1, <1>13, <1>14, OffsetStep DEF place, AppType
  <1>16. reached(i) = Uint(g.seq + g.len)
    BY <1>6, <1>12 DEF reached
  <1> QED
    BY <1>5, <1>14, <1>15, <1>16

\* A part of what is left of a segment is not more than the segment.
LEMMA PartFits ==
  ASSUME NEW x \in Nat, NEW l \in Nat, NEW m \in Nat, NEW d \in Nat, NEW t \in Nat,
         x + l <= t + 1, d < l - m
  PROVE  x + (m + d) <= t + 1 /\ m <= m + d /\ m + d \in Nat
  OBVIOUS

\* What the loop sends continues the stream, as far as remote_seq goes on; and what it
\* leaves in the queue is still to be sent.
LEMMA ForwardsRun ==
  ASSUME TypeOK, InOrder, app.total \in Totals, forward \in Seq(Piece),
         reach \in 1 .. app.total + 1, NEW c \in ForwardChoices \cup {NoForward}
  PROVE  \E y \in reach .. app.total + 1 :
           /\ Uint(Forwarding(c).seq - app.isn) = y
           /\ Forwarding(c).bytes = Run(reach, y)
  <1>1. /\ app \in AppType /\ app.isn \in Seq32 /\ Len(forward) \in Nat /\ app.total \in Nat
        /\ app.total + 1 < Wrap
    BY DEF TypeOK, AppType, InOrder
  <1>2. PICK n \in 0 .. Len(forward) : n = c.whole
    BY ChoiceType
  <1>3. /\ sendable(n) /\ c.part \in Nat
        /\ \A i \in 1 .. n : c.took[i] = forward[i].len - forward[i].sent
    BY <1>2, ChoiceType
  <1>4. PICK R : R = [k \in 0 .. n |-> Uint(reached(k) - app.isn)]
    OBVIOUS
  <1>5. \A k \in 0 .. n : R[k] \in 1 .. app.total + 1 /\ reached(k) \in Seq32
    BY <1>1, <1>3, <1>4, ReachedInOrder
  <1>6. R[0] = reach
    BY <1>4 DEF reached, reach
  <1>7. ASSUME NEW i \in 1 .. n
        PROVE  /\ R[i - 1] <= R[i]
               /\ bytes(forward[i], forward[i].sent, forward[i].sent + c.took[i])
                    = Run(R[i - 1], R[i])
    <2>1. i \in 1 .. Len(forward) /\ i - 1 \in 0 .. n /\ i # 0 /\ i \in 0 .. n
      BY <1>1
    <2>2. PICK g, r : g = forward[i] /\ r = reached(i - 1)
      OBVIOUS
    <2>3. g \in Piece /\ r \in Seq32 /\ Uint(g.seq + g.sent) = r
      BY <1>3, <1>5, <2>1, <2>2, ElementOfSeq DEF sendable
    <2>4. R[i - 1] = Uint(r - app.isn) /\ Uint(r - app.isn) \in 1 .. app.total + 1
      BY <1>4, <1>5, <2>1, <2>2
    <2>5. /\ Uint(r - app.isn) = place(g) + g.sent
          /\ place(g) \in Nat /\ g.sent <= g.len /\ place(g) + g.len <= app.total + 1
          /\ g.seq \in Seq32 /\ g.len \in Nat /\ g.sent \in Nat
      BY <1>1, <2>3, <2>4, SegmentRun
    <2>6. bytes(g, g.sent, g.sent + c.took[i]) = Run(place(g) + g.sent, place(g) + g.len)
      <3>1. bytes(g, g.sent, g.len) = Run(place(g) + g.sent, place(g) + g.len)
        BY <1>1, <2>5, BytesRun
      <3>2. g.sent + c.took[i] = g.len
        BY <1>3, <2>2, <2>5
      <3> QED
        BY <3>1, <3>2
    <2>7. R[i] = place(g) + g.len
      <3>1. reached(i) = Uint(g.seq + g.len)
        BY <2>1, <2>2 DEF reached
      <3>2. place(g) + g.len < Wrap
        BY <1>1, <2>5, HalfAssumption DEF Wrap
      <3>3. Uint(Uint(g.seq + g.len) - app.isn) = place(g) + g.len
        BY <1>1, <2>5, <3>2, OffsetStep DEF place
      <3> QED
        BY <1>4, <2>1, <3>1, <3>3
    <2> QED
      BY <2>2, <2>4, <2>5, <2>6, <2>7
  <1>8. PICK s : s = [i \in 1 .. n |->
                        bytes(forward[i], forward[i].sent, forward[i].sent + c.took[i])]
    OBVIOUS
  <1>9. FlattenSeq(s) = Run(reach, R[n]) /\ reach <= R[n]
    <2>1. \A k \in 0 .. n : R[k] \in Nat
      BY <1>1, <1>5
    <2>2. \A i \in 1 .. n : s[i] = Run(R[i - 1], R[i])
      BY <1>7, <1>8
    <2>3. \A i \in 1 .. n : s[i] \in Seq(Nat)
      <3> SUFFICES ASSUME NEW i \in 1 .. n PROVE s[i] \in Seq(Nat)
        OBVIOUS
      <3>1. i - 1 \in 0 .. n /\ i \in 0 .. n
        OBVIOUS
      <3> QED
        BY <1>7, <2>1, <2>2, <3>1, RunType
    <2>4. n \in Nat
      OBVIOUS
    <2>5. s \in Seq(Seq(Nat)) /\ Len(s) = n
      <3>1. DOMAIN s = 1 .. n /\ s = [i \in 1 .. n |-> s[i]]
        BY <1>8
      <3>2. s \in Seq(Seq(Nat))
        BY <2>3, <2>4, <3>1, IsASeq
      <3> QED
        BY <2>4, <3>1, <3>2, LenProperties
    <2>6. FlattenSeq(s) = Run(R[0], R[n])
      BY <1>7, <2>1, <2>2, <2>4, <2>5, FlattenRuns
    <2>7. R[0] <= R[n]
      <3>1. \A i \in 0 .. n : R[0] <= R[i]
        BY <1>7, <2>1, <2>4, Ascending
      <3> QED
        BY <2>4, <3>1
    <2> QED
      BY <1>6, <2>6, <2>7
  <1>10. PICK rest : rest = SubSeq(forward, n + 1, Len(forward))
    OBVIOUS
  <1>11. /\ Forwarding(c).seq = Uint(reached(n) + c.part)
         /\ Forwarding(c).bytes = FlattenSeq(s) \o
              (IF c.part = 0 THEN <<>>
               ELSE bytes(rest[1], rest[1].sent, rest[1].sent + c.took[n + 1]))
    BY <1>2, <1>3, <1>8, <1>10 DEF Forwarding
  <1>12. R[n] \in 1 .. app.total + 1 /\ R[n] = Uint(reached(n) - app.isn) /\ reached(n) \in Seq32
    BY <1>2, <1>4, <1>5
  <1>13. CASE c.part = 0
    <2>1. Forwarding(c).seq = reached(n)
      <3>1. reached(n) \in Nat /\ reached(n) < Wrap
        BY <1>12, HalfAssumption DEF Seq32, Wrap
      <3>2. Uint(reached(n) + 0) = reached(n)
        BY <3>1, UintValue, reached(n) + 0 = reached(n)
      <3> QED
        BY <1>11, <1>13, <3>2
    <2>2. Run(reach, R[n]) \in Seq(Nat)
      BY <1>1, <1>9, <1>12, RunType
    <2>3. Forwarding(c).bytes = Run(reach, R[n])
      BY <1>9, <1>11, <1>13, <2>2, ConcatEmptySeq
    <2>4. R[n] \in reach .. app.total + 1
      BY <1>1, <1>9, <1>12
    <2> QED
      BY <1>12, <2>1, <2>3, <2>4
  <1>14. CASE c.part # 0
    <2>1. /\ n + 1 \in 1 .. Len(forward) /\ sendable(n + 1)
          /\ c.part < forward[n + 1].len - forward[n + 1].sent
          /\ c.took[n + 1] = c.part
      BY <1>2, <1>3, <1>14, ChoiceType
    <2>2. PICK g : g = forward[n + 1]
      OBVIOUS
    <2>3. rest[1] = g
      <3>1. forward \in Seq(QueuedSegment) /\ n + 1 \in 1 .. Len(forward) + 1
        BY <2>1 DEF TypeOK
      <3>2. rest[1] = forward[n + 1 + 1 - 1]
        BY <1>1, <1>10, <2>1, <3>1, SubSeqProperties
      <3> QED
        BY <2>2, <3>2
    <2>4. g \in Piece
      BY <2>1, <2>2, ElementOfSeq
    <2>5. Uint(g.seq + g.sent) = reached(n)
      BY <2>1, <2>2, n + 1 \in 1 .. n + 1, n + 1 - 1 = n DEF sendable
    <2>6. /\ R[n] = place(g) + g.sent
          /\ place(g) \in Nat /\ g.sent <= g.len /\ place(g) + g.len <= app.total + 1
          /\ g.seq \in Seq32 /\ g.len \in Nat /\ g.sent \in Nat
      BY <1>1, <1>12, <2>4, <2>5, SegmentRun
    <2>7. PICK y \in Nat : y = R[n] + c.part
      BY <1>1, <1>3, <1>12
    <2>8. /\ y = place(g) + (g.sent + c.part) /\ y <= app.total + 1 /\ R[n] <= y
          /\ g.sent + c.part \in Nat /\ g.sent <= g.sent + c.part
      <3>1. place(g) + g.sent + c.part = place(g) + (g.sent + c.part)
        BY <1>3, <2>6
      <3>2. /\ place(g) + (g.sent + c.part) <= app.total + 1
            /\ g.sent <= g.sent + c.part /\ g.sent + c.part \in Nat
        <4>1. c.part < g.len - g.sent
          BY <2>1, <2>2
        <4>2. /\ place(g) \in Nat /\ g.len \in Nat /\ g.sent \in Nat /\ c.part \in Nat
              /\ app.total \in Nat /\ place(g) + g.len <= app.total + 1
          BY <1>1, <1>3, <2>6
        <4> QED
          BY <4>1, <4>2, PartFits
      <3>3. R[n] <= R[n] + c.part
        BY <1>1, <1>3, <1>12
      <3> QED
        BY <2>6, <2>7, <3>1, <3>2, <3>3
    <2>9. bytes(g, g.sent, g.sent + c.part) = Run(R[n], y)
      <3>1. place(g) + (g.sent + c.part) <= app.total + 1
        BY <2>8
      <3>2. bytes(g, g.sent, g.sent + c.part)
              = Run(place(g) + g.sent, place(g) + (g.sent + c.part))
        BY <1>1, <2>6, <2>8, <3>1, BytesRun
      <3> QED
        BY <2>6, <2>8, <3>2
    <2>10. Run(reach, R[n]) \o Run(R[n], y) = Run(reach, y)
      <3>1. PICK x \in Nat, z \in Nat : x = reach /\ z = R[n]
        BY <1>1, <1>12
      <3>2. x <= z /\ z <= y
        BY <1>9, <2>8, <3>1
      <3>3. Run(x, z) \o Run(z, y) = Run(x, y)
        BY <3>1, <3>2, RunsMeet
      <3> QED
        BY <3>1, <3>3
    <2>11. Uint(Forwarding(c).seq - app.isn) = y
      <3>1. Uint(reached(n) - app.isn) + c.part < Wrap
        BY <1>1, <1>12, <2>7, <2>8, HalfAssumption DEF Wrap
      <3>2. Uint(Uint(reached(n) + c.part) - app.isn) = Uint(reached(n) - app.isn) + c.part
        BY <1>1, <1>3, <1>12, <3>1, OffsetStep
      <3> QED
        BY <1>11, <1>12, <2>7, <3>2
    <2>12. y \in reach .. app.total + 1
      BY <1>1, <1>9, <1>12, <2>8
    <2> QED
      BY <1>9, <1>11, <1>14, <2>1, <2>3, <2>9, <2>10, <2>11, <2>12
  <1> QED
    BY <1>13, <1>14

\* What the loop leaves in the queue is still to be sent.
LEMMA ForwardsPieces ==
  ASSUME TypeOK, InOrder, forward \in Seq(Piece), app.total + 1 < Wrap,
         NEW c \in ForwardChoices \cup {NoForward},
         c.part > 0 => reach \in 1 .. app.total + 1
  PROVE  Forwarding(c).queue \in Seq(Piece)
  <1>1. /\ app \in AppType /\ app.isn \in Seq32 /\ Len(forward) \in Nat /\ app.total \in Nat
    BY DEF TypeOK, AppType
  <1>2. /\ c.whole \in 0 .. Len(forward) /\ c.part \in Nat
        /\ c.part > 0 => c.whole + 1 \in 1 .. Len(forward)
    BY ChoiceType
  <1> DEFINE rest == SubSeq(forward, c.whole + 1, Len(forward))
  <1>3. /\ rest \in Seq(Piece)
        /\ c.part > 0 => Len(rest) > 0 /\ rest[1] = forward[c.whole + 1]
    <2>1. c.whole + 1 \in 1 .. Len(forward) + 1 /\ Len(forward) \in 0 .. Len(forward)
      BY <1>1, <1>2
    <2>2. \A i \in c.whole + 1 .. Len(forward) : forward[i] \in Piece
      BY <1>1, <2>1, ElementOfSeq
    <2>3. c.whole + 1 \in Int /\ Len(forward) \in Int
      BY <1>1, <2>1
    <2>4. /\ rest \in Seq(Piece)
          /\ Len(rest) = IF c.whole + 1 <= Len(forward) THEN Len(forward) - (c.whole + 1) + 1 ELSE 0
          /\ \A i \in 1 .. Len(forward) - (c.whole + 1) + 1 : rest[i] = forward[c.whole + 1 + i - 1]
      BY <2>2, <2>3, SubSeqProperties
    <2>5. ASSUME c.part > 0
          PROVE  Len(rest) > 0 /\ rest[1] = forward[c.whole + 1]
      <3> HIDE DEF rest
      <3>1. c.whole + 1 <= Len(forward) /\ c.whole \in Nat
        BY <1>1, <1>2, <2>5
      <3>2. Len(forward) - (c.whole + 1) + 1 > 0 /\ 1 \in 1 .. Len(forward) - (c.whole + 1) + 1
        BY <1>1, <3>1
      <3>3. c.whole + 1 + 1 - 1 = c.whole + 1
        BY <3>1
      <3>4. rest[1] = forward[c.whole + 1 + 1 - 1]
        BY <2>4, <3>2
      <3> QED
        BY <2>4, <3>1, <3>2, <3>3, <3>4
    <2> QED
      BY <2>4, <2>5
  <1>4. CASE c.part = 0
    BY <1>3, <1>4 DEF Forwarding
  <1>5. CASE c.part > 0
    <2>1. PICK g : g = forward[c.whole + 1]
      OBVIOUS
    <2>2. g \in Piece /\ sendable(c.whole + 1) /\ c.part < g.len - g.sent
      BY <1>2, <1>5, <2>1, ChoiceType, ElementOfSeq
    <2>3. reached(c.whole) \in Seq32 /\ Uint(reached(c.whole) - app.isn) \in 1 .. app.total + 1
      BY <1>2, <1>5, ChoiceType, ReachedInOrder
    <2>4. Uint(g.seq + g.sent) = reached(c.whole)
      BY <1>2, <2>1, <2>2, c.whole + 1 \in 1 .. c.whole + 1, c.whole + 1 - 1 = c.whole
      DEF sendable
    <2>5. /\ place(g) + g.sent \in 1 .. app.total + 1
          /\ place(g) \in Nat /\ g.sent <= g.len /\ place(g) + g.len <= app.total + 1
          /\ g.seq \in Seq32 /\ g.len \in Nat /\ g.sent \in Nat
      BY <1>1, <2>2, <2>3, <2>4, SegmentRun
    <2>6. PICK h : h = [g EXCEPT !.sent = @ + c.part]
      OBVIOUS
    <2>7. /\ h \in QueuedSegment /\ h.seq = g.seq /\ h.len = g.len /\ h.sent = g.sent + c.part
      <3>1. g \in QueuedSegment /\ g.sent + c.part \in Nat
        BY <1>2, <2>2, <2>5 DEF Piece
      <3> QED
        BY <2>6, <3>1 DEF QueuedSegment
    <2>8. place(g) > 0
      <3>1. ~(g.seq = app.isn /\ g.sent = 0)
        <4> SUFFICES ASSUME g.seq = app.isn, g.sent = 0 PROVE FALSE
          OBVIOUS
        <4>1. app.isn \in Nat /\ app.isn < Wrap /\ Wrap \in Nat
          BY <1>1, HalfAssumption DEF Seq32, Wrap
        <4>2. place(g) = 0
          BY <4>1, UintValue, app.isn - app.isn = 0 DEF place
        <4> QED
          BY <2>5, <4>2
      <3> QED
        BY <1>2, <1>5, <2>2, <2>5, <3>1 DEF Piece
    <2>9. h \in Piece
      <3>1. place(h) = place(g)
        BY <2>7 DEF place
      <3>2. h.sent <= h.len /\ h.len # 0
        BY <1>2, <1>5, <2>2, <2>5, <2>7
      <3>3. place(h) + h.len <= app.total + 1
        BY <2>5, <2>7, <3>1
      <3> QED
        BY <2>7, <2>8, <3>1, <3>2, <3>3 DEF Piece
    <2>10. [rest EXCEPT ![1].sent = @ + c.part] = [rest EXCEPT ![1] = h]
      BY <1>3, <1>5, <2>1, <2>6
    <2>11. [rest EXCEPT ![1] = h] \in Seq(Piece)
      <3> HIDE DEF rest
      <3>1. 1 \in 1 .. Len(rest)
        BY <1>3, <1>5
      <3> QED
        BY <1>3, <2>9, <3>1, ExceptSeq
    <2>12. Forwarding(c).queue = IF c.part = 0 THEN rest
                                 ELSE [rest EXCEPT ![1].sent = @ + c.part]
      BY DEF Forwarding
    <2>13. c.part # 0
      BY <1>5
    <2> QED
      BY <2>10, <2>11, <2>12, <2>13
  <1> QED
    BY <1>2, <1>4, <1>5

-----------------------------------------------------------------------------
(* Packets. *)

\* The stream is the same, and the app is answered if it was.
SameSource(a, b) == b.isn = a.isn /\ b.total = a.total /\ b.rcv = a.rcv

\* A packet that carries nothing to the app.
LEMMA EmptySource ==
  ASSUME NEW a \in AppType, NEW p \in Reply, ~p.syn, ~p.fin, p.len = 0
  PROVE  SameSource(a, Receive(a, p))
  <1>1. Receive(a, p).isn = a.isn /\ Receive(a, p).total = a.total
    BY StreamFixed
  <1>2. Receive(a, p).rcv = a.rcv
    BY ReceiveKeeps
  <1> QED
    BY <1>1, <1>2 DEF SameSource

\* An acknowledgement or a RST carries nothing.
LEMMA AckSource ==
  ASSUME NEW a \in AppType, NEW lseq \in Seq32, NEW rseq \in Seq32, NEW flags,
         flags \in {{"ACK"}, {"RST"}, {"RST", "ACK"}}
  PROVE  SameSource(a, Receive(a, write_tcp(flags, lseq, rseq, 0)))
  <1>1. PICK p : p = write_tcp(flags, lseq, rseq, 0)
    OBVIOUS
  <1>2. p \in Reply /\ ~p.syn /\ ~p.fin /\ p.len = 0
    BY <1>1, WriteType DEF write_tcp
  <1> QED
    BY <1>1, <1>2, EmptySource

\* A RST closes the session, and leaves remote_seq alone unless the session listens.
LEMMA RstOrder ==
  ASSUME TypeOK, NEW a \in AppType, NEW st, NEW rseq \in Seq32, NEW why,
         write_rst(a, st, rseq, why)
  PROVE  /\ SameSource(a, app') /\ state' \in {"CLOSE", "CLOSING"}
         /\ st # "LISTEN" => remote_seq' = rseq
  <1>1. PICK r, flags, ok :
          /\ r \in Seq32 /\ flags \in {{"RST"}, {"RST", "ACK"}}
          /\ app' = IF ok THEN Receive(a, write_tcp(flags, local_seq, r, 0)) ELSE a
    <2>1. Uint(rseq + 1) \in Seq32
      BY StepType
    <2> QED
      BY <2>1 DEF write_rst
  <1>2. SameSource(a, Receive(a, write_tcp(flags, local_seq, r, 0)))
    BY <1>1, AckSource DEF TypeOK
  <1>3. SameSource(a, a)
    BY DEF SameSource
  <1> QED
    BY <1>1, <1>2, <1>3 DEF write_rst

\* What a packet from the app puts into the queue.
LEMMA PacketPiece ==
  ASSUME app \in AppType, app.total + 1 < Wrap, NEW p \in AppPackets
  PROVE  [seq |-> p.seq, len |-> p.len, sent |-> 0] \in Piece
  <1>1. /\ app.isn \in Seq32 /\ app.total \in Nat /\ p \in Packet
    BY AppPacketsType DEF AppType
  <1>2. PICK g : g = [seq |-> p.seq, len |-> p.len, sent |-> 0]
    OBVIOUS
  <1>3. /\ g \in QueuedSegment /\ g.seq = p.seq /\ g.len = p.len /\ g.sent = 0 /\ g.len \in Nat
    BY <1>1, <1>2 DEF Packet, QueuedSegment
  <1>4. CASE p \in Syns
    BY <1>2, <1>3, <1>4 DEF Syns, Piece
  <1>5. CASE p \in Resets
    <2>1. p.len = 0
      BY <1>5 DEF Resets, Segment
    <2> QED
      BY <1>2, <1>3, <2>1 DEF Piece
  <1>6. CASE p \in Segments
    <2>1. PICK o \in Offers : p = Segment(o, FALSE)
      BY <1>6 DEF Segments
    <2>2. p.seq = Uint(app.isn + o.from) /\ p.len = o.len
      BY <2>1 DEF Segment
    <2>3. /\ o.from \in 1 .. app.total + 2 /\ o.len \in 0 .. MaxSeg
          /\ o.len > 0 => o.from + o.len <= app.total + 1
      BY <1>1, AppAssumption DEF Offers
    <2>4. ASSUME o.len > 0
          PROVE  place(g) > 0 /\ place(g) + g.len <= app.total + 1
      <3>1. o.from \in Nat /\ o.from > 0 /\ o.from < Wrap /\ o.len \in Nat
        BY <1>1, <2>3, <2>4, AppAssumption, HalfAssumption DEF Wrap
      <3>2. Uint(Uint(app.isn + o.from) - app.isn) = o.from
        BY <1>1, <3>1, OffsetValue
      <3>3. place(g) = o.from
        BY <1>3, <2>2, <3>2 DEF place
      <3> QED
        BY <1>3, <2>2, <2>3, <2>4, <3>1, <3>3
    <2> QED
      BY <1>2, <1>3, <2>2, <2>4 DEF Piece
  <1> QED
    BY <1>4, <1>5, <1>6 DEF AppPackets

\* The queue holds nothing else.
LEMMA QueuePiece ==
  ASSUME app \in AppType, app.total + 1 < Wrap, NEW p \in AppPackets,
         NEW fw \in Seq(Piece), NEW r
  PROVE  queue_tcp(fw, r, p) \in Seq(Piece)
  <1>1. [seq |-> p.seq, len |-> p.len, sent |-> 0] \in Piece /\ p \in Packet
    BY PacketPiece, AppPacketsType
  <1>2. Piece \in SUBSET QueuedSegment
    BY DEF Piece
  <1> QED
    BY <1>1, <1>2, QueueSyn

\* A packet from the app does not change its stream.
LEMMA SentSource ==
  ASSUME TypeOK, NEW p \in AppPackets
  PROVE  Sent(p) \in AppType /\ SameSource(app, Sent(p))
  <1>1. p \in Packet /\ app \in AppType
    BY AppPacketsType DEF TypeOK
  <1>2. Sent(p).isn = app.isn /\ Sent(p).rcv = app.rcv
    BY <1>1, SentKeeps
  <1>3. Sent(p).total = app.total
    BY <1>1 DEF Sent, AppType
  <1> QED
    BY <1>1, <1>2, <1>3, SentType DEF SameSource

\* What keeps the invariant without a byte being sent.
LEMMA OrderKept ==
  ASSUME OrderInv, SameSource(app, app'), upstream' = upstream,
         registered' => forward' \in Seq(Piece),
         registered' => (state' \in {"FIN_WAIT1", "LAST_ACK"} => forward' = <<>>),
         registered' /\ app.rcv > 0 =>
           Ended' \/ Refused' \/ (Continued /\ remote_seq' = remote_seq)
  PROVE  OrderInv'
  <1>1. app'.isn = app.isn /\ app'.total = app.total /\ app'.rcv = app.rcv
    BY DEF SameSource
  <1>2. Piece' = Piece
    BY <1>1 DEF Piece, place
  <1>3. app'.total \in Totals /\ (\E k \in Nat \ {0} : upstream' = Run(1, k))
    BY <1>1 DEF OrderInv
  <1>4. Queued'
    BY <1>2 DEF Queued
  <1>5. ASSUME Continued, remote_seq' = remote_seq
        PROVE  Continued'
    <2>1. reach' = reach
      BY <1>1, <1>5 DEF reach
    <2> QED
      BY <1>1, <1>5, <2>1 DEF Continued
  <1>6. Onward'
    BY <1>1, <1>5 DEF Onward
  <1> QED
    BY <1>3, <1>4, <1>6 DEF OrderInv

\* A packet while the proxy has not accepted the CONNECT is queued.
LEMMA PhaseOrder ==
  ASSUME TypeOK, ConnectInv, OrderInv, InOrder, NEW p \in AppPackets, ConnectPhase(p)
  PROVE  OrderInv'
  <1>1. /\ registered /\ connecting /\ dest = 443 /\ UNCHANGED <<registered, dest, upstream>>
        /\ remote_seq \in Seq32 /\ app \in AppType /\ app.total + 1 < Wrap
    BY DEF ConnectPhase, connecting, link, TypeOK, OrderInv, InOrder
  <1>2. state \in {"LISTEN", "SYN_RECV", "CLOSING", "CLOSE"}
    BY <1>1 DEF ConnectInv, ConnectFirst, TypeOK, States
  <1>3. forward' \in Seq(Piece)
    BY <1>1, QueuePiece DEF ConnectPhase, OrderInv, Queued
  <1>4. app.rcv > 0 => Continued \/ Refused
    BY <1>1 DEF OrderInv, Onward, Ended
  <1>5. Sent(p) \in AppType /\ SameSource(app, Sent(p))
    BY SentSource
  <1>6. CASE connect_sent = "NOT_SENT" /\ write_rst(Sent(p), state, remote_seq, "CONNECT")
    <2>1. /\ SameSource(Sent(p), app') /\ state' \in {"CLOSE", "CLOSING"}
          /\ state # "LISTEN" => remote_seq' = remote_seq
      BY <1>1, <1>5, <1>6, RstOrder
    <2>2. SameSource(app, app')
      BY <1>5, <2>1 DEF SameSource
    <2>3. app.rcv > 0 => Continued /\ state # "LISTEN"
      BY <1>1, <1>4, <1>6 DEF Refused, ConnectInv, Unanswered, TypeOK, AppType
    <2> QED
      BY <1>1, <1>3, <2>1, <2>2, <2>3, OrderKept
  <1>7. CASE SendConnect /\ app' = Sent(p) /\ remote_seq' = remote_seq
    <2>1. app.rcv > 0 => Continued
      BY <1>4, <1>7 DEF SendConnect, Refused
    <2>2. state' = "LISTEN"
      BY <1>7 DEF SendConnect
    <2> QED
      BY <1>1, <1>3, <1>5, <1>7, <2>1, <2>2, OrderKept
  <1>8. CASE /\ app' = Sent(p)
             /\ UNCHANGED <<connect_sent, state, remote_seq>>
    <2>1. Refused => Refused'
      BY <1>1, <1>8 DEF Refused, connecting
    <2> QED
      BY <1>1, <1>2, <1>3, <1>4, <1>5, <1>8, <2>1, OrderKept
  <1> QED
    BY <1>6, <1>7, <1>8 DEF ConnectPhase

\* A packet that an open session accepts is queued if it has data, which it has not after
\* the end of either side.
LEMMA AcceptOrder ==
  ASSUME TypeOK, SocketInv, ConnectInv, OrderInv, InOrder, NEW p \in AppPackets, Accept(p)
  PROVE  /\ registered /\ UNCHANGED <<registered, upstream>> /\ forward' \in Seq(Piece)
         /\ Ended \/ state \in {"FIN_WAIT1", "LAST_ACK"} => forward' = <<>>
         /\ app.rcv > 0 => Continued \/ Ended
         /\ Ended => state \in {"CLOSE_WAIT", "LAST_ACK"}
         /\ ~connecting /\ ~connecting'
  <1>1. /\ registered /\ ~connecting /\ ~closed /\ ~refused(p)
        /\ UNCHANGED <<registered, dest, connect_sent, upstream>>
        /\ forward' = IF p.len > 0 THEN queue_tcp(forward, remote_seq, p) ELSE forward
        /\ app \in AppType /\ app.total + 1 < Wrap /\ forward \in Seq(Piece)
    BY DEF Accept, link, TypeOK, OrderInv, Queued, InOrder
  <1>2. forward' \in Seq(Piece)
    BY <1>1, QueuePiece
  <1>3. Ended => state \in {"CLOSE_WAIT", "LAST_ACK"}
    BY <1>1 DEF Ended, closed
  <1>4. Ended \/ state \in {"FIN_WAIT1", "LAST_ACK"} => forward = <<>> /\ ~(p.len > 0)
    BY <1>1, <1>3 DEF refused, SocketInv, Ended, OrderInv, Queued
  <1>5. app.rcv > 0 => Continued \/ Ended
    BY <1>1 DEF OrderInv, Onward, Refused
  <1>6. ~connecting'
    BY <1>1 DEF connecting
  <1> QED
    BY <1>1, <1>2, <1>3, <1>4, <1>5, <1>6

\* Whatever packet an open session is given.
LEMMA PacketOrder ==
  ASSUME TypeOK, SocketInv, ConnectInv, OrderInv, InOrder, NEW p \in AppPackets,
         registered, ~connecting, handle_tcp(p)
  PROVE  OrderInv'
  <1>1. /\ Sent(p) \in AppType /\ SameSource(app, Sent(p)) /\ remote_seq \in Seq32
        /\ local_seq \in Seq32
    BY SentSource DEF TypeOK
  <1>2. app.rcv > 0 => state # "LISTEN"
    BY DEF ConnectInv, Unanswered, connecting, TypeOK, AppType
  <1>3. ASSUME NEW why, write_rst(Sent(p), state, remote_seq, why)
        PROVE  /\ SameSource(app, app') /\ state' \in {"CLOSE", "CLOSING"}
               /\ app.rcv > 0 => remote_seq' = remote_seq
    <2>1. /\ SameSource(Sent(p), app') /\ state' \in {"CLOSE", "CLOSING"}
          /\ state # "LISTEN" => remote_seq' = remote_seq
      BY <1>1, <1>3, RstOrder
    <2> QED
      BY <1>1, <1>2, <2>1 DEF SameSource
  <1>4. CASE WasClosed(p) \/ DataRefused(p)
    <2>1. /\ UNCHANGED <<registered, dest, connect_sent, forward, upstream>>
          /\ \E why : write_rst(Sent(p), state, remote_seq, why)
      BY <1>4 DEF WasClosed, DataRefused, link
    <2>2. /\ SameSource(app, app') /\ state' \in {"CLOSE", "CLOSING"}
          /\ app.rcv > 0 => remote_seq' = remote_seq
      BY <1>3, <2>1
    <2>3. forward \in Seq(Piece) /\ (app.rcv > 0 => Continued \/ Ended)
      BY DEF OrderInv, Queued, Onward, Refused
    <2>4. Ended => Ended'
      BY <2>1, <2>2 DEF Ended, connecting
    <2> QED
      BY <2>1, <2>2, <2>3, <2>4, OrderKept
  <1>5. CASE Accept(p)
    <2>1. /\ UNCHANGED <<registered, upstream>> /\ forward' \in Seq(Piece)
          /\ Ended \/ state \in {"FIN_WAIT1", "LAST_ACK"} => forward' = <<>>
          /\ app.rcv > 0 => Continued \/ Ended
          /\ Ended => state \in {"CLOSE_WAIT", "LAST_ACK"}
          /\ ~connecting'
      BY <1>5, AcceptOrder
    <2>2. CASE FutureAck(p)
      <3>1. /\ SameSource(app, app') /\ state' \in {"CLOSE", "CLOSING"}
            /\ app.rcv > 0 => remote_seq' = remote_seq
        BY <1>3, <2>2 DEF FutureAck
      <3>2. Ended => Ended'
        BY <2>1, <3>1 DEF Ended
      <3> QED
        BY <2>1, <3>1, <3>2, OrderKept
    <2>3. CASE ReceiveRst(p) \/ RepeatedSyn(p) \/ ReceiveAck(p) \/ PreviousAck(p)
      <3>1. app' = Sent(p) /\ remote_seq' = remote_seq
        BY <2>3 DEF ReceiveRst, RepeatedSyn, ReceiveAck, PreviousAck
      <3>2. \/ state' \in {state, "CLOSING"}
            \/ state = "SYN_RECV" /\ state' = "ESTABLISHED"
        BY <2>3 DEF ReceiveRst, RepeatedSyn, ReceiveAck, PreviousAck
      <3>3. Ended => Ended'
        BY <2>1, <3>2 DEF Ended
      <3>4. state' \in {"FIN_WAIT1", "LAST_ACK"} => forward' = <<>>
        BY <2>1, <3>2
      <3> QED
        BY <1>1, <2>1, <3>1, <3>3, <3>4, OrderKept
    <2>4. CASE ReceiveFin(p)
      <3>1. CASE /\ confirmable
                 /\ remote_seq' = Uint(remote_seq + 1)
                 /\ \E ok \in Outcomes("tun") :
                      write_or_close(Sent(p),
                        IF state = "FIN_WAIT1" THEN "CLOSE" ELSE "CLOSE_WAIT", {"ACK"},
                        local_seq, remote_seq', 0, ok)
        <4>1. forward' = <<>>
          BY <2>1, <3>1 DEF confirmable
        <4>2. state' \in {"CLOSE", "CLOSE_WAIT", "CLOSING"}
          BY <3>1 DEF write_or_close
        <4>3. SameSource(app, app')
          <5>1. remote_seq' \in Seq32
            BY <1>1, <3>1, StepType
          <5>2. app' \in {Sent(p), Receive(Sent(p), write_tcp({"ACK"}, local_seq, remote_seq', 0))}
            BY <3>1 DEF write_or_close
          <5>3. SameSource(Sent(p), Receive(Sent(p), write_tcp({"ACK"}, local_seq, remote_seq', 0)))
            BY <1>1, <5>1, AckSource
          <5> QED
            BY <1>1, <5>2, <5>3 DEF SameSource
        <4>4. Ended'
          BY <2>1, <4>1, <4>2 DEF Ended
        <4> QED
          BY <2>1, <4>1, <4>3, <4>4, OrderKept
      <3>2. CASE /\ state = "ESTABLISHED" /\ forward' # <<>>
                 /\ state' = "CLOSE_WAIT" /\ app' = Sent(p)
                 /\ UNCHANGED remote_seq
        <4>1. app.rcv > 0 => Continued
          BY <2>1, <3>2
        <4> QED
          BY <1>1, <2>1, <3>2, <4>1, OrderKept
      <3>3. CASE app' = Sent(p) /\ UNCHANGED <<state, remote_seq>>
        <4>1. Ended => Ended'
          BY <2>1, <3>3 DEF Ended
        <4> QED
          BY <1>1, <2>1, <3>3, <4>1, OrderKept
      <3> QED
        BY <2>4, <3>1, <3>2, <3>3 DEF ReceiveFin
    <2> QED
      BY <1>4, <1>5, <2>2, <2>3, <2>4 DEF handle_tcp, NewSession, UnknownSession, ConnectPhase,
        WasClosed, DataRefused, Accept
  <1> QED
    BY <1>4, <1>5 DEF handle_tcp, NewSession, UnknownSession, ConnectPhase, ReceiveRst,
      RepeatedSyn, ReceiveFin, ReceiveAck, PreviousAck, FutureAck

\* A session starts with what its SYN carries.
LEMMA NewOrder ==
  ASSUME TypeOK, ConnectInv, OrderInv, InOrder, NEW p \in AppPackets, NewSession(p),
         app.rcv = 0
  PROVE  OrderInv'
  <1>1. /\ Sent(p) \in AppType /\ SameSource(app, Sent(p)) /\ SameSource(app, app)
        /\ app \in AppType /\ app.total + 1 < Wrap
    BY SentSource DEF TypeOK, SameSource, OrderInv, InOrder
  <1>2. /\ upstream' = upstream /\ app' \in {app, Sent(p)} /\ p.syn
        /\ registered' => state' = "LISTEN"
    BY DEF NewSession, history
  <1>3. ASSUME registered'
        PROVE  forward' \in Seq(Piece)
    <2>1. [seq |-> p.seq, len |-> p.len, sent |-> 0] \in Piece
      BY <1>1, PacketPiece
    <2>2. PICK g \in Piece : g = [seq |-> p.seq, len |-> p.len, sent |-> 0]
      BY <2>1
    <2>3. forward' = <<>> \/ forward' = <<g>>
      BY <1>3, <2>2 DEF NewSession
    <2>4. <<>> \in Seq(Piece) /\ <<g>> \in Seq(Piece)
      OBVIOUS
    <2> QED
      BY <2>3, <2>4, Zenon
  <1> QED
    BY <1>1, <1>2, <1>3, OrderKept

\* A packet that finds no session is no one's.
LEMMA UnknownOrder ==
  ASSUME TypeOK, OrderInv, NEW p \in AppPackets, UnknownSession(p)
  PROVE  OrderInv'
  <1>1. Sent(p) \in AppType /\ SameSource(app, Sent(p)) /\ p \in Packet
    BY SentSource, AppPacketsType DEF TypeOK
  <1>2. PICK r : r = Uint(p.seq + p.len + (IF p.fin THEN 1 ELSE 0))
    OBVIOUS
  <1>3. r \in Seq32 /\ p.ack_seq \in Seq32
    <2>1. p.len + (IF p.fin THEN 1 ELSE 0) \in Int /\ p.seq \in Seq32 /\ p.ack_seq \in Seq32
      BY <1>1 DEF Packet
    <2>2. Uint(p.seq + (p.len + (IF p.fin THEN 1 ELSE 0))) \in Seq32
      BY <2>1, StepType
    <2>3. p.seq \in Int /\ p.len \in Int
      BY <1>1, <2>1, Seq32Nat DEF Packet
    <2>4. p.seq + p.len + (IF p.fin THEN 1 ELSE 0) = p.seq + (p.len + (IF p.fin THEN 1 ELSE 0))
      BY <2>3
    <2> QED
      BY <1>2, <2>1, <2>2, <2>4
  <1>4. app' \in {Sent(p), Receive(Sent(p), write_tcp({"RST"}, p.ack_seq, r, 0))}
    BY <1>2 DEF UnknownSession
  <1>5. SameSource(Sent(p), Receive(Sent(p), write_tcp({"RST"}, p.ack_seq, r, 0)))
    BY <1>1, <1>3, AckSource
  <1>6. SameSource(app, app')
    BY <1>1, <1>4, <1>5 DEF SameSource
  <1>7. ~registered' /\ upstream' = upstream
    BY DEF UnknownSession, link, history
  <1> QED
    BY <1>6, <1>7, OrderKept

\* Nothing is forwarded when a packet is handled.
LEMMA OrderTun ==
  ASSUME TypeOK, SocketInv, ConnectInv, OrderInv, InOrder, check_tun
  PROVE  OrderInv'
  <1>1. PICK p \in AppPackets : (p.syn => registered \/ app.rcv = 0) /\ handle_tcp(p)
    BY DEF check_tun
  <1>2. CASE ~registered
    <2>1. NewSession(p) \/ UnknownSession(p)
      BY <1>1, <1>2 DEF handle_tcp, ConnectPhase, WasClosed, DataRefused, ReceiveRst,
        RepeatedSyn, ReceiveFin, ReceiveAck, PreviousAck, FutureAck, Accept
    <2>2. NewSession(p) => app.rcv = 0
      BY <1>1, <1>2 DEF NewSession
    <2> QED
      BY <2>1, <2>2, NewOrder, UnknownOrder
  <1>3. CASE registered /\ connecting
    <2>1. ConnectPhase(p)
      BY <1>1, <1>3 DEF handle_tcp, NewSession, UnknownSession, WasClosed, DataRefused,
        ReceiveRst, RepeatedSyn, ReceiveFin, ReceiveAck, PreviousAck, FutureAck, Accept
    <2> QED
      BY <2>1, PhaseOrder
  <1>4. CASE registered /\ ~connecting
    BY <1>1, <1>4, PacketOrder
  <1> QED
    BY <1>2, <1>3, <1>4

-----------------------------------------------------------------------------
(* Events for the socket. *)

\* What is written to tun does not change the app's stream.
LEMMA WriteSource ==
  ASSUME NEW a \in AppType, NEW st, NEW flags, NEW lseq \in Seq32, NEW rseq \in Seq32,
         NEW n \in Nat, NEW ok, write_or_close(a, st, flags, lseq, rseq, n, ok)
  PROVE  app'.isn = a.isn /\ app'.total = a.total /\ state' \in {st, "CLOSING"}
  <1>1. PICK p \in Reply : p = write_tcp(flags, lseq, rseq, n)
    BY WriteType
  <1>2. Receive(a, p).isn = a.isn /\ Receive(a, p).total = a.total
    BY StreamFixed
  <1> QED
    BY <1>1, <1>2 DEF write_or_close

\* What the read half leaves of the session the write half has left in state st: it
\* answers the server's end if nothing is queued, and closes the session otherwise.
LEMMA ReadOrder ==
  ASSUME TypeOK, NEW st, NEW r \in Seq32, NEW a \in AppType, NEW fw, Read(st, r, a, fw),
         st # "LISTEN"
  PROVE  /\ remote_seq' = r
         /\ app'.isn = a.isn /\ app'.total = a.total /\ (~readable(st) => app' = a)
         /\ \/ state' = st
            \/ state' \in {"CLOSE", "CLOSING"}
            \/ fw = <<>> /\ st = "ESTABLISHED" /\ state' = "FIN_WAIT1"
            \/ fw = <<>> /\ st = "CLOSE_WAIT" /\ state' = "LAST_ACK"
  <1>1. local_seq \in Seq32 /\ 0 \in Nat
    BY DEF TypeOK
  <1>2. CASE NoRead(st, r, a)
    BY <1>2 DEF NoRead
  <1>3. CASE readable(st) /\ ReadData(st, r, a)
    <2>1. PICK n, ok : /\ n \in 1 .. Mss
                       /\ write_or_close(a, st, {"ACK"}, local_seq, r, n, ok)
      BY <1>3 DEF ReadData
    <2>2. n \in Nat
      BY <2>1, SessionAssumption
    <2>3. app'.isn = a.isn /\ app'.total = a.total /\ state' \in {st, "CLOSING"}
      BY <1>1, <2>1, <2>2, WriteSource
    <2> QED
      BY <1>3, <2>3 DEF ReadData
  <1>4. CASE readable(st) /\ ReadEof(st, r, a, fw)
    <2>1. st \in {"ESTABLISHED", "CLOSE_WAIT"}
      BY <1>4 DEF readable
    <2>2. CASE fw = <<>> /\ remote_seq' = r
      <3>1. PICK s, ok : /\ s = IF st = "ESTABLISHED" THEN "FIN_WAIT1" ELSE "LAST_ACK"
                         /\ write_or_close(a, s, {"FIN", "ACK"}, local_seq, r, 0, ok)
        BY <1>4, <2>2 DEF ReadEof
      <3>2. app'.isn = a.isn /\ app'.total = a.total /\ state' \in {s, "CLOSING"}
        BY <1>1, <3>1, WriteSource
      <3> QED
        BY <1>4, <2>1, <2>2, <3>1, <3>2
    <2>3. CASE write_rst(a, st, r, "close with queue")
      BY <1>4, <2>3, RstOrder DEF SameSource
    <2> QED
      BY <1>4, <2>2, <2>3 DEF ReadEof
  <1>5. CASE readable(st) /\ ReadError(st, r, a)
    <2>1. write_rst(a, st, r, "recv error")
      BY <1>5 DEF ReadError
    <2> QED
      BY <1>5, <2>1, RstOrder DEF SameSource
  <1> QED
    BY <1>2, <1>3, <1>4, <1>5 DEF Read

\* What keeps the invariant when bytes are sent.
LEMMA OrderMoved ==
  ASSUME OrderInv, app'.isn = app.isn, app'.total = app.total,
         NEW k \in Nat \ {0}, upstream' = Run(1, k), forward' \in Seq(Piece),
         state' \in {"FIN_WAIT1", "LAST_ACK"} => forward' = <<>>,
         \/ Ended' \/ Refused'
         \/ Uint(remote_seq' - app.isn) = k /\ k \in 1 .. app.total + 1
         \/ app'.rcv = 0
  PROVE  OrderInv'
  <1>1. Piece' = Piece
    BY DEF Piece, place
  <1>2. app'.total \in Totals /\ (\E j \in Nat \ {0} : upstream' = Run(1, j))
    BY DEF OrderInv
  <1>3. Queued'
    BY <1>1 DEF Queued
  <1>4. Onward'
    BY DEF Onward, Continued, reach
  <1> QED
    BY <1>2, <1>3, <1>4 DEF OrderInv

\* The SYN is answered: nothing has been sent to the server, and remote_seq is where the
\* stream starts.
LEMMA ConnectedOrder ==
  ASSUME TypeOK, SocketInv, ConnectInv, OrderInv, InOrder, registered, Connected,
         UNCHANGED <<registered, dest>>
  PROVE  OrderInv'
  <1>1. /\ state = "LISTEN" /\ UNCHANGED <<registered, dest, connect_sent, forward, upstream>>
        /\ remote_seq' = Uint(remote_seq + 1) /\ remote_seq \in Seq32 /\ local_seq \in Seq32
        /\ app \in AppType /\ app.isn \in Seq32 /\ app.total \in Nat /\ app.total + 1 < Wrap
    BY DEF Connected, history, TypeOK, AppType, OrderInv, InOrder
  <1>2. /\ state' \in {"SYN_RECV", "CLOSING"}
        /\ app'.isn = app.isn /\ app'.total = app.total
    <2>1. remote_seq' \in Seq32 /\ 0 \in Nat
      BY <1>1, StepType
    <2>2. PICK ok : write_or_close(app, "SYN_RECV", {"SYN", "ACK"}, local_seq, remote_seq', 0, ok)
      BY DEF Connected
    <2> QED
      BY <1>1, <2>1, <2>2, WriteSource
  <1>3. forward' \in Seq(Piece)
    BY <1>1 DEF OrderInv, Queued
  <1>4. PICK k \in Nat \ {0} : upstream = Run(1, k)
    BY DEF OrderInv
  <1>5. CASE connecting /\ connect_sent = "SENT"
    <2>1. Refused'
      BY <1>1, <1>2, <1>5 DEF Refused, connecting
    <2> QED
      BY <1>1, <1>2, <1>3, <1>4, <2>1, OrderMoved
  <1>6. CASE ~(connecting /\ connect_sent = "SENT")
    <2>1. app.rcv = 0 /\ remote_seq = app.isn /\ upstream = <<>>
      BY <1>1, <1>6 DEF ConnectInv, Unanswered, Answered, connecting
    <2>2. Uint(Uint(app.isn + 1) - app.isn) = 1
      <3>1. 1 \in Nat /\ 1 < Wrap
        BY HalfAssumption DEF Wrap
      <3> QED
        BY <1>1, <3>1, OffsetValue
    <2>3. upstream' = Run(1, 1)
      BY <1>1, <2>1 DEF Run
    <2>4. 1 \in 1 .. app.total + 1 /\ 1 \in Nat \ {0}
      BY <1>1
    <2> QED
      BY <1>1, <1>2, <1>3, <2>1, <2>2, <2>3, <2>4, OrderMoved
  <1> QED
    BY <1>5, <1>6

\* A loop that has nothing to send leaves everything as it is.
LEMMA ForwardsNone ==
  ASSUME TypeOK, InOrder, NEW c \in ForwardChoices \cup {NoForward}, c.whole = 0, c.part = 0
  PROVE  /\ Forwarding(c).queue = forward /\ Forwarding(c).seq = remote_seq
         /\ Forwarding(c).bytes = <<>>
  <1>1. forward \in Seq(QueuedSegment) /\ remote_seq \in Nat /\ remote_seq < Wrap
    BY HalfAssumption DEF TypeOK, Seq32, Wrap
  <1>2. SubSeq(forward, c.whole + 1, Len(forward)) = forward
    BY <1>1, SubSeqFull, 0 + 1 = 1
  <1>3. Forwarding(c).queue = forward
    BY <1>2 DEF Forwarding
  <1>4. Uint(remote_seq + 0) = remote_seq
    BY <1>1, UintValue, remote_seq + 0 = remote_seq
  <1>5. Forwarding(c).seq = remote_seq
    BY <1>4 DEF Forwarding, reached
  <1> QED
    BY <1>3, <1>5, ForwardsNothing

\* A report for the socket sends what continues the stream at remote_seq, and counts the
\* FIN that waited for it when nothing is left.
LEMMA TransferOrder ==
  ASSUME TypeOK, SocketInv, ConnectInv, OrderInv, InOrder, registered, socket, Transfer,
         UNCHANGED <<registered, dest, phase>>, phase = "dispatch"
  PROVE  OrderInv'
  <1>1. PICK c \in (IF "OUT" \in pending THEN ForwardChoices ELSE {NoForward}),
             window \in (IF socket THEN {0, 1} ELSE {0}), ok \in Outcomes("tun") :
               ForwardAndRead(c, window, ok)
    BY DEF Transfer
  <1>2. /\ state # "LISTEN" /\ UNCHANGED connect_sent /\ (connecting' <=> connecting)
        /\ c \in ForwardChoices \cup {NoForward}
        /\ app \in AppType /\ app.rcv \in Nat /\ app.total \in Nat /\ app.total \in Totals
        /\ app.total + 1 < Wrap
        /\ state \notin {"FIN_WAIT1", "LAST_ACK", "CLOSE"}
        /\ forward \in Seq(Piece) /\ remote_seq \in Seq32 /\ local_seq \in Seq32
    BY <1>1 DEF Transfer, TypeOK, AppType, OrderInv, InOrder, SocketInv, Queued, connecting
  <1>3. PICK f : f = Forwarding(c)
    OBVIOUS
  <1>5. PICK r : r = IF (c.whole > 0 \/ c.part > 0) /\ f.queue = <<>> /\ state = "CLOSE_WAIT"
                     THEN Uint(f.seq + 1) ELSE f.seq
    OBVIOUS
  <1>6. f.seq \in Seq32 /\ r \in Seq32
    <2>1. f.seq \in Seq32
      BY <1>2, <1>3, ForwardingType
    <2> QED
      BY <1>5, <2>1, StepType
  <1>7. PICK st \in {state, "CLOSING"}, a \in AppType :
          /\ a.isn = app.isn /\ a.total = app.total /\ a.rcv = app.rcv
          /\ Read(st, r, a, f.queue)
    <2>1. PICK p : p = write_tcp({"ACK"}, local_seq, r, 0)
      OBVIOUS
    <2>2. Receive(app, p) \in AppType /\ SameSource(app, Receive(app, p))
      <3>1. p \in Reply
        BY <1>2, <1>6, <2>1, WriteType
      <3> QED
        BY <1>2, <1>6, <2>1, <3>1, AckSource, ReceiveType
    <2>3. PICK st \in {state, "CLOSING"}, a \in {app, Receive(app, p)} : Read(st, r, a, f.queue)
      BY <1>1, <1>3, <1>5, <2>1 DEF ForwardAndRead
    <2> QED
      BY <1>2, <2>2, <2>3 DEF SameSource
  <1>8. forward' = f.queue /\ upstream' = upstream \o f.bytes
    BY <1>1, <1>3 DEF ForwardAndRead
  <1>9. /\ remote_seq' = r
        /\ app'.isn = app.isn /\ app'.total = app.total
        /\ ~readable(st) => app' = a
        /\ \/ state' = st
           \/ state' \in {"CLOSE", "CLOSING"}
           \/ forward' = <<>> /\ st = "ESTABLISHED" /\ state' = "FIN_WAIT1"
           \/ forward' = <<>> /\ st = "CLOSE_WAIT" /\ state' = "LAST_ACK"
    <2>1. st # "LISTEN"
      BY <1>2
    <2> QED
      BY <1>6, <1>7, <1>8, <2>1, ReadOrder
  <1>10. state' \in {"FIN_WAIT1", "LAST_ACK"} => forward' = <<>>
    BY <1>2, <1>9
  <1>11. ASSUME c.whole = 0, c.part = 0
         PROVE  /\ forward' = forward /\ remote_seq' = remote_seq /\ upstream' = upstream
                /\ \E k \in Nat \ {0} : upstream' = Run(1, k)
    <2>1. f.queue = forward /\ f.seq = remote_seq /\ f.bytes = <<>>
      BY <1>2, <1>3, <1>11, ForwardsNone
    <2>2. PICK k \in Nat \ {0} : upstream = Run(1, k)
      BY DEF OrderInv
    <2>3. upstream \in Seq(Nat)
      BY <2>2, RunType
    <2>4. upstream' = upstream
      BY <1>8, <2>1, <2>3, ConcatEmptySeq
    <2>5. r = remote_seq
      BY <1>5, <1>11, <2>1
    <2> QED
      BY <1>8, <1>9, <2>1, <2>2, <2>4, <2>5
  <1>12. CASE app.rcv = 0 \/ connecting
    <2>1. c.whole = 0 /\ c.part = 0
      <3>1. Overtaken \/ c = NoForward
        BY <1>1, <1>2, <1>12 DEF ConnectInv, Writable, Waits
      <3> QED
        BY <1>2, <3>1, NothingToForward DEF NoForward
    <2>2. /\ forward' = forward /\ remote_seq' = remote_seq /\ upstream' = upstream
          /\ forward' \in Seq(Piece)
      BY <1>2, <1>11, <2>1
    <2>3. PICK k \in Nat \ {0} : upstream' = Run(1, k)
      BY <1>11, <2>1
    <2>4. CASE app.rcv = 0
      <3>1. ~readable(st)
        BY <1>2, <1>7, <2>4 DEF readable, ConnectInv, Answered
      <3>2. app'.rcv = 0
        BY <1>7, <1>9, <2>4, <3>1
      <3> QED
        BY <1>9, <1>10, <2>2, <2>3, <3>2, OrderMoved
    <2>5. CASE app.rcv > 0 /\ connecting /\ Refused
      <3>1. state' # "LISTEN"
        BY <1>2, <1>7, <1>9
      <3>2. Refused'
        BY <1>2, <2>5, <3>1 DEF Refused
      <3> QED
        BY <1>9, <1>10, <2>2, <2>3, <3>2, OrderMoved
    <2>6. CASE app.rcv > 0 /\ connecting /\ Continued
      <3>1. PICK j \in Nat \ {0} : j = reach /\ j \in 1 .. app.total + 1
        BY <1>2, <2>6 DEF Continued
      <3>2. upstream' = Run(1, j) /\ Uint(remote_seq' - app.isn) = j
        BY <2>2, <2>6, <3>1 DEF Continued, reach
      <3> QED
        BY <1>9, <1>10, <2>2, <3>1, <3>2, OrderMoved
    <2> QED
      BY <1>2, <1>12, <2>4, <2>5, <2>6 DEF OrderInv, Onward, Ended
  <1>13. CASE app.rcv > 0 /\ ~connecting /\ Ended
    <2>1. forward = <<>> /\ state \in {"CLOSE_WAIT", "CLOSING"}
      BY <1>2, <1>13 DEF Ended
    <2>2. c.whole = 0 /\ c.part = 0
      <3>1. Len(forward) = 0
        BY <2>1
      <3>2. c.whole \in 0 .. 0 /\ c.part \in Nat /\ ~(c.part > 0)
        BY <1>2, <3>1, ChoiceType
      <3> QED
        BY <3>2
    <2>3. forward' = <<>> /\ forward' \in Seq(Piece)
      BY <1>2, <1>11, <2>1, <2>2
    <2>4. PICK k \in Nat \ {0} : upstream' = Run(1, k)
      BY <1>11, <2>2
    <2>5. state' \in {"CLOSE_WAIT", "LAST_ACK", "CLOSING", "CLOSE"}
      BY <1>7, <1>9, <2>1
    <2>6. Ended'
      BY <1>2, <1>13, <2>3, <2>5 DEF Ended
    <2> QED
      BY <1>9, <1>10, <2>3, <2>4, <2>6, OrderMoved
  <1>14. CASE app.rcv > 0 /\ ~connecting /\ Continued
    <2>1. reach \in 1 .. app.total + 1 /\ upstream = Run(1, reach)
      BY <1>14 DEF Continued
    <2>2. PICK y \in reach .. app.total + 1 :
            Uint(f.seq - app.isn) = y /\ f.bytes = Run(reach, y)
      BY <1>2, <1>3, <2>1, ForwardsRun
    <2>3. y \in Nat \ {0} /\ y \in 1 .. app.total + 1
      BY <1>2, <2>1
    <2>4. upstream' = Run(1, y)
      <3>1. PICK x \in Nat : x = reach /\ 1 <= x /\ x <= y
        BY <1>2, <2>1, <2>2
      <3>2. Run(1, x) \o Run(x, y) = Run(1, y)
        BY <2>3, <3>1, RunsMeet
      <3> QED
        BY <1>8, <2>1, <2>2, <3>1, <3>2
    <2>5. forward' \in Seq(Piece)
      BY <1>2, <1>3, <1>8, <2>1, ForwardsPieces
    <2>6. CASE r = f.seq
      BY <1>9, <1>10, <2>2, <2>3, <2>4, <2>5, <2>6, OrderMoved
    <2>7. CASE forward' = <<>> /\ state = "CLOSE_WAIT"
      <3>1. state' \in {"CLOSE_WAIT", "LAST_ACK", "CLOSING", "CLOSE"}
        BY <1>7, <1>9, <2>7
      <3>2. Ended'
        BY <1>2, <1>14, <2>7, <3>1 DEF Ended
      <3> QED
        BY <1>9, <1>10, <2>3, <2>4, <2>5, <3>2, OrderMoved
    <2> QED
      BY <1>5, <1>8, <2>6, <2>7
  <1> QED
    BY <1>2, <1>12, <1>13, <1>14 DEF OrderInv, Onward, Refused

\* A report for the socket keeps the invariant.
LEMMA OrderEvent ==
  ASSUME TypeOK, SocketInv, ConnectInv, OrderInv, InOrder, check_tcp_socket
  PROVE  OrderInv'
  <1>1. /\ registered /\ socket /\ UNCHANGED <<phase, registered, dest>> /\ phase = "dispatch"
        /\ remote_seq \in Seq32 /\ app \in AppType
    BY DEF SocketInv, check_tcp_socket, TypeOK
  <1>2. CASE \/ SocketError
             \/ /\ ConnectReply /\ UNCHANGED connect_sent
                /\ write_rst(app, state, remote_seq, "CONNECT refused")
    <2>1. /\ UNCHANGED <<connect_sent, forward, upstream>>
          /\ \E why : write_rst(app, state, remote_seq, why)
      BY <1>2 DEF SocketError, ConnectReply
    <2>2. /\ SameSource(app, app') /\ state' \in {"CLOSE", "CLOSING"}
          /\ state # "LISTEN" => remote_seq' = remote_seq
      BY <1>1, <2>1, RstOrder
    <2>3. connecting' = connecting
      BY <1>1, <2>1 DEF connecting
    <2>4. Ended => Ended'
      BY <2>1, <2>2, <2>3 DEF Ended
    <2>5. connecting /\ connect_sent = "SENT" => Refused'
      BY <2>1, <2>2, <2>3 DEF Refused
    <2>6. app.rcv > 0 => (connecting /\ connect_sent = "SENT") \/ state # "LISTEN"
      BY <1>1 DEF ConnectInv, Unanswered, connecting, AppType
    <2> QED
      BY <1>1, <2>1, <2>2, <2>4, <2>5, <2>6, OrderKept DEF OrderInv, Queued, Onward, Refused
  <1>3. CASE /\ ConnectReply /\ connect_sent = "SENT" /\ state' = "SYN_RECV"
             /\ UNCHANGED <<app, remote_seq, cause>>
    <2>1. state = "LISTEN" /\ UNCHANGED <<forward, upstream>> /\ SameSource(app, app')
      BY <1>3 DEF ConnectReply, answered, SameSource
    <2>2. app.rcv > 0 => dest = 443 /\ connecting
      BY <1>1, <1>3, <2>1 DEF ConnectInv, Unanswered, connecting, AppType
    <2>3. app.rcv > 0 => Continued
      BY <1>1, <2>1, <2>2 DEF OrderInv, Onward, Ended, Refused
    <2> QED
      BY <1>1, <1>3, <2>1, <2>3, OrderKept DEF OrderInv, Queued
  <1>4. CASE Connected
    BY <1>1, <1>4, ConnectedOrder
  <1>5. CASE Transfer
    BY <1>1, <1>5, TransferOrder
  <1> QED
    BY <1>2, <1>3, <1>4, <1>5 DEF check_tcp_socket, ConnectReply

-----------------------------------------------------------------------------
(* The loop's round. *)

\* Rounds send nothing and queue nothing; they may only close the session.
LEMMA OrderRound ==
  ASSUME TypeOK, OrderInv, monitor_tcp_session \/ check_tcp_session
  PROVE  OrderInv'
  <1>1. /\ UNCHANGED <<dest, connect_sent, remote_seq, forward, upstream>>
        /\ registered' => registered
        /\ state' \in {state, "CLOSING", "CLOSE"}
    <2>1. CASE monitor_tcp_session
      <3>1. UNCHANGED <<registered, dest, connect_sent, seqs, forward, history>>
        BY <2>1 DEF monitor_tcp_session
      <3>2. state' \in {state, "CLOSING"}
        BY <2>1 DEF monitor_tcp_session
      <3> QED
        BY <3>1, <3>2 DEF seqs, history
    <2>2. CASE check_tcp_session
      <3>1. UNCHANGED <<dest, connect_sent, seqs, forward, upstream>>
        BY <2>2 DEF check_tcp_session
      <3>2. state' \in {state, "CLOSE"}
        BY <2>2 DEF check_tcp_session, Expire, CloseSocket, Delete, CheckNothing
      <3>3. UNCHANGED registered \/ ~registered'
        BY <2>2 DEF check_tcp_session, Expire, CloseSocket, Delete, CheckNothing
      <3>4. registered' => registered
        BY <3>3
      <3> QED
        BY <3>1, <3>2, <3>4 DEF seqs
    <2> QED
      BY <2>1, <2>2
  <1>2. local_seq \in Seq32 /\ remote_seq \in Seq32 /\ Uint(remote_seq - 1) \in Seq32
        /\ app \in AppType
    BY StepType DEF TypeOK
  <1>3. SameSource(app, app')
    <2>1. app' \in {app, Receive(app, write_tcp({"ACK"}, local_seq, Uint(remote_seq - 1), 0)),
                         Receive(app, write_tcp({"RST"}, local_seq, remote_seq, 0))}
      BY DEF monitor_tcp_session, check_tcp_session, Expire, CloseSocket, Delete, CheckNothing
    <2>2. /\ SameSource(app, Receive(app, write_tcp({"ACK"}, local_seq, Uint(remote_seq - 1), 0)))
          /\ SameSource(app, Receive(app, write_tcp({"RST"}, local_seq, remote_seq, 0)))
      BY <1>2, AckSource
    <2>3. SameSource(app, app)
      BY DEF SameSource
    <2> QED
      BY <2>1, <2>2, <2>3
  <1>4. connecting' = connecting
    BY <1>1 DEF connecting
  <1>5. (Ended => Ended') /\ (Refused => Refused')
    BY <1>1, <1>4 DEF Ended, Refused
  <1> QED
    BY <1>1, <1>3, <1>5, OrderKept DEF OrderInv, Queued, Onward

\* Nothing is forwarded at the start.
LEMMA OrderInit == Init => OrderInv
  <1> SUFFICES ASSUME Init PROVE OrderInv
    OBVIOUS
  <1>1. app.total \in Totals
    BY DEF Init, AppInit
  <1>2. ~registered /\ upstream = Run(1, 1)
    BY DEF Init, Run
  <1> QED
    BY <1>1, <1>2 DEF OrderInv, Queued, Onward

\* The order of the stream is kept by every step.
LEMMA OrderStep ==
  ASSUME InOrder, TypeOK, SocketInv, ConnectInv, OrderInv, [Next]_vars
  PROVE  OrderInv'
  <1>1. CASE UNCHANGED vars
    BY <1>1 DEF vars, link, seqs, history, OrderInv, Queued, Onward, Piece, place, Continued,
      reach, Ended, Refused, connecting
  <1>2. CASE Next
    BY <1>2, OrderTun, OrderEvent, OrderRound DEF Next
  <1> QED
    BY <1>1, <1>2

\* The server is given the app's bytes in order, each once, over every port but 80, however
\* the app's segments are cut, repeated, overtaken or lost, tun and the proxy refuse, and
\* the session is closed, as long as send does not fail (run tcp_send_error shows what
\* happens otherwise) and a connection does not carry so much that its numbers come round.
\* On port 80 it is false: after a partial send of a request that patch_http_url has made
\* longer, bytes count as sent that were not.
THEOREM OrderAlways ==
  ASSUME "send" \notin Faults, 80 \notin Ports, \A n \in Totals : n + 1 < Wrap
  PROVE  Spec => []ForwardedInOrder
  <1>1. InOrder
    BY DEF InOrder
  <1>2. TypeOK /\ SocketInv /\ ConnectInv /\ OrderInv /\ [Next]_vars => OrderInv'
    BY <1>1, OrderStep
  <1>3. OrderInv => ForwardedInOrder
    <2> SUFFICES ASSUME OrderInv PROVE ForwardedInOrder
      OBVIOUS
    <2>1. PICK k \in Nat \ {0} : upstream = Run(1, k)
      BY DEF OrderInv
    <2>2. Len(upstream) = k - 1
      <3>1. k \in Nat /\ 1 \in Nat /\ 1 <= k
        BY <2>1
      <3>2. Len(Run(1, k)) = k - 1
        BY <3>1, RunType
      <3> QED
        BY <2>1, <3>2
    <2>3. \A b \in 1 .. k - 1 : 1 + b - 1 = b
      OBVIOUS
    <2> QED
      BY <2>1, <2>2, <2>3 DEF ForwardedInOrder, Run
  <1> QED
    BY <1>2, <1>3, OrderInit, TypeCorrect, ConnectHolds, PTL DEF Spec
=============================================================================
