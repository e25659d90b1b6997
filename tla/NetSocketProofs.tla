--------------------------- MODULE NetSocketProofs ---------------------------
(***************************************************************************)
(* Proofs about NetSocket, for any number of addresses, connect() calls,   *)
(* chunks and program calls, of a program that does not connect again in   *)
(* the callback that saw 'close'.                                          *)
(***************************************************************************)
EXTENDS NetSocket, SequenceTheorems, FiniteSetTheorems, TLAPS

\* The values of a sequence.
On(s) == {s[i] : i \in 1 .. Len(s)}

----------------
(***************************************************************************)
(* The shape of the stack.  Listeners and what their calls leave to do are *)
(* above everything else; below them is one handler, or a handler inside   *)
(* an event loop, or either inside onReady.                                *)
(***************************************************************************)
Inner == {"call", "resume", "destroying"}
InDispatch == {"finished", "ended"}
InReady == {"finished", "ended", "dispatch", "attempt", "won", "failed", "attempting"}

Above(f, g) ==
    \/ f \in Inner /\ g # "attempt"
    \/ f \in InDispatch /\ g = "dispatch"
    \/ f \in InReady /\ g = "ready"

Shaped(s) == \A i, j \in 1 .. Len(s) : i < j => Above(s[i].fn, s[j].fn)

----------------
(* One connect() call, one round of attempts *)

Looks(f) == f.fn \in {"looked", "lookedOne", "lookFailed"}
Begins(j) == j.kind \in {"begin", "lookFailed"}

OneBegin(q) ==
    \A i, j \in 1 .. Len(q) : Begins(q[i]) /\ Begins(q[j]) /\ q[i].gen = q[j].gen => i = j

FrameTyped(f) ==
    /\ f.gen <= sock.gen
    /\ f.fn \in {"attempting", "timedOut", "failed", "won", "attempt", "ready"} => f.n \in Id
    /\ Looks(f) => f.n \in 1 .. NTargets

JobTyped(j) == j.gen <= sock.gen /\ (j.kind = "createFailed" => j.n \in Id)

Typed ==
    /\ made.write <= made.call
    /\ \A f \in On(stack) : FrameTyped(f)
    /\ \A j \in On(jobs) : JobTyped(j)
    /\ \A l \in lookups : l.gen <= sock.gen

\* A connect() has its lookup, the continuation of its lookup, or the microtask that begins its attempts.
OneStart ==
    /\ \A l, m \in lookups : l.gen = m.gen => l = m
    /\ OneBegin(jobs)
    /\ \A l \in lookups, f \in On(stack) : Looks(f) => f.gen # l.gen
    /\ \A l \in lookups, j \in On(jobs) : Begins(j) => j.gen # l.gen
    /\ \A f \in On(stack), j \in On(jobs) : Looks(f) /\ Begins(j) => f.gen # j.gen
    /\ sock.targets # 0 =>
          /\ \A l \in lookups : l.gen # sock.gen
          /\ \A f \in On(stack) : Looks(f) => f.gen # sock.gen
          /\ \A j \in On(jobs) : Begins(j) => j.gen # sock.gen

\* The attempts that the current connect() may still make.
Left == IF ~sock.connecting THEN 0 ELSE IF sock.targets = 0 THEN NTargets ELSE sock.targets - sock.next

Bounded ==
    /\ sock.targets \in 0 .. NTargets /\ sock.next \in 0 .. sock.targets
    /\ made.attempt + Left <= made.epoch * NTargets

----------------
(* The socket and its connections *)

Racing == sock.attempts \ settled

SockInv ==
    /\ sock.destroyed => ~sock.connecting
    /\ sock.native # NoId => ~sock.connecting /\ sock.native \in settled /\ nat[sock.native].socket
    /\ sock.attempts # {} => sock.connecting
    /\ sock.attempts \subseteq 1 .. made.attempt /\ settled \subseteq 1 .. made.attempt
    /\ sock.closeEmitted => sock.destroyed
    /\ \A j \in On(jobs) : j.kind = "close" => sock.destroyed
    /\ \A f \in On(stack) : f.fn = "destroying" => sock.destroyed /\ ~sock.closeEmitted

\* An attempt that is about to create its connection, and one whose connection could not be created.
Uncreated ==
    /\ \A f \in On(stack) : f.fn = "attempting" =>
          /\ f.n \in 1 .. made.attempt /\ nat[f.n] = NoConnection
          /\ \A j \in On(jobs) : j.kind = "createFailed" => j.n # f.n
          /\ ~Retired(f.gen) => f.n \in Racing
    /\ \A j \in On(jobs) : j.kind = "createFailed" => j.n \in 1 .. made.attempt /\ nat[j.n] = NoConnection

\* A connection that lost, failed, or is still racing: nothing was written to it or read from it.
Bare(c) ==
    /\ c.chunks = <<>> /\ c.rx = <<>> /\ c.sent = <<>> /\ c.out = <<>>
    /\ ~c.endRequested /\ ~c.peerEnded /\ ~c.finished

DataAt(s) == {i \in 1 .. Len(s) : s[i] = "data"}

\* 'error' and 'close' come from a connection that is closing, and every 'data' has its chunk.
EventsOK(c) ==
    /\ \A e \in On(c.events) : e \in {"error", "close"} => c.closing
    /\ Cardinality(DataAt(c.events)) = Len(c.chunks)

ConnOK(k, c) ==
    /\ k > made.attempt => c = NoConnection
    /\ c.socket => k \in settled
    /\ ~c.socket => Bare(c)
    /\ c.life = "none" => c = NoConnection
    /\ EventsOK(c)

Conns == \A k \in Id : ConnOK(k, nat[k])

----------------
(***************************************************************************)
(* NoLeak inside callbacks: an open connection is the socket's, or races,  *)
(* or is closing with the rest of its onReady to come, or is about to be   *)
(* destroyed after the 'error' listeners.                                  *)
(***************************************************************************)
ReadyFor(k) == \E f \in On(stack) : f.fn = "ready" /\ f.n = k
Holds(fn) == \E f \in On(stack) : f.fn = fn

Owned(k) ==
    \/ k = sock.native /\ ~sock.destroyed
    \/ k \in Racing
    \/ nat[k].closing /\ ReadyFor(k)
    \/ k = sock.native /\ Holds("destroying")

OpenOK(k) ==
    nat[k].life = "open" =>
        /\ Owned(k)
        /\ nat[k].closing => ReadyFor(k)
        /\ ~nat[k].connecting /\ k \notin settled => \E f \in On(stack) : f.fn = "attempt" /\ f.n = k

AttemptOK == \A f \in On(stack) : f.fn = "attempt" => f.n \in Racing /\ nat[f.n].life = "open"

\* The peer's end is answered by end() before onReady returns.
EndAnswered ==
    sock.native # NoId /\ ~sock.destroyed =>
        LET c == nat[sock.native] IN
        /\ sock.ready = "readOnly" => c.endRequested \/ c.closing
        /\ c.life = "open" /\ c.peerEnded /\ ~c.endRequested /\ ~c.closing =>
              /\ ReadyFor(sock.native)
              /\ \/ "end" \in On(c.events) /\ Holds("dispatch")
                 \/ Holds("ended") /\ sock.ready = "writeOnly"

Leaks == (\A k \in Id : OpenOK(k)) /\ AttemptOK /\ EndAnswered

----------------
(* The data *)

\* What the peer sent the socket, in the order it was sent: delivered, held, read, and not yet read.
Stream ==
    got \o sock.held \o (IF sock.native = NoId THEN <<>> ELSE nat[sock.native].chunks \o nat[sock.native].rx)

Ordered(s, n) ==
    /\ \A i \in 1 .. Len(s) : s[i] <= n
    /\ \A i, j \in 1 .. Len(s) : i < j => s[i] # Fin /\ (s[j] # Fin => s[i] < s[j])

\* Held chunks wait for resume(), or its loop is running: by Shaped no event loop is above it.
HeldOK ==
    sock.held # <<>> /\ ~sock.paused => Holds("resume")

DataInv ==
    /\ Ordered(Stream, made.chunk)
    /\ Fin \notin On(got) /\ Fin \notin On(sock.held)
    /\ sock.native # NoId => Fin \notin On(nat[sock.native].chunks)
    /\ HeldOK

----------------

SocketInv ==
    /\ TypeOK /\ Shaped(stack) /\ Typed /\ OneStart /\ Bounded
    /\ SockInv /\ Uncreated /\ Conns /\ Leaks /\ WritesKept /\ DataInv
----------------
(* Sequences *)

LEMMA OnPush ==
    ASSUME NEW S, NEW f \in S, NEW s \in Seq(S)
    PROVE  <<f>> \o s \in Seq(S) /\ On(<<f>> \o s) = {f} \cup On(s)
<1> DEFINE t == <<f>> \o s
<1>1. <<f>> \in Seq(S) /\ Len(<<f>>) = 1 /\ <<f>>[1] = f /\ Len(s) \in Nat
  OBVIOUS
<1>2. /\ t \in Seq(S) /\ Len(t) = Len(s) + 1 /\ t[1] = f
      /\ \A i \in 1 .. Len(s) : t[i + 1] = s[i]
  BY <1>1, ConcatProperties
<1>3. \A i \in 1 .. Len(t) : i = 1 \/ (i - 1 \in 1 .. Len(s) /\ t[i] = s[i - 1])
  BY <1>1, <1>2
<1>4. \A i \in 1 .. Len(s) : i + 1 \in 1 .. Len(t)
  BY <1>1, <1>2
<1>5. 1 \in 1 .. Len(t)
  BY <1>1, <1>2
<1> HIDE DEF t
<1>6. On(t) \subseteq {f} \cup On(s)
  BY <1>2, <1>3 DEF On
<1>7. {f} \cup On(s) \subseteq On(t)
  BY <1>2, <1>4, <1>5 DEF On
<1>8. On(t) = {f} \cup On(s)
  BY <1>6, <1>7
<1> QED BY <1>2, <1>8 DEF t

LEMMA OnPop ==
    ASSUME NEW S, NEW s \in Seq(S), s # <<>>
    PROVE  s[1] \in S /\ Head(s) = s[1] /\ Tail(s) \in Seq(S) /\ On(s) = {s[1]} \cup On(Tail(s))
<1>1. /\ s[1] \in S /\ Head(s) = s[1] /\ Tail(s) \in Seq(S) /\ Len(Tail(s)) = Len(s) - 1 /\ Len(s) \in Nat \ {0}
      /\ \A i \in 1 .. Len(s) - 1 : Tail(s)[i] = s[i + 1]
  OBVIOUS
<1>2. \A i \in 1 .. Len(s) : i = 1 \/ (i - 1 \in 1 .. Len(Tail(s)) /\ s[i] = Tail(s)[i - 1])
  BY <1>1
<1>3. \A i \in 1 .. Len(Tail(s)) : i + 1 \in 1 .. Len(s)
  BY <1>1
<1>4. On(s) \subseteq {s[1]} \cup On(Tail(s))
  BY <1>1, <1>2 DEF On
<1>5. {s[1]} \cup On(Tail(s)) \subseteq On(s)
  BY <1>1, <1>3 DEF On
<1>6. On(s) = {s[1]} \cup On(Tail(s))
  BY <1>4, <1>5
<1> QED BY <1>1, <1>6

LEMMA OnConcat ==
    ASSUME NEW S, NEW s \in Seq(S), NEW t \in Seq(S)
    PROVE  s \o t \in Seq(S) /\ On(s \o t) = On(s) \cup On(t)
<1>1. /\ s \o t \in Seq(S) /\ Len(s \o t) = Len(s) + Len(t) /\ Len(s) \in Nat /\ Len(t) \in Nat
      /\ \A i \in 1 .. Len(s) + Len(t) : (s \o t)[i] = IF i <= Len(s) THEN s[i] ELSE t[i - Len(s)]
  BY ConcatProperties, LenProperties
<1>2. \A i \in 1 .. Len(s \o t) : \/ i \in 1 .. Len(s) /\ (s \o t)[i] = s[i]
                                  \/ i - Len(s) \in 1 .. Len(t) /\ (s \o t)[i] = t[i - Len(s)]
  BY <1>1
<1>3. \A i \in 1 .. Len(s) : i \in 1 .. Len(s \o t) /\ (s \o t)[i] = s[i]
  BY <1>1
<1>4. \A i \in 1 .. Len(t) : Len(s) + i \in 1 .. Len(s \o t) /\ (s \o t)[Len(s) + i] = t[i]
  BY <1>1
<1> DEFINE u == s \o t
<1> HIDE DEF u
<1>5. On(u) \subseteq On(s) \cup On(t)
  BY <1>2 DEF On, u
<1>6. On(s) \cup On(t) \subseteq On(u)
  BY <1>3, <1>4 DEF On, u
<1>7. On(u) = On(s) \cup On(t)
  BY <1>5, <1>6
<1> QED BY <1>1, <1>7 DEF u

LEMMA OnOne == \A x : On(<<x>>) = {x}
<1>1. \A x : Len(<<x>>) = 1 /\ <<x>>[1] = x /\ 1 .. 1 = {1}
  OBVIOUS
<1> QED BY <1>1 DEF On

LEMMA OnNone == On(<<>>) = {}
<1>1. 1 .. Len(<<>>) = {}
  OBVIOUS
<1> QED BY <1>1 DEF On

LEMMA OnAppend ==
    ASSUME NEW S, NEW s \in Seq(S), NEW x \in S
    PROVE  Append(s, x) \in Seq(S) /\ On(Append(s, x)) = On(s) \cup {x}
<1>1. Append(s, x) = s \o <<x>> /\ <<x>> \in Seq(S)
  BY AppendIsConcat
<1>2. s \o <<x>> \in Seq(S) /\ On(s \o <<x>>) = On(s) \cup On(<<x>>)
  BY <1>1, OnConcat
<1>3. On(<<x>>) = {x}
  BY OnOne
<1> QED BY <1>1, <1>2, <1>3

LEMMA OnIn ==
    ASSUME NEW S, NEW s \in Seq(S)
    PROVE  /\ On(s) \subseteq S
           /\ \A i \in 1 .. Len(s) : s[i] \in On(s)
           /\ \A i \in DOMAIN s : s[i] \in On(s)
BY LenProperties, ElementOfSeq DEF On

LEMMA MoveHead ==
    ASSUME NEW S, NEW s \in Seq(S), NEW t \in Seq(S), t # <<>>
    PROVE  Append(s, Head(t)) \o Tail(t) = s \o t
<1>1. Append(s, Head(t)) \in Seq(S) /\ Tail(t) \in Seq(S) /\ Len(Tail(t)) = Len(t) - 1 /\ Len(t) > 0
      /\ Len(s) \in Nat /\ Len(t) \in Nat
  OBVIOUS
<1>2. \A i \in 1 .. Len(t) - 1 : Tail(t)[i] = t[i + 1]
  OBVIOUS
<1>3. Len(Append(s, Head(t)) \o Tail(t)) = Len(s \o t)
  BY <1>1
<1>4. \A i \in 1 .. Len(s \o t) : (Append(s, Head(t)) \o Tail(t))[i] = (s \o t)[i]
  BY <1>1, <1>2
<1> QED BY <1>1, <1>3, <1>4, SeqEqual, ConcatProperties

LEMMA Assoc == \A s, t, u \in Seq(Nat) : s \o t \in Seq(Nat) /\ (s \o t) \o u = s \o (t \o u)
<1> SUFFICES ASSUME NEW s \in Seq(Nat), NEW t \in Seq(Nat), NEW u \in Seq(Nat)
             PROVE  s \o t \in Seq(Nat) /\ (s \o t) \o u = s \o (t \o u)
  OBVIOUS
<1>1. (s \o t) \o u = s \o (t \o u)
  BY ConcatAssociative
<1> QED BY <1>1, ConcatProperties

\* A frame is pushed, the top frame is popped.
LEMMA ShapePush ==
    ASSUME NEW f \in Frame, NEW s \in Seq(Frame), Shaped(s), \A g \in On(s) : Above(f.fn, g.fn)
    PROVE  /\ <<f>> \o s \in Seq(Frame) /\ Shaped(<<f>> \o s) /\ On(<<f>> \o s) = {f} \cup On(s)
<1> DEFINE t == <<f>> \o s
<1>1. t \in Seq(Frame) /\ On(t) = {f} \cup On(s)
  BY OnPush
<1>2. <<f>> \in Seq(Frame) /\ Len(<<f>>) = 1 /\ <<f>>[1] = f /\ Len(s) \in Nat
  OBVIOUS
<1>3. /\ Len(t) = Len(s) + 1 /\ t[1] = f
      /\ \A i \in 1 .. Len(s) : t[i + 1] = s[i]
  BY <1>2, ConcatProperties
<1>4. \A i \in 1 .. Len(t) : i = 1 \/ (i - 1 \in 1 .. Len(s) /\ t[i] = s[i - 1])
  BY <1>2, <1>3
<1> HIDE DEF t
<1>5. \A i \in 1 .. Len(s) : s[i] \in On(s)
  BY DEF On
<1>6. ASSUME NEW i \in 1 .. Len(t), NEW j \in 1 .. Len(t), i < j
      PROVE  Above(t[i].fn, t[j].fn)
  <2>1. j # 1 /\ j - 1 \in 1 .. Len(s) /\ t[j] = s[j - 1]
    BY <1>2, <1>3, <1>4, <1>6
  <2>2. CASE i = 1
    BY <2>1, <2>2, <1>3, <1>5
  <2>3. CASE i # 1
    <3>1. i - 1 \in 1 .. Len(s) /\ t[i] = s[i - 1] /\ i - 1 < j - 1
      BY <1>2, <1>3, <1>4, <1>6, <2>3
    <3> QED BY <3>1, <2>1 DEF Shaped
  <2> QED BY <2>2, <2>3
<1>7. Shaped(t)
  BY <1>6 DEF Shaped
<1> QED BY <1>1, <1>7 DEF t

LEMMA ShapePop ==
    ASSUME NEW s \in Seq(Frame), Shaped(s), s # <<>>
    PROVE  /\ s[1] \in Frame /\ Tail(s) \in Seq(Frame) /\ Shaped(Tail(s)) /\ On(s) = {s[1]} \cup On(Tail(s))
           /\ \A g \in On(Tail(s)) : Above(s[1].fn, g.fn)
<1>1. s[1] \in Frame /\ Tail(s) \in Seq(Frame) /\ On(s) = {s[1]} \cup On(Tail(s))
  BY OnPop
<1>2. /\ Len(Tail(s)) = Len(s) - 1 /\ Len(s) \in Nat \ {0}
      /\ \A i \in 1 .. Len(s) - 1 : Tail(s)[i] = s[i + 1]
  OBVIOUS
<1>3. Shaped(Tail(s))
  <2> SUFFICES ASSUME NEW i \in 1 .. Len(Tail(s)), NEW j \in 1 .. Len(Tail(s)), i < j
               PROVE  Above(Tail(s)[i].fn, Tail(s)[j].fn)
    BY DEF Shaped
  <2>1. i + 1 \in 1 .. Len(s) /\ j + 1 \in 1 .. Len(s) /\ i + 1 < j + 1
    BY <1>2
  <2>2. Above(s[i + 1].fn, s[j + 1].fn)
    BY <2>1 DEF Shaped
  <2> QED BY <1>2, <2>2
<1>4. ASSUME NEW g \in On(Tail(s)) PROVE Above(s[1].fn, g.fn)
  <2>1. PICK i \in 1 .. Len(Tail(s)) : g = Tail(s)[i]
    BY DEF On
  <2>2. i + 1 \in 1 .. Len(s) /\ 1 \in 1 .. Len(s) /\ 1 < i + 1 /\ g = s[i + 1]
    BY <1>2, <2>1
  <2> QED BY <2>2 DEF Shaped
<1> QED BY <1>1, <1>3, <1>4

LEMMA ShapeNone == <<>> \in Seq(Frame) /\ Shaped(<<>>) /\ On(<<>>) = {}
<1>1. 1 .. Len(<<>>) = {}
  OBVIOUS
<1> QED BY <1>1, OnNone DEF Shaped

\* The queue of microtasks: the first is taken, one is added, at most one of them begins a round of attempts.
LEMMA QueueTail ==
    ASSUME NEW q \in Seq(Job), OneBegin(q), q # <<>>
    PROVE  /\ Tail(q) \in Seq(Job) /\ OneBegin(Tail(q)) /\ Head(q) \in Job /\ On(q) = {Head(q)} \cup On(Tail(q))
           /\ Begins(Head(q)) => \A j \in On(Tail(q)) : Begins(j) => j.gen # Head(q).gen
<1>1. Head(q) \in Job /\ Head(q) = q[1] /\ Tail(q) \in Seq(Job) /\ On(q) = {q[1]} \cup On(Tail(q))
  BY OnPop
<1>2. /\ Len(Tail(q)) = Len(q) - 1 /\ Len(q) \in Nat \ {0}
      /\ \A i \in 1 .. Len(q) - 1 : Tail(q)[i] = q[i + 1]
  OBVIOUS
<1>3. OneBegin(Tail(q))
  <2> SUFFICES ASSUME NEW i \in 1 .. Len(Tail(q)), NEW j \in 1 .. Len(Tail(q)),
                      Begins(Tail(q)[i]), Begins(Tail(q)[j]), Tail(q)[i].gen = Tail(q)[j].gen
               PROVE  i = j
    BY DEF OneBegin
  <2>1. i + 1 \in 1 .. Len(q) /\ j + 1 \in 1 .. Len(q) /\ Tail(q)[i] = q[i + 1] /\ Tail(q)[j] = q[j + 1]
    BY <1>2
  <2>2. i + 1 = j + 1
    BY <2>1 DEF OneBegin
  <2> QED BY <2>2
<1>4. ASSUME NEW j \in On(Tail(q)), Begins(Head(q)), Begins(j) PROVE j.gen # Head(q).gen
  <2>1. PICK i \in 1 .. Len(Tail(q)) : j = Tail(q)[i]
    BY DEF On
  <2>2. i + 1 \in 1 .. Len(q) /\ 1 \in 1 .. Len(q) /\ 1 # i + 1 /\ j = q[i + 1]
    BY <1>2, <2>1
  <2> QED BY <1>1, <1>4, <2>2 DEF OneBegin
<1> QED BY <1>1, <1>3, <1>4

LEMMA QueueAppend ==
    ASSUME NEW q \in Seq(Job), OneBegin(q), NEW x \in Job,
           Begins(x) => \A j \in On(q) : Begins(j) => j.gen # x.gen
    PROVE  Append(q, x) \in Seq(Job) /\ OneBegin(Append(q, x)) /\ On(Append(q, x)) = On(q) \cup {x}
<1>1. Append(q, x) \in Seq(Job) /\ On(Append(q, x)) = On(q) \cup {x}
  BY OnAppend
<1> DEFINE r == Append(q, x)
<1>2. Len(r) = Len(q) + 1 /\ Len(q) \in Nat /\ r[Len(q) + 1] = x /\ \A i \in 1 .. Len(q) : r[i] = q[i]
  BY AppendProperties
<1> HIDE DEF r
<1>3. \A i \in 1 .. Len(r) : (i \in 1 .. Len(q) /\ r[i] = q[i] /\ r[i] \in On(q)) \/ (i = Len(q) + 1 /\ r[i] = x)
  BY <1>2 DEF On
<1>4. OneBegin(r)
  BY <1>3 DEF OneBegin
<1> QED BY <1>1, <1>4 DEF r
----------------
(* Counting the 'data' events of a queue *)

LEMMA CountFinite ==
    ASSUME NEW s \in Seq(Code)
    PROVE  IsFiniteSet(DataAt(s)) /\ Cardinality(DataAt(s)) \in Nat
<1>1. IsFiniteSet(1 .. Len(s)) /\ DataAt(s) \subseteq 1 .. Len(s)
  BY FS_Interval, LenProperties DEF DataAt
<1> QED BY <1>1, FS_Subset, FS_CardinalityType

LEMMA CountPlain ==
    ASSUME NEW s \in Seq(Code), NEW t \in Seq(Code), "data" \notin On(t)
    PROVE  Cardinality(DataAt(s \o t)) = Cardinality(DataAt(s))
<1>1. /\ Len(s \o t) = Len(s) + Len(t) /\ Len(s) \in Nat /\ Len(t) \in Nat
      /\ \A i \in 1 .. Len(s) + Len(t) : (s \o t)[i] = IF i <= Len(s) THEN s[i] ELSE t[i - Len(s)]
  BY ConcatProperties, LenProperties
<1>2. \A i \in 1 .. Len(t) : t[i] # "data"
  BY DEF On
<1>3. \A i : i \in DataAt(s \o t) <=> i \in DataAt(s)
  BY <1>1, <1>2 DEF DataAt
<1>4. DataAt(s \o t) = DataAt(s)
  BY <1>3
<1> QED BY <1>4

LEMMA CountData ==
    ASSUME NEW s \in Seq(Code), NEW m \in Nat
    PROVE  LET t == [j \in 1 .. m |-> "data"]
           IN  /\ t \in Seq(Code) /\ Len(t) = m
               /\ On(s \o t) \subseteq On(s) \cup {"data"}
               /\ Cardinality(DataAt(s \o t)) = Cardinality(DataAt(s)) + m
<1> DEFINE t == [j \in 1 .. m |-> "data"]
<1>1. t \in Seq(Code) /\ Len(t) = m /\ \A j \in 1 .. m : t[j] = "data"
  BY DEF Code
<1> HIDE DEF t
<1>2. /\ Len(s \o t) = Len(s) + m /\ Len(s) \in Nat
      /\ \A i \in 1 .. Len(s) + m : (s \o t)[i] = IF i <= Len(s) THEN s[i] ELSE t[i - Len(s)]
  BY <1>1, ConcatProperties, LenProperties
<1>3. On(t) \subseteq {"data"}
  BY <1>1 DEF On
<1>4. On(s \o t) \subseteq On(s) \cup {"data"}
  BY <1>1, <1>3, OnConcat
<1>5. \A i : i \in DataAt(s \o t) <=> i \in DataAt(s) \cup (Len(s) + 1 .. Len(s) + m)
  BY <1>1, <1>2 DEF DataAt
<1>6. DataAt(s \o t) = DataAt(s) \cup (Len(s) + 1 .. Len(s) + m)
  BY <1>5
<1>7. DataAt(s) \cap (Len(s) + 1 .. Len(s) + m) = {}
  BY <1>2 DEF DataAt
<1>8. IsFiniteSet(Len(s) + 1 .. Len(s) + m) /\ Cardinality(Len(s) + 1 .. Len(s) + m) = m
  <2>1. Len(s) + 1 \in Int /\ Len(s) + m \in Int
    BY <1>2
  <2>2. /\ IsFiniteSet(Len(s) + 1 .. Len(s) + m)
        /\ Cardinality(Len(s) + 1 .. Len(s) + m)
              = IF Len(s) + 1 > Len(s) + m THEN 0 ELSE (Len(s) + m) - (Len(s) + 1) + 1
    BY <2>1, FS_Interval
  <2> QED BY <2>2, <1>2
<1>9. Cardinality(DataAt(s \o t)) = Cardinality(DataAt(s)) + m
  <2> DEFINE I == Len(s) + 1 .. Len(s) + m
             D == DataAt(s)
  <2>1. IsFiniteSet(D) /\ Cardinality(D) \in Nat
    BY CountFinite
  <2>2. IsFiniteSet(I) /\ Cardinality(I) = m /\ D \cap I = {} /\ DataAt(s \o t) = D \cup I
    BY <1>6, <1>7, <1>8
  <2> HIDE DEF I, D
  <2>3. Cardinality(D \cup I) = Cardinality(D) + Cardinality(I) - Cardinality(D \cap I)
    BY <2>1, <2>2, FS_Union
  <2>4. Cardinality(D \cap I) = 0
    BY <2>2, FS_EmptySet
  <2> QED BY <2>1, <2>2, <2>3, <2>4 DEF D
<1> QED BY <1>1, <1>4, <1>9 DEF t

LEMMA CountTail ==
    ASSUME NEW s \in Seq(Code), s # <<>>
    PROVE  Cardinality(DataAt(Tail(s)))
               = IF Head(s) = "data" THEN Cardinality(DataAt(s)) - 1 ELSE Cardinality(DataAt(s))
<1>1. /\ Tail(s) \in Seq(Code) /\ Len(Tail(s)) = Len(s) - 1 /\ Len(s) \in Nat \ {0} /\ Head(s) = s[1]
      /\ \A i \in 1 .. Len(s) - 1 : Tail(s)[i] = s[i + 1]
  OBVIOUS
<1> DEFINE A == DataAt(Tail(s))
           B == DataAt(s) \ {1}
           f == [i \in A |-> i + 1]
<1>2. \A i \in A : i \in Nat /\ i + 1 \in B
  BY <1>1 DEF DataAt
<1>3. \A i \in B : i - 1 \in A /\ (i - 1) + 1 = i
  BY <1>1 DEF DataAt
<1>4. IsFiniteSet(A)
  BY <1>1, CountFinite
<1> HIDE DEF A, B
<1>5. f \in [A -> B] /\ \A i \in A : f[i] = i + 1
  BY <1>2
<1> HIDE DEF f
<1>6. \A i, j \in A : f[i] = f[j] => i = j
  BY <1>2, <1>5
<1>7. \A b \in B : \E a \in A : f[a] = b
  BY <1>3, <1>5
<1>8. ExistsBijection(A, B)
  BY <1>5, <1>6, <1>7 DEF ExistsBijection, Bijection, Injection, Surjection, IsInjective
<1>9. Cardinality(A) = Cardinality(B)
  BY <1>4, <1>8, FS_Bijection
<1>10. Cardinality(B) = IF 1 \in DataAt(s) THEN Cardinality(DataAt(s)) - 1 ELSE Cardinality(DataAt(s))
  BY CountFinite, FS_RemoveElement DEF B
<1>11. 1 \in DataAt(s) <=> Head(s) = "data"
  BY <1>1 DEF DataAt
<1> QED BY <1>9, <1>10, <1>11 DEF A

----------------
(***************************************************************************)
(* What the native methods do to a connection.  None of them changes which *)
(* socket it belongs to or takes it out of the loop; whatever makes it     *)
(* closing, or ends its stream, queues an event for it.                    *)
(***************************************************************************)
Moves(c, d) ==
    /\ d \in ClientConnection /\ d.life = c.life /\ d.socket = c.socket
    /\ d.paused = c.paused /\ d.endRequested = c.endRequested
    /\ d.sent \o d.out = c.sent \o c.out
    /\ On(c.events) \subseteq On(d.events)
    /\ c.closing => d.closing
    /\ d.closing /\ ~c.closing => d.events # <<>>
    /\ c.peerEnded => d.peerEnded
    /\ d.peerEnded /\ ~c.peerEnded => "end" \in On(d.events)
    /\ EventsOK(c) => EventsOK(d)

Still(c, d) == d.chunks = c.chunks /\ d.rx = c.rx

\* Chunks move from the receive queue to the connection's; an end of stream is taken out.
Streamed(c, d) ==
    /\ LET s == c.chunks \o c.rx IN
       \/ d.chunks \o d.rx = s
       \/ s # <<>> /\ s[Len(s)] = Fin /\ d.chunks \o d.rx = SubSeq(s, 1, Len(s) - 1)
    /\ Fin \notin On(c.chunks) => Fin \notin On(d.chunks)

LEMMA MovesTypes ==
    ASSUME NEW c \in ClientConnection
    PROVE  /\ c.events \in Seq(Code) /\ c.chunks \in Seq(Nat) /\ c.out \in Seq(Nat)
           /\ c.sent \in Seq(Nat) /\ c.rx \in Seq(Nat) /\ c.life \in {"none", "open", "closed"}
           /\ c.connecting \in BOOLEAN /\ c.closing \in BOOLEAN /\ c.paused \in BOOLEAN
           /\ c.endRequested \in BOOLEAN /\ c.finished \in BOOLEAN /\ c.peerEnded \in BOOLEAN
           /\ c.socket \in BOOLEAN
BY DEF ClientConnection

LEMMA MovesRefl == \A c \in ClientConnection : Moves(c, c) /\ Still(c, c) /\ Streamed(c, c)
BY DEF Moves, Still, Streamed

LEMMA MovesTrans ==
    ASSUME NEW c \in ClientConnection, NEW d, NEW e, Moves(c, d), Moves(d, e)
    PROVE  Moves(c, e)
<1>1. d \in ClientConnection /\ e \in ClientConnection /\ e.events \in Seq(Code) /\ d.events \in Seq(Code)
  BY MovesTypes DEF Moves
<1>2. d.events # <<>> => e.events # <<>>
  <2> SUFFICES ASSUME d.events # <<>> PROVE e.events # <<>>
    OBVIOUS
  <2>1. d.events[1] \in On(d.events)
    BY <1>1, OnPop
  <2>2. d.events[1] \in On(e.events)
    BY <2>1 DEF Moves
  <2> QED BY <2>2, OnNone
<1> QED BY <1>2 DEF Moves

LEMMA StreamedLeft ==
    ASSUME NEW c, NEW d, NEW e, Still(c, d), Streamed(d, e)
    PROVE  Streamed(c, e)
BY DEF Still, Streamed

LEMMA StreamedRight ==
    ASSUME NEW c, NEW d, NEW e, Streamed(c, d), Still(d, e)
    PROVE  Streamed(c, e)
BY DEF Still, Streamed

LEMMA StillStreamed ==
    ASSUME NEW c, NEW d, Still(c, d)
    PROVE  Streamed(c, d)
BY DEF Still, Streamed

\* Events are queued.
Grown(c, es, closing, finished, peerEnded) ==
    [c EXCEPT !.events = @ \o es, !.closing = closing, !.finished = finished, !.peerEnded = peerEnded]

LEMMA GrownMoves ==
    ASSUME NEW c \in ClientConnection, NEW es \in Seq(Code), NEW cl \in BOOLEAN, NEW fi \in BOOLEAN, NEW pe \in BOOLEAN,
           "data" \notin On(es), \A e \in On(es) : e \in {"error", "close"} => cl, c.closing => cl,
           cl /\ ~c.closing => es # <<>>, c.peerEnded => pe, pe /\ ~c.peerEnded => "end" \in On(es)
    PROVE  LET d == Grown(c, es, cl, fi, pe) IN Moves(c, d) /\ Still(c, d) /\ d.closing = cl
<1> DEFINE ev == c.events \o es
           d == Grown(c, es, cl, fi, pe)
<1>2. c.events \in Seq(Code) /\ ev \in Seq(Code)
  BY MovesTypes, ConcatProperties
<1>0. d = [c EXCEPT !.events = ev, !.closing = cl, !.finished = fi, !.peerEnded = pe]
  BY DEF Grown, ClientConnection
<1> HIDE DEF ev, d
<1>10. d \in ClientConnection
  BY ONLY <1>0, <1>2 DEF ClientConnection
<1>11. /\ d.life = c.life /\ d.socket = c.socket /\ d.paused = c.paused
       /\ d.endRequested = c.endRequested
       /\ d.sent = c.sent /\ d.out = c.out /\ d.chunks = c.chunks /\ d.rx = c.rx
  BY ONLY <1>0 DEF ClientConnection
<1>12. d.events = ev /\ d.closing = cl /\ d.peerEnded = pe
  BY ONLY <1>0 DEF ClientConnection
<1>1. /\ d \in ClientConnection
      /\ d.life = c.life /\ d.socket = c.socket /\ d.paused = c.paused
      /\ d.endRequested = c.endRequested
      /\ d.sent = c.sent /\ d.out = c.out /\ d.chunks = c.chunks /\ d.rx = c.rx
      /\ d.events = c.events \o es /\ d.closing = cl /\ d.peerEnded = pe
  BY <1>10, <1>11, <1>12 DEF ev
<1>3. On(d.events) = On(c.events) \cup On(es)
  BY <1>1, <1>2, OnConcat
<1>4. es # <<>> => d.events # <<>>
  BY <1>1, <1>2, ConcatEqualIffEmpty
<1>5. Cardinality(DataAt(d.events)) = Cardinality(DataAt(c.events))
  BY <1>1, <1>2, CountPlain
<1>6. EventsOK(c) => EventsOK(d)
  BY <1>1, <1>3, <1>5 DEF EventsOK
<1>7. Moves(c, d) /\ Still(c, d)
  BY <1>1, <1>3, <1>4, <1>6 DEF Moves, Still
<1> QED BY <1>1, <1>7 DEF d

LEMMA OnLists ==
    /\ <<>> \in Seq(Code) /\ <<"finish">> \in Seq(Code) /\ <<"end">> \in Seq(Code) /\ <<"drain">> \in Seq(Code) /\ <<"connect">> \in Seq(Code)
    /\ <<"error", "close">> \in Seq(Code) /\ <<"finish", "close">> \in Seq(Code) /\ <<"end", "close">> \in Seq(Code)
    /\ On(<<"finish">>) = {"finish"} /\ On(<<"end">>) = {"end"} /\ On(<<"drain">>) = {"drain"} /\ On(<<"connect">>) = {"connect"}
    /\ On(<<"error", "close">>) = {"error", "close"} /\ On(<<"finish", "close">>) = {"finish", "close"}
    /\ On(<<"end", "close">>) = {"end", "close"}
<1>1. \A a, b : Len(<<a, b>>) = 2 /\ <<a, b>>[1] = a /\ <<a, b>>[2] = b /\ 1 .. 2 = {1, 2}
  OBVIOUS
<1>2. \A a, b : On(<<a, b>>) = {a, b}
  BY <1>1 DEF On
<1> QED BY <1>2, OnOne DEF Code

LEMMA FailMoves ==
    ASSUME NEW c \in ClientConnection
    PROVE  Moves(c, Fail(c)) /\ Still(c, Fail(c)) /\ Fail(c).closing /\ (c.events # <<>> \/ ~c.closing => Fail(c).events # <<>>)
<1>1. CASE c.closing
  BY <1>1, MovesRefl DEF Fail
<1>2. CASE ~c.closing
  <2> DEFINE es == <<"error", "close">>
  <2>1. es \in Seq(Code) /\ On(es) = {"error", "close"} /\ es # <<>>
    BY OnLists
  <2>2. Fail(c) = Grown(c, es, TRUE, c.finished, c.peerEnded)
    BY <1>2 DEF Fail, Grown, ClientConnection
  <2> HIDE DEF es
  <2>3. c.finished \in BOOLEAN /\ c.peerEnded \in BOOLEAN /\ TRUE \in BOOLEAN
    BY MovesTypes
  <2>4. Moves(c, Grown(c, es, TRUE, c.finished, c.peerEnded)) /\ Still(c, Grown(c, es, TRUE, c.finished, c.peerEnded))
       /\ Grown(c, es, TRUE, c.finished, c.peerEnded).closing = TRUE
    BY <2>1, <2>3, GrownMoves
  <2>6. Fail(c).closing = TRUE /\ Fail(c).closing /\ Moves(c, Fail(c))
    BY <2>2, <2>4
  <2> QED BY <1>2, <2>2, <2>4, <2>6 DEF Moves
<1> QED BY <1>1, <1>2

\* The write side: finishWriteSideIfReady, flushWrites, end().
LEMMA FinishMoves ==
    ASSUME NEW c \in ClientConnection, ~c.closing \/ ~c.endRequested
    PROVE  LET d == FinishWriteSideIfReady(c) IN
           Moves(c, d) /\ Still(c, d) /\ (d.closing /\ ~c.closing => c.peerEnded) /\ (~c.endRequested => d = c)
<1>1. CASE c.connecting \/ ~c.endRequested \/ c.finished \/ c.out # <<>>
  BY <1>1, MovesRefl DEF FinishWriteSideIfReady
<1>2. CASE ~(c.connecting \/ ~c.endRequested \/ c.finished \/ c.out # <<>>)
  <2>1. c.endRequested /\ c.closing = FALSE
    BY <1>2, MovesTypes
  <2>2. CASE c.peerEnded
    <3> DEFINE es == <<"finish", "close">>
    <3>1. es \in Seq(Code) /\ On(es) = {"finish", "close"} /\ es # <<>>
      BY OnLists
    <3>2. c.peerEnded = TRUE
      BY <2>2, MovesTypes
    <3>3. FinishWriteSideIfReady(c) = Grown(c, es, TRUE, TRUE, TRUE)
      BY <1>2, <3>2 DEF FinishWriteSideIfReady, Grown, ClientConnection
    <3> HIDE DEF es
    <3>4. Moves(c, Grown(c, es, TRUE, TRUE, TRUE)) /\ Still(c, Grown(c, es, TRUE, TRUE, TRUE))
      BY <3>1, <3>2, GrownMoves
    <3> QED BY <2>1, <2>2, <3>3, <3>4
  <2>3. CASE ~c.peerEnded
    <3> DEFINE es == <<"finish">>
    <3>1. es \in Seq(Code) /\ On(es) = {"finish"} /\ es # <<>>
      BY OnLists
    <3>2. c.peerEnded = FALSE
      BY <2>3, MovesTypes
    <3>3. FinishWriteSideIfReady(c) = Grown(c, es, FALSE, TRUE, FALSE)
      BY <1>2, <3>2 DEF FinishWriteSideIfReady, Grown, ClientConnection
    <3> HIDE DEF es
    <3>4. Moves(c, Grown(c, es, FALSE, TRUE, FALSE)) /\ Still(c, Grown(c, es, FALSE, TRUE, FALSE))
         /\ Grown(c, es, FALSE, TRUE, FALSE).closing = FALSE
      BY <3>1, <3>2, <2>1, GrownMoves
    <3> QED BY <2>1, <3>3, <3>4
  <2> QED BY <2>2, <2>3
<1> QED BY <1>1, <1>2

Taken(c, sent, out) == [c EXCEPT !.sent = sent, !.out = out]

LEMMA TakenMoves ==
    ASSUME NEW c \in ClientConnection, NEW s \in Seq(Nat), NEW o \in Seq(Nat), s \o o = c.sent \o c.out
    PROVE  LET d == Taken(c, s, o) IN
           /\ Moves(c, d) /\ Still(c, d) /\ d.closing = c.closing /\ d.finished = c.finished /\ d.peerEnded = c.peerEnded
           /\ d.events = c.events
<1> DEFINE d == Taken(c, s, o)
<1>1. d \in ClientConnection
  BY DEF ClientConnection, Taken
<1>2. /\ d.life = c.life /\ d.socket = c.socket /\ d.paused = c.paused
      /\ d.endRequested = c.endRequested /\ d.connecting = c.connecting
      /\ d.sent = s /\ d.out = o /\ d.chunks = c.chunks /\ d.rx = c.rx
  BY DEF ClientConnection, Taken
<1>3. d.closing = c.closing /\ d.peerEnded = c.peerEnded /\ d.finished = c.finished /\ d.events = c.events
  BY DEF ClientConnection, Taken
<1> HIDE DEF d
<1>4. Moves(c, d) /\ Still(c, d)
  BY <1>1, <1>2, <1>3 DEF Moves, Still, EventsOK
<1> QED BY <1>3, <1>4 DEF d

LEMMA FlushMoves ==
    ASSUME NEW c \in ClientConnection, ~c.closing \/ ~c.endRequested, NEW k \in 0 .. Len(c.out)
    PROVE  LET d == FlushK(c, k) IN
           Moves(c, d) /\ Still(c, d)
<1> DEFINE s == c.sent \o SubSeq(c.out, 1, k)
           o == SubSeq(c.out, k + 1, Len(c.out))
           t == Taken(c, s, o)
<1>1. c.out \in Seq(Nat) /\ c.sent \in Seq(Nat) /\ c.events \in Seq(Code) /\ Len(c.out) \in Nat /\ k \in Nat
  BY MovesTypes
<1>2. SubSeq(c.out, 1, k) \in Seq(Nat) /\ SubSeq(c.out, k + 1, Len(c.out)) \in Seq(Nat)
  BY <1>1
<1>3. SubSeq(c.out, 1, k) \o SubSeq(c.out, k + 1, Len(c.out)) = c.out
  <2>1. 1 \in 1 .. Len(c.out) + 1 /\ k \in 1 - 1 .. Len(c.out) /\ Len(c.out) \in k .. Len(c.out)
    BY <1>1
  <2>2. SubSeq(c.out, 1, k) \o SubSeq(c.out, k + 1, Len(c.out)) = SubSeq(c.out, 1, Len(c.out))
    BY <1>1, <2>1, ConcatAdjacentSubSeq
  <2> QED BY <1>1, <2>2, SubSeqFull
<1>4. s \in Seq(Nat) /\ o \in Seq(Nat) /\ s \o o = c.sent \o c.out
  <2> DEFINE a == SubSeq(c.out, 1, k)
  <2>1. a \in Seq(Nat) /\ o \in Seq(Nat) /\ a \o o = c.out
    BY <1>2, <1>3
  <2> HIDE DEF a, o
  <2>2. (c.sent \o a) \o o = c.sent \o (a \o o) /\ c.sent \o a \in Seq(Nat)
    BY <1>1, <2>1, Assoc
  <2> QED BY <2>1, <2>2 DEF a
<1>5. t = [c EXCEPT !.sent = @ \o SubSeq(c.out, 1, k), !.out = SubSeq(@, k + 1, Len(@))]
  BY DEF Taken, ClientConnection
<1> HIDE DEF s, o
<1>6. /\ Moves(c, t) /\ Still(c, t) /\ t.closing = c.closing /\ t.finished = c.finished /\ t.peerEnded = c.peerEnded
      /\ t.events = c.events
  BY <1>4, TakenMoves
<1> HIDE DEF t
<1>7. CASE k < Len(c.out)
  BY <1>5, <1>6, <1>7 DEF FlushK
<1>8. CASE ~(k < Len(c.out))
  <2> DEFINE u == IF c.out = <<>> THEN t ELSE [t EXCEPT !.events = Append(@, "drain")]
  <2>1. FlushK(c, k) = FinishWriteSideIfReady(u)
    BY <1>5, <1>8 DEF FlushK
  <2>2. t \in ClientConnection /\ t.endRequested = c.endRequested
    BY <1>6 DEF Moves
  <2>3. Moves(t, u) /\ Still(t, u) /\ (~u.closing \/ ~u.endRequested)
    <3>1. CASE c.out = <<>>
      BY <2>2, <3>1, <1>6, MovesRefl
    <3>2. CASE c.out # <<>>
      <4> DEFINE es == <<"drain">>
      <4>1. es \in Seq(Code) /\ On(es) = {"drain"} /\ es # <<>>
        BY OnLists
      <4>2. Append(t.events, "drain") = t.events \o es
        BY <1>1, <1>6, AppendIsConcat DEF Code
      <4>3. u = Grown(t, es, t.closing, t.finished, t.peerEnded)
        BY <2>2, <3>2, <4>2 DEF Grown, ClientConnection
      <4> HIDE DEF es, u
      <4>4. t.closing \in BOOLEAN /\ t.finished \in BOOLEAN /\ t.peerEnded \in BOOLEAN
        BY <2>2, MovesTypes
      <4>5. Moves(t, Grown(t, es, t.closing, t.finished, t.peerEnded)) /\ Still(t, Grown(t, es, t.closing, t.finished, t.peerEnded))
           /\ Grown(t, es, t.closing, t.finished, t.peerEnded).closing = t.closing
        BY <2>2, <4>1, <4>4, GrownMoves
      <4>7. u.closing = c.closing /\ u.endRequested = c.endRequested
        BY <4>3, <4>5, <1>6, <2>2 DEF Moves
      <4> QED BY <4>3, <4>5, <4>7
    <3> QED BY <3>1, <3>2
  <2> HIDE DEF u
  <2>4. u \in ClientConnection
    BY <2>3 DEF Moves
  <2>5. Moves(u, FlushK(c, k)) /\ Still(u, FlushK(c, k))
    BY <2>1, <2>3, <2>4, FinishMoves
  <2>6. Moves(c, u)
    BY <1>6, <2>3, MovesTrans
  <2> QED BY <1>6, <2>3, <2>5, <2>6, MovesTrans DEF Still
<1> QED BY <1>7, <1>8

LEMMA FlushWritesMoves ==
    ASSUME NEW c \in ClientConnection, ~c.closing \/ ~c.endRequested, NEW d \in FlushWrites(c)
    PROVE  Moves(c, d) /\ Still(c, d)
BY FlushMoves, FailMoves DEF FlushWrites, Failures

LEMMA NetEndMoves ==
    ASSUME NEW c \in ClientConnection
    PROVE  LET d == NetEnd(c) IN
           \/ d = c /\ (c.closing \/ c.endRequested)
           \/ /\ ~c.closing /\ ~c.endRequested
              /\ LET e == [c EXCEPT !.endRequested = TRUE] IN Moves(e, d) /\ Still(e, d) /\ (d.closing => c.peerEnded)
<1>1. CASE c.closing \/ c.endRequested
  BY <1>1 DEF NetEnd
<1>2. CASE ~(c.closing \/ c.endRequested)
  <2> DEFINE e == [c EXCEPT !.endRequested = TRUE]
  <2>1. e \in ClientConnection /\ e.closing = c.closing /\ e.peerEnded = c.peerEnded
    BY DEF ClientConnection
  <2>2. NetEnd(c) = FinishWriteSideIfReady(e)
    BY <1>2 DEF NetEnd
  <2> HIDE DEF e
  <2>3. ~e.closing
    BY <2>1, <1>2
  <2>4. Moves(e, NetEnd(c)) /\ Still(e, NetEnd(c)) /\ (NetEnd(c).closing /\ ~e.closing => e.peerEnded)
    BY <2>1, <2>2, <2>3, FinishMoves
  <2> QED BY <1>2, <2>1, <2>3, <2>4 DEF e
<1> QED BY <1>1, <1>2

\* The read side: closeFromPeer, readAvailable, completeConnect, onReady.
FinLast(rx) == \A i \in 1 .. Len(rx) : rx[i] = Fin => i = Len(rx)

LEMMA CloseMoves ==
    ASSUME NEW c \in ClientConnection
    PROVE  Moves(c, CloseFromPeer(c)) /\ Still(c, CloseFromPeer(c))
<1>1. CASE c.closing \/ c.peerEnded
  BY <1>1, MovesRefl DEF CloseFromPeer
<1>2. CASE ~(c.closing \/ c.peerEnded)
  <2>1. c.closing = FALSE /\ c.peerEnded = FALSE
    BY <1>2, MovesTypes
  <2>2. CASE c.finished
    <3> DEFINE es == <<"end", "close">>
    <3>1. es \in Seq(Code) /\ On(es) = {"end", "close"} /\ es # <<>>
      BY OnLists
    <3>2. c.finished = TRUE
      BY <2>2, MovesTypes
    <3>3. CloseFromPeer(c) = Grown(c, es, TRUE, TRUE, TRUE)
      BY <1>2, <3>2 DEF CloseFromPeer, Grown, ClientConnection
    <3> HIDE DEF es
    <3>4. Moves(c, Grown(c, es, TRUE, TRUE, TRUE)) /\ Still(c, Grown(c, es, TRUE, TRUE, TRUE))
      BY <2>1, <3>1, GrownMoves
    <3> QED BY <3>3, <3>4
  <2>3. CASE ~c.finished
    <3> DEFINE es == <<"end">>
    <3>1. es \in Seq(Code) /\ On(es) = {"end"} /\ es # <<>>
      BY OnLists
    <3>2. c.finished = FALSE
      BY <2>3, MovesTypes
    <3>3. CloseFromPeer(c) = Grown(c, es, FALSE, FALSE, TRUE)
      BY <1>2, <3>2 DEF CloseFromPeer, Grown, ClientConnection
    <3> HIDE DEF es
    <3>4. Moves(c, Grown(c, es, FALSE, FALSE, TRUE)) /\ Still(c, Grown(c, es, FALSE, FALSE, TRUE))
      BY <2>1, <3>1, GrownMoves
    <3> QED BY <3>3, <3>4
  <2> QED BY <2>2, <2>3
<1> QED BY <1>1, <1>2

ReadTo(c, rx, chunks, ev) == [c EXCEPT !.rx = rx, !.chunks = chunks, !.events = ev]

LEMMA ReadToMoves ==
    ASSUME NEW c \in ClientConnection, NEW rx \in Seq(Nat), NEW data \in Seq(Nat)
    PROVE  LET d == ReadTo(c, rx, c.chunks \o data, c.events \o [j \in 1 .. Len(data) |-> "data"])
           IN  Moves(c, d) /\ d.rx = rx /\ d.chunks = c.chunks \o data
<1> DEFINE m == Len(data)
           es == [j \in 1 .. m |-> "data"]
           ev == c.events \o es
           ch == c.chunks \o data
           d == ReadTo(c, rx, ch, ev)
<1>1. c.events \in Seq(Code) /\ c.chunks \in Seq(Nat) /\ m \in Nat
  BY MovesTypes
<1>2. es \in Seq(Code) /\ On(ev) \subseteq On(c.events) \cup {"data"} /\ Cardinality(DataAt(ev)) = Cardinality(DataAt(c.events)) + m
  BY <1>1, CountData
<1> HIDE DEF es
<1>3. ev \in Seq(Code) /\ On(ev) = On(c.events) \cup On(es)
  BY <1>1, <1>2, OnConcat
<1>4. ch \in Seq(Nat) /\ Len(ch) = Len(c.chunks) + m
  BY <1>1, ConcatProperties
<1> HIDE DEF ev, ch
<1>5. d \in ClientConnection
  BY <1>3, <1>4 DEF ClientConnection, ReadTo
<1>6. /\ d.life = c.life /\ d.socket = c.socket /\ d.paused = c.paused
      /\ d.endRequested = c.endRequested /\ d.closing = c.closing /\ d.peerEnded = c.peerEnded
      /\ d.sent = c.sent /\ d.out = c.out /\ d.chunks = ch /\ d.rx = rx /\ d.events = ev
  BY DEF ClientConnection, ReadTo
<1> HIDE DEF d
<1>7. EventsOK(c) => EventsOK(d)
  BY <1>2, <1>4, <1>6 DEF EventsOK
<1>8. Moves(c, d)
  BY <1>3, <1>5, <1>6, <1>7 DEF Moves
<1>9. Moves(c, d) /\ d.rx = rx /\ d.chunks = ch
  BY <1>6, <1>8
<1> QED BY <1>9 DEF d, ev, ch, es

LEMMA ConcatNat ==
    ASSUME NEW s \in Seq(Nat), NEW t \in Seq(Nat)
    PROVE  /\ s \o t \in Seq(Nat) /\ Len(s \o t) = Len(s) + Len(t) /\ Len(s) \in Nat /\ Len(t) \in Nat
           /\ \A i \in 1 .. Len(s) : (s \o t)[i] = s[i]
           /\ \A i \in 1 .. Len(t) : (s \o t)[Len(s) + i] = t[i]
<1>1. /\ s \o t \in Seq(Nat) /\ Len(s \o t) = Len(s) + Len(t) /\ Len(s) \in Nat /\ Len(t) \in Nat
      /\ \A i \in 1 .. Len(s) + Len(t) : (s \o t)[i] = IF i <= Len(s) THEN s[i] ELSE t[i - Len(s)]
  BY ConcatProperties, LenProperties
<1> QED BY <1>1

LEMMA SubSeqNat ==
    ASSUME NEW s \in Seq(Nat), NEW a \in Nat \ {0}, NEW b \in Nat, b <= Len(s), a <= b + 1
    PROVE  /\ SubSeq(s, a, b) \in Seq(Nat) /\ Len(SubSeq(s, a, b)) = b + 1 - a
           /\ \A i \in 1 .. b + 1 - a : SubSeq(s, a, b)[i] = s[a + i - 1]
<1>1. Len(s) \in Nat /\ \A i \in 1 .. Len(s) : s[i] \in Nat
  OBVIOUS
<1>2. \A i \in a .. b : s[i] \in Nat
  BY <1>1
<1>3. /\ SubSeq(s, a, b) \in Seq(Nat) /\ Len(SubSeq(s, a, b)) = IF a <= b THEN b - a + 1 ELSE 0
      /\ \A i \in 1 .. b - a + 1 : SubSeq(s, a, b)[i] = s[a + i - 1]
  BY <1>2, SubSeqProperties
<1> QED BY <1>1, <1>3

\* The last item of a queue is cut off.
LEMMA CutLast ==
    ASSUME NEW s \in Seq(Nat), NEW t \in Seq(Nat), t # <<>>
    PROVE  LET u == s \o t IN
           u # <<>> /\ u[Len(u)] = t[Len(t)] /\ s \o SubSeq(t, 1, Len(t) - 1) = SubSeq(u, 1, Len(u) - 1)
<1> DEFINE u == s \o t
           f == SubSeq(t, 1, Len(t) - 1)
           q == s \o f
           r == SubSeq(u, 1, Len(u) - 1)
<1>1. Len(t) \in Nat \ {0} /\ Len(s) \in Nat
  OBVIOUS
<1>2. /\ u \in Seq(Nat) /\ Len(u) = Len(s) + Len(t)
      /\ \A i \in 1 .. Len(s) : u[i] = s[i]
      /\ \A i \in 1 .. Len(t) : u[Len(s) + i] = t[i]
  BY ConcatNat
<1>3. f \in Seq(Nat) /\ Len(f) = Len(t) - 1 /\ \A i \in 1 .. Len(t) - 1 : f[i] = t[i]
  <2>1. 1 \in Nat \ {0} /\ Len(t) - 1 \in Nat /\ Len(t) - 1 <= Len(t) /\ 1 <= (Len(t) - 1) + 1
    BY <1>1
  <2>2. f \in Seq(Nat) /\ Len(f) = (Len(t) - 1) + 1 - 1 /\ \A i \in 1 .. (Len(t) - 1) + 1 - 1 : f[i] = t[1 + i - 1]
    BY <2>1, SubSeqNat
  <2> QED BY <1>1, <2>2
<1> HIDE DEF f, u
<1>4. /\ q \in Seq(Nat) /\ Len(q) = Len(s) + Len(f)
      /\ \A i \in 1 .. Len(s) : q[i] = s[i]
      /\ \A i \in 1 .. Len(f) : q[Len(s) + i] = f[i]
  BY <1>3, ConcatNat
<1>5. r \in Seq(Nat) /\ Len(r) = Len(u) - 1 /\ \A i \in 1 .. Len(u) - 1 : r[i] = u[i]
  <2>1. 1 \in Nat \ {0} /\ Len(u) - 1 \in Nat /\ Len(u) - 1 <= Len(u) /\ 1 <= (Len(u) - 1) + 1
    BY <1>1, <1>2
  <2>2. r \in Seq(Nat) /\ Len(r) = (Len(u) - 1) + 1 - 1 /\ \A i \in 1 .. (Len(u) - 1) + 1 - 1 : r[i] = u[1 + i - 1]
    BY <1>2, <2>1, SubSeqNat
  <2> QED BY <1>1, <1>2, <2>2
<1> HIDE DEF q, r
<1>6. ASSUME NEW i \in 1 .. Len(q) PROVE q[i] = r[i]
  <2>1. i \in 1 .. Len(u) - 1 /\ r[i] = u[i]
    BY <1>1, <1>2, <1>3, <1>4, <1>5
  <2>2. CASE i <= Len(s)
    BY <1>1, <1>2, <1>4, <2>1, <2>2
  <2>3. CASE i > Len(s)
    <3>1. i - Len(s) \in 1 .. Len(t) - 1 /\ Len(s) + (i - Len(s)) = i
      BY <1>1, <1>2, <1>3, <1>4, <2>3
    <3> DEFINE x == i - Len(s)
    <3>3. x \in 1 .. Len(t) - 1 /\ x \in 1 .. Len(t) /\ x \in 1 .. Len(f)
      BY <1>1, <1>3, <3>1
    <3> HIDE DEF x
    <3>4. q[Len(s) + x] = f[x] /\ u[Len(s) + x] = t[x]
      BY <1>2, <1>4, <3>3
    <3>2. q[Len(s) + (i - Len(s))] = f[i - Len(s)] /\ u[Len(s) + (i - Len(s))] = t[i - Len(s)]
      BY <3>4 DEF x
    <3> QED BY <1>3, <2>1, <3>1, <3>2
  <2> QED BY <1>1, <2>2, <2>3
<1>7. Len(q) = Len(r)
  BY <1>1, <1>2, <1>3, <1>4, <1>5
<1>8. q = r
  BY <1>4, <1>5, <1>6, <1>7, SeqEqual
<1>9. u # <<>> /\ u[Len(u)] = t[Len(t)]
  BY <1>1, <1>2
<1> QED BY <1>8, <1>9 DEF q, r, f, u

\* The first k items of a queue are taken, and with them its end if that is the last of them.
LEMMA ReadMoves ==
    ASSUME NEW c \in ClientConnection, FinLast(c.rx), NEW k \in 0 .. Len(c.rx)
    PROVE  Moves(c, ReadK(c, k)) /\ Streamed(c, ReadK(c, k))
<1>1. c.rx \in Seq(Nat) /\ c.chunks \in Seq(Nat) /\ Len(c.rx) \in Nat /\ k \in Nat /\ k <= Len(c.rx)
  BY MovesTypes
<1> DEFINE rx == SubSeq(c.rx, k + 1, Len(c.rx))
           D(m) == SubSeq(c.rx, 1, m)
           R(m) == ReadTo(c, rx, c.chunks \o D(m), c.events \o [j \in 1 .. Len(D(m)) |-> "data"])
<1>2. rx \in Seq(Nat) /\ Len(rx) = Len(c.rx) - k
  <2>1. k + 1 \in Nat \ {0} /\ k + 1 <= Len(c.rx) + 1 /\ Len(c.rx) <= Len(c.rx)
    BY <1>1
  <2> QED BY <1>1, <2>1, SubSeqNat
<1>3. ASSUME NEW m \in Nat, m <= k, \A i \in 1 .. m : c.rx[i] # Fin
      PROVE  /\ D(m) \in Seq(Nat) /\ Moves(c, R(m)) /\ R(m).rx = rx /\ R(m).chunks = c.chunks \o D(m)
             /\ Fin \notin On(c.chunks) => Fin \notin On(R(m).chunks)
  <2>1. 1 \in Nat \ {0} /\ m <= Len(c.rx) /\ 1 <= m + 1
    BY <1>1, <1>3
  <2>2. D(m) \in Seq(Nat) /\ Len(D(m)) = m + 1 - 1 /\ \A i \in 1 .. m + 1 - 1 : D(m)[i] = c.rx[1 + i - 1]
    BY <1>1, <2>1, SubSeqNat
  <2>3. Len(D(m)) = m /\ \A i \in 1 .. m : D(m)[i] = c.rx[i]
    BY <2>2
  <2> DEFINE d == D(m)
             e == R(m)
  <2> HIDE DEF rx
  <2>4. d \in Seq(Nat) /\ e = ReadTo(c, rx, c.chunks \o d, c.events \o [j \in 1 .. Len(d) |-> "data"])
    BY <2>2
  <2>5. Fin \notin On(d)
    BY <1>3, <2>3 DEF On
  <2> HIDE DEF d, e
  <2>6. Moves(c, e) /\ e.rx = rx /\ e.chunks = c.chunks \o d
    BY <1>2, <2>4, ReadToMoves
  <2>7. On(c.chunks \o d) = On(c.chunks) \cup On(d)
    BY <1>1, <2>4, OnConcat
  <2>8. Fin \notin On(c.chunks) => Fin \notin On(e.chunks)
    BY <2>5, <2>6, <2>7
  <2> QED BY <2>4, <2>6, <2>8 DEF d, e
<1>4. CASE k > 0 /\ c.rx[k] = Fin
  <2>1. k = Len(c.rx) /\ c.rx # <<>> /\ k - 1 \in Nat /\ k - 1 <= k
    BY <1>1, <1>4 DEF FinLast
  <2>2. \A i \in 1 .. k - 1 : c.rx[i] # Fin
    BY <1>1, <2>1 DEF FinLast
  <2>3. ReadK(c, k) = CloseFromPeer(R(k - 1))
    BY <1>4 DEF ReadK, ReadTo, ClientConnection
  <2>4. /\ D(k - 1) \in Seq(Nat) /\ Moves(c, R(k - 1)) /\ R(k - 1).rx = rx /\ R(k - 1).chunks = c.chunks \o D(k - 1)
        /\ Fin \notin On(c.chunks) => Fin \notin On(R(k - 1).chunks)
    BY <1>3, <2>1, <2>2
  <2>5. rx = <<>>
    BY <1>2, <2>1
  <2> DEFINE e == R(k - 1)
             d == D(k - 1)
             s == c.chunks \o c.rx
  <2>6. d = SubSeq(c.rx, 1, Len(c.rx) - 1)
    BY <2>1
  <2> HIDE DEF e, d, rx
  <2>7. s # <<>> /\ s[Len(s)] = Fin /\ c.chunks \o d = SubSeq(s, 1, Len(s) - 1)
    BY <1>1, <1>4, <2>1, <2>6, CutLast
  <2>8. d \in Seq(Nat) /\ e.rx = <<>> /\ e.chunks = c.chunks \o d /\ c.chunks \o d \in Seq(Nat)
    BY <1>1, <2>4, <2>5, ConcatNat DEF e, d
  <2>9. e.chunks \o e.rx = c.chunks \o d
    BY <2>8, ConcatEmptySeq
  <2>10. Streamed(c, e)
    BY <2>4, <2>7, <2>9 DEF Streamed, e
  <2>11. Moves(c, e) /\ e \in ClientConnection
    BY <2>4 DEF Moves, e
  <2>12. Moves(e, CloseFromPeer(e)) /\ Still(e, CloseFromPeer(e))
    BY <2>11, CloseMoves
  <2>13. ReadK(c, k) = CloseFromPeer(e)
    BY <2>3 DEF e
  <2> QED BY <2>10, <2>11, <2>12, <2>13, MovesTrans, StreamedRight
<1>5. CASE ~(k > 0 /\ c.rx[k] = Fin)
  <2>1. k <= k /\ \A i \in 1 .. k : c.rx[i] # Fin
    BY <1>1, <1>5 DEF FinLast
  <2>2. ReadK(c, k) = R(k)
    BY <1>5 DEF ReadK, ReadTo, ClientConnection
  <2>3. /\ D(k) \in Seq(Nat) /\ Moves(c, R(k)) /\ R(k).rx = rx /\ R(k).chunks = c.chunks \o D(k)
        /\ Fin \notin On(c.chunks) => Fin \notin On(R(k).chunks)
    BY <1>1, <1>3, <2>1
  <2>4. D(k) \o rx = c.rx
    <3>1. 1 \in 1 .. Len(c.rx) + 1 /\ k \in 1 - 1 .. Len(c.rx) /\ Len(c.rx) \in k .. Len(c.rx)
      BY <1>1
    <3>2. SubSeq(c.rx, 1, k) \o SubSeq(c.rx, k + 1, Len(c.rx)) = SubSeq(c.rx, 1, Len(c.rx))
      BY <1>1, <3>1, ConcatAdjacentSubSeq
    <3> QED BY <1>1, <3>2, SubSeqFull
  <2> DEFINE e == R(k)
             d == D(k)
  <2> HIDE DEF e, d, rx
  <2>5. d \in Seq(Nat) /\ rx \in Seq(Nat) /\ d \o rx = c.rx
    BY <1>2, <2>3, <2>4 DEF d
  <2>6. (c.chunks \o d) \o rx = c.chunks \o (d \o rx)
    BY <1>1, <2>5, Assoc
  <2>9. Moves(c, e) /\ e.rx = rx /\ e.chunks = c.chunks \o d /\ (Fin \notin On(c.chunks) => Fin \notin On(e.chunks))
    BY <2>3 DEF e, d
  <2>7. Moves(c, e) /\ e.chunks \o e.rx = c.chunks \o c.rx /\ (Fin \notin On(c.chunks) => Fin \notin On(e.chunks))
    BY <2>5, <2>6, <2>9
  <2>8. Streamed(c, e)
    BY <2>7 DEF Streamed
  <2> QED BY <2>2, <2>7, <2>8 DEF e
<1> QED BY <1>4, <1>5

LEMMA ReadAvailableMoves ==
    ASSUME NEW c \in ClientConnection, FinLast(c.rx), c.rx # <<>>, NEW hup, NEW d \in ReadAvailable(c, hup)
    PROVE  Moves(c, d) /\ Streamed(c, d)
<1>1. c.rx \in Seq(Nat) /\ Len(c.rx) \in Nat \ {0}
  BY MovesTypes
<1> DEFINE least == IF hup THEN Len(c.rx) - 1 ELSE 1
           reads == {ReadK(c, k) : k \in least .. Len(c.rx)}
<1>2. \A k \in least .. Len(c.rx) : k \in 0 .. Len(c.rx)
  BY <1>1
<1>3. \A r \in reads : Moves(c, r) /\ Streamed(c, r)
  BY <1>2, ReadMoves
<1>4. d \in reads \/ \E r \in {c} \cup reads : d = Fail(r)
  BY DEF ReadAvailable, Failures
<1> HIDE DEF reads
<1>5. CASE d \in reads
  BY <1>3, <1>5
<1>6. ASSUME NEW r \in {c} \cup reads, d = Fail(r) PROVE Moves(c, d) /\ Streamed(c, d)
  <2>1. Moves(c, r) /\ Streamed(c, r) /\ r \in ClientConnection
    BY <1>3, MovesRefl DEF Moves
  <2>2. Moves(r, d) /\ Still(r, d)
    BY <1>6, <2>1, FailMoves
  <2> QED BY <2>1, <2>2, MovesTrans, StreamedRight
<1> QED BY <1>4, <1>5, <1>6

\* Only a connection that is a socket is read or written before it is connected.
LEMMA ConnectMoves ==
    ASSUME NEW c \in ClientConnection, ~c.closing, NEW d \in CompleteConnect(c)
    PROVE  Moves(c, d) /\ Still(c, d) /\ (Bare(c) => Bare(d) /\ d.events # <<>>)
<1> DEFINE done == [c EXCEPT !.connecting = FALSE]
           told == [done EXCEPT !.events = Append(@, "connect")]
           es == <<"connect">>
<1>1. done \in ClientConnection
  BY DEF ClientConnection
<1>2. /\ done.life = c.life /\ done.socket = c.socket /\ done.paused = c.paused /\ done.endRequested = c.endRequested
      /\ done.closing = c.closing /\ done.peerEnded = c.peerEnded /\ done.finished = c.finished
      /\ done.sent = c.sent /\ done.out = c.out /\ done.chunks = c.chunks /\ done.rx = c.rx /\ done.events = c.events
  BY DEF ClientConnection
<1>3. es \in Seq(Code) /\ On(es) = {"connect"} /\ es # <<>>
  BY OnLists
<1>4. Append(done.events, "connect") = done.events \o es
  <2>1. done.events \in Seq(Code) /\ "connect" \in Code
    BY <1>1, MovesTypes DEF Code
  <2> HIDE DEF done
  <2> QED BY <2>1, AppendIsConcat
<1>5. told = Grown(done, es, done.closing, done.finished, done.peerEnded)
  BY <1>1, <1>4 DEF Grown, ClientConnection
<1>6. d = FinishWriteSideIfReady(told) \/ d = Fail(done)
  BY DEF CompleteConnect
<1> HIDE DEF done, told, es
<1>7. Moves(c, done) /\ Still(c, done)
  BY <1>1, <1>2 DEF Moves, Still, EventsOK
<1>8. done.closing \in BOOLEAN /\ done.finished \in BOOLEAN /\ done.peerEnded \in BOOLEAN /\ done.closing = FALSE
  BY <1>1, <1>2, MovesTypes
<1>9. Moves(done, told) /\ Still(done, told) /\ told.closing = done.closing
  BY <1>1, <1>3, <1>5, <1>8, GrownMoves
<1>10. told \in ClientConnection /\ ~told.closing
  BY <1>8, <1>9 DEF Moves
<1>11. told.events = done.events \o es /\ told.finished = done.finished /\ told.peerEnded = done.peerEnded
  BY <1>1, <1>5 DEF Grown, ClientConnection
<1>12. told.events # <<>>
  BY <1>1, <1>3, <1>11, MovesTypes, ConcatEqualIffEmpty
<1>13. Moves(told, FinishWriteSideIfReady(told)) /\ Still(told, FinishWriteSideIfReady(told))
       /\ (~told.endRequested => FinishWriteSideIfReady(told) = told)
  BY <1>10, FinishMoves
<1>14. Moves(done, Fail(done)) /\ Still(done, Fail(done)) /\ Fail(done).events # <<>>
  BY <1>1, <1>8, FailMoves
<1>15. Fail(done).finished = done.finished /\ Fail(done).peerEnded = done.peerEnded
  BY <1>1 DEF Fail, ClientConnection
<1>16. Moves(c, d) /\ Still(c, d)
  BY <1>6, <1>7, <1>9, <1>13, <1>14, MovesTrans DEF Still
<1>17. ASSUME Bare(c) PROVE Bare(d) /\ d.events # <<>>
  <2>1. c.sent = <<>> /\ c.out = <<>> /\ c.chunks = <<>> /\ c.rx = <<>> /\ ~c.endRequested /\ ~c.peerEnded /\ ~c.finished
    BY <1>17 DEF Bare
  <2>2. d.endRequested = c.endRequested /\ d.sent \o d.out = c.sent \o c.out /\ d \in ClientConnection
    BY <1>16 DEF Moves
  <2>3. d.sent = <<>> /\ d.out = <<>>
    BY <2>1, <2>2, MovesTypes, ConcatEqualIffEmpty, ConcatEmptySeq
  <2>4. told.endRequested = c.endRequested
    BY <1>2, <1>9 DEF Moves
  <2>5. d = told \/ d = Fail(done)
    BY <1>6, <1>13, <2>1, <2>4
  <2>6. d.events # <<>> /\ d.finished = c.finished /\ d.peerEnded = c.peerEnded
    BY <1>2, <1>11, <1>12, <1>14, <1>15, <2>5
  <2> QED BY <1>16, <2>1, <2>2, <2>3, <2>6 DEF Bare, Still
<1> QED BY <1>16, <1>17

LEMMA PolledMoves ==
    ASSUME NEW c \in ClientConnection, ~c.closing, FinLast(c.rx), NEW d \in Polled(c)
    PROVE  Moves(c, d) /\ Streamed(c, d) /\ (c.connecting /\ Bare(c) => Bare(d) /\ d.events # <<>>)
<1>1. CASE c.connecting
  BY <1>1, ConnectMoves, StillStreamed DEF Polled
<1>2. CASE ~c.connecting
  <2> DEFINE written == {c} \cup (IF c.out = <<>> THEN {} ELSE {FlushK(c, k) : k \in 1 .. Len(c.out)} \cup Failures(c))
             Read(w) == IF w.closing \/ ~Readable(c) THEN {w}
                        ELSE ReadAvailable(w, HangUp(c)) \cup (IF HangUp(c) THEN {} ELSE {w})
             Last(r) == d = (IF HangUp(c) THEN CloseFromPeer(r) ELSE r) \/ d = Fail(r)
  <2>1. \E w \in written : \E r \in Read(w) : Last(r)
    BY <1>2 DEF Polled, Failures
  <2>2. ASSUME NEW w \in written PROVE Moves(c, w) /\ Still(c, w)
    <3>1. CASE w = c
      BY <3>1, MovesRefl
    <3>2. ASSUME NEW k \in 1 .. Len(c.out), w = FlushK(c, k) PROVE Moves(c, w) /\ Still(c, w)
      <4>1. c.out \in Seq(Nat) /\ k \in 0 .. Len(c.out)
        BY MovesTypes
      <4> QED BY <3>2, <4>1, FlushMoves
    <3>3. CASE w = Fail(c)
      BY <3>3, FailMoves
    <3> QED BY <3>1, <3>2, <3>3 DEF Failures
  <2>3. PICK w \in written : \E r \in Read(w) : Last(r)
    BY <2>1
  <2>4. PICK r \in Read(w) : Last(r)
    BY <2>3
  <2>5. Moves(c, w) /\ Still(c, w) /\ w \in ClientConnection /\ w.rx = c.rx
    BY <2>2 DEF Moves, Still
  <2>6. Moves(w, r) /\ Streamed(w, r)
    <3>1. CASE r = w
      BY <2>5, <3>1, MovesRefl
    <3>2. CASE Readable(c) /\ r \in ReadAvailable(w, HangUp(c))
      <4>1. w.rx # <<>> /\ FinLast(w.rx)
        BY <2>5, <3>2 DEF Readable
      <4> QED BY <2>5, <3>2, <4>1, ReadAvailableMoves
    <3> QED BY <2>4, <3>1, <3>2
  <2> HIDE DEF written, Read
  <2>10. Streamed(c, r)
    BY <2>5, <2>6, StreamedLeft
  <2>11. Moves(c, r)
    BY <2>5, <2>6, MovesTrans
  <2>7. Moves(c, r) /\ Streamed(c, r) /\ r \in ClientConnection
    BY <2>10, <2>11 DEF Moves
  <2>12. CASE d = Fail(r)
    <3>1. Moves(r, d) /\ Still(r, d)
      BY <2>7, <2>12, FailMoves
    <3> QED BY <1>2, <2>7, <3>1, MovesTrans, StreamedRight
  <2>8. CASE d # Fail(r) /\ HangUp(c)
    <3>1. Moves(r, d) /\ Still(r, d)
      BY <2>4, <2>7, <2>8, CloseMoves
    <3> QED BY <1>2, <2>7, <3>1, MovesTrans, StreamedRight
  <2>9. CASE d # Fail(r) /\ ~HangUp(c)
    BY <1>2, <2>4, <2>7, <2>9
  <2> QED BY <2>8, <2>9, <2>12
<1> QED BY <1>1, <1>2

----------------
(***************************************************************************)
(* What a step may leave alone.  The invariant depends on the stack and on *)
(* the microtasks through the frames and jobs they hold, so a step says    *)
(* which ones are new and which stay.                                      *)
(***************************************************************************)

\* New frames and jobs start nothing.
TypedFrames ==
    \A f \in On(stack') : f \in On(stack) \/
        /\ f.gen <= sock.gen /\ ~Looks(f)
        /\ f.fn \in {"attempting", "timedOut", "failed", "won", "attempt", "ready"} => f.n \in Id

TypedJobs ==
    /\ OneBegin(jobs')
    /\ \A j \in On(jobs') : j \in On(jobs) \/
          /\ j.gen <= sock.gen /\ ~Begins(j)
          /\ j.kind = "createFailed" => j.n \in Id

\* No new frame or job stands for an attempt or a socket being destroyed.
QuietFrames == \A f \in On(stack') : f.fn \in {"attempting", "attempt", "destroying"} => f \in On(stack)
QuietJobs == \A j \in On(jobs') : j.kind \in {"close", "createFailed"} => j \in On(jobs)

\* Frames that stay.
KeptFrames(K) == \A f \in On(stack) : f.fn \in K => f \in On(stack')

RaceSame ==
    /\ sock'.gen = sock.gen /\ sock'.connecting = sock.connecting /\ sock'.attempts = sock.attempts
    /\ settled' = settled /\ made'.attempt = made.attempt

RoundSame ==
    /\ sock'.targets = sock.targets /\ sock'.next = sock.next
    /\ made'.epoch = made.epoch /\ made'.write <= made'.call /\ lookups' \subseteq lookups

LinkSame ==
    /\ sock'.native = sock.native /\ sock'.destroyed = sock.destroyed /\ sock'.closeEmitted = sock.closeEmitted

LEMMA NatTypes ==
    ASSUME TypeOK
    PROVE  /\ sock.gen \in Nat /\ made.attempt \in Nat /\ made.epoch \in Nat /\ NTargets \in Nat \ {0} /\ MaxEpochs \in Nat
           /\ made.epoch <= MaxEpochs /\ made.write \in Nat /\ made.call \in Nat /\ made.chunk \in Nat /\ sock.targets \in Nat
           /\ sock.next \in Nat /\ Id \subseteq Nat \ {0}
           /\ stack \in Seq(Frame) /\ jobs \in Seq(Job) /\ On(stack) \subseteq Frame /\ On(jobs) \subseteq Job
           /\ sock.native \in Id \cup {NoId} /\ NoId \notin Id /\ NoId = 0
<1>1. sock.gen \in Nat /\ sock.targets \in Nat /\ sock.next \in Nat /\ sock.native \in Id \cup {NoId}
  BY DEF TypeOK, Socket
<1>2. MaxEpochs * NTargets \in Nat /\ Id \subseteq Nat \ {0} /\ NoId \notin Id /\ NoId = 0
  BY BoundsAssumption DEF Id, NoId
<1>3. made.attempt \in Nat /\ made.epoch \in Nat /\ made.epoch <= MaxEpochs /\ made.write \in Nat /\ made.call \in Nat /\ made.chunk \in Nat
  <2>1. made.attempt \in Id \cup {0} /\ made.epoch \in 0 .. MaxEpochs /\ made.chunk \in 0 .. MaxChunks
        /\ made.write \in 0 .. MaxCalls /\ made.call \in 0 .. MaxCalls
    BY DEF TypeOK
  <2>4. \A k \in Id : k \in Nat
    BY <1>2
  <2>2. made.attempt \in Nat
    BY <2>1, <2>4
  <2>3. MaxEpochs \in Nat /\ MaxChunks \in Nat /\ MaxCalls \in Nat
    BY BoundsAssumption
  <2> QED BY <2>1, <2>2, <2>3
<1> QED BY <1>1, <1>2, <1>3, OnIn, BoundsAssumption DEF TypeOK

LEMMA RaceKept ==
    ASSUME TypeOK, Typed, OneStart, Bounded, RaceSame, RoundSame, TypedFrames, TypedJobs
    PROVE  Typed' /\ OneStart' /\ Bounded'
<1>1. Typed'
  BY DEF Typed, RaceSame, RoundSame, TypedFrames, TypedJobs, FrameTyped, JobTyped, Begins
<1>2. OneStart'
  BY DEF OneStart, RaceSame, RoundSame, TypedFrames, TypedJobs
<1>3. Bounded'
  BY DEF Bounded, Left, RaceSame, RoundSame
<1> QED BY <1>1, <1>2, <1>3

LEMMA SockKept ==
    ASSUME SockInv, RaceSame, LinkSame, QuietFrames, QuietJobs, TypeOK, \A k \in Id : nat'[k].socket = nat[k].socket
    PROVE  SockInv'
<1>1. sock.native # NoId => sock.native \in Id
  BY NatTypes
<1> QED BY <1>1 DEF SockInv, RaceSame, LinkSame, QuietFrames, QuietJobs

LEMMA UncreatedKept ==
    ASSUME Uncreated, RaceSame, QuietFrames, QuietJobs,
           \A k \in 1 .. made.attempt : nat[k] = NoConnection => nat'[k] = NoConnection
    PROVE  Uncreated'
BY DEF Uncreated, RaceSame, QuietFrames, QuietJobs, Retired, Racing

LEMMA ConnsSame ==
    ASSUME Conns, nat' = nat, settled \subseteq settled', TypeOK, made'.attempt \in Nat, made'.attempt >= made.attempt
    PROVE  Conns'
<1>1. made.attempt \in Nat /\ Id \subseteq Nat
  BY NatTypes
<1>2. \A k \in Id : k > made'.attempt => k > made.attempt
  BY <1>1
<1> QED BY <1>2 DEF Conns, ConnOK

LEMMA ConnsAt ==
    ASSUME Conns, TypeOK, NEW n \in Id, nat[n].life # "none", NEW c \in ClientConnection, nat' = [nat EXCEPT ![n] = c],
           settled \subseteq settled', made'.attempt = made.attempt, c.life # "none",
           c.socket => n \in settled', EventsOK(c), ~c.socket => Bare(c)
    PROVE  Conns' /\ \A k \in 1 .. made.attempt : nat[k] = NoConnection => nat'[k] = NoConnection
<1>1. nat'[n] = c /\ \A k \in Id : k # n => nat'[k] = nat[k]
  BY DEF TypeOK
<1>2. ~(n > made.attempt) /\ nat[n] # NoConnection
  BY DEF Conns, ConnOK, NoConnection
<1>3. ConnOK(n, nat[n])'
  BY <1>1, <1>2 DEF ConnOK
<1>4. ASSUME NEW k \in Id, k # n PROVE ConnOK(k, nat[k])'
  BY <1>1, <1>4 DEF Conns, ConnOK
<1>5. \A k : nat[k] = NoConnection => nat'[k] = NoConnection \/ k = n
  BY DEF TypeOK
<1>6. \A k \in 1 .. made.attempt : nat[k] = NoConnection => nat'[k] = NoConnection
  BY <1>2, <1>5
<1> QED BY <1>3, <1>4, <1>6 DEF Conns

LEMMA OpenKept ==
    ASSUME \A k \in Id : OpenOK(k), AttemptOK, TypeOK, RaceSame, LinkSame, QuietFrames, Typed, Typed',
           KeptFrames({"ready", "attempt", "destroying"}),
           \A k \in Id : /\ nat'[k].life = nat[k].life /\ nat'[k].closing = nat[k].closing
                         /\ nat'[k].connecting = nat[k].connecting
    PROVE  (\A k \in Id : OpenOK(k)') /\ AttemptOK'
<1>1. ASSUME NEW k \in Id, ReadyFor(k) PROVE ReadyFor(k)'
  BY <1>1 DEF ReadyFor, KeptFrames
<1>2. Holds("destroying") => Holds("destroying")'
  BY DEF Holds, KeptFrames
<1>3. ASSUME NEW k \in Id PROVE OpenOK(k)'
  BY <1>1, <1>2 DEF OpenOK, Owned, Racing, RaceSame, LinkSame, KeptFrames
<1>4. AttemptOK'
  <2> SUFFICES ASSUME NEW f \in On(stack'), f.fn = "attempt"
               PROVE  f.n \in Racing' /\ nat'[f.n].life = "open"
    BY DEF AttemptOK
  <2>1. f \in On(stack) /\ f.n \in Racing /\ nat[f.n].life = "open" /\ f.n \in Id
    BY DEF QuietFrames, AttemptOK, Typed, FrameTyped
  <2> QED BY <2>1 DEF Racing, RaceSame
<1> QED BY <1>3, <1>4

LEMMA EndKept ==
    ASSUME EndAnswered, TypeOK, LinkSame, sock'.ready = sock.ready, KeptFrames({"ready", "dispatch", "ended"}),
           \A k \in Id : /\ nat'[k].life = nat[k].life /\ nat'[k].closing = nat[k].closing
                         /\ nat'[k].endRequested = nat[k].endRequested /\ nat'[k].peerEnded = nat[k].peerEnded
                         /\ "end" \in On(nat[k].events) => "end" \in On(nat'[k].events)
    PROVE  EndAnswered'
<1>1. ASSUME NEW k \in Id, ReadyFor(k) PROVE ReadyFor(k)'
  BY <1>1 DEF ReadyFor, KeptFrames
<1>2. (Holds("dispatch") => Holds("dispatch")') /\ (Holds("ended") => Holds("ended")')
  BY DEF Holds, KeptFrames
<1>3. sock.native # NoId => sock.native \in Id
  BY NatTypes
<1> QED BY <1>1, <1>2, <1>3 DEF EndAnswered, LinkSame

LEMMA WritesSame ==
    ASSUME WritesKept, TypeOK, LinkSame, sock'.connecting = sock.connecting, sock'.writes = sock.writes, wrote' = wrote,
           \A k \in Id : nat'[k].closing = nat[k].closing /\ nat'[k].sent \o nat'[k].out = nat[k].sent \o nat[k].out
    PROVE  WritesKept'
<1>1. sock.native # NoId => sock.native \in Id
  BY NatTypes
<1> QED BY <1>1 DEF WritesKept, LinkSame

LEMMA StreamSame ==
    ASSUME TypeOK, sock'.native = sock.native, sock'.held = sock.held, got' = got,
           \A k \in Id : nat'[k].chunks = nat[k].chunks /\ nat'[k].rx = nat[k].rx
    PROVE  Stream' = Stream
<1>1. sock.native # NoId => sock.native \in Id
  BY NatTypes
<1> QED BY <1>1 DEF Stream

LEMMA DataSame ==
    ASSUME DataInv, TypeOK, sock'.native = sock.native, sock'.held = sock.held, sock'.paused = sock.paused, got' = got,
           made'.chunk = made.chunk, KeptFrames({"resume"}),
           \A k \in Id : nat'[k].chunks = nat[k].chunks /\ nat'[k].rx = nat[k].rx
    PROVE  DataInv'
<1>1. sock.native # NoId => sock.native \in Id
  BY NatTypes
<1>2. Stream' = Stream
  BY <1>1 DEF Stream
<1>3. HeldOK'
  BY DEF DataInv, HeldOK, Holds, KeptFrames
<1> QED BY <1>1, <1>2, <1>3 DEF DataInv

\* The top frame and the stack below it.
LEMMA TopFacts ==
    ASSUME TypeOK, Shaped(stack), NEW fn, Running(fn)
    PROVE  /\ stack # <<>> /\ Top \in Frame /\ Top.fn = fn /\ Top \in On(stack)
           /\ Rest \in Seq(Frame) /\ Shaped(Rest) /\ On(stack) = {Top} \cup On(Rest)
           /\ \A g \in On(Rest) : Above(fn, g.fn) /\ g.fn # "attempt"
<1>1. stack \in Seq(Frame) /\ stack # <<>> /\ Top.fn = fn
  BY DEF TypeOK, Running
<1>2. /\ stack[1] \in Frame /\ Tail(stack) \in Seq(Frame) /\ Shaped(Tail(stack)) /\ On(stack) = {stack[1]} \cup On(Tail(stack))
      /\ \A g \in On(Tail(stack)) : Above(stack[1].fn, g.fn)
  BY <1>1, ShapePop
<1>3. \A f : ~Above(f, "attempt")
  BY DEF Above
<1> QED BY <1>1, <1>2, <1>3 DEF Top, Rest

LEMMA CallIs == Call \in Frame /\ Call.fn = "call" /\ Call.gen = 0 /\ ~Looks(Call)
BY DEF Call, Frame, Looks

LEMMA TellOn ==
    ASSUME NEW base \in Seq(Frame), Shaped(base), \A g \in On(base) : g.fn # "attempt"
    PROVE  <<Call>> \o base \in Seq(Frame) /\ Shaped(<<Call>> \o base) /\ On(<<Call>> \o base) = {Call} \cup On(base)
<1>1. \A g \in On(base) : Above(Call.fn, g.fn)
  BY CallIs DEF Above, Inner
<1> QED BY <1>1, CallIs, ShapePush

\* A listener is called with frame f to come after it.
LEMMA TellOver ==
    ASSUME NEW base \in Seq(Frame), Shaped(base), NEW f \in Frame, f.fn # "attempt",
           \A g \in On(base) : g.fn # "attempt" /\ Above(f.fn, g.fn)
    PROVE  LET s == <<Call>> \o (<<f>> \o base) IN s \in Seq(Frame) /\ Shaped(s) /\ On(s) = {Call, f} \cup On(base)
<1> DEFINE b == <<f>> \o base
<1>1. b \in Seq(Frame) /\ Shaped(b) /\ On(b) = {f} \cup On(base)
  BY ShapePush
<1> HIDE DEF b
<1>2. \A g \in On(b) : g.fn # "attempt"
  BY <1>1
<1>3. <<Call>> \o b \in Seq(Frame) /\ Shaped(<<Call>> \o b) /\ On(<<Call>> \o b) = {Call} \cup On(b)
  BY <1>1, <1>2, TellOn
<1> QED BY <1>1, <1>3 DEF b

LEMMA FIs ==
    ASSUME TypeOK, NEW fn, NEW n \in Nat
    PROVE  /\ F(fn, n).fn = fn /\ F(fn, n).gen = sock.gen /\ F(fn, n).n = n
           /\ fn \in {"call", "looked", "lookedOne", "lookFailed", "attempting", "timedOut",
                "failed", "destroying", "won", "finished", "ended", "dispatch", "attempt",
                "ready", "resume"} => F(fn, n) \in Frame
BY NatTypes DEF F, Frame

Steady ==
    /\ RaceSame /\ RoundSame /\ LinkSame /\ sock'.ready = sock.ready /\ sock'.held = sock.held /\ sock'.paused = sock.paused
    /\ sock'.writes = sock.writes /\ nat' = nat /\ wrote' = wrote /\ got' = got /\ made'.chunk = made.chunk
    /\ TypedFrames /\ QuietFrames /\ TypedJobs /\ QuietJobs /\ KeptFrames({"ready", "attempt", "destroying"})

LEMMA SteadyKeeps ==
    ASSUME SocketInv, TypeOK', Shaped(stack)', Steady, EndAnswered', HeldOK'
    PROVE  SocketInv'
<1>0. TypeOK /\ Typed /\ OneStart /\ Bounded /\ SockInv /\ Uncreated /\ Conns /\ Leaks /\ WritesKept /\ DataInv
  BY DEF SocketInv
<1>1. Typed' /\ OneStart' /\ Bounded'
  BY <1>0, RaceKept DEF Steady
<1>2. SockInv'
  BY <1>0, SockKept DEF Steady
<1>3. Uncreated'
  BY <1>0, UncreatedKept DEF Steady
<1>4. Conns'
  <2>1. made.attempt \in Nat /\ made'.attempt = made.attempt /\ settled \subseteq settled' /\ nat' = nat
    BY <1>0, NatTypes DEF Steady, RaceSame
  <2> QED BY <1>0, <2>1, ConnsSame
<1>5. Leaks'
  <2>1. (\A k \in Id : OpenOK(k)') /\ AttemptOK'
    BY <1>0, <1>1, OpenKept DEF Steady, Leaks
  <2> QED BY <2>1 DEF Leaks
<1>6. WritesKept'
  BY <1>0, WritesSame DEF Steady, RaceSame
<1>7. DataInv'
  BY <1>0 DEF DataInv, Stream, Steady, LinkSame
<1> QED BY <1>1, <1>2, <1>3, <1>4, <1>5, <1>6, <1>7 DEF SocketInv

LEMMA Stays ==
    ASSUME SocketInv, TypeOK', Shaped(stack)', Steady, KeptFrames({"dispatch", "ended", "resume"})
    PROVE  SocketInv'
<1>1. EndAnswered'
  <2>1. KeptFrames({"ready", "dispatch", "ended"})
    BY DEF Steady, KeptFrames
  <2> QED BY <2>1, EndKept DEF SocketInv, Leaks, Steady
<1>2. HeldOK'
  BY DEF SocketInv, DataInv, HeldOK, Holds, KeptFrames, Steady
<1> QED BY <1>1, <1>2, SteadyKeeps

\* The stack after a listener or a handler returned.
LEMMA PopFrames ==
    ASSUME TypeOK, Shaped(stack), NEW fn, Running(fn), stack' = Rest
    PROVE  /\ stack' \in Seq(Frame) /\ Shaped(stack)' /\ TypedFrames /\ QuietFrames /\ On(stack') = On(Rest)
           /\ \A f \in On(stack) : f.fn # fn => f \in On(stack')
<1>1. /\ Rest \in Seq(Frame) /\ Shaped(Rest) /\ On(stack) = {Top} \cup On(Rest) /\ Top.fn = fn
  BY TopFacts
<1>2. On(stack') = On(Rest) /\ Shaped(stack')
  BY <1>1
<1> QED BY <1>1, <1>2 DEF TypedFrames, QuietFrames

\* The stack after an emit inside a handler.
LEMMA TellFrames ==
    ASSUME TypeOK, Shaped(stack), NEW fn, Running(fn), fn # "attempt", stack' = <<Call>> \o stack
    PROVE  /\ stack' \in Seq(Frame) /\ Shaped(stack)' /\ TypedFrames /\ QuietFrames /\ On(stack') = {Call} \cup On(stack)
           /\ \A f \in On(stack) : f \in On(stack')
<1>1. stack \in Seq(Frame) /\ \A g \in On(stack) : g.fn # "attempt"
  BY TopFacts DEF TypeOK
<1>2. stack' \in Seq(Frame) /\ Shaped(stack') /\ On(stack') = {Call} \cup On(stack)
  BY <1>1, TellOn
<1>3. sock.gen \in Nat
  BY NatTypes
<1> QED BY <1>2, <1>3, CallIs DEF TypedFrames, QuietFrames

LEMMA SameFrames ==
    ASSUME TypeOK, stack' = stack
    PROVE  TypedFrames /\ QuietFrames /\ \A K : KeptFrames(K)
BY DEF TypedFrames, QuietFrames, KeptFrames

LEMMA SameJobs ==
    ASSUME TypeOK, OneStart, jobs' = jobs
    PROVE  TypedJobs /\ QuietJobs
<1>1. OneBegin(jobs') /\ On(jobs') = On(jobs)
  BY DEF OneStart
<1> QED BY <1>1 DEF TypedJobs, QuietJobs

LEMMA TailJobs ==
    ASSUME TypeOK, OneStart, jobs # <<>>, jobs' = Tail(jobs)
    PROVE  jobs' \in Seq(Job) /\ TypedJobs /\ QuietJobs /\ Head(jobs) \in On(jobs) /\ On(jobs') \subseteq On(jobs)
<1>1. jobs \in Seq(Job) /\ OneBegin(jobs)
  BY DEF TypeOK, OneStart
<1>2. Tail(jobs) \in Seq(Job) /\ OneBegin(Tail(jobs)) /\ On(jobs) = {Head(jobs)} \cup On(Tail(jobs))
  BY <1>1, QueueTail
<1>3. OneBegin(jobs') /\ On(jobs) = {Head(jobs)} \cup On(jobs')
  BY <1>2
<1> QED BY <1>2, <1>3 DEF TypedJobs, QuietJobs

----------------
(* Steps that change nothing but what is left to do *)

Counts ==
    [attempt : Id \cup {0}, epoch : 0 .. MaxEpochs, chunk : 0 .. MaxChunks,
     write : 0 .. MaxCalls, call : 0 .. MaxCalls]

LEMMA CountCallFacts ==
    ASSUME TypeOK, CountCall
    PROVE  /\ made' \in Counts /\ made'.attempt = made.attempt /\ made'.epoch = made.epoch /\ made'.chunk = made.chunk
           /\ made'.write = made.write /\ made'.call = made.call + 1
<1>1. made \in Counts /\ made.call + 1 \in 0 .. MaxCalls
  <2>1. made \in Counts /\ MaxCalls \in Nat /\ made.call \in 0 .. MaxCalls
    BY BoundsAssumption DEF TypeOK, Counts
  <2> QED BY <2>1 DEF CountCall
<1> DEFINE c == made.call + 1
<1> HIDE DEF c
<1>2. made' = [made EXCEPT !.call = c] /\ c \in 0 .. MaxCalls
  BY <1>1 DEF CountCall, c
<1>3. made' \in Counts
  BY <1>1, <1>2 DEF Counts
<1>4. /\ made'.attempt = made.attempt /\ made'.epoch = made.epoch /\ made'.chunk = made.chunk
      /\ made'.write = made.write /\ made'.call = c
  BY <1>1, <1>2 DEF Counts
<1> QED BY <1>3, <1>4 DEF c

LEMMA ServeFacts ==
    ASSUME TypeOK, NEW w \in Id \cup {Other}, Serve(w)
    PROVE  served' \subseteq Id \cup {Other}
BY DEF TypeOK, Serve

LEMMA StaySame ==
    ASSUME SocketInv, UNCHANGED <<sock, settled, nat, lookups, wrote, got>>,
           made'.attempt = made.attempt, made'.epoch = made.epoch, made'.chunk = made.chunk, made'.write = made.write,
           made'.call = made.call \/ made'.call = made.call + 1,
           TypedFrames, QuietFrames, TypedJobs, QuietJobs, KeptFrames({"ready", "attempt", "destroying"})
    PROVE  Steady
<1>1. made.write <= made.call /\ made.write \in Nat /\ made.call \in Nat
  BY NatTypes DEF SocketInv, Typed
<1>2. made'.write <= made'.call
  BY <1>1
<1> QED BY <1>2 DEF Steady, RaceSame, RoundSame, LinkSame

LEMMA TurnKeeps ==
    ASSUME SocketInv, Turn
    PROVE  SocketInv'
<1>1. TypeOK /\ OneStart /\ stack = <<>> /\ stack' = <<Call>> /\ jobs' = jobs /\ CountCall
  BY DEF SocketInv, Turn
<1>2. served' \subseteq Id \cup {Other}
  BY <1>1, ServeFacts DEF Turn, TypeOK
<1>3. stack' \in Seq(Frame) /\ Shaped(stack)' /\ TypedFrames /\ QuietFrames /\ On(stack) = {}
  <2>1. <<Call>> \o <<>> = <<Call>>
    BY CallIs, ConcatEmptySeq
  <2>2. On(<<>>) = {} /\ <<>> \in Seq(Frame) /\ Shaped(<<>>)
    BY ShapeNone
  <2>3. <<Call>> \in Seq(Frame) /\ Shaped(<<Call>>) /\ On(<<Call>>) = {Call}
    BY <2>1, <2>2, TellOn
  <2>4. Shaped(stack') /\ On(stack') = {Call}
    BY <1>1, <2>3
  <2>5. sock.gen \in Nat
    BY <1>1, NatTypes
  <2> QED BY <1>1, <2>2, <2>3, <2>4, <2>5, CallIs DEF TypedFrames, QuietFrames
<1>4. TypeOK'
  BY <1>1, <1>2, <1>3, CountCallFacts DEF TypeOK, Turn, Counts
<1>5. Steady
  BY <1>1, <1>3, CountCallFacts, SameJobs, StaySame DEF Turn, KeptFrames
<1> QED BY <1>3, <1>4, <1>5, Stays DEF KeptFrames

LEMMA PopKeeps ==
    ASSUME SocketInv, NEW fn, Running(fn), fn \notin {"ready", "attempt", "destroying", "dispatch", "ended", "resume"},
           stack' = Rest, UNCHANGED <<sock, settled, nat, lookups, jobs, served, made, seen, wrote, got>>
    PROVE  SocketInv'
<1>1. TypeOK /\ OneStart /\ Shaped(stack)
  BY DEF SocketInv
<1>2. /\ stack' \in Seq(Frame) /\ Shaped(stack)' /\ TypedFrames /\ QuietFrames
      /\ \A f \in On(stack) : f.fn # fn => f \in On(stack')
  BY <1>1, PopFrames
<1>3. TypeOK'
  BY <1>1, <1>2 DEF TypeOK
<1>4. KeptFrames({"ready", "attempt", "destroying"}) /\ KeptFrames({"dispatch", "ended", "resume"})
  BY <1>2 DEF KeptFrames
<1>5. Steady
  BY <1>1, <1>2, <1>4, SameJobs, StaySame
<1> QED BY <1>2, <1>3, <1>4, <1>5, Stays

LEMMA ReturnKeeps ==
    ASSUME SocketInv, Return
    PROVE  SocketInv'
<1>1. Running("call") /\ stack' = Rest /\ UNCHANGED <<sock, settled, nat, lookups, jobs, served, made, seen, wrote, got>>
  BY DEF Return, Continue
<1> QED BY <1>1, PopKeeps

\* The event loop ends when there are no events, so none of them is the peer's end.
LEMMA DispatchDoneKeeps ==
    ASSUME SocketInv, DispatchDone
    PROVE  SocketInv'
<1>1. TypeOK /\ OneStart /\ Shaped(stack) /\ EndAnswered /\ HeldOK
  BY DEF SocketInv, Leaks, DataInv
<1>2. Running("dispatch") /\ stack' = Rest /\ Events = <<>> /\ UNCHANGED <<sock, settled, nat, lookups, jobs, served, made, seen, wrote, got>>
  BY DEF DispatchDone, Continue
<1>3. /\ stack' \in Seq(Frame) /\ Shaped(stack)' /\ TypedFrames /\ QuietFrames
      /\ \A f \in On(stack) : f.fn # "dispatch" => f \in On(stack')
  BY <1>1, <1>2, PopFrames
<1>4. TypeOK'
  BY <1>1, <1>2, <1>3 DEF TypeOK
<1>5. KeptFrames({"ready", "attempt", "destroying"})
  BY <1>3 DEF KeptFrames
<1>6. Steady
  BY <1>1, <1>2, <1>3, <1>5, SameJobs, StaySame
<1>7. sock.native # NoId => "end" \notin On(nat[sock.native].events)
  BY <1>2, OnNone DEF Events
<1>8. (Holds("ended") => Holds("ended")') /\ (Holds("resume") => Holds("resume")') /\ \A k : ReadyFor(k) => ReadyFor(k)'
  BY <1>3 DEF Holds, ReadyFor
<1>9. EndAnswered'
  BY <1>1, <1>2, <1>7, <1>8 DEF EndAnswered
<1>10. HeldOK'
  BY <1>1, <1>2, <1>8 DEF HeldOK
<1> QED BY <1>3, <1>4, <1>6, <1>9, <1>10, SteadyKeeps

\* From an empty stack: a microtask, the attempt timer, an answer that comes too late.
LEMMA IdleKeeps ==
    ASSUME SocketInv, stack = <<>>, TypeOK', Shaped(stack)',
           sock' = [sock EXCEPT !.timer = sock'.timer], UNCHANGED <<settled, nat, made, wrote, got>>, lookups' \subseteq lookups,
           jobs' = jobs \/ (jobs # <<>> /\ jobs' = Tail(jobs)),
           \A f \in On(stack') : f.gen <= sock.gen /\ f.fn \in {"call", "dispatch", "timedOut"} /\ (f.fn = "timedOut" => f.n \in Id)
    PROVE  SocketInv'
<1>1. TypeOK /\ OneStart /\ On(stack) = {}
  BY OnNone DEF SocketInv
<1>2. TypedJobs /\ QuietJobs
  BY <1>1, SameJobs, TailJobs
<1>3. TypedFrames /\ QuietFrames
  BY DEF TypedFrames, QuietFrames, Looks
<1>4. \A K : KeptFrames(K)
  BY <1>1 DEF KeptFrames
<1>5. RaceSame /\ LinkSame /\ sock'.ready = sock.ready /\ sock'.held = sock.held /\ sock'.paused = sock.paused
      /\ sock'.writes = sock.writes /\ sock'.targets = sock.targets /\ sock'.next = sock.next
  <2> DEFINE t == sock'.timer
  <2> HIDE DEF t
  <2>1. sock \in Socket /\ sock' = [sock EXCEPT !.timer = t]
    BY <1>1 DEF TypeOK, t
  <2> QED BY <2>1 DEF Socket, RaceSame, LinkSame
<1>6. made.write <= made.call
  BY DEF SocketInv, Typed
<1>7. Steady
  BY <1>2, <1>3, <1>4, <1>5, <1>6 DEF Steady, RoundSame
<1> QED BY <1>4, <1>7, Stays

LEMMA SockSame ==
    ASSUME TypeOK, sock' = sock
    PROVE  sock' = [sock EXCEPT !.timer = sock'.timer]
BY DEF TypeOK, Socket

\* The stacks of one or two frames.
LEMMA SmallStacks ==
    ASSUME TypeOK
    PROVE  /\ <<>> \in Seq(Frame) /\ Shaped(<<>>) /\ On(<<>>) = {}
           /\ <<Call>> \o <<>> \in Seq(Frame) /\ Shaped(<<Call>> \o <<>>) /\ On(<<Call>> \o <<>>) = {Call}
           /\ \A f \in Frame : /\ <<f>> \in Seq(Frame) /\ Shaped(<<f>>) /\ On(<<f>>) = {f}
                               /\ f.fn # "attempt" =>
                                     LET s == <<Call>> \o <<f>> IN s \in Seq(Frame) /\ Shaped(s) /\ On(s) = {Call, f}
<1>1. <<>> \in Seq(Frame) /\ Shaped(<<>>) /\ On(<<>>) = {}
  BY ShapeNone
<1>2. <<Call>> \o <<>> \in Seq(Frame) /\ Shaped(<<Call>> \o <<>>) /\ On(<<Call>> \o <<>>) = {Call}
  BY <1>1, TellOn
<1>3. ASSUME NEW f \in Frame
      PROVE  <<f>> \in Seq(Frame) /\ Shaped(<<f>>) /\ On(<<f>>) = {f}
  <2>1. <<f>> \o <<>> = <<f>>
    BY ConcatEmptySeq
  <2> QED BY <1>1, <2>1, ShapePush
<1>4. ASSUME NEW f \in Frame, f.fn # "attempt"
      PROVE  LET s == <<Call>> \o <<f>> IN s \in Seq(Frame) /\ Shaped(s) /\ On(s) = {Call, f}
  <2>1. <<f>> \in Seq(Frame) /\ Shaped(<<f>>) /\ On(<<f>>) = {f}
    BY <1>3
  <2>2. \A g \in On(<<f>>) : g.fn # "attempt"
    BY <1>4, <2>1
  <2>3. <<Call>> \o <<f>> \in Seq(Frame) /\ Shaped(<<Call>> \o <<f>>) /\ On(<<Call>> \o <<f>>) = {Call} \cup On(<<f>>)
    BY <2>1, <2>2, TellOn
  <2> QED BY <2>1, <2>3
<1> QED BY <1>1, <1>2, <1>3, <1>4

LEMMA JobNotifyKeeps ==
    ASSUME SocketInv, JobNotify
    PROVE  SocketInv'
<1>1. /\ TypeOK /\ OneStart /\ stack = <<>> /\ jobs # <<>> /\ jobs' = Tail(jobs) /\ served' = {}
      /\ stack' = <<F("dispatch", Head(jobs).n)>> /\ UNCHANGED <<sock, settled, nat, lookups, made, seen, wrote, got>>
  BY DEF SocketInv, JobNotify, Drained, Drains, Continue
<1>2. Head(jobs) \in Job /\ Head(jobs).n \in Nat /\ sock.gen \in Nat
  <2>1. Head(jobs) \in Job
    BY <1>1 DEF TypeOK
  <2> QED BY <1>1, <2>1, NatTypes DEF Job
<1> DEFINE f == F("dispatch", Head(jobs).n)
<1>3. f \in Frame /\ f.fn = "dispatch" /\ f.gen = sock.gen
  BY <1>1, <1>2, FIs
<1> HIDE DEF f
<1>4. <<f>> \in Seq(Frame) /\ Shaped(<<f>>) /\ On(<<f>>) = {f} /\ stack' = <<f>>
  BY <1>1, <1>3, SmallStacks DEF f
<1>5. Shaped(stack)' /\ On(stack') = {f}
  BY <1>4
<1>6. TypeOK'
  BY <1>1, <1>4, TailJobs DEF TypeOK
<1> QED BY <1>1, <1>2, <1>3, <1>5, <1>6, SockSame, IdleKeeps

\* A microtask whose connect() is over, and the callback of end().
LEMMA JobIdleKeeps ==
    ASSUME SocketInv, stack = <<>>, jobs # <<>>, jobs' = Tail(jobs), served' = {},
           stack' = <<>> \/ stack' = <<Call>> \o <<>>,
           UNCHANGED <<sock, settled, nat, lookups, made, seen, wrote, got>>
    PROVE  SocketInv'
<1>1. TypeOK /\ OneStart /\ sock.gen \in Nat
  BY NatTypes DEF SocketInv
<1>2. stack' \in Seq(Frame) /\ Shaped(stack') /\ \A f \in On(stack') : f = Call
  BY <1>1, SmallStacks
<1>3. TypeOK'
  BY <1>1, <1>2, TailJobs DEF TypeOK
<1>4. Shaped(stack)' /\ \A f \in On(stack') : f.gen <= sock.gen /\ f.fn = "call"
  BY <1>1, <1>2, CallIs
<1> QED BY <1>1, <1>3, <1>4, SockSame, IdleKeeps

LEMMA JobFinishKeeps ==
    ASSUME SocketInv, JobFinish
    PROVE  SocketInv'
BY JobIdleKeeps DEF JobFinish, Drained, Drains, Tell

LEMMA AttemptTimerKeeps ==
    ASSUME SocketInv, AttemptTimer
    PROVE  SocketInv'
<1>1. /\ TypeOK /\ stack = <<>> /\ sock.timer # NoId /\ sock' = [sock EXCEPT !.timer = NoId]
      /\ UNCHANGED <<settled, nat, lookups, jobs, served, made, wrote, seen, got>>
      /\ stack' = <<>> \/ stack' = <<Call>> \o <<F("timedOut", sock.timer)>>
  BY DEF SocketInv, AttemptTimer, Tell, Continue
<1>2. sock.timer \in Id /\ sock.timer \in Nat /\ sock.gen \in Nat
  BY <1>1, NatTypes DEF TypeOK, Socket
<1> DEFINE f == F("timedOut", sock.timer)
<1>3. f \in Frame /\ f.fn = "timedOut" /\ f.gen = sock.gen /\ f.n = sock.timer
  BY <1>1, <1>2, FIs
<1> HIDE DEF f
<1>4. stack' \in Seq(Frame) /\ Shaped(stack') /\ On(stack') \subseteq {Call, f}
  BY <1>1, <1>3, SmallStacks DEF f
<1>5. sock' \in Socket /\ sock' = [sock EXCEPT !.timer = sock'.timer]
  BY <1>1 DEF TypeOK, Socket
<1>6. TypeOK'
  BY <1>1, <1>4, <1>5 DEF TypeOK
<1>7. Shaped(stack)' /\ \A g \in On(stack') : g.gen <= sock.gen /\ g.fn \in {"call", "dispatch", "timedOut"} /\ (g.fn = "timedOut" => g.n \in Id)
  BY <1>2, <1>3, <1>4, CallIs
<1> QED BY <1>1, <1>5, <1>6, <1>7, IdleKeeps

----------------
(* The event loop *)

LEMMA NativeIs ==
    ASSUME SocketInv, sock.native # NoId
    PROVE  /\ sock.native \in Id /\ sock.native \in settled /\ nat[sock.native] \in ClientConnection
           /\ nat[sock.native].socket /\ nat[sock.native].life # "none" /\ ~sock.connecting /\ EventsOK(nat[sock.native])
<1>1. sock.native \in Id /\ nat[sock.native] \in ClientConnection
  BY NatTypes DEF SocketInv, TypeOK
<1>2. ~sock.connecting /\ sock.native \in settled /\ nat[sock.native].socket
  BY DEF SocketInv, SockInv
<1>3. ConnOK(sock.native, nat[sock.native])
  BY <1>1 DEF SocketInv, Conns
<1>4. nat[sock.native].life # "none"
  BY <1>2, <1>3 DEF ConnOK, NoConnection
<1> QED BY <1>1, <1>2, <1>3, <1>4 DEF ConnOK

PopOf(c) == [c EXCEPT !.events = Tail(@)]

LEMMA PopOfFacts ==
    ASSUME NEW c \in ClientConnection, c.events # <<>>
    PROVE  /\ PopOf(c) \in ClientConnection /\ PopOf(c).life = c.life /\ PopOf(c).closing = c.closing
           /\ PopOf(c).connecting = c.connecting /\ PopOf(c).endRequested = c.endRequested
           /\ PopOf(c).peerEnded = c.peerEnded /\ PopOf(c).finished = c.finished /\ PopOf(c).socket = c.socket
           /\ PopOf(c).chunks = c.chunks /\ PopOf(c).rx = c.rx /\ PopOf(c).sent = c.sent /\ PopOf(c).out = c.out
           /\ PopOf(c).events = Tail(c.events) /\ On(c.events) = {Head(c.events)} \cup On(PopOf(c).events)
           /\ EventsOK(c) /\ Head(c.events) # "data" => EventsOK(PopOf(c))
<1>1. c.events \in Seq(Code)
  BY MovesTypes
<1>2. Tail(c.events) \in Seq(Code) /\ On(c.events) = {Head(c.events)} \cup On(Tail(c.events))
  BY <1>1, OnPop
<1> DEFINE t == Tail(c.events)
           d == PopOf(c)
<1> HIDE DEF t
<1>3. d = [c EXCEPT !.events = t] /\ t \in Seq(Code)
  BY <1>2 DEF PopOf, t, ClientConnection
<1>4. d \in ClientConnection
  BY <1>3 DEF ClientConnection
<1>5. /\ d.life = c.life /\ d.closing = c.closing /\ d.connecting = c.connecting /\ d.endRequested = c.endRequested
      /\ d.peerEnded = c.peerEnded /\ d.finished = c.finished /\ d.socket = c.socket
      /\ d.chunks = c.chunks /\ d.rx = c.rx /\ d.sent = c.sent /\ d.out = c.out /\ d.events = t
  BY <1>3 DEF ClientConnection
<1> HIDE DEF d
<1>6. On(c.events) = {Head(c.events)} \cup On(d.events) /\ d.events = Tail(c.events)
  BY <1>2, <1>5 DEF t
<1>7. EventsOK(c) /\ Head(c.events) # "data" => EventsOK(d)
  <2>1. Head(c.events) # "data" => Cardinality(DataAt(d.events)) = Cardinality(DataAt(c.events))
    BY <1>1, <1>6, CountTail
  <2> QED BY <1>5, <1>6, <2>1 DEF EventsOK
<1> QED BY <1>4, <1>5, <1>6, <1>7 DEF d

\* Everything but the events of the socket's connection is as it was.
OnlyEvents(n) ==
    /\ nat' \in [Id -> ClientConnection]
    /\ \A k \in Id :
          /\ nat'[k].life = nat[k].life /\ nat'[k].closing = nat[k].closing /\ nat'[k].connecting = nat[k].connecting
          /\ nat'[k].endRequested = nat[k].endRequested /\ nat'[k].peerEnded = nat[k].peerEnded
          /\ nat'[k].socket = nat[k].socket /\ nat'[k].chunks = nat[k].chunks /\ nat'[k].rx = nat[k].rx
          /\ nat'[k].sent = nat[k].sent /\ nat'[k].out = nat[k].out
          /\ k # n => nat'[k] = nat[k]

LEMMA PopFacts ==
    ASSUME SocketInv, NEW n \in Id, nat[n].life # "none", nat[n].events # <<>>, Head(nat[n].events) # "data",
           nat' = [nat EXCEPT ![n] = PopOf(nat[n])], settled \subseteq settled', made'.attempt = made.attempt
    PROVE  /\ OnlyEvents(n) /\ Conns' /\ On(nat[n].events) = {Head(nat[n].events)} \cup On(nat'[n].events)
           /\ \A k \in 1 .. made.attempt : nat[k] = NoConnection => nat'[k] = NoConnection
<1>1. TypeOK /\ Conns /\ nat \in [Id -> ClientConnection] /\ nat[n] \in ClientConnection /\ ConnOK(n, nat[n])
  BY DEF SocketInv, TypeOK, Conns
<1> DEFINE c == nat[n]
           d == PopOf(c)
<1>2. /\ d \in ClientConnection /\ d.life = c.life /\ d.closing = c.closing /\ d.connecting = c.connecting
      /\ d.endRequested = c.endRequested /\ d.peerEnded = c.peerEnded /\ d.finished = c.finished /\ d.socket = c.socket
      /\ d.chunks = c.chunks /\ d.rx = c.rx /\ d.sent = c.sent /\ d.out = c.out
      /\ On(c.events) = {Head(c.events)} \cup On(d.events)
      /\ EventsOK(c) /\ Head(c.events) # "data" => EventsOK(d)
  BY <1>1, PopOfFacts
<1> HIDE DEF d
<1>3. nat' = [nat EXCEPT ![n] = d]
  BY DEF d
<1>4. nat' \in [Id -> ClientConnection] /\ nat'[n] = d /\ \A k \in Id : k # n => nat'[k] = nat[k]
  BY <1>1, <1>2, <1>3
<1>5. OnlyEvents(n)
  BY <1>2, <1>4 DEF OnlyEvents
<1>6. EventsOK(d) /\ (d.socket => n \in settled') /\ (~d.socket => Bare(d)) /\ d.life # "none"
  BY <1>1, <1>2 DEF ConnOK, Bare
<1>7. Conns' /\ \A k \in 1 .. made.attempt : nat[k] = NoConnection => nat'[k] = NoConnection
  BY <1>1, <1>2, <1>3, <1>6, ConnsAt
<1> QED BY <1>2, <1>4, <1>5, <1>7

LEMMA EventKeeps ==
    ASSUME SocketInv, TypeOK', Shaped(stack)', sock.native # NoId, OnlyEvents(sock.native), Conns',
           \A k \in 1 .. made.attempt : nat[k] = NoConnection => nat'[k] = NoConnection,
           RaceSame, RoundSame, LinkSame, sock'.held = sock.held, sock'.paused = sock.paused, sock'.writes = sock.writes,
           UNCHANGED <<jobs, wrote, got>>, made'.chunk = made.chunk, TypedFrames, QuietFrames, \A f \in On(stack) : f \in On(stack'),
           EndAnswered'
    PROVE  SocketInv'
<1>0. TypeOK /\ Typed /\ OneStart /\ Bounded /\ SockInv /\ Uncreated /\ Conns /\ Leaks /\ WritesKept /\ DataInv
  BY DEF SocketInv
<1>1. TypedJobs /\ QuietJobs /\ \A K : KeptFrames(K)
  BY <1>0, SameJobs DEF KeptFrames
<1>2. Typed' /\ OneStart' /\ Bounded'
  BY <1>0, <1>1, RaceKept
<1>3. SockInv'
  BY <1>0, <1>1, SockKept DEF OnlyEvents
<1>4. Uncreated'
  BY <1>0, <1>1, UncreatedKept
<1>5. Leaks'
  <2>1. (\A k \in Id : OpenOK(k)') /\ AttemptOK'
    BY <1>0, <1>1, <1>2, OpenKept DEF OnlyEvents, Leaks
  <2> QED BY <2>1 DEF Leaks
<1>6. WritesKept'
  BY <1>0, WritesSame DEF OnlyEvents, RaceSame
<1>7. DataInv'
  BY <1>0, <1>1, DataSame DEF OnlyEvents, LinkSame
<1> QED BY <1>2, <1>3, <1>4, <1>5, <1>6, <1>7 DEF SocketInv

\* An event is taken off the queue of the socket's connection.
LEMMA PendingFacts ==
    ASSUME SocketInv, NEW e, Pending(e)
    PROVE  /\ sock.native # NoId /\ sock.native \in Id /\ nat[sock.native].life # "none" /\ nat[sock.native].events # <<>>
           /\ Head(nat[sock.native].events) = e /\ e \in On(nat[sock.native].events) /\ Running("dispatch")
           /\ Popped = PopOf(nat[sock.native]) /\ (PopEvent <=> nat' = [nat EXCEPT ![sock.native] = PopOf(nat[sock.native])])
<1>1. Running("dispatch") /\ sock.native # NoId /\ nat[sock.native].events # <<>> /\ Head(nat[sock.native].events) = e
  BY DEF Pending, Events
<1>2. sock.native \in Id /\ nat[sock.native] \in ClientConnection /\ nat[sock.native].life # "none"
  BY <1>1, NativeIs
<1>3. On(nat[sock.native].events) = {e} \cup On(PopOf(nat[sock.native]).events)
  BY <1>1, <1>2, PopOfFacts
<1> QED BY <1>1, <1>2, <1>3 DEF Popped, PopOf, PopEvent

LEMMA EndSame ==
    ASSUME SocketInv, sock.native # NoId, OnlyEvents(sock.native), LinkSame, sock'.ready = sock.ready,
           "end" \in On(nat[sock.native].events) => "end" \in On(nat'[sock.native].events),
           \A f \in On(stack) : f \in On(stack')
    PROVE  EndAnswered'
<1>1. TypeOK /\ EndAnswered /\ KeptFrames({"ready", "dispatch", "ended"})
  BY DEF SocketInv, Leaks, KeptFrames
<1> QED BY <1>1, EndKept DEF OnlyEvents

\* Taking an event that is not data from the socket's connection changes nothing but its queue.
LEMMA PendingPop ==
    ASSUME SocketInv, NEW e, e # "data", Pending(e), PopEvent, UNCHANGED <<settled, made>>
    PROVE  /\ sock.native # NoId /\ sock.native \in Id /\ OnlyEvents(sock.native) /\ Conns' /\ nat' \in [Id -> ClientConnection]
           /\ On(nat[sock.native].events) = {e} \cup On(nat'[sock.native].events)
           /\ \A k \in 1 .. made.attempt : nat[k] = NoConnection => nat'[k] = NoConnection
<1> DEFINE n == sock.native
<1>1. /\ n # NoId /\ n \in Id /\ nat[n].life # "none" /\ nat[n].events # <<>> /\ Head(nat[n].events) = e
      /\ nat' = [nat EXCEPT ![n] = PopOf(nat[n])]
  BY PendingFacts
<1>2. settled \subseteq settled' /\ made'.attempt = made.attempt
  OBVIOUS
<1> HIDE DEF n
<1>3. /\ OnlyEvents(n) /\ Conns' /\ On(nat[n].events) = {e} \cup On(nat'[n].events)
      /\ \A k \in 1 .. made.attempt : nat[k] = NoConnection => nat'[k] = NoConnection
  BY <1>1, <1>2, PopFacts
<1>4. nat' \in [Id -> ClientConnection]
  BY <1>3 DEF OnlyEvents
<1> QED BY <1>1, <1>3, <1>4 DEF n

LEMMA DispatchDrainKeeps ==
    ASSUME SocketInv, DispatchDrain
    PROVE  SocketInv'
<1>1. TypeOK /\ Shaped(stack) /\ Pending("drain") /\ PopEvent /\ stack' = <<Call>> \o stack
      /\ UNCHANGED <<sock, settled, lookups, jobs, served, made, wrote, seen, got>> /\ made.write <= made.call
  BY DEF SocketInv, Typed, DispatchDrain, Tell
<1>2. /\ sock.native # NoId /\ OnlyEvents(sock.native) /\ Conns' /\ nat' \in [Id -> ClientConnection]
      /\ On(nat[sock.native].events) = {"drain"} \cup On(nat'[sock.native].events)
      /\ \A k \in 1 .. made.attempt : nat[k] = NoConnection => nat'[k] = NoConnection
  BY <1>1, PendingPop
<1>3. stack' \in Seq(Frame) /\ Shaped(stack)' /\ TypedFrames /\ QuietFrames /\ \A f \in On(stack) : f \in On(stack')
  BY <1>1, PendingFacts, TellFrames
<1>4. TypeOK'
  BY <1>1, <1>2, <1>3 DEF TypeOK
<1>5. RaceSame /\ RoundSame /\ LinkSame
  BY <1>1 DEF RaceSame, RoundSame, LinkSame
<1>6. EndAnswered'
  BY <1>1, <1>2, <1>3, <1>5, EndSame
<1> QED BY <1>1, <1>2, <1>3, <1>4, <1>5, <1>6, EventKeeps

\* A listener is called with frame f to come between it and the event loop.
LEMMA TellOverFrames ==
    ASSUME TypeOK, Shaped(stack), Running("dispatch"), NEW fn \in InDispatch, stack' = <<Call>> \o (<<F(fn, 0)>> \o stack)
    PROVE  /\ stack' \in Seq(Frame) /\ Shaped(stack)' /\ TypedFrames /\ QuietFrames /\ On(stack') = {Call, F(fn, 0)} \cup On(stack)
           /\ \A f \in On(stack) : f \in On(stack')
<1> DEFINE f == F(fn, 0)
<1>1. f \in Frame /\ f.fn = fn /\ f.gen = sock.gen /\ sock.gen \in Nat
  BY FIs, NatTypes DEF InDispatch
<1>2. stack \in Seq(Frame) /\ On(stack) = {Top} \cup On(Rest) /\ Top.fn = "dispatch"
      /\ \A g \in On(Rest) : Above("dispatch", g.fn)
  BY TopFacts DEF TypeOK
<1>3. \A g \in On(stack) : g.fn # "attempt" /\ Above(f.fn, g.fn)
  BY <1>1, <1>2 DEF Above, InDispatch, InReady, Inner
<1>4. f.fn # "attempt"
  BY <1>1 DEF InDispatch
<1> HIDE DEF f
<1>5. stack' = <<Call>> \o (<<f>> \o stack)
  BY DEF f
<1>6. stack' \in Seq(Frame) /\ Shaped(stack') /\ On(stack') = {Call, f} \cup On(stack)
  BY <1>1, <1>2, <1>3, <1>4, <1>5, TellOver
<1>7. TypedFrames /\ QuietFrames
  <2>1. f.fn = "finished" \/ f.fn = "ended"
    BY <1>1 DEF InDispatch
  <2>2. ~Looks(f) /\ f.gen <= sock.gen /\ Call.gen <= sock.gen
    BY <1>1, <2>1, CallIs DEF Looks
  <2>3. \A g \in On(stack') : g \in On(stack) \/ (g.gen <= sock.gen /\ ~Looks(g) /\ g.fn \in {"call", "finished", "ended"})
    BY <1>6, <2>1, <2>2, CallIs
  <2> QED BY <2>3 DEF TypedFrames, QuietFrames
<1> QED BY <1>6, <1>7 DEF f

LEMMA DispatchFinishKeeps ==
    ASSUME SocketInv, DispatchFinish
    PROVE  SocketInv'
<1>1. TypeOK /\ Shaped(stack) /\ Pending("finish") /\ PopEvent /\ stack' = <<Call>> \o (<<F("finished", 0)>> \o stack)
      /\ UNCHANGED <<sock, settled, lookups, jobs, served, made, wrote, seen, got>> /\ made.write <= made.call
  BY DEF SocketInv, Typed, DispatchFinish, Tell
<1>2. /\ sock.native # NoId /\ OnlyEvents(sock.native) /\ Conns' /\ nat' \in [Id -> ClientConnection]
      /\ On(nat[sock.native].events) = {"finish"} \cup On(nat'[sock.native].events)
      /\ \A k \in 1 .. made.attempt : nat[k] = NoConnection => nat'[k] = NoConnection
  BY <1>1, PendingPop
<1>3. stack' \in Seq(Frame) /\ Shaped(stack)' /\ TypedFrames /\ QuietFrames /\ \A f \in On(stack) : f \in On(stack')
  BY <1>1, PendingFacts, TellOverFrames DEF InDispatch
<1>4. TypeOK'
  BY <1>1, <1>2, <1>3 DEF TypeOK
<1>5. RaceSame /\ RoundSame /\ LinkSame
  BY <1>1 DEF RaceSame, RoundSame, LinkSame
<1>6. EndAnswered'
  BY <1>1, <1>2, <1>3, <1>5, EndSame
<1> QED BY <1>1, <1>2, <1>3, <1>4, <1>5, <1>6, EventKeeps

LEMMA SeenFacts ==
    ASSUME TypeOK, NEW e \in {"connect", "end", "error", "close"}, NEW rest, Emit(e, rest)
    PROVE  seen' \in [{"connect", "end", "error", "close"} -> Nat] /\ stack' = <<Call>> \o rest /\ got' = got
BY DEF TypeOK, Emit

LEMMA DispatchErrorKeeps ==
    ASSUME SocketInv, DispatchError
    PROVE  SocketInv'
<1>1. TypeOK /\ Shaped(stack) /\ Pending("error") /\ PopEvent /\ sock' = [sock EXCEPT !.connecting = FALSE] /\ Emit("error", stack)
      /\ UNCHANGED <<settled, lookups, jobs, served, made, wrote>> /\ made.write <= made.call
  BY DEF SocketInv, Typed, DispatchError
<1>2. /\ sock.native # NoId /\ OnlyEvents(sock.native) /\ Conns' /\ nat' \in [Id -> ClientConnection]
      /\ On(nat[sock.native].events) = {"error"} \cup On(nat'[sock.native].events)
      /\ \A k \in 1 .. made.attempt : nat[k] = NoConnection => nat'[k] = NoConnection
  BY <1>1, PendingPop
<1>3. stack' \in Seq(Frame) /\ Shaped(stack)' /\ TypedFrames /\ QuietFrames /\ \A f \in On(stack) : f \in On(stack')
  BY <1>1, PendingFacts, TellFrames, SeenFacts
<1>4. sock' = sock
  <2>1. sock.connecting = FALSE /\ sock \in Socket
    BY <1>1, <1>2, NativeIs DEF TypeOK, Socket
  <2> QED BY <1>1, <2>1 DEF Socket
<1>5. TypeOK'
  BY <1>1, <1>2, <1>3, <1>4, SeenFacts DEF TypeOK
<1>6. RaceSame /\ RoundSame /\ LinkSame
  BY <1>1, <1>4 DEF RaceSame, RoundSame, LinkSame
<1>7. EndAnswered'
  BY <1>2, <1>3, <1>4, <1>6, EndSame
<1> QED BY <1>1, <1>2, <1>3, <1>4, <1>5, <1>6, <1>7, SeenFacts, EventKeeps

\* 'end' leaves the answer of end() to do.
LEMMA DispatchEndKeeps ==
    ASSUME SocketInv, DispatchEnd
    PROVE  SocketInv'
<1> DEFINE r == IF sock.ready = "readOnly" THEN sock.ready ELSE "writeOnly"
<1>1. TypeOK /\ Shaped(stack) /\ EndAnswered /\ Pending("end") /\ PopEvent /\ sock' = [sock EXCEPT !.ready = r]
      /\ Emit("end", <<F("ended", 0)>> \o stack)
      /\ UNCHANGED <<settled, lookups, jobs, served, made, wrote>> /\ made.write <= made.call
  BY DEF SocketInv, Typed, Leaks, DispatchEnd, TypeOK, Socket
<1>2. /\ sock.native # NoId /\ sock.native \in Id /\ OnlyEvents(sock.native) /\ Conns' /\ nat' \in [Id -> ClientConnection]
      /\ \A k \in 1 .. made.attempt : nat[k] = NoConnection => nat'[k] = NoConnection
  BY <1>1, PendingPop
<1>3. stack' \in Seq(Frame) /\ Shaped(stack)' /\ TypedFrames /\ QuietFrames /\ On(stack') = {Call, F("ended", 0)} \cup On(stack)
  BY <1>1, PendingFacts, TellOverFrames, SeenFacts DEF InDispatch
<1>4. r \in {"opening", "open", "readOnly", "writeOnly", "closed"} /\ (r = "readOnly" => sock.ready = "readOnly") /\ (r # "readOnly" => r = "writeOnly")
  BY <1>1 DEF TypeOK, Socket
<1> HIDE DEF r
<1>5. sock' \in Socket /\ sock'.ready = r /\ sock'.held = sock.held /\ sock'.paused = sock.paused /\ sock'.writes = sock.writes
  BY <1>1, <1>4 DEF TypeOK, Socket
<1>6. RaceSame /\ RoundSame /\ LinkSame
  BY <1>1 DEF TypeOK, Socket, RaceSame, RoundSame, LinkSame
<1>7. TypeOK'
  BY <1>1, <1>2, <1>3, <1>5, SeenFacts DEF TypeOK
<1>8. EndAnswered'
  <2>1. F("ended", 0).fn = "ended"
    BY <1>1, FIs
  <2>2. Holds("ended")' /\ \A k : ReadyFor(k) => ReadyFor(k)'
    BY <1>3, <2>1 DEF Holds, ReadyFor
  <2> QED BY <1>1, <1>2, <1>4, <1>5, <1>6, <2>2 DEF EndAnswered, OnlyEvents, LinkSame
<1> QED BY <1>1, <1>2, <1>3, <1>5, <1>6, <1>7, <1>8, SeenFacts, EventKeeps

\* 'close' is queued for a connection that is closing: the rest of its onReady takes it out of the loop.
LEMMA DispatchCloseKeeps ==
    ASSUME SocketInv, DispatchClose
    PROVE  SocketInv'
<1> DEFINE s == [sock EXCEPT !.connecting = FALSE, !.destroyed = TRUE, !.ready = "closed"]
<1>1. /\ TypeOK /\ Shaped(stack) /\ Typed /\ OneStart /\ Bounded /\ SockInv /\ Uncreated /\ Leaks /\ DataInv /\ Pending("close") /\ PopEvent
      /\ EmitClose(s, stack) /\ UNCHANGED <<settled, lookups, jobs, served, made, wrote>> /\ made.write <= made.call
  BY DEF SocketInv, Typed, DispatchClose
<1>2. /\ sock.native # NoId /\ sock.native \in Id /\ OnlyEvents(sock.native) /\ Conns' /\ nat' \in [Id -> ClientConnection]
      /\ "close" \in On(nat[sock.native].events) /\ ~sock.connecting /\ EventsOK(nat[sock.native]) /\ Running("dispatch")
      /\ \A k \in 1 .. made.attempt : nat[k] = NoConnection => nat'[k] = NoConnection
  BY <1>1, PendingPop, PendingFacts, NativeIs
<1>3. sock' = [s EXCEPT !.closeEmitted = TRUE] /\ got' = got /\ seen' \in [{"connect", "end", "error", "close"} -> Nat]
      /\ (stack' = stack \/ stack' = <<Call>> \o stack)
  BY <1>1, SeenFacts DEF EmitClose, Continue, TypeOK
<1>4. stack' \in Seq(Frame) /\ Shaped(stack)' /\ TypedFrames /\ QuietFrames /\ \A f \in On(stack) : f \in On(stack')
  <2>1. CASE stack' = stack
    BY <1>1, <2>1, SameFrames DEF TypeOK
  <2>2. CASE stack' = <<Call>> \o stack
    BY <1>1, <1>2, <2>2, TellFrames
  <2> QED BY <1>3, <2>1, <2>2
<1>5. sock.connecting = FALSE /\ sock \in Socket
  BY <1>1, <1>2 DEF TypeOK, Socket
<1>6. sock' \in Socket
  BY <1>3, <1>5 DEF Socket
<1>7. sock'.native = sock.native /\ sock'.destroyed = TRUE /\ sock'.closeEmitted = TRUE /\ sock'.connecting = sock.connecting
      /\ sock'.gen = sock.gen /\ sock'.attempts = sock.attempts /\ sock'.targets = sock.targets /\ sock'.next = sock.next
      /\ sock'.held = sock.held /\ sock'.paused = sock.paused
  BY <1>3, <1>5 DEF Socket
<1>8. TypeOK'
  BY <1>1, <1>2, <1>3, <1>4, <1>6 DEF TypeOK
<1>9. RaceSame /\ RoundSame
  BY <1>1, <1>7 DEF RaceSame, RoundSame
<1>10. TypedJobs /\ QuietJobs /\ \A K : KeptFrames(K)
  BY <1>1, <1>4, SameJobs DEF KeptFrames
<1>11. Typed' /\ OneStart' /\ Bounded'
  BY <1>1, <1>4, <1>9, <1>10, RaceKept
<1>12. \A f \in On(stack') : f.fn # "destroying"
  <2>1. On(stack) = {Top} \cup On(Rest) /\ Top.fn = "dispatch" /\ \A g \in On(Rest) : Above("dispatch", g.fn)
    BY <1>1, <1>2, TopFacts
  <2>2. \A f \in On(stack) : f.fn # "destroying"
    BY <2>1 DEF Above, Inner, InDispatch, InReady
  <2> QED BY <2>2, <1>4 DEF QuietFrames
<1>13. SockInv'
  BY <1>1, <1>2, <1>7, <1>9, <1>12 DEF SockInv, RaceSame, OnlyEvents
<1>14. Uncreated'
  BY <1>1, <1>2, <1>4, <1>9, <1>10, UncreatedKept
<1>15. nat[sock.native].closing
  BY <1>2 DEF EventsOK
<1>16. \A k : ReadyFor(k) => ReadyFor(k)'
  BY <1>4 DEF ReadyFor
<1>17. \A f \in On(stack) : f.fn # "destroying"
  BY <1>4, <1>12
<1>18. ASSUME NEW k \in Id PROVE OpenOK(k)'
  <2>1. nat'[k].life = nat[k].life /\ nat'[k].closing = nat[k].closing /\ nat'[k].connecting = nat[k].connecting
    BY <1>2 DEF OnlyEvents
  <2>2. OpenOK(k)
    BY <1>1 DEF Leaks
  <2>3. Racing' = Racing
    BY <1>9 DEF RaceSame, Racing
  <2>4. nat[k].life = "open" => k \in Racing \/ (nat[k].closing /\ ReadyFor(k))
    BY <1>15, <1>17, <2>2 DEF OpenOK, Owned, Holds
  <2>5. nat[k].life = "open" => Owned(k)'
    BY <1>16, <2>1, <2>3, <2>4 DEF Owned
  <2> QED BY <1>4, <1>9, <1>16, <2>1, <2>2, <2>5 DEF OpenOK, RaceSame
<1>19. AttemptOK'
  <2> SUFFICES ASSUME NEW f \in On(stack'), f.fn = "attempt"
               PROVE  f.n \in Racing' /\ nat'[f.n].life = "open"
    BY DEF AttemptOK
  <2>1. f \in On(stack) /\ f.n \in Racing /\ nat[f.n].life = "open" /\ f.n \in Id
    BY <1>1, <1>4 DEF QuietFrames, AttemptOK, Typed, FrameTyped, Leaks
  <2> QED BY <1>2, <1>9, <2>1 DEF Racing, RaceSame, OnlyEvents
<1>20. EndAnswered' /\ WritesKept'
  BY <1>7 DEF EndAnswered, WritesKept
<1>21. DataInv'
  BY <1>1, <1>2, <1>3, <1>7, <1>10, DataSame DEF OnlyEvents
<1> QED BY <1>2, <1>4, <1>8, <1>11, <1>13, <1>14, <1>18, <1>19, <1>20, <1>21 DEF SocketInv, Leaks

\* The socket is closed by the microtask of destroy(): it was destroyed then.
LEMMA JobCloseKeeps ==
    ASSUME SocketInv, JobClose
    PROVE  SocketInv'
<1>1. /\ TypeOK /\ Shaped(stack) /\ Typed /\ OneStart /\ Bounded /\ SockInv /\ Uncreated /\ Leaks /\ DataInv /\ Conns /\ WritesKept
      /\ stack = <<>> /\ jobs # <<>> /\ Head(jobs).kind = "close" /\ jobs' = Tail(jobs) /\ served' = {} /\ EmitClose(sock, <<>>)
      /\ UNCHANGED <<lookups, wrote, settled, nat, made>> /\ made.write <= made.call
  BY DEF SocketInv, Typed, JobClose, Drained, Drains
<1>2. sock' = [sock EXCEPT !.closeEmitted = TRUE] /\ got' = got /\ seen' \in [{"connect", "end", "error", "close"} -> Nat]
      /\ (stack' = <<>> \/ stack' = <<Call>> \o <<>>)
  BY <1>1, SeenFacts DEF EmitClose, Continue, TypeOK
<1>3. stack' \in Seq(Frame) /\ Shaped(stack)' /\ (\A f \in On(stack') : f = Call) /\ On(stack) = {} /\ sock.gen \in Nat
  BY <1>1, <1>2, SmallStacks, NatTypes
<1>4. TypedFrames /\ QuietFrames /\ \A K : KeptFrames(K)
  BY <1>3, CallIs DEF TypedFrames, QuietFrames, KeptFrames
<1>5. jobs' \in Seq(Job) /\ TypedJobs /\ QuietJobs /\ Head(jobs) \in On(jobs) /\ On(jobs') \subseteq On(jobs)
  BY <1>1, TailJobs
<1>6. sock.destroyed
  BY <1>1, <1>5 DEF SockInv
<1>7. sock' \in Socket
  BY <1>1, <1>2 DEF TypeOK, Socket
<1>8. sock'.native = sock.native /\ sock'.destroyed = sock.destroyed /\ sock'.closeEmitted = TRUE /\ sock'.connecting = sock.connecting
      /\ sock'.gen = sock.gen /\ sock'.attempts = sock.attempts /\ sock'.targets = sock.targets /\ sock'.next = sock.next
      /\ sock'.held = sock.held /\ sock'.paused = sock.paused
  BY <1>1, <1>2 DEF TypeOK, Socket
<1>9. TypeOK'
  BY <1>1, <1>2, <1>3, <1>5, <1>7 DEF TypeOK
<1>10. RaceSame /\ RoundSame
  BY <1>1, <1>8 DEF RaceSame, RoundSame
<1>11. Typed' /\ OneStart' /\ Bounded'
  BY <1>1, <1>4, <1>5, <1>10, RaceKept
<1>12. SockInv'
  BY <1>1, <1>3, <1>5, <1>6, <1>8, <1>10, CallIs DEF SockInv, RaceSame
<1>13. Uncreated'
  BY <1>1, <1>4, <1>5, <1>10, UncreatedKept
<1>14. Conns'
  <2>1. made.attempt \in Nat /\ made'.attempt = made.attempt
    BY <1>1, NatTypes
  <2> QED BY <1>1, <2>1, ConnsSame
<1>15. ASSUME NEW k \in Id PROVE OpenOK(k)'
  <2>1. OpenOK(k) /\ nat' = nat /\ Racing' = Racing /\ settled' = settled
    BY <1>1, <1>10 DEF Leaks, RaceSame, Racing
  <2>2. nat[k].life = "open" => k \in Racing /\ ~nat[k].closing /\ (nat[k].connecting \/ k \in settled)
    BY <1>3, <1>6, <2>1 DEF OpenOK, Owned, ReadyFor, Holds
  <2> QED BY <2>1, <2>2 DEF OpenOK, Owned
<1>16. AttemptOK'
  BY <1>3, CallIs DEF AttemptOK
<1>17. EndAnswered' /\ WritesKept'
  BY <1>6, <1>8 DEF EndAnswered, WritesKept
<1>18. DataInv'
  BY <1>1, <1>2, <1>4, <1>8, DataSame
<1> QED BY <1>3, <1>9, <1>11, <1>12, <1>13, <1>14, <1>15, <1>16, <1>17, <1>18 DEF SocketInv, Leaks

----------------
(* The chunks *)

Cat(s, t) == s \o t
Empty(h) == h = <<>>
Joined(g, h, c, r) == (g \o h) \o (c \o r)

LEMMA CatAssoc ==
    ASSUME NEW s \in Seq(Nat), NEW t \in Seq(Nat), NEW u \in Seq(Nat)
    PROVE  Cat(s, t) \in Seq(Nat) /\ Cat(Cat(s, t), u) = Cat(s, Cat(t, u))
BY Assoc DEF Cat

LEMMA TakeChunk ==
    ASSUME NEW g \in Seq(Nat), NEW h \in Seq(Nat), NEW c \in Seq(Nat), NEW r \in Seq(Nat), c # <<>>
    PROVE  /\ Joined(g, Append(h, Head(c)), Tail(c), r) = Joined(g, h, c, r)
           /\ Empty(h) => Joined(Append(g, Head(c)), h, Tail(c), r) = Joined(g, h, c, r)
<1> DEFINE t == Tail(c)
           x == Head(c)
           a == Append(h, x)
           b == Append(g, x)
<1>1. t \in Seq(Nat) /\ a \in Seq(Nat) /\ b \in Seq(Nat)
  OBVIOUS
<1>2. Cat(a, t) = Cat(h, c) /\ Cat(b, t) = Cat(g, c)
  BY MoveHead DEF Cat
<1>3. Empty(h) => Cat(b, h) = b /\ Cat(g, h) = g
  BY <1>1, ConcatEmptySeq DEF Cat, Empty
<1> HIDE DEF a, b, t
<1>4. Cat(t, r) \in Seq(Nat) /\ Cat(c, r) \in Seq(Nat)
  BY <1>1, CatAssoc
<1>5. Cat(Cat(g, a), Cat(t, r)) = Cat(g, Cat(a, Cat(t, r)))
  BY <1>1, <1>4, CatAssoc
<1>6. Cat(Cat(a, t), r) = Cat(a, Cat(t, r))
  BY <1>1, CatAssoc
<1>7. Cat(Cat(g, h), Cat(c, r)) = Cat(g, Cat(h, Cat(c, r)))
  BY <1>1, <1>4, CatAssoc
<1>8. Cat(Cat(h, c), r) = Cat(h, Cat(c, r))
  BY <1>1, CatAssoc
<1>9. Cat(Cat(b, t), r) = Cat(b, Cat(t, r)) /\ Cat(Cat(g, c), r) = Cat(g, Cat(c, r))
  BY <1>1, CatAssoc
<1>10. Cat(Cat(g, a), Cat(t, r)) = Cat(Cat(g, h), Cat(c, r))
  BY <1>2, <1>5, <1>6, <1>7, <1>8
<1>11. Empty(h) => Cat(Cat(b, h), Cat(t, r)) = Cat(Cat(g, h), Cat(c, r))
  BY <1>2, <1>3, <1>9
<1> QED BY <1>10, <1>11 DEF Cat, Joined, a, b, t

\* Whoever empties the event queue finds a chunk for every 'data'.
LEMMA ChunkThere ==
    ASSUME NEW c \in ClientConnection, EventsOK(c), c.events # <<>>, Head(c.events) = "data"
    PROVE  c.chunks # <<>>
<1>1. c.events \in Seq(Code) /\ Tail(c.events) \in Seq(Code) /\ c.chunks \in Seq(Nat)
  BY MovesTypes
<1>2. Cardinality(DataAt(Tail(c.events))) = Cardinality(DataAt(c.events)) - 1 /\ Cardinality(DataAt(Tail(c.events))) \in Nat
      /\ Cardinality(DataAt(c.events)) \in Nat
  BY <1>1, CountTail, CountFinite
<1>3. Len(c.chunks) = Cardinality(DataAt(c.events))
  BY DEF EventsOK
<1> QED BY <1>1, <1>2, <1>3

TakeOf(c) == [PopOf(c) EXCEPT !.chunks = Tail(@)]

LEMMA TakeOfFacts ==
    ASSUME NEW c \in ClientConnection, c.events # <<>>, Head(c.events) = "data", EventsOK(c)
    PROVE  /\ TakeOf(c) \in ClientConnection /\ TakeOf(c).life = c.life /\ TakeOf(c).closing = c.closing
           /\ TakeOf(c).connecting = c.connecting /\ TakeOf(c).endRequested = c.endRequested
           /\ TakeOf(c).peerEnded = c.peerEnded /\ TakeOf(c).socket = c.socket
           /\ TakeOf(c).chunks = Tail(c.chunks) /\ TakeOf(c).rx = c.rx /\ TakeOf(c).sent = c.sent /\ TakeOf(c).out = c.out
           /\ On(c.events) = {"data"} \cup On(TakeOf(c).events) /\ EventsOK(TakeOf(c)) /\ c.chunks # <<>>
<1> DEFINE p == PopOf(c)
           d == TakeOf(c)
           t == Tail(c.chunks)
<1>1. /\ p \in ClientConnection /\ p.life = c.life /\ p.closing = c.closing /\ p.connecting = c.connecting
      /\ p.endRequested = c.endRequested /\ p.peerEnded = c.peerEnded /\ p.finished = c.finished /\ p.socket = c.socket
      /\ p.chunks = c.chunks /\ p.rx = c.rx /\ p.sent = c.sent /\ p.out = c.out
      /\ p.events = Tail(c.events) /\ On(c.events) = {Head(c.events)} \cup On(p.events)
  BY PopOfFacts
<1>2. c.chunks # <<>> /\ c.chunks \in Seq(Nat) /\ c.events \in Seq(Code)
  BY ChunkThere, MovesTypes
<1>3. t \in Seq(Nat) /\ Len(t) = Len(c.chunks) - 1
  BY <1>2
<1> HIDE DEF p, t
<1>4. d = [p EXCEPT !.chunks = t]
  BY <1>1 DEF TakeOf, p, t, ClientConnection
<1>5. d \in ClientConnection
  BY <1>1, <1>3, <1>4 DEF ClientConnection
<1>6. /\ d.life = p.life /\ d.closing = p.closing /\ d.connecting = p.connecting /\ d.endRequested = p.endRequested
      /\ d.peerEnded = p.peerEnded /\ d.socket = p.socket
      /\ d.chunks = t /\ d.rx = p.rx /\ d.sent = p.sent /\ d.out = p.out /\ d.events = p.events
  BY <1>1, <1>4 DEF ClientConnection
<1> HIDE DEF d
<1>7. Cardinality(DataAt(d.events)) = Cardinality(DataAt(c.events)) - 1
  BY <1>1, <1>2, <1>6, CountTail
<1>8. EventsOK(d)
  BY <1>1, <1>3, <1>6, <1>7 DEF EventsOK
<1> QED BY <1>1, <1>2, <1>5, <1>6, <1>8 DEF d, t

LEMMA DispatchDataKeeps ==
    ASSUME SocketInv, DispatchData
    PROVE  SocketInv'
<1> DEFINE n == sock.native
           c == nat[n]
           d == TakeOf(c)
           x == Head(c.chunks)
<1>1. /\ TypeOK /\ Shaped(stack) /\ Typed /\ OneStart /\ Bounded /\ SockInv /\ Uncreated /\ Leaks /\ DataInv /\ Conns /\ WritesKept
      /\ Pending("data") /\ UNCHANGED <<settled, lookups, jobs, served, made, wrote, seen>> /\ made.write <= made.call
  BY DEF SocketInv, Typed, DispatchData, Continue, DeliverChunk
<1>2. /\ n # NoId /\ n \in Id /\ c.life # "none" /\ c.events # <<>> /\ Head(c.events) = "data" /\ Running("dispatch")
      /\ Popped = PopOf(c) /\ c \in ClientConnection /\ EventsOK(c) /\ c.socket /\ n \in settled
  BY <1>1, PendingFacts, NativeIs
<1>3. /\ d \in ClientConnection /\ d.life = c.life /\ d.closing = c.closing
      /\ d.connecting = c.connecting /\ d.endRequested = c.endRequested
      /\ d.peerEnded = c.peerEnded /\ d.socket = c.socket
      /\ d.chunks = Tail(c.chunks) /\ d.rx = c.rx /\ d.sent = c.sent /\ d.out = c.out
      /\ On(c.events) = {"data"} \cup On(d.events) /\ EventsOK(d) /\ c.chunks # <<>>
  BY <1>2, TakeOfFacts
<1>4. nat' = [nat EXCEPT ![n] = d]
  BY <1>2 DEF DispatchData, TakeOf
<1> HIDE DEF d
<1>5. nat' \in [Id -> ClientConnection] /\ nat'[n] = d /\ \A k \in Id : k # n => nat'[k] = nat[k]
  BY <1>1, <1>2, <1>3, <1>4 DEF TypeOK
<1>6. c.chunks \in Seq(Nat) /\ c.rx \in Seq(Nat) /\ Tail(c.chunks) \in Seq(Nat) /\ x \in Nat /\ On(c.chunks) = {x} \cup On(Tail(c.chunks))
  BY <1>2, <1>3, MovesTypes, OnPop
<1>7. sock \in Socket /\ sock.held \in Seq(Nat) /\ got \in Seq(Nat)
  BY <1>1 DEF TypeOK, Socket
<1>8. \/ /\ sock.paused /\ sock' = [sock EXCEPT !.held = Append(sock.held, x)] /\ stack' = stack /\ got' = got
      \/ /\ ~sock.paused /\ sock' = sock /\ stack' = <<Call>> \o stack /\ got' = Append(got, x)
  BY <1>7 DEF DispatchData, Continue, DeliverChunk, Socket
<1>9. stack' \in Seq(Frame) /\ Shaped(stack)' /\ TypedFrames /\ QuietFrames /\ \A f \in On(stack) : f \in On(stack')
  <2>1. CASE stack' = stack
    BY <1>1, <2>1, SameFrames DEF TypeOK
  <2>2. CASE stack' = <<Call>> \o stack
    BY <1>1, <1>2, <2>2, TellFrames
  <2> QED BY <1>8, <2>1, <2>2
<1> DEFINE h == Append(sock.held, x)
<1>10. h \in Seq(Nat) /\ On(h) = On(sock.held) \cup {x}
  BY <1>6, <1>7, OnAppend
<1>11. Append(got, x) \in Seq(Nat) /\ On(Append(got, x)) = On(got) \cup {x}
  BY <1>6, <1>7, OnAppend
<1> HIDE DEF h, x
<1>12. sock' \in Socket /\ got' \in Seq(Nat)
  BY <1>7, <1>8, <1>10, <1>11 DEF Socket, h
<1>13. RaceSame /\ RoundSame /\ LinkSame /\ sock'.ready = sock.ready /\ sock'.paused = sock.paused /\ sock'.writes = sock.writes
  BY <1>1, <1>7, <1>8 DEF Socket, RaceSame, RoundSame, LinkSame
<1>14. TypeOK'
  BY <1>1, <1>5, <1>9, <1>12 DEF TypeOK
<1>15. TypedJobs /\ QuietJobs /\ \A K : KeptFrames(K)
  BY <1>1, <1>9, SameJobs DEF KeptFrames
<1>16. Typed' /\ OneStart' /\ Bounded'
  BY <1>1, <1>9, <1>13, <1>15, RaceKept
<1>17. SockInv'
  BY <1>1, <1>3, <1>5, <1>9, <1>13, <1>15, SockKept
<1>18. Conns' /\ \A k \in 1 .. made.attempt : nat[k] = NoConnection => nat'[k] = NoConnection
  BY <1>1, <1>2, <1>3, <1>4, ConnsAt
<1>19. Uncreated'
  BY <1>1, <1>9, <1>13, <1>15, <1>18, UncreatedKept
<1>20. \A k \in Id : /\ nat'[k].life = nat[k].life /\ nat'[k].closing = nat[k].closing /\ nat'[k].connecting = nat[k].connecting
                     /\ nat'[k].endRequested = nat[k].endRequested /\ nat'[k].peerEnded = nat[k].peerEnded
                     /\ ("end" \in On(nat[k].events) => "end" \in On(nat'[k].events))
                     /\ nat'[k].sent \o nat'[k].out = nat[k].sent \o nat[k].out
  BY <1>3, <1>5
<1>21. Leaks'
  <2>1. (\A k \in Id : OpenOK(k)') /\ AttemptOK'
    BY <1>1, <1>9, <1>13, <1>15, <1>16, <1>20, OpenKept DEF Leaks
  <2>2. EndAnswered'
    BY <1>1, <1>13, <1>15, <1>20, EndKept DEF Leaks
  <2> QED BY <2>1, <2>2 DEF Leaks
<1>22. WritesKept'
  BY <1>1, <1>13, <1>20, WritesSame DEF RaceSame
<1>23. ~sock.paused => sock.held = <<>>
  <2>1. On(stack) = {Top} \cup On(Rest) /\ Top.fn = "dispatch" /\ \A g \in On(Rest) : Above("dispatch", g.fn)
    BY <1>1, <1>2, TopFacts
  <2>2. ~Holds("resume")
    BY <2>1 DEF Above, Inner, InDispatch, InReady, Holds
  <2> QED BY <1>1, <2>2 DEF DataInv, HeldOK
<1>24. /\ Fin \notin On(got) /\ Fin \notin On(sock.held) /\ Fin \notin On(c.chunks) /\ Ordered(Stream, made.chunk)
  BY <1>1, <1>2 DEF DataInv
<1>25. Stream = Joined(got, sock.held, c.chunks, c.rx) /\ Stream' = Joined(got', sock'.held, Tail(c.chunks), c.rx)
  BY <1>2, <1>3, <1>5, <1>13 DEF Stream, LinkSame, Joined
<1>26. CASE sock.paused
  <2>1. sock'.held = h /\ got' = got /\ sock'.paused
    BY <1>7, <1>8, <1>13, <1>26 DEF Socket, h
  <2>2. Stream' = Stream
    <3>1. Joined(got, Append(sock.held, Head(c.chunks)), Tail(c.chunks), c.rx) = Joined(got, sock.held, c.chunks, c.rx)
      BY <1>3, <1>6, <1>7, TakeChunk
    <3> QED BY <1>25, <2>1, <3>1 DEF h, x
  <2>3. DataInv'
    BY <1>1, <1>3, <1>5, <1>6, <1>10, <1>13, <1>24, <2>1, <2>2 DEF DataInv, HeldOK, LinkSame
  <2> QED BY <1>9, <1>14, <1>16, <1>17, <1>18, <1>19, <1>21, <1>22, <2>3 DEF SocketInv
<1>27. CASE ~sock.paused
  <2>1. sock' = sock /\ got' = Append(got, x) /\ sock.held = <<>>
    BY <1>8, <1>23, <1>27
  <2>2. Stream' = Stream
    <3>1. Joined(Append(got, Head(c.chunks)), sock.held, Tail(c.chunks), c.rx) = Joined(got, sock.held, c.chunks, c.rx)
      <4> DEFINE hh == sock.held
                 cc == c.chunks
                 rr == c.rx
      <4>1. Empty(hh) /\ hh \in Seq(Nat) /\ cc \in Seq(Nat) /\ rr \in Seq(Nat) /\ cc # <<>> /\ got \in Seq(Nat)
        BY <1>3, <1>6, <1>7, <2>1 DEF Empty
      <4> HIDE DEF hh, cc, rr
      <4>2. Joined(Append(got, Head(cc)), hh, Tail(cc), rr) = Joined(got, hh, cc, rr)
        BY ONLY <4>1, TakeChunk
      <4> QED BY <4>2 DEF hh, cc, rr
    <3> QED BY <1>25, <2>1, <3>1 DEF x
  <2>3. DataInv'
    BY <1>1, <1>3, <1>5, <1>6, <1>11, <1>13, <1>24, <2>1, <2>2 DEF DataInv, HeldOK, LinkSame
  <2> QED BY <1>9, <1>14, <1>16, <1>17, <1>18, <1>19, <1>21, <1>22, <2>3 DEF SocketInv
<1> QED BY <1>26, <1>27

\* A step that leaves every connection where it was.
ConnSame(k) ==
    /\ nat'[k].life = nat[k].life /\ nat'[k].closing = nat[k].closing /\ nat'[k].connecting = nat[k].connecting
    /\ nat'[k].endRequested = nat[k].endRequested /\ nat'[k].peerEnded = nat[k].peerEnded /\ nat'[k].socket = nat[k].socket
    /\ nat'[k].sent \o nat'[k].out = nat[k].sent \o nat[k].out
    /\ "end" \in On(nat[k].events) => "end" \in On(nat'[k].events)

LEMMA MildKeeps ==
    ASSUME SocketInv, TypeOK', Shaped(stack)', \A k \in Id : ConnSame(k), Conns',
           \A k \in 1 .. made.attempt : nat[k] = NoConnection => nat'[k] = NoConnection,
           RaceSame, RoundSame, LinkSame, sock'.ready = sock.ready, sock'.writes = sock.writes, wrote' = wrote,
           TypedFrames, QuietFrames, TypedJobs, QuietJobs, KeptFrames({"ready", "attempt", "destroying", "dispatch", "ended"}),
           DataInv'
    PROVE  SocketInv'
<1>0. TypeOK /\ Typed /\ OneStart /\ Bounded /\ SockInv /\ Uncreated /\ Conns /\ Leaks /\ WritesKept
  BY DEF SocketInv
<1>1. KeptFrames({"ready", "attempt", "destroying"}) /\ KeptFrames({"ready", "dispatch", "ended"})
  BY DEF KeptFrames
<1>2. Typed' /\ OneStart' /\ Bounded'
  BY <1>0, RaceKept
<1>3. SockInv'
  BY <1>0, SockKept DEF ConnSame
<1>4. Uncreated'
  BY <1>0, UncreatedKept
<1>5. Leaks'
  <2>1. (\A k \in Id : OpenOK(k)') /\ AttemptOK'
    BY <1>0, <1>1, <1>2, OpenKept DEF ConnSame, Leaks
  <2>2. EndAnswered'
    BY <1>0, <1>1, EndKept DEF ConnSame, Leaks
  <2> QED BY <2>1, <2>2 DEF Leaks
<1>6. WritesKept'
  BY <1>0, WritesSame DEF ConnSame, RaceSame
<1> QED BY <1>2, <1>3, <1>4, <1>5, <1>6 DEF SocketInv

\* The loop of resume() ends when nothing is held or a listener paused the socket again.
LEMMA ResumeStops ==
    ASSUME SocketInv, Running("resume"), stack' = Rest, sock.paused \/ sock.held = <<>>,
           UNCHANGED <<sock, settled, nat, lookups, jobs, served, made, seen, wrote, got>>
    PROVE  SocketInv'
<1>1. TypeOK /\ OneStart /\ Shaped(stack) /\ EndAnswered
  BY DEF SocketInv, Leaks
<1>2. /\ stack' \in Seq(Frame) /\ Shaped(stack)' /\ TypedFrames /\ QuietFrames
      /\ \A f \in On(stack) : f.fn # "resume" => f \in On(stack')
  BY <1>1, PopFrames
<1>3. TypeOK'
  BY <1>1, <1>2 DEF TypeOK
<1>4. KeptFrames({"ready", "attempt", "destroying"}) /\ KeptFrames({"ready", "dispatch", "ended"})
  BY <1>2 DEF KeptFrames
<1>5. Steady
  BY <1>1, <1>2, <1>4, SameJobs, StaySame
<1>6. EndAnswered'
  BY <1>1, <1>4, <1>5, EndKept DEF Steady
<1>7. HeldOK'
  BY DEF HeldOK
<1> QED BY <1>2, <1>3, <1>5, <1>6, <1>7, SteadyKeeps

LEMMA ResumeTakes ==
    ASSUME SocketInv, Running("resume"), stack' = <<Call>> \o stack, ~sock.paused, sock.held # <<>>,
           sock' = [sock EXCEPT !.held = Tail(sock.held)], got' = Append(got, Head(sock.held)),
           UNCHANGED <<settled, nat, lookups, jobs, served, made, seen, wrote>>
    PROVE  SocketInv'
<1> DEFINE h == sock.held
           t == Tail(h)
           x == Head(h)
           g == Append(got, x)
<1>1. TypeOK /\ OneStart /\ Shaped(stack) /\ Conns /\ DataInv /\ made.write <= made.call
  BY DEF SocketInv, Typed
<1>2. sock \in Socket /\ h \in Seq(Nat) /\ got \in Seq(Nat) /\ h # <<>>
  BY <1>1 DEF TypeOK, Socket
<1>3. t \in Seq(Nat) /\ x \in Nat /\ On(h) = {x} \cup On(t)
  BY <1>2, OnPop
<1>4. g \in Seq(Nat) /\ On(g) = On(got) \cup {x}
  BY <1>2, <1>3, OnAppend
<1>5. g \o t = got \o h
  BY <1>2, MoveHead
<1> HIDE DEF t, g, x
<1>6. sock' \in Socket /\ sock'.held = t /\ sock'.paused = sock.paused /\ sock'.native = sock.native
      /\ sock'.ready = sock.ready /\ sock'.writes = sock.writes
  <2>1. sock' = [sock EXCEPT !.held = t]
    BY DEF t
  <2> QED BY <1>2, <1>3, <2>1 DEF Socket
<1>7. RaceSame /\ RoundSame /\ LinkSame
  BY <1>1, <1>2 DEF Socket, RaceSame, RoundSame, LinkSame
<1>8. stack' \in Seq(Frame) /\ Shaped(stack)' /\ TypedFrames /\ QuietFrames /\ \A f \in On(stack) : f \in On(stack')
  BY <1>1, TellFrames
<1>9. got' = g
  BY DEF g, x
<1>10. TypeOK'
  BY <1>1, <1>4, <1>6, <1>8, <1>9 DEF TypeOK
<1>11. TypedJobs /\ QuietJobs /\ \A K : KeptFrames(K)
  BY <1>1, <1>8, SameJobs DEF KeptFrames
<1>12. Conns'
  BY <1>1 DEF Conns, ConnOK
<1>13. DataInv'
  <2> DEFINE r == IF sock.native = NoId THEN <<>> ELSE nat[sock.native].chunks \o nat[sock.native].rx
  <2>1. Stream = (got \o h) \o r
    BY DEF Stream
  <2>0. r' = r
    BY <1>6
  <2>2. Stream' = (got' \o sock'.held) \o r'
    BY DEF Stream
  <2> HIDE DEF r, h
  <2>3. Stream' = Stream
    BY ONLY <2>0, <2>1, <2>2, <1>5, <1>6, <1>9
  <2>4. Fin \notin On(got') /\ Fin \notin On(sock'.held)
    BY <1>1, <1>3, <1>4, <1>6, <1>9 DEF DataInv, h
  <2>5. Holds("resume")'
    BY <1>8, <1>1, TopFacts DEF Holds
  <2> QED BY <1>1, <1>6, <2>3, <2>4, <2>5 DEF DataInv, HeldOK
<1> QED BY <1>7, <1>6, <1>8, <1>10, <1>11, <1>12, <1>13, MildKeeps DEF ConnSame

LEMMA ResumeNextKeeps ==
    ASSUME SocketInv, ResumeNext
    PROVE  SocketInv'
<1>1. CASE sock.paused \/ sock.held = <<>>
  BY <1>1, ResumeStops DEF ResumeNext, Continue
<1>2. CASE ~(sock.paused \/ sock.held = <<>>)
  <2>1. sock' = [sock EXCEPT !.held = Tail(sock.held)]
    BY <1>2 DEF ResumeNext, SocketInv, TypeOK, Socket
  <2> QED BY <1>2, <2>1, ResumeTakes DEF ResumeNext, DeliverChunk
<1> QED BY <1>1, <1>2

PausedOf(c, p) == [c EXCEPT !.paused = p]

LEMMA PausedOfFacts ==
    ASSUME NEW c \in ClientConnection, NEW p \in BOOLEAN
    PROVE  LET d == PausedOf(c, p) IN
           /\ d \in ClientConnection /\ d.life = c.life /\ d.closing = c.closing /\ d.connecting = c.connecting
           /\ d.endRequested = c.endRequested /\ d.peerEnded = c.peerEnded /\ d.finished = c.finished /\ d.socket = c.socket
           /\ d.chunks = c.chunks /\ d.rx = c.rx /\ d.sent = c.sent /\ d.out = c.out /\ d.events = c.events
           /\ EventsOK(c) => EventsOK(d)
<1> DEFINE d == PausedOf(c, p)
<1>1. d \in ClientConnection
  BY DEF PausedOf, ClientConnection
<1>2. /\ d.life = c.life /\ d.closing = c.closing /\ d.connecting = c.connecting
      /\ d.endRequested = c.endRequested /\ d.peerEnded = c.peerEnded /\ d.finished = c.finished /\ d.socket = c.socket
      /\ d.chunks = c.chunks /\ d.rx = c.rx /\ d.sent = c.sent /\ d.out = c.out /\ d.events = c.events
  BY DEF PausedOf, ClientConnection
<1> HIDE DEF d
<1>3. EventsOK(c) => EventsOK(d)
  BY <1>2 DEF EventsOK
<1> QED BY <1>1, <1>2, <1>3 DEF d

LEMMA PauseConns ==
    ASSUME SocketInv, NEW p \in BOOLEAN, SetPaused(p), made'.attempt = made.attempt
    PROVE  /\ nat' \in [Id -> ClientConnection] /\ Conns' /\ \A k \in Id : ConnSame(k)
           /\ \A k \in 1 .. made.attempt : nat[k] = NoConnection => nat'[k] = NoConnection
           /\ \A k \in Id : nat'[k].chunks = nat[k].chunks /\ nat'[k].rx = nat[k].rx
<1>1. TypeOK /\ Conns /\ settled' = settled /\ nat \in [Id -> ClientConnection]
  BY DEF SocketInv, SetPaused, TypeOK
<1>2. CASE sock.native = NoId
  <2>1. nat' = nat
    BY <1>2 DEF SetPaused
  <2>2. Conns'
    BY <1>1, <2>1 DEF Conns, ConnOK
  <2> QED BY <1>1, <2>1, <2>2 DEF ConnSame
<1>3. CASE sock.native # NoId
  <2> DEFINE n == sock.native
             c == nat[n]
             d == PausedOf(c, p)
  <2>1. n \in Id /\ n \in settled /\ c \in ClientConnection /\ c.socket /\ c.life # "none" /\ EventsOK(c)
    BY <1>3, NativeIs
  <2>2. /\ d \in ClientConnection /\ d.life = c.life /\ d.closing = c.closing /\ d.connecting = c.connecting
        /\ d.endRequested = c.endRequested /\ d.peerEnded = c.peerEnded /\ d.finished = c.finished /\ d.socket = c.socket
        /\ d.chunks = c.chunks /\ d.rx = c.rx /\ d.sent = c.sent /\ d.out = c.out /\ d.events = c.events
        /\ EventsOK(d)
    BY <2>1, PausedOfFacts
  <2>3. nat' = [nat EXCEPT ![n] = d]
    BY <1>3, <1>1, <2>1 DEF SetPaused, PausedOf
  <2> HIDE DEF d
  <2>4. nat' \in [Id -> ClientConnection] /\ nat'[n] = d /\ \A k \in Id : k # n => nat'[k] = nat[k]
    BY <1>1, <2>1, <2>2, <2>3
  <2>5. Conns' /\ \A k \in 1 .. made.attempt : nat[k] = NoConnection => nat'[k] = NoConnection
    BY <1>1, <2>1, <2>2, <2>3, ConnsAt
  <2>6. \A k \in Id : ConnSame(k)
    BY <2>2, <2>4 DEF ConnSame
  <2> QED BY <2>2, <2>4, <2>5, <2>6
<1> QED BY <1>2, <1>3

LEMMA SetPausedKeeps ==
    ASSUME SocketInv, NEW p \in BOOLEAN, SetPaused(p), InCall, stack' \in Seq(Frame), Shaped(stack)', TypedFrames, QuietFrames,
           \A f \in On(stack) : f \in On(stack'), p \/ Holds("resume")'
    PROVE  SocketInv'
<1>1. TypeOK /\ OneStart /\ DataInv /\ made.write <= made.call /\ made.write \in Nat /\ made.call \in Nat /\ sock \in Socket
      /\ UNCHANGED <<settled, lookups, jobs, served, seen, wrote, got>> /\ sock' = [sock EXCEPT !.paused = p]
  BY NatTypes DEF SocketInv, Typed, SetPaused, TypeOK
<1>2. /\ made' \in Counts /\ made'.attempt = made.attempt /\ made'.epoch = made.epoch /\ made'.chunk = made.chunk
      /\ made'.write = made.write /\ made'.call = made.call + 1
  BY <1>1, CountCallFacts DEF InCall
<1>3. /\ nat' \in [Id -> ClientConnection] /\ Conns' /\ \A k \in Id : ConnSame(k)
      /\ \A k \in 1 .. made.attempt : nat[k] = NoConnection => nat'[k] = NoConnection
      /\ \A k \in Id : nat'[k].chunks = nat[k].chunks /\ nat'[k].rx = nat[k].rx
  BY <1>2, PauseConns
<1>4. sock' \in Socket
  BY <1>1 DEF Socket
<1>5. sock'.ready = sock.ready /\ sock'.writes = sock.writes /\ sock'.held = sock.held /\ sock'.native = sock.native
      /\ sock'.gen = sock.gen /\ sock'.connecting = sock.connecting /\ sock'.attempts = sock.attempts /\ sock'.targets = sock.targets
      /\ sock'.next = sock.next /\ sock'.destroyed = sock.destroyed /\ sock'.closeEmitted = sock.closeEmitted
      /\ (p => sock'.paused)
  BY <1>1 DEF Socket
<1>6. RaceSame /\ RoundSame /\ LinkSame
  BY <1>1, <1>2, <1>5 DEF RaceSame, RoundSame, LinkSame
<1>7. TypeOK'
  BY <1>1, <1>2, <1>3, <1>4 DEF TypeOK, Counts
<1>8. TypedJobs /\ QuietJobs /\ \A K : KeptFrames(K)
  BY <1>1, SameJobs DEF KeptFrames
<1>9. DataInv'
  <2>1. sock.native # NoId => sock.native \in Id
    BY <1>1, NatTypes
  <2>2. Stream' = Stream
    BY <1>1, <1>3, <1>5, StreamSame
  <2>3. HeldOK'
    BY <1>5 DEF HeldOK
  <2> QED BY <1>1, <1>2, <1>3, <1>5, <2>1, <2>2, <2>3 DEF DataInv
<1> QED BY <1>1, <1>3, <1>5, <1>6, <1>7, <1>8, <1>9, MildKeeps

LEMMA PauseKeeps ==
    ASSUME SocketInv, Pause
    PROVE  SocketInv'
<1>1. TypeOK /\ Shaped(stack) /\ stack \in Seq(Frame) /\ SetPaused(TRUE) /\ InCall /\ stack' = stack
  BY DEF SocketInv, Pause, TypeOK
<1>2. TypedFrames /\ QuietFrames
  BY <1>1, SameFrames
<1>3. Shaped(stack)'
  BY <1>1
<1> QED BY <1>1, <1>2, <1>3, SetPausedKeeps

\* A frame goes on top of a running callback.
LEMMA PushFrames ==
    ASSUME TypeOK, Shaped(stack), Running("call"), NEW fn \in {"resume", "destroying"}, stack' = <<F(fn, 0)>> \o stack
    PROVE  /\ stack' \in Seq(Frame) /\ Shaped(stack)' /\ TypedFrames /\ On(stack') = {F(fn, 0)} \cup On(stack) /\ F(fn, 0).fn = fn
<1> DEFINE f == F(fn, 0)
<1>1. f \in Frame /\ f.fn = fn /\ f.gen = sock.gen /\ sock.gen \in Nat
  BY FIs, NatTypes
<1>2. stack \in Seq(Frame) /\ On(stack) = {Top} \cup On(Rest) /\ Top.fn = "call" /\ \A g \in On(Rest) : g.fn # "attempt"
  BY TopFacts DEF TypeOK
<1>3. \A g \in On(stack) : Above(f.fn, g.fn)
  BY <1>1, <1>2 DEF Above, Inner
<1> HIDE DEF f
<1>4. stack' = <<f>> \o stack
  BY DEF f
<1>5. stack' \in Seq(Frame) /\ Shaped(stack') /\ On(stack') = {f} \cup On(stack)
  BY <1>1, <1>2, <1>3, <1>4, ShapePush
<1>6. TypedFrames
  BY <1>1, <1>5 DEF TypedFrames, Looks
<1> QED BY <1>1, <1>5, <1>6 DEF f

LEMMA ResumeKeeps ==
    ASSUME SocketInv, Resume
    PROVE  SocketInv'
<1>1. TypeOK /\ Shaped(stack) /\ SetPaused(FALSE) /\ InCall /\ Running("call") /\ stack' = <<F("resume", 0)>> \o stack
  BY DEF SocketInv, Resume, InCall
<1>2. /\ stack' \in Seq(Frame) /\ Shaped(stack)' /\ TypedFrames /\ On(stack') = {F("resume", 0)} \cup On(stack)
      /\ F("resume", 0).fn = "resume"
  BY <1>1, PushFrames
<1>3. QuietFrames /\ Holds("resume")' /\ \A f \in On(stack) : f \in On(stack')
  BY <1>2 DEF QuietFrames, Holds
<1> QED BY <1>1, <1>2, <1>3, SetPausedKeeps

----------------
(* connect() *)

LEMMA OrderedPrefix ==
    ASSUME NEW s \in Seq(Nat), NEW r \in Seq(Nat), NEW n \in Nat, Ordered(s \o r, n)
    PROVE  Ordered(s, n)
<1> DEFINE u == s \o r
<1>1. Len(u) = Len(s) + Len(r) /\ Len(s) \in Nat /\ Len(r) \in Nat /\ \A i \in 1 .. Len(s) : u[i] = s[i]
  BY ConcatNat
<1>2. Ordered(u, n)
  OBVIOUS
<1> HIDE DEF u
<1>3. \A i \in 1 .. Len(s) : i \in 1 .. Len(u)
  BY <1>1
<1> QED BY <1>1, <1>2, <1>3 DEF Ordered

\* Without the socket's connection, what was delivered and held is in order.
LEMMA StreamPrefix ==
    ASSUME TypeOK, Ordered(Stream, made.chunk)
    PROVE  Ordered(got \o sock.held, made.chunk)
<1> DEFINE s == got \o sock.held
           r == IF sock.native = NoId THEN <<>> ELSE nat[sock.native].chunks \o nat[sock.native].rx
<1>1. got \in Seq(Nat) /\ sock.held \in Seq(Nat)
  BY DEF TypeOK, Socket
<1>2. s \in Seq(Nat)
  BY <1>1, ConcatNat
<1>3. r \in Seq(Nat)
  <2>1. CASE sock.native = NoId
    BY <2>1
  <2>2. CASE sock.native # NoId
    <3>1. nat[sock.native] \in ClientConnection
      BY <2>2, NatTypes DEF TypeOK
    <3>2. nat[sock.native].chunks \in Seq(Nat) /\ nat[sock.native].rx \in Seq(Nat)
      BY <3>1, MovesTypes
    <3>3. nat[sock.native].chunks \o nat[sock.native].rx \in Seq(Nat)
      BY <3>2, ConcatNat
    <3> QED BY <2>2, <3>3
  <2> QED BY <2>1, <2>2
<1>4. Ordered(s \o r, made.chunk)
  BY DEF Stream
<1>5. made.chunk \in Nat
  BY NatTypes
<1> HIDE DEF s, r
<1>6. Ordered(s, made.chunk)
  BY <1>2, <1>3, <1>4, <1>5, OrderedPrefix
<1> QED BY <1>6 DEF s

\* A socket without a connection.
LEMMA DataUnlinked ==
    ASSUME TypeOK, TypeOK', DataInv, sock'.native = NoId, sock'.held = sock.held, got' = got, made'.chunk = made.chunk, HeldOK'
    PROVE  DataInv'
<1>1. got \in Seq(Nat) /\ sock.held \in Seq(Nat)
  BY DEF TypeOK, Socket
<1> DEFINE s == got \o sock.held
<1>2. s \in Seq(Nat)
  BY <1>1, ConcatNat
<1>3. Ordered(s, made.chunk)
  BY StreamPrefix DEF DataInv
<1>4. Stream' = s \o <<>>
  BY DEF Stream
<1> HIDE DEF s
<1>5. s \o <<>> = s
  BY <1>2, ConcatEmptySeq
<1>6. Ordered(Stream, made.chunk)'
  BY <1>3, <1>4, <1>5
<1> QED BY <1>6 DEF DataInv

Connected(s) ==
    [s EXCEPT !.gen = @ + 1, !.destroyed = FALSE, !.closeEmitted = FALSE,
              !.connecting = TRUE, !.ready = "opening", !.native = NoId,
              !.attempts = {}, !.targets = 0, !.next = 0, !.multiple = FALSE,
              !.writes = <<>>, !.end = FALSE]

LEMMA ConnectedFacts ==
    ASSUME NEW s \in Socket
    PROVE  LET t == Connected(s) IN
           /\ t \in Socket /\ t.gen = s.gen + 1 /\ ~t.destroyed /\ ~t.closeEmitted /\ t.connecting /\ t.native = NoId /\ t.attempts = {}
           /\ t.targets = 0 /\ t.next = 0 /\ t.writes = <<>> /\ t.held = s.held /\ t.paused = s.paused
<1> DEFINE t == Connected(s)
           g == s.gen + 1
<1>1. g \in Nat
  BY DEF Socket
<1> HIDE DEF g
<1>2. t = [s EXCEPT !.gen = g, !.destroyed = FALSE, !.closeEmitted = FALSE,
              !.connecting = TRUE, !.ready = "opening", !.native = NoId,
              !.attempts = {}, !.targets = 0, !.next = 0, !.multiple = FALSE,
              !.writes = <<>>, !.end = FALSE]
  BY DEF Connected, g, Socket
<1>3. t \in Socket
  <2> DEFINE a == [s EXCEPT !.gen = g, !.destroyed = FALSE, !.closeEmitted = FALSE, !.connecting = TRUE, !.ready = "opening"]
             b == [a EXCEPT !.native = NoId, !.attempts = {}, !.targets = 0, !.next = 0]
  <2>1. a \in Socket
    BY <1>1 DEF Socket
  <2> HIDE DEF a
  <2>2. b \in Socket
    BY <2>1 DEF Socket
  <2> DEFINE e == <<>>
  <2>3. e \in Seq(Nat)
    OBVIOUS
  <2> HIDE DEF b, e
  <2>4. [b EXCEPT !.multiple = FALSE, !.writes = e, !.end = FALSE] \in Socket
    BY <2>2, <2>3 DEF Socket
  <2> QED BY <1>2, <2>4 DEF a, b, e
<1>4. t.gen = g /\ ~t.destroyed /\ ~t.closeEmitted /\ t.connecting /\ t.native = NoId /\ t.attempts = {}
      /\ t.targets = 0 /\ t.next = 0 /\ t.writes = <<>> /\ t.held = s.held /\ t.paused = s.paused
  BY <1>2 DEF Socket
<1> QED BY <1>3, <1>4 DEF g

LEMMA ConnectFacts ==
    ASSUME SocketInv, "reconnect" \notin Env, ~sock.connecting, sock.native = NoId \/ sock.destroyed, sock.destroyed => MayReconnect
    PROVE  /\ sock.attempts = {} /\ Left = 0
           /\ \A j \in On(jobs) : j.kind # "close"
           /\ \A f \in On(stack) : f.fn # "destroying" /\ f.fn # "attempt"
           /\ \A k \in Id : nat[k].life = "open" => nat[k].closing /\ ReadyFor(k)
<1>1. SockInv /\ Leaks /\ TypeOK
  BY DEF SocketInv
<1>2. sock.attempts = {} /\ Left = 0
  BY <1>1 DEF SockInv, Left
<1>3. ASSUME NEW j \in On(jobs) PROVE j.kind # "close"
  <2>1. PICK i \in 1 .. Len(jobs) : j = jobs[i]
    BY DEF On
  <2>2. i \in DOMAIN jobs
    BY <1>1 DEF TypeOK
  <2> QED BY <1>1, <2>1, <2>2 DEF SockInv, MayReconnect
<1>4. \A f \in On(stack) : f.fn # "destroying" /\ f.fn # "attempt"
  BY <1>1, <1>2 DEF SockInv, MayReconnect, Leaks, AttemptOK, Racing
<1>5. NoId \notin Id
  BY <1>1, NatTypes
<1>6. \A k \in Id : nat[k].life = "open" => nat[k].closing /\ ReadyFor(k)
  BY <1>1, <1>2, <1>4, <1>5 DEF Leaks, OpenOK, Owned, Racing, Holds
<1> QED BY <1>2, <1>3, <1>4, <1>6

\* The lookup or the microtask of a connect() is the only one of its generation.
LEMMA ConnectStarts ==
    ASSUME SocketInv, NEW kind, Connect(kind)
    PROVE  /\ jobs' \in Seq(Job) /\ lookups' \subseteq [gen : Nat, all : BOOLEAN] /\ Typed' /\ OneStart'
           /\ \A j \in On(jobs') : j \in On(jobs) \/ j.kind = "begin"
<1> DEFINE g == sock.gen + 1
           x == [J("begin", 1) EXCEPT !.gen = @ + 1]
           y == [gen |-> g, all |-> kind = "all"]
<1>1. TypeOK /\ Typed /\ OneStart /\ sock \in Socket /\ sock' = Connected(sock) /\ UNCHANGED stack
  BY DEF SocketInv, TypeOK, Connect, Connected
<1>2. sock'.gen = g /\ sock'.targets = 0
  BY <1>1, ConnectedFacts
<1>3. sock.gen \in Nat /\ g \in Nat /\ g > sock.gen /\ jobs \in Seq(Job) /\ OneBegin(jobs) /\ On(jobs) \subseteq Job /\ On(stack) \subseteq Frame
      /\ made.write \in Nat /\ made.call \in Nat /\ lookups \subseteq [gen : Nat, all : BOOLEAN] /\ made.write <= made.call
  <2>1. sock.gen \in Nat /\ jobs \in Seq(Job) /\ On(jobs) \subseteq Job /\ On(stack) \subseteq Frame /\ made.write \in Nat /\ made.call \in Nat
    BY <1>1, NatTypes
  <2>2. OneBegin(jobs) /\ lookups \subseteq [gen : Nat, all : BOOLEAN] /\ made.write <= made.call
    BY <1>1 DEF TypeOK, OneStart, Typed
  <2> QED BY <2>1, <2>2
<1>4. /\ \A j \in On(jobs) : j.gen < g /\ j.gen \in Nat /\ JobTyped(j)
      /\ \A f \in On(stack) : f.gen < g /\ f.gen \in Nat /\ FrameTyped(f)
      /\ \A l \in lookups : l.gen < g /\ l.gen \in Nat
  BY <1>1, <1>3 DEF Typed, FrameTyped, JobTyped, Job, Frame
<1>5. x = [kind |-> "begin", gen |-> g, n |-> 1]
  BY DEF J
<1>6. x \in Job /\ x.gen = g /\ x.kind = "begin"
  BY <1>3, <1>5 DEF Job
<1>7. y \in [gen : Nat, all : BOOLEAN] /\ y.gen = g
  BY <1>3
<1>8. made'.write <= made'.call
  <2>1. made' = [made EXCEPT !.call = made.call + 1, !.epoch = made.epoch + 1] /\ made \in Counts
    BY <1>1 DEF Connect, TypeOK, Counts
  <2>2. made'.write = made.write /\ made'.call = made.call + 1
    BY <2>1 DEF Counts
  <2> QED BY <1>3, <2>2
<1> HIDE DEF g, x, y
<1>9. \/ jobs' = Append(jobs, x) /\ lookups' = lookups
      \/ jobs' = jobs /\ lookups' = lookups \cup {y}
  BY DEF Connect, x, y, g
<1>10. CASE jobs' = Append(jobs, x) /\ lookups' = lookups
  <2>1. jobs' \in Seq(Job) /\ OneBegin(jobs') /\ On(jobs') = On(jobs) \cup {x}
    <3>1. Begins(x) => \A j \in On(jobs) : Begins(j) => j.gen # x.gen
      BY <1>3, <1>4, <1>6
    <3>2. Append(jobs, x) \in Seq(Job) /\ OneBegin(Append(jobs, x)) /\ On(Append(jobs, x)) = On(jobs) \cup {x}
      BY <1>3, <1>6, <3>1, QueueAppend
    <3> QED BY <1>10, <3>2
  <2>2. Typed'
    BY <1>1, <1>2, <1>3, <1>4, <1>6, <1>8, <1>10, <2>1 DEF Typed, FrameTyped, JobTyped
  <2>3. OneStart'
    BY <1>1, <1>2, <1>3, <1>4, <1>6, <1>10, <2>1 DEF OneStart
  <2> QED BY <1>3, <1>6, <1>10, <2>1, <2>2, <2>3
<1>11. CASE jobs' = jobs /\ lookups' = lookups \cup {y}
  <2>1. jobs' \in Seq(Job) /\ lookups' \subseteq [gen : Nat, all : BOOLEAN]
    BY <1>3, <1>7, <1>11
  <2>2. Typed'
    BY <1>1, <1>2, <1>3, <1>4, <1>7, <1>8, <1>11 DEF Typed, FrameTyped, JobTyped
  <2>3. OneStart'
    BY <1>1, <1>2, <1>3, <1>4, <1>7, <1>11 DEF OneStart
  <2> QED BY <1>11, <2>1, <2>2, <2>3
<1> QED BY <1>9, <1>10, <1>11

\* connect() counts a call and an epoch, which allows NTargets more attempts.
LEMMA ConnectCounts ==
    ASSUME SocketInv, NEW kind, Connect(kind), Left = 0
    PROVE  made' \in Counts /\ made'.attempt = made.attempt /\ made'.chunk = made.chunk /\ Bounded'
<1>1. TypeOK /\ Bounded /\ sock \in Socket /\ sock' = Connected(sock) /\ made \in Counts /\ made.call < MaxCalls /\ made.epoch < MaxEpochs
      /\ made' = [made EXCEPT !.call = made.call + 1, !.epoch = made.epoch + 1]
  BY DEF SocketInv, TypeOK, Connect, Connected, Counts
<1>2. made.call \in Nat /\ made.epoch \in Nat /\ MaxCalls \in Nat /\ MaxEpochs \in Nat /\ NTargets \in Nat /\ made.attempt \in Nat
  BY <1>1, NatTypes, BoundsAssumption
<1> DEFINE c == made.call + 1
           e == made.epoch + 1
<1>3. c \in 0 .. MaxCalls /\ e \in 0 .. MaxEpochs
  BY <1>1, <1>2
<1>4. made' = [made EXCEPT !.call = c, !.epoch = e]
  BY <1>1
<1> HIDE DEF c, e
<1>5. made' \in Counts
  BY <1>1, <1>3, <1>4 DEF Counts
<1>6. made'.attempt = made.attempt /\ made'.chunk = made.chunk /\ made'.epoch = e
  BY <1>1, <1>4 DEF Counts
<1>7. sock'.targets = 0 /\ sock'.next = 0 /\ sock'.connecting
  BY <1>1, ConnectedFacts
<1>8. made.attempt <= made.epoch * NTargets
  BY <1>1, <1>2 DEF Bounded
<1>9. e * NTargets = made.epoch * NTargets + NTargets
  BY <1>2 DEF e
<1>10. made.attempt + NTargets <= e * NTargets
  <2> DEFINE p == made.epoch * NTargets
  <2>1. p \in Nat
    BY <1>2
  <2> HIDE DEF p
  <2>2. made.attempt <= p /\ e * NTargets = p + NTargets
    BY <1>8, <1>9 DEF p
  <2> QED BY <1>2, <2>1, <2>2
<1>11. 0 \in 0 .. NTargets /\ 0 \in 0 .. 0
  BY <1>2
<1>12. Left' = NTargets
  BY <1>7 DEF Left
<1>13. Bounded'
  BY <1>6, <1>7, <1>10, <1>11, <1>12 DEF Bounded
<1> QED BY <1>5, <1>6, <1>13

LEMMA ConnectKeeps ==
    ASSUME SocketInv, "reconnect" \notin Env, NEW kind, Connect(kind)
    PROVE  SocketInv'
<1>1. /\ TypeOK /\ Shaped(stack) /\ Typed /\ SockInv /\ Uncreated /\ Leaks /\ DataInv /\ Conns
      /\ sock \in Socket /\ sock' = Connected(sock) /\ seen' = NoneSeen /\ wrote' = <<>> /\ UNCHANGED <<settled, nat, stack, served, got>>
      /\ ~sock.connecting /\ (sock.native = NoId \/ sock.destroyed) /\ (sock.destroyed => MayReconnect)
  BY DEF SocketInv, TypeOK, Connect, Connected
<1>2. /\ sock.attempts = {} /\ Left = 0
      /\ \A j \in On(jobs) : j.kind # "close"
      /\ \A f \in On(stack) : f.fn # "destroying" /\ f.fn # "attempt"
      /\ \A k \in Id : nat[k].life = "open" => nat[k].closing /\ ReadyFor(k)
  BY <1>1, ConnectFacts
<1>3. /\ jobs' \in Seq(Job) /\ lookups' \subseteq [gen : Nat, all : BOOLEAN] /\ Typed' /\ OneStart'
      /\ \A j \in On(jobs') : j \in On(jobs) \/ j.kind = "begin"
  BY ConnectStarts
<1>4. made' \in Counts /\ made'.attempt = made.attempt /\ made'.chunk = made.chunk /\ Bounded'
  BY <1>2, ConnectCounts
<1>5. /\ sock' \in Socket /\ sock'.gen = sock.gen + 1 /\ ~sock'.destroyed /\ ~sock'.closeEmitted /\ sock'.connecting /\ sock'.native = NoId
      /\ sock'.attempts = {} /\ sock'.targets = 0 /\ sock'.next = 0 /\ sock'.writes = <<>> /\ sock'.held = sock.held
      /\ sock'.paused = sock.paused
  BY <1>1, ConnectedFacts
<1>6. NoneSeen \in [{"connect", "end", "error", "close"} -> Nat]
  BY DEF NoneSeen
<1>7. wrote' \in Seq(Nat)
  BY <1>1
<1>8. TypeOK'
  BY <1>1, <1>3, <1>4, <1>5, <1>6, <1>7 DEF TypeOK, Counts
<1>9. Shaped(stack)'
  BY <1>1
<1>10. SockInv'
  BY <1>1, <1>2, <1>3, <1>4, <1>5 DEF SockInv
<1>11. \A f \in On(stack) : f.gen # sock.gen + 1
  <2>1. sock.gen \in Nat /\ On(stack) \subseteq Frame
    BY <1>1, NatTypes
  <2>2. \A f \in On(stack) : f.gen \in Nat /\ f.gen <= sock.gen
    BY <1>1, <2>1 DEF Typed, FrameTyped, Frame
  <2> QED BY <2>1, <2>2
<1>12. Uncreated'
  BY <1>1, <1>3, <1>4, <1>5, <1>11 DEF Uncreated, Retired
<1>13. Conns'
  <2>1. made.attempt \in Nat /\ made'.attempt >= made.attempt
    BY <1>1, <1>4, NatTypes
  <2> QED BY <1>1, <1>4, <2>1, ConnsSame
<1>14. \A k \in Id : OpenOK(k)'
  BY <1>1, <1>2 DEF OpenOK, Owned, ReadyFor, Leaks
<1>15. AttemptOK' /\ EndAnswered'
  BY <1>1, <1>2, <1>5 DEF AttemptOK, EndAnswered
<1>16. WritesKept'
  BY <1>1, <1>5 DEF WritesKept
<1>17. HeldOK'
  BY <1>1, <1>5 DEF DataInv, HeldOK, Holds
<1>18. DataInv'
  BY <1>1, <1>4, <1>5, <1>8, <1>17, DataUnlinked
<1> QED BY <1>3, <1>4, <1>8, <1>9, <1>10, <1>12, <1>13, <1>14, <1>15, <1>16, <1>18 DEF SocketInv, Leaks

----------------
(* destroy() *)

\* A connection as it was, or taken out of the loop.
Dropped(c, d) ==
    /\ d \in ClientConnection /\ d.socket = c.socket /\ d.chunks = c.chunks /\ d.rx = c.rx
    /\ EventsOK(c) => EventsOK(d)
    /\ Bare(c) => Bare(d)
    /\ d.life \in {"none", "open"} => d = c
    /\ c.life = "none" => d = c

LEMMA DroppedRefl == \A c \in ClientConnection : Dropped(c, c)
BY DEF Dropped

LEMMA DroppedTrans ==
    ASSUME NEW c, NEW d, NEW e, Dropped(c, d), Dropped(d, e)
    PROVE  Dropped(c, e)
BY DEF Dropped

LEMMA LoopCloseFacts ==
    ASSUME NEW c \in ClientConnection, c.life # "none", NEW cl \in BOOLEAN, c.closing => cl
    PROVE  LET d == LoopClose([c EXCEPT !.closing = cl]) IN
           Dropped(c, d) /\ d.life = "closed" /\ d.closing = cl /\ d.sent = c.sent /\ d.out = c.out
<1> DEFINE e == [c EXCEPT !.closing = cl]
           d == LoopClose(e)
<1>1. e \in ClientConnection /\ e.closing = cl
  BY DEF ClientConnection
<1>2. e.life = c.life /\ e.events = c.events /\ e.chunks = c.chunks /\ e.rx = c.rx /\ e.sent = c.sent /\ e.out = c.out
      /\ e.endRequested = c.endRequested /\ e.peerEnded = c.peerEnded /\ e.finished = c.finished /\ e.socket = c.socket
  BY DEF ClientConnection
<1> HIDE DEF e
<1>3. d = [e EXCEPT !.life = "closed"]
  BY DEF LoopClose
<1>4. d \in ClientConnection
  BY <1>1, <1>3 DEF ClientConnection
<1>5. d.life = "closed" /\ d.closing = e.closing /\ d.events = e.events /\ d.chunks = e.chunks /\ d.rx = e.rx /\ d.sent = e.sent /\ d.out = e.out
      /\ d.endRequested = e.endRequested /\ d.peerEnded = e.peerEnded /\ d.finished = e.finished /\ d.socket = e.socket
  BY <1>1, <1>3 DEF ClientConnection
<1> HIDE DEF d
<1>6. Dropped(c, d)
  BY <1>1, <1>2, <1>4, <1>5 DEF Dropped, EventsOK, Bare
<1> QED BY <1>1, <1>2, <1>5, <1>6 DEF d, e

LEMMA NetDestroyFacts ==
    ASSUME NEW c \in ClientConnection
    PROVE  Dropped(c, NetDestroy(c)) /\ (NetDestroy(c).life = "open" => c.closing) /\ NetDestroy(c) \in ClientConnection
<1>1. CASE c.life # "open" \/ c.closing
  <2>1. NetDestroy(c) = c
    BY <1>1 DEF NetDestroy
  <2> QED BY <1>1, <2>1, DroppedRefl
<1>2. CASE c.life = "open" /\ ~c.closing
  <2> DEFINE d == LoopClose([c EXCEPT !.closing = TRUE])
  <2>1. NetDestroy(c) = d
    BY <1>2 DEF NetDestroy
  <2>2. Dropped(c, d) /\ d.life = "closed"
    BY <1>2, LoopCloseFacts
  <2> HIDE DEF d
  <2> QED BY <2>1, <2>2 DEF Dropped
<1> QED BY <1>1, <1>2

LEMMA DestroyAllFacts ==
    ASSUME NEW N \in [Id -> ClientConnection], NEW K
    PROVE  LET M == NetDestroyAll(N, K) IN
           /\ M \in [Id -> ClientConnection] /\ \A k \in Id : Dropped(N[k], M[k])
           /\ \A k \in Id : k \in K /\ M[k].life = "open" => N[k].closing
<1> DEFINE M == NetDestroyAll(N, K)
<1>1. ASSUME NEW k \in Id
      PROVE  M[k] \in ClientConnection /\ Dropped(N[k], M[k]) /\ (k \in K /\ M[k].life = "open" => N[k].closing)
  <2>1. N[k] \in ClientConnection
    OBVIOUS
  <2>2. CASE k \in K
    <3>1. M[k] = NetDestroy(N[k])
      BY <2>2 DEF NetDestroyAll
    <3> QED BY <2>1, <3>1, NetDestroyFacts
  <2>3. CASE k \notin K
    <3>1. M[k] = N[k]
      BY <2>3 DEF NetDestroyAll
    <3> QED BY <2>1, <2>3, <3>1, DroppedRefl
  <2> QED BY <2>2, <2>3
<1>2. M = [k \in Id |-> M[k]]
  BY DEF NetDestroyAll
<1>3. M \in [Id -> ClientConnection]
  BY <1>1, <1>2
<1> QED BY <1>1, <1>3

LEMMA ConnsDropped ==
    ASSUME Conns, TypeOK, \A k \in Id : Dropped(nat[k], nat'[k]), settled \subseteq settled', made'.attempt = made.attempt
    PROVE  /\ Conns' /\ \A k \in 1 .. made.attempt : nat[k] = NoConnection /\ k \in Id => nat'[k] = NoConnection
<1>1. NoConnection.life = "none"
  BY DEF NoConnection
<1>2. ASSUME NEW k \in Id PROVE ConnOK(k, nat[k])' /\ (nat[k] = NoConnection => nat'[k] = NoConnection)
  <2>1. ConnOK(k, nat[k]) /\ Dropped(nat[k], nat'[k])
    BY DEF Conns
  <2>2. nat[k] = NoConnection => nat'[k] = NoConnection
    BY <1>1, <2>1 DEF Dropped
  <2>3. nat'[k].life = "none" => nat'[k] = NoConnection
    BY <2>1 DEF Dropped, ConnOK
  <2> QED BY <2>1, <2>2, <2>3 DEF ConnOK, Dropped
<1> QED BY <1>2 DEF Conns

Abandoned(s) == AbandonAttempts([s EXCEPT !.destroyed = TRUE, !.connecting = FALSE, !.ready = "closed"])

LEMMA AbandonedFacts ==
    ASSUME NEW s \in Socket
    PROVE  LET t == Abandoned(s) IN
           /\ t \in Socket /\ t.gen = s.gen + 1 /\ t.destroyed /\ ~t.connecting /\ t.native = s.native /\ t.attempts = {}
           /\ (t.closeEmitted <=> s.closeEmitted) /\ t.targets = s.targets /\ t.next = s.next /\ t.held = s.held /\ t.paused = s.paused
<1> DEFINE a == [s EXCEPT !.destroyed = TRUE, !.connecting = FALSE, !.ready = "closed"]
           g == s.gen + 1
           e == <<>>
           t == [a EXCEPT !.gen = g, !.timer = NoId, !.attempts = {}, !.writes = e, !.end = FALSE]
<1>1. g \in Nat /\ e \in Seq(Nat)
  BY DEF Socket
<1>2. a \in Socket /\ a.destroyed /\ ~a.connecting /\ a.native = s.native /\ (a.closeEmitted <=> s.closeEmitted)
      /\ a.targets = s.targets /\ a.next = s.next /\ a.held = s.held /\ a.paused = s.paused /\ a.gen = s.gen
  BY DEF Socket
<1>3. Abandoned(s) = t
  BY <1>2 DEF Abandoned, AbandonAttempts, Socket
<1> HIDE DEF a, g, e
<1>4. t \in Socket
  BY <1>1, <1>2 DEF Socket
<1>5. t.gen = g /\ t.destroyed /\ ~t.connecting /\ t.native = a.native /\ t.attempts = {} /\ (t.closeEmitted <=> a.closeEmitted)
      /\ t.targets = a.targets /\ t.next = a.next /\ t.held = a.held /\ t.paused = a.paused
  BY <1>2 DEF Socket
<1> HIDE DEF t
<1> QED BY <1>2, <1>3, <1>4, <1>5 DEF g

\* The stack below an emit or a continuation: `rest' is the stack, or the stack without its top.
Below(rest) ==
    /\ rest \in Seq(Frame) /\ Shaped(rest)
    /\ \A f \in On(rest) : f \in On(stack) /\ f.fn # "attempt"
    /\ \A f \in On(stack) : f.fn \in {"ready", "resume"} => f \in On(rest)

QueueOK(queue) == queue \in Seq(Job) /\ OneBegin(queue) /\ On(queue) \subseteq On(jobs)

\* What destroy() leaves to do.
LEMMA DestroyFrames ==
    ASSUME TypeOK, Typed, NEW error \in BOOLEAN, NEW rest, Below(rest), NEW queue, QueueOK(queue), Destroying(error, queue, rest)
    PROVE  /\ stack' \in Seq(Frame) /\ Shaped(stack)' /\ jobs' \in Seq(Job) /\ OneBegin(jobs') /\ got' = got
           /\ seen' \in [{"connect", "end", "error", "close"} -> Nat]
           /\ \A f \in On(rest) : f \in On(stack')
           /\ \A f \in On(stack') : f \in On(rest) \/ (f.gen <= sock.gen /\ f.fn \in {"call", "destroying"})
           /\ error => Holds("destroying")'
           /\ \A j \in On(jobs') : j \in On(jobs) \/ (j.gen <= sock.gen /\ j.kind = "close")
<1> DEFINE f == F("destroying", 0)
           x == J("close", 0)
<1>1. f \in Frame /\ f.fn = "destroying" /\ f.gen = sock.gen /\ sock.gen \in Nat
  BY FIs, NatTypes
<1>2. x \in Job /\ x.kind = "close" /\ x.gen = sock.gen
  BY <1>1 DEF J, Job
<1>3. CASE error
  <2>1. Emit("error", <<f>> \o rest) /\ jobs' = queue
    BY <1>3 DEF Destroying
  <2>2. \A g \in On(rest) : g.fn # "attempt" /\ Above(f.fn, g.fn)
    BY <1>1 DEF Below, Above, Inner
  <2>3. stack' = <<Call>> \o (<<f>> \o rest) /\ got' = got /\ seen' \in [{"connect", "end", "error", "close"} -> Nat]
    BY <2>1, SeenFacts
  <2> HIDE DEF f
  <2>4. stack' \in Seq(Frame) /\ Shaped(stack') /\ On(stack') = {Call, f} \cup On(rest)
    BY <1>1, <2>2, <2>3, TellOver DEF Below
  <2>5. Holds("destroying")' /\ \A g \in On(stack') : g \in On(rest) \/ (g.gen <= sock.gen /\ g.fn \in {"call", "destroying"})
    BY <1>1, <2>4, CallIs DEF Holds
  <2>6. jobs' \in Seq(Job) /\ OneBegin(jobs') /\ On(jobs') \subseteq On(jobs)
    BY <2>1 DEF QueueOK
  <2> QED BY <2>3, <2>4, <2>5, <2>6
<1>4. CASE ~error
  <2>1. stack' = rest /\ got' = got /\ seen' = seen /\ jobs' = Append(queue, x)
    BY <1>4 DEF Destroying, Continue, DestroyRest
  <2> HIDE DEF f, x
  <2>2. jobs' \in Seq(Job) /\ OneBegin(jobs') /\ On(jobs') = On(queue) \cup {x}
    <3>1. ~Begins(x)
      BY <1>2 DEF Begins
    <3>2. Append(queue, x) \in Seq(Job) /\ OneBegin(Append(queue, x)) /\ On(Append(queue, x)) = On(queue) \cup {x}
      BY <1>2, <3>1, QueueAppend DEF QueueOK
    <3> QED BY <2>1, <3>2
  <2>3. stack' \in Seq(Frame) /\ Shaped(stack') /\ On(stack') = On(rest)
    BY <2>1 DEF Below
  <2> QED BY <1>1, <1>2, <1>4, <2>1, <2>2, <2>3 DEF QueueOK, TypeOK
<1> QED BY <1>3, <1>4

LEMMA DestroyConns ==
    ASSUME SocketInv, NEW error \in BOOLEAN, NEW queue, NEW rest, Destroying(error, queue, rest)
    PROVE  /\ nat' \in [Id -> ClientConnection] /\ \A k \in Id : Dropped(nat[k], nat'[k])
           /\ \A k \in Id : k \in Racing /\ nat'[k].life = "open" => nat[k].closing
           /\ \A k \in Id : ~error /\ k = sock.native /\ nat'[k].life = "open" => nat[k].closing
<1> DEFINE A == NetDestroyAll(nat, Racing)
           B == NetDestroyAll(A, {sock.native})
<1>1. nat \in [Id -> ClientConnection]
  BY DEF SocketInv, TypeOK
<1>2. /\ A \in [Id -> ClientConnection] /\ \A k \in Id : Dropped(nat[k], A[k])
      /\ \A k \in Id : k \in Racing /\ A[k].life = "open" => nat[k].closing
  BY <1>1, DestroyAllFacts
<1> HIDE DEF A
<1>3. /\ B \in [Id -> ClientConnection] /\ \A k \in Id : Dropped(A[k], B[k])
      /\ \A k \in Id : k \in {sock.native} /\ B[k].life = "open" => A[k].closing
  BY <1>2, DestroyAllFacts
<1> HIDE DEF B
<1>4. nat' = IF error THEN A ELSE B
  BY DEF Destroying, DestroyRest, A, B, Racing
<1>5. CASE error
  BY <1>2, <1>4, <1>5
<1>6. CASE ~error
  <2>1. \A k \in Id : Dropped(nat[k], B[k])
    BY <1>2, <1>3, DroppedTrans
  <2>2. \A k \in Id : B[k].life = "open" => B[k] = A[k] /\ A[k] = nat[k]
    BY <1>2, <1>3 DEF Dropped
  <2>3. \A k \in Id : k = sock.native /\ B[k].life = "open" => nat[k].closing
    BY <1>3, <2>2
  <2>4. \A k \in Id : k \in Racing /\ B[k].life = "open" => nat[k].closing
    BY <1>2, <2>2
  <2> QED BY <1>3, <1>4, <1>6, <2>1, <2>3, <2>4
<1> QED BY <1>5, <1>6

LEMMA LeftNat ==
    ASSUME TypeOK, Bounded
    PROVE  Left \in Nat /\ made.attempt \in Nat /\ made.epoch * NTargets \in Nat /\ made.attempt <= made.epoch * NTargets
<1>1. NTargets \in Nat /\ made.attempt \in Nat /\ made.epoch \in Nat /\ sock.targets \in Nat /\ sock.next \in 0 .. sock.targets
  BY NatTypes DEF Bounded
<1>2. made.epoch * NTargets \in Nat
  BY <1>1
<1>3. Left \in Nat
  BY <1>1 DEF Left
<1> DEFINE p == made.epoch * NTargets
<1> HIDE DEF p
<1>4. made.attempt + Left <= p /\ p \in Nat
  BY <1>2 DEF Bounded, p
<1>5. made.attempt <= p
  BY <1>1, <1>3, <1>4
<1> QED BY <1>1, <1>2, <1>3, <1>5 DEF p

\* destroy() retires every attempt, and leaves a connection in the loop only until its onReady ends or the 'error' listeners return.
LEMMA DestroyingKeeps ==
    ASSUME SocketInv, ~sock.destroyed, NEW error \in BOOLEAN, NEW rest, Below(rest), NEW queue, QueueOK(queue),
           Destroying(error, queue, rest), lookups' \subseteq lookups, wrote' = wrote, served' \subseteq Id \cup {Other},
           made' \in Counts, made'.attempt = made.attempt, made'.epoch = made.epoch, made'.chunk = made.chunk, made'.write <= made'.call
    PROVE  SocketInv'
<1>1. /\ TypeOK /\ Typed /\ OneStart /\ Bounded /\ SockInv /\ Uncreated /\ Leaks /\ DataInv /\ Conns /\ sock \in Socket
      /\ sock' = Abandoned(sock) /\ settled' = settled \cup sock.attempts
  BY DEF SocketInv, TypeOK, Destroying, Abandoned
<1>2. /\ stack' \in Seq(Frame) /\ Shaped(stack)' /\ jobs' \in Seq(Job) /\ OneBegin(jobs') /\ got' = got
      /\ seen' \in [{"connect", "end", "error", "close"} -> Nat]
      /\ \A f \in On(rest) : f \in On(stack')
      /\ \A f \in On(stack') : f \in On(rest) \/ (f.gen <= sock.gen /\ f.fn \in {"call", "destroying"})
      /\ error => Holds("destroying")'
      /\ \A j \in On(jobs') : j \in On(jobs) \/ (j.gen <= sock.gen /\ j.kind = "close")
  BY <1>1, DestroyFrames
<1>3. /\ nat' \in [Id -> ClientConnection] /\ \A k \in Id : Dropped(nat[k], nat'[k])
      /\ \A k \in Id : k \in Racing /\ nat'[k].life = "open" => nat[k].closing
      /\ \A k \in Id : ~error /\ k = sock.native /\ nat'[k].life = "open" => nat[k].closing
  BY DestroyConns
<1>4. /\ sock' \in Socket /\ sock'.gen = sock.gen + 1 /\ sock'.destroyed /\ ~sock'.connecting /\ sock'.native = sock.native
      /\ sock'.attempts = {} /\ (sock'.closeEmitted <=> sock.closeEmitted) /\ sock'.targets = sock.targets /\ sock'.next = sock.next
      /\ sock'.held = sock.held /\ sock'.paused = sock.paused
  BY <1>1, AbandonedFacts
<1>5. TypeOK'
  BY <1>1, <1>2, <1>3, <1>4 DEF TypeOK, Counts, Socket
<1>6. /\ sock.gen \in Nat /\ \A f \in On(stack) : f.gen <= sock.gen /\ f.gen \in Nat /\ FrameTyped(f)
      /\ \A j \in On(jobs) : j.gen <= sock.gen /\ j.gen \in Nat /\ JobTyped(j)
      /\ \A l \in lookups : l.gen <= sock.gen /\ l.gen \in Nat
  <2>1. sock.gen \in Nat /\ On(stack) \subseteq Frame /\ On(jobs) \subseteq Job /\ lookups \subseteq [gen : Nat, all : BOOLEAN]
    BY <1>1, NatTypes DEF TypeOK
  <2> QED BY <1>1, <2>1 DEF Typed, FrameTyped, JobTyped, Frame, Job
<1>7. \A f \in On(rest) : f \in On(stack) /\ f.fn # "attempt"
  BY DEF Below
<1>8. \A f \in On(stack') : f \in On(stack) \/ (f.gen <= sock.gen /\ f.gen \in Nat /\ f.fn \in {"call", "destroying"})
  <2>1. On(stack') \subseteq Frame
    BY <1>2, OnIn
  <2> QED BY <1>2, <1>7, <2>1 DEF Frame
<1>9. \A j \in On(jobs') : j \in On(jobs) \/ (j.gen <= sock.gen /\ j.gen \in Nat /\ j.kind = "close")
  <2>1. On(jobs') \subseteq Job
    BY <1>2, OnIn
  <2> QED BY <1>2, <2>1 DEF Job
<1>10. Typed'
  <2>1. \A f \in On(stack') : FrameTyped(f)'
    BY <1>4, <1>6, <1>8 DEF FrameTyped, Looks
  <2>2. \A j \in On(jobs') : JobTyped(j)'
    BY <1>4, <1>6, <1>9 DEF JobTyped
  <2>3. \A l \in lookups' : l.gen <= sock'.gen
    BY <1>4, <1>6
  <2> QED BY <2>1, <2>2, <2>3 DEF Typed
<1>11. OneStart'
  <2>1. \A f \in On(stack') : Looks(f) => f \in On(stack) /\ f.gen # sock'.gen
    BY <1>4, <1>6, <1>8 DEF Looks
  <2>2. \A j \in On(jobs') : Begins(j) => j \in On(jobs) /\ j.gen # sock'.gen
    BY <1>4, <1>6, <1>9 DEF Begins
  <2>3. \A l \in lookups' : l \in lookups /\ l.gen # sock'.gen
    BY <1>4, <1>6
  <2> QED BY <1>1, <1>2, <2>1, <2>2, <2>3 DEF OneStart
<1>12. Bounded'
  <2>1. Left' = 0
    BY <1>4 DEF Left
  <2>2. made.attempt \in Nat /\ made.attempt + 0 <= made.epoch * NTargets
    BY <1>1, LeftNat
  <2> QED BY <1>1, <1>4, <2>1, <2>2 DEF Bounded
<1>13. SockInv'
  <2>1. sock.native # NoId => sock.native \in Id
    BY <1>1, NatTypes
  <2>2. \A f \in On(stack') : f.fn = "destroying" => sock'.destroyed /\ ~sock'.closeEmitted
    BY <1>1, <1>4 DEF SockInv
  <2> QED BY <1>1, <1>3, <1>4, <2>1, <2>2 DEF SockInv, Dropped
<1>14. Conns' /\ \A k \in 1 .. made.attempt : nat[k] = NoConnection /\ k \in Id => nat'[k] = NoConnection
  BY <1>1, <1>3, ConnsDropped
<1>15. Uncreated'
  <2>1. \A f \in On(stack') : f.fn = "attempting" => f \in On(stack) /\ f.n \in Id
    BY <1>6, <1>8 DEF FrameTyped
  <2>2. \A j \in On(jobs') : j.kind = "createFailed" => j \in On(jobs) /\ j.n \in Id
    BY <1>6, <1>9 DEF JobTyped
  <2> QED BY <1>1, <1>4, <1>14, <2>1, <2>2 DEF Uncreated, Retired
<1>16. ASSUME NEW k \in Id PROVE OpenOK(k)'
  <2> SUFFICES ASSUME nat'[k].life = "open"
               PROVE  Owned(k)' /\ (nat'[k].closing => ReadyFor(k)') /\ (nat'[k].connecting \/ k \in settled')
    BY DEF OpenOK
  <2>1. nat'[k] = nat[k]
    BY <1>3 DEF Dropped
  <2>2. OpenOK(k)
    BY <1>1 DEF Leaks
  <2>3. ReadyFor(k) => ReadyFor(k)'
    BY <1>2 DEF ReadyFor, Below
  <2>4. nat'[k].closing => ReadyFor(k)'
    BY <2>1, <2>2, <2>3 DEF OpenOK
  <2>5. ~Holds("destroying")
    BY <1>1 DEF SockInv, Holds
  <2>6. nat[k].closing \/ (error /\ k = sock.native)
    BY <1>3, <2>1, <2>2, <2>5 DEF OpenOK, Owned
  <2>7. Owned(k)'
    BY <1>2, <1>4, <2>1, <2>4, <2>6 DEF Owned
  <2>8. nat[k].connecting \/ k \in settled \/ k \in Racing
    BY <1>1, <2>1, <2>2 DEF OpenOK, Leaks, AttemptOK
  <2>9. nat'[k].connecting \/ k \in settled'
    BY <1>1, <2>1, <2>8 DEF Racing
  <2> QED BY <2>4, <2>7, <2>9
<1>17. AttemptOK'
  BY <1>2, <1>7 DEF AttemptOK
<1>18. EndAnswered' /\ WritesKept'
  BY <1>4 DEF EndAnswered, WritesKept
<1>19. DataInv'
  <2>1. KeptFrames({"resume"})
    BY <1>2 DEF KeptFrames, Below
  <2> QED BY <1>1, <1>2, <1>3, <1>4, <2>1, DataSame DEF Dropped
<1> QED BY <1>2, <1>5, <1>10, <1>11, <1>12, <1>13, <1>14, <1>15, <1>16, <1>17, <1>18, <1>19 DEF SocketInv, Leaks

LEMMA BelowFacts ==
    ASSUME TypeOK, Shaped(stack), OneStart
    PROVE  /\ Running("call") => Below(stack)
           /\ \A fn : fn \notin {"ready", "resume"} /\ Running(fn) => Below(Rest)
           /\ stack = <<>> => Below(<<>>)
           /\ QueueOK(jobs) /\ (jobs # <<>> => QueueOK(Tail(jobs)))
<1>1. stack \in Seq(Frame) /\ jobs \in Seq(Job) /\ OneBegin(jobs)
  BY DEF TypeOK, OneStart
<1>2. ASSUME Running("call") PROVE Below(stack)
  <2>1. Top.fn = "call" /\ On(stack) = {Top} \cup On(Rest) /\ \A g \in On(Rest) : g.fn # "attempt"
    BY <1>2, TopFacts
  <2> QED BY <1>1, <2>1 DEF Below
<1>3. ASSUME NEW fn, fn \notin {"ready", "resume"}, Running(fn) PROVE Below(Rest)
  <2>1. Top.fn = fn /\ On(stack) = {Top} \cup On(Rest) /\ (\A g \in On(Rest) : g.fn # "attempt") /\ Rest \in Seq(Frame) /\ Shaped(Rest)
    BY <1>3, TopFacts
  <2> QED BY <1>3, <2>1 DEF Below
<1>4. stack = <<>> => Below(<<>>)
  BY ShapeNone DEF Below
<1>5. jobs # <<>> => QueueOK(Tail(jobs))
  BY <1>1, QueueTail DEF QueueOK
<1> QED BY <1>1, <1>2, <1>3, <1>4, <1>5 DEF QueueOK

LEMMA CountsSame ==
    ASSUME SocketInv, made' = made
    PROVE  made' \in Counts /\ made'.attempt = made.attempt /\ made'.epoch = made.epoch /\ made'.chunk = made.chunk /\ made'.write <= made'.call
BY DEF SocketInv, TypeOK, Counts, Typed

LEMMA DestroyKeeps ==
    ASSUME SocketInv, NEW error \in BOOLEAN, Destroy(error)
    PROVE  SocketInv'
<1>1. TypeOK /\ Shaped(stack) /\ OneStart /\ Running("call") /\ ~sock.destroyed /\ CountCall /\ Destroying(error, jobs, stack)
      /\ UNCHANGED <<lookups, served, wrote>> /\ made.write <= made.call
  BY DEF SocketInv, Destroy, InCall, Typed
<1>2. Below(stack) /\ QueueOK(jobs)
  BY <1>1, BelowFacts
<1>3. /\ made' \in Counts /\ made'.attempt = made.attempt /\ made'.epoch = made.epoch /\ made'.chunk = made.chunk
      /\ made'.write = made.write /\ made'.call = made.call + 1
  BY <1>1, CountCallFacts
<1>4. made'.write <= made'.call
  BY <1>1, <1>3, NatTypes
<1>5. served' \subseteq Id \cup {Other} /\ lookups' \subseteq lookups
  BY <1>1 DEF TypeOK
<1> QED BY <1>1, <1>2, <1>3, <1>4, <1>5, DestroyingKeeps

LEMMA FinishedKeeps ==
    ASSUME SocketInv, Finished
    PROVE  SocketInv'
<1>1. TypeOK /\ Shaped(stack) /\ OneStart /\ Running("finished") /\ UNCHANGED <<lookups, served, made, wrote>>
  BY DEF SocketInv, Finished
<1>2. CASE sock.destroyAfterFinish /\ ~sock.destroyed
  <2>1. Destroying(FALSE, jobs, Rest)
    BY <1>2 DEF Finished
  <2>2. Below(Rest) /\ QueueOK(jobs)
    BY <1>1, BelowFacts
  <2>3. served' \subseteq Id \cup {Other} /\ lookups' \subseteq lookups
    BY <1>1 DEF TypeOK
  <2> QED BY <1>1, <1>2, <2>1, <2>2, <2>3, CountsSame, DestroyingKeeps
<1>3. CASE ~(sock.destroyAfterFinish /\ ~sock.destroyed)
  <2>1. stack' = Rest /\ UNCHANGED <<sock, settled, nat, lookups, jobs, served, made, seen, wrote, got>>
    BY <1>3 DEF Finished, Continue
  <2> QED BY <1>1, <2>1, PopKeeps
<1> QED BY <1>2, <1>3

\* The lookup failed in a microtask of its own.
LEMMA JobLookFailedKeeps ==
    ASSUME SocketInv, JobLookFailed
    PROVE  SocketInv'
<1>1. TypeOK /\ Shaped(stack) /\ OneStart /\ SockInv /\ stack = <<>> /\ jobs # <<>> /\ served' = {} /\ UNCHANGED <<lookups, made, wrote>>
  BY DEF SocketInv, JobLookFailed, Drains
<1>2. CASE Retired(Head(jobs).gen)
  <2>1. stack' = <<>> /\ jobs' = Tail(jobs) /\ UNCHANGED <<sock, settled, nat, lookups, made, seen, wrote, got>>
    BY <1>1, <1>2 DEF JobLookFailed, Continue
  <2> QED BY <1>1, <2>1, JobIdleKeeps
<1>3. CASE ~Retired(Head(jobs).gen)
  <2>1. Destroying(TRUE, Tail(jobs), <<>>) /\ ~sock.destroyed
    BY <1>1, <1>3 DEF JobLookFailed, Retired, SockInv
  <2>2. Below(<<>>) /\ QueueOK(Tail(jobs))
    BY <1>1, BelowFacts
  <2> QED BY <1>1, <2>1, <2>2, CountsSame, DestroyingKeeps
<1> QED BY <1>2, <1>3

\* destroy(error) after the 'error' listeners: the socket's connection leaves the loop.
LEMMA DestroyingRestKeeps ==
    ASSUME SocketInv, DestroyingRest
    PROVE  SocketInv'
<1> DEFINE x == J("close", 0)
<1>1. /\ TypeOK /\ Shaped(stack) /\ Typed /\ OneStart /\ Bounded /\ SockInv /\ Uncreated /\ Leaks /\ DataInv /\ Conns
      /\ Running("destroying") /\ nat' = NetDestroyAll(nat, {sock.native}) /\ jobs' = Append(jobs, x) /\ stack' = Rest
      /\ UNCHANGED <<sock, settled, lookups, served, made, seen, wrote, got>> /\ made.write <= made.call
  BY DEF SocketInv, DestroyingRest, DestroyRest, Continue, Typed
<1>2. nat \in [Id -> ClientConnection] /\ jobs \in Seq(Job) /\ OneBegin(jobs) /\ sock.gen \in Nat
  BY <1>1, NatTypes DEF TypeOK, OneStart
<1>3. /\ nat' \in [Id -> ClientConnection] /\ \A k \in Id : Dropped(nat[k], nat'[k])
      /\ \A k \in Id : k = sock.native /\ nat'[k].life = "open" => nat[k].closing
  BY <1>1, <1>2, DestroyAllFacts
<1>4. x \in Job /\ x.kind = "close" /\ x.gen = sock.gen
  BY <1>2 DEF J, Job
<1> HIDE DEF x
<1>5. jobs' \in Seq(Job) /\ OneBegin(jobs') /\ On(jobs') = On(jobs) \cup {x}
  <2>1. ~Begins(x)
    BY <1>4 DEF Begins
  <2>2. Append(jobs, x) \in Seq(Job) /\ OneBegin(Append(jobs, x)) /\ On(Append(jobs, x)) = On(jobs) \cup {x}
    BY <1>2, <1>4, <2>1, QueueAppend
  <2> QED BY <1>1, <2>2
<1>6. /\ stack' \in Seq(Frame) /\ Shaped(stack)' /\ TypedFrames /\ QuietFrames /\ On(stack') = On(Rest)
      /\ \A f \in On(stack) : f.fn # "destroying" => f \in On(stack')
  BY <1>1, PopFrames
<1>7. TypedJobs
  BY <1>2, <1>4, <1>5 DEF TypedJobs, Begins
<1>8. TypeOK'
  BY <1>1, <1>3, <1>5, <1>6 DEF TypeOK
<1>9. RaceSame /\ RoundSame
  BY <1>1 DEF RaceSame, RoundSame
<1>10. Typed' /\ OneStart' /\ Bounded'
  BY <1>1, <1>6, <1>7, <1>9, RaceKept
<1>11. sock.destroyed /\ ~sock.closeEmitted /\ ~sock.connecting /\ sock.attempts = {}
  BY <1>1, TopFacts DEF SockInv
<1>12. SockInv'
  <2>1. sock.native # NoId => sock.native \in Id
    BY <1>1, NatTypes
  <2> QED BY <1>1, <1>3, <1>11, <2>1 DEF SockInv, Dropped
<1>13. Conns' /\ \A k \in 1 .. made.attempt : nat[k] = NoConnection /\ k \in Id => nat'[k] = NoConnection
  BY <1>1, <1>3, ConnsDropped
<1>14. Uncreated'
  <2>1. \A f \in On(stack') : f.fn = "attempting" => f \in On(stack) /\ f.n \in Id
    BY <1>1, <1>6 DEF QuietFrames, Typed, FrameTyped
  <2>2. \A j \in On(jobs') : j.kind = "createFailed" => j \in On(jobs) /\ j.n \in Id
    BY <1>1, <1>4, <1>5 DEF Typed, JobTyped
  <2> QED BY <1>1, <1>11, <1>13, <2>1, <2>2 DEF Uncreated, Retired
<1>15. \A f \in On(stack) : f.fn # "attempt"
  BY <1>1, <1>11 DEF Leaks, AttemptOK, Racing
<1>16. ASSUME NEW k \in Id PROVE OpenOK(k)'
  <2> SUFFICES ASSUME nat'[k].life = "open"
               PROVE  Owned(k)' /\ (nat'[k].closing => ReadyFor(k)') /\ (nat'[k].connecting \/ k \in settled')
    BY DEF OpenOK
  <2>1. nat'[k] = nat[k] /\ OpenOK(k)
    BY <1>1, <1>3 DEF Dropped, Leaks
  <2>2. ReadyFor(k) => ReadyFor(k)'
    BY <1>6 DEF ReadyFor
  <2>3. nat[k].closing /\ ReadyFor(k)
    BY <1>3, <1>11, <2>1 DEF OpenOK, Owned, Racing
  <2>4. nat[k].connecting \/ k \in settled
    BY <1>15, <2>1 DEF OpenOK
  <2> QED BY <1>1, <2>1, <2>2, <2>3, <2>4 DEF Owned
<1>17. AttemptOK'
  BY <1>6, <1>15 DEF AttemptOK, QuietFrames
<1>18. EndAnswered' /\ WritesKept'
  BY <1>1, <1>11 DEF EndAnswered, WritesKept
<1>19. DataInv'
  <2>1. KeptFrames({"resume"})
    BY <1>6 DEF KeptFrames
  <2> QED BY <1>1, <1>3, <2>1, DataSame DEF Dropped
<1> QED BY <1>6, <1>8, <1>10, <1>12, <1>13, <1>14, <1>16, <1>17, <1>18, <1>19 DEF SocketInv, Leaks

----------------
(* The lookup and the attempts *)

LEMMA QuietKeeps ==
    ASSUME SocketInv, TypeOK', Shaped(stack)', Typed', OneStart', UNCHANGED <<sock, settled, nat, made, wrote, got>>,
           QuietFrames, QuietJobs, \A f \in On(stack) : f \in On(stack') \/ Looks(f)
    PROVE  SocketInv'
<1>0. TypeOK /\ Typed /\ Bounded /\ SockInv /\ Uncreated /\ Conns /\ Leaks /\ WritesKept /\ DataInv
  BY DEF SocketInv
<1>1. RaceSame /\ LinkSame
  BY DEF RaceSame, LinkSame
<1>2. KeptFrames({"ready", "attempt", "destroying"}) /\ KeptFrames({"ready", "dispatch", "ended"}) /\ KeptFrames({"resume"})
  BY DEF KeptFrames, Looks
<1>3. Bounded'
  BY <1>0 DEF Bounded, Left
<1>4. SockInv'
  BY <1>0, <1>1, SockKept
<1>5. Uncreated'
  BY <1>0, <1>1, UncreatedKept
<1>6. Conns'
  BY <1>0 DEF Conns, ConnOK
<1>7. (\A k \in Id : OpenOK(k)') /\ AttemptOK'
  BY <1>0, <1>1, <1>2, OpenKept DEF Leaks
<1>8. EndAnswered'
  BY <1>0, <1>1, <1>2, EndKept DEF Leaks
<1>9. WritesKept'
  BY <1>0, <1>1, WritesSame
<1>10. DataInv'
  BY <1>0, <1>1, <1>2, DataSame
<1> QED BY <1>3, <1>4, <1>5, <1>6, <1>7, <1>8, <1>9, <1>10 DEF SocketInv, Leaks

\* An answered lookup becomes the continuation of its connect().
LEMMA LookupTells ==
    ASSUME SocketInv, NEW l \in lookups, l.gen = sock.gen, stack = <<>>, lookups' = lookups \ {l}, served' \subseteq Id \cup {Other},
           NEW fn \in {"looked", "lookedOne", "lookFailed"}, NEW t \in 1 .. NTargets, stack' = <<Call>> \o <<F(fn, t)>>,
           UNCHANGED <<sock, settled, nat, jobs, made, seen, wrote, got>>
    PROVE  SocketInv'
<1>0. PICK f : f = F(fn, t)
  OBVIOUS
<1>1. TypeOK /\ Typed /\ OneStart /\ NTargets \in Nat /\ t \in Nat
  BY BoundsAssumption DEF SocketInv
<1>2. f \in Frame /\ f.fn = fn /\ f.gen = sock.gen /\ f.n = t /\ sock.gen \in Nat
  BY <1>0, <1>1, FIs, NatTypes
<1>3. stack' = <<Call>> \o <<f>>
  BY <1>0
<1>4. f.fn # "attempt"
  BY <1>2
<1>5. stack' \in Seq(Frame) /\ Shaped(stack)' /\ On(stack') = {Call, f} /\ On(stack) = {}
  BY <1>1, <1>2, <1>3, <1>4, SmallStacks
<1>6. TypeOK'
  BY <1>1, <1>5 DEF TypeOK
<1>7. FrameTyped(f)' /\ FrameTyped(Call)'
  BY <1>2, CallIs DEF FrameTyped
<1>8. Typed'
  BY <1>1, <1>5, <1>7 DEF Typed, JobTyped
<1>9. OneStart'
  <2>1. \A m \in lookups' : m \in lookups /\ m.gen # f.gen
    BY <1>1, <1>2 DEF OneStart
  <2>2. \A j \in On(jobs) : Begins(j) => j.gen # f.gen
    BY <1>1, <1>2 DEF OneStart
  <2>3. sock.targets = 0
    BY <1>1 DEF OneStart
  <2> QED BY <1>1, <1>5, <2>1, <2>2, <2>3, CallIs DEF OneStart
<1>10. QuietFrames /\ QuietJobs
  BY <1>2, <1>5, CallIs DEF QuietFrames, QuietJobs
<1> QED BY <1>5, <1>6, <1>8, <1>9, <1>10, QuietKeeps

LEMMA LookupDoneKeeps ==
    ASSUME SocketInv, NEW l \in lookups, NEW fails \in BOOLEAN, LookupDone(l, fails)
    PROVE  SocketInv'
<1>1. TypeOK /\ Shaped(stack) /\ OneStart /\ SockInv /\ stack = <<>> /\ lookups' = lookups \ {l} /\ UNCHANGED <<made, wrote>>
  BY DEF SocketInv, LookupDone, MayServe
<1>2. served' \subseteq Id \cup {Other}
  BY <1>1, ServeFacts DEF LookupDone
<1>3. CASE l.gen # sock.gen \/ (l.all /\ ~sock.connecting)
  <2>1. stack' = <<>> /\ UNCHANGED <<sock, settled, nat, jobs, seen, got>>
    BY <1>3 DEF LookupDone, Continue
  <2>2. TypeOK'
    BY <1>1, <1>2, <2>1 DEF TypeOK
  <2>3. Shaped(stack)' /\ On(stack') = {}
    BY <2>1, ShapeNone
  <2> QED BY <1>1, <2>1, <2>2, <2>3, SockSame, IdleKeeps
<1>4. CASE ~(l.gen # sock.gen \/ (l.all /\ ~sock.connecting)) /\ l.all /\ fails
  <2>1. Destroying(TRUE, jobs, <<>>) /\ ~sock.destroyed
    BY <1>1, <1>4 DEF LookupDone, SockInv
  <2>2. Below(<<>>) /\ QueueOK(jobs)
    BY <1>1, BelowFacts
  <2> QED BY <1>1, <1>2, <2>1, <2>2, CountsSame, DestroyingKeeps
<1>5. CASE ~(l.gen # sock.gen \/ (l.all /\ ~sock.connecting)) /\ ~(l.all /\ fails)
  <2> DEFINE fn == IF l.all THEN "looked" ELSE IF fails THEN "lookFailed" ELSE "lookedOne"
  <2>1. UNCHANGED <<sock, settled, nat, jobs>> /\ \E t \in IF l.all THEN 1 .. NTargets ELSE {1} : Tell(<<F(fn, t)>>)
    BY <1>5 DEF LookupDone
  <2>2. PICK t \in IF l.all THEN 1 .. NTargets ELSE {1} : Tell(<<F(fn, t)>>)
    BY <2>1
  <2>3. t \in 1 .. NTargets /\ fn \in {"looked", "lookedOne", "lookFailed"} /\ l.gen = sock.gen
    BY <1>5, BoundsAssumption
  <2> HIDE DEF fn
  <2> QED BY <1>1, <1>2, <2>1, <2>2, <2>3, LookupTells DEF Tell
<1> QED BY <1>3, <1>4, <1>5

Started(s, tg, nx, mu, k) ==
    [s EXCEPT !.targets = tg, !.multiple = mu, !.timer = NoId, !.next = nx + 1, !.attempts = s.attempts \cup {k}]

LEMMA StartedFacts ==
    ASSUME NEW s \in Socket, NEW tg \in Nat, NEW nx \in Nat, NEW mu \in BOOLEAN, NEW k \in Id
    PROVE  LET t == Started(s, tg, nx, mu, k) IN
           /\ t \in Socket /\ t.gen = s.gen /\ (t.destroyed <=> s.destroyed) /\ (t.connecting <=> s.connecting) /\ t.native = s.native
           /\ t.attempts = s.attempts \cup {k} /\ (t.closeEmitted <=> s.closeEmitted) /\ t.targets = tg /\ t.next = nx + 1
           /\ t.held = s.held /\ t.paused = s.paused /\ t.writes = s.writes
<1> DEFINE n == nx + 1
           A == s.attempts \cup {k}
           t == [s EXCEPT !.targets = tg, !.multiple = mu, !.timer = NoId, !.next = n, !.attempts = A]
<1>1. n \in Nat /\ A \in SUBSET Id
  BY DEF Socket
<1>2. t = Started(s, tg, nx, mu, k)
  BY DEF Started
<1> HIDE DEF n, A
<1>3. t \in Socket
  BY <1>1 DEF Socket
<1>4. t.gen = s.gen /\ (t.destroyed <=> s.destroyed) /\ (t.connecting <=> s.connecting) /\ t.native = s.native
      /\ t.attempts = A /\ (t.closeEmitted <=> s.closeEmitted) /\ t.targets = tg /\ t.next = n
      /\ t.held = s.held /\ t.paused = s.paused /\ t.writes = s.writes
  BY DEF Socket
<1> HIDE DEF t
<1> QED BY <1>2, <1>3, <1>4 DEF n, A

\* The next attempt has a name of its own and no connection yet.
LEMMA NextAttempt ==
    ASSUME SocketInv, NEW d \in Nat \ {0}, made.attempt + d <= made.epoch * NTargets, made' = [made EXCEPT !.attempt = made.attempt + 1]
    PROVE  /\ made' \in Counts /\ made'.attempt = made.attempt + 1 /\ made'.epoch = made.epoch /\ made'.chunk = made.chunk
           /\ made'.write <= made'.call /\ made.attempt + 1 \in Id /\ made.attempt \in Nat
           /\ made.attempt + 1 \notin settled /\ nat[made.attempt + 1] = NoConnection
<1>1. TypeOK /\ made \in Counts /\ Conns /\ SockInv /\ made.write <= made.call
  BY DEF SocketInv, TypeOK, Counts, Typed
<1>2. made.attempt \in Nat /\ made.epoch \in Nat /\ NTargets \in Nat /\ MaxEpochs \in Nat /\ made.epoch <= MaxEpochs
  BY <1>1, NatTypes
<1> DEFINE k == made.attempt + 1
<1>3. k \in Id
  <2> DEFINE p == made.epoch * NTargets
             q == MaxEpochs * NTargets
  <2>1. p \in Nat /\ q \in Nat
    BY <1>2
  <2>2. p <= q
    <3>1. MaxEpochs - made.epoch \in Nat
      BY <1>2
    <3>2. (MaxEpochs - made.epoch) * NTargets \in Nat
      BY <1>2, <3>1
    <3>3. q = p + (MaxEpochs - made.epoch) * NTargets
      BY <1>2
    <3> QED BY <2>1, <3>2, <3>3
  <2>3. made.attempt + d <= p
    OBVIOUS
  <2>4. k \in 1 .. q
    <3> HIDE DEF p, q
    <3> QED BY <1>2, <2>1, <2>2, <2>3
  <2> QED BY <2>4 DEF Id
<1>4. k > made.attempt /\ k \notin 1 .. made.attempt
  BY <1>2
<1>5. k \notin settled /\ nat[k] = NoConnection
  BY <1>1, <1>3, <1>4 DEF SockInv, Conns, ConnOK
<1>6. made' = [made EXCEPT !.attempt = k]
  OBVIOUS
<1> HIDE DEF k
<1>7. made' \in Counts
  BY <1>1, <1>3, <1>6 DEF Counts
<1>8. made'.attempt = k /\ made'.epoch = made.epoch /\ made'.chunk = made.chunk /\ made'.write = made.write /\ made'.call = made.call
  BY <1>1, <1>6 DEF Counts
<1> QED BY <1>1, <1>2, <1>3, <1>5, <1>7, <1>8 DEF k

LEMMA StartKeeps ==
    ASSUME SocketInv, sock.connecting, NEW tg \in 1 .. NTargets, NEW nx \in 0 .. tg - 1, NEW mu \in BOOLEAN,
           made.attempt + (tg - nx) <= made.epoch * NTargets,
           sock' = Started(sock, tg, nx, mu, made.attempt + 1), made' = [made EXCEPT !.attempt = made.attempt + 1],
           NEW rest, Below(rest), \A g \in On(rest) : g.fn = "ready", \A f \in On(stack) : f.fn # "attempt",
           stack' = <<Call>> \o (<<F("attempting", made.attempt + 1)>> \o rest), QueueOK(jobs'),
           \A l \in lookups : l.gen # sock.gen, \A j \in On(jobs') : Begins(j) => j.gen # sock.gen,
           UNCHANGED <<settled, nat, lookups, seen, wrote, got>>, served' \subseteq Id \cup {Other}
    PROVE  SocketInv'
<1>1. /\ TypeOK /\ Typed /\ OneStart /\ Bounded /\ SockInv /\ Uncreated /\ Leaks /\ WritesKept /\ DataInv /\ Conns /\ sock \in Socket
      /\ NTargets \in Nat
  BY BoundsAssumption DEF SocketInv, TypeOK
<1>2. tg \in Nat /\ nx \in Nat /\ nx + 1 \in 0 .. tg /\ tg - nx \in Nat \ {0} /\ tg \in 0 .. NTargets /\ tg # 0
  BY <1>1
<1>3. PICK k : k = made.attempt + 1
  OBVIOUS
<1>4. /\ made' \in Counts /\ made'.attempt = k /\ made'.epoch = made.epoch /\ made'.chunk = made.chunk
      /\ made'.write <= made'.call /\ k \in Id /\ made.attempt \in Nat /\ k \notin settled /\ nat[k] = NoConnection
  BY <1>2, <1>3, NextAttempt
<1>5. k \in Nat /\ \A i \in 1 .. made.attempt : i \in 1 .. k /\ i # k
  BY <1>3, <1>4
<1>6. /\ sock' \in Socket /\ sock'.gen = sock.gen /\ (sock'.destroyed <=> sock.destroyed) /\ sock'.connecting /\ sock'.native = sock.native
      /\ sock'.attempts = sock.attempts \cup {k} /\ (sock'.closeEmitted <=> sock.closeEmitted) /\ sock'.targets = tg /\ sock'.next = nx + 1
      /\ sock'.held = sock.held /\ sock'.paused = sock.paused /\ sock'.writes = sock.writes
  <2>1. sock' = Started(sock, tg, nx, mu, k)
    BY <1>3
  <2>2. sock \in Socket /\ tg \in Nat /\ nx \in Nat /\ mu \in BOOLEAN /\ k \in Id /\ sock.connecting
    BY <1>1, <1>2, <1>4
  <2>3. PICK s : s = sock
    OBVIOUS
  <2>4. PICK t : t = Started(s, tg, nx, mu, k)
    OBVIOUS
  <2>5. s \in Socket
    BY <2>2, <2>3
  <2>6. /\ t \in Socket /\ t.gen = s.gen /\ (t.destroyed <=> s.destroyed) /\ (t.connecting <=> s.connecting) /\ t.native = s.native
        /\ t.attempts = s.attempts \cup {k} /\ (t.closeEmitted <=> s.closeEmitted) /\ t.targets = tg /\ t.next = nx + 1
        /\ t.held = s.held /\ t.paused = s.paused /\ t.writes = s.writes
    BY ONLY <2>2, <2>4, <2>5, StartedFacts
  <2>7. sock' = t
    BY <2>1, <2>3, <2>4
  <2> QED BY <2>2, <2>3, <2>6, <2>7
<1>7. PICK f : f = F("attempting", k)
  OBVIOUS
<1>8. f \in Frame /\ f.fn = "attempting" /\ f.gen = sock.gen /\ f.n = k /\ sock.gen \in Nat
  <2>1. TypeOK /\ k \in Nat
    BY <1>1, <1>5
  <2> QED BY ONLY <1>7, <2>1, FIs, NatTypes
<1>9. stack' \in Seq(Frame) /\ Shaped(stack)' /\ On(stack') = {Call, f} \cup On(rest)
  <2>1. stack' = <<Call>> \o (<<f>> \o rest) /\ f.fn # "attempt"
    BY <1>3, <1>7, <1>8
  <2>2. \A g \in On(rest) : g.fn # "attempt" /\ Above(f.fn, g.fn)
    BY <1>8 DEF Above, InReady
  <2> QED BY <1>8, <2>1, <2>2, TellOver DEF Below
<1>10. jobs' \in Seq(Job) /\ OneBegin(jobs') /\ On(jobs') \subseteq On(jobs)
  BY DEF QueueOK
<1>11. TypeOK'
  BY <1>1, <1>4, <1>6, <1>9, <1>10 DEF TypeOK, Counts
<1>12. \A g \in On(rest) : g \in On(stack) /\ g.fn = "ready"
  BY DEF Below
<1>13. Typed'
  <2>1. \A g \in On(stack') : FrameTyped(g)'
    <3>1. \A g \in On(stack) : FrameTyped(g)
      BY <1>1 DEF Typed
    <3>2. k \in Id /\ sock'.gen = sock.gen
      BY <1>4, <1>6
    <3> QED BY ONLY <3>1, <3>2, <1>8, <1>9, <1>12, CallIs DEF FrameTyped, Looks
  <2> QED BY <1>1, <1>4, <1>6, <1>10, <2>1 DEF Typed, JobTyped
<1>14. OneStart'
  <2>1. \A g \in On(stack') : ~Looks(g)
    BY <1>8, <1>9, <1>12, CallIs DEF Looks
  <2> QED BY <1>1, <1>6, <1>10, <2>1 DEF OneStart
<1>15. Bounded'
  <2>1. Left' = tg - (nx + 1)
    BY <1>2, <1>6 DEF Left
  <2>2. k + (tg - (nx + 1)) = made.attempt + (tg - nx)
    BY <1>2, <1>3, <1>4
  <2> QED BY <1>2, <1>4, <1>6, <2>1, <2>2 DEF Bounded
<1>16. ~sock.destroyed /\ sock.native = NoId /\ ~sock.closeEmitted /\ (\A g \in On(stack) : g.fn # "destroying") /\ \A j \in On(jobs) : j.kind # "close"
  BY <1>1 DEF SockInv
<1>17. SockInv'
  <2>1. \A g \in On(stack') : g.fn # "destroying"
    BY <1>8, <1>9, <1>12, CallIs
  <2>2. sock'.attempts \subseteq 1 .. k /\ settled' \subseteq 1 .. k
    <3>1. k \in 1 .. k
      BY <1>3, <1>4
    <3> QED BY <1>1, <1>5, <1>6, <3>1 DEF SockInv
  <2> QED BY <1>4, <1>6, <1>10, <1>16, <2>1, <2>2 DEF SockInv
<1>18. Racing' = Racing \cup {k}
  BY <1>4, <1>6 DEF Racing
<1>19. Uncreated'
  <2>1. \A g \in On(stack') : g.fn = "attempting" => g = f
    BY <1>8, <1>9, <1>12, CallIs
  <2>2. \A j \in On(jobs') : j.kind = "createFailed" => j.n \in 1 .. k /\ j.n # k /\ nat[j.n] = NoConnection
    BY <1>1, <1>5, <1>10 DEF Uncreated
  <2>3. k \in 1 .. k
    BY <1>3, <1>4
  <2> QED BY <1>4, <1>8, <1>18, <2>1, <2>2, <2>3 DEF Uncreated
<1>20. Conns'
  <2>1. made'.attempt \in Nat /\ made'.attempt >= made.attempt
    BY <1>3, <1>4
  <2> QED BY <1>1, <2>1, ConnsSame
<1>21. ASSUME NEW i \in Id PROVE OpenOK(i)'
  <2>1. OpenOK(i)
    BY <1>1 DEF Leaks
  <2>2. ReadyFor(i) => ReadyFor(i)'
    BY <1>9 DEF ReadyFor, Below
  <2> QED BY <1>6, <1>16, <1>18, <2>1, <2>2 DEF OpenOK, Owned, Holds
<1>22. AttemptOK'
  BY <1>8, <1>9, <1>12, CallIs DEF AttemptOK
<1>23. EndAnswered' /\ WritesKept'
  BY <1>1, <1>6, <1>16 DEF EndAnswered, WritesKept
<1>24. DataInv'
  <2>1. KeptFrames({"resume"})
    BY <1>9 DEF KeptFrames, Below
  <2> QED BY <1>1, <1>4, <1>6, <2>1, DataSame
<1> QED BY <1>9, <1>11, <1>13, <1>14, <1>15, <1>17, <1>19, <1>20, <1>21, <1>22, <1>23, <1>24 DEF SocketInv, Leaks

\* The continuations that start an attempt have nothing below them but the rest of an onReady.
LEMMA OverReady ==
    ASSUME TypeOK, Shaped(stack), NEW fn \in {"looked", "lookedOne", "lookFailed", "timedOut", "failed", "attempting"}, Running(fn)
    PROVE  (\A g \in On(Rest) : g.fn = "ready") /\ (\A f \in On(stack) : f.fn # "attempt") /\ Below(Rest)
<1>1. /\ Top.fn = fn /\ On(stack) = {Top} \cup On(Rest) /\ Rest \in Seq(Frame) /\ Shaped(Rest)
      /\ \A g \in On(Rest) : Above(fn, g.fn) /\ g.fn # "attempt"
  BY TopFacts
<1>2. \A g \in On(Rest) : g.fn = "ready"
  BY <1>1 DEF Above, Inner, InDispatch, InReady
<1> QED BY <1>1, <1>2 DEF Below

LEMMA AgainKeeps ==
    ASSUME SocketInv, NEW fn \in {"timedOut", "failed"}, Running(fn), ~Retired(Top.gen), sock.next < sock.targets,
           StartNextAttempt(sock, Rest), UNCHANGED <<settled, nat, lookups, jobs, served, wrote>>
    PROVE  SocketInv'
<1>1. TypeOK /\ Shaped(stack) /\ OneStart /\ Bounded /\ sock.connecting /\ sock \in Socket /\ served \subseteq Id \cup {Other}
  BY DEF SocketInv, Retired, TypeOK
<1>2. (\A g \in On(Rest) : g.fn = "ready") /\ (\A f \in On(stack) : f.fn # "attempt") /\ Below(Rest)
  BY <1>1, OverReady
<1>3. sock.targets \in 1 .. NTargets /\ sock.next \in 0 .. sock.targets - 1 /\ sock.targets # 0
  BY <1>1, NatTypes DEF Bounded
<1>4. made.attempt + (sock.targets - sock.next) <= made.epoch * NTargets
  BY <1>1, <1>3 DEF Bounded, Left
<1> DEFINE k == made.attempt + 1
<1>5. /\ stack' = <<Call>> \o (<<F("attempting", k)>> \o Rest) /\ made' = [made EXCEPT !.attempt = k] /\ UNCHANGED <<seen, got>>
      /\ sock' = [sock EXCEPT !.timer = NoId, !.next = sock.next + 1, !.attempts = sock.attempts \cup {k}]
  BY <1>1 DEF StartNextAttempt, Tell, Socket
<1>6. sock' = Started(sock, sock.targets, sock.next, sock.multiple, k) /\ sock.multiple \in BOOLEAN
  <2>1. sock.multiple \in BOOLEAN
    BY <1>1 DEF Socket
  <2> HIDE DEF k
  <2>2. sock = [sock EXCEPT !.targets = sock.targets, !.multiple = sock.multiple]
    BY <1>1 DEF Socket
  <2>3. sock' = [sock EXCEPT !.targets = sock.targets, !.multiple = sock.multiple, !.timer = NoId, !.next = sock.next + 1,
                             !.attempts = sock.attempts \cup {k}]
    BY <1>5, <2>2
  <2> QED BY <2>1, <2>3 DEF Started
<1>7. QueueOK(jobs') /\ (\A l \in lookups : l.gen # sock.gen) /\ \A j \in On(jobs') : Begins(j) => j.gen # sock.gen
  <2>1. QueueOK(jobs) /\ jobs' = jobs
    BY <1>1, BelowFacts
  <2>2. (\A l \in lookups : l.gen # sock.gen) /\ \A j \in On(jobs) : Begins(j) => j.gen # sock.gen
    BY <1>1, <1>3 DEF OneStart
  <2> QED BY <2>1, <2>2
<1>8. served' \subseteq Id \cup {Other} /\ UNCHANGED <<settled, nat, lookups, seen, wrote, got>>
  BY <1>1, <1>5
<1> HIDE DEF k
<1>9. k = made.attempt + 1
  BY DEF k
<1> QED BY ONLY SocketInv, <1>1, <1>2, <1>3, <1>4, <1>5, <1>6, <1>7, <1>8, <1>9, StartKeeps

LEMMA TimedOutKeeps ==
    ASSUME SocketInv, TimedOut
    PROVE  SocketInv'
<1>1. CASE ~Retired(Top.gen) /\ sock.next < sock.targets
  BY <1>1, AgainKeeps DEF TimedOut
<1>2. CASE ~(~Retired(Top.gen) /\ sock.next < sock.targets)
  <2>1. Running("timedOut") /\ stack' = Rest /\ UNCHANGED <<sock, settled, nat, lookups, jobs, served, made, seen, wrote, got>>
    BY <1>2 DEF TimedOut, Continue
  <2> QED BY <2>1, PopKeeps
<1> QED BY <1>1, <1>2

LEMMA FailedKeeps ==
    ASSUME SocketInv, Failed
    PROVE  SocketInv'
<1> DEFINE again == ~Retired(Top.gen) /\ sock.multiple /\ sock.next < sock.targets
           over == Retired(Top.gen) \/ (sock.multiple /\ ~(sock.attempts \subseteq settled))
<1>1. TypeOK /\ Shaped(stack) /\ OneStart /\ SockInv /\ Running("failed") /\ UNCHANGED <<lookups, served, wrote>>
  BY DEF SocketInv, Failed
<1>2. CASE again
  BY <1>1, <1>2, AgainKeeps DEF Failed
<1>3. CASE ~again /\ over
  <2>1. stack' = Rest /\ UNCHANGED <<sock, settled, nat, lookups, jobs, served, made, seen, wrote, got>>
    BY <1>1, <1>3 DEF Failed, Continue
  <2> QED BY <1>1, <2>1, PopKeeps
<1>4. CASE ~again /\ ~over
  <2>1. Destroying(TRUE, jobs, Rest) /\ made' = made /\ ~Retired(Top.gen)
    BY <1>4 DEF Failed
  <2>2. ~sock.destroyed
    BY <1>1, <2>1 DEF Retired, SockInv
  <2>3. Below(Rest) /\ QueueOK(jobs)
    BY <1>1, BelowFacts
  <2>4. served' \subseteq Id \cup {Other} /\ lookups' \subseteq lookups
    BY <1>1 DEF TypeOK
  <2> QED BY <1>1, <2>1, <2>2, <2>3, <2>4, CountsSame, DestroyingKeeps
<1> QED BY <1>2, <1>3, <1>4

\* beginAttempts(): the lookup of this connect() is over and no attempt was made.
LEMMA BeginKeeps ==
    ASSUME SocketInv, sock.connecting, sock.targets = 0, NEW tg \in 1 .. NTargets, NEW rest, BeginAttempts(tg, rest),
           Below(rest), \A g \in On(rest) : g.fn = "ready", \A f \in On(stack) : f.fn # "attempt", QueueOK(jobs'),
           \A l \in lookups : l.gen # sock.gen, \A j \in On(jobs') : Begins(j) => j.gen # sock.gen,
           UNCHANGED <<settled, nat, lookups, wrote>>, served' \subseteq Id \cup {Other}
    PROVE  SocketInv'
<1>1. TypeOK /\ Bounded /\ sock \in Socket /\ NTargets \in Nat /\ made.attempt \in Nat /\ made.epoch * NTargets \in Nat
  BY BoundsAssumption, LeftNat DEF SocketInv, TypeOK
<1>2. tg \in Nat /\ 0 \in 0 .. tg - 1 /\ (tg > 1) \in BOOLEAN
  BY <1>1
<1>3. made.attempt + (tg - 0) <= made.epoch * NTargets
  <2> DEFINE p == made.epoch * NTargets
  <2> HIDE DEF p
  <2>1. made.attempt + NTargets <= p /\ p \in Nat
    BY <1>1 DEF Bounded, Left, p
  <2>2. made.attempt + (tg - 0) <= p
    BY <1>1, <1>2, <2>1
  <2> QED BY <2>2 DEF p
<1> DEFINE k == made.attempt + 1
           mu == tg > 1
           s == [sock EXCEPT !.targets = tg, !.next = 0, !.multiple = mu]
<1>4. /\ stack' = <<Call>> \o (<<F("attempting", k)>> \o rest) /\ made' = [made EXCEPT !.attempt = k] /\ UNCHANGED <<seen, got>>
      /\ sock' = [s EXCEPT !.timer = NoId, !.next = s.next + 1, !.attempts = s.attempts \cup {k}]
  BY <1>1 DEF BeginAttempts, StartNextAttempt, Tell, Socket
<1> HIDE DEF k, mu
<1>5. sock' = Started(sock, tg, 0, mu, k)
  <2>1. s.next = 0 /\ s.attempts = sock.attempts
    BY <1>1 DEF Socket
  <2>2. sock' = [s EXCEPT !.timer = NoId, !.next = 0 + 1, !.attempts = sock.attempts \cup {k}]
    BY <1>4, <2>1
  <2> QED BY <1>1, <2>2 DEF Started, Socket
<1>6. k = made.attempt + 1 /\ mu \in BOOLEAN
  BY <1>2 DEF k, mu
<1>7. UNCHANGED <<settled, nat, lookups, seen, wrote, got>>
  BY <1>4
<1> QED BY <1>1, <1>2, <1>3, <1>4, <1>5, <1>6, <1>7, StartKeeps

LEMMA JobBeginKeeps ==
    ASSUME SocketInv, JobBegin
    PROVE  SocketInv'
<1> DEFINE h == Head(jobs)
<1>1. TypeOK /\ Shaped(stack) /\ OneStart /\ stack = <<>> /\ jobs # <<>> /\ h.kind = "begin" /\ jobs' = Tail(jobs) /\ served' = {}
      /\ UNCHANGED <<lookups, wrote, settled, nat>>
  BY DEF SocketInv, JobBegin, Drained, Drains
<1>2. CASE Retired(h.gen)
  <2>1. stack' = <<>> /\ UNCHANGED <<sock, settled, nat, lookups, made, seen, wrote, got>>
    BY <1>1, <1>2 DEF JobBegin, Continue
  <2> QED BY <1>1, <2>1, JobIdleKeeps
<1>3. CASE ~Retired(h.gen)
  <2>1. sock.connecting /\ h.gen = sock.gen /\ BeginAttempts(1, <<>>) /\ 1 \in 1 .. NTargets
    BY <1>3, BoundsAssumption DEF JobBegin, Retired
  <2>2. /\ On(jobs) = {h} \cup On(Tail(jobs)) /\ Begins(h)
        /\ \A j \in On(Tail(jobs)) : Begins(j) => j.gen # h.gen
    BY <1>1, QueueTail DEF TypeOK, OneStart, Begins
  <2>3. sock.targets = 0 /\ \A l \in lookups : l.gen # sock.gen
    BY <1>1, <2>1, <2>2 DEF OneStart
  <2>4. Below(<<>>) /\ QueueOK(jobs') /\ On(<<>>) = {} /\ On(stack) = {}
    BY <1>1, BelowFacts, OnNone
  <2> QED BY <1>1, <2>1, <2>2, <2>3, <2>4, BeginKeeps
<1> QED BY <1>2, <1>3

\* One address: the attempt begins in a microtask.
LEMMA LookedQueues ==
    ASSUME SocketInv, NEW fn \in {"looked", "lookedOne", "lookFailed"}, Running(fn), ~Retired(Top.gen), NEW kind \in {"begin", "lookFailed"},
           jobs' = Append(jobs, J(kind, 1)), stack' = Rest, UNCHANGED <<sock, settled, nat, lookups, served, made, seen, wrote, got>>
    PROVE  SocketInv'
<1>1. TypeOK /\ Shaped(stack) /\ Typed /\ OneStart /\ Top.gen = sock.gen /\ jobs \in Seq(Job) /\ OneBegin(jobs) /\ sock.gen \in Nat
  BY NatTypes DEF SocketInv, Retired, TypeOK, OneStart
<1>2. PICK x : x = J(kind, 1)
  OBVIOUS
<1>3. x \in Job /\ x.kind = kind /\ x.gen = sock.gen
  BY <1>1, <1>2 DEF J, Job
<1>4. Top \in On(stack) /\ Top.fn = fn /\ Looks(Top)
  BY <1>1, TopFacts DEF Looks
<1>5. /\ sock.targets = 0 /\ (\A l \in lookups : l.gen # sock.gen) /\ \A j \in On(jobs) : Begins(j) => j.gen # sock.gen
  BY <1>1, <1>4 DEF OneStart
<1>6. jobs' \in Seq(Job) /\ OneBegin(jobs') /\ On(jobs') = On(jobs) \cup {x}
  <2>1. Begins(x) => \A j \in On(jobs) : Begins(j) => j.gen # x.gen
    BY <1>3, <1>5
  <2>2. Append(jobs, x) \in Seq(Job) /\ OneBegin(Append(jobs, x)) /\ On(Append(jobs, x)) = On(jobs) \cup {x}
    BY <1>1, <1>3, <2>1, QueueAppend
  <2> QED BY <1>2, <2>2
<1>7. /\ stack' \in Seq(Frame) /\ Shaped(stack)' /\ TypedFrames /\ QuietFrames /\ On(stack') = On(Rest)
      /\ \A f \in On(stack) : f.fn # fn => f \in On(stack')
  BY <1>1, PopFrames
<1>8. \A f \in On(stack') : f \in On(stack) /\ ~Looks(f)
  <2>1. (\A g \in On(Rest) : g.fn = "ready") /\ Below(Rest)
    BY <1>1, OverReady
  <2> QED BY <1>7, <2>1 DEF Below, Looks
<1>9. TypeOK'
  BY <1>1, <1>6, <1>7 DEF TypeOK
<1>10. Typed'
  BY <1>1, <1>3, <1>6, <1>8 DEF Typed, FrameTyped, JobTyped
<1>11. OneStart'
  BY <1>1, <1>3, <1>5, <1>6, <1>8 DEF OneStart
<1>12. QuietJobs /\ \A f \in On(stack) : f \in On(stack') \/ Looks(f)
  BY <1>3, <1>6, <1>7 DEF QuietJobs, Looks
<1> QED BY <1>7, <1>9, <1>10, <1>11, <1>12, QuietKeeps

LEMMA LookedKeeps ==
    ASSUME SocketInv, Looked
    PROVE  SocketInv'
<1>1. TypeOK /\ Shaped(stack) /\ Typed /\ OneStart /\ UNCHANGED <<settled, nat, lookups, served, wrote>>
  BY DEF SocketInv, Looked
<1>2. PICK fn \in {"looked", "lookedOne", "lookFailed"} : Running(fn)
  BY DEF Looked
<1>3. Top \in On(stack) /\ Top.fn = fn /\ Looks(Top) /\ Top.n \in 1 .. NTargets
  <2>1. Top \in On(stack) /\ Top.fn = fn /\ Looks(Top)
    BY <1>1, <1>2, TopFacts DEF Looks
  <2> QED BY <1>1, <2>1 DEF Typed, FrameTyped
<1>4. CASE Retired(Top.gen)
  <2>1. stack' = Rest /\ UNCHANGED <<sock, settled, nat, lookups, jobs, served, made, seen, wrote, got>>
    BY <1>1, <1>4 DEF Looked, Continue
  <2> QED BY <1>2, <2>1, PopKeeps
<1>5. CASE ~Retired(Top.gen) /\ (Top.fn = "lookedOne" \/ Top.n > 1)
  <2>1. BeginAttempts(Top.n, Rest) /\ jobs' = jobs /\ sock.connecting /\ Top.gen = sock.gen
    BY <1>5 DEF Looked, Retired
  <2>2. sock.targets = 0 /\ (\A l \in lookups : l.gen # sock.gen) /\ \A j \in On(jobs) : Begins(j) => j.gen # sock.gen
    BY <1>1, <1>3, <2>1 DEF OneStart
  <2>3. (\A g \in On(Rest) : g.fn = "ready") /\ (\A f \in On(stack) : f.fn # "attempt") /\ Below(Rest)
    BY <1>1, <1>2, OverReady
  <2>4. QueueOK(jobs')
    BY <1>1, <2>1, BelowFacts
  <2>5. served' \subseteq Id \cup {Other} /\ \A j \in On(jobs') : Begins(j) => j.gen # sock.gen
    BY <1>1, <2>1, <2>2 DEF TypeOK
  <2>6. PICK tg \in 1 .. NTargets : tg = Top.n
    BY <1>3
  <2> QED BY <1>1, <2>1, <2>2, <2>3, <2>4, <2>5, <2>6, BeginKeeps
<1>6. CASE ~Retired(Top.gen) /\ ~(Top.fn = "lookedOne" \/ Top.n > 1)
  <2> DEFINE kind == IF Top.fn = "looked" THEN "begin" ELSE "lookFailed"
  <2>1. jobs' = Append(jobs, J(kind, 1)) /\ stack' = Rest /\ UNCHANGED <<sock, settled, nat, lookups, served, made, seen, wrote, got>>
    BY <1>1, <1>6 DEF Looked, Continue
  <2>2. kind \in {"begin", "lookFailed"}
    OBVIOUS
  <2> HIDE DEF kind
  <2> QED BY <1>2, <1>6, <2>1, <2>2, LookedQueues
<1> QED BY <1>4, <1>5, <1>6

----------------
(* net_create *)

Opened(c) == [c EXCEPT !.life = "open", !.connecting = TRUE]

LEMMA OpenedFacts ==
    ASSUME NEW c \in ClientConnection
    PROVE  LET d == Opened(c) IN
           /\ d \in ClientConnection /\ d.life = "open" /\ d.connecting /\ d.closing = c.closing /\ d.socket = c.socket
           /\ d.endRequested = c.endRequested /\ d.peerEnded = c.peerEnded /\ d.finished = c.finished
           /\ d.chunks = c.chunks /\ d.rx = c.rx /\ d.sent = c.sent /\ d.out = c.out /\ d.events = c.events
BY DEF Opened, ClientConnection

LEMMA NoConnectionIs ==
    /\ NoConnection \in ClientConnection /\ NoConnection.life = "none" /\ ~NoConnection.socket /\ ~NoConnection.closing
    /\ Bare(NoConnection) /\ NoConnection.events = <<>> /\ EventsOK(NoConnection)
<1>1. NoConnection \in ClientConnection
  BY DEF NoConnection, ClientConnection
<1>2. /\ NoConnection.life = "none" /\ ~NoConnection.socket /\ ~NoConnection.closing
      /\ Bare(NoConnection) /\ NoConnection.events = <<>>
  BY DEF Bare, NoConnection
<1>3. EventsOK(NoConnection)
  <2>1. DataAt(<<>>) = {} /\ On(<<>>) = {} /\ Len(<<>>) = 0
    BY OnNone DEF DataAt
  <2>2. Cardinality({}) = 0
    BY FS_EmptySet
  <2>3. NoConnection.chunks = <<>>
    BY <1>2 DEF Bare
  <2> QED BY <1>2, <2>1, <2>2, <2>3 DEF EventsOK
<1> QED BY <1>1, <1>2, <1>3

LEMMA CreatedFacts ==
    LET d == Opened(NoConnection) IN
    /\ d \in ClientConnection /\ d.life = "open" /\ d.connecting /\ ~d.closing /\ ~d.socket
    /\ d.chunks = <<>> /\ d.rx = <<>> /\ Bare(d) /\ EventsOK(d)
<1> DEFINE c == NoConnection
           d == Opened(c)
<1>1. /\ c \in ClientConnection /\ ~c.socket /\ ~c.closing /\ Bare(c) /\ EventsOK(c)
  BY NoConnectionIs
<1> HIDE DEF c
<1>2. /\ d \in ClientConnection /\ d.life = "open" /\ d.connecting /\ d.closing = c.closing /\ d.socket = c.socket
      /\ d.endRequested = c.endRequested /\ d.peerEnded = c.peerEnded /\ d.finished = c.finished
      /\ d.chunks = c.chunks /\ d.rx = c.rx /\ d.sent = c.sent /\ d.out = c.out /\ d.events = c.events
  BY <1>1, OpenedFacts
<1> HIDE DEF d
<1>3. Bare(d) /\ EventsOK(d)
  BY <1>1, <1>2 DEF Bare, EventsOK
<1> QED BY <1>1, <1>2, <1>3 DEF Bare, c, d

\* The attempt has its connection, or the microtask that fails it.
LEMMA AttemptedKeeps ==
    ASSUME SocketInv, Running("attempting"), ~Retired(Top.gen), stack' = Rest, NEW n \in Id, n = Top.n, NEW t \in Id \cup {NoId},
           sock' = [sock EXCEPT !.timer = t], nat' \in [Id -> ClientConnection], \A k \in Id : k # n => nat'[k] = nat[k],
           nat'[n] \in {NoConnection, Opened(NoConnection)}, jobs' \in Seq(Job), OneBegin(jobs'),
           \A j \in On(jobs') : j \in On(jobs) \/ (j.gen = sock.gen /\ j.kind = "createFailed" /\ j.n = n /\ nat'[n] = NoConnection),
           UNCHANGED <<settled, lookups, served, made, seen, wrote, got>>
    PROVE  SocketInv'
<1>1. /\ TypeOK /\ Shaped(stack) /\ Typed /\ OneStart /\ Bounded /\ SockInv /\ Uncreated /\ Leaks /\ WritesKept /\ DataInv /\ Conns
      /\ sock \in Socket /\ sock.gen \in Nat /\ sock.connecting /\ made.write <= made.call
  BY NatTypes DEF SocketInv, TypeOK, Retired, Typed
<1>2. /\ (\A g \in On(Rest) : g.fn = "ready") /\ (\A f \in On(stack) : f.fn # "attempt") /\ Below(Rest)
      /\ Top \in On(stack) /\ Top.fn = "attempting" /\ On(stack) = {Top} \cup On(Rest)
  BY <1>1, OverReady, TopFacts
<1>3. /\ n \in 1 .. made.attempt /\ nat[n] = NoConnection /\ n \in Racing
      /\ \A j \in On(jobs) : j.kind = "createFailed" => j.n # n
  BY <1>1, <1>2 DEF Uncreated
<1>4. sock' \in Socket
  BY <1>1 DEF Socket
<1>5. sock'.ready = sock.ready /\ sock'.writes = sock.writes /\ sock'.held = sock.held /\ sock'.native = sock.native
      /\ sock'.gen = sock.gen /\ sock'.connecting = sock.connecting /\ sock'.attempts = sock.attempts /\ sock'.targets = sock.targets
      /\ sock'.next = sock.next /\ sock'.destroyed = sock.destroyed /\ sock'.closeEmitted = sock.closeEmitted /\ sock'.paused = sock.paused
  BY <1>1 DEF Socket
<1>6. RaceSame /\ RoundSame /\ LinkSame
  BY <1>1, <1>5 DEF RaceSame, RoundSame, LinkSame
<1>7. /\ stack' \in Seq(Frame) /\ Shaped(stack)' /\ TypedFrames /\ QuietFrames /\ On(stack') = On(Rest)
      /\ \A f \in On(stack) : f.fn # "attempting" => f \in On(stack')
  BY <1>1, PopFrames
<1>8. TypeOK'
  BY <1>1, <1>4, <1>7 DEF TypeOK
<1>9. TypedJobs
  BY <1>1 DEF TypedJobs, Begins
<1>10. Typed' /\ OneStart' /\ Bounded'
  BY <1>1, <1>6, <1>7, <1>9, RaceKept
<1>11. ~sock.destroyed /\ sock.native = NoId /\ ~sock.closeEmitted /\ (\A g \in On(stack) : g.fn # "destroying") /\ \A j \in On(jobs) : j.kind # "close"
  BY <1>1 DEF SockInv
<1>12. SockInv'
  <2>1. (\A g \in On(stack') : g.fn # "destroying") /\ \A j \in On(jobs') : j.kind # "close"
    BY <1>2, <1>7, <1>11
  <2> QED BY <1>1, <1>5, <1>11, <2>1 DEF SockInv
<1>13. Uncreated'
  <2>1. \A g \in On(stack') : g.fn # "attempting"
    BY <1>2, <1>7
  <2>2. \A j \in On(jobs') : j.kind = "createFailed" => j.n \in 1 .. made.attempt /\ nat'[j.n] = NoConnection
    <3> SUFFICES ASSUME NEW j \in On(jobs'), j.kind = "createFailed" PROVE j.n \in 1 .. made.attempt /\ nat'[j.n] = NoConnection
      OBVIOUS
    <3>1. CASE j \in On(jobs)
      <4>1. j.n \in 1 .. made.attempt /\ nat[j.n] = NoConnection /\ j.n # n /\ j.n \in Id
        BY <1>1, <1>3, <3>1 DEF Uncreated, Typed, JobTyped
      <4> QED BY <4>1
    <3>2. CASE j \notin On(jobs)
      BY <1>3, <3>2
    <3> QED BY <3>1, <3>2
  <2> QED BY <2>1, <2>2 DEF Uncreated
<1>14. /\ ~nat'[n].socket /\ ~nat'[n].closing /\ Bare(nat'[n]) /\ EventsOK(nat'[n]) /\ nat'[n].chunks = <<>> /\ nat'[n].rx = <<>>
       /\ (nat'[n].life = "none" => nat'[n] = NoConnection) /\ (nat'[n].life = "open" => nat'[n].connecting)
       /\ nat[n].chunks = <<>> /\ nat[n].rx = <<>>
  <2>1. NoConnection.chunks = <<>> /\ NoConnection.rx = <<>>
    BY NoConnectionIs DEF Bare
  <2> QED BY <1>3, <2>1, NoConnectionIs, CreatedFacts
<1>15. Conns'
  <2>1. \A k \in Id : ConnOK(k, nat[k])
    BY <1>1 DEF Conns
  <2>2. made.attempt \in Nat /\ n \in Nat
    BY <1>1, NatTypes
  <2>3. ~(n > made.attempt)
    BY <1>3, <2>2
  <2> QED BY <1>14, <2>1, <2>3 DEF Conns, ConnOK
<1>16. ASSUME NEW k \in Id PROVE OpenOK(k)'
  <2>1. OpenOK(k)
    BY <1>1 DEF Leaks
  <2>2. ReadyFor(k) => ReadyFor(k)'
    BY <1>7 DEF ReadyFor
  <2>3. Racing' = Racing
    BY <1>5 DEF Racing
  <2>4. CASE k = n
    BY <1>3, <1>14, <2>3, <2>4 DEF OpenOK, Owned
  <2>5. CASE k # n
    BY <1>2, <1>5, <1>11, <2>1, <2>2, <2>3, <2>5 DEF OpenOK, Owned, Holds
  <2> QED BY <2>4, <2>5
<1>17. AttemptOK'
  BY <1>2, <1>7 DEF AttemptOK
<1>18. EndAnswered' /\ WritesKept'
  BY <1>1, <1>5, <1>11 DEF EndAnswered, WritesKept
<1>19. DataInv'
  <2>1. KeptFrames({"resume"})
    BY <1>7 DEF KeptFrames
  <2>2. \A k \in Id : nat'[k].chunks = nat[k].chunks /\ nat'[k].rx = nat[k].rx
    BY <1>14
  <2> QED BY <1>1, <1>5, <2>1, <2>2, DataSame
<1> QED BY <1>7, <1>8, <1>10, <1>12, <1>13, <1>15, <1>16, <1>17, <1>18, <1>19 DEF SocketInv, Leaks

LEMMA AttemptingKeeps ==
    ASSUME SocketInv, Attempting
    PROVE  SocketInv'
<1>1. /\ TypeOK /\ Shaped(stack) /\ Typed /\ OneStart /\ Uncreated /\ Running("attempting") /\ stack' = Rest /\ sock \in Socket
      /\ UNCHANGED <<settled, lookups, served, made, seen, wrote, got>> /\ nat \in [Id -> ClientConnection]
      /\ jobs \in Seq(Job) /\ OneBegin(jobs) /\ sock.gen \in Nat
  BY NatTypes DEF SocketInv, Attempting, Continue, TypeOK, OneStart
<1>2. Top \in On(stack) /\ Top.fn = "attempting" /\ Top.n \in Id /\ nat[Top.n] = NoConnection
  <2>1. Top \in On(stack) /\ Top.fn = "attempting"
    BY <1>1, TopFacts
  <2> QED BY <1>1, <2>1 DEF Typed, FrameTyped, Uncreated
<1>3. CASE Retired(Top.gen)
  BY <1>1, <1>3, PopKeeps DEF Attempting
<1>4. CASE ~Retired(Top.gen)
  <2>1. PICK n \in Id : n = Top.n
    BY <1>2
  <2>2. CASE /\ nat' = [nat EXCEPT ![n] = Opened(NoConnection)] /\ jobs' = jobs
             /\ sock' = [sock EXCEPT !.timer = IF sock.multiple /\ sock.next < sock.targets THEN n ELSE @]
    <3>1. PICK t \in Id \cup {NoId} : sock' = [sock EXCEPT !.timer = t]
      <4>1. sock.timer \in Id \cup {NoId}
        BY <1>1 DEF Socket
      <4> QED BY <2>2, <4>1
    <3>2. nat' \in [Id -> ClientConnection] /\ nat'[n] = Opened(NoConnection) /\ \A k \in Id : k # n => nat'[k] = nat[k]
      BY <1>1, <2>2, CreatedFacts
    <3>3. jobs' \in Seq(Job) /\ OneBegin(jobs') /\ \A j \in On(jobs') : j \in On(jobs)
      BY <1>1, <2>2
    <3> QED BY <1>1, <1>4, <2>1, <3>1, <3>2, <3>3, AttemptedKeeps
  <2>3. CASE jobs' = Append(jobs, J("createFailed", n)) /\ sock' = sock /\ nat' = nat
    <3>1. PICK x : x = J("createFailed", n)
      OBVIOUS
    <3>2. x \in Job /\ x.kind = "createFailed" /\ x.n = n /\ x.gen = sock.gen
      BY <1>1, <3>1, NatTypes DEF J, Job
    <3>3. jobs' \in Seq(Job) /\ OneBegin(jobs') /\ \A j \in On(jobs') : j \in On(jobs) \/ j = x
      <4>1. Append(jobs, x) \in Seq(Job) /\ OneBegin(Append(jobs, x)) /\ On(Append(jobs, x)) = On(jobs) \cup {x}
        BY <1>1, <3>2, QueueAppend DEF Begins
      <4> QED BY <2>3, <3>1, <4>1
    <3>4. PICK t \in Id \cup {NoId} : sock' = [sock EXCEPT !.timer = t]
      BY <1>1, <2>3 DEF Socket
    <3> QED BY <1>1, <1>2, <1>4, <2>1, <2>3, <3>2, <3>3, <3>4, AttemptedKeeps
  <2> QED BY <1>1, <1>2, <1>4, <2>1, <2>2, <2>3 DEF Attempting, Opened
<1> QED BY <1>3, <1>4

\* failAttempt(): the attempt is settled, its connection is closing or was never created.
LEMMA FailKeeps ==
    ASSUME SocketInv, NEW n \in Id, n \in 1 .. made.attempt, OnlyEvents(n), Conns',
           \A k \in 1 .. made.attempt : nat[k] = NoConnection => nat'[k] = NoConnection,
           \A k \in Id : "end" \in On(nat[k].events) => "end" \in On(nat'[k].events),
           nat[n].life = "open" => nat[n].closing, NEW rest, Below(rest), \A g \in On(rest) : g.fn = "ready",
           \A f \in On(stack) : f.fn = "ready" \/ (f.fn = "attempt" /\ f.n = n),
           stack' = <<Call>> \o (<<F("failed", n)>> \o rest), QueueOK(jobs'), settled' = settled \cup {n},
           UNCHANGED <<sock, lookups, made, seen, wrote, got>>, served' \subseteq Id \cup {Other}
    PROVE  SocketInv'
<1>1. /\ TypeOK /\ Typed /\ OneStart /\ Bounded /\ SockInv /\ Uncreated /\ Leaks /\ WritesKept /\ DataInv /\ Conns
      /\ n \in Nat /\ sock.gen \in Nat
  BY NatTypes DEF SocketInv
<1>2. PICK f : f = F("failed", n)
  OBVIOUS
<1>3. f \in Frame /\ f.fn = "failed" /\ f.gen = sock.gen /\ f.n = n
  BY <1>1, <1>2, FIs
<1>4. stack' \in Seq(Frame) /\ Shaped(stack)' /\ On(stack') = {Call, f} \cup On(rest)
  <2>1. stack' = <<Call>> \o (<<f>> \o rest) /\ f.fn # "attempt"
    BY <1>2, <1>3
  <2>2. \A g \in On(rest) : g.fn # "attempt" /\ Above(f.fn, g.fn)
    BY <1>3 DEF Above, InReady
  <2> QED BY <1>3, <2>1, <2>2, TellOver DEF Below
<1>5. jobs' \in Seq(Job) /\ OneBegin(jobs') /\ On(jobs') \subseteq On(jobs)
  BY DEF QueueOK
<1>6. TypeOK'
  BY <1>1, <1>4, <1>5 DEF TypeOK, OnlyEvents
<1>7. (\A g \in On(rest) : g \in On(stack) /\ g.fn = "ready") /\ \A g \in On(stack) : g.fn = "ready" => g \in On(rest)
  BY DEF Below
<1>8. \A g \in On(stack') : g.fn \in {"call", "failed", "ready"}
  BY <1>3, <1>4, <1>7, CallIs
<1>9. Typed'
  <2>1. \A g \in On(stack') : FrameTyped(g)'
    <3>1. (\A g \in On(stack) : FrameTyped(g)) /\ sock'.gen = sock.gen /\ n \in Id
      BY <1>1 DEF Typed
    <3> QED BY ONLY <3>1, <1>1, <1>3, <1>4, <1>7, CallIs DEF FrameTyped, Looks
  <2> QED BY <1>1, <1>5, <2>1 DEF Typed, JobTyped
<1>10. OneStart'
  <2>1. \A g \in On(stack') : ~Looks(g)
    BY <1>8 DEF Looks
  <2> QED BY <1>1, <1>5, <2>1 DEF OneStart
<1>11. Bounded'
  BY <1>1 DEF Bounded, Left
<1>12. SockInv'
  <2>1. sock.native # NoId => sock.native \in Id
    BY <1>1, NatTypes
  <2> QED BY <1>1, <1>5, <1>8, <2>1 DEF SockInv, OnlyEvents
<1>13. Uncreated'
  BY <1>1, <1>5, <1>8 DEF Uncreated
<1>14. ASSUME NEW k \in Id PROVE OpenOK(k)'
  <2>1. OpenOK(k) /\ nat'[k].life = nat[k].life /\ nat'[k].closing = nat[k].closing /\ nat'[k].connecting = nat[k].connecting
    BY <1>1 DEF Leaks, OnlyEvents
  <2>2. ReadyFor(k) => ReadyFor(k)'
    BY <1>4, <1>7 DEF ReadyFor
  <2>3. Racing' = Racing \ {n}
    BY DEF Racing
  <2>4. CASE k = n
    BY <2>1, <2>2, <2>4 DEF OpenOK, Owned
  <2>5. CASE k # n
    BY <2>1, <2>2, <2>3, <2>5 DEF OpenOK, Owned, Holds
  <2> QED BY <2>4, <2>5
<1>15. AttemptOK'
  BY <1>8 DEF AttemptOK
<1>16. EndAnswered'
  <2>1. KeptFrames({"ready", "dispatch", "ended"})
    BY <1>4, <1>7 DEF KeptFrames
  <2> QED BY <1>1, <2>1, EndKept DEF OnlyEvents, LinkSame, Leaks
<1>17. WritesKept'
  BY <1>1, WritesSame DEF OnlyEvents, LinkSame
<1>18. DataInv'
  <2>1. KeptFrames({"resume"})
    BY <1>4, <1>7 DEF KeptFrames
  <2> QED BY <1>1, <2>1, DataSame DEF OnlyEvents
<1> QED BY <1>4, <1>6, <1>9, <1>10, <1>11, <1>12, <1>13, <1>14, <1>15, <1>16, <1>17, <1>18 DEF SocketInv, Leaks

LEMMA JobCreateFailedKeeps ==
    ASSUME SocketInv, JobCreateFailed
    PROVE  SocketInv'
<1> DEFINE h == Head(jobs)
<1>1. /\ TypeOK /\ Shaped(stack) /\ Typed /\ OneStart /\ Uncreated /\ Conns /\ stack = <<>> /\ jobs # <<>> /\ h.kind = "createFailed"
      /\ jobs' = Tail(jobs) /\ served' = {} /\ UNCHANGED <<sock, nat, made, lookups, wrote>>
  BY DEF SocketInv, JobCreateFailed, Drained, Drains
<1>2. CASE h.gen # sock.gen \/ h.n \in settled
  <2>1. stack' = <<>> /\ UNCHANGED <<sock, settled, nat, lookups, made, seen, wrote, got>>
    BY <1>1, <1>2 DEF JobCreateFailed, Continue
  <2> QED BY <1>1, <2>1, JobIdleKeeps
<1>3. CASE ~(h.gen # sock.gen \/ h.n \in settled)
  <2>1. h \in On(jobs)
    BY <1>1, TailJobs
  <2>2. h.n \in Id /\ h.n \in 1 .. made.attempt /\ nat[h.n] = NoConnection
    BY <1>1, <2>1 DEF Typed, JobTyped, Uncreated
  <2>3. PICK n \in Id : n = h.n
    BY <2>2
  <2>4. settled' = settled \cup {n} /\ stack' = <<Call>> \o (<<F("failed", n)>> \o <<>>) /\ UNCHANGED <<seen, got>>
    BY <1>1, <1>3, <2>3 DEF JobCreateFailed, FailAttempt, Tell
  <2>5. Below(<<>>) /\ QueueOK(jobs') /\ On(<<>>) = {} /\ On(stack) = {}
    BY <1>1, BelowFacts, OnNone
  <2>6. OnlyEvents(n)
    BY <1>1 DEF OnlyEvents, TypeOK
  <2>7. Conns'
    <3>1. made.attempt \in Nat /\ settled \subseteq settled' /\ made'.attempt = made.attempt
      BY <1>1, <2>4, NatTypes
    <3> QED BY <1>1, <3>1, ConnsSame
  <2>8. nat[n].life # "open"
    BY <2>2, <2>3, NoConnectionIs
  <2> QED BY <1>1, <2>2, <2>3, <2>4, <2>5, <2>6, <2>7, <2>8, FailKeeps
<1> QED BY <1>2, <1>3

\* An attempt's event loop runs inside the onReady of its connection.
LEMMA AttemptFacts ==
    ASSUME SocketInv, Running("attempt"), NEW n, n = Top.n
    PROVE  /\ n \in Id /\ n \in Racing /\ n \in 1 .. made.attempt /\ nat[n].life = "open" /\ nat[n] \in ClientConnection /\ ConnOK(n, nat[n])
           /\ (\A g \in On(Rest) : g.fn = "ready") /\ Below(Rest) /\ On(stack) = {Top} \cup On(Rest) /\ Top.fn = "attempt"
           /\ sock.connecting /\ ~sock.destroyed /\ sock.native = NoId /\ ~nat[n].socket /\ Bare(nat[n])
<1>1. TypeOK /\ Shaped(stack) /\ Typed /\ OneStart /\ SockInv /\ Conns /\ Leaks
  BY DEF SocketInv
<1>2. /\ Top \in On(stack) /\ Top.fn = "attempt" /\ On(stack) = {Top} \cup On(Rest)
      /\ \A g \in On(Rest) : Above("attempt", g.fn)
  BY <1>1, TopFacts
<1>3. n \in Id /\ n \in Racing /\ nat[n].life = "open" /\ nat[n] \in ClientConnection
  BY <1>1, <1>2 DEF Typed, FrameTyped, Leaks, AttemptOK, TypeOK
<1>4. n \in 1 .. made.attempt /\ sock.connecting /\ ~sock.destroyed /\ sock.native = NoId /\ n \notin settled
  BY <1>1, <1>3 DEF SockInv, Racing
<1>5. ConnOK(n, nat[n]) /\ ~nat[n].socket /\ Bare(nat[n])
  BY <1>1, <1>3, <1>4 DEF Conns, ConnOK
<1>6. \A g \in On(Rest) : g.fn = "ready"
  BY <1>2 DEF Above, Inner, InDispatch
<1>7. Below(Rest)
  BY <1>1, BelowFacts
<1> QED BY <1>2, <1>3, <1>4, <1>5, <1>6, <1>7

LEMMA AttemptFailsKeeps ==
    ASSUME SocketInv, AttemptFails
    PROVE  SocketInv'
<1>1. PICK n : n = Top.n
  OBVIOUS
<1>2. /\ Running("attempt") /\ nat[n].events # <<>> /\ Head(nat[n].events) = "error" /\ nat' = [nat EXCEPT ![n].events = Tail(@)]
      /\ settled' = settled \cup {n} /\ stack' = <<Call>> \o (<<F("failed", n)>> \o Rest)
      /\ UNCHANGED <<sock, lookups, jobs, served, made, wrote, seen, got>> /\ TypeOK /\ OneStart /\ Shaped(stack)
  BY <1>1 DEF AttemptFails, FailAttempt, Tell, SocketInv
<1>3. /\ n \in Id /\ n \in Racing /\ n \in 1 .. made.attempt /\ nat[n].life = "open" /\ nat[n] \in ClientConnection /\ ConnOK(n, nat[n])
      /\ (\A g \in On(Rest) : g.fn = "ready") /\ Below(Rest) /\ On(stack) = {Top} \cup On(Rest) /\ Top.fn = "attempt"
  BY <1>1, <1>2, AttemptFacts
<1>4. nat' = [nat EXCEPT ![n] = PopOf(nat[n])]
  BY <1>2, <1>3 DEF PopOf, TypeOK
<1>5. settled \subseteq settled' /\ made'.attempt = made.attempt
  BY <1>2
<1>6. /\ OnlyEvents(n) /\ Conns' /\ On(nat[n].events) = {"error"} \cup On(nat'[n].events)
      /\ \A k \in 1 .. made.attempt : nat[k] = NoConnection => nat'[k] = NoConnection
  BY <1>2, <1>3, <1>4, <1>5, PopFacts
<1>7. \A k \in Id : "end" \in On(nat[k].events) => "end" \in On(nat'[k].events)
  BY <1>6 DEF OnlyEvents
<1>8. nat[n].closing
  BY <1>3, <1>6 DEF ConnOK, EventsOK
<1>9. \A f \in On(stack) : f.fn = "ready" \/ (f.fn = "attempt" /\ f.n = n)
  BY <1>1, <1>3
<1>10. QueueOK(jobs') /\ served' \subseteq Id \cup {Other}
  BY <1>2, BelowFacts DEF TypeOK
<1> QED BY <1>2, <1>3, <1>6, <1>7, <1>8, <1>9, <1>10, FailKeeps

----------------
(* end() *)

\* A microtask that runs an event loop or a callback is queued.
LEMMA QueueJob ==
    ASSUME TypeOK, OneStart, NEW kind \in {"dispatch", "finish"}, NEW n \in Nat, jobs' = Append(jobs, J(kind, n))
    PROVE  jobs' \in Seq(Job) /\ TypedJobs /\ QuietJobs
<1>1. jobs \in Seq(Job) /\ OneBegin(jobs) /\ sock.gen \in Nat
  BY NatTypes DEF TypeOK, OneStart
<1>2. PICK x : x = J(kind, n)
  OBVIOUS
<1>3. x \in Job /\ x.kind = kind /\ x.gen = sock.gen
  BY <1>1, <1>2 DEF J, Job
<1>4. Append(jobs, x) \in Seq(Job) /\ OneBegin(Append(jobs, x)) /\ On(Append(jobs, x)) = On(jobs) \cup {x}
  BY <1>1, <1>3, QueueAppend DEF Begins
<1>5. jobs' \in Seq(Job) /\ OneBegin(jobs') /\ On(jobs') = On(jobs) \cup {x}
  BY <1>2, <1>4
<1> QED BY <1>1, <1>3, <1>5 DEF TypedJobs, QuietJobs, Begins

LEMMA NotifyJobs ==
    ASSUME TypeOK, OneStart, NEW n \in Nat, NEW c, jobs' = jobs \/ jobs' = jobs \o NotifySoon(c, n)
    PROVE  jobs' \in Seq(Job) /\ TypedJobs /\ QuietJobs
<1>1. jobs \in Seq(Job) /\ sock.gen \in Nat
  BY NatTypes DEF TypeOK
<1>2. J("dispatch", n) \in Job
  BY <1>1 DEF J, Job
<1>3. jobs' = jobs \/ jobs' = jobs \o <<>> \/ jobs' = jobs \o <<J("dispatch", n)>>
  BY DEF NotifySoon
<1>4. jobs \o <<>> = jobs /\ jobs \o <<J("dispatch", n)>> = Append(jobs, J("dispatch", n))
  BY <1>1, <1>2, ConcatEmptySeq, AppendIsConcat
<1>5. CASE jobs' = jobs
  BY <1>1, <1>5, SameJobs
<1>6. CASE jobs' = Append(jobs, J("dispatch", n))
  BY <1>6, QueueJob
<1> QED BY <1>3, <1>4, <1>5, <1>6

EndOf(c) == [c EXCEPT !.endRequested = TRUE]

LEMMA EndOfFacts ==
    ASSUME NEW c \in ClientConnection
    PROVE  LET d == EndOf(c) IN
           /\ d \in ClientConnection /\ d.life = c.life /\ d.closing = c.closing /\ d.socket = c.socket /\ d.endRequested
           /\ d.chunks = c.chunks /\ d.rx = c.rx /\ d.sent = c.sent /\ d.out = c.out
           /\ EventsOK(c) => EventsOK(d)
<1> DEFINE d == EndOf(c)
<1>1. d \in ClientConnection
  BY DEF EndOf, ClientConnection
<1>2. /\ d.life = c.life /\ d.closing = c.closing /\ d.socket = c.socket /\ d.endRequested
      /\ d.chunks = c.chunks /\ d.rx = c.rx /\ d.sent = c.sent /\ d.out = c.out /\ d.events = c.events
  BY DEF EndOf, ClientConnection
<1> HIDE DEF d
<1>3. EventsOK(c) => EventsOK(d)
  BY <1>2 DEF EventsOK
<1> QED BY <1>1, <1>2, <1>3 DEF d

\* The native end() closes a connection only when the peer had ended before.
LEMMA NetEndFacts ==
    ASSUME NEW c \in ClientConnection
    PROVE  LET d == NetEnd(c) IN
           /\ d \in ClientConnection /\ d.life = c.life /\ d.socket = c.socket /\ d.chunks = c.chunks /\ d.rx = c.rx
           /\ d.endRequested \/ d.closing
           /\ d.sent \o d.out = c.sent \o c.out
           /\ c.closing => d.closing
           /\ d.closing => c.closing \/ (c.peerEnded /\ ~c.endRequested)
           /\ EventsOK(c) => EventsOK(d)
<1> DEFINE d == NetEnd(c)
           e == EndOf(c)
<1>1. /\ e \in ClientConnection /\ e.life = c.life /\ e.closing = c.closing /\ e.socket = c.socket /\ e.endRequested
      /\ e.chunks = c.chunks /\ e.rx = c.rx /\ e.sent = c.sent /\ e.out = c.out
      /\ EventsOK(c) => EventsOK(e)
  BY EndOfFacts
<1>2. \/ d = c /\ (c.closing \/ c.endRequested)
      \/ ~c.closing /\ ~c.endRequested /\ Moves(e, d) /\ Still(e, d) /\ (d.closing => c.peerEnded)
  BY NetEndMoves DEF EndOf
<1> HIDE DEF d, e
<1>3. CASE d = c /\ (c.closing \/ c.endRequested)
  BY <1>3 DEF d
<1>4. CASE ~c.closing /\ ~c.endRequested /\ Moves(e, d) /\ Still(e, d) /\ (d.closing => c.peerEnded)
  <2>1. /\ d \in ClientConnection /\ d.life = e.life /\ d.socket = e.socket /\ d.chunks = e.chunks /\ d.rx = e.rx
        /\ d.endRequested = e.endRequested /\ d.sent \o d.out = e.sent \o e.out /\ (EventsOK(e) => EventsOK(d))
    BY <1>4 DEF Moves, Still
  <2>2. d.sent \o d.out = c.sent \o c.out
    BY <1>1, <2>1
  <2> QED BY <1>1, <1>4, <2>1, <2>2 DEF d
<1> QED BY <1>2, <1>3, <1>4

\* A connection is not the socket's, or not any more.
LEMMA UnlinkedEnd ==
    ASSUME sock'.native = NoId \/ sock'.destroyed
    PROVE  EndAnswered'
BY DEF EndAnswered

\* The fields that end() and destroySoon() leave alone.
SameFields(s, t) ==
    /\ t.native = s.native /\ t.connecting = s.connecting /\ t.destroyed = s.destroyed /\ t.closeEmitted = s.closeEmitted
    /\ t.paused = s.paused /\ t.held = s.held /\ t.gen = s.gen /\ t.attempts = s.attempts /\ t.targets = s.targets /\ t.next = s.next
    /\ t.writes = s.writes

\* end() on the socket's connection.
LEMMA EndLinkedKeeps ==
    ASSUME SocketInv, TypeOK', Shaped(stack)', sock.native # NoId, ~sock.destroyed, SameFields(sock, sock'),
           nat' = [nat EXCEPT ![sock.native] = NetEnd(nat[sock.native])], RaceSame, RoundSame, made'.chunk = made.chunk,
           UNCHANGED <<wrote, got>>, TypedFrames, QuietFrames, TypedJobs, QuietJobs, KeptFrames({"ready", "attempt", "destroying", "resume"})
    PROVE  SocketInv'
<1>1. /\ TypeOK /\ Typed /\ OneStart /\ Bounded /\ SockInv /\ Uncreated /\ Conns /\ Leaks /\ WritesKept /\ DataInv
      /\ nat \in [Id -> ClientConnection]
  BY DEF SocketInv, TypeOK
<1>2. PICK n : n = sock.native
  OBVIOUS
<1>3. PICK c : c = nat[n]
  OBVIOUS
<1>4. n \in Id /\ n \in settled /\ c \in ClientConnection /\ c.socket /\ c.life # "none" /\ ~sock.connecting /\ EventsOK(c)
  BY <1>2, <1>3, NativeIs
<1>5. PICK d : d = NetEnd(c)
  OBVIOUS
<1>6. /\ d \in ClientConnection /\ d.life = c.life /\ d.socket = c.socket /\ d.chunks = c.chunks /\ d.rx = c.rx
      /\ d.endRequested \/ d.closing
      /\ d.sent \o d.out = c.sent \o c.out
      /\ c.closing => d.closing
      /\ d.closing => c.closing \/ (c.peerEnded /\ ~c.endRequested)
      /\ EventsOK(d)
  BY <1>4, <1>5, NetEndFacts
<1>7. nat' = [nat EXCEPT ![n] = d]
  BY <1>2, <1>3, <1>5
<1>8. nat'[n] = d /\ \A k \in Id : k # n => nat'[k] = nat[k]
  BY <1>1, <1>4, <1>6, <1>7
<1>9. Typed' /\ OneStart' /\ Bounded'
  BY <1>1, RaceKept
<1>10. LinkSame /\ sock'.native = n /\ ~sock'.destroyed
  BY <1>2 DEF SameFields, LinkSame
<1>11. SockInv'
  <2>1. \A k \in Id : nat'[k].socket = nat[k].socket
    BY <1>3, <1>6, <1>8
  <2> QED BY <1>1, <1>10, <2>1, SockKept
<1>12. Conns' /\ \A k \in 1 .. made.attempt : nat[k] = NoConnection => nat'[k] = NoConnection
  <2>1. settled \subseteq settled' /\ made'.attempt = made.attempt
    BY DEF RaceSame
  <2>2. nat[n].life # "none" /\ d.life # "none" /\ d.socket /\ n \in settled'
    BY <1>3, <1>4, <1>6, <2>1
  <2> QED BY <1>1, <1>4, <1>6, <1>7, <2>1, <2>2, ConnsAt
<1>13. Uncreated'
  BY <1>1, <1>12, UncreatedKept
<1>14. \A k : ReadyFor(k) => ReadyFor(k)'
  BY DEF ReadyFor, KeptFrames
<1>15. ASSUME NEW k \in Id PROVE OpenOK(k)'
  <2>1. OpenOK(k) /\ Racing' = Racing /\ settled' = settled
    BY <1>1 DEF Leaks, RaceSame, Racing
  <2>2. CASE k = n
    <3>1. d.life = "open" /\ d.closing => ReadyFor(n)
      <4>1. c.life = "open" /\ c.closing => ReadyFor(n)
        BY <1>3, <2>1, <2>2 DEF OpenOK
      <4>2. c.life = "open" /\ c.peerEnded /\ ~c.endRequested /\ ~c.closing => ReadyFor(n)
        BY <1>1, <1>2, <1>3 DEF Leaks, EndAnswered
      <4> QED BY <1>6, <4>1, <4>2
    <3> QED BY <1>4, <1>8, <1>10, <1>14, <2>1, <2>2, <3>1 DEF OpenOK, Owned
  <2>3. CASE k # n
    <3>1. nat'[k] = nat[k]
      BY <1>8, <2>3
    <3>2. (Holds("destroying") => Holds("destroying")') /\ \A f \in On(stack) : f.fn = "attempt" => f \in On(stack')
      BY DEF Holds, KeptFrames
    <3> QED BY <1>2, <1>10, <1>14, <2>1, <2>3, <3>1, <3>2 DEF OpenOK, Owned
  <2> QED BY <2>2, <2>3
<1>16. AttemptOK'
  <2>1. \A f \in On(stack') : f.fn = "attempt" => f \in On(stack) /\ f.n \in Racing' /\ nat[f.n].life = "open" /\ f.n \in Id
    BY <1>1 DEF Leaks, AttemptOK, QuietFrames, RaceSame, Racing, Typed, FrameTyped
  <2>2. \A k \in Id : nat'[k].life = nat[k].life
    BY <1>3, <1>6, <1>8
  <2> QED BY <2>1, <2>2 DEF AttemptOK
<1>17. EndAnswered'
  BY <1>6, <1>8, <1>10 DEF EndAnswered
<1>18. WritesKept'
  <2>1. c.closing \/ c.sent \o c.out = wrote
    BY <1>1, <1>2, <1>3, <1>4 DEF WritesKept
  <2>2. d.closing \/ d.sent \o d.out = wrote
    BY <1>6, <2>1
  <2> QED BY <1>2, <1>8, <1>10, <2>2 DEF WritesKept
<1>19. DataInv'
  <2>1. KeptFrames({"resume"})
    BY DEF KeptFrames
  <2>2. \A k \in Id : nat'[k].chunks = nat[k].chunks /\ nat'[k].rx = nat[k].rx
    BY <1>3, <1>6, <1>8
  <2> QED BY <1>1, <2>1, <2>2, DataSame DEF SameFields
<1> QED BY <1>9, <1>11, <1>12, <1>13, <1>15, <1>16, <1>17, <1>18, <1>19 DEF SocketInv, Leaks

LEMMA ReadyOfFacts ==
    ASSUME NEW s \in Socket, NEW e \in BOOLEAN, NEW r \in {"opening", "open", "readOnly", "writeOnly", "closed"}
    PROVE  /\ [s EXCEPT !.end = e] \in Socket /\ SameFields(s, [s EXCEPT !.end = e]) /\ [s EXCEPT !.end = e].ready = s.ready
           /\ [s EXCEPT !.ready = r] \in Socket /\ SameFields(s, [s EXCEPT !.ready = r])
           /\ [s EXCEPT !.destroyAfterFinish = e] \in Socket /\ SameFields(s, [s EXCEPT !.destroyAfterFinish = e])
           /\ [s EXCEPT !.destroyAfterFinish = e].ready = s.ready
           /\ SameFields(s, s)
<1>1. [s EXCEPT !.end = e] \in Socket /\ [s EXCEPT !.ready = r] \in Socket /\ [s EXCEPT !.destroyAfterFinish = e] \in Socket
  BY DEF Socket
<1>2. SameFields(s, [s EXCEPT !.end = e]) /\ [s EXCEPT !.end = e].ready = s.ready
  BY DEF Socket, SameFields
<1>3. SameFields(s, [s EXCEPT !.ready = r])
  BY DEF Socket, SameFields
<1>4. SameFields(s, [s EXCEPT !.destroyAfterFinish = e]) /\ [s EXCEPT !.destroyAfterFinish = e].ready = s.ready
  BY DEF Socket, SameFields
<1> QED BY <1>1, <1>2, <1>3, <1>4 DEF SameFields

LEMMA EndSocketKeeps ==
    ASSUME SocketInv, NEW s \in Socket, SameFields(sock, s), s.ready = sock.ready, EndSocket(s),
           stack' \in Seq(Frame), Shaped(stack)', TypedFrames, QuietFrames, KeptFrames({"ready", "attempt", "destroying", "resume"}),
           made' \in Counts, made'.attempt = made.attempt, made'.epoch = made.epoch, made'.chunk = made.chunk, made'.write <= made'.call,
           UNCHANGED <<settled, lookups, served, seen, wrote, got>>
    PROVE  SocketInv'
<1>1. TypeOK /\ OneStart /\ SockInv /\ nat \in [Id -> ClientConnection] /\ jobs \in Seq(Job) /\ DataInv
  BY DEF SocketInv, TypeOK
<1>2. /\ s.native = sock.native /\ s.connecting = sock.connecting /\ s.destroyed = sock.destroyed
      /\ sock.connecting \in BOOLEAN /\ sock.destroyed \in BOOLEAN
  BY <1>1 DEF SameFields, TypeOK, Socket
<1>3. ASSUME SameFields(s, sock'), sock' \in Socket, jobs' \in Seq(Job), nat' \in [Id -> ClientConnection]
      PROVE  SameFields(sock, sock') /\ RaceSame /\ RoundSame /\ LinkSame /\ TypeOK'
  <2>1. SameFields(sock, sock')
    BY <1>3 DEF SameFields
  <2>2. RaceSame /\ RoundSame /\ LinkSame
    BY <2>1 DEF SameFields, RaceSame, RoundSame, LinkSame
  <2>3. TypeOK'
    BY <1>1, <1>3 DEF TypeOK, Counts
  <2> QED BY <2>1, <2>2, <2>3
<1>4. ASSUME SameFields(s, sock'), sock'.ready = s.ready, sock' \in Socket, nat' = nat, jobs' \in Seq(Job), TypedJobs, QuietJobs,
             sock.native = NoId \/ sock.destroyed
      PROVE  SocketInv'
  <2>1. SameFields(sock, sock') /\ RaceSame /\ RoundSame /\ LinkSame /\ TypeOK'
    BY <1>1, <1>3, <1>4
  <2>2. EndAnswered'
    BY <1>4, <2>1, UnlinkedEnd DEF LinkSame
  <2>3. HeldOK'
    BY <1>1, <2>1 DEF DataInv, HeldOK, Holds, KeptFrames, SameFields
  <2>4. KeptFrames({"ready", "attempt", "destroying"})
    BY DEF KeptFrames
  <2>5. Steady
    BY <1>4, <2>1, <2>4 DEF Steady, SameFields
  <2> QED BY <2>1, <2>2, <2>3, <2>5, SteadyKeeps
<1>5. CASE s.native = NoId /\ s.connecting /\ ~s.destroyed
  <2>1. sock' = [s EXCEPT !.end = TRUE] /\ nat' = nat /\ jobs' = jobs
    BY <1>5 DEF EndSocket
  <2>2. SameFields(s, sock') /\ sock' \in Socket /\ sock'.ready = s.ready
    BY <2>1, ReadyOfFacts
  <2>3. TypedJobs /\ QuietJobs /\ jobs' \in Seq(Job)
    BY <1>1, <2>1, SameJobs
  <2> QED BY <1>2, <1>4, <1>5, <2>1, <2>2, <2>3
<1>6. CASE (s.native = NoId /\ ~s.connecting) \/ s.destroyed
  <2>1. sock' = s /\ nat' = nat /\ jobs' = Append(jobs, J("finish", 0))
    BY <1>6 DEF EndSocket
  <2>2. SameFields(s, sock') /\ sock' \in Socket /\ sock'.ready = s.ready
    BY <2>1, ReadyOfFacts
  <2>3. TypedJobs /\ QuietJobs /\ jobs' \in Seq(Job)
    <3>1. 0 \in Nat /\ "finish" \in {"dispatch", "finish"}
      OBVIOUS
    <3> QED BY <1>1, <2>1, <3>1, QueueJob
  <2> QED BY <1>2, <1>4, <1>6, <2>1, <2>2, <2>3
<1>7. CASE s.native # NoId /\ ~s.destroyed
  <2>1. PICK d : d = NetEnd(nat[sock.native])
    OBVIOUS
  <2>2. sock' = [s EXCEPT !.ready = "readOnly"] /\ nat' = [nat EXCEPT ![sock.native] = d]
        /\ (jobs' = jobs \/ jobs' = jobs \o NotifySoon(d, sock.native))
    BY <1>2, <1>7, <2>1 DEF EndSocket
  <2>3. sock.native \in Id /\ nat[sock.native] \in ClientConnection /\ sock.native \in Nat
    BY <1>1, <1>2, <1>7, NativeIs, NatTypes
  <2>4. d \in ClientConnection
    BY <2>1, <2>3, NetEndFacts
  <2>5. nat' \in [Id -> ClientConnection]
    BY <1>1, <2>2, <2>4
  <2>6. jobs' \in Seq(Job) /\ TypedJobs /\ QuietJobs
    BY <1>1, <2>2, <2>3, NotifyJobs
  <2>7. SameFields(s, sock') /\ sock' \in Socket
    BY <2>2, ReadyOfFacts
  <2>8. SameFields(sock, sock') /\ RaceSame /\ RoundSame /\ LinkSame /\ TypeOK'
    BY <1>3, <2>5, <2>6, <2>7
  <2> QED BY <1>2, <1>7, <2>1, <2>2, <2>6, <2>8, EndLinkedKeeps
<1> QED BY <1>2, <1>5, <1>6, <1>7

LEMMA EndKeeps ==
    ASSUME SocketInv, End
    PROVE  SocketInv'
<1>1. TypeOK /\ Shaped(stack) /\ sock \in Socket /\ InCall /\ EndSocket(sock) /\ stack' = stack /\ stack \in Seq(Frame) /\ OneStart
      /\ UNCHANGED <<settled, lookups, served, seen, wrote, got>> /\ made.write <= made.call /\ made.write \in Nat /\ made.call \in Nat
  BY NatTypes DEF SocketInv, Typed, End, TypeOK
<1>2. /\ made' \in Counts /\ made'.attempt = made.attempt /\ made'.epoch = made.epoch /\ made'.chunk = made.chunk
      /\ made'.write = made.write /\ made'.call = made.call + 1
  BY <1>1, CountCallFacts DEF InCall
<1>3. made'.write <= made'.call
  BY <1>1, <1>2
<1>4. Shaped(stack)' /\ TypedFrames /\ QuietFrames /\ KeptFrames({"ready", "attempt", "destroying", "resume"})
  BY <1>1, SameFrames
<1>5. SameFields(sock, sock)
  BY DEF SameFields
<1> QED BY <1>1, <1>2, <1>3, <1>4, <1>5, EndSocketKeeps

LEMMA DestroySoonKeeps ==
    ASSUME SocketInv, DestroySoon
    PROVE  SocketInv'
<1>1. PICK s : s = [sock EXCEPT !.destroyAfterFinish = TRUE]
  OBVIOUS
<1>2. TypeOK /\ Shaped(stack) /\ sock \in Socket /\ InCall /\ EndSocket(s) /\ stack' = stack /\ stack \in Seq(Frame) /\ OneStart
      /\ UNCHANGED <<settled, lookups, served, seen, wrote, got>> /\ made.write <= made.call /\ made.write \in Nat /\ made.call \in Nat
  BY <1>1, NatTypes DEF SocketInv, Typed, DestroySoon, TypeOK
<1>3. /\ made' \in Counts /\ made'.attempt = made.attempt /\ made'.epoch = made.epoch /\ made'.chunk = made.chunk
      /\ made'.write = made.write /\ made'.call = made.call + 1
  BY <1>2, CountCallFacts DEF InCall
<1>4. made'.write <= made'.call
  BY <1>2, <1>3
<1>5. Shaped(stack)' /\ TypedFrames /\ QuietFrames /\ KeptFrames({"ready", "attempt", "destroying", "resume"})
  BY <1>2, SameFrames
<1>6. s \in Socket /\ SameFields(sock, s) /\ s.ready = sock.ready
  BY <1>1, <1>2, ReadyOfFacts
<1> QED BY <1>2, <1>3, <1>4, <1>5, <1>6, EndSocketKeeps

LEMMA EndedKeeps ==
    ASSUME SocketInv, Ended
    PROVE  SocketInv'
<1>1. TypeOK /\ Shaped(stack) /\ sock \in Socket /\ Running("ended") /\ stack' = Rest /\ OneStart /\ Leaks /\ DataInv
      /\ UNCHANGED <<settled, lookups, served, made, seen, wrote, got>>
  BY DEF SocketInv, Ended, TypeOK, Continue
<1>2. /\ stack' \in Seq(Frame) /\ Shaped(stack)' /\ TypedFrames /\ QuietFrames /\ On(stack') = On(Rest)
      /\ \A f \in On(stack) : f.fn # "ended" => f \in On(stack')
  BY <1>1, PopFrames
<1>3. CASE ~sock.destroyed /\ sock.ready = "writeOnly"
  <2>1. EndSocket(sock) /\ SameFields(sock, sock)
    BY <1>3 DEF Ended, SameFields
  <2>2. KeptFrames({"ready", "attempt", "destroying", "resume"})
    BY <1>2 DEF KeptFrames
  <2> QED BY <1>1, <1>2, <2>1, <2>2, CountsSame, EndSocketKeeps
<1>4. CASE ~(~sock.destroyed /\ sock.ready = "writeOnly")
  <2>1. UNCHANGED <<sock, nat, jobs>>
    BY <1>4 DEF Ended
  <2>2. TypeOK'
    BY <1>1, <1>2, <2>1 DEF TypeOK
  <2>3. KeptFrames({"ready", "attempt", "destroying"})
    BY <1>2 DEF KeptFrames
  <2>4. Steady
    BY <1>1, <1>2, <2>1, <2>3, SameJobs, StaySame
  <2>5. (Holds("dispatch") => Holds("dispatch")') /\ (Holds("resume") => Holds("resume")') /\ \A k : ReadyFor(k) => ReadyFor(k)'
    BY <1>2 DEF Holds, ReadyFor
  <2>6. EndAnswered'
    BY <1>1, <1>4, <2>1, <2>5 DEF EndAnswered, Leaks
  <2>7. HeldOK'
    BY <1>1, <2>1, <2>5 DEF HeldOK, DataInv
  <2> QED BY <1>2, <2>2, <2>4, <2>6, <2>7, SteadyKeeps
<1> QED BY <1>3, <1>4

\* The winner's events are dispatched where the attempt's were.
LEMMA WonFrames ==
    ASSUME SocketInv, Running("won"), stack' = Rest \/ stack' = <<F("dispatch", 0)>> \o Rest
    PROVE  /\ stack' \in Seq(Frame) /\ Shaped(stack)' /\ TypedFrames /\ QuietFrames
           /\ \A f \in On(stack) : f.fn # "won" => f \in On(stack')
<1>1. TypeOK /\ Shaped(stack)
  BY DEF SocketInv
<1>2. CASE stack' = Rest
  BY <1>1, <1>2, PopFrames
<1>3. CASE stack' = <<F("dispatch", 0)>> \o Rest
  <2>1. PICK f : f = F("dispatch", 0)
    OBVIOUS
  <2>2. f \in Frame /\ f.fn = "dispatch" /\ f.gen = sock.gen /\ sock.gen \in Nat
    BY <1>1, <2>1, FIs, NatTypes
  <2>3. /\ Rest \in Seq(Frame) /\ Shaped(Rest) /\ On(stack) = {Top} \cup On(Rest) /\ Top.fn = "won"
        /\ \A g \in On(Rest) : Above("won", g.fn)
    BY <1>1, TopFacts
  <2>4. \A g \in On(Rest) : Above(f.fn, g.fn)
    BY <2>2, <2>3 DEF Above, InReady, Inner, InDispatch
  <2>5. <<f>> \o Rest \in Seq(Frame) /\ Shaped(<<f>> \o Rest) /\ On(<<f>> \o Rest) = {f} \cup On(Rest)
    BY <2>2, <2>3, <2>4, ShapePush
  <2>6. stack' \in Seq(Frame) /\ Shaped(stack') /\ On(stack') = {f} \cup On(Rest)
    BY <1>3, <2>1, <2>5
  <2> QED BY <2>2, <2>3, <2>6 DEF TypedFrames, QuietFrames, Looks
<1> QED BY <1>2, <1>3

LEMMA WonKeeps ==
    ASSUME SocketInv, Won
    PROVE  SocketInv'
<1>1. TypeOK /\ Shaped(stack) /\ sock \in Socket /\ Running("won") /\ OneStart
      /\ (stack' = Rest \/ stack' = <<F("dispatch", 0)>> \o Rest)
      /\ UNCHANGED <<settled, lookups, served, made, seen, wrote, got>>
  BY DEF SocketInv, Won, TypeOK, Continue
<1>2. /\ stack' \in Seq(Frame) /\ Shaped(stack)' /\ TypedFrames /\ QuietFrames
      /\ \A f \in On(stack) : f.fn # "won" => f \in On(stack')
  BY <1>1, WonFrames
<1>3. CASE sock.end /\ ~sock.destroyed
  <2>1. PICK s : s = [sock EXCEPT !.end = FALSE]
    OBVIOUS
  <2>2. EndSocket(s) /\ s \in Socket /\ SameFields(sock, s) /\ s.ready = sock.ready
    BY <1>1, <1>3, <2>1, ReadyOfFacts DEF Won
  <2>3. KeptFrames({"ready", "attempt", "destroying", "resume"})
    BY <1>2 DEF KeptFrames
  <2> QED BY <1>1, <1>2, <2>2, <2>3, CountsSame, EndSocketKeeps
<1>4. CASE ~(sock.end /\ ~sock.destroyed)
  <2>1. UNCHANGED <<sock, nat, jobs>>
    BY <1>4 DEF Won
  <2>2. TypeOK'
    BY <1>1, <1>2, <2>1 DEF TypeOK
  <2>3. KeptFrames({"ready", "attempt", "destroying"}) /\ KeptFrames({"dispatch", "ended", "resume"})
    BY <1>2 DEF KeptFrames
  <2>4. Steady
    BY <1>1, <1>2, <2>1, <2>3, SameJobs, StaySame
  <2> QED BY <1>2, <2>2, <2>3, <2>4, Stays
<1> QED BY <1>3, <1>4

----------------
(* write() *)

\* Nothing that flushes the buffer ends the peer's stream.
LEMMA FlushPeer ==
    ASSUME NEW c \in ClientConnection, ~c.endRequested, NEW d \in FlushWrites(c)
    PROVE  d.peerEnded = c.peerEnded
<1>1. ASSUME NEW k PROVE FlushK(c, k).peerEnded = c.peerEnded
  <2> DEFINE s == c.sent \o SubSeq(c.out, 1, k)
             o == SubSeq(c.out, k + 1, Len(c.out))
             t == Taken(c, s, o)
             e == Append(t.events, "drain")
             u == IF c.out = <<>> THEN t ELSE [t EXCEPT !.events = e]
  <2>1. t = [c EXCEPT !.sent = @ \o SubSeq(c.out, 1, k), !.out = SubSeq(@, k + 1, Len(@))]
    BY DEF Taken, ClientConnection
  <2> HIDE DEF s, o
  <2>2. t.peerEnded = c.peerEnded /\ t.endRequested = c.endRequested
    BY DEF Taken, ClientConnection
  <2> HIDE DEF e
  <2>3. u.peerEnded = c.peerEnded /\ u.endRequested = c.endRequested
    <3>1. [t EXCEPT !.events = e].peerEnded = c.peerEnded /\ [t EXCEPT !.events = e].endRequested = c.endRequested
      BY DEF Taken, ClientConnection
    <3> QED BY <2>2, <3>1
  <2>4. FlushK(c, k) = t \/ FlushK(c, k) = FinishWriteSideIfReady(u)
    BY <2>1 DEF FlushK, e
  <2> HIDE DEF t, u
  <2>5. FinishWriteSideIfReady(u) = u
    BY <2>3 DEF FinishWriteSideIfReady
  <2> QED BY <2>2, <2>3, <2>4, <2>5
<1>2. Fail(c).peerEnded = c.peerEnded
  BY DEF Fail, ClientConnection
<1> QED BY <1>1, <1>2 DEF FlushWrites, Failures

\* A connection after its buffer was flushed: a failure took it out of the loop.
Sent(d) == IF d.closing THEN LoopClose(d) ELSE d

LEMMA SentFacts ==
    ASSUME NEW c \in ClientConnection, ~c.endRequested, c.life # "none", NEW d \in FlushWrites(c)
    PROVE  LET e == Sent(d) IN
           /\ e \in ClientConnection /\ e.socket = c.socket /\ e.chunks = c.chunks /\ e.rx = c.rx /\ e.life # "none"
           /\ EventsOK(c) => EventsOK(e)
           /\ e.life = "open" => c.life = "open" /\ ~e.closing /\ e.peerEnded = c.peerEnded
           /\ ~e.closing => On(c.events) \subseteq On(e.events)
           /\ e.closing \/ e.sent \o e.out = c.sent \o c.out
<1>1. Moves(c, d) /\ Still(c, d) /\ d.peerEnded = c.peerEnded /\ d \in ClientConnection
  <2>1. Moves(c, d) /\ Still(c, d)
    BY FlushWritesMoves
  <2>2. d.peerEnded = c.peerEnded
    BY FlushPeer
  <2> QED BY <2>1, <2>2 DEF Moves
<1>2. CASE d.closing
  <2>1. d.closing = TRUE /\ d = [d EXCEPT !.closing = TRUE]
    BY <1>1, <1>2 DEF ClientConnection
  <2>2. d.life # "none" /\ d.socket = c.socket /\ d.chunks = c.chunks /\ d.rx = c.rx /\ (EventsOK(c) => EventsOK(d))
    BY <1>1 DEF Moves, Still
  <2>3. PICK e : e = LoopClose(d)
    OBVIOUS
  <2>4. Dropped(d, e) /\ e.life = "closed" /\ e.closing = TRUE
    BY <1>1, <2>1, <2>2, <2>3, LoopCloseFacts
  <2>5. Sent(d) = e
    BY <1>2, <2>3 DEF Sent
  <2> QED BY <2>2, <2>4, <2>5 DEF Dropped
<1>3. CASE ~d.closing
  <2>1. Sent(d) = d
    BY <1>3 DEF Sent
  <2> QED BY <1>1, <1>3, <2>1 DEF Moves, Still
<1> QED BY <1>2, <1>3

OutOf(c, o) == [c EXCEPT !.out = o]

LEMMA OutOfFacts ==
    ASSUME NEW c \in ClientConnection, NEW o \in Seq(Nat)
    PROVE  LET d == OutOf(c, o) IN
           /\ d \in ClientConnection /\ d.life = c.life /\ d.closing = c.closing /\ d.socket = c.socket
           /\ d.endRequested = c.endRequested /\ d.peerEnded = c.peerEnded /\ d.events = c.events
           /\ d.chunks = c.chunks /\ d.rx = c.rx /\ d.sent = c.sent /\ d.out = o
           /\ EventsOK(c) => EventsOK(d)
<1> DEFINE d == OutOf(c, o)
<1>1. d \in ClientConnection
  BY DEF OutOf, ClientConnection
<1>2. /\ d.life = c.life /\ d.closing = c.closing /\ d.socket = c.socket
      /\ d.endRequested = c.endRequested /\ d.peerEnded = c.peerEnded /\ d.events = c.events
      /\ d.chunks = c.chunks /\ d.rx = c.rx /\ d.sent = c.sent /\ d.out = o
  BY DEF OutOf, ClientConnection
<1> HIDE DEF d
<1>3. EventsOK(c) => EventsOK(d)
  BY <1>2 DEF EventsOK
<1> QED BY <1>1, <1>2, <1>3 DEF d

\* A write() is a call, and there are no more writes than calls.
LEMMA WriteCounts ==
    ASSUME SocketInv, made.call < MaxCalls, made' = [made EXCEPT !.call = @ + 1, !.write = made.write + 1]
    PROVE  /\ made' \in Counts /\ made'.attempt = made.attempt /\ made'.epoch = made.epoch /\ made'.chunk = made.chunk
           /\ made'.write <= made'.call /\ made.write + 1 \in Nat
<1>1. made \in Counts /\ made.write <= made.call /\ MaxCalls \in Nat /\ made.call \in 0 .. MaxCalls /\ made.write \in 0 .. MaxCalls
  BY BoundsAssumption DEF SocketInv, TypeOK, Counts, Typed
<1> DEFINE a == made.call + 1
           b == made.write + 1
<1>2. a \in 0 .. MaxCalls /\ b \in 0 .. MaxCalls /\ b <= a /\ b \in Nat
  BY <1>1
<1>3. made' = [made EXCEPT !.call = a, !.write = b]
  BY <1>1 DEF Counts
<1> HIDE DEF a, b
<1>4. made' \in Counts
  BY <1>1, <1>2, <1>3 DEF Counts
<1>5. /\ made'.attempt = made.attempt /\ made'.epoch = made.epoch /\ made'.chunk = made.chunk /\ made'.write = b /\ made'.call = a
  BY <1>1, <1>3 DEF Counts
<1> QED BY <1>2, <1>4, <1>5 DEF b

LEMMA AppendSent ==
    ASSUME NEW s \in Seq(Nat), NEW o \in Seq(Nat), NEW w \in Nat
    PROVE  s \o Append(o, w) = Append(s \o o, w) /\ Append(o, w) \in Seq(Nat)
<1> DEFINE x == <<w>>
<1>1. x \in Seq(Nat) /\ s \o o \in Seq(Nat) /\ Append(o, w) = o \o x /\ Append(s \o o, w) = (s \o o) \o x /\ Append(o, w) \in Seq(Nat)
  BY AppendIsConcat, ConcatProperties
<1> HIDE DEF x
<1>2. (s \o o) \o x = s \o (o \o x)
  BY <1>1, Assoc
<1> QED BY <1>1, <1>2

\* Before 'connect' a write is held back.
LEMMA WriteHeld ==
    ASSUME SocketInv, Write, sock.native = NoId
    PROVE  SocketInv'
<1>1. PICK w : w = made.write + 1
  OBVIOUS
<1>2. /\ TypeOK /\ Typed /\ OneStart /\ Bounded /\ SockInv /\ Uncreated /\ Conns /\ Leaks /\ WritesKept /\ DataInv /\ sock \in Socket
      /\ sock' = [sock EXCEPT !.writes = Append(sock.writes, w)] /\ wrote' = Append(wrote, w) /\ made.call < MaxCalls
      /\ made' = [made EXCEPT !.call = @ + 1, !.write = made.write + 1] /\ wrote \in Seq(Nat)
      /\ UNCHANGED <<nat, jobs, settled, lookups, stack, served, seen, got>> /\ Shaped(stack) /\ ~sock.destroyed
  BY <1>1 DEF SocketInv, Write, TypeOK, Socket
<1>3. /\ made' \in Counts /\ made'.attempt = made.attempt /\ made'.epoch = made.epoch /\ made'.chunk = made.chunk
      /\ made'.write <= made'.call /\ w \in Nat
  BY <1>1, <1>2, WriteCounts
<1>4. PICK o : o = Append(sock.writes, w)
  OBVIOUS
<1>5. o \in Seq(Nat) /\ wrote' \in Seq(Nat)
  <2>1. sock.writes \in Seq(Nat)
    BY <1>2 DEF Socket
  <2> QED BY <1>2, <1>3, <1>4, <2>1, AppendProperties
<1>6. sock' = [sock EXCEPT !.writes = o]
  BY <1>2, <1>4
<1>7. sock' \in Socket
  BY <1>2, <1>5, <1>6 DEF Socket
<1>8. sock'.ready = sock.ready /\ sock'.writes = o /\ sock'.held = sock.held /\ sock'.native = sock.native
      /\ sock'.gen = sock.gen /\ sock'.connecting = sock.connecting /\ sock'.attempts = sock.attempts /\ sock'.targets = sock.targets
      /\ sock'.next = sock.next /\ sock'.destroyed = sock.destroyed /\ sock'.closeEmitted = sock.closeEmitted /\ sock'.paused = sock.paused
  BY <1>2, <1>6 DEF Socket
<1>9. RaceSame /\ RoundSame /\ LinkSame
  BY <1>2, <1>3, <1>8 DEF RaceSame, RoundSame, LinkSame
<1>10. TypeOK' /\ Shaped(stack)'
  BY <1>2, <1>3, <1>5, <1>7 DEF TypeOK, Counts
<1>11. TypedFrames /\ QuietFrames /\ (\A K : KeptFrames(K)) /\ TypedJobs /\ QuietJobs
  BY <1>2, SameFrames, SameJobs
<1>12. Typed' /\ OneStart' /\ Bounded'
  BY <1>2, <1>9, <1>11, RaceKept
<1>13. SockInv' /\ Uncreated'
  BY <1>2, <1>9, <1>11, SockKept, UncreatedKept
<1>14. Conns'
  <2>1. made.attempt \in Nat
    BY <1>2, NatTypes
  <2> QED BY <1>2, <1>3, <2>1, ConnsSame
<1>15. (\A k \in Id : OpenOK(k)') /\ AttemptOK'
  BY <1>2, <1>9, <1>11, <1>12, OpenKept DEF Leaks
<1>16. EndAnswered'
  BY <1>8, UnlinkedEnd
<1>17. WritesKept'
  BY <1>2, <1>4, <1>8 DEF WritesKept
<1>18. DataInv'
  BY <1>2, <1>3, <1>8, <1>11, DataSame
<1> QED BY <1>10, <1>12, <1>13, <1>14, <1>15, <1>16, <1>17, <1>18 DEF SocketInv, Leaks

LEMMA WriteSent ==
    ASSUME SocketInv, Write, sock.native # NoId
    PROVE  SocketInv'
<1>1. PICK w : w = made.write + 1
  OBVIOUS
<1>2. PICK n : n = sock.native
  OBVIOUS
<1>3. PICK c : c = nat[n]
  OBVIOUS
<1>4. PICK b : b = OutOf(c, Append(c.out, w))
  OBVIOUS
<1>5. /\ TypeOK /\ Typed /\ OneStart /\ Bounded /\ SockInv /\ Uncreated /\ Conns /\ Leaks /\ WritesKept /\ DataInv /\ Shaped(stack)
      /\ nat \in [Id -> ClientConnection] /\ wrote' = Append(wrote, w) /\ made.call < MaxCalls
      /\ made' = [made EXCEPT !.call = @ + 1, !.write = made.write + 1] /\ wrote \in Seq(Nat)
      /\ UNCHANGED <<sock, settled, lookups, stack, served, seen, got>> /\ ~sock.destroyed /\ ~c.closing /\ ~c.endRequested
  BY <1>1, <1>2, <1>3 DEF SocketInv, Write, TypeOK
<1>6. n \in Id /\ n \in settled /\ c \in ClientConnection /\ c.socket /\ c.life # "none" /\ ~sock.connecting /\ EventsOK(c)
  BY <1>2, <1>3, NativeIs
<1>7. /\ made' \in Counts /\ made'.attempt = made.attempt /\ made'.epoch = made.epoch /\ made'.chunk = made.chunk
      /\ made'.write <= made'.call /\ w \in Nat
  BY <1>1, <1>5, WriteCounts
<1>8. PICK d \in FlushWrites(b) : nat' = [nat EXCEPT ![n] = Sent(d)] /\ jobs' = jobs \o NotifySoon(d, n)
  <2>1. \E d \in NetWrite(c, w) : nat' = [nat EXCEPT ![n] = IF d.closing THEN LoopClose(d) ELSE d] /\ jobs' = jobs \o NotifySoon(d, n)
    BY <1>1, <1>2, <1>3 DEF Write
  <2>2. NetWrite(c, w) = FlushWrites(b)
    BY <1>4, <1>6 DEF NetWrite, OutOf, ClientConnection
  <2> QED BY <2>1, <2>2 DEF Sent
<1>9. c.out \in Seq(Nat) /\ c.sent \in Seq(Nat) /\ Append(c.out, w) \in Seq(Nat) /\ c.sent \o Append(c.out, w) = Append(c.sent \o c.out, w)
  <2>1. c.out \in Seq(Nat) /\ c.sent \in Seq(Nat)
    BY <1>6, MovesTypes
  <2> QED BY <1>7, <2>1, AppendSent
<1>10. /\ b \in ClientConnection /\ b.life = c.life /\ ~b.closing /\ b.socket = c.socket
       /\ ~b.endRequested /\ b.peerEnded = c.peerEnded /\ b.events = c.events
       /\ b.chunks = c.chunks /\ b.rx = c.rx /\ b.sent = c.sent /\ b.out = Append(c.out, w) /\ EventsOK(b)
  <2>1. PICK o : o = Append(c.out, w)
    OBVIOUS
  <2>2. o \in Seq(Nat) /\ b = OutOf(c, o) /\ c \in ClientConnection /\ EventsOK(c) /\ ~c.closing /\ ~c.endRequested
    BY <1>4, <1>5, <1>6, <1>9, <2>1
  <2>3. /\ b \in ClientConnection /\ b.life = c.life /\ ~b.closing /\ b.socket = c.socket
        /\ ~b.endRequested /\ b.peerEnded = c.peerEnded /\ b.events = c.events
        /\ b.chunks = c.chunks /\ b.rx = c.rx /\ b.sent = c.sent /\ b.out = o /\ EventsOK(b)
    BY ONLY <2>2, OutOfFacts
  <2> QED BY <2>1, <2>3
<1>11. PICK e : e = Sent(d)
  OBVIOUS
<1>12. /\ e \in ClientConnection /\ e.socket = b.socket /\ e.chunks = b.chunks /\ e.rx = b.rx /\ e.life # "none" /\ EventsOK(e)
       /\ e.life = "open" => b.life = "open" /\ ~e.closing /\ e.peerEnded = b.peerEnded
       /\ ~e.closing => On(b.events) \subseteq On(e.events)
       /\ e.closing \/ e.sent \o e.out = b.sent \o b.out
  <2>1. b.life # "none"
    BY <1>6, <1>10
  <2> QED BY <1>10, <1>11, <2>1, SentFacts
<1>13. nat' = [nat EXCEPT ![n] = e]
  BY <1>8, <1>11
<1>14. nat' \in [Id -> ClientConnection] /\ nat'[n] = e /\ \A k \in Id : k # n => nat'[k] = nat[k]
  BY <1>5, <1>6, <1>12, <1>13
<1>15. jobs' \in Seq(Job) /\ TypedJobs /\ QuietJobs
  <2>1. n \in Nat
    BY <1>5, <1>6, NatTypes
  <2> QED BY <1>5, <1>8, <2>1, NotifyJobs
<1>16. TypeOK' /\ Shaped(stack)'
  <2>1. wrote' \in Seq(Nat)
    BY <1>5, <1>7, AppendProperties
  <2> QED BY <1>5, <1>7, <1>14, <1>15, <2>1 DEF TypeOK, Counts
<1>17. RaceSame /\ RoundSame /\ LinkSame /\ TypedFrames /\ QuietFrames /\ (\A K : KeptFrames(K))
  BY <1>5, <1>7, SameFrames DEF RaceSame, RoundSame, LinkSame
<1>18. Typed' /\ OneStart' /\ Bounded'
  BY <1>5, <1>15, <1>17, RaceKept
<1>19. SockInv'
  <2>1. \A k \in Id : nat'[k].socket = nat[k].socket
    BY <1>3, <1>10, <1>12, <1>14
  <2> QED BY <1>5, <1>15, <1>17, <2>1, SockKept
<1>20. Conns' /\ \A k \in 1 .. made.attempt : nat[k] = NoConnection => nat'[k] = NoConnection
  <2>1. settled \subseteq settled' /\ nat[n].life # "none" /\ e.socket /\ n \in settled'
    BY <1>3, <1>5, <1>6, <1>10, <1>12
  <2> QED BY <1>5, <1>6, <1>7, <1>12, <1>13, <2>1, ConnsAt
<1>21. Uncreated'
  BY <1>5, <1>15, <1>17, <1>20, UncreatedKept
<1>22. ASSUME NEW k \in Id PROVE OpenOK(k)'
  <2>1. OpenOK(k) /\ Racing' = Racing /\ (ReadyFor(k) <=> ReadyFor(k)') /\ (Holds("destroying") <=> Holds("destroying")')
    BY <1>5 DEF Leaks, Racing, ReadyFor, Holds
  <2>2. CASE k = n
    BY <1>2, <1>5, <1>6, <1>12, <1>14, <2>2 DEF OpenOK, Owned
  <2>3. CASE k # n
    <3>1. nat'[k] = nat[k]
      BY <1>14, <2>3
    <3> QED BY <1>5, <2>1, <3>1 DEF OpenOK, Owned
  <2> QED BY <2>2, <2>3
<1>23. AttemptOK'
  <2>1. \A f \in On(stack) : f.fn = "attempt" => f.n \in Racing /\ nat[f.n].life = "open" /\ f.n \in Id
    BY <1>5 DEF Leaks, AttemptOK, Typed, FrameTyped
  <2>2. n \notin Racing
    BY <1>6 DEF Racing
  <2> QED BY <1>5, <1>14, <2>1, <2>2 DEF AttemptOK, Racing
<1>24. EndAnswered'
  <2>1. sock.ready # "readOnly"
    BY <1>2, <1>3, <1>5 DEF Leaks, EndAnswered
  <2>2. c.life = "open" /\ c.peerEnded =>
          /\ ReadyFor(n)
          /\ \/ "end" \in On(c.events) /\ Holds("dispatch")
             \/ Holds("ended") /\ sock.ready = "writeOnly"
    BY <1>2, <1>3, <1>5 DEF Leaks, EndAnswered
  <2>3. (ReadyFor(n) <=> ReadyFor(n)') /\ (Holds("dispatch") <=> Holds("dispatch")') /\ (Holds("ended") <=> Holds("ended")')
    BY <1>5 DEF ReadyFor, Holds
  <2>4. e.life = "open" /\ e.peerEnded /\ ~e.closing =>
          /\ ReadyFor(n)'
          /\ \/ "end" \in On(e.events) /\ Holds("dispatch")'
             \/ Holds("ended")' /\ sock.ready = "writeOnly"
    BY <1>10, <1>12, <2>2, <2>3
  <2> QED BY <1>2, <1>5, <1>14, <2>1, <2>4 DEF EndAnswered
<1>25. WritesKept'
  <2>1. c.sent \o c.out = wrote
    BY <1>2, <1>3, <1>5, <1>6 DEF WritesKept
  <2>2. e.closing \/ e.sent \o e.out = wrote'
    BY <1>5, <1>9, <1>10, <1>12, <2>1
  <2>3. sock'.native # NoId /\ nat'[sock'.native] = e
    BY <1>2, <1>5, <1>14
  <2> QED BY <2>2, <2>3 DEF WritesKept
<1>26. DataInv'
  <2>1. \A k \in Id : nat'[k].chunks = nat[k].chunks /\ nat'[k].rx = nat[k].rx
    BY <1>3, <1>10, <1>12, <1>14
  <2> QED BY <1>5, <1>7, <1>17, <2>1, DataSame
<1> QED BY <1>16, <1>18, <1>19, <1>20, <1>21, <1>22, <1>23, <1>24, <1>25, <1>26 DEF SocketInv, Leaks

LEMMA WriteKeeps ==
    ASSUME SocketInv, Write
    PROVE  SocketInv'
BY WriteHeld, WriteSent

----------------
(* winAttempt() *)

WonOf(s, n) ==
    [s EXCEPT !.timer = NoId, !.attempts = {}, !.native = n, !.writes = <<>>, !.connecting = FALSE, !.ready = "open"]

LEMMA WonOfFacts ==
    ASSUME NEW s \in Socket, NEW n \in Id
    PROVE  LET t == WonOf(s, n) IN
           /\ t \in Socket /\ t.attempts = {} /\ t.native = n /\ ~t.connecting /\ t.ready = "open"
           /\ t.gen = s.gen /\ t.destroyed = s.destroyed /\ t.closeEmitted = s.closeEmitted /\ t.targets = s.targets /\ t.next = s.next
           /\ t.held = s.held /\ t.paused = s.paused
<1> DEFINE w == <<>>
           t == [s EXCEPT !.timer = NoId, !.attempts = {}, !.native = n]
           u == [t EXCEPT !.writes = w, !.connecting = FALSE, !.ready = "open"]
<1>1. w \in Seq(Nat) /\ NoId \in Id \cup {NoId} /\ {} \in SUBSET Id
  OBVIOUS
<1> HIDE DEF w
<1>2. t \in Socket
  BY <1>1 DEF Socket
<1>3. /\ t.attempts = {} /\ t.native = n
      /\ t.gen = s.gen /\ t.destroyed = s.destroyed /\ t.closeEmitted = s.closeEmitted /\ t.targets = s.targets /\ t.next = s.next
      /\ t.held = s.held /\ t.paused = s.paused
  BY DEF Socket
<1>4. WonOf(s, n) = u
  BY DEF WonOf, w
<1> HIDE DEF t
<1>5. u \in Socket
  BY <1>1, <1>2 DEF Socket
<1>6. /\ u.attempts = t.attempts /\ u.native = t.native /\ ~u.connecting /\ u.ready = "open"
      /\ u.gen = t.gen /\ u.destroyed = t.destroyed /\ u.closeEmitted = t.closeEmitted /\ u.targets = t.targets /\ u.next = t.next
      /\ u.held = t.held /\ u.paused = t.paused
  BY <1>2 DEF Socket
<1> QED BY <1>3, <1>4, <1>5, <1>6

LinkOf(c, p) == [c EXCEPT !.socket = TRUE, !.paused = p]

LEMMA LinkOfFacts ==
    ASSUME NEW c \in ClientConnection, NEW p \in BOOLEAN
    PROVE  LET d == LinkOf(c, p) IN
           /\ d \in ClientConnection /\ d.life = c.life /\ d.closing = c.closing /\ d.socket
           /\ d.endRequested = c.endRequested /\ d.peerEnded = c.peerEnded /\ d.events = c.events
           /\ d.chunks = c.chunks /\ d.rx = c.rx /\ d.sent = c.sent /\ d.out = c.out
           /\ EventsOK(c) => EventsOK(d)
<1> DEFINE d == LinkOf(c, p)
<1>1. d \in ClientConnection
  BY DEF LinkOf, ClientConnection
<1>2. /\ d.life = c.life /\ d.closing = c.closing /\ d.socket
      /\ d.endRequested = c.endRequested /\ d.peerEnded = c.peerEnded /\ d.events = c.events
      /\ d.chunks = c.chunks /\ d.rx = c.rx /\ d.sent = c.sent /\ d.out = c.out
  BY DEF LinkOf, ClientConnection
<1> HIDE DEF d
<1>3. EventsOK(c) => EventsOK(d)
  BY <1>2 DEF EventsOK
<1> QED BY <1>1, <1>2, <1>3 DEF d

\* The winner takes the held writes and has nothing else to send or to read.
LEMMA WinnerFacts ==
    ASSUME TypeOK, NEW c \in ClientConnection, Bare(c), EventsOK(c), c.events # <<>>, Head(c.events) = "connect", c.life = "open"
    PROVE  LET d == Winner(c) IN
           /\ d \in ClientConnection /\ d.life = "open" /\ d.socket /\ ~d.endRequested /\ ~d.peerEnded /\ EventsOK(d)
           /\ d.chunks = <<>> /\ d.rx = <<>> /\ d.sent \o d.out = sock.writes
<1>1. sock.paused \in BOOLEAN /\ sock.writes \in Seq(Nat)
  BY DEF TypeOK, Socket
<1>2. PICK a : a = PopOf(c)
  OBVIOUS
<1>3. /\ a \in ClientConnection /\ a.life = c.life /\ a.endRequested = c.endRequested /\ a.peerEnded = c.peerEnded
      /\ a.chunks = c.chunks /\ a.rx = c.rx /\ a.sent = c.sent /\ EventsOK(a)
  BY <1>2, PopOfFacts
<1>4. PICK b : b = LinkOf(a, sock.paused)
  OBVIOUS
<1>5. /\ b \in ClientConnection /\ b.life = a.life /\ b.socket /\ b.endRequested = a.endRequested /\ b.peerEnded = a.peerEnded
      /\ b.chunks = a.chunks /\ b.rx = a.rx /\ b.sent = a.sent /\ EventsOK(b)
  BY <1>1, <1>3, <1>4, LinkOfFacts
<1>6. PICK d : d = OutOf(b, sock.writes)
  OBVIOUS
<1>7. /\ d \in ClientConnection /\ d.life = b.life /\ d.socket = b.socket /\ d.endRequested = b.endRequested /\ d.peerEnded = b.peerEnded
      /\ d.chunks = b.chunks /\ d.rx = b.rx /\ d.sent = b.sent /\ d.out = sock.writes /\ EventsOK(d)
  BY <1>1, <1>5, <1>6, OutOfFacts
<1>8. Winner(c) = d
  BY <1>2, <1>4, <1>6 DEF Winner, PopOf, LinkOf, OutOf
<1>9. d.sent = <<>> /\ d.sent \o d.out = sock.writes
  <2>1. d.sent = <<>>
    BY <1>3, <1>5, <1>7 DEF Bare
  <2> QED BY <1>1, <1>7, <2>1, ConcatEmptySeq
<1> QED BY <1>3, <1>5, <1>7, <1>8, <1>9 DEF Bare

\* The losers leave the loop, the winner becomes the socket's connection.
LEMMA WinConns ==
    ASSUME SocketInv, WinAttempt, NEW n, n = Top.n
    PROVE  /\ nat' \in [Id -> ClientConnection] /\ (\A k \in Id : k # n => Dropped(nat[k], nat'[k]))
           /\ \A k \in Id : k \in Racing /\ k # n /\ nat'[k].life = "open" => nat[k].closing
           /\ LET e == nat'[n] IN
              /\ e.socket /\ e.chunks = <<>> /\ e.rx = <<>> /\ e.life # "none" /\ EventsOK(e)
              /\ e.life = "open" => ~e.closing /\ ~e.peerEnded
              /\ e.closing \/ e.sent \o e.out = sock.writes
           /\ jobs' \in Seq(Job) /\ TypedJobs /\ QuietJobs
<1>1. TypeOK /\ OneStart /\ Running("attempt") /\ nat \in [Id -> ClientConnection] /\ nat[n].events # <<>> /\ Head(nat[n].events) = "connect"
  BY DEF SocketInv, WinAttempt, TypeOK
<1>2. /\ n \in Id /\ n \in Racing /\ nat[n].life = "open" /\ nat[n] \in ClientConnection /\ ConnOK(n, nat[n]) /\ Bare(nat[n])
  BY <1>1, AttemptFacts
<1>3. PICK w : w = Winner(nat[n])
  OBVIOUS
<1>4. EventsOK(nat[n])
  BY <1>2 DEF ConnOK
<1>5. /\ w \in ClientConnection /\ w.life = "open" /\ w.socket /\ ~w.endRequested /\ ~w.peerEnded /\ EventsOK(w)
      /\ w.chunks = <<>> /\ w.rx = <<>> /\ w.sent \o w.out = sock.writes
  BY <1>1, <1>2, <1>3, <1>4, WinnerFacts
<1>6. PICK M : M = NetDestroyAll(nat, sock.attempts \ (settled \cup {n}))
  OBVIOUS
<1>7. PICK d \in FlushWrites(w) : nat' = [M EXCEPT ![n] = Sent(d)] /\ jobs' = jobs \o NotifySoon(d, n)
  BY <1>3, <1>6 DEF WinAttempt, Sent
<1>8. /\ M \in [Id -> ClientConnection] /\ \A k \in Id : Dropped(nat[k], M[k])
      /\ \A k \in Id : k \in sock.attempts \ (settled \cup {n}) /\ M[k].life = "open" => nat[k].closing
  BY <1>1, <1>6, DestroyAllFacts
<1>9. PICK e : e = Sent(d)
  OBVIOUS
<1>10. /\ e \in ClientConnection /\ e.socket = w.socket /\ e.chunks = w.chunks /\ e.rx = w.rx /\ e.life # "none"
       /\ EventsOK(w) => EventsOK(e)
       /\ e.life = "open" => w.life = "open" /\ ~e.closing /\ e.peerEnded = w.peerEnded
       /\ e.closing \/ e.sent \o e.out = w.sent \o w.out
  BY <1>5, <1>9, SentFacts
<1>11. nat' \in [Id -> ClientConnection] /\ nat'[n] = e /\ \A k \in Id : k # n => nat'[k] = M[k]
  BY <1>2, <1>7, <1>8, <1>9, <1>10
<1>12. jobs' \in Seq(Job) /\ TypedJobs /\ QuietJobs
  <2>1. n \in Nat
    BY <1>1, <1>2, NatTypes
  <2> QED BY <1>1, <1>7, <2>1, NotifyJobs
<1>13. /\ e.socket /\ e.chunks = <<>> /\ e.rx = <<>> /\ EventsOK(e) /\ (e.life = "open" => ~e.closing /\ ~e.peerEnded)
       /\ (e.closing \/ e.sent \o e.out = sock.writes)
  BY <1>5, <1>10
<1>14. \A k \in Id : k \in Racing /\ k # n /\ nat'[k].life = "open" => nat[k].closing
  BY <1>8, <1>11 DEF Racing
<1> QED BY <1>8, <1>10, <1>11, <1>12, <1>13, <1>14

LEMMA WinAttemptKeeps ==
    ASSUME SocketInv, WinAttempt
    PROVE  SocketInv'
<1>1. PICK n : n = Top.n
  OBVIOUS
<1>2. /\ TypeOK /\ Shaped(stack) /\ Typed /\ OneStart /\ Bounded /\ SockInv /\ Uncreated /\ Leaks /\ WritesKept /\ DataInv /\ Conns
      /\ sock \in Socket /\ sock.gen \in Nat /\ Running("attempt") /\ settled' = settled \cup sock.attempts \cup {n} /\ sock' = WonOf(sock, n)
      /\ Emit("connect", <<F("won", n)>> \o Rest) /\ UNCHANGED <<lookups, served, made, wrote>>
  BY <1>1, NatTypes DEF SocketInv, WinAttempt, TypeOK, WonOf
<1>3. /\ n \in Id /\ n \in Racing /\ n \in 1 .. made.attempt /\ nat[n].life = "open" /\ nat[n] \in ClientConnection /\ Bare(nat[n])
      /\ (\A g \in On(Rest) : g.fn = "ready") /\ Below(Rest) /\ On(stack) = {Top} \cup On(Rest) /\ Top.fn = "attempt"
      /\ sock.connecting /\ ~sock.destroyed /\ sock.native = NoId
  BY <1>1, <1>2, AttemptFacts
<1>4. PICK e : e = nat'[n]
  OBVIOUS
<1>5. /\ nat' \in [Id -> ClientConnection] /\ (\A k \in Id : k # n => Dropped(nat[k], nat'[k]))
      /\ \A k \in Id : k \in Racing /\ k # n /\ nat'[k].life = "open" => nat[k].closing
      /\ e.socket /\ e.chunks = <<>> /\ e.rx = <<>> /\ e.life # "none" /\ EventsOK(e)
      /\ e.life = "open" => ~e.closing /\ ~e.peerEnded
      /\ e.closing \/ e.sent \o e.out = sock.writes
      /\ jobs' \in Seq(Job) /\ TypedJobs /\ QuietJobs
  BY <1>1, <1>4, WinConns
<1>6. /\ sock' \in Socket /\ sock'.attempts = {} /\ sock'.native = n /\ ~sock'.connecting /\ sock'.ready = "open"
      /\ sock'.gen = sock.gen /\ sock'.destroyed = sock.destroyed /\ sock'.closeEmitted = sock.closeEmitted
      /\ sock'.targets = sock.targets /\ sock'.next = sock.next /\ sock'.held = sock.held /\ sock'.paused = sock.paused
  BY <1>2, <1>3, WonOfFacts
<1>7. PICK f : f = F("won", n)
  OBVIOUS
<1>8. f \in Frame /\ f.fn = "won" /\ f.gen = sock.gen /\ f.n = n /\ n \in Nat
  BY <1>2, <1>3, <1>7, FIs, NatTypes
<1>9. /\ seen' \in [{"connect", "end", "error", "close"} -> Nat] /\ got' = got /\ stack' \in Seq(Frame) /\ Shaped(stack)'
      /\ On(stack') = {Call, f} \cup On(Rest)
  <2>1. /\ seen' \in [{"connect", "end", "error", "close"} -> Nat] /\ stack' = <<Call>> \o (<<F("won", n)>> \o Rest) /\ got' = got
    <3>1. PICK rest : rest = <<F("won", n)>> \o Rest
      OBVIOUS
    <3> QED BY <1>2, <3>1, SeenFacts
  <2>2. stack' = <<Call>> \o (<<f>> \o Rest) /\ f.fn # "attempt"
    BY <1>7, <1>8, <2>1
  <2>3. \A g \in On(Rest) : g.fn # "attempt" /\ Above(f.fn, g.fn)
    BY <1>3, <1>8 DEF Above, InReady
  <2> QED BY <1>3, <1>8, <2>1, <2>2, <2>3, TellOver DEF Below
<1>10. TypeOK'
  BY <1>2, <1>3, <1>5, <1>6, <1>9 DEF TypeOK, Socket
<1>11. (\A g \in On(Rest) : g \in On(stack) /\ g.fn = "ready") /\ \A g \in On(stack) : g.fn = "ready" => g \in On(Rest)
  BY <1>3 DEF Below
<1>12. \A g \in On(stack') : g.fn \in {"call", "won", "ready"}
  BY <1>8, <1>9, <1>11, CallIs
<1>13. Typed'
  <2>1. \A g \in On(stack') : FrameTyped(g)'
    <3>1. (\A g \in On(stack) : FrameTyped(g)) /\ sock'.gen = sock.gen /\ n \in Id /\ sock.gen \in Nat
      BY <1>2, <1>3, <1>6 DEF Typed
    <3> QED BY ONLY <3>1, <1>8, <1>9, <1>11, CallIs DEF FrameTyped, Looks
  <2>2. \A j \in On(jobs') : JobTyped(j)'
    BY <1>2, <1>5, <1>6 DEF TypedJobs, Typed, JobTyped
  <2> QED BY <1>2, <1>6, <2>1, <2>2 DEF Typed
<1>14. OneStart'
  <2>1. \A g \in On(stack') : ~Looks(g)
    BY <1>12 DEF Looks
  <2>2. OneBegin(jobs') /\ \A j \in On(jobs') : Begins(j) => j \in On(jobs)
    BY <1>5 DEF TypedJobs
  <2> QED BY <1>2, <1>6, <2>1, <2>2 DEF OneStart
<1>15. Bounded'
  <2>1. Left' = 0
    BY <1>6 DEF Left
  <2>2. made.attempt \in Nat /\ made.attempt + 0 <= made.epoch * NTargets
    BY <1>2, LeftNat
  <2> QED BY <1>2, <1>6, <2>1, <2>2 DEF Bounded
<1>16. ~sock.closeEmitted /\ \A j \in On(jobs) : j.kind # "close"
  BY <1>2, <1>3 DEF SockInv
<1>17. SockInv'
  <2>1. \A j \in On(jobs') : j.kind # "close"
    BY <1>5, <1>16 DEF QuietJobs
  <2>2. settled' \subseteq 1 .. made.attempt
    BY <1>2, <1>3 DEF SockInv
  <2> QED BY <1>2, <1>3, <1>4, <1>5, <1>6, <1>12, <1>16, <2>1, <2>2 DEF SockInv
<1>18. Uncreated'
  <2>1. \A j \in On(jobs') : j.kind = "createFailed" => j.n \in 1 .. made.attempt /\ nat[j.n] = NoConnection /\ j.n \in Id
    BY <1>2, <1>5 DEF QuietJobs, Uncreated, Typed, JobTyped
  <2>2. \A k \in Id : nat[k] = NoConnection => nat'[k] = NoConnection
    BY <1>3, <1>5, NoConnectionIs DEF Dropped
  <2> QED BY <1>2, <1>12, <2>1, <2>2 DEF Uncreated
<1>19. Conns'
  <2> SUFFICES ASSUME NEW k \in Id PROVE ConnOK(k, nat[k])'
    BY DEF Conns
  <2>1. CASE k = n
    <3>1. ~(n > made.attempt)
      BY <1>2, <1>3, <1>8, NatTypes
    <3> QED BY <1>2, <1>4, <1>5, <2>1, <3>1 DEF ConnOK
  <2>2. CASE k # n
    <3>1. ConnOK(k, nat[k]) /\ Dropped(nat[k], nat'[k])
      BY <1>2, <1>5, <2>2 DEF Conns
    <3>2. nat[k] = NoConnection => nat'[k] = NoConnection
      BY <3>1, NoConnectionIs DEF Dropped
    <3>3. nat'[k].life = "none" => nat'[k] = NoConnection
      BY <3>1 DEF Dropped, ConnOK
    <3> QED BY <1>2, <3>1, <3>2, <3>3 DEF ConnOK, Dropped
  <2> QED BY <2>1, <2>2
<1>20. ASSUME NEW k \in Id PROVE OpenOK(k)'
  <2>1. ReadyFor(k) => ReadyFor(k)'
    BY <1>9, <1>11 DEF ReadyFor
  <2>2. CASE k = n
    BY <1>2, <1>3, <1>4, <1>5, <1>6, <2>2 DEF OpenOK, Owned
  <2>3. CASE k # n
    <3> SUFFICES ASSUME nat'[k].life = "open"
                 PROVE  Owned(k)' /\ (nat'[k].closing => ReadyFor(k)') /\ (nat'[k].connecting \/ k \in settled')
      BY DEF OpenOK
    <3>1. nat'[k] = nat[k] /\ OpenOK(k)
      BY <1>2, <1>5, <2>3 DEF Dropped, Leaks
    <3>2. nat[k].closing /\ ReadyFor(k)
      <4>1. k # sock.native
        BY <1>2, <1>3, NatTypes
      <4> QED BY <1>5, <2>3, <3>1, <4>1 DEF OpenOK, Owned
    <3>3. nat[k].connecting \/ k \in settled
      BY <1>1, <1>3, <1>11, <2>3, <3>1 DEF OpenOK
    <3> QED BY <1>2, <2>1, <3>1, <3>2, <3>3 DEF Owned
  <2> QED BY <2>2, <2>3
<1>21. AttemptOK'
  BY <1>12 DEF AttemptOK
<1>22. EndAnswered'
  BY <1>4, <1>5, <1>6 DEF EndAnswered
<1>23. WritesKept'
  <2>1. sock.writes = wrote
    BY <1>2, <1>3 DEF WritesKept
  <2> QED BY <1>2, <1>4, <1>5, <1>6, <2>1 DEF WritesKept
<1>24. DataInv'
  <2>1. n # NoId /\ <<>> \o <<>> = <<>>
    BY <1>2, <1>3, NatTypes, ConcatEmptySeq
  <2>2. Stream' = Stream
    BY <1>3, <1>4, <1>5, <1>6, <1>9, <2>1 DEF Stream
  <2>3. ~Holds("resume")
    BY <1>3 DEF Holds
  <2>4. HeldOK'
    BY <1>2, <1>6, <2>3 DEF DataInv, HeldOK
  <2>5. Fin \notin On(nat'[sock'.native].chunks)
    BY <1>4, <1>5, <1>6, OnNone
  <2> QED BY <1>2, <1>6, <1>9, <2>2, <2>4, <2>5 DEF DataInv
<1> QED BY <1>9, <1>10, <1>13, <1>14, <1>15, <1>17, <1>18, <1>19, <1>20, <1>21, <1>22, <1>23, <1>24 DEF SocketInv, Leaks

----------------
(* The peer *)

\* Between callbacks an open connection is the socket's, or it races and is still connecting.
LEMMA IdleOpen ==
    ASSUME SocketInv, stack = <<>>, NEW n \in Id, nat[n].life = "open"
    PROVE  /\ ~nat[n].closing /\ nat[n] \in ClientConnection /\ ConnOK(n, nat[n])
           /\ \/ n = sock.native /\ ~sock.destroyed /\ n \in settled
              \/ n \in Racing /\ nat[n].connecting
<1>1. On(stack) = {} /\ OpenOK(n)
  BY OnNone DEF SocketInv, Leaks
<1>2. ~ReadyFor(n) /\ ~Holds("destroying") /\ ~\E f \in On(stack) : f.fn = "attempt" /\ f.n = n
  BY <1>1 DEF ReadyFor, Holds
<1>3. /\ Owned(n) /\ ~nat[n].closing
      /\ ~nat[n].connecting => n \in settled
  BY <1>1, <1>2 DEF OpenOK
<1>4. (n = sock.native /\ ~sock.destroyed) \/ n \in Racing
  BY <1>2, <1>3 DEF Owned
<1>5. nat[n] \in ClientConnection /\ ConnOK(n, nat[n]) /\ nat[n].connecting \in BOOLEAN
  BY MovesTypes DEF SocketInv, TypeOK, Conns
<1>6. n = sock.native => n \in settled
  BY NativeIs, NatTypes DEF SocketInv
<1>7. n \in Racing => n \notin settled
  BY DEF Racing
<1> QED BY <1>3, <1>4, <1>5, <1>6, <1>7

RxOf(c, r) == [c EXCEPT !.rx = r]

LEMMA RxOfFacts ==
    ASSUME NEW c \in ClientConnection, NEW r \in Seq(Nat)
    PROVE  LET d == RxOf(c, r) IN
           /\ d \in ClientConnection /\ d.life = c.life /\ d.closing = c.closing /\ d.socket = c.socket
           /\ d.connecting = c.connecting /\ d.endRequested = c.endRequested /\ d.peerEnded = c.peerEnded
           /\ d.events = c.events /\ d.chunks = c.chunks /\ d.sent = c.sent /\ d.out = c.out /\ d.rx = r
           /\ EventsOK(c) => EventsOK(d)
<1> DEFINE d == RxOf(c, r)
<1>1. d \in ClientConnection
  BY DEF RxOf, ClientConnection
<1>2. /\ d.life = c.life /\ d.closing = c.closing /\ d.socket = c.socket
      /\ d.connecting = c.connecting /\ d.endRequested = c.endRequested /\ d.peerEnded = c.peerEnded
      /\ d.events = c.events /\ d.chunks = c.chunks /\ d.sent = c.sent /\ d.out = c.out /\ d.rx = r
  BY DEF RxOf, ClientConnection
<1> HIDE DEF d
<1>3. EventsOK(c) => EventsOK(d)
  BY <1>2 DEF EventsOK
<1> QED BY <1>1, <1>2, <1>3 DEF d

\* A chunk later than all, or the end, follows a stream that has not ended.
LEMMA OrderedMore ==
    ASSUME NEW s \in Seq(Nat), NEW m \in Nat, NEW n \in Nat, Ordered(s, m), Fin \notin On(s), m <= n,
           NEW x \in Nat, x = Fin \/ (x = m + 1 /\ n = m + 1)
    PROVE  Ordered(Append(s, x), n)
<1> DEFINE t == Append(s, x)
<1>1. /\ Len(s) \in Nat /\ Len(t) = Len(s) + 1 /\ t[Len(s) + 1] = x /\ \A i \in 1 .. Len(s) : t[i] = s[i]
  BY AppendProperties
<1>2. \A i \in 1 .. Len(s) : s[i] \in Nat /\ s[i] <= m /\ s[i] # Fin
  BY DEF Ordered, On
<1> HIDE DEF t
<1>3. \A i \in 1 .. Len(t) : i \in 1 .. Len(s) \/ i = Len(s) + 1
  BY <1>1
<1>4. Fin = 0
  BY DEF Fin
<1>5. ASSUME NEW i \in 1 .. Len(t) PROVE t[i] <= n
  BY <1>1, <1>2, <1>3, <1>4
<1>6. ASSUME NEW i \in 1 .. Len(t), NEW j \in 1 .. Len(t), i < j PROVE t[i] # Fin /\ (t[j] # Fin => t[i] < t[j])
  <2>1. i \in 1 .. Len(s)
    BY <1>1, <1>6
  <2>2. CASE j \in 1 .. Len(s)
    BY <1>1, <1>2, <1>6, <2>1, <2>2 DEF Ordered
  <2>3. CASE j = Len(s) + 1
    BY <1>1, <1>2, <1>4, <2>1, <2>3
  <2> QED BY <1>3, <2>2, <2>3
<1> QED BY <1>5, <1>6 DEF Ordered, t

LEMMA StreamMore ==
    ASSUME NEW g \in Seq(Nat), NEW h \in Seq(Nat), NEW c \in Seq(Nat), NEW r \in Seq(Nat), NEW x \in Nat
    PROVE  /\ Joined(g, h, c, Append(r, x)) = Append(Joined(g, h, c, r), x)
           /\ Joined(g, h, c, r) \in Seq(Nat)
           /\ On(Joined(g, h, c, r)) = On(g) \cup On(h) \cup On(c) \cup On(r)
<1>1. PICK a : a = g \o h
  OBVIOUS
<1>2. PICK b : b = c \o r
  OBVIOUS
<1>3. a \in Seq(Nat) /\ b \in Seq(Nat) /\ On(a) = On(g) \cup On(h) /\ On(b) = On(c) \cup On(r)
  BY <1>1, <1>2, OnConcat
<1>4. c \o Append(r, x) = Append(b, x) /\ Append(r, x) \in Seq(Nat)
  BY <1>2, AppendSent
<1>5. a \o Append(b, x) = Append(a \o b, x)
  BY <1>3, AppendSent
<1>6. a \o b \in Seq(Nat) /\ On(a \o b) = On(a) \cup On(b)
  BY <1>3, OnConcat
<1>7. Joined(g, h, c, r) = a \o b /\ Joined(g, h, c, Append(r, x)) = a \o Append(b, x)
  BY <1>1, <1>2, <1>4 DEF Joined
<1> QED BY <1>3, <1>5, <1>6, <1>7

LEMMA PeerCounts ==
    ASSUME TypeOK, made.chunk < MaxChunks, made' = [made EXCEPT !.chunk = @ + 1]
    PROVE  /\ made' \in Counts /\ made'.attempt = made.attempt /\ made'.epoch = made.epoch /\ made'.chunk = made.chunk + 1
           /\ made'.write = made.write /\ made'.call = made.call
<1>1. made \in Counts /\ made.chunk \in 0 .. MaxChunks /\ MaxChunks \in Nat
  BY BoundsAssumption DEF TypeOK, Counts
<1> DEFINE a == made.chunk + 1
<1>2. a \in 0 .. MaxChunks
  BY <1>1
<1>3. made' = [made EXCEPT !.chunk = a]
  BY <1>1 DEF Counts
<1> HIDE DEF a
<1>4. made' \in Counts
  BY <1>1, <1>2, <1>3 DEF Counts
<1>5. /\ made'.attempt = made.attempt /\ made'.epoch = made.epoch /\ made'.chunk = a
      /\ made'.write = made.write /\ made'.call = made.call
  BY <1>1, <1>3 DEF Counts
<1> QED BY <1>4, <1>5 DEF a

LEMMA PeerSendKeeps ==
    ASSUME SocketInv, NEW n \in Id, PeerSend(n)
    PROVE  SocketInv'
<1>1. PICK c : c = nat[n]
  OBVIOUS
<1>2. /\ TypeOK /\ OneStart /\ Conns /\ DataInv /\ Shaped(stack) /\ nat \in [Id -> ClientConnection] /\ stack = <<>>
      /\ c.life = "open" /\ ~c.connecting /\ ~c.peerEnded
      /\ UNCHANGED <<sock, settled, lookups, jobs, stack, served, seen, wrote, got>>
  BY <1>1 DEF SocketInv, PeerSend, TypeOK
<1>3. n = sock.native /\ ~sock.destroyed /\ n \in settled /\ c \in ClientConnection /\ EventsOK(c) /\ n # NoId
  <2>1. n # NoId
    BY <1>2, NatTypes
  <2> QED BY <1>1, <1>2, <2>1, IdleOpen DEF ConnOK
<1>4. c.socket /\ c.chunks \in Seq(Nat) /\ c.rx \in Seq(Nat) /\ made.chunk \in Nat
  BY <1>1, <1>2, <1>3, NativeIs, MovesTypes, NatTypes
<1>5. Fin \notin On(c.rx)
  <2>1. DOMAIN c.rx = 1 .. Len(c.rx)
    BY <1>4, LenProperties
  <2> QED BY <1>1, <2>1 DEF PeerSend, On
<1>6. PICK x \in Nat : /\ nat' = [nat EXCEPT ![n] = RxOf(c, Append(c.rx, x))]
                       /\ x = Fin \/ (x = made.chunk + 1 /\ made'.chunk = made.chunk + 1)
                       /\ made' \in Counts /\ made'.attempt = made.attempt /\ made'.epoch = made.epoch
                       /\ made'.write = made.write /\ made'.call = made.call /\ made'.chunk \in Nat /\ made.chunk <= made'.chunk
  <2>1. ASSUME NEW y, nat' = [nat EXCEPT ![n].rx = Append(@, y)] PROVE nat' = [nat EXCEPT ![n] = RxOf(c, Append(c.rx, y))]
    BY <1>1, <1>2, <2>1 DEF RxOf
  <2>2. CASE made.chunk < MaxChunks /\ made' = [made EXCEPT !.chunk = @ + 1] /\ nat' = [nat EXCEPT ![n].rx = Append(@, made.chunk + 1)]
    <3>1. /\ made' \in Counts /\ made'.attempt = made.attempt /\ made'.epoch = made.epoch /\ made'.chunk = made.chunk + 1
          /\ made'.write = made.write /\ made'.call = made.call
      BY <1>2, <2>2, PeerCounts
    <3>2. PICK y : y = made.chunk + 1
      OBVIOUS
    <3>3. nat' = [nat EXCEPT ![n] = RxOf(c, Append(c.rx, y))]
      BY <2>1, <2>2, <3>2
    <3>4. y \in Nat /\ made'.chunk \in Nat /\ made.chunk <= made'.chunk
      BY <1>4, <3>1, <3>2
    <3> QED BY <3>1, <3>2, <3>3, <3>4
  <2>3. CASE nat' = [nat EXCEPT ![n].rx = Append(@, Fin)] /\ UNCHANGED made
    <3>1. nat' = [nat EXCEPT ![n] = RxOf(c, Append(c.rx, Fin))]
      BY <2>1, <2>3
    <3>2. Fin \in Nat /\ made' \in Counts /\ made.chunk <= made.chunk
      BY <1>2, <1>4, <2>3 DEF Fin, TypeOK, Counts
    <3> QED BY <1>4, <2>3, <3>1, <3>2
  <2> QED BY <2>2, <2>3 DEF PeerSend
<1>7. PICK r : r = Append(c.rx, x)
  OBVIOUS
<1>8. PICK d : d = RxOf(c, r)
  OBVIOUS
<1>9. r \in Seq(Nat)
  BY <1>4, <1>7, AppendProperties
<1>10. /\ d \in ClientConnection /\ d.life = c.life /\ d.closing = c.closing /\ d.socket = c.socket
       /\ d.connecting = c.connecting /\ d.endRequested = c.endRequested /\ d.peerEnded = c.peerEnded
       /\ d.events = c.events /\ d.chunks = c.chunks /\ d.sent = c.sent /\ d.out = c.out /\ d.rx = r /\ EventsOK(d)
  BY <1>3, <1>8, <1>9, RxOfFacts
<1>11. nat' = [nat EXCEPT ![n] = d]
  BY <1>6, <1>7, <1>8
<1>12. nat' \in [Id -> ClientConnection] /\ nat'[n] = d /\ \A k \in Id : k # n => nat'[k] = nat[k]
  BY <1>2, <1>10, <1>11
<1>13. TypeOK' /\ Shaped(stack)'
  BY <1>2, <1>6, <1>12 DEF TypeOK, Counts
<1>14. \A k \in Id : ConnSame(k)
  BY <1>1, <1>10, <1>12 DEF ConnSame
<1>15. Conns' /\ \A k \in 1 .. made.attempt : nat[k] = NoConnection => nat'[k] = NoConnection
  <2>1. settled \subseteq settled' /\ nat[n].life # "none" /\ d.life # "none" /\ d.socket /\ n \in settled'
    BY <1>1, <1>2, <1>3, <1>4, <1>10
  <2> QED BY <1>2, <1>6, <1>10, <1>11, <2>1, ConnsAt
<1>16. /\ RaceSame /\ RoundSame /\ LinkSame /\ TypedFrames /\ QuietFrames /\ TypedJobs /\ QuietJobs /\ (\A K : KeptFrames(K))
       /\ sock'.ready = sock.ready /\ sock'.writes = sock.writes /\ wrote' = wrote
  <2>1. made.write <= made.call
    BY DEF SocketInv, Typed
  <2> QED BY <1>2, <1>6, <2>1, SameFrames, SameJobs DEF RaceSame, RoundSame, LinkSame
<1>17. DataInv'
  <2>1. got \in Seq(Nat) /\ sock.held \in Seq(Nat)
    BY <1>2 DEF TypeOK, Socket
  <2>2. Fin \notin On(got) /\ Fin \notin On(sock.held) /\ Fin \notin On(c.chunks) /\ HeldOK
    BY <1>1, <1>2, <1>3 DEF DataInv
  <2>3. PICK s : s = Joined(got, sock.held, c.chunks, c.rx)
    OBVIOUS
  <2>4. Stream = s /\ Ordered(s, made.chunk)
    BY <1>1, <1>2, <1>3, <2>3 DEF Stream, DataInv, Joined
  <2>5. s \in Seq(Nat) /\ Fin \notin On(s) /\ Joined(got, sock.held, c.chunks, r) = Append(s, x)
    <3>1. PICK g \in Seq(Nat) : g = got
      BY <2>1
    <3>2. PICK h \in Seq(Nat) : h = sock.held
      BY <2>1
    <3>3. PICK b \in Seq(Nat) : b = c.chunks
      BY <1>4
    <3>4. PICK q \in Seq(Nat) : q = c.rx
      BY <1>4
    <3>5. s = Joined(g, h, b, q) /\ r = Append(q, x) /\ Fin \notin On(g) /\ Fin \notin On(h) /\ Fin \notin On(b) /\ Fin \notin On(q)
      BY <1>5, <1>7, <2>2, <2>3, <3>1, <3>2, <3>3, <3>4
    <3>6. /\ Joined(g, h, b, Append(q, x)) = Append(Joined(g, h, b, q), x) /\ Joined(g, h, b, q) \in Seq(Nat)
          /\ On(Joined(g, h, b, q)) = On(g) \cup On(h) \cup On(b) \cup On(q)
      BY ONLY StreamMore, x \in Nat, g \in Seq(Nat), h \in Seq(Nat), b \in Seq(Nat), q \in Seq(Nat)
    <3>7. Fin \notin On(s)
      BY <3>5, <3>6
    <3> QED BY <3>1, <3>2, <3>3, <3>5, <3>6, <3>7
  <2>6. Stream' = Append(s, x)
    BY <1>2, <1>3, <1>10, <1>12, <2>5 DEF Stream, Joined
  <2>7. Ordered(Append(s, x), made'.chunk)
    BY <1>4, <1>6, <2>4, <2>5, OrderedMore
  <2>8. Ordered(Stream, made.chunk)'
    BY <2>6, <2>7
  <2>9. HeldOK'
    BY <1>2, <2>2 DEF HeldOK, Holds
  <2>10. sock'.native # NoId => Fin \notin On(nat'[sock'.native].chunks)
    BY <1>2, <1>3, <1>10, <1>12, <2>2
  <2> QED BY <1>2, <2>2, <2>8, <2>9, <2>10 DEF DataInv
<1> QED BY <1>13, <1>14, <1>15, <1>16, <1>17, MildKeeps

----------------
(* onReady *)

\* onReady is the outermost handler: nothing is left to do below it.
LEMMA ReadyAlone ==
    ASSUME SocketInv, Running("ready")
    PROVE  On(stack) = {Top} /\ On(Rest) = {} /\ Top.fn = "ready" /\ Top.n \in Id /\ Rest \in Seq(Frame) /\ Shaped(Rest)
<1>1. /\ Top.fn = "ready" /\ Top \in On(stack) /\ Rest \in Seq(Frame) /\ Shaped(Rest) /\ On(stack) = {Top} \cup On(Rest)
      /\ \A g \in On(Rest) : Above("ready", g.fn)
  BY TopFacts DEF SocketInv
<1>2. \A g : ~Above("ready", g)
  BY DEF Above, Inner, InDispatch, InReady
<1>3. On(Rest) = {}
  BY <1>1, <1>2
<1>4. Top.n \in Id
  BY <1>1 DEF SocketInv, Typed, FrameTyped
<1> QED BY <1>1, <1>3, <1>4

LEMMA ReadyConns ==
    ASSUME SocketInv, ReadyRest
    PROVE  /\ nat' \in [Id -> ClientConnection] /\ Conns'
           /\ \A k \in 1 .. made.attempt : nat[k] = NoConnection => nat'[k] = NoConnection
           /\ \A k \in Id : /\ nat'[k].socket = nat[k].socket /\ nat'[k].closing = nat[k].closing /\ nat'[k].sent = nat[k].sent
                            /\ nat'[k].out = nat[k].out /\ nat'[k].chunks = nat[k].chunks /\ nat'[k].rx = nat[k].rx
                            /\ nat'[k].life = "open" => nat'[k] = nat[k] /\ (k = Top.n => ~nat[k].closing)
<1>1. PICK n : n = Top.n
  OBVIOUS
<1>2. PICK c : c = nat[n]
  OBVIOUS
<1>3. /\ TypeOK /\ Conns /\ nat \in [Id -> ClientConnection] /\ UNCHANGED <<sock, settled, made>> /\ n \in Id
      /\ nat' = IF c.closing THEN [nat EXCEPT ![n] = LoopClose(c)] ELSE nat
  BY <1>1, <1>2, ReadyAlone DEF SocketInv, ReadyRest, TypeOK
<1>4. c \in ClientConnection /\ ConnOK(n, c)
  BY <1>2, <1>3 DEF Conns
<1>5. CASE c.closing
  <2>1. PICK d : d = LoopClose(c)
    OBVIOUS
  <2>2. c.life # "none"
    BY <1>4, <1>5 DEF ConnOK, NoConnection
  <2>3. c = [c EXCEPT !.closing = TRUE] /\ c.closing = TRUE
    BY <1>4, <1>5 DEF ClientConnection
  <2>4. Dropped(c, d) /\ d.life = "closed" /\ d.closing = TRUE /\ d.sent = c.sent /\ d.out = c.out
    BY <1>4, <2>1, <2>2, <2>3, LoopCloseFacts
  <2>5. /\ d \in ClientConnection /\ d.socket = c.socket /\ d.chunks = c.chunks /\ d.rx = c.rx /\ EventsOK(d)
        /\ ~d.socket => Bare(d)
        /\ d.socket => n \in settled'
    BY <1>3, <1>4, <2>4 DEF Dropped, ConnOK
  <2>6. nat' = [nat EXCEPT ![n] = d]
    BY <1>3, <1>5, <2>1
  <2>7. nat' \in [Id -> ClientConnection] /\ nat'[n] = d /\ \A k \in Id : k # n => nat'[k] = nat[k]
    BY <1>3, <2>5, <2>6
  <2>8. Conns' /\ \A k \in 1 .. made.attempt : nat[k] = NoConnection => nat'[k] = NoConnection
    <3>1. settled \subseteq settled' /\ nat[n].life # "none" /\ d.life # "none" /\ made'.attempt = made.attempt
      BY <1>2, <1>3, <2>2, <2>4
    <3> QED BY <1>3, <2>5, <2>6, <3>1, ConnsAt
  <2> QED BY <1>1, <1>2, <2>3, <2>4, <2>5, <2>7, <2>8
<1>6. CASE ~c.closing
  <2>1. nat' = nat
    BY <1>3, <1>6
  <2>2. Conns'
    <3>1. made.attempt \in Nat
      BY <1>3, NatTypes
    <3> QED BY <1>3, <2>1, <3>1, ConnsSame
  <2> QED BY <1>1, <1>2, <1>3, <1>6, <2>1, <2>2
<1> QED BY <1>5, <1>6

LEMMA ReadyRestKeeps ==
    ASSUME SocketInv, ReadyRest
    PROVE  SocketInv'
<1>1. /\ TypeOK /\ Typed /\ OneStart /\ Bounded /\ SockInv /\ Uncreated /\ Conns /\ Leaks /\ WritesKept /\ DataInv /\ Shaped(stack)
      /\ Running("ready") /\ stack' = Rest /\ UNCHANGED <<sock, settled, lookups, jobs, served, made, wrote, seen, got>>
  BY DEF SocketInv, ReadyRest, Continue
<1>2. On(stack) = {Top} /\ On(stack') = {} /\ Top.fn = "ready" /\ stack' \in Seq(Frame) /\ Shaped(stack)'
  BY <1>1, ReadyAlone
<1>3. /\ nat' \in [Id -> ClientConnection] /\ Conns'
      /\ \A k \in 1 .. made.attempt : nat[k] = NoConnection => nat'[k] = NoConnection
      /\ \A k \in Id : /\ nat'[k].socket = nat[k].socket /\ nat'[k].closing = nat[k].closing /\ nat'[k].sent = nat[k].sent
                       /\ nat'[k].out = nat[k].out /\ nat'[k].chunks = nat[k].chunks /\ nat'[k].rx = nat[k].rx
                       /\ nat'[k].life = "open" => nat'[k] = nat[k] /\ (k = Top.n => ~nat[k].closing)
  BY ReadyConns
<1>4. TypeOK'
  BY <1>1, <1>2, <1>3 DEF TypeOK
<1>5. RaceSame /\ RoundSame /\ LinkSame /\ TypedFrames /\ QuietFrames /\ TypedJobs /\ QuietJobs /\ KeptFrames({"resume"})
  <2>1. made.write <= made.call
    BY <1>1 DEF Typed
  <2>2. TypedJobs /\ QuietJobs
    BY <1>1, SameJobs
  <2> QED BY <1>1, <1>2, <2>1, <2>2 DEF RaceSame, RoundSame, LinkSame, TypedFrames, QuietFrames, KeptFrames
<1>6. Typed' /\ OneStart' /\ Bounded'
  BY <1>1, <1>5, RaceKept
<1>7. SockInv'
  BY <1>1, <1>3, <1>5, SockKept
<1>8. Uncreated'
  BY <1>1, <1>3, <1>5, UncreatedKept
<1>9. ~Holds("destroying") /\ ~Holds("dispatch") /\ ~Holds("ended") /\ (\A k : ReadyFor(k) => k = Top.n) /\ (\A f \in On(stack) : f.fn # "attempt")
  BY <1>2 DEF Holds, ReadyFor
<1>10. ASSUME NEW k \in Id PROVE OpenOK(k)'
  <2> SUFFICES ASSUME nat'[k].life = "open" PROVE OpenOK(k)'
    BY DEF OpenOK
  <2>1. OpenOK(k) /\ nat'[k] = nat[k] /\ (k = Top.n => ~nat[k].closing)
    BY <1>1, <1>3 DEF Leaks
  <2>2. Owned(k) /\ ~nat[k].closing /\ (nat[k].connecting \/ k \in settled)
    BY <1>9, <2>1 DEF OpenOK
  <2>3. (k = sock.native /\ ~sock.destroyed) \/ k \in Racing
    BY <1>9, <2>2 DEF Owned
  <2> QED BY <1>1, <2>1, <2>2, <2>3 DEF OpenOK, Owned, Racing
<1>11. AttemptOK'
  BY <1>2 DEF AttemptOK
<1>12. EndAnswered'
  <2> SUFFICES ASSUME sock.native # NoId, ~sock.destroyed
               PROVE  /\ sock.ready = "readOnly" => nat'[sock.native].endRequested \/ nat'[sock.native].closing
                      /\ ~(nat'[sock.native].life = "open" /\ nat'[sock.native].peerEnded
                            /\ ~nat'[sock.native].endRequested /\ ~nat'[sock.native].closing)
    BY <1>1 DEF EndAnswered
  <2>1. PICK k \in Id : k = sock.native
    BY <1>1, NativeIs
  <2>3. sock.ready = "readOnly" => nat[k].endRequested \/ nat[k].closing
    BY <1>1, <2>1 DEF Leaks, EndAnswered
  <2>4. ~(nat[k].life = "open" /\ nat[k].peerEnded /\ ~nat[k].endRequested /\ ~nat[k].closing)
    BY <1>1, <1>9, <2>1 DEF Leaks, EndAnswered
  <2>5. ~nat[k].closing => nat'[k] = nat[k]
    <3>1. nat' = nat \/ (nat' = [nat EXCEPT ![Top.n] = LoopClose(nat[Top.n])] /\ nat[Top.n].closing)
      BY <1>1 DEF ReadyRest, TypeOK
    <3>2. Top.n \in Id /\ nat \in [Id -> ClientConnection]
      BY <1>1, ReadyAlone DEF TypeOK
    <3> QED BY <3>1, <3>2
  <2> QED BY <1>3, <2>1, <2>3, <2>4, <2>5
<1>13. WritesKept'
  BY <1>1, <1>3, <1>5, WritesSame
<1>14. DataInv'
  BY <1>1, <1>3, <1>5, DataSame
<1> QED BY <1>2, <1>3, <1>4, <1>6, <1>7, <1>8, <1>10, <1>11, <1>12, <1>13, <1>14 DEF SocketInv, Leaks

\* The frames that onReady leaves: none, or the event loop of connection n and the rest of onReady.
LEMMA OnReadyFrames ==
    ASSUME TypeOK, NEW n \in Id, NEW fn \in {"dispatch", "attempt"}
    PROVE  LET s == <<F(fn, n), F("ready", n)>> IN s \in Seq(Frame) /\ Shaped(s) /\ On(s) = {F(fn, n), F("ready", n)}
<1>1. n \in Nat
  BY NatTypes
<1>2. PICK f : f = F(fn, n)
  OBVIOUS
<1>3. PICK r : r = F("ready", n)
  OBVIOUS
<1>4. f \in Frame /\ f.fn = fn /\ r \in Frame /\ r.fn = "ready"
  BY <1>1, <1>2, <1>3, FIs
<1>5. PICK s : s = <<f, r>>
  OBVIOUS
<1>6. s \in Seq(Frame) /\ Len(s) = 2 /\ s[1] = f /\ s[2] = r
  BY <1>4, <1>5
<1>7. \A i : i \in 1 .. Len(s) <=> i = 1 \/ i = 2
  BY <1>6
<1>8. On(s) = {f, r}
  BY <1>6, <1>7 DEF On
<1>9. Above(f.fn, r.fn)
  BY <1>4 DEF Above, InReady
<1>10. ASSUME NEW i \in 1 .. Len(s), NEW j \in 1 .. Len(s), i < j PROVE Above(s[i].fn, s[j].fn)
  <2>1. i = 1 /\ j = 2
    BY <1>7, <1>10
  <2> QED BY <1>6, <1>9, <2>1
<1>11. Shaped(s)
  BY <1>10 DEF Shaped
<1> QED BY <1>2, <1>3, <1>5, <1>6, <1>8, <1>11

\* The end of a connection's stream is the last item of its receive queue.
LEMMA FinIsLast ==
    ASSUME NEW a \in Seq(Nat), NEW b \in Seq(Nat), NEW r \in Seq(Nat), NEW n \in Nat, Ordered(a \o (b \o r), n)
    PROVE  FinLast(r)
<1>1. PICK u : u = b \o r
  OBVIOUS
<1>2. PICK s : s = a \o u
  OBVIOUS
<1>3. u \in Seq(Nat) /\ Len(u) = Len(b) + Len(r) /\ Len(b) \in Nat /\ Len(r) \in Nat /\ \A i \in 1 .. Len(r) : u[Len(b) + i] = r[i]
  BY <1>1, ConcatNat
<1>4. Len(s) = Len(a) + Len(u) /\ Len(a) \in Nat /\ \A i \in 1 .. Len(u) : s[Len(a) + i] = u[i]
  BY <1>2, <1>3, ConcatNat
<1>5. Ordered(s, n)
  BY <1>1, <1>2
<1> SUFFICES ASSUME NEW i \in 1 .. Len(r), r[i] = Fin, i # Len(r) PROVE FALSE
  BY DEF FinLast
<1>6. PICK p : p = Len(a) + (Len(b) + i)
  OBVIOUS
<1>7. Len(b) + i \in 1 .. Len(u) /\ p \in 1 .. Len(s) /\ p < Len(s) /\ Len(s) \in 1 .. Len(s)
  <2>1. PICK x \in Nat : x = Len(a)
    BY <1>4
  <2>2. PICK y \in Nat : y = Len(b)
    BY <1>3
  <2>3. PICK z \in Nat : z = Len(r)
    BY <1>3
  <2>4. i \in 1 .. z /\ i # z /\ p = x + (y + i) /\ Len(u) = y + z /\ Len(s) = x + (y + z)
    BY <1>3, <1>4, <1>6, <2>1, <2>2, <2>3
  <2>5. y + i \in 1 .. (y + z) /\ p \in 1 .. (x + (y + z)) /\ p < x + (y + z) /\ x + (y + z) \in 1 .. (x + (y + z))
    BY <2>4
  <2> QED BY <2>2, <2>4, <2>5
<1>8. s[p] = Fin
  BY <1>3, <1>4, <1>6, <1>7
<1> QED BY <1>5, <1>7, <1>8 DEF Ordered

\* What a poll does to a stream keeps it in order.
LEMMA StreamedOrdered ==
    ASSUME NEW a \in Seq(Nat), NEW u \in Seq(Nat), NEW v \in Seq(Nat), NEW n \in Nat, Ordered(Cat(a, u), n),
           v = u \/ (u # <<>> /\ v = SubSeq(u, 1, Len(u) - 1))
    PROVE  Ordered(Cat(a, v), n)
<1>1. CASE v = u
  BY <1>1
<1>2. CASE u # <<>> /\ v = SubSeq(u, 1, Len(u) - 1)
  <2>1. Len(u) \in Nat /\ Len(u) > 0
    BY <1>2, EmptySeq, LenProperties
  <2>2. Len(u) - 1 \in Nat /\ Len(u) - 1 <= Len(u) /\ 1 <= Len(u) - 1 + 1
    BY <2>1
  <2>3. Len(v) = Len(u) - 1 /\ \A i \in 1 .. Len(v) : v[i] = u[i]
    <3>1. PICK m \in Nat : m = Len(u) - 1
      BY <2>2
    <3>2. v = SubSeq(u, 1, m) /\ m <= Len(u) /\ 1 <= m + 1 /\ 1 \in Nat \ {0} /\ m + 1 - 1 = m
      BY <1>2, <2>2, <3>1
    <3>3. Len(v) = m + 1 - 1 /\ \A i \in 1 .. m + 1 - 1 : v[i] = u[1 + i - 1]
      BY <3>2, SubSeqNat
    <3>4. \A i \in 1 .. m : 1 + i - 1 = i
      OBVIOUS
    <3> QED BY <3>1, <3>2, <3>3, <3>4
  <2>4. PICK s : s = Cat(a, u)
    OBVIOUS
  <2>5. PICK t : t = Cat(a, v)
    OBVIOUS
  <2>6. Len(s) = Len(a) + Len(u) /\ Len(a) \in Nat /\ (\A i \in 1 .. Len(a) : s[i] = a[i]) /\ \A i \in 1 .. Len(u) : s[Len(a) + i] = u[i]
    BY <2>4, ConcatNat DEF Cat
  <2>7. Len(t) = Len(a) + Len(v) /\ (\A i \in 1 .. Len(a) : t[i] = a[i]) /\ \A i \in 1 .. Len(v) : t[Len(a) + i] = v[i]
    BY <2>5, ConcatNat DEF Cat
  <2>8. ASSUME NEW i \in 1 .. Len(t) PROVE i \in 1 .. Len(s) /\ t[i] = s[i]
    <3>1. CASE i <= Len(a)
      BY <2>1, <2>3, <2>6, <2>7, <3>1
    <3>2. CASE i > Len(a)
      <4>1. i - Len(a) \in 1 .. Len(v) /\ Len(a) + (i - Len(a)) = i
        BY <2>1, <2>3, <2>7, <2>6, <3>2
      <4>2. i - Len(a) \in 1 .. Len(u) /\ i \in 1 .. Len(s)
        BY <2>1, <2>3, <2>6, <4>1
      <4> QED BY <2>3, <2>6, <2>7, <4>1, <4>2
    <3> QED BY <2>6, <3>1, <3>2
  <2>9. Ordered(s, n)
    BY <2>4
  <2>10. Ordered(t, n)
    BY <2>8, <2>9 DEF Ordered
  <2> QED BY <2>5, <2>10
<1> QED BY <1>1, <1>2

\* poll reports a connection that is the socket's, or one that races.
LEMMA OnReadyPolls ==
    ASSUME SocketInv, NEW n \in Id, OnReady(n)
    PROVE  \E d \in ClientConnection :
             /\ nat' = [nat EXCEPT ![n] = d]
             /\ stack' = IF d.events = <<>> THEN <<>> ELSE <<F(IF d.socket THEN "dispatch" ELSE "attempt", n), F("ready", n)>>
             /\ Moves(nat[n], d) /\ Streamed(nat[n], d)
             /\ nat[n].connecting /\ Bare(nat[n]) => Bare(d) /\ d.events # <<>>
<1>1. PICK c : c = nat[n]
  OBVIOUS
<1>2. c.life = "open" /\ stack = <<>> /\ TypeOK /\ DataInv
  BY <1>1 DEF OnReady, MayServe, SocketInv
<1>3. /\ ~c.closing /\ c \in ClientConnection /\ ConnOK(n, c)
      /\ \/ n = sock.native /\ ~sock.destroyed /\ n \in settled
         \/ n \in Racing /\ c.connecting
  BY <1>1, <1>2, IdleOpen
<1>4. FinLast(c.rx)
  <2>1. CASE n = sock.native
    <3>1. got \in Seq(Nat) /\ sock.held \in Seq(Nat) /\ made.chunk \in Nat /\ n # NoId
      BY <1>2, NatTypes DEF TypeOK, Socket
    <3>2. PICK a : a = got \o sock.held
      OBVIOUS
    <3>3. a \in Seq(Nat) /\ c.chunks \in Seq(Nat) /\ c.rx \in Seq(Nat)
      BY <1>3, <3>1, <3>2, ConcatNat, MovesTypes
    <3>4. Stream = a \o (c.chunks \o c.rx)
      BY <1>1, <2>1, <3>1, <3>2 DEF Stream
    <3>5. Ordered(a \o (c.chunks \o c.rx), made.chunk)
      BY <1>2, <3>4 DEF DataInv
    <3> QED BY <3>1, <3>3, <3>5, FinIsLast
  <2>2. CASE n \in Racing
    <3>1. c.rx = <<>>
      BY <1>3, <2>2 DEF Racing, ConnOK, Bare
    <3> QED BY <3>1 DEF FinLast
  <2> QED BY <1>3, <2>1, <2>2
<1>5. PICK d \in Polled(c) :
         /\ nat' = [nat EXCEPT ![n] = d]
         /\ stack' = IF d.events = <<>> THEN <<>> ELSE <<F(IF d.socket THEN "dispatch" ELSE "attempt", n), F("ready", n)>>
  BY <1>1 DEF OnReady, Continue
<1>6. Moves(c, d) /\ Streamed(c, d) /\ (c.connecting /\ Bare(c) => Bare(d) /\ d.events # <<>>)
  BY <1>3, <1>4, <1>5, PolledMoves
<1>7. d \in ClientConnection
  BY <1>6 DEF Moves
<1> QED BY <1>1, <1>5, <1>6, <1>7

LEMMA OnReadyKeeps ==
    ASSUME SocketInv, NEW n \in Id, OnReady(n)
    PROVE  SocketInv'
<1>1. PICK c : c = nat[n]
  OBVIOUS
<1>2. PICK d \in ClientConnection :
             /\ nat' = [nat EXCEPT ![n] = d]
             /\ stack' = IF d.events = <<>> THEN <<>> ELSE <<F(IF d.socket THEN "dispatch" ELSE "attempt", n), F("ready", n)>>
             /\ Moves(c, d) /\ Streamed(c, d)
             /\ c.connecting /\ Bare(c) => Bare(d) /\ d.events # <<>>
  BY <1>1, OnReadyPolls
<1>3. /\ TypeOK /\ Typed /\ OneStart /\ Bounded /\ SockInv /\ Uncreated /\ Conns /\ Leaks /\ WritesKept /\ DataInv
      /\ stack = <<>> /\ nat \in [Id -> ClientConnection] /\ c.life = "open" /\ served' \subseteq Id \cup {Other}
      /\ UNCHANGED <<sock, settled, lookups, jobs, made, wrote, seen, got>>
  BY <1>1, ServeFacts DEF SocketInv, OnReady, MayServe, Continue, TypeOK
<1>4. /\ ~c.closing /\ c \in ClientConnection /\ ConnOK(n, c) /\ n # NoId
      /\ \/ n = sock.native /\ ~sock.destroyed /\ n \in settled /\ c.socket
         \/ n \in Racing /\ n \notin settled /\ c.connecting /\ ~c.socket /\ Bare(c) /\ n # sock.native
  <2>1. /\ ~c.closing /\ c \in ClientConnection /\ ConnOK(n, c)
        /\ \/ n = sock.native /\ ~sock.destroyed /\ n \in settled
           \/ n \in Racing /\ c.connecting
    BY <1>1, <1>3, IdleOpen
  <2>2. n # NoId
    BY <1>3, NatTypes
  <2>3. n = sock.native => c.socket /\ n \in settled
    BY <1>1, <2>2, NativeIs
  <2>4. n \in Racing => n \notin settled /\ ~c.socket /\ Bare(c)
    BY <2>1 DEF Racing, ConnOK
  <2> QED BY <2>1, <2>2, <2>3, <2>4
<1>5. /\ d.life = "open" /\ d.socket = c.socket /\ d.endRequested = c.endRequested /\ d.sent \o d.out = c.sent \o c.out
      /\ d.closing => d.events # <<>>
      /\ c.peerEnded => d.peerEnded
      /\ d.peerEnded /\ ~c.peerEnded => "end" \in On(d.events)
      /\ EventsOK(d)
      /\ ~d.socket => Bare(d)
  BY <1>2, <1>3, <1>4 DEF Moves, ConnOK
<1>6. On(stack) = {} /\ (\A k : ~ReadyFor(k)) /\ \A g : ~Holds(g)
  BY <1>3, OnNone DEF ReadyFor, Holds
<1>7. nat' \in [Id -> ClientConnection] /\ nat'[n] = d /\ \A k \in Id : k # n => nat'[k] = nat[k]
  BY <1>2, <1>3
<1>8. PICK fn \in {"dispatch", "attempt"} : fn = IF d.socket THEN "dispatch" ELSE "attempt"
  OBVIOUS
<1>9. PICK f : f = F(fn, n)
  OBVIOUS
<1>10. PICK r : r = F("ready", n)
  OBVIOUS
<1>11. f.fn = fn /\ f.n = n /\ f.gen = sock.gen /\ r.fn = "ready" /\ r.n = n /\ r.gen = sock.gen
  <2>1. n \in Nat
    BY <1>3, NatTypes
  <2> QED BY <1>3, <1>9, <1>10, <2>1, FIs
<1>12. /\ stack' \in Seq(Frame) /\ Shaped(stack)' /\ On(stack') \subseteq {f, r}
       /\ d.events # <<>> => f \in On(stack') /\ r \in On(stack')
  <2>1. CASE d.events = <<>>
    <3>1. stack' = <<>>
      BY <1>2, <2>1
    <3> QED BY <2>1, <3>1, ShapeNone
  <2>2. CASE d.events # <<>>
    <3>1. stack' = <<f, r>>
      BY <1>2, <1>8, <1>9, <1>10, <2>2
    <3>2. <<f, r>> \in Seq(Frame) /\ Shaped(<<f, r>>) /\ On(<<f, r>>) = {f, r}
      BY <1>3, <1>9, <1>10, OnReadyFrames
    <3> QED BY <3>1, <3>2
  <2> QED BY <2>1, <2>2
<1>13. /\ d.events # <<>> => ReadyFor(n)' /\ (d.socket => Holds("dispatch")') /\ (~d.socket => \E g \in On(stack') : g.fn = "attempt" /\ g.n = n)
       /\ \A g \in On(stack') : g.n = n /\ (g.fn = "attempt" => ~d.socket) /\ g.fn \in {"dispatch", "attempt", "ready"} /\ g.gen = sock.gen
  BY <1>8, <1>11, <1>12 DEF ReadyFor, Holds
<1>14. TypeOK'
  BY <1>3, <1>7, <1>12 DEF TypeOK
<1>15. RaceSame /\ RoundSame /\ LinkSame /\ TypedFrames /\ TypedJobs /\ QuietJobs /\ KeptFrames({"resume"})
  <2>1. made.write <= made.call /\ sock.gen <= sock.gen
    BY <1>3, NatTypes DEF Typed
  <2>2. TypedJobs /\ QuietJobs
    BY <1>3, SameJobs
  <2>3. TypedFrames
    BY <1>13, <2>1 DEF TypedFrames, Looks
  <2> QED BY <1>3, <1>6, <2>1, <2>2, <2>3 DEF RaceSame, RoundSame, LinkSame, KeptFrames
<1>16. Typed' /\ OneStart' /\ Bounded'
  BY <1>3, <1>15, RaceKept
<1>17. SockInv'
  <2>1. \A k \in Id : nat'[k].socket = nat[k].socket
    BY <1>1, <1>5, <1>7
  <2>2. sock.native # NoId => sock.native \in Id
    BY <1>3, NatTypes
  <2> QED BY <1>3, <1>13, <2>1, <2>2 DEF SockInv
<1>18. Conns' /\ \A k \in 1 .. made.attempt : nat[k] = NoConnection => nat'[k] = NoConnection
  <2>1. settled \subseteq settled' /\ nat[n].life # "none" /\ d.life # "none" /\ (d.socket => n \in settled') /\ made'.attempt = made.attempt
    BY <1>1, <1>3, <1>4, <1>5
  <2> QED BY <1>2, <1>3, <1>5, <2>1, ConnsAt
<1>19. Uncreated'
  <2>1. \A g \in On(stack') : g.fn # "attempting"
    BY <1>13
  <2> QED BY <1>3, <1>18, <2>1 DEF Uncreated
<1>20. ASSUME NEW k \in Id PROVE OpenOK(k)'
  <2>1. CASE k = n
    <3>1. d.closing => ReadyFor(n)'
      BY <1>5, <1>13
    <3>2. (n = sock.native /\ ~sock.destroyed) \/ n \in Racing
      BY <1>4
    <3>3. n \notin settled => \E g \in On(stack') : g.fn = "attempt" /\ g.n = n
      BY <1>2, <1>4, <1>5, <1>13
    <3> QED BY <1>3, <1>7, <2>1, <3>1, <3>2, <3>3 DEF OpenOK, Owned, Racing
  <2>2. CASE k # n
    <3>1. nat'[k] = nat[k] /\ OpenOK(k)
      BY <1>3, <1>7, <2>2 DEF Leaks
    <3>2. nat[k].life = "open" => Owned(k) /\ ~nat[k].closing /\ (nat[k].connecting \/ k \in settled)
      BY <1>6, <3>1 DEF OpenOK
    <3>3. nat[k].life = "open" => (k = sock.native /\ ~sock.destroyed) \/ k \in Racing
      BY <1>6, <3>2 DEF Owned
    <3> QED BY <1>3, <3>1, <3>2, <3>3 DEF OpenOK, Owned, Racing
  <2> QED BY <2>1, <2>2
<1>21. AttemptOK'
  <2>1. \A g \in On(stack') : g.fn = "attempt" => g.n = n /\ n \in Racing
    BY <1>4, <1>5, <1>13
  <2> QED BY <1>3, <1>5, <1>7, <2>1 DEF AttemptOK, Racing
<1>22. EndAnswered'
  <2> SUFFICES ASSUME sock.native # NoId, ~sock.destroyed
               PROVE  LET e == nat'[sock.native] IN
                      /\ sock.ready = "readOnly" => e.endRequested \/ e.closing
                      /\ e.life = "open" /\ e.peerEnded /\ ~e.endRequested /\ ~e.closing =>
                           ReadyFor(sock.native)' /\ "end" \in On(e.events) /\ Holds("dispatch")'
    BY <1>3 DEF EndAnswered
  <2>1. PICK k \in Id : k = sock.native
    BY <1>3, NatTypes
  <2>2. /\ sock.ready = "readOnly" => nat[k].endRequested \/ nat[k].closing
        /\ ~(nat[k].life = "open" /\ nat[k].peerEnded /\ ~nat[k].endRequested /\ ~nat[k].closing)
    BY <1>3, <1>6, <2>1 DEF Leaks, EndAnswered
  <2>3. CASE k # n
    BY <1>7, <2>1, <2>2, <2>3
  <2>4. CASE k = n
    <3>1. "end" \in On(d.events) => d.events # <<>>
      BY OnNone
    <3>2. nat'[k] = d /\ c = nat[k] /\ d.socket
      BY <1>1, <1>4, <1>5, <1>7, <2>1, <2>4
    <3>3. ~c.peerEnded \/ c.endRequested
      BY <1>3, <1>4, <2>2, <3>2
    <3>4. d.peerEnded /\ ~d.endRequested => "end" \in On(d.events) /\ ReadyFor(n)' /\ Holds("dispatch")'
      BY <1>5, <1>13, <3>1, <3>2, <3>3
    <3>5. sock.ready = "readOnly" => d.endRequested
      BY <1>4, <1>5, <2>2, <3>2
    <3>6. ReadyFor(n)' => ReadyFor(sock.native)'
      BY <1>3, <2>1, <2>4 DEF ReadyFor
    <3> QED BY <2>1, <2>4, <3>2, <3>4, <3>5, <3>6
  <2> QED BY <2>3, <2>4
<1>23. WritesKept'
  <2>1. sock.native # NoId => sock.native \in Id
    BY <1>3, NatTypes
  <2>2. \A k \in Id : nat'[k].sent \o nat'[k].out = nat[k].sent \o nat[k].out /\ (nat[k].closing => nat'[k].closing)
    BY <1>1, <1>4, <1>5, <1>7
  <2> QED BY <1>3, <2>1, <2>2 DEF WritesKept
<1>24. DataInv'
  <2>1. CASE n = sock.native
    <3>1. got \in Seq(Nat) /\ sock.held \in Seq(Nat) /\ made.chunk \in Nat
      BY <1>3, NatTypes DEF TypeOK, Socket
    <3>2. PICK a : a = got \o sock.held
      OBVIOUS
    <3>3. PICK u : u = c.chunks \o c.rx
      OBVIOUS
    <3>4. PICK v : v = d.chunks \o d.rx
      OBVIOUS
    <3>5. a \in Seq(Nat) /\ u \in Seq(Nat) /\ v \in Seq(Nat)
      BY <1>2, <1>4, <3>1, <3>2, <3>3, <3>4, ConcatNat, MovesTypes
    <3>6. Stream = Cat(a, u) /\ Stream' = Cat(a, v)
      BY <1>1, <1>3, <1>4, <1>7, <2>1, <3>2, <3>3, <3>4 DEF Stream, Cat
    <3>7. v = u \/ (u # <<>> /\ v = SubSeq(u, 1, Len(u) - 1))
      BY <1>2, <3>3, <3>4 DEF Streamed
    <3>8. Ordered(Cat(a, u), made.chunk)
      BY <1>3, <3>6 DEF DataInv
    <3>9. Ordered(Cat(a, v), made.chunk)
      BY <3>1, <3>5, <3>7, <3>8, StreamedOrdered
    <3>10. Ordered(Stream, made.chunk)'
      BY <1>3, <3>6, <3>9
    <3>11. Fin \notin On(got) /\ Fin \notin On(sock.held) /\ Fin \notin On(c.chunks) /\ HeldOK
      BY <1>1, <1>3, <1>4, <2>1 DEF DataInv
    <3>12. Fin \notin On(d.chunks)
      BY <1>2, <3>11 DEF Streamed
    <3>13. HeldOK'
      BY <1>3, <1>6, <3>11 DEF HeldOK
    <3> QED BY <1>3, <1>7, <2>1, <3>10, <3>11, <3>12, <3>13 DEF DataInv
  <2>2. CASE n # sock.native
    <3>1. Bare(c) /\ Bare(d)
      BY <1>4, <1>5, <2>2
    <3>2. \A k \in Id : nat'[k].chunks = nat[k].chunks /\ nat'[k].rx = nat[k].rx
      BY <1>1, <1>7, <3>1 DEF Bare
    <3> QED BY <1>3, <1>15, <3>2, DataSame
  <2> QED BY <2>1, <2>2
<1> QED BY <1>12, <1>14, <1>16, <1>17, <1>18, <1>19, <1>20, <1>21, <1>22, <1>23, <1>24 DEF SocketInv, Leaks

----------------
(* The specification *)

LEMMA InitHolds == Init => SocketInv
<1> SUFFICES ASSUME Init PROVE SocketInv
  OBVIOUS
<1>1. /\ sock \in Socket /\ sock.native = NoId /\ ~sock.connecting /\ ~sock.destroyed /\ ~sock.closeEmitted /\ sock.held = <<>>
      /\ sock.gen = 0 /\ sock.attempts = {} /\ sock.targets = 0 /\ sock.next = 0 /\ sock.writes = <<>> /\ ~sock.paused
  BY DEF Init, Socket
<1>2. NoConnection \in ClientConnection /\ NoConnection.life = "none" /\ ~NoConnection.socket /\ Bare(NoConnection) /\ EventsOK(NoConnection)
  BY NoConnectionIs DEF NoConnection
<1>3. nat \in [Id -> ClientConnection] /\ \A k \in Id : nat[k] = NoConnection
  BY <1>2 DEF Init
<1>4. /\ made \in Counts /\ made.attempt = 0 /\ made.epoch = 0 /\ made.write = 0 /\ made.call = 0 /\ made.chunk = 0
  <2>1. 0 \in 0 .. MaxEpochs /\ 0 \in 0 .. MaxChunks /\ 0 \in 0 .. MaxCalls
    BY BoundsAssumption
  <2> QED BY <2>1 DEF Init, Counts
<1>5. jobs = <<>> /\ stack = <<>> /\ lookups = {} /\ settled = {} /\ served = {} /\ wrote = <<>> /\ got = <<>> /\ seen = NoneSeen
  BY DEF Init
<1>6. TypeOK
  <2>1. seen \in [{"connect", "end", "error", "close"} -> Nat]
    BY <1>5 DEF NoneSeen
  <2>2. <<>> \in Seq(Nat) /\ <<>> \in Seq(Job) /\ <<>> \in Seq(Frame)
    OBVIOUS
  <2> QED BY <1>1, <1>3, <1>4, <1>5, <2>1, <2>2 DEF TypeOK, Counts
<1>7. On(jobs) = {} /\ On(stack) = {} /\ Shaped(stack) /\ OneBegin(jobs)
  BY <1>5, OnNone, ShapeNone DEF OneBegin
<1>8. Typed
  BY <1>4, <1>5, <1>7 DEF Typed
<1>9. OneStart
  BY <1>1, <1>5, <1>7 DEF OneStart
<1>10. Bounded
  BY <1>1, <1>4, BoundsAssumption DEF Bounded, Left
<1>11. SockInv
  BY <1>1, <1>5, <1>7 DEF SockInv
<1>12. Uncreated
  BY <1>7 DEF Uncreated
<1>13. Conns
  BY <1>2, <1>3 DEF Conns, ConnOK
<1>14. Leaks
  BY <1>1, <1>2, <1>3, <1>7 DEF Leaks, OpenOK, AttemptOK, EndAnswered
<1>15. WritesKept
  BY <1>1 DEF WritesKept
<1>16. DataInv
  <2>1. <<>> \o <<>> \o <<>> = <<>>
    OBVIOUS
  <2>2. Stream = <<>>
    BY <1>1, <1>5, <2>1 DEF Stream
  <2>3. Ordered(<<>>, made.chunk)
    BY DEF Ordered
  <2> QED BY <1>1, <1>5, <2>2, <2>3, OnNone DEF DataInv, HeldOK
<1> QED BY <1>6, <1>7, <1>8, <1>9, <1>10, <1>11, <1>12, <1>13, <1>14, <1>15, <1>16 DEF SocketInv

LEMMA UnchangedKeeps ==
    ASSUME SocketInv, UNCHANGED vars
    PROVE  SocketInv'
<1>1. TypeOK /\ OneStart /\ TypeOK' /\ Shaped(stack)'
  BY DEF SocketInv, TypeOK, vars
<1>2. Steady
  BY <1>1, SameFrames, SameJobs, StaySame DEF vars
<1> QED BY <1>1, <1>2, SameFrames, Stays DEF vars

LEMMA ProgramKeeps ==
    ASSUME SocketInv, "reconnect" \notin Env, Program
    PROVE  SocketInv'
BY TurnKeeps, ConnectKeeps, WriteKeeps, EndKeeps, DestroySoonKeeps, PauseKeeps, ResumeKeeps, DestroyKeeps DEF Program

LEMMA ConnectingKeeps ==
    ASSUME SocketInv, Connecting
    PROVE  SocketInv'
BY LookupDoneKeeps, LookedKeeps, AttemptingKeeps, AttemptTimerKeeps, TimedOutKeeps, FailedKeeps, WinAttemptKeeps, WonKeeps,
   AttemptFailsKeeps DEF Connecting

LEMMA DispatchingKeeps ==
    ASSUME SocketInv, Dispatching
    PROVE  SocketInv'
BY DispatchDoneKeeps, DispatchDataKeeps, DispatchErrorKeeps, DispatchCloseKeeps, DispatchDrainKeeps, DispatchFinishKeeps,
   FinishedKeeps, DispatchEndKeeps, EndedKeeps, DestroyingRestKeeps, ResumeNextKeeps DEF Dispatching

LEMMA JobsKeep ==
    ASSUME SocketInv, Jobs
    PROVE  SocketInv'
BY JobBeginKeeps, JobCreateFailedKeeps, JobLookFailedKeeps, JobNotifyKeeps, JobCloseKeeps, JobFinishKeeps DEF Jobs

LEMMA NextKeeps ==
    ASSUME SocketInv, "reconnect" \notin Env, [Next]_vars
    PROVE  SocketInv'
<1>1. CASE Program
  BY <1>1, ProgramKeeps
<1>2. CASE Loop
  <2>1. CASE Return
    BY <2>1, ReturnKeeps
  <2>2. CASE Connecting
    BY <2>2, ConnectingKeeps
  <2>3. CASE Dispatching
    BY <2>3, DispatchingKeeps
  <2>4. CASE Jobs
    BY <2>4, JobsKeep
  <2>5. CASE ReadyRest
    BY <2>5, ReadyRestKeeps
  <2>6. ASSUME NEW n \in Id, OnReady(n) PROVE SocketInv'
    BY <2>6, OnReadyKeeps
  <2> QED BY <1>2, <2>1, <2>2, <2>3, <2>4, <2>5, <2>6 DEF Loop
<1>3. ASSUME NEW n \in Id, PeerSend(n) PROVE SocketInv'
  BY <1>3, PeerSendKeeps
<1>4. CASE UNCHANGED vars
  BY <1>4, UnchangedKeeps
<1> QED BY <1>1, <1>2, <1>3, <1>4 DEF Next

LEMMA SafeFromInv == SocketInv => SocketSafe
<1> SUFFICES ASSUME SocketInv PROVE SocketSafe
  OBVIOUS
<1>1. TypeOK /\ WritesKept /\ DataInv
  BY DEF SocketInv
<1>2. NoLeak
  <2> SUFFICES ASSUME stack = <<>>, NEW k \in Id, nat[k].life = "open"
               PROVE  ~nat[k].closing /\ ((k = sock.native /\ ~sock.destroyed) \/ k \in sock.attempts \ settled)
    BY DEF NoLeak
  <2> QED BY IdleOpen DEF Racing
<1>3. DataInOrder
  <2>1. got \in Seq(Nat) /\ sock.held \in Seq(Nat) /\ made.chunk \in Nat
    BY <1>1, NatTypes DEF TypeOK, Socket
  <2>2. Ordered(got \o sock.held, made.chunk)
    BY <1>1, StreamPrefix DEF DataInv
  <2>3. Ordered(got, made.chunk)
    BY <2>1, <2>2, OrderedPrefix
  <2>4. DOMAIN got = 1 .. Len(got) /\ \A i \in 1 .. Len(got) : got[i] # Fin
    BY <1>1, <2>1, LenProperties DEF DataInv, On
  <2> QED BY <2>3, <2>4 DEF Ordered, DataInOrder
<1> QED BY <1>1, <1>2, <1>3 DEF SocketSafe

(***************************************************************************)
(* For any number of addresses, connect() calls, chunks and calls of a     *)
(* program that connects again only once the 'close' microtask has run:    *)
(* between callbacks the loop polls only the socket's handle and the       *)
(* attempts still racing, every accepted write reaches the kernel once and *)
(* in order, and 'data' keeps the order of the peer's stream.              *)
(***************************************************************************)
THEOREM SocketSafeCorrect == "reconnect" \notin Env => (Spec => []SocketSafe)
<1> SUFFICES ASSUME "reconnect" \notin Env PROVE Spec => []SocketSafe
  OBVIOUS
<1>1. Init => SocketInv
  BY InitHolds
<1>2. SocketInv /\ [Next]_vars => SocketInv'
  BY NextKeeps
<1>3. SocketInv => SocketSafe
  BY SafeFromInv
<1> QED BY <1>1, <1>2, <1>3, PTL DEF Spec
=============================================================================
