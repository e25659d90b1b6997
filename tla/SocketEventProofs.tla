-------------------------- MODULE SocketEventProofs --------------------------
(***************************************************************************)
(* The order of a socket's events, for any number of addresses, connect()  *)
(* calls, chunks and program calls: what NetSocketProofs shows of the      *)
(* socket and its connections, and an invariant of the event queues.       *)
(***************************************************************************)
EXTENDS NetSocketProofs

----------------
(* The event queues *)

\* Nothing follows 'close', and no data and no second 'end' follow 'end'.
InTurn(s) ==
    \A i, j \in 1 .. Len(s) : i < j => s[i] # "close" /\ (s[i] = "end" => s[j] \notin {"end", "data"})

\* What an attempt has to tell: that it connected, or that it failed.
Early(c) ==
    /\ c.connecting => ~c.socket /\ c.events = <<>>
    /\ ~c.socket => c.events \in {<<>>, <<"connect">>, <<"error", "close">>, <<"close">>}
    /\ ~c.socket /\ c.events = <<"connect">> /\ c.life = "open" => ~c.closing

Queue(c) == InTurn(c.events) /\ ("end" \in On(c.events) => c.peerEnded) /\ Early(c)
Queues == \A k \in Id : Queue(nat[k])

\* The events that 'end' ends.
Streaming(s) == On(s) \cap {"end", "data"}

\* How often the program heard 'connect', 'end' and 'close' of this connect().
Counted ==
    /\ seen["connect"] = IF sock.native = NoId THEN 0 ELSE 1
    /\ seen["close"] = IF sock.closeEmitted THEN 1 ELSE 0
    /\ seen["end"] \in {0, 1}
    /\ seen["end"] = 1 =>
          sock.native # NoId /\ nat[sock.native].peerEnded /\ Streaming(nat[sock.native].events) = {}

\* A dispatch is queued, and no microtask that emits 'close' is before it.
Notified(q) ==
    \E i \in 1 .. Len(q) : q[i].kind = "dispatch" /\ \A j \in 1 .. i - 1 : q[j].kind # "close"

\* Events that wait will be dispatched before 'close' is emitted.
Woken == Holds("dispatch") \/ Notified(jobs)
Awake == Events # <<>> => ~sock.closeEmitted /\ Woken

EventInv == Queues /\ Counted /\ Awake

----------------
(* What the native methods do to the queue of a connection *)

\* Of a queue in turn: Queue without what it says of attempts, and 'close' comes from a connection that is closing.
Fine(c) ==
    /\ InTurn(c.events)
    /\ "end" \in On(c.events) => c.peerEnded
    /\ "close" \in On(c.events) => c.closing

\* The queue stays in turn, and gets nothing that 'end' ends once the peer's end was seen.
Grows(c, d) ==
    Fine(c) => /\ Fine(d) /\ (c.peerEnded => d.peerEnded)
               /\ c.peerEnded => Streaming(d.events) \subseteq Streaming(c.events)

LEMMA GrowsRefl == \A c : Grows(c, c)
BY DEF Grows

LEMMA GrowsTrans ==
    ASSUME NEW c, NEW d, NEW e, Grows(c, d), Grows(d, e)
    PROVE  Grows(c, e)
BY DEF Grows

\* Lists of events that follow a queue without 'close'.
LEMMA GrowsBy ==
    ASSUME NEW c \in ClientConnection, ~c.closing, NEW d, NEW es \in Seq(Code), d.events = c.events \o es, InTurn(es),
           "close" \in On(es) => d.closing, "end" \in On(es) => ~c.peerEnded /\ d.peerEnded, "data" \in On(es) => ~c.peerEnded,
           c.peerEnded => d.peerEnded
    PROVE  Grows(c, d)
<1> SUFFICES ASSUME Fine(c)
             PROVE  Fine(d) /\ (c.peerEnded => Streaming(d.events) \subseteq Streaming(c.events))
  BY DEF Grows
<1> DEFINE s == c.events
<1>1. s \in Seq(Code) /\ Len(s) \in Nat /\ Len(es) \in Nat
  BY MovesTypes
<1>2. On(s \o es) = On(s) \cup On(es)
  BY <1>1, OnConcat
<1>3. /\ Len(s \o es) = Len(s) + Len(es)
      /\ \A i \in 1 .. Len(s) + Len(es) : (s \o es)[i] = IF i <= Len(s) THEN s[i] ELSE es[i - Len(s)]
  BY <1>1, ConcatProperties
<1>4. InTurn(s) /\ ("end" \in On(s) => c.peerEnded) /\ "close" \notin On(s)
  BY DEF Fine
<1>5. InTurn(s \o es)
  <2> SUFFICES ASSUME NEW i \in 1 .. Len(s) + Len(es), NEW j \in 1 .. Len(s) + Len(es), i < j
               PROVE  (s \o es)[i] # "close" /\ ((s \o es)[i] = "end" => (s \o es)[j] \notin {"end", "data"})
    BY <1>3 DEF InTurn
  <2>1. CASE j <= Len(s)
    BY <1>1, <1>3, <1>4, <2>1 DEF InTurn
  <2>2. CASE i <= Len(s) /\ j > Len(s)
    <3>1. i \in 1 .. Len(s) /\ j - Len(s) \in 1 .. Len(es)
      BY <1>1, <2>2
    <3>2. (s \o es)[i] = s[i] /\ (s \o es)[j] = es[j - Len(s)] /\ s[i] \in On(s) /\ es[j - Len(s)] \in On(es)
      BY <1>1, <1>3, <2>2, <3>1 DEF On
    <3> QED BY <1>4, <3>2
  <2>3. CASE i > Len(s)
    <3>1. i - Len(s) \in 1 .. Len(es) /\ j - Len(s) \in 1 .. Len(es) /\ i - Len(s) < j - Len(s)
      BY <1>1, <2>3
    <3>2. (s \o es)[i] = es[i - Len(s)] /\ (s \o es)[j] = es[j - Len(s)]
      BY <1>1, <1>3, <2>3
    <3> QED BY <3>1, <3>2 DEF InTurn
  <2> QED BY <1>1, <2>1, <2>2, <2>3
<1> QED BY <1>2, <1>4, <1>5 DEF Fine, Streaming

LEMMA ListsInTurn ==
    /\ InTurn(<<"finish">>) /\ InTurn(<<"end">>) /\ InTurn(<<"drain">>) /\ InTurn(<<"connect">>) /\ InTurn(<<>>)
    /\ InTurn(<<"error", "close">>) /\ InTurn(<<"finish", "close">>) /\ InTurn(<<"end", "close">>) /\ InTurn(<<"close">>)
<1>1. \A x : InTurn(<<x>>)
  BY DEF InTurn
<1>2. \A x : x # "close" => InTurn(<<x, "close">>)
  <2> SUFFICES ASSUME NEW x, x # "close", NEW i \in 1 .. 2, NEW j \in 1 .. 2, i < j
               PROVE  <<x, "close">>[i] # "close" /\ (<<x, "close">>[i] = "end" => <<x, "close">>[j] \notin {"end", "data"})
    BY DEF InTurn
  <2>1. i = 1 /\ j = 2
    OBVIOUS
  <2> QED BY <2>1
<1>3. InTurn(<<>>)
  BY DEF InTurn
<1> QED BY <1>1, <1>2, <1>3

LEMMA DataInTurn ==
    ASSUME NEW m \in Nat
    PROVE  LET t == [j \in 1 .. m |-> "data"] IN InTurn(t) /\ On(t) \subseteq {"data"} /\ t \in Seq(Code)
<1> DEFINE t == [j \in 1 .. m |-> "data"]
<1>1. t \in Seq(Code) /\ Len(t) = m
  BY CountData, EmptySeq
<1>2. \A i \in 1 .. m : t[i] = "data"
  OBVIOUS
<1> HIDE DEF t
<1> QED BY <1>1, <1>2 DEF InTurn, On, t

LEMMA FailGrows ==
    ASSUME NEW c \in ClientConnection
    PROVE  Grows(c, Fail(c)) /\ Fail(c).peerEnded = c.peerEnded /\ Fail(c).rx = c.rx
<1>1. CASE c.closing
  BY <1>1, GrowsRefl DEF Fail
<1>2. CASE ~c.closing
  <2>1. /\ Fail(c).events = c.events \o <<"error", "close">> /\ Fail(c).closing /\ Fail(c).peerEnded = c.peerEnded
        /\ Fail(c).rx = c.rx
    BY <1>2 DEF Fail, ClientConnection
  <2> QED BY <1>2, <2>1, OnLists, ListsInTurn, GrowsBy
<1> QED BY <1>1, <1>2

LEMMA FinishGrows ==
    ASSUME NEW c \in ClientConnection, ~c.closing
    PROVE  LET d == FinishWriteSideIfReady(c) IN Grows(c, d) /\ d.peerEnded = c.peerEnded
<1> DEFINE d == FinishWriteSideIfReady(c)
           es == IF c.peerEnded THEN <<"finish", "close">> ELSE <<"finish">>
<1>1. CASE d = c
  BY <1>1, GrowsRefl
<1>2. CASE d # c
  <2>1. d.events = c.events \o es /\ d.closing = c.peerEnded /\ d.peerEnded = c.peerEnded
    BY <1>2 DEF FinishWriteSideIfReady, ClientConnection
  <2>2. es \in Seq(Code) /\ InTurn(es) /\ ("close" \in On(es) => c.peerEnded) /\ "end" \notin On(es) /\ "data" \notin On(es)
    BY OnLists, ListsInTurn
  <2> HIDE DEF d, es
  <2>3. Grows(c, d)
    BY <2>1, <2>2, GrowsBy
  <2> QED BY <2>1, <2>3 DEF d
<1> QED BY <1>1, <1>2

LEMMA FlushGrows ==
    ASSUME NEW c \in ClientConnection, ~c.closing, NEW k \in 0 .. Len(c.out)
    PROVE  LET d == FlushK(c, k) IN Grows(c, d) /\ d.peerEnded = c.peerEnded /\ d.rx = c.rx
<1> DEFINE sent == c.sent \o SubSeq(c.out, 1, k)
           out == SubSeq(c.out, k + 1, Len(c.out))
           taken == Taken(c, sent, out)
           more == Append(c.events, "drain")
           told == [taken EXCEPT !.events = more]
<1>1. FlushK(c, k) \in {taken, FinishWriteSideIfReady(taken), FinishWriteSideIfReady(told)}
  BY DEF FlushK, Taken, ClientConnection
<1>2. c.out \in Seq(Nat) /\ c.sent \in Seq(Nat) /\ c.events \in Seq(Code) /\ "drain" \in Code
  BY MovesTypes DEF Code
<1>3. sent \in Seq(Nat) /\ out \in Seq(Nat)
  <2>1. SubSeq(c.out, 1, k) \in Seq(Nat) /\ out \in Seq(Nat)
    BY <1>2, SubSeqNat
  <2> QED BY <1>2, <2>1, ConcatNat
<1> HIDE DEF sent, out
<1>4. taken \in ClientConnection /\ taken.events = c.events /\ taken.closing = c.closing /\ taken.peerEnded = c.peerEnded /\ taken.rx = c.rx
  BY <1>3 DEF Taken, ClientConnection
<1>5. Grows(c, taken)
  BY <1>4 DEF Grows, Fine
<1>9. more \in Seq(Code) /\ more = c.events \o <<"drain">>
  BY <1>2, AppendIsConcat
<1> HIDE DEF taken, more
<1>6. told \in ClientConnection /\ told.events = more /\ told.closing = taken.closing
      /\ told.peerEnded = taken.peerEnded /\ told.rx = taken.rx
  BY <1>4, <1>9 DEF ClientConnection
<1>7. Grows(taken, told)
  <2>1. told.events = taken.events \o <<"drain">>
    BY <1>4, <1>6, <1>9
  <2> QED BY <1>4, <1>6, <2>1, OnLists, ListsInTurn, GrowsBy
<1> HIDE DEF told
<1>8. \A e \in {taken, told} : /\ Grows(e, FinishWriteSideIfReady(e)) /\ FinishWriteSideIfReady(e).peerEnded = e.peerEnded
                              /\ FinishWriteSideIfReady(e).rx = e.rx
  <2>1. \A e \in {taken, told} : e \in ClientConnection /\ ~e.closing
    BY <1>4, <1>6
  <2>2. \A e \in ClientConnection : FinishWriteSideIfReady(e).rx = e.rx
    BY DEF FinishWriteSideIfReady, ClientConnection
  <2> QED BY <2>1, <2>2, FinishGrows
<1> QED BY <1>1, <1>4, <1>5, <1>6, <1>7, <1>8, GrowsTrans

LEMMA FlushWritesGrow ==
    ASSUME NEW c \in ClientConnection, ~c.closing, NEW d \in FlushWrites(c)
    PROVE  Grows(c, d) /\ d.peerEnded = c.peerEnded
<1>1. (\E k \in 0 .. Len(c.out) : d = FlushK(c, k)) \/ d = Fail(c)
  BY DEF FlushWrites, Failures
<1> QED BY <1>1, FlushGrows, FailGrows

LEMMA NetEndGrows ==
    ASSUME NEW c \in ClientConnection
    PROVE  LET d == NetEnd(c) IN Grows(c, d) /\ d.peerEnded = c.peerEnded
<1>1. CASE NetEnd(c) = c
  BY <1>1, GrowsRefl
<1>2. CASE NetEnd(c) # c
  <2> DEFINE e == EndOf(c)
  <2>1. ~c.closing /\ NetEnd(c) = FinishWriteSideIfReady(e)
    BY <1>2 DEF NetEnd, EndOf
  <2>2. e \in ClientConnection /\ e.events = c.events /\ e.closing = c.closing /\ e.peerEnded = c.peerEnded
    BY DEF EndOf, ClientConnection
  <2> HIDE DEF e
  <2>3. Grows(c, e)
    BY <2>2 DEF Grows, Fine
  <2> QED BY <2>1, <2>2, <2>3, FinishGrows, GrowsTrans
<1> QED BY <1>1, <1>2

LEMMA CloseGrows ==
    ASSUME NEW c \in ClientConnection
    PROVE  LET d == CloseFromPeer(c) IN Grows(c, d) /\ d.rx = c.rx /\ (c.closing => d = c)
<1> DEFINE d == CloseFromPeer(c)
           es == IF c.finished THEN <<"end", "close">> ELSE <<"end">>
<1>1. CASE c.closing \/ c.peerEnded
  BY <1>1, GrowsRefl DEF CloseFromPeer
<1>2. CASE ~c.closing /\ ~c.peerEnded
  <2>1. d.events = c.events \o es /\ d.closing = c.finished /\ d.peerEnded /\ d.rx = c.rx
    BY <1>2 DEF CloseFromPeer, ClientConnection
  <2>2. es \in Seq(Code) /\ InTurn(es) /\ ("close" \in On(es) => c.finished) /\ "data" \notin On(es)
    BY OnLists, ListsInTurn
  <2> HIDE DEF d, es
  <2>3. Grows(c, d)
    BY <1>2, <2>1, <2>2, GrowsBy
  <2> QED BY <1>2, <2>1, <2>3 DEF d
<1> QED BY <1>1, <1>2

\* A read: what is left of the receive queue, when it ends, is nothing.
LEMMA ReadGrows ==
    ASSUME NEW c \in ClientConnection, ~c.closing, ~c.peerEnded, FinLast(c.rx), NEW k \in 0 .. Len(c.rx)
    PROVE  LET d == ReadK(c, k) IN
           /\ Grows(c, d) /\ d \in ClientConnection
           /\ d.rx = SubSeq(c.rx, k + 1, Len(c.rx))
           /\ d.peerEnded => d.rx = <<>>
<1> DEFINE ended == k > 0 /\ c.rx[k] = Fin
           data == SubSeq(c.rx, 1, IF ended THEN k - 1 ELSE k)
           left == SubSeq(c.rx, k + 1, Len(c.rx))
           told == [j \in 1 .. Len(data) |-> "data"]
           chunks == c.chunks \o data
           events == c.events \o told
           read == [c EXCEPT !.rx = left, !.chunks = chunks, !.events = events]
<1>1. ReadK(c, k) = IF ended THEN CloseFromPeer(read) ELSE read
  BY DEF ReadK
<1>2. c.rx \in Seq(Nat) /\ Len(c.rx) \in Nat /\ c.chunks \in Seq(Nat) /\ c.events \in Seq(Code)
  BY MovesTypes
<1>3. data \in Seq(Nat) /\ left \in Seq(Nat) /\ Len(data) \in Nat
  <2>1. (IF ended THEN k - 1 ELSE k) \in 0 .. Len(c.rx)
    BY <1>2
  <2> HIDE DEF ended
  <2>2. data \in Seq(Nat) /\ left \in Seq(Nat)
    BY <1>2, <2>1, SubSeqNat
  <2> QED BY <2>2
<1>4. ended => left = <<>>
  <2>1. ASSUME ended PROVE k = Len(c.rx)
    BY <1>2, <2>1 DEF FinLast
  <2>2. SubSeq(c.rx, Len(c.rx) + 1, Len(c.rx)) = <<>>
    BY <1>2
  <2> QED BY <2>1, <2>2
<1>5. told \in Seq(Code) /\ InTurn(told) /\ On(told) \subseteq {"data"}
  <2> HIDE DEF data
  <2> QED BY <1>3, DataInTurn
<1>6. chunks \in Seq(Nat) /\ events \in Seq(Code)
  <2> HIDE DEF data, told
  <2> QED BY <1>2, <1>3, <1>5
<1> HIDE DEF ended, data, left, told, chunks, events
<1>7. /\ read \in ClientConnection /\ read.events = events /\ read.closing = c.closing /\ read.peerEnded = c.peerEnded
      /\ read.rx = left
  BY <1>3, <1>6 DEF ClientConnection
<1>8. Grows(c, read)
  <2>1. read.events = c.events \o told
    BY <1>7 DEF events
  <2> HIDE DEF read
  <2> QED BY <1>5, <1>7, <2>1, GrowsBy
<1> HIDE DEF read
<1>9. Grows(read, CloseFromPeer(read)) /\ CloseFromPeer(read).rx = read.rx /\ CloseFromPeer(read) \in ClientConnection
  BY <1>7, CloseGrows, CloseMoves DEF Moves
<1>10. Grows(c, CloseFromPeer(read))
  BY <1>8, <1>9, GrowsTrans
<1>11. ReadK(c, k).rx = SubSeq(c.rx, k + 1, Len(c.rx))
  BY <1>1, <1>7, <1>9 DEF left
<1> QED BY <1>1, <1>4, <1>7, <1>8, <1>9, <1>10, <1>11

\* Nothing is left of a receive queue but the end of the stream.
Spent(s) == \A i \in 1 .. Len(s) : s[i] = Fin

LEMMA ReadAvailableGrows ==
    ASSUME NEW c \in ClientConnection, ~c.closing, ~c.peerEnded, FinLast(c.rx), c.rx # <<>>,
           NEW hup \in BOOLEAN, hup => Fin \in On(c.rx), NEW d \in ReadAvailable(c, hup)
    PROVE  /\ Grows(c, d) /\ d \in ClientConnection
           /\ d.peerEnded => Spent(d.rx)
           /\ hup => d.closing \/ Spent(d.rx)
<1>1. c.rx \in Seq(Nat) /\ Len(c.rx) \in Nat \ {0}
  BY MovesTypes
<1> DEFINE least == IF hup THEN Len(c.rx) - 1 ELSE 1
           reads == {ReadK(c, k) : k \in least .. Len(c.rx)}
<1>2. \A k \in least .. Len(c.rx) : k \in 0 .. Len(c.rx)
  BY <1>1
<1>3. ASSUME hup PROVE c.rx[Len(c.rx)] = Fin
  <2>1. PICK i \in 1 .. Len(c.rx) : c.rx[i] = Fin
    BY <1>3 DEF On
  <2> QED BY <2>1 DEF FinLast
<1>4. ASSUME NEW r \in reads
      PROVE  /\ Grows(c, r) /\ r \in ClientConnection /\ (r.peerEnded => Spent(r.rx)) /\ (hup => Spent(r.rx))
  <2>1. PICK k \in least .. Len(c.rx) : r = ReadK(c, k)
    BY <1>4
  <2>2. k \in 0 .. Len(c.rx)
    BY <1>2
  <2>3. Grows(c, r) /\ r \in ClientConnection /\ r.rx = SubSeq(c.rx, k + 1, Len(c.rx)) /\ (r.peerEnded => r.rx = <<>>)
    BY <2>1, <2>2, ReadGrows
  <2>4. Spent(<<>>)
    BY DEF Spent
  <2>5. ASSUME hup PROVE Spent(r.rx)
    <3>1. k = Len(c.rx) - 1 \/ k = Len(c.rx)
      BY <1>1, <2>5
    <3>2. Len(r.rx) = Len(c.rx) - k /\ \A i \in 1 .. Len(c.rx) - k : r.rx[i] = c.rx[k + i]
      BY <1>1, <2>2, <2>3, SubSeqNat
    <3>3. ASSUME NEW i \in 1 .. Len(r.rx) PROVE r.rx[i] = Fin
      <4>1. i = 1 /\ k + i = Len(c.rx)
        BY <1>1, <3>1, <3>2
      <4> QED BY <1>3, <2>5, <3>2, <4>1
    <3> QED BY <3>3 DEF Spent
  <2> QED BY <2>3, <2>4, <2>5
<1>5. d \in reads \/ \E r \in {c} \cup reads : ~r.peerEnded /\ d = Fail(r)
  BY DEF ReadAvailable, Failures
<1> HIDE DEF reads
<1>6. ASSUME NEW r \in {c} \cup reads, ~r.peerEnded, d = Fail(r) PROVE Grows(c, d) /\ d \in ClientConnection /\ ~d.peerEnded /\ d.closing
  <2>1. Grows(c, r) /\ r \in ClientConnection
    BY <1>4, <1>6, GrowsRefl
  <2>2. Grows(r, d) /\ d \in ClientConnection /\ d.closing /\ d.peerEnded = r.peerEnded
    BY <1>6, <2>1, FailGrows, FailMoves DEF Moves
  <2> QED BY <1>6, <2>1, <2>2, GrowsTrans
<1> QED BY <1>4, <1>5, <1>6

LEMMA ConnectGrows ==
    ASSUME NEW c \in ClientConnection, ~c.closing, Bare(c), ~c.socket, c.events = <<>>, NEW d \in CompleteConnect(c)
    PROVE  Queue(d) /\ ~d.peerEnded
<1> DEFINE done == [c EXCEPT !.connecting = FALSE]
           told == [done EXCEPT !.events = <<"connect">>]
<1>1. /\ done \in ClientConnection /\ done.events = <<>> /\ ~done.endRequested /\ ~done.connecting /\ ~done.socket /\ ~done.closing
      /\ ~done.peerEnded
  BY DEF ClientConnection, Bare
<1>2. Append(done.events, "connect") = <<"connect">> /\ done.events \o <<"error", "close">> = <<"error", "close">>
  <2>1. Append(<<>>, "connect") = <<"connect">>
    OBVIOUS
  <2>2. <<>> \o <<"error", "close">> = <<"error", "close">>
    BY OnLists, ConcatEmptySeq
  <2> QED BY <1>1, <2>1, <2>2
<1>3. d = FinishWriteSideIfReady(told) \/ d = Fail(done)
  BY <1>2 DEF CompleteConnect
<1> HIDE DEF done
<1>4. /\ told.events = <<"connect">> /\ ~told.endRequested /\ ~told.connecting /\ ~told.socket /\ ~told.closing /\ ~told.peerEnded
  BY <1>1 DEF ClientConnection
<1>5. FinishWriteSideIfReady(told) = told
  BY <1>4 DEF FinishWriteSideIfReady
<1>6. /\ Fail(done).events = <<"error", "close">> /\ ~Fail(done).connecting /\ ~Fail(done).socket /\ ~Fail(done).peerEnded
  BY <1>1, <1>2 DEF Fail, ClientConnection
<1>7. <<"error", "close">> # <<"connect">>
  OBVIOUS
<1> HIDE DEF told
<1> QED BY <1>3, <1>4, <1>5, <1>6, <1>7, OnLists, ListsInTurn DEF Queue, Early

LEMMA PolledGrows ==
    ASSUME NEW c \in ClientConnection, ~c.closing, ~c.connecting, FinLast(c.rx), NEW d \in Polled(c)
    PROVE  Grows(c, d) /\ (d.peerEnded /\ ~c.peerEnded /\ ~c.paused => Spent(d.rx))
<1> DEFINE written == {c} \cup (IF c.out = <<>> THEN {} ELSE {FlushK(c, k) : k \in 1 .. Len(c.out)} \cup Failures(c))
           Read(w) == IF w.closing \/ ~Readable(c) THEN {w}
                      ELSE ReadAvailable(w, HangUp(c)) \cup (IF HangUp(c) THEN {} ELSE {w})
           Last(r) == d = (IF HangUp(c) THEN CloseFromPeer(r) ELSE r) \/ d = Fail(r)
<1>1. \E w \in written : \E r \in Read(w) : Last(r)
  BY DEF Polled, Failures
<1>2. PICK w \in written : \E r \in Read(w) : Last(r)
  BY <1>1
<1>3. PICK r \in Read(w) : Last(r)
  BY <1>2
<1>4. Grows(c, w) /\ w \in ClientConnection /\ w.peerEnded = c.peerEnded /\ w.rx = c.rx
  <2>1. CASE w = c
    BY <2>1, GrowsRefl
  <2>2. ASSUME NEW k \in 1 .. Len(c.out), w = FlushK(c, k) PROVE Grows(c, w) /\ w \in ClientConnection /\ w.peerEnded = c.peerEnded /\ w.rx = c.rx
    <3>1. c.out \in Seq(Nat) /\ k \in 0 .. Len(c.out)
      BY MovesTypes
    <3> QED BY <2>2, <3>1, FlushMoves, FlushGrows DEF Moves
  <2>3. CASE w = Fail(c)
    BY <2>3, FailMoves, FailGrows DEF Moves
  <2> QED BY <1>2, <2>1, <2>2, <2>3 DEF Failures
<1>5. HangUp(c) \in BOOLEAN /\ (HangUp(c) => Fin \in On(c.rx) /\ c.rx # <<>>)
  <2>1. c.rx \in Seq(Nat) /\ c.finished \in BOOLEAN
    BY MovesTypes
  <2> QED BY <2>1 DEF HangUp, On
<1>6. /\ Grows(w, r) /\ r \in ClientConnection
      /\ r.peerEnded /\ ~c.peerEnded => Spent(r.rx)
      /\ HangUp(c) /\ Readable(c) => r.closing \/ Spent(r.rx)
  <2>1. CASE r = w /\ (HangUp(c) /\ Readable(c) => w.closing)
    BY <1>4, <2>1, GrowsRefl
  <2>2. CASE Readable(c) /\ ~w.closing /\ r \in ReadAvailable(w, HangUp(c))
    <3>1. w.rx # <<>> /\ FinLast(w.rx) /\ ~w.peerEnded
      BY <1>4, <2>2 DEF Readable
    <3> QED BY <1>4, <1>5, <2>2, <3>1, ReadAvailableGrows
  <2> QED BY <1>3, <2>1, <2>2
<1> HIDE DEF written, Read
<1>7. Grows(c, r)
  BY <1>4, <1>6, GrowsTrans
<1>8. CASE d # Fail(r) /\ ~HangUp(c)
  BY <1>3, <1>6, <1>7, <1>8
<1>10. CASE d = Fail(r)
  <2>1. Grows(r, d)
    BY <1>6, <1>10, FailGrows
  <2>2. d.peerEnded = r.peerEnded /\ d.rx = r.rx
    BY <1>6, <1>10 DEF Fail, ClientConnection
  <2> QED BY <1>6, <1>7, <2>1, <2>2, GrowsTrans
<1>9. CASE d # Fail(r) /\ HangUp(c)
  <2>1. d = CloseFromPeer(r) /\ Grows(r, d) /\ d.rx = r.rx /\ (r.closing => d = r)
    BY <1>3, <1>6, <1>9, CloseGrows
  <2>2. Grows(c, d)
    BY <1>7, <2>1, GrowsTrans
  <2>3. ASSUME d.peerEnded, ~c.peerEnded, ~c.paused PROVE Spent(d.rx)
    <3>1. Readable(c)
      BY <1>5, <1>9, <2>3 DEF Readable
    <3> QED BY <1>6, <1>9, <2>1, <2>3, <3>1
  <2> QED BY <2>2, <2>3
<1> QED BY <1>8, <1>9, <1>10

----------------
(***************************************************************************)
(* What a step may do: the actions of DataBeforeEnd and of EventOrder.     *)
(***************************************************************************)
Ends ==
    \A k \in Id : nat'[k].peerEnded /\ ~nat[k].peerEnded /\ ~nat[k].paused =>
        \A i \in DOMAIN nat'[k].rx : nat'[k].rx[i] = Fin

EndsLate ==
    seen'["end"] > seen["end"] /\ ~sock.paused => sock.held = <<>> /\ nat[sock.native].chunks = <<>>

Orders ==
    made'.epoch = made.epoch =>
        /\ seen'["connect"] <= 1 /\ seen'["end"] <= 1 /\ seen'["close"] <= 1
        /\ got' # got /\ ~Running("resume") => seen["connect"] = 1 /\ seen["end"] = 0 /\ seen["close"] = 0
        /\ seen'["end"] > seen["end"] => seen["connect"] = 1
        /\ seen["close"] > 0 => seen' = seen

Good == Ends /\ EndsLate /\ Orders

\* A connection whose queue is as it was.
SameQueue(c, d) ==
    /\ d.events = c.events /\ d.peerEnded = c.peerEnded /\ d.socket = c.socket /\ (d.connecting => c.connecting)
    /\ d.life = "open" => c.life = "open" /\ d.closing = c.closing

LEMMA SameQueueRefl == \A c : SameQueue(c, c)
BY DEF SameQueue

LEMMA SameQueueKeeps ==
    ASSUME NEW c, NEW d, Queue(c), SameQueue(c, d)
    PROVE  Queue(d)
BY DEF Queue, Early, SameQueue

LEMMA SeenTypes ==
    ASSUME TypeOK
    PROVE  /\ seen \in [{"connect", "end", "error", "close"} -> Nat] /\ \A k \in Id : nat[k] \in ClientConnection
           /\ sock.native \in Id \cup {NoId} /\ sock.closeEmitted \in BOOLEAN /\ NoId \notin Id
BY NatTypes DEF TypeOK, Socket

\* A step that queues no event and takes none.
LEMMA SilentStep ==
    ASSUME TypeOK, EventInv, \A k \in Id : SameQueue(nat[k], nat'[k]),
           sock'.native = sock.native, sock'.closeEmitted = sock.closeEmitted,
           seen' = seen \/ (~sock.closeEmitted /\ seen' = [seen EXCEPT !["error"] = @ + 1]),
           got' = got \/ Running("resume"), Events # <<>> /\ Woken => Woken'
    PROVE  EventInv' /\ Good
<1>1. /\ seen \in [{"connect", "end", "error", "close"} -> Nat] /\ \A k \in Id : nat[k] \in ClientConnection
      /\ sock.native \in Id \cup {NoId} /\ sock.closeEmitted \in BOOLEAN /\ NoId \notin Id
  BY SeenTypes
<1>2. /\ seen'["connect"] = seen["connect"] /\ seen'["end"] = seen["end"] /\ seen'["close"] = seen["close"]
      /\ seen["connect"] \in Nat /\ seen["end"] \in Nat /\ seen["close"] \in Nat
      /\ sock.closeEmitted => seen' = seen
  BY <1>1
<1>3. Queues /\ Counted /\ Awake
  BY DEF EventInv
<1>4. Queues'
  BY <1>3, SameQueueKeeps DEF Queues
<1>5. /\ \A k \in Id : nat'[k].events = nat[k].events /\ nat'[k].peerEnded = nat[k].peerEnded
      /\ Events' = Events
  BY <1>1 DEF SameQueue, Events
<1>6. Counted'
  BY <1>1, <1>2, <1>3, <1>5 DEF Counted
<1>7. Awake'
  BY <1>3, <1>5 DEF Awake
<1>8. Ends /\ EndsLate
  BY <1>2, <1>5 DEF Ends, EndsLate
<1>9. Orders
  BY <1>2, <1>3 DEF Orders, Counted
<1> QED BY <1>4, <1>6, <1>7, <1>8, <1>9 DEF EventInv, Good

----------------
(* The microtasks and the stack *)

LEMMA NotifiedMore ==
    ASSUME NEW q \in Seq(Job), NEW r \in Seq(Job), Notified(q)
    PROVE  Notified(q \o r)
<1>1. PICK i \in 1 .. Len(q) : q[i].kind = "dispatch" /\ \A j \in 1 .. i - 1 : q[j].kind # "close"
  BY DEF Notified
<1>2. Len(q) \in Nat /\ Len(r) \in Nat /\ Len(q \o r) = Len(q) + Len(r) /\ \A j \in 1 .. Len(q) : (q \o r)[j] = q[j]
  BY ConcatProperties
<1>3. i \in 1 .. Len(q \o r) /\ \A j \in 1 .. i - 1 : j \in 1 .. Len(q)
  BY <1>1, <1>2
<1> QED BY <1>1, <1>2, <1>3 DEF Notified

LEMMA NotifiedAppend ==
    ASSUME NEW q \in Seq(Job), NEW x \in Job, Notified(q)
    PROVE  Notified(Append(q, x))
<1>1. Append(q, x) = q \o <<x>> /\ <<x>> \in Seq(Job)
  BY AppendIsConcat
<1> QED BY <1>1, NotifiedMore

LEMMA NotifiedTail ==
    ASSUME NEW q \in Seq(Job), q # <<>>, Notified(q), Head(q).kind # "dispatch"
    PROVE  Notified(Tail(q)) /\ Head(q).kind # "close"
<1>1. PICK i \in 1 .. Len(q) : q[i].kind = "dispatch" /\ \A j \in 1 .. i - 1 : q[j].kind # "close"
  BY DEF Notified
<1>2. Len(q) \in Nat \ {0} /\ Head(q) = q[1] /\ Len(Tail(q)) = Len(q) - 1 /\ \A j \in 1 .. Len(q) - 1 : Tail(q)[j] = q[j + 1]
  BY HeadTailProperties, EmptySeq
<1>3. i > 1
  BY <1>1, <1>2
<1>4. 1 \in 1 .. i - 1 /\ i - 1 \in 1 .. Len(Tail(q)) /\ Tail(q)[i - 1] = q[i]
  BY <1>1, <1>2, <1>3
<1>5. ASSUME NEW j \in 1 .. (i - 1) - 1 PROVE Tail(q)[j].kind # "close"
  <2>1. j \in 1 .. Len(q) - 1 /\ j + 1 \in 1 .. i - 1
    BY <1>1, <1>2, <1>3
  <2> QED BY <1>1, <1>2, <2>1
<1> QED BY <1>1, <1>2, <1>4, <1>5 DEF Notified

LEMMA NotifiedLast ==
    ASSUME NEW q \in Seq(Job), NEW x \in Job, x.kind = "dispatch", \A j \in On(q) : j.kind # "close"
    PROVE  Notified(q \o <<x>>)
<1>1. /\ Len(q) \in Nat /\ Len(q \o <<x>>) = Len(q) + 1 /\ (q \o <<x>>)[Len(q) + 1] = x
      /\ \A j \in 1 .. Len(q) : (q \o <<x>>)[j] = q[j] /\ q[j] \in On(q)
  <2>1. Append(q, x) = q \o <<x>>
    BY AppendIsConcat
  <2> QED BY <2>1, AppendProperties DEF On
<1> QED BY <1>1 DEF Notified

\* The frames of event loops stay.
Keeps == \A f \in On(stack) : f.fn = "dispatch" => f \in On(stack')

LEMMA WokenKept ==
    ASSUME Keeps, Notified(jobs) => Notified(jobs')
    PROVE  Woken => Woken'
BY DEF Keeps, Woken, Holds

LEMMA KeepsOn ==
    ASSUME NEW base \in Seq(Frame), \A f \in On(stack) : f.fn = "dispatch" => f \in On(base), NEW f \in Frame, NEW g \in Frame,
           stack' = base \/ stack' = <<f>> \o base \/ stack' = <<g>> \o (<<f>> \o base)
    PROVE  Keeps
<1>1. <<f>> \o base \in Seq(Frame) /\ On(<<f>> \o base) = {f} \cup On(base)
  BY OnPush
<1>2. On(<<g>> \o (<<f>> \o base)) = {g} \cup On(<<f>> \o base)
  <2> DEFINE t == <<f>> \o base
  <2> HIDE DEF t
  <2>1. t \in Seq(Frame)
    BY <1>1 DEF t
  <2>2. On(<<g>> \o t) = {g} \cup On(t)
    BY <2>1, OnPush
  <2> QED BY <2>2 DEF t
<1> QED BY <1>1, <1>2 DEF Keeps

LEMMA KeepsRest ==
    ASSUME TypeOK, Shaped(stack), NEW fn, Running(fn), fn # "dispatch"
    PROVE  Rest \in Seq(Frame) /\ \A f \in On(stack) : f.fn = "dispatch" => f \in On(Rest)
BY TopFacts

LEMMA KeepsNone == stack = <<>> => Keeps
BY OnNone DEF Keeps

----------------
(* Steps that leave the queues alone *)

LEMMA StillStep ==
    ASSUME TypeOK, EventInv, nat' = nat, sock'.native = sock.native, sock'.closeEmitted = sock.closeEmitted, seen' = seen,
           got' = got \/ Running("resume"), Keeps, Notified(jobs) => Notified(jobs')
    PROVE  EventInv' /\ Good
BY SameQueueRefl, WokenKept, SilentStep

LEMMA TurnEvents ==
    ASSUME SocketInv, EventInv, Turn
    PROVE  EventInv' /\ Good
<1>1. TypeOK /\ stack = <<>> /\ UNCHANGED <<sock, nat, jobs, seen, got>>
  BY DEF Turn, SocketInv
<1> QED BY <1>1, KeepsNone, StillStep

\* A continuation that has nothing to do.
LEMMA PopEvents ==
    ASSUME SocketInv, EventInv, NEW fn, Running(fn), fn # "dispatch", stack' = Rest, UNCHANGED <<nat, seen, got>>,
           sock'.native = sock.native, sock'.closeEmitted = sock.closeEmitted, Notified(jobs) => Notified(jobs')
    PROVE  EventInv' /\ Good
<1>1. TypeOK /\ Shaped(stack)
  BY DEF SocketInv
<1>2. Keeps
  BY <1>1, KeepsRest DEF Keeps
<1> QED BY <1>1, <1>2, StillStep

LEMMA ReturnEvents ==
    ASSUME SocketInv, EventInv, Return
    PROVE  EventInv' /\ Good
BY PopEvents DEF Return

LEMMA SetPausedEvents ==
    ASSUME SocketInv, EventInv, NEW p \in BOOLEAN, SetPaused(p), Keeps
    PROVE  EventInv' /\ Good
<1>1. TypeOK /\ sock \in Socket /\ nat \in [Id -> ClientConnection] /\ sock.native \in Id \cup {NoId}
  BY DEF SocketInv, TypeOK, Socket
<1>2. sock'.native = sock.native /\ sock'.closeEmitted = sock.closeEmitted /\ UNCHANGED <<jobs, seen, got>>
  BY <1>1 DEF SetPaused, Socket
<1>3. \A c \in ClientConnection : SameQueue(c, PausedOf(c, p))
  BY PausedOfFacts DEF SameQueue
<1>4. \A k \in Id : nat'[k] \in {nat[k], PausedOf(nat[k], p)}
  BY <1>1 DEF SetPaused, PausedOf
<1>5. \A k \in Id : SameQueue(nat[k], nat'[k])
  BY <1>1, <1>3, <1>4, SameQueueRefl
<1> QED BY <1>1, <1>2, <1>5, WokenKept, SilentStep

LEMMA PauseEvents ==
    ASSUME SocketInv, EventInv, Pause
    PROVE  EventInv' /\ Good
<1>1. Keeps
  BY DEF Pause, Keeps
<1> QED BY <1>1, SetPausedEvents DEF Pause

LEMMA ResumeEvents ==
    ASSUME SocketInv, EventInv, Resume
    PROVE  EventInv' /\ Good
<1>1. TypeOK /\ stack \in Seq(Frame)
  BY DEF SocketInv, TypeOK
<1>2. F("resume", 0) \in Frame
  BY <1>1, FIs
<1>3. Keeps
  BY <1>1, <1>2, KeepsOn DEF Resume
<1> QED BY <1>3, SetPausedEvents DEF Resume

LEMMA ResumeNextEvents ==
    ASSUME SocketInv, EventInv, ResumeNext
    PROVE  EventInv' /\ Good
<1>1. TypeOK /\ Shaped(stack) /\ stack \in Seq(Frame) /\ sock \in Socket /\ Running("resume")
  BY DEF SocketInv, TypeOK, ResumeNext
<1>2. sock'.native = sock.native /\ sock'.closeEmitted = sock.closeEmitted /\ UNCHANGED <<nat, jobs, seen>>
  BY <1>1 DEF ResumeNext, Continue, DeliverChunk, Socket
<1>3. stack' = Rest \/ stack' = <<Call>> \o stack
  BY DEF ResumeNext, Continue, DeliverChunk
<1>4. Keeps
  <2>1. CASE stack' = Rest
    BY <1>1, <2>1, KeepsRest DEF Keeps
  <2>2. CASE stack' = <<Call>> \o stack
    BY <1>1, <2>2, CallIs, KeepsOn
  <2> QED BY <1>3, <2>1, <2>2
<1> QED BY <1>1, <1>2, <1>4, StillStep

LEMMA DispatchDoneEvents ==
    ASSUME SocketInv, EventInv, DispatchDone
    PROVE  EventInv' /\ Good
<1>1. TypeOK /\ Events = <<>> /\ UNCHANGED <<sock, nat, jobs, seen, got>>
  BY DEF SocketInv, DispatchDone, Continue
<1> QED BY <1>1, SameQueueRefl, SilentStep

\* A step that begins with an empty stack.
LEMMA IdleStep ==
    ASSUME SocketInv, EventInv, stack = <<>>, UNCHANGED <<nat, seen, got>>,
           sock'.native = sock.native, sock'.closeEmitted = sock.closeEmitted, Notified(jobs) => Notified(jobs')
    PROVE  EventInv' /\ Good
BY KeepsNone, StillStep DEF SocketInv

\* A microtask other than a dispatch.
LEMMA DrainedJobs ==
    ASSUME SocketInv, NEW kind, kind # "dispatch", Drains(kind)
    PROVE  stack = <<>> /\ jobs # <<>> /\ (Notified(jobs) => Notified(Tail(jobs)) /\ kind # "close")
BY NotifiedTail DEF SocketInv, TypeOK, Drains

LEMMA JobNotifyEvents ==
    ASSUME SocketInv, EventInv, JobNotify
    PROVE  EventInv' /\ Good
<1>1. TypeOK /\ UNCHANGED <<sock, nat, seen, got>> /\ stack' = <<F("dispatch", Head(jobs).n)>>
  BY DEF SocketInv, JobNotify, Continue
<1>2. F("dispatch", Head(jobs).n) \in On(stack')
  BY <1>1, OnOne
<1>3. Woken'
  BY <1>2 DEF Woken, Holds, F
<1> QED BY <1>1, <1>3, SameQueueRefl, SilentStep

LEMMA JobFinishEvents ==
    ASSUME SocketInv, EventInv, JobFinish
    PROVE  EventInv' /\ Good
<1>1. stack = <<>> /\ (Notified(jobs) => Notified(Tail(jobs)))
  BY DrainedJobs DEF JobFinish, Drained
<1> QED BY <1>1, IdleStep DEF JobFinish, Drained, Tell

LEMMA JobCreateFailedEvents ==
    ASSUME SocketInv, EventInv, JobCreateFailed
    PROVE  EventInv' /\ Good
<1>1. stack = <<>> /\ (Notified(jobs) => Notified(Tail(jobs)))
  BY DrainedJobs DEF JobCreateFailed, Drained
<1>2. UNCHANGED <<sock, nat, seen, got>> /\ jobs' = Tail(jobs)
  BY DEF JobCreateFailed, Drained, Continue, FailAttempt, Tell
<1> QED BY <1>1, <1>2, IdleStep

LEMMA StartFields ==
    ASSUME TypeOK, NEW s \in Socket, NEW rest, StartNextAttempt(s, rest)
    PROVE  /\ sock'.native = s.native /\ sock'.closeEmitted = s.closeEmitted /\ UNCHANGED <<seen, got>>
           /\ stack' = <<Call>> \o (<<F("attempting", made.attempt + 1)>> \o rest) /\ F("attempting", made.attempt + 1) \in Frame
<1>1. made.attempt + 1 \in Nat
  BY NatTypes
<1> QED BY <1>1, FIs DEF StartNextAttempt, Tell, Socket

LEMMA BeginFields ==
    ASSUME TypeOK, NEW n \in Nat, NEW rest, BeginAttempts(n, rest)
    PROVE  /\ sock'.native = sock.native /\ sock'.closeEmitted = sock.closeEmitted /\ UNCHANGED <<seen, got>>
           /\ stack' = <<Call>> \o (<<F("attempting", made.attempt + 1)>> \o rest) /\ F("attempting", made.attempt + 1) \in Frame
<1> DEFINE s == [sock EXCEPT !.targets = n, !.next = 0, !.multiple = n > 1]
<1>1. s \in Socket /\ s.native = sock.native /\ s.closeEmitted = sock.closeEmitted
  <2>1. \A b \in BOOLEAN : LET t == [sock EXCEPT !.targets = n, !.next = 0, !.multiple = b] IN
                             t \in Socket /\ t.native = sock.native /\ t.closeEmitted = sock.closeEmitted
    BY DEF TypeOK, Socket
  <2>2. (n > 1) \in BOOLEAN
    OBVIOUS
  <2> QED BY <2>1, <2>2, Zenon
<1>2. StartNextAttempt(s, rest)
  BY DEF BeginAttempts
<1> HIDE DEF s
<1> QED BY <1>1, <1>2, StartFields

LEMMA JobBeginEvents ==
    ASSUME SocketInv, EventInv, JobBegin
    PROVE  EventInv' /\ Good
<1>1. stack = <<>> /\ (Notified(jobs) => Notified(Tail(jobs))) /\ TypeOK
  BY DrainedJobs DEF JobBegin, Drained, SocketInv
<1>2. nat' = nat /\ jobs' = Tail(jobs) /\ ((Continue(<<>>) /\ sock' = sock) \/ BeginAttempts(1, <<>>))
  BY DEF JobBegin, Drained
<1>3. sock'.native = sock.native /\ sock'.closeEmitted = sock.closeEmitted /\ UNCHANGED <<seen, got>>
  BY <1>1, <1>2, BeginFields DEF Continue
<1> QED BY <1>1, <1>2, <1>3, IdleStep

LEMMA OverRest ==
    ASSUME SocketInv, EventInv, NEW fn, Running(fn), fn # "dispatch", NEW f \in Frame, NEW g \in Frame,
           stack' = Rest \/ stack' = <<f>> \o Rest \/ stack' = <<g>> \o (<<f>> \o Rest), UNCHANGED <<nat, seen, got>>,
           sock'.native = sock.native, sock'.closeEmitted = sock.closeEmitted, Notified(jobs) => Notified(jobs')
    PROVE  EventInv' /\ Good
<1>1. TypeOK /\ Shaped(stack)
  BY DEF SocketInv
<1>2. Rest \in Seq(Frame) /\ \A h \in On(stack) : h.fn = "dispatch" => h \in On(Rest)
  BY <1>1, KeepsRest
<1>3. Keeps
  <2> DEFINE r == Rest
  <2> HIDE DEF r
  <2>1. r \in Seq(Frame) /\ (\A h \in On(stack) : h.fn = "dispatch" => h \in On(r))
        /\ (stack' = r \/ stack' = <<f>> \o r \/ stack' = <<g>> \o (<<f>> \o r))
    BY <1>2 DEF r
  <2> QED BY <2>1, KeepsOn
<1> QED BY <1>1, <1>3, StillStep

LEMMA LookedEvents ==
    ASSUME SocketInv, EventInv, Looked
    PROVE  EventInv' /\ Good
<1>1. PICK fn \in {"looked", "lookedOne", "lookFailed"} : Running(fn)
  BY DEF Looked
<1>2. TypeOK /\ nat' = nat /\ Top.n \in Nat /\ jobs \in Seq(Job)
  BY <1>1, TopFacts DEF SocketInv, Looked, Frame, TypeOK
<1>3. CASE stack' = Rest /\ sock' = sock /\ UNCHANGED <<seen, got>> /\ (jobs' = jobs \/ \E x \in Job : jobs' = Append(jobs, x))
  BY <1>1, <1>2, <1>3, NotifiedAppend, PopEvents
<1>4. CASE BeginAttempts(Top.n, Rest) /\ jobs' = jobs
  BY <1>1, <1>2, <1>4, BeginFields, CallIs, OverRest
<1>5. J("begin", 1) \in Job /\ J("lookFailed", 1) \in Job
  BY <1>2, NatTypes DEF J, Job
<1> QED BY <1>3, <1>4, <1>5 DEF Looked, Continue

LEMMA AttemptTimerEvents ==
    ASSUME SocketInv, EventInv, AttemptTimer
    PROVE  EventInv' /\ Good
<1>1. stack = <<>> /\ UNCHANGED <<nat, jobs, seen, got>> /\ sock' = [sock EXCEPT !.timer = NoId] /\ sock \in Socket
  BY DEF AttemptTimer, Continue, Tell, SocketInv, TypeOK
<1>2. sock'.native = sock.native /\ sock'.closeEmitted = sock.closeEmitted
  BY <1>1 DEF Socket
<1> QED BY <1>1, <1>2, IdleStep

LEMMA TimedOutEvents ==
    ASSUME SocketInv, EventInv, TimedOut
    PROVE  EventInv' /\ Good
<1>1. TypeOK /\ sock \in Socket /\ Running("timedOut") /\ UNCHANGED <<nat, jobs>>
  BY DEF SocketInv, TypeOK, TimedOut
<1>2. CASE Continue(Rest) /\ sock' = sock
  BY <1>1, <1>2, PopEvents DEF Continue
<1>3. CASE StartNextAttempt(sock, Rest)
  BY <1>1, <1>3, StartFields, CallIs, OverRest
<1> QED BY <1>2, <1>3 DEF TimedOut

\* A connection is created: it has nothing to tell yet.
LEMMA AttemptingEvents ==
    ASSUME SocketInv, EventInv, Attempting
    PROVE  EventInv' /\ Good
<1>1. TypeOK /\ sock \in Socket /\ Running("attempting") /\ stack' = Rest /\ UNCHANGED <<seen, got>> /\ jobs \in Seq(Job)
      /\ nat \in [Id -> ClientConnection] /\ Shaped(stack)
  BY DEF SocketInv, TypeOK, Attempting, Continue
<1>2. Top \in On(stack) /\ Top.fn = "attempting" /\ Top.n \in Id
  BY <1>1, TopFacts DEF SocketInv, Typed, FrameTyped
<1>3. nat[Top.n] = NoConnection
  BY <1>2 DEF SocketInv, Uncreated
<1>4. CASE UNCHANGED <<sock, nat>> /\ (jobs' = jobs \/ jobs' = Append(jobs, J("createFailed", Top.n)))
  <2>1. J("createFailed", Top.n) \in Job
    BY <1>1, <1>2, NatTypes DEF J, Job
  <2> QED BY <1>1, <1>4, <2>1, NotifiedAppend, PopEvents
<1>5. CASE /\ nat' = [nat EXCEPT ![Top.n] = [@ EXCEPT !.life = "open", !.connecting = TRUE]] /\ jobs' = jobs
           /\ sock' = [sock EXCEPT !.timer = IF sock.multiple /\ sock.next < sock.targets THEN Top.n ELSE @]
  <2>1. sock'.native = sock.native /\ sock'.closeEmitted = sock.closeEmitted
    BY <1>1, <1>5 DEF Socket
  <2> DEFINE o == Opened(NoConnection)
  <2>2. \A k \in Id : nat'[k] = IF k = Top.n THEN o ELSE nat[k]
    BY <1>1, <1>2, <1>3, <1>5 DEF Opened
  <2>3. /\ o.events = <<>> /\ ~o.peerEnded /\ ~o.socket /\ ~o.closing
        /\ NoConnection.events = <<>> /\ NoConnection.peerEnded = FALSE
    BY DEF Opened, NoConnection
  <2> HIDE DEF o
  <2>4. Queue(o)
    BY <2>3, OnNone, ListsInTurn DEF Queue, Early
  <2>5. \A k \in Id : nat'[k].events = nat[k].events /\ nat'[k].peerEnded = nat[k].peerEnded
    <3> SUFFICES ASSUME NEW k \in Id PROVE nat'[k].events = nat[k].events /\ nat'[k].peerEnded = nat[k].peerEnded
      OBVIOUS
    <3>1. CASE k = Top.n
      <4>1. nat'[k] = o /\ nat[k] = NoConnection
        BY <1>3, <2>2, <3>1
      <4>2. o.peerEnded = FALSE
        BY DEF o, Opened, NoConnection
      <4> QED BY <2>3, <4>1, <4>2
    <3>2. CASE k # Top.n
      BY <2>2, <3>2
    <3> QED BY <3>1, <3>2
  <2>6. Queues'
    BY <2>2, <2>4 DEF EventInv, Queues
  <2>7. /\ seen \in [{"connect", "end", "error", "close"} -> Nat] /\ sock.native \in Id \cup {NoId} /\ NoId \notin Id
    BY <1>1, SeenTypes
  <2>8. Events' = Events
    BY <2>1, <2>5, <2>7 DEF Events
  <2>9. Counted'
    BY <1>1, <2>1, <2>5, <2>7 DEF EventInv, Counted
  <2>10. Keeps
    BY <1>1, KeepsRest DEF Keeps
  <2>11. Awake'
    BY <1>5, <2>1, <2>8, <2>10, WokenKept DEF EventInv, Awake
  <2>12. Good
    <3>1. seen["connect"] <= 1 /\ seen["end"] <= 1 /\ seen["close"] <= 1
      BY <2>7 DEF EventInv, Counted
    <3>2. ~(seen'["end"] > seen["end"])
      BY <1>1, <2>7
    <3> QED BY <1>1, <2>5, <3>1, <3>2 DEF Good, Ends, EndsLate, Orders
  <2> QED BY <2>6, <2>9, <2>11, <2>12 DEF EventInv
<1> QED BY <1>4, <1>5 DEF Attempting

----------------
(* destroy(), and connections that leave the loop *)

LEMMA SameQueueTrans ==
    ASSUME NEW c, NEW d, NEW e, SameQueue(c, d), SameQueue(d, e)
    PROVE  SameQueue(c, e)
BY DEF SameQueue

LEMMA LoopCloseSame ==
    ASSUME NEW c \in ClientConnection
    PROVE  SameQueue(c, LoopClose(c)) /\ LoopClose(c) \in ClientConnection
BY DEF SameQueue, LoopClose, ClientConnection

LEMMA NetDestroySame ==
    ASSUME NEW c \in ClientConnection
    PROVE  SameQueue(c, NetDestroy(c)) /\ NetDestroy(c) \in ClientConnection
<1> DEFINE d == [c EXCEPT !.closing = TRUE]
           e == LoopClose(d)
<1>1. e \in ClientConnection /\ e.events = c.events /\ e.peerEnded = c.peerEnded /\ e.socket = c.socket /\ e.connecting = c.connecting
      /\ e.life = "closed"
  BY DEF LoopClose, ClientConnection
<1>2. NetDestroy(c) = c \/ NetDestroy(c) = e
  BY DEF NetDestroy
<1> HIDE DEF e
<1> QED BY <1>1, <1>2, SameQueueRefl DEF SameQueue

LEMMA DestroyAllSame ==
    ASSUME NEW N \in [Id -> ClientConnection], NEW K
    PROVE  LET M == NetDestroyAll(N, K) IN M \in [Id -> ClientConnection] /\ \A k \in Id : SameQueue(N[k], M[k])
BY NetDestroySame, SameQueueRefl DEF NetDestroyAll

LEMMA DestroyingEvents ==
    ASSUME SocketInv, EventInv, ~sock.destroyed, NEW error \in BOOLEAN, NEW rest \in Seq(Frame),
           \A f \in On(stack) : f.fn = "dispatch" => f \in On(rest), NEW queue \in Seq(Job), Notified(jobs) => Notified(queue),
           Destroying(error, queue, rest)
    PROVE  EventInv' /\ Good
<1>1. TypeOK /\ sock \in Socket /\ nat \in [Id -> ClientConnection] /\ ~sock.closeEmitted
  BY DEF SocketInv, TypeOK, SockInv
<1>2. sock'.native = sock.native /\ sock'.closeEmitted = sock.closeEmitted
  BY <1>1, AbandonedFacts DEF Destroying, Abandoned, Socket
<1> DEFINE once == NetDestroyAll(nat, sock.attempts \ settled)
           twice == NetDestroyAll(once, {sock.native})
<1>3. once \in [Id -> ClientConnection] /\ \A k \in Id : SameQueue(nat[k], once[k])
  BY <1>1, DestroyAllSame
<1>4. nat' = once \/ nat' = twice
  BY DEF Destroying, DestroyRest
<1> HIDE DEF once
<1>5. \A k \in Id : SameQueue(once[k], twice[k])
  BY <1>3, DestroyAllSame
<1> HIDE DEF twice
<1>6. \A k \in Id : SameQueue(nat[k], nat'[k])
  BY <1>3, <1>4, <1>5, SameQueueTrans
<1>7. F("destroying", 0) \in Frame /\ J("close", 0) \in Job
  BY <1>1, FIs, NatTypes DEF J, Job
<1>8. got' = got /\ (seen' = seen \/ seen' = [seen EXCEPT !["error"] = @ + 1])
  BY DEF Destroying, Emit, Continue
<1>9. stack' = rest \/ stack' = <<Call>> \o (<<F("destroying", 0)>> \o rest)
  BY DEF Destroying, Emit, Continue
<1>10. Keeps
  BY <1>7, <1>9, CallIs, KeepsOn
<1>11. jobs' = queue \/ jobs' = Append(queue, J("close", 0))
  BY DEF Destroying, DestroyRest
<1>12. Notified(jobs) => Notified(jobs')
  BY <1>7, <1>11, NotifiedAppend
<1> QED BY <1>1, <1>2, <1>6, <1>8, <1>10, <1>12, WokenKept, SilentStep

LEMMA DestroyEvents ==
    ASSUME SocketInv, EventInv, NEW error \in BOOLEAN, Destroy(error)
    PROVE  EventInv' /\ Good
<1>1. stack \in Seq(Frame) /\ jobs \in Seq(Job) /\ ~sock.destroyed /\ Destroying(error, jobs, stack)
  BY DEF SocketInv, TypeOK, Destroy
<1> QED BY <1>1, DestroyingEvents

LEMMA DestroyOver ==
    ASSUME SocketInv, EventInv, ~sock.destroyed, NEW error \in BOOLEAN, NEW fn, Running(fn), fn # "dispatch",
           Destroying(error, jobs, Rest)
    PROVE  EventInv' /\ Good
<1>1. TypeOK /\ Shaped(stack) /\ jobs \in Seq(Job)
  BY DEF SocketInv, TypeOK
<1> QED BY <1>1, KeepsRest, DestroyingEvents

LEMMA FinishedEvents ==
    ASSUME SocketInv, EventInv, Finished
    PROVE  EventInv' /\ Good
<1>1. CASE ~sock.destroyed /\ Destroying(FALSE, jobs, Rest)
  BY <1>1, DestroyOver DEF Finished
<1>2. CASE Continue(Rest) /\ UNCHANGED <<sock, nat, jobs>>
  BY <1>2, PopEvents DEF Finished, Continue
<1> QED BY <1>1, <1>2 DEF Finished

LEMMA FailedEvents ==
    ASSUME SocketInv, EventInv, Failed
    PROVE  EventInv' /\ Good
<1>1. TypeOK /\ sock \in Socket /\ Running("failed")
  BY DEF SocketInv, TypeOK, Failed
<1>2. CASE Continue(Rest) /\ UNCHANGED <<sock, nat, jobs>>
  BY <1>1, <1>2, PopEvents DEF Continue
<1>3. CASE StartNextAttempt(sock, Rest) /\ UNCHANGED <<nat, jobs>>
  BY <1>1, <1>3, StartFields, CallIs, OverRest
<1>4. CASE ~Retired(Top.gen) /\ Destroying(TRUE, jobs, Rest)
  <2>1. ~sock.destroyed
    BY <1>4 DEF Retired, SocketInv, SockInv
  <2> QED BY <1>1, <1>4, <2>1, DestroyOver
<1> QED BY <1>2, <1>3, <1>4 DEF Failed

LEMMA JobLookFailedEvents ==
    ASSUME SocketInv, EventInv, JobLookFailed
    PROVE  EventInv' /\ Good
<1>1. stack = <<>> /\ jobs # <<>> /\ (Notified(jobs) => Notified(Tail(jobs))) /\ jobs \in Seq(Job) /\ Tail(jobs) \in Seq(Job)
  BY DrainedJobs DEF JobLookFailed, SocketInv, TypeOK
<1>2. CASE Continue(<<>>) /\ jobs' = Tail(jobs) /\ UNCHANGED <<sock, nat>>
  BY <1>1, <1>2, IdleStep DEF Continue
<1>3. CASE ~Retired(Head(jobs).gen) /\ Destroying(TRUE, Tail(jobs), <<>>)
  <2>1. ~sock.destroyed
    BY <1>3 DEF Retired, SocketInv, SockInv
  <2>2. <<>> \in Seq(Frame) /\ On(stack) = {}
    BY <1>1, ShapeNone
  <2> QED BY <1>1, <1>3, <2>1, <2>2, DestroyingEvents
<1> QED BY <1>2, <1>3 DEF JobLookFailed

LEMMA LookupDoneEvents ==
    ASSUME SocketInv, EventInv, NEW l \in lookups, NEW fails \in BOOLEAN, LookupDone(l, fails)
    PROVE  EventInv' /\ Good
<1>1. stack = <<>> /\ jobs \in Seq(Job)
  BY DEF LookupDone, MayServe, SocketInv, TypeOK
<1>2. CASE UNCHANGED <<sock, nat, jobs, seen, got>>
  BY <1>1, <1>2, IdleStep
<1>3. CASE sock.connecting /\ Destroying(TRUE, jobs, <<>>)
  <2>1. ~sock.destroyed
    BY <1>3 DEF SocketInv, SockInv
  <2>2. <<>> \in Seq(Frame) /\ On(stack) = {}
    BY <1>1, ShapeNone
  <2> QED BY <1>1, <1>3, <2>1, <2>2, DestroyingEvents
<1> QED BY <1>2, <1>3 DEF LookupDone, Continue, Tell

LEMMA DestroyingRestEvents ==
    ASSUME SocketInv, EventInv, DestroyingRest
    PROVE  EventInv' /\ Good
<1>1. TypeOK /\ Shaped(stack) /\ nat \in [Id -> ClientConnection] /\ jobs \in Seq(Job) /\ Running("destroying")
  BY DEF SocketInv, TypeOK, DestroyingRest
<1>2. /\ UNCHANGED <<sock, seen, got>> /\ stack' = Rest /\ nat' = NetDestroyAll(nat, {sock.native})
      /\ jobs' = Append(jobs, J("close", 0))
  BY DEF DestroyingRest, DestroyRest, Continue
<1>3. \A k \in Id : SameQueue(nat[k], nat'[k])
  BY <1>1, <1>2, DestroyAllSame
<1>4. Keeps
  BY <1>1, <1>2, KeepsRest DEF Keeps
<1>5. Notified(jobs) => Notified(jobs')
  <2>1. J("close", 0) \in Job
    BY <1>1, NatTypes DEF J, Job
  <2> QED BY <1>1, <1>2, <2>1, NotifiedAppend
<1> QED BY <1>1, <1>2, <1>3, <1>4, <1>5, WokenKept, SilentStep

LEMMA ReadyRestEvents ==
    ASSUME SocketInv, EventInv, ReadyRest
    PROVE  EventInv' /\ Good
<1>1. TypeOK /\ Shaped(stack) /\ nat \in [Id -> ClientConnection] /\ Running("ready")
  BY DEF SocketInv, TypeOK, ReadyRest
<1>2. UNCHANGED <<sock, jobs, seen, got>> /\ stack' = Rest
  BY DEF ReadyRest, Continue
<1>3. \A k \in Id : nat'[k] \in {nat[k], LoopClose(nat[k])}
  BY <1>1 DEF ReadyRest
<1>4. \A k \in Id : SameQueue(nat[k], nat'[k])
  BY <1>1, <1>3, LoopCloseSame, SameQueueRefl
<1>5. Keeps
  BY <1>1, <1>2, KeepsRest DEF Keeps
<1> QED BY <1>1, <1>2, <1>4, <1>5, WokenKept, SilentStep

LEMMA PeerSendEvents ==
    ASSUME SocketInv, EventInv, NEW n \in Id, PeerSend(n)
    PROVE  EventInv' /\ Good
<1>1. TypeOK /\ nat \in [Id -> ClientConnection]
  BY DEF SocketInv, TypeOK
<1>2. UNCHANGED <<sock, jobs, stack, seen, got>>
  BY DEF PeerSend
<1>3. \A k \in Id : \E r : nat'[k] \in {nat[k], RxOf(nat[k], r)}
  BY <1>1 DEF PeerSend, RxOf
<1>4. \A c \in ClientConnection : \A r : SameQueue(c, RxOf(c, r))
  BY DEF SameQueue, RxOf, ClientConnection
<1>5. \A k \in Id : SameQueue(nat[k], nat'[k])
  BY <1>1, <1>3, <1>4, SameQueueRefl
<1>6. Woken => Woken'
  BY <1>2 DEF Woken, Holds
<1> QED BY <1>1, <1>2, <1>5, <1>6, SilentStep

----------------
(* Steps that queue events *)

LEMMA NativeFine ==
    ASSUME SocketInv, EventInv, sock.native # NoId
    PROVE  LET c == nat[sock.native] IN
           /\ sock.native \in Id /\ c \in ClientConnection /\ Fine(c) /\ c.socket /\ ~c.connecting /\ Queue(c) /\ EventsOK(c)
<1>1. sock.native \in Id /\ nat[sock.native] \in ClientConnection /\ nat[sock.native].socket /\ EventsOK(nat[sock.native])
  BY NativeIs
<1>2. Queue(nat[sock.native])
  BY <1>1 DEF EventInv, Queues
<1> QED BY <1>1, <1>2 DEF Queue, Early, Fine, EventsOK

LEMMA GrowStep ==
    ASSUME SocketInv, EventInv, sock.native # NoId, ~sock.destroyed, NEW d, Grows(nat[sock.native], d), d.socket, ~d.connecting,
           nat' = [nat EXCEPT ![sock.native] = d], sock'.native = sock.native, sock'.closeEmitted = sock.closeEmitted,
           UNCHANGED <<seen, got>>, d.events # <<>> => Woken',
           d.peerEnded /\ ~nat[sock.native].peerEnded /\ ~nat[sock.native].paused => \A i \in DOMAIN d.rx : d.rx[i] = Fin
    PROVE  EventInv' /\ Good
<1>1. PICK n, c : n = sock.native /\ c = nat[n]
  OBVIOUS
<1>2. n \in Id /\ Fine(c) /\ nat \in [Id -> ClientConnection] /\ TypeOK
  BY <1>1, NativeFine DEF SocketInv, TypeOK
<1>3. Fine(d) /\ (c.peerEnded => d.peerEnded) /\ (c.peerEnded => Streaming(d.events) \subseteq Streaming(c.events))
  BY <1>1, <1>2 DEF Grows
<1>4. nat'[n] = d /\ \A k \in Id : k # n => nat'[k] = nat[k]
  BY <1>1, <1>2
<1>5. /\ seen \in [{"connect", "end", "error", "close"} -> Nat] /\ NoId \notin Id /\ ~sock.closeEmitted
  BY <1>2, SeenTypes DEF SocketInv, SockInv
<1>6. Queue(d)
  BY <1>3 DEF Queue, Early, Fine
<1>7. Queues'
  BY <1>4, <1>6 DEF EventInv, Queues
<1>8. Counted'
  BY <1>1, <1>3, <1>4, <1>5 DEF EventInv, Counted
<1>9. Awake'
  BY <1>1, <1>4, <1>5 DEF Awake, Events
<1>10. Ends
  BY <1>1, <1>4 DEF Ends
<1>11. EndsLate /\ Orders
  <2>1. seen["connect"] <= 1 /\ seen["end"] <= 1 /\ seen["close"] <= 1 /\ seen["end"] \in Nat
    BY <1>5 DEF EventInv, Counted
  <2> QED BY <2>1 DEF EndsLate, Orders
<1> QED BY <1>7, <1>8, <1>9, <1>10, <1>11 DEF EventInv, Good

\* notifySoon(): the microtask is queued, and none that emits 'close' is before it.
LEMMA NotifyWakes ==
    ASSUME SocketInv, ~sock.destroyed, NEW n \in Nat, NEW c, jobs' = jobs \o NotifySoon(c, n), c.events # <<>>
    PROVE  Woken'
<1>1. TypeOK /\ jobs \in Seq(Job) /\ \A j \in On(jobs) : j.kind # "close"
  BY DEF SocketInv, TypeOK, SockInv
<1>2. J("dispatch", n) \in Job /\ J("dispatch", n).kind = "dispatch" /\ jobs' = jobs \o <<J("dispatch", n)>>
  BY <1>1, NatTypes DEF J, Job, NotifySoon
<1> QED BY <1>1, <1>2, NotifiedLast DEF Woken

LEMMA SentGrows ==
    ASSUME NEW c \in ClientConnection, ~c.closing, NEW d \in FlushWrites(c)
    PROVE  Grows(c, Sent(d)) /\ Sent(d).peerEnded = c.peerEnded /\ Sent(d).events = d.events
           /\ Sent(d).socket = c.socket /\ Sent(d).connecting = d.connecting
<1>1. Grows(c, d) /\ d.peerEnded = c.peerEnded
  BY FlushWritesGrow
<1>2. d \in ClientConnection /\ d.socket = c.socket
  BY FlushWritesMoves DEF Moves
<1>3. /\ Sent(d).events = d.events /\ Sent(d).peerEnded = d.peerEnded /\ Sent(d).closing = d.closing /\ Sent(d).socket = d.socket
      /\ Sent(d).connecting = d.connecting
  BY <1>2 DEF Sent, LoopClose, ClientConnection
<1>4. Grows(d, Sent(d))
  BY <1>3 DEF Grows, Fine
<1> QED BY <1>1, <1>2, <1>3, <1>4, GrowsTrans

\* Writing and ending start no connect.
LEMMA FlushConnecting ==
    ASSUME NEW c \in ClientConnection, NEW d \in FlushWrites(c) \cup {NetEnd(c)}
    PROVE  d.connecting = c.connecting
<1>1. \A e \in ClientConnection : FinishWriteSideIfReady(e).connecting = e.connecting
  BY DEF FinishWriteSideIfReady, ClientConnection
<1>2. CASE d = NetEnd(c)
  <2>1. EndOf(c) \in ClientConnection /\ EndOf(c).connecting = c.connecting
    BY DEF EndOf, ClientConnection
  <2> QED BY <1>1, <1>2, <2>1 DEF NetEnd, EndOf
<1>3. CASE d = Fail(c)
  BY <1>3 DEF Fail, ClientConnection
<1>4. ASSUME NEW k \in 0 .. Len(c.out), d = FlushK(c, k) PROVE d.connecting = c.connecting
  <2>1. \A e : DOMAIN e = DOMAIN c /\ e.connecting = c.connecting => FinishWriteSideIfReady(e).connecting = c.connecting
    <3> SUFFICES ASSUME NEW e, DOMAIN e = DOMAIN c, e.connecting = c.connecting
                 PROVE  FinishWriteSideIfReady(e).connecting = c.connecting
      OBVIOUS
    <3> QED BY DEF FinishWriteSideIfReady, ClientConnection
  <2> DEFINE taken == [c EXCEPT !.sent = @ \o SubSeq(c.out, 1, k), !.out = SubSeq(@, k + 1, Len(@))]
             told == [taken EXCEPT !.events = Append(@, "drain")]
  <2>2. d = taken \/ d = FinishWriteSideIfReady(taken) \/ d = FinishWriteSideIfReady(told)
    BY <1>4 DEF FlushK
  <2>3. DOMAIN taken = DOMAIN c /\ taken.connecting = c.connecting /\ DOMAIN told = DOMAIN c /\ told.connecting = c.connecting
    BY DEF ClientConnection
  <2> HIDE DEF taken, told
  <2> QED BY <2>1, <2>2, <2>3
<1> QED BY <1>2, <1>3, <1>4 DEF FlushWrites, Failures

LEMMA WriteEvents ==
    ASSUME SocketInv, EventInv, Write
    PROVE  EventInv' /\ Good
<1>1. /\ TypeOK /\ sock \in Socket /\ nat \in [Id -> ClientConnection] /\ UNCHANGED <<stack, seen, got>> /\ ~sock.destroyed
      /\ made.write \in Nat
  BY NatTypes DEF SocketInv, TypeOK, Write
<1>2. Keeps
  BY <1>1 DEF Keeps
<1>3. CASE sock.native = NoId
  <2>1. sock'.native = sock.native /\ sock'.closeEmitted = sock.closeEmitted /\ UNCHANGED <<nat, jobs>>
    BY <1>1, <1>3 DEF Write, Socket
  <2> QED BY <1>1, <1>2, <2>1, StillStep
<1>4. CASE sock.native # NoId
  <2>1. PICK n, c : n = sock.native /\ c = nat[n]
    OBVIOUS
  <2>2. n \in Id /\ c \in ClientConnection /\ c.socket /\ ~c.connecting /\ n \in Nat
    BY <1>1, <1>4, <2>1, NativeFine, NatTypes
  <2> DEFINE o == Append(c.out, made.write + 1)
             b == OutOf(c, o)
  <2>3. ~c.closing /\ sock' = sock
    BY <1>4, <2>1 DEF Write
  <2>4. PICK d \in FlushWrites(b) : nat' = [nat EXCEPT ![n] = Sent(d)] /\ jobs' = jobs \o NotifySoon(d, n)
    BY <1>4, <2>1 DEF Write, NetWrite, Sent, OutOf
  <2>5. o \in Seq(Nat)
    BY <1>1, <2>2, MovesTypes
  <2> HIDE DEF o
  <2>6. /\ b \in ClientConnection /\ b.events = c.events /\ b.closing = c.closing /\ b.peerEnded = c.peerEnded /\ b.socket = c.socket
        /\ b.connecting = c.connecting
    BY <2>2, <2>5 DEF OutOf, ClientConnection
  <2>7. Grows(c, b)
    BY <2>6 DEF Grows, Fine
  <2> HIDE DEF b
  <2>8. /\ Grows(b, Sent(d)) /\ Sent(d).peerEnded = b.peerEnded /\ Sent(d).events = d.events
        /\ Sent(d).socket = b.socket /\ Sent(d).connecting = d.connecting
    BY <2>3, <2>4, <2>6, SentGrows
  <2>9. d.connecting = b.connecting
    BY <2>4, <2>6, FlushConnecting
  <2>10. Grows(c, Sent(d))
    BY <2>7, <2>8, GrowsTrans
  <2>11. Sent(d).events # <<>> => Woken'
    BY <1>1, <2>2, <2>4, <2>8, NotifyWakes
  <2>12. Sent(d).peerEnded = c.peerEnded /\ Sent(d).socket /\ ~Sent(d).connecting
    BY <2>2, <2>6, <2>8, <2>9
  <2>13. PICK e : e = Sent(d)
    OBVIOUS
  <2> QED BY <1>1, <1>4, <2>1, <2>3, <2>4, <2>10, <2>11, <2>12, <2>13, GrowStep
<1> QED BY <1>3, <1>4

LEMMA EndSocketEvents ==
    ASSUME SocketInv, EventInv, NEW s \in Socket, SameFields(sock, s), EndSocket(s), Keeps, UNCHANGED <<seen, got>>
    PROVE  EventInv' /\ Good
<1>1. TypeOK /\ nat \in [Id -> ClientConnection] /\ jobs \in Seq(Job)
  BY DEF SocketInv, TypeOK
<1>2. s.native = sock.native /\ s.connecting = sock.connecting /\ s.destroyed = sock.destroyed /\ s.closeEmitted = sock.closeEmitted
  BY DEF SameFields
<1>3. CASE sock.native = NoId \/ sock.destroyed
  <2>1. sock' \in {s, [s EXCEPT !.end = TRUE]} /\ nat' = nat /\ (jobs' = jobs \/ jobs' = Append(jobs, J("finish", 0)))
    <3>1. s.connecting \in BOOLEAN /\ s.destroyed \in BOOLEAN
      BY DEF Socket
    <3> QED BY <1>2, <1>3, <3>1 DEF EndSocket
  <2>2. sock'.native = sock.native /\ sock'.closeEmitted = sock.closeEmitted
    BY <1>2, <2>1 DEF Socket
  <2>3. J("finish", 0) \in Job
    BY <1>1, NatTypes DEF J, Job
  <2>4. Notified(jobs) => Notified(jobs')
    BY <1>1, <2>1, <2>3, NotifiedAppend
  <2> QED BY <1>1, <2>1, <2>2, <2>4, StillStep
<1>4. CASE sock.native # NoId /\ ~sock.destroyed
  <2>1. PICK n, c, d : n = sock.native /\ c = nat[n] /\ d = NetEnd(c)
    OBVIOUS
  <2>2. n \in Id /\ c \in ClientConnection /\ c.socket /\ ~c.connecting /\ n \in Nat
    BY <1>1, <1>4, <2>1, NativeFine, NatTypes
  <2>3. /\ sock' = [s EXCEPT !.ready = "readOnly"] /\ nat' = [nat EXCEPT ![n] = d]
        /\ jobs' = IF d = c THEN jobs ELSE jobs \o NotifySoon(d, n)
    BY <1>2, <1>4, <2>1 DEF EndSocket
  <2>4. sock'.native = sock.native /\ sock'.closeEmitted = sock.closeEmitted
    BY <1>2, <2>3 DEF Socket
  <2>5. Grows(c, d) /\ d.peerEnded = c.peerEnded /\ d.connecting = c.connecting /\ d.socket = c.socket
    BY <2>1, <2>2, NetEndGrows, NetEndFacts, FlushConnecting
  <2>6. ASSUME d.events # <<>> PROVE Woken'
    <3>1. CASE d = c
      <4>1. Woken
        BY <1>4, <2>1, <2>6, <3>1 DEF EventInv, Awake, Events
      <4> QED BY <2>3, <3>1, <4>1, WokenKept
    <3>2. CASE d # c
      BY <1>4, <2>2, <2>3, <2>6, <3>2, NotifyWakes
    <3> QED BY <3>1, <3>2
  <2> QED BY <1>4, <2>1, <2>2, <2>3, <2>4, <2>5, <2>6, GrowStep
<1> QED BY <1>3, <1>4

LEMMA EndEvents ==
    ASSUME SocketInv, EventInv, End
    PROVE  EventInv' /\ Good
<1>1. sock \in Socket /\ SameFields(sock, sock) /\ Keeps
  BY DEF SocketInv, TypeOK, SameFields, Keeps, End
<1> QED BY <1>1, EndSocketEvents DEF End

LEMMA DestroySoonEvents ==
    ASSUME SocketInv, EventInv, DestroySoon
    PROVE  EventInv' /\ Good
<1> DEFINE s == [sock EXCEPT !.destroyAfterFinish = TRUE]
<1>1. s \in Socket /\ SameFields(sock, s)
  BY DEF SocketInv, TypeOK, SameFields, Socket
<1>2. Keeps /\ EndSocket(s) /\ UNCHANGED <<seen, got>>
  BY DEF Keeps, DestroySoon
<1> HIDE DEF s
<1> QED BY <1>1, <1>2, EndSocketEvents

LEMMA EndedEvents ==
    ASSUME SocketInv, EventInv, Ended
    PROVE  EventInv' /\ Good
<1>1. TypeOK /\ Shaped(stack) /\ sock \in Socket /\ SameFields(sock, sock) /\ Running("ended") /\ stack' = Rest /\ UNCHANGED <<seen, got>>
  BY DEF SocketInv, TypeOK, SameFields, Ended, Continue
<1>2. Keeps
  BY <1>1, KeepsRest DEF Keeps
<1>3. CASE EndSocket(sock)
  BY <1>1, <1>2, <1>3, EndSocketEvents
<1>4. CASE UNCHANGED <<sock, nat, jobs>>
  BY <1>1, <1>2, <1>4, StillStep
<1> QED BY <1>3, <1>4 DEF Ended

LEMMA WonEvents ==
    ASSUME SocketInv, EventInv, Won
    PROVE  EventInv' /\ Good
<1>1. TypeOK /\ Shaped(stack) /\ Running("won") /\ UNCHANGED <<seen, got>> /\ (stack' = Rest \/ stack' = <<F("dispatch", 0)>> \o Rest)
  BY DEF SocketInv, Won, Continue
<1>2. Keeps
  BY <1>1, WonFrames DEF Keeps
<1> DEFINE s == [sock EXCEPT !.end = FALSE]
<1>3. s \in Socket /\ SameFields(sock, s)
  BY DEF SocketInv, TypeOK, SameFields, Socket
<1>4. EndSocket(s) \/ UNCHANGED <<sock, nat, jobs>>
  BY DEF Won
<1> HIDE DEF s
<1>5. CASE EndSocket(s)
  BY <1>1, <1>2, <1>3, <1>5, EndSocketEvents
<1>6. CASE UNCHANGED <<sock, nat, jobs>>
  BY <1>1, <1>2, <1>6, StillStep
<1> QED BY <1>4, <1>5, <1>6

----------------
(* Steps that take an event *)

LEMMA TailInTurn ==
    ASSUME NEW s \in Seq(Code), s # <<>>, InTurn(s)
    PROVE  /\ InTurn(Tail(s)) /\ On(s) = {Head(s)} \cup On(Tail(s))
           /\ Head(s) = "close" => Tail(s) = <<>>
           /\ Head(s) = "end" => Streaming(Tail(s)) = {}
<1>1. /\ Len(s) \in Nat \ {0} /\ Head(s) = s[1] /\ Tail(s) \in Seq(Code) /\ Len(Tail(s)) = Len(s) - 1
      /\ \A j \in 1 .. Len(s) - 1 : Tail(s)[j] = s[j + 1]
  BY HeadTailProperties, EmptySeq
<1>2. On(s) = {Head(s)} \cup On(Tail(s))
  BY OnPop
<1>3. InTurn(Tail(s))
  <2> SUFFICES ASSUME NEW i \in 1 .. Len(s) - 1, NEW j \in 1 .. Len(s) - 1, i < j
               PROVE  Tail(s)[i] # "close" /\ (Tail(s)[i] = "end" => Tail(s)[j] \notin {"end", "data"})
    BY <1>1 DEF InTurn
  <2>1. i + 1 \in 1 .. Len(s) /\ j + 1 \in 1 .. Len(s) /\ i + 1 < j + 1
    BY <1>1
  <2> QED BY <1>1, <2>1 DEF InTurn
<1>4. ASSUME Head(s) = "close" PROVE Tail(s) = <<>>
  <2>1. ~(1 \in 1 .. Len(s) /\ 2 \in 1 .. Len(s) /\ 1 < 2)
    BY <1>1, <1>4 DEF InTurn
  <2>2. Len(Tail(s)) = 0
    BY <1>1, <2>1
  <2> QED BY <1>1, <2>2, EmptySeq
<1>5. ASSUME Head(s) = "end", NEW j \in 1 .. Len(s) - 1 PROVE Tail(s)[j] \notin {"end", "data"}
  <2>1. 1 \in 1 .. Len(s) /\ j + 1 \in 1 .. Len(s) /\ 1 < j + 1
    BY <1>1
  <2> QED BY <1>1, <1>5, <2>1 DEF InTurn
<1>6. Head(s) = "end" => Streaming(Tail(s)) = {}
  BY <1>1, <1>5 DEF Streaming, On
<1> QED BY <1>2, <1>3, <1>4, <1>6

\* The event loop takes the first event of the socket's connection.
LEMMA TakeStep ==
    ASSUME SocketInv, EventInv, NEW e, Pending(e), NEW d, d.events = Tail(nat[sock.native].events), d.socket, ~d.connecting,
           d.peerEnded = nat[sock.native].peerEnded, nat' = [nat EXCEPT ![sock.native] = d], sock'.native = sock.native, Keeps
    PROVE  /\ Queues' /\ Ends /\ Woken' /\ ~sock.closeEmitted /\ sock.native # NoId
           /\ seen["close"] = 0 /\ seen["connect"] = 1 /\ seen["end"] \in {0, 1}
           /\ seen["end"] = 1 => nat'[sock.native].peerEnded /\ Streaming(Events') = {}
           /\ Events' = nat'[sock.native].events
           /\ e = "close" => Events' = <<>>
           /\ e = "end" => Streaming(Events') = {} /\ nat'[sock.native].peerEnded
           /\ e \in {"end", "data"} => seen["end"] = 0
<1>1. PICK n, c : n = sock.native /\ c = nat[n]
  OBVIOUS
<1>2. n # NoId /\ c.events # <<>> /\ Head(c.events) = e /\ e \in On(c.events) /\ Running("dispatch") /\ TypeOK /\ Shaped(stack)
  BY <1>1, PendingFacts DEF SocketInv
<1>3. n \in Id /\ c \in ClientConnection /\ Queue(c) /\ nat \in [Id -> ClientConnection] /\ c.events \in Seq(Code)
  BY <1>1, <1>2, NativeFine, MovesTypes DEF SocketInv, TypeOK
<1>4. nat'[n] = d /\ \A k \in Id : k # n => nat'[k] = nat[k]
  BY <1>1, <1>3
<1>5. /\ InTurn(Tail(c.events)) /\ On(c.events) = {Head(c.events)} \cup On(Tail(c.events))
      /\ Head(c.events) = "close" => Tail(c.events) = <<>>
      /\ Head(c.events) = "end" => Streaming(Tail(c.events)) = {}
  BY <1>2, <1>3, TailInTurn DEF Queue
<1>6. Queue(d)
  BY <1>1, <1>3, <1>5 DEF Queue, Early
<1>7. Queues'
  BY <1>4, <1>6 DEF EventInv, Queues
<1>8. Events' = d.events /\ Events = c.events
  BY <1>1, <1>2, <1>4 DEF Events
<1>9. Ends
  BY <1>1, <1>4 DEF Ends
<1>10. Woken'
  <2>1. Top \in On(stack) /\ Top.fn = "dispatch"
    BY <1>2, TopFacts
  <2> QED BY <2>1 DEF Keeps, Woken, Holds
<1>11. ~sock.closeEmitted /\ Counted
  BY <1>2, <1>8 DEF EventInv, Awake
<1>12. Streaming(d.events) \subseteq Streaming(c.events) /\ (e \in {"end", "data"} => Streaming(c.events) # {})
  BY <1>1, <1>2, <1>5 DEF Streaming
<1>13. seen["end"] = 1 => c.peerEnded /\ Streaming(c.events) = {}
  BY <1>1, <1>11 DEF Counted
<1>14. e = "end" => c.peerEnded
  BY <1>2, <1>3 DEF Queue
<1> QED BY <1>1, <1>2, <1>4, <1>5, <1>7, <1>8, <1>9, <1>10, <1>11, <1>12, <1>13, <1>14 DEF Counted

\* An event that is neither 'end' nor 'close'.
LEMMA PlainTake ==
    ASSUME SocketInv, EventInv, NEW e, Pending(e), NEW d, d.events = Tail(nat[sock.native].events), d.socket, ~d.connecting,
           d.peerEnded = nat[sock.native].peerEnded, nat' = [nat EXCEPT ![sock.native] = d], sock'.native = sock.native, Keeps,
           sock'.closeEmitted = sock.closeEmitted, seen' = seen \/ seen' = [seen EXCEPT !["error"] = @ + 1],
           got' = got \/ e = "data"
    PROVE  EventInv' /\ Good
<1>1. /\ Queues' /\ Ends /\ Woken' /\ ~sock.closeEmitted /\ sock.native # NoId
      /\ seen["close"] = 0 /\ seen["connect"] = 1 /\ seen["end"] \in {0, 1}
      /\ seen["end"] = 1 => nat'[sock.native].peerEnded /\ Streaming(Events') = {}
      /\ Events' = nat'[sock.native].events
      /\ e \in {"end", "data"} => seen["end"] = 0
  BY TakeStep
<1>2. seen \in [{"connect", "end", "error", "close"} -> Nat]
  BY DEF SocketInv, TypeOK
<1>3. seen'["connect"] = 1 /\ seen'["end"] = seen["end"] /\ seen'["close"] = 0
  BY <1>1, <1>2
<1>4. Counted' /\ Awake'
  BY <1>1, <1>3 DEF Counted, Awake
<1>5. EndsLate /\ Orders
  BY <1>1, <1>3 DEF EndsLate, Orders
<1> QED BY <1>1, <1>4, <1>5 DEF EventInv, Good

LEMMA PopOfTake ==
    ASSUME SocketInv, EventInv, NEW e, Pending(e)
    PROVE  LET c == nat[sock.native] IN
           /\ PopOf(c).events = Tail(c.events) /\ PopOf(c).socket /\ ~PopOf(c).connecting /\ PopOf(c).peerEnded = c.peerEnded
           /\ PopEvent => nat' = [nat EXCEPT ![sock.native] = PopOf(c)]
<1>1. sock.native # NoId /\ nat[sock.native].events # <<>> /\ (PopEvent <=> nat' = [nat EXCEPT ![sock.native] = PopOf(nat[sock.native])])
  BY PendingFacts
<1>2. nat[sock.native] \in ClientConnection /\ nat[sock.native].socket /\ ~nat[sock.native].connecting
  BY <1>1, NativeFine
<1> QED BY <1>1, <1>2, PopOfFacts

LEMMA OverStack ==
    ASSUME SocketInv, NEW f \in Frame, stack' = stack \/ stack' = <<Call>> \o stack \/ stack' = <<Call>> \o (<<f>> \o stack)
    PROVE  Keeps
<1>1. stack \in Seq(Frame)
  BY DEF SocketInv, TypeOK
<1>2. CASE stack' = stack
  BY <1>2 DEF Keeps
<1>3. CASE stack' = <<Call>> \o stack
  BY <1>1, <1>3, CallIs, KeepsOn
<1>4. CASE stack' = <<Call>> \o (<<f>> \o stack)
  BY <1>1, <1>4, CallIs, KeepsOn
<1> QED BY <1>2, <1>3, <1>4

LEMMA DispatchErrorEvents ==
    ASSUME SocketInv, EventInv, DispatchError
    PROVE  EventInv' /\ Good
<1>1. /\ Pending("error") /\ PopEvent /\ stack' = <<Call>> \o stack /\ got' = got /\ seen' = [seen EXCEPT !["error"] = @ + 1]
      /\ sock' = [sock EXCEPT !.connecting = FALSE] /\ sock \in Socket
  BY DEF DispatchError, Emit, SocketInv, TypeOK
<1>2. sock'.native = sock.native /\ sock'.closeEmitted = sock.closeEmitted
  BY <1>1 DEF Socket
<1>3. Keeps
  BY <1>1, CallIs, OverStack
<1>4. PICK d : d = PopOf(nat[sock.native])
  OBVIOUS
<1> QED BY <1>1, <1>2, <1>3, <1>4, PopOfTake, PlainTake

LEMMA DispatchDrainEvents ==
    ASSUME SocketInv, EventInv, DispatchDrain
    PROVE  EventInv' /\ Good
<1>1. Pending("drain") /\ PopEvent /\ stack' = <<Call>> \o stack /\ UNCHANGED <<sock, seen, got>>
  BY DEF DispatchDrain, Tell
<1>2. Keeps
  BY <1>1, CallIs, OverStack
<1>3. PICK d : d = PopOf(nat[sock.native])
  OBVIOUS
<1> QED BY <1>1, <1>2, <1>3, PopOfTake, PlainTake

LEMMA DispatchFinishEvents ==
    ASSUME SocketInv, EventInv, DispatchFinish
    PROVE  EventInv' /\ Good
<1>1. Pending("finish") /\ PopEvent /\ stack' = <<Call>> \o (<<F("finished", 0)>> \o stack) /\ UNCHANGED <<sock, seen, got>>
  BY DEF DispatchFinish, Tell
<1>2. F("finished", 0) \in Frame
  BY FIs DEF SocketInv
<1>3. Keeps
  BY <1>1, <1>2, OverStack
<1>4. PICK d : d = PopOf(nat[sock.native])
  OBVIOUS
<1> QED BY <1>1, <1>3, <1>4, PopOfTake, PlainTake

LEMMA DispatchDataEvents ==
    ASSUME SocketInv, EventInv, DispatchData
    PROVE  EventInv' /\ Good
<1>1. PICK c, d : c = nat[sock.native] /\ d = TakeOf(c)
  OBVIOUS
<1>2. /\ Pending("data") /\ sock.native # NoId /\ c.events # <<>> /\ Head(c.events) = "data" /\ Popped = PopOf(c)
  BY <1>1, PendingFacts DEF DispatchData
<1>3. c \in ClientConnection /\ c.socket /\ ~c.connecting /\ EventsOK(c)
  BY <1>1, <1>2, NativeFine
<1>4. d.socket /\ ~d.connecting /\ d.peerEnded = c.peerEnded
  BY <1>1, <1>2, <1>3, TakeOfFacts
<1>5. d.events = Tail(c.events)
  <2>1. PopOf(c) \in ClientConnection /\ PopOf(c).events = Tail(c.events)
    BY <1>2, <1>3, PopOfFacts
  <2>2. PICK p : p = PopOf(c)
    OBVIOUS
  <2>3. p \in ClientConnection /\ d = [p EXCEPT !.chunks = Tail(@)] /\ p.events = Tail(c.events)
    BY <1>1, <2>1, <2>2 DEF TakeOf
  <2>4. d.events = p.events
    BY <2>3 DEF ClientConnection
  <2> QED BY <2>3, <2>4
<1>6. nat' = [nat EXCEPT ![sock.native] = d]
  BY <1>1, <1>2 DEF DispatchData, TakeOf
<1>7. sock'.native = sock.native /\ sock'.closeEmitted = sock.closeEmitted /\ seen' = seen
  BY DEF DispatchData, DeliverChunk, Continue, SocketInv, TypeOK, Socket
<1>8. stack' = stack \/ stack' = <<Call>> \o stack
  BY DEF DispatchData, DeliverChunk, Continue
<1>9. Keeps
  BY <1>8, CallIs, OverStack
<1> QED BY <1>1, <1>2, <1>4, <1>5, <1>6, <1>7, <1>9, PlainTake

LEMMA DispatchCloseEvents ==
    ASSUME SocketInv, EventInv, DispatchClose
    PROVE  EventInv' /\ Good
<1> DEFINE s == [sock EXCEPT !.connecting = FALSE, !.destroyed = TRUE, !.ready = "closed"]
<1>1. Pending("close") /\ PopEvent /\ EmitClose(s, stack) /\ sock \in Socket /\ seen \in [{"connect", "end", "error", "close"} -> Nat]
  BY DEF DispatchClose, SocketInv, TypeOK
<1>2. s.closeEmitted = sock.closeEmitted /\ s.native = sock.native /\ s \in Socket
  BY <1>1 DEF Socket
<1> HIDE DEF s
<1>3. sock'.native = sock.native /\ sock'.closeEmitted = TRUE /\ (stack' = stack \/ stack' = <<Call>> \o stack)
      /\ got' = got /\ seen' = IF sock.closeEmitted THEN seen ELSE [seen EXCEPT !["close"] = @ + 1]
  BY <1>1, <1>2 DEF EmitClose, Emit, Continue, Socket
<1>4. Keeps
  BY <1>3, CallIs, OverStack
<1>5. PICK d : d = PopOf(nat[sock.native])
  OBVIOUS
<1>6. /\ d.events = Tail(nat[sock.native].events) /\ d.socket /\ ~d.connecting /\ d.peerEnded = nat[sock.native].peerEnded
      /\ nat' = [nat EXCEPT ![sock.native] = d]
  BY <1>1, <1>5, PopOfTake
<1>7. /\ Queues' /\ Ends /\ Woken' /\ ~sock.closeEmitted /\ sock.native # NoId
      /\ seen["close"] = 0 /\ seen["connect"] = 1 /\ seen["end"] \in {0, 1}
      /\ seen["end"] = 1 => nat'[sock.native].peerEnded /\ Streaming(Events') = {}
      /\ Events' = nat'[sock.native].events
      /\ Events' = <<>>
  BY <1>1, <1>3, <1>4, <1>6, TakeStep
<1>8. seen'["connect"] = 1 /\ seen'["end"] = seen["end"] /\ seen'["close"] = 1
  BY <1>1, <1>3, <1>7
<1>9. Counted' /\ Awake'
  BY <1>3, <1>7, <1>8 DEF Counted, Awake
<1>10. EndsLate /\ Orders
  BY <1>3, <1>7, <1>8 DEF EndsLate, Orders
<1> QED BY <1>7, <1>9, <1>10 DEF EventInv, Good

\* 'end' comes last: nothing is left of what was read, and nothing is held.
LEMMA DispatchEndEvents ==
    ASSUME SocketInv, EventInv, DispatchEnd
    PROVE  EventInv' /\ Good
<1>1. /\ Pending("end") /\ PopEvent /\ sock \in Socket /\ seen \in [{"connect", "end", "error", "close"} -> Nat]
      /\ sock' = [sock EXCEPT !.ready = IF @ = "readOnly" THEN @ ELSE "writeOnly"] /\ TypeOK /\ Shaped(stack)
      /\ seen' = [seen EXCEPT !["end"] = @ + 1] /\ stack' = <<Call>> \o (<<F("ended", 0)>> \o stack) /\ got' = got
  BY DEF DispatchEnd, SocketInv, TypeOK, Emit
<1>2. sock'.native = sock.native /\ sock'.closeEmitted = sock.closeEmitted
  BY <1>1 DEF Socket
<1>3. F("ended", 0) \in Frame
  BY <1>1, FIs
<1>4. Keeps
  BY <1>1, <1>3, OverStack
<1>5. PICK n, c, d : n = sock.native /\ c = nat[n] /\ d = PopOf(c)
  OBVIOUS
<1>6. /\ d.events = Tail(c.events) /\ d.socket /\ ~d.connecting /\ d.peerEnded = c.peerEnded
      /\ nat' = [nat EXCEPT ![n] = d]
  BY <1>1, <1>5, PopOfTake
<1>7. /\ Queues' /\ Ends /\ Woken' /\ ~sock.closeEmitted /\ sock.native # NoId
      /\ seen["close"] = 0 /\ seen["connect"] = 1 /\ seen["end"] = 0
      /\ Streaming(Events') = {} /\ nat'[n].peerEnded
      /\ Events' = nat'[n].events
  BY <1>1, <1>2, <1>4, <1>5, <1>6, TakeStep
<1>8. seen'["connect"] = 1 /\ seen'["end"] = 1 /\ seen'["close"] = 0
  BY <1>1, <1>7
<1>9. Counted' /\ Awake'
  BY <1>2, <1>5, <1>7, <1>8 DEF Counted, Awake
<1>10. EndsLate
  <2>1. c.events # <<>> /\ Head(c.events) = "end" /\ Running("dispatch") /\ c \in ClientConnection /\ EventsOK(c)
    BY <1>1, <1>5, PendingFacts, NativeFine
  <2>2. Top.fn = "dispatch" /\ On(stack) = {Top} \cup On(Rest) /\ \A g \in On(Rest) : Above("dispatch", g.fn)
    BY <1>1, <2>1, TopFacts
  <2>3. ~Holds("resume")
    BY <2>2 DEF Holds, Above, Inner, InDispatch, InReady
  <2>4. ~sock.paused => sock.held = <<>>
    BY <2>3 DEF SocketInv, DataInv, HeldOK
  <2>5. c.chunks = <<>>
    <3>1. c.events \in Seq(Code) /\ c.chunks \in Seq(Nat) /\ InTurn(c.events)
      BY <1>5, <1>7, <2>1, MovesTypes, NativeFine DEF Queue
    <3>2. Streaming(Tail(c.events)) = {} /\ On(c.events) = {"end"} \cup On(Tail(c.events))
      BY <2>1, <3>1, TailInTurn
    <3>3. DataAt(c.events) = {}
      BY <3>2 DEF Streaming, DataAt, On
    <3>4. Len(c.chunks) = 0
      BY <2>1, <3>3, FS_EmptySet DEF EventsOK
    <3> QED BY <3>1, <3>4, EmptySeq
  <2> QED BY <1>5, <2>4, <2>5 DEF EndsLate
<1>11. Orders
  BY <1>1, <1>7, <1>8 DEF Orders
<1> QED BY <1>7, <1>9, <1>10, <1>11 DEF EventInv, Good

\* A 'close' microtask runs when no event waits.
LEMMA JobCloseEvents ==
    ASSUME SocketInv, EventInv, JobClose
    PROVE  EventInv' /\ Good
<1>1. /\ TypeOK /\ sock \in Socket /\ seen \in [{"connect", "end", "error", "close"} -> Nat] /\ EmitClose(sock, <<>>) /\ nat' = nat
      /\ Drains("close") /\ stack = <<>>
  BY DEF JobClose, SocketInv, TypeOK, Drained, Drains
<1>2. ~Notified(jobs)
  BY <1>1, DrainedJobs
<1>3. Queues /\ Counted /\ Events = <<>>
  BY <1>1, <1>2, OnNone DEF EventInv, Awake, Woken, Holds
<1>4. sock'.native = sock.native /\ sock'.closeEmitted = TRUE /\ got' = got
      /\ seen' = IF sock.closeEmitted THEN seen ELSE [seen EXCEPT !["close"] = @ + 1]
  BY <1>1 DEF EmitClose, Emit, Continue, Socket
<1>5. seen'["connect"] = seen["connect"] /\ seen'["end"] = seen["end"] /\ seen'["close"] = 1
  BY <1>1, <1>3, <1>4 DEF Counted
<1>6. Events' = <<>> /\ Queues'
  BY <1>1, <1>3, <1>4 DEF Events, Queues
<1>7. Counted' /\ Awake'
  BY <1>1, <1>3, <1>4, <1>5, <1>6 DEF Counted, Awake
<1>8. Ends /\ EndsLate
  BY <1>1, <1>5 DEF Ends, EndsLate
<1>9. sock.closeEmitted \in BOOLEAN /\ seen["end"] \in Nat
  BY <1>1 DEF Socket
<1>10. Orders
  BY <1>3, <1>4, <1>5, <1>9 DEF Orders, Counted
<1> QED BY <1>6, <1>7, <1>8, <1>10 DEF EventInv, Good

LEMMA ConnectEvents ==
    ASSUME SocketInv, EventInv, NEW kind, Connect(kind)
    PROVE  EventInv' /\ Good
<1>1. /\ sock \in Socket /\ seen \in [{"connect", "end", "error", "close"} -> Nat] /\ seen' = NoneSeen /\ UNCHANGED <<nat, got>>
      /\ made.epoch \in Nat /\ made'.epoch = made.epoch + 1
  BY NatTypes DEF Connect, SocketInv, TypeOK
<1>2. sock'.native = NoId /\ sock'.closeEmitted = FALSE
  BY <1>1 DEF Connect, Socket
<1>3. NoneSeen["connect"] = 0 /\ NoneSeen["end"] = 0 /\ NoneSeen["close"] = 0
  BY DEF NoneSeen
<1>4. EventInv'
  BY <1>1, <1>2, <1>3 DEF EventInv, Queues, Counted, Awake, Events
<1>5. Good
  BY <1>1, <1>3 DEF Good, Ends, EndsLate, Orders
<1> QED BY <1>4, <1>5

----------------
(* Attempts *)

\* A step of an attempt's connection, while the socket has none.
LEMMA AttemptStep ==
    ASSUME SocketInv, EventInv, sock.native = NoId, NEW n \in Id, NEW d, Queue(d), ~d.peerEnded,
           nat' = [nat EXCEPT ![n] = d], UNCHANGED <<sock, seen, got>>
    PROVE  EventInv' /\ Good
<1>1. nat \in [Id -> ClientConnection] /\ seen \in [{"connect", "end", "error", "close"} -> Nat]
  BY DEF SocketInv, TypeOK
<1>2. nat'[n] = d /\ \A k \in Id : k # n => nat'[k] = nat[k]
  BY <1>1
<1>3. Queues' /\ Ends
  BY <1>2 DEF EventInv, Queues, Ends
<1>4. Events' = <<>>
  BY DEF Events
<1>5. Counted' /\ Awake'
  BY <1>4 DEF EventInv, Counted, Awake
<1>6. seen["connect"] <= 1 /\ seen["end"] <= 1 /\ seen["close"] <= 1 /\ seen["end"] \in Nat
  BY <1>1 DEF EventInv, Counted
<1> QED BY <1>3, <1>5, <1>6 DEF EventInv, Good, EndsLate, Orders

LEMMA AttemptFailsEvents ==
    ASSUME SocketInv, EventInv, AttemptFails
    PROVE  EventInv' /\ Good
<1>1. PICK n, c : n = Top.n /\ c = nat[n]
  OBVIOUS
<1>2. /\ Running("attempt") /\ c.events # <<>> /\ Head(c.events) = "error" /\ nat' = [nat EXCEPT ![n] = PopOf(@)]
      /\ UNCHANGED <<sock, seen, got>>
  BY <1>1 DEF AttemptFails, FailAttempt, Tell, PopOf
<1>3. n \in Id /\ c \in ClientConnection /\ sock.native = NoId /\ ~c.socket /\ Bare(c)
  BY <1>1, <1>2, AttemptFacts
<1>4. Queue(c)
  BY <1>1, <1>3 DEF EventInv, Queues
<1>5. c.events = <<"error", "close">> /\ ~c.connecting
  BY <1>2, <1>3, <1>4 DEF Queue, Early
<1>6. PICK d : d = PopOf(c)
  OBVIOUS
<1>7. d.events = Tail(c.events) /\ d.peerEnded = c.peerEnded /\ d.connecting = c.connecting /\ d.socket = c.socket
  BY <1>2, <1>3, <1>6, PopOfFacts
<1>8. d.events = <<"close">> /\ ~d.peerEnded /\ ~d.connecting
  BY <1>3, <1>5, <1>7 DEF Bare
<1>9. Queue(d)
  BY <1>8, ListsInTurn, OnOne DEF Queue, Early
<1>10. nat' = [nat EXCEPT ![n] = d]
  BY <1>1, <1>2, <1>6
<1> QED BY <1>2, <1>3, <1>8, <1>9, <1>10, AttemptStep

\* The winner becomes the socket's connection: its 'connect' was all it had to tell.
LEMMA WinAttemptEvents ==
    ASSUME SocketInv, EventInv, WinAttempt
    PROVE  EventInv' /\ Good
<1>1. PICK n, c, w : n = Top.n /\ c = nat[n] /\ w = Winner(c)
  OBVIOUS
<1>2. /\ TypeOK /\ Running("attempt") /\ nat \in [Id -> ClientConnection] /\ c.events # <<>> /\ Head(c.events) = "connect"
      /\ sock \in Socket /\ seen \in [{"connect", "end", "error", "close"} -> Nat] /\ got' = got
      /\ seen' = [seen EXCEPT !["connect"] = @ + 1] /\ sock' = WonOf(sock, n)
  BY <1>1 DEF SocketInv, WinAttempt, TypeOK, WonOf, Emit
<1>3. /\ n \in Id /\ c.life = "open" /\ c \in ClientConnection /\ ConnOK(n, c) /\ Bare(c) /\ ~c.socket
      /\ ~sock.destroyed /\ sock.native = NoId
  BY <1>1, <1>2, AttemptFacts
<1>4. Queue(c)
  BY <1>1, <1>3 DEF EventInv, Queues
<1>5. c.events = <<"connect">> /\ ~c.connecting /\ ~c.closing
  BY <1>2, <1>3, <1>4 DEF Queue, Early
<1>6. w \in ClientConnection /\ w.socket /\ ~w.peerEnded
  BY <1>1, <1>2, <1>3, WinnerFacts DEF ConnOK
<1>7. w.events = <<>> /\ ~w.closing /\ ~w.connecting
  <2>1. w.events = Tail(c.events) /\ w.closing = c.closing /\ w.connecting = c.connecting
    BY <1>1, <1>3 DEF Winner, ClientConnection
  <2> QED BY <1>5, <2>1
<1>8. PICK M : M = NetDestroyAll(nat, sock.attempts \ (settled \cup {n}))
  OBVIOUS
<1>9. PICK d \in FlushWrites(w) : nat' = [M EXCEPT ![n] = Sent(d)] /\ jobs' = jobs \o NotifySoon(d, n)
  BY <1>1, <1>8 DEF WinAttempt, Sent
<1>10. M \in [Id -> ClientConnection] /\ \A k \in Id : SameQueue(nat[k], M[k])
  BY <1>2, <1>8, DestroyAllSame
<1>11. PICK e : e = Sent(d)
  OBVIOUS
<1>12. Grows(w, e) /\ e.peerEnded = w.peerEnded /\ e.events = d.events /\ e.socket = w.socket /\ e.connecting = d.connecting
  BY <1>6, <1>7, <1>9, <1>11, SentGrows
<1>13. d.connecting = w.connecting
  BY <1>6, <1>9, FlushConnecting
<1>14. Fine(w)
  BY <1>7, ListsInTurn, OnNone DEF Fine
<1>15. Queue(e)
  BY <1>6, <1>7, <1>12, <1>13, <1>14 DEF Queue, Early, Grows, Fine
<1>16. nat'[n] = e /\ \A k \in Id : k # n => nat'[k] = M[k]
  BY <1>3, <1>9, <1>10, <1>11
<1>17. Queues'
  BY <1>10, <1>15, <1>16, SameQueueKeeps DEF EventInv, Queues
<1>18. sock'.native = n /\ sock'.closeEmitted = sock.closeEmitted /\ n # NoId /\ ~sock.closeEmitted
  BY <1>2, <1>3, WonOfFacts, SeenTypes DEF SocketInv, SockInv
<1>19. seen["connect"] = 0 /\ seen["end"] = 0 /\ seen["close"] = 0
  BY <1>3, <1>18 DEF EventInv, Counted
<1>20. seen'["connect"] = 1 /\ seen'["end"] = 0 /\ seen'["close"] = 0
  BY <1>2, <1>19
<1>21. Counted'
  BY <1>18, <1>20 DEF Counted
<1>22. Awake'
  <2>1. Events' = e.events /\ n \in Nat
    BY <1>2, <1>3, <1>16, <1>18, NatTypes DEF Events
  <2>2. e.events # <<>> => Woken'
    BY <1>3, <1>9, <1>12, <2>1, NotifyWakes
  <2> QED BY <1>18, <2>1, <2>2 DEF Awake
<1>23. Ends
  BY <1>6, <1>10, <1>12, <1>16 DEF Ends, SameQueue
<1>24. EndsLate /\ Orders
  BY <1>2, <1>19, <1>20 DEF EndsLate, Orders
<1> QED BY <1>17, <1>21, <1>22, <1>23, <1>24 DEF EventInv, Good

----------------
(* Readiness *)

\* Reading and the peer's end start no connect.
LEMMA ReadConnecting ==
    ASSUME NEW c \in ClientConnection, ~c.closing, ~c.peerEnded, FinLast(c.rx), NEW hup \in BOOLEAN, c.rx # <<>>,
           NEW d \in ReadAvailable(c, hup)
    PROVE  d.connecting = c.connecting
<1>1. \A e : DOMAIN e = DOMAIN c /\ e.connecting = c.connecting =>
               CloseFromPeer(e).connecting = c.connecting /\ Fail(e).connecting = c.connecting
  <2> SUFFICES ASSUME NEW e, DOMAIN e = DOMAIN c, e.connecting = c.connecting
               PROVE  CloseFromPeer(e).connecting = c.connecting /\ Fail(e).connecting = c.connecting
    OBVIOUS
  <2> QED BY DEF CloseFromPeer, Fail, ClientConnection
<1>2. \A e : DOMAIN e = DOMAIN c => DOMAIN CloseFromPeer(e) = DOMAIN c
  BY DEF CloseFromPeer
<1>3. \A k : ReadK(c, k).connecting = c.connecting /\ DOMAIN ReadK(c, k) = DOMAIN c
  <2> SUFFICES ASSUME NEW k PROVE ReadK(c, k).connecting = c.connecting /\ DOMAIN ReadK(c, k) = DOMAIN c
    OBVIOUS
  <2> DEFINE data == SubSeq(c.rx, 1, IF k > 0 /\ c.rx[k] = Fin THEN k - 1 ELSE k)
             read == [c EXCEPT !.rx = SubSeq(@, k + 1, Len(@)), !.chunks = @ \o data,
                               !.events = @ \o [j \in 1 .. Len(data) |-> "data"]]
  <2>1. ReadK(c, k) = CloseFromPeer(read) \/ ReadK(c, k) = read
    BY DEF ReadK
  <2>2. DOMAIN read = DOMAIN c /\ read.connecting = c.connecting
    BY DEF ClientConnection
  <2> HIDE DEF read
  <2> QED BY <1>1, <1>2, <2>1, <2>2
<1>4. \E r : (r = c \/ \E k : r = ReadK(c, k)) /\ (d = r \/ d = Fail(r))
  BY DEF ReadAvailable, Failures
<1> QED BY <1>1, <1>3, <1>4

LEMMA PolledConnecting ==
    ASSUME NEW c \in ClientConnection, ~c.closing, ~c.connecting, FinLast(c.rx), NEW d \in Polled(c)
    PROVE  ~d.connecting
<1> DEFINE written == {c} \cup (IF c.out = <<>> THEN {}
                                ELSE {FlushK(c, k) : k \in 1 .. Len(c.out)} \cup Failures(c))
           Read(w) ==
               IF w.closing \/ ~Readable(c) THEN {w}
               ELSE ReadAvailable(w, HangUp(c)) \cup (IF HangUp(c) THEN {} ELSE {w})
           Last(r) == d = (IF HangUp(c) THEN CloseFromPeer(r) ELSE r) \/ d = Fail(r)
<1>1. \E w \in written : \E r \in Read(w) : Last(r)
  BY DEF Polled, Failures
<1>2. PICK w \in written : \E r \in Read(w) : Last(r)
  BY <1>1
<1>3. PICK r \in Read(w) : Last(r)
  BY <1>2
<1>4. w \in ClientConnection /\ ~w.connecting /\ w.peerEnded = c.peerEnded /\ w.rx = c.rx
  <2>1. CASE w = c
    BY <2>1
  <2>2. ASSUME NEW k \in 1 .. Len(c.out), w = FlushK(c, k)
        PROVE  w \in ClientConnection /\ ~w.connecting /\ w.peerEnded = c.peerEnded /\ w.rx = c.rx
    <3>1. c.out \in Seq(Nat) /\ k \in 0 .. Len(c.out)
      BY MovesTypes
    <3>2. w \in FlushWrites(c)
      BY <2>2, <3>1 DEF FlushWrites
    <3> QED BY <2>2, <3>1, <3>2, FlushMoves, FlushGrows, FlushConnecting DEF Moves
  <2>3. CASE w = Fail(c)
    <3>1. Fail(c).connecting = c.connecting
      BY DEF Fail, ClientConnection
    <3> QED BY <2>3, <3>1, FailMoves, FailGrows DEF Moves
  <2> QED BY <1>2, <2>1, <2>2, <2>3 DEF Failures
<1>5. HangUp(c) \in BOOLEAN
  BY MovesTypes DEF HangUp
<1>6. r.connecting = w.connecting /\ r \in ClientConnection
  <2>1. CASE r = w
    BY <1>4, <2>1
  <2>2. CASE Readable(c) /\ ~w.closing /\ r \in ReadAvailable(w, HangUp(c))
    <3>1. w.rx # <<>> /\ FinLast(w.rx) /\ ~w.peerEnded
      BY <1>4, <2>2 DEF Readable
    <3>2. HangUp(c) => Fin \in On(w.rx)
      <4>1. c.rx \in Seq(Nat)
        BY MovesTypes
      <4> QED BY <1>4, <4>1 DEF HangUp, On
    <3> QED BY <1>4, <1>5, <2>2, <3>1, <3>2, ReadConnecting, ReadAvailableGrows
  <2> QED BY <1>3, <2>1, <2>2
<1>7. CloseFromPeer(r).connecting = r.connecting /\ Fail(r).connecting = r.connecting
  BY <1>6 DEF CloseFromPeer, Fail, ClientConnection
<1> QED BY <1>3, <1>4, <1>6, <1>7

LEMMA NativeFinLast ==
    ASSUME SocketInv, sock.native # NoId
    PROVE  FinLast(nat[sock.native].rx)
<1>1. PICK c : c = nat[sock.native]
  OBVIOUS
<1>2. TypeOK /\ DataInv /\ c \in ClientConnection
  BY <1>1, NativeIs DEF SocketInv
<1>3. got \in Seq(Nat) /\ sock.held \in Seq(Nat) /\ made.chunk \in Nat
  BY <1>2, NatTypes DEF TypeOK, Socket
<1>4. PICK a : a = got \o sock.held
  OBVIOUS
<1>5. a \in Seq(Nat) /\ c.chunks \in Seq(Nat) /\ c.rx \in Seq(Nat)
  BY <1>2, <1>3, <1>4, ConcatNat, MovesTypes
<1>6. Stream = a \o (c.chunks \o c.rx)
  BY <1>1, <1>4 DEF Stream
<1>7. Ordered(a \o (c.chunks \o c.rx), made.chunk)
  BY <1>2, <1>6 DEF DataInv
<1> QED BY <1>1, <1>3, <1>5, <1>7, FinIsLast

LEMMA OnReadyEvents ==
    ASSUME SocketInv, EventInv, NEW n \in Id, OnReady(n)
    PROVE  EventInv' /\ Good
<1>1. PICK c : c = nat[n]
  OBVIOUS
<1>2. c.life = "open" /\ stack = <<>> /\ TypeOK /\ SockInv /\ UNCHANGED <<sock, seen, got>>
  BY <1>1 DEF OnReady, MayServe, SocketInv, Continue
<1>3. /\ ~c.closing /\ c \in ClientConnection /\ ConnOK(n, c)
      /\ \/ n = sock.native /\ ~sock.destroyed /\ n \in settled
         \/ n \in Racing /\ c.connecting
  BY <1>1, <1>2, IdleOpen
<1>4. PICK d \in Polled(c) :
         /\ nat' = [nat EXCEPT ![n] = d]
         /\ stack' = IF d.events = <<>> THEN <<>> ELSE <<F(IF d.socket THEN "dispatch" ELSE "attempt", n), F("ready", n)>>
  BY <1>1 DEF OnReady, Continue
<1>5. n # NoId
  BY <1>2, NatTypes
<1>6. CASE n = sock.native /\ ~sock.destroyed
  <2>1. c.socket /\ ~c.connecting /\ FinLast(c.rx)
    BY <1>1, <1>5, <1>6, NativeFine, NativeFinLast
  <2>2. Grows(c, d) /\ (d.peerEnded /\ ~c.peerEnded /\ ~c.paused => Spent(d.rx)) /\ ~d.connecting
    BY <1>3, <1>4, <2>1, PolledGrows, PolledConnecting
  <2>3. d.socket /\ d \in ClientConnection
    BY <1>3, <1>4, <2>1, PolledMoves DEF Moves
  <2>4. ASSUME d.events # <<>> PROVE Woken'
    <3>1. stack' = <<F("dispatch", n), F("ready", n)>>
      BY <1>4, <2>3, <2>4
    <3>2. F("dispatch", n) \in On(stack')
      BY <1>2, <3>1, OnReadyFrames
    <3> QED BY <3>2 DEF Woken, Holds, F
  <2>5. d.rx \in Seq(Nat) /\ (Spent(d.rx) => \A i \in DOMAIN d.rx : d.rx[i] = Fin)
    BY <2>3, MovesTypes DEF Spent
  <2> QED BY <1>1, <1>2, <1>4, <1>5, <1>6, <2>2, <2>3, <2>4, <2>5, GrowStep
<1>7. CASE n \in Racing /\ c.connecting
  <2>1. sock.native = NoId /\ n \notin settled
    BY <1>2, <1>7 DEF SockInv, Racing
  <2>2. ~c.socket /\ Bare(c)
    BY <1>3, <2>1 DEF ConnOK
  <2>3. c.events = <<>> /\ d \in CompleteConnect(c)
    BY <1>1, <1>4, <1>7 DEF EventInv, Queues, Queue, Early, Polled
  <2>4. Queue(d) /\ ~d.peerEnded
    BY <1>3, <2>2, <2>3, ConnectGrows
  <2> QED BY <1>2, <1>4, <2>1, <2>4, AttemptStep
<1> QED BY <1>3, <1>6, <1>7

----------------
(* Every step *)

LEMMA UnchangedEvents ==
    ASSUME SocketInv, EventInv, UNCHANGED vars
    PROVE  EventInv' /\ Good
<1>1. Keeps /\ TypeOK /\ UNCHANGED <<sock, nat, jobs, seen, got>>
  BY DEF Keeps, SocketInv, vars
<1> QED BY <1>1, StillStep

LEMMA NextEvents ==
    ASSUME SocketInv, EventInv, [Next]_vars
    PROVE  EventInv' /\ Good
<1>1. CASE Program
  BY <1>1, TurnEvents, ConnectEvents, WriteEvents, EndEvents, DestroySoonEvents, PauseEvents, ResumeEvents, DestroyEvents DEF Program
<1>2. CASE Loop
  <2>1. CASE Return
    BY <2>1, ReturnEvents
  <2>2. CASE Connecting
    BY <2>2, LookupDoneEvents, LookedEvents, AttemptingEvents, AttemptTimerEvents, TimedOutEvents, FailedEvents, WinAttemptEvents,
       WonEvents, AttemptFailsEvents DEF Connecting
  <2>3. CASE Dispatching
    BY <2>3, DispatchDoneEvents, DispatchDataEvents, DispatchErrorEvents, DispatchCloseEvents, DispatchDrainEvents,
       DispatchFinishEvents, FinishedEvents, DispatchEndEvents, EndedEvents, DestroyingRestEvents, ResumeNextEvents DEF Dispatching
  <2>4. CASE Jobs
    BY <2>4, JobBeginEvents, JobCreateFailedEvents, JobLookFailedEvents, JobNotifyEvents, JobCloseEvents, JobFinishEvents DEF Jobs
  <2>5. CASE ReadyRest
    BY <2>5, ReadyRestEvents
  <2>6. ASSUME NEW n \in Id, OnReady(n) PROVE EventInv' /\ Good
    BY <2>6, OnReadyEvents
  <2> QED BY <1>2, <2>1, <2>2, <2>3, <2>4, <2>5, <2>6 DEF Loop
<1>3. ASSUME NEW n \in Id, PeerSend(n) PROVE EventInv' /\ Good
  BY <1>3, PeerSendEvents
<1>4. CASE UNCHANGED vars
  BY <1>4, UnchangedEvents
<1> QED BY <1>1, <1>2, <1>3, <1>4 DEF Next

LEMMA EventsInit == Init => EventInv
<1> SUFFICES ASSUME Init PROVE EventInv
  OBVIOUS
<1>1. sock.native = NoId /\ sock.closeEmitted = FALSE /\ seen = NoneSeen /\ nat = [k \in Id |-> NoConnection]
  BY DEF Init
<1>2. NoneSeen["connect"] = 0 /\ NoneSeen["end"] = 0 /\ NoneSeen["close"] = 0
  BY DEF NoneSeen
<1>3. NoConnection.events = <<>> /\ ~NoConnection.connecting
  BY DEF NoConnection
<1>4. Queue(NoConnection)
  BY <1>3, ListsInTurn, OnNone DEF Queue, Early
<1> QED BY <1>1, <1>2, <1>4 DEF EventInv, Queues, Counted, Awake, Events

(***************************************************************************)
(* For any number of addresses, connect() calls, chunks and calls of a     *)
(* program that connects again only once the 'close' microtask has run:    *)
(* a connection that is not paused reads all that the peer sent before it  *)
(* ends, 'end' follows every chunk that was read, and between two          *)
(* connect() calls dispatchNativeEvents and emitClose emit 'connect',      *)
(* 'end' and 'close' at most once, data only between 'connect' and 'end',  *)
(* and nothing after 'close'; chunks that resume() releases are excepted,  *)
(* they may come after 'end' and 'close'.                                  *)
(***************************************************************************)
THEOREM SocketEventsCorrect == "reconnect" \notin Env => (Spec => SocketEvents)
<1> SUFFICES ASSUME "reconnect" \notin Env PROVE Spec => SocketEvents
  OBVIOUS
<1> DEFINE Inv == SocketInv /\ EventInv
           First == Ends /\ EndsLate
<1>1. Init => Inv
  BY InitHolds, EventsInit
<1>2. Inv /\ [Next]_vars => Inv'
  BY NextKeeps, NextEvents
<1>3. Inv /\ [Next]_vars => [First]_vars /\ [Orders]_vars
  BY NextEvents DEF Good
<1> HIDE DEF Inv
<1> QED BY <1>1, <1>2, <1>3, PTL DEF Spec, SocketEvents, DataBeforeEnd, EventOrder, Ends, EndsLate, Orders
=============================================================================
