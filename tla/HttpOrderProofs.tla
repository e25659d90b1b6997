-------------------------- MODULE HttpOrderProofs --------------------------
(***************************************************************************)
(* Proofs about HttpConnection, for every set of connections, every token  *)
(* alphabet, every bound and every environment: first its types and the    *)
(* gate of its handlers; then why the responses of a connection leave in   *)
(* order, whatever handlers, later jobs, other connections, failures and   *)
(* the peer do.  For that ServerInv is shown to be inductive: every        *)
(* operation on a connection object is reduced to the fields it changes,   *)
(* then to what it does to ObjectOK; the actions only combine them.        *)
(***************************************************************************)
EXTENDS HttpConnection, SequenceTheorems, TLAPS

----------------
(* The operations on a connection object keep its type *)

LEMMA OutField ==
    ASSUME NEW k \in Connection, NEW s \in Seq(Piece), NEW h \in Int
    PROVE  /\ [k EXCEPT !.headMark = h, !.out = s] \in Connection
           /\ [k EXCEPT !.out = s] \in Connection
BY DEF Connection

LEMMA SentField ==
    ASSUME NEW k \in Connection, NEW n \in Nat
    PROVE  [k EXCEPT !.sent = n] \in Connection
BY DEF Connection

LEMMA SentMarkField ==
    ASSUME NEW k \in Connection, NEW n \in Nat, NEW h \in Int
    PROVE  [k EXCEPT !.sent = n, !.headMark = h] \in Connection
BY DEF Connection

LEMMA FieldTypes ==
    ASSUME NEW k \in Connection
    PROVE  /\ k.out \in Seq(Piece) /\ Len(k.out) \in Nat /\ k.sent \in Nat
           /\ k.headMark \in Int /\ k.nreq \in Nat /\ NoMark \in Int
           /\ k.inbuf \in Seq(AllTokens) /\ Len(k.inbuf) \in Nat
BY DEF Connection, NoMark

LEMMA LoopCloseType ==
    ASSUME NEW k \in Connection
    PROVE  /\ LoopClose(k) \in Connection
           /\ [k EXCEPT !.life = "gone"] \in Connection
           /\ [k EXCEPT !.closing = TRUE] \in Connection
BY DEF LoopClose, Connection

LEMMA FlushType ==
    ASSUME NEW k \in Connection, NEW q \in FlushAndMaybeClose(k)
    PROVE  q \in Connection
<1>1. Len(k.out) \in Nat /\ k.sent \in Nat /\ k.headMark \in Int /\ NoMark \in Int
  BY FieldTypes
<1>2. ASSUME NEW n \in Nat
      PROVE  CloseIfDone(Flushed(k, n)) \in Connection
  <2>1. (IF n = Len(k.out) THEN NoMark ELSE k.headMark) \in Int
    BY <1>1
  <2>2. Flushed(k, n) \in Connection
    BY <2>1, SentMarkField DEF Flushed
  <2>3. QED
    BY <2>2, LoopCloseType DEF CloseIfDone
<1>3. ASSUME NEW n \in Nat
      PROVE  LoopClose([k EXCEPT !.sent = n]) \in Connection
  <2>1. [k EXCEPT !.sent = n] \in Connection
    BY SentField
  <2>2. QED
    BY <2>1, LoopCloseType
<1>4. \A n : n \in k.sent .. Len(k.out) - 1 \/ n = Len(k.out) => n \in Nat
  BY <1>1
<1>5. (\E n \in Nat : q = CloseIfDone(Flushed(k, n)))
      \/ (\E n \in Nat : q = LoopClose([k EXCEPT !.sent = n]))
  BY <1>4, Zenon DEF FlushAndMaybeClose
<1>6. QED
  BY <1>2, <1>3, <1>5

LEMMA AppendType ==
    ASSUME NEW k \in Connection, NEW r \in Nat, NEW p \in Part
    PROVE  /\ AppendPart(k, r, p) \in Connection
           /\ AppendHead(k, r) \in Connection
           /\ [k EXCEPT !.out = Append(@, [req |-> r, part |-> p])] \in Connection
<1>1. [req |-> r, part |-> p] \in Piece /\ [req |-> r, part |-> "head"] \in Piece
  BY DEF Piece, Part
<1>2. /\ Append(k.out, [req |-> r, part |-> p]) \in Seq(Piece)
      /\ Append(k.out, [req |-> r, part |-> "head"]) \in Seq(Piece)
  BY <1>1, FieldTypes
<1>3. Len(k.out) \in Int /\ NoMark \in Int
  BY FieldTypes
<1>4. QED
  BY <1>2, <1>3, OutField DEF AppendPart, AppendHead

LEMMA EnqueueType ==
    ASSUME NEW k \in Connection, NEW r \in Nat, NEW p \in Part, NEW q \in Enqueue(k, r, p)
    PROVE  q \in Connection
BY AppendType, FlushType DEF Enqueue

LEMMA FinalAnswerType ==
    ASSUME NEW k \in Connection
    PROVE  SendErrorAndClose(k) \in Connection /\ Send500(k) \in Connection
<1>1. k.nreq \in Nat /\ k.nreq + 1 \in Nat /\ k.sent \in Nat /\ k.headMark \in Int
      /\ k.out \in Seq(Piece) /\ Len(k.out) \in Nat
  BY DEF Connection
<1>2. DropHead(k) \in Connection
  <2>1. CASE k.headMark >= k.sent /\ k.headMark <= Len(k.out)
    <3>1. k.headMark \in 0 .. Len(k.out)
      BY <1>1, <2>1
    <3>2. SubSeq(k.out, 1, k.headMark) \in Seq(Piece)
      BY <1>1, <3>1
    <3>3. QED
      BY <2>1, <3>2 DEF DropHead, Connection
  <2>2. CASE ~(k.headMark >= k.sent /\ k.headMark <= Len(k.out))
    BY <2>2 DEF DropHead
  <2>3. QED
    BY <2>1, <2>2
<1>3. AppendPart(DropHead(k), k.nreq, "500") \in Connection
  BY <1>1, <1>2, AppendType DEF Part
<1>4. AppendPart(k, k.nreq + 1, "error") \in Connection
  BY <1>1, AppendType DEF Part
<1>5. QED
  BY <1>3, <1>4 DEF SendErrorAndClose, Send500, Connection

----------------
(* The stack and the tables of connections and responses *)

At == {"loop", "handler", "drain"}

LEMMA PushType ==
    ASSUME stack \in Seq(Frame), NEW c \in Conn, NEW w \in At, NEW b \in BOOLEAN
    PROVE  /\ Push(c, w, b) \in Seq(Frame)
           /\ Len(Push(c, w, b)) = Len(stack) + 1
           /\ \A i \in 1 .. Len(stack) : Push(c, w, b)[i] = stack[i]
           /\ Push(c, w, b)[Len(stack) + 1] = [c |-> c, at |-> w, was |-> b]
           /\ Push(c, w, b)[Len(stack) + 1].at = w
<1>1. [c |-> c, at |-> w, was |-> b] \in Frame
  BY DEF Frame, At
<1>2. QED
  BY <1>1 DEF Push

LEMMA StackTypes ==
    ASSUME stack \in Seq(Frame), stack # <<>>
    PROVE  /\ Len(stack) \in Nat \ {0}
           /\ Top \in Frame /\ Top.c \in Conn /\ Top.was \in BOOLEAN
           /\ Below \in Seq(Frame)
           /\ Len(Below) = Len(stack) - 1
           /\ \A i \in 1 .. Len(stack) - 1 : Below[i] = stack[i]
<1>1. Len(stack) \in Nat \ {0}
  OBVIOUS
<1>2. Top \in Frame
  BY <1>1 DEF Top
<1>3. Top.c \in Conn /\ Top.was \in BOOLEAN
  BY <1>2 DEF Frame
<1>4. \A i \in 1 .. Len(stack) - 1 : stack[i] \in Frame
  BY <1>1
<1>5. /\ Below \in Seq(Frame)
      /\ Len(Below) = Len(stack) - 1
      /\ \A i \in 1 .. Len(stack) - 1 : Below[i] = stack[i]
  <2> DEFINE n == Len(stack) - 1
             t == SubSeq(stack, 1, n)
  <2>1. n \in Int /\ 1 \in Int /\ \A i \in 1 .. n : stack[i] \in Frame
    BY <1>1, <1>4
  <2>2. /\ t \in Seq(Frame)
        /\ Len(t) = IF 1 <= n THEN n - 1 + 1 ELSE 0
        /\ \A i \in 1 .. n - 1 + 1 : t[i] = stack[1 + i - 1]
    BY <2>1, SubSeqProperties
  <2>3. Below = t /\ n = Len(stack) - 1
    BY DEF Below
  <2> HIDE DEF n, t
  <2>4. Len(t) = n /\ \A i \in 1 .. n : t[i] = stack[i]
    BY <1>1, <2>2, <2>3
  <2>5. QED
    BY <2>2, <2>3, <2>4
<1>6. QED
  BY <1>1, <1>2, <1>3, <1>5

LEMMA MoveType ==
    ASSUME stack \in Seq(Frame), stack # <<>>, NEW w \in At
    PROVE  /\ MoveTo(w) \in Seq(Frame)
           /\ Len(MoveTo(w)) = Len(stack)
           /\ MoveTo(w)[Len(stack)] = [Top EXCEPT !.at = w]
           /\ MoveTo(w)[Len(stack)].at = w
           /\ \A i \in 1 .. Len(stack) - 1 : MoveTo(w)[i] = stack[i]
<1>1. Len(stack) \in Nat \ {0}
  OBVIOUS
<1>2. stack[Len(stack)] \in Frame
  BY <1>1
<1>3. [stack[Len(stack)] EXCEPT !.at = w] \in Frame
  BY <1>2 DEF Frame, At
<1>4. MoveTo(w) = [stack EXCEPT ![Len(stack)] = [stack[Len(stack)] EXCEPT !.at = w]]
  BY DEF MoveTo
<1>5. [stack[Len(stack)] EXCEPT !.at = w].at = w
  BY <1>2 DEF Frame
<1>6. QED
  BY <1>1, <1>3, <1>4, <1>5 DEF Top

LEMMA ResUpdate ==
    ASSUME res \in [Conn -> [Request -> Response]], NEW c \in Conn, NEW r, NEW q \in Response
    PROVE  [res EXCEPT ![c][r] = q] \in [Conn -> [Request -> Response]]
OBVIOUS

----------------
(* Type correctness *)

LEMMA ServingFields ==
    ASSUME NEW k \in Connection
    PROVE  /\ [k EXCEPT !.busy = TRUE, !.deferred = TRUE] \in Connection
           /\ [k EXCEPT !.busy = TRUE, !.nreq = @ + 1] \in Connection
           /\ [k EXCEPT !.deferred = FALSE, !.busy = TRUE, !.processing = TRUE,
                        !.nreq = @ + 1] \in Connection
<1>1. k.nreq + 1 \in Nat
  BY FieldTypes
<1>2. ASSUME NEW n \in Nat
      PROVE  /\ [k EXCEPT !.busy = TRUE, !.nreq = n] \in Connection
             /\ [k EXCEPT !.deferred = FALSE, !.busy = TRUE, !.processing = TRUE,
                          !.nreq = n] \in Connection
  BY DEF Connection
<1>3. [k EXCEPT !.busy = TRUE, !.deferred = TRUE] \in Connection
  BY DEF Connection
<1>4. QED
  BY <1>1, <1>2, <1>3

LEMMA NewResponseType ==
    ASSUME NEW b \in BOOLEAN
    PROVE  [NoResponse EXCEPT !.st = "fresh", !.keepAlive = b] \in Response
BY DEF NoResponse, Response

LEMMA GateFields ==
    ASSUME gate \in Gate, NEW a \in Nat, NEW b \in BOOLEAN, NEW s \in Seq(Conn)
    PROVE  /\ [gate EXCEPT !.active = a] \in Gate
           /\ [gate EXCEPT !.active = a, !.draining = b] \in Gate
           /\ [gate EXCEPT !.draining = b] \in Gate
           /\ [gate EXCEPT !.deferred = s] \in Gate
           /\ [gate EXCEPT !.deferred = s, !.active = a] \in Gate
           /\ gate.active \in Nat /\ gate.draining \in BOOLEAN /\ gate.deferred \in Seq(Conn)
BY DEF Gate

LEMMA DispatchType ==
    ASSUME TypeOK, stack # <<>>, NEW c \in Conn, NEW k \in Connection, DispatchCurrent(c, k)
    PROVE  /\ conn' \in [Conn -> Connection]
           /\ res' \in [Conn -> [Request -> Response]]
           /\ stack' \in Seq(Frame)
           /\ gate' \in Gate
<1>1. /\ [k EXCEPT !.busy = TRUE, !.deferred = TRUE] \in Connection
      /\ [k EXCEPT !.busy = TRUE, !.nreq = @ + 1] \in Connection
  BY ServingFields
<1>2. conn' \in [Conn -> Connection]
  BY <1>1 DEF DispatchCurrent, TypeOK
<1>3. gate' \in Gate
  <2>1. gate \in Gate /\ gate.active \in Nat /\ gate.deferred \in Seq(Conn)
    BY DEF TypeOK, Gate
  <2>2. gate.active + 1 \in Nat /\ Append(gate.deferred, c) \in Seq(Conn)
    BY <2>1
  <2>3. QED
    BY <2>1, <2>2, GateFields DEF DispatchCurrent
<1>4. stack' \in Seq(Frame)
  BY MoveType DEF DispatchCurrent, TypeOK, At
<1>5. [NoResponse EXCEPT !.st = "fresh", !.keepAlive = k.keepAlive] \in Response
  <2>1. k.keepAlive \in BOOLEAN
    BY DEF Connection
  <2>2. QED
    BY <2>1, NewResponseType
<1>6. res' \in [Conn -> [Request -> Response]]
  <2>1. \/ res' = res
        \/ res' = [res EXCEPT ![c][k.nreq + 1] =
                     [NoResponse EXCEPT !.st = "fresh", !.keepAlive = k.keepAlive]]
    BY DEF DispatchCurrent
  <2>2. res \in [Conn -> [Request -> Response]]
    BY DEF TypeOK
  <2>3. QED
    BY <1>5, <2>1, <2>2, ResUpdate
<1>7. QED
  BY <1>2, <1>3, <1>4, <1>6

LEMMA ConsumeType ==
    ASSUME NEW k \in Connection, k.inbuf # <<>>
    PROVE  Consume(k) \in Connection
<1>1. Tail(k.inbuf) \in Seq(AllTokens)
  BY FieldTypes, HeadTailProperties
<1>2. QED
  BY <1>1 DEF Consume, Connection

LEMMA CommitType ==
    ASSUME NEW k \in Connection, NEW q, NEW r \in Nat
    PROVE  Commit(k, q, r) \in Connection
<1>1. AppendHead(k, r) \in Connection
  BY AppendType DEF Part
<1>2. QED
  BY <1>1 DEF Commit

LEMMA ReactorType ==
    ASSUME TypeOK, Reactor
    PROVE  TypeOK'
<1>1. ASSUME NEW c \in Conn, Accept(c)
      PROVE  TypeOK'
  <2>1. [conn[c] EXCEPT !.life = "open"] \in Connection
    BY DEF TypeOK, Connection
  <2>2. conn' = [conn EXCEPT ![c] = [conn[c] EXCEPT !.life = "open"]]
    BY <1>1 DEF Accept
  <2>3. QED
    BY <1>1, <2>1, <2>2 DEF Accept, TypeOK
<1>2. ASSUME NEW c \in Conn, OnError(c)
      PROVE  TypeOK'
  <2>1. LoopClose(conn[c]) \in Connection
    BY LoopCloseType DEF TypeOK
  <2>2. QED
    BY <1>2, <2>1 DEF OnError, TypeOK
<1>3. ASSUME NEW c \in Conn, OnWritable(c)
      PROVE  TypeOK'
  <2>1. \A k \in FlushAndMaybeClose(conn[c]) : k \in Connection
    BY FlushType DEF TypeOK
  <2>2. QED
    BY <1>3, <2>1 DEF OnWritable, TypeOK
<1>4. ASSUME NEW c \in Conn, NEW ts \in Batch, NEW eof \in BOOLEAN, OnReadable(c, ts, eof)
      PROVE  TypeOK'
  <2> DEFINE k == Received(conn[c], ts, eof)
  <2>1. ts \in Seq(AllTokens)
    <3>1. PICK n \in 0 .. MaxBatch : ts \in [1 .. n -> Token]
      BY DEF Batch
    <3>2. QED
      BY <3>1, BoundAssumption, TokenAssumption
  <2>2. conn[c] \in Connection
    BY DEF TypeOK
  <2>3. k \in Connection
    <3>1. conn[c].inbuf \o ts \in Seq(AllTokens) /\ conn[c].rcvd + Len(ts) \in Nat
          /\ (conn[c].peerClosed \/ eof) \in BOOLEAN
      BY <2>1, <2>2 DEF Connection
    <3>2. ASSUME NEW s \in Seq(AllTokens), NEW n \in Nat, NEW b \in BOOLEAN
          PROVE  [conn[c] EXCEPT !.inbuf = s, !.rcvd = n, !.peerClosed = b] \in Connection
      BY <2>2 DEF Connection
    <3>3. QED
      BY <3>1, <3>2 DEF Received
  <2> HIDE DEF k
  <2>4. LoopClose(k) \in Connection /\ [k EXCEPT !.processing = TRUE] \in Connection
    BY <2>3, LoopCloseType DEF Connection
  <2>5. stack' \in Seq(Frame)
    BY <1>4, PushType DEF OnReadable, TypeOK, At
  <2>6. conn' = [conn EXCEPT ![c] = LoopClose(k)]
        \/ conn' = [conn EXCEPT ![c] = [k EXCEPT !.processing = TRUE]]
    BY <1>4 DEF OnReadable, k
  <2>7. conn' \in [Conn -> Connection]
    BY <2>4, <2>6 DEF TypeOK
  <2>8. QED
    BY <1>4, <2>5, <2>7 DEF OnReadable, TypeOK
<1>5. ASSUME Purge
      PROVE  TypeOK'
  <2>1. \A c \in Conn : conn[c] \in Connection /\ [conn[c] EXCEPT !.life = "gone"] \in Connection
    BY LoopCloseType DEF TypeOK
  <2>2. conn' \in [Conn -> Connection]
    BY <1>5, <2>1 DEF Purge
  <2>3. QED
    BY <1>5, <2>2 DEF Purge, TypeOK
<1>6. QED
  BY <1>1, <1>2, <1>3, <1>4, <1>5 DEF Reactor

LEMMA ProcessInputType ==
    ASSUME TypeOK, ProcessInput
    PROVE  TypeOK'
<1> DEFINE c == Top.c
           k == conn[c]
<1>1. stack # <<>> /\ stack \in Seq(Frame)
  BY DEF ProcessInput, ParseHead, ParseBodyHead, ParseBody, ParseError, ReturnFromInput, AtTop, TypeOK
<1>2. c \in Conn /\ k \in Connection /\ Top.was \in BOOLEAN
  BY <1>1, StackTypes DEF TypeOK
<1>3. CanParse(k) => Consume(k) \in Connection /\ Head(k.inbuf) \in AllTokens
  BY <1>2, ConsumeType, FieldTypes, HeadTailProperties DEF CanParse
<1>4. CASE ParseHead
  <2>1. [Consume(k) EXCEPT !.keepAlive = Head(k.inbuf) = "get"] \in Connection
    BY <1>3, <1>4 DEF ParseHead, Connection
  <2>2. DispatchCurrent(c, [Consume(k) EXCEPT !.keepAlive = Head(k.inbuf) = "get"])
    BY <1>4 DEF ParseHead
  <2>3. QED
    BY <1>1, <1>2, <1>4, <2>1, <2>2, DispatchType DEF TypeOK, ParseHead
<1>5. CASE ParseBodyHead
  <2> DEFINE h == [Consume(k) EXCEPT !.keepAlive = TRUE, !.state = "body"]
  <2>1. h \in Connection
    BY <1>3, <1>5 DEF ParseBodyHead, Connection
  <2> HIDE DEF h
  <2>2. [h EXCEPT !.out = Append(@, [req |-> k.nreq + 1, part |-> "continue"])] \in Connection
    <3>1. k.nreq + 1 \in Nat /\ "continue" \in Part
      BY <1>2, FieldTypes DEF Part
    <3>2. QED
      BY <2>1, <3>1, AppendType
  <2>3. conn' = [conn EXCEPT ![c] =
               IF Head(k.inbuf) = "expect"
                 THEN [h EXCEPT !.out = Append(@, [req |-> k.nreq + 1, part |-> "continue"])]
                 ELSE h]
    BY <1>5 DEF ParseBodyHead, h
  <2>4. conn' \in [Conn -> Connection]
    BY <1>2, <2>1, <2>2, <2>3 DEF TypeOK
  <2>5. QED
    BY <1>5, <2>4 DEF ParseBodyHead, TypeOK
<1>6. CASE ParseBody
  <2>1. [Consume(k) EXCEPT !.state = "head"] \in Connection
    BY <1>3, <1>6 DEF ParseBody, Connection
  <2>2. DispatchCurrent(c, [Consume(k) EXCEPT !.state = "head"])
    BY <1>6 DEF ParseBody
  <2>3. QED
    BY <1>1, <1>2, <1>6, <2>1, <2>2, DispatchType DEF TypeOK, ParseBody
<1>7. CASE ParseError
  <2>1. SendErrorAndClose(Consume(k)) \in Connection
    BY <1>3, <1>7, FinalAnswerType DEF ParseError
  <2>2. conn' = [conn EXCEPT ![c] = SendErrorAndClose(Consume(k))]
    BY <1>7 DEF ParseError
  <2>3. QED
    BY <1>2, <1>7, <2>1, <2>2 DEF ParseError, TypeOK
<1>8. CASE ReturnFromInput
  <2> DEFINE p == [k EXCEPT !.processing = Top.was]
  <2>1. p \in Connection
    BY <1>2 DEF Connection
  <2> HIDE DEF p
  <2>2. \E q \in (IF p.processing THEN {p} ELSE FlushAndMaybeClose(p)) :
           conn' = [conn EXCEPT ![c] = q]
    BY <1>8 DEF ReturnFromInput, p
  <2>3. conn' \in [Conn -> Connection]
    BY <1>2, <2>1, <2>2, FlushType DEF TypeOK
  <2>4. stack' \in Seq(Frame)
    BY <1>1, <1>8, StackTypes DEF ReturnFromInput
  <2>5. QED
    BY <1>8, <2>3, <2>4 DEF ReturnFromInput, TypeOK
<1>9. QED
  BY <1>4, <1>5, <1>6, <1>7, <1>8 DEF ProcessInput

LEMMA HandlersType ==
    ASSUME TypeOK, Handlers, gate.active > 0 \/ ~AtTop("handler")
    PROVE  TypeOK'
<1>1. /\ stack # <<>> /\ stack \in Seq(Frame)
      /\ gate \in Gate /\ gate.active \in Nat /\ gate.draining \in BOOLEAN
      /\ gate.deferred \in Seq(Conn)
  BY DEF Handlers, HandlerReturns, HandlerThrows, DrainNext, DrainDone, AtTop, TypeOK, Gate
<1>2. Top.c \in Conn /\ conn[Top.c] \in Connection
  BY <1>1, StackTypes DEF TypeOK
<1>3. ASSUME LeaveHandler, AtTop("handler")
      PROVE  stack' \in Seq(Frame) /\ gate' \in Gate
  <2>1. gate.active - 1 \in Nat
    BY <1>1, <1>3
  <2>2. \/ gate' = [gate EXCEPT !.active = 0, !.draining = TRUE]
        \/ gate' = [gate EXCEPT !.active = gate.active - 1]
    BY <1>3 DEF LeaveHandler
  <2>3. \E w \in At : stack' = MoveTo(w)
    BY <1>3 DEF LeaveHandler, At
  <2>4. gate' \in Gate
    <3>1. [gate EXCEPT !.active = 0, !.draining = TRUE] \in Gate
      BY <1>1 DEF Gate
    <3>2. [gate EXCEPT !.active = gate.active - 1] \in Gate
      BY <1>1, <2>1 DEF Gate
    <3>3. QED
      BY <2>2, <3>1, <3>2
  <2>5. QED
    BY <1>1, <2>3, <2>4, MoveType
<1>4. CASE HandlerReturns
  <2>1. HalfClosed(conn[Top.c]) \in Connection
    BY <1>2, LoopCloseType DEF HalfClosed
  <2>2. conn' = [conn EXCEPT ![Top.c] = HalfClosed(conn[Top.c])]
    BY <1>4 DEF HandlerReturns
  <2>3. QED
    BY <1>2, <1>3, <1>4, <2>1, <2>2 DEF HandlerReturns, TypeOK
<1>5. CASE HandlerThrows
  <2> DEFINE k == IF conn[Top.c].busy THEN Send500(conn[Top.c]) ELSE conn[Top.c]
  <2>1. k \in Connection
    BY <1>2, FinalAnswerType
  <2>2. conn' = [conn EXCEPT ![Top.c] = k]
    BY <1>5 DEF HandlerThrows
  <2> HIDE DEF k
  <2>3. QED
    BY <1>2, <1>3, <1>5, <2>1, <2>2 DEF HandlerThrows, TypeOK
<1>6. CASE DrainNext
  <2> DEFINE c == Head(gate.deferred)
             k == conn[c]
             served == [k EXCEPT !.deferred = FALSE, !.busy = TRUE, !.processing = TRUE,
                                 !.nreq = @ + 1]
             fresh == [NoResponse EXCEPT !.st = "fresh", !.keepAlive = k.keepAlive]
             rest == [gate EXCEPT !.deferred = Tail(@)]
  <2>1. c \in Conn /\ Tail(gate.deferred) \in Seq(Conn)
    BY <1>1, <1>6, HeadTailProperties DEF DrainNext
  <2>2. k \in Connection
    BY <2>1 DEF TypeOK
  <2>3. k.keepAlive \in BOOLEAN /\ k.processing \in BOOLEAN
    BY <2>2 DEF Connection
  <2>4. served \in Connection
    BY <2>2, ServingFields
  <2>5. fresh \in Response
    BY <2>3, NewResponseType
  <2>6. /\ rest \in Gate /\ [rest EXCEPT !.active = @ + 1] \in Gate
    <3>1. [gate EXCEPT !.deferred = Tail(gate.deferred)] \in Gate
      BY <1>1, <2>1 DEF Gate
    <3>2. [gate EXCEPT !.deferred = Tail(gate.deferred)].active + 1 \in Nat
      BY <1>1 DEF Gate
    <3>3. ASSUME NEW g \in Gate, NEW a \in Nat
          PROVE  [g EXCEPT !.active = a] \in Gate
      BY DEF Gate
    <3>4. QED
      BY <3>1, <3>2, <3>3
  <2>7. Push(c, "handler", k.processing) \in Seq(Frame)
    BY <1>1, <2>1, <2>3, PushType DEF At
  <2>8. \/ /\ conn' = [conn EXCEPT ![c] = served]
           /\ gate' = [rest EXCEPT !.active = @ + 1]
           /\ stack' = Push(c, "handler", k.processing)
           /\ res' = [res EXCEPT ![c][k.nreq + 1] = fresh]
        \/ gate' = rest /\ UNCHANGED <<conn, stack, res>>
    BY <1>6 DEF DrainNext
  <2>9. cached' = cached
    BY <1>6 DEF DrainNext
  <2> HIDE DEF c, k, served, fresh, rest
  <2>10. conn' \in [Conn -> Connection]
    BY <2>1, <2>4, <2>8 DEF TypeOK
  <2>11. res' \in [Conn -> [Request -> Response]]
    <3>1. res \in [Conn -> [Request -> Response]]
      BY DEF TypeOK
    <3>2. res' = res \/ res' = [res EXCEPT ![c][k.nreq + 1] = fresh]
      BY <2>8
    <3>3. \A n : [res EXCEPT ![c][n] = fresh] \in [Conn -> [Request -> Response]]
      BY <2>1, <2>5, <3>1
    <3>4. QED
      BY <3>1, <3>2, <3>3
  <2>12. stack' \in Seq(Frame) /\ gate' \in Gate
    BY <1>1, <2>6, <2>7, <2>8
  <2>13. QED
    BY <2>9, <2>10, <2>11, <2>12 DEF TypeOK
<1>7. CASE DrainDone
  <2>1. [gate EXCEPT !.draining = FALSE] \in Gate
    BY <1>1 DEF Gate
  <2>2. MoveTo("loop") \in Seq(Frame)
    BY <1>1, MoveType DEF At
  <2>3. QED
    BY <1>7, <2>1, <2>2 DEF DrainDone, TypeOK
<1>8. QED
  BY <1>4, <1>5, <1>6, <1>7 DEF Handlers

LEMMA CompleteType ==
    ASSUME TypeOK, NEW c \in Conn, NEW k \in Connection, NEW ka \in BOOLEAN,
           ResponseComplete(c, k, ka)
    PROVE  conn' \in [Conn -> Connection] /\ stack' \in Seq(Frame)
<1> DEFINE q == [k EXCEPT !.busy = FALSE, !.closing = @ \/ ~ka]
<1>1. q \in Connection
  <2>1. (k.closing \/ ~ka) \in BOOLEAN
    OBVIOUS
  <2>2. ASSUME NEW b \in BOOLEAN
        PROVE  [k EXCEPT !.busy = FALSE, !.closing = b] \in Connection
    BY DEF Connection
  <2>3. QED
    BY <2>1, <2>2
<1> HIDE DEF q
<1>2. [q EXCEPT !.processing = TRUE] \in Connection
  BY <1>1 DEF Connection
<1>3. \/ conn' = [conn EXCEPT ![c] = q] /\ stack' = stack
      \/ /\ conn' = [conn EXCEPT ![c] = [q EXCEPT !.processing = TRUE]]
         /\ stack' = Push(c, "loop", FALSE)
  BY DEF ResponseComplete, q
<1>4. Push(c, "loop", FALSE) \in Seq(Frame)
  BY PushType DEF TypeOK, At
<1>5. QED
  BY <1>1, <1>2, <1>3, <1>4 DEF TypeOK

LEMMA ResponseFields ==
    ASSUME NEW q \in Response, NEW b \in BOOLEAN, NEW n \in Nat,
           NEW t \in {"committed", "finished"}
    PROVE  /\ [q EXCEPT !.st = t, !.keepAlive = b] \in Response
           /\ [q EXCEPT !.st = t, !.writes = n] \in Response
           /\ [q EXCEPT !.destroyed = TRUE] \in Response
           /\ q.writes \in Nat /\ q.keepAlive \in BOOLEAN
BY DEF Response

LEMMA JavaScriptType ==
    ASSUME TypeOK, JavaScript
    PROVE  TypeOK'
<1>0. PICK c \in Conn :
        \/ \E r \in Request :
              \/ \E ka \in BOOLEAN : WriteHead(c, r, ka) \/ End(c, r, ka)
              \/ Write(c, r)
              \/ DestroyResponse(c, r)
        \/ DestroySocket(c)
  BY DEF JavaScript
<1>1. conn[c] \in Connection /\ stack \in Seq(Frame) /\ gate \in Gate
      /\ res \in [Conn -> [Request -> Response]]
  BY DEF TypeOK
<1>2. ASSUME Find(c)
      PROVE  cached' \in Conn \cup {NoConn}
  BY <1>2 DEF Find, TypeOK
<1>3. \A r \in Request : r \in Nat /\ res[c][r] \in Response
  BY <1>1, BoundAssumption DEF Request
<1>4. \A r \in Request, ka \in BOOLEAN : KeepAliveFinal(res[c][r], ka) \in BOOLEAN
  <2>1. \A r \in Request : res[c][r].keepAlive \in BOOLEAN
    BY <1>3 DEF Response
  <2>2. QED
    BY <2>1 DEF KeepAliveFinal
<1>5. ASSUME NEW r \in Request, NEW ka \in BOOLEAN, WriteHead(c, r, ka)
      PROVE  TypeOK'
  <2> DEFINE b == KeepAliveFinal(res[c][r], ka)
  <2>1. AppendHead(conn[c], r) \in Connection
    BY <1>1, <1>3, AppendType DEF Part
  <2>2. conn' \in [Conn -> Connection]
    BY <1>5, <2>1 DEF WriteHead, TypeOK
  <2>3. [res[c][r] EXCEPT !.st = "committed", !.keepAlive = b] \in Response
    BY <1>3, <1>4, ResponseFields
  <2>4. res' = [res EXCEPT ![c][r] = [res[c][r] EXCEPT !.st = "committed", !.keepAlive = b]]
    BY <1>5 DEF WriteHead
  <2> HIDE DEF b
  <2>5. QED
    BY <1>1, <1>2, <1>5, <2>2, <2>3, <2>4, ResUpdate DEF WriteHead, TypeOK
<1>6. ASSUME NEW r \in Request, NEW ka \in BOOLEAN, End(c, r, ka)
      PROVE  TypeOK'
  <2> DEFINE b == KeepAliveFinal(res[c][r], ka)
             e == Enqueue(Commit(conn[c], res[c][r], r), r, "end")
  <2>1. \A k \in e : k \in Connection
    BY <1>1, <1>3, CommitType, EnqueueType DEF Part
  <2>2. (\E k \in e : ResponseComplete(c, k, b)) \/ UNCHANGED <<conn, stack>>
    BY <1>6 DEF End
  <2>3. conn' \in [Conn -> Connection] /\ stack' \in Seq(Frame)
    BY <1>1, <1>4, <2>1, <2>2, CompleteType DEF TypeOK
  <2>4. [res[c][r] EXCEPT !.st = "finished", !.keepAlive = b] \in Response
    BY <1>3, <1>4, ResponseFields
  <2>5. res' = [res EXCEPT ![c][r] = [res[c][r] EXCEPT !.st = "finished", !.keepAlive = b]]
    BY <1>6 DEF End
  <2>6. gate' = gate /\ Find(c)
    BY <1>6 DEF End
  <2> HIDE DEF b
  <2>7. QED
    BY <1>1, <1>2, <2>3, <2>4, <2>5, <2>6, ResUpdate DEF TypeOK
<1>7. ASSUME NEW r \in Request, Write(c, r)
      PROVE  TypeOK'
  <2>1. \A k \in Enqueue(Commit(conn[c], res[c][r], r), r, "body") : k \in Connection
    BY <1>1, <1>3, CommitType, EnqueueType DEF Part
  <2>2. conn' \in [Conn -> Connection]
    BY <1>7, <2>1 DEF Write, TypeOK
  <2>3. [res[c][r] EXCEPT !.st = "committed", !.writes = res[c][r].writes + 1] \in Response
    <3>1. res[c][r].writes + 1 \in Nat
      BY <1>3 DEF Response
    <3>2. QED
      BY <1>3, <3>1, ResponseFields
  <2>4. res' = [res EXCEPT ![c][r] =
                  [res[c][r] EXCEPT !.st = "committed", !.writes = res[c][r].writes + 1]]
    BY <1>7 DEF Write
  <2>5. res' \in [Conn -> [Request -> Response]]
    BY <1>1, <2>3, <2>4, ResUpdate
  <2>6. UNCHANGED <<stack, gate>> /\ Find(c)
    BY <1>7 DEF Write
  <2>7. QED
    BY <1>1, <1>2, <2>2, <2>5, <2>6 DEF TypeOK
<1>8. ASSUME HardDestroy(c)
      PROVE  conn' \in [Conn -> Connection]
  <2>1. LoopClose([conn[c] EXCEPT !.closing = TRUE]) \in Connection
    BY <1>1, LoopCloseType
  <2>2. QED
    BY <1>8, <2>1 DEF HardDestroy, TypeOK
<1>9. ASSUME NEW r \in Request, DestroyResponse(c, r)
      PROVE  TypeOK'
  <2>1. [res[c][r] EXCEPT !.destroyed = TRUE] \in Response
    BY <1>3 DEF Response
  <2>2. res' = [res EXCEPT ![c][r] = [res[c][r] EXCEPT !.destroyed = TRUE]]
    BY <1>9 DEF DestroyResponse
  <2>3. QED
    BY <1>1, <1>2, <1>8, <1>9, <2>1, <2>2, ResUpdate DEF DestroyResponse, TypeOK
<1>10. CASE DestroySocket(c)
  BY <1>1, <1>2, <1>8, <1>10 DEF DestroySocket, TypeOK
<1>11. QED
  BY <1>0, <1>5, <1>6, <1>7, <1>9, <1>10

----------------
(***************************************************************************)
(* The gate: GateInv is inductive together with TypeOK.                    *)
(***************************************************************************)

LEMMA FrameAt ==
    ASSUME TypeOK
    PROVE  /\ Len(stack) \in Nat /\ (stack = <<>> <=> Len(stack) = 0)
           /\ \A i \in 1 .. Len(stack) : stack[i] \in Frame /\ stack[i].at \in At
           /\ gate.active \in Nat /\ gate.draining \in BOOLEAN /\ gate.deferred \in Seq(Conn)
<1>1. stack \in Seq(Frame) /\ gate \in Gate
  BY DEF TypeOK
<1>2. \A i \in 1 .. Len(stack) : stack[i] \in Frame
  BY <1>1
<1>3. \A i \in 1 .. Len(stack) : stack[i].at \in At
  BY <1>2 DEF Frame, At
<1>4. QED
  BY <1>1, <1>2, <1>3 DEF Gate

LEMMA PushFrame ==
    ASSUME TypeOK, NEW c \in Conn, NEW w \in At, NEW b \in BOOLEAN
    PROVE  /\ Len(Push(c, w, b)) = Len(stack) + 1
           /\ \A i \in 1 .. Len(stack) : Push(c, w, b)[i] = stack[i]
           /\ Push(c, w, b)[Len(stack) + 1].at = w
<1>1. stack \in Seq(Frame) /\ [c |-> c, at |-> w, was |-> b] \in Frame
  BY DEF TypeOK, Frame, At
<1>2. QED
  BY <1>1 DEF Push

\* What GateInv says when the activation on top of the stack is known.
LEMMA GateTop ==
    ASSUME TypeOK, GateInv, stack # <<>>
    PROVE  /\ stack[Len(stack)].at = "loop" =>
                \/ OneFrame("loop") /\ GateIs(0, FALSE) /\ gate.deferred = <<>>
                \/ TwoFrames("handler", "loop") /\ GateIs(1, FALSE)
                \/ TwoFrames("drain", "loop") /\ GateIs(0, TRUE)
                \/ ThreeFrames("drain", "handler", "loop") /\ GateIs(1, TRUE)
           /\ stack[Len(stack)].at = "handler" =>
                \/ OneFrame("handler") /\ GateIs(1, FALSE)
                \/ TwoFrames("drain", "handler") /\ GateIs(1, TRUE)
           /\ stack[Len(stack)].at = "drain" => OneFrame("drain") /\ GateIs(0, TRUE)
<1>1. Len(stack) # 0
  BY FrameAt
<1>2. QED
  BY <1>1 DEF GateInv, OneFrame, TwoFrames, ThreeFrames, GateIs

LEMMA GatePush ==
    ASSUME TypeOK, GateInv, InJavaScript, NEW c \in Conn, NEW b \in BOOLEAN,
           stack' = Push(c, "loop", b), gate' = gate
    PROVE  GateInv'
<1>1. /\ Len(stack') = Len(stack) + 1
      /\ \A i \in 1 .. Len(stack) : stack'[i] = stack[i]
      /\ stack'[Len(stack) + 1].at = "loop"
  <2>1. "loop" \in At
    BY DEF At
  <2>2. QED
    BY <2>1, PushFrame
<1>2. CASE stack = <<>>
  <2>1. Len(stack) = 0
    BY <1>2
  <2>2. OneFrame("loop")'
    BY <1>1, <2>1 DEF OneFrame
  <2>3. GateIs(0, FALSE)' /\ gate'.deferred = <<>>
    BY <2>1 DEF GateInv, OneFrame, TwoFrames, ThreeFrames, GateIs
  <2>4. QED
    BY <2>2, <2>3 DEF GateInv
<1>3. CASE stack # <<>>
  <2>1. stack[Len(stack)].at = "handler"
    BY <1>3 DEF InJavaScript, AtTop, Top
  <2>2. CASE OneFrame("handler") /\ GateIs(1, FALSE)
    <3>1. TwoFrames("handler", "loop")'
      BY <1>1, <2>2 DEF OneFrame, TwoFrames
    <3>2. GateIs(1, FALSE)'
      BY <2>2 DEF GateIs
    <3>3. QED
      BY <3>1, <3>2 DEF GateInv
  <2>3. CASE TwoFrames("drain", "handler") /\ GateIs(1, TRUE)
    <3>1. ThreeFrames("drain", "handler", "loop")'
      BY <1>1, <2>3 DEF TwoFrames, ThreeFrames
    <3>2. GateIs(1, TRUE)'
      BY <2>3 DEF GateIs
    <3>3. QED
      BY <3>1, <3>2 DEF GateInv
  <2>4. QED
    BY <1>3, <2>1, <2>2, <2>3, GateTop
<1>4. QED
  BY <1>2, <1>3

LEMMA GatePop ==
    ASSUME TypeOK, GateInv, AtTop("loop"), stack' = Below, gate' = gate
    PROVE  GateInv'
<1>1. stack # <<>> /\ stack[Len(stack)].at = "loop"
  BY DEF AtTop, Top
<1>2. Len(stack') = Len(stack) - 1 /\ \A i \in 1 .. Len(stack) - 1 : stack'[i] = stack[i]
  BY <1>1, StackTypes DEF TypeOK
<1>3. CASE OneFrame("loop") /\ GateIs(0, FALSE) /\ gate.deferred = <<>>
  <2>1. Len(stack') = 0
    BY <1>2, <1>3 DEF OneFrame
  <2>2. QED
    BY <1>3, <2>1 DEF GateInv, GateIs
<1>4. CASE TwoFrames("handler", "loop") /\ GateIs(1, FALSE)
  <2>1. OneFrame("handler")'
    BY <1>2, <1>4 DEF OneFrame, TwoFrames
  <2>2. QED
    BY <1>4, <2>1 DEF GateInv, GateIs
<1>5. CASE TwoFrames("drain", "loop") /\ GateIs(0, TRUE)
  <2>1. OneFrame("drain")'
    BY <1>2, <1>5 DEF OneFrame, TwoFrames
  <2>2. QED
    BY <1>5, <2>1 DEF GateInv, GateIs
<1>6. CASE ThreeFrames("drain", "handler", "loop") /\ GateIs(1, TRUE)
  <2>1. TwoFrames("drain", "handler")'
    BY <1>2, <1>6 DEF TwoFrames, ThreeFrames
  <2>2. QED
    BY <1>6, <2>1 DEF GateInv, GateIs
<1>7. QED
  BY <1>1, <1>3, <1>4, <1>5, <1>6, GateTop

LEMMA GateMove ==
    ASSUME TypeOK, stack # <<>>, NEW w \in At, stack' = MoveTo(w)
    PROVE  /\ Len(stack') = Len(stack) /\ stack'[Len(stack)].at = w
           /\ \A i \in 1 .. Len(stack) - 1 : stack'[i] = stack[i]
BY MoveType DEF TypeOK

LEMMA GateDispatch ==
    ASSUME TypeOK, GateInv, AtTop("loop"), NEW c \in Conn, NEW k, DispatchCurrent(c, k)
    PROVE  GateInv'
<1>1. stack # <<>> /\ stack[Len(stack)].at = "loop"
  BY DEF AtTop, Top
<1>2. \/ OneFrame("loop") /\ GateIs(0, FALSE) /\ gate.deferred = <<>>
      \/ TwoFrames("handler", "loop") /\ GateIs(1, FALSE)
      \/ TwoFrames("drain", "loop") /\ GateIs(0, TRUE)
      \/ ThreeFrames("drain", "handler", "loop") /\ GateIs(1, TRUE)
  BY <1>1, GateTop
<1>3. CASE gate.active > 0
  <2>1. stack' = MoveTo("loop") /\ gate'.active = gate.active /\ gate'.draining = gate.draining
    BY <1>3 DEF DispatchCurrent, TypeOK, Gate
  <2>2. /\ Len(stack') = Len(stack) /\ stack'[Len(stack)].at = "loop"
        /\ \A i \in 1 .. Len(stack) - 1 : stack'[i] = stack[i]
    BY <1>1, <2>1, GateMove DEF At
  <2>3. CASE TwoFrames("handler", "loop") /\ GateIs(1, FALSE)
    <3>1. TwoFrames("handler", "loop")' /\ GateIs(1, FALSE)'
      BY <2>1, <2>2, <2>3 DEF TwoFrames, GateIs
    <3>2. QED
      BY <3>1 DEF GateInv
  <2>4. CASE ThreeFrames("drain", "handler", "loop") /\ GateIs(1, TRUE)
    <3>1. ThreeFrames("drain", "handler", "loop")' /\ GateIs(1, TRUE)'
      BY <2>1, <2>2, <2>4 DEF ThreeFrames, GateIs
    <3>2. QED
      BY <3>1 DEF GateInv
  <2>5. ~GateIs(0, FALSE) /\ ~GateIs(0, TRUE)
    BY <1>3 DEF GateIs
  <2>6. QED
    BY <1>2, <2>3, <2>4, <2>5
<1>4. CASE ~(gate.active > 0)
  <2>1. /\ stack' = MoveTo("handler") /\ gate'.active = gate.active + 1
        /\ gate'.draining = gate.draining
    BY <1>4 DEF DispatchCurrent, TypeOK, Gate
  <2>2. /\ Len(stack') = Len(stack) /\ stack'[Len(stack)].at = "handler"
        /\ \A i \in 1 .. Len(stack) - 1 : stack'[i] = stack[i]
    BY <1>1, <2>1, GateMove DEF At
  <2>3. CASE OneFrame("loop") /\ GateIs(0, FALSE)
    <3>1. OneFrame("handler")' /\ GateIs(1, FALSE)'
      BY <2>1, <2>2, <2>3 DEF OneFrame, GateIs
    <3>2. QED
      BY <3>1 DEF GateInv
  <2>4. CASE TwoFrames("drain", "loop") /\ GateIs(0, TRUE)
    <3>1. TwoFrames("drain", "handler")' /\ GateIs(1, TRUE)'
      BY <2>1, <2>2, <2>4 DEF TwoFrames, GateIs
    <3>2. QED
      BY <3>1 DEF GateInv
  <2>5. ~GateIs(1, FALSE) /\ ~GateIs(1, TRUE)
    BY <1>4 DEF GateIs
  <2>6. QED
    BY <1>2, <2>3, <2>4, <2>5
<1>5. QED
  BY <1>3, <1>4

LEMMA GateLeave ==
    ASSUME TypeOK, GateInv, AtTop("handler"), LeaveHandler
    PROVE  GateInv' /\ gate.active = 1
<1>1. stack # <<>> /\ stack[Len(stack)].at = "handler"
  BY DEF AtTop, Top
<1>2. \/ OneFrame("handler") /\ GateIs(1, FALSE)
      \/ TwoFrames("drain", "handler") /\ GateIs(1, TRUE)
  BY <1>1, GateTop
<1>3. gate.active = 1
  BY <1>2 DEF GateIs
<1>4. CASE OneFrame("handler") /\ GateIs(1, FALSE)
  <2>1. LastHandler
    BY <1>4 DEF GateIs, LastHandler
  <2>2. stack' = MoveTo("drain")
    BY <2>1 DEF LeaveHandler
  <2>3. OneFrame("drain")'
    BY <1>1, <1>4, <2>2, GateMove DEF At, OneFrame
  <2>4. GateIs(0, TRUE)'
    BY <2>1 DEF LeaveHandler, GateIs, TypeOK, Gate
  <2>5. QED
    BY <1>3, <2>3, <2>4 DEF GateInv, GateIs
<1>5. CASE TwoFrames("drain", "handler") /\ GateIs(1, TRUE)
  <2>1. ~LastHandler
    BY <1>5 DEF GateIs, LastHandler
  <2>2. stack' = MoveTo("loop")
    BY <2>1 DEF LeaveHandler
  <2>3. TwoFrames("drain", "loop")'
    BY <1>1, <1>5, <2>2, GateMove DEF At, TwoFrames
  <2>4. GateIs(0, TRUE)'
    BY <1>5, <2>1 DEF LeaveHandler, GateIs, TypeOK, Gate
  <2>5. QED
    BY <1>3, <2>3, <2>4 DEF GateInv, GateIs
<1>6. QED
  BY <1>2, <1>4, <1>5

LEMMA GateDrain ==
    ASSUME TypeOK, GateInv, DrainNext \/ DrainDone
    PROVE  GateInv'
<1>1. AtTop("drain") /\ stack # <<>> /\ stack[Len(stack)].at = "drain"
  BY DEF DrainNext, DrainDone, AtTop, Top
<1>2. OneFrame("drain") /\ GateIs(0, TRUE)
  BY <1>1, GateTop
<1>3. CASE DrainNext
  <2> DEFINE c == Head(gate.deferred)
  <2>1. c \in Conn
    BY <1>3, FrameAt DEF DrainNext
  <2>2. \/ /\ stack' = Push(c, "handler", conn[c].processing)
           /\ gate' = [[gate EXCEPT !.deferred = Tail(@)] EXCEPT !.active = @ + 1]
        \/ stack' = stack /\ gate' = [gate EXCEPT !.deferred = Tail(@)]
    BY <1>3 DEF DrainNext
  <2>3. CASE /\ stack' = Push(c, "handler", conn[c].processing)
             /\ gate' = [[gate EXCEPT !.deferred = Tail(@)] EXCEPT !.active = @ + 1]
    <3>1. conn[c].processing \in BOOLEAN
      BY <2>1 DEF TypeOK, Connection
    <3> HIDE DEF c
    <3>2. /\ Len(stack') = Len(stack) + 1 /\ stack'[Len(stack) + 1].at = "handler"
          /\ \A i \in 1 .. Len(stack) : stack'[i] = stack[i]
      <4>1. "handler" \in At
        BY DEF At
      <4>2. QED
        BY <2>1, <2>3, <3>1, <4>1, PushFrame
    <3>3. TwoFrames("drain", "handler")'
      BY <1>2, <3>2 DEF OneFrame, TwoFrames
    <3>4. GateIs(1, TRUE)'
      BY <1>2, <2>3, FrameAt DEF GateIs, TypeOK, Gate
    <3>5. QED
      BY <3>3, <3>4 DEF GateInv
  <2>4. CASE stack' = stack /\ gate' = [gate EXCEPT !.deferred = Tail(@)]
    <3>1. GateIs(0, TRUE)'
      BY <1>2, <2>4 DEF GateIs, TypeOK, Gate
    <3>2. OneFrame("drain")'
      BY <1>2, <2>4 DEF OneFrame
    <3>3. QED
      BY <3>1, <3>2 DEF GateInv
  <2>5. QED
    BY <2>2, <2>3, <2>4
<1>4. CASE DrainDone
  <2>1. gate.deferred = <<>> /\ stack' = MoveTo("loop")
    BY <1>2, <1>4 DEF DrainDone, GateIs
  <2>2. GateIs(0, FALSE)' /\ gate'.deferred = <<>>
    BY <1>2, <1>4, <2>1 DEF DrainDone, TypeOK, Gate, GateIs
  <2>3. OneFrame("loop")'
    BY <1>1, <1>2, <2>1, GateMove DEF At, OneFrame
  <2>4. QED
    BY <2>2, <2>3 DEF GateInv
<1>5. QED
  BY <1>3, <1>4

----------------
(* The invariant *)

Invariant == TypeOK /\ GateInv

LEMMA InvariantInit == Init => Invariant
<1> SUFFICES ASSUME Init PROVE Invariant
  OBVIOUS
<1>1. NewConnection \in Connection
  BY DEF NewConnection, Connection, NoMark
<1>2. NoResponse \in Response
  BY DEF NoResponse, Response
<1>3. TypeOK
  BY <1>1, <1>2 DEF Init, TypeOK, Gate
<1>4. GateInv
  BY DEF Init, GateInv, GateIs
<1>5. QED
  BY <1>3, <1>4 DEF Invariant

LEMMA GateNext ==
    ASSUME TypeOK, GateInv, [Next]_vars
    PROVE  GateInv'
<1>1. CASE gate' = gate /\ stack' = stack
  BY <1>1 DEF GateInv, GateIs, OneFrame, TwoFrames, ThreeFrames
<1>2. CASE Reactor
  <2>1. \/ gate' = gate /\ stack' = stack
        \/ stack = <<>> /\ gate' = gate /\ \E c \in Conn : stack' = Push(c, "loop", FALSE)
    BY <1>2 DEF Reactor, Accept, OnError, OnWritable, OnReadable, Purge
  <2>2. CASE stack = <<>> /\ gate' = gate /\ \E c \in Conn : stack' = Push(c, "loop", FALSE)
    <3>1. InJavaScript
      BY <2>2 DEF InJavaScript
    <3>2. PICK c \in Conn : stack' = Push(c, "loop", FALSE)
      BY <2>2
    <3>3. QED
      BY <2>2, <3>1, <3>2, GatePush
  <2>3. QED
    BY <1>1, <2>1, <2>2
<1>3. CASE ProcessInput
  <2>1. AtTop("loop") /\ Top.c \in Conn
    BY <1>3, StackTypes DEF ProcessInput, ParseHead, ParseBodyHead, ParseBody, ParseError,
                           ReturnFromInput, AtTop, TypeOK
  <2>2. CASE \E k : DispatchCurrent(Top.c, k)
    BY <2>1, <2>2, GateDispatch
  <2>3. CASE ParseHead
    BY <2>2, <2>3 DEF ParseHead
  <2>4. CASE ParseBody
    BY <2>2, <2>4 DEF ParseBody
  <2>5. CASE ParseBodyHead \/ ParseError
    BY <1>1, <2>5 DEF ParseBodyHead, ParseError
  <2>6. CASE ReturnFromInput
    BY <2>1, <2>6, GatePop DEF ReturnFromInput
  <2>7. QED
    BY <1>3, <2>3, <2>4, <2>5, <2>6 DEF ProcessInput
<1>4. CASE Handlers
  <2>1. CASE HandlerReturns \/ HandlerThrows
    BY <2>1, GateLeave DEF HandlerReturns, HandlerThrows
  <2>2. CASE DrainNext \/ DrainDone
    BY <2>2, GateDrain
  <2>3. QED
    BY <1>4, <2>1, <2>2 DEF Handlers
<1>5. CASE JavaScript
  <2>1. PICK c \in Conn : \/ \E r \in Request :
                              \/ \E ka \in BOOLEAN : WriteHead(c, r, ka) \/ End(c, r, ka)
                              \/ Write(c, r) \/ DestroyResponse(c, r)
                          \/ DestroySocket(c)
    BY <1>5 DEF JavaScript
  <2>2. ASSUME NEW r \in Request, NEW ka \in BOOLEAN, End(c, r, ka)
        PROVE  GateInv'
    <3>1. gate' = gate /\ InJavaScript
      BY <2>2 DEF End
    <3>2. stack' = stack \/ \E k, x : ResponseComplete(c, k, x)
      BY <2>2 DEF End
    <3>3. ASSUME NEW k, NEW x, ResponseComplete(c, k, x)
          PROVE  stack' = stack \/ stack' = Push(c, "loop", FALSE)
      BY <3>3 DEF ResponseComplete
    <3>4. stack' = stack \/ stack' = Push(c, "loop", FALSE)
      BY <3>2, <3>3
    <3>5. CASE stack' = Push(c, "loop", FALSE)
      BY <3>1, <3>5, GatePush
    <3>6. QED
      BY <1>1, <3>1, <3>4, <3>5
  <2>3. ASSUME NEW r \in Request,
               \/ \E ka \in BOOLEAN : WriteHead(c, r, ka)
               \/ Write(c, r) \/ DestroyResponse(c, r) \/ DestroySocket(c)
        PROVE  gate' = gate /\ stack' = stack
    BY <2>3 DEF WriteHead, Write, DestroyResponse, DestroySocket
  <2>4. DestroySocket(c) => gate' = gate /\ stack' = stack
    BY DEF DestroySocket
  <2>5. QED
    BY <1>1, <2>1, <2>2, <2>3, <2>4
<1>6. CASE UNCHANGED vars
  BY <1>1, <1>6 DEF vars
<1>7. QED
  BY <1>2, <1>3, <1>4, <1>5, <1>6 DEF Next

LEMMA TypeNext ==
    ASSUME TypeOK, GateInv, [Next]_vars
    PROVE  TypeOK'
<1>1. CASE Handlers
  <2>1. ASSUME AtTop("handler") PROVE gate.active > 0
    <3>1. stack # <<>> /\ stack[Len(stack)].at = "handler"
      BY <2>1 DEF AtTop, Top
    <3>2. GateIs(1, FALSE) \/ GateIs(1, TRUE)
      BY <3>1, GateTop
    <3>3. QED
      BY <3>2 DEF GateIs
  <2>2. QED
    BY <1>1, <2>1, HandlersType
<1>2. CASE UNCHANGED vars
  BY <1>2 DEF vars, TypeOK
<1>3. QED
  BY <1>1, <1>2, ReactorType, ProcessInputType, JavaScriptType DEF Next

LEMMA InvariantNext == Invariant /\ [Next]_vars => Invariant'
BY GateNext, TypeNext DEF Invariant

\* The type invariant and the agreement of gate and stack hold in every
\* reachable state, for any number of connections and nested calls.
THEOREM InvariantHolds == Spec => []Invariant
<1>1. Init => Invariant
  BY InvariantInit
<1>2. Invariant /\ [Next]_vars => Invariant'
  BY InvariantNext
<1>3. QED
  BY <1>1, <1>2, PTL DEF Spec

\* Every reachable state of connections, responses, stack, gate and registry
\* cache is well typed.
THEOREM TypeCorrect == Spec => []TypeOK
<1>1. Invariant => TypeOK
  BY DEF Invariant
<1>2. QED
  BY <1>1, InvariantHolds, PTL

\* HandlerDispatchGate agrees with the C++ stack in every reachable state.
THEOREM GateCorrect == Spec => []GateInv
<1>1. Invariant => GateInv
  BY DEF Invariant
<1>2. QED
  BY <1>1, InvariantHolds, PTL

\* Request handlers never nest: dispatchCurrent parks a request that
\* completes while a handler is on the stack.
THEOREM HandlersNeverNestCorrect == Spec => []HandlersNeverNest
<1>1. Invariant => HandlersNeverNest
  <2> SUFFICES ASSUME TypeOK, GateInv,
                      NEW i \in 1 .. Len(stack), NEW j \in 1 .. Len(stack),
                      stack[i].at = "handler", stack[j].at = "handler"
               PROVE  i = j
    BY DEF Invariant, HandlersNeverNest
  <2>1. Len(stack) \in Nat /\ Len(stack) <= 3
    BY FrameAt DEF GateInv, GateIs, OneFrame, TwoFrames, ThreeFrames
  <2>2. (i = 1 \/ i = 2 \/ i = 3) /\ (j = 1 \/ j = 2 \/ j = 3)
    BY <2>1
  <2>3. QED
    BY <2>1, <2>2 DEF GateInv, OneFrame, TwoFrames, ThreeFrames, GateIs
<1>2. QED
  BY <1>1, InvariantHolds, PTL

\* Whenever the reactor is between two callbacks the gate is open and no
\* parked request is left behind by drainDeferredHandlers.
THEOREM NothingStrandedCorrect == Spec => []NothingStranded
<1>1. Invariant => NothingStranded
  <2> SUFFICES ASSUME TypeOK, GateInv, stack = <<>>
               PROVE  gate = [active |-> 0, draining |-> FALSE, deferred |-> <<>>]
    BY DEF Invariant, NothingStranded
  <2>1. Len(stack) = 0
    OBVIOUS
  <2>2. gate.active = 0 /\ gate.draining = FALSE /\ gate.deferred = <<>>
    BY <2>1 DEF GateInv, GateIs, OneFrame, TwoFrames, ThreeFrames
  <2>3. QED
    BY <2>2 DEF TypeOK, Gate
<1>2. QED
  BY <1>1, InvariantHolds, PTL

----------------
(* The responses *)

Table == [Request -> Response]

----------------
(* The stream *)

LEMMA PieceTypes ==
    ASSUME NEW k \in Connection
    PROVE  /\ k.out \in Seq(Piece) /\ Len(k.out) \in Nat
           /\ (k.out = <<>> <=> Len(k.out) = 0)
           /\ \A i \in 1 .. Len(k.out) : k.out[i] \in Piece /\ k.out[i].req \in Nat /\ k.out[i].part \in Part
           /\ k.out # <<>> => /\ LastPiece(k) \in Piece /\ LastPiece(k).req \in Nat
                              /\ LastPiece(k).part \in Part
<1>1. k.out \in Seq(Piece)
  BY DEF Connection
<1>2. \A i \in 1 .. Len(k.out) : k.out[i] \in Piece
  BY <1>1
<1>3. \A p \in Piece : p.req \in Nat /\ p.part \in Part
  BY DEF Piece
<1>4. k.out # <<>> => Len(k.out) \in 1 .. Len(k.out)
  BY <1>1
<1>5. QED
  BY <1>1, <1>2, <1>3, <1>4 DEF LastPiece

\* A piece that may follow the last one keeps a stream in order.
LEMMA OrderAppend ==
    ASSUME NEW s \in Seq(Piece), InOrder(s), NEW p \in Piece,
           s = <<>> => p.req = 1 /\ p.part \notin {"body", "end"},
           s # <<>> => MayFollow(s[Len(s)], p)
    PROVE  InOrder(Append(s, p))
<1> DEFINE t == Append(s, p)
<1>1. Len(s) \in Nat /\ Len(t) = Len(s) + 1 /\ t[Len(s) + 1] = p
      /\ \A i \in 1 .. Len(s) : t[i] = s[i]
  OBVIOUS
<1>2. t[1].req = 1 /\ t[1].part \notin {"body", "end"}
  BY <1>1 DEF InOrder
<1>3. ASSUME NEW i \in 1 .. Len(t) - 1
      PROVE  MayFollow(t[i], t[i + 1])
  <2>1. CASE i = Len(s)
    <3>1. t[i] = s[Len(s)] /\ t[i + 1] = p /\ s # <<>>
      BY <1>1, <2>1
    <3>2. QED
      BY <3>1
  <2>2. CASE i # Len(s)
    <3>1. i \in 1 .. Len(s) - 1 /\ t[i] = s[i] /\ t[i + 1] = s[i + 1]
      BY <1>1, <2>2
    <3>2. QED
      BY <3>1 DEF InOrder
  <2>3. QED
    BY <2>1, <2>2
<1>4. QED
  BY <1>2, <1>3 DEF InOrder

\* So does giving up the last piece.
LEMMA OrderDrop ==
    ASSUME NEW s \in Seq(Piece), InOrder(s), s # <<>>
    PROVE  /\ SubSeq(s, 1, Len(s) - 1) \in Seq(Piece)
           /\ Len(SubSeq(s, 1, Len(s) - 1)) = Len(s) - 1
           /\ \A i \in 1 .. Len(s) - 1 : SubSeq(s, 1, Len(s) - 1)[i] = s[i]
           /\ InOrder(SubSeq(s, 1, Len(s) - 1))
<1> DEFINE n == Len(s) - 1
           t == SubSeq(s, 1, n)
<1>1. Len(s) \in Nat \ {0} /\ n = Len(s) - 1 /\ n \in Nat /\ \A i \in 1 .. n : s[i] \in Piece
  OBVIOUS
<1>2. /\ t \in Seq(Piece)
      /\ Len(t) = IF 1 <= n THEN n - 1 + 1 ELSE 0
      /\ \A i \in 1 .. n - 1 + 1 : t[i] = s[1 + i - 1]
  BY <1>1, SubSeqProperties
<1> HIDE DEF n, t
<1>3. Len(t) = n /\ \A i \in 1 .. n : t[i] = s[i]
  BY <1>1, <1>2
<1>4. InOrder(t)
  BY <1>1, <1>2, <1>3 DEF InOrder
<1>5. QED
  BY <1>1, <1>2, <1>3, <1>4 DEF n, t

----------------
(* Steps that leave the stream and the requests alone *)

Quiet(k, q) ==
    /\ q.out = k.out /\ q.nreq = k.nreq /\ q.state = k.state
    /\ (q.busy <=> k.busy) /\ (q.deferred <=> k.deferred) /\ (k.closing => q.closing)
    /\ k.life = "gone" => q.life = "gone"
    /\ q.life # "none"
    /\ q.deferred \/ q.processing => q.life \in {"open", "closing"}

LEMMA QuietOK ==
    ASSUME NEW k \in Connection, NEW q \in Connection, NEW rs \in Table,
           ObjectOK(k, rs), Quiet(k, q), BufferOK(q), CountOK(q)
    PROVE  ObjectOK(q, rs)
<1>1. LastPiece(q) = LastPiece(k)
  BY DEF Quiet, LastPiece
<1>2. \A n, P : EndsWith(q, n, P) <=> EndsWith(k, n, P)
  BY <1>1 DEF EndsWith, Quiet
<1>3. \A n : MayBegin(q, n) <=> MayBegin(k, n)
  BY <1>2 DEF MayBegin, Quiet
<1>4. Owed(q, rs) <=> Owed(k, rs)
  BY DEF Owed, Quiet
<1>5. AnswersOK(q, rs)
  BY DEF AnswersOK, ObjectOK, Quiet
<1>6. InOrder(q.out)
  BY DEF ObjectOK, Quiet
<1>7. ASSUME q.life # "gone" PROVE TailOK(q, rs)
  <2>1. TailOK(k, rs)
    BY <1>7 DEF ObjectOK, Quiet
  <2>2. QED
    BY <1>2, <1>3, <1>4, <2>1 DEF TailOK, Quiet
<1>8. QED
  BY <1>5, <1>6, <1>7 DEF ObjectOK, Quiet

\* What the parser and the handlers look at.
SameInput(k, q) ==
    /\ q.state = k.state /\ q.inbuf = k.inbuf /\ q.rcvd = k.rcvd /\ q.nreq = k.nreq
    /\ q.busy = k.busy /\ q.closing = k.closing /\ q.peerClosed = k.peerClosed
    /\ q.processing = k.processing /\ q.deferred = k.deferred

LEMMA FlushFields ==
    ASSUME NEW k \in Connection, k.sent <= Len(k.out), NEW q \in FlushAndMaybeClose(k)
    PROVE  /\ q \in Connection /\ SameInput(k, q) /\ q.out = k.out
           /\ q.sent \in k.sent .. Len(k.out)
           /\ (q.headMark = k.headMark /\ q.sent < Len(k.out)) \/ q.headMark = NoMark
           /\ q.life \in {k.life, "closing"}
           /\ IdleOK(q)
<1>1. k.sent \in Nat /\ Len(k.out) \in Nat /\ q \in Connection
  BY FieldTypes, FlushType
<1>2. ASSUME NEW n \in k.sent .. Len(k.out), q = CloseIfDone(Flushed(k, n))
      PROVE  /\ SameInput(k, q) /\ q.out = k.out /\ q.sent = n
             /\ q.headMark = IF n = Len(k.out) THEN NoMark ELSE k.headMark
             /\ q.life \in {k.life, "closing"}
             /\ IdleOK(q)
  <2> DEFINE f == Flushed(k, n)
  <2>1. /\ SameInput(k, f) /\ f.out = k.out /\ f.sent = n /\ f.life = k.life
        /\ f.headMark = IF n = Len(k.out) THEN NoMark ELSE k.headMark
    BY DEF Flushed, SameInput, Connection
  <2>2. f \in Connection
    <3>1. n \in Nat /\ (IF n = Len(k.out) THEN NoMark ELSE k.headMark) \in Int
      BY <1>1, FieldTypes
    <3>2. QED
      BY <3>1, SentMarkField DEF Flushed
  <2> HIDE DEF f
  <2>3. CASE Drained(f) /\ ~f.busy /\ (f.closing \/ f.peerClosed)
    <3>1. q = [f EXCEPT !.life = "closing"]
      BY <1>2, <2>3 DEF CloseIfDone, LoopClose, f
    <3>2. /\ SameInput(f, q) /\ q.out = f.out /\ q.sent = f.sent /\ q.headMark = f.headMark
          /\ q.life = "closing"
      BY <2>2, <3>1 DEF SameInput, Connection
    <3>3. QED
      BY <2>1, <3>2 DEF SameInput, IdleOK
  <2>4. CASE ~(Drained(f) /\ ~f.busy /\ (f.closing \/ f.peerClosed))
    <3>1. q = f
      BY <1>2, <2>4 DEF CloseIfDone, f
    <3>2. QED
      BY <2>1, <2>4, <3>1 DEF IdleOK
  <2>5. QED
    BY <2>3, <2>4
<1>3. ASSUME NEW n \in k.sent .. Len(k.out) - 1, q = LoopClose([k EXCEPT !.sent = n])
      PROVE  /\ SameInput(k, q) /\ q.out = k.out /\ q.sent = n /\ q.headMark = k.headMark
             /\ q.life = "closing" /\ IdleOK(q)
  BY <1>1, <1>3 DEF LoopClose, SameInput, IdleOK, Connection
<1>4. \/ \E n \in k.sent .. Len(k.out) : q = CloseIfDone(Flushed(k, n))
      \/ \E n \in k.sent .. Len(k.out) - 1 : q = LoopClose([k EXCEPT !.sent = n])
  <2>1. /\ \A n : n \in k.sent .. Len(k.out) - 1 => n \in k.sent .. Len(k.out)
        /\ Len(k.out) \in k.sent .. Len(k.out)
    BY <1>1
  <2>2. \/ \E n : (n \in k.sent .. Len(k.out) - 1 \/ n = Len(k.out)) /\ q = CloseIfDone(Flushed(k, n))
        \/ \E n \in k.sent .. Len(k.out) - 1 : q = LoopClose([k EXCEPT !.sent = n])
    BY Zenon DEF FlushAndMaybeClose
  <2>3. QED
    BY <2>1, <2>2
<1>5. CASE \E n \in k.sent .. Len(k.out) : q = CloseIfDone(Flushed(k, n))
  <2>1. PICK n \in k.sent .. Len(k.out) : q = CloseIfDone(Flushed(k, n))
    BY <1>5
  <2>2. /\ SameInput(k, q) /\ q.out = k.out /\ q.sent = n
        /\ q.headMark = IF n = Len(k.out) THEN NoMark ELSE k.headMark
        /\ q.life \in {k.life, "closing"} /\ IdleOK(q)
    BY <1>2, <2>1
  <2>3. (q.headMark = k.headMark /\ q.sent < Len(k.out)) \/ q.headMark = NoMark
    BY <1>1, <2>2
  <2>4. QED
    BY <1>1, <2>2, <2>3
<1>6. CASE \E n \in k.sent .. Len(k.out) - 1 : q = LoopClose([k EXCEPT !.sent = n])
  <2>1. PICK n \in k.sent .. Len(k.out) - 1 : q = LoopClose([k EXCEPT !.sent = n])
    BY <1>6
  <2>2. /\ SameInput(k, q) /\ q.out = k.out /\ q.sent = n /\ q.headMark = k.headMark
        /\ q.life = "closing" /\ IdleOK(q)
    BY <1>3, <2>1
  <2>3. q.sent \in k.sent .. Len(k.out) /\ q.sent < Len(k.out)
    BY <1>1, <2>2
  <2>4. QED
    BY <1>1, <2>2, <2>3
<1>7. QED
  BY <1>4, <1>5, <1>6

\* flushAndMaybeClose keeps the connection in order, and closes it when it is done.
LEMMA FlushOK ==
    ASSUME NEW k \in Connection, NEW rs \in Table, ObjectOK(k, rs),
           k.life \in {"open", "closing"}, NEW q \in FlushAndMaybeClose(k)
    PROVE  /\ q \in Connection /\ SameInput(k, q) /\ q.out = k.out
           /\ q.life \in {"open", "closing"}
           /\ ObjectOK(q, rs) /\ IdleOK(q)
<1>1. k.sent \in Nat /\ Len(k.out) \in Nat /\ k.sent <= Len(k.out) /\ k.headMark \in Int
  BY FieldTypes DEF ObjectOK, BufferOK
<1>2. /\ q \in Connection /\ SameInput(k, q) /\ q.out = k.out
      /\ q.sent \in k.sent .. Len(k.out)
      /\ (q.headMark = k.headMark /\ q.sent < Len(k.out)) \/ q.headMark = NoMark
      /\ q.life \in {k.life, "closing"}
      /\ IdleOK(q)
  BY <1>1, FlushFields
<1>3. Quiet(k, q)
  BY <1>2 DEF Quiet, SameInput
<1>4. BufferOK(q)
  BY <1>1, <1>2 DEF BufferOK, ObjectOK, LastPiece
<1>5. CountOK(q)
  BY <1>2 DEF CountOK, ObjectOK, SameInput
<1>6. QED
  BY <1>2, <1>3, <1>4, <1>5, QuietOK

----------------
(* Steps that produce output *)

LEMMA Appended ==
    ASSUME NEW k \in Connection, NEW q \in Connection, NEW n \in Nat, NEW a \in Part,
           q.out = Append(k.out, [req |-> n, part |-> a])
    PROVE  /\ q.out # <<>> /\ Len(q.out) = Len(k.out) + 1
           /\ LastPiece(q).req = n /\ LastPiece(q).part = a
           /\ \A x, P : EndsWith(q, x, P) <=> x = n /\ a \in P
           /\ InOrder(k.out)
              /\ (k.out = <<>> => n = 1 /\ a \notin {"body", "end"})
              /\ (k.out # <<>> => MayFollow(LastPiece(k), [req |-> n, part |-> a]))
              => InOrder(q.out)
<1> DEFINE p == [req |-> n, part |-> a]
<1>1. p \in Piece /\ p.req = n /\ p.part = a /\ k.out \in Seq(Piece) /\ q.out \in Seq(Piece)
  BY PieceTypes DEF Piece
<1> HIDE DEF p
<1>2. q.out = Append(k.out, p)
  BY DEF p
<1>3. q.out # <<>> /\ Len(q.out) = Len(k.out) + 1 /\ LastPiece(q) = p
  BY <1>1, <1>2 DEF LastPiece
<1>4. \A x, P : EndsWith(q, x, P) <=> x = n /\ a \in P
  BY <1>1, <1>3 DEF EndsWith
<1>5. ASSUME InOrder(k.out), k.out = <<>> => n = 1 /\ a \notin {"body", "end"},
             k.out # <<>> => MayFollow(LastPiece(k), p)
      PROVE  InOrder(q.out)
  BY <1>1, <1>2, <1>5, OrderAppend DEF LastPiece
<1>6. QED
  BY <1>1, <1>3, <1>4, <1>5 DEF p

LEMMA OrderFollows ==
    ASSUME NEW k \in Connection, NEW q \in Connection, NEW n \in Nat, NEW a \in Part,
           InOrder(k.out), k.out = <<>> => n = 1 /\ a \notin {"body", "end"},
           k.out # <<>> => MayFollow(LastPiece(k), [req |-> n, part |-> a]),
           q.out = Append(k.out, [req |-> n, part |-> a])
    PROVE  InOrder(q.out)
BY Appended

\* The response to request n begins where MayBegin says so.
LEMMA Begins ==
    ASSUME NEW k \in Connection, NEW n \in Nat, NEW a \in Part, MayBegin(k, n),
           a \in {"head", "error", "500"} \/ (a = "continue" /\ ~EndsWith(k, n, {"continue"}))
    PROVE  /\ k.out = <<>> => n = 1 /\ a \notin {"body", "end"}
           /\ k.out # <<>> => MayFollow(LastPiece(k), [req |-> n, part |-> a])
<1> DEFINE p == [req |-> n, part |-> a]
<1>1. p.req = n /\ p.part = a /\ a \notin {"body", "end"}
  OBVIOUS
<1>2. ASSUME k.out # <<>> PROVE MayFollow(LastPiece(k), p)
  <2>1. LastPiece(k).req \in Nat
    BY <1>2, PieceTypes
  <2>2. \/ LastPiece(k).part = "end" /\ LastPiece(k).req = n - 1
        \/ LastPiece(k).part = "continue" /\ LastPiece(k).req = n /\ a # "continue"
    BY <1>2 DEF MayBegin, EndsWith
  <2>3. CASE LastPiece(k).part = "end" /\ LastPiece(k).req = n - 1
    BY <1>1, <2>1, <2>3 DEF MayFollow
  <2>4. CASE LastPiece(k).part = "continue" /\ LastPiece(k).req = n /\ a # "continue"
    BY <1>1, <2>1, <2>4 DEF MayFollow
  <2>5. QED
    BY <2>2, <2>3, <2>4
<1>3. QED
  BY <1>1, <1>2 DEF MayBegin, EndsWith

\* enqueueResponseBytes: one piece, then a flush outside the reactor's pass.
LEMMA EnqueueFields ==
    ASSUME NEW k \in Connection, NEW r \in Nat, NEW a \in Part, k.sent <= Len(k.out),
           NEW q \in Enqueue(k, r, a)
    PROVE  /\ q \in Connection /\ SameInput(k, q)
           /\ q.out = Append(k.out, [req |-> r, part |-> a])
           /\ q.sent \in Nat /\ q.sent <= Len(q.out) /\ q.headMark = NoMark
           /\ q.life \in {k.life, "closing"}
           /\ ~k.processing => IdleOK(q)
<1> DEFINE f == AppendPart(k, r, a)
<1>1. f \in Connection
  BY AppendType
<1>2. /\ SameInput(k, f) /\ f.out = Append(k.out, [req |-> r, part |-> a])
      /\ f.headMark = NoMark /\ f.sent = k.sent /\ f.life = k.life
  BY DEF AppendPart, SameInput, Connection
<1>3. Len(k.out) \in Nat /\ Len(f.out) = Len(k.out) + 1 /\ k.sent \in Nat
  BY <1>1, <1>2, Appended, FieldTypes
<1>4. f.sent <= Len(f.out)
  BY <1>2, <1>3
<1> HIDE DEF f
<1>5. CASE k.processing
  <2>1. q = f
    BY <1>5 DEF Enqueue, f
  <2>2. QED
    BY <1>1, <1>2, <1>3, <1>4, <1>5, <2>1
<1>6. CASE ~k.processing
  <2>1. q \in FlushAndMaybeClose(f)
    BY <1>6 DEF Enqueue, f
  <2>2. /\ q \in Connection /\ SameInput(f, q) /\ q.out = f.out
        /\ q.sent \in f.sent .. Len(f.out)
        /\ (q.headMark = f.headMark /\ q.sent < Len(f.out)) \/ q.headMark = NoMark
        /\ q.life \in {f.life, "closing"}
        /\ IdleOK(q)
    BY <1>1, <1>4, <2>1, FlushFields
  <2>3. SameInput(k, q)
    BY <1>2, <2>2 DEF SameInput
  <2>4. q.sent \in Nat /\ q.sent <= Len(q.out)
    BY <1>2, <1>3, <2>2
  <2>5. QED
    BY <1>2, <2>2, <2>3, <2>4
<1>7. QED
  BY <1>5, <1>6

----------------
(* The operations of ServerResponse *)

\* Only the state of a response, and a finished one's keepAlive, matter.
LEMMA TableOK ==
    ASSUME NEW k, NEW rs \in Table, NEW ss \in Table,
           \A x \in Request : /\ ss[x].st = rs[x].st
                              /\ rs[x].st = "finished" => ss[x].keepAlive = rs[x].keepAlive
    PROVE  /\ Owed(k, ss) <=> Owed(k, rs)
           /\ ObjectOK(k, rs) => ObjectOK(k, ss)
           /\ HandlerOK(k, rs) => HandlerOK(k, ss)
<1>1. Owed(k, ss) <=> Owed(k, rs)
  BY DEF Owed, Outstanding
<1>2. AnswersOK(k, rs) => AnswersOK(k, ss)
  BY DEF AnswersOK, Outstanding
<1>3. TailOK(k, rs) => TailOK(k, ss)
  BY <1>1 DEF TailOK, Owed
<1>4. QED
  BY <1>1, <1>2, <1>3 DEF ObjectOK, HandlerOK

\* The response that can be written to is that of the latest request.
LEMMA OwedIsLatest ==
    ASSUME NEW k \in Connection, NEW rs \in Table, AnswersOK(k, rs), NEW r \in Request,
           Outstanding(rs[r])
    PROVE  r = k.nreq /\ Owed(k, rs) /\ ~k.deferred /\ (k.busy \/ k.closing) /\ r \in Nat
BY BoundAssumption DEF AnswersOK, Owed, Request

LEMMA HeadFields ==
    ASSUME NEW k \in Connection, NEW r \in Nat
    PROVE  /\ AppendHead(k, r) \in Connection /\ SameInput(k, AppendHead(k, r))
           /\ AppendHead(k, r).life = k.life /\ AppendHead(k, r).sent = k.sent
           /\ AppendHead(k, r).headMark = Len(k.out)
           /\ AppendHead(k, r).out = Append(k.out, [req |-> r, part |-> "head"])
<1>1. AppendHead(k, r) \in Connection
  BY AppendType DEF Part
<1>2. QED
  BY <1>1 DEF AppendHead, SameInput, Connection

\* commitHeaders: the header block of a fresh response.
LEMMA HeadOK ==
    ASSUME NEW k \in Connection, NEW rs \in Table, NEW ss \in Table, NEW r \in Request,
           ObjectOK(k, rs), k.life \in {"open", "closing"}, rs[r].st = "fresh",
           ss[r].st = "committed", \A x \in Request : x # r => ss[x] = rs[x],
           NEW q, q = AppendHead(k, r)
    PROVE  /\ q \in Connection /\ SameInput(k, q) /\ q.life = k.life
           /\ ObjectOK(q, ss) /\ IdleOK(q)
           /\ q.headMark # NoMark
           /\ Owed(q, ss)
<1>1. r = k.nreq /\ Owed(k, rs) /\ ~k.deferred /\ (k.busy \/ k.closing) /\ r \in Nat
  BY OwedIsLatest DEF Outstanding, ObjectOK
<1>2. /\ q \in Connection /\ SameInput(k, q) /\ q.life = k.life /\ q.sent = k.sent
      /\ q.headMark = Len(k.out) /\ q.out = Append(k.out, [req |-> r, part |-> "head"])
  BY <1>1, HeadFields
<1>3. "head" \in Part /\ Len(k.out) \in Nat /\ k.sent \in Nat
  BY FieldTypes DEF Part
<1>4. /\ q.out # <<>> /\ Len(q.out) = Len(k.out) + 1
      /\ LastPiece(q).req = r /\ LastPiece(q).part = "head"
      /\ \A x, P : EndsWith(q, x, P) <=> x = r /\ "head" \in P
  BY <1>1, <1>2, <1>3, Appended
<1>5. InOrder(q.out)
  <2>1. MayBegin(k, r) \/ EndsWith(k, r, {"500"})
    BY <1>1 DEF ObjectOK, TailOK
  <2>2. CASE MayBegin(k, r)
    <3>1. /\ k.out = <<>> => r = 1 /\ "head" \notin {"body", "end"}
          /\ k.out # <<>> => MayFollow(LastPiece(k), [req |-> r, part |-> "head"])
      BY <1>1, <1>3, <2>2, Begins
    <3>2. QED
      BY <1>1, <1>2, <1>3, <3>1, Appended DEF ObjectOK
  <2>3. CASE EndsWith(k, r, {"500"})
    <3>1. k.out # <<>> /\ MayFollow(LastPiece(k), [req |-> r, part |-> "head"])
      BY <2>3 DEF EndsWith, MayFollow
    <3>2. QED
      BY <1>1, <1>2, <1>3, <3>1, Appended DEF ObjectOK
  <2>4. QED
    BY <2>1, <2>2, <2>3
<1>6. BufferOK(q)
  BY <1>2, <1>3, <1>4 DEF BufferOK, ObjectOK
<1>7. CountOK(q)
  BY <1>2 DEF CountOK, ObjectOK, SameInput
<1>8. Owed(q, ss)
  BY <1>1, <1>2 DEF Owed, SameInput, Outstanding
<1>9. AnswersOK(q, ss)
  <2>1. \A x \in Request : x # r => ~Outstanding(rs[x])
    BY <1>1 DEF ObjectOK, AnswersOK
  <2>2. AnswersOK(k, rs)
    BY DEF ObjectOK
  <2>3. \A x \in Request : x # r => ss[x] = rs[x]
    OBVIOUS
  <2>4. ss[r].st = "committed"
    OBVIOUS
  <2>5. QED
    BY <1>1, <1>2, <2>1, <2>2, <2>3, <2>4 DEF AnswersOK, SameInput, Outstanding
<1>10. TailOK(q, ss)
  <2>1. q.nreq = r /\ ss[q.nreq].st = "committed"
    BY <1>1, <1>2 DEF SameInput
  <2>2. EndsWith(q, q.nreq, {"head", "body", "500"})
    BY <1>4, <2>1
  <2>3. QED
    BY <1>8, <2>1, <2>2 DEF TailOK
<1>11. IdleOK(q)
  BY <1>2, <1>3, <1>4 DEF IdleOK, Drained, ObjectOK, BufferOK
<1>12. q.headMark # NoMark
  BY <1>2, <1>3 DEF NoMark
<1>13. q.life # "none" /\ (q.deferred \/ q.processing => q.life \in {"open", "closing"})
  BY <1>2
<1>14. ObjectOK(q, ss)
  BY <1>5, <1>6, <1>7, <1>9, <1>10, <1>13 DEF ObjectOK
<1>15. QED
  BY <1>2, <1>8, <1>11, <1>12, <1>14

\* The table after commitHeaders of response r.
Committed(rs, r) == [rs EXCEPT ![r].st = "committed"]

\* commitHeaders, called by write() and end(): nothing the second time.
LEMMA CommitOK ==
    ASSUME NEW k \in Connection, NEW rs \in Table, NEW r \in Request,
           ObjectOK(k, rs), k.life \in {"open", "closing"}, Outstanding(rs[r]),
           NEW q, q = Commit(k, rs[r], r)
    PROVE  /\ q \in Connection /\ SameInput(k, q) /\ q.life = k.life
           /\ Committed(rs, r) \in Table
           /\ Committed(rs, r)[r].st = "committed"
           /\ \A x \in Request : x # r => Committed(rs, r)[x] = rs[x]
           /\ ObjectOK(q, Committed(rs, r))
<1> DEFINE ss == Committed(rs, r)
<1>1. rs[r] \in Response
  BY DEF Table
<1>2. [rs[r] EXCEPT !.st = "committed"] \in Response
  BY <1>1 DEF Response
<1>3. /\ ss \in Table /\ ss[r] = [rs[r] EXCEPT !.st = "committed"]
      /\ \A x \in Request : x # r => ss[x] = rs[x]
  BY <1>2 DEF Committed, Table
<1>4. ss[r].st = "committed"
  BY <1>1, <1>3 DEF Response
<1> HIDE DEF ss
<1>5. CASE rs[r].st = "fresh"
  <2>1. q = AppendHead(k, r)
    BY <1>5 DEF Commit
  <2>2. q \in Connection /\ SameInput(k, q) /\ q.life = k.life /\ ObjectOK(q, ss)
    <3>1. \A x \in Request : x # r => ss[x] = rs[x]
      BY <1>3
    <3>2. ss \in Table
      BY <1>3
    <3>3. QED
      BY <1>4, <1>5, <2>1, <3>1, <3>2, HeadOK
  <2>3. QED
    BY <1>3, <1>4, <2>2 DEF ss
<1>6. CASE rs[r].st # "fresh"
  <2>1. q = k /\ rs[r].st = "committed"
    BY <1>6 DEF Commit, Outstanding
  <2>2. \A x \in Request : /\ ss[x].st = rs[x].st
                           /\ rs[x].st = "finished" => ss[x].keepAlive = rs[x].keepAlive
    BY <1>3, <1>4, <2>1
  <2>3. ObjectOK(k, ss)
    BY <1>3, <2>2, TableOK
  <2>4. QED
    BY <1>3, <1>4, <2>1, <2>3 DEF ss, SameInput
<1>7. QED
  BY <1>5, <1>6

\* write(): a body piece of a committed response.
LEMMA BodyOK ==
    ASSUME NEW k \in Connection, NEW rs \in Table, NEW r \in Request,
           ObjectOK(k, rs), k.life \in {"open", "closing"}, rs[r].st = "committed",
           NEW q \in Enqueue(k, r, "body")
    PROVE  /\ q \in Connection /\ SameInput(k, q) /\ q.life \in {"open", "closing"}
           /\ ObjectOK(q, rs) /\ (~k.processing => IdleOK(q))
           /\ Owed(q, rs)
           /\ q.out # <<>> /\ LastPiece(q).part = "body"
<1>1. r = k.nreq /\ Owed(k, rs) /\ ~k.deferred /\ (k.busy \/ k.closing) /\ r \in Nat
  BY OwedIsLatest DEF Outstanding, ObjectOK
<1>2. "body" \in Part /\ k.sent <= Len(k.out)
  BY DEF Part, ObjectOK, BufferOK
<1>3. /\ q \in Connection /\ SameInput(k, q)
      /\ q.out = Append(k.out, [req |-> r, part |-> "body"])
      /\ q.sent \in Nat /\ q.sent <= Len(q.out) /\ q.headMark = NoMark
      /\ q.life \in {k.life, "closing"}
      /\ ~k.processing => IdleOK(q)
  BY <1>1, <1>2, EnqueueFields
<1>4. EndsWith(k, r, {"head", "body", "500"})
  BY <1>1 DEF ObjectOK, TailOK
<1>5. k.out # <<>> /\ MayFollow(LastPiece(k), [req |-> r, part |-> "body"])
  BY <1>4 DEF EndsWith, MayFollow
<1>6. /\ q.out # <<>> /\ LastPiece(q).part = "body" /\ InOrder(q.out)
      /\ \A x, P : EndsWith(q, x, P) <=> x = r /\ "body" \in P
  <2>1. InOrder(k.out)
    BY DEF ObjectOK
  <2>2. InOrder(q.out)
    BY <1>1, <1>2, <1>3, <1>5, <2>1, Appended
  <2>3. \A x, P : EndsWith(q, x, P) <=> x = r /\ "body" \in P
    BY <1>1, <1>2, <1>3, Appended
  <2>4. EndsWith(q, r, {"body"}) => q.out # <<>> /\ LastPiece(q).part = "body"
    BY DEF EndsWith
  <2>5. QED
    BY <2>2, <2>3, <2>4
<1>7. Owed(q, rs) /\ q.nreq = r
  BY <1>1, <1>3 DEF Owed, SameInput
<1>8. TailOK(q, rs)
  <2>1. EndsWith(q, q.nreq, {"head", "body", "500"}) /\ rs[q.nreq].st = "committed"
    BY <1>6, <1>7
  <2>2. QED
    BY <1>7, <2>1 DEF TailOK
<1>9. AnswersOK(q, rs)
  <2>1. k.life # "gone" /\ AnswersOK(k, rs)
    BY DEF ObjectOK
  <2>2. QED
    BY <1>3, <2>1 DEF AnswersOK, SameInput
<1>10. BufferOK(q) /\ CountOK(q)
  BY <1>3 DEF BufferOK, CountOK, ObjectOK, SameInput
<1>11. ObjectOK(q, rs)
  BY <1>3, <1>6, <1>8, <1>9, <1>10 DEF ObjectOK
<1>12. QED
  BY <1>3, <1>6, <1>7, <1>11

\* end() and responseComplete: the last piece of a committed response; the
\* connection is free again, or closing when keep-alive was refused.
LEMMA EndOK ==
    ASSUME NEW k \in Connection, NEW rs \in Table, NEW ss \in Table, NEW r \in Request,
           ObjectOK(k, rs), k.life \in {"open", "closing"}, rs[r].st = "committed",
           ss[r].st = "finished", \A x \in Request : x # r => ss[x] = rs[x],
           NEW e \in Enqueue(k, r, "end"),
           NEW q \in Connection,
           q.out = e.out, q.sent = e.sent, q.headMark = e.headMark, q.life = e.life,
           q.state = e.state, q.inbuf = e.inbuf, q.rcvd = e.rcvd, q.nreq = e.nreq,
           q.deferred = e.deferred, ~q.busy, q.closing <=> e.closing \/ ~ss[r].keepAlive
    PROVE  /\ q.life \in {"open", "closing"}
           /\ ObjectOK(q, ss) /\ ~Owed(q, ss)
           /\ q.out # <<>> /\ LastPiece(q).part = "end"
<1>1. r = k.nreq /\ Owed(k, rs) /\ ~k.deferred /\ (k.busy \/ k.closing) /\ r \in Nat
  BY OwedIsLatest DEF Outstanding, ObjectOK
<1>2. "end" \in Part /\ k.sent <= Len(k.out)
  BY DEF Part, ObjectOK, BufferOK
<1>3. /\ e \in Connection /\ SameInput(k, e)
      /\ e.out = Append(k.out, [req |-> r, part |-> "end"])
      /\ e.sent \in Nat /\ e.sent <= Len(e.out) /\ e.headMark = NoMark
      /\ e.life \in {k.life, "closing"}
  BY <1>1, <1>2, EnqueueFields
<1>4. EndsWith(k, r, {"head", "body", "500"})
  BY <1>1 DEF ObjectOK, TailOK
<1>5. k.out # <<>> /\ MayFollow(LastPiece(k), [req |-> r, part |-> "end"])
  BY <1>4 DEF EndsWith, MayFollow
<1>6. q.out = Append(k.out, [req |-> r, part |-> "end"])
  BY <1>3
<1>7. /\ q.out # <<>> /\ LastPiece(q).part = "end" /\ InOrder(q.out)
      /\ \A x, P : EndsWith(q, x, P) <=> x = r /\ "end" \in P
  <2>1. InOrder(k.out)
    BY DEF ObjectOK
  <2>2. InOrder(q.out)
    BY <1>1, <1>2, <1>6, <1>5, <2>1, Appended
  <2>3. \A x, P : EndsWith(q, x, P) <=> x = r /\ "end" \in P
    BY <1>1, <1>2, <1>6, Appended
  <2>4. EndsWith(q, r, {"end"}) => q.out # <<>> /\ LastPiece(q).part = "end"
    BY DEF EndsWith
  <2>5. QED
    BY <2>2, <2>3, <2>4
<1>8. q.nreq = r /\ ~q.deferred /\ ~Owed(q, ss)
  BY <1>1, <1>3 DEF Owed, SameInput, Outstanding
<1>9. TailOK(q, ss)
  <2>1. EndsWith(q, (q.nreq + 1) - 1, {"end"})
    BY <1>1, <1>7, <1>8
  <2>2. ~EndsWith(q, q.nreq + 1, {"continue"})
    BY <1>7
  <2>3. QED
    BY <1>8, <2>1, <2>2 DEF TailOK, MayBegin
<1>10. AnswersOK(q, ss)
  <2>1. AnswersOK(k, rs) /\ k.life # "gone"
    BY DEF ObjectOK
  <2>2. \A x \in Request : x # r => ~Outstanding(rs[x])
    BY <1>1 DEF ObjectOK, AnswersOK
  <2>3. k.closing => q.closing
    BY <1>3 DEF SameInput
  <2>4. ASSUME NEW x \in Request, x # r
        PROVE  /\ ss[x].st # "none" => x <= q.nreq
               /\ ~Outstanding(ss[x])
               /\ ss[x].st = "finished" /\ ~ss[x].keepAlive => q.nreq <= x /\ q.closing
    <3>1. ss[x] = rs[x]
      BY <2>4
    <3>2. QED
      BY <1>1, <1>8, <2>1, <2>2, <2>3, <2>4, <3>1 DEF AnswersOK
  <2>5. /\ r <= q.nreq /\ q.nreq <= r /\ ~Outstanding(ss[r])
        /\ ~ss[r].keepAlive => q.closing
    BY <1>1, <1>8 DEF Outstanding
  <2>6. QED
    BY <1>8, <2>4, <2>5 DEF AnswersOK
<1>11. BufferOK(q) /\ CountOK(q)
  BY <1>3, <1>8 DEF BufferOK, CountOK, ObjectOK, SameInput
<1>12. ObjectOK(q, ss)
  BY <1>3, <1>7, <1>9, <1>10, <1>11 DEF ObjectOK
<1>13. QED
  BY <1>3, <1>7, <1>8, <1>12

----------------
(* A step changes one connection object and its responses *)

Changes(c, q, ss) ==
    /\ conn'[c] = q /\ res'[c] = ss
    /\ \A d \in Conn : d # c => conn'[d] = conn[d] /\ res'[d] = res[d]

LEMMA ConnChanges ==
    ASSUME TypeOK, NEW c \in Conn, NEW q
    PROVE  conn' = [conn EXCEPT ![c] = q] /\ res' = res => Changes(c, q, res[c])
BY DEF TypeOK, Changes

LEMMA BothChange ==
    ASSUME TypeOK, NEW c \in Conn, NEW q, NEW r \in Request, NEW x
    PROVE  conn' = [conn EXCEPT ![c] = q] /\ res' = [res EXCEPT ![c][r] = x]
              => Changes(c, q, [res[c] EXCEPT ![r] = x])
BY DEF TypeOK, Changes

LEMMA ResChanges ==
    ASSUME TypeOK, NEW c \in Conn, NEW r \in Request, NEW x
    PROVE  conn' = conn /\ res' = [res EXCEPT ![c][r] = x]
              => Changes(c, conn[c], [res[c] EXCEPT ![r] = x])
BY DEF TypeOK, Changes

LEMMA ObjectsStep ==
    ASSUME \A d \in Conn : ObjectOK(conn[d], res[d]) /\ IdleOK(conn[d]),
           NEW c \in Conn, NEW q, NEW ss, Changes(c, q, ss), ObjectOK(q, ss), IdleOK(q)
    PROVE  (\A d \in Conn : ObjectOK(conn[d], res[d]) /\ IdleOK(conn[d]))'
<1>1. ASSUME NEW d \in Conn
      PROVE  ObjectOK(conn'[d], res'[d]) /\ IdleOK(conn'[d])
  <2>1. CASE d = c
    BY <2>1 DEF Changes
  <2>2. CASE d # c
    BY <2>2 DEF Changes
  <2>3. QED
    BY <2>1, <2>2
<1>2. QED
  BY <1>1 DEF ObjectOK, BufferOK, CountOK, AnswersOK, TailOK, IdleOK, Owed, Drained

----------------
(* The frames of the stack *)

LEMMA FrameConn ==
    ASSUME TypeOK
    PROVE  /\ Len(stack) \in Nat
           /\ \A i \in 1 .. Len(stack) : stack[i] \in Frame /\ stack[i].c \in Conn
<1>1. stack \in Seq(Frame)
  BY DEF TypeOK
<1>2. \A p \in Frame : p.c \in Conn
  BY DEF Frame
<1>3. \A i \in 1 .. Len(stack) : stack[i] \in Frame
  BY <1>1
<1>4. QED
  BY <1>1, <1>2, <1>3

\* What a step that keeps the stack owes to its frames.
LEMMA FramesKept ==
    ASSUME TypeOK, FramesOK, NEW c \in Conn, NEW q, NEW ss, Changes(c, q, ss),
           q.processing = conn[c].processing, q.deferred = conn[c].deferred,
           \A i \in 1 .. Len(stack) :
               stack[i].c = c /\ stack[i].at = "handler" => HandlerOK(q, ss),
           stack' = stack
    PROVE  FramesOK'
<1>1. \A i \in 1 .. Len(stack) : stack[i] \in Frame /\ stack[i].c \in Conn
  BY FrameConn
<1>2. ASSUME NEW i \in 1 .. Len(stack)
      PROVE  /\ ~stack[i].was
             /\ stack[i].at = "handler" => HandlerOK(conn'[stack[i].c], res'[stack[i].c])
             /\ conn'[stack[i].c].deferred => i = Len(stack) /\ stack[i].at = "loop"
  <2>1. CASE stack[i].c = c
    BY <2>1 DEF FramesOK, Changes
  <2>2. CASE stack[i].c # c
    BY <1>1, <2>2 DEF FramesOK, Changes
  <2>3. QED
    BY <2>1, <2>2
<1>3. ASSUME NEW d \in Conn
      PROVE  conn'[d].processing <=> \E i \in 1 .. Len(stack) : stack[i].c = d
  <2>1. conn'[d].processing = conn[d].processing
    BY DEF Changes
  <2>2. QED
    BY <2>1 DEF FramesOK
<1>4. \A i, j \in 1 .. Len(stack) : stack[i].c = stack[j].c => i = j
  BY DEF FramesOK
<1>5. QED
  BY <1>2, <1>3, <1>4 DEF FramesOK, HandlerOK, Owed

\* A new activation: of a connection that has none, above frames none of which
\* is a pass about to return.
LEMMA FramesPush ==
    ASSUME TypeOK, FramesOK, NEW c \in Conn, NEW q, NEW ss, Changes(c, q, ss),
           ~conn[c].processing, q.processing, stack # <<>> => Top.at # "loop",
           NEW w \in At, w = "handler" => HandlerOK(q, ss), q.deferred => w = "loop",
           stack' = Push(c, w, FALSE)
    PROVE  FramesOK'
<1> DEFINE t == stack'
<1>1. /\ Len(stack) \in Nat /\ Len(t) = Len(stack) + 1
      /\ \A i \in 1 .. Len(stack) : t[i] = stack[i]
      /\ t[Len(stack) + 1] = [c |-> c, at |-> w, was |-> FALSE]
  <2>1. stack \in Seq(Frame) /\ FALSE \in BOOLEAN /\ Len(stack) \in Nat
    BY DEF TypeOK
  <2>2. /\ Len(Push(c, w, FALSE)) = Len(stack) + 1
        /\ \A i \in 1 .. Len(stack) : Push(c, w, FALSE)[i] = stack[i]
        /\ Push(c, w, FALSE)[Len(stack) + 1] = [c |-> c, at |-> w, was |-> FALSE]
    BY <2>1, PushType
  <2>3. QED
    BY <2>1, <2>2 DEF t
<1> HIDE DEF t
<1>2. \A i \in 1 .. Len(stack) : stack[i].c \in Conn /\ stack[i].c # c
  <2>1. ~ \E i \in 1 .. Len(stack) : stack[i].c = c
    BY DEF FramesOK
  <2>2. QED
    BY <2>1, FrameConn
<1>3. ASSUME NEW i \in 1 .. Len(stack)
      PROVE  /\ ~stack[i].was
             /\ stack[i].at = "handler" => HandlerOK(conn'[stack[i].c], res'[stack[i].c])
             /\ ~conn'[stack[i].c].deferred
  <2>1. conn'[stack[i].c] = conn[stack[i].c] /\ res'[stack[i].c] = res[stack[i].c]
    BY <1>2 DEF Changes
  <2>2. ASSUME conn[stack[i].c].deferred PROVE FALSE
    <3>1. i = Len(stack) /\ stack[i].at = "loop"
      BY <2>2 DEF FramesOK
    <3>2. QED
      BY <1>1, <3>1 DEF Top
  <2>3. QED
    BY <2>1, <2>2 DEF FramesOK
<1>4. ASSUME NEW i \in 1 .. Len(t)
      PROVE  /\ ~t[i].was
             /\ t[i].at = "handler" => HandlerOK(conn'[t[i].c], res'[t[i].c])
             /\ conn'[t[i].c].deferred => i = Len(t) /\ t[i].at = "loop"
  <2>1. CASE i = Len(stack) + 1
    <3>1. t[i].c = c /\ t[i].at = w /\ ~t[i].was /\ i = Len(t)
      BY <1>1, <2>1
    <3>2. conn'[c] = q /\ res'[c] = ss
      BY DEF Changes
    <3>3. QED
      BY <3>1, <3>2
  <2>2. CASE i # Len(stack) + 1
    <3>1. i \in 1 .. Len(stack) /\ t[i] = stack[i]
      BY <1>1, <2>2
    <3>2. QED
      BY <1>3, <3>1
  <2>3. QED
    BY <2>1, <2>2
<1>5. \A i \in 1 .. Len(t) :
        \/ i = Len(stack) + 1 /\ t[i].c = c
        \/ i \in 1 .. Len(stack) /\ t[i] = stack[i]
  <2>1. t[Len(stack) + 1].c = c
    BY <1>1
  <2>2. QED
    BY <1>1, <2>1
<1>6. ASSUME NEW i \in 1 .. Len(t), NEW j \in 1 .. Len(t), t[i].c = t[j].c
      PROVE  i = j
  <2>1. \A x, y \in 1 .. Len(stack) : stack[x].c = stack[y].c => x = y
    BY DEF FramesOK
  <2>2. QED
    BY <1>2, <1>5, <1>6, <2>1
<1>7. ASSUME NEW d \in Conn
      PROVE  conn'[d].processing <=> \E i \in 1 .. Len(t) : t[i].c = d
  <2>1. CASE d = c
    BY <1>1, <2>1 DEF Changes
  <2>2. CASE d # c
    <3>1. conn'[d].processing <=> \E i \in 1 .. Len(stack) : stack[i].c = d
      BY <2>2 DEF Changes, FramesOK
    <3>2. \A i \in 1 .. Len(stack) : i \in 1 .. Len(t)
      BY <1>1
    <3>3. QED
      BY <1>1, <1>5, <2>2, <3>1, <3>2
  <2>3. QED
    BY <2>1, <2>2
<1>8. QED
  BY <1>4, <1>6, <1>7 DEF t, FramesOK, HandlerOK, Owed

\* The frame on top goes to another place.
LEMMA FramesMove ==
    ASSUME TypeOK, FramesOK, stack # <<>>, NEW q, NEW ss, Changes(Top.c, q, ss),
           q.processing = conn[Top.c].processing,
           NEW w \in At, w = "handler" => HandlerOK(q, ss), q.deferred => w = "loop",
           stack' = MoveTo(w)
    PROVE  FramesOK'
<1> DEFINE n == Len(stack)
           t == stack'
<1>1. /\ n \in Nat \ {0} /\ Len(t) = n
      /\ \A i \in 1 .. n - 1 : t[i] = stack[i]
      /\ t[n] = [Top EXCEPT !.at = w] /\ Top \in Frame /\ Top.c \in Conn
  BY MoveType, StackTypes DEF TypeOK
<1>2. t[n].c = Top.c /\ t[n].was = Top.was /\ t[n].at = w /\ Top = stack[n]
  BY <1>1 DEF Frame, Top
<1> HIDE DEF n, t
<1>3. \A i \in 1 .. n : stack[i].c \in Conn /\ t[i].c = stack[i].c
  <2>1. \A i \in 1 .. n : stack[i].c \in Conn
    BY FrameConn DEF n
  <2>2. \A i \in 1 .. n : i = n \/ i \in 1 .. n - 1
    BY <1>1
  <2>3. QED
    BY <1>1, <1>2, <2>1, <2>2
<1>4. ASSUME NEW i \in 1 .. n
      PROVE  /\ ~t[i].was
             /\ t[i].at = "handler" => HandlerOK(conn'[t[i].c], res'[t[i].c])
             /\ conn'[t[i].c].deferred => i = n /\ t[i].at = "loop"
  <2>1. CASE i = n
    BY <1>1, <1>2, <2>1 DEF Changes, FramesOK, n
  <2>2. CASE i # n
    <3>1. i \in 1 .. n - 1 /\ n \in 1 .. n /\ t[i] = stack[i]
      BY <1>1, <2>2
    <3>2. stack[i].c # Top.c
      BY <1>2, <2>2, <3>1 DEF FramesOK, n
    <3>3. conn'[stack[i].c] = conn[stack[i].c] /\ res'[stack[i].c] = res[stack[i].c]
      BY <1>3, <3>2 DEF Changes
    <3>4. QED
      BY <2>2, <3>1, <3>3 DEF FramesOK, n
  <2>3. QED
    BY <2>1, <2>2
<1>5. \A i, j \in 1 .. n : t[i].c = t[j].c => i = j
  BY <1>3 DEF FramesOK, n
<1>6. ASSUME NEW d \in Conn
      PROVE  conn'[d].processing <=> \E i \in 1 .. n : t[i].c = d
  <2>1. conn'[d].processing = conn[d].processing
    BY DEF Changes
  <2>2. QED
    BY <1>3, <2>1 DEF FramesOK, n
<1>7. QED
  BY <1>1, <1>4, <1>5, <1>6 DEF n, t, FramesOK, HandlerOK, Owed

\* The activation on top returns.
LEMMA FramesPop ==
    ASSUME TypeOK, FramesOK, stack # <<>>, NEW q, NEW ss, Changes(Top.c, q, ss),
           ~q.processing, stack' = Below
    PROVE  FramesOK'
<1> DEFINE n == Len(stack)
           t == stack'
<1>1. /\ n \in Nat \ {0} /\ Len(t) = n - 1
      /\ \A i \in 1 .. n - 1 : t[i] = stack[i]
      /\ Top \in Frame /\ Top.c \in Conn
  BY StackTypes DEF TypeOK
<1>2. Top = stack[n]
  BY DEF Top
<1> HIDE DEF n, t
<1>3. \A i \in 1 .. n - 1 : i \in 1 .. n /\ n \in 1 .. n /\ i # n
  BY <1>1
<1>4. \A i \in 1 .. n - 1 : stack[i].c \in Conn /\ stack[i].c # Top.c
  <2>1. \A i \in 1 .. n : stack[i].c \in Conn
    BY FrameConn DEF n
  <2>2. QED
    BY <1>2, <1>3, <2>1 DEF FramesOK, n
<1>5. ASSUME NEW i \in 1 .. n - 1
      PROVE  /\ ~t[i].was
             /\ t[i].at = "handler" => HandlerOK(conn'[t[i].c], res'[t[i].c])
             /\ ~conn'[t[i].c].deferred
  <2>1. conn'[stack[i].c] = conn[stack[i].c] /\ res'[stack[i].c] = res[stack[i].c] /\ t[i] = stack[i]
    BY <1>1, <1>4 DEF Changes
  <2>2. QED
    BY <1>3, <2>1 DEF FramesOK, n
<1>6. \A i, j \in 1 .. n - 1 : t[i].c = t[j].c => i = j
  BY <1>1, <1>3 DEF FramesOK, n
<1>7. ASSUME NEW d \in Conn
      PROVE  conn'[d].processing <=> \E i \in 1 .. n - 1 : t[i].c = d
  <2>1. CASE d = Top.c
    BY <1>1, <1>4, <2>1 DEF Changes
  <2>2. CASE d # Top.c
    <3>1. conn'[d].processing <=> \E i \in 1 .. n : stack[i].c = d
      BY <2>2 DEF Changes, FramesOK, n
    <3>2. \A i \in 1 .. n : i = n \/ i \in 1 .. n - 1
      BY <1>1
    <3>3. QED
      BY <1>1, <1>2, <1>3, <2>2, <3>1, <3>2
  <2>3. QED
    BY <2>1, <2>2
<1>8. QED
  BY <1>1, <1>5, <1>6, <1>7 DEF t, FramesOK, HandlerOK, Owed

\* What the frame on top says of its connection.
LEMMA TopFacts ==
    ASSUME TypeOK, FramesOK, stack # <<>>
    PROVE  /\ Top.c \in Conn /\ ~Top.was /\ conn[Top.c].processing
           /\ Top.at = "handler" => HandlerOK(conn[Top.c], res[Top.c])
           /\ conn[Top.c].deferred => Top.at = "loop"
           /\ Top.at = "loop" => \A i \in 1 .. Len(stack) : stack[i].c = Top.c => stack[i].at = "loop"
<1>1. Len(stack) \in 1 .. Len(stack) /\ Top = stack[Len(stack)]
  BY DEF TypeOK, Top
<1>2. Top.c \in Conn
  BY <1>1, FrameConn
<1>3. QED
  BY <1>1, <1>2 DEF FramesOK

----------------
(* The gate's queue and the cache *)

LEMMA ParkedKept ==
    ASSUME ParkedOnce, NEW c \in Conn, NEW q, NEW ss, Changes(c, q, ss),
           q.deferred = conn[c].deferred, gate'.deferred = gate.deferred
    PROVE  ParkedOnce'
<1>1. \A d \in Conn : conn'[d].deferred = conn[d].deferred
  BY DEF Changes
<1>2. QED
  BY <1>1 DEF ParkedOnce

LEMMA CacheKept ==
    ASSUME TypeOK, CacheValid, NEW c \in Conn, NEW q, NEW ss, Changes(c, q, ss),
           Registered(c) => q.life \in {"open", "closing"},
           cached' = cached \/ (Registered(c) /\ cached' = c)
    PROVE  CacheValid'
<1>1. \A d \in Conn : Registered(d) => conn'[d].life \in {"open", "closing"}
  BY DEF Changes, Registered
<1>2. QED
  BY <1>1 DEF CacheValid, Registered, TypeOK

----------------
(* The parser *)

LEMMA SameTail ==
    ASSUME NEW k, NEW q, q.out = k.out
    PROVE  /\ LastPiece(q) = LastPiece(k)
           /\ \A n, P : EndsWith(q, n, P) <=> EndsWith(k, n, P)
           /\ \A n : MayBegin(q, n) <=> MayBegin(k, n)
BY DEF LastPiece, EndsWith, MayBegin

\* Where a response may begin no header block is open.
LEMMA BeginNoMark ==
    ASSUME NEW k \in Connection, NEW n, MayBegin(k, n), BufferOK(k)
    PROVE  /\ k.headMark = NoMark
           /\ k.out # <<>> => LastPiece(k).part # "head"
<1>1. k.out # <<>> => LastPiece(k).part # "head"
  BY DEF MayBegin, EndsWith
<1>2. ASSUME k.headMark # NoMark PROVE FALSE
  <2>1. k.headMark = Len(k.out) - 1 /\ k.sent <= k.headMark /\ LastPiece(k).part = "head"
    BY <1>2 DEF BufferOK
  <2>2. k.out # <<>>
    BY <2>1, FieldTypes
  <2>3. QED
    BY <1>1, <2>1, <2>2
<1>3. QED
  BY <1>1, <1>2

\* Nothing is owed: the next request may start.
Free(k, rs) ==
    /\ \A r \in Request : ~Outstanding(rs[r])
    /\ \A r \in Request : rs[r].st = "finished" => rs[r].keepAlive
    /\ ~Owed(k, rs) /\ MayBegin(k, k.nreq + 1)
    /\ k.nreq + 1 \in Request /\ k.headMark = NoMark

LEMMA ParserFree ==
    ASSUME NEW k \in Connection, NEW rs \in Table, ObjectOK(k, rs), CanParse(k), k.processing
    PROVE  /\ Free(k, rs) /\ ~k.deferred /\ k.life \in {"open", "closing"}
           /\ Consume(k) \in Connection
           /\ Len(Consume(k).inbuf) \in Nat /\ k.nreq + 1 + Len(Consume(k).inbuf) <= k.rcvd
<1>1. ~k.busy /\ ~k.closing /\ k.inbuf # <<>> /\ k.life \in {"open", "closing"}
  BY DEF CanParse, ObjectOK
<1>2. Len(k.inbuf) \in Nat \ {0} /\ k.nreq \in Nat /\ k.rcvd \in Nat
  BY <1>1 DEF Connection
<1>3. Consume(k) \in Connection
  BY <1>1, ConsumeType
<1>4. Consume(k).inbuf = Tail(k.inbuf)
  BY DEF Consume, Connection
<1>5. Len(Tail(k.inbuf)) = Len(k.inbuf) - 1
  BY <1>1, FieldTypes, HeadTailProperties
<1>6. k.nreq + Len(k.inbuf) <= k.rcvd /\ k.rcvd <= MaxTokens
  BY DEF ObjectOK, CountOK
<1>7. /\ Len(Consume(k).inbuf) \in Nat /\ k.nreq + 1 + Len(Consume(k).inbuf) <= k.rcvd
      /\ k.nreq + 1 \in Request
  BY <1>2, <1>4, <1>5, <1>6, BoundAssumption DEF Request
<1>8. /\ ~k.deferred
      /\ \A r \in Request : ~Outstanding(rs[r])
      /\ \A r \in Request : rs[r].st = "finished" => rs[r].keepAlive
  BY <1>1 DEF ObjectOK, AnswersOK
<1>9. ~Owed(k, rs)
  BY <1>8 DEF Owed
<1>10. MayBegin(k, k.nreq + 1)
  BY <1>1, <1>9 DEF ObjectOK, TailOK
<1>11. k.headMark = NoMark
  BY <1>10, BeginNoMark DEF ObjectOK
<1>12. QED
  BY <1>1, <1>3, <1>7, <1>8, <1>9, <1>10, <1>11 DEF Free

\* A request starts: its handler is entered with a fresh response.
LEMMA StartOK ==
    ASSUME NEW k \in Connection, NEW q \in Connection, NEW rs \in Table, NEW ss \in Table,
           ObjectOK(k, rs), Free(k, rs), q.life \in {"open", "closing"},
           q.out = k.out, q.sent = k.sent, q.headMark = k.headMark,
           q.nreq = k.nreq + 1, q.busy, ~q.deferred,
           q.nreq + Len(q.inbuf) <= q.rcvd, q.rcvd <= MaxTokens,
           ss[k.nreq + 1].st = "fresh", \A r \in Request : r # k.nreq + 1 => ss[r] = rs[r]
    PROVE  ObjectOK(q, ss) /\ HandlerOK(q, ss)
<1>1. k.nreq \in Nat /\ q.nreq \in Request
  BY FieldTypes DEF Free
<1>2. Owed(q, ss)
  BY <1>1 DEF Owed, Outstanding
<1>3. AnswersOK(q, ss)
  <2>1. ASSUME NEW r \in Request, r # q.nreq
        PROVE  /\ ss[r].st # "none" => r <= q.nreq
               /\ ~Outstanding(ss[r])
               /\ ss[r].st = "finished" => ss[r].keepAlive
    <3>1. ss[r] = rs[r]
      BY <2>1
    <3>2. rs[r].st # "none" => r <= k.nreq
      BY DEF ObjectOK, AnswersOK
    <3>3. r \in Nat
      BY BoundAssumption DEF Request
    <3>4. QED
      BY <1>1, <3>1, <3>2, <3>3 DEF Free
  <2>2. QED
    BY <1>1, <2>1 DEF AnswersOK, Outstanding
<1>4. BufferOK(q) /\ CountOK(q) /\ InOrder(q.out)
  <2>1. BufferOK(k) /\ InOrder(k.out)
    BY DEF ObjectOK
  <2>2. q.headMark = NoMark
    BY DEF Free
  <2>3. QED
    BY <2>1, <2>2 DEF BufferOK, CountOK
<1>5. MayBegin(q, q.nreq)
  BY SameTail DEF Free
<1>6. TailOK(q, ss)
  BY <1>2, <1>5 DEF TailOK
<1>7. q.out # <<>> => LastPiece(q).part # "head"
  BY <1>4, <1>5, BeginNoMark
<1>8. QED
  BY <1>2, <1>3, <1>4, <1>6, <1>7 DEF ObjectOK, HandlerOK

\* A request is parked behind the handler that runs.
LEMMA ParkOK ==
    ASSUME NEW k \in Connection, NEW q \in Connection, NEW rs \in Table,
           ObjectOK(k, rs), Free(k, rs), q.life \in {"open", "closing"},
           q.out = k.out, q.sent = k.sent, q.headMark = k.headMark,
           q.nreq = k.nreq, q.busy, q.deferred, q.closing = k.closing,
           Len(q.inbuf) \in Nat, q.nreq + 1 + Len(q.inbuf) <= q.rcvd, q.rcvd <= MaxTokens
    PROVE  ObjectOK(q, rs)
<1>1. k.nreq \in Nat /\ q.rcvd \in Nat
  BY DEF Connection
<1>2. ~Owed(q, rs)
  BY DEF Free, Owed
<1>3. AnswersOK(q, rs)
  BY DEF Free, AnswersOK, ObjectOK
<1>4. BufferOK(q) /\ CountOK(q) /\ InOrder(q.out)
  <2>1. BufferOK(k) /\ InOrder(k.out)
    BY DEF ObjectOK
  <2>2. q.headMark = NoMark
    BY DEF Free
  <2>3. QED
    BY <1>1, <2>1, <2>2 DEF BufferOK, CountOK
<1>5. MayBegin(q, q.nreq + 1)
  BY SameTail DEF Free
<1>6. TailOK(q, rs)
  BY <1>2, <1>5 DEF TailOK
<1>7. QED
  BY <1>3, <1>4, <1>6 DEF ObjectOK

\* A head that announces a body: with or without "100 Continue".
LEMMA BodyHeadOK ==
    ASSUME NEW k \in Connection, NEW rs \in Table, ObjectOK(k, rs), Free(k, rs), ~k.deferred,
           k.state = "head", ~k.closing, k.life \in {"open", "closing"},
           NEW q \in Connection, q.state = "body",
           \/ q.out = k.out
           \/ q.out = Append(k.out, [req |-> k.nreq + 1, part |-> "continue"]),
           q.sent = k.sent, q.headMark = k.headMark, q.nreq = k.nreq, q.life = k.life,
           q.closing = k.closing, q.deferred = k.deferred, q.busy = k.busy, q.processing = k.processing,
           Len(q.inbuf) \in Nat, q.nreq + 1 + Len(q.inbuf) <= q.rcvd, q.rcvd <= MaxTokens
    PROVE  ObjectOK(q, rs)
<1>1. /\ k.nreq \in Nat /\ k.nreq + 1 \in Nat /\ q.rcvd \in Nat /\ k.sent \in Nat
      /\ Len(k.out) \in Nat /\ "continue" \in Part
  BY FieldTypes DEF Connection, Part
<1>2. ~Owed(q, rs) /\ ~Owed(k, rs)
  BY DEF Free, Owed
<1>3. AnswersOK(q, rs) /\ CountOK(q)
  BY <1>1 DEF AnswersOK, ObjectOK, CountOK
<1>4. BufferOK(k) /\ k.headMark = NoMark /\ InOrder(k.out) /\ MayBegin(k, k.nreq + 1)
  BY DEF ObjectOK, Free
<1>5. MayBegin(q, q.nreq + 1) /\ InOrder(q.out) /\ BufferOK(q)
  <2>1. CASE q.out = k.out
    <3>1. MayBegin(q, q.nreq + 1)
      BY <1>4, <2>1, SameTail
    <3>2. QED
      BY <1>4, <2>1, <3>1 DEF BufferOK
  <2>2. CASE q.out = Append(k.out, [req |-> k.nreq + 1, part |-> "continue"])
    <3>1. /\ Len(q.out) = Len(k.out) + 1
          /\ \A x, P : EndsWith(q, x, P) <=> x = k.nreq + 1 /\ "continue" \in P
      BY <1>1, <2>2, Appended
    <3>2. EndsWith(q, q.nreq + 1, {"continue"})
      BY <3>1
    <3>3. ~EndsWith(k, k.nreq + 1, {"continue"})
      BY <1>2 DEF ObjectOK, TailOK
    <3>4. /\ k.out = <<>> => k.nreq + 1 = 1 /\ "continue" \notin {"body", "end"}
          /\ k.out # <<>> => MayFollow(LastPiece(k), [req |-> k.nreq + 1, part |-> "continue"])
      BY <1>1, <1>4, <3>3, Begins
    <3>5. ASSUME NEW n \in Nat, n = k.nreq + 1
          PROVE  InOrder(q.out)
      <4>1. q.out = Append(k.out, [req |-> n, part |-> "continue"])
        BY <2>2, <3>5
      <4>2. /\ k.out = <<>> => n = 1 /\ "continue" \notin {"body", "end"}
            /\ k.out # <<>> => MayFollow(LastPiece(k), [req |-> n, part |-> "continue"])
        BY <3>4, <3>5
      <4>3. QED
        BY <1>1, <1>4, <4>1, <4>2, Appended
    <3>6. BufferOK(q)
      BY <1>1, <1>4, <3>1 DEF BufferOK
    <3>7. QED
      BY <1>1, <3>2, <3>5, <3>6 DEF MayBegin
  <2>3. QED
    BY <2>1, <2>2
<1>6. TailOK(q, rs)
  BY <1>2, <1>5 DEF TailOK
<1>7. QED
  BY <1>3, <1>5, <1>6 DEF ObjectOK

LEMMA OrderBegins ==
    ASSUME NEW k \in Connection, NEW q \in Connection, NEW n \in Nat, NEW a \in Part,
           MayBegin(k, n), a \in {"head", "error", "500"}, InOrder(k.out),
           q.out = Append(k.out, [req |-> n, part |-> a])
    PROVE  InOrder(q.out) /\ Len(q.out) = Len(k.out) + 1
<1>1. /\ k.out = <<>> => n = 1 /\ a \notin {"body", "end"}
      /\ k.out # <<>> => MayFollow(LastPiece(k), [req |-> n, part |-> a])
  BY Begins
<1>2. Len(q.out) = Len(k.out) + 1
  BY Appended
<1>3. InOrder(q.out)
  BY <1>1, Appended
<1>4. QED
  BY <1>2, <1>3

\* sendErrorAndClose: nothing is owed, so the error answers the next request.
LEMMA ErrorOK ==
    ASSUME NEW k \in Connection, NEW rs \in Table, ObjectOK(k, rs), Free(k, rs), ~k.deferred,
           k.life \in {"open", "closing"}, NEW q \in Connection,
           q.out = Append(k.out, [req |-> k.nreq + 1, part |-> "error"]),
           q.sent = k.sent, q.headMark = NoMark, q.nreq = k.nreq, q.life = k.life,
           q.closing, q.deferred = k.deferred,
           Len(q.inbuf) \in Nat, q.nreq + 1 + Len(q.inbuf) <= q.rcvd, q.rcvd <= MaxTokens
    PROVE  ObjectOK(q, rs)
<1>1. /\ k.nreq \in Nat /\ k.nreq + 1 \in Nat /\ q.rcvd \in Nat /\ k.sent \in Nat
      /\ Len(k.out) \in Nat /\ "error" \in Part
  BY FieldTypes DEF Connection, Part
<1>2. ~Owed(q, rs)
  BY DEF Free, Owed
<1>3. AnswersOK(q, rs) /\ CountOK(q)
  BY <1>1 DEF AnswersOK, ObjectOK, CountOK
<1>4. BufferOK(k) /\ InOrder(k.out) /\ MayBegin(k, k.nreq + 1)
  BY DEF ObjectOK, Free
<1>5. InOrder(q.out) /\ Len(q.out) = Len(k.out) + 1
  BY <1>1, <1>4, OrderBegins
<1>6. BufferOK(q) /\ InOrder(q.out)
  BY <1>1, <1>4, <1>5 DEF BufferOK
<1>7. TailOK(q, rs)
  BY <1>2 DEF TailOK, ObjectOK
<1>8. QED
  BY <1>3, <1>6, <1>7 DEF ObjectOK

----------------
(* The end of a handler *)

\* headMark_ points at the unsent header block of the response that is dropped.
LEMMA DropHeadOK ==
    ASSUME NEW k \in Connection, NEW rs \in Table, ObjectOK(k, rs), k.life # "gone",
           HandlerOK(k, rs), Owed(k, rs), NEW d, d = DropHead(k)
    PROVE  /\ d \in Connection /\ SameInput(k, d) /\ d.life = k.life /\ d.sent = k.sent
           /\ d.sent <= Len(d.out) /\ InOrder(d.out)
           /\ d.out = <<>> => k.nreq = 1
           /\ d.out # <<>> => MayFollow(LastPiece(d), [req |-> k.nreq, part |-> "500"])
<1>1. /\ k.sent \in Nat /\ Len(k.out) \in Nat /\ k.headMark \in Int /\ k.nreq \in Nat
      /\ k.out \in Seq(Piece)
  BY FieldTypes
<1>2. BufferOK(k) /\ InOrder(k.out) /\ TailOK(k, rs) /\ k.sent <= Len(k.out)
  BY DEF ObjectOK, BufferOK
<1>3. \/ MayBegin(k, k.nreq)
      \/ EndsWith(k, k.nreq, {"head", "body", "500"})
  <2>1. rs[k.nreq].st \in {"fresh", "committed"}
    BY DEF Owed, Outstanding
  <2>2. EndsWith(k, k.nreq, {"500"}) => EndsWith(k, k.nreq, {"head", "body", "500"})
    BY DEF EndsWith
  <2>3. QED
    BY <1>2, <2>1, <2>2 DEF TailOK
<1>4. CASE k.headMark = NoMark
  <2>1. ~(k.headMark >= k.sent)
    BY <1>1, <1>4 DEF NoMark
  <2>2. d = k
    BY <2>1 DEF DropHead
  <2>3. k.out # <<>> => LastPiece(k).part # "head"
    BY <1>4 DEF HandlerOK
  <2>4. CASE MayBegin(k, k.nreq)
    <3>1. "500" \in Part
      BY DEF Part
    <3>2. QED
      BY <1>1, <1>2, <2>2, <2>4, <3>1, Begins DEF SameInput
  <2>5. CASE EndsWith(k, k.nreq, {"head", "body", "500"})
    <3>1. MayFollow(LastPiece(k), [req |-> k.nreq, part |-> "500"]) /\ k.out # <<>>
      BY <2>3, <2>5 DEF EndsWith, MayFollow
    <3>2. QED
      BY <1>1, <1>2, <2>2, <3>1 DEF SameInput
  <2>6. QED
    BY <1>3, <2>4, <2>5
<1>5. CASE k.headMark # NoMark
  <2>1. /\ k.headMark = Len(k.out) - 1 /\ k.sent <= k.headMark /\ LastPiece(k).part = "head"
    BY <1>2, <1>5 DEF BufferOK
  <2>2. k.out # <<>> /\ k.headMark >= k.sent /\ k.headMark <= Len(k.out)
    BY <1>1, <2>1
  <2>3. d = [k EXCEPT !.out = SubSeq(k.out, 1, k.headMark)]
    BY <2>2 DEF DropHead
  <2> DEFINE s == SubSeq(k.out, 1, k.headMark)
  <2>4. /\ s \in Seq(Piece) /\ Len(s) = Len(k.out) - 1
        /\ \A i \in 1 .. Len(k.out) - 1 : s[i] = k.out[i]
        /\ InOrder(s)
    BY <1>1, <1>2, <2>1, <2>2, OrderDrop
  <2> HIDE DEF s
  <2>5. /\ d \in Connection /\ SameInput(k, d) /\ d.life = k.life /\ d.sent = k.sent /\ d.out = s
    <3>1. d = [k EXCEPT !.out = s]
      BY <2>3 DEF s
    <3>2. d \in Connection
      BY <2>4, <3>1 DEF Connection
    <3>3. QED
      BY <3>1, <3>2 DEF SameInput, Connection
  <2>6. d.sent <= Len(d.out) /\ InOrder(d.out)
    BY <1>1, <2>1, <2>4, <2>5
  <2>7. LastPiece(k).req = k.nreq
    <3>1. MayBegin(k, k.nreq) => k.out = <<>> \/ LastPiece(k).part # "head"
      BY DEF MayBegin, EndsWith
    <3>2. QED
      BY <1>3, <2>1, <2>2, <3>1 DEF EndsWith
  <2>8. CASE d.out = <<>>
    <3>1. Len(s) = 0
      BY <2>5, <2>8
    <3>2. Len(k.out) = 1
      BY <1>1, <2>4, <3>1
    <3>3. LastPiece(k) = k.out[1]
      BY <3>2 DEF LastPiece
    <3>4. k.nreq = 1
      BY <1>2, <2>2, <2>7, <3>3 DEF InOrder
    <3>5. QED
      BY <2>5, <2>6, <2>8, <3>4
  <2>9. CASE d.out # <<>>
    <3> DEFINE m == Len(k.out) - 1
    <3>1. m \in 1 .. Len(k.out) - 1 /\ Len(s) = m /\ m + 1 = Len(k.out) /\ s[m] = k.out[m]
      BY <1>1, <2>2, <2>4, <2>5, <2>9
    <3>2. MayFollow(k.out[m], k.out[m + 1])
      BY <1>2, <3>1 DEF InOrder
    <3>3. LastPiece(d) = k.out[m] /\ LastPiece(k) = k.out[m + 1]
      BY <2>5, <3>1 DEF LastPiece
    <3> HIDE DEF m
    <3>4. MayFollow(LastPiece(d), LastPiece(k)) /\ LastPiece(d) \in Piece
      BY <2>5, <2>9, <3>2, <3>3, PieceTypes
    <3>5. MayFollow(LastPiece(d), [req |-> k.nreq, part |-> "500"])
      BY <2>1, <2>7, <3>4 DEF MayFollow, Piece, Part
    <3>6. QED
      BY <2>5, <2>6, <2>9, <3>5
  <2>10. QED
    BY <2>8, <2>9
<1>6. QED
  BY <1>4, <1>5

\* A handler that throws before its request is answered: the 500 takes the
\* place of an unsent header block and cuts a begun body short.
LEMMA ThrowOK ==
    ASSUME NEW k \in Connection, NEW rs \in Table, ObjectOK(k, rs), k.life \in {"open", "closing"},
           HandlerOK(k, rs), k.busy, NEW q, q = Send500(k)
    PROVE  /\ q \in Connection /\ ObjectOK(q, rs) /\ q.life = k.life
           /\ q.processing = k.processing /\ q.deferred = k.deferred
<1> DEFINE d == DropHead(k)
<1>1. Owed(k, rs) /\ k.nreq \in Nat /\ "500" \in Part /\ ~k.deferred
  BY FieldTypes DEF HandlerOK, Part
<1>2. /\ d \in Connection /\ SameInput(k, d) /\ d.life = k.life /\ d.sent = k.sent
      /\ d.sent <= Len(d.out) /\ InOrder(d.out)
      /\ d.out = <<>> => k.nreq = 1
      /\ d.out # <<>> => MayFollow(LastPiece(d), [req |-> k.nreq, part |-> "500"])
  BY <1>1, DropHeadOK
<1>3. q = [AppendPart(d, k.nreq, "500") EXCEPT !.busy = FALSE, !.closing = TRUE]
  BY DEF Send500
<1> HIDE DEF d
<1>4. AppendPart(d, k.nreq, "500") \in Connection
  BY <1>1, <1>2, AppendType
<1>5. q \in Connection
  BY <1>3, <1>4 DEF Connection
<1>6. /\ q.out = Append(d.out, [req |-> k.nreq, part |-> "500"])
      /\ q.headMark = NoMark /\ q.sent = d.sent /\ q.life = d.life /\ q.state = d.state
      /\ q.inbuf = d.inbuf /\ q.rcvd = d.rcvd /\ q.nreq = d.nreq /\ q.deferred = d.deferred
      /\ q.processing = d.processing /\ ~q.busy /\ q.closing
  BY <1>2, <1>3, <1>4 DEF AppendPart, Connection
<1>7. InOrder(q.out)
  <2>1. /\ d.out = <<>> => k.nreq = 1 /\ "500" \notin {"body", "end"}
        /\ d.out # <<>> => MayFollow(LastPiece(d), [req |-> k.nreq, part |-> "500"])
    BY <1>2
  <2>2. InOrder(d.out) /\ d \in Connection
    BY <1>2
  <2>3. q.out = Append(d.out, [req |-> k.nreq, part |-> "500"])
    BY <1>6
  <2>4. QED
    BY <1>1, <1>5, <2>1, <2>2, <2>3, OrderFollows
<1>8. Len(q.out) = Len(d.out) + 1
  BY <1>1, <1>2, <1>5, <1>6, Appended
<1>9. \A x, P : EndsWith(q, x, P) <=> x = k.nreq /\ "500" \in P
  BY <1>1, <1>2, <1>5, <1>6, Appended
<1>10. /\ q.nreq = k.nreq /\ q.life = k.life /\ ~q.deferred /\ q.processing = k.processing
       /\ q.deferred = k.deferred
  BY <1>1, <1>2, <1>6 DEF SameInput
<1>11. BufferOK(q) /\ CountOK(q)
  <2>1. CountOK(k) /\ Len(d.out) \in Nat /\ d.sent \in Nat
    BY <1>2, FieldTypes DEF ObjectOK
  <2>2. QED
    BY <1>2, <1>6, <1>8, <2>1 DEF BufferOK, CountOK, SameInput
<1>12. AnswersOK(q, rs)
  <2>1. AnswersOK(k, rs) /\ k.life # "gone"
    BY DEF ObjectOK
  <2>2. QED
    BY <1>1, <1>6, <1>10, <2>1 DEF AnswersOK
<1>13. TailOK(q, rs)
  <2>1. Owed(q, rs)
    BY <1>1, <1>10 DEF Owed
  <2>2. EndsWith(q, q.nreq, {"500"}) /\ EndsWith(q, q.nreq, {"head", "body", "500"})
    BY <1>9, <1>10
  <2>3. QED
    BY <2>1, <2>2 DEF TailOK
<1>14. ObjectOK(q, rs)
  BY <1>6, <1>7, <1>10, <1>11, <1>12, <1>13 DEF ObjectOK
<1>15. QED
  BY <1>1, <1>5, <1>10, <1>14

----------------
(* Closing *)

\* Marked closing_ or not, moved to EventLoop::closing_ or not.
LEMMA ClosingOK ==
    ASSUME NEW k \in Connection, NEW rs \in Table, ObjectOK(k, rs), k.life \in {"open", "closing"},
           NEW q \in {LoopClose(k), [k EXCEPT !.closing = TRUE], LoopClose([k EXCEPT !.closing = TRUE])}
    PROVE  /\ q \in Connection /\ ObjectOK(q, rs) /\ q.life \in {"open", "closing"}
           /\ q.processing = k.processing /\ q.deferred = k.deferred
           /\ q = [k EXCEPT !.closing = TRUE] \/ q.life = "closing"
           /\ HandlerOK(k, rs) => HandlerOK(q, rs)
<1>1. q \in Connection
  BY LoopCloseType
<1>2. /\ q.out = k.out /\ q.nreq = k.nreq /\ q.state = k.state /\ q.busy = k.busy
      /\ q.deferred = k.deferred /\ q.processing = k.processing /\ q.sent = k.sent
      /\ q.headMark = k.headMark /\ q.inbuf = k.inbuf /\ q.rcvd = k.rcvd /\ (k.closing => q.closing)
      /\ q.life \in {"open", "closing"}
      /\ q = [k EXCEPT !.closing = TRUE] \/ q.life = "closing"
  BY DEF LoopClose, Connection
<1>3. Quiet(k, q)
  BY <1>2 DEF Quiet
<1>4. BufferOK(q) /\ CountOK(q)
  BY <1>2 DEF BufferOK, CountOK, ObjectOK, LastPiece
<1>5. ObjectOK(q, rs)
  BY <1>1, <1>3, <1>4, QuietOK
<1>6. HandlerOK(k, rs) => HandlerOK(q, rs)
  BY <1>2 DEF HandlerOK, LastPiece, Owed
<1>7. QED
  BY <1>1, <1>2, <1>5, <1>6

\* A destroyed connection: its responses only go on towards "finished".
LEMMA GoneOK ==
    ASSUME NEW k \in Connection, NEW rs \in Table, NEW ss \in Table, NEW r \in Request,
           ObjectOK(k, rs), k.life = "gone", Outstanding(rs[r]),
           ss[r].st \in {"committed", "finished"}, \A x \in Request : x # r => ss[x] = rs[x]
    PROVE  ObjectOK(k, ss)
<1>1. AnswersOK(k, rs) /\ r = k.nreq /\ ~k.deferred /\ r \in Nat
  BY OwedIsLatest DEF ObjectOK
<1>2. AnswersOK(k, ss)
  <2>1. ASSUME NEW x \in Request
        PROVE  /\ ss[x].st # "none" => x <= k.nreq
               /\ Outstanding(ss[x]) => x = k.nreq /\ ~k.deferred /\ (k.busy \/ k.closing)
               /\ ss[x].st = "finished" /\ ~ss[x].keepAlive =>
                     k.nreq <= x /\ ~k.deferred /\ (k.closing \/ k.life = "gone")
    <3>1. CASE x = r
      BY <1>1, <3>1 DEF AnswersOK, Outstanding
    <3>2. CASE x # r
      <4>1. ss[x] = rs[x]
        BY <3>2
      <4>2. QED
        BY <1>1, <4>1 DEF AnswersOK
    <3>3. QED
      BY <3>1, <3>2
  <2>2. QED
    BY <1>1, <2>1 DEF AnswersOK
<1>3. QED
  BY <1>2 DEF ObjectOK

\* Responses exist only for connections that were accepted.
LEMMA HeldResponse ==
    ASSUME NEW k \in Connection, NEW rs \in Table, NEW r \in Request, ObjectOK(k, rs),
           rs[r].st # "none", k.life \notin {"open", "closing"}
    PROVE  k.life = "gone" /\ ~k.processing
<1>1. k.life = "none" => k.nreq = 0
  BY DEF ObjectOK, NewConnection
<1>2. r <= k.nreq /\ r \in Nat /\ r # 0
  BY BoundAssumption DEF ObjectOK, AnswersOK, Request
<1>3. k.life # "none"
  BY <1>1, <1>2
<1>4. QED
  BY <1>3 DEF ObjectOK, Connection

----------------
(* The actions *)

Objects == \A c \in Conn : ObjectOK(conn[c], res[c]) /\ IdleOK(conn[c])

\* ServerInv without the gate, which GateNext is about.
Rest == FramesOK /\ ParkedOnce /\ CacheValid /\ Objects

LEMMA ObjectFacts ==
    ASSUME TypeOK, ServerInv, NEW c \in Conn
    PROVE  /\ conn[c] \in Connection /\ res[c] \in Table
           /\ ObjectOK(conn[c], res[c]) /\ IdleOK(conn[c])
BY DEF TypeOK, ServerInv, Table

\* A step on one object that leaves stack and gate alone.
LEMMA StepKept ==
    ASSUME TypeOK, ServerInv, NEW c \in Conn, NEW q, NEW ss, Changes(c, q, ss),
           ObjectOK(q, ss), IdleOK(q),
           q.processing = conn[c].processing, q.deferred = conn[c].deferred,
           \A i \in 1 .. Len(stack) :
               stack[i].c = c /\ stack[i].at = "handler" => HandlerOK(q, ss),
           Registered(c) => q.life \in {"open", "closing"},
           stack' = stack, gate' = gate, cached' = cached \/ (Registered(c) /\ cached' = c)
    PROVE  Rest'
<1>1. FramesOK'
  <2>1. FramesOK
    BY DEF ServerInv
  <2>2. QED
    BY <2>1, FramesKept
<1>2. ParkedOnce'
  BY ParkedKept DEF ServerInv
<1>3. CacheValid'
  BY CacheKept DEF ServerInv
<1>4. Objects'
  BY ObjectsStep DEF ServerInv, Objects
<1>5. QED
  BY <1>1, <1>2, <1>3, <1>4 DEF Rest

LEMMA AcceptInv ==
    ASSUME TypeOK, ServerInv, NEW c \in Conn, Accept(c)
    PROVE  Rest'
<1> DEFINE k == conn[c]
           q == [k EXCEPT !.life = "open"]
<1>1. k \in Connection /\ res[c] \in Table /\ ObjectOK(k, res[c])
  BY ObjectFacts
<1>2. k.life = "none" /\ k = NewConnection
  BY <1>1 DEF Accept, ObjectOK
<1>3. Changes(c, q, res[c]) /\ stack' = stack /\ gate' = gate /\ cached' = cached /\ stack = <<>>
  BY ConnChanges DEF Accept
<1> HIDE DEF k
<1>4. q \in Connection
  BY <1>1 DEF Connection
<1>5. /\ q.life = "open" /\ q.out = k.out /\ q.nreq = k.nreq /\ q.state = k.state
      /\ q.busy = k.busy /\ q.deferred = k.deferred /\ q.closing = k.closing
      /\ q.processing = k.processing /\ q.sent = k.sent /\ q.headMark = k.headMark
      /\ q.inbuf = k.inbuf /\ q.rcvd = k.rcvd /\ q.peerClosed = k.peerClosed
  BY <1>1 DEF Connection
<1> HIDE DEF q
<1>6. Quiet(k, q)
  BY <1>2, <1>5 DEF Quiet
<1>7. BufferOK(q) /\ CountOK(q)
  BY <1>1, <1>5 DEF ObjectOK, BufferOK, CountOK, LastPiece
<1>8. ObjectOK(q, res[c])
  BY <1>1, <1>4, <1>6, <1>7, QuietOK
<1>9. IdleOK(q)
  BY <1>2, <1>5 DEF IdleOK, NewConnection
<1>10. \A i \in 1 .. Len(stack) : stack[i].c = c /\ stack[i].at = "handler" => HandlerOK(q, res[c])
  BY <1>3
<1>11. q.processing = conn[c].processing /\ q.deferred = conn[c].deferred
  BY <1>5 DEF k
<1>12. QED
  BY <1>3, <1>5, <1>8, <1>9, <1>10, <1>11, StepKept

LEMMA OnErrorInv ==
    ASSUME TypeOK, ServerInv, NEW c \in Conn, OnError(c)
    PROVE  Rest'
<1> DEFINE k == conn[c]
           q == LoopClose(k)
<1>1. k \in Connection /\ res[c] \in Table /\ ObjectOK(k, res[c]) /\ k.life = "open"
  BY ObjectFacts DEF OnError
<1>2. Changes(c, q, res[c]) /\ stack' = stack /\ gate' = gate /\ cached' = cached /\ stack = <<>>
  BY ConnChanges DEF OnError
<1>3. q.life = "closing"
  BY <1>1 DEF LoopClose, Connection
<1>4. ObjectOK(q, res[c]) /\ q.processing = k.processing /\ q.deferred = k.deferred
  BY <1>1, ClosingOK
<1>5. IdleOK(q)
  BY <1>3 DEF IdleOK
<1>6. \A i \in 1 .. Len(stack) : stack[i].c = c /\ stack[i].at = "handler" => HandlerOK(q, res[c])
  BY <1>2
<1> HIDE DEF q
<1>7. QED
  BY <1>2, <1>3, <1>4, <1>5, <1>6, StepKept

LEMMA OnWritableInv ==
    ASSUME TypeOK, ServerInv, NEW c \in Conn, OnWritable(c)
    PROVE  Rest'
<1>1. /\ conn[c] \in Connection /\ res[c] \in Table /\ ObjectOK(conn[c], res[c])
      /\ conn[c].life = "open"
  BY ObjectFacts DEF OnWritable
<1>2. PICK q \in FlushAndMaybeClose(conn[c]) : conn' = [conn EXCEPT ![c] = q]
  BY DEF OnWritable
<1>3. Changes(c, q, res[c]) /\ stack' = stack /\ gate' = gate /\ cached' = cached /\ stack = <<>>
  BY <1>2, ConnChanges DEF OnWritable
<1>4. /\ SameInput(conn[c], q) /\ q.life \in {"open", "closing"}
      /\ ObjectOK(q, res[c]) /\ IdleOK(q)
  BY <1>1, FlushOK
<1>5. q.processing = conn[c].processing /\ q.deferred = conn[c].deferred
  BY <1>4 DEF SameInput
<1>6. \A i \in 1 .. Len(stack) : stack[i].c = c /\ stack[i].at = "handler" => HandlerOK(q, res[c])
  BY <1>3
<1>7. QED
  BY <1>3, <1>4, <1>5, <1>6, StepKept

LEMMA ReceivedOK ==
    ASSUME NEW c \in Conn, NEW k \in Connection, NEW rs \in Table, ObjectOK(k, rs), k.life = "open",
           NEW ts \in Seq(Token), NEW eof \in BOOLEAN, Arrives(c, k, ts),
           NEW q \in Connection, q.inbuf = k.inbuf \o ts, q.rcvd = k.rcvd + Len(ts),
           q.out = k.out, q.sent = k.sent, q.headMark = k.headMark, q.nreq = k.nreq,
           q.state = k.state, q.busy = k.busy, q.deferred = k.deferred, q.closing = k.closing,
           q.life \in {"open", "closing"}
    PROVE  ObjectOK(q, rs)
<1>1. Quiet(k, q)
  BY DEF Quiet
<1>2. BufferOK(q)
  BY DEF ObjectOK, BufferOK, LastPiece
<1>3. /\ Len(q.inbuf) = Len(k.inbuf) + Len(ts) /\ Len(ts) \in Nat /\ Len(k.inbuf) \in Nat
      /\ k.nreq \in Nat /\ k.rcvd \in Nat
  BY FieldTypes DEF Connection
<1>4. q.rcvd <= MaxTokens
  <2>1. Quota[c] \in Nat /\ Quota[c] <= MaxTokens /\ MaxTokens \in Nat
    BY BoundAssumption
  <2>2. k.rcvd + Len(ts) <= Quota[c]
    BY DEF Arrives
  <2>3. QED
    BY <1>3, <2>1, <2>2
<1>5. CountOK(q)
  BY <1>3, <1>4 DEF ObjectOK, CountOK
<1>6. QED
  BY <1>1, <1>2, <1>5, QuietOK

LEMMA BatchType ==
    ASSUME NEW ts \in Batch
    PROVE  ts \in Seq(Token)
<1>1. PICK n \in 0 .. MaxBatch : ts \in [1 .. n -> Token]
  BY DEF Batch
<1>2. n \in Nat
  BY <1>1, BoundAssumption
<1>3. QED
  BY <1>1, <1>2

LEMMA OnReadableInv ==
    ASSUME TypeOK, ServerInv, NEW c \in Conn, NEW ts \in Batch, NEW eof \in BOOLEAN,
           OnReadable(c, ts, eof), TypeOK'
    PROVE  Rest'
<1> DEFINE k == conn[c]
           f == Received(k, ts, eof)
           p == [f EXCEPT !.processing = TRUE]
<1>1. /\ k \in Connection /\ res[c] \in Table /\ ObjectOK(k, res[c]) /\ k.life = "open"
      /\ ts \in Seq(Token) /\ Arrives(c, k, ts)
  BY ObjectFacts, BatchType DEF OnReadable
<1>2. /\ f.inbuf = k.inbuf \o ts /\ f.rcvd = k.rcvd + Len(ts) /\ f.out = k.out /\ f.sent = k.sent
      /\ f.headMark = k.headMark /\ f.nreq = k.nreq /\ f.state = k.state /\ f.busy = k.busy
      /\ f.deferred = k.deferred /\ f.closing = k.closing /\ f.life = k.life
      /\ f.processing = k.processing
      /\ f.peerClosed = (k.peerClosed \/ eof)
  BY <1>1 DEF Received, Connection
<1>3. f \in Connection
  <2>1. k.inbuf \o ts \in Seq(AllTokens) /\ Len(ts) \in Nat /\ k.rcvd \in Nat
    BY <1>1, TokenAssumption DEF Connection
  <2>2. k.rcvd + Len(ts) \in Nat /\ (k.peerClosed \/ eof) \in BOOLEAN
    BY <2>1
  <2>3. ASSUME NEW s \in Seq(AllTokens), NEW n \in Nat, NEW b \in BOOLEAN
        PROVE  [k EXCEPT !.inbuf = s, !.rcvd = n, !.peerClosed = b] \in Connection
    BY <1>1 DEF Connection
  <2>4. QED
    BY <2>1, <2>2, <2>3 DEF Received
<1>4. stack = <<>> /\ gate' = gate /\ cached' = cached /\ res' = res
  BY DEF OnReadable
<1>5. CASE eof /\ ~f.busy /\ Drained(f)
  <2> DEFINE q == LoopClose(f)
  <2>1. conn' = [conn EXCEPT ![c] = q] /\ stack' = stack
    BY <1>5 DEF OnReadable
  <2> HIDE DEF f
  <2>2. q \in Connection
    BY <1>3, LoopCloseType
  <2>3. /\ q.inbuf = f.inbuf /\ q.rcvd = f.rcvd /\ q.out = f.out /\ q.sent = f.sent
        /\ q.headMark = f.headMark /\ q.nreq = f.nreq /\ q.state = f.state /\ q.busy = f.busy
        /\ q.deferred = f.deferred /\ q.closing = f.closing /\ q.life = "closing"
        /\ q.processing = f.processing
    BY <1>3 DEF LoopClose, Connection
  <2> HIDE DEF q
  <2>4. ObjectOK(q, res[c])
    BY <1>1, <1>2, <2>2, <2>3, ReceivedOK
  <2>5. IdleOK(q)
    BY <2>3 DEF IdleOK
  <2>6. Changes(c, q, res[c])
    BY <1>4, <2>1, ConnChanges
  <2>7. q.processing = conn[c].processing /\ q.deferred = conn[c].deferred
    BY <1>2, <2>3
  <2>8. \A i \in 1 .. Len(stack) : stack[i].c = c /\ stack[i].at = "handler" => HandlerOK(q, res[c])
    BY <1>4
  <2>9. QED
    BY <1>4, <2>1, <2>3, <2>4, <2>5, <2>6, <2>7, <2>8, StepKept
<1>6. CASE ~(eof /\ ~f.busy /\ Drained(f))
  <2>1. conn' = [conn EXCEPT ![c] = p] /\ stack' = Push(c, "loop", FALSE)
    BY <1>6 DEF OnReadable
  <2> HIDE DEF f
  <2>2. p \in Connection
    BY <1>3 DEF Connection
  <2>3. /\ p.inbuf = f.inbuf /\ p.rcvd = f.rcvd /\ p.out = f.out /\ p.sent = f.sent
        /\ p.headMark = f.headMark /\ p.nreq = f.nreq /\ p.state = f.state /\ p.busy = f.busy
        /\ p.deferred = f.deferred /\ p.closing = f.closing /\ p.life = f.life /\ p.processing
    BY <1>3 DEF Connection
  <2> HIDE DEF p
  <2>4. ObjectOK(p, res[c])
    BY <1>1, <1>2, <2>2, <2>3, ReceivedOK
  <2>5. IdleOK(p)
    BY <2>3 DEF IdleOK
  <2>6. Changes(c, p, res[c])
    BY <1>4, <2>1, ConnChanges
  <2>7. ~conn[c].processing
    <3>1. Len(stack) = 0
      BY <1>4
    <3>2. conn[c].processing <=> \E i \in 1 .. Len(stack) : stack[i].c = c
      BY DEF ServerInv, FramesOK
    <3>3. QED
      BY <3>1, <3>2
  <2>8. FramesOK'
    <3>1. "loop" \in At /\ "loop" # "handler" /\ FramesOK
      BY DEF At, ServerInv
    <3>2. QED
      BY <1>4, <2>1, <2>3, <2>6, <2>7, <3>1, FramesPush
  <2>9. ParkedOnce'
    BY <1>2, <1>4, <2>3, <2>6, ParkedKept DEF ServerInv
  <2>10. CacheValid'
    BY <1>1, <1>2, <1>4, <2>3, <2>6, CacheKept DEF ServerInv
  <2>11. Objects'
    BY <2>4, <2>5, <2>6, ObjectsStep DEF ServerInv, Objects
  <2>12. QED
    BY <2>8, <2>9, <2>10, <2>11 DEF Rest
<1>7. QED
  BY <1>5, <1>6

LEMMA PurgeInv ==
    ASSUME TypeOK, ServerInv, Purge
    PROVE  Rest'
<1>1. /\ stack = <<>> /\ stack' = stack /\ gate' = gate /\ res' = res
      /\ conn' = [c \in Conn |-> IF conn[c].life = "closing"
                                   THEN [conn[c] EXCEPT !.life = "gone"] ELSE conn[c]]
      /\ cached' = IF cached # NoConn /\ conn[cached].life = "closing" THEN NoConn ELSE cached
  BY DEF Purge
<1>2. Len(stack) = 0 /\ gate.deferred = <<>>
  <2>1. Len(stack) = 0
    BY <1>1
  <2>2. QED
    BY <2>1 DEF ServerInv, GateInv, OneFrame, TwoFrames, ThreeFrames
<1>3. \A c \in Conn : ~conn[c].deferred /\ ~conn[c].processing
  <2>1. \A i \in 1 .. Len(gate.deferred) : FALSE
    BY <1>2
  <2>2. \A i \in 1 .. Len(stack) : FALSE
    BY <1>2
  <2>3. \A c \in Conn : ~conn[c].deferred
    BY <2>1 DEF ServerInv, ParkedOnce
  <2>4. \A c \in Conn : ~conn[c].processing
    BY <2>2 DEF ServerInv, FramesOK
  <2>5. QED
    BY <2>3, <2>4
<1>4. ASSUME NEW c \in Conn
      PROVE  /\ ObjectOK(conn'[c], res'[c]) /\ IdleOK(conn'[c])
             /\ conn'[c].deferred = conn[c].deferred /\ conn'[c].processing = conn[c].processing
  <2> DEFINE k == conn[c]
             q == [k EXCEPT !.life = "gone"]
  <2>1. k \in Connection /\ res[c] \in Table /\ ObjectOK(k, res[c]) /\ IdleOK(k)
    BY ObjectFacts
  <2>2. CASE k.life = "closing"
    <3>1. conn'[c] = q
      BY <1>1, <2>2
    <3> HIDE DEF k
    <3>2. /\ q.out = k.out /\ q.nreq = k.nreq /\ q.state = k.state /\ q.busy = k.busy
          /\ q.deferred = k.deferred /\ q.processing = k.processing /\ q.sent = k.sent
          /\ q.headMark = k.headMark /\ q.inbuf = k.inbuf /\ q.rcvd = k.rcvd
          /\ q.closing = k.closing /\ q.life = "gone" /\ q \in Connection
      BY <2>1 DEF Connection
    <3> HIDE DEF q
    <3>3. ~k.deferred /\ ~k.processing
      BY <1>3 DEF k
    <3>4. Quiet(k, q)
      BY <3>2, <3>3 DEF Quiet
    <3>5. BufferOK(q) /\ CountOK(q)
      BY <2>1, <3>2 DEF ObjectOK, BufferOK, CountOK, LastPiece
    <3>6. ObjectOK(q, res[c])
      BY <2>1, <3>2, <3>4, <3>5, QuietOK
    <3>7. IdleOK(q)
      BY <3>2 DEF IdleOK
    <3>8. QED
      BY <1>1, <3>1, <3>2, <3>6, <3>7 DEF k
  <2>3. CASE k.life # "closing"
    BY <1>1, <2>1, <2>3
  <2>4. QED
    BY <2>2, <2>3
<1>5. Objects'
  BY <1>4 DEF Objects, ObjectOK, BufferOK, CountOK, AnswersOK, TailOK, IdleOK, Owed, Drained
<1>6. ParkedOnce'
  BY <1>1, <1>4 DEF ServerInv, ParkedOnce
<1>7. FramesOK'
  BY <1>1, <1>2, <1>3, <1>4 DEF FramesOK
<1>8. CacheValid'
  <2>1. CASE cached' = NoConn
    BY <2>1 DEF CacheValid
  <2>2. CASE cached' # NoConn
    <3>1. cached' = cached /\ cached \in Conn /\ conn[cached].life # "closing"
      BY <1>1, <2>2 DEF TypeOK
    <3>2. conn[cached].life = "open" /\ conn'[cached] = conn[cached]
      BY <1>1, <2>2, <3>1 DEF ServerInv, CacheValid, Registered
    <3>3. QED
      BY <3>1, <3>2 DEF CacheValid, Registered
  <2>3. QED
    BY <2>1, <2>2
<1>9. QED
  BY <1>5, <1>6, <1>7, <1>8 DEF Rest

LEMMA ParkedAppend ==
    ASSUME TypeOK, ParkedOnce, NEW c \in Conn, NEW q, NEW ss, Changes(c, q, ss),
           ~conn[c].deferred, q.deferred, gate'.deferred = Append(gate.deferred, c)
    PROVE  ParkedOnce'
<1> DEFINE s == gate.deferred
           t == gate'.deferred
<1>1. s \in Seq(Conn)
  BY DEF TypeOK, Gate
<1>2. t = Append(s, c)
  OBVIOUS
<1> HIDE DEF s, t
<1>3. /\ Len(s) \in Nat /\ Len(t) = Len(s) + 1 /\ t[Len(s) + 1] = c
      /\ \A i \in 1 .. Len(s) : t[i] = s[i]
  BY <1>1, <1>2
<1>4. \A i \in 1 .. Len(s) : s[i] # c
  BY DEF ParkedOnce, s
<1>5. \A i \in 1 .. Len(t) : (i = Len(s) + 1 /\ t[i] = c) \/ (i \in 1 .. Len(s) /\ t[i] = s[i])
  BY <1>3
<1>6. ASSUME NEW i \in 1 .. Len(t), NEW j \in 1 .. Len(t), t[i] = t[j]
      PROVE  i = j
  <2>1. \A x, y \in 1 .. Len(s) : s[x] = s[y] => x = y
    BY DEF ParkedOnce, s
  <2>2. QED
    BY <1>4, <1>5, <1>6, <2>1
<1>7. ASSUME NEW d \in Conn
      PROVE  conn'[d].deferred <=> \E i \in 1 .. Len(t) : t[i] = d
  <2>1. CASE d = c
    <3>1. Len(s) + 1 \in 1 .. Len(t)
      BY <1>3
    <3>2. QED
      BY <1>3, <2>1, <3>1 DEF Changes
  <2>2. CASE d # c
    <3>1. conn'[d].deferred <=> \E i \in 1 .. Len(s) : s[i] = d
      BY <2>2 DEF Changes, ParkedOnce, s
    <3>2. \A i \in 1 .. Len(s) : i \in 1 .. Len(t)
      BY <1>3
    <3>3. QED
      BY <1>3, <1>5, <2>2, <3>1, <3>2
  <2>3. QED
    BY <2>1, <2>2
<1>8. QED
  BY <1>6, <1>7 DEF t, ParkedOnce

\* What the parser hands to dispatchCurrent: a token is gone from the buffer.
Parsed(k, h) ==
    /\ h \in Connection /\ h.inbuf = Consume(k).inbuf /\ h.rcvd = k.rcvd /\ h.nreq = k.nreq
    /\ h.out = k.out /\ h.sent = k.sent /\ h.headMark = k.headMark /\ h.life = k.life
    /\ h.busy = k.busy /\ h.closing = k.closing /\ h.processing = k.processing
    /\ h.deferred = k.deferred

LEMMA DispatchInv ==
    ASSUME TypeOK, ServerInv, AtTop("loop"), CanParse(conn[Top.c]), NEW h,
           Parsed(conn[Top.c], h), DispatchCurrent(Top.c, h), cached' = cached
    PROVE  Rest'
<1> DEFINE c == Top.c
           k == conn[c]
<1>1. stack # <<>> /\ Top.at = "loop" /\ FramesOK /\ ParkedOnce /\ CacheValid
  BY DEF AtTop, ServerInv
<1>2. c \in Conn /\ k.processing
  BY <1>1, TopFacts
<1>3. k \in Connection /\ res[c] \in Table /\ ObjectOK(k, res[c])
  BY <1>2, ObjectFacts
<1>4. /\ Free(k, res[c]) /\ ~k.deferred /\ k.life \in {"open", "closing"}
      /\ Len(Consume(k).inbuf) \in Nat /\ k.nreq + 1 + Len(Consume(k).inbuf) <= k.rcvd
      /\ k.rcvd <= MaxTokens
  BY <1>2, <1>3, ParserFree DEF ObjectOK, CountOK
<1>5. Parsed(k, h) /\ h \in Connection
  BY DEF Parsed
<1>6. DispatchCurrent(c, h)
  OBVIOUS
<1> HIDE DEF c, k
<1>7. CASE gate.active > 0
  <2> DEFINE q == [h EXCEPT !.busy = TRUE, !.deferred = TRUE]
  <2>1. /\ conn' = [conn EXCEPT ![c] = q] /\ gate' = [gate EXCEPT !.deferred = Append(@, c)]
        /\ stack' = MoveTo("loop") /\ res' = res
    BY <1>6, <1>7 DEF DispatchCurrent
  <2>2. Changes(c, q, res[c])
    BY <1>2, <2>1, ConnChanges
  <2>3. /\ q \in Connection /\ q.inbuf = h.inbuf /\ q.rcvd = h.rcvd /\ q.nreq = h.nreq
        /\ q.out = h.out /\ q.sent = h.sent /\ q.headMark = h.headMark /\ q.life = h.life
        /\ q.busy /\ q.closing = h.closing /\ q.processing = h.processing /\ q.deferred
    BY <1>5 DEF Connection
  <2> HIDE DEF q
  <2>4. ObjectOK(q, res[c])
    BY <1>3, <1>4, <1>5, <2>3, ParkOK DEF Parsed
  <2>5. IdleOK(q)
    BY <2>3 DEF IdleOK
  <2>6. FramesOK'
    <3>1. "loop" \in At /\ "loop" # "handler"
      BY DEF At
    <3>2. q.processing = conn[Top.c].processing /\ Changes(Top.c, q, res[c])
      BY <1>5, <2>2, <2>3 DEF Parsed, k, c
    <3>3. QED
      BY <1>1, <2>1, <3>1, <3>2, FramesMove
  <2>7. ParkedOnce'
    <3>1. gate'.deferred = Append(gate.deferred, c)
      BY <2>1 DEF TypeOK, Gate
    <3>2. ~conn[c].deferred
      BY <1>4 DEF k
    <3>3. QED
      BY <1>1, <1>2, <2>2, <2>3, <3>1, <3>2, ParkedAppend
  <2>8. CacheValid'
    BY <1>1, <1>2, <1>4, <1>5, <2>2, <2>3, CacheKept DEF Parsed
  <2>9. Objects'
    BY <1>2, <2>2, <2>4, <2>5, ObjectsStep DEF ServerInv, Objects
  <2>10. QED
    BY <2>6, <2>7, <2>8, <2>9 DEF Rest
<1>8. CASE ~(gate.active > 0)
  <2> DEFINE q == [h EXCEPT !.busy = TRUE, !.nreq = @ + 1]
             x == [NoResponse EXCEPT !.st = "fresh", !.keepAlive = h.keepAlive]
             ss == [res[c] EXCEPT ![k.nreq + 1] = x]
  <2>1. /\ conn' = [conn EXCEPT ![c] = q] /\ gate' = [gate EXCEPT !.active = @ + 1]
        /\ stack' = MoveTo("handler") /\ res' = [res EXCEPT ![c][h.nreq + 1] = x]
    BY <1>6, <1>8 DEF DispatchCurrent
  <2>2. h.nreq = k.nreq /\ k.nreq + 1 \in Request /\ k.nreq \in Nat
    BY <1>3, <1>4, <1>5, FieldTypes DEF Parsed, Free
  <2>3. x \in Response /\ x.st = "fresh"
    BY <1>5, NewResponseType DEF Connection, NoResponse
  <2> HIDE DEF x
  <2>4. ss \in Table /\ ss[k.nreq + 1].st = "fresh" /\ \A r \in Request : r # k.nreq + 1 => ss[r] = res[c][r]
    BY <1>3, <2>2, <2>3 DEF Table
  <2>5. Changes(c, q, ss)
    BY <1>2, <2>1, <2>2, BothChange
  <2>6. q \in Connection
    BY <1>5, ServingFields
  <2>7. /\ q.inbuf = h.inbuf /\ q.rcvd = h.rcvd /\ q.nreq = h.nreq + 1
        /\ q.out = h.out /\ q.sent = h.sent /\ q.headMark = h.headMark /\ q.life = h.life
        /\ q.busy /\ q.closing = h.closing /\ q.processing = h.processing /\ q.deferred = h.deferred
    BY <1>5 DEF Connection
  <2> HIDE DEF q, ss
  <2>8. ObjectOK(q, ss) /\ HandlerOK(q, ss)
    <3>1. /\ q.out = k.out /\ q.sent = k.sent /\ q.headMark = k.headMark /\ q.nreq = k.nreq + 1
          /\ ~q.deferred /\ q.life \in {"open", "closing"} /\ q.rcvd <= MaxTokens
          /\ q.nreq + Len(q.inbuf) <= q.rcvd
      BY <1>4, <1>5, <2>7 DEF Parsed
    <3>2. ss[k.nreq + 1].st = "fresh"
      BY <2>4
    <3>3. \A r \in Request : r # k.nreq + 1 => ss[r] = res[c][r]
      BY <2>4
    <3>4. ss \in Table
      BY <2>4
    <3>5. QED
      BY <1>3, <1>4, <2>6, <2>7, <3>1, <3>2, <3>3, <3>4, StartOK
  <2>9. IdleOK(q)
    BY <2>7 DEF IdleOK
  <2>10. FramesOK'
    <3>1. "handler" \in At
      BY DEF At
    <3>2. /\ q.processing = conn[Top.c].processing /\ Changes(Top.c, q, ss)
          /\ ~q.deferred
      BY <1>4, <1>5, <2>5, <2>7 DEF Parsed, k, c
    <3>3. QED
      BY <1>1, <2>1, <2>8, <3>1, <3>2, FramesMove
  <2>11. ParkedOnce'
    <3>1. gate'.deferred = gate.deferred
      BY <2>1 DEF TypeOK, Gate
    <3>2. q.deferred = conn[c].deferred
      BY <1>5, <2>7 DEF Parsed, k
    <3>3. QED
      BY <1>1, <1>2, <2>5, <3>1, <3>2, ParkedKept
  <2>12. CacheValid'
    BY <1>1, <1>2, <1>4, <1>5, <2>5, <2>7, CacheKept DEF Parsed
  <2>13. Objects'
    BY <1>2, <2>5, <2>8, <2>9, ObjectsStep DEF ServerInv, Objects
  <2>14. QED
    BY <2>10, <2>11, <2>12, <2>13 DEF Rest
<1>9. QED
  BY <1>7, <1>8

\* The facts every step of processInput starts from.
LEMMA AtLoop ==
    ASSUME TypeOK, ServerInv, AtTop("loop")
    PROVE  /\ stack # <<>> /\ Top.at = "loop" /\ Top.c \in Conn /\ ~Top.was
           /\ conn[Top.c] \in Connection /\ res[Top.c] \in Table
           /\ ObjectOK(conn[Top.c], res[Top.c]) /\ conn[Top.c].processing
           /\ \A i \in 1 .. Len(stack) : stack[i].c = Top.c => stack[i].at # "handler"
<1>1. stack # <<>> /\ Top.at = "loop" /\ FramesOK
  BY DEF AtTop, ServerInv
<1>2. /\ Top.c \in Conn /\ ~Top.was /\ conn[Top.c].processing
      /\ \A i \in 1 .. Len(stack) : stack[i].c = Top.c => stack[i].at = "loop"
  BY <1>1, TopFacts
<1>3. QED
  BY <1>1, <1>2, ObjectFacts

LEMMA ParseDispatchInv ==
    ASSUME TypeOK, ServerInv, ParseHead \/ ParseBody
    PROVE  Rest'
<1> DEFINE k == conn[Top.c]
<1>1. AtTop("loop") /\ CanParse(k) /\ cached' = cached
  BY DEF ParseHead, ParseBody
<1>2. k \in Connection /\ ObjectOK(k, res[Top.c]) /\ k.processing /\ res[Top.c] \in Table
  BY <1>1, AtLoop
<1>3. Consume(k) \in Connection
  BY <1>1, <1>2, ParserFree
<1>4. ASSUME NEW b \in BOOLEAN
      PROVE  Parsed(k, [Consume(k) EXCEPT !.keepAlive = b])
  BY <1>2, <1>3 DEF Parsed, Consume, Connection
<1>5. Parsed(k, [Consume(k) EXCEPT !.state = "head"])
  BY <1>2, <1>3 DEF Parsed, Consume, Connection
<1>6. CASE ParseHead
  <2>1. DispatchCurrent(Top.c, [Consume(k) EXCEPT !.keepAlive = Head(k.inbuf) = "get"])
    BY <1>6 DEF ParseHead
  <2>2. (Head(k.inbuf) = "get") \in BOOLEAN
    OBVIOUS
  <2>3. Parsed(k, [Consume(k) EXCEPT !.keepAlive = Head(k.inbuf) = "get"])
    BY <1>4, <2>2
  <2>4. QED
    BY <1>1, <2>1, <2>3, DispatchInv
<1>7. CASE ParseBody
  <2>1. DispatchCurrent(Top.c, [Consume(k) EXCEPT !.state = "head"])
    BY <1>7 DEF ParseBody
  <2>2. QED
    BY <1>1, <1>5, <2>1, DispatchInv
<1>8. QED
  BY <1>6, <1>7

LEMMA ParseBodyHeadInv ==
    ASSUME TypeOK, ServerInv, ParseBodyHead
    PROVE  Rest'
<1> DEFINE c == Top.c
           k == conn[c]
           h == [Consume(k) EXCEPT !.keepAlive = TRUE, !.state = "body"]
           q == IF Head(k.inbuf) = "expect"
                  THEN [h EXCEPT !.out = Append(@, [req |-> k.nreq + 1, part |-> "continue"])]
                  ELSE h
<1>1. /\ AtTop("loop") /\ CanParse(k) /\ k.state = "head" /\ conn' = [conn EXCEPT ![c] = q]
      /\ res' = res /\ stack' = stack /\ gate' = gate /\ cached' = cached
  BY DEF ParseBodyHead
<1>2. /\ c \in Conn /\ k \in Connection /\ ObjectOK(k, res[c]) /\ k.processing /\ res[c] \in Table
  BY <1>1, AtLoop
<1>3. /\ Free(k, res[c]) /\ ~k.deferred /\ k.life \in {"open", "closing"} /\ ~k.closing
      /\ Len(Consume(k).inbuf) \in Nat /\ k.nreq + 1 + Len(Consume(k).inbuf) <= k.rcvd
      /\ k.rcvd <= MaxTokens /\ Consume(k) \in Connection
  BY <1>1, <1>2, ParserFree DEF ObjectOK, CountOK, CanParse
<1>4. Changes(c, q, res[c])
  BY <1>1, <1>2, ConnChanges
<1>5. /\ h \in Connection /\ h.state = "body" /\ h.inbuf = Consume(k).inbuf /\ h.rcvd = k.rcvd
      /\ h.out = k.out /\ h.sent = k.sent /\ h.headMark = k.headMark /\ h.nreq = k.nreq
      /\ h.life = k.life /\ h.closing = k.closing /\ h.deferred = k.deferred /\ h.busy = k.busy
      /\ h.processing = k.processing
  BY <1>2, <1>3 DEF Consume, Connection
<1>6. [h EXCEPT !.out = Append(@, [req |-> k.nreq + 1, part |-> "continue"])] \in Connection
  <2>1. k.nreq + 1 \in Nat /\ "continue" \in Part
    BY <1>2, FieldTypes DEF Part
  <2>2. QED
    BY <1>5, <2>1, AppendType
<1> HIDE DEF h
<1>7. /\ q \in Connection /\ q.state = "body" /\ q.inbuf = h.inbuf /\ q.rcvd = h.rcvd
      /\ \/ q.out = h.out
         \/ q.out = Append(h.out, [req |-> k.nreq + 1, part |-> "continue"])
      /\ q.sent = h.sent /\ q.headMark = h.headMark /\ q.nreq = h.nreq
      /\ q.life = h.life /\ q.closing = h.closing /\ q.deferred = h.deferred /\ q.busy = h.busy
      /\ q.processing = h.processing
  <2>1. CASE Head(k.inbuf) = "expect"
    BY <1>5, <1>6, <2>1 DEF Connection
  <2>2. CASE Head(k.inbuf) # "expect"
    BY <1>5, <2>2
  <2>3. QED
    BY <2>1, <2>2
<1> HIDE DEF q, k, c
<1>8. ObjectOK(q, res[c])
  BY <1>1, <1>2, <1>3, <1>5, <1>7, BodyHeadOK
<1>9. IdleOK(q)
  BY <1>2, <1>5, <1>7 DEF IdleOK
<1>10. \A i \in 1 .. Len(stack) : stack[i].c = c /\ stack[i].at = "handler" => HandlerOK(q, res[c])
  BY <1>1, AtLoop DEF c
<1>11. q.processing = conn[c].processing /\ q.deferred = conn[c].deferred /\ q.life \in {"open", "closing"}
  BY <1>3, <1>5, <1>7 DEF k
<1>12. QED
  BY <1>1, <1>2, <1>4, <1>8, <1>9, <1>10, <1>11, StepKept

LEMMA ParseErrorInv ==
    ASSUME TypeOK, ServerInv, ParseError
    PROVE  Rest'
<1> DEFINE c == Top.c
           k == conn[c]
           h == Consume(k)
           q == SendErrorAndClose(h)
<1>1. /\ AtTop("loop") /\ CanParse(k) /\ conn' = [conn EXCEPT ![c] = q]
      /\ res' = res /\ stack' = stack /\ gate' = gate /\ cached' = cached
  BY DEF ParseError
<1>2. /\ c \in Conn /\ k \in Connection /\ ObjectOK(k, res[c]) /\ k.processing /\ res[c] \in Table
  BY <1>1, AtLoop
<1>3. /\ Free(k, res[c]) /\ ~k.deferred /\ k.life \in {"open", "closing"}
      /\ Len(h.inbuf) \in Nat /\ k.nreq + 1 + Len(h.inbuf) <= k.rcvd
      /\ k.rcvd <= MaxTokens /\ h \in Connection
  BY <1>1, <1>2, ParserFree DEF ObjectOK, CountOK
<1>4. Changes(c, q, res[c])
  BY <1>1, <1>2, ConnChanges
<1>5. /\ h.rcvd = k.rcvd
      /\ h.out = k.out /\ h.sent = k.sent /\ h.nreq = k.nreq
      /\ h.life = k.life /\ h.deferred = k.deferred /\ h.processing = k.processing
  BY <1>2, <1>3 DEF Consume, Connection
<1> HIDE DEF h
<1>6. q \in Connection
  BY <1>3, FinalAnswerType
<1>7. AppendPart(h, h.nreq + 1, "error") \in Connection
  <2>1. h.nreq + 1 \in Nat /\ "error" \in Part
    BY <1>3, FieldTypes DEF Part
  <2>2. QED
    BY <1>3, <2>1, AppendType
<1>8. /\ q.inbuf = h.inbuf /\ q.rcvd = h.rcvd
      /\ q.out = Append(h.out, [req |-> h.nreq + 1, part |-> "error"])
      /\ q.sent = h.sent /\ q.headMark = NoMark /\ q.nreq = h.nreq
      /\ q.life = h.life /\ q.closing /\ q.deferred = h.deferred /\ q.processing = h.processing
  BY <1>3, <1>7 DEF SendErrorAndClose, AppendPart, Connection
<1> HIDE DEF q, k, c
<1>9. ObjectOK(q, res[c])
  BY <1>2, <1>3, <1>5, <1>6, <1>8, ErrorOK
<1>10. IdleOK(q)
  BY <1>2, <1>5, <1>8 DEF IdleOK
<1>11. \A i \in 1 .. Len(stack) : stack[i].c = c /\ stack[i].at = "handler" => HandlerOK(q, res[c])
  BY <1>1, AtLoop DEF c
<1>12. q.processing = conn[c].processing /\ q.deferred = conn[c].deferred /\ q.life \in {"open", "closing"}
  BY <1>3, <1>5, <1>8 DEF k
<1>13. QED
  BY <1>1, <1>2, <1>4, <1>9, <1>10, <1>11, <1>12, StepKept

\* The pass ends where processing_ is cleared: no activation is below it.
LEMMA ReturnInv ==
    ASSUME TypeOK, ServerInv, ReturnFromInput
    PROVE  Rest'
<1> DEFINE c == Top.c
           k == conn[c]
           f == [k EXCEPT !.processing = Top.was]
<1>1. /\ AtTop("loop") /\ stack' = Below /\ res' = res /\ gate' = gate /\ cached' = cached
      /\ \E q \in (IF f.processing THEN {f} ELSE FlushAndMaybeClose(f)) : conn' = [conn EXCEPT ![c] = q]
  BY DEF ReturnFromInput
<1>2. /\ stack # <<>> /\ c \in Conn /\ k \in Connection /\ ObjectOK(k, res[c]) /\ k.processing
      /\ res[c] \in Table /\ ~Top.was
  BY <1>1, AtLoop
<1>3. Top.was \in BOOLEAN
  BY <1>2, StackTypes DEF TypeOK
<1>4. /\ f \in Connection /\ ~f.processing
      /\ f.out = k.out /\ f.nreq = k.nreq /\ f.state = k.state /\ f.busy = k.busy
      /\ f.deferred = k.deferred /\ f.sent = k.sent /\ f.headMark = k.headMark
      /\ f.inbuf = k.inbuf /\ f.rcvd = k.rcvd /\ f.closing = k.closing /\ f.life = k.life
  BY <1>2, <1>3 DEF Connection
<1>5. k.life \in {"open", "closing"}
  BY <1>2 DEF ObjectOK
<1>6. PICK q \in FlushAndMaybeClose(f) : conn' = [conn EXCEPT ![c] = q]
  BY <1>1, <1>4
<1> HIDE DEF f
<1>7. ObjectOK(f, res[c])
  <2>1. Quiet(k, f)
    BY <1>4, <1>5 DEF Quiet
  <2>2. BufferOK(f) /\ CountOK(f)
    BY <1>2, <1>4 DEF ObjectOK, BufferOK, CountOK, LastPiece
  <2>3. QED
    BY <1>2, <1>4, <2>1, <2>2, QuietOK
<1>8. /\ q \in Connection /\ SameInput(f, q) /\ q.life \in {"open", "closing"}
      /\ ObjectOK(q, res[c]) /\ IdleOK(q)
  BY <1>2, <1>4, <1>5, <1>7, FlushOK
<1>9. ~q.processing /\ q.deferred = k.deferred
  BY <1>4, <1>8 DEF SameInput
<1>10. Changes(c, q, res[c])
  BY <1>1, <1>2, <1>6, ConnChanges
<1>11. FramesOK'
  BY <1>1, <1>2, <1>9, <1>10, FramesPop DEF ServerInv
<1>12. ParkedOnce'
  BY <1>1, <1>2, <1>9, <1>10, ParkedKept DEF ServerInv
<1>13. CacheValid'
  BY <1>1, <1>2, <1>8, <1>10, CacheKept DEF ServerInv
<1>14. Objects'
  BY <1>2, <1>8, <1>10, ObjectsStep DEF ServerInv, Objects
<1>15. QED
  BY <1>11, <1>12, <1>13, <1>14 DEF Rest

\* A handler returns or throws: its frame goes on, its connection is changed.
LEMMA LeaveInv ==
    ASSUME TypeOK, ServerInv, AtTop("handler"), LeaveHandler, cached' = cached,
           NEW q \in Connection, Changes(Top.c, q, res[Top.c]), ObjectOK(q, res[Top.c]),
           q.processing = conn[Top.c].processing, q.deferred = conn[Top.c].deferred,
           q.life = conn[Top.c].life
    PROVE  Rest'
<1>1. stack # <<>> /\ Top.at = "handler" /\ FramesOK /\ ParkedOnce /\ CacheValid
  BY DEF AtTop, ServerInv
<1>2. Top.c \in Conn /\ conn[Top.c].processing /\ ~conn[Top.c].deferred
  BY <1>1, TopFacts
<1>3. gate'.deferred = gate.deferred
  BY DEF LeaveHandler, TypeOK, Gate
<1>4. PICK w \in {"drain", "loop"} : stack' = MoveTo(w)
  BY DEF LeaveHandler
<1>5. FramesOK'
  <2>1. w \in At /\ w # "handler" /\ ~q.deferred
    BY <1>2 DEF At
  <2>2. QED
    BY <1>1, <1>4, <2>1, FramesMove
<1>6. ParkedOnce'
  BY <1>1, <1>2, <1>3, ParkedKept
<1>7. CacheValid'
  BY <1>1, <1>2, CacheKept DEF Registered
<1>8. IdleOK(q)
  BY <1>2 DEF IdleOK
<1>9. Objects'
  BY <1>2, <1>8, ObjectsStep DEF ServerInv, Objects
<1>10. QED
  BY <1>5, <1>6, <1>7, <1>9 DEF Rest

LEMMA HandlerEndInv ==
    ASSUME TypeOK, ServerInv, HandlerReturns \/ HandlerThrows
    PROVE  Rest'
<1> DEFINE c == Top.c
           k == conn[c]
<1>1. AtTop("handler") /\ LeaveHandler /\ res' = res /\ cached' = cached
  BY DEF HandlerReturns, HandlerThrows
<1>2. stack # <<>> /\ Top.at = "handler" /\ FramesOK
  BY <1>1 DEF AtTop, ServerInv
<1>3. c \in Conn /\ k.processing /\ ~k.deferred /\ HandlerOK(k, res[c])
  BY <1>2, TopFacts
<1>4. k \in Connection /\ res[c] \in Table /\ ObjectOK(k, res[c])
  BY <1>3, ObjectFacts
<1>5. k.life \in {"open", "closing"}
  BY <1>3, <1>4 DEF ObjectOK
<1>6. ASSUME NEW q \in Connection, conn' = [conn EXCEPT ![c] = q], ObjectOK(q, res[c]),
             q.processing = k.processing, q.deferred = k.deferred, q.life = k.life
      PROVE  Rest'
  <2>1. Changes(c, q, res[c])
    BY <1>1, <1>3, <1>6, ConnChanges
  <2>2. QED
    BY <1>1, <1>6, <2>1, LeaveInv
<1>7. CASE HandlerReturns
  <2> DEFINE q == HalfClosed(k)
  <2>1. conn' = [conn EXCEPT ![c] = q]
    BY <1>7 DEF HandlerReturns
  <2>2. q = k \/ q = [k EXCEPT !.closing = TRUE]
    BY DEF HalfClosed
  <2>3. q.life = k.life
    BY <1>4, <2>2 DEF Connection
  <2> HIDE DEF q, k, c
  <2>4. q \in Connection /\ ObjectOK(q, res[c]) /\ q.processing = k.processing /\ q.deferred = k.deferred
    BY <1>4, <1>5, <2>2, ClosingOK
  <2>5. QED
    BY <1>6, <2>1, <2>3, <2>4
<1>8. CASE HandlerThrows
  <2>1. conn' = [conn EXCEPT ![c] = IF k.busy THEN Send500(k) ELSE k]
    BY <1>8 DEF HandlerThrows
  <2>2. CASE k.busy
    <3>1. conn' = [conn EXCEPT ![c] = Send500(k)]
      BY <2>1, <2>2
    <3>2. /\ Send500(k) \in Connection /\ ObjectOK(Send500(k), res[c]) /\ Send500(k).life = k.life
          /\ Send500(k).processing = k.processing /\ Send500(k).deferred = k.deferred
      BY <1>3, <1>4, <1>5, <2>2, ThrowOK
    <3>3. QED
      BY <1>6, <3>1, <3>2
  <2>3. CASE ~k.busy
    <3>1. conn' = [conn EXCEPT ![c] = k]
      BY <2>1, <2>3
    <3>2. QED
      BY <1>4, <1>6, <3>1
  <2>4. QED
    BY <2>2, <2>3
<1>9. QED
  BY <1>7, <1>8

LEMMA DrainDoneInv ==
    ASSUME TypeOK, ServerInv, DrainDone
    PROVE  Rest'
<1>1. /\ stack # <<>> /\ Top.at = "drain" /\ stack' = MoveTo("loop") /\ conn' = conn /\ res' = res
      /\ cached' = cached /\ gate' = [gate EXCEPT !.draining = FALSE] /\ FramesOK
  BY DEF DrainDone, AtTop, ServerInv
<1>2. Top.c \in Conn
  BY <1>1, TopFacts
<1>3. Changes(Top.c, conn[Top.c], res[Top.c])
  BY <1>1 DEF Changes
<1>4. FramesOK'
  <2>1. "loop" \in At /\ "loop" # "handler"
    BY DEF At
  <2>2. QED
    BY <1>1, <1>3, <2>1, FramesMove
<1>5. gate'.deferred = gate.deferred
  BY <1>1 DEF TypeOK, Gate
<1>6. ParkedOnce'
  BY <1>2, <1>3, <1>5, ParkedKept DEF ServerInv
<1>7. CacheValid'
  BY <1>1 DEF ServerInv, CacheValid, Registered
<1>8. Objects'
  BY <1>1 DEF ServerInv, Objects
<1>9. QED
  BY <1>4, <1>6, <1>7, <1>8 DEF Rest

\* The first parked id leaves the queue.
LEMMA ParkedTail ==
    ASSUME TypeOK, ParkedOnce, gate.deferred # <<>>, NEW q, NEW ss,
           Changes(Head(gate.deferred), q, ss), ~q.deferred, gate'.deferred = Tail(gate.deferred)
    PROVE  ParkedOnce'
<1> DEFINE s == gate.deferred
           t == gate'.deferred
           c == Head(s)
<1>1. s \in Seq(Conn) /\ s # <<>>
  BY DEF TypeOK, Gate
<1>2. t = Tail(s) /\ Changes(c, q, ss)
  OBVIOUS
<1> HIDE DEF s, t
<1>3. /\ Len(s) \in Nat \ {0} /\ Len(t) = Len(s) - 1 /\ c = s[1] /\ c \in Conn
      /\ \A i \in 1 .. Len(t) : t[i] = s[i + 1]
  BY <1>1, <1>2
<1> HIDE DEF c
<1>4. \A i \in 1 .. Len(t) : i + 1 \in 1 .. Len(s) /\ 1 \in 1 .. Len(s) /\ i \in Nat
  BY <1>3
<1>5. \A x, y \in 1 .. Len(s) : s[x] = s[y] => x = y
  BY DEF ParkedOnce, s
<1>6. \A i \in 1 .. Len(t) : t[i] # c
  BY <1>3, <1>4, <1>5
<1>7. ASSUME NEW i \in 1 .. Len(t), NEW j \in 1 .. Len(t), t[i] = t[j]
      PROVE  i = j
  <2>1. i + 1 = j + 1
    BY <1>3, <1>4, <1>5, <1>7
  <2>2. QED
    BY <2>1
<1>8. ASSUME NEW d \in Conn
      PROVE  conn'[d].deferred <=> \E i \in 1 .. Len(t) : t[i] = d
  <2>1. CASE d = c
    BY <1>2, <1>6, <2>1 DEF Changes
  <2>2. CASE d # c
    <3>1. conn'[d].deferred <=> \E i \in 1 .. Len(s) : s[i] = d
      BY <1>2, <2>2 DEF Changes, ParkedOnce, s
    <3>2. ASSUME NEW i \in 1 .. Len(s), s[i] = d
          PROVE  i - 1 \in 1 .. Len(t) /\ t[i - 1] = d
      <4>1. i # 1
        BY <1>3, <2>2, <3>2
      <4>2. i - 1 \in 1 .. Len(t) /\ (i - 1) + 1 = i
        BY <1>3, <4>1
      <4>3. QED
        BY <1>3, <3>2, <4>2
    <3>3. ASSUME NEW i \in 1 .. Len(t), t[i] = d
          PROVE  \E j \in 1 .. Len(s) : s[j] = d
      BY <1>3, <1>4, <3>3
    <3>4. QED
      BY <3>1, <3>2, <3>3
  <2>3. QED
    BY <2>1, <2>2
<1>9. QED
  BY <1>7, <1>8 DEF t, ParkedOnce

\* The parked connection has no activation: its pass returned, since the frame
\* on top is the drain loop.
LEMMA DrainNextInv ==
    ASSUME TypeOK, ServerInv, DrainNext
    PROVE  Rest'
<1> DEFINE c == Head(gate.deferred)
           k == conn[c]
           rest == [gate EXCEPT !.deferred = Tail(@)]
           q == [k EXCEPT !.deferred = FALSE, !.busy = TRUE, !.processing = TRUE, !.nreq = @ + 1]
           x == [NoResponse EXCEPT !.st = "fresh", !.keepAlive = k.keepAlive]
           ss == [res[c] EXCEPT ![k.nreq + 1] = x]
<1>1. /\ stack # <<>> /\ Top.at = "drain" /\ gate.deferred # <<>> /\ cached' = cached
      /\ FramesOK /\ ParkedOnce /\ CacheValid
  BY DEF DrainNext, AtTop, ServerInv
<1>2. gate.deferred \in Seq(Conn)
  BY DEF TypeOK, Gate
<1>3. c \in Conn /\ 1 \in 1 .. Len(gate.deferred) /\ gate.deferred[1] = c
  BY <1>1, <1>2
<1>4. k.deferred
  BY <1>1, <1>3 DEF ParkedOnce
<1>5. k \in Connection /\ res[c] \in Table /\ ObjectOK(k, res[c])
  BY <1>3, ObjectFacts
<1>6. k.life \in {"open", "closing"}
  BY <1>4, <1>5 DEF ObjectOK
<1>7. /\ conn' = [conn EXCEPT ![c] = q] /\ stack' = Push(c, "handler", k.processing)
      /\ gate' = [rest EXCEPT !.active = @ + 1] /\ res' = [res EXCEPT ![c][k.nreq + 1] = x]
  BY <1>4, <1>6 DEF DrainNext, Registered
<1>8. gate'.deferred = Tail(gate.deferred)
  BY <1>7 DEF TypeOK, Gate
<1>9. ~k.processing
  <2>1. ASSUME NEW i \in 1 .. Len(stack), stack[i].c = c
        PROVE  FALSE
    <3>1. i = Len(stack) /\ stack[i].at = "loop"
      BY <1>1, <1>4, <2>1 DEF FramesOK
    <3>2. QED
      BY <1>1, <3>1 DEF Top
  <2>2. QED
    BY <1>1, <1>3, <2>1 DEF FramesOK
<1>10. k.nreq \in Nat /\ k.nreq + 1 + Len(k.inbuf) <= k.rcvd /\ k.rcvd <= MaxTokens
       /\ Len(k.inbuf) \in Nat /\ k.rcvd \in Nat
  BY <1>4, <1>5 DEF ObjectOK, CountOK, Connection
<1>11. k.nreq + 1 \in Request
  BY <1>10, BoundAssumption DEF Request
<1>12. x \in Response /\ x.st = "fresh"
  BY <1>5, NewResponseType DEF Connection, NoResponse
<1> HIDE DEF x
<1>13. ss \in Table /\ ss[k.nreq + 1].st = "fresh" /\ \A r \in Request : r # k.nreq + 1 => ss[r] = res[c][r]
  BY <1>5, <1>11, <1>12 DEF Table
<1>14. Changes(c, q, ss)
  BY <1>3, <1>7, <1>11, BothChange
<1>15. q \in Connection
  BY <1>5, ServingFields
<1>16. /\ q.inbuf = k.inbuf /\ q.rcvd = k.rcvd /\ q.nreq = k.nreq + 1
       /\ q.out = k.out /\ q.sent = k.sent /\ q.headMark = k.headMark /\ q.life = k.life
       /\ q.busy /\ q.processing /\ ~q.deferred
  BY <1>5 DEF Connection
<1>17. Free(k, res[c])
  <2>1. /\ \A r \in Request : ~Outstanding(res[c][r])
        /\ \A r \in Request : res[c][r].st = "finished" => res[c][r].keepAlive
    BY <1>4, <1>5 DEF ObjectOK, AnswersOK
  <2>2. ~Owed(k, res[c])
    BY <2>1 DEF Owed
  <2>3. MayBegin(k, k.nreq + 1)
    BY <1>4, <1>5, <1>6, <2>2 DEF ObjectOK, TailOK
  <2>4. k.headMark = NoMark
    BY <1>5, <2>3, BeginNoMark DEF ObjectOK
  <2>5. QED
    BY <1>11, <2>1, <2>2, <2>3, <2>4 DEF Free
<1> HIDE DEF q, ss, rest
<1>18. ObjectOK(q, ss) /\ HandlerOK(q, ss)
  <2>1. q.nreq + Len(q.inbuf) <= q.rcvd /\ q.rcvd <= MaxTokens
    BY <1>10, <1>16
  <2>2. ss[k.nreq + 1].st = "fresh"
    BY <1>13
  <2>3. \A r \in Request : r # k.nreq + 1 => ss[r] = res[c][r]
    BY <1>13
  <2>4. ss \in Table
    BY <1>13
  <2> HIDE DEF k, c
  <2>5. QED
    BY <1>5, <1>6, <1>15, <1>16, <1>17, <2>1, <2>2, <2>3, <2>4, StartOK
<1>19. IdleOK(q)
  BY <1>16 DEF IdleOK
<1>20. FramesOK'
  <2>1. "handler" \in At /\ Top.at # "loop" /\ (k.processing = FALSE)
    BY <1>1, <1>5, <1>9 DEF At, Connection
  <2>2. stack' = Push(c, "handler", FALSE) /\ ~conn[c].processing
    BY <1>7, <1>9, <2>1
  <2> HIDE DEF k, c
  <2>3. QED
    BY <1>1, <1>3, <1>14, <1>16, <1>18, <2>1, <2>2, FramesPush
<1>21. ParkedOnce'
  BY <1>1, <1>8, <1>14, <1>16, ParkedTail
<1>22. CacheValid'
  BY <1>1, <1>3, <1>6, <1>14, <1>16, CacheKept
<1>23. Objects'
  BY <1>3, <1>14, <1>18, <1>19, ObjectsStep DEF ServerInv, Objects
<1>24. QED
  BY <1>20, <1>21, <1>22, <1>23 DEF Rest

----------------
(* JavaScript *)

LEMMA FindCached ==
    ASSUME NEW c \in Conn, Find(c)
    PROVE  cached' = cached \/ (Registered(c) /\ cached' = c)
BY DEF Find

LEMMA HandlerFrame ==
    ASSUME FramesOK, NEW c \in Conn, NEW i \in 1 .. Len(stack), stack[i].c = c
    PROVE  conn[c].processing /\ (stack[i].at = "handler" => HandlerOK(conn[c], res[c]))
BY DEF FramesOK

\* An operation on a response whose connection is gone.
LEMMA GoneInv ==
    ASSUME TypeOK, ServerInv, NEW c \in Conn, NEW r \in Request, ~Registered(c),
           Outstanding(res[c][r]), NEW x \in Response, x.st \in {"committed", "finished"},
           conn' = conn, res' = [res EXCEPT ![c][r] = x], stack' = stack, gate' = gate, Find(c)
    PROVE  Rest'
<1> DEFINE k == conn[c]
           ss == [res[c] EXCEPT ![r] = x]
<1>1. k \in Connection /\ res[c] \in Table /\ ObjectOK(k, res[c]) /\ IdleOK(k)
  BY ObjectFacts
<1>2. k.life = "gone" /\ ~k.processing
  BY <1>1, HeldResponse DEF Registered, Outstanding
<1>3. Changes(c, k, ss)
  BY ResChanges
<1>4. ss \in Table /\ ss[r] = x /\ \A y \in Request : y # r => ss[y] = res[c][y]
  BY <1>1 DEF Table
<1> HIDE DEF ss
<1>5. ObjectOK(k, ss)
  <2>1. \A y \in Request : y # r => ss[y] = res[c][y]
    BY <1>4
  <2>2. ss \in Table /\ ss[r].st \in {"committed", "finished"}
    BY <1>4
  <2>3. QED
    BY <1>1, <1>2, <2>1, <2>2, GoneOK
<1>6. \A i \in 1 .. Len(stack) : stack[i].c = c /\ stack[i].at = "handler" => HandlerOK(k, ss)
  BY <1>2, HandlerFrame DEF ServerInv
<1>7. cached' = cached \/ (Registered(c) /\ cached' = c)
  BY FindCached
<1>8. QED
  BY <1>1, <1>3, <1>5, <1>6, <1>7, StepKept

LEMMA WriteHeadInv ==
    ASSUME TypeOK, ServerInv, NEW c \in Conn, NEW r \in Request, NEW ka \in BOOLEAN,
           WriteHead(c, r, ka)
    PROVE  Rest'
<1> DEFINE k == conn[c]
           x == [res[c][r] EXCEPT !.st = "committed", !.keepAlive = KeepAliveFinal(res[c][r], ka)]
           ss == [res[c] EXCEPT ![r] = x]
<1>1. k \in Connection /\ res[c] \in Table /\ ObjectOK(k, res[c]) /\ res[c][r] \in Response
  BY ObjectFacts DEF Table
<1>2. /\ res[c][r].st = "fresh" /\ Outstanding(res[c][r])
      /\ conn' = IF Registered(c) THEN [conn EXCEPT ![c] = AppendHead(k, r)] ELSE conn
      /\ res' = [res EXCEPT ![c][r] = x]
      /\ Find(c) /\ stack' = stack /\ gate' = gate
  BY DEF WriteHead, Outstanding
<1>3. x \in Response /\ x.st = "committed"
  <2>1. KeepAliveFinal(res[c][r], ka) \in BOOLEAN
    BY <1>1 DEF KeepAliveFinal, Response
  <2>2. QED
    BY <1>1, <2>1 DEF Response
<1> HIDE DEF x
<1>4. CASE ~Registered(c)
  <2>1. conn' = conn
    BY <1>2, <1>4
  <2>2. QED
    BY <1>2, <1>3, <1>4, <2>1, GoneInv
<1>5. CASE Registered(c)
  <2> DEFINE q == AppendHead(k, r)
  <2>1. Changes(c, q, ss) /\ k.life \in {"open", "closing"}
    BY <1>2, <1>5, BothChange DEF Registered
  <2>2. ss \in Table /\ ss[r] = x /\ \A y \in Request : y # r => ss[y] = res[c][y]
    BY <1>1, <1>3 DEF Table
  <2> HIDE DEF ss
  <2>3. /\ q \in Connection /\ SameInput(k, q) /\ q.life = k.life
        /\ ObjectOK(q, ss) /\ IdleOK(q) /\ q.headMark # NoMark /\ Owed(q, ss)
    <3>1. \A y \in Request : y # r => ss[y] = res[c][y]
      BY <2>2
    <3>2. ss \in Table /\ ss[r].st = "committed"
      BY <1>3, <2>2
    <3>3. QED
      BY <1>1, <1>2, <2>1, <3>1, <3>2, HeadOK
  <2> HIDE DEF q
  <2>4. ~k.deferred
    BY <1>1, <1>2, OwedIsLatest DEF ObjectOK
  <2>5. HandlerOK(q, ss)
    BY <2>3, <2>4 DEF HandlerOK, SameInput
  <2>6. q.processing = conn[c].processing /\ q.deferred = conn[c].deferred
    BY <2>3 DEF SameInput
  <2>7. cached' = cached \/ (Registered(c) /\ cached' = c)
    BY <1>2, FindCached
  <2>8. \A i \in 1 .. Len(stack) : stack[i].c = c /\ stack[i].at = "handler" => HandlerOK(q, ss)
    BY <2>5
  <2>9. QED
    BY <1>2, <2>1, <2>3, <2>6, <2>7, <2>8, StepKept
<1>6. QED
  BY <1>4, <1>5

LEMMA WriteInv ==
    ASSUME TypeOK, ServerInv, NEW c \in Conn, NEW r \in Request, Write(c, r)
    PROVE  Rest'
<1> DEFINE k == conn[c]
           x == [res[c][r] EXCEPT !.st = "committed", !.writes = @ + 1]
           ss == [res[c] EXCEPT ![r] = x]
           m == Committed(res[c], r)
           f == Commit(k, res[c][r], r)
<1>1. k \in Connection /\ res[c] \in Table /\ ObjectOK(k, res[c]) /\ res[c][r] \in Response
  BY ObjectFacts DEF Table
<1>2. /\ Outstanding(res[c][r]) /\ res' = [res EXCEPT ![c][r] = x]
      /\ Find(c) /\ stack' = stack /\ gate' = gate
      /\ Registered(c) => \E q \in Enqueue(f, r, "body") : conn' = [conn EXCEPT ![c] = q]
      /\ ~Registered(c) => conn' = conn
  BY DEF Write, Outstanding
<1>3. x \in Response /\ x.st = "committed"
  <2>1. res[c][r].writes + 1 \in Nat
    BY <1>1 DEF Response
  <2>2. QED
    BY <1>1, <2>1 DEF Response
<1> HIDE DEF x
<1>4. CASE ~Registered(c)
  <2>1. conn' = conn
    BY <1>2, <1>4
  <2>2. QED
    BY <1>2, <1>3, <1>4, <2>1, GoneInv
<1>5. CASE Registered(c)
  <2>0. PICK q \in Enqueue(f, r, "body") : conn' = [conn EXCEPT ![c] = q]
    BY <1>2, <1>5
  <2>1. Changes(c, q, ss) /\ k.life \in {"open", "closing"}
    BY <1>2, <1>5, <2>0, BothChange DEF Registered
  <2>2. ss \in Table /\ ss[r] = x /\ \A y \in Request : y # r => ss[y] = res[c][y]
    BY <1>1, <1>3 DEF Table
  <2>3. /\ f \in Connection /\ SameInput(k, f) /\ f.life = k.life
        /\ m \in Table /\ m[r].st = "committed" /\ ObjectOK(f, m)
        /\ \A y \in Request : y # r => m[y] = res[c][y]
    BY <1>1, <1>2, <2>1, CommitOK
  <2> HIDE DEF ss, m, f
  <2>4. /\ q \in Connection /\ SameInput(f, q) /\ q.life \in {"open", "closing"}
        /\ ObjectOK(q, m) /\ (~f.processing => IdleOK(q)) /\ Owed(q, m)
        /\ q.out # <<>> /\ LastPiece(q).part = "body"
    <3>1. f \in Connection /\ m \in Table /\ ObjectOK(f, m) /\ f.life \in {"open", "closing"}
          /\ m[r].st = "committed"
      BY <2>1, <2>3
    <3>2. QED
      BY <3>1, BodyOK
  <2>5. ObjectOK(q, ss) /\ Owed(q, ss)
    <3>1. \A y \in Request : /\ ss[y].st = m[y].st
                             /\ m[y].st = "finished" => ss[y].keepAlive = m[y].keepAlive
      BY <1>3, <2>2, <2>3
    <3>2. ss \in Table /\ m \in Table
      BY <2>2, <2>3
    <3>3. QED
      BY <2>4, <3>1, <3>2, TableOK
  <2>6. q.processing = conn[c].processing /\ q.deferred = conn[c].deferred
    BY <2>3, <2>4 DEF SameInput
  <2>7. IdleOK(q)
    <3>1. q.processing = f.processing
      BY <2>4 DEF SameInput
    <3>2. QED
      BY <2>4, <3>1 DEF IdleOK
  <2>8. ~k.deferred
    BY <1>1, <1>2, OwedIsLatest DEF ObjectOK
  <2>9. HandlerOK(q, ss)
    BY <2>4, <2>5, <2>6, <2>8 DEF HandlerOK
  <2>10. cached' = cached \/ (Registered(c) /\ cached' = c)
    BY <1>2, FindCached
  <2>11. \A i \in 1 .. Len(stack) : stack[i].c = c /\ stack[i].at = "handler" => HandlerOK(q, ss)
    BY <2>9
  <2>12. QED
    BY <1>2, <2>1, <2>4, <2>5, <2>6, <2>7, <2>10, <2>11, StepKept
<1>6. QED
  BY <1>4, <1>5

\* end() and responseComplete, with the pass it starts outside one.
LEMMA EndInv ==
    ASSUME TypeOK, ServerInv, NEW c \in Conn, NEW r \in Request, NEW ka \in BOOLEAN, End(c, r, ka)
    PROVE  Rest'
<1> DEFINE k == conn[c]
           final == KeepAliveFinal(res[c][r], ka)
           x == [res[c][r] EXCEPT !.st = "finished", !.keepAlive = final]
           ss == [res[c] EXCEPT ![r] = x]
           m == Committed(res[c], r)
           f == Commit(k, res[c][r], r)
<1>1. k \in Connection /\ res[c] \in Table /\ ObjectOK(k, res[c]) /\ res[c][r] \in Response
  BY ObjectFacts DEF Table
<1>2. /\ Outstanding(res[c][r]) /\ res' = [res EXCEPT ![c][r] = x]
      /\ Find(c) /\ gate' = gate /\ InJavaScript
      /\ Registered(c) => \E e \in Enqueue(f, r, "end") : ResponseComplete(c, e, final)
      /\ ~Registered(c) => conn' = conn /\ stack' = stack
  BY DEF End, Outstanding
<1>3. final \in BOOLEAN
  BY <1>1 DEF KeepAliveFinal, Response
<1>4. x \in Response /\ x.st = "finished" /\ x.keepAlive = final
  BY <1>1, <1>3 DEF Response
<1> HIDE DEF x, final
<1>5. CASE ~Registered(c)
  <2>1. conn' = conn /\ stack' = stack
    BY <1>2, <1>5
  <2>2. QED
    BY <1>2, <1>4, <1>5, <2>1, GoneInv
<1>6. CASE Registered(c)
  <2>1. PICK e \in Enqueue(f, r, "end") : ResponseComplete(c, e, final)
    BY <1>2, <1>6
  <2>2. k.life \in {"open", "closing"}
    BY <1>6 DEF Registered
  <2>3. ss \in Table /\ ss[r] = x /\ \A y \in Request : y # r => ss[y] = res[c][y]
    BY <1>1, <1>4 DEF Table
  <2>4. /\ f \in Connection /\ SameInput(k, f) /\ f.life = k.life
        /\ m \in Table /\ m[r].st = "committed" /\ ObjectOK(f, m)
        /\ \A y \in Request : y # r => m[y] = res[c][y]
    BY <1>1, <1>2, <2>2, CommitOK
  <2>5. \A q : conn' = [conn EXCEPT ![c] = q] => Changes(c, q, ss)
    BY <1>2, BothChange
  <2>6. cached' = cached \/ (Registered(c) /\ cached' = c)
    BY <1>2, FindCached
  <2>7. ~k.deferred
    BY <1>1, <1>2, OwedIsLatest DEF ObjectOK
  <2> HIDE DEF ss, m, f
  <2>8. /\ e \in Connection /\ SameInput(f, e)
    <3>1. r \in Nat /\ "end" \in Part /\ f.sent <= Len(f.out)
      BY <1>1, <1>2, <2>4, OwedIsLatest DEF ObjectOK, BufferOK, Part
    <3>2. QED
      BY <2>4, <3>1, EnqueueFields
  <2>9. ASSUME NEW q \in Connection,
               q.out = e.out, q.sent = e.sent, q.headMark = e.headMark, q.life = e.life,
               q.state = e.state, q.inbuf = e.inbuf, q.rcvd = e.rcvd, q.nreq = e.nreq,
               q.deferred = e.deferred, ~q.busy, q.closing <=> e.closing \/ ~final
        PROVE  /\ q.life \in {"open", "closing"} /\ ObjectOK(q, ss) /\ HandlerOK(q, ss)
               /\ q.deferred = conn[c].deferred
    <3>1. \A y \in Request : y # r => ss[y] = m[y]
      BY <2>3, <2>4
    <3>2. /\ f \in Connection /\ m \in Table /\ ss \in Table /\ ObjectOK(f, m)
          /\ f.life \in {"open", "closing"} /\ m[r].st = "committed" /\ ss[r].st = "finished"
      BY <1>4, <2>2, <2>3, <2>4
    <3>3. q.closing <=> e.closing \/ ~ss[r].keepAlive
      BY <1>4, <2>3, <2>9
    <3>4. /\ q.life \in {"open", "closing"} /\ ObjectOK(q, ss)
          /\ q.out # <<>> /\ LastPiece(q).part = "end"
      BY <2>9, <3>1, <3>2, <3>3, EndOK
    <3>5. q.deferred = k.deferred
      BY <2>4, <2>8, <2>9 DEF SameInput
    <3>6. HandlerOK(q, ss)
      BY <2>7, <2>9, <3>4, <3>5 DEF HandlerOK
    <3>7. QED
      BY <3>4, <3>5, <3>6
  <2> DEFINE p == [e EXCEPT !.busy = FALSE, !.closing = @ \/ ~final]
  <2>10. /\ p \in Connection
         /\ p.out = e.out /\ p.sent = e.sent /\ p.headMark = e.headMark /\ p.life = e.life
         /\ p.state = e.state /\ p.inbuf = e.inbuf /\ p.rcvd = e.rcvd /\ p.nreq = e.nreq
         /\ p.deferred = e.deferred /\ ~p.busy /\ (p.closing <=> e.closing \/ ~final)
         /\ p.processing = e.processing
    <3>1. (e.closing \/ ~final) \in BOOLEAN
      OBVIOUS
    <3>2. ASSUME NEW b \in BOOLEAN, NEW z, z = [e EXCEPT !.busy = FALSE, !.closing = b]
          PROVE  /\ z \in Connection
                 /\ z.out = e.out /\ z.sent = e.sent /\ z.headMark = e.headMark /\ z.life = e.life
                 /\ z.state = e.state /\ z.inbuf = e.inbuf /\ z.rcvd = e.rcvd /\ z.nreq = e.nreq
                 /\ z.deferred = e.deferred /\ ~z.busy /\ z.closing = b
                 /\ z.processing = e.processing
      BY <2>8, <3>2 DEF Connection
    <3>3. QED
      BY <3>1, <3>2
  <2>11. CASE e.processing
    <3>1. conn' = [conn EXCEPT ![c] = p] /\ stack' = stack
      BY <2>1, <2>11 DEF ResponseComplete
    <3> HIDE DEF p
    <3>2. /\ p.life \in {"open", "closing"} /\ ObjectOK(p, ss) /\ HandlerOK(p, ss)
          /\ p.deferred = conn[c].deferred
      BY <2>9, <2>10
    <3>3. IdleOK(p)
      BY <2>10, <2>11 DEF IdleOK
    <3>4. p.processing = conn[c].processing
      BY <2>4, <2>8, <2>10 DEF SameInput
    <3>5. Changes(c, p, ss)
      BY <2>5, <3>1
    <3>6. \A i \in 1 .. Len(stack) : stack[i].c = c /\ stack[i].at = "handler" => HandlerOK(p, ss)
      BY <3>2
    <3>7. QED
      BY <1>2, <2>6, <3>1, <3>2, <3>3, <3>4, <3>5, <3>6, StepKept
  <2>12. CASE ~e.processing
    <3> DEFINE q == [p EXCEPT !.processing = TRUE]
    <3>1. conn' = [conn EXCEPT ![c] = q] /\ stack' = Push(c, "loop", FALSE)
      BY <2>1, <2>12 DEF ResponseComplete
    <3> HIDE DEF p
    <3>2. /\ q \in Connection
          /\ q.out = e.out /\ q.sent = e.sent /\ q.headMark = e.headMark /\ q.life = e.life
          /\ q.state = e.state /\ q.inbuf = e.inbuf /\ q.rcvd = e.rcvd /\ q.nreq = e.nreq
          /\ q.deferred = e.deferred /\ ~q.busy /\ (q.closing <=> e.closing \/ ~final)
          /\ q.processing
      BY <2>10 DEF Connection
    <3> HIDE DEF q
    <3>3. /\ q.life \in {"open", "closing"} /\ ObjectOK(q, ss) /\ HandlerOK(q, ss)
          /\ q.deferred = conn[c].deferred
      BY <2>9, <3>2
    <3>4. IdleOK(q)
      BY <3>2 DEF IdleOK
    <3>5. Changes(c, q, ss)
      BY <2>5, <3>1
    <3>6. ~conn[c].processing
      BY <2>4, <2>8, <2>12 DEF SameInput
    <3>7. FramesOK'
      <4>1. "loop" \in At /\ "loop" # "handler" /\ FramesOK
        BY DEF At, ServerInv
      <4>2. stack # <<>> => Top.at # "loop"
        BY <1>2 DEF InJavaScript, AtTop
      <4>3. QED
        BY <3>1, <3>2, <3>5, <3>6, <4>1, <4>2, FramesPush
    <3>8. ParkedOnce'
      BY <1>2, <3>3, <3>5, ParkedKept DEF ServerInv
    <3>9. CacheValid'
      BY <2>6, <3>3, <3>5, CacheKept DEF ServerInv
    <3>10. Objects'
      BY <3>3, <3>4, <3>5, ObjectsStep DEF ServerInv, Objects
    <3>11. QED
      BY <3>7, <3>8, <3>9, <3>10 DEF Rest
  <2>13. QED
    BY <2>11, <2>12
<1>7. QED
  BY <1>5, <1>6

LEMMA DestroyInv ==
    ASSUME TypeOK, ServerInv, NEW c \in Conn, HardDestroy(c), NEW ss \in Table,
           \A y \in Request : /\ ss[y].st = res[c][y].st
                              /\ res[c][y].st = "finished" => ss[y].keepAlive = res[c][y].keepAlive,
           res'[c] = ss, \A d \in Conn : d # c => res'[d] = res[d],
           stack' = stack, gate' = gate, Find(c)
    PROVE  Rest'
<1> DEFINE k == conn[c]
           q == IF Registered(c) THEN LoopClose([k EXCEPT !.closing = TRUE]) ELSE k
<1>1. k \in Connection /\ res[c] \in Table /\ ObjectOK(k, res[c]) /\ IdleOK(k)
  BY ObjectFacts
<1>2. Changes(c, q, ss)
  <2>1. conn' = [conn EXCEPT ![c] = q]
    BY DEF HardDestroy, TypeOK
  <2>2. QED
    BY <2>1 DEF Changes, TypeOK
<1>3. /\ ObjectOK(q, res[c]) /\ IdleOK(q) /\ (Registered(c) => q.life \in {"open", "closing"})
      /\ q.processing = k.processing /\ q.deferred = k.deferred
      /\ HandlerOK(k, res[c]) => HandlerOK(q, res[c])
  <2>1. CASE Registered(c)
    <3>1. q = LoopClose([k EXCEPT !.closing = TRUE]) /\ k.life \in {"open", "closing"}
      BY <2>1 DEF Registered
    <3>2. q.life = "closing"
      BY <1>1, <3>1 DEF LoopClose, Connection
    <3> HIDE DEF q
    <3>3. /\ ObjectOK(q, res[c]) /\ q.processing = k.processing /\ q.deferred = k.deferred
          /\ HandlerOK(k, res[c]) => HandlerOK(q, res[c])
      BY <1>1, <3>1, ClosingOK
    <3>4. QED
      BY <3>2, <3>3 DEF IdleOK
  <2>2. CASE ~Registered(c)
    BY <1>1, <2>2
  <2>3. QED
    BY <2>1, <2>2
<1> HIDE DEF q
<1>4. ObjectOK(q, ss) /\ (HandlerOK(k, res[c]) => HandlerOK(q, ss))
  BY <1>1, <1>3, TableOK
<1>5. \A i \in 1 .. Len(stack) : stack[i].c = c /\ stack[i].at = "handler" => HandlerOK(q, ss)
  BY <1>4, HandlerFrame DEF ServerInv
<1>6. cached' = cached \/ (Registered(c) /\ cached' = c)
  BY FindCached
<1>7. QED
  BY <1>2, <1>3, <1>4, <1>5, <1>6, StepKept

LEMMA DestroyBothInv ==
    ASSUME TypeOK, ServerInv, NEW c \in Conn,
           DestroySocket(c) \/ \E r \in Request : DestroyResponse(c, r)
    PROVE  Rest'
<1>1. res[c] \in Table
  BY ObjectFacts
<1>2. CASE DestroySocket(c)
  <2>1. HardDestroy(c) /\ Find(c) /\ res' = res /\ stack' = stack /\ gate' = gate
    BY <1>2 DEF DestroySocket
  <2>2. QED
    BY <1>1, <2>1, DestroyInv
<1>3. ASSUME NEW r \in Request, DestroyResponse(c, r)
      PROVE  Rest'
  <2> DEFINE x == [res[c][r] EXCEPT !.destroyed = TRUE]
             ss == [res[c] EXCEPT ![r] = x]
  <2>1. /\ HardDestroy(c) /\ Find(c) /\ stack' = stack /\ gate' = gate
        /\ res' = [res EXCEPT ![c][r].destroyed = TRUE]
    BY <1>3 DEF DestroyResponse
  <2>2. x \in Response /\ x.st = res[c][r].st /\ x.keepAlive = res[c][r].keepAlive
    BY <1>1 DEF Table, Response
  <2>3. res' = [res EXCEPT ![c] = ss]
    BY <2>1
  <2> HIDE DEF x
  <2>4. ss \in Table /\ ss[r] = x /\ \A y \in Request : y # r => ss[y] = res[c][y]
    BY <1>1, <2>2 DEF Table
  <2>5. res'[c] = ss /\ \A d \in Conn : d # c => res'[d] = res[d]
    BY <2>3 DEF TypeOK
  <2> HIDE DEF ss
  <2>6. \A y \in Request : /\ ss[y].st = res[c][y].st
                           /\ res[c][y].st = "finished" => ss[y].keepAlive = res[c][y].keepAlive
    BY <2>2, <2>4
  <2>7. ss \in Table
    BY <2>4
  <2>8. \A d \in Conn : d # c => res'[d] = res[d]
    BY <2>5
  <2>9. QED
    BY <2>1, <2>5, <2>6, <2>7, <2>8, DestroyInv
<1>4. QED
  BY <1>2, <1>3

----------------
(* The theorems *)

ServerInvariant == TypeOK /\ ServerInv

LEMMA ServerInvInit == Init => ServerInvariant
<1> SUFFICES ASSUME Init PROVE ServerInvariant
  OBVIOUS
<1>1. TypeOK /\ GateInv
  BY InvariantInit DEF Invariant
<1>2. Len(stack) = 0 /\ Len(gate.deferred) = 0 /\ cached = NoConn
  BY DEF Init
<1>3. \A c \in Conn : conn[c] = NewConnection /\ res[c] = [r \in Request |-> NoResponse]
  BY DEF Init
<1>4. /\ NewConnection.out = <<>> /\ NewConnection.nreq = 0 /\ NewConnection.inbuf = <<>>
      /\ NewConnection.rcvd = 0 /\ NewConnection.sent = 0 /\ NewConnection.headMark = NoMark
      /\ ~NewConnection.deferred /\ ~NewConnection.processing /\ NewConnection.life = "none"
  BY DEF NewConnection
<1>5. FramesOK
  BY <1>2, <1>3, <1>4 DEF FramesOK
<1>6. ParkedOnce
  BY <1>2, <1>3, <1>4 DEF ParkedOnce
<1>7. CacheValid
  BY <1>2 DEF CacheValid
<1>8. ASSUME NEW c \in Conn
      PROVE  ObjectOK(conn[c], res[c]) /\ IdleOK(conn[c])
  <2> DEFINE k == NewConnection
             rs == [r \in Request |-> NoResponse]
  <2>1. \A r \in Request : rs[r].st = "none"
    BY DEF NoResponse
  <2>2. Len(k.out) = 0 /\ Len(k.inbuf) = 0
    BY <1>4
  <2> HIDE DEF k, rs
  <2>3. BufferOK(k)
    BY <1>4, <2>2 DEF BufferOK, k
  <2>4. CountOK(k)
    BY <1>4, <2>2, BoundAssumption DEF CountOK, k
  <2>5. AnswersOK(k, rs)
    BY <1>4, <2>1 DEF AnswersOK, Outstanding, k
  <2>6. InOrder(k.out)
    BY <1>4, <2>2 DEF InOrder, k
  <2>7. ~Owed(k, rs)
    BY <2>1 DEF Owed, Outstanding
  <2>8. TailOK(k, rs)
    BY <1>4, <2>7 DEF TailOK, MayBegin, EndsWith, k
  <2>9. IdleOK(k)
    BY <1>4 DEF IdleOK, k
  <2>10. ObjectOK(k, rs)
    BY <1>4, <2>3, <2>4, <2>5, <2>6, <2>8 DEF ObjectOK, k
  <2>11. QED
    BY <1>3, <2>9, <2>10 DEF k, rs
<1>9. QED
  BY <1>1, <1>5, <1>6, <1>7, <1>8 DEF ServerInvariant, ServerInv

LEMMA RestNext ==
    ASSUME TypeOK, ServerInv, TypeOK', Next
    PROVE  Rest'
<1>1. CASE Reactor
  BY <1>1, AcceptInv, OnErrorInv, OnWritableInv, OnReadableInv, PurgeInv DEF Reactor
<1>2. CASE ProcessInput
  BY <1>2, ParseDispatchInv, ParseBodyHeadInv, ParseErrorInv, ReturnInv DEF ProcessInput
<1>3. CASE Handlers
  BY <1>3, HandlerEndInv, DrainNextInv, DrainDoneInv DEF Handlers
<1>4. CASE JavaScript
  BY <1>4, WriteHeadInv, WriteInv, EndInv, DestroyBothInv DEF JavaScript
<1>5. QED
  BY <1>1, <1>2, <1>3, <1>4 DEF Next

LEMMA ServerInvNext == ServerInvariant /\ [Next]_vars => ServerInvariant'
<1> SUFFICES ASSUME TypeOK, ServerInv, [Next]_vars
             PROVE  ServerInvariant'
  BY DEF ServerInvariant
<1>1. GateInv
  BY DEF ServerInv
<1>2. TypeOK' /\ GateInv'
  BY <1>1, TypeNext, GateNext
<1>3. CASE Next
  <2>1. Rest'
    BY <1>2, <1>3, RestNext
  <2>2. ServerInv'
    BY <1>2, <2>1 DEF Rest, Objects, ServerInv
  <2>3. QED
    BY <1>2, <2>2 DEF ServerInvariant
<1>4. CASE UNCHANGED vars
  <2>1. conn' = conn /\ res' = res /\ stack' = stack /\ gate' = gate /\ cached' = cached
    BY <1>4 DEF vars
  <2>2. FramesOK'
    BY <2>1 DEF ServerInv, FramesOK, HandlerOK, Owed
  <2>3. ParkedOnce' /\ CacheValid'
    BY <2>1 DEF ServerInv, ParkedOnce, CacheValid, Registered
  <2>4. (\A c \in Conn : ObjectOK(conn[c], res[c]) /\ IdleOK(conn[c]))'
    BY <2>1 DEF ServerInv
  <2>5. QED
    BY <1>2, <2>2, <2>3, <2>4 DEF ServerInvariant, ServerInv
<1>5. QED
  BY <1>3, <1>4

\* The whole server stays consistent, whatever handlers, later jobs, failures
\* and peers do: gate and stack, frames and connections, each connection's
\* flags, buffers, responses and stream, queue and registry cache.
THEOREM ServerInvCorrect == Spec => []ServerInv
<1>1. Init => ServerInvariant
  BY ServerInvInit
<1>2. ServerInvariant /\ [Next]_vars => ServerInvariant'
  BY ServerInvNext
<1>3. ServerInvariant => ServerInv
  BY DEF ServerInvariant
<1>4. QED
  BY <1>1, <1>2, <1>3, PTL DEF Spec

\* Requests and responses of every connection: the output is in request order
\* and framed head first (busy_), the one-entry cache of findConnection is
\* never stale, "Connection: close" ends it, and flushAndMaybeClose misses none.
THEOREM ConnectionSafeCorrect == Spec => []ConnectionSafe
<1>1. TypeOK /\ ServerInv => ConnectionSafe
  <2> SUFFICES ASSUME TypeOK, ServerInv PROVE ConnectionSafe
    OBVIOUS
  <2>1. ResponsesInOrder
    BY DEF ServerInv, ObjectOK, InOrder, ResponsesInOrder
  <2>2. CacheValid
    BY DEF ServerInv
  <2>3. CloseIsLast
    BY DEF ServerInv, ObjectOK, AnswersOK, CloseIsLast
  <2>4. NoneLeftOpen
    <3> SUFFICES ASSUME stack = <<>>, NEW c \in Conn, conn[c].life = "open", Drained(conn[c]),
                        ~conn[c].busy
                 PROVE  ~conn[c].closing /\ ~conn[c].peerClosed
      BY DEF NoneLeftOpen
    <3>1. \A i \in 1 .. Len(stack) : FALSE
      OBVIOUS
    <3>2. ~conn[c].processing
      BY <3>1 DEF ServerInv, FramesOK
    <3>3. QED
      BY <3>2 DEF ServerInv, IdleOK
  <2>5. QED
    BY <2>1, <2>2, <2>3, <2>4 DEF ConnectionSafe
<1>2. QED
  BY <1>1, TypeCorrect, ServerInvCorrect, PTL

\* The dispatch gate over all connections: handlers never nest, nothing is
\* stranded between callbacks and no connection is parked twice.
THEOREM DispatchSafeCorrect == Spec => []DispatchSafe
<1>1. ServerInv => ParkedOnce
  BY DEF ServerInv
<1>2. HandlersNeverNest /\ NothingStranded /\ ParkedOnce => DispatchSafe
  BY DEF DispatchSafe
<1>3. QED
  BY <1>1, <1>2, ServerInvCorrect, HandlersNeverNestCorrect, NothingStrandedCorrect, PTL

----------------
(***************************************************************************)
(* The server implements RequestService: parser, gate, registry and        *)
(* deferred destruction together hand the requests of a connection to the  *)
(* application one at a time.  ServerInv says where a step may happen; what*)
(* is left is which replies a stream holds, before and after the step.     *)
(***************************************************************************)

\* The pieces that answer a request.
Answers(p) == p.part \in {"end", "500"}

Answered(k) == \E i \in 1 .. Len(k.out) : k.out[i].req = k.nreq /\ Answers(k.out[i])

\* No reply to a request that was not handed to the application.
Bounded(k) == \A i \in 1 .. Len(k.out) : Answers(k.out[i]) => k.out[i].req <= k.nreq

----------------
(* Replies in the stream *)

LEMMA SameAnswers ==
    ASSUME NEW k, NEW q, q.out = k.out, q.nreq = k.nreq
    PROVE  (Answered(q) <=> Answered(k)) /\ (Bounded(q) <=> Bounded(k))
BY DEF Answered, Bounded

LEMMA AppendAnswers ==
    ASSUME NEW k \in Connection, NEW q \in Connection, NEW n \in Nat, NEW a \in Part,
           q.out = Append(k.out, [req |-> n, part |-> a]), q.nreq = k.nreq
    PROVE  /\ Answered(q) <=> Answered(k) \/ (n = k.nreq /\ a \in {"end", "500"})
           /\ Bounded(q) <=> Bounded(k) /\ (a \in {"end", "500"} => n <= k.nreq)
<1> DEFINE s == k.out
           t == q.out
           p == [req |-> n, part |-> a]
<1>1. s \in Seq(Piece) /\ t = Append(s, p) /\ p.req = n /\ p.part = a /\ p \in Piece
  BY PieceTypes DEF Piece
<1> HIDE DEF s, t, p
<1>2. /\ Len(s) \in Nat /\ Len(t) = Len(s) + 1 /\ t[Len(s) + 1] = p
      /\ \A i \in 1 .. Len(s) : t[i] = s[i]
  BY <1>1
<1>3. /\ \A i \in 1 .. Len(t) : (i = Len(s) + 1 /\ t[i] = p) \/ (i \in 1 .. Len(s) /\ t[i] = s[i])
      /\ \A i \in 1 .. Len(s) : i \in 1 .. Len(t)
      /\ Len(s) + 1 \in 1 .. Len(t)
  BY <1>2
<1>4. Answered(k) <=> \E i \in 1 .. Len(s) : s[i].req = k.nreq /\ Answers(s[i])
  BY DEF Answered, s
<1>5. Answered(q) <=> \E i \in 1 .. Len(t) : t[i].req = k.nreq /\ Answers(t[i])
  BY DEF Answered, t
<1>6. Bounded(k) <=> \A i \in 1 .. Len(s) : Answers(s[i]) => s[i].req <= k.nreq
  BY DEF Bounded, s
<1>7. Bounded(q) <=> \A i \in 1 .. Len(t) : Answers(t[i]) => t[i].req <= k.nreq
  BY DEF Bounded, t
<1>8. Answers(p) <=> a \in {"end", "500"}
  BY <1>1 DEF Answers
<1>9. Answered(q) <=> Answered(k) \/ (n = k.nreq /\ a \in {"end", "500"})
  BY <1>1, <1>2, <1>3, <1>4, <1>5, <1>8
<1>10. Bounded(q) <=> Bounded(k) /\ (a \in {"end", "500"} => n <= k.nreq)
  BY <1>1, <1>2, <1>3, <1>6, <1>7, <1>8
<1>11. QED
  BY <1>9, <1>10

LEMMA HeadAnswers ==
    ASSUME NEW k \in Connection, NEW r \in Nat
    PROVE  /\ Answered(AppendHead(k, r)) <=> Answered(k)
           /\ Bounded(AppendHead(k, r)) <=> Bounded(k)
<1> DEFINE q == AppendHead(k, r)
<1>1. q \in Connection /\ q.nreq = k.nreq /\ q.out = Append(k.out, [req |-> r, part |-> "head"])
  BY HeadFields DEF SameInput
<1>2. "head" \in Part /\ "head" \notin {"end", "500"}
  BY DEF Part
<1> HIDE DEF q
<1>3. QED
  BY <1>1, <1>2, AppendAnswers DEF q

LEMMA CommitAnswers ==
    ASSUME NEW k \in Connection, NEW x, NEW r \in Nat
    PROVE  /\ Commit(k, x, r) \in Connection /\ Commit(k, x, r).nreq = k.nreq
           /\ k.sent <= Len(k.out) => Commit(k, x, r).sent <= Len(Commit(k, x, r).out)
           /\ Answered(Commit(k, x, r)) <=> Answered(k)
           /\ Bounded(Commit(k, x, r)) <=> Bounded(k)
<1>1. CASE x.st = "fresh"
  <2>1. Commit(k, x, r) = AppendHead(k, r)
    BY <1>1 DEF Commit
  <2>2. /\ AppendHead(k, r) \in Connection /\ AppendHead(k, r).nreq = k.nreq
        /\ AppendHead(k, r).sent = k.sent
        /\ AppendHead(k, r).out = Append(k.out, [req |-> r, part |-> "head"])
    BY HeadFields DEF SameInput
  <2>3. Len(AppendHead(k, r).out) = Len(k.out) + 1 /\ k.sent \in Nat /\ Len(k.out) \in Nat
    <3>1. "head" \in Part
      BY DEF Part
    <3>2. QED
      BY <2>2, <3>1, Appended, FieldTypes
  <2>4. k.sent <= Len(k.out) => k.sent <= Len(k.out) + 1
    BY <2>3
  <2>5. QED
    BY <2>1, <2>2, <2>3, <2>4, HeadAnswers
<1>2. CASE x.st # "fresh"
  BY <1>2 DEF Commit
<1>3. QED
  BY <1>1, <1>2

\* write() and end() after commitHeaders, with the flush outside a pass.
LEMMA EnqueueAnswers ==
    ASSUME NEW k \in Connection, NEW r \in Nat, NEW a \in Part, k.sent <= Len(k.out),
           NEW q \in Enqueue(k, r, a)
    PROVE  /\ q \in Connection /\ q.nreq = k.nreq
           /\ Answered(q) <=> Answered(k) \/ (r = k.nreq /\ a \in {"end", "500"})
           /\ Bounded(q) <=> Bounded(k) /\ (a \in {"end", "500"} => r <= k.nreq)
<1>1. /\ q \in Connection /\ q.nreq = k.nreq
      /\ q.out = Append(k.out, [req |-> r, part |-> a])
  BY EnqueueFields DEF SameInput
<1>2. QED
  BY <1>1, AppendAnswers

----------------
(* The handler on the stack *)

Runner(s) ==
    IF \E i \in 1 .. Len(s) : s[i].at = "handler"
      THEN s[CHOOSE i \in 1 .. Len(s) : s[i].at = "handler"].c
      ELSE NoConn

OneRunner(s) ==
    \A i, j \in 1 .. Len(s) : s[i].at = "handler" /\ s[j].at = "handler" => i = j

LEMMA RunnerIs ==
    ASSUME NEW s, OneRunner(s), NEW i \in 1 .. Len(s), s[i].at = "handler"
    PROVE  Runner(s) = s[i].c
<1> DEFINE j == CHOOSE x \in 1 .. Len(s) : s[x].at = "handler"
<1>1. j \in 1 .. Len(s) /\ s[j].at = "handler"
  OBVIOUS
<1>2. Runner(s) = s[j].c
  BY DEF Runner
<1> HIDE DEF j
<1>3. j = i
  BY <1>1 DEF OneRunner
<1>4. QED
  BY <1>2, <1>3

LEMMA RunnerNone ==
    ASSUME NEW s, \A i \in 1 .. Len(s) : s[i].at # "handler"
    PROVE  Runner(s) = NoConn
BY DEF Runner

\* Frames other than handlers may come and go.
LEMMA RunnerSame ==
    ASSUME NEW s, NEW t, OneRunner(s), OneRunner(t),
           \A i \in 1 .. Len(s) : s[i].at = "handler" =>
               i \in 1 .. Len(t) /\ t[i].at = "handler" /\ t[i].c = s[i].c,
           \A i \in 1 .. Len(t) : t[i].at = "handler" => i \in 1 .. Len(s) /\ s[i].at = "handler"
    PROVE  Runner(t) = Runner(s)
<1>1. CASE \E i \in 1 .. Len(s) : s[i].at = "handler"
  <2>1. PICK i \in 1 .. Len(s) : s[i].at = "handler"
    BY <1>1
  <2>2. i \in 1 .. Len(t) /\ t[i].at = "handler" /\ t[i].c = s[i].c
    BY <2>1
  <2>3. QED
    BY <2>1, <2>2, RunnerIs
<1>2. CASE \A i \in 1 .. Len(s) : s[i].at # "handler"
  <2>1. \A i \in 1 .. Len(t) : t[i].at # "handler"
    BY <1>2
  <2>2. QED
    BY <1>2, <2>1, RunnerNone
<1>3. QED
  BY <1>1, <1>2

LEMMA NeverNest == TypeOK /\ ServerInv => HandlersNeverNest
<1> SUFFICES ASSUME TypeOK, GateInv, NEW i \in 1 .. Len(stack), NEW j \in 1 .. Len(stack),
                    stack[i].at = "handler", stack[j].at = "handler"
             PROVE  i = j
  BY DEF ServerInv, HandlersNeverNest
<1>1. Len(stack) \in Nat /\ Len(stack) <= 3
  BY FrameAt DEF GateInv, GateIs, OneFrame, TwoFrames, ThreeFrames
<1>2. (i = 1 \/ i = 2 \/ i = 3) /\ (j = 1 \/ j = 2 \/ j = 3)
  BY <1>1
<1>3. QED
  BY <1>1, <1>2 DEF GateInv, OneFrame, TwoFrames, ThreeFrames, GateIs

LEMMA NeverNestNext == TypeOK' /\ ServerInv' => HandlersNeverNest'
BY NeverNest, PTL

LEMMA Runners ==
    ASSUME TypeOK, ServerInv, TypeOK', ServerInv'
    PROVE  /\ OneRunner(stack) /\ RunningHandler = Runner(stack)
           /\ OneRunner(stack') /\ RunningHandler' = Runner(stack')
BY NeverNest, NeverNestNext DEF HandlersNeverNest, OneRunner, RunningHandler, Runner

\* gate.active counts the handler frames.
LEMMA GateRunner ==
    ASSUME TypeOK, ServerInv, gate.active = 0
    PROVE  \A i \in 1 .. Len(stack) : stack[i].at # "handler"
<1>1. Len(stack) \in Nat /\ GateInv
  BY FrameAt DEF ServerInv
<1>2. QED
  BY <1>1 DEF GateInv, OneFrame, TwoFrames, ThreeFrames, GateIs

----------------
(* Steps of the service *)

AllBounded == \A c \in Conn : Bounded(conn[c])

\* What the service sees of a connection.
SameService(k, q) ==
    /\ q.nreq = k.nreq /\ (Answered(q) <=> Answered(k))
    /\ (q.life = "gone" <=> k.life = "gone")

LEMMA RepliedIs ==
    \A c : Replied(c) = IF conn[c].nreq = 0 \/ Answered(conn[c])
                          THEN conn[c].nreq ELSE conn[c].nreq - 1
BY DEF Replied, Answered, Answers

LEMMA RepliedNext ==
    \A c : Replied(c)' = IF conn'[c].nreq = 0 \/ Answered(conn'[c])
                           THEN conn'[c].nreq ELSE conn'[c].nreq - 1
BY DEF Replied, Answered, Answers

\* What a step shows of the service, connection by connection.
LEMMA SameReplied ==
    ASSUME NEW c \in Conn, SameService(conn[c], conn'[c])
    PROVE  /\ conn'[c].nreq = conn[c].nreq /\ Replied(c)' = Replied(c)
           /\ (conn'[c].life # "gone") = (conn[c].life # "gone")
BY RepliedIs, RepliedNext DEF SameService

LEMMA StutterStep ==
    ASSUME \A c \in Conn : SameService(conn[c], conn'[c]), RunningHandler' = RunningHandler
    PROVE  [Service!SNext]_(Service!svars)
<1>1. \A c \in Conn : /\ conn'[c].nreq = conn[c].nreq /\ Replied(c)' = Replied(c)
                      /\ (conn'[c].life # "gone") = (conn[c].life # "gone")
  BY SameReplied
<1>2. UNCHANGED Service!svars
  BY <1>1 DEF Service!svars
<1>3. QED
  BY <1>2

LEMMA LeaveStep ==
    ASSUME \A c \in Conn : SameService(conn[c], conn'[c]),
           RunningHandler # NoConn, RunningHandler' = NoConn
    PROVE  [Service!SNext]_(Service!svars)
<1>1. \A c \in Conn : /\ conn'[c].nreq = conn[c].nreq /\ Replied(c)' = Replied(c)
                      /\ (conn'[c].life # "gone") = (conn[c].life # "gone")
  BY SameReplied
<1>2. Service!Leave
  BY <1>1 DEF Service!Leave
<1>3. QED
  BY <1>2 DEF Service!SNext

\* One connection changes, the others are as they were.
OnlyAt(c, q) == conn'[c] = q /\ \A d \in Conn : d # c => conn'[d] = conn[d]

LEMMA OthersSame ==
    ASSUME NEW c \in Conn, NEW q, OnlyAt(c, q), NEW d \in Conn, d # c
    PROVE  /\ conn'[d].nreq = conn[d].nreq /\ Replied(d)' = Replied(d)
           /\ (conn'[d].life # "gone") = (conn[d].life # "gone")
BY RepliedIs, RepliedNext DEF OnlyAt

LEMMA OnlySame ==
    ASSUME NEW c \in Conn, NEW q, OnlyAt(c, q), SameService(conn[c], q)
    PROVE  \A d \in Conn : SameService(conn[d], conn'[d])
BY DEF OnlyAt, SameService

LEMMA OnlyBounded ==
    ASSUME AllBounded, NEW c \in Conn, NEW q, OnlyAt(c, q), Bounded(q)
    PROVE  AllBounded'
BY DEF OnlyAt, AllBounded, Bounded

LEMMA ServeStep ==
    ASSUME NEW c \in Conn, NEW q, OnlyAt(c, q), conn[c].nreq \in Nat,
           conn[c].life # "gone", q.life # "gone",
           conn[c].nreq = 0 \/ Answered(conn[c]), ~Answered(q), q.nreq = conn[c].nreq + 1,
           RunningHandler = NoConn, RunningHandler' = c
    PROVE  [Service!SNext]_(Service!svars)
<1>1. \A d \in Conn : d # c => /\ conn'[d].nreq = conn[d].nreq /\ Replied(d)' = Replied(d)
                               /\ (conn'[d].life # "gone") = (conn[d].life # "gone")
  BY OthersSame
<1>2. Replied(c) = conn[c].nreq /\ Replied(c)' = conn[c].nreq /\ conn'[c].nreq = conn[c].nreq + 1
      /\ (conn'[c].life # "gone") = (conn[c].life # "gone")
  BY RepliedIs, RepliedNext DEF OnlyAt
<1>3. Service!Serve(c)
  BY <1>1, <1>2 DEF Service!Serve
<1>4. QED
  BY <1>3 DEF Service!SNext

LEMMA ReplyStep ==
    ASSUME NEW c \in Conn, NEW q, OnlyAt(c, q), conn[c].nreq \in Nat, conn[c].nreq # 0,
           conn[c].life # "gone", q.life # "gone",
           ~Answered(conn[c]), Answered(q), q.nreq = conn[c].nreq,
           RunningHandler' = RunningHandler
    PROVE  [Service!SNext]_(Service!svars)
<1>1. \A d \in Conn : d # c => /\ conn'[d].nreq = conn[d].nreq /\ Replied(d)' = Replied(d)
                               /\ (conn'[d].life # "gone") = (conn[d].life # "gone")
  BY OthersSame
<1>2. Replied(c) = conn[c].nreq - 1 /\ Replied(c)' = conn[c].nreq /\ conn'[c].nreq = conn[c].nreq
      /\ (conn'[c].life # "gone") = (conn[c].life # "gone")
  BY RepliedIs, RepliedNext DEF OnlyAt
<1>3. Service!Reply(c)
  <2>1. Replied(c) < conn[c].nreq
    BY <1>2
  <2>2. [d \in Conn |-> Replied(d)]' = [[d \in Conn |-> Replied(d)] EXCEPT ![c] = conn[c].nreq]
    BY <1>1, <1>2
  <2>3. QED
    BY <1>1, <1>2, <2>1, <2>2 DEF Service!Reply
<1>4. QED
  BY <1>3 DEF Service!SNext

LEMMA FailStep ==
    ASSUME NEW c \in Conn, NEW q, OnlyAt(c, q), conn[c].nreq \in Nat, conn[c].nreq # 0,
           conn[c].life # "gone", q.life # "gone",
           ~Answered(conn[c]), Answered(q), q.nreq = conn[c].nreq,
           RunningHandler = c, RunningHandler' = NoConn
    PROVE  [Service!SNext]_(Service!svars)
<1>1. \A d \in Conn : d # c => /\ conn'[d].nreq = conn[d].nreq /\ Replied(d)' = Replied(d)
                               /\ (conn'[d].life # "gone") = (conn[d].life # "gone")
  BY OthersSame
<1>2. Replied(c) = conn[c].nreq - 1 /\ Replied(c)' = conn[c].nreq /\ conn'[c].nreq = conn[c].nreq
      /\ (conn'[c].life # "gone") = (conn[c].life # "gone")
  BY RepliedIs, RepliedNext DEF OnlyAt
<1>3. Service!Fail(c)
  <2>1. Replied(c) < conn[c].nreq
    BY <1>2
  <2>2. [d \in Conn |-> Replied(d)]' = [[d \in Conn |-> Replied(d)] EXCEPT ![c] = conn[c].nreq]
    BY <1>1, <1>2
  <2>3. QED
    BY <1>1, <1>2, <2>1, <2>2 DEF Service!Fail
<1>4. QED
  BY <1>3 DEF Service!SNext

LEMMA VanishStep ==
    ASSUME NEW D \in SUBSET Conn,
           \A c \in Conn : conn'[c].nreq = conn[c].nreq /\ conn'[c].out = conn[c].out,
           \A c \in Conn : conn'[c].life = "gone" <=> conn[c].life = "gone" \/ c \in D,
           RunningHandler = NoConn, RunningHandler' = NoConn
    PROVE  [Service!SNext]_(Service!svars)
<1>1. \A c \in Conn : Answered(conn'[c]) <=> Answered(conn[c])
  BY SameAnswers
<1>2. \A c \in Conn : conn'[c].nreq = conn[c].nreq /\ Replied(c)' = Replied(c)
  BY <1>1, RepliedIs, RepliedNext
<1>3. \A c \in Conn : (conn'[c].life # "gone") = (conn[c].life # "gone" /\ c \notin D)
  OBVIOUS
<1>4. Service!Vanish(D)
  BY <1>2, <1>3 DEF Service!Vanish
<1>5. QED
  BY <1>4 DEF Service!SNext

----------------
(* Where a request begins *)

LEMMA BeforeContinue ==
    ASSUME NEW a, NEW b, MayFollow(a, b), b.part = "continue", a.part \in Part,
           a.req \in Nat, NEW n \in Nat, b.req = n + 1
    PROVE  a.part = "end" /\ a.req = n
<1>1. a.part = "end"
  BY DEF MayFollow, Part
<1>2. b.req = a.req + 1
  BY <1>1 DEF MayFollow
<1>3. QED
  BY <1>1, <1>2

\* The stream ends where the previous request was answered, with a 500 never:
\* nothing begins after one.
LEMMA BeginAnswered ==
    ASSUME NEW k \in Connection, InOrder(k.out), MayBegin(k, k.nreq + 1)
    PROVE  k.nreq = 0 \/ Answered(k)
<1> DEFINE s == k.out
           n == Len(s)
<1>1. s \in Seq(Piece) /\ n \in Nat /\ k.nreq \in Nat /\ (s = <<>> <=> n = 0)
      /\ \A i \in 1 .. n : s[i].req \in Nat /\ s[i].part \in Part
  BY PieceTypes, FieldTypes
<1> HIDE DEF s, n
<1>2. CASE s = <<>> /\ k.nreq + 1 = 1
  BY <1>1, <1>2
<1>3. ASSUME NEW i \in 1 .. n, s[i].req = k.nreq, s[i].part = "end"
      PROVE  Answered(k)
  BY <1>3 DEF Answered, Answers, s, n
<1>4. CASE EndsWith(k, k.nreq, {"end"})
  <2>1. n \in 1 .. n /\ s[n].req = k.nreq /\ s[n].part = "end"
    BY <1>1, <1>4 DEF EndsWith, LastPiece, s, n
  <2>2. QED
    BY <1>3, <2>1
<1>5. CASE EndsWith(k, k.nreq + 1, {"continue"})
  <2>1. n \in 1 .. n /\ s[n].req = k.nreq + 1 /\ s[n].part = "continue" /\ s # <<>>
    BY <1>1, <1>5 DEF EndsWith, LastPiece, s, n
  <2>2. CASE n = 1
    <3>1. s[1].req = 1
      BY <2>1 DEF InOrder, s
    <3>2. QED
      BY <1>1, <2>1, <2>2, <3>1
  <2>3. CASE n # 1
    <3> DEFINE m == n - 1
               a == s[m]
               b == s[m + 1]
    <3>1. n \in Nat /\ n # 0
      BY <1>1, <2>1
    <3>2. m \in 1 .. n - 1 /\ m \in 1 .. n /\ m + 1 = n
      BY <2>3, <3>1
    <3>3. MayFollow(a, b)
      BY <3>2 DEF InOrder, s, n
    <3>4. b.req = k.nreq + 1 /\ b.part = "continue" /\ a.req \in Nat /\ a.part \in Part
      BY <1>1, <2>1, <3>2
    <3> HIDE DEF a, b
    <3>5. a.part = "end" /\ a.req = k.nreq
      BY <1>1, <3>3, <3>4, BeforeContinue
    <3>6. QED
      BY <1>3, <3>2, <3>5 DEF a
  <2>4. QED
    BY <2>2, <2>3
<1>6. \/ s = <<>> /\ k.nreq + 1 = 1
      \/ EndsWith(k, k.nreq, {"end"})
      \/ EndsWith(k, k.nreq + 1, {"continue"})
  <2>1. (k.nreq + 1) - 1 = k.nreq
    BY <1>1
  <2>2. QED
    BY <2>1 DEF MayBegin, s
<1>7. QED
  BY <1>2, <1>4, <1>5, <1>6

LEMMA StartAnswers ==
    ASSUME NEW k \in Connection, NEW q, Bounded(k), q.out = k.out, q.nreq = k.nreq + 1
    PROVE  ~Answered(q) /\ Bounded(q)
<1>1. k.nreq \in Nat /\ \A i \in 1 .. Len(k.out) : k.out[i].req \in Nat
  BY PieceTypes, FieldTypes
<1>2. QED
  BY <1>1 DEF Answered, Bounded

Step == AllBounded' /\ [Service!SNext]_(Service!svars)

\* dispatchCurrent and dispatchDeferred hand a request over.
LEMMA StartStep ==
    ASSUME TypeOK, ServerInv, TypeOK', ServerInv', AllBounded, NEW c \in Conn, NEW q,
           OnlyAt(c, q), q.life = conn[c].life, conn[c].life \in {"open", "closing"},
           q.out = conn[c].out, q.nreq = conn[c].nreq + 1, MayBegin(conn[c], conn[c].nreq + 1),
           gate.active = 0, NEW i \in 1 .. Len(stack'), stack'[i].at = "handler", stack'[i].c = c
    PROVE  Step
<1>1. conn[c] \in Connection /\ InOrder(conn[c].out) /\ conn[c].nreq \in Nat
  BY ObjectFacts, FieldTypes DEF ObjectOK
<1>2. conn[c].nreq = 0 \/ Answered(conn[c])
  BY <1>1, BeginAnswered
<1>3. ~Answered(q) /\ Bounded(q)
  BY <1>1, StartAnswers DEF AllBounded
<1>4. RunningHandler = NoConn
  BY GateRunner, RunnerNone, Runners
<1>5. RunningHandler' = c
  BY RunnerIs, Runners
<1>6. AllBounded'
  BY <1>3, OnlyBounded
<1>7. [Service!SNext]_(Service!svars)
  BY <1>1, <1>2, <1>3, <1>4, <1>5, ServeStep
<1>8. QED
  BY <1>6, <1>7 DEF Step

\* A step the service does not see.
LEMMA QuietStep ==
    ASSUME TypeOK, ServerInv, TypeOK', ServerInv', AllBounded, NEW c \in Conn, NEW q,
           OnlyAt(c, q), SameService(conn[c], q), Bounded(q),
           Runner(stack') = Runner(stack)
    PROVE  Step
<1>1. RunningHandler' = RunningHandler
  BY Runners
<1>2. AllBounded'
  BY OnlyBounded
<1>3. \A d \in Conn : SameService(conn[d], conn'[d])
  BY OnlySame
<1>4. QED
  BY <1>1, <1>2, <1>3, StutterStep DEF Step

----------------
(* What the stack's operations do to the handler *)

LEMMA RunnerPush ==
    ASSUME TypeOK, ServerInv, TypeOK', ServerInv', NEW c \in Conn, stack' = Push(c, "loop", FALSE)
    PROVE  Runner(stack') = Runner(stack)
<1> DEFINE s == stack
           t == stack'
           n == Len(s)
<1>1. "loop" \in At /\ FALSE \in BOOLEAN
  BY DEF At
<1>2. n \in Nat /\ Len(t) = n + 1 /\ (\A i \in 1 .. n : t[i] = s[i]) /\ t[n + 1].at = "loop"
  <2>1. n \in Nat
    BY FrameAt
  <2>2. Len(t) = n + 1 /\ (\A i \in 1 .. n : t[i] = s[i]) /\ t[n + 1].at = "loop"
    BY <1>1, PushFrame
  <2>3. QED
    BY <2>1, <2>2
<1>3. OneRunner(s) /\ OneRunner(t)
  BY Runners
<1> HIDE DEF s, t, n
<1>4. \A i \in 1 .. n : i \in 1 .. Len(t)
  BY <1>2
<1>5. \A i \in 1 .. Len(t) : i = n + 1 \/ i \in 1 .. n
  BY <1>2
<1>6. \A i \in 1 .. Len(s) : s[i].at = "handler" =>
          i \in 1 .. Len(t) /\ t[i].at = "handler" /\ t[i].c = s[i].c
  BY <1>2, <1>4 DEF n
<1>7. \A i \in 1 .. Len(t) : t[i].at = "handler" => i \in 1 .. Len(s) /\ s[i].at = "handler"
  BY <1>2, <1>5 DEF n
<1>8. QED
  BY <1>3, <1>6, <1>7, RunnerSame DEF s, t

LEMMA RunnerPop ==
    ASSUME TypeOK, ServerInv, TypeOK', ServerInv', AtTop("loop"), stack' = Below
    PROVE  Runner(stack') = Runner(stack)
<1> DEFINE s == stack
           t == stack'
           n == Len(s)
<1>1. stack # <<>> /\ Top.at = "loop" /\ stack \in Seq(Frame)
  BY DEF AtTop, TypeOK
<1>2. /\ n \in Nat \ {0} /\ Len(t) = n - 1 /\ (\A i \in 1 .. n - 1 : t[i] = s[i])
      /\ s[n].at = "loop"
  BY <1>1, StackTypes DEF Top
<1>3. OneRunner(s) /\ OneRunner(t)
  BY Runners
<1> HIDE DEF s, t, n
<1>4. \A i \in 1 .. n - 1 : i \in 1 .. n
  BY <1>2
<1>5. \A i \in 1 .. n : i = n \/ i \in 1 .. n - 1
  BY <1>2
<1>6. \A i \in 1 .. Len(s) : s[i].at = "handler" =>
          i \in 1 .. Len(t) /\ t[i].at = "handler" /\ t[i].c = s[i].c
  BY <1>2, <1>5 DEF n
<1>7. \A i \in 1 .. Len(t) : t[i].at = "handler" => i \in 1 .. Len(s) /\ s[i].at = "handler"
  BY <1>2, <1>4 DEF n
<1>8. QED
  BY <1>3, <1>6, <1>7, RunnerSame DEF s, t

\* The frame on top goes on, to or from anything but a handler.
LEMMA RunnerMove ==
    ASSUME TypeOK, ServerInv, TypeOK', ServerInv', stack # <<>>, Top.at # "handler",
           NEW w \in At, w # "handler", stack' = MoveTo(w)
    PROVE  Runner(stack') = Runner(stack)
<1> DEFINE s == stack
           t == stack'
           n == Len(s)
<1>1. /\ n \in Nat \ {0} /\ Len(t) = n /\ (\A i \in 1 .. n - 1 : t[i] = s[i])
      /\ s[n].at # "handler" /\ t[n].at = w
  BY GateMove, StackTypes DEF Top, TypeOK
<1>2. OneRunner(s) /\ OneRunner(t)
  BY Runners
<1> HIDE DEF s, t, n
<1>3. \A i \in 1 .. n : i = n \/ i \in 1 .. n - 1
  BY <1>1
<1>4. \A i \in 1 .. n : (s[i].at = "handler" <=> t[i].at = "handler")
                        /\ (s[i].at = "handler" => t[i].c = s[i].c)
  BY <1>1, <1>3
<1>5. \A i \in 1 .. Len(s) : s[i].at = "handler" =>
          i \in 1 .. Len(t) /\ t[i].at = "handler" /\ t[i].c = s[i].c
  BY <1>1, <1>4 DEF n
<1>6. \A i \in 1 .. Len(t) : t[i].at = "handler" => i \in 1 .. Len(s) /\ s[i].at = "handler"
  BY <1>1, <1>4 DEF n
<1>7. QED
  BY <1>2, <1>5, <1>6, RunnerSame DEF s, t

\* The handler leaves.
LEMMA RunnerLeaves ==
    ASSUME TypeOK, ServerInv, TypeOK', ServerInv', AtTop("handler"), LeaveHandler
    PROVE  RunningHandler = Top.c /\ RunningHandler' = NoConn /\ Top.c \in Conn
<1> DEFINE s == stack
           t == stack'
           n == Len(s)
<1>1. stack # <<>> /\ Top.at = "handler"
  BY DEF AtTop
<1>2. PICK w \in {"drain", "loop"} : stack' = MoveTo(w)
  BY DEF LeaveHandler
<1>3. w \in At /\ w # "handler"
  BY DEF At
<1>4. /\ n \in Nat \ {0} /\ Len(t) = n /\ (\A i \in 1 .. n - 1 : t[i] = s[i])
      /\ s[n].at = "handler" /\ t[n].at = w /\ Top.c = s[n].c /\ Top.c \in Conn
  BY <1>1, <1>2, <1>3, GateMove, StackTypes DEF Top, TypeOK
<1>5. OneRunner(s) /\ RunningHandler = Runner(s) /\ RunningHandler' = Runner(t)
  BY Runners
<1> HIDE DEF s, t, n
<1>6. \A i \in 1 .. n : i = n \/ i \in 1 .. n - 1
  BY <1>4
<1>7. \A i \in 1 .. n - 1 : i \in 1 .. n /\ n \in 1 .. n /\ i # n
  BY <1>4
<1>8. n \in 1 .. Len(s)
  BY <1>4 DEF n
<1>9. \A i \in 1 .. n - 1 : s[i].at # "handler"
  BY <1>4, <1>5, <1>7 DEF OneRunner, n
<1>10. \A i \in 1 .. Len(t) : t[i].at # "handler"
  BY <1>3, <1>4, <1>6, <1>9
<1>11. Runner(t) = NoConn
  BY <1>10, RunnerNone
<1>12. Runner(s) = s[n].c
  BY <1>4, <1>5, <1>8, RunnerIs
<1>13. QED
  BY <1>4, <1>5, <1>11, <1>12

----------------
(* The actions *)

\* A connection changes, its stream and its requests do not.
LEMMA SilentStep ==
    ASSUME TypeOK, ServerInv, TypeOK', ServerInv', AllBounded, NEW c \in Conn, NEW q,
           conn' = [conn EXCEPT ![c] = q], q.out = conn[c].out, q.nreq = conn[c].nreq,
           q.life = "gone" <=> conn[c].life = "gone", Runner(stack') = Runner(stack)
    PROVE  Step
<1>1. OnlyAt(c, q)
  BY DEF OnlyAt, TypeOK
<1>2. SameService(conn[c], q) /\ Bounded(q)
  BY SameAnswers DEF SameService, AllBounded
<1>3. QED
  BY <1>1, <1>2, QuietStep

LEMMA IdleStep ==
    ASSUME TypeOK, ServerInv, TypeOK', ServerInv', AllBounded, conn' = conn,
           Runner(stack') = Runner(stack)
    PROVE  Step
<1>1. RunningHandler' = RunningHandler
  BY Runners
<1>2. AllBounded'
  BY DEF AllBounded, Bounded
<1>3. \A d \in Conn : SameService(conn[d], conn'[d])
  BY DEF SameService
<1>4. QED
  BY <1>1, <1>2, <1>3, StutterStep DEF Step

LEMMA ReactorStep ==
    ASSUME TypeOK, ServerInv, TypeOK', ServerInv', AllBounded, NEW c \in Conn,
           \/ Accept(c) \/ OnError(c) \/ OnWritable(c)
           \/ \E ts \in Batch, eof \in BOOLEAN : OnReadable(c, ts, eof)
    PROVE  Step
<1> DEFINE k == conn[c]
<1>1. k \in Connection /\ ObjectOK(k, res[c])
  BY ObjectFacts
<1>2. CASE Accept(c)
  <2>1. conn' = [conn EXCEPT ![c] = [k EXCEPT !.life = "open"]] /\ stack' = stack /\ k.life = "none"
    BY <1>2 DEF Accept
  <2>2. [k EXCEPT !.life = "open"].out = k.out /\ [k EXCEPT !.life = "open"].nreq = k.nreq
        /\ [k EXCEPT !.life = "open"].life = "open"
    BY <1>1 DEF Connection
  <2>3. QED
    BY <2>1, <2>2, SilentStep
<1>3. CASE OnError(c)
  <2>1. conn' = [conn EXCEPT ![c] = LoopClose(k)] /\ stack' = stack /\ k.life = "open"
    BY <1>3 DEF OnError
  <2>2. LoopClose(k).out = k.out /\ LoopClose(k).nreq = k.nreq /\ LoopClose(k).life = "closing"
    BY <1>1 DEF Connection, LoopClose
  <2>3. QED
    BY <2>1, <2>2, SilentStep
<1>4. CASE OnWritable(c)
  <2>1. PICK q \in FlushAndMaybeClose(k) : conn' = [conn EXCEPT ![c] = q]
    BY <1>4 DEF OnWritable
  <2>2. stack' = stack /\ k.life = "open"
    BY <1>4 DEF OnWritable
  <2>3. q.out = k.out /\ q.nreq = k.nreq /\ q.life \in {k.life, "closing"}
    BY <1>1, <2>1, FlushFields DEF ObjectOK, BufferOK, SameInput
  <2>4. QED
    BY <2>1, <2>2, <2>3, SilentStep
<1>5. ASSUME NEW ts \in Batch, NEW eof \in BOOLEAN, OnReadable(c, ts, eof)
      PROVE  Step
  <2> DEFINE f == Received(k, ts, eof)
  <2>1. /\ stack = <<>> /\ k.life = "open"
        /\ \/ conn' = [conn EXCEPT ![c] = LoopClose(f)] /\ stack' = stack
           \/ /\ conn' = [conn EXCEPT ![c] = [f EXCEPT !.processing = TRUE]]
              /\ stack' = Push(c, "loop", FALSE)
    BY <1>5 DEF OnReadable
  <2>2. /\ LoopClose(f).out = k.out /\ LoopClose(f).nreq = k.nreq /\ LoopClose(f).life = "closing"
        /\ [f EXCEPT !.processing = TRUE].out = k.out /\ [f EXCEPT !.processing = TRUE].nreq = k.nreq
        /\ [f EXCEPT !.processing = TRUE].life = k.life
    BY <1>1 DEF Connection, LoopClose, Received
  <2> HIDE DEF f
  <2>3. CASE conn' = [conn EXCEPT ![c] = LoopClose(f)] /\ stack' = stack
    BY <2>1, <2>2, <2>3, SilentStep
  <2>4. CASE /\ conn' = [conn EXCEPT ![c] = [f EXCEPT !.processing = TRUE]]
             /\ stack' = Push(c, "loop", FALSE)
    <3>1. Runner(stack') = Runner(stack)
      BY <2>4, RunnerPush
    <3>2. QED
      BY <2>1, <2>2, <2>4, <3>1, SilentStep
  <2>5. QED
    BY <2>1, <2>3, <2>4
<1>6. QED
  BY <1>2, <1>3, <1>4, <1>5

LEMMA PurgeStep ==
    ASSUME TypeOK, ServerInv, TypeOK', ServerInv', AllBounded, Purge
    PROVE  Step
<1> DEFINE D == {c \in Conn : conn[c].life = "closing"}
<1>1. /\ stack = <<>> /\ stack' = stack
      /\ conn' = [c \in Conn |-> IF conn[c].life = "closing"
                                   THEN [conn[c] EXCEPT !.life = "gone"] ELSE conn[c]]
  BY DEF Purge
<1>2. \A c \in Conn : /\ conn'[c].nreq = conn[c].nreq /\ conn'[c].out = conn[c].out
                      /\ conn'[c].life = "gone" <=> conn[c].life = "gone" \/ conn[c].life = "closing"
  BY <1>1 DEF TypeOK, Connection
<1>3. D \in SUBSET Conn /\ \A c \in Conn : c \in D <=> conn[c].life = "closing"
  OBVIOUS
<1> HIDE DEF D
<1>4. \A i \in 1 .. Len(stack) : stack[i].at # "handler"
  BY <1>1
<1>5. RunningHandler = NoConn /\ RunningHandler' = NoConn
  BY <1>1, <1>4, Runners, RunnerNone
<1>6. AllBounded'
  BY <1>2, SameAnswers DEF AllBounded, Bounded
<1>7. [Service!SNext]_(Service!svars)
  BY <1>2, <1>3, <1>5, VanishStep
<1>8. QED
  BY <1>6, <1>7 DEF Step

LEMMA DispatchStep ==
    ASSUME TypeOK, ServerInv, TypeOK', ServerInv', AllBounded, AtTop("loop"),
           CanParse(conn[Top.c]), NEW h, Parsed(conn[Top.c], h), DispatchCurrent(Top.c, h)
    PROVE  Step
<1> DEFINE c == Top.c
           k == conn[c]
<1>1. /\ stack # <<>> /\ Top.at = "loop" /\ c \in Conn /\ k \in Connection
      /\ ObjectOK(k, res[c]) /\ k.processing /\ res[c] \in Table
  BY AtLoop
<1>2. Free(k, res[c]) /\ k.life \in {"open", "closing"}
  BY <1>1, ParserFree
<1>3. h \in Connection /\ h.out = k.out /\ h.nreq = k.nreq /\ h.life = k.life
  BY DEF Parsed
<1>4. CASE gate.active > 0
  <2> DEFINE q == [h EXCEPT !.busy = TRUE, !.deferred = TRUE]
  <2>1. conn' = [conn EXCEPT ![c] = q] /\ stack' = MoveTo("loop")
    BY <1>4 DEF DispatchCurrent
  <2>2. q.out = k.out /\ q.nreq = k.nreq /\ q.life = k.life
    BY <1>3 DEF Connection
  <2>3. "loop" \in At /\ "loop" # "handler" /\ Top.at # "handler"
    BY <1>1 DEF At
  <2>4. Runner(stack') = Runner(stack)
    BY <1>1, <2>1, <2>3, RunnerMove
  <2> HIDE DEF q
  <2>5. QED
    BY <1>1, <2>1, <2>2, <2>4, SilentStep
<1>5. CASE ~(gate.active > 0)
  <2> DEFINE q == [h EXCEPT !.busy = TRUE, !.nreq = @ + 1]
             n == Len(stack)
  <2>1. conn' = [conn EXCEPT ![c] = q] /\ stack' = MoveTo("handler")
    BY <1>5 DEF DispatchCurrent
  <2>2. q.out = k.out /\ q.nreq = k.nreq + 1 /\ q.life = k.life
    BY <1>3 DEF Connection
  <2>3. gate.active = 0
    BY <1>5, FrameAt
  <2>4. "handler" \in At
    BY DEF At
  <2>5. n \in 1 .. Len(stack') /\ stack'[n].at = "handler" /\ stack'[n].c = c
    <3>1. /\ stack'[n] = [Top EXCEPT !.at = "handler"] /\ Len(stack') = n /\ Top \in Frame
          /\ n \in Nat \ {0} /\ stack'[n].at = "handler"
      BY <1>1, <2>1, <2>4, MoveType, StackTypes DEF TypeOK
    <3>2. [Top EXCEPT !.at = "handler"].c = Top.c
      BY <3>1 DEF Frame
    <3>3. QED
      BY <3>1, <3>2
  <2>6. OnlyAt(c, q)
    BY <2>1 DEF OnlyAt, TypeOK
  <2>7. MayBegin(k, k.nreq + 1)
    BY <1>2 DEF Free
  <2> HIDE DEF q, n, c
  <2>8. QED
    BY <1>1, <1>2, <2>2, <2>3, <2>5, <2>6, <2>7, StartStep
<1>6. QED
  BY <1>4, <1>5

LEMMA ParseDispatchStep ==
    ASSUME TypeOK, ServerInv, TypeOK', ServerInv', AllBounded, ParseHead \/ ParseBody
    PROVE  Step
<1> DEFINE k == conn[Top.c]
<1>1. AtTop("loop") /\ CanParse(k)
  BY DEF ParseHead, ParseBody
<1>2. k \in Connection /\ ObjectOK(k, res[Top.c]) /\ k.processing /\ res[Top.c] \in Table
  BY <1>1, AtLoop
<1>3. Consume(k) \in Connection
  BY <1>1, <1>2, ParserFree
<1>4. ASSUME NEW b \in BOOLEAN
      PROVE  Parsed(k, [Consume(k) EXCEPT !.keepAlive = b])
  BY <1>2, <1>3 DEF Parsed, Consume, Connection
<1>5. Parsed(k, [Consume(k) EXCEPT !.state = "head"])
  BY <1>2, <1>3 DEF Parsed, Consume, Connection
<1>6. CASE ParseHead
  <2>1. DispatchCurrent(Top.c, [Consume(k) EXCEPT !.keepAlive = Head(k.inbuf) = "get"])
    BY <1>6 DEF ParseHead
  <2>2. (Head(k.inbuf) = "get") \in BOOLEAN
    OBVIOUS
  <2>3. Parsed(k, [Consume(k) EXCEPT !.keepAlive = Head(k.inbuf) = "get"])
    BY <1>4, <2>2
  <2>4. QED
    BY <1>1, <2>1, <2>3, DispatchStep
<1>7. CASE ParseBody
  <2>1. DispatchCurrent(Top.c, [Consume(k) EXCEPT !.state = "head"])
    BY <1>7 DEF ParseBody
  <2>2. QED
    BY <1>1, <1>5, <2>1, DispatchStep
<1>8. QED
  BY <1>6, <1>7

\* A piece that answers nothing.
LEMMA PieceStep ==
    ASSUME TypeOK, ServerInv, TypeOK', ServerInv', AllBounded, NEW c \in Conn,
           NEW q \in Connection, conn' = [conn EXCEPT ![c] = q], NEW n \in Nat, NEW a \in Part,
           a \notin {"end", "500"}, q.out = Append(conn[c].out, [req |-> n, part |-> a]),
           q.nreq = conn[c].nreq, q.life = "gone" <=> conn[c].life = "gone",
           Runner(stack') = Runner(stack)
    PROVE  Step
<1>1. OnlyAt(c, q) /\ conn[c] \in Connection
  BY DEF OnlyAt, TypeOK
<1>2. (Answered(q) <=> Answered(conn[c])) /\ (Bounded(q) <=> Bounded(conn[c]))
  BY <1>1, AppendAnswers
<1>3. SameService(conn[c], q) /\ Bounded(q)
  BY <1>2 DEF SameService, AllBounded
<1>4. QED
  BY <1>1, <1>3, QuietStep

LEMMA ParsePieceStep ==
    ASSUME TypeOK, ServerInv, TypeOK', ServerInv', AllBounded, ParseBodyHead \/ ParseError
    PROVE  Step
<1> DEFINE c == Top.c
           k == conn[c]
           g == Consume(k)
           h == [g EXCEPT !.keepAlive = TRUE, !.state = "body"]
<1>1. AtTop("loop") /\ CanParse(k) /\ stack' = stack
  BY DEF ParseBodyHead, ParseError
<1>2. c \in Conn /\ k \in Connection /\ ObjectOK(k, res[c]) /\ k.processing /\ res[c] \in Table
  BY <1>1, AtLoop
<1>3. /\ g \in Connection /\ g.out = k.out /\ g.nreq = k.nreq /\ g.life = k.life
      /\ k.life \in {"open", "closing"}
  <2>1. Consume(k) \in Connection /\ k.life \in {"open", "closing"}
    BY <1>1, <1>2, ParserFree
  <2>2. QED
    BY <1>2, <2>1 DEF Consume, Connection
<1>4. k.nreq + 1 \in Nat /\ "continue" \in Part /\ "error" \in Part
      /\ "continue" \notin {"end", "500"} /\ "error" \notin {"end", "500"}
  BY <1>2, FieldTypes DEF Part
<1> DEFINE w == [h EXCEPT !.out = Append(@, [req |-> k.nreq + 1, part |-> "continue"])]
           e == SendErrorAndClose(g)
<1>5. \/ conn' = [conn EXCEPT ![c] = h]
      \/ conn' = [conn EXCEPT ![c] = w]
      \/ conn' = [conn EXCEPT ![c] = e]
  BY DEF ParseBodyHead, ParseError
<1> HIDE DEF g
<1>6. h \in Connection /\ h.out = k.out /\ h.nreq = k.nreq /\ h.life = k.life
  BY <1>3 DEF Connection
<1> HIDE DEF h
<1>7. /\ w \in Connection /\ w.out = Append(k.out, [req |-> k.nreq + 1, part |-> "continue"])
      /\ w.nreq = k.nreq /\ w.life = k.life
  <2>1. [req |-> k.nreq + 1, part |-> "continue"] \in Piece
    BY <1>4 DEF Piece
  <2>2. w = [h EXCEPT !.out = Append(h.out, [req |-> k.nreq + 1, part |-> "continue"])]
    OBVIOUS
  <2>3. Append(h.out, [req |-> k.nreq + 1, part |-> "continue"]) \in Seq(Piece)
    BY <1>6, <2>1, PieceTypes
  <2>4. QED
    BY <1>6, <2>2, <2>3 DEF Connection
<1>8. /\ e \in Connection /\ e.out = Append(k.out, [req |-> k.nreq + 1, part |-> "error"])
      /\ e.nreq = k.nreq /\ e.life = k.life
  <2> DEFINE p == AppendPart(g, g.nreq + 1, "error")
  <2>1. p \in Connection
    BY <1>3, <1>4, AppendType
  <2>2. p.out = Append(k.out, [req |-> k.nreq + 1, part |-> "error"]) /\ p.nreq = k.nreq /\ p.life = k.life
    BY <1>3 DEF AppendPart, Connection
  <2>3. e = [p EXCEPT !.busy = TRUE, !.closing = TRUE]
    BY DEF SendErrorAndClose
  <2> HIDE DEF p
  <2>4. QED
    BY <2>1, <2>2, <2>3 DEF Connection
<1> HIDE DEF w, e, c
<1>9. CASE conn' = [conn EXCEPT ![c] = h]
  BY <1>1, <1>2, <1>6, <1>9, SilentStep
<1>10. CASE conn' = [conn EXCEPT ![c] = w]
  BY <1>1, <1>2, <1>4, <1>7, <1>10, PieceStep
<1>11. CASE conn' = [conn EXCEPT ![c] = e]
  BY <1>1, <1>2, <1>4, <1>8, <1>11, PieceStep
<1>12. QED
  BY <1>5, <1>9, <1>10, <1>11

LEMMA ReturnStep ==
    ASSUME TypeOK, ServerInv, TypeOK', ServerInv', AllBounded, ReturnFromInput
    PROVE  Step
<1> DEFINE c == Top.c
           k == conn[c]
           f == [k EXCEPT !.processing = Top.was]
<1>1. /\ AtTop("loop") /\ stack' = Below
      /\ \E q \in (IF f.processing THEN {f} ELSE FlushAndMaybeClose(f)) : conn' = [conn EXCEPT ![c] = q]
  BY DEF ReturnFromInput
<1>2. /\ stack # <<>> /\ c \in Conn /\ k \in Connection /\ ObjectOK(k, res[c]) /\ k.processing
      /\ ~Top.was
  BY <1>1, AtLoop
<1>3. Top.was \in BOOLEAN
  BY <1>2, StackTypes DEF TypeOK
<1>4. /\ f \in Connection /\ ~f.processing /\ f.out = k.out /\ f.nreq = k.nreq
      /\ f.life = k.life /\ f.sent = k.sent
  BY <1>2, <1>3 DEF Connection
<1>5. k.life # "gone" /\ k.sent <= Len(k.out)
  BY <1>2 DEF ObjectOK, BufferOK
<1>6. PICK q \in FlushAndMaybeClose(f) : conn' = [conn EXCEPT ![c] = q]
  BY <1>1, <1>4
<1> HIDE DEF f
<1>7. q.out = k.out /\ q.nreq = k.nreq /\ q.life \in {k.life, "closing"}
  <2>1. f.sent <= Len(f.out)
    BY <1>4, <1>5
  <2>2. SameInput(f, q) /\ q.out = f.out /\ q.life \in {f.life, "closing"}
    BY <1>4, <2>1, FlushFields
  <2>3. QED
    BY <1>4, <2>2 DEF SameInput
<1>8. Runner(stack') = Runner(stack)
  BY <1>1, RunnerPop
<1> HIDE DEF c
<1>9. QED
  BY <1>2, <1>5, <1>6, <1>7, <1>8, SilentStep

LEMMA DropAnswers ==
    ASSUME NEW k \in Connection, BufferOK(k), InOrder(k.out), Bounded(k)
    PROVE  Bounded(DropHead(k))
<1>1. k.sent \in Nat /\ Len(k.out) \in Nat /\ k.headMark \in Int /\ k.out \in Seq(Piece)
  BY FieldTypes
<1>2. CASE k.headMark = NoMark
  <2>1. ~(k.headMark >= k.sent)
    BY <1>1, <1>2 DEF NoMark
  <2>2. QED
    BY <2>1 DEF DropHead
<1>3. CASE k.headMark # NoMark
  <2>1. k.headMark = Len(k.out) - 1 /\ k.sent <= k.headMark
    BY <1>3 DEF BufferOK
  <2>2. k.out # <<>> /\ k.headMark >= k.sent /\ k.headMark <= Len(k.out)
    BY <1>1, <2>1
  <2> DEFINE s == SubSeq(k.out, 1, k.headMark)
             d == [k EXCEPT !.out = s]
  <2>3. DropHead(k) = d
    BY <2>2 DEF DropHead
  <2>4. s \in Seq(Piece) /\ Len(s) = Len(k.out) - 1 /\ \A i \in 1 .. Len(k.out) - 1 : s[i] = k.out[i]
    BY <1>1, <2>1, <2>2, OrderDrop
  <2> HIDE DEF s
  <2>5. d.out = s /\ d.nreq = k.nreq
    BY DEF Connection
  <2> HIDE DEF d
  <2>6. \A i \in 1 .. Len(s) : i \in 1 .. Len(k.out) /\ s[i] = k.out[i]
    BY <1>1, <2>4
  <2>7. QED
    BY <2>3, <2>5, <2>6 DEF Bounded
<1>4. QED
  BY <1>2, <1>3

LEMMA ThrowAnswers ==
    ASSUME NEW k \in Connection, NEW rs \in Table, ObjectOK(k, rs), k.life \in {"open", "closing"},
           HandlerOK(k, rs), k.busy, Bounded(k), NEW q, q = Send500(k)
    PROVE  Answered(q) /\ Bounded(q) /\ q.nreq = k.nreq /\ q.life = k.life /\ k.nreq \in Nat \ {0}
<1> DEFINE d == DropHead(k)
<1>1. Owed(k, rs) /\ k.nreq \in Nat /\ "500" \in Part /\ "500" \in {"end", "500"}
  BY FieldTypes DEF HandlerOK, Part
<1>2. k.nreq # 0
  BY <1>1, BoundAssumption DEF Owed, Request
<1>3. d \in Connection /\ SameInput(k, d) /\ d.life = k.life
  BY <1>1, DropHeadOK
<1>4. Bounded(d)
  BY DropAnswers DEF ObjectOK
<1>5. q = [AppendPart(d, k.nreq, "500") EXCEPT !.busy = FALSE, !.closing = TRUE]
  BY DEF Send500
<1> HIDE DEF d
<1>6. AppendPart(d, k.nreq, "500") \in Connection
  BY <1>1, <1>3, AppendType
<1>7. q \in Connection
  BY <1>5, <1>6 DEF Connection
<1>8. /\ q.out = Append(d.out, [req |-> k.nreq, part |-> "500"])
      /\ q.nreq = d.nreq /\ q.life = d.life
  BY <1>3, <1>5, <1>6 DEF AppendPart, Connection
<1>9. d.nreq = k.nreq
  BY <1>3 DEF SameInput
<1>10. /\ Answered(q) <=> Answered(d) \/ (k.nreq = d.nreq /\ "500" \in {"end", "500"})
       /\ Bounded(q) <=> Bounded(d) /\ ("500" \in {"end", "500"} => k.nreq <= d.nreq)
  BY <1>1, <1>3, <1>7, <1>8, AppendAnswers
<1>11. QED
  BY <1>1, <1>2, <1>3, <1>4, <1>8, <1>9, <1>10

LEMMA HandlerEndStep ==
    ASSUME TypeOK, ServerInv, TypeOK', ServerInv', AllBounded, HandlerReturns \/ HandlerThrows
    PROVE  Step
<1> DEFINE c == Top.c
           k == conn[c]
<1>1. AtTop("handler") /\ LeaveHandler
  BY DEF HandlerReturns, HandlerThrows
<1>2. stack # <<>> /\ Top.at = "handler" /\ FramesOK
  BY <1>1 DEF AtTop, ServerInv
<1>3. c \in Conn /\ k.processing /\ HandlerOK(k, res[c])
  BY <1>2, TopFacts
<1>4. k \in Connection /\ res[c] \in Table /\ ObjectOK(k, res[c])
  BY <1>3, ObjectFacts
<1>5. k.life \in {"open", "closing"} /\ Bounded(k)
  BY <1>3, <1>4 DEF ObjectOK, AllBounded
<1>6. RunningHandler = c /\ RunningHandler' = NoConn /\ RunningHandler # NoConn
  BY <1>1, <1>3, RunnerLeaves, ConnAssumption
<1>7. ASSUME NEW q, conn' = [conn EXCEPT ![c] = q], SameService(k, q), Bounded(q)
      PROVE  Step
  <2>1. OnlyAt(c, q)
    BY <1>7 DEF OnlyAt, TypeOK
  <2>2. AllBounded'
    BY <1>3, <1>7, <2>1, OnlyBounded
  <2>3. \A d \in Conn : SameService(conn[d], conn'[d])
    BY <1>3, <1>7, <2>1, OnlySame
  <2>4. QED
    BY <1>6, <2>2, <2>3, LeaveStep DEF Step
<1>8. ASSUME NEW q, conn' = [conn EXCEPT ![c] = q], q.out = k.out, q.nreq = k.nreq, q.life = k.life
      PROVE  Step
  <2>1. SameService(k, q) /\ Bounded(q)
    BY <1>5, <1>8, SameAnswers DEF SameService
  <2>2. QED
    BY <1>7, <1>8, <2>1
<1>9. CASE HandlerReturns
  <2> DEFINE q == HalfClosed(k)
  <2>1. conn' = [conn EXCEPT ![c] = q]
    BY <1>9 DEF HandlerReturns
  <2>2. q.out = k.out /\ q.nreq = k.nreq /\ q.life = k.life
    BY <1>4 DEF HalfClosed, Connection
  <2> HIDE DEF q, c
  <2>3. QED
    BY <1>8, <2>1, <2>2
<1>10. CASE HandlerThrows /\ ~k.busy
  <2>1. conn' = [conn EXCEPT ![c] = k]
    BY <1>10 DEF HandlerThrows
  <2>2. QED
    BY <1>8, <2>1
<1>11. CASE HandlerThrows /\ k.busy
  <2> DEFINE q == Send500(k)
  <2>1. conn' = [conn EXCEPT ![c] = q]
    BY <1>11 DEF HandlerThrows
  <2>2. Answered(q) /\ Bounded(q) /\ q.nreq = k.nreq /\ q.life = k.life /\ k.nreq \in Nat \ {0}
    BY <1>3, <1>4, <1>5, <1>11, ThrowAnswers
  <2> HIDE DEF q
  <2>3. CASE Answered(k)
    <3>1. SameService(k, q)
      BY <2>2, <2>3 DEF SameService
    <3>2. QED
      BY <1>7, <2>1, <2>2, <3>1
  <2>4. CASE ~Answered(k)
    <3>1. OnlyAt(c, q)
      BY <2>1 DEF OnlyAt, TypeOK
    <3>2. AllBounded'
      BY <1>3, <2>2, <3>1, OnlyBounded
    <3>3. k.life # "gone" /\ q.life # "gone"
      BY <1>5, <2>2
    <3> HIDE DEF c
    <3>4. [Service!SNext]_(Service!svars)
      BY <1>3, <1>6, <2>2, <2>4, <3>1, <3>3, FailStep
    <3>5. QED
      BY <3>2, <3>4 DEF Step
  <2>5. QED
    BY <2>3, <2>4
<1>12. QED
  BY <1>9, <1>10, <1>11

LEMMA DrainDoneStep ==
    ASSUME TypeOK, ServerInv, TypeOK', ServerInv', AllBounded, DrainDone
    PROVE  Step
<1>1. stack # <<>> /\ Top.at # "handler" /\ stack' = MoveTo("loop") /\ conn' = conn
  BY DEF DrainDone, AtTop
<1>2. "loop" \in At /\ "loop" # "handler"
  BY DEF At
<1>3. Runner(stack') = Runner(stack)
  BY <1>1, <1>2, RunnerMove
<1>4. QED
  BY <1>1, <1>3, IdleStep

LEMMA DrainNextStep ==
    ASSUME TypeOK, ServerInv, TypeOK', ServerInv', AllBounded, DrainNext
    PROVE  Step
<1> DEFINE c == Head(gate.deferred)
           k == conn[c]
           q == [k EXCEPT !.deferred = FALSE, !.busy = TRUE, !.processing = TRUE, !.nreq = @ + 1]
           n == Len(stack)
<1>1. /\ gate.deferred # <<>> /\ gate.active = 0 /\ ParkedOnce
  BY DEF DrainNext, ServerInv
<1>2. gate.deferred \in Seq(Conn)
  BY DEF TypeOK, Gate
<1>3. c \in Conn /\ 1 \in 1 .. Len(gate.deferred) /\ gate.deferred[1] = c
  BY <1>1, <1>2
<1>4. k.deferred
  BY <1>1, <1>3 DEF ParkedOnce
<1>5. k \in Connection /\ res[c] \in Table /\ ObjectOK(k, res[c])
  BY <1>3, ObjectFacts
<1>6. k.life \in {"open", "closing"}
  BY <1>4, <1>5 DEF ObjectOK
<1>7. conn' = [conn EXCEPT ![c] = q] /\ stack' = Push(c, "handler", k.processing)
  BY <1>4, <1>6 DEF DrainNext, Registered
<1>8. MayBegin(k, k.nreq + 1)
  <2>1. \A r \in Request : ~Outstanding(res[c][r])
    BY <1>4, <1>5 DEF ObjectOK, AnswersOK
  <2>2. ~Owed(k, res[c])
    BY <2>1 DEF Owed
  <2>3. QED
    BY <1>4, <1>5, <1>6, <2>2 DEF ObjectOK, TailOK
<1>9. q.out = k.out /\ q.nreq = k.nreq + 1 /\ q.life = k.life
  BY <1>5 DEF Connection
<1>10. n + 1 \in 1 .. Len(stack') /\ stack'[n + 1].at = "handler" /\ stack'[n + 1].c = c
  <2>1. "handler" \in At /\ k.processing \in BOOLEAN
    BY <1>5 DEF At, Connection
  <2>2. Len(stack') = n + 1 /\ stack'[n + 1] = [c |-> c, at |-> "handler", was |-> k.processing]
    BY <1>3, <1>7, <2>1, PushType DEF TypeOK
  <2>3. n \in Nat
    BY FrameAt
  <2> HIDE DEF n, c
  <2>4. QED
    BY <2>2, <2>3
<1>11. OnlyAt(c, q)
  BY <1>3, <1>7 DEF OnlyAt, TypeOK
<1> HIDE DEF q, c, n
<1>12. QED
  BY <1>1, <1>3, <1>6, <1>8, <1>9, <1>10, <1>11, StartStep

LEMMA WriteStep ==
    ASSUME TypeOK, ServerInv, TypeOK', ServerInv', AllBounded, NEW c \in Conn, NEW r \in Request,
           Write(c, r) \/ \E ka \in BOOLEAN : WriteHead(c, r, ka)
    PROVE  Step
<1> DEFINE k == conn[c]
           f == Commit(k, res[c][r], r)
<1>1. k \in Connection /\ res[c] \in Table /\ ObjectOK(k, res[c]) /\ Bounded(k) /\ r \in Nat
      /\ k.sent <= Len(k.out)
  BY ObjectFacts, BoundAssumption DEF AllBounded, Request, ObjectOK, BufferOK
<1>2. stack' = stack
  BY DEF Write, WriteHead
<1>3. CASE conn' = conn
  BY <1>2, <1>3, IdleStep
<1>4. ASSUME NEW q \in Connection, conn' = [conn EXCEPT ![c] = q], q.nreq = k.nreq,
             Answered(q) <=> Answered(k), Bounded(q), q.life # "gone", k.life # "gone"
      PROVE  Step
  <2>1. OnlyAt(c, q) /\ SameService(k, q)
    BY <1>4 DEF OnlyAt, TypeOK, SameService
  <2>2. QED
    BY <1>2, <1>4, <2>1, QuietStep
<1>5. ASSUME Registered(c), conn' = [conn EXCEPT ![c] = AppendHead(k, r)]
      PROVE  Step
  <2>1. k.life # "gone"
    BY <1>5 DEF Registered
  <2>2. /\ AppendHead(k, r) \in Connection /\ AppendHead(k, r).nreq = k.nreq
        /\ AppendHead(k, r).life = k.life
    BY <1>1, HeadFields DEF SameInput
  <2>3. Bounded(AppendHead(k, r)) /\ (Answered(AppendHead(k, r)) <=> Answered(k))
    BY <1>1, HeadAnswers
  <2>4. QED
    BY <1>4, <1>5, <2>1, <2>2, <2>3
<1>6. ASSUME Registered(c), NEW q \in Enqueue(f, r, "body"), conn' = [conn EXCEPT ![c] = q]
      PROVE  Step
  <2>1. k.life # "gone" /\ "body" \in Part /\ "body" \notin {"end", "500"}
    BY <1>6 DEF Registered, Part
  <2>2. /\ f \in Connection /\ f.nreq = k.nreq /\ f.sent <= Len(f.out)
        /\ Answered(f) <=> Answered(k)
        /\ Bounded(f) <=> Bounded(k)
    BY <1>1, CommitAnswers
  <2>3. f.life = k.life
    BY <1>1, HeadFields DEF Commit
  <2> HIDE DEF f
  <2>4. /\ q \in Connection /\ q.nreq = f.nreq
        /\ Answered(q) <=> Answered(f)
        /\ Bounded(q) <=> Bounded(f)
    BY <1>1, <1>6, <2>1, <2>2, EnqueueAnswers
  <2>5. q.life \in {f.life, "closing"}
    BY <1>1, <1>6, <2>1, <2>2, EnqueueFields
  <2>6. QED
    BY <1>1, <1>4, <1>6, <2>1, <2>2, <2>3, <2>4, <2>5
<1>7. CASE Write(c, r)
  <2>1. CASE Registered(c)
    <3>1. PICK q \in Enqueue(f, r, "body") : conn' = [conn EXCEPT ![c] = q]
      BY <1>7, <2>1 DEF Write
    <3>2. QED
      BY <1>6, <2>1, <3>1
  <2>2. CASE ~Registered(c)
    <3>1. conn' = conn
      BY <1>7, <2>2 DEF Write
    <3>2. QED
      BY <1>3, <3>1
  <2>3. QED
    BY <2>1, <2>2
<1>8. ASSUME NEW ka \in BOOLEAN, WriteHead(c, r, ka)
      PROVE  Step
  <2>1. conn' = IF Registered(c) THEN [conn EXCEPT ![c] = AppendHead(k, r)] ELSE conn
    BY <1>8 DEF WriteHead
  <2>2. CASE Registered(c)
    BY <1>5, <2>1, <2>2
  <2>3. CASE ~Registered(c)
    BY <1>3, <2>1, <2>3
  <2>4. QED
    BY <2>2, <2>3
<1>9. QED
  BY <1>7, <1>8

LEMMA EndStep ==
    ASSUME TypeOK, ServerInv, TypeOK', ServerInv', AllBounded, NEW c \in Conn, NEW r \in Request,
           NEW ka \in BOOLEAN, End(c, r, ka)
    PROVE  Step
<1> DEFINE k == conn[c]
           final == KeepAliveFinal(res[c][r], ka)
           f == Commit(k, res[c][r], r)
<1>1. k \in Connection /\ res[c] \in Table /\ ObjectOK(k, res[c]) /\ Bounded(k) /\ r \in Nat
      /\ k.sent <= Len(k.out) /\ r # 0
  BY ObjectFacts, BoundAssumption DEF AllBounded, Request, ObjectOK, BufferOK
<1>2. /\ Outstanding(res[c][r])
      /\ Registered(c) => \E e \in Enqueue(f, r, "end") : ResponseComplete(c, e, final)
      /\ ~Registered(c) => conn' = conn /\ stack' = stack
  BY DEF End, Outstanding
<1>3. r = k.nreq
  BY <1>1, <1>2, OwedIsLatest DEF ObjectOK
<1>4. CASE ~Registered(c)
  BY <1>2, <1>4, IdleStep
<1>5. CASE Registered(c)
  <2>1. PICK e \in Enqueue(f, r, "end") : ResponseComplete(c, e, final)
    BY <1>2, <1>5
  <2>2. k.life # "gone" /\ "end" \in Part /\ "end" \in {"end", "500"}
    BY <1>5 DEF Registered, Part
  <2>3. /\ f \in Connection /\ f.nreq = k.nreq /\ f.sent <= Len(f.out)
        /\ Answered(f) <=> Answered(k)
        /\ Bounded(f) <=> Bounded(k)
    BY <1>1, CommitAnswers
  <2>4. f.life = k.life
    BY <1>1, HeadFields DEF Commit
  <2> HIDE DEF f, final
  <2>5. /\ e \in Connection /\ e.nreq = f.nreq
        /\ Answered(e) <=> Answered(f) \/ (r = f.nreq /\ "end" \in {"end", "500"})
        /\ Bounded(e) <=> Bounded(f) /\ ("end" \in {"end", "500"} => r <= f.nreq)
    BY <1>1, <2>1, <2>2, <2>3, EnqueueAnswers
  <2>6. e.life \in {f.life, "closing"}
    BY <1>1, <2>1, <2>2, <2>3, EnqueueFields
  <2>7. Answered(e) /\ Bounded(e) /\ e.nreq = k.nreq /\ e.life # "gone"
    BY <1>1, <1>3, <2>2, <2>3, <2>4, <2>5, <2>6
  <2>8. ASSUME NEW q, conn' = [conn EXCEPT ![c] = q], q.out = e.out, q.nreq = e.nreq, q.life = e.life,
               Runner(stack') = Runner(stack)
        PROVE  Step
    <3>1. OnlyAt(c, q)
      BY <2>8 DEF OnlyAt, TypeOK
    <3>2. Answered(q) /\ Bounded(q) /\ q.nreq = k.nreq /\ q.life # "gone"
      BY <2>7, <2>8, SameAnswers
    <3>3. CASE Answered(k)
      <4>1. SameService(k, q)
        BY <2>2, <3>2, <3>3 DEF SameService
      <4>2. QED
        BY <2>8, <3>1, <3>2, <4>1, QuietStep
    <3>4. CASE ~Answered(k)
      <4>1. AllBounded'
        BY <3>1, <3>2, OnlyBounded
      <4>2. RunningHandler' = RunningHandler
        BY <2>8, Runners
      <4>3. [Service!SNext]_(Service!svars)
        BY <1>1, <1>3, <2>2, <3>1, <3>2, <3>4, <4>2, ReplyStep
      <4>4. QED
        BY <4>1, <4>3 DEF Step
    <3>5. QED
      BY <3>3, <3>4
  <2> DEFINE p == [e EXCEPT !.busy = FALSE, !.closing = @ \/ ~final]
             z == [p EXCEPT !.processing = TRUE]
  <2>9. p.out = e.out /\ p.nreq = e.nreq /\ p.life = e.life
        /\ z.out = e.out /\ z.nreq = e.nreq /\ z.life = e.life
    BY <2>5 DEF Connection
  <2>10. \/ conn' = [conn EXCEPT ![c] = p] /\ stack' = stack
         \/ conn' = [conn EXCEPT ![c] = z] /\ stack' = Push(c, "loop", FALSE)
    BY <2>1 DEF ResponseComplete
  <2> HIDE DEF p, z
  <2>11. CASE conn' = [conn EXCEPT ![c] = p] /\ stack' = stack
    BY <2>8, <2>9, <2>11
  <2>12. CASE conn' = [conn EXCEPT ![c] = z] /\ stack' = Push(c, "loop", FALSE)
    <3>1. Runner(stack') = Runner(stack)
      BY <2>12, RunnerPush
    <3>2. QED
      BY <2>8, <2>9, <2>12, <3>1
  <2>13. QED
    BY <2>10, <2>11, <2>12
<1>6. QED
  BY <1>4, <1>5

LEMMA DestroyStep ==
    ASSUME TypeOK, ServerInv, TypeOK', ServerInv', AllBounded, NEW c \in Conn,
           DestroySocket(c) \/ \E r \in Request : DestroyResponse(c, r)
    PROVE  Step
<1> DEFINE k == conn[c]
           q == LoopClose([k EXCEPT !.closing = TRUE])
<1>1. HardDestroy(c) /\ stack' = stack
  BY DEF DestroySocket, DestroyResponse
<1>2. k \in Connection
  BY ObjectFacts
<1>3. q.out = k.out /\ q.nreq = k.nreq /\ q.life = "closing"
  BY <1>2 DEF LoopClose, Connection
<1>4. CASE Registered(c)
  <2>1. conn' = [conn EXCEPT ![c] = q] /\ k.life # "gone"
    BY <1>1, <1>4 DEF HardDestroy, Registered
  <2> HIDE DEF q
  <2>2. QED
    BY <1>1, <1>3, <2>1, SilentStep
<1>5. CASE ~Registered(c)
  <2>1. conn' = conn
    BY <1>1, <1>5 DEF HardDestroy
  <2>2. QED
    BY <1>1, <2>1, IdleStep
<1>6. QED
  BY <1>4, <1>5

----------------
(* The refinement *)

ServiceInvariant == ServerInvariant /\ AllBounded

LEMMA ServiceNext ==
    ServiceInvariant /\ [Next]_vars => ServiceInvariant' /\ [Service!SNext]_(Service!svars)
<1> SUFFICES ASSUME TypeOK, ServerInv, AllBounded, [Next]_vars
             PROVE  ServiceInvariant' /\ [Service!SNext]_(Service!svars)
  BY DEF ServiceInvariant, ServerInvariant
<1>1. ServerInvariant' /\ TypeOK' /\ ServerInv'
  BY ServerInvNext DEF ServerInvariant
<1>2. CASE Reactor
  <2>1. Step
    BY <1>1, <1>2, ReactorStep, PurgeStep DEF Reactor
  <2>2. QED
    BY <1>1, <2>1 DEF Step, ServiceInvariant
<1>3. CASE ProcessInput
  <2>1. Step
    BY <1>1, <1>3, ParseDispatchStep, ParsePieceStep, ReturnStep DEF ProcessInput
  <2>2. QED
    BY <1>1, <2>1 DEF Step, ServiceInvariant
<1>4. CASE Handlers
  <2>1. Step
    BY <1>1, <1>4, HandlerEndStep, DrainNextStep, DrainDoneStep DEF Handlers
  <2>2. QED
    BY <1>1, <2>1 DEF Step, ServiceInvariant
<1>5. CASE JavaScript
  <2>1. Step
    BY <1>1, <1>5, WriteStep, EndStep, DestroyStep DEF JavaScript
  <2>2. QED
    BY <1>1, <2>1 DEF Step, ServiceInvariant
<1>6. CASE UNCHANGED vars
  <2>1. conn' = conn /\ stack' = stack
    BY <1>6 DEF vars
  <2>2. Step
    BY <1>1, <2>1, IdleStep
  <2>3. QED
    BY <1>1, <2>2 DEF Step, ServiceInvariant
<1>7. QED
  BY <1>2, <1>3, <1>4, <1>5, <1>6 DEF Next

LEMMA ServiceInit == Init => ServiceInvariant /\ Service!SInit
<1> SUFFICES ASSUME Init PROVE ServiceInvariant /\ Service!SInit
  OBVIOUS
<1>1. ServerInvariant
  BY ServerInvInit
<1>2. \A c \in Conn : conn[c].nreq = 0 /\ conn[c].life = "none" /\ Len(conn[c].out) = 0
  BY DEF Init, NewConnection
<1>3. AllBounded
  BY <1>2 DEF AllBounded, Bounded
<1>4. Len(stack) = 0
  BY DEF Init
<1>5. RunningHandler = NoConn
  BY <1>4 DEF RunningHandler
<1>6. \A c \in Conn : Replied(c) = 0
  BY <1>2, RepliedIs
<1>7. Service!SInit
  BY <1>2, <1>5, <1>6 DEF Service!SInit
<1>8. QED
  BY <1>1, <1>3, <1>7 DEF ServiceInvariant

\* Parser, gate, registry and deferred destruction together implement the
\* one-request-at-a-time service: a request is handed over only when the one
\* before it was answered, while no handler runs and its object exists.
THEOREM ImplementsServiceCorrect == Spec => ImplementsService
<1>1. Init => ServiceInvariant /\ Service!SInit
  BY ServiceInit
<1>2. ServiceInvariant /\ [Next]_vars => ServiceInvariant' /\ [Service!SNext]_(Service!svars)
  BY ServiceNext
<1>3. QED
  BY <1>1, <1>2, PTL DEF Spec, ImplementsService, Service!SSpec
=============================================================================
