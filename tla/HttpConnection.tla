--------------------------- MODULE HttpConnection ---------------------------
(***************************************************************************)
(* The HTTP/1.x server connections of runtime/gea_node.cpp: the parser     *)
(* loop (processInput), the gate that keeps request handlers from nesting  *)
(* (HandlerDispatchGate), the response operations TypeScript reaches       *)
(* through the connection registry (ServerResponse in runtime/node/http.ts)*)
(* and the deferred destruction of closed connections by the event loop.   *)
(*                                                                         *)
(* The process is single-threaded, so a state is a C++ call stack between  *)
(* two steps: `stack' holds one frame per processInput activation.  When   *)
(* it is empty the reactor is between two callbacks: a watcher may become  *)
(* ready, or a microtask, a timer or another watcher's callback may run a  *)
(* response operation.                                                     *)
(***************************************************************************)
EXTENDS Integers, Sequences

CONSTANTS
    Conn,       \* connection ids: increasing and never reused
    NoConn,     \* the empty one-entry cache of findConnection
    Token,      \* what a peer may send; a subset of AllTokens
    Quota,      \* bound on the tokens the peer of each connection sends
    MaxTokens,  \* the largest quota
    MaxBatch,   \* bound on the tokens one readAvailable() takes
    MaxWrites,  \* bound on the write() calls of one response
    Env         \* what the surroundings do in this instance, see AllEnv

(***************************************************************************)
(* One iteration of the parser loop consumes one token:                    *)
(*   "get"/"close"   a complete head without a body, keep-alive or not     *)
(*   "post"/"expect" a head whose body follows, the second asking for 100  *)
(*   "body"          the rest of the body                                  *)
(*   "bad"           what is answered 400, 413, 431 or 501                 *)
(***************************************************************************)
AllTokens == {"get", "close", "post", "expect", "body", "bad"}

(***************************************************************************)
(* What sockets and applications may do besides the ordinary:              *)
(*   "eagain"  a send takes part of the buffer       "eof"  peers close    *)
(*   "error"   sends fail and POLLERR is reported                          *)
(*   "throw"   handlers throw      "destroy"  applications destroy         *)
(*   "head"    writeHead() before the body                                 *)
(*   "refuse"  a response sets Connection: close                           *)
(***************************************************************************)
AllEnv == {"eagain", "eof", "error", "throw", "destroy", "head", "refuse"}

ASSUME ConnAssumption == NoConn \notin Conn
ASSUME TokenAssumption == Token \subseteq AllTokens
ASSUME BoundAssumption ==
    /\ MaxTokens \in Nat /\ MaxBatch \in Nat /\ MaxWrites \in Nat
    /\ Quota \in [Conn -> 0 .. MaxTokens]
ASSUME EnvAssumption == Env \subseteq AllEnv

VARIABLES
    conn,    \* the fields of each HttpConnection object, see Connection
    res,     \* the ServerResponse of each request, see Response
    stack,   \* the processInput activations on the C++ stack, see Frame
    gate,    \* HandlerDispatchGate
    cached   \* the connection g_lastConnection points to

vars == <<conn, res, stack, gate, cached>>

Request == 1 .. MaxTokens

\* Parts of the byte stream a connection produces, tagged with their request.
Part == {"continue", "head", "body", "end", "error", "500"}
Piece == [req : Nat, part : Part]

NoMark == -1  \* std::string::npos

(***************************************************************************)
(* `out' is the whole stream the connection has produced and `sent' how    *)
(* much of it left, so outbuf_ and outsent_ are its tail; headMark counts  *)
(* from the same origin.  `nreq' counts the handlers started.  `life' is   *)
(* where the object is: not accepted, watched, in EventLoop::closing_, or  *)
(* destroyed (and erased from the registry).                               *)
(***************************************************************************)
Connection ==
    [life : {"none", "open", "closing", "gone"},
     state : {"head", "body"}, inbuf : Seq(AllTokens), rcvd : Nat,
     busy : BOOLEAN, closing : BOOLEAN, peerClosed : BOOLEAN,
     processing : BOOLEAN, deferred : BOOLEAN, keepAlive : BOOLEAN,
     out : Seq(Piece), sent : Nat, headMark : Int, nreq : Nat]

NewConnection ==
    [life |-> "none", state |-> "head", inbuf |-> <<>>, rcvd |-> 0,
     busy |-> FALSE, closing |-> FALSE, peerClosed |-> FALSE,
     processing |-> FALSE, deferred |-> FALSE, keepAlive |-> TRUE,
     out |-> <<>>, sent |-> 0, headMark |-> NoMark, nreq |-> 0]

\* headersCommitted_, finished, destroyed and keepAliveFinal_ of a response.
Response ==
    [st : {"none", "fresh", "committed", "finished"}, destroyed : BOOLEAN,
     keepAlive : BOOLEAN, writes : Nat]

NoResponse ==
    [st |-> "none", destroyed |-> FALSE, keepAlive |-> FALSE, writes |-> 0]

\* `was' is what the activation restores processing_ to.
Frame == [c : Conn, at : {"loop", "handler", "drain"}, was : BOOLEAN]
Gate == [active : Nat, draining : BOOLEAN, deferred : Seq(Conn)]

TypeOK ==
    /\ conn \in [Conn -> Connection]
    /\ res \in [Conn -> [Request -> Response]]
    /\ stack \in Seq(Frame)
    /\ gate \in Gate
    /\ cached \in Conn \cup {NoConn}

Init ==
    /\ conn = [c \in Conn |-> NewConnection]
    /\ res = [c \in Conn |-> [r \in Request |-> NoResponse]]
    /\ stack = <<>>
    /\ gate = [active |-> 0, draining |-> FALSE, deferred |-> <<>>]
    /\ cached = NoConn

----------------
(* Operations on one connection object *)

Registered(c) == conn[c].life \in {"open", "closing"}

LoopClose(k) == [k EXCEPT !.life = "closing"]

Drained(k) == k.sent = Len(k.out)

\* flush(): any part of the buffer may leave before EAGAIN or an error.
Flushed(k, n) ==
    [k EXCEPT !.sent = n, !.headMark = IF n = Len(k.out) THEN NoMark ELSE @]

CloseIfDone(k) ==
    IF Drained(k) /\ ~k.busy /\ (k.closing \/ k.peerClosed) THEN LoopClose(k) ELSE k

\* flushAndMaybeClose(): the connections it may leave behind.
FlushAndMaybeClose(k) ==
    LET short == IF "eagain" \in Env THEN k.sent .. Len(k.out) - 1 ELSE {}
        fail == IF "error" \in Env THEN k.sent .. Len(k.out) - 1 ELSE {} IN
    {CloseIfDone(Flushed(k, n)) : n \in short \cup {Len(k.out)}}
        \cup {LoopClose([k EXCEPT !.sent = n]) : n \in fail}

\* headBegin .. headEnd: appended where headMark_ remembers, not flushed.
AppendHead(k, r) ==
    [k EXCEPT !.headMark = Len(k.out), !.out = Append(@, [req |-> r, part |-> "head"])]

\* enqueueResponseBytes and its siblings, without the flush.
AppendPart(k, r, p) ==
    [k EXCEPT !.headMark = NoMark, !.out = Append(@, [req |-> r, part |-> p])]

\* Outside the reactor's processing pass a write flushes at once.
Enqueue(k, r, p) ==
    LET q == AppendPart(k, r, p) IN IF k.processing THEN {q} ELSE FlushAndMaybeClose(q)

SendErrorAndClose(k) ==
    [AppendPart(k, k.nreq + 1, "error") EXCEPT !.busy = TRUE, !.closing = TRUE]

\* The 500 of a handler that threw while its request was unanswered.
DropHead(k) ==
    IF k.headMark >= k.sent /\ k.headMark <= Len(k.out)
      THEN [k EXCEPT !.out = SubSeq(@, 1, k.headMark)] ELSE k

Send500(k) ==
    [AppendPart(DropHead(k), k.nreq, "500") EXCEPT !.busy = FALSE, !.closing = TRUE]

----------------
(* The stack *)

Top == stack[Len(stack)]
Below == SubSeq(stack, 1, Len(stack) - 1)
AtTop(where) == stack # <<>> /\ Top.at = where
MoveTo(where) == [stack EXCEPT ![Len(stack)].at = where]
Push(c, where, was) == Append(stack, [c |-> c, at |-> where, was |-> was])

\* JavaScript runs inside a handler, or when the reactor calls back into it.
InJavaScript == stack = <<>> \/ AtTop("handler")

----------------
(* The reactor's callbacks *)

\* HttpServer::onReady adopts a connection.
Accept(c) ==
    /\ stack = <<>>
    /\ conn[c].life = "none"
    /\ conn' = [conn EXCEPT ![c].life = "open"]
    /\ UNCHANGED <<res, stack, gate, cached>>

\* onReady with POLLERR or POLLNVAL.
OnError(c) ==
    /\ "error" \in Env
    /\ stack = <<>>
    /\ conn[c].life = "open"
    /\ conn' = [conn EXCEPT ![c] = LoopClose(@)]
    /\ UNCHANGED <<res, stack, gate, cached>>

\* onReady with POLLOUT alone: interest exists only while output is buffered.
OnWritable(c) ==
    /\ stack = <<>>
    /\ conn[c].life = "open"
    /\ ~Drained(conn[c])
    /\ \E k \in FlushAndMaybeClose(conn[c]) : conn' = [conn EXCEPT ![c] = k]
    /\ UNCHANGED <<res, stack, gate, cached>>

\* A body comes after the head that announces it.
Follows(x, y) ==
    IF x \in {"post", "expect"} THEN y \in {"body", "bad"} ELSE y # "body"

LastToken(k) ==
    IF k.inbuf # <<>> THEN k.inbuf[Len(k.inbuf)]
    ELSE IF k.state = "body" THEN "post" ELSE "get"

Batch == UNION {[1 .. n -> Token] : n \in 0 .. MaxBatch}

Arrives(c, k, ts) ==
    /\ k.rcvd + Len(ts) <= Quota[c]
    /\ \A i \in 1 .. Len(ts) :
          Follows(IF i = 1 THEN LastToken(k) ELSE ts[i - 1], ts[i])

Received(k, ts, eof) ==
    [k EXCEPT !.inbuf = @ \o ts, !.rcvd = @ + Len(ts), !.peerClosed = @ \/ eof]

(***************************************************************************)
(* onReady with POLLIN: readAvailable() takes `ts' and reports end of file *)
(* when `eof'.  A short read returns before the next recv, so data and end *)
(* of file come together only when the data filled the buffer exactly.     *)
(***************************************************************************)
OnReadable(c, ts, eof) ==
    /\ stack = <<>>
    /\ conn[c].life = "open"
    /\ eof => "eof" \in Env
    /\ Arrives(c, conn[c], ts)
    /\ conn[c].peerClosed => eof /\ ts = <<>>
    /\ LET k == Received(conn[c], ts, eof) IN
         IF eof /\ ~k.busy /\ Drained(k)
           THEN /\ conn' = [conn EXCEPT ![c] = LoopClose(k)]
                /\ stack' = stack
           ELSE /\ conn' = [conn EXCEPT ![c] = [k EXCEPT !.processing = TRUE]]
                /\ stack' = Push(c, "loop", FALSE)
    /\ UNCHANGED <<res, gate, cached>>

\* Fault: the destructor leaves g_lastConnection alone.
PurgeKeepingCache ==
    /\ stack = <<>>
    /\ \E c \in Conn : conn[c].life = "closing"
    /\ conn' = [c \in Conn |-> IF conn[c].life = "closing"
                                 THEN [conn[c] EXCEPT !.life = "gone"] ELSE conn[c]]
    /\ UNCHANGED <<res, stack, gate, cached>>

\* purgeClosed at the end of the pass: destructors run.
Purge ==
    /\ stack = <<>>
    /\ \E c \in Conn : conn[c].life = "closing"
    /\ conn' = [c \in Conn |-> IF conn[c].life = "closing"
                                 THEN [conn[c] EXCEPT !.life = "gone"] ELSE conn[c]]
    /\ cached' = IF cached # NoConn /\ conn[cached].life = "closing" THEN NoConn ELSE cached
    /\ UNCHANGED <<res, stack, gate>>

----------------
(* processInput *)

\* Fault: the gate is not consulted.
DispatchCurrentUngated(c, k) ==
    /\ conn' = [conn EXCEPT ![c] = [k EXCEPT !.busy = TRUE, !.nreq = @ + 1]]
    /\ gate' = [gate EXCEPT !.active = @ + 1]
    /\ stack' = MoveTo("handler")
    /\ res' = [res EXCEPT ![c][k.nreq + 1] =
                 [NoResponse EXCEPT !.st = "fresh", !.keepAlive = k.keepAlive]]

\* dispatchCurrent(): run the handler, or park while another one is running.
DispatchCurrent(c, k) ==
    IF gate.active > 0
      THEN /\ conn' = [conn EXCEPT ![c] = [k EXCEPT !.busy = TRUE, !.deferred = TRUE]]
           /\ gate' = [gate EXCEPT !.deferred = Append(@, c)]
           /\ stack' = MoveTo("loop")
           /\ res' = res
      ELSE /\ conn' = [conn EXCEPT ![c] = [k EXCEPT !.busy = TRUE, !.nreq = @ + 1]]
           /\ gate' = [gate EXCEPT !.active = @ + 1]
           /\ stack' = MoveTo("handler")
           /\ res' = [res EXCEPT ![c][k.nreq + 1] =
                        [NoResponse EXCEPT !.st = "fresh", !.keepAlive = k.keepAlive]]

\* The parser has something to take and may take it.
CanParse(k) == ~k.busy /\ ~k.closing /\ k.inbuf # <<>>

Consume(k) == [k EXCEPT !.inbuf = Tail(@)]

\* A head without a body: the request is complete.
ParseHead ==
    /\ AtTop("loop")
    /\ LET c == Top.c  k == conn[c] IN
         /\ CanParse(k)
         /\ k.state = "head" /\ Head(k.inbuf) \in {"get", "close"}
         /\ DispatchCurrent(c, [Consume(k) EXCEPT !.keepAlive = Head(k.inbuf) = "get"])
    /\ UNCHANGED cached

\* A head announcing a body; "100 Continue" goes into the buffer unflushed.
ParseBodyHead ==
    /\ AtTop("loop")
    /\ LET c == Top.c  k == conn[c]
           h == [Consume(k) EXCEPT !.keepAlive = TRUE, !.state = "body"] IN
         /\ CanParse(k)
         /\ k.state = "head" /\ Head(k.inbuf) \in {"post", "expect"}
         /\ conn' = [conn EXCEPT ![c] =
               IF Head(k.inbuf) = "expect"
                 THEN [h EXCEPT !.out = Append(@, [req |-> k.nreq + 1, part |-> "continue"])]
                 ELSE h]
    /\ UNCHANGED <<res, stack, gate, cached>>

ParseBody ==
    /\ AtTop("loop")
    /\ LET c == Top.c  k == conn[c] IN
         /\ CanParse(k)
         /\ k.state = "body" /\ Head(k.inbuf) = "body"
         /\ DispatchCurrent(c, [Consume(k) EXCEPT !.state = "head"])
    /\ UNCHANGED cached

ParseError ==
    /\ AtTop("loop")
    /\ LET c == Top.c  k == conn[c] IN
         /\ CanParse(k)
         /\ Head(k.inbuf) = "bad"
         /\ conn' = [conn EXCEPT ![c] = SendErrorAndClose(Consume(k))]
    /\ UNCHANGED <<res, stack, gate, cached>>

\* processInput returns; its caller leaves the pass and flushes.
ReturnFromInput ==
    /\ AtTop("loop")
    /\ LET c == Top.c  k == [conn[c] EXCEPT !.processing = Top.was] IN
         /\ ~CanParse(k)
         /\ \E q \in (IF k.processing THEN {k} ELSE FlushAndMaybeClose(k)) :
               conn' = [conn EXCEPT ![c] = q]
    /\ stack' = Below
    /\ UNCHANGED <<res, gate, cached>>

----------------
(* The end of a handler and the parked requests *)

\* Fault: nobody drains the gate when the last handler leaves.
LeaveHandlerUndrained ==
    /\ gate' = [gate EXCEPT !.active = @ - 1]
    /\ stack' = MoveTo("loop")

\* dispatchCurrent after runHandler: the last handler frame drains the gate.
LastHandler == gate.active = 1 /\ ~gate.draining

LeaveHandler ==
    \/ /\ LastHandler
       /\ gate' = [gate EXCEPT !.active = 0, !.draining = TRUE]
       /\ stack' = MoveTo("drain")
    \/ /\ ~LastHandler
       /\ gate' = [gate EXCEPT !.active = @ - 1]
       /\ stack' = MoveTo("loop")

\* runHandler's last line.
HalfClosed(k) == IF k.busy /\ k.peerClosed THEN [k EXCEPT !.closing = TRUE] ELSE k

HandlerReturns ==
    /\ AtTop("handler")
    /\ conn' = [conn EXCEPT ![Top.c] = HalfClosed(@)]
    /\ LeaveHandler
    /\ UNCHANGED <<res, cached>>

HandlerThrows ==
    /\ "throw" \in Env
    /\ AtTop("handler")
    /\ conn' = [conn EXCEPT ![Top.c] = IF @.busy THEN Send500(@) ELSE @]
    /\ LeaveHandler
    /\ UNCHANGED <<res, cached>>

\* Fault: a parked request is run without being counted in gate.active.
DrainNextUncounted ==
    /\ AtTop("drain")
    /\ gate.active = 0 /\ gate.deferred # <<>>
    /\ LET c == Head(gate.deferred)  k == conn[c] IN
         /\ conn' = [conn EXCEPT ![c] = [k EXCEPT !.deferred = FALSE, !.busy = TRUE,
                                          !.processing = TRUE, !.nreq = @ + 1]]
         /\ stack' = Push(c, "handler", k.processing)
         /\ res' = [res EXCEPT ![c][k.nreq + 1] =
                      [NoResponse EXCEPT !.st = "fresh", !.keepAlive = k.keepAlive]]
    /\ gate' = [gate EXCEPT !.deferred = Tail(@)]
    /\ UNCHANGED cached

\* drainDeferredHandlers takes the next parked id: dispatchDeferred runs it.
DrainNext ==
    /\ AtTop("drain")
    /\ gate.active = 0 /\ gate.deferred # <<>>
    /\ LET c == Head(gate.deferred)  k == conn[c]
           rest == [gate EXCEPT !.deferred = Tail(@)] IN
         IF Registered(c) /\ k.deferred
           THEN /\ conn' = [conn EXCEPT ![c] = [k EXCEPT !.deferred = FALSE, !.busy = TRUE,
                                                  !.processing = TRUE, !.nreq = @ + 1]]
                /\ gate' = [rest EXCEPT !.active = @ + 1]
                /\ stack' = Push(c, "handler", k.processing)
                /\ res' = [res EXCEPT ![c][k.nreq + 1] =
                             [NoResponse EXCEPT !.st = "fresh", !.keepAlive = k.keepAlive]]
           ELSE gate' = rest /\ UNCHANGED <<conn, stack, res>>
    /\ UNCHANGED cached

DrainDone ==
    /\ AtTop("drain")
    /\ gate.active > 0 \/ gate.deferred = <<>>
    /\ gate' = [gate EXCEPT !.draining = FALSE]
    /\ stack' = MoveTo("loop")
    /\ UNCHANGED <<conn, res, cached>>

----------------
(* ServerResponse: operations of JavaScript on any response it still holds *)

\* findConnection fills the one-entry cache when the registry knows the id.
Find(c) == cached' = IF Registered(c) THEN c ELSE cached

\* commitHeaders: `ka' is keepAliveFinal_, the application may refuse it.
Commit(k, q, r) == IF q.st = "fresh" THEN AppendHead(k, r) ELSE k

KeepAliveFinal(q, ka) == IF q.st = "fresh" THEN q.keepAlive /\ ka ELSE q.keepAlive

WriteHead(c, r, ka) ==
    LET q == res[c][r] IN
    /\ "head" \in Env
    /\ InJavaScript
    /\ q.st = "fresh"
    /\ ~ka => "refuse" \in Env
    /\ conn' = IF Registered(c) THEN [conn EXCEPT ![c] = AppendHead(@, r)] ELSE conn
    /\ res' = [res EXCEPT ![c][r] = [q EXCEPT !.st = "committed",
                                              !.keepAlive = KeepAliveFinal(q, ka)]]
    /\ Find(c)
    /\ UNCHANGED <<stack, gate>>

Write(c, r) ==
    LET q == res[c][r] IN
    /\ InJavaScript
    /\ q.st \in {"fresh", "committed"} /\ ~q.destroyed
    /\ q.writes < MaxWrites
    /\ IF Registered(c)
         THEN \E k \in Enqueue(Commit(conn[c], q, r), r, "body") : conn' = [conn EXCEPT ![c] = k]
         ELSE conn' = conn
    /\ res' = [res EXCEPT ![c][r] = [q EXCEPT !.st = "committed", !.writes = @ + 1]]
    /\ Find(c)
    /\ UNCHANGED <<stack, gate>>

\* Fault: what is buffered behind the answered request is not looked at.
ResponseCompleteWithoutParsing(c, k, ka) ==
    /\ conn' = [conn EXCEPT ![c] = [k EXCEPT !.busy = FALSE, !.closing = @ \/ ~ka]]
    /\ stack' = stack

\* responseComplete: outside a pass it parses on, inside the caller's call.
ResponseComplete(c, k, ka) ==
    LET q == [k EXCEPT !.busy = FALSE, !.closing = @ \/ ~ka] IN
    IF k.processing
      THEN conn' = [conn EXCEPT ![c] = q] /\ stack' = stack
      ELSE /\ conn' = [conn EXCEPT ![c] = [q EXCEPT !.processing = TRUE]]
           /\ stack' = Push(c, "loop", FALSE)

End(c, r, ka) ==
    LET q == res[c][r]  final == KeepAliveFinal(q, ka) IN
    /\ InJavaScript
    /\ q.st \in {"fresh", "committed"} /\ ~q.destroyed
    /\ ~ka => q.st = "fresh" /\ "refuse" \in Env
    /\ IF Registered(c)
         THEN \E k \in Enqueue(Commit(conn[c], q, r), r, "end") : ResponseComplete(c, k, final)
         ELSE UNCHANGED <<conn, stack>>
    /\ res' = [res EXCEPT ![c][r] = [q EXCEPT !.st = "finished", !.keepAlive = final]]
    /\ Find(c)
    /\ UNCHANGED gate

HardDestroy(c) ==
    /\ "destroy" \in Env
    /\ conn' = IF Registered(c)
                 THEN [conn EXCEPT ![c] = LoopClose([@ EXCEPT !.closing = TRUE])] ELSE conn

\* res.destroy() marks the response as well.
DestroyResponse(c, r) ==
    /\ InJavaScript
    /\ res[c][r].st # "none" /\ ~res[c][r].destroyed
    /\ HardDestroy(c)
    /\ res' = [res EXCEPT ![c][r].destroyed = TRUE]
    /\ Find(c)
    /\ UNCHANGED <<stack, gate>>

\* req.socket.destroy() does not: the response may still be written to.
DestroySocket(c) ==
    /\ InJavaScript
    /\ conn[c].nreq > 0
    /\ HardDestroy(c)
    /\ Find(c)
    /\ UNCHANGED <<res, stack, gate>>

----------------
Reactor ==
    \/ \E c \in Conn : \/ Accept(c)
                       \/ OnError(c)
                       \/ OnWritable(c)
                       \/ \E ts \in Batch, eof \in BOOLEAN : OnReadable(c, ts, eof)
    \/ Purge

ProcessInput ==
    \/ ParseHead \/ ParseBodyHead \/ ParseBody \/ ParseError \/ ReturnFromInput

Handlers == HandlerReturns \/ HandlerThrows \/ DrainNext \/ DrainDone

JavaScript ==
    \E c \in Conn :
        \/ \E r \in Request :
              \/ \E ka \in BOOLEAN : WriteHead(c, r, ka) \/ End(c, r, ka)
              \/ Write(c, r)
              \/ DestroyResponse(c, r)
        \/ DestroySocket(c)

Next == Reactor \/ ProcessInput \/ Handlers \/ JavaScript

Spec == Init /\ [][Next]_vars

----------------
(* Properties *)

(***************************************************************************)
(* Two neighbouring pieces of a connection's output.  After "end" comes    *)
(* the next request's response; within a response the head comes first     *)
(* (after a "100 Continue"), and a 500 may cut a body short but never      *)
(* comes after a head whose body was not begun.                            *)
(***************************************************************************)
MayFollow(a, b) ==
    CASE a.part = "end" -> b.req = a.req + 1 /\ b.part \notin {"body", "end"}
      [] a.part = "continue" -> b.req = a.req /\ b.part \in {"head", "error", "500"}
      [] a.part = "head" -> b.req = a.req /\ b.part \in {"body", "end"}
      [] a.part = "body" -> b.req = a.req /\ b.part \in {"body", "end", "500"}
      [] a.part = "500" -> b.req = a.req /\ b.part \in {"head", "body", "end", "500"}
      [] a.part = "error" -> FALSE

\* Pipelining stays ordered: whatever handlers, jobs and failures do, the
\* responses of a connection leave in request order, each one contiguous and
\* framed head first, and nothing follows a parser error (the class comment
\* of HttpConnection, and the one-at-a-time rule of busy_).
ResponsesInOrder ==
    \A c \in Conn : LET s == conn[c].out IN
        /\ s # <<>> => s[1].req = 1 /\ s[1].part \notin {"body", "end"}
        /\ \A i \in 1 .. Len(s) - 1 : MayFollow(s[i], s[i + 1])

\* "Request handlers never nest": at most one handler frame is on the stack.
HandlersNeverNest ==
    \A i, j \in 1 .. Len(stack) :
        stack[i].at = "handler" /\ stack[j].at = "handler" => i = j

\* Between two reactor callbacks no request is parked and the gate is open:
\* drainDeferredHandlers strands nobody, nested calls of it included.
NothingStranded ==
    stack = <<>> => gate = [active |-> 0, draining |-> FALSE, deferred |-> <<>>]

\* The gate's queue and the deferred_ flags agree, and no id is queued twice.
ParkedOnce ==
    /\ \A i, j \in 1 .. Len(gate.deferred) : gate.deferred[i] = gate.deferred[j] => i = j
    /\ \A c \in Conn : conn[c].deferred <=> \E i \in 1 .. Len(gate.deferred) : gate.deferred[i] = c

\* findConnection's one-entry cache never holds a destroyed connection.
CacheValid == cached # NoConn => Registered(cached)

\* A response announced with "Connection: close" is the connection's last.
CloseIsLast ==
    \A c \in Conn, r \in Request :
        res[c][r].st = "finished" /\ ~res[c][r].keepAlive => conn[c].nreq <= r

\* Between callbacks a connection that owes no response and has sent all of
\* its output is not one that should be closed: flushAndMaybeClose missed none.
NoneLeftOpen ==
    stack = <<>> =>
        \A c \in Conn : LET k == conn[c] IN
            k.life = "open" /\ Drained(k) /\ ~k.busy => ~k.closing /\ ~k.peerClosed
----------------
(***************************************************************************)
(* The gate.  HandlersNeverNest and NothingStranded are not inductive: a   *)
(* handler may be entered only because gate.active counts the handler      *)
(* frames exactly, and the queue empties only because the frame that       *)
(* drains it is at the bottom of the stack.                                *)
(***************************************************************************)
OneFrame(a) == Len(stack) = 1 /\ stack[1].at = a
TwoFrames(a, b) == Len(stack) = 2 /\ stack[1].at = a /\ stack[2].at = b
ThreeFrames(a, b, d) ==
    Len(stack) = 3 /\ stack[1].at = a /\ stack[2].at = b /\ stack[3].at = d

GateIs(n, draining) == gate.active = n /\ gate.draining = draining

\* The gate and the C++ stack agree (HandlerDispatchGate, dispatchCurrent,
\* drainDeferredHandlers).  The code builds eight kinds of stack: a pass, with
\* a handler or the drain loop in it, and above it at most the pass of a
\* connection some handler completes.  active counts the handler frames,
\* draining marks the drain loop, and requests wait only below such a frame.
GateInv ==
    \/ Len(stack) = 0 /\ GateIs(0, FALSE) /\ gate.deferred = <<>>
    \/ OneFrame("loop") /\ GateIs(0, FALSE) /\ gate.deferred = <<>>
    \/ OneFrame("handler") /\ GateIs(1, FALSE)
    \/ OneFrame("drain") /\ GateIs(0, TRUE)
    \/ TwoFrames("handler", "loop") /\ GateIs(1, FALSE)
    \/ TwoFrames("drain", "loop") /\ GateIs(0, TRUE)
    \/ TwoFrames("drain", "handler") /\ GateIs(1, TRUE)
    \/ ThreeFrames("drain", "handler", "loop") /\ GateIs(1, TRUE)
----------------
(***************************************************************************)
(* Why responses stay in order.  ResponsesInOrder speaks of the stream     *)
(* alone; what the next piece may be depends on the flags of the           *)
(* connection, on the responses still held by JavaScript and on the frames *)
(* of the stack, so the four are tied together here.                       *)
(***************************************************************************)
LastPiece(k) == k.out[Len(k.out)]
EndsWith(k, r, parts) == k.out # <<>> /\ LastPiece(k).req = r /\ LastPiece(k).part \in parts

Outstanding(q) == q.st \in {"fresh", "committed"}

\* Some response of the connection can still be written to.
Owed(k, rs) == k.nreq \in Request /\ Outstanding(rs[k.nreq])

\* The response to request n may begin.
MayBegin(k, n) == (k.out = <<>> /\ n = 1) \/ EndsWith(k, n - 1, {"end"}) \/ EndsWith(k, n, {"continue"})

InOrder(s) ==
    /\ s # <<>> => s[1].req = 1 /\ s[1].part \notin {"body", "end"}
    /\ \A i \in 1 .. Len(s) - 1 : MayFollow(s[i], s[i + 1])

\* outsent_ and headMark_: a mark is that of an unsent header block at the end.
BufferOK(k) ==
    /\ k.sent <= Len(k.out)
    /\ k.headMark # NoMark => /\ k.headMark = Len(k.out) - 1 /\ k.sent <= k.headMark
                              /\ LastPiece(k).part = "head"

\* Every request started, parked or buffered was received.
CountOK(k) ==
    /\ k.nreq + Len(k.inbuf) <= k.rcvd /\ k.rcvd <= MaxTokens
    /\ k.deferred => k.nreq + 1 + Len(k.inbuf) <= k.rcvd

\* busy_, closing_ and deferred_ against the responses: at most the latest is unanswered, none while a request is
\* parked, and a refused keep-alive lets nothing more in.
AnswersOK(k, rs) ==
    /\ k.deferred => k.busy \/ k.closing
    /\ \A r \in Request :
          /\ rs[r].st # "none" => r <= k.nreq
          /\ Outstanding(rs[r]) => r = k.nreq /\ ~k.deferred /\ (k.busy \/ k.closing)
          /\ rs[r].st = "finished" /\ ~rs[r].keepAlive =>
                k.nreq <= r /\ ~k.deferred /\ (k.closing \/ k.life = "gone")

\* The end of the stream against the response that is written next.
TailOK(k, rs) ==
    /\ Owed(k, rs) /\ rs[k.nreq].st = "fresh" => MayBegin(k, k.nreq) \/ EndsWith(k, k.nreq, {"500"})
    /\ Owed(k, rs) /\ rs[k.nreq].st = "committed" => EndsWith(k, k.nreq, {"head", "body", "500"})
    /\ ~Owed(k, rs) /\ (~k.closing \/ k.deferred) => MayBegin(k, k.nreq + 1)
    /\ ~Owed(k, rs) /\ ~k.closing /\ ~k.deferred /\ k.state = "head" => ~EndsWith(k, k.nreq + 1, {"continue"})

\* Between dispatch and return of its handler.
HandlerOK(k, rs) ==
    /\ ~k.deferred
    /\ k.busy => Owed(k, rs)
    /\ k.out # <<>> /\ LastPiece(k).part = "head" => k.headMark # NoMark

\* No activation is going to flush it, so it is not one that is done.
IdleOK(k) ==
    k.life = "open" /\ Drained(k) /\ ~k.busy /\ ~k.processing => ~k.closing /\ ~k.peerClosed

ObjectOK(k, rs) ==
    /\ BufferOK(k) /\ CountOK(k) /\ AnswersOK(k, rs) /\ InOrder(k.out)
    /\ k.life # "gone" => TailOK(k, rs)
    /\ k.life = "none" => k = NewConnection
    /\ k.deferred \/ k.processing => k.life \in {"open", "closing"}

\* processing_ is set by the one activation a connection has; a parked connection's activation is about to return.
FramesOK ==
    /\ \A i \in 1 .. Len(stack) :
          /\ ~stack[i].was
          /\ stack[i].at = "handler" => HandlerOK(conn[stack[i].c], res[stack[i].c])
          /\ conn[stack[i].c].deferred => i = Len(stack) /\ stack[i].at = "loop"
    /\ \A i, j \in 1 .. Len(stack) : stack[i].c = stack[j].c => i = j
    /\ \A c \in Conn : conn[c].processing <=> \E i \in 1 .. Len(stack) : stack[i].c = c

\* The state of the server in full: the gate and the stack, the frames and the connections, each connection's
\* flags, buffers, responses and stream, the gate's queue and the registry's cache.
ServerInv ==
    /\ GateInv /\ FramesOK /\ ParkedOnce /\ CacheValid
    /\ \A c \in Conn : ObjectOK(conn[c], res[c]) /\ IdleOK(conn[c])
----------------
(***************************************************************************)
(* The promise to clients.  A request counts as replied to when the last   *)
(* piece of its response, or its 500, is in the stream.                    *)
(***************************************************************************)
Replied(c) ==
    LET k == conn[c] IN
    IF k.nreq = 0 \/ \E i \in 1 .. Len(k.out) :
                       k.out[i].req = k.nreq /\ k.out[i].part \in {"end", "500"}
      THEN k.nreq ELSE k.nreq - 1

RunningHandler ==
    IF \E i \in 1 .. Len(stack) : stack[i].at = "handler"
      THEN stack[CHOOSE i \in 1 .. Len(stack) : stack[i].at = "handler"].c
      ELSE NoConn

Service == INSTANCE RequestService WITH
    served <- [c \in Conn |-> conn[c].nreq],
    replied <- [c \in Conn |-> Replied(c)],
    handler <- RunningHandler,
    alive <- [c \in Conn |-> conn[c].life # "gone"]

\* Parser, gate, registry and deferred destruction together implement the
\* one-request-at-a-time service of RequestService on every connection.
ImplementsService == Service!SSpec

----------------
(***************************************************************************)
(* Fairness.  A C++ frame runs to its end.  Applications end every         *)
(* response they were given, and peers read what is sent; both happen from *)
(* reactor callbacks that other callbacks interrupt, hence strong          *)
(* fairness.  Each pass of the loop ends with purgeClosed.                 *)
(***************************************************************************)
Fairness ==
    /\ WF_vars(ProcessInput \/ Handlers)
    /\ \A c \in Conn, r \in Request :
          SF_vars(stack = <<>> /\ \E ka \in BOOLEAN : End(c, r, ka))
    /\ \A c \in Conn : SF_vars(OnWritable(c) /\ conn'[c].sent > conn[c].sent)
    /\ SF_vars(Purge)

FairSpec == Spec /\ Fairness

\* A request buffered behind others is eventually taken, by whichever of
\* onReady, responseComplete and dispatchDeferred gets to it, unless the
\* connection is being closed.
BufferedIsTaken ==
    \A c \in Conn :
        (conn[c].life = "open" /\ ~conn[c].closing /\ conn[c].inbuf # <<>>)
            ~> (conn[c].inbuf = <<>> \/ conn[c].closing \/ conn[c].life # "open")

ParserError(k) == \E i \in 1 .. Len(k.out) : k.out[i].part = "error"

\* A connection marked closing_, or whose peer half-closed, is eventually
\* destroyed: its response ends, its output drains and some callback notices.
ClosingIsDestroyed ==
    \A c \in Conn :
        ((conn[c].closing \/ conn[c].peerClosed) /\ ~ParserError(conn[c]))
            ~> (conn[c].life = "gone" \/ ParserError(conn[c]))

----------------
(* What comments and documents say that the code does not do *)

\* No request handed to the application still awaits responseComplete.
OwesNothing(c) ==
    conn[c].nreq = 0 \/ res[c][conn[c].nreq].st = "finished"

\* The field comment of closing_: "no further requests; close once drained".
\* After sendErrorAndClose nothing is awaited, yet busy_ keeps it open.
ClosedOnceDrained ==
    stack = <<>> =>
        \A c \in Conn :
            conn[c].closing /\ Drained(conn[c]) /\ OwesNothing(c) => conn[c].life # "open"

\* One connection, over pipelined requests in every state of its buffers: responses in order, no stale cache
\* entry, nothing after the close, nothing left open.
ConnectionSafe == ResponsesInOrder /\ CacheValid /\ CloseIsLast /\ NoneLeftOpen

\* The dispatch gate over all connections: one handler at a time, nothing stranded between callbacks, and no
\* connection parked twice.
DispatchSafe == HandlersNeverNest /\ NothingStranded /\ ParkedOnce

\* Buffered requests are taken up and closing connections destroyed.
RequestsProceed == BufferedIsTaken /\ ClosingIsDestroyed
=============================================================================
