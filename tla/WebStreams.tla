----------------------------- MODULE WebStreams -----------------------------
(***************************************************************************)
(* WHATWG streams (src/runtime/node/whatwg-streams.ts) and the adapters    *)
(* between them and node:stream (src/runtime/node/stream.ts): a source     *)
(* ReadableStream that is read, iterated, piped, piped through a           *)
(* TransformStream, teed, or pumped into a Readable, and a WritableStream  *)
(* whose sink answers later.  Promise reactions are microtasks, run in the *)
(* order they were queued.  Operators are pure functions of the streams W. *)
(***************************************************************************)
EXTENDS Integers, Sequences, FiniteSets, SequencesExt, TLC

CONSTANTS
    WebModes,      \* [top: what reads the source, pull: it has a pull(), user: what a user
                \*   may do, and which faults may happen]
    MaxChunks   \* chunks the source produces

VARIABLES
    web,       \* the topology and who interferes, fixed in a behaviour
    W,          \* the streams: r (readable), w (writable), jobs (the microtask queue)
    pc,         \* what each consumer of a stream is doing
    webSeen         \* history: chunks produced, got by each consumer, handed to and kept by the sink

webVars == <<web, W, pc, webSeen>>

Readables == {"src", "left", "right", "tr"}
Writables == {"dst", "tw"}
Consumers == {"user", "pipe1", "pipe2", "tee", "L", "R", "node"}
Done == 0           \* {done: true}
Error == -1         \* a rejection
NoOne == "none"

\* Who reads which stream, in each topology.
From == [user |-> "src", pipe1 |-> "src", pipe2 |-> "tr", tee |-> "src", L |-> "left", R |-> "right", node |-> "src"]
Active == CASE web.top = "direct" -> {"user"} [] web.top = "pipe" -> {"pipe1"}
            [] web.top = "through" -> {"pipe1", "pipe2"} [] web.top = "tee" -> {"tee", "L", "R"}
            [] web.top = "toNode" -> {"node"} [] OTHER -> {}
Users == Active \cap {"user", "L", "R"}
To(c) == IF c = "pipe1" /\ web.top = "through" THEN "tw" ELSE "dst"

----------------
(* ReadableStream.                                                         *)

IsReadable(w, s) == w.r[s].state = "readable"
Settle(w, s, res) ==
    IF w.r[s].waiting = NoOne THEN w
    ELSE [w EXCEPT !.r[s].waiting = NoOne, !.jobs = Append(@, [c |-> w.r[s].waiting, res |-> res])]

enqueueFromController(w, s, v) ==
    IF w.r[s].waiting # NoOne THEN Settle(w, s, v) ELSE [w EXCEPT !.r[s].queue = Append(@, v)]

Ends(w, s, state, res) == IF ~IsReadable(w, s) THEN w ELSE Settle([w EXCEPT !.r[s].state = state], s, res)
closeFromControllerFault(w, s) == IF ~IsReadable(w, s) THEN w ELSE [w EXCEPT !.r[s].state = "closed"]
closeFromController(w, s) == Ends(w, s, "closed", Done)
errorFromController(w, s) == Ends(w, s, "errored", Error)

(* readInternal(): consumer c reads s.  p is what the source's pull() does: *)
(* a chunk it enqueues, Done, Error or "none".                              *)
Answer(w, c, res) == [w EXCEPT !.jobs = Append(@, [c |-> c, res |-> res])]
Shift(w, s, c) == [Answer(w, c, Head(w.r[s].queue)) EXCEPT !.r[s].queue = Tail(@)]
Settled(w, s) == w.r[s].queue # <<>> \/ ~IsReadable(w, s)
Take(w, s, c) ==
    IF w.r[s].queue # <<>> THEN Shift(w, s, c)
    ELSE Answer(w, c, IF w.r[s].state = "closed" THEN Done ELSE Error)
readInternal(w, s, c, p) ==
    IF Settled(w, s) THEN Take(w, s, c)
    ELSE LET pulled == CASE p = "close" -> closeFromController(w, s)
                         [] p = "error" -> errorFromController(w, s)
                         [] p = "enqueue" -> enqueueFromController(w, s, webSeen.sent + 1)
                         [] OTHER -> w IN
         IF Settled(pulled, s) THEN Take(pulled, s, c) ELSE [pulled EXCEPT !.r[s].waiting = c]
Pulls(s) ==
    IF s = "src" /\ web.pull /\ ~Settled(W, s)
    THEN {"none", "close"} \cup (IF webSeen.sent < MaxChunks THEN {"enqueue"} ELSE {})
         \cup (IF "error" \in web.user THEN {"error"} ELSE {})
    ELSE {"none"}
Pulled(o, s, p) == IF p = "enqueue" /\ ~Settled(W, s) THEN [o EXCEPT !.sent = @ + 1] ELSE o

cancel(w, s) == closeFromController([w EXCEPT !.r[s].queue = <<>>], s)

getReader(w, s, c) == [w EXCEPT !.r[s].reader = c]
releaseReader(w, s, c) == IF w.r[s].reader = c THEN [w EXCEPT !.r[s].reader = NoOne] ELSE w

----------------
(* WritableStream and TransformStream: "tw" is the writable side of a       *)
(* transform whose readable side is "tr".                                   *)

releaseWriter(w, t, c) == IF w.w[t].writer = c THEN [w EXCEPT !.w[t].writer = NoOne] ELSE w
CanWrite(t) == W.w[t].state = "writable"

closeInternal(w, t) ==
    IF w.w[t].state # "writable" THEN w
    ELSE LET closed == [w EXCEPT !.w[t].state = "closed"] IN
         IF t = "tw" THEN closeFromController(closed, "tr") ELSE closed
abort(w, t) ==
    LET errored == [w EXCEPT !.w[t].state = "errored"] IN
    IF t = "tw" THEN errorFromController(errored, "tr") ELSE errored

----------------
(* The source: controller calls, or a Readable's events (readableToWeb).   *)

Produce ==
    /\ web.top # "fromNode" /\ IsReadable(W, "src") /\ webSeen.sent < MaxChunks
    /\ W' = enqueueFromController(W, "src", webSeen.sent + 1)
    /\ webSeen' = [webSeen EXCEPT !.sent = @ + 1]
    /\ UNCHANGED <<web, pc>>
CloseSource ==
    /\ IsReadable(W, "src")
    /\ W' = closeFromController(W, "src")
    /\ UNCHANGED <<web, pc, webSeen>>
ErrorSource ==
    /\ IsReadable(W, "src") /\ "error" \in web.user
    /\ W' = errorFromController(W, "src")
    /\ UNCHANGED <<web, pc, webSeen>>

----------------
(* Consumers.  A pump reads again as soon as it has dealt with a chunk.     *)

ReadNext(w, c, o) ==
    \E p \in Pulls(From[c]) :
       /\ W' = readInternal(w, From[c], c, p)
       /\ webSeen' = Pulled(o, From[c], p)
       /\ pc' = [pc EXCEPT ![c] = "reading"]
       /\ UNCHANGED web
Stop(w, c, how, o) == W' = w /\ pc' = [pc EXCEPT ![c] = how] /\ webSeen' = o /\ UNCHANGED web

Start(c) == \* getReader(), pipeTo(), tee(), values(), Readable.fromWeb()
    /\ pc[c] = "new" /\ W.r[From[c]].reader = NoOne /\ (c \in {"L", "R"} => pc["tee"] # "new")
    /\ LET locked == getReader(W, From[c], c) IN
       ReadNext(IF c \in {"pipe1", "pipe2"} THEN [locked EXCEPT !.w[To(c)].writer = c] ELSE locked, c, webSeen)
Read(c) == c \in Users /\ pc[c] = "idle" /\ ReadNext(W, c, webSeen)

WebJob(c) == W.jobs # <<>> /\ Head(W.jobs).c = c
Res == Head(W.jobs).res
Popped == [W EXCEPT !.jobs = Tail(@)]
Got(c, v) == [webSeen EXCEPT !.got[c] = Append(@, v)]

UserResult(c) ==
    /\ c \in Users /\ WebJob(c)
    /\ CASE Res = Error -> Stop(Popped, c, "failed", webSeen)
         [] Res = Done -> Stop(Popped, c, "ended", webSeen)
         [] OTHER -> Stop(Popped, c, "idle", Got(c, Res))

(* pipeTo(): a rejected read or write rejects it, with both locks held.     *)
PipeDone(c) ==
    /\ c \in {"pipe1", "pipe2"} /\ WebJob(c) /\ Res = Done
    /\ LET released == releaseReader(Popped, From[c], c)
           told == [webSeen EXCEPT !.handed = IF To(c) = "dst" /\ CanWrite("dst") THEN Append(@, Done) ELSE @] IN
       IF W.w[To(c)].state = "errored" THEN Stop(released, c, "failed", webSeen)
       ELSE Stop(closeInternal(released, To(c)), c, "closing", told)
PipeError(c) == c \in {"pipe1", "pipe2"} /\ WebJob(c) /\ Res = Error /\ Stop(Popped, c, "failed", webSeen)

Enqueues(w, v) == enqueueFromController(w, "tr", v)
PipeWrite(c) == \* the writer's promise settles later, at once or not at all
    /\ c \in {"pipe1", "pipe2"} /\ WebJob(c) /\ Res > 0
    /\ IF ~CanWrite(To(c)) THEN Stop(Popped, c, "failed", webSeen)
       ELSE Stop(Popped, c, "writing",
                 [webSeen EXCEPT !.handed = IF To(c) = "dst" THEN Append(@, Res) ELSE @, !.flight[c] = Res])
SinkDone(c) ==
    /\ pc[c] = "writing" /\ To(c) = "dst"
    /\ ReadNext(W, c, [webSeen EXCEPT !.kept = Append(@, webSeen.flight[c])])
SinkFails(c) ==
    /\ pc[c] = "writing" /\ "fail" \in web.user
    /\ Stop(W, c, "failed", webSeen)
TransformDone == \* transform() enqueues what it was given; a closed readable side throws
    /\ pc["pipe1"] = "writing" /\ To("pipe1") = "tw"
    /\ IF ~IsReadable(W, "tr") THEN Stop(W, "pipe1", "failed", webSeen)
       ELSE ReadNext(Enqueues(W, webSeen.flight["pipe1"]), "pipe1", webSeen)
CloseDone(c) ==
    /\ pc[c] = "closing"
    /\ Stop(releaseWriter(W, To(c), c), c, "ended", webSeen)

(* tee(): nothing bounds the branches' queues; enqueue() on a branch that   *)
(* is closed throws, which ends the pump.                                   *)
TeeChunk(w, v) == enqueueFromController(enqueueFromController(w, "left", v), "right", v)
TeeResult ==
    /\ WebJob("tee")
    /\ CASE Res = Done ->
              Stop(releaseReader(closeFromController(closeFromController(Popped, "left"), "right"), "src", "tee"), "tee", "ended", webSeen)
         [] Res = Error ->
              Stop(errorFromController(errorFromController(Popped, "left"), "right"), "tee", "failed", webSeen)
         [] OTHER ->
              IF ~IsReadable(W, "left") THEN Stop(Popped, "tee", "failed", webSeen)
              ELSE IF ~IsReadable(W, "right") THEN Stop(enqueueFromController(Popped, "left", Res), "tee", "failed", webSeen)
              ELSE ReadNext(TeeChunk(Popped, Res), "tee", webSeen)

WebReadablePump == \* Readable.fromWeb(): push() into the Readable, destroy() on a rejection
    /\ WebJob("node")
    /\ CASE Res = Done -> Stop(releaseReader(Popped, "src", "node"), "node", "ended", webSeen)
         [] Res = Error -> Stop(Popped, "node", "failed", webSeen)
         [] OTHER -> ReadNext(Popped, "node", Got("node", Res))

----------------
(* A user cancels, leaves its loop, aborts the destination.                *)

Cancel(c) == \* reader.cancel(): the lock stays
    /\ c \in Users /\ pc[c] \in {"idle", "reading"} /\ "cancel" \in web.user
    /\ IsReadable(W, From[c]) \/ W.r[From[c]].queue # <<>>
    /\ W' = cancel(W, From[c])
    /\ webSeen' = [webSeen EXCEPT !.cancelled = @ \cup {From[c]}]
    /\ UNCHANGED <<web, pc>>
WebLeave(c) == \* ReadableStreamIterator.return(), with and without preventCancel
    /\ c \in Users /\ pc[c] = "idle" /\ "leave" \in web.user
    /\ LET released == releaseReader(W, From[c], c) IN
       \/ Stop(released, c, "new", webSeen)
       \/ Stop(cancel(released, From[c]), c, "ended", [webSeen EXCEPT !.cancelled = @ \cup {From[c]}])
Abort(t) ==
    /\ "abort" \in web.user /\ W.w[t].state = "writable" /\ \E c \in Active : To(c) = t /\ pc[c] # "new"
    /\ W' = abort(W, t)
    /\ UNCHANGED <<web, pc, webSeen>>

(* Writable.fromWeb(): a write does not wait for the previous one.         *)
NodeWrite ==
    /\ web.top = "fromNode" /\ CanWrite("dst") /\ webSeen.sent < MaxChunks
    /\ webSeen' = [webSeen EXCEPT !.sent = @ + 1, !.handed = Append(@, webSeen.sent + 1)]
    /\ UNCHANGED <<web, W, pc>>
NodeFinal ==
    /\ web.top = "fromNode" /\ CanWrite("dst")
    /\ W' = releaseWriter(closeInternal(W, "dst"), "dst", "node")
    /\ webSeen' = [webSeen EXCEPT !.handed = Append(@, Done)]
    /\ UNCHANGED <<web, pc>>

newReadable == [queue |-> <<>>, state |-> "readable", waiting |-> NoOne, reader |-> NoOne]
newWritable == [state |-> "writable", writer |-> IF web.top = "fromNode" THEN "node" ELSE NoOne]
WebInit ==
    /\ web \in WebModes
    /\ W = [r |-> [s \in Readables |-> newReadable], w |-> [t \in Writables |-> newWritable], jobs |-> <<>>]
    /\ pc = [c \in Consumers |-> IF c \in Active THEN "new" ELSE "none"]
    /\ webSeen = [sent |-> 0, got |-> [c \in Consumers |-> <<>>], handed |-> <<>>, kept |-> <<>>,
              flight |-> [c \in Consumers |-> 0], cancelled |-> {}]

Step(c) == Start(c) \/ UserResult(c) \/ PipeDone(c) \/ PipeError(c) \/ PipeWrite(c) \/ SinkDone(c) \/ CloseDone(c)
WebNext ==
    \/ Produce \/ CloseSource \/ ErrorSource \/ TransformDone \/ TeeResult \/ WebReadablePump
    \/ \E c \in Active : Step(c) \/ Read(c) \/ SinkFails(c) \/ Cancel(c) \/ WebLeave(c)
    \/ \E t \in Writables : Abort(t)
    \/ NodeWrite \/ NodeFinal

\* Microtasks and the sink's answers always come; users keep reading, and
\* nothing makes the source produce, close or fail.
WebFairness ==
    /\ \A c \in Consumers : WF_webVars(c \in Active /\ (Step(c) \/ Read(c)))
    /\ WF_webVars(TransformDone) /\ WF_webVars(TeeResult) /\ WF_webVars(WebReadablePump)

----------------
(* Properties.                                                             *)

Counted(n) == [i \in 1..n |-> i]
IsCounted(q) == q = Counted(Len(q))

\* A read waits only on an open stream with nothing queued, and every pending read
\* has its continuation: a stream never sits on chunks, or on its end, while
\* someone waits for them.
NoLostWakeup ==
    /\ \A s \in Readables : W.r[s].waiting # NoOne => W.r[s].queue = <<>> /\ IsReadable(W, s)
    /\ \A c \in Active : pc[c] = "reading" =>
         \/ W.r[From[c]].waiting = c
         \/ \E i \in DOMAIN W.jobs : W.jobs[i].c = c

\* Every chunk of the source is, in order and once, with its consumer, in flight
\* to it, or queued, in both branches of a tee too; only cancel() drops any.
Pending(c) == LET mine == SelectSeq(W.jobs, LAMBDA j: j.c = c /\ j.res > 0) IN [i \in DOMAIN mine |-> mine[i].res]
Holds(c) == CASE pc[c] = "writing" -> <<webSeen.flight[c]>> [] OTHER -> <<>>
Behind(c) == Pending(c) \o W.r[From[c]].queue
Delivered ==
    LET all(c) == webSeen.got[c] \o Behind(c) IN
    /\ web.top \in {"direct", "toNode"} /\ "src" \notin webSeen.cancelled =>
         \A c \in Active : all(c) = Counted(webSeen.sent)
    /\ web.top = "pipe" /\ pc["pipe1"] # "failed" =>
         webSeen.kept \o Holds("pipe1") \o Behind("pipe1") = Counted(webSeen.sent)
    /\ web.top = "through" /\ pc["pipe1"] # "failed" /\ pc["pipe2"] # "failed" =>
         webSeen.kept \o Holds("pipe2") \o Behind("pipe2") \o Holds("pipe1") \o Behind("pipe1") = Counted(webSeen.sent)
    /\ web.top = "tee" /\ webSeen.cancelled = {} =>
         \A c \in {"L", "R"} : all(c) \o Behind("tee") = Counted(webSeen.sent)
    /\ \A c \in Users : IsCounted(webSeen.got[c])

\* The sink is given the chunks in order, each once, and is closed last; what it
\* has kept is what it was given.
SinkSees ==
    /\ LET chunks == SelectSeq(webSeen.handed, LAMBDA v: v # Done) IN
       /\ IsCounted(chunks) /\ webSeen.handed \in {chunks, Append(chunks, Done)}
       /\ IsPrefix(webSeen.kept, chunks)
       /\ web.top \in {"pipe", "through"} /\ chunks # webSeen.handed => webSeen.kept = chunks

\* A pipe that has ended has given back both of its locks, and a destination is
\* closed by it only at the end of the source.
LocksReleased ==
    \A c \in {"pipe1", "pipe2", "tee", "node"} \cap Active : pc[c] = "ended" =>
       /\ W.r[From[c]].reader # c /\ \A t \in Writables : W.w[t].writer # c
       /\ From[c] = "src" => W.r["src"].state = "closed"

\* When the source closes and nothing fails, is cancelled or is aborted, every
\* consumer reaches the end: pipes close their destination, both branches of a tee
\* end, the Readable is ended.
EndReaches ==
    (W.r["src"].state = "closed" /\ web.user = {}) ~> (\A c \in Active : pc[c] = "ended")

\* No pending read sleeps over a chunk, chunks arrive in order and once, sinks see whole streams, locks are released.
WebStreamsSafe == NoLostWakeup /\ Delivered /\ SinkSees /\ LocksReleased
=============================================================================
