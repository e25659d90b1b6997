------------------------------ MODULE NodeStream ------------------------------
(***************************************************************************)
(* node:stream (src/runtime/node/stream.ts): Readable, Writable, Duplex    *)
(* and Transform, pipe()/pipeline(), finished(), the derived readables of  *)
(* map()/filter()/wrap() and the async iterator.                           *)
(*                                                                         *)
(* Every callback, event and listener of this code runs synchronously on   *)
(* one thread, so the interesting interleavings are re-entrant calls.      *)
(* `todo' is the call stack, as the sequence of calls still to be made:    *)
(* a step makes the first one, which replaces itself by the calls it makes *)
(* in turn.  A user callback or listener may itself call any operation of  *)
(* set.calls, up to MaxCalls calls in a behaviour.                         *)
(***************************************************************************)
EXTENDS Integers, Sequences, FiniteSets, SequencesExt, TLC

CONSTANTS
    Setups,    \* what a behaviour starts from: a record of
               \*   kind, hwm: per stream; pipeline: its arguments; edges: the derived streams;
               \*   from: per stream, the iterable of Readable.from(); first: the program's first calls;
               \*   iter: the stream iterated over; auto: autoDestroy; fails: may _write fail;
               \*   calls: what the user calls; react: the callbacks it calls `back' from
    MaxBytes,  \* bytes a user pushes or writes in a behaviour
    MaxCalls   \* calls the user makes in a behaviour

VARIABLES
    set,    \* the setup of this behaviour
    st,     \* per stream: the fields of Readable and of Writable, and its history
    todo,   \* the calls still to be made, first one first
    micro,  \* queueMicrotask: streams whose 'end' job is queued
    calls,  \* user calls made so far
    byte    \* bytes produced so far

vars == <<set, st, todo, micro, calls, byte>>

Ids == DOMAIN st
Kind(s) == set.kind[s]
IsReadable(s) == Kind(s) # "Writable"
IsWritable(s) == Kind(s) # "Readable"
Null == <<>>          \* push(null), end() without a chunk
Undef == <<0>>        \* an element read past the end of an array
Hwm(s) == set.hwm[s]

Call(op, s, x) == <<[op |-> op, s |-> s, x |-> x]>>
Calls(f(_), q) == [i \in DOMAIN q |-> f(q[i])]
Top(op) == todo # <<>> /\ Head(todo).op = op
S == Head(todo).s
X == Head(todo).x
R == st[S]

(* One step: stream S becomes r and the call in progress makes the calls q. *)
Do(r, q) == /\ st' = [st EXCEPT ![S] = r]
            /\ todo' = q \o Tail(todo)
            /\ UNCHANGED <<set, micro, calls, byte>>

User(s, why) == Call("user", s, why)
Emit(s, ev, x) == Call("emit", s, [ev |-> ev, x |-> x])

ReadableFields ==
    [paused |-> TRUE, flowing |-> "null", pending |-> <<>>, plen |-> 0, endPending |-> FALSE,
     endEmitted |-> FALSE, endScheduled |-> FALSE, edges |-> <<>>, destroyed |-> FALSE, errored |-> FALSE]
WritableFields ==
    [corked |-> 0, queue |-> <<>>, len |-> 0, needDrain |-> FALSE, inFlight |-> 0, ended |-> FALSE,
     finished |-> FALSE, finalPending |-> FALSE, waiting |-> <<>>, drains |-> <<>>]
(* Callbacks the user holds, and what has been observed. *)
Observed ==
    [held |-> <<>>, finalHeld |-> FALSE, fin |-> "off", iter |-> "off", pushed |-> <<>>, out |-> <<>>,
     coll |-> "off", got |-> <<>>, accepted |-> <<>>, taken |-> <<>>, log |-> <<>>, called |-> <<>>, nEnd |-> 0, flushed |-> FALSE,
     late |-> {}, forgot |-> FALSE, recorked |-> FALSE, redestroyed |-> FALSE]

streamChunkLength(c) == Len(c)
AtLeast0(n) == IF n < 0 THEN 0 ELSE n
Total(q) == FoldLeft(LAMBDA n, c: n + streamChunkLength(c), 0, q)

----------------
(* Readable.                                                               *)

errorOrDestroy(s) == Call("errorOrDestroy", s, TRUE)
ErrorOrDestroy ==
    /\ Top("errorOrDestroy")
    /\ IF R.destroyed THEN Do(R, <<>>)
       ELSE IF set.auto THEN Do(R, Call("destroy", S, TRUE))
       ELSE Do([R EXCEPT !.errored = TRUE], Emit(S, "error", TRUE))

Push ==
    /\ Top("push")
    /\ IF R.destroyed THEN Do(R, <<>>)
       ELSE IF R.endPending THEN Do(R, IF X = Null THEN <<>> ELSE errorOrDestroy(S))
       ELSE IF X = Null
       THEN Do([R EXCEPT !.endPending = TRUE], Emit(S, "readable", Null) \o Call("pushedEnd", S, Null))
       ELSE Do([R EXCEPT !.pending = Append(@, X), !.plen = @ + streamChunkLength(X), !.pushed = @ \o X],
               Emit(S, "readable", Null) \o Call("pushed", S, Null))

Pushed == Top("pushed") /\ Do(R, IF R.paused THEN <<>> ELSE Call("drainFlowing", S, Null))
PushedEnd == Top("pushedEnd") /\ Do(R, IF R.paused THEN <<>> ELSE Call("maybeEmitEnd", S, Null))

DrainFlowing ==
    /\ Top("drainFlowing")
    /\ IF R.paused \/ R.pending = <<>> THEN Do(R, Call("maybeEmitEnd", S, Null))
       ELSE LET c == Head(R.pending) IN
            Do([R EXCEPT !.pending = Tail(@), !.plen = AtLeast0(@ - streamChunkLength(c)), !.out = Append(@, c)],
               Emit(S, "data", c) \o Call("drainFlowing", S, Null))

EndDue(r) == r.endPending /\ r.pending = <<>> /\ ~r.endEmitted /\ ~r.endScheduled
MaybeEmitEnd ==
    /\ Top("maybeEmitEnd")
    /\ IF ~EndDue(R) THEN Do(R, <<>>)
       ELSE /\ st' = [st EXCEPT ![S].endScheduled = TRUE]
            /\ micro' = Append(micro, S)
            /\ todo' = Tail(todo)
            /\ UNCHANGED <<set, calls, byte>>

(* The queued job: what it reads may have changed since it was queued. *)
EndJobRunsFault(r) == ~r.endEmitted
EndJobRuns(r) == ~r.endEmitted /\ ~r.destroyed /\ ~r.errored /\ r.pending = <<>>
EndJob ==
    /\ todo = <<>> /\ micro # <<>>
    /\ LET s == Head(micro) r == st[s] IN
       /\ micro' = Tail(micro)
       /\ IF EndJobRuns(r)
          THEN /\ st' = [st EXCEPT ![s] = [r EXCEPT !.endScheduled = FALSE, !.endEmitted = TRUE]]
               /\ todo' = Emit(s, "end", Null) \o Call("ended", s, Null)
          ELSE st' = [st EXCEPT ![s].endScheduled = FALSE] /\ todo' = <<>>
    /\ UNCHANGED <<set, calls, byte>>
Ended == Top("ended") /\ Do(R, IF set.auto /\ (Kind(S) = "Readable" \/ R.finished)
                               THEN Call("destroy", S, FALSE) ELSE <<>>)

Pause == Top("pause") /\ Do([R EXCEPT !.paused = TRUE, !.flowing = "no"], <<>>)
Resume == Top("resume") /\ IF R.destroyed THEN Do(R, <<>>)
                           ELSE Do([R EXCEPT !.paused = FALSE, !.flowing = "yes"], Call("drainFlowing", S, Null))

(* read(size): X is the size asked for; the iterator's read() asks for 0. *)
Read ==
    /\ Top("read")
    /\ IF R.pending = <<>>
       THEN Do([R EXCEPT !.iter = IF @ = "reading" THEN (IF R.endEmitted \/ R.destroyed THEN "done" ELSE "waiting") ELSE @],
               Call("maybeEmitEnd", S, Null))
       ELSE LET first == Head(R.pending)
                split == X > 0 /\ X < Len(first)
                c == IF split THEN SubSeq(first, 1, X) ELSE first
                rest == IF split THEN <<SubSeq(first, X + 1, Len(first))>> \o Tail(R.pending) ELSE Tail(R.pending) IN
            Do([R EXCEPT !.pending = rest, !.plen = AtLeast0(@ - streamChunkLength(c)), !.out = Append(@, c),
                         !.iter = IF @ = "reading" THEN "idle" ELSE @],
               Emit(S, "data", c) \o Call("maybeEmitEnd", S, Null))

Unshift ==
    /\ Top("unshift")
    /\ IF R.destroyed THEN Do(R, <<>>)
       ELSE Do([R EXCEPT !.pending = <<X>> \o @, !.plen = @ + streamChunkLength(X)], <<>>)

(* pipe() and the listeners map(), filter() and wrap() install: an edge    *)
(* [to, how, n: values seen by the closure].  Installing a 'data' listener resumes a stream that was      *)
(* never paused explicitly (newListenerAdded).                             *)
Pipe ==
    /\ Top("pipe")
    /\ Do([R EXCEPT !.edges = Append(@, X)],
          IF R.flowing = "no" THEN <<>> ELSE Call("resume", S, Null))

Unpipe ==
    /\ Top("unpipe")
    /\ Do([R EXCEPT !.edges = SelectSeq(@, LAMBDA e: e.how # "pipe")], <<>>)

(* 'data' listeners: pipe's onData writes; map() and filter() push on. *)
OnDataPipe ==
    /\ Top("onData") /\ X.edge.how = "pipe"
    /\ Do(R, Call("write", X.edge.to, [c |-> X.c, by |-> S]))
OnDataMap ==
    /\ Top("onData") /\ X.edge.how = "map"
    /\ Do(R, Call("push", X.edge.to, X.c))
OnDataFilter ==
    /\ Top("onData") /\ X.edge.how = "filter"
    /\ \E keep \in BOOLEAN : Do(R, IF keep THEN Call("push", X.edge.to, X.c) ELSE <<>>)

(* flatMap() (into single bytes), and the closures that count: drop(1),     *)
(* take(1) and asIndexedPairs(), whose pairs are <<index, value>>.         *)
OnDataFlat ==
    /\ Top("onData") /\ X.edge.how = "flat"
    /\ Do(R, [i \in DOMAIN X.c |-> Call("push", X.edge.to, <<X.c[i]>>)[1]])
IndexMark == 10
Counted(how, seen, c) ==
    CASE how = "drop" -> IF seen > 1 THEN c ELSE <<>>
      [] how = "take" -> IF seen <= 1 THEN c ELSE <<>>
      [] how = "pairs" -> <<IndexMark + seen - 1>> \o c
OnDataCounted ==
    /\ Top("onData") /\ X.edge.how \in {"drop", "take", "pairs"}
    /\ LET i == CHOOSE i \in DOMAIN R.edges : R.edges[i].to = X.edge.to
           seen == R.edges[i].n + 1
           c == Counted(X.edge.how, seen, X.c) IN
       Do([R EXCEPT !.edges[i].n = seen], IF c = <<>> THEN <<>> ELSE Call("push", X.edge.to, c))

(* toArray(): its 'data' listener may drain the stream before it looks      *)
(* whether the stream has ended.                                           *)
ToArray ==
    /\ Top("toArray")
    /\ Do([R EXCEPT !.coll = "waiting"],
          (IF R.flowing = "no" THEN <<>> ELSE Call("resume", S, Null)) \o Call("collect", S, Null))
Collect ==
    /\ Top("collect")
    /\ IF R.endEmitted THEN Do([R EXCEPT !.coll = IF @ = "waiting" THEN "resolved" ELSE @], <<>>)
       ELSE Do(R, Call("resume", S, Null))
CollAfter(r, ev) ==
    IF r.coll # "waiting" THEN r.coll
    ELSE IF ev = "end" THEN "resolved" ELSE IF ev = "error" THEN "rejected" ELSE "waiting"
(* What the other helpers compute from the array: a test is the set of the   *)
(* values it accepts, the function of reduce() is concatenation.           *)
every(values, test) == \A i \in DOMAIN values : values[i] \in test
some(values, test) == \E i \in DOMAIN values : values[i] \in test
find(values, test) ==
    IF some(values, test)
    THEN values[CHOOSE i \in DOMAIN values : values[i] \in test /\ \A j \in 1..(i - 1) : values[j] \notin test] ELSE Null
\* an initial value that is not given is the first value, which the function is then not called with
reduce(values, initial) ==
    IF initial = Null /\ values # <<>> THEN FoldLeft(\o, Head(values), Tail(values)) ELSE FoldLeft(\o, initial, values)

OnEnd(e) == IF e.how = "pipe" THEN Call("end", e.to, [c |-> Null, by |-> "pipe"]) ELSE Call("push", e.to, Null)

----------------
(* Writable, and the copy of it in Duplex.                                 *)

Refused(r) == r.ended \/ r.destroyed
Write ==
    /\ Top("write")
    /\ LET back == Call("wrote", S, X.by) IN
       IF Refused(R)
       THEN Do(R, User(S, "write") \o errorOrDestroy(S) \o
                  (IF X.by \in Ids THEN Call("refuse", S, X.by) ELSE <<>>))
       ELSE IF R.corked > 0
       THEN Do([R EXCEPT !.queue = Append(@, X.c), !.len = @ + streamChunkLength(X.c), !.accepted = @ \o X.c], back)
       ELSE Do([R EXCEPT !.accepted = @ \o X.c], Call("performWrite", S, X.c) \o back)

Accepts(r, s) == r.len < Hwm(s)
(* write() returns: whether the caller may go on, and pipe's reaction. *)
Wrote ==
    /\ Top("wrote")
    /\ IF Accepts(R, S) THEN Do(R, <<>>)
       ELSE Do([R EXCEPT !.needDrain = TRUE], IF X \in Ids THEN Call("refuse", S, X) ELSE <<>>)
Refuse == /\ Top("refuse")
          /\ Do(R, Call("pause", X, Null) \o Call("onceDrain", S, X))
OnceDrain == Top("onceDrain") /\ Do([R EXCEPT !.drains = Append(@, X)], <<>>)

PerformWrite ==
    /\ Top("performWrite")
    /\ Do([R EXCEPT !.len = @ + streamChunkLength(X), !.inFlight = @ + 1, !.taken = @ \o X],
          Call("_write", S, X))

(* The user's _write or _transform (external): calls back now or later.     *)
(* A Transform pushes what it is given before it calls back.               *)
WriteBack(s, c, err) ==
    (IF Kind(s) = "Transform" /\ ~err THEN Call("push", s, c) ELSE <<>>) \o
    Call("written", s, [c |-> c, err |-> err])
(* One of a duplexPair(): what is written is pushed by the other. *)
attachPeer(s) == CHOOSE p \in Ids : p # s
PairWrite ==
    /\ Top("_write") /\ Kind(S) = "Pair"
    /\ Do(R, Call("push", attachPeer(S), X) \o Call("written", S, [c |-> X, err |-> FALSE]))
UserWrite ==
    /\ Top("_write") /\ Kind(S) # "Pair"
    /\ \/ \E err \in set.fails : Do(R, WriteBack(S, X, err))
       \/ Do([R EXCEPT !.held = Append(@, X)], <<>>)
UserWriteLater(s) ==
    /\ todo = <<>>
    /\ \E i \in DOMAIN st[s].held, err \in set.fails :
         /\ st' = [st EXCEPT ![s].held = RemoveAt(@, i)]
         /\ todo' = WriteBack(s, st[s].held[i], err)
    /\ UNCHANGED <<set, micro, calls, byte>>

Written ==
    /\ Top("written")
    /\ LET r == [R EXCEPT !.inFlight = @ - 1, !.len = AtLeast0(@ - streamChunkLength(X.c)),
                         !.forgot = @ /\ (R.inFlight > 1 \/ R.queue # <<>>)] IN
       Do(r, User(S, "write") \o
             (IF X.err THEN errorOrDestroy(S) ELSE Call("drained", S, Null) \o Call("finalDue", S, Null)))

DrainDueFault(r, s) == r.needDrain /\ r.len < Hwm(s) - 1
DrainDue(r, s) == r.needDrain /\ r.len < Hwm(s)
Drained ==
    /\ Top("drained")
    /\ IF DrainDue(R, S) THEN Do([R EXCEPT !.needDrain = FALSE], Emit(S, "drain", Null)) ELSE Do(R, <<>>)

FinalReady(r) == r.finalPending /\ r.inFlight = 0
FinalDue ==
    /\ Top("finalDue")
    /\ Do(R, IF FinalReady(R) THEN Call("callFinal", S, Null) ELSE <<>>)

\* The uncork() of a Duplex is still to empty its queue.
Flushing(s) == \E i \in DOMAIN todo : todo[i].op = "emptyQueue" /\ todo[i].s = s
Cork == Top("cork") /\ Do([R EXCEPT !.corked = @ + 1, !.recorked = @ \/ Flushing(S)], <<>>)

(* uncork(): Writable detaches its queue first; Duplex reads its queue     *)
(* while it writes and empties it afterwards.                              *)
Detaches(s) == Kind(s) = "Writable"
Uncorked(r) == [r EXCEPT !.corked = 0, !.len = 0, !.forgot = @ \/ r.inFlight > 0]
Uncork ==
    /\ Top("uncork")
    /\ IF R.corked = 0 THEN Do(R, <<>>)
       ELSE IF R.corked > 1 THEN Do([R EXCEPT !.corked = @ - 1], <<>>)
       ELSE IF Detaches(S)
       THEN Do([Uncorked(R) EXCEPT !.queue = <<>>],
               Calls(LAMBDA c: Call("performWrite", S, c)[1], R.queue))
       ELSE Do(Uncorked(R),
               [i \in DOMAIN R.queue |-> Call("flushAt", S, i)[1]] \o Call("emptyQueue", S, Null))
FlushAt == Top("flushAt") /\ Do(R, Call("performWrite", S, IF X \in DOMAIN R.queue THEN R.queue[X] ELSE Undef))
EmptyQueue == Top("emptyQueue") /\ Do([R EXCEPT !.queue = <<>>], <<>>)

(* end(): an optional chunk, every cork undone, then the end itself.       *)
(* X.by is "user" when the call passes a callback.                         *)
End ==
    /\ Top("end")
    /\ LET rejected == X.c # Null /\ Refused(R)
           id == R.nEnd + 1 IN
       Do(IF X.by = "user" THEN [R EXCEPT !.nEnd = id] ELSE R,
          (IF rejected THEN errorOrDestroy(S)
           ELSE IF X.c # Null THEN Call("write", S, [c |-> X.c, by |-> "end"]) ELSE <<>>)
          \o Call("uncorkAll", S, Null)
          \o Call(IF rejected THEN "settle" ELSE "ending", S,
                  IF rejected THEN (IF X.by = "user" THEN <<id>> ELSE <<>>)
                  ELSE IF X.by = "user" THEN id ELSE 0))
UncorkAll == Top("uncorkAll") /\ Do(R, IF R.corked > 0 THEN Call("uncork", S, Null) \o Call("uncorkAll", S, Null) ELSE <<>>)

\* destroy() is calling the callbacks of end().
Settling(s) == \E i \in DOMAIN todo : todo[i].op = "destroy2" /\ todo[i].s = s
FinalWaits(r) == r.inFlight > 0
Ending ==
    /\ Top("ending")
    /\ LET done == IF X = 0 THEN <<>> ELSE <<X>>
           await == [R EXCEPT !.waiting = @ \o done,
                              !.late = IF R.destroyed \/ Settling(S) THEN @ \cup Range(done) ELSE @] IN
       IF ~R.errored /\ ~R.ended
       THEN LET r == [await EXCEPT !.ended = TRUE] IN
            IF R.destroyed THEN Do(r, <<>>)
            ELSE IF FinalWaits(R) THEN Do([r EXCEPT !.finalPending = TRUE], <<>>)
            ELSE Do(r, Call("callFinal", S, Null))
       ELSE IF R.finished \/ R.destroyed \/ R.errored THEN Do(R, Call("settle", S, done))
       ELSE Do(await, <<>>)

(* The callbacks X of end() run. *)
Settle == Top("settle") /\ Do([R EXCEPT !.called = @ \o X], Calls(LAMBDA id: User(S, "end")[1], X))

CallFinal ==
    /\ Top("callFinal")
    /\ Do([R EXCEPT !.finalPending = FALSE], IF R.destroyed THEN <<>> ELSE Call("_final", S, Null))

(* The user's _final, or a Transform's flush, which ends the readable side. *)
FinalBack(s, err) ==
    (IF Kind(s) = "Transform" /\ ~err THEN Call("push", s, Null) ELSE <<>>) \o Call("finalled", s, err)
UserFinal ==
    /\ Top("_final")
    /\ \/ \E err \in set.fails : Do([R EXCEPT !.flushed = TRUE], FinalBack(S, err))
       \/ Do([R EXCEPT !.finalHeld = TRUE, !.flushed = TRUE], <<>>)
UserFinalLater(s) ==
    /\ todo = <<>> /\ st[s].finalHeld
    /\ \E err \in set.fails : todo' = FinalBack(s, err)
    /\ st' = [st EXCEPT ![s].finalHeld = FALSE]
    /\ UNCHANGED <<set, micro, calls, byte>>

settleFinish(r) == [r EXCEPT !.waiting = <<>>]
Finalled ==
    /\ Top("finalled")
    /\ IF X THEN Do(settleFinish(R), Call("settle", S, R.waiting) \o errorOrDestroy(S))
       ELSE Do(settleFinish([R EXCEPT !.finished = TRUE]),
               Call("settle", S, R.waiting) \o Emit(S, "finish", Null) \o Call("finishedAll", S, Null))
FinishedAll ==
    /\ Top("finishedAll")
    /\ Do(R, IF set.auto /\ (Kind(S) = "Writable" \/ R.endEmitted) THEN Call("destroy", S, FALSE) ELSE <<>>)

----------------
(* destroy(), events, finished() and the user.                             *)

AlreadyDestroyed(r) == r.destroyed
Destroy ==
    /\ Top("destroy")
    /\ IF AlreadyDestroyed(R) THEN Do(R, <<>>)
       ELSE Do([settleFinish(R) EXCEPT !.redestroyed = @ \/ Settling(S)],
               Call("settle", S, R.waiting) \o Call("destroy2", S, X))
(* Past the end callbacks.  Readable.destroy looks at `destroyed' again;   *)
(* Writable.destroy does not.                                              *)
Destroy2 ==
    /\ Top("destroy2")
    /\ IF Kind(S) # "Writable" /\ AlreadyDestroyed(R) THEN Do(R, <<>>)
       ELSE Do([R EXCEPT !.destroyed = TRUE, !.errored = X],
               (IF X THEN Emit(S, "error", X) ELSE <<>>) \o Emit(S, "close", Null))

(* finished(): `done' runs its callback once. *)
Done(r, s, ev, x) ==
    LET result == CASE ev = "end" -> IF ~IsWritable(s) \/ r.finished \/ r.ended THEN "ok" ELSE "wait"
                    [] ev = "finish" -> IF ~IsReadable(s) \/ r.endEmitted THEN "ok" ELSE "wait"
                    [] ev = "close" -> IF r.errored THEN "err" ELSE "ok"
                    [] ev = "error" -> "err"
                    [] OTHER -> "wait" IN
    IF r.fin = "wait" THEN result ELSE r.fin

(* The iterator waiting in next(): once('readable'), once('end'), once('error'). *)
IterAfter(r, ev) ==
    IF r.iter \notin {"waiting", "deaf"} THEN r.iter
    ELSE CASE ev = "readable" -> IF r.iter = "waiting" THEN "reread" ELSE r.iter
           [] ev = "end" -> "done"
           [] ev = "error" -> "failed"
           [] OTHER -> r.iter

Listeners(s, r, ev, x) ==
    CASE ev = "data" -> Calls(LAMBDA e: Call("onData", s, [edge |-> e, c |-> x])[1], r.edges)
      [] ev = "end" -> FlattenSeq(Calls(OnEnd, r.edges))
      [] ev = "error" -> FlattenSeq(Calls(LAMBDA e: IF e.how = "pipe" THEN <<>> ELSE Call("destroy", e.to, TRUE), r.edges))
      [] ev = "drain" -> Calls(LAMBDA src: Call("resume", src, Null)[1], r.drains)
      [] ev = "readable" -> IF r.iter = "waiting" THEN Call("onReadable", s, Null) ELSE <<>>
      [] OTHER -> <<>>

Recorded == {"end", "finish", "error", "close"}
EmitEvent ==
    /\ Top("emit")
    /\ LET ev == X.ev IN
       Do([R EXCEPT !.log = IF ev \in Recorded THEN Append(@, ev) ELSE @,
                    !.fin = Done(R, S, ev, X.x), !.iter = IterAfter(R, ev), !.coll = CollAfter(R, ev),
                    !.got = IF ev = "data" /\ R.coll # "off" THEN Append(@, X.x) ELSE @,
                    !.drains = IF ev = "drain" THEN <<>> ELSE @],
          Listeners(S, R, ev, X.x) \o User(S, ev))

(* onReadable: a null read leaves next() without its 'readable' listener. *)
OnReadable ==
    /\ Top("onReadable")
    /\ IF R.pending = <<>> THEN Do([R EXCEPT !.iter = IF @ = "reread" THEN "deaf" ELSE @], Call("read", S, 0))
       ELSE Do([R EXCEPT !.iter = IF @ = "reread" THEN "reading" ELSE @], Call("read", S, 0))

Next_(s) == \* the async iterator's next()
    /\ todo = <<>> /\ st[s].iter = "idle"
    /\ st' = [st EXCEPT ![s].iter = "reading"]
    /\ todo' = Call("read", s, 0)
    /\ UNCHANGED <<set, micro, calls, byte>>

IterReturn(s) == \* its return(): the loop over the stream is left
    /\ todo = <<>> /\ st[s].iter = "idle" /\ "return" \in set.calls
    /\ st' = [st EXCEPT ![s].iter = "done"]
    /\ todo' = Call("destroy", s, FALSE)
    /\ UNCHANGED <<set, micro, calls, byte>>

(* addAbortSignal(): the signal's abort. *)
Abort == Top("abort") /\ Do(R, Call("destroy", S, TRUE))

(* What the user may call, at the top level or from a callback. *)
Chunk(n) == [i \in 1..n |-> byte + i]
Sources == {x \in Ids : Kind(x) = "Readable" /\ "push" \in set.calls /\ \A i \in DOMAIN set.edges : set.edges[i].to # x}
UserCalls ==
    {Call("push", s, Chunk(n)) : s \in Sources, n \in {1, 2}} \cup {Call("push", s, Null) : s \in Sources}
    \cup {Call("write", s, [c |-> Chunk(1), by |-> "user"]) : s \in {x \in Ids : IsWritable(x) /\ "write" \in set.calls}}
    \cup {Call("end", s, [c |-> Null, by |-> "user"]) : s \in {x \in Ids : IsWritable(x) /\ "end" \in set.calls}}
    \cup {Call("end", s, [c |-> Chunk(1), by |-> "user"]) : s \in {x \in Ids : IsWritable(x) /\ "end" \in set.calls}}
    \cup {Call(op, s, Null) : op \in set.calls \cap {"cork", "uncork"}, s \in {x \in Ids : IsWritable(x)}}
    \cup {Call("abort", s, Null) : s \in {x \in Ids : "abort" \in set.calls}}
    \cup {Call("toArray", s, Null) : s \in {x \in Ids : Kind(x) = "Readable" /\ st[x].coll = "off" /\ st[x].edges = <<>> /\ "toArray" \in set.calls}}
    \cup {Call(op, s, Null) : op \in set.calls \cap {"pause", "resume", "unpipe"}, s \in {x \in Ids : Kind(x) = "Readable"}}
    \cup {Call("read", s, 1) : s \in {x \in Ids : Kind(x) = "Readable" /\ "read" \in set.calls}}
    \cup {Call("unshift", s, Chunk(1)) : s \in {x \in Ids : Kind(x) = "Readable" /\ ~st[x].endEmitted /\ "unshift" \in set.calls}}
    \cup {Call("destroy", s, err) : s \in {x \in Ids : "destroy" \in set.calls}, err \in BOOLEAN}

Bytes(call) == CASE call.op = "write" -> Len(call.x.c)
                 [] call.op = "end" -> Len(call.x.c)
                 [] call.op \in {"push", "unshift"} -> Len(call.x)
                 [] OTHER -> 0
UserCall(rest, ops) ==
    \E call \in UserCalls :
       /\ call[1].op \in ops
       /\ calls < MaxCalls /\ byte + Bytes(call[1]) <= MaxBytes
       /\ calls' = calls + 1 /\ byte' = byte + Bytes(call[1])
       /\ todo' = call \o rest
       /\ UNCHANGED <<set, st, micro>>
React == Top("user") /\ X \in set.react /\ UserCall(Tail(todo), set.back)
NoReact == Top("user") /\ Do(R, <<>>)
TopCall == todo = <<>> /\ UserCall(<<>>, set.calls)

----------------
(* pipeline(): ten positional arguments, the last given one perhaps the    *)
(* callback; it installs the last pipe first.  pipelinePromise() supplies  *)
(* its own callback.                                                       *)
PipelineValues(args) == SelectSeq(args, LAMBDA a: a # "undefined")
HasCallback(args) == args # <<>> /\ Last(PipelineValues(args)) = "callback"
PipelineStreams(args) == IF HasCallback(args) THEN Front(PipelineValues(args)) ELSE PipelineValues(args)
pipelineArray(streams) ==
    Reverse([i \in 1..(Len(streams) - 1) |-> Call("pipe", streams[i], [to |-> streams[i + 1], how |-> "pipe", n |-> 0])[1]])
LastOf(x) == IF HasCallback(x.pipeline) \/ x.promise THEN Last(PipelineStreams(x.pipeline)) ELSE "none"
from(s, values) == [i \in DOMAIN values |-> Call("push", s, values[i])[1]] \o Call("push", s, Null)

Init ==
    /\ set \in Setups
    /\ st = [s \in DOMAIN set.kind |->
               [(ReadableFields @@ WritableFields @@ Observed) EXCEPT !.fin = IF s = LastOf(set) THEN "wait" ELSE "off",
                                !.iter = IF s = set.iter THEN "idle" ELSE "off"]]
    /\ todo = set.first \o (IF set.from = <<>> THEN <<>> ELSE from("r", set.from))
              \o pipelineArray(PipelineStreams(set.pipeline))
              \o Calls(LAMBDA e: Call("pipe", e.from, [to |-> e.to, how |-> e.how, n |-> 0])[1], set.edges)
    /\ micro = <<>> /\ calls = 0 /\ byte = 0

Internal ==
    \/ ErrorOrDestroy \/ Push \/ Pushed \/ PushedEnd \/ DrainFlowing \/ MaybeEmitEnd \/ EndJob \/ Ended
    \/ Pause \/ Resume \/ Read \/ Unshift \/ Pipe \/ Unpipe \/ OnDataPipe \/ OnDataMap \/ OnDataFilter
    \/ OnDataFlat \/ OnDataCounted \/ ToArray \/ Collect \/ PairWrite \/ Abort
    \/ Write \/ Wrote \/ Refuse \/ OnceDrain \/ PerformWrite \/ UserWrite \/ Written \/ Drained \/ FinalDue
    \/ Cork \/ Uncork \/ FlushAt \/ EmptyQueue \/ End \/ UncorkAll \/ Ending \/ Settle
    \/ CallFinal \/ UserFinal \/ Finalled \/ FinishedAll
    \/ Destroy \/ Destroy2 \/ EmitEvent \/ OnReadable \/ NoReact
Later(s) == UserWriteLater(s) \/ UserFinalLater(s)
Next ==
    \/ Internal \/ React \/ TopCall
    \/ \E s \in Ids : Later(s)
    \/ \E s \in Ids : Next_(s) \/ IterReturn(s)
Fairness == WF_vars(Internal) /\ \A s \in {"r", "t", "w"} : WF_vars(s \in Ids /\ Later(s)) /\ WF_vars(s \in Ids /\ Next_(s))
Spec == Init /\ [][Next]_vars /\ Fairness
----------------
(* Properties.                                                             *)

Piped == {"r", "w"} \subseteq Ids
Quiet == todo = <<>> /\ micro = <<>>
Count(q, x) == Cardinality({i \in DOMAIN q : q[i] = x})
Undisturbed == set.fails = {FALSE} /\ set.calls \subseteq {"push", "read"}

TypeOK ==
    /\ calls \in 0..MaxCalls /\ byte \in 0..MaxBytes
    /\ \A s \in Ids : st[s].len \in Nat /\ st[s].inFlight \in Nat /\ st[s].corked \in Nat

\* readableLength is the bytes waiting, through nested pushes, reads and unshifts.
PendingLengthExact == \A s \in Ids : st[s].plen = Total(st[s].pending)

\* 'end' comes once, and only when every byte pushed has been handed to a 'data'
\* listener or a read, in order: the job that emits it was queued earlier.
EndAfterAllData ==
    \A s \in Ids : /\ Count(st[s].log, "end") <= 1
                   /\ "unshift" \notin set.calls /\ st[s].endEmitted => FlattenSeq(st[s].out) = st[s].pushed
                   /\ st[s].endEmitted => st[s].pending = <<>>

\* _final (and with it 'finish') waits for every write that was accepted.
FinalIsLast == \A s \in Ids : st[s].flushed => st[s].inFlight = 0 /\ st[s].held = <<>>

\* Every callback given to end() is called once, and none is left waiting by a
\* stream that finished or was destroyed, but for two: the first end() of a stream
\* already destroyed without an error keeps its callback (stream.ts 1080-1084), and
\* so does an end() from a callback that destroy() is calling (1137).
EndCallbackOnce ==
    \A s \in Ids : /\ IsInjective(st[s].called)
                   /\ Range(st[s].called) \cap Range(st[s].waiting) = {}
                   /\ Count(st[s].log, "finish") <= 1
                   /\ todo = <<>> => /\ Range(st[s].called) \cup Range(st[s].waiting) = 1..st[s].nEnd
                                     /\ st[s].finished \/ st[s].destroyed => Range(st[s].waiting) \subseteq st[s].late

\* A stream that finished, was destroyed or ended is closed once, but for a
\* Writable destroyed again by a callback of end() that destroy() is calling:
\* `destroyed' is set after those (stream.ts 1137-1138).
CloseOnce ==
    \A s \in Ids : Count(st[s].log, "close") <= 1 \/ (Kind(s) = "Writable" /\ st[s].redestroyed)

\* What a pipeline's sink finished with is exactly what the source pushed:
\* nothing lost or written twice over pauses, drains and late callbacks.
PipelineDelivers ==
    \A s \in Ids : /\ Undisturbed /\ set.pipeline # <<>> /\ st[s].finished /\ IsWritable(s)
                   => /\ IsInjective(st[s].taken)
                      /\ Range(st[s].taken) = Range(st["r"].pushed)

\* A derived stream that ended delivered what its helper makes of what its source delivered, in order; the
\* array of toArray() holds every chunk that came after the call, and the helpers on it answer for those.
Derived(how, q) ==
    CASE how = "map" -> q
      [] how = "flat" -> [i \in DOMAIN FlattenSeq(q) |-> <<FlattenSeq(q)[i]>>]
      [] how = "drop" -> SubSeq(q, 2, Len(q))
      [] how = "take" -> SubSeq(q, 1, IF q = <<>> THEN 0 ELSE 1)
      [] how = "pairs" -> [i \in DOMAIN q |-> <<IndexMark + i - 1>> \o q[i]]
DerivedExact ==
    \A s \in Ids : \A i \in DOMAIN st[s].edges :
        LET e == st[s].edges[i] IN
        e.how \notin {"pipe", "filter"} /\ st[e.to].endEmitted => st[e.to].out = Derived(e.how, st[s].out)
CollectorExact ==
    \A s \in Ids : st[s].coll = "resolved" =>
        LET q == st[s].got IN
        /\ IsSuffix(q, st[s].out)
        /\ "read" \notin set.calls => q = st[s].out /\ FlattenSeq(q) = st[s].pushed
        /\ reduce(q, Null) = FlattenSeq(q) /\ reduce(q, <<0>>) = <<0>> \o FlattenSeq(q)
        /\ LET short == {c \in ToSet(q) : Len(c) = 1} IN find(q, short) = Null <=> every(q, ToSet(q) \ short)

\* What one of a duplexPair() was given is pushed by the other, in order.
PairCarries ==
    \A s \in Ids : Kind(s) = "Pair" /\ todo = <<>> /\ ~st[attachPeer(s)].destroyed => st[attachPeer(s)].pushed = st[s].taken

\* A closed stream is neither readable nor writable, one that says it failed has said so by an event.
isErrored(r) == r.errored
isReadable(r) == ~r.endEmitted /\ ~r.destroyed
isWritable(r) == ~r.ended /\ ~r.destroyed
StatusTells ==
    todo = <<>> => \A s \in Ids : /\ isErrored(st[s]) => Count(st[s].log, "error") > 0
                                  /\ Count(st[s].log, "close") > 0 => ~isReadable(st[s]) /\ ~isWritable(st[s])

\* Backpressure: a piped sink never holds more than one chunk over its mark.
SinkBounded ==
    \A s \in Ids : Undisturbed /\ IsWritable(s) => st[s].len <= Hwm(s) + 1

\* Every chunk write() accepted is handed to _write once, whatever corks and
\* writes the callbacks of an uncork() make; in a Duplex, whose uncork() empties
\* its queue last (1346-1353), unless one of those callbacks corks it again.
WritesKept ==
    \A s \in Ids : ~st[s].recorked =>
                   /\ IsInjective(st[s].taken)
                   /\ todo = <<>> => Range(st[s].accepted) = Range(st[s].taken) \cup Range(FlattenSeq(st[s].queue))

\* writableLength is the bytes queued and in flight.  It is less from an uncork()
\* that found writes in flight, which sets it to zero (1050), until all of them
\* are done, and never more, or a source waiting for 'drain' would wait for ever;
\* a Duplex that was corked again while it emptied its queue is excepted.
LengthExact ==
    \A s \in Ids : Quiet /\ ~st[s].recorked =>
        LET held == Total(st[s].queue) + Total(st[s].held) IN
        st[s].len <= held /\ (~st[s].forgot => st[s].len = held)

\* A source paused for 'drain' is resumed.
DrainComes == \A s \in {"t", "w"} : (s \in Ids /\ st[s].drains # <<>>) ~> (s \in Ids /\ (st[s].drains = <<>> \/ st[s].destroyed))

\* pipeline's callback runs once its source has ended, unless a push after that
\* end destroyed the source: an error of the source never reaches the sink.
PipelineCompletes ==
    (Piped /\ Undisturbed /\ st["r"].endPending) ~> (Piped /\ (st["w"].fin = "ok" \/ st["r"].errored))

\* A next() of the async iterator settles once the stream ends or fails.
IterationEnds ==
    ("r" \in Ids /\ st["r"].iter # "off" /\ st["r"].endPending) ~> ("r" \in Ids /\ (st["r"].iter \in {"done", "failed"} \/ st["r"].destroyed))

\* toArray() settles once the stream ends, unless the stream is left paused or destroyed without an error.
ToArraySettles ==
    ("r" \in Ids /\ st["r"].coll = "waiting" /\ st["r"].endPending) ~> ("r" \in Ids /\ (st["r"].coll # "waiting" \/ (st["r"].destroyed /\ ~st["r"].endEmitted) \/ st["r"].paused))

\* Typing, counted lengths, order of chunks and events, over pipelines, derived streams and pairs.
StreamSafe ==
    /\ TypeOK /\ PendingLengthExact /\ EndAfterAllData /\ FinalIsLast /\ EndCallbackOnce /\ CloseOnce
    /\ PipelineDelivers /\ SinkBounded /\ WritesKept /\ LengthExact /\ DerivedExact /\ CollectorExact
    /\ PairCarries /\ StatusTells

\* Waiting writers are told of room, pipelines complete, iterations and collectors end.
StreamProgress == DrainComes /\ PipelineCompletes /\ IterationEnds /\ ToArraySettles
=============================================================================
