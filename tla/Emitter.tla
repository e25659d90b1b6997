------------------------------- MODULE Emitter -------------------------------
(***************************************************************************)
(* node:events and AbortSignal (src/runtime/node/events.ts,                *)
(* src/runtime/node/abort-events.ts): EventEmitter's listener groups,      *)
(* emit() with its snapshot, once entries and meta events, events.once(),  *)
(* the async iterator of events.on(), and an abort signal that closes it.  *)
(* Listeners run synchronously and may call back into the emitter: `todo'  *)
(* is the call stack, the calls still to be made, first one first.         *)
(***************************************************************************)
EXTENDS Integers, Sequences, FiniteSets, SequencesExt, TLC

CONSTANTS
    Modes,      \* what a user does: [calls: operations at the top level, back: from a
                \*   listener, meta: from a newListener/removeListener listener, max: calls
                \*   in a behaviour, with: of "on", "once", which it uses,
                \*   names: the events and fns: the listeners of its calls]
    MapLimit,   \* names a parked group may stay under (32 in the code)
    HighWater   \* events.on(): pause above this many queued events

VARIABLES
    mode,   \* the mode of this behaviour
    em,     \* the emitter: group objects, registration order, name map, metaWatched_
    it,     \* the EventIterator of events.on(emitter, "e")
    pr,     \* the promise of events.once(emitter, "e")
    sig,    \* the AbortSignal
    todo,   \* calls still to be made
    calls,  \* user calls made so far
    obs     \* history: ids of registrations, who ran, what was emitted

vars == <<mode, em, it, pr, sig, todo, calls, obs>>

Call(op, x) == <<[op |-> op, x |-> x]>>
Top(op) == todo # <<>> /\ Head(todo).op = op
X == Head(todo).x
Return(q) == todo' = q \o Tail(todo)
Meta == {"newListener", "removeListener"}
Cb(name) == <<name, 0>>     \* a callback of the signal; addAbortListener's are <<"resource", id>>
Map(f(_), q) == [i \in DOMAIN q |-> f(q[i])]

----------------
(* Listener groups: em.obj[g] is a group object, em.groups the live ones in *)
(* registration order, em.byString the name map, which also keeps parked    *)
(* (empty) groups.  An entry is [fn, once, id]; id names the registration.  *)

NoGroup == 0
Fns_(g) == em.obj[g].fns
Symbols == {"errorMonitor"}     \* found by scanning the live groups, never parked
groupOf(name) ==
    IF name \in Symbols
    THEN LET named == {g \in Range(em.groups) : em.obj[g].name = name} IN
         IF named = {} THEN NoGroup ELSE CHOOSE g \in named : TRUE
    ELSE IF name \in DOMAIN em.byString /\ Fns_(em.byString[name]) # <<>> THEN em.byString[name] ELSE NoGroup
hasListenersFor(name) == groupOf(name) # NoGroup

Without(f, n) == [x \in DOMAIN f \ {n} |-> f[x]]
dropEntry(e, g, i) ==
    LET left == IF i \in DOMAIN e.obj[g].fns THEN RemoveAt(e.obj[g].fns, i) ELSE e.obj[g].fns
        kept == [e EXCEPT !.obj[g].fns = left]
        name == e.obj[g].name IN
    IF left # <<>> THEN kept
    ELSE [kept EXCEPT !.groups = SelectSeq(@, LAMBDA h: h # g),
                      !.byString = IF Cardinality(DOMAIN @) > MapLimit THEN Without(@, name) ELSE @]

notifyRemoved(name) == Call("notifyRemoved", name)
NotifyRemoved ==
    /\ Top("notifyRemoved")
    /\ Return(IF em.metaWatched /\ hasListenersFor("removeListener")
              THEN Call("emit", [name |-> "removeListener", v |-> 0]) ELSE <<>>)
    /\ UNCHANGED <<mode, em, it, pr, sig, calls, obs>>

(* on(), once(), prependListener(): x = [name, fn, once, prepend]. *)
Add ==
    /\ Top("add")
    /\ Return((IF em.metaWatched /\ hasListenersFor("newListener")
               THEN Call("emit", [name |-> "newListener", v |-> 0]) ELSE <<>>) \o Call("addEntry", X))
    /\ UNCHANGED <<mode, em, it, pr, sig, calls, obs>>
AddEntry ==
    /\ Top("addEntry")
    /\ LET id == obs.ids + 1
           entry == [fn |-> X.fn, once |-> X.once, id |-> id]
           parked == X.name \in DOMAIN em.byString
           mapped == parked \/ hasListenersFor(X.name)
           g == IF parked THEN em.byString[X.name]
                ELSE IF mapped THEN groupOf(X.name) ELSE Len(em.obj) + 1
           obj == IF mapped THEN em.obj ELSE Append(em.obj, [name |-> X.name, fns |-> <<>>])
           live == g \in Range(em.groups)
           fns == IF X.prepend THEN <<entry>> \o obj[g].fns ELSE Append(obj[g].fns, entry) IN
       /\ em' = [obj |-> [obj EXCEPT ![g].fns = fns],
                 groups |-> IF live THEN em.groups ELSE Append(em.groups, g),
                 byString |-> IF X.name \in Symbols THEN em.byString ELSE (X.name :> g) @@ em.byString,
                 metaWatched |-> em.metaWatched \/ X.name \in Meta]
       /\ obs' = [obs EXCEPT !.ids = id]
    /\ Return(<<>>)
    /\ UNCHANGED <<mode, it, pr, sig, calls>>

(* off(): the last registration of fn under name. *)
LastOf(fns, fn) == SelectLastInSeq(fns, LAMBDA e: e.fn = fn)
Off ==
    /\ Top("off")
    /\ LET g == groupOf(X.name)
           i == IF g = NoGroup THEN 0 ELSE LastOf(Fns_(g), X.fn) IN
       IF i = 0 THEN Return(<<>>) /\ UNCHANGED em
       ELSE em' = dropEntry(em, g, i) /\ Return(notifyRemoved(X.name))
    /\ UNCHANGED <<mode, it, pr, sig, calls, obs>>

(* removeAllListeners(): one group, or every group of a snapshot with       *)
(* removeListener's last; a group's loop runs from its last index down      *)
(* whatever the listeners it notifies do meanwhile.                         *)
AnyName == "*"
RemoveAll ==
    /\ Top("removeAll")
    /\ LET g == groupOf(X.name)
           isMeta(h) == em.obj[h].name = "removeListener"
           group(h) == Call("removeGroup", [g |-> h, notify |-> ~isMeta(h)])[1] IN
       Return(IF X.name = AnyName
              THEN Map(group, SelectSeq(em.groups, LAMBDA h: ~isMeta(h)) \o SelectSeq(em.groups, isMeta))
              ELSE IF g = NoGroup THEN <<>> ELSE Call("removeGroup", [g |-> g, notify |-> TRUE]))
    /\ UNCHANGED <<mode, em, it, pr, sig, calls, obs>>
removeGroup ==
    /\ Top("removeGroup")
    /\ Return(Reverse([i \in DOMAIN Fns_(X.g) |-> Call("removeAt", [g |-> X.g, i |-> i, notify |-> X.notify])[1]]))
    /\ UNCHANGED <<mode, em, it, pr, sig, calls, obs>>
RemoveAt_ ==
    /\ Top("removeAt")
    /\ em' = dropEntry(em, X.g, X.i)
    /\ Return(IF X.notify THEN notifyRemoved(em.obj[X.g].name) ELSE <<>>)
    /\ UNCHANGED <<mode, it, pr, sig, calls, obs>>

----------------
(* emit(): the listeners are copied, the once entries dropped, then run;    *)
(* 'error' is shown to the errorMonitor listeners first.  Each drop calls   *)
(* the 'removeListener' listeners, and one that emits copies what the       *)
(* outer emit copied and has not dropped yet.                               *)

runs(fns, x) == [i \in DOMAIN fns |-> Call("run", [e |-> fns[i], ev |-> x])[1]]
Monitor ==
    /\ Top("emit") /\ X.name = "error" /\ hasListenersFor("errorMonitor")
    /\ Return(Call("emitDispatch", [X EXCEPT !.name = "errorMonitor"]) \o Call("emitDispatch", X))
    /\ UNCHANGED <<mode, em, it, pr, sig, calls, obs>>
Dropping(g) == \E k \in DOMAIN todo : todo[k].op = "dropOnce" /\ todo[k].x.g = g /\ \A j \in 1..(k - 1) : todo[j].op # "run" \/ todo[j].x.ev.name \in Meta
CopiedAgain(g) == IF Dropping(g) THEN {Fns_(g)[k].id : k \in DOMAIN Fns_(g)} ELSE {}
Emit ==
    /\ Top("emitDispatch") \/ (Top("emit") /\ ~(X.name = "error" /\ hasListenersFor("errorMonitor")))
    /\ LET g == groupOf(X.name)
           fns == Fns_(g)
           i == Len(fns) IN
       /\ obs' = [obs EXCEPT !.offered = IF X.name = "e" /\ g # NoGroup /\ \E k \in DOMAIN fns : fns[k].fn = "itEvent"
                                         THEN Append(@, X.v) ELSE @,
                             !.caught = IF g = NoGroup THEN @ ELSE @ \cup CopiedAgain(g)]
       /\ IF g = NoGroup
          THEN \* 'error' without a listener throws through every caller
               todo' = (IF X.name = "error" THEN <<>> ELSE Tail(todo))
          ELSE Return([k \in DOMAIN fns |-> Call("dropOnce", [g |-> g, i |-> i - k + 1])[1]] \o runs(fns, X))
    /\ UNCHANGED <<mode, em, it, pr, sig, calls>>

Drops(g, i) == i \in DOMAIN Fns_(g) /\ Fns_(g)[i].once
DropOnce ==
    /\ Top("dropOnce")
    /\ IF Drops(X.g, X.i)
       THEN em' = dropEntry(em, X.g, X.i) /\ Return(notifyRemoved(em.obj[X.g].name))
       ELSE UNCHANGED em /\ Return(<<>>)
    /\ UNCHANGED <<mode, it, pr, sig, calls, obs>>

(* runListener for a user's listener: it may call back, and with            *)
(* captureRejections its promise may be rejected, which emits 'error' later.*)
Ran(e) == IF e.once THEN [obs EXCEPT !.ran = Append(@, e.id)] ELSE obs
RunUser ==
    /\ Top("run") /\ X.e.fn \in mode.fns
    /\ obs' = Ran(X.e)
    /\ Return(Call("user", IF X.ev.name \in Meta THEN mode.meta ELSE mode.back))
    /\ UNCHANGED <<mode, em, it, pr, sig, calls>>
CaptureRejection ==
    /\ todo = <<>> /\ obs.rejects < 1 /\ calls > 0 /\ hasListenersFor("error")
    /\ obs' = [obs EXCEPT !.rejects = @ + 1]
    /\ todo' = Call("emit", [name |-> "error", v |-> 0])
    /\ UNCHANGED <<mode, em, it, pr, sig, calls>>

----------------
(* events.once(emitter, "e"): two once listeners, each removes the other.  *)

RunOnceEvent ==
    /\ Top("run") /\ X.e.fn = "onEvent"
    /\ obs' = Ran(X.e)
    /\ pr' = IF pr = "pending" THEN "resolved" ELSE pr
    /\ Return(Call("off", [name |-> "error", fn |-> "onError"]))
    /\ UNCHANGED <<mode, em, it, sig, calls>>
RunOnceError ==
    /\ Top("run") /\ X.e.fn = "onError"
    /\ obs' = Ran(X.e)
    /\ pr' = IF pr = "pending" THEN "rejected" ELSE pr
    /\ Return(Call("off", [name |-> "e", fn |-> "onEvent"]))
    /\ UNCHANGED <<mode, em, it, sig, calls>>
Once ==
    /\ todo = <<>> /\ pr = "none" /\ "once" \in mode.with
    /\ pr' = "pending"
    /\ todo' = Call("add", [name |-> "e", fn |-> "onEvent", once |-> TRUE, prepend |-> FALSE]) \o
               Call("add", [name |-> "error", fn |-> "onError", once |-> TRUE, prepend |-> FALSE])
    /\ UNCHANGED <<mode, em, it, sig, calls, obs>>

----------------
(* events.on(): EventIterator.  `close' is the "close" event.              *)

cleanup == Call("off", [name |-> "e", fn |-> "itEvent"]) \o Call("off", [name |-> "error", fn |-> "itError"]) \o
           Call("off", [name |-> "close", fn |-> "itClose"]) \o Call("removeEventListener", Cb("itClose"))

RunItEventFault ==
    /\ Top("run") /\ X.e.fn = "itEvent"
    /\ it' = IF it.done THEN it
             ELSE IF it.waiting THEN [it EXCEPT !.waiting = FALSE, !.given = Append(@, X.ev.v)]
             ELSE IF Len(it.queue) > HighWater THEN [it EXCEPT !.paused = TRUE]
             ELSE [it EXCEPT !.queue = Append(@, X.ev.v)]
    /\ Return(<<>>)
    /\ UNCHANGED <<mode, em, pr, sig, calls, obs>>
RunItEvent == \* pushEvent
    /\ Top("run") /\ X.e.fn = "itEvent"
    /\ obs' = Ran(X.e)
    /\ LET queue == Append(it.queue, X.ev.v) IN
       it' = IF it.done THEN it
             ELSE IF it.waiting THEN [it EXCEPT !.waiting = FALSE, !.given = Append(@, X.ev.v)]
             ELSE [it EXCEPT !.queue = queue, !.paused = @ \/ Len(queue) > HighWater]
    /\ Return(<<>>)
    /\ UNCHANGED <<mode, em, pr, sig, calls>>

Finished(i, how) == [i EXCEPT !.done = TRUE, !.waiting = FALSE, !.result = IF i.waiting THEN how ELSE @]
Finish(how) ==
    /\ it' = IF it.done THEN it ELSE Finished(it, how)
    /\ Return(IF it.done THEN <<>> ELSE cleanup)
RunItError == \* fail
    /\ Top("run") /\ X.e.fn = "itError"
    /\ obs' = Ran(X.e) /\ Finish("rejected")
    /\ UNCHANGED <<mode, em, pr, sig, calls>>
RunItClose == \* finish, from the "close" event
    /\ Top("run") /\ X.e.fn = "itClose"
    /\ obs' = Ran(X.e) /\ Finish("done")
    /\ UNCHANGED <<mode, em, pr, sig, calls>>

On ==
    /\ todo = <<>> /\ ~it.made /\ "on" \in mode.with
    /\ it' = [it EXCEPT !.made = TRUE]
    /\ todo' = Call("add", [name |-> "e", fn |-> "itEvent", once |-> FALSE, prepend |-> FALSE]) \o
               Call("add", [name |-> "error", fn |-> "itError", once |-> FALSE, prepend |-> FALSE]) \o
               Call("add", [name |-> "close", fn |-> "itClose", once |-> FALSE, prepend |-> FALSE]) \o
               Call(IF sig.aborted THEN "fail" ELSE "addEventListener", [cb |-> Cb("itClose"), once |-> TRUE])
    /\ UNCHANGED <<mode, em, pr, sig, calls, obs>>
Fail == Top("fail") /\ Finish("rejected") /\ UNCHANGED <<mode, em, pr, sig, calls, obs>>

Resumes(queue) == Len(queue) < 1
ItNext ==
    /\ todo = <<>> /\ it.made /\ ~it.waiting /\ it.result = "none"
    /\ it' = IF it.queue # <<>>
             THEN [it EXCEPT !.queue = Tail(@), !.given = Append(@, Head(it.queue)),
                             !.paused = @ /\ ~Resumes(Tail(it.queue))]
             ELSE IF it.done THEN [it EXCEPT !.result = "done"]
             ELSE [it EXCEPT !.waiting = TRUE]
    /\ UNCHANGED <<mode, em, pr, sig, todo, calls, obs>>
ItReturn == \* return() and throw(): the consumer leaves its loop
    /\ todo = <<>> /\ it.made /\ ~it.done /\ ~it.waiting
    /\ \E how \in {"done", "rejected"} : it' = [Finished(it, how) EXCEPT !.result = how]
    /\ todo' = cleanup
    /\ UNCHANGED <<mode, em, pr, sig, calls, obs>>

----------------
(* AbortSignal: registrations share their `removed' flag with the dispatch *)
(* in progress, so a callback can cancel one that has not run yet.         *)

AddEventListener ==
    /\ Top("addEventListener")
    /\ sig' = IF \E i \in DOMAIN sig.regs : sig.regs[i].cb = X.cb THEN sig
              ELSE [sig EXCEPT !.regs = Append(@, [cb |-> X.cb, once |-> X.once, id |-> sig.ids + 1]), !.ids = @ + 1]
    /\ Return(<<>>)
    /\ UNCHANGED <<mode, em, it, pr, calls, obs>>
removed(s, cb) ==
    [s EXCEPT !.regs = SelectSeq(@, LAMBDA r: r.cb # cb),
              !.removed = @ \cup {r.id : r \in {x \in Range(s.regs) : x.cb = cb}}]
RemoveEventListener ==
    /\ Top("removeEventListener")
    /\ sig' = removed(sig, X)
    /\ Return(<<>>)
    /\ UNCHANGED <<mode, em, it, pr, calls, obs>>

SignalAbort ==
    /\ Top("abort")
    /\ sig' = [sig EXCEPT !.aborted = TRUE]
    /\ Return(IF sig.aborted THEN <<>> ELSE Map(LAMBDA r: Call("dispatch", r)[1], sig.regs))
    /\ UNCHANGED <<mode, em, it, pr, calls, obs>>
DispatchSkipsFault(r) == FALSE
DispatchSkips(r) == r.id \in sig.removed
Dispatch ==
    /\ Top("dispatch")
    /\ IF DispatchSkips(X)
       THEN Return(<<>>) /\ UNCHANGED <<it, sig>>
       ELSE /\ sig' = [(IF X.once THEN removed(sig, X.cb) ELSE sig) EXCEPT !.fired = Append(@, X)]
            /\ IF X.cb = Cb("itClose") THEN Finish("done")
               ELSE UNCHANGED it /\ Return(IF X.cb = Cb("onabort") /\ sig.onabort = "null" THEN <<>>
                                          ELSE Call("handler", mode.back))
    /\ UNCHANGED <<mode, em, pr, calls, obs>>
StopImmediatePropagation == \* the entries the dispatch has not reached are dropped
    /\ Top("handler") /\ "stop" \in X
    /\ todo' = SelectSeq(Tail(todo), LAMBDA c: c.op # "dispatch")
    /\ UNCHANGED <<mode, em, it, pr, sig, calls, obs>>
setOnabort ==
    /\ Top("onabort")
    /\ sig' = [sig EXCEPT !.onabort = X]
    /\ Return(IF X = "null" THEN Call("removeEventListener", Cb("onabort"))
              ELSE IF sig.onabort = "null" THEN Call("addEventListener", [cb |-> Cb("onabort"), once |-> FALSE]) ELSE <<>>)
    /\ UNCHANGED <<mode, em, it, pr, calls, obs>>

(* events.addAbortListener(): a listener of its own per call; on a signal  *)
(* already aborted it runs as a microtask.                                 *)
addAbortListener ==
    /\ Top("addAbortListener")
    /\ LET listener == <<"resource", sig.ids + 1>> IN
       IF sig.aborted
       THEN sig' = [sig EXCEPT !.ids = @ + 1, !.micro = Append(@, listener)] /\ Return(<<>>)
       ELSE sig' = sig /\ Return(Call("addEventListener", [cb |-> listener, once |-> TRUE]))
    /\ UNCHANGED <<mode, em, it, pr, calls, obs>>
AbortMicrotask ==
    /\ todo = <<>> /\ sig.micro # <<>>
    /\ sig' = [sig EXCEPT !.micro = Tail(@),
                          !.fired = Append(@, [cb |-> Head(sig.micro), once |-> TRUE, id |-> Head(sig.micro)[2]])]
    /\ todo' = Call("user", mode.back)
    /\ UNCHANGED <<mode, em, it, pr, calls, obs>>

----------------
(* The user's calls.                                                       *)

Ops ==
    [emit |-> {Call("emit", [name |-> n, v |-> Len(obs.offered) + calls + 1]) :
                 n \in {x \in mode.names : x = "e" => ~it.paused}},
     on |-> {Call("add", [name |-> n, fn |-> f, once |-> FALSE, prepend |-> FALSE]) : n \in mode.names, f \in mode.fns},
     once |-> {Call("add", [name |-> n, fn |-> f, once |-> TRUE, prepend |-> FALSE]) : n \in mode.names, f \in mode.fns},
     prepend |-> {Call("add", [name |-> n, fn |-> f, once |-> FALSE, prepend |-> TRUE]) : n \in mode.names, f \in mode.fns},
     meta |-> {Call("add", [name |-> n, fn |-> f, once |-> FALSE, prepend |-> FALSE]) : n \in Meta, f \in mode.fns},
     off |-> {Call("off", [name |-> n, fn |-> f]) : n \in mode.names, f \in mode.fns},
     removeAll |-> {Call("removeAll", [name |-> n]) : n \in mode.names \cup {AnyName}},
     listen |-> {Call("addEventListener", [cb |-> Cb(f), once |-> b]) : f \in mode.fns, b \in BOOLEAN},
     unlisten |-> {Call("removeEventListener", Cb(f)) : f \in mode.fns},
     stop |-> {},
     onabort |-> {Call("onabort", f) : f \in mode.fns \cup {"null"}},
     resource |-> {Call("addAbortListener", 0)},
     dispose |-> {Call("removeEventListener", r.cb) : r \in {x \in Range(sig.regs) : x.cb[1] = "resource"}},
     abort |-> {Call("abort", 0)}]

UserCall(ops, rest) ==
    \E op \in ops : \E call \in Ops[op] :
       /\ calls < mode.max /\ calls' = calls + 1
       /\ todo' = call \o rest
       /\ UNCHANGED <<mode, em, it, pr, sig, obs>>
TopCall == todo = <<>> /\ UserCall(mode.calls, <<>>)
React == (Top("user") \/ Top("handler")) /\ UserCall(X, Tail(todo))
NoReact == (Top("user") \/ Top("handler")) /\ Return(<<>>) /\ UNCHANGED <<mode, em, it, pr, sig, calls, obs>>

Init ==
    /\ mode \in Modes
    /\ em = [obj |-> <<>>, groups |-> <<>>, byString |-> <<>>, metaWatched |-> FALSE]
    /\ it = [made |-> FALSE, queue |-> <<>>, done |-> FALSE, waiting |-> FALSE, result |-> "none",
             given |-> <<>>, paused |-> FALSE]
    /\ pr = "none"
    /\ sig = [aborted |-> FALSE, regs |-> <<>>, removed |-> {}, ids |-> 0, fired |-> <<>>,
              onabort |-> "null", micro |-> <<>>]
    /\ todo = <<>> /\ calls = 0
    /\ obs = [ids |-> 0, ran |-> <<>>, offered |-> <<>>, rejects |-> 0, caught |-> {}]

Next ==
    \/ NotifyRemoved \/ Add \/ AddEntry \/ Off \/ RemoveAll \/ removeGroup \/ RemoveAt_ \/ Monitor \/ Emit \/ DropOnce
    \/ RunUser \/ CaptureRejection \/ RunOnceEvent \/ RunOnceError \/ Once
    \/ RunItEvent \/ RunItError \/ RunItClose \/ On \/ Fail \/ ItNext \/ ItReturn
    \/ AddEventListener \/ RemoveEventListener \/ SignalAbort \/ Dispatch
    \/ StopImmediatePropagation \/ setOnabort \/ addAbortListener \/ AbortMicrotask
    \/ TopCall \/ React \/ NoReact
Spec == Init /\ [][Next]_vars

----------------
(* Properties.                                                             *)

Entries == UNION {{<<g, i>> : i \in DOMAIN Fns_(g)} : g \in DOMAIN em.obj}
Registered(fn) == \E g \in DOMAIN em.obj : \E i \in DOMAIN Fns_(g) : Fns_(g)[i].fn = fn

\* Every listener is reachable: the groups in registration order are the non-empty
\* ones, each once, and the name map leads to them, through removals made while
\* removeAllListeners or an emit is dropping entries.
Reachable ==
    /\ IsInjective(em.groups)
    /\ \A g \in DOMAIN em.obj :
         Fns_(g) # <<>> => /\ g \in Range(em.groups)
                           /\ groupOf(em.obj[g].name) = g
    /\ \A g \in Range(em.groups) : Fns_(g) # <<>>

\* A once() registration runs at most once, nested emits of its event included, but for one: a 'removeListener'
\* listener that emits the event while an emit of it is dropping its once entries finds those it has not dropped,
\* and they run in both.
OnceRunsOnce == \A i, j \in DOMAIN obs.ran : obs.ran[i] = obs.ran[j] => i = j \/ obs.ran[i] \in obs.caught

\* Each event emitted while the iterator listened is given to the consumer or
\* queued, once: pausing, resuming and ending lose none.
IteratorKeeps ==
    todo = <<>> => /\ IsInjective(it.given \o it.queue)
                   /\ Range(it.given \o it.queue) \subseteq Range(obs.offered)
                   /\ ~it.done => Range(it.given \o it.queue) = Range(obs.offered)

\* When iteration has ended nothing waits on it and no listener of it is left.
IteratorCleansUp ==
    it.done => /\ ~it.waiting
               /\ todo = <<>> => /\ ~Registered("itEvent") /\ ~Registered("itError") /\ ~Registered("itClose")
                                 /\ \A r \in Range(sig.regs) : r.cb # Cb("itClose")

\* A paused emitter has queued events, so a next() will resume it.
PausedHasEvents == it.paused => it.queue # <<>>

\* Whichever of its two events comes first, also while the other is being
\* delivered, events.once() leaves no listener behind.
OnceLeavesNothing ==
    todo = <<>> /\ pr \in {"resolved", "rejected"} => ~Registered("onEvent") /\ ~Registered("onError")

\* Abort is signalled once, and a callback removed before its turn never runs.
AbortOnce == IsInjective(Map(LAMBDA r: r.id, sig.fired))
RemovedNeverRuns ==
    [][\A r \in {x.id : x \in Range(sig'.fired)} \ {x.id : x \in Range(sig.fired)} : r \notin sig.removed]_vars

\* The registry and its consumers: what is registered is reached, a once listener runs once, the iterators of
\* events.on() lose and leak nothing, events.once() cleans up after itself, a signal aborts once.
ListenersExact ==
    /\ Reachable /\ OnceRunsOnce /\ IteratorKeeps /\ IteratorCleansUp /\ PausedHasEvents /\ OnceLeavesNothing
    /\ AbortOnce
=============================================================================
