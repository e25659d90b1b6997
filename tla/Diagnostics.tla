---------------------------- MODULE Diagnostics ----------------------------
(***************************************************************************)
(* node:diagnostics_channel (src/runtime/node/diagnostics_channel.ts):     *)
(* channels with subscribers and bound stores, and the three traces of a   *)
(* TracingChannel around a function that returns, throws, promises or      *)
(* calls back.  Subscribers may throw and subscribe or unsubscribe others  *)
(* while they are called; a store's transform may throw.  What runs now is *)
(* the head of `todo', what an exception unwinds to is further down it.    *)
(***************************************************************************)
EXTENDS Integers, Sequences, FiniteSets, SequencesExt

CONSTANTS Listeners, Stores, MaxTraces, MaxActs     \* MaxActs: what subscribers may do besides returning

ASSUME ObserversAssumption == IsFiniteSet(Listeners) /\ IsFiniteSet(Stores)

VARIABLES
    channels,   \* per event the subscribers, the stores bound to `start' and `asyncStart'
    trace,      \* per call: mode, step, what it published, how often its function and callback ran
    running,    \* todo and the contexts of the stores entered
    diary       \* history: per publish what each subscriber of its beginning saw; uncaught errors; acts

diagnosticsVars == <<channels, trace, running, diary>>

Events == {"start", "end", "asyncStart", "asyncEnd", "error"}
Traces == 1..MaxTraces
hasSubscribers == \E e \in Events : channels.subs[e] # <<>> \/ channels.stores[e] # {}
Now == Head(running.todo)
Rest == Tail(running.todo)
Do(work) == running' = [running EXCEPT !.todo = work]
Publish(t, e) == <<[step |-> "publish", of |-> t, event |-> e]>>
Work(s, t) == <<[step |-> s, of |-> t, event |-> "none"]>>

----------------
(* Channel.publish(): a snapshot, each subscriber in turn.                 *)
PublishBegins ==
    /\ running.todo # <<>> /\ Now.step = "publish"
    /\ LET snapshot == channels.subs[Now.event] IN
       /\ Do([i \in DOMAIN snapshot |-> [step |-> "listener", of |-> Now.of, event |-> Now.event, who |-> snapshot[i]]] \o Rest)
       /\ diary' = [diary EXCEPT !.owed = @ \o [i \in DOMAIN snapshot |-> <<Now.of, Now.event, snapshot[i]>>]]
    /\ trace' = [trace EXCEPT ![Now.of].published = Append(@, Now.event)]
    /\ UNCHANGED channels
Saw == [diary EXCEPT !.seen = Append(@, <<Now.of, Now.event, Now.who>>)]
Acts(saw) == diary.acts < MaxActs /\ diary' = [saw EXCEPT !.acts = @ + 1]
ListenerReturns ==
    /\ running.todo # <<>> /\ Now.step = "listener"
    /\ Do(Rest) /\ diary' = Saw
    /\ UNCHANGED <<channels, trace>>
AfterThrow == Rest
\* reported on the next tick; the subscribers after it are called all the same
ListenerThrows ==
    /\ running.todo # <<>> /\ Now.step = "listener"
    /\ Do(AfterThrow) /\ Acts([Saw EXCEPT !.uncaught = @ + 1])
    /\ UNCHANGED <<channels, trace>>
UnsubscribedFrom(s, l) == RemoveFirst(s, l)
ListenerSubscribes(l) ==
    /\ running.todo # <<>> /\ Now.step = "listener"
    /\ Do(Rest) /\ Acts(Saw)
    /\ channels' = [channels EXCEPT !.subs[Now.event] = Append(@, l)]
    /\ UNCHANGED trace
ListenerUnsubscribes(l) ==
    /\ running.todo # <<>> /\ Now.step = "listener"
    /\ Do(Rest) /\ Acts(Saw)
    /\ channels' = [channels EXCEPT !.subs = [e \in Events |-> UnsubscribedFrom(@[e], l)]]
    /\ UNCHANGED trace

\* bindStore() or unbindStore(), of the channel being published: another may be running its stores
ListenerBinds(s) ==
    /\ running.todo # <<>> /\ Now.step = "listener"
    /\ Do(Rest) /\ Acts(Saw)
    /\ channels' = [channels EXCEPT !.stores[Now.event] = IF s \in @ THEN @ \ {s} ELSE @ \cup {s}]
    /\ UNCHANGED trace

(* Channel.runStores(): the stores bound now, the last one outermost; a    *)
(* transform that throws leaves its store out and is reported; then the    *)
(* publish, then the function.                                             *)
RunStores(t, e, body) == [i \in 1..1 |-> [step |-> "stores", of |-> t, event |-> e]] \o Publish(t, e) \o body \o Work("leave", t)
AfterTransforms(failing) == Rest
EnterStores ==
    /\ running.todo # <<>> /\ Now.step = "stores"
    /\ \E failing \in SUBSET channels.stores[Now.event] :
          /\ running' = [running EXCEPT !.todo = AfterTransforms(failing), !.contexts = Append(@, channels.stores[Now.event] \ failing)]
          /\ diary' = [diary EXCEPT !.uncaught = @ + Cardinality(failing)]
    /\ UNCHANGED <<channels, trace>>
LeaveStores ==
    /\ running.todo # <<>> /\ Now.step = "leave"
    /\ running' = [running EXCEPT !.todo = Rest, !.contexts = Front(@)]
    /\ UNCHANGED <<channels, trace, diary>>

----------------
(* TracingChannel.                                                         *)
Trace(t, mode) ==
    /\ running.todo = <<>> /\ trace[t].mode = "none"
    /\ trace' = [trace EXCEPT ![t].mode = mode, ![t].traced = hasSubscribers]
    /\ Do(IF hasSubscribers THEN RunStores(t, "start", Work("fn", t)) ELSE Work("fn", t))
    /\ UNCHANGED <<channels, diary>>
RanOnce(t) == [trace[t] EXCEPT !.fn = @ + 1, !.inside = IF running.contexts = <<>> THEN {} ELSE Last(running.contexts)]
EndsFault(t, threw) == IF threw THEN Publish(t, "error") ELSE Publish(t, "end")
\* `finally' publishes end, after error when it threw
Ends(t, threw) == IF threw THEN Publish(t, "error") \o Publish(t, "end") ELSE Publish(t, "end")
Finally(t, threw) == IF trace[t].traced THEN Ends(t, threw) ELSE <<>>
Fn(after, threw) ==
    /\ running.todo # <<>> /\ Now.step = "fn"
    /\ trace' = [trace EXCEPT ![Now.of] = [RanOnce(Now.of) EXCEPT !.step = after, !.threw = threw]]
    /\ Do(Finally(Now.of, threw) \o Rest)
    /\ UNCHANGED <<channels, diary>>
FnThrows == Fn("over", TRUE)
FnReturns == running.todo # <<>> /\ Fn(IF trace[Now.of].mode = "sync" THEN "over" ELSE "waiting", FALSE)
\* the wrapped callback of traceCallback, called before the function returns or after
Wrapped(t, failed) ==
    IF trace[t].traced THEN (IF failed THEN Publish(t, "error") ELSE <<>>) \o RunStores(t, "asyncStart", Work("callback", t) \o Publish(t, "asyncEnd"))
    ELSE Work("callback", t)
FnCallsBack ==
    /\ running.todo # <<>> /\ Now.step = "fn" /\ trace[Now.of].mode = "callback" /\ trace[Now.of].step = "none"
    /\ \E failed \in BOOLEAN : Do(Wrapped(Now.of, failed) \o running.todo)
    /\ trace' = [trace EXCEPT ![Now.of].step = "called"]
    /\ UNCHANGED <<channels, diary>>
Settles(t) ==
    /\ running.todo = <<>> /\ trace[t].step = "waiting" /\ trace[t].callback = 0
    /\ trace' = [trace EXCEPT ![t].step = "over"]
    /\ \E failed \in BOOLEAN :
          Do(IF trace[t].mode = "callback" THEN Wrapped(t, failed)
             ELSE IF ~trace[t].traced THEN <<>>
             ELSE (IF failed THEN Publish(t, "error") ELSE <<>>) \o Publish(t, "asyncStart") \o Publish(t, "asyncEnd"))
    /\ UNCHANGED <<channels, diary>>
\* the program's callback returns or throws: `finally' publishes asyncEnd either way
Callback ==
    /\ running.todo # <<>> /\ Now.step = "callback"
    /\ trace' = [trace EXCEPT ![Now.of].callback = @ + 1]
    /\ Do(Rest)
    /\ UNCHANGED <<channels, diary>>

DiagnosticsInit ==
    /\ \E subscribed \in SUBSET Events, bound \in SUBSET Stores :
          channels = [subs |-> [e \in Events |-> IF e \in subscribed THEN SetToSeq(Listeners) ELSE <<>>],
                      stores |-> [e \in Events |-> IF e \in {"start", "asyncStart"} THEN bound ELSE {}]]
    /\ trace = [t \in Traces |-> [mode |-> "none", step |-> "none", traced |-> FALSE, threw |-> FALSE, published |-> <<>>,
                                  fn |-> 0, callback |-> 0, inside |-> {}]]
    /\ running = [todo |-> <<>>, contexts |-> <<>>]
    /\ diary = [owed |-> <<>>, seen |-> <<>>, uncaught |-> 0, acts |-> 0]
DiagnosticsNext ==
    \/ \E t \in Traces : Settles(t) \/ \E mode \in {"sync", "promise", "callback"} : Trace(t, mode)
    \/ PublishBegins
    \/ ListenerReturns
    \/ ListenerThrows
    \/ \E l \in Listeners : ListenerSubscribes(l) \/ ListenerUnsubscribes(l)
    \/ \E s \in Stores : ListenerBinds(s)
    \/ EnterStores
    \/ LeaveStores
    \/ FnThrows
    \/ FnReturns
    \/ FnCallsBack
    \/ Callback

----------------
Quiet == running.todo = <<>>
SyncParts == {<<"start", "end">>, <<"start", "error", "end">>}
AsyncParts == {<<"asyncStart", "asyncEnd">>, <<"error", "asyncStart", "asyncEnd">>}
Shapes(c) ==
    IF c.mode = "none" \/ ~c.traced THEN {<<>>}
    ELSE SyncParts \cup (IF c.mode = "sync" THEN {} ELSE {<<"start", "end">> \o a : a \in AsyncParts})
                   \cup (IF c.mode # "callback" THEN {} ELSE UNION {{<<"start">> \o a \o Tail(s) : a \in AsyncParts} : s \in SyncParts})
\* What a trace publishes is bracketed: start first, one end, error before the end or the asyncStart it belongs to,
\* asyncEnd after asyncStart, whichever way the function, its promise or its callback ended and whatever subscribers did.
TraceBracketed == Quiet => \A t \in Traces : trace[t].published \in Shapes(trace[t])
\* The observed function runs once, its callback once at most, whatever subscribers and transforms throw, and a trace
\* leaves no store's context behind.
ObservationHarmless ==
    /\ \A t \in Traces : trace[t].fn <= 1 /\ trace[t].callback <= 1
    /\ Quiet => running.contexts = <<>> /\ \A t \in Traces : trace[t].mode # "none" => trace[t].fn = 1
\* Every subscriber of the moment a message is published sees it once, though an earlier one throws, removes it or adds
\* another.
PublishedToAll == Quiet => diary.seen = diary.owed

\* Observers change nothing of what they observe, and miss nothing of it.
DiagnosticsExact == ObservationHarmless /\ TraceBracketed /\ PublishedToAll
=============================================================================
