---------------------------- MODULE SocketOptions ----------------------------
(***************************************************************************)
(* What a net.Socket (src/runtime/node/net.ts) keeps for the native        *)
(* handles under it while none, several racing ones or one of them is its  *)
(* own: options, the reference to the loop, pause, the idle timer and the  *)
(* callbacks of writes.  NetSocket models the bytes and the events; here   *)
(* a handle is only what was set on it.  Every listener and every callback *)
(* may call the socket again: `rest' is what is left to do after it.       *)
(***************************************************************************)
EXTENDS Integers, Sequences, FiniteSets

CONSTANTS Handles, MaxOptionCalls

ASSUME HandlesAssumption == Handles \in Nat

VARIABLES
    so,      \* the Socket's fields
    handle,  \* the native handles, in the order they were made: what is set on each
    idle,    \* scheduled idle timers of the socket, cancelled ones excluded
    rest,    \* what is left to do, innermost first
    asked,   \* history: the options the program asked for last
    ran      \* history: the calls the program made, the write callbacks it made and those that ran, where 'timeout' came
optionVars == <<so, handle, idle, rest, asked, ran>>

NoHandle == 0
Option == [keepAlive : BOOLEAN, noDelay : BOOLEAN]
NewHandle(live) == [live |-> live, keepAlive |-> FALSE, noDelay |-> FALSE, referenced |-> TRUE, paused |-> FALSE]

\* The constructor's options; the handle of an accepted connection may wait for adoptAccepted().
OptionInit ==
    /\ \E o \in Option :
          /\ so = [native |-> NoHandle, connecting |-> FALSE, destroyed |-> FALSE, closed |-> FALSE, keepAlive |-> o.keepAlive,
                   noDelay |-> o.noDelay, referenced |-> TRUE, paused |-> FALSE, timeout |-> FALSE, timer |-> FALSE,
                   attempts |-> {}, targets |-> 0, writes |-> <<>>]
          /\ asked = [keepAlive |-> o.keepAlive, noDelay |-> o.noDelay, referenced |-> TRUE, paused |-> FALSE]
    /\ handle = <<>> /\ idle = 0 /\ rest = <<>>
    /\ ran = [calls |-> 0, made |-> 0, called |-> <<>>, late |-> FALSE, fired |-> FALSE, connected |-> FALSE]

----------------
(* The idle timer.                                                         *)

clearedFault(t) == [t EXCEPT !.so.timer = FALSE]
cleared(t) == IF t.so.timer THEN [t EXCEPT !.so.timer = FALSE, !.idle = @ - 1] ELSE t
\* resetTimeout(), on the state t = [so, idle]
reset(t) ==
    LET c == cleared(t) IN
    IF ~c.so.timeout \/ c.so.destroyed THEN c ELSE [so |-> [c.so EXCEPT !.timer = TRUE], idle |-> c.idle + 1]
TimerReset(s) ==
    LET t == reset([so |-> s, idle |-> idle]) IN
    so' = t.so /\ idle' = t.idle
Active == [ran EXCEPT !.fired = FALSE]     \* the timer was armed again
TimerFires ==
    /\ idle > 0 /\ rest = <<>>
    /\ idle' = idle - 1
    /\ so' = [so EXCEPT !.timer = FALSE]
    /\ IF so.destroyed THEN UNCHANGED <<rest, ran>>
       ELSE rest' = <<[do |-> "call"]>> /\ ran' = [ran EXCEPT !.fired = TRUE, !.late = @ \/ so.closed]
    /\ UNCHANGED <<handle, asked>>

----------------
(* The options.                                                            *)

Set(h, n, o, v) == IF n = NoHandle THEN h ELSE [h EXCEPT ![n][o] = v]
SetOption(o, v) ==          \* setKeepAlive, setNoDelay
    /\ handle' = Set(handle, so.native, o, v)
    /\ so' = IF so.native # NoHandle THEN so ELSE [so EXCEPT ![o] = v]
    /\ asked' = [asked EXCEPT ![o] = v]
    /\ UNCHANGED <<idle, rest>>
Referenced(v) ==            \* ref, unref: the handle and every attempt still racing
    /\ so' = [so EXCEPT !.referenced = v]
    /\ handle' = [n \in DOMAIN handle |-> IF n = so.native \/ n \in so.attempts THEN [handle[n] EXCEPT !.referenced = v] ELSE handle[n]]
    /\ asked' = [asked EXCEPT !.referenced = v]
    /\ UNCHANGED <<idle, rest>>
Paused(v) ==                \* pause, resume
    /\ so' = [so EXCEPT !.paused = v]
    /\ handle' = Set(handle, so.native, "paused", v)
    /\ asked' = [asked EXCEPT !.paused = v]
    /\ UNCHANGED <<idle, rest>>
SetTimeout(v) ==
    /\ TimerReset([so EXCEPT !.timeout = v])
    /\ UNCHANGED <<handle, rest, asked>>

----------------
(* Connecting: the attempts race, the first to succeed is the handle.      *)

\* connect(), of a socket that never had a handle; the lookup answers 1..Handles addresses
ConnectSocket ==
    /\ rest = <<>> /\ so.native = NoHandle /\ ~so.connecting /\ so.destroyed = so.closed /\ ~ran.connected
    /\ ran' = [Active EXCEPT !.connected = TRUE]
    /\ \E targets \in 1..Handles :
          TimerReset([so EXCEPT !.connecting = TRUE, !.destroyed = FALSE, !.closed = FALSE, !.targets = targets])
    /\ UNCHANGED <<handle, rest, asked>>
\* startNextAttempt(): the listeners of 'connectionAttempt' come before the handle
Attempt(left) ==
    /\ so' = [so EXCEPT !.targets = @ - 1]
    /\ rest' = <<[do |-> "call"], [do |-> "create"]>> \o left
    /\ UNCHANGED <<handle, idle, asked, ran>>
\* the lookup's answer, and the timer of an attempt still pending
FirstOrLateAttempt == rest = <<>> /\ so.connecting /\ so.targets > 0 /\ Attempt(<<>>)
NextAttempt ==
    /\ rest # <<>> /\ Head(rest).do = "attempt"
    /\ IF so.connecting THEN Attempt(Tail(rest)) ELSE rest' = Tail(rest) /\ UNCHANGED <<so, handle, idle, asked, ran>>
Created(s) == [NewHandle("racing") EXCEPT !.referenced = s.referenced]
CreateAttempt ==
    /\ rest # <<>> /\ Head(rest).do = "create" /\ rest' = Tail(rest)
    /\ IF so.connecting
       THEN handle' = Append(handle, Created(so)) /\ so' = [so EXCEPT !.attempts = @ \cup {Len(handle) + 1}]
       ELSE UNCHANGED <<so, handle>>
    /\ UNCHANGED <<idle, asked, ran>>
\* the attempt n failed; with no other racing or to come the socket is destroyed
AttemptFailed(n) ==
    /\ rest = <<>> /\ n \in so.attempts
    /\ handle' = [handle EXCEPT ![n].live = "gone"]
    /\ so' = [so EXCEPT !.attempts = @ \ {n}]
    /\ rest' = <<[do |-> "call"]>> \o (IF so.targets > 0 THEN <<[do |-> "attempt"]>>
                                      ELSE IF so.attempts = {n} THEN <<[do |-> "destroy"]>> ELSE <<>>)
    /\ UNCHANGED <<idle, asked, ran>>
\* winAttempt(), adoptAccepted(): what the socket kept is set on its handle
Equipped(h, s, pause) ==
    [h EXCEPT !.live = "open", !.referenced = @ /\ s.referenced, !.paused = s.paused \/ pause,
              !.keepAlive = s.keepAlive, !.noDelay = s.noDelay]
EmitConnected(s) ==
    /\ TimerReset([s EXCEPT !.connecting = FALSE])
    /\ ran' = Active
    /\ rest' = <<[do |-> "call"]>>          \* 'connect'
WinAttempt(n) ==
    /\ rest = <<>> /\ n \in so.attempts
    /\ handle' = [k \in DOMAIN handle |->
                     IF k = n THEN Equipped(handle[k], so, FALSE)
                     ELSE IF k \in so.attempts THEN [handle[k] EXCEPT !.live = "gone"] ELSE handle[k]]
    /\ EmitConnected([so EXCEPT !.native = n, !.attempts = {}, !.targets = 0])
    /\ UNCHANGED asked
AdoptAccepted(pause) ==
    /\ ran.calls = 0 /\ ~ran.connected /\ so.native = NoHandle
    /\ handle' = <<Equipped(NewHandle("open"), so, pause)>>
    /\ TimerReset([so EXCEPT !.native = 1, !.paused = @ \/ pause])
    /\ asked' = [asked EXCEPT !.paused = pause]
    /\ ran' = [Active EXCEPT !.connected = TRUE]
    /\ UNCHANGED rest

----------------
(* Writes and their callbacks.                                             *)

\* A native write that completes raises 'drain'; one made while connecting is held, its callback with it.
WriteCallback ==
    /\ so.native # NoHandle \/ so.connecting
    /\ ~so.destroyed
    /\ TimerReset([so EXCEPT !.writes = Append(@, ran.made + 1)])
    /\ UNCHANGED <<handle, rest, asked>>
\* flushWriteCallbacks(): what was pending is taken out, then called one by one
PendingAfter(s) == [s EXCEPT !.writes = <<>>]
Flushes(s) == [i \in DOMAIN s.writes |-> [do |-> "callback", fn |-> s.writes[i]]]
\* dispatchNativeEvents(): 'drain', 'finish' or an error of the handle; 'data' only arms the timer
NativeFlush ==
    /\ rest = <<>> /\ so.native # NoHandle /\ handle[so.native].live = "open" /\ so.writes # <<>>
    /\ so' = PendingAfter(so)
    /\ rest' = Flushes(so)
    /\ UNCHANGED <<handle, idle, asked, ran>>
NativeData ==
    /\ rest = <<>> /\ so.native # NoHandle /\ handle[so.native].live = "open" /\ so.timeout /\ ran.fired
    /\ TimerReset(so)
    /\ ran' = Active
    /\ rest' = <<[do |-> "call"]>>
    /\ UNCHANGED <<handle, asked>>
\* a write of no bytes flushes at once
WriteEmpty ==
    /\ so.native # NoHandle /\ ~so.destroyed
    /\ LET s == [so EXCEPT !.writes = Append(@, ran.made + 1)] IN
          /\ TimerReset(PendingAfter(s))
          /\ rest' = Flushes(s) \o rest
    /\ UNCHANGED <<handle, asked>>
CallBack ==
    /\ rest # <<>> /\ Head(rest).do = "callback"
    /\ ran' = [ran EXCEPT !.called = Append(@, Head(rest).fn)]
    /\ rest' = <<[do |-> "call"]>> \o Tail(rest)
    /\ UNCHANGED <<so, handle, idle, asked>>

----------------
(* The end.                                                                *)

\* destroy(): the timer goes, the attempts are abandoned, 'close' comes in a microtask
Ended(s) == [s EXCEPT !.destroyed = TRUE, !.connecting = FALSE, !.attempts = {}, !.targets = 0]
DestroySocket ==
    LET t == cleared([so |-> Ended(so), idle |-> idle]) IN
    /\ ~so.destroyed
    /\ so' = t.so /\ idle' = t.idle
    /\ handle' = [n \in DOMAIN handle |-> IF n = so.native \/ n \in so.attempts THEN [handle[n] EXCEPT !.live = "gone"] ELSE handle[n]]
DestroyNow ==
    /\ rest # <<>> /\ Head(rest).do = "destroy" /\ rest' = Tail(rest)
    /\ IF so.destroyed \/ ~so.connecting THEN UNCHANGED <<so, idle, handle>> ELSE DestroySocket
    /\ UNCHANGED <<asked, ran>>
\* emitClose(), in destroy()'s microtask or at the handle's close event
EmitClose(s) ==
    LET t == cleared([so |-> [s EXCEPT !.closed = TRUE], idle |-> idle]) IN
    /\ so' = t.so /\ idle' = t.idle
    /\ rest' = <<[do |-> "call"]>>
    /\ UNCHANGED <<asked, ran>>
CloseJob == rest = <<>> /\ so.destroyed /\ ~so.closed /\ EmitClose(so) /\ UNCHANGED handle
HandleCloses ==
    /\ rest = <<>> /\ so.native # NoHandle /\ handle[so.native].live = "open"
    /\ handle' = [handle EXCEPT ![so.native].live = "gone"]
    /\ EmitClose([so EXCEPT !.destroyed = TRUE])

----------------
MayCall == ran.calls < MaxOptionCalls /\ (rest # <<>> => Head(rest).do = "call")
SocketCalled(writes, armed) ==
    /\ MayCall
    /\ ran' = [ran EXCEPT !.calls = @ + 1, !.made = @ + writes, !.fired = @ /\ ~armed]
OptionCall ==
    \/ \E o \in {"keepAlive", "noDelay"}, v \in BOOLEAN : v # asked[o] /\ SocketCalled(0, FALSE) /\ SetOption(o, v)
    \/ \E v \in BOOLEAN : v # asked.referenced /\ SocketCalled(0, FALSE) /\ Referenced(v)
    \/ \E v \in BOOLEAN : v # asked.paused /\ SocketCalled(0, FALSE) /\ Paused(v)
    \/ \E v \in BOOLEAN : SocketCalled(0, TRUE) /\ SetTimeout(v)
    \/ SocketCalled(1, TRUE) /\ WriteCallback
    \/ SocketCalled(1, TRUE) /\ WriteEmpty
    \/ SocketCalled(0, FALSE) /\ DestroySocket /\ UNCHANGED <<rest, asked>>
CallReturns == rest # <<>> /\ Head(rest).do = "call" /\ rest' = Tail(rest) /\ UNCHANGED <<so, handle, idle, asked, ran>>

OptionNext ==
    \/ OptionCall \/ ConnectSocket \/ CallReturns \/ FirstOrLateAttempt \/ NextAttempt \/ CreateAttempt \/ NativeFlush \/ NativeData \/ CallBack
    \/ \E n \in DOMAIN handle : AttemptFailed(n) \/ WinAttempt(n)
    \/ \E p \in BOOLEAN : AdoptAccepted(p)
    \/ DestroyNow \/ CloseJob \/ HandleCloses \/ TimerFires

----------------
(* "Still connecting: applied to whichever attempt wins": the open handle  *)
(* of a socket has the options, the pause and the reference asked for      *)
(* last, whether that was in the constructor, during the race or after it. *)
SettingsReachHandle ==
    so.native # NoHandle /\ handle[so.native].live = "open" =>
        \A o \in DOMAIN asked : handle[so.native][o] = asked[o]

(* unref() and ref() reach every handle that can keep the loop alive: also *)
(* an attempt whose 'connectionAttempt' listener made the call, before the *)
(* attempt had a handle.                                                   *)
RacersReferenced == \A n \in so.attempts : handle[n].referenced = asked.referenced

(* One idle timer at most, the one the socket can cancel; it never fires   *)
(* into a closed socket, and a live socket with a timeout has it armed     *)
(* unless it fired since the last activity.                                *)
IdleTimerOwned ==
    /\ idle = (IF so.timer THEN 1 ELSE 0)
    /\ ~ran.late
    /\ so.timeout /\ ~so.destroyed => so.timer \/ ran.fired
    /\ so.destroyed => idle = 0

(* The callback of a write is called at most once, however the callbacks   *)
(* themselves write, flush or destroy: it is pending, about to run or done.*)
WriteCalledOnce ==
    \A w \in 1..ran.made :
        Cardinality({i \in DOMAIN ran.called : ran.called[i] = w})
        + Cardinality({i \in DOMAIN so.writes : so.writes[i] = w})
        + Cardinality({i \in DOMAIN rest : rest[i].do = "callback" /\ rest[i].fn = w}) = 1

\* Settings made at any time reach the connection they are for, the idle timer has one owner, write callbacks come once.
SocketOptionsExact == SettingsReachHandle /\ RacersReferenced /\ IdleTimerOwned /\ WriteCalledOnce
=============================================================================
