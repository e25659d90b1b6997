------------------------------ MODULE Resolver ------------------------------
(***************************************************************************)
(* Name resolution (src/runtime/gea_node.cpp): a thread per lookup writes  *)
(* its answer into a ResolveState and a byte into a wake pipe; a watcher   *)
(* on the loop thread hears the byte, collects the answer and notifies the *)
(* program, which may have released the lookup meanwhile.  The state is    *)
(* owned by the registry and by the watcher, never by the thread.          *)
(***************************************************************************)
EXTENDS Integers, Sequences, FiniteSets, TLAPS

CONSTANT Lookups    \* the lookups of a behaviour

VARIABLES
    lookup,     \* per lookup: thread (its step), done, byte (in the pipe), the owners of the state
    heard       \* history: what the program heard of each lookup

resolverVars == <<lookup, heard>>

Idle == [thread |-> "none", done |-> FALSE, byte |-> FALSE, registry |-> FALSE, watcher |-> FALSE,
         finished |-> FALSE, cancelled |-> FALSE, fell |-> FALSE, notice |-> FALSE]
Freed(l) == ~l.registry /\ ~l.watcher
Set(x, l) == lookup' = [lookup EXCEPT ![x] = l] /\ UNCHANGED heard

(* net_resolve_native(): the registry and the watcher own the state, and   *)
(* the thread starts; without a pipe or a thread it is resolved inline.    *)
Resolve(x) ==
    /\ lookup[x] = Idle
    /\ Set(x, [Idle EXCEPT !.registry = TRUE, !.watcher = TRUE, !.thread = "resolving"])
ResolveWithoutThread(x) ==
    /\ lookup[x] = Idle
    /\ Set(x, [Idle EXCEPT !.registry = TRUE, !.watcher = TRUE, !.thread = "exited", !.done = TRUE, !.byte = TRUE])
ResolveWithoutPipe(x) ==
    /\ lookup[x] = Idle
    /\ Set(x, [Idle EXCEPT !.registry = TRUE, !.thread = "exited", !.done = TRUE, !.notice = TRUE, !.fell = TRUE])
\* The microtask of a lookup without a pipe: it calls notify whatever happened meanwhile.
InlineNotice(x) ==
    /\ lookup[x].notice
    /\ lookup' = [lookup EXCEPT ![x].notice = FALSE, ![x].registry = FALSE]
    /\ heard' = [heard EXCEPT ![x].notices = @ + 1]

(* The thread: the answer, then done, then the byte.                       *)
Touches(x) == [heard EXCEPT ![x].touchedFreed = @ \/ Freed(lookup[x])]
ThreadAnswers(x) ==
    /\ lookup[x].thread = "resolving"
    /\ lookup' = [lookup EXCEPT ![x].thread = "answered"]
    /\ heard' = Touches(x)
ThreadDone(x) ==
    /\ lookup[x].thread = "answered"
    /\ lookup' = [lookup EXCEPT ![x].thread = "done", ![x].done = TRUE]
    /\ heard' = Touches(x)
ThreadWakes(x) ==
    /\ lookup[x].thread = "done"
    /\ lookup' = [lookup EXCEPT ![x].thread = "exited", ![x].byte = TRUE]
    /\ heard' = Touches(x)

(* ResolveWatcher::onReady(): the watcher closes; a cancelled one tells    *)
(* nobody, another one calls reactorLookup's callback, which reads the      *)
(* addresses and releases the lookup.                                      *)
ReadyFault(l) == l.watcher /\ ~l.finished /\ l.byte /\ l.done /\ ~l.cancelled
Ready(l) == l.watcher /\ ~l.finished /\ l.byte /\ l.done
OnReady(x) ==
    LET l == lookup[x] IN
    /\ Ready(l)
    /\ lookup' = [lookup EXCEPT ![x].finished = TRUE, ![x].byte = FALSE, ![x].registry = @ /\ l.cancelled]
    /\ heard' = IF l.cancelled THEN heard ELSE [heard EXCEPT ![x].notices = @ + 1]
PurgeWatcher(x) == lookup[x].watcher /\ lookup[x].finished /\ Set(x, [lookup[x] EXCEPT !.watcher = FALSE])

(* net_resolve_release() before the answer: the watcher stays, cancelled.   *)
ReleasedFault(l) == [l EXCEPT !.registry = FALSE, !.watcher = FALSE]
Released(l) == [l EXCEPT !.registry = FALSE, !.cancelled = @ \/ (l.watcher /\ ~l.finished)]
Release(x) ==
    /\ lookup[x].registry
    /\ lookup' = [lookup EXCEPT ![x] = Released(@)]
    /\ heard' = [heard EXCEPT ![x].released = TRUE]

ResolverInit ==
    /\ lookup = [x \in Lookups |-> Idle]
    /\ heard = [x \in Lookups |-> [notices |-> 0, released |-> FALSE, touchedFreed |-> FALSE]]
ThreadStep(x) == ThreadAnswers(x) \/ ThreadDone(x) \/ ThreadWakes(x)
ResolverNext ==
    \E x \in Lookups :
        \/ Resolve(x)
        \/ ResolveWithoutThread(x)
        \/ ResolveWithoutPipe(x)
        \/ InlineNotice(x)
        \/ ThreadAnswers(x)
        \/ ThreadDone(x)
        \/ ThreadWakes(x)
        \/ OnReady(x)
        \/ PurgeWatcher(x)
        \/ Release(x)
(* getaddrinfo() returns, the pipe wakes the loop, the loop purges.         *)
ResolverFairness ==
    \A x \in Lookups : /\ WF_resolverVars(ThreadStep(x)) /\ WF_resolverVars(OnReady(x))
                       /\ WF_resolverVars(PurgeWatcher(x)) /\ WF_resolverVars(InlineNotice(x))

\* The lookup thread never touches a ResolveState that was destroyed, the program hears of a lookup once at most,
\* and of one it released never, in any order of the thread's last steps, the wake byte, the release and the purge:
\* except a lookup that found no pipe, whose microtask calls back whether it was released or not.
LookupStateOutlivesThread ==
    \A x \in Lookups : /\ ~heard[x].touchedFreed
                       /\ heard[x].notices <= 1
                       /\ heard[x].released => heard[x].notices = 0 \/ lookup[x].fell

\* A lookup that the program does not release is answered, and one it releases lets go of its state.
LookupsEnd ==
    \A x \in Lookups : /\ lookup[x] # Idle ~> (heard[x].notices = 1 \/ heard[x].released)
                       /\ (lookup[x] # Idle /\ ~lookup[x].registry) ~> Freed(lookup[x])

----------------
(* Proof: the thread's pointer is good because a thread that has not        *)
(* exited still has its watcher, and a watcher that has not finished owns   *)
(* the state.                                                              *)
ResolverSpec == ResolverInit /\ [][ResolverNext]_resolverVars

Lookup ==
    [thread : {"none", "resolving", "answered", "done", "exited"}, done : BOOLEAN, byte : BOOLEAN, registry : BOOLEAN,
     watcher : BOOLEAN, finished : BOOLEAN, cancelled : BOOLEAN, fell : BOOLEAN, notice : BOOLEAN]
Heard == [notices : Nat, released : BOOLEAN, touchedFreed : BOOLEAN]
LookupTypeOK == lookup \in [Lookups -> Lookup] /\ heard \in [Lookups -> Heard]

\* One lookup: what keeps the thread, the watcher and the notices apart.
Sound(l, h) ==
    /\ l.thread \in {"resolving", "answered", "done"} => l.watcher /\ ~l.finished /\ ~l.notice /\ ~l.byte
    /\ l.thread = "none" => ~l.watcher /\ ~l.notice
    /\ l.notice => ~l.watcher /\ l.fell
    /\ l.watcher /\ ~l.finished /\ ~l.cancelled => l.registry
    /\ h.notices = 0 \/ (h.notices = 1 /\ l.thread = "exited" /\ ~l.notice /\ (l.watcher => l.finished))
    /\ l.registry => (l.watcher /\ ~l.finished) \/ l.fell
    /\ h.released => l.fell \/ (l.cancelled /\ h.notices = 0)
    /\ ~h.touchedFreed
ResolverInv == LookupTypeOK /\ \A x \in Lookups : Sound(lookup[x], heard[x])

\* Every step of the thread, the loop and the program keeps each lookup sound.
LEMMA ResolverStep == ResolverInv /\ [ResolverNext]_resolverVars => ResolverInv'
<1> SUFFICES ASSUME ResolverInv, [ResolverNext]_resolverVars PROVE ResolverInv'
  OBVIOUS
<1>1. CASE UNCHANGED resolverVars
  BY <1>1 DEF resolverVars, ResolverInv, LookupTypeOK
<1>2. ASSUME NEW x \in Lookups, NEW l \in Lookup, NEW h \in Heard,
             lookup' = [lookup EXCEPT ![x] = l], heard' = [heard EXCEPT ![x] = h], Sound(l, h)
      PROVE ResolverInv'
  <2>1. LookupTypeOK'
    BY <1>2 DEF ResolverInv, LookupTypeOK
  <2>2. ASSUME NEW y \in Lookups PROVE Sound(lookup'[y], heard'[y])
    BY <1>2, <2>2 DEF ResolverInv, LookupTypeOK
  <2> QED BY <2>1, <2>2 DEF ResolverInv
<1>3. ASSUME NEW x \in Lookups, NEW l \in Lookup, lookup' = [lookup EXCEPT ![x] = l], UNCHANGED heard, Sound(l, heard[x])
      PROVE ResolverInv'
  <2>1. heard[x] \in Heard /\ heard' = [heard EXCEPT ![x] = heard[x]]
    BY <1>3 DEF ResolverInv, LookupTypeOK
  <2> QED BY <1>2, <1>3, <2>1
<1>4. ASSUME NEW x \in Lookups,
             \/ Resolve(x) \/ ResolveWithoutThread(x) \/ ResolveWithoutPipe(x) \/ PurgeWatcher(x)
      PROVE ResolverInv'
  <2> DEFINE l == lookup[x]
  <2>1. l \in Lookup /\ heard[x] \in Heard /\ Sound(l, heard[x])
    BY <1>4 DEF ResolverInv, LookupTypeOK
  <2>2. CASE Resolve(x)
    <3> DEFINE m == [Idle EXCEPT !.registry = TRUE, !.watcher = TRUE, !.thread = "resolving"]
    <3>a. l.thread = "none" /\ ~l.fell /\ ~l.cancelled
      BY <2>2 DEF Resolve, Idle
    <3>b. heard[x].notices = 0 /\ ~heard[x].touchedFreed /\ ~heard[x].released
      BY <2>1, <3>a DEF Sound
    <3>1. m \in Lookup /\ Sound(m, heard[x])
      BY <3>b DEF Lookup, Sound, Idle
    <3> QED BY <1>3, <3>1, <2>2 DEF Resolve, Set
  <2>3. CASE ResolveWithoutThread(x)
    <3> DEFINE m == [Idle EXCEPT !.registry = TRUE, !.watcher = TRUE, !.thread = "exited", !.done = TRUE, !.byte = TRUE]
    <3>a. l.thread = "none" /\ ~l.fell /\ ~l.cancelled
      BY <2>3 DEF ResolveWithoutThread, Idle
    <3>b. heard[x].notices = 0 /\ ~heard[x].touchedFreed /\ ~heard[x].released
      BY <2>1, <3>a DEF Sound
    <3>1. m \in Lookup /\ Sound(m, heard[x])
      BY <3>b DEF Lookup, Sound, Idle
    <3> QED BY <1>3, <3>1, <2>3 DEF ResolveWithoutThread, Set
  <2>4. CASE ResolveWithoutPipe(x)
    <3> DEFINE m == [Idle EXCEPT !.registry = TRUE, !.thread = "exited", !.done = TRUE, !.notice = TRUE, !.fell = TRUE]
    <3>a. l.thread = "none" /\ ~l.fell /\ ~l.cancelled
      BY <2>4 DEF ResolveWithoutPipe, Idle
    <3>b. heard[x].notices = 0 /\ ~heard[x].touchedFreed /\ ~heard[x].released
      BY <2>1, <3>a DEF Sound
    <3>1. m \in Lookup /\ Sound(m, heard[x])
      BY <3>b DEF Lookup, Sound, Idle
    <3> QED BY <1>3, <3>1, <2>4 DEF ResolveWithoutPipe, Set
  <2>5. CASE PurgeWatcher(x)
    <3> DEFINE m == [l EXCEPT !.watcher = FALSE]
    <3>1. m \in Lookup /\ Sound(m, heard[x])
      BY <2>1, <2>5 DEF Lookup, Heard, Sound, PurgeWatcher
    <3> QED BY <1>3, <3>1, <2>5 DEF PurgeWatcher, Set
  <2> QED BY <1>4, <2>2, <2>3, <2>4, <2>5
<1>5. ASSUME NEW x \in Lookups,
             \/ InlineNotice(x) \/ ThreadAnswers(x) \/ ThreadDone(x) \/ ThreadWakes(x) \/ OnReady(x) \/ Release(x)
      PROVE ResolverInv'
  <2> DEFINE l == lookup[x]
             h == heard[x]
             m == lookup'[x]
             g == heard'[x]
  <2>1. l \in Lookup /\ h \in Heard /\ Sound(l, h)
    BY <1>5 DEF ResolverInv, LookupTypeOK
  <2>2. lookup' = [lookup EXCEPT ![x] = m] /\ heard' = [heard EXCEPT ![x] = g]
    BY <1>5 DEF ResolverInv, LookupTypeOK, InlineNotice, ThreadAnswers, ThreadDone, ThreadWakes, Touches, OnReady, Release
  <2>3. m \in Lookup /\ g \in Heard /\ Sound(m, g)
    <3>1. CASE InlineNotice(x)
      <4>1. m = [l EXCEPT !.notice = FALSE, !.registry = FALSE] /\ g = [h EXCEPT !.notices = @ + 1] /\ l.notice
        BY <3>1 DEF InlineNotice, ResolverInv, LookupTypeOK
      <4> HIDE DEF l, h, m, g
      <4>2. h.notices = 0 /\ ~l.watcher
        BY <2>1, <4>1 DEF Sound
      <4>a. m \in Lookup
        BY <2>1, <4>1 DEF Lookup
      <4>b. h.notices + 1 \in Nat
        BY <4>2
      <4>c. g \in Heard
        BY <2>1, <4>1, <4>b DEF Heard
      <4>3. m \in Lookup /\ g \in Heard
        BY <4>a, <4>c
      <4>4. g.notices = 1 /\ ~g.touchedFreed
        BY <2>1, <4>1, <4>2 DEF Heard, Sound
      <4>5. l.thread = "exited"
        BY <2>1, <4>1 DEF Lookup, Sound
      <4>6. m.thread = "exited" /\ ~m.notice /\ ~m.watcher /\ ~m.registry /\ m.fell
        BY <2>1, <4>1, <4>2, <4>5 DEF Lookup, Sound
      <4> QED BY <4>3, <4>4, <4>6 DEF Sound
    <3>2. CASE ThreadAnswers(x)
      BY <2>1, <3>2 DEF ThreadAnswers, Touches, Freed, ResolverInv, LookupTypeOK, Lookup, Heard, Sound
    <3>3. CASE ThreadDone(x)
      BY <2>1, <3>3 DEF ThreadDone, Touches, Freed, ResolverInv, LookupTypeOK, Lookup, Heard, Sound
    <3>4. CASE ThreadWakes(x)
      BY <2>1, <3>4 DEF ThreadWakes, Touches, Freed, ResolverInv, LookupTypeOK, Lookup, Heard, Sound
    <3>5. CASE OnReady(x)
      BY <2>1, <3>5 DEF OnReady, Ready, ResolverInv, LookupTypeOK, Lookup, Heard, Sound
    <3>6. CASE Release(x)
      BY <2>1, <3>6 DEF Release, Released, ResolverInv, LookupTypeOK, Lookup, Heard, Sound
    <3> QED BY <1>5, <3>1, <3>2, <3>3, <3>4, <3>5, <3>6
  <2> QED BY <1>2, <2>2, <2>3
<1> QED BY <1>1, <1>4, <1>5 DEF ResolverNext

\* For any number of lookups, in any order of thread, loop and program: the thread of a lookup writes into a live
\* ResolveState, and the program hears once at most, and of a lookup it released only where there was no pipe.
THEOREM LookupStateCorrect == ResolverSpec => []LookupStateOutlivesThread
<1>1. ResolverInit => ResolverInv
  BY DEF ResolverInit, ResolverInv, LookupTypeOK, Lookup, Heard, Sound, Idle
<1>2. ResolverInv => LookupStateOutlivesThread
  BY DEF ResolverInv, LookupTypeOK, Heard, Sound, LookupStateOutlivesThread
<1> QED BY <1>1, <1>2, ResolverStep, PTL DEF ResolverSpec
=============================================================================
