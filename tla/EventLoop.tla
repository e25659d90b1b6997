------------------------------ MODULE EventLoop ------------------------------
(***************************************************************************)
(* The reactor of runtime/gea_node.cpp: the microtask and next-tick        *)
(* queues, the timer registry, the immediates and the loop that polls the  *)
(* watchers (runPoll, runEpoll and runKqueue have one control structure),  *)
(* with the main program of gea_node.hpp around it and the timer globals   *)
(* of runtime/node/global-timers.ts on top.                                *)
(*                                                                         *)
(* The process is single-threaded: a state is a C++ call stack.  While its *)
(* top frame is a callback (or the main program) JavaScript runs and may   *)
(* call anything.  server.listen() runs the loop again inside the caller.  *)
(***************************************************************************)
EXTENDS Integers, Sequences, FiniteSets

CONSTANTS
    NTimers, NImms, NTasks,  \* bounds on the timers, immediates and jobs made
    Watcher,                 \* I/O watchers
    MaxTime,                 \* bound on the clock
    MaxCalls,                \* bound on the calls JavaScript makes
    Env                      \* what JavaScript does in this instance, see AllEnv

(***************************************************************************)
(*   "interval"  setInterval()        "unref"  unref() and ref()           *)
(*   "listen"    a blocking server.listen()                                *)
(*   "await"     the main program awaits, which pumps the loop             *)
(*   "fail"      poll fails with an error other than EINTR                 *)
(***************************************************************************)
AllEnv == {"interval", "unref", "listen", "await", "fail"}

ASSUME BoundsAssumption ==
    /\ NTimers \in Nat /\ NImms \in Nat /\ NTasks \in Nat
    /\ MaxTime \in Nat /\ MaxCalls \in Nat
ASSUME EnvAssumption == Env \subseteq AllEnv

\* Ids are handed out in increasing order, so the order of a registry is the
\* order of its ids.
Timer == 1 .. NTimers
Imm == 1 .. NImms
Task == 1 .. NTasks

VARIABLES
    stack,     \* the C++ stack, see Frame
    micro,     \* microtasks()
    ticks,     \* next_ticks()
    draining,  \* the flag of drain_microtasks
    timers,    \* timers::registry(), by id
    firing,    \* timers::firingDue()
    imms,      \* immediates::queue(), by id
    watchers,  \* borrowed_, owned_ and closing_, by watcher
    weak,      \* the watchers for which isReferenced() is false
    depth,     \* dispatchDepth_
    now,       \* the clock
    made,      \* the id counters, and the calls made
    ran,       \* history: how often each callback was started
    cleared,   \* history: the timers and immediates JavaScript cleared
    overtaken  \* history: the timers that were in firingDue() when a nested loop
               \* collected its own

vars == <<stack, micro, ticks, draining, timers, firing, imms,
          watchers, weak, depth, now, made, ran, cleared, overtaken>>
queues == <<micro, ticks>>
io == <<watchers, weak>>
clocks == <<timers, firing, now>>
history == <<ran, cleared, overtaken>>

NoTimer == 0

(***************************************************************************)
(* main: the program, at "entry" while its top level runs.                 *)
(* run: one activation of the loop; `due' are the timers still to fire (by *)
(* due time) or the immediates still to run, `ready' the watchers still to *)
(* dispatch, `pending' the ids runAll has in runningBatches(), `alive'     *)
(* haveReferencedWatcher and `until' the timer an await waits for.         *)
(* drain, ticks: drain_microtasks and drain_next_ticks.                    *)
(* call: a callback of kind pc; an I/O callback is onReady of the watcher  *)
(* in `ready'.                                                             *)
(***************************************************************************)
Frame ==
    [fn : {"main", "run", "drain", "ticks", "call"},
     pc : {"entry", "run", "last", "done", "top", "idle", "fire", "fired", "ready",
           "dispatch", "dispatched", "check", "imm", "ranimm", "end",
           "loop", "retire", "final", "job", "tick", "timer", "immediate", "io"},
     due : SUBSET [id : Nat, at : Nat], ready : SUBSET Watcher, pending : SUBSET Imm,
     alive : BOOLEAN, until : Nat]

NewFrame(fn, pc) ==
    [fn |-> fn, pc |-> pc, due |-> {}, ready |-> {}, pending |-> {},
     alive |-> FALSE, until |-> NoTimer]

TypeOK ==
    /\ stack \in Seq(Frame)
    /\ micro \in Seq(Task) /\ ticks \in Seq(Task)
    /\ draining \in BOOLEAN
    /\ timers \in [Timer -> [armed : BOOLEAN, due : Nat, every : Nat,
                             repeats : BOOLEAN, ref : BOOLEAN]]
    /\ firing \subseteq Timer
    /\ imms \in [Imm -> [queued : BOOLEAN, ref : BOOLEAN]]
    /\ watchers \in [Watcher -> {"none", "open", "closing", "gone"}]
    /\ weak \subseteq Watcher
    /\ depth \in Nat /\ now \in Nat
    /\ made \in [timer : 0 .. NTimers, imm : 0 .. NImms, task : 0 .. NTasks,
                 call : 0 .. MaxCalls]
    /\ ran \in [timer : [Timer -> Nat], immediate : [Imm -> Nat], task : [Task -> Nat]]
    /\ cleared \in [timer : SUBSET Timer, immediate : SUBSET Imm]
    /\ overtaken \subseteq Timer

Init ==
    /\ stack = <<NewFrame("main", "entry")>>
    /\ micro = <<>> /\ ticks = <<>> /\ draining = FALSE
    /\ timers = [t \in Timer |-> [armed |-> FALSE, due |-> 0, every |-> 0,
                                  repeats |-> FALSE, ref |-> FALSE]]
    /\ firing = {}
    /\ imms = [i \in Imm |-> [queued |-> FALSE, ref |-> FALSE]]
    /\ watchers = [w \in Watcher |-> "none"]
    /\ weak = {}
    /\ depth = 0 /\ now = 0
    /\ made = [timer |-> 0, imm |-> 0, task |-> 0, call |-> 0]
    /\ ran = [timer |-> [t \in Timer |-> 0], immediate |-> [i \in Imm |-> 0],
              task |-> [j \in Task |-> 0]]
    /\ cleared = [timer |-> {}, immediate |-> {}]
    /\ overtaken = {}

----------------
(* The stack *)

Top == stack[Len(stack)]
Under == SubSeq(stack, 1, Len(stack) - 1)
At(fn, pc) == Top.fn = fn /\ Top.pc = pc
Goto(pc) == [stack EXCEPT ![Len(stack)].pc = pc]
Call(s, kind) == Append(s, NewFrame("call", kind))

\* drain_microtasks, called from a frame that goes on at s: a drain inside a
\* drain does nothing.
EnterDrain(s) ==
    IF draining THEN stack' = s /\ UNCHANGED draining
    ELSE stack' = Append(s, NewFrame("drain", "loop")) /\ draining' = TRUE

InJavaScript == Top.fn = "call" \/ At("main", "entry")

----------------
(* What JavaScript calls *)

JavaScriptCall ==
    /\ InJavaScript
    /\ made.call < MaxCalls

QueueMicrotask ==
    LET j == made.task + 1 IN
    /\ JavaScriptCall /\ j \in Task
    /\ made' = [made EXCEPT !.task = j, !.call = @ + 1]
    /\ micro' = Append(micro, j)
    /\ UNCHANGED <<stack, ticks, draining, clocks, imms, io, depth, history>>

NextTick ==
    LET j == made.task + 1 IN
    /\ JavaScriptCall /\ j \in Task
    /\ made' = [made EXCEPT !.task = j, !.call = @ + 1]
    /\ ticks' = Append(ticks, j)
    /\ UNCHANGED <<stack, micro, draining, clocks, imms, io, depth, history>>

\* setTimeout and setInterval: timers::add.
SetTimer(delay, repeats) ==
    LET t == made.timer + 1 IN
    /\ JavaScriptCall /\ t \in Timer
    /\ repeats => "interval" \in Env
    /\ now + delay <= MaxTime
    /\ made' = [made EXCEPT !.timer = t, !.call = @ + 1]
    /\ timers' = [timers EXCEPT ![t] = [armed |-> TRUE, due |-> now + delay, every |-> delay,
                                        repeats |-> repeats, ref |-> TRUE]]
    /\ UNCHANGED <<stack, queues, draining, firing, now, imms, io, depth, history>>

\* clearTimeout and clearInterval: timers::remove.
ClearTimer(t) ==
    /\ JavaScriptCall /\ t <= made.timer
    /\ made' = [made EXCEPT !.call = @ + 1]
    /\ firing' = firing \ {t}
    /\ timers' = [timers EXCEPT ![t].armed = FALSE]
    /\ cleared' = [cleared EXCEPT !.timer = @ \cup {t}]
    /\ UNCHANGED <<stack, queues, draining, now, imms, io, depth, ran, overtaken>>

\* Timeout.unref: timers::unref finds only what the registry still holds.
UnrefTimer(t) ==
    /\ "unref" \in Env
    /\ JavaScriptCall /\ timers[t].armed /\ timers[t].ref
    /\ made' = [made EXCEPT !.call = @ + 1]
    /\ timers' = [timers EXCEPT ![t].ref = FALSE]
    /\ UNCHANGED <<stack, queues, draining, firing, now, imms, io, depth, history>>

SetImmediate ==
    LET i == made.imm + 1 IN
    /\ JavaScriptCall /\ i \in Imm
    /\ made' = [made EXCEPT !.imm = i, !.call = @ + 1]
    /\ imms' = [imms EXCEPT ![i] = [queued |-> TRUE, ref |-> TRUE]]
    /\ UNCHANGED <<stack, queues, draining, clocks, io, depth, history>>

\* The runAll of the innermost loop that is in one.
InnermostBatch(k) ==
    /\ stack[k].pc \in {"imm", "ranimm"}
    /\ \A l \in k + 1 .. Len(stack) : stack[l].pc \notin {"imm", "ranimm"}

\* Fault: only the innermost batch forgets the immediate.
ClearImmediateInnermost(i) ==
    /\ JavaScriptCall /\ i <= made.imm
    /\ made' = [made EXCEPT !.call = @ + 1]
    /\ stack' = [k \in DOMAIN stack |->
                   IF InnermostBatch(k) THEN [stack[k] EXCEPT !.pending = @ \ {i}] ELSE stack[k]]
    /\ imms' = [imms EXCEPT ![i].queued = FALSE]
    /\ cleared' = [cleared EXCEPT !.immediate = @ \cup {i}]
    /\ UNCHANGED <<queues, draining, clocks, io, depth, ran, overtaken>>

\* clearImmediate: immediates::remove, in every batch in flight.
ClearImmediate(i) ==
    /\ JavaScriptCall /\ i <= made.imm
    /\ made' = [made EXCEPT !.call = @ + 1]
    /\ stack' = [k \in DOMAIN stack |-> [stack[k] EXCEPT !.pending = @ \ {i}]]
    /\ imms' = [imms EXCEPT ![i].queued = FALSE]
    /\ cleared' = [cleared EXCEPT !.immediate = @ \cup {i}]
    /\ UNCHANGED <<queues, draining, clocks, io, depth, ran, overtaken>>

\* Immediate.ref and unref: immediates::setReferenced.
RefImmediate(i, referenced) ==
    /\ "unref" \in Env
    /\ JavaScriptCall /\ imms[i].queued /\ imms[i].ref # referenced
    /\ made' = [made EXCEPT !.call = @ + 1]
    /\ imms' = [imms EXCEPT ![i].ref = referenced]
    /\ UNCHANGED <<stack, queues, draining, clocks, io, depth, history>>

\* addBorrowed or adopt: a socket or a listener becomes watched.
AddWatcher(w) ==
    /\ JavaScriptCall /\ watchers[w] = "none"
    /\ made' = [made EXCEPT !.call = @ + 1]
    /\ watchers' = [watchers EXCEPT ![w] = "open"]
    /\ UNCHANGED <<stack, queues, draining, clocks, imms, weak, depth, history>>

\* EventLoop::close.
CloseWatcher(w) ==
    /\ JavaScriptCall /\ watchers[w] = "open"
    /\ made' = [made EXCEPT !.call = @ + 1]
    /\ watchers' = [watchers EXCEPT ![w] = "closing"]
    /\ UNCHANGED <<stack, queues, draining, clocks, imms, weak, depth, history>>

\* Socket.ref and unref: what isReferenced() answers.
RefWatcher(w) ==
    /\ "unref" \in Env
    /\ JavaScriptCall /\ watchers[w] = "open"
    /\ made' = [made EXCEPT !.call = @ + 1]
    /\ weak' = IF w \in weak THEN weak \ {w} ELSE weak \cup {w}
    /\ UNCHANGED <<stack, queues, draining, clocks, imms, watchers, depth, history>>

\* server.listen(): serve() adds the listener and runs the loop in place.
Listen(w) ==
    /\ "listen" \in Env
    /\ JavaScriptCall /\ watchers[w] = "none"
    /\ made' = [made EXCEPT !.call = @ + 1]
    /\ watchers' = [watchers EXCEPT ![w] = "open"]
    /\ stack' = Append(stack, NewFrame("run", "top"))
    /\ UNCHANGED <<queues, draining, clocks, imms, weak, depth, history>>

\* A top-level await of a promise that timer t resolves: it pumps the loop with
\* __gea_node_pump_until.  From a callback it would abort the program.
Await(t) ==
    /\ "await" \in Env
    /\ JavaScriptCall /\ Len(stack) = 1
    /\ t <= made.timer /\ ran.timer[t] = 0
    /\ made' = [made EXCEPT !.call = @ + 1]
    /\ stack' = Append(stack, [NewFrame("run", "top") EXCEPT !.until = t])
    /\ UNCHANGED <<queues, draining, clocks, imms, io, depth, history>>

\* A callback returns.
Return ==
    /\ Top.fn = "call"
    /\ stack' = Under
    /\ UNCHANGED <<queues, draining, clocks, imms, io, depth, made, history>>

JavaScript ==
    \/ QueueMicrotask \/ NextTick \/ SetImmediate \/ Return
    \/ \E d \in {0, 1}, r \in BOOLEAN : SetTimer(d, r)
    \/ \E t \in Timer : ClearTimer(t) \/ UnrefTimer(t)
    \/ \E i \in Imm : ClearImmediate(i) \/ \E r \in BOOLEAN : RefImmediate(i, r)
    \/ \E w \in Watcher : AddWatcher(w) \/ CloseWatcher(w) \/ RefWatcher(w) \/ Listen(w)
    \/ \E t \in Timer : Await(t)

----------------
(* drain_microtasks and drain_next_ticks *)

DrainFrame == /\ Top.fn = "drain"
              /\ UNCHANGED <<clocks, imms, io, depth, made, cleared, overtaken>>

\* Ticks outrank the next microtask.
DrainTicks ==
    /\ DrainFrame /\ Top.pc = "loop" /\ ticks # <<>>
    /\ stack' = Append(IF micro = <<>> THEN Goto("final") ELSE stack, NewFrame("ticks", "loop"))
    /\ UNCHANGED <<queues, draining, ran>>

\* Fault: a microtask does not look at the ticks first.
DrainJobFirst ==
    /\ DrainFrame /\ Top.pc = "loop" /\ micro # <<>>
    /\ stack' = Call(Goto("retire"), "job")
    /\ ran' = [ran EXCEPT !.task[Head(micro)] = @ + 1]
    /\ UNCHANGED <<queues, draining>>

\* The job runs where it is queued ...
DrainJob ==
    /\ DrainFrame /\ Top.pc = "loop" /\ micro # <<>> /\ ticks = <<>>
    /\ stack' = Call(Goto("retire"), "job")
    /\ ran' = [ran EXCEPT !.task[Head(micro)] = @ + 1]
    /\ UNCHANGED <<queues, draining>>

\* ... and is popped when it returns.
DrainRetire ==
    /\ DrainFrame /\ Top.pc = "retire"
    /\ micro' = Tail(micro)
    /\ stack' = Goto("loop")
    /\ UNCHANGED <<ticks, draining, ran>>

\* The drain returns; the ticks of its last line may have queued microtasks.
DrainReturn ==
    /\ DrainFrame
    /\ Top.pc = "final" \/ (Top.pc = "loop" /\ micro = <<>> /\ ticks = <<>>)
    /\ stack' = Under
    /\ draining' = FALSE
    /\ UNCHANGED <<queues, ran>>

RunTick ==
    /\ Top.fn = "ticks" /\ ticks # <<>>
    /\ stack' = Call(stack, "tick")
    /\ ticks' = Tail(ticks)
    /\ ran' = [ran EXCEPT !.task[Head(ticks)] = @ + 1]
    /\ UNCHANGED <<micro, draining, clocks, imms, io, depth, made, cleared, overtaken>>

TicksReturn ==
    /\ Top.fn = "ticks" /\ ticks = <<>>
    /\ stack' = Under
    /\ UNCHANGED <<queues, draining, clocks, imms, io, depth, made, history>>

Drain == DrainTicks \/ DrainJob \/ DrainRetire \/ DrainReturn \/ RunTick \/ TicksReturn

----------------
(* The main program: entry, drain, run_pending, drain *)

Main ==
    /\ Top.fn = "main"
    /\ \/ Top.pc = "entry" /\ EnterDrain(Goto("run"))
       \/ Top.pc = "run" /\ stack' = Append(Goto("last"), NewFrame("run", "top"))
                         /\ UNCHANGED draining
       \/ Top.pc = "last" /\ EnterDrain(Goto("done"))
    /\ UNCHANGED <<queues, clocks, imms, io, depth, made, history>>

----------------
(* The loop *)

Open == {w \in Watcher : watchers[w] = "open"}
ReferencedWatchers == Open \ weak
TimersReferenced == \E t \in Timer : timers[t].armed /\ timers[t].ref
ImmsPending == \E i \in Imm : imms[i].queued
ImmsReferenced == \E i \in Imm : imms[i].queued /\ imms[i].ref

\* stopRequested: the promise awaited has settled.
Stop == Top.until # NoTimer /\ ran.timer[Top.until] > 0

\* Fault: a nested loop destroys what an outer pass still points to.
PurgeClosedAlways(d) ==
    watchers' = [w \in Watcher |-> IF watchers[w] = "closing" THEN "gone" ELSE watchers[w]]

\* purgeClosedIfSafe, when dispatchDepth_ is d.
PurgeClosedIfSafe(d) ==
    IF d = 0
      THEN watchers' = [w \in Watcher |-> IF watchers[w] = "closing" THEN "gone" ELSE watchers[w]]
      ELSE UNCHANGED watchers

RunFrame(pc) == At("run", pc) /\ UNCHANGED <<queues, made, cleared, overtaken>>

RunDrain ==
    /\ RunFrame("top")
    /\ EnterDrain(Goto("idle"))
    /\ UNCHANGED <<clocks, imms, io, depth, ran>>

\* Fault: the exit test looks at watchers and immediates only.
NoWorkWithoutTimers ==
    /\ Open = {} \/ (Top.until = NoTimer /\ ReferencedWatchers = {})
    /\ ~ImmsReferenced

\* The exit test.
NoWork ==
    /\ Open = {} \/ (Top.until = NoTimer /\ ReferencedWatchers = {})
    /\ ~TimersReferenced /\ ~ImmsReferenced

\* The awaited promise settled, only unreferenced work remains, or poll failed.
RunReturn ==
    /\ RunFrame("idle")
    /\ \/ Stop \/ NoWork
       \/ "fail" \in Env /\ micro = <<>> /\ ticks = <<>>
    /\ PurgeClosedIfSafe(depth)
    /\ stack' = Under
    /\ UNCHANGED <<draining, clocks, imms, weak, depth, ran>>

RunAgain ==
    /\ RunFrame("idle")
    /\ ~Stop /\ ~NoWork
    /\ micro # <<>> \/ ticks # <<>>
    /\ stack' = Goto("top")
    /\ UNCHANGED <<draining, clocks, imms, io, depth, ran>>

\* immediates::due with loopAlive.
ImmsDue(alive) == ImmsPending /\ (alive \/ ImmsReferenced)

Earliest(d) ==
    /\ \E t \in Timer : timers[t].armed /\ timers[t].due = d
    /\ \A t \in Timer : timers[t].armed => d <= timers[t].due

\* What poll may report: it waits for an event, for the earliest timer, or not
\* at all when immediates are due.
MayPoll(ready, later) ==
    /\ now <= later /\ later <= MaxTime
    /\ \/ ready # {}
       \/ ImmsDue(ReferencedWatchers # {} \/ TimersReferenced)
       \/ \E d \in 0 .. later : Earliest(d)

DueAt(later) == {t \in Timer : timers[t].armed /\ timers[t].due <= later}

\* timers::fireDue collects: intervals are armed again, the others removed.
FireDue(later) ==
    [t \in Timer |->
       IF t \notin DueAt(later) THEN timers[t]
       ELSE IF timers[t].repeats
              THEN [timers[t] EXCEPT !.due = later + (IF timers[t].every > 1
                                                        THEN timers[t].every ELSE 1)]
              ELSE [timers[t] EXCEPT !.armed = FALSE]]

\* The wait, and the start of the pass: dispatchDepth_ keeps the snapshot alive.
\* All loops share one firingDue(): what an outer fireDue had left there is gone.
Poll(ready, later) ==
    /\ At("run", "idle")
    /\ ~Stop /\ ~NoWork /\ micro = <<>> /\ ticks = <<>>
    /\ MayPoll(ready, later)
    /\ now' = later
    /\ depth' = depth + 1
    /\ timers' = FireDue(later)
    /\ firing' = DueAt(later)
    /\ overtaken' = overtaken \cup firing
    /\ stack' = [stack EXCEPT ![Len(stack)] =
                   [@ EXCEPT !.pc = "fire", !.due = {[id |-> t, at |-> timers[t].due] : t \in DueAt(later)},
                             !.ready = ready,
                             !.alive = ReferencedWatchers # {}]]
    /\ UNCHANGED <<queues, draining, imms, io, made, ran, cleared>>

\* The next of the timers or immediates that a pass has collected.
First(due) == CHOOSE e \in due : \A f \in due : e.at < f.at \/ (e.at = f.at /\ e.id <= f.id)
Rest == [stack EXCEPT ![Len(stack)].due = @ \ {First(Top.due)}]
NextDue == First(Top.due).id

\* A timer that a callback of this pass cleared is skipped.
FireTimer ==
    /\ RunFrame("fire") /\ Top.due # {}
    /\ IF NextDue \in firing
         THEN /\ firing' = firing \ {NextDue}
              /\ stack' = Call([Rest EXCEPT ![Len(stack)].pc = "fired"], "timer")
              /\ ran' = [ran EXCEPT !.timer[NextDue] = @ + 1]
         ELSE stack' = Rest /\ UNCHANGED <<firing, ran>>
    /\ UNCHANGED <<draining, timers, now, imms, io, depth>>

\* The checkpoint after each timer.
FiredTimer ==
    /\ RunFrame("fired")
    /\ EnterDrain(Goto("fire"))
    /\ UNCHANGED <<clocks, imms, io, depth, ran>>

FireDone ==
    /\ RunFrame("fire") /\ Top.due = {}
    /\ firing' = {}
    /\ EnterDrain(Goto("ready"))
    /\ UNCHANGED <<timers, now, imms, io, depth, ran>>

\* Stop before the dispatch, or take the snapshot.
Ready ==
    /\ RunFrame("ready")
    /\ IF Stop
         THEN /\ depth' = depth - 1
              /\ PurgeClosedIfSafe(depth - 1)
              /\ stack' = Under
         ELSE /\ stack' = Goto("dispatch")
              /\ UNCHANGED <<depth, watchers>>
    /\ UNCHANGED <<draining, clocks, imms, weak, ran>>

\* dispatchWatcher, unless the watcher was closed meanwhile.
Dispatch(w) ==
    /\ RunFrame("dispatch") /\ w \in Top.ready
    /\ LET s == [stack EXCEPT ![Len(stack)].ready = @ \ {w}] IN
         IF watchers[w] = "closing"
           THEN stack' = s /\ UNCHANGED depth
           ELSE /\ stack' = Append([s EXCEPT ![Len(s)].pc = "dispatched"],
                                   [NewFrame("call", "io") EXCEPT !.ready = {w}])
                /\ depth' = depth + 1
    /\ UNCHANGED <<draining, clocks, imms, io, ran>>

Dispatched ==
    /\ RunFrame("dispatched")
    /\ depth' = depth - 1
    /\ stack' = [stack EXCEPT ![Len(stack)] =
                   [Top EXCEPT !.pc = "dispatch", !.ready = IF Stop THEN {} ELSE @]]
    /\ UNCHANGED <<draining, clocks, imms, io, ran>>

DispatchDone ==
    /\ RunFrame("dispatch") /\ Top.ready = {}
    /\ EnterDrain(Goto("check"))
    /\ UNCHANGED <<clocks, imms, io, depth, ran>>

QueuedImms == {i \in Imm : imms[i].queued}

\* The running frame starts runAll on the frames s.
StartBatch(s) ==
    [s EXCEPT ![Len(s)] = [@ EXCEPT !.pc = "imm", !.pending = QueuedImms,
                                    !.due = {[id |-> i, at |-> 0] : i \in QueuedImms}]]

\* immediates::runAll takes the whole queue as its batch, or nothing.
TakeImmediates ==
    /\ RunFrame("check")
    /\ IF ImmsDue(Top.alive \/ TimersReferenced)
         THEN /\ imms' = [i \in Imm |-> [imms[i] EXCEPT !.queued = FALSE]]
              /\ stack' = StartBatch(stack)
         ELSE stack' = Goto("end") /\ UNCHANGED imms
    /\ UNCHANGED <<draining, clocks, io, depth, ran>>

\* The next of the batch, in the order of the queue, unless it was cleared.
RunImmediate ==
    /\ RunFrame("imm") /\ Top.due # {}
    /\ IF NextDue \in Top.pending
         THEN /\ stack' = Call([Rest EXCEPT ![Len(stack)].pc = "ranimm",
                                            ![Len(stack)].pending = @ \ {NextDue}], "immediate")
              /\ ran' = [ran EXCEPT !.immediate[NextDue] = @ + 1]
         ELSE stack' = Rest /\ UNCHANGED ran
    /\ UNCHANGED <<draining, clocks, imms, io, depth>>

RanImmediate ==
    /\ RunFrame("ranimm")
    /\ EnterDrain(Goto("imm"))
    /\ UNCHANGED <<clocks, imms, io, depth, ran>>

ImmediatesDone ==
    /\ RunFrame("imm") /\ Top.due = {}
    /\ stack' = Goto("end")
    /\ UNCHANGED <<draining, clocks, imms, io, depth, ran>>

EndPass ==
    /\ RunFrame("end")
    /\ depth' = depth - 1
    /\ PurgeClosedIfSafe(depth - 1)
    /\ stack' = IF Stop THEN Under ELSE Goto("top")
    /\ UNCHANGED <<draining, clocks, imms, weak, ran>>

Loop ==
    \/ RunDrain \/ RunReturn \/ RunAgain
    \/ \E ready \in SUBSET Open, later \in 0 .. MaxTime : Poll(ready, later)
    \/ FireTimer \/ FiredTimer \/ FireDone
    \/ Ready \/ (\E w \in Watcher : Dispatch(w)) \/ Dispatched \/ DispatchDone
    \/ TakeImmediates \/ RunImmediate \/ RanImmediate \/ ImmediatesDone
    \/ EndPass

Next == JavaScript \/ Drain \/ Main \/ Loop

Spec == Init /\ [][Next]_vars

\* The thread runs, callbacks return, and time passes: whenever the loop keeps
\* waiting, some wait ends later than it began.
FairSpec ==
    /\ Spec
    /\ WF_vars(Return \/ Drain \/ Main \/ Loop)
    /\ SF_vars(\E ready \in SUBSET Watcher, later \in 0 .. MaxTime :
                 later > now /\ ready \subseteq Open /\ Poll(ready, later))

----------------
(* Properties *)

\* clearTimeout, clearInterval and clearImmediate are final: a callback they
\* cancelled never starts, not even when the pass that collected it is already
\* running, or when an outer pass of immediates holds it (gea_node.cpp 351-363,
\* 442-457).
ClearedNeverRuns ==
    [][ /\ \A t \in cleared.timer : ran'.timer[t] = ran.timer[t]
        /\ \A i \in cleared.immediate : ran'.immediate[i] = ran.immediate[i] ]_vars

\* No activation of the loop and no onReady on the stack refers to a watcher that
\* has been destroyed, however loops nest (dispatchDepth_ and purgeClosedIfSafe,
\* gea_node.cpp 1115-1129 and 1173-1177).
NoDanglingWatcher ==
    \A k \in DOMAIN stack : \A w \in stack[k].ready : watchers[w] # "gone"

\* An immediate is in exactly one place: the queue, the batch of one pass, run
\* once, or cleared; a nested pass leaves its caller's batch alone
\* (gea_node.cpp 442-445).
ImmediatesKept ==
    \A i \in 1 .. made.imm :
        LET places == (IF imms[i].queued THEN 1 ELSE 0) + ran.immediate[i]
                        + Cardinality({k \in DOMAIN stack : i \in stack[k].pending}) IN
        IF i \in cleared.immediate THEN places <= 1 ELSE places = 1

\* A timer that was not cleared is armed, collected by a pass that still holds
\* it, or - unless it repeats - has run, and that once (fireDue, gea_node.cpp
\* 374-407).  The exception: all loops share one firingDue() (396), so what a
\* pass has not fired yet is lost when a callback of that pass runs the loop with
\* server.listen() and the inner loop collects timers of its own.
Collected(t) == t \in firing /\ \E k \in DOMAIN stack : \E e \in stack[k].due :
                                   stack[k].pc \in {"fire", "fired"} /\ e.id = t
NoTimerLost ==
    \A t \in 1 .. made.timer :
        /\ ~timers[t].repeats => ran.timer[t] <= 1
        /\ \/ timers[t].armed \/ t \in cleared.timer \/ Collected(t)
           \/ ~timers[t].repeats /\ ran.timer[t] = 1
           \/ t \in overtaken

\* Next ticks outrank everything else: no microtask, timer or immediate starts
\* while a tick waits (drain_microtasks, gea_node.cpp 98-104, and its six calls
\* in the loop).
TicksFirst ==
    [][ \/ ran' = ran
        \/ Top.fn = "ticks"
        \/ ticks = <<>> ]_vars

\* A referenced timer that is armed while the loop runs keeps it running until the
\* timer fires, unless JavaScript clears or unreferences it: the exit test
\* (gea_node.cpp 1239-1243) and the poll timeout (333-342) never strand one.
InLoop == Len(stack) > 1 /\ stack[2].fn = "run"
TimersFire ==
    \A t \in Timer :
        (timers[t].armed /\ timers[t].ref /\ InLoop)
            ~> (ran.timer[t] > 0 \/ t \in cleared.timer \/ ~timers[t].ref)

\* The timers, the queues and the watchers of the loop, over nested loops.
LoopSafe == TypeOK /\ NoTimerLost /\ ImmediatesKept /\ NoDanglingWatcher
=============================================================================
