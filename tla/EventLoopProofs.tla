--------------------------- MODULE EventLoopProofs ---------------------------
(***************************************************************************)
(* Proofs about EventLoop, for any number of timers, immediates, jobs,     *)
(* watchers and calls, and any depth of nested loops.                      *)
(***************************************************************************)
EXTENDS EventLoop, SequenceTheorems, FiniteSetTheorems, TLAPS

----------------
(* The stack *)

Fn == {"main", "run", "drain", "ticks", "call"}
Pc == {"entry", "run", "last", "done", "top", "idle", "fire", "fired", "ready",
       "dispatch", "dispatched", "check", "imm", "ranimm", "end",
       "loop", "retire", "final", "job", "tick", "timer", "immediate", "io"}

\* The main program is at the bottom, and no batch holds an immediate of I.
GoodStack(s, I) ==
    /\ s \in Seq(Frame)
    /\ Len(s) >= 1
    /\ s[1].fn = "main"
    /\ \A k \in 1 .. Len(s) : s[k].pending \cap I = {}

LEMMA NewFrameType ==
    ASSUME NEW fn \in Fn, NEW pc \in Pc
    PROVE  /\ NewFrame(fn, pc) \in Frame
           /\ NewFrame(fn, pc).fn = fn /\ NewFrame(fn, pc).pending = {}
BY DEF NewFrame, Frame, Fn, Pc, NoTimer

LEMMA TopFrame ==
    ASSUME NEW s, NEW I, GoodStack(s, I)
    PROVE  /\ Len(s) \in Nat \ {0} /\ Len(s) \in 1 .. Len(s) /\ DOMAIN s = 1 .. Len(s)
           /\ s[Len(s)] \in Frame /\ s[Len(s)].pending \cap I = {}
BY DEF GoodStack

LEMMA PushGood ==
    ASSUME NEW s, NEW I, GoodStack(s, I), NEW f \in Frame, f.pending \cap I = {}
    PROVE  GoodStack(Append(s, f), I)
<1>1. /\ Append(s, f) \in Seq(Frame) /\ Len(Append(s, f)) = Len(s) + 1 /\ Len(s) \in Nat
      /\ \A k \in 1 .. Len(s) : Append(s, f)[k] = s[k]
      /\ Append(s, f)[Len(s) + 1] = f
  BY DEF GoodStack
<1>2. \A k \in 1 .. Len(s) + 1 : k \in 1 .. Len(s) \/ k = Len(s) + 1
  BY <1>1
<1>3. \A k \in 1 .. Len(s) + 1 : Append(s, f)[k].pending \cap I = {}
  BY <1>1, <1>2 DEF GoodStack
<1>4. 1 \in 1 .. Len(s)
  BY <1>1 DEF GoodStack
<1>5. QED
  BY <1>1, <1>3, <1>4 DEF GoodStack

\* What is left of a stack without its top frame.
LEMMA PopShape ==
    ASSUME NEW s \in Seq(Frame), Len(s) >= 1
    PROVE  LET n == Len(s) - 1
               u == SubSeq(s, 1, n) IN
           /\ n \in Nat /\ Len(s) = n + 1
           /\ u \in Seq(Frame) /\ Len(u) = n
           /\ \A k \in 1 .. n : u[k] = s[k] /\ s[k] \in Frame
<1> DEFINE n == Len(s) - 1
           u == SubSeq(s, 1, n)
<1>1. n \in Nat /\ Len(s) = n + 1 /\ 1 \in Int /\ n \in Int /\ \A k \in 1 .. n : s[k] \in Frame
  OBVIOUS
<1> HIDE DEF n
<1>2. /\ u \in Seq(Frame)
      /\ Len(u) = IF 1 <= n THEN n - 1 + 1 ELSE 0
      /\ \A k \in 1 .. n - 1 + 1 : u[k] = s[1 + k - 1]
  BY <1>1, SubSeqProperties
<1> HIDE DEF u
<1>3. Len(u) = n /\ \A k \in 1 .. n : u[k] = s[k]
  BY <1>1, <1>2
<1>4. QED
  BY <1>1, <1>2, <1>3 DEF n, u

LEMMA PopGood ==
    ASSUME NEW I, GoodStack(stack, I), Top.fn # "main"
    PROVE  GoodStack(Under, I)
<1>1. Len(stack) \in Nat /\ Len(stack) # 1 /\ Len(stack) >= 1
  BY DEF GoodStack, Top
<1>2. /\ Under \in Seq(Frame) /\ Len(Under) = Len(stack) - 1
      /\ \A k \in 1 .. Len(stack) - 1 : Under[k] = stack[k]
  BY <1>1, PopShape DEF GoodStack, Under
<1>3. 1 \in 1 .. Len(stack) - 1 /\ Len(Under) >= 1
  BY <1>1, <1>2
<1>4. \A k \in 1 .. Len(Under) : k \in 1 .. Len(stack) /\ Under[k] = stack[k]
  BY <1>1, <1>2
<1>5. QED
  BY <1>2, <1>3, <1>4 DEF GoodStack

LEMMA TopGood ==
    ASSUME NEW s, NEW I, GoodStack(s, I),
           NEW f \in Frame, f.fn = s[Len(s)].fn, f.pending \cap I = {}
    PROVE  /\ GoodStack([s EXCEPT ![Len(s)] = f], I)
           /\ Len([s EXCEPT ![Len(s)] = f]) = Len(s)
<1> DEFINE z == [s EXCEPT ![Len(s)] = f]
<1>1. Len(s) \in Nat /\ Len(s) >= 1 /\ s \in Seq(Frame)
  BY DEF GoodStack
<1>2. /\ z \in Seq(Frame) /\ Len(z) = Len(s)
      /\ \A k \in 1 .. Len(s) : z[k] = IF k = Len(s) THEN f ELSE s[k]
  BY <1>1
<1>3. 1 \in 1 .. Len(s) /\ z[1].fn = "main"
  BY <1>1, <1>2 DEF GoodStack
<1>4. \A k \in 1 .. Len(s) : z[k].pending \cap I = {}
  BY <1>2 DEF GoodStack
<1>5. GoodStack(z, I)
  BY <1>1, <1>2, <1>3, <1>4 DEF GoodStack
<1>6. QED
  BY <1>2, <1>5

LEMMA GotoGood ==
    ASSUME NEW I, GoodStack(stack, I), NEW pc \in Pc
    PROVE  GoodStack(Goto(pc), I)
<1>1. Top \in Frame /\ Top.pending \cap I = {} /\ Len(stack) \in 1 .. Len(stack)
      /\ stack[Len(stack)] = Top
  BY TopFrame DEF Top
<1>2. [Top EXCEPT !.pc = pc] \in Frame
  BY <1>1 DEF Frame, Pc
<1>3. /\ [Top EXCEPT !.pc = pc].fn = Top.fn
      /\ [Top EXCEPT !.pc = pc].pending = Top.pending
  BY <1>1 DEF Frame
<1>4. Goto(pc) = [stack EXCEPT ![Len(stack)] = [Top EXCEPT !.pc = pc]]
  BY <1>1 DEF Goto, GoodStack
<1>5. GoodStack([stack EXCEPT ![Len(stack)] = [Top EXCEPT !.pc = pc]], I)
  BY <1>1, <1>2, <1>3, TopGood
<1>6. QED
  BY <1>4, <1>5

LEMMA EnterDrainGood ==
    ASSUME NEW s, NEW I, GoodStack(s, I), EnterDrain(s)
    PROVE  GoodStack(stack', I)
<1>1. /\ NewFrame("drain", "loop") \in Frame
      /\ NewFrame("drain", "loop").pending \cap I = {}
  BY NewFrameType DEF Fn, Pc
<1>2. GoodStack(Append(s, NewFrame("drain", "loop")), I)
  BY <1>1, PushGood
<1>3. QED
  BY <1>2 DEF EnterDrain

----------------
(***************************************************************************)
(* What clearing leaves behind.  ClearedNeverRuns alone says nothing of    *)
(* the places a callback is started from; those are the registry (through  *)
(* the next pass), firingDue, the queue of immediates and every batch on   *)
(* the stack, and a cleared id is in none of them.                         *)
(***************************************************************************)
TimerEntry == [armed : BOOLEAN, due : Nat, every : Nat, repeats : BOOLEAN, ref : BOOLEAN]
ImmEntry == [queued : BOOLEAN, ref : BOOLEAN]

TimersOK ==
    /\ timers \in [Timer -> TimerEntry] /\ firing \subseteq Timer /\ now \in Nat
    /\ \A t \in cleared.timer : t <= made.timer /\ ~timers[t].armed /\ t \notin firing

ImmsOK ==
    /\ imms \in [Imm -> ImmEntry]
    /\ \A i \in cleared.immediate : i <= made.imm /\ ~imms[i].queued
    /\ GoodStack(stack, cleared.immediate)

Made == [timer : Nat, imm : Nat, task : Nat, call : Nat]

RecordsOK ==
    /\ made \in Made
    /\ cleared \in [timer : SUBSET Timer, immediate : SUBSET Imm]
    /\ ran \in [timer : [Timer -> Nat], immediate : [Imm -> Nat], task : [Task -> Nat]]

ClearInv == TimersOK /\ ImmsOK /\ RecordsOK

LEMMA ClearInit == Init => ClearInv
<1> SUFFICES ASSUME Init PROVE ClearInv
  OBVIOUS
<1>1. stack = <<NewFrame("main", "entry")>> /\ NewFrame("main", "entry") \in Frame
      /\ NewFrame("main", "entry").fn = "main" /\ NewFrame("main", "entry").pending = {}
  BY NewFrameType DEF Init, Fn, Pc
<1>2. GoodStack(stack, cleared.immediate)
  BY <1>1 DEF GoodStack
<1>3. TimersOK
  BY DEF Init, TimersOK, TimerEntry
<1>4. ImmsOK
  BY <1>2 DEF Init, ImmsOK, ImmEntry
<1>5. RecordsOK
  BY DEF Init, RecordsOK, Made
<1>6. QED
  BY <1>3, <1>4, <1>5 DEF ClearInv

\* Steps that leave timers, immediates and histories alone but for counting.
LEMMA OnlyStack ==
    ASSUME ClearInv, UNCHANGED <<timers, firing, now, imms, cleared>>,
           GoodStack(stack', cleared.immediate), RecordsOK',
           made'.timer = made.timer, made'.imm = made.imm
    PROVE  ClearInv'
BY DEF ClearInv, TimersOK, ImmsOK

LEMMA CountCall ==
    ASSUME RecordsOK, made' = [made EXCEPT !.call = @ + 1], UNCHANGED ran
    PROVE  /\ made'.timer = made.timer /\ made'.imm = made.imm
           /\ cleared' = cleared => RecordsOK'
BY DEF RecordsOK, Made

LEMMA MadeFields ==
    ASSUME NEW m \in Made, NEW n \in Nat
    PROVE  /\ [m EXCEPT !.call = @ + 1] \in Made
           /\ [m EXCEPT !.timer = n] \in Made /\ [m EXCEPT !.timer = n].timer = n
           /\ [m EXCEPT !.imm = n] \in Made /\ [m EXCEPT !.imm = n].imm = n
           /\ [m EXCEPT !.task = n] \in Made
           /\ [m EXCEPT !.timer = n].imm = m.imm /\ [m EXCEPT !.imm = n].timer = m.timer
           /\ [m EXCEPT !.task = n].imm = m.imm /\ [m EXCEPT !.task = n].timer = m.timer
           /\ [m EXCEPT !.call = n].imm = m.imm /\ [m EXCEPT !.call = n].timer = m.timer
           /\ [m EXCEPT !.call = n] \in Made /\ m.call + 1 \in Nat
BY DEF Made

LEMMA CountTask ==
    ASSUME RecordsOK, NEW j \in Nat, made' = [made EXCEPT !.task = j, !.call = @ + 1],
           UNCHANGED <<ran, cleared>>
    PROVE  made'.timer = made.timer /\ made'.imm = made.imm /\ RecordsOK'
<1> DEFINE m == [made EXCEPT !.task = j]
<1>1. /\ m \in Made /\ made.call + 1 \in Nat
      /\ m.timer = made.timer /\ m.imm = made.imm
  BY MadeFields DEF RecordsOK
<1>2. made' = [m EXCEPT !.call = made.call + 1]
  OBVIOUS
<1> HIDE DEF m
<1>3. made' \in Made /\ made'.timer = m.timer /\ made'.imm = m.imm
  BY <1>1, <1>2 DEF Made
<1>4. QED
  BY <1>1, <1>3 DEF RecordsOK

LEMMA Bounds ==
    /\ NTimers \in Nat /\ NImms \in Nat /\ NTasks \in Nat /\ MaxTime \in Nat /\ MaxCalls \in Nat
    /\ Timer \subseteq Nat /\ Imm \subseteq Nat /\ Task \subseteq Nat
BY BoundsAssumption DEF Timer, Imm, Task

\* What JavaScript calls.
LEMMA TimerCalls ==
    ASSUME ClearInv
    PROVE  /\ \A d \in {0, 1}, r \in BOOLEAN : SetTimer(d, r) => ClearInv'
           /\ \A t \in Timer : ClearTimer(t) \/ UnrefTimer(t) => ClearInv'
<1> USE DEF history, queues, io, clocks
<1>1. ASSUME NEW d \in {0, 1}, NEW r \in BOOLEAN, SetTimer(d, r) PROVE ClearInv'
  <2> DEFINE t == made.timer + 1
             e == [armed |-> TRUE, due |-> now + d, every |-> d, repeats |-> r, ref |-> TRUE]
  <2>1. /\ t \in Timer /\ timers' = [timers EXCEPT ![t] = e]
        /\ made' = [made EXCEPT !.timer = t, !.call = @ + 1]
        /\ UNCHANGED <<stack, firing, now, imms, ran, cleared>>
    BY <1>1 DEF SetTimer
  <2>2. t \in Nat /\ t > made.timer /\ made'.timer = t /\ made'.imm = made.imm /\ RecordsOK'
    <3> DEFINE m == [made EXCEPT !.timer = t]
    <3>1. t \in Nat /\ t > made.timer /\ made \in Made
      BY DEF ClearInv, RecordsOK, Made
    <3> HIDE DEF t
    <3>2. /\ m \in Made /\ made.call + 1 \in Nat
          /\ m.timer = t /\ m.imm = made.imm
      BY <3>1, MadeFields
    <3>3. made' = [m EXCEPT !.call = made.call + 1]
      BY <2>1
    <3> HIDE DEF m
    <3>4. made' \in Made /\ made'.timer = m.timer /\ made'.imm = m.imm
      BY <3>2, <3>3, MadeFields
    <3>5. QED
      BY <2>1, <3>1, <3>2, <3>4 DEF ClearInv, RecordsOK
  <2>3. e \in TimerEntry
    BY DEF TimerEntry, ClearInv, TimersOK
  <2>4. t \notin cleared.timer /\ \A u \in cleared.timer : u \in Nat /\ u <= t
    BY <2>2, Bounds DEF ClearInv, TimersOK, RecordsOK, Made
  <2> HIDE DEF t, e
  <2>5. timers' \in [Timer -> TimerEntry] /\ \A u \in cleared.timer : timers'[u] = timers[u]
    BY <2>1, <2>3, <2>4 DEF ClearInv, TimersOK, RecordsOK
  <2>6. TimersOK'
    BY <2>1, <2>2, <2>4, <2>5 DEF ClearInv, TimersOK
  <2>7. ImmsOK'
    BY <2>1, <2>2 DEF ClearInv, ImmsOK
  <2>8. QED
    BY <2>2, <2>6, <2>7 DEF ClearInv
<1>2. ASSUME NEW t \in Timer, ClearTimer(t) PROVE ClearInv'
  <2>1. /\ t <= made.timer /\ timers' = [timers EXCEPT ![t].armed = FALSE]
        /\ made' = [made EXCEPT !.call = @ + 1] /\ firing' = firing \ {t}
        /\ cleared' = [cleared EXCEPT !.timer = @ \cup {t}]
        /\ UNCHANGED <<stack, now, imms, ran>>
    BY <1>2 DEF ClearTimer
  <2>2. made'.timer = made.timer /\ made'.imm = made.imm
    BY <2>1, CountCall DEF ClearInv
  <2>3. /\ cleared'.timer = cleared.timer \cup {t} /\ cleared'.immediate = cleared.immediate
        /\ RecordsOK'
    BY <2>1, MadeFields DEF ClearInv, RecordsOK
  <2>4. /\ timers' \in [Timer -> TimerEntry]
        /\ ~timers'[t].armed
        /\ \A u \in Timer : u # t => timers'[u] = timers[u]
    BY <2>1 DEF ClearInv, TimersOK, TimerEntry
  <2>5. TimersOK'
    BY <2>1, <2>2, <2>3, <2>4 DEF ClearInv, TimersOK, RecordsOK
  <2>6. ImmsOK'
    BY <2>1, <2>2, <2>3 DEF ClearInv, ImmsOK
  <2>7. QED
    BY <2>3, <2>5, <2>6 DEF ClearInv
<1>3. ASSUME NEW t \in Timer, UnrefTimer(t) PROVE ClearInv'
  <2>1. /\ timers' = [timers EXCEPT ![t].ref = FALSE]
        /\ made' = [made EXCEPT !.call = @ + 1]
        /\ UNCHANGED <<stack, firing, now, imms, ran, cleared>>
    BY <1>3 DEF UnrefTimer
  <2>2. made'.timer = made.timer /\ made'.imm = made.imm /\ RecordsOK'
    BY <2>1, CountCall DEF ClearInv
  <2>3. /\ timers' \in [Timer -> TimerEntry]
        /\ \A u \in Timer : timers'[u].armed = timers[u].armed
    BY <2>1 DEF ClearInv, TimersOK, TimerEntry
  <2>4. TimersOK'
    BY <2>1, <2>2, <2>3 DEF ClearInv, TimersOK, RecordsOK
  <2>5. ImmsOK'
    BY <2>1, <2>2 DEF ClearInv, ImmsOK
  <2>6. QED
    BY <2>2, <2>4, <2>5 DEF ClearInv
<1>4. QED
  BY <1>1, <1>2, <1>3

\* The stack with one immediate taken out of every batch.
Without(i) == [k \in DOMAIN stack |-> [stack[k] EXCEPT !.pending = @ \ {i}]]

LEMMA WithoutGood ==
    ASSUME NEW I, GoodStack(stack, I), NEW i
    PROVE  GoodStack(Without(i), I \cup {i})
<1>1. DOMAIN stack = 1 .. Len(stack) /\ Len(stack) \in Nat /\ 1 \in 1 .. Len(stack)
      /\ \A k \in 1 .. Len(stack) : stack[k] \in Frame
  BY DEF GoodStack
<1>2. \A k \in 1 .. Len(stack) :
        /\ Without(i)[k] \in Frame
        /\ Without(i)[k].fn = stack[k].fn
        /\ Without(i)[k].pending = stack[k].pending \ {i}
  BY <1>1 DEF Without, Frame
<1>3. Without(i) = [k \in 1 .. Len(stack) |-> Without(i)[k]]
  BY <1>1 DEF Without
<1>4. Without(i) \in Seq(Frame) /\ Len(Without(i)) = Len(stack)
  BY <1>1, <1>2, <1>3
<1>5. \A k \in 1 .. Len(stack) : Without(i)[k].pending \cap (I \cup {i}) = {}
  BY <1>2 DEF GoodStack
<1>6. QED
  BY <1>1, <1>2, <1>4, <1>5 DEF GoodStack

LEMMA ImmediateCalls ==
    ASSUME ClearInv
    PROVE  /\ SetImmediate => ClearInv'
           /\ \A i \in Imm : ClearImmediate(i) => ClearInv'
           /\ \A i \in Imm, r \in BOOLEAN : RefImmediate(i, r) => ClearInv'
<1> USE DEF history, queues, io, clocks
<1>1. ASSUME SetImmediate PROVE ClearInv'
  <2> DEFINE i == made.imm + 1
             e == [queued |-> TRUE, ref |-> TRUE]
  <2>1. /\ i \in Imm /\ imms' = [imms EXCEPT ![i] = e]
        /\ made' = [made EXCEPT !.imm = i, !.call = @ + 1]
        /\ UNCHANGED <<stack, timers, firing, now, ran, cleared>>
    BY <1>1 DEF SetImmediate
  <2>2. i \in Nat /\ i > made.imm /\ made'.timer = made.timer /\ made'.imm = i /\ RecordsOK'
    <3> DEFINE m == [made EXCEPT !.imm = i]
    <3>1. i \in Nat /\ i > made.imm /\ made \in Made
      BY DEF ClearInv, RecordsOK, Made
    <3> HIDE DEF i
    <3>2. /\ m \in Made /\ made.call + 1 \in Nat
          /\ m.imm = i /\ m.timer = made.timer
      BY <3>1, MadeFields
    <3>3. made' = [m EXCEPT !.call = made.call + 1]
      BY <2>1
    <3> HIDE DEF m
    <3>4. made' \in Made /\ made'.timer = m.timer /\ made'.imm = m.imm
      BY <3>2, <3>3, MadeFields
    <3>5. QED
      BY <2>1, <3>1, <3>2, <3>4 DEF ClearInv, RecordsOK
  <2>3. e \in ImmEntry
    BY DEF ImmEntry
  <2>4. i \notin cleared.immediate /\ \A u \in cleared.immediate : u \in Nat /\ u <= i
    BY <2>2, Bounds DEF ClearInv, ImmsOK, RecordsOK, Made
  <2> HIDE DEF i, e
  <2>5. imms' \in [Imm -> ImmEntry] /\ \A u \in cleared.immediate : imms'[u] = imms[u]
    BY <2>1, <2>3, <2>4 DEF ClearInv, ImmsOK, RecordsOK
  <2>6. ImmsOK'
    BY <2>1, <2>2, <2>4, <2>5 DEF ClearInv, ImmsOK
  <2>7. TimersOK'
    BY <2>1, <2>2 DEF ClearInv, TimersOK
  <2>8. QED
    BY <2>2, <2>6, <2>7 DEF ClearInv
<1>2. ASSUME NEW i \in Imm, ClearImmediate(i) PROVE ClearInv'
  <2>1. /\ i <= made.imm /\ imms' = [imms EXCEPT ![i].queued = FALSE]
        /\ made' = [made EXCEPT !.call = @ + 1] /\ stack' = Without(i)
        /\ cleared' = [cleared EXCEPT !.immediate = @ \cup {i}]
        /\ UNCHANGED <<timers, firing, now, ran>>
    BY <1>2 DEF ClearImmediate, Without
  <2>2. made'.timer = made.timer /\ made'.imm = made.imm
    BY <2>1, CountCall DEF ClearInv
  <2>3. /\ cleared'.timer = cleared.timer /\ cleared'.immediate = cleared.immediate \cup {i}
        /\ RecordsOK'
    BY <2>1, MadeFields DEF ClearInv, RecordsOK
  <2>4. /\ imms' \in [Imm -> ImmEntry]
        /\ ~imms'[i].queued
        /\ \A u \in Imm : u # i => imms'[u] = imms[u]
    BY <2>1 DEF ClearInv, ImmsOK, ImmEntry
  <2>5. GoodStack(stack', cleared'.immediate)
    BY <2>1, <2>3, WithoutGood DEF ClearInv, ImmsOK
  <2>6. ImmsOK'
    BY <2>1, <2>2, <2>3, <2>4, <2>5 DEF ClearInv, ImmsOK, RecordsOK
  <2>7. TimersOK'
    BY <2>1, <2>2, <2>3 DEF ClearInv, TimersOK
  <2>8. QED
    BY <2>3, <2>6, <2>7 DEF ClearInv
<1>3. ASSUME NEW i \in Imm, NEW r \in BOOLEAN, RefImmediate(i, r) PROVE ClearInv'
  <2>1. /\ imms' = [imms EXCEPT ![i].ref = r]
        /\ made' = [made EXCEPT !.call = @ + 1]
        /\ UNCHANGED <<stack, timers, firing, now, ran, cleared>>
    BY <1>3 DEF RefImmediate
  <2>2. made'.timer = made.timer /\ made'.imm = made.imm /\ RecordsOK'
    BY <2>1, CountCall DEF ClearInv
  <2>3. /\ imms' \in [Imm -> ImmEntry]
        /\ \A u \in Imm : imms'[u].queued = imms[u].queued
    BY <2>1 DEF ClearInv, ImmsOK, ImmEntry
  <2>4. ImmsOK'
    BY <2>1, <2>2, <2>3 DEF ClearInv, ImmsOK, RecordsOK
  <2>5. TimersOK'
    BY <2>1, <2>2 DEF ClearInv, TimersOK
  <2>6. QED
    BY <2>2, <2>4, <2>5 DEF ClearInv
<1>4. QED
  BY <1>1, <1>2, <1>3

\* A frame that starts at pc is put on stack s.
LEMMA CallGood ==
    ASSUME NEW s, NEW I, GoodStack(s, I), NEW fn \in Fn, NEW pc \in Pc
    PROVE  GoodStack(Append(s, NewFrame(fn, pc)), I)
<1>1. NewFrame(fn, pc) \in Frame /\ NewFrame(fn, pc).pending \cap I = {}
  BY NewFrameType
<1>2. QED
  BY <1>1, PushGood

LEMMA AwaitGood ==
    ASSUME NEW I, GoodStack(stack, I), NEW t \in Timer
    PROVE  GoodStack(Append(stack, [NewFrame("run", "top") EXCEPT !.until = t]), I)
<1> DEFINE f == NewFrame("run", "top")
           g == [f EXCEPT !.until = t]
<1>1. f \in Frame /\ f.pending = {} /\ t \in Nat
  BY NewFrameType, Bounds DEF Fn, Pc
<1> HIDE DEF f
<1>2. g \in Frame /\ g.pending \cap I = {}
  BY <1>1 DEF Frame
<1>3. GoodStack(Append(stack, g), I)
  BY <1>2, PushGood
<1>4. QED
  BY <1>3 DEF f

LEMMA JavaScriptStep == ClearInv /\ JavaScript => ClearInv'
<1> SUFFICES ASSUME ClearInv, JavaScript PROVE ClearInv'
  OBVIOUS
<1> DEFINE I == cleared.immediate
<1>0. GoodStack(stack, I) /\ RecordsOK /\ made \in Made
  BY DEF ClearInv, ImmsOK, RecordsOK
<1> USE DEF history, queues, io, clocks
<1>1. ASSUME QueueMicrotask \/ NextTick PROVE ClearInv'
  <2> DEFINE j == made.task + 1
  <2>1. /\ j \in Task /\ made' = [made EXCEPT !.task = j, !.call = @ + 1]
        /\ UNCHANGED <<stack, timers, firing, now, imms, ran, cleared>>
    BY <1>1 DEF QueueMicrotask, NextTick
  <2>2. j \in Nat
    BY <2>1, Bounds
  <2> HIDE DEF j
  <2>3. made'.timer = made.timer /\ made'.imm = made.imm /\ RecordsOK'
    BY <1>0, <2>1, <2>2, CountTask
  <2>4. QED
    BY <1>0, <2>1, <2>3, OnlyStack
<1>2. ASSUME Return PROVE ClearInv'
  <2>1. Top.fn # "main" /\ stack' = Under
        /\ UNCHANGED <<timers, firing, now, imms, made, ran, cleared>>
    BY <1>2 DEF Return
  <2>2. GoodStack(stack', I) /\ RecordsOK'
    BY <1>0, <2>1, PopGood DEF RecordsOK
  <2>3. QED
    BY <2>1, <2>2, OnlyStack
<1>3. ASSUME NEW w \in Watcher, AddWatcher(w) \/ CloseWatcher(w) \/ RefWatcher(w)
      PROVE  ClearInv'
  <2>1. made' = [made EXCEPT !.call = @ + 1]
        /\ UNCHANGED <<stack, timers, firing, now, imms, ran, cleared>>
    BY <1>3 DEF AddWatcher, CloseWatcher, RefWatcher
  <2>2. QED
    BY <1>0, <2>1, CountCall, OnlyStack
<1>4. ASSUME NEW w \in Watcher, Listen(w) PROVE ClearInv'
  <2>1. /\ made' = [made EXCEPT !.call = @ + 1]
        /\ stack' = Append(stack, NewFrame("run", "top"))
        /\ UNCHANGED <<timers, firing, now, imms, ran, cleared>>
    BY <1>4 DEF Listen
  <2>2. GoodStack(stack', I)
    BY <1>0, <2>1, CallGood DEF Fn, Pc
  <2>3. QED
    BY <1>0, <2>1, <2>2, CountCall, OnlyStack
<1>5. ASSUME NEW t \in Timer, Await(t) PROVE ClearInv'
  <2>1. /\ made' = [made EXCEPT !.call = @ + 1]
        /\ stack' = Append(stack, [NewFrame("run", "top") EXCEPT !.until = t])
        /\ UNCHANGED <<timers, firing, now, imms, ran, cleared>>
    BY <1>5 DEF Await
  <2>2. GoodStack(stack', I)
    BY <1>0, <2>1, AwaitGood
  <2>3. QED
    BY <1>0, <2>1, <2>2, CountCall, OnlyStack
<1>6. QED
  BY <1>1, <1>2, <1>3, <1>4, <1>5, TimerCalls, ImmediateCalls DEF JavaScript

----------------
(* The queues and the main program *)

LEMMA RanFields ==
    ASSUME RecordsOK, NEW x
    PROVE  /\ [ran EXCEPT !.task[x] = @ + 1] \in
                [timer : [Timer -> Nat], immediate : [Imm -> Nat], task : [Task -> Nat]]
           /\ [ran EXCEPT !.timer[x] = @ + 1] \in
                [timer : [Timer -> Nat], immediate : [Imm -> Nat], task : [Task -> Nat]]
           /\ [ran EXCEPT !.immediate[x] = @ + 1] \in
                [timer : [Timer -> Nat], immediate : [Imm -> Nat], task : [Task -> Nat]]
BY DEF RecordsOK

LEMMA DrainStep == ClearInv /\ Drain => ClearInv'
<1> SUFFICES ASSUME ClearInv, Drain PROVE ClearInv'
  OBVIOUS
<1> DEFINE I == cleared.immediate
<1>0. GoodStack(stack, I) /\ RecordsOK
  BY DEF ClearInv, ImmsOK
<1> USE DEF history, queues, io, clocks
<1>1. /\ UNCHANGED <<timers, firing, now, imms, made, cleared>>
      /\ ran' = ran \/ \E x : ran' = [ran EXCEPT !.task[x] = @ + 1]
  BY DEF Drain, DrainFrame, DrainTicks, DrainJob, DrainRetire, DrainReturn, RunTick, TicksReturn
<1>2. RecordsOK'
  BY <1>0, <1>1, RanFields DEF RecordsOK
<1>3. GoodStack(Goto("final"), I) /\ GoodStack(Goto("retire"), I) /\ GoodStack(Goto("loop"), I)
  BY <1>0, GotoGood DEF Pc
<1>4. CASE DrainTicks
  <2>1. \E s \in {Goto("final"), stack} : stack' = Append(s, NewFrame("ticks", "loop"))
    BY <1>4 DEF DrainTicks
  <2>2. GoodStack(stack', I)
    BY <1>0, <1>3, <2>1, CallGood DEF Fn, Pc
  <2>3. QED
    BY <1>1, <1>2, <2>2, OnlyStack
<1>5. CASE DrainJob
  <2>1. GoodStack(stack', I)
    BY <1>3, <1>5, CallGood DEF DrainJob, Call, Fn, Pc
  <2>2. QED
    BY <1>1, <1>2, <2>1, OnlyStack
<1>6. CASE DrainRetire
  BY <1>1, <1>2, <1>3, <1>6, OnlyStack DEF DrainRetire
<1>7. CASE DrainReturn \/ TicksReturn
  <2>1. stack' = Under /\ Top.fn # "main"
    BY <1>7 DEF DrainReturn, DrainFrame, TicksReturn
  <2>2. GoodStack(stack', I)
    BY <1>0, <2>1, PopGood
  <2>3. QED
    BY <1>1, <1>2, <2>2, OnlyStack
<1>8. CASE RunTick
  <2>1. GoodStack(stack', I)
    BY <1>0, <1>8, CallGood DEF RunTick, Call, Fn, Pc
  <2>2. QED
    BY <1>1, <1>2, <2>1, OnlyStack
<1>9. QED
  BY <1>4, <1>5, <1>6, <1>7, <1>8 DEF Drain

LEMMA MainStep == ClearInv /\ Main => ClearInv'
<1> SUFFICES ASSUME ClearInv, Main PROVE ClearInv'
  OBVIOUS
<1> DEFINE I == cleared.immediate
<1>0. GoodStack(stack, I) /\ RecordsOK
  BY DEF ClearInv, ImmsOK
<1>1. UNCHANGED <<timers, firing, now, imms, made, ran, cleared>>
  BY DEF Main, history, queues, io, clocks
<1>2. /\ GoodStack(Goto("run"), I) /\ GoodStack(Goto("last"), I)
      /\ GoodStack(Goto("done"), I)
  BY <1>0, GotoGood DEF Pc
<1>3. \/ EnterDrain(Goto("run")) \/ EnterDrain(Goto("done"))
      \/ stack' = Append(Goto("last"), NewFrame("run", "top"))
  BY DEF Main
<1>4. GoodStack(Append(Goto("last"), NewFrame("run", "top")), I)
  BY <1>2, CallGood DEF Fn, Pc
<1>5. GoodStack(stack', I)
  BY <1>2, <1>3, <1>4, EnterDrainGood
<1>6. QED
  BY <1>0, <1>1, <1>5, OnlyStack DEF RecordsOK

----------------
(* The loop *)

LEMMA PcField ==
    ASSUME NEW f \in Frame, NEW pc \in Pc
    PROVE  /\ [f EXCEPT !.pc = pc] \in Frame
           /\ [f EXCEPT !.pc = pc].fn = f.fn
           /\ [f EXCEPT !.pc = pc].pending = f.pending
BY DEF Frame, Pc

LEMMA DueField ==
    ASSUME NEW f \in Frame, NEW due \in SUBSET [id : Nat, at : Nat]
    PROVE  /\ [f EXCEPT !.due = due] \in Frame
           /\ [f EXCEPT !.due = due].fn = f.fn
           /\ [f EXCEPT !.due = due].pending = f.pending
BY DEF Frame

LEMMA ReadyField ==
    ASSUME NEW f \in Frame, NEW ready \in SUBSET Watcher
    PROVE  /\ [f EXCEPT !.ready = ready] \in Frame
           /\ [f EXCEPT !.ready = ready].fn = f.fn
           /\ [f EXCEPT !.ready = ready].pending = f.pending
BY DEF Frame

LEMMA AliveField ==
    ASSUME NEW f \in Frame, NEW alive \in BOOLEAN
    PROVE  /\ [f EXCEPT !.alive = alive] \in Frame
           /\ [f EXCEPT !.alive = alive].fn = f.fn
           /\ [f EXCEPT !.alive = alive].pending = f.pending
BY DEF Frame

LEMMA PendingField ==
    ASSUME NEW f \in Frame, NEW pending \in SUBSET Imm
    PROVE  /\ [f EXCEPT !.pending = pending] \in Frame
           /\ [f EXCEPT !.pending = pending].fn = f.fn
           /\ [f EXCEPT !.pending = pending].pending = pending
BY DEF Frame

LEMMA TopFields ==
    ASSUME NEW I, GoodStack(stack, I)
    PROVE  /\ Top \in Frame /\ Top = stack[Len(stack)] /\ Top.pending \cap I = {}
           /\ Len(stack) \in DOMAIN stack
           /\ Top.due \in SUBSET [id : Nat, at : Nat] /\ Top.ready \in SUBSET Watcher
           /\ Top.pending \in SUBSET Imm
<1>1. Top \in Frame /\ Top = stack[Len(stack)] /\ Top.pending \cap I = {}
      /\ Len(stack) \in DOMAIN stack
  BY TopFrame DEF Top
<1>2. QED
  BY <1>1 DEF Frame

LEMMA PollStep ==
    ASSUME ClearInv, NEW ready \in SUBSET Open, NEW later \in 0 .. MaxTime, Poll(ready, later)
    PROVE  ClearInv'
<1> DEFINE I == cleared.immediate
           due == {[id |-> t, at |-> timers[t].due] : t \in DueAt(later)}
           alive == ReferencedWatchers # {}
           f1 == [Top EXCEPT !.pc = "fire"]
           f2 == [f1 EXCEPT !.due = due]
           f3 == [f2 EXCEPT !.ready = ready]
           f4 == [f3 EXCEPT !.alive = alive]
<1>0. GoodStack(stack, I) /\ RecordsOK /\ TimersOK /\ later \in Nat
  BY Bounds DEF ClearInv, ImmsOK
<1>1. /\ timers' = FireDue(later) /\ firing' = DueAt(later) /\ now' = later
      /\ UNCHANGED <<imms, made, ran, cleared>>
      /\ stack' = [stack EXCEPT ![Len(stack)] =
                     [@ EXCEPT !.pc = "fire", !.due = due, !.ready = ready, !.alive = alive]]
  BY DEF Poll, RunFrame, queues, io
<1>2. DueAt(later) \subseteq Timer /\ \A t \in DueAt(later) : timers[t].armed
  BY DEF DueAt
<1>3. \A t \in Timer : timers[t] \in TimerEntry /\ timers[t].due \in Nat /\ t \in Nat
  BY <1>0, Bounds DEF TimersOK, TimerEntry
<1>4. due \in SUBSET [id : Nat, at : Nat]
  BY <1>2, <1>3
<1>5. ready \in SUBSET Watcher /\ alive \in BOOLEAN /\ "fire" \in Pc
  BY DEF Open, Pc
<1>6. Top \in Frame /\ Top = stack[Len(stack)] /\ Top.pending \cap I = {}
      /\ Len(stack) \in DOMAIN stack
  BY <1>0, TopFields
<1>7. stack' = [stack EXCEPT ![Len(stack)] = f4]
  BY <1>1, <1>6
<1> HIDE DEF due, alive
<1>8. f4 \in Frame /\ f4.fn = Top.fn /\ f4.pending = Top.pending
  <2>1. f1 \in Frame /\ f1.fn = Top.fn /\ f1.pending = Top.pending
    BY <1>5, <1>6, PcField
  <2> HIDE DEF f1
  <2>2. f2 \in Frame /\ f2.fn = Top.fn /\ f2.pending = Top.pending
    BY <1>4, <2>1, DueField
  <2> HIDE DEF f2
  <2>3. f3 \in Frame /\ f3.fn = Top.fn /\ f3.pending = Top.pending
    BY <1>5, <2>2, ReadyField
  <2> HIDE DEF f3
  <2>4. QED
    BY <1>5, <2>3, AliveField
<1> HIDE DEF f4
<1>9. GoodStack(stack', I)
  BY <1>0, <1>6, <1>7, <1>8, TopGood
<1>10. ASSUME NEW t \in Timer
       PROVE  /\ FireDue(later)[t] \in TimerEntry
              /\ ~timers[t].armed => FireDue(later)[t] = timers[t]
  <2>1. timers[t].every \in Nat /\ later + timers[t].every \in Nat /\ later + 1 \in Nat
    BY <1>0, <1>3 DEF TimerEntry
  <2>2. FireDue(later)[t] \in TimerEntry
    BY <1>3, <2>1 DEF FireDue, TimerEntry
  <2>3. ~timers[t].armed => t \notin DueAt(later)
    BY <1>2
  <2>4. QED
    BY <2>2, <2>3 DEF FireDue
<1>11. TimersOK'
  <2>1. timers' \in [Timer -> TimerEntry]
    BY <1>1, <1>10 DEF FireDue
  <2>2. \A t \in cleared.timer : t \in Timer /\ ~timers[t].armed /\ t <= made.timer
    BY <1>0 DEF TimersOK, RecordsOK
  <2>3. \A t \in cleared.timer : timers'[t] = timers[t] /\ t \notin DueAt(later)
    BY <1>1, <1>2, <1>10, <2>2
  <2>4. QED
    BY <1>0, <1>1, <1>2, <2>1, <2>2, <2>3 DEF TimersOK
<1>12. QED
  BY <1>0, <1>1, <1>9, <1>11 DEF ClearInv, ImmsOK, RecordsOK

\* What a timer, an immediate and a dispatch make of the top frame, as one frame.
IsTop(n) == Top \in Frame /\ Top = stack[n] /\ n = Len(stack) /\ n \in DOMAIN stack

LEMMA FireShape ==
    ASSUME NEW n, IsTop(n), FireTimer
    PROVE  \E f \in Frame :
             /\ f.fn = "run" /\ f.ready = Top.ready /\ f.pending = Top.pending
             /\ \/ stack' = [stack EXCEPT ![n] = f] /\ f.pc = "fire"
                \/ /\ stack' = Append([stack EXCEPT ![n] = f], NewFrame("call", "timer"))
                   /\ f.pc = "fired"
<1> DEFINE due == Top.due \ {First(Top.due)}
           f1 == [Top EXCEPT !.due = due]
           f2 == [f1 EXCEPT !.pc = "fired"]
<1>1. /\ Top \in Frame /\ Top = stack[n] /\ n = Len(stack) /\ n \in DOMAIN stack
      /\ Top.fn = "run" /\ Top.pc = "fire" /\ due \in SUBSET [id : Nat, at : Nat]
  BY DEF FireTimer, RunFrame, At, Frame, IsTop
<1>2. Rest = [stack EXCEPT ![n] = f1]
  BY <1>1 DEF Rest
<1>3. [Rest EXCEPT ![n].pc = "fired"] = [stack EXCEPT ![n] = f2]
  BY <1>1, <1>2
<1> HIDE DEF due
<1>4. /\ f1 \in Frame /\ f1.fn = "run" /\ f1.pc = "fire" /\ f1.ready = Top.ready
      /\ f1.pending = Top.pending
  BY <1>1 DEF Frame
<1>5. CASE stack' = Rest
  BY <1>2, <1>4, <1>5
<1>6. CASE stack' = Append([Rest EXCEPT ![n].pc = "fired"], NewFrame("call", "timer"))
  <2> HIDE DEF f1
  <2>1. /\ f2 \in Frame /\ f2.fn = "run" /\ f2.pc = "fired" /\ f2.ready = Top.ready
        /\ f2.pending = Top.pending
    BY <1>4 DEF Frame
  <2> HIDE DEF f2
  <2>2. QED
    BY <1>3, <1>6, <2>1
<1>7. QED
  BY <1>1, <1>5, <1>6 DEF FireTimer, Call

Running(f, n) ==
    /\ f.fn = "run" /\ f.ready = Top.ready /\ f.due = Top.due \ {First(Top.due)}
    /\ \/ /\ stack' = [stack EXCEPT ![n] = f] /\ f.pc = "imm"
          /\ NextDue \notin Top.pending /\ f.pending = Top.pending /\ ran' = ran
       \/ /\ stack' = Append([stack EXCEPT ![n] = f], NewFrame("call", "immediate"))
          /\ f.pc = "ranimm"
          /\ NextDue \in Top.pending /\ f.pending = Top.pending \ {NextDue}
          /\ ran' = [ran EXCEPT !.immediate[NextDue] = @ + 1]

LEMMA ImmediateShape ==
    ASSUME NEW n, IsTop(n), RunImmediate
    PROVE  \E f \in Frame : Running(f, n)
<1> DEFINE due == Top.due \ {First(Top.due)}
           P == Top.pending \ {NextDue}
           f1 == [Top EXCEPT !.due = due]
           f2 == [f1 EXCEPT !.pc = "ranimm"]
           f3 == [f2 EXCEPT !.pending = P]
<1>1. /\ Top \in Frame /\ Top = stack[n] /\ n = Len(stack) /\ n \in DOMAIN stack
      /\ Top.fn = "run" /\ Top.pc = "imm"
      /\ due \in SUBSET [id : Nat, at : Nat] /\ P \in SUBSET Imm
  BY DEF RunImmediate, RunFrame, At, Frame, IsTop
<1>2. Rest = [stack EXCEPT ![n] = f1]
  BY <1>1 DEF Rest
<1> HIDE DEF due, P
<1>3. /\ f1 \in Frame /\ f1.fn = "run" /\ f1.pc = "imm" /\ f1.ready = Top.ready
      /\ f1.pending = Top.pending /\ f1.due = due
  BY <1>1 DEF Frame
<1>4. [Rest EXCEPT ![n].pc = "ranimm", ![n].pending = @ \ {NextDue}] = [stack EXCEPT ![n] = f3]
  <2>1. Rest[n].pending = Top.pending
    BY <1>1, <1>2, <1>3
  <2>2. [Rest EXCEPT ![n].pc = "ranimm"] = [stack EXCEPT ![n] = f2]
    BY <1>1, <1>2
  <2>3. [Rest EXCEPT ![n].pc = "ranimm", ![n].pending = @ \ {NextDue}]
          = [[Rest EXCEPT ![n].pc = "ranimm"] EXCEPT ![n].pending = P]
    BY <2>1 DEF P
  <2>4. QED
    BY <1>1, <2>2, <2>3
<1>5. CASE stack' = Rest /\ NextDue \notin Top.pending /\ ran' = ran
  <2>1. Running(f1, n)
    BY <1>2, <1>3, <1>5 DEF due, Running
  <2>2. QED
    BY <1>3, <2>1
<1>6. CASE /\ stack' = Append([Rest EXCEPT ![n].pc = "ranimm", ![n].pending = @ \ {NextDue}],
                              NewFrame("call", "immediate"))
           /\ NextDue \in Top.pending /\ ran' = [ran EXCEPT !.immediate[NextDue] = @ + 1]
  <2> HIDE DEF f1
  <2>1. f2 \in Frame /\ f2.fn = "run" /\ f2.pc = "ranimm" /\ f2.ready = Top.ready /\ f2.due = due
    BY <1>3 DEF Frame
  <2> HIDE DEF f2
  <2>2. /\ f3 \in Frame /\ f3.fn = "run" /\ f3.pc = "ranimm" /\ f3.ready = Top.ready
        /\ f3.due = due /\ f3.pending = P
    BY <1>1, <2>1 DEF Frame
  <2> HIDE DEF f3
  <2>3. Running(f3, n)
    BY <1>4, <1>6, <2>2 DEF due, P, Running
  <2>4. QED
    BY <2>2, <2>3
<1>7. QED
  BY <1>1, <1>5, <1>6 DEF RunImmediate, Call

Dispatching(f, g, w, n) ==
    /\ f.fn = "run" /\ f.ready = Top.ready \ {w} /\ f.pending = Top.pending
    /\ g.fn = "call" /\ g.ready = {w} /\ g.pending = {}
    /\ \/ stack' = [stack EXCEPT ![n] = f] /\ f.pc = "dispatch" /\ depth' = depth
       \/ /\ stack' = Append([stack EXCEPT ![n] = f], g)
          /\ f.pc = "dispatched" /\ depth' = depth + 1

LEMMA DispatchShape ==
    ASSUME NEW n, IsTop(n), stack \in Seq(Frame), NEW w \in Watcher, Dispatch(w)
    PROVE  \E f, g \in Frame : Dispatching(f, g, w, n)
<1> DEFINE ready == Top.ready \ {w}
           f1 == [Top EXCEPT !.ready = ready]
           f2 == [f1 EXCEPT !.pc = "dispatched"]
           s == [stack EXCEPT ![n].ready = @ \ {w}]
           s2 == [s EXCEPT ![Len(s)].pc = "dispatched"]
           h == NewFrame("call", "io")
           g == [h EXCEPT !.ready = {w}]
<1>1. /\ Top \in Frame /\ Top = stack[n] /\ n = Len(stack) /\ n \in DOMAIN stack
      /\ Top.fn = "run" /\ Top.pc = "dispatch" /\ ready \in SUBSET Watcher
      /\ \/ stack' = s /\ depth' = depth
         \/ stack' = Append(s2, g) /\ depth' = depth + 1
  BY DEF Dispatch, RunFrame, At, Frame, IsTop
<1>2. s = [stack EXCEPT ![n] = f1] /\ Len(s) = n
  BY <1>1
<1>3. s2 = [stack EXCEPT ![n] = f2]
  BY <1>1, <1>2
<1> HIDE DEF ready, s, s2
<1>4. /\ f1 \in Frame /\ f1.fn = "run" /\ f1.pc = "dispatch" /\ f1.ready = ready
      /\ f1.pending = Top.pending
  BY <1>1 DEF Frame
<1> HIDE DEF f1
<1>5. /\ f2 \in Frame /\ f2.fn = "run" /\ f2.pc = "dispatched" /\ f2.ready = ready
      /\ f2.pending = Top.pending
  BY <1>4 DEF Frame
<1> HIDE DEF f2
<1>6. g \in Frame /\ g.fn = "call" /\ g.ready = {w} /\ g.pending = {}
  <2>1. h \in Frame /\ h.fn = "call" /\ h.pending = {} /\ {w} \in SUBSET Watcher
    BY NewFrameType DEF Fn, Pc
  <2> HIDE DEF h
  <2>2. QED
    BY <2>1 DEF Frame
<1> HIDE DEF g
<1>7. CASE stack' = s /\ depth' = depth
  <2>1. Dispatching(f1, g, w, n)
    BY <1>2, <1>4, <1>6, <1>7 DEF ready, Dispatching
  <2>2. QED
    BY <1>4, <1>6, <2>1
<1>8. CASE stack' = Append(s2, g) /\ depth' = depth + 1
  <2>1. Dispatching(f2, g, w, n)
    BY <1>3, <1>5, <1>6, <1>8 DEF ready, Dispatching
  <2>2. QED
    BY <1>5, <1>6, <2>1
<1>9. QED
  BY <1>1, <1>7, <1>8

LEMMA FireTimerStep == ClearInv /\ FireTimer => ClearInv'
<1> SUFFICES ASSUME ClearInv, FireTimer PROVE ClearInv'
  OBVIOUS
<1> DEFINE I == cleared.immediate
           n == Len(stack)
<1>0. GoodStack(stack, I) /\ RecordsOK /\ TimersOK /\ ImmsOK /\ IsTop(n) /\ Top.pending \cap I = {}
  BY TopFields DEF ClearInv, ImmsOK, IsTop
<1>1. /\ UNCHANGED <<timers, now, imms, made, cleared>>
      /\ firing' \subseteq firing /\ Top.fn = "run"
      /\ ran' = ran \/ \E x : ran' = [ran EXCEPT !.timer[x] = @ + 1]
  BY DEF FireTimer, RunFrame, At, queues, io, clocks
<1>2. PICK f \in Frame :
        /\ f.fn = "run" /\ f.pending = Top.pending
        /\ \/ stack' = [stack EXCEPT ![n] = f]
           \/ stack' = Append([stack EXCEPT ![n] = f], NewFrame("call", "timer"))
  BY <1>0, FireShape
<1>3. GoodStack([stack EXCEPT ![n] = f], I)
  BY <1>0, <1>1, <1>2, TopGood DEF IsTop
<1>4. GoodStack(Append([stack EXCEPT ![n] = f], NewFrame("call", "timer")), I)
  BY <1>3, CallGood DEF Fn, Pc
<1>5. RecordsOK'
  BY <1>0, <1>1, RanFields DEF RecordsOK
<1>6. TimersOK'
  BY <1>0, <1>1 DEF TimersOK
<1>7. ImmsOK'
  BY <1>0, <1>1, <1>2, <1>3, <1>4 DEF ImmsOK
<1>8. QED
  BY <1>5, <1>6, <1>7 DEF ClearInv

LEMMA RunImmediateStep == ClearInv /\ RunImmediate => ClearInv'
<1> SUFFICES ASSUME ClearInv, RunImmediate PROVE ClearInv'
  OBVIOUS
<1> DEFINE I == cleared.immediate
           n == Len(stack)
<1>0. GoodStack(stack, I) /\ RecordsOK /\ IsTop(n) /\ Top.pending \cap I = {}
  BY TopFields DEF ClearInv, ImmsOK, IsTop
<1>1. UNCHANGED <<timers, firing, now, imms, made, cleared>> /\ Top.fn = "run"
  BY DEF RunImmediate, RunFrame, At, queues, io, clocks
<1>2. PICK f \in Frame : Running(f, n)
  BY <1>0, ImmediateShape
<1>3. /\ f.fn = "run" /\ f.pending \subseteq Top.pending
      /\ \/ stack' = [stack EXCEPT ![n] = f]
         \/ stack' = Append([stack EXCEPT ![n] = f], NewFrame("call", "immediate"))
      /\ ran' = ran \/ \E x : ran' = [ran EXCEPT !.immediate[x] = @ + 1]
  BY <1>2 DEF Running
<1>4. GoodStack([stack EXCEPT ![n] = f], I)
  <2>1. f.pending \cap I = {}
    BY <1>0, <1>3
  <2>2. QED
    BY <1>0, <1>1, <1>3, <2>1, TopGood DEF IsTop
<1>5. GoodStack(Append([stack EXCEPT ![n] = f], NewFrame("call", "immediate")), I)
  BY <1>4, CallGood DEF Fn, Pc
<1>6. RecordsOK'
  BY <1>0, <1>1, <1>3, RanFields DEF RecordsOK
<1>7. QED
  BY <1>0, <1>1, <1>3, <1>4, <1>5, <1>6, OnlyStack

LEMMA TakeImmediatesStep == ClearInv /\ TakeImmediates => ClearInv'
<1> SUFFICES ASSUME ClearInv, TakeImmediates PROVE ClearInv'
  OBVIOUS
<1> DEFINE I == cleared.immediate
           due == {[id |-> i, at |-> 0] : i \in QueuedImms}
           f1 == [Top EXCEPT !.pc = "imm"]
           f2 == [f1 EXCEPT !.pending = QueuedImms]
           f3 == [f2 EXCEPT !.due = due]
<1>0. GoodStack(stack, I) /\ RecordsOK /\ TimersOK /\ ImmsOK
  BY DEF ClearInv, ImmsOK
<1>1. /\ UNCHANGED <<timers, firing, now, made, ran, cleared>>
      /\ \/ imms' = [i \in Imm |-> [imms[i] EXCEPT !.queued = FALSE]]
            /\ stack' = StartBatch(stack)
         \/ stack' = Goto("end") /\ imms' = imms
  BY DEF TakeImmediates, RunFrame, queues, io, clocks
<1>2. QueuedImms \in SUBSET Imm /\ QueuedImms \cap I = {}
  BY <1>0 DEF QueuedImms, ImmsOK, RecordsOK
<1>3. due \in SUBSET [id : Nat, at : Nat]
  BY <1>2, Bounds
<1>4. /\ Top \in Frame /\ Top = stack[Len(stack)] /\ Len(stack) \in DOMAIN stack
  BY <1>0, TopFields
<1>5. StartBatch(stack) = [stack EXCEPT ![Len(stack)] = f3]
  BY <1>4 DEF StartBatch
<1> HIDE DEF due
<1>6. f3 \in Frame /\ f3.fn = Top.fn /\ f3.pending = QueuedImms
  <2>1. "imm" \in Pc
    BY DEF Pc
  <2>2. f1 \in Frame /\ f1.fn = Top.fn
    BY <1>4, <2>1, PcField
  <2> HIDE DEF f1
  <2>3. f2 \in Frame /\ f2.fn = Top.fn /\ f2.pending = QueuedImms
    BY <1>2, <2>2, PendingField
  <2> HIDE DEF f2
  <2>4. QED
    BY <1>3, <2>3, DueField
<1> HIDE DEF f3
<1>7. GoodStack(StartBatch(stack), I)
  <2>1. f3.pending \cap I = {} /\ f3.fn = stack[Len(stack)].fn
    BY <1>2, <1>4, <1>6
  <2> HIDE DEF I
  <2>2. GoodStack([stack EXCEPT ![Len(stack)] = f3], I)
    BY <1>0, <1>6, <2>1, TopGood
  <2>3. QED
    BY <1>5, <2>2
<1>8. GoodStack(Goto("end"), I)
  BY <1>0, GotoGood DEF Pc
<1>9. imms' \in [Imm -> ImmEntry] /\ \A i \in I : ~imms'[i].queued
  <2>1. I \subseteq Imm /\ imms \in [Imm -> ImmEntry] /\ \A i \in I : ~imms[i].queued
    BY <1>0 DEF ImmsOK, RecordsOK
  <2>2. ASSUME NEW i \in Imm
        PROVE  /\ [imms[i] EXCEPT !.queued = FALSE] \in ImmEntry
               /\ ~[imms[i] EXCEPT !.queued = FALSE].queued
    BY <2>1 DEF ImmEntry
  <2> HIDE DEF I
  <2>3. QED
    BY <1>1, <2>1, <2>2
<1>10. ImmsOK'
  BY <1>0, <1>1, <1>7, <1>8, <1>9 DEF ImmsOK
<1>11. QED
  BY <1>0, <1>1, <1>10 DEF ClearInv, TimersOK, RecordsOK

\* The frames a dispatch leaves: the pass without w, and onReady of w above it.
LEMMA DispatchGood ==
    ASSUME NEW I, GoodStack(stack, I), NEW w \in Watcher, Dispatch(w)
    PROVE  GoodStack(stack', I)
<1> DEFINE n == Len(stack)
<1>1. IsTop(n) /\ stack \in Seq(Frame) /\ Top.pending \cap I = {} /\ Top.fn = "run"
  BY TopFields DEF IsTop, GoodStack, Dispatch, RunFrame, At
<1>2. PICK f, g \in Frame : Dispatching(f, g, w, n)
  BY <1>1, DispatchShape
<1>3. /\ f.fn = "run" /\ f.pending = Top.pending /\ g.pending = {}
      /\ \/ stack' = [stack EXCEPT ![n] = f]
         \/ stack' = Append([stack EXCEPT ![n] = f], g)
  BY <1>2 DEF Dispatching
<1>4. GoodStack([stack EXCEPT ![n] = f], I)
  BY <1>1, <1>3, TopGood DEF IsTop
<1>5. GoodStack(Append([stack EXCEPT ![n] = f], g), I)
  BY <1>3, <1>4, PushGood
<1>6. QED
  BY <1>3, <1>4, <1>5

LEMMA DispatchedGood ==
    ASSUME NEW I, GoodStack(stack, I), Dispatched
    PROVE  GoodStack(stack', I)
<1> DEFINE ready == IF Stop THEN {} ELSE Top.ready
           f1 == [Top EXCEPT !.pc = "dispatch"]
           f2 == [f1 EXCEPT !.ready = ready]
<1>1. /\ Top \in Frame /\ Top = stack[Len(stack)] /\ Len(stack) \in DOMAIN stack
      /\ Top.pending \cap I = {} /\ ready \in SUBSET Watcher /\ "dispatch" \in Pc
  BY TopFields DEF Pc
<1>2. stack' = [stack EXCEPT ![Len(stack)] = f2]
  BY <1>1 DEF Dispatched
<1> HIDE DEF ready
<1>3. f1 \in Frame /\ f1.fn = Top.fn /\ f1.pending = Top.pending
  BY <1>1, PcField
<1> HIDE DEF f1
<1>4. f2 \in Frame /\ f2.fn = Top.fn /\ f2.pending = Top.pending
  BY <1>1, <1>3, ReadyField
<1> HIDE DEF f2
<1>5. QED
  BY <1>1, <1>2, <1>4, TopGood

LEMMA LoopStep == ClearInv /\ Loop => ClearInv'
<1> SUFFICES ASSUME ClearInv, Loop PROVE ClearInv'
  OBVIOUS
<1> DEFINE I == cleared.immediate
<1>0. GoodStack(stack, I) /\ RecordsOK /\ TimersOK /\ ImmsOK
  BY DEF ClearInv, ImmsOK
<1> USE DEF queues, io, clocks, RunFrame, At
<1>1. ASSUME GoodStack(stack', I),
             UNCHANGED <<timers, firing, now, imms, made, ran, cleared>>
      PROVE  ClearInv'
  BY <1>0, <1>1, OnlyStack DEF RecordsOK
<1>2. ASSUME NEW pc \in Pc, EnterDrain(Goto(pc)) PROVE GoodStack(stack', I)
  BY <1>0, <1>2, GotoGood, EnterDrainGood
<1>3. ASSUME Top.fn = "run" PROVE GoodStack(Under, I)
  BY <1>0, <1>3, PopGood
<1>4. CASE RunDrain
  BY <1>1, <1>2, <1>4 DEF RunDrain, Pc
<1>5. CASE RunReturn
  BY <1>1, <1>3, <1>5 DEF RunReturn
<1>6. CASE RunAgain
  <2>1. GoodStack(Goto("top"), I)
    BY <1>0, GotoGood DEF Pc
  <2>2. QED
    BY <1>1, <1>6, <2>1 DEF RunAgain
<1>7. CASE FiredTimer
  BY <1>1, <1>2, <1>7 DEF FiredTimer, Pc
<1>8. CASE FireDone
  <2>1. GoodStack(stack', I)
    BY <1>2, <1>8 DEF FireDone, Pc
  <2>2. firing' = {} /\ UNCHANGED <<timers, now, imms, made, ran, cleared>>
    BY <1>8 DEF FireDone
  <2>3. QED
    BY <1>0, <2>1, <2>2 DEF ClearInv, TimersOK, ImmsOK, RecordsOK
<1>9. CASE Ready
  <2>1. GoodStack(Goto("dispatch"), I)
    BY <1>0, GotoGood DEF Pc
  <2>2. QED
    BY <1>1, <1>3, <1>9, <2>1 DEF Ready
<1>10. ASSUME NEW w \in Watcher, Dispatch(w) PROVE ClearInv'
  <2>1. GoodStack(stack', I)
    BY <1>0, <1>10, DispatchGood
  <2>2. QED
    BY <1>1, <1>10, <2>1 DEF Dispatch
<1>11. CASE Dispatched
  <2>1. GoodStack(stack', I)
    BY <1>0, <1>11, DispatchedGood
  <2>2. QED
    BY <1>1, <1>11, <2>1 DEF Dispatched
<1>12. CASE DispatchDone
  BY <1>1, <1>2, <1>12 DEF DispatchDone, Pc
<1>13. CASE RanImmediate
  BY <1>1, <1>2, <1>13 DEF RanImmediate, Pc
<1>14. CASE ImmediatesDone
  <2>1. GoodStack(Goto("end"), I)
    BY <1>0, GotoGood DEF Pc
  <2>2. QED
    BY <1>1, <1>14, <2>1 DEF ImmediatesDone
<1>15. CASE EndPass
  <2>1. GoodStack(Goto("top"), I)
    BY <1>0, GotoGood DEF Pc
  <2>2. QED
    BY <1>1, <1>3, <1>15, <2>1 DEF EndPass
<1>16. QED
  BY <1>4, <1>5, <1>6, <1>7, <1>8, <1>9, <1>10, <1>11, <1>12, <1>13, <1>14, <1>15,
     PollStep, FireTimerStep, TakeImmediatesStep, RunImmediateStep DEF Loop

----------------
(* The theorems *)

LEMMA ClearNext == ClearInv /\ [Next]_vars => ClearInv'
<1>1. ClearInv /\ UNCHANGED vars => ClearInv'
  BY DEF vars, ClearInv, TimersOK, ImmsOK, RecordsOK
<1>2. QED
  BY <1>1, JavaScriptStep, DrainStep, MainStep, LoopStep DEF Next

\* In every reachable state a cleared timer is neither armed nor about to fire,
\* and a cleared immediate is neither queued nor in the batch of any pass:
\* timers::remove and immediates::remove reach every place a callback can wait.
THEOREM ClearInvHolds == Spec => []ClearInv
<1>1. Init => ClearInv
  BY ClearInit
<1>2. ClearInv /\ [Next]_vars => ClearInv'
  BY ClearNext
<1>3. QED
  BY <1>1, <1>2, PTL DEF Spec

\* Which callbacks a step may start.
LEMMA StartedBy ==
    ASSUME ClearInv, [Next]_vars
    PROVE  \/ ran' = ran \/ \E x : ran' = [ran EXCEPT !.task[x] = @ + 1]
           \/ \E t \in firing : ran' = [ran EXCEPT !.timer[t] = @ + 1]
           \/ \E i \in Top.pending : ran' = [ran EXCEPT !.immediate[i] = @ + 1]
<1> USE DEF history
<1>1. CASE UNCHANGED vars
  BY <1>1 DEF vars
<1>2. CASE JavaScript
  BY <1>2 DEF JavaScript, QueueMicrotask, NextTick, SetImmediate, Return, SetTimer, ClearTimer,
     UnrefTimer, ClearImmediate, RefImmediate, AddWatcher, CloseWatcher, RefWatcher, Listen, Await
<1>3. CASE Drain
  BY <1>3 DEF Drain, DrainTicks, DrainJob, DrainRetire, DrainReturn, RunTick, TicksReturn
<1>4. CASE Main
  BY <1>4 DEF Main
<1>5. CASE Loop
  BY <1>5 DEF Loop, RunDrain, RunReturn, RunAgain, Poll, FireTimer, FiredTimer, FireDone, Ready,
     Dispatch, Dispatched, DispatchDone, TakeImmediates, RunImmediate, RanImmediate,
     ImmediatesDone, EndPass
<1>6. QED
  BY <1>1, <1>2, <1>3, <1>4, <1>5 DEF Next

\* clearTimeout, clearInterval and clearImmediate are final, whatever pass is
\* running and however loops nest: a cancelled callback never starts.
THEOREM ClearedNeverRunsCorrect == Spec => ClearedNeverRuns
<1> DEFINE A == /\ \A t \in cleared.timer : ran'.timer[t] = ran.timer[t]
                /\ \A i \in cleared.immediate : ran'.immediate[i] = ran.immediate[i]
<1>1. ClearInv /\ [Next]_vars => [A]_vars
  <2> SUFFICES ASSUME ClearInv, [Next]_vars PROVE A
    OBVIOUS
  <2>1. /\ ran \in [timer : [Timer -> Nat], immediate : [Imm -> Nat], task : [Task -> Nat]]
        /\ cleared.timer \subseteq Timer /\ cleared.immediate \subseteq Imm
    BY DEF ClearInv, RecordsOK
  <2>2. \A t \in cleared.timer : t \notin firing
    BY DEF ClearInv, TimersOK
  <2>3. \A i \in cleared.immediate : i \notin Top.pending
    BY TopFields DEF ClearInv, ImmsOK
  <2>4. CASE ran' = ran \/ \E x : ran' = [ran EXCEPT !.task[x] = @ + 1]
    BY <2>1, <2>4
  <2>5. CASE \E t \in firing : ran' = [ran EXCEPT !.timer[t] = @ + 1]
    BY <2>1, <2>2, <2>5
  <2>6. CASE \E i \in Top.pending : ran' = [ran EXCEPT !.immediate[i] = @ + 1]
    BY <2>1, <2>3, <2>6
  <2>7. QED
    BY <2>4, <2>5, <2>6, StartedBy
<1>2. QED
  BY <1>1, ClearInvHolds, PTL DEF Spec, ClearedNeverRuns

----------------
(***************************************************************************)
(* Why no watcher dangles.  dispatchDepth_ counts the passes on the stack, *)
(* one for each loop between its wait and its end and one more while a     *)
(* watcher is dispatched; every frame that points to watchers is inside a  *)
(* pass, its own or its caller's.  So when the count is zero no frame      *)
(* points to a watcher, and purging harms nobody.  The count up to each    *)
(* frame is a function on the stack, since the frames under the top keep   *)
(* theirs whatever happens above them.                                     *)
(***************************************************************************)
Held == {"fire", "fired", "ready", "dispatch", "dispatched"}
Pass == Held \cup {"check", "imm", "ranimm", "end"}

Weight(f) ==
    IF f.fn # "run" \/ f.pc \notin Pass THEN 0 ELSE IF f.pc = "dispatched" THEN 2 ELSE 1

\* Frame f, with n passes open up to it, points to live watchers of ws only.
FrameSafe(f, n, ws) ==
    /\ f.ready # {} => n >= 1 /\ (f.fn = "call" \/ (f.fn = "run" /\ f.pc \in Held))
    /\ \A w \in f.ready : ws[w] # "gone"

\* d counts the passes open up to each frame.
Counts(d, s) ==
    /\ d \in [0 .. Len(s) -> Nat] /\ d[0] = 0
    /\ \A k \in 1 .. Len(s) : d[k] = d[k - 1] + Weight(s[k])
    /\ \A j, k \in 0 .. Len(s) : j <= k => d[j] <= d[k]

\* Stack s opens n passes and points to no destroyed watcher of ws.
Safe(s, n, ws) ==
    /\ s \in Seq(Frame)
    /\ \E d : /\ Counts(d, s) /\ d[Len(s)] = n
              /\ \A k \in 1 .. Len(s) : FrameSafe(s[k], d[k], ws)

LEMMA WeightType == \A f : Weight(f) \in {0, 1, 2}
BY DEF Weight

LEMMA SafePush ==
    ASSUME NEW s, NEW n, NEW ws, Safe(s, n, ws), NEW f \in Frame,
           FrameSafe(f, n + Weight(f), ws)
    PROVE  Safe(Append(s, f), n + Weight(f), ws) /\ n \in Nat
<1>1. PICK d : /\ Counts(d, s) /\ d[Len(s)] = n
               /\ \A k \in 1 .. Len(s) : FrameSafe(s[k], d[k], ws)
  BY DEF Safe
<1> DEFINE z == Append(s, f)
           m == Len(s)
           e == [k \in 0 .. m + 1 |-> IF k = m + 1 THEN n + Weight(f) ELSE d[k]]
<1>2. /\ z \in Seq(Frame) /\ Len(z) = m + 1 /\ m \in Nat /\ z[m + 1] = f
      /\ \A k \in 1 .. m : z[k] = s[k]
  BY DEF Safe
<1>3. n \in Nat /\ Weight(f) \in {0, 1, 2} /\ d \in [0 .. m -> Nat] /\ d[0] = 0 /\ d[m] = n
      /\ \A j, k \in 0 .. m : j <= k => d[j] <= d[k]
  BY <1>1, <1>2, WeightType DEF Counts
<1>4. /\ e \in [0 .. m + 1 -> Nat] /\ e[0] = 0 /\ e[m + 1] = n + Weight(f)
      /\ \A k \in 0 .. m : e[k] = d[k]
  BY <1>2, <1>3
<1> HIDE DEF e, z
<1>5. \A k \in 1 .. m + 1 : e[k] = e[k - 1] + Weight(z[k])
  <2> TAKE k \in 1 .. m + 1
  <2>1. CASE k = m + 1
    BY <1>2, <1>3, <1>4, <2>1
  <2>2. CASE k # m + 1
    <3>1. k \in 1 .. m /\ k \in 0 .. m /\ k - 1 \in 0 .. m
      BY <1>2, <2>2
    <3>2. d[k] = d[k - 1] + Weight(s[k])
      BY <1>1, <3>1 DEF Counts
    <3>3. QED
      BY <1>2, <1>4, <3>1, <3>2
  <2>3. QED
    BY <2>1, <2>2
<1>6. ASSUME NEW j \in 0 .. m + 1, NEW k \in 0 .. m + 1, j <= k
      PROVE  e[j] <= e[k]
  <2>1. CASE k \in 0 .. m
    <3>1. j \in 0 .. m
      BY <1>2, <1>6, <2>1
    <3>2. QED
      BY <1>3, <1>4, <1>6, <2>1, <3>1
  <2>2. CASE k = m + 1 /\ j \in 0 .. m
    <3>1. m \in 0 .. m /\ j <= m
      BY <1>2, <2>2
    <3>2. d[j] <= n /\ d[j] \in Nat
      BY <1>3, <2>2, <3>1
    <3>3. QED
      BY <1>3, <1>4, <2>2, <3>2
  <2>3. CASE k = m + 1 /\ j = m + 1
    BY <1>3, <1>4, <2>3
  <2>4. QED
    BY <1>2, <1>6, <2>1, <2>2, <2>3
<1>7. \A k \in 1 .. m + 1 : FrameSafe(z[k], e[k], ws)
  <2> TAKE k \in 1 .. m + 1
  <2>1. CASE k = m + 1
    BY <1>2, <1>4, <2>1
  <2>2. CASE k # m + 1
    <3>1. k \in 1 .. m /\ k \in 0 .. m
      BY <1>2, <2>2
    <3>2. QED
      BY <1>1, <1>2, <1>4, <3>1
  <2>3. QED
    BY <2>1, <2>2
<1>8. Counts(e, z)
  BY <1>2, <1>4, <1>5, <1>6 DEF Counts
<1>9. Safe(z, n + Weight(f), ws)
  BY <1>2, <1>4, <1>7, <1>8 DEF Safe
<1>10. QED
  BY <1>3, <1>9 DEF z

\* The frames under the top open the passes the top does not.
LEMMA SafePop ==
    ASSUME NEW s, NEW n, NEW ws, Safe(s, n, ws), Len(s) >= 1
    PROVE  /\ Safe(SubSeq(s, 1, Len(s) - 1), n - Weight(s[Len(s)]), ws)
           /\ n \in Nat /\ n - Weight(s[Len(s)]) \in Nat
           /\ FrameSafe(s[Len(s)], n, ws)
<1>1. PICK d : /\ Counts(d, s) /\ d[Len(s)] = n
               /\ \A k \in 1 .. Len(s) : FrameSafe(s[k], d[k], ws)
  BY DEF Safe
<1> DEFINE m == Len(s) - 1
           u == SubSeq(s, 1, m)
           e == [k \in 0 .. m |-> d[k]]
           x == n - Weight(s[Len(s)])
<1>2. m \in Nat /\ Len(s) = m + 1
  BY PopShape DEF Safe
<1>3. u \in Seq(Frame) /\ Len(u) = m /\ \A k \in 1 .. m : u[k] = s[k]
  BY PopShape DEF Safe
<1>4. /\ d \in [0 .. m + 1 -> Nat] /\ d[0] = 0 /\ d[m + 1] = n
      /\ \A k \in 1 .. m + 1 : d[k] = d[k - 1] + Weight(s[k])
  BY <1>1, <1>2 DEF Counts
<1> HIDE DEF m, u
<1>5. n \in Nat /\ d[m] \in Nat /\ n = d[m] + Weight(s[m + 1]) /\ Weight(s[m + 1]) \in {0, 1, 2}
  <2>1. m + 1 \in 1 .. m + 1 /\ m \in 0 .. m + 1 /\ m + 1 - 1 = m /\ m + 1 \in 0 .. m + 1
    BY <1>2
  <2>2. QED
    BY <1>4, <2>1, WeightType
<1>6. x = d[m] /\ x \in Nat
  BY <1>2, <1>5
<1>7. /\ e \in [0 .. m -> Nat] /\ e[0] = 0 /\ e[m] = x
      /\ \A k \in 0 .. m : e[k] = d[k]
  BY <1>2, <1>4, <1>6
<1> HIDE DEF e, x
<1>8. \A k \in 1 .. m : e[k] = e[k - 1] + Weight(u[k])
  <2> TAKE k \in 1 .. m
  <2>1. k \in 1 .. m + 1 /\ k \in 0 .. m /\ k - 1 \in 0 .. m
    BY <1>2
  <2>2. QED
    BY <1>3, <1>4, <1>7, <2>1
<1>9. \A j, k \in 0 .. m : j <= k => e[j] <= e[k]
  <2>1. \A k \in 0 .. m : k \in 0 .. Len(s)
    BY <1>2
  <2>2. QED
    BY <1>1, <1>7, <2>1 DEF Counts
<1>10. \A k \in 1 .. m : FrameSafe(u[k], e[k], ws)
  <2> TAKE k \in 1 .. m
  <2>1. k \in 1 .. Len(s) /\ k \in 0 .. m
    BY <1>2
  <2>2. QED
    BY <1>1, <1>3, <1>7, <2>1
<1>11. Counts(e, u)
  BY <1>3, <1>7, <1>8, <1>9 DEF Counts
<1>12. Safe(u, x, ws)
  BY <1>3, <1>7, <1>10, <1>11 DEF Safe
<1>13. FrameSafe(s[Len(s)], n, ws)
  <2>1. Len(s) \in 1 .. Len(s)
    BY <1>2
  <2>2. QED
    BY <1>1, <2>1
<1>14. QED
  BY <1>5, <1>6, <1>12, <1>13 DEF x, u, m

\* A new top frame of the same stack: the old one popped, the new one pushed.
LEMMA SafeTop ==
    ASSUME NEW s, NEW n, NEW ws, Safe(s, n, ws), Len(s) >= 1, NEW f \in Frame,
           NEW x, x = n - Weight(s[Len(s)]) + Weight(f), FrameSafe(f, x, ws)
    PROVE  Safe([s EXCEPT ![Len(s)] = f], x, ws)
<1> DEFINE u == SubSeq(s, 1, Len(s) - 1)
           y == n - Weight(s[Len(s)])
<1>1. Safe(u, y, ws) /\ x = y + Weight(f)
  BY SafePop
<1>2. Safe(Append(u, f), x, ws)
  <2> HIDE DEF u, y
  <2>1. QED
    BY <1>1, SafePush
<1>3. [s EXCEPT ![Len(s)] = f] = Append(u, f)
  <2> DEFINE z == [s EXCEPT ![Len(s)] = f]
             m == Len(s) - 1
  <2>1. /\ m \in Nat /\ Len(s) = m + 1 /\ s \in Seq(Frame)
        /\ z \in Seq(Frame) /\ Len(z) = m + 1 /\ z[m + 1] = f
        /\ \A k \in 1 .. m : z[k] = s[k]
    BY DEF Safe
  <2>2. u \in Seq(Frame) /\ Len(u) = m /\ \A k \in 1 .. m : u[k] = s[k]
    BY <2>1
  <2> HIDE DEF z, m, u
  <2>3. /\ Append(u, f) \in Seq(Frame) /\ Len(Append(u, f)) = m + 1
        /\ Append(u, f)[m + 1] = f /\ \A k \in 1 .. m : Append(u, f)[k] = s[k]
    BY <2>1, <2>2
  <2>4. \A k \in 1 .. m + 1 : z[k] = Append(u, f)[k]
    <3>1. \A k \in 1 .. m + 1 : k = m + 1 \/ k \in 1 .. m
      BY <2>1
    <3>2. QED
      BY <2>1, <2>3, <3>1
  <2>5. z = Append(u, f)
    BY <2>1, <2>3, <2>4, SeqEqual
  <2>6. QED
    BY <2>5 DEF z
<1>4. QED
  BY <1>2, <1>3

\* With no pass open no frame points to a watcher, so any watcher may go.
LEMMA SafePurge ==
    ASSUME NEW s, NEW ws, Safe(s, 0, ws), NEW zs
    PROVE  Safe(s, 0, zs)
<1>1. PICK d : /\ Counts(d, s) /\ d[Len(s)] = 0
               /\ \A k \in 1 .. Len(s) : FrameSafe(s[k], d[k], ws)
  BY DEF Safe
<1>2. ASSUME NEW k \in 1 .. Len(s) PROVE FrameSafe(s[k], d[k], zs)
  <2>1. k \in 0 .. Len(s) /\ Len(s) \in 0 .. Len(s) /\ k <= Len(s)
    BY DEF Safe
  <2>2. d[k] \in Nat /\ d[k] <= 0
    BY <1>1, <2>1 DEF Counts
  <2>3. s[k].ready = {}
    BY <1>1, <2>2 DEF FrameSafe
  <2>4. QED
    BY <2>3 DEF FrameSafe
<1>3. QED
  BY <1>1, <1>2 DEF Safe

\* A change of the watchers that destroys none.
LEMMA SafeWatchers ==
    ASSUME NEW s, NEW n, NEW ws, Safe(s, n, ws),
           NEW zs, \A w \in Watcher : ws[w] # "gone" => zs[w] # "gone"
    PROVE  Safe(s, n, zs)
<1>1. PICK d : /\ Counts(d, s) /\ d[Len(s)] = n
               /\ \A k \in 1 .. Len(s) : FrameSafe(s[k], d[k], ws)
  BY DEF Safe
<1>2. ASSUME NEW k \in 1 .. Len(s) PROVE FrameSafe(s[k], d[k], zs)
  <2>1. s[k] \in Frame
    BY DEF Safe
  <2>2. s[k].ready \subseteq Watcher
    BY <2>1 DEF Frame
  <2>3. QED
    BY <1>1, <2>2 DEF FrameSafe
<1>3. QED
  BY <1>1, <1>2 DEF Safe

\* Clearing an immediate touches neither passes nor watchers.
LEMMA SafeWithout ==
    ASSUME NEW n, NEW ws, Safe(stack, n, ws), NEW i
    PROVE  Safe(Without(i), n, ws)
<1> DEFINE z == Without(i)
<1>1. PICK d : /\ Counts(d, stack) /\ d[Len(stack)] = n
               /\ \A k \in 1 .. Len(stack) : FrameSafe(stack[k], d[k], ws)
  BY DEF Safe
<1>2. DOMAIN stack = 1 .. Len(stack) /\ Len(stack) \in Nat
      /\ \A k \in 1 .. Len(stack) : stack[k] \in Frame
  BY DEF Safe
<1>3. \A k \in 1 .. Len(stack) :
        /\ z[k] \in Frame /\ z[k].fn = stack[k].fn
        /\ z[k].pc = stack[k].pc /\ z[k].ready = stack[k].ready
  BY <1>2 DEF Without, Frame
<1>4. z = [k \in 1 .. Len(stack) |-> z[k]]
  BY <1>2 DEF Without
<1> HIDE DEF z
<1>5. z \in Seq(Frame) /\ Len(z) = Len(stack)
  BY <1>2, <1>3, <1>4
<1>6. \A k \in 1 .. Len(stack) : Weight(z[k]) = Weight(stack[k])
  BY <1>3 DEF Weight
<1>7. Counts(d, z)
  BY <1>1, <1>5, <1>6 DEF Counts
<1>8. \A k \in 1 .. Len(z) : FrameSafe(z[k], d[k], ws)
  BY <1>1, <1>3, <1>5 DEF FrameSafe
<1>9. QED
  BY <1>1, <1>5, <1>7, <1>8 DEF Safe, z

----------------
(* The steps *)

WatcherState == {"none", "open", "closing", "gone"}

SafeInv ==
    /\ watchers \in [Watcher -> WatcherState]
    /\ Safe(stack, depth, watchers)

\* A frame that has just been called opens no pass and holds no watcher.
LEMMA FreshFrame ==
    ASSUME NEW fn \in Fn, NEW pc \in Pc \ Pass, NEW n, NEW ws
    PROVE  /\ NewFrame(fn, pc) \in Frame /\ NewFrame(fn, pc).ready = {}
           /\ Weight(NewFrame(fn, pc)) = 0
           /\ FrameSafe(NewFrame(fn, pc), n, ws)
<1>1. NewFrame(fn, pc) \in Frame
  BY NewFrameType
<1>2. NewFrame(fn, pc).ready = {} /\ NewFrame(fn, pc).pc = pc
  BY DEF NewFrame
<1>3. QED
  BY <1>1, <1>2 DEF Weight, FrameSafe

LEMMA SafeCall ==
    ASSUME NEW s, NEW n, NEW ws, Safe(s, n, ws), NEW fn \in Fn, NEW pc \in Pc \ Pass
    PROVE  Safe(Append(s, NewFrame(fn, pc)), n, ws)
<1> DEFINE f == NewFrame(fn, pc)
<1>1. f \in Frame /\ Weight(f) = 0 /\ FrameSafe(f, n, ws) /\ FrameSafe(f, n + Weight(f), ws)
  BY FreshFrame
<1> HIDE DEF f
<1>2. Safe(Append(s, f), n + Weight(f), ws) /\ n \in Nat
  BY <1>1, SafePush
<1>3. QED
  BY <1>1, <1>2 DEF f

\* The fields Weight and FrameSafe look at, when another one changes.
LEMMA SameFields ==
    ASSUME NEW f, NEW g, g.fn = f.fn, g.pc = f.pc, g.ready = f.ready
    PROVE  Weight(g) = Weight(f) /\ \A n, ws : FrameSafe(g, n, ws) <=> FrameSafe(f, n, ws)
BY DEF Weight, FrameSafe

LEMMA TopSafe ==
    ASSUME ClearInv, SafeInv
    PROVE  /\ Len(stack) >= 1 /\ Top = stack[Len(stack)] /\ Top \in Frame
           /\ Top.ready \subseteq Watcher /\ Len(stack) \in DOMAIN stack
           /\ depth \in Nat /\ depth - Weight(Top) \in Nat /\ FrameSafe(Top, depth, watchers)
           /\ Safe(Under, depth - Weight(Top), watchers)
<1>1. GoodStack(stack, cleared.immediate)
  BY DEF ClearInv, ImmsOK
<1>2. Top \in Frame /\ Top = stack[Len(stack)] /\ Top.ready \in SUBSET Watcher
      /\ Len(stack) \in DOMAIN stack /\ Len(stack) >= 1
  BY <1>1, TopFields DEF GoodStack
<1>3. Safe(stack, depth, watchers)
  BY DEF SafeInv
<1>4. QED
  BY <1>2, <1>3, SafePop DEF Under

\* The top frame becomes f, and d the count.
LEMMA NewTop ==
    ASSUME ClearInv, SafeInv, NEW f \in Frame,
           NEW n, n = depth - Weight(Top) + Weight(f), FrameSafe(f, n, watchers)
    PROVE  Safe([stack EXCEPT ![Len(stack)] = f], n, watchers)
<1>1. Safe(stack, depth, watchers) /\ Len(stack) >= 1
      /\ n = depth - Weight(stack[Len(stack)]) + Weight(f)
  BY TopSafe DEF SafeInv
<1>2. QED
  BY <1>1, SafeTop

\* A frame goes on to another place of its function.
LEMMA SafeGoto ==
    ASSUME ClearInv, SafeInv, NEW pc \in Pc, NEW n,
           Top.fn = "run" => pc \in Held \/ Top.ready = {},
           n = depth - Weight(Top) + Weight([Top EXCEPT !.pc = pc]),
           Top.ready # {} => n >= 1
    PROVE  Safe(Goto(pc), n, watchers)
<1> DEFINE f == [Top EXCEPT !.pc = pc]
<1>1. Top \in Frame /\ Top = stack[Len(stack)] /\ Len(stack) \in DOMAIN stack
      /\ FrameSafe(Top, depth, watchers)
  BY TopSafe
<1>2. f \in Frame /\ f.fn = Top.fn /\ f.pc = pc /\ f.ready = Top.ready
  BY <1>1 DEF Frame, Pc
<1>3. Goto(pc) = [stack EXCEPT ![Len(stack)] = f]
  BY <1>1 DEF Goto
<1>4. n = depth - Weight(Top) + Weight(f)
  OBVIOUS
<1> HIDE DEF f
<1>5. FrameSafe(f, n, watchers)
  BY <1>1, <1>2 DEF FrameSafe
<1>6. QED
  BY <1>2, <1>3, <1>4, <1>5, NewTop

\* A frame outside a loop, or one whose pass stays open, or stays closed.
LEMMA SafeMove ==
    ASSUME ClearInv, SafeInv, NEW pc \in Pc,
           \/ Top.fn # "run"
           \/ Top.pc \notin Pass /\ pc \notin Pass
           \/ /\ Top.pc \in Pass \ {"dispatched"} /\ pc \in Pass \ {"dispatched"}
              /\ pc \in Held \/ Top.ready = {}
    PROVE  Safe(Goto(pc), depth, watchers)
<1> DEFINE f == [Top EXCEPT !.pc = pc]
<1>1. Top \in Frame /\ FrameSafe(Top, depth, watchers) /\ depth \in Nat
      /\ depth - Weight(Top) \in Nat
  BY TopSafe
<1>2. f.fn = Top.fn /\ f.pc = pc
  BY <1>1 DEF Frame
<1>3. Weight(f) = Weight(Top)
  BY <1>2 DEF Weight
<1>4. Top.fn = "run" => pc \in Held \/ Top.ready = {}
  BY <1>1 DEF FrameSafe, Pass
<1>5. Top.ready # {} => depth >= 1
  BY <1>1 DEF FrameSafe
<1> HIDE DEF f
<1>6. depth = depth - Weight(Top) + Weight(f)
  BY <1>1, <1>3, WeightType
<1>7. QED
  BY <1>4, <1>5, <1>6, SafeGoto DEF f

LEMMA SafeDrain ==
    ASSUME NEW s, NEW n, NEW ws, Safe(s, n, ws), EnterDrain(s)
    PROVE  Safe(stack', n, ws)
<1>1. Safe(Append(s, NewFrame("drain", "loop")), n, ws)
  BY SafeCall DEF Fn, Pc, Pass, Held
<1>2. QED
  BY <1>1 DEF EnterDrain

LEMMA SafeInit == Init => SafeInv
<1> SUFFICES ASSUME Init PROVE SafeInv
  OBVIOUS
<1> DEFINE f == NewFrame("main", "entry")
           s == << >>
           d == [k \in {0} |-> 0]
<1>1. f \in Frame /\ "main" \in Fn /\ "entry" \in Pc \ Pass
  BY NewFrameType DEF Fn, Pc, Pass, Held
<1>2. Safe(s, 0, watchers)
  <2>1. s \in Seq(Frame) /\ Len(s) = 0 /\ 0 .. 0 = {0} /\ 1 .. 0 = {}
    OBVIOUS
  <2>2. d \in [0 .. 0 -> Nat] /\ d[0] = 0
    BY <2>1
  <2>3. Counts(d, s)
    BY <2>1, <2>2 DEF Counts
  <2>4. QED
    BY <2>1, <2>2, <2>3 DEF Safe
<1>3. Safe(Append(s, f), 0, watchers)
  BY <1>1, <1>2, SafeCall
<1>4. stack = Append(s, f)
  BY DEF Init
<1>5. watchers \in [Watcher -> WatcherState] /\ depth = 0
  BY DEF Init, WatcherState
<1>6. QED
  BY <1>3, <1>4, <1>5 DEF SafeInv

\* purgeClosedIfSafe destroys watchers only when no pass is open.
LEMMA SafePurgeClosed ==
    ASSUME NEW s, NEW n, watchers \in [Watcher -> WatcherState], Safe(s, n, watchers),
           PurgeClosedIfSafe(n)
    PROVE  Safe(s, n, watchers') /\ watchers' \in [Watcher -> WatcherState]
<1>1. CASE n = 0
  <2>1. watchers' = [w \in Watcher |-> IF watchers[w] = "closing" THEN "gone" ELSE watchers[w]]
    BY <1>1 DEF PurgeClosedIfSafe
  <2>2. watchers' \in [Watcher -> WatcherState]
    BY <2>1 DEF WatcherState
  <2>3. QED
    BY <1>1, <2>2, SafePurge
<1>2. CASE n # 0
  BY <1>2 DEF PurgeClosedIfSafe
<1>3. QED
  BY <1>1, <1>2

LEMMA SafeJavaScript == ClearInv /\ SafeInv /\ JavaScript => SafeInv'
<1> SUFFICES ASSUME ClearInv, SafeInv, JavaScript PROVE SafeInv'
  OBVIOUS
<1>0. Safe(stack, depth, watchers) /\ watchers \in [Watcher -> WatcherState]
  BY DEF SafeInv
<1> USE DEF io
<1>1. ASSUME UNCHANGED <<stack, depth, watchers>> PROVE SafeInv'
  BY <1>0, <1>1 DEF SafeInv
<1>2. CASE QueueMicrotask \/ NextTick \/ SetImmediate
  BY <1>1, <1>2 DEF QueueMicrotask, NextTick, SetImmediate
<1>3. CASE Return
  <2>1. stack' = Under /\ Weight(Top) = 0 /\ UNCHANGED <<depth, watchers>>
    BY <1>3 DEF Return, Weight
  <2>2. Safe(Under, depth, watchers)
    BY <2>1, TopSafe
  <2>3. QED
    BY <1>0, <2>1, <2>2 DEF SafeInv
<1>4. CASE \E d \in {0, 1}, r \in BOOLEAN : SetTimer(d, r)
  BY <1>1, <1>4 DEF SetTimer
<1>5. CASE \E t \in Timer : ClearTimer(t) \/ UnrefTimer(t)
  BY <1>1, <1>5 DEF ClearTimer, UnrefTimer
<1>6. ASSUME NEW i \in Imm, ClearImmediate(i) PROVE SafeInv'
  <2>1. stack' = Without(i) /\ UNCHANGED <<depth, watchers>>
    BY <1>6 DEF ClearImmediate, Without
  <2>2. QED
    BY <1>0, <2>1, SafeWithout DEF SafeInv
<1>7. ASSUME NEW i \in Imm, NEW r \in BOOLEAN, RefImmediate(i, r) PROVE SafeInv'
  BY <1>1, <1>7 DEF RefImmediate
<1>8. ASSUME NEW w \in Watcher, AddWatcher(w) \/ CloseWatcher(w) \/ Listen(w)
      PROVE  /\ watchers' \in [Watcher -> WatcherState] /\ depth' = depth
             /\ Safe(stack, depth, watchers')
  <2>1. \E x \in {"open", "closing"} : watchers' = [watchers EXCEPT ![w] = x]
    BY <1>8 DEF AddWatcher, CloseWatcher, Listen
  <2>2. watchers' \in [Watcher -> WatcherState]
    BY <1>0, <2>1 DEF WatcherState
  <2>3. \A v \in Watcher : watchers[v] # "gone" => watchers'[v] # "gone"
    BY <1>0, <2>1
  <2>4. depth' = depth
    BY <1>8 DEF AddWatcher, CloseWatcher, Listen
  <2>5. QED
    BY <1>0, <2>2, <2>3, <2>4, SafeWatchers
<1>9. ASSUME NEW w \in Watcher, AddWatcher(w) \/ CloseWatcher(w) PROVE SafeInv'
  BY <1>8, <1>9 DEF AddWatcher, CloseWatcher, SafeInv
<1>10. ASSUME NEW w \in Watcher, RefWatcher(w) PROVE SafeInv'
  BY <1>1, <1>10 DEF RefWatcher
<1>11. ASSUME NEW w \in Watcher, Listen(w) PROVE SafeInv'
  <2>1. stack' = Append(stack, NewFrame("run", "top"))
    BY <1>11 DEF Listen
  <2>2. Safe(Append(stack, NewFrame("run", "top")), depth, watchers')
    BY <1>8, <1>11, SafeCall DEF Fn, Pc, Pass, Held
  <2>3. QED
    BY <1>8, <1>11, <2>1, <2>2 DEF SafeInv
<1>12. ASSUME NEW t \in Timer, Await(t) PROVE SafeInv'
  <2> DEFINE f == NewFrame("run", "top")
             g == [f EXCEPT !.until = t]
  <2>1. stack' = Append(stack, g) /\ UNCHANGED <<depth, watchers>>
    BY <1>12 DEF Await
  <2>2. f \in Frame /\ Weight(f) = 0 /\ FrameSafe(f, depth, watchers) /\ t \in Nat
    BY FreshFrame, Bounds DEF Fn, Pc, Pass, Held
  <2> HIDE DEF f
  <2>3. g \in Frame /\ g.fn = f.fn /\ g.pc = f.pc /\ g.ready = f.ready
    BY <2>2 DEF Frame
  <2> HIDE DEF g
  <2>4. Weight(g) = 0 /\ FrameSafe(g, depth, watchers) /\ depth \in Nat /\ depth + 0 = depth
    BY <2>2, <2>3, SameFields, TopSafe
  <2>5. Safe(Append(stack, g), depth, watchers)
    BY <1>0, <2>3, <2>4, SafePush
  <2>6. QED
    BY <1>0, <2>1, <2>5 DEF SafeInv
<1>13. QED
  BY <1>2, <1>3, <1>4, <1>5, <1>6, <1>7, <1>9, <1>10, <1>11, <1>12 DEF JavaScript

LEMMA SafeQueues == ClearInv /\ SafeInv /\ (Drain \/ Main) => SafeInv'
<1> SUFFICES ASSUME ClearInv, SafeInv, Drain \/ Main PROVE SafeInv'
  OBVIOUS
<1>0. Safe(stack, depth, watchers) /\ watchers \in [Watcher -> WatcherState]
  BY DEF SafeInv
<1>1. UNCHANGED <<depth, watchers>>
  BY DEF Drain, DrainFrame, DrainTicks, DrainJob, DrainRetire, DrainReturn, RunTick,
         TicksReturn, Main, io
<1>2. Top.fn # "run"
  BY DEF Drain, DrainFrame, DrainTicks, DrainJob, DrainRetire, DrainReturn, RunTick,
         TicksReturn, Main
<1>3. \A pc \in Pc : Safe(Goto(pc), depth, watchers)
  BY <1>2, SafeMove
<1>4. Safe(Under, depth, watchers)
  <2>1. Weight(Top) = 0
    BY <1>2 DEF Weight
  <2>2. QED
    BY <2>1, TopSafe
<1>5. SUFFICES Safe(stack', depth, watchers)
  BY <1>0, <1>1 DEF SafeInv
<1>6. CASE DrainTicks
  <2>1. \E s \in {Goto("final"), stack} : stack' = Append(s, NewFrame("ticks", "loop"))
    BY <1>6 DEF DrainTicks
  <2>2. Safe(Goto("final"), depth, watchers)
    BY <1>3 DEF Pc
  <2>3. QED
    BY <1>0, <2>1, <2>2, SafeCall DEF Fn, Pc, Pass, Held
<1>7. CASE DrainJob
  <2>1. Safe(Goto("retire"), depth, watchers) /\ stack' = Append(Goto("retire"), NewFrame("call", "job"))
    BY <1>3, <1>7 DEF DrainJob, Call, Pc
  <2>2. QED
    BY <2>1, SafeCall DEF Fn, Pc, Pass, Held
<1>8. CASE DrainRetire
  BY <1>3, <1>8 DEF DrainRetire, Pc
<1>9. CASE DrainReturn \/ TicksReturn
  BY <1>4, <1>9 DEF DrainReturn, TicksReturn
<1>10. CASE RunTick
  <2>1. stack' = Append(stack, NewFrame("call", "tick"))
    BY <1>10 DEF RunTick, Call
  <2>2. QED
    BY <1>0, <2>1, SafeCall DEF Fn, Pc, Pass, Held
<1>11. CASE Main
  <2>1. Safe(Goto("run"), depth, watchers) /\ Safe(Goto("last"), depth, watchers)
        /\ Safe(Goto("done"), depth, watchers)
    BY <1>3 DEF Pc
  <2>2. Safe(Append(Goto("last"), NewFrame("run", "top")), depth, watchers)
    BY <2>1, SafeCall DEF Fn, Pc, Pass, Held
  <2>3. \/ EnterDrain(Goto("run")) \/ EnterDrain(Goto("done"))
        \/ stack' = Append(Goto("last"), NewFrame("run", "top"))
    BY <1>11 DEF Main
  <2>4. QED
    BY <2>1, <2>2, <2>3, SafeDrain
<1>12. QED
  BY <1>6, <1>7, <1>8, <1>9, <1>10, <1>11 DEF Drain

\* The wait ends: the pass opens with its snapshot, which holds open watchers.
LEMMA SafePoll ==
    ASSUME ClearInv, SafeInv,
           NEW ready \in SUBSET Open, NEW later \in 0 .. MaxTime, Poll(ready, later)
    PROVE  SafeInv'
<1> DEFINE due == {[id |-> t, at |-> timers[t].due] : t \in DueAt(later)}
           alive == ReferencedWatchers # {}
           f == [Top EXCEPT !.pc = "fire", !.due = due, !.ready = ready, !.alive = alive]
<1>1. /\ Top \in Frame /\ Top = stack[Len(stack)] /\ Len(stack) \in DOMAIN stack
      /\ depth \in Nat /\ Top.fn = "run" /\ Top.pc = "idle"
      /\ watchers \in [Watcher -> WatcherState]
  BY TopSafe DEF SafeInv, Poll, RunFrame, At
<1>2. stack' = [stack EXCEPT ![Len(stack)] = f] /\ depth' = depth + 1 /\ watchers' = watchers
  BY <1>1 DEF Poll, io
<1>3. /\ f.fn = "run" /\ f.pc = "fire" /\ f.ready = ready
  BY <1>1 DEF Frame
<1>4. due \in SUBSET [id : Nat, at : Nat]
  <2>1. \A t \in DueAt(later) : t \in Nat /\ timers[t].due \in Nat
    BY Bounds DEF DueAt, ClearInv, TimersOK, TimerEntry
  <2>2. QED
    BY <2>1
<1>5. ready \in SUBSET Watcher /\ alive \in BOOLEAN /\ \A w \in ready : watchers[w] # "gone"
  BY DEF Open
<1> HIDE DEF due, alive
<1>6. f \in Frame
  BY <1>1, <1>4, <1>5 DEF Frame
<1> HIDE DEF f
<1>7. Weight(Top) = 0 /\ Weight(f) = 1
  BY <1>1, <1>3 DEF Weight, Pass, Held
<1>8. depth + 1 = depth - Weight(Top) + Weight(f) /\ depth + 1 >= 1
  BY <1>1, <1>7
<1>9. FrameSafe(f, depth + 1, watchers)
  BY <1>3, <1>5, <1>8 DEF FrameSafe, Held
<1>10. Safe([stack EXCEPT ![Len(stack)] = f], depth + 1, watchers)
  BY <1>6, <1>8, <1>9, NewTop
<1>11. QED
  BY <1>1, <1>2, <1>10 DEF SafeInv

\* A top frame that differs where neither passes nor watchers are concerned.
LEMMA SameTop ==
    ASSUME ClearInv, SafeInv, NEW f \in Frame,
           f.fn = Top.fn, f.ready = Top.ready,
           \/ f.pc = Top.pc
           \/ /\ Top.pc \in Pass \ {"dispatched"} /\ f.pc \in Pass \ {"dispatched"}
              /\ f.pc \in Held \/ Top.ready = {}
    PROVE  Safe([stack EXCEPT ![Len(stack)] = f], depth, watchers)
<1>1. FrameSafe(Top, depth, watchers) /\ depth \in Nat /\ depth - Weight(Top) \in Nat
  BY TopSafe
<1>2. Weight(f) = Weight(Top)
  BY DEF Weight
<1>3. depth = depth - Weight(Top) + Weight(f)
  BY <1>1, <1>2, WeightType
<1>4. FrameSafe(f, depth, watchers)
  BY <1>1 DEF FrameSafe
<1>5. QED
  BY <1>3, <1>4, NewTop

\* Timers and immediates start in the frame of their pass, which keeps its
\* snapshot.
LEMMA SafeStart ==
    ASSUME ClearInv, SafeInv, FireTimer \/ RunImmediate
    PROVE  SafeInv'
<1> DEFINE n == Len(stack)
<1>1. IsTop(n) /\ watchers \in [Watcher -> WatcherState] /\ FrameSafe(Top, depth, watchers)
  BY TopSafe DEF SafeInv, IsTop
<1>2. Top.fn = "run" /\ UNCHANGED <<depth, watchers>>
  BY DEF FireTimer, RunImmediate, RunFrame, At, io
<1>3. PICK f \in Frame, kind \in {"timer", "immediate"} :
        /\ f.fn = "run" /\ f.ready = Top.ready
        /\ \/ f.pc = Top.pc
           \/ /\ Top.pc \in Pass \ {"dispatched"} /\ f.pc \in Pass \ {"dispatched"}
              /\ f.pc \in Held \/ Top.ready = {}
        /\ \/ stack' = [stack EXCEPT ![n] = f]
           \/ stack' = Append([stack EXCEPT ![n] = f], NewFrame("call", kind))
  <2>1. CASE FireTimer
    <3>1. Top.pc = "fire"
      BY <2>1 DEF FireTimer, RunFrame, At
    <3>2. PICK f \in Frame :
            /\ f.fn = "run" /\ f.ready = Top.ready /\ f.pc \in {"fire", "fired"}
            /\ \/ stack' = [stack EXCEPT ![n] = f]
               \/ stack' = Append([stack EXCEPT ![n] = f], NewFrame("call", "timer"))
      BY <1>1, <2>1, FireShape
    <3>3. QED
      BY <3>1, <3>2 DEF Pass, Held
  <2>2. CASE RunImmediate
    <3>1. Top.pc = "imm" /\ Top.ready = {}
      BY <1>1, <1>2, <2>2 DEF RunImmediate, RunFrame, At, FrameSafe, Held
    <3>2. PICK f \in Frame : Running(f, n)
      BY <1>1, <2>2, ImmediateShape
    <3>3. /\ f.fn = "run" /\ f.ready = Top.ready /\ f.pc \in {"imm", "ranimm"}
          /\ \/ stack' = [stack EXCEPT ![n] = f]
             \/ stack' = Append([stack EXCEPT ![n] = f], NewFrame("call", "immediate"))
      BY <3>2 DEF Running
    <3>4. QED
      BY <3>1, <3>3 DEF Pass, Held
  <2>3. QED
    BY <2>1, <2>2
<1>4. Safe([stack EXCEPT ![n] = f], depth, watchers)
  BY <1>2, <1>3, SameTop
<1>5. Safe(Append([stack EXCEPT ![n] = f], NewFrame("call", kind)), depth, watchers)
  BY <1>3, <1>4, SafeCall DEF Fn, Pc, Pass, Held
<1>6. QED
  BY <1>1, <1>2, <1>3, <1>4, <1>5 DEF SafeInv

LEMMA SafeTake ==
    ASSUME ClearInv, SafeInv, TakeImmediates
    PROVE  SafeInv'
<1> DEFINE n == Len(stack)
           due == {[id |-> i, at |-> 0] : i \in QueuedImms}
           f == [Top EXCEPT !.pc = "imm", !.pending = QueuedImms, !.due = due]
<1>1. /\ Top \in Frame /\ Top = stack[n] /\ n \in DOMAIN stack
      /\ watchers \in [Watcher -> WatcherState] /\ FrameSafe(Top, depth, watchers)
  BY TopSafe DEF SafeInv
<1>2. Top.fn = "run" /\ Top.pc = "check" /\ UNCHANGED <<depth, watchers>>
  BY DEF TakeImmediates, RunFrame, At, io
<1>3. Top.ready = {}
  BY <1>1, <1>2 DEF FrameSafe, Held
<1>4. stack' = StartBatch(stack) \/ stack' = Goto("end")
  BY DEF TakeImmediates
<1>5. StartBatch(stack) = [stack EXCEPT ![n] = f]
  BY <1>1 DEF StartBatch
<1>6. QueuedImms \in SUBSET Imm /\ due \in SUBSET [id : Nat, at : Nat]
  BY Bounds DEF QueuedImms
<1> HIDE DEF due
<1>7. f \in Frame /\ f.fn = Top.fn /\ f.pc = "imm" /\ f.ready = Top.ready
  BY <1>1, <1>6 DEF Frame
<1> HIDE DEF f
<1>8. Safe([stack EXCEPT ![n] = f], depth, watchers)
  BY <1>2, <1>3, <1>7, SameTop DEF Pass, Held
<1>9. Safe(Goto("end"), depth, watchers)
  BY <1>2, <1>3, SafeMove DEF Pc, Pass, Held
<1>10. QED
  BY <1>1, <1>2, <1>4, <1>5, <1>8, <1>9 DEF SafeInv

\* A dispatch: the pass counts twice while onReady of w, a frame that points to
\* w, is above it.
LEMMA SafeDispatch ==
    ASSUME ClearInv, SafeInv, NEW w \in Watcher, Dispatch(w)
    PROVE  SafeInv'
<1> DEFINE n == Len(stack)
<1>1. /\ IsTop(n) /\ stack \in Seq(Frame) /\ depth \in Nat
      /\ watchers \in [Watcher -> WatcherState] /\ FrameSafe(Top, depth, watchers)
  BY TopSafe DEF SafeInv, Safe, IsTop
<1>2. Top.fn = "run" /\ Top.pc = "dispatch" /\ w \in Top.ready /\ watchers' = watchers
  BY DEF Dispatch, RunFrame, At, io
<1>3. depth >= 1 /\ \A v \in Top.ready : watchers[v] # "gone"
  BY <1>1, <1>2 DEF FrameSafe
<1>4. PICK f, g \in Frame : Dispatching(f, g, w, n)
  BY <1>1, DispatchShape
<1>5. /\ f.fn = "run" /\ f.ready = Top.ready \ {w}
      /\ g.fn = "call" /\ g.ready = {w}
      /\ \/ stack' = [stack EXCEPT ![n] = f] /\ f.pc = "dispatch" /\ depth' = depth
         \/ /\ stack' = Append([stack EXCEPT ![n] = f], g)
            /\ f.pc = "dispatched" /\ depth' = depth + 1
  BY <1>4 DEF Dispatching
<1>6. Weight(Top) = 1 /\ Weight(g) = 0
  BY <1>2, <1>5 DEF Weight, Pass, Held
<1>7. CASE stack' = [stack EXCEPT ![n] = f] /\ f.pc = "dispatch" /\ depth' = depth
  <2>1. Weight(f) = 1 /\ FrameSafe(f, depth, watchers)
    BY <1>3, <1>5, <1>7 DEF Weight, FrameSafe, Pass, Held
  <2>2. depth = depth - Weight(Top) + Weight(f)
    BY <1>1, <1>6, <2>1
  <2>3. QED
    BY <1>1, <1>2, <1>7, <2>1, <2>2, NewTop DEF SafeInv
<1>8. CASE /\ stack' = Append([stack EXCEPT ![n] = f], g)
           /\ f.pc = "dispatched" /\ depth' = depth + 1
  <2>1. depth + 1 >= 1 /\ depth + 1 + Weight(g) = depth + 1
    BY <1>1, <1>6
  <2>2. Weight(f) = 2 /\ FrameSafe(f, depth + 1, watchers) /\ FrameSafe(g, depth + 1, watchers)
    BY <1>2, <1>3, <1>5, <1>8, <2>1 DEF Weight, FrameSafe, Pass, Held
  <2>3. depth + 1 = depth - Weight(Top) + Weight(f)
    BY <1>1, <1>6, <2>2
  <2>4. Safe([stack EXCEPT ![n] = f], depth + 1, watchers)
    BY <2>2, <2>3, NewTop
  <2>5. Safe(Append([stack EXCEPT ![n] = f], g), depth + 1, watchers)
    BY <1>5, <2>1, <2>2, <2>4, SafePush
  <2>6. QED
    BY <1>1, <1>2, <1>8, <2>5 DEF SafeInv
<1>9. QED
  BY <1>5, <1>7, <1>8

LEMMA SafeDispatched ==
    ASSUME ClearInv, SafeInv, Dispatched
    PROVE  SafeInv'
<1> DEFINE ready == IF Stop THEN {} ELSE Top.ready
           f == [Top EXCEPT !.pc = "dispatch", !.ready = ready]
<1>1. /\ Top \in Frame /\ Top = stack[Len(stack)] /\ Len(stack) \in DOMAIN stack
      /\ watchers \in [Watcher -> WatcherState] /\ FrameSafe(Top, depth, watchers)
      /\ depth \in Nat /\ depth - Weight(Top) \in Nat /\ Top.ready \subseteq Watcher
  BY TopSafe DEF SafeInv
<1>2. /\ Top.fn = "run" /\ Top.pc = "dispatched"
      /\ watchers' = watchers /\ depth' = depth - 1
      /\ stack' = [stack EXCEPT ![Len(stack)] = f]
  BY <1>1 DEF Dispatched, RunFrame, At, io
<1>3. ready \in SUBSET Watcher /\ ready \subseteq Top.ready
  BY <1>1
<1> HIDE DEF ready
<1>4. f \in Frame /\ f.fn = "run" /\ f.pc = "dispatch" /\ f.ready = ready
  BY <1>1, <1>2, <1>3 DEF Frame
<1> HIDE DEF f
<1>5. Weight(Top) = 2 /\ Weight(f) = 1
  BY <1>2, <1>4 DEF Weight, Pass, Held
<1>6. depth - 1 = depth - Weight(Top) + Weight(f) /\ depth - 1 >= 1
  BY <1>1, <1>5
<1>7. FrameSafe(f, depth - 1, watchers)
  BY <1>1, <1>3, <1>4, <1>6 DEF FrameSafe, Held
<1>8. Safe([stack EXCEPT ![Len(stack)] = f], depth - 1, watchers)
  BY <1>4, <1>6, <1>7, NewTop
<1>9. QED
  BY <1>1, <1>2, <1>8 DEF SafeInv

\* A pass ends, by stopping before its dispatch or after its immediates.
LEMMA SafeEnd ==
    ASSUME ClearInv, SafeInv, Ready \/ EndPass
    PROVE  SafeInv'
<1>1. /\ Top \in Frame /\ FrameSafe(Top, depth, watchers)
      /\ watchers \in [Watcher -> WatcherState] /\ Safe(Under, depth - Weight(Top), watchers)
      /\ depth \in Nat /\ depth - Weight(Top) \in Nat
  BY TopSafe DEF SafeInv
<1>2. Top.fn = "run" /\ Top.pc \in {"ready", "end"} /\ Weight(Top) = 1
  BY DEF Ready, EndPass, RunFrame, At, Weight, Pass, Held
<1>3. CASE Ready /\ ~Stop
  <2>1. stack' = Goto("dispatch") /\ UNCHANGED <<depth, watchers>>
    BY <1>3 DEF Ready
  <2>2. Safe(Goto("dispatch"), depth, watchers)
    BY <1>2, <1>3, SafeMove DEF Ready, RunFrame, At, Pc, Pass, Held
  <2>3. QED
    BY <1>1, <2>1, <2>2 DEF SafeInv
<1>4. CASE (Ready \/ EndPass) /\ Stop
  <2>1. stack' = Under /\ depth' = depth - 1 /\ PurgeClosedIfSafe(depth - 1)
    BY <1>4 DEF Ready, EndPass
  <2>2. Safe(Under, depth - 1, watchers)
    BY <1>1, <1>2
  <2>3. QED
    BY <1>1, <2>1, <2>2, SafePurgeClosed DEF SafeInv
<1>5. CASE EndPass /\ ~Stop
  <2> DEFINE f == [Top EXCEPT !.pc = "top"]
  <2>1. stack' = Goto("top") /\ depth' = depth - 1 /\ PurgeClosedIfSafe(depth - 1)
        /\ Top.pc = "end"
    BY <1>5 DEF EndPass, RunFrame, At
  <2>2. Top.ready = {}
    BY <1>1, <1>2, <2>1 DEF FrameSafe, Held
  <2>3. Weight(f) = 0
    BY <1>1 DEF Weight, Frame, Pass, Held
  <2>4. depth - 1 = depth - Weight(Top) + Weight(f)
    BY <1>1, <1>2, <2>3
  <2> HIDE DEF f
  <2>5. Safe(Goto("top"), depth - 1, watchers)
    BY <2>2, <2>4, SafeGoto DEF f, Pc
  <2>6. QED
    BY <1>1, <2>1, <2>5, SafePurgeClosed DEF SafeInv
<1>6. QED
  BY <1>3, <1>4, <1>5

LEMMA SafeLoop == ClearInv /\ SafeInv /\ Loop => SafeInv'
<1> SUFFICES ASSUME ClearInv, SafeInv, Loop PROVE SafeInv'
  OBVIOUS
<1>0. /\ Safe(stack, depth, watchers) /\ watchers \in [Watcher -> WatcherState]
      /\ Top \in Frame /\ FrameSafe(Top, depth, watchers) /\ depth \in Nat
  BY TopSafe DEF SafeInv
<1> USE DEF io, RunFrame, At
<1>1. ASSUME NEW pc \in Pc, Safe(Goto(pc), depth, watchers), UNCHANGED <<depth, watchers>>,
             EnterDrain(Goto(pc)) \/ stack' = Goto(pc)
      PROVE  SafeInv'
  BY <1>0, <1>1, SafeDrain DEF SafeInv
<1>2. CASE RunDrain
  <2>1. Safe(Goto("idle"), depth, watchers)
    BY <1>2, SafeMove DEF RunDrain, Pc, Pass, Held
  <2>2. QED
    BY <1>1, <1>2, <2>1 DEF RunDrain, Pc
<1>3. CASE RunReturn
  <2>1. stack' = Under /\ depth' = depth /\ PurgeClosedIfSafe(depth) /\ Weight(Top) = 0
    BY <1>3 DEF RunReturn, Weight, Pass, Held
  <2>2. Safe(Under, depth, watchers)
    BY <1>0, <2>1, TopSafe
  <2>3. QED
    BY <1>0, <2>1, <2>2, SafePurgeClosed DEF SafeInv
<1>4. CASE RunAgain
  <2>1. Safe(Goto("top"), depth, watchers)
    BY <1>4, SafeMove DEF RunAgain, Pc, Pass, Held
  <2>2. QED
    BY <1>1, <1>4, <2>1 DEF RunAgain, Pc
<1>5. CASE FiredTimer
  <2>1. Safe(Goto("fire"), depth, watchers)
    BY <1>5, SafeMove DEF FiredTimer, Pc, Pass, Held
  <2>2. QED
    BY <1>1, <1>5, <2>1 DEF FiredTimer, Pc
<1>6. CASE FireDone
  <2>1. Safe(Goto("ready"), depth, watchers)
    BY <1>6, SafeMove DEF FireDone, Pc, Pass, Held
  <2>2. QED
    BY <1>1, <1>6, <2>1 DEF FireDone, Pc
<1>7. CASE DispatchDone
  <2>1. Safe(Goto("check"), depth, watchers)
    BY <1>7, SafeMove DEF DispatchDone, Pc, Pass, Held
  <2>2. QED
    BY <1>1, <1>7, <2>1 DEF DispatchDone, Pc
<1>8. CASE RanImmediate
  <2>1. Top.ready = {}
    BY <1>0, <1>8 DEF RanImmediate, FrameSafe, Held
  <2>2. Safe(Goto("imm"), depth, watchers)
    BY <1>8, <2>1, SafeMove DEF RanImmediate, Pc, Pass, Held
  <2>3. QED
    BY <1>1, <1>8, <2>2 DEF RanImmediate, Pc
<1>9. CASE ImmediatesDone
  <2>1. Top.ready = {}
    BY <1>0, <1>9 DEF ImmediatesDone, FrameSafe, Held
  <2>2. Safe(Goto("end"), depth, watchers)
    BY <1>9, <2>1, SafeMove DEF ImmediatesDone, Pc, Pass, Held
  <2>3. QED
    BY <1>1, <1>9, <2>2 DEF ImmediatesDone, Pc
<1>10. QED
  BY <1>2, <1>3, <1>4, <1>5, <1>6, <1>7, <1>8, <1>9, SafePoll, SafeStart, SafeTake,
     SafeDispatch, SafeDispatched, SafeEnd DEF Loop

LEMMA SafeInvHolds == Spec => []SafeInv
<1>1. SafeInv /\ UNCHANGED vars => SafeInv'
  BY DEF vars, SafeInv
<1>2. ClearInv /\ SafeInv /\ [Next]_vars => SafeInv'
  BY <1>1, SafeJavaScript, SafeQueues, SafeLoop DEF Next
<1>3. QED
  BY <1>2, SafeInit, ClearInvHolds, PTL DEF Spec

\* No activation of the loop and no onReady on the stack ever points to a destroyed
\* watcher, for any number of watchers and any nesting of loops: purgeClosedIfSafe
\* runs only at dispatchDepth_ zero, and the depth counts every pass that could hold
\* one.
THEOREM NoDanglingWatcherCorrect == Spec => []NoDanglingWatcher
<1>1. SafeInv => NoDanglingWatcher
  <2> SUFFICES ASSUME SafeInv PROVE NoDanglingWatcher
    OBVIOUS
  <2>1. PICK d : \A k \in 1 .. Len(stack) : FrameSafe(stack[k], d[k], watchers)
    BY DEF SafeInv, Safe
  <2>2. DOMAIN stack = 1 .. Len(stack)
    BY DEF SafeInv, Safe
  <2>3. QED
    BY <2>1, <2>2 DEF FrameSafe, NoDanglingWatcher
<1>2. QED
  BY <1>1, SafeInvHolds, PTL

----------------
(***************************************************************************)
(* Why next ticks come first.  A loop that is about to fire a timer or to  *)
(* run an immediate has just come back from a drain, which leaves no tick; *)
(* the drain does nothing only when the loop itself runs inside one, and   *)
(* then, but only then, ticks may wait.  On the stack: at most one frame   *)
(* drains, a loop that waits at one of the settled places waits for that   *)
(* drain, and a drain that waits at its last line waits for the ticks.     *)
(***************************************************************************)
Settled == {"fire", "check", "imm"}

IsSettled(f) == f.fn = "run" /\ f.pc \in Settled
IsFinal(f) == f.fn = "drain" /\ f.pc = "final"

\* Frame f may wait for frame g, which it called.
Waits(f, g) ==
    /\ IsSettled(f) => g.fn = "drain"
    /\ IsFinal(f) => g.fn = "ticks"

Drains(s) == {k \in 1 .. Len(s) : s[k].fn = "drain"}

Tidy(s) ==
    /\ s \in Seq(Frame) /\ Len(s) >= 1
    /\ \A j, k \in 1 .. Len(s) : j \in Drains(s) /\ k \in Drains(s) => j = k
    /\ \A k \in 1 .. Len(s) : k + 1 \in 1 .. Len(s) => Waits(s[k], s[k + 1])

\* The running frame of s is where ticks tks may wait.
Rested(s, tks) ==
    /\ IsSettled(s[Len(s)]) /\ Drains(s) = {} => tks = << >>
    /\ IsFinal(s[Len(s)]) => tks = << >>

LEMMA TidyPush ==
    ASSUME NEW s, Tidy(s), NEW f \in Frame, Waits(s[Len(s)], f),
           f.fn = "drain" => Drains(s) = {}
    PROVE  /\ Tidy(Append(s, f)) /\ Append(s, f)[Len(Append(s, f))] = f
           /\ f.fn # "drain" => Drains(Append(s, f)) = Drains(s)
           /\ f.fn = "drain" => Drains(Append(s, f)) # {}
<1> DEFINE z == Append(s, f)
           n == Len(s)
<1>1. /\ z \in Seq(Frame) /\ Len(z) = n + 1 /\ n \in Nat /\ n >= 1 /\ z[n + 1] = f
      /\ \A k \in 1 .. n : z[k] = s[k]
  BY DEF Tidy
<1> HIDE DEF z
<1>2. \A k \in 1 .. n + 1 : k = n + 1 \/ k \in 1 .. n
  BY <1>1
<1>3. Drains(z) = Drains(s) \cup (IF f.fn = "drain" THEN {n + 1} ELSE {})
  BY <1>1, <1>2 DEF Drains
<1>4. \A j, k \in 1 .. n + 1 : j \in Drains(z) /\ k \in Drains(z) => j = k
  <2>1. CASE f.fn = "drain"
    BY <1>3, <2>1
  <2>2. CASE f.fn # "drain"
    <3>1. Drains(z) = Drains(s)
      BY <1>3, <2>2
    <3>2. Drains(s) \subseteq 1 .. n
      BY DEF Drains
    <3>3. QED
      BY <3>1, <3>2 DEF Tidy
  <2>3. QED
    BY <2>1, <2>2
<1>5. ASSUME NEW k \in 1 .. n + 1, k + 1 \in 1 .. n + 1 PROVE Waits(z[k], z[k + 1])
  <2>1. k \in 1 .. n /\ (k = n \/ k + 1 \in 1 .. n)
    BY <1>1, <1>5
  <2>2. CASE k = n
    BY <1>1, <2>1, <2>2
  <2>3. CASE k + 1 \in 1 .. n
    BY <1>1, <2>1, <2>3 DEF Tidy
  <2>4. QED
    BY <2>1, <2>2, <2>3
<1>6. Tidy(z)
  BY <1>1, <1>4, <1>5 DEF Tidy
<1>7. z[Len(z)] = f
  BY <1>1
<1>8. QED
  BY <1>3, <1>6, <1>7 DEF z

LEMMA TidyPop ==
    ASSUME NEW s, Tidy(s), Len(s) # 1
    PROVE  LET u == SubSeq(s, 1, Len(s) - 1) IN
           /\ Tidy(u) /\ Drains(u) = Drains(s) \ {Len(s)}
           /\ Waits(u[Len(u)], s[Len(s)])
<1> DEFINE n == Len(s) - 1
           u == SubSeq(s, 1, n)
<1>1. /\ n \in Nat /\ n >= 1 /\ Len(s) = n + 1
      /\ u \in Seq(Frame) /\ Len(u) = n /\ \A k \in 1 .. n : u[k] = s[k]
  <2>1. s \in Seq(Frame) /\ Len(s) >= 1
    BY DEF Tidy
  <2>2. /\ n \in Nat /\ Len(s) = n + 1
        /\ u \in Seq(Frame) /\ Len(u) = n /\ \A k \in 1 .. n : u[k] = s[k]
    BY <2>1, PopShape
  <2> HIDE DEF u, n
  <2>3. QED
    BY <2>2
<1> HIDE DEF n, u
<1>2. Drains(u) = Drains(s) \ {n + 1}
  <2>1. \A k \in 1 .. n + 1 : k = n + 1 \/ k \in 1 .. n
    BY <1>1
  <2>2. \A k \in 1 .. n : k # n + 1 /\ k \in 1 .. n + 1
    BY <1>1
  <2>3. QED
    BY <1>1, <2>1, <2>2 DEF Drains
<1>3. \A j, k \in 1 .. n : j \in Drains(u) /\ k \in Drains(u) => j = k
  <2>1. \A k \in 1 .. n : k \in 1 .. Len(s)
    BY <1>1
  <2>2. QED
    BY <1>2, <2>1 DEF Tidy
<1>4. ASSUME NEW k \in 1 .. n, k + 1 \in 1 .. n PROVE Waits(u[k], u[k + 1])
  <2>1. k \in 1 .. Len(s) /\ k + 1 \in 1 .. Len(s)
    BY <1>1, <1>4
  <2>2. QED
    BY <1>1, <1>4, <2>1 DEF Tidy
<1>5. Tidy(u)
  BY <1>1, <1>3, <1>4 DEF Tidy
<1>6. Waits(u[n], s[n + 1])
  <2>1. n \in 1 .. n /\ n \in 1 .. Len(s) /\ n + 1 \in 1 .. Len(s)
    BY <1>1
  <2>2. QED
    BY <1>1, <2>1 DEF Tidy
<1>7. QED
  BY <1>1, <1>2, <1>5, <1>6 DEF n, u

\* Only the function of the top frame matters to what is under it.
LEMMA TidyTop ==
    ASSUME NEW s, Tidy(s), NEW f \in Frame, f.fn = s[Len(s)].fn
    PROVE  LET z == [s EXCEPT ![Len(s)] = f] IN
           Tidy(z) /\ Drains(z) = Drains(s) /\ z[Len(z)] = f /\ Len(z) = Len(s)
<1> DEFINE n == Len(s)
           z == [s EXCEPT ![n] = f]
<1>1. /\ n \in Nat /\ n >= 1 /\ z \in Seq(Frame) /\ Len(z) = n /\ z[n] = f
      /\ \A k \in 1 .. n : (k # n => z[k] = s[k]) /\ z[k].fn = s[k].fn
  BY DEF Tidy
<1> HIDE DEF z
<1>2. Drains(z) = Drains(s)
  BY <1>1 DEF Drains
<1>3. ASSUME NEW k \in 1 .. n, k + 1 \in 1 .. n PROVE Waits(z[k], z[k + 1])
  <2>1. k # n /\ z[k] = s[k] /\ z[k + 1].fn = s[k + 1].fn
    BY <1>1, <1>3
  <2>2. Waits(s[k], s[k + 1])
    BY <1>3 DEF Tidy
  <2>3. QED
    BY <2>1, <2>2 DEF Waits
<1>4. Tidy(z)
  BY <1>1, <1>2, <1>3 DEF Tidy
<1>5. QED
  BY <1>1, <1>2, <1>4 DEF z

LEMMA TidyWithout ==
    ASSUME Tidy(stack), NEW i
    PROVE  /\ Tidy(Without(i)) /\ Drains(Without(i)) = Drains(stack)
           /\ \A tks : Rested(stack, tks) => Rested(Without(i), tks)
<1> DEFINE n == Len(stack)
           z == Without(i)
<1>1. DOMAIN stack = 1 .. n /\ n \in Nat /\ n >= 1 /\ n \in 1 .. n
      /\ \A k \in 1 .. n : stack[k] \in Frame
  BY DEF Tidy
<1>2. \A k \in 1 .. n : z[k] \in Frame /\ z[k].fn = stack[k].fn /\ z[k].pc = stack[k].pc
  BY <1>1 DEF Without, Frame
<1>3. z = [k \in 1 .. n |-> z[k]]
  BY <1>1 DEF Without
<1> HIDE DEF z
<1>4. z \in Seq(Frame) /\ Len(z) = n
  BY <1>1, <1>2, <1>3
<1>5. Drains(z) = Drains(stack)
  BY <1>2, <1>4 DEF Drains
<1>6. Tidy(z)
  BY <1>1, <1>2, <1>4, <1>5 DEF Tidy, Waits, IsSettled, IsFinal
<1>7. \A tks : Rested(stack, tks) => Rested(z, tks)
  BY <1>1, <1>2, <1>4, <1>5 DEF Rested, IsSettled, IsFinal
<1>8. QED
  BY <1>5, <1>6, <1>7 DEF z

TicksInv ==
    /\ Tidy(stack) /\ Rested(stack, ticks)
    /\ draining \in BOOLEAN /\ (draining <=> Drains(stack) # {})

LEMMA TopTidy ==
    ASSUME ClearInv, TicksInv
    PROVE  /\ Tidy(stack) /\ Top \in Frame /\ Top = stack[Len(stack)]
           /\ Len(stack) \in DOMAIN stack /\ (Top.fn # "main" => Len(stack) # 1)
<1>1. GoodStack(stack, cleared.immediate)
  BY DEF ClearInv, ImmsOK
<1>2. Top.fn # "main" => Len(stack) # 1
  BY <1>1 DEF GoodStack, Top
<1>3. QED
  BY <1>1, <1>2, TopFields DEF TicksInv

LEMMA MoveTidy ==
    ASSUME ClearInv, TicksInv, NEW f \in Frame, f.fn = Top.fn
    PROVE  LET z == [stack EXCEPT ![Len(stack)] = f] IN
           Tidy(z) /\ Drains(z) = Drains(stack) /\ z[Len(z)] = f /\ Len(z) = Len(stack)
BY TopTidy, TidyTop

LEMMA GotoTidy ==
    ASSUME ClearInv, TicksInv, NEW pc \in Pc
    PROVE  /\ Tidy(Goto(pc)) /\ Drains(Goto(pc)) = Drains(stack)
           /\ Goto(pc)[Len(Goto(pc))].fn = Top.fn
           /\ Goto(pc)[Len(Goto(pc))].pc = pc
<1> DEFINE f == [Top EXCEPT !.pc = pc]
<1>1. Top \in Frame /\ Top = stack[Len(stack)] /\ Len(stack) \in DOMAIN stack
  BY TopTidy
<1>2. f \in Frame /\ f.fn = Top.fn /\ f.pc = pc
  BY <1>1 DEF Frame, Pc
<1>3. Goto(pc) = [stack EXCEPT ![Len(stack)] = f]
  BY <1>1 DEF Goto
<1> HIDE DEF f
<1>4. QED
  BY <1>2, <1>3, MoveTidy

\* A frame that neither drains nor is settled is pushed on a frame that may wait
\* for it.
LEMMA PushTidy ==
    ASSUME NEW s, Tidy(s), NEW f \in Frame, f.fn # "drain", ~IsSettled(f),
           ~IsSettled(s[Len(s)]), IsFinal(s[Len(s)]) => f.fn = "ticks"
    PROVE  /\ Tidy(Append(s, f)) /\ Drains(Append(s, f)) = Drains(s)
           /\ \A tks : Rested(Append(s, f), tks)
<1>1. Waits(s[Len(s)], f)
  BY DEF Waits
<1>2. /\ Tidy(Append(s, f)) /\ Drains(Append(s, f)) = Drains(s)
      /\ Append(s, f)[Len(Append(s, f))] = f
  BY <1>1, TidyPush
<1>3. QED
  BY <1>2 DEF Rested, IsFinal

LEMMA CallTidy ==
    ASSUME NEW s, Tidy(s), NEW fn \in Fn \ {"drain"}, NEW pc \in Pc \ Settled,
           ~IsSettled(s[Len(s)]), IsFinal(s[Len(s)]) => fn = "ticks"
    PROVE  LET z == Append(s, NewFrame(fn, pc)) IN
           Tidy(z) /\ Drains(z) = Drains(s) /\ \A tks : Rested(z, tks)
<1> DEFINE f == NewFrame(fn, pc)
<1>1. f \in Frame /\ f.fn = fn /\ f.pc = pc
  BY NewFrameType DEF NewFrame
<1> HIDE DEF f
<1>2. ~IsSettled(f)
  BY <1>1 DEF IsSettled
<1>3. QED
  BY <1>1, <1>2, PushTidy DEF f

\* drain_microtasks leaves no tick behind, or is skipped inside another drain.
LEMMA DrainTidy ==
    ASSUME TicksInv, NEW s, Tidy(s), Drains(s) = Drains(stack),
           s[Len(s)].fn # "drain", EnterDrain(s)
    PROVE  /\ Tidy(stack') /\ (\A tks : Rested(stack', tks))
           /\ draining' \in BOOLEAN /\ (draining' <=> Drains(stack') # {})
<1>1. CASE draining
  <2>1. stack' = s /\ draining' = draining /\ Drains(s) # {}
    BY <1>1 DEF EnterDrain, TicksInv
  <2>2. QED
    BY <1>1, <2>1 DEF Rested, IsFinal
<1>2. CASE ~draining
  <2> DEFINE f == NewFrame("drain", "loop")
             z == Append(s, f)
  <2>1. stack' = z /\ draining' = TRUE /\ Drains(s) = {}
    BY <1>2 DEF EnterDrain, TicksInv
  <2>2. f \in Frame /\ f.fn = "drain" /\ f.pc = "loop"
    BY NewFrameType DEF NewFrame, Fn, Pc
  <2> HIDE DEF f
  <2>3. Waits(s[Len(s)], f)
    BY <2>2 DEF Waits, IsFinal
  <2>4. Tidy(z) /\ z[Len(z)] = f /\ Drains(z) # {}
    BY <2>1, <2>2, <2>3, TidyPush
  <2>5. \A tks : Rested(z, tks)
    BY <2>2, <2>4 DEF Rested, IsSettled, IsFinal
  <2>6. QED
    BY <2>1, <2>4, <2>5
<1>3. QED
  BY <1>1, <1>2 DEF TicksInv

\* A callback or a loop returns to a frame that is not settled.
LEMMA PopTidy ==
    ASSUME ClearInv, TicksInv, Top.fn # "main", Top.fn # "drain"
    PROVE  /\ Tidy(Under) /\ Drains(Under) = Drains(stack)
           /\ Top.fn # "ticks" => \A tks : Rested(Under, tks)
<1>1. Tidy(stack) /\ Top = stack[Len(stack)] /\ Len(stack) # 1
  BY TopTidy
<1>2. /\ Tidy(Under) /\ Drains(Under) = Drains(stack) \ {Len(stack)}
      /\ Waits(Under[Len(Under)], Top)
  BY <1>1, TidyPop DEF Under
<1>3. Len(stack) \notin Drains(stack)
  BY <1>1 DEF Drains
<1>4. QED
  BY <1>2, <1>3 DEF Rested, Waits

LEMMA TicksJavaScript == ClearInv /\ TicksInv /\ JavaScript => TicksInv'
<1> SUFFICES ASSUME ClearInv, TicksInv, JavaScript PROVE TicksInv'
  OBVIOUS
<1>0. /\ Tidy(stack) /\ Rested(stack, ticks) /\ draining \in BOOLEAN
      /\ (draining <=> Drains(stack) # {})
      /\ Top = stack[Len(stack)] /\ Top \in Frame
  BY TopTidy DEF TicksInv
<1>1. draining' = draining
  BY DEF JavaScript, QueueMicrotask, NextTick, SetImmediate, Return, SetTimer, ClearTimer,
     UnrefTimer, ClearImmediate, RefImmediate, AddWatcher, CloseWatcher, RefWatcher, Listen, Await
<1>2. ASSUME Tidy(stack'), Drains(stack') = Drains(stack), Rested(stack', ticks')
      PROVE  TicksInv'
  BY <1>0, <1>1, <1>2 DEF TicksInv
<1>3. ASSUME UNCHANGED <<stack, ticks>> PROVE TicksInv'
  BY <1>0, <1>2, <1>3
<1>4. CASE NextTick
  <2>1. stack' = stack /\ (Top.fn = "call" \/ Top.fn = "main")
    BY <1>4 DEF NextTick, JavaScriptCall, InJavaScript, At
  <2>2. Rested(stack, ticks')
    BY <1>0, <2>1 DEF Rested, IsSettled, IsFinal
  <2>3. QED
    BY <1>0, <1>2, <2>1, <2>2
<1>5. CASE Return
  <2>1. stack' = Under /\ Top.fn = "call"
    BY <1>5 DEF Return
  <2>2. QED
    BY <1>2, <2>1, PopTidy
<1>6. ASSUME NEW i \in Imm, ClearImmediate(i) PROVE TicksInv'
  <2>1. stack' = Without(i) /\ ticks' = ticks
    BY <1>6 DEF ClearImmediate, Without, queues
  <2>2. QED
    BY <1>0, <1>2, <2>1, TidyWithout
<1>7. CASE (\E w \in Watcher : Listen(w)) \/ (\E t \in Timer : Await(t))
  <2>1. Top.fn = "call" \/ Top.fn = "main"
    BY <1>7 DEF Listen, Await, JavaScriptCall, InJavaScript, At
  <2>2. PICK f : /\ f \in Frame /\ f.fn = "run" /\ f.pc = "top"
                 /\ stack' = Append(stack, f)
    <3> DEFINE h == NewFrame("run", "top")
    <3>1. h \in Frame /\ h.fn = "run" /\ h.pc = "top"
      BY NewFrameType DEF NewFrame, Fn, Pc
    <3>2. \/ stack' = Append(stack, h)
          \/ \E t \in Timer : stack' = Append(stack, [h EXCEPT !.until = t])
      BY <1>7 DEF Listen, Await
    <3> HIDE DEF h
    <3>3. ASSUME NEW t \in Timer
          PROVE  /\ [h EXCEPT !.until = t] \in Frame
                 /\ [h EXCEPT !.until = t].fn = "run" /\ [h EXCEPT !.until = t].pc = "top"
      BY <3>1, Bounds DEF Frame
    <3>4. QED
      BY <3>1, <3>2, <3>3
  <2>3. ~IsSettled(f) /\ ~IsSettled(Top) /\ ~IsFinal(Top) /\ f.fn # "drain"
    BY <2>1, <2>2 DEF IsSettled, IsFinal, Settled
  <2>4. QED
    BY <1>0, <1>2, <2>2, <2>3, PushTidy
<1>8. CASE QueueMicrotask \/ SetImmediate
  BY <1>3, <1>8 DEF QueueMicrotask, SetImmediate, queues
<1>9. CASE \E d \in {0, 1}, r \in BOOLEAN : SetTimer(d, r)
  BY <1>3, <1>9 DEF SetTimer, queues
<1>10. CASE \E t \in Timer : ClearTimer(t) \/ UnrefTimer(t)
  BY <1>3, <1>10 DEF ClearTimer, UnrefTimer, queues
<1>11. CASE \E i \in Imm, r \in BOOLEAN : RefImmediate(i, r)
  BY <1>3, <1>11 DEF RefImmediate, queues
<1>12. CASE \E w \in Watcher : AddWatcher(w) \/ CloseWatcher(w) \/ RefWatcher(w)
  BY <1>3, <1>12 DEF AddWatcher, CloseWatcher, RefWatcher, queues
<1>13. QED
  BY <1>4, <1>5, <1>6, <1>7, <1>8, <1>9, <1>10, <1>11, <1>12 DEF JavaScript

LEMMA TicksQueues == ClearInv /\ TicksInv /\ (Drain \/ Main) => TicksInv'
<1> SUFFICES ASSUME ClearInv, TicksInv, Drain \/ Main PROVE TicksInv'
  OBVIOUS
<1>0. /\ Tidy(stack) /\ Rested(stack, ticks) /\ draining \in BOOLEAN
      /\ (draining <=> Drains(stack) # {})
      /\ Top = stack[Len(stack)] /\ Top \in Frame
  BY TopTidy DEF TicksInv
<1>1. ASSUME Tidy(stack'), Drains(stack') = Drains(stack), Rested(stack', ticks'),
             draining' = draining
      PROVE  TicksInv'
  BY <1>0, <1>1 DEF TicksInv
<1>2. CASE DrainTicks
  <2>1. /\ Top.fn = "drain" /\ Top.pc = "loop" /\ draining' = draining
        /\ \/ stack' = Append(stack, NewFrame("ticks", "loop"))
           \/ stack' = Append(Goto("final"), NewFrame("ticks", "loop"))
    BY <1>2 DEF DrainTicks, DrainFrame
  <2>2. /\ Tidy(Goto("final")) /\ Drains(Goto("final")) = Drains(stack)
        /\ Goto("final")[Len(Goto("final"))].fn = "drain"
    BY <2>1, GotoTidy DEF Pc
  <2>3. /\ ~IsSettled(stack[Len(stack)])
        /\ ~IsSettled(Goto("final")[Len(Goto("final"))])
    BY <1>0, <2>1, <2>2 DEF IsSettled
  <2>4. "ticks" \in Fn \ {"drain"} /\ "loop" \in Pc \ Settled
    BY DEF Fn, Pc, Settled
  <2>5. ASSUME NEW s \in {stack, Goto("final")}, stack' = Append(s, NewFrame("ticks", "loop"))
        PROVE  Tidy(stack') /\ Drains(stack') = Drains(stack) /\ Rested(stack', ticks')
    <3>1. Tidy(s) /\ Drains(s) = Drains(stack) /\ ~IsSettled(s[Len(s)])
      BY <1>0, <2>2, <2>3
    <3>2. QED
      BY <2>4, <2>5, <3>1, CallTidy
  <2>6. QED
    BY <1>1, <2>1, <2>5
<1>3. CASE DrainJob
  <2>1. /\ Top.fn = "drain" /\ draining' = draining
        /\ stack' = Append(Goto("retire"), NewFrame("call", "job"))
    BY <1>3 DEF DrainJob, DrainFrame, Call
  <2>2. /\ Tidy(Goto("retire")) /\ Drains(Goto("retire")) = Drains(stack)
        /\ ~IsSettled(Goto("retire")[Len(Goto("retire"))])
        /\ ~IsFinal(Goto("retire")[Len(Goto("retire"))])
    BY <2>1, GotoTidy DEF Pc, IsSettled, IsFinal
  <2>3. "call" \in Fn \ {"drain"} /\ "job" \in Pc \ Settled
    BY DEF Fn, Pc, Settled
  <2>4. QED
    BY <1>1, <2>1, <2>2, <2>3, CallTidy
<1>4. CASE DrainRetire
  <2>1. Top.fn = "drain" /\ draining' = draining /\ stack' = Goto("loop")
    BY <1>4 DEF DrainRetire, DrainFrame
  <2>2. Tidy(Goto("loop")) /\ Drains(Goto("loop")) = Drains(stack) /\ Rested(Goto("loop"), ticks')
    BY <2>1, GotoTidy DEF Pc, Rested, IsSettled, IsFinal
  <2>3. QED
    BY <1>1, <2>1, <2>2
<1>5. CASE DrainReturn
  <2>1. /\ Top.fn = "drain" /\ draining' = FALSE /\ stack' = Under /\ ticks' = ticks
        /\ Top.pc = "final" \/ ticks = << >>
    BY <1>5 DEF DrainReturn, DrainFrame, queues
  <2>2. ticks = << >>
    BY <1>0, <2>1 DEF Rested, IsFinal
  <2>3. Len(stack) # 1
    BY <2>1, TopTidy
  <2>4. Tidy(Under) /\ Drains(Under) = Drains(stack) \ {Len(stack)}
    BY <1>0, <2>3, TidyPop DEF Under
  <2>5. Drains(stack) \subseteq {Len(stack)}
    <3>1. Drains(stack) \subseteq 1 .. Len(stack) /\ Len(stack) \in 1 .. Len(stack)
      BY <1>0 DEF Drains, Tidy
    <3>2. Len(stack) \in Drains(stack)
      BY <1>0, <2>1, <3>1 DEF Drains
    <3>3. QED
      BY <1>0, <3>1, <3>2 DEF Tidy
  <2>6. Rested(Under, ticks')
    BY <2>1, <2>2 DEF Rested
  <2>7. QED
    BY <2>1, <2>4, <2>5, <2>6 DEF TicksInv
<1>6. CASE RunTick
  <2>1. /\ Top.fn = "ticks" /\ draining' = draining
        /\ stack' = Append(stack, NewFrame("call", "tick"))
    BY <1>6 DEF RunTick, Call
  <2>2. ~IsSettled(stack[Len(stack)]) /\ ~IsFinal(stack[Len(stack)])
    BY <1>0, <2>1 DEF IsSettled, IsFinal
  <2>3. "call" \in Fn \ {"drain"} /\ "tick" \in Pc \ Settled
    BY DEF Fn, Pc, Settled
  <2>4. QED
    BY <1>0, <1>1, <2>1, <2>2, <2>3, CallTidy
<1>7. CASE TicksReturn
  <2>1. Top.fn = "ticks" /\ draining' = draining /\ stack' = Under /\ ticks' = << >>
    BY <1>7 DEF TicksReturn, queues
  <2>2. Rested(Under, ticks')
    BY <2>1 DEF Rested
  <2>3. QED
    BY <1>1, <2>1, <2>2, PopTidy
<1>8. CASE Main
  <2>1. Top.fn = "main"
    BY <1>8 DEF Main
  <2>2. \/ EnterDrain(Goto("run")) \/ EnterDrain(Goto("done"))
        \/ stack' = Append(Goto("last"), NewFrame("run", "top")) /\ draining' = draining
    BY <1>8 DEF Main
  <2>3. ASSUME NEW pc \in {"run", "done", "last"}
        PROVE  /\ Tidy(Goto(pc)) /\ Drains(Goto(pc)) = Drains(stack)
               /\ Goto(pc)[Len(Goto(pc))].fn = "main"
    BY <2>1, GotoTidy DEF Pc
  <2>4. ASSUME NEW pc \in {"run", "done"}, EnterDrain(Goto(pc)) PROVE TicksInv'
    BY <2>3, <2>4, DrainTidy DEF TicksInv
  <2>5. CASE stack' = Append(Goto("last"), NewFrame("run", "top")) /\ draining' = draining
    <3>1. /\ ~IsSettled(Goto("last")[Len(Goto("last"))])
          /\ ~IsFinal(Goto("last")[Len(Goto("last"))])
      BY <2>3 DEF IsSettled, IsFinal
    <3>2. "run" \in Fn \ {"drain"} /\ "top" \in Pc \ Settled
      BY DEF Fn, Pc, Settled
    <3>3. QED
      BY <1>1, <2>3, <2>5, <3>1, <3>2, CallTidy
  <2>6. QED
    BY <2>2, <2>4, <2>5
<1>9. QED
  BY <1>2, <1>3, <1>4, <1>5, <1>6, <1>7, <1>8 DEF Drain

\* A timer or an immediate starts, or is skipped.
LEMMA TicksStart ==
    ASSUME ClearInv, TicksInv, FireTimer \/ RunImmediate
    PROVE  TicksInv'
<1> DEFINE n == Len(stack)
<1>0. /\ Tidy(stack) /\ Rested(stack, ticks) /\ draining \in BOOLEAN
      /\ (draining <=> Drains(stack) # {}) /\ Top = stack[Len(stack)] /\ IsTop(n)
  BY TopTidy DEF TicksInv, IsTop
<1>1. Top.fn = "run" /\ Top.pc \in Settled /\ draining' = draining /\ ticks' = ticks
  BY DEF FireTimer, RunImmediate, RunFrame, At, queues, Settled
<1>2. PICK f \in Frame, kind \in {"timer", "immediate"} :
        /\ f.fn = "run"
        /\ \/ stack' = [stack EXCEPT ![n] = f] /\ f.pc = Top.pc
           \/ /\ stack' = Append([stack EXCEPT ![n] = f], NewFrame("call", kind))
              /\ f.pc \notin Settled
  <2>1. CASE FireTimer
    BY <1>0, <2>1, FireShape DEF FireTimer, RunFrame, At, Settled
  <2>2. CASE RunImmediate
    <3>1. Top.pc = "imm"
      BY <2>2 DEF RunImmediate, RunFrame, At
    <3>2. PICK f \in Frame : Running(f, n)
      BY <1>0, <2>2, ImmediateShape
    <3>3. /\ f.fn = "run"
          /\ \/ stack' = [stack EXCEPT ![n] = f] /\ f.pc = "imm"
             \/ /\ stack' = Append([stack EXCEPT ![n] = f], NewFrame("call", "immediate"))
                /\ f.pc = "ranimm"
      BY <3>2 DEF Running
    <3>4. QED
      BY <3>1, <3>3 DEF Settled
  <2>3. QED
    BY <2>1, <2>2
<1> DEFINE z == [stack EXCEPT ![n] = f]
<1>3. Tidy(z) /\ Drains(z) = Drains(stack) /\ z[Len(z)] = f
  BY <1>1, <1>2, MoveTidy
<1>4. CASE stack' = z /\ f.pc = Top.pc
  <2>1. Rested(z, ticks)
    BY <1>0, <1>1, <1>2, <1>3, <1>4 DEF Rested, IsSettled, IsFinal
  <2>2. QED
    BY <1>0, <1>1, <1>3, <1>4, <2>1 DEF TicksInv
<1>5. CASE stack' = Append(z, NewFrame("call", kind)) /\ f.pc \notin Settled
  <2>1. ~IsSettled(f) /\ ~IsFinal(f)
    BY <1>2, <1>5 DEF IsSettled, IsFinal
  <2>2. "call" \in Fn \ {"drain"} /\ kind \in Pc \ Settled
    BY <1>2 DEF Fn, Pc, Settled
  <2> HIDE DEF z
  <2>3. QED
    BY <1>0, <1>1, <1>3, <1>5, <2>1, <2>2, CallTidy DEF TicksInv
<1>6. QED
  BY <1>2, <1>4, <1>5

LEMMA TicksLoop == ClearInv /\ TicksInv /\ Loop => TicksInv'
<1> SUFFICES ASSUME ClearInv, TicksInv, Loop PROVE TicksInv'
  OBVIOUS
<1> DEFINE n == Len(stack)
<1>0. /\ Tidy(stack) /\ Rested(stack, ticks) /\ draining \in BOOLEAN
      /\ (draining <=> Drains(stack) # {})
      /\ Top = stack[n] /\ Top \in Frame /\ n \in DOMAIN stack
  BY TopTidy DEF TicksInv
<1> USE DEF RunFrame, At, queues
<1>1. ASSUME Tidy(stack'), Drains(stack') = Drains(stack), Rested(stack', ticks'),
             draining' = draining
      PROVE  TicksInv'
  BY <1>0, <1>1 DEF TicksInv
<1>2. ASSUME NEW pc \in Pc, Top.fn = "run", EnterDrain(Goto(pc)) PROVE TicksInv'
  <2>1. /\ Tidy(Goto(pc)) /\ Drains(Goto(pc)) = Drains(stack)
        /\ Goto(pc)[Len(Goto(pc))].fn # "drain"
    BY <1>2, GotoTidy
  <2>2. QED
    BY <1>2, <2>1, DrainTidy DEF TicksInv
<1>3. ASSUME NEW pc \in Pc \ Settled, Top.fn = "run", stack' = Goto(pc), draining' = draining
      PROVE  TicksInv'
  <2>1. /\ Tidy(Goto(pc)) /\ Drains(Goto(pc)) = Drains(stack)
        /\ Goto(pc)[Len(Goto(pc))].fn = "run" /\ Goto(pc)[Len(Goto(pc))].pc = pc
    BY <1>3, GotoTidy
  <2>2. Rested(Goto(pc), ticks')
    BY <2>1 DEF Rested, IsSettled, IsFinal
  <2>3. QED
    BY <1>1, <1>3, <2>1, <2>2
<1>4. ASSUME Top.fn = "run", stack' = Under, draining' = draining PROVE TicksInv'
  BY <1>1, <1>4, PopTidy
<1>5. ASSUME NEW f \in Frame, f.fn = "run", Top.fn = "run", draining' = draining,
             stack' = [stack EXCEPT ![n] = f],
             f.pc \in Settled /\ Drains(stack) = {} => ticks' = << >>
      PROVE  TicksInv'
  <2>1. Tidy(stack') /\ Drains(stack') = Drains(stack) /\ stack'[Len(stack')] = f
    BY <1>5, MoveTidy
  <2>2. Rested(stack', ticks')
    BY <1>5, <2>1 DEF Rested, IsSettled, IsFinal
  <2>3. QED
    BY <1>1, <1>5, <2>1, <2>2
<1>6. CASE RunDrain \/ FiredTimer \/ FireDone \/ DispatchDone \/ RanImmediate
  BY <1>2, <1>6 DEF RunDrain, FiredTimer, FireDone, DispatchDone, RanImmediate, Pc
<1>7. CASE RunReturn
  BY <1>4, <1>7 DEF RunReturn
<1>8. CASE RunAgain \/ ImmediatesDone
  BY <1>3, <1>8 DEF RunAgain, ImmediatesDone, Pc, Settled
<1>9. CASE Ready \/ EndPass
  BY <1>3, <1>4, <1>9 DEF Ready, EndPass, Pc, Settled
<1>10. ASSUME NEW ready \in SUBSET Open, NEW later \in 0 .. MaxTime, Poll(ready, later)
       PROVE  TicksInv'
  <2> DEFINE due == {[id |-> t, at |-> timers[t].due] : t \in DueAt(later)}
             alive == ReferencedWatchers # {}
             f == [Top EXCEPT !.pc = "fire", !.due = due, !.ready = ready, !.alive = alive]
  <2>1. /\ Top.fn = "run" /\ ticks' = << >> /\ draining' = draining
        /\ stack' = [stack EXCEPT ![n] = f]
    BY <1>0, <1>10 DEF Poll
  <2>2. due \in SUBSET [id : Nat, at : Nat]
    <3>1. \A t \in DueAt(later) : t \in Nat /\ timers[t].due \in Nat
      BY Bounds DEF DueAt, ClearInv, TimersOK, TimerEntry
    <3>2. QED
      BY <3>1
  <2>3. ready \in SUBSET Watcher /\ alive \in BOOLEAN
    BY DEF Open
  <2> HIDE DEF due, alive
  <2>4. f \in Frame /\ f.fn = "run"
    BY <1>0, <2>1, <2>2, <2>3 DEF Frame
  <2> HIDE DEF f
  <2>5. QED
    BY <1>5, <2>1, <2>4
<1>11. ASSUME NEW w \in Watcher, Dispatch(w) PROVE TicksInv'
  <2>1. Top.fn = "run" /\ draining' = draining /\ IsTop(n) /\ stack \in Seq(Frame)
    BY <1>0, <1>11 DEF Dispatch, IsTop, Tidy
  <2>2. PICK f, g \in Frame : Dispatching(f, g, w, n)
    BY <1>11, <2>1, DispatchShape
  <2>3. /\ f.fn = "run" /\ f.pc \in {"dispatch", "dispatched"} /\ g.fn = "call"
        /\ \/ stack' = [stack EXCEPT ![n] = f]
           \/ stack' = Append([stack EXCEPT ![n] = f], g)
    BY <2>2 DEF Dispatching
  <2> DEFINE s == [stack EXCEPT ![n] = f]
  <2>4. f.pc \notin Settled /\ ~IsSettled(f) /\ ~IsFinal(f) /\ ~IsSettled(g) /\ g.fn # "drain"
    BY <2>3 DEF IsSettled, IsFinal, Settled
  <2>5. CASE stack' = s
    BY <1>5, <2>1, <2>3, <2>4, <2>5
  <2>6. CASE stack' = Append(s, g)
    <3>1. Tidy(s) /\ Drains(s) = Drains(stack) /\ s[Len(s)] = f
      BY <2>1, <2>3, MoveTidy
    <3> HIDE DEF s
    <3>2. QED
      BY <1>1, <2>1, <2>3, <2>4, <2>6, <3>1, PushTidy
  <2>7. QED
    BY <2>3, <2>5, <2>6
<1>12. CASE Dispatched
  <2> DEFINE ready == IF Stop THEN {} ELSE Top.ready
             f == [Top EXCEPT !.pc = "dispatch", !.ready = ready]
  <2>1. Top.fn = "run" /\ draining' = draining /\ stack' = [stack EXCEPT ![n] = f]
    BY <1>0, <1>12 DEF Dispatched
  <2>2. ready \in SUBSET Watcher
    BY <1>0 DEF Frame
  <2> HIDE DEF ready
  <2>3. f \in Frame /\ f.fn = "run" /\ f.pc = "dispatch"
    BY <1>0, <2>1, <2>2 DEF Frame
  <2> HIDE DEF f
  <2>4. QED
    BY <1>5, <2>1, <2>3 DEF Settled
<1>13. CASE TakeImmediates
  <2> DEFINE due == {[id |-> i, at |-> 0] : i \in QueuedImms}
             f == [Top EXCEPT !.pc = "imm", !.pending = QueuedImms, !.due = due]
  <2>1. /\ Top.fn = "run" /\ Top.pc = "check" /\ draining' = draining /\ ticks' = ticks
        /\ stack' = StartBatch(stack) \/ stack' = Goto("end")
    BY <1>13 DEF TakeImmediates
  <2>2. StartBatch(stack) = [stack EXCEPT ![n] = f]
    BY <1>0 DEF StartBatch
  <2>3. QueuedImms \in SUBSET Imm /\ due \in SUBSET [id : Nat, at : Nat]
    BY Bounds DEF QueuedImms
  <2> HIDE DEF due
  <2>4. f \in Frame /\ f.fn = "run"
    BY <1>0, <2>1, <2>3 DEF Frame
  <2> HIDE DEF f
  <2>5. Drains(stack) = {} => ticks' = << >>
    BY <1>0, <2>1 DEF Rested, IsSettled, Settled
  <2>6. CASE stack' = StartBatch(stack)
    BY <1>5, <2>1, <2>2, <2>4, <2>5, <2>6
  <2>7. CASE stack' = Goto("end")
    BY <1>3, <2>1, <2>7 DEF Pc, Settled
  <2>8. QED
    BY <2>1, <2>6, <2>7
<1>14. QED
  BY <1>6, <1>7, <1>8, <1>9, <1>10, <1>11, <1>12, <1>13, TicksStart DEF Loop

LEMMA TicksInvHolds == Spec => []TicksInv
<1>1. Init => TicksInv
  <2> SUFFICES ASSUME Init PROVE TicksInv
    OBVIOUS
  <2> DEFINE f == NewFrame("main", "entry")
  <2>1. f \in Frame /\ f.fn = "main" /\ stack = <<f>> /\ draining = FALSE
    BY NewFrameType DEF Init, Fn, Pc
  <2> HIDE DEF f
  <2>2. stack \in Seq(Frame) /\ Len(stack) = 1 /\ stack[1] = f /\ 1 .. 1 = {1} /\ 1 + 1 \notin {1}
    BY <2>1
  <2>3. Drains(stack) = {}
    BY <2>1, <2>2 DEF Drains
  <2>4. Tidy(stack) /\ Rested(stack, ticks)
    BY <2>1, <2>2, <2>3 DEF Tidy, Rested, IsSettled, IsFinal
  <2>5. QED
    BY <2>1, <2>3, <2>4 DEF TicksInv
<1>2. ClearInv /\ TicksInv /\ [Next]_vars => TicksInv'
  <2>1. TicksInv /\ UNCHANGED vars => TicksInv'
    BY DEF vars, TicksInv
  <2>2. QED
    BY <2>1, TicksJavaScript, TicksQueues, TicksLoop DEF Next
<1>3. QED
  BY <1>1, <1>2, ClearInvHolds, PTL DEF Spec

\* Which steps start a callback although a tick waits.
LEMMA TicksStarted ==
    ASSUME ClearInv, TicksInv, [Next]_vars
    PROVE  ran' = ran \/ Top.fn = "ticks" \/ ticks = << >> \/ (Top.fn = "run" /\ draining)
<1> USE DEF history
<1>1. CASE UNCHANGED vars
  BY <1>1 DEF vars
<1>2. CASE JavaScript
  BY <1>2 DEF JavaScript, QueueMicrotask, NextTick, SetImmediate, Return, SetTimer, ClearTimer,
     UnrefTimer, ClearImmediate, RefImmediate, AddWatcher, CloseWatcher, RefWatcher, Listen, Await
<1>3. CASE Drain
  BY <1>3 DEF Drain, DrainTicks, DrainJob, DrainRetire, DrainReturn, RunTick, TicksReturn
<1>4. CASE Main
  BY <1>4 DEF Main
<1>5. CASE FireTimer \/ RunImmediate
  <2>1. Top.fn = "run" /\ Top.pc \in Settled /\ Top = stack[Len(stack)]
    BY <1>5, TopTidy DEF FireTimer, RunImmediate, RunFrame, At, Settled
  <2>2. Drains(stack) = {} => ticks = << >>
    BY <2>1 DEF TicksInv, Rested, IsSettled
  <2>3. QED
    BY <2>1, <2>2 DEF TicksInv
<1>6. CASE Loop /\ ~(FireTimer \/ RunImmediate)
  BY <1>6 DEF Loop, RunDrain, RunReturn, RunAgain, Poll, FiredTimer, FireDone, Ready,
     Dispatch, Dispatched, DispatchDone, TakeImmediates, RanImmediate, ImmediatesDone, EndPass
<1>7. QED
  BY <1>1, <1>2, <1>3, <1>4, <1>5, <1>6 DEF Next

\* No microtask, timer or immediate starts while a tick waits, but for those that a
\* loop starts inside a drain, where drain_microtasks returns at once: that loop is
\* one a microtask or a tick entered with server.listen().
THEOREM TicksFirstOutsideDrains ==
    Spec => [][ran' = ran \/ Top.fn = "ticks" \/ ticks = << >> \/ (Top.fn = "run" /\ draining)]_vars
<1> DEFINE A == ran' = ran \/ Top.fn = "ticks" \/ ticks = << >> \/ (Top.fn = "run" /\ draining)
<1>1. ClearInv /\ TicksInv /\ [Next]_vars => [A]_vars
  BY TicksStarted
<1>2. QED
  BY <1>1, ClearInvHolds, TicksInvHolds, PTL DEF Spec

\* Without server.listen() there is one loop, right above main.
Flat(s) == \A k \in 1 .. Len(s) : (s[k].fn = "main" => k = 1) /\ (s[k].fn = "run" => k = 2)

LEMMA FlatMove ==
    ASSUME NEW s \in Seq(Frame), Len(s) >= 1, Flat(s), NEW f, f.fn = s[Len(s)].fn
    PROVE  Flat([s EXCEPT ![Len(s)] = f])
BY DEF Flat

LEMMA FlatPush ==
    ASSUME NEW s \in Seq(Frame), Flat(s), NEW g,
           g.fn \in {"drain", "ticks", "call"} \/ (g.fn = "run" /\ Len(s) = 1)
    PROVE  Flat(Append(s, g))
BY DEF Flat

LEMMA FlatSame ==
    ASSUME NEW s \in Seq(Frame), Flat(s), NEW z,
           Len(z) = Len(s), \A k \in 1 .. Len(s) : z[k].fn = s[k].fn
    PROVE  Flat(z)
BY DEF Flat

LEMMA FlatStep ==
    ASSUME ClearInv, Flat(stack), "listen" \notin Env, [Next]_vars
    PROVE  Flat(stack')
<1> DEFINE n == Len(stack)
<1>0. /\ stack \in Seq(Frame) /\ n \in Nat /\ n >= 1 /\ n \in 1 .. n /\ DOMAIN stack = 1 .. n
      /\ IsTop(n) /\ Top \in Frame /\ Top = stack[n]
      /\ Top.fn = "main" => n = 1
  <2>1. GoodStack(stack, cleared.immediate)
    BY DEF ClearInv, ImmsOK
  <2>2. stack \in Seq(Frame) /\ n \in Nat /\ n >= 1 /\ n \in 1 .. n /\ DOMAIN stack = 1 .. n
    BY <2>1 DEF GoodStack
  <2>3. Top \in Frame /\ Top = stack[n] /\ n \in DOMAIN stack
    BY <2>1, TopFields
  <2>4. Top.fn = "main" => n = 1
    BY <2>2, <2>3 DEF Flat
  <2>5. QED
    BY <2>2, <2>3, <2>4 DEF IsTop
<1>1. ASSUME stack' = stack PROVE Flat(stack')
  BY <1>1
<1>2. ASSUME NEW pc \in Pc
      PROVE  Flat(Goto(pc)) /\ Goto(pc) \in Seq(Frame) /\ Len(Goto(pc)) = n
  <2> DEFINE f == [Top EXCEPT !.pc = pc]
  <2>1. f \in Frame /\ f.fn = Top.fn
    BY <1>0, PcField
  <2>2. Goto(pc) = [stack EXCEPT ![n] = f]
    BY <1>0 DEF Goto
  <2> HIDE DEF f
  <2>3. Goto(pc) \in Seq(Frame) /\ Len(Goto(pc)) = n
    BY <1>0, <2>1, <2>2
  <2>4. Flat([stack EXCEPT ![Len(stack)] = f])
    BY <1>0, <2>1, FlatMove
  <2>5. QED
    BY <2>2, <2>3, <2>4
<1>3. ASSUME NEW s \in Seq(Frame), Flat(s), EnterDrain(s) PROVE Flat(stack')
  <2>1. NewFrame("drain", "loop").fn = "drain"
    BY DEF NewFrame
  <2>2. QED
    BY <1>3, <2>1, FlatPush DEF EnterDrain
<1>4. ASSUME stack' = Under, n # 1 PROVE Flat(stack')
  <2> DEFINE m == n - 1
             u == SubSeq(stack, 1, m)
  <2>1. m \in Nat /\ Len(u) = m /\ \A k \in 1 .. m : u[k] = stack[k] /\ k \in 1 .. n
    BY <1>0, <1>4
  <2>2. Under = u
    BY DEF Under
  <2> HIDE DEF u, m
  <2>3. QED
    BY <1>4, <2>1, <2>2 DEF Flat
<1>5. ASSUME NEW s \in Seq(Frame), Flat(s), NEW fn \in Fn \ {"main"}, NEW pc,
             fn = "run" => Len(s) = 1
      PROVE  Flat(Append(s, NewFrame(fn, pc)))
  <2> DEFINE g == NewFrame(fn, pc)
  <2>1. g.fn = fn
    BY DEF NewFrame
  <2> HIDE DEF g
  <2>2. g.fn \in {"drain", "ticks", "call"} \/ (g.fn = "run" /\ Len(s) = 1)
    BY <1>5, <2>1 DEF Fn
  <2>3. QED
    BY <1>5, <2>2, FlatPush DEF g
<1>6. ASSUME NEW f \in Frame, f.fn = Top.fn
      PROVE  /\ Flat([stack EXCEPT ![n] = f]) /\ [stack EXCEPT ![n] = f] \in Seq(Frame)
             /\ Len([stack EXCEPT ![n] = f]) = n
  <2>1. Flat([stack EXCEPT ![Len(stack)] = f])
    BY <1>0, <1>6, FlatMove
  <2>2. QED
    BY <1>0, <1>6, <2>1
<1>7. Top.fn # "main" => n # 1
  BY <1>0 DEF ClearInv, ImmsOK, GoodStack
<1>8. CASE UNCHANGED vars
  BY <1>1, <1>8 DEF vars
<1>9. CASE JavaScript
  <2>1. CASE Return
    BY <1>4, <1>7, <2>1 DEF Return
  <2>2. ASSUME NEW i \in Imm, ClearImmediate(i) PROVE Flat(stack')
    <3>1. stack' = Without(i)
      BY <2>2 DEF ClearImmediate, Without
    <3>2. GoodStack(Without(i), {i} \cup cleared.immediate)
      BY WithoutGood DEF ClearInv, ImmsOK
    <3>3. Len(Without(i)) = n /\ \A k \in 1 .. n : Without(i)[k].fn = stack[k].fn
      <4>1. \A k \in 1 .. n : stack[k] \in Frame
        BY <1>0
      <4>2. DOMAIN Without(i) = 1 .. n /\ Without(i) \in Seq(Frame)
        BY <1>0, <3>2 DEF Without, GoodStack
      <4>3. QED
        BY <1>0, <4>1, <4>2 DEF Without, Frame
    <3>4. QED
      BY <1>0, <3>1, <3>3, FlatSame
  <2>3. ASSUME NEW t \in Timer, Await(t) PROVE Flat(stack')
    <3> DEFINE g == [NewFrame("run", "top") EXCEPT !.until = t]
    <3>1. stack' = Append(stack, g) /\ n = 1
      BY <2>3 DEF Await
    <3>2. g.fn = "run"
      BY DEF NewFrame
    <3> HIDE DEF g
    <3>3. QED
      BY <1>0, <3>1, <3>2, FlatPush
  <2>4. CASE JavaScript /\ stack' = stack
    BY <1>1, <2>4
  <2>5. \A w \in Watcher : ~Listen(w)
    BY DEF Listen
  <2>6. QED
    BY <1>9, <2>1, <2>2, <2>3, <2>4, <2>5 DEF JavaScript, QueueMicrotask, NextTick, SetImmediate,
       SetTimer, ClearTimer, UnrefTimer, RefImmediate, AddWatcher, CloseWatcher, RefWatcher
<1>10. CASE Drain
  <2>1. CASE DrainTicks
    <3>1. \E s \in {Goto("final"), stack} : stack' = Append(s, NewFrame("ticks", "loop"))
      BY <2>1 DEF DrainTicks
    <3>2. QED
      BY <1>0, <1>2, <1>5, <3>1 DEF Fn, Pc
  <2>2. CASE DrainJob
    BY <1>2, <1>5, <2>2 DEF DrainJob, Call, Fn, Pc
  <2>3. CASE DrainRetire
    BY <1>2, <2>3 DEF DrainRetire, Pc
  <2>4. CASE DrainReturn \/ TicksReturn
    BY <1>4, <1>7, <2>4 DEF DrainReturn, DrainFrame, TicksReturn
  <2>5. CASE RunTick
    BY <1>0, <1>5, <2>5 DEF RunTick, Call, Fn
  <2>6. QED
    BY <1>10, <2>1, <2>2, <2>3, <2>4, <2>5 DEF Drain
<1>11. CASE Main
  <2>1. n = 1 /\ (\/ EnterDrain(Goto("run")) \/ EnterDrain(Goto("done"))
                  \/ stack' = Append(Goto("last"), NewFrame("run", "top")))
    BY <1>0, <1>11 DEF Main
  <2>2. "run" \in Pc /\ "done" \in Pc /\ "last" \in Pc /\ "run" \in Fn \ {"main"}
    BY DEF Pc, Fn
  <2>3. QED
    BY <1>2, <1>3, <1>5, <2>1, <2>2
<1>12. CASE Loop
  <2> USE DEF RunFrame, At
  <2>1. CASE RunDrain \/ FiredTimer \/ FireDone \/ DispatchDone \/ RanImmediate
    BY <1>2, <1>3, <2>1 DEF RunDrain, FiredTimer, FireDone, DispatchDone, RanImmediate, Pc
  <2>2. CASE RunReturn
    BY <1>4, <1>7, <2>2 DEF RunReturn
  <2>3. CASE RunAgain \/ ImmediatesDone
    BY <1>2, <2>3 DEF RunAgain, ImmediatesDone, Pc
  <2>4. CASE Ready \/ EndPass
    BY <1>2, <1>4, <1>7, <2>4 DEF Ready, EndPass, Pc
  <2>5. CASE (\E ready \in SUBSET Open, later \in 0 .. MaxTime : Poll(ready, later))
             \/ Dispatched \/ TakeImmediates
    <3>1. CASE TakeImmediates /\ stack' = Goto("end")
      BY <1>2, <3>1 DEF Pc
    <3>2. CASE Dispatched
      <4>1. Len(stack') = n /\ \A k \in 1 .. n : stack'[k].fn = stack[k].fn
        BY <1>0, <3>2 DEF Dispatched, Frame
      <4>2. QED
        BY <1>0, <4>1, FlatSame
    <3>3. CASE TakeImmediates /\ stack' = StartBatch(stack)
      <4>1. Len(stack') = n /\ \A k \in 1 .. n : stack'[k].fn = stack[k].fn
        BY <1>0, <3>3 DEF StartBatch, Frame
      <4>2. QED
        BY <1>0, <4>1, FlatSame
    <3>4. ASSUME NEW ready \in SUBSET Open, NEW later \in 0 .. MaxTime, Poll(ready, later)
          PROVE  Flat(stack')
      <4>1. Len(stack') = n /\ \A k \in 1 .. n : stack'[k].fn = stack[k].fn
        BY <1>0, <3>4 DEF Poll, Frame
      <4>2. QED
        BY <1>0, <4>1, FlatSame
    <3>5. QED
      BY <2>5, <3>1, <3>2, <3>3, <3>4 DEF TakeImmediates
  <2>6. CASE FireTimer
    <3>1. PICK f \in Frame :
            /\ f.fn = "run"
            /\ \/ stack' = [stack EXCEPT ![n] = f]
               \/ stack' = Append([stack EXCEPT ![n] = f], NewFrame("call", "timer"))
      BY <1>0, <2>6, FireShape
    <3>2. f.fn = Top.fn
      BY <2>6, <3>1 DEF FireTimer
    <3>3. QED
      BY <1>5, <1>6, <3>1, <3>2 DEF Fn
  <2>7. CASE RunImmediate
    <3>1. PICK f \in Frame : Running(f, n)
      BY <1>0, <2>7, ImmediateShape
    <3>2. /\ f.fn = Top.fn
          /\ \/ stack' = [stack EXCEPT ![n] = f]
             \/ stack' = Append([stack EXCEPT ![n] = f], NewFrame("call", "immediate"))
      BY <2>7, <3>1 DEF RunImmediate, Running
    <3>3. QED
      BY <1>5, <1>6, <3>1, <3>2 DEF Fn
  <2>8. ASSUME NEW w \in Watcher, Dispatch(w) PROVE Flat(stack')
    <3>1. PICK f, g \in Frame : Dispatching(f, g, w, n)
      BY <1>0, <2>8, DispatchShape
    <3>2. /\ f.fn = Top.fn /\ g.fn = "call"
          /\ \/ stack' = [stack EXCEPT ![n] = f]
             \/ stack' = Append([stack EXCEPT ![n] = f], g)
      BY <2>8, <3>1 DEF Dispatch, Dispatching
    <3>3. QED
      BY <1>6, <3>1, <3>2, FlatPush
  <2>9. QED
    BY <1>12, <2>1, <2>2, <2>3, <2>4, <2>5, <2>6, <2>7, <2>8 DEF Loop
<1>13. QED
  BY <1>8, <1>9, <1>10, <1>11, <1>12 DEF Next

LEMMA FlatInvHolds == "listen" \notin Env => (Spec => []Flat(stack))
<1> SUFFICES ASSUME "listen" \notin Env PROVE Spec => []Flat(stack)
  OBVIOUS
<1>1. Init => Flat(stack)
  <2> SUFFICES ASSUME Init PROVE Flat(stack)
    OBVIOUS
  <2>1. Len(stack) = 1 /\ stack[1].fn = "main"
    BY DEF Init, NewFrame
  <2>2. QED
    BY <2>1 DEF Flat
<1>2. ClearInv /\ Flat(stack) /\ [Next]_vars => Flat(stack)'
  BY FlatStep
<1>3. QED
  BY <1>1, <1>2, ClearInvHolds, PTL DEF Spec

\* In a program that never blocks in server.listen(), next ticks outrank every
\* microtask, timer and immediate: each of the six calls of drain_microtasks in the
\* loop then really drains.
THEOREM TicksFirstCorrect == "listen" \notin Env => (Spec => TicksFirst)
<1> SUFFICES ASSUME "listen" \notin Env PROVE Spec => TicksFirst
  OBVIOUS
<1> DEFINE A == ran' = ran \/ Top.fn = "ticks" \/ ticks = << >>
<1>1. ClearInv /\ Flat(stack) /\ TicksInv /\ [Next]_vars => [A]_vars
  <2> SUFFICES ASSUME ClearInv, Flat(stack), TicksInv, [Next]_vars PROVE A
    OBVIOUS
  <2>1. Top.fn = "run" => ~draining
    <3> SUFFICES ASSUME Top.fn = "run" PROVE Drains(stack) = {}
      BY DEF TicksInv
    <3>1. Len(stack) = 2 /\ stack[2].fn = "run"
      <4>1. Len(stack) \in 1 .. Len(stack) /\ stack[Len(stack)].fn = "run"
        BY TopTidy DEF Tidy
      <4>2. QED
        BY <4>1 DEF Flat
    <3>2. stack[1].fn = "main"
      BY DEF ClearInv, ImmsOK, GoodStack
    <3>3. QED
      BY <3>1, <3>2 DEF Drains
  <2>2. QED
    BY <2>1, TicksStarted
<1>2. QED
  BY <1>1, FlatInvHolds, ClearInvHolds, TicksInvHolds, PTL DEF Spec, TicksFirst

----------------
(***************************************************************************)
(* Why no immediate is lost or run twice.  Every immediate has one place:  *)
(* the queue, one batch, or the past.  A batch belongs to a loop inside    *)
(* runAll, which still has to look at every id it holds, so the loop does  *)
(* not leave runAll, nor the stack, with an immediate in its hands.        *)
(***************************************************************************)
InBatch == {"imm", "ranimm"}

BatchOK(f) ==
    f.pending # {} => /\ f.fn = "run" /\ f.pc \in InBatch
                      /\ \A i \in f.pending : [id |-> i, at |-> 0] \in f.due

AllBatches(s) == s \in Seq(Frame) /\ \A k \in 1 .. Len(s) : BatchOK(s[k])

\* The frames of s whose batch holds i.
Holders(s, i) == {k \in 1 .. Len(s) : i \in s[k].pending}

\* s holds the immediates that z holds, in the same frames.
SameBatches(s, z) == AllBatches(z) /\ \A i : Holders(z, i) = Holders(s, i)

Place(i) ==
    /\ ran.immediate[i] <= 1
    /\ imms[i].queued => ran.immediate[i] = 0 /\ Holders(stack, i) = {}
    /\ Holders(stack, i) # {} => ran.immediate[i] = 0
    /\ \A j, k \in Holders(stack, i) : j = k
    /\ i > made.imm => ran.immediate[i] = 0 /\ ~imms[i].queued /\ Holders(stack, i) = {}
    /\ i <= made.imm /\ i \notin cleared.immediate =>
         ran.immediate[i] = 1 \/ imms[i].queued \/ Holders(stack, i) # {}

PlacesInv ==
    /\ AllBatches(stack) /\ made.imm <= NImms
    /\ \A i \in Imm : Place(i)

LEMMA BatchPush ==
    ASSUME NEW s, AllBatches(s), NEW g \in Frame, g.pending = {}
    PROVE  SameBatches(s, Append(s, g))
<1> DEFINE z == Append(s, g)
           n == Len(s)
<1>1. /\ z \in Seq(Frame) /\ Len(z) = n + 1 /\ n \in Nat /\ z[n + 1] = g
      /\ \A k \in 1 .. n : z[k] = s[k]
  BY DEF AllBatches
<1> HIDE DEF z
<1>2. \A k \in 1 .. n + 1 : k = n + 1 \/ k \in 1 .. n
  BY <1>1
<1>3. \A k \in 1 .. n : k \in 1 .. n + 1
  BY <1>1
<1>4. AllBatches(z)
  BY <1>1, <1>2 DEF AllBatches, BatchOK
<1>5. \A i : Holders(z, i) = Holders(s, i)
  BY <1>1, <1>2, <1>3 DEF Holders
<1>6. QED
  BY <1>4, <1>5 DEF SameBatches, z

LEMMA BatchPop ==
    ASSUME NEW s, AllBatches(s), Len(s) >= 1, s[Len(s)].pending = {}
    PROVE  SameBatches(s, SubSeq(s, 1, Len(s) - 1))
<1> DEFINE n == Len(s) - 1
           u == SubSeq(s, 1, n)
<1>1. /\ n \in Nat /\ Len(s) = n + 1
      /\ u \in Seq(Frame) /\ Len(u) = n /\ \A k \in 1 .. n : u[k] = s[k]
  BY PopShape DEF AllBatches
<1> HIDE DEF n, u
<1>2. \A k \in 1 .. n + 1 : k = n + 1 \/ k \in 1 .. n
  BY <1>1
<1>3. \A k \in 1 .. n : k \in 1 .. n + 1
  BY <1>1
<1>4. AllBatches(u)
  BY <1>1, <1>3 DEF AllBatches
<1>5. \A i : Holders(u, i) = Holders(s, i)
  BY <1>1, <1>2, <1>3 DEF Holders
<1>6. QED
  BY <1>4, <1>5 DEF SameBatches, u, n

\* A new top frame: it alone changes what is held where.
LEMMA BatchTop ==
    ASSUME NEW s, AllBatches(s), Len(s) >= 1, NEW f \in Frame, BatchOK(f)
    PROVE  LET z == [s EXCEPT ![Len(s)] = f] IN
           /\ AllBatches(z) /\ Len(z) = Len(s)
           /\ \A i : Holders(z, i) = {k \in Holders(s, i) : k # Len(s)}
                                       \cup (IF i \in f.pending THEN {Len(s)} ELSE {})
           /\ f.pending = s[Len(s)].pending => SameBatches(s, z)
<1> DEFINE n == Len(s)
           z == [s EXCEPT ![n] = f]
<1>1. /\ n \in Nat /\ n \in 1 .. n /\ z \in Seq(Frame) /\ Len(z) = n /\ z[n] = f
      /\ \A k \in 1 .. n : k # n => z[k] = s[k]
  BY DEF AllBatches
<1> HIDE DEF z
<1>2. AllBatches(z)
  <2> SUFFICES ASSUME NEW k \in 1 .. n PROVE BatchOK(z[k])
    BY <1>1 DEF AllBatches
  <2>1. CASE k = n
    BY <1>1, <2>1
  <2>2. CASE k # n
    BY <1>1, <2>2 DEF AllBatches
  <2>3. QED
    BY <2>1, <2>2
<1>3. \A i : Holders(z, i) = {k \in Holders(s, i) : k # n} \cup (IF i \in f.pending THEN {n} ELSE {})
  BY <1>1 DEF Holders
<1>4. f.pending = s[n].pending => \A i : Holders(z, i) = Holders(s, i)
  <2> SUFFICES ASSUME f.pending = s[n].pending, NEW i PROVE Holders(z, i) = Holders(s, i)
    OBVIOUS
  <2>1. \A k \in 1 .. n : z[k].pending = s[k].pending
    BY <1>1
  <2>2. QED
    BY <1>1, <2>1 DEF Holders
<1>5. QED
  BY <1>1, <1>2, <1>3, <1>4 DEF SameBatches, z

LEMMA SameTrans ==
    ASSUME NEW s, NEW z, NEW y, SameBatches(s, z), SameBatches(z, y)
    PROVE  SameBatches(s, y)
BY DEF SameBatches

\* Steps that move no immediate: calls and returns, and places outside runAll.
LEMMA QuietBatches ==
    ASSUME ClearInv, AllBatches(stack), [Next]_vars,
           \A i \in Imm : ~ClearImmediate(i), ~TakeImmediates, ~RunImmediate
    PROVE  SameBatches(stack, stack')
<1> DEFINE n == Len(stack)
<1>0. /\ stack \in Seq(Frame) /\ n \in Nat /\ n >= 1 /\ n \in 1 .. n
      /\ IsTop(n) /\ Top \in Frame /\ Top = stack[n] /\ BatchOK(Top) /\ n \in DOMAIN stack
  <2>1. GoodStack(stack, cleared.immediate)
    BY DEF ClearInv, ImmsOK
  <2>2. stack \in Seq(Frame) /\ n \in Nat /\ n >= 1 /\ n \in 1 .. n
    BY <2>1 DEF GoodStack
  <2>3. Top \in Frame /\ Top = stack[n] /\ n \in DOMAIN stack
    BY <2>1, TopFields
  <2>4. QED
    BY <2>2, <2>3 DEF IsTop, AllBatches
<1>1. SameBatches(stack, stack)
  BY DEF SameBatches
<1>2. ASSUME NEW f \in Frame, f.pending = Top.pending, BatchOK(f)
      PROVE  SameBatches(stack, [stack EXCEPT ![n] = f])
  BY <1>0, <1>2, BatchTop
<1>3. ASSUME NEW pc \in Pc, Top.pending = {} \/ pc \in InBatch
      PROVE  SameBatches(stack, Goto(pc))
  <2> DEFINE f == [Top EXCEPT !.pc = pc]
  <2>1. f \in Frame /\ f.fn = Top.fn /\ f.pending = Top.pending
    BY <1>0, PcField
  <2>2. f.due = Top.due /\ f.pc = pc /\ Goto(pc) = [stack EXCEPT ![n] = f]
    BY <1>0 DEF Goto, Frame
  <2> HIDE DEF f
  <2>3. BatchOK(f)
    BY <1>0, <1>3, <2>1, <2>2 DEF BatchOK
  <2>4. QED
    BY <1>2, <2>1, <2>2, <2>3
<1>4. ASSUME NEW s, SameBatches(stack, s), NEW g \in Frame, g.pending = {}
      PROVE  SameBatches(stack, Append(s, g))
  <2>1. SameBatches(s, Append(s, g))
    BY <1>4, BatchPush DEF SameBatches
  <2>2. QED
    BY <1>4, <2>1, SameTrans
<1>5. ASSUME NEW s, SameBatches(stack, s), NEW fn \in Fn, NEW pc \in Pc
      PROVE  SameBatches(stack, Append(s, NewFrame(fn, pc)))
  BY <1>4, <1>5, NewFrameType
<1>6. ASSUME NEW s, SameBatches(stack, s), EnterDrain(s) PROVE SameBatches(stack, stack')
  <2>1. SameBatches(stack, Append(s, NewFrame("drain", "loop")))
    BY <1>5, <1>6 DEF Fn, Pc
  <2>2. QED
    BY <1>6, <2>1 DEF EnterDrain
<1>7. ASSUME Top.pending = {}, stack' = Under PROVE SameBatches(stack, stack')
  BY <1>0, <1>7, BatchPop DEF Under
<1>8. Top.fn # "run" \/ Top.pc \notin InBatch => Top.pending = {}
  BY <1>0 DEF BatchOK
<1>9. CASE UNCHANGED vars
  BY <1>1, <1>9 DEF vars
<1>10. CASE JavaScript
  <2>1. CASE Return
    BY <1>7, <1>8, <2>1 DEF Return
  <2>2. ASSUME NEW t \in Timer, Await(t) PROVE SameBatches(stack, stack')
    <3> DEFINE h == NewFrame("run", "top")
               g == [h EXCEPT !.until = t]
    <3>1. stack' = Append(stack, g)
      BY <2>2 DEF Await
    <3>2. h \in Frame /\ h.pending = {} /\ t \in Nat
      BY NewFrameType, Bounds DEF Fn, Pc
    <3> HIDE DEF h
    <3>3. g \in Frame /\ g.pending = {}
      BY <3>2 DEF Frame
    <3> HIDE DEF g
    <3>4. QED
      BY <1>1, <1>4, <3>1, <3>3
  <2>3. ASSUME NEW w \in Watcher, Listen(w) PROVE SameBatches(stack, stack')
    <3>1. stack' = Append(stack, NewFrame("run", "top"))
      BY <2>3 DEF Listen
    <3>2. QED
      BY <1>1, <1>5, <3>1 DEF Fn, Pc
  <2>4. CASE stack' = stack
    BY <1>1, <2>4
  <2>5. QED
    BY <1>10, <2>1, <2>2, <2>3, <2>4 DEF JavaScript, QueueMicrotask, NextTick, SetImmediate,
       SetTimer, ClearTimer, UnrefTimer, RefImmediate, AddWatcher, CloseWatcher, RefWatcher
<1>11. CASE Drain
  <2>1. Top.pending = {}
    BY <1>8, <1>11 DEF Drain, DrainFrame, DrainTicks, DrainJob, DrainRetire, DrainReturn,
       RunTick, TicksReturn
  <2>2. CASE DrainTicks
    <3>1. PICK s \in {Goto("final"), stack} : stack' = Append(s, NewFrame("ticks", "loop"))
      BY <2>2 DEF DrainTicks
    <3>2. SameBatches(stack, s)
      BY <1>1, <1>3, <2>1 DEF Pc
    <3>3. QED
      BY <1>5, <3>1, <3>2 DEF Fn, Pc
  <2>3. CASE DrainJob
    <3>1. stack' = Append(Goto("retire"), NewFrame("call", "job"))
      BY <2>3 DEF DrainJob, Call
    <3>2. SameBatches(stack, Goto("retire"))
      BY <1>3, <2>1 DEF Pc
    <3>3. QED
      BY <1>5, <3>1, <3>2 DEF Fn, Pc
  <2>4. CASE DrainRetire
    BY <1>3, <2>1, <2>4 DEF DrainRetire, Pc
  <2>5. CASE DrainReturn \/ TicksReturn
    BY <1>7, <2>1, <2>5 DEF DrainReturn, TicksReturn
  <2>6. CASE RunTick
    <3>1. stack' = Append(stack, NewFrame("call", "tick"))
      BY <2>6 DEF RunTick, Call
    <3>2. QED
      BY <1>1, <1>5, <3>1 DEF Fn, Pc
  <2>7. QED
    BY <1>11, <2>2, <2>3, <2>4, <2>5, <2>6 DEF Drain
<1>12. CASE Main
  <2>1. Top.pending = {}
    BY <1>8, <1>12 DEF Main
  <2>2. /\ SameBatches(stack, Goto("run")) /\ SameBatches(stack, Goto("done"))
        /\ SameBatches(stack, Goto("last"))
    BY <1>3, <2>1 DEF Pc
  <2>3. SameBatches(stack, Append(Goto("last"), NewFrame("run", "top")))
    BY <1>5, <2>2 DEF Fn, Pc
  <2>4. QED
    BY <1>6, <1>12, <2>2, <2>3 DEF Main
<1>13. CASE Loop
  <2> USE DEF RunFrame, At
  <2>1. CASE RanImmediate
    <3>1. SameBatches(stack, Goto("imm"))
      BY <1>3 DEF Pc, InBatch
    <3>2. QED
      BY <1>6, <2>1, <3>1 DEF RanImmediate
  <2>2. CASE ImmediatesDone
    <3>1. Top.pending = {} /\ stack' = Goto("end")
      BY <1>0, <2>2 DEF ImmediatesDone, BatchOK
    <3>2. QED
      BY <1>3, <3>1 DEF Pc
  <2>3. ASSUME Top.pc \notin InBatch, NEW pc \in Pc, EnterDrain(Goto(pc)) \/ stack' = Goto(pc)
        PROVE  SameBatches(stack, stack')
    <3>1. SameBatches(stack, Goto(pc))
      BY <1>3, <1>8, <2>3
    <3>2. QED
      BY <1>6, <2>3, <3>1
  <2>4. CASE RunDrain \/ FiredTimer \/ FireDone \/ DispatchDone \/ RunAgain
    <3>1. /\ Top.pc \notin InBatch
          /\ \E pc \in Pc : EnterDrain(Goto(pc)) \/ stack' = Goto(pc)
      BY <2>4 DEF RunDrain, FiredTimer, FireDone, DispatchDone, RunAgain, InBatch, Pc
    <3>2. QED
      BY <2>3, <3>1
  <2>5. CASE RunReturn \/ Ready \/ EndPass
    <3>1. /\ Top.pc \notin InBatch
          /\ stack' = Under \/ stack' = Goto("dispatch") \/ stack' = Goto("top")
      BY <2>5 DEF RunReturn, Ready, EndPass, InBatch
    <3>2. QED
      BY <1>7, <1>8, <2>3, <3>1 DEF Pc
  <2>6. ASSUME NEW ready \in SUBSET Open, NEW later \in 0 .. MaxTime, Poll(ready, later)
        PROVE  SameBatches(stack, stack')
    <3> DEFINE due == {[id |-> t, at |-> timers[t].due] : t \in DueAt(later)}
               alive == ReferencedWatchers # {}
               f == [Top EXCEPT !.pc = "fire", !.due = due, !.ready = ready, !.alive = alive]
    <3>1. stack' = [stack EXCEPT ![n] = f] /\ Top.pc = "idle"
      BY <1>0, <2>6 DEF Poll
    <3>2. due \in SUBSET [id : Nat, at : Nat]
      <4>1. \A t \in DueAt(later) : t \in Nat /\ timers[t].due \in Nat
        BY Bounds DEF DueAt, ClearInv, TimersOK, TimerEntry
      <4>2. QED
        BY <4>1
    <3>3. ready \in SUBSET Watcher /\ alive \in BOOLEAN
      BY DEF Open
    <3> HIDE DEF due, alive
    <3>4. f \in Frame /\ f.pending = Top.pending
      BY <1>0, <3>2, <3>3 DEF Frame
    <3> HIDE DEF f
    <3>5. BatchOK(f)
      BY <1>8, <3>1, <3>4 DEF BatchOK, InBatch
    <3>6. QED
      BY <1>2, <3>1, <3>4, <3>5
  <2>7. CASE FireTimer
    <3>1. Top.pending = {}
      BY <1>8, <2>7 DEF FireTimer, InBatch
    <3>2. PICK f \in Frame :
            /\ f.pending = Top.pending
            /\ \/ stack' = [stack EXCEPT ![n] = f]
               \/ stack' = Append([stack EXCEPT ![n] = f], NewFrame("call", "timer"))
      BY <1>0, <2>7, FireShape
    <3>3. SameBatches(stack, [stack EXCEPT ![n] = f])
      BY <1>2, <3>1, <3>2 DEF BatchOK
    <3>4. QED
      BY <1>5, <3>2, <3>3 DEF Fn, Pc
  <2>8. ASSUME NEW w \in Watcher, Dispatch(w) PROVE SameBatches(stack, stack')
    <3>1. Top.pending = {}
      BY <1>8, <2>8 DEF Dispatch, InBatch
    <3>2. PICK f, g \in Frame : Dispatching(f, g, w, n)
      BY <1>0, <2>8, DispatchShape
    <3>3. /\ f.pending = Top.pending /\ g.pending = {}
          /\ \/ stack' = [stack EXCEPT ![n] = f]
             \/ stack' = Append([stack EXCEPT ![n] = f], g)
      BY <3>2 DEF Dispatching
    <3>4. SameBatches(stack, [stack EXCEPT ![n] = f])
      BY <1>2, <3>1, <3>3 DEF BatchOK
    <3>5. QED
      BY <1>4, <3>3, <3>4
  <2>9. CASE Dispatched
    <3> DEFINE ready == IF Stop THEN {} ELSE Top.ready
               f == [Top EXCEPT !.pc = "dispatch", !.ready = ready]
    <3>1. Top.pc = "dispatched" /\ stack' = [stack EXCEPT ![n] = f]
      BY <1>0, <2>9 DEF Dispatched
    <3>2. ready \in SUBSET Watcher
      BY <1>0 DEF Frame
    <3> HIDE DEF ready
    <3>3. f \in Frame /\ f.pending = Top.pending
      BY <1>0, <3>2 DEF Frame
    <3> HIDE DEF f
    <3>4. BatchOK(f)
      BY <1>8, <3>1, <3>3 DEF BatchOK, InBatch
    <3>5. QED
      BY <1>2, <3>1, <3>3, <3>4
  <2>10. QED
    BY <1>13, <2>1, <2>2, <2>4, <2>5, <2>6, <2>7, <2>8, <2>9 DEF Loop
<1>14. QED
  BY <1>9, <1>10, <1>11, <1>12, <1>13 DEF Next

LEMMA PlacesInit == Init => PlacesInv
<1> SUFFICES ASSUME Init PROVE PlacesInv
  OBVIOUS
<1> DEFINE f == NewFrame("main", "entry")
<1>1. stack = <<f>> /\ f \in Frame /\ f.pending = {}
  BY NewFrameType DEF Init, Fn, Pc
<1> HIDE DEF f
<1>2. /\ stack \in Seq(Frame) /\ Len(stack) = 1 /\ \A k \in 1 .. 1 : stack[k] = f
  BY <1>1
<1>3. AllBatches(stack) /\ \A i : Holders(stack, i) = {}
  BY <1>1, <1>2 DEF AllBatches, BatchOK, Holders
<1>4. ASSUME NEW i \in Imm PROVE ran.immediate[i] = 0 /\ ~imms[i].queued /\ i > made.imm
  BY Bounds DEF Init, Imm
<1>5. made.imm = 0 /\ 0 <= NImms
  BY Bounds DEF Init
<1>6. ASSUME NEW i \in Imm PROVE Place(i)
  <2>1. ~(i <= 0)
    BY Bounds DEF Imm
  <2>2. QED
    BY <1>3, <1>4, <1>5, <2>1 DEF Place
<1>7. QED
  BY <1>3, <1>5, <1>6 DEF PlacesInv

LEMMA SamePlace ==
    ASSUME NEW i \in Imm, Place(i), Holders(stack', i) = Holders(stack, i),
           imms'[i].queued = imms[i].queued, ran'.immediate[i] = ran.immediate[i],
           i <= made'.imm <=> i <= made.imm, i > made'.imm <=> i > made.imm,
           i \in cleared'.immediate <=> i \in cleared.immediate
    PROVE  Place(i)'
<1> DEFINE H == Holders(stack, i)
<1>1. Holders(stack', i) = H
  OBVIOUS
<1> HIDE DEF H
<1>2. QED
  BY <1>1 DEF Place, H

\* Only four steps move an immediate.
LEMMA QuietPlaces ==
    ASSUME ClearInv, [Next]_vars, ~SetImmediate,
           \A i \in Imm : ~ClearImmediate(i), ~TakeImmediates, ~RunImmediate
    PROVE  /\ ran'.immediate = ran.immediate /\ made'.imm = made.imm
           /\ \A i \in Imm : imms'[i].queued = imms[i].queued
           /\ cleared'.immediate = cleared.immediate
<1>0. RecordsOK /\ imms \in [Imm -> ImmEntry] /\ made \in Made
  BY DEF ClearInv, ImmsOK, RecordsOK
<1> USE DEF history
<1>1. ran'.immediate = ran.immediate
  <2>1. \/ ran' = ran \/ \E x : ran' = [ran EXCEPT !.task[x] = @ + 1]
        \/ \E x : ran' = [ran EXCEPT !.timer[x] = @ + 1]
    <3>1. CASE UNCHANGED vars
      BY <3>1 DEF vars
    <3>2. CASE JavaScript
      BY <3>2 DEF JavaScript, QueueMicrotask, NextTick, SetImmediate, Return, SetTimer, ClearTimer,
         UnrefTimer, ClearImmediate, RefImmediate, AddWatcher, CloseWatcher, RefWatcher, Listen, Await
    <3>3. CASE Drain
      BY <3>3 DEF Drain, DrainTicks, DrainJob, DrainRetire, DrainReturn, RunTick, TicksReturn
    <3>4. CASE Main
      BY <3>4 DEF Main
    <3>5. CASE Loop
      BY <3>5 DEF Loop, RunDrain, RunReturn, RunAgain, Poll, FireTimer, FiredTimer, FireDone, Ready,
         Dispatch, Dispatched, DispatchDone, RanImmediate, ImmediatesDone, EndPass
    <3>6. QED
      BY <3>1, <3>2, <3>3, <3>4, <3>5 DEF Next
  <2>2. QED
    BY <1>0, <2>1 DEF RecordsOK
<1>2. /\ cleared'.immediate = cleared.immediate /\ made'.imm = made.imm
      /\ \A i \in Imm : imms'[i].queued = imms[i].queued
  <2>1. CASE UNCHANGED vars
    BY <2>1 DEF vars
  <2>2. CASE JavaScript
    <3>1. CASE QueueMicrotask \/ NextTick
      <4> DEFINE j == made.task + 1
      <4>1. /\ j \in Task /\ made' = [made EXCEPT !.task = j, !.call = @ + 1]
            /\ UNCHANGED <<imms, ran, cleared>>
        BY <3>1 DEF QueueMicrotask, NextTick
      <4>2. j \in Nat
        BY <4>1, Bounds
      <4> HIDE DEF j
      <4>3. QED
        BY <1>0, <4>1, <4>2, CountTask
    <3>2. ASSUME NEW d \in {0, 1}, NEW r \in BOOLEAN, SetTimer(d, r)
          PROVE  UNCHANGED <<imms, cleared>> /\ made'.imm = made.imm
      BY <1>0, <3>2 DEF SetTimer, Made
    <3>3. ASSUME NEW t \in Timer, ClearTimer(t)
          PROVE  imms' = imms /\ made'.imm = made.imm /\ cleared'.immediate = cleared.immediate
      BY <1>0, <3>3 DEF ClearTimer, Made, RecordsOK
    <3>4. ASSUME NEW i \in Imm, NEW r \in BOOLEAN, RefImmediate(i, r)
          PROVE  /\ cleared' = cleared /\ made'.imm = made.imm
                 /\ \A j \in Imm : imms'[j].queued = imms[j].queued
      BY <1>0, <3>4 DEF RefImmediate, Made, ImmEntry
    <3>5. ASSUME \/ Return \/ \E t \in Timer : UnrefTimer(t) \/ Await(t)
                 \/ \E w \in Watcher : AddWatcher(w) \/ CloseWatcher(w) \/ RefWatcher(w) \/ Listen(w)
          PROVE  UNCHANGED <<imms, cleared>> /\ made'.imm = made.imm
      BY <1>0, <3>5 DEF Return, UnrefTimer, Await, AddWatcher, CloseWatcher, RefWatcher, Listen, Made
    <3>6. QED
      BY <2>2, <3>1, <3>2, <3>3, <3>4, <3>5 DEF JavaScript
  <2>3. CASE Drain \/ Main
    BY <2>3 DEF Drain, DrainFrame, DrainTicks, DrainJob, DrainRetire, DrainReturn, RunTick,
       TicksReturn, Main
  <2>4. CASE Loop
    BY <2>4 DEF Loop, RunFrame, RunDrain, RunReturn, RunAgain, Poll, FireTimer, FiredTimer, FireDone,
       Ready, Dispatch, Dispatched, DispatchDone, RanImmediate, ImmediatesDone, EndPass
  <2>5. QED
    BY <2>1, <2>2, <2>3, <2>4 DEF Next
<1>3. QED
  BY <1>1, <1>2

\* setImmediate queues an immediate that was nowhere.
LEMMA PlacesSet == ClearInv /\ PlacesInv /\ SetImmediate => PlacesInv'
<1> SUFFICES ASSUME ClearInv, PlacesInv, SetImmediate PROVE PlacesInv'
  OBVIOUS
<1> DEFINE x == made.imm + 1
<1>1. /\ x \in Imm /\ imms' = [imms EXCEPT ![x] = [queued |-> TRUE, ref |-> TRUE]]
      /\ made' = [made EXCEPT !.imm = x, !.call = @ + 1]
      /\ UNCHANGED <<stack, ran, cleared>>
  BY DEF SetImmediate, history
<1>2. made.imm \in Nat /\ made'.imm = x /\ imms \in [Imm -> ImmEntry]
  BY <1>1 DEF ClearInv, RecordsOK, Made, ImmsOK
<1>3. x > made.imm /\ made'.imm <= NImms /\ x \in Nat
  BY <1>1, <1>2, Bounds DEF Imm
<1>4. ASSUME NEW i \in Imm PROVE Place(i)'
  <2>1. CASE i = x
    <3>1. ran.immediate[i] = 0 /\ Holders(stack, i) = {}
      BY <1>3, <2>1, <1>4 DEF PlacesInv, Place
    <3>2. imms'[i].queued /\ ~(i > made'.imm)
      BY <1>1, <1>2, <1>3, <2>1
    <3>3. QED
      BY <1>1, <3>1, <3>2 DEF Place
  <2>2. CASE i # x
    <3>1. imms'[i].queued = imms[i].queued
      BY <1>1, <1>2, <2>2
    <3>2. (i <= made'.imm <=> i <= made.imm) /\ (i > made'.imm <=> i > made.imm)
      BY <1>2, <2>2, Bounds
    <3>3. Place(i)
      BY DEF PlacesInv
    <3> HIDE DEF x
    <3>4. QED
      BY <1>1, <3>1, <3>2, <3>3, SamePlace
  <2>3. QED
    BY <2>1, <2>2
<1>5. QED
  BY <1>1, <1>3, <1>4 DEF PlacesInv

LEMMA BatchWithout ==
    ASSUME AllBatches(stack), NEW x
    PROVE  /\ AllBatches(Without(x)) /\ Holders(Without(x), x) = {}
           /\ \A i : i # x => Holders(Without(x), i) = Holders(stack, i)
<1> DEFINE n == Len(stack)
<1>1. DOMAIN stack = 1 .. n /\ n \in Nat /\ \A k \in 1 .. n : stack[k] \in Frame
  BY DEF AllBatches
<1>2. \A k \in 1 .. n :
        /\ Without(x)[k] \in Frame
        /\ Without(x)[k].fn = stack[k].fn /\ Without(x)[k].pc = stack[k].pc
        /\ Without(x)[k].due = stack[k].due
        /\ Without(x)[k].pending = stack[k].pending \ {x}
  BY <1>1 DEF Without, Frame
<1>3. Without(x) = [k \in 1 .. n |-> Without(x)[k]]
  BY <1>1 DEF Without
<1>4. Without(x) \in Seq(Frame) /\ Len(Without(x)) = n
  BY <1>1, <1>2, <1>3
<1>5. ASSUME NEW k \in 1 .. n PROVE BatchOK(Without(x)[k])
  <2>1. BatchOK(stack[k])
    BY DEF AllBatches
  <2>2. QED
    BY <1>2, <2>1 DEF BatchOK
<1>6. QED
  BY <1>2, <1>4, <1>5 DEF AllBatches, Holders

\* clearImmediate takes an immediate from wherever it waits.
LEMMA PlacesClear ==
    ASSUME ClearInv, PlacesInv, NEW x \in Imm, ClearImmediate(x)
    PROVE  PlacesInv'
<1>1. /\ imms' = [imms EXCEPT ![x].queued = FALSE] /\ stack' = Without(x)
      /\ made' = [made EXCEPT !.call = @ + 1] /\ x <= made.imm
      /\ cleared' = [cleared EXCEPT !.immediate = @ \cup {x}]
      /\ UNCHANGED ran
  BY DEF ClearImmediate, Without
<1>2. /\ made.imm \in Nat /\ made'.imm = made.imm /\ imms \in [Imm -> ImmEntry]
      /\ cleared'.immediate = cleared.immediate \cup {x}
  BY <1>1 DEF ClearInv, RecordsOK, Made, ImmsOK
<1>3. /\ AllBatches(stack') /\ Holders(stack', x) = {}
      /\ \A i : i # x => Holders(stack', i) = Holders(stack, i)
  BY <1>1, BatchWithout DEF PlacesInv
<1>4. ASSUME NEW i \in Imm PROVE Place(i)'
  <2>0. Place(i)
    BY DEF PlacesInv
  <2>1. CASE i = x
    <3>1. ran'.immediate[i] = ran.immediate[i] /\ ~imms'[i].queued /\ Holders(stack', i) = {}
      BY <1>1, <1>2, <1>3, <2>1 DEF ImmEntry
    <3>2. ran.immediate[i] <= 1 /\ ~(i > made'.imm) /\ i \in cleared'.immediate
      BY <1>1, <1>2, <2>0, <2>1, Bounds DEF Place
    <3>3. QED
      BY <3>1, <3>2 DEF Place
  <2>2. CASE i # x
    <3>1. imms'[i].queued = imms[i].queued
      BY <1>1, <1>2, <2>2
    <3>2. i \in cleared'.immediate <=> i \in cleared.immediate
      BY <1>2, <2>2
    <3>3. QED
      BY <1>1, <1>2, <1>3, <2>0, <2>2, <3>1, <3>2, SamePlace
  <2>3. QED
    BY <2>1, <2>2
<1>5. QED
  BY <1>2, <1>3, <1>4 DEF PlacesInv

\* runAll moves the whole queue into the batch of the innermost loop.
LEMMA PlacesTake ==
    ASSUME ClearInv, PlacesInv, TakeImmediates, imms' # imms
    PROVE  PlacesInv'
<1> DEFINE n == Len(stack)
           due == {[id |-> i, at |-> 0] : i \in QueuedImms}
           f1 == [Top EXCEPT !.pc = "imm"]
           f2 == [f1 EXCEPT !.pending = QueuedImms]
           f3 == [f2 EXCEPT !.due = due]
<1>1. /\ imms' = [i \in Imm |-> [imms[i] EXCEPT !.queued = FALSE]]
      /\ stack' = StartBatch(stack) /\ Top.fn = "run" /\ Top.pc = "check"
      /\ UNCHANGED <<made, ran, cleared>>
  BY DEF TakeImmediates, RunFrame, At
<1>2. /\ Top \in Frame /\ Top = stack[n] /\ n \in DOMAIN stack /\ n \in Nat /\ n >= 1
      /\ BatchOK(Top) /\ n \in 1 .. n
  <2>1. GoodStack(stack, cleared.immediate)
    BY DEF ClearInv, ImmsOK
  <2>2. n \in Nat /\ n >= 1 /\ n \in 1 .. n
    BY <2>1 DEF GoodStack
  <2>3. QED
    BY <2>1, <2>2, TopFields DEF PlacesInv, AllBatches
<1>3. Top.pending = {}
  BY <1>1, <1>2 DEF BatchOK, InBatch
<1>4. StartBatch(stack) = [stack EXCEPT ![n] = f3]
  BY <1>2 DEF StartBatch
<1>5. QueuedImms \in SUBSET Imm /\ due \in SUBSET [id : Nat, at : Nat]
  <2>1. QueuedImms \in SUBSET Imm
    BY DEF QueuedImms
  <2>2. \A i \in QueuedImms : [id |-> i, at |-> 0] \in [id : Nat, at : Nat]
    BY <2>1, Bounds
  <2>3. QED
    BY <2>1, <2>2
<1>6. f3 \in Frame /\ f3.fn = "run" /\ f3.pc = "imm" /\ f3.pending = QueuedImms /\ f3.due = due
  <2> HIDE DEF due
  <2>1. f1 \in Frame /\ f1.fn = "run" /\ f1.pc = "imm"
    BY <1>1, <1>2 DEF Frame
  <2> HIDE DEF f1
  <2>2. f2 \in Frame /\ f2.fn = "run" /\ f2.pc = "imm" /\ f2.pending = QueuedImms
    BY <1>5, <2>1 DEF Frame
  <2> HIDE DEF f2
  <2>3. QED
    BY <1>5, <2>2 DEF Frame
<1>7. BatchOK(f3)
  <2> HIDE DEF f3
  <2>1. QED
    BY <1>6 DEF BatchOK, InBatch
<1> HIDE DEF f3, due
<1>8. /\ AllBatches(stack')
      /\ \A i : Holders(stack', i) = {k \in Holders(stack, i) : k # n}
                                       \cup (IF i \in QueuedImms THEN {n} ELSE {})
  <2> DEFINE z == [stack EXCEPT ![n] = f3]
  <2>1. /\ AllBatches(z)
        /\ \A i : Holders(z, i) = {k \in Holders(stack, i) : k # n}
                                    \cup (IF i \in f3.pending THEN {n} ELSE {})
    BY <1>2, <1>6, <1>7, BatchTop DEF PlacesInv
  <2>2. stack' = z
    BY <1>1, <1>4
  <2> HIDE DEF z
  <2>3. QED
    BY <1>6, <2>1, <2>2
<1>9. \A i : n \notin Holders(stack, i)
  BY <1>2, <1>3 DEF Holders
<1>10. ASSUME NEW i \in Imm PROVE Place(i)'
  <2>0. Place(i) /\ imms \in [Imm -> ImmEntry]
    BY DEF PlacesInv, ClearInv, ImmsOK
  <2>1. imms'[i].queued = FALSE
    BY <1>1, <2>0 DEF ImmEntry
  <2>2. CASE imms[i].queued
    <3>1. ran.immediate[i] = 0 /\ Holders(stack, i) = {} /\ ~(i > made.imm)
      BY <2>0, <2>2 DEF Place
    <3>2. Holders(stack', i) = {n}
      BY <1>8, <2>2, <3>1 DEF QueuedImms
    <3>3. QED
      BY <1>1, <2>1, <3>1, <3>2 DEF Place
  <2>3. CASE ~imms[i].queued
    <3>1. Holders(stack', i) = Holders(stack, i)
      BY <1>8, <1>9, <2>3 DEF QueuedImms
    <3>2. imms[i].queued = FALSE
      BY <2>0, <2>3 DEF ImmEntry
    <3>3. QED
      BY <1>1, <2>0, <2>1, <3>1, <3>2, SamePlace
  <2>4. QED
    BY <2>2, <2>3
<1>11. QED
  BY <1>1, <1>8, <1>10 DEF PlacesInv

\* The next immediate of the batch starts and leaves it.
LEMMA PlacesRun == ClearInv /\ PlacesInv /\ RunImmediate => PlacesInv'
<1> SUFFICES ASSUME ClearInv, PlacesInv, RunImmediate PROVE PlacesInv'
  OBVIOUS
<1> DEFINE n == Len(stack)
           x == NextDue
<1>1. /\ UNCHANGED <<imms, made, cleared>> /\ Top.due # {} /\ RecordsOK
      /\ Top.fn = "run" /\ Top.pc = "imm"
  BY DEF RunImmediate, RunFrame, At, ClearInv
<1>2. /\ Top = stack[n] /\ n \in Nat /\ n >= 1
      /\ BatchOK(Top) /\ n \in 1 .. n /\ IsTop(n) /\ Top \in Frame
  <2>1. GoodStack(stack, cleared.immediate)
    BY DEF ClearInv, ImmsOK
  <2>2. n \in Nat /\ n >= 1 /\ n \in 1 .. n
    BY <2>1 DEF GoodStack
  <2>3. QED
    BY <2>1, <2>2, TopFields DEF PlacesInv, AllBatches, IsTop
<1>3. PICK f \in Frame : Running(f, n)
  BY <1>2, ImmediateShape
<1>4. f.pending \subseteq Top.pending /\ x \notin f.pending
      /\ f.fn = "run" /\ f.pc \in InBatch /\ f.due = Top.due \ {First(Top.due)}
  BY <1>3 DEF Running, InBatch
<1>5. BatchOK(f)
  <2>1. ASSUME NEW i \in f.pending PROVE [id |-> i, at |-> 0] \in f.due
    <3>1. [id |-> i, at |-> 0] \in Top.due
      BY <1>2, <1>4 DEF BatchOK
    <3>2. [id |-> i, at |-> 0] # First(Top.due)
      BY <1>4 DEF NextDue
    <3>3. QED
      BY <1>4, <3>1, <3>2
  <2>2. QED
    BY <1>4, <2>1 DEF BatchOK
<1> DEFINE z == [stack EXCEPT ![n] = f]
<1>6. /\ AllBatches(z)
      /\ \A i : Holders(z, i) = {k \in Holders(stack, i) : k # n}
                                  \cup (IF i \in f.pending THEN {n} ELSE {})
      /\ f.pending = Top.pending => SameBatches(stack, z)
  BY <1>2, <1>5, BatchTop DEF PlacesInv
<1> HIDE DEF z
<1>7. CASE stack' = z /\ f.pending = Top.pending /\ ran' = ran
  <2>1. SameBatches(stack, stack')
    BY <1>6, <1>7
  <2>2. \A i \in Imm : Place(i)'
    BY <1>1, <1>7, <2>1, SamePlace DEF SameBatches, PlacesInv
  <2>3. QED
    BY <1>1, <2>1, <2>2 DEF PlacesInv, SameBatches
<1>8. CASE /\ stack' = Append(z, NewFrame("call", "immediate"))
           /\ x \in Top.pending /\ f.pending = Top.pending \ {x}
           /\ ran' = [ran EXCEPT !.immediate[x] = @ + 1]
  <2>1. SameBatches(z, stack')
    <3>1. /\ NewFrame("call", "immediate") \in Frame
          /\ NewFrame("call", "immediate").pending = {}
      BY NewFrameType DEF Fn, Pc
    <3>2. QED
      BY <1>6, <1>8, <3>1, BatchPush
  <2>2. \A i : n \in Holders(stack, i) <=> i \in Top.pending
    BY <1>2 DEF Holders
  <2>3. x \in Imm
    BY <1>2, <1>8 DEF Frame
  <2>4. /\ \A i \in Imm : i # x => ran'.immediate[i] = ran.immediate[i]
        /\ ran'.immediate[x] = ran.immediate[x] + 1
    BY <1>1, <1>8, <2>3 DEF RecordsOK
  <2> HIDE DEF x, n
  <2>5. ASSUME NEW i \in Imm PROVE Place(i)'
    <3>0. Place(i)
      BY DEF PlacesInv
    <3>1. CASE i = x
      <4>1. n \in Holders(stack, i)
        BY <1>8, <2>2, <3>1
      <4>2. ran.immediate[i] = 0 /\ ~imms[i].queued /\ ~(i > made.imm)
        BY <3>0, <4>1 DEF Place
      <4>3. \A k \in Holders(stack, i) : k = n
        BY <3>0, <4>1 DEF Place
      <4>4. Holders(stack', i) = {}
        BY <1>6, <1>8, <2>1, <3>1, <4>3 DEF SameBatches
      <4>5. ran'.immediate[i] = 1
        BY <2>4, <3>1, <4>2
      <4>6. QED
        BY <1>1, <4>2, <4>4, <4>5 DEF Place
    <3>2. CASE i # x
      <4>1. Holders(stack', i) = Holders(stack, i)
        BY <1>6, <1>8, <2>1, <2>2, <3>2 DEF SameBatches
      <4>2. QED
        BY <1>1, <2>4, <3>0, <3>2, <4>1, SamePlace
    <3>3. QED
      BY <3>1, <3>2
  <2>6. QED
    BY <1>1, <2>1, <2>5 DEF PlacesInv, SameBatches
<1>9. QED
  BY <1>3, <1>7, <1>8 DEF Running, z

LEMMA PlacesNext == ClearInv /\ PlacesInv /\ [Next]_vars => PlacesInv'
<1> SUFFICES ASSUME ClearInv, PlacesInv, [Next]_vars PROVE PlacesInv'
  OBVIOUS
<1>1. CASE SetImmediate
  BY <1>1, PlacesSet
<1>2. CASE \E i \in Imm : ClearImmediate(i)
  BY <1>2, PlacesClear
<1>3. CASE RunImmediate
  BY <1>3, PlacesRun
<1>4. CASE TakeImmediates /\ imms' # imms
  BY <1>4, PlacesTake
<1>5. ASSUME SameBatches(stack, stack'), ran'.immediate = ran.immediate, made'.imm = made.imm,
             \A i \in Imm : imms'[i].queued = imms[i].queued,
             cleared'.immediate = cleared.immediate
      PROVE  PlacesInv'
  <2>1. \A i \in Imm : Place(i)'
    BY <1>5, SamePlace DEF SameBatches, PlacesInv
  <2>2. QED
    BY <1>5, <2>1 DEF PlacesInv, SameBatches
<1>6. CASE TakeImmediates /\ imms' = imms
  <2> DEFINE n == Len(stack)
             f == [Top EXCEPT !.pc = "end"]
  <2>1. /\ Top.fn = "run" /\ Top.pc = "check" /\ UNCHANGED <<made, ran, cleared, imms>>
        /\ stack' = Goto("end")
    <3> DEFINE due == ImmsDue(Top.alive \/ TimersReferenced)
               none == [i \in Imm |-> [imms[i] EXCEPT !.queued = FALSE]]
    <3>1. IF due THEN imms' = none ELSE stack' = Goto("end")
      BY <1>6 DEF TakeImmediates
    <3>2. due => imms # none
      <4>1. due => ImmsPending
        BY DEF ImmsDue
      <4> HIDE DEF due
      <4>2. QED
        BY <4>1 DEF ImmsPending, ClearInv, ImmsOK, ImmEntry
    <3> HIDE DEF due, none
    <3>3. QED
      BY <1>6, <3>1, <3>2 DEF TakeImmediates, RunFrame, At
  <2>2. GoodStack(stack, cleared.immediate)
    BY DEF ClearInv, ImmsOK
  <2>3. n \in Nat /\ n >= 1 /\ n \in 1 .. n
    BY <2>2 DEF GoodStack
  <2>4. Top \in Frame /\ Top = stack[n] /\ n \in DOMAIN stack
    BY <2>2, TopFields
  <2>5. Top.pending = {}
    BY <2>1, <2>3, <2>4 DEF PlacesInv, AllBatches, BatchOK, InBatch
  <2>6. f \in Frame /\ f.pending = Top.pending
    BY <2>4, PcField DEF Pc
  <2>7. Goto("end") = [stack EXCEPT ![n] = f]
    BY <2>4 DEF Goto
  <2> HIDE DEF f
  <2>8. BatchOK(f)
    BY <2>5, <2>6 DEF BatchOK
  <2>9. SameBatches(stack, [stack EXCEPT ![n] = f])
    BY <2>3, <2>4, <2>6, <2>8, BatchTop DEF PlacesInv
  <2>10. QED
    BY <1>5, <2>1, <2>7, <2>9
<1>7. CASE /\ ~SetImmediate /\ \A i \in Imm : ~ClearImmediate(i)
           /\ ~TakeImmediates /\ ~RunImmediate
  BY <1>5, <1>7, QuietBatches, QuietPlaces DEF PlacesInv
<1>8. QED
  BY <1>1, <1>2, <1>3, <1>4, <1>6, <1>7

\* Every immediate made is in exactly one place - the queue, the batch of one pass,
\* or run once - and in at most one after clearImmediate, for any number of
\* immediates and any nesting of loops: runAll loses none and runs none twice.
THEOREM ImmediatesKeptCorrect == Spec => []ImmediatesKept
<1>1. Init => PlacesInv
  BY PlacesInit
<1>2. ClearInv /\ PlacesInv /\ [Next]_vars => PlacesInv'
  BY PlacesNext
<1>3. ClearInv /\ PlacesInv => ImmediatesKept
  <2> SUFFICES ASSUME ClearInv, PlacesInv, NEW i \in 1 .. made.imm
               PROVE  LET places == (IF imms[i].queued THEN 1 ELSE 0) + ran.immediate[i]
                            + Cardinality({k \in DOMAIN stack : i \in stack[k].pending}) IN
                      IF i \in cleared.immediate THEN places <= 1 ELSE places = 1
    BY DEF ImmediatesKept
  <2> DEFINE H == Holders(stack, i)
             c == Cardinality(H)
             r == ran.immediate[i]
  <2>1. {k \in DOMAIN stack : i \in stack[k].pending} = H
    BY DEF Holders, PlacesInv, AllBatches
  <2>2. i \in Imm /\ i <= made.imm /\ r \in Nat /\ ~(i > made.imm) /\ imms[i].queued \in BOOLEAN
    <3>1. made.imm \in Nat /\ made.imm <= NImms /\ NImms \in Nat
      BY Bounds DEF ClearInv, RecordsOK, Made, PlacesInv
    <3>2. i \in Imm /\ i <= made.imm /\ ~(i > made.imm)
      BY <3>1 DEF Imm
    <3>3. QED
      BY <3>2 DEF ClearInv, RecordsOK, ImmsOK, ImmEntry
  <2>3. /\ r <= 1 /\ (imms[i].queued => r = 0 /\ H = {}) /\ (H # {} => r = 0)
        /\ \A j, k \in H : j = k
        /\ i \in cleared.immediate \/ r = 1 \/ imms[i].queued \/ H # {}
    BY <2>2 DEF PlacesInv, Place
  <2> HIDE DEF H, r
  <2>4. CASE H = {}
    <3>1. c = 0
      BY <2>4, FS_EmptySet
    <3> HIDE DEF c
    <3>2. IF i \in cleared.immediate THEN (IF imms[i].queued THEN 1 ELSE 0) + r + c <= 1
          ELSE (IF imms[i].queued THEN 1 ELSE 0) + r + c = 1
      BY <2>2, <2>3, <2>4, <3>1
    <3>3. QED
      BY <2>1, <3>2 DEF c, r
  <2>5. CASE H # {}
    <3>1. PICK k \in H : TRUE
      BY <2>5
    <3>2. c = 1
      <4>1. H = {k}
        BY <2>3, <3>1
      <4>2. QED
        BY <4>1, FS_Singleton
    <3> HIDE DEF c
    <3>3. IF i \in cleared.immediate THEN (IF imms[i].queued THEN 1 ELSE 0) + r + c <= 1
          ELSE (IF imms[i].queued THEN 1 ELSE 0) + r + c = 1
      BY <2>2, <2>3, <2>5, <3>2
    <3>4. QED
      BY <2>1, <3>3 DEF c, r
  <2>6. QED
    BY <2>4, <2>5
<1>4. QED
  BY <1>1, <1>2, <1>3, ClearInvHolds, PTL DEF Spec

----------------
(***************************************************************************)
(* The types.  All but one are local to an action.  drain_microtasks runs  *)
(* a job where it is queued and pops it when it returns: the queue cannot  *)
(* be empty by then, since no other drain pops meanwhile.                  *)
(***************************************************************************)
Retiring(f) == f.fn = "drain" /\ f.pc = "retire"
Retires(s) == {k \in 1 .. Len(s) : Retiring(s[k])}

\* z retires no more jobs than s.
Fewer(s, z) == z \in Seq(Frame) /\ Retires(z) \subseteq Retires(s)

QueuesInv ==
    /\ micro \in Seq(Task) /\ ticks \in Seq(Task)
    /\ Retires(stack) # {} => micro # << >>
    /\ watchers \in [Watcher -> {"none", "open", "closing", "gone"}] /\ weak \subseteq Watcher
    /\ made \in [timer : 0 .. NTimers, imm : 0 .. NImms, task : 0 .. NTasks, call : 0 .. MaxCalls]

LEMMA FewerPush ==
    ASSUME NEW s, NEW z, Fewer(s, z), NEW g \in Frame, ~Retiring(g)
    PROVE  Fewer(s, Append(z, g))
<1> DEFINE y == Append(z, g)
           n == Len(z)
<1>1. /\ y \in Seq(Frame) /\ Len(y) = n + 1 /\ n \in Nat /\ y[n + 1] = g
      /\ \A k \in 1 .. n : y[k] = z[k]
  BY DEF Fewer
<1> HIDE DEF y
<1>2. \A k \in 1 .. n + 1 : k = n + 1 \/ k \in 1 .. n
  BY <1>1
<1>3. Retires(y) \subseteq Retires(z)
  BY <1>1, <1>2 DEF Retires
<1>4. QED
  BY <1>1, <1>3 DEF Fewer, y

LEMMA FewerTop ==
    ASSUME NEW s \in Seq(Frame), Len(s) >= 1, NEW f \in Frame, ~Retiring(f)
    PROVE  Fewer(s, [s EXCEPT ![Len(s)] = f])
<1> DEFINE n == Len(s)
           z == [s EXCEPT ![n] = f]
<1>1. /\ n \in 1 .. n /\ z \in Seq(Frame) /\ Len(z) = n /\ z[n] = f
      /\ \A k \in 1 .. n : k # n => z[k] = s[k]
  OBVIOUS
<1> HIDE DEF z
<1>2. Retires(z) \subseteq Retires(s)
  BY <1>1 DEF Retires
<1>3. QED
  BY <1>1, <1>2 DEF Fewer, z

LEMMA FewerPop ==
    ASSUME NEW s \in Seq(Frame), Len(s) >= 1
    PROVE  Fewer(s, SubSeq(s, 1, Len(s) - 1))
<1> DEFINE n == Len(s) - 1
           u == SubSeq(s, 1, n)
<1>1. /\ n \in Nat /\ Len(s) = n + 1
      /\ u \in Seq(Frame) /\ Len(u) = n /\ \A k \in 1 .. n : u[k] = s[k]
  BY PopShape
<1> HIDE DEF n, u
<1>2. \A k \in 1 .. n : k \in 1 .. n + 1
  BY <1>1
<1>3. Retires(u) \subseteq Retires(s)
  BY <1>1, <1>2 DEF Retires
<1>4. QED
  BY <1>1, <1>3 DEF Fewer, u, n

LEMMA FewerWithout ==
    ASSUME NEW I, GoodStack(stack, I), NEW i
    PROVE  Fewer(stack, Without(i))
<1>1. /\ stack \in Seq(Frame) /\ DOMAIN stack = 1 .. Len(stack) /\ Len(stack) \in Nat
      /\ \A k \in 1 .. Len(stack) : stack[k] \in Frame
  BY DEF GoodStack
<1>2. Without(i) \in Seq(Frame)
  BY WithoutGood DEF GoodStack
<1>3. \A k \in 1 .. Len(stack) : Without(i)[k].fn = stack[k].fn /\ Without(i)[k].pc = stack[k].pc
  BY <1>1 DEF Without, Frame
<1>4. Len(Without(i)) = Len(stack)
  BY <1>1, <1>2 DEF Without
<1>5. QED
  BY <1>2, <1>3, <1>4 DEF Fewer, Retires, Retiring

\* Only the start of a job adds a frame that will retire one.
LEMMA NoNewRetire ==
    ASSUME ClearInv, [Next]_vars, ~DrainJob
    PROVE  Fewer(stack, stack')
<1> DEFINE n == Len(stack)
<1>0. /\ stack \in Seq(Frame) /\ n \in Nat /\ n >= 1 /\ IsTop(n) /\ Top \in Frame
      /\ Top = stack[n] /\ n \in DOMAIN stack /\ GoodStack(stack, cleared.immediate)
  <2>1. GoodStack(stack, cleared.immediate)
    BY DEF ClearInv, ImmsOK
  <2>2. stack \in Seq(Frame) /\ n \in Nat /\ n >= 1
    BY <2>1 DEF GoodStack
  <2>3. QED
    BY <2>1, <2>2, TopFields DEF IsTop
<1>1. Fewer(stack, stack)
  BY <1>0 DEF Fewer
<1>2. ASSUME NEW f \in Frame, ~Retiring(f) PROVE Fewer(stack, [stack EXCEPT ![n] = f])
  BY <1>0, <1>2, FewerTop
<1>3. ASSUME NEW pc \in Pc \ {"retire"} PROVE Fewer(stack, Goto(pc))
  <2> DEFINE f == [Top EXCEPT !.pc = pc]
  <2>1. f \in Frame
    BY <1>0, PcField
  <2>2. f.pc = pc /\ Goto(pc) = [stack EXCEPT ![n] = f]
    BY <1>0 DEF Goto, Frame
  <2> HIDE DEF f
  <2>3. QED
    BY <1>2, <1>3, <2>1, <2>2 DEF Retiring
<1>4. ASSUME NEW z, Fewer(stack, z), NEW fn \in Fn, NEW pc \in Pc \ {"retire"}
      PROVE  Fewer(stack, Append(z, NewFrame(fn, pc)))
  <2>1. NewFrame(fn, pc) \in Frame /\ NewFrame(fn, pc).pc # "retire"
    BY <1>4, NewFrameType DEF NewFrame
  <2>2. QED
    BY <1>4, <2>1, FewerPush DEF Retiring
<1>5. ASSUME NEW z, Fewer(stack, z), EnterDrain(z) PROVE Fewer(stack, stack')
  <2>1. Fewer(stack, Append(z, NewFrame("drain", "loop")))
    BY <1>4, <1>5 DEF Fn, Pc
  <2>2. QED
    BY <1>5, <2>1 DEF EnterDrain
<1>6. ASSUME stack' = Under PROVE Fewer(stack, stack')
  BY <1>0, <1>6, FewerPop DEF Under
<1>7. CASE UNCHANGED vars
  BY <1>1, <1>7 DEF vars
<1>8. CASE JavaScript
  <2>1. CASE Return
    BY <1>6, <2>1 DEF Return
  <2>2. ASSUME NEW t \in Timer, Await(t) PROVE Fewer(stack, stack')
    <3> DEFINE h == NewFrame("run", "top")
               g == [h EXCEPT !.until = t]
    <3>1. stack' = Append(stack, g)
      BY <2>2 DEF Await
    <3>2. h \in Frame /\ h.fn = "run" /\ t \in Nat
      BY NewFrameType, Bounds DEF Fn, Pc, NewFrame
    <3> HIDE DEF h
    <3>3. g \in Frame /\ ~Retiring(g)
      BY <3>2 DEF Frame, Retiring
    <3> HIDE DEF g
    <3>4. QED
      BY <1>1, <3>1, <3>3, FewerPush
  <2>3. ASSUME NEW w \in Watcher, Listen(w) PROVE Fewer(stack, stack')
    <3>1. stack' = Append(stack, NewFrame("run", "top"))
      BY <2>3 DEF Listen
    <3>2. QED
      BY <1>1, <1>4, <3>1 DEF Fn, Pc
  <2>4. ASSUME NEW i \in Imm, ClearImmediate(i) PROVE Fewer(stack, stack')
    BY <1>0, <2>4, FewerWithout DEF ClearImmediate, Without
  <2>5. CASE stack' = stack
    BY <1>1, <2>5
  <2>6. QED
    BY <1>8, <2>1, <2>2, <2>3, <2>4, <2>5 DEF JavaScript, QueueMicrotask, NextTick, SetImmediate,
       SetTimer, ClearTimer, UnrefTimer, RefImmediate, AddWatcher, CloseWatcher, RefWatcher
<1>9. CASE Drain
  <2>1. CASE DrainTicks
    <3>1. PICK z \in {Goto("final"), stack} : stack' = Append(z, NewFrame("ticks", "loop"))
      BY <2>1 DEF DrainTicks
    <3>2. Fewer(stack, z)
      BY <1>1, <1>3 DEF Pc
    <3>3. QED
      BY <1>4, <3>1, <3>2 DEF Fn, Pc
  <2>2. CASE DrainRetire
    BY <1>3, <2>2 DEF DrainRetire, Pc
  <2>3. CASE DrainReturn \/ TicksReturn
    BY <1>6, <2>3 DEF DrainReturn, TicksReturn
  <2>4. CASE RunTick
    <3>1. stack' = Append(stack, NewFrame("call", "tick"))
      BY <2>4 DEF RunTick, Call
    <3>2. QED
      BY <1>1, <1>4, <3>1 DEF Fn, Pc
  <2>5. QED
    BY <1>9, <2>1, <2>2, <2>3, <2>4 DEF Drain
<1>10. CASE Main
  <2>1. Fewer(stack, Goto("run")) /\ Fewer(stack, Goto("done")) /\ Fewer(stack, Goto("last"))
    BY <1>3 DEF Pc
  <2>2. Fewer(stack, Append(Goto("last"), NewFrame("run", "top")))
    BY <1>4, <2>1 DEF Fn, Pc
  <2>3. QED
    BY <1>5, <1>10, <2>1, <2>2 DEF Main
<1>11. CASE Loop
  <2> USE DEF RunFrame, At
  <2>1. ASSUME NEW pc \in Pc \ {"retire"}, EnterDrain(Goto(pc)) \/ stack' = Goto(pc)
        PROVE  Fewer(stack, stack')
    BY <1>3, <1>5, <2>1
  <2>2. CASE RunDrain \/ FiredTimer \/ FireDone \/ DispatchDone \/ RanImmediate \/ ImmediatesDone
             \/ RunAgain
    <3>1. \E pc \in Pc \ {"retire"} : EnterDrain(Goto(pc)) \/ stack' = Goto(pc)
      BY <2>2 DEF RunDrain, FiredTimer, FireDone, DispatchDone, RanImmediate, ImmediatesDone,
         RunAgain, Pc
    <3>2. QED
      BY <2>1, <3>1
  <2>3. CASE RunReturn \/ Ready \/ EndPass
    <3>1. stack' = Under \/ stack' = Goto("dispatch") \/ stack' = Goto("top")
      BY <2>3 DEF RunReturn, Ready, EndPass
    <3>2. QED
      BY <1>6, <2>1, <3>1 DEF Pc
  <2>4. ASSUME NEW f, stack' = [stack EXCEPT ![n] = f], f \in Frame, f.fn = "run"
        PROVE  Fewer(stack, stack')
    BY <1>2, <2>4 DEF Retiring
  <2>5. ASSUME NEW ready \in SUBSET Open, NEW later \in 0 .. MaxTime, Poll(ready, later)
        PROVE  Fewer(stack, stack')
    <3> DEFINE due == {[id |-> t, at |-> timers[t].due] : t \in DueAt(later)}
               alive == ReferencedWatchers # {}
               f == [Top EXCEPT !.pc = "fire", !.due = due, !.ready = ready, !.alive = alive]
    <3>1. stack' = [stack EXCEPT ![n] = f] /\ Top.fn = "run"
      BY <1>0, <2>5 DEF Poll
    <3>2. due \in SUBSET [id : Nat, at : Nat]
      <4>1. \A t \in DueAt(later) : t \in Nat /\ timers[t].due \in Nat
        BY Bounds DEF DueAt, ClearInv, TimersOK, TimerEntry
      <4>2. QED
        BY <4>1
    <3>3. ready \in SUBSET Watcher /\ alive \in BOOLEAN
      BY DEF Open
    <3> HIDE DEF due, alive
    <3>4. f \in Frame /\ f.fn = "run"
      BY <1>0, <3>1, <3>2, <3>3 DEF Frame
    <3> HIDE DEF f
    <3>5. QED
      BY <2>4, <3>1, <3>4
  <2>6. CASE FireTimer
    <3>1. PICK f \in Frame :
            /\ f.fn = "run"
            /\ \/ stack' = [stack EXCEPT ![n] = f]
               \/ stack' = Append([stack EXCEPT ![n] = f], NewFrame("call", "timer"))
      BY <1>0, <2>6, FireShape
    <3>2. Fewer(stack, [stack EXCEPT ![n] = f])
      BY <1>2, <3>1 DEF Retiring
    <3>3. QED
      BY <1>4, <3>1, <3>2 DEF Fn, Pc
  <2>7. CASE RunImmediate
    <3>1. PICK f \in Frame : Running(f, n)
      BY <1>0, <2>7, ImmediateShape
    <3>2. /\ f.fn = "run"
          /\ \/ stack' = [stack EXCEPT ![n] = f]
             \/ stack' = Append([stack EXCEPT ![n] = f], NewFrame("call", "immediate"))
      BY <3>1 DEF Running
    <3>3. Fewer(stack, [stack EXCEPT ![n] = f])
      BY <1>2, <3>2 DEF Retiring
    <3>4. QED
      BY <1>4, <3>2, <3>3 DEF Fn, Pc
  <2>8. ASSUME NEW w \in Watcher, Dispatch(w) PROVE Fewer(stack, stack')
    <3>1. PICK f, g \in Frame : Dispatching(f, g, w, n)
      BY <1>0, <2>8, DispatchShape
    <3>2. /\ f.fn = "run" /\ g.fn = "call"
          /\ \/ stack' = [stack EXCEPT ![n] = f]
             \/ stack' = Append([stack EXCEPT ![n] = f], g)
      BY <3>1 DEF Dispatching
    <3>3. Fewer(stack, [stack EXCEPT ![n] = f]) /\ ~Retiring(g)
      BY <1>2, <3>2 DEF Retiring
    <3>4. QED
      BY <3>2, <3>3, FewerPush
  <2>9. CASE Dispatched
    <3> DEFINE ready == IF Stop THEN {} ELSE Top.ready
               f == [Top EXCEPT !.pc = "dispatch", !.ready = ready]
    <3>1. Top.fn = "run" /\ stack' = [stack EXCEPT ![n] = f]
      BY <1>0, <2>9 DEF Dispatched
    <3>2. ready \in SUBSET Watcher
      BY <1>0 DEF Frame
    <3> HIDE DEF ready
    <3>3. f \in Frame /\ f.fn = "run"
      BY <1>0, <3>1, <3>2 DEF Frame
    <3> HIDE DEF f
    <3>4. QED
      BY <2>4, <3>1, <3>3
  <2>10. CASE TakeImmediates
    <3>1. CASE stack' = Goto("end")
      BY <2>1, <3>1 DEF Pc
    <3>2. CASE stack' = StartBatch(stack)
      <4>1. stack' \in Seq(Frame)
        BY <2>10, TakeImmediatesStep DEF ClearInv, ImmsOK, GoodStack
      <4> DEFINE f == [Top EXCEPT !.pc = "imm", !.pending = QueuedImms,
                                  !.due = {[id |-> i, at |-> 0] : i \in QueuedImms}]
      <4>2. stack' = [stack EXCEPT ![n] = f]
        BY <1>0, <3>2 DEF StartBatch
      <4>3. f.fn = "run"
        BY <1>0, <2>10 DEF TakeImmediates, Frame
      <4> HIDE DEF f
      <4>4. Len(stack') = n /\ stack'[n] = f /\ \A k \in 1 .. n : k # n => stack'[k] = stack[k]
        BY <1>0, <4>2
      <4>5. QED
        BY <4>1, <4>3, <4>4 DEF Fewer, Retires, Retiring
    <3>3. QED
      BY <2>10, <3>1, <3>2 DEF TakeImmediates
  <2>11. QED
    BY <1>11, <2>2, <2>3, <2>5, <2>6, <2>7, <2>8, <2>9, <2>10 DEF Loop
<1>12. QED
  BY <1>7, <1>8, <1>9, <1>10, <1>11 DEF Next

LEMMA QueuesInit == Init => QueuesInv
<1> SUFFICES ASSUME Init PROVE QueuesInv
  OBVIOUS
<1>1. stack = <<NewFrame("main", "entry")>> /\ NewFrame("main", "entry").fn = "main"
  BY NewFrameType DEF Init, Fn, Pc
<1>2. Len(stack) = 1 /\ stack[1].fn = "main"
  BY <1>1
<1>3. Retires(stack) = {}
  BY <1>2 DEF Retires, Retiring
<1>4. made \in [timer : 0 .. NTimers, imm : 0 .. NImms, task : 0 .. NTasks, call : 0 .. MaxCalls]
  BY Bounds DEF Init
<1>5. QED
  BY <1>3, <1>4 DEF QueuesInv, Init

\* The two queues: appended to by JavaScript, and popped where they are not empty.
LEMMA QueuesKept ==
    ASSUME ClearInv, TicksInv, QueuesInv, [Next]_vars
    PROVE  /\ micro' \in Seq(Task) /\ ticks' \in Seq(Task)
           /\ Retires(stack') # {} => micro' # << >>
<1> USE DEF queues
<1>1. micro' = micro \/ QueueMicrotask \/ DrainRetire
  <2>1. CASE UNCHANGED vars
    BY <2>1 DEF vars
  <2>2. CASE JavaScript
    BY <2>2 DEF JavaScript, NextTick, SetImmediate, Return, SetTimer, ClearTimer,
       UnrefTimer, ClearImmediate, RefImmediate, AddWatcher, CloseWatcher, RefWatcher, Listen, Await
  <2>3. CASE Drain \/ Main
    BY <2>3 DEF Drain, DrainTicks, DrainJob, DrainReturn, RunTick, TicksReturn, Main
  <2>4. CASE Loop
    BY <2>4 DEF Loop, RunFrame, RunDrain, RunReturn, RunAgain, Poll, FireTimer, FiredTimer, FireDone,
       Ready, Dispatch, Dispatched, DispatchDone, TakeImmediates, RunImmediate, RanImmediate,
       ImmediatesDone, EndPass
  <2>5. QED
    BY <2>1, <2>2, <2>3, <2>4 DEF Next
<1>2. ticks' = ticks \/ NextTick \/ RunTick
  <2>1. CASE UNCHANGED vars
    BY <2>1 DEF vars
  <2>2. CASE JavaScript
    BY <2>2 DEF JavaScript, QueueMicrotask, SetImmediate, Return, SetTimer, ClearTimer,
       UnrefTimer, ClearImmediate, RefImmediate, AddWatcher, CloseWatcher, RefWatcher, Listen, Await
  <2>3. CASE Drain \/ Main
    BY <2>3 DEF Drain, DrainTicks, DrainJob, DrainRetire, DrainReturn, TicksReturn, Main
  <2>4. CASE Loop
    BY <2>4 DEF Loop, RunFrame, RunDrain, RunReturn, RunAgain, Poll, FireTimer, FiredTimer, FireDone,
       Ready, Dispatch, Dispatched, DispatchDone, TakeImmediates, RunImmediate, RanImmediate,
       ImmediatesDone, EndPass
  <2>5. QED
    BY <2>1, <2>2, <2>3, <2>4 DEF Next
<1>3. ticks' \in Seq(Task)
  <2>1. CASE NextTick
    BY <2>1 DEF NextTick, QueuesInv
  <2>2. CASE RunTick
    BY <2>2 DEF RunTick, QueuesInv
  <2>3. QED
    BY <1>2, <2>1, <2>2 DEF QueuesInv
<1>4. CASE QueueMicrotask
  <2>1. \E j \in Task : micro' = Append(micro, j)
    BY <1>4 DEF QueueMicrotask
  <2>2. micro' \in Seq(Task) /\ micro' # << >>
    BY <2>1 DEF QueuesInv
  <2>3. QED
    BY <1>3, <2>2
<1>5. CASE DrainRetire
  <2> DEFINE n == Len(stack)
  <2>1. /\ Top.fn = "drain" /\ Top.pc = "retire" /\ stack' = Goto("loop")
        /\ micro' = Tail(micro)
    BY <1>5 DEF DrainRetire, DrainFrame
  <2>2. stack \in Seq(Frame) /\ n \in 1 .. n /\ Top = stack[n] /\ Top \in Frame /\ n \in DOMAIN stack
    BY TopTidy DEF Tidy
  <2>3. n \in Retires(stack)
    BY <2>1, <2>2 DEF Retires, Retiring
  <2>4. micro' \in Seq(Task)
    BY <2>1, <2>3 DEF QueuesInv
  <2>5. Retires(stack') \subseteq Retires(stack)
    <3>1. ~DrainJob
      BY <2>1 DEF DrainJob
    <3>2. QED
      BY <3>1, NoNewRetire DEF Fewer
  <2>6. n \notin Retires(stack')
    <3>1. stack'[n].pc = "loop"
      BY <2>1, <2>2 DEF Goto, Frame
    <3>2. QED
      BY <3>1 DEF Retires, Retiring
  <2>7. \A k \in Retires(stack) : k = n
    <3>1. Retires(stack) \subseteq Drains(stack) /\ Drains(stack) \subseteq 1 .. n
      BY DEF Retires, Retiring, Drains
    <3>2. QED
      BY <2>3, <3>1 DEF TicksInv, Tidy
  <2>8. QED
    BY <1>3, <2>4, <2>5, <2>6, <2>7
<1>6. CASE micro' = micro
  <2>1. CASE DrainJob
    BY <1>3, <1>6, <2>1 DEF DrainJob, QueuesInv
  <2>2. CASE ~DrainJob
    BY <1>3, <1>6, <2>2, NoNewRetire DEF QueuesInv, Fewer
  <2>3. QED
    BY <2>1, <2>2
<1>7. QED
  BY <1>1, <1>4, <1>5, <1>6

LEMMA QueuesNext == ClearInv /\ TicksInv /\ QueuesInv /\ [Next]_vars => QueuesInv'
<1> SUFFICES ASSUME ClearInv, TicksInv, QueuesInv, [Next]_vars PROVE QueuesInv'
  OBVIOUS
<1> DEFINE States == {"none", "open", "closing", "gone"}
           MadeType == [timer : 0 .. NTimers, imm : 0 .. NImms, task : 0 .. NTasks, call : 0 .. MaxCalls]
<1>1. watchers' \in [Watcher -> States] /\ weak' \subseteq Watcher
  <2> USE DEF io
  <2>0. watchers \in [Watcher -> States] /\ weak \subseteq Watcher
    BY DEF QueuesInv
  <2>1. ASSUME NEW d, PurgeClosedIfSafe(d) PROVE watchers' \in [Watcher -> States]
    BY <2>0, <2>1 DEF PurgeClosedIfSafe
  <2>2. CASE UNCHANGED vars
    BY <2>0, <2>2 DEF vars
  <2>3. ASSUME NEW w \in Watcher, AddWatcher(w) \/ CloseWatcher(w) \/ RefWatcher(w) \/ Listen(w)
        PROVE  watchers' \in [Watcher -> States] /\ weak' \subseteq Watcher
    BY <2>0, <2>3 DEF AddWatcher, CloseWatcher, RefWatcher, Listen
  <2>4. CASE JavaScript
    BY <2>0, <2>3, <2>4 DEF JavaScript, QueueMicrotask, NextTick, SetImmediate, Return, SetTimer,
       ClearTimer, UnrefTimer, ClearImmediate, RefImmediate, Await
  <2>5. CASE Drain \/ Main
    BY <2>0, <2>5 DEF Drain, DrainFrame, DrainTicks, DrainJob, DrainRetire, DrainReturn, RunTick,
       TicksReturn, Main
  <2>6. CASE RunReturn \/ Ready \/ EndPass
    <3>1. weak' = weak /\ (watchers' = watchers \/ \E d : PurgeClosedIfSafe(d))
      BY <2>6 DEF RunReturn, Ready, EndPass
    <3>2. QED
      BY <2>0, <2>1, <3>1
  <2>7. CASE Loop
    BY <2>0, <2>6, <2>7 DEF Loop, RunDrain, RunAgain, Poll, FireTimer, FiredTimer, FireDone,
       Dispatch, Dispatched, DispatchDone, TakeImmediates, RunImmediate, RanImmediate, ImmediatesDone
  <2>8. QED
    BY <2>2, <2>4, <2>5, <2>7 DEF Next
<1>2. made' \in MadeType
  <2>0. /\ made \in MadeType
        /\ NTimers \in Nat /\ NImms \in Nat /\ NTasks \in Nat /\ MaxCalls \in Nat
    BY Bounds DEF QueuesInv
  <2>1. JavaScriptCall => made.call + 1 \in 0 .. MaxCalls
    BY <2>0 DEF JavaScriptCall
  <2>2. ASSUME JavaScriptCall, made' = [made EXCEPT !.call = @ + 1] PROVE made' \in MadeType
    BY <2>0, <2>1, <2>2
  <2>3. CASE QueueMicrotask \/ NextTick
    <3>1. /\ made.task + 1 \in 0 .. NTasks /\ JavaScriptCall
          /\ made' = [made EXCEPT !.task = made.task + 1, !.call = @ + 1]
      BY <2>0, <2>3 DEF QueueMicrotask, NextTick, Task
    <3>2. QED
      BY <2>0, <2>1, <3>1
  <2>4. CASE SetImmediate
    <3>1. /\ made.imm + 1 \in 0 .. NImms /\ JavaScriptCall
          /\ made' = [made EXCEPT !.imm = made.imm + 1, !.call = @ + 1]
      BY <2>0, <2>4 DEF SetImmediate, Imm
    <3>2. QED
      BY <2>0, <2>1, <3>1
  <2>5. ASSUME NEW d \in {0, 1}, NEW r \in BOOLEAN, SetTimer(d, r) PROVE made' \in MadeType
    <3>1. /\ made.timer + 1 \in 0 .. NTimers /\ JavaScriptCall
          /\ made' = [made EXCEPT !.timer = made.timer + 1, !.call = @ + 1]
      BY <2>0, <2>5 DEF SetTimer, Timer
    <3>2. QED
      BY <2>0, <2>1, <3>1
  <2>6. CASE JavaScript
    <3>1. CASE made' = made
      BY <2>0, <3>1
    <3>2. QED
      BY <2>2, <2>3, <2>4, <2>5, <2>6, <3>1 DEF JavaScript, Return, ClearTimer, UnrefTimer,
         ClearImmediate, RefImmediate, AddWatcher, CloseWatcher, RefWatcher, Listen, Await
  <2>7. CASE UNCHANGED vars \/ Drain \/ Main
    BY <2>0, <2>7 DEF vars, Drain, DrainFrame, DrainTicks, DrainJob, DrainRetire, DrainReturn,
       RunTick, TicksReturn, Main
  <2>8. CASE Loop
    BY <2>0, <2>8 DEF Loop, RunFrame, RunDrain, RunReturn, RunAgain, Poll, FireTimer, FiredTimer,
       FireDone, Ready, Dispatch, Dispatched, DispatchDone, TakeImmediates, RunImmediate,
       RanImmediate, ImmediatesDone, EndPass
  <2>9. QED
    BY <2>6, <2>7, <2>8 DEF Next
<1>3. QED
  BY <1>1, <1>2, QueuesKept DEF QueuesInv

LEMMA QueuesInvHolds == Spec => []QueuesInv
BY QueuesInit, QueuesNext, ClearInvHolds, TicksInvHolds, PTL DEF Spec

Polls == \E ready \in SUBSET Open, later \in 0 .. MaxTime : Poll(ready, later)

OvertakenOK == overtaken \subseteq Timer

\* Only a wait that ends overtakes timers, those that firingDue holds.
LEMMA OvertakenStep ==
    ASSUME [Next]_vars
    PROVE  IF Polls THEN overtaken' = overtaken \cup firing ELSE overtaken' = overtaken
<1> USE DEF history
<1>1. CASE UNCHANGED vars /\ ~Polls
  BY <1>1 DEF vars
<1>2. CASE Polls
  BY <1>2 DEF Polls, Poll
<1>3. CASE JavaScript /\ ~Polls
  BY <1>3 DEF JavaScript, QueueMicrotask, NextTick, SetImmediate, Return, SetTimer, ClearTimer,
     UnrefTimer, ClearImmediate, RefImmediate, AddWatcher, CloseWatcher, RefWatcher, Listen, Await
<1>4. CASE (Drain \/ Main) /\ ~Polls
  BY <1>4 DEF Drain, DrainFrame, DrainTicks, DrainJob, DrainRetire, DrainReturn, RunTick, TicksReturn,
     Main
<1>5. CASE Loop /\ ~Polls
  BY <1>5 DEF Loop, RunFrame, RunDrain, RunReturn, RunAgain, Polls, FireTimer, FiredTimer, FireDone,
     Ready, Dispatch, Dispatched, DispatchDone, TakeImmediates, RunImmediate, RanImmediate,
     ImmediatesDone, EndPass
<1>6. QED
  BY <1>1, <1>2, <1>3, <1>4, <1>5 DEF Next

LEMMA OvertakenHolds == Spec => []OvertakenOK
<1>1. Init => OvertakenOK
  BY DEF Init, OvertakenOK
<1>2. ClearInv /\ OvertakenOK /\ [Next]_vars => OvertakenOK'
  <2> SUFFICES ASSUME ClearInv, OvertakenOK, [Next]_vars PROVE OvertakenOK'
    OBVIOUS
  <2>1. firing \subseteq Timer
    BY DEF ClearInv, TimersOK
  <2>2. overtaken' = overtaken \/ overtaken' = overtaken \cup firing
    BY OvertakenStep
  <2>3. QED
    BY <2>1, <2>2 DEF OvertakenOK
<1>3. QED
  BY <1>1, <1>2, ClearInvHolds, PTL DEF Spec

\* Every queue, registry and record keeps its type, for every value of the bounds and
\* any nesting of loops.  In particular drain_microtasks never pops an empty queue
\* and dispatchDepth_ is never decremented below zero.
THEOREM TypeCorrect == Spec => []TypeOK
<1>1. ClearInv /\ TicksInv /\ QueuesInv /\ SafeInv /\ OvertakenOK => TypeOK
  <2> SUFFICES ASSUME ClearInv, TicksInv, QueuesInv, SafeInv, OvertakenOK PROVE TypeOK
    OBVIOUS
  <2>1. depth \in Nat
    BY TopSafe
  <2>2. stack \in Seq(Frame)
    BY DEF ClearInv, ImmsOK, GoodStack
  <2>3. /\ timers \in [Timer -> [armed : BOOLEAN, due : Nat, every : Nat,
                                 repeats : BOOLEAN, ref : BOOLEAN]]
        /\ firing \subseteq Timer /\ now \in Nat
    BY DEF ClearInv, TimersOK, TimerEntry
  <2>4. imms \in [Imm -> [queued : BOOLEAN, ref : BOOLEAN]]
    BY DEF ClearInv, ImmsOK, ImmEntry
  <2>5. /\ ran \in [timer : [Timer -> Nat], immediate : [Imm -> Nat], task : [Task -> Nat]]
        /\ cleared \in [timer : SUBSET Timer, immediate : SUBSET Imm]
    BY DEF ClearInv, RecordsOK
  <2>6. draining \in BOOLEAN
    BY DEF TicksInv
  <2>7. QED
    BY <2>1, <2>2, <2>3, <2>4, <2>5, <2>6 DEF TypeOK, QueuesInv, OvertakenOK
<1>2. QED
  BY <1>1, ClearInvHolds, TicksInvHolds, QueuesInvHolds, SafeInvHolds, OvertakenHolds, PTL

----------------
(***************************************************************************)
(* Why no timer is lost.  fireDue takes timers from the registry into      *)
(* firingDue, and the pass that runs it still has to look at each of them. *)
(* There is one firingDue for all loops, and it belongs to the innermost   *)
(* loop that is firing: a loop inside a timer callback overwrites it, and  *)
(* what it still held is overtaken.                                        *)
(***************************************************************************)
Firing == {"fire", "fired"}

IsFiring(f) == f.fn = "run" /\ f.pc \in Firing
Above(s, k) == \A l \in k + 1 .. Len(s) : ~IsFiring(s[l])

\* The innermost firing loop of stack s has still to look at the timers F.
Fires(s, F) ==
    \A t \in F : \E k \in 1 .. Len(s) :
        IsFiring(s[k]) /\ Above(s, k) /\ \E e \in s[k].due : e.id = t

TimerPlace(t) ==
    /\ ~timers[t].repeats => /\ ran.timer[t] <= 1
                             /\ timers[t].armed => ran.timer[t] = 0 /\ t \notin firing
                             /\ t \in firing => ran.timer[t] = 0
    /\ t > made.timer => ~timers[t].armed /\ t \notin firing /\ ran.timer[t] = 0
    /\ t <= made.timer =>
         \/ timers[t].armed \/ t \in cleared.timer \/ t \in overtaken
         \/ ~timers[t].repeats /\ (t \in firing \/ ran.timer[t] = 1)

TimersInv == Fires(stack, firing) /\ \A t \in Timer : TimerPlace(t)

\* Only five steps move a timer.
LEMMA QuietTimers ==
    ASSUME ClearInv, [Next]_vars, \A d \in {0, 1}, r \in BOOLEAN : ~SetTimer(d, r),
           \A t \in Timer : ~ClearTimer(t), ~Polls, ~FireTimer, ~FireDone
    PROVE  /\ ran'.timer = ran.timer /\ made'.timer = made.timer /\ firing' = firing
           /\ \A t \in Timer : /\ timers'[t].armed = timers[t].armed
                               /\ timers'[t].repeats = timers[t].repeats
           /\ cleared'.timer = cleared.timer
<1>0. RecordsOK /\ timers \in [Timer -> TimerEntry] /\ made \in Made
  BY DEF ClearInv, TimersOK, RecordsOK
<1> USE DEF history, clocks
<1>1. ran'.timer = ran.timer
  <2>1. \/ ran' = ran \/ \E x : ran' = [ran EXCEPT !.task[x] = @ + 1]
        \/ \E x : ran' = [ran EXCEPT !.immediate[x] = @ + 1]
    <3>1. CASE UNCHANGED vars
      BY <3>1 DEF vars
    <3>2. CASE JavaScript
      BY <3>2 DEF JavaScript, QueueMicrotask, NextTick, SetImmediate, Return, SetTimer, ClearTimer,
         UnrefTimer, ClearImmediate, RefImmediate, AddWatcher, CloseWatcher, RefWatcher, Listen, Await
    <3>3. CASE Drain
      BY <3>3 DEF Drain, DrainTicks, DrainJob, DrainRetire, DrainReturn, RunTick, TicksReturn
    <3>4. CASE Main
      BY <3>4 DEF Main
    <3>5. CASE Loop
      BY <3>5 DEF Loop, RunDrain, RunReturn, RunAgain, Polls, FiredTimer, Ready,
         Dispatch, Dispatched, DispatchDone, TakeImmediates, RunImmediate, RanImmediate,
         ImmediatesDone, EndPass
    <3>6. QED
      BY <3>1, <3>2, <3>3, <3>4, <3>5 DEF Next
  <2>2. QED
    BY <1>0, <2>1 DEF RecordsOK
<1>2. /\ cleared'.timer = cleared.timer /\ made'.timer = made.timer /\ firing' = firing
      /\ \A t \in Timer : /\ timers'[t].armed = timers[t].armed
                          /\ timers'[t].repeats = timers[t].repeats
  <2>1. CASE UNCHANGED vars
    BY <2>1 DEF vars
  <2>2. CASE JavaScript
    <3>1. CASE QueueMicrotask \/ NextTick
      <4> DEFINE j == made.task + 1
      <4>1. /\ j \in Task /\ made' = [made EXCEPT !.task = j, !.call = @ + 1]
            /\ UNCHANGED <<timers, firing, ran, cleared>>
        BY <3>1 DEF QueueMicrotask, NextTick
      <4>2. j \in Nat
        BY <4>1, Bounds
      <4> HIDE DEF j
      <4>3. QED
        BY <1>0, <4>1, <4>2, CountTask
    <3>2. CASE SetImmediate
      BY <1>0, <3>2 DEF SetImmediate, Made
    <3>3. ASSUME NEW i \in Imm, ClearImmediate(i)
          PROVE  /\ UNCHANGED <<timers, firing>> /\ made'.timer = made.timer
                 /\ cleared'.timer = cleared.timer
      BY <1>0, <3>3 DEF ClearImmediate, Made, RecordsOK
    <3>4. ASSUME NEW t \in Timer, UnrefTimer(t)
          PROVE  /\ UNCHANGED <<cleared, firing>> /\ made'.timer = made.timer
                 /\ \A u \in Timer : /\ timers'[u].armed = timers[u].armed
                                     /\ timers'[u].repeats = timers[u].repeats
      BY <1>0, <3>4 DEF UnrefTimer, Made, TimerEntry
    <3>5. ASSUME \/ Return \/ \E t \in Timer : Await(t)
                 \/ \E i \in Imm, r \in BOOLEAN : RefImmediate(i, r)
                 \/ \E w \in Watcher : AddWatcher(w) \/ CloseWatcher(w) \/ RefWatcher(w) \/ Listen(w)
          PROVE  UNCHANGED <<timers, firing, cleared>> /\ made'.timer = made.timer
      BY <1>0, <3>5 DEF Return, Await, RefImmediate, AddWatcher, CloseWatcher, RefWatcher, Listen, Made
    <3>6. QED
      BY <2>2, <3>1, <3>2, <3>3, <3>4, <3>5 DEF JavaScript
  <2>3. CASE Drain \/ Main
    BY <2>3 DEF Drain, DrainFrame, DrainTicks, DrainJob, DrainRetire, DrainReturn, RunTick,
       TicksReturn, Main
  <2>4. CASE Loop
    BY <2>4 DEF Loop, RunFrame, RunDrain, RunReturn, RunAgain, Polls, FiredTimer,
       Ready, Dispatch, Dispatched, DispatchDone, TakeImmediates, RunImmediate, RanImmediate,
       ImmediatesDone, EndPass
  <2>5. QED
    BY <2>1, <2>2, <2>3, <2>4 DEF Next
<1>3. QED
  BY <1>1, <1>2

LEMMA SameTimer ==
    ASSUME NEW t \in Timer, TimerPlace(t),
           timers'[t].armed = timers[t].armed, timers'[t].repeats = timers[t].repeats,
           ran'.timer[t] = ran.timer[t], t \in firing' <=> t \in firing,
           t <= made'.timer <=> t <= made.timer, t > made'.timer <=> t > made.timer,
           t \in cleared'.timer <=> t \in cleared.timer, t \in overtaken => t \in overtaken'
    PROVE  TimerPlace(t)'
BY DEF TimerPlace

\* z keeps the frame k of s, at the same timers, and nothing fires above it.
Keeps(s, z, k) ==
    /\ z \in Seq(Frame) /\ k \in 1 .. Len(z)
    /\ z[k].fn = s[k].fn /\ z[k].pc = s[k].pc /\ z[k].due = s[k].due
    /\ Above(z, k)

LEMMA KeepsPush ==
    ASSUME NEW s, NEW z, NEW k, Keeps(s, z, k), NEW g \in Frame, ~IsFiring(g)
    PROVE  Keeps(s, Append(z, g), k)
<1> DEFINE y == Append(z, g)
           m == Len(z)
<1>1. z \in Seq(Frame) /\ m \in Nat /\ k \in 1 .. m /\ Above(z, k)
  BY DEF Keeps
<1>2. /\ y \in Seq(Frame) /\ Len(y) = m + 1 /\ y[m + 1] = g
      /\ \A l \in 1 .. m : y[l] = z[l]
  BY <1>1
<1> HIDE DEF y
<1>3. ASSUME NEW l \in k + 1 .. Len(y) PROVE ~IsFiring(y[l])
  <2>1. CASE l = m + 1
    BY <1>2, <2>1
  <2>2. CASE l # m + 1
    <3>1. l \in k + 1 .. m /\ l \in 1 .. m
      BY <1>1, <1>2, <1>3, <2>2
    <3>2. QED
      BY <1>1, <1>2, <3>1 DEF Above
  <2>3. QED
    BY <2>1, <2>2
<1>4. k \in 1 .. Len(y) /\ y[k] = z[k]
  BY <1>1, <1>2
<1>5. QED
  BY <1>2, <1>3, <1>4 DEF Keeps, Above, y

LEMMA KeepsTop ==
    ASSUME NEW n, IsTop(n), stack \in Seq(Frame), NEW k \in 1 .. n - 1, Above(stack, k),
           NEW f \in Frame, ~IsFiring(f)
    PROVE  Keeps(stack, [stack EXCEPT ![n] = f], k)
<1> DEFINE z == [stack EXCEPT ![n] = f]
<1>1. n = Len(stack) /\ n \in 1 .. n /\ n \in Nat
  BY DEF IsTop
<1>2. z \in Seq(Frame) /\ Len(z) = n /\ \A l \in 1 .. n : z[l] = IF l = n THEN f ELSE stack[l]
  BY <1>1
<1> HIDE DEF z
<1>3. k \in 1 .. n /\ k # n
  BY <1>1
<1>4. ASSUME NEW l \in k + 1 .. n PROVE ~IsFiring(z[l])
  <2>1. l \in 1 .. n
    BY <1>1, <1>3
  <2>2. CASE l = n
    BY <1>2, <2>1, <2>2
  <2>3. CASE l # n
    BY <1>1, <1>2, <2>1, <2>3 DEF Above
  <2>4. QED
    BY <2>2, <2>3
<1>5. QED
  BY <1>2, <1>3, <1>4 DEF Keeps, Above, z

\* What a step makes of the stack when the frame on top is not firing and does not
\* start to: no frame that fires comes or goes.
Calm(n) ==
    \/ stack' = Under
    \/ \E i : stack' = Without(i)
    \/ \E f \in Frame : ~IsFiring(f) /\ stack' = [stack EXCEPT ![n] = f]
    \/ \E f, g \in Frame : /\ ~IsFiring(f) /\ ~IsFiring(g)
                           /\ stack' = Append([stack EXCEPT ![n] = f], g)

LEMMA CalmStep ==
    ASSUME ClearInv, Next, ~IsFiring(Top), ~Polls, NEW n, n = Len(stack)
    PROVE  Calm(n)
<1>0. /\ stack \in Seq(Frame) /\ IsTop(n) /\ Top \in Frame /\ Top = stack[n]
      /\ n \in DOMAIN stack /\ stack = [stack EXCEPT ![n] = Top]
  <2>1. GoodStack(stack, cleared.immediate)
    BY DEF ClearInv, ImmsOK
  <2>2. Top \in Frame /\ Top = stack[n] /\ n \in DOMAIN stack
    BY <2>1, TopFields
  <2>3. stack \in Seq(Frame)
    BY <2>1 DEF GoodStack
  <2>4. QED
    BY <2>2, <2>3 DEF IsTop
<1>1. ASSUME NEW fn \in Fn, NEW pc \in Pc, fn # "run" \/ pc \notin Firing
      PROVE  NewFrame(fn, pc) \in Frame /\ ~IsFiring(NewFrame(fn, pc))
  <2>1. NewFrame(fn, pc).fn = fn /\ NewFrame(fn, pc).pc = pc
    BY DEF NewFrame
  <2>2. QED
    BY <1>1, <2>1, NewFrameType DEF IsFiring
<1>2. ASSUME NEW pc \in Pc, Top.fn # "run" \/ pc \notin Firing
      PROVE  \E f \in Frame : ~IsFiring(f) /\ Goto(pc) = [stack EXCEPT ![n] = f]
  <2> DEFINE f == [Top EXCEPT !.pc = pc]
  <2>1. f \in Frame /\ f.fn = Top.fn /\ f.pc = pc
    BY <1>0, PcField
  <2>2. Goto(pc) = [stack EXCEPT ![n] = f]
    BY <1>0 DEF Goto
  <2> HIDE DEF f
  <2>3. QED
    BY <1>2, <2>1, <2>2 DEF IsFiring
<1>3. ASSUME stack' = stack PROVE Calm(n)
  BY <1>0, <1>3 DEF Calm
<1>4. ASSUME NEW g \in Frame, ~IsFiring(g), stack' = Append(stack, g) PROVE Calm(n)
  BY <1>0, <1>4 DEF Calm
<1>5. ASSUME NEW pc \in Pc, Top.fn # "run" \/ pc \notin Firing,
             \/ stack' = Goto(pc)
             \/ \E g \in Frame : ~IsFiring(g) /\ stack' = Append(Goto(pc), g)
      PROVE  Calm(n)
  BY <1>2, <1>5 DEF Calm
<1>6. ASSUME NEW pc \in Pc, Top.fn # "run" \/ pc \notin Firing, EnterDrain(Goto(pc)) PROVE Calm(n)
  <2>1. NewFrame("drain", "loop") \in Frame /\ ~IsFiring(NewFrame("drain", "loop"))
    BY <1>1 DEF Fn, Pc
  <2>2. stack' = Goto(pc) \/ stack' = Append(Goto(pc), NewFrame("drain", "loop"))
    BY <1>6 DEF EnterDrain
  <2>3. QED
    BY <1>5, <1>6, <2>1, <2>2
<1>7. CASE JavaScript
  <2>1. CASE Return
    BY <2>1 DEF Return, Calm
  <2>2. ASSUME NEW i \in Imm, ClearImmediate(i) PROVE Calm(n)
    BY <2>2 DEF ClearImmediate, Without, Calm
  <2>3. ASSUME NEW t \in Timer, Await(t) PROVE Calm(n)
    <3> DEFINE h == NewFrame("run", "top")
               g == [h EXCEPT !.until = t]
    <3>1. stack' = Append(stack, g)
      BY <2>3 DEF Await
    <3>2. h \in Frame /\ h.fn = "run" /\ h.pc = "top" /\ t \in Nat
      BY NewFrameType, Bounds DEF NewFrame, Fn, Pc
    <3> HIDE DEF h
    <3>3. g \in Frame /\ g.pc = "top"
      BY <3>2 DEF Frame
    <3> HIDE DEF g
    <3>4. QED
      BY <1>4, <3>1, <3>3 DEF IsFiring, Firing
  <2>4. ASSUME NEW w \in Watcher, Listen(w) PROVE Calm(n)
    BY <1>1, <1>4, <2>4 DEF Listen, Fn, Pc, Firing
  <2>5. CASE JavaScript /\ stack' = stack
    BY <1>3, <2>5
  <2>6. QED
    BY <1>7, <2>1, <2>2, <2>3, <2>4, <2>5 DEF JavaScript, QueueMicrotask, NextTick, SetImmediate,
       SetTimer, ClearTimer, UnrefTimer, RefImmediate, AddWatcher, CloseWatcher, RefWatcher
<1>8. CASE Drain
  <2>1. /\ NewFrame("ticks", "loop") \in Frame /\ ~IsFiring(NewFrame("ticks", "loop"))
        /\ NewFrame("call", "job") \in Frame /\ ~IsFiring(NewFrame("call", "job"))
        /\ NewFrame("call", "tick") \in Frame /\ ~IsFiring(NewFrame("call", "tick"))
        /\ "final" \in Pc \ Firing /\ "retire" \in Pc \ Firing /\ "loop" \in Pc \ Firing
    BY <1>1 DEF Fn, Pc, Firing
  <2>2. CASE DrainTicks
    <3>1. \/ stack' = Append(Goto("final"), NewFrame("ticks", "loop"))
          \/ stack' = Append(stack, NewFrame("ticks", "loop"))
      BY <2>2 DEF DrainTicks
    <3>2. QED
      BY <1>4, <1>5, <2>1, <3>1
  <2>3. CASE DrainJob \/ DrainRetire
    <3>1. stack' = Append(Goto("retire"), NewFrame("call", "job")) \/ stack' = Goto("loop")
      BY <2>3 DEF DrainJob, DrainRetire, Call
    <3>2. QED
      BY <1>5, <2>1, <3>1
  <2>4. CASE DrainReturn \/ TicksReturn
    BY <2>4 DEF DrainReturn, TicksReturn, Calm
  <2>5. CASE RunTick
    BY <1>4, <2>1, <2>5 DEF RunTick, Call
  <2>6. QED
    BY <1>8, <2>2, <2>3, <2>4, <2>5 DEF Drain
<1>9. CASE Main
  <2>1. Top.fn # "run" /\ (\/ EnterDrain(Goto("run")) \/ EnterDrain(Goto("done"))
                           \/ stack' = Append(Goto("last"), NewFrame("run", "top")))
    BY <1>9 DEF Main
  <2>2. /\ "run" \in Pc /\ "done" \in Pc /\ "last" \in Pc
        /\ NewFrame("run", "top") \in Frame /\ ~IsFiring(NewFrame("run", "top"))
    BY <1>1 DEF Pc, Fn, Firing
  <2>3. QED
    BY <1>5, <1>6, <2>1, <2>2
<1>10. CASE Loop
  <2> USE DEF RunFrame, At
  <2>1. ~FireTimer /\ ~FiredTimer /\ ~FireDone
    BY DEF FireTimer, FiredTimer, FireDone, IsFiring, Firing
  <2>2. CASE RunDrain \/ DispatchDone \/ RanImmediate
    <3>1. EnterDrain(Goto("idle")) \/ EnterDrain(Goto("check")) \/ EnterDrain(Goto("imm"))
      BY <2>2 DEF RunDrain, DispatchDone, RanImmediate
    <3>2. {"idle", "check", "imm"} \subseteq Pc /\ {"idle", "check", "imm"} \cap Firing = {}
      BY DEF Pc, Firing
    <3>3. QED
      BY <1>6, <3>1, <3>2
  <2>3. CASE RunReturn \/ (Ready /\ stack' = Under) \/ (EndPass /\ stack' = Under)
    BY <2>3 DEF RunReturn, Calm
  <2>4. CASE \/ RunAgain \/ ImmediatesDone \/ (Ready /\ stack' # Under) \/ (EndPass /\ stack' # Under)
             \/ (TakeImmediates /\ stack' = Goto("end"))
    <3>1. stack' = Goto("top") \/ stack' = Goto("end") \/ stack' = Goto("dispatch")
      BY <2>4 DEF RunAgain, ImmediatesDone, Ready, EndPass
    <3>2. {"top", "end", "dispatch"} \subseteq Pc /\ {"top", "end", "dispatch"} \cap Firing = {}
      BY DEF Pc, Firing
    <3>3. QED
      BY <1>5, <3>1, <3>2
  <2>5. CASE Dispatched
    <3> DEFINE R == IF Stop THEN {} ELSE Top.ready
               f == [Top EXCEPT !.pc = "dispatch", !.ready = R]
    <3>1. stack' = [stack EXCEPT ![n] = f] /\ R \in SUBSET Watcher
      BY <1>0, <2>5 DEF Dispatched, Frame
    <3> HIDE DEF R
    <3>2. f \in Frame /\ f.pc = "dispatch"
      BY <1>0, <3>1 DEF Frame
    <3> HIDE DEF f
    <3>3. QED
      BY <3>1, <3>2 DEF Calm, IsFiring, Firing
  <2>6. CASE TakeImmediates /\ stack' = StartBatch(stack)
    <3> DEFINE D == {[id |-> i, at |-> 0] : i \in QueuedImms}
               f == [Top EXCEPT !.pc = "imm", !.pending = QueuedImms, !.due = D]
    <3>1. stack' = [stack EXCEPT ![n] = f]
      BY <1>0, <2>6 DEF StartBatch
    <3>2. QueuedImms \in SUBSET Imm /\ D \in SUBSET [id : Nat, at : Nat]
      BY Bounds DEF QueuedImms, Imm
    <3> HIDE DEF D
    <3>3. f \in Frame /\ f.pc = "imm"
      BY <1>0, <3>2 DEF Frame
    <3> HIDE DEF f
    <3>4. QED
      BY <3>1, <3>3 DEF Calm, IsFiring, Firing
  <2>7. CASE RunImmediate
    <3>1. PICK f \in Frame : Running(f, n)
      BY <1>0, <2>7, ImmediateShape
    <3>2. /\ f.pc \in {"imm", "ranimm"}
          /\ \/ stack' = [stack EXCEPT ![n] = f]
             \/ stack' = Append([stack EXCEPT ![n] = f], NewFrame("call", "immediate"))
      BY <3>1 DEF Running
    <3>3. /\ ~IsFiring(f)
          /\ NewFrame("call", "immediate") \in Frame /\ ~IsFiring(NewFrame("call", "immediate"))
      BY <1>1, <3>2 DEF Fn, Pc, IsFiring, Firing
    <3>4. QED
      BY <3>2, <3>3 DEF Calm
  <2>8. ASSUME NEW w \in Watcher, Dispatch(w) PROVE Calm(n)
    <3>1. PICK f, g \in Frame : Dispatching(f, g, w, n)
      BY <1>0, <2>8, DispatchShape
    <3>2. /\ f.pc \in {"dispatch", "dispatched"} /\ g.fn = "call"
          /\ \/ stack' = [stack EXCEPT ![n] = f]
             \/ stack' = Append([stack EXCEPT ![n] = f], g)
      BY <3>1 DEF Dispatching
    <3>3. ~IsFiring(f) /\ ~IsFiring(g)
      BY <3>2 DEF IsFiring, Firing
    <3>4. QED
      BY <3>2, <3>3 DEF Calm
  <2>9. QED
    BY <1>10, <2>1, <2>2, <2>3, <2>4, <2>5, <2>6, <2>7, <2>8 DEF Loop, Polls, TakeImmediates
<1>11. QED
  BY <1>7, <1>8, <1>9, <1>10 DEF Next

\* The loop that is firing stays where it is, at the same timers, while anything else
\* happens.
LEMMA FiresKept ==
    ASSUME ClearInv, Fires(stack, firing), [Next]_vars, ~Polls, ~FireTimer, ~FireDone
    PROVE  Fires(stack', firing)
<1> DEFINE n == Len(stack)
<1> SUFFICES ASSUME NEW t \in firing
             PROVE  \E k \in 1 .. Len(stack') :
                      /\ IsFiring(stack'[k]) /\ Above(stack', k)
                      /\ \E e \in stack'[k].due : e.id = t
  BY DEF Fires
<1>0. PICK k \in 1 .. n : IsFiring(stack[k]) /\ Above(stack, k) /\ \E e \in stack[k].due : e.id = t
  BY DEF Fires
<1>1. /\ stack \in Seq(Frame) /\ n \in Nat /\ Top \in Frame /\ n \in DOMAIN stack
      /\ Top = stack[n] /\ GoodStack(stack, cleared.immediate) /\ n \in 1 .. n /\ IsTop(n)
  <2>1. GoodStack(stack, cleared.immediate)
    BY DEF ClearInv, ImmsOK
  <2>2. stack \in Seq(Frame) /\ n \in Nat /\ n \in 1 .. n
    BY <2>1 DEF GoodStack
  <2>3. QED
    BY <2>1, <2>2, TopFields DEF IsTop
<1>2. ASSUME Keeps(stack, stack', k)
      PROVE  \E l \in 1 .. Len(stack') :
               /\ IsFiring(stack'[l]) /\ Above(stack', l)
               /\ \E e \in stack'[l].due : e.id = t
  BY <1>0, <1>2 DEF Keeps, IsFiring
<1>3. CASE UNCHANGED vars
  <2>1. stack' = stack
    BY <1>3 DEF vars
  <2>2. Fires(stack', firing)
    BY <2>1
  <2>3. QED
    BY <2>2 DEF Fires
<1>4. CASE Next /\ k = n
  <2>1. Top.fn = "run" /\ Top.pc \in {"fire", "fired"}
    BY <1>0, <1>1, <1>4 DEF IsFiring, Firing
  <2>2. ~JavaScript /\ ~Drain /\ ~Main
    BY <2>1 DEF JavaScript, JavaScriptCall, InJavaScript, At, QueueMicrotask, NextTick, SetImmediate,
       Return, SetTimer, ClearTimer, UnrefTimer, ClearImmediate, RefImmediate, AddWatcher,
       CloseWatcher, RefWatcher, Listen, Await, Drain, DrainFrame, DrainTicks, DrainJob, DrainRetire,
       DrainReturn, RunTick, TicksReturn, Main
  <2>3. FiredTimer
    BY <1>4, <2>1, <2>2 DEF Next, Loop, RunFrame, At, RunDrain, RunReturn, RunAgain, Polls,
       Ready, Dispatch, Dispatched, DispatchDone, TakeImmediates, RunImmediate, RanImmediate,
       ImmediatesDone, EndPass
  <2> DEFINE f == [Top EXCEPT !.pc = "fire"]
             z == [stack EXCEPT ![n] = f]
  <2>4. EnterDrain(z)
    BY <1>1, <2>3 DEF FiredTimer, Goto
  <2>5. f \in Frame /\ f.fn = "run" /\ f.pc = "fire" /\ f.due = Top.due
    BY <1>1, <2>1 DEF Frame
  <2> HIDE DEF f
  <2>6. z \in Seq(Frame) /\ Len(z) = n /\ z[n] = f
    BY <1>1, <2>5
  <2> HIDE DEF z
  <2>7. Keeps(z, z, n) /\ IsFiring(z[n]) /\ \E e \in z[n].due : e.id = t
    <3>1. Above(z, n)
      BY <1>1, <2>6 DEF Above
    <3>2. n \in 1 .. Len(z)
      BY <1>1, <2>6
    <3>3. IsFiring(z[n]) /\ \E e \in z[n].due : e.id = t
      BY <1>0, <1>1, <1>4, <2>5, <2>6 DEF IsFiring, Firing
    <3>4. QED
      BY <2>6, <3>1, <3>2, <3>3 DEF Keeps
  <2>8. Keeps(z, stack', n)
    <3>1. NewFrame("drain", "loop") \in Frame /\ NewFrame("drain", "loop").fn = "drain"
      BY NewFrameType DEF Fn, Pc
    <3>2. Keeps(z, Append(z, NewFrame("drain", "loop")), n)
      BY <2>7, <3>1, KeepsPush DEF IsFiring
    <3>3. QED
      BY <2>4, <2>7, <3>2 DEF EnterDrain
  <2>9. QED
    BY <2>7, <2>8 DEF Keeps, IsFiring
<1>5. CASE Next /\ k # n
  <2>1. k \in 1 .. n - 1 /\ n \in k + 1 .. n
    BY <1>1, <1>5
  <2>2. ~IsFiring(Top)
    BY <1>0, <1>1, <2>1 DEF Above
  <2>3. Calm(n)
    BY <1>5, <2>2, CalmStep
  <2>4. CASE stack' = Under
    <3> DEFINE m == n - 1
    <3>1. /\ Under \in Seq(Frame) /\ Len(Under) = m /\ m \in Nat /\ n = m + 1
          /\ \A l \in 1 .. m : Under[l] = stack[l]
      BY <1>1, PopShape DEF Under
    <3>2. k \in 1 .. m /\ \A l \in k + 1 .. m : l \in k + 1 .. n /\ l \in 1 .. m
      BY <1>1, <2>1, <3>1
    <3> HIDE DEF m
    <3>3. Above(Under, k) /\ Under[k] = stack[k]
      BY <1>0, <3>1, <3>2 DEF Above
    <3>4. QED
      BY <1>2, <2>4, <3>1, <3>2, <3>3 DEF Keeps
  <2>5. ASSUME NEW i, stack' = Without(i) PROVE Keeps(stack, stack', k)
    <3>1. Without(i) \in Seq(Frame) /\ Len(Without(i)) = n
      <4>1. GoodStack(Without(i), cleared.immediate \cup {i})
        BY <1>1, WithoutGood
      <4>2. Without(i) \in Seq(Frame)
        BY <4>1 DEF GoodStack
      <4>3. DOMAIN Without(i) = 1 .. n
        BY <1>1 DEF Without
      <4>4. QED
        BY <1>1, <4>2, <4>3
    <3>2. ASSUME NEW l \in 1 .. n
          PROVE  /\ Without(i)[l].fn = stack[l].fn /\ Without(i)[l].pc = stack[l].pc
                 /\ Without(i)[l].due = stack[l].due
      <4>1. l \in DOMAIN stack /\ stack[l] \in Frame
        BY <1>1
      <4>2. Without(i)[l] = [stack[l] EXCEPT !.pending = @ \ {i}]
        BY <4>1 DEF Without
      <4>3. QED
        BY <4>1, <4>2 DEF Frame
    <3>3. \A l \in k + 1 .. n : l \in 1 .. n
      BY <1>1
    <3>4. Above(Without(i), k)
      BY <1>0, <3>1, <3>2, <3>3 DEF Above, IsFiring
    <3>5. QED
      BY <2>5, <3>1, <3>2, <3>4 DEF Keeps
  <2>6. ASSUME NEW f \in Frame, ~IsFiring(f) PROVE Keeps(stack, [stack EXCEPT ![n] = f], k)
    BY <1>0, <1>1, <2>1, <2>6, KeepsTop
  <2>7. ASSUME NEW f \in Frame, NEW g \in Frame, ~IsFiring(f), ~IsFiring(g),
               stack' = Append([stack EXCEPT ![n] = f], g)
        PROVE  Keeps(stack, stack', k)
    BY <2>6, <2>7, KeepsPush
  <2>8. QED
    BY <1>2, <2>3, <2>4, <2>5, <2>6, <2>7 DEF Calm
<1>6. QED
  BY <1>1, <1>3, <1>4, <1>5

\* Below the frame on top, firingDue holds nothing that this frame, firing, does not.
LEMMA FiringOnTop ==
    ASSUME ClearInv, Fires(stack, firing), IsFiring(Top)
    PROVE  \A t \in firing : \E e \in Top.due : e.id = t
<1> SUFFICES ASSUME NEW t \in firing PROVE \E e \in Top.due : e.id = t
  OBVIOUS
<1>1. GoodStack(stack, cleared.immediate)
  BY DEF ClearInv, ImmsOK
<1>2. Top = stack[Len(stack)] /\ Len(stack) \in Nat
  <2>1. Len(stack) \in Nat
    BY <1>1 DEF GoodStack
  <2>2. QED
    BY <1>1, <2>1, TopFields
<1>3. PICK k \in 1 .. Len(stack) : Above(stack, k) /\ \E e \in stack[k].due : e.id = t
  BY DEF Fires
<1>4. CASE k = Len(stack)
  BY <1>2, <1>3, <1>4
<1>5. CASE k # Len(stack)
  <2>1. Len(stack) \in k + 1 .. Len(stack)
    BY <1>2, <1>5
  <2>2. QED
    BY <1>2, <1>3, <2>1 DEF Above
<1>6. QED
  BY <1>4, <1>5

LEMMA TimersSet ==
    ASSUME ClearInv, TimersInv, NEW d \in {0, 1}, NEW r \in BOOLEAN, SetTimer(d, r)
    PROVE  \A t \in Timer : TimerPlace(t)'
<1> DEFINE x == made.timer + 1
           e == [armed |-> TRUE, due |-> now + d, every |-> d, repeats |-> r, ref |-> TRUE]
<1>1. /\ x \in Timer /\ timers' = [timers EXCEPT ![x] = e]
      /\ made' = [made EXCEPT !.timer = x, !.call = @ + 1]
      /\ UNCHANGED <<firing, ran, cleared, overtaken>>
  BY DEF SetTimer, history
<1>2. made.timer \in Nat /\ made'.timer = x /\ timers \in [Timer -> TimerEntry] /\ x > made.timer
  BY <1>1 DEF ClearInv, RecordsOK, Made, TimersOK
<1>3. e.armed
  OBVIOUS
<1> HIDE DEF e
<1>4. ASSUME NEW t \in Timer PROVE TimerPlace(t)'
  <2>1. CASE t = x
    <3>1. ran.timer[t] = 0 /\ t \notin firing
      BY <1>2, <2>1, <1>4 DEF TimersInv, TimerPlace
    <3>2. timers'[t].armed /\ ~(t > made'.timer)
      BY <1>1, <1>2, <1>3, <2>1
    <3>3. QED
      BY <1>1, <3>1, <3>2 DEF TimerPlace
  <2>2. CASE t # x
    <3>1. timers'[t] = timers[t]
      BY <1>1, <1>2, <2>2
    <3>2. (t <= made'.timer <=> t <= made.timer) /\ (t > made'.timer <=> t > made.timer)
      BY <1>2, <2>2, Bounds
    <3>3. TimerPlace(t)
      BY DEF TimersInv
    <3> HIDE DEF x
    <3>4. QED
      BY <1>1, <3>1, <3>2, <3>3, SameTimer
  <2>3. QED
    BY <2>1, <2>2
<1>5. QED
  BY <1>4

LEMMA TimersClear ==
    ASSUME ClearInv, TimersInv, NEW x \in Timer, ClearTimer(x)
    PROVE  (\A t \in Timer : TimerPlace(t)') /\ firing' \subseteq firing
<1>1. /\ timers' = [timers EXCEPT ![x].armed = FALSE] /\ firing' = firing \ {x}
      /\ made' = [made EXCEPT !.call = @ + 1] /\ x <= made.timer
      /\ cleared' = [cleared EXCEPT !.timer = @ \cup {x}]
      /\ UNCHANGED ran /\ UNCHANGED overtaken
  BY DEF ClearTimer
<1>2. /\ made.timer \in Nat /\ made'.timer = made.timer /\ timers \in [Timer -> TimerEntry]
      /\ cleared'.timer = cleared.timer \cup {x}
  BY <1>1 DEF ClearInv, RecordsOK, Made, TimersOK
<1>3. ASSUME NEW t \in Timer PROVE TimerPlace(t)'
  <2>0. TimerPlace(t)
    BY DEF TimersInv
  <2>1. CASE t = x
    <3>1. /\ ~timers'[t].armed /\ timers'[t].repeats = timers[t].repeats
          /\ t \notin firing' /\ t \in cleared'.timer
      BY <1>1, <1>2, <2>1 DEF TimerEntry
    <3>2. ~(t > made'.timer)
      BY <1>1, <1>2, <2>1, Bounds
    <3>3. QED
      BY <1>1, <2>0, <3>1, <3>2 DEF TimerPlace
  <2>2. CASE t # x
    <3>1. timers'[t] = timers[t]
      BY <1>1, <1>2, <2>2
    <3>2. (t \in cleared'.timer <=> t \in cleared.timer) /\ (t \in firing' <=> t \in firing)
      BY <1>1, <1>2, <2>2
    <3>3. QED
      BY <1>1, <1>2, <2>0, <3>1, <3>2, SameTimer
  <2>3. QED
    BY <2>1, <2>2
<1>4. QED
  BY <1>1, <1>3

\* A wait that ends collects what is due, and overtakes what firingDue held.
LEMMA TimersPoll ==
    ASSUME ClearInv, TimersInv,
           NEW ready \in SUBSET Open, NEW later \in 0 .. MaxTime, Poll(ready, later)
    PROVE  TimersInv'
<1> DEFINE D == DueAt(later)
           due == {[id |-> t, at |-> timers[t].due] : t \in D}
           n == Len(stack)
<1>1. /\ timers' = FireDue(later) /\ firing' = D /\ UNCHANGED <<made, ran, cleared>>
      /\ overtaken' = overtaken \cup firing
      /\ Top.fn = "run" /\ Top.pc = "idle"
  BY DEF Poll, At
<1>2. Top = stack[n] /\ stack \in Seq(Frame) /\ Top \in Frame /\ n \in Nat /\ n \in 1 .. n
  <2>1. GoodStack(stack, cleared.immediate)
    BY DEF ClearInv, ImmsOK
  <2>2. stack \in Seq(Frame) /\ n \in Nat /\ n \in 1 .. n
    BY <2>1 DEF GoodStack
  <2>3. QED
    BY <2>1, <2>2, TopFields
<1>4. timers \in [Timer -> TimerEntry] /\ D = {t \in Timer : timers[t].armed /\ timers[t].due <= later}
  BY DEF ClearInv, TimersOK, DueAt
<1>5. Fires(stack', D)
  <2> DEFINE f == [Top EXCEPT !.pc = "fire", !.due = due, !.ready = ready,
                              !.alive = ReferencedWatchers # {}]
  <2>1. stack' = [stack EXCEPT ![n] = f]
    BY <1>2 DEF Poll
  <2>2. f.fn = "run" /\ f.pc = "fire" /\ f.due = due
    BY <1>1, <1>2 DEF Frame
  <2> HIDE DEF f
  <2>3. Len(stack') = n /\ stack'[n] = f
    BY <1>2, <2>1
  <2>4. ASSUME NEW t \in D PROVE \E e \in due : e.id = t
    <3>1. [id |-> t, at |-> timers[t].due] \in due /\ [id |-> t, at |-> timers[t].due].id = t
      OBVIOUS
    <3>2. QED
      BY <3>1
  <2>5. Above(stack', n)
    BY <1>2, <2>3 DEF Above
  <2>6. IsFiring(stack'[n])
    BY <2>2, <2>3 DEF IsFiring, Firing
  <2>7. QED
    BY <1>2, <2>2, <2>3, <2>4, <2>5, <2>6 DEF Fires
<1>6. ASSUME NEW t \in Timer PROVE TimerPlace(t)'
  <2>0. TimerPlace(t)
    BY DEF TimersInv
  <2>1. /\ timers'[t].repeats = timers[t].repeats
        /\ t \notin D => timers'[t].armed = timers[t].armed
        /\ t \in D /\ timers[t].repeats => timers'[t].armed = timers[t].armed
        /\ t \in D /\ ~timers[t].repeats => ~timers'[t].armed
    BY <1>1, <1>4 DEF FireDue, TimerEntry
  <2> HIDE DEF D
  <2>2. CASE t \notin D
    <3>1. t \notin firing' /\ ran'.timer[t] = ran.timer[t] /\ made' = made
          /\ (t \in cleared'.timer <=> t \in cleared.timer)
          /\ (t \in overtaken \/ t \in firing => t \in overtaken')
      BY <1>1, <2>2
    <3>2. QED
      BY <2>0, <2>1, <2>2, <3>1 DEF TimerPlace
  <2>3. CASE t \in D
    <3>1. timers[t].armed
      BY <1>4, <2>3
    <3>2. ~(t > made.timer)
      BY <2>0, <3>1 DEF TimerPlace
    <3>3. ~timers[t].repeats => ran.timer[t] = 0
      BY <2>0, <3>1 DEF TimerPlace
    <3>4. CASE timers[t].repeats
      BY <1>1, <2>1, <2>3, <3>1, <3>2, <3>4 DEF TimerPlace
    <3>5. CASE ~timers[t].repeats
      <4>1. /\ ~timers'[t].repeats /\ ~timers'[t].armed /\ t \in firing'
            /\ ran'.timer[t] = 0 /\ ~(t > made'.timer)
        BY <1>1, <2>1, <2>3, <3>2, <3>3, <3>5
      <4>2. QED
        BY <4>1 DEF TimerPlace
    <3>6. QED
      BY <3>4, <3>5
  <2>4. QED
    BY <2>2, <2>3
<1>7. QED
  BY <1>1, <1>5, <1>6 DEF TimersInv

\* The next timer of the pass starts, once, unless it was cleared meanwhile.
LEMMA TimersFired ==
    ASSUME ClearInv, TimersInv, FireTimer
    PROVE  TimersInv'
<1> DEFINE x == NextDue
           due == Top.due \ {First(Top.due)}
           f == [Top EXCEPT !.due = due]
           g == [f EXCEPT !.pc = "fired"]
           n == Len(stack)
<1>1. /\ Top.fn = "run" /\ Top.pc = "fire" /\ UNCHANGED <<timers, made, cleared, overtaken>>
      /\ \/ /\ x \in firing /\ firing' = firing \ {x}
            /\ stack' = Append([Rest EXCEPT ![n].pc = "fired"], NewFrame("call", "timer"))
            /\ ran' = [ran EXCEPT !.timer[x] = @ + 1]
         \/ x \notin firing /\ firing' = firing /\ ran' = ran /\ stack' = Rest
  BY DEF FireTimer, RunFrame, At, Call
<1>2. /\ Top = stack[n] /\ stack \in Seq(Frame) /\ Top \in Frame /\ n \in DOMAIN stack
      /\ n \in Nat /\ n \in 1 .. n
  <2>1. GoodStack(stack, cleared.immediate)
    BY DEF ClearInv, ImmsOK
  <2>2. stack \in Seq(Frame) /\ n \in Nat /\ n \in 1 .. n
    BY <2>1 DEF GoodStack
  <2>3. QED
    BY <2>1, <2>2, TopFields
<1>3. due \in SUBSET [id : Nat, at : Nat] /\ \A e \in Top.due : e.id # x => e \in due
  BY <1>2 DEF Frame, NextDue
<1>4. Rest = [stack EXCEPT ![n] = f] /\ [Rest EXCEPT ![n].pc = "fired"] = [stack EXCEPT ![n] = g]
  BY <1>2 DEF Rest
<1> HIDE DEF due
<1>5. f \in Frame /\ f.fn = "run" /\ f.pc = "fire" /\ f.due = due
  BY <1>1, <1>2, <1>3 DEF Frame
<1>6. g \in Frame /\ g.fn = "run" /\ g.pc = "fired" /\ g.due = due
  <2> HIDE DEF f
  <2>1. QED
    BY <1>5 DEF Frame
<1> HIDE DEF f, g
<1>7. ASSUME NEW h \in Frame, NEW z, z = [stack EXCEPT ![n] = h]
      PROVE  z \in Seq(Frame) /\ Len(z) = n /\ z[n] = h
  BY <1>2, <1>7, ExceptSeq
<1>8. /\ n \in 1 .. Len(stack') /\ (stack'[n] = f \/ stack'[n] = g)
      /\ Above(stack', n)
  <2>1. CASE stack' = Rest
    <3>1. Len(stack') = n /\ stack'[n] = f
      BY <1>4, <1>5, <1>7, <2>1
    <3>2. QED
      BY <1>2, <3>1 DEF Above
  <2>2. CASE stack' = Append([Rest EXCEPT ![n].pc = "fired"], NewFrame("call", "timer"))
    <3> DEFINE z == [stack EXCEPT ![n] = g]
               c == NewFrame("call", "timer")
    <3>1. z \in Seq(Frame) /\ Len(z) = n /\ z[n] = g /\ stack' = Append(z, c)
      BY <1>2, <1>4, <1>6, <1>7, <2>2
    <3>2. c.fn = "call"
      BY DEF NewFrame
    <3> HIDE DEF z, c
    <3>3. /\ Len(stack') = n + 1 /\ stack'[n] = g /\ stack'[n + 1] = c
      BY <1>2, <3>1
    <3>4. \A l \in n + 1 .. n + 1 : l = n + 1
      BY <1>2
    <3>5. Above(stack', n)
      BY <3>2, <3>3, <3>4 DEF Above, IsFiring
    <3>6. QED
      BY <1>2, <3>3, <3>5
  <2>3. QED
    BY <1>1, <2>1, <2>2
<1>9. firing' \subseteq firing /\ x \notin firing'
  BY <1>1
<1>10. Fires(stack', firing')
  <2> SUFFICES ASSUME NEW t \in firing' PROVE \E e \in due : e.id = t
    BY <1>5, <1>6, <1>8 DEF Fires, IsFiring, Firing
  <2>1. PICK e \in Top.due : e.id = t
    BY <1>1, <1>9, FiringOnTop DEF TimersInv, IsFiring, Firing
  <2>2. QED
    BY <1>3, <1>9, <2>1
<1>11. ASSUME NEW t \in Timer PROVE TimerPlace(t)'
  <2> HIDE DEF x
  <2>0. TimerPlace(t)
    BY DEF TimersInv
  <2>1. CASE t \notin firing \/ t # x
    <3>1. (t \in firing' <=> t \in firing) /\ ran'.timer[t] = ran.timer[t]
      BY <1>1, <2>1 DEF ClearInv, RecordsOK
    <3>2. QED
      BY <1>1, <2>0, <3>1, SameTimer
  <2>2. CASE t \in firing /\ t = x
    <3>1. firing' = firing \ {t} /\ ran'.timer[t] = ran.timer[t] + 1
      BY <1>1, <2>2 DEF ClearInv, RecordsOK
    <3>2. ~(t > made.timer) /\ (~timers[t].repeats => ran.timer[t] = 0 /\ ~timers[t].armed)
      BY <2>0, <2>2 DEF TimerPlace
    <3>3. timers[t].repeats /\ t <= made.timer =>
            timers[t].armed \/ t \in cleared.timer \/ t \in overtaken
      BY <2>0 DEF TimerPlace
    <3>4. QED
      BY <1>1, <3>1, <3>2, <3>3 DEF TimerPlace
  <2>3. QED
    BY <2>1, <2>2
<1>12. QED
  BY <1>10, <1>11 DEF TimersInv

LEMMA TimersNext ==
    ASSUME ClearInv, TimersInv, [Next]_vars
    PROVE  TimersInv'
<1>1. CASE Polls
  BY <1>1, TimersPoll DEF Polls
<1>2. CASE FireTimer
  BY <1>2, TimersFired
<1>3. CASE FireDone
  <2>1. /\ IsFiring(Top) /\ Top.due = {} /\ firing' = {}
        /\ UNCHANGED <<timers, made, ran, cleared, overtaken>>
    BY <1>3 DEF FireDone, RunFrame, At, IsFiring, Firing
  <2>2. firing = {}
    BY <2>1, FiringOnTop DEF TimersInv
  <2>3. \A t \in Timer : TimerPlace(t)'
    BY <2>1, <2>2, SameTimer DEF TimersInv
  <2>4. QED
    BY <2>1, <2>3 DEF TimersInv, Fires
<1>4. ASSUME ~Polls, ~FireTimer, ~FireDone, firing' \subseteq firing,
             \A t \in Timer : TimerPlace(t)'
      PROVE  TimersInv'
  <2>1. Fires(stack', firing)
    BY <1>4, FiresKept DEF TimersInv
  <2>2. QED
    BY <1>4, <2>1 DEF TimersInv, Fires
<1>5. CASE (\E d \in {0, 1}, r \in BOOLEAN : SetTimer(d, r)) /\ ~Polls /\ ~FireTimer /\ ~FireDone
  <2>1. firing' = firing
    BY <1>5 DEF SetTimer
  <2>2. QED
    BY <1>4, <1>5, <2>1, TimersSet
<1>6. CASE (\E t \in Timer : ClearTimer(t)) /\ ~Polls /\ ~FireTimer /\ ~FireDone
  BY <1>4, <1>6, TimersClear
<1>7. CASE /\ \A d \in {0, 1}, r \in BOOLEAN : ~SetTimer(d, r)
           /\ \A t \in Timer : ~ClearTimer(t)
           /\ ~Polls /\ ~FireTimer /\ ~FireDone
  <2>1. /\ ran'.timer = ran.timer /\ made'.timer = made.timer /\ firing' = firing
        /\ \A t \in Timer : /\ timers'[t].armed = timers[t].armed
                            /\ timers'[t].repeats = timers[t].repeats
        /\ cleared'.timer = cleared.timer
    BY <1>7, QuietTimers
  <2>2. overtaken' = overtaken
    BY <1>7, OvertakenStep
  <2>3. \A t \in Timer : TimerPlace(t)'
    BY <2>1, <2>2, SameTimer DEF TimersInv
  <2>4. QED
    BY <1>4, <1>7, <2>1, <2>3
<1>8. QED
  BY <1>1, <1>2, <1>3, <1>5, <1>6, <1>7

\* A timer that was not cleared is armed, in the pass that collected it, or has run,
\* unless an inner loop overtook that pass, and a timer that does not repeat runs at
\* most once: fireDue takes a timer from the registry only into firingDue, and the
\* pass reaches every timer in it that no inner fireDue has taken from there.
THEOREM NoTimerLostCorrect == Spec => []NoTimerLost
<1>1. Init => TimersInv
  <2> SUFFICES ASSUME Init PROVE TimersInv
    OBVIOUS
  <2>1. Fires(stack, firing)
    BY DEF Init, Fires
  <2>2. ASSUME NEW t \in Timer
        PROVE  /\ ~timers[t].armed /\ t \notin firing /\ ran.timer[t] = 0
               /\ ~(t <= made.timer)
    BY Bounds DEF Init, Timer
  <2>3. QED
    BY <2>1, <2>2 DEF TimersInv, TimerPlace
<1>2. ClearInv /\ TimersInv /\ [Next]_vars => TimersInv'
  BY TimersNext
<1>3. ClearInv /\ QueuesInv /\ TimersInv => NoTimerLost
  <2> SUFFICES ASSUME ClearInv, QueuesInv, TimersInv, NEW t \in 1 .. made.timer
               PROVE  /\ ~timers[t].repeats => ran.timer[t] <= 1
                      /\ \/ timers[t].armed \/ t \in cleared.timer \/ Collected(t)
                         \/ ~timers[t].repeats /\ ran.timer[t] = 1
                         \/ t \in overtaken
    BY DEF NoTimerLost
  <2>1. t \in Timer /\ t <= made.timer
    <3>1. made.timer \in 0 .. NTimers /\ NTimers \in Nat
      BY Bounds DEF QueuesInv
    <3>2. QED
      BY <3>1 DEF Timer
  <2>2. TimerPlace(t)
    BY <2>1 DEF TimersInv
  <2>3. ASSUME t \in firing PROVE Collected(t)
    <3>1. PICK k \in 1 .. Len(stack) : stack[k].pc \in Firing /\ \E e \in stack[k].due : e.id = t
      BY <2>3 DEF TimersInv, Fires, IsFiring
    <3>2. k \in DOMAIN stack
      BY <3>1 DEF ClearInv, ImmsOK, GoodStack
    <3>3. QED
      BY <2>3, <3>1, <3>2 DEF Collected, Firing
  <2>4. QED
    BY <2>1, <2>2, <2>3 DEF TimerPlace
<1>4. QED
  BY <1>1, <1>2, <1>3, ClearInvHolds, QueuesInvHolds, PTL DEF Spec

\* The loop is safe for every value of the bounds and however server.listen() nests
\* it: types, timers, immediates and watchers together.
THEOREM LoopSafeCorrect == Spec => []LoopSafe
BY TypeCorrect, NoTimerLostCorrect, ImmediatesKeptCorrect, NoDanglingWatcherCorrect, PTL DEF LoopSafe

=============================================================================
