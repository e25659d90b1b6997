--------------------------- MODULE LibraryProofs ---------------------------
(***************************************************************************)
(* Proofs about three libraries that a program drives by calls and hears   *)
(* of through callbacks.                                                   *)
(*                                                                         *)
(* node:cluster: exits are told once, disconnect's callbacks come when     *)
(* they should and a primary waits for its workers, for any number of      *)
(* workers, kills and calls of disconnect().  The inductive invariant      *)
(* places each worker in exactly one stage of its end (on the list, taken  *)
(* off it, told) and counts: the unreaped workers the loop is referred by, *)
(* the listed ones, which are those and the exits not drained, and for     *)
(* each call of disconnect() the listeners still waiting.  While no pid    *)
(* came back too early, the listed workers have pids of their own and the  *)
(* ones whose exit waits are among them.                                   *)
(*                                                                         *)
(* The options of node:net's sockets, for any number of racing handles and *)
(* of calls of the program, inside its listeners and callbacks or outside. *)
(*                                                                         *)
(* node:diagnostics_channel, for any number of traces, subscribers and     *)
(* stores.  The inductive invariant says what is still to run: subscribers *)
(* of the message being published, then the plan of one trace, which is at *)
(* one of seventeen places, each with what it has published and the        *)
(* contexts it has entered.                                                *)
(***************************************************************************)
EXTENDS Cluster, Diagnostics, SocketOptions, SequenceTheorems, FiniteSetTheorems, WellFoundedInduction, TLAPS

ClusterSpec == ClusterInit /\ [][ClusterNext]_clusterVars

Job == ({"online"} \X WorkerIds) \cup ({"callback"} \X Calls)
Primary ==
    [state : {"up", "quit", "killed"}, pc : {"idle", "reaping", "draining"}, nextId : Nat, list : SUBSET WorkerIds,
     jobs : Seq(Job), exits : Seq(WorkerIds), emits : Seq({"disconnect", "exit"} \X WorkerIds), live : Int, byte : BOOLEAN,
     remaining : [Calls -> Int]]
WorkerRecord ==
    [process : {"none", "running", "zombie", "reaped"}, term : BOOLEAN,
     exitedAfterDisconnect : {"undefined", "true", "false"}, connected : BOOLEAN, dead : BOOLEAN, once : SUBSET Calls]
Story ==
    [online : SUBSET WorkerIds, exits : Seq(WorkerIds), called : [Calls -> Nat], of : [Calls -> SUBSET WorkerIds],
     asked : Nat, kills : Nat]
ClusterTypeOK == primary \in Primary /\ worker \in [WorkerIds -> WorkerRecord] /\ story \in Story

\* Exits and events are under way only while they are drained; a drain's events are those of one worker.
Drain(p) ==
    /\ p.pc # "draining" => p.exits = <<>> /\ p.emits = <<>>
    /\ \/ p.emits = <<>>
       \/ \E w \in WorkerIds : p.emits = <<<<"disconnect", w>>, <<"exit", w>>>> \/ p.emits = <<<<"exit", w>>>>
Waiting(w, p) == \E k \in DOMAIN p.exits : p.exits[k] = w
Taken(w, p) == \E k \in DOMAIN p.emits : p.emits[k] = <<"exit", w>>
Told(w, s) == \E k \in DOMAIN s.exits : s.exits[k] = w
\* The stage of a worker that was forked: on the list, taken off it, or told.
Stage(w, p, process, s) ==
    /\ ~(Taken(w, p) /\ Told(w, s))
    /\ Taken(w, p) \/ Told(w, s) => process # "none"
    /\ w \in p.list <=> process # "none" /\ ~Taken(w, p) /\ ~Told(w, s)
    /\ process # "none" => w <= p.nextId
    /\ process # "none" => w \in s.online \/ \E k \in DOMAIN p.jobs : p.jobs[k] = <<"online", w>>
Stages == \A w \in WorkerIds : Stage(w, primary, worker[w].process, story)
Once(q) == \A a, b \in DOMAIN q : q[a] = q[b] => a = b

\* A call of disconnect(): its listeners are on the workers that it found and that have not told their exit.
Hooked(c) == {w \in WorkerIds : c \in worker[w].once}
Asked(c) ==
    /\ Hooked(c) = {w \in story.of[c] : ~Told(w, story)}
    /\ primary.remaining[c] = Cardinality(Hooked(c))
    /\ \A w \in story.of[c] : worker[w].process # "none"
    /\ story.called[c] \in {0, 1}
    /\ story.of[c] # {} => (story.called[c] = 1 <=> Hooked(c) = {})
    /\ \A k \in DOMAIN primary.jobs : primary.jobs[k] = <<"callback", c>> => story.of[c] = {} /\ story.called[c] = 0
    /\ \A k, m \in DOMAIN primary.jobs : primary.jobs[k] = <<"callback", c>> /\ primary.jobs[m] = <<"callback", c>> => k = m
    /\ c > story.asked => /\ story.of[c] = {} /\ story.called[c] = 0
                          /\ \A k \in DOMAIN primary.jobs : primary.jobs[k] # <<"callback", c>>
Asks == \A c \in Calls : Asked(c)

\* On the list are the workers that run or have not been waited for, and those whose exit is to be drained.
Counted(p) == Cardinality(p.list) = p.live + Len(p.exits)
Unreaped == {w \in WorkerIds : worker[w].process \in {"running", "zombie"}}
ClusterInv ==
    /\ ClusterTypeOK
    /\ Drain(primary)
    /\ Stages
    /\ Once(story.exits)
    /\ Asks
    /\ primary.live = Cardinality(Unreaped)
    /\ Counted(primary)
    /\ PrimaryWaits

\* While every pid came back late enough: who has ended waits, is taken or told, and the search by pid finds it.
HasEnded(w, p, process, s) ==
    /\ (Waiting(w, p) \/ Taken(w, p) \/ Told(w, s)) <=> process = "reaped"
    /\ Waiting(w, p) => w \in p.list
PidsApart == \A v, w \in primary.list : pid[v] = pid[w] => v = w
Apart ==
    /\ PidsApart
    /\ \A w \in WorkerIds : HasEnded(w, primary, worker[w].process, story)
    /\ Once(primary.exits)
PidType == pid \in [WorkerIds -> Pids \cup {0}] /\ recycled \in BOOLEAN
ClusterWhole == ClusterInv /\ PidType /\ (recycled \/ Apart)

----------------
LEMMA IdsFinite == IsFiniteSet(WorkerIds) /\ WorkerIds \subseteq Nat /\ Calls \subseteq Nat
BY ClusterAssumption, FS_Interval DEF WorkerIds, Calls

LEMMA SubsetsFinite == \A S \in SUBSET WorkerIds : IsFiniteSet(S) /\ Cardinality(S) \in Nat
BY IdsFinite, FS_Subset, FS_CardinalityType

\* An order of the zombies is a sequence of all of them, each once.
LEMMA OrderOf ==
  ASSUME NEW S \in SUBSET WorkerIds, NEW order \in SetToSeqs(S)
  PROVE  /\ order \in Seq(WorkerIds) /\ Len(order) = Cardinality(S)
         /\ Once(order)
         /\ \A w : w \in S <=> \E k \in DOMAIN order : order[k] = w
<1> DEFINE n == Cardinality(S)
<1>1. IsFiniteSet(S) /\ n \in Nat
  BY SubsetsFinite
<1>2. order \in [1..n -> S] /\ \A i, j \in 1..n : i # j => order[i] # order[j]
  BY DEF SetToSeqs
<1>3. order \in Seq(WorkerIds) /\ Len(order) = n /\ DOMAIN order = 1..n
  BY <1>1, <1>2
<1>4. order \in Injection(1..n, S)
  BY <1>2 DEF Injection, IsInjective
<1>5. IsFiniteSet(1..n) /\ Cardinality(1..n) = n
  BY <1>1, FS_Interval
<1>6. order \in Surjection(1..n, S)
  BY <1>1, <1>4, <1>5, FS_Injection
<1>7. \A w : w \in S <=> \E k \in DOMAIN order : order[k] = w
  BY <1>2, <1>3, <1>6 DEF Surjection
<1>8. Once(order)
  BY <1>2, <1>3 DEF Once
<1> QED BY <1>3, <1>7, <1>8

----------------
\* A signal changes no worker but in what is on the way to it; kill() and disconnect() mark the one they leave.
LEMMA SignalledFacts ==
  ASSUME worker \in [WorkerIds -> WorkerRecord], NEW ids
  PROVE  \A w \in WorkerIds : /\ Signalled(ids)[w] \in WorkerRecord
                              /\ Signalled(ids)[w].once = worker[w].once /\ Signalled(ids)[w].process = worker[w].process
<1> SUFFICES ASSUME NEW w \in WorkerIds
             PROVE  /\ Signalled(ids)[w] \in WorkerRecord
                    /\ Signalled(ids)[w].once = worker[w].once /\ Signalled(ids)[w].process = worker[w].process
  OBVIOUS
<1> DEFINE term == worker[w].term \/ (worker[w].process = "running" /\ \E v \in ids : pid[v] = pid[w])
<1>1. Signalled(ids)[w] = [worker[w] EXCEPT !.term = term]
  BY DEF Signalled
<1>2. term \in BOOLEAN /\ worker[w] \in WorkerRecord
  BY DEF WorkerRecord
<1> HIDE DEF term
<1> QED BY <1>1, <1>2 DEF WorkerRecord

LEMMA LeavingFacts ==
  ASSUME NEW r \in WorkerRecord
  PROVE  Leaving(r) \in WorkerRecord /\ Leaving(r).once = r.once /\ Leaving(r).process = r.process
BY DEF Leaving, WorkerRecord

(* Types.                                                                  *)
LEMMA TypesKept == ClusterInv /\ ClusterNext => ClusterTypeOK'
<1> SUFFICES ASSUME ClusterInv, ClusterNext PROVE ClusterTypeOK'
  OBVIOUS
<1> USE DEF ClusterTypeOK
<1>0. primary \in Primary /\ worker \in [WorkerIds -> WorkerRecord] /\ story \in Story
  BY DEF ClusterInv
<1>a. ASSUME NEW p \in Pids, Fork(p) PROVE ClusterTypeOK'
  <2> DEFINE id == primary.nextId + 1
  <2>1. id \in Nat /\ id \in WorkerIds /\ <<"online", id>> \in Job
    BY <1>a, <1>0, ClusterAssumption DEF Fork, Primary, WorkerIds, Job
  <2>2. worker' \in [WorkerIds -> WorkerRecord]
    BY <1>a, <1>0, <2>1 DEF Fork, WorkerRecord
  <2> HIDE DEF id
  <2>3. primary' = [primary EXCEPT !.nextId = id, !.list = @ \cup {id}, !.live = @ + 1, !.jobs = Append(@, <<"online", id>>)]
    BY <1>a DEF Fork, id
  <2>a. primary.live + 1 \in Int /\ Append(primary.jobs, <<"online", id>>) \in Seq(Job) /\ primary.list \cup {id} \in SUBSET WorkerIds
    BY <1>0, <2>1 DEF Primary
  <2>4. primary' \in Primary
    BY <1>0, <2>1, <2>3, <2>a DEF Primary
  <2> QED BY <1>a, <1>0, <2>2, <2>4 DEF Fork
<1>b. ForkFails => ClusterTypeOK'
  <2>1. primary.nextId + 1 \in Nat
    BY <1>0 DEF Primary
  <2> QED BY <1>0, <2>1 DEF ForkFails, Primary
<1>c. DisconnectAll => ClusterTypeOK'
  <2> SUFFICES ASSUME DisconnectAll PROVE ClusterTypeOK'
    OBVIOUS
  <2> DEFINE c == story.asked + 1
  <2>0. story.asked \in Nat /\ story.asked < MaxDisconnects /\ primary.list \in SUBSET WorkerIds
    BY <1>0 DEF DisconnectAll, Primary, Story
  <2>b. c \in Nat /\ c \in Calls
    BY <2>0, ClusterAssumption DEF Calls
  <2>1. c \in Nat /\ c \in Calls /\ <<"callback", c>> \in Job /\ primary.list \in SUBSET WorkerIds
    BY <2>0, <2>b DEF Job
  <2>2. Cardinality(primary.list) \in Int
    BY <2>1, SubsetsFinite
  <2> HIDE DEF c
  <2>3. story' = [story EXCEPT !.asked = c, !.of[c] = primary.list]
    BY DEF DisconnectAll, c
  <2>4. story' \in Story
    BY <1>0, <2>1, <2>3 DEF Story
  <2>5. CASE primary.list = {}
    <3>1. primary' = [primary EXCEPT !.jobs = Append(@, <<"callback", c>>)] /\ worker' = worker
      BY <2>5 DEF DisconnectAll, c
    <3>a. Append(primary.jobs, <<"callback", c>>) \in Seq(Job)
      BY <1>0, <2>1 DEF Primary
    <3>2. primary' \in Primary
      BY <1>0, <3>a, <3>1 DEF Primary
    <3> QED BY <1>0, <2>4, <3>1, <3>2
  <2>6. CASE primary.list # {}
    <3>1. primary' = [primary EXCEPT !.remaining[c] = Cardinality(primary.list)]
      BY <2>6 DEF DisconnectAll, c
    <3>2. primary' \in Primary
      BY <1>0, <2>1, <2>2, <3>1 DEF Primary
    <3> DEFINE sent == Signalled(primary.list)
    <3>3. worker' = [w \in WorkerIds |-> IF w \in primary.list THEN Leaving([sent[w] EXCEPT !.once = @ \cup {c}]) ELSE sent[w]]
      BY <2>6 DEF DisconnectAll, c
    <3>4. ASSUME NEW w \in WorkerIds PROVE Leaving([sent[w] EXCEPT !.once = @ \cup {c}]) \in WorkerRecord /\ sent[w] \in WorkerRecord
      <4>1. sent[w] \in WorkerRecord
        BY <1>0, SignalledFacts
      <4> HIDE DEF sent
      <4>2. [sent[w] EXCEPT !.once = @ \cup {c}] \in WorkerRecord
        BY <2>1, <4>1 DEF WorkerRecord
      <4> QED BY <4>1, <4>2, LeavingFacts
    <3> HIDE DEF sent
    <3>5. worker' \in [WorkerIds -> WorkerRecord]
      BY <3>3, <3>4
    <3> QED BY <2>4, <3>2, <3>5
  <2> QED BY <2>5, <2>6
<1>d. RunClusterJob => ClusterTypeOK'
  <2> SUFFICES ASSUME RunClusterJob PROVE ClusterTypeOK'
    OBVIOUS
  <2> DEFINE job == Head(primary.jobs)
  <2>1. job \in Job /\ Tail(primary.jobs) \in Seq(Job)
    BY <1>0 DEF RunClusterJob, Primary
  <2>2. primary' \in Primary
    BY <1>0, <2>1 DEF RunClusterJob, Primary
  <2> HIDE DEF job
  <2>3. CASE job[1] = "online"
    <3>1. job[2] \in WorkerIds /\ story' = [story EXCEPT !.online = @ \cup {job[2]}]
      BY <2>1, <2>3 DEF RunClusterJob, Job, job
    <3>2. story' \in Story
      BY <1>0, <3>1 DEF Story
    <3> QED BY <1>0, <2>2, <3>2 DEF RunClusterJob
  <2>4. CASE job[1] # "online"
    <3>1. job[2] \in Calls /\ story' = [story EXCEPT !.called[job[2]] = @ + 1]
      BY <2>1, <2>4 DEF RunClusterJob, Job, job
    <3>a. story.called[job[2]] + 1 \in Nat
      BY <1>0, <3>1 DEF Story
    <3>b. [story.called EXCEPT ![job[2]] = @ + 1] \in [Calls -> Nat]
      BY <1>0, <3>1, <3>a DEF Story
    <3>2. story' \in Story
      BY <1>0, <3>1, <3>b DEF Story
    <3> QED BY <1>0, <2>2, <3>2 DEF RunClusterJob
  <2> QED BY <2>3, <2>4
<1>e. ChildrenReady => ClusterTypeOK'
  BY <1>0 DEF ChildrenReady, Primary
<1>f. Reap => ClusterTypeOK'
  <2> SUFFICES ASSUME Reap PROVE ClusterTypeOK'
    OBVIOUS
  <2>1. PICK order \in SetToSeqs(Zombies) :
           primary' = [primary EXCEPT !.pc = "draining", !.exits = @ \o order, !.live = @ - Len(order)]
    BY DEF Reap
  <2>2. Zombies \in SUBSET WorkerIds
    BY DEF Zombies
  <2>3. order \in Seq(WorkerIds)
    BY <2>2, OrderOf
  <2>a. primary.exits \o order \in Seq(WorkerIds) /\ primary.live - Len(order) \in Int
    BY <1>0, <2>3 DEF Primary
  <2>4. primary' \in Primary
    BY <1>0, <2>1, <2>a DEF Primary
  <2>5. worker' \in [WorkerIds -> WorkerRecord]
    BY <1>0 DEF Reap, Waited, WorkerRecord
  <2> QED BY <1>0, <2>4, <2>5 DEF Reap
<1>g. TakeExit => ClusterTypeOK'
  <2> SUFFICES ASSUME TakeExit PROVE ClusterTypeOK'
    OBVIOUS
  <2>0. PICK id \in Found(Head(primary.exits)) :
           /\ primary' = [primary EXCEPT !.exits = Tail(@), !.list = @ \ {id}, !.emits = <<<<"disconnect", id>>, <<"exit", id>>>>]
           /\ worker' = [worker EXCEPT ![id] = MarkExited(@)]
    BY DEF TakeExit
  <2>1. id \in WorkerIds /\ Tail(primary.exits) \in Seq(WorkerIds)
    BY <1>0 DEF TakeExit, Found, Primary
  <2> DEFINE es == <<<<"disconnect", id>>, <<"exit", id>>>>
  <2>2. es \in Seq({"disconnect", "exit"} \X WorkerIds)
    BY <2>1
  <2> HIDE DEF es
  <2>3. primary' = [primary EXCEPT !.exits = Tail(@), !.list = @ \ {id}, !.emits = es]
    BY <2>0 DEF es
  <2>4. primary' \in Primary
    BY <1>0, <2>1, <2>2, <2>3 DEF Primary
  <2>5. worker' = [worker EXCEPT ![id] = MarkExited(@)]
    BY <2>0
  <2>a. MarkExited(worker[id]) \in WorkerRecord
    BY <1>0, <2>1 DEF MarkExited, WorkerRecord
  <2>6. worker' \in [WorkerIds -> WorkerRecord]
    BY <1>0, <2>1, <2>5, <2>a
  <2> QED BY <1>0, <2>4, <2>6 DEF TakeExit
<1>h. EmitDisconnect => ClusterTypeOK'
  <2> SUFFICES ASSUME EmitDisconnect PROVE ClusterTypeOK'
    OBVIOUS
  <2>1. Tail(primary.emits) \in Seq({"disconnect", "exit"} \X WorkerIds)
    BY <1>0 DEF EmitDisconnect, Primary
  <2> QED BY <1>0, <2>1 DEF EmitDisconnect, Primary
<1>i. EmitExit => ClusterTypeOK'
  <2> SUFFICES ASSUME EmitExit PROVE ClusterTypeOK'
    OBVIOUS
  <2> DEFINE id == Head(primary.emits)[2]
             hooks == worker[id].once
             rem == [c \in Calls |-> IF c \in hooks THEN primary.remaining[c] - 1 ELSE primary.remaining[c]]
             cal == [c \in Calls |-> IF c \in hooks /\ LastExitOf(c) THEN story.called[c] + 1 ELSE story.called[c]]
  <2>1. Head(primary.emits) \in {"disconnect", "exit"} \X WorkerIds /\ Tail(primary.emits) \in Seq({"disconnect", "exit"} \X WorkerIds)
    BY <1>0 DEF EmitExit, Primary
  <2>2. id \in WorkerIds
    BY <2>1
  <2>3. primary' = [primary EXCEPT !.emits = Tail(@), !.remaining = rem]
    BY DEF EmitExit
  <2>4. story' = [story EXCEPT !.exits = Append(@, id), !.called = cal]
    BY DEF EmitExit
  <2>5. worker' \in [WorkerIds -> WorkerRecord]
    BY <1>0, <2>2 DEF EmitExit, WorkerRecord
  <2>6. rem \in [Calls -> Int] /\ cal \in [Calls -> Nat]
    BY <1>0 DEF Primary, Story
  <2> HIDE DEF rem, cal, id
  <2>7. primary' \in Primary
    BY <1>0, <2>1, <2>3, <2>6 DEF Primary
  <2>a. Append(story.exits, id) \in Seq(WorkerIds)
    BY <1>0, <2>2 DEF Story
  <2>8. story' \in Story
    BY <1>0, <2>a, <2>4, <2>6 DEF Story
  <2> QED BY <2>5, <2>7, <2>8
<1>j. ExitsDrained \/ PrimaryQuits \/ PrimaryDies => ClusterTypeOK'
  BY <1>0 DEF ExitsDrained, PrimaryQuits, PrimaryDies, Primary
<1>k. ASSUME NEW id \in WorkerIds, Kill(id) \/ ProcessKill(id) PROVE ClusterTypeOK'
  <2> DEFINE sent == Signalled({id})
  <2>1. ASSUME NEW w \in WorkerIds PROVE sent[w] \in WorkerRecord /\ Leaving(sent[w]) \in WorkerRecord
    BY <1>0, SignalledFacts, LeavingFacts
  <2>3. worker' = sent \/ worker' = [w \in WorkerIds |-> IF w = id THEN Leaving(sent[w]) ELSE sent[w]]
    BY <1>k DEF Kill, ProcessKill
  <2>4. sent = [w \in WorkerIds |-> sent[w]]
    BY DEF Signalled
  <2> HIDE DEF sent
  <2>5. worker' \in [WorkerIds -> WorkerRecord]
    BY <2>1, <2>3, <2>4
  <2>a. story' = [story EXCEPT !.kills = @ + 1] /\ story.kills + 1 \in Nat
    BY <1>0, <1>k DEF Kill, ProcessKill, Story
  <2>2. story' \in Story
    BY <1>0, <2>a DEF Story
  <2> QED BY <1>0, <1>k, <2>2, <2>5 DEF Kill, ProcessKill
<1>l. ASSUME NEW id \in WorkerIds, ProcessEnds(id) PROVE ClusterTypeOK'
  <2>1. primary' \in Primary
    BY <1>0, <1>l DEF ProcessEnds, Primary
  <2>2. worker' \in [WorkerIds -> WorkerRecord]
    BY <1>0, <1>l DEF ProcessEnds, WorkerRecord
  <2> QED BY <1>0, <1>l, <2>1, <2>2 DEF ProcessEnds
<1> QED
  BY <1>a, <1>b, <1>c, <1>d, <1>e, <1>f, <1>g, <1>h, <1>i, <1>j, <1>k, <1>l
  DEF ClusterNext, WorkerExits, WorkerTerminated, ChannelCloses

----------------
(* Steps that leave the queues alone: a process may end, nothing else.      *)
LEMMA CalmStep ==
  ASSUME ClusterInv, ClusterTypeOK',
         primary'.list = primary.list, primary'.exits = primary.exits, primary'.jobs = primary.jobs,
         primary'.remaining = primary.remaining, primary'.live = primary.live, primary'.nextId >= primary.nextId,
         \A w \in WorkerIds : Taken(w, primary') <=> Taken(w, primary),
         \A w \in WorkerIds : /\ worker'[w].once = worker[w].once
                              /\ \/ worker'[w].process = worker[w].process
                                 \/ worker[w].process = "running" /\ worker'[w].process = "zombie",
         story'.online = story.online, story'.exits = story.exits, story'.called = story.called,
         story'.of = story.of, story'.asked = story.asked
  PROVE  /\ Stages' /\ Counted(primary') /\ Once(story'.exits) /\ Asks'
         /\ primary'.live = Cardinality(Unreaped')
         /\ (primary'.state = "quit" => primary.state = "quit") => PrimaryWaits'
<1>0. /\ primary \in Primary /\ primary' \in Primary
      /\ worker \in [WorkerIds -> WorkerRecord] /\ worker' \in [WorkerIds -> WorkerRecord]
      /\ WorkerIds \subseteq Nat
  BY IdsFinite DEF ClusterInv, ClusterTypeOK
<1>1. Stages'
  <2> SUFFICES ASSUME NEW w \in WorkerIds PROVE Stage(w, primary', worker'[w].process, story')
    BY DEF Stages
  <2>1. Stage(w, primary, worker[w].process, story)
    BY DEF ClusterInv, Stages
  <2>2. Told(w, story') <=> Told(w, story)
    BY DEF Told
  <2>3. worker[w].process # "none" => w <= primary'.nextId
    BY <1>0, <2>1 DEF Stage, Primary
  <2>4. CASE worker'[w].process = worker[w].process
    BY <2>1, <2>2, <2>3, <2>4 DEF Stage
  <2>5. CASE worker[w].process = "running" /\ worker'[w].process = "zombie"
    BY <2>1, <2>2, <2>3, <2>5 DEF Stage
  <2> QED BY <2>4, <2>5
<1>2. \A c \in Calls : Hooked(c)' = Hooked(c)
  BY DEF Hooked
<1>3. Asks'
  <2> SUFFICES ASSUME NEW c \in Calls PROVE Asked(c)'
    BY DEF Asks
  <2>1. Asked(c) /\ Hooked(c)' = Hooked(c)
    BY <1>2 DEF ClusterInv, Asks
  <2>2. \A w \in WorkerIds : worker[w].process # "none" => worker'[w].process # "none"
    OBVIOUS
  <2>3. \A w : Told(w, story') <=> Told(w, story)
    BY DEF Told
  <2>4. story.of[c] \subseteq WorkerIds
    BY DEF ClusterInv, ClusterTypeOK, Story
  <2> QED BY <2>1, <2>2, <2>3, <2>4 DEF Asked
<1>4. Unreaped' = Unreaped
  BY DEF Unreaped
<1>5. (primary'.state = "quit" => primary.state = "quit") => PrimaryWaits'
  BY DEF ClusterInv, PrimaryWaits, ToSet
<1>6. Counted(primary') /\ Once(story'.exits)
  BY DEF ClusterInv, Counted
<1>7. primary'.live = Cardinality(Unreaped')
  BY <1>4 DEF ClusterInv
<1> QED BY <1>1, <1>3, <1>5, <1>6, <1>7

LEMMA CalmActions ==
  ASSUME ClusterInv, ClusterTypeOK',
         \/ ForkFails \/ ChildrenReady \/ ExitsDrained \/ PrimaryDies
         \/ \E id \in WorkerIds : Kill(id) \/ ProcessKill(id) \/ (worker[id].process = "running" /\ ProcessEnds(id))
  PROVE  ClusterInv'
<1>0. /\ primary \in Primary /\ primary' \in Primary /\ story \in Story
      /\ worker \in [WorkerIds -> WorkerRecord] /\ worker' \in [WorkerIds -> WorkerRecord]
  BY DEF ClusterInv, ClusterTypeOK
<1>1. /\ primary'.list = primary.list /\ primary'.exits = primary.exits /\ primary'.jobs = primary.jobs
      /\ primary'.remaining = primary.remaining /\ primary'.live = primary.live /\ primary'.emits = primary.emits
      /\ primary'.state = "quit" => primary.state = "quit"
  BY <1>0 DEF ForkFails, ChildrenReady, ExitsDrained, PrimaryDies, Kill, ProcessKill, ProcessEnds, Primary
<1>2. primary'.nextId = primary.nextId \/ primary'.nextId = primary.nextId + 1
  BY <1>0 DEF ForkFails, ChildrenReady, ExitsDrained, PrimaryDies, Kill, ProcessKill, ProcessEnds, Primary
<1>3. primary'.nextId >= primary.nextId
  BY <1>0, <1>2 DEF Primary
<1>4. /\ story'.online = story.online /\ story'.exits = story.exits /\ story'.called = story.called
      /\ story'.of = story.of /\ story'.asked = story.asked
  BY <1>0 DEF ForkFails, ChildrenReady, ExitsDrained, PrimaryDies, Kill, ProcessKill, ProcessEnds, Story
<1>5. \A w \in WorkerIds : Taken(w, primary') <=> Taken(w, primary)
  BY <1>1 DEF Taken
<1>6. \A w \in WorkerIds : /\ worker'[w].once = worker[w].once
                           /\ \/ worker'[w].process = worker[w].process
                              \/ worker[w].process = "running" /\ worker'[w].process = "zombie"
  <2>1. CASE ForkFails \/ ChildrenReady \/ ExitsDrained \/ PrimaryDies
    BY <2>1 DEF ForkFails, ChildrenReady, ExitsDrained, PrimaryDies
  <2>2. ASSUME NEW id \in WorkerIds, Kill(id) \/ ProcessKill(id) PROVE <1>6!:
    <3> DEFINE sent == Signalled({id})
    <3>1. \A w \in WorkerIds : sent[w] \in WorkerRecord /\ sent[w].once = worker[w].once /\ sent[w].process = worker[w].process
      BY <1>0, SignalledFacts
    <3>2. worker' = sent \/ worker' = [w \in WorkerIds |-> IF w = id THEN Leaving(sent[w]) ELSE sent[w]]
      BY <2>2 DEF Kill, ProcessKill
    <3> HIDE DEF sent
    <3>3. \A w \in WorkerIds : Leaving(sent[w]).once = sent[w].once /\ Leaving(sent[w]).process = sent[w].process
      BY <3>1, LeavingFacts
    <3>4. \A w \in WorkerIds : worker'[w] = sent[w] \/ worker'[w] = Leaving(sent[w])
      BY <3>2
    <3> QED BY <3>1, <3>3, <3>4
  <2>3. ASSUME NEW id \in WorkerIds, ProcessEnds(id), worker[id].process = "running" PROVE <1>6!:
    BY <1>0, <2>3 DEF ProcessEnds, WorkerRecord
  <2> QED BY <2>1, <2>2, <2>3
<1>7. Drain(primary')
  <2>1. primary'.pc # "draining" => primary'.exits = <<>> /\ primary'.emits = <<>>
    <3>1. CASE ExitsDrained
      BY <1>1, <3>1 DEF ExitsDrained
    <3>2. CASE ~ExitsDrained
      <4>1. primary.pc # "draining" \/ primary'.pc = primary.pc
        BY <1>0, <3>2 DEF ForkFails, ChildrenReady, Woken, PrimaryDies, Kill, ProcessKill, ProcessEnds, Primary
      <4> QED BY <1>1, <4>1 DEF ClusterInv, Drain
    <3> QED BY <3>1, <3>2
  <2> QED BY <1>1, <2>1 DEF ClusterInv, Drain
<1> QED BY <1>1, <1>3, <1>4, <1>5, <1>6, <1>7, CalmStep DEF ClusterInv

LEMMA EmitDisconnectKeeps ==
  ASSUME ClusterInv, ClusterTypeOK', EmitDisconnect
  PROVE  ClusterInv'
<1>0. primary \in Primary /\ primary' \in Primary
  BY DEF ClusterInv, ClusterTypeOK
<1>1. PICK v \in WorkerIds : primary.emits = <<<<"disconnect", v>>, <<"exit", v>>>>
  <2>1. ASSUME NEW v \in WorkerIds, primary.emits = <<<<"exit", v>>>> PROVE FALSE
    <3>1. Head(primary.emits) = <<"exit", v>>
      BY <2>1
    <3> QED BY <3>1 DEF EmitDisconnect
  <2>2. primary.emits # <<>>
    BY DEF EmitDisconnect
  <2> QED BY <2>1, <2>2 DEF ClusterInv, Drain
<1>2. primary' = [primary EXCEPT !.emits = Tail(@)]
  BY DEF EmitDisconnect
<1>3. primary'.emits = <<<<"exit", v>>>>
  BY <1>0, <1>1, <1>2 DEF Primary
<1>4. \A w \in WorkerIds : Taken(w, primary') <=> Taken(w, primary)
  <2>1. \A w : Taken(w, primary) <=> w = v
    BY <1>1 DEF Taken
  <2>2. \A w : Taken(w, primary') <=> w = v
    BY <1>3 DEF Taken
  <2> QED BY <2>1, <2>2
<1>5. /\ primary'.list = primary.list /\ primary'.exits = primary.exits /\ primary'.jobs = primary.jobs
      /\ primary'.remaining = primary.remaining /\ primary'.live = primary.live /\ primary'.nextId = primary.nextId
      /\ primary'.state = primary.state /\ primary'.pc = primary.pc
  BY <1>0, <1>2 DEF Primary
<1>6. primary'.nextId >= primary.nextId
  BY <1>0, <1>5 DEF Primary
<1>7. worker' = worker /\ story' = story
  BY DEF EmitDisconnect
<1>8. primary.pc = "draining"
  BY <1>1 DEF ClusterInv, Drain
<1>9. Drain(primary')
  BY <1>3, <1>5, <1>8 DEF Drain
<1> QED BY <1>4, <1>5, <1>6, <1>7, <1>9, CalmStep DEF ClusterInv

LEMMA PrimaryQuitsKeeps ==
  ASSUME ClusterInv, ClusterTypeOK', PrimaryQuits
  PROVE  ClusterInv'
<1>0. primary \in Primary /\ primary' \in Primary /\ worker \in [WorkerIds -> WorkerRecord]
  BY DEF ClusterInv, ClusterTypeOK
<1>1. primary' = [primary EXCEPT !.state = "quit"] /\ worker' = worker /\ story' = story
  BY DEF PrimaryQuits
<1>2. /\ primary'.list = primary.list /\ primary'.exits = primary.exits /\ primary'.jobs = primary.jobs
      /\ primary'.remaining = primary.remaining /\ primary'.live = primary.live /\ primary'.nextId = primary.nextId
      /\ primary'.emits = primary.emits /\ primary'.pc = primary.pc
  BY <1>0, <1>1 DEF Primary
<1>3. primary'.nextId >= primary.nextId
  BY <1>0, <1>2 DEF Primary
<1>4. \A w \in WorkerIds : Taken(w, primary') <=> Taken(w, primary)
  BY <1>2 DEF Taken
<1>5. Drain(primary')
  BY <1>2 DEF ClusterInv, Drain
<1>6. primary.exits = <<>> /\ primary.emits = <<>> /\ primary.live = 0
  BY DEF ClusterInv, Drain, PrimaryQuits, Quits
<1>a. primary.list = {}
  <2>1. Cardinality(primary.list) = 0
    BY <1>6 DEF ClusterInv, Counted
  <2>2. IsFiniteSet(primary.list)
    BY <1>0, SubsetsFinite DEF Primary
  <2> QED BY <2>1, <2>2, FS_EmptySet
<1>7. ASSUME NEW w \in WorkerIds, worker[w].process # "none" PROVE Told(w, story)
  <2>1. ~Taken(w, primary)
    BY <1>6 DEF Taken
  <2> QED BY <1>7, <1>a, <2>1 DEF ClusterInv, Stages, Stage
<1>8. PrimaryWaits'
  BY <1>1, <1>7 DEF PrimaryWaits, ToSet, Told
<1> QED BY <1>1, <1>2, <1>3, <1>4, <1>5, <1>8, CalmStep DEF ClusterInv

LEMMA ForkKeeps ==
  ASSUME ClusterInv, ClusterTypeOK', NEW pidOf, Fork(pidOf)
  PROVE  ClusterInv'
<1> DEFINE id == primary.nextId + 1
<1>0. /\ primary \in Primary /\ primary' \in Primary /\ story' = story /\ story \in Story
      /\ worker \in [WorkerIds -> WorkerRecord] /\ worker' \in [WorkerIds -> WorkerRecord] /\ WorkerIds \subseteq Nat
  BY IdsFinite DEF ClusterInv, ClusterTypeOK, Fork
<1>1. id \in WorkerIds /\ ~(id <= primary.nextId)
  BY <1>0, ClusterAssumption DEF Fork, Primary, WorkerIds
<1>2. primary' = [primary EXCEPT !.nextId = id, !.list = @ \cup {id}, !.live = @ + 1, !.jobs = Append(@, <<"online", id>>)]
  BY DEF Fork
<1>3. worker' = [worker EXCEPT ![id].process = "running"]
  BY DEF Fork
<1>a. \A w \in WorkerIds : w <= primary.nextId => w <= id
  BY <1>0 DEF Primary
<1>b. primary.state = "up" /\ primary.pc # "reaping"
  BY DEF Fork, InProgram, Up
<1> HIDE DEF id
<1>4. /\ primary'.nextId = id /\ primary'.list = primary.list \cup {id} /\ primary'.live = primary.live + 1
      /\ primary'.jobs = Append(primary.jobs, <<"online", id>>)
      /\ primary'.exits = primary.exits /\ primary'.emits = primary.emits /\ primary'.remaining = primary.remaining
      /\ primary'.state = primary.state /\ primary'.pc = primary.pc
  BY <1>0, <1>2 DEF Primary
<1>5. worker[id].process = "none"
  BY <1>1 DEF ClusterInv, Stages, Stage
<1>6. /\ worker'[id].process = "running" /\ worker'[id].once = worker[id].once
      /\ \A w \in WorkerIds : w # id => worker'[w] = worker[w]
  BY <1>0, <1>1, <1>3 DEF WorkerRecord
<1>7. Drain(primary')
  BY <1>4, <1>b DEF ClusterInv, Drain
<1>8. \A w : Taken(w, primary') <=> Taken(w, primary)
  BY <1>4 DEF Taken
<1> DEFINE n == Len(primary.jobs)
<1>c. /\ DOMAIN primary.jobs = 1..n /\ DOMAIN primary'.jobs = 1..(n + 1) /\ n \in Nat
      /\ primary'.jobs[n + 1] = <<"online", id>> /\ \A k \in 1..n : primary'.jobs[k] = primary.jobs[k]
  BY <1>0, <1>4 DEF Primary
<1> HIDE DEF n
<1>d. \A k \in 1..(n + 1) : k \in 1..n \/ k = n + 1
  BY <1>c
<1>e. n + 1 \in 1..(n + 1) /\ 1..n \subseteq 1..(n + 1)
  BY <1>c
<1>9. Stages'
  <2> SUFFICES ASSUME NEW w \in WorkerIds PROVE Stage(w, primary', worker'[w].process, story')
    BY DEF Stages
  <2>1. Stage(w, primary, worker[w].process, story)
    BY DEF ClusterInv, Stages
  <2>2. (\E k \in DOMAIN primary.jobs : primary.jobs[k] = <<"online", w>>) => \E k \in DOMAIN primary'.jobs : primary'.jobs[k] = <<"online", w>>
    BY <1>c, <1>e
  <2>3. CASE w = id
    <3>1. \E k \in DOMAIN primary'.jobs : primary'.jobs[k] = <<"online", w>>
      BY <1>c, <1>e, <2>3
    <3>2. w <= id
      BY <1>0, <1>1, <2>3
    <3> QED BY <1>0, <1>4, <1>5, <1>6, <1>8, <2>1, <2>3, <3>1, <3>2 DEF Stage
  <2>4. CASE w # id
    BY <1>0, <1>4, <1>6, <1>8, <1>a, <2>1, <2>2, <2>4 DEF Stage
  <2> QED BY <2>3, <2>4
<1>10. Asks'
  <2> SUFFICES ASSUME NEW c \in Calls PROVE Asked(c)'
    BY DEF Asks
  <2>1. Asked(c)
    BY DEF ClusterInv, Asks
  <2>2. Hooked(c)' = Hooked(c)
    BY <1>6 DEF Hooked
  <2>3. \A k \in DOMAIN primary'.jobs : primary'.jobs[k] = <<"callback", c>> => k \in DOMAIN primary.jobs /\ primary.jobs[k] = <<"callback", c>>
    BY <1>c, <1>d
  <2>4. \A w \in story.of[c] : worker'[w].process # "none"
    BY <1>0, <1>6, <2>1 DEF Asked, Story
  <2>5. /\ primary'.remaining[c] = Cardinality(Hooked(c)')
        /\ Hooked(c)' = {w \in story'.of[c] : ~Told(w, story')}
    BY <1>0, <1>4, <2>1, <2>2 DEF Asked
  <2>6. /\ story'.called[c] \in {0, 1}
        /\ story'.of[c] # {} => (story'.called[c] = 1 <=> Hooked(c)' = {})
    BY <1>0, <2>1, <2>2 DEF Asked
  <2>7. \A k \in DOMAIN primary'.jobs : primary'.jobs[k] = <<"callback", c>> => story'.of[c] = {} /\ story'.called[c] = 0
    BY <1>0, <2>1, <2>3 DEF Asked
  <2>8. \A k, m \in DOMAIN primary'.jobs : primary'.jobs[k] = <<"callback", c>> /\ primary'.jobs[m] = <<"callback", c>> => k = m
    BY <2>1, <2>3 DEF Asked
  <2>9. c > story'.asked => /\ story'.of[c] = {} /\ story'.called[c] = 0
                            /\ \A k \in DOMAIN primary'.jobs : primary'.jobs[k] # <<"callback", c>>
    BY <1>0, <2>1, <2>3 DEF Asked
  <2> QED BY <1>0, <2>4, <2>5, <2>6, <2>7, <2>8, <2>9 DEF Asked
<1>11. primary'.live = Cardinality(Unreaped')
  <2>1. Unreaped' = Unreaped \cup {id} /\ id \notin Unreaped
    BY <1>1, <1>5, <1>6 DEF Unreaped
  <2>2. IsFiniteSet(Unreaped)
    BY SubsetsFinite DEF Unreaped
  <2>3. Cardinality(Unreaped \cup {id}) = Cardinality(Unreaped) + 1
    BY <2>1, <2>2, FS_AddElement
  <2> QED BY <1>4, <2>1, <2>3 DEF ClusterInv
<1>12. PrimaryWaits'
  BY <1>4, <1>b DEF PrimaryWaits
<1>13. Once(story'.exits)
  BY <1>0 DEF ClusterInv
<1>14. Counted(primary')
  <2>1. id \notin primary.list
    BY <1>1, <1>5 DEF ClusterInv, Stages, Stage
  <2>2. IsFiniteSet(primary.list)
    BY <1>0, SubsetsFinite DEF Primary
  <2>3. Cardinality(primary.list \cup {id}) = Cardinality(primary.list) + 1
    BY <2>1, <2>2, FS_AddElement
  <2>4. Len(primary.exits) \in Nat /\ primary.live \in Int
    BY <1>0 DEF Primary
  <2>5. primary'.list = primary.list \cup {id} /\ primary'.live = primary.live + 1 /\ primary'.exits = primary.exits
    BY <1>4
  <2> QED BY <2>3, <2>4, <2>5 DEF ClusterInv, Counted
<1> QED BY <1>14, <1>7, <1>9, <1>10, <1>11, <1>12, <1>13 DEF ClusterInv

LEMMA RunClusterJobKeeps ==
  ASSUME ClusterInv, ClusterTypeOK', RunClusterJob
  PROVE  ClusterInv'
<1> DEFINE n == Len(primary.jobs)
           job == Head(primary.jobs)
<1>0. /\ primary \in Primary /\ primary' \in Primary /\ story \in Story /\ story' \in Story
      /\ worker \in [WorkerIds -> WorkerRecord] /\ worker' = worker
  BY DEF ClusterInv, ClusterTypeOK, RunClusterJob
<1>1. primary' = [primary EXCEPT !.jobs = Tail(@)] /\ primary.jobs # <<>> /\ primary.state = "up" /\ primary.pc = "idle"
  BY DEF RunClusterJob, Up
<1>2. /\ primary'.list = primary.list /\ primary'.exits = primary.exits /\ primary'.jobs = Tail(primary.jobs)
      /\ primary'.remaining = primary.remaining /\ primary'.live = primary.live /\ primary'.nextId = primary.nextId
      /\ primary'.emits = primary.emits /\ primary'.pc = primary.pc /\ primary'.state = primary.state
  BY <1>0, <1>1 DEF Primary
<1>3. /\ n \in Nat /\ n > 0 /\ job \in Job /\ job = primary.jobs[1]
      /\ DOMAIN primary.jobs = 1..n /\ DOMAIN Tail(primary.jobs) = 1..(n - 1)
      /\ \A k \in 1..(n - 1) : Tail(primary.jobs)[k] = primary.jobs[k + 1]
  BY <1>0, <1>1 DEF Primary
<1> HIDE DEF n, job
<1>4. /\ 1 \in 1..n /\ \A k \in 1..n : k = 1 \/ k - 1 \in 1..(n - 1)
      /\ \A k \in 1..(n - 1) : k + 1 \in 1..n /\ k + 1 # 1
      /\ \A k \in 1..n : (k - 1) + 1 = k
      /\ \A k, m \in 1..(n - 1) : k + 1 = m + 1 => k = m
  BY <1>3
<1>5. \A k \in DOMAIN primary'.jobs : k + 1 \in DOMAIN primary.jobs /\ primary'.jobs[k] = primary.jobs[k + 1]
  BY <1>2, <1>3, <1>4
<1>6. \A w \in WorkerIds : (\E k \in DOMAIN primary.jobs : primary.jobs[k] = <<"online", w>>)
                           => job = <<"online", w>> \/ \E k \in DOMAIN primary'.jobs : primary'.jobs[k] = <<"online", w>>
  <2> TAKE w \in WorkerIds
  <2> HAVE \E k \in DOMAIN primary.jobs : primary.jobs[k] = <<"online", w>>
  <2>1. PICK k \in 1..n : primary.jobs[k] = <<"online", w>>
    BY <1>3
  <2>2. CASE k = 1
    BY <1>3, <2>1, <2>2
  <2>3. CASE k # 1
    <3>1. k - 1 \in 1..(n - 1) /\ (k - 1) + 1 = k
      BY <1>4, <2>3
    <3>2. k - 1 \in DOMAIN primary'.jobs /\ primary'.jobs[k - 1] = <<"online", w>>
      BY <1>2, <1>3, <2>1, <3>1
    <3> QED BY <3>2
  <2> QED BY <2>2, <2>3
<1>7. Drain(primary')
  BY <1>1, <1>2 DEF ClusterInv, Drain
<1>8. \A w : Taken(w, primary') <=> Taken(w, primary)
  BY <1>2 DEF Taken
<1>9. \A c \in Calls : Hooked(c)' = Hooked(c)
  BY <1>0 DEF Hooked
<1>10. Unreaped' = Unreaped
  BY <1>0 DEF Unreaped
<1>11. PrimaryWaits'
  BY <1>1, <1>2 DEF PrimaryWaits
<1>12. story'.exits = story.exits /\ story'.of = story.of /\ story'.asked = story.asked /\ story.online \subseteq story'.online
  BY <1>0 DEF RunClusterJob, Story
<1>13. \A w : Told(w, story') <=> Told(w, story)
  BY <1>12 DEF Told
<1>14. \A w \in WorkerIds : job = <<"online", w>> => w \in story'.online
  <2> SUFFICES ASSUME NEW w \in WorkerIds, job = <<"online", w>> PROVE w \in story'.online
    OBVIOUS
  <2>a. job[1] = "online" /\ job[2] = w
    OBVIOUS
  <2>b. story' = [story EXCEPT !.online = @ \cup {job[2]}]
    BY <2>a DEF RunClusterJob, job
  <2>1. story' = [story EXCEPT !.online = @ \cup {w}]
    BY <2>a, <2>b
  <2> QED BY <1>0, <2>1 DEF Story
<1>15. Stages'
  <2> SUFFICES ASSUME NEW w \in WorkerIds PROVE Stage(w, primary', worker'[w].process, story')
    BY DEF Stages
  <2>1. Stage(w, primary, worker[w].process, story)
    BY DEF ClusterInv, Stages
  <2> QED BY <1>0, <1>2, <1>6, <1>8, <1>12, <1>13, <1>14, <2>1 DEF Stage
<1>16. ASSUME NEW c \in Calls PROVE \/ job = <<"callback", c>> /\ story'.called[c] = story.called[c] + 1
                                    \/ job # <<"callback", c>> /\ story'.called[c] = story.called[c]
  <2>1. CASE job[1] = "online"
    <3>1. story' = [story EXCEPT !.online = @ \cup {job[2]}]
      BY <2>1 DEF RunClusterJob, job
    <3> QED BY <1>0, <2>1, <3>1 DEF Story
  <2>2. CASE job[1] # "online"
    <3>1. story' = [story EXCEPT !.called[job[2]] = @ + 1]
      BY <2>2 DEF RunClusterJob, job
    <3>2. job[2] \in Calls /\ job = <<"callback", job[2]>>
      BY <1>3, <2>2 DEF Job
    <3>3. story'.called = [story.called EXCEPT ![job[2]] = @ + 1]
      BY <1>0, <3>1 DEF Story
    <3>4. CASE c = job[2]
      BY <1>0, <3>2, <3>3, <3>4 DEF Story
    <3>5. CASE c # job[2]
      BY <1>0, <3>2, <3>3, <3>5 DEF Story
    <3> QED BY <3>4, <3>5
  <2> QED BY <2>1, <2>2
<1>17. Asks'
  <2> SUFFICES ASSUME NEW c \in Calls PROVE Asked(c)'
    BY DEF Asks
  <2>1. Asked(c) /\ Hooked(c)' = Hooked(c)
    BY <1>9 DEF ClusterInv, Asks
  <2>2. /\ Hooked(c)' = {w \in story'.of[c] : ~Told(w, story')}
        /\ primary'.remaining[c] = Cardinality(Hooked(c)')
        /\ \A w \in story'.of[c] : worker'[w].process # "none"
    BY <1>0, <1>2, <1>12, <1>13, <2>1 DEF Asked
  <2>3. CASE job = <<"callback", c>>
    <3>1. story.called[c] = 0 /\ story.of[c] = {} /\ ~(c > story.asked)
      BY <1>3, <1>4, <2>1, <2>3 DEF Asked
    <3>2. story'.called[c] = 1
      BY <1>16, <2>3, <3>1
    <3>3. ASSUME NEW k \in DOMAIN primary'.jobs, primary'.jobs[k] = <<"callback", c>> PROVE FALSE
      <4>1. k + 1 \in DOMAIN primary.jobs /\ primary.jobs[k + 1] = <<"callback", c>>
        BY <1>5, <3>3
      <4>2. 1 \in DOMAIN primary.jobs /\ primary.jobs[1] = <<"callback", c>>
        BY <1>3, <1>4, <2>3
      <4>3. k + 1 = 1
        BY <2>1, <4>1, <4>2 DEF Asked
      <4> QED BY <1>2, <1>3, <1>4, <4>3
    <3>4. Hooked(c)' = {}
      BY <1>12, <2>2, <3>1
    <3> QED BY <1>12, <2>2, <3>1, <3>2, <3>3, <3>4 DEF Asked
  <2>4. CASE job # <<"callback", c>>
    <3>1. story'.called[c] = story.called[c]
      BY <1>16, <2>4
    <3>2. \A k \in DOMAIN primary'.jobs : primary'.jobs[k] = <<"callback", c>> => k + 1 \in DOMAIN primary.jobs /\ primary.jobs[k + 1] = <<"callback", c>>
      BY <1>5
    <3>3. \A k \in DOMAIN primary'.jobs : primary'.jobs[k] = <<"callback", c>> => story'.of[c] = {} /\ story'.called[c] = 0
      BY <1>12, <2>1, <3>1, <3>2 DEF Asked
    <3>4. \A k, m \in DOMAIN primary'.jobs : primary'.jobs[k] = <<"callback", c>> /\ primary'.jobs[m] = <<"callback", c>> => k = m
      <4> SUFFICES ASSUME NEW k \in DOMAIN primary'.jobs, NEW m \in DOMAIN primary'.jobs,
                          primary'.jobs[k] = <<"callback", c>>, primary'.jobs[m] = <<"callback", c>> PROVE k = m
        OBVIOUS
      <4>1. k + 1 = m + 1
        BY <2>1, <3>2 DEF Asked
      <4> QED BY <1>2, <1>3, <1>4, <4>1
    <3>5. c > story'.asked => /\ story'.of[c] = {} /\ story'.called[c] = 0
                              /\ \A k \in DOMAIN primary'.jobs : primary'.jobs[k] # <<"callback", c>>
      BY <1>12, <2>1, <3>1, <3>2 DEF Asked
    <3>6. /\ story'.called[c] \in {0, 1}
          /\ story'.of[c] # {} => (story'.called[c] = 1 <=> Hooked(c)' = {})
      BY <1>12, <2>1, <3>1 DEF Asked
    <3> QED BY <2>2, <3>3, <3>4, <3>5, <3>6 DEF Asked
  <2> QED BY <2>3, <2>4
<1>18. Counted(primary') /\ Once(story'.exits) /\ primary'.live = Cardinality(Unreaped')
  BY <1>2, <1>10, <1>12 DEF ClusterInv, Counted
<1> QED BY <1>7, <1>11, <1>15, <1>17, <1>18 DEF ClusterInv

LEMMA ReapKeeps ==
  ASSUME ClusterInv, ClusterTypeOK', Reap
  PROVE  ClusterInv'
<1>0. /\ primary \in Primary /\ primary' \in Primary /\ story' = story /\ story \in Story
      /\ worker \in [WorkerIds -> WorkerRecord] /\ worker' \in [WorkerIds -> WorkerRecord]
  BY DEF ClusterInv, ClusterTypeOK, Reap
<1>1. PICK order \in SetToSeqs(Zombies) :
         primary' = [primary EXCEPT !.pc = "draining", !.exits = @ \o order, !.live = @ - Len(order)]
  BY DEF Reap
<1>2. Zombies \in SUBSET WorkerIds
  BY DEF Zombies
<1>3. /\ order \in Seq(WorkerIds) /\ Len(order) = Cardinality(Zombies) /\ Once(order)
      /\ \A w : w \in Zombies <=> \E k \in DOMAIN order : order[k] = w
  BY <1>2, OrderOf
<1>4. primary.exits = <<>> /\ primary.emits = <<>> /\ primary.pc = "reaping" /\ primary.state = "up"
  BY DEF ClusterInv, Drain, Reap, Up
<1>5. primary.exits \o order = order
  BY <1>3, <1>4
<1>6. /\ primary'.list = primary.list /\ primary'.exits = order /\ primary'.jobs = primary.jobs /\ primary'.pc = "draining"
      /\ primary'.remaining = primary.remaining /\ primary'.live = primary.live - Len(order) /\ primary'.nextId = primary.nextId
      /\ primary'.emits = primary.emits /\ primary'.state = primary.state
  BY <1>0, <1>1, <1>5 DEF Primary
<1>7. \A w \in WorkerIds : /\ worker'[w].once = worker[w].once
                           /\ w \in Zombies => worker[w].process = "zombie" /\ worker'[w].process = "reaped"
                           /\ w \notin Zombies => worker[w].process # "zombie" /\ worker'[w].process = worker[w].process
  BY <1>0 DEF Reap, Waited, Zombies, WorkerRecord
<1>8. Drain(primary')
  BY <1>4, <1>6 DEF Drain
<1>9. \A w : ~Taken(w, primary) /\ ~Taken(w, primary')
  BY <1>4, <1>6 DEF Taken
<1>10. Stages'
  <2> SUFFICES ASSUME NEW w \in WorkerIds PROVE Stage(w, primary', worker'[w].process, story')
    BY DEF Stages
  <2>1. Stage(w, primary, worker[w].process, story)
    BY DEF ClusterInv, Stages
  <2>2. worker'[w].process # "none" <=> worker[w].process # "none"
    BY <1>7
  <2> QED BY <1>0, <1>6, <1>9, <2>1, <2>2 DEF Stage
<1>11. Asks'
  <2> SUFFICES ASSUME NEW c \in Calls PROVE Asked(c)'
    BY DEF Asks
  <2>1. Asked(c)
    BY DEF ClusterInv, Asks
  <2>2. Hooked(c)' = Hooked(c)
    BY <1>7 DEF Hooked
  <2>3. \A w \in story.of[c] : worker'[w].process # "none"
    BY <1>0, <1>7, <2>1 DEF Asked, Story
  <2> QED BY <1>0, <1>6, <2>1, <2>2, <2>3 DEF Asked
<1>12. primary'.live = Cardinality(Unreaped')
  <2>1. Unreaped' = Unreaped \ Zombies /\ Unreaped \cap Zombies = Zombies
    BY <1>2, <1>7 DEF Unreaped
  <2>2. IsFiniteSet(Unreaped)
    BY SubsetsFinite DEF Unreaped
  <2>3. Cardinality(Unreaped \ Zombies) = Cardinality(Unreaped) - Cardinality(Zombies)
    BY <2>1, <2>2, FS_Difference
  <2> QED BY <1>3, <1>6, <2>1, <2>3 DEF ClusterInv
<1>13. PrimaryWaits'
  BY <1>4, <1>6 DEF PrimaryWaits
<1>14. Once(story'.exits)
  BY <1>0 DEF ClusterInv
<1>15. Counted(primary')
  <2>1. Len(order) \in Nat /\ primary.live \in Int /\ Len(primary.exits) = 0
    BY <1>0, <1>3, <1>4 DEF Primary
  <2> QED BY <1>6, <2>1 DEF ClusterInv, Counted
<1> QED BY <1>15, <1>8, <1>10, <1>11, <1>12, <1>13, <1>14 DEF ClusterInv

LEMMA TakeExitKeeps ==
  ASSUME ClusterInv, ClusterTypeOK', TakeExit
  PROVE  ClusterInv'
<1>0. /\ primary \in Primary /\ primary' \in Primary /\ story' = story /\ story \in Story
      /\ worker \in [WorkerIds -> WorkerRecord] /\ worker' \in [WorkerIds -> WorkerRecord]
  BY DEF ClusterInv, ClusterTypeOK, TakeExit
<1>1. primary.exits # <<>> /\ primary.emits = <<>> /\ primary.pc = "draining" /\ primary.state = "up"
  BY DEF TakeExit, Up
<1>2. PICK id \in Found(Head(primary.exits)) :
         /\ primary' = [primary EXCEPT !.exits = Tail(@), !.list = @ \ {id}, !.emits = <<<<"disconnect", id>>, <<"exit", id>>>>]
         /\ worker' = [worker EXCEPT ![id] = MarkExited(@)]
  BY DEF TakeExit
<1>3. id \in primary.list /\ id \in WorkerIds
  BY <1>0 DEF Found, Primary
<1>4. Len(primary.exits) \in Nat /\ Len(Tail(primary.exits)) = Len(primary.exits) - 1
  BY <1>0, <1>1 DEF Primary
<1>6. /\ primary'.list = primary.list \ {id} /\ primary'.exits = Tail(primary.exits) /\ primary'.jobs = primary.jobs
      /\ primary'.remaining = primary.remaining /\ primary'.live = primary.live /\ primary'.nextId = primary.nextId
      /\ primary'.emits = <<<<"disconnect", id>>, <<"exit", id>>>> /\ primary'.pc = primary.pc /\ primary'.state = primary.state
  BY <1>0, <1>2 DEF Primary
<1>7. \A w \in WorkerIds : worker'[w].once = worker[w].once /\ worker'[w].process = worker[w].process
  <2>1. MarkExited(worker[id]).once = worker[id].once /\ MarkExited(worker[id]).process = worker[id].process
    BY <1>0, <1>3 DEF MarkExited, WorkerRecord
  <2> QED BY <1>0, <1>2, <1>3, <2>1
<1>8. Drain(primary')
  BY <1>1, <1>3, <1>6 DEF Drain
<1>9. \A w : ~Taken(w, primary) /\ (Taken(w, primary') <=> w = id)
  BY <1>1, <1>6 DEF Taken
<1>10. Stages'
  <2> SUFFICES ASSUME NEW w \in WorkerIds PROVE Stage(w, primary', worker'[w].process, story')
    BY DEF Stages
  <2>1. Stage(w, primary, worker[w].process, story)
    BY DEF ClusterInv, Stages
  <2>2. w = id => worker[w].process # "none" /\ ~Told(w, story)
    BY <1>3, <2>1 DEF Stage
  <2>3. w \in primary'.list <=> w \in primary.list /\ w # id
    BY <1>6
  <2> QED BY <1>0, <1>6, <1>7, <1>9, <2>1, <2>2, <2>3 DEF Stage
<1>11. Asks'
  <2> SUFFICES ASSUME NEW c \in Calls PROVE Asked(c)'
    BY DEF Asks
  <2>1. Asked(c)
    BY DEF ClusterInv, Asks
  <2>2. Hooked(c)' = Hooked(c)
    BY <1>7 DEF Hooked
  <2>3. \A w \in story.of[c] : worker'[w].process # "none"
    BY <1>0, <1>7, <2>1 DEF Asked, Story
  <2> QED BY <1>0, <1>6, <2>1, <2>2, <2>3 DEF Asked
<1>12. Unreaped' = Unreaped
  BY <1>7 DEF Unreaped
<1>13. primary'.live = Cardinality(Unreaped') /\ Once(story'.exits)
  BY <1>0, <1>6, <1>12 DEF ClusterInv
<1>14. Counted(primary')
  <2>1. IsFiniteSet(primary.list)
    BY <1>0, SubsetsFinite DEF Primary
  <2>2. Cardinality(primary.list \ {id}) = Cardinality(primary.list) - 1
    BY <1>3, <2>1, FS_RemoveElement
  <2>3. primary.live \in Int
    BY <1>0 DEF Primary
  <2> QED BY <1>4, <1>6, <2>2, <2>3 DEF ClusterInv, Counted
<1>15. PrimaryWaits'
  BY <1>1, <1>6 DEF PrimaryWaits
<1> QED BY <1>8, <1>10, <1>11, <1>13, <1>14, <1>15 DEF ClusterInv

LEMMA EmitExitKeeps ==
  ASSUME ClusterInv, ClusterTypeOK', EmitExit
  PROVE  ClusterInv'
<1> DEFINE id == Head(primary.emits)[2]
           hooks == worker[id].once
           n == Len(story.exits)
<1>0. /\ primary \in Primary /\ primary' \in Primary /\ story \in Story /\ story' \in Story
      /\ worker \in [WorkerIds -> WorkerRecord] /\ worker' \in [WorkerIds -> WorkerRecord]
  BY DEF ClusterInv, ClusterTypeOK
<1>1. primary.emits = <<<<"exit", id>>>> /\ id \in WorkerIds
  <2>0. primary.emits # <<>> /\ Head(primary.emits)[1] = "exit"
    BY DEF EmitExit
  <2>1. ASSUME NEW v \in WorkerIds, primary.emits = <<<<"disconnect", v>>, <<"exit", v>>>> PROVE FALSE
    <3>1. Head(primary.emits) = <<"disconnect", v>>
      BY <2>1
    <3> QED BY <2>0, <3>1
  <2>2. PICK v \in WorkerIds : primary.emits = <<<<"exit", v>>>>
    BY <2>0, <2>1 DEF ClusterInv, Drain
  <2>3. id = v
    BY <2>2
  <2> QED BY <2>2, <2>3
<1>2. Tail(primary.emits) = <<>>
  <2>1. \A x : Tail(<<x>>) = <<>>
    OBVIOUS
  <2> QED BY <1>1, <2>1
<1>3. primary' = [primary EXCEPT !.emits = Tail(@), !.remaining = [c \in Calls |-> IF c \in hooks THEN primary.remaining[c] - 1 ELSE primary.remaining[c]]]
  BY DEF EmitExit
<1>4. story' = [story EXCEPT !.exits = Append(@, id), !.called = [c \in Calls |-> IF c \in hooks /\ LastExitOf(c) THEN story.called[c] + 1 ELSE story.called[c]]]
  BY DEF EmitExit
<1>5. worker' = [worker EXCEPT ![id].once = {}]
  BY DEF EmitExit
<1>6. primary.state = "up" /\ primary.pc = "draining"
  <2>1. primary.emits # <<>> /\ primary.state = "up"
    BY DEF EmitExit, Up
  <2> QED BY <1>0, <2>1 DEF ClusterInv, Drain
<1>7. /\ n \in Nat /\ DOMAIN story.exits = 1..n /\ DOMAIN Append(story.exits, id) = 1..(n + 1)
      /\ Append(story.exits, id)[n + 1] = id /\ \A k \in 1..n : Append(story.exits, id)[k] = story.exits[k]
  BY <1>0, <1>1 DEF Story
<1> HIDE DEF n, id
<1>8. n + 1 \in 1..(n + 1) /\ \A k \in 1..(n + 1) : k \in 1..n \/ k = n + 1
  BY <1>7
<1>9. 1..n \subseteq 1..(n + 1)
  BY <1>7
<1>10. /\ primary'.list = primary.list /\ primary'.exits = primary.exits /\ primary'.jobs = primary.jobs /\ primary'.live = primary.live
       /\ primary'.nextId = primary.nextId /\ primary'.emits = <<>> /\ primary'.pc = primary.pc /\ primary'.state = primary.state
  BY <1>0, <1>2, <1>3 DEF Primary
<1>11. primary'.remaining = [c \in Calls |-> IF c \in hooks THEN primary.remaining[c] - 1 ELSE primary.remaining[c]]
  BY <1>0, <1>3 DEF Primary
<1>12. story'.exits = Append(story.exits, id) /\ story'.online = story.online /\ story'.of = story.of /\ story'.asked = story.asked
  BY <1>0, <1>4 DEF Story
<1>13. story'.called = [c \in Calls |-> IF c \in hooks /\ LastExitOf(c) THEN story.called[c] + 1 ELSE story.called[c]]
  BY <1>0, <1>4 DEF Story
<1>14. /\ \A w \in WorkerIds : worker'[w].process = worker[w].process
       /\ \A w \in WorkerIds : w # id => worker'[w].once = worker[w].once
       /\ worker'[id].once = {}
  BY <1>0, <1>1, <1>5 DEF WorkerRecord
<1>15. /\ \A w : Taken(w, primary) <=> w = id
       /\ \A w : ~Taken(w, primary')
  BY <1>1, <1>10 DEF Taken
<1>16. \A w : Told(w, story') <=> Told(w, story) \/ w = id
  <2>1. Told(id, story')
    BY <1>7, <1>8, <1>12 DEF Told
  <2>2. \A w : Told(w, story) => Told(w, story')
    BY <1>7, <1>9, <1>12 DEF Told
  <2>3. \A w : Told(w, story') => Told(w, story) \/ w = id
    BY <1>7, <1>8, <1>12 DEF Told
  <2> QED BY <2>1, <2>2, <2>3
<1>17. Stage(id, primary, worker[id].process, story)
  BY <1>1 DEF ClusterInv, Stages
<1>18. ~Told(id, story) /\ worker[id].process # "none" /\ id \notin primary.list
  BY <1>15, <1>17 DEF Stage
<1>19. Once(story'.exits)
  <2> SUFFICES ASSUME NEW k \in 1..(n + 1), NEW m \in 1..(n + 1), story'.exits[k] = story'.exits[m] PROVE k = m
    BY <1>7, <1>12 DEF Once
  <2>1. \A i \in 1..n : story'.exits[i] = story.exits[i] /\ story.exits[i] # id
    BY <1>7, <1>12, <1>18 DEF Told
  <2>2. story'.exits[n + 1] = id
    BY <1>7, <1>12
  <2>3. CASE k \in 1..n /\ m \in 1..n
    BY <1>7, <2>1, <2>3 DEF ClusterInv, Once
  <2>4. CASE k = n + 1 \/ m = n + 1
    BY <1>8, <2>1, <2>2, <2>4
  <2> QED BY <1>8, <2>3, <2>4
<1>20. Stages'
  <2> SUFFICES ASSUME NEW w \in WorkerIds PROVE Stage(w, primary', worker'[w].process, story')
    BY DEF Stages
  <2>1. Stage(w, primary, worker[w].process, story)
    BY DEF ClusterInv, Stages
  <2> QED BY <1>10, <1>12, <1>14, <1>15, <1>16, <1>18, <2>1 DEF Stage
<1>21. Asks'
  <2> SUFFICES ASSUME NEW c \in Calls PROVE Asked(c)'
    BY DEF Asks
  <2>1. Asked(c)
    BY DEF ClusterInv, Asks
  <2>2. Hooked(c)' = Hooked(c) \ {id} /\ (id \in Hooked(c) <=> c \in hooks)
    BY <1>1, <1>14 DEF Hooked
  <2>3. IsFiniteSet(Hooked(c))
    BY SubsetsFinite DEF Hooked
  <2>4. Hooked(c)' = {w \in story'.of[c] : ~Told(w, story')}
    BY <1>12, <1>16, <2>1, <2>2 DEF Asked
  <2>5. \A w \in story'.of[c] : worker'[w].process # "none"
    BY <1>0, <1>12, <1>14, <2>1 DEF Asked, Story
  <2>6. CASE c \in hooks
    <3>1. id \in Hooked(c) /\ story.of[c] # {} /\ Hooked(c) # {}
      BY <2>1, <2>2, <2>6 DEF Asked
    <3>2. story.called[c] = 0 /\ ~(c > story.asked) /\ \A k \in DOMAIN primary.jobs : primary.jobs[k] # <<"callback", c>>
      BY <2>1, <3>1 DEF Asked
    <3>3. primary'.remaining[c] = Cardinality(Hooked(c)')
      <4>1. Cardinality(Hooked(c) \ {id}) = Cardinality(Hooked(c)) - 1
        BY <2>3, <3>1, FS_RemoveElement
      <4>2. primary'.remaining[c] = primary.remaining[c] - 1
        BY <1>11, <2>6
      <4> QED BY <2>1, <2>2, <4>1, <4>2 DEF Asked
    <3>4. LastExitOf(c) <=> Hooked(c) = {id}
      <4>1. LastExitOf(c) <=> Cardinality(Hooked(c)) = 1
        BY <2>1 DEF Asked, LastExitOf
      <4>2. Cardinality(Hooked(c)) = 1 <=> \E x : Hooked(c) = {x}
        BY <2>3, FS_Singleton
      <4>3. (\E x : Hooked(c) = {x}) <=> Hooked(c) = {id}
        <5>1. ASSUME NEW x, Hooked(c) = {x} PROVE Hooked(c) = {id}
          <6>1. id = x
            BY <3>1, <5>1
          <6> QED BY <5>1, <6>1
        <5> QED BY <5>1
      <4> QED BY <4>1, <4>2, <4>3
    <3>5. story'.called[c] = IF Hooked(c)' = {} THEN 1 ELSE 0
      <4>1. Hooked(c)' = {} <=> LastExitOf(c)
        BY <2>2, <3>1, <3>4
      <4>2. story'.called[c] = IF LastExitOf(c) THEN story.called[c] + 1 ELSE story.called[c]
        BY <1>13, <2>6
      <4>3. story'.called[c] = IF LastExitOf(c) THEN 1 ELSE 0
        BY <3>2, <4>2
      <4> QED BY <4>1, <4>3
    <3> QED BY <1>10, <1>12, <2>4, <2>5, <3>1, <3>2, <3>3, <3>5 DEF Asked
  <2>7. CASE c \notin hooks
    <3>1. Hooked(c)' = Hooked(c)
      BY <2>2, <2>7
    <3>2. primary'.remaining[c] = primary.remaining[c] /\ story'.called[c] = story.called[c]
      BY <1>11, <1>13, <2>7
    <3> QED BY <1>10, <1>12, <2>1, <2>4, <2>5, <3>1, <3>2 DEF Asked
  <2> QED BY <2>6, <2>7
<1>22. Unreaped' = Unreaped
  BY <1>14 DEF Unreaped
<1>23. primary'.live = Cardinality(Unreaped') /\ Counted(primary')
  BY <1>10, <1>22 DEF ClusterInv, Counted
<1>24. PrimaryWaits' /\ Drain(primary')
  BY <1>6, <1>10 DEF PrimaryWaits, Drain
<1> QED BY <1>19, <1>20, <1>21, <1>23, <1>24 DEF ClusterInv

LEMMA DisconnectKeeps ==
  ASSUME ClusterInv, ClusterTypeOK', DisconnectAll
  PROVE  ClusterInv'
<1> DEFINE n == Len(primary.jobs)
<1>0. /\ primary \in Primary /\ primary' \in Primary /\ story \in Story /\ story' \in Story
      /\ worker \in [WorkerIds -> WorkerRecord] /\ worker' \in [WorkerIds -> WorkerRecord] /\ Calls \subseteq Nat
  BY IdsFinite DEF ClusterInv, ClusterTypeOK
<1>c. story.asked + 1 \in Calls /\ story.asked + 1 > story.asked
  BY <1>0, ClusterAssumption DEF DisconnectAll, Story, Calls
<1>1. PICK c0 \in Calls : c0 = story.asked + 1 /\ c0 > story.asked
  BY <1>c
<1>2. \A c \in Calls : c > c0 => c > story.asked
  BY <1>0, <1>1 DEF Story
<1>3. story' = [story EXCEPT !.asked = c0, !.of[c0] = primary.list]
  BY <1>1 DEF DisconnectAll
<1>a. primary.state = "up" /\ primary.pc # "reaping"
  BY DEF DisconnectAll, InProgram, Up
<1>b. n \in Nat /\ DOMAIN primary.jobs = 1..n
  BY <1>0 DEF Primary
<1> HIDE DEF n
<1>4. /\ story'.asked = c0 /\ story'.online = story.online /\ story'.exits = story.exits /\ story'.called = story.called
      /\ story'.of = [story.of EXCEPT ![c0] = primary.list]
  BY <1>0, <1>3 DEF Story
<1>5. story'.of[c0] = primary.list /\ \A c \in Calls : c # c0 => story'.of[c] = story.of[c]
  BY <1>0, <1>1, <1>4 DEF Story
<1>6. \A w : Told(w, story') <=> Told(w, story)
  BY <1>4 DEF Told
<1>7. /\ story.of[c0] = {} /\ story.called[c0] = 0 /\ \A k \in DOMAIN primary.jobs : primary.jobs[k] # <<"callback", c0>>
      /\ Hooked(c0) = {} /\ primary.remaining[c0] = 0
  BY <1>1, FS_EmptySet DEF ClusterInv, Asks, Asked
<1>8. \A c \in Calls : c > story'.asked => c > story.asked /\ c # c0
  <2>1. \A c \in Calls : c > c0 => c # c0
    BY <1>0, <1>1
  <2> QED BY <1>2, <1>4, <2>1
<1>9. CASE primary.list = {}
  <2>1. primary' = [primary EXCEPT !.jobs = Append(@, <<"callback", c0>>)] /\ worker' = worker
    BY <1>1, <1>9 DEF DisconnectAll
  <2>2. /\ primary'.list = primary.list /\ primary'.exits = primary.exits /\ primary'.jobs = Append(primary.jobs, <<"callback", c0>>)
        /\ primary'.remaining = primary.remaining /\ primary'.live = primary.live /\ primary'.nextId = primary.nextId
        /\ primary'.emits = primary.emits /\ primary'.pc = primary.pc /\ primary'.state = primary.state
    BY <1>0, <2>1 DEF Primary
  <2>3. /\ DOMAIN primary'.jobs = 1..(n + 1) /\ primary'.jobs[n + 1] = <<"callback", c0>>
        /\ \A k \in 1..n : primary'.jobs[k] = primary.jobs[k]
    BY <1>0, <1>b, <2>2 DEF Primary, n
  <2>4. n + 1 \in 1..(n + 1) /\ 1..n \subseteq 1..(n + 1) /\ \A k \in 1..(n + 1) : k \in 1..n \/ k = n + 1
    BY <1>b
  <2>5. \A w : Taken(w, primary') <=> Taken(w, primary)
    BY <2>2 DEF Taken
  <2>6. \A w : (\E k \in DOMAIN primary.jobs : primary.jobs[k] = <<"online", w>>) => \E k \in DOMAIN primary'.jobs : primary'.jobs[k] = <<"online", w>>
    BY <1>b, <2>3, <2>4
  <2>7. Stages'
    <3> SUFFICES ASSUME NEW w \in WorkerIds PROVE Stage(w, primary', worker'[w].process, story')
      BY DEF Stages
    <3>1. Stage(w, primary, worker[w].process, story)
      BY DEF ClusterInv, Stages
    <3> QED BY <1>4, <1>6, <2>1, <2>2, <2>5, <2>6, <3>1 DEF Stage
  <2>8. \A c \in Calls : Hooked(c)' = Hooked(c)
    BY <2>1 DEF Hooked
  <2>9. Asks'
    <3> SUFFICES ASSUME NEW c \in Calls PROVE Asked(c)'
      BY DEF Asks
    <3>1. Asked(c) /\ Hooked(c)' = Hooked(c) /\ story'.of[c] = story.of[c]
      BY <1>5, <1>7, <1>9, <2>8 DEF ClusterInv, Asks
    <3>2. /\ Hooked(c)' = {w \in story'.of[c] : ~Told(w, story')}
          /\ primary'.remaining[c] = Cardinality(Hooked(c)')
          /\ \A w \in story'.of[c] : worker'[w].process # "none"
      BY <1>6, <2>1, <2>2, <3>1 DEF Asked
    <3>3. /\ story'.called[c] \in {0, 1}
          /\ story'.of[c] # {} => (story'.called[c] = 1 <=> Hooked(c)' = {})
      BY <1>4, <3>1 DEF Asked
    <3>4. CASE c = c0
      <4>1. \A k \in DOMAIN primary'.jobs : primary'.jobs[k] = <<"callback", c>> => k = n + 1
        BY <1>7, <1>b, <2>3, <2>4, <3>4
      <4>2. ~(c > story'.asked) /\ story'.called[c] = 0 /\ story'.of[c] = {}
        BY <1>4, <1>5, <1>7, <1>8, <1>9, <3>4
      <4> QED BY <3>2, <3>3, <4>1, <4>2 DEF Asked
    <3>5. CASE c # c0
      <4>1. \A k \in DOMAIN primary'.jobs : primary'.jobs[k] = <<"callback", c>> => k \in DOMAIN primary.jobs /\ primary.jobs[k] = <<"callback", c>>
        BY <1>b, <2>3, <2>4, <3>5
      <4>2. \A k \in DOMAIN primary'.jobs : primary'.jobs[k] = <<"callback", c>> => story'.of[c] = {} /\ story'.called[c] = 0
        BY <1>4, <3>1, <4>1 DEF Asked
      <4>3. \A k, m \in DOMAIN primary'.jobs : primary'.jobs[k] = <<"callback", c>> /\ primary'.jobs[m] = <<"callback", c>> => k = m
        BY <3>1, <4>1 DEF Asked
      <4>4. c > story'.asked => /\ story'.of[c] = {} /\ story'.called[c] = 0
                                /\ \A k \in DOMAIN primary'.jobs : primary'.jobs[k] # <<"callback", c>>
        BY <1>4, <1>8, <3>1, <4>1 DEF Asked
      <4> QED BY <3>2, <3>3, <4>2, <4>3, <4>4 DEF Asked
    <3> QED BY <3>4, <3>5
  <2>10. Unreaped' = Unreaped
    BY <2>1 DEF Unreaped
  <2>11. /\ Drain(primary') /\ PrimaryWaits' /\ primary'.live = Cardinality(Unreaped')
         /\ Counted(primary') /\ Once(story'.exits)
    BY <1>4, <1>a, <2>2, <2>10 DEF ClusterInv, Counted, Drain, PrimaryWaits
  <2> QED BY <2>7, <2>9, <2>11 DEF ClusterInv
<1>10. CASE primary.list # {}
  <2>1. primary' = [primary EXCEPT !.remaining[c0] = Cardinality(primary.list)]
    BY <1>1, <1>10 DEF DisconnectAll
  <2> DEFINE sent == Signalled(primary.list)
  <2>a. \A w \in WorkerIds : sent[w] \in WorkerRecord /\ sent[w].once = worker[w].once /\ sent[w].process = worker[w].process
    BY <1>0, SignalledFacts
  <2>2. worker' = [w \in WorkerIds |-> IF w \in primary.list THEN Leaving([sent[w] EXCEPT !.once = @ \cup {c0}]) ELSE sent[w]]
    BY <1>1, <1>10 DEF DisconnectAll
  <2> HIDE DEF sent
  <2>3. /\ primary'.list = primary.list /\ primary'.exits = primary.exits /\ primary'.jobs = primary.jobs
        /\ primary'.live = primary.live /\ primary'.nextId = primary.nextId
        /\ primary'.emits = primary.emits /\ primary'.pc = primary.pc /\ primary'.state = primary.state
    BY <1>0, <2>1 DEF Primary
  <2>4. primary'.remaining = [primary.remaining EXCEPT ![c0] = Cardinality(primary.list)]
    BY <1>0, <2>1 DEF Primary
  <2>5. primary'.remaining[c0] = Cardinality(primary.list) /\ \A c \in Calls : c # c0 => primary'.remaining[c] = primary.remaining[c]
    BY <1>0, <1>1, <2>4 DEF Primary
  <2>6. ASSUME NEW w \in WorkerIds
        PROVE  /\ worker'[w].process = worker[w].process
               /\ w \in primary.list => worker'[w].once = worker[w].once \cup {c0}
               /\ w \notin primary.list => worker'[w].once = worker[w].once
    <3>1. /\ Leaving([sent[w] EXCEPT !.once = @ \cup {c0}]).process = sent[w].process
          /\ Leaving([sent[w] EXCEPT !.once = @ \cup {c0}]).once = sent[w].once \cup {c0}
      BY <2>6, <2>a DEF Leaving, WorkerRecord
    <3>2. \/ w \in primary.list /\ worker'[w] = Leaving([sent[w] EXCEPT !.once = @ \cup {c0}])
          \/ w \notin primary.list /\ worker'[w] = sent[w]
      BY <2>2, <2>6
    <3> QED BY <2>6, <2>a, <3>1, <3>2
  <2>7. \A w : Taken(w, primary') <=> Taken(w, primary)
    BY <2>3 DEF Taken
  <2>8. Stages'
    <3> SUFFICES ASSUME NEW w \in WorkerIds PROVE Stage(w, primary', worker'[w].process, story')
      BY DEF Stages
    <3>1. Stage(w, primary, worker[w].process, story)
      BY DEF ClusterInv, Stages
    <3> QED BY <1>4, <1>6, <2>3, <2>6, <2>7, <3>1 DEF Stage
  <2>9. primary.list \subseteq WorkerIds
    BY <1>0 DEF Primary
  <2>10. Hooked(c0)' = primary.list /\ \A c \in Calls : c # c0 => Hooked(c)' = Hooked(c)
    <3>1. \A w \in WorkerIds : c0 \notin worker[w].once
      BY <1>7 DEF Hooked
    <3> QED BY <2>6, <2>9, <3>1 DEF Hooked
  <2>11. Asks'
    <3> SUFFICES ASSUME NEW c \in Calls PROVE Asked(c)'
      BY DEF Asks
    <3>1. Asked(c)
      BY DEF ClusterInv, Asks
    <3>2. CASE c = c0
      <4>1. \A w \in primary.list : ~Told(w, story) /\ worker[w].process # "none"
        BY <2>9 DEF ClusterInv, Stages, Stage
      <4>2. /\ Hooked(c)' = {w \in story'.of[c] : ~Told(w, story')}
            /\ primary'.remaining[c] = Cardinality(Hooked(c)')
            /\ \A w \in story'.of[c] : worker'[w].process # "none"
        BY <1>5, <1>6, <2>5, <2>6, <2>9, <2>10, <3>2, <4>1
      <4>3. story'.called[c] = 0 /\ Hooked(c)' # {} /\ ~(c > story'.asked) /\ \A k \in DOMAIN primary'.jobs : primary'.jobs[k] # <<"callback", c>>
        BY <1>4, <1>7, <1>8, <1>10, <2>3, <2>10, <3>2
      <4> QED BY <4>2, <4>3 DEF Asked
    <3>3. CASE c # c0
      <4>1. /\ Hooked(c)' = Hooked(c) /\ story'.of[c] = story.of[c] /\ primary'.remaining[c] = primary.remaining[c]
            /\ story'.called[c] = story.called[c] /\ (c > story'.asked => c > story.asked)
        BY <1>4, <1>5, <1>8, <2>5, <2>10, <3>3
      <4>2. \A w \in story.of[c] : worker'[w].process # "none"
        BY <1>0, <2>6, <3>1 DEF Asked, Story
      <4> QED BY <1>6, <2>3, <3>1, <4>1, <4>2 DEF Asked
    <3> QED BY <3>2, <3>3
  <2>12. Unreaped' = Unreaped
    BY <2>6 DEF Unreaped
  <2>13. /\ Drain(primary') /\ PrimaryWaits' /\ primary'.live = Cardinality(Unreaped')
         /\ Counted(primary') /\ Once(story'.exits)
    BY <1>4, <1>a, <2>3, <2>12 DEF ClusterInv, Counted, Drain, PrimaryWaits
  <2> QED BY <2>8, <2>11, <2>13 DEF ClusterInv
<1> QED BY <1>9, <1>10

----------------
LEMMA ClusterStart == ClusterInit => ClusterInv
<1> SUFFICES ASSUME ClusterInit PROVE ClusterInv
  OBVIOUS
<1>1. ClusterTypeOK
  BY IdsFinite DEF ClusterInit, ClusterTypeOK, Primary, WorkerRecord, Story
<1>2. /\ primary.exits = <<>> /\ primary.emits = <<>> /\ primary.jobs = <<>> /\ primary.list = {} /\ primary.pc = "idle"
      /\ primary.live = 0 /\ primary.state = "up" /\ story.exits = <<>>
      /\ \A w \in WorkerIds : worker[w].process = "none" /\ worker[w].once = {}
      /\ \A c \in Calls : primary.remaining[c] = 0 /\ story.of[c] = {} /\ story.called[c] = 0
  BY DEF ClusterInit
<1>3. Drain(primary) /\ Once(story.exits) /\ PrimaryWaits
  BY <1>2 DEF Drain, Once, PrimaryWaits
<1>4. Stages
  BY <1>2 DEF Stages, Stage, Taken, Told
<1>5. Unreaped = {} /\ \A c \in Calls : Hooked(c) = {}
  BY <1>2 DEF Unreaped, Hooked
<1>6. Asks
  <2> SUFFICES ASSUME NEW c \in Calls PROVE Asked(c)
    BY DEF Asks
  <2>a. Cardinality(Hooked(c)) = 0
    BY <1>5, FS_EmptySet
  <2>b. DOMAIN primary.jobs = {}
    BY <1>2
  <2>1. Cardinality(Hooked(c)) = 0 /\ DOMAIN primary.jobs = {}
    BY <2>a, <2>b
  <2>2. Hooked(c) = {w \in story.of[c] : ~Told(w, story)}
    BY <1>2, <1>5
  <2> QED BY <1>2, <2>1, <2>2 DEF Asked
<1>7. primary.live = Cardinality(Unreaped) /\ Counted(primary)
  <2>1. Cardinality({}) = 0 /\ Len(primary.exits) = 0
    BY <1>2, FS_EmptySet
  <2> QED BY <1>2, <1>5, <2>1 DEF Counted
<1> QED BY <1>1, <1>3, <1>4, <1>6, <1>7 DEF ClusterInv

LEMMA ClusterStep == ClusterInv /\ [ClusterNext]_clusterVars => ClusterInv'
<1> SUFFICES ASSUME ClusterInv, [ClusterNext]_clusterVars PROVE ClusterInv'
  OBVIOUS
<1>1. CASE UNCHANGED clusterVars
  <2>1. primary' = primary /\ worker' = worker /\ story' = story
    BY <1>1 DEF clusterVars
  <2>2. /\ ClusterTypeOK' /\ Stages' /\ Unreaped' = Unreaped /\ PrimaryWaits' /\ Drain(primary')
        /\ Counted(primary') /\ Once(story'.exits)
    BY <2>1 DEF ClusterInv, ClusterTypeOK, Stages, Unreaped, PrimaryWaits
  <2>3. Asks'
    BY <2>1 DEF ClusterInv, Asks, Asked, Hooked
  <2> QED BY <2>1, <2>2, <2>3 DEF ClusterInv
<1>2. CASE ClusterNext
  <2>1. ClusterTypeOK'
    BY <1>2, TypesKept
  <2>2. ASSUME NEW n \in Pids, Fork(n) PROVE ClusterInv'
    BY <2>1, <2>2, ForkKeeps
  <2>3. CASE DisconnectAll
    BY <2>1, <2>3, DisconnectKeeps
  <2>4. CASE RunClusterJob
    BY <2>1, <2>4, RunClusterJobKeeps
  <2>5. CASE Reap
    BY <2>1, <2>5, ReapKeeps
  <2>6. CASE TakeExit
    BY <2>1, <2>6, TakeExitKeeps
  <2>7. CASE EmitDisconnect
    BY <2>1, <2>7, EmitDisconnectKeeps
  <2>8. CASE EmitExit
    BY <2>1, <2>8, EmitExitKeeps
  <2>9. CASE PrimaryQuits
    BY <2>1, <2>9, PrimaryQuitsKeeps
  <2>10. CASE \/ ForkFails \/ ChildrenReady \/ ExitsDrained \/ PrimaryDies
              \/ \E id \in WorkerIds : Kill(id) \/ ProcessKill(id) \/ (worker[id].process = "running" /\ ProcessEnds(id))
    BY <2>1, <2>10, CalmActions
  <2> QED BY <1>2, <2>2, <2>3, <2>4, <2>5, <2>6, <2>7, <2>8, <2>9, <2>10
          DEF ClusterNext, WorkerExits, WorkerTerminated, ChannelCloses
<1> QED BY <1>1, <1>2

----------------
(* Pids.  While no pid comes back before the exit that has it is drained,   *)
(* the search by pid finds the worker whose process ended.                 *)
LEMMA PidTypeKept == ClusterInv /\ PidType /\ [ClusterNext]_clusterVars => PidType'
<1> SUFFICES ASSUME ClusterInv, PidType, [ClusterNext]_clusterVars PROVE PidType'
  OBVIOUS
<1>1. ASSUME NEW n \in Pids, Fork(n) PROVE PidType'
  BY <1>1 DEF Fork, PidType
<1>2. CASE pid' = pid /\ recycled' = recycled
  BY <1>2 DEF PidType
<1> QED BY <1>1, <1>2 DEF ClusterNext, clusterVars, ForkFails, DisconnectAll, RunClusterJob, ChildrenReady, Reap, TakeExit,
      EmitDisconnect, EmitExit, ExitsDrained, PrimaryQuits, PrimaryDies, Kill, ProcessKill, WorkerExits, WorkerTerminated,
      ChannelCloses, ProcessEnds

\* Steps that neither list, reap, take nor tell.
LEMMA ApartFrame ==
  ASSUME Apart, pid' = pid, primary'.list = primary.list, primary'.exits = primary.exits, story'.exits = story.exits,
         \A w \in WorkerIds : Taken(w, primary') <=> Taken(w, primary),
         \A w \in WorkerIds : worker'[w].process = "reaped" <=> worker[w].process = "reaped"
  PROVE  Apart'
<1>1. PidsApart' /\ Once(primary'.exits)
  BY DEF Apart, PidsApart
<1>2. ASSUME NEW w \in WorkerIds PROVE HasEnded(w, primary', worker'[w].process, story')
  <2>1. HasEnded(w, primary, worker[w].process, story)
    BY <1>2 DEF Apart
  <2>2. (Waiting(w, primary') <=> Waiting(w, primary)) /\ (Told(w, story') <=> Told(w, story))
    BY DEF Waiting, Told
  <2> QED BY <1>2, <2>1, <2>2 DEF HasEnded
<1> QED BY <1>1, <1>2 DEF Apart

LEMMA ForkApart ==
  ASSUME ClusterInv, PidType, Apart, NEW n, Fork(n), ~recycled' PROVE Apart'
<1>0. primary \in Primary /\ worker \in [WorkerIds -> WorkerRecord] /\ story' = story
  BY DEF ClusterInv, ClusterTypeOK, Fork
<1>c. primary.nextId + 1 \in WorkerIds /\ ~(primary.nextId + 1 <= primary.nextId)
  BY <1>0, ClusterAssumption DEF Fork, Primary, WorkerIds
<1>1. PICK id \in WorkerIds : id = primary.nextId + 1 /\ ~(id <= primary.nextId)
  BY <1>c
<1>2. primary' = [primary EXCEPT !.nextId = id, !.list = @ \cup {id}, !.live = @ + 1, !.jobs = Append(@, <<"online", id>>)]
  BY <1>1 DEF Fork
<1>3. worker' = [worker EXCEPT ![id].process = "running"] /\ pid' = [pid EXCEPT ![id] = n]
  BY <1>1 DEF Fork
<1>4. \A w \in primary.list : pid[w] # n
  BY DEF Fork
<1>5. primary'.list = primary.list \cup {id} /\ primary'.exits = primary.exits /\ primary'.emits = primary.emits
  BY <1>0, <1>2 DEF Primary
<1>6. worker[id].process = "none" /\ id \notin primary.list
  BY <1>1 DEF ClusterInv, Stages, Stage
<1>7. worker'[id].process = "running" /\ \A w \in WorkerIds : w # id => worker'[w] = worker[w]
  BY <1>0, <1>3 DEF WorkerRecord
<1>8. pid'[id] = n /\ \A w \in primary.list : pid'[w] = pid[w]
  <2>1. primary.list \subseteq WorkerIds
    BY <1>0 DEF Primary
  <2> QED BY <1>3, <1>6, <2>1 DEF PidType
<1>9. PidsApart'
  BY <1>4, <1>5, <1>8 DEF PidsApart, Apart
<1>10. ASSUME NEW w \in WorkerIds PROVE HasEnded(w, primary', worker'[w].process, story')
  <2>1. HasEnded(w, primary, worker[w].process, story)
    BY <1>10 DEF Apart
  <2>2. (Waiting(w, primary') <=> Waiting(w, primary)) /\ (Taken(w, primary') <=> Taken(w, primary))
    BY <1>5 DEF Waiting, Taken
  <2>3. worker'[w].process = "reaped" <=> worker[w].process = "reaped"
    BY <1>6, <1>7, <1>10
  <2>4. w \in primary.list => w \in primary'.list
    BY <1>5
  <2> QED BY <1>0, <2>1, <2>2, <2>3, <2>4 DEF HasEnded
<1> QED BY <1>5, <1>9, <1>10 DEF Apart

LEMMA ReapApart ==
  ASSUME ClusterInv, Apart, Reap PROVE Apart'
<1>0. primary \in Primary /\ worker \in [WorkerIds -> WorkerRecord] /\ story' = story /\ pid' = pid
  BY DEF ClusterInv, ClusterTypeOK, Reap
<1>1. PICK order \in SetToSeqs(Zombies) :
         primary' = [primary EXCEPT !.pc = "draining", !.exits = @ \o order, !.live = @ - Len(order)]
  BY DEF Reap
<1>2. /\ order \in Seq(WorkerIds) /\ Once(order)
      /\ \A w : w \in Zombies <=> \E k \in DOMAIN order : order[k] = w
  <2>1. Zombies \in SUBSET WorkerIds
    BY DEF Zombies
  <2> QED BY <2>1, OrderOf
<1>3. primary.exits = <<>> /\ primary.emits = <<>>
  BY DEF ClusterInv, Drain, Reap
<1>4. primary.exits \o order = order
  BY <1>2, <1>3
<1>5. primary'.list = primary.list /\ primary'.exits = order /\ primary'.emits = primary.emits
  BY <1>0, <1>1, <1>4 DEF Primary
<1>6. ASSUME NEW w \in WorkerIds
      PROVE  /\ w \in Zombies => worker[w].process = "zombie" /\ worker'[w].process = "reaped"
             /\ w \notin Zombies => worker'[w].process = worker[w].process
  BY <1>0, <1>6 DEF Reap, Waited, Zombies, WorkerRecord
<1>7. ASSUME NEW w \in WorkerIds PROVE HasEnded(w, primary', worker'[w].process, story')
  <2>1. HasEnded(w, primary, worker[w].process, story) /\ Stage(w, primary, worker[w].process, story)
    BY <1>7 DEF Apart, ClusterInv, Stages
  <2>2. ~Waiting(w, primary) /\ ~Taken(w, primary) /\ ~Taken(w, primary') /\ (Waiting(w, primary') <=> w \in Zombies)
    BY <1>2, <1>3, <1>5 DEF Waiting, Taken
  <2>3. CASE w \in Zombies
    <3>1. worker[w].process = "zombie" /\ worker'[w].process = "reaped"
      BY <1>6, <1>7, <2>3
    <3>2. ~Told(w, story) /\ w \in primary.list
      BY <2>1, <2>2, <3>1 DEF HasEnded, Stage
    <3> QED BY <1>5, <2>2, <2>3, <3>1, <3>2 DEF HasEnded
  <2>4. CASE w \notin Zombies
    <3>1. worker'[w].process = worker[w].process
      BY <1>6, <1>7, <2>4
    <3> QED BY <1>0, <2>1, <2>2, <2>4, <3>1 DEF HasEnded
  <2> QED BY <2>3, <2>4
<1> QED BY <1>0, <1>2, <1>5, <1>7 DEF Apart, PidsApart

LEMMA TakeExitApart ==
  ASSUME ClusterInv, Apart, TakeExit PROVE Apart'
<1> DEFINE n == Len(primary.exits)
<1>0. primary \in Primary /\ worker \in [WorkerIds -> WorkerRecord] /\ story' = story /\ pid' = pid
  BY DEF ClusterInv, ClusterTypeOK, TakeExit
<1>1. primary.exits # <<>> /\ primary.emits = <<>>
  BY DEF TakeExit
<1>2. PICK id \in Found(Head(primary.exits)) :
         /\ primary' = [primary EXCEPT !.exits = Tail(@), !.list = @ \ {id}, !.emits = <<<<"disconnect", id>>, <<"exit", id>>>>]
         /\ worker' = [worker EXCEPT ![id] = MarkExited(@)]
  BY DEF TakeExit
<1>3. /\ Head(primary.exits) \in WorkerIds /\ Head(primary.exits) = primary.exits[1] /\ n \in Nat /\ n > 0
      /\ DOMAIN primary.exits = 1..n /\ DOMAIN Tail(primary.exits) = 1..(n - 1)
      /\ \A k \in 1..(n - 1) : Tail(primary.exits)[k] = primary.exits[k + 1]
  BY <1>0, <1>1 DEF Primary
<1> HIDE DEF n
<1>4. /\ 1 \in 1..n /\ \A k \in 1..n : k # 1 => k - 1 \in 1..(n - 1) /\ (k - 1) + 1 = k
      /\ \A k \in 1..(n - 1) : k + 1 \in 1..n /\ k + 1 # 1
      /\ \A k, m \in 1..(n - 1) : k + 1 = m + 1 => k = m
  BY <1>3
<1>5. id = Head(primary.exits)
  <2>1. Waiting(Head(primary.exits), primary)
    BY <1>3, <1>4 DEF Waiting
  <2>2. Head(primary.exits) \in primary.list
    BY <1>3, <2>1 DEF Apart, HasEnded
  <2>3. id \in primary.list /\ pid[id] = pid[Head(primary.exits)]
    BY DEF Found
  <2> QED BY <2>2, <2>3 DEF Apart, PidsApart
<1>6. /\ primary'.list = primary.list \ {id} /\ primary'.exits = Tail(primary.exits)
      /\ primary'.emits = <<<<"disconnect", id>>, <<"exit", id>>>>
  BY <1>0, <1>2 DEF Primary
<1>7. \A w \in WorkerIds : worker'[w].process = worker[w].process
  <2>1. MarkExited(worker[id]).process = worker[id].process
    BY <1>0, <1>3, <1>5 DEF MarkExited, WorkerRecord
  <2> QED BY <1>0, <1>2, <1>3, <1>5, <2>1
<1>8. \A w : ~Taken(w, primary) /\ (Taken(w, primary') <=> w = id)
  BY <1>1, <1>6 DEF Taken
<1>9. Once(primary.exits)
  BY DEF Apart
<1>10. ASSUME NEW w PROVE Waiting(w, primary') <=> Waiting(w, primary) /\ w # id
  <2>1. ASSUME Waiting(w, primary') PROVE Waiting(w, primary) /\ w # id
    <3>1. PICK k \in 1..(n - 1) : Tail(primary.exits)[k] = w
      BY <1>3, <1>6, <2>1 DEF Waiting
    <3>2. k + 1 \in DOMAIN primary.exits /\ primary.exits[k + 1] = w /\ k + 1 # 1
      BY <1>3, <1>4, <3>1
    <3> QED BY <1>3, <1>4, <1>5, <1>9, <3>2 DEF Waiting, Once
  <2>2. ASSUME Waiting(w, primary), w # id PROVE Waiting(w, primary')
    <3>1. PICK k \in 1..n : primary.exits[k] = w
      BY <1>3, <2>2 DEF Waiting
    <3>2. k - 1 \in 1..(n - 1) /\ (k - 1) + 1 = k
      BY <1>3, <1>4, <1>5, <2>2, <3>1
    <3>3. k - 1 \in DOMAIN primary'.exits /\ primary'.exits[k - 1] = w
      BY <1>3, <1>6, <3>1, <3>2
    <3> QED BY <3>3 DEF Waiting
  <2> QED BY <2>1, <2>2
<1>11. Waiting(id, primary)
  BY <1>3, <1>4, <1>5 DEF Waiting
<1>12. Once(primary'.exits)
  <2> SUFFICES ASSUME NEW k \in 1..(n - 1), NEW m \in 1..(n - 1), Tail(primary.exits)[k] = Tail(primary.exits)[m] PROVE k = m
    BY <1>3, <1>6 DEF Once
  <2>1. k + 1 \in DOMAIN primary.exits /\ m + 1 \in DOMAIN primary.exits /\ primary.exits[k + 1] = primary.exits[m + 1]
    BY <1>3, <1>4
  <2>2. k + 1 = m + 1
    BY <1>9, <2>1 DEF Once
  <2> QED BY <1>4, <2>2
<1>13. ASSUME NEW w \in WorkerIds PROVE HasEnded(w, primary', worker'[w].process, story')
  <2>1. HasEnded(w, primary, worker[w].process, story)
    BY <1>13 DEF Apart
  <2>2. /\ Waiting(w, primary') <=> Waiting(w, primary) /\ w # id
        /\ ~Taken(w, primary) /\ (Taken(w, primary') <=> w = id)
        /\ worker'[w].process = worker[w].process
    BY <1>7, <1>8, <1>10, <1>13
  <2>3. w \in primary.list /\ w # id => w \in primary'.list
    BY <1>6
  <2>4. w = id => Waiting(w, primary)
    BY <1>11
  <2> QED BY <1>0, <2>1, <2>2, <2>3, <2>4 DEF HasEnded
<1>14. PidsApart'
  BY <1>0, <1>6 DEF PidsApart, Apart
<1> QED BY <1>12, <1>13, <1>14 DEF Apart

LEMMA EmitExitApart ==
  ASSUME ClusterInv, Apart, EmitExit PROVE Apart'
<1> DEFINE id == Head(primary.emits)[2]
           n == Len(story.exits)
<1>0. /\ primary \in Primary /\ story \in Story /\ worker \in [WorkerIds -> WorkerRecord] /\ pid' = pid
  BY DEF ClusterInv, ClusterTypeOK, EmitExit
<1>1. primary.emits = <<<<"exit", id>>>> /\ id \in WorkerIds
  <2>0. primary.emits # <<>> /\ Head(primary.emits)[1] = "exit"
    BY DEF EmitExit
  <2>1. ASSUME NEW v \in WorkerIds, primary.emits = <<<<"disconnect", v>>, <<"exit", v>>>> PROVE FALSE
    <3>1. Head(primary.emits) = <<"disconnect", v>>
      BY <2>1
    <3> QED BY <2>0, <3>1
  <2>2. PICK v \in WorkerIds : primary.emits = <<<<"exit", v>>>>
    BY <2>0, <2>1 DEF ClusterInv, Drain
  <2>3. id = v
    BY <2>2
  <2> QED BY <2>2, <2>3
<1>2. primary'.list = primary.list /\ primary'.exits = primary.exits /\ primary'.emits = Tail(primary.emits)
  BY <1>0 DEF EmitExit, Primary
<1>3. Tail(primary.emits) = <<>>
  <2>1. \A x : Tail(<<x>>) = <<>>
    OBVIOUS
  <2> QED BY <1>1, <2>1
<1>4. story'.exits = Append(story.exits, id)
  BY <1>0 DEF EmitExit, Story
<1>5. worker' = [worker EXCEPT ![id].once = {}]
  BY DEF EmitExit
<1>6. /\ n \in Nat /\ DOMAIN story.exits = 1..n /\ DOMAIN Append(story.exits, id) = 1..(n + 1)
      /\ Append(story.exits, id)[n + 1] = id /\ \A k \in 1..n : Append(story.exits, id)[k] = story.exits[k]
  BY <1>0, <1>1 DEF Story
<1> HIDE DEF n, id
<1>7. n + 1 \in 1..(n + 1) /\ 1..n \subseteq 1..(n + 1) /\ \A k \in 1..(n + 1) : k \in 1..n \/ k = n + 1
  BY <1>6
<1>8. /\ \A w : Taken(w, primary) <=> w = id
      /\ \A w : ~Taken(w, primary')
  BY <1>1, <1>2, <1>3 DEF Taken
<1>9. \A w : Told(w, story') <=> Told(w, story) \/ w = id
  <2>1. Told(id, story')
    BY <1>4, <1>6, <1>7 DEF Told
  <2>2. \A w : Told(w, story) => Told(w, story')
    BY <1>4, <1>6, <1>7 DEF Told
  <2>3. \A w : Told(w, story') => Told(w, story) \/ w = id
    BY <1>4, <1>6, <1>7 DEF Told
  <2> QED BY <2>1, <2>2, <2>3
<1>10. \A w \in WorkerIds : worker'[w].process = worker[w].process
  BY <1>0, <1>1, <1>5 DEF WorkerRecord
<1>11. ASSUME NEW w \in WorkerIds PROVE HasEnded(w, primary', worker'[w].process, story')
  <2>1. HasEnded(w, primary, worker[w].process, story)
    BY <1>11 DEF Apart
  <2>2. Waiting(w, primary') <=> Waiting(w, primary)
    BY <1>2 DEF Waiting
  <2>3. worker'[w].process = worker[w].process
    BY <1>10, <1>11
  <2> QED BY <1>2, <1>8, <1>9, <2>1, <2>2, <2>3 DEF HasEnded
<1> QED BY <1>0, <1>2, <1>11 DEF Apart, PidsApart

LEMMA QuietApart ==
  ASSUME ClusterInv, Apart,
         \/ ForkFails \/ DisconnectAll \/ RunClusterJob \/ ChildrenReady \/ ExitsDrained \/ PrimaryQuits \/ PrimaryDies
         \/ \E id \in WorkerIds : Kill(id) \/ ProcessKill(id) \/ (worker[id].process = "running" /\ ProcessEnds(id))
  PROVE  Apart'
<1>0. primary \in Primary /\ story \in Story /\ worker \in [WorkerIds -> WorkerRecord]
  BY DEF ClusterInv, ClusterTypeOK
<1>1. /\ primary'.list = primary.list /\ primary'.exits = primary.exits /\ primary'.emits = primary.emits
  BY <1>0 DEF ForkFails, DisconnectAll, RunClusterJob, ChildrenReady, ExitsDrained, PrimaryQuits, PrimaryDies, Kill,
              ProcessKill, ProcessEnds, Primary
<1>2. story'.exits = story.exits /\ pid' = pid
  BY <1>0 DEF ForkFails, DisconnectAll, RunClusterJob, ChildrenReady, ExitsDrained, PrimaryQuits, PrimaryDies, Kill,
              ProcessKill, ProcessEnds, Story
<1>3. \A w \in WorkerIds : Taken(w, primary') <=> Taken(w, primary)
  BY <1>1 DEF Taken
<1>4. \A w \in WorkerIds : worker'[w].process = "reaped" <=> worker[w].process = "reaped"
  <2>1. CASE ForkFails \/ RunClusterJob \/ ChildrenReady \/ ExitsDrained \/ PrimaryQuits \/ PrimaryDies
    BY <2>1 DEF ForkFails, RunClusterJob, ChildrenReady, ExitsDrained, PrimaryQuits, PrimaryDies
  <2>2. ASSUME NEW id \in WorkerIds, Kill(id) \/ ProcessKill(id) PROVE <1>4!:
    <3> DEFINE sent == Signalled({id})
    <3>1. \A w \in WorkerIds : sent[w] \in WorkerRecord /\ sent[w].process = worker[w].process
      BY <1>0, SignalledFacts
    <3>2. worker' = sent \/ worker' = [w \in WorkerIds |-> IF w = id THEN Leaving(sent[w]) ELSE sent[w]]
      BY <2>2 DEF Kill, ProcessKill
    <3> HIDE DEF sent
    <3>3. \A w \in WorkerIds : Leaving(sent[w]).process = sent[w].process
      BY <3>1, LeavingFacts
    <3>4. \A w \in WorkerIds : worker'[w] = sent[w] \/ worker'[w] = Leaving(sent[w])
      BY <3>2
    <3> QED BY <3>1, <3>3, <3>4
  <2>3. ASSUME NEW id \in WorkerIds, ProcessEnds(id), worker[id].process = "running" PROVE <1>4!:
    <3>1. worker' = [worker EXCEPT ![id].process = "zombie"]
      BY <2>3 DEF ProcessEnds
    <3>2. worker'[id].process = "zombie" /\ \A w \in WorkerIds : w # id => worker'[w] = worker[w]
      BY <1>0, <2>3, <3>1 DEF WorkerRecord
    <3> QED BY <2>3, <3>2
  <2>4. CASE DisconnectAll
    <3> DEFINE sent == Signalled(primary.list)
               c == story.asked + 1
    <3>1. \A w \in WorkerIds : sent[w] \in WorkerRecord /\ sent[w].process = worker[w].process
      BY <1>0, SignalledFacts
    <3>2. \/ worker' = worker
          \/ worker' = [w \in WorkerIds |-> IF w \in primary.list THEN Leaving([sent[w] EXCEPT !.once = @ \cup {c}]) ELSE sent[w]]
      BY <2>4 DEF DisconnectAll
    <3> HIDE DEF sent, c
    <3>3. \A w \in WorkerIds : Leaving([sent[w] EXCEPT !.once = @ \cup {c}]).process = sent[w].process
      BY <3>1 DEF Leaving, WorkerRecord
    <3>4. \A w \in WorkerIds : \/ worker'[w] = worker[w] \/ worker'[w] = sent[w]
                               \/ worker'[w] = Leaving([sent[w] EXCEPT !.once = @ \cup {c}])
      BY <3>2
    <3> QED BY <3>1, <3>3, <3>4
  <2> QED BY <2>1, <2>2, <2>3, <2>4
<1> QED BY <1>1, <1>2, <1>3, <1>4, ApartFrame

LEMMA EmitDisconnectApart ==
  ASSUME ClusterInv, Apart, EmitDisconnect PROVE Apart'
<1>0. primary \in Primary
  BY DEF ClusterInv, ClusterTypeOK
<1>1. PICK v \in WorkerIds : primary.emits = <<<<"disconnect", v>>, <<"exit", v>>>>
  <2>1. ASSUME NEW v \in WorkerIds, primary.emits = <<<<"exit", v>>>> PROVE FALSE
    <3>1. Head(primary.emits) = <<"exit", v>>
      BY <2>1
    <3> QED BY <3>1 DEF EmitDisconnect
  <2>2. primary.emits # <<>>
    BY DEF EmitDisconnect
  <2> QED BY <2>1, <2>2 DEF ClusterInv, Drain
<1>2. primary' = [primary EXCEPT !.emits = Tail(@)] /\ worker' = worker /\ story' = story /\ pid' = pid
  BY DEF EmitDisconnect
<1>3. primary'.emits = <<<<"exit", v>>>>
  BY <1>0, <1>1, <1>2 DEF Primary
<1>4. \A w \in WorkerIds : Taken(w, primary') <=> Taken(w, primary)
  <2>1. \A w : Taken(w, primary) <=> w = v
    BY <1>1 DEF Taken
  <2>2. \A w : Taken(w, primary') <=> w = v
    BY <1>3 DEF Taken
  <2> QED BY <2>1, <2>2
<1>5. primary'.list = primary.list /\ primary'.exits = primary.exits
  BY <1>0, <1>2 DEF Primary
<1> QED BY <1>2, <1>4, <1>5, ApartFrame

LEMMA WholeStep == ClusterWhole /\ [ClusterNext]_clusterVars => ClusterWhole'
<1> SUFFICES ASSUME ClusterWhole, [ClusterNext]_clusterVars PROVE ClusterWhole'
  OBVIOUS
<1>1. ClusterInv' /\ PidType'
  BY ClusterStep, PidTypeKept DEF ClusterWhole
<1>2. recycled => recycled'
  BY DEF ClusterNext, clusterVars, Fork, ForkFails, DisconnectAll, RunClusterJob, ChildrenReady, Reap, TakeExit,
      EmitDisconnect, EmitExit, ExitsDrained, PrimaryQuits, PrimaryDies, Kill, ProcessKill, WorkerExits, WorkerTerminated,
      ChannelCloses, ProcessEnds
<1>3. ASSUME ClusterInv, PidType, Apart, ~recycled' PROVE Apart'
  <2>1. CASE UNCHANGED clusterVars
    <3>1. primary' = primary /\ worker' = worker /\ story' = story /\ pid' = pid
      BY <2>1 DEF clusterVars
    <3> QED BY <1>3, <3>1 DEF Apart, PidsApart
  <2>2. ASSUME NEW n \in Pids, Fork(n) PROVE Apart'
    BY <1>3, <2>2, ForkApart
  <2>3. CASE Reap
    BY <1>3, <2>3, ReapApart
  <2>4. CASE TakeExit
    BY <1>3, <2>4, TakeExitApart
  <2>5. CASE EmitDisconnect
    BY <1>3, <2>5, EmitDisconnectApart
  <2>6. CASE EmitExit
    BY <1>3, <2>6, EmitExitApart
  <2>7. CASE \/ ForkFails \/ DisconnectAll \/ RunClusterJob \/ ChildrenReady \/ ExitsDrained \/ PrimaryQuits \/ PrimaryDies
             \/ \E id \in WorkerIds : Kill(id) \/ ProcessKill(id) \/ (worker[id].process = "running" /\ ProcessEnds(id))
    BY <1>3, <2>7, QuietApart
  <2> QED BY <2>1, <2>2, <2>3, <2>4, <2>5, <2>6, <2>7 DEF ClusterNext, WorkerExits, WorkerTerminated, ChannelCloses
<1> QED BY <1>1, <1>2, <1>3 DEF ClusterWhole

LEMMA WholeStart == ClusterInit => ClusterWhole
<1> SUFFICES ASSUME ClusterInit PROVE ClusterWhole
  OBVIOUS
<1>1. /\ primary.exits = <<>> /\ primary.emits = <<>> /\ primary.list = {} /\ story.exits = <<>>
      /\ \A w \in WorkerIds : worker[w].process = "none"
  BY DEF ClusterInit
<1>2. PidType
  BY DEF ClusterInit, PidType
<1>3. PidsApart /\ Once(primary.exits)
  BY <1>1 DEF PidsApart, Once
<1>4. ASSUME NEW w \in WorkerIds PROVE HasEnded(w, primary, worker[w].process, story)
  <2>1. ~Waiting(w, primary) /\ ~Taken(w, primary) /\ ~Told(w, story)
    BY <1>1 DEF Waiting, Taken, Told
  <2> QED BY <1>1, <1>4, <2>1 DEF HasEnded
<1> QED BY <1>2, <1>3, <1>4, ClusterStart DEF ClusterWhole, Apart

\* For any number of workers, kills and calls of disconnect(), and whatever pids the kernel gives, in any interleaving
\* of processes, signals, loop and program: each exit is told once, with its worker's 'online' told or queued, and of
\* a process that ended unless a pid came back before the exit that has it was drained; disconnect's callback comes
\* once, after the last exit it waits for; and the primary does not leave before it has told every exit.
THEOREM ClusterSafeCorrect == ClusterSpec => []ClusterSafe
<1>1. ClusterWhole => ClusterSafe
  <2> SUFFICES ASSUME ClusterWhole PROVE ClusterSafe
    OBVIOUS
  <2>0. ClusterInv /\ (recycled \/ Apart)
    BY DEF ClusterWhole
  <2>1. IsInjective(story.exits)
    BY <2>0 DEF ClusterInv, Once, IsInjective
  <2>2. story.exits \in Seq(WorkerIds) /\ primary.jobs \in Seq(Job)
    BY <2>0 DEF ClusterInv, ClusterTypeOK, Story, Primary
  <2>3. \A w \in ToSet(story.exits) : w \in WorkerIds /\ Told(w, story)
    BY <2>2 DEF ToSet, Told
  <2>4. ASSUME NEW w \in WorkerIds, Told(w, story)
        PROVE  /\ w \in story.online \/ <<"online", w>> \in ToSet(primary.jobs)
               /\ worker[w].process = "reaped" \/ recycled
    <3>1. Stage(w, primary, worker[w].process, story)
      BY <2>0 DEF ClusterInv, Stages
    <3>2. w \in story.online \/ \E k \in DOMAIN primary.jobs : primary.jobs[k] = <<"online", w>>
      BY <2>4, <3>1 DEF Stage
    <3>3. (\E k \in DOMAIN primary.jobs : primary.jobs[k] = <<"online", w>>) => <<"online", w>> \in ToSet(primary.jobs)
      BY <2>2 DEF ToSet
    <3>4. worker[w].process = "reaped" \/ recycled
      BY <2>0, <2>4 DEF Apart, HasEnded
    <3> QED BY <3>2, <3>3, <3>4
  <2>5. DisconnectExact
    <3> SUFFICES ASSUME NEW c \in Calls PROVE story.called[c] <= 1 /\ (story.called[c] = 1 => story.of[c] \subseteq ToSet(story.exits))
      BY DEF DisconnectExact
    <3>1. Asked(c)
      BY <2>0 DEF ClusterInv, Asks
    <3>2. story.called[c] = 1 => \A w \in story.of[c] : Told(w, story)
      BY <3>1 DEF Asked
    <3> QED BY <3>1, <3>2 DEF Asked, ToSet, Told
  <2> QED BY <2>0, <2>1, <2>3, <2>4, <2>5 DEF ClusterSafe, ExitReportedOnce, ClusterInv
<1> QED BY <1>1, WholeStart, WholeStep, PTL DEF ClusterSpec

----------------
(* The options of a socket *)

OptionSpec == OptionInit /\ [][OptionNext]_optionVars

----------------
(* Types *)

SocketFields ==
    [native : Nat, connecting : BOOLEAN, destroyed : BOOLEAN, closed : BOOLEAN, keepAlive : BOOLEAN,
     noDelay : BOOLEAN, referenced : BOOLEAN, paused : BOOLEAN, timeout : BOOLEAN, timer : BOOLEAN,
     attempts : SUBSET Nat, targets : Int, writes : Seq(Nat)]
HandleFields ==
    [live : {"racing", "open", "gone"}, keepAlive : BOOLEAN, noDelay : BOOLEAN, referenced : BOOLEAN, paused : BOOLEAN]
AskedFields == [keepAlive : BOOLEAN, noDelay : BOOLEAN, referenced : BOOLEAN, paused : BOOLEAN]
RanFields == [calls : Nat, made : Nat, called : Seq(Nat), late : BOOLEAN, fired : BOOLEAN, connected : BOOLEAN]
Plain == [do : {"call", "create", "attempt", "destroy"}]
Doing == Plain \cup [do : {"callback"}, fn : Nat]

OptionTypeOK ==
    /\ so \in SocketFields
    /\ handle \in Seq(HandleFields)
    /\ idle \in Int
    /\ rest \in Seq(Doing)
    /\ asked \in AskedFields
    /\ ran \in RanFields

----------------
(* The invariant *)

\* Attempts race only while the socket connects, and then it has no handle of its own.
Racing ==
    /\ so.native \in 0 .. Len(handle)
    /\ so.attempts \subseteq 1 .. Len(handle)
    /\ so.connecting => so.native = NoHandle /\ ~so.destroyed /\ ~so.closed
    /\ so.attempts # {} => so.connecting
    /\ so.closed => so.destroyed
    /\ ~ran.connected => so.native = NoHandle /\ ~so.connecting /\ handle = <<>>

\* What the socket keeps for a handle to come is what was asked for.
Kept ==
    /\ so.referenced = asked.referenced
    /\ so.paused = asked.paused
    /\ so.native = NoHandle => so.keepAlive = asked.keepAlive /\ so.noDelay = asked.noDelay
    /\ ran.calls = 0 /\ ~ran.connected => ~so.paused

\* The open handle has what was asked for.
Matches(h, a) ==
    h.keepAlive = a.keepAlive /\ h.noDelay = a.noDelay /\ h.referenced = a.referenced /\ h.paused = a.paused
Matched == so.native # NoHandle /\ handle[so.native].live = "open" => Matches(handle[so.native], asked)

\* The callbacks in q, the ones pending in w and the ones in c that ran are those of the first m writes, each once.
In(c) == {c[i] : i \in 1 .. Len(c)}
WroteOnce(c) == \A i, j \in 1 .. Len(c) : c[i] = c[j] => i = j
Owes(q) == {i \in 1 .. Len(q) : q[i].do = "callback"}
Due(q) == {q[i].fn : i \in Owes(q)}
DueOnce(q) == \A i, j \in Owes(q) : q[i].fn = q[j].fn => i = j
Ledger(c, w, q, m) ==
    /\ WroteOnce(c) /\ WroteOnce(w) /\ DueOnce(q)
    /\ In(c) \cap In(w) = {} /\ In(c) \cap Due(q) = {} /\ In(w) \cap Due(q) = {}
    /\ In(c) \cup In(w) \cup Due(q) = 1 .. m

OptionInv ==
    /\ OptionTypeOK /\ Racing /\ Kept
    /\ Matched /\ RacersReferenced /\ IdleTimerOwned
    /\ Ledger(ran.called, so.writes, rest, ran.made)

----------------
(* The ledger of write callbacks *)

LEMMA InAppend ==
    ASSUME NEW c \in Seq(Nat), NEW x \in Nat
    PROVE  /\ In(Append(c, x)) = In(c) \cup {x}
           /\ WroteOnce(c) /\ x \notin In(c) => WroteOnce(Append(c, x))
<1> DEFINE d == Append(c, x)
<1>1. Len(c) \in Nat /\ Len(d) = Len(c) + 1 /\ d[Len(c) + 1] = x /\ \A i \in 1 .. Len(c) : d[i] = c[i]
  OBVIOUS
<1> HIDE DEF d
<1>2. \A i \in 1 .. Len(d) : i \in 1 .. Len(c) \/ i = Len(c) + 1
  BY <1>1
<1>3. (Len(c) + 1) \in 1 .. Len(d) /\ \A i \in 1 .. Len(c) : i \in 1 .. Len(d)
  BY <1>1
<1>4. In(d) = In(c) \cup {x}
  BY <1>1, <1>2, <1>3 DEF In
<1>5. ASSUME WroteOnce(c), x \notin In(c), NEW i \in 1 .. Len(d), NEW j \in 1 .. Len(d), d[i] = d[j]
      PROVE  i = j
  <2>1. CASE i \in 1 .. Len(c) /\ j \in 1 .. Len(c)
    BY <2>1, <1>1, <1>5 DEF WroteOnce
  <2>2. CASE i \in 1 .. Len(c) /\ j = Len(c) + 1
    <3>1. c[i] = x
      BY <2>2, <1>1, <1>5
    <3> QED BY <3>1, <2>2, <1>5 DEF In
  <2>3. CASE i = Len(c) + 1 /\ j \in 1 .. Len(c)
    <3>1. c[j] = x
      BY <2>3, <1>1, <1>5
    <3> QED BY <3>1, <2>3, <1>5 DEF In
  <2> QED BY <2>1, <2>2, <2>3, <1>2
<1> QED BY <1>4, <1>5 DEF d, WroteOnce

\* What is put before the rest and is no callback changes nothing.
LEMMA DueBefore ==
    ASSUME NEW p \in Seq(Plain), NEW q \in Seq(Doing)
    PROVE  Due(p \o q) = Due(q) /\ (DueOnce(q) => DueOnce(p \o q))
<1> DEFINE r == p \o q
<1>1. Len(p) \in Nat /\ Len(q) \in Nat /\ Len(r) = Len(p) + Len(q)
  OBVIOUS
<1>2. \A i \in 1 .. Len(r) : r[i] = IF i <= Len(p) THEN p[i] ELSE q[i - Len(p)]
  OBVIOUS
<1>3. \A i \in 1 .. Len(p) : p[i].do # "callback"
  <2>1. \A i \in 1 .. Len(p) : p[i] \in Plain
    OBVIOUS
  <2>2. \A x \in Plain : x.do # "callback"
    BY DEF Plain
  <2> QED BY <2>1, <2>2
<1> HIDE DEF r
<1>4. ASSUME NEW i \in Owes(r)
      PROVE  i - Len(p) \in Owes(q) /\ r[i] = q[i - Len(p)] /\ i \in Int
  <2>1. i \in 1 .. Len(r) /\ r[i].do = "callback"
    BY DEF Owes
  <2>2. ~(i <= Len(p))
    BY <2>1, <1>1, <1>2, <1>3
  <2>3. i - Len(p) \in 1 .. Len(q) /\ r[i] = q[i - Len(p)]
    BY <2>1, <2>2, <1>1, <1>2
  <2> QED BY <2>1, <2>3 DEF Owes
<1>5. ASSUME NEW i \in Owes(q)
      PROVE  i + Len(p) \in Owes(r) /\ r[i + Len(p)] = q[i]
  <2>1. i \in 1 .. Len(q) /\ q[i].do = "callback"
    BY DEF Owes
  <2>2. i + Len(p) \in 1 .. Len(r) /\ ~(i + Len(p) <= Len(p)) /\ (i + Len(p)) - Len(p) = i
    BY <2>1, <1>1
  <2>3. r[i + Len(p)] = q[i]
    BY <2>2, <1>2
  <2> QED BY <2>1, <2>2, <2>3 DEF Owes
<1>6. Due(r) = Due(q)
  <2>1. Due(r) \subseteq Due(q)
    BY <1>4 DEF Due
  <2>2. Due(q) \subseteq Due(r)
    BY <1>5 DEF Due
  <2> QED BY <2>1, <2>2
<1>7. ASSUME DueOnce(q), NEW i \in Owes(r), NEW j \in Owes(r), r[i].fn = r[j].fn
      PROVE  i = j
  <2>1. i - Len(p) = j - Len(p)
    BY <1>4, <1>7 DEF DueOnce
  <2> QED BY <2>1, <1>1, <1>4
<1> QED BY <1>6, <1>7 DEF r, DueOnce

\* Without what comes first.
LEMMA DueTail ==
    ASSUME NEW q \in Seq(Doing), q # <<>>
    PROVE  /\ Tail(q) \in Seq(Doing)
           /\ Head(q).do # "callback" => Due(q) = Due(Tail(q))
           /\ Head(q).do = "callback" => Due(q) = Due(Tail(q)) \cup {Head(q).fn}
           /\ DueOnce(q) => DueOnce(Tail(q)) /\ (Head(q).do = "callback" => Head(q).fn \notin Due(Tail(q)))
<1> DEFINE r == Tail(q)
<1>1. Len(q) \in Nat /\ Len(q) > 0 /\ Len(r) = Len(q) - 1 /\ Head(q) = q[1] /\ r \in Seq(Doing)
  OBVIOUS
<1>2. \A i \in 1 .. Len(r) : r[i] = q[i + 1]
  OBVIOUS
<1> HIDE DEF r
<1>3. Head(q).do = "callback" <=> 1 \in Owes(q)
  BY <1>1 DEF Owes
<1>4. ASSUME NEW i \in Owes(r)
      PROVE  i + 1 \in Owes(q) /\ r[i] = q[i + 1] /\ i \in Int /\ i + 1 # 1
  <2>1. i \in 1 .. Len(r) /\ r[i].do = "callback"
    BY DEF Owes
  <2>2. i + 1 \in 1 .. Len(q) /\ i + 1 # 1
    BY <2>1, <1>1
  <2> QED BY <2>1, <2>2, <1>2 DEF Owes
<1>5. ASSUME NEW i \in Owes(q), i # 1
      PROVE  i - 1 \in Owes(r) /\ r[i - 1] = q[i]
  <2>1. i \in 1 .. Len(q) /\ q[i].do = "callback"
    BY DEF Owes
  <2>2. i - 1 \in 1 .. Len(r) /\ (i - 1) + 1 = i
    BY <2>1, <1>1, <1>5
  <2>3. r[i - 1] = q[i]
    BY <2>2, <1>2
  <2> QED BY <2>1, <2>2, <2>3 DEF Owes
<1>6. Due(r) \subseteq Due(q)
  BY <1>4 DEF Due
<1>7. ASSUME NEW n \in Due(q)
      PROVE  n \in Due(r) \/ (1 \in Owes(q) /\ n = q[1].fn)
  <2>1. PICK i \in Owes(q) : n = q[i].fn
    BY DEF Due
  <2>2. CASE i = 1
    BY <2>1, <2>2
  <2>3. CASE i # 1
    BY <2>1, <2>3, <1>5 DEF Due
  <2> QED BY <2>2, <2>3
<1>8. 1 \in Owes(q) => q[1].fn \in Due(q)
  BY DEF Due
<1>9. ASSUME DueOnce(q), NEW i \in Owes(r), NEW j \in Owes(r), r[i].fn = r[j].fn
      PROVE  i = j
  <2>1. i + 1 = j + 1
    BY <1>4, <1>9 DEF DueOnce
  <2> QED BY <2>1, <1>4
<1>10. ASSUME DueOnce(q), 1 \in Owes(q), q[1].fn \in Due(r)
       PROVE  FALSE
  <2>1. PICK i \in Owes(r) : q[1].fn = r[i].fn
    BY <1>10 DEF Due
  <2> QED BY <2>1, <1>4, <1>10 DEF DueOnce
<1>11. DueOnce(q) => DueOnce(r)
  BY <1>9 DEF DueOnce
<1>12. 1 \notin Owes(q) => Due(q) = Due(r)
  BY <1>6, <1>7
<1>13. 1 \in Owes(q) => Due(q) = Due(r) \cup {q[1].fn}
  BY <1>6, <1>7, <1>8
<1> QED BY <1>1, <1>3, <1>10, <1>11, <1>12, <1>13 DEF r

\* The callbacks that were pending are about to run.
LEMMA DueFlush ==
    ASSUME NEW w \in Seq(Nat), NEW q \in Seq(Doing), NEW f \in Seq(Doing), Len(f) = Len(w),
           \A i \in 1 .. Len(w) : f[i] = [do |-> "callback", fn |-> w[i]]
    PROVE  /\ Due(f \o q) = In(w) \cup Due(q)
           /\ WroteOnce(w) /\ DueOnce(q) /\ In(w) \cap Due(q) = {} => DueOnce(f \o q)
<1> DEFINE r == f \o q
<1>1. Len(w) \in Nat /\ Len(q) \in Nat /\ Len(r) = Len(w) + Len(q)
  OBVIOUS
<1>2. \A i \in 1 .. Len(r) : r[i] = IF i <= Len(w) THEN f[i] ELSE q[i - Len(w)]
  BY LenProperties, ConcatProperties
<1> HIDE DEF r
<1>3. ASSUME NEW i \in 1 .. Len(w)
      PROVE  i \in Owes(r) /\ r[i].fn = w[i]
  <2>1. i \in 1 .. Len(r) /\ i <= Len(w)
    BY <1>1
  <2>2. r[i] = [do |-> "callback", fn |-> w[i]]
    BY <2>1, <1>2
  <2> QED BY <2>1, <2>2 DEF Owes
<1>4. ASSUME NEW i \in Owes(r), i \notin 1 .. Len(w)
      PROVE  i - Len(w) \in Owes(q) /\ r[i] = q[i - Len(w)] /\ i \in Int
  <2>1. i \in 1 .. Len(r) /\ r[i].do = "callback"
    BY DEF Owes
  <2>2. ~(i <= Len(w)) /\ i - Len(w) \in 1 .. Len(q)
    BY <2>1, <1>1, <1>4
  <2>3. r[i] = q[i - Len(w)]
    BY <2>1, <2>2, <1>2
  <2> QED BY <2>1, <2>2, <2>3 DEF Owes
<1>5. ASSUME NEW i \in Owes(q)
      PROVE  i + Len(w) \in Owes(r) /\ r[i + Len(w)] = q[i]
  <2>1. i \in 1 .. Len(q) /\ q[i].do = "callback"
    BY DEF Owes
  <2>2. i + Len(w) \in 1 .. Len(r) /\ ~(i + Len(w) <= Len(w)) /\ (i + Len(w)) - Len(w) = i
    BY <2>1, <1>1
  <2>3. r[i + Len(w)] = q[i]
    BY <2>2, <1>2
  <2> QED BY <2>1, <2>2, <2>3 DEF Owes
<1>6. Due(r) = In(w) \cup Due(q)
  <2>1. In(w) \subseteq Due(r)
    BY <1>3 DEF In, Due
  <2>2. Due(q) \subseteq Due(r)
    BY <1>5 DEF Due
  <2>3. ASSUME NEW i \in Owes(r)
        PROVE  r[i].fn \in In(w) \cup Due(q)
    <3>1. CASE i \in 1 .. Len(w)
      BY <3>1, <1>3 DEF In
    <3>2. CASE i \notin 1 .. Len(w)
      BY <3>2, <1>4 DEF Due
    <3> QED BY <3>1, <3>2
  <2>4. Due(r) \subseteq In(w) \cup Due(q)
    BY <2>3 DEF Due
  <2> QED BY <2>1, <2>2, <2>4
<1>7. ASSUME WroteOnce(w), DueOnce(q), In(w) \cap Due(q) = {},
             NEW i \in Owes(r), NEW j \in Owes(r), r[i].fn = r[j].fn
      PROVE  i = j
  <2>1. CASE i \in 1 .. Len(w) /\ j \in 1 .. Len(w)
    <3>1. w[i] = w[j]
      BY <2>1, <1>3, <1>7
    <3> QED BY <3>1, <2>1, <1>7 DEF WroteOnce
  <2>2. ASSUME NEW a \in 1 .. Len(w), NEW b \in Owes(r), b \notin 1 .. Len(w), r[a].fn = r[b].fn
        PROVE  FALSE
    <3>1. r[a].fn \in In(w)
      BY <1>3 DEF In
    <3>2. r[b].fn \in Due(q)
      BY <2>2, <1>4 DEF Due
    <3> QED BY <3>1, <3>2, <2>2, <1>7
  <2>3. CASE i \notin 1 .. Len(w) /\ j \notin 1 .. Len(w)
    <3>1. i - Len(w) = j - Len(w)
      BY <2>3, <1>4, <1>7 DEF DueOnce
    <3>2. i \in Int /\ j \in Int
      BY <2>3, <1>4
    <3> QED BY <3>1, <3>2, <1>1
  <2> QED BY <2>1, <2>2, <2>3, <1>7
<1>8. WroteOnce(w) /\ DueOnce(q) /\ In(w) \cap Due(q) = {} => DueOnce(r)
  BY <1>7 DEF DueOnce
<1> QED BY <1>6, <1>8 DEF r

\* A write adds its callback to the pending ones.
LEMMA LedgerWrite ==
    ASSUME NEW c \in Seq(Nat), NEW w \in Seq(Nat), NEW q \in Seq(Doing), NEW m \in Nat, Ledger(c, w, q, m)
    PROVE  Ledger(c, Append(w, m + 1), q, m + 1)
<1>1. m + 1 \notin In(c) \cup In(w) \cup Due(q)
  BY DEF Ledger
<1>2. In(Append(w, m + 1)) = In(w) \cup {m + 1} /\ WroteOnce(Append(w, m + 1))
  BY <1>1, InAppend DEF Ledger
<1>3. 1 .. m + 1 = (1 .. m) \cup {m + 1}
  OBVIOUS
<1> QED BY <1>1, <1>2, <1>3, Zenon DEF Ledger

LEMMA LedgerBefore ==
    ASSUME NEW c, NEW w, NEW p \in Seq(Plain), NEW q \in Seq(Doing), NEW m, Ledger(c, w, q, m)
    PROVE  Ledger(c, w, p \o q, m)
BY DueBefore, Zenon DEF Ledger

LEMMA LedgerTail ==
    ASSUME NEW c, NEW w, NEW q \in Seq(Doing), NEW m, Ledger(c, w, q, m), q # <<>>, Head(q).do # "callback"
    PROVE  Ledger(c, w, Tail(q), m)
BY DueTail, Zenon DEF Ledger

\* The callback that comes first runs.
LEMMA LedgerCall ==
    ASSUME NEW c \in Seq(Nat), NEW w \in Seq(Nat), NEW q \in Seq(Doing), NEW m \in Nat, Ledger(c, w, q, m),
           q # <<>>, Head(q).do = "callback"
    PROVE  Head(q).fn \in Nat /\ Ledger(Append(c, Head(q).fn), w, Tail(q), m)
<1> DEFINE x == Head(q).fn
           r == Tail(q)
<1>1. Due(q) = Due(r) \cup {x} /\ DueOnce(r) /\ x \notin Due(r)
  BY DueTail DEF Ledger
<1>2. x \in 1 .. m /\ x \notin In(c) /\ x \notin In(w)
  BY <1>1 DEF Ledger
<1>3. x \in Nat
  BY <1>2
<1> HIDE DEF x, r
<1>4. In(Append(c, x)) = In(c) \cup {x} /\ WroteOnce(Append(c, x))
  BY <1>2, <1>3, InAppend DEF Ledger
<1>5. Ledger(Append(c, x), w, r, m)
  BY <1>1, <1>2, <1>4 DEF Ledger
<1> QED BY <1>3, <1>5 DEF x, r

LEMMA LedgerFlush ==
    ASSUME NEW c, NEW w \in Seq(Nat), NEW q \in Seq(Doing), NEW f \in Seq(Doing), NEW m,
           Ledger(c, w, q, m), Len(f) = Len(w),
           \A i \in 1 .. Len(w) : f[i] = [do |-> "callback", fn |-> w[i]]
    PROVE  Ledger(c, <<>>, f \o q, m)
<1>1. In(<<>>) = {} /\ WroteOnce(<<>>)
  BY DEF In, WroteOnce
<1>2. Due(f \o q) = In(w) \cup Due(q) /\ DueOnce(f \o q)
  BY DueFlush DEF Ledger
<1> QED BY <1>1, <1>2 DEF Ledger

\* Of a set given by an injective choice there is one member at most.
LEMMA OneOrNone ==
    ASSUME NEW S, \A i, j \in S : i = j
    PROVE  IsFiniteSet(S) /\ Cardinality(S) = IF S = {} THEN 0 ELSE 1
<1>1. CASE S = {}
  BY <1>1, FS_EmptySet
<1>2. CASE S # {}
  <2>1. PICK x : x \in S
    BY <1>2
  <2>2. S = {x}
    BY <2>1
  <2> QED BY <2>2, FS_Singleton
<1> QED BY <1>1, <1>2

LEMMA LedgerCounts ==
    ASSUME ran.called \in Seq(Nat), so.writes \in Seq(Nat), rest \in Seq(Doing),
           Ledger(ran.called, so.writes, rest, ran.made)
    PROVE  WriteCalledOnce
<1> SUFFICES ASSUME NEW n \in 1 .. ran.made
             PROVE  Cardinality({i \in DOMAIN ran.called : ran.called[i] = n})
                    + Cardinality({i \in DOMAIN so.writes : so.writes[i] = n})
                    + Cardinality({i \in DOMAIN rest : rest[i].do = "callback" /\ rest[i].fn = n}) = 1
  BY DEF WriteCalledOnce
<1> DEFINE C == {i \in DOMAIN ran.called : ran.called[i] = n}
           W == {i \in DOMAIN so.writes : so.writes[i] = n}
           R == {i \in DOMAIN rest : rest[i].do = "callback" /\ rest[i].fn = n}
<1>1. DOMAIN ran.called = 1 .. Len(ran.called) /\ DOMAIN so.writes = 1 .. Len(so.writes) /\ DOMAIN rest = 1 .. Len(rest)
  OBVIOUS
<1>2. C # {} <=> n \in In(ran.called)
  BY <1>1 DEF In
<1>3. W # {} <=> n \in In(so.writes)
  BY <1>1 DEF In
<1>4. R # {} <=> n \in Due(rest)
  BY <1>1 DEF Due, Owes
<1>5. \A i, j \in C : i = j
  BY <1>1 DEF Ledger, WroteOnce
<1>6. \A i, j \in W : i = j
  BY <1>1 DEF Ledger, WroteOnce
<1>7. \A i, j \in R : i = j
  BY <1>1 DEF Ledger, DueOnce, Owes
<1> HIDE DEF C, W, R
<1>8. /\ Cardinality(C) = IF C = {} THEN 0 ELSE 1
      /\ Cardinality(W) = IF W = {} THEN 0 ELSE 1
      /\ Cardinality(R) = IF R = {} THEN 0 ELSE 1
  BY <1>5, <1>6, <1>7, OneOrNone
<1>9. n \in In(ran.called) \cup In(so.writes) \cup Due(rest)
  BY Zenon DEF Ledger
<1>10. \/ C # {} /\ W = {} /\ R = {}
       \/ C = {} /\ W # {} /\ R = {}
       \/ C = {} /\ W = {} /\ R # {}
  BY <1>2, <1>3, <1>4, <1>9 DEF Ledger
<1>11. Cardinality(C) + Cardinality(W) + Cardinality(R) = 1
  BY <1>8, <1>10
<1> QED BY <1>11 DEF C, W, R

----------------
(* The idle timer *)

\* clearTimeout()
LEMMA TimerCleared ==
    ASSUME NEW s \in SocketFields, NEW n \in Int
    PROVE  /\ cleared([so |-> s, idle |-> n]).so = [s EXCEPT !.timer = FALSE]
           /\ cleared([so |-> s, idle |-> n]).idle = IF s.timer THEN n - 1 ELSE n
BY DEF cleared, SocketFields

\* resetTimeout(): the old timer goes, and a live socket with a timeout gets a new one.
LEMMA TimerResetEffect ==
    ASSUME NEW s \in SocketFields, idle \in Int, TimerReset(s)
    PROVE  /\ so' = [s EXCEPT !.timer = (s.timeout /\ ~s.destroyed)]
           /\ idle' = (IF s.timer THEN idle - 1 ELSE idle) + (IF s.timeout /\ ~s.destroyed THEN 1 ELSE 0)
<1> DEFINE c == cleared([so |-> s, idle |-> idle])
           n == IF s.timer THEN idle - 1 ELSE idle
<1>1. c.so = [s EXCEPT !.timer = FALSE] /\ c.idle = n
  BY TimerCleared
<1>2. so' = (IF ~c.so.timeout \/ c.so.destroyed THEN c ELSE [so |-> [c.so EXCEPT !.timer = TRUE], idle |-> c.idle + 1]).so
      /\ idle' = (IF ~c.so.timeout \/ c.so.destroyed THEN c ELSE [so |-> [c.so EXCEPT !.timer = TRUE], idle |-> c.idle + 1]).idle
  BY Zenon DEF TimerReset, reset
<1>3. n \in Int
  OBVIOUS
<1> HIDE DEF c, n
<1>4. c.so.timeout = s.timeout /\ c.so.destroyed = s.destroyed
  BY <1>1 DEF SocketFields
<1>5. CASE s.timeout /\ ~s.destroyed
  <2>1. so' = [c.so EXCEPT !.timer = TRUE] /\ idle' = c.idle + 1
    BY <1>2, <1>4, <1>5
  <2>2. [c.so EXCEPT !.timer = TRUE] = [s EXCEPT !.timer = TRUE]
    BY <1>1 DEF SocketFields
  <2> QED BY <2>1, <2>2, <1>1, <1>3, <1>5 DEF n
<1>6. CASE ~(s.timeout /\ ~s.destroyed)
  <2>1. so' = c.so /\ idle' = c.idle
    BY <1>2, <1>4, <1>6
  <2>2. so' = [s EXCEPT !.timer = (s.timeout /\ ~s.destroyed)]
    BY <2>1, <1>1, <1>6
  <2> QED BY <2>1, <2>2, <1>1, <1>3, <1>6 DEF n
<1> QED BY <1>5, <1>6

----------------
(* The steps *)

\* The initial state: no handle, no timer, nothing written.
LEMMA OptionInitInv == OptionInit => OptionInv
<1> SUFFICES ASSUME OptionInit PROVE OptionInv
  OBVIOUS
<1>1. PICK o \in Option :
          /\ so = [native |-> NoHandle, connecting |-> FALSE, destroyed |-> FALSE, closed |-> FALSE, keepAlive |-> o.keepAlive,
                   noDelay |-> o.noDelay, referenced |-> TRUE, paused |-> FALSE, timeout |-> FALSE, timer |-> FALSE,
                   attempts |-> {}, targets |-> 0, writes |-> <<>>]
          /\ asked = [keepAlive |-> o.keepAlive, noDelay |-> o.noDelay, referenced |-> TRUE, paused |-> FALSE]
  BY DEF OptionInit
<1>2. handle = <<>> /\ idle = 0 /\ rest = <<>>
      /\ ran = [calls |-> 0, made |-> 0, called |-> <<>>, late |-> FALSE, fired |-> FALSE, connected |-> FALSE]
  BY DEF OptionInit
<1>3. OptionTypeOK
  BY <1>1, <1>2 DEF OptionTypeOK, SocketFields, AskedFields, RanFields, Option, NoHandle
<1>4. Racing
  BY <1>1, <1>2 DEF Racing, NoHandle
<1>5. Kept
  BY <1>1, <1>2, Zenon DEF Kept
<1>6. Matched /\ RacersReferenced
  BY <1>1 DEF Matched, RacersReferenced
<1>7. IdleTimerOwned
  BY <1>1, <1>2 DEF IdleTimerOwned
<1>8. Ledger(<<>>, <<>>, <<>>, 0)
  BY DEF Ledger, WroteOnce, DueOnce, In, Due, Owes
<1> QED BY <1>1, <1>2, <1>3, <1>4, <1>5, <1>6, <1>7, <1>8 DEF OptionInv

\* The timer armed again.
LEMMA Rearmed ==
    ASSUME OptionInv, NEW s \in SocketFields, TimerReset(s), s.timer = so.timer, ran' \in RanFields,
           ~ran'.fired, ran'.late = ran.late
    PROVE  /\ so' = [s EXCEPT !.timer = (s.timeout /\ ~s.destroyed)] /\ so' \in SocketFields /\ idle' \in Int
           /\ IdleTimerOwned'
<1>1. idle \in Int /\ s.timer \in BOOLEAN /\ s.timeout \in BOOLEAN /\ s.destroyed \in BOOLEAN
  BY DEF OptionInv, OptionTypeOK, SocketFields
<1>2. /\ so' = [s EXCEPT !.timer = (s.timeout /\ ~s.destroyed)]
      /\ idle' = (IF s.timer THEN idle - 1 ELSE idle) + (IF s.timeout /\ ~s.destroyed THEN 1 ELSE 0)
  BY <1>1, TimerResetEffect
<1>3. idle = (IF s.timer THEN 1 ELSE 0) /\ ~ran.late
  BY DEF OptionInv, IdleTimerOwned
<1>4. idle' = IF s.timeout /\ ~s.destroyed THEN 1 ELSE 0
  BY <1>1, <1>2, <1>3
<1>5. so' \in SocketFields /\ so'.timer = (s.timeout /\ ~s.destroyed) /\ so'.timeout = s.timeout /\ so'.destroyed = s.destroyed
  BY <1>2 DEF SocketFields
<1>6. IdleTimerOwned'
  BY <1>1, <1>3, <1>4, <1>5 DEF IdleTimerOwned, RanFields
<1> QED BY <1>1, <1>2, <1>4, <1>5, <1>6

LEMMA TimerTyped ==
    ASSUME NEW s \in SocketFields, NEW b \in BOOLEAN
    PROVE  [s EXCEPT !.timer = b] \in SocketFields
BY DEF SocketFields

\* The timer of a socket that ends is cleared.
LEMMA Disarmed ==
    ASSUME OptionInv, NEW s \in SocketFields, s.timer = so.timer, s.destroyed = TRUE,
           so' = cleared([so |-> s, idle |-> idle]).so, idle' = cleared([so |-> s, idle |-> idle]).idle,
           ran'.late = ran.late
    PROVE  so' = [s EXCEPT !.timer = FALSE] /\ so' \in SocketFields /\ idle' \in Int /\ IdleTimerOwned'
<1>1. idle \in Int /\ s.timer \in BOOLEAN
  BY DEF OptionInv, OptionTypeOK, SocketFields
<1>2. so' = [s EXCEPT !.timer = FALSE] /\ idle' = IF s.timer THEN idle - 1 ELSE idle
  BY <1>1, TimerCleared
<1>3. idle = (IF s.timer THEN 1 ELSE 0) /\ ~ran.late
  BY DEF OptionInv, IdleTimerOwned
<1>4. idle' = 0
  BY <1>1, <1>2, <1>3
<1>5. so' \in SocketFields
  BY <1>2, TimerTyped, Zenon
<1>6. so'.timer = FALSE /\ so'.destroyed = s.destroyed
  BY <1>2 DEF SocketFields
<1>7. IdleTimerOwned'
  BY <1>3, <1>4, <1>6, Zenon DEF IdleTimerOwned
<1>8. idle' \in Int
  BY <1>4
<1> QED BY <1>2, <1>5, <1>7, <1>8, Zenon

----------------
(* The calls of the program *)

\* What a call adds to the history.
LEMMA SocketCalledEffect ==
    ASSUME OptionInv, NEW n \in Nat, NEW armed \in BOOLEAN, SocketCalled(n, armed)
    PROVE  /\ ran' \in RanFields /\ ran'.called = ran.called /\ ran'.made = ran.made + n /\ ran'.late = ran.late
           /\ ran'.connected = ran.connected /\ ran'.calls # 0
           /\ ran'.fired = (ran.fired /\ ~armed)
<1>1. ran \in RanFields
  BY DEF OptionInv, OptionTypeOK
<1>2. ran' = [ran EXCEPT !.calls = @ + 1, !.made = @ + n, !.fired = @ /\ ~armed]
  BY DEF SocketCalled
<1>3. /\ ran'.called = ran.called /\ ran'.late = ran.late /\ ran'.connected = ran.connected
      /\ ran'.calls = ran.calls + 1 /\ ran'.made = ran.made + n /\ ran'.fired = (ran.fired /\ ~armed)
  BY <1>1, <1>2, Zenon DEF RanFields
<1>4. ran.calls + 1 \in Nat \ {0} /\ ran.made + n \in Nat
  BY <1>1 DEF RanFields
<1>5. (ran.fired /\ ~armed) \in BOOLEAN
  OBVIOUS
<1>6. ran' \in RanFields
  BY <1>1, <1>2, <1>4, <1>5 DEF RanFields
<1> QED BY <1>3, <1>4, <1>6

LEMMA QuietCall ==
    ASSUME OptionInv, SocketCalled(0, FALSE)
    PROVE  /\ ran' \in RanFields /\ ran'.called = ran.called /\ ran'.made = ran.made /\ ran'.late = ran.late
           /\ ran'.fired = ran.fired /\ ran'.connected = ran.connected /\ ran'.calls # 0
<1>1. /\ ran' \in RanFields /\ ran'.called = ran.called /\ ran'.made = ran.made + 0 /\ ran'.late = ran.late
      /\ ran'.fired = (ran.fired /\ ~FALSE) /\ ran'.connected = ran.connected /\ ran'.calls # 0
  BY SocketCalledEffect
<1>2. ran.made \in Nat /\ ran.fired \in BOOLEAN
  BY DEF OptionInv, OptionTypeOK, RanFields
<1> QED BY <1>1, <1>2

LEMMA ArmingCall ==
    ASSUME OptionInv, SocketCalled(0, TRUE)
    PROVE  /\ ran' \in RanFields /\ ran'.called = ran.called /\ ran'.made = ran.made /\ ran'.late = ran.late
           /\ ~ran'.fired /\ ran'.connected = ran.connected /\ ran'.calls # 0
<1>1. /\ ran' \in RanFields /\ ran'.called = ran.called /\ ran'.made = ran.made + 0 /\ ran'.late = ran.late
      /\ ran'.fired = (ran.fired /\ ~TRUE) /\ ran'.connected = ran.connected /\ ran'.calls # 0
  BY SocketCalledEffect
<1>2. ran.made + 0 = ran.made
  BY DEF OptionInv, OptionTypeOK, RanFields
<1> QED BY <1>1, <1>2, Zenon

\* setKeepAlive, setNoDelay
LEMMA SetOptionInv ==
    ASSUME OptionInv, NEW o \in {"keepAlive", "noDelay"}, NEW v \in BOOLEAN, SocketCalled(0, FALSE), SetOption(o, v)
    PROVE  OptionInv'
<1>1. OptionTypeOK /\ Racing /\ Kept /\ Matched /\ RacersReferenced /\ IdleTimerOwned
      /\ Ledger(ran.called, so.writes, rest, ran.made)
  BY DEF OptionInv
<1>2. /\ ran' \in RanFields /\ ran'.called = ran.called /\ ran'.made = ran.made /\ ran'.late = ran.late
      /\ ran'.fired = ran.fired /\ ran'.connected = ran.connected /\ ran'.calls # 0
  BY QuietCall
<1>3. /\ so' \in SocketFields
      /\ \A f \in {"native", "connecting", "destroyed", "closed", "referenced", "paused", "timeout", "timer", "attempts", "writes"} :
            so'[f] = so[f]
  BY <1>1 DEF SetOption, OptionTypeOK, SocketFields
<1>4. asked' \in AskedFields /\ asked'.referenced = asked.referenced /\ asked'.paused = asked.paused
  BY <1>1 DEF SetOption, OptionTypeOK, AskedFields
<1>5. /\ handle' \in Seq(HandleFields) /\ Len(handle') = Len(handle)
      /\ \A n \in 1 .. Len(handle) : handle'[n].referenced = handle[n].referenced
      /\ so.native = NoHandle => handle' = handle
      /\ so.native # NoHandle => handle'[so.native] = [handle[so.native] EXCEPT ![o] = v]
  <2>1. CASE so.native = NoHandle
    BY <1>1, <2>1 DEF SetOption, Set, OptionTypeOK
  <2>2. CASE so.native # NoHandle
    <3>1. so.native \in 1 .. Len(handle) /\ handle' = [handle EXCEPT ![so.native] = [handle[so.native] EXCEPT ![o] = v]]
      BY <1>1, <2>2 DEF SetOption, Set, OptionTypeOK, Racing, NoHandle
    <3>2. handle[so.native] \in HandleFields
      BY <1>1, <3>1 DEF OptionTypeOK
    <3>3. [handle[so.native] EXCEPT ![o] = v] \in HandleFields
          /\ [handle[so.native] EXCEPT ![o] = v].referenced = handle[so.native].referenced
      BY <3>2 DEF HandleFields
    <3> QED BY <1>1, <2>2, <3>1, <3>3 DEF OptionTypeOK
  <2> QED BY <2>1, <2>2
<1>6. OptionTypeOK'
  BY <1>1, <1>2, <1>3, <1>4, <1>5 DEF OptionTypeOK, SetOption
<1>7. Racing'
  BY <1>1, <1>2, <1>3, <1>5 DEF Racing, OptionTypeOK
<1>8. Kept'
  BY <1>1, <1>2, <1>3, <1>4 DEF Kept, SetOption, OptionTypeOK, SocketFields, AskedFields
<1>9. ASSUME so.native # NoHandle, handle'[so.native].live = "open"
      PROVE  Matches(handle'[so.native], asked')
  <2>1. handle[so.native] \in HandleFields
    BY <1>1, <1>9 DEF OptionTypeOK, Racing, SocketFields, NoHandle
  <2>2. handle'[so.native] = [handle[so.native] EXCEPT ![o] = v]
    BY <1>5, <1>9
  <2>3. handle[so.native].live = "open"
    BY <2>1, <2>2, <1>9 DEF HandleFields
  <2>4. Matches(handle[so.native], asked)
    BY <2>3, <1>1, <1>9 DEF Matched
  <2>5. asked' = [asked EXCEPT ![o] = v] /\ asked \in AskedFields
    BY <1>1 DEF SetOption, OptionTypeOK
  <2>6. CASE o = "keepAlive"
    BY <2>1, <2>2, <2>4, <2>5, <2>6 DEF Matches, HandleFields, AskedFields
  <2>7. CASE o = "noDelay"
    BY <2>1, <2>2, <2>4, <2>5, <2>7 DEF Matches, HandleFields, AskedFields
  <2> QED BY <2>6, <2>7
<1>13. Matched'
  BY <1>3, <1>9 DEF Matched
<1>10. RacersReferenced'
  BY <1>1, <1>3, <1>4, <1>5 DEF RacersReferenced, Racing
<1>11. IdleTimerOwned'
  BY <1>1, <1>2, <1>3 DEF IdleTimerOwned, SetOption
<1>12. Ledger(ran.called, so.writes, rest, ran.made)'
  BY <1>1, <1>2, <1>3 DEF SetOption
<1> QED BY <1>6, <1>7, <1>8, <1>10, <1>11, <1>12, <1>13 DEF OptionInv

\* A step that leaves the settings and the handles alone.
LEMMA SettingsFrame ==
    ASSUME OptionInv, handle' = handle, asked' = asked,
           \A f \in {"native", "attempts", "keepAlive", "noDelay", "referenced", "paused"} : so'[f] = so[f],
           ran'.calls = 0 /\ ~ran'.connected => ran.calls = 0 /\ ~ran.connected
    PROVE  Kept' /\ Matched' /\ RacersReferenced'
<1>1. /\ so'.native = so.native /\ so'.attempts = so.attempts /\ so'.keepAlive = so.keepAlive
      /\ so'.noDelay = so.noDelay /\ so'.referenced = so.referenced /\ so'.paused = so.paused
  BY Zenon
<1>2. Kept'
  BY <1>1, Zenon DEF OptionInv, Kept
<1>3. Matched' /\ RacersReferenced'
  BY <1>1 DEF OptionInv, Matched, RacersReferenced
<1> QED BY <1>2, <1>3

\* ref, unref
LEMMA ReferencedInv ==
    ASSUME OptionInv, NEW v \in BOOLEAN, SocketCalled(0, FALSE), Referenced(v)
    PROVE  OptionInv'
<1>1. OptionTypeOK /\ Racing /\ Kept /\ Matched /\ RacersReferenced /\ IdleTimerOwned
      /\ Ledger(ran.called, so.writes, rest, ran.made)
  BY DEF OptionInv
<1>2. /\ ran' \in RanFields /\ ran'.called = ran.called /\ ran'.made = ran.made /\ ran'.late = ran.late
      /\ ran'.fired = ran.fired /\ ran'.connected = ran.connected /\ ran'.calls # 0
  BY QuietCall
<1>3. /\ so' \in SocketFields /\ so'.referenced = v
      /\ \A f \in {"native", "connecting", "destroyed", "closed", "keepAlive", "noDelay", "paused", "timeout", "timer", "attempts", "writes"} :
            so'[f] = so[f]
  BY <1>1 DEF Referenced, OptionTypeOK, SocketFields
<1>4. asked' \in AskedFields /\ asked'.referenced = v /\ asked'.keepAlive = asked.keepAlive
      /\ asked'.noDelay = asked.noDelay /\ asked'.paused = asked.paused
  BY <1>1 DEF Referenced, OptionTypeOK, AskedFields
<1>5. DOMAIN handle = 1 .. Len(handle) /\ Len(handle) \in Nat /\ \A n \in 1 .. Len(handle) : handle[n] \in HandleFields
  BY <1>1 DEF OptionTypeOK
<1>6. \A n \in 1 .. Len(handle) : handle'[n] = IF n = so.native \/ n \in so.attempts THEN [handle[n] EXCEPT !.referenced = v] ELSE handle[n]
  BY <1>5 DEF Referenced
<1>7. \A n \in 1 .. Len(handle) :
          /\ handle'[n] \in HandleFields
          /\ handle'[n].live = handle[n].live /\ handle'[n].keepAlive = handle[n].keepAlive
          /\ handle'[n].noDelay = handle[n].noDelay /\ handle'[n].paused = handle[n].paused
          /\ n = so.native \/ n \in so.attempts => handle'[n].referenced = v
  <2> TAKE n \in 1 .. Len(handle)
  <2>1. handle[n] \in HandleFields
    BY <1>5
  <2>2. CASE n = so.native \/ n \in so.attempts
    <3>1. handle'[n] = [handle[n] EXCEPT !.referenced = v]
      BY <2>2, <1>6
    <3> QED BY <2>1, <3>1 DEF HandleFields
  <2>3. CASE ~(n = so.native \/ n \in so.attempts)
    BY <2>1, <2>3, <1>6
  <2> QED BY <2>2, <2>3
<1>8. handle' = [n \in 1 .. Len(handle) |-> handle'[n]]
  BY <1>5 DEF Referenced
<1>9. handle' \in Seq(HandleFields) /\ Len(handle') = Len(handle)
  BY <1>5, <1>7, <1>8, IsASeq, LenProperties
<1>10. OptionTypeOK'
  BY <1>1, <1>2, <1>3, <1>4, <1>9 DEF OptionTypeOK, Referenced
<1>11. Racing'
  <2>1. ~ran.connected => handle' = <<>>
    BY <1>1, <1>9 DEF Racing, OptionTypeOK
  <2> QED BY <2>1, <1>1, <1>2, <1>3, <1>9 DEF Racing, OptionTypeOK
<1>12. Kept'
  BY <1>1, <1>2, <1>3, <1>4 DEF Kept
<1>13. Matched'
  <2>1. so.native # NoHandle => so.native \in 1 .. Len(handle)
    BY <1>1, <1>5 DEF Racing, NoHandle, OptionTypeOK, SocketFields
  <2> QED BY <2>1, <1>1, <1>3, <1>4, <1>7 DEF Matched, Matches
<1>14. RacersReferenced'
  BY <1>1, <1>3, <1>4, <1>7 DEF RacersReferenced, Racing
<1>15. IdleTimerOwned'
  BY <1>1, <1>2, <1>3 DEF IdleTimerOwned, Referenced
<1>16. Ledger(ran.called, so.writes, rest, ran.made)'
  BY <1>1, <1>2, <1>3 DEF Referenced
<1> QED BY <1>10, <1>11, <1>12, <1>13, <1>14, <1>15, <1>16 DEF OptionInv

\* pause, resume
LEMMA PausedInv ==
    ASSUME OptionInv, NEW v \in BOOLEAN, SocketCalled(0, FALSE), Paused(v)
    PROVE  OptionInv'
<1>1. OptionTypeOK /\ Racing /\ Kept /\ Matched /\ RacersReferenced /\ IdleTimerOwned
      /\ Ledger(ran.called, so.writes, rest, ran.made)
  BY DEF OptionInv
<1>2. /\ ran' \in RanFields /\ ran'.called = ran.called /\ ran'.made = ran.made /\ ran'.late = ran.late
      /\ ran'.fired = ran.fired /\ ran'.connected = ran.connected /\ ran'.calls # 0
  BY QuietCall
<1>3. /\ so' \in SocketFields /\ so'.paused = v
      /\ \A f \in {"native", "connecting", "destroyed", "closed", "keepAlive", "noDelay", "referenced", "timeout", "timer", "attempts", "writes"} :
            so'[f] = so[f]
  BY <1>1 DEF Paused, OptionTypeOK, SocketFields
<1>4. asked' \in AskedFields /\ asked'.paused = v /\ asked'.keepAlive = asked.keepAlive
      /\ asked'.noDelay = asked.noDelay /\ asked'.referenced = asked.referenced
  BY <1>1 DEF Paused, OptionTypeOK, AskedFields
<1>5. /\ handle' \in Seq(HandleFields) /\ Len(handle') = Len(handle)
      /\ \A n \in 1 .. Len(handle) : handle'[n].referenced = handle[n].referenced
      /\ so.native = NoHandle => handle' = handle
      /\ so.native # NoHandle => /\ handle'[so.native].live = handle[so.native].live
                                 /\ handle'[so.native].keepAlive = handle[so.native].keepAlive
                                 /\ handle'[so.native].noDelay = handle[so.native].noDelay
                                 /\ handle'[so.native].paused = v
                                 /\ so.native \in 1 .. Len(handle)
  <2>1. CASE so.native = NoHandle
    BY <1>1, <2>1 DEF Paused, Set, OptionTypeOK
  <2>2. CASE so.native # NoHandle
    <3>1. so.native \in 1 .. Len(handle) /\ handle' = [handle EXCEPT ![so.native] = [handle[so.native] EXCEPT !["paused"] = v]]
      BY <1>1, <2>2 DEF Paused, Set, OptionTypeOK, Racing, NoHandle
    <3>2. handle[so.native] \in HandleFields
      BY <1>1, <3>1 DEF OptionTypeOK
    <3> DEFINE h == [handle[so.native] EXCEPT !["paused"] = v]
    <3>3. /\ h \in HandleFields /\ h.referenced = handle[so.native].referenced /\ h.live = handle[so.native].live
          /\ h.keepAlive = handle[so.native].keepAlive /\ h.noDelay = handle[so.native].noDelay /\ h.paused = v
      BY <3>2 DEF HandleFields
    <3> HIDE DEF h
    <3>4. handle' = [handle EXCEPT ![so.native] = h]
      BY <3>1 DEF h
    <3>5. handle' \in Seq(HandleFields) /\ Len(handle') = Len(handle)
      BY <1>1, <3>1, <3>3, <3>4 DEF OptionTypeOK
    <3>6. handle'[so.native] = h /\ \A n \in 1 .. Len(handle) : n # so.native => handle'[n] = handle[n]
      BY <1>1, <3>1, <3>4 DEF OptionTypeOK
    <3>7. \A n \in 1 .. Len(handle) : handle'[n].referenced = handle[n].referenced
      BY <3>3, <3>6
    <3> QED BY <2>2, <3>1, <3>3, <3>5, <3>6, <3>7, Zenon
  <2> QED BY <2>1, <2>2
<1>6. OptionTypeOK'
  BY <1>1, <1>2, <1>3, <1>4, <1>5 DEF OptionTypeOK, Paused
<1>7. Racing'
  BY <1>1, <1>2, <1>3, <1>5 DEF Racing, OptionTypeOK
<1>8. Kept'
  BY <1>1, <1>2, <1>3, <1>4 DEF Kept
<1>9. Matched'
  BY <1>1, <1>3, <1>4, <1>5 DEF Matched, Matches
<1>10. RacersReferenced'
  BY <1>1, <1>3, <1>4, <1>5 DEF RacersReferenced, Racing
<1>11. IdleTimerOwned'
  BY <1>1, <1>2, <1>3 DEF IdleTimerOwned, Paused
<1>12. Ledger(ran.called, so.writes, rest, ran.made)'
  BY <1>1, <1>2, <1>3 DEF Paused
<1> QED BY <1>6, <1>7, <1>8, <1>9, <1>10, <1>11, <1>12 DEF OptionInv

\* setTimeout
LEMMA SetTimeoutInv ==
    ASSUME OptionInv, NEW v \in BOOLEAN, SocketCalled(0, TRUE), SetTimeout(v)
    PROVE  OptionInv'
<1>1. OptionTypeOK /\ Racing /\ Ledger(ran.called, so.writes, rest, ran.made)
  BY DEF OptionInv
<1>2. /\ ran' \in RanFields /\ ran'.called = ran.called /\ ran'.made = ran.made /\ ran'.late = ran.late
      /\ ~ran'.fired /\ ran'.connected = ran.connected /\ ran'.calls # 0
  BY ArmingCall
<1> DEFINE s == [so EXCEPT !.timeout = v]
<1>3. s \in SocketFields /\ s.timer = so.timer
  BY <1>1 DEF OptionTypeOK, SocketFields
<1>4. TimerReset(s) /\ handle' = handle /\ rest' = rest /\ asked' = asked
  BY DEF SetTimeout
<1>5. so' = [s EXCEPT !.timer = (s.timeout /\ ~s.destroyed)] /\ so' \in SocketFields /\ idle' \in Int /\ IdleTimerOwned'
  <2> HIDE DEF s
  <2> QED BY <1>2, <1>3, <1>4, Rearmed
<1>6. \A f \in {"native", "connecting", "destroyed", "closed", "keepAlive", "noDelay", "referenced", "paused", "attempts", "writes"} :
          so'[f] = so[f]
  BY <1>1, <1>5 DEF OptionTypeOK, SocketFields
<1>7. OptionTypeOK'
  BY <1>1, <1>2, <1>4, <1>5 DEF OptionTypeOK
<1>8. Racing'
  BY <1>1, <1>2, <1>4, <1>6 DEF Racing
<1>9. Kept' /\ Matched' /\ RacersReferenced'
  BY <1>2, <1>4, <1>6, SettingsFrame
<1>10. Ledger(ran.called, so.writes, rest, ran.made)'
  BY <1>1, <1>2, <1>4, <1>6
<1> QED BY <1>5, <1>7, <1>8, <1>9, <1>10 DEF OptionInv

LEMMA WritingCall ==
    ASSUME OptionInv, SocketCalled(1, TRUE)
    PROVE  /\ ran' \in RanFields /\ ran'.called = ran.called /\ ran'.made = ran.made + 1 /\ ran'.late = ran.late
           /\ ~ran'.fired /\ ran'.connected = ran.connected /\ ran'.calls # 0
<1>1. /\ ran' \in RanFields /\ ran'.called = ran.called /\ ran'.made = ran.made + 1 /\ ran'.late = ran.late
      /\ ran'.fired = (ran.fired /\ ~TRUE) /\ ran'.connected = ran.connected /\ ran'.calls # 0
  BY SocketCalledEffect
<1> QED BY <1>1, Zenon

\* write(), with a callback
LEMMA WriteCallbackInv ==
    ASSUME OptionInv, SocketCalled(1, TRUE), WriteCallback
    PROVE  OptionInv'
<1>1. OptionTypeOK /\ Racing /\ Ledger(ran.called, so.writes, rest, ran.made)
  BY DEF OptionInv
<1>2. /\ ran' \in RanFields /\ ran'.called = ran.called /\ ran'.made = ran.made + 1 /\ ran'.late = ran.late
      /\ ~ran'.fired /\ ran'.connected = ran.connected /\ ran'.calls # 0
  BY WritingCall
<1> DEFINE w == Append(so.writes, ran.made + 1)
           s == [so EXCEPT !.writes = w]
<1>3. so \in SocketFields /\ so.writes \in Seq(Nat) /\ ran.made \in Nat /\ ran.called \in Seq(Nat) /\ rest \in Seq(Doing)
  BY <1>1 DEF OptionTypeOK, SocketFields, RanFields
<1>4. w \in Seq(Nat) /\ Ledger(ran.called, w, rest, ran.made + 1)
  BY <1>1, <1>3, LedgerWrite
<1>5. TimerReset(s) /\ handle' = handle /\ rest' = rest /\ asked' = asked
  BY DEF WriteCallback
<1> HIDE DEF w
<1>6. s \in SocketFields /\ s.timer = so.timer
  BY <1>3, <1>4 DEF SocketFields
<1>7. so' = [s EXCEPT !.timer = (s.timeout /\ ~s.destroyed)] /\ so' \in SocketFields /\ idle' \in Int /\ IdleTimerOwned'
  <2> HIDE DEF s
  <2> QED BY <1>2, <1>5, <1>6, Rearmed
<1>8. /\ so'.writes = w
      /\ \A f \in {"native", "connecting", "destroyed", "closed", "keepAlive", "noDelay", "referenced", "paused", "attempts"} : so'[f] = so[f]
  BY <1>3, <1>7 DEF SocketFields
<1>9. OptionTypeOK'
  BY <1>1, <1>2, <1>5, <1>7 DEF OptionTypeOK
<1>10. Racing'
  BY <1>1, <1>2, <1>5, <1>8 DEF Racing
<1>11. Kept' /\ Matched' /\ RacersReferenced'
  BY <1>2, <1>5, <1>8, SettingsFrame
<1>12. Ledger(ran.called, so.writes, rest, ran.made)'
  BY <1>2, <1>4, <1>5, <1>8
<1> QED BY <1>7, <1>9, <1>10, <1>11, <1>12 DEF OptionInv

\* The callbacks to run, one for each pending one.
LEMMA FlushesTyped ==
    ASSUME NEW s, s.writes \in Seq(Nat)
    PROVE  /\ Flushes(s) \in Seq(Doing) /\ Len(Flushes(s)) = Len(s.writes)
           /\ \A i \in 1 .. Len(s.writes) : Flushes(s)[i] = [do |-> "callback", fn |-> s.writes[i]]
<1> DEFINE w == s.writes
           f == [i \in 1 .. Len(w) |-> [do |-> "callback", fn |-> w[i]]]
<1>1. Flushes(s) = f
  BY DEF Flushes
<1>2. Len(w) \in Nat /\ \A i \in 1 .. Len(w) : w[i] \in Nat
  OBVIOUS
<1> HIDE DEF w
<1>3. \A i \in 1 .. Len(w) : [do |-> "callback", fn |-> w[i]] \in Doing
  BY <1>2 DEF Doing
<1>4. f \in Seq(Doing)
  BY <1>2, <1>3, IsASeq
<1>5. Len(f) = Len(w)
  BY <1>2, <1>4, LenProperties
<1>6. \A i \in 1 .. Len(w) : f[i] = [do |-> "callback", fn |-> w[i]]
  OBVIOUS
<1> HIDE DEF f
<1> QED BY <1>1, <1>4, <1>5, <1>6 DEF w

\* write() of no bytes
LEMMA WriteEmptyInv ==
    ASSUME OptionInv, SocketCalled(1, TRUE), WriteEmpty
    PROVE  OptionInv'
<1>1. OptionTypeOK /\ Racing /\ Ledger(ran.called, so.writes, rest, ran.made)
  BY DEF OptionInv
<1>2. /\ ran' \in RanFields /\ ran'.called = ran.called /\ ran'.made = ran.made + 1 /\ ran'.late = ran.late
      /\ ~ran'.fired /\ ran'.connected = ran.connected /\ ran'.calls # 0
  BY WritingCall
<1> DEFINE w == Append(so.writes, ran.made + 1)
           t == [so EXCEPT !.writes = w]
           s == [t EXCEPT !.writes = <<>>]
<1>3. so \in SocketFields /\ so.writes \in Seq(Nat) /\ ran.made \in Nat /\ ran.called \in Seq(Nat) /\ rest \in Seq(Doing)
  BY <1>1 DEF OptionTypeOK, SocketFields, RanFields
<1>4. w \in Seq(Nat) /\ Ledger(ran.called, w, rest, ran.made + 1)
  BY <1>1, <1>3, LedgerWrite
<1>5. TimerReset(s) /\ handle' = handle /\ rest' = Flushes(t) \o rest /\ asked' = asked
  BY DEF WriteEmpty, PendingAfter
<1> HIDE DEF w
<1>6. t.writes = w /\ s \in SocketFields /\ s.timer = so.timer
  <2>1. t \in SocketFields /\ t.writes = w /\ t.timer = so.timer
    BY <1>3, <1>4 DEF SocketFields
  <2> HIDE DEF t
  <2>2. <<>> \in Seq(Nat)
    OBVIOUS
  <2>3. s \in SocketFields
    BY <2>1, <2>2, Zenon DEF SocketFields
  <2>4. s.timer = t.timer
    BY <2>1 DEF SocketFields
  <2> QED BY <2>1, <2>3, <2>4
<1>7. so' = [s EXCEPT !.timer = (s.timeout /\ ~s.destroyed)] /\ so' \in SocketFields /\ idle' \in Int /\ IdleTimerOwned'
  <2> HIDE DEF s
  <2> QED BY <1>2, <1>5, <1>6, Rearmed
<1>8. /\ so'.writes = <<>>
      /\ \A f \in {"native", "connecting", "destroyed", "closed", "keepAlive", "noDelay", "referenced", "paused", "attempts"} : so'[f] = so[f]
  BY <1>3, <1>7 DEF SocketFields
<1> HIDE DEF s, t
<1>9. /\ Flushes(t) \in Seq(Doing) /\ Len(Flushes(t)) = Len(w)
      /\ \A i \in 1 .. Len(w) : Flushes(t)[i] = [do |-> "callback", fn |-> w[i]]
  BY <1>4, <1>6, FlushesTyped
<1>10. rest' \in Seq(Doing)
  BY <1>3, <1>5, <1>9
<1>11. OptionTypeOK'
  BY <1>1, <1>2, <1>5, <1>7, <1>10 DEF OptionTypeOK
<1>12. Racing'
  BY <1>1, <1>2, <1>5, <1>8 DEF Racing
<1>13. Kept' /\ Matched' /\ RacersReferenced'
  BY <1>2, <1>5, <1>8, SettingsFrame
<1>14. Ledger(ran.called, <<>>, Flushes(t) \o rest, ran.made + 1)
  BY <1>3, <1>4, <1>9, LedgerFlush
<1>15. Ledger(ran.called, so.writes, rest, ran.made)'
  BY <1>2, <1>5, <1>8, <1>14
<1> QED BY <1>7, <1>11, <1>12, <1>13, <1>15 DEF OptionInv

\* destroy(): the timer is cleared, and the handle and the attempts are gone.
LEMMA DestroyEffect ==
    ASSUME OptionInv, DestroySocket, asked' = asked, ran' \in RanFields,
           ran'.late = ran.late, ran'.connected = ran.connected, ran'.calls = 0 => ran.calls = 0
    PROVE  /\ so' \in SocketFields /\ idle' \in Int /\ handle' \in Seq(HandleFields) /\ so'.writes = so.writes
           /\ Racing' /\ Kept' /\ Matched' /\ RacersReferenced' /\ IdleTimerOwned'
<1>1. OptionTypeOK /\ Racing /\ Kept
  BY DEF OptionInv
<1> DEFINE s == Ended(so)
<1>2. s \in SocketFields /\ s.timer = so.timer /\ s.destroyed = TRUE
  <2>1. so \in SocketFields
    BY <1>1 DEF OptionTypeOK
  <2>2. s = [so EXCEPT !.destroyed = TRUE, !.connecting = FALSE, !.attempts = {}, !.targets = 0]
    BY DEF Ended
  <2>3. s.timer = so.timer /\ s.destroyed = TRUE
    BY <2>1, <2>2 DEF SocketFields
  <2>4. {} \in SUBSET Nat /\ 0 \in Int
    OBVIOUS
  <2>5. s \in SocketFields
    BY <2>1, <2>2, <2>4, Zenon DEF SocketFields
  <2> QED BY <2>3, <2>5
<1>3. so' = cleared([so |-> s, idle |-> idle]).so /\ idle' = cleared([so |-> s, idle |-> idle]).idle
  BY DEF DestroySocket
<1>4. so' = [s EXCEPT !.timer = FALSE] /\ so' \in SocketFields /\ idle' \in Int /\ IdleTimerOwned'
  <2> HIDE DEF s
  <2> QED BY <1>2, <1>3, Disarmed
<1>5. /\ so'.writes = so.writes /\ so'.native = so.native /\ so'.keepAlive = so.keepAlive /\ so'.noDelay = so.noDelay
      /\ so'.referenced = so.referenced /\ so'.paused = so.paused /\ so'.destroyed = TRUE /\ so'.closed = so.closed
      /\ so'.attempts = {} /\ so'.connecting = FALSE
  BY <1>1, <1>4 DEF Ended, OptionTypeOK, SocketFields
<1>6. DOMAIN handle = 1 .. Len(handle) /\ Len(handle) \in Nat /\ \A n \in 1 .. Len(handle) : handle[n] \in HandleFields
  BY <1>1 DEF OptionTypeOK
<1>7. \A n \in 1 .. Len(handle) : handle'[n] = IF n = so.native \/ n \in so.attempts THEN [handle[n] EXCEPT !.live = "gone"] ELSE handle[n]
  BY <1>6 DEF DestroySocket
<1>8. \A n \in 1 .. Len(handle) : handle'[n] \in HandleFields
  BY <1>6, <1>7 DEF HandleFields
<1>9. handle' = [n \in 1 .. Len(handle) |-> handle'[n]]
  BY <1>6 DEF DestroySocket
<1>10. handle' \in Seq(HandleFields) /\ Len(handle') = Len(handle)
  BY <1>6, <1>8, <1>9, IsASeq, LenProperties
<1>11. so.native # NoHandle => handle'[so.native].live = "gone"
  <2>1. so.native # NoHandle => so.native \in 1 .. Len(handle)
    BY <1>1, <1>6 DEF Racing, NoHandle, OptionTypeOK, SocketFields
  <2> QED BY <2>1, <1>6, <1>7 DEF HandleFields
<1>12. Racing'
  <2>1. ~ran.connected => handle' = <<>>
    BY <1>1, <1>10 DEF Racing, OptionTypeOK
  <2> QED BY <2>1, <1>1, <1>5, <1>10 DEF Racing, OptionTypeOK
<1>13. Kept'
  BY <1>1, <1>5 DEF Kept
<1>14. Matched' /\ RacersReferenced'
  BY <1>5, <1>11 DEF Matched, RacersReferenced
<1> QED BY <1>4, <1>5, <1>10, <1>12, <1>13, <1>14

LEMMA DestroyCallInv ==
    ASSUME OptionInv, SocketCalled(0, FALSE), DestroySocket, rest' = rest, asked' = asked
    PROVE  OptionInv'
<1>1. OptionTypeOK /\ Ledger(ran.called, so.writes, rest, ran.made)
  BY DEF OptionInv
<1>2. /\ ran' \in RanFields /\ ran'.called = ran.called /\ ran'.made = ran.made /\ ran'.late = ran.late
      /\ ran'.connected = ran.connected /\ ran'.calls # 0
  BY QuietCall
<1>3. /\ so' \in SocketFields /\ idle' \in Int /\ handle' \in Seq(HandleFields) /\ so'.writes = so.writes
      /\ Racing' /\ Kept' /\ Matched' /\ RacersReferenced' /\ IdleTimerOwned'
  BY <1>2, DestroyEffect
<1>4. OptionTypeOK'
  BY <1>1, <1>2, <1>3 DEF OptionTypeOK
<1>5. Ledger(ran.called, so.writes, rest, ran.made)'
  BY <1>1, <1>2, <1>3
<1> QED BY <1>3, <1>4, <1>5 DEF OptionInv

----------------
(* What the loop runs *)

\* Only what is left to do changes.
LEMMA RestOnly ==
    ASSUME OptionInv, so' = so, handle' = handle, idle' = idle, asked' = asked, ran' = ran,
           rest' \in Seq(Doing), Ledger(ran.called, so.writes, rest', ran.made)
    PROVE  OptionInv'
BY DEF OptionInv, OptionTypeOK, Racing, Kept, Matched, RacersReferenced, IdleTimerOwned

LEMMA CallReturnsInv == ASSUME OptionInv, CallReturns PROVE OptionInv'
<1>1. rest \in Seq(Doing) /\ rest # <<>> /\ Head(rest).do # "callback" /\ rest' = Tail(rest)
  BY DEF OptionInv, OptionTypeOK, CallReturns
<1>2. rest' \in Seq(Doing) /\ Ledger(ran.called, so.writes, rest', ran.made)
  BY <1>1, DueTail, LedgerTail DEF OptionInv
<1> QED BY <1>2, RestOnly DEF CallReturns

\* The timer armed again: the history says so.
LEMMA ActiveEffect ==
    ASSUME OptionInv, ran' = Active
    PROVE  /\ ran' \in RanFields /\ ran'.called = ran.called /\ ran'.made = ran.made /\ ran'.late = ran.late
           /\ ~ran'.fired /\ ran'.connected = ran.connected /\ ran'.calls = ran.calls
<1>1. ran \in RanFields
  BY DEF OptionInv, OptionTypeOK
<1>2. ran' = [ran EXCEPT !.fired = FALSE]
  BY DEF Active
<1> QED BY <1>1, <1>2, Zenon DEF RanFields

LEMMA ActiveConnected ==
    ASSUME OptionInv, ran' = [Active EXCEPT !.connected = TRUE]
    PROVE  /\ ran' \in RanFields /\ ran'.called = ran.called /\ ran'.made = ran.made /\ ran'.late = ran.late
           /\ ~ran'.fired /\ ran'.connected = TRUE
<1>1. ran \in RanFields
  BY DEF OptionInv, OptionTypeOK
<1>2. Active \in RanFields /\ Active = [ran EXCEPT !.fired = FALSE]
  BY <1>1, Zenon DEF Active, RanFields
<1>3. /\ Active.called = ran.called /\ Active.made = ran.made /\ Active.late = ran.late /\ Active.fired = FALSE
  BY <1>1, <1>2 DEF RanFields
<1>4. ran' \in RanFields
  BY <1>2, Zenon DEF RanFields
<1>5. /\ ran'.called = Active.called /\ ran'.made = Active.made /\ ran'.late = Active.late
      /\ ran'.fired = Active.fired /\ ran'.connected = TRUE
  BY <1>2, Zenon DEF RanFields
<1> QED BY <1>3, <1>4, <1>5, Zenon

LEMMA ConnectSocketInv == ASSUME OptionInv, ConnectSocket PROVE OptionInv'
<1>1. OptionTypeOK /\ Racing /\ Ledger(ran.called, so.writes, rest, ran.made)
  BY DEF OptionInv
<1>2. /\ ran' \in RanFields /\ ran'.called = ran.called /\ ran'.made = ran.made /\ ran'.late = ran.late
      /\ ~ran'.fired /\ ran'.connected = TRUE
  BY ActiveConnected DEF ConnectSocket
<1>3. PICK n \in 1 .. Handles :
          TimerReset([so EXCEPT !.connecting = TRUE, !.destroyed = FALSE, !.closed = FALSE, !.targets = n])
  BY DEF ConnectSocket
<1> DEFINE s == [so EXCEPT !.connecting = TRUE, !.destroyed = FALSE, !.closed = FALSE, !.targets = n]
<1>4. n \in Int
  BY HandlesAssumption
<1>5. so \in SocketFields
  BY <1>1 DEF OptionTypeOK
<1>6. s \in SocketFields
  BY <1>4, <1>5, Zenon DEF SocketFields
<1>7. s.timer = so.timer
  BY <1>5 DEF SocketFields
<1>8. so' = [s EXCEPT !.timer = (s.timeout /\ ~s.destroyed)] /\ so' \in SocketFields /\ idle' \in Int /\ IdleTimerOwned'
  <2>1. TimerReset(s)
    BY <1>3
  <2> HIDE DEF s
  <2> QED BY <2>1, <1>2, <1>6, <1>7, Rearmed
<1>9. /\ so'.connecting = TRUE /\ so'.destroyed = FALSE /\ so'.closed = FALSE /\ so'.writes = so.writes
      /\ \A f \in {"native", "attempts", "keepAlive", "noDelay", "referenced", "paused"} : so'[f] = so[f]
  BY <1>5, <1>8 DEF SocketFields
<1>10. so.native = NoHandle /\ handle' = handle /\ rest' = rest /\ asked' = asked
  BY DEF ConnectSocket
<1>11. OptionTypeOK'
  BY <1>1, <1>2, <1>8, <1>10 DEF OptionTypeOK
<1>12. Racing'
  BY <1>1, <1>2, <1>9, <1>10 DEF Racing
<1>13. Kept' /\ Matched' /\ RacersReferenced'
  BY <1>2, <1>9, <1>10, SettingsFrame
<1>14. Ledger(ran.called, so.writes, rest, ran.made)'
  BY <1>1, <1>2, <1>9, <1>10
<1> QED BY <1>8, <1>11, <1>12, <1>13, <1>14 DEF OptionInv

LEMMA AttemptInv ==
    ASSUME OptionInv, NEW left \in Seq(Doing), Ledger(ran.called, so.writes, left, ran.made), Attempt(left)
    PROVE  OptionInv'
<1>1. OptionTypeOK /\ Racing /\ IdleTimerOwned
  BY DEF OptionInv
<1>2. so \in SocketFields /\ so.targets - 1 \in Int /\ so' = [so EXCEPT !.targets = so.targets - 1]
  BY <1>1 DEF OptionTypeOK, SocketFields, Attempt
<1>3. so' \in SocketFields
  BY <1>2, Zenon DEF SocketFields
<1>4. \A f \in {"native", "connecting", "destroyed", "closed", "keepAlive", "noDelay", "referenced", "paused", "timeout", "timer",
                "attempts", "writes"} : so'[f] = so[f]
  BY <1>2 DEF SocketFields
<1>5. handle' = handle /\ idle' = idle /\ asked' = asked /\ ran' = ran
      /\ rest' = <<[do |-> "call"], [do |-> "create"]>> \o left
  BY DEF Attempt
<1>6. <<[do |-> "call"], [do |-> "create"]>> \in Seq(Plain)
  BY DEF Plain
<1>7. rest' \in Seq(Doing)
  <2>1. <<[do |-> "call"], [do |-> "create"]>> \in Seq(Doing)
    BY DEF Doing, Plain
  <2> QED BY <2>1, <1>5
<1>8. Ledger(ran.called, so.writes, rest', ran.made)
  BY <1>5, <1>6, LedgerBefore
<1>9. OptionTypeOK'
  BY <1>1, <1>3, <1>5, <1>7 DEF OptionTypeOK
<1>10. Racing' /\ IdleTimerOwned'
  BY <1>1, <1>4, <1>5 DEF Racing, IdleTimerOwned
<1>11. Kept' /\ Matched' /\ RacersReferenced'
  BY <1>4, <1>5, SettingsFrame
<1>12. Ledger(ran.called, so.writes, rest, ran.made)'
  BY <1>4, <1>5, <1>8
<1> QED BY <1>9, <1>10, <1>11, <1>12 DEF OptionInv

LEMMA FirstOrLateAttemptInv == ASSUME OptionInv, FirstOrLateAttempt PROVE OptionInv'
<1>1. Ledger(ran.called, so.writes, <<>>, ran.made) /\ Attempt(<<>>)
  BY DEF FirstOrLateAttempt, OptionInv
<1>2. <<>> \in Seq(Doing)
  OBVIOUS
<1> QED BY <1>1, <1>2, AttemptInv

LEMMA NextAttemptInv == ASSUME OptionInv, NextAttempt PROVE OptionInv'
<1>1. rest \in Seq(Doing) /\ rest # <<>> /\ Head(rest).do # "callback"
  BY DEF OptionInv, OptionTypeOK, NextAttempt
<1>2. Tail(rest) \in Seq(Doing) /\ Ledger(ran.called, so.writes, Tail(rest), ran.made)
  BY <1>1, DueTail, LedgerTail DEF OptionInv
<1>3. CASE so.connecting
  BY <1>2, <1>3, AttemptInv DEF NextAttempt
<1>4. CASE ~so.connecting
  BY <1>2, <1>4, RestOnly DEF NextAttempt
<1> QED BY <1>3, <1>4

LEMMA CreateAttemptInv == ASSUME OptionInv, CreateAttempt PROVE OptionInv'
<1>1. OptionTypeOK /\ Racing /\ Kept /\ Matched /\ RacersReferenced /\ IdleTimerOwned
  BY DEF OptionInv
<1>2. rest \in Seq(Doing) /\ rest # <<>> /\ Head(rest).do # "callback" /\ rest' = Tail(rest)
      /\ idle' = idle /\ asked' = asked /\ ran' = ran
  BY <1>1 DEF OptionTypeOK, CreateAttempt
<1>3. rest' \in Seq(Doing) /\ Ledger(ran.called, so.writes, rest', ran.made)
  BY <1>2, DueTail, LedgerTail DEF OptionInv
<1>4. CASE ~so.connecting
  BY <1>2, <1>3, <1>4, RestOnly DEF CreateAttempt
<1>5. CASE so.connecting
  <2> DEFINE k == Len(handle) + 1
             h == Created(so)
  <2>1. handle' = Append(handle, h) /\ so' = [so EXCEPT !.attempts = so.attempts \cup {k}]
    BY <1>5 DEF CreateAttempt
  <2>2. so \in SocketFields /\ handle \in Seq(HandleFields) /\ Len(handle) \in Nat
    BY <1>1 DEF OptionTypeOK
  <2>3. h = [NewHandle("racing") EXCEPT !.referenced = so.referenced] /\ NewHandle("racing") \in HandleFields
    BY DEF Created, NewHandle, HandleFields
  <2>4. h \in HandleFields /\ h.referenced = so.referenced
    BY <2>2, <2>3, Zenon DEF HandleFields, SocketFields
  <2> HIDE DEF h
  <2>5. /\ handle' \in Seq(HandleFields) /\ Len(handle') = k /\ handle'[k] = h
        /\ \A n \in 1 .. Len(handle) : handle'[n] = handle[n]
    BY <2>1, <2>2, <2>4
  <2>6. so.attempts \cup {k} \in SUBSET Nat
    BY <2>2 DEF SocketFields
  <2>7. so' \in SocketFields
    BY <2>1, <2>2, <2>6, Zenon DEF SocketFields
  <2>8. /\ so'.attempts = so.attempts \cup {k}
        /\ \A f \in {"native", "connecting", "destroyed", "closed", "keepAlive", "noDelay", "referenced", "paused", "timeout",
                     "timer", "writes"} : so'[f] = so[f]
    BY <2>1, <2>2 DEF SocketFields
  <2>9. OptionTypeOK'
    BY <1>1, <1>2, <1>3, <2>5, <2>7 DEF OptionTypeOK
  <2>10. so.native = NoHandle /\ ran.connected
    BY <1>1, <1>5, Zenon DEF Racing
  <2>11. Racing'
    BY <1>1, <1>2, <1>5, <2>2, <2>5, <2>8, <2>10 DEF Racing, NoHandle
  <2>12. Kept'
    BY <1>1, <1>2, <2>8 DEF Kept
  <2>13. Matched'
    BY <2>8, <2>10 DEF Matched
  <2>14. RacersReferenced'
    BY <1>1, <1>2, <2>4, <2>5, <2>8 DEF RacersReferenced, Racing, Kept
  <2>15. IdleTimerOwned'
    BY <1>1, <1>2, <2>8 DEF IdleTimerOwned
  <2>16. Ledger(ran.called, so.writes, rest, ran.made)'
    BY <1>2, <1>3, <2>8
  <2> QED BY <2>9, <2>11, <2>12, <2>13, <2>14, <2>15, <2>16 DEF OptionInv
<1> QED BY <1>4, <1>5

LEMMA NativeFlushInv == ASSUME OptionInv, NativeFlush PROVE OptionInv'
<1>1. OptionTypeOK /\ Racing /\ IdleTimerOwned /\ Ledger(ran.called, so.writes, <<>>, ran.made)
  BY DEF OptionInv, NativeFlush
<1>2. so \in SocketFields /\ so.writes \in Seq(Nat)
  BY <1>1 DEF OptionTypeOK, SocketFields
<1>3. so' = [so EXCEPT !.writes = <<>>] /\ rest' = Flushes(so)
      /\ handle' = handle /\ idle' = idle /\ asked' = asked /\ ran' = ran
  BY DEF NativeFlush, PendingAfter
<1>4. <<>> \in Seq(Nat) /\ <<>> \in Seq(Doing)
  OBVIOUS
<1>5. so' \in SocketFields
  BY <1>2, <1>3, <1>4, Zenon DEF SocketFields
<1>6. /\ so'.writes = <<>>
      /\ \A f \in {"native", "connecting", "destroyed", "closed", "keepAlive", "noDelay", "referenced", "paused", "timeout", "timer",
                   "attempts"} : so'[f] = so[f]
  BY <1>2, <1>3 DEF SocketFields
<1>7. /\ Flushes(so) \in Seq(Doing) /\ Len(Flushes(so)) = Len(so.writes)
      /\ \A i \in 1 .. Len(so.writes) : Flushes(so)[i] = [do |-> "callback", fn |-> so.writes[i]]
  BY <1>2, FlushesTyped
<1>8. Ledger(ran.called, <<>>, Flushes(so) \o <<>>, ran.made)
  BY <1>1, <1>2, <1>4, <1>7, LedgerFlush
<1>9. Flushes(so) \o <<>> = Flushes(so)
  BY <1>7
<1>10. OptionTypeOK'
  BY <1>1, <1>3, <1>5, <1>7 DEF OptionTypeOK
<1>11. Racing' /\ IdleTimerOwned'
  BY <1>1, <1>3, <1>6 DEF Racing, IdleTimerOwned
<1>12. Kept' /\ Matched' /\ RacersReferenced'
  BY <1>3, <1>6, SettingsFrame
<1>13. Ledger(ran.called, so.writes, rest, ran.made)'
  BY <1>3, <1>6, <1>8, <1>9
<1> QED BY <1>10, <1>11, <1>12, <1>13 DEF OptionInv

\* A listener is called: nothing else was left to do.
LEMMA LedgerListener ==
    ASSUME NEW c, NEW w, NEW m, Ledger(c, w, <<>>, m)
    PROVE  <<[do |-> "call"]>> \in Seq(Doing) /\ Ledger(c, w, <<[do |-> "call"]>>, m)
<1>1. <<[do |-> "call"]>> \in Seq(Plain) /\ <<[do |-> "call"]>> \in Seq(Doing) /\ <<>> \in Seq(Doing)
  BY DEF Plain, Doing
<1>2. Ledger(c, w, <<[do |-> "call"]>> \o <<>>, m)
  BY <1>1, LedgerBefore
<1>3. <<[do |-> "call"]>> \o <<>> = <<[do |-> "call"]>>
  BY <1>1
<1> QED BY <1>1, <1>2, <1>3

LEMMA NativeDataInv == ASSUME OptionInv, NativeData PROVE OptionInv'
<1>1. OptionTypeOK /\ Racing /\ Ledger(ran.called, so.writes, <<>>, ran.made)
  BY DEF OptionInv, NativeData
<1>2. /\ ran' \in RanFields /\ ran'.called = ran.called /\ ran'.made = ran.made /\ ran'.late = ran.late
      /\ ~ran'.fired /\ ran'.connected = ran.connected /\ ran'.calls = ran.calls
  BY ActiveEffect DEF NativeData
<1>3. so \in SocketFields /\ TimerReset(so) /\ handle' = handle /\ rest' = <<[do |-> "call"]>> /\ asked' = asked
  BY <1>1 DEF NativeData, OptionTypeOK
<1>4. so' = [so EXCEPT !.timer = (so.timeout /\ ~so.destroyed)] /\ so' \in SocketFields /\ idle' \in Int /\ IdleTimerOwned'
  BY <1>2, <1>3, Rearmed
<1>5. \A f \in {"native", "connecting", "destroyed", "closed", "keepAlive", "noDelay", "referenced", "paused", "attempts", "writes"} :
          so'[f] = so[f]
  BY <1>3, <1>4 DEF SocketFields
<1>6. rest' \in Seq(Doing) /\ Ledger(ran.called, so.writes, rest', ran.made)
  BY <1>1, <1>3, LedgerListener
<1>7. OptionTypeOK'
  BY <1>1, <1>2, <1>3, <1>4, <1>6 DEF OptionTypeOK
<1>8. Racing'
  BY <1>1, <1>2, <1>3, <1>5 DEF Racing
<1>9. Kept' /\ Matched' /\ RacersReferenced'
  BY <1>2, <1>3, <1>5, SettingsFrame
<1>10. Ledger(ran.called, so.writes, rest, ran.made)'
  BY <1>2, <1>5, <1>6
<1> QED BY <1>4, <1>7, <1>8, <1>9, <1>10 DEF OptionInv

LEMMA CallBackInv == ASSUME OptionInv, CallBack PROVE OptionInv'
<1>1. OptionTypeOK /\ Racing /\ IdleTimerOwned /\ Ledger(ran.called, so.writes, rest, ran.made)
  BY DEF OptionInv
<1>2. rest \in Seq(Doing) /\ rest # <<>> /\ Head(rest).do = "callback" /\ rest' = <<[do |-> "call"]>> \o Tail(rest)
      /\ ran' = [ran EXCEPT !.called = Append(ran.called, Head(rest).fn)]
      /\ so' = so /\ handle' = handle /\ idle' = idle /\ asked' = asked
  BY <1>1 DEF OptionTypeOK, CallBack
<1>3. ran \in RanFields /\ ran.called \in Seq(Nat) /\ so.writes \in Seq(Nat) /\ ran.made \in Nat
  BY <1>1 DEF OptionTypeOK, RanFields, SocketFields
<1> DEFINE c == Append(ran.called, Head(rest).fn)
<1>4. Head(rest).fn \in Nat /\ Ledger(c, so.writes, Tail(rest), ran.made)
  BY <1>1, <1>2, <1>3, LedgerCall
<1>5. c \in Seq(Nat)
  BY <1>3, <1>4
<1> HIDE DEF c
<1>6. Tail(rest) \in Seq(Doing) /\ <<[do |-> "call"]>> \in Seq(Plain) /\ <<[do |-> "call"]>> \in Seq(Doing)
  BY <1>2 DEF Plain, Doing
<1>7. rest' \in Seq(Doing)
  BY <1>2, <1>6
<1>8. Ledger(c, so.writes, rest', ran.made)
  BY <1>2, <1>4, <1>6, LedgerBefore
<1>9. ran' = [ran EXCEPT !.called = c]
  BY <1>2 DEF c
<1>10. ran' \in RanFields
  BY <1>3, <1>5, <1>9, Zenon DEF RanFields
<1>11. /\ ran'.called = c /\ ran'.made = ran.made /\ ran'.late = ran.late /\ ran'.fired = ran.fired
       /\ ran'.connected = ran.connected /\ ran'.calls = ran.calls
  BY <1>3, <1>9 DEF RanFields
<1>12. OptionTypeOK'
  BY <1>1, <1>2, <1>7, <1>10 DEF OptionTypeOK
<1>13. Racing' /\ IdleTimerOwned'
  BY <1>1, <1>2, <1>11 DEF Racing, IdleTimerOwned
<1>14. Kept' /\ Matched' /\ RacersReferenced'
  BY <1>2, <1>11, SettingsFrame
<1>15. Ledger(ran.called, so.writes, rest, ran.made)'
  BY <1>2, <1>8, <1>11
<1> QED BY <1>12, <1>13, <1>14, <1>15 DEF OptionInv

LEMMA CloseJobInv == ASSUME OptionInv, CloseJob PROVE OptionInv'
<1>1. OptionTypeOK /\ Racing /\ Ledger(ran.called, so.writes, <<>>, ran.made)
  BY DEF OptionInv, CloseJob
<1>2. so.destroyed = TRUE /\ so \in SocketFields
  BY <1>1 DEF CloseJob, OptionTypeOK, SocketFields
<1> DEFINE s == [so EXCEPT !.closed = TRUE]
<1>3. so' = cleared([so |-> s, idle |-> idle]).so /\ idle' = cleared([so |-> s, idle |-> idle]).idle
      /\ rest' = <<[do |-> "call"]>> /\ asked' = asked /\ ran' = ran /\ handle' = handle
  BY DEF CloseJob, EmitClose
<1>4. s \in SocketFields
  BY <1>2, Zenon DEF SocketFields
<1>5. s.timer = so.timer /\ s.destroyed = TRUE
  BY <1>2 DEF SocketFields
<1>6. so' = [s EXCEPT !.timer = FALSE] /\ so' \in SocketFields /\ idle' \in Int /\ IdleTimerOwned'
  <2> HIDE DEF s
  <2> QED BY <1>3, <1>4, <1>5, Disarmed
<1>7. \A f \in {"native", "connecting", "destroyed", "keepAlive", "noDelay", "referenced", "paused", "attempts", "writes"} : so'[f] = so[f]
  BY <1>2, <1>6 DEF SocketFields
<1>8. rest' \in Seq(Doing) /\ Ledger(ran.called, so.writes, rest', ran.made)
  BY <1>1, <1>3, LedgerListener
<1>9. OptionTypeOK'
  BY <1>1, <1>3, <1>6, <1>8 DEF OptionTypeOK
<1>10. Racing'
  BY <1>1, <1>2, <1>3, <1>7 DEF Racing
<1>11. Kept' /\ Matched' /\ RacersReferenced'
  BY <1>3, <1>7, SettingsFrame
<1>12. Ledger(ran.called, so.writes, rest, ran.made)'
  BY <1>3, <1>7, <1>8
<1> QED BY <1>6, <1>9, <1>10, <1>11, <1>12 DEF OptionInv

LEMMA DestroyNowInv == ASSUME OptionInv, DestroyNow PROVE OptionInv'
<1>1. rest \in Seq(Doing) /\ rest # <<>> /\ Head(rest).do # "callback" /\ rest' = Tail(rest)
      /\ asked' = asked /\ ran' = ran /\ ran \in RanFields /\ asked \in AskedFields
  BY DEF OptionInv, OptionTypeOK, DestroyNow
<1>2. rest' \in Seq(Doing) /\ Ledger(ran.called, so.writes, rest', ran.made)
  BY <1>1, DueTail, LedgerTail DEF OptionInv
<1>3. CASE so.destroyed \/ ~so.connecting
  BY <1>1, <1>2, <1>3, RestOnly DEF DestroyNow
<1>4. CASE ~(so.destroyed \/ ~so.connecting)
  <2>1. /\ so' \in SocketFields /\ idle' \in Int /\ handle' \in Seq(HandleFields) /\ so'.writes = so.writes
        /\ Racing' /\ Kept' /\ Matched' /\ RacersReferenced' /\ IdleTimerOwned'
    BY <1>1, <1>4, DestroyEffect DEF DestroyNow
  <2>2. OptionTypeOK'
    BY <2>1, <1>1, <1>2 DEF OptionTypeOK
  <2>3. Ledger(ran.called, so.writes, rest, ran.made)'
    BY <2>1, <1>1, <1>2
  <2> QED BY <2>1, <2>2, <2>3 DEF OptionInv
<1> QED BY <1>3, <1>4

LEMMA TimerFiresInv == ASSUME OptionInv, TimerFires PROVE OptionInv'
<1>1. OptionTypeOK /\ Racing /\ IdleTimerOwned /\ Ledger(ran.called, so.writes, <<>>, ran.made)
  BY DEF OptionInv, TimerFires
<1>2. /\ so \in SocketFields /\ ran \in RanFields /\ idle > 0 /\ idle' = idle - 1 /\ so' = [so EXCEPT !.timer = FALSE]
      /\ handle' = handle /\ asked' = asked
  BY <1>1 DEF OptionTypeOK, TimerFires
<1>3. idle = 1 /\ idle' = 0 /\ ~so.destroyed
  BY <1>1, <1>2 DEF IdleTimerOwned, SocketFields
<1>4. so.closed = FALSE
  BY <1>1, <1>2, <1>3 DEF Racing, SocketFields
<1>5. rest' = <<[do |-> "call"]>> /\ ran' = [ran EXCEPT !.fired = TRUE, !.late = ran.late \/ so.closed]
  BY <1>3 DEF TimerFires
<1>6. ran.late = FALSE
  BY <1>1, <1>2 DEF IdleTimerOwned, RanFields
<1>7. ran' = [ran EXCEPT !.fired = TRUE, !.late = FALSE]
  BY <1>4, <1>5, <1>6
<1>8. ran' \in RanFields
  BY <1>2, <1>7, Zenon DEF RanFields
<1>9. /\ ran'.called = ran.called /\ ran'.made = ran.made /\ ran'.late = FALSE /\ ran'.fired = TRUE
      /\ ran'.connected = ran.connected /\ ran'.calls = ran.calls
  BY <1>2, <1>7 DEF RanFields
<1>10. so' \in SocketFields
  BY <1>2, TimerTyped
<1>11. /\ so'.timer = FALSE
       /\ \A f \in {"native", "connecting", "destroyed", "closed", "keepAlive", "noDelay", "referenced", "paused", "timeout",
                    "attempts", "writes"} : so'[f] = so[f]
  BY <1>2 DEF SocketFields
<1>12. rest' \in Seq(Doing) /\ Ledger(ran.called, so.writes, rest', ran.made)
  BY <1>1, <1>5, LedgerListener
<1>13. OptionTypeOK'
  BY <1>1, <1>2, <1>3, <1>8, <1>10, <1>12 DEF OptionTypeOK
<1>14. Racing'
  BY <1>1, <1>2, <1>9, <1>11 DEF Racing
<1>15. IdleTimerOwned'
  BY <1>3, <1>9, <1>11 DEF IdleTimerOwned
<1>16. Kept' /\ Matched' /\ RacersReferenced'
  BY <1>2, <1>9, <1>11, SettingsFrame
<1>17. Ledger(ran.called, so.writes, rest, ran.made)'
  BY <1>9, <1>11, <1>12
<1> QED BY <1>13, <1>14, <1>15, <1>16, <1>17 DEF OptionInv

\* The handle k is gone, the others are as they were.
LEMMA HandleGone ==
    ASSUME handle \in Seq(HandleFields), NEW k \in 1 .. Len(handle), handle' = [handle EXCEPT ![k].live = "gone"]
    PROVE  /\ handle' \in Seq(HandleFields) /\ Len(handle') = Len(handle)
           /\ handle'[k].live = "gone"
           /\ \A n \in 1 .. Len(handle) : n # k => handle'[n] = handle[n]
<1> DEFINE h == [handle[k] EXCEPT !.live = "gone"]
<1>1. handle[k] \in HandleFields
  OBVIOUS
<1>2. h \in HandleFields /\ h.live = "gone"
  BY <1>1 DEF HandleFields
<1>3. handle' = [handle EXCEPT ![k] = h]
  OBVIOUS
<1> HIDE DEF h
<1> QED BY <1>2, <1>3

LEMMA HandleClosesInv == ASSUME OptionInv, HandleCloses PROVE OptionInv'
<1>1. OptionTypeOK /\ Racing /\ Kept /\ RacersReferenced /\ Ledger(ran.called, so.writes, <<>>, ran.made)
  BY DEF OptionInv, HandleCloses
<1>2. so \in SocketFields /\ handle \in Seq(HandleFields) /\ so.native # NoHandle
  BY <1>1 DEF HandleCloses, OptionTypeOK
<1> DEFINE t == [so EXCEPT !.destroyed = TRUE]
           s == [t EXCEPT !.closed = TRUE]
<1>3. so' = cleared([so |-> s, idle |-> idle]).so /\ idle' = cleared([so |-> s, idle |-> idle]).idle
      /\ rest' = <<[do |-> "call"]>> /\ asked' = asked /\ ran' = ran
      /\ handle' = [handle EXCEPT ![so.native].live = "gone"]
  BY DEF HandleCloses, EmitClose
<1>4. t \in SocketFields
  BY <1>2, Zenon DEF SocketFields
<1>5. s \in SocketFields
  BY <1>4, Zenon DEF SocketFields
<1>6. s.timer = so.timer /\ s.destroyed = TRUE
  BY <1>2 DEF SocketFields
<1>7. so' = [s EXCEPT !.timer = FALSE] /\ so' \in SocketFields /\ idle' \in Int /\ IdleTimerOwned'
  <2> HIDE DEF s
  <2> QED BY <1>3, <1>5, <1>6, Disarmed
<1>8. /\ so'.destroyed = TRUE
      /\ \A f \in {"native", "connecting", "keepAlive", "noDelay", "referenced", "paused", "attempts", "writes"} : so'[f] = so[f]
  BY <1>2, <1>7 DEF SocketFields
<1>9. rest' \in Seq(Doing) /\ Ledger(ran.called, so.writes, rest', ran.made)
  BY <1>1, <1>3, LedgerListener
<1>10. so.native \in 1 .. Len(handle)
  BY <1>1, <1>2 DEF Racing, NoHandle
<1>11. /\ handle' \in Seq(HandleFields) /\ Len(handle') = Len(handle) /\ handle'[so.native].live = "gone"
  BY <1>2, <1>3, <1>10, HandleGone
<1>12. ~so.connecting /\ so.attempts = {} /\ ran.connected
  BY <1>1, <1>2, Zenon DEF Racing
<1>13. OptionTypeOK'
  BY <1>1, <1>3, <1>7, <1>9, <1>11 DEF OptionTypeOK
<1>14. Racing'
  BY <1>1, <1>3, <1>8, <1>11, <1>12 DEF Racing
<1>15. Kept'
  BY <1>1, <1>3, <1>8 DEF Kept
<1>16. Matched' /\ RacersReferenced'
  BY <1>8, <1>11, <1>12 DEF Matched, RacersReferenced
<1>17. Ledger(ran.called, so.writes, rest, ran.made)'
  BY <1>3, <1>8, <1>9
<1> QED BY <1>7, <1>13, <1>14, <1>15, <1>16, <1>17 DEF OptionInv

LEMMA AttemptFailedInv == ASSUME OptionInv, NEW n \in DOMAIN handle, AttemptFailed(n) PROVE OptionInv'
<1>1. OptionTypeOK /\ Racing /\ Kept /\ RacersReferenced /\ IdleTimerOwned /\ Ledger(ran.called, so.writes, <<>>, ran.made)
  BY DEF OptionInv, AttemptFailed
<1>2. so \in SocketFields /\ handle \in Seq(HandleFields) /\ n \in so.attempts /\ n \in 1 .. Len(handle)
  BY <1>1 DEF AttemptFailed, OptionTypeOK
<1> DEFINE next == IF so.targets > 0 THEN <<[do |-> "attempt"]>>
                   ELSE IF so.attempts = {n} THEN <<[do |-> "destroy"]>> ELSE <<>>
<1>3. so' = [so EXCEPT !.attempts = so.attempts \ {n}] /\ handle' = [handle EXCEPT ![n].live = "gone"]
      /\ rest' = <<[do |-> "call"]>> \o next /\ idle' = idle /\ asked' = asked /\ ran' = ran
  BY DEF AttemptFailed
<1>4. <<[do |-> "call"]>> \in Seq(Plain) /\ next \in Seq(Plain)
  <2>1. <<[do |-> "attempt"]>> \in Seq(Plain) /\ <<[do |-> "destroy"]>> \in Seq(Plain) /\ <<>> \in Seq(Plain)
    BY DEF Plain
  <2>2. next \in {<<[do |-> "attempt"]>>, <<[do |-> "destroy"]>>, <<>>}
    BY Zenon
  <2>3. <<[do |-> "call"]>> \in Seq(Plain)
    BY DEF Plain
  <2> QED BY <2>1, <2>2, <2>3, Zenon
<1> HIDE DEF next
<1>5. rest' \in Seq(Plain) /\ rest' \o <<>> = rest'
  BY <1>3, <1>4
<1>6. rest' \in Seq(Doing) /\ <<>> \in Seq(Doing)
  BY <1>5 DEF Doing
<1>7. Ledger(ran.called, so.writes, rest', ran.made)
  <2>1. Ledger(ran.called, so.writes, rest' \o <<>>, ran.made)
    BY <1>1, <1>5, <1>6, LedgerBefore
  <2> QED BY <2>1, <1>5
<1>8. so.attempts \ {n} \in SUBSET Nat
  BY <1>2 DEF SocketFields
<1>9. so' \in SocketFields
  BY <1>2, <1>3, <1>8, Zenon DEF SocketFields
<1>10. /\ so'.attempts = so.attempts \ {n}
       /\ \A f \in {"native", "connecting", "destroyed", "closed", "keepAlive", "noDelay", "referenced", "paused", "timeout",
                    "timer", "writes"} : so'[f] = so[f]
  BY <1>2, <1>3 DEF SocketFields
<1>11. /\ handle' \in Seq(HandleFields) /\ Len(handle') = Len(handle)
       /\ \A k \in 1 .. Len(handle) : k # n => handle'[k] = handle[k]
  BY <1>2, <1>3, HandleGone
<1>12. so.connecting /\ so.native = NoHandle /\ ran.connected
  BY <1>1, <1>2 DEF Racing
<1>13. OptionTypeOK'
  BY <1>1, <1>3, <1>6, <1>9, <1>11 DEF OptionTypeOK
<1>14. Racing'
  BY <1>1, <1>3, <1>10, <1>11, <1>12 DEF Racing
<1>15. Kept'
  BY <1>1, <1>3, <1>10 DEF Kept
<1>16. Matched'
  BY <1>10, <1>12 DEF Matched
<1>17. RacersReferenced'
  BY <1>1, <1>3, <1>10, <1>11 DEF RacersReferenced, Racing
<1>18. IdleTimerOwned'
  BY <1>1, <1>3, <1>10 DEF IdleTimerOwned
<1>19. Ledger(ran.called, so.writes, rest, ran.made)'
  BY <1>3, <1>7, <1>10
<1> QED BY <1>13, <1>14, <1>15, <1>16, <1>17, <1>18, <1>19 DEF OptionInv

\* The handle that becomes the socket's own gets what the socket kept.
LEMMA EquippedEffect ==
    ASSUME NEW h \in HandleFields, so \in SocketFields, NEW pause \in BOOLEAN
    PROVE  /\ Equipped(h, so, pause) \in HandleFields
           /\ Equipped(h, so, pause).keepAlive = so.keepAlive
           /\ Equipped(h, so, pause).noDelay = so.noDelay
           /\ Equipped(h, so, pause).referenced = (h.referenced /\ so.referenced)
           /\ Equipped(h, so, pause).paused = (so.paused \/ pause)
<1> DEFINE e == Equipped(h, so, pause)
           r == h.referenced /\ so.referenced
           p == so.paused \/ pause
<1>1. e = [h EXCEPT !.live = "open", !.referenced = r, !.paused = p, !.keepAlive = so.keepAlive, !.noDelay = so.noDelay]
  BY DEF Equipped
<1>2. r \in BOOLEAN /\ p \in BOOLEAN /\ so.keepAlive \in BOOLEAN /\ so.noDelay \in BOOLEAN
  BY DEF SocketFields
<1> HIDE DEF r, p
<1>3. e \in HandleFields
  BY <1>1, <1>2, Zenon DEF HandleFields
<1>4. e.keepAlive = so.keepAlive /\ e.noDelay = so.noDelay /\ e.referenced = r /\ e.paused = p
  BY <1>1 DEF HandleFields
<1> QED BY <1>3, <1>4, Zenon DEF r, p

LEMMA WinAttemptInv == ASSUME OptionInv, NEW n \in DOMAIN handle, WinAttempt(n) PROVE OptionInv'
<1>1. OptionTypeOK /\ Racing /\ Kept /\ RacersReferenced /\ Ledger(ran.called, so.writes, <<>>, ran.made)
  BY DEF OptionInv, WinAttempt
<1>2. so \in SocketFields /\ handle \in Seq(HandleFields) /\ asked \in AskedFields /\ n \in so.attempts /\ n \in 1 .. Len(handle)
      /\ Len(handle) \in Nat /\ DOMAIN handle = 1 .. Len(handle) /\ \A k \in 1 .. Len(handle) : handle[k] \in HandleFields
  BY <1>1 DEF WinAttempt, OptionTypeOK
<1>3. /\ ran' \in RanFields /\ ran'.called = ran.called /\ ran'.made = ran.made /\ ran'.late = ran.late
      /\ ~ran'.fired /\ ran'.connected = ran.connected /\ ran'.calls = ran.calls
  BY ActiveEffect DEF WinAttempt, EmitConnected
<1> DEFINE t == [so EXCEPT !.native = n, !.attempts = {}, !.targets = 0]
           s == [t EXCEPT !.connecting = FALSE]
<1>4. TimerReset(s) /\ rest' = <<[do |-> "call"]>> /\ asked' = asked
  BY DEF WinAttempt, EmitConnected
<1>5. n \in Nat /\ {} \in SUBSET Nat /\ 0 \in Int
  BY <1>2
<1>6. t \in SocketFields
  BY <1>2, <1>5, Zenon DEF SocketFields
<1>7. s \in SocketFields
  BY <1>6, Zenon DEF SocketFields
<1>8. s.timer = so.timer
  BY <1>2 DEF SocketFields
<1>9. so' = [s EXCEPT !.timer = (s.timeout /\ ~s.destroyed)] /\ so' \in SocketFields /\ idle' \in Int /\ IdleTimerOwned'
  <2> HIDE DEF s
  <2> QED BY <1>3, <1>4, <1>7, <1>8, Rearmed
<1>10. /\ so'.native = n /\ so'.attempts = {} /\ so'.connecting = FALSE
       /\ \A f \in {"destroyed", "closed", "keepAlive", "noDelay", "referenced", "paused", "writes"} : so'[f] = so[f]
  BY <1>2, <1>9 DEF SocketFields
<1>11. so.connecting /\ so.native = NoHandle /\ ran.connected /\ ~so.destroyed /\ ~so.closed
  BY <1>1, <1>2 DEF Racing
<1>12. \A k \in 1 .. Len(handle) : handle'[k] = IF k = n THEN Equipped(handle[k], so, FALSE)
                                              ELSE IF k \in so.attempts THEN [handle[k] EXCEPT !.live = "gone"] ELSE handle[k]
  BY <1>2 DEF WinAttempt
<1>13. handle' = [k \in 1 .. Len(handle) |-> handle'[k]]
  BY <1>2 DEF WinAttempt
<1>14. handle'[n] = Equipped(handle[n], so, FALSE)
  BY <1>2, <1>12
<1>15. /\ handle'[n] \in HandleFields /\ handle'[n].keepAlive = so.keepAlive /\ handle'[n].noDelay = so.noDelay
       /\ handle'[n].referenced = (handle[n].referenced /\ so.referenced) /\ handle'[n].paused = (so.paused \/ FALSE)
  <2>1. handle[n] \in HandleFields /\ FALSE \in BOOLEAN
    BY <1>2
  <2> DEFINE e == Equipped(handle[n], so, FALSE)
  <2>2. /\ e \in HandleFields /\ e.keepAlive = so.keepAlive /\ e.noDelay = so.noDelay
        /\ e.referenced = (handle[n].referenced /\ so.referenced) /\ e.paused = (so.paused \/ FALSE)
    BY <2>1, <1>2, EquippedEffect
  <2>3. handle'[n] = e
    BY <1>14
  <2> HIDE DEF e
  <2> QED BY <2>2, <2>3, Zenon
<1>16. \A k \in 1 .. Len(handle) : handle'[k] \in HandleFields
  <2> TAKE k \in 1 .. Len(handle)
  <2>1. CASE k = n
    BY <2>1, <1>15
  <2>2. CASE k # n /\ k \in so.attempts
    BY <2>2, <1>2, <1>12 DEF HandleFields
  <2>3. CASE k # n /\ k \notin so.attempts
    BY <2>3, <1>2, <1>12
  <2> QED BY <2>1, <2>2, <2>3
<1>17. handle' \in Seq(HandleFields) /\ Len(handle') = Len(handle)
  BY <1>2, <1>13, <1>16, IsASeq, LenProperties
<1>18. rest' \in Seq(Doing) /\ Ledger(ran.called, so.writes, rest', ran.made)
  BY <1>1, <1>4, LedgerListener
<1>19. OptionTypeOK'
  BY <1>1, <1>3, <1>4, <1>9, <1>17, <1>18 DEF OptionTypeOK
<1>20. Racing'
  BY <1>2, <1>3, <1>10, <1>11, <1>17 DEF Racing
<1>21. Kept'
  BY <1>1, <1>3, <1>4, <1>5, <1>10, <1>11 DEF Kept, NoHandle
<1>22. Matches(handle'[n], asked)
  <2>1. handle[n].referenced = asked.referenced /\ so.referenced = asked.referenced /\ so.paused = asked.paused
        /\ so.keepAlive = asked.keepAlive /\ so.noDelay = asked.noDelay
    BY <1>1, <1>2, <1>11, Zenon DEF RacersReferenced, Kept
  <2>2. asked.referenced \in BOOLEAN /\ asked.paused \in BOOLEAN
    BY <1>2 DEF AskedFields
  <2>3. (asked.referenced /\ asked.referenced) = asked.referenced /\ (asked.paused \/ FALSE) = asked.paused
    BY <2>2
  <2> QED BY <2>1, <2>3, <1>15, Zenon DEF Matches
<1>23. Matched' /\ RacersReferenced'
  BY <1>4, <1>10, <1>22 DEF Matched, RacersReferenced
<1>24. Ledger(ran.called, so.writes, rest, ran.made)'
  BY <1>3, <1>10, <1>18
<1> QED BY <1>9, <1>19, <1>20, <1>21, <1>23, <1>24 DEF OptionInv

LEMMA AdoptAcceptedInv == ASSUME OptionInv, NEW pause \in BOOLEAN, AdoptAccepted(pause) PROVE OptionInv'
<1>1. OptionTypeOK /\ Racing /\ Kept /\ Ledger(ran.called, so.writes, rest, ran.made)
  BY DEF OptionInv
<1>2. so \in SocketFields /\ asked \in AskedFields /\ ran.calls = 0 /\ ~ran.connected /\ so.native = NoHandle
  BY <1>1 DEF AdoptAccepted, OptionTypeOK
<1>3. ~so.connecting /\ so.attempts = {} /\ so.paused = FALSE
  BY <1>1, <1>2 DEF Racing, Kept, SocketFields
<1>4. /\ ran' \in RanFields /\ ran'.called = ran.called /\ ran'.made = ran.made /\ ran'.late = ran.late
      /\ ~ran'.fired /\ ran'.connected = TRUE
  BY ActiveConnected DEF AdoptAccepted
<1> DEFINE p == so.paused \/ pause
           s == [so EXCEPT !.native = 1, !.paused = p]
           h == Equipped(NewHandle("open"), so, pause)
<1>5. TimerReset(s) /\ handle' = <<h>> /\ rest' = rest /\ asked' = [asked EXCEPT !.paused = pause]
  BY DEF AdoptAccepted
<1>6. p = pause /\ p \in BOOLEAN
  BY <1>3
<1>7. 1 \in Nat
  OBVIOUS
<1> HIDE DEF p
<1>8. s \in SocketFields
  BY <1>2, <1>6, <1>7, Zenon DEF SocketFields
<1>9. s.timer = so.timer
  BY <1>2 DEF SocketFields
<1>10. so' = [s EXCEPT !.timer = (s.timeout /\ ~s.destroyed)] /\ so' \in SocketFields /\ idle' \in Int /\ IdleTimerOwned'
  <2> HIDE DEF s
  <2> QED BY <1>4, <1>5, <1>8, <1>9, Rearmed
<1>11. /\ so'.native = 1 /\ so'.paused = pause
       /\ \A f \in {"attempts", "connecting", "destroyed", "closed", "keepAlive", "noDelay", "referenced", "writes"} : so'[f] = so[f]
  BY <1>2, <1>6, <1>10 DEF SocketFields
<1>12. /\ asked' \in AskedFields /\ asked'.paused = pause /\ asked'.keepAlive = asked.keepAlive
       /\ asked'.noDelay = asked.noDelay /\ asked'.referenced = asked.referenced
  BY <1>2, <1>5 DEF AskedFields
<1>13. NewHandle("open") \in HandleFields /\ NewHandle("open").referenced = TRUE
  BY DEF NewHandle, HandleFields
<1>14. /\ h \in HandleFields /\ h.keepAlive = so.keepAlive /\ h.noDelay = so.noDelay
       /\ h.referenced = (NewHandle("open").referenced /\ so.referenced) /\ h.paused = p
  BY <1>2, <1>13, EquippedEffect, Zenon DEF p
<1> HIDE DEF h
<1>15. handle' \in Seq(HandleFields) /\ Len(handle') = 1 /\ handle'[1] = h
  BY <1>5, <1>14
<1>16. OptionTypeOK'
  BY <1>1, <1>4, <1>5, <1>10, <1>12, <1>15 DEF OptionTypeOK
<1>17. Racing'
  BY <1>1, <1>3, <1>4, <1>11, <1>15 DEF Racing
<1>18. Kept'
  BY <1>1, <1>4, <1>11, <1>12 DEF Kept, NoHandle
<1>19. Matches(h, asked')
  <2>1. so.referenced = asked.referenced /\ so.keepAlive = asked.keepAlive /\ so.noDelay = asked.noDelay
    BY <1>1, <1>2, Zenon DEF Kept
  <2>2. asked.referenced \in BOOLEAN
    BY <1>2 DEF AskedFields
  <2>3. (NewHandle("open").referenced /\ asked.referenced) = asked.referenced
    BY <2>2, <1>13
  <2> QED BY <2>1, <2>3, <1>6, <1>12, <1>14, Zenon DEF Matches
<1>20. Matched' /\ RacersReferenced'
  BY <1>3, <1>11, <1>15, <1>19 DEF Matched, RacersReferenced
<1>21. Ledger(ran.called, so.writes, rest, ran.made)'
  BY <1>1, <1>4, <1>5, <1>11
<1> QED BY <1>10, <1>16, <1>17, <1>18, <1>20, <1>21 DEF OptionInv

----------------
(* The theorem *)

LEMMA OptionCallInv == ASSUME OptionInv, OptionCall PROVE OptionInv'
BY SetOptionInv, ReferencedInv, PausedInv, SetTimeoutInv, WriteCallbackInv, WriteEmptyInv, DestroyCallInv DEF OptionCall

LEMMA OptionStep == OptionInv /\ [OptionNext]_optionVars => OptionInv'
<1> SUFFICES ASSUME OptionInv, [OptionNext]_optionVars PROVE OptionInv'
  OBVIOUS
<1>1. CASE UNCHANGED optionVars
  <2>1. so' = so /\ handle' = handle /\ idle' = idle /\ asked' = asked /\ ran' = ran /\ rest' = rest
    BY <1>1 DEF optionVars
  <2>2. rest \in Seq(Doing) /\ Ledger(ran.called, so.writes, rest, ran.made)
    BY DEF OptionInv, OptionTypeOK
  <2> QED BY <2>1, <2>2, RestOnly
<1>2. CASE OptionNext
  BY <1>2, OptionCallInv, ConnectSocketInv, CallReturnsInv, FirstOrLateAttemptInv, NextAttemptInv, CreateAttemptInv,
     NativeFlushInv, NativeDataInv, CallBackInv, AttemptFailedInv, WinAttemptInv, AdoptAcceptedInv, DestroyNowInv,
     CloseJobInv, HandleClosesInv, TimerFiresInv DEF OptionNext
<1> QED BY <1>1, <1>2

LEMMA OptionInvExact == OptionInv => SocketOptionsExact
<1> SUFFICES ASSUME OptionInv PROVE SocketOptionsExact
  OBVIOUS
<1>1. asked \in AskedFields /\ Matched
  BY DEF OptionInv, OptionTypeOK
<1>2. DOMAIN asked = {"keepAlive", "noDelay", "referenced", "paused"}
  BY <1>1 DEF AskedFields
<1>3. SettingsReachHandle
  BY <1>1, <1>2 DEF SettingsReachHandle, Matched, Matches
<1>4. ran.called \in Seq(Nat) /\ so.writes \in Seq(Nat) /\ rest \in Seq(Doing)
  BY DEF OptionInv, OptionTypeOK, RanFields, SocketFields
<1>5. WriteCalledOnce
  BY <1>4, LedgerCounts DEF OptionInv
<1> QED BY <1>3, <1>5 DEF OptionInv, SocketOptionsExact

(***************************************************************************)
(* However many attempts race and wherever the program calls its socket,   *)
(* in a listener, in the callback of a write or outside: the handle that   *)
(* the socket gets (net.ts, winAttempt and adoptAccepted) has the options, *)
(* the pause and the reference asked for last, every racing attempt the    *)
(* reference; the socket has one idle timer at most, it can cancel it and  *)
(* it never fires into a closed socket; every write callback is pending,   *)
(* about to run or done, in one place and once.                            *)
(***************************************************************************)
THEOREM SocketOptionsExactCorrect == OptionSpec => []SocketOptionsExact
BY OptionInitInv, OptionStep, OptionInvExact, PTL DEF OptionSpec

----------------
DiagnosticsSpec == DiagnosticsInit /\ [][DiagnosticsNext]_diagnosticsVars

----------------
(* Diagnostics channels: types *)

Modes == {"none", "sync", "promise", "callback"}
Message == Traces \X Events \X Listeners
Hearing == [step : {"listener"}, of : Traces, event : Events, who : Listeners]
Planned == [step : {"publish", "stores", "leave", "fn", "callback"}, of : Traces, event : Events \cup {"none"}]
Pending == Hearing \cup Planned
TraceFields ==
    [mode : Modes, step : {"none", "called", "waiting", "over"}, traced : BOOLEAN, threw : BOOLEAN,
     published : Seq(Events), fn : Nat, callback : Nat, inside : SUBSET Stores]
DiagnosticsTypeOK ==
    /\ channels \in [subs : [Events -> Seq(Listeners)], stores : [Events -> SUBSET Stores]]
    /\ trace \in [Traces -> TraceFields]
    /\ running \in [todo : Seq(Pending), contexts : Seq(SUBSET Stores)]
    /\ diary \in [owed : Seq(Message), seen : Seq(Message), uncaught : Nat, acts : Nat]

----------------
(* What a trace has still to do, by the next step of it *)

Departing(t) == Work("leave", t)
Ending(t) == Publish(t, "end") \o Departing(t)
Failing(t) == Publish(t, "error") \o Ending(t)
Calling(t) == Work("fn", t) \o Departing(t)
Starting(t) == Publish(t, "start") \o Calling(t)
Entering(t) == <<[step |-> "stores", of |-> t, event |-> "start"]>> \o Starting(t)

\* the wrapped callback, over what comes after it
AsyncLeaving(t, r) == Work("leave", t) \o r
AsyncEnding(t, r) == Publish(t, "asyncEnd") \o AsyncLeaving(t, r)
CallingBack(t, r) == Work("callback", t) \o AsyncEnding(t, r)
AsyncStarting(t, r) == Publish(t, "asyncStart") \o CallingBack(t, r)
AsyncEntering(t, r) == <<[step |-> "stores", of |-> t, event |-> "asyncStart"]>> \o AsyncStarting(t, r)
AsyncFailing(t, r) == Publish(t, "error") \o AsyncEntering(t, r)

\* the reactions to a promise
Settled(t) == Publish(t, "asyncStart") \o Publish(t, "asyncEnd")
Rejected(t) == Publish(t, "error") \o Settled(t)

\* what was published before the callback
Base(c) == IF c.fn = 0 THEN <<"start">> ELSE Append(<<"start">>, "end")
MayFail(b) == {b, Append(b, "error")}
Begun(b) == {Append(x, "asyncStart") : x \in MayFail(b)}
Closed(b) == {Append(x, "asyncEnd") : x \in Begun(b)}
\* what was published before the function ended
Before(c) == IF c.callback = 0 THEN {<<"start">>} ELSE Closed(<<"start">>)
Errored(c) == {Append(x, "error") : x \in Before(c)}
Over(c) == {Append(x, "end") : x \in IF c.step = "waiting" THEN Before(c) ELSE Before(c) \cup Errored(c)}

CallsOnce(c) == c.callback = 0 \/ (c.callback = 1 /\ c.mode = "callback")

\* A trace nothing of which is running: not begun, or waiting for its promise or callback, or over.
Rested(c) ==
    \/ c.mode = "none" /\ c.step = "none" /\ c.fn = 0 /\ c.callback = 0 /\ c.published = <<>>
    \/ /\ c.mode # "none" /\ c.step \in {"waiting", "over"} /\ c.fn = 1 /\ CallsOnce(c)
       /\ c.step = "waiting" => c.mode # "sync"
       /\ IF c.traced THEN \/ c.published \in Over(c)
                           \/ c.step = "over" /\ c.mode # "sync" /\ c.published \in Closed(Append(<<"start">>, "end"))
          ELSE c.published = <<>>

Unobserved(c) == c.mode # "none" /\ ~c.traced /\ c.published = <<>>
Observed(c) == c.mode # "none" /\ c.traced /\ CallsOnce(c)
NotRun(c) == c.fn = 0 /\ CallsOnce(c) /\ c.step = IF c.callback = 0 THEN "none" ELSE "called"
HasRun(c) == c.fn = 1 /\ c.step \in {"waiting", "over"} /\ (c.step = "waiting" => c.mode # "sync")
\* The wrapped callback runs, called by the function (which goes on after it) or after the function returned.
Back(c) == c.mode = "callback" /\ c.fn \in {0, 1} /\ c.step = IF c.fn = 0 THEN "called" ELSE "over"
BackObserved(c) == c.traced /\ Back(c)
Remains(t, c) == IF c.fn = 0 THEN Calling(t) ELSE <<>>
Entered(c) == IF c.fn = 0 THEN 1 ELSE 0
Promised(c) == c.traced /\ c.mode = "promise" /\ c.fn = 1 /\ c.callback = 0 /\ c.step = "over"

\* Where a trace may be, with its plan and the contexts it has entered: not observed,
AtFunction(t, plan, c, depth) == Unobserved(c) /\ depth = 0 /\ NotRun(c) /\ plan = Work("fn", t)
AtCallback(t, plan, c, depth) ==
    Unobserved(c) /\ depth = 0 /\ Back(c) /\ c.callback = 0 /\ plan = Work("callback", t) \o (IF c.fn = 0 THEN Work("fn", t) ELSE <<>>)
\* observed, before the function and at its end,
AtEntering(t, plan, c, depth) == Observed(c) /\ NotRun(c) /\ c.callback = 0 /\ c.published = <<>> /\ depth = 0 /\ plan = Entering(t)
AtStarting(t, plan, c, depth) == Observed(c) /\ NotRun(c) /\ c.callback = 0 /\ c.published = <<>> /\ depth = 1 /\ plan = Starting(t)
AtCalling(t, plan, c, depth) == Observed(c) /\ NotRun(c) /\ c.published \in Before(c) /\ depth = 1 /\ plan = Calling(t)
AtFailing(t, plan, c, depth) ==
    Observed(c) /\ HasRun(c) /\ c.step = "over" /\ c.published \in Before(c) /\ depth = 1 /\ plan = Failing(t)
AtEnding(t, plan, c, depth) ==
    /\ Observed(c) /\ HasRun(c) /\ depth = 1 /\ plan = Ending(t)
    /\ c.published \in (IF c.step = "waiting" THEN Before(c) ELSE Before(c) \cup Errored(c))
AtLeaving(t, plan, c, depth) == Observed(c) /\ HasRun(c) /\ c.published \in Over(c) /\ depth = 1 /\ plan = Departing(t)
\* in the wrapped callback,
AtAsyncFailing(t, plan, c, depth) ==
    BackObserved(c) /\ c.callback = 0 /\ c.published = Base(c) /\ depth = Entered(c) /\ plan = AsyncFailing(t, Remains(t, c))
AtAsyncEntering(t, plan, c, depth) ==
    BackObserved(c) /\ c.callback = 0 /\ c.published \in MayFail(Base(c)) /\ depth = Entered(c) /\ plan = AsyncEntering(t, Remains(t, c))
AtAsyncStarting(t, plan, c, depth) ==
    BackObserved(c) /\ c.callback = 0 /\ c.published \in MayFail(Base(c)) /\ depth = Entered(c) + 1 /\ plan = AsyncStarting(t, Remains(t, c))
AtCallingBack(t, plan, c, depth) ==
    BackObserved(c) /\ c.callback = 0 /\ c.published \in Begun(Base(c)) /\ depth = Entered(c) + 1 /\ plan = CallingBack(t, Remains(t, c))
AtAsyncEnding(t, plan, c, depth) ==
    BackObserved(c) /\ c.callback = 1 /\ c.published \in Begun(Base(c)) /\ depth = Entered(c) + 1 /\ plan = AsyncEnding(t, Remains(t, c))
AtAsyncLeaving(t, plan, c, depth) ==
    BackObserved(c) /\ c.callback = 1 /\ c.published \in Closed(Base(c)) /\ depth = Entered(c) + 1 /\ plan = AsyncLeaving(t, Remains(t, c))
\* in the reactions to its promise.
AtRejected(t, plan, c, depth) == Promised(c) /\ c.published = Base(c) /\ depth = 0 /\ plan = Rejected(t)
AtSettled(t, plan, c, depth) == Promised(c) /\ c.published \in MayFail(Base(c)) /\ depth = 0 /\ plan = Settled(t)
AtSettledEnd(t, plan, c, depth) == Promised(c) /\ c.published \in Begun(Base(c)) /\ depth = 0 /\ plan = Publish(t, "asyncEnd")

At(t, plan, c, depth) ==
    \/ AtFunction(t, plan, c, depth) \/ AtCallback(t, plan, c, depth)
    \/ AtEntering(t, plan, c, depth) \/ AtStarting(t, plan, c, depth) \/ AtCalling(t, plan, c, depth)
    \/ AtFailing(t, plan, c, depth) \/ AtEnding(t, plan, c, depth) \/ AtLeaving(t, plan, c, depth)
    \/ AtAsyncFailing(t, plan, c, depth) \/ AtAsyncEntering(t, plan, c, depth) \/ AtAsyncStarting(t, plan, c, depth)
    \/ AtCallingBack(t, plan, c, depth) \/ AtAsyncEnding(t, plan, c, depth) \/ AtAsyncLeaving(t, plan, c, depth)
    \/ AtRejected(t, plan, c, depth) \/ AtSettled(t, plan, c, depth) \/ AtSettledEnd(t, plan, c, depth)
\* ... or it has come to rest
Goes(t, plan, c, depth) == At(t, plan, c, depth) \/ (plan = <<>> /\ depth = 0 /\ Rested(c))

Underway(plan) ==
    \/ plan = <<>> /\ running.contexts = <<>> /\ \A t \in Traces : Rested(trace[t])
    \/ \E t \in Traces : /\ At(t, plan, trace[t], Len(running.contexts))
                         /\ \A u \in Traces \ {t} : Rested(trace[u])

Said(p) == [i \in DOMAIN p |-> <<p[i].of, p[i].event, p[i].who>>]

\* Subscribers still to be called come first, then the plan of one trace; what was told and what they will hear is
\* what was published.
DiagnosticsInv ==
    /\ DiagnosticsTypeOK
    /\ \E p \in Seq(Hearing), plan \in Seq(Planned) :
          running.todo = p \o plan /\ diary.owed = diary.seen \o Said(p) /\ Underway(plan)

----------------
(* Sequences *)

\* What a sequence that begins with one step is.
LEMMA ConsFacts ==
    ASSUME NEW S, NEW x \in S, NEW r \in Seq(S)
    PROVE  /\ <<x>> \o r \in Seq(S) /\ <<x>> \o r # <<>> /\ Head(<<x>> \o r) = x /\ Tail(<<x>> \o r) = r
<1>1. <<x>> \in Seq(S) /\ Len(<<x>>) = 1 /\ <<x>>[1] = x
  OBVIOUS
<1>2. <<x>> \o r \in Seq(S) /\ Len(<<x>> \o r) = 1 + Len(r) /\ \A k \in 1 .. (1 + Len(r)) : (<<x>> \o r)[k] = IF k <= 1 THEN x ELSE r[k - 1]
  BY <1>1, ConcatProperties
<1>3. <<x>> \o r # <<>> /\ Head(<<x>> \o r) = x
  BY <1>2
<1>4. Tail(<<x>> \o r) \in Seq(S) /\ Len(Tail(<<x>> \o r)) = Len(r) /\ \A k \in 1 .. Len(r) : Tail(<<x>> \o r)[k] = r[k]
  BY <1>2, <1>3, HeadTailProperties
<1> QED BY <1>2, <1>3, <1>4, SeqEqual

\* A sequence put after another is put after its first element and its rest.
LEMMA ConsConcat ==
    ASSUME NEW S, NEW x \in S, NEW r \in Seq(S), NEW q \in Seq(S)
    PROVE  (<<x>> \o r) \o q = <<x>> \o (r \o q)
<1>1. <<x>> \in Seq(S)
  OBVIOUS
<1> QED BY <1>1, ConcatAssociative

\* The first and the other elements of p \o q when p has a first.
LEMMA HeadConcat ==
    ASSUME NEW S, NEW p \in Seq(S), NEW q \in Seq(S), p # <<>>
    PROVE  p \o q # <<>> /\ Head(p \o q) = Head(p) /\ Tail(p \o q) = Tail(p) \o q
<1>1. Head(p) \in S /\ Tail(p) \in Seq(S) /\ p = <<Head(p)>> \o Tail(p)
  BY HeadTailProperties, ConsFacts
<1>2. p \o q = <<Head(p)>> \o (Tail(p) \o q) /\ Tail(p) \o q \in Seq(S)
  BY <1>1, ConsConcat, ConcatProperties
<1> QED BY <1>1, <1>2, ConsFacts

LEMMA ConsOf ==
    ASSUME NEW S, NEW s \in Seq(S), s # <<>>
    PROVE  s = <<Head(s)>> \o Tail(s)
BY HeadTailProperties, ConsFacts

LEMMA AppendFirst ==
    ASSUME NEW S, NEW s \in Seq(S), NEW m \in S, NEW q \in Seq(S)
    PROVE  Append(s, m) \o q = s \o (<<m>> \o q)
<1>1. Append(s, m) = s \o <<m>> /\ <<m>> \in Seq(S)
  BY AppendIsConcat
<1>2. (s \o <<m>>) \o q = s \o (<<m>> \o q)
  BY <1>1, ConcatAssociative
<1> QED BY <1>1, <1>2

\* Without the first of the elements equal to it, a sequence has the elements it had.
LEMMA RemoveFirstType ==
    ASSUME NEW S, NEW s \in Seq(S), NEW e
    PROVE  RemoveFirst(s, e) \in Seq(S)
<1>1. CASE \E k \in 1 .. Len(s) : s[k] = e
  <2> DEFINE I == {k \in 1 .. Len(s) : s[k] = e}
  <2>1. I \subseteq Nat /\ I # {}
    BY <1>1
  <2> DEFINE R == {ss \in Nat \X Nat : ss[1] < ss[2]}
  <2>a. IsWellFoundedOn(R, Nat)
    <3>1. OpToRel(<, Nat) = R
      BY Zenon DEF OpToRel
    <3> HIDE DEF R
    <3> QED BY <3>1, NatLessThanWellFounded, Zenon
  <2>2. PICK m \in I : \A y \in I : ~ (<<y, m>> \in R)
    <3> HIDE DEF R, I
    <3> QED BY <2>1, <2>a, WFMin
  <2>3. \A y \in I : m =< y
    <3> SUFFICES ASSUME NEW y \in I PROVE m =< y
      OBVIOUS
    <3>1. y \in Nat /\ m \in Nat /\ ~ (<<y, m>> \in R)
      BY <2>1, <2>2
    <3>2. <<y, m>> \in Nat \X Nat /\ <<y, m>>[1] = y /\ <<y, m>>[2] = m
      BY <3>1
    <3>3. ~ (y < m)
      BY <3>1, <3>2
    <3> QED BY <3>1, <3>3
  <2>4. Min(I) \in I
    BY <2>3 DEF Min
  <2>5. SelectInSeq(s, LAMBDA v: v = e) = Min(I)
    BY <2>1 DEF SelectInSeq
  <2>6. Min(I) \in Nat /\ Min(I) >= 1 /\ Min(I) <= Len(s) /\ Len(s) \in Nat
    BY <2>4
  <2>7. SubSeq(s, 1, Min(I) - 1) \in Seq(S) /\ SubSeq(s, Min(I) + 1, Len(s)) \in Seq(S)
    <3> HIDE DEF I
    <3>1. Min(I) - 1 \in Int /\ Min(I) + 1 \in Int /\ Len(s) \in Int
      BY <2>6
    <3>2. SubSeq(s, 1, Min(I) - 1) \in Seq(S)
      BY <2>6, <3>1
    <3>3. SubSeq(s, Min(I) + 1, Len(s)) \in Seq(S)
      BY <2>6, <3>1
    <3> QED BY <3>2, <3>3
  <2>8. RemoveFirst(s, e) = SubSeq(s, 1, Min(I) - 1) \o SubSeq(s, Min(I) + 1, Len(s))
    BY <1>1, <2>5 DEF RemoveFirst, RemoveAt
  <2> QED BY <2>7, <2>8, ConcatProperties
<1>2. CASE ~ \E k \in 1 .. Len(s) : s[k] = e
  BY <1>2 DEF RemoveFirst
<1> QED BY <1>1, <1>2

LEMMA SetToSeqType == SetToSeq(Listeners) \in Seq(Listeners)
<1>1. Cardinality(Listeners) \in Nat /\ ExistsBijection(1..Cardinality(Listeners), Listeners)
  BY ObserversAssumption, FS_CardinalityType
<1>2. \E f \in [1..Cardinality(Listeners) -> Listeners] : IsInjective(f)
  BY <1>1 DEF ExistsBijection, Bijection, Injection, IsInjective
<1>3. SetToSeq(Listeners) \in [1..Cardinality(Listeners) -> Listeners]
  BY <1>2 DEF SetToSeq
<1> QED BY <1>1, <1>3

----------------
(* Plans *)

Begins(plan, s, t, e, left) ==
    plan \in Seq(Planned) /\ plan # <<>> /\ Head(plan) = [step |-> s, of |-> t, event |-> e] /\ Tail(plan) = left

LEMMA BeginsOne ==
    ASSUME NEW t \in Traces, NEW r \in Seq(Planned), NEW s \in {"publish", "stores", "leave", "fn", "callback"},
           NEW e \in Events \cup {"none"}
    PROVE  Begins(<<[step |-> s, of |-> t, event |-> e]>> \o r, s, t, e, r)
<1>1. [step |-> s, of |-> t, event |-> e] \in Planned
  BY DEF Planned
<1> HIDE DEF Planned
<1> QED BY <1>1, ConsFacts DEF Begins

LEMMA BeginsLast ==
    ASSUME NEW t \in Traces, NEW s \in {"publish", "stores", "leave", "fn", "callback"}, NEW e \in Events \cup {"none"}
    PROVE  Begins(<<[step |-> s, of |-> t, event |-> e]>>, s, t, e, <<>>)
<1>1. [step |-> s, of |-> t, event |-> e] \in Planned
  BY DEF Planned
<1>2. <<>> \in Seq(Planned) /\ <<[step |-> s, of |-> t, event |-> e]>> \in Seq(Planned)
  BY <1>1
<1>3. <<[step |-> s, of |-> t, event |-> e]>> \o <<>> = <<[step |-> s, of |-> t, event |-> e]>>
  BY <1>2, ConcatEmptySeq
<1> QED BY <1>2, <1>3, BeginsOne

\* The next step of each plan, and what is left after it.
LEMMA SyncPlans ==
    ASSUME NEW t \in Traces
    PROVE  /\ Begins(Departing(t), "leave", t, "none", <<>>) /\ Begins(Ending(t), "publish", t, "end", Departing(t))
           /\ Begins(Failing(t), "publish", t, "error", Ending(t)) /\ Begins(Calling(t), "fn", t, "none", Departing(t))
           /\ Begins(Starting(t), "publish", t, "start", Calling(t)) /\ Begins(Entering(t), "stores", t, "start", Starting(t))
           /\ Begins(Work("fn", t), "fn", t, "none", <<>>)
<1>0. {"start", "end", "asyncStart", "asyncEnd", "error", "none"} \subseteq Events \cup {"none"}
  BY DEF Events
<1>1. Begins(Departing(t), "leave", t, "none", <<>>) /\ Begins(Work("fn", t), "fn", t, "none", <<>>)
  BY <1>0, BeginsLast DEF Departing, Work
<1>2. Departing(t) \in Seq(Planned)
  BY <1>1 DEF Begins
<1>3. Begins(Ending(t), "publish", t, "end", Departing(t)) /\ Begins(Calling(t), "fn", t, "none", Departing(t))
  BY <1>0, <1>2, BeginsOne DEF Ending, Calling, Work, Publish
<1>4. Ending(t) \in Seq(Planned) /\ Calling(t) \in Seq(Planned)
  BY <1>3 DEF Begins
<1>5. Begins(Failing(t), "publish", t, "error", Ending(t)) /\ Begins(Starting(t), "publish", t, "start", Calling(t))
  BY <1>0, <1>4, BeginsOne DEF Failing, Starting, Publish
<1>6. Starting(t) \in Seq(Planned)
  BY <1>5 DEF Begins
<1>7. Begins(Entering(t), "stores", t, "start", Starting(t))
  BY <1>0, <1>6, BeginsOne DEF Entering
<1> QED BY <1>1, <1>3, <1>5, <1>7

LEMMA AsyncPlans ==
    ASSUME NEW t \in Traces, NEW r \in Seq(Planned)
    PROVE  /\ Begins(AsyncLeaving(t, r), "leave", t, "none", r) /\ Begins(AsyncEnding(t, r), "publish", t, "asyncEnd", AsyncLeaving(t, r))
           /\ Begins(CallingBack(t, r), "callback", t, "none", AsyncEnding(t, r))
           /\ Begins(AsyncStarting(t, r), "publish", t, "asyncStart", CallingBack(t, r))
           /\ Begins(AsyncEntering(t, r), "stores", t, "asyncStart", AsyncStarting(t, r))
           /\ Begins(AsyncFailing(t, r), "publish", t, "error", AsyncEntering(t, r))
           /\ Begins(Work("callback", t) \o r, "callback", t, "none", r)
<1>0. {"start", "end", "asyncStart", "asyncEnd", "error", "none"} \subseteq Events \cup {"none"}
  BY DEF Events
<1>1. Begins(AsyncLeaving(t, r), "leave", t, "none", r) /\ Begins(Work("callback", t) \o r, "callback", t, "none", r)
  BY <1>0, BeginsOne DEF AsyncLeaving, Work
<1>2. AsyncLeaving(t, r) \in Seq(Planned)
  BY <1>1 DEF Begins
<1>3. Begins(AsyncEnding(t, r), "publish", t, "asyncEnd", AsyncLeaving(t, r))
  BY <1>0, <1>2, BeginsOne DEF AsyncEnding, Publish
<1>4. AsyncEnding(t, r) \in Seq(Planned)
  BY <1>3 DEF Begins
<1>5. Begins(CallingBack(t, r), "callback", t, "none", AsyncEnding(t, r))
  BY <1>0, <1>4, BeginsOne DEF CallingBack, Work
<1>6. CallingBack(t, r) \in Seq(Planned)
  BY <1>5 DEF Begins
<1>7. Begins(AsyncStarting(t, r), "publish", t, "asyncStart", CallingBack(t, r))
  BY <1>0, <1>6, BeginsOne DEF AsyncStarting, Publish
<1>8. AsyncStarting(t, r) \in Seq(Planned)
  BY <1>7 DEF Begins
<1>9. Begins(AsyncEntering(t, r), "stores", t, "asyncStart", AsyncStarting(t, r))
  BY <1>0, <1>8, BeginsOne DEF AsyncEntering
<1>10. AsyncEntering(t, r) \in Seq(Planned)
  BY <1>9 DEF Begins
<1>11. Begins(AsyncFailing(t, r), "publish", t, "error", AsyncEntering(t, r))
  BY <1>0, <1>10, BeginsOne DEF AsyncFailing, Publish
<1> QED BY <1>1, <1>3, <1>5, <1>7, <1>9, <1>11

LEMMA PromisePlans ==
    ASSUME NEW t \in Traces
    PROVE  /\ Begins(Publish(t, "asyncEnd"), "publish", t, "asyncEnd", <<>>)
           /\ Begins(Settled(t), "publish", t, "asyncStart", Publish(t, "asyncEnd"))
           /\ Begins(Rejected(t), "publish", t, "error", Settled(t))
<1>0. {"start", "end", "asyncStart", "asyncEnd", "error", "none"} \subseteq Events \cup {"none"}
  BY DEF Events
<1>1. Begins(Publish(t, "asyncEnd"), "publish", t, "asyncEnd", <<>>)
  BY <1>0, BeginsLast DEF Publish
<1>2. Publish(t, "asyncEnd") \in Seq(Planned)
  BY <1>1 DEF Begins
<1>3. Begins(Settled(t), "publish", t, "asyncStart", Publish(t, "asyncEnd"))
  BY <1>0, <1>2, BeginsOne DEF Settled, Publish
<1>4. Settled(t) \in Seq(Planned)
  BY <1>3 DEF Begins
<1>5. Begins(Rejected(t), "publish", t, "error", Settled(t))
  BY <1>0, <1>4, BeginsOne DEF Rejected, Publish
<1> QED BY <1>1, <1>3, <1>5

\* Every plan but an empty one begins with a step of its trace.
LEMMA AtBegins ==
    ASSUME NEW t \in Traces, NEW plan, NEW c, NEW d, At(t, plan, c, d)
    PROVE  plan \in Seq(Planned) /\ plan # <<>> /\ Head(plan).of = t /\ Remains(t, c) \in Seq(Planned)
<1>1. Calling(t) \in Seq(Planned) /\ Work("fn", t) \in Seq(Planned) /\ <<>> \in Seq(Planned)
  BY SyncPlans DEF Begins
<1>2. Remains(t, c) \in Seq(Planned) /\ (IF c.fn = 0 THEN Work("fn", t) ELSE <<>>) \in Seq(Planned)
  BY <1>1 DEF Remains
<1> DEFINE Ok == \E s, e, left : Begins(plan, s, t, e, left)
<1>3. CASE \/ AtFunction(t, plan, c, d) \/ AtEntering(t, plan, c, d) \/ AtStarting(t, plan, c, d) \/ AtCalling(t, plan, c, d)
           \/ AtFailing(t, plan, c, d) \/ AtEnding(t, plan, c, d) \/ AtLeaving(t, plan, c, d)
  <2>1. Ok
    BY <1>3, SyncPlans DEF AtFunction, AtEntering, AtStarting, AtCalling, AtFailing, AtEnding, AtLeaving
  <2> QED BY <2>1, <1>2 DEF Begins
<1>4. CASE \/ AtCallback(t, plan, c, d) \/ AtAsyncFailing(t, plan, c, d) \/ AtAsyncEntering(t, plan, c, d) \/ AtAsyncStarting(t, plan, c, d)
           \/ AtCallingBack(t, plan, c, d) \/ AtAsyncEnding(t, plan, c, d) \/ AtAsyncLeaving(t, plan, c, d)
  <2>a. ASSUME AtCallback(t, plan, c, d) PROVE Ok
    <3> DEFINE q == IF c.fn = 0 THEN Work("fn", t) ELSE <<>>
    <3>1. plan = Work("callback", t) \o q
      BY <2>a DEF AtCallback
    <3>2. q \in Seq(Planned)
      BY <1>2
    <3> HIDE DEF q
    <3>3. Begins(Work("callback", t) \o q, "callback", t, "none", q)
      BY <3>2, AsyncPlans
    <3> QED BY <3>1, <3>3
  <2>b. ASSUME ~AtCallback(t, plan, c, d) PROVE Ok
    <3> DEFINE q == Remains(t, c)
    <3>1. \/ plan = AsyncFailing(t, q) \/ plan = AsyncEntering(t, q) \/ plan = AsyncStarting(t, q)
          \/ plan = CallingBack(t, q) \/ plan = AsyncEnding(t, q) \/ plan = AsyncLeaving(t, q)
      BY <1>4, <2>b DEF AtAsyncFailing, AtAsyncEntering, AtAsyncStarting, AtCallingBack, AtAsyncEnding, AtAsyncLeaving
    <3> HIDE DEF q
    <3>2. q \in Seq(Planned)
      BY <1>2 DEF q
    <3>3. /\ Begins(AsyncLeaving(t, q), "leave", t, "none", q) /\ Begins(AsyncEnding(t, q), "publish", t, "asyncEnd", AsyncLeaving(t, q))
          /\ Begins(CallingBack(t, q), "callback", t, "none", AsyncEnding(t, q))
          /\ Begins(AsyncStarting(t, q), "publish", t, "asyncStart", CallingBack(t, q))
          /\ Begins(AsyncEntering(t, q), "stores", t, "asyncStart", AsyncStarting(t, q))
          /\ Begins(AsyncFailing(t, q), "publish", t, "error", AsyncEntering(t, q))
      BY <3>2, AsyncPlans
    <3> QED BY <3>1, <3>3
  <2>1. Ok
    BY <2>a, <2>b
  <2> QED BY <2>1, <1>2 DEF Begins
<1>5. CASE AtRejected(t, plan, c, d) \/ AtSettled(t, plan, c, d) \/ AtSettledEnd(t, plan, c, d)
  <2>1. Ok
    BY <1>5, PromisePlans DEF AtRejected, AtSettled, AtSettledEnd
  <2> QED BY <2>1, <1>2 DEF Begins
<1> QED BY <1>3, <1>4, <1>5 DEF At

\* Where a trace is when its next step is of a kind.
LEMMA AtSteps ==
    ASSUME NEW t \in Traces, NEW plan, NEW c, NEW d, At(t, plan, c, d)
    PROVE  /\ Head(plan).step = "fn" => AtFunction(t, plan, c, d) \/ AtCalling(t, plan, c, d)
           /\ Head(plan).step = "callback" => AtCallback(t, plan, c, d) \/ AtCallingBack(t, plan, c, d)
           /\ Head(plan).step = "stores" => AtEntering(t, plan, c, d) \/ AtAsyncEntering(t, plan, c, d)
           /\ Head(plan).step = "leave" => AtLeaving(t, plan, c, d) \/ AtAsyncLeaving(t, plan, c, d)
           /\ Head(plan).step = "publish" =>
                 \/ AtStarting(t, plan, c, d) \/ AtFailing(t, plan, c, d) \/ AtEnding(t, plan, c, d)
                 \/ AtAsyncFailing(t, plan, c, d) \/ AtAsyncStarting(t, plan, c, d) \/ AtAsyncEnding(t, plan, c, d)
                 \/ AtRejected(t, plan, c, d) \/ AtSettled(t, plan, c, d) \/ AtSettledEnd(t, plan, c, d)
<1> DEFINE q == Remains(t, c)
           f == IF c.fn = 0 THEN Work("fn", t) ELSE <<>>
<1>1. q \in Seq(Planned) /\ f \in Seq(Planned)
  <2>1. Work("fn", t) \in Seq(Planned) /\ <<>> \in Seq(Planned)
    BY SyncPlans DEF Begins
  <2> QED BY <2>1, AtBegins
<1> HIDE DEF q, f
<1>2. /\ Head(Work("fn", t)).step = "fn" /\ Head(Calling(t)).step = "fn" /\ Head(Entering(t)).step = "stores"
      /\ Head(Departing(t)).step = "leave" /\ Head(Starting(t)).step = "publish" /\ Head(Failing(t)).step = "publish"
      /\ Head(Ending(t)).step = "publish"
  BY SyncPlans DEF Begins
<1>3. /\ Head(Work("callback", t) \o f).step = "callback" /\ Head(CallingBack(t, q)).step = "callback"
      /\ Head(AsyncEntering(t, q)).step = "stores" /\ Head(AsyncLeaving(t, q)).step = "leave"
      /\ Head(AsyncFailing(t, q)).step = "publish" /\ Head(AsyncStarting(t, q)).step = "publish" /\ Head(AsyncEnding(t, q)).step = "publish"
  <2>1. Begins(Work("callback", t) \o f, "callback", t, "none", f)
    BY <1>1, AsyncPlans
  <2>2. /\ Begins(AsyncLeaving(t, q), "leave", t, "none", q) /\ Begins(AsyncEnding(t, q), "publish", t, "asyncEnd", AsyncLeaving(t, q))
        /\ Begins(CallingBack(t, q), "callback", t, "none", AsyncEnding(t, q))
        /\ Begins(AsyncStarting(t, q), "publish", t, "asyncStart", CallingBack(t, q))
        /\ Begins(AsyncEntering(t, q), "stores", t, "asyncStart", AsyncStarting(t, q))
        /\ Begins(AsyncFailing(t, q), "publish", t, "error", AsyncEntering(t, q))
    BY <1>1, AsyncPlans
  <2> QED BY <2>1, <2>2 DEF Begins
<1>4. Head(Rejected(t)).step = "publish" /\ Head(Settled(t)).step = "publish" /\ Head(Publish(t, "asyncEnd")).step = "publish"
  BY PromisePlans DEF Begins
<1>5. /\ AtFunction(t, plan, c, d) => plan = Work("fn", t)
      /\ AtCalling(t, plan, c, d) => plan = Calling(t)
      /\ AtCallback(t, plan, c, d) => plan = Work("callback", t) \o f
      /\ AtCallingBack(t, plan, c, d) => plan = CallingBack(t, q)
      /\ AtEntering(t, plan, c, d) => plan = Entering(t)
      /\ AtAsyncEntering(t, plan, c, d) => plan = AsyncEntering(t, q)
      /\ AtLeaving(t, plan, c, d) => plan = Departing(t)
      /\ AtAsyncLeaving(t, plan, c, d) => plan = AsyncLeaving(t, q)
  BY Zenon DEF AtFunction, AtCalling, AtCallback, AtCallingBack, AtEntering, AtAsyncEntering, AtLeaving, AtAsyncLeaving, q, f
<1>6. /\ AtStarting(t, plan, c, d) => plan = Starting(t)
      /\ AtFailing(t, plan, c, d) => plan = Failing(t)
      /\ AtEnding(t, plan, c, d) => plan = Ending(t)
      /\ AtAsyncFailing(t, plan, c, d) => plan = AsyncFailing(t, q)
      /\ AtAsyncStarting(t, plan, c, d) => plan = AsyncStarting(t, q)
      /\ AtAsyncEnding(t, plan, c, d) => plan = AsyncEnding(t, q)
      /\ AtRejected(t, plan, c, d) => plan = Rejected(t)
      /\ AtSettled(t, plan, c, d) => plan = Settled(t)
      /\ AtSettledEnd(t, plan, c, d) => plan = Publish(t, "asyncEnd")
  BY DEF AtStarting, AtFailing, AtEnding, AtAsyncFailing, AtAsyncStarting, AtAsyncEnding, AtRejected, AtSettled, AtSettledEnd, q
<1>7. CASE Head(plan).step = "publish"
  BY <1>2, <1>3, <1>5, <1>7 DEF At
<1>8. CASE Head(plan).step # "publish"
  BY <1>2, <1>3, <1>4, <1>5, <1>6, <1>8 DEF At
<1> QED BY <1>7, <1>8

\* Publishing the next event of a plan is a step to the next place.
LEMMA PublishMoves ==
    ASSUME NEW t \in Traces, NEW plan, NEW c \in TraceFields, NEW d \in Nat, At(t, plan, c, d), Head(plan).step = "publish"
    PROVE  /\ Head(plan).event \in Events
           /\ Goes(t, Tail(plan), [c EXCEPT !.published = Append(@, Head(plan).event)], d)
<1> DEFINE e == Head(plan).event
           c2 == [c EXCEPT !.published = Append(@, e)]
           r == Remains(t, c)
<1>1. r \in Seq(Planned)
  BY AtBegins
<1>2. /\ c2.mode = c.mode /\ c2.step = c.step /\ c2.traced = c.traced /\ c2.fn = c.fn /\ c2.callback = c.callback
      /\ c2.published = Append(c.published, e)
  BY DEF TraceFields
<1>3. /\ (CallsOnce(c) => CallsOnce(c2)) /\ (Observed(c) => Observed(c2)) /\ (NotRun(c) => NotRun(c2)) /\ (HasRun(c) => HasRun(c2))
      /\ (BackObserved(c) => BackObserved(c2)) /\ (Promised(c) => Promised(c2)) /\ Remains(t, c2) = r /\ Entered(c2) = Entered(c)
      /\ Base(c2) = Base(c) /\ Before(c2) = Before(c) /\ Errored(c2) = Errored(c) /\ Over(c2) = Over(c)
  BY <1>2 DEF CallsOnce, Observed, NotRun, HasRun, BackObserved, Back, Promised, Remains, Entered, Base, Before, Errored, Over
<1>4. SUFFICES e \in Events /\ Goes(t, Tail(plan), c2, d)
  OBVIOUS
<1> HIDE DEF c2, r, e
<1>a. /\ Begins(AsyncFailing(t, r), "publish", t, "error", AsyncEntering(t, r))
      /\ Begins(AsyncStarting(t, r), "publish", t, "asyncStart", CallingBack(t, r))
      /\ Begins(AsyncEnding(t, r), "publish", t, "asyncEnd", AsyncLeaving(t, r))
  BY <1>1, AsyncPlans
<1>5. CASE AtStarting(t, plan, c, d)
  <2>1. e = "start" /\ Tail(plan) = Calling(t)
    BY <1>5, SyncPlans DEF AtStarting, Begins, e
  <2>2. c2.published \in Before(c2)
    BY <1>2, <1>5, <2>1 DEF AtStarting, Before
  <2>3. AtCalling(t, Tail(plan), c2, d)
    BY <1>2, <1>3, <1>5, <2>1, <2>2 DEF AtStarting, AtCalling
  <2> QED BY <2>1, <2>3 DEF At, Goes, Events
<1>6. CASE AtFailing(t, plan, c, d)
  <2>1. e = "error" /\ Tail(plan) = Ending(t)
    BY <1>6, SyncPlans DEF AtFailing, Begins, e
  <2>2. c2.published \in Errored(c2)
    BY <1>2, <1>3, <1>6, <2>1 DEF AtFailing, Errored
  <2>3. AtEnding(t, Tail(plan), c2, d)
    BY <1>2, <1>3, <1>6, <2>1, <2>2 DEF AtFailing, AtEnding
  <2> QED BY <2>1, <2>3 DEF At, Goes, Events
<1>7. CASE AtEnding(t, plan, c, d)
  <2>1. e = "end" /\ Tail(plan) = Departing(t)
    BY <1>7, SyncPlans DEF AtEnding, Begins, e
  <2>2. c2.published \in Over(c2)
    BY <1>2, <1>3, <1>7, <2>1 DEF AtEnding, Over
  <2>3. AtLeaving(t, Tail(plan), c2, d)
    BY <1>2, <1>3, <1>7, <2>1, <2>2 DEF AtEnding, AtLeaving
  <2> QED BY <2>1, <2>3 DEF At, Goes, Events
<1>8. CASE AtAsyncFailing(t, plan, c, d)
  <2>1. e = "error" /\ Tail(plan) = AsyncEntering(t, r)
    BY <1>a, <1>8 DEF AtAsyncFailing, Begins, e, r
  <2>2. c2.published \in MayFail(Base(c2))
    BY <1>2, <1>3, <1>8, <2>1 DEF AtAsyncFailing, MayFail
  <2>3. AtAsyncEntering(t, Tail(plan), c2, d)
    BY <1>2, <1>3, <1>8, <2>1, <2>2 DEF AtAsyncFailing, AtAsyncEntering
  <2> QED BY <2>1, <2>3 DEF At, Goes, Events
<1>9. CASE AtAsyncStarting(t, plan, c, d)
  <2>1. e = "asyncStart" /\ Tail(plan) = CallingBack(t, r)
    BY <1>a, <1>9 DEF AtAsyncStarting, Begins, e, r
  <2>2. c2.published \in Begun(Base(c2))
    BY <1>2, <1>3, <1>9, <2>1 DEF AtAsyncStarting, Begun
  <2>3. AtCallingBack(t, Tail(plan), c2, d)
    BY <1>2, <1>3, <1>9, <2>1, <2>2 DEF AtAsyncStarting, AtCallingBack
  <2> QED BY <2>1, <2>3 DEF At, Goes, Events
<1>10. CASE AtAsyncEnding(t, plan, c, d)
  <2>1. e = "asyncEnd" /\ Tail(plan) = AsyncLeaving(t, r)
    BY <1>a, <1>10 DEF AtAsyncEnding, Begins, e, r
  <2>2. c2.published \in Closed(Base(c2))
    BY <1>2, <1>3, <1>10, <2>1 DEF AtAsyncEnding, Closed
  <2>3. AtAsyncLeaving(t, Tail(plan), c2, d)
    BY <1>2, <1>3, <1>10, <2>1, <2>2 DEF AtAsyncEnding, AtAsyncLeaving
  <2> QED BY <2>1, <2>3 DEF At, Goes, Events
<1>11. CASE AtRejected(t, plan, c, d)
  <2>1. e = "error" /\ Tail(plan) = Settled(t)
    BY <1>11, PromisePlans DEF AtRejected, Begins, e
  <2>2. c2.published \in MayFail(Base(c2))
    BY <1>2, <1>3, <1>11, <2>1 DEF AtRejected, MayFail
  <2>3. AtSettled(t, Tail(plan), c2, d)
    BY <1>2, <1>3, <1>11, <2>1, <2>2 DEF AtRejected, AtSettled
  <2> QED BY <2>1, <2>3 DEF At, Goes, Events
<1>12. CASE AtSettled(t, plan, c, d)
  <2>1. e = "asyncStart" /\ Tail(plan) = Publish(t, "asyncEnd")
    BY <1>12, PromisePlans DEF AtSettled, Begins, e
  <2>2. c2.published \in Begun(Base(c2))
    BY <1>2, <1>3, <1>12, <2>1 DEF AtSettled, Begun
  <2>3. AtSettledEnd(t, Tail(plan), c2, d)
    BY <1>2, <1>3, <1>12, <2>1, <2>2 DEF AtSettled, AtSettledEnd
  <2> QED BY <2>1, <2>3 DEF At, Goes, Events
<1>13. CASE AtSettledEnd(t, plan, c, d)
  <2>1. e = "asyncEnd" /\ Tail(plan) = <<>> /\ d = 0
    BY <1>13, PromisePlans DEF AtSettledEnd, Begins, e
  <2>2. c2.published \in Closed(Base(c2))
    BY <1>2, <1>3, <1>13, <2>1 DEF AtSettledEnd, Closed
  <2>3. Rested(c2)
    BY <1>2, <1>3, <1>13, <2>2 DEF AtSettledEnd, Promised, Rested, CallsOnce, Base
  <2> QED BY <2>1, <2>3 DEF Goes, Events
<1> QED BY <1>5, <1>6, <1>7, <1>8, <1>9, <1>10, <1>11, <1>12, <1>13, AtSteps

\* Entering the stores, leaving them and the callback are steps to the next place too.
LEMMA StoresMoves ==
    ASSUME NEW t \in Traces, NEW plan, NEW c \in TraceFields, NEW d \in Nat, At(t, plan, c, d), Head(plan).step = "stores"
    PROVE  Head(plan).event \in Events /\ Goes(t, Tail(plan), c, d + 1)
<1>1. CASE AtEntering(t, plan, c, d)
  <2>1. Head(plan).event = "start" /\ Tail(plan) = Starting(t)
    BY <1>1, SyncPlans DEF AtEntering, Begins
  <2>2. AtStarting(t, Tail(plan), c, d + 1)
    BY <1>1, <2>1 DEF AtEntering, AtStarting
  <2> QED BY <2>1, <2>2 DEF At, Goes, Events
<1>2. CASE AtAsyncEntering(t, plan, c, d)
  <2>1. Remains(t, c) \in Seq(Planned)
    BY AtBegins
  <2>2. Head(plan).event = "asyncStart" /\ Tail(plan) = AsyncStarting(t, Remains(t, c))
    BY <1>2, <2>1, AsyncPlans DEF AtAsyncEntering, Begins
  <2>3. AtAsyncStarting(t, Tail(plan), c, d + 1)
    BY <1>2, <2>2 DEF AtAsyncEntering, AtAsyncStarting
  <2> QED BY <2>2, <2>3 DEF At, Goes, Events
<1> QED BY <1>1, <1>2, AtSteps

LEMMA LeaveMoves ==
    ASSUME NEW t \in Traces, NEW plan, NEW c \in TraceFields, NEW d \in Nat, At(t, plan, c, d), Head(plan).step = "leave"
    PROVE  d >= 1 /\ Goes(t, Tail(plan), c, d - 1)
<1>1. CASE AtLeaving(t, plan, c, d)
  <2>1. Tail(plan) = <<>> /\ d = 1
    BY <1>1, SyncPlans DEF AtLeaving, Begins
  <2>2. Rested(c)
    BY <1>1 DEF AtLeaving, Rested, HasRun, Observed
  <2> QED BY <2>1, <2>2 DEF Goes
<1>2. CASE AtAsyncLeaving(t, plan, c, d)
  <2>1. Remains(t, c) \in Seq(Planned)
    BY AtBegins
  <2>2. Tail(plan) = Remains(t, c) /\ d = Entered(c) + 1
    BY <1>2, <2>1, AsyncPlans DEF AtAsyncLeaving, Begins
  <2>3. CASE c.fn = 0
    <3>1. c.published \in Before(c) /\ NotRun(c) /\ Observed(c) /\ d - 1 = 1 /\ Tail(plan) = Calling(t)
      BY <1>2, <2>2, <2>3 DEF AtAsyncLeaving, Before, Base, BackObserved, Back, NotRun, Observed, CallsOnce, Entered, Remains
    <3>2. AtCalling(t, Tail(plan), c, d - 1)
      BY <3>1 DEF AtCalling
    <3> QED BY <3>1, <3>2 DEF At, Goes
  <2>4. CASE c.fn # 0
    <3>1. Tail(plan) = <<>> /\ d = 1
      BY <2>2, <2>4 DEF Remains, Entered
    <3>2. Rested(c)
      BY <1>2, <2>4 DEF AtAsyncLeaving, BackObserved, Back, Base, Rested, CallsOnce
    <3> QED BY <3>1, <3>2 DEF Goes
  <2> QED BY <2>3, <2>4
<1> QED BY <1>1, <1>2, AtSteps

LEMMA CallbackMoves ==
    ASSUME NEW t \in Traces, NEW plan, NEW c \in TraceFields, NEW d \in Nat, At(t, plan, c, d), Head(plan).step = "callback"
    PROVE  Goes(t, Tail(plan), [c EXCEPT !.callback = @ + 1], d)
<1> DEFINE c2 == [c EXCEPT !.callback = @ + 1]
<1>1. /\ c2.mode = c.mode /\ c2.step = c.step /\ c2.traced = c.traced /\ c2.fn = c.fn /\ c2.callback = c.callback + 1
      /\ c2.published = c.published
  BY DEF TraceFields
<1>2. /\ (Unobserved(c) => Unobserved(c2)) /\ (BackObserved(c) => BackObserved(c2)) /\ Remains(t, c2) = Remains(t, c)
      /\ Entered(c2) = Entered(c) /\ Base(c2) = Base(c)
  BY <1>1 DEF Unobserved, BackObserved, Back, Remains, Entered, Base
<1>3. SUFFICES Goes(t, Tail(plan), c2, d)
  OBVIOUS
<1> HIDE DEF c2
<1>4. CASE AtCallback(t, plan, c, d)
  <2> DEFINE q == IF c.fn = 0 THEN Work("fn", t) ELSE <<>>
  <2>1. q \in Seq(Planned)
    BY SyncPlans DEF Begins
  <2>2. plan = Work("callback", t) \o q /\ d = 0 /\ c2.callback = 1 /\ Unobserved(c2)
    BY <1>1, <1>2, <1>4 DEF AtCallback
  <2> HIDE DEF q
  <2>3. Tail(plan) = q
    BY <2>1, <2>2, AsyncPlans DEF Begins
  <2>4. CASE c.fn = 0
    <3>1. NotRun(c2) /\ q = Work("fn", t)
      BY <1>1, <1>4, <2>2, <2>4 DEF AtCallback, Back, NotRun, CallsOnce, q
    <3>2. AtFunction(t, Tail(plan), c2, d)
      BY <2>2, <2>3, <3>1 DEF AtFunction
    <3> QED BY <3>2 DEF At, Goes
  <2>5. CASE c.fn # 0
    <3>1. Rested(c2) /\ q = <<>>
      BY <1>1, <1>4, <2>2, <2>5 DEF AtCallback, Back, Rested, CallsOnce, Unobserved, q
    <3> QED BY <2>2, <2>3, <3>1 DEF Goes
  <2> QED BY <2>4, <2>5
<1>5. CASE AtCallingBack(t, plan, c, d)
  <2>1. Remains(t, c) \in Seq(Planned)
    BY AtBegins
  <2>2. Tail(plan) = AsyncEnding(t, Remains(t, c))
    BY <1>5, <2>1, AsyncPlans DEF AtCallingBack, Begins
  <2>3. AtAsyncEnding(t, Tail(plan), c2, d)
    BY <1>1, <1>2, <1>5, <2>2 DEF AtCallingBack, AtAsyncEnding
  <2> QED BY <2>3 DEF At, Goes
<1> QED BY <1>4, <1>5, AtSteps

\* The function returns or throws.
LEMMA FunctionMoves ==
    ASSUME NEW t \in Traces, NEW plan, NEW c \in TraceFields, NEW d \in Nat, At(t, plan, c, d), Head(plan).step = "fn",
           NEW threw \in BOOLEAN, NEW c2 \in TraceFields,
           c2.mode = c.mode, c2.traced = c.traced, c2.published = c.published, c2.callback = c.callback, c2.fn = c.fn + 1,
           c2.step = IF threw \/ c.mode = "sync" THEN "over" ELSE "waiting"
    PROVE  Goes(t, (IF c.traced THEN Ends(t, threw) ELSE <<>>) \o Tail(plan), c2, d)
<1>1. (CallsOnce(c) => CallsOnce(c2)) /\ Before(c2) = Before(c) /\ (Observed(c) => Observed(c2)) /\ (Unobserved(c) => Unobserved(c2))
  BY DEF CallsOnce, Before, Observed, Unobserved
<1>2. NotRun(c) => HasRun(c2)
  BY DEF NotRun, HasRun
<1>3. CASE AtFunction(t, plan, c, d)
  <2>1. Tail(plan) = <<>> /\ d = 0
    BY <1>3, SyncPlans DEF AtFunction, Begins
  <2>2. Rested(c2)
    BY <1>1, <1>2, <1>3 DEF AtFunction, Unobserved, HasRun, Rested, NotRun
  <2>3. ~c.traced
    BY <1>3 DEF AtFunction, Unobserved
  <2>4. <<>> \o Tail(plan) = <<>>
    BY <2>1
  <2> QED BY <2>1, <2>2, <2>3, <2>4 DEF Goes
<1>4. CASE AtCalling(t, plan, c, d)
  <2>1. Tail(plan) = Departing(t) /\ d = 1 /\ c.traced /\ c2.published \in Before(c2) /\ Observed(c2) /\ HasRun(c2)
    BY <1>1, <1>2, <1>4, SyncPlans DEF AtCalling, Begins, Observed
  <2>2. Departing(t) \in Seq(Planned)
    BY SyncPlans DEF Begins
  <2>3. CASE threw
    <3>1. Ends(t, threw) \o Tail(plan) = Failing(t)
      <4>1. [step |-> "publish", of |-> t, event |-> "error"] \in Planned /\ Publish(t, "end") \in Seq(Planned)
        BY DEF Planned, Events, Publish
      <4>2. (Publish(t, "error") \o Publish(t, "end")) \o Departing(t) = Publish(t, "error") \o (Publish(t, "end") \o Departing(t))
        <5> DEFINE x == [step |-> "publish", of |-> t, event |-> "error"]
        <5>1. (<<x>> \o Publish(t, "end")) \o Departing(t) = <<x>> \o (Publish(t, "end") \o Departing(t))
          <6> HIDE DEF x
          <6>1. x \in Planned
            BY <4>1 DEF x
          <6> QED BY <4>1, <6>1, <2>2, ConsConcat
        <5>2. Publish(t, "error") = <<x>>
          BY DEF Publish
        <5> QED BY <5>1, <5>2
      <4> QED BY <2>1, <2>3, <4>2 DEF Ends, Failing, Ending
    <3>2. AtFailing(t, Failing(t), c2, d)
      BY <2>1, <2>3 DEF AtFailing
    <3> QED BY <2>1, <3>1, <3>2 DEF At, Goes
  <2>4. CASE ~threw
    <3>1. Ends(t, threw) \o Tail(plan) = Ending(t)
      BY <2>1, <2>4 DEF Ends, Ending
    <3>2. AtEnding(t, Ending(t), c2, d)
      BY <2>1 DEF AtEnding
    <3> QED BY <2>1, <3>1, <3>2 DEF At, Goes
  <2> QED BY <2>3, <2>4
<1> QED BY <1>3, <1>4, AtSteps

\* Plans put together one after the other.
Assoc(p, q, r) == (p \o q) \o r = p \o (q \o r)

LEMMA JoinedType ==
    ASSUME NEW p, NEW q, p \in Seq(Planned), q \in Seq(Planned)
    PROVE  p \o q \in Seq(Planned)
BY ConcatProperties

LEMMA Joined ==
    ASSUME NEW p, NEW q, NEW r, p \in Seq(Planned), q \in Seq(Planned), r \in Seq(Planned)
    PROVE  Assoc(p, q, r)
BY ConcatAssociative DEF Assoc

FiveInTurn(a, b, k, l, r) ==
    /\ ((a \o b) \o k) \o l \in Seq(Planned)
    /\ (((a \o b) \o k) \o l) \o r = a \o (b \o (k \o (l \o r)))
LEMMA JoinedFive ==
    ASSUME NEW a, NEW b, NEW k, NEW l, NEW r,
           a \in Seq(Planned), b \in Seq(Planned), k \in Seq(Planned), l \in Seq(Planned), r \in Seq(Planned)
    PROVE  FiveInTurn(a, b, k, l, r)
<1>1. a \o b \in Seq(Planned) /\ l \o r \in Seq(Planned)
  BY JoinedType
<1>2. (a \o b) \o k \in Seq(Planned) /\ k \o (l \o r) \in Seq(Planned)
  BY <1>1, JoinedType
<1>3. ((a \o b) \o k) \o l \in Seq(Planned)
  BY <1>2, JoinedType
<1>4. Assoc((a \o b) \o k, l, r)
  BY <1>2, Joined
<1>5. Assoc(a \o b, k, l \o r)
  BY <1>1, Joined
<1>6. Assoc(a, b, k \o (l \o r))
  BY <1>2, Joined
<1> QED BY <1>3, <1>4, <1>5, <1>6, Zenon DEF Assoc, FiveInTurn

\* runStores() as a plan.
LEMMA RunStoresIs ==
    ASSUME NEW t \in Traces, NEW e \in Events, NEW body \in Seq(Planned), NEW r \in Seq(Planned)
    PROVE  /\ RunStores(t, e, body) \in Seq(Planned)
           /\ RunStores(t, e, body) \o r
                 = <<[step |-> "stores", of |-> t, event |-> e]>> \o (Publish(t, e) \o (body \o (Work("leave", t) \o r)))
<1> DEFINE a == <<[step |-> "stores", of |-> t, event |-> e]>>
           b == Publish(t, e)
           l == Work("leave", t)
<1>1. a \in Seq(Planned) /\ b \in Seq(Planned) /\ l \in Seq(Planned)
  BY DEF Planned, Publish, Work
<1>2. [i \in 1..1 |-> [step |-> "stores", of |-> t, event |-> e]] = a
  OBVIOUS
<1>3. RunStores(t, e, body) = ((a \o b) \o body) \o l
  BY <1>2 DEF RunStores
<1> HIDE DEF a, b, l
<1>4. FiveInTurn(a, b, body, l, r)
  BY <1>1, JoinedFive
<1>5. RunStores(t, e, body) \in Seq(Planned) /\ RunStores(t, e, body) \o r = a \o (b \o (body \o (l \o r)))
  BY <1>3, <1>4, Zenon DEF FiveInTurn
<1> QED BY <1>5, Zenon DEF a, b, l

LEMMA StartIs ==
    ASSUME NEW t \in Traces
    PROVE  RunStores(t, "start", Work("fn", t)) = Entering(t)
<1>1. Work("fn", t) \in Seq(Planned) /\ Work("leave", t) \in Seq(Planned) /\ <<>> \in Seq(Planned) /\ "start" \in Events
  BY DEF Planned, Work, Events
<1>2. RunStores(t, "start", Work("fn", t)) \in Seq(Planned)
      /\ RunStores(t, "start", Work("fn", t)) \o <<>>
            = <<[step |-> "stores", of |-> t, event |-> "start"]>> \o (Publish(t, "start") \o (Work("fn", t) \o (Work("leave", t) \o <<>>)))
  BY <1>1, RunStoresIs
<1>3. Work("leave", t) \o <<>> = Work("leave", t) /\ RunStores(t, "start", Work("fn", t)) \o <<>> = RunStores(t, "start", Work("fn", t))
  BY <1>1, <1>2, ConcatEmptySeq
<1> QED BY <1>2, <1>3 DEF Entering, Starting, Calling, Departing

\* The wrapped callback before what comes after it.
LEMMA WrappedIs ==
    ASSUME NEW t \in Traces, NEW failed \in BOOLEAN, NEW r \in Seq(Planned)
    PROVE  /\ Wrapped(t, failed) \in Seq(Planned)
           /\ ~trace[t].traced => Wrapped(t, failed) \o r = Work("callback", t) \o r
           /\ trace[t].traced /\ failed => Wrapped(t, failed) \o r = AsyncFailing(t, r)
           /\ trace[t].traced /\ ~failed => Wrapped(t, failed) \o r = AsyncEntering(t, r)
<1> DEFINE k == Work("callback", t)
           x == Publish(t, "asyncEnd")
           w == RunStores(t, "asyncStart", k \o x)
           f == Publish(t, "error")
<1>1. k \in Seq(Planned) /\ x \in Seq(Planned) /\ f \in Seq(Planned) /\ Work("leave", t) \o r \in Seq(Planned) /\ "asyncStart" \in Events
  <2>1. Work("leave", t) \in Seq(Planned)
    BY DEF Planned, Work
  <2> QED BY <2>1, ConcatProperties DEF Planned, Work, Publish, Events
<1>2. k \o x \in Seq(Planned) /\ (k \o x) \o (Work("leave", t) \o r) = k \o (x \o (Work("leave", t) \o r))
  <2> DEFINE z == Work("leave", t) \o r
  <2> HIDE DEF k, x, z
  <2>1. k \in Seq(Planned) /\ x \in Seq(Planned) /\ z \in Seq(Planned)
    BY <1>1 DEF z
  <2>2. k \o x \in Seq(Planned)
    BY <2>1, JoinedType
  <2>3. Assoc(k, x, z)
    BY <2>1, Joined
  <2> QED BY <2>2, <2>3, Zenon DEF z, Assoc
<1>3. w \in Seq(Planned) /\ w \o r = AsyncEntering(t, r)
  <2>1. w \in Seq(Planned) /\ w \o r = <<[step |-> "stores", of |-> t, event |-> "asyncStart"]>>
                                          \o (Publish(t, "asyncStart") \o ((k \o x) \o (Work("leave", t) \o r)))
    <3> DEFINE body == k \o x
    <3> HIDE DEF body
    <3>1. body \in Seq(Planned)
      BY <1>2 DEF body
    <3>2. \A m \in Seq(Planned) :
             /\ RunStores(t, "asyncStart", m) \in Seq(Planned)
             /\ RunStores(t, "asyncStart", m) \o r
                   = <<[step |-> "stores", of |-> t, event |-> "asyncStart"]>> \o (Publish(t, "asyncStart") \o (m \o (Work("leave", t) \o r)))
      BY <1>1, RunStoresIs
    <3>3. /\ RunStores(t, "asyncStart", body) \in Seq(Planned)
          /\ RunStores(t, "asyncStart", body) \o r
                = <<[step |-> "stores", of |-> t, event |-> "asyncStart"]>> \o (Publish(t, "asyncStart") \o (body \o (Work("leave", t) \o r)))
      BY <3>1, <3>2, Zenon
    <3> QED BY <3>3, Zenon DEF body
  <2> QED BY <1>2, <2>1 DEF AsyncEntering, AsyncStarting, CallingBack, AsyncEnding, AsyncLeaving
<1>4. f \o w \in Seq(Planned) /\ (f \o w) \o r = AsyncFailing(t, r)
  <2> HIDE DEF w
  <2>1. f \o w \in Seq(Planned) /\ (f \o w) \o r = f \o (w \o r)
    <3> HIDE DEF f
    <3>1. f \o w \in Seq(Planned)
      BY <1>1, <1>3, JoinedType
    <3>2. Assoc(f, w, r)
      BY <1>1, <1>3, Joined
    <3> QED BY <3>1, <3>2, Zenon DEF Assoc
  <2> QED BY <1>3, <2>1 DEF AsyncFailing
<1>5. <<>> \o w = w
  BY <1>3, ConcatEmptySeq
<1> HIDE DEF k, x, w, f
<1>6. /\ ~trace[t].traced => Wrapped(t, failed) = k
      /\ trace[t].traced /\ failed => Wrapped(t, failed) = f \o w
      /\ trace[t].traced /\ ~failed => Wrapped(t, failed) = <<>> \o w
  BY Zenon DEF Wrapped, k, x, w, f
<1>7. CASE ~trace[t].traced
  BY <1>1, <1>6, <1>7 DEF k
<1>8. CASE trace[t].traced /\ failed
  BY <1>4, <1>6, <1>8
<1>9. CASE trace[t].traced /\ ~failed
  BY <1>3, <1>5, <1>6, <1>9
<1> QED BY <1>7, <1>8, <1>9

\* The function calls its callback before it returns.
LEMMA CallsBackMoves ==
    ASSUME NEW t \in Traces, NEW plan, trace[t] \in TraceFields, NEW d \in Nat, At(t, plan, trace[t], d), Head(plan).step = "fn",
           trace[t].mode = "callback", trace[t].step = "none", NEW failed \in BOOLEAN
    PROVE  Goes(t, Wrapped(t, failed) \o plan, [trace[t] EXCEPT !.step = "called"], d)
<1> DEFINE c == trace[t]
           c2 == [c EXCEPT !.step = "called"]
<1>1. /\ c2.mode = c.mode /\ c2.step = "called" /\ c2.traced = c.traced /\ c2.fn = c.fn /\ c2.callback = c.callback
      /\ c2.published = c.published
  BY DEF TraceFields
<1>2. plan \in Seq(Planned)
  BY AtBegins
<1>3. /\ ~c.traced => Wrapped(t, failed) \o plan = Work("callback", t) \o plan
      /\ c.traced /\ failed => Wrapped(t, failed) \o plan = AsyncFailing(t, plan)
      /\ c.traced /\ ~failed => Wrapped(t, failed) \o plan = AsyncEntering(t, plan)
  BY <1>2, WrappedIs
<1>4. AtFunction(t, plan, c, d) \/ AtCalling(t, plan, c, d)
  BY AtSteps
<1>5. SUFFICES Goes(t, Wrapped(t, failed) \o plan, c2, d)
  OBVIOUS
<1>a. c.mode = "callback" /\ c.step = "none"
  OBVIOUS
<1> HIDE DEF c, c2
<1>6. CASE AtFunction(t, plan, c, d)
  <2>1. c.fn = 0 /\ c.callback = 0 /\ Unobserved(c) /\ ~c.traced /\ d = 0 /\ plan = Work("fn", t)
    BY <1>a, <1>6 DEF AtFunction, NotRun, Unobserved
  <2>2. Unobserved(c2) /\ Back(c2)
    BY <1>1, <1>a, <2>1 DEF Unobserved, Back
  <2>3. AtCallback(t, Work("callback", t) \o plan, c2, d)
    BY <1>1, <2>1, <2>2 DEF AtCallback
  <2> QED BY <1>3, <2>1, <2>3 DEF At, Goes
<1>7. CASE AtCalling(t, plan, c, d)
  <2>1. c.fn = 0 /\ c.callback = 0 /\ c.traced /\ d = 1 /\ plan = Calling(t) /\ c.published = <<"start">>
    BY <1>a, <1>7 DEF AtCalling, NotRun, Observed, Before
  <2>2. BackObserved(c2) /\ Remains(t, c2) = plan /\ Entered(c2) = 1 /\ c2.published = Base(c2)
    BY <1>1, <1>a, <2>1 DEF BackObserved, Back, Remains, Entered, Base
  <2>3. AtAsyncFailing(t, AsyncFailing(t, plan), c2, d) /\ AtAsyncEntering(t, AsyncEntering(t, plan), c2, d)
    BY <1>1, <2>1, <2>2 DEF AtAsyncFailing, AtAsyncEntering, MayFail
  <2> QED BY <1>3, <2>1, <2>3 DEF At, Goes
<1> QED BY <1>4, <1>6, <1>7

\* A promise settles, or the callback of a function that returned is called.
SettledPlan(t, failed) ==
    IF trace[t].mode = "callback" THEN Wrapped(t, failed)
    ELSE IF ~trace[t].traced THEN <<>>
    ELSE (IF failed THEN Publish(t, "error") ELSE <<>>) \o Publish(t, "asyncStart") \o Publish(t, "asyncEnd")
LEMMA SettlesMoves ==
    ASSUME NEW t \in Traces, trace[t] \in TraceFields, Rested(trace[t]), trace[t].step = "waiting", trace[t].callback = 0,
           NEW failed \in BOOLEAN
    PROVE  /\ SettledPlan(t, failed) \in Seq(Planned)
           /\ Goes(t, SettledPlan(t, failed), [trace[t] EXCEPT !.step = "over"], 0)
<1> DEFINE c == trace[t]
           c2 == [c EXCEPT !.step = "over"]
           plan == SettledPlan(t, failed)
<1>1. /\ c2.mode = c.mode /\ c2.step = "over" /\ c2.traced = c.traced /\ c2.fn = c.fn /\ c2.callback = c.callback
      /\ c2.published = c.published
  BY DEF TraceFields
<1>2. c.mode \in {"promise", "callback"} /\ c.fn = 1 /\ c.callback = 0
  BY DEF Rested, TraceFields, Modes
<1>3. c.published = IF c.traced THEN Append(<<"start">>, "end") ELSE <<>>
  BY DEF Rested, Over, Before
<1>4. SUFFICES plan \in Seq(Planned) /\ Goes(t, plan, c2, 0)
  OBVIOUS
<1>5. CASE c.mode = "callback"
  <2>1. plan = Wrapped(t, failed)
    BY <1>5 DEF SettledPlan
  <2>2. <<>> \in Seq(Planned)
    OBVIOUS
  <2>3. /\ plan \in Seq(Planned)
        /\ ~c.traced => plan \o <<>> = Work("callback", t) \o <<>>
        /\ c.traced /\ failed => plan \o <<>> = AsyncFailing(t, <<>>)
        /\ c.traced /\ ~failed => plan \o <<>> = AsyncEntering(t, <<>>)
    BY <2>1, <2>2, WrappedIs
  <2> HIDE DEF plan, c, c2
  <2>4. plan \o <<>> = plan
    BY <2>3, ConcatEmptySeq
  <2>5. CASE ~c.traced
    <3>1. AtCallback(t, plan, c2, 0)
      BY <1>1, <1>2, <1>3, <1>5, <2>3, <2>4, <2>5 DEF AtCallback, Unobserved, Back
    <3> QED BY <2>3, <3>1 DEF At, Goes
  <2>6. CASE c.traced
    <3>1. BackObserved(c2) /\ Remains(t, c2) = <<>> /\ Entered(c2) = 0 /\ c2.published = Base(c2)
      BY <1>1, <1>2, <1>3, <1>5, <2>6 DEF BackObserved, Back, Remains, Entered, Base
    <3>2. AtAsyncFailing(t, AsyncFailing(t, <<>>), c2, 0) /\ AtAsyncEntering(t, AsyncEntering(t, <<>>), c2, 0)
      BY <1>1, <1>2, <3>1 DEF AtAsyncFailing, AtAsyncEntering, MayFail
    <3> QED BY <2>3, <2>4, <2>6, <3>2 DEF At, Goes
  <2> QED BY <2>5, <2>6
<1>6. CASE c.mode = "promise" /\ ~c.traced
  <2>1. plan = <<>>
    BY <1>6 DEF SettledPlan
  <2> HIDE DEF plan, c, c2
  <2>2. Rested(c2)
    BY <1>1, <1>2, <1>3, <1>6 DEF Rested, CallsOnce
  <2> QED BY <2>1, <2>2 DEF Goes
<1>7. CASE c.mode = "promise" /\ c.traced
  <2> DEFINE a == Publish(t, "asyncStart")
             b == Publish(t, "asyncEnd")
             f == Publish(t, "error")
  <2>1. plan = ((IF failed THEN f ELSE <<>>) \o a) \o b
    BY <1>7 DEF SettledPlan
  <2>2. a \in Seq(Planned) /\ b \in Seq(Planned) /\ f \in Seq(Planned)
    BY DEF Planned, Publish, Events
  <2>3. Settled(t) \in Seq(Planned) /\ Rejected(t) \in Seq(Planned) /\ Settled(t) = a \o b /\ Rejected(t) = f \o (a \o b)
    BY PromisePlans DEF Begins, Settled, Rejected
  <2> HIDE DEF plan, c, c2, a, b, f
  <2>4. plan = IF failed THEN Rejected(t) ELSE Settled(t)
    <3>1. (f \o a) \o b = f \o (a \o b) /\ <<>> \o a = a
      BY <2>2, ConcatAssociative, ConcatEmptySeq
    <3> QED BY <2>1, <2>3, <3>1
  <2>5. Promised(c2) /\ c2.published = Base(c2)
    BY <1>1, <1>2, <1>3, <1>7 DEF Promised, Base
  <2>6. AtRejected(t, Rejected(t), c2, 0) /\ AtSettled(t, Settled(t), c2, 0)
    BY <2>5 DEF AtRejected, AtSettled, MayFail
  <2> QED BY <2>3, <2>4, <2>6 DEF At, Goes
<1> QED BY <1>2, <1>5, <1>6, <1>7

\* A trace begins.
BegunPlan(t) == IF hasSubscribers THEN RunStores(t, "start", Work("fn", t)) ELSE Work("fn", t)
LEMMA TraceMoves ==
    ASSUME NEW t \in Traces, trace[t] \in TraceFields, Rested(trace[t]), trace[t].mode = "none",
           NEW mode \in {"sync", "promise", "callback"}, hasSubscribers \in BOOLEAN
    PROVE  /\ BegunPlan(t) \in Seq(Planned)
           /\ Goes(t, BegunPlan(t), [trace[t] EXCEPT !.mode = mode, !.traced = hasSubscribers], 0)
<1> DEFINE c == trace[t]
           c2 == [c EXCEPT !.mode = mode, !.traced = hasSubscribers]
           plan == BegunPlan(t)
<1>1. /\ c2.mode = mode /\ c2.step = c.step /\ c2.traced = hasSubscribers /\ c2.fn = c.fn /\ c2.callback = c.callback
      /\ c2.published = c.published
  BY DEF TraceFields
<1>2. c.step = "none" /\ c.fn = 0 /\ c.callback = 0 /\ c.published = <<>>
  BY DEF Rested
<1>3. plan = IF hasSubscribers THEN Entering(t) ELSE Work("fn", t)
  BY StartIs DEF BegunPlan
<1>4. Entering(t) \in Seq(Planned) /\ Work("fn", t) \in Seq(Planned)
  BY SyncPlans DEF Begins
<1>5. SUFFICES plan \in Seq(Planned) /\ Goes(t, plan, c2, 0)
  OBVIOUS
<1> HIDE DEF plan, c, c2
<1>6. CASE hasSubscribers
  <2>1. AtEntering(t, Entering(t), c2, 0)
    BY <1>1, <1>2, <1>6 DEF AtEntering, Observed, NotRun, CallsOnce
  <2> QED BY <1>3, <1>4, <1>6, <2>1 DEF At, Goes
<1>7. CASE ~hasSubscribers
  <2>1. AtFunction(t, Work("fn", t), c2, 0)
    BY <1>1, <1>2, <1>7 DEF AtFunction, Unobserved, NotRun, CallsOnce
  <2> QED BY <1>3, <1>4, <1>7, <2>1 DEF At, Goes
<1> QED BY <1>6, <1>7

----------------
(* Steps *)

LEMMA SaidFacts ==
    ASSUME NEW p \in Seq(Hearing)
    PROVE  /\ Said(p) \in Seq(Message) /\ Len(Said(p)) = Len(p) /\ \A k \in 1 .. Len(p) : Said(p)[k] = <<p[k].of, p[k].event, p[k].who>>
<1>1. \A k \in 1 .. Len(p) : p[k] \in Hearing
  OBVIOUS
<1>2. \A k \in 1 .. Len(p) : <<p[k].of, p[k].event, p[k].who>> \in Message
  BY <1>1 DEF Hearing, Message
<1>3. DOMAIN p = 1 .. Len(p) /\ Len(p) \in Nat
  OBVIOUS
<1>4. Said(p) \in [1 .. Len(p) -> Message] /\ \A k \in 1 .. Len(p) : Said(p)[k] = <<p[k].of, p[k].event, p[k].who>>
  BY <1>2, <1>3 DEF Said
<1> HIDE DEF Message
<1> QED BY <1>3, <1>4, IsASeq

\* Where the plan of one trace runs, nobody is still to be told.
LEMMA NobodyOwed ==
    ASSUME DiagnosticsInv, running.todo = <<>> \/ Now.step # "listener"
    PROVE  running.todo \in Seq(Planned) /\ diary.owed = diary.seen /\ Underway(running.todo)
<1>1. PICK p \in Seq(Hearing), plan \in Seq(Planned) :
         running.todo = p \o plan /\ diary.owed = diary.seen \o Said(p) /\ Underway(plan)
  BY DEF DiagnosticsInv
<1>2. p \in Seq(Pending) /\ plan \in Seq(Pending)
  <2>1. Hearing \subseteq Pending /\ Planned \subseteq Pending
    BY DEF Pending
  <2> QED BY <2>1, SeqMonotonic
<1>3. p = <<>>
  <2> SUFFICES ASSUME p # <<>> PROVE FALSE
    OBVIOUS
  <2>1. running.todo # <<>> /\ Now = Head(p)
    BY <1>1, <1>2, HeadConcat DEF Now
  <2>2. Head(p) \in Hearing
    BY HeadTailProperties
  <2> QED BY <2>1, <2>2 DEF Hearing
<1>4. running.todo = plan
  BY <1>1, <1>3, ConcatEmptySeq
<1>5. Said(p) = <<>>
  BY <1>3 DEF Said
<1>6. diary.seen \in Seq(Message)
  BY DEF DiagnosticsInv, DiagnosticsTypeOK
<1>7. diary.owed = diary.seen
  BY <1>1, <1>5, <1>6, ConcatEmptySeq
<1> QED BY <1>1, <1>4, <1>7

LEMMA NobodyOwedNext ==
    ASSUME DiagnosticsTypeOK', running'.todo \in Seq(Planned), diary'.owed = diary'.seen, Underway(running.todo)'
    PROVE  DiagnosticsInv'
<1>1. <<>> \in Seq(Hearing) /\ running'.todo = <<>> \o running'.todo
  BY ConcatEmptySeq
<1>2. Said(<<>>) = <<>> /\ diary'.seen \in Seq(Message)
  BY DEF Said, DiagnosticsTypeOK
<1>3. diary'.owed = diary'.seen \o Said(<<>>)
  BY <1>2, ConcatEmptySeq
<1> DEFINE plan == running'.todo
<1>4. plan \in Seq(Planned) /\ running'.todo = <<>> \o plan /\ Underway(running.todo)'
  BY <1>1
<1>5. \E p \in Seq(Hearing), q \in Seq(Planned) : running'.todo = p \o q /\ diary'.owed = diary'.seen \o Said(p) /\ Underway(q)'
  BY <1>1, <1>3, <1>4
<1> QED BY <1>5 DEF DiagnosticsInv

\* One trace runs; its next step is the head of `todo'.
LEMMA TraceRuns ==
    ASSUME DiagnosticsInv, running.todo # <<>>, Now.step # "listener"
    PROVE  \E t \in Traces : /\ Now.of = t /\ At(t, running.todo, trace[t], Len(running.contexts))
                             /\ \A u \in Traces \ {t} : Rested(trace[u])
<1>1. Underway(running.todo)
  BY NobodyOwed
<1>2. PICK t \in Traces : At(t, running.todo, trace[t], Len(running.contexts)) /\ \A u \in Traces \ {t} : Rested(trace[u])
  BY <1>1 DEF Underway
<1>3. Now.of = t
  BY <1>2, AtBegins DEF Now
<1> QED BY <1>2, <1>3

LEMMA TraceGoesOn ==
    ASSUME trace \in [Traces -> TraceFields], NEW t \in Traces, NEW c, trace' = [trace EXCEPT ![t] = c],
           \A u \in Traces \ {t} : Rested(trace[u]), running'.contexts \in Seq(SUBSET Stores),
           Goes(t, running'.todo, c, Len(running'.contexts))
    PROVE  Underway(running.todo)'
<1>1. trace'[t] = c /\ \A u \in Traces \ {t} : trace'[u] = trace[u]
  OBVIOUS
<1>2. CASE At(t, running'.todo, c, Len(running'.contexts))
  BY <1>1, <1>2 DEF Underway
<1>3. CASE running'.todo = <<>> /\ Len(running'.contexts) = 0 /\ Rested(c)
  <2>1. running'.contexts = <<>>
    BY <1>3
  <2>2. \A u \in Traces : Rested(trace'[u])
    BY <1>1, <1>3
  <2> QED BY <1>3, <2>1, <2>2 DEF Underway
<1> QED BY <1>2, <1>3 DEF Goes

\* A subscriber has heard: what was told and what is still to be told is what it was.
LEMMA ListenerStep ==
    ASSUME DiagnosticsInv, running.todo # <<>>, Now.step = "listener", DiagnosticsTypeOK',
           running' = [running EXCEPT !.todo = Rest], UNCHANGED trace,
           diary'.owed = diary.owed, diary'.seen = Append(diary.seen, <<Now.of, Now.event, Now.who>>)
    PROVE  DiagnosticsInv'
<1>1. PICK p \in Seq(Hearing), plan \in Seq(Planned) :
         running.todo = p \o plan /\ diary.owed = diary.seen \o Said(p) /\ Underway(plan)
  BY DEF DiagnosticsInv
<1>2. p \in Seq(Pending) /\ plan \in Seq(Pending)
  <2>1. Hearing \subseteq Pending /\ Planned \subseteq Pending
    BY DEF Pending
  <2> QED BY <2>1, SeqMonotonic
<1>3. p # <<>>
  <2> SUFFICES ASSUME p = <<>> PROVE FALSE
    OBVIOUS
  <2>1. running.todo = plan
    BY <1>1, ConcatEmptySeq
  <2>2. Head(plan) \in Planned
    BY <2>1, HeadTailProperties
  <2> QED BY <2>1, <2>2 DEF Planned, Now
<1>4. Head(p) \in Hearing /\ Tail(p) \in Seq(Hearing)
  BY <1>3, HeadTailProperties
<1>5. Now = Head(p) /\ Rest = Tail(p) \o plan
  BY <1>1, <1>2, <1>3, HeadConcat DEF Now, Rest
<1>6. running'.todo = Tail(p) \o plan /\ running'.contexts = running.contexts
  BY <1>5 DEF DiagnosticsInv, DiagnosticsTypeOK
<1>7. diary'.owed = diary'.seen \o Said(Tail(p))
  <2> DEFINE m == <<Head(p).of, Head(p).event, Head(p).who>>
  <2>1. Said(p) \in Seq(Message) /\ Said(Tail(p)) \in Seq(Message) /\ m \in Message /\ diary.seen \in Seq(Message)
    BY <1>4, SaidFacts DEF DiagnosticsInv, DiagnosticsTypeOK, Hearing, Message
  <2>2. Said(p) = <<m>> \o Said(Tail(p))
    <3>1. Len(Said(p)) = Len(p) /\ \A k \in 1 .. Len(p) : Said(p)[k] = <<p[k].of, p[k].event, p[k].who>>
      BY SaidFacts
    <3>2. /\ Len(Said(Tail(p))) = Len(Tail(p))
          /\ \A k \in 1 .. Len(Tail(p)) : Said(Tail(p))[k] = <<Tail(p)[k].of, Tail(p)[k].event, Tail(p)[k].who>>
      BY <1>4, SaidFacts
    <3>3. Len(p) \in Nat /\ Len(p) >= 1 /\ Len(Tail(p)) = Len(p) - 1 /\ p[1] = Head(p) /\ \A k \in 1 .. Len(p) - 1 : Tail(p)[k] = p[k + 1]
      BY <1>3
    <3>4. Said(p)[1] = m
      BY <3>1, <3>3
    <3>5. Len(Said(p)) = 1 + Len(Said(Tail(p))) /\ \A k \in 1 .. Len(Said(Tail(p))) : Said(Tail(p))[k] = Said(p)[k + 1]
      <4> HIDE DEF Said
      <4>1. Len(Said(p)) = 1 + Len(Said(Tail(p)))
        BY <3>1, <3>2, <3>3
      <4>2. ASSUME NEW k \in 1 .. Len(Said(Tail(p))) PROVE Said(Tail(p))[k] = Said(p)[k + 1]
        <5>1. k \in 1 .. Len(Tail(p)) /\ k \in 1 .. Len(p) - 1 /\ k + 1 \in 1 .. Len(p)
          BY <3>2, <3>3
        <5>2. Tail(p)[k] = p[k + 1] /\ Said(p)[k + 1] = <<p[k + 1].of, p[k + 1].event, p[k + 1].who>>
          BY <3>1, <3>3, <5>1
        <5>3. Said(Tail(p))[k] = <<Tail(p)[k].of, Tail(p)[k].event, Tail(p)[k].who>>
          BY <3>2, <5>1
        <5> QED BY <5>2, <5>3
      <4> QED BY <4>1, <4>2
    <3>6. Said(p) # <<>> /\ Head(Said(p)) = m
      BY <2>1, <3>1, <3>3, <3>4
    <3>7. Tail(Said(p)) \in Seq(Message) /\ Len(Tail(Said(p))) = Len(Said(Tail(p)))
          /\ \A k \in 1 .. Len(Said(Tail(p))) : Tail(Said(p))[k] = Said(p)[k + 1]
      <4> HIDE DEF m, Said, Message
      <4> QED BY <2>1, <3>5, <3>6, HeadTailProperties
    <3>8. Tail(Said(p)) = Said(Tail(p))
      <4> HIDE DEF m, Said, Message
      <4>1. \A k \in 1 .. Len(Said(Tail(p))) : Tail(Said(p))[k] = Said(Tail(p))[k]
        BY <3>5, <3>7
      <4> QED BY <2>1, <3>7, <4>1, SeqEqual
    <3> HIDE DEF m
    <3>9. Said(p) = <<Head(Said(p))>> \o Tail(Said(p))
      BY <2>1, <3>6, ConsOf
    <3> QED BY <3>6, <3>8, <3>9
  <2>3. diary'.seen = Append(diary.seen, m)
    BY <1>5
  <2> HIDE DEF m
  <2>4. Append(diary.seen, m) \o Said(Tail(p)) = diary.seen \o (<<m>> \o Said(Tail(p)))
    <3> DEFINE y == Said(Tail(p))
               x == diary.seen
    <3> HIDE DEF x, y
    <3>1. x \in Seq(Message) /\ y \in Seq(Message) /\ m \in Message
      BY <2>1 DEF x, y
    <3>2. Append(x, m) \o y = x \o (<<m>> \o y)
      BY <3>1, AppendFirst
    <3> QED BY <3>2, Zenon DEF x, y
  <2> QED BY <1>1, <2>2, <2>3, <2>4, Zenon
<1>8. Underway(plan)'
  <2>1. CASE plan = <<>> /\ running.contexts = <<>> /\ \A t \in Traces : Rested(trace[t])
    BY <1>6, <2>1 DEF Underway
  <2>2. CASE \E t \in Traces : At(t, plan, trace[t], Len(running.contexts)) /\ \A u \in Traces \ {t} : Rested(trace[u])
    BY <1>6, <2>2 DEF Underway
  <2> QED BY <1>1, <2>1, <2>2 DEF Underway
<1> QED BY <1>4, <1>6, <1>7, <1>8 DEF DiagnosticsInv

\* Whatever a subscriber does besides returning.
LEMMA ListenerKeeps ==
    ASSUME DiagnosticsInv,
           \/ ListenerReturns \/ ListenerThrows \/ (\E l \in Listeners : ListenerSubscribes(l) \/ ListenerUnsubscribes(l))
           \/ (\E s \in Stores : ListenerBinds(s))
    PROVE  DiagnosticsInv'
<1>1. /\ running.todo # <<>> /\ Now.step = "listener" /\ running' = [running EXCEPT !.todo = Rest] /\ UNCHANGED trace
      /\ \/ diary' = Saw \/ diary' = [Saw EXCEPT !.acts = @ + 1]
         \/ diary' = [[Saw EXCEPT !.uncaught = @ + 1] EXCEPT !.acts = @ + 1]
  BY DEF ListenerReturns, ListenerThrows, ListenerSubscribes, ListenerUnsubscribes, ListenerBinds, Do, AfterThrow, Acts
<1>2. DiagnosticsTypeOK
  BY DEF DiagnosticsInv
<1>3. Now \in Pending /\ Rest \in Seq(Pending)
  BY <1>1, <1>2, HeadTailProperties DEF DiagnosticsTypeOK, Now, Rest
<1>4. Now \in Hearing
  BY <1>1, <1>3 DEF Pending, Planned
<1>5. <<Now.of, Now.event, Now.who>> \in Message /\ Now.event \in Events
  BY <1>4 DEF Hearing, Message
<1>6. /\ diary'.owed = diary.owed /\ diary'.seen = Append(diary.seen, <<Now.of, Now.event, Now.who>>)
      /\ diary' \in [owed : Seq(Message), seen : Seq(Message), uncaught : Nat, acts : Nat]
  <2> DEFINE m == <<Now.of, Now.event, Now.who>>
             n == Append(diary.seen, m)
  <2>1. diary \in [owed : Seq(Message), seen : Seq(Message), uncaught : Nat, acts : Nat]
    BY <1>2 DEF DiagnosticsTypeOK
  <2>2. n \in Seq(Message) /\ diary.uncaught + 1 \in Nat /\ diary.acts + 1 \in Nat
    BY <1>5, <2>1, AppendProperties
  <2>3. Saw = [diary EXCEPT !.seen = n]
    BY DEF Saw
  <2> HIDE DEF n, Message
  <2>4. \/ diary' = [diary EXCEPT !.seen = n] \/ diary' = [diary EXCEPT !.seen = n, !.acts = diary.acts + 1]
        \/ diary' = [diary EXCEPT !.seen = n, !.uncaught = diary.uncaught + 1, !.acts = diary.acts + 1]
    BY <1>1, <2>1, <2>3
  <2>5. diary'.owed = diary.owed /\ diary'.seen = n
    BY <2>1, <2>4
  <2>6. diary' \in [owed : Seq(Message), seen : Seq(Message), uncaught : Nat, acts : Nat]
    BY <2>1, <2>2, <2>4
  <2> QED BY <2>5, <2>6 DEF n
<1>7. channels' \in [subs : [Events -> Seq(Listeners)], stores : [Events -> SUBSET Stores]]
  <2>1. channels \in [subs : [Events -> Seq(Listeners)], stores : [Events -> SUBSET Stores]]
    BY <1>2 DEF DiagnosticsTypeOK
  <2>2. CASE ListenerReturns \/ ListenerThrows
    BY <2>1, <2>2 DEF ListenerReturns, ListenerThrows
  <2>3. ASSUME NEW l \in Listeners, ListenerSubscribes(l)
        PROVE  channels' \in [subs : [Events -> Seq(Listeners)], stores : [Events -> SUBSET Stores]]
    <3> DEFINE x == [channels.subs EXCEPT ![Now.event] = Append(@, l)]
    <3>1. channels' = [channels EXCEPT !.subs = x]
      BY <2>3 DEF ListenerSubscribes
    <3>2. Append(channels.subs[Now.event], l) \in Seq(Listeners)
      BY <1>5, <2>1, AppendProperties
    <3>3. x \in [Events -> Seq(Listeners)]
      BY <2>1, <3>2
    <3> HIDE DEF x
    <3> QED BY <2>1, <3>1, <3>3
  <2>4. ASSUME NEW l \in Listeners, ListenerUnsubscribes(l)
        PROVE  channels' \in [subs : [Events -> Seq(Listeners)], stores : [Events -> SUBSET Stores]]
    <3> DEFINE x == [e \in Events |-> UnsubscribedFrom(channels.subs[e], l)]
    <3>1. channels' = [channels EXCEPT !.subs = x]
      BY <2>4 DEF ListenerUnsubscribes
    <3>2. \A e \in Events : channels.subs[e] \in Seq(Listeners)
      BY <2>1
    <3>3. \A e \in Events : UnsubscribedFrom(channels.subs[e], l) \in Seq(Listeners)
      BY <3>2, RemoveFirstType DEF UnsubscribedFrom
    <3>4. x \in [Events -> Seq(Listeners)]
      BY <3>3
    <3> HIDE DEF x
    <3> QED BY <2>1, <3>1, <3>4
  <2>5. ASSUME NEW s \in Stores, ListenerBinds(s)
        PROVE  channels' \in [subs : [Events -> Seq(Listeners)], stores : [Events -> SUBSET Stores]]
    <3> DEFINE v == IF s \in channels.stores[Now.event] THEN channels.stores[Now.event] \ {s} ELSE channels.stores[Now.event] \cup {s}
               x == [channels.stores EXCEPT ![Now.event] = v]
    <3>1. channels' = [channels EXCEPT !.stores = x]
      BY <2>5 DEF ListenerBinds
    <3>2. channels.stores[Now.event] \in SUBSET Stores
      BY <1>5, <2>1
    <3>3. v \in SUBSET Stores
      BY <3>2
    <3> HIDE DEF v
    <3>4. x \in [Events -> SUBSET Stores]
      BY <2>1, <3>3
    <3> HIDE DEF x
    <3> QED BY <2>1, <3>1, <3>4
  <2> QED BY <2>2, <2>3, <2>4, <2>5
<1>8. DiagnosticsTypeOK'
  <2>1. running' \in [todo : Seq(Pending), contexts : Seq(SUBSET Stores)]
    BY <1>1, <1>2, <1>3 DEF DiagnosticsTypeOK
  <2>2. trace' \in [Traces -> TraceFields]
    BY <1>1, <1>2 DEF DiagnosticsTypeOK
  <2> QED BY <1>6, <1>7, <2>1, <2>2 DEF DiagnosticsTypeOK
<1> QED BY <1>1, <1>6, <1>8, ListenerStep

\* Types and places of the steps of a trace.
LEMMA TraceStepKeeps ==
    ASSUME DiagnosticsInv, NEW t \in Traces, NEW c \in TraceFields, trace' = [trace EXCEPT ![t] = c],
           \A u \in Traces \ {t} : Rested(trace[u]), UNCHANGED channels,
           running' \in [todo : Seq(Planned), contexts : Seq(SUBSET Stores)],
           diary' \in [owed : Seq(Message), seen : Seq(Message), uncaught : Nat, acts : Nat], diary'.owed = diary'.seen,
           Goes(t, running'.todo, c, Len(running'.contexts))
    PROVE  DiagnosticsInv'
<1>1. DiagnosticsTypeOK
  BY DEF DiagnosticsInv
<1>2. trace' \in [Traces -> TraceFields]
  BY <1>1 DEF DiagnosticsTypeOK
<1>3. running' \in [todo : Seq(Pending), contexts : Seq(SUBSET Stores)] /\ running'.todo \in Seq(Planned)
  <2>1. Planned \subseteq Pending
    BY DEF Pending
  <2>2. Seq(Planned) \subseteq Seq(Pending)
    BY <2>1, SeqMonotonic
  <2> QED BY <2>2
<1>4. DiagnosticsTypeOK'
  BY <1>1, <1>2, <1>3 DEF DiagnosticsTypeOK
<1>5. Underway(running.todo)'
  BY <1>1, <1>3, TraceGoesOn DEF DiagnosticsTypeOK
<1> QED BY <1>3, <1>4, <1>5, NobodyOwedNext

\* Publishing takes the subscribers of the moment.
LEMMA PublishKeeps ==
    ASSUME DiagnosticsInv, PublishBegins
    PROVE  DiagnosticsInv'
<1>1. DiagnosticsTypeOK /\ running.todo # <<>> /\ Now.step = "publish"
  BY DEF DiagnosticsInv, PublishBegins
<1>2. PICK t \in Traces : /\ Now.of = t /\ At(t, running.todo, trace[t], Len(running.contexts))
                          /\ \A u \in Traces \ {t} : Rested(trace[u])
  BY <1>1, TraceRuns
<1>3. running.todo \in Seq(Planned) /\ diary.owed = diary.seen
  BY <1>1, NobodyOwed
<1>4. trace[t] \in TraceFields /\ Len(running.contexts) \in Nat
  BY <1>1 DEF DiagnosticsTypeOK
<1> DEFINE e == Now.event
           c == [trace[t] EXCEPT !.published = Append(@, e)]
           s == channels.subs[e]
           p == [i \in DOMAIN s |-> [step |-> "listener", of |-> t, event |-> e, who |-> s[i]]]
           m == [i \in DOMAIN s |-> <<t, e, s[i]>>]
<1>5. e \in Events /\ Goes(t, Rest, c, Len(running.contexts))
  BY <1>1, <1>2, <1>4, PublishMoves DEF Now, Rest
<1>6. PICK plan \in Seq(Planned) : plan = Rest
  BY <1>1, <1>3, HeadTailProperties DEF Rest
<1>7. s \in Seq(Listeners) /\ DOMAIN s = 1 .. Len(s) /\ Len(s) \in Nat
  BY <1>1, <1>5 DEF DiagnosticsTypeOK
<1>8. p \in Seq(Hearing) /\ Said(p) = m
  <2>1. \A i \in DOMAIN s : s[i] \in Listeners
    BY <1>7
  <2>2. \A i \in DOMAIN s : [step |-> "listener", of |-> t, event |-> e, who |-> s[i]] \in Hearing
    BY <1>5, <2>1 DEF Hearing
  <2> HIDE DEF s, e
  <2>3. p \in [1 .. Len(s) -> Hearing] /\ DOMAIN p = DOMAIN s
    BY <1>7, <2>2
  <2>4. p \in Seq(Hearing)
    BY <1>7, <2>3, IsASeq
  <2>5. \A i \in DOMAIN s : <<p[i].of, p[i].event, p[i].who>> = <<t, e, s[i]>>
    OBVIOUS
  <2>6. Said(p) = m
    BY <2>3, <2>5 DEF Said
  <2> QED BY <2>4, <2>6
<1>9. /\ trace' = [trace EXCEPT ![t] = c] /\ UNCHANGED channels
      /\ running' = [running EXCEPT !.todo = p \o plan] /\ diary' = [diary EXCEPT !.owed = @ \o m]
  BY <1>1, <1>2, <1>4, <1>6 DEF PublishBegins, Do, DiagnosticsTypeOK
<1>a. Append(trace[t].published, e) \in Seq(Events)
  BY <1>4, <1>5, AppendProperties DEF TraceFields
<1>10. c \in TraceFields
  <2> HIDE DEF e
  <2> QED BY <1>4, <1>a DEF TraceFields
<1> HIDE DEF c, p, m, s, e
<1>11. running'.todo = p \o plan /\ running'.contexts = running.contexts /\ diary'.seen = diary.seen /\ diary'.owed = diary.seen \o Said(p)
  BY <1>1, <1>3, <1>8, <1>9 DEF DiagnosticsTypeOK
<1>12. DiagnosticsTypeOK'
  <2>1. trace' \in [Traces -> TraceFields]
    BY <1>1, <1>9, <1>10 DEF DiagnosticsTypeOK
  <2>2. p \in Seq(Pending) /\ plan \in Seq(Pending)
    <3>1. Hearing \subseteq Pending /\ Planned \subseteq Pending
      BY DEF Pending
    <3> QED BY <1>8, <3>1, SeqMonotonic
  <2>3. p \o plan \in Seq(Pending)
    BY <2>2, ConcatProperties
  <2>4. running' \in [todo : Seq(Pending), contexts : Seq(SUBSET Stores)]
    BY <1>1, <1>9, <2>3 DEF DiagnosticsTypeOK
  <2>5. Said(p) \in Seq(Message) /\ diary.owed \in Seq(Message)
    BY <1>1, <1>8, SaidFacts DEF DiagnosticsTypeOK
  <2>6. diary.owed \o m \in Seq(Message)
    BY <1>8, <2>5, ConcatProperties
  <2>7. diary' \in [owed : Seq(Message), seen : Seq(Message), uncaught : Nat, acts : Nat]
    BY <1>1, <1>9, <2>6 DEF DiagnosticsTypeOK
  <2> QED BY <1>1, <1>9, <2>1, <2>4, <2>7 DEF DiagnosticsTypeOK
<1>13. Underway(plan)'
  <2>1. trace'[t] = c /\ \A u \in Traces \ {t} : trace'[u] = trace[u]
    BY <1>1, <1>9 DEF DiagnosticsTypeOK
  <2>2. CASE At(t, plan, c, Len(running.contexts))
    BY <1>2, <1>11, <2>1, <2>2 DEF Underway
  <2>3. CASE plan = <<>> /\ Len(running.contexts) = 0 /\ Rested(c)
    <3>1. running'.contexts = <<>>
      BY <1>1, <1>11, <2>3 DEF DiagnosticsTypeOK
    <3>2. \A u \in Traces : Rested(trace'[u])
      BY <1>2, <2>1, <2>3
    <3> QED BY <2>3, <3>1, <3>2 DEF Underway
  <2> QED BY <1>5, <1>6, <2>2, <2>3 DEF Goes
<1> QED BY <1>8, <1>11, <1>12, <1>13 DEF DiagnosticsInv

\* Where the step of a trace begins.
LEMMA TraceStepFrom ==
    ASSUME DiagnosticsInv, running.todo # <<>>, Now.step # "listener"
    PROVE  \E t \in Traces :
              /\ Now.of = t /\ trace[t] \in TraceFields /\ At(t, running.todo, trace[t], Len(running.contexts))
              /\ \A u \in Traces \ {t} : Rested(trace[u])
              /\ running.todo \in Seq(Planned) /\ Rest \in Seq(Planned) /\ running.contexts \in Seq(SUBSET Stores)
              /\ Len(running.contexts) \in Nat /\ diary.owed = diary.seen
              /\ diary \in [owed : Seq(Message), seen : Seq(Message), uncaught : Nat, acts : Nat]
              /\ running \in [todo : Seq(Planned), contexts : Seq(SUBSET Stores)] /\ trace \in [Traces -> TraceFields]
<1>1. PICK t \in Traces : /\ Now.of = t /\ At(t, running.todo, trace[t], Len(running.contexts))
                          /\ \A u \in Traces \ {t} : Rested(trace[u])
  BY TraceRuns
<1>2. running.todo \in Seq(Planned) /\ diary.owed = diary.seen
  BY NobodyOwed
<1>3. Rest \in Seq(Planned)
  BY <1>2, HeadTailProperties DEF Rest
<1>4. /\ trace \in [Traces -> TraceFields] /\ running \in [todo : Seq(Pending), contexts : Seq(SUBSET Stores)]
      /\ diary \in [owed : Seq(Message), seen : Seq(Message), uncaught : Nat, acts : Nat]
  BY DEF DiagnosticsInv, DiagnosticsTypeOK
<1>5. running \in [todo : Seq(Planned), contexts : Seq(SUBSET Stores)]
  BY <1>2, <1>4
<1> QED BY <1>1, <1>2, <1>3, <1>4, <1>5

LEMMA GoesPlans ==
    ASSUME NEW t \in Traces, NEW plan, NEW c, NEW d, Goes(t, plan, c, d)
    PROVE  plan \in Seq(Planned)
<1>1. CASE At(t, plan, c, d)
  BY <1>1, AtBegins
<1>2. CASE plan = <<>>
  BY <1>2
<1> QED BY <1>1, <1>2 DEF Goes

LEMMA FrontType ==
    ASSUME NEW S, NEW s \in Seq(S), Len(s) >= 1
    PROVE  Front(s) \in Seq(S) /\ Len(Front(s)) = Len(s) - 1
<1>1. PICK n \in Int : n = Len(s) - 1 /\ n >= 0
  OBVIOUS
<1>2. \A i \in 1 .. n : s[i] \in S
  BY <1>1
<1>3. SubSeq(s, 1, n) \in Seq(S) /\ Len(SubSeq(s, 1, n)) = IF 1 <= n THEN n - 1 + 1 ELSE 0
  BY <1>2, SubSeqProperties
<1>4. Front(s) = SubSeq(s, 1, n)
  BY <1>1 DEF Front
<1> QED BY <1>1, <1>3, <1>4

LEMMA EnterStoresKeeps ==
    ASSUME DiagnosticsInv, EnterStores
    PROVE  DiagnosticsInv'
<1>0. running.todo # <<>> /\ Now.step = "stores"
  BY DEF EnterStores
<1>1. PICK t \in Traces :
              /\ Now.of = t /\ trace[t] \in TraceFields /\ At(t, running.todo, trace[t], Len(running.contexts))
              /\ \A u \in Traces \ {t} : Rested(trace[u])
              /\ running.todo \in Seq(Planned) /\ Rest \in Seq(Planned) /\ running.contexts \in Seq(SUBSET Stores)
              /\ Len(running.contexts) \in Nat /\ diary.owed = diary.seen
              /\ diary \in [owed : Seq(Message), seen : Seq(Message), uncaught : Nat, acts : Nat]
              /\ running \in [todo : Seq(Planned), contexts : Seq(SUBSET Stores)] /\ trace \in [Traces -> TraceFields]
  BY <1>0, TraceStepFrom
<1>2. Now.event \in Events /\ Goes(t, Rest, trace[t], Len(running.contexts) + 1)
  BY <1>0, <1>1, StoresMoves DEF Now, Rest
<1>3. channels.stores[Now.event] \in SUBSET Stores
  BY <1>2 DEF DiagnosticsInv, DiagnosticsTypeOK
<1>4. PICK failing \in SUBSET channels.stores[Now.event] :
          /\ running' = [running EXCEPT !.todo = Rest, !.contexts = Append(running.contexts, channels.stores[Now.event] \ failing)]
          /\ diary' = [diary EXCEPT !.uncaught = diary.uncaught + Cardinality(failing)]
  BY Zenon DEF EnterStores, AfterTransforms
<1> DEFINE ctx == Append(running.contexts, channels.stores[Now.event] \ failing)
<1>5. ctx \in Seq(SUBSET Stores) /\ Len(ctx) = Len(running.contexts) + 1
  <2>1. channels.stores[Now.event] \ failing \in SUBSET Stores
    BY <1>3
  <2> QED BY <1>1, <2>1, AppendProperties
<1>6. Cardinality(failing) \in Nat
  <2>1. failing \subseteq Stores
    BY <1>3, <1>4
  <2> QED BY <2>1, ObserversAssumption, FS_Subset, FS_CardinalityType
<1>7. diary.uncaught + Cardinality(failing) \in Nat
  BY <1>1, <1>6
<1>8. diary' \in [owed : Seq(Message), seen : Seq(Message), uncaught : Nat, acts : Nat] /\ diary'.owed = diary'.seen
  BY <1>1, <1>4, <1>7
<1> HIDE DEF ctx
<1>9. running' = [running EXCEPT !.todo = Rest, !.contexts = ctx]
  BY <1>4 DEF ctx
<1>10. running' \in [todo : Seq(Planned), contexts : Seq(SUBSET Stores)] /\ running'.todo = Rest /\ running'.contexts = ctx
  BY <1>1, <1>5, <1>9
<1>11. trace' = [trace EXCEPT ![t] = trace[t]] /\ UNCHANGED channels
  BY <1>1 DEF EnterStores
<1>12. Goes(t, running'.todo, trace[t], Len(running'.contexts))
  BY <1>2, <1>5, <1>10
<1> QED BY <1>1, <1>8, <1>10, <1>11, <1>12, TraceStepKeeps

LEMMA LeaveStoresKeeps ==
    ASSUME DiagnosticsInv, LeaveStores
    PROVE  DiagnosticsInv'
<1>0. running.todo # <<>> /\ Now.step = "leave" /\ running' = [running EXCEPT !.todo = Rest, !.contexts = Front(running.contexts)]
      /\ UNCHANGED <<channels, trace, diary>>
  BY DEF LeaveStores
<1>1. PICK t \in Traces :
              /\ Now.of = t /\ trace[t] \in TraceFields /\ At(t, running.todo, trace[t], Len(running.contexts))
              /\ \A u \in Traces \ {t} : Rested(trace[u])
              /\ running.todo \in Seq(Planned) /\ Rest \in Seq(Planned) /\ running.contexts \in Seq(SUBSET Stores)
              /\ Len(running.contexts) \in Nat /\ diary.owed = diary.seen
              /\ diary \in [owed : Seq(Message), seen : Seq(Message), uncaught : Nat, acts : Nat]
              /\ running \in [todo : Seq(Planned), contexts : Seq(SUBSET Stores)] /\ trace \in [Traces -> TraceFields]
  BY <1>0, TraceStepFrom
<1>2. Len(running.contexts) >= 1 /\ Goes(t, Rest, trace[t], Len(running.contexts) - 1)
  BY <1>0, <1>1, LeaveMoves DEF Now, Rest
<1> DEFINE ctx == Front(running.contexts)
<1>3. ctx \in Seq(SUBSET Stores) /\ Len(ctx) = Len(running.contexts) - 1
  BY <1>1, <1>2, FrontType
<1> HIDE DEF ctx
<1>4. running' = [running EXCEPT !.todo = Rest, !.contexts = ctx]
  BY <1>0 DEF ctx
<1>5. running' \in [todo : Seq(Planned), contexts : Seq(SUBSET Stores)] /\ running'.todo = Rest /\ running'.contexts = ctx
  BY <1>1, <1>3, <1>4
<1>6. trace' = [trace EXCEPT ![t] = trace[t]] /\ UNCHANGED channels
  BY <1>0, <1>1
<1>7. diary' \in [owed : Seq(Message), seen : Seq(Message), uncaught : Nat, acts : Nat] /\ diary'.owed = diary'.seen
  BY <1>0, <1>1
<1>8. Goes(t, running'.todo, trace[t], Len(running'.contexts))
  BY <1>2, <1>3, <1>5
<1> QED BY <1>1, <1>5, <1>6, <1>7, <1>8, TraceStepKeeps

LEMMA CallbackKeeps ==
    ASSUME DiagnosticsInv, Callback
    PROVE  DiagnosticsInv'
<1>0. running.todo # <<>> /\ Now.step = "callback" /\ running' = [running EXCEPT !.todo = Rest] /\ UNCHANGED <<channels, diary>>
  BY DEF Callback, Do
<1>1. PICK t \in Traces :
              /\ Now.of = t /\ trace[t] \in TraceFields /\ At(t, running.todo, trace[t], Len(running.contexts))
              /\ \A u \in Traces \ {t} : Rested(trace[u])
              /\ running.todo \in Seq(Planned) /\ Rest \in Seq(Planned) /\ running.contexts \in Seq(SUBSET Stores)
              /\ Len(running.contexts) \in Nat /\ diary.owed = diary.seen
              /\ diary \in [owed : Seq(Message), seen : Seq(Message), uncaught : Nat, acts : Nat]
              /\ running \in [todo : Seq(Planned), contexts : Seq(SUBSET Stores)] /\ trace \in [Traces -> TraceFields]
  BY <1>0, TraceStepFrom
<1> DEFINE c == [trace[t] EXCEPT !.callback = @ + 1]
<1>2. Goes(t, Rest, c, Len(running.contexts))
  BY <1>0, <1>1, CallbackMoves DEF Now, Rest
<1>3. c \in TraceFields
  <2>1. trace[t].callback + 1 \in Nat
    BY <1>1 DEF TraceFields
  <2> QED BY <1>1, <2>1, Zenon DEF TraceFields
<1>4. trace' = [trace EXCEPT ![t] = c] /\ UNCHANGED channels
  BY <1>1 DEF Callback
<1> HIDE DEF c
<1>5. running' \in [todo : Seq(Planned), contexts : Seq(SUBSET Stores)] /\ running'.todo = Rest /\ running'.contexts = running.contexts
  BY <1>0, <1>1
<1>6. diary' \in [owed : Seq(Message), seen : Seq(Message), uncaught : Nat, acts : Nat] /\ diary'.owed = diary'.seen
  BY <1>0, <1>1
<1>7. Goes(t, running'.todo, c, Len(running'.contexts))
  BY <1>2, <1>5
<1> QED BY <1>1, <1>3, <1>4, <1>5, <1>6, <1>7, TraceStepKeeps

LEMMA LastType ==
    ASSUME NEW S, NEW s \in Seq(S), s # <<>>
    PROVE  Last(s) \in S
<1>1. Len(s) \in 1 .. Len(s)
  OBVIOUS
<1> QED BY <1>1 DEF Last

\* The function returns or throws.
LEMMA FunctionKeeps ==
    ASSUME DiagnosticsInv, NEW after, NEW threw \in BOOLEAN, Fn(after, threw),
           after = IF threw \/ trace[Now.of].mode = "sync" THEN "over" ELSE "waiting"
    PROVE  DiagnosticsInv'
<1>0. /\ running.todo # <<>> /\ Now.step = "fn" /\ UNCHANGED <<channels, diary>>
      /\ running' = [running EXCEPT !.todo = Finally(Now.of, threw) \o Rest]
      /\ trace' = [trace EXCEPT ![Now.of] = [RanOnce(Now.of) EXCEPT !.step = after, !.threw = threw]]
  BY DEF Fn, Do
<1>1. PICK t \in Traces :
              /\ Now.of = t /\ trace[t] \in TraceFields /\ At(t, running.todo, trace[t], Len(running.contexts))
              /\ \A u \in Traces \ {t} : Rested(trace[u])
              /\ running.todo \in Seq(Planned) /\ Rest \in Seq(Planned) /\ running.contexts \in Seq(SUBSET Stores)
              /\ Len(running.contexts) \in Nat /\ diary.owed = diary.seen
              /\ diary \in [owed : Seq(Message), seen : Seq(Message), uncaught : Nat, acts : Nat]
              /\ running \in [todo : Seq(Planned), contexts : Seq(SUBSET Stores)] /\ trace \in [Traces -> TraceFields]
  BY <1>0, TraceStepFrom
<1> DEFINE inside == IF running.contexts = <<>> THEN {} ELSE Last(running.contexts)
           c == [trace[t] EXCEPT !.fn = @ + 1, !.inside = inside, !.step = after, !.threw = threw]
<1>2. inside \in SUBSET Stores
  <2>1. running.contexts # <<>> => Last(running.contexts) \in SUBSET Stores
    BY <1>1, LastType
  <2> QED BY <2>1
<1> HIDE DEF inside
<1>3. [RanOnce(t) EXCEPT !.step = after, !.threw = threw] = c
  <2>1. RanOnce(t) = [trace[t] EXCEPT !.fn = @ + 1, !.inside = inside]
    BY Zenon DEF RanOnce, inside
  <2> QED BY <1>1, <2>1 DEF TraceFields
<1>4. after \in {"over", "waiting"} /\ trace[t].fn + 1 \in Nat
  BY <1>1 DEF TraceFields
<1>5. c \in TraceFields
  BY <1>1, <1>2, <1>4 DEF TraceFields
<1>6. /\ c.mode = trace[t].mode /\ c.traced = trace[t].traced /\ c.published = trace[t].published
      /\ c.callback = trace[t].callback /\ c.fn = trace[t].fn + 1
      /\ c.step = IF threw \/ trace[t].mode = "sync" THEN "over" ELSE "waiting"
  BY <1>1 DEF TraceFields
<1> HIDE DEF c
<1> DEFINE plan == Finally(t, threw) \o Rest
<1>7. Goes(t, plan, c, Len(running.contexts))
  <2>1. Head(running.todo).step = "fn"
    BY <1>0 DEF Now
  <2>2. Goes(t, (IF trace[t].traced THEN Ends(t, threw) ELSE <<>>) \o Tail(running.todo), c, Len(running.contexts))
    BY <1>1, <1>5, <1>6, <2>1, FunctionMoves
  <2> QED BY <2>2, Zenon DEF Finally, Rest
<1> HIDE DEF plan
<1>8. plan \in Seq(Planned)
  BY <1>7, GoesPlans
<1>9. trace' = [trace EXCEPT ![t] = c] /\ UNCHANGED channels
  BY <1>0, <1>1, <1>3
<1>a. running' = [running EXCEPT !.todo = plan]
  BY <1>0, <1>1 DEF plan
<1>10. running' \in [todo : Seq(Planned), contexts : Seq(SUBSET Stores)] /\ running'.todo = plan /\ running'.contexts = running.contexts
  BY <1>a, <1>1, <1>8
<1>11. diary' \in [owed : Seq(Message), seen : Seq(Message), uncaught : Nat, acts : Nat] /\ diary'.owed = diary'.seen
  BY <1>0, <1>1
<1>12. Goes(t, running'.todo, c, Len(running'.contexts))
  BY <1>7, <1>10
<1> QED BY <1>1, <1>5, <1>9, <1>10, <1>11, <1>12, TraceStepKeeps

LEMMA FnEndsKeeps ==
    ASSUME DiagnosticsInv, FnThrows \/ FnReturns
    PROVE  DiagnosticsInv'
<1>1. CASE FnThrows
  <2>1. Fn("over", TRUE)
    BY <1>1 DEF FnThrows
  <2>2. "over" = IF TRUE \/ trace[Now.of].mode = "sync" THEN "over" ELSE "waiting"
    OBVIOUS
  <2> QED BY <2>1, <2>2, FunctionKeeps
<1>2. CASE FnReturns
  <2> DEFINE after == IF trace[Now.of].mode = "sync" THEN "over" ELSE "waiting"
  <2>1. Fn(after, FALSE)
    BY <1>2 DEF FnReturns
  <2>2. after = IF FALSE \/ trace[Now.of].mode = "sync" THEN "over" ELSE "waiting"
    OBVIOUS
  <2>3. PICK x : x = after
    OBVIOUS
  <2>4. Fn(x, FALSE) /\ x = IF FALSE \/ trace[Now.of].mode = "sync" THEN "over" ELSE "waiting"
    BY <2>1, <2>2, <2>3
  <2> QED BY <2>4, FunctionKeeps
<1> QED BY <1>1, <1>2

\* The function calls its callback back.
LEMMA FnCallsBackKeeps ==
    ASSUME DiagnosticsInv, FnCallsBack
    PROVE  DiagnosticsInv'
<1>0. /\ running.todo # <<>> /\ Now.step = "fn" /\ trace[Now.of].mode = "callback" /\ trace[Now.of].step = "none"
      /\ UNCHANGED <<channels, diary>> /\ trace' = [trace EXCEPT ![Now.of].step = "called"]
  BY DEF FnCallsBack
<1>1. PICK t \in Traces :
              /\ Now.of = t /\ trace[t] \in TraceFields /\ At(t, running.todo, trace[t], Len(running.contexts))
              /\ \A u \in Traces \ {t} : Rested(trace[u])
              /\ running.todo \in Seq(Planned) /\ Rest \in Seq(Planned) /\ running.contexts \in Seq(SUBSET Stores)
              /\ Len(running.contexts) \in Nat /\ diary.owed = diary.seen
              /\ diary \in [owed : Seq(Message), seen : Seq(Message), uncaught : Nat, acts : Nat]
              /\ running \in [todo : Seq(Planned), contexts : Seq(SUBSET Stores)] /\ trace \in [Traces -> TraceFields]
  BY <1>0, TraceStepFrom
<1>2. PICK failed \in BOOLEAN : running' = [running EXCEPT !.todo = Wrapped(t, failed) \o running.todo]
  BY <1>1 DEF FnCallsBack, Do
<1> DEFINE c == [trace[t] EXCEPT !.step = "called"]
           plan == Wrapped(t, failed) \o running.todo
<1>3. c \in TraceFields
  BY <1>1 DEF TraceFields
<1>4. trace' = [trace EXCEPT ![t] = c] /\ UNCHANGED channels
  BY <1>0, <1>1
<1>5. Goes(t, plan, c, Len(running.contexts))
  <2>1. Head(running.todo).step = "fn" /\ trace[t].mode = "callback" /\ trace[t].step = "none"
    BY <1>0, <1>1 DEF Now
  <2>0. PICK todo : todo = running.todo
    OBVIOUS
  <2>2. PICK d \in Nat : todo = running.todo /\ d = Len(running.contexts)
    BY <1>1, <2>0
  <2>3. Goes(t, Wrapped(t, failed) \o todo, [trace[t] EXCEPT !.step = "called"], d)
    <3>1. At(t, todo, trace[t], d) /\ Head(todo).step = "fn"
      BY <1>1, <2>1, <2>2
    <3> QED BY <1>1, <2>1, <3>1, CallsBackMoves
  <2> QED BY <2>2, <2>3
<1> HIDE DEF c, plan
<1>6. plan \in Seq(Planned)
  BY <1>5, GoesPlans
<1>7. running' = [running EXCEPT !.todo = plan]
  BY <1>2 DEF plan
<1>8. running' \in [todo : Seq(Planned), contexts : Seq(SUBSET Stores)] /\ running'.todo = plan /\ running'.contexts = running.contexts
  BY <1>1, <1>6, <1>7
<1>9. diary' \in [owed : Seq(Message), seen : Seq(Message), uncaught : Nat, acts : Nat] /\ diary'.owed = diary'.seen
  BY <1>0, <1>1
<1>10. Goes(t, running'.todo, c, Len(running'.contexts))
  BY <1>5, <1>8
<1> QED BY <1>1, <1>3, <1>4, <1>8, <1>9, <1>10, TraceStepKeeps

\* Between two traces nothing runs and no context is left.
LEMMA Resting ==
    ASSUME DiagnosticsInv, running.todo = <<>>
    PROVE  /\ running.contexts = <<>> /\ \A t \in Traces : Rested(trace[t]) /\ trace[t] \in TraceFields
           /\ diary.owed = diary.seen
<1>1. diary.owed = diary.seen /\ Underway(<<>>)
  BY NobodyOwed
<1>2. ASSUME NEW t \in Traces, At(t, <<>>, trace[t], Len(running.contexts)) PROVE FALSE
  BY <1>2, AtBegins
<1>3. \A t \in Traces : trace[t] \in TraceFields
  BY DEF DiagnosticsInv, DiagnosticsTypeOK
<1> QED BY <1>1, <1>2, <1>3 DEF Underway

\* A trace begins, or goes on, where nothing runs.
LEMMA BeginningKeeps ==
    ASSUME DiagnosticsInv, running.todo = <<>>, NEW t \in Traces, NEW c \in TraceFields, NEW plan \in Seq(Planned), Goes(t, plan, c, 0),
           trace' = [trace EXCEPT ![t] = c], running' = [running EXCEPT !.todo = plan], UNCHANGED <<channels, diary>>
    PROVE  DiagnosticsInv'
<1>1. running.contexts = <<>> /\ (\A u \in Traces : Rested(trace[u])) /\ diary.owed = diary.seen
  BY Resting
<1>2. /\ running \in [todo : Seq(Pending), contexts : Seq(SUBSET Stores)]
      /\ diary \in [owed : Seq(Message), seen : Seq(Message), uncaught : Nat, acts : Nat]
  BY DEF DiagnosticsInv, DiagnosticsTypeOK
<1>3. running' \in [todo : Seq(Planned), contexts : Seq(SUBSET Stores)] /\ running'.todo = plan /\ running'.contexts = <<>>
  BY <1>1, <1>2
<1>4. diary' \in [owed : Seq(Message), seen : Seq(Message), uncaught : Nat, acts : Nat] /\ diary'.owed = diary'.seen
  BY <1>1, <1>2
<1>5. Goes(t, running'.todo, c, Len(running'.contexts))
  <2>1. Len(running'.contexts) = 0
    BY <1>3
  <2> QED BY <1>3, <2>1
<1> QED BY <1>1, <1>3, <1>4, <1>5, TraceStepKeeps

LEMMA SettlesKeeps ==
    ASSUME DiagnosticsInv, NEW t \in Traces, Settles(t)
    PROVE  DiagnosticsInv'
<1>0. /\ running.todo = <<>> /\ trace[t].step = "waiting" /\ trace[t].callback = 0 /\ UNCHANGED <<channels, diary>>
      /\ trace' = [trace EXCEPT ![t].step = "over"]
  BY DEF Settles
<1>1. PICK failed \in BOOLEAN : running' = [running EXCEPT !.todo = SettledPlan(t, failed)]
  BY Zenon DEF Settles, Do, SettledPlan
<1>2. Rested(trace[t]) /\ trace[t] \in TraceFields
  BY <1>0, Resting
<1> DEFINE c == [trace[t] EXCEPT !.step = "over"]
<1>3. SettledPlan(t, failed) \in Seq(Planned) /\ Goes(t, SettledPlan(t, failed), c, 0)
  BY <1>0, <1>2, SettlesMoves
<1>4. c \in TraceFields
  BY <1>2 DEF TraceFields
<1>5. trace' = [trace EXCEPT ![t] = c]
  BY <1>0
<1> HIDE DEF c
<1>6. PICK plan \in Seq(Planned) : plan = SettledPlan(t, failed)
  BY <1>3
<1>7. Goes(t, plan, c, 0) /\ running' = [running EXCEPT !.todo = plan]
  BY <1>1, <1>3, <1>6
<1> QED BY <1>0, <1>4, <1>5, <1>7, BeginningKeeps

LEMMA BegunKeeps ==
    ASSUME DiagnosticsInv, NEW t \in Traces, NEW mode \in {"sync", "promise", "callback"}, Trace(t, mode)
    PROVE  DiagnosticsInv'
<1>0. /\ running.todo = <<>> /\ trace[t].mode = "none" /\ UNCHANGED <<channels, diary>>
      /\ trace' = [trace EXCEPT ![t].mode = mode, ![t].traced = hasSubscribers]
      /\ running' = [running EXCEPT !.todo = BegunPlan(t)]
  BY DEF Trace, Do, BegunPlan
<1>1. hasSubscribers \in BOOLEAN
  BY DEF hasSubscribers
<1>2. Rested(trace[t]) /\ trace[t] \in TraceFields /\ trace \in [Traces -> TraceFields]
  BY <1>0, Resting DEF DiagnosticsInv, DiagnosticsTypeOK
<1> DEFINE c == [trace[t] EXCEPT !.mode = mode, !.traced = hasSubscribers]
<1>3. BegunPlan(t) \in Seq(Planned) /\ Goes(t, BegunPlan(t), c, 0)
  BY <1>0, <1>1, <1>2, TraceMoves
<1>4. c \in TraceFields
  BY <1>1, <1>2 DEF TraceFields, Modes
<1>5. trace' = [trace EXCEPT ![t] = c]
  BY <1>0, <1>2
<1> HIDE DEF c
<1>6. PICK plan \in Seq(Planned) : plan = BegunPlan(t)
  BY <1>3
<1>7. Goes(t, plan, c, 0) /\ running' = [running EXCEPT !.todo = plan]
  BY <1>0, <1>3, <1>6
<1> QED BY <1>0, <1>4, <1>5, <1>7, BeginningKeeps

LEMMA DiagnosticsStep ==
    ASSUME DiagnosticsInv, [DiagnosticsNext]_diagnosticsVars
    PROVE  DiagnosticsInv'
<1>1. CASE UNCHANGED diagnosticsVars
  BY <1>1 DEF diagnosticsVars, DiagnosticsInv, DiagnosticsTypeOK, Underway
<1>2. CASE \E t \in Traces : Settles(t) \/ \E mode \in {"sync", "promise", "callback"} : Trace(t, mode)
  BY <1>2, SettlesKeeps, BegunKeeps
<1>3. CASE PublishBegins
  BY <1>3, PublishKeeps
<1>4. CASE \/ ListenerReturns \/ ListenerThrows \/ (\E l \in Listeners : ListenerSubscribes(l) \/ ListenerUnsubscribes(l))
           \/ (\E s \in Stores : ListenerBinds(s))
  BY <1>4, ListenerKeeps
<1>5. CASE EnterStores
  BY <1>5, EnterStoresKeeps
<1>6. CASE LeaveStores
  BY <1>6, LeaveStoresKeeps
<1>7. CASE FnThrows \/ FnReturns
  BY <1>7, FnEndsKeeps
<1>8. CASE FnCallsBack
  BY <1>8, FnCallsBackKeeps
<1>9. CASE Callback
  BY <1>9, CallbackKeeps
<1> QED BY <1>1, <1>2, <1>3, <1>4, <1>5, <1>6, <1>7, <1>8, <1>9 DEF DiagnosticsNext

LEMMA DiagnosticsBegins ==
    ASSUME DiagnosticsInit
    PROVE  DiagnosticsInv
<1>1. /\ trace = [t \in Traces |-> [mode |-> "none", step |-> "none", traced |-> FALSE, threw |-> FALSE, published |-> <<>>,
                                    fn |-> 0, callback |-> 0, inside |-> {}]]
      /\ running = [todo |-> <<>>, contexts |-> <<>>]
      /\ diary = [owed |-> <<>>, seen |-> <<>>, uncaught |-> 0, acts |-> 0]
  BY DEF DiagnosticsInit
<1>2. PICK subscribed \in SUBSET Events, bound \in SUBSET Stores :
          channels = [subs |-> [e \in Events |-> IF e \in subscribed THEN SetToSeq(Listeners) ELSE <<>>],
                      stores |-> [e \in Events |-> IF e \in {"start", "asyncStart"} THEN bound ELSE {}]]
  BY Zenon DEF DiagnosticsInit
<1>3. channels \in [subs : [Events -> Seq(Listeners)], stores : [Events -> SUBSET Stores]]
  <2> DEFINE a == [e \in Events |-> IF e \in subscribed THEN SetToSeq(Listeners) ELSE <<>>]
             b == [e \in Events |-> IF e \in {"start", "asyncStart"} THEN bound ELSE {}]
  <2>1. a \in [Events -> Seq(Listeners)]
    BY SetToSeqType
  <2>2. b \in [Events -> SUBSET Stores]
    OBVIOUS
  <2>3. channels = [subs |-> a, stores |-> b]
    BY <1>2
  <2> HIDE DEF a, b
  <2> QED BY <2>1, <2>2, <2>3
<1>4. DiagnosticsTypeOK
  <2>1. trace \in [Traces -> TraceFields]
    BY <1>1 DEF TraceFields, Modes
  <2>2. /\ running \in [todo : Seq(Pending), contexts : Seq(SUBSET Stores)]
        /\ diary \in [owed : Seq(Message), seen : Seq(Message), uncaught : Nat, acts : Nat]
    <3>1. <<>> \in Seq(Pending) /\ <<>> \in Seq(SUBSET Stores) /\ <<>> \in Seq(Message)
      OBVIOUS
    <3> QED BY <1>1, <3>1
  <2> QED BY <1>3, <2>1, <2>2 DEF DiagnosticsTypeOK
<1>5. Underway(<<>>)
  <2>1. \A t \in Traces : Rested(trace[t])
    BY <1>1 DEF Rested
  <2> QED BY <1>1, <2>1 DEF Underway
<1>6. <<>> \in Seq(Hearing) /\ <<>> \in Seq(Planned) /\ running.todo = <<>> \o <<>> /\ diary.owed = diary.seen \o Said(<<>>)
  <2>1. Said(<<>>) = <<>>
    BY DEF Said
  <2>2. <<>> \in Seq(Message) /\ <<>> \o <<>> = <<>>
    OBVIOUS
  <2> QED BY <1>1, <2>1, <2>2
<1> QED BY <1>4, <1>5, <1>6 DEF DiagnosticsInv

----------------
(* What the invariant says of a trace *)

LEMMA RanAtMostOnce ==
    ASSUME NEW t, NEW plan, NEW c \in TraceFields, NEW d, At(t, plan, c, d) \/ Rested(c)
    PROVE  c.fn <= 1 /\ c.callback <= 1
<1>1. CASE Rested(c)
  BY <1>1 DEF Rested, CallsOnce
<1>2. CASE AtFunction(t, plan, c, d) \/ AtCallback(t, plan, c, d)
  BY <1>2 DEF AtFunction, AtCallback, NotRun, CallsOnce, Back
<1>3. CASE \/ AtEntering(t, plan, c, d) \/ AtStarting(t, plan, c, d) \/ AtCalling(t, plan, c, d)
           \/ AtFailing(t, plan, c, d) \/ AtEnding(t, plan, c, d) \/ AtLeaving(t, plan, c, d)
  <2>1. CallsOnce(c) /\ (NotRun(c) \/ HasRun(c))
    BY <1>3 DEF AtEntering, AtStarting, AtCalling, AtFailing, AtEnding, AtLeaving, Observed
  <2> QED BY <2>1 DEF CallsOnce, NotRun, HasRun
<1>4. CASE \/ AtAsyncFailing(t, plan, c, d) \/ AtAsyncEntering(t, plan, c, d) \/ AtAsyncStarting(t, plan, c, d)
           \/ AtCallingBack(t, plan, c, d) \/ AtAsyncEnding(t, plan, c, d) \/ AtAsyncLeaving(t, plan, c, d)
  <2>1. Back(c) /\ c.callback \in {0, 1}
    BY <1>4 DEF AtAsyncFailing, AtAsyncEntering, AtAsyncStarting, AtCallingBack, AtAsyncEnding, AtAsyncLeaving, BackObserved
  <2> QED BY <2>1 DEF Back
<1>5. CASE AtRejected(t, plan, c, d) \/ AtSettled(t, plan, c, d) \/ AtSettledEnd(t, plan, c, d)
  BY <1>5 DEF AtRejected, AtSettled, AtSettledEnd, Promised
<1> QED BY <1>1, <1>2, <1>3, <1>4, <1>5 DEF At

\* Elements appended one by one, written out.
LEMMA AppendEquals ==
    ASSUME NEW S, NEW s \in Seq(S), NEW n \in Nat, Len(s) = n, NEW v \in S,
           NEW r \in Seq(S), Len(r) = n + 1, \A i \in 1..n : r[i] = s[i], r[n + 1] = v
    PROVE  Append(s, v) = r
<1>1. Append(s, v) \in Seq(S) /\ Len(Append(s, v)) = n + 1 /\ (\A i \in 1..n : Append(s, v)[i] = s[i]) /\ Append(s, v)[n + 1] = v
  BY AppendProperties
<1> QED BY <1>1, SeqEqual

LEMMA PairIs ==
    ASSUME NEW S, NEW x \in S, NEW y \in S
    PROVE  Append(<<x>>, y) = <<x, y>>
<1>1. <<x>> \in Seq(S) /\ <<x, y>> \in Seq(S)
  OBVIOUS
<1>2. PICK s \in Seq(S) : s = <<x>>
  BY <1>1, Zenon
<1>3. PICK r \in Seq(S) : r = <<x, y>>
  BY <1>1, Zenon
<1>4. PICK n \in Nat : n = 1
  OBVIOUS
<1>5. Len(s) = n /\ Len(r) = n + 1 /\ (\A i \in 1..n : r[i] = s[i]) /\ r[n + 1] = y
  BY <1>2, <1>3, <1>4
<1>6. Append(s, y) = r
  BY <1>5, AppendEquals
<1> QED BY <1>2, <1>3, <1>6, Zenon

LEMMA TripleIs ==
    ASSUME NEW S, NEW x \in S, NEW y \in S, NEW z \in S
    PROVE  Append(<<x, y>>, z) = <<x, y, z>>
<1>1. <<x, y>> \in Seq(S) /\ <<x, y, z>> \in Seq(S)
  OBVIOUS
<1>2. PICK s \in Seq(S) : s = <<x, y>>
  BY <1>1, Zenon
<1>3. PICK r \in Seq(S) : r = <<x, y, z>>
  BY <1>1, Zenon
<1>4. PICK n \in Nat : n = 2
  OBVIOUS
<1>5. Len(s) = n /\ Len(r) = n + 1 /\ (\A i \in 1..n : r[i] = s[i]) /\ r[n + 1] = z
  BY <1>2, <1>3, <1>4
<1>6. Append(s, z) = r
  BY <1>5, AppendEquals
<1> QED BY <1>2, <1>3, <1>6, Zenon

LEMMA AppendedTwo ==
    ASSUME NEW S, NEW b \in Seq(S), NEW x \in S, NEW y \in S
    PROVE  Append(Append(b, x), y) = b \o <<x, y>>
<1>1. <<x>> \in Seq(S) /\ <<y>> \in Seq(S) /\ Append(b, x) \in Seq(S)
  BY AppendProperties
<1>2. PICK c \in Seq(S) : c = Append(b, x)
  BY <1>1
<1>3. Append(c, y) = c \o <<y>>
  BY AppendIsConcat
<1>4. PICK q \in Seq(S) : q = <<y>>
  BY <1>1, Zenon
<1>5. Append(b, x) \o q = b \o (<<x>> \o q)
  BY AppendFirst
<1>6. PICK p \in Seq(S) : p = <<x>>
  BY <1>1, Zenon
<1>7. Append(p, y) = p \o <<y>>
  BY AppendIsConcat
<1>8. Append(<<x>>, y) = <<x, y>>
  BY PairIs
<1> QED BY <1>2, <1>3, <1>4, <1>5, <1>6, <1>7, <1>8, Zenon

LEMMA AppendedThree ==
    ASSUME NEW S, NEW b \in Seq(S), NEW x \in S, NEW y \in S, NEW z \in S
    PROVE  Append(Append(Append(b, x), y), z) = b \o <<x, y, z>>
<1>1. <<x>> \in Seq(S) /\ <<y, z>> \in Seq(S) /\ Append(b, x) \in Seq(S)
  BY AppendProperties
<1>2. PICK c \in Seq(S) : c = Append(b, x)
  BY <1>1
<1>3. Append(Append(c, y), z) = c \o <<y, z>>
  BY AppendedTwo
<1>4. PICK q \in Seq(S) : q = <<y, z>>
  BY <1>1, Zenon
<1>5. Append(b, x) \o q = b \o (<<x>> \o q)
  BY AppendFirst
<1>6. PICK p \in Seq(S) : p = <<x>>
  BY <1>1, Zenon
<1>7. Append(Append(p, y), z) = p \o <<y, z>>
  BY AppendedTwo
<1>8. Append(<<x>>, y) = <<x, y>> /\ Append(<<x, y>>, z) = <<x, y, z>>
  BY PairIs, TripleIs
<1> QED BY <1>2, <1>3, <1>4, <1>5, <1>6, <1>7, <1>8, Zenon

\* What was published, written out.
LEMMA OverIs ==
    ASSUME NEW c, c.callback = 0, NEW p \in Over(c)
    PROVE  p \in {<<"start", "end">>, <<"start", "error", "end">>}
<1>1. p = Append(<<"start">>, "end") \/ p = Append(Append(<<"start">>, "error"), "end")
  BY DEF Over, Before, Errored
<1>2. "start" \in Events /\ "error" \in Events /\ "end" \in Events
  BY DEF Events
<1>3. Append(<<"start">>, "end") = <<"start", "end">> /\ Append(<<"start">>, "error") = <<"start", "error">>
  BY <1>2, PairIs
<1>4. Append(<<"start", "error">>, "end") = <<"start", "error", "end">>
  BY <1>2, TripleIs
<1> QED BY <1>1, <1>3, <1>4, Zenon

LEMMA ClosedIs ==
    ASSUME NEW b \in Seq(Events), NEW p \in Closed(b)
    PROVE  p \in Seq(Events) /\ \E a \in AsyncParts : p = b \o a
<1>1. PICK x \in Begun(b) : p = Append(x, "asyncEnd")
  BY DEF Closed
<1>2. PICK y \in MayFail(b) : x = Append(y, "asyncStart")
  BY <1>1 DEF Begun
<1>3. y = b \/ y = Append(b, "error")
  BY DEF MayFail
<1>4. "asyncStart" \in Events /\ "error" \in Events /\ "asyncEnd" \in Events
  BY DEF Events
<1>5. p \in Seq(Events)
  <2>1. y \in Seq(Events)
    BY <1>3, <1>4, AppendProperties
  <2>2. x \in Seq(Events)
    BY <1>2, <1>4, <2>1, AppendProperties
  <2> QED BY <1>1, <1>4, <2>2, AppendProperties
<1>6. CASE y = b
  <2>1. Append(Append(b, "asyncStart"), "asyncEnd") = b \o <<"asyncStart", "asyncEnd">>
    BY <1>4, AppendedTwo
  <2>2. p = b \o <<"asyncStart", "asyncEnd">>
    BY <1>1, <1>2, <1>6, <2>1, Zenon
  <2>3. <<"asyncStart", "asyncEnd">> \in AsyncParts
    BY Zenon DEF AsyncParts
  <2> QED BY <1>5, <2>2, <2>3, Zenon
<1>7. CASE y = Append(b, "error")
  <2>1. Append(Append(Append(b, "error"), "asyncStart"), "asyncEnd") = b \o <<"error", "asyncStart", "asyncEnd">>
    BY <1>4, AppendedThree
  <2>2. p = b \o <<"error", "asyncStart", "asyncEnd">>
    BY <1>1, <1>2, <1>7, <2>1, Zenon
  <2>3. <<"error", "asyncStart", "asyncEnd">> \in AsyncParts
    BY Zenon DEF AsyncParts
  <2> QED BY <1>5, <2>2, <2>3, Zenon
<1> QED BY <1>3, <1>6, <1>7

LEMMA OverBackIs ==
    ASSUME NEW c, c.callback # 0, NEW p \in Over(c)
    PROVE  \E a \in AsyncParts, s \in SyncParts : p = <<"start">> \o a \o Tail(s)
<1>1. PICK x \in Before(c) \cup Errored(c) : p = Append(x, "end")
  BY DEF Over
<1>2. PICK z \in Closed(<<"start">>) : x = z \/ x = Append(z, "error")
  BY <1>1 DEF Before, Errored
<1>3. "start" \in Events /\ "error" \in Events /\ "end" \in Events
  BY DEF Events
<1>4. PICK b \in Seq(Events) : b = <<"start">>
  <2>1. <<"start">> \in Seq(Events)
    BY <1>3
  <2> QED BY <2>1, Zenon
<1>5. z \in Closed(b)
  BY <1>4
<1>6. z \in Seq(Events)
  BY <1>5, ClosedIs
<1>7. PICK a \in AsyncParts : z = b \o a
  BY <1>5, ClosedIs
<1>8. Append(z, "end") = z \o <<"end">> /\ Append(Append(z, "error"), "end") = z \o <<"error", "end">>
  BY <1>3, <1>6, AppendIsConcat, AppendedTwo
<1>9. Tail(<<"start", "end">>) = <<"end">> /\ Tail(<<"start", "error", "end">>) = <<"error", "end">>
  <2>1. Tail(<<"start", "end">>) = <<"end">>
    OBVIOUS
  <2>2. Tail(<<"start", "error", "end">>) = <<"error", "end">>
    OBVIOUS
  <2> QED BY <2>1, <2>2
<1>10. p = z \o Tail(<<"start", "end">>) \/ p = z \o Tail(<<"start", "error", "end">>)
  BY <1>1, <1>2, <1>8, <1>9, Zenon
<1>11. <<"start", "end">> \in SyncParts /\ <<"start", "error", "end">> \in SyncParts
  BY Zenon DEF SyncParts
<1>12. PICK s \in SyncParts : p = z \o Tail(s)
  BY <1>10, <1>11, Zenon
<1> QED BY <1>4, <1>7, <1>12, Zenon

LEMMA ClosedAfterIs ==
    ASSUME NEW p \in Closed(Append(<<"start">>, "end"))
    PROVE  \E a \in AsyncParts : p = <<"start", "end">> \o a
<1>1. "start" \in Events /\ "end" \in Events
  BY DEF Events
<1>2. Append(<<"start">>, "end") = <<"start", "end">>
  BY <1>1, PairIs
<1>3. <<"start", "end">> \in Seq(Events)
  BY <1>1
<1>4. PICK b \in Seq(Events) : b = <<"start", "end">>
  BY <1>3, Zenon
<1>5. p \in Closed(b)
  BY <1>2, <1>4, Zenon
<1>6. \E a \in AsyncParts : p = b \o a
  BY <1>5, ClosedIs
<1> QED BY <1>4, <1>6, Zenon

\* A trace at left has published one of its shapes.
LEMMA RestedShape ==
    ASSUME NEW c \in TraceFields, Rested(c)
    PROVE  c.published \in Shapes(c)
<1>0. c.mode \in Modes /\ c.traced \in BOOLEAN
  BY DEF TraceFields
<1>1. CASE c.mode = "none" \/ ~c.traced
  <2>1. c.published = <<>>
    BY <1>1 DEF Rested
  <2>2. Shapes(c) = {<<>>}
    BY <1>1 DEF Shapes
  <2> QED BY <2>1, <2>2
<1>2. CASE c.mode # "none" /\ c.traced
  <2>1. /\ CallsOnce(c)
        /\ \/ c.published \in Over(c)
           \/ c.mode # "sync" /\ c.published \in Closed(Append(<<"start">>, "end"))
    BY <1>2 DEF Rested
  <2> DEFINE A == {<<"start", "end">> \o a : a \in AsyncParts}
             B == UNION {{<<"start">> \o a \o Tail(s) : a \in AsyncParts} : s \in SyncParts}
  <2>2. Shapes(c) = SyncParts \cup (IF c.mode = "sync" THEN {} ELSE A) \cup (IF c.mode # "callback" THEN {} ELSE B)
    BY <1>2, Zenon DEF Shapes
  <2>3. \/ c.published \in SyncParts
        \/ c.mode # "sync" /\ c.published \in A
        \/ c.mode = "callback" /\ c.published \in B
    <3>1. CASE c.published \in Over(c) /\ c.callback = 0
      BY <3>1, OverIs DEF SyncParts
    <3>2. CASE c.published \in Over(c) /\ c.callback # 0
      <4>1. c.mode = "callback"
        BY <2>1, <3>2 DEF CallsOnce
      <4>2. c.published \in B
        <5>1. PICK p : p = c.published
          OBVIOUS
        <5>2. PICK a \in AsyncParts, s \in SyncParts : p = <<"start">> \o a \o Tail(s)
          BY <3>2, <5>1, OverBackIs
        <5>3. p \in {<<"start">> \o k \o Tail(s) : k \in AsyncParts}
          BY <5>2
        <5> QED BY <5>1, <5>3
      <4> QED BY <4>1, <4>2
    <3>3. CASE c.mode # "sync" /\ c.published \in Closed(Append(<<"start">>, "end"))
      BY <3>3, ClosedAfterIs
    <3> QED BY <2>1, <3>1, <3>2, <3>3
  <2> HIDE DEF A, B
  <2> QED BY <1>0, <1>2, <2>2, <2>3 DEF Modes
<1> QED BY <1>1, <1>2

LEMMA DiagnosticsInvExact ==
    ASSUME DiagnosticsInv
    PROVE  DiagnosticsExact
<1>1. \A t \in Traces : trace[t] \in TraceFields
  BY DEF DiagnosticsInv, DiagnosticsTypeOK
<1>2. \A t \in Traces : trace[t].fn <= 1 /\ trace[t].callback <= 1
  <2>1. PICK plan : Underway(plan)
    BY DEF DiagnosticsInv
  <2>2. \A t \in Traces : At(t, plan, trace[t], Len(running.contexts)) \/ Rested(trace[t])
    BY <2>1 DEF Underway
  <2>3. PICK d : d = Len(running.contexts)
    OBVIOUS
  <2> QED BY <1>1, <2>2, <2>3, RanAtMostOnce
<1>3. ASSUME Quiet
      PROVE  /\ running.contexts = <<>> /\ diary.seen = diary.owed
             /\ \A t \in Traces : trace[t].published \in Shapes(trace[t]) /\ (trace[t].mode # "none" => trace[t].fn = 1)
  <2>1. /\ running.contexts = <<>> /\ diary.seen = diary.owed
        /\ \A t \in Traces : Rested(trace[t]) /\ trace[t] \in TraceFields
    BY <1>3, Resting DEF Quiet
  <2>2. \A t \in Traces : trace[t].published \in Shapes(trace[t])
    BY <2>1, RestedShape
  <2>3. \A t \in Traces : trace[t].mode # "none" => trace[t].fn = 1
    BY <2>1 DEF Rested
  <2> QED BY <2>1, <2>2, <2>3
<1> QED BY <1>2, <1>3 DEF DiagnosticsExact, ObservationHarmless, TraceBracketed, PublishedToAll

\* Observers change nothing of what they observe and miss nothing of it, for any number of traces, subscribers and
\* stores, whatever subscribers and transforms throw, subscribe, unsubscribe and bind while they are called
\* (TracingChannel.traceSync, tracePromise and traceCallback over Channel.publish and runStores).
THEOREM DiagnosticsExactCorrect == DiagnosticsSpec => []DiagnosticsExact
<1>1. DiagnosticsInit => DiagnosticsInv
  BY DiagnosticsBegins
<1>2. DiagnosticsInv /\ [DiagnosticsNext]_diagnosticsVars => DiagnosticsInv'
  BY DiagnosticsStep
<1>3. DiagnosticsInv => DiagnosticsExact
  BY DiagnosticsInvExact
<1> QED BY <1>1, <1>2, <1>3, PTL DEF DiagnosticsSpec
=============================================================================
