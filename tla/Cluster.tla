------------------------------ MODULE Cluster ------------------------------
(***************************************************************************)
(* node:cluster (src/runtime/node/cluster.ts) over the native process      *)
(* watcher (namespace gea::node::cluster of gea_node.cpp): a primary that  *)
(* forks workers, hears of their exits through SIGCHLD, a wake pipe and    *)
(* waitpid(), and tells its program; workers that end when the primary's   *)
(* liveness pipe closes.  The kernel may give a pid again as soon as       *)
(* waitpid() has taken its process, though its exit is yet to be drained.  *)
(***************************************************************************)
EXTENDS Integers, Sequences, FiniteSets, SequencesExt

CONSTANTS MaxForks, MaxKills, MaxDisconnects, Pids
ASSUME ClusterAssumption == MaxForks \in Nat /\ MaxKills \in Nat /\ MaxDisconnects \in Nat /\ 0 \notin Pids

VARIABLES
    primary,    \* up, quit (its loop had nothing left to wait for) or killed; pc: idle, reaping, draining; the queues;
                \* list: the workers of cluster.workers
    worker,     \* per worker: its process, a SIGTERM on the way, and what its Worker object says
    pid,        \* per worker: WorkerProcess.pid (0: never forked)
    recycled,   \* a worker was forked with the pid of one that ended and whose exit is not drained
    story       \* history: what the program was told

clusterVars == <<primary, worker, pid, recycled, story>>

WorkerIds == 1..MaxForks
Calls == 1..MaxDisconnects
Up == primary.state = "up"
\* JavaScript may run: in a callback of the loop, or in a handler of what drainExits() emits
InProgram == Up /\ primary.pc \in {"idle", "draining"}

----------------
(* What the program calls.                                                 *)
FreePids == Pids \ {pid[w] : w \in {v \in WorkerIds : worker[v].process \in {"running", "zombie"}}}
Fork(n) ==
    /\ InProgram /\ primary.nextId < MaxForks /\ n \in FreePids
    /\ LET id == primary.nextId + 1 IN
       /\ primary' = [primary EXCEPT !.nextId = id, !.list = @ \cup {id}, !.live = @ + 1, !.jobs = Append(@, <<"online", id>>)]
       /\ worker' = [worker EXCEPT ![id].process = "running"]
       /\ pid' = [pid EXCEPT ![id] = n]
       /\ recycled' = (recycled \/ \E w \in primary.list : pid[w] = n)
    /\ UNCHANGED story
\* spawn() returns no pid: fork() throws, the id is spent.
ForkFails ==
    /\ InProgram /\ primary.nextId < MaxForks
    /\ primary' = [primary EXCEPT !.nextId = @ + 1]
    /\ UNCHANGED <<worker, pid, recycled, story>>
\* SIGTERM to the pids of some workers: to whoever has them now
Signalled(ids) ==
    [w \in WorkerIds |-> [worker[w] EXCEPT !.term = @ \/ (worker[w].process = "running" /\ \E v \in ids : pid[v] = pid[w])]]
Leaving(w) == [w EXCEPT !.exitedAfterDisconnect = "true", !.connected = FALSE]
\* Worker.kill(), destroy(), disconnect() of one worker, a dead one included
Kill(id) ==
    /\ InProgram /\ worker[id].process # "none" /\ story.kills < MaxKills
    /\ worker' = [w \in WorkerIds |-> IF w = id THEN Leaving(Signalled({id})[w]) ELSE Signalled({id})[w]]
    /\ story' = [story EXCEPT !.kills = @ + 1]
    /\ UNCHANGED <<primary, pid, recycled>>
\* WorkerProcess.kill(): the signal alone
ProcessKill(id) ==
    /\ InProgram /\ worker[id].process # "none" /\ story.kills < MaxKills
    /\ worker' = Signalled({id})
    /\ story' = [story EXCEPT !.kills = @ + 1]
    /\ UNCHANGED <<primary, pid, recycled>>
\* cluster.disconnect(callback): every listed worker leaves, the callback follows the last of their exits.
DisconnectAll ==
    /\ InProgram /\ story.asked < MaxDisconnects
    /\ LET c == story.asked + 1 IN
       /\ story' = [story EXCEPT !.asked = c, !.of[c] = primary.list]
       /\ IF primary.list = {}
          THEN primary' = [primary EXCEPT !.jobs = Append(@, <<"callback", c>>)] /\ UNCHANGED worker
          ELSE /\ primary' = [primary EXCEPT !.remaining[c] = Cardinality(primary.list)]
               /\ worker' = [w \in WorkerIds |->
                                IF w \in primary.list
                                THEN Leaving([Signalled(primary.list)[w] EXCEPT !.once = @ \cup {c}])
                                ELSE Signalled(primary.list)[w]]
    /\ UNCHANGED <<pid, recycled>>

----------------
(* Microtasks, and the loop: a wake, then the notifier is emptied, then     *)
(* waitpid() takes every child that has ended by then.                     *)
RunClusterJob ==
    /\ Up /\ primary.pc = "idle" /\ primary.jobs # <<>>
    /\ LET job == Head(primary.jobs) IN
       story' = IF job[1] = "online" THEN [story EXCEPT !.online = @ \cup {job[2]}]
                ELSE [story EXCEPT !.called[job[2]] = @ + 1]
    /\ primary' = [primary EXCEPT !.jobs = Tail(@)]
    /\ UNCHANGED <<worker, pid, recycled>>
\* A watcher that was polled ready is dispatched after others of its pass, microtasks of theirs still waiting.
Woken(p) == p.pc = "idle" /\ p.byte
ChildrenReady ==
    /\ Up /\ Woken(primary)
    /\ primary' = [primary EXCEPT !.byte = FALSE, !.pc = "reaping"]
    /\ UNCHANGED <<worker, pid, recycled, story>>
ZombiesFault == {w \in WorkerIds : worker[w].process = "zombie" /\ \A v \in 1..(w - 1) : worker[v].process # "zombie"}
Zombies == {w \in WorkerIds : worker[w].process = "zombie"}
Waited == [w \in WorkerIds |-> IF w \in Zombies THEN [worker[w] EXCEPT !.process = "reaped"] ELSE worker[w]]
\* in the order waitpid() gives them, which is nobody's to choose
Reap ==
    /\ Up /\ primary.pc = "reaping"
    /\ \E order \in SetToSeqs(Zombies) :
          primary' = [primary EXCEPT !.pc = "draining", !.exits = @ \o order, !.live = @ - Len(order)]
    /\ worker' = Waited
    /\ UNCHANGED <<pid, recycled, story>>

(* drainExits(): exit after exit, each worker off the list before its      *)
(* events; a handler may call the cluster between any two of them.         *)
MarkExited(w) ==
    [w EXCEPT !.exitedAfterDisconnect = IF @ = "undefined" THEN "false" ELSE @, !.connected = FALSE, !.dead = TRUE]
\* The last listed worker with the pid of the exit.  There is one: each pid is on the list as often as it has
\* processes whose exit is not drained.
FoundFault(exit) == {w \in primary.list : \A v \in primary.list : v <= w}
Found(exit) == {w \in primary.list : pid[w] = pid[exit] /\ \A v \in primary.list : pid[v] = pid[exit] => v <= w}
TakeExit ==
    /\ Up /\ primary.pc = "draining" /\ primary.emits = <<>> /\ primary.exits # <<>>
    /\ \E id \in Found(Head(primary.exits)) :
       /\ primary' = [primary EXCEPT !.exits = Tail(@), !.list = @ \ {id}, !.emits = <<<<"disconnect", id>>, <<"exit", id>>>>]
       /\ worker' = [worker EXCEPT ![id] = MarkExited(@)]
    /\ UNCHANGED <<pid, recycled, story>>
LastExitOf(c) == primary.remaining[c] = 1
EmitDisconnect ==
    /\ Up /\ primary.emits # <<>> /\ Head(primary.emits)[1] = "disconnect"
    /\ primary' = [primary EXCEPT !.emits = Tail(@)]
    /\ UNCHANGED <<worker, pid, recycled, story>>
\* 'exit' on the worker, whose listeners include those of disconnect(callback), then on the cluster
EmitExit ==
    /\ Up /\ primary.emits # <<>> /\ Head(primary.emits)[1] = "exit"
    /\ LET id == Head(primary.emits)[2]
           hooks == worker[id].once IN
       /\ primary' = [primary EXCEPT !.emits = Tail(@), !.remaining = [c \in Calls |-> IF c \in hooks THEN @[c] - 1 ELSE @[c]]]
       /\ worker' = [worker EXCEPT ![id].once = {}]
       /\ story' = [story EXCEPT !.exits = Append(@, id), !.called = [c \in Calls |-> IF c \in hooks /\ LastExitOf(c) THEN @[c] + 1 ELSE @[c]]]
    /\ UNCHANGED <<pid, recycled>>
ExitsDrained ==
    /\ Up /\ primary.pc = "draining" /\ primary.emits = <<>> /\ primary.exits = <<>>
    /\ primary' = [primary EXCEPT !.pc = "idle"]
    /\ UNCHANGED <<worker, pid, recycled, story>>

----------------
(* Processes.                                                              *)
ProcessEnds(id) ==
    /\ worker' = [worker EXCEPT ![id].process = "zombie"]
    /\ primary' = [primary EXCEPT !.byte = TRUE]
    /\ UNCHANGED <<pid, recycled, story>>
WorkerExits(id) == worker[id].process = "running" /\ ProcessEnds(id)
WorkerTerminated(id) == worker[id].process = "running" /\ worker[id].term /\ ProcessEnds(id)
\* The liveness pipe reads EOF: the worker emits 'disconnect' and exits.
ChannelCloses(id) == ~Up /\ worker[id].process = "running" /\ ProcessEnds(id)
\* Nothing refers the loop any more; or the primary dies.
Quits(p) == p.live = 0
PrimaryQuits ==
    /\ Up /\ primary.pc = "idle" /\ primary.jobs = <<>> /\ primary.nextId > 0 /\ Quits(primary)
    /\ primary' = [primary EXCEPT !.state = "quit"]
    /\ UNCHANGED <<worker, pid, recycled, story>>
PrimaryDies ==
    /\ Up /\ primary.nextId > 0
    /\ primary' = [primary EXCEPT !.state = "killed"]
    /\ UNCHANGED <<worker, pid, recycled, story>>

ClusterInit ==
    /\ primary = [state |-> "up", pc |-> "idle", nextId |-> 0, list |-> {}, jobs |-> <<>>, exits |-> <<>>, emits |-> <<>>,
                  live |-> 0, byte |-> FALSE, remaining |-> [c \in Calls |-> 0]]
    /\ worker = [w \in WorkerIds |-> [process |-> "none", term |-> FALSE, exitedAfterDisconnect |-> "undefined",
                                      connected |-> TRUE, dead |-> FALSE, once |-> {}]]
    /\ pid = [w \in WorkerIds |-> 0] /\ recycled = FALSE
    /\ story = [online |-> {}, exits |-> <<>>, called |-> [c \in Calls |-> 0], of |-> [c \in Calls |-> {}], asked |-> 0, kills |-> 0]
ClusterNext ==
    \/ \E n \in Pids : Fork(n)
    \/ ForkFails
    \/ DisconnectAll
    \/ RunClusterJob
    \/ ChildrenReady
    \/ Reap
    \/ TakeExit
    \/ EmitDisconnect
    \/ EmitExit
    \/ ExitsDrained
    \/ PrimaryQuits
    \/ PrimaryDies
    \/ \E id \in WorkerIds : Kill(id) \/ ProcessKill(id) \/ WorkerExits(id) \/ WorkerTerminated(id) \/ ChannelCloses(id)
LoopStep == RunClusterJob \/ ChildrenReady \/ Reap \/ TakeExit \/ EmitDisconnect \/ EmitExit \/ ExitsDrained
(* The primary's loop goes on while it lives; SIGTERM is delivered; the    *)
(* kernel closes the pipe of a dead primary.                               *)
ClusterFairness ==
    /\ WF_clusterVars(LoopStep)
    /\ \A id \in WorkerIds : WF_clusterVars(WorkerTerminated(id)) /\ WF_clusterVars(ChannelCloses(id))

----------------
\* A worker's exit is told once, its 'online' before it or waiting in the microtask queue, however exits, kills, forks
\* from a handler and disconnect() are interleaved; and its process has ended, unless the kernel gave a pid again
\* before the exit that has it was drained: that exit is told of the newer worker.
ExitReportedOnce ==
    /\ IsInjective(story.exits)
    /\ \A w \in ToSet(story.exits) : /\ w \in story.online \/ <<"online", w>> \in ToSet(primary.jobs)
                                     /\ worker[w].process = "reaped" \/ recycled
\* cluster.disconnect's callback comes at most once, and not before every worker it found has told its exit.
DisconnectExact ==
    \A c \in Calls : /\ story.called[c] <= 1
                     /\ story.called[c] = 1 => story.of[c] \subseteq ToSet(story.exits)
\* A primary with nothing else to do leaves only when the exit of each of its workers has been told.
PrimaryWaits == primary.state = "quit" => {w \in WorkerIds : worker[w].process # "none"} \subseteq ToSet(story.exits)
\* Always again: while the primary runs, the program has heard of every worker that ended, though SIGCHLD wakes are
\* merged and arrive while others are being reaped, and disconnect's callback has come; with the primary gone no
\* worker is left.  A pid that came back too early excuses the exits, and the callback that waits for them.
AllHeard ==
    IF Up THEN \/ recycled
               \/ /\ \A id \in WorkerIds : worker[id].process \in {"zombie", "reaped"} => id \in ToSet(story.exits)
                  /\ \A c \in Calls : c <= story.asked => story.called[c] = 1
    ELSE \A id \in WorkerIds : worker[id].process # "running"
WorkersEnd == []<>AllHeard

\* Exits are reported once, to their own worker; a primary waits for its workers.
ClusterSafe == ExitReportedOnce /\ DisconnectExact /\ PrimaryWaits
=============================================================================
