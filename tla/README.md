# A TLA+ verification of node-compat

node-compat gives ahead-of-time compiled TypeScript programs the Node.js API.
A program runs on three layers:

1. the application and the TypeScript half of the runtime, `src/runtime/node/*.ts`,
   compiled to C++;
2. the native half, `src/runtime/gea_node.cpp` and `gea_node.hpp`: queues, timers,
   reactor, HTTP server, sockets, resolver, cluster;
3. the platform headers, which wrap system calls.

Around it stand a build driver (`src/scripts/build.mjs`), a compiler plugin
(`src/plugin`), a generator of the API surface (`src/tools/node-api`), a todo
application and the scripts that measure and compare servers.

Everything in the runtime but the resolver runs on one thread. The difficulty is not
parallelism: it is that every callback into JavaScript may call back into the runtime,
close the object that is calling, or run the whole event loop again, while the code
below holds raw pointers and half-updated fields. The models therefore make the call
stack (or what is left to do on it) part of the state, and put a step boundary wherever
a program's code may run.

## Inventory

| Component | State | Operations | What makes it hard, what makes it correct |
|---|---|---|---|
| HTTP server connections (`gea_node.cpp` 2795–3630) | input and output buffers, parser state, `busy_`, `closing_`, `peerClosed_`, `processing_`, `deferred_`; the registry and its one-entry cache; `HandlerDispatchGate` | accept, read, parse, dispatch, defer, drain, flush, error answer, 500, close, purge | a response operation parses and dispatches the next request from inside another handler. Responses in order; handlers never nest; nobody parked for ever; no dangling pointer; every finished connection closed |
| Event loop (`gea_node.cpp` 60–520, 1040–1330, 3678–3708; `global-timers.ts`) | microtasks, ticks, timers, `firingDue`, immediates and batches, watchers, `dispatchDepth_` | queueMicrotask, nextTick, timers, immediates, ref/unref, watchers, listen, await, one pass of the loop | callbacks change what the pass iterates over; loops nest. Nothing cleared runs, nothing lost, ticks first, watchers outlive every pointer to them |
| `net.Socket` (`net.ts`) and `ClientConnection` | two state machines, event codes between them, attempts, generation, pending writes and chunks; options, idle timer, write callbacks | connect, write, end, destroy, pause, resume, set…; lookup answer, attempt timer, readiness, microtasks | racing attempts, stale callbacks, half-close. No leaked handle, order of writes, data and events, connect and destroy finish |
| `net.Server` and `NetServer` (`gea_node.cpp` 2354–2560) | listener, connection count, event queue, `onClose` callbacks | listen, accept batch, close, fail | 'close' once, after the last destructor; every connection handed over once; the limit holds |
| Name resolution (`gea_node.cpp` 2050–2350) | a shared request, a thread, a wake-up pipe | lookup, answer, release, purge | the one second thread: the answer races the release |
| `ReactorSocket` (`net.ts` 400–480) | current connection and its handlers | connect, write, close, dispatch | a handler closes and reconnects inside the drain |
| `node:stream` (`stream.ts`) | buffers, flowing mode, corks, pending writes, flags, pipes | read, push, unshift, pause, resume, pipe, write, cork, end, destroy, pipeline, iterate, derive | re-entrant calls; microtasks that look at stale flags. Delivered once and in order, back-pressure, every completion told once |
| WHATWG streams (`whatwg-streams.ts`) | queues, pending reads, locks | enqueue, read, close, error, cancel, pipe, tee, adapt | promise reactions in between. Each read settled, locks released |
| `EventEmitter`, `events.once/on`, `AbortSignal` | listener groups, snapshots, iterator queue | on, once, off, removeAll, emit, abort | listeners change the table that calls them |
| `diagnostics_channel` | subscribers, stores | publish, trace | observers that throw and unsubscribe |
| `node:cluster` (`cluster.ts` and its native watcher) | workers, exit queue, liveness pipe | fork, reap, kill, disconnect | SIGCHLD to pipe to `waitpid`; each exit told once; workers end with their primary |
| `http.ts` messages and the fetch adapter | header store, framing, body, listeners, socket table | writeHead, write, end, destroy, read, listen | the bytes decode to what the handler gave |
| Web globals (`globals.ts`) | Headers, URLSearchParams, FormData, Request, Response, URL, Blob | collections and walks, body readers, codecs | live walks; a body read once; round trips |
| `path`, `fs`, `crypto`, `zlib` | little: native status buffer, codec handle, digests | functions and small objects | boundaries, sharing, re-entrant listeners |
| Build driver, project, plugin, surface | files, keys, reports | build, cache, link, generate, check | stale objects, killed builds, names that must agree |
| Todo app, harnesses, reports | store, servers, samples | HTTP calls, measurements | answers out of order, servers that die |

`PROJECT.json` lists the same components with sources and status, the hazards with
the line where each one bites and the properties that watch it, and for every
definition the lines it models.

## Modules

| Module | Models |
|---|---|
| `HttpConnection` | connections, parser loop, gate, registry, response operations |
| `RequestService` | the abstract promise of the HTTP server |
| `HttpMessage` | `ServerResponse`, `IncomingMessage`, `Server`'s listeners and sockets, the fetch adapter |
| `EventLoop` | queues, timers, immediates, watchers, the loop, the main program |
| `NetSocket`, `SocketOptions` | a socket's bytes and events; its options, idle timer and write callbacks |
| `NetServer`, `Resolver`, `ReactorClient` | server, resolver thread, thin client |
| `NodeStream`, `PipeEvents`, `WebStreams` | node streams, their typed pipe listeners, web streams |
| `Emitter`, `Diagnostics`, `Cluster` | events and abort signals, channels, processes |
| `WebCollections`, `FetchBody`, `Codecs` | collections and walks; bodies; text formats |
| `Bytes`, `Zlib`, `Files`, `Path`, `Addresses` | byte owners, codec streams, fs, path, net addresses |
| `Build`, `Project`, `Plugin`, `Surface` | build driver; what it is given; plugin tables; API surface |
| `TodoServer`, `TodoApp`, `Parity`, `Harness`, `Reports` | the application and the scripts around it |
| `Evaluate` | one behaviour per input of a pure function; `MCEvaluate` has the inputs |
| `MCHttpConnection`, `MCServices`, `MCProtocols`, `MCLibraries`, `MCNodeStream` | instances for TLC (`Build` has its own) |
| `HttpOrderProofs`, `EventLoopProofs`, `LibraryProofs`, `ServicesProofs`, `NetSocketProofs`, `SocketEventProofs`, `BuildProofs`, `Resolver` | theorems |

Components that do not share state are checked in one run as *parts*: the initial
state chooses the part, whose next-state relation alone then moves. `MCServices`,
`MCProtocols` and `MCLibraries` are such compositions; a property of the run is a
conjunction over the parts of the property of each.

### HttpConnection and RequestService

State: `conn` (the fields of each connection, with the whole output stream `out`
and how much of it left, so that `outbuf_` is the tail), `res` (each request's
`ServerResponse`), `stack` (the `processInput` activations), `gate`, `cached`.
A peer's bytes are tokens: one iteration of the parser loop consumes one. Output is
a sequence of pieces tagged with the request they answer; that is all the ordering
properties need. Actions follow the handlers: `OnReadable`, `OnWritable`, `OnError`,
`Accept`, `Purge` for the reactor; `ParseHead`, `ParseBodyHead`, `ParseBody`,
`ParseError`, `ReturnFromInput` for the parser loop; `HandlerReturns`,
`HandlerThrows`, `DrainNext`, `DrainDone` for handlers and parked requests;
`WriteHead`, `Write`, `End`, `DestroyResponse`, `DestroySocket` for the application,
from a handler, or from any later callback when the stack is empty.
`flushAndMaybeClose` is a set of outcomes: the kernel takes all, part, or fails.

`RequestService` says what a client is promised: requests of a connection are handed
over one at a time, each answered at most once and before the next, one handler in the
whole process, nothing handed over after destruction. `ImplementsService` states the
refinement: `served` is the number of handlers started, `replied` what the output
stream contains an end of, `handler` the connection of the handler frame.

### EventLoop

State: the stack of frames (main program, loop activations, drains, callbacks) and
the runtime's registries. A loop frame carries what the C++ activation keeps in
locals: the timers still to fire, the ready list, the running batch. `Listen` pushes
a second loop, as `server.listen()` does. The three back ends (poll, epoll, kqueue)
have one control structure and one model; `Poll` chooses any ready set and any later
time that the wait allows. An exception that escapes a callback ends the process and
is not modelled.

### Sockets and servers

`NetSocket`: the socket's fields, `nat` (each native connection with its event queue,
its buffers and the kernel's queues), lookups, microtasks, and a stack of
continuations: a method that emits leaves a frame for the rest of its body, so that
the listener on top may do anything, `destroy()` and `connect()` included, before the
method resumes and looks at the fields again. `served` records the watchers dispatched
since the microtasks were last drained: two connections ready in one poll are both
dispatched before the microtasks of the first. Abstractions, all of which keep the
control: `winAttempt` hands the held writes over in one flush; the 'lookup' events of
one answer are one call of the program; a closed connection and a purged one are one
state, since nothing tells them apart; `resetAndDestroy` is `destroy`. `Connect` has the
guard of the code; that a program connects a destroyed socket again only after its
'close', and after the 'close' microtask unless `Env` has `"reconnect"` (`MayReconnect`),
is a restriction of the environment. `SocketOptions`
keeps what a socket remembers for handles it does not have yet.

`NetServer`: `native` are the reactor's `NetServerState`s with the queue of event codes
and of accepted connections, `clients` the accepted connections from accept to the
destructor that lowers `connections`, `server` the TypeScript object, `doing` where
`dispatchEvents` is: it calls listeners, which may add and remove listeners.
`Resolver`: per lookup the thread's step, the byte in the wake pipe and the owners of
the `ResolveState` (registry, watcher, watcher destroyed), or, on the path without a
pipe, the microtask that calls back. `ReactorClient`: a close handler is a step of its own
(`closing`), because `dispatch()` clears the socket after it, whatever it connected.

`Cluster`: a worker has an id and a pid; the kernel may give a pid again once `waitpid()`
took its process, while its exit is still to be drained. The child watcher is dispatched
with the other ready watchers of a pass, microtasks still waiting, so 'exit' may come
before 'online'.

### Streams, events, messages

`NodeStream`, `Emitter`, `HttpMessage`, `Diagnostics` and `PipeEvents` keep a sequence
of the calls still to be made: a step makes the first, which is replaced by the calls
it makes in turn. A user callback or listener may call any operation of its setup:
'pipe' and 'unpipe' listeners pipe and unpipe inside either method, 'removeListener'
listeners emit, and the 'data' listener of a codec stream (`Zlib`) writes to it.
`HttpMessage` spells what goes on the wire and decodes it again as a client does;
`WebStreams` runs promise reactions as a queue of jobs.

### Tools

`Build` models a build as a process over a disk that outlives it; a file's content is
what it was made from, so "fresh" is an equality. The first report is written before the
sources are compiled (`build.mjs` 566). Edits come between builds: one that falls between
the compile of a unit and the hashing of its inputs (1385–1391) is outside the model, and a
compiler that outlives a killed build ends at the kill or not at all. `Project`, `Plugin`, `Surface`,
`Path`, `Codecs`, `Addresses`, `Files`, `Reports` and `Parity` are operators that
`Evaluate` applies to every input of a bounded set. In `Addresses` an address is printed
and parsed in its canonical form, as `inet_ntop` and `inet_pton` do, and a rule list goes
through its strings; `Project` has TypeScript's whole family of strict options, of which
`build.mjs` carries over all but two; `Reports` takes rows of any driver, workload and
write concern, as `record-sample.mjs` writes them.

## Runs

Operators marked *Fault* in the modules are plausible bugs of the definition
that follows them. Replacing the definition by its fault makes TLC report the
property that `PROJECT.json` pairs with it: each property was seen to fail.

| Run | Instance | Properties |
|---|---|---|
| `http_one` | 1 connection, 3 tokens of all 6 kinds, batches of 2, 1 write per response, every environment choice | `ConnectionSafe` (`ResponsesInOrder`, `CacheValid`, `CloseIsLast`, `NoneLeftOpen`) |
| `http_two` | 2 connections whose peers send 1 and 2 tokens, handlers that throw and destroy, end of file | `TypeOK`, the inductive `ServerInv`, `DispatchSafe` (`HandlersNeverNest`, `NothingStranded`, `ParkedOnce`), the refinement `ImplementsService` |
| `http_live` | 1 connection, 3 tokens, short writes, end of file, fair | `RequestsProceed` (`BufferedIsTaken`, `ClosingIsDestroyed`) |
| `loop_live` | 2 timers (intervals too), 1 immediate, 2 jobs, 1 watcher, 4 calls, await, fair | `TicksFirst`, `TimersFire` |
| `loop_nested` | nested loops: 2 timers, 3 immediates, 1 job, 2 watchers, 5 calls | `LoopSafe` (`NoTimerLost`, `ImmediatesKept`, `NoDanglingWatcher`), `ClearedNeverRuns` |
| `net_socket` | 1 connect to 2 addresses (or one, or a literal), 2 chunks, 5 program calls, failures, fair | `SocketSafe` (`NoLeak`, `WritesKept`, `DataInOrder`), `SocketEvents` (`DataBeforeEnd`, `EventOrder`), `SocketSettles` (`ConnectSettles`, `EventuallyCloses`) |
| `services` | a server with 2 listens, 2 clients, 2 closes and a fault, or with changing listeners, limits 0 and 1; 2 lookups; 3 connects of a `ReactorSocket`; 2 body objects, 2 reads | `ServerSafe` (`CloseComesLast`, `ConnectionsGiven`, `ListenersServed`), `LookupStateOutlivesThread`, `ClientsSafe` (`EventsReachTheirHandlers`, `ConnectionsHeld`, `BodyReadOnce`, `CloneKeepsType`), `ServicesProgress` |
| `protocols` | up to 3 pipelined requests, 4 operations each; 19 stream topologies with 3 chunks; 3 forks with 2 pids, a kill, a disconnect | `MessageSafe` (`WireDecodes`, `HeaderStore`, `FinishOnce`, `ListenersCalledOnce`, `BodySeenOnce`, `KeepsConnection`, `SocketsBounded`), `WebStreamsSafe` (`NoLostWakeup`, `Delivered`, `SinkSees`, `LocksReleased`), `ClusterSafe` (`ExitReportedOnce`, `DisconnectExact`, `PrimaryWaits`), `ProtocolsProgress` |
| `stream` | pipelines of 2 and 3 streams, writers, readers, iterator, derived readables, pairs; 3 bytes, 4 calls | `StreamSafe` (13 parts, from `EndAfterAllData` to `PairCarries`), `StreamProgress` (`DrainComes`, `PipelineCompletes`, `IterationEnds`, `ToArraySettles`) |
| `libraries` | 10 parts: emitters and signals, collections, channels, bytes, codec streams, pipe tables, socket options, todo store, harness, and the inputs of the pure functions | `ListenersExact`, `RemovedNeverRuns`, `CollectionsExact`, `DiagnosticsExact`, `BytesExact`, `CodecStreamsExact`, `PipeEventsExact`, `SocketOptionsExact`, `TodoExact`, `ToolsExact`, `PathsExact`, `TextExact`, `BuildInputsExact`, `SurfaceExact`, `FilesExact` |
| `build` | 2 builds of 3 settings, plain or profile-guided, 1 edit and 1 fault, 2 compile jobs | `ArtifactsExact` (`ExeIsFresh`, `OneEmission`, `ProfileMatches`), `BuildEnds` |
| `http_error_not_closed` | 1 connection, a malformed request | finds `ClosedOnceDrained` violated |

Each name in parentheses is a definition with its own comment; the comment says which
behaviour of the code it is about.

Why the bounds are enough to be interesting: two connections are what nesting,
parking and cross-completion need (a handler of one completes the other), and a
second token lets a completed connection park its next request; three tokens on one
connection give head, body and a pipelined successor. Two timers due in one pass
let the first clear the second, and one watcher with an await reaches every exit
test; three immediates let a nested pass run between two of an outer batch while
one is cleared, and two timers let a nested pass overtake the second. Two addresses give a race, a loser and a last failure. Two native
servers let a server listen again while connections of the first still live; two
lookups let one be released while the other is answered. Three workers with two pids and a
disconnect give a waiting list that shrinks while a handler forks, and a pid given again
before its exit is drained. High-water marks of
1 and 2 with three bytes make a write refused, drained and refused again. Input sets of
the pure functions are all words up to the length at which every branch of the scanner
was taken. Deadlock is not checked: programs end, bounded peers stop, and a quiet
server is a legal state.

### The disagreement between code and text

`http_error_not_closed`: after a 400, 413, 431 or 501, `busy_` is never cleared and the
server never closes the connection (`gea_node.cpp` 3262, 3561), while the comment at
3574 says of `closing_` "no further requests; close once drained".

## Fairness

- HTTP: a C++ frame runs to its end (weak fairness of the parser and handler steps).
  An application ends every response it was given, a peer reads what it is sent, and
  every pass ends with a purge. The last three happen between callbacks that other
  callbacks interrupt, hence strong fairness. The code relies on the first two: there
  is no response timeout, and a peer that never reads keeps its connection open.
- Event loop: the thread runs and callbacks return (weak fairness of everything but
  JavaScript's own calls); time passes: a loop that keeps waiting sees some wait end
  later than it began (strong fairness of such a `Poll`).
- Sockets, servers, lookups, streams, messages: weak fairness of the loop: listeners
  return, the kernel answers, timers fire, microtasks and the lookup thread run.
  Program and peer owe nothing. All counters are bounded, so the fair steps cannot
  starve one another for ever.
- Cluster: the primary's loop runs, SIGTERM ends a worker, and a worker whose liveness
  pipe closed ends (weak fairness of each).
- Fetch bodies: a stream that is being read ends, or fails.
- Build: compile jobs, links and the training run end.

## Proofs

TLC checks small instances; the theorems hold for every value of the constants. They
assume only the named `ASSUME`s of the modules (bounds are naturals, a quota is a
function, `NoConn` is not a connection, an application emits files of the known names)
and what a theorem states as its hypothesis. Each rests on an inductive invariant that TLC
checked first.

**Types and gate** (`HttpOrderProofs`: `TypeCorrect`, `HandlersNeverNestCorrect`).
Neither is inductive: a handler starts because `gate.active` is 0, so one must know that
`active` counts the handler frames, and the queue is drained only because the draining
frame is at the bottom of the stack. `GateInv` enumerates the eight shapes of stack the
code builds (at most three activations, whatever the number of connections) with the
gate each implies. `TypeOK /\ GateInv` is inductive; each needs the other, since
`active` stays a natural only while the handler frames are counted.

**Order of responses** (`HttpOrderProofs`: `ServerInvCorrect`, `ConnectionSafeCorrect`,
`DispatchSafeCorrect`). `ResponsesInOrder` speaks of the output stream alone, but which
piece may come next depends on the flags of the connection, the responses JavaScript
still holds and the frames of the stack. `ServerInv` ties them together, besides
`GateInv`, `ParkedOnce` and `CacheValid`:

- `BufferOK`: what was sent is inside the stream, and a head mark marks an unsent header
  block at its end;
- `CountOK`: every request started, parked or buffered was received;
- `AnswersOK`: only the latest response can be unanswered, and then the connection is
  `busy_` or `closing_` and not parked; a refused keep-alive lets nothing more in;
- `TailOK`: the last piece of the stream lets the response that is written next begin or
  go on. With `InOrder`, a statement about neighbouring pieces, this is what an append
  needs, and it implies the order of all pairs;
- `HandlerOK`: between its dispatch and its return a handler's connection is not parked,
  so that a 500 has a place in the stream;
- `FramesOK`: `processing_` is set exactly by the one activation a connection has, and a
  parked connection's activation is about to return;
- `IdleOK`: a connection that no activation is going to flush is not one that should be
  closed.

The proof shows in passing that no connection ever has two activations on the stack, so
the saved `was` of `processing_` is always false, and that the other branch of
`drainDeferredHandlers` (a parked id not registered or not deferred) is unreachable.

**Refinement** (`HttpOrderProofs`: `ImplementsServiceCorrect`). The initial state maps
to the abstract one, and every step to an abstract step or a stutter. It needs
`ServerInv` (a request is handed over only when the one before it was answered) and
`AllBounded`: no piece of the stream answers a request that was not handed over.

**Cleared callbacks** (`EventLoopProofs`: `ClearedNeverRunsCorrect`). For any number of
timers, immediates, watchers and calls and any depth of nested loops, a callback that
was cleared never starts. The action property says nothing of where callbacks are
started from, so it does not carry itself. `ClearInv` does: a cleared timer is not armed
and not in `firingDue`; a cleared immediate is not queued and in no batch on the stack
(`GoodStack`, which also keeps the main program at the bottom so that the top frame
exists); ids handed out later are larger than any cleared one. `StartedBy` then says
that a step starts a job, a timer of `firing`, or an immediate of the top frame's batch,
and nothing else.

**The loop** (`EventLoopProofs`: `TypeCorrect`, `NoDanglingWatcherCorrect`,
`ImmediatesKeptCorrect`, `NoTimerLostCorrect`, together `LoopSafeCorrect`;
`TicksFirstCorrect`, `TicksFirstOutsideDrains`). All hold for any bounds; all but
`TicksFirstCorrect` also for any depth of nested loops. That one assumes
`"listen" \notin Env`: with a blocking `server.listen()` inside a callback it is false,
since a loop inside a drain finds `drain_microtasks` returning at once. `NoTimerLost`
excepts the timers that a nested pass overtook, which the history variable `overtaken`
collects: what was in the shared `firingDue` when another loop polled. Each has its own
inductive invariant over the C++ stack, on top of `ClearInv`:

- `SafeInv` (watchers): `dispatchDepth_` is the number of passes open on the stack, two
  for a loop that dispatches, and a frame that points to watchers lies inside a pass. A
  sum over a stack is no inductive argument for the prover, so the invariant says that a
  counting function exists (`Counts`), and push, pop and replacement of the top frame
  extend, restrict or keep it. At depth zero no frame holds a watcher, so purging is
  harmless.
- `TicksInv` (ticks): at most one frame drains, and `draining` says whether one does; a
  loop at a place where it may start a callback waits for a drain or has just come back
  from one. So ticks wait there only if the loop itself is inside a drain. `Flat` rules
  that out without `listen`: the only loop is right above the main program.
- `PlacesInv` (immediates): an immediate is in the queue, in one frame's batch, or has
  run; a frame with a batch is inside `runAll` and still has every id of it to look at.
  The cardinality in `ImmediatesKept` then is that of an empty set or a singleton.
- `QueuesInv` (types): a drain that will retire a job finds the queue not empty, since
  the one drain on the stack is the only one that pops.
- `TimersInv` (timers): the timers in `firingDue` are among those that the innermost
  firing loop has still to look at (`Fires`), because a pass that polls replaces all of
  them; a timer that does not repeat is armed, in `firingDue`, or has run, never two of
  them, or was overtaken; one that repeats stays armed until it is cleared or overtaken.

**Lookups** (`Resolver`: `LookupStateCorrect`). `ResolverInv` is a conjunction `Sound` per
lookup. The thread's pointer is good because a thread that has not exited still has its
watcher, unfinished and without a byte in its pipe, and such a watcher owns the
`ResolveState`; a watcher that is neither finished nor cancelled still has its entry in
the registry. That the program hears once follows because a notice is given by an exited
thread's watcher, which is finished by it, or inline by a lookup that never had one; that
it does not hear after its release, because releasing cancels the watcher. The inline
notice is not cancelled, and the property excepts it.

**Cluster** (`LibraryProofs`: `ClusterSafeCorrect`). `ClusterInv` says where the exit of a
worker is: `Stage` says that a forked worker is listed, or in the events of the drain under
way, or among the exits told, in one of the three and once; it was told 'online' or the
job that tells it is queued. An exit carries a pid, and the last listed worker with it is
taken: as many are listed as processes live or wait in the queue of exits (`Counted`), and
as long as no pid was given again early the one taken has ended. `Asked`
describes a call of `disconnect()`: its listeners are on the workers it found that have
not told their exit, `remaining` is their number, and the callback was called exactly
when there are none. `primary.live` is the number of unreaped workers, which is what
makes the primary wait. The lemmas go by sequences without repetition and by
cardinality, then one action at a time.

**Options of a socket** (`LibraryProofs`: `SocketOptionsExactCorrect`). For any number of
handles (`Handles \in Nat`) and of calls. `SocketOptionsExact` speaks of the handle a socket
has and of the moments when no callback runs. `OptionInv` adds what holds before there is
a handle and in between: attempts race only while the socket connects, and then it has no
handle of its own (`Racing`); what the socket keeps for a handle to come is what was asked
for (`Kept`); the open handle has it (`Matched`), every racing attempt the reference; the
scheduled idle timer is the one the socket can cancel, and a closed socket has none. For
the writes, `Ledger`: callbacks pending on the socket, callbacks in what is left to run and
callbacks that ran are those of the writes made, each in one of the three and once. The
loop's work moves callbacks from one to the next, and the calls of the program add a write.

**Diagnostics channels** (`LibraryProofs`: `DiagnosticsExactCorrect`). For any number of
traces and any finite sets of subscribers and stores. The property speaks of the moments
when nothing runs; `DiagnosticsInv` says what `running.todo` is at any moment: subscribers
of the message being published, who are still to hear it (what was published is what was
seen followed by what they will hear), then the plan of one trace. That trace is at one of
seventeen places (`At`: entering its stores, publishing `start`, calling its function,
inside the wrapped callback, in the reactions to its promise, ...), and a place says which
plan it has, what it has published, how often its function and callback ran and how many
contexts are entered; all other traces are at rest (`Rested`). A step takes the head of the
plan and is shown to lead to another place or to rest (`PublishMoves`, `FunctionMoves`,
`CallsBackMoves`, ...), whatever its subscribers did in between, since these change the
channels only. A trace at rest has published one of `Shapes`. The cases of `Shapes` used to
overlap, which TLC reads as the first but the logic leaves open; the attempt to prove it
showed this, and it is a disjoint definition now.

**Servers** (`ServicesProofs`: `ServerSafeCorrect`). For any number of servers, clients
and listeners, and any `maxConnections`. `ServerSafe` alone is not inductive: that no
connection is lost says nothing of the order in which the two queues of a
`NetServerState` are emptied, and that `'close'` was not early says nothing of what is
still queued. `ServerInv` adds, per server, that as many `'connection'` events wait as
accepted connections (so the head of one queue belongs to the head of the other), that
nothing follows `'close'` in the event queue, that `connections` is the number of
connections whose destructor has not run, and that `closeEmitted` is set only at zero.
When `'close'` is drained it is then the only event left, so the queue of accepted
connections is empty, each was handed over, and none lives. For the listeners: those a
connection is still owed to stand behind the cursor of the walk (a `once()` listener
removed before its call, a prepended one, or `removeAllListeners()` does not change
that), and a `once()` listener that was called is listed no more. The proof goes by
counting lemmas on sequences, lemmas on `maybeEmitClose`, `stop` and `connectionClosed`,
and then one action at a time, the servers first and the listeners second.

**Thin clients and bodies** (`ServicesProofs`: `EventsReachTheirHandlersCorrect`,
`BodyReadOnceCorrect`, together `ClientsSafeCorrect`). A handler of a `ReactorSocket` may
close it and connect again in the middle of `dispatch()`, whose loop then goes on with the
queue of the new connection. `ClientInv` says why no event of one connection reaches the
handlers of another: handlers are set with the id they belong to and cleared with it
(`HandlersOwn`), and native events come only from the reactor, so a connection other than
the one `dispatch()` began with has an empty queue (`LoopOwn`). `ClosingOwn` describes the
close handler: the socket then has the connection that ended, none, or one that the handler
made and `dispatch()` is about to forget, the exception of `ConnectionsHeld`. `BodyInv` says of the
bodies that a reader takes one that it marked used and a stream that it locked
(`OneReader`), and where the chunks are: all in the stream, some with the one reader that
drains it, or all with the reader that resolved (`Chunks`). `ServicesSafeCorrect` and
`ClientsSafeCorrect` state the results for `MCServices`, the composition that the run
checks.

**Sockets** (`NetSocketProofs`: `SocketSafeCorrect`). For any number of addresses,
`connect()` calls, chunks and program calls, and any subset of the environment but
`"reconnect"`: with it `NoLeak` is false. The 'close' microtask of the old connection
marks the new one closed (see Observations), so that a program that connects when it saw
'close' may do so in the 'error' listener of the next `destroy()`, which then finds
`nativeId_` 0 and leaves the handle open; TLC finds this with three calls of `connect()`.
A program may still connect again once the microtask ran. `NoLeak` speaks of the moments
when no callback runs; `SocketInv` says what holds in between:

- `Shaped`: listeners and what their calls leave to do are at the top of the stack, below
  them one handler, or one inside an event loop, or either inside `onReady`. So what a
  listener returns to is known, and no event loop is above the loop of `resume()`;
- `OneStart`: a `connect()` has one of its lookup, the continuation of that lookup, and
  the microtask that begins its attempts, and none once its targets are known. Without
  it a generation could begin twice;
- `Bounded`: attempts made and attempts the current `connect()` may still make fit in the
  names for connections;
- `Uncreated`, `Conns`: a name that is not created yet has no connection behind it, one
  that lost the race has carried no byte, and every 'data' event has its chunk;
- `Leaks`: an open connection is the socket's, or races, or is closing with the rest of
  its `onReady` to come, or is about to be destroyed after the 'error' listeners; the
  peer's end is answered by `end()` before `onReady` returns;
- `DataInv`: delivered, held, read and unread chunks, in this order, are increasing, and
  held chunks of a socket that is not paused are being delivered by `resume()`.

The proof has a lemma per native operation (read, flush, end, destroy), frame lemmas for
the actions that leave a part of the state alone, and one lemma per action.

**Events of a socket** (`SocketEventProofs`: `SocketEventsCorrect`). For the same programs as
`SocketSafeCorrect`: what the listeners may hear between two `connect()` calls, and that
'end' of a socket that is not paused comes after all that was read. The properties count what was emitted; nothing in
`SocketInv` says what is still queued. `EventInv` does, on top of it:

- `Queues`: in the event queue of every connection nothing follows 'close', and neither
  data nor a second 'end' follows 'end'; an 'end' is queued only when the peer's end was
  seen; an attempt has nothing to tell until it connected or failed, and then only that;
- `Counted`: 'connect' was emitted exactly when the socket has a handle, 'close' exactly
  when `closeEmitted_` is set, and 'end' at most once, after which the queue holds
  neither data nor another 'end' and, as the peer's end was seen, never will again;
- `Awake`: while events wait 'close' was not emitted, and an event loop is on the stack or
  its microtask is queued with none that emits 'close' before it. So the 'close' of
  `destroy()` never overtakes the events of a connection that went before it.

`Grows` says that a native method keeps a queue in turn; a read that sees the end leaves
nothing unread unless the connection is paused. A step then queues events (`GrowStep`),
takes one (`TakeStep`) or leaves the queues alone (`SilentStep`), and each action is one
of the three.

**The build's caches** (`BuildProofs`: `ArtifactsExactCorrect`). A build that ends well
leaves what a build from nothing would have made: for every set of applications and
environments, every number of workers, and any number of builds, edits, failed steps and
kills. The hypothesis `NoneApart` says what the configuration gives `None` for: a value
that is no string of the process and no function. `ArtifactsExact` speaks of the last
build only; `BuildInv` says what the disk may hold at any moment, a killed build's included:

- `EmissionInv`: a report that lists units lists one emission, whole; it is withdrawn
  before the first file is written and comes back after the last;
- `KeysInv`: a key on disk is true of the object beside it. This is why `compileUnitCached`
  removes the key before the compiler runs and writes it after (`JobOK`: no key while the
  unit is compiled). A key with a profile is the exception: its hash of the precompiled
  header may be that of the instrumented link, remembered by `fileContentHash`. It is
  harmless because no other build has that profile, and in this one a unit is taken once;
- `PchInv`: the same for the precompiled header and the object that `--debug` adds;
- `MemoInv`: remembered hashes are those of the files as they are, the precompiled header's
  only while the link that made it runs;
- `WorkInv`: workers have distinct units, and a unit that was ended well has the right object;
- `ImagesInv`: what a link made is made of the right objects, and the profile is of this run.

Files and settings do not change while a build runs, so that `Right` (the object a build
from nothing would make) is stable; the proof has a lemma per action and frames for steps
of the header, of a worker and of the end.

### Only model-checked

- Liveness: `RequestsProceed`, `TimersFire`, `SocketSettles`, `ServicesProgress`,
  `ProtocolsProgress`, `StreamProgress`, `BuildEnds`; the prover has no fairness.
- Pure functions and codecs (`PathsExact`, `TextExact`, `BuildInputsExact`,
  `SurfaceExact`, `FilesExact`, and the reports in `ToolsExact`): what a recursive
  definition computes for every input needs induction over data.
- Emitters, collections, streams, pipe tables and the todo store (`ListenersExact`,
  `CollectionsExact`, `WebStreamsSafe`, `StreamSafe`, `PipeEventsExact`, `TodoExact`): they
  filter, sort and join sequences with `SelectSeq`, `SetToSortSeq`, `FlattenSeq` and folds,
  of which the prover knows no more than the recursion that defines them. Messages
  (`MessageSafe`) are a stack of pending calls whose invariant has not been made inductive.
- Bytes and codec streams (`BytesExact`, `CodecStreamsExact`): both compare what a sequence
  of calls left with the answer for all the bytes together, computed recursively.

## Not modelled

Byte-level parsing of HTTP heads (tokens), the digests of `crypto`, the algorithms of
zlib and brotli (and brotli's native stream), text encodings, system calls (nondeterministic outcomes), the
TypeScript compiler and checker (external). The framed socket pool is sequential and
aborts the process on any failure; the allocator works on raw addresses; `os`, `util`,
`process`, `console` and the stubs have no state of their own. `http.request` is a stub
in the source. Exceptions that escape a callback end the process.

## Observations

Behaviours met while modelling for which no line of the repository says otherwise. They
are restrictions in the properties (each says which case it excepts) or facts a
maintainer may want to know.

**HTTP connections.** A drain dispatches a parked connection that was destroyed
meanwhile, since it leaves the registry only at the purge (`gea_node.cpp` 2872). A read
that fills the buffer exactly and is followed by end of file discards the request
(3244). A half-closed peer's next pipelined request is still dispatched (3532). A 500 is
appended after body bytes already sent. `serve()` returns from a nested loop before its
stack-allocated listener is purged (3707).

**Event loop.** A loop nested in a timer callback empties `firingDue`; the outer pass
drops its other timers (396), the exception of `NoTimerLost`. `listen()` from a promise job spins in `continue` and
reaches neither poll nor the queued jobs (1246). A timer set by a microtask that the last
line of the final drain leaves behind never fires (118).

**Sockets.** The 'close' microtask outlives its connection: an 'error' listener destroys,
the 'close' listener reconnects, and 'close' is emitted for the new one (`net.ts` 919).
`connect()` resets neither `pendingChunks_` nor `paused_` (1085). 'end' and 'close' come
before chunks a paused socket holds, which `resume()` then delivers (1001). Options set
on a connected socket are lost at a reconnect; `destroy()` never calls pending write
callbacks, and a reconnect's first drain then calls them without an error; one drain
runs the callbacks of writes still buffered. A paused socket drops unread kernel data on
a hangup (1560), and 'end' comes all the same: `pause()`, `end()`, a hangup before the
'finish' microtask, and `resume()` in the 'finish' listener reach 'end' on a socket that is
not paused although chunks were dropped. `DataBeforeEnd` therefore asks that a connection
not paused at the hangup read everything first.

**Servers and lookups.** A 'close' listener that listens again loses `self_`.
`listen(); close()` in one tick still emits 'listening'. After a listener error with live
connections `listening` stays true until 'close'. A failed `listen(cb)` leaves its once
listener. A prepended 'connection' (or 'request') listener makes the current one run
again. `ReactorSocket` ignores the peer's end, and forgets a connection that its close
handler makes: `dispatch()` clears `nativeId_` and `handlers_` after the handler
(`net.ts` 471–473). A lookup that found no pipe calls back from a microtask, released or not.

**Streams.** `Duplex.uncork` loses writes queued by a callback that corks again; the
callback of a first `end()` after `destroy()` is never called (`stream.ts` 1080); `end()` from a write
callback during `uncork()` runs `_final` before later chunks; `uncork()` sets
`writableLength` to 0 with writes in flight (`stream.ts` 1050); `destroy()` from an end
callback emits 'close' twice; a high-water mark of 0 never drains; an error of the source
does not reach a pipeline's destination; the async iterator hangs on `destroy()` without
an error; `toArray()` on a destroyed or paused stream never settles; `take()` keeps
consuming its source. A listener that unpipes inside `unpipe()` without a destination makes it read past the array
and throw; one that unpipes inside `pipe()` leaves the 'data' listener installed afterwards
(543).

**Web streams.** Branches of a tee are not independent (`whatwg-streams.ts` 508);
`pipeTo` keeps both locks when a read or write rejects; a second concurrent `read()`
overwrites the first; an asynchronous transform in flight at `close()` loses its chunk.

**Events.** A 'removeListener' listener that emits makes a once listener run twice;
`removeAllListeners` with a handler that registers again can orphan a group; a second
concurrent `next()` of `events.on` overwrites the first; an error between two `next()`
calls is swallowed; `lowWaterMark` 0 never resumes.

**Messages.** 'finish' of `end()` comes after the handlers of later pipelined requests
ran (`http.ts` 1123); a `transfer-encoding: chunked` set by the application is written
unchunked; `Connection: keep-alive` on a closing response is sent as is; the sockets
table keeps closed sockets until the next prune.

**Cluster.** `drainExits` takes the last list entry with the pid, so a worker forked by a
handler with the pid of one whose exit is queued is reported dead in its place; 'exit' may
come before 'online' when the worker dies in the pass that forked it; `kill()` has no dead
check, and on a crashed, unreaped worker marks it `exitedAfterDisconnect`.

**Web globals.** Live walks of `URLSearchParams` and `FormData.forEach` skip entries after a
removal; `Headers.append` is `set`; `formData()` with a wrong type consumes the body
before it rejects; `Request.clone()` of a stream body is empty; `Response.clone()` adds
`text/plain` again; a URL with a base is a concatenation; multipart boundaries are
predictable.

**Paths and files.** `normalize('CON')` is not idempotent; `toNamespacedPath` is not either
(a drive root loses its backslash); `parse('/..').ext` is `.`; drive-relative `join`
becomes absolute. An empty file emits one empty 'data'; `promises.access` and `readFile`
report ENOENT for every refusal; the whole file is read for a small range.

**Addresses.** A comment in `net_normalize_ip` says `net.isIP()` "must continue rejecting
scoped input", but `net_is_ip` accepts a zone; `parse` gives port 80 as 0;
`fromJSON(toJSON())` reverses the rules.

**zlib.** A 'data' listener that writes to its own codec stream overwrites unread input;
after padding ended the readable side a later member is pushed after the end, which
destroys the stream.

**Build, plugin, surface.** `sourceLanguageOptions` does not carry `strictBindCallApply` and
`strictBuiltinIteratorReturn` over: a project that is strict but for one of them is checked
more strictly than by its own `tsc` (`build.mjs` 218–236). `--pgo` builds the precompiled header twice;
`compileUnitCached` hashes inputs after the compile, so a header saved in between leaves a
stale object; a refused `--link-only` overwrites the report; a build without `--report`
leaves an old report that `--link-only` trusts; between `--bolt`'s two renames no
executable exists. `intrinsics.mjs` 29–325 is dead code. A TypeScript sibling imported
without suffix from JavaScript is missed by the walk over globals. Facades of dropped
modules are never deleted; the ledger says 'partial' for names whose facade keeps stubs.

**Application and harnesses.** `record-sample.mjs` writes rows of workloads and write
concerns that `summarize.mjs` refuses. The checker has no id to delete when the answer of its
POST is lost, and leaves its todo behind. `load()` racing `create()` may duplicate or lose a todo or
bring a removed one back; answers to PATCH applied out of order leave a stale row; a draft
typed while saving is cleared. A startup that times out leaks the child; after death by
a signal `exitCode` stays null and `waitForServer` waits its full time; a harness may
talk to a foreign server on its port.

## Plan

Done: all modules and runs above; theorems for the HTTP server (types, order, refinement),
the event loop (all its safety and action properties), lookups, the cluster, net servers,
thin clients and bodies, sockets and the order of their events, and the build's caches. Next, in this order:

1. `StreamSafe` and `WebStreamsSafe`: the shapes of their stacks first, as in `Shaped`.
2. `MessageSafe`, from `ServerInv` of `HttpConnection`.
