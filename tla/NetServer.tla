----------------------------- MODULE NetServer -----------------------------
(***************************************************************************)
(* node:net's Server (src/runtime/node/net.ts) over the reactor's          *)
(* NetServerState and NetServerListener (src/runtime/gea_node.cpp): native *)
(* events wait in a queue that a microtask asks the Server to drain, and   *)
(* a connection counts until the destructor of its watcher runs.           *)
(***************************************************************************)
EXTENDS Integers, Sequences, FiniteSets, SequencesExt

CONSTANTS
    Programs,   \* bounds of a program: the times it calls listen() and close(), its clients, listeners and faults
    Limits      \* values of maxConnections (0: none)

VARIABLES
    server,     \* the Server: nativeId (0: none), listening, max, onClose: callbacks of close(), its listeners
    native,     \* the NetServerStates, by id
    clients,    \* the accepted connections: [server, state, given, seen: the listeners called with it]
    notices,    \* the microtasks: the server to notify, or 0 for another callback
    draining,   \* the server whose events dispatchNativeEvents() is draining (0: none)
    walk,       \* the loop over the listeners: [client (0: not in it), at, missing: due and not yet called]
    told        \* history: what the program was told

serverVars == <<server, native, clients, notices, draining, walk, told>>

NewNative(max) == [listener |-> TRUE, events |-> <<"listening">>, accepted |-> <<>>, connections |-> 0,
                   max |-> max, closing |-> FALSE, closeEmitted |-> FALSE]
Push(ns, e) == [ns EXCEPT !.events = Append(@, e)]
\* A change of server i that may push events: each one queues a notification.
Update(i, ns) ==
    /\ native' = [native EXCEPT ![i] = ns]
    /\ notices' = notices \o [k \in 1..(Len(ns.events) - Len(native[i].events)) |-> i]

maybeEmitCloseFault(ns) ==
    IF ~ns.closing \/ ns.closeEmitted THEN ns ELSE Push([ns EXCEPT !.closeEmitted = TRUE], "close")
maybeEmitClose(ns) ==
    IF ~ns.closing \/ ns.connections # 0 \/ ns.closeEmitted THEN ns
    ELSE Push([ns EXCEPT !.closeEmitted = TRUE], "close")
stop(ns) == maybeEmitClose([ns EXCEPT !.listener = FALSE, !.closing = TRUE])

----------------
(* The reactor's side.                                                     *)

Full(ns) == ns.max # 0 /\ ns.connections >= ns.max
(* acceptAvailable(): one client; a client over the limit is dropped.      *)
Accept(i) ==
    /\ native[i].listener /\ draining = 0 /\ Len(clients) + told.drops < told.program.clients
    /\ IF Full(native[i])
       THEN /\ Update(i, Push(native[i], "drop"))
            /\ told' = [told EXCEPT !.drops = @ + 1]
            /\ UNCHANGED clients
       ELSE /\ Update(i, Push([native[i] EXCEPT !.connections = @ + 1, !.accepted = Append(@, Len(clients) + 1)], "connection"))
            /\ clients' = Append(clients, [server |-> i, state |-> "open", given |-> 0, seen |-> <<>>])
            /\ told' = [told EXCEPT !.over = @ \/ (native[i].max # 0 /\ told.steady /\
                           Cardinality({c \in DOMAIN clients : clients[c].server = i /\ clients[c].state # "gone"}) >= native[i].max)]
    /\ UNCHANGED <<server, draining, walk>>
AcceptFails(i) ==
    /\ native[i].listener /\ draining = 0 /\ told.errors < told.program.faults
    /\ Update(i, Push(native[i], "error"))
    /\ told' = [told EXCEPT !.errors = 1]
    /\ UNCHANGED <<server, clients, draining, walk>>
ListenerFails(i) ==       \* POLLERR: the error, then stop()
    /\ native[i].listener /\ draining = 0 /\ told.errors < told.program.faults
    /\ Update(i, stop(Push(native[i], "error")))
    /\ told' = [told EXCEPT !.errors = 1]
    /\ UNCHANGED <<server, clients, draining, walk>>
(* A connection closes, by its peer or by the program's destroy(); its     *)
(* destructor runs when the loop purges closed watchers.                   *)
ClientCloses(c) ==
    /\ clients[c].state = "open"
    /\ clients' = [clients EXCEPT ![c].state = "closed"]
    /\ UNCHANGED <<server, native, notices, draining, walk, told>>
connectionClosed(ns) == maybeEmitClose([ns EXCEPT !.connections = IF @ > 0 THEN @ - 1 ELSE @])
Purge(c) ==
    LET i == clients[c].server IN
    /\ clients[c].state = "closed" /\ draining = 0
    /\ clients' = [clients EXCEPT ![c].state = "gone"]
    /\ Update(i, connectionClosed(native[i]))
    /\ UNCHANGED <<server, draining, walk, told>>

----------------
(* The Server.                                                             *)

Listen ==
    /\ Len(native) < told.program.listens /\ server.nativeId = 0 /\ ~server.listening
    /\ native' = Append(native, NewNative(server.max))
    /\ notices' = Append(notices, Len(native) + 1)
    /\ server' = [server EXCEPT !.nativeId = Len(native) + 1]
    /\ UNCHANGED <<clients, draining, walk, told>>
ListenFails ==
    /\ Len(native) < told.program.listens /\ server.nativeId = 0 /\ ~server.listening /\ told.failures < told.program.faults
    /\ notices' = Append(notices, 0)
    /\ told' = [told EXCEPT !.failures = 1]
    /\ UNCHANGED <<server, native, clients, draining, walk>>
CloseServer ==
    /\ told.closeCalls < told.program.closes
    /\ told' = [told EXCEPT !.closeCalls = @ + 1]
    /\ IF server.nativeId = 0
       THEN /\ notices' = Append(notices, 0)         \* ERR_SERVER_NOT_RUNNING, a microtask later
            /\ server' = [server EXCEPT !.refused = @ + 1]
            /\ UNCHANGED native
       ELSE LET ns == native[server.nativeId] IN
            /\ server' = [server EXCEPT !.listening = FALSE, !.onClose = @ + 1]
            /\ Update(server.nativeId, IF ns.closing THEN ns ELSE stop(ns))
    /\ UNCHANGED <<clients, draining, walk>>
SetMaxConnections(n) ==
    /\ server.max # n /\ told.steady /\ told.program.faults > 0
    /\ server' = [server EXCEPT !.max = n]
    /\ native' = IF server.nativeId = 0 THEN native ELSE [native EXCEPT ![server.nativeId].max = n]
    /\ told' = [told EXCEPT !.steady = native = <<>>]
    /\ UNCHANGED <<clients, notices, draining, walk>>

Notified ==
    /\ draining = 0 /\ notices # <<>>
    /\ notices' = Tail(notices)
    /\ draining' = IF Head(notices) = 0 THEN 0 ELSE server.nativeId
    /\ UNCHANGED <<server, native, clients, walk, told>>
\* What the Server makes of one event; the program's listeners run between two events.
Give(s, ns, e) ==
    CASE e = "listening" -> [server EXCEPT !.listening = TRUE]
      [] e = "close" -> [server EXCEPT !.listening = FALSE, !.nativeId = 0, !.onClose = 0]
      [] OTHER -> server
(* The loop over the 'connection' listeners, which may register and remove *)
(* listeners; one registered with once() leaves the list before its call.  *)
Call(s, w) == IF s[w.at + 1].once THEN <<RemoveAt(s, w.at + 1), w.at>> ELSE <<s, w.at + 1>>
CallListener ==
    /\ walk.client # 0 /\ walk.at < Len(server.listeners)
    /\ LET l == server.listeners[walk.at + 1]
           called == Call(server.listeners, walk) IN
       /\ server' = [server EXCEPT !.listeners = called[1]]
       /\ walk' = [walk EXCEPT !.at = called[2], !.missing = @ \ {l.id}]
       /\ clients' = [clients EXCEPT ![walk.client].seen = Append(@, l.id)]
    /\ UNCHANGED <<native, notices, draining, told>>
ListenersCalled ==
    /\ walk.client # 0 /\ walk.at >= Len(server.listeners)
    /\ walk' = [walk EXCEPT !.client = 0, !.at = 0, !.missing = {}]
    /\ told' = [told EXCEPT !.skipped = @ \cup walk.missing]
    /\ UNCHANGED <<server, native, clients, notices, draining>>
(* addServerListener(), removeAllListeners().                              *)
AddListener(once, prepend) ==
    /\ server.registered < told.program.listeners
    /\ LET l == [id |-> server.registered + 1, once |-> once] IN
       server' = [server EXCEPT !.registered = @ + 1, !.listeners = IF prepend THEN <<l>> \o @ ELSE Append(@, l)]
    /\ told' = IF once THEN [told EXCEPT !.once = @ \cup {server.registered + 1}] ELSE told
    /\ UNCHANGED <<native, clients, notices, draining, walk>>
RemoveAllListeners ==
    /\ server.listeners # <<>>
    /\ server' = [server EXCEPT !.listeners = <<>>]
    /\ walk' = [walk EXCEPT !.missing = {}]
    /\ UNCHANGED <<native, clients, notices, draining, told>>
DrainEvent ==
    LET ns == native[draining]
        e == Head(ns.events)
        c == Head(ns.accepted) IN
    /\ draining # 0 /\ walk.client = 0 /\ ns.events # <<>>
    /\ native' = [native EXCEPT ![draining].events = Tail(@),
                                ![draining].accepted = IF e = "connection" THEN Tail(@) ELSE @]
    /\ clients' = IF e = "connection" THEN [clients EXCEPT ![c].given = @ + 1] ELSE clients
    /\ server' = Give(server, ns, e)
    /\ told' = IF e # "close" THEN told
               ELSE [told EXCEPT !.closes = Append(@, draining), !.called = @ + server.onClose,
                        !.early = @ \/ \E k \in DOMAIN clients : clients[k].server = draining
                                           /\ (clients[k].state # "gone" \/ clients[k].given = 0)]
    /\ walk' = IF e = "connection" THEN [client |-> c, at |-> 0, missing |-> {l.id : l \in ToSet(server.listeners)}] ELSE walk
    /\ UNCHANGED <<notices, draining>>
Drained ==
    /\ draining # 0 /\ walk.client = 0 /\ native[draining].events = <<>>
    /\ draining' = 0
    /\ UNCHANGED <<server, native, clients, notices, walk, told>>

----------------
ServerInit ==
    /\ server = [nativeId |-> 0, listening |-> FALSE, max |-> 0, onClose |-> 0, refused |-> 0,
              listeners |-> <<>>, registered |-> 0]
    /\ native = <<>> /\ clients = <<>> /\ notices = <<>> /\ draining = 0
    /\ walk = [client |-> 0, at |-> 0, missing |-> {}]
    /\ \E p \in Programs :
       told = [program |-> p, closes |-> <<>>, called |-> 0, early |-> FALSE, drops |-> 0, errors |-> 0, failures |-> 0,
               closeCalls |-> 0, over |-> FALSE, steady |-> TRUE, skipped |-> {}, once |-> {}]
ServerNext ==
    \/ Listen
    \/ ListenFails
    \/ CloseServer
    \/ \E n \in Limits : SetMaxConnections(n)
    \/ \E i \in DOMAIN native : Accept(i) \/ AcceptFails(i) \/ ListenerFails(i)
    \/ \E c \in DOMAIN clients : ClientCloses(c)
    \/ \E c \in DOMAIN clients : Purge(c)
    \/ Notified
    \/ DrainEvent
    \/ Drained
    \/ CallListener
    \/ ListenersCalled
    \/ \E once, prepend \in BOOLEAN : AddListener(once, prepend)
    \/ RemoveAllListeners
(* The loop drains microtasks and purges closed watchers in every pass.     *)
ServerFairness ==
    /\ WF_serverVars(Notified) /\ WF_serverVars(DrainEvent) /\ WF_serverVars(Drained)
    /\ WF_serverVars(CallListener) /\ WF_serverVars(ListenersCalled)
    /\ WF_serverVars(\E c \in DOMAIN clients : Purge(c))

\* 'close' comes once for each server that listened, and only after every connection the server accepted
\* was handed to the program and its watcher destroyed, whichever of close(), an error, the microtasks and the
\* destructors comes last.
CloseComesLast ==
    /\ ~told.early
    /\ \A i \in DOMAIN native : Cardinality({k \in DOMAIN told.closes : told.closes[k] = i}) <= 1
    /\ \A k \in DOMAIN told.closes : native[told.closes[k]].closing

\* No connection is lost or handed over twice between the reactor's queue and the program, and a server never has
\* more live connections than its limit (while the program does not change the limit).
ConnectionsGiven ==
    /\ \A c \in DOMAIN clients : clients[c].given <= 1
    /\ \A c \in DOMAIN clients : clients[c].given = 1 \/ Contains(native[clients[c].server].accepted, c)
    /\ ~told.over

\* A connection is handed to every listener that was registered when it came and not removed, and a listener
\* registered with once() is called for one connection only, whatever the listeners register meanwhile.
ListenersServed ==
    /\ told.skipped = {}
    /\ \A c, d \in DOMAIN clients, l \in 1..server.registered :
        l \in told.once /\ Contains(clients[c].seen, l) /\ Contains(clients[d].seen, l) => c = d

\* Every callback given to close() is called in the end, once the connections are gone.
CloseCallbacksCome ==
    [](told.closeCalls > 0 /\ (\A c \in DOMAIN clients : clients[c].state # "open")
       => <>(told.closeCalls = told.called + server.refused \/ \E c \in DOMAIN clients : clients[c].state = "open"))

\* 'close' comes last; every accepted connection is handed over once, within the limit, and to every listener it is due.
ServerSafe == CloseComesLast /\ ConnectionsGiven /\ ListenersServed
=============================================================================
