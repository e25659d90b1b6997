--------------------------- MODULE ReactorClient ---------------------------
(***************************************************************************)
(* ReactorSocket (src/runtime/node/net.ts): a TCP client that hands native *)
(* events to the typed handlers of its connect() call, in a loop during    *)
(* which a handler may close() the socket and connect() it again.          *)
(***************************************************************************)
EXTENDS Integers, Sequences

CONSTANTS MaxConnects, MaxEvents

VARIABLES
    socket,     \* [id: the native connection (0: none), handlers: whose connect() set them (0: none)]
    queues,     \* per native connection: its events not yet taken
    wakes,      \* the microtasks: <<"dispatch">>, or <<"error", handlers>> of a connection that was not created
    loop,       \* the handlers dispatch() captured (0: it is not running)
    closing,    \* dispatch() is in its handlers.close()
    events      \* history: connections made, closed by the program, ended by 'close', connected from a close handler;
                \* wrong, late: an event that reached others' handlers, or handlers that were done

clientVars == <<socket, queues, wakes, loop, closing, events>>

Connect ==
    /\ Len(queues) < MaxConnects /\ socket.id = 0
    /\ queues' = Append(queues, <<>>)
    /\ socket' = [id |-> Len(queues) + 1, handlers |-> Len(queues) + 1]
    /\ events' = [events EXCEPT !.made = @ \cup {Len(queues) + 1}, !.inClose = IF closing THEN @ \cup {Len(queues) + 1} ELSE @]
    /\ UNCHANGED <<wakes, loop, closing>>
ConnectFails ==          \* no native connection: the error comes a microtask later
    /\ Len(queues) < MaxConnects /\ socket.id = 0
    /\ queues' = Append(queues, <<>>)
    /\ socket' = [socket EXCEPT !.handlers = Len(queues) + 1]
    /\ wakes' = Append(wakes, <<"error", Len(queues) + 1>>)
    /\ UNCHANGED <<loop, closing, events>>
ClosedFault(s) == [s EXCEPT !.handlers = 0]
Closed(s) == [id |-> 0, handlers |-> 0]
CloseSocket ==
    /\ socket.id # 0
    /\ socket' = Closed(socket)
    /\ events' = [events EXCEPT !.closed = @ \cup {socket.handlers}]
    /\ UNCHANGED <<queues, wakes, loop, closing>>

\* The reactor: an event of a connection, in the order the native side produces them.
NativeEvent(c, e) ==
    /\ loop = 0 /\ events.n < MaxEvents
    /\ queues' = [queues EXCEPT ![c] = Append(@, e)]
    /\ wakes' = Append(wakes, <<"dispatch">>)
    /\ events' = [events EXCEPT !.n = @ + 1]
    /\ UNCHANGED <<socket, loop, closing>>
Wake ==
    /\ loop = 0 /\ wakes # <<>>
    /\ wakes' = Tail(wakes)
    /\ loop' = IF Head(wakes)[1] = "dispatch" THEN socket.handlers ELSE 0
    /\ events' = IF Head(wakes)[1] = "error" THEN [events EXCEPT !.failed = @ \cup {Head(wakes)[2]}] ELSE events
    /\ UNCHANGED <<socket, queues, closing>>
\* One turn of dispatch()'s loop; 'end' has no handler.
Turn(e) ==
    /\ queues' = [queues EXCEPT ![socket.id] = Tail(@)]
    /\ events' = IF e = "end" THEN events
                 ELSE [events EXCEPT !.wrong = @ \/ loop # socket.id, !.late = @ \/ loop \in events.closed \cup events.ended,
                                     !.ended = IF e = "close" THEN @ \cup {socket.id} ELSE @]
    /\ closing' = (e = "close")
    /\ UNCHANGED <<socket, wakes, loop>>
DispatchEvent ==
    /\ loop # 0 /\ ~closing /\ socket.id # 0 /\ queues[socket.id] # <<>>
    /\ Turn(Head(queues[socket.id]))
\* handlers.close() returned: the socket is cleared, of a connection the handler made as well.
DispatchCloses ==
    /\ closing
    /\ socket' = Closed(socket) /\ loop' = 0 /\ closing' = FALSE
    /\ UNCHANGED <<queues, wakes, events>>
DispatchReturns ==
    /\ loop # 0 /\ ~closing /\ (IF socket.id = 0 THEN TRUE ELSE queues[socket.id] = <<>>)
    /\ loop' = 0
    /\ UNCHANGED <<socket, queues, wakes, closing, events>>

ClientInit ==
    /\ socket = [id |-> 0, handlers |-> 0] /\ queues = <<>> /\ wakes = <<>> /\ loop = 0 /\ closing = FALSE
    /\ events = [n |-> 0, made |-> {}, closed |-> {}, ended |-> {}, inClose |-> {}, failed |-> {}, wrong |-> FALSE, late |-> FALSE]
ClientNext ==
    \/ Connect
    \/ ConnectFails
    \/ CloseSocket
    \/ \E c \in DOMAIN queues, e \in {"connect", "data", "end", "error", "close"} : NativeEvent(c, e)
    \/ Wake
    \/ DispatchEvent
    \/ DispatchCloses
    \/ DispatchReturns

\* An event of a connection reaches only the handlers of the connect() that made it, and none after the close() of
\* the socket or its 'close', even when the handlers close the socket and connect it again while dispatch() drains.
EventsReachTheirHandlers == ~events.wrong /\ ~events.late

\* The socket holds each connection it made until the program closes it or 'close' comes, so that its events are
\* heard and close() reaches it: except one that a close handler made, which dispatch() forgets on its return.
ConnectionsHeld ==
    \A c \in events.made : c = socket.id \/ c \in events.closed \cup events.ended \cup events.inClose
=============================================================================
