--------------------------- MODULE RequestService ---------------------------
(***************************************************************************)
(* What the HTTP server promises each client, without buffers, parsers,    *)
(* gates or sockets: the requests of a connection are handed to the        *)
(* application one at a time, each is answered at most once before the     *)
(* next is handed over, one handler runs at a time in the whole process,   *)
(* and nothing is handed over once the connection object is destroyed.     *)
(***************************************************************************)
EXTENDS Naturals

CONSTANTS Conn, NoConn

VARIABLES
    served,    \* requests handed to the application, per connection
    replied,   \* of those, the ones answered
    handler,   \* the connection whose handler is on the stack, or NoConn
    alive      \* whether the connection object exists

svars == <<served, replied, handler, alive>>

SInit ==
    /\ served = [c \in Conn |-> 0]
    /\ replied = [c \in Conn |-> 0]
    /\ handler = NoConn
    /\ alive = [c \in Conn |-> TRUE]

Serve(c) ==
    /\ alive[c] /\ handler = NoConn
    /\ replied[c] = served[c]
    /\ served' = [served EXCEPT ![c] = @ + 1]
    /\ handler' = c
    /\ UNCHANGED <<replied, alive>>

\* A complete response; the handler that produced it need not be running.
Reply(c) ==
    /\ alive[c]
    /\ replied[c] < served[c]
    /\ replied' = [replied EXCEPT ![c] = served[c]]
    /\ UNCHANGED <<served, handler, alive>>

Leave ==
    /\ handler # NoConn
    /\ handler' = NoConn
    /\ UNCHANGED <<served, replied, alive>>

\* A handler that throws is answered for, and leaves.
Fail(c) ==
    /\ handler = c
    /\ replied[c] < served[c]
    /\ replied' = [replied EXCEPT ![c] = served[c]]
    /\ handler' = NoConn
    /\ UNCHANGED <<served, alive>>

Vanish(D) ==
    /\ handler = NoConn
    /\ alive' = [c \in Conn |-> alive[c] /\ c \notin D]
    /\ UNCHANGED <<served, replied, handler>>

SNext ==
    \/ \E c \in Conn : Serve(c) \/ Reply(c) \/ Fail(c)
    \/ Leave
    \/ \E D \in SUBSET Conn : Vanish(D)

SSpec == SInit /\ [][SNext]_svars
=============================================================================
