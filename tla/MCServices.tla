----------------------------- MODULE MCServices -----------------------------
(* The small services of the runtime, one at a time: the part of a          *)
(* behaviour is chosen in the initial state.                                *)
EXTENDS NetServer, Resolver, ReactorClient, FetchBody

\* Two servers with two clients, or one server whose listeners come and go.
MCPrograms == {[listens |-> 2, clients |-> 2, closes |-> 2, listeners |-> 0, faults |-> 1],
               [listens |-> 1, clients |-> 2, closes |-> 0, listeners |-> 2, faults |-> 0]}

VARIABLE part
vars == <<part, serverVars, resolverVars, clientVars, bodyVars>>

Init ==
    /\ part \in {"server", "resolver", "client", "body"}
    /\ ServerInit /\ ResolverInit /\ ClientInit /\ BodyInit
    /\ part # "server" => told.program = CHOOSE p \in Programs : TRUE
Next ==
    /\ UNCHANGED part
    /\ \/ part = "server" /\ ServerNext /\ UNCHANGED <<resolverVars, clientVars, bodyVars>>
       \/ part = "resolver" /\ ResolverNext /\ UNCHANGED <<serverVars, clientVars, bodyVars>>
       \/ part = "client" /\ ClientNext /\ UNCHANGED <<serverVars, resolverVars, bodyVars>>
       \/ part = "body" /\ BodyNext /\ UNCHANGED <<serverVars, resolverVars, clientVars>>
Spec == Init /\ [][Next]_vars /\ ServerFairness /\ ResolverFairness /\ BodyFairness

\* A body is read once and a clone keeps its type; a client hears the events of its own connection alone
\* and keeps its connection.
ClientsSafe == BodyReadOnce /\ CloneKeepsType /\ EventsReachTheirHandlers /\ ConnectionsHeld

\* close() calls back, lookups end, readers of a body settle.
ServicesProgress == CloseCallbacksCome /\ LookupsEnd /\ ReadersSettle
=============================================================================
