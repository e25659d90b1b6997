--------------------------- MODULE ServicesProofs ---------------------------
(***************************************************************************)
(* Proofs about the services: the net Server, a ReactorSocket, and the     *)
(* bodies of Requests and Responses.                                       *)
(***************************************************************************)
EXTENDS MCServices, SequenceTheorems, FiniteSetTheorems

----------------
(***************************************************************************)
(* ServerSafe, for any number of servers, clients and listeners and any    *)
(* calls of the program.  Three facts carry the proof: the two queues of a *)
(* NetServerState agree (as many 'connection' events wait as accepted      *)
(* connections), nothing follows 'close' in the event queue, and the count *)
(* of connections is the number of connections whose destructor has not    *)
(* run.  For the listeners: those a connection is still owed to stand      *)
(* behind the cursor of the walk, and a once() listener that was called    *)
(* is in the list no more.                                                 *)
(***************************************************************************)

ServerSpec == ServerInit /\ [][ServerNext]_serverVars

Event == {"listening", "connection", "drop", "error", "close"}
Maxima == Limits \cup {0}
Listener == [id : Nat, once : BOOLEAN]
ServerRecord ==
    [nativeId : Nat, listening : BOOLEAN, max : Maxima, onClose : Nat, refused : Nat,
     listeners : Seq(Listener), registered : Nat]
NativeRecord ==
    [listener : BOOLEAN, events : Seq(Event), accepted : Seq(Nat), connections : Nat, max : Maxima,
     closing : BOOLEAN, closeEmitted : BOOLEAN]
ClientRecord == [server : Nat, state : {"open", "closed", "gone"}, given : Nat, seen : Seq(Nat)]
ToldRecord ==
    [program : Programs, closes : Seq(Nat), called : Nat, early : BOOLEAN, drops : Nat, errors : Nat, failures : Nat,
     closeCalls : Nat, over : BOOLEAN, steady : BOOLEAN, skipped : SUBSET Nat, once : SUBSET Nat]
ServerTypeOK ==
    /\ server \in ServerRecord
    /\ native \in Seq(NativeRecord)
    /\ clients \in Seq(ClientRecord)
    /\ draining \in Nat
    /\ walk \in [client : Nat, at : Nat, missing : SUBSET Nat]
    /\ told \in ToldRecord
    /\ server.nativeId \in 0..Len(native) /\ draining \in 0..Len(native) /\ walk.client \in 0..Len(clients)

Places(q, e) == {k \in DOMAIN q : q[k] = e}
Once(q) == \A a, b \in DOMAIN q : q[a] = q[b] => a = b
Live(i) == {c \in DOMAIN clients : clients[c].server = i /\ clients[c].state # "gone"}
HasClosed(i) == \E k \in DOMAIN told.closes : told.closes[k] = i

\* The queues of one server.
Queues(ns) ==
    /\ Cardinality(Places(ns.events, "connection")) = Len(ns.accepted)
    /\ Once(ns.accepted)
    /\ \A k \in DOMAIN ns.events : ns.events[k] = "close" => k = Len(ns.events) /\ ns.closeEmitted
    /\ ns.closing => ~ns.listener
    /\ ns.closeEmitted => ns.closing
\* One server: what it accepted, whom it counts, and when it is over.
Serves(i) ==
    /\ Queues(native[i])
    /\ \A k \in DOMAIN native[i].accepted : /\ native[i].accepted[k] \in DOMAIN clients
                                            /\ clients[native[i].accepted[k]].server = i
                                            /\ clients[native[i].accepted[k]].given = 0
    /\ native[i].connections = Cardinality(Live(i))
    /\ native[i].closeEmitted => native[i].connections = 0
    /\ HasClosed(i) => native[i].closeEmitted /\ \A k \in DOMAIN native[i].events : native[i].events[k] # "close"
\* One connection: given out, or waiting in its server's queue.
Owned(c) ==
    /\ clients[c].server \in DOMAIN native
    /\ \/ clients[c].given = 1
       \/ clients[c].given = 0 /\ \E k \in DOMAIN native[clients[c].server].accepted : native[clients[c].server].accepted[k] = c

\* The listeners: one entry per id, and a called once() listener has none.
Listed(l) == \E k \in DOMAIN server.listeners : server.listeners[k].id = l
Saw(c, l) == \E k \in DOMAIN clients[c].seen : clients[c].seen[k] = l
ListenersKnown ==
    /\ \A j, k \in DOMAIN server.listeners : server.listeners[j].id = server.listeners[k].id => j = k
    /\ \A k \in DOMAIN server.listeners : /\ server.listeners[k].id <= server.registered
                                          /\ server.listeners[k].once <=> server.listeners[k].id \in told.once
    /\ \A l \in told.once : l <= server.registered
    /\ \A c \in DOMAIN clients, l \in Nat : Saw(c, l) => l <= server.registered
    /\ \A c \in DOMAIN clients, l \in told.once : Saw(c, l) => ~Listed(l)
    /\ \A c, d \in DOMAIN clients, l \in told.once : Saw(c, l) /\ Saw(d, l) => c = d
\* The walk: whoever is owed the connection stands behind the cursor.
WalkKnown ==
    /\ walk.client = 0 => walk.missing = {}
    /\ \A l \in walk.missing : \E k \in DOMAIN server.listeners : k > walk.at /\ server.listeners[k].id = l
    /\ told.skipped = {}

ServerInv ==
    /\ ServerTypeOK
    /\ \A i \in DOMAIN native : Serves(i)
    /\ \A c \in DOMAIN clients : Owned(c)
    /\ \A k \in DOMAIN told.closes : told.closes[k] \in DOMAIN native
    /\ Once(told.closes)
    /\ ~told.early /\ ~told.over
    /\ ListenersKnown
    /\ WalkKnown

----------------
(* Counting in sequences.                                                  *)
LEMMA AppendFacts ==
  ASSUME NEW S, NEW q \in Seq(S), NEW x \in S
  PROVE  /\ Append(q, x) \in Seq(S) /\ Len(Append(q, x)) = Len(q) + 1 /\ Len(q) \in Nat
         /\ DOMAIN q = 1..Len(q) /\ DOMAIN Append(q, x) = 1..(Len(q) + 1)
         /\ \A k \in DOMAIN q : k \in DOMAIN Append(q, x) /\ Append(q, x)[k] = q[k] /\ k # Len(q) + 1
         /\ Len(q) + 1 \in DOMAIN Append(q, x) /\ Append(q, x)[Len(q) + 1] = x
         /\ \A k \in DOMAIN Append(q, x) : k \in DOMAIN q \/ k = Len(q) + 1
OBVIOUS

LEMMA TailFacts ==
  ASSUME NEW S, NEW q \in Seq(S), q # <<>>
  PROVE  /\ Tail(q) \in Seq(S) /\ Len(Tail(q)) = Len(q) - 1 /\ Len(q) \in Nat /\ Len(q) > 0
         /\ DOMAIN q = 1..Len(q) /\ DOMAIN Tail(q) = 1..(Len(q) - 1)
         /\ Head(q) = q[1] /\ Head(q) \in S /\ 1 \in DOMAIN q
         /\ \A k \in DOMAIN Tail(q) : k + 1 \in DOMAIN q /\ Tail(q)[k] = q[k + 1] /\ k + 1 # 1 /\ (k + 1) - 1 = k
         /\ \A k \in DOMAIN q : k # 1 => k - 1 \in DOMAIN Tail(q) /\ Tail(q)[k - 1] = q[k] /\ (k - 1) + 1 = k
OBVIOUS

LEMMA PlacesFinite ==
  ASSUME NEW S, NEW q \in Seq(S), NEW e
  PROVE  IsFiniteSet(Places(q, e)) /\ Cardinality(Places(q, e)) \in Nat
<1>1. Len(q) \in Nat /\ DOMAIN q = 1..Len(q)
  OBVIOUS
<1>2. IsFiniteSet(DOMAIN q)
  BY <1>1, FS_Interval
<1>3. Places(q, e) \in SUBSET (DOMAIN q)
  BY DEF Places
<1> QED BY <1>2, <1>3, FS_Subset, FS_CardinalityType

LEMMA CountAppend ==
  ASSUME NEW S, NEW q \in Seq(S), NEW x \in S, NEW e
  PROVE  Cardinality(Places(Append(q, x), e)) = IF x = e THEN Cardinality(Places(q, e)) + 1 ELSE Cardinality(Places(q, e))
<1> DEFINE n == Len(q)
<1>1. n + 1 \notin Places(q, e) /\ IsFiniteSet(Places(q, e))
  <2>1. n + 1 \notin Places(q, e)
    BY AppendFacts DEF Places
  <2>2. IsFiniteSet(Places(q, e))
    BY PlacesFinite
  <2> QED BY <2>1, <2>2
<1>2. CASE x = e
  <2>1. Places(Append(q, x), e) = Places(q, e) \cup {n + 1}
    BY <1>2, AppendFacts DEF Places
  <2> QED BY <1>1, <1>2, <2>1, FS_AddElement
<1>3. CASE x # e
  <2>1. Places(Append(q, x), e) = Places(q, e)
    BY <1>3, AppendFacts DEF Places
  <2> QED BY <1>3, <2>1
<1> QED BY <1>2, <1>3

LEMMA CountTail ==
  ASSUME NEW S, NEW q \in Seq(S), q # <<>>, NEW e
  PROVE  Cardinality(Places(Tail(q), e)) = IF Head(q) = e THEN Cardinality(Places(q, e)) - 1 ELSE Cardinality(Places(q, e))
<1> DEFINE A == Places(Tail(q), e)
           B == Places(q, e) \ {1}
           f == [k \in A |-> k + 1]
<1>1. \A k \in A : k \in DOMAIN Tail(q) /\ Tail(q)[k] = e
  BY DEF Places
<1>2. f \in [A -> B]
  BY <1>1, TailFacts DEF Places
<1>a. A \subseteq Nat
  BY <1>1, TailFacts
<1>3. \A a, b \in A : f[a] = f[b] => a = b
  BY <1>a
<1>4. \A t \in B : \E s \in A : f[s] = t
  <2> SUFFICES ASSUME NEW t \in B PROVE \E s \in A : f[s] = t
    OBVIOUS
  <2>1. t \in DOMAIN q /\ t # 1 /\ q[t] = e
    BY DEF Places
  <2>2. t - 1 \in A /\ (t - 1) + 1 = t
    BY <2>1, TailFacts DEF Places
  <2>3. f[t - 1] = t
    BY <2>2
  <2> QED BY <2>2, <2>3
<1> HIDE DEF f
<1>b. f \in Injection(A, B) /\ f \in Surjection(A, B)
  BY <1>2, <1>3, <1>4 DEF Injection, IsInjective, Surjection
<1>5. f \in Bijection(A, B)
  BY <1>b DEF Bijection
<1>6. ExistsBijection(A, B)
  BY <1>5 DEF ExistsBijection
<1>7. IsFiniteSet(A) /\ IsFiniteSet(Places(q, e))
  BY PlacesFinite, TailFacts
<1>8. Cardinality(B) = Cardinality(A)
  BY <1>6, <1>7, FS_Bijection
<1>9. 1 \in Places(q, e) <=> Head(q) = e
  BY TailFacts DEF Places
<1>10. Cardinality(B) = IF 1 \in Places(q, e) THEN Cardinality(Places(q, e)) - 1 ELSE Cardinality(Places(q, e))
  BY <1>7, FS_RemoveElement
<1> QED BY <1>8, <1>9, <1>10

----------------
(* The operators on a NetServerState.                                      *)
LEMMA PushFacts ==
  ASSUME NEW ns \in NativeRecord, NEW e \in Event
  PROVE  /\ Push(ns, e) \in NativeRecord /\ Push(ns, e).events = Append(ns.events, e)
         /\ Push(ns, e).accepted = ns.accepted /\ Push(ns, e).connections = ns.connections /\ Push(ns, e).max = ns.max
         /\ Push(ns, e).listener = ns.listener /\ Push(ns, e).closing = ns.closing /\ Push(ns, e).closeEmitted = ns.closeEmitted
<1>1. Append(ns.events, e) \in Seq(Event)
  BY DEF NativeRecord
<1> QED BY <1>1 DEF Push, NativeRecord

LEMMA QueuesPush ==
  ASSUME NEW ns \in NativeRecord, Queues(ns), ~ns.closeEmitted, NEW e \in Event \ {"connection", "close"}
  PROVE  Queues(Push(ns, e))
<1> DEFINE m == Push(ns, e)
<1>1. ns.events \in Seq(Event) /\ e # "connection" /\ e # "close" /\ e \in Event
  BY DEF NativeRecord
<1>2. /\ m.events = Append(ns.events, e) /\ m.accepted = ns.accepted
      /\ m.listener = ns.listener /\ m.closing = ns.closing /\ m.closeEmitted = ns.closeEmitted
  BY <1>1, PushFacts
<1>3. Cardinality(Places(Append(ns.events, e), "connection")) = Cardinality(Places(ns.events, "connection"))
  BY <1>1, CountAppend
<1>4. \A k \in DOMAIN Append(ns.events, e) : Append(ns.events, e)[k] # "close"
  BY <1>1, AppendFacts DEF Queues
<1> HIDE DEF m
<1>5. Queues(m)
  BY <1>2, <1>3, <1>4 DEF Queues
<1> QED BY <1>5 DEF m

\* 'close' is pushed once, at the end, by a server that closes and counts no connection.
LEMMA EmitCloseFacts ==
  ASSUME NEW ns \in NativeRecord, Queues(ns)
  PROVE  /\ maybeEmitClose(ns) \in NativeRecord /\ Queues(maybeEmitClose(ns))
         /\ maybeEmitClose(ns).accepted = ns.accepted /\ maybeEmitClose(ns).connections = ns.connections
         /\ maybeEmitClose(ns).closeEmitted => ns.closeEmitted \/ ns.connections = 0
         /\ ns.closeEmitted => maybeEmitClose(ns) = ns
<1>1. CASE ~ns.closing \/ ns.connections # 0 \/ ns.closeEmitted
  BY <1>1 DEF maybeEmitClose
<1>2. CASE ~(~ns.closing \/ ns.connections # 0 \/ ns.closeEmitted)
  <2> DEFINE c == [ns EXCEPT !.closeEmitted = TRUE]
             m == Push(c, "close")
  <2>1. m = maybeEmitClose(ns)
    BY <1>2 DEF maybeEmitClose
  <2>2. /\ c \in NativeRecord /\ c.events = ns.events /\ c.accepted = ns.accepted /\ c.connections = ns.connections
        /\ c.listener = ns.listener /\ c.closing = ns.closing /\ c.closeEmitted /\ "close" \in Event
    BY DEF NativeRecord, Event
  <2> HIDE DEF c
  <2>3. /\ m \in NativeRecord /\ m.events = Append(ns.events, "close") /\ m.accepted = ns.accepted
        /\ m.connections = ns.connections /\ m.listener = ns.listener /\ m.closing = ns.closing /\ m.closeEmitted
    BY <2>2, PushFacts
  <2>4. ns.events \in Seq(Event)
    BY DEF NativeRecord
  <2>5. Cardinality(Places(Append(ns.events, "close"), "connection")) = Cardinality(Places(ns.events, "connection"))
    BY <2>2, <2>4, CountAppend
  <2>6. \A k \in DOMAIN ns.events : ns.events[k] # "close"
    BY <1>2 DEF Queues
  <2>7. \A k \in DOMAIN Append(ns.events, "close") : Append(ns.events, "close")[k] = "close" => k = Len(Append(ns.events, "close"))
    BY <2>2, <2>4, <2>6, AppendFacts
  <2> HIDE DEF m
  <2>8. Queues(m)
    BY <1>2, <2>3, <2>5, <2>7 DEF Queues
  <2> QED BY <1>2, <2>1, <2>3, <2>8
<1> QED BY <1>1, <1>2

LEMMA StopFacts ==
  ASSUME NEW ns \in NativeRecord, Queues(ns)
  PROVE  /\ stop(ns) \in NativeRecord /\ Queues(stop(ns))
         /\ stop(ns).accepted = ns.accepted /\ stop(ns).connections = ns.connections
         /\ stop(ns).closeEmitted => ns.closeEmitted \/ ns.connections = 0
<1> DEFINE m == [ns EXCEPT !.listener = FALSE, !.closing = TRUE]
<1>1. /\ m \in NativeRecord /\ m.events = ns.events /\ m.accepted = ns.accepted /\ m.connections = ns.connections
      /\ ~m.listener /\ m.closing /\ m.closeEmitted = ns.closeEmitted
  BY DEF NativeRecord
<1>2. stop(ns) = maybeEmitClose(m)
  BY DEF stop
<1> HIDE DEF m
<1>3. Queues(m)
  BY <1>1 DEF Queues
<1> QED BY <1>1, <1>2, <1>3, EmitCloseFacts

----------------
(* Types.                                                                  *)
LEMMA ExceptFacts ==
  ASSUME NEW S, NEW q \in Seq(S), NEW i \in DOMAIN q, NEW x \in S
  PROVE  /\ [q EXCEPT ![i] = x] \in Seq(S) /\ Len([q EXCEPT ![i] = x]) = Len(q)
         /\ DOMAIN [q EXCEPT ![i] = x] = DOMAIN q
         /\ [q EXCEPT ![i] = x][i] = x /\ \A k \in DOMAIN q : k # i => [q EXCEPT ![i] = x][k] = q[k]
OBVIOUS

LEMMA NativeAt == ServerTypeOK => /\ \A i \in DOMAIN native : native[i] \in NativeRecord
                                  /\ \A c \in DOMAIN clients : clients[c] \in ClientRecord
                                  /\ DOMAIN native = 1..Len(native) /\ DOMAIN clients = 1..Len(clients)
                                  /\ Len(native) \in Nat /\ Len(clients) \in Nat
BY DEF ServerTypeOK

\* A step that leaves the records alone but for one NetServerState.
LEMMA TypeUpdate ==
  ASSUME ServerTypeOK, NEW i \in DOMAIN native, NEW ns \in NativeRecord, native' = [native EXCEPT ![i] = ns]
  PROVE  native' \in Seq(NativeRecord) /\ Len(native') = Len(native)
BY ExceptFacts DEF ServerTypeOK

LEMMA TypesNative ==
  ASSUME ServerInv,
         \/ Listen \/ ListenFails \/ CloseServer \/ (\E n \in Limits : SetMaxConnections(n))
         \/ \E i \in DOMAIN native : Accept(i) \/ AcceptFails(i) \/ ListenerFails(i)
  PROVE  ServerTypeOK'
<1>0. /\ ServerTypeOK /\ server \in ServerRecord /\ native \in Seq(NativeRecord) /\ clients \in Seq(ClientRecord) /\ draining \in Nat
      /\ walk \in [client : Nat, at : Nat, missing : SUBSET Nat] /\ told \in ToldRecord
      /\ server.nativeId \in 0..Len(native) /\ draining \in 0..Len(native) /\ walk.client \in 0..Len(clients)
  BY DEF ServerInv, ServerTypeOK
<1>a. \A i \in DOMAIN native : native[i] \in NativeRecord /\ Queues(native[i])
  BY <1>0, NativeAt DEF ServerInv, Serves
<1>b. Len(native) \in Nat /\ Len(clients) \in Nat /\ DOMAIN native = 1..Len(native) /\ DOMAIN clients = 1..Len(clients)
  BY <1>0
<1>1. CASE Listen
  <2> DEFINE n == Len(native)
             ns == NewNative(server.max)
  <2>1. ns \in NativeRecord
    <3>1. <<"listening">> \in Seq(Event) /\ <<>> \in Seq(Nat) /\ server.max \in Maxima
      BY <1>0 DEF Event, ServerRecord
    <3> QED BY <3>1 DEF NewNative, NativeRecord
  <2> HIDE DEF ns
  <2>2. native' = Append(native, ns) /\ server' = [server EXCEPT !.nativeId = n + 1] /\ UNCHANGED <<clients, draining, walk, told>>
    BY <1>1 DEF Listen, ns
  <2>3. native' \in Seq(NativeRecord) /\ Len(native') = n + 1 /\ n \in Nat
    BY <1>0, <2>1, <2>2
  <2> HIDE DEF n
  <2>a. n + 1 \in Nat
    BY <2>3
  <2>4. server' \in ServerRecord /\ server'.nativeId = n + 1
    BY <1>0, <2>2, <2>a DEF ServerRecord
  <2>5. n + 1 \in 0..(n + 1) /\ 0..n \subseteq 0..(n + 1)
    BY <2>3
  <2> QED BY <1>0, <2>2, <2>3, <2>4, <2>5 DEF ServerTypeOK, n
<1>2. CASE ListenFails
  <2>1. told' \in ToldRecord
    BY <1>0, <1>2 DEF ListenFails, ToldRecord
  <2> QED BY <1>0, <1>2, <2>1 DEF ListenFails, ServerTypeOK
<1>3. CASE CloseServer
  <2>1. told' = [told EXCEPT !.closeCalls = @ + 1] /\ told.closeCalls + 1 \in Nat /\ UNCHANGED <<clients, draining, walk>>
    BY <1>0, <1>3 DEF CloseServer, ToldRecord
  <2>2. told' \in ToldRecord
    BY <1>0, <2>1 DEF ToldRecord
  <2>3. CASE server.nativeId = 0
    <3>1. server' = [server EXCEPT !.refused = @ + 1] /\ server.refused + 1 \in Nat /\ native' = native
      BY <1>0, <1>3, <2>3 DEF CloseServer, ServerRecord
    <3>2. server' \in ServerRecord /\ server'.nativeId = server.nativeId
      BY <1>0, <3>1 DEF ServerRecord
    <3> QED BY <1>0, <2>1, <2>2, <3>1, <3>2 DEF ServerTypeOK
  <2>4. CASE server.nativeId # 0
    <3> DEFINE i == server.nativeId
               ns == IF native[i].closing THEN native[i] ELSE stop(native[i])
    <3>1. i \in DOMAIN native
      BY <1>0, <1>b, <2>4
    <3>2. ns \in NativeRecord
      BY <1>a, <3>1, StopFacts
    <3>3. native' = [native EXCEPT ![i] = ns] /\ server' = [server EXCEPT !.listening = FALSE, !.onClose = @ + 1]
      BY <1>3, <2>4, Zenon DEF CloseServer, Update
    <3>a. server.onClose + 1 \in Nat
      BY <1>0 DEF ServerRecord
    <3>4. server' \in ServerRecord /\ server'.nativeId = server.nativeId
      BY <1>0, <3>3, <3>a DEF ServerRecord
    <3> HIDE DEF ns
    <3>5. native' \in Seq(NativeRecord) /\ Len(native') = Len(native)
      BY <1>0, <3>1, <3>2, <3>3, TypeUpdate
    <3> QED BY <1>0, <2>1, <2>2, <3>4, <3>5 DEF ServerTypeOK
  <2> QED BY <2>3, <2>4
<1>4. ASSUME NEW n \in Limits, SetMaxConnections(n) PROVE ServerTypeOK'
  <2>1. server' = [server EXCEPT !.max = n] /\ UNCHANGED <<clients, draining, walk>> /\ n \in Maxima
    BY <1>4 DEF SetMaxConnections, Maxima
  <2>2. server' \in ServerRecord /\ server'.nativeId = server.nativeId
    BY <1>0, <2>1 DEF ServerRecord
  <2>3. told' \in ToldRecord
    <3>1. told' = [told EXCEPT !.steady = native = <<>>] /\ (native = <<>>) \in BOOLEAN
      BY <1>4 DEF SetMaxConnections
    <3> QED BY <1>0, <3>1 DEF ToldRecord
  <2>4. native' \in Seq(NativeRecord) /\ Len(native') = Len(native)
    <3>1. CASE server.nativeId = 0
      BY <1>0, <1>4, <3>1 DEF SetMaxConnections
    <3>2. CASE server.nativeId # 0
      <4> DEFINE i == server.nativeId
                 ns == [native[i] EXCEPT !.max = n]
      <4>1. i \in DOMAIN native
        BY <1>0, <1>b, <3>2
      <4>2. ns \in NativeRecord
        BY <1>a, <2>1, <4>1 DEF NativeRecord
      <4>3. native' = [native EXCEPT ![i] = ns]
        BY <1>4, <3>2 DEF SetMaxConnections
      <4> HIDE DEF ns
      <4> QED BY <1>0, <4>1, <4>2, <4>3, TypeUpdate
    <3> QED BY <3>1, <3>2
  <2> QED BY <1>0, <2>1, <2>2, <2>3, <2>4 DEF ServerTypeOK
<1>5. ASSUME NEW i \in DOMAIN native, Accept(i) PROVE ServerTypeOK'
  <2>0. UNCHANGED <<server, draining, walk>> /\ "drop" \in Event /\ "connection" \in Event
    BY <1>5 DEF Accept, Event
  <2>1. CASE Full(native[i])
    <3> DEFINE ns == Push(native[i], "drop")
    <3>1. ns \in NativeRecord
      BY <1>a, <1>5, <2>0, PushFacts
    <3>2. native' = [native EXCEPT ![i] = ns] /\ told' = [told EXCEPT !.drops = @ + 1] /\ clients' = clients
      BY <1>5, <2>1, Zenon DEF Accept, Update
    <3>a. told.drops + 1 \in Nat
      BY <1>0 DEF ToldRecord
    <3>3. told' \in ToldRecord
      BY <1>0, <3>2, <3>a DEF ToldRecord
    <3> HIDE DEF ns
    <3>4. native' \in Seq(NativeRecord) /\ Len(native') = Len(native)
      BY <1>0, <1>5, <3>1, <3>2, TypeUpdate
    <3> QED BY <1>0, <2>0, <3>2, <3>3, <3>4 DEF ServerTypeOK
  <2>2. CASE ~Full(native[i])
    <3> DEFINE m == [native[i] EXCEPT !.connections = @ + 1, !.accepted = Append(@, Len(clients) + 1)]
               ns == Push(m, "connection")
               rec == [server |-> i, state |-> "open", given |-> 0, seen |-> <<>>]
    <3>1. m \in NativeRecord
      <4>1. native[i].connections + 1 \in Nat /\ Append(native[i].accepted, Len(clients) + 1) \in Seq(Nat)
        BY <1>a, <1>b, <1>5 DEF NativeRecord
      <4> QED BY <1>a, <1>5, <4>1 DEF NativeRecord
    <3> HIDE DEF m
    <3>2. ns \in NativeRecord
      BY <2>0, <3>1, PushFacts
    <3>3. rec \in ClientRecord
      BY <1>b, <1>5 DEF ClientRecord
    <3>4. native' = [native EXCEPT ![i] = ns] /\ clients' = Append(clients, rec)
      BY <1>5, <2>2 DEF Accept, Update, m
    <3>5. told' \in ToldRecord
      <4>1. PICK o \in BOOLEAN : told' = [told EXCEPT !.over = o]
        BY <1>0, <1>5, <2>2 DEF Accept, ToldRecord
      <4> QED BY <1>0, <4>1 DEF ToldRecord
    <3> HIDE DEF ns, rec
    <3>6. native' \in Seq(NativeRecord) /\ Len(native') = Len(native)
      BY <1>0, <1>5, <3>2, <3>4, TypeUpdate
    <3>7. clients' \in Seq(ClientRecord) /\ Len(clients') = Len(clients) + 1
      BY <1>0, <3>3, <3>4
    <3>8. walk.client \in 0..(Len(clients) + 1)
      BY <1>0, <1>b
    <3> QED BY <1>0, <2>0, <3>5, <3>6, <3>7, <3>8 DEF ServerTypeOK
  <2> QED BY <2>1, <2>2
<1>6. ASSUME NEW i \in DOMAIN native, AcceptFails(i) \/ ListenerFails(i) PROVE ServerTypeOK'
  <2> DEFINE e == Push(native[i], "error")
  <2>0. "error" \in Event /\ "error" # "connection" /\ "error" # "close"
    BY DEF Event
  <2>a. native[i].listener
    BY <1>6 DEF AcceptFails, ListenerFails
  <2>1. e \in NativeRecord
    BY <1>a, <1>6, <2>0, PushFacts
  <2>2. Queues(e)
    <3>1. ~native[i].closeEmitted /\ "error" \in Event \ {"connection", "close"}
      BY <1>a, <1>6, <2>0, <2>a DEF Queues
    <3> QED BY <1>a, <1>6, <3>1, QueuesPush
  <2>3. stop(e) \in NativeRecord
    <3> HIDE DEF e
    <3> QED BY <2>1, <2>2, StopFacts
  <2>4. told' = [told EXCEPT !.errors = 1] /\ UNCHANGED <<server, clients, draining, walk>>
    BY <1>6 DEF AcceptFails, ListenerFails
  <2>5. told' \in ToldRecord
    BY <1>0, <2>4 DEF ToldRecord
  <2>6. native' = [native EXCEPT ![i] = e] \/ native' = [native EXCEPT ![i] = stop(e)]
    BY <1>6 DEF AcceptFails, ListenerFails, Update
  <2> HIDE DEF e
  <2>7. native' \in Seq(NativeRecord) /\ Len(native') = Len(native)
    BY <1>0, <1>6, <2>1, <2>3, <2>6, TypeUpdate
  <2> QED BY <1>0, <2>4, <2>5, <2>7 DEF ServerTypeOK
<1> QED BY <1>1, <1>2, <1>3, <1>4, <1>5, <1>6

\* A 'connection' event at the head of the queue has its connection at the head of the other.
LEMMA DrainHead ==
  ASSUME ServerInv, draining \in DOMAIN native, native[draining].events # <<>>, Head(native[draining].events) = "connection"
  PROVE  /\ native[draining].accepted # <<>> /\ Head(native[draining].accepted) \in DOMAIN clients
         /\ Head(native[draining].accepted) \in Nat
         /\ clients[Head(native[draining].accepted)].server = draining /\ clients[Head(native[draining].accepted)].given = 0
<1> DEFINE ns == native[draining]
<1>0. ServerTypeOK /\ Serves(draining)
  BY DEF ServerInv
<1>1. ns \in NativeRecord /\ ns.events \in Seq(Event) /\ ns.accepted \in Seq(Nat)
  BY <1>0, NativeAt DEF NativeRecord
<1>2. 1 \in Places(ns.events, "connection")
  BY <1>1, TailFacts DEF Places
<1>3. Cardinality(Places(ns.events, "connection")) # 0
  BY <1>1, <1>2, PlacesFinite, FS_EmptySet
<1>4. Len(ns.accepted) # 0
  BY <1>0, <1>3 DEF Serves, Queues
<1>5. ns.accepted # <<>>
  BY <1>1, <1>4
<1>6. Head(ns.accepted) = ns.accepted[1] /\ 1 \in DOMAIN ns.accepted /\ Head(ns.accepted) \in Nat
  BY <1>1, <1>5, TailFacts
<1> QED BY <1>0, <1>5, <1>6 DEF Serves

LEMMA RemoveFacts ==
  ASSUME NEW S, NEW q \in Seq(S), NEW k \in DOMAIN q
  PROVE  /\ RemoveAt(q, k) \in Seq(S) /\ Len(RemoveAt(q, k)) = Len(q) - 1 /\ DOMAIN RemoveAt(q, k) = 1..(Len(q) - 1)
         /\ \A j \in 1..(Len(q) - 1) : RemoveAt(q, k)[j] = IF j < k THEN q[j] ELSE q[j + 1]
<1>0. Len(q) \in Nat /\ k \in 1..Len(q)
  OBVIOUS
<1> DEFINE a == SubSeq(q, 1, k - 1)
           b == SubSeq(q, k + 1, Len(q))
<1>1. a \in Seq(S) /\ Len(a) = k - 1 /\ \A j \in 1..(k - 1) : a[j] = q[j]
  BY <1>0
<1>2. b \in Seq(S) /\ Len(b) = Len(q) - k /\ \A j \in 1..(Len(q) - k) : b[j] = q[k + j]
  BY <1>0
<1> HIDE DEF a, b
<1>3. a \o b \in Seq(S) /\ Len(a \o b) = Len(q) - 1 /\ DOMAIN (a \o b) = 1..(Len(q) - 1)
  BY <1>0, <1>1, <1>2
<1>4. ASSUME NEW j \in 1..(Len(q) - 1) PROVE (a \o b)[j] = IF j < k THEN q[j] ELSE q[j + 1]
  <2>1. CASE j < k
    BY <1>0, <1>1, <1>2, <2>1
  <2>2. CASE ~(j < k)
    <3>1. j - (k - 1) \in 1..(Len(q) - k) /\ k + (j - (k - 1)) = j + 1
      BY <1>0, <2>2
    <3>2. (a \o b)[j] = b[j - (k - 1)]
      <4>1. j \in 1 .. (Len(a) + Len(b)) /\ ~(j <= Len(a)) /\ Len(a) = k - 1
        BY <1>0, <1>1, <1>2, <2>2
      <4>2. (a \o b)[j] = IF j <= Len(a) THEN a[j] ELSE b[j - Len(a)]
        BY <1>1, <1>2, <4>1, ConcatProperties
      <4> QED BY <4>1, <4>2
    <3> QED BY <1>2, <2>2, <3>1, <3>2
  <2> QED BY <2>1, <2>2
<1>5. RemoveAt(q, k) = a \o b
  BY DEF RemoveAt, a, b
<1> QED BY <1>3, <1>4, <1>5

LEMMA ConnectionClosedFacts ==
  ASSUME NEW ns \in NativeRecord, Queues(ns)
  PROVE  /\ connectionClosed(ns) \in NativeRecord /\ Queues(connectionClosed(ns))
         /\ connectionClosed(ns).accepted = ns.accepted
         /\ connectionClosed(ns).connections = IF ns.connections > 0 THEN ns.connections - 1 ELSE ns.connections
         /\ connectionClosed(ns).closeEmitted => ns.closeEmitted \/ connectionClosed(ns).connections = 0
         /\ ns.closeEmitted => connectionClosed(ns).closeEmitted /\ connectionClosed(ns).events = ns.events
<1> DEFINE n == IF ns.connections > 0 THEN ns.connections - 1 ELSE ns.connections
           m == [ns EXCEPT !.connections = n]
<1>1. n \in Nat
  BY DEF NativeRecord
<1>2. connectionClosed(ns) = maybeEmitClose(m)
  BY DEF connectionClosed
<1> HIDE DEF n
<1>3. /\ m \in NativeRecord /\ m.events = ns.events /\ m.accepted = ns.accepted /\ m.connections = n
      /\ m.listener = ns.listener /\ m.closing = ns.closing /\ m.closeEmitted = ns.closeEmitted
  BY <1>1 DEF NativeRecord
<1> HIDE DEF m
<1>4. Queues(m)
  BY <1>3 DEF Queues
<1>5. /\ maybeEmitClose(m) \in NativeRecord /\ Queues(maybeEmitClose(m))
      /\ maybeEmitClose(m).accepted = ns.accepted /\ maybeEmitClose(m).connections = n
      /\ maybeEmitClose(m).closeEmitted => ns.closeEmitted \/ n = 0
      /\ ns.closeEmitted => maybeEmitClose(m) = m
  BY <1>3, <1>4, EmitCloseFacts
<1> QED BY <1>2, <1>3, <1>5 DEF n

LEMMA TypesServer ==
  ASSUME ServerInv,
         \/ \E c \in DOMAIN clients : ClientCloses(c) \/ Purge(c)
         \/ Notified \/ DrainEvent \/ Drained \/ CallListener \/ ListenersCalled \/ RemoveAllListeners
         \/ \E once, prepend \in BOOLEAN : AddListener(once, prepend)
  PROVE  ServerTypeOK'
<1>0. /\ ServerTypeOK /\ server \in ServerRecord /\ native \in Seq(NativeRecord) /\ clients \in Seq(ClientRecord) /\ draining \in Nat
      /\ walk \in [client : Nat, at : Nat, missing : SUBSET Nat] /\ told \in ToldRecord
      /\ server.nativeId \in 0..Len(native) /\ draining \in 0..Len(native) /\ walk.client \in 0..Len(clients)
  BY DEF ServerInv, ServerTypeOK
<1>a. \A i \in DOMAIN native : native[i] \in NativeRecord /\ Queues(native[i])
  BY <1>0, NativeAt DEF ServerInv, Serves
<1>b. Len(native) \in Nat /\ Len(clients) \in Nat /\ DOMAIN native = 1..Len(native) /\ DOMAIN clients = 1..Len(clients)
  BY <1>0
<1>c. \A c \in DOMAIN clients : clients[c] \in ClientRecord /\ clients[c].server \in DOMAIN native
  BY <1>0, NativeAt DEF ServerInv, Owned
<1>1. ASSUME NEW c \in DOMAIN clients, ClientCloses(c) \/ Purge(c) PROVE ServerTypeOK'
  <2>1. PICK s \in {"closed", "gone"} : clients' = [clients EXCEPT ![c] = [clients[c] EXCEPT !.state = s]]
    BY <1>1 DEF ClientCloses, Purge
  <2>2. [clients[c] EXCEPT !.state = s] \in ClientRecord
    BY <1>1, <1>c DEF ClientRecord
  <2>3. clients' \in Seq(ClientRecord) /\ Len(clients') = Len(clients)
    BY <1>0, <1>1, <2>1, <2>2, ExceptFacts
  <2>4. UNCHANGED <<server, draining, walk, told>>
    BY <1>1 DEF ClientCloses, Purge
  <2>5. native' \in Seq(NativeRecord) /\ Len(native') = Len(native)
    <3>1. CASE ClientCloses(c)
      BY <1>0, <3>1 DEF ClientCloses
    <3>2. CASE Purge(c)
      <4>1. native' = [native EXCEPT ![clients[c].server] = connectionClosed(native[clients[c].server])]
        BY <3>2, Zenon DEF Purge, Update
      <4>2. clients[c].server \in DOMAIN native /\ connectionClosed(native[clients[c].server]) \in NativeRecord
        BY <1>1, <1>a, <1>c, ConnectionClosedFacts
      <4> QED BY <1>0, <4>1, <4>2, TypeUpdate
    <3> QED BY <1>1, <3>1, <3>2
  <2> QED BY <1>0, <2>3, <2>4, <2>5 DEF ServerTypeOK
<1>2. CASE Notified \/ Drained
  <2>1. UNCHANGED <<server, native, clients, walk, told>> /\ draining' \in {0, server.nativeId}
    BY <1>2 DEF Notified, Drained
  <2>2. draining' \in Nat /\ draining' \in 0..Len(native)
    BY <1>0, <1>b, <2>1
  <2> QED BY <1>0, <2>1, <2>2 DEF ServerTypeOK
<1>3. CASE DrainEvent
  <2> DEFINE ns == native[draining]
             e == Head(ns.events)
             c == Head(ns.accepted)
             m == [ns EXCEPT !.events = Tail(@), !.accepted = IF e = "connection" THEN Tail(@) ELSE @]
  <2>1. draining \in DOMAIN native /\ ns.events # <<>>
    BY <1>0, <1>b, <1>3 DEF DrainEvent
  <2>2. ns \in NativeRecord /\ ns.events \in Seq(Event) /\ ns.accepted \in Seq(Nat)
    BY <1>a, <2>1 DEF NativeRecord
  <2>a. e = "connection" => c \in DOMAIN clients /\ ns.accepted # <<>> /\ c \in Nat
    BY <1>3, <2>1, DrainHead
  <2>3. m \in NativeRecord
    <3>1. Tail(ns.events) \in Seq(Event) /\ (e = "connection" => Tail(ns.accepted) \in Seq(Nat))
      BY <2>1, <2>2, <2>a, TailFacts
    <3> HIDE DEF e
    <3>2. (IF e = "connection" THEN Tail(ns.accepted) ELSE ns.accepted) \in Seq(Nat)
      BY <2>2, <3>1
    <3> QED BY <2>2, <3>1, <3>2 DEF NativeRecord
  <2>4. native' = [native EXCEPT ![draining] = m]
    BY <1>0, <1>3, <2>1 DEF DrainEvent
  <2>5. native' \in Seq(NativeRecord) /\ Len(native') = Len(native)
    <3> HIDE DEF m
    <3> QED BY <1>0, <2>1, <2>3, <2>4, TypeUpdate
  <2>6. clients' \in Seq(ClientRecord) /\ Len(clients') = Len(clients)
    <3>1. CASE e = "connection"
      <4>1. clients' = [clients EXCEPT ![c] = [clients[c] EXCEPT !.given = @ + 1]] /\ c \in DOMAIN clients
        BY <1>3, <2>a, <3>1 DEF DrainEvent
      <4>2. clients[c].given + 1 \in Nat
        BY <1>c, <4>1 DEF ClientRecord
      <4>3. [clients[c] EXCEPT !.given = @ + 1] \in ClientRecord
        BY <1>c, <4>1, <4>2 DEF ClientRecord
      <4> HIDE DEF c
      <4> QED BY <1>0, <4>1, <4>3, ExceptFacts
    <3>2. CASE e # "connection"
      BY <1>0, <1>3, <3>2 DEF DrainEvent
    <3> QED BY <3>1, <3>2
  <2>7. server' \in ServerRecord /\ server'.nativeId \in 0..Len(native)
    <3>1. server' = Give(server, ns, e)
      BY <1>3 DEF DrainEvent
    <3> HIDE DEF e, ns
    <3>2. 0 \in 0..Len(native)
      BY <1>b
    <3> QED BY <1>0, <3>1, <3>2 DEF Give, ServerRecord
  <2>8. told' \in ToldRecord
    <3>1. CASE e = "close"
      <4>1. PICK x \in BOOLEAN : told' = [told EXCEPT !.closes = Append(@, draining), !.called = @ + server.onClose, !.early = x]
        BY <1>0, <1>3, <3>1 DEF DrainEvent, ToldRecord
      <4>2. Append(told.closes, draining) \in Seq(Nat) /\ told.called + server.onClose \in Nat
        BY <1>0 DEF ToldRecord, ServerRecord
      <4> QED BY <1>0, <4>1, <4>2 DEF ToldRecord
    <3>2. CASE e # "close"
      BY <1>0, <1>3, <3>2 DEF DrainEvent
    <3> QED BY <3>1, <3>2
  <2>9. walk' \in [client : Nat, at : Nat, missing : SUBSET Nat] /\ walk'.client \in 0..Len(clients)
    <3>1. CASE e = "connection"
      <4>1. walk' = [client |-> c, at |-> 0, missing |-> {l.id : l \in ToSet(server.listeners)}]
        BY <1>3, <3>1 DEF DrainEvent
      <4>2. {l.id : l \in ToSet(server.listeners)} \subseteq Nat
        <5>1. server.listeners \in Seq(Listener)
          BY <1>0 DEF ServerRecord
        <5>2. \A l \in ToSet(server.listeners) : l \in Listener
          BY <5>1 DEF ToSet
        <5>3. \A l \in Listener : l.id \in Nat
          BY DEF Listener
        <5> QED BY <5>2, <5>3
      <4>3. c \in 0..Len(clients) /\ c \in Nat
        BY <1>b, <2>a, <3>1
      <4> HIDE DEF c
      <4> QED BY <4>1, <4>2, <4>3
    <3>2. CASE e # "connection"
      BY <1>0, <1>3, <3>2 DEF DrainEvent
    <3> QED BY <3>1, <3>2
  <2>10. draining' = draining
    BY <1>3 DEF DrainEvent
  <2> QED BY <1>0, <2>5, <2>6, <2>7, <2>8, <2>9, <2>10 DEF ServerTypeOK
<1>4. CASE CallListener
  <2> DEFINE l == server.listeners[walk.at + 1]
             called == Call(server.listeners, walk)
             r == [clients[walk.client] EXCEPT !.seen = Append(@, l.id)]
  <2>1. walk.client \in DOMAIN clients /\ walk.at \in Nat /\ walk.at + 1 \in DOMAIN server.listeners /\ server.listeners \in Seq(Listener)
    BY <1>0, <1>b, <1>4 DEF CallListener, ServerRecord
  <2>2. l.id \in Nat
    <3>1. l \in Listener
      BY <2>1
    <3> QED BY <3>1 DEF Listener
  <2>3. r \in ClientRecord
    <3>1. Append(clients[walk.client].seen, l.id) \in Seq(Nat)
      BY <1>c, <2>1, <2>2 DEF ClientRecord
    <3> QED BY <1>c, <2>1, <3>1 DEF ClientRecord
  <2>4. called[1] \in Seq(Listener) /\ called[2] \in Nat
    BY <2>1, RemoveFacts DEF Call
  <2>5. /\ server' = [server EXCEPT !.listeners = called[1]]
        /\ walk' = [walk EXCEPT !.at = called[2], !.missing = @ \ {l.id}]
        /\ clients' = [clients EXCEPT ![walk.client] = r]
        /\ UNCHANGED <<native, draining, told>>
    BY <1>4 DEF CallListener
  <2> HIDE DEF called, l, r
  <2>6. server' \in ServerRecord /\ server'.nativeId = server.nativeId
    BY <1>0, <2>4, <2>5 DEF ServerRecord
  <2>7. walk' \in [client : Nat, at : Nat, missing : SUBSET Nat] /\ walk'.client = walk.client
    BY <1>0, <2>4, <2>5
  <2>8. clients' \in Seq(ClientRecord) /\ Len(clients') = Len(clients)
    BY <1>0, <2>1, <2>3, <2>5, ExceptFacts
  <2> QED BY <1>0, <2>5, <2>6, <2>7, <2>8 DEF ServerTypeOK
<1>5. CASE ListenersCalled
  <2>1. walk' \in [client : Nat, at : Nat, missing : SUBSET Nat] /\ walk'.client = 0
    BY <1>0, <1>5 DEF ListenersCalled
  <2>2. told' \in ToldRecord
    BY <1>0, <1>5 DEF ListenersCalled, ToldRecord
  <2>3. 0 \in 0..Len(clients)
    BY <1>b
  <2>4. UNCHANGED <<server, native, clients, draining>>
    BY <1>5 DEF ListenersCalled
  <2> QED BY <1>0, <2>1, <2>2, <2>3, <2>4 DEF ServerTypeOK
<1>6. CASE RemoveAllListeners
  <2>1. walk' \in [client : Nat, at : Nat, missing : SUBSET Nat] /\ walk'.client = walk.client
    BY <1>0, <1>6 DEF RemoveAllListeners
  <2>2. server' \in ServerRecord /\ server'.nativeId = server.nativeId
    <3>1. server' = [server EXCEPT !.listeners = <<>>] /\ <<>> \in Seq(Listener)
      BY <1>6 DEF RemoveAllListeners
    <3> QED BY <1>0, <3>1 DEF ServerRecord
  <2>3. UNCHANGED <<native, clients, draining, told>>
    BY <1>6 DEF RemoveAllListeners
  <2> QED BY <1>0, <2>1, <2>2, <2>3 DEF ServerTypeOK
<1>7. ASSUME NEW once \in BOOLEAN, NEW prepend \in BOOLEAN, AddListener(once, prepend) PROVE ServerTypeOK'
  <2> DEFINE n == server.registered + 1
             l == [id |-> n, once |-> once]
             q == IF prepend THEN <<l>> \o server.listeners ELSE Append(server.listeners, l)
  <2>1. n \in Nat /\ server.listeners \in Seq(Listener)
    BY <1>0 DEF ServerRecord
  <2>a. server' = [server EXCEPT !.registered = n, !.listeners = q] /\ UNCHANGED <<native, clients, draining, walk>>
    BY <1>7 DEF AddListener
  <2>b. told' = IF once THEN [told EXCEPT !.once = @ \cup {n}] ELSE told
    BY <1>7 DEF AddListener
  <2> HIDE DEF n
  <2>2. l \in Listener
    BY <2>1 DEF Listener
  <2>3. q \in Seq(Listener)
    <3> HIDE DEF l
    <3> QED BY <2>1, <2>2
  <2> HIDE DEF q
  <2>4. server' \in ServerRecord /\ server'.nativeId = server.nativeId
    BY <1>0, <2>1, <2>3, <2>a DEF ServerRecord
  <2>5. told' \in ToldRecord
    BY <1>0, <2>1, <2>b DEF ToldRecord
  <2> QED BY <1>0, <2>4, <2>5, <2>a DEF ServerTypeOK
<1> QED BY <1>1, <1>2, <1>3, <1>4, <1>5, <1>6, <1>7

----------------
(* What a step leaves alone.                                               *)
NativeHalf ==
    /\ \A i \in DOMAIN native : Serves(i)
    /\ \A c \in DOMAIN clients : Owned(c)
    /\ \A k \in DOMAIN told.closes : told.closes[k] \in DOMAIN native
    /\ Once(told.closes)
    /\ ~told.early /\ ~told.over

\* What a server sees of a connection.
Kept(c) ==
    /\ c \in DOMAIN clients' /\ clients'[c].server = clients[c].server /\ clients'[c].given = clients[c].given
    /\ clients'[c].state = "gone" <=> clients[c].state = "gone"

LEMMA SameNative ==
  ASSUME ServerInv, native' = native, DOMAIN clients' = DOMAIN clients, \A c \in DOMAIN clients : Kept(c),
         told'.closes = told.closes, told'.early = told.early, told'.over = told.over
  PROVE  NativeHalf'
<1>1. ASSUME NEW i \in DOMAIN native PROVE Serves(i)'
  <2>1. Live(i)' = Live(i)
    BY DEF Live, Kept
  <2>2. HasClosed(i)' <=> HasClosed(i)
    BY DEF HasClosed
  <2>3. Serves(i)
    BY <1>1 DEF ServerInv
  <2>4. \A k \in DOMAIN native[i].accepted : /\ native[i].accepted[k] \in DOMAIN clients'
                                             /\ clients'[native[i].accepted[k]].server = i
                                             /\ clients'[native[i].accepted[k]].given = 0
    BY <2>3 DEF Serves, Kept
  <2> QED BY <2>1, <2>2, <2>3, <2>4 DEF Serves
<1>2. ASSUME NEW c \in DOMAIN clients PROVE Owned(c)'
  BY <1>2 DEF ServerInv, Owned, Kept
<1> QED BY <1>1, <1>2 DEF NativeHalf, ServerInv

\* The servers and connections that a step of server i does not concern.
LEMMA OtherServers ==
  ASSUME ServerInv, NEW i \in DOMAIN native, NEW ns, native' = [native EXCEPT ![i] = ns],
         \A c \in DOMAIN clients : c \in DOMAIN clients' /\ clients'[c].server = clients[c].server,
         \A c \in DOMAIN clients : clients[c].server # i => Kept(c),
         \A c \in DOMAIN clients' : c \in DOMAIN clients \/ clients'[c].server = i,
         \A j \in DOMAIN native : j # i => (HasClosed(j)' => HasClosed(j))
  PROVE  /\ \A j \in DOMAIN native : j # i => Serves(j)'
         /\ \A c \in DOMAIN clients : clients[c].server # i => Owned(c)'
<1>1. ASSUME NEW j \in DOMAIN native, j # i PROVE Serves(j)'
  <2>0. native'[j] = native[j]
    BY <1>1
  <2>1. Live(j)' = Live(j)
    BY <1>1 DEF Live, Kept
  <2>2. HasClosed(j)' => HasClosed(j)
    BY <1>1
  <2>3. Serves(j)
    BY <1>1 DEF ServerInv
  <2>4. \A k \in DOMAIN native[j].accepted : /\ native[j].accepted[k] \in DOMAIN clients'
                                             /\ clients'[native[j].accepted[k]].server = j
                                             /\ clients'[native[j].accepted[k]].given = 0
    BY <1>1, <2>3 DEF Serves, Kept
  <2> QED BY <2>0, <2>1, <2>2, <2>3, <2>4 DEF Serves
<1>2. ASSUME NEW c \in DOMAIN clients, clients[c].server # i PROVE Owned(c)'
  <2>1. Owned(c) /\ Kept(c)
    BY <1>2 DEF ServerInv
  <2>2. clients[c].server \in DOMAIN native' /\ native'[clients[c].server] = native[clients[c].server]
    BY <1>2, <2>1 DEF Owned
  <2> QED BY <2>1, <2>2 DEF Owned, Kept
<1> QED BY <1>1, <1>2

\* A step that changes one NetServerState and neither its connections nor the queue of them.
LEMMA UpdateNative ==
  ASSUME ServerInv, NEW i \in DOMAIN native, NEW ns \in NativeRecord, native' = [native EXCEPT ![i] = ns], clients' = clients,
         told'.closes = told.closes, told'.early = told.early, told'.over = told.over,
         Queues(ns), ns.accepted = native[i].accepted, ns.connections = native[i].connections,
         ns.closeEmitted => native[i].closeEmitted \/ native[i].connections = 0,
         HasClosed(i) => ns.closeEmitted /\ \A k \in DOMAIN ns.events : ns.events[k] # "close"
  PROVE  NativeHalf'
<1>0. DOMAIN native' = DOMAIN native /\ native'[i] = ns
  OBVIOUS
<1>1. \A j \in DOMAIN native : HasClosed(j)' <=> HasClosed(j)
  BY DEF HasClosed
<1>2. /\ \A j \in DOMAIN native : j # i => Serves(j)'
      /\ \A c \in DOMAIN clients : clients[c].server # i => Owned(c)'
  <2>1. \A c \in DOMAIN clients : Kept(c)
    BY DEF Kept
  <2> QED BY <1>1, <2>1, OtherServers
<1>3. Serves(i)'
  <2>1. Live(i)' = Live(i)
    BY DEF Live
  <2>2. Serves(i)
    BY DEF ServerInv
  <2>3. ns.closeEmitted => ns.connections = 0
    BY <2>2 DEF Serves
  <2> QED BY <1>0, <1>1, <2>1, <2>2, <2>3 DEF Serves
<1>4. ASSUME NEW c \in DOMAIN clients, clients[c].server = i PROVE Owned(c)'
  BY <1>0, <1>4 DEF ServerInv, Owned
<1> QED BY <1>0, <1>2, <1>3, <1>4 DEF NativeHalf, ServerInv

LEMMA SameKnown ==
  ASSUME ServerInv, server'.listeners = server.listeners, server'.registered = server.registered, told'.once = told.once,
         \A c \in DOMAIN clients' : (c \in DOMAIN clients /\ clients'[c].seen = clients[c].seen) \/ clients'[c].seen = <<>>
  PROVE  ListenersKnown'
<1>1. \A l : Listed(l)' <=> Listed(l)
  BY DEF Listed
<1>2. \A c \in DOMAIN clients' : \A l : Saw(c, l)' => c \in DOMAIN clients /\ Saw(c, l)
  BY DEF Saw
<1>3. \A c \in DOMAIN clients', l \in told.once : Saw(c, l)' => ~Listed(l)'
  BY <1>1, <1>2 DEF ServerInv, ListenersKnown
<1>4. \A c, d \in DOMAIN clients', l \in told.once : Saw(c, l)' /\ Saw(d, l)' => c = d
  BY <1>2 DEF ServerInv, ListenersKnown
<1>5. \A c \in DOMAIN clients', l \in Nat : Saw(c, l)' => l <= server.registered
  BY <1>2 DEF ServerInv, ListenersKnown
<1>6. /\ \A j, k \in DOMAIN server.listeners : server.listeners[j].id = server.listeners[k].id => j = k
      /\ \A k \in DOMAIN server.listeners : /\ server.listeners[k].id <= server.registered
                                            /\ server.listeners[k].once <=> server.listeners[k].id \in told.once
      /\ \A l \in told.once : l <= server.registered
  BY DEF ServerInv, ListenersKnown
<1> QED BY <1>3, <1>4, <1>5, <1>6 DEF ListenersKnown

LEMMA SameWalk ==
  ASSUME ServerInv, server'.listeners = server.listeners, walk' = walk, told'.skipped = told.skipped
  PROVE  WalkKnown'
BY DEF ServerInv, WalkKnown

----------------
(* The servers and their connections, action by action.                    *)
LEMMA NativeQuiet ==
  ASSUME ServerInv,
         \/ ListenFails \/ Notified \/ Drained \/ CallListener \/ ListenersCalled \/ RemoveAllListeners
         \/ (\E c \in DOMAIN clients : ClientCloses(c)) \/ (\E once, prepend \in BOOLEAN : AddListener(once, prepend))
  PROVE  NativeHalf'
<1>0. ServerTypeOK /\ told \in ToldRecord /\ \A c \in DOMAIN clients : clients[c] \in ClientRecord
  BY NativeAt DEF ServerInv, ServerTypeOK
<1>1. native' = native
  BY DEF ListenFails, Notified, Drained, CallListener, ListenersCalled, RemoveAllListeners, ClientCloses, AddListener
<1>2. told'.closes = told.closes /\ told'.early = told.early /\ told'.over = told.over
  BY <1>0 DEF ListenFails, Notified, Drained, CallListener, ListenersCalled, RemoveAllListeners, ClientCloses, AddListener, ToldRecord
<1>3. CASE clients' = clients
  <2>1. \A c \in DOMAIN clients : Kept(c)
    BY <1>3 DEF Kept
  <2> QED BY <1>1, <1>2, <1>3, <2>1, SameNative
<1>4. ASSUME NEW d \in DOMAIN clients, ClientCloses(d) PROVE NativeHalf'
  <2>1. clients' = [clients EXCEPT ![d].state = "closed"] /\ clients[d].state = "open"
    BY <1>4 DEF ClientCloses
  <2>2. \A c \in DOMAIN clients : Kept(c)
    BY <1>0, <2>1 DEF Kept, ClientRecord
  <2>3. DOMAIN clients' = DOMAIN clients
    BY <2>1
  <2> QED BY <1>1, <1>2, <2>2, <2>3, SameNative
<1>5. CASE CallListener
  <2>1. PICK d, s : clients' = [clients EXCEPT ![d].seen = s]
    BY <1>5 DEF CallListener
  <2>2. \A c \in DOMAIN clients : Kept(c)
    BY <1>0, <2>1 DEF Kept, ClientRecord
  <2>3. DOMAIN clients' = DOMAIN clients
    BY <2>1
  <2> QED BY <1>1, <1>2, <2>2, <2>3, SameNative
<1>6. CASE \/ ListenFails \/ Notified \/ Drained \/ ListenersCalled \/ RemoveAllListeners
           \/ \E once, prepend \in BOOLEAN : AddListener(once, prepend)
  <2>1. clients' = clients
    BY <1>6 DEF ListenFails, Notified, Drained, ListenersCalled, RemoveAllListeners, AddListener
  <2> QED BY <1>3, <2>1
<1> QED BY <1>4, <1>5, <1>6

LEMMA NativeUpdates ==
  ASSUME ServerInv,
         \/ CloseServer \/ (\E n \in Limits : SetMaxConnections(n))
         \/ \E i \in DOMAIN native : (Accept(i) /\ Full(native[i])) \/ AcceptFails(i) \/ ListenerFails(i)
  PROVE  NativeHalf'
<1>0. ServerTypeOK /\ told \in ToldRecord /\ server \in ServerRecord /\ server.nativeId \in 0..Len(native)
  BY DEF ServerInv, ServerTypeOK
<1>a. \A i \in DOMAIN native : native[i] \in NativeRecord /\ Queues(native[i])
  BY <1>0, NativeAt DEF ServerInv, Serves
<1>b. Len(native) \in Nat /\ DOMAIN native = 1..Len(native)
  BY <1>0, NativeAt
<1>c. ASSUME NEW i \in DOMAIN native, native[i].listener PROVE ~native[i].closing /\ ~native[i].closeEmitted /\ ~HasClosed(i)
  BY <1>a, <1>c DEF ServerInv, Serves, Queues
<1>d. ASSUME NEW i \in DOMAIN native, ~native[i].closing PROVE ~native[i].closeEmitted /\ ~HasClosed(i)
  BY <1>a, <1>d DEF ServerInv, Serves, Queues
<1>e. \A c \in DOMAIN clients : clients' = clients => Kept(c)
  BY DEF Kept
<1>1. CASE CloseServer
  <2>1. clients' = clients /\ told' = [told EXCEPT !.closeCalls = @ + 1]
    BY <1>1 DEF CloseServer
  <2>2. told'.closes = told.closes /\ told'.early = told.early /\ told'.over = told.over
    BY <1>0, <2>1 DEF ToldRecord
  <2>3. CASE server.nativeId = 0
    <3>1. native' = native
      BY <1>1, <2>3 DEF CloseServer
    <3> QED BY <1>e, <2>1, <2>2, <3>1, SameNative
  <2>4. CASE server.nativeId # 0
    <3> DEFINE i == server.nativeId
    <3>1. i \in DOMAIN native
      BY <1>0, <1>b, <2>4
    <3>2. CASE native[i].closing
      <4>1. native' = [native EXCEPT ![i] = native[i]]
        BY <1>1, <2>4, <3>2, Zenon DEF CloseServer, Update
      <4>2. native' = native
        BY <1>0, <3>1, <4>1 DEF ServerTypeOK
      <4> QED BY <1>e, <2>1, <2>2, <4>2, SameNative
    <3>3. CASE ~native[i].closing
      <4>1. native' = [native EXCEPT ![i] = stop(native[i])]
        BY <1>1, <2>4, <3>3, Zenon DEF CloseServer, Update
      <4>2. ~native[i].closeEmitted /\ ~HasClosed(i)
        BY <1>d, <3>1, <3>3
      <4>3. /\ stop(native[i]) \in NativeRecord /\ Queues(stop(native[i])) /\ stop(native[i]).accepted = native[i].accepted
            /\ stop(native[i]).connections = native[i].connections
            /\ stop(native[i]).closeEmitted => native[i].closeEmitted \/ native[i].connections = 0
        BY <1>a, <3>1, StopFacts
      <4> HIDE DEF i
      <4> QED BY <2>1, <2>2, <3>1, <4>1, <4>2, <4>3, UpdateNative
    <3> QED BY <3>2, <3>3
  <2> QED BY <2>3, <2>4
<1>2. ASSUME NEW n \in Limits, SetMaxConnections(n) PROVE NativeHalf'
  <2>1. clients' = clients /\ told' = [told EXCEPT !.steady = native = <<>>]
    BY <1>2 DEF SetMaxConnections
  <2>2. told'.closes = told.closes /\ told'.early = told.early /\ told'.over = told.over
    BY <1>0, <2>1 DEF ToldRecord
  <2>3. CASE server.nativeId = 0
    <3>1. native' = native
      BY <1>2, <2>3 DEF SetMaxConnections
    <3> QED BY <1>e, <2>1, <2>2, <3>1, SameNative
  <2>4. CASE server.nativeId # 0
    <3> DEFINE i == server.nativeId
               ns == [native[i] EXCEPT !.max = n]
    <3>1. i \in DOMAIN native
      BY <1>0, <1>b, <2>4
    <3>2. native' = [native EXCEPT ![i] = ns]
      BY <1>2, <2>4 DEF SetMaxConnections
    <3>3. /\ ns \in NativeRecord /\ ns.accepted = native[i].accepted /\ ns.connections = native[i].connections
          /\ ns.closeEmitted = native[i].closeEmitted /\ ns.events = native[i].events
          /\ ns.closing = native[i].closing /\ ns.listener = native[i].listener
      BY <1>a, <3>1 DEF NativeRecord, Maxima
    <3> HIDE DEF ns, i
    <3>4. Queues(ns)
      BY <1>a, <3>1, <3>3 DEF Queues
    <3>5. HasClosed(i) => ns.closeEmitted /\ \A k \in DOMAIN ns.events : ns.events[k] # "close"
      BY <3>1, <3>3 DEF ServerInv, Serves
    <3> QED BY <2>1, <2>2, <3>1, <3>2, <3>3, <3>4, <3>5, UpdateNative
  <2> QED BY <2>3, <2>4
<1>3. ASSUME NEW i \in DOMAIN native, native[i].listener, NEW e \in Event \ {"connection", "close"}, NEW ns,
             ns = Push(native[i], e) \/ ns = stop(Push(native[i], e)), native' = [native EXCEPT ![i] = ns], clients' = clients,
             told'.closes = told.closes, told'.early = told.early, told'.over = told.over
      PROVE  NativeHalf'
  <2> DEFINE p == Push(native[i], e)
  <2>1. ~native[i].closing /\ ~native[i].closeEmitted /\ ~HasClosed(i)
    BY <1>3, <1>c
  <2>2. /\ p \in NativeRecord /\ p.accepted = native[i].accepted /\ p.connections = native[i].connections
        /\ p.closeEmitted = native[i].closeEmitted
    BY <1>a, <1>3, PushFacts
  <2>3. Queues(p)
    BY <1>a, <1>3, <2>1, QueuesPush
  <2> HIDE DEF p
  <2>4. /\ stop(p) \in NativeRecord /\ Queues(stop(p)) /\ stop(p).accepted = p.accepted /\ stop(p).connections = p.connections
        /\ stop(p).closeEmitted => p.closeEmitted \/ p.connections = 0
    BY <2>2, <2>3, StopFacts
  <2>5. /\ ns \in NativeRecord /\ Queues(ns) /\ ns.accepted = native[i].accepted /\ ns.connections = native[i].connections
        /\ ns.closeEmitted => native[i].closeEmitted \/ native[i].connections = 0
    BY <1>3, <2>2, <2>3, <2>4 DEF p
  <2> QED BY <1>3, <2>1, <2>5, UpdateNative
<1>4. ASSUME NEW i \in DOMAIN native, Accept(i), Full(native[i]) PROVE NativeHalf'
  <2>1. native[i].listener /\ native' = [native EXCEPT ![i] = Push(native[i], "drop")] /\ told' = [told EXCEPT !.drops = @ + 1] /\ clients' = clients
    BY <1>4, Zenon DEF Accept, Update
  <2>2. told'.closes = told.closes /\ told'.early = told.early /\ told'.over = told.over
    BY <1>0, <2>1 DEF ToldRecord
  <2>3. "drop" \in Event \ {"connection", "close"}
    BY DEF Event
  <2> QED BY <1>3, <2>1, <2>2, <2>3
<1>5. ASSUME NEW i \in DOMAIN native, AcceptFails(i) \/ ListenerFails(i) PROVE NativeHalf'
  <2>1. /\ native[i].listener /\ told' = [told EXCEPT !.errors = 1] /\ clients' = clients
        /\ \/ native' = [native EXCEPT ![i] = Push(native[i], "error")]
           \/ native' = [native EXCEPT ![i] = stop(Push(native[i], "error"))]
    BY <1>5, Zenon DEF AcceptFails, ListenerFails, Update
  <2>2. told'.closes = told.closes /\ told'.early = told.early /\ told'.over = told.over
    BY <1>0, <2>1 DEF ToldRecord
  <2>3. "error" \in Event \ {"connection", "close"}
    BY DEF Event
  <2> QED BY <1>3, <2>1, <2>2, <2>3
<1> QED BY <1>1, <1>2, <1>4, <1>5

LEMMA NativeListen ==
  ASSUME ServerInv, Listen
  PROVE  NativeHalf'
<1> DEFINE n == Len(native)
<1>0. ServerTypeOK /\ native \in Seq(NativeRecord) /\ n \in Nat /\ DOMAIN native = 1..n
  BY NativeAt DEF ServerInv, ServerTypeOK
<1>1. PICK ns : ns = NewNative(server.max) /\ native' = Append(native, ns) /\ UNCHANGED <<clients, told>>
  BY DEF Listen
<1>2. /\ ns.events = <<"listening">> /\ ns.accepted = <<>> /\ ns.connections = 0 /\ ns.listener /\ ~ns.closing /\ ~ns.closeEmitted
  BY <1>1 DEF NewNative
<1>3. /\ DOMAIN native' = 1..(n + 1) /\ native'[n + 1] = ns /\ \A i \in DOMAIN native : native'[i] = native[i] /\ i \in DOMAIN native'
      /\ \A i \in DOMAIN native' : i \in DOMAIN native \/ i = n + 1
      /\ n + 1 \notin DOMAIN native
  BY <1>0, <1>1
<1>4. \A i : (Live(i)' = Live(i)) /\ (HasClosed(i)' <=> HasClosed(i))
  BY <1>1 DEF Live, HasClosed
<1>5. ASSUME NEW i \in DOMAIN native PROVE Serves(i)'
  <2>1. Serves(i)
    BY DEF ServerInv
  <2> QED BY <1>1, <1>3, <1>4, <2>1 DEF Serves
<1>6. ASSUME NEW m, m = n + 1 PROVE Serves(m)'
  <2>1. Live(n + 1) = {} /\ ~HasClosed(n + 1)
    <3>1. \A c \in DOMAIN clients : clients[c].server # n + 1
      BY <1>3 DEF ServerInv, Owned
    <3>2. \A k \in DOMAIN told.closes : told.closes[k] # n + 1
      BY <1>3 DEF ServerInv
    <3> QED BY <3>1, <3>2 DEF Live, HasClosed
  <2>2. Places(<<"listening">>, "connection") = {}
    BY DEF Places
  <2>3. Queues(ns)
    <3>1. Cardinality(Places(ns.events, "connection")) = 0 /\ Len(ns.accepted) = 0
      BY <1>2, <2>2, FS_EmptySet
    <3>2. Once(ns.accepted)
      BY <1>2 DEF Once
    <3>3. \A k \in DOMAIN ns.events : ns.events[k] # "close"
      BY <1>2
    <3> QED BY <1>2, <3>1, <3>2, <3>3 DEF Queues
  <2>4. Cardinality(Live(n + 1)) = 0
    BY <2>1, FS_EmptySet
  <2>5. \A k \in DOMAIN ns.accepted : FALSE
    BY <1>2
  <2>7. native'[m] = ns /\ Live(m)' = Live(m) /\ ~HasClosed(m)' /\ Cardinality(Live(m)) = 0
    BY <1>3, <1>4, <1>6, <2>1, <2>4
  <2> QED BY <1>2, <2>3, <2>5, <2>7 DEF Serves
<1>7. ASSUME NEW c \in DOMAIN clients PROVE Owned(c)'
  <2>1. Owned(c)
    BY DEF ServerInv
  <2> QED BY <1>1, <1>3, <2>1 DEF Owned
<1>8. \A i \in DOMAIN native' : Serves(i)'
  BY <1>3, <1>5, <1>6
<1> QED BY <1>1, <1>3, <1>7, <1>8 DEF NativeHalf, ServerInv

LEMMA LiveFinite == ServerTypeOK => \A i : IsFiniteSet(Live(i)) /\ Cardinality(Live(i)) \in Nat
<1> SUFFICES ASSUME ServerTypeOK, NEW i PROVE IsFiniteSet(Live(i)) /\ Cardinality(Live(i)) \in Nat
  OBVIOUS
<1>1. IsFiniteSet(DOMAIN clients)
  BY NativeAt, FS_Interval
<1>2. Live(i) \in SUBSET (DOMAIN clients)
  BY DEF Live
<1> QED BY <1>1, <1>2, FS_Subset, FS_CardinalityType

LEMMA NativeAccept ==
  ASSUME ServerInv, NEW i \in DOMAIN native, Accept(i), ~Full(native[i])
  PROVE  NativeHalf'
<1>0. /\ ServerTypeOK /\ native \in Seq(NativeRecord) /\ clients \in Seq(ClientRecord) /\ told \in ToldRecord /\ Serves(i)
      /\ native[i] \in NativeRecord /\ Queues(native[i]) /\ Len(clients) \in Nat /\ DOMAIN clients = 1..Len(clients)
  BY NativeAt DEF ServerInv, ServerTypeOK, Serves
<1>a. PICK n : n = Len(clients) + 1
  OBVIOUS
<1>b. PICK m : m = [native[i] EXCEPT !.connections = @ + 1, !.accepted = Append(@, n)]
  OBVIOUS
<1>c. PICK ns : ns = Push(m, "connection")
  OBVIOUS
<1>d. PICK rec : rec = [server |-> i, state |-> "open", given |-> 0, seen |-> <<>>]
  OBVIOUS
<1>1. /\ native[i].listener /\ native' = [native EXCEPT ![i] = ns] /\ clients' = Append(clients, rec)
      /\ told' = [told EXCEPT !.over = @ \/ (native[i].max # 0 /\ told.steady /\ Cardinality(Live(i)) >= native[i].max)]
  BY <1>a, <1>b, <1>c, <1>d, Zenon DEF Accept, Update, Live
<1>2. ~native[i].closing /\ ~native[i].closeEmitted /\ ~HasClosed(i)
  BY <1>0, <1>1 DEF Serves, Queues
<1>3. /\ m \in NativeRecord /\ m.connections = native[i].connections + 1 /\ m.accepted = Append(native[i].accepted, n)
      /\ m.events = native[i].events /\ m.closing = native[i].closing /\ m.closeEmitted = native[i].closeEmitted
      /\ m.listener = native[i].listener /\ n \in Nat
  <2>1. native[i].connections + 1 \in Nat /\ Append(native[i].accepted, n) \in Seq(Nat) /\ n \in Nat
    BY <1>0, <1>a DEF NativeRecord
  <2>2. m = [native[i] EXCEPT !.connections = native[i].connections + 1, !.accepted = Append(native[i].accepted, n)]
    BY <1>b
  <2> QED BY <1>0, <2>1, <2>2 DEF NativeRecord
<1>4. /\ ns.events = Append(native[i].events, "connection") /\ ns.accepted = Append(native[i].accepted, n)
      /\ ns.connections = native[i].connections + 1 /\ ~ns.closing /\ ~ns.closeEmitted /\ ns.listener
  <2>1. "connection" \in Event
    BY DEF Event
  <2>2. /\ ns.events = Append(m.events, "connection") /\ ns.accepted = m.accepted /\ ns.connections = m.connections
        /\ ns.listener = m.listener /\ ns.closing = m.closing /\ ns.closeEmitted = m.closeEmitted
    BY <1>3, <1>c, <2>1, PushFacts
  <2> QED BY <1>1, <1>2, <1>3, <2>2
<1>5. native[i].events \in Seq(Event) /\ native[i].accepted \in Seq(Nat) /\ "connection" \in Event /\ native[i].connections \in Nat
  BY <1>0 DEF NativeRecord, Event
<1>6. /\ n \in DOMAIN clients' /\ n \notin DOMAIN clients /\ clients'[n] = rec
      /\ \A c \in DOMAIN clients : c \in DOMAIN clients' /\ clients'[c] = clients[c] /\ c # n
      /\ \A c \in DOMAIN clients' : c \in DOMAIN clients \/ c = n
  BY <1>0, <1>1, <1>a
<1>7. Queues(ns)
  <2>1. Cardinality(Places(ns.events, "connection")) = Len(ns.accepted)
    <3>1. Cardinality(Places(Append(native[i].events, "connection"), "connection")) = Cardinality(Places(native[i].events, "connection")) + 1
      BY <1>5, CountAppend
    <3>2. Len(Append(native[i].accepted, n)) = Len(native[i].accepted) + 1
      BY <1>5
    <3> QED BY <1>0, <1>4, <3>1, <3>2 DEF Queues
  <2>2. Once(ns.accepted)
    <3>1. \A k \in DOMAIN native[i].accepted : native[i].accepted[k] # n
      BY <1>0, <1>6 DEF Serves
    <3>2. Once(native[i].accepted)
      BY <1>0 DEF Queues
    <3>3. \A k \in DOMAIN ns.accepted : (k \in DOMAIN native[i].accepted /\ ns.accepted[k] = native[i].accepted[k])
                                         \/ (k = Len(native[i].accepted) + 1 /\ ns.accepted[k] = n)
      BY <1>3, <1>4, <1>5, AppendFacts
    <3> QED BY <3>1, <3>2, <3>3 DEF Once
  <2>3. \A k \in DOMAIN ns.events : ns.events[k] # "close"
    <3>1. \A k \in DOMAIN native[i].events : native[i].events[k] # "close"
      BY <1>0, <1>2 DEF Queues
    <3> QED BY <1>4, <1>5, <3>1, AppendFacts
  <2> QED BY <1>4, <2>1, <2>2, <2>3 DEF Queues
<1>8. /\ \A j \in DOMAIN native : HasClosed(j)' <=> HasClosed(j)
      /\ told'.closes = told.closes /\ told'.early = told.early
  BY <1>0, <1>1 DEF HasClosed, ToldRecord
<1>9. ~told'.over
  <2>1. ~(native[i].max # 0 /\ Cardinality(Live(i)) >= native[i].max)
    BY <1>0 DEF Full, Serves
  <2>2. ~told.over
    BY DEF ServerInv
  <2> QED BY <1>0, <1>1, <2>1, <2>2 DEF ToldRecord
<1>10. rec.server = i /\ rec.state # "gone" /\ rec.given = 0
  BY <1>d
<1>11. /\ \A j \in DOMAIN native : j # i => Serves(j)'
       /\ \A c \in DOMAIN clients : clients[c].server # i => Owned(c)'
  <2>1. \A c \in DOMAIN clients : Kept(c)
    BY <1>6 DEF Kept
  <2> QED BY <1>1, <1>6, <1>8, <1>10, <2>1, OtherServers
<1>12. native'[i] = ns /\ DOMAIN native' = DOMAIN native
  BY <1>1
<1>13. Serves(i)'
  <2>1. Live(i)' = Live(i) \cup {n} /\ n \notin Live(i)
    BY <1>6, <1>10 DEF Live
  <2>2. Cardinality(Live(i)') = Cardinality(Live(i)) + 1
    BY <1>0, <2>1, LiveFinite, FS_AddElement
  <2>3. ns.connections = Cardinality(Live(i)')
    BY <1>0, <1>4, <2>2 DEF Serves
  <2>4. \A k \in DOMAIN ns.accepted : /\ ns.accepted[k] \in DOMAIN clients' /\ clients'[ns.accepted[k]].server = i
                                      /\ clients'[ns.accepted[k]].given = 0
    <3>1. \A k \in DOMAIN ns.accepted : (k \in DOMAIN native[i].accepted /\ ns.accepted[k] = native[i].accepted[k])
                                         \/ ns.accepted[k] = n
      BY <1>3, <1>4, <1>5, AppendFacts
    <3>2. \A k \in DOMAIN native[i].accepted : /\ native[i].accepted[k] \in DOMAIN clients /\ clients[native[i].accepted[k]].server = i
                                               /\ clients[native[i].accepted[k]].given = 0
      BY <1>0 DEF Serves
    <3> QED BY <1>6, <1>10, <3>1, <3>2
  <2> QED BY <1>2, <1>4, <1>7, <1>8, <1>12, <2>3, <2>4 DEF Serves
<1>14. ASSUME NEW c \in DOMAIN clients, clients[c].server = i PROVE Owned(c)'
  <2>1. Owned(c) /\ clients'[c] = clients[c]
    BY <1>6 DEF ServerInv
  <2>2. \A k \in DOMAIN native[i].accepted : k \in DOMAIN ns.accepted /\ ns.accepted[k] = native[i].accepted[k]
    BY <1>3, <1>4, <1>5, AppendFacts
  <2> QED BY <1>12, <1>14, <2>1, <2>2 DEF Owned
<1>15. Owned(n)'
  <2>1. \E k \in DOMAIN ns.accepted : ns.accepted[k] = n
    <3>1. Len(native[i].accepted) + 1 \in DOMAIN ns.accepted /\ ns.accepted[Len(native[i].accepted) + 1] = n
      BY <1>3, <1>4, <1>5, AppendFacts
    <3> QED BY <3>1
  <2> QED BY <1>6, <1>10, <1>12, <2>1 DEF Owned
<1>16. \A c \in DOMAIN clients' : Owned(c)'
  BY <1>6, <1>11, <1>14, <1>15
<1>17. \A j \in DOMAIN native' : Serves(j)'
  BY <1>11, <1>12, <1>13
<1> QED BY <1>8, <1>9, <1>12, <1>16, <1>17 DEF NativeHalf, ServerInv

LEMMA NativePurge ==
  ASSUME ServerInv, NEW c \in DOMAIN clients, Purge(c)
  PROVE  NativeHalf'
<1>a. PICK i : i = clients[c].server
  OBVIOUS
<1>0. /\ ServerTypeOK /\ told \in ToldRecord /\ i \in DOMAIN native /\ Serves(i)
      /\ native[i] \in NativeRecord /\ Queues(native[i]) /\ \A d \in DOMAIN clients : clients[d] \in ClientRecord
  BY <1>a, NativeAt DEF ServerInv, ServerTypeOK, Serves, Owned
<1>b. PICK ns : ns = connectionClosed(native[i])
  OBVIOUS
<1>1. /\ native' = [native EXCEPT ![i] = ns] /\ clients' = [clients EXCEPT ![c].state = "gone"] /\ told' = told /\ clients[c].state = "closed"
  BY <1>a, <1>b, Zenon DEF Purge, Update
<1>2. /\ DOMAIN clients' = DOMAIN clients
      /\ \A d \in DOMAIN clients : clients'[d].server = clients[d].server /\ clients'[d].given = clients[d].given
      /\ \A d \in DOMAIN clients : d # c => clients'[d] = clients[d]
      /\ clients'[c].state = "gone"
  BY <1>0, <1>1 DEF ClientRecord
<1>3. /\ Queues(ns) /\ ns.accepted = native[i].accepted
      /\ ns.connections = (IF native[i].connections > 0 THEN native[i].connections - 1 ELSE native[i].connections)
      /\ ns.closeEmitted => native[i].closeEmitted \/ ns.connections = 0
  BY <1>0, <1>b, ConnectionClosedFacts
<1>4. Live(i)' = Live(i) \ {c} /\ c \in Live(i)
  BY <1>1, <1>2, <1>a DEF Live
<1>5. Cardinality(Live(i)') = Cardinality(Live(i)) - 1 /\ Cardinality(Live(i)) \in Nat /\ Cardinality(Live(i)) # 0
  <2>1. IsFiniteSet(Live(i)) /\ Cardinality(Live(i)) \in Nat
    BY <1>0, LiveFinite
  <2>2. Cardinality(Live(i) \ {c}) = Cardinality(Live(i)) - 1
    BY <1>4, <2>1, FS_RemoveElement
  <2>3. Cardinality(Live(i)) # 0
    BY <1>4, <2>1, FS_EmptySet
  <2> QED BY <1>4, <2>1, <2>2, <2>3
<1>6. ns.connections = Cardinality(Live(i)') /\ native[i].connections # 0
  BY <1>0, <1>3, <1>5 DEF Serves
<1>7. ~native[i].closeEmitted /\ ~HasClosed(i)
  BY <1>0, <1>6 DEF Serves
<1>8. \A j : HasClosed(j)' <=> HasClosed(j)
  BY <1>1 DEF HasClosed
<1>9. native'[i] = ns /\ DOMAIN native' = DOMAIN native
  BY <1>0, <1>1
<1>10. /\ \A j \in DOMAIN native : j # i => Serves(j)'
       /\ \A d \in DOMAIN clients : clients[d].server # i => Owned(d)'
  <2>1. \A d \in DOMAIN clients : clients[d].server # i => Kept(d)
    BY <1>2, <1>a DEF Kept
  <2> QED BY <1>0, <1>1, <1>2, <1>8, <2>1, OtherServers
<1>11. Serves(i)'
  <2>1. \A k \in DOMAIN ns.accepted : /\ ns.accepted[k] \in DOMAIN clients' /\ clients'[ns.accepted[k]].server = i
                                      /\ clients'[ns.accepted[k]].given = 0
    BY <1>0, <1>2, <1>3 DEF Serves
  <2> QED BY <1>3, <1>6, <1>7, <1>8, <1>9, <2>1 DEF Serves
<1>12. ASSUME NEW d \in DOMAIN clients, clients[d].server = i PROVE Owned(d)'
  BY <1>2, <1>3, <1>9, <1>12 DEF ServerInv, Owned
<1>13. \A j \in DOMAIN native' : Serves(j)'
  BY <1>9, <1>10, <1>11
<1>14. \A d \in DOMAIN clients' : Owned(d)'
  BY <1>2, <1>10, <1>12
<1> QED BY <1>1, <1>9, <1>13, <1>14 DEF NativeHalf, ServerInv

\* The queues after their heads were taken.
LEMMA QueuesTail ==
  ASSUME NEW ns \in NativeRecord, Queues(ns), ns.events # <<>>, NEW m \in NativeRecord, m.events = Tail(ns.events),
         m.listener = ns.listener, m.closing = ns.closing, m.closeEmitted = ns.closeEmitted,
         IF Head(ns.events) = "connection" THEN ns.accepted # <<>> /\ m.accepted = Tail(ns.accepted) ELSE m.accepted = ns.accepted
  PROVE  Queues(m)
<1>0. ns.events \in Seq(Event) /\ ns.accepted \in Seq(Nat)
  BY DEF NativeRecord
<1>1. Cardinality(Places(m.events, "connection")) = IF Head(ns.events) = "connection" THEN Cardinality(Places(ns.events, "connection")) - 1
                                                    ELSE Cardinality(Places(ns.events, "connection"))
  BY <1>0, CountTail
<1>2. Cardinality(Places(m.events, "connection")) = Len(m.accepted)
  <2>1. CASE Head(ns.events) = "connection"
    <3>1. Len(m.accepted) = Len(ns.accepted) - 1
      BY <1>0, <2>1, TailFacts
    <3> QED BY <1>1, <2>1, <3>1 DEF Queues
  <2>2. CASE Head(ns.events) # "connection"
    BY <1>1, <2>2 DEF Queues
  <2> QED BY <2>1, <2>2
<1>3. Once(m.accepted)
  <2>1. CASE Head(ns.events) = "connection"
    <3>a. m.accepted = Tail(ns.accepted) /\ ns.accepted # <<>>
      BY <2>1
    <3>b. \A k \in DOMAIN Tail(ns.accepted) : k + 1 \in DOMAIN ns.accepted /\ Tail(ns.accepted)[k] = ns.accepted[k + 1] /\ (k + 1) - 1 = k
      BY <1>0, <3>a, TailFacts
    <3>1. \A k \in DOMAIN m.accepted : k + 1 \in DOMAIN ns.accepted /\ m.accepted[k] = ns.accepted[k + 1] /\ k = (k + 1) - 1
      BY <3>a, <3>b
    <3>2. Once(ns.accepted)
      BY DEF Queues
    <3>3. ASSUME NEW a \in DOMAIN m.accepted, NEW b \in DOMAIN m.accepted, m.accepted[a] = m.accepted[b] PROVE a = b
      <4>1. a + 1 = b + 1
        BY <3>1, <3>2, <3>3 DEF Once
      <4> QED BY <3>1, <4>1
    <3> QED BY <3>3 DEF Once
  <2>2. CASE Head(ns.events) # "connection"
    BY <2>2 DEF Queues
  <2> QED BY <2>1, <2>2
<1>4. ASSUME NEW k \in DOMAIN m.events, m.events[k] = "close" PROVE k = Len(m.events) /\ m.closeEmitted
  <2>1. k + 1 \in DOMAIN ns.events /\ ns.events[k + 1] = "close" /\ k = (k + 1) - 1 /\ Len(m.events) = Len(ns.events) - 1
    BY <1>0, <1>4, TailFacts
  <2> QED BY <2>1 DEF Queues
<1> QED BY <1>2, <1>3, <1>4 DEF Queues

\* One event is taken from the queue of a server.
LEMMA DrainStep ==
  ASSUME ServerInv, DrainEvent
  PROVE  /\ draining \in DOMAIN native /\ native[draining] \in NativeRecord /\ native[draining].events # <<>>
         /\ \E m \in NativeRecord :
              /\ native' = [native EXCEPT ![draining] = m] /\ Queues(m) /\ m.events = Tail(native[draining].events)
              /\ m.connections = native[draining].connections /\ m.closeEmitted = native[draining].closeEmitted
              /\ m.closing = native[draining].closing
              /\ m.accepted = IF Head(native[draining].events) = "connection" THEN Tail(native[draining].accepted)
                              ELSE native[draining].accepted
<1>0. ServerTypeOK /\ native \in Seq(NativeRecord) /\ draining \in 0..Len(native) /\ Len(native) \in Nat /\ DOMAIN native = 1..Len(native)
  BY DEF ServerInv, ServerTypeOK
<1>1. draining \in DOMAIN native /\ native[draining].events # <<>>
  BY <1>0 DEF DrainEvent
<1>a. PICK i : i = draining
  OBVIOUS
<1>b. PICK ns : ns = native[i]
  OBVIOUS
<1>c. PICK q : q = IF Head(ns.events) = "connection" THEN Tail(ns.accepted) ELSE ns.accepted
  OBVIOUS
<1>d. PICK m : m = [ns EXCEPT !.events = Tail(ns.events), !.accepted = q]
  OBVIOUS
<1>2. ns \in NativeRecord /\ ns.events \in Seq(Event) /\ ns.accepted \in Seq(Nat) /\ Queues(ns) /\ ns.events # <<>>
  <2>1. ns \in NativeRecord /\ Queues(ns)
    BY <1>0, <1>1, <1>a, <1>b, NativeAt DEF ServerInv, Serves
  <2> QED BY <1>1, <1>a, <1>b, <2>1 DEF NativeRecord
<1>3. Head(ns.events) = "connection" => ns.accepted # <<>>
  BY <1>1, <1>a, <1>b, DrainHead
<1>4. Tail(ns.events) \in Seq(Event) /\ q \in Seq(Nat)
  <2>1. Tail(ns.events) \in Seq(Event)
    BY <1>2, TailFacts
  <2>2. Head(ns.events) = "connection" => Tail(ns.accepted) \in Seq(Nat)
    BY <1>2, <1>3, TailFacts
  <2> QED BY <1>2, <1>c, <2>1, <2>2
<1>5. /\ m \in NativeRecord /\ m.events = Tail(ns.events) /\ m.accepted = q /\ m.connections = ns.connections
      /\ m.closeEmitted = ns.closeEmitted /\ m.closing = ns.closing /\ m.listener = ns.listener
  BY <1>2, <1>4, <1>d DEF NativeRecord
<1>6. native' = [native EXCEPT ![i] = m]
  <2>1. native' = [native EXCEPT ![draining].events = Tail(@),
                                 ![draining].accepted = IF Head(native[draining].events) = "connection" THEN Tail(@) ELSE @]
    BY DEF DrainEvent
  <2> QED BY <1>0, <1>1, <1>a, <1>b, <1>c, <1>d, <1>2, <2>1 DEF NativeRecord
<1>7. Queues(m)
  BY <1>2, <1>3, <1>5, <1>c, QueuesTail
<1> QED BY <1>1, <1>2, <1>5, <1>6, <1>7, <1>a, <1>b, <1>c

LEMMA NativeGiven ==
  ASSUME ServerInv, DrainEvent, Head(native[draining].events) = "connection"
  PROVE  NativeHalf'
<1>a. PICK i : i = draining
  OBVIOUS
<1>b. PICK ns : ns = native[i]
  OBVIOUS
<1>c. PICK c : c = Head(ns.accepted)
  OBVIOUS
<1>0. ServerTypeOK /\ \A d \in DOMAIN clients : clients[d] \in ClientRecord
  BY NativeAt DEF ServerInv
<1>1. i \in DOMAIN native /\ ns \in NativeRecord /\ ns.events # <<>> /\ Serves(i)
  BY <1>a, <1>b, DrainStep DEF ServerInv
<1>2. PICK m \in NativeRecord : /\ native' = [native EXCEPT ![i] = m] /\ Queues(m) /\ m.events = Tail(ns.events)
                                /\ m.connections = ns.connections /\ m.closeEmitted = ns.closeEmitted
                                /\ m.accepted = Tail(ns.accepted)
  BY <1>a, <1>b, DrainStep
<1>3. ns.accepted # <<>> /\ c \in DOMAIN clients /\ clients[c].server = i /\ clients[c].given = 0
  BY <1>1, <1>a, <1>b, <1>c, DrainHead
<1>4. told' = told /\ clients' = [clients EXCEPT ![c].given = @ + 1]
  BY <1>a, <1>b, <1>c DEF DrainEvent
<1>5. /\ DOMAIN clients' = DOMAIN clients /\ clients'[c].given = 1
      /\ \A d \in DOMAIN clients : clients'[d].server = clients[d].server /\ clients'[d].state = clients[d].state
      /\ \A d \in DOMAIN clients : d # c => clients'[d] = clients[d]
  BY <1>0, <1>3, <1>4 DEF ClientRecord
<1>6. \A j : HasClosed(j)' <=> HasClosed(j)
  BY <1>4 DEF HasClosed
<1>7. native'[i] = m /\ DOMAIN native' = DOMAIN native
  BY <1>1, <1>2
<1>8. /\ \A j \in DOMAIN native : j # i => Serves(j)'
      /\ \A d \in DOMAIN clients : clients[d].server # i => Owned(d)'
  <2>1. \A d \in DOMAIN clients : clients[d].server # i => Kept(d)
    BY <1>3, <1>5 DEF Kept
  <2> QED BY <1>1, <1>2, <1>5, <1>6, <2>1, OtherServers
<1>9. ns.accepted \in Seq(Nat) /\ ns.events \in Seq(Event)
  BY <1>1 DEF NativeRecord
<1>10. /\ \A k \in DOMAIN m.accepted : k + 1 \in DOMAIN ns.accepted /\ m.accepted[k] = ns.accepted[k + 1] /\ k + 1 # 1
       /\ \A k \in DOMAIN ns.accepted : k # 1 => k - 1 \in DOMAIN m.accepted /\ m.accepted[k - 1] = ns.accepted[k]
       /\ 1 \in DOMAIN ns.accepted /\ ns.accepted[1] = c
  <2> DEFINE t == Tail(ns.accepted)
  <2>1. /\ \A k \in DOMAIN t : k + 1 \in DOMAIN ns.accepted /\ t[k] = ns.accepted[k + 1] /\ k + 1 # 1
        /\ \A k \in DOMAIN ns.accepted : k # 1 => k - 1 \in DOMAIN t /\ t[k - 1] = ns.accepted[k]
        /\ 1 \in DOMAIN ns.accepted /\ ns.accepted[1] = c
    BY <1>3, <1>9, <1>c, TailFacts
  <2>2. m.accepted = t
    BY <1>2
  <2> HIDE DEF t
  <2> QED BY <2>1, <2>2
<1>11. \A k \in DOMAIN m.accepted : m.accepted[k] # c
  <2>1. Once(ns.accepted)
    BY <1>1, <1>b DEF Serves, Queues
  <2> QED BY <1>10, <2>1 DEF Once
<1>12. Serves(i)'
  <2>1. Live(i)' = Live(i)
    BY <1>5 DEF Live
  <2>2. \A k \in DOMAIN ns.accepted : /\ ns.accepted[k] \in DOMAIN clients /\ clients[ns.accepted[k]].server = i
                                      /\ clients[ns.accepted[k]].given = 0
    BY <1>1, <1>b DEF Serves
  <2>3. \A k \in DOMAIN m.accepted : /\ m.accepted[k] \in DOMAIN clients' /\ clients'[m.accepted[k]].server = i
                                     /\ clients'[m.accepted[k]].given = 0
    BY <1>5, <1>10, <1>11, <2>2
  <2>4. m.connections = Cardinality(Live(i)) /\ (m.closeEmitted => m.connections = 0)
    BY <1>1, <1>2, <1>b DEF Serves
  <2>5. HasClosed(i) => m.closeEmitted /\ \A k \in DOMAIN m.events : m.events[k] # "close"
    <3>1. \A k \in DOMAIN Tail(ns.events) : k + 1 \in DOMAIN ns.events /\ Tail(ns.events)[k] = ns.events[k + 1]
      BY <1>1, <1>9, TailFacts
    <3>2. HasClosed(i) => ns.closeEmitted /\ \A k \in DOMAIN ns.events : ns.events[k] # "close"
      BY <1>1, <1>b DEF Serves
    <3> QED BY <1>2, <3>1, <3>2
  <2> QED BY <1>2, <1>6, <1>7, <2>1, <2>3, <2>4, <2>5 DEF Serves
<1>13. ASSUME NEW d \in DOMAIN clients, clients[d].server = i, d # c PROVE Owned(d)'
  <2>1. clients'[d] = clients[d] /\ Owned(d)
    BY <1>5, <1>13 DEF ServerInv
  <2>2. CASE clients[d].given = 1
    BY <1>1, <1>7, <1>13, <2>1, <2>2 DEF Owned
  <2>3. CASE clients[d].given # 1
    <3>1. PICK k \in DOMAIN ns.accepted : ns.accepted[k] = d /\ clients[d].given = 0
      BY <1>13, <1>b, <2>1, <2>3 DEF Owned
    <3>2. k - 1 \in DOMAIN m.accepted /\ m.accepted[k - 1] = d
      BY <1>10, <1>13, <3>1
    <3> QED BY <1>1, <1>7, <1>13, <2>1, <3>1, <3>2 DEF Owned
  <2> QED BY <2>2, <2>3
<1>14. Owned(c)'
  BY <1>1, <1>3, <1>5, <1>7 DEF Owned
<1>15. \A j \in DOMAIN native' : Serves(j)'
  BY <1>7, <1>8, <1>12
<1>16. \A d \in DOMAIN clients' : Owned(d)'
  BY <1>5, <1>8, <1>13, <1>14
<1> QED BY <1>4, <1>7, <1>15, <1>16 DEF NativeHalf, ServerInv

\* 'close' is the last event: every connection was handed over and its destructor has run.
LEMMA NativeOver ==
  ASSUME ServerInv, DrainEvent, Head(native[draining].events) = "close"
  PROVE  NativeHalf'
<1>a. PICK i : i = draining
  OBVIOUS
<1>b. PICK ns : ns = native[i]
  OBVIOUS
<1>0. ServerTypeOK /\ told \in ToldRecord /\ \A d \in DOMAIN clients : clients[d] \in ClientRecord
  BY NativeAt DEF ServerInv, ServerTypeOK
<1>1. i \in DOMAIN native /\ ns \in NativeRecord /\ ns.events # <<>> /\ Serves(i) /\ Queues(ns)
  BY <1>a, <1>b, DrainStep DEF ServerInv, Serves
<1>2. PICK m \in NativeRecord : /\ native' = [native EXCEPT ![i] = m] /\ Queues(m) /\ m.events = Tail(ns.events)
                                /\ m.connections = ns.connections /\ m.closeEmitted = ns.closeEmitted
                                /\ m.accepted = ns.accepted
  BY <1>a, <1>b, DrainStep
<1>3. ns.accepted \in Seq(Nat) /\ ns.events \in Seq(Event)
  BY <1>1 DEF NativeRecord
<1>4. 1 \in DOMAIN ns.events /\ ns.events[1] = "close" /\ Len(ns.events) = 1 /\ ns.closeEmitted
  <2>1. 1 \in DOMAIN ns.events /\ ns.events[1] = "close"
    BY <1>1, <1>3, <1>a, <1>b, TailFacts
  <2> QED BY <1>1, <2>1 DEF Queues
<1>5. DOMAIN m.events = {}
  <2>1. DOMAIN Tail(ns.events) = 1..(Len(ns.events) - 1)
    BY <1>1, <1>3, TailFacts
  <2> QED BY <1>2, <1>4, <2>1
<1>6. DOMAIN ns.accepted = {}
  <2>1. Places(ns.events, "connection") = {}
    BY <1>3, <1>4 DEF Places
  <2>2. Len(ns.accepted) = 0
    BY <1>1, <2>1, FS_EmptySet DEF Queues
  <2> QED BY <1>3, <2>2
<1>7. Live(i) = {}
  <2>1. IsFiniteSet(Live(i)) /\ Cardinality(Live(i)) = 0
    BY <1>0, <1>1, <1>4, <1>b, LiveFinite DEF Serves
  <2> QED BY <2>1, FS_EmptySet
<1>8. ASSUME NEW d \in DOMAIN clients, clients[d].server = i PROVE clients[d].state = "gone" /\ clients[d].given = 1
  <2>1. Owned(d)
    BY <1>8 DEF ServerInv
  <2> QED BY <1>6, <1>7, <1>8, <1>b, <2>1 DEF Owned, Live
<1>9. clients' = clients
  BY <1>a, <1>b DEF DrainEvent
<1>10. /\ told'.closes = Append(told.closes, i) /\ ~told'.early /\ told'.over = told.over
  <2>1. told' = [told EXCEPT !.closes = Append(@, draining), !.called = @ + server.onClose,
                        !.early = @ \/ \E k \in DOMAIN clients : clients[k].server = draining
                                           /\ (clients[k].state # "gone" \/ clients[k].given = 0)]
    BY Zenon DEF DrainEvent
  <2>2. ~\E k \in DOMAIN clients : clients[k].server = draining /\ (clients[k].state # "gone" \/ clients[k].given = 0)
    BY <1>8, <1>a
  <2>3. ~told.early
    BY DEF ServerInv
  <2> QED BY <1>0, <1>a, <2>1, <2>2, <2>3 DEF ToldRecord
<1>11. ~HasClosed(i)
  BY <1>1, <1>4, <1>b DEF Serves
<1>12. /\ told.closes \in Seq(Nat) /\ i \in Nat
       /\ \A k \in DOMAIN told.closes : k \in DOMAIN told'.closes /\ told'.closes[k] = told.closes[k]
       /\ \A k \in DOMAIN told'.closes : (k \in DOMAIN told.closes /\ told'.closes[k] = told.closes[k])
                                         \/ (k = Len(told.closes) + 1 /\ told'.closes[k] = i)
  <2>1. told.closes \in Seq(Nat) /\ i \in Nat
    BY <1>0, <1>a DEF ToldRecord, ServerTypeOK
  <2> DEFINE q == Append(told.closes, i)
  <2>2. /\ \A k \in DOMAIN told.closes : k \in DOMAIN q /\ q[k] = told.closes[k]
        /\ \A k \in DOMAIN q : (k \in DOMAIN told.closes /\ q[k] = told.closes[k]) \/ (k = Len(told.closes) + 1 /\ q[k] = i)
    BY <2>1, AppendFacts
  <2> HIDE DEF q
  <2> QED BY <1>10, <2>1, <2>2 DEF q
<1>13. \A j \in DOMAIN native : j # i => (HasClosed(j)' => HasClosed(j))
  BY <1>12 DEF HasClosed
<1>14. native'[i] = m /\ DOMAIN native' = DOMAIN native
  BY <1>1, <1>2
<1>15. /\ \A j \in DOMAIN native : j # i => Serves(j)'
       /\ \A d \in DOMAIN clients : clients[d].server # i => Owned(d)'
  <2>1. \A d \in DOMAIN clients : Kept(d)
    BY <1>9 DEF Kept
  <2> QED BY <1>1, <1>2, <1>9, <1>13, <2>1, OtherServers
<1>16. Serves(i)'
  <2>1. Live(i)' = Live(i)
    BY <1>9 DEF Live
  <2>2. m.connections = Cardinality(Live(i)) /\ (m.closeEmitted => m.connections = 0)
    BY <1>1, <1>2, <1>b DEF Serves
  <2> QED BY <1>2, <1>4, <1>5, <1>6, <1>14, <2>1, <2>2 DEF Serves
<1>17. ASSUME NEW d \in DOMAIN clients, clients[d].server = i PROVE Owned(d)'
  BY <1>1, <1>8, <1>9, <1>14, <1>17 DEF Owned
<1>18. Once(told'.closes)
  <2>1. Once(told.closes)
    BY DEF ServerInv
  <2>2. \A k \in DOMAIN told.closes : told.closes[k] # i
    BY <1>11 DEF HasClosed
  <2> QED BY <1>12, <2>1, <2>2 DEF Once
<1>19. \A k \in DOMAIN told'.closes : told'.closes[k] \in DOMAIN native'
  BY <1>1, <1>12, <1>14 DEF ServerInv
<1>20. \A j \in DOMAIN native' : Serves(j)'
  BY <1>14, <1>15, <1>16
<1>21. \A d \in DOMAIN clients' : Owned(d)'
  BY <1>9, <1>15, <1>17
<1>22. ~told'.over
  BY <1>10 DEF ServerInv
<1> QED BY <1>10, <1>18, <1>19, <1>20, <1>21, <1>22 DEF NativeHalf

LEMMA NativeDrain ==
  ASSUME ServerInv, DrainEvent
  PROVE  NativeHalf'
<1>a. PICK i : i = draining
  OBVIOUS
<1>b. PICK ns : ns = native[i]
  OBVIOUS
<1>1. CASE Head(ns.events) # "connection" /\ Head(ns.events) # "close"
  <2>1. i \in DOMAIN native /\ ns \in NativeRecord /\ ns.events # <<>> /\ Serves(i)
    BY <1>a, <1>b, DrainStep DEF ServerInv
  <2>2. PICK m \in NativeRecord : /\ native' = [native EXCEPT ![i] = m] /\ Queues(m) /\ m.events = Tail(ns.events)
                                  /\ m.connections = ns.connections /\ m.closeEmitted = ns.closeEmitted
                                  /\ m.accepted = ns.accepted
    BY <1>1, <1>a, <1>b, DrainStep
  <2>3. clients' = clients /\ told' = told
    BY <1>1, <1>a, <1>b DEF DrainEvent
  <2>4. HasClosed(i) => m.closeEmitted /\ \A k \in DOMAIN m.events : m.events[k] # "close"
    <3>1. ns.events \in Seq(Event)
      BY <2>1 DEF NativeRecord
    <3>2. \A k \in DOMAIN Tail(ns.events) : k + 1 \in DOMAIN ns.events /\ Tail(ns.events)[k] = ns.events[k + 1]
      BY <2>1, <3>1, TailFacts
    <3>3. HasClosed(i) => ns.closeEmitted /\ \A k \in DOMAIN ns.events : ns.events[k] # "close"
      BY <2>1, <1>b DEF Serves
    <3> QED BY <2>2, <3>2, <3>3
  <2>5. m.closeEmitted => native[i].closeEmitted \/ native[i].connections = 0
    BY <1>b, <2>2
  <2> QED BY <1>b, <2>1, <2>2, <2>3, <2>4, <2>5, UpdateNative
<1> QED BY <1>1, <1>a, <1>b, NativeGiven, NativeOver

----------------
(* The listeners, action by action.                                        *)
Distinct(q) == \A i, j \in DOMAIN q : q[i].id = q[j].id => i = j

LEMMA RemoveKeeps ==
  ASSUME NEW q \in Seq(Listener), NEW k \in DOMAIN q, Distinct(q), NEW r, r = RemoveAt(q, k)
  PROVE  /\ Distinct(r)
         /\ \A j \in DOMAIN r : \E i \in DOMAIN q : r[j] = q[i] /\ i # k
         /\ \A i \in DOMAIN q : i > k => i - 1 \in DOMAIN r /\ r[i - 1] = q[i]
<1>0. Len(q) \in Nat /\ DOMAIN q = 1..Len(q) /\ k \in 1..Len(q)
  OBVIOUS
<1>1. DOMAIN r = 1..(Len(q) - 1) /\ \A j \in 1..(Len(q) - 1) : r[j] = IF j < k THEN q[j] ELSE q[j + 1]
  BY RemoveFacts
<1> DEFINE g(j) == IF j < k THEN j ELSE j + 1
<1>2. \A j \in DOMAIN r : g(j) \in DOMAIN q /\ r[j] = q[g(j)] /\ g(j) # k
  BY <1>0, <1>1
<1>3. \A i, j \in DOMAIN r : g(i) = g(j) => i = j
  BY <1>0, <1>1
<1>4. \A i \in DOMAIN q : i > k => i - 1 \in DOMAIN r /\ r[i - 1] = q[i]
  <2> SUFFICES ASSUME NEW i \in DOMAIN q, i > k PROVE i - 1 \in DOMAIN r /\ r[i - 1] = q[i]
    OBVIOUS
  <2>1. i - 1 \in 1..(Len(q) - 1) /\ ~(i - 1 < k) /\ (i - 1) + 1 = i
    BY <1>0
  <2> QED BY <1>1, <2>1
<1> HIDE DEF g
<1>5. Distinct(r)
  BY <1>2, <1>3 DEF Distinct
<1> QED BY <1>2, <1>4, <1>5

LEMMA AddKeeps ==
  ASSUME NEW q \in Seq(Listener), Distinct(q), NEW l \in Listener, \A i \in DOMAIN q : q[i].id # l.id,
         NEW r, r = Append(q, l) \/ r = <<l>> \o q
  PROVE  /\ Distinct(r)
         /\ \A j \in DOMAIN r : r[j] = l \/ \E i \in DOMAIN q : r[j] = q[i]
         /\ \A i \in DOMAIN q : \E j \in DOMAIN r : j >= i /\ r[j] = q[i]
<1>0. Len(q) \in Nat /\ DOMAIN q = 1..Len(q)
  OBVIOUS
<1>1. CASE r = Append(q, l)
  <2>1. /\ \A j \in DOMAIN r : (j \in DOMAIN q /\ r[j] = q[j]) \/ (j = Len(q) + 1 /\ r[j] = l)
        /\ \A i \in DOMAIN q : i \in DOMAIN r /\ r[i] = q[i] /\ i >= i
    <3> DEFINE s == Append(q, l)
    <3>1. /\ \A j \in DOMAIN s : (j \in DOMAIN q /\ s[j] = q[j]) \/ (j = Len(q) + 1 /\ s[j] = l)
          /\ \A i \in DOMAIN q : i \in DOMAIN s /\ s[i] = q[i] /\ i >= i
      BY <1>0, AppendFacts
    <3> QED BY <1>1, <3>1
  <2> QED BY <2>1 DEF Distinct
<1>2. CASE r = <<l>> \o q
  <2>1. DOMAIN r = 1..(Len(q) + 1) /\ r[1] = l /\ \A j \in 2..(Len(q) + 1) : r[j] = q[j - 1]
    <3>1. <<l>> \in Seq(Listener) /\ Len(<<l>>) = 1 /\ <<l>>[1] = l
      OBVIOUS
    <3> QED BY <1>0, <1>2, <3>1
  <2>2. /\ \A j \in DOMAIN r : (j = 1 /\ r[j] = l) \/ (j - 1 \in DOMAIN q /\ r[j] = q[j - 1])
        /\ \A i \in DOMAIN q : i + 1 \in DOMAIN r /\ r[i + 1] = q[i] /\ i + 1 >= i
    <3>1. ASSUME NEW j \in DOMAIN r PROVE (j = 1 /\ r[j] = l) \/ (j - 1 \in DOMAIN q /\ r[j] = q[j - 1])
      <4>1. j = 1 \/ (j \in 2..(Len(q) + 1) /\ j - 1 \in 1..Len(q))
        BY <1>0, <2>1
      <4> QED BY <1>0, <2>1, <4>1
    <3>2. ASSUME NEW i \in DOMAIN q PROVE i + 1 \in DOMAIN r /\ r[i + 1] = q[i] /\ i + 1 >= i
      <4>1. i + 1 \in 2..(Len(q) + 1) /\ (i + 1) - 1 = i /\ i + 1 \in 1..(Len(q) + 1) /\ i + 1 >= i
        BY <1>0
      <4> QED BY <2>1, <4>1
    <3> QED BY <3>1, <3>2
  <2>3. \A i, j \in DOMAIN r : i - 1 = j - 1 => i = j
    BY <1>0, <2>1
  <2>4. ASSUME NEW i \in DOMAIN r, NEW j \in DOMAIN r, r[i].id = r[j].id PROVE i = j
    <3>1. CASE i - 1 \in DOMAIN q /\ r[i] = q[i - 1] /\ j - 1 \in DOMAIN q /\ r[j] = q[j - 1]
      BY <2>3, <2>4, <3>1 DEF Distinct
    <3>2. CASE i = 1 /\ r[i] = l
      BY <2>2, <2>4, <3>2
    <3>3. CASE j = 1 /\ r[j] = l
      BY <2>2, <2>4, <3>3
    <3> QED BY <2>2, <3>1, <3>2, <3>3
  <2>5. Distinct(r)
    BY <2>4 DEF Distinct
  <2> QED BY <2>2, <2>5
<1> QED BY <1>1, <1>2

LEMMA KnownCall ==
  ASSUME ServerInv, CallListener
  PROVE  ListenersKnown' /\ WalkKnown'
<1>a. PICK k : k = walk.at + 1
  OBVIOUS
<1>b. PICK L : L = server.listeners
  OBVIOUS
<1>c. PICK l : l = L[k]
  OBVIOUS
<1>d. PICK q : q = Call(L, walk)[1]
  OBVIOUS
<1>e. PICK a : a = Call(L, walk)[2]
  OBVIOUS
<1>f. PICK w : w = walk.client
  OBVIOUS
<1>0. /\ ServerTypeOK /\ server \in ServerRecord /\ L \in Seq(Listener) /\ told.once \subseteq Nat /\ walk.at \in Nat
      /\ walk \in [client : Nat, at : Nat, missing : SUBSET Nat] /\ \A c \in DOMAIN clients : clients[c] \in ClientRecord
      /\ clients \in Seq(ClientRecord) /\ w \in 0..Len(clients) /\ Len(clients) \in Nat
  BY <1>b, <1>f, NativeAt DEF ServerInv, ServerTypeOK, ServerRecord, ToldRecord
<1>1. /\ walk.client # 0 /\ walk.at < Len(L) /\ server' = [server EXCEPT !.listeners = q]
      /\ walk' = [walk EXCEPT !.at = a, !.missing = @ \ {l.id}]
      /\ clients' = [clients EXCEPT ![w].seen = Append(@, l.id)] /\ told' = told
  BY <1>a, <1>b, <1>c, <1>d, <1>e, <1>f, Zenon DEF CallListener
<1>2. k \in DOMAIN L /\ k \in Nat /\ w \in DOMAIN clients /\ DOMAIN L \subseteq Nat
  BY <1>0, <1>1, <1>a, <1>f
<1>3. l \in Listener /\ l.id \in Nat
  <2>1. l \in Listener
    BY <1>0, <1>2, <1>c
  <2> QED BY <2>1 DEF Listener
<1>4. /\ server'.listeners = q /\ server'.registered = server.registered /\ walk'.at = a /\ walk'.missing = walk.missing \ {l.id}
      /\ walk'.client = walk.client
  BY <1>0, <1>1 DEF ServerRecord
<1>5. Distinct(L)
  BY <1>b DEF ServerInv, ListenersKnown, Distinct
<1>6. /\ Distinct(q)
      /\ \A j \in DOMAIN q : \E i \in DOMAIN L : q[j] = L[i] /\ (l.once => i # k)
      /\ \A i \in DOMAIN L : i > k => \E j \in DOMAIN q : q[j] = L[i] /\ j > a
  <2>1. CASE l.once
    <3>1. q = RemoveAt(L, k) /\ a = walk.at
      BY <1>a, <1>c, <1>d, <1>e, <2>1 DEF Call
    <3>2. /\ Distinct(q) /\ \A j \in DOMAIN q : \E i \in DOMAIN L : q[j] = L[i] /\ i # k
          /\ \A i \in DOMAIN L : i > k => i - 1 \in DOMAIN q /\ q[i - 1] = L[i]
      BY <1>0, <1>2, <1>5, <3>1, RemoveKeeps
    <3>3. \A i \in DOMAIN L : i > k => i - 1 > a
      BY <1>0, <1>2, <1>a, <3>1
    <3> QED BY <3>2, <3>3
  <2>2. CASE ~l.once
    <3>1. q = L /\ a = k
      BY <1>a, <1>c, <1>d, <1>e, <2>2 DEF Call
    <3> QED BY <1>5, <2>2, <3>1
  <2> QED BY <2>1, <2>2
<1>7. /\ \A j \in DOMAIN L : L[j].id <= server.registered /\ (L[j].once <=> L[j].id \in told.once)
      /\ \A x \in told.once : x <= server.registered
      /\ \A c \in DOMAIN clients, x \in Nat : Saw(c, x) => x <= server.registered
      /\ \A c \in DOMAIN clients, x \in told.once : Saw(c, x) => ~Listed(x)
      /\ \A c, d \in DOMAIN clients, x \in told.once : Saw(c, x) /\ Saw(d, x) => c = d
  BY <1>b DEF ServerInv, ListenersKnown
<1>8. DOMAIN clients' = DOMAIN clients
  BY <1>1
<1>9. ASSUME NEW c \in DOMAIN clients, NEW x, Saw(c, x)' PROVE Saw(c, x) \/ (c = w /\ x = l.id)
  <2>1. CASE c # w
    <3>1. clients'[c] = clients[c]
      BY <1>1, <2>1
    <3> QED BY <1>9, <3>1 DEF Saw
  <2>2. CASE c = w
    <3>1. clients'[c].seen = Append(clients[c].seen, l.id)
      BY <1>0, <1>1, <1>2, <2>2 DEF ClientRecord
    <3>2. clients[c].seen \in Seq(Nat)
      BY <1>0 DEF ClientRecord
    <3>3. \A j \in DOMAIN Append(clients[c].seen, l.id) :
             (j \in DOMAIN clients[c].seen /\ Append(clients[c].seen, l.id)[j] = clients[c].seen[j])
             \/ Append(clients[c].seen, l.id)[j] = l.id
      BY <1>3, <3>2, AppendFacts
    <3> QED BY <1>9, <2>2, <3>1, <3>3 DEF Saw
  <2> QED BY <2>1, <2>2
<1>10. Listed(l.id) /\ l.id <= server.registered /\ (l.once <=> l.id \in told.once)
  BY <1>2, <1>7, <1>b, <1>c DEF Listed
<1>11. \A x : Listed(x)' => Listed(x)
  BY <1>4, <1>6, <1>b DEF Listed
<1>12. l.once => ~Listed(l.id)'
  BY <1>2, <1>4, <1>5, <1>6, <1>c DEF Listed, Distinct
<1>13. \A c \in DOMAIN clients, x \in told.once : Saw(c, x)' => ~Listed(x)'
  BY <1>7, <1>9, <1>10, <1>11, <1>12
<1>14. \A c, d \in DOMAIN clients, x \in told.once : Saw(c, x)' /\ Saw(d, x)' => c = d
  BY <1>7, <1>9, <1>10
<1>15. \A c \in DOMAIN clients, x \in Nat : Saw(c, x)' => x <= server.registered
  BY <1>7, <1>9, <1>10
<1>16. \A j \in DOMAIN q : q[j].id <= server.registered /\ (q[j].once <=> q[j].id \in told.once)
  BY <1>6, <1>7
<1>17. ListenersKnown'
  BY <1>1, <1>4, <1>6, <1>7, <1>8, <1>13, <1>14, <1>15, <1>16 DEF ListenersKnown, Distinct
<1>18. ASSUME NEW x \in walk'.missing PROVE \E j \in DOMAIN q : j > a /\ q[j].id = x
  <2>1. x \in walk.missing /\ x # l.id
    BY <1>4, <1>18
  <2>2. PICK i \in DOMAIN L : i > walk.at /\ L[i].id = x
    BY <1>b, <2>1 DEF ServerInv, WalkKnown
  <2>3. i # k
    BY <1>c, <2>1, <2>2
  <2>4. i > k
    BY <1>0, <1>2, <1>a, <2>2, <2>3
  <2> QED BY <1>6, <2>2, <2>4
<1>19. WalkKnown'
  BY <1>1, <1>4, <1>18 DEF WalkKnown, ServerInv
<1> QED BY <1>17, <1>19

LEMMA KnownAdd ==
  ASSUME ServerInv, NEW once \in BOOLEAN, NEW prepend \in BOOLEAN, AddListener(once, prepend)
  PROVE  ListenersKnown' /\ WalkKnown'
<1>a. PICK n : n = server.registered + 1
  OBVIOUS
<1>b. PICK L : L = server.listeners
  OBVIOUS
<1>c. PICK l : l = [id |-> n, once |-> once]
  OBVIOUS
<1>d. PICK q : q = IF prepend THEN <<l>> \o L ELSE Append(L, l)
  OBVIOUS
<1>0. /\ server \in ServerRecord /\ L \in Seq(Listener) /\ told \in ToldRecord /\ told.once \subseteq Nat
      /\ server.registered \in Nat /\ n \in Nat /\ n > server.registered /\ walk.at \in Nat
  <2>1. server \in ServerRecord /\ told \in ToldRecord /\ walk \in [client : Nat, at : Nat, missing : SUBSET Nat]
    BY DEF ServerInv, ServerTypeOK
  <2>2. server.listeners \in Seq(Listener) /\ server.registered \in Nat
    BY <2>1 DEF ServerRecord
  <2>3. told.once \subseteq Nat
    BY <2>1 DEF ToldRecord
  <2>4. walk.at \in Nat
    BY <2>1
  <2>5. n \in Nat /\ n > server.registered
    BY <1>a, <2>2
  <2> QED BY <1>b, <2>1, <2>2, <2>3, <2>4, <2>5
<1>1. /\ server' = [server EXCEPT !.registered = n, !.listeners = q] /\ UNCHANGED <<clients, walk>>
      /\ told' = IF once THEN [told EXCEPT !.once = @ \cup {n}] ELSE told
  BY <1>a, <1>b, <1>c, <1>d DEF AddListener
<1>2. /\ server'.registered = n /\ server'.listeners = q /\ told'.skipped = told.skipped
      /\ told'.once = IF once THEN told.once \cup {n} ELSE told.once
  BY <1>0, <1>1 DEF ServerRecord, ToldRecord
<1>3. /\ Distinct(L)
      /\ \A j \in DOMAIN L : L[j].id <= server.registered /\ (L[j].once <=> L[j].id \in told.once)
      /\ \A x \in told.once : x <= server.registered
      /\ \A c \in DOMAIN clients, x \in Nat : Saw(c, x) => x <= server.registered
      /\ \A c \in DOMAIN clients, x \in told.once : Saw(c, x) => ~Listed(x)
      /\ \A c, d \in DOMAIN clients, x \in told.once : Saw(c, x) /\ Saw(d, x) => c = d
  BY <1>b DEF ServerInv, ListenersKnown, Distinct
<1>4. l \in Listener /\ l.id = n /\ l.once = once
  BY <1>0, <1>c DEF Listener
<1>5. \A j \in DOMAIN L : L[j].id \in Nat /\ L[j].id # n
  <2>1. \A j \in DOMAIN L : L[j] \in Listener
    BY <1>0
  <2>2. \A j \in DOMAIN L : L[j].id \in Nat
    BY <2>1 DEF Listener
  <2> QED BY <1>0, <1>3, <2>2
<1>6. /\ Distinct(q)
      /\ \A j \in DOMAIN q : q[j] = l \/ \E i \in DOMAIN L : q[j] = L[i]
      /\ \A i \in DOMAIN L : \E j \in DOMAIN q : j >= i /\ q[j] = L[i]
  <2>1. q = Append(L, l) \/ q = <<l>> \o L
    BY <1>d
  <2>2. \A i \in DOMAIN L : L[i].id # l.id
    BY <1>4, <1>5
  <2> QED BY <1>0, <1>3, <1>4, <2>1, <2>2, AddKeeps
<1>7. n \notin told.once
  BY <1>0, <1>3
<1>8. \A j \in DOMAIN q : q[j].id <= n /\ (q[j].once <=> q[j].id \in told'.once)
  <2> SUFFICES ASSUME NEW j \in DOMAIN q PROVE q[j].id <= n /\ (q[j].once <=> q[j].id \in told'.once)
    OBVIOUS
  <2>1. CASE q[j] = l
    BY <1>0, <1>2, <1>4, <1>7, <2>1
  <2>2. ASSUME NEW i \in DOMAIN L, q[j] = L[i] PROVE q[j].id <= n /\ (q[j].once <=> q[j].id \in told'.once)
    <3>1. L[i].id <= n
      BY <1>0, <1>3, <1>5
    <3>2. L[i].id \in told'.once <=> L[i].id \in told.once
      BY <1>2, <1>5
    <3> QED BY <1>3, <2>2, <3>1, <3>2
  <2> QED BY <1>6, <2>1, <2>2
<1>9. \A x \in told'.once : x \in told.once \/ x = n
  BY <1>2
<1>10. \A c, x : Saw(c, x)' <=> Saw(c, x)
  BY <1>1 DEF Saw
<1>11. \A x : Listed(x)' => Listed(x) \/ x = n
  BY <1>2, <1>4, <1>6, <1>b DEF Listed
<1>12. \A c \in DOMAIN clients : ~Saw(c, n)
  BY <1>0, <1>3
<1>13. \A c \in DOMAIN clients, x \in told'.once : Saw(c, x)' => ~Listed(x)'
  BY <1>3, <1>7, <1>9, <1>10, <1>11, <1>12
<1>14. \A c, d \in DOMAIN clients, x \in told'.once : Saw(c, x)' /\ Saw(d, x)' => c = d
  BY <1>3, <1>9, <1>10, <1>12
<1>15. \A c \in DOMAIN clients, x \in Nat : Saw(c, x)' => x <= n
  <2>1. \A x \in Nat : x <= server.registered => x <= n
    BY <1>0
  <2> QED BY <1>3, <1>10, <2>1
<1>16. \A x \in told'.once : x <= n
  BY <1>0, <1>3, <1>9
<1>17. ListenersKnown'
  BY <1>1, <1>2, <1>6, <1>8, <1>13, <1>14, <1>15, <1>16 DEF ListenersKnown, Distinct
<1>18. ASSUME NEW x \in walk.missing PROVE \E j \in DOMAIN q : j > walk.at /\ q[j].id = x
  <2>1. PICK i \in DOMAIN L : i > walk.at /\ L[i].id = x
    BY <1>b DEF ServerInv, WalkKnown
  <2>2. PICK j \in DOMAIN q : j >= i /\ q[j] = L[i]
    BY <1>6
  <2>3. j > walk.at
    <3>1. q \in Seq(Listener)
      BY <1>0, <1>4, <1>d
    <3>2. i \in Nat /\ j \in Nat
      BY <1>0, <3>1
    <3> QED BY <1>0, <2>1, <2>2, <3>2
  <2> QED BY <2>1, <2>2, <2>3
<1>19. WalkKnown'
  BY <1>1, <1>2, <1>18 DEF WalkKnown, ServerInv
<1> QED BY <1>17, <1>19

LEMMA KnownRest ==
  ASSUME ServerInv, RemoveAllListeners \/ ListenersCalled
  PROVE  ListenersKnown' /\ WalkKnown'
<1>0. /\ server \in ServerRecord /\ server.listeners \in Seq(Listener) /\ told \in ToldRecord
      /\ walk \in [client : Nat, at : Nat, missing : SUBSET Nat] /\ walk.at \in Nat
  BY DEF ServerInv, ServerTypeOK, ServerRecord
<1>1. CASE RemoveAllListeners
  <2>1. /\ server' = [server EXCEPT !.listeners = <<>>] /\ walk' = [walk EXCEPT !.missing = {}] /\ UNCHANGED <<clients, told>>
    BY <1>1 DEF RemoveAllListeners
  <2>2. server'.listeners = <<>> /\ server'.registered = server.registered /\ walk'.missing = {}
    BY <1>0, <2>1 DEF ServerRecord
  <2>3. \A c, x : (Saw(c, x)' <=> Saw(c, x)) /\ ~Listed(x)'
    BY <2>1, <2>2 DEF Saw, Listed
  <2>4. ListenersKnown'
    <3>1. /\ \A x \in told.once : x <= server.registered
          /\ \A c \in DOMAIN clients, x \in Nat : Saw(c, x) => x <= server.registered
          /\ \A c, d \in DOMAIN clients, x \in told.once : Saw(c, x) /\ Saw(d, x) => c = d
      BY DEF ServerInv, ListenersKnown
    <3>2. DOMAIN server'.listeners = {}
      BY <2>2
    <3> QED BY <2>1, <2>2, <2>3, <3>1, <3>2 DEF ListenersKnown
  <2>5. WalkKnown'
    BY <2>1, <2>2 DEF WalkKnown, ServerInv
  <2> QED BY <2>4, <2>5
<1>2. CASE ListenersCalled
  <2>1. /\ walk.at >= Len(server.listeners) /\ walk' = [walk EXCEPT !.client = 0, !.at = 0, !.missing = {}]
        /\ told' = [told EXCEPT !.skipped = @ \cup walk.missing] /\ UNCHANGED <<server, clients>>
    BY <1>2 DEF ListenersCalled
  <2>2. walk.missing = {}
    <3> SUFFICES ASSUME NEW x \in walk.missing PROVE FALSE
      OBVIOUS
    <3>1. PICK k \in DOMAIN server.listeners : k > walk.at
      BY DEF ServerInv, WalkKnown
    <3> QED BY <1>0, <2>1, <3>1
  <2>3. told'.skipped = told.skipped /\ told'.once = told.once /\ walk'.missing = {}
    BY <1>0, <2>1, <2>2 DEF ToldRecord
  <2>4. ListenersKnown'
    BY <2>1, <2>3, SameKnown
  <2>5. WalkKnown'
    BY <2>1, <2>3 DEF WalkKnown, ServerInv
  <2> QED BY <2>4, <2>5
<1> QED BY <1>1, <1>2

LEMMA KnownDrain ==
  ASSUME ServerInv, DrainEvent
  PROVE  ListenersKnown' /\ WalkKnown'
<1>a. PICK e : e = Head(native[draining].events)
  OBVIOUS
<1>b. PICK c : c = Head(native[draining].accepted)
  OBVIOUS
<1>0. /\ server \in ServerRecord /\ server.listeners \in Seq(Listener) /\ told \in ToldRecord
      /\ \A d \in DOMAIN clients : clients[d] \in ClientRecord /\ d # 0
  BY NativeAt DEF ServerInv, ServerTypeOK, ServerRecord
<1>1. server'.listeners = server.listeners /\ server'.registered = server.registered
  <2>1. server' = Give(server, native[draining], e)
    BY <1>a DEF DrainEvent
  <2> QED BY <1>0, <2>1 DEF Give, ServerRecord
<1>2. told'.once = told.once /\ told'.skipped = told.skipped
  BY <1>0 DEF DrainEvent, ToldRecord
<1>3. \A d \in DOMAIN clients' : d \in DOMAIN clients /\ clients'[d].seen = clients[d].seen
  <2>1. clients' = IF e = "connection" THEN [clients EXCEPT ![c].given = @ + 1] ELSE clients
    BY <1>a, <1>b DEF DrainEvent
  <2> QED BY <1>0, <2>1 DEF ClientRecord
<1>4. ListenersKnown'
  BY <1>1, <1>2, <1>3, SameKnown
<1>5. CASE e = "connection"
  <2>1. walk' = [client |-> c, at |-> 0, missing |-> {l.id : l \in ToSet(server.listeners)}]
    BY <1>5, <1>a, <1>b DEF DrainEvent
  <2>2. c \in DOMAIN clients
    BY <1>5, <1>a, <1>b, DrainStep, DrainHead
  <2>3. ASSUME NEW x \in walk'.missing PROVE \E k \in DOMAIN server.listeners : k > 0 /\ server.listeners[k].id = x
    <3>1. PICK l \in ToSet(server.listeners) : x = l.id
      BY <2>1, <2>3
    <3>2. PICK k \in DOMAIN server.listeners : server.listeners[k] = l
      BY <3>1 DEF ToSet
    <3>3. k > 0
      BY <1>0
    <3> QED BY <3>1, <3>2, <3>3
  <2>4. walk'.client = c /\ walk'.at = 0
    BY <2>1
  <2> QED BY <1>0, <1>1, <1>2, <1>4, <2>2, <2>3, <2>4 DEF WalkKnown, ServerInv
<1>6. CASE e # "connection"
  <2>1. walk' = walk
    BY <1>6, <1>a DEF DrainEvent
  <2> QED BY <1>1, <1>2, <1>4, <2>1, SameWalk
<1> QED BY <1>5, <1>6

LEMMA KnownQuiet ==
  ASSUME ServerInv,
         \/ Listen \/ ListenFails \/ CloseServer \/ Notified \/ Drained \/ (\E n \in Limits : SetMaxConnections(n))
         \/ (\E i \in DOMAIN native : Accept(i) \/ AcceptFails(i) \/ ListenerFails(i))
         \/ (\E c \in DOMAIN clients : ClientCloses(c) \/ Purge(c))
  PROVE  ListenersKnown' /\ WalkKnown'
<1>0. /\ server \in ServerRecord /\ told \in ToldRecord /\ clients \in Seq(ClientRecord)
      /\ \A d \in DOMAIN clients : clients[d] \in ClientRecord
  BY NativeAt DEF ServerInv, ServerTypeOK
<1>1. walk' = walk
  BY DEF Listen, ListenFails, CloseServer, Notified, Drained, SetMaxConnections, Accept, AcceptFails, ListenerFails, ClientCloses, Purge
<1>2. server'.listeners = server.listeners /\ server'.registered = server.registered
  <2>1. \/ server' = server
        \/ \E x : server' = [server EXCEPT !.nativeId = x]
        \/ \E x : server' = [server EXCEPT !.refused = x]
        \/ \E x : server' = [server EXCEPT !.listening = FALSE, !.onClose = x]
        \/ \E x : server' = [server EXCEPT !.max = x]
    BY Zenon DEF Listen, ListenFails, CloseServer, Notified, Drained, SetMaxConnections, Accept, AcceptFails, ListenerFails, ClientCloses, Purge
  <2> QED BY <1>0, <2>1 DEF ServerRecord
<1>3. told'.once = told.once /\ told'.skipped = told.skipped
  <2>1. \/ told' = told
        \/ \E x : told' = [told EXCEPT !.drops = x]
        \/ \E x : told' = [told EXCEPT !.over = x]
        \/ \E x : told' = [told EXCEPT !.errors = x]
        \/ \E x : told' = [told EXCEPT !.failures = x]
        \/ \E x : told' = [told EXCEPT !.closeCalls = x]
        \/ \E x : told' = [told EXCEPT !.steady = x]
    BY Zenon DEF Listen, ListenFails, CloseServer, Notified, Drained, SetMaxConnections, Accept, AcceptFails, ListenerFails, ClientCloses, Purge
  <2> QED BY <1>0, <2>1 DEF ToldRecord
<1>4. \A c \in DOMAIN clients' : (c \in DOMAIN clients /\ clients'[c].seen = clients[c].seen) \/ clients'[c].seen = <<>>
  <2>1. \/ clients' = clients
        \/ \E i : clients' = Append(clients, [server |-> i, state |-> "open", given |-> 0, seen |-> <<>>])
        \/ \E c, x : clients' = [clients EXCEPT ![c].state = x]
    BY Zenon DEF Listen, ListenFails, CloseServer, Notified, Drained, SetMaxConnections, Accept, AcceptFails, ListenerFails, ClientCloses, Purge
  <2>2. ASSUME NEW i, clients' = Append(clients, [server |-> i, state |-> "open", given |-> 0, seen |-> <<>>]),
               NEW c \in DOMAIN clients'
        PROVE  (c \in DOMAIN clients /\ clients'[c].seen = clients[c].seen) \/ clients'[c].seen = <<>>
    BY <1>0, <2>2
  <2>3. ASSUME NEW d, NEW x, clients' = [clients EXCEPT ![d].state = x], NEW c \in DOMAIN clients'
        PROVE  c \in DOMAIN clients /\ clients'[c].seen = clients[c].seen
    BY <1>0, <2>3 DEF ClientRecord
  <2> QED BY <2>1, <2>2, <2>3
<1>5. ListenersKnown'
  BY <1>2, <1>3, <1>4, SameKnown
<1>6. WalkKnown'
  BY <1>1, <1>2, <1>3, SameWalk
<1> QED BY <1>5, <1>6

----------------
LEMMA ServerInitInv == ServerInit => ServerInv
<1> SUFFICES ASSUME ServerInit PROVE ServerInv
  OBVIOUS
<1>1. server = [nativeId |-> 0, listening |-> FALSE, max |-> 0, onClose |-> 0, refused |-> 0, listeners |-> <<>>, registered |-> 0]
      /\ native = <<>> /\ clients = <<>> /\ draining = 0 /\ walk = [client |-> 0, at |-> 0, missing |-> {}]
  BY DEF ServerInit
<1>2. PICK p \in Programs :
        told = [program |-> p, closes |-> <<>>, called |-> 0, early |-> FALSE, drops |-> 0, errors |-> 0, failures |-> 0,
                closeCalls |-> 0, over |-> FALSE, steady |-> TRUE, skipped |-> {}, once |-> {}]
  BY DEF ServerInit
<1>3. told \in ToldRecord
  <2>1. <<>> \in Seq(Nat)
    OBVIOUS
  <2> QED BY <1>2, <2>1 DEF ToldRecord
<1>4. server \in ServerRecord
  <2>1. <<>> \in Seq(Listener) /\ 0 \in Maxima
    BY DEF Maxima
  <2> QED BY <1>1, <2>1 DEF ServerRecord
<1>5. DOMAIN native = {} /\ DOMAIN clients = {} /\ DOMAIN told.closes = {} /\ DOMAIN server.listeners = {}
  BY <1>1, <1>2
<1>6. ServerTypeOK
  <2>1. native \in Seq(NativeRecord) /\ clients \in Seq(ClientRecord) /\ Len(native) = 0 /\ Len(clients) = 0
    BY <1>1
  <2>2. server.nativeId = 0 /\ walk.client = 0 /\ walk \in [client : Nat, at : Nat, missing : SUBSET Nat]
    BY <1>1
  <2> QED BY <1>1, <1>3, <1>4, <2>1, <2>2 DEF ServerTypeOK
<1>7. ~told.early /\ ~told.over /\ told.skipped = {} /\ told.once = {} /\ walk.missing = {}
  BY <1>1, <1>2
<1>8. ListenersKnown
  BY <1>5, <1>7 DEF ListenersKnown
<1>9. WalkKnown
  BY <1>7 DEF WalkKnown
<1> QED BY <1>5, <1>6, <1>7, <1>8, <1>9 DEF ServerInv, Once

LEMMA ServerStepInv == ServerInv /\ [ServerNext]_serverVars => ServerInv'
<1> SUFFICES ASSUME ServerInv, [ServerNext]_serverVars PROVE ServerInv'
  OBVIOUS
<1>a. ASSUME ServerTypeOK', NativeHalf', ListenersKnown', WalkKnown' PROVE ServerInv'
  BY <1>a DEF ServerInv, NativeHalf
<1>1. CASE \/ Listen \/ ListenFails \/ CloseServer \/ \E n \in Limits : SetMaxConnections(n)
  BY <1>1, <1>a, TypesNative, KnownQuiet, NativeListen, NativeQuiet, NativeUpdates
<1>2. ASSUME NEW i \in DOMAIN native, Accept(i) \/ AcceptFails(i) \/ ListenerFails(i) PROVE ServerInv'
  <2>1. NativeHalf'
    BY <1>2, NativeAccept, NativeUpdates
  <2> QED BY <1>2, <1>a, <2>1, TypesNative, KnownQuiet
<1>3. ASSUME NEW c \in DOMAIN clients, ClientCloses(c) \/ Purge(c) PROVE ServerInv'
  <2>1. NativeHalf'
    BY <1>3, NativeQuiet, NativePurge
  <2> QED BY <1>3, <1>a, <2>1, TypesServer, KnownQuiet
<1>4. CASE Notified \/ Drained
  BY <1>4, <1>a, TypesServer, KnownQuiet, NativeQuiet
<1>5. CASE DrainEvent
  BY <1>5, <1>a, TypesServer, KnownDrain, NativeDrain
<1>6. CASE CallListener
  BY <1>6, <1>a, TypesServer, KnownCall, NativeQuiet
<1>7. CASE ListenersCalled \/ RemoveAllListeners
  BY <1>7, <1>a, TypesServer, KnownRest, NativeQuiet
<1>8. ASSUME NEW once \in BOOLEAN, NEW prepend \in BOOLEAN, AddListener(once, prepend) PROVE ServerInv'
  BY <1>8, <1>a, TypesServer, KnownAdd, NativeQuiet
<1>9. CASE UNCHANGED serverVars
  <2>1. /\ server' = server /\ native' = native /\ clients' = clients /\ draining' = draining /\ walk' = walk /\ told' = told
    BY <1>9 DEF serverVars
  <2>2. ServerTypeOK'
    BY <2>1 DEF ServerInv, ServerTypeOK
  <2>3. \A c \in DOMAIN clients : Kept(c)
    BY <2>1 DEF Kept
  <2> QED BY <1>a, <2>1, <2>2, <2>3, SameNative, SameKnown, SameWalk
<1> QED BY <1>1, <1>2, <1>3, <1>4, <1>5, <1>6, <1>7, <1>8, <1>9, Zenon DEF ServerNext

LEMMA ServerInvSafe == ServerInv => ServerSafe
<1> SUFFICES ASSUME ServerInv PROVE ServerSafe
  OBVIOUS
<1>0. ServerTypeOK /\ told.closes \in Seq(Nat)
  BY DEF ServerInv, ServerTypeOK, ToldRecord
<1>1. ASSUME NEW i \in DOMAIN native PROVE Cardinality({k \in DOMAIN told.closes : told.closes[k] = i}) <= 1
  <2> DEFINE T == {k \in DOMAIN told.closes : told.closes[k] = i}
  <2> SUFFICES Cardinality(T) <= 1
    OBVIOUS
  <2>1. CASE T = {}
    <3> HIDE DEF T
    <3>1. Cardinality(T) = 0
      BY <2>1, FS_EmptySet
    <3> QED BY <3>1
  <2>2. ASSUME NEW k \in T PROVE Cardinality(T) <= 1
    <3>1. T = {k}
      BY DEF ServerInv, Once
    <3>2. Cardinality({k}) = 1
      BY FS_Singleton
    <3> HIDE DEF T
    <3> QED BY <3>1, <3>2
  <2> QED BY <2>1, <2>2
<1>2. ASSUME NEW k \in DOMAIN told.closes PROVE native[told.closes[k]].closing
  <2>1. told.closes[k] \in DOMAIN native /\ HasClosed(told.closes[k])
    BY <1>2 DEF ServerInv, HasClosed
  <2> QED BY <2>1 DEF ServerInv, Serves, Queues
<1>3. CloseComesLast
  BY <1>1, <1>2 DEF CloseComesLast, ServerInv
<1>4. ASSUME NEW c \in DOMAIN clients
      PROVE  clients[c].given <= 1 /\ (clients[c].given = 1 \/ Contains(native[clients[c].server].accepted, c))
  <2>1. Owned(c)
    BY <1>4 DEF ServerInv
  <2>2. native[clients[c].server].accepted \in Seq(Nat)
    BY <1>0, <2>1, NativeAt DEF Owned, NativeRecord
  <2>3. clients[c].given \in {0, 1} /\ (clients[c].given = 1 \/ \E k \in DOMAIN native[clients[c].server].accepted : native[clients[c].server].accepted[k] = c)
    BY <2>1 DEF Owned
  <2> QED BY <2>2, <2>3 DEF Contains
<1>5. ConnectionsGiven
  BY <1>4 DEF ConnectionsGiven, ServerInv
<1>6. ASSUME NEW c \in DOMAIN clients, NEW d \in DOMAIN clients, NEW l \in told.once,
             Contains(clients[c].seen, l), Contains(clients[d].seen, l) PROVE c = d
  <2>1. Saw(c, l) /\ Saw(d, l)
    BY <1>6 DEF Contains, Saw
  <2> QED BY <1>6, <2>1 DEF ServerInv, ListenersKnown
<1>7. ListenersServed
  BY <1>6 DEF ListenersServed, ServerInv, WalkKnown
<1> QED BY <1>3, <1>5, <1>7 DEF ServerSafe

\* Servers: 'close' comes once for a server and only after every connection it accepted was handed over and destroyed; no
\* connection is lost, handed over twice or accepted over the limit; and each one reaches every listener it is due, a
\* once() listener at most once, for any number of clients and listeners and any order of the reactor's and program's steps.
THEOREM ServerSafeCorrect == ServerSpec => []ServerSafe
<1>1. ServerInit => ServerInv
  BY ServerInitInv
<1>2. ServerInv /\ [ServerNext]_serverVars => ServerInv'
  BY ServerStepInv
<1>3. ServerInv => ServerSafe
  BY ServerInvSafe
<1> QED BY <1>1, <1>2, <1>3, PTL DEF ServerSpec

----------------
(***************************************************************************)
(* A ReactorSocket, for every number of connections and events.  Native    *)
(* events come from the reactor alone: a connection made during dispatch() *)
(* has no event yet, so the handlers captured before it are called for     *)
(* nothing but their own.                                                  *)
(***************************************************************************)

ClientSpec == ClientInit /\ [][ClientNext]_clientVars

NativeEvents == {"connect", "data", "end", "error", "close"}

Wakes == {<<"dispatch">>} \cup ({"error"} \X Nat)

Told(n) ==
    [n : Int, made : SUBSET (1 .. n), closed : SUBSET (1 .. n), ended : SUBSET (1 .. n), inClose : SUBSET (1 .. n), failed : SUBSET Nat, wrong : BOOLEAN, late : BOOLEAN]

ClientType ==
    /\ queues \in Seq(Seq(NativeEvents))
    /\ socket \in [id : 0 .. Len(queues), handlers : 0 .. Len(queues)]
    /\ wakes \in Seq(Wakes)
    /\ loop \in 0 .. Len(queues)
    /\ closing \in BOOLEAN
    /\ events \in Told(Len(queues))

\* A connected socket has the handlers of its own connect(), which were not closed, and whose 'close' is at most
\* being told.
HandlersOwn ==
    socket.id # 0 => socket.handlers = socket.id /\ socket.id \notin events.closed /\ (socket.id \in events.ended => closing)

\* A connection other than the one dispatch() began with has had no event.
LoopOwn ==
    loop # 0 /\ socket.id # 0 => loop = socket.id \/ queues[socket.id] = <<>>

\* In a close handler the socket has the connection that ended, none, or one the handler made.
ClosingOwn ==
    closing => loop # 0 /\ (socket.id # 0 => socket.id \in events.ended \cup events.inClose)

ClientInv == ClientType /\ HandlersOwn /\ LoopOwn /\ ClosingOwn /\ EventsReachTheirHandlers /\ ConnectionsHeld

\* What is told stays in its type when connections are added.
LEMMA ToldGrows ==
    ASSUME NEW n \in Nat, NEW t \in Told(n) PROVE t \in Told(n + 1)
<1>1. /\ t.made \subseteq 1 .. (n + 1) /\ t.closed \subseteq 1 .. (n + 1) /\ t.ended \subseteq 1 .. (n + 1)
      /\ t.inClose \subseteq 1 .. (n + 1)
  BY DEF Told
<1> QED BY <1>1, Zenon DEF Told

LEMMA ClientStart == ClientInit => ClientInv
<1> SUFFICES ASSUME ClientInit PROVE ClientInv
  OBVIOUS
<1>1. Len(queues) = 0 /\ queues \in Seq(Seq(NativeEvents)) /\ wakes \in Seq(Wakes)
  BY DEF ClientInit
<1>2. 0 \in 0 .. 0 /\ 0 \in Int
  OBVIOUS
<1>3. events \in Told(Len(queues))
  BY <1>2 DEF ClientInit, Told
<1>4. socket \in [id : 0 .. 0, handlers : 0 .. 0] /\ socket.id = 0 /\ loop = 0 /\ closing = FALSE
  BY <1>2 DEF ClientInit
<1>5. ~events.wrong /\ ~events.late /\ events.made = {}
  BY DEF ClientInit
<1>6. ClientType
  BY <1>1, <1>2, <1>3, <1>4 DEF ClientType
<1> QED BY <1>4, <1>5, <1>6 DEF ClientInv, HandlersOwn, LoopOwn, ClosingOwn, EventsReachTheirHandlers, ConnectionsHeld

\* connect(), with or without a native connection: it has a new name and an empty queue.
LEMMA ClientConnects ==
    ASSUME ClientInv, Connect \/ ConnectFails PROVE ClientInv'
<1> USE DEF ClientInv, ClientType
<1>1. /\ queues' \in Seq(Seq(NativeEvents)) /\ Len(queues') = Len(queues) + 1 /\ Len(queues) \in Nat
      /\ queues'[Len(queues) + 1] = <<>>
  <2>1. queues' = Append(queues, <<>>) /\ <<>> \in Seq(NativeEvents)
    BY DEF Connect, ConnectFails
  <2> QED BY <2>1
<1>2. CASE Connect
  <2> DEFINE n == Len(queues) + 1
             inClose == IF closing THEN events.inClose \cup {n} ELSE events.inClose
  <2>1. /\ socket' = [id |-> n, handlers |-> n] /\ socket.id = 0
        /\ loop' = loop /\ closing' = closing /\ wakes' = wakes
        /\ events' = [events EXCEPT !.made = @ \cup {n}, !.inClose = inClose]
    BY <1>2 DEF Connect
  <2>2. /\ events' \in Told(Len(queues')) /\ events'.closed = events.closed /\ events'.ended = events.ended
        /\ events'.made = events.made \cup {n} /\ events'.inClose = inClose
        /\ events'.wrong = events.wrong /\ events'.late = events.late
        /\ events.closed \subseteq 1 .. Len(queues) /\ events.ended \subseteq 1 .. Len(queues)
    <3>1. events \in Told(n) /\ n \in 1 .. n /\ Len(queues') = n
      BY <1>1, ToldGrows
    <3>2. events.made \cup {n} \subseteq 1 .. n /\ inClose \subseteq 1 .. n
      BY <3>1 DEF Told
    <3>3. events.closed \subseteq 1 .. Len(queues) /\ events.ended \subseteq 1 .. Len(queues)
      BY DEF Told
    <3>4. events' = [events EXCEPT !.made = events.made \cup {n}, !.inClose = inClose]
      BY <2>1
    <3> HIDE DEF n, inClose
    <3>5. events' \in Told(n)
      BY <3>1, <3>2, <3>4, Zenon DEF Told
    <3> QED BY <3>1, <3>3, <3>4, <3>5 DEF Told
  <2>3. socket'.id = n /\ socket'.handlers = n /\ n \notin events.closed /\ n \notin events.ended
    BY <1>1, <2>1, <2>2
  <2>4. socket' \in [id : 0 .. Len(queues'), handlers : 0 .. Len(queues')] /\ loop' \in 0 .. Len(queues')
    BY <1>1, <2>1
  <2>5. HandlersOwn' /\ LoopOwn'
    BY <1>1, <2>1, <2>2, <2>3 DEF HandlersOwn, LoopOwn
  <2>6. ClosingOwn'
    BY <2>1, <2>2, <2>3 DEF ClosingOwn
  <2>7. ConnectionsHeld'
    <3>1. ASSUME NEW c \in events.made PROVE c \in events.closed \cup events.ended \cup events.inClose
      <4>1. c # 0
        BY <3>1, <1>1 DEF Told
      <4> QED BY <2>1, <3>1, <4>1 DEF ConnectionsHeld
    <3> QED BY <2>2, <2>3, <3>1 DEF ConnectionsHeld
  <2> QED BY <1>1, <2>1, <2>2, <2>4, <2>5, <2>6, <2>7 DEF EventsReachTheirHandlers
<1>3. CASE ConnectFails
  <2>1. wakes' \in Seq(Wakes)
    BY <1>1, <1>3 DEF ConnectFails, Wakes
  <2>2. socket' \in [id : 0 .. Len(queues'), handlers : 0 .. Len(queues')] /\ socket'.id = 0 /\ socket.id = 0
    <3>1. socket' = [socket EXCEPT !.handlers = Len(queues) + 1] /\ socket.id = 0
      BY <1>3 DEF ConnectFails
    <3>2. Len(queues) + 1 \in 0 .. Len(queues') /\ 0 \in 0 .. Len(queues')
      BY <1>1
    <3> QED BY <3>1, <3>2
  <2>3. loop' \in 0 .. Len(queues') /\ loop' = loop /\ closing' = closing
    BY <1>1, <1>3 DEF ConnectFails
  <2>4. events' \in Told(Len(queues')) /\ events' = events
    BY <1>1, <1>3, ToldGrows DEF ConnectFails
  <2> QED BY <1>1, <2>1, <2>2, <2>3, <2>4 DEF HandlersOwn, LoopOwn, ClosingOwn, EventsReachTheirHandlers, ConnectionsHeld
<1> QED BY <1>2, <1>3

\* dispatch() takes an event: it is one of the connection whose handlers it captured.
LEMMA ClientTurn ==
    ASSUME ClientInv, DispatchEvent PROVE ClientInv'
<1> USE DEF ClientInv, ClientType
<1>0. Len(queues) \in Nat /\ DOMAIN queues = 1 .. Len(queues)
  OBVIOUS
<1> DEFINE q == queues[socket.id]
<1>1. socket.id \in DOMAIN queues /\ q \in Seq(NativeEvents) /\ q # <<>> /\ loop = socket.id /\ ~closing /\ loop # 0
  BY <1>0 DEF DispatchEvent, LoopOwn
<1>2. queues' = [queues EXCEPT ![socket.id] = Tail(@)] /\ Turn(Head(q)) /\ Head(q) \in NativeEvents
  BY <1>1 DEF DispatchEvent, Turn
<1> DEFINE close == Head(q) = "close"
           ended == IF close THEN events.ended \cup {socket.id} ELSE events.ended
<1>3. queues' \in Seq(Seq(NativeEvents)) /\ Len(queues') = Len(queues)
  <2>1. Tail(q) \in Seq(NativeEvents)
    BY <1>1
  <2> QED BY <1>0, <1>1, <1>2, <2>1, ExceptSeq
<1>4. socket' = socket /\ loop' = loop /\ wakes' = wakes /\ closing' = close
  BY <1>2 DEF Turn
<1>5. /\ events' \in Told(Len(queues)) /\ events'.closed = events.closed /\ ~events'.wrong /\ ~events'.late
      /\ events'.made = events.made /\ events'.inClose = events.inClose /\ events'.ended = ended
  <2>1. (loop # socket.id) = FALSE /\ (loop \in events.closed \cup events.ended) = FALSE
    BY <1>1 DEF HandlersOwn
  <2>2. events.wrong = FALSE /\ events.late = FALSE
    BY DEF EventsReachTheirHandlers, Told
  <2>3. (events.wrong \/ loop # socket.id) = FALSE /\ (events.late \/ loop \in events.closed \cup events.ended) = FALSE
    BY <2>1, <2>2
  <2>4. (events' = events /\ ~close) \/ events' = [events EXCEPT !.wrong = FALSE, !.late = FALSE, !.ended = ended]
    BY <1>2, <2>3 DEF Turn
  <2>5. ended \subseteq 1 .. Len(queues)
    BY <1>0, <1>1 DEF Told
  <2> HIDE DEF ended, close
  <2>6. CASE events' = events /\ ~close
    BY <2>2, <2>6 DEF Told, ended
  <2>7. CASE events' = [events EXCEPT !.wrong = FALSE, !.late = FALSE, !.ended = ended]
    BY <2>5, <2>7 DEF Told
  <2> QED BY <2>4, <2>6, <2>7
<1>6. HandlersOwn' /\ LoopOwn' /\ ClosingOwn'
  BY <1>1, <1>4, <1>5 DEF HandlersOwn, LoopOwn, ClosingOwn
<1>7. ConnectionsHeld'
  BY <1>4, <1>5 DEF ConnectionsHeld
<1> QED BY <1>0, <1>3, <1>4, <1>5, <1>6, <1>7 DEF EventsReachTheirHandlers

LEMMA ClientStep == ClientInv /\ [ClientNext]_clientVars => ClientInv'
<1> SUFFICES ASSUME ClientInv, [ClientNext]_clientVars PROVE ClientInv'
  OBVIOUS
<1> USE DEF ClientInv, ClientType
<1>0. Len(queues) \in Nat /\ DOMAIN queues = 1 .. Len(queues)
  OBVIOUS
<1>1. CASE Connect \/ ConnectFails
  BY <1>1, ClientConnects
<1>2. CASE CloseSocket
  <2>1. socket.handlers = socket.id /\ socket.id \in 1 .. Len(queues)
    BY <1>0, <1>2 DEF CloseSocket, HandlersOwn
  <2>2. /\ events' \in Told(Len(queues)) /\ events'.wrong = events.wrong /\ events'.late = events.late
        /\ events'.closed = events.closed \cup {socket.id} /\ events'.made = events.made
        /\ events'.ended = events.ended /\ events'.inClose = events.inClose
    BY <1>2, <2>1 DEF CloseSocket, Told
  <2>3. socket' = [id |-> 0, handlers |-> 0] /\ UNCHANGED <<queues, wakes, loop, closing>>
    BY <1>2 DEF CloseSocket, Closed
  <2>4. ConnectionsHeld'
    BY <2>2, <2>3 DEF ConnectionsHeld
  <2> QED BY <1>0, <2>2, <2>3, <2>4 DEF HandlersOwn, LoopOwn, ClosingOwn, EventsReachTheirHandlers
<1>3. ASSUME NEW c \in DOMAIN queues, NEW e \in NativeEvents, NativeEvent(c, e) PROVE ClientInv'
  <2>1. queues' \in Seq(Seq(NativeEvents)) /\ Len(queues') = Len(queues)
    <3>1. queues[c] \in Seq(NativeEvents)
      BY <1>0
    <3>2. Append(queues[c], e) \in Seq(NativeEvents)
      BY <3>1
    <3> QED BY <1>0, <1>3, <3>2, ExceptSeq DEF NativeEvent
  <2>2. wakes' \in Seq(Wakes)
    BY <1>3 DEF NativeEvent, Wakes
  <2>3. /\ events' \in Told(Len(queues)) /\ events'.closed = events.closed /\ events'.made = events.made
        /\ events'.ended = events.ended /\ events'.inClose = events.inClose
        /\ events'.wrong = events.wrong /\ events'.late = events.late
    <3>1. events' = [events EXCEPT !.n = @ + 1] /\ events \in Told(Len(queues))
      BY <1>3 DEF NativeEvent
    <3>2. events.n + 1 \in Int
      BY <3>1 DEF Told
    <3> QED BY ONLY <3>1, <3>2 DEF Told
  <2>4. socket' = socket /\ loop' = loop /\ loop = 0 /\ closing' = closing
    BY <1>3 DEF NativeEvent
  <2> QED BY <1>0, <2>1, <2>2, <2>3, <2>4 DEF HandlersOwn, LoopOwn, ClosingOwn, EventsReachTheirHandlers, ConnectionsHeld
<1>4. CASE Wake
  <2>1. Head(wakes) \in Wakes /\ wakes' \in Seq(Wakes)
    BY <1>4 DEF Wake
  <2>2. Head(wakes)[1] = "error" => Head(wakes)[2] \in Nat
    BY <2>1 DEF Wakes
  <2>3. /\ events' \in Told(Len(queues)) /\ events'.closed = events.closed /\ events'.made = events.made
        /\ events'.ended = events.ended /\ events'.inClose = events.inClose
        /\ events'.wrong = events.wrong /\ events'.late = events.late
    <3>1. CASE events' = events
      BY <3>1
    <3>2. CASE Head(wakes)[1] = "error" /\ events' = [events EXCEPT !.failed = @ \cup {Head(wakes)[2]}]
      BY <2>2, <3>2 DEF Told
    <3> QED BY <1>4, <3>1, <3>2 DEF Wake
  <2>4. ~closing /\ UNCHANGED <<socket, queues, closing>> /\ loop' \in {0, socket.handlers}
    BY <1>4 DEF Wake, ClosingOwn
  <2> QED BY <1>0, <2>1, <2>3, <2>4 DEF HandlersOwn, LoopOwn, ClosingOwn, EventsReachTheirHandlers, ConnectionsHeld
<1>5. CASE DispatchEvent
  BY <1>5, ClientTurn
<1>6. CASE DispatchReturns
  BY <1>0, <1>6 DEF DispatchReturns, HandlersOwn, LoopOwn, ClosingOwn, EventsReachTheirHandlers, ConnectionsHeld
<1>7. CASE DispatchCloses
  <2>1. /\ socket' = [id |-> 0, handlers |-> 0] /\ loop' = 0 /\ closing' = FALSE /\ UNCHANGED <<queues, wakes, events>>
        /\ socket.id # 0 => socket.id \in events.ended \cup events.inClose
    BY <1>7 DEF DispatchCloses, Closed, ClosingOwn
  <2>2. ConnectionsHeld'
    <3>1. ASSUME NEW c \in events.made PROVE c \in events.closed \cup events.ended \cup events.inClose
      <4>1. c # 0
        BY <3>1, <1>0 DEF Told
      <4> QED BY <2>1, <3>1, <4>1 DEF ConnectionsHeld
    <3> QED BY <2>1, <3>1 DEF ConnectionsHeld
  <2>3. 0 \in 0 .. Len(queues)
    BY <1>0
  <2>4. ClientType'
    BY <2>1, <2>3
  <2> QED BY <2>1, <2>2, <2>4 DEF HandlersOwn, LoopOwn, ClosingOwn, EventsReachTheirHandlers
<1>8. CASE UNCHANGED clientVars
  BY <1>8 DEF clientVars, HandlersOwn, LoopOwn, ClosingOwn, EventsReachTheirHandlers, ConnectionsHeld
<1> QED BY <1>1, <1>2, <1>3, <1>4, <1>5, <1>6, <1>7, <1>8 DEF ClientNext, NativeEvents

\* Events of a connection reach only the handlers of the connect() that made it, and none after close() or 'close',
\* however often the handlers close and connect the socket while dispatch() drains; and the socket holds its
\* connection until then, unless a close handler made it.
THEOREM EventsReachTheirHandlersCorrect == ClientSpec => [](EventsReachTheirHandlers /\ ConnectionsHeld)
<1>1. ClientInv => EventsReachTheirHandlers /\ ConnectionsHeld
  BY DEF ClientInv
<1> QED BY <1>1, ClientStart, ClientStep, PTL DEF ClientSpec
----------------
(* Request and Response bodies *)

BodySpec == BodyInit /\ [][BodyNext]_bodyVars

MediaTypes == {None0, "x", "urlencoded", "text", "multipart", "png"}
Obj == [class : {"Request", "Response"}, stream : BOOLEAN, used : BOOLEAN, like : Nat, bytes : Seq(BodyKinds),
        type : MediaTypes]
Source == [chunks : Seq(Nat), wrote : Nat, state : {"open", "closed", "errored"}, locked : BOOLEAN]
Piece == BodyKinds \cup Nat
Reading == [of : Nat, how : {"text", "formData"}, state : {"draining", "resolved", "rejected"}, got : Seq(Piece), type : MediaTypes]

Upto(n) == [i \in 1 .. n |-> i]

BodyType ==
    /\ objs \in Seq(Obj) /\ source \in Source /\ reads \in Seq(Reading)
    /\ \A r \in DOMAIN reads : reads[r].of \in DOMAIN objs
    /\ \A k \in DOMAIN objs : objs[k].like \in 0 .. Len(objs) /\ (objs[k].stream => objs[k].class = "Request")

\* A reader that has the body of its Request, or is taking it.
HasBody(r) == reads[r].state \in {"draining", "resolved"} /\ objs[reads[r].of].class = "Request"
OfStream(r) == HasBody(r) /\ objs[reads[r].of].stream

\* A reader takes a body that it marked used, and the stream that it locked: so no two take the same.
OneReader ==
    /\ \A r \in DOMAIN reads : HasBody(r) => objs[reads[r].of].used
    /\ \A r, q \in DOMAIN reads : HasBody(r) /\ HasBody(q) /\ reads[r].of = reads[q].of => r = q
    /\ \A r \in DOMAIN reads : OfStream(r) => source.locked
    /\ \A r, q \in DOMAIN reads : OfStream(r) /\ OfStream(q) => r = q

\* Where the chunks are: all in the stream, or some with the reader that drains it, or all with it.
Chunks ==
    /\ ~source.locked => source.chunks = Upto(source.wrote)
    /\ \A r \in DOMAIN reads : reads[r].state = "draining" =>
           OfStream(r) /\ reads[r].got \o source.chunks = Upto(source.wrote)
    /\ \A r \in DOMAIN reads : reads[r].state = "resolved" /\ OfStream(r) =>
           source.chunks = <<>> /\ source.state = "closed" /\ reads[r].got = Upto(source.wrote)
    /\ \A r \in DOMAIN reads : reads[r].state = "resolved" /\ HasBody(r) /\ ~objs[reads[r].of].stream =>
           reads[r].got = objs[reads[r].of].bytes

BodyInv == BodyType /\ OneReader /\ Chunks /\ CloneKeepsType

LEMMA BodyStart == BodyInit => BodyInv
<1> SUFFICES ASSUME BodyInit PROVE BodyInv
  OBVIOUS
<1>1. Upto(0) = <<>>
  BY DEF Upto
<1>2. BodyType
  BY DEF BodyInit, BodyType, Obj, Source, Reading
<1> QED BY <1>1, <1>2 DEF BodyInit, BodyInv, OneReader, Chunks, CloneKeepsType

\* Another object: what the readers know of theirs is as before.
LEMMA BodyObject ==
    ASSUME BodyInv, NEW o \in Obj, objs' = Append(objs, o), UNCHANGED <<source, reads>>,
           o.like \in 0 .. Len(objs), o.stream => o.class = "Request",
           o.like # 0 => o.type = objs[o.like].type \/ (objs[o.like].class = "Response" /\ objs[o.like].type = None0)
    PROVE  BodyInv'
<1>1. /\ objs' \in Seq(Obj) /\ Len(objs') = Len(objs) + 1 /\ Len(objs) \in Nat
      /\ DOMAIN objs = 1 .. Len(objs) /\ DOMAIN objs' = 1 .. Len(objs) + 1
      /\ \A k \in DOMAIN objs : objs'[k] = objs[k]
      /\ objs'[Len(objs) + 1] = o
  BY DEF BodyInv, BodyType
<1>2. BodyType'
  BY <1>1 DEF BodyInv, BodyType
<1>3. \A r \in DOMAIN reads : objs'[reads'[r].of] = objs[reads[r].of]
  BY <1>1 DEF BodyInv, BodyType
<1>4. \A r \in DOMAIN reads : (HasBody(r)' <=> HasBody(r)) /\ (OfStream(r)' <=> OfStream(r))
  BY <1>3 DEF HasBody, OfStream
<1>5. OneReader'
  BY <1>3, <1>4 DEF BodyInv, OneReader
<1>6. Chunks'
  BY <1>3, <1>4 DEF BodyInv, Chunks
<1>7. CloneKeepsType'
  <2> SUFFICES ASSUME NEW k \in DOMAIN objs', objs'[k].like # 0
               PROVE  \/ objs'[k].type = objs'[objs'[k].like].type
                      \/ objs'[objs'[k].like].class = "Response" /\ objs'[objs'[k].like].type = None0
    BY DEF CloneKeepsType
  <2>1. CASE k \in DOMAIN objs
    <3>1. objs[k].like \in DOMAIN objs /\ objs'[k] = objs[k]
      BY <1>1, <2>1 DEF BodyInv, BodyType
    <3>2. \/ objs[k].type = objs[objs[k].like].type
          \/ objs[objs[k].like].class = "Response" /\ objs[objs[k].like].type = None0
      BY <2>1, <3>1 DEF BodyInv, CloneKeepsType
    <3>3. objs'[objs[k].like] = objs[objs[k].like]
      BY <1>1, <3>1
    <3> QED BY <3>1, <3>2, <3>3
  <2>2. CASE k = Len(objs) + 1
    BY <1>1, <2>2
  <2>3. k \in DOMAIN objs \/ k = Len(objs) + 1
    BY <1>1
  <2> QED BY <2>1, <2>2, <2>3
<1> QED BY <1>2, <1>5, <1>6, <1>7 DEF BodyInv

LEMMA BodyNew ==
    ASSUME BodyInv, NEW class \in {"Request", "Response"}, NEW body \in BodyKinds, NEW named \in {None0, "x"},
           New(class, body, named)
    PROVE  BodyInv'
<1> DEFINE o == Object(class, body, named)
<1>1. o.like = 0 /\ o.class = class /\ o.stream = (body = "stream")
  BY DEF Object
<1>2. o \in Obj
  <2>1. OwnType(class, body) \in MediaTypes /\ named \in MediaTypes
    BY DEF OwnType, None0, MediaTypes
  <2>2. <<body>> \in Seq(BodyKinds) /\ <<>> \in Seq(BodyKinds)
    OBVIOUS
  <2> QED BY <2>1, <2>2 DEF Object, Obj
<1>3. o.stream => o.class = "Request"
  BY <1>1 DEF New, Takes
<1>4. Len(objs) \in Nat
  BY DEF BodyInv, BodyType
<1> QED BY <1>1, <1>2, <1>3, <1>4, BodyObject DEF New

CloneObj(x, n, t) == [x EXCEPT !.stream = FALSE, !.like = n, !.type = t]

LEMMA CloneOf ==
    ASSUME NEW x \in Obj, NEW n \in Nat, NEW t \in MediaTypes
    PROVE  /\ CloneObj(x, n, t) \in Obj /\ CloneObj(x, n, t).like = n
           /\ ~CloneObj(x, n, t).stream /\ CloneObj(x, n, t).type = t
BY DEF Obj, CloneObj

LEMMA BodyClone ==
    ASSUME BodyInv, NEW k \in DOMAIN objs, Clone(k) PROVE BodyInv'
<1> DEFINE o == CloneObj(objs[k], k, CloneType(objs[k]))
<1>1. objs[k] \in Obj /\ Len(objs) \in Nat /\ k \in 1 .. Len(objs) /\ k \in Nat
  BY DEF BodyInv, BodyType
<1>2. CloneType(objs[k]) \in MediaTypes
  BY <1>1 DEF CloneType, Obj, MediaTypes
<1>3. o \in Obj /\ o.like = k /\ ~o.stream /\ o.type = CloneType(objs[k])
  BY <1>1, <1>2, CloneOf
<1>4. CloneType(objs[k]) = objs[k].type \/ (objs[k].class = "Response" /\ objs[k].type = None0)
  BY DEF CloneType
<1>5. objs' = Append(objs, o) /\ UNCHANGED <<source, reads>>
  BY DEF Clone, CloneObj
<1> HIDE DEF o
<1> QED BY <1>1, <1>3, <1>4, <1>5, BodyObject

\* What a reader's call may do to the objects and to the stream: mark the object used, lock the stream.
Marks(k) == objs' = objs \/ objs' = [objs EXCEPT ![k] = Consumed(@)]
Locks == source' = source \/ source' = [source EXCEPT !.locked = TRUE]

LEMMA MarkFacts ==
    ASSUME BodyType, NEW k \in DOMAIN objs, Marks(k)
    PROVE  /\ objs' \in Seq(Obj) /\ Len(objs') = Len(objs) /\ DOMAIN objs' = DOMAIN objs
           /\ \A j \in DOMAIN objs :
                 /\ objs'[j].class = objs[j].class /\ objs'[j].stream = objs[j].stream /\ objs'[j].like = objs[j].like
                 /\ objs'[j].bytes = objs[j].bytes /\ objs'[j].type = objs[j].type
                 /\ objs[j].used => objs'[j].used
<1>1. CASE objs' = objs
  BY <1>1 DEF BodyType
<1>2. CASE objs' = [objs EXCEPT ![k] = Consumed(@)]
  <2>1. objs[k] \in Obj /\ k \in 1 .. Len(objs) /\ DOMAIN objs = 1 .. Len(objs)
    BY DEF BodyType
  <2>2. Consumed(objs[k]) \in Obj
    BY <2>1 DEF Consumed, Obj
  <2>3. /\ Consumed(objs[k]).class = objs[k].class /\ Consumed(objs[k]).stream = objs[k].stream
        /\ Consumed(objs[k]).like = objs[k].like /\ Consumed(objs[k]).bytes = objs[k].bytes
        /\ Consumed(objs[k]).type = objs[k].type /\ Consumed(objs[k]).used
    BY <2>1 DEF Consumed, Obj
  <2>4. objs' \in Seq(Obj) /\ Len(objs') = Len(objs)
    BY <1>2, <2>1, <2>2, ExceptSeq DEF BodyType
  <2>5. \A j \in DOMAIN objs : objs'[j] = IF j = k THEN Consumed(objs[k]) ELSE objs[j]
    BY <1>2
  <2>6. DOMAIN objs' = DOMAIN objs
    BY <1>2
  <2> QED BY <2>3, <2>4, <2>5, <2>6
<1> QED BY <1>1, <1>2 DEF Marks

LEMMA LockFacts ==
    ASSUME BodyType, Locks
    PROVE  /\ source' \in Source /\ source'.chunks = source.chunks /\ source'.wrote = source.wrote
           /\ source'.state = source.state /\ (source.locked => source'.locked)
<1>1. CASE source' = source
  BY <1>1 DEF BodyType
<1>2. CASE source' = [source EXCEPT !.locked = TRUE]
  BY <1>2 DEF BodyType, Source
<1> QED BY <1>1, <1>2 DEF Locks

\* A reader's call is added: it has taken a body nobody had taken, or it was refused.
LEMMA BodyAddRead ==
    ASSUME BodyInv, NEW k \in DOMAIN objs, NEW rd \in Reading, rd.of = k, reads' = Append(reads, rd), Marks(k), Locks,
           rd.state # "rejected" /\ objs[k].class = "Request" => ~objs[k].used /\ objs'[k].used,
           rd.state = "draining" => /\ objs[k].class = "Request" /\ objs[k].stream /\ rd.got = <<>>
                                    /\ ~source.locked /\ source'.locked,
           rd.state = "resolved" => rd.got = objs[k].bytes /\ ~objs[k].stream
    PROVE  BodyInv'
<1>1. BodyType /\ OneReader /\ Chunks /\ CloneKeepsType
  BY DEF BodyInv
<1>0. PICK n \in Nat : n = Len(reads) + 1
  BY <1>1 DEF BodyType
<1>2. /\ reads' \in Seq(Reading) /\ n \in Nat /\ DOMAIN reads = 1 .. Len(reads) /\ DOMAIN reads' = DOMAIN reads \cup {n}
      /\ n \notin DOMAIN reads /\ reads'[n] = rd /\ \A r \in DOMAIN reads : reads'[r] = reads[r]
  BY <1>0, <1>1 DEF BodyType
<1>3. /\ objs' \in Seq(Obj) /\ Len(objs') = Len(objs) /\ DOMAIN objs' = DOMAIN objs
      /\ \A j \in DOMAIN objs :
            /\ objs'[j].class = objs[j].class /\ objs'[j].stream = objs[j].stream /\ objs'[j].like = objs[j].like
            /\ objs'[j].bytes = objs[j].bytes /\ objs'[j].type = objs[j].type
            /\ objs[j].used => objs'[j].used
  BY <1>1, MarkFacts
<1>4. /\ source' \in Source /\ source'.chunks = source.chunks /\ source'.wrote = source.wrote
      /\ source'.state = source.state /\ (source.locked => source'.locked)
  BY <1>1, LockFacts
<1>5. BodyType'
  <2>1. \A r \in DOMAIN reads' : reads'[r].of \in DOMAIN objs'
    BY <1>1, <1>2, <1>3 DEF BodyType
  <2>2. \A j \in DOMAIN objs' : objs'[j].like \in 0 .. Len(objs') /\ (objs'[j].stream => objs'[j].class = "Request")
    BY <1>1, <1>3 DEF BodyType
  <2> QED BY <1>2, <1>3, <1>4, <2>1, <2>2 DEF BodyType
<1>6. \A r \in DOMAIN reads : reads[r].of \in DOMAIN objs
  BY <1>1 DEF BodyType
<1>7. \A r \in DOMAIN reads : (HasBody(r)' <=> HasBody(r)) /\ (OfStream(r)' <=> OfStream(r))
  BY <1>2, <1>3, <1>6 DEF HasBody, OfStream
<1>8. /\ HasBody(n)' <=> rd.state # "rejected" /\ objs[k].class = "Request"
      /\ OfStream(n)' <=> rd.state # "rejected" /\ objs[k].class = "Request" /\ objs[k].stream
  BY <1>2, <1>3 DEF HasBody, OfStream, Reading
<1>9. OneReader'
  <2>1. \A r \in DOMAIN reads' : HasBody(r)' => objs'[reads'[r].of].used
    BY <1>1, <1>2, <1>3, <1>6, <1>7, <1>8 DEF OneReader
  <2>2. \A r \in DOMAIN reads : HasBody(r) /\ HasBody(n)' => reads[r].of # k
    BY <1>1, <1>8 DEF OneReader
  <2>3. \A r, q \in DOMAIN reads' : HasBody(r)' /\ HasBody(q)' /\ reads'[r].of = reads'[q].of => r = q
    BY <1>1, <1>2, <1>7, <2>2 DEF OneReader
  <2>4. OfStream(n)' => ~source.locked /\ source'.locked
    BY <1>8 DEF Reading
  <2>5. \A r \in DOMAIN reads' : OfStream(r)' => source'.locked
    BY <1>1, <1>2, <1>4, <1>7, <2>4 DEF OneReader
  <2>6. \A r, q \in DOMAIN reads' : OfStream(r)' /\ OfStream(q)' => r = q
    BY <1>1, <1>2, <1>7, <2>4 DEF OneReader
  <2> QED BY <2>1, <2>3, <2>5, <2>6 DEF OneReader
<1>10. Chunks'
  <2>1. ~source'.locked => source'.chunks = Upto(source'.wrote)
    BY <1>1, <1>4 DEF Chunks
  <2>2. \A r \in DOMAIN reads' : reads'[r].state = "draining" =>
             OfStream(r)' /\ reads'[r].got \o source'.chunks = Upto(source'.wrote)
    <3>1. rd.state = "draining" => OfStream(n)' /\ <<>> \o source.chunks = Upto(source.wrote)
      BY <1>1, <1>8 DEF Chunks, BodyType, Source
    <3>2. rd.state = "draining" => rd.got \o source'.chunks = Upto(source'.wrote)
      BY <1>4, <3>1
    <3>3. \A r \in DOMAIN reads : reads'[r].state = "draining" =>
              OfStream(r)' /\ reads'[r].got \o source'.chunks = Upto(source'.wrote)
      BY <1>1, <1>2, <1>4, <1>7 DEF Chunks
    <3> QED BY <1>2, <3>1, <3>2, <3>3
  <2>3. \A r \in DOMAIN reads' : reads'[r].state = "resolved" /\ OfStream(r)' =>
             source'.chunks = <<>> /\ source'.state = "closed" /\ reads'[r].got = Upto(source'.wrote)
    BY <1>1, <1>2, <1>4, <1>7, <1>8 DEF Chunks
  <2>4. \A r \in DOMAIN reads' : reads'[r].state = "resolved" /\ HasBody(r)' /\ ~objs'[reads'[r].of].stream =>
             reads'[r].got = objs'[reads'[r].of].bytes
    BY <1>1, <1>2, <1>3, <1>6, <1>7, <1>8 DEF Chunks
  <2> QED BY <2>1, <2>2, <2>3, <2>4 DEF Chunks
<1>11. CloneKeepsType'
  BY <1>1, <1>3 DEF CloneKeepsType, BodyType
<1> QED BY <1>5, <1>9, <1>10, <1>11 DEF BodyInv

LEMMA SettledType ==
    ASSUME NEW rd \in Reading, NEW bytes \in Seq(Piece)
    PROVE  /\ Settled(rd, bytes) \in Reading /\ Settled(rd, bytes).of = rd.of
           /\ Settled(rd, bytes).state \in {"resolved", "rejected"}
           /\ Settled(rd, bytes).state = "resolved" => Settled(rd, bytes).got = bytes
BY DEF Settled, Reading

LEMMA BodyRead ==
    ASSUME BodyInv, NEW k \in DOMAIN objs, NEW how \in {"text", "formData"}, Read(k, how)
    PROVE  BodyInv'
<1> DEFINE o == objs[k]
           read == [of |-> k, how |-> how, state |-> "draining", got |-> <<>>, type |-> o.type]
           refused == [read EXCEPT !.state = "rejected"]
<1>1. o \in Obj /\ k \in Nat
  BY DEF BodyInv, BodyType
<1>2. read \in Reading /\ read.of = k /\ read.state = "draining" /\ read.got = <<>>
  BY <1>1 DEF Reading, Obj
<1>3. refused \in Reading /\ refused.of = k /\ refused.state = "rejected"
  BY <1>2 DEF Reading
<1>4. o.bytes \in Seq(Piece)
  BY <1>1 DEF Obj, Piece
<1>5. Settled(read, o.bytes) \in Reading /\ Settled(read, o.bytes).of = k
      /\ Settled(read, o.bytes).state \in {"resolved", "rejected"}
      /\ (Settled(read, o.bytes).state = "resolved" => Settled(read, o.bytes).got = o.bytes)
  BY <1>2, <1>4, SettledType
<1>6. /\ o.class = "Request"
      /\ \/ /\ o.used /\ reads' = Append(reads, refused) /\ UNCHANGED <<objs, source>>
         \/ /\ ~o.used /\ objs' = [objs EXCEPT ![k] = Consumed(@)]
            /\ \/ ~o.stream /\ reads' = Append(reads, Settled(read, o.bytes)) /\ UNCHANGED source
               \/ o.stream /\ source.locked /\ reads' = Append(reads, refused) /\ UNCHANGED source
               \/ /\ o.stream /\ ~source.locked /\ reads' = Append(reads, read)
                  /\ source' = [source EXCEPT !.locked = TRUE]
  BY DEF Read
<1>7. /\ ~o.used => objs'[k].used
      /\ source' = [source EXCEPT !.locked = TRUE] => source'.locked
  <2>1. objs' = [objs EXCEPT ![k] = Consumed(@)] => objs'[k].used
    BY <1>1 DEF Consumed, Obj
  <2>2. source' = [source EXCEPT !.locked = TRUE] => source'.locked
    BY DEF BodyInv, BodyType, Source
  <2> QED BY <1>6, <2>1, <2>2
<1>8. Marks(k) /\ Locks
  BY <1>6 DEF Marks, Locks
<1>9. CASE reads' = Append(reads, refused)
  <2> HIDE DEF refused
  <2> QED BY <1>3, <1>8, <1>9, BodyAddRead
<1>10. CASE ~o.used /\ ~o.stream /\ reads' = Append(reads, Settled(read, o.bytes))
  <2> DEFINE rd == Settled(read, o.bytes)
  <2> HIDE DEF read
  <2>1. rd.state # "draining"
    BY <1>5
  <2> HIDE DEF rd
  <2> QED BY <1>5, <1>7, <1>8, <1>10, <2>1, BodyAddRead DEF rd
<1>11. CASE ~o.used /\ o.stream /\ ~source.locked /\ reads' = Append(reads, read) /\ source' = [source EXCEPT !.locked = TRUE]
  <2> HIDE DEF read
  <2> QED BY <1>2, <1>6, <1>7, <1>8, <1>11, BodyAddRead
<1> QED BY <1>6, <1>9, <1>10, <1>11

LEMMA BodyReadText ==
    ASSUME BodyInv, NEW k \in DOMAIN objs, ReadText(k) PROVE BodyInv'
<1> DEFINE rd == [of |-> k, how |-> "text", state |-> "resolved", got |-> objs[k].bytes, type |-> objs[k].type]
<1>1. objs[k] \in Obj /\ k \in Nat /\ (objs[k].stream => objs[k].class = "Request")
  BY DEF BodyInv, BodyType
<1>2. objs[k].bytes \in Seq(Piece)
  BY <1>1 DEF Obj, Piece
<1>3. rd \in Reading /\ rd.of = k /\ rd.state = "resolved" /\ rd.got = objs[k].bytes
  BY <1>1, <1>2 DEF Reading, Obj
<1>4. objs[k].class = "Response" /\ reads' = Append(reads, rd) /\ UNCHANGED <<objs, source>>
  BY DEF ReadText
<1>5. Marks(k) /\ Locks
  BY <1>4 DEF Marks, Locks
<1> HIDE DEF rd
<1> QED BY <1>1, <1>3, <1>4, <1>5, BodyAddRead

----------------
(* The stream *)

LEMMA MoveHead ==
    ASSUME NEW S, NEW s \in Seq(S), NEW t \in Seq(S), t # <<>>
    PROVE  Append(s, Head(t)) \o Tail(t) = s \o t
<1>1. Append(s, Head(t)) \in Seq(S) /\ Tail(t) \in Seq(S) /\ Len(Tail(t)) = Len(t) - 1 /\ Len(t) > 0
      /\ Len(s) \in Nat /\ Len(t) \in Nat
  OBVIOUS
<1>2. \A i \in 1 .. Len(t) - 1 : Tail(t)[i] = t[i + 1]
  OBVIOUS
<1>3. Len(Append(s, Head(t)) \o Tail(t)) = Len(s \o t)
  BY <1>1
<1>4. \A i \in 1 .. Len(s \o t) : (Append(s, Head(t)) \o Tail(t))[i] = (s \o t)[i]
  BY <1>1, <1>2
<1> QED BY <1>1, <1>3, <1>4, SeqEqual, ConcatProperties

LEMMA UptoNext ==
    ASSUME NEW n \in Nat
    PROVE  Upto(n) \in Seq(Nat) /\ Append(Upto(n), n + 1) = Upto(n + 1)
<1>1. Upto(n) \in Seq(Nat) /\ Len(Upto(n)) = n /\ Upto(n + 1) \in Seq(Nat) /\ Len(Upto(n + 1)) = n + 1
  BY DEF Upto
<1>2. Append(Upto(n), n + 1) \in Seq(Nat) /\ Len(Append(Upto(n), n + 1)) = n + 1
  BY <1>1
<1>3. \A i \in 1 .. n + 1 : Append(Upto(n), n + 1)[i] = Upto(n + 1)[i]
  BY <1>1 DEF Upto
<1> QED BY <1>1, <1>2, <1>3, SeqEqual

LEMMA BodyProduce ==
    ASSUME BodyInv, Produce \/ \E state \in {"closed", "errored"} : Finish(state)
    PROVE  BodyInv'
<1>1. source \in Source /\ objs' = objs /\ reads' = reads /\ source.state = "open"
  BY DEF BodyInv, BodyType, Produce, Finish
<1>2. source' \in Source /\ source'.locked = source.locked
  <2>1. CASE Produce
    <3>1. source.wrote + 1 \in Nat /\ Append(source.chunks, source.wrote + 1) \in Seq(Nat)
      BY <1>1 DEF Source
    <3> QED BY <1>1, <2>1, <3>1 DEF Produce, Source
  <2>2. ASSUME NEW state \in {"closed", "errored"}, Finish(state) PROVE source' \in Source /\ source'.locked = source.locked
    BY <1>1, <2>2 DEF Finish, Source
  <2> QED BY <2>1, <2>2
<1>3. BodyType' /\ OneReader' /\ CloneKeepsType'
  BY <1>1, <1>2 DEF BodyInv, BodyType, OneReader, HasBody, OfStream, CloneKeepsType
<1>4. \A r \in DOMAIN reads : ~(reads[r].state = "resolved" /\ OfStream(r))
  BY <1>1 DEF BodyInv, Chunks
<1>5. ASSUME NEW s \in Seq(Piece), s \o source.chunks = Upto(source.wrote)
      PROVE  s \o source'.chunks = Upto(source'.wrote)
  <2>1. CASE Produce
    <3>1. source'.wrote = source.wrote + 1 /\ source'.chunks = Append(source.chunks, source.wrote + 1)
      BY <1>1, <2>1 DEF Produce, Source
    <3>2. source.chunks \in Seq(Piece) /\ source.wrote \in Nat /\ source.wrote + 1 \in Piece
      BY <1>1 DEF Source, Piece
    <3>3. s \o Append(source.chunks, source.wrote + 1) = Append(s \o source.chunks, source.wrote + 1)
      BY <3>2
    <3> QED BY <1>5, <3>1, <3>2, <3>3, UptoNext
  <2>2. ASSUME NEW state \in {"closed", "errored"}, Finish(state) PROVE s \o source'.chunks = Upto(source'.wrote)
    <3>1. source'.wrote = source.wrote /\ source'.chunks = source.chunks
      BY <1>1, <2>2 DEF Finish, Source
    <3> QED BY <1>5, <3>1
  <2> QED BY <2>1, <2>2
<1>6. <<>> \in Seq(Piece) /\ source.chunks \in Seq(Nat) /\ source'.chunks \in Seq(Nat)
      /\ <<>> \o source.chunks = source.chunks /\ <<>> \o source'.chunks = source'.chunks
  BY <1>1, <1>2 DEF Source
<1>7. ~source'.locked => source'.chunks = Upto(source'.wrote)
  BY <1>2, <1>5, <1>6 DEF BodyInv, Chunks
<1>8. \A r \in DOMAIN reads : reads[r].got \in Seq(Piece)
  <2>1. \A r \in DOMAIN reads : reads[r] \in Reading
    BY DEF BodyInv, BodyType
  <2> QED BY <2>1 DEF Reading
<1>9. Chunks'
  BY <1>1, <1>4, <1>5, <1>7, <1>8 DEF BodyInv, Chunks, HasBody, OfStream
<1> QED BY <1>3, <1>9 DEF BodyInv

\* One turn of drainRequestBody(): the reader that drains is the only one of a stream.
LEMMA BodyDrain ==
    ASSUME BodyInv, NEW k \in DOMAIN reads, Drain(k) PROVE BodyInv'
<1>1. BodyType /\ OneReader /\ Chunks /\ CloneKeepsType /\ objs' = objs /\ reads[k].state = "draining"
  BY DEF BodyInv, Drain
<1>2. /\ reads[k] \in Reading /\ source \in Source /\ OfStream(k) /\ reads[k].got \in Seq(Piece)
      /\ source.chunks \in Seq(Nat) /\ source.chunks \in Seq(Piece) /\ source.wrote \in Nat
      /\ reads[k].got \o source.chunks = Upto(source.wrote)
      /\ k \in 1 .. Len(reads) /\ DOMAIN reads = 1 .. Len(reads) /\ Len(reads) \in Nat
  <2>1. reads[k] \in Reading /\ source \in Source
    BY <1>1 DEF BodyType
  <2>2. reads[k].got \in Seq(Piece) /\ source.chunks \in Seq(Nat) /\ source.wrote \in Nat
    BY <2>1 DEF Reading, Source
  <2>3. source.chunks \in Seq(Piece)
    BY <2>2 DEF Piece
  <2>4. OfStream(k) /\ reads[k].got \o source.chunks = Upto(source.wrote)
    BY <1>1 DEF Chunks
  <2>5. k \in 1 .. Len(reads) /\ DOMAIN reads = 1 .. Len(reads) /\ Len(reads) \in Nat
    BY <1>1 DEF BodyType
  <2> QED BY <2>1, <2>2, <2>3, <2>4, <2>5
<1>3. source.locked
  BY <1>1, <1>2 DEF OneReader
\* What every turn leaves: the other readers, the reader's object, and where the chunks are.
<1>4. ASSUME NEW rd \in Reading, rd.of = reads[k].of, reads' = [reads EXCEPT ![k] = rd],
             source' \in Source, source'.locked, source'.wrote = source.wrote,
             rd.state = "draining" => rd.got \o source'.chunks = Upto(source.wrote),
             rd.state = "resolved" => source'.chunks = <<>> /\ source'.state = "closed" /\ rd.got = Upto(source.wrote)
      PROVE  BodyInv'
  <2>1. /\ reads' \in Seq(Reading) /\ DOMAIN reads' = DOMAIN reads /\ reads'[k] = rd
        /\ \A r \in DOMAIN reads : r # k => reads'[r] = reads[r]
        /\ \A r \in DOMAIN reads : reads'[r].of = reads[r].of
    BY <1>1, <1>2, <1>4, ExceptSeq DEF BodyType
  <2>2. \A r \in DOMAIN reads : (HasBody(r)' => HasBody(r)) /\ (OfStream(r)' => OfStream(r))
    BY <1>1, <1>2, <2>1 DEF HasBody, OfStream
  <2>3. BodyType'
    BY <1>1, <1>4, <2>1 DEF BodyType
  <2>4. OneReader'
    BY <1>1, <1>4, <2>1, <2>2 DEF OneReader
  <2>5. \A r \in DOMAIN reads : r # k => ~OfStream(r)
    BY <1>1, <1>2 DEF OneReader
  <2>6. rd.state = "draining" => OfStream(k)'
    BY <1>1, <1>2, <1>4, <2>1 DEF OfStream, HasBody
  <2>7. Chunks'
    <3>1. \A r \in DOMAIN reads' : reads'[r].state = "draining" =>
              OfStream(r)' /\ reads'[r].got \o source'.chunks = Upto(source'.wrote)
      BY <1>1, <1>4, <2>1, <2>5, <2>6 DEF Chunks
    <3>2. \A r \in DOMAIN reads' : reads'[r].state = "resolved" /\ OfStream(r)' =>
              source'.chunks = <<>> /\ source'.state = "closed" /\ reads'[r].got = Upto(source'.wrote)
      BY <1>4, <2>1, <2>2, <2>5
    <3>3. \A r \in DOMAIN reads' : reads'[r].state = "resolved" /\ HasBody(r)' /\ ~objs'[reads'[r].of].stream =>
              reads'[r].got = objs'[reads'[r].of].bytes
      BY <1>1, <1>2, <2>1, <2>2 DEF Chunks, OfStream
    <3> QED BY <1>4, <3>1, <3>2, <3>3 DEF Chunks
  <2>8. CloneKeepsType'
    BY <1>1 DEF CloneKeepsType
  <2> QED BY <2>3, <2>4, <2>7, <2>8 DEF BodyInv
<1>5. CASE /\ source.chunks # <<>>
           /\ reads' = [reads EXCEPT ![k].got = Append(@, Head(source.chunks))]
           /\ source' = [source EXCEPT !.chunks = Tail(@)]
  <2> DEFINE g == Append(reads[k].got, Head(source.chunks))
             rd == [reads[k] EXCEPT !.got = g]
  <2>1. g \in Seq(Piece) /\ Tail(source.chunks) \in Seq(Nat)
    BY <1>2, <1>5
  <2>2. g \o Tail(source.chunks) = Upto(source.wrote)
    BY <1>2, <1>5, MoveHead
  <2>3. reads' = [reads EXCEPT ![k] = rd]
    BY <1>5
  <2> HIDE DEF g
  <2>4. rd \in Reading /\ rd.of = reads[k].of /\ rd.got = g /\ rd.state = "draining"
    BY <1>1, <1>2, <2>1 DEF Reading
  <2>5. /\ source' \in Source /\ source'.chunks = Tail(source.chunks) /\ source'.wrote = source.wrote /\ source'.locked
    BY <1>2, <1>3, <1>5, <2>1 DEF Source
  <2> HIDE DEF rd
  <2> QED BY <1>4, <2>2, <2>3, <2>4, <2>5
<1>6. CASE /\ source.chunks = <<>> /\ source.state = "closed"
           /\ reads' = [reads EXCEPT ![k] = Settled(@, @.got)]
           /\ UNCHANGED source
  <2> DEFINE rd == Settled(reads[k], reads[k].got)
  <2>1. /\ rd \in Reading /\ rd.of = reads[k].of /\ rd.state \in {"resolved", "rejected"}
        /\ rd.state = "resolved" => rd.got = reads[k].got
    BY <1>2, SettledType
  <2>2. reads[k].got = Upto(source.wrote)
    <3>1. reads[k].got \o <<>> = reads[k].got
      BY <1>2
    <3> QED BY <1>2, <1>6, <3>1
  <2>3. reads' = [reads EXCEPT ![k] = rd]
    BY <1>6
  <2> HIDE DEF rd
  <2> QED BY <1>2, <1>3, <1>4, <1>6, <2>1, <2>2, <2>3
<1>7. CASE /\ source.chunks = <<>> /\ source.state = "errored"
           /\ reads' = [reads EXCEPT ![k].state = "rejected"]
           /\ UNCHANGED source
  <2> DEFINE rd == [reads[k] EXCEPT !.state = "rejected"]
  <2>1. rd \in Reading /\ rd.of = reads[k].of /\ rd.state = "rejected"
    BY <1>2 DEF Reading
  <2>2. reads' = [reads EXCEPT ![k] = rd]
    BY <1>7
  <2> HIDE DEF rd
  <2> QED BY <1>2, <1>3, <1>4, <1>7, <2>1, <2>2
<1> QED BY <1>5, <1>6, <1>7 DEF Drain

LEMMA BodyStep == BodyInv /\ [BodyNext]_bodyVars => BodyInv'
<1> SUFFICES ASSUME BodyInv, [BodyNext]_bodyVars PROVE BodyInv'
  OBVIOUS
<1>1. ASSUME UNCHANGED bodyVars PROVE BodyInv'
  BY <1>1 DEF bodyVars, BodyInv, BodyType, OneReader, Chunks, CloneKeepsType, HasBody, OfStream
<1>2. ASSUME NEW class \in {"Request", "Response"}, NEW body \in BodyKinds, NEW named \in {None0, "x"}, New(class, body, named)
      PROVE  BodyInv'
  BY <1>2, BodyNew
<1>3. ASSUME NEW k \in DOMAIN objs, Clone(k) PROVE BodyInv'
  BY <1>3, BodyClone
<1>4. ASSUME NEW k \in DOMAIN objs, NEW how \in {"text", "formData"}, Read(k, how) PROVE BodyInv'
  BY <1>4, BodyRead
<1>5. ASSUME NEW k \in DOMAIN objs, ReadText(k) PROVE BodyInv'
  BY <1>5, BodyReadText
<1>6. ASSUME NEW k \in DOMAIN reads, Drain(k) PROVE BodyInv'
  BY <1>6, BodyDrain
<1>7. ASSUME Produce \/ \E state \in {"closed", "errored"} : Finish(state) PROVE BodyInv'
  BY <1>7, BodyProduce
<1> QED BY <1>1, <1>2, <1>3, <1>4, <1>5, <1>6, <1>7 DEF BodyNext

LEMMA BodySafe == BodyInv => BodyReadOnce /\ CloneKeepsType
<1> SUFFICES ASSUME BodyInv PROVE BodyReadOnce
  BY DEF BodyInv
<1> DEFINE Ok == {r \in DOMAIN reads : reads[r].state = "resolved" /\ objs[reads[r].of].class = "Request"}
<1>1. \A r \in Ok : r \in DOMAIN reads /\ HasBody(r) /\ reads[r].state = "resolved"
      /\ (objs[reads[r].of].stream <=> OfStream(r))
  BY DEF HasBody, OfStream
<1>2. \A r, q \in Ok : reads[r].of = reads[q].of => r = q
  BY <1>1 DEF BodyInv, OneReader
<1>3. \A r, q \in Ok : objs[reads[r].of].stream /\ objs[reads[q].of].stream => r = q
  BY <1>1 DEF BodyInv, OneReader
<1>4. \A r \in Ok : reads[r].got = IF objs[reads[r].of].stream THEN [i \in 1 .. source.wrote |-> i] ELSE objs[reads[r].of].bytes
  BY <1>1 DEF BodyInv, Chunks, Upto
<1> QED BY <1>2, <1>3, <1>4 DEF BodyReadOnce

\* However many Requests, clones and readers contend for bytes and for a stream: a body reaches one reader at most,
\* whole and in order, and a clone keeps its content type.
THEOREM BodyReadOnceCorrect == BodySpec => [](BodyReadOnce /\ CloneKeepsType)
BY BodyStart, BodyStep, BodySafe, PTL DEF BodySpec

----------------

\* The services together: whichever of them runs, the other two parts' invariants stand.
THEOREM ClientsSafeCorrect == Spec => []ClientsSafe
<1> DEFINE Inv == ClientInv /\ BodyInv
<1>1. Init => Inv
  BY ClientStart, BodyStart DEF Init
<1>2. ASSUME Inv, [Next]_vars PROVE Inv'
  <2>1. [ClientNext]_clientVars /\ [BodyNext]_bodyVars
    BY <1>2 DEF Next, vars, clientVars, bodyVars
  <2> QED BY <1>2, <2>1, ClientStep, BodyStep
<1>3. Inv => ClientsSafe
  BY BodySafe DEF ClientInv, ClientsSafe
<1> HIDE DEF Inv
<1> QED BY <1>1, <1>2, <1>3, PTL DEF Spec

(***************************************************************************)
(* The services beside each other, as the program runs them: each keeps    *)
(* its own state, so what holds of one alone holds of it in the whole.     *)
(***************************************************************************)
THEOREM ServicesSafeCorrect == Spec => [](ServerSafe /\ LookupStateOutlivesThread)
<1>1. Init => ServerInv /\ ResolverInv
  <2>1. ResolverInit => ResolverInv
    BY DEF ResolverInit, ResolverInv, LookupTypeOK, Lookup, Heard, Sound, Idle
  <2> QED BY <2>1, ServerInitInv DEF Init
<1>2. ServerInv /\ ResolverInv /\ [Next]_vars => (ServerInv /\ ResolverInv)'
  <2> SUFFICES ASSUME ServerInv, ResolverInv, [Next]_vars PROVE ServerInv' /\ ResolverInv'
    OBVIOUS
  <2>1. [ServerNext]_serverVars /\ [ResolverNext]_resolverVars
    BY DEF Next, vars, serverVars, resolverVars
  <2> QED BY <2>1, ServerStepInv, ResolverStep
<1>3. ServerInv /\ ResolverInv => ServerSafe /\ LookupStateOutlivesThread
  BY ServerInvSafe DEF ResolverInv, LookupTypeOK, Heard, Sound, LookupStateOutlivesThread
<1> QED BY <1>1, <1>2, <1>3, PTL DEF Spec
=============================================================================
