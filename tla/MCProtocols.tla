---------------------------- MODULE MCProtocols ----------------------------
(* Messages, web streams and cluster workers, one part after the other: the *)
(* part of a behaviour is chosen in the initial state, and within a part    *)
(* one kind of use.                                                         *)
EXTENDS HttpMessage, WebStreams, Cluster

R(head, http10, keep, body) == [head |-> head, http10 |-> http10, keep |-> keep, body |-> body]
Get == R(FALSE, FALSE, TRUE, FALSE)
Post == R(FALSE, FALSE, TRUE, TRUE)
HeadRequest == R(TRUE, FALSE, TRUE, FALSE)
Old(keep) == R(FALSE, TRUE, keep, FALSE)
Mode(server, reqs, may, names, statuses, sizes) ==
    [server |-> server, reqs |-> reqs, may |-> may, names |-> names, statuses |-> statuses, sizes |-> sizes]

Close_ == <<"connection", "close">>
Frames == {Mode("http", reqs, {"write", "end", "writeHead", "flush", "hints", "destroy"}, {}, {200, 204}, {0, 1}) :
              reqs \in {<<Get, Get, Get>>, <<HeadRequest, Get>>, <<Old(TRUE), Old(FALSE)>>, <<R(FALSE, FALSE, FALSE, FALSE)>>}}
Lengths == Mode("http", <<Get, Get>>, {"set", "writeHead", "write", "end"}, {<<"content-length", "2">>, Close_}, {200}, {0, 1, 2})
Headers == Mode("http", <<Get>>, {"set", "append", "remove", "writeHead"}, {<<"x", "a">>, <<"X", "c">>, <<"y", "a">>}, {200}, {0})
Listeners == Mode("http", <<Get, Get>>, {"listen", "unlisten", "end"}, {}, {200}, {0})
Body == {Mode("http", reqs, {"body", "end"}, {}, {200}, {0}) : reqs \in {<<Post, Get>>, <<Get>>}}
Fetched == Mode("fetch", <<Get, HeadRequest, Get>>, {}, {<<"content-length", "1">>, Close_}, {200, 204}, {0, 1})
Sockets == Mode("http", <<>>, {"sockets"}, {}, {200}, {0})
MCModes == Frames \cup Body \cup {Lengths, Headers, Listeners, Fetched, Sockets}

Topology(top, pull, user) == [top |-> top, pull |-> pull, user |-> user]
Undisturbed == {Topology(t, p, {}) : t \in {"direct", "pipe", "through", "tee", "toNode"}, p \in BOOLEAN}
DirectReads == Topology("direct", TRUE, {"cancel", "leave", "error"})
Piped == {Topology(t, p, {"error", "fail", "abort"}) : t \in {"pipe", "through"}, p \in BOOLEAN}
Teed == {Topology("tee", TRUE, {"cancel"}), Topology("tee", FALSE, {"error"})}
ToNode == Topology("toNode", FALSE, {"error"})
FromNode == Topology("fromNode", FALSE, {})
MCWebModes == Undisturbed \cup Piped \cup Teed \cup {DirectReads, ToNode, FromNode}

\* What the program asks of the cluster in a behaviour, forks, kills and disconnects together; and pids are alike, so
\* that the first one given is 1.
MaxRequests == 4
ClusterBounds ==
    /\ primary.nextId + story.kills + story.asked <= MaxRequests
    /\ \A w \in WorkerIds : pid[w] = 2 => \E v \in 1..w : pid[v] = 1

VARIABLE part
protocolVars == <<part, vars, webVars, clusterVars>>

ProtocolInit ==
    /\ part \in {"message", "web", "cluster"}
    /\ Init /\ WebInit /\ ClusterInit
    /\ part # "message" => mode = Sockets
    /\ part # "web" => web = FromNode     \* nothing to do: no fairness condition of another part stands in the way
ProtocolNext ==
    /\ UNCHANGED part
    /\ \/ part = "message" /\ Next /\ UNCHANGED <<webVars, clusterVars>>
       \/ part = "web" /\ WebNext /\ UNCHANGED <<vars, clusterVars>>
       \/ part = "cluster" /\ ClusterNext /\ ClusterBounds' /\ UNCHANGED <<vars, webVars>>
ProtocolSpec == ProtocolInit /\ [][ProtocolNext]_protocolVars /\ Fairness /\ WebFairness /\ ClusterFairness

\* Bodies arrive, the end of a stream reaches its consumers, workers end.
ProtocolsProgress == BodyArrives /\ EndReaches /\ WorkersEnd
=============================================================================
