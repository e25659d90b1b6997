---------------------------- MODULE MCNodeStream ----------------------------
(* Instances of NodeStream: pipelines, single writables, readers.          *)
EXTENDS NodeStream

Base == [edges |-> <<>>, pipeline |-> <<>>, promise |-> FALSE, first |-> <<>>, from |-> <<>>, iter |-> "none", auto |-> TRUE, fails |-> {FALSE},
         calls |-> {"push"}, react |-> {}, back |-> {}]
Edge(a, b, how) == [from |-> a, to |-> b, how |-> how]
Setup(kinds, n, more) ==
    more @@ [kind |-> kinds, hwm |-> [s \in DOMAIN kinds |-> n]] @@ Base

Pipe2 == [pipeline |-> <<"r", "undefined", "w", "callback">>]
Pipe3 == [pipeline |-> <<"r", "t", "w">>, promise |-> TRUE]
R_W == [r |-> "Readable", w |-> "Writable"]
R_T_W == [r |-> "Readable", t |-> "Transform", w |-> "Writable"]

Pipelines ==
    {Setup(R_W, 2, [react |-> {"drain", "data"}, back |-> {"push"}] @@ Pipe2),
     Setup(R_T_W, 1, Pipe3),
     Setup(R_T_W, 1, [from |-> <<<<1>>, <<2, 3>>>>, calls |-> {}] @@ Pipe3)}
Failing ==
    {Setup(R_W, 1, [calls |-> {"push", "destroy", "unpipe", "abort"}, react |-> {"data"}, back |-> {"destroy", "unpipe"},
                    fails |-> BOOLEAN] @@ Pipe2)}
\* A stream corked before two writes.
Corked == Call("cork", "w", Null) \o Call("write", "w", [c |-> <<8>>, by |-> "user"]) \o Call("write", "w", [c |-> <<9>>, by |-> "user"])
Writers ==
    {Setup([w |-> k], 2, [calls |-> {"write", "end", "destroy"}, react |-> {"write"}, back |-> {"end", "destroy"},
                          fails |-> BOOLEAN, auto |-> a]) : k \in {"Writable", "Duplex"}, a \in BOOLEAN}
    \cup {Setup([w |-> "Writable"], 2, [calls |-> {"write", "cork", "uncork", "end"}, react |-> {"write"},
                                        back |-> {"write", "cork"}])}
    \cup {Setup([w |-> "Duplex"], 2, [calls |-> {"write", "cork", "uncork", "end"}, react |-> {"write"},
                                      back |-> {"write", "cork"}]),
          Setup([w |-> "Duplex"], 2, [first |-> Corked, calls |-> {"write", "cork", "uncork"}, react |-> {"write"},
                                      back |-> {"write", "cork", "uncork"}])}
    \cup {Setup([w |-> "Writable"], 2, [calls |-> {"write", "end", "destroy"}, react |-> {"end"},
                                        back |-> {"end", "destroy"}])}
Readers ==
    {Setup([r |-> "Readable"], 1, [calls |-> {"push", "read", "unshift", "resume", "pause"},
                                   react |-> {"readable"}, back |-> {"read", "pause"}]),
     Setup([r |-> "Readable"], 1, [calls |-> {"push", "destroy", "return"}, iter |-> "r"]),
     Setup([r |-> "Readable"], 1, [calls |-> {"push", "read", "pause", "toArray"}, react |-> {"data"}, back |-> {"push", "pause"}]),
     Setup([r |-> "Readable", m |-> "Readable"], 1, [calls |-> {"toArray", "pause"}, from |-> <<<<1>>, <<2, 3>>>>, edges |-> <<Edge("r", "m", "flat")>>]),
     Setup([a |-> "Pair", b |-> "Pair"], 1, [calls |-> {"write", "end", "destroy", "cork", "uncork"}]),
     Setup([r |-> "Readable", m |-> "Readable"], 1, [edges |-> <<Edge("r", "m", "filter")>>])}
    \cup {Setup([r |-> "Readable", m |-> "Readable"], 1, [calls |-> {"push", "toArray", "destroy"}, edges |-> <<Edge("r", "m", h)>>]) :
             h \in {"map", "drop", "take", "pairs"}}
AllSetups == Pipelines \cup Failing \cup Writers \cup Readers
=============================================================================
