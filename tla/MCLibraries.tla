----------------------------- MODULE MCLibraries -----------------------------
(* Objects that a program uses from its own code, one kind after the other: *)
(* the part of a behaviour is chosen in the initial state.  The functions   *)
(* without state are evaluated once for each input.                         *)
EXTENDS MCEvaluate, Emitter, WebCollections, Diagnostics, Bytes, Zlib, PipeEvents, SocketOptions, TodoApp, Harness

Registry ==
    [calls |-> {"once", "meta", "emit", "removeAll"}, back |-> {"emit", "off", "on"}, meta |-> {"off"},
     max |-> 5, with |-> {}, names |-> {"e"}, fns |-> {"f", "g"}]
MetaEmits ==
    [calls |-> {"once", "meta", "emit"}, back |-> {}, meta |-> {"emit"}, max |-> 5,
     with |-> {}, names |-> {"e"}, fns |-> {"f"}]
Names ==
    [calls |-> {"on", "prepend", "removeAll", "emit"}, back |-> {"on"}, meta |-> {}, max |-> 4,
     with |-> {}, names |-> {"e", "error", "errorMonitor"}, fns |-> {"f"}]
Consumers(with) ==
    [calls |-> {"emit", "on", "abort"}, back |-> {"emit", "abort"}, meta |-> {}, max |-> 3,
     with |-> with, names |-> {"e", "error", "close"}, fns |-> {"f"}]
Signals ==
    [calls |-> {"listen", "unlisten", "abort", "resource"}, back |-> {"unlisten", "abort", "listen", "stop", "dispose"},
     meta |-> {}, max |-> 3, with |-> {"on"}, names |-> {}, fns |-> {"f", "g"}]
OnAbort ==
    [calls |-> {"listen", "onabort", "abort", "resource"}, back |-> {"onabort", "dispose", "resource"},
     meta |-> {}, max |-> 4, with |-> {}, names |-> {}, fns |-> {"f"}]
MCModes == {Registry, MetaEmits, Names, Consumers({"on"}), Consumers({"once"}),
            [Consumers({"on", "once"}) EXCEPT !.max = 2], Signals, OnAbort}

MCContents == {<<>>, <<<<0>>>>, <<<<0>>, <<1>>>>}

\* chunks cut anywhere: members, padding and refused data in every order
Tokens(n) == UNION {[1..k -> {"one", "two", "end", "zero", "bad"}] : k \in 0..n}
MCZlibInputs ==
    {[framing |-> "gzip", chunks |-> <<a, b, c>>] : a, b \in Tokens(2), c \in {<<>>, <<"one">>, <<"end">>}}
    \cup {[framing |-> "zlib", chunks |-> <<a, b>>] : a, b \in Tokens(2)}
    \cup {[framing |-> "deflate", chunks |-> <<[i \in 1..n |-> "x"], [i \in 1..k |-> "y"]>>] : n, k \in 0..3}

\* a user without faults, with faults, beside the checker, and the checker alone with faults
Clicks == [calls |-> 3, checker |-> FALSE, faults |-> 0]
MCTodoModes ==
    {Clicks, [Clicks EXCEPT !.calls = 3, !.faults = 2],
     [calls |-> 1, checker |-> TRUE, faults |-> 0], [calls |-> 0, checker |-> TRUE, faults |-> 2]}

VARIABLE part
libraryVars == <<part, vars, collVars, diagnosticsVars, byteVars, zlibVars, pipeVars, optionVars, todoVars, harnessVars, evaluateVars>>

LibraryInit ==
    /\ part \in {"emitter", "collection", "diagnostics", "bytes", "zlib", "pipes", "socket", "todo", "harness", "function"}
    /\ Init /\ (part # "emitter" => mode = OnAbort)
    /\ CollInit /\ (part # "collection" => coll.kind = "Headers")
    /\ DiagnosticsInit
    /\ part # "diagnostics" => \A e \in Events : channels.subs[e] = <<>> /\ channels.stores[e] = {}
    /\ part = "diagnostics" => Cardinality({e \in Events : channels.subs[e] # <<>>}) \in {0, 1, 5}   \* none, one or all of the events observed
    /\ ByteInit /\ (part # "bytes" => answers.kind = "Hash")
    /\ PipeInit
    /\ OptionInit /\ (part # "socket" => so.keepAlive /\ so.noDelay)
    /\ TodoInit /\ (part # "todo" => past.mode = Clicks)
    /\ HarnessInit /\ (part # "harness" => script.kind = "parity")
    /\ IF part = "zlib" THEN ZlibInit ELSE Opened([framing |-> "gzip", chunks |-> <<>>], FALSE)
    /\ IF part = "function" THEN EvaluateInit ELSE in = [kind |-> "none"] /\ done = FALSE
LibraryNext ==
    /\ UNCHANGED part
    /\ \/ part = "emitter" /\ Next /\ UNCHANGED <<collVars, diagnosticsVars, byteVars, zlibVars, pipeVars, optionVars, todoVars, harnessVars, evaluateVars>>
       \/ part = "collection" /\ CollNext /\ UNCHANGED <<vars, diagnosticsVars, byteVars, zlibVars, pipeVars, optionVars, todoVars, harnessVars, evaluateVars>>
       \/ part = "diagnostics" /\ DiagnosticsNext /\ UNCHANGED <<vars, collVars, byteVars, zlibVars, pipeVars, optionVars, todoVars, harnessVars, evaluateVars>>
       \/ part = "bytes" /\ ByteNext /\ UNCHANGED <<vars, collVars, diagnosticsVars, zlibVars, pipeVars, optionVars, todoVars, harnessVars, evaluateVars>>
       \/ part = "zlib" /\ ZlibNext /\ UNCHANGED <<vars, collVars, diagnosticsVars, byteVars, pipeVars, optionVars, todoVars, harnessVars, evaluateVars>>
       \/ part = "pipes" /\ PipeNext /\ UNCHANGED <<vars, collVars, diagnosticsVars, byteVars, zlibVars, optionVars, todoVars, harnessVars, evaluateVars>>
       \/ part = "socket" /\ OptionNext /\ UNCHANGED <<vars, collVars, diagnosticsVars, byteVars, zlibVars, pipeVars, todoVars, harnessVars, evaluateVars>>
       \/ part = "todo" /\ TodoNext /\ UNCHANGED <<vars, collVars, diagnosticsVars, byteVars, zlibVars, pipeVars, optionVars, harnessVars, evaluateVars>>
       \/ part = "harness" /\ HarnessNext /\ UNCHANGED <<vars, collVars, diagnosticsVars, byteVars, zlibVars, pipeVars, optionVars, todoVars, evaluateVars>>
       \/ part = "function" /\ Evaluated /\ UNCHANGED <<vars, collVars, diagnosticsVars, byteVars, zlibVars, pipeVars, optionVars, todoVars, harnessVars>>
LibrarySpec == LibraryInit /\ [][LibraryNext]_libraryVars

\* The tools around the runtime: harnesses, reports, the parity check, the census of boxed cells.
ToolsExact == HarnessExact /\ ReportsExact /\ ParityExact /\ BoxedCellsExact
=============================================================================
