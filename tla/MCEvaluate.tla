------------------------------- MODULE MCEvaluate -------------------------------
(* Every short path over small alphabets, alone and in pairs.              *)
EXTENDS Path, Codecs, Addresses, Project, Surface, Reports, Parity, Files, Plugin

Upto(S, n) == UNION {[1..k -> S] : k \in 0..n}
Alone(os, P) == {[kind |-> "path", os |-> os, from |-> p, to |-> p] : p \in P}
Pairs(os, P) == {[kind |-> "path", os |-> os, from |-> p, to |-> q] : p \in P, q \in P}
Drive(P) == {<<"c", ":", "\\">> \o p : p \in P}
PathInputs ==
    <<Alone("posix", Upto({"/", ".", "a"}, 6)), Pairs("posix", Upto({"/", ".", "a"}, 3)),
      Pairs("posix", Upto({"/", "a", "b"}, 3)),
      Alone("win32", Upto({"\\", "/", ":", ".", "c", "?", "CON"}, 4)),
      Alone("win32", Upto({"\\", ".", "c"}, 6)),
      Pairs("win32", Upto({"\\", ":", "c", "C"}, 2)), Pairs("win32", Drive(Upto({"\\", "c", "C", "I2"}, 2))),
      Pairs("win32", Drive(Upto({"\\", "c", "a"}, 3)))>>
MCCwd == [posix |-> <<"/", "w">>, win32 |-> <<"d", ":", "\\", "w">>]

Http == <<"http", ":", "/", "/">>
UrlInputs ==
    <<{[kind |-> "url", text |-> Http \o t, base |-> <<>>] : t \in Upto({"a", ":", "/", "@", "[", "]", "?", "#"}, 4)},
      {[kind |-> "url", text |-> Http \o <<"a", "/">> \o t, base |-> <<>>] : t \in Upto({"a", ".", "%2e", "/"}, 5)},
      {[kind |-> "url", text |-> <<s>> \o t, base |-> Http \o <<"a">>] : s \in {"/", "?"}, t \in Upto({"a", "=", "&", "+", "~", "#"}, 3)}>>
Words == Upto({"a", "&", "=", "+", " ", "%", "~"}, 2)
QueryInputs ==
    <<{[kind |-> "query", params |-> <<<<a, b>>>>] : a \in Words, b \in Words},
      {[kind |-> "query", params |-> <<<<a, <<>>>>, <<<<>>, b>>, <<a, b>>>>] : a \in Words, b \in {<<>>, <<"=">>}}>>
HeadInputs ==
    <<{[kind |-> "head", head |-> h] : h \in Upto({"C", "c", "cookie", ":", " ", "CRLF"}, 4)
                                           \cup Upto({"host", "HOST", ":", " ", "CRLF"}, 5)},
      {[kind |-> "head", head |-> <<"host", ":", " ">> \o h] : h \in Upto({"host", "HOST", ":", "x", "CRLF"}, 4)},
      {[kind |-> "head", head |-> <<n, ":", " ", "x", "CRLF">> \o h \o <<n, ":", "y">>] :
             n \in {"C", "cookie"}, h \in Upto({"c", ":", "CRLF"}, 3)}>>
Entry(n, b) == [name |-> n, file |-> FALSE, filename |-> <<>>, type |-> <<>>, body |-> b]
FileEntry(n, t, b) == [name |-> n, file |-> TRUE, filename |-> n, type |-> t, body |-> b]
FormNames == Upto({"a", "quote", "\\", ";", "="}, 3)
\* a body that itself frames a part cannot be told from one
Frames(b) == LET t == <<"CRLF">> \o b \o <<"CRLF">> IN
             \E i \in 1..(Len(t) - 3) : SubSeq(t, i, i + 2) = <<"CRLF", "--", "B">> /\ t[i + 3] \in {"CRLF", "--"}
Bodies == {b \in Upto({"a", "CRLF", "--", "B"}, 4) : ~Frames(b)}
FormInputs ==
    <<{[kind |-> "form", form |-> <<Entry(n, <<"a">>), FileEntry(n, t, <<"a">>)>>] : n \in FormNames, t \in {<<>>, <<"png">>}},
      {[kind |-> "form", form |-> <<Entry(<<"a">>, b), Entry(<<"name">>, b)>>] : b \in Bodies}>>
Rule(a) == [rule |-> "Address", address |-> a]
RangeRule(a, b) == [rule |-> "Range", start |-> a, end |-> b]
SubnetRule(n, p) == [rule |-> "Subnet", network |-> n, prefix |-> p]
SomeIps == {Ip(4, <<b>>) : b \in 0..3} \cup {Ip(6, <<a, b, c>>) : a \in {0, 3}, b \in {0, 3}, c \in {1, 2}}
SomeRules == {Rule(a) : a \in SomeIps} \cup {RangeRule(a, b) : a \in SomeIps, b \in SomeIps}
             \cup {SubnetRule(n, p) : n \in SomeIps, p \in 0..7}
FewRules == {Rule(Ip(4, <<2>>)), RangeRule(Ip(4, <<1>>), Ip(4, <<2>>)), RangeRule(Ip(6, <<3, 0, 0>>), Ip(6, <<0, 0, 0>>)),
             SubnetRule(Ip(6, <<1, 2, 3>>), 3), SubnetRule(Ip(4, <<0>>), 1)}
AddressInputs ==
    <<{[kind |-> "blocklist", rules |-> <<r>>] : r \in SomeRules},
      {[kind |-> "blocklist", rules |-> rs] : rs \in Upto(FewRules, 3)},
      {[kind |-> "address", text |-> t] : t \in Upto({"[", "]", ":", "v4", "8", "x"}, 4)},
      {[kind |-> "address", text |-> <<"[", ":", ":", "]">> \o t] : t \in Upto({":", "8"}, 6)},
      {[kind |-> "address", text |-> <<"[">> \o t \o <<"%", "x", "]">>] : t \in Upto({":", "8", "0", "%"}, 4)},
      {[kind |-> "address", text |-> <<"v4", ":">> \o t] : t \in Upto({"8", "0"}, 5)}>>
FnValue == [type |-> "function", value |-> 1]
Num(n) == [type |-> "number", value |-> n]
Text == [type |-> "string", value |-> "host"]
Options == {[type |-> "object", value |-> [port |-> 7, host |-> h, path |-> p]] : h \in {"none", "host"}, p \in BOOLEAN}
OverloadInputs ==      \* connect's overloads, those of listen that connect has not
    <<{[kind |-> "overload", connects |-> TRUE, args |-> <<a>> \o b] : a \in Options, b \in {<<>>, <<FnValue>>}},
      {[kind |-> "overload", connects |-> TRUE, args |-> <<Num(7)>> \o b] : b \in {<<>>, <<FnValue>>, <<Text>>, <<Text, FnValue>>, <<Missing, FnValue>>}},
      {[kind |-> "overload", connects |-> FALSE, args |-> b] : b \in {<<>>, <<FnValue>>, <<Num(7), Text, Missing, FnValue>>, <<Num(7), Missing, Missing, FnValue>>}}>>
App(n, x) == <<"app", n, x>>
TargetFiles == {Builtin(n) : n \in Ambient \cup {"fs", "http", "globals", "whatwg-url", "node-server-adapter"}}
               \cup {<<"facades", n, "ts">> : n \in {"http", "dns"}}
               \cup {<<"pkg", "left", "js">>, <<"pkg", "adapter", "js">>, App("main", "ts"), App("helper", "ts"), App("data", "json")}
Specifiers == {<<"node", "fs">>, <<"bare", "dns">>, <<"bare", "left">>, <<"bare", "whatwg-url">>, <<"bare", "adapter">>,
               <<"rel", "lib", "js">>, <<"rel", "lib", "">>, <<"rel", "helper", "">>, <<"rel", "data", "json">>, <<"node", "unknown">>}
\* Node cannot load what a JavaScript file imports without a suffix from TypeScript: no such import
Loads(suffixes, lib) == "js" \in suffixes => \A i \in DOMAIN lib : lib[i] # <<"rel", "helper", "">>
Worlds(mains, libs, others, aliases) ==
    {[kind |-> "project", world |->
        [files |-> TargetFiles \cup {App("lib", x) : x \in xl[1]}, entry |-> App("main", "ts"), installed |-> {"left", "adapter"},
         imports |-> [main |-> m, lib |-> xl[2], fs |-> <<<<"rel", "http", "">>>>, left |-> o, helper |-> <<<<"bare", "fs">>>>],
         names |-> u, alias |-> a, withGlobals |-> FALSE, packageAdapter |-> p]] :
       xl \in {y \in {{"ts"}, {"js"}, {"ts", "js"}} \X libs : Loads(y[1], y[2])}, m \in mains, o \in others, a \in aliases, p \in BOOLEAN,
       u \in {{}} \cup {{n} : n \in {"main", "lib", "fs", "http", "left", "whatwg-url", "node-server-adapter", "adapter", "globals"}}}
Aliases == {<<>>, [s \in {<<"bare", "http">>, <<"bare", "whatwg-url">>, <<"bare", "left">>} |-> App("lib", "ts")]}
Versions == {<<a, b, c>> : a \in 0..2, b \in 0..4, c \in {0, 1, 9, 10, 4095}}
\* files in the order in which the directory lists them; 4 is a name that leaves the directory, in a file edited by hand
Listings(n) == {l \in Upto({1, 2, 4} \X {"a", "b"}, n) : \A i, j \in DOMAIN l : l[i][1] = l[j][1] => i = j}
Dists == {<<>>, <<<<1, "a">>>>, <<<<1, "b">>>>, <<<<1, "a">>, <<2, "a">>>>, <<<<2, "a">>, <<1, "a">>>>}
Compiler(version, dist, runtime) == [root |-> "c", version |-> version, dist |-> dist, runtime |-> runtime]
TsOptions == {Merge(a, b) : a \in {<<>>, [strict |-> TRUE], [strict |-> FALSE]},
                            b \in {<<>>, [customConditions |-> {"x"}]}
                                  \cup UNION {[{m, n} -> BOOLEAN] : m \in StrictFamily, n \in StrictFamily \cup {"allowImportingTsExtensions"}}}
ProjectInputs ==
    <<Worlds(Upto(Specifiers, 1), Upto(Specifiers, 1), {<<<<"bare", "http">>>>}, {<<>>}),
      Worlds({<<<<"rel", "lib", "js">>, b>> : b \in Specifiers}, {<<<<"bare", "left">>>>, <<<<"bare", "http">>>>}, {<<<<"node", "fs">>>>}, Aliases),
      {[kind |-> "tsconfig", options |-> o] : o \in TsOptions},
      {[kind |-> "units", units |-> [i \in 1..n |-> <<i, IF i = p THEN "p" ELSE "h", z[i]>>], requested |-> r] :
           n \in {2, 6, 7}, p \in {0, 2}, z \in [1..7 -> 1..2], r \in 0..2},
      {[kind |-> "digest", before |-> Compiler(1, <<<<1, "a">>>>, a), after |-> Compiler(1, <<<<1, "a">>>>, b)] : a \in Listings(2), b \in Listings(3)},
      {[kind |-> "digest", before |-> Compiler(1, a, <<<<1, "a">>>>), after |-> Compiler(v, b, <<<<1, "a">>>>)] : v \in 1..2, a, b \in Dists},
      {[kind |-> "brotli", version |-> v] : v \in Versions}>>
Some_(S, T) == UNION {[D -> T] : D \in SUBSET S}
Kinds == {"class", "type"}
\* a type and a property of `export =' of one name are one symbol; a default is exported or composed; the renamed
\* exports are those of a module without `export =', and its overlay has them under both names
SurfaceModules == {m \in [named : {x @@ d : x \in Some_({"a", "b"}, Kinds), d \in Some_({"default"}, {"value"})},
                          equals : Some_({"a", "b"}, {"value"}), isEquals : BOOLEAN] :
                     /\ ~m.isEquals => m.equals = <<>>
                     /\ \A n \in DOMAIN m.named \cap DOMAIN m.equals : m.named[n] # "type"}
Overlays == {[exports |-> a @@ b @@ d, consumes |-> c] :
               a \in Some_({"a"}, ExportForms), b \in Some_({"b"}, {"stubbed", "implemented"}),
               d \in Some_({"default", "a2"}, {"implemented"}), c \in BOOLEAN}
Class(bases) == {[bases |-> b, members |-> m] : b \in bases,
                   m \in {<<>>} \cup {[n \in {"x"} |-> k] : k \in {"get", "method"}} \cup {[n \in {"x", "y"} |-> "prop"]} \cup {[n \in {"[iterator]"} |-> "method"]}}
Member(n, k, o) == [name |-> n, kind |-> k, scope |-> "instance", optional |-> o]
Members == {Member("x", "method", FALSE), Member("x", "get", FALSE), Member("x", "method", TRUE), Member("<constructor>", "constructor", FALSE),
            Member("none", "index", FALSE)}
TreePaths == {<<"surface">>, <<"facades", "fs">>, <<"facades", "fs", "promises">>, <<"facades", "notes">>}
SurfaceInputs ==
    <<{i \in {[kind |-> "surface", world |-> [module |-> m, overlay |-> o, internal |-> {"a2"}, targets |-> t, base |-> "a"]] :
             m \in SurfaceModules, o \in Overlays, t \in {<<>>, [x \in {"a"} |-> "a2"]}} :
         i.world.targets # <<>> => ~i.world.module.isEquals /\ "a2" \in DOMAIN i.world.overlay.exports},
      {[kind |-> "classes", classes |-> [C |-> c, D |-> d, E |-> e]] :
             c \in Class({<<"D">>, <<"D", "E">>, <<"E", "D">>}), d \in Class({<<>>, <<"E">>, <<"C">>}), e \in Class({<<>>, <<"D">>})},
      {[kind |-> "members", declarations |-> <<a, b>>] : a \in Upto(Members, 2), b \in Upto(Members, 2)},
      {[kind |-> "tree", files |-> f, expected |-> [p \in e \cup {<<"surface">>} |-> 1]] :
             f \in Some_(TreePaths, {1, 2}), e \in SUBSET {<<"facades", "fs">>, <<"facades", "fs", "promises">>}}>>
Rows(servers, n, rounds) == Upto([server : servers, path : {"/"}, round : rounds, rps : {1}], n)
AskedFor(d, w, c, round) == [round |-> round, driver |-> d, workload |-> w, concern |-> c, documents |-> 3, batch |-> 2]
Answering(a, elapsed) ==
    [driver |-> a.driver, workload |-> a.workload, concern |-> a.concern, documents |-> a.documents, operations |-> expectedOperations(a),
     batch |-> a.batch, elapsed |-> elapsed, count |-> a.documents,
     documentRate |-> (2 * a.documents) \div elapsed, operationRate |-> (2 * expectedOperations(a)) \div elapsed]
\* outputs that differ from what was asked in one field
Misreports(o) ==
    {[o EXCEPT !.driver = "go"], [o EXCEPT !.workload = "update"], [o EXCEPT !.concern = "w0"], [o EXCEPT !.documents = 4], [o EXCEPT !.operations = 1],
     [o EXCEPT !.batch = 3], [o EXCEPT !.count = 2], [o EXCEPT !.elapsed = 0], [o EXCEPT !.documentRate = 5], [o EXCEPT !.operationRate = 0]}
Run(a, o) == [asked |-> a, out |-> o]
SomeRuns == UNION {{Run(a, o) : o \in {Answering(a, 1), Answering(a, 2)} \cup Misreports(Answering(a, 1))} :
                     a \in {AskedFor(d, w, c, 1) : d \in {"node", "go"}, w \in {"insert-one", "insert-many", "update"}, c \in {"w1-jtrue", "w0"}}}
\* every round of every group, then with one run left out, replaced or repeated
FullRuns(rounds) == FoldSet(LAMBDA x, runs: Append(runs, x), <<>>,
                            {Run(a, Answering(a, 1)) : a \in {AskedFor(d, w, c, n) : d \in Drivers, w \in Workloads, c \in WriteConcerns, n \in 1..rounds}})
Almost(runs) == {runs} \cup {RemoveAt(runs, i) : i \in DOMAIN runs} \cup {[runs EXCEPT ![i] = runs[j]] : i, j \in DOMAIN runs}
                \cup {Append(runs, runs[i]) : i \in DOMAIN runs}
ReportInputs ==
    <<{[kind |-> "median", values |-> v] : v \in Upto(1..4, 5) \ {<<>>}},
      {[kind |-> "rotation", drivers |-> d, rounds |-> r] : d \in 1..5, r \in 0..12},
      {[kind |-> "matrix", samples |-> s, rounds |-> n] : s \in Rows(ServerOrder, 3, 0..2), n \in 1..2},
      {[kind |-> "matrix", samples |-> s, rounds |-> 2] : s \in Rows(HonoServers \cup {"other"}, 4, 1..2)},
      {[kind |-> "record", runs |-> <<a, b>>, rounds |-> 1] : a \in SomeRuns, b \in {x \in SomeRuns : x.out = Answering(x.asked, 2)}},
      {[kind |-> "record", runs |-> s, rounds |-> n] : s \in Almost(FullRuns(1)) \cup Almost(FullRuns(2)), n \in 1..2}>>
\* every way in which a route answers some well-formed request
SomeBodies == {NotObject} \cup {Body(t, c) : t \in {NoField, NotString, "plain", "blank", "full", "long"}, c \in {NoField, NotBoolean, "true"}}
SomeDb == ("x" :> todoDocument("x", "plain", 1))
Outcomes ==
    {<<routeOf([method |-> m, path |-> p]), serve(SomeDb, id, [method |-> m, path |-> p, body |-> b], "y").answer.status>> :
        m \in {"GET", "POST", "PATCH", "DELETE", "PUT"}, p \in {"/api/todos", "asset", "id", "/nope"}, id \in {"x", "invalid", "unknown"}, b \in SomeBodies}
Perms == {p \in [1..3 -> TodoIds] : Cardinality({p[1], p[2], p[3]}) = 3}
Seen(n) == {<<a, b>> : a \in Upto(TodoIds, n), b \in Upto(TodoIds, 2)}
ParityInputs ==
    <<{[kind |-> "ids", a |-> a, b |-> b] : a \in Seen(1), b \in Seen(1)},
      {[kind |-> "ids", a |-> <<a, <<"x">>>>, b |-> <<b, <<"y">>>>] : a \in Upto(TodoIds, 3), b \in Upto(TodoIds, 3)},
      {[kind |-> "parity", node |-> <<"x", "y", "z">>, native |-> q, spoil |-> o] : q \in Perms, o \in Outcomes \cup {<<>>}}>>
FileUrl(protocol, host, p) == [url |-> TRUE, protocol |-> protocol, hostname |-> host, pathname |-> p]
PlainPath(name) == [url |-> FALSE, text |-> <<"/", name>>]
Node(type, to, bytes, ino, r) == [type |-> type, to |-> <<"/", to>>, bytes |-> bytes, ino |-> ino, readable |-> r]
SomeNodes == {Node("file", "", <<7, 8, 9>>, 1, TRUE), Node("link", "g", <<>>, 2, TRUE), Node("link", "f", <<>>, 2, TRUE), Node("EACCES", "", <<>>, 3, FALSE)}
OtherNodes == {Node("directory", "", <<>>, 4, TRUE), Node("file", "", <<>>, 5, TRUE), Node("ENOTDIR", "", <<>>, 6, FALSE), Node("link", "f", <<>>, 7, TRUE),
               Node("file", "", <<5>>, 8, FALSE), Node("fifo", "", <<>>, 9, TRUE)}
SomeTrees == {(<<"/", "f">> :> a) @@ (<<"/", "g">> :> b) : a \in SomeNodes, b \in OtherNodes}
SomePaths == {PlainPath("f"), PlainPath("g"), PlainPath("h")}
StatCall == [op : {"stat", "statSync", "promises"}, path : SomePaths, quiet : {TRUE}, bigint : {FALSE}]
            \cup [op : {"stat", "promises"}, path : {FileUrl("https:", "a", <<>>)}, quiet : {FALSE}, bigint : BOOLEAN]
            \cup [op : {"remove"}, path : {PlainPath("f")}, quiet : {FALSE}, bigint : {FALSE}]
Numbered(calls) == [i \in DOMAIN calls |-> calls[i] @@ [n |-> i]]
FileInputs ==
    <<{[kind |-> "fileurl", platform |-> o, path |-> FileUrl(s, h, <<"/">> \o p)] : o \in {"linux", "win32"}, s \in {"file:", "http:"}, h \in {"", "localhost", "host"},
                                 p \in Upto({"/", "\\", "a", ":", "%2F", "%5c", "%61", "%bad"}, 3)},
      {[kind |-> "fileurl", platform |-> o, path |-> FileUrl("file:", "", <<"/", c, ":">> \o p)] : o \in {"linux", "win32"}, c \in {"C", "%43", ":"},
                                 p \in Upto({"/", "a", "%2f", "%5c", "%61"}, 3)},
      {[kind |-> "mode", bits |-> b, permissions |-> x] : b \in 0..15, x \in {0, 420, 493, 4095}},
      {[kind |-> "stats", tree |-> t, calls |-> Numbered(c)] : t \in SomeTrees, c \in Upto(StatCall, 2)},
      {[kind |-> "stats", tree |-> CHOOSE t \in SomeTrees : \A q \in DOMAIN t : t[q].type = "file", calls |-> Numbered(c)] : c \in [1..3 -> StatCall]},
      {[kind |-> "range", tree |-> t, path |-> p, start |-> a, end |-> b] : t \in SomeTrees, a \in 0..4, b \in {<<>>} \cup [1..1 -> 0..4],
                                 p \in SomePaths \cup {FileUrl("file:", "", <<"/", "f">>), FileUrl("file:", "host", <<"/", "f">>)}}>>
DocNode(type, name, source, marks, children) == [type |-> type, name |-> name, source |-> source, marks |-> marks, children |-> children]
DocLeaves == {DocNode(t, n, s, m, <<>>) : t \in {"", "method"}, n \in {"", "x"}, s \in {"", "fs"}, m \in {{}, {"stability", "mention"}}}
SomeDocs ==
    {(a :> <<DocNode("module", "fs", s, {"platform"}, (b :> <<x, y>>))>>) @@ ("methods" :> <<z>>) :
        a \in {"modules", "miscs", "properties"}, b \in {"classMethods", "ctors", "signatures"}, s \in {"", "fs", "util"}, x \in DocLeaves, y \in {l \in DocLeaves : l.marks = {}},
        z \in {DocNode("", "", "tracing", {}, <<>>)}}
DocInputs == <<{[kind |-> "docs", docs |-> d, modules |-> {<<"fs">>, <<"fs", "promises">>, <<"sys">>, <<"trace_events">>, <<"net">>}] : d \in SomeDocs}>>
Rep(kind, name, parts) == [kind |-> kind, name |-> name, parts |-> parts]
Leaves == {Rep("dynamic", "any", <<>>), Rep("dynamic", "census", <<>>), Rep("string", "none", <<>>)}
Holding(S, name) ==
    {Rep("record", name, [fields |-> f]) : f \in (S \X Leaves) \cup (Leaves \X S)} \cup {Rep("optional", "none", [payload |-> <<a>>]) : a \in S}
    \cup {Rep("array-object", "none", [element |-> <<a>>, extension |-> x]) : a \in S, x \in {<<>>} \cup {<<b>> : b \in Leaves}}
    \cup {Rep("function", name, [parameters |-> <<a>>, result |-> <<b>>]) : a \in S, b \in Leaves}
    \cup {Rep("keyed-collection", "none", [key |-> <<a>>]) : a \in Leaves} \cup {Rep("iterator", "none", [element |-> <<b>>, resume |-> <<b>>, completion |-> <<a>>]) : a \in Leaves, b \in Leaves}
    \cup {Rep("record-with-index", name, [fields |-> <<b>>, indexes |-> <<a>>]) : a \in S, b \in Leaves} \cup {Rep("tagged-union", "none", [arms |-> <<b, a>>]) : a \in S, b \in Leaves}
    \cup {Rep("constructor-family", "none", [parameters |-> <<>>, result |-> <<a>>, receiver |-> <<b>>]) : a \in Leaves, b \in Leaves}
    \cup {Rep("function-and-constructor", "none", [x \in {"call parameters", "call result", "new result"} |-> IF x = "new result" THEN <<a>> ELSE IF x = "call result" THEN <<b>> ELSE <<>>]) : a \in S, b \in Leaves}
Shallow == Holding(Leaves, "A")
SomeReps == Leaves \cup Holding({Rep("dynamic", "any", <<>>), Rep("string", "none", <<>>)}, "A") \cup {Rep("optional", "none", [payload |-> <<r>>]) : r \in {x \in Shallow : x.kind \in {"record", "optional"}}}
SomeCells == {[rep |-> r, variable |-> v, site |-> s] : r \in {x \in SomeReps : x.kind \in {"dynamic", "record", "optional"}},
                                                        v \in {"none", "v"}, s \in {<<>>, <<"f", 1>>}}
BoxedInputs ==
    <<{[kind |-> "boxed", rep |-> r] : r \in Shallow \cup Holding(Shallow, "B")},
      {[kind |-> "census", cells |-> <<a, b>>] : a \in SomeCells, b \in {c \in SomeCells : c.site # <<>> /\ c.variable = "v" /\ c.rep.kind # "record"}},
      {[kind |-> "census", cells |-> [i \in 1..3 |-> [rep |-> r, variable |-> "v", site |-> s[i]]]] :
           r \in Leaves \cup {x \in Shallow : x.kind = "record"}, s \in [1..3 -> {<<>>, <<"f", 1>>, <<"f", 2>>, <<"g", 1>>}]}>>
IntrinsicNames == {"setTimeout", "clearTimeout", "__gea_node_fs_stat", "__gea_node_crypto_digest"}
PluginInputs ==
    <<{[kind |-> "plugin", intrinsics |-> t] : t \in Some_(IntrinsicNames, {<<"node", "x">>, <<"crypto", "y">>, <<"zlib", "z">>, <<"", "v">>})}
      \cup {[kind |-> "plugin", intrinsics |-> intrinsics]},
      {[kind |-> "addon", before |-> b, argument |-> a, after |-> c] : b \in {<<>>, <<"w">>, <<".node">>}, c \in {<<"'", ".node">>},
           a \in Upto({"'", "quot", "w", ".node", " ", "newline"}, 4) \cup {<<" ">> \o x \o <<" ">> : x \in [1..4 -> {"'", "quot", "w", ".node"}]}
                       \cup {<<"quot">> \o x \o <<"quot">> : x \in [1..3 -> {"w", ".node", " "}]}}>>
MCInputs == DocInputs \o PluginInputs \o BoxedInputs \o FileInputs \o ReportInputs \o ParityInputs \o SurfaceInputs \o ProjectInputs \o AddressInputs \o OverloadInputs \o PathInputs \o UrlInputs \o QueryInputs \o HeadInputs \o FormInputs

\* Texts that programs exchange: encodings and addresses.
TextExact == EncodingsExact /\ AddressesExact

\* What a build is given: the project and the plugin's tables.
BuildInputsExact == ProjectExact /\ PluginExact
=============================================================================
