------------------------------- MODULE Surface -------------------------------
(***************************************************************************)
(* tools/node-api/generate-surface.mjs: the inventory of what the pinned   *)
(* Node declarations export, the facade module generated for each builtin  *)
(* (the overlay's export where runtime/node implements the name, a stub    *)
(* where it does not), the ledger that reports which is which, and the     *)
(* check that the generated files are current.  The TypeScript checker is  *)
(* what it answers: symbols, their flags, declarations and heritage.       *)
(***************************************************************************)
EXTENDS Evaluate

----------------
(* The inventory.  A module m is [named: its exports, each with the flag   *)
(* `runtime' (it has a value) and its kind, equals: the properties of the  *)
(* value of `export =', isEquals: whether there is one].                   *)
\* members of all declarations of a symbol: one entry per name, kind and scope, which counts its overloads
MemberKey(d) == <<d.name, d.kind, d.scope>>
Nameless(d) == d.name = "none"      \* an index or a call signature; a constructor is named '<constructor>'
memberInventory(declarations) ==
    LET all == SelectSeq(FlattenSeq(declarations), LAMBDA d: ~Nameless(d))
        same(i) == {j \in DOMAIN all : MemberKey(all[j]) = MemberKey(all[i])} IN
    {[key |-> MemberKey(all[i]), optional |-> all[Min(same(i))].optional, overloads |-> Cardinality(same(i))] : i \in DOMAIN all}
symbolInventory(name, symbol) == [name |-> name, runtime |-> symbol # "type", kind |-> symbol, exportEquals |-> FALSE, members |-> {}]
exportEqualsInventory(m) ==
    IF ~m.isEquals THEN {}
    ELSE {symbolInventory(n, m.equals[n]) : n \in DOMAIN m.equals}
         \cup {[name |-> "default", runtime |-> TRUE, kind |-> "value", exportEquals |-> TRUE, members |-> DOMAIN m.equals]}
moduleExports(m) ==      \* a named export hides the property of its name
    LET named == {symbolInventory(n, m.named[n]) : n \in DOMAIN m.named} IN
    named \cup {e \in exportEqualsInventory(m) : e.name \notin DOMAIN m.named}
RuntimeEntries(m) == {e \in moduleExports(m) : e.runtime}

----------------
(* The overlays.  The file runtime/node/<name>.ts, if it exists, is        *)
(* [exports: how each of its names is exported, consumes: its text imports *)
(* its own facade].                                                        *)
ExportForms == {"type-only", "no-value", "from-facade", "stubbed", "implemented"}
OwnValuesFault(o) == {n \in DOMAIN o.exports : o.exports[n] \notin {"type-only", "no-value"}}
\* the names an overlay answers for: values of its own, the explicitly stubbed included
OwnValues(o) == {n \in DOMAIN o.exports : o.exports[n] \in {"stubbed", "implemented"}}
WorksIn(o, n) == n \in OwnValues(o) /\ o.exports[n] # "stubbed"
\* the registrations it refuses to generate with
unknownOverlayRegistrations(w) ==
    OwnValues(w.overlay) \ ({e.name : e \in RuntimeEntries(w.module)} \cup w.internal)

\* The members a class has, declarations of the symbol first and those of its heritage after them, in the order of
\* the walk; written into the map from the last to the first, so the first that has a name gives its kind.
RECURSIVE Walk(_, _, _)
Walk(classes, d, seen) ==
    IF d \in ToSet(seen) THEN seen
    ELSE FoldLeft(LAMBDA acc, base: Walk(classes, base, acc), Append(seen, d), classes[d].bases)
collectMemberDeclarations(classes, declarations) ==
    FlattenSeq([i \in DOMAIN declarations |-> Walk(classes, declarations[i], <<>>)])
WrittenInOrder(classes, order) ==
    FoldLeft(LAMBDA members, d: classes[d].members @@ members, <<>>, order)
overlayMembers(classes, declarations) == WrittenInOrder(classes, Reverse(collectMemberDeclarations(classes, declarations)))
\* `[Symbol.x]' in the declarations may be spelled `[x]' in an overlay
registeredOverlayMember(members, name) ==
    CASE name \in DOMAIN members -> members[name]
      [] name = "[Symbol.iterator]" /\ "[iterator]" \in DOMAIN members -> members["[iterator]"]
      [] OTHER -> "none"

----------------
(* The facade: its exports [name, from: the overlay's name for it, or a    *)
(* stub], and the names its default object reads.                          *)
Implemented(w, e) == WorksIn(w.overlay, e.name) /\ ~w.overlay.consumes
TargetOf(w, n) == IF n \in DOMAIN w.targets THEN w.targets[n] ELSE n
renderFacade(w) ==
    LET entries == RuntimeEntries(w.module)
        equals == {e \in entries : e.exportEquals}
        ordinary == entries \ equals
        implemented == {e \in ordinary : Implemented(w, e)} IN
    [exports |-> {[name |-> e.name, from |-> TargetOf(w, e.name)] : e \in implemented}
                 \cup {[name |-> e.name, from |-> "stub"] : e \in ordinary \ implemented}
                 \cup {[name |-> "default", from |-> "composed"] : e \in equals},
     base |-> IF equals # {} /\ \E e \in implemented : e.name = w.base THEN w.base ELSE "{}",
     reads |-> UNION {e.members : e \in equals}]
\* what a facade imports of its overlay
Imported(w) == {x.from : x \in renderFacade(w).exports} \ {"stub", "composed"}

\* The ledger's status of an entry, and of a member of the composed default.
Status(w, e) == IF e.exportEquals \/ WorksIn(w.overlay, e.name) THEN "partial" ELSE "stubbed"
ledger(w) ==
    [runtimeExports |-> [n \in {e.name : e \in RuntimeEntries(w.module)} |->
                            Status(w, CHOOSE e \in RuntimeEntries(w.module) : e.name = n)],
     members |-> [n \in UNION {e.members : e \in {x \in RuntimeEntries(w.module) : x.exportEquals}} |->
                            IF WorksIn(w.overlay, n) THEN "partial" ELSE "stubbed"]]

\* A facade that is generated at all exports every name that Node's module has at run time, once, and nothing else;
\* what it takes from the overlay is there under that name and is the overlay's own, and every name that the
\* composed default reads is bound in the facade.
FacadeComplete == Given("surface") =>
    LET w == in.world
        f == renderFacade(w)
        names == {x.name : x \in f.exports} IN
    unknownOverlayRegistrations(w) = {} =>
        /\ names = {e.name : e \in RuntimeEntries(w.module)}
        /\ Cardinality(names) = Cardinality(f.exports)
        /\ f.reads \subseteq names
        /\ f.base \in {"{}"} \cup Imported(w)
        /\ \A n \in Imported(w) : n \in DOMAIN w.overlay.exports /\ w.overlay.exports[n] = "implemented"
        /\ w.overlay.consumes => Imported(w) = {}
\* The ledger says `partial' of exactly the names that the overlay implements; where the facade may import the
\* overlay, those are the names that work through the facade.
LedgerTruthful == Given("surface") =>
    LET w == in.world
        through == {x.name : x \in {y \in renderFacade(w).exports : y.from # "stub"}}
        own == {n \in DOMAIN w.overlay.exports : w.overlay.exports[n] = "implemented"}
        made == ledger(w)
        partial == {n \in DOMAIN made.runtimeExports : made.runtimeExports[n] = "partial"} IN
    unknownOverlayRegistrations(w) = {} =>
        /\ partial \ own \subseteq {"default"}
        /\ own \cap DOMAIN made.runtimeExports \subseteq partial
        /\ IF w.overlay.consumes THEN through \subseteq {"default"}
           ELSE through = partial /\ \A n \in DOMAIN made.members : made.members[n] = "partial" <=> n \in through

\* where a class's member comes from, by inheritance: its own, else the first base that has it
RECURSIVE Inherited(_, _, _, _)
Inherited(classes, d, name, above) ==
    IF name \in DOMAIN classes[d].members THEN classes[d].members[name]
    ELSE FoldLeft(LAMBDA acc, b: IF acc # "none" \/ b \in above THEN acc ELSE Inherited(classes, b, name, above \cup {b}),
                  "none", classes[d].bases)
\* A member's kind in the ledger is that of the nearest declaration, through bases shared by several (and, in
\* erroneous sources, by themselves); a symbol written with or without its `Symbol.' is one member.
MembersNearest == Given("classes") =>
    LET members == overlayMembers(in.classes, <<"C">>) IN
    /\ \A n \in {"x", "y"} : registeredOverlayMember(members, n) = Inherited(in.classes, "C", n, {"C"})
    /\ (registeredOverlayMember(members, "[Symbol.iterator]") = "none")
         <=> (\A d \in ToSet(collectMemberDeclarations(in.classes, <<"C">>)) : "[iterator]" \notin DOMAIN in.classes[d].members)
\* No overload of a named member is lost or counted twice, however its members are spread over declarations.
OverloadsCounted == Given("members") =>
    LET made == memberInventory(in.declarations) IN
    /\ FoldSet(LAMBDA e, n: n + e.overloads, 0, made)
         = Len(SelectSeq(FlattenSeq(in.declarations), LAMBDA d: d.name # "none"))
    /\ \A e, f \in made : e.key = f.key => e = f

----------------
(* The generated files: a tree as a function from paths to contents; the   *)
(* inventory and the ledger beside the directory of facades.               *)
InFacades(p) == Head(p) = "facades"
checkGeneratedFile(files, p, expected) == p \in DOMAIN files /\ files[p] = expected[p]
\* visit(): every TypeScript file below the directory
Unknown(files, expected) == {p \in DOMAIN files : InFacades(p) /\ Last(p) # "notes" /\ p \notin DOMAIN expected}
checkOnly(files, expected) ==
    (\A p \in DOMAIN expected : checkGeneratedFile(files, p, expected)) /\ Unknown(files, expected) = {}
generate(files, expected) == expected @@ files
\* The check accepts a tree exactly when generating again would change nothing in it and no module was dropped from
\* the surface since: what it accepts, a generator that started from an empty directory would have written.
CheckExact == Given("tree") =>
    LET clean == [p \in {q \in DOMAIN in.files : ~InFacades(q) \/ Last(q) = "notes"} |-> in.files[p]] IN
    checkOnly(in.files, in.expected) <=> generate(clean, in.expected) = in.files

----------------
(* update-docs-snapshot.mjs: the pinned documentation, flattened to one    *)
(* record per node.  A node is [type, name, source: "" where it has none,  *)
(* marks: which of stability, platform and a mention of a platform it has, *)
(* children: its collections of nodes]; records are kept as a bag, so      *)
(* their sort is no step of its own.                                       *)
childCollections == {"modules", "classes", "methods", "classMethods", "ctors", "properties", "globals", "events", "miscs"}
topCollections == {"miscs", "modules", "classes", "globals", "methods"}
recordOf(node, index, parentPath) ==
    [path |-> Append(parentPath, <<IF node.type = "" THEN "section" ELSE node.type, IF node.name = "" THEN <<"unnamed", index - 1>> ELSE <<node.name>>>>),
     source |-> node.source, marks |-> node.marks]
collected(children, names) == SetToSeq(DOMAIN children \cap names)
RECURSIVE visit(_, _)
visit(nodes, parentPath) ==
    FlattenSeq([i \in DOMAIN nodes |->
        LET record == recordOf(nodes[i], i, parentPath)
            below == collected(nodes[i].children, childCollections) IN
        <<record>> \o FlattenSeq([c \in DOMAIN below |-> visit(nodes[i].children[below[c]], record.path)])])
docRecords(docs) == LET top == collected(docs, topCollections) IN FlattenSeq([c \in DOMAIN top |-> visit(docs[top[c]], <<>>)])
\* a module's name is its parts: <<"fs", "promises">>
specialDocumentationSources ==
    ("constants" :> "deprecations") @@ ("globals" :> "globals") @@ ("sea" :> "single-executable-applications") @@ ("sys" :> "util") @@ ("trace_events" :> "tracing")
documentationSource(builtinName) == IF builtinName[1] \in DOMAIN specialDocumentationSources THEN specialDocumentationSources[builtinName[1]] ELSE builtinName[1]
snapshotOf(made, modules) ==
    LET marked(m) == Len(SelectSeq(made, LAMBDA r: m \in r.marks)) IN
    [metadata |-> [records |-> Len(made), stability |-> marked("stability"), platform |-> marked("platform"), mention |-> marked("mention")],
     documented |-> {n \in modules : \E i \in DOMAIN made : made[i].source = documentationSource(n)}, records |-> made]
snapshot(docs, modules) == snapshotOf(docRecords(docs), modules)

\* the nodes of a documentation two levels deep, by their places
Places(docs) ==
    LET top == UNION {{<<c, i>> : i \in DOMAIN docs[c]} : c \in DOMAIN docs \cap topCollections}
        below(p) == LET k == docs[p[1]][p[2]].children IN UNION {{p \o <<c, i>> : i \in DOMAIN k[c]} : c \in DOMAIN k \cap childCollections} IN
    top \cup UNION {below(p) : p \in top}
NodeAt(docs, p) == IF Len(p) = 2 THEN docs[p[1]][p[2]] ELSE docs[p[1]][p[2]].children[p[3]][p[4]]
\* The snapshot loses and repeats nothing of the documentation: one record per node, below the record of its parent,
\* and its counts and the modules it calls documented are those of the nodes.
SnapshotFits(made, places) ==
    LET having(m) == Cardinality({p \in places : m \in NodeAt(in.docs, p).marks}) IN
    /\ made.metadata = [records |-> Cardinality(places), stability |-> having("stability"), platform |-> having("platform"), mention |-> having("mention")]
    /\ \A i \in DOMAIN made.records : LET p == made.records[i].path IN
          Len(p) > 1 => \E j \in 1..(i - 1) : made.records[j].path = Front(p)
    /\ \A n \in in.modules : n \in made.documented <=> \E p \in places : NodeAt(in.docs, p).source = documentationSource(n)
DocsComplete == Given("docs") => SnapshotFits(snapshot(in.docs, in.modules), Places(in.docs))

\* The generated surface, its ledger, its check and the documentation snapshot tell the truth about the overlays.
SurfaceExact == FacadeComplete /\ LedgerTruthful /\ MembersNearest /\ OverloadsCounted /\ CheckExact /\ DocsComplete
=============================================================================
