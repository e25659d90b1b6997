------------------------------- MODULE Project -------------------------------
(***************************************************************************)
(* What scripts/build.mjs and the modules beside it decide before and      *)
(* around the compile: the project it writes (which file answers which     *)
(* specifier, which ambient scripts are roots), the paths it keeps         *)
(* afterwards, the language options taken from a source project, the units *)
(* compiled as one group, the digests of the compiler's files and the      *)
(* brotli versions accepted.  A file is <<directory, name, suffix>>, a     *)
(* specifier <<"node" or "bare", name>> or <<"rel", name, suffix>>.        *)
(***************************************************************************)
EXTENDS Evaluate

Merge(f, g) == g @@ f       \* {...f, ...g}
Ambient == {"standard-library", "node-globals", "whatwg-streams", "abort-events", "global-timers", "native-addons"}
internalSourceNames == {"globals", "standard-library", "not-implemented", "buffer-types", "node-globals", "whatwg-streams", "global-timers", "native-addons",
                        "whatwg-url", "node-server-adapter"}
Builtin(n) == <<"node", n, "ts">>

----------------
(* Resolution.  A world w is [files: those that exist, imports, names:     *)
(* what each module imports and whether it uses a WHATWG global unbound,   *)
(* installed: npm packages, alias: the source project's and --paths' own   *)
(* entries, withGlobals, packageAdapter: the environment's choice].        *)
collectModules(w, dir) == {f[2] : f \in {g \in w.files : g[1] = dir /\ g[3] = "ts"}}
resolveBuiltinModules(w) ==
    LET implementations == collectModules(w, "node")
        facades == collectModules(w, "facades") IN
    [n \in (implementations \cup facades) \ internalSourceNames |->
        IF n \in implementations THEN Builtin(n) ELSE <<"facades", n, "ts">>]
answeredPackages(w) ==
    [s \in {<<"bare", "whatwg-url">>} \cup (IF w.packageAdapter THEN {} ELSE {<<"bare", "adapter">>}) |->
        IF s[2] = "adapter" THEN Builtin("node-server-adapter") ELSE Builtin("whatwg-url")]
BothSpellings(w) == LET M == resolveBuiltinModules(w) IN [s \in {"node", "bare"} \X DOMAIN M |-> M[s[2]]]
targetModulePathKeys(w) == DOMAIN BothSpellings(w) \cup DOMAIN answeredPackages(w)
\* writeProject(): aliases, then the builtins under both spellings, then the packages this target answers.
paths(w) == Merge(Merge(w.alias, BothSpellings(w)), answeredPackages(w))

nodeBuiltins == {"fs", "http", "dns"}
IsNodeBuiltin(s) == s[1] = "node" \/ (s[1] = "bare" /\ s[2] \in nodeBuiltins)
\* createRequire(importer).resolve: JavaScript beside the importer, or an installed package
NodeResolve(w, s, importer) ==
    CASE s[1] = "bare" /\ s[2] \in w.installed -> <<"pkg", s[2], "js">>
      [] s[1] = "rel" /\ <<importer[1], s[2], "js">> \in w.files /\ s[3] \in {"", "js"} -> <<importer[1], s[2], "js">>
      [] s[1] = "rel" /\ <<importer[1], s[2], "json">> \in w.files /\ s[3] = "json" -> <<importer[1], s[2], "json">>
      [] OTHER -> <<>>
\* the sources Node's resolver cannot see: a sibling named by its emitted suffix, or without one from TypeScript
TypeScriptSibling(w, s, importer) ==
    IF s[1] = "rel" /\ <<importer[1], s[2], "ts">> \in w.files /\ (s[3] = "js" \/ (s[3] = "" /\ importer[3] = "ts"))
    THEN <<importer[1], s[2], "ts">> ELSE <<>>
resolvedRuntimeModule(w, s, importer, overrides) ==
    CASE s \in DOMAIN overrides -> overrides[s]
      [] IsNodeBuiltin(s) -> <<>>
      [] NodeResolve(w, s, importer) # <<>> -> NodeResolve(w, s, importer)
      [] OTHER -> TypeScriptSibling(w, s, importer)

ImportsOf(w, f) == IF f[2] \in DOMAIN w.imports THEN w.imports[f[2]] ELSE <<>>
Scanned(f) == f[3] \in {"js", "ts"}
\* the worklist: the last pending file first, a file once
RECURSIVE Reach(_, _, _, _)
Reach(w, overrides, pending, files) ==
    IF pending = <<>> THEN files
    ELSE LET file == Last(pending)
             rest == Front(pending)
             resolved == [i \in DOMAIN ImportsOf(w, file) |-> resolvedRuntimeModule(w, ImportsOf(w, file)[i], file, overrides)] IN
         IF file \in files \/ file \notin w.files \/ ~Scanned(file) THEN Reach(w, overrides, rest, files)
         ELSE Reach(w, overrides, rest \o SelectSeq(resolved, LAMBDA f: f # <<>>), files \cup {file})
Overrides(w) == Merge(BothSpellings(w), answeredPackages(w))
reachableRuntimeGlobalNeeds(w) == \E f \in Reach(w, Overrides(w), <<w.entry>>, {}) : f[2] \in w.names
runtimeRootsForReachableGlobalNeeds(w) == IF reachableRuntimeGlobalNeeds(w) THEN {Builtin("globals")} ELSE {}
\* writeProject(): the entry and the ambient scripts, globals.ts when it is asked for or needed
writeProject(w) ==
    [files |-> {w.entry} \cup {Builtin(n) : n \in Ambient}
                         \cup (IF w.withGlobals THEN {Builtin("globals")} ELSE runtimeRootsForReachableGlobalNeeds(w)),
     paths |-> paths(w)]
Used(w, program) == {s \in targetModulePathKeys(w) : \E f \in program \cup {w.entry} : \E i \in DOMAIN ImportsOf(w, f) : ImportsOf(w, f)[i] = s}
retainUsedBuiltinPathsFault(w, project, program) == Restrict(project, DOMAIN project \ (targetModulePathKeys(w) \ Used(w, {})))
retainUsedBuiltinPaths(w, project, program) == Restrict(project, DOMAIN project \ (targetModulePathKeys(w) \ Used(w, program)))

\* How the compiler resolves a specifier under a project's paths: the entry of `paths', else a sibling (the
\* TypeScript one first), else an installed package.
TsResolve(w, table, s, importer) ==
    LET sibling == {f \in w.files : f[1] = importer[1] /\ f[2] = s[2] /\ f[3] \in {"ts", "js", "json"} /\ s[3] \in {"", "js", f[3]}} IN
    CASE s \in DOMAIN table -> table[s]
      [] s[1] = "rel" /\ sibling # {} -> IF \E f \in sibling : f[3] = "ts" THEN <<importer[1], s[2], "ts">> ELSE CHOOSE f \in sibling : TRUE
      [] s[1] = "bare" /\ s[2] \in w.installed -> <<"pkg", s[2], "js">>
      [] OTHER -> <<>>
\* the modules of the program: what the entry leads to, import by import
RECURSIVE Grown(_, _, _)
Grown(w, table, S) ==
    LET next == S \cup {g \in w.files : Scanned(g) /\ \E f \in S : \E i \in DOMAIN ImportsOf(w, f) : TsResolve(w, table, ImportsOf(w, f)[i], f) = g} IN
    IF next = S THEN S ELSE Grown(w, table, next)
Program(w, table) == Grown(w, table, {w.entry})

\* globals.ts is a root exactly when a module of the program uses one of its names (or --globals asks for it): the
\* graph that build.mjs walks itself, worklist, overrides and Node's resolution, is the program the compiler is
\* then given through `paths' (aliases apart, which the walk does not know).
RootsExact == Given("project") =>
    LET w == in.world IN
    w.alias = <<>> => (Builtin("globals") \in writeProject(w).files
                         <=> w.withGlobals \/ \E f \in Program(w, paths(w)) : f[2] \in w.names)
\* Dropping the unused entries of `paths' after the compile changes the meaning of no import of the program.
PathsRetained == Given("project") =>
    LET w == in.world
        program == Program(w, paths(w))
        kept == retainUsedBuiltinPaths(w, paths(w), program) IN
    /\ Program(w, kept) = program
    /\ \A f \in program : \A i \in DOMAIN ImportsOf(w, f) :
          TsResolve(w, kept, ImportsOf(w, f)[i], f) = TsResolve(w, paths(w), ImportsOf(w, f)[i], f)
\* No alias takes a builtin's name: under either spelling `http' is the target's file, an implementation where there
\* is one; an answered package is the target's under its bare name alone.
TargetAnswers == Given("project") =>
    LET w == in.world
        table == paths(w) IN
    \A n \in (collectModules(w, "node") \cup collectModules(w, "facades")) \ internalSourceNames :
        /\ table[<<"node", n>>] = table[<<"bare", n>>]
        /\ table[<<"node", n>>] \in {Builtin(n), <<"facades", n, "ts">>} \cap w.files
        /\ Builtin(n) \in w.files => table[<<"node", n>>] = Builtin(n)

----------------
(* A source project's options: what its own tsc would check.               *)
\* the options that `strict' stands for
StrictFamily == {"alwaysStrict", "noImplicitAny", "noImplicitThis", "strictBindCallApply", "strictBuiltinIteratorReturn", "strictFunctionTypes",
                 "strictNullChecks", "strictPropertyInitialization", "useUnknownInCatchVariables"}
\* the list of names, a few of those that are not about strictness
Lifted == {"useUnknownInCatchVariables", "strictNullChecks", "strictFunctionTypes", "strictPropertyInitialization", "noImplicitAny",
           "noImplicitThis", "alwaysStrict", "exactOptionalPropertyTypes", "allowImportingTsExtensions", "customConditions"}
Bool(o, n) == IF n \in DOMAIN o THEN o[n] ELSE FALSE
sourceLanguageOptions(o) ==
    LET lifted == Merge([strict |-> Bool(o, "strict")], Restrict(o, DOMAIN o \cap Lifted)) IN
    IF Bool(o, "allowImportingTsExtensions") THEN Merge(lifted, [noEmit |-> TRUE]) ELSE lifted
compilerOptions(o) ==
    LET language == sourceLanguageOptions(o)
        conditions == IF "customConditions" \in DOMAIN language THEN language["customConditions"] ELSE {} IN
    Merge(Merge([target |-> "ES2022", module |-> "ESNext", strict |-> TRUE], language),
          [skipLibCheck |-> TRUE, types |-> {}, customConditions |-> {"node"} \cup conditions])
\* what the checker makes of a strictness option: its own value, or that of `strict'
Effective(o, n) == IF n \in DOMAIN o THEN o[n] ELSE Bool(o, "strict")
\* A library is checked as strictly as its own project has it, a project that says nothing included, and the options
\* it sets are ones the checker accepts together.  Two options of the family are not lifted, against the comment above
\* the list ("The source project's own strictness, INCLUDING its absence"): strictBindCallApply and
\* strictBuiltinIteratorReturn follow `strict', whatever the project itself makes of them.
NotLifted == {"strictBindCallApply", "strictBuiltinIteratorReturn"}
ChecksAsItsOwn == Given("tsconfig") =>
    LET made == compilerOptions(in.options) IN
    /\ \A n \in StrictFamily \ NotLifted : Effective(made, n) = Effective(in.options, n)
    /\ \A n \in NotLifted : Effective(made, n) = Bool(in.options, "strict")
    /\ Bool(made, "allowImportingTsExtensions") => Bool(made, "noEmit")

----------------
(* groupedUnits(): units <<name, first line, size>>, in `requested' groups.*)
MembersOf(units, line) == SelectSeq(units, LAMBDA u: u[2] = line)
Lightest(groups) == CHOOSE g \in DOMAIN groups : \A k \in DOMAIN groups :
    groups[g].size < groups[k].size \/ (groups[g].size = groups[k].size /\ g <= k)
LongestFirst(units) == SortSeq(units, LAMBDA a, b: a[3] > b[3] \/ (a[3] = b[3] /\ a[1] < b[1]))
Spread(units, requested) ==
    FoldLeft(LAMBDA groups, u: [groups EXCEPT ![Lightest(groups)] = [size |-> @.size + u[3], members |-> @.members \cup {u}]],
             [g \in 1..requested |-> [size |-> 0, members |-> {}]], LongestFirst(units))
\* what is compiled: units by themselves, and groups that include their members after the shared line
groupedUnits(units, requested) ==
    LET members == MembersOf(units, "h") IN
    IF requested = 0 \/ Len(units) <= requested * 2 \/ Len(members) <= requested * 2
    THEN [alone |-> ToSet(units), groups |-> <<>>]
    ELSE [alone |-> ToSet(units) \ ToSet(members), groups |-> Spread(members, requested)]
\* Every unit is compiled once, in one group or by itself, a group holds only units that begin with the shared line
\* (the program unit never joins), and no group is heavier than another by more than its lightest unit.
GroupsPartition == Given("units") =>
    LET made == groupedUnits(in.units, in.requested)
        groups == made.groups IN
    /\ \A u \in ToSet(in.units) :
          (IF u \in made.alone THEN 1 ELSE 0) + Cardinality({g \in DOMAIN groups : u \in groups[g].members}) = 1
    /\ \A g \in DOMAIN groups : \A u \in groups[g].members :
          u[2] = "h" /\ \A k \in DOMAIN groups : groups[g].size - u[3] <= groups[k].size

----------------
(* The compiler's files and the brotli library.                            *)
\* A hash is what was hashed: names and contents, each ended, in the order of the names.
compilerFilesDigest(entries) ==
    LET sorted == SortSeq(entries, LAMBDA a, b: a[1] < b[1]) IN
    FlattenSeq([i \in DOMAIN sorted |-> <<sorted[i][1], <<"hash", sorted[i][2]>>>>])
\* A compiler c is [root, version, dist, runtime]: its directory, the version of its package.json and the files of
\* dist and of the native runtime.  filesAt() throws for a directory without a file of its kind.
NoInputs == [compilerRoot |-> "none"]
compilerInputs(c) ==
    IF c.runtime = <<>> \/ c.dist = <<>> THEN NoInputs
    ELSE [compilerRoot |-> c.root, compilerVersion |-> c.version, compilerDistHash |-> compilerFilesDigest(c.dist),
          runtimeFiles |-> SetToSortSeq({c.runtime[i][1] : i \in DOMAIN c.runtime}, <), runtimeHash |-> compilerFilesDigest(c.runtime)]
\* the names with ".." in them or with "/" first
Escaping(name) == name > 3
\* the saved names, read from another directory; a name that leaves it and a file that is missing throw
assertRuntimeInputs(inputs, entries) ==
    LET saved == ToSet(inputs.runtimeFiles) IN
    /\ \A name \in saved : ~Escaping(name) /\ name \in {entries[i][1] : i \in DOMAIN entries}
    /\ compilerFilesDigest(SelectSeq(entries, LAMBDA e: e[1] \in saved)) = inputs.runtimeHash
assertCompilerInputs(inputs, c) == compilerInputs(c) = inputs
\* However the directories list their files, a digest stands for names and contents: a run is accepted by the
\* compiler's check exactly when neither its version changed nor a file was added, removed or changed, by the
\* runtime's when none of the emitted build's files is gone or changed, and none is named outside the directory.
DigestExact == Given("digest") =>
    LET saved == compilerInputs(in.before)
        same == /\ in.before.version = in.after.version /\ ToSet(in.before.dist) = ToSet(in.after.dist)
                /\ ToSet(in.before.runtime) = ToSet(in.after.runtime) IN
    saved # NoInputs =>
        /\ assertCompilerInputs(saved, in.after) <=> same
        /\ assertRuntimeInputs(saved, in.after.runtime)
              <=> /\ ToSet(in.before.runtime) \subseteq ToSet(in.after.runtime)
                  /\ \A e \in ToSet(in.before.runtime) : ~Escaping(e[1])

BitField(version, from, width) == (version \div 2^from) % 2^width
brotliVersionIsPatched(version) ==
    LET major == version \div 2^24
        minor == BitField(version, 12, 12)
        patch == version % 2^12 IN
    CASE major # 1 -> major > 1
      [] minor = 0 -> patch >= 10
      [] minor \in {1, 2} -> patch >= 1
      [] OTHER -> minor > 2
\* The fixed releases: the last of each line that the refusal names ("1.2.1, 1.1.1 or 1.0.10 or later on the same line").
Fixes == {<<1, 0, 10>>, <<1, 1, 1>>, <<1, 2, 1>>}
\* A library is accepted exactly when it is no older than the fix of its own line, or of a line after the fixed ones.
BrotliGate == Given("brotli") =>
    LET v == in.version
        packed == v[1] * 2^24 + v[2] * 2^12 + v[3] IN
    brotliVersionIsPatched(packed) <=>
        \/ \E f \in Fixes : f[1] = v[1] /\ f[2] = v[2] /\ v[3] >= f[3]
        \/ \A f \in Fixes : v[1] > f[1] \/ (v[1] = f[1] /\ v[2] > f[2])

\* The project that a build compiles is the one its sources ask for.
ProjectExact ==
    /\ RootsExact /\ PathsRetained /\ TargetAnswers /\ ChecksAsItsOwn /\ GroupsPartition /\ DigestExact
    /\ BrotliGate
=============================================================================
