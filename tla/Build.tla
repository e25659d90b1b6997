------------------------------- MODULE Build -------------------------------
(***************************************************************************)
(* scripts/build.mjs from the emission to the executable: the units the    *)
(* compile writes and the report that lists them, the precompiled prefix   *)
(* header, the cache of unit objects by content key, the workers that      *)
(* compile side by side, the two links of --pgo and their training run,    *)
(* --bolt's rewrite, and --link-only.  A build may be killed at any point, *)
(* and the application, the runtime header, the compiler and the settings  *)
(* change between builds.  What clang makes of a file is its inputs.       *)
(***************************************************************************)
EXTENDS Integers, Sequences, FiniteSets

CONSTANTS
    Settings,       \* what builds are made from: [app: what the compile emits, a function from file names to
                    \* contents; env: the compiler and options, [version, flags, lto, pch, debug]]
    Ways,           \* how the executable is made: <<links and training, with --bolt?>>
    Jobs, MaxBuilds, MaxEdits, MaxFaults,
    None

Units == {"p", "u1", "u2"}      \* p is the program unit, the one that does not begin with the shared #include
Users == {"u1", "u2"}
Names == Units \cup {"h"}       \* h: the emitted header
Slots == {"o", "gen"}           \* an object of a unit: plain (or optimized from a profile), and instrumented
Plans == {<<"plain">>, <<"gen", "train", "use">>}

ASSUME SettingsAssumption == \A s \in Settings : DOMAIN s.app \subseteq Names
ASSUME WaysAssumption == \A way \in Ways : way[1] \in Plans /\ way[2] \in BOOLEAN

VARIABLES
    world,      \* [app, dist: the TypeScript compiler, r: the runtime header, env]
    disk,       \* files: the emitted contents; obj, objKey, pch, pchObj, pchKey, profile, inst, exe; report
    b,          \* the build process, or [pc |-> "idle"]
    told        \* history: builds, edits, faults; last: what the last successful build must have produced

vars == <<world, disk, b, told>>

Idle == [pc |-> "idle"]
Rank(n) == CASE n = "h" -> 0 [] n = "p" -> 1 [] n = "u1" -> 2 [] n = "u2" -> 3      \* the order of the units
Emitted == [n \in Names |-> IF n \in DOMAIN world.app THEN <<world.app[n], world.dist>> ELSE None]

----------------
(* Commands.                                                               *)
ltoMode(phase, v) ==
    CASE world.env.debug \/ world.env.lto = "0" -> None
      [] world.env.lto = "thin" -> "thin"
      [] phase = "all" -> "full"
      [] v = "gen" -> None
      [] v = "use" -> "thin"
      [] OTHER -> "full"
cxxFlags(phase, v) ==
    [level |-> <<world.env.flags, world.env.debug, v = "gen">>,
     lto |-> IF phase = "pch" THEN None ELSE ltoMode(phase, v),
     profile |-> IF phase = "pch" THEN "plain" ELSE v]
SlotOf(v) == IF v = "gen" THEN "gen" ELSE "o"
ProfileOf(v) == IF v = "use" THEN disk.profile ELSE None
\* The prefix header is worth a PCH when two units or more begin with it.
precompiledPrefix(units) == world.env.pch /\ Cardinality(units) >= 2 /\ Cardinality(units \cap Users) >= 2 /\ disk.files["h"] # None

\* What clang writes, from the files as they are when it reads them.
PchMade(v) == [h |-> disk.files["h"], r |-> world.r, version |-> world.env.version, flags |-> cxxFlags("pch", v)]
PchObjMade == [of |-> disk.pch, flags |-> cxxFlags("compile", b.variant), version |-> world.env.version]
Object(u, v, pch) ==
    [src |-> disk.files[u], pre |-> IF pch = None THEN <<disk.files["h"], world.r>> ELSE <<pch.h, pch.r>>, viaPch |-> pch # None,
     version |-> world.env.version, flags |-> cxxFlags("compile", v), profile |-> ProfileOf(v)]
\* clang rejects a PCH whose inputs have changed since.
PchValid == disk.pch # None /\ disk.pch.h = disk.files["h"] /\ disk.pch.r = world.r

----------------
(* Content keys.  fileContentHash() remembers a hash for the whole process *)
(* (b.memo); the PCH's key reads its inputs every time.                    *)
ContentOf(file) == CASE file = "pch" -> disk.pch [] file = "r" -> world.r [] OTHER -> disk.files[file]
Inputs(u, viaPch) == IF viaPch THEN {u, "pch"} ELSE {u, "h", "r"}
fileContentHash(memo, file) == IF file \in DOMAIN memo THEN memo[file] ELSE ContentOf(file)
Memo(memo, inputs) == [f \in DOMAIN memo \cup inputs |-> fileContentHash(memo, f)]
identityFault(v, viaPch) == [version |-> world.env.version, flags |-> cxxFlags("compile", v), viaPch |-> viaPch, profile |-> None]
identity(v, viaPch) == [version |-> world.env.version, flags |-> cxxFlags("compile", v), viaPch |-> viaPch, profile |-> ProfileOf(v)]
unitKey(v, viaPch, u, memo) ==
    [id |-> identity(v, viaPch), inputs |-> [f \in Inputs(u, viaPch) |-> fileContentHash(memo, f)]]
PchKey == [id |-> <<world.env.version, cxxFlags("pch", b.variant), world.env.debug, IF world.env.debug THEN cxxFlags("compile", b.variant) ELSE None>>,
           h |-> disk.files["h"], r |-> world.r]
PchCurrent == disk.pch # None /\ (world.env.debug => disk.pchObj # None) /\ disk.pchKey = PchKey

----------------
(* The process.                                                            *)
Exit(report) == b' = Idle /\ disk' = [disk EXCEPT !.report = report]
Failed == [disk.report EXCEPT !.linked = FALSE]
Fresh == [gen |-> None, dist |-> world.dist, linked |-> FALSE]
Process(kind, plan, bolt) ==
    [pc |-> "compile", kind |-> kind, plan |-> plan, bolt |-> bolt, variant |-> None, units |-> {}, memo |-> <<>>,
     stale |-> IF disk.report.gen = None THEN {} ELSE disk.report.gen, queue |-> <<>>, work |-> [w \in 1..Jobs |-> Idle],
     prefix |-> None, done |-> <<>>]

\* A build begins; its first report, written before the sources are compiled, replaces the one it found.
Start(kind, plan, bolt) ==
    /\ b = Idle /\ told.builds < MaxBuilds /\ kind \in {"full", "emit"}
    /\ b' = Process(kind, plan, bolt)
    /\ disk' = [disk EXCEPT !.report = Fresh]
    /\ told' = [told EXCEPT !.builds = @ + 1]
    /\ UNCHANGED world
Linkable(report) == report.gen # None /\ report.dist = world.dist
\* --link-only takes the units the report lists.
LinkOnly(plan, bolt) ==
    /\ b = Idle /\ told.builds < MaxBuilds
    /\ told' = [told EXCEPT !.builds = @ + 1]
    /\ CASE ~Linkable(disk.report) -> Exit(Fresh)
         [] Linkable(disk.report) /\ \E n \in disk.report.gen : disk.files[n] = None -> Exit(disk.report)
         [] OTHER -> b' = [Process("link", plan, bolt) EXCEPT !.pc = "build", !.units = disk.report.gen \cap Units] /\ UNCHANGED disk
    /\ UNCHANGED world
\* The compile: nothing to emit, or the application's units, written one after the other.
Compile ==
    /\ b.pc = "compile"
    /\ \/ /\ told.faults < MaxFaults
          /\ told' = [told EXCEPT !.faults = @ + 1] /\ b' = Idle
       \/ b' = [b EXCEPT !.pc = "emit", !.queue = Emitted] /\ UNCHANGED told
    /\ UNCHANGED <<world, disk>>
EmitFile ==
    /\ b.pc = "emit"
    /\ \E n \in {m \in Names : b.queue[m] # None} :
          /\ \A m \in Names : b.queue[m] # None => Rank(n) <= Rank(m)
          /\ disk' = [disk EXCEPT !.files[n] = b.queue[n]]
          /\ b' = [b EXCEPT !.queue[n] = None]
    /\ UNCHANGED <<world, told>>
Generated == DOMAIN world.app
EmitDone ==
    /\ b.pc = "emit" /\ \A n \in Names : b.queue[n] = None
    /\ disk' = [disk EXCEPT !.files = [n \in Names |-> IF n \in b.stale \ Generated THEN None ELSE disk.files[n]],
                            !.report = [gen |-> Generated, dist |-> world.dist, linked |-> FALSE]]
    /\ b' = IF b.kind = "emit" THEN Idle ELSE [b EXCEPT !.pc = "build", !.units = Generated \cap Units]
    /\ UNCHANGED <<world, told>>

\* linkUnits(): several units are compiled apart, at most Jobs at once; one unit is one command.
Begun(v) ==
    LET split == Cardinality(b.units) > 1 IN
    [b EXCEPT !.pc = IF split THEN "units" ELSE "link", !.plan = Tail(@), !.variant = v, !.done = <<>>,
              !.queue = IF split THEN b.units ELSE {}, !.work = [w \in 1..Jobs |-> Idle],
              !.prefix = IF precompiledPrefix(b.units) THEN "start" ELSE None]
\* buildExecutable(): one link, or the two of --pgo with the training run between them.
BeginLink ==
    /\ b.pc = "build" /\ b.plan # <<>> /\ Head(b.plan) # "train"
    /\ LET v == Head(b.plan) IN
       IF v # "plain" /\ world.env.debug THEN Exit(disk.report)
       ELSE /\ b' = Begun(v)
            /\ disk' = IF v = "gen" THEN [disk EXCEPT !.profile = None] ELSE disk
    /\ UNCHANGED <<world, told>>
Train ==
    /\ b.pc = "build" /\ b.plan # <<>> /\ Head(b.plan) = "train"
    /\ \/ b' = [b EXCEPT !.plan = Tail(@)] /\ disk' = [disk EXCEPT !.profile = [image |-> disk.inst, run |-> told.builds]] /\ UNCHANGED told
       \/ told.faults < MaxFaults /\ told' = [told EXCEPT !.faults = @ + 1] /\ Exit(disk.report)
    /\ UNCHANGED world

----------------
(* linkUnits(): the PCH and the unit compiles.                             *)
PchStart ==
    /\ b.pc = "units" /\ b.prefix = "start"
    /\ IF PchCurrent THEN b' = [b EXCEPT !.prefix = "ok"] /\ UNCHANGED disk
       ELSE b' = [b EXCEPT !.prefix = "pch"] /\ disk' = [disk EXCEPT !.pchKey = None]
    /\ UNCHANGED <<world, told>>
PchCompiled ==
    /\ b.pc = "units" /\ b.prefix = "pch"
    /\ disk' = [disk EXCEPT !.pch = PchMade(b.variant)]
    /\ b' = [b EXCEPT !.prefix = IF world.env.debug THEN "object" ELSE "key"]
    /\ UNCHANGED <<world, told>>
PchObjectCompiled ==
    /\ b.pc = "units" /\ b.prefix = "object"
    /\ disk' = [disk EXCEPT !.pchObj = PchObjMade]
    /\ b' = [b EXCEPT !.prefix = "key"]
    /\ UNCHANGED <<world, told>>
PchFails ==
    /\ b.pc = "units" /\ b.prefix \in {"pch", "object"} /\ told.faults < MaxFaults
    /\ b' = [b EXCEPT !.prefix = "failed"]
    /\ told' = [told EXCEPT !.faults = @ + 1]
    /\ UNCHANGED <<world, disk>>
PchKeyed ==
    /\ b.pc = "units" /\ b.prefix = "key"
    /\ disk' = [disk EXCEPT !.pchKey = PchKey]
    /\ b' = [b EXCEPT !.prefix = "ok"]
    /\ UNCHANGED <<world, told>>

Waits(u) == b.prefix # None /\ u \in Users
\* The next unit: those that cannot use the PCH come first.
Take(w) ==
    /\ b.pc = "units" /\ b.prefix # "start" /\ b.work[w] = Idle
    /\ \E u \in b.queue :
          /\ \A o \in b.queue : Waits(o) /\ Waits(u) => Rank(u) <= Rank(o)
          /\ \A o \in b.queue : ~Waits(o) => ~Waits(u) /\ Rank(u) <= Rank(o)
          /\ b' = [b EXCEPT !.queue = @ \ {u}, !.work[w] = [pc |-> "check", unit |-> u]]
    /\ UNCHANGED <<world, disk, told>>
ReadyFault(u) == Waits(u) => b.prefix = "ok"
Ready(u) == Waits(u) => b.prefix \in {"ok", "failed"}
Check(w) ==
    LET job == b.work[w]
        u == job.unit
        viaPch == Waits(u) /\ b.prefix = "ok"
        place == <<u, SlotOf(b.variant)>>
        recorded == disk.objKey[place]
        seen == IF recorded = None THEN b.memo ELSE Memo(b.memo, DOMAIN recorded.inputs) IN
    /\ b.pc = "units" /\ job.pc = "check" /\ Ready(u)
    /\ IF /\ recorded # None /\ disk.obj[place] # None
          /\ recorded = [id |-> identity(b.variant, viaPch), inputs |-> [f \in DOMAIN recorded.inputs |-> seen[f]]]
       THEN b' = [b EXCEPT !.memo = seen, !.work[w] = Idle, !.done = Append(@, <<u, TRUE>>)] /\ UNCHANGED disk
       ELSE /\ b' = [b EXCEPT !.memo = seen, !.work[w] = [pc |-> "cxx", unit |-> u, viaPch |-> viaPch]]
            /\ disk' = [disk EXCEPT !.objKey[place] = None]
    /\ UNCHANGED <<world, told>>
Compiled(w) ==
    LET job == b.work[w] IN
    /\ b.pc = "units" /\ job.pc = "cxx"
    /\ job.viaPch => PchValid
    /\ disk' = [disk EXCEPT !.obj[<<job.unit, SlotOf(b.variant)>>] = Object(job.unit, b.variant, IF job.viaPch THEN disk.pch ELSE None)]
    /\ b' = [b EXCEPT !.work[w].pc = "key"]
    /\ UNCHANGED <<world, told>>
CompileFails(w) ==
    LET job == b.work[w] IN
    /\ b.pc = "units" /\ job.pc = "cxx"
    /\ told.faults < MaxFaults \/ (job.viaPch /\ ~PchValid)
    /\ b' = [b EXCEPT !.work[w] = Idle, !.done = Append(@, <<job.unit, FALSE>>)]
    /\ told' = [told EXCEPT !.faults = IF job.viaPch /\ ~PchValid THEN @ ELSE @ + 1]
    /\ UNCHANGED <<world, disk>>
Keyed(w) ==
    LET job == b.work[w]
        seen == Memo(b.memo, Inputs(job.unit, job.viaPch)) IN
    /\ b.pc = "units" /\ job.pc = "key"
    /\ disk' = [disk EXCEPT !.objKey[<<job.unit, SlotOf(b.variant)>>] = unitKey(b.variant, job.viaPch, job.unit, seen)]
    /\ b' = [b EXCEPT !.memo = seen, !.work[w] = Idle, !.done = Append(@, <<job.unit, TRUE>>)]
    /\ UNCHANGED <<world, told>>
\* Every worker has run dry; one failed unit fails the build.
UnitsDone ==
    /\ b.pc = "units" /\ b.queue = {} /\ b.prefix # "start" /\ \A w \in 1..Jobs : b.work[w] = Idle
    /\ IF \A i \in DOMAIN b.done : b.done[i][2] THEN b' = [b EXCEPT !.pc = "link"] /\ UNCHANGED disk
       ELSE Exit(Failed)
    /\ UNCHANGED <<world, told>>

\* The image a link makes: of the one unit's source, or of the objects.
Image ==
    LET split == Cardinality(b.units) > 1
        v == b.variant IN
    [parts |-> [u \in b.units |-> IF split THEN disk.obj[<<u, SlotOf(v)>>] ELSE Object(u, v, None)],
     prefix |-> IF split /\ b.prefix = "ok" /\ world.env.debug THEN disk.pchObj ELSE None,
     flags |-> cxxFlags(IF split THEN "link" ELSE "all", v), bolted |-> FALSE]
Link ==
    /\ b.pc = "link"
    /\ \/ /\ disk' = IF b.variant = "gen" THEN [disk EXCEPT !.inst = Image]
                     ELSE [disk EXCEPT !.exe = Image, !.inst = IF b.variant = "use" THEN None ELSE @, !.report.linked = TRUE]
          /\ b' = [b EXCEPT !.pc = IF b.plan # <<>> THEN "build" ELSE IF b.bolt THEN "bolt" ELSE "end"]
          /\ UNCHANGED told
       \/ /\ told.faults < MaxFaults
          /\ told' = [told EXCEPT !.faults = @ + 1] /\ Exit(Failed)
    /\ UNCHANGED world
\* --bolt: sample, convert, rewrite into <exe>.bolt; then the input moves away and the result takes its place.
Bolt ==
    /\ b.pc = "bolt"
    /\ \/ /\ disk' = [disk EXCEPT !.bolted = disk.exe] /\ b' = [b EXCEPT !.pc = "rename"] /\ UNCHANGED told
       \/ told.faults < MaxFaults /\ told' = [told EXCEPT !.faults = @ + 1] /\ Exit(disk.report)
    /\ UNCHANGED world
BoltMovesInput == b.pc = "rename" /\ disk' = [disk EXCEPT !.exe = None] /\ b' = [b EXCEPT !.pc = "moved"] /\ UNCHANGED <<world, told>>
BoltTakesPlace ==
    /\ b.pc = "moved"
    /\ disk' = [disk EXCEPT !.exe = [disk.bolted EXCEPT !.bolted = TRUE], !.bolted = None]
    /\ b' = [b EXCEPT !.pc = "end"]
    /\ UNCHANGED <<world, told>>

(* What a build from nothing would have made of the same units.            *)
CleanPart(u, v) ==
    Object(u, v, IF precompiledPrefix(b.units) /\ u \in Users THEN PchMade(v) ELSE None)
SameObject(x, y) == [x EXCEPT !.viaPch = TRUE] = [y EXCEPT !.viaPch = TRUE]
Clean(image, v) ==
    /\ DOMAIN image.parts = b.units
    /\ \A u \in b.units : SameObject(image.parts[u], CleanPart(u, v))
    /\ image.prefix # None => image.prefix.of = PchMade(v)
ExitOk ==
    /\ b.pc = "end"
    /\ told' = [told EXCEPT !.last = [fresh |-> disk.exe # None /\ Clean(disk.exe, b.variant) /\ disk.exe.bolted = b.bolt,
                                      oneEmission |-> (\A u \in b.units : disk.files[u][2] = world.dist)
                                                      /\ \E s \in Settings : DOMAIN s.app \cap Units = b.units
                                                            /\ \A u \in b.units : disk.files[u][1] = s.app[u],
                                      profiled |-> b.variant = "use" =>
                                          /\ disk.profile # None /\ DOMAIN disk.profile.image.parts = b.units
                                          /\ \A u \in b.units : SameObject(disk.profile.image.parts[u], CleanPart(u, "gen"))]]
    /\ b' = Idle
    /\ UNCHANGED <<world, disk>>

----------------
\* The build is killed; a compiler it had started may or may not have finished.  One that outlives the build is taken
\* to end before anything else happens: its writing its object during a later build is not covered.
Kill ==
    /\ b # Idle /\ told.faults < MaxFaults
    /\ b' = Idle
    /\ told' = [told EXCEPT !.faults = @ + 1]
    /\ \/ disk' = disk
       \/ \E w \in 1..Jobs :
             LET job == b.work[w] IN
             /\ b.pc = "units" /\ job.pc = "cxx" /\ (job.viaPch => PchValid)
             /\ disk' = [disk EXCEPT !.obj[<<job.unit, SlotOf(b.variant)>>] =
                           Object(job.unit, b.variant, IF job.viaPch THEN disk.pch ELSE None)]
       \/ b.pc = "units" /\ b.prefix = "pch" /\ disk' = [disk EXCEPT !.pch = PchMade(b.variant)]
    /\ UNCHANGED world
\* The developer's changes, between builds: an edit while a build runs, in particular between the compile of a unit
\* and the hashing of what it had read, is not covered.
Edit ==
    /\ told.edits < MaxEdits /\ told.builds < MaxBuilds /\ b = Idle
    /\ told' = [told EXCEPT !.edits = @ + 1]
    /\ \/ \E s \in Settings : world' = [world EXCEPT !.app = s.app, !.env = s.env]
       \/ world' = [world EXCEPT !.r = 3 - @]
       \/ world' = [world EXCEPT !.dist = 3 - @]
    /\ UNCHANGED <<b, disk>>

Init ==
    /\ \E s \in Settings : world = [app |-> s.app, env |-> s.env, dist |-> 1, r |-> 1]
    /\ disk = [files |-> [n \in Names |-> None], obj |-> [x \in Units \X Slots |-> None], objKey |-> [x \in Units \X Slots |-> None],
               pch |-> None, pchObj |-> None, pchKey |-> None, profile |-> None, inst |-> None, exe |-> None, bolted |-> None,
               report |-> [gen |-> None, dist |-> 1, linked |-> FALSE]]
    /\ b = Idle
    /\ told = [builds |-> 0, edits |-> 0, faults |-> 0, last |-> [fresh |-> TRUE, oneEmission |-> TRUE, profiled |-> TRUE]]

Works ==
    \/ Compile \/ EmitFile \/ EmitDone \/ BeginLink \/ Train
    \/ PchStart \/ PchCompiled \/ PchObjectCompiled \/ PchFails \/ PchKeyed
    \/ \E w \in 1..Jobs : Take(w) \/ Check(w) \/ Compiled(w) \/ CompileFails(w) \/ Keyed(w)
    \/ UnitsDone \/ Link \/ Bolt \/ BoltMovesInput \/ BoltTakesPlace \/ ExitOk
Next ==
    \/ \E kind \in {"full", "emit"}, way \in Ways : Start(kind, way[1], way[2])
    \/ \E way \in Ways : LinkOnly(way[1], way[2])
    \/ Compile \/ EmitFile \/ EmitDone \/ BeginLink \/ Train
    \/ PchStart \/ PchCompiled \/ PchObjectCompiled \/ PchFails \/ PchKeyed
    \/ \E w \in 1..Jobs : Take(w) \/ Check(w) \/ Compiled(w) \/ CompileFails(w) \/ Keyed(w)
    \/ UnitsDone \/ Link \/ Bolt \/ BoltMovesInput \/ BoltTakesPlace \/ ExitOk
    \/ Kill
    \/ Edit

BuildSpec == Init /\ [][Next]_vars /\ WF_vars(Works)

\* A build that ends well has made the executable a build from nothing would make of the same units, headers,
\* compiler, flags and profile, whichever objects, precompiled headers and keys it found: left by builds with other
\* settings, by builds that failed, and by builds killed between any two steps.
ExeIsFresh == told.last.fresh

\* --link-only links the units of one emission by one compiler, never a mixture with those of a build that was killed
\* while it wrote them.
OneEmission == told.last.oneEmission

\* buildExecutable(): "the profile can never come from an emission other than the one it optimizes".
ProfileMatches == told.last.profiled

\* Every build ends: no worker waits for ever, for the precompiled header or for another.
BuildEnds == (b.pc # "idle") ~> (b.pc = "idle")

\* What a build that says it succeeded leaves is what a build from nothing would have made: the executable,
\* the emission it was linked from and the profile it was optimized with.
ArtifactsExact == ExeIsFresh /\ OneEmission /\ ProfileMatches

----------------
(* The instance that TLC checks.                                           *)
\* Two applications that share the bytes of a unit, and one of a single unit; another compiler, and --debug.
A1 == [p |-> 1, u1 |-> 1, u2 |-> 1, h |-> 1]
E0 == [version |-> 1, flags |-> 1, lto |-> "unset", pch |-> TRUE, debug |-> FALSE]
MCSettings ==
    {[app |-> A1, env |-> E0], [app |-> [A1 EXCEPT !.u2 = 2], env |-> [E0 EXCEPT !.version = 2, !.debug = TRUE]],
     [app |-> [p |-> 2], env |-> E0]}
MCWays == {<<<<"plain">>, TRUE>>, <<<<"gen", "train", "use">>, FALSE>>}
=============================================================================
