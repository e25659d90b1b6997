---------------------------- MODULE BuildProofs ----------------------------
(***************************************************************************)
(* Why the caches of the build can be trusted: BuildInv is inductive, for  *)
(* every set of applications and environments, every number of workers and *)
(* every bound on builds, edits and faults.  A key that is on disk is true *)
(* of the object beside it, because it is removed before the object is     *)
(* written and put back after; the same for the precompiled header.        *)
(***************************************************************************)
EXTENDS Build, TLAPS

\* None is no string of the process and no function: not the contents of a file, a record or a sequence.
Whole(f) == f = [x \in DOMAIN f |-> f[x]]
Words == {"plain", "gen", "use", "start", "pch", "object", "key", "ok", "failed"}
NoneApart == None \notin Words /\ \A f : Whole(f) => f # None

Variants == {"plain", "gen", "use"}
WorldFields == {"app", "env", "dist", "r"}
DiskFields == {"files", "obj", "objKey", "pch", "pchObj", "pchKey", "profile", "inst", "exe", "bolted", "report"}
ProcessFields == {"pc", "kind", "plan", "bolt", "variant", "units", "memo", "stale", "queue", "work", "prefix", "done"}
ObjectFields == {"src", "pre", "viaPch", "version", "flags", "profile"}
Places == Units \X Slots
Worker == {Idle} \cup [pc : {"check"}, unit : Units] \cup [pc : {"cxx", "key"}, unit : Units, viaPch : BOOLEAN]

----------------
(* The invariant *)

Working == b # Idle
Emitting == Working /\ b.pc \in {"compile", "emit"}
Building == Working /\ b.pc \notin {"compile", "emit"}
Compiling == Working /\ b.pc \in {"units", "link"}

\* Where the process is in its plan.
Stages ==
    \/ b.pc \in {"compile", "emit", "build"} /\ b.variant = None /\ b.plan \in Plans
    \/ b.pc = "build" /\ b.variant = "gen" /\ b.plan \in {<<"train", "use">>, <<"use">>}
    \/ b.pc \in {"units", "link"} /\ b.variant = "gen" /\ b.plan = <<"train", "use">>
    \/ b.pc \in {"units", "link", "bolt", "rename", "moved", "end"} /\ b.variant \in {"plain", "use"} /\ b.plan = <<>>

Shapes ==
    /\ DOMAIN world = WorldFields /\ \E s \in Settings : world.app = s.app
    /\ DOMAIN disk = DiskFields /\ DOMAIN disk.files = Names
    /\ DOMAIN disk.obj = Places /\ DOMAIN disk.objKey = Places /\ DOMAIN disk.report = {"gen", "dist", "linked"}
    /\ DOMAIN told = {"builds", "edits", "faults", "last"} /\ told.builds \in Nat
    /\ Working =>
          /\ DOMAIN b = ProcessFields /\ b.bolt \in BOOLEAN /\ b.units \subseteq Units
          /\ b.work \in [1 .. Jobs -> Worker] /\ b.done \in Seq(Units \X BOOLEAN)
          /\ b.prefix \in {None, "start", "pch", "object", "key", "ok", "failed"}
          /\ Stages

\* An emission: the files of one application, written by one compiler.
Emission(gen, dist) == \E s \in Settings : gen = DOMAIN s.app /\ \A n \in gen : disk.files[n] = <<s.app[n], dist>>
EmissionInv ==
    /\ disk.report.gen # None => Emission(disk.report.gen, disk.report.dist)
    /\ Emitting => disk.report.gen = None
    /\ Working /\ b.pc = "emit" =>
          /\ DOMAIN b.queue = Names
          /\ \A n \in Names : n \notin DOMAIN world.app => b.queue[n] = None
          /\ \A n \in DOMAIN world.app : \/ b.queue[n] = <<world.app[n], world.dist>>
                                         \/ b.queue[n] = None /\ disk.files[n] = <<world.app[n], world.dist>>
    /\ Building => \E s \in Settings : /\ DOMAIN s.app \cap Units = b.units
                                       /\ \A u \in b.units : disk.files[u] = <<s.app[u], world.dist>>

\* The object and the precompiled header that a build from nothing would make now.
Flags == [v \in Variants |-> cxxFlags("compile", v)]
PchFlags == [v \in Variants |-> cxxFlags("pch", v)]
Right(o, u, v) ==
    /\ DOMAIN o = ObjectFields
    /\ o.src = disk.files[u] /\ o.pre = <<disk.files["h"], world.r>> /\ o.version = world.env.version
    /\ o.flags = Flags[v] /\ o.profile = IF v = "use" THEN disk.profile ELSE None
RightPch(p, v) == p = [h |-> disk.files["h"], r |-> world.r, version |-> world.env.version, flags |-> PchFlags[v]]

\* A key is true of the object beside it.
Describes(k, o, u) ==
    /\ DOMAIN o = ObjectFields
    /\ o.version = k.id.version /\ o.flags = k.id.flags /\ o.profile = k.id.profile
    /\ o.src = k.inputs[u]
    /\ o.pre = IF k.id.viaPch THEN <<k.inputs["pch"].h, k.inputs["pch"].r>> ELSE <<k.inputs["h"], k.inputs["r"]>>
\* The key of a unit's object.  One that names a profile may have read the precompiled header of the instrumented
\* link; no other build has that profile.
KeyOK(k, o, u, s) ==
    /\ k.id.viaPch \in BOOLEAN /\ DOMAIN k.inputs = Inputs(u, k.id.viaPch) /\ (k.id.viaPch => u \in Users)
    /\ k.id.profile = None /\ o # None => Describes(k, o, u)
    /\ k.id.profile # None =>
          /\ k.id.profile.run \in Nat /\ k.id.profile.run <= told.builds
          /\ Working /\ k.id.profile.run = told.builds => b.variant = "use" /\ s = "o" /\ Right(o, u, "use")
KeysInv == \A u \in Units : \A s \in Slots : disk.objKey[<<u, s>>] # None => KeyOK(disk.objKey[<<u, s>>], disk.obj[<<u, s>>], u, s)

PchInv ==
    /\ disk.pchKey # None =>
          /\ disk.pch = [h |-> disk.pchKey.h, r |-> disk.pchKey.r, version |-> disk.pchKey.id[1], flags |-> disk.pchKey.id[2]]
          /\ disk.pchKey.id[3] => disk.pchObj.of = disk.pch
    /\ Compiling =>
          /\ b.prefix \in {"pch", "object", "key"} => disk.pchKey = None
          /\ b.prefix \in {"object", "key", "ok"} => RightPch(disk.pch, b.variant)
          /\ b.prefix \in {"key", "ok"} /\ world.env.debug => disk.pchObj.of = disk.pch

MemoInv ==
    Working =>
        /\ b.variant = None => DOMAIN b.memo = {}
        /\ \A f \in DOMAIN b.memo : f \in Names => b.memo[f] = disk.files[f]
        /\ "r" \in DOMAIN b.memo => b.memo["r"] = world.r
        /\ b.pc = "units" /\ b.variant # "use" /\ "pch" \in DOMAIN b.memo =>
              /\ b.prefix \in {None, "ok", "failed"}
              /\ b.prefix = "ok" => b.memo["pch"].h = disk.files["h"] /\ b.memo["pch"].r = world.r

Busy(w) == b.work[w] # Idle
Place(u) == <<u, IF b.variant = "gen" THEN "gen" ELSE "o">>
JobOK(w) ==
    /\ b.work[w].unit \in b.units \ b.queue
    /\ \A x \in 1 .. Jobs : Busy(x) /\ b.work[x].unit = b.work[w].unit => x = w
    /\ b.work[w].pc \in {"cxx", "key"} =>
          /\ disk.objKey[Place(b.work[w].unit)] = None
          /\ b.work[w].viaPch => b.prefix = "ok" /\ b.work[w].unit \in Users
    /\ b.work[w].pc = "key" => Right(disk.obj[Place(b.work[w].unit)], b.work[w].unit, b.variant)
WorkInv ==
    /\ Working /\ b.pc = "units" =>
          /\ b.queue \subseteq b.units
          /\ \A w \in 1 .. Jobs : Busy(w) => JobOK(w)
          /\ \A u \in b.units : \/ u \in b.queue \/ \E w \in 1 .. Jobs : Busy(w) /\ b.work[w].unit = u
                                \/ \E i \in 1 .. Len(b.done) : b.done[i][1] = u
          /\ \A i \in 1 .. Len(b.done) : b.done[i][2] => Right(disk.obj[Place(b.done[i][1])], b.done[i][1], b.variant)
    /\ Working /\ b.pc = "link" /\ Cardinality(b.units) > 1 =>
          \A u \in b.units : Right(disk.obj[Place(u)], u, b.variant)

\* What is linked is what the variant's link makes of the units.
Parts(image, v) == DOMAIN image.parts = b.units /\ \A u \in b.units : Right(image.parts[u], u, v)
Made(image) ==
    /\ DOMAIN image = {"parts", "prefix", "flags", "bolted"} /\ Whole(image)
    /\ Parts(image, b.variant) /\ (image.prefix # None => RightPch(image.prefix.of, b.variant))
ImagesInv ==
    Working =>
        /\ b.variant = "gen" /\ b.pc # "build" => disk.profile = None
        /\ b.variant = "gen" /\ b.plan = <<"train", "use">> /\ b.pc = "build" => Parts(disk.inst, "gen")
        /\ (b.variant = "gen" /\ b.plan = <<"use">>) \/ b.variant = "use" =>
              disk.profile # None /\ disk.profile.run = told.builds /\ Parts(disk.profile.image, "gen")
        /\ b.pc = "bolt" => Made(disk.exe)
        /\ b.pc \in {"bolt", "rename", "moved"} => b.bolt
        /\ b.pc \in {"rename", "moved"} => Made(disk.bolted)
        /\ b.pc = "end" => Made(disk.exe) /\ disk.exe.bolted = b.bolt

BuildInv == Shapes /\ EmissionInv /\ KeysInv /\ PchInv /\ MemoInv /\ WorkInv /\ ImagesInv /\ ArtifactsExact

----------------
(* None, the process and the frames *)

LEMMA Apart ==
    ASSUME NoneApart
    PROVE  (\A x, y : <<x, y>> # None) /\ (\A x, y : [image |-> x, run |-> y] # None) /\ (\A x, y, z : [id |-> x, h |-> y, r |-> z] # None)
<1>1. \A x, y : Whole(<<x, y>>)
  BY DEF Whole
<1>2. \A x, y : Whole([image |-> x, run |-> y])
  BY DEF Whole
<1>3. \A x, y, z : Whole([id |-> x, h |-> y, r |-> z])
  BY DEF Whole
<1>4. QED
  BY <1>1, <1>2, <1>3, Zenon DEF NoneApart

LEMMA ProcessWorks ==
    ASSUME NEW x
    PROVE  (DOMAIN x = ProcessFields => x # Idle) /\ (x.pc # "idle" => x # Idle)
BY DEF ProcessFields, Idle

\* What a step leaves alone.
KeepsB(S) == DOMAIN b' = ProcessFields /\ \A f \in ProcessFields \ S : b'[f] = b[f]
KeepsDisk(S) == DOMAIN disk' = DiskFields /\ \A f \in DiskFields \ S : disk'[f] = disk[f]
KeepsTold == DOMAIN told' = DOMAIN told /\ told'.builds = told.builds /\ told'.last = told.last

LEMMA FlagsKept ==
    ASSUME world' = world
    PROVE  Flags' = Flags /\ PchFlags' = PchFlags
BY DEF Flags, PchFlags, cxxFlags, ltoMode

LEMMA RightKept ==
    ASSUME world' = world, disk'.files = disk.files, disk'.profile = disk.profile
    PROVE  \A o, u, v : Right(o, u, v)' <=> Right(o, u, v)
BY FlagsKept DEF Right

LEMMA ToldKept ==
    ASSUME told'.last = told.last, ArtifactsExact
    PROVE  ArtifactsExact'
BY DEF ArtifactsExact, ExeIsFresh, OneEmission, ProfileMatches

LEMMA EmissionKept ==
    ASSUME Shapes, EmissionInv, world' = world, disk'.files = disk.files, Building,
           disk'.report.gen = disk.report.gen, disk'.report.dist = disk.report.dist,
           b'.pc \notin {"compile", "emit"}, b'.units = b.units
    PROVE  EmissionInv'
BY DEF EmissionInv, Emission, Building, Emitting, Working

LEMMA KeysKept ==
    ASSUME Shapes, KeysInv, world' = world, disk'.files = disk.files, disk'.profile = disk.profile, disk'.obj = disk.obj,
           disk'.objKey = disk.objKey, told'.builds = told.builds, Working, b'.variant = b.variant
    PROVE  KeysInv'
<1>1. Flags' = Flags
  BY FlagsKept
<1>2. QED
  <2> SUFFICES ASSUME NEW u \in Units, NEW s \in Slots, disk.objKey[<<u, s>>] # None
               PROVE  KeyOK(disk.objKey[<<u, s>>], disk.obj[<<u, s>>], u, s)'
    BY DEF KeysInv
  <2>1. KeyOK(disk.objKey[<<u, s>>], disk.obj[<<u, s>>], u, s)
    BY DEF KeysInv
  <2>2. QED
    BY <1>1, <2>1 DEF KeyOK, Right, Working

LEMMA PchKept ==
    ASSUME Shapes, PchInv, world' = world, disk'.files = disk.files, disk'.pch = disk.pch, disk'.pchObj = disk.pchObj,
           disk'.pchKey = disk.pchKey, b'.variant = b.variant, b'.prefix = b.prefix, Compiling' => Compiling
    PROVE  PchInv'
<1>1. PchFlags' = PchFlags
  BY FlagsKept
<1>2. QED
  BY <1>1 DEF PchInv, RightPch

LEMMA MemoKept ==
    ASSUME Shapes, MemoInv, Working, world' = world, disk'.files = disk.files,
           b'.variant = b.variant, b'.prefix = b.prefix, b'.memo = b.memo, b'.pc = "units" => b.pc = "units"
    PROVE  MemoInv'
BY DEF MemoInv, Working

LEMMA ImagesKept ==
    ASSUME Shapes, ImagesInv, Working, world' = world, disk'.files = disk.files, disk'.profile = disk.profile,
           disk'.inst = disk.inst, disk'.exe = disk.exe, disk'.bolted = disk.bolted, told'.builds = told.builds,
           b'.variant = b.variant, b'.plan = b.plan, b'.units = b.units, b'.bolt = b.bolt, b'.pc = b.pc
    PROVE  ImagesInv'
<1>1. Flags' = Flags /\ PchFlags' = PchFlags
  BY FlagsKept
<1>2. QED
  BY <1>1 DEF ImagesInv, Made, Parts, Right, RightPch, Working

LEMMA WorkKept ==
    ASSUME Shapes, WorkInv, Working, world' = world, disk'.files = disk.files, disk'.profile = disk.profile,
           disk'.obj = disk.obj, disk'.objKey = disk.objKey, b'.pc = b.pc, b'.variant = b.variant, b'.units = b.units,
           b'.queue = b.queue, b'.work = b.work, b'.done = b.done, b.prefix = "ok" => b'.prefix = "ok"
    PROVE  WorkInv'
<1>1. Flags' = Flags
  BY FlagsKept
<1>2. QED
  BY <1>1 DEF WorkInv, JobOK, Busy, Place, Right, Working

\* A process that has ended leaves its files.
LEMMA Stopped ==
    ASSUME Shapes, EmissionInv, KeysInv, PchInv, b' = Idle, world' = world \/ b = Idle, KeepsDisk({"report"}),
           DOMAIN disk'.report = {"gen", "dist", "linked"},
           disk'.report.gen = None \/ (disk'.report.gen = disk.report.gen /\ disk'.report.dist = disk.report.dist),
           told'.builds = told.builds \/ told'.builds = told.builds + 1, DOMAIN told' = DOMAIN told,
           DOMAIN world' = WorldFields, \E s \in Settings : world'.app = s.app
    PROVE  Shapes' /\ EmissionInv' /\ KeysInv' /\ PchInv' /\ MemoInv' /\ WorkInv' /\ ImagesInv'
<1>1. ~Working' /\ ~Emitting' /\ ~Building' /\ ~Compiling'
  BY DEF Working, Emitting, Building, Compiling
<1>2. /\ disk'.files = disk.files /\ disk'.obj = disk.obj /\ disk'.objKey = disk.objKey /\ disk'.pch = disk.pch
      /\ disk'.pchObj = disk.pchObj /\ disk'.pchKey = disk.pchKey
  BY DEF KeepsDisk, DiskFields
<1>3. Shapes'
  BY <1>1, <1>2 DEF Shapes, KeepsDisk
<1>4. EmissionInv'
  BY <1>1, <1>2 DEF EmissionInv, Emission
<1>5. KeysInv'
  <2> SUFFICES ASSUME NEW u \in Units, NEW s \in Slots, disk.objKey[<<u, s>>] # None
               PROVE  KeyOK(disk.objKey[<<u, s>>], disk.obj[<<u, s>>], u, s)'
    BY <1>2 DEF KeysInv
  <2>1. KeyOK(disk.objKey[<<u, s>>], disk.obj[<<u, s>>], u, s)
    BY DEF KeysInv
  <2>2. QED
    BY <1>1, <1>2, <2>1 DEF Shapes, KeyOK
<1>6. PchInv'
  BY <1>1, <1>2 DEF PchInv
<1>7. QED
  BY <1>1, <1>3, <1>4, <1>5, <1>6 DEF MemoInv, WorkInv, ImagesInv

----------------
(* The emission *)

LEMMA StartStep ==
    ASSUME BuildInv, NoneApart, NEW kind, NEW plan \in Plans, NEW bolt \in BOOLEAN, Start(kind, plan, bolt)
    PROVE  BuildInv'
<1> USE DEF BuildInv
<1>1. /\ b' = Process(kind, plan, bolt) /\ world' = world /\ KeepsDisk({"report"}) /\ disk'.report = Fresh
      /\ DOMAIN told' = DOMAIN told /\ told'.builds = told.builds + 1 /\ told'.last = told.last /\ b = Idle
  BY DEF Start, Shapes, KeepsDisk, DiskFields
<1>2. /\ DOMAIN b' = ProcessFields /\ b'.pc = "compile" /\ b'.plan = plan /\ b'.bolt = bolt /\ b'.variant = None
      /\ b'.units = {} /\ b'.memo = <<>> /\ b'.work = [w \in 1 .. Jobs |-> Idle] /\ b'.prefix = None /\ b'.done = <<>>
  BY <1>1 DEF Process, ProcessFields
<1>3. disk'.report.gen = None /\ DOMAIN disk'.report = {"gen", "dist", "linked"}
  BY <1>1 DEF Fresh
<1>4. /\ disk'.files = disk.files /\ disk'.obj = disk.obj /\ disk'.objKey = disk.objKey /\ disk'.pch = disk.pch
      /\ disk'.pchObj = disk.pchObj /\ disk'.pchKey = disk.pchKey
  BY <1>1 DEF KeepsDisk, DiskFields
<1>5. Shapes'
  <2>1. b'.work \in [1 .. Jobs -> Worker] /\ b'.done \in Seq(Units \X BOOLEAN)
    BY <1>2 DEF Worker
  <2>2. Stages'
    BY <1>2 DEF Stages
  <2>3. QED
    BY <1>1, <1>2, <1>3, <1>4, <2>1, <2>2 DEF Shapes, KeepsDisk
<1>6. EmissionInv'
  BY <1>2, <1>3 DEF EmissionInv, Emitting, Building
<1>7. KeysInv'
  <2> SUFFICES ASSUME NEW u \in Units, NEW s \in Slots, disk.objKey[<<u, s>>] # None
               PROVE  KeyOK(disk.objKey[<<u, s>>], disk.obj[<<u, s>>], u, s)'
    BY <1>4 DEF KeysInv
  <2>1. KeyOK(disk.objKey[<<u, s>>], disk.obj[<<u, s>>], u, s)
    BY DEF KeysInv
  <2>2. QED
    BY <1>1, <1>4, <2>1 DEF Shapes, KeyOK
<1>8. PchInv'
  BY <1>2, <1>4 DEF PchInv, Compiling
<1>9. MemoInv' /\ WorkInv' /\ ImagesInv'
  <2>1. None # "gen" /\ None # "use"
    BY DEF NoneApart, Words
  <2>2. DOMAIN b'.memo = {}
    BY <1>2
  <2>3. QED
    BY <1>2, <2>1, <2>2 DEF MemoInv, WorkInv, ImagesInv
<1>10. QED
  BY <1>1, <1>5, <1>6, <1>7, <1>8, <1>9, ToldKept

LEMMA LinkOnlyStep ==
    ASSUME BuildInv, NoneApart, NEW plan \in Plans, NEW bolt \in BOOLEAN, LinkOnly(plan, bolt)
    PROVE  BuildInv'
<1> USE DEF BuildInv
<1>1. /\ world' = world /\ b = Idle
      /\ DOMAIN told' = DOMAIN told /\ told'.builds = told.builds + 1 /\ told'.last = told.last
  BY DEF LinkOnly, Shapes
<1>2. CASE \E report : Exit(report) /\ report \in {Fresh, disk.report}
  <2>1. PICK report : Exit(report) /\ report \in {Fresh, disk.report}
    BY <1>2
  <2>2. /\ b' = Idle /\ KeepsDisk({"report"}) /\ disk'.report = report
    BY <2>1 DEF Exit, Shapes, KeepsDisk, DiskFields
  <2>3. /\ DOMAIN report = {"gen", "dist", "linked"}
        /\ report.gen = None \/ (report.gen = disk.report.gen /\ report.dist = disk.report.dist)
    <3>1. CASE report = Fresh
      BY <3>1 DEF Fresh
    <3>2. CASE report = disk.report
      BY <3>2 DEF Shapes
    <3>3. QED
      BY <2>1, <3>1, <3>2
  <2>4. QED
    BY <1>1, <2>2, <2>3, Stopped, ToldKept DEF Shapes
<1>3. CASE ~\E report : Exit(report) /\ report \in {Fresh, disk.report}
  <2>1. /\ Linkable(disk.report) /\ disk' = disk
        /\ b' = [Process("link", plan, bolt) EXCEPT !.pc = "build", !.units = disk.report.gen \cap Units]
    BY <1>3 DEF LinkOnly
  <2>2. /\ DOMAIN b' = ProcessFields /\ b'.pc = "build" /\ b'.plan = plan /\ b'.bolt = bolt /\ b'.variant = None
        /\ b'.units = disk.report.gen \cap Units /\ b'.memo = <<>> /\ b'.work = [w \in 1 .. Jobs |-> Idle]
        /\ b'.prefix = None /\ b'.done = <<>>
    BY <2>1 DEF Process, ProcessFields
  <2>3. Shapes'
    <3>1. b'.work \in [1 .. Jobs -> Worker] /\ b'.done \in Seq(Units \X BOOLEAN)
      BY <2>2 DEF Worker
    <3>2. Stages'
      BY <2>2 DEF Stages
    <3>3. QED
      BY <1>1, <2>1, <2>2, <3>1, <3>2 DEF Shapes
  <2>4. EmissionInv'
    <3>1. PICK s \in Settings : /\ disk.report.gen = DOMAIN s.app
                                /\ \A n \in disk.report.gen : disk.files[n] = <<s.app[n], world.dist>>
      BY <2>1 DEF EmissionInv, Emission, Linkable
    <3>2. DOMAIN s.app \cap Units = b'.units /\ \A u \in b'.units : disk.files[u] = <<s.app[u], world.dist>>
      BY <2>2, <3>1
    <3>3. Emission(disk.report.gen, disk.report.dist)'
      BY <2>1, <3>1 DEF Emission, Linkable
    <3>4. QED
      BY <1>1, <2>1, <2>2, <3>2, <3>3 DEF EmissionInv, Emitting, Building
  <2>5. KeysInv'
    <3> SUFFICES ASSUME NEW u \in Units, NEW s \in Slots, disk.objKey[<<u, s>>] # None
                 PROVE  KeyOK(disk.objKey[<<u, s>>], disk.obj[<<u, s>>], u, s)'
      BY <2>1 DEF KeysInv
    <3>1. KeyOK(disk.objKey[<<u, s>>], disk.obj[<<u, s>>], u, s)
      BY DEF KeysInv
    <3>2. QED
      BY <1>1, <2>1, <3>1 DEF Shapes, KeyOK
  <2>6. PchInv'
    BY <2>1, <2>2 DEF PchInv, Compiling
  <2>7. MemoInv' /\ WorkInv' /\ ImagesInv'
    <3>1. None # "gen" /\ None # "use"
      BY DEF NoneApart, Words
    <3>2. DOMAIN b'.memo = {}
      BY <2>2
    <3>3. QED
      BY <2>2, <3>1, <3>2 DEF MemoInv, WorkInv, ImagesInv
  <2>8. QED
    BY <1>1, <2>3, <2>4, <2>5, <2>6, <2>7, ToldKept
<1>4. QED
  BY <1>2, <1>3

LEMMA CompileStep ==
    ASSUME BuildInv, NoneApart, Compile
    PROVE  BuildInv'
<1> USE DEF BuildInv
<1>1. b.pc = "compile" /\ Working /\ world' = world /\ disk' = disk /\ KeepsTold
  BY ProcessWorks DEF Compile, Working, Shapes, KeepsTold
<1>2. CASE b' = Idle
  BY <1>1, <1>2, Stopped, ToldKept DEF KeepsTold, KeepsDisk, Shapes
<1>3. CASE b' = [b EXCEPT !.pc = "emit", !.queue = Emitted]
  <2>1. KeepsB({"pc", "queue"}) /\ b'.pc = "emit" /\ b'.queue = Emitted
    BY <1>1, <1>3 DEF Shapes, KeepsB, ProcessFields
  <2>2. /\ b'.plan = b.plan /\ b'.bolt = b.bolt /\ b'.variant = b.variant /\ b'.units = b.units /\ b'.memo = b.memo
        /\ b'.work = b.work /\ b'.prefix = b.prefix /\ b'.done = b.done /\ DOMAIN b' = ProcessFields
    BY <2>1 DEF KeepsB, ProcessFields
  <2>3. b.variant = None /\ b.plan \in Plans
    BY <1>1 DEF Shapes, Stages
  <2>4. Shapes'
    BY <1>1, <2>1, <2>2, <2>3 DEF Shapes, Stages, KeepsTold
  <2>5. EmissionInv'
    <3>1. disk.report.gen = None
      BY <1>1 DEF EmissionInv, Emitting
    <3>2. DOMAIN b'.queue = Names /\ \A n \in Names : b'.queue[n] = IF n \in DOMAIN world.app THEN <<world.app[n], world.dist>> ELSE None
      BY <2>1 DEF Emitted
    <3>3. DOMAIN world.app \subseteq Names
      BY SettingsAssumption DEF Shapes
    <3>4. QED
      BY <1>1, <2>1, <3>1, <3>2, <3>3 DEF EmissionInv, Building
  <2>6. KeysInv'
    BY <1>1, <2>2, KeysKept DEF KeepsTold
  <2>7. PchInv'
    BY <1>1, <2>1, <2>2, PchKept DEF Compiling
  <2>8. MemoInv'
    BY <1>1, <2>1, <2>2, MemoKept
  <2>9. WorkInv' /\ ImagesInv'
    <3>1. None # "gen" /\ None # "use"
      BY DEF NoneApart, Words
    <3>2. QED
      BY <2>1, <2>2, <2>3, <3>1 DEF WorkInv, ImagesInv
  <2>10. QED
    BY <1>1, <2>4, <2>5, <2>6, <2>7, <2>8, <2>9, ToldKept DEF KeepsTold
<1>4. QED
  BY <1>2, <1>3 DEF Compile

LEMMA EmitFileStep ==
    ASSUME BuildInv, NoneApart, EmitFile
    PROVE  BuildInv'
<1> USE DEF BuildInv
<1>1. b.pc = "emit" /\ Working /\ world' = world /\ told' = told
  BY ProcessWorks DEF EmitFile, Working
<1>2. PICK n \in Names : /\ b.queue[n] # None /\ disk' = [disk EXCEPT !.files[n] = b.queue[n]]
                         /\ b' = [b EXCEPT !.queue[n] = None]
  BY DEF EmitFile
<1>3. /\ KeepsB({"queue"}) /\ b'.queue = [b.queue EXCEPT ![n] = None]
      /\ KeepsDisk({"files"}) /\ disk'.files = [disk.files EXCEPT ![n] = b.queue[n]]
  BY <1>1, <1>2 DEF Shapes, KeepsB, KeepsDisk, ProcessFields, DiskFields
<1>4. /\ b'.pc = b.pc /\ b'.plan = b.plan /\ b'.bolt = b.bolt /\ b'.variant = b.variant /\ b'.units = b.units
      /\ b'.memo = b.memo /\ b'.work = b.work /\ b'.prefix = b.prefix /\ b'.done = b.done /\ DOMAIN b' = ProcessFields
  BY <1>3 DEF KeepsB, ProcessFields
<1>5. /\ disk'.obj = disk.obj /\ disk'.objKey = disk.objKey /\ disk'.pch = disk.pch /\ disk'.pchObj = disk.pchObj
      /\ disk'.pchKey = disk.pchKey /\ disk'.report = disk.report /\ DOMAIN disk' = DiskFields
  BY <1>3 DEF KeepsDisk, DiskFields
<1>6. b.variant = None /\ b.plan \in Plans
  BY <1>1 DEF Shapes, Stages
<1>7. Shapes'
  <2>1. Stages'
    BY <1>1, <1>4, <1>6 DEF Stages
  <2>2. QED
    BY <1>1, <1>3, <1>4, <1>5, <2>1 DEF Shapes
<1>8. EmissionInv'
  <2>1. disk.report.gen = None /\ DOMAIN b.queue = Names
    BY <1>1 DEF EmissionInv, Emitting
  <2>2. n \in DOMAIN world.app /\ b.queue[n] = <<world.app[n], world.dist>>
    BY <1>1, <1>2 DEF EmissionInv
  <2>3. DOMAIN world.app \subseteq Names
    BY SettingsAssumption DEF Shapes
  <2>4. \A m \in Names : m \notin DOMAIN world.app => b'.queue[m] = None
    BY <1>1, <1>3, <2>1, <2>2 DEF EmissionInv
  <2>5. ASSUME NEW m \in DOMAIN world.app
        PROVE  \/ b'.queue[m] = <<world.app[m], world.dist>>
               \/ b'.queue[m] = None /\ disk'.files[m] = <<world.app[m], world.dist>>
    BY <1>1, <1>3, <2>1, <2>2, <2>3 DEF EmissionInv, Shapes
  <2>6. QED
    BY <1>1, <1>3, <1>4, <1>5, <2>1, <2>4, <2>5 DEF EmissionInv, Building, Emitting
<1>9. KeysInv'
  <2> SUFFICES ASSUME NEW u \in Units, NEW s \in Slots, disk.objKey[<<u, s>>] # None
               PROVE  KeyOK(disk.objKey[<<u, s>>], disk.obj[<<u, s>>], u, s)'
    BY <1>5 DEF KeysInv
  <2>1. KeyOK(disk.objKey[<<u, s>>], disk.obj[<<u, s>>], u, s)
    BY DEF KeysInv
  <2>2. None # "use"
    BY DEF NoneApart, Words
  <2>3. QED
    BY <1>1, <1>5, <1>6, <2>1, <2>2 DEF Shapes, KeyOK
<1>10. PchInv'
  BY <1>1, <1>4, <1>5 DEF PchInv, Compiling
<1>11. MemoInv' /\ WorkInv' /\ ImagesInv'
  <2>1. None # "gen" /\ None # "use"
    BY DEF NoneApart, Words
  <2>2. DOMAIN b.memo = {}
    BY <1>1, <1>6 DEF MemoInv
  <2>3. QED
    BY <1>1, <1>4, <1>6, <2>1, <2>2 DEF MemoInv, WorkInv, ImagesInv
<1>12. QED
  BY <1>1, <1>7, <1>8, <1>9, <1>10, <1>11, ToldKept

LEMMA EmitDoneStep ==
    ASSUME BuildInv, NoneApart, EmitDone
    PROVE  BuildInv'
<1> USE DEF BuildInv
<1>1. b.pc = "emit" /\ Working /\ world' = world /\ told' = told
  BY ProcessWorks DEF EmitDone, Working
<1>2. /\ DOMAIN disk' = DiskFields
      /\ disk'.files = [n \in Names |-> IF n \in b.stale \ Generated THEN None ELSE disk.files[n]]
      /\ disk'.report = [gen |-> Generated, dist |-> world.dist, linked |-> FALSE]
      /\ disk'.obj = disk.obj /\ disk'.objKey = disk.objKey /\ disk'.pch = disk.pch /\ disk'.pchObj = disk.pchObj
      /\ disk'.pchKey = disk.pchKey
  BY DEF EmitDone, Shapes, DiskFields
<1>3. b.variant = None /\ b.plan \in Plans
  BY <1>1 DEF Shapes, Stages
<1>4. PICK s \in Settings : world.app = s.app
  BY DEF Shapes
<1>5. Generated = DOMAIN s.app /\ \A n \in Generated : disk'.files[n] = <<s.app[n], world.dist>>
  <2>1. DOMAIN world.app \subseteq Names
    BY <1>4, SettingsAssumption
  <2>2. \A n \in DOMAIN world.app : disk.files[n] = <<world.app[n], world.dist>>
    BY <1>1, <2>1, Apart DEF EmissionInv, EmitDone
  <2>3. QED
    BY <1>2, <1>4, <2>1, <2>2 DEF Generated
<1>6. Emission(disk.report.gen, disk.report.dist)'
  BY <1>2, <1>5 DEF Emission
<1>7. KeysInv'
  <2> SUFFICES ASSUME NEW u \in Units, NEW t \in Slots, disk.objKey[<<u, t>>] # None
               PROVE  KeyOK(disk.objKey[<<u, t>>], disk.obj[<<u, t>>], u, t)'
    BY <1>2 DEF KeysInv
  <2>1. KeyOK(disk.objKey[<<u, t>>], disk.obj[<<u, t>>], u, t)
    BY DEF KeysInv
  <2>2. None # "use"
    BY DEF NoneApart, Words
  <2>3. QED
    BY <1>1, <1>2, <1>3, <2>1, <2>2 DEF Shapes, KeyOK
<1>8. CASE b.kind = "emit"
  <2>1. ~Working' /\ ~Emitting' /\ ~Building' /\ ~Compiling'
    BY <1>8 DEF EmitDone, Working, Emitting, Building, Compiling
  <2>2. Shapes'
    BY <1>1, <1>2, <2>1 DEF Shapes
  <2>3. EmissionInv' /\ PchInv' /\ MemoInv' /\ WorkInv' /\ ImagesInv'
    BY <1>1, <1>2, <1>6, <2>1 DEF EmissionInv, PchInv, MemoInv, WorkInv, ImagesInv
  <2>4. QED
    BY <1>1, <1>7, <2>2, <2>3, ToldKept
<1>9. CASE b.kind # "emit"
  <2>1. /\ KeepsB({"pc", "units"}) /\ b'.pc = "build" /\ b'.units = Generated \cap Units
    BY <1>1, <1>9 DEF EmitDone, Shapes, KeepsB, ProcessFields
  <2>2. /\ b'.plan = b.plan /\ b'.bolt = b.bolt /\ b'.variant = b.variant
        /\ b'.memo = b.memo /\ b'.work = b.work /\ b'.prefix = b.prefix /\ b'.done = b.done /\ DOMAIN b' = ProcessFields
    BY <2>1 DEF KeepsB, ProcessFields
  <2>3. Shapes'
    <3>1. Stages'
      BY <1>3, <2>1, <2>2 DEF Stages
    <3>2. QED
      BY <1>1, <1>2, <2>1, <2>2, <3>1 DEF Shapes
  <2>4. EmissionInv'
    <3>1. DOMAIN s.app \cap Units = b'.units /\ \A u \in b'.units : disk'.files[u] = <<s.app[u], world'.dist>>
      BY <1>1, <1>5, <2>1
    <3>2. QED
      BY <1>6, <2>1, <3>1 DEF EmissionInv, Emitting, Building
  <2>5. PchInv'
    BY <1>2, <2>1 DEF PchInv, Compiling
  <2>6. MemoInv' /\ WorkInv' /\ ImagesInv'
    <3>1. None # "gen" /\ None # "use"
      BY DEF NoneApart, Words
    <3>2. DOMAIN b.memo = {}
      BY <1>1, <1>3 DEF MemoInv
    <3>3. QED
      BY <1>3, <2>1, <2>2, <3>1, <3>2 DEF MemoInv, WorkInv, ImagesInv
  <2>7. QED
    BY <1>1, <1>7, <2>3, <2>4, <2>5, <2>6, ToldKept
<1>10. QED
  BY <1>8, <1>9

----------------
(* The links of a build and the training run *)

\* A process that fails keeps its report, or says that it has not linked.
LEMMA ExitStep ==
    ASSUME BuildInv, NEW report, report \in {disk.report, Failed}, Exit(report), KeepsTold, world' = world
    PROVE  BuildInv'
<1> USE DEF BuildInv
<1>1. b' = Idle /\ KeepsDisk({"report"}) /\ disk'.report = report
  BY DEF Exit, Shapes, KeepsDisk, DiskFields
<1>2. DOMAIN report = {"gen", "dist", "linked"} /\ report.gen = disk.report.gen /\ report.dist = disk.report.dist
  <2>1. CASE report = disk.report
    BY <2>1 DEF Shapes
  <2>2. CASE report = Failed
    BY <2>2 DEF Shapes, Failed
  <2>3. QED
    BY <2>1, <2>2
<1>3. QED
  BY <1>1, <1>2, Stopped, ToldKept DEF Shapes, KeepsTold

LEMMA PlanSteps ==
    /\ Head(<<"plain">>) = "plain" /\ Tail(<<"plain">>) = <<>>
    /\ Head(<<"gen", "train", "use">>) = "gen" /\ Tail(<<"gen", "train", "use">>) = <<"train", "use">>
    /\ Head(<<"train", "use">>) = "train" /\ Tail(<<"train", "use">>) = <<"use">>
    /\ Head(<<"use">>) = "use" /\ Tail(<<"use">>) = <<>>
OBVIOUS

LEMMA BeginLinkStep ==
    ASSUME BuildInv, NoneApart, BeginLink
    PROVE  BuildInv'
<1> USE DEF BuildInv
<1>1. b.pc = "build" /\ Working /\ world' = world /\ told' = told /\ b.plan # <<>> /\ Head(b.plan) # "train"
  BY ProcessWorks DEF BeginLink, Working
<1>2. CASE Exit(disk.report)
  BY <1>1, <1>2, ExitStep DEF KeepsTold
<1>3. CASE ~Exit(disk.report)
  <2> DEFINE v == Head(b.plan)
  <2>1. /\ b' = Begun(v) /\ disk' = IF v = "gen" THEN [disk EXCEPT !.profile = None] ELSE disk
    BY <1>3 DEF BeginLink
  <2>2. /\ \/ b.variant = None /\ v = "plain" /\ Tail(b.plan) = <<>>
           \/ b.variant = None /\ v = "gen" /\ Tail(b.plan) = <<"train", "use">>
           \/ b.variant = "gen" /\ b.plan = <<"use">> /\ v = "use" /\ Tail(b.plan) = <<>>
    <3>1. \/ b.variant = None /\ b.plan = <<"plain">>
          \/ b.variant = None /\ b.plan = <<"gen", "train", "use">>
          \/ b.variant = "gen" /\ b.plan = <<"train", "use">>
          \/ b.variant = "gen" /\ b.plan = <<"use">>
      BY <1>1 DEF Shapes, Stages, Plans
    <3>2. QED
      BY <1>1, <3>1, PlanSteps, Zenon
  <2> HIDE DEF v
  <2>3. /\ DOMAIN b' = ProcessFields /\ b'.bolt = b.bolt /\ b'.units = b.units /\ b'.memo = b.memo
        /\ b'.pc = (IF Cardinality(b.units) > 1 THEN "units" ELSE "link") /\ b'.plan = Tail(b.plan) /\ b'.variant = v
        /\ b'.done = <<>> /\ b'.queue = (IF Cardinality(b.units) > 1 THEN b.units ELSE {})
        /\ b'.work = [w \in 1 .. Jobs |-> Idle] /\ b'.prefix \in {"start", None}
    BY <1>1, <2>1 DEF Begun, Shapes, ProcessFields
  <2>4. /\ KeepsDisk({"profile"}) /\ disk'.profile = IF v = "gen" THEN None ELSE disk.profile
    BY <2>1 DEF Shapes, KeepsDisk, DiskFields
  <2>5. /\ DOMAIN disk' = DiskFields /\ disk'.files = disk.files /\ disk'.obj = disk.obj /\ disk'.objKey = disk.objKey
        /\ disk'.pch = disk.pch /\ disk'.pchObj = disk.pchObj /\ disk'.pchKey = disk.pchKey /\ disk'.report = disk.report
    BY <2>4 DEF KeepsDisk, DiskFields
  <2>6. None \notin {"plain", "gen", "use", "start", "pch", "object", "key", "ok", "failed"}
    BY DEF NoneApart, Words
  <2>7. Shapes'
    <3>1. b'.work \in [1 .. Jobs -> Worker] /\ b'.done \in Seq(Units \X BOOLEAN)
      BY <2>3 DEF Worker
    <3>2. Stages'
      BY <2>2, <2>3 DEF Stages
    <3>3. QED
      BY <1>1, <2>3, <2>5, <3>1, <3>2 DEF Shapes
  <2>8. EmissionInv'
    BY <1>1, <2>3, <2>5, EmissionKept DEF Building
  <2>9. KeysInv'
    <3> SUFFICES ASSUME NEW u \in Units, NEW s \in Slots, disk.objKey[<<u, s>>] # None
                 PROVE  KeyOK(disk.objKey[<<u, s>>], disk.obj[<<u, s>>], u, s)'
      BY <2>5 DEF KeysInv
    <3>1. KeyOK(disk.objKey[<<u, s>>], disk.obj[<<u, s>>], u, s)
      BY DEF KeysInv
    <3>2. b.variant # "use"
      BY <2>2, <2>6
    <3>3. QED
      BY <1>1, <2>5, <3>1, <3>2 DEF KeyOK
  <2>10. PchInv'
    BY <2>3, <2>5, <2>6 DEF PchInv
  <2>11. MemoInv'
    <3>1. v # "use" => DOMAIN b'.memo = {}
      BY <1>1, <2>2, <2>3 DEF MemoInv
    <3>2. QED
      BY <1>1, <2>2, <2>3, <2>5, <2>6, <3>1 DEF MemoInv
  <2>12. WorkInv'
    <3>1. \A w \in 1 .. Jobs : ~Busy(w)'
      BY <2>3 DEF Busy
    <3>2. Len(b'.done) = 0
      BY <2>3
    <3>3. QED
      BY <2>3, <3>1, <3>2 DEF WorkInv
  <2>13. ImagesInv'
    <3>1. v = "use" => disk.profile # None /\ disk.profile.run = told.builds /\ Parts(disk.profile.image, "gen")
      BY <1>1, <2>2, <2>6 DEF ImagesInv
    <3>2. v = "use" => Parts(disk.profile.image, "gen")'
      BY <1>1, <2>3, <2>4, <2>5, <3>1, FlagsKept DEF Parts, Right
    <3>3. QED
      BY <1>1, <2>2, <2>3, <2>4, <2>6, <3>1, <3>2 DEF ImagesInv
  <2>14. QED
    BY <1>1, <2>7, <2>8, <2>9, <2>10, <2>11, <2>12, <2>13, ToldKept
<1>4. QED
  BY <1>2, <1>3

LEMMA TrainStep ==
    ASSUME BuildInv, NoneApart, Train
    PROVE  BuildInv'
<1> USE DEF BuildInv
<1>1. b.pc = "build" /\ Working /\ world' = world /\ b.plan # <<>> /\ Head(b.plan) = "train" /\ KeepsTold
  BY ProcessWorks DEF Train, Working, KeepsTold, Shapes
<1>2. CASE Exit(disk.report)
  BY <1>1, <1>2, ExitStep
<1>3. CASE ~Exit(disk.report)
  <2>1. /\ b' = [b EXCEPT !.plan = Tail(@)] /\ disk' = [disk EXCEPT !.profile = [image |-> disk.inst, run |-> told.builds]]
        /\ told' = told
    BY <1>3 DEF Train
  <2>2. b.variant = "gen" /\ b.plan = <<"train", "use">> /\ Tail(b.plan) = <<"use">>
    <3>1. \/ b.plan = <<"plain">>
          \/ b.plan = <<"gen", "train", "use">>
          \/ b.variant = "gen" /\ b.plan = <<"train", "use">>
          \/ b.plan = <<"use">>
      BY <1>1 DEF Shapes, Stages, Plans
    <3>2. "plain" # "train" /\ "gen" # "train" /\ "use" # "train"
      OBVIOUS
    <3>3. QED
      BY <1>1, <3>1, <3>2, PlanSteps, Zenon
  <2>3. /\ KeepsB({"plan"}) /\ b'.plan = <<"use">>
    BY <1>1, <2>1, <2>2 DEF Shapes, KeepsB, ProcessFields
  <2>4. /\ DOMAIN b' = ProcessFields /\ b'.pc = b.pc /\ b'.bolt = b.bolt /\ b'.variant = b.variant /\ b'.units = b.units
        /\ b'.memo = b.memo /\ b'.work = b.work /\ b'.prefix = b.prefix /\ b'.done = b.done
    BY <2>3 DEF KeepsB, ProcessFields
  <2>5. KeepsDisk({"profile"}) /\ disk'.profile = [image |-> disk.inst, run |-> told.builds]
    BY <2>1 DEF Shapes, KeepsDisk, DiskFields
  <2>6. /\ DOMAIN disk' = DiskFields /\ disk'.files = disk.files /\ disk'.obj = disk.obj /\ disk'.objKey = disk.objKey
        /\ disk'.pch = disk.pch /\ disk'.pchObj = disk.pchObj /\ disk'.pchKey = disk.pchKey /\ disk'.report = disk.report
    BY <2>5 DEF KeepsDisk, DiskFields
  <2>7. Shapes'
    <3>1. Stages'
      BY <1>1, <2>2, <2>3, <2>4 DEF Stages
    <3>2. QED
      BY <1>1, <2>1, <2>4, <2>6, <3>1 DEF Shapes
  <2>8. EmissionInv'
    BY <1>1, <2>4, <2>6, EmissionKept DEF Building
  <2>9. KeysInv'
    <3> SUFFICES ASSUME NEW u \in Units, NEW s \in Slots, disk.objKey[<<u, s>>] # None
                 PROVE  KeyOK(disk.objKey[<<u, s>>], disk.obj[<<u, s>>], u, s)'
      BY <2>6 DEF KeysInv
    <3>1. KeyOK(disk.objKey[<<u, s>>], disk.obj[<<u, s>>], u, s)
      BY DEF KeysInv
    <3>2. QED
      BY <1>1, <2>1, <2>2, <2>6, <3>1 DEF KeyOK
  <2>10. PchInv'
    BY <1>1, <2>4, <2>6 DEF PchInv, Compiling
  <2>11. MemoInv'
    BY <1>1, <2>4, <2>6, MemoKept
  <2>12. WorkInv'
    BY <1>1, <2>4 DEF WorkInv
  <2>13. ImagesInv'
    <3>1. Parts(disk.inst, "gen")
      BY <1>1, <2>2 DEF ImagesInv
    <3>2. Parts(disk.profile.image, "gen")'
      BY <1>1, <2>4, <2>5, <2>6, <3>1, FlagsKept DEF Parts, Right
    <3>3. disk'.profile # None
      BY <2>5, Apart
    <3>4. QED
      BY <1>1, <2>1, <2>2, <2>3, <2>4, <2>5, <3>2, <3>3 DEF ImagesInv
  <2>14. QED
    BY <1>1, <2>1, <2>7, <2>8, <2>9, <2>10, <2>11, <2>12, <2>13, ToldKept
<1>4. QED
  BY <1>2, <1>3

----------------
(* The precompiled header *)

\* A step of the compiles: what it leaves of the process and of the disk, with the stage it is in.
LEMMA UnitsStage ==
    ASSUME BuildInv, b.pc = "units"
    PROVE  /\ Working /\ Building /\ Compiling /\ DOMAIN b = ProcessFields /\ b.variant \in Variants
           /\ (b.variant = "gen" /\ b.plan = <<"train", "use">>) \/ (b.variant \in {"plain", "use"} /\ b.plan = <<>>)
BY ProcessWorks DEF BuildInv, Shapes, Stages, Variants, Working, Building, Compiling

LEMMA UnitsShapes ==
    ASSUME BuildInv, b.pc = "units", world' = world, KeepsTold, DOMAIN disk' = DiskFields, disk'.files = disk.files,
           DOMAIN disk'.obj = Places, DOMAIN disk'.objKey = Places, disk'.report = disk.report, DOMAIN b' = ProcessFields,
           b'.pc \in {"units", "link"}, b'.plan = b.plan, b'.bolt = b.bolt, b'.variant = b.variant, b'.units = b.units,
           b'.work \in [1 .. Jobs -> Worker], b'.done \in Seq(Units \X BOOLEAN),
           b'.prefix \in {None, "start", "pch", "object", "key", "ok", "failed"}
    PROVE  Shapes'
<1>1. Stages'
  BY UnitsStage DEF Stages
<1>2. QED
  BY <1>1, UnitsStage DEF BuildInv, Shapes, KeepsTold

\* A step of the precompiled header leaves the units, their objects and keys, and what is linked.
LEMMA PrefixStep ==
    ASSUME BuildInv, NoneApart, b.pc = "units", b.prefix \notin {None, "ok", "failed"}, world' = world, KeepsTold,
           KeepsB({"prefix"}), b'.prefix \in {"pch", "object", "key", "ok", "failed"}, KeepsDisk({"pch", "pchObj", "pchKey"}),
           PchInv'
    PROVE  BuildInv'
<1> USE DEF BuildInv
<1>1. /\ b'.pc = b.pc /\ b'.plan = b.plan /\ b'.bolt = b.bolt /\ b'.variant = b.variant /\ b'.units = b.units
      /\ b'.memo = b.memo /\ b'.queue = b.queue /\ b'.work = b.work /\ b'.done = b.done
      /\ DOMAIN b' = ProcessFields
  BY DEF KeepsB, ProcessFields
<1>2. /\ disk'.files = disk.files /\ disk'.obj = disk.obj /\ disk'.objKey = disk.objKey
      /\ disk'.profile = disk.profile /\ disk'.inst = disk.inst /\ disk'.exe = disk.exe
      /\ disk'.bolted = disk.bolted /\ disk'.report = disk.report
      /\ DOMAIN disk' = DiskFields
  BY DEF KeepsDisk, DiskFields
<1>3. Working /\ Building /\ Compiling /\ b.variant \in Variants
  BY UnitsStage
<1>4. Shapes'
  <2>1. /\ b.work \in [1 .. Jobs -> Worker] /\ b.done \in Seq(Units \X BOOLEAN) /\ DOMAIN disk.obj = Places /\ DOMAIN disk.objKey = Places
    BY <1>3 DEF Shapes
  <2>2. QED
    BY <1>1, <1>2, <2>1, UnitsShapes
<1>5. EmissionInv'
  BY <1>1, <1>2, <1>3, EmissionKept
<1>6. KeysInv'
  BY <1>1, <1>2, <1>3, KeysKept DEF KeepsTold
<1>7. MemoInv'
  BY <1>1, <1>2, <1>3 DEF MemoInv
<1>8. WorkInv'
  BY <1>1, <1>2, <1>3, WorkKept
<1>9. ImagesInv'
  BY <1>1, <1>2, <1>3, ImagesKept DEF KeepsTold
<1>10. QED
  BY <1>4, <1>5, <1>6, <1>7, <1>8, <1>9, ToldKept DEF KeepsTold

LEMMA PchNow ==
    ASSUME NEW v \in Variants
    PROVE  /\ PchMade(v) = [h |-> disk.files["h"], r |-> world.r, version |-> world.env.version, flags |-> PchFlags[v]]
           /\ PchFlags[v] = cxxFlags("pch", v)
BY DEF PchMade, PchFlags

LEMMA PchStartStep ==
    ASSUME BuildInv, NoneApart, PchStart
    PROVE  BuildInv'
<1> USE DEF BuildInv
<1>1. b.pc = "units" /\ b.prefix = "start" /\ world' = world /\ told' = told
  BY DEF PchStart
<1>2. Working /\ Building /\ Compiling /\ DOMAIN b = ProcessFields /\ b.variant \in Variants
  BY <1>1, UnitsStage
<1>3. None # "start" /\ PchFlags' = PchFlags
  BY <1>1, FlagsKept DEF NoneApart, Words
<1>4. CASE PchCurrent
  <2>1. KeepsB({"prefix"}) /\ b'.prefix = "ok" /\ b'.variant = b.variant /\ disk' = disk
    BY <1>2, <1>4 DEF PchStart, KeepsB, ProcessFields
  <2>2. KeepsDisk({"pch", "pchObj", "pchKey"})
    BY <2>1 DEF Shapes, KeepsDisk
  <2>3. disk.pchKey # None
    BY <1>4, Apart DEF PchCurrent, PchKey
  <2>4. RightPch(disk.pch, b.variant) /\ (world.env.debug => disk.pchObj.of = disk.pch)
    BY <1>2, <1>4, <2>3, PchNow DEF PchInv, PchCurrent, PchKey, RightPch
  <2>5. PchInv'
    BY <1>1, <1>3, <2>1, <2>4 DEF PchInv, RightPch
  <2>6. QED
    BY <1>1, <1>3, <2>1, <2>2, <2>5, PrefixStep DEF KeepsTold
<1>5. CASE ~PchCurrent
  <2>1. KeepsB({"prefix"}) /\ b'.prefix = "pch" /\ KeepsDisk({"pch", "pchObj", "pchKey"}) /\ disk'.pchKey = None
    BY <1>2, <1>5 DEF PchStart, KeepsB, ProcessFields, KeepsDisk, DiskFields, Shapes
  <2>2. PchInv'
    BY <2>1 DEF PchInv
  <2>3. QED
    BY <1>1, <1>3, <2>1, <2>2, PrefixStep DEF KeepsTold
<1>6. QED
  BY <1>4, <1>5

LEMMA PchCompiledStep ==
    ASSUME BuildInv, NoneApart, PchCompiled
    PROVE  BuildInv'
<1> USE DEF BuildInv
<1>1. b.pc = "units" /\ b.prefix = "pch" /\ world' = world /\ told' = told
  BY DEF PchCompiled
<1>2. Working /\ Building /\ Compiling /\ DOMAIN b = ProcessFields /\ b.variant \in Variants
  BY <1>1, UnitsStage
<1>3. None # "pch" /\ PchFlags' = PchFlags
  BY <1>1, FlagsKept DEF NoneApart, Words
<1>4. /\ KeepsB({"prefix"}) /\ b'.prefix \in {"object", "key"} /\ (world.env.debug => b'.prefix = "object")
      /\ b'.variant = b.variant
  BY <1>2 DEF PchCompiled, KeepsB, ProcessFields
<1>5. /\ KeepsDisk({"pch", "pchObj", "pchKey"}) /\ disk'.pch = PchMade(b.variant) /\ disk'.pchKey = disk.pchKey
      /\ disk'.files = disk.files
  BY DEF PchCompiled, KeepsDisk, DiskFields, Shapes
<1>6. disk.pchKey = None
  BY <1>1, <1>2 DEF PchInv
<1>7. PchInv'
  BY <1>1, <1>2, <1>3, <1>4, <1>5, <1>6, PchNow DEF PchInv, RightPch
<1>8. QED
  BY <1>1, <1>3, <1>4, <1>5, <1>7, PrefixStep DEF KeepsTold

LEMMA PchObjectStep ==
    ASSUME BuildInv, NoneApart, PchObjectCompiled
    PROVE  BuildInv'
<1> USE DEF BuildInv
<1>1. b.pc = "units" /\ b.prefix = "object" /\ world' = world /\ told' = told
  BY DEF PchObjectCompiled
<1>2. Working /\ Building /\ Compiling /\ DOMAIN b = ProcessFields /\ b.variant \in Variants
  BY <1>1, UnitsStage
<1>3. None # "object" /\ PchFlags' = PchFlags
  BY <1>1, FlagsKept DEF NoneApart, Words
<1>4. KeepsB({"prefix"}) /\ b'.prefix = "key" /\ b'.variant = b.variant
  BY <1>2 DEF PchObjectCompiled, KeepsB, ProcessFields
<1>5. /\ KeepsDisk({"pch", "pchObj", "pchKey"}) /\ disk'.pch = disk.pch /\ disk'.pchObj.of = disk.pch
      /\ disk'.pchKey = disk.pchKey /\ disk'.files = disk.files
  BY DEF PchObjectCompiled, PchObjMade, KeepsDisk, DiskFields, Shapes
<1>6. disk.pchKey = None /\ RightPch(disk.pch, b.variant)
  BY <1>1, <1>2 DEF PchInv
<1>7. PchInv'
  BY <1>1, <1>2, <1>3, <1>4, <1>5, <1>6 DEF PchInv, RightPch
<1>8. QED
  BY <1>1, <1>3, <1>4, <1>5, <1>7, PrefixStep DEF KeepsTold

LEMMA PchFailsStep ==
    ASSUME BuildInv, NoneApart, PchFails
    PROVE  BuildInv'
<1> USE DEF BuildInv
<1>1. b.pc = "units" /\ b.prefix \in {"pch", "object"} /\ world' = world /\ disk' = disk /\ KeepsTold
  BY DEF PchFails, KeepsTold, Shapes
<1>2. Working /\ Building /\ Compiling /\ DOMAIN b = ProcessFields
  BY <1>1, UnitsStage
<1>3. None # "pch" /\ None # "object"
  BY DEF NoneApart, Words
<1>4. KeepsB({"prefix"}) /\ b'.prefix = "failed"
  BY <1>2 DEF PchFails, KeepsB, ProcessFields
<1>5. KeepsDisk({"pch", "pchObj", "pchKey"})
  BY <1>1 DEF KeepsDisk, Shapes
<1>6. PchInv'
  BY <1>1, <1>4 DEF PchInv
<1>7. QED
  BY <1>1, <1>3, <1>4, <1>5, <1>6, PrefixStep

LEMMA PchKeyedStep ==
    ASSUME BuildInv, NoneApart, PchKeyed
    PROVE  BuildInv'
<1> USE DEF BuildInv
<1>1. b.pc = "units" /\ b.prefix = "key" /\ world' = world /\ told' = told
  BY DEF PchKeyed
<1>2. Working /\ Building /\ Compiling /\ DOMAIN b = ProcessFields /\ b.variant \in Variants
  BY <1>1, UnitsStage
<1>3. None # "key" /\ PchFlags' = PchFlags
  BY <1>1, FlagsKept DEF NoneApart, Words
<1>4. KeepsB({"prefix"}) /\ b'.prefix = "ok" /\ b'.variant = b.variant
  BY <1>2 DEF PchKeyed, KeepsB, ProcessFields
<1>5. /\ KeepsDisk({"pch", "pchObj", "pchKey"}) /\ disk'.pch = disk.pch /\ disk'.pchObj = disk.pchObj
      /\ disk'.pchKey = PchKey /\ disk'.files = disk.files
  BY DEF PchKeyed, KeepsDisk, DiskFields, Shapes
<1>6. RightPch(disk.pch, b.variant) /\ (world.env.debug => disk.pchObj.of = disk.pch)
  BY <1>1, <1>2 DEF PchInv
<1>7. /\ PchKey.h = disk.files["h"] /\ PchKey.r = world.r /\ PchKey.id[1] = world.env.version
      /\ PchKey.id[2] = PchFlags[b.variant] /\ PchKey.id[3] = world.env.debug
  BY <1>2, PchNow DEF PchKey
<1>8. PchInv'
  BY <1>1, <1>3, <1>4, <1>5, <1>6, <1>7 DEF PchInv, RightPch
<1>9. QED
  BY <1>1, <1>3, <1>4, <1>5, <1>8, PrefixStep DEF KeepsTold

----------------
(* The units *)

\* A step of a worker leaves the precompiled header, the emission and what is linked.
LEMMA UnitStep ==
    ASSUME BuildInv, b.pc = "units", world' = world, KeepsTold, KeepsB({"memo", "queue", "work", "done"}),
           KeepsDisk({"obj", "objKey"}), DOMAIN disk'.obj = Places, DOMAIN disk'.objKey = Places,
           b'.work \in [1 .. Jobs -> Worker], b'.done \in Seq(Units \X BOOLEAN), KeysInv', MemoInv', WorkInv'
    PROVE  BuildInv'
<1> USE DEF BuildInv
<1>1. /\ b'.pc = b.pc /\ b'.plan = b.plan /\ b'.bolt = b.bolt /\ b'.variant = b.variant /\ b'.units = b.units
      /\ b'.prefix = b.prefix
      /\ DOMAIN b' = ProcessFields
  BY DEF KeepsB, ProcessFields
<1>2. /\ disk'.files = disk.files /\ disk'.pch = disk.pch /\ disk'.pchObj = disk.pchObj
      /\ disk'.pchKey = disk.pchKey /\ disk'.profile = disk.profile /\ disk'.inst = disk.inst
      /\ disk'.exe = disk.exe /\ disk'.bolted = disk.bolted /\ disk'.report = disk.report
      /\ DOMAIN disk' = DiskFields
  BY DEF KeepsDisk, DiskFields
<1>3. Working /\ Building /\ Compiling
  BY UnitsStage
<1>4. Shapes'
  <2>1. b.prefix \in {None, "start", "pch", "object", "key", "ok", "failed"}
    BY <1>3 DEF Shapes
  <2>2. QED
    BY <1>1, <1>2, <2>1, UnitsShapes
<1>5. EmissionInv'
  BY <1>1, <1>2, <1>3, EmissionKept
<1>6. PchInv'
  BY <1>1, <1>2, <1>3, PchKept
<1>7. ImagesInv'
  BY <1>1, <1>2, <1>3, ImagesKept DEF KeepsTold
<1>8. QED
  BY <1>4, <1>5, <1>6, <1>7, ToldKept DEF KeepsTold

\* The fields that such a step leaves.
LEMMA UnitFields ==
    ASSUME KeepsB({"memo", "queue", "work", "done"}), KeepsDisk({"obj", "objKey"})
    PROVE  /\ b'.pc = b.pc /\ b'.plan = b.plan /\ b'.bolt = b.bolt /\ b'.variant = b.variant /\ b'.units = b.units
           /\ b'.prefix = b.prefix
           /\ disk'.files = disk.files /\ disk'.pch = disk.pch /\ disk'.pchObj = disk.pchObj
           /\ disk'.pchKey = disk.pchKey /\ disk'.profile = disk.profile /\ disk'.inst = disk.inst
           /\ disk'.exe = disk.exe /\ disk'.bolted = disk.bolted /\ disk'.report = disk.report
BY DEF KeepsB, ProcessFields, KeepsDisk, DiskFields

LEMMA WorkerKinds ==
    ASSUME NEW x \in Worker
    PROVE  /\ x.pc = "check" => x # Idle /\ x.unit \in Units
           /\ x.pc \in {"cxx", "key"} => /\ x # Idle /\ x.unit \in Units /\ x.viaPch \in BOOLEAN
                                         /\ x = [pc |-> x.pc, unit |-> x.unit, viaPch |-> x.viaPch]
           /\ x # Idle => x.pc \in {"check", "cxx", "key"}
BY DEF Worker, Idle

\* Taking a unit.
LEMMA TakeStep ==
    ASSUME BuildInv, NoneApart, NEW w \in 1 .. Jobs, Take(w)
    PROVE  BuildInv'
<1> USE DEF BuildInv
<1>1. b.pc = "units" /\ b.work[w] = Idle /\ world' = world /\ disk' = disk /\ told' = told
  BY DEF Take
<1>2. Working /\ DOMAIN b = ProcessFields
  BY <1>1, UnitsStage
<1>3. PICK u \in b.queue : b' = [b EXCEPT !.queue = @ \ {u}, !.work[w] = [pc |-> "check", unit |-> u]]
  BY DEF Take
<1>4. /\ KeepsB({"memo", "queue", "work", "done"}) /\ b'.memo = b.memo /\ b'.done = b.done
      /\ b'.queue = b.queue \ {u} /\ b'.work = [b.work EXCEPT ![w] = [pc |-> "check", unit |-> u]]
  BY <1>2, <1>3 DEF KeepsB, ProcessFields
<1>5. KeepsDisk({"obj", "objKey"})
  BY <1>1 DEF KeepsDisk, Shapes
<1>6. b.work \in [1 .. Jobs -> Worker] /\ b.done \in Seq(Units \X BOOLEAN) /\ b.units \subseteq Units
  BY <1>2 DEF Shapes
<1>7. b.queue \subseteq b.units /\ u \in b.units /\ u \in Units
  BY <1>1, <1>2, <1>6 DEF WorkInv
<1>8. b'.work \in [1 .. Jobs -> Worker] /\ b'.done \in Seq(Units \X BOOLEAN)
  BY <1>4, <1>6, <1>7 DEF Worker
<1>9. KeysInv'
  BY <1>1, <1>2, <1>4, <1>5, UnitFields, KeysKept
<1>10. MemoInv'
  BY <1>1, <1>2, <1>4, <1>5, UnitFields, MemoKept
<1>11. WorkInv'
  <2>1. b'.pc = b.pc /\ b'.variant = b.variant /\ b'.units = b.units /\ b'.prefix = b.prefix /\ Flags' = Flags
    BY <1>1, <1>4, <1>5, UnitFields, FlagsKept
  <2>11. b'.work[w] = [pc |-> "check", unit |-> u] /\ \A y \in 1 .. Jobs : y # w => b'.work[y] = b.work[y]
    BY <1>4, <1>6
  <2>12. b'.work[w].pc = "check" /\ b'.work[w].unit = u
    BY <2>11
  <2>13. \A y \in 1 .. Jobs : Busy(y) => b.work[y].unit # u
    BY <1>1, <1>2 DEF WorkInv, JobOK
  <2>2. ASSUME NEW x \in 1 .. Jobs, Busy(x)'
        PROVE  JobOK(x)'
    <3>1. CASE x = w
      <4>1. \A y \in 1 .. Jobs : Busy(y)' /\ b'.work[y].unit = u => y = w
        BY <2>11, <2>13 DEF Busy
      <4>2. QED
        BY <1>4, <1>7, <2>1, <2>12, <3>1, <4>1 DEF JobOK
    <3>2. CASE x # w
      <4>1. \A y \in 1 .. Jobs : y # w => b'.work[y] = b.work[y]
        BY <2>11
      <4>2. Busy(x) /\ JobOK(x)
        BY <1>1, <1>2, <2>2, <3>2, <4>1 DEF WorkInv, Busy
      <4>3. b'.work[x].unit # u /\ b'.work[w].unit = u /\ b'.work[x] = b.work[x]
        BY <2>11, <2>12, <2>13, <3>2, <4>2
      <4>4. QED
        BY <1>1, <1>4, <2>1, <3>2, <4>1, <4>2, <4>3 DEF JobOK, Busy, Place, Right
    <3>3. QED
      BY <3>1, <3>2
  <2>3. ASSUME NEW q \in b'.units
        PROVE  \/ q \in b'.queue \/ \E x \in 1 .. Jobs : Busy(x)' /\ b'.work[x].unit = q
               \/ \E i \in 1 .. Len(b'.done) : b'.done[i][1] = q
    <3>1. CASE q = u
      <4>1. b'.work[w] = [pc |-> "check", unit |-> u]
        BY <1>4, <1>6
      <4>2. Busy(w)' /\ b'.work[w].unit = q
        BY <3>1, <4>1 DEF Busy, Idle
      <4>3. QED
        BY <4>2
    <3>2. CASE q # u
      <4>1. \/ q \in b.queue \/ \E x \in 1 .. Jobs : Busy(x) /\ b.work[x].unit = q
            \/ \E i \in 1 .. Len(b.done) : b.done[i][1] = q
        BY <1>1, <1>2, <2>1 DEF WorkInv
      <4>2. \A x \in 1 .. Jobs : Busy(x) => x # w /\ b'.work[x] = b.work[x]
        BY <1>1, <1>4, <1>6 DEF Busy
      <4>3. QED
        BY <1>4, <3>2, <4>1, <4>2 DEF Busy
    <3>3. QED
      BY <3>1, <3>2
  <2>4. \A i \in 1 .. Len(b'.done) : b'.done[i][2] => Right(disk.obj[Place(b.done[i][1])], b.done[i][1], b.variant)'
    BY <1>1, <1>2, <1>4, <2>1 DEF WorkInv, Place, Right
  <2>5. QED
    BY <1>1, <1>4, <1>7, <2>1, <2>2, <2>3, <2>4 DEF WorkInv
<1>12. QED
  BY <1>1, <1>4, <1>5, <1>8, <1>9, <1>10, <1>11, UnitStep DEF KeepsTold, Shapes

\* A worker goes on with its unit, or ends it; only that unit's object and key may change.
Goes(w, u, new) ==
    /\ b.pc = "units" /\ Busy(w) /\ u = b.work[w].unit /\ world' = world
    /\ KeepsB({"memo", "queue", "work", "done"}) /\ KeepsDisk({"obj", "objKey"}) /\ b'.queue = b.queue
    /\ b'.work = [b.work EXCEPT ![w] = new]
    /\ \A z \in Units : z # u => /\ disk'.obj[Place(z)] = disk.obj[Place(z)]
                                 /\ disk'.objKey[Place(z)] = disk.objKey[Place(z)]
    /\ disk'.obj[Place(u)] = disk.obj[Place(u)] \/ Right(disk'.obj[Place(u)], u, b.variant)
    /\ new # Idle => /\ new.unit = u /\ b'.done = b.done /\ new.pc \in {"cxx", "key"}
                     /\ disk'.objKey[Place(u)] = None /\ (new.viaPch => b.prefix = "ok" /\ u \in Users)
                     /\ new.pc = "key" => Right(disk'.obj[Place(u)], u, b.variant)
    /\ new = Idle => \E ok \in BOOLEAN : b'.done = Append(b.done, <<u, ok>>) /\ (ok => Right(disk'.obj[Place(u)], u, b.variant))

LEMMA WorkerStep ==
    ASSUME BuildInv, NEW w \in 1 .. Jobs, NEW u, NEW new \in Worker, Goes(w, u, new)
    PROVE  WorkInv' /\ b'.work \in [1 .. Jobs -> Worker] /\ b'.done \in Seq(Units \X BOOLEAN)
<1> SUFFICES ASSUME
           b.pc = "units", Busy(w), u = b.work[w].unit, world' = world,
           KeepsB({"memo", "queue", "work", "done"}), KeepsDisk({"obj", "objKey"}), b'.queue = b.queue,
           b'.work = [b.work EXCEPT ![w] = new],
           \A z \in Units : z # u => /\ disk'.obj[Place(z)] = disk.obj[Place(z)]
                                     /\ disk'.objKey[Place(z)] = disk.objKey[Place(z)],
           disk'.obj[Place(u)] = disk.obj[Place(u)] \/ Right(disk'.obj[Place(u)], u, b.variant),
           new # Idle => /\ new.unit = u /\ b'.done = b.done /\ new.pc \in {"cxx", "key"}
                         /\ disk'.objKey[Place(u)] = None /\ (new.viaPch => b.prefix = "ok" /\ u \in Users)
                         /\ new.pc = "key" => Right(disk'.obj[Place(u)], u, b.variant),
           new = Idle => \E ok \in BOOLEAN : b'.done = Append(b.done, <<u, ok>>) /\ (ok => Right(disk'.obj[Place(u)], u, b.variant))
             PROVE  WorkInv' /\ b'.work \in [1 .. Jobs -> Worker] /\ b'.done \in Seq(Units \X BOOLEAN)
  BY DEF Goes
<1> USE DEF BuildInv
<1>1. /\ Working /\ b.work \in [1 .. Jobs -> Worker] /\ b.done \in Seq(Units \X BOOLEAN) /\ b.units \subseteq Units
  BY UnitsStage DEF Shapes
<1>2. JobOK(w) /\ u \in b.units /\ u \in Units /\ u \notin b.queue
  BY <1>1 DEF WorkInv, JobOK
<1>3. b'.pc = b.pc /\ b'.variant = b.variant /\ b'.units = b.units /\ b'.prefix = b.prefix /\ Flags' = Flags
  BY UnitFields, FlagsKept
<1>4. b'.work \in [1 .. Jobs -> Worker] /\ b'.work[w] = new /\ \A y \in 1 .. Jobs : y # w => b'.work[y] = b.work[y]
  BY <1>1
<1>5. (\A o, z, v : Right(o, z, v)' <=> Right(o, z, v)) /\ (\A z : Place(z)' = Place(z))
  BY <1>3, UnitFields, RightKept DEF Place
<1>6. \A z \in Units : Right(disk.obj[Place(z)], z, b.variant) => Right(disk'.obj[Place(z)], z, b.variant)
  OBVIOUS
<1>7. ASSUME NEW x \in 1 .. Jobs, Busy(x)'
      PROVE  JobOK(x)'
  <2>1. \A y \in 1 .. Jobs : Busy(y)' => Busy(y) /\ b'.work[y].unit = b.work[y].unit
    BY <1>4 DEF Busy
  <2>2. Busy(x) /\ JobOK(x) /\ b'.work[x].unit = b.work[x].unit
    BY <1>1, <1>7, <2>1 DEF WorkInv
  <2>3. \A y \in 1 .. Jobs : Busy(y)' /\ b'.work[y].unit = b'.work[x].unit => y = x
    BY <2>1, <2>2 DEF JobOK
  <2>4. b'.work[x].unit \in b'.units \ b'.queue
    BY <1>3, <2>2 DEF JobOK
  <2>5. CASE x = w
    <3>1. new # Idle /\ b'.work[x] = new
      BY <1>4, <1>7, <2>5 DEF Busy
    <3>2. disk'.objKey[Place(u)] = None /\ Place(u)' = Place(u) /\ (new.viaPch => b'.prefix = "ok" /\ u \in Users)
      BY <1>3, <1>5, <3>1
    <3>3. new.pc = "key" => Right(disk.obj[Place(u)], u, b.variant)'
      BY <1>3, <1>5, <3>1
    <3>4. QED
      BY <1>3, <2>3, <2>4, <2>5, <3>1, <3>2, <3>3 DEF JobOK
  <2>6. CASE x # w
    <3>1. b'.work[x] = b.work[x] /\ b.work[x].unit \in Units /\ b.work[x].unit # u
      BY <1>1, <1>2, <1>4, <2>2, <2>6 DEF JobOK
    <3>2. /\ disk'.obj[Place(b.work[x].unit)] = disk.obj[Place(b.work[x].unit)]
          /\ disk'.objKey[Place(b.work[x].unit)] = disk.objKey[Place(b.work[x].unit)]
      BY <3>1
    <3>3. QED
      BY <1>3, <1>5, <2>2, <2>3, <2>4, <3>1, <3>2 DEF JobOK
  <2>7. QED
    BY <2>5, <2>6
<1>8. /\ b'.done \in Seq(Units \X BOOLEAN)
      /\ \A i \in 1 .. Len(b.done) : i \in 1 .. Len(b'.done) /\ b'.done[i] = b.done[i]
      /\ \A i \in 1 .. Len(b'.done) : \/ i \in 1 .. Len(b.done) /\ b'.done[i] = b.done[i]
                                      \/ b'.done[i][1] = u /\ (b'.done[i][2] => Right(disk'.obj[Place(u)], u, b.variant))
      /\ new = Idle => \E i \in 1 .. Len(b'.done) : b'.done[i][1] = u
  <2>1. CASE new # Idle
    BY <1>1, <2>1
  <2>2. CASE new = Idle
    <3>1. PICK ok \in BOOLEAN : b'.done = Append(b.done, <<u, ok>>) /\ (ok => Right(disk'.obj[Place(u)], u, b.variant))
      BY <2>2
    <3>2. b'.done \in Seq(Units \X BOOLEAN) /\ Len(b'.done) = Len(b.done) + 1 /\ Len(b.done) \in Nat
      BY <1>1, <1>2, <3>1
    <3>3. b'.done[Len(b.done) + 1] = <<u, ok>> /\ \A i \in 1 .. Len(b.done) : b'.done[i] = b.done[i]
      BY <1>1, <3>1
    <3>4. <<u, ok>>[1] = u /\ <<u, ok>>[2] = ok
      OBVIOUS
    <3>5. \A i \in 1 .. Len(b'.done) : i \in 1 .. Len(b.done) \/ i = Len(b.done) + 1
      BY <3>2
    <3>6. Len(b.done) + 1 \in 1 .. Len(b'.done)
      BY <3>2
    <3>7. \A i \in 1 .. Len(b.done) : i \in 1 .. Len(b'.done)
      BY <3>2
    <3>8. b'.done[Len(b.done) + 1][1] = u /\ b'.done[Len(b.done) + 1][2] = ok
      BY <3>3, <3>4
    <3>9. b'.done[Len(b.done) + 1][2] => Right(disk'.obj[Place(u)], u, b.variant)
      BY <3>1, <3>8
    <3>10. QED
      BY <3>2, <3>3, <3>5, <3>6, <3>7, <3>8, <3>9, Zenon
  <2>3. QED
    BY <2>1, <2>2
<1>9. ASSUME NEW q \in b'.units
      PROVE  \/ q \in b'.queue \/ \E x \in 1 .. Jobs : Busy(x)' /\ b'.work[x].unit = q
             \/ \E i \in 1 .. Len(b'.done) : b'.done[i][1] = q
  <2>1. \/ q \in b.queue \/ \E x \in 1 .. Jobs : Busy(x) /\ b.work[x].unit = q
        \/ \E i \in 1 .. Len(b.done) : b.done[i][1] = q
    BY <1>1, <1>3 DEF WorkInv
  <2>2. CASE \E x \in 1 .. Jobs : Busy(x) /\ b.work[x].unit = q
    BY <1>4, <1>8, <2>2 DEF Busy
  <2>3. QED
    BY <1>8, <2>1, <2>2
<1>10. ASSUME NEW i \in 1 .. Len(b'.done), b'.done[i][2]
       PROVE  Right(disk.obj[Place(b.done[i][1])], b.done[i][1], b.variant)'
  <2>1. b'.done[i][1] \in Units
    BY <1>8
  <2>2. Right(disk'.obj[Place(b'.done[i][1])], b'.done[i][1], b.variant)
    BY <1>1, <1>6, <1>8, <1>10, <2>1 DEF WorkInv
  <2>3. QED
    BY <1>3, <1>5, <2>2
<1>11. b'.queue \subseteq b'.units
  BY <1>1, <1>3 DEF WorkInv
<1>12. QED
  BY <1>3, <1>4, <1>7, <1>8, <1>9, <1>10, <1>11 DEF WorkInv

LEMMA ObjectNow ==
    ASSUME NEW u, NEW v \in Variants, NEW pch, pch # None => pch.h = disk.files["h"] /\ pch.r = world.r
    PROVE  Right(Object(u, v, pch), u, v)
<1>1. Flags[v] = cxxFlags("compile", v)
  BY DEF Flags
<1>2. QED
  BY <1>1 DEF Right, Object, ObjectFields, ProfileOf

\* The hashes that a process remembers are those of the files as they are; but in the link that uses a profile it may
\* remember the precompiled header of the instrumented one.
LEMMA MemoSeen ==
    ASSUME BuildInv, NoneApart, b.pc = "units", NEW inputs, inputs \subseteq Names \cup {"r", "pch"}
    PROVE  LET seen == Memo(b.memo, inputs) IN
           /\ DOMAIN seen = DOMAIN b.memo \cup inputs
           /\ \A f \in DOMAIN seen : f \in Names => seen[f] = disk.files[f]
           /\ "r" \in DOMAIN seen => seen["r"] = world.r
           /\ b.variant # "use" /\ b.prefix = "ok" /\ "pch" \in DOMAIN seen =>
                 seen["pch"].h = disk.files["h"] /\ seen["pch"].r = world.r
<1> DEFINE seen == Memo(b.memo, inputs)
<1> USE DEF BuildInv
<1>1. Working /\ Compiling /\ b.variant \in Variants /\ b.variant # None
  BY UnitsStage DEF NoneApart, Words, Variants
<1>2. DOMAIN seen = DOMAIN b.memo \cup inputs
  BY DEF Memo
<1>3. \A f \in DOMAIN seen : seen[f] = IF f \in DOMAIN b.memo THEN b.memo[f] ELSE ContentOf(f)
  BY DEF Memo, fileContentHash
<1>4. /\ \A f \in Names : ContentOf(f) = disk.files[f]
      /\ ContentOf("r") = world.r /\ ContentOf("pch") = disk.pch
  <2>1. \A f : f # "pch" /\ f # "r" => ContentOf(f) = disk.files[f]
    BY DEF ContentOf
  <2>2. ContentOf("r") = world.r /\ ContentOf("pch") = disk.pch
    BY DEF ContentOf
  <2>3. \A f \in Names : f # "pch" /\ f # "r"
    BY DEF Names, Units
  <2>4. QED
    BY <2>1, <2>2, <2>3
<1>5. b.prefix = "ok" => disk.pch.h = disk.files["h"] /\ disk.pch.r = world.r
  BY <1>1 DEF PchInv, RightPch
<1>6. ASSUME NEW f \in DOMAIN seen, f \in Names
      PROVE  seen[f] = disk.files[f]
  BY <1>1, <1>3, <1>4, <1>6 DEF MemoInv
<1>7. "r" \in DOMAIN seen => seen["r"] = world.r
  BY <1>1, <1>3, <1>4 DEF MemoInv
<1>8. b.variant # "use" /\ b.prefix = "ok" /\ "pch" \in DOMAIN seen => seen["pch"].h = disk.files["h"] /\ seen["pch"].r = world.r
  BY <1>1, <1>3, <1>4, <1>5 DEF MemoInv
<1>9. QED
  BY <1>2, <1>6, <1>7, <1>8

LEMMA MemoStep ==
    ASSUME BuildInv, NoneApart, b.pc = "units", NEW inputs, inputs \subseteq Names \cup {"r", "pch"}, world' = world,
           KeepsB({"memo", "queue", "work", "done"}), KeepsDisk({"obj", "objKey"}), b'.memo = Memo(b.memo, inputs),
           "pch" \in inputs => b.prefix \in {None, "ok", "failed"}
    PROVE  MemoInv'
<1> DEFINE seen == Memo(b.memo, inputs)
<1> USE DEF BuildInv
<1>1. Working /\ b.variant # None
  BY UnitsStage DEF NoneApart, Words, Variants
<1>2. /\ DOMAIN seen = DOMAIN b.memo \cup inputs
      /\ \A f \in DOMAIN seen : f \in Names => seen[f] = disk.files[f]
      /\ "r" \in DOMAIN seen => seen["r"] = world.r
      /\ b.variant # "use" /\ b.prefix = "ok" /\ "pch" \in DOMAIN seen => seen["pch"].h = disk.files["h"] /\ seen["pch"].r = world.r
  BY MemoSeen
<1> HIDE DEF seen
<1>3. b'.memo = seen /\ b'.pc = b.pc /\ b'.variant = b.variant /\ b'.prefix = b.prefix /\ disk'.files = disk.files
  BY UnitFields DEF seen
<1>4. b.variant # "use" /\ "pch" \in DOMAIN seen => b.prefix \in {None, "ok", "failed"}
  BY <1>1, <1>2 DEF MemoInv
<1>5. QED
  BY <1>1, <1>2, <1>3, <1>4 DEF MemoInv

\* The place of a unit's object, and the keys of the others.
LEMMA PlaceNow ==
    ASSUME NEW u \in Units
    PROVE  Place(u) = <<u, SlotOf(b.variant)>> /\ SlotOf(b.variant) \in Slots /\ Place(u) \in Places
BY DEF Place, SlotOf, Slots, Places

LEMMA KeysStep ==
    ASSUME BuildInv, b.pc = "units", NEW u \in Units, world' = world, KeepsTold, KeepsB({"memo", "queue", "work", "done"}),
           KeepsDisk({"obj", "objKey"}),
           \A z \in Places : z # Place(u) => disk'.obj[z] = disk.obj[z] /\ disk'.objKey[z] = disk.objKey[z],
           disk'.objKey[Place(u)] # None => KeyOK(disk'.objKey[Place(u)], disk'.obj[Place(u)], u, SlotOf(b.variant))
    PROVE  KeysInv'
<1> USE DEF BuildInv
<1>1. Working /\ b'.variant = b.variant /\ told'.builds = told.builds /\ DOMAIN b' = ProcessFields
  BY UnitsStage, UnitFields DEF KeepsTold, KeepsB
<1>2. Working'
  BY <1>1, ProcessWorks DEF Working
<1>3. \A k, o, z, s : KeyOK(k, o, z, s) => KeyOK(k, o, z, s)'
  <2>1. \A o, z, v : Right(o, z, v)' <=> Right(o, z, v)
    BY UnitFields, RightKept
  <2>2. QED
    BY <1>1, <1>2, <2>1 DEF KeyOK
<1>4. ASSUME NEW z \in Units, NEW s \in Slots, disk'.objKey[<<z, s>>] # None
      PROVE  KeyOK(disk'.objKey[<<z, s>>], disk'.obj[<<z, s>>], z, s)
  <2>1. CASE <<z, s>> = Place(u)
    <3>1. z = u /\ s = SlotOf(b.variant)
      BY <2>1, PlaceNow
    <3>2. QED
      BY <1>4, <2>1, <3>1, PlaceNow
  <2>2. CASE <<z, s>> # Place(u)
    BY <1>4, <2>2 DEF KeysInv, Places
  <2>3. QED
    BY <2>1, <2>2
<1>5. QED
  BY <1>3, <1>4 DEF KeysInv

\* A key that matches describes the object that the build would make.
LEMMA HitIsRight ==
    ASSUME BuildInv, NoneApart, b.pc = "units", NEW u \in Units, NEW viaPch \in BOOLEAN, viaPch => b.prefix = "ok",
           NEW seen, NEW k, NEW o, KeyOK(k, o, u, SlotOf(b.variant)), o # None,
           seen = Memo(b.memo, DOMAIN k.inputs),
           k = [id |-> identity(b.variant, viaPch), inputs |-> [f \in DOMAIN k.inputs |-> seen[f]]]
    PROVE  Right(o, u, b.variant)
<1> USE DEF BuildInv
<1>1. Working /\ b.variant \in Variants /\ b.variant # None
  BY UnitsStage DEF NoneApart, Words, Variants
<1>2. k.id = identity(b.variant, viaPch) /\ \A f \in DOMAIN k.inputs : k.inputs[f] = seen[f]
  <2> DEFINE g == [f \in DOMAIN k.inputs |-> seen[f]]
             i == identity(b.variant, viaPch)
  <2>1. k = [id |-> i, inputs |-> g]
    OBVIOUS
  <2>2. \A f \in DOMAIN k.inputs : g[f] = seen[f]
    OBVIOUS
  <2> HIDE DEF g, i
  <2>3. k.id = i /\ k.inputs = g
    BY <2>1
  <2>4. QED
    BY <2>2, <2>3 DEF i
<1>3. /\ k.id.version = world.env.version /\ k.id.flags = Flags[b.variant] /\ k.id.viaPch = viaPch
      /\ k.id.profile = IF b.variant = "use" THEN disk.profile ELSE None
  BY <1>1, <1>2 DEF identity, Flags, ProfileOf
<1>4. DOMAIN k.inputs = IF viaPch THEN {u, "pch"} ELSE {u, "h", "r"}
  BY <1>3 DEF KeyOK, Inputs
<1>5. DOMAIN k.inputs \subseteq Names \cup {"r", "pch"}
  BY <1>4 DEF Names
<1>6. /\ DOMAIN seen = DOMAIN b.memo \cup DOMAIN k.inputs
      /\ \A f \in DOMAIN seen : f \in Names => seen[f] = disk.files[f]
      /\ "r" \in DOMAIN seen => seen["r"] = world.r
      /\ b.variant # "use" /\ b.prefix = "ok" /\ "pch" \in DOMAIN seen => seen["pch"].h = disk.files["h"] /\ seen["pch"].r = world.r
  BY <1>5, MemoSeen
<1>7. CASE b.variant = "use"
  <2>1. disk.profile # None /\ disk.profile.run = told.builds
    BY <1>1, <1>7 DEF ImagesInv
  <2>2. QED
    BY <1>1, <1>3, <1>7, <2>1 DEF KeyOK
<1>8. CASE b.variant # "use"
  <2>1. Describes(k, o, u)
    BY <1>3, <1>8 DEF KeyOK
  <2>2. k.inputs[u] = disk.files[u]
    BY <1>2, <1>4, <1>6 DEF Names
  <2>3. viaPch => k.inputs["pch"].h = disk.files["h"] /\ k.inputs["pch"].r = world.r
    BY <1>2, <1>4, <1>6, <1>8
  <2>4. ~viaPch => k.inputs["h"] = disk.files["h"] /\ k.inputs["r"] = world.r
    BY <1>2, <1>4, <1>6 DEF Names
  <2>5. QED
    BY <1>3, <1>8, <2>1, <2>2, <2>3, <2>4 DEF Describes, Right
<1>9. QED
  BY <1>7, <1>8

LEMMA CheckStep ==
    ASSUME BuildInv, NoneApart, NEW w \in 1 .. Jobs, Check(w)
    PROVE  BuildInv'
<1> DEFINE u == b.work[w].unit
           viaPch == Waits(u) /\ b.prefix = "ok"
           place == <<u, SlotOf(b.variant)>>
           recorded == disk.objKey[place]
           seen == IF recorded = None THEN b.memo ELSE Memo(b.memo, DOMAIN recorded.inputs)
           hit == /\ recorded # None /\ disk.obj[place] # None
                  /\ recorded = [id |-> identity(b.variant, viaPch), inputs |-> [f \in DOMAIN recorded.inputs |-> seen[f]]]
           new == IF hit THEN Idle ELSE [pc |-> "cxx", unit |-> u, viaPch |-> viaPch]
<1> USE DEF BuildInv
<1>1. b.pc = "units" /\ b.work[w].pc = "check" /\ Ready(u) /\ world' = world /\ told' = told
  BY DEF Check
<1>2. Working /\ DOMAIN b = ProcessFields /\ b.work \in [1 .. Jobs -> Worker] /\ b.done \in Seq(Units \X BOOLEAN)
  BY <1>1, UnitsStage DEF Shapes
<1>3. u \in Units /\ Busy(w) /\ JobOK(w)
  BY <1>1, <1>2, WorkerKinds DEF Busy, WorkInv
<1>4. place = Place(u) /\ SlotOf(b.variant) \in Slots /\ place \in Places
  BY <1>3, PlaceNow
<1>5. /\ hit => b' = [b EXCEPT !.memo = seen, !.work[w] = Idle, !.done = Append(@, <<u, TRUE>>)] /\ disk' = disk
      /\ ~hit => /\ b' = [b EXCEPT !.memo = seen, !.work[w] = [pc |-> "cxx", unit |-> u, viaPch |-> viaPch]]
                 /\ disk' = [disk EXCEPT !.objKey[place] = None]
  BY DEF Check
<1>6. recorded # None => KeyOK(recorded, disk.obj[place], u, SlotOf(b.variant))
  BY <1>3, <1>4 DEF KeysInv
<1>7. viaPch \in BOOLEAN /\ (viaPch => b.prefix = "ok" /\ u \in Users)
  BY DEF Waits
<1>8. hit => Right(disk.obj[place], u, b.variant)
  <2> SUFFICES ASSUME hit PROVE Right(disk.obj[place], u, b.variant)
    OBVIOUS
  <2>1. seen = Memo(b.memo, DOMAIN recorded.inputs)
    OBVIOUS
  <2>2. KeyOK(recorded, disk.obj[place], u, SlotOf(b.variant)) /\ disk.obj[place] # None
    BY <1>6
  <2>3. recorded = [id |-> identity(b.variant, viaPch), inputs |-> [f \in DOMAIN recorded.inputs |-> seen[f]]]
    OBVIOUS
  <2> HIDE DEF viaPch, recorded, seen, u, place
  <2>4. QED
    BY <1>1, <1>3, <1>7, <2>1, <2>2, <2>3, HitIsRight
<1>9. MemoInv'
  <2>1. KeepsB({"memo", "queue", "work", "done"}) /\ b'.memo = seen
    BY <1>2, <1>5 DEF KeepsB, ProcessFields
  <2>2. KeepsDisk({"obj", "objKey"})
    BY <1>5 DEF KeepsDisk, DiskFields, Shapes
  <2>3. CASE recorded = None
    <3>1. b'.memo = b.memo
      BY <2>1, <2>3
    <3>2. QED
      BY <1>1, <1>2, <2>1, <2>2, <3>1, UnitFields, MemoKept
  <2>4. CASE recorded # None
    <3>1. b'.memo = Memo(b.memo, DOMAIN recorded.inputs)
      BY <2>1, <2>4
    <3>2. DOMAIN recorded.inputs = Inputs(u, recorded.id.viaPch) /\ (recorded.id.viaPch => u \in Users)
      BY <1>6, <2>4 DEF KeyOK
    <3>3. DOMAIN recorded.inputs \subseteq Names \cup {"r", "pch"}
      BY <1>3, <3>2 DEF Inputs, Names
    <3>4. "pch" \in DOMAIN recorded.inputs => b.prefix \in {None, "ok", "failed"}
      <4>1. "pch" \in DOMAIN recorded.inputs => u \in Users
        BY <1>3, <3>2 DEF Inputs, Units, Users
      <4>2. QED
        BY <1>1, <4>1 DEF Ready, Waits
    <3> HIDE DEF recorded
    <3>5. QED
      BY <1>1, <2>1, <2>2, <3>1, <3>3, <3>4, MemoStep
  <2>5. QED
    BY <2>3, <2>4
<1>10. /\ KeepsB({"memo", "queue", "work", "done"}) /\ b'.queue = b.queue /\ b'.work = [b.work EXCEPT ![w] = new]
       /\ b'.done = IF hit THEN Append(b.done, <<u, TRUE>>) ELSE b.done
  BY <1>2, <1>5 DEF KeepsB, ProcessFields
<1>11. /\ KeepsDisk({"obj", "objKey"}) /\ disk'.obj = disk.obj /\ DOMAIN disk'.objKey = Places /\ DOMAIN disk'.obj = Places
       /\ disk'.objKey = IF hit THEN disk.objKey ELSE [disk.objKey EXCEPT ![place] = None]
  BY <1>5 DEF KeepsDisk, DiskFields, Shapes
<1>12. new \in Worker /\ (new = Idle <=> hit) /\ (~hit => new.unit = u /\ new.pc = "cxx" /\ new.viaPch = viaPch)
  <2>1. CASE hit
    BY <2>1 DEF Worker
  <2>2. CASE ~hit
    <3>1. new = [pc |-> "cxx", unit |-> u, viaPch |-> viaPch]
      BY <2>2
    <3> HIDE DEF new, viaPch, u, hit
    <3>2. QED
      BY <1>3, <1>7, <2>2, <3>1 DEF Worker, Idle
  <2>3. QED
    BY <2>1, <2>2
<1> HIDE DEF seen, viaPch, recorded, hit, new, u, place
<1>13. /\ \A z \in Places : z # Place(u) => disk'.obj[z] = disk.obj[z] /\ disk'.objKey[z] = disk.objKey[z]
       /\ ~hit => disk'.objKey[Place(u)] = None
       /\ hit => disk'.objKey[Place(u)] = disk.objKey[Place(u)]
  BY <1>4, <1>11 DEF Shapes
<1>14. KeysInv'
  <2>1. disk'.objKey[Place(u)] # None => KeyOK(disk'.objKey[Place(u)], disk'.obj[Place(u)], u, SlotOf(b.variant))
    BY <1>4, <1>6, <1>11, <1>13 DEF recorded
  <2>2. QED
    BY <1>1, <1>3, <1>10, <1>11, <1>13, <2>1, KeysStep DEF KeepsTold
<1>15. WorkInv' /\ b'.work \in [1 .. Jobs -> Worker] /\ b'.done \in Seq(Units \X BOOLEAN)
  <2>1. \A z \in Units : z # u => disk'.obj[Place(z)] = disk.obj[Place(z)] /\ disk'.objKey[Place(z)] = disk.objKey[Place(z)]
    <3>1. \A z \in Units : z # u => Place(z) \in Places /\ Place(z) # Place(u)
      BY PlaceNow DEF Place
    <3>2. QED
      BY <1>13, <3>1
  <2>2. new = Idle => \E ok \in BOOLEAN : b'.done = Append(b.done, <<u, ok>>) /\ (ok => Right(disk'.obj[Place(u)], u, b.variant))
    BY <1>4, <1>8, <1>10, <1>11, <1>12
  <2>3. new # Idle => /\ new.unit = u /\ b'.done = b.done /\ new.pc = "cxx"
                      /\ disk'.objKey[Place(u)] = None /\ (new.viaPch => b.prefix = "ok" /\ u \in Users)
    BY <1>7, <1>10, <1>12, <1>13
  <2>4. u = b.work[w].unit /\ disk'.obj[Place(u)] = disk.obj[Place(u)]
    BY <1>11 DEF u
  <2>5. Goes(w, u, new)
    BY <1>1, <1>3, <1>10, <1>11, <1>12, <2>1, <2>2, <2>3, <2>4 DEF Goes
  <2>6. QED
    BY <1>12, <2>5, WorkerStep
<1>16. QED
  BY <1>1, <1>9, <1>10, <1>11, <1>14, <1>15, UnitStep DEF KeepsTold

LEMMA CompiledStep ==
    ASSUME BuildInv, NoneApart, NEW w \in 1 .. Jobs, Compiled(w)
    PROVE  BuildInv'
<1> DEFINE u == b.work[w].unit
           viaPch == b.work[w].viaPch
           o == Object(u, b.variant, IF viaPch THEN disk.pch ELSE None)
           new == [pc |-> "key", unit |-> u, viaPch |-> viaPch]
<1> USE DEF BuildInv
<1>1. b.pc = "units" /\ b.work[w].pc = "cxx" /\ world' = world /\ told' = told /\ (viaPch => PchValid)
  BY DEF Compiled
<1>2. /\ Working /\ DOMAIN b = ProcessFields /\ b.work \in [1 .. Jobs -> Worker] /\ b.done \in Seq(Units \X BOOLEAN)
      /\ b.variant \in Variants
  BY <1>1, UnitsStage DEF Shapes
<1>3. /\ u \in Units /\ viaPch \in BOOLEAN /\ Busy(w) /\ JobOK(w)
      /\ b.work[w] = [pc |-> "cxx", unit |-> u, viaPch |-> viaPch]
  <2>1. b.work[w] \in Worker
    BY <1>2
  <2>2. /\ b.work[w] # Idle /\ u \in Units /\ viaPch \in BOOLEAN
        /\ b.work[w] = [pc |-> b.work[w].pc, unit |-> u, viaPch |-> viaPch]
    BY <1>1, <2>1, WorkerKinds
  <2>3. Busy(w) /\ JobOK(w)
    BY <1>1, <1>2, <2>2 DEF Busy, WorkInv
  <2>4. QED
    BY <1>1, <2>2, <2>3
<1>4. <<u, SlotOf(b.variant)>> = Place(u) /\ Place(u) \in Places
  BY <1>3, PlaceNow
<1>5. Right(o, u, b.variant)
  BY <1>1, <1>2, <1>3, ObjectNow DEF PchValid
<1>6. /\ KeepsDisk({"obj", "objKey"}) /\ disk'.objKey = disk.objKey /\ DOMAIN disk'.objKey = Places /\ DOMAIN disk'.obj = Places
      /\ disk'.obj = [disk.obj EXCEPT ![<<u, SlotOf(b.variant)>>] = o]
  BY DEF Compiled, KeepsDisk, DiskFields, Shapes
<1>7. /\ KeepsB({"memo", "queue", "work", "done"}) /\ b'.memo = b.memo /\ b'.queue = b.queue /\ b'.done = b.done
      /\ b'.work = [b.work EXCEPT ![w] = new]
  <2>1. b' = [b EXCEPT !.work[w].pc = "key"]
    BY DEF Compiled
  <2>2. b'.work = [b.work EXCEPT ![w] = [b.work[w] EXCEPT !.pc = "key"]]
    BY <1>2, <2>1 DEF ProcessFields
  <2>3. [b.work[w] EXCEPT !.pc = "key"] = new
    BY <1>3
  <2>4. KeepsB({"memo", "queue", "work", "done"}) /\ b'.memo = b.memo /\ b'.queue = b.queue /\ b'.done = b.done
    BY <1>2, <2>1 DEF KeepsB, ProcessFields
  <2>5. QED
    BY <2>2, <2>3, <2>4
<1>8. new \in Worker /\ new # Idle /\ new.unit = u /\ new.pc = "key" /\ new.viaPch = viaPch
  BY <1>3 DEF Worker, Idle
<1> HIDE DEF o, new, u, viaPch
<1>9. disk'.obj[Place(u)] = o /\ \A z \in Places : z # Place(u) => disk'.obj[z] = disk.obj[z]
  BY <1>4, <1>6 DEF Shapes
<1>10. disk.objKey[Place(u)] = None /\ (viaPch => b.prefix = "ok" /\ u \in Users)
  BY <1>1, <1>3 DEF JobOK, u, viaPch
<1>11. KeysInv'
  BY <1>1, <1>3, <1>6, <1>7, <1>9, <1>10, KeysStep DEF KeepsTold
<1>12. MemoInv'
  BY <1>1, <1>2, <1>6, <1>7, UnitFields, MemoKept
<1>13. WorkInv' /\ b'.work \in [1 .. Jobs -> Worker] /\ b'.done \in Seq(Units \X BOOLEAN)
  <2>1. \A z \in Units : z # u => disk'.obj[Place(z)] = disk.obj[Place(z)] /\ disk'.objKey[Place(z)] = disk.objKey[Place(z)]
    <3>1. \A z \in Units : z # u => Place(z) \in Places /\ Place(z) # Place(u)
      BY PlaceNow DEF Place
    <3>2. QED
      BY <1>6, <1>9, <3>1
  <2>2. Goes(w, u, new)
    BY <1>1, <1>3, <1>5, <1>6, <1>7, <1>8, <1>9, <1>10, <2>1 DEF Goes, u
  <2>3. QED
    BY <1>8, <2>2, WorkerStep
<1>14. QED
  BY <1>1, <1>6, <1>7, <1>11, <1>12, <1>13, UnitStep DEF KeepsTold

LEMMA CompileFailsStep ==
    ASSUME BuildInv, NoneApart, NEW w \in 1 .. Jobs, CompileFails(w)
    PROVE  BuildInv'
<1> DEFINE u == b.work[w].unit
<1> USE DEF BuildInv
<1>1. b.pc = "units" /\ b.work[w].pc = "cxx" /\ world' = world /\ disk' = disk /\ KeepsTold
  BY DEF CompileFails, KeepsTold, Shapes
<1>2. Working /\ DOMAIN b = ProcessFields /\ b.work \in [1 .. Jobs -> Worker] /\ b.done \in Seq(Units \X BOOLEAN)
  BY <1>1, UnitsStage DEF Shapes
<1>3. u \in Units /\ Busy(w)
  BY <1>1, <1>2, WorkerKinds DEF Busy
<1>4. KeepsDisk({"obj", "objKey"}) /\ DOMAIN disk'.objKey = Places /\ DOMAIN disk'.obj = Places
  BY <1>1 DEF KeepsDisk, Shapes
<1>5. /\ KeepsB({"memo", "queue", "work", "done"}) /\ b'.memo = b.memo /\ b'.queue = b.queue
      /\ b'.done = Append(b.done, <<u, FALSE>>) /\ b'.work = [b.work EXCEPT ![w] = Idle]
  BY <1>2 DEF CompileFails, KeepsB, ProcessFields
<1>6. Idle \in Worker
  BY DEF Worker
<1>7. KeysInv'
  BY <1>1, <1>2, <1>4, <1>5, UnitFields, KeysKept DEF KeepsTold
<1>8. MemoInv'
  BY <1>1, <1>2, <1>4, <1>5, UnitFields, MemoKept
<1>9. WorkInv' /\ b'.work \in [1 .. Jobs -> Worker] /\ b'.done \in Seq(Units \X BOOLEAN)
  <2>1. Goes(w, u, Idle)
    BY <1>1, <1>3, <1>4, <1>5 DEF Goes
  <2>2. QED
    BY <1>6, <2>1, WorkerStep
<1>10. QED
  BY <1>1, <1>4, <1>5, <1>7, <1>8, <1>9, UnitStep

LEMMA KeyedStep ==
    ASSUME BuildInv, NoneApart, NEW w \in 1 .. Jobs, Keyed(w)
    PROVE  BuildInv'
<1> DEFINE u == b.work[w].unit
           viaPch == b.work[w].viaPch
           inputs == Inputs(u, viaPch)
           seen == Memo(b.memo, inputs)
           k == unitKey(b.variant, viaPch, u, seen)
<1> USE DEF BuildInv
<1>1. b.pc = "units" /\ b.work[w].pc = "key" /\ world' = world /\ told' = told
  BY DEF Keyed
<1>2. /\ Working /\ DOMAIN b = ProcessFields /\ b.work \in [1 .. Jobs -> Worker] /\ b.done \in Seq(Units \X BOOLEAN)
      /\ b.variant \in Variants
  BY <1>1, UnitsStage DEF Shapes
<1>3. /\ u \in Units /\ viaPch \in BOOLEAN /\ Busy(w) /\ JobOK(w)
  BY <1>1, <1>2, WorkerKinds DEF Busy, WorkInv
<1>4. <<u, SlotOf(b.variant)>> = Place(u) /\ Place(u) \in Places
  BY <1>3, PlaceNow
<1>5. /\ KeepsDisk({"obj", "objKey"}) /\ disk'.obj = disk.obj /\ DOMAIN disk'.objKey = Places /\ DOMAIN disk'.obj = Places
      /\ disk'.objKey = [disk.objKey EXCEPT ![<<u, SlotOf(b.variant)>>] = k]
  BY DEF Keyed, KeepsDisk, DiskFields, Shapes
<1>6. /\ KeepsB({"memo", "queue", "work", "done"}) /\ b'.memo = seen /\ b'.queue = b.queue
      /\ b'.done = Append(b.done, <<u, TRUE>>) /\ b'.work = [b.work EXCEPT ![w] = Idle]
  BY <1>2 DEF Keyed, KeepsB, ProcessFields
<1>7. /\ (viaPch => b.prefix = "ok" /\ u \in Users) /\ Right(disk.obj[Place(u)], u, b.variant)
  BY <1>1, <1>3 DEF JobOK
<1>8. inputs = (IF viaPch THEN {u, "pch"} ELSE {u, "h", "r"}) /\ inputs \subseteq Names \cup {"r", "pch"}
  BY <1>3 DEF Inputs, Names
<1>9. "pch" \in inputs => viaPch
  BY <1>3, <1>8 DEF Units
<1>10. /\ k.id.version = world.env.version /\ k.id.flags = Flags[b.variant] /\ k.id.viaPch = viaPch
       /\ k.id.profile = (IF b.variant = "use" THEN disk.profile ELSE None)
       /\ DOMAIN k.inputs = inputs /\ \A f \in inputs : k.inputs[f] = seen[f]
  <2>1. k.id = identity(b.variant, viaPch) /\ k.inputs = [f \in inputs |-> fileContentHash(seen, f)]
    BY DEF unitKey
  <2>2. inputs \subseteq DOMAIN seen
    BY DEF Memo
  <2>3. \A f \in inputs : fileContentHash(seen, f) = seen[f]
    BY <2>2 DEF fileContentHash
  <2>4. /\ k.id.version = world.env.version /\ k.id.flags = Flags[b.variant] /\ k.id.viaPch = viaPch
        /\ k.id.profile = IF b.variant = "use" THEN disk.profile ELSE None
    BY <1>2, <2>1 DEF identity, Flags, ProfileOf
  <2> HIDE DEF k, inputs, seen
  <2>5. QED
    BY <2>1, <2>3, <2>4
<1>11. /\ inputs \subseteq DOMAIN seen
       /\ \A f \in DOMAIN seen : f \in Names => seen[f] = disk.files[f]
       /\ "r" \in DOMAIN seen => seen["r"] = world.r
       /\ b.variant # "use" /\ b.prefix = "ok" /\ "pch" \in DOMAIN seen => seen["pch"].h = disk.files["h"] /\ seen["pch"].r = world.r
  BY <1>1, <1>8, MemoSeen
<1>12. MemoInv'
  BY <1>1, <1>5, <1>6, <1>7, <1>8, <1>9, MemoStep
<1>13. inputs = Inputs(u, viaPch) /\ u = b.work[w].unit
  OBVIOUS
<1> HIDE DEF k, seen, inputs, u, viaPch
<1>14. KeyOK(k, disk.obj[Place(u)], u, SlotOf(b.variant))
  <2>1. k.id.viaPch \in BOOLEAN /\ DOMAIN k.inputs = Inputs(u, k.id.viaPch) /\ (k.id.viaPch => u \in Users)
    BY <1>3, <1>7, <1>10, <1>13
  <2>2. CASE b.variant = "use"
    <3>1. disk.profile # None /\ disk.profile.run = told.builds /\ told.builds \in Nat
      BY <1>2, <2>2 DEF ImagesInv, Shapes
    <3>2. SlotOf(b.variant) = "o"
      BY <2>2 DEF SlotOf
    <3>3. QED
      BY <1>7, <1>10, <2>1, <2>2, <3>1, <3>2 DEF KeyOK
  <2>3. CASE b.variant # "use"
    <3>1. k.inputs[u] = disk.files[u]
      BY <1>3, <1>8, <1>10, <1>11 DEF Names
    <3>2. viaPch => k.inputs["pch"].h = disk.files["h"] /\ k.inputs["pch"].r = world.r
      BY <1>7, <1>8, <1>10, <1>11, <2>3
    <3>3. ~viaPch => k.inputs["h"] = disk.files["h"] /\ k.inputs["r"] = world.r
      BY <1>8, <1>10, <1>11 DEF Names
    <3>4. Describes(k, disk.obj[Place(u)], u)
      BY <1>3, <1>7, <1>10, <2>3, <3>1, <3>2, <3>3 DEF Describes, Right
    <3>5. QED
      BY <1>10, <2>1, <2>3, <3>4 DEF KeyOK
  <2>4. QED
    BY <2>2, <2>3
<1>15. disk'.objKey[Place(u)] = k /\ \A z \in Places : z # Place(u) => disk'.objKey[z] = disk.objKey[z]
  BY <1>4, <1>5 DEF Shapes
<1>16. KeysInv'
  BY <1>1, <1>3, <1>5, <1>6, <1>14, <1>15, KeysStep DEF KeepsTold
<1>17. WorkInv' /\ b'.work \in [1 .. Jobs -> Worker] /\ b'.done \in Seq(Units \X BOOLEAN)
  <2>1. \A z \in Units : z # u => disk'.obj[Place(z)] = disk.obj[Place(z)] /\ disk'.objKey[Place(z)] = disk.objKey[Place(z)]
    <3>1. \A z \in Units : z # u => Place(z) \in Places /\ Place(z) # Place(u)
      BY PlaceNow DEF Place
    <3>2. QED
      BY <1>5, <1>15, <3>1
  <2>2. Goes(w, u, Idle)
    BY <1>1, <1>3, <1>5, <1>6, <1>7, <1>13, <2>1 DEF Goes
  <2>3. Idle \in Worker
    BY DEF Worker
  <2>4. QED
    BY <2>2, <2>3, WorkerStep
<1>18. QED
  BY <1>1, <1>5, <1>6, <1>12, <1>16, <1>17, UnitStep DEF KeepsTold

LEMMA UnitsDoneStep ==
    ASSUME BuildInv, NoneApart, UnitsDone
    PROVE  BuildInv'
<1> USE DEF BuildInv
<1>1. b.pc = "units" /\ b.queue = {} /\ (\A w \in 1 .. Jobs : b.work[w] = Idle) /\ world' = world /\ told' = told
  BY DEF UnitsDone
<1>2. CASE Exit(Failed)
  BY <1>1, <1>2, ExitStep DEF KeepsTold
<1>3. CASE ~Exit(Failed)
  <2>1. (\A i \in DOMAIN b.done : b.done[i][2]) /\ b' = [b EXCEPT !.pc = "link"] /\ disk' = disk
    BY <1>3 DEF UnitsDone
  <2>2. /\ Working /\ Building /\ Compiling /\ DOMAIN b = ProcessFields /\ b.work \in [1 .. Jobs -> Worker]
        /\ b.done \in Seq(Units \X BOOLEAN) /\ b.variant \in Variants /\ b.units \subseteq Units
        /\ b.prefix \in {None, "start", "pch", "object", "key", "ok", "failed"}
    BY <1>1, UnitsStage DEF Shapes
  <2>3. KeepsB({"pc"}) /\ b'.pc = "link"
    BY <2>1, <2>2 DEF KeepsB, ProcessFields
  <2>4. /\ b'.plan = b.plan /\ b'.bolt = b.bolt /\ b'.variant = b.variant /\ b'.units = b.units /\ b'.memo = b.memo
        /\ b'.work = b.work /\ b'.prefix = b.prefix /\ b'.done = b.done /\ DOMAIN b' = ProcessFields
    BY <2>3 DEF KeepsB, ProcessFields
  <2>5. Shapes'
    BY <1>1, <2>1, <2>2, <2>3, <2>4, UnitsShapes DEF Shapes, KeepsTold
  <2>6. EmissionInv' /\ KeysInv' /\ PchInv' /\ MemoInv'
    BY <1>1, <2>1, <2>2, <2>3, <2>4, EmissionKept, KeysKept, PchKept, MemoKept
  <2>7. WorkInv'
    <3>1. ASSUME NEW u \in b.units
          PROVE  Right(disk.obj[Place(u)], u, b.variant)
      <4>1. PICK i \in 1 .. Len(b.done) : b.done[i][1] = u
        BY <1>1, <2>2 DEF WorkInv, Busy
      <4>2. b.done[i][2]
        BY <2>1, <2>2
      <4>3. QED
        BY <1>1, <2>2, <4>1, <4>2 DEF WorkInv
    <3>2. (\A o, z, v : Right(o, z, v)' <=> Right(o, z, v)) /\ (\A z : Place(z)' = Place(z))
      BY <1>1, <2>1, <2>4, RightKept DEF Place
    <3>3. \A u \in b'.units : Right(disk.obj[Place(u)], u, b.variant)'
      BY <2>1, <2>4, <3>1, <3>2
    <3>4. QED
      BY <2>3, <3>3 DEF WorkInv
  <2>8. ImagesInv'
    <3>1. \A o, z, v : Right(o, z, v)' <=> Right(o, z, v)
      BY <1>1, <2>1, RightKept
    <3>2. \A i, v : Parts(i, v) => Parts(i, v)'
      BY <2>4, <3>1 DEF Parts
    <3>3. QED
      BY <1>1, <2>1, <2>2, <2>3, <2>4, <3>2 DEF ImagesInv
  <2>9. QED
    BY <1>1, <2>5, <2>6, <2>7, <2>8, ToldKept
<1>4. QED
  BY <1>2, <1>3

----------------
(* The link, --bolt and the end *)

LEMMA LateStage ==
    ASSUME BuildInv, b.pc \in {"link", "bolt", "rename", "moved", "end"}
    PROVE  /\ Working /\ Building /\ DOMAIN b = ProcessFields /\ b.variant \in Variants /\ b.units \subseteq Units
           /\ b.work \in [1 .. Jobs -> Worker] /\ b.done \in Seq(Units \X BOOLEAN) /\ b.bolt \in BOOLEAN
           /\ b.prefix \in {None, "start", "pch", "object", "key", "ok", "failed"}
           /\ \/ b.pc = "link" /\ b.variant = "gen" /\ b.plan = <<"train", "use">>
              \/ b.variant \in {"plain", "use"} /\ b.plan = <<>>
BY ProcessWorks DEF BuildInv, Shapes, Stages, Variants, Working, Building

\* A later step of the process keeps what it does not touch.
LEMMA LateStep ==
    ASSUME BuildInv, NoneApart, b.pc \in {"link", "bolt", "rename", "moved", "end"}, world' = world, told' = told,
           KeepsB({"pc"}), b'.pc \in {"build", "bolt", "rename", "moved", "end"},
           b'.pc = "build" <=> b.variant = "gen", KeepsDisk({"inst", "exe", "bolted", "report"}),
           DOMAIN disk'.report = {"gen", "dist", "linked"}, disk'.report.gen = disk.report.gen, disk'.report.dist = disk.report.dist,
           b'.pc = "build" => Parts(disk'.inst, "gen"),
           b'.pc \in {"bolt", "rename", "moved"} => b.bolt,
           b'.pc = "bolt" => Made(disk'.exe), b'.pc \in {"rename", "moved"} => Made(disk'.bolted),
           b'.pc = "end" => Made(disk'.exe) /\ disk'.exe.bolted = b.bolt
    PROVE  BuildInv'
<1> USE DEF BuildInv
<1>1. /\ b'.plan = b.plan /\ b'.bolt = b.bolt /\ b'.variant = b.variant /\ b'.units = b.units /\ b'.memo = b.memo
      /\ b'.work = b.work /\ b'.prefix = b.prefix /\ b'.done = b.done /\ DOMAIN b' = ProcessFields
  BY DEF KeepsB, ProcessFields
<1>2. /\ disk'.files = disk.files /\ disk'.obj = disk.obj /\ disk'.objKey = disk.objKey /\ disk'.pch = disk.pch
      /\ disk'.pchObj = disk.pchObj /\ disk'.pchKey = disk.pchKey /\ disk'.profile = disk.profile /\ DOMAIN disk' = DiskFields
  BY DEF KeepsDisk, DiskFields
<1>3. /\ Working /\ Building /\ b.variant \in Variants /\ b.units \subseteq Units
      /\ b.work \in [1 .. Jobs -> Worker] /\ b.done \in Seq(Units \X BOOLEAN) /\ b.bolt \in BOOLEAN
      /\ b.prefix \in {None, "start", "pch", "object", "key", "ok", "failed"}
      /\ \/ b.pc = "link" /\ b.variant = "gen" /\ b.plan = <<"train", "use">>
         \/ b.variant \in {"plain", "use"} /\ b.plan = <<>>
  BY LateStage
<1>4. Shapes'
  <2>1. Stages'
    BY <1>1, <1>3 DEF Stages
  <2>2. QED
    BY <1>1, <1>2, <1>3, <2>1 DEF Shapes
<1>5. EmissionInv' /\ KeysInv' /\ MemoInv'
  BY <1>1, <1>2, <1>3, EmissionKept, KeysKept, MemoKept
<1>6. PchInv'
  BY <1>1, <1>2, <1>3, PchKept DEF Compiling
<1>7. WorkInv'
  BY DEF WorkInv
<1>8. ImagesInv'
  <2>1. \A i, v : Parts(i, v) => Parts(i, v)'
    BY <1>1, <1>2, RightKept DEF Parts
  <2>2. \A p, v : RightPch(p, v) => RightPch(p, v)'
    BY <1>2, FlagsKept DEF RightPch
  <2>3. \A i : Made(i) => Made(i)'
    BY <1>1, <2>1, <2>2 DEF Made
  <2>4. b.variant = "use" => disk.profile # None /\ disk.profile.run = told.builds /\ Parts(disk.profile.image, "gen")
    BY <1>3 DEF ImagesInv
  <2>5. <<"train", "use">> # <<"use">> /\ "plain" # "use"
    OBVIOUS
  <2>6. QED
    BY <1>1, <1>2, <1>3, <2>1, <2>3, <2>4, <2>5 DEF ImagesInv
<1>9. QED
  BY <1>4, <1>5, <1>6, <1>7, <1>8, ToldKept

LEMMA ImageMade ==
    ASSUME BuildInv, NoneApart, b.pc = "link"
    PROVE  Made(Image) /\ Image.bolted = FALSE
<1> USE DEF BuildInv
<1>1. Working /\ Compiling /\ b.variant \in Variants /\ b.units \subseteq Units
  BY LateStage DEF Compiling
<1>2. DOMAIN Image = {"parts", "prefix", "flags", "bolted"} /\ Whole(Image) /\ Image.bolted = FALSE
  BY DEF Image, Whole
<1>3. Image.parts = [u \in b.units |-> IF Cardinality(b.units) > 1 THEN disk.obj[<<u, SlotOf(b.variant)>>] ELSE Object(u, b.variant, None)]
  BY DEF Image
<1>4. Image.prefix # None => Image.prefix = disk.pchObj /\ b.prefix = "ok" /\ world.env.debug
  BY DEF Image
<1>5. ASSUME NEW u \in b.units
      PROVE  Right(Image.parts[u], u, b.variant)
  <2>1. CASE Cardinality(b.units) > 1
    <3>1. Image.parts[u] = disk.obj[Place(u)]
      BY <1>1, <1>3, <2>1, PlaceNow
    <3>2. QED
      BY <1>1, <2>1, <3>1 DEF WorkInv
  <2>2. CASE ~(Cardinality(b.units) > 1)
    <3>1. Image.parts[u] = Object(u, b.variant, None)
      BY <1>3, <2>2
    <3>2. QED
      BY <1>1, <3>1, ObjectNow
  <2>3. QED
    BY <2>1, <2>2
<1>6. Image.prefix # None => RightPch(Image.prefix.of, b.variant)
  BY <1>1, <1>4 DEF PchInv
<1>7. QED
  BY <1>2, <1>3, <1>5, <1>6 DEF Made, Parts

LEMMA LinkStep ==
    ASSUME BuildInv, NoneApart, Link
    PROVE  BuildInv'
<1> USE DEF BuildInv
<1>1. b.pc = "link" /\ world' = world /\ KeepsTold
  BY DEF Link, KeepsTold, Shapes
<1>2. CASE Exit(Failed)
  BY <1>1, <1>2, ExitStep
<1>3. CASE ~Exit(Failed)
  <2>1. /\ disk' = (IF b.variant = "gen" THEN [disk EXCEPT !.inst = Image]
                    ELSE [disk EXCEPT !.exe = Image, !.inst = IF b.variant = "use" THEN None ELSE @, !.report.linked = TRUE])
        /\ b' = [b EXCEPT !.pc = IF b.plan # <<>> THEN "build" ELSE IF b.bolt THEN "bolt" ELSE "end"]
        /\ told' = told
    BY <1>3 DEF Link
  <2>2. /\ DOMAIN b = ProcessFields /\ b.bolt \in BOOLEAN
        /\ (b.variant = "gen" /\ b.plan = <<"train", "use">>) \/ (b.variant \in {"plain", "use"} /\ b.plan = <<>>)
    BY <1>1, LateStage
  <2>3. Made(Image) /\ Image.bolted = FALSE
    BY <1>1, ImageMade
  <2>4. <<"train", "use">> # <<>>
    OBVIOUS
  <2>5. /\ KeepsB({"pc"}) /\ b'.pc = IF b.variant = "gen" THEN "build" ELSE IF b.bolt THEN "bolt" ELSE "end"
    BY <2>1, <2>2, <2>4 DEF KeepsB, ProcessFields
  <2>6. /\ KeepsDisk({"inst", "exe", "bolted", "report"}) /\ DOMAIN disk'.report = {"gen", "dist", "linked"}
        /\ disk'.report.gen = disk.report.gen /\ disk'.report.dist = disk.report.dist
        /\ b.variant = "gen" => disk'.inst = Image
        /\ b.variant # "gen" => disk'.exe = Image
    BY <2>1 DEF Shapes, KeepsDisk, DiskFields
  <2>7. b.variant = "gen" => Parts(Image, "gen")
    BY <2>3 DEF Made
  <2>8. b'.pc = "end" => disk'.exe.bolted = b.bolt
    BY <2>2, <2>3, <2>5, <2>6
  <2>9. QED
    BY <1>1, <2>1, <2>2, <2>3, <2>5, <2>6, <2>7, <2>8, LateStep
<1>4. QED
  BY <1>2, <1>3

LEMMA BoltSteps ==
    ASSUME BuildInv, NoneApart, Bolt \/ BoltMovesInput \/ BoltTakesPlace
    PROVE  BuildInv'
<1> USE DEF BuildInv
<1>1. /\ b.pc \in {"bolt", "rename", "moved"} /\ world' = world /\ KeepsTold
  BY DEF Bolt, BoltMovesInput, BoltTakesPlace, KeepsTold, Shapes
<1>2. Working /\ DOMAIN b = ProcessFields /\ b.variant # "gen"
  BY <1>1, LateStage
<1>3. /\ b.bolt /\ (b.pc = "bolt" => Made(disk.exe)) /\ (b.pc \in {"rename", "moved"} => Made(disk.bolted)) /\ b.bolt = TRUE
  BY <1>1, <1>2, LateStage DEF ImagesInv
<1>4. CASE Exit(disk.report)
  BY <1>1, <1>4, ExitStep
<1>5. ASSUME Bolt, ~Exit(disk.report)
      PROVE  BuildInv'
  <2>1. /\ KeepsB({"pc"}) /\ b'.pc = "rename" /\ told' = told /\ b.pc = "bolt"
    BY <1>2, <1>5 DEF Bolt, KeepsB, ProcessFields
  <2>2. KeepsDisk({"inst", "exe", "bolted", "report"}) /\ disk'.report = disk.report /\ disk'.bolted = disk.exe
    BY <1>5 DEF Bolt, KeepsDisk, DiskFields, Shapes
  <2>3. DOMAIN disk'.report = {"gen", "dist", "linked"}
    BY <2>2 DEF Shapes
  <2>4. QED
    BY <1>1, <1>2, <1>3, <2>1, <2>2, <2>3, LateStep
<1>6. ASSUME BoltMovesInput
      PROVE  BuildInv'
  <2>1. /\ KeepsB({"pc"}) /\ b'.pc = "moved" /\ told' = told /\ b.pc = "rename"
    BY <1>2, <1>6 DEF BoltMovesInput, KeepsB, ProcessFields
  <2>2. KeepsDisk({"inst", "exe", "bolted", "report"}) /\ disk'.report = disk.report /\ disk'.bolted = disk.bolted
    BY <1>6 DEF BoltMovesInput, KeepsDisk, DiskFields, Shapes
  <2>3. DOMAIN disk'.report = {"gen", "dist", "linked"}
    BY <2>2 DEF Shapes
  <2>4. QED
    BY <1>1, <1>2, <1>3, <2>1, <2>2, <2>3, LateStep
<1>7. ASSUME BoltTakesPlace
      PROVE  BuildInv'
  <2>1. /\ KeepsB({"pc"}) /\ b'.pc = "end" /\ told' = told /\ b.pc = "moved"
    BY <1>2, <1>7 DEF BoltTakesPlace, KeepsB, ProcessFields
  <2>2. /\ KeepsDisk({"inst", "exe", "bolted", "report"}) /\ disk'.report = disk.report
        /\ disk'.exe = [disk.bolted EXCEPT !.bolted = TRUE]
    BY <1>7 DEF BoltTakesPlace, KeepsDisk, DiskFields, Shapes
  <2>3. DOMAIN disk'.report = {"gen", "dist", "linked"}
    BY <2>2 DEF Shapes
  <2>4. Made(disk.bolted)
    BY <1>3, <2>1
  <2>5. /\ DOMAIN disk'.exe = {"parts", "prefix", "flags", "bolted"} /\ disk'.exe.bolted = TRUE
        /\ disk'.exe.parts = disk.bolted.parts /\ disk'.exe.prefix = disk.bolted.prefix
    BY <2>2, <2>4 DEF Made
  <2>6. Whole(disk'.exe)
    BY <2>2 DEF Whole
  <2>7. Made(disk'.exe)
    BY <2>4, <2>5, <2>6 DEF Made, Parts
  <2>8. QED
    BY <1>1, <1>2, <1>3, <2>1, <2>2, <2>3, <2>5, <2>7, LateStep
<1>8. QED
  BY <1>4, <1>5, <1>6, <1>7

LEMMA RightSame ==
    ASSUME NEW x, NEW y, NEW u, NEW v, Right(x, u, v), Right(y, u, v)
    PROVE  SameObject(x, y)
<1> DEFINE f == [x EXCEPT !.viaPch = TRUE]
           g == [y EXCEPT !.viaPch = TRUE]
<1>1. DOMAIN f = ObjectFields /\ DOMAIN g = ObjectFields
  BY DEF Right
<1>2. /\ f.src = g.src /\ f.pre = g.pre /\ f.viaPch = g.viaPch /\ f.version = g.version /\ f.flags = g.flags
      /\ f.profile = g.profile
  BY DEF Right, ObjectFields
<1>3. f = [z \in DOMAIN f |-> f[z]] /\ g = [z \in DOMAIN g |-> g[z]]
  OBVIOUS
<1> HIDE DEF f, g
<1>4. \A z \in ObjectFields : f[z] = g[z]
  BY <1>2 DEF ObjectFields
<1>5. f = g
  BY <1>1, <1>3, <1>4
<1>6. QED
  BY <1>5 DEF SameObject, f, g

LEMMA CleanIsRight ==
    ASSUME NEW u, NEW v \in Variants
    PROVE  Right(CleanPart(u, v), u, v)
<1> DEFINE pch == IF precompiledPrefix(b.units) /\ u \in Users THEN PchMade(v) ELSE None
<1>1. pch # None => pch.h = disk.files["h"] /\ pch.r = world.r
  BY DEF PchMade
<1>2. CleanPart(u, v) = Object(u, v, pch)
  BY DEF CleanPart
<1> HIDE DEF pch
<1>3. QED
  BY <1>1, <1>2, ObjectNow

LEMMA ExitOkStep ==
    ASSUME BuildInv, NoneApart, ExitOk
    PROVE  BuildInv'
<1> USE DEF BuildInv
<1>1. b.pc = "end" /\ b' = Idle /\ world' = world /\ disk' = disk
  BY DEF ExitOk
<1>2. Working /\ Building /\ b.variant \in Variants /\ b.units \subseteq Units /\ Made(disk.exe) /\ disk.exe.bolted = b.bolt
  BY <1>1, LateStage DEF ImagesInv
<1>3. DOMAIN told' = DOMAIN told /\ told'.builds = told.builds
  BY DEF ExitOk, Shapes
<1>4. Shapes' /\ EmissionInv' /\ KeysInv' /\ PchInv' /\ MemoInv' /\ WorkInv' /\ ImagesInv'
  BY <1>1, <1>3, Stopped DEF KeepsDisk, Shapes
<1>5. disk.exe # None /\ Clean(disk.exe, b.variant)
  <2>1. disk.exe # None
    BY <1>2 DEF Made, NoneApart
  <2>2. \A u \in b.units : SameObject(disk.exe.parts[u], CleanPart(u, b.variant))
    BY <1>2, RightSame, CleanIsRight DEF Made, Parts
  <2>3. disk.exe.prefix # None => disk.exe.prefix.of = PchMade(b.variant)
    BY <1>2, PchNow DEF Made, RightPch
  <2>4. QED
    BY <1>2, <2>1, <2>2, <2>3 DEF Made, Parts, Clean
<1>6. /\ \A u \in b.units : disk.files[u][2] = world.dist
      /\ \E s \in Settings : DOMAIN s.app \cap Units = b.units /\ \A u \in b.units : disk.files[u][1] = s.app[u]
  <2>1. PICK s \in Settings : DOMAIN s.app \cap Units = b.units /\ \A u \in b.units : disk.files[u] = <<s.app[u], world.dist>>
    BY <1>2 DEF EmissionInv
  <2>2. \A u \in b.units : disk.files[u][1] = s.app[u] /\ disk.files[u][2] = world.dist
    BY <2>1
  <2>3. QED
    BY <2>1, <2>2
<1>7. b.variant = "use" =>
          /\ disk.profile # None /\ DOMAIN disk.profile.image.parts = b.units
          /\ \A u \in b.units : SameObject(disk.profile.image.parts[u], CleanPart(u, "gen"))
  BY <1>2, RightSame, CleanIsRight DEF ImagesInv, Parts, Variants
<1>8. told'.last.fresh /\ told'.last.oneEmission /\ told'.last.profiled
  <2> DEFINE fresh == disk.exe # None /\ Clean(disk.exe, b.variant) /\ disk.exe.bolted = b.bolt
             oneEmission == (\A u \in b.units : disk.files[u][2] = world.dist)
                            /\ \E s \in Settings : DOMAIN s.app \cap Units = b.units
                                  /\ \A u \in b.units : disk.files[u][1] = s.app[u]
             profiled == b.variant = "use" =>
                            /\ disk.profile # None /\ DOMAIN disk.profile.image.parts = b.units
                            /\ \A u \in b.units : SameObject(disk.profile.image.parts[u], CleanPart(u, "gen"))
  <2>1. told' = [told EXCEPT !.last = [fresh |-> fresh, oneEmission |-> oneEmission, profiled |-> profiled]]
    BY DEF ExitOk
  <2>2. fresh /\ oneEmission /\ profiled
    BY <1>2, <1>5, <1>6, <1>7
  <2> HIDE DEF fresh, oneEmission, profiled
  <2>3. told'.last = [fresh |-> fresh, oneEmission |-> oneEmission, profiled |-> profiled]
    BY <2>1 DEF Shapes
  <2>4. QED
    BY <2>2, <2>3
<1>9. QED
  BY <1>4, <1>8 DEF ArtifactsExact, ExeIsFresh, OneEmission, ProfileMatches

----------------
(* Kills, edits and the whole *)

LEMMA KillStep ==
    ASSUME BuildInv, NoneApart, Kill
    PROVE  BuildInv'
<1> USE DEF BuildInv
<1>1. b' = Idle /\ world' = world /\ KeepsTold /\ Working
  BY DEF Kill, KeepsTold, Shapes, Working
<1>2. CASE disk' = disk
  BY <1>1, <1>2, Stopped, ToldKept DEF KeepsTold, KeepsDisk, Shapes
<1>3. ~Working' /\ ~Emitting' /\ ~Building' /\ ~Compiling'
  BY <1>1 DEF Working, Emitting, Building, Compiling
<1>4. ASSUME NEW w \in 1 .. Jobs, b.pc = "units", b.work[w].pc = "cxx", NEW o,
             disk' = [disk EXCEPT !.obj[<<b.work[w].unit, SlotOf(b.variant)>>] = o]
      PROVE  BuildInv'
  <2> DEFINE u == b.work[w].unit
  <2>1. b.work[w] \in Worker
    BY <1>1 DEF Shapes
  <2>2. u \in Units /\ b.work[w] # Idle
    BY <1>4, <2>1, WorkerKinds
  <2>3. JobOK(w)
    BY <1>1, <1>4, <2>2 DEF WorkInv, Busy
  <2>4. Place(u) = <<u, SlotOf(b.variant)>> /\ Place(u) \in Places
    BY <2>2, PlaceNow
  <2>5. disk.objKey[Place(u)] = None
    BY <1>4, <2>3 DEF JobOK
  <2>6. /\ KeepsDisk({"obj"}) /\ disk'.obj = [disk.obj EXCEPT ![Place(u)] = o]
    BY <1>4, <2>4 DEF Shapes, KeepsDisk, DiskFields
  <2>7. /\ disk'.files = disk.files /\ disk'.objKey = disk.objKey /\ disk'.pch = disk.pch
        /\ disk'.pchObj = disk.pchObj /\ disk'.pchKey = disk.pchKey /\ disk'.report = disk.report /\ DOMAIN disk' = DiskFields
    BY <2>6 DEF KeepsDisk, DiskFields
  <2> HIDE DEF u
  <2>8. Shapes'
    BY <1>1, <1>3, <2>6, <2>7 DEF Shapes, KeepsTold
  <2>9. EmissionInv'
    BY <1>1, <1>3, <2>7 DEF EmissionInv, Emission
  <2>10. KeysInv'
    <3> SUFFICES ASSUME NEW z \in Units, NEW s \in Slots, disk.objKey[<<z, s>>] # None
                 PROVE  KeyOK(disk.objKey[<<z, s>>], disk.obj[<<z, s>>], z, s)'
      BY <2>7 DEF KeysInv
    <3>1. KeyOK(disk.objKey[<<z, s>>], disk.obj[<<z, s>>], z, s)
      BY DEF KeysInv
    <3>2. <<z, s>> # Place(u) /\ <<z, s>> \in Places
      BY <2>5 DEF Places
    <3>3. disk'.obj[<<z, s>>] = disk.obj[<<z, s>>]
      BY <2>6, <3>2 DEF Shapes
    <3>4. QED
      BY <1>1, <1>3, <2>7, <3>1, <3>3 DEF KeyOK, KeepsTold
  <2>11. PchInv' /\ MemoInv' /\ WorkInv' /\ ImagesInv'
    BY <1>3, <2>7 DEF PchInv, MemoInv, WorkInv, ImagesInv
  <2>12. QED
    BY <1>1, <2>8, <2>9, <2>10, <2>11, ToldKept DEF KeepsTold
<1>5. ASSUME b.pc = "units", b.prefix = "pch", NEW p, disk' = [disk EXCEPT !.pch = p]
      PROVE  BuildInv'
  <2>1. KeepsDisk({"pch"})
    BY <1>5 DEF Shapes, KeepsDisk, DiskFields
  <2>2. /\ disk'.files = disk.files /\ disk'.obj = disk.obj /\ disk'.objKey = disk.objKey
        /\ disk'.pchObj = disk.pchObj /\ disk'.pchKey = disk.pchKey /\ disk'.report = disk.report /\ DOMAIN disk' = DiskFields
    BY <2>1 DEF KeepsDisk, DiskFields
  <2>3. disk.pchKey = None
    BY <1>1, <1>5 DEF PchInv, Compiling
  <2>4. Shapes'
    BY <1>1, <1>3, <2>2 DEF Shapes, KeepsTold
  <2>5. EmissionInv'
    BY <1>1, <1>3, <2>2 DEF EmissionInv, Emission
  <2>6. KeysInv'
    <3> SUFFICES ASSUME NEW z \in Units, NEW s \in Slots, disk.objKey[<<z, s>>] # None
                 PROVE  KeyOK(disk.objKey[<<z, s>>], disk.obj[<<z, s>>], z, s)'
      BY <2>2 DEF KeysInv
    <3>1. KeyOK(disk.objKey[<<z, s>>], disk.obj[<<z, s>>], z, s)
      BY DEF KeysInv
    <3>2. QED
      BY <1>1, <1>3, <2>2, <3>1 DEF KeyOK, KeepsTold
  <2>7. PchInv' /\ MemoInv' /\ WorkInv' /\ ImagesInv'
    BY <1>3, <2>2, <2>3 DEF PchInv, MemoInv, WorkInv, ImagesInv
  <2>8. QED
    BY <1>1, <2>4, <2>5, <2>6, <2>7, ToldKept DEF KeepsTold
<1>6. \/ disk' = disk
      \/ \E w \in 1 .. Jobs : /\ b.pc = "units" /\ b.work[w].pc = "cxx"
                              /\ \E o : disk' = [disk EXCEPT !.obj[<<b.work[w].unit, SlotOf(b.variant)>>] = o]
      \/ b.pc = "units" /\ b.prefix = "pch" /\ \E p : disk' = [disk EXCEPT !.pch = p]
  BY DEF Kill
<1>7. QED
  BY <1>2, <1>4, <1>5, <1>6

LEMMA EditStep ==
    ASSUME BuildInv, NoneApart, Edit
    PROVE  BuildInv'
<1> USE DEF BuildInv
<1>1. b' = Idle /\ b = Idle /\ disk' = disk /\ KeepsTold
  BY DEF Edit, KeepsTold, Shapes
<1>2. DOMAIN world' = WorldFields /\ \E s \in Settings : world'.app = s.app
  <2>1. CASE \E s \in Settings : world' = [world EXCEPT !.app = s.app, !.env = s.env]
    BY <2>1 DEF Shapes, WorldFields
  <2>2. CASE world' = [world EXCEPT !.r = 3 - @]
    BY <2>2 DEF Shapes, WorldFields
  <2>3. CASE world' = [world EXCEPT !.dist = 3 - @]
    BY <2>3 DEF Shapes, WorldFields
  <2>4. QED
    BY <2>1, <2>2, <2>3 DEF Edit
<1>3. QED
  BY <1>1, <1>2, Stopped, ToldKept DEF KeepsTold, KeepsDisk, Shapes

LEMMA InitHolds ==
    ASSUME NoneApart, Init
    PROVE  BuildInv
<1>1. ~Working /\ ~Emitting /\ ~Building /\ ~Compiling
  BY DEF Init, Working, Emitting, Building, Compiling
<1>2. Shapes
  BY <1>1 DEF Init, Shapes, WorldFields, DiskFields, Places
<1>3. disk.report.gen = None /\ disk.pchKey = None /\ \A u \in Units : \A s \in Slots : disk.objKey[<<u, s>>] = None
  BY DEF Init
<1>4. EmissionInv /\ KeysInv /\ PchInv /\ MemoInv /\ WorkInv /\ ImagesInv
  BY <1>1, <1>3 DEF EmissionInv, KeysInv, PchInv, MemoInv, WorkInv, ImagesInv
<1>5. ArtifactsExact
  BY DEF Init, ArtifactsExact, ExeIsFresh, OneEmission, ProfileMatches
<1>6. QED
  BY <1>2, <1>4, <1>5 DEF BuildInv

LEMMA NextHolds ==
    ASSUME BuildInv, NoneApart, [Next]_vars
    PROVE  BuildInv'
<1>1. CASE UNCHANGED vars
  <2>1. Flags' = Flags /\ PchFlags' = PchFlags
    BY <1>1, FlagsKept DEF vars
  <2>2. \A o, u, v : Right(o, u, v)' <=> Right(o, u, v)
    BY <1>1, RightKept DEF vars
  <2>3. (Working' <=> Working) /\ (Emitting' <=> Emitting) /\ (Building' <=> Building) /\ (Compiling' <=> Compiling)
    BY <1>1 DEF vars, Working, Emitting, Building, Compiling
  <2>4. Shapes'
    BY <1>1, <2>3 DEF vars, BuildInv, Shapes, Stages
  <2>5. EmissionInv'
    BY <1>1, <2>3 DEF vars, BuildInv, EmissionInv, Emission
  <2>6. KeysInv'
    <3>1. \A k, o, u, s : KeyOK(k, o, u, s)' <=> KeyOK(k, o, u, s)
      BY <1>1, <2>2, <2>3 DEF vars, KeyOK
    <3>2. QED
      BY <1>1, <3>1 DEF vars, BuildInv, KeysInv
  <2>7. PchInv' /\ MemoInv'
    BY <1>1, <2>1, <2>3 DEF vars, BuildInv, PchInv, RightPch, MemoInv
  <2>8. WorkInv'
    <3>1. (\A w : Busy(w)' <=> Busy(w)) /\ (\A u : Place(u)' = Place(u))
      BY <1>1 DEF vars, Busy, Place
    <3>2. \A w : JobOK(w)' <=> JobOK(w)
      BY <1>1, <2>2, <3>1 DEF vars, JobOK
    <3>3. QED
      BY <1>1, <2>2, <2>3, <3>1, <3>2 DEF vars, BuildInv, WorkInv
  <2>9. ImagesInv'
    <3>1. \A i, v : Parts(i, v)' <=> Parts(i, v)
      BY <1>1, <2>2 DEF vars, Parts
    <3>2. \A i : Made(i)' <=> Made(i)
      BY <1>1, <2>1, <3>1 DEF vars, Made, RightPch
    <3>3. QED
      BY <1>1, <2>3, <3>1, <3>2 DEF vars, BuildInv, ImagesInv
  <2>10. QED
    BY <1>1, <2>4, <2>5, <2>6, <2>7, <2>8, <2>9, ToldKept DEF vars, BuildInv
<1>2. CASE Next
  <2>1. CASE \E kind \in {"full", "emit"} : \E way \in Ways : Start(kind, way[1], way[2])
    BY <2>1, WaysAssumption, StartStep
  <2>2. CASE \E way \in Ways : LinkOnly(way[1], way[2])
    BY <2>2, WaysAssumption, LinkOnlyStep
  <2>3. CASE Compile \/ EmitFile \/ EmitDone \/ BeginLink \/ Train
    BY <2>3, CompileStep, EmitFileStep, EmitDoneStep, BeginLinkStep, TrainStep
  <2>4. CASE PchStart \/ PchCompiled \/ PchObjectCompiled \/ PchFails \/ PchKeyed
    BY <2>4, PchStartStep, PchCompiledStep, PchObjectStep, PchFailsStep, PchKeyedStep
  <2>5. CASE \E w \in 1 .. Jobs : Take(w) \/ Check(w) \/ Compiled(w) \/ CompileFails(w) \/ Keyed(w)
    BY <2>5, TakeStep, CheckStep, CompiledStep, CompileFailsStep, KeyedStep
  <2>6. CASE UnitsDone \/ Link \/ Bolt \/ BoltMovesInput \/ BoltTakesPlace \/ ExitOk
    BY <2>6, UnitsDoneStep, LinkStep, BoltSteps, ExitOkStep
  <2>7. CASE Kill \/ Edit
    BY <2>7, KillStep, EditStep
  <2>8. QED
    BY <1>2, <2>1, <2>2, <2>3, <2>4, <2>5, <2>6, <2>7 DEF Next
<1>3. QED
  BY <1>1, <1>2

\* What a build of scripts/build.mjs that ends well leaves is what a build from nothing would have made, whichever
\* objects, precompiled headers, keys and profiles earlier builds left on disk: with other settings, failed, or killed
\* between any two steps of any number of workers.
THEOREM ArtifactsExactCorrect ==
    ASSUME NoneApart
    PROVE  BuildSpec => []ArtifactsExact
<1>1. Init => BuildInv
  BY InitHolds
<1>2. BuildInv /\ [Next]_vars => BuildInv'
  BY NextHolds
<1>3. BuildInv => ArtifactsExact
  BY DEF BuildInv
<1>4. QED
  BY <1>1, <1>2, <1>3, PTL DEF BuildSpec
=============================================================================
