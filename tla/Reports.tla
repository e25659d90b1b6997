------------------------------- MODULE Reports -------------------------------
(***************************************************************************)
(* What the benchmark scripts compute: the order of the drivers in a round *)
(* (run.mjs, stress.mjs), medians, bench/summarize-goal-http.mjs's check   *)
(* of the sample matrix, and bench/mongodb's record-sample.mjs and         *)
(* summarize.mjs, which read each other's rows; and scripts/boxed-cells.mjs *)
(* on the compiler's representations.                                      *)
(***************************************************************************)
EXTENDS Evaluate

----------------
(* median() and the rotation of a round.  Twice the median, to stay whole. *)

Sorted(values) == SortSeq(values, LAMBDA a, b: a < b)
median(values) ==
    LET sorted == Sorted(values)
        middle == Len(sorted) \div 2 IN
    IF Len(sorted) % 2 = 0 THEN sorted[middle] + sorted[middle + 1] ELSE 2 * sorted[middle + 1]
\* drivers.slice(round % n), then drivers.slice(0, round % n)
rotated(drivers, round) == Cut(drivers, round % Len(drivers)) \o SubSeq(drivers, 1, round % Len(drivers))
Schedule(drivers, rounds) == [r \in 1..rounds |-> rotated(drivers, r - 1)]

----------------
(* validateExpectedMatrix(samples, expectedRounds): samples [server, path, *)
(* round].                                                                 *)

HonoServers == {"gea-hono", "node-hono"}
ServerOrder == HonoServers \cup {"gea-raw"}
Paths == {"/"}
SampleKey(s) == <<s.server, s.path>>
expectedKeys(samples) ==
    (IF \A i \in DOMAIN samples : samples[i].server \in HonoServers THEN HonoServers ELSE ServerOrder) \X Paths
seenRounds(samples, k) == {samples[i].round : i \in {j \in DOMAIN samples : SampleKey(samples[j]) = k}}
Duplicate(samples) == \E i, j \in DOMAIN samples : i < j /\ samples[i] = samples[j]
validSample(samples, i, rounds) == samples[i].round \in 1..rounds /\ SampleKey(samples[i]) \in expectedKeys(samples)
matrixValid(samples, rounds) ==
    /\ \A i \in DOMAIN samples : validSample(samples, i, rounds)
    /\ ~Duplicate(samples)
    /\ Len(samples) = Cardinality(expectedKeys(samples)) * rounds
    /\ \A k \in expectedKeys(samples) : seenRounds(samples, k) = 1..rounds
\* summarize(): per key the number of samples and the median of their rates
summarize(samples) ==
    [k \in {SampleKey(samples[i]) : i \in DOMAIN samples} |->
        LET group == SelectSeq(samples, LAMBDA s: SampleKey(s) = k) IN
        [count |-> Len(group), median |-> median([i \in DOMAIN group |-> group[i].rps])]]

----------------
(* record-sample.mjs appends a row for a driver's output that agrees with   *)
(* what was asked for; summarize.mjs reads the rows back.                   *)

Drivers == {"node", "rust", "cpp"}
Workloads == {"insert-one", "insert-many"}
WriteConcerns == {"w1-jfalse", "w1-jtrue"}
RateScale == 2           \* rates are in half units, elapsed times 1 or 2
CeilDiv(a, b) == (a + b - 1) \div b
expectedOperations(asked) == IF asked.workload = "insert-one" THEN asked.documents ELSE CeilDiv(asked.documents, asked.batch)
RateFits(rate, n, elapsed) == rate > 0 /\ rate * elapsed = RateScale * n
records(asked, out) ==
    /\ asked.round >= 1 /\ asked.documents >= 1 /\ asked.batch >= 1
    /\ out.driver = asked.driver /\ out.workload = asked.workload /\ out.concern = asked.concern
    /\ out.documents = asked.documents /\ out.operations = expectedOperations(asked)
    /\ out.batch = asked.batch /\ out.count = asked.documents
    /\ out.elapsed > 0
    /\ RateFits(out.documentRate, asked.documents, out.elapsed) /\ RateFits(out.operationRate, expectedOperations(asked), out.elapsed)
row(asked, out) ==
    [round |-> asked.round, driver |-> asked.driver, workload |-> asked.workload, concern |-> asked.concern, documents |-> asked.documents,
     operations |-> expectedOperations(asked), elapsed |-> out.elapsed, rate |-> out.documentRate, count |-> out.count]
\* the rows of a recording: a run that is refused appends none
Recorded(runs) ==
    LET kept == SelectSeq(runs, LAMBDA r: records(r.asked, r.out)) IN [i \in DOMAIN kept |-> row(kept[i].asked, kept[i].out)]

rowValid(r) ==
    /\ r.driver \in Drivers /\ r.workload \in Workloads /\ r.concern \in WriteConcerns
    /\ r.elapsed > 0 /\ r.count = r.documents
GroupKey(r) == <<r.driver, r.workload, r.concern>>
\* summarize.mjs accepts the rows; rounds = 0 stands for no --expect-rounds
groupValid(rows, rounds) ==
    /\ rows # <<>> /\ \A i \in DOMAIN rows : rowValid(rows[i])
    /\ \A i, j \in DOMAIN rows : i # j /\ GroupKey(rows[i]) = GroupKey(rows[j]) => rows[i].round # rows[j].round
    /\ rounds > 0 =>
          /\ Len(rows) = Cardinality(Drivers \X Workloads \X WriteConcerns) * rounds
          /\ \A k \in Drivers \X Workloads \X WriteConcerns :
                LET group == SelectSeq(rows, LAMBDA r: GroupKey(r) = k) IN
                Len(group) = rounds /\ 1..rounds \subseteq {group[i].round : i \in DOMAIN group}

----------------
(* The median has as many samples below as above it: what a report prints  *)
(* does not depend on the order of the rounds.                             *)
MedianExact ==
    Given("median") =>
        LET v == in.values
            m == median(v) IN
        /\ 2 * Cardinality({i \in DOMAIN v : 2 * v[i] < m}) <= Len(v)
        /\ 2 * Cardinality({i \in DOMAIN v : 2 * v[i] > m}) <= Len(v)
        /\ \A w \in {[i \in DOMAIN v |-> v[Len(v) + 1 - i]]} : median(w) = m

(* In every round each driver runs once, and over any number of rounds     *)
(* each driver has each place in the order as often as any other, give or  *)
(* take one.                                                               *)
PlacesFair ==
    Given("rotation") =>
        LET drivers == [i \in 1..in.drivers |-> i]
            plan == Schedule(drivers, in.rounds)
            At_(d, place) == Cardinality({r \in DOMAIN plan : plan[r][place] = d}) IN
        /\ \A r \in DOMAIN plan : ToSet(plan[r]) = ToSet(drivers) /\ Len(plan[r]) = Len(drivers)
        /\ \A d, e \in ToSet(drivers), place \in DOMAIN drivers : At_(d, place) - At_(e, place) \in -1..1

(* A matrix is accepted exactly when it holds one sample of every server,  *)
(* path and round, in any order, and nothing else; its summary then has    *)
(* one line per server and path, each from all the rounds.                 *)
MatrixExact ==
    Given("matrix") =>
        LET all == [server : IF \A i \in DOMAIN in.samples : in.samples[i].server \in HonoServers THEN HonoServers ELSE ServerOrder,
                    path : Paths, round : 1..in.rounds, rps : {1}] IN
        /\ matrixValid(in.samples, in.rounds) = (ToSet(in.samples) = all /\ Len(in.samples) = Cardinality(all))
        /\ matrixValid(in.samples, in.rounds) => \A k \in DOMAIN summarize(in.samples) : summarize(in.samples)[k].count = in.rounds

(* A recording is summarised exactly when it has each round of a driver,   *)
(* workload and write concern once, and with --expect-rounds exactly when  *)
(* it has all of them: what record-sample.mjs checked of a row is enough   *)
(* for summarize.mjs, save that it lets any name through that the output   *)
(* repeats (lines 49-55), while summarize.mjs knows a few.                 *)
RecordedReadable ==
    Given("record") =>
        LET rows == Recorded(in.runs)
            Known(r) == r.driver \in Drivers /\ r.workload \in Workloads /\ r.concern \in WriteConcerns
            cells == {<<GroupKey(rows[i]), rows[i].round>> : i \in DOMAIN rows}
            once == Cardinality(cells) = Len(rows) IN
        /\ groupValid(rows, 0) <=> rows # <<>> /\ once /\ \A i \in DOMAIN rows : Known(rows[i])
        /\ groupValid(rows, in.rounds) <=> once /\ cells = (Drivers \X Workloads \X WriteConcerns) \X (1..in.rounds)

\* Reports summarize exactly the samples they were given.
ReportsExact == MedianExact /\ PlacesFair /\ MatrixExact /\ RecordedReadable

----------------
(* scripts/boxed-cells.mjs: for every selected representation that holds a *)
(* `dynamic' part, the path to the first one, the innermost named carrier  *)
(* on that path, the root the cell is counted under, and the histograms.   *)
(* A representation is [kind, name, parts]: `parts' maps a role (fields,   *)
(* element, parameters...) to the representations in it, in order.         *)
(*                                                                         *)
(* dynamicPathOf(): the children in order, each labelled by role and place.*)

AbiKinds == {"function", "function-family", "constructor-family", "constructor-value-dispatch", "function-value-family", "function-value-dispatch"}
\* per kind the roles of its children, in order; a kind not named here has none
Roles ==
    ("record" :> <<"fields">>) @@ ("record-with-index" :> <<"fields", "indexes">>) @@ ("proxy-object" :> <<"target", "handler">>)
    @@ ("borrowed-ref" :> <<"referent">>) @@ ("array-object" :> <<"element", "extension">>) @@ ("optional" :> <<"payload">>)
    @@ [k \in {"dense-buffer", "native-sequence"} |-> <<"element">>] @@ ("iterator" :> <<"element", "resume", "completion">>)
    @@ [k \in {"promise", "dictionary"} |-> <<"value">>] @@ ("keyed-collection" :> <<"key", "value">>) @@ ("tagged-union" :> <<"arms">>)
    @@ ("function-and-constructor" :> <<"call parameters", "call result", "call receiver", "new parameters", "new result", "new receiver">>)
    @@ [k \in AbiKinds |-> <<"parameters", "result", "receiver">>]
RolesOf(kind) == IF kind \in DOMAIN Roles THEN Roles[kind] ELSE <<>>
InRole(value, role) == IF role \in DOMAIN value.parts THEN value.parts[role] ELSE <<>>
Children(value) ==
    FlattenSeq([r \in DOMAIN RolesOf(value.kind) |->
        LET role == RolesOf(value.kind)[r] IN
        [i \in DOMAIN InRole(value, role) |-> [label |-> <<role, i>>, value |-> InRole(value, role)[i]]]])
\* the compiler's walkRepresentation reaches every part of a value
RECURSIVE containsDynamic(_)
containsDynamic(value) ==
    value.kind = "dynamic" \/ \E role \in DOMAIN value.parts : \E i \in DOMAIN value.parts[role] : containsDynamic(value.parts[role][i])
\* a record by its shape, a function by its id, a constructor family by its first member
anchorOf(value) == IF value.kind \in {"record", "record-with-index", "native-record-ref", "function", "constructor-family"} THEN value.name ELSE "none"
NoPath == [found |-> FALSE, path |-> <<>>, reason |-> "none", anchor |-> "none", anchorPath |-> <<>>]
MaxDepth == 16
Through(value, child, inner) ==
    LET path == <<child.label>> \o inner.path IN
    IF inner.anchor # "none" THEN [inner EXCEPT !.path = path]
    ELSE [found |-> TRUE, path |-> path, reason |-> inner.reason, anchor |-> anchorOf(value),
          anchorPath |-> IF anchorOf(value) # "none" THEN path ELSE <<>>]
FirstHit(value, children, inner) ==
    LET hits == {i \in DOMAIN children : inner[i].found} IN
    IF hits = {} THEN NoPath ELSE Through(value, children[Min(hits)], inner[Min(hits)])
RECURSIVE dynamicPathOf(_, _)
dynamicPathOf(value, depth) ==
    IF depth > MaxDepth THEN NoPath
    ELSE IF value.kind = "dynamic" THEN [NoPath EXCEPT !.found = TRUE, !.reason = value.name]
    ELSE LET children == Children(value) IN
         FirstHit(value, children,
                  [i \in DOMAIN children |-> IF containsDynamic(children[i].value) THEN dynamicPathOf(children[i].value, depth + 1) ELSE NoPath])

----------------
(* reportBoxedCells(): cells are [rep, variable, site]; a site is          *)
(* <<file, line>> or <<>>, unlocated; a variable is "none" for a cell that *)
(* no binding names.                                                       *)

variableRootOf(cell, found) == <<"var", cell.variable, found.path>>
RootFound(cell, found) ==
    IF found.anchor # "none" THEN <<"type", found.anchor, found.anchorPath>>
    ELSE IF cell.variable # "none" THEN variableRootOf(cell, found)
    ELSE <<"site", "none", cell.site>>
CellRoot(cell) == RootFound(cell, dynamicPathOf(cell.rep, 0))
ShapeOf(cell) == <<cell.rep.kind, dynamicPathOf(cell.rep, 0).path>>
FileOf(site) == IF site = <<>> THEN "<unlocated>" ELSE site[1]
bump(map, key) == [k \in DOMAIN map \cup {key} |-> IF k \in DOMAIN map THEN map[k] + (IF k = key THEN 1 ELSE 0) ELSE 1]
NoReport == [cells |-> 0, unlocated |-> 0, byRoot |-> <<>>, byFile |-> <<>>, bySite |-> <<>>, byShape |-> <<>>]
count(r, cell) ==
    IF ~containsDynamic(cell.rep) THEN r
    ELSE [cells |-> r.cells + 1, unlocated |-> r.unlocated + (IF cell.site = <<>> THEN 1 ELSE 0), byRoot |-> bump(r.byRoot, CellRoot(cell)),
          byFile |-> bump(r.byFile, FileOf(cell.site)), bySite |-> bump(r.bySite, cell.site), byShape |-> bump(r.byShape, ShapeOf(cell))]
reportBoxedCells(selected) == FoldLeft(count, NoReport, selected)

----------------
\* the representations met along a path of labels, the root first
RECURSIVE Along(_, _)
Along(value, path) ==
    IF path = <<>> THEN <<value>>
    ELSE LET part == value.parts[path[1][1]][path[1][2]] IN <<value>> \o Along(part, Cut(path, 1))
Total(map) == FoldSet(LAMBDA k, n: n + map[k], 0, DOMAIN map)

(* A cell with a dynamic part anywhere is given a path that leads to a     *)
(* dynamic part, with that part's reason, and the anchor is the last named *)
(* carrier before it; a cell without one is given none.                    *)
LeadsThrough(found, met) ==
    LET named == {i \in 1..(Len(met) - 1) : anchorOf(met[i]) # "none"} IN
    /\ met[Len(met)].kind = "dynamic" /\ met[Len(met)].name = found.reason
    /\ IF named = {} THEN found.anchor = "none"
       ELSE found.anchor = met[Max(named)].name /\ found.anchorPath = Cut(found.path, Max(named) - 1)
PathFits(rep, found) ==
    /\ found.found = containsDynamic(rep)
    /\ found.found => LeadsThrough(found, Along(rep, found.path))
PathLeadsToDynamic == Given("boxed") => PathFits(in.rep, dynamicPathOf(in.rep, 0))

(* Every boxed cell is counted once in each histogram, a file's count is   *)
(* that of its sites, and what shares a named carrier and the path below   *)
(* it is one root however many cells embed it.                             *)
SharesRoot(c, d, a, b) ==      \* a, b: what was found in the cells
    a.anchor # "none" => (RootFound(c, a) = RootFound(d, b)) = (a.anchor = b.anchor /\ a.anchorPath = b.anchorPath)
CensusFits(r, boxed) ==
    /\ r.cells = Cardinality(boxed)
    /\ Total(r.byRoot) = r.cells /\ Total(r.byFile) = r.cells /\ Total(r.bySite) = r.cells /\ Total(r.byShape) = r.cells
    /\ \A f \in DOMAIN r.byFile : r.byFile[f] = Total([s \in {t \in DOMAIN r.bySite : FileOf(t) = f} |-> r.bySite[s]])
    /\ r.unlocated = Cardinality({i \in boxed : in.cells[i].site = <<>>})
    /\ \A i, j \in boxed :
         SharesRoot(in.cells[i], in.cells[j], dynamicPathOf(in.cells[i].rep, 0), dynamicPathOf(in.cells[j].rep, 0))
CensusConsistent ==
    Given("census") => CensusFits(reportBoxedCells(in.cells), {i \in DOMAIN in.cells : containsDynamic(in.cells[i].rep)})

\* The census of boxed cells counts every dynamic part, under a path that leads to it.
BoxedCellsExact == PathLeadsToDynamic /\ CensusConsistent
=============================================================================
