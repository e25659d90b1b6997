-------------------------------- MODULE Files --------------------------------
(***************************************************************************)
(* node:fs (fs.ts): paths from file: URLs, Stats, the three forms of stat, *)
(* which share one native status buffer, the promises API and ReadStream.  *)
(* A tree maps paths to nodes [type, to, bytes, ino, readable]; a result   *)
(* is [is, code, value].                                                   *)
(***************************************************************************)
EXTENDS Evaluate

Result(is, code, value) == [is |-> is, code |-> code, value |-> value]
Throw_(code) == Result("throws", code, <<>>)

----------------
(* filePath(): a path is [url |-> FALSE, text] or [url |-> TRUE, protocol, *)
(* hostname, pathname], its characters or escapes like "%61".              *)

Escapes == [e \in {"%2f", "%2F", "%5c", "%61", "%43"} |->
              CASE e = "%61" -> "a" [] e = "%43" -> "C" [] e = "%5c" -> "\\" [] OTHER -> "/"]
decodeURIComponent(s) == [i \in DOMAIN s |-> IF s[i] \in DOMAIN Escapes THEN Escapes[s[i]] ELSE s[i]]
Undecodable(s) == \E i \in DOMAIN s : s[i] = "%bad"
Has(s, chars) == \E i \in DOMAIN s : s[i] \in chars
Letters == {"a", "c", "C"}
windowsFilePath(p) ==
    LET pathname == decodeURIComponent(ToBackslash(p.pathname)) IN
    IF Has(p.pathname, {"%2f", "%2F", "%5c"}) THEN Throw_("TypeError")
    ELSE IF Undecodable(p.pathname) THEN Throw_("URIError")
    ELSE IF p.hostname \notin {"", "localhost"} THEN Result("path", "", <<"\\", "\\", p.hostname>> \o pathname)
    ELSE IF Len(pathname) < 3 \/ At(pathname, 2) \notin Letters \/ At(pathname, 3) # ":" THEN Throw_("TypeError")
    ELSE Result("path", "", Cut(pathname, 1))
filePath(platform, p) ==
    IF ~p.url THEN Result("path", "", p.text)
    ELSE IF p.protocol # "file:" THEN Throw_("TypeError")
    ELSE IF platform = "win32" THEN windowsFilePath(p)
    ELSE IF p.hostname \notin {"", "localhost"} \/ Has(p.pathname, {"%2f", "%2F"}) THEN Throw_("TypeError")
    ELSE IF Undecodable(p.pathname) THEN Throw_("URIError")
    ELSE Result("path", "", decodeURIComponent(p.pathname))

----------------
(* constants and Stats: the type is the top four bits of the 16-bit mode.  *)

TypeBits == [file |-> 8, directory |-> 4, character |-> 2, block |-> 6, fifo |-> 1, link |-> 10, socket |-> 12]
Masked(mode) == (mode \div 4096) % 16
\* every bit of `type' is set in the mode
isType(mode, type) == Masked(mode) = TypeBits[type]
Predicates(mode) == {t \in DOMAIN TypeBits : isType(mode, t)}

----------------
(* The host: a lookup follows links, eight at most here.                   *)

Linked(tree, path) == path \in DOMAIN tree /\ tree[path].type = "link"
LinkTarget(tree, path) == FoldLeft(LAMBDA q, i: IF Linked(tree, q) THEN tree[q].to ELSE q, path, [i \in 1..8 |-> i])
statFile(tree, path) ==
    LET t == LinkTarget(tree, path) IN
    IF Linked(tree, t) THEN Result("errno", "ELOOP", <<>>)
    ELSE IF t \notin DOMAIN tree THEN Result("errno", "ENOENT", <<>>)
    ELSE IF tree[t].type \in {"EACCES", "ENOTDIR"} THEN Result("errno", tree[t].type, <<>>)
    ELSE Result("ok", "", <<tree[t].ino, tree[t].type>>)
Readable_(tree, path) == statFile(tree, path).is = "ok" /\ tree[LinkTarget(tree, path)].readable
canAccess(tree, path, mode) == statFile(tree, path).is = "ok" /\ (mode = "R_OK" => Readable_(tree, path))
\* gea::node::read_file throws for what cannot be read as a file
readFileBytes(tree, path) ==
    IF Readable_(tree, path) /\ tree[LinkTarget(tree, path)].type = "file"
    THEN Result("bytes", "", tree[LinkTarget(tree, path)].bytes) ELSE Throw_("read")

----------------
(* stat.  A state is [tree, last, jobs, seen]: gea_node_fs_last_stat, the   *)
(* queued callbacks and what the callers got.                               *)

StatFilled(s, answer) == IF answer.is = "ok" THEN [s EXCEPT !.last = answer.value] ELSE s
\* statPath: throws, or fills the buffer and copies it into a new Stats
Statted(s, call, p, answer) ==
    IF call.bigint THEN [state |-> s, result |-> Throw_("notImplemented")]
    ELSE IF p.is = "throws" THEN [state |-> s, result |-> p]
    ELSE IF answer.is # "ok" THEN [state |-> s, result |-> Result("throws", answer.code, <<"syscall">>)]
    ELSE [state |-> StatFilled(s, answer), result |-> Result("stats", "", StatFilled(s, answer).last)]
statPath(s, call) ==
    LET p == filePath("linux", call.path) IN Statted(s, call, p, statFile(s.tree, p.value))
IsSystemError(r) == r.is = "throws" /\ r.value = <<"syscall">>
Answered(s, call, result) == [s EXCEPT !.seen = Append(@, [n |-> call.n, result |-> result])]
Quieted(x, call) ==
    Answered(x.state, call, IF call.quiet /\ IsSystemError(x.result) /\ x.result.code \in {"ENOENT", "ENOTDIR"}
                       THEN Result("undefined", "", <<>>) ELSE x.result)
statSync(s, call) == Quieted(statPath(s, call), call)
Queued(x, call, late) == [x.state EXCEPT !.jobs = Append(@, [n |-> call.n, late |-> late, result |-> x.result])]
CallsBack(x, call, late) ==
    IF x.result.is = "throws" /\ ~IsSystemError(x.result) THEN Answered(x.state, call, x.result) ELSE Queued(x, call, late)
\* the callback reads the buffer when it runs
statFault(s, call) == CallsBack(statPath(s, call), call, TRUE)
stat(s, call) == CallsBack(statPath(s, call), call, FALSE)
\* async: a throw is a rejection; the promise's reactions are jobs too
promisesStat(s, call) == Queued(statPath(s, call), call, FALSE)
Unlinked(s, call) == [s EXCEPT !.tree = [q \in DOMAIN @ \ {call.path.text} |-> @[q]]]
FsCall(s, call) == CASE call.op = "statSync" -> statSync(s, call) [] call.op = "stat" -> stat(s, call)
                   [] call.op = "promises" -> promisesStat(s, call) [] OTHER -> Unlinked(s, call)
Turn(tree, calls) ==
    LET s == FoldLeft(FsCall, [tree |-> tree, last |-> <<0, "none">>, jobs |-> <<>>, seen |-> <<>>], calls) IN
    FoldLeft(LAMBDA t, j: Answered(t, j, IF j.late /\ j.result.is = "stats" THEN Result("stats", "", t.last) ELSE j.result), s, s.jobs)

----------------
(* readFile, access, existsSync and ReadStream.                            *)

access(tree, p, mode) ==
    LET f == filePath("linux", p) IN
    IF f.is = "throws" THEN f ELSE IF canAccess(tree, f.value, mode) THEN Result("ok", "", <<>>) ELSE Throw_("ENOENT")
existsSync(tree, p) == canAccess(tree, filePath("linux", p).value, "F_OK")
readFile(tree, p) == LET a == access(tree, p, "R_OK") IN IF a.is = "throws" THEN a ELSE readFileBytes(tree, filePath("linux", p).value)
\* Buffer.subarray: negative bounds count from the end, then both are clamped
Clamped(at, size) == IF at < 0 THEN Max({size + at, 0}) ELSE Min({at, size})
subarray(bytes, from, to) == SubSeq(bytes, Clamped(from, Len(bytes)) + 1, Clamped(to, Len(bytes)))
range(bytes, start, end) == subarray(bytes, start, (IF end = <<>> THEN Len(bytes) - 1 ELSE end[1]) + 1)
\* what a listener added after construction sees: one push, even of an empty range, then the end
ReadStream(tree, p, start, end) ==
    LET f == filePath("linux", p)
        bytes == readFileBytes(tree, f.value) IN
    IF f.is = "throws" THEN <<f>>
    ELSE IF bytes.is = "throws" THEN <<Result("error", bytes.code, <<>>)>>
    ELSE <<Result("data", "", range(bytes.value, start, end)), Result("end", "", <<>>)>>

----------------
(* A file: URL names the path whose segments are its own, decoded: no      *)
(* escape ever adds a separator, on either kind of host.                   *)
PathsFaithful ==
    Given("fileurl") =>
        LET r == filePath(in.platform, in.path)
            Parts(s) == SplitBy(s, LAMBDA c: c \in (IF in.platform = "win32" THEN {"/", "\\"} ELSE {"/"}))
            parts == Parts(in.path.pathname)
            decoded == [i \in DOMAIN parts |-> decodeURIComponent(parts[i])]
            prefix == IF in.platform # "win32" THEN <<>>
                      ELSE IF in.path.hostname \in {"", "localhost"} THEN <<"\\">> ELSE <<"\\", "\\", in.path.hostname>> IN
        r.is = "path" => /\ in.path.protocol = "file:"
                         /\ IF prefix = <<"\\">> THEN Parts(prefix \o r.value) = decoded
                            ELSE SubSeq(r.value, 1, Len(prefix)) = prefix /\ Parts(Cut(r.value, Len(prefix))) = decoded

(* A status with one of the seven file types answers true to exactly one   *)
(* predicate, whatever its permission bits; any other type to none.        *)
TypesExact ==
    Given("mode") => Predicates(in.bits * 4096 + in.permissions) = {t \in DOMAIN TypeBits : TypeBits[t] = in.bits}

(* Every call is answered once, about its own path and as of the call,     *)
(* however the calls of a turn mix: a later call that refills the one      *)
(* native buffer, or the file's removal, never shows in an earlier answer. *)
(* A promise answers after the turn, and the calls of one form that        *)
(* succeed are answered in the order they were made.                       *)
StatsFit(seen, asked) ==
    LET Gone(n) == {in.calls[i].path.text : i \in {j \in DOMAIN in.calls : in.calls[j].op = "remove" /\ in.calls[j].n < n}}
        Then(n) == [q \in DOMAIN in.tree \ Gone(n) |-> in.tree[q]]
        Expected(c) == statFile(Then(c.n), c.path.text) IN
    /\ Len(seen) = Len(asked) /\ {seen[i].n : i \in DOMAIN seen} = {asked[i].n : i \in DOMAIN asked}
    /\ \A i \in DOMAIN seen :
         LET c == in.calls[seen[i].n] IN
         ~c.path.url /\ ~c.bigint =>
             CASE seen[i].result.is = "stats" -> seen[i].result.value = Expected(c).value
               [] seen[i].result.is = "throws" -> seen[i].result.code = Expected(c).code
               [] OTHER -> c.quiet /\ Expected(c).code \in {"ENOENT", "ENOTDIR"}
    /\ \A i, j \in DOMAIN seen :
         LET c == in.calls[seen[i].n]
             d == in.calls[seen[j].n] IN
         /\ c.op = "promises" /\ d.op = "statSync" => j < i
         /\ c.op = d.op /\ seen[i].result.is = "stats" /\ seen[j].result.is = "stats" => (i < j <=> c.n < d.n)
StatIsOfItsCall ==
    Given("stats") => StatsFit(Turn(in.tree, in.calls).seen, SelectSeq(in.calls, LAMBDA c: c.op # "remove"))

(* A stream of a readable file delivers the bytes from start through end,  *)
(* end included, and then ends; of anything else it emits one error, which *)
(* is never thrown at the caller.                                          *)
RangeFits(events, whole) ==
    LET wanted == SelectSeq([i \in DOMAIN whole.value |-> <<i - 1, whole.value[i]>>],
                            LAMBDA b: b[1] >= in.start /\ (in.end # <<>> => b[1] <= in.end[1]))
        data == SelectSeq(events, LAMBDA e: e.is = "data") IN
    IF whole.is = "throws" THEN Len(events) = 1 /\ events[1].is = (IF filePath("linux", in.path).is = "throws" THEN "throws" ELSE "error")
    ELSE /\ existsSync(in.tree, in.path)
         /\ FlattenSeq([i \in DOMAIN data |-> data[i].value]) = [i \in DOMAIN wanted |-> wanted[i][2]]
         /\ events[Len(events)].is = "end"
RangeExact == Given("range") => RangeFits(ReadStream(in.tree, in.path, in.start, in.end), readFile(in.tree, in.path))

\* node:fs: paths, types, stats and ranges are those of the call that asked.
FilesExact == PathsFaithful /\ TypesExact /\ StatIsOfItsCall /\ RangeExact
=============================================================================
