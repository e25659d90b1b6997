-------------------------------- MODULE Path --------------------------------
(***************************************************************************)
(* node:path (src/runtime/node/path.ts): the posix and the win32 functions *)
(* over path spellings.  A path is a sequence of characters; a DOS device  *)
(* name such as CON is one character here.  The properties compare the     *)
(* functions with definitions by segments and with each other, on the      *)
(* inputs of kind "path": [kind, os, from, to].                            *)
(***************************************************************************)
EXTENDS Evaluate

CONSTANT Cwd         \* what process.cwd() answers, per os

isPosixPathSeparator(c) == c = "/"
isWin32PathSeparator(c) == c \in {"/", "\\"}
isWindowsDeviceRoot(c) == c \in {"c", "C", "d"}
Win(os) == os = "win32"
IsSep(os, c) == IF Win(os) THEN isWin32PathSeparator(c) ELSE isPosixPathSeparator(c)
Sep(os) == IF Win(os) THEN "\\" ELSE "/"
Dots == <<".", ".">>
----------------
(* normalizeString and win32NormalizeString: one scan, a segment is settled *)
(* at the separator after it.                                               *)

LastSep(os, res) == Last_(Indices(res, LAMBDA c: c = Sep(os)))
Appended(os, res, seg) == IF res = <<>> THEN seg ELSE res \o <<Sep(os)>> \o seg
EndsUp(s) == Len(s.res) >= 2 /\ s.segment = 2 /\ SubSeq(s.res, Len(s.res) - 1, Len(s.res)) = Dots
\* posix searches the separator, win32 counts back the length of the last segment
PopAt(os, s) == IF Win(os) THEN Len(s.res) - s.segment ELSE LastSep(os, s.res)
Popped(os, s) == IF Len(s.res) > 2 /\ PopAt(os, s) > 0 THEN SubSeq(s.res, 1, PopAt(os, s) - 1) ELSE <<>>
Settle(os, path, above, s, i) ==
    LET next == [s EXCEPT !.slash = i, !.dots = 0]
        with(res, n) == [next EXCEPT !.res = res, !.segment = n]
        popped == Popped(os, s) IN
    IF s.slash = i - 1 \/ s.dots = 1 THEN next
    ELSE IF s.dots = 2
         THEN IF ~EndsUp(s) /\ s.res # <<>> THEN with(popped, Len(popped) - LastSep(os, popped))
              ELSE IF above THEN with(Appended(os, s.res, Dots), 2) ELSE next
    ELSE with(Appended(os, s.res, SubSeq(path, s.slash + 1, i - 1)), i - s.slash - 1)
normalizeString(os, path, above) ==
    LET n == Len(path)
        stop == IF n > 0 /\ IsSep(os, path[n]) THEN n ELSE n + 1
        step(s, i) ==
            IF i > n \/ IsSep(os, At(path, i)) THEN Settle(os, path, above, s, i)
            ELSE IF path[i] = "." /\ s.dots # -1 THEN [s EXCEPT !.dots = @ + 1]
            ELSE [s EXCEPT !.dots = -1] IN
    FoldLeft(step, [res |-> <<>>, segment |-> 0, slash |-> 0, dots |-> 0], [i \in 1..stop |-> i]).res

----------------
(* posix                                                                   *)

posixIsAbsolute(p) == p # <<>> /\ p[1] = "/"
posixNormalize(p) ==
    LET abs == posixIsAbsolute(p)
        trail == p[Len(p)] = "/"
        norm == normalizeString("posix", p, ~abs)
        tail == IF trail THEN <<"/">> ELSE <<>> IN
    IF p = <<>> THEN <<".">>
    ELSE IF norm = <<>> THEN (IF abs THEN <<"/">> ELSE <<".">> \o tail)
    ELSE (IF abs THEN <<"/">> ELSE <<>>) \o norm \o tail
NonEmpty(paths) == SelectSeq(paths, LAMBDA p: p # <<>>)
posixJoinAll(paths) ==
    IF NonEmpty(paths) = <<>> THEN <<".">> ELSE posixNormalize(JoinWith(NonEmpty(paths), "/"))

\* From the last argument back to the first absolute one, the current directory last.
posixResolveAll(paths) ==
    LET all == NonEmpty(<<Cwd["posix"]>> \o paths)
        from == Last_({i \in DOMAIN all : posixIsAbsolute(all[i])})
        used == SubSeq(all, IF from = 0 THEN 1 ELSE from, Len(all))
        norm == normalizeString("posix", JoinWith(used, "/") \o <<"/">>, from = 0) IN
    IF from > 0 THEN <<"/">> \o norm ELSE IF norm # <<>> THEN norm ELSE <<".">>

(* The last part of a path from position `start': trailing separators are   *)
(* skipped; `end' is its last character (0: none), `part' its first, and    *)
(* `sep' the separator before it (0: none).                                 *)
PartFrom(start, end, sep) == [end |-> end, sep |-> sep, part |-> IF sep > 0 THEN sep + 1 ELSE start]
LastPart(os, p, start) ==
    LET end == Last_({i \in start..Len(p) : ~IsSep(os, p[i])}) IN
    PartFrom(start, end, Last_({i \in start..(end - 1) : IsSep(os, p[i])}))

posixDirname(p) ==
    LET l == LastPart("posix", p, 2) IN
    IF p = <<>> THEN <<".">>
    ELSE IF l.sep = 0 THEN (IF p[1] = "/" THEN <<"/">> ELSE <<".">>)
    ELSE IF p[1] = "/" /\ l.sep = 2 THEN <<"/", "/">>
    ELSE SubSeq(p, 1, l.sep - 1)

\* What is cut off a basename: the suffix when it matches and is not all of it; a
\* suffix longer than the last part runs out of characters and keeps the tail.
WithoutSuffix(p, start, suffix, l) ==
    LET base == SubSeq(p, l.part, l.end)
        n == Len(suffix) IN
    IF n = 0 \/ n > Len(p) THEN (IF l.end = 0 THEN <<>> ELSE base)
    ELSE IF suffix = p THEN <<>>
    ELSE IF l.end = 0 THEN SubSeq(p, start, Len(p))
    ELSE IF Len(base) < n
         THEN (IF base = Cut(suffix, n - Len(base)) THEN SubSeq(p, l.part, Len(p)) ELSE base)
    ELSE IF base # suffix /\ Cut(base, Len(base) - n) = suffix THEN SubSeq(base, 1, Len(base) - n)
    ELSE base
Basename(os, p, start, suffix) == WithoutSuffix(p, start, suffix, LastPart(os, p, start))
posixBasename(p, suffix) == Basename("posix", p, 1, suffix)

\* preDotState as the scan leaves it: 0 with nothing before the last dot, else by the
\* first character of the part.
HasExt(p, l, first, part) ==
    LET dot == Last_({i \in first..l.end : p[i] = "."}) IN
    /\ l.end > 0 /\ dot > first
    /\ ~(p[first] = "." /\ dot = l.end /\ dot = part + 1)
ExtDot(p, l, first) == Last_({i \in first..l.end : p[i] = "."})
Extension(p, l) ==
    IF l.end > 0 /\ HasExt(p, l, l.part, l.part) THEN SubSeq(p, ExtDot(p, l, l.part), l.end) ELSE <<>>
Extname(os, p, start) == Extension(p, LastPart(os, p, start))
posixExtname(p) == Extname("posix", p, 1)

\* The way from f to t, both resolved: by characters behind the root.
posixWayFault(f, t) ==
    LET same == First_({k \in 1..Len(f) : At(f, k) # At(t, k)}, Len(f) + 1) - 1
        ups == Cardinality({j \in (same + 1)..Len(f) : j = Len(f) \/ f[j + 1] = "/"}) IN
    JoinWith([k \in 1..ups |-> Dots] \o <<Cut(t, same)>>, "/")
posixWay(f, t) ==
    LET fl == Len(f) - 1
        tl == Len(t) - 1
        n == IF fl < tl THEN fl ELSE tl
        i == First_({k \in 0..(n - 1) : f[k + 2] # t[k + 2]}, n)
        common == Last_({k \in 1..i : f[k + 1] = "/"}) - 1
        last == IF i = n /\ fl > n
                THEN (IF f[i + 2] = "/" THEN i ELSE IF i = 0 THEN 0 ELSE common) ELSE common
        ups == Cardinality({j \in (last + 2)..Len(f) : j = Len(f) \/ f[j + 1] = "/"}) IN
    IF f = t THEN <<>>
    ELSE IF i = n /\ tl > n /\ t[i + 2] = "/" THEN Cut(t, i + 2)
    ELSE IF i = n /\ tl > n /\ i = 0 THEN Cut(t, 1)
    ELSE JoinWith([k \in 1..ups |-> Dots], "/") \o Cut(t, last + 1)
posixRelative(from, to) ==
    IF from = to THEN <<>> ELSE posixWay(posixResolveAll(<<from>>), posixResolveAll(<<to>>))

NoParts == [root |-> <<>>, dir |-> <<>>, base |-> <<>>, ext |-> <<>>, name |-> <<>>]
\* base, name and ext of the last part l; `part' is the position the scan compares with.
Parts(p, l, part) ==
    IF l.end = 0 THEN NoParts
    ELSE LET base == SubSeq(p, l.part, l.end)
             dot == ExtDot(p, l, l.part) IN
         IF ~HasExt(p, l, l.part, part) THEN [NoParts EXCEPT !.base = base, !.name = base]
         ELSE [NoParts EXCEPT !.base = base, !.name = SubSeq(p, l.part, dot - 1), !.ext = SubSeq(p, dot, l.end)]
posixParts(p, abs, l) ==
    IF p = <<>> THEN NoParts
    ELSE [Parts(p, l, IF l.sep = 0 THEN 1 ELSE l.part) EXCEPT
                       !.root = IF abs THEN <<"/">> ELSE <<>>,
                       !.dir = IF l.sep > 0 THEN SubSeq(p, 1, l.sep - 1) ELSE IF abs THEN <<"/">> ELSE <<>>]
posixParse(p) == posixParts(p, posixIsAbsolute(p), LastPart("posix", p, IF posixIsAbsolute(p) THEN 2 ELSE 1))
Format(os, o, base) ==
    LET dir == IF o.dir # <<>> THEN o.dir ELSE o.root IN
    IF dir = <<>> THEN base ELSE IF dir = o.root THEN dir \o base ELSE dir \o <<Sep(os)>> \o base
posixFormat(o) == Format("posix", o, IF o.base # <<>> THEN o.base ELSE o.name \o o.ext)

----------------
(* win32: drives, UNC roots \\server\share and device roots \\.\ and \\?\.  *)

ColonAt(p) == First_(Indices(p, LAMBDA c: c = ":"), 0)     \* 1-based; 0 when there is none
\* slice(0, -1) when there is no colon
isWindowsReservedName(p, colon) == SubSeq(p, 1, IF colon = 0 THEN Len(p) - 1 ELSE colon - 1) = <<"CON">>

NoUnc == [server |-> 0, share |-> 0, end |-> 0]
uncRoot(p) ==
    LET n == Len(p)
        nextSep(i) == First_({k \in i..n : IsSep("win32", p[k])}, n + 1)
        nextChar(i) == First_({k \in i..n : ~IsSep("win32", p[k])}, n + 1)
        server == nextSep(3)
        share == nextChar(server) IN
    IF server > n \/ server = 3 \/ share > n THEN NoUnc
    ELSE [server |-> server - 1, share |-> share, end |-> nextSep(share) - 1]
TwoSeps(p) == Len(p) > 1 /\ isWin32PathSeparator(p[1]) /\ isWin32PathSeparator(p[2])
Unc(p) == IF TwoSeps(p) THEN uncRoot(p) ELSE NoUnc
HasDrive(p) == Len(p) >= 2 /\ isWindowsDeviceRoot(p[1]) /\ p[2] = ":"
Server(p, u) == SubSeq(p, 3, u.server)
IsDeviceRoot(p, u) == Server(p, u) \in {<<".">>, <<"?">>}
DeviceRoot(p, u) == <<"\\", "\\">> \o Server(p, u)
UncDevice(p, u) == DeviceRoot(p, u) \o <<"\\">> \o SubSeq(p, u.share, u.end)
win32IsAbsolute(p) ==
    p # <<>> /\ (isWin32PathSeparator(p[1]) \/ (Len(p) > 2 /\ HasDrive(p) /\ isWin32PathSeparator(p[3])))

\* The root of one argument of resolve(): its device, its length, whether absolute; u is its UNC root.
RootOf(p, u) ==
    IF isWin32PathSeparator(p[1])
    THEN IF Len(p) = 1 \/ ~TwoSeps(p) THEN [device |-> <<>>, end |-> 1, abs |-> TRUE]
         ELSE IF u = NoUnc THEN [device |-> <<>>, end |-> 0, abs |-> TRUE]
         ELSE IF IsDeviceRoot(p, u) THEN [device |-> DeviceRoot(p, u), end |-> 4, abs |-> TRUE]
         ELSE [device |-> UncDevice(p, u), end |-> u.end, abs |-> TRUE]
    ELSE IF HasDrive(p)
         THEN IF win32IsAbsolute(p) THEN [device |-> SubSeq(p, 1, 2), end |-> 3, abs |-> TRUE]
              ELSE [device |-> SubSeq(p, 1, 2), end |-> 2, abs |-> FALSE]
    ELSE [device |-> <<>>, end |-> 0, abs |-> FALSE]

\* The directory resolve() falls back to: the process's, or the root of another drive.
CwdFor(device) ==
    LET c == Cwd["win32"] IN
    IF device # <<>> /\ Lower(SubSeq(c, 1, 2)) # Lower(device) /\ At(c, 3) = "\\" THEN device \o <<"\\">> ELSE c
ResolveStep(s, p, r) ==        \* one argument, whose root is r
    LET other == r.device # <<>> /\ s.device # <<>> /\ Lower(r.device) # Lower(s.device)
        device == IF s.device # <<>> THEN s.device ELSE r.device IN
    IF s.stop \/ p = <<>> \/ other THEN s
    ELSE IF s.abs THEN [s EXCEPT !.device = device, !.stop = device # <<>>]
    ELSE [device |-> device, tail |-> Cut(p, r.end) \o <<"\\">> \o s.tail, abs |-> r.abs,
          stop |-> r.abs /\ device # <<>>]
WithCwd(args, cwd) == ResolveStep(args, cwd, RootOf(cwd, Unc(cwd)))
Resolved(paths, args, all, tail) ==  \* args: the arguments, all: with the current directory
    IF args.device = <<>> /\ ~args.stop /\
       (paths = <<>> \/ (paths \in {<<<<>>>>, <<<<".">>>>} /\ isWin32PathSeparator(Cwd["win32"][1])))
    THEN ToBackslash(Cwd["win32"])
    ELSE IF all.abs THEN all.device \o <<"\\">> \o tail
    ELSE IF all.device \o tail = <<>> THEN <<".">> ELSE all.device \o tail
ResolvedTo(paths, args, all) == Resolved(paths, args, all, normalizeString("win32", all.tail, ~all.abs))
ResolvedFrom(paths, args) == ResolvedTo(paths, args, WithCwd(args, CwdFor(args.device)))
win32ResolveAll(paths) ==
    ResolvedFrom(paths, FoldLeft(LAMBDA s, p: ResolveStep(s, p, RootOf(p, Unc(p))),
                                 [device |-> <<>>, tail |-> <<>>, abs |-> FALSE, stop |-> FALSE], Reverse(paths)))

\* A relative result must not turn into something Windows reads as drive-qualified.
LooksQualified(p, tail) ==
    \/ HasDrive(tail)
    \/ \E i \in DOMAIN p : p[i] = ":" /\ (i = Len(p) \/ IsSep("win32", At(p, i + 1)))
NormalRoot(p, u, colon) ==
    LET possible == SubSeq(p, 5, colon)
        none == [has |-> FALSE, device |-> <<>>, end |-> 0, abs |-> FALSE] IN
    IF isWin32PathSeparator(p[1])
    THEN IF ~TwoSeps(p) THEN [none EXCEPT !.end = 1, !.abs = TRUE]
         ELSE IF u = NoUnc THEN [none EXCEPT !.abs = TRUE]
         ELSE IF ~IsDeviceRoot(p, u) THEN [has |-> TRUE, device |-> UncDevice(p, u), end |-> u.end, abs |-> TRUE]
         ELSE IF isWindowsReservedName(possible, Len(possible))
         THEN [has |-> TRUE, device |-> <<"\\", "\\", "?", "\\">> \o possible, end |-> 4 + Len(possible), abs |-> TRUE]
         ELSE [has |-> TRUE, device |-> DeviceRoot(p, u), end |-> 4, abs |-> TRUE]
    ELSE IF HasDrive(p)
    THEN [has |-> TRUE, device |-> SubSeq(p, 1, 2), end |-> IF win32IsAbsolute(p) THEN 3 ELSE 2, abs |-> win32IsAbsolute(p)]
    ELSE IF colon > 1 /\ isWindowsReservedName(p, colon)
    THEN [has |-> TRUE, device |-> SubSeq(p, 1, colon), end |-> colon, abs |-> FALSE]
    ELSE none
TailFrom(p, root, norm) ==
    LET full == IF norm = <<>> /\ ~root.abs THEN <<".">> ELSE norm IN
    IF full # <<>> /\ isWin32PathSeparator(p[Len(p)]) THEN full \o <<"\\">> ELSE full
NormalTail(p, root) ==
    TailFrom(p, root, IF root.end < Len(p) THEN normalizeString("win32", Cut(p, root.end), ~root.abs) ELSE <<>>)
Normalized(p, u, colon, root, tail) ==
    IF u # NoUnc /\ ~IsDeviceRoot(p, u) /\ u.end = Len(p) THEN UncDevice(p, u) \o <<"\\">>
    ELSE IF ~root.abs /\ ~root.has /\ colon > 0 /\ LooksQualified(p, tail) THEN <<".", "\\">> \o tail
    ELSE IF isWindowsReservedName(p, colon) THEN <<".", "\\">> \o root.device \o tail
    ELSE root.device \o (IF root.abs THEN <<"\\">> ELSE <<>>) \o tail
RootNormalized(p, u, colon, root) == Normalized(p, u, colon, root, NormalTail(p, root))
win32Normalize(p) ==
    IF p = <<>> THEN <<".">>
    ELSE IF Len(p) = 1 THEN (IF p[1] = "/" THEN <<"\\">> ELSE p)
    ELSE RootNormalized(p, Unc(p), ColonAt(p), NormalRoot(p, Unc(p), ColonAt(p)))

win32JoinAll(paths) ==
    LET parts == NonEmpty(paths)
        joined == JoinWith(parts, "\\")
        first == parts[1]
        unc == TwoSeps(first) /\ Len(first) > 2 /\ ~isWin32PathSeparator(first[3])
        slashes == First_({i \in DOMAIN joined : ~isWin32PathSeparator(joined[i])}, Len(joined) + 1) - 1
        plain == IF ~unc /\ slashes >= 2 THEN <<"\\">> \o Cut(joined, slashes) ELSE joined
        reserved(seg) == seg # <<>> /\ ColonAt(seg) > 0 /\ isWindowsReservedName(seg, ColonAt(seg)) IN
    IF parts = <<>> THEN <<".">>
    ELSE IF \E seg \in Range(SplitBy(plain, LAMBDA c: c = "\\")) : reserved(seg) THEN ToBackslash(plain)
    ELSE win32Normalize(plain)

Ups(n) == JoinWith([k \in 1..n |-> Dots], "\\")
\* by whole segments, when lower-casing changed a length
SegmentsOf(p) == LET s == SplitBy(p, LAMBDA c: c = "\\") IN IF s[Len(s)] = <<>> THEN Front(s) ELSE s
BySegments(t, fs, ts) ==
    LET short == IF Len(fs) < Len(ts) THEN Len(fs) ELSE Len(ts)
        k == First_({j \in 1..short : Lower(fs[j]) # Lower(ts[j])}, short + 1) - 1 IN
    IF k = 0 THEN t
    ELSE IF k < short THEN Ups(Len(fs) - k) \o <<"\\">> \o JoinWith(Cut(ts, k), "\\")
    ELSE IF Len(ts) > short THEN JoinWith(Cut(ts, k), "\\")
    ELSE Ups(Len(fs) - k)
\* by characters: f and t lower-cased start behind fs and ts and end at fe and te, without their separators;
\* the first i characters are the same
Lead(p) == First_({i \in DOMAIN p : p[i] # "\\"}, Len(p) + 1) - 1
Trail(p) ==
    LET ok == {i \in (Lead(p) + 1)..Len(p) : p[i] # "\\"} IN
    IF ok = {} THEN (IF Lead(p) < Len(p) THEN Lead(p) + 1 ELSE Len(p)) ELSE Max(ok)
Common(fl, fs, i) ==         \* the last separator both share
    Last_({j \in 1..i : fl[fs + j] = "\\"}) - 1
LastCommon(fl, fs, flen, n, i, common) ==
    LET last == IF i = n /\ flen > n
                THEN (IF fl[fs + i + 1] = "\\" THEN i ELSE IF i = 2 THEN 3 ELSE common) ELSE common IN
    IF i = n /\ last = -1 THEN 0 ELSE last
Climb(t, fl, fs, fe, ts, te, last) ==
    LET ups == Cardinality({j \in (fs + last + 1)..fe : j = fe \/ fl[j + 1] = "\\"})
        rest == SubSeq(t, ts + last + 1, te) IN
    IF ups > 0 THEN Ups(ups) \o rest
    ELSE IF At(t, ts + last + 1) = "\\" THEN Tail(rest) ELSE rest
ByCharacters(t, fl, tl, fs, fe, ts, te) ==
    LET n == IF fe - fs < te - ts THEN fe - fs ELSE te - ts
        i == First_({j \in 0..(n - 1) : fl[fs + j + 1] # tl[ts + j + 1]}, n)
        common == Common(fl, fs, i) IN
    IF i # n /\ common = -1 THEN t
    ELSE IF i = n /\ te - ts > n /\ tl[ts + i + 1] = "\\" THEN Cut(t, ts + i + 1)
    ELSE IF i = n /\ te - ts > n /\ i = 2 THEN Cut(t, ts + i)
    ELSE Climb(t, fl, fs, fe, ts, te, LastCommon(fl, fs, fe - fs, n, i, common))
win32Way(f, t, fl, tl) ==
    IF fl = tl THEN <<>>
    ELSE IF Len(f) # Len(fl) \/ Len(t) # Len(tl) THEN BySegments(t, SegmentsOf(f), SegmentsOf(t))
    ELSE ByCharacters(t, fl, tl, Lead(fl), Trail(fl), Lead(tl), Trail(tl))
AnyCase(f, t) == win32Way(f, t, Lower(f), Lower(t))
win32Relative(from, to) ==
    IF from = to THEN <<>> ELSE AnyCase(win32ResolveAll(<<from>>), win32ResolveAll(<<to>>))

Namespaced(p, r) ==
    IF p = <<>> \/ Len(r) <= 2 THEN p
    ELSE IF TwoSeps(r) /\ r[3] \notin {"?", "."} THEN <<"\\", "\\", "?", "\\", "UNC", "\\">> \o Cut(r, 2)
    ELSE IF HasDrive(r) /\ r[3] = "\\" THEN <<"\\", "\\", "?", "\\">> \o r
    ELSE r
win32ToNamespacedPath(p) == Namespaced(p, win32ResolveAll(<<p>>))

DirnameFrom(p, u, root, l) ==
    IF p = <<>> THEN <<".">>
    ELSE IF Len(p) = 1 THEN (IF isWin32PathSeparator(p[1]) THEN p ELSE <<".">>)
    ELSE IF u # NoUnc /\ u.end = Len(p) THEN p
    ELSE IF l.sep > 0 THEN SubSeq(p, 1, l.sep - 1)
    ELSE IF root = 0 THEN <<".">> ELSE SubSeq(p, 1, root)
DirnameRoot(p, u) ==
    IF isWin32PathSeparator(p[1]) THEN (IF u # NoUnc THEN u.end + 1 ELSE 1)
    ELSE IF HasDrive(p) THEN (IF win32IsAbsolute(p) THEN 3 ELSE 2) ELSE 0
win32Dirname(p) ==
    LET root == DirnameRoot(p, Unc(p)) IN DirnameFrom(p, Unc(p), root, LastPart("win32", p, root + 1))
win32Basename(p, suffix) == Basename("win32", p, IF HasDrive(p) THEN 3 ELSE 1, suffix)
win32Extname(p) == Extname("win32", p, IF HasDrive(p) THEN 3 ELSE 1)
win32Format(o) ==
    Format("win32", o, IF o.base # <<>> THEN o.base
                       ELSE o.name \o (IF o.ext # <<>> /\ o.ext[1] # "." THEN <<".">> ELSE <<>>) \o o.ext)
win32Parts(p, root, l) ==
    LET rooted == SubSeq(p, 1, root) IN
    IF p = <<>> THEN NoParts
    ELSE IF HasDrive(p) /\ Len(p) = root THEN [NoParts EXCEPT !.root = p, !.dir = p]
    ELSE [Parts(p, l, l.part) EXCEPT !.root = rooted, !.dir = IF l.sep > 0 THEN SubSeq(p, 1, l.sep - 1) ELSE rooted]
ParseRoot(p, u) ==
    IF isWin32PathSeparator(p[1])
    THEN (IF u = NoUnc THEN 1 ELSE IF u.end = Len(p) THEN u.end ELSE u.end + 1)
    ELSE IF HasDrive(p) THEN (IF win32IsAbsolute(p) THEN 3 ELSE 2) ELSE 0
win32Parse(p) ==
    LET root == ParseRoot(p, Unc(p)) IN win32Parts(p, root, LastPart("win32", p, root + 1))

----------------
IsAbsolute(os, p) == IF Win(os) THEN win32IsAbsolute(p) ELSE posixIsAbsolute(p)
Normalize(os, p) == IF Win(os) THEN win32Normalize(p) ELSE posixNormalize(p)
Resolve(os, ps) == IF Win(os) THEN win32ResolveAll(ps) ELSE posixResolveAll(ps)
Relative(os, f, t) == IF Win(os) THEN win32Relative(f, t) ELSE posixRelative(f, t)
JoinAll(os, ps) == IF Win(os) THEN win32JoinAll(ps) ELSE posixJoinAll(ps)
Parse(os, p) == IF Win(os) THEN win32Parse(p) ELSE posixParse(p)
FormatOf(os, o) == IF Win(os) THEN win32Format(o) ELSE posixFormat(o)
BasenameOf(os, p, s) == IF Win(os) THEN win32Basename(p, s) ELSE posixBasename(p, s)
ExtnameOf(os, p) == IF Win(os) THEN win32Extname(p) ELSE posixExtname(p)
DirnameOf(os, p) == IF Win(os) THEN win32Dirname(p) ELSE posixDirname(p)

(* What normalizing means, segment by segment.                             *)
Segments(os, p) == SelectSeq(SplitBy(p, LAMBDA c: IsSep(os, c)), LAMBDA s: s # <<>> /\ s # <<".">>)
NormalSegments(os, p, above) ==
    FoldLeft(LAMBDA acc, s: IF s # Dots THEN Append(acc, s)
                            ELSE IF acc # <<>> /\ acc[Len(acc)] # Dots THEN Front(acc)
                            ELSE IF above THEN Append(acc, s) ELSE acc, <<>>, Segments(os, p))
\* DOS devices, stray colons, drive-relative paths and UNC or device roots have
\* spellings of their own.
Special(os, p) ==
    Win(os) /\ (TwoSeps(p) \/ (HasDrive(p) /\ ~win32IsAbsolute(p)) \/ \E i \in DOMAIN p : p[i] = "CON" \/ (p[i] = ":" /\ ~HasDrive(p)))

\* The character scan resolves `.' and `..' exactly as a walk over the segments does,
\* above the root included, however the dots and separators run together.
ScanResolvesSegments ==
    Given("path") =>
    \A above \in BOOLEAN, p \in {in.from, in.to} :
       normalizeString(in.os, p, above) = JoinWith(NormalSegments(in.os, p, above), Sep(in.os))

\* normalize() keeps a path absolute or relative and on its drive: a relative path never
\* comes back drive-qualified.  It is idempotent but for special names (`CON' comes back
\* as `.\CON', and that as `CON' again).
KindKept(os, p, n) ==
    /\ IsAbsolute(os, n) = IsAbsolute(os, p)
    /\ ~Special(os, p) => Normalize(os, n) = n
    /\ Win(os) => HasDrive(n) = HasDrive(p)
NormalizeKeepsKind == Given("path") => KindKept(in.os, in.to, Normalize(in.os, in.to))

\* resolve() always answers an absolute path that it leaves as it is (but for a bare
\* device root), and on posix an absolute argument hides what comes before it; what
\* toNamespacedPath() answers on win32 names a device or a share through its namespace.
IsResolved(os, to, r) ==
    /\ IsAbsolute(os, r)
    /\ r \notin {<<"\\", "\\", c, "\\">> : c \in {".", "?"}} => Resolve(os, <<r>>) = r
    /\ ~Win(os) /\ IsAbsolute(os, to) => r = Resolve(os, <<to>>)
    /\ Win(os) /\ to # <<>> => LET n == win32ToNamespacedPath(to) IN TwoSeps(n) /\ n[3] \in {"?", "."}
ResolveIsAbsolute == Given("path") => IsResolved(in.os, in.to, Resolve(in.os, <<in.from, in.to>>))

\* relative() is the way from one path to another: following it from the first leads
\* to the second (on win32, up to case).
SamePlace(os, p, q) == IF Win(os) THEN Lower(p) = Lower(q) ELSE p = q
RelativeLeadsThere ==
    Given("path") => SamePlace(in.os, Resolve(in.os, <<in.from, Relative(in.os, in.from, in.to)>>), Resolve(in.os, <<in.to>>))

\* parse() agrees with basename() and extname(), format() of its parts is the path again,
\* and dirname() and basename() together name the path, up to trailing separators
\* and special names.
SamePath(os, p, q) == Normalize(os, p \o <<Sep(os)>>) = Normalize(os, q \o <<Sep(os)>>)
PartsFit(os, p, o, base) ==
    /\ o.base = o.name \o o.ext
    /\ p # <<>> /\ ~Special(os, p) =>
          /\ o.base = base
          /\ o.base # Dots => o.ext = ExtnameOf(os, p)
          /\ SamePath(os, FormatOf(os, o), p)
          /\ SamePath(os, JoinAll(os, <<DirnameOf(os, p), base>>), p)
PartsAgree == Given("path") => PartsFit(in.os, in.to, Parse(in.os, in.to), BasenameOf(in.os, in.to, <<>>))

\* node:path on both systems: the functions agree with each other and with the segments they stand for.
PathsExact == ScanResolvesSegments /\ NormalizeKeepsKind /\ ResolveIsAbsolute /\ RelativeLeadsThere /\ PartsAgree
=============================================================================
