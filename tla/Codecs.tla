------------------------------- MODULE Codecs -------------------------------
(***************************************************************************)
(* The text formats of the web globals (src/runtime/node/globals.ts): URL, *)
(* URLSearchParams, a raw header block, multipart/form-data.  CRLF, "%2e", *)
(* "--" and a multipart delimiter are single tokens where the code only    *)
(* ever looks for them whole; a percent escape is "%" and a code token.    *)
(***************************************************************************)
EXTENDS Evaluate

\* 1-based position of sub in s from position `from' on, 0 when absent
IndexOf(s, sub, from) ==
    First_({i \in from..(Len(s) - Len(sub) + 1) : SubSeq(s, i, i + Len(sub) - 1) = sub}, 0)
LastIndexOf(s, c) == Last_({i \in DOMAIN s : s[i] = c})
Before(s, i) == SubSeq(s, 1, i - 1)
Blank(c) == c \in {" ", "tab"}
Trim(s) == LET ok == {i \in DOMAIN s : ~Blank(s[i])} IN IF ok = {} THEN <<>> ELSE SubSeq(s, Min(ok), Max(ok))
SplitAt(s, c) == SplitBy(s, LAMBDA x: x = c)
Concat(segs) == FlattenSeq(segs)

----------------
(* URLSearchParams: application/x-www-form-urlencoded.                     *)

Plain == {"a", "b", "c", ".", "*", "/", "?", "@", "[", "]"} \ {"/", "?", "@", "[", "]"}
Code == [c \in {" ", "+", "&", "=", "%", "#", "~", "/", "?", "@", "[", "]", ":"} |-> "x" \o c]
encodeURIComponent(c) == IF c \in Plain \cup {"~"} THEN <<c>> ELSE <<"%", Code[c]>>
\* the extra escapes: `~' (with ! ' ( )), and a space becomes `+'
encode(value) ==
    Concat([i \in DOMAIN value |->
              IF value[i] = " " THEN <<"+">> ELSE IF value[i] = "~" THEN <<"%", Code["~"]>>
              ELSE encodeURIComponent(value[i])])
Coded(t) == \E c \in DOMAIN Code : Code[c] = t
\* No input has a `%' that starts no escape: decodeURIComponent throws on it.
decode(s) ==
    FoldLeft(LAMBDA acc, c: IF c = "%" THEN acc
                            ELSE Append(acc, IF c = "+" THEN " "
                                             ELSE IF Coded(c) THEN CHOOSE d \in DOMAIN Code : Code[d] = c ELSE c), <<>>, s)
Param(part) ==
    LET eq == IndexOf(part, <<"=">>, 1) IN
    IF eq = 0 THEN <<decode(part), <<>>>> ELSE <<decode(Before(part, eq)), decode(Cut(part, eq))>>
SearchParams(query) ==
    LET q == IF At(query, 1) = "?" THEN Tail(query) ELSE query
        parts == SelectSeq(SplitAt(q, "&"), LAMBDA p: p # <<>>) IN
    [i \in DOMAIN parts |-> Param(parts[i])]
ParamsToString(ps) == JoinWith([i \in DOMAIN ps |-> encode(ps[i][1]) \o <<"=">> \o encode(ps[i][2])], "&")

----------------
(* URL                                                                     *)

isSpecialUrlScheme(protocol) == protocol = <<"http">>
withoutDotSegments(path) ==
    LET segs == Tail(SplitAt(path, "/"))
        dot(c) == c \in {".", "%2e"}
        step(out, i) ==
            LET s == segs[i]
                up == Len(s) = 2 /\ dot(s[1]) /\ dot(s[2])
                here == Len(s) = 1 /\ dot(s[1])
                kept == IF up /\ out # <<>> THEN Front(out) ELSE out IN
            IF ~up /\ ~here THEN Append(out, s)
            ELSE IF i = Len(segs) THEN Append(kept, <<>>) ELSE kept IN
    <<"/">> \o JoinWith(FoldLeft(step, <<>>, [i \in DOMAIN segs |-> i]), "/")

parseHost(value) ==
    LET bracket == IF At(value, 1) = "[" THEN IndexOf(value, <<"]">>, 1) ELSE 0
        first == IndexOf(value, <<":">>, 1) IN
    IF bracket > 0
    THEN [hostname |-> SubSeq(value, 1, bracket), port |-> IF At(value, bracket + 1) = ":" THEN Cut(value, bracket + 1) ELSE <<>>]
    ELSE IF first > 0 /\ first = LastIndexOf(value, ":")
    THEN [hostname |-> Before(value, first), port |-> Cut(value, first)]
    ELSE [hostname |-> value, port |-> <<>>]
SchemeEnd == <<":", "/", "/">>
UrlPath(protocol, path) == IF isSpecialUrlScheme(protocol) THEN withoutDotSegments(path) ELSE path
WithAuthority(u, authority, at) ==
    LET user == Before(authority, at)
        colon == IndexOf(user, <<":">>, 1) IN
    [u EXCEPT !.username = IF colon > 0 THEN Before(user, colon) ELSE user,
              !.password = IF colon > 0 THEN Cut(user, colon) ELSE <<>>,
              !.host = parseHost(Cut(authority, at))]
WithPlace(u, text, slash) ==       \* text: no scheme, no query, no hash; its first slash
    LET authority == IF slash > 0 THEN Before(text, slash) ELSE text IN
    WithAuthority([u EXCEPT !.pathname = IF slash = 0 THEN <<"/">> ELSE UrlPath(u.protocol, Cut(text, slash - 1))],
                  authority, LastIndexOf(authority, "@"))
WithQuery(u, text, mark) ==        \* text: no scheme, no hash; its first question mark
    LET rest == IF mark > 0 THEN Before(text, mark) ELSE text IN
    WithPlace([u EXCEPT !.searchParams = SearchParams(IF mark > 0 THEN Cut(text, mark - 1) ELSE <<>>)],
              rest, IndexOf(rest, <<"/">>, 1))
WithHash(u, text, mark) ==         \* text: no scheme; its first number sign
    LET rest == IF mark > 0 THEN Before(text, mark) ELSE text IN
    WithQuery([u EXCEPT !.hash = IF mark > 0 THEN Cut(text, mark - 1) ELSE <<>>], rest, IndexOf(rest, <<"?">>, 1))
NoUrl ==
    [protocol |-> <<>>, hash |-> <<>>, searchParams |-> <<>>, pathname |-> <<>>, username |-> <<>>, password |-> <<>>,
     host |-> [hostname |-> <<>>, port |-> <<>>]]
parse(full) ==
    LET scheme == IndexOf(full, SchemeEnd, 1)
        rest == IF scheme > 0 THEN Cut(full, scheme + 2) ELSE full IN
    WithHash([NoUrl EXCEPT !.protocol = IF scheme > 0 THEN Lower(Before(full, scheme)) ELSE <<>>],
             rest, IndexOf(rest, <<"#">>, 1))
\* relative to a base: the two texts put together
newURL(url, base) == parse(IF base # <<>> /\ IndexOf(url, SchemeEnd, 1) = 0 THEN base \o url ELSE url)
href(u) ==
    LET pass == IF u.password # <<>> THEN <<":">> \o u.password ELSE <<>>
        auth == IF u.username \o u.password = <<>> THEN <<>> ELSE u.username \o pass \o <<"@">>
        port == IF u.host.port # <<>> THEN <<":">> \o u.host.port ELSE <<>>
        query == ParamsToString(u.searchParams)
        search == IF query # <<>> THEN <<"?">> \o query ELSE <<>> IN
    (IF u.protocol = <<>> THEN Tail(SchemeEnd) ELSE u.protocol \o SchemeEnd) \o auth \o u.host.hostname \o port \o u.pathname \o search \o u.hash

----------------
(* Headers.fromRawHead: the header block of a request, one line per CRLF.  *)

AddHeader(hs, name, value) ==
    LET i == First_({k \in DOMAIN hs : hs[k][1] = name}, 0) IN
    IF i = 0 THEN Append(hs, <<name, value>>)
    ELSE [hs EXCEPT ![i][2] = @ \o <<IF name = <<"cookie">> THEN ";" ELSE ",", " ">> \o value]
HeadFields(head) ==
    LET scan[pos \in 1..(Len(head) + 2)] ==
          LET at == IndexOf(head, <<"CRLF">>, pos)
              eol == IF at = 0 THEN Len(head) + 1 ELSE at
              colon == IndexOf(head, <<":">>, pos)
              here == IF colon > pos /\ colon < eol
                      THEN <<<<Lower(SubSeq(head, pos, colon - 1)), Trim(SubSeq(head, colon + 1, eol - 1))>>>> ELSE <<>> IN
          IF pos > Len(head) THEN <<>> ELSE here \o scan[eol + 1] IN
    scan[1]
fromRawHead(head) == FoldLeft(LAMBDA hs, x: AddHeader(hs, x[1], x[2]), <<>>, HeadFields(head))

(* IncomingMessage reads the same block twice: rawHeaders line by line, and *)
(* headers out of rawHeaders if they were built, else out of the block.    *)
Singletons == {<<"host">>, <<"age">>, <<"etag">>}
addIncomingHeader(hs, name, value) ==
    IF name \in Singletons /\ \E k \in DOMAIN hs : hs[k][1] = name THEN hs ELSE AddHeader(hs, name, value)
rawHeaders(head) ==
    LET lines == SplitBy(head, LAMBDA c : c = "CRLF")
        colon(l) == First_(Indices(l, LAMBDA c : c = ":"), 0) IN
    Concat([i \in DOMAIN lines |->
        IF colon(lines[i]) <= 1 THEN <<>>
        ELSE <<<<SubSeq(lines[i], 1, colon(lines[i]) - 1), Trim(Cut(lines[i], colon(lines[i])))>>>>])
headersOf(head, rawRead) ==
    FoldLeft(LAMBDA hs, x: addIncomingHeader(hs, Lower(x[1]), x[2]), <<>>, IF rawRead THEN rawHeaders(head) ELSE HeadFields(head))

\* The host the fetch adapter puts into the request's URL.
isHostLine(head, pos) == At(head, pos) \in {"host", "HOST"} /\ At(head, pos + 1) = ":"
hostOf(head) ==
    LET starts == {1} \cup {i + 1 : i \in Indices(head, LAMBDA c : c = "CRLF")}
        pos == First_({i \in starts : isHostLine(head, i)}, 0)
        eol == First_({i \in pos..Len(head) : head[i] = "CRLF"}, Len(head) + 1)
        value == Trim(SubSeq(head, pos + 2, eol - 1)) IN
    IF pos = 0 \/ value = <<>> THEN <<"localhost">> ELSE value

----------------
(* FormData: an entry is [name, file, filename, type, body].               *)

Delimiter == <<"--", "B">>
escapeMultipartQuoted(v) ==
    Concat([i \in DOMAIN v |-> IF v[i] \in {"\\", "quote"} THEN <<"\\", v[i]>>
                               ELSE IF v[i] = "CRLF" THEN <<"%0D", "%0A">> ELSE <<v[i]>>])
Quoted(v) == <<"quote">> \o escapeMultipartQuoted(v) \o <<"quote">>
encodeMultipart(form) ==
    LET part(e) ==
          Delimiter \o <<"CRLF", "content-disposition", ":", " ", "form-data", ";", " ", "name", "=">> \o Quoted(e.name)
            \o (IF e.file THEN <<";", " ", "filename", "=">> \o Quoted(e.filename) \o <<"CRLF", "content-type", ":", " ">>
                               \o (IF e.type = <<>> THEN <<"octet">> ELSE e.type) ELSE <<>>)
            \o <<"CRLF", "CRLF">> \o e.body \o <<"CRLF">> IN
    Concat([i \in DOMAIN form |-> part(form[i])]) \o Delimiter \o <<"--", "CRLF">>

\* a delimiter only counts at a line start, and before a CRLF or the closing `--'
findMultipartBoundary(body, from) ==
    First_({i \in (from + 1)..(Len(body) - 1) :
              /\ SubSeq(body, i - 1, i + 1) = <<"CRLF">> \o Delimiter
              /\ At(body, i + 2) \in {"CRLF", "--"}}, 0)

\* The value of a quoted parameter from `at' on, and where it ends.
QuotedValue(h, at) ==
    LET scan[i \in at..(Len(h) + 1)] ==
          IF i > Len(h) THEN [value |-> <<>>, at |-> i]
          ELSE IF h[i] = "quote" THEN [value |-> <<>>, at |-> i + 1]
          ELSE LET esc == h[i] = "\\" /\ i < Len(h)
                   rest == scan[IF esc THEN i + 2 ELSE i + 1] IN
               [rest EXCEPT !.value = <<IF esc THEN h[i + 1] ELSE h[i]>> \o @] IN
    scan[at]
Absent == <<"absent">>
multipartParameter(h, wanted) ==
    LET n == Len(h)
        scan[from \in 1..(n + 1)] ==
          LET at == First_({i \in from..n : h[i] \notin {";", " ", "tab"}}, n + 1)
              equals == IndexOf(h, <<"=">>, at)
              semi == IndexOf(h, <<";">>, at)
              quoted == At(h, equals + 1) = "quote"
              end == First_({i \in (equals + 1)..n : h[i] = ";"}, n + 1)
              v == IF quoted THEN QuotedValue(h, equals + 2)
                   ELSE [value |-> Trim(SubSeq(h, equals + 1, end - 1)), at |-> IF end > n THEN n + 1 ELSE end + 1]
              next == IndexOf(h, <<";">>, v.at) IN
          IF from > n \/ equals = 0 THEN Absent
          ELSE IF semi > 0 /\ semi < equals THEN scan[semi + 1]
          ELSE IF Trim(SubSeq(h, at, equals - 1)) = wanted THEN v.value
          ELSE IF next = 0 THEN Absent ELSE scan[next + 1] IN
    scan[1]

HeaderLine(lines, name) ==
    LET hit == {i \in DOMAIN lines : Trim(Before(lines[i], IndexOf(lines[i], <<":">>, 1))) = <<name>>} IN
    IF hit = {} THEN <<>> ELSE LET l == lines[Max(hit)] IN Trim(Cut(l, IndexOf(l, <<":">>, 1)))
\* One part: none when it is no form-data with a name.
NamedPart(lines, disposition, name, filename, body) ==
    LET file == filename # Absent IN
    IF Trim(SplitAt(disposition, ";")[1]) # <<"form-data">> \/ name = Absent THEN <<>>
    ELSE <<[name |-> name, file |-> file, filename |-> IF file THEN filename ELSE <<>>,
            type |-> IF file THEN HeaderLine(lines, "content-type") ELSE <<>>, body |-> body]>>
PartOf(part, end) ==
    LET lines == SplitAt(Before(part, end), "CRLF")
        disposition == HeaderLine(lines, "content-disposition") IN
    NamedPart(lines, disposition, multipartParameter(disposition, <<"name">>),
              multipartParameter(disposition, <<"filename">>), Cut(part, end + 1))
Broken == [throws |-> TRUE, form |-> <<>>]
parseMultipart(body) ==
    LET first == IF SubSeq(body, 1, 2) = Delimiter THEN 1 ELSE findMultipartBoundary(body, 1)
        scan[at \in 1..(Len(body) + 1)] ==
          LET start == at + 3
              next == findMultipartBoundary(body, start)
              part == SubSeq(body, start, next - 2)
              end == IndexOf(part, <<"CRLF", "CRLF">>, 1)
              rest == scan[next] IN
          IF At(body, at + 2) = "--" THEN [throws |-> FALSE, form |-> <<>>]
          ELSE IF At(body, at + 2) # "CRLF" \/ next = 0 THEN Broken
          ELSE IF end = 0 THEN Broken
          ELSE [rest EXCEPT !.form = PartOf(part, end) \o @] IN
    IF first = 0 THEN Broken ELSE scan[first]

----------------
\* URLSearchParams reads back what it writes, whatever separators, escapes and spaces
\* the names and values hold.
QueryRoundTrip ==
    Given("query") => SearchParams(ParamsToString(in.params)) = in.params

\* An absolute URL's href denotes the same URL (one more parse changes nothing), and the
\* path of a special one starts at the root with its dot segments resolved, as a walk
\* over the segments resolves them.
UrlFits(u) ==
    LET segs == Tail(SplitAt(u.pathname, "/"))
        dots == {<<x>> : x \in {".", "%2e"}} \cup {<<x, y>> : x \in {".", "%2e"}, y \in {".", "%2e"}} IN
    /\ u.protocol # <<>> => parse(href(u)) = u
    /\ isSpecialUrlScheme(u.protocol) =>
          /\ u.pathname[1] = "/"
          /\ \A i \in DOMAIN segs : segs[i] \notin dots
UrlStable == Given("url") => UrlFits(newURL(in.text, in.base))

\* Every line of a header block counts once: a name has the values of its lines, in
\* order, joined, and a line without a name of its own adds nothing to another's.
HeadByLines ==
    Given("head") =>
    LET lines == SplitAt(in.head, "CRLF")
        named == SelectSeq(lines, LAMBDA l: IndexOf(l, <<":">>, 1) > 1)
        name(l) == Lower(Before(l, IndexOf(l, <<":">>, 1)))
        value(l) == Trim(Cut(l, IndexOf(l, <<":">>, 1)))
        of(n) == SelectSeq(named, LAMBDA l: name(l) = n)
        hs == fromRawHead(in.head) IN
    /\ {hs[i][1] : i \in DOMAIN hs} = {name(named[i]) : i \in DOMAIN named}
    /\ \A i, j \in DOMAIN hs : hs[i][1] = hs[j][1] => i = j
    /\ \A i \in DOMAIN hs :
         LET ls == of(hs[i][1])
             glue == IF hs[i][1] = <<"cookie">> THEN <<";", " ">> ELSE <<",", " ">> IN
         hs[i][2] = value(ls[1]) \o Concat([k \in 1..(Len(ls) - 1) |-> glue \o value(ls[k + 1])])

\* A form encoded as multipart and parsed again is the same form (an untyped file comes
\* back as octets), also when names need quoting and when bodies hold blank lines, dashes
\* or a delimiter that is not at a line start.
FormRoundTrip ==
    Given("form") =>
    LET typed(e) == IF e.file /\ e.type = <<>> THEN [e EXCEPT !.type = <<"octet">>] ELSE e IN
    parseMultipart(encodeMultipart(in.form)) = [throws |-> FALSE, form |-> [i \in DOMAIN in.form |-> typed(in.form[i])]]

\* req.headers is the same whether or not the program read req.rawHeaders before it, and the host of the URL
\* the fetch adapter builds is the request's Host header, or localhost when there is none or it is empty.
HeadersAgree ==
    Given("head") =>
    LET hs == headersOf(in.head, FALSE)
        host == SelectSeq(hs, LAMBDA h : h[1] = <<"host">>) IN
    /\ headersOf(in.head, TRUE) = hs
    /\ hostOf(in.head) = IF host = <<>> \/ host[1][2] = <<>> THEN <<"localhost">> ELSE host[1][2]

\* What is written as a query, a URL, a header block or a form is read back as it was.
EncodingsExact == QueryRoundTrip /\ UrlStable /\ HeadByLines /\ FormRoundTrip /\ HeadersAgree
=============================================================================
