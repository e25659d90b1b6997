---------------------------- MODULE HttpMessage ----------------------------
(***************************************************************************)
(* The messages of node:http (src/runtime/node/http.ts): the header store, *)
(* framing and writes of ServerResponse, the body of IncomingMessage, the  *)
(* Server's listeners and its sockets, and the fetch adapter               *)
(* (node-server-adapter.ts), on one keep-alive connection with pipelined   *)
(* requests.  HttpConnection models the connection below, which dispatches *)
(* a request once the response before it is done; here the bytes matter.   *)
(***************************************************************************)
EXTENDS Integers, Sequences, FiniteSets, SequencesExt, TLC

CONSTANTS
    Modes,      \* [server: "http" or "fetch"; reqs: the requests the client sends, [head, http10,
                \*   keep, body]; may: the operations in play; names, statuses, sizes: their inputs]
    MaxOps,     \* operations a behaviour performs
    MaxSockets, \* connections whose sockets are read
    PruneFloor  \* 64 in the code: the smallest size at which the table of sockets is pruned

VARIABLES
    mode,
    req,        \* the IncomingMessages, one per request dispatched
    res,        \* their ServerResponses
    out,        \* the connection's output: heads, body parts, chunks, last chunks, early hints
    conn,       \* [done: responses completed, keep: the connection goes on, cut: destroyed]
    run,        \* the call stack: handlers and end() calls in progress
    jobs,       \* the microtask queue
    srv,        \* the Server: extra request listeners, connection listeners, the table of sockets
    obs         \* history

vars == <<mode, req, res, out, conn, run, jobs, srv, obs>>

Requests == 1..Len(res)
Lower(n) == IF n = "X" THEN "x" ELSE n
Length(v) == CASE v = "0" -> 0 [] v = "1" -> 1 [] OTHER -> 2
Digits(k) == CASE k = 0 -> "0" [] k = 1 -> "1" [] OTHER -> "2"
May(o) == o \in mode.may /\ obs.ops < MaxOps

----------------
(* The header store: the first header in fields of the response, the       *)
(* others in arrays.  An entry keeps the name as spelled and lower-cased.  *)

NoHeaders == [first |-> <<>>, extra |-> <<>>]
Entry(n, v) == [name |-> Lower(n), raw |-> n, value |-> v]
Listed(h) == h.first \o h.extra

indexOfHeader(h, low) ==
    IF h.first # <<>> /\ h.first[1].name = low THEN 0
    ELSE LET at == {i \in DOMAIN h.extra : h.extra[i].name = low} IN
         IF at = {} THEN -1 ELSE CHOOSE i \in at : \A j \in at : i <= j
removeHeaderAt(h, k) ==
    IF k # 0 THEN [h EXCEPT !.extra = RemoveAt(@, k)]
    ELSE IF h.extra = <<>> THEN NoHeaders ELSE [first |-> <<h.extra[1]>>, extra |-> Tail(h.extra)]
RECURSIVE removeAllOfHeader(_, _)
removeAllOfHeader(h, low) ==
    LET k == indexOfHeader(h, low) IN IF k < 0 THEN h ELSE removeAllOfHeader(removeHeaderAt(h, k), low)
appendHeaderNormalized(h, n, v) ==
    IF h.first = <<>> THEN [h EXCEPT !.first = <<Entry(n, v)>>] ELSE [h EXCEPT !.extra = Append(@, Entry(n, v))]
setHeaderString(h, n, v) ==
    LET low == Lower(n)
        k == indexOfHeader(h, low)
        Kept == {i \in DOMAIN h.extra : h.extra[i].name # low \/ i = k}
        set == IF k = 0 THEN [h EXCEPT !.first[1].value = v, !.first[1].raw = n]
               ELSE [h EXCEPT !.extra[k].value = v, !.extra[k].raw = n] IN
    IF k < 0 THEN appendHeaderNormalized(h, n, v)
    ELSE [set EXCEPT !.extra = [i \in 1..Cardinality(Kept) |->
             set.extra[CHOOSE j \in Kept : Cardinality({x \in Kept : x <= j}) = i]]]
AppendAll(h, n, vs) == FoldLeft(LAMBDA a, v : appendHeaderNormalized(a, n, v), h, vs)
\* A value that is an array has one entry for each element; a single value is << v >>.
setHeader(h, n, vs, isArray) ==
    IF isArray THEN AppendAll(removeAllOfHeader(h, Lower(n)), n, vs) ELSE setHeaderString(h, n, vs[1])
Joined(es) == IF es = <<>> THEN <<>> ELSE [i \in DOMAIN es |-> es[i].value]
getHeader(h, n) ==
    LET low == Lower(n) IN
    Joined((IF h.first # <<>> /\ h.first[1].name = low THEN h.first ELSE <<>>)
           \o SelectSeq(h.extra, LAMBDA e : e.name = low))
getHeaderNames(h) ==
    FoldLeft(LAMBDA names, e : IF Contains(names, e.name) THEN names ELSE Append(names, e.name),
             IF h.first = <<>> THEN <<>> ELSE <<h.first[1].name>>, h.extra)
hasHeader(h, n) == indexOfHeader(h, Lower(n)) >= 0

----------------
(* Framing.  The reactor sees every field go by and decides how the body    *)
(* is delimited; the wire holds tokens.                                    *)

Field(n, v) == [name |-> n, value |-> v]
Has(fields, n) == \E i \in DOMAIN fields : fields[i].name = n
Closes(fields) == \E i \in DOMAIN fields : fields[i] = Field("connection", "close")
NoBody(head, status) == head \/ status \in {204, 304} \/ (status >= 100 /\ status < 200)

headEndFault(fields, noBody, http10, asked, auto) ==
    LET own == noBody \/ Has(fields, "content-length")
        chunked == ~own /\ auto < 0
        keep == asked /\ ~Closes(fields) IN
    [chunked |-> chunked, keep |-> keep,
     tail |-> (IF Has(fields, "connection") THEN <<>> ELSE <<Field("connection", IF keep THEN "keep-alive" ELSE "close")>>)
              \o (IF ~own /\ auto >= 0 THEN <<Field("content-length", Digits(auto))>>
                  ELSE IF chunked THEN <<Field("transfer-encoding", "chunked")>> ELSE <<>>)]
headEnd(fields, noBody, http10, asked, auto) ==
    LET own == noBody \/ Has(fields, "content-length") \/ Has(fields, "transfer-encoding")
        chunked == ~own /\ auto < 0 /\ ~http10
        keep == asked /\ ~Closes(fields) /\ ~(~own /\ auto < 0 /\ http10) IN
    [chunked |-> chunked, keep |-> keep,
     tail |-> (IF Has(fields, "connection") THEN <<>> ELSE <<Field("connection", IF keep THEN "keep-alive" ELSE "close")>>)
              \o (IF ~own /\ auto >= 0 THEN <<Field("content-length", Digits(auto))>>
                  ELSE IF chunked THEN <<Field("transfer-encoding", "chunked")>> ELSE <<>>)]

HeadOf(status, fields) == [t |-> "head", status |-> status, fields |-> fields]
Part(x) == IF x = <<>> THEN <<>> ELSE <<[t |-> "part", x |-> x]>>
Chunk(x) == IF x = <<>> THEN <<>> ELSE <<[t |-> "chunk", x |-> x]>>
LastChunk == <<[t |-> "last"]>>
Hints == [t |-> "hints"]
Sent(s) == IF conn.cut THEN out ELSE out \o s

NewResponse(r) ==
    [head |-> r.head, http10 |-> r.http10, asked |-> r.keep, status |-> 200, hdr |-> NoHeaders,
     committed |-> FALSE, chunked |-> FALSE, suppress |-> FALSE, keep |-> r.keep,
     finished |-> FALSE, destroyed |-> FALSE,
     sent |-> 0, listed |-> <<>>, want |-> <<>>, body |-> <<>>]    \* history: status and fields at the commit, headers and body asked for

Wire(entries) == [i \in DOMAIN entries |-> Field(entries[i].name, entries[i].value)]
(* beginHead(), the fields, endHead(): the response, and the head it wrote. *)
Commit(r, entries, auto) ==
    LET fields == Wire(entries)
        noBody == NoBody(r.head, r.status)
        e == headEnd(fields, noBody, r.http10, r.asked, auto) IN
    [r |-> [r EXCEPT !.committed = TRUE, !.suppress = noBody, !.chunked = e.chunked, !.keep = e.keep,
                     !.listed = fields, !.sent = r.status],
     s |-> <<HeadOf(r.status, fields \o e.tail)>>]
commitHeaders(r, auto) == IF r.committed THEN [r |-> r, s |-> <<>>] ELSE Commit(r, Listed(r.hdr), auto)

\* What a declared length leaves for the body: the application keeps its own promise.
Declared(r) == LET at == SelectSeq(IF r.committed THEN r.listed ELSE Wire(Listed(r.hdr)), LAMBDA f : f.name = "content-length") IN
               IF at = <<>> THEN -1 ELSE Length(at[1].value)
Framed(r, x, last) ==
    LET n == Declared(r) IN
    n >= 0 /\ ~NoBody(r.head, r.status) => IF last THEN Len(r.body \o x) = n ELSE Len(r.body \o x) <= n

----------------
(* ServerResponse.                                                         *)

Count(o) == [o EXCEPT !.ops = @ + 1]
Running == run # <<>> /\ Last(run).at = "handler"
Free == run = <<>> \/ Running        \* the application is running: a handler, or a later callback
Same == UNCHANGED <<mode, req, srv>>

UpdateHeaders(i, h, w) ==
    /\ res' = [res EXCEPT ![i].hdr = h, ![i].want = w]
    /\ obs' = Count(obs)
    /\ Same /\ UNCHANGED <<out, conn, run, jobs>>
\* The reference the store is compared with: one sequence of entries.
Plain(w, low) == SelectSeq(w, LAMBDA e : e.name # low)
Replace(w, n, v) ==
    LET k == CHOOSE i \in DOMAIN w : w[i].name = Lower(n) /\ \A j \in 1..(i - 1) : w[j].name # Lower(n) IN
    IF ~\E i \in DOMAIN w : w[i].name = Lower(n) THEN Append(w, Entry(n, v))
    ELSE Plain(SubSeq(w, 1, k - 1), Lower(n)) \o <<Entry(n, v)>> \o Plain(SubSeq(w, k + 1, Len(w)), Lower(n))
Entries(n, vs) == [i \in DOMAIN vs |-> Entry(n, vs[i])]

SetHeader(i, n, vs, isArray) ==
    /\ May("set") /\ Free
    /\ UpdateHeaders(i, setHeader(res[i].hdr, n, vs, isArray),
                     IF isArray THEN Plain(res[i].want, Lower(n)) \o Entries(n, vs) ELSE Replace(res[i].want, n, vs[1]))
AppendHeader(i, n, vs) ==
    /\ May("append") /\ Free
    /\ UpdateHeaders(i, AppendAll(res[i].hdr, n, vs), res[i].want \o Entries(n, vs))
RemoveHeader(i, n) ==
    /\ May("remove") /\ Free
    /\ UpdateHeaders(i, removeAllOfHeader(res[i].hdr, Lower(n)), Plain(res[i].want, Lower(n)))

\* A call that leaves response c.r and appends c.s to the output.
Writes(i, c) ==
    /\ res' = [res EXCEPT ![i] = c.r]
    /\ out' = Sent(c.s)
    /\ obs' = Count(obs)
    /\ Same /\ UNCHANGED <<conn, run, jobs>>

(* writeHead(): with nothing staged the entries go straight into the head; *)
(* else they are merged with the staged ones.                              *)
WriteHead(i, status, given) ==
    LET r == [res[i] EXCEPT !.status = status]
        merged == [r EXCEPT !.hdr = FoldLeft(LAMBDA h, e : setHeader(h, e.raw, <<e.value>>, FALSE), @, given),
                            !.want = FoldLeft(LAMBDA w, e : Replace(w, e.raw, e.value), @, given)] IN
    /\ May("writeHead") /\ Free
    /\ IF ~r.committed /\ r.hdr.first = <<>>
       THEN Writes(i, Commit(r, given, -1))
       ELSE Writes(i, commitHeaders(merged, -1))
FlushHeaders(i) ==
    /\ May("flush") /\ Free
    /\ Writes(i, commitHeaders(res[i], -1))
WriteEarlyHints(i) ==
    /\ May("hints") /\ Free
    /\ Writes(i, [r |-> res[i], s |-> IF res[i].committed THEN <<>> ELSE <<Hints>>])

Writable(r) == ~r.finished /\ ~r.destroyed
Payload(r, x) == IF r.suppress THEN <<>> ELSE IF r.chunked THEN Chunk(x) ELSE Part(x)
Write(i, x) ==
    LET c == commitHeaders(res[i], -1) IN
    /\ May("write") /\ Free /\ Framed(res[i], x, FALSE)
    /\ IF Writable(res[i])
       THEN Writes(i, [r |-> [c.r EXCEPT !.body = @ \o x], s |-> c.s \o Payload(c.r, x)])
       ELSE Writes(i, [r |-> res[i], s |-> <<>>])

(* end(): outside a handler, done() may dispatch the next request before   *)
(* 'finish' is emitted.                                                    *)
EndPayload(r, x) == Payload(r, x) \o (IF r.chunked /\ ~r.suppress THEN LastChunk ELSE <<>>)
Completed(k) == [conn EXCEPT !.done = @ + 1, !.keep = @ /\ k]
End(i, x) ==
    LET r == [res[i] EXCEPT !.finished = TRUE]
        c == commitHeaders(r, Len(x)) IN
    /\ May("end") /\ Free /\ Writable(res[i]) /\ Framed(res[i], x, TRUE)
    /\ res' = [res EXCEPT ![i] = [c.r EXCEPT !.body = @ \o x]]
    /\ out' = Sent(c.s \o EndPayload(c.r, x))
    /\ conn' = Completed(c.r.keep)
    /\ run' = Append(run, [at |-> "end", i |-> i])
    /\ obs' = Count(obs)
    /\ Same /\ UNCHANGED jobs
EndAgain(i) ==
    /\ May("end") /\ Free /\ ~Writable(res[i])
    /\ Writes(i, [r |-> res[i], s |-> <<>>])
Finished(f) == f.i
EmitFinish ==
    /\ run # <<>> /\ Last(run).at = "end"
    /\ run' = Front(run)
    /\ obs' = [obs EXCEPT !.finish = Append(@, Finished(Last(run)))]
    /\ Same /\ UNCHANGED <<res, out, conn, jobs>>
DestroyResponse(i) ==
    /\ May("destroy") /\ Free
    /\ res' = [res EXCEPT ![i].destroyed = TRUE]
    /\ conn' = [conn EXCEPT !.cut = @ \/ ~res[i].destroyed]
    /\ obs' = [Count(obs) EXCEPT !.asked = TRUE]
    /\ Same /\ UNCHANGED <<out, run, jobs>>

----------------
(* The Server: connection listeners of the first request, the listener of  *)
(* the constructor, and the extra listeners, in loops that splice the once *)
(* listeners out before they call them.                                    *)

Listener(id, once) == [id |-> id, once |-> once]
Due(i) == {<<"request", l.id>> : l \in ToSet(srv.request)}
          \cup (IF i = 1 THEN {<<"connection", l.id>> : l \in ToSet(srv.connection)} ELSE {})
CanBegin == /\ Len(res) < Len(mode.reqs) /\ conn.done = Len(res) /\ conn.keep /\ ~conn.cut
            /\ \A k \in DOMAIN run : run[k].at # "handler"

NewRequest(r) ==
    [pend |-> IF r.body THEN <<"body">> ELSE <<>>, paused |-> TRUE, flowing |-> "null", scheduled |-> FALSE,
     endScheduled |-> FALSE, ended |-> FALSE, destroyed |-> FALSE, closed |-> FALSE, on |-> {}, body |-> r.body,
     turn |-> TRUE, early |-> FALSE, took |-> FALSE, got |-> 0, seen |-> 0, ends |-> 0]    \* history

Begin(server) ==
    LET i == Len(res) + 1 IN
    /\ mode.server = server /\ CanBegin
    /\ res' = Append(res, NewResponse(mode.reqs[i]))
    /\ req' = Append(req, NewRequest(mode.reqs[i]))
    /\ run' = Append(run, [at |-> "handler", i |-> i, list |-> IF i = 1 THEN "connection" ELSE "main", k |-> 0])
    /\ obs' = [obs EXCEPT !.due = Due(i), !.called = {}, !.shifted = FALSE]
    /\ UNCHANGED <<mode, out, conn, jobs, srv>>
Dispatch == Begin("http")

Spliced(k) == k
Call(f, list) ==      \* one turn of the loop over a list of listeners
    LET l == srv[list][f.k + 1] IN
    /\ f.k < Len(srv[list])
    /\ srv' = IF l.once THEN [srv EXCEPT ![list] = RemoveAt(@, f.k + 1)] ELSE srv
    /\ run' = [run EXCEPT ![Len(run)].k = IF l.once THEN Spliced(f.k) ELSE f.k + 1]
    /\ obs' = [obs EXCEPT !.called = @ \cup {<<list, l.id>>},
                          !.twice = @ \/ (<<list, l.id>> \in obs.called /\ ~obs.shifted)]
    /\ UNCHANGED req
Turn(f, list) ==
    /\ run' = [run EXCEPT ![Len(run)].list = list, ![Len(run)].k = 0]
    /\ UNCHANGED <<req, srv, obs>>
Return(f) ==
    /\ f.k >= Len(srv.request)
    /\ run' = Front(run)
    /\ req' = [req EXCEPT ![f.i].turn = FALSE]
    /\ obs' = [obs EXCEPT !.missed = @ \/ ~(obs.due \subseteq obs.called)]
    /\ UNCHANGED srv
NextListener ==
    LET f == Last(run) IN
    /\ mode.server = "http" /\ Running
    /\ CASE f.list = "connection" -> IF f.k < Len(srv.connection) THEN Call(f, "connection") ELSE Turn(f, "main")
         [] f.list = "main" -> Turn(f, "request")
         [] OTHER -> IF f.k < Len(srv.request) THEN Call(f, "request") ELSE Return(f)
    /\ UNCHANGED <<mode, res, out, conn, jobs>>

AddListener(list, once, prepend) ==
    LET l == Listener(obs.ops + 1, once) IN
    /\ May("listen") /\ Free
    /\ srv' = [srv EXCEPT ![list] = IF prepend THEN <<l>> \o @ ELSE Append(@, l)]
    /\ obs' = [Count(obs) EXCEPT !.shifted = @ \/ prepend]
    /\ UNCHANGED <<mode, req, res, out, conn, run, jobs>>
RemoveAllListeners(list) ==
    /\ May("unlisten") /\ Free
    /\ srv' = [srv EXCEPT ![list] = <<>>]
    /\ obs' = [Count(obs) EXCEPT !.due = {d \in @ : d[1] # list}]
    /\ UNCHANGED <<mode, req, res, out, conn, run, jobs>>

----------------
(* The body of an IncomingMessage: a Readable whose whole content is       *)
(* pushed before the handler runs.  Listeners start it a microtask later.  *)

Job(f, i) == <<f, i>>
maybeEmitEnd(q) == IF q.pend # <<>> \/ q.ended \/ q.endScheduled THEN q ELSE [q EXCEPT !.endScheduled = TRUE]
Data(q) == [q EXCEPT !.pend = <<>>, !.got = @ + Len(q.pend), !.seen = @ + (IF "data" \in q.on THEN Len(q.pend) ELSE 0)]
resume(q) == IF q.destroyed THEN q ELSE maybeEmitEnd(Data([q EXCEPT !.paused = FALSE, !.flowing = "yes"]))
read(q) == maybeEmitEnd(Data(q))
\* A call on request i that leaves it as q; the end it may schedule is a microtask.
Consume(i, q, queue) ==
    /\ req' = [req EXCEPT ![i] = q]
    /\ jobs' = queue \o (IF q.endScheduled /\ ~req[i].endScheduled THEN <<Job("end", i)>> ELSE <<>>)
    /\ UNCHANGED <<mode, res, out, run, srv>>
Used == obs' = Count(obs) /\ UNCHANGED conn

newListenerAdded(q) == IF q.scheduled \/ q.flowing = "yes" THEN q ELSE [q EXCEPT !.scheduled = TRUE]
On(i, name) ==
    LET q == newListenerAdded([req[i] EXCEPT !.on = @ \cup {name},
                                 !.early = @ \/ (name = "data" /\ req[i].turn /\ ~req[i].took)]) IN
    /\ May("body") /\ Free /\ name \notin req[i].on
    /\ Consume(i, q, IF q.scheduled /\ ~req[i].scheduled THEN Append(jobs, Job("resume", i)) ELSE jobs)
    /\ Used
Pause(i) ==
    /\ May("body") /\ Free
    /\ Consume(i, [req[i] EXCEPT !.paused = TRUE, !.flowing = "no"], jobs) /\ Used
Resume(i) ==
    /\ May("body") /\ Free
    /\ Consume(i, resume([req[i] EXCEPT !.took = TRUE]), jobs) /\ Used
ReadBody(i) ==
    /\ May("body") /\ Free
    /\ Consume(i, read([req[i] EXCEPT !.took = TRUE]), jobs) /\ Used
Unfinished(q) == ~q.ended
DestroyRequest(i) ==
    LET q == req[i] IN
    /\ May("body") /\ Free /\ ~q.destroyed
    /\ Consume(i, [q EXCEPT !.destroyed = TRUE], Append(jobs, Job("close", i)))
    /\ conn' = [conn EXCEPT !.cut = @ \/ Unfinished(q)]
    /\ obs' = [Count(obs) EXCEPT !.asked = TRUE]

ResumeJob(i, q) ==
    /\ Consume(i, IF q.flowing = "no" THEN [q EXCEPT !.scheduled = FALSE] ELSE resume([q EXCEPT !.scheduled = FALSE]), Tail(jobs))
    /\ UNCHANGED <<conn, obs>>
\* 'end', and then the automatic destroy().
EndJob(i, q) ==
    LET ends == [q EXCEPT !.ended = TRUE, !.destroyed = TRUE, !.endScheduled = FALSE,
                          !.ends = @ + (IF "end" \in q.on THEN 1 ELSE 0)] IN
    /\ IF q.ended \/ q.destroyed \/ q.pend # <<>>
       THEN Consume(i, [q EXCEPT !.endScheduled = FALSE], Tail(jobs)) /\ UNCHANGED conn
       ELSE /\ Consume(i, ends, Append(Tail(jobs), Job("close", i)))
            /\ conn' = [conn EXCEPT !.cut = @ \/ Unfinished(ends)]
    /\ UNCHANGED obs
CloseJob(i, q) == Consume(i, [q EXCEPT !.closed = TRUE], Tail(jobs)) /\ UNCHANGED <<conn, obs>>
RunJob ==
    LET i == Head(jobs)[2]
        q == req[i] IN
    /\ run = <<>> /\ jobs # <<>>
    /\ CASE Head(jobs)[1] = "resume" -> ResumeJob(i, q)
         [] Head(jobs)[1] = "end" -> EndJob(i, q)
         [] OTHER -> CloseJob(i, q)

----------------
(* The fetch adapter: dispatch() calls the handler, which returns a        *)
(* Response, throws, or returns a promise settled in a later microtask.    *)

Fetch == Begin("fetch")
Leave == run' = Front(run)
\* respond(): the head, the body, done().
respondTail(r, fields, noBody, x, keep) ==
    (IF noBody \/ Has(fields, "content-length") \/ Has(fields, "transfer-encoding") THEN <<>>
     ELSE <<Field("content-length", Digits(Len(x)))>>)
    \o (IF Has(fields, "connection") THEN <<>> ELSE <<Field("connection", IF keep THEN "keep-alive" ELSE "close")>>)
respond(i, status, entries, x) ==
    LET r == [res[i] EXCEPT !.status = status, !.hdr = [first |-> <<>>, extra |-> entries]]
        fields == Wire(entries)
        noBody == NoBody(r.head, status)
        keep == r.asked /\ ~Closes(fields) IN
    /\ Framed(r, x, TRUE)
    /\ res' = [res EXCEPT ![i] = [r EXCEPT !.committed = TRUE, !.finished = TRUE, !.suppress = noBody, !.keep = keep,
                                     !.listed = fields, !.sent = status, !.body = x]]
    /\ out' = Sent(<<HeadOf(status, fields \o respondTail(r, fields, noBody, x, keep))>> \o (IF noBody THEN <<>> ELSE Part(x)))
    /\ conn' = Completed(keep)
respondFailure(i) ==
    LET fields == <<Field("content-length", "0"), Field("connection", "close")>> IN
    /\ res' = [res EXCEPT ![i].status = 500, ![i].committed = TRUE, ![i].finished = TRUE,
                          ![i].keep = FALSE, ![i].listed = fields, ![i].sent = 500]
    /\ out' = Sent(<<HeadOf(500, fields)>>)
    /\ conn' = Completed(FALSE)
Fetching == mode.server = "fetch" /\ Running
Unchanged == UNCHANGED <<mode, req, jobs, srv>>
FetchReturns(status, entries, x) ==
    /\ Fetching /\ respond(Last(run).i, status, entries, x) /\ Leave
    /\ Unchanged /\ UNCHANGED obs
FetchThrows == /\ Fetching /\ respondFailure(Last(run).i) /\ Leave /\ Unchanged /\ UNCHANGED obs
FetchPromise ==
    /\ Fetching /\ Leave
    /\ obs' = [obs EXCEPT !.promised = @ \cup {Last(run).i}]
    /\ Unchanged /\ UNCHANGED <<res, out, conn>>
FetchSettles(i) == run = <<>> /\ i \in obs.promised /\ obs' = [obs EXCEPT !.promised = @ \ {i}]
FetchResolves(i, status, entries, x) ==
    /\ FetchSettles(i) /\ respond(i, status, entries, x) /\ Unchanged /\ UNCHANGED run
FetchRejects(i) == FetchSettles(i) /\ respondFailure(i) /\ Unchanged /\ UNCHANGED run

----------------
(* The table of sockets of the server's connections.                       *)

Bigger(a, b) == IF a > b THEN a ELSE b
NextPrune(table, open) == Bigger(PruneFloor, Cardinality(table \cap open) * 2)
Others == UNCHANGED <<mode, req, res, out, conn, run, jobs>>
Open ==
    /\ "sockets" \in mode.may /\ srv.accepted < MaxSockets
    /\ srv' = [srv EXCEPT !.open = @ \cup {srv.accepted + 1}, !.accepted = @ + 1, !.peak = Bigger(@, Cardinality(srv.open) + 1)]
    /\ Others /\ UNCHANGED obs
Close(c) ==
    /\ "sockets" \in mode.may /\ c \in srv.open
    /\ srv' = [srv EXCEPT !.open = @ \ {c}]
    /\ Others /\ UNCHANGED obs
connectionSocket(c) ==
    LET full == Cardinality(srv.table) >= srv.pruneAt
        kept == IF full THEN srv.table \cap srv.open ELSE srv.table IN
    /\ "sockets" \in mode.may /\ c \in srv.open \ srv.table
    /\ srv' = [srv EXCEPT !.table = kept \cup {c},
                          !.pruneAt = IF full THEN NextPrune(srv.table, srv.open) ELSE @]
    /\ Others /\ UNCHANGED obs

----------------
Init ==
    /\ mode \in Modes
    /\ req = <<>> /\ res = <<>> /\ out = <<>> /\ run = <<>> /\ jobs = <<>>
    /\ conn = [done |-> 0, keep |-> TRUE, cut |-> FALSE]
    /\ srv = [request |-> <<>>, connection |-> <<>>, open |-> {}, table |-> {}, pruneAt |-> PruneFloor, accepted |-> 0, peak |-> 0]
    /\ obs = [ops |-> 0, finish |-> <<>>, asked |-> FALSE, due |-> {}, called |-> {}, shifted |-> FALSE,
              twice |-> FALSE, missed |-> FALSE, promised |-> {}]

Bodies == {[k \in 1..n |-> 10 * obs.ops + k] : n \in mode.sizes}
Given == {<<>>} \cup {<<Entry(nv[1], nv[2])>> : nv \in mode.names}
Application(i) ==
    \/ \E nv \in mode.names : SetHeader(i, nv[1], <<nv[2]>>, FALSE)
    \/ \E nv \in mode.names : nv[1] \in {"x", "X"} /\ SetHeader(i, nv[1], <<nv[2], "b">>, TRUE)
    \/ \E nv \in mode.names : nv[1] \in {"x", "X"} /\ AppendHeader(i, nv[1], <<nv[2]>>)
    \/ \E nv \in mode.names : RemoveHeader(i, nv[1])
    \/ \E status \in mode.statuses, given \in Given : WriteHead(i, status, given)
    \/ FlushHeaders(i)
    \/ WriteEarlyHints(i)
    \/ \E x \in Bodies : Write(i, x)
    \/ \E x \in Bodies : End(i, x)
    \/ EndAgain(i)
    \/ DestroyResponse(i)
    \/ \E name \in {"data", "end"} : On(i, name)
    \/ Pause(i)
    \/ Resume(i)
    \/ ReadBody(i)
    \/ DestroyRequest(i)
Fetches ==
    \/ Fetch
    \/ \E status \in mode.statuses, given \in Given, x \in Bodies : FetchReturns(status, given, x)
    \/ FetchThrows
    \/ FetchPromise
    \/ \E i \in Requests, status \in mode.statuses, given \in Given, x \in Bodies : FetchResolves(i, status, given, x)
    \/ \E i \in Requests : FetchRejects(i)
Next ==
    \/ Dispatch
    \/ NextListener
    \/ EmitFinish
    \/ RunJob
    \/ \E i \in Requests : Application(i)
    \/ \E list \in {"request", "connection"}, once, prepend \in BOOLEAN : AddListener(list, once, prepend)
    \/ \E list \in {"request", "connection"} : RemoveAllListeners(list)
    \/ Fetches
    \/ Open
    \/ \E c \in srv.open : Close(c) \/ connectionSocket(c)

(* The reactor drains microtasks and lets a handler run to its return.     *)
Fairness == WF_vars(RunJob) /\ WF_vars(NextListener) /\ WF_vars(EmitFinish)
Spec == Init /\ [][Next]_vars /\ Fairness

----------------
(* What a client makes of the bytes: responses in the order of its         *)
(* requests, each body delimited by its head; HTTP/1.0 knows no chunks.    *)

Delimiter(k, h) ==
    LET length == SelectSeq(h.fields, LAMBDA f : f.name = "content-length") IN
    CASE NoBody(mode.reqs[k].head, h.status) -> [by |-> "none", left |-> 0]
      [] Has(h.fields, "transfer-encoding") /\ ~mode.reqs[k].http10 -> [by |-> "chunks", left |-> 0]
      [] length # <<>> -> [by |-> "length", left |-> Length(length[1].value)]
      [] OTHER -> [by |-> "close", left |-> 0]
Complete(c) == c.d.by = "none" \/ (c.d.by = "length" /\ c.d.left = 0)
Receive(c, token) ==
    CASE c.bad -> c
      [] token.t = "hints" -> IF Complete(c) THEN c ELSE [c EXCEPT !.bad = TRUE]
      [] token.t = "head" ->
            IF ~Complete(c) \/ Len(c.got) = Len(mode.reqs) THEN [c EXCEPT !.bad = TRUE]
            ELSE [c EXCEPT !.got = Append(@, [status |-> token.status, fields |-> token.fields, body |-> <<>>]),
                           !.d = Delimiter(Len(c.got) + 1, token)]
      [] token.t = "last" -> IF c.d.by # "chunks" THEN [c EXCEPT !.bad = TRUE] ELSE [c EXCEPT !.d.by = "none"]
      [] token.t = "chunk" /\ c.d.by = "chunks" -> [c EXCEPT !.got[Len(c.got)].body = @ \o token.x]
      [] token.t = "part" /\ c.d.by = "close" -> [c EXCEPT !.got[Len(c.got)].body = @ \o token.x]
      [] token.t = "part" /\ c.d.by = "length" /\ Len(token.x) <= c.d.left ->
            [c EXCEPT !.got[Len(c.got)].body = @ \o token.x, !.d.left = @ - Len(token.x)]
      [] OTHER -> [c EXCEPT !.bad = TRUE]
Client == FoldLeft(Receive, [got |-> <<>>, bad |-> FALSE, d |-> [by |-> "none", left |-> 0]], out)

\* A client reads out of the bytes exactly the responses the handlers gave: in the order of the requests,
\* with the status and headers of the commit and the body of the accepted writes, whatever mixture of
\* writeHead(), flushHeaders(), write(), end(), HEAD, HTTP/1.0, early hints, 204 and pipelining made them;
\* only a response that closes the connection is delimited by the close.
WireDecodes ==
    conn.cut \/
    LET c == Client IN
    /\ ~c.bad
    /\ \A i \in DOMAIN c.got :
        /\ c.got[i].status = res[i].sent
        /\ IsPrefix(res[i].listed, c.got[i].fields)
        /\ IF res[i].suppress THEN c.got[i].body = <<>>
           ELSE IF res[i].finished THEN c.got[i].body = res[i].body ELSE IsPrefix(c.got[i].body, res[i].body)
    /\ Len(c.got) = Cardinality({i \in Requests : res[i].committed})
    /\ \A i \in DOMAIN c.got : res[i].finished => \/ i < Len(c.got) \/ Complete(c)
                                                 \/ (c.d.by = "close" /\ ~conn.keep)

\* The store of first header and arrays is the ordered multimap Node's API describes: what getHeader(),
\* getHeaderNames() and the serializer read is one sequence of entries, in the order of insertion.
HeaderStore ==
    \A i \in Requests :
        LET r == res[i] IN
        mode.server = "http" =>
        /\ Listed(r.hdr) = r.want
        /\ \A nv \in mode.names : getHeader(r.hdr, nv[1]) = Joined(SelectSeq(r.want, LAMBDA e : e.name = Lower(nv[1])))
        /\ \A nv \in mode.names : hasHeader(r.hdr, nv[1]) <=> Contains(getHeaderNames(r.hdr), Lower(nv[1]))

\* When nothing is running, every response that was ended has emitted 'finish', exactly once, and no other has,
\* even when end() ran the handlers of later requests before it came to its own 'finish'.
FinishOnce ==
    /\ \A i \in Requests : Cardinality({k \in DOMAIN obs.finish : obs.finish[k] = i}) <= 1
    /\ \A k \in DOMAIN obs.finish : res[obs.finish[k]].finished
    /\ run = <<>> /\ mode.server = "http" => \A i \in Requests : res[i].finished => Contains(obs.finish, i)

\* Every listener that is registered before a request and not removed is called for it, and called once unless
\* a listener is prepended meanwhile, although the loops splice once listeners out of the array they walk.
ListenersCalledOnce == ~obs.missed /\ ~obs.twice

\* A handler that attaches 'data' in its own turn, in any order with 'end', sees the body exactly once and before
\* the end, unless it drained the body itself; no body is handed out twice.
BodySeenOnce ==
    \A i \in Requests :
        /\ req[i].got <= 1 /\ req[i].ends <= 1
        /\ req[i].ended /\ req[i].body => req[i].got = 1
        /\ req[i].ended /\ req[i].early /\ req[i].body => req[i].seen = 1

\* A connection is cut only by a destroy() of the application: the destroy() that follows a request's 'end' by
\* itself leaves the connection to the next request.
KeepsConnection == conn.cut => obs.asked

\* The table of sockets holds at most twice as many sockets as connections were ever open at once.
SocketsBounded == Cardinality(srv.table) <= Bigger(PruneFloor, 2 * srv.peak)

\* A request with a 'data' or 'end' listener that is neither paused nor destroyed gets to its end.
BodyArrives ==
    \A i \in 1..2 : (i \in Requests /\ req[i].on # {}) ~> (i \in Requests /\ (req[i].ended \/ req[i].destroyed \/ req[i].flowing = "no"))

\* What a response puts on the wire decodes to what was written, once, whatever the order of calls; bodies and
\* listeners are seen once, connections kept or closed as announced, the table of sockets bounded.
MessageSafe ==
    /\ WireDecodes /\ HeaderStore /\ FinishOnce /\ ListenersCalledOnce /\ BodySeenOnce /\ KeepsConnection
    /\ SocketsBounded
=============================================================================
