------------------------------- MODULE Parity -------------------------------
(***************************************************************************)
(* scripts/http-parity.mjs: one scripted conversation with the todo server *)
(* under Node and with the native one, whose answers are compared after    *)
(* each id was replaced by the order in which it was first seen.           *)
(***************************************************************************)
EXTENDS TodoServer, Evaluate

----------------
(* The server as the script sees it: one request at a time.  A body is a   *)
(* parsed value or "malformed".                                            *)

Body(title, completed) == [object |-> TRUE, title |-> title, completed |-> completed]
NotObject == [object |-> FALSE, title |-> NoField, completed |-> NoField]
BadJson == [malformed |-> TRUE]
Routes == {<<"GET", "asset">>, <<"GET", "/api/todos">>, <<"POST", "/api/todos">>, <<"PATCH", "id">>, <<"DELETE", "id">>}
routeOf(r) == IF <<r.method, r.path>> \in Routes THEN <<r.method, r.path>> ELSE <<"none", "none">>
\* app.fetch(): the collection afterwards and the answer
serve(d, id, r, fresh) ==
    CASE r.method = "GET" /\ r.path = "/api/todos" -> [db |-> d, answer |-> Respond(200, findSorted(d))]
      [] r.method = "GET" /\ r.path = "asset" -> [db |-> d, answer |-> Respond(200, <<>>)]
      [] r.method = "POST" /\ r.path = "/api/todos" ->
            IF r.body = BadJson THEN [db |-> d, answer |-> Failure]
            ELSE IF parseCreateInput(r.body) = NoInput THEN [db |-> d, answer |-> Respond(400, <<>>)]
            ELSE LET doc == [todoDocument(fresh, parseCreateInput(r.body).title, Cardinality(DOMAIN d) + 1) EXCEPT !.id = fresh] IN
                 [db |-> insertOne(d, doc), answer |-> Respond(201, <<doc>>)]
      [] r.method \in {"PATCH", "DELETE"} /\ r.path = "id" /\ id = "invalid" -> [db |-> d, answer |-> Respond(400, <<>>)]
      [] r.method = "PATCH" /\ r.path = "id" ->
            IF r.body = BadJson THEN [db |-> d, answer |-> Failure]
            ELSE LET input == parseUpdateInput(r.body) IN
            IF input = NoInput THEN [db |-> d, answer |-> Respond(400, <<>>)]
            ELSE LET e == IF id \in DOMAIN d THEN updateOne(d, id, input, d[id].updated) ELSE d IN [db |-> e, answer |-> foundTodo(e, id)]
      [] r.method = "DELETE" /\ r.path = "id" ->
            [db |-> deleteOne(d, id), answer |-> IF id \in DOMAIN d THEN Respond(204, <<>>) ELSE Respond(404, <<>>)]
      [] OTHER -> [db |-> d, answer |-> Respond(404, <<>>)]

----------------
(* conversation(): the steps; to and keep name the ids kept on the way.     *)

Step(method, path, body, to, keep) == [method |-> method, path |-> path, body |-> body, to |-> to, keep |-> keep]
Get(path) == Step("GET", path, NotObject, "none", "none")
Post(body, keep) == Step("POST", "/api/todos", body, "none", keep)
Patch(to, body) == Step("PATCH", "id", body, to, "none")
Delete(to) == Step("DELETE", "id", NotObject, to, "none")
List == Get("/api/todos")
conversation == <<
    Get("asset"), Get("asset"), List,
    Post(Body("padded", NoField), "first"), Post(Body("plain", NoField), "second"), Post(Body("plain", NoField), "third"),
    Post(Body("blank", NoField), "none"), Post(Body(NoField, NoField), "none"), Post(Body(NotString, NoField), "none"),
    Post(Body("long", NoField), "none"), Post(Body(NoField, NoField), "none"), Post(NotObject, "none"), Post(BadJson, "none"),
    List, Step("GET", "id", NotObject, "first", "none"),
    Patch("first", Body(NoField, "true")), Patch("second", Body("padded", NoField)), Patch("third", Body("full", "true")),
    Patch("first", Body(NoField, NoField)), Patch("first", Body(NoField, NotBoolean)),
    Patch("invalid", Body(NoField, "true")), Patch("unknown", Body(NoField, "true")), List,
    Delete("second"), Delete("second"), Delete("invalid"), List,
    Get("/nope"), Step("PUT", "/api/todos", Body("plain", NoField), "none", "none"),
    Delete("first"), Delete("third"), List>>

\* step.path(ids): a kept id, or a fixed one
StepTarget(ids, to) == IF to \in DOMAIN ids THEN ids[to] ELSE to
\* runConversation() with a server that mints the given ids; spoil alters one kind of answer
Spoiled(a, r, spoil) == IF spoil = <<routeOf(r), a.status>> THEN Respond(a.status, <<[todoDocument("odd", "odd", 0) EXCEPT !.completed = "odd"]>>) ELSE a
runConversation(mint, spoil) ==
    FoldLeft(LAMBDA acc, r:
                LET out == serve(acc.db, StepTarget(acc.ids, r.to), r, mint[acc.created + 1])
                    answer == Spoiled(out.answer, r, spoil)
                    made == out.answer.status = 201 IN
                [db |-> out.db, created |-> IF made THEN acc.created + 1 ELSE acc.created,
                 ids |-> IF r.keep # "none" /\ answer.status = 201 THEN (r.keep :> answer.todos[1].id) @@ acc.ids ELSE acc.ids,
                 results |-> Append(acc.results, answer)],
             [db |-> <<>>, created |-> 0, ids |-> <<>>, results |-> <<>>], conversation).results

----------------
(* normalize(): an id becomes its place in the order of first sight, a      *)
(* time becomes <ts>; bodies here are sequences of ids and other words.     *)

TodoIds == {"x", "y", "z"}
normalizeBody(seen, body) ==
    FoldLeft(LAMBDA acc, w:
                IF w \notin TodoIds THEN [acc EXCEPT !.text = Append(@, <<"word", w>>)]
                ELSE LET now == IF w \in ToSet(acc.seen) THEN acc.seen ELSE Append(acc.seen, w) IN
                     [seen |-> now, text |-> Append(acc.text, <<"id", SelectInSeq(now, LAMBDA i: i = w)>>)],
             [seen |-> seen, text |-> <<>>], body)
\* one map per conversation
normalize(bodies) ==
    FoldLeft(LAMBDA acc, b: LET n == normalizeBody(acc.seen, b) IN [seen |-> n.seen, texts |-> Append(acc.texts, n.text)],
             [seen |-> <<>>, texts |-> <<>>], bodies).texts
\* the todos of an answer as words
Words_(answer) == FlattenSeq([i \in DOMAIN answer.todos |-> <<answer.todos[i].id, answer.todos[i].title, answer.todos[i].completed>>])
same(node, native) ==
    /\ [i \in DOMAIN node |-> node[i].status] = [i \in DOMAIN native |-> native[i].status]
    /\ normalize([i \in DOMAIN node |-> Words_(node[i])]) = normalize([i \in DOMAIN native |-> Words_(native[i])])

----------------
(* Two conversations are equal after normalisation exactly when one is the *)
(* other under a renaming of ids: the same todo must be meant everywhere.  *)
NormalizeExact ==
    Given("ids") =>
        (normalize(in.a) = normalize(in.b)) =
        (\E p \in [TodoIds -> TodoIds] :
            /\ \A i, j \in TodoIds : p[i] = p[j] => i = j
            /\ in.b = [k \in DOMAIN in.a |-> [n \in DOMAIN in.a[k] |-> IF in.a[k][n] \in TodoIds THEN p[in.a[k][n]] ELSE in.a[k][n]]])

(* Whatever ids two servers mint, the script passes two that answer alike, *)
(* and it fails a server that gives the wrong answer in any of the ways in *)
(* which a route can answer a well-formed request: the conversation goes   *)
(* through "every route (including 404s and bad input)".                   *)
ParityDetects ==
    Given("parity") => same(runConversation(in.node, <<>>), runConversation(in.native, in.spoil)) = (in.spoil = <<>>)

\* The parity check tells two servers apart exactly when an answer differs beyond its ids.
ParityExact == NormalizeExact /\ ParityDetects
=============================================================================
