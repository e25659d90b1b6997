----------------------------- MODULE TodoServer -----------------------------
(***************************************************************************)
(* The routes of apps/hono-mongodb-todo/server.ts as operators on its      *)
(* collection, a function from ids to documents.  A title is one of a few  *)
(* texts known by their length after trim().                               *)
(***************************************************************************)
EXTENDS Integers, Sequences, FiniteSets, SequencesExt, TLC

NoField == "absent"          \* a field that is undefined
NotString == "number"       \* a title that is not a string
NotBoolean == "text"        \* a completed that is not a boolean
TitleLimit == 240
NoInput == [none |-> TRUE]

TitleTrim(t) == IF t = "padded" THEN "plain" ELSE t
TitleLength(t) == CASE t = "blank" -> 0 [] t = "long" -> TitleLimit + 1 [] t = "full" -> TitleLimit [] OTHER -> 5

\* A parsed JSON body: [object, title, completed].
parseCreateInput(v) ==
    IF ~v.object \/ v.title \in {NoField, NotString} \/ TitleLength(TitleTrim(v.title)) \notin 1..TitleLimit THEN NoInput
    ELSE [title |-> TitleTrim(v.title)]
parseUpdateInput(v) ==
    IF \/ ~v.object
       \/ v.title = NotString \/ (v.title # NoField /\ TitleLength(TitleTrim(v.title)) \notin 1..TitleLimit)
       \/ v.completed = NotBoolean
       \/ v.title = NoField /\ v.completed = NoField
    THEN NoInput
    ELSE [title |-> TitleTrim(v.title), completed |-> v.completed]

todoDocument(id, title, now) == [id |-> id, title |-> title, completed |-> "false", created |-> now, updated |-> now]
insertOne(db, doc) == (doc.id :> doc) @@ db
Set_(old, new) == IF new = NoField THEN old ELSE new
updateOne(db, id, input, now) ==
    IF id \notin DOMAIN db THEN db
    ELSE [db EXCEPT ![id] = [@ EXCEPT !.title = Set_(@, input.title), !.completed = Set_(@, input.completed), !.updated = now]]
deleteOne(db, id) == [i \in DOMAIN db \ {id} |-> db[i]]
findSorted(db) == SetToSortSeq({db[i] : i \in DOMAIN db}, LAMBDA a, b: a.created < b.created)

\* toTodo(), todoResponse(), todosResponse(), errorResponse(): a status and the todos of the body
Respond(status, todos) == [status |-> status, todos |-> todos]
Failure == Respond(500, <<>>)          \* a handler that throws: Hono's error handler
foundTodo(db, id) == IF id \in DOMAIN db THEN Respond(200, <<db[id]>>) ELSE Respond(404, <<>>)
=============================================================================
