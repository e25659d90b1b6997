------------------------------ MODULE TodoApp ------------------------------
(***************************************************************************)
(* apps/hono-mongodb-todo: the browser's TodoStore and the correctness     *)
(* checker (scripts/check-fullstack.mjs) as clients of the server, whose   *)
(* handlers await the database between their steps.  Requests of a client  *)
(* overlap, answers come in any order, a request or its answer may be lost *)
(* and the database may fail.                                              *)
(***************************************************************************)
EXTENDS TodoServer

CONSTANTS TodoModes      \* who works: calls of the store's user, whether the checker runs, faults

VARIABLES
    db,        \* the collection
    requests,  \* [n, who, op, id, body, step, stamp, answer, waiting, mixes: sent during the load]
    store,     \* TodoStore: todos, draft, loading, saving, error
    checker,   \* run(): step, id, seen: the todos of its answers, deleted, verdict
    now,       \* logical time
    past       \* history: mode, calls made, faults, every version stored, answers of DELETE, what the store was told, the todos the user worked on, the one the checker's POST stored
todoVars == <<db, requests, store, checker, now, past>>

\* App.created() calls load(); run() starts.
TodoInit ==
    /\ db = <<>> /\ requests = {} /\ now = 1
    /\ store = [todos |-> <<>>, draft |-> "plain", loading |-> FALSE, saving |-> FALSE, error |-> FALSE]
    /\ checker = [step |-> 0, id |-> 0, seen |-> <<>>, deleted |-> FALSE, verdict |-> "running"]
    /\ \E m \in TodoModes : past = [mode |-> m, loaded |-> FALSE, used |-> 0, n |-> 0, faults |-> 0, versions |-> {}, deletes |-> {},
                                    gone |-> {}, mixed |-> {}, raced |-> {}, touched |-> {}, mine |-> {}]

OfStore(op) == {c \in requests : c.who = "store" /\ c.op \in op /\ c.waiting}
TodoRequest(who, op, id, title, completed) ==
    [n |-> past.n + 1, who |-> who, op |-> op, id |-> id, body |-> [object |-> TRUE, title |-> title, completed |-> completed],
     step |-> "sent", stamp |-> 0, answer |-> Failure, waiting |-> TRUE, mixes |-> OfStore({"list"}) # {}]

----------------
(* The server's handlers, one await at a time.                             *)

CallMoved(c, d) == requests' = (requests \ {c}) \cup (IF d.step = "answered" /\ ~d.waiting THEN {} ELSE {d})
CallAnswered(c, a) == [c EXCEPT !.step = "answered", !.answer = a]
StoredVersions(d) == past.versions \cup {d[i] : i \in DOMAIN d}
HandleGet(c) ==
    /\ c.op \in {"list", "asset"}
    /\ CallMoved(c, CallAnswered(c, Respond(200, IF c.op = "list" THEN findSorted(db) ELSE <<>>)))
    /\ UNCHANGED <<db, now, past>>
\* the time and the id are taken before the insert is awaited
HandleCreate(c) ==
    LET input == parseCreateInput(c.body) IN
    /\ c.op = "create"
    /\ \/ /\ c.step = "sent" /\ input = NoInput
          /\ CallMoved(c, CallAnswered(c, Respond(400, <<>>))) /\ UNCHANGED <<db, now, past>>
       \/ /\ c.step = "sent" /\ input # NoInput
          /\ now' = now + 1 /\ CallMoved(c, [c EXCEPT !.step = "stamped", !.stamp = now]) /\ UNCHANGED <<db, past>>
       \/ /\ c.step = "stamped"
          /\ LET doc == todoDocument(c.stamp, input.title, c.stamp) IN
                /\ db' = insertOne(db, doc)
                /\ CallMoved(c, CallAnswered(c, Respond(201, <<doc>>)))
          /\ past' = [past EXCEPT !.versions = StoredVersions(db'), !.mine = IF c.who = "checker" THEN @ \cup {c.stamp} ELSE @]
          /\ UNCHANGED now
\* the answer of a PATCH is read after its update, in another operation
PatchAnswer(d, c) == foundTodo(d, c.id)
HandleUpdate(c) ==
    LET input == parseUpdateInput(c.body) IN
    /\ c.op = "update"
    /\ \/ /\ c.step = "sent"
          /\ IF input = NoInput THEN CallMoved(c, CallAnswered(c, Respond(400, <<>>))) /\ UNCHANGED now
             ELSE now' = now + 1 /\ CallMoved(c, [c EXCEPT !.step = "stamped", !.stamp = now])
          /\ UNCHANGED <<db, past>>
       \/ /\ c.step = "stamped"
          /\ db' = updateOne(db, c.id, input, c.stamp)
          /\ CallMoved(c, [c EXCEPT !.step = "written"])
          /\ past' = [past EXCEPT !.versions = StoredVersions(db')] /\ UNCHANGED now
       \/ /\ c.step = "written"
          /\ CallMoved(c, CallAnswered(c, PatchAnswer(db, c)))
          /\ UNCHANGED <<db, now, past>>
RemoveAnswer(d, c) == IF c.id \in DOMAIN d THEN Respond(204, <<>>) ELSE Respond(404, <<>>)
HandleRemove(c) ==
    /\ c.op = "remove"
    /\ db' = deleteOne(db, c.id)
    /\ CallMoved(c, CallAnswered(c, RemoveAnswer(db, c)))
    /\ past' = [past EXCEPT !.deletes = IF RemoveAnswer(db, c).status = 204 THEN @ \cup {<<c.id, c.n>>} ELSE @]
    /\ UNCHANGED now
HandleCall(c) ==
    /\ c.step # "answered"
    /\ HandleGet(c) \/ HandleCreate(c) \/ HandleUpdate(c) \/ HandleRemove(c)
    /\ UNCHANGED <<store, checker>>
\* the database refuses the operation that the handler awaits
HandlerThrows(c) ==
    /\ c.step # "answered" /\ c.op # "asset" /\ past.faults < past.mode.faults
    /\ CallMoved(c, CallAnswered(c, Failure))
    /\ past' = [past EXCEPT !.faults = @ + 1]
    /\ UNCHANGED <<db, store, checker, now>>

----------------
(* TodoStore.  request() throws for an answer that is not ok and when the   *)
(* request or its answer is lost.                                          *)

Ok(a) == a.status \in 200..299
TodoIndex(id) == SelectInSeq(store.todos, LAMBDA t: t.id = id)
\* a call that overlaps another one on the same todo, or the load
Mixes(r) == IF r.mixes \/ \E d \in OfStore({"update", "remove"}) : d.id = r.id THEN {r.id} ELSE {}
Sends(r, s) ==
    /\ store' = s
    /\ requests' = requests \cup {r}
    /\ past' = [past EXCEPT !.n = @ + 1, !.used = @ + 1, !.mixed = @ \cup Mixes(r), !.touched = IF r.op \in {"update", "remove"} THEN @ \cup {r.id} ELSE @]
    /\ UNCHANGED <<db, checker, now>>
LoadTodos ==
    /\ ~past.loaded /\ past.mode.calls > 0
    /\ store' = [store EXCEPT !.loading = TRUE, !.error = FALSE]
    /\ requests' = requests \cup {TodoRequest("store", "list", 0, NoField, NoField)}
    /\ past' = [past EXCEPT !.n = @ + 1, !.loaded = TRUE]
    /\ UNCHANGED <<db, checker, now>>
MayUse == past.loaded /\ past.used < past.mode.calls
CreateTodo ==
    /\ MayUse /\ TitleLength(TitleTrim(store.draft)) > 0 /\ ~store.saving
    /\ Sends(TodoRequest("store", "create", 0, TitleTrim(store.draft), NoField), [store EXCEPT !.saving = TRUE, !.error = FALSE])
SetDraft ==
    /\ MayUse /\ \E t \in {"long", "plain"} : t # store.draft /\ store' = [store EXCEPT !.draft = t]
    /\ past' = [past EXCEPT !.used = @ + 1]
    /\ UNCHANGED <<db, requests, checker, now>>
\* TodoRow.toggle(), TodoRow.remove()
Toggle(t) ==
    /\ MayUse
    /\ Sends(TodoRequest("store", "update", t.id, NoField, IF t.completed = "true" THEN "false" ELSE "true"), [store EXCEPT !.error = FALSE])
RemoveTodo(t) == MayUse /\ Sends(TodoRequest("store", "remove", t.id, NoField, NoField), [store EXCEPT !.error = FALSE])

TodoCreated(s, a) == [s EXCEPT !.todos = Append(@, a.todos[1]), !.draft = "blank"]
TodoUpdatedFault(s, c) == [s EXCEPT !.todos = SelectSeq(@, LAMBDA t: t.id # c.id) \o c.answer.todos]
TodoUpdated(s, c) == IF TodoIndex(c.id) = 0 THEN s ELSE [s EXCEPT !.todos[TodoIndex(c.id)] = c.answer.todos[1]]
AnswerApplied(s, c) ==
    CASE ~Ok(c.answer) -> [s EXCEPT !.error = TRUE]
      [] c.op = "list" -> [s EXCEPT !.todos = c.answer.todos]
      [] c.op = "create" -> TodoCreated(s, c.answer)
      [] c.op = "update" -> TodoUpdated(s, c)
      [] c.op = "remove" -> [s EXCEPT !.todos = SelectSeq(@, LAMBDA t: t.id # c.id)]
FlagsReleased(s, c) == [s EXCEPT !.loading = @ /\ c.op # "list", !.saving = @ /\ c.op # "create"]       \* finally
StoreAnswered(c) ==
    /\ c.who = "store" /\ c.waiting /\ c.step = "answered"
    /\ store' = FlagsReleased(AnswerApplied(store, c), c)
    /\ requests' = requests \ {c}
    /\ past' = [past EXCEPT !.gone = IF c.op = "remove" /\ Ok(c.answer) /\ OfStore({"list"}) = {} THEN @ \cup {c.id} ELSE @,
                            !.raced = IF c.op = "create" /\ Ok(c.answer) /\ c.mixes THEN @ \cup {c.answer.todos[1].id} ELSE @]
    /\ UNCHANGED <<db, checker, now>>

----------------
(* run(), the checker: one exchange after the other, then the clean-up.     *)

CheckPlan == <<"asset", "asset", "asset", "create", "list", "update", "list", "remove", "list">>
MayCheck == past.mode.checker /\ checker.verdict = "running" /\ {c \in requests : c.who = "checker" /\ c.waiting} = {}
CheckerRequest(op) ==
    IF op = "update" THEN TodoRequest("checker", op, checker.id, "new", "true")
    ELSE TodoRequest("checker", op, checker.id, "old", NoField)
CheckerSends ==
    /\ MayCheck /\ checker.step < Len(CheckPlan)
    /\ requests' = requests \cup {CheckerRequest(CheckPlan[checker.step + 1])}
    /\ checker' = [checker EXCEPT !.step = @ + 1]
    /\ past' = [past EXCEPT !.n = @ + 1]
    /\ UNCHANGED <<db, store, now>>
Mine(a) == SelectSeq(a.todos, LAMBDA t: t.id = checker.id)
SameTimes(t, u) == t.created = u.created /\ t.updated = u.updated
\* the assertions on the answer of the current step
Expected(a) ==
    LET k == checker.step
        seen == checker.seen IN
    CASE k \in 1..3 -> a.status = 200
      [] k = 4 -> a.status = 201 /\ a.todos[1].title = "old" /\ a.todos[1].completed = "false" /\ a.todos[1].created = a.todos[1].updated
      [] k = 5 -> a.status = 200 /\ Mine(a) # <<>> /\ Mine(a)[1].title = "old" /\ Mine(a)[1].completed = "false" /\ SameTimes(Mine(a)[1], seen[1])
      [] k = 6 -> /\ a.status = 200 /\ a.todos[1].title = "new" /\ a.todos[1].completed = "true"
                  /\ a.todos[1].created = seen[1].created /\ a.todos[1].updated >= seen[1].updated
      [] k = 7 -> a.status = 200 /\ Mine(a) # <<>> /\ Mine(a)[1].title = "new" /\ Mine(a)[1].completed = "true" /\ SameTimes(Mine(a)[1], seen[2])
      [] k = 8 -> a.status = 204
      [] k = 9 -> a.status = 200 /\ Mine(a) = <<>>
\* what the finally block leaves to do after step k failed
CheckFailed(k) == [k EXCEPT !.verdict = IF k.id # 0 /\ ~k.deleted THEN "cleaning" ELSE "error"]
CheckerAnswered(c) ==
    LET a == c.answer
        known == IF checker.step = 4 /\ a.status = 201 THEN [checker EXCEPT !.id = a.todos[1].id] ELSE checker IN
    /\ c.who = "checker" /\ c.waiting /\ c.step = "answered" /\ checker.verdict = "running"
    /\ requests' = requests \ {c}
    /\ checker' =
          IF ~Expected(a) THEN CheckFailed(known)
          ELSE [known EXCEPT !.seen = IF checker.step \in {4, 6} THEN Append(@, a.todos[1]) ELSE @,
                             !.deleted = @ \/ checker.step = 8,
                             !.verdict = IF checker.step = Len(CheckPlan) THEN "ok" ELSE @]
    /\ UNCHANGED <<db, store, now, past>>
\* the DELETE of the finally block: its failure is swallowed
CleanUp ==
    /\ checker.verdict = "cleaning" /\ {c \in requests : c.who = "checker" /\ c.waiting} = {}
    /\ requests' = requests \cup {CheckerRequest("remove")}
    /\ past' = [past EXCEPT !.n = @ + 1]
    /\ UNCHANGED <<db, store, checker, now>>
CleanedUp(c) ==
    /\ c.who = "checker" /\ c.waiting /\ c.step = "answered" /\ checker.verdict = "cleaning"
    /\ requests' = requests \ {c}
    /\ checker' = [checker EXCEPT !.verdict = "error"]
    /\ UNCHANGED <<db, store, now, past>>

\* The request never reaches the server, or its answer is lost; a handler that runs goes on.
LoseCall(c) ==
    /\ c.waiting /\ past.faults < past.mode.faults
    /\ past' = [past EXCEPT !.faults = @ + 1]
    /\ LET lost == CallAnswered(c, Failure) IN
       CASE c.who = "store" -> store' = FlagsReleased(AnswerApplied(store, lost), lost) /\ UNCHANGED checker
         [] checker.verdict = "cleaning" -> checker' = [checker EXCEPT !.verdict = "error"] /\ UNCHANGED store
         [] OTHER -> checker' = CheckFailed(checker) /\ UNCHANGED store
    /\ \/ requests' = requests \ {c}
       \/ c.step # "answered" /\ CallMoved(c, [c EXCEPT !.waiting = FALSE])
    /\ UNCHANGED <<db, now>>

TodoNext ==
    \/ LoadTodos \/ CreateTodo \/ SetDraft \/ CheckerSends \/ CleanUp
    \/ \E i \in DOMAIN store.todos : Toggle(store.todos[i]) \/ RemoveTodo(store.todos[i])
    \/ \E c \in requests : HandleCall(c) \/ HandlerThrows(c) \/ StoreAnswered(c) \/ CheckerAnswered(c) \/ CleanedUp(c) \/ LoseCall(c)

----------------
(* With nothing in flight and nothing lost, the list on the screen is the   *)
(* collection, except for todos whose calls overlapped each other or the   *)
(* first load (their answers may have been applied in the other order).    *)
QuietStoreMatches ==
    past.loaded /\ requests = {} /\ past.faults = 0 /\ ~past.mode.checker =>
        /\ \A i \in DOMAIN store.todos : LET t == store.todos[i] IN t.id \notin past.mixed \cup past.raced => t.id \in DOMAIN db /\ db[t.id] = t
        /\ \A id \in DOMAIN db \ (past.mixed \cup past.raced) : Cardinality({i \in DOMAIN store.todos : store.todos[i].id = id}) = 1

(* A todo whose removal succeeded never comes back to the screen, though   *)
(* the answer of an earlier toggle may arrive later; a todo created during *)
(* the first load is excepted, its own answer may come after its removal.  *)
RemovedStaysRemoved == \A i \in DOMAIN store.todos : store.todos[i].id \notin past.gone \ past.raced

(* Every todo on the screen is one the collection really held: a title, a   *)
(* state and a time of the same version.                                   *)
ShownWasStored == \A i \in DOMAIN store.todos : store.todos[i] \in past.versions

(* The flags that disable the form and show the spinner hold exactly while  *)
(* the request is awaited, whatever became of it.                          *)
BusyTruthful ==
    /\ store.saving = (OfStore({"create"}) # {})
    /\ store.loading = (OfStore({"list"}) # {})

(* Of all the DELETEs of one todo exactly one is told that it deleted it.   *)
DeletedOnce == \A d, e \in past.deletes : d[1] = e[1] => d = e

(* The checker reports success only of a server that did it all, and an     *)
(* error only after a fault or when the user worked on its todo.  Once     *)
(* nothing of it is in flight, the todo that its POST stored is left behind *)
(* only when the clean-up failed as well, or when the answer of the POST   *)
(* was the one that failed: createdId is then still null and the finally   *)
(* block has nothing to delete.                                            *)
CheckerSound ==
    LET disturbed == checker.id # 0 /\ checker.id \in past.touched
        settled == checker.verdict = "error" /\ {c \in requests : c.who = "checker"} = {} IN
    /\ checker.verdict = "ok" => checker.id \notin DOMAIN db /\ \E v \in past.versions : v.id = checker.id /\ v.title = "new"
    /\ checker.verdict \in {"cleaning", "error"} => past.faults > 0 \/ disturbed
    /\ settled /\ past.mine \cap DOMAIN db # {} =>
          \/ checker.id = 0 /\ CheckPlan[checker.step] = "create" /\ past.faults > 0
          \/ past.mine = {checker.id} /\ past.faults > (IF disturbed THEN 0 ELSE 1)

\* The store of the page against the database, over answers in any order, and the checker that looks at both.
TodoExact == QuietStoreMatches /\ RemovedStaysRemoved /\ ShownWasStored /\ BusyTruthful /\ DeletedOnce /\ CheckerSound
=============================================================================
