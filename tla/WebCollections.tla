--------------------------- MODULE WebCollections ---------------------------
(***************************************************************************)
(* Headers, URLSearchParams and FormData (src/runtime/node/globals.ts) and *)
(* walks over them that the program interleaves with changes.  The arrays  *)
(* of a collection live in a heap: delete() of Headers and FormData makes  *)
(* new ones, every other change happens in place, and a walk holds the     *)
(* arrays it began with or reads the current ones.                         *)
(***************************************************************************)
EXTENDS Integers, Sequences, FiniteSets, SequencesExt

CONSTANTS MaxChanges, MaxWalks

Collections == {"Headers", "URLSearchParams", "FormData"}
Keys == {"a", "A", "b"}

VARIABLES
    coll,       \* [kind, heap: the arrays, of [name, value, id]; current: the index of the collection's own]
    cursor,     \* a walk: [on, array (0: the current one), at, seen, due: present since it began, shrunk]
    given       \* history: changes, walks, multi: the values per name, incomplete, twice

collVars == <<coll, cursor, given>>

Key(kind, n) == IF kind = "Headers" /\ n = "A" THEN "a" ELSE n
Own == coll.heap[coll.current]
With(n) == {i \in DOMAIN Own : Own[i].name = Key(coll.kind, n)}
Ids(list) == {list[i].id : i \in DOMAIN list}

get(n) == IF With(n) = {} THEN 0 ELSE Own[CHOOSE i \in With(n) : \A k \in With(n) : i <= k].value
getAll(n) == LET has == SelectSeq(Own, LAMBDA e: e.name = Key(coll.kind, n)) IN [i \in DOMAIN has |-> has[i].value]
has(n) == With(n) # {}

\* A change made in the current arrays, or in new ones.
InPlace(list) == coll' = [coll EXCEPT !.heap[coll.current] = list]
Replaced(list) == coll' = [coll EXCEPT !.heap = Append(@, list), !.current = Len(coll.heap) + 1]
Changed(values, list) ==
    /\ given.changes < MaxChanges
    /\ given' = [given EXCEPT !.changes = @ + 1, !.multi = values]
    /\ cursor' = [cursor EXCEPT !.due = @ \cap Ids(list), !.shrunk = @ \/ ~(Ids(Own) \subseteq Ids(list))]
Stamp == given.changes + 1
Pushed(n) == Append(Own, [name |-> Key(coll.kind, n), value |-> Stamp, id |-> Stamp])
SetList(n) ==
    LET first == CHOOSE i \in With(n) : \A k \in With(n) : i <= k
        updated == [Own EXCEPT ![first].value = Stamp] IN
    IF With(n) = {} THEN Pushed(n)
    ELSE [i \in 1..(Len(Own) - Cardinality(With(n)) + 1) |->
            updated[CHOOSE k \in (DOMAIN Own \ With(n)) \cup {first} :
                      Cardinality({x \in (DOMAIN Own \ With(n)) \cup {first} : x <= k}) = i]]
SetEntry(n) ==
    /\ InPlace(SetList(n))
    /\ Changed([given.multi EXCEPT ![Key(coll.kind, n)] = <<Stamp>>], SetList(n))
AppendEntry(n) ==         \* Headers.append() is set()
    IF coll.kind = "Headers" THEN SetEntry(n)
    ELSE InPlace(Pushed(n)) /\ Changed([given.multi EXCEPT ![n] = Append(@, Stamp)], Pushed(n))
ReplacesFault(kind) == FALSE
Replaces(kind) == kind # "URLSearchParams"
DeleteEntry(n) ==
    LET list == SelectSeq(Own, LAMBDA e: e.name # Key(coll.kind, n)) IN
    /\ IF Replaces(coll.kind) THEN Replaced(list) ELSE InPlace(list)
    /\ Changed([given.multi EXCEPT ![Key(coll.kind, n)] = <<>>], list)

\* The two ways to walk: entries() (and keys(), values(), the iterator), and forEach().
Begin(how) ==
    /\ ~cursor.on /\ given.walks < MaxWalks
    /\ LET copies == coll.kind = "FormData" /\ how = "entries"
           follows == coll.kind = "URLSearchParams" \/ (coll.kind = "FormData" /\ how = "forEach") IN
       /\ coll' = IF copies THEN [coll EXCEPT !.heap = Append(@, Own)] ELSE coll
       /\ cursor' = [on |-> TRUE, at |-> 0, seen |-> <<>>, due |-> Ids(Own), shrunk |-> FALSE, live |-> follows,
                     array |-> IF copies THEN Len(coll.heap) + 1 ELSE IF follows THEN 0 ELSE coll.current]
    /\ given' = [given EXCEPT !.walks = @ + 1]
Walked == IF cursor.array = 0 THEN Own ELSE coll.heap[cursor.array]
Visit ==
    /\ cursor.on /\ cursor.at < Len(Walked)
    /\ cursor' = [cursor EXCEPT !.at = @ + 1, !.seen = Append(@, Walked[cursor.at + 1].id)]
    /\ UNCHANGED <<coll, given>>
End ==
    /\ cursor.on /\ cursor.at >= Len(Walked)
    /\ cursor' = [cursor EXCEPT !.on = FALSE, !.due = {}, !.seen = <<>>, !.at = 0]
    /\ given' = [given EXCEPT !.incomplete = @ \/ (~(cursor.due \subseteq ToSet(cursor.seen)) /\ ~(cursor.live /\ cursor.shrunk)),
                              !.twice = @ \/ Cardinality(ToSet(cursor.seen)) # Len(cursor.seen)]
    /\ UNCHANGED coll

CollInit ==
    /\ \E k \in Collections : coll = [kind |-> k, heap |-> <<<<>>>>, current |-> 1]
    /\ cursor = [on |-> FALSE, array |-> 0, at |-> 0, seen |-> <<>>, due |-> {}, shrunk |-> FALSE, live |-> FALSE]
    /\ given = [changes |-> 0, walks |-> 0, multi |-> [n \in Keys |-> <<>>], incomplete |-> FALSE, twice |-> FALSE]
CollNext ==
    \/ \E n \in Keys : AppendEntry(n)
    \/ \E n \in Keys : SetEntry(n)
    \/ \E n \in Keys : DeleteEntry(n)
    \/ \E how \in {"entries", "forEach"} : Begin(how)
    \/ Visit
    \/ End

\* A walk over Headers or over FormData's entries() visits every entry that is there from its beginning to its end,
\* once, whatever the program sets, appends or deletes between two steps; a live walk (URLSearchParams, and
\* FormData.forEach()) does so as long as nothing is removed.
WalkComplete == ~given.incomplete /\ ~given.twice

\* After any sequence of append(), set() and delete() the values of a name are those the calls gave it, in their
\* order, with one value per name in Headers, and no name's entries disturb another's.
CollectionIsMultimap ==
    \A n \in Keys : LET values == given.multi[Key(coll.kind, n)] IN
        /\ getAll(n) = values /\ has(n) = (values # <<>>)
        /\ get(n) = IF values = <<>> THEN 0 ELSE Head(values)

\* The collections of globals.ts are multimaps, and a walk that the program disturbs still sees what it must.
CollectionsExact == WalkComplete /\ CollectionIsMultimap
=============================================================================
