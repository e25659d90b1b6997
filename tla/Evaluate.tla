------------------------------ MODULE Evaluate ------------------------------
(***************************************************************************)
(* The pure functions of the runtime, evaluated on chosen inputs: one      *)
(* behaviour per input, whose properties compare the functions with        *)
(* reference definitions and with each other.  A string is a sequence of   *)
(* characters (or of longer tokens that the code never splits).            *)
(***************************************************************************)
EXTENDS Integers, Sequences, FiniteSets, SequencesExt, FiniteSetsExt, TLC

CONSTANT Inputs      \* a sequence of sets of records [kind |-> ..., ...]

VARIABLES in, done
evaluateVars == <<in, done>>

EvaluateInit == (\E k \in DOMAIN Inputs : in \in Inputs[k]) /\ done = FALSE
Evaluated == ~done /\ done' = TRUE /\ UNCHANGED in

\* what a property speaks of: the inputs of one kind, evaluated
Given(kind) == done /\ in.kind = kind

Cut(p, n) == SubSeq(p, n + 1, Len(p))              \* p.slice(n)
At(p, i) == IF i \in DOMAIN p THEN p[i] ELSE "none"
Indices(p, Ok(_)) == {i \in DOMAIN p : Ok(p[i])}
Last_(S) == IF S = {} THEN 0 ELSE Max(S)
First_(S, n) == IF S = {} THEN n ELSE Min(S)
ToBackslash(p) == [i \in DOMAIN p |-> IF p[i] = "/" THEN "\\" ELSE p[i]]
Lower1(c) == IF c = "C" THEN <<"c">> ELSE IF c = "HOST" THEN <<"host">> ELSE IF c = "I2" THEN <<"i", "i">> ELSE <<c>>
Lower(p) == FlattenSeq([i \in DOMAIN p |-> Lower1(p[i])])
SplitBy(p, IsIt(_)) ==
    FoldLeft(LAMBDA acc, c: IF IsIt(c) THEN Append(acc, <<>>)
                            ELSE [acc EXCEPT ![Len(acc)] = Append(@, c)], <<<<>>>>, p)
JoinWith(segs, s) ==
    FoldLeft(LAMBDA acc, x: IF acc.first THEN [first |-> FALSE, p |-> x] ELSE [acc EXCEPT !.p = @ \o <<s>> \o x],
             [first |-> TRUE, p |-> <<>>], segs).p

=============================================================================
