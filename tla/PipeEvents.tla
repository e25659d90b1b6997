------------------------------ MODULE PipeEvents ------------------------------
(***************************************************************************)
(* The typed 'pipe' and 'unpipe' listeners of stream.ts: kept apart from   *)
(* the generic table, in parallel arrays of listeners and once flags, and  *)
(* delivered from inside Readable.pipe() and the loop of                   *)
(* Readable.unpipe(), whose arrays a listener may change.  One source and  *)
(* the destinations Sinks; a registration or a pipe is known by its number.*)
(***************************************************************************)
EXTENDS Integers, Sequences, FiniteSets, SequencesExt

CONSTANTS Sinks, MaxPipeOps

VARIABLES
    typed,   \* per sink and event: [fns, once], the two arrays
    pipes,   \* the source: targets (with the number of the pipe) and the numbers whose 'data' listener is installed
    stack,   \* the calls in progress, innermost first
    heard,   \* notifications: per sink, how many of each event; the once registrations, those that ran and ran again; the pipes undone
             \* while pipe() told of them (stray), and those whose pipe() an exception ended (cut)
    used     \* numbers given out
pipeVars == <<typed, pipes, stack, heard, used>>

PipeNames == {"pipe", "unpipe"}
All == "all"

PipeInit ==
    /\ typed = [d \in Sinks |-> [e \in PipeNames |-> [fns |-> <<>>, once |-> <<>>]]]
    /\ pipes = [targets |-> <<>>, data |-> {}]
    /\ stack = <<>>
    /\ heard = [told |-> [d \in Sinks |-> [pipe |-> 0, unpipe |-> 0]], onces |-> {}, ran |-> {}, again |-> {}, left |-> {},
                stray |-> {}, cut |-> {}]
    /\ used = 0

\* on, addListener, once, prependListener, prependOnceListener
ListenerWays == {[once |-> o, prepend |-> p] : o \in BOOLEAN, p \in BOOLEAN}
addStreamListener(list, fn, way) ==
    IF way.prepend THEN [fns |-> <<fn>> \o list.fns, once |-> <<way.once>> \o list.once]
    ELSE [fns |-> Append(list.fns, fn), once |-> Append(list.once, way.once)]
AddTyped(d, e) ==
    /\ used' = used + 1
    /\ \E way \in ListenerWays :
          /\ typed' = [typed EXCEPT ![d][e] = addStreamListener(@, used', way)]
          /\ heard' = [heard EXCEPT !.onces = IF way.once THEN @ \cup {used'} ELSE @]
    /\ UNCHANGED <<pipes, stack>>
RemoveAllTyped(d, names) ==
    /\ typed' = [typed EXCEPT ![d] = [e \in PipeNames |-> IF e \in names THEN [fns |-> <<>>, once |-> <<>>] ELSE @[e]]]
    /\ UNCHANGED <<pipes, stack, heard, used>>

\* notifyPipeEvent(): the once entries leave, then the listeners of before are called.
AfterOnce(list) ==
    LET kept == SelectSeq([i \in DOMAIN list.fns |-> i], LAMBDA i: ~list.once[i]) IN
    [fns |-> [i \in DOMAIN kept |-> list.fns[kept[i]]], once |-> [i \in DOMAIN kept |-> FALSE]]
Notified(d, e, rest, stray) ==
    /\ typed' = [typed EXCEPT ![d][e] = AfterOnce(@)]
    /\ heard' = [heard EXCEPT !.told[d][e] = @ + 1, !.stray = @ \cup stray]
    /\ stack' = [i \in DOMAIN typed[d][e].fns |-> [op |-> "listener", fn |-> typed[d][e].fns[i]]] \o rest

PipeTo(d) ==
    /\ used' = used + 1
    /\ pipes' = [pipes EXCEPT !.targets = Append(@, [to |-> d, id |-> used'])]
    /\ Notified(d, "pipe", <<[op |-> "onData", id |-> used']>> \o stack, {})
PipeListens ==
    /\ stack # <<>> /\ Head(stack).op = "onData"
    /\ pipes' = [pipes EXCEPT !.data = @ \cup {Head(stack).id}]
    /\ stack' = Tail(stack)
    /\ UNCHANGED <<typed, heard, used>>

PipesTo(d) == {t.id : t \in {pipes.targets[i] : i \in {k \in DOMAIN pipes.targets : d = All \/ pipes.targets[k].to = d}}}
UnpipeFrom(d) ==
    /\ stack' = <<[op |-> "unpipe", index |-> Len(pipes.targets), to |-> d, had |-> PipesTo(d)]>> \o stack
    /\ UNCHANGED <<typed, pipes, heard, used>>
Removed(p, i) == [targets |-> RemoveAt(p.targets, i), data |-> p.data \ {p.targets[i].id}]
NextIndexFault(i) == i - 2
NextIndex(i) == i - 1
Telling == {stack[i].id : i \in {k \in DOMAIN stack : stack[k].op = "onData"}}
PastTheEnd(f) == f.index > Len(pipes.targets)
UnpipeStep ==
    /\ stack # <<>> /\ Head(stack).op = "unpipe" /\ Head(stack).index > 0 /\ (Head(stack).to = All => ~PastTheEnd(Head(stack)))
    /\ LET f == Head(stack)
           rest == <<[f EXCEPT !.index = NextIndex(f.index)]>> \o Tail(stack) IN
       IF f.to # All /\ (PastTheEnd(f) \/ pipes.targets[f.index].to # f.to)
       THEN stack' = rest /\ UNCHANGED <<typed, pipes, heard, used>>
       ELSE /\ pipes' = Removed(pipes, f.index)
            /\ Notified(pipes.targets[f.index].to, "unpipe", rest, {pipes.targets[f.index].id} \cap Telling)
            /\ UNCHANGED used
\* unpipe() without a destination after its listeners have unpiped: the target at its index is undefined, and the
\* exception goes through every call in progress.
UnpipeThrows ==
    /\ stack # <<>> /\ Head(stack).op = "unpipe" /\ Head(stack).index > 0 /\ Head(stack).to = All /\ PastTheEnd(Head(stack))
    /\ heard' = [heard EXCEPT !.cut = @ \cup Telling]
    /\ stack' = <<>>
    /\ UNCHANGED <<typed, pipes, used>>
Unpiped ==      \* the loop is over
    /\ stack # <<>> /\ Head(stack).op = "unpipe" /\ Head(stack).index <= 0
    /\ heard' = [heard EXCEPT !.left = @ \cup (Head(stack).had \cap PipesTo(Head(stack).to))]
    /\ stack' = Tail(stack)
    /\ UNCHANGED <<typed, pipes, used>>

PipeUser ==
    /\ IF stack = <<>> THEN TRUE ELSE Head(stack).op = "react"
    /\ \E d \in Sinks :
          \/ used < MaxPipeOps /\ (PipeTo(d) \/ \E e \in PipeNames : AddTyped(d, e))
          \/ pipes.targets # <<>> /\ (UnpipeFrom(d) \/ UnpipeFrom(All))
          \/ used < MaxPipeOps /\ \E names \in {{"pipe"}, {"unpipe"}, PipeNames} :
                (\E e \in names : typed[d][e].fns # <<>>) /\ RemoveAllTyped(d, names)
Listener ==
    /\ stack # <<>> /\ Head(stack).op = "listener"
    /\ heard' = [heard EXCEPT !.ran = @ \cup ({Head(stack).fn} \cap heard.onces), !.again = @ \cup ({Head(stack).fn} \cap heard.ran)]
    /\ stack' = <<[op |-> "react"]>> \o Tail(stack)
    /\ UNCHANGED <<typed, pipes, used>>
\* a listener returns, after it has called or not called something
ListenerReturned == stack # <<>> /\ Head(stack).op = "react" /\ stack' = Tail(stack) /\ UNCHANGED <<typed, pipes, heard, used>>

PipeNext == PipeListens \/ UnpipeStep \/ UnpipeThrows \/ Unpiped \/ Listener \/ ListenerReturned \/ PipeUser

----------------
\* A once registration runs at most once, also when a notification is made from inside its own listener: the flags
\* and the listeners stay the same length.
TypedOnceOnce ==
    /\ heard.again = {}
    /\ \A d \in Sinks, e \in PipeNames : Len(typed[d][e].fns) = Len(typed[d][e].once)
\* A sink that was told of n more pipes than unpipes is the target of n pipes, and every pipe in force, no other,
\* has its 'data' listener, but for two kinds: a pipe that a 'pipe' listener undid gets its 'data' listener all the
\* same and keeps it, and one does not get it if an exception of unpipe() came through its pipe().
PipesMatched ==
    /\ \A d \in Sinks : heard.told[d].pipe - heard.told[d].unpipe = Cardinality({i \in DOMAIN pipes.targets : pipes.targets[i].to = d})
    /\ stack = <<>> => pipes.data = ({pipes.targets[i].id : i \in DOMAIN pipes.targets} \cup heard.stray) \ heard.cut
\* An unpipe() that returns leaves none of the pipes that were there when it was called, whatever its listeners pipe
\* and unpipe.
UnpipeComplete == heard.left = {}

\* What pipe() and unpipe() tell their destinations: typed once listeners, every pipe matched, every unpipe complete.
PipeEventsExact == TypedOnceOnce /\ PipesMatched /\ UnpipeComplete
=============================================================================
