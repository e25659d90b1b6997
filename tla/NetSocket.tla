------------------------------ MODULE NetSocket ------------------------------
(***************************************************************************)
(* One node:net Socket (runtime/node/net.ts) over the native connections   *)
(* of runtime/gea_node.cpp: lookup, the racing connection attempts of      *)
(* happy eyeballs, reading, writing, half-close, pause and destroy.        *)
(*                                                                         *)
(* Both layers run on the loop thread.  Native code queues event codes and *)
(* calls `notify'; TypeScript drains them and calls the program's          *)
(* listeners, which may call back into the socket at every emit.  A state  *)
(* is the stack of what is left to do when the listener returns.           *)
(***************************************************************************)
EXTENDS Integers, Sequences

CONSTANTS
    NTargets,    \* most addresses a lookup answers
    MaxEpochs,   \* connect() calls
    MaxChunks,   \* chunks the peers send
    MaxCalls,    \* calls and turns of the program
    Env          \* what happens in this instance, see AllEnv

(***************************************************************************)
(*   "literal"    connect() to an address: no lookup                       *)
(*   "one"        connect() that looks up one address, not all             *)
(*   "pause"      pause() and resume()    "soon"  destroySoon()            *)
(*   "error"      destroy(error), failing lookups, creates, reads, writes  *)
(*   "reconnect"  connect() again in the callback that saw 'close'         *)
(***************************************************************************)
AllEnv == {"literal", "one", "pause", "soon", "error", "reconnect"}

ASSUME BoundsAssumption ==
    /\ NTargets \in Nat \ {0} /\ MaxEpochs \in Nat
    /\ MaxChunks \in Nat /\ MaxCalls \in Nat
ASSUME EnvAssumption == Env \subseteq AllEnv

\* The k-th attempt and the native connection it creates have one name.
Id == 1 .. MaxEpochs * NTargets
NoId == 0

Code == {"connect", "data", "error", "close", "drain", "finish", "end"}
Fin == 0    \* the peer's end of stream, among the chunks 1 .. MaxChunks

VARIABLES
    sock,     \* the Socket's fields
    settled,  \* the attempts with settled = true
    nat,      \* ClientConnection, by id
    lookups,  \* the lookups under way
    jobs,     \* the socket's microtasks
    stack,    \* what is left to do, top first, see Frame
    served,   \* watchers dispatched since the microtasks were last drained
    made,     \* how many attempts, epochs, chunks, writes and calls there were
    seen,     \* history: how often each event was emitted since connect()
    wrote,    \* history: the writes accepted since connect()
    got       \* history: the chunks emitted

vars == <<sock, settled, nat, lookups, jobs, stack, served, made, seen, wrote, got>>

Other == 0  \* in `served': any other watcher of the process

Socket ==
    [native : Id \cup {NoId}, connecting : BOOLEAN, destroyed : BOOLEAN,
     closeEmitted : BOOLEAN, paused : BOOLEAN, held : Seq(Nat),
     ready : {"opening", "open", "readOnly", "writeOnly", "closed"},
     destroyAfterFinish : BOOLEAN, gen : Nat, attempts : SUBSET Id, targets : Nat,
     next : Nat, multiple : BOOLEAN, timer : Id \cup {NoId}, writes : Seq(Nat),
     end : BOOLEAN]

(***************************************************************************)
(* life: the loop polls an open connection; loop_.close() closed it, which *)
(* also stands for purged: nothing the socket does tells the two apart.    *)
(* socket: notify runs dispatchNativeEvents, not dispatchAttempt.          *)
(* rx and sent are the kernel's: what the peer sent, what it was sent.     *)
(***************************************************************************)
ClientConnection ==
    [life : {"none", "open", "closed"}, connecting : BOOLEAN, closing : BOOLEAN,
     paused : BOOLEAN, endRequested : BOOLEAN, finished : BOOLEAN, peerEnded : BOOLEAN,
     socket : BOOLEAN, events : Seq(Code), chunks : Seq(Nat), out : Seq(Nat),
     sent : Seq(Nat), rx : Seq(Nat)]

NoConnection ==
    [life |-> "none", connecting |-> FALSE, closing |-> FALSE, paused |-> FALSE,
     endRequested |-> FALSE, finished |-> FALSE, peerEnded |-> FALSE, socket |-> FALSE,
     events |-> <<>>, chunks |-> <<>>, out |-> <<>>, sent |-> <<>>, rx |-> <<>>]

(***************************************************************************)
(* call: the program runs.  The others are continuations, named after the  *)
(* emit or the call they follow: looked (n addresses), lookedOne,          *)
(* lookFailed, attempting, timedOut, failed (attempt n), destroying, won,  *)
(* finished, ended; dispatch and attempt: the two event loops; ready: the  *)
(* rest of connection n's onReady; resume: the loop of resume().           *)
(***************************************************************************)
Frame == [fn : {"call", "looked", "lookedOne", "lookFailed", "attempting", "timedOut",
                "failed", "destroying", "won", "finished", "ended", "dispatch", "attempt",
                "ready", "resume"},
          gen : Nat, n : Nat]

F(fn, n) == [fn |-> fn, gen |-> sock.gen, n |-> n]
Call == [fn |-> "call", gen |-> 0, n |-> 0]

Job == [kind : {"begin", "lookFailed", "createFailed", "dispatch", "close",
                "finish"},
        gen : Nat, n : Nat]

J(kind, n) == [kind |-> kind, gen |-> sock.gen, n |-> n]

TypeOK ==
    /\ sock \in Socket
    /\ settled \subseteq Id
    /\ nat \in [Id -> ClientConnection]
    /\ lookups \subseteq [gen : Nat, all : BOOLEAN]
    /\ jobs \in Seq(Job)
    /\ stack \in Seq(Frame)
    /\ served \subseteq Id \cup {Other}
    /\ made \in [attempt : Id \cup {0}, epoch : 0 .. MaxEpochs, chunk : 0 .. MaxChunks,
                 write : 0 .. MaxCalls, call : 0 .. MaxCalls]
    /\ seen \in [{"connect", "end", "error", "close"} -> Nat]
    /\ wrote \in Seq(Nat) /\ got \in Seq(Nat)

NoneSeen == [e \in {"connect", "end", "error", "close"} |-> 0]

Init ==
    /\ sock = [native |-> NoId, connecting |-> FALSE, destroyed |-> FALSE,
               closeEmitted |-> FALSE, paused |-> FALSE, held |-> <<>>, ready |-> "opening",
               destroyAfterFinish |-> FALSE, gen |-> 0, attempts |-> {}, targets |-> 0,
               next |-> 0, multiple |-> FALSE, timer |-> NoId, writes |-> <<>>,
               end |-> FALSE]
    /\ settled = {}
    /\ nat = [k \in Id |-> NoConnection]
    /\ lookups = {} /\ jobs = <<>> /\ stack = <<>> /\ served = {}
    /\ made = [attempt |-> 0, epoch |-> 0, chunk |-> 0, write |-> 0, call |-> 0]
    /\ seen = NoneSeen /\ wrote = <<>> /\ got = <<>>

----------------
(***************************************************************************)
(* ClientConnection (native): each operator maps a connection to itself    *)
(* after the method, or to the set of what the kernel may make of it.      *)
(***************************************************************************)

Fail(c) ==
    IF c.closing THEN c
    ELSE [c EXCEPT !.events = @ \o <<"error", "close">>, !.closing = TRUE]

Failures(c) == IF "error" \in Env THEN {Fail(c)} ELSE {}

FinishWriteSideIfReady(c) ==
    IF c.connecting \/ ~c.endRequested \/ c.finished \/ c.out # <<>> THEN c
    ELSE [c EXCEPT !.finished = TRUE,
                   !.events = @ \o (IF c.peerEnded THEN <<"finish", "close">> ELSE <<"finish">>),
                   !.closing = c.peerEnded]

\* The kernel takes the first k pieces of the buffer.
FlushK(c, k) ==
    LET taken == [c EXCEPT !.sent = @ \o SubSeq(c.out, 1, k),
                           !.out = SubSeq(@, k + 1, Len(@))]
    IN  IF k < Len(c.out) THEN taken
        ELSE FinishWriteSideIfReady(
               IF c.out = <<>> THEN taken ELSE [taken EXCEPT !.events = Append(@, "drain")])

FlushWrites(c) ==
    {FlushK(c, k) : k \in 0 .. Len(c.out)} \cup (IF c.out = <<>> THEN {} ELSE Failures(c))

CloseFromPeer(c) ==
    IF c.closing \/ c.peerEnded THEN c
    ELSE [c EXCEPT !.peerEnded = TRUE,
                   !.events = @ \o (IF c.finished THEN <<"end", "close">> ELSE <<"end">>),
                   !.closing = c.finished]

\* The first k items of the receive queue, the last of them possibly Fin.
ReadK(c, k) ==
    LET ended == k > 0 /\ c.rx[k] = Fin
        data == SubSeq(c.rx, 1, IF ended THEN k - 1 ELSE k)
        read == [c EXCEPT !.rx = SubSeq(@, k + 1, Len(@)), !.chunks = @ \o data,
                          !.events = @ \o [j \in 1 .. Len(data) |-> "data"]]
    IN  IF ended THEN CloseFromPeer(read) ELSE read

Readable(c) == c.rx # <<>> /\ ~c.paused /\ ~c.peerEnded

\* poll reports a hangup once both directions are shut down.
HangUp(c) == c.finished /\ \E i \in DOMAIN c.rx : c.rx[i] = Fin

\* A read stops short, at Fin or at an error.  On a hangup the whole stream is in
\* the receive queue, and only its end stops a read.
ReadAvailable(c, hup) ==
    LET least == IF hup THEN Len(c.rx) - 1 ELSE 1
        reads == {ReadK(c, k) : k \in least .. Len(c.rx)}
    IN  reads \cup UNION {Failures(r) : r \in {c} \cup {r \in reads : ~r.peerEnded}}

CompleteConnect(c) ==
    LET done == [c EXCEPT !.connecting = FALSE]
    IN  {FinishWriteSideIfReady([done EXCEPT !.events = Append(@, "connect")]), Fail(done)}

\* The part of onReady before deliverPending, for the revents poll can report:
\* the error of the socket (POLLERR) comes before a hangup.
Polled(c) ==
    LET written == {c} \cup (IF c.out = <<>> THEN {}
                             ELSE {FlushK(c, k) : k \in 1 .. Len(c.out)} \cup Failures(c))
        Read(d) ==
            IF d.closing \/ ~Readable(c) THEN {d}
            ELSE ReadAvailable(d, HangUp(c)) \cup (IF HangUp(c) THEN {} ELSE {d})
        HungUp(d) == {IF HangUp(c) THEN CloseFromPeer(d) ELSE d} \cup Failures(d)
    IN  IF c.connecting THEN CompleteConnect(c)
        ELSE UNION {HungUp(d) : d \in UNION {Read(w) : w \in written}} \ {c}

NetEnd(c) ==
    IF c.closing \/ c.endRequested THEN c
    ELSE FinishWriteSideIfReady([c EXCEPT !.endRequested = TRUE])

NetWrite(c, w) == FlushWrites([c EXCEPT !.out = Append(@, w)])

LoopClose(c) == [c EXCEPT !.life = "closed"]

NetDestroy(c) ==
    IF c.life # "open" \/ c.closing THEN c ELSE LoopClose([c EXCEPT !.closing = TRUE])

NetDestroyAll(N, K) == [k \in Id |-> IF k \in K THEN NetDestroy(N[k]) ELSE N[k]]

\* Only the socket's own handle, never an attempt, is written to or ended.
NotifySoon(c, n) ==
    IF c.events = <<>> THEN <<>> ELSE <<J("dispatch", n)>>

----------------
(***************************************************************************)
(* Pieces of the TypeScript methods.  `rest' is the stack below.           *)
(***************************************************************************)

Top == stack[1]
Rest == Tail(stack)
Running(fn) == stack # <<>> /\ Top.fn = fn

\* generation !== this.connectGeneration_ || !this.connecting
Retired(gen) == gen # sock.gen \/ ~sock.connecting

\* A listener of an event that no property counts.
Tell(rest) == stack' = <<Call>> \o rest /\ UNCHANGED <<seen, got>>

Emit(e, rest) ==
    /\ seen' = [seen EXCEPT ![e] = @ + 1]
    /\ stack' = <<Call>> \o rest
    /\ UNCHANGED got

DeliverChunk(x, rest) ==
    /\ got' = Append(got, x)
    /\ stack' = <<Call>> \o rest
    /\ UNCHANGED seen

Continue(rest) == stack' = rest /\ UNCHANGED <<seen, got>>

\* Fault: closeEmitted_ is not looked at.
EmitCloseAgain(s, rest) == sock' = [s EXCEPT !.closeEmitted = TRUE] /\ Emit("close", rest)

\* emitClose() of socket fields s.
EmitClose(s, rest) ==
    /\ sock' = [s EXCEPT !.closeEmitted = TRUE]
    /\ IF s.closeEmitted THEN Continue(rest) ELSE Emit("close", rest)

AbandonAttempts(s) ==
    [s EXCEPT !.gen = @ + 1, !.timer = NoId, !.attempts = {}, !.writes = <<>>, !.end = FALSE]

\* destroy() after the 'error' listeners.
DestroyRest(N, n, queue) ==
    nat' = NetDestroyAll(N, {n}) /\ jobs' = Append(queue, J("close", 0))

\* destroy(error?) of a socket not yet destroyed; `queue' is the microtasks before it.
Destroying(error, queue, rest) ==
    LET abandoned == NetDestroyAll(nat, sock.attempts \ settled)
    IN  /\ sock' = AbandonAttempts([sock EXCEPT !.destroyed = TRUE, !.connecting = FALSE,
                                                !.ready = "closed"])
        /\ settled' = settled \cup sock.attempts
        /\ IF error THEN /\ Emit("error", <<F("destroying", 0)>> \o rest)
                         /\ nat' = abandoned /\ jobs' = queue
           ELSE Continue(rest) /\ DestroyRest(abandoned, sock.native, queue)

\* startNextAttempt() of socket fields s, up to the 'connectionAttempt' listeners.
StartNextAttempt(s, rest) ==
    LET k == made.attempt + 1
    IN  /\ sock' = [s EXCEPT !.timer = NoId, !.next = @ + 1, !.attempts = @ \cup {k}]
        /\ made' = [made EXCEPT !.attempt = k]
        /\ Tell(<<F("attempting", k)>> \o rest)

BeginAttempts(targets, rest) ==
    StartNextAttempt([sock EXCEPT !.targets = targets, !.next = 0, !.multiple = targets > 1],
                     rest)

FailAttempt(k, rest) ==
    /\ settled' = settled \cup {k}
    /\ Tell(<<F("failed", k)>> \o rest)

\* end() without data, of socket fields s.
EndSocket(s) ==
    CASE s.native = NoId /\ s.connecting /\ ~s.destroyed ->
           sock' = [s EXCEPT !.end = TRUE] /\ UNCHANGED <<nat, jobs>>
      [] (s.native = NoId /\ ~s.connecting) \/ s.destroyed ->
           sock' = s /\ jobs' = Append(jobs, J("finish", 0)) /\ UNCHANGED nat
      [] OTHER ->
           LET ended == NetEnd(nat[s.native])
           IN  /\ sock' = [s EXCEPT !.ready = "readOnly"]
               /\ nat' = [nat EXCEPT ![s.native] = ended]
               /\ jobs' = IF ended = nat[s.native] THEN jobs
                          ELSE jobs \o NotifySoon(ended, s.native)

----------------
(***************************************************************************)
(* The program: a turn of its own, or a listener on top of the stack.      *)
(***************************************************************************)

\* A dispatch of watcher w is next: the microtasks are drained, or it belongs to
\* the batch that queued them.
MayServe(w) == stack = <<>> /\ (jobs = <<>> \/ (served # {} /\ w \notin served))
Serve(w) == served' = IF jobs = <<>> THEN {w} ELSE served \cup {w}

CountCall == made.call < MaxCalls /\ made' = [made EXCEPT !.call = @ + 1]
InCall == Running("call") /\ CountCall

Turn ==
    /\ stack = <<>> /\ CountCall
    /\ stack' = <<Call>>
    /\ IF MayServe(Other) THEN Serve(Other) ELSE UNCHANGED served
    /\ UNCHANGED <<sock, settled, nat, lookups, jobs, seen, wrote, got>>

Return ==
    /\ Running("call")
    /\ stack' = Rest
    /\ UNCHANGED <<sock, settled, nat, lookups, jobs, served, made, seen, wrote, got>>

ConnectKind == {"all"} \cup (Env \cap {"literal", "one"})

\* When this instance's program connects again: once 'close' was emitted.
MayReconnect ==
    /\ sock.closeEmitted
    /\ "reconnect" \in Env \/ \A i \in DOMAIN jobs : jobs[i].kind # "close"

Connect(kind) ==
    /\ Running("call") /\ made.call < MaxCalls /\ made.epoch < MaxEpochs
    /\ ~sock.connecting /\ (sock.native = NoId \/ sock.destroyed)
    /\ sock.destroyed => MayReconnect
    /\ sock' = [sock EXCEPT !.gen = @ + 1, !.destroyed = FALSE, !.closeEmitted = FALSE,
                            !.connecting = TRUE, !.ready = "opening", !.native = NoId,
                            !.attempts = {}, !.targets = 0, !.next = 0, !.multiple = FALSE,
                            !.writes = <<>>, !.end = FALSE]
    /\ made' = [made EXCEPT !.call = @ + 1, !.epoch = @ + 1]
    /\ seen' = NoneSeen /\ wrote' = <<>>
    /\ IF kind = "literal"
       THEN /\ jobs' = Append(jobs, [J("begin", 1) EXCEPT !.gen = @ + 1])
            /\ UNCHANGED lookups
       ELSE /\ lookups' = lookups \cup {[gen |-> sock.gen + 1, all |-> kind = "all"]}
            /\ UNCHANGED jobs
    /\ UNCHANGED <<settled, nat, stack, served, got>>

Write ==
    /\ Running("call") /\ made.call < MaxCalls
    /\ ~sock.destroyed /\ (sock.native # NoId \/ sock.connecting)
    /\ LET w == made.write + 1
           n == sock.native
       IN  /\ made' = [made EXCEPT !.call = @ + 1, !.write = w]
           /\ wrote' = Append(wrote, w)
           /\ IF n = NoId
              THEN sock' = [sock EXCEPT !.writes = Append(@, w)] /\ UNCHANGED <<nat, jobs>>
              ELSE /\ ~nat[n].closing /\ ~nat[n].endRequested
                   /\ \E c \in NetWrite(nat[n], w) :
                        /\ nat' = [nat EXCEPT ![n] = IF c.closing THEN LoopClose(c) ELSE c]
                        /\ jobs' = jobs \o NotifySoon(c, n)
                   /\ UNCHANGED sock
    /\ UNCHANGED <<settled, lookups, stack, served, seen, got>>

End ==
    /\ InCall
    /\ EndSocket(sock)
    /\ UNCHANGED <<settled, lookups, stack, served, seen, wrote, got>>

DestroySoon ==
    /\ "soon" \in Env
    /\ InCall /\ ~sock.destroyed
    /\ EndSocket([sock EXCEPT !.destroyAfterFinish = TRUE])
    /\ UNCHANGED <<settled, lookups, stack, served, seen, wrote, got>>

Destroy(error) ==
    /\ InCall /\ ~sock.destroyed
    /\ error => "error" \in Env
    /\ Destroying(error, jobs, stack)
    /\ UNCHANGED <<lookups, served, wrote>>

SetPaused(paused) ==
    /\ sock' = [sock EXCEPT !.paused = paused]
    /\ nat' = IF sock.native = NoId THEN nat
              ELSE [nat EXCEPT ![sock.native].paused = paused]
    /\ UNCHANGED <<settled, lookups, jobs, served, seen, wrote, got>>

Pause == "pause" \in Env /\ InCall /\ SetPaused(TRUE) /\ UNCHANGED stack

Resume ==
    /\ "pause" \in Env /\ InCall
    /\ SetPaused(FALSE)
    /\ stack' = <<F("resume", 0)>> \o stack

\* The loop of resume().
ResumeNext ==
    /\ Running("resume")
    /\ IF sock.paused \/ sock.held = <<>> THEN Continue(Rest) /\ UNCHANGED sock
       ELSE /\ sock' = [sock EXCEPT !.held = Tail(@)]
            /\ DeliverChunk(Head(sock.held), stack)
    /\ UNCHANGED <<settled, nat, lookups, jobs, served, made, wrote>>

Program ==
    \/ Turn \/ \E kind \in ConnectKind : Connect(kind)
    \/ Write \/ End \/ DestroySoon \/ Pause \/ Resume
    \/ \E error \in BOOLEAN : Destroy(error)

----------------
(***************************************************************************)
(* Connecting: lookup answers, attempts, their timer, winner and losers.   *)
(***************************************************************************)

\* onLookupAll / onLookupOne; several 'lookup' events are one call.
LookupDone(l, fails) ==
    /\ MayServe(Other) /\ Serve(Other)
    /\ fails => "error" \in Env
    /\ lookups' = lookups \ {l}
    /\ IF l.gen # sock.gen \/ (l.all /\ ~sock.connecting)
       THEN Continue(<<>>) /\ UNCHANGED <<sock, settled, nat, jobs>>
       ELSE IF l.all /\ fails THEN Destroying(TRUE, jobs, <<>>)
       ELSE /\ \E t \in IF l.all THEN 1 .. NTargets ELSE {1} :
                 Tell(<<F(IF l.all THEN "looked" ELSE IF fails THEN "lookFailed"
                          ELSE "lookedOne", t)>>)
            /\ UNCHANGED <<sock, settled, nat, jobs>>
    /\ UNCHANGED <<made, wrote>>

Looked ==
    /\ Running("looked") \/ Running("lookedOne") \/ Running("lookFailed")
    /\ IF Retired(Top.gen) THEN Continue(Rest) /\ UNCHANGED <<sock, jobs, made>>
       ELSE IF Top.fn = "lookedOne" \/ Top.n > 1
            THEN BeginAttempts(Top.n, Rest) /\ UNCHANGED jobs
       ELSE /\ jobs' = Append(jobs, J(IF Top.fn = "looked" THEN "begin" ELSE "lookFailed", 1))
            /\ Continue(Rest) /\ UNCHANGED <<sock, made>>
    /\ UNCHANGED <<settled, nat, lookups, served, wrote>>

\* startNextAttempt() after the listeners: net_create and the attempt timer.
Attempting ==
    /\ Running("attempting")
    /\ Continue(Rest)
    /\ \/ /\ Retired(Top.gen)
          /\ UNCHANGED <<sock, nat, jobs>>
       \/ /\ ~Retired(Top.gen)
          /\ nat' = [nat EXCEPT ![Top.n] = [@ EXCEPT !.life = "open", !.connecting = TRUE]]
          /\ sock' = [sock EXCEPT !.timer = IF sock.multiple /\ sock.next < sock.targets
                                            THEN Top.n ELSE @]
          /\ UNCHANGED jobs
       \/ /\ ~Retired(Top.gen) /\ "error" \in Env
          /\ jobs' = Append(jobs, J("createFailed", Top.n))
          /\ UNCHANGED <<sock, nat>>
    /\ UNCHANGED <<settled, lookups, served, made, wrote>>

AttemptTimer ==
    /\ stack = <<>> /\ jobs = <<>> /\ sock.timer # NoId
    /\ sock' = [sock EXCEPT !.timer = NoId]
    /\ IF ~sock.connecting \/ sock.timer \in settled THEN Continue(<<>>)
       ELSE Tell(<<F("timedOut", sock.timer)>>)
    /\ UNCHANGED <<settled, nat, lookups, jobs, served, made, wrote>>

TimedOut ==
    /\ Running("timedOut")
    /\ IF ~Retired(Top.gen) /\ sock.next < sock.targets THEN StartNextAttempt(sock, Rest)
       ELSE Continue(Rest) /\ UNCHANGED <<sock, made>>
    /\ UNCHANGED <<settled, nat, lookups, jobs, served, wrote>>

\* Fault: the last failure is taken for one of a race still on.
FailedUncounted ==
    /\ Running("failed")
    /\ IF Retired(Top.gen)
       THEN Continue(Rest) /\ UNCHANGED <<sock, settled, nat, jobs, made>>
       ELSE IF sock.multiple /\ sock.next < sock.targets
       THEN StartNextAttempt(sock, Rest) /\ UNCHANGED <<settled, nat, jobs>>
       ELSE IF sock.multiple
       THEN Continue(Rest) /\ UNCHANGED <<sock, settled, nat, jobs, made>>
       ELSE Destroying(TRUE, jobs, Rest) /\ UNCHANGED made
    /\ UNCHANGED <<lookups, served, wrote>>

\* failAttempt() after the 'connectionAttemptFailed' listeners.
Failed ==
    /\ Running("failed")
    /\ IF Retired(Top.gen)
       THEN Continue(Rest) /\ UNCHANGED <<sock, settled, nat, jobs, made>>
       ELSE IF sock.multiple /\ sock.next < sock.targets
       THEN StartNextAttempt(sock, Rest) /\ UNCHANGED <<settled, nat, jobs>>
       ELSE IF sock.multiple /\ ~(sock.attempts \subseteq settled)
       THEN Continue(Rest) /\ UNCHANGED <<sock, settled, nat, jobs, made>>
       ELSE Destroying(TRUE, jobs, Rest) /\ UNCHANGED made
    /\ UNCHANGED <<lookups, served, wrote>>

\* The winner becomes the socket's handle and gets the held writes.
Winner(c) ==
    [c EXCEPT !.events = Tail(@), !.socket = TRUE, !.paused = sock.paused, !.out = sock.writes]

\* dispatchAttempt(): the connection's first event is 'connect' or 'error', and it
\* is called only for an attempt that is not settled: a settled one is closed.
WinAttempt ==
    /\ Running("attempt") /\ Top.n \notin settled
    /\ nat[Top.n].events # <<>> /\ Head(nat[Top.n].events) = "connect"
    /\ LET n == Top.n
           losers == NetDestroyAll(nat, sock.attempts \ (settled \cup {n}))
       IN  /\ settled' = settled \cup sock.attempts \cup {n}
           /\ sock' = [sock EXCEPT !.timer = NoId, !.attempts = {}, !.native = n,
                                   !.writes = <<>>, !.connecting = FALSE, !.ready = "open"]
           /\ \E c \in FlushWrites(Winner(nat[n])) :
                /\ nat' = [losers EXCEPT ![n] = IF c.closing THEN LoopClose(c) ELSE c]
                /\ jobs' = jobs \o NotifySoon(c, n)
           /\ Emit("connect", <<F("won", n)>> \o Rest)
    /\ UNCHANGED <<lookups, served, made, wrote>>

\* winAttempt() after the 'connect' listeners.
Won ==
    /\ Running("won")
    /\ IF sock.end /\ ~sock.destroyed THEN EndSocket([sock EXCEPT !.end = FALSE])
       ELSE UNCHANGED <<sock, nat, jobs>>
    /\ Continue(IF sock.destroyed THEN Rest ELSE <<F("dispatch", 0)>> \o Rest)
    /\ UNCHANGED <<settled, lookups, served, made, wrote>>

AttemptFails ==
    /\ Running("attempt") /\ Top.n \notin settled
    /\ nat[Top.n].events # <<>> /\ Head(nat[Top.n].events) = "error"
    /\ nat' = [nat EXCEPT ![Top.n].events = Tail(@)]
    /\ FailAttempt(Top.n, Rest)
    /\ UNCHANGED <<sock, lookups, jobs, served, made, wrote>>

----------------
(***************************************************************************)
(* dispatchNativeEvents(): the loop that drains the native event queue.    *)
(***************************************************************************)

Events == IF sock.native = NoId THEN <<>> ELSE nat[sock.native].events
Pending(e) == Running("dispatch") /\ Events # <<>> /\ Head(Events) = e
Popped == [nat[sock.native] EXCEPT !.events = Tail(@)]
PopEvent == nat' = [nat EXCEPT ![sock.native] = Popped]

DispatchDone ==
    /\ Running("dispatch") /\ Events = <<>>
    /\ Continue(Rest)
    /\ UNCHANGED <<sock, settled, nat, lookups, jobs, served, made, wrote>>

DispatchData ==
    /\ Pending("data")
    /\ nat' = [nat EXCEPT ![sock.native] = [Popped EXCEPT !.chunks = Tail(@)]]
    /\ LET x == Head(nat[sock.native].chunks)
       IN  IF sock.paused
           THEN sock' = [sock EXCEPT !.held = Append(@, x)] /\ Continue(stack)
           ELSE DeliverChunk(x, stack) /\ UNCHANGED sock
    /\ UNCHANGED <<settled, lookups, jobs, served, made, wrote>>

DispatchError ==
    /\ Pending("error") /\ PopEvent
    /\ sock' = [sock EXCEPT !.connecting = FALSE]
    /\ Emit("error", stack)
    /\ UNCHANGED <<settled, lookups, jobs, served, made, wrote>>

DispatchClose ==
    /\ Pending("close") /\ PopEvent
    /\ EmitClose([sock EXCEPT !.connecting = FALSE, !.destroyed = TRUE, !.ready = "closed"],
                 stack)
    /\ UNCHANGED <<settled, lookups, jobs, served, made, wrote>>

\* The write callbacks run.
DispatchDrain ==
    /\ Pending("drain") /\ PopEvent
    /\ Tell(stack)
    /\ UNCHANGED <<sock, settled, lookups, jobs, served, made, wrote>>

DispatchFinish ==
    /\ Pending("finish") /\ PopEvent
    /\ Tell(<<F("finished", 0)>> \o stack)
    /\ UNCHANGED <<sock, settled, lookups, jobs, served, made, wrote>>

Finished ==
    /\ Running("finished")
    /\ IF sock.destroyAfterFinish /\ ~sock.destroyed THEN Destroying(FALSE, jobs, Rest)
       ELSE Continue(Rest) /\ UNCHANGED <<sock, settled, nat, jobs>>
    /\ UNCHANGED <<lookups, served, made, wrote>>

DispatchEnd ==
    /\ Pending("end") /\ PopEvent
    /\ sock' = [sock EXCEPT !.ready = IF @ = "readOnly" THEN @ ELSE "writeOnly"]
    /\ Emit("end", <<F("ended", 0)>> \o stack)
    /\ UNCHANGED <<settled, lookups, jobs, served, made, wrote>>

\* Fault: end() is left to the program.
EndedByProgram ==
    /\ Running("ended")
    /\ Continue(Rest)
    /\ UNCHANGED <<sock, nat, jobs, settled, lookups, served, made, wrote>>

Ended ==
    /\ Running("ended")
    /\ IF ~sock.destroyed /\ sock.ready = "writeOnly" THEN EndSocket(sock)
       ELSE UNCHANGED <<sock, nat, jobs>>
    /\ Continue(Rest)
    /\ UNCHANGED <<settled, lookups, served, made, wrote>>

\* destroy(error) after the 'error' listeners.
DestroyingRest ==
    /\ Running("destroying")
    /\ DestroyRest(nat, sock.native, jobs)
    /\ Continue(Rest)
    /\ UNCHANGED <<sock, settled, lookups, served, made, wrote>>

----------------
(***************************************************************************)
(* The loop: readiness, microtasks, the peer.                              *)
(***************************************************************************)

OnReady(n) ==
    /\ nat[n].life = "open" /\ ~nat[n].closing
    /\ MayServe(n) /\ Serve(n)
    /\ \E c \in Polled(nat[n]) :
         /\ nat' = [nat EXCEPT ![n] = c]
         /\ Continue(IF c.events = <<>> THEN <<>>
                     ELSE <<F(IF c.socket THEN "dispatch" ELSE "attempt", n), F("ready", n)>>)
    /\ UNCHANGED <<sock, settled, lookups, jobs, made, wrote>>

\* onReady after deliverPending.
ReadyRest ==
    /\ Running("ready")
    /\ nat' = IF nat[Top.n].closing THEN [nat EXCEPT ![Top.n] = LoopClose(@)] ELSE nat
    /\ Continue(Rest)
    /\ UNCHANGED <<sock, settled, lookups, jobs, served, made, wrote>>

\* drain_microtasks reaches a job of this kind.
Drains(kind) ==
    /\ stack = <<>> /\ jobs # <<>> /\ Head(jobs).kind = kind
    /\ served' = {}
    /\ UNCHANGED <<lookups, wrote>>

Drained(kind) == Drains(kind) /\ jobs' = Tail(jobs)

JobBegin ==
    /\ Drained("begin")
    /\ IF Retired(Head(jobs).gen) THEN Continue(<<>>) /\ UNCHANGED <<sock, made>>
       ELSE BeginAttempts(1, <<>>)
    /\ UNCHANGED <<settled, nat>>

JobCreateFailed ==
    /\ Drained("createFailed")
    /\ IF Head(jobs).gen # sock.gen \/ Head(jobs).n \in settled
       THEN Continue(<<>>) /\ UNCHANGED settled
       ELSE FailAttempt(Head(jobs).n, <<>>)
    /\ UNCHANGED <<sock, nat, made>>

JobLookFailed ==
    /\ Drains("lookFailed")
    /\ IF Retired(Head(jobs).gen)
       THEN Continue(<<>>) /\ jobs' = Tail(jobs) /\ UNCHANGED <<sock, settled, nat>>
       ELSE Destroying(TRUE, Tail(jobs), <<>>)
    /\ UNCHANGED made

JobNotify ==
    /\ Drained("dispatch")
    /\ Continue(<<F("dispatch", Head(jobs).n)>>)
    /\ UNCHANGED <<sock, settled, nat, made>>

JobClose ==
    /\ Drained("close")
    /\ EmitClose(sock, <<>>)
    /\ UNCHANGED <<settled, nat, made>>

JobFinish ==
    /\ Drained("finish")
    /\ Tell(<<>>)
    /\ UNCHANGED <<sock, settled, nat, made>>

\* external: the peer of connection n sends a chunk, or its end of stream.
PeerSend(n) ==
    /\ stack = <<>> /\ nat[n].life = "open" /\ ~nat[n].connecting /\ ~nat[n].peerEnded
    /\ \A i \in DOMAIN nat[n].rx : nat[n].rx[i] # Fin
    /\ \/ /\ made.chunk < MaxChunks
          /\ made' = [made EXCEPT !.chunk = @ + 1]
          /\ nat' = [nat EXCEPT ![n].rx = Append(@, made.chunk + 1)]
       \/ /\ nat' = [nat EXCEPT ![n].rx = Append(@, Fin)]
          /\ UNCHANGED made
    /\ UNCHANGED <<sock, settled, lookups, jobs, stack, served, seen, wrote, got>>

Connecting ==
    \/ \E l \in lookups, fails \in BOOLEAN : LookupDone(l, fails)
    \/ Looked \/ Attempting \/ AttemptTimer \/ TimedOut \/ Failed
    \/ WinAttempt \/ Won \/ AttemptFails

Dispatching ==
    \/ DispatchDone \/ DispatchData \/ DispatchError \/ DispatchClose \/ DispatchDrain
    \/ DispatchFinish \/ Finished \/ DispatchEnd \/ Ended \/ DestroyingRest \/ ResumeNext

Jobs == JobBegin \/ JobCreateFailed \/ JobLookFailed \/ JobNotify \/ JobClose \/ JobFinish

Loop == Return \/ Connecting \/ Dispatching \/ Jobs \/ ReadyRest \/ \E n \in Id : OnReady(n)

Next == Program \/ Loop \/ \E n \in Id : PeerSend(n)

Spec == Init /\ [][Next]_vars

\* Listeners return, the kernel answers, the loop goes on.
FairSpec == Spec /\ WF_vars(Loop)

----------------

(***************************************************************************)
(* winAttempt and abandonAttempts close every attempt but the winner, and  *)
(* destroy() the winner: between callbacks the loop polls only the         *)
(* socket's own handle and the attempts still racing, and a connection     *)
(* that is closing has left the loop (end() itself never takes it out).    *)
(***************************************************************************)
NoLeak ==
    stack = <<>> =>
        \A k \in Id : nat[k].life = "open" =>
            /\ ~nat[k].closing
            /\ (k = sock.native /\ ~sock.destroyed) \/ k \in sock.attempts \ settled

(***************************************************************************)
(* write(): every accepted write reaches the kernel once and in order,     *)
(* those held back until 'connect' before any later one.                   *)
(***************************************************************************)
WritesKept ==
    ~sock.destroyed =>
        IF sock.native = NoId THEN sock.connecting => sock.writes = wrote
        ELSE nat[sock.native].closing \/ nat[sock.native].sent \o nat[sock.native].out = wrote

\* dispatchNativeEvents and resume(): 'data' keeps the order of the stream.
DataInOrder == \A i, j \in DOMAIN got : i < j => got[i] < got[j]

(***************************************************************************)
(* onReady and dispatchNativeEvents: a connection that is not paused reads *)
(* everything the peer sent before its end, on a hangup too, and 'end'     *)
(* comes after every chunk that was read, unless the program paused.       *)
(***************************************************************************)
DataBeforeEnd ==
    [][/\ \A k \in Id : nat'[k].peerEnded /\ ~nat[k].peerEnded /\ ~nat[k].paused =>
            \A i \in DOMAIN nat'[k].rx : nat'[k].rx[i] = Fin
       /\ seen'["end"] > seen["end"] /\ ~sock.paused =>
            sock.held = <<>> /\ nat[sock.native].chunks = <<>>]_vars

(***************************************************************************)
(* Between two connect() calls: at most one 'connect', 'end' and 'close',  *)
(* data and 'end' only after 'connect', no chunk read after 'end', and     *)
(* nothing after 'close' but chunks that resume() releases.                *)
(***************************************************************************)
EventOrder ==
    [][made'.epoch = made.epoch =>
         /\ seen'["connect"] <= 1 /\ seen'["end"] <= 1 /\ seen'["close"] <= 1
         /\ got' # got /\ ~Running("resume") =>
              seen["connect"] = 1 /\ seen["end"] = 0 /\ seen["close"] = 0
         /\ seen'["end"] > seen["end"] => seen["connect"] = 1
         /\ seen["close"] > 0 => seen' = seen]_vars

(***************************************************************************)
(* failAttempt, the attempt timer and winAttempt: a connect() that is not  *)
(* destroyed ends in 'connect' or 'error'.                                 *)
(***************************************************************************)
ConnectSettles == sock.connecting ~> ~sock.connecting

PeerEnded ==
    /\ sock.native # NoId
    /\ \/ nat[sock.native].peerEnded
       \/ \E i \in DOMAIN nat[sock.native].rx : nat[sock.native].rx[i] = Fin

(***************************************************************************)
(* destroy() ends in 'close', and so does the end of the peer's stream     *)
(* unless the socket is paused: 'end' is answered by end(), the buffer is  *)
(* flushed, and 'finish' and 'close' follow.                               *)
(***************************************************************************)
EventuallyCloses ==
    (sock.destroyed \/ PeerEnded) ~> (sock.closeEmitted \/ (sock.paused /\ ~sock.destroyed))

\* Typing, no connection lost, written chunks kept in order until they are sent, received chunks delivered in order.
SocketSafe == TypeOK /\ NoLeak /\ WritesKept /\ DataInOrder

\* The order of a socket's events.
SocketEvents == DataBeforeEnd /\ EventOrder

\* A connect() ends, a destroyed socket closes.
SocketSettles == ConnectSettles /\ EventuallyCloses
=============================================================================
