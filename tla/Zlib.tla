-------------------------------- MODULE Zlib --------------------------------
(***************************************************************************)
(* node:zlib (src/runtime/node/zlib.ts over gea_node_zlib.hpp and          *)
(* gea_node_brotli.hpp): a codec stream holds a native handle, steps it    *)
(* while it has more to give and pushes each piece, from which a program's *)
(* 'data' listener may destroy the stream or write to it: a write inside   *)
(* a write, whose loop runs on the same handle to its end.                 *)
(*                                                                         *)
(* Compressed input is a sequence of tokens: "one" and "two" stand for as many     *)
(* bytes of output, "end" for the end of a member, "zero" for a zero byte  *)
(* and "bad" for data the codec refuses.  The library itself is external.  *)
(***************************************************************************)
EXTENDS Integers, Sequences, SequencesExt

CONSTANTS ZlibInputs,   \* what is written to a stream: its framing and its chunks
          PieceSize     \* kChunk

VARIABLES zin, zcodec, zstream

zlibVars == <<zin, zcodec, zstream>>

FreshCodec ==
    [open |-> TRUE, input |-> <<>>, held |-> <<>>, ended |-> FALSE, between |-> FALSE, stopped |-> FALSE,
     leftover |-> FALSE, draining |-> FALSE, finishing |-> FALSE, finished |-> FALSE, closes |-> 0]
FreshStream ==
    [at |-> "idle", piece |-> <<>>, more |-> FALSE, destroyed |-> FALSE, error |-> FALSE, eof |-> FALSE,
     outer |-> <<>>, out |-> <<>>, written |-> 0, called |-> 0, flushed |-> FALSE, byProgram |-> FALSE, overwritten |-> FALSE]

Filled(held, room) == SubSeq(held, 1, IF Len(held) < room THEN Len(held) ELSE room)
Dropped(held, n) == SubSeq(held, n + 1, Len(held))
Bits(token) == IF token = "two" THEN <<"b", "b">> ELSE <<"b">>

(* One call of ::inflate on one token, or on what the last one still holds. *)
Inflated(c, room) ==
    LET token == IF c.held = <<>> /\ c.input # <<>> THEN Head(c.input) ELSE "none"
        held == IF token \in {"one", "two"} THEN Bits(token) ELSE c.held
        given == Filled(held, room)
    IN [codec |-> [c EXCEPT !.input = IF token = "none" THEN @ ELSE Tail(@), !.held = Dropped(held, Len(given)),
                            !.draining = Len(given) = room],
        given |-> given, end |-> token = "end", bad |-> token \in {"bad", "zero"}]

RECURSIVE InflateStep(_, _)
StepEnds(c, used) == used = PieceSize \/ c.ended \/ c.stopped \/ (c.input = <<>> /\ ~c.draining)
ResetFault(c) == c
Reset(c) == [c EXCEPT !.between = FALSE]
MemberEnds(c) ==
    IF zin.framing = "gzip" THEN [c EXCEPT !.draining = FALSE, !.between = TRUE]
    ELSE [c EXCEPT !.draining = FALSE, !.ended = TRUE]
NextIsZero(c) == c.input = <<>> \/ Head(c.input) = "zero"
StepDone(c, out) ==
    [codec |-> [c EXCEPT !.leftover = IF c.ended \/ c.stopped THEN c.input # <<>> ELSE @], out |-> out, ok |-> TRUE]
InflateStep(c, out) ==
    IF StepEnds(c, Len(out)) THEN StepDone(c, out)
    ELSE IF c.between /\ NextIsZero(c) THEN StepDone([c EXCEPT !.stopped = TRUE], out)
    ELSE LET call == Inflated(Reset(c), PieceSize - Len(out)) IN
         IF call.bad THEN [codec |-> c, out |-> <<>>, ok |-> FALSE]
         ELSE IF call.end THEN InflateStep(MemberEnds(call.codec), out)
         ELSE IF call.given = <<>> /\ c.input = <<>> THEN StepDone(call.codec, out)
         ELSE InflateStep(call.codec, out \o call.given)

(* deflate: how much it gives before the end, and whether it has read all  *)
(* of its input when the piece is full, is its own affair.                 *)
DeflateStep(c, n, unread, flush) ==
    LET held == c.held \o c.input
        given == Filled(held, IF flush THEN PieceSize ELSE n)
        rest == Dropped(held, Len(given))
        full == Len(given) = PieceSize
        left == IF full /\ unread /\ Len(rest) <= Len(c.input) THEN rest ELSE <<>>
    IN [codec |-> [c EXCEPT !.input = left, !.held = IF left = <<>> THEN rest ELSE <<>>, !.draining = full,
                            !.finished = flush /\ ~full],
        out |-> given, ok |-> TRUE]

streamWrite(c, chunk) == [c EXCEPT !.input = chunk, !.stopped = FALSE, !.leftover = FALSE]
streamPending(c) ==
    IF c.finishing THEN zin.framing = "deflate" /\ ~c.finished
    ELSE ~c.ended /\ ~c.stopped /\ (c.draining \/ c.input # <<>>)
streamFinish(c) ==
    IF zin.framing = "deflate" THEN DeflateStep([c EXCEPT !.finishing = TRUE], 0, FALSE, TRUE)
    ELSE [codec |-> [c EXCEPT !.finishing = TRUE], out |-> <<>>, ok |-> c.ended \/ c.between]

(* The one-shot functions: the same library, in a loop of their own.       *)
RECURSIVE InflateAll(_, _, _)
InflateAll(input, out, framing) ==
    LET token == Head(input) rest == Tail(input) IN
    IF input = <<>> THEN [ok |-> FALSE, out |-> <<>>]
    ELSE IF token \in {"one", "two"} THEN InflateAll(rest, out \o Bits(token), framing)
    ELSE IF token # "end" THEN [ok |-> FALSE, out |-> <<>>]
    ELSE IF rest = <<>> \/ framing # "gzip" THEN [ok |-> TRUE, out |-> out]
    ELSE IF Head(rest) = "zero" THEN [ok |-> TRUE, out |-> out]
    ELSE InflateAll(rest, out, framing)
OneShot == IF zin.framing = "deflate" THEN [ok |-> TRUE, out |-> FlattenSeq(zin.all)]
           ELSE InflateAll(FlattenSeq(zin.all), <<>>, zin.framing)

----------------
(* ZlibBase.                                                               *)

release_(c) == IF ~c.open THEN c ELSE [c EXCEPT !.closes = @ + 1, !.open = FALSE]
\* the callback; a write made by a listener returns into it
Called(s) ==
    IF s.outer = <<>> THEN [s EXCEPT !.called = @ + 1, !.at = "idle"]
    ELSE [s EXCEPT !.called = @ + 1, !.at = "listening", !.more = Head(s.outer), !.outer = Tail(@)]
\* callback(error), a push after the end: errorOrDestroy() destroys, and _destroy() releases
Failed(c, s) == zcodec' = release_(c) /\ zstream' = [s EXCEPT !.destroyed = TRUE, !.error = TRUE]

Entered(s) ==
    IF s.at = "idle" THEN [s EXCEPT !.written = @ + 1]
    ELSE [s EXCEPT !.written = @ + 1, !.outer = <<s.more>> \o @, !.overwritten = @ \/ (zcodec.open /\ zcodec.input # <<>>)]
Transform ==
    /\ zstream.at \in {"idle", "listening"} /\ zin.chunks # <<>> /\ ~zstream.flushed
    /\ zstream.destroyed => zin.corked
    /\ zin' = [zin EXCEPT !.chunks = Tail(@)]
    /\ LET s == Entered(zstream) IN
       IF ~zcodec.open THEN Failed(zcodec, Called(s))
       ELSE zcodec' = streamWrite(zcodec, Head(zin.chunks)) /\ zstream' = [s EXCEPT !.at = "step"]
Flush ==
    /\ zstream.at = "idle" /\ zin.chunks = <<>> /\ ~zstream.destroyed /\ ~zstream.flushed
    /\ zstream' = [zstream EXCEPT !.flushed = TRUE, !.at = "step", !.written = @ + 1]
    /\ UNCHANGED <<zin, zcodec>>
Stepped(r) ==
    IF r.ok THEN /\ zcodec' = r.codec
                 /\ zstream' = [zstream EXCEPT !.at = "push", !.piece = r.out, !.more = streamPending(r.codec)]
    ELSE Failed(r.codec, Called(zstream))
Drain ==
    /\ zstream.at = "step"
    /\ IF zstream.flushed THEN Stepped(streamFinish(zcodec))
       ELSE IF zin.framing # "deflate" THEN Stepped(InflateStep(zcodec, <<>>))
       ELSE \E n \in 0..PieceSize, unread \in BOOLEAN : Stepped(DeflateStep(zcodec, n, unread, FALSE))
    /\ UNCHANGED zin
\* push(): a 'data' listener may write to the stream or destroy it before it returns
PushPiece ==
    /\ zstream.at = "push"
    /\ LET s == [zstream EXCEPT !.at = "pushed", !.piece = <<>>] IN
       IF zstream.piece = <<>> THEN zstream' = s /\ UNCHANGED zcodec
       ELSE IF zstream.eof THEN Failed(zcodec, s)
       ELSE zstream' = [s EXCEPT !.at = "listening", !.out = @ \o zstream.piece] /\ UNCHANGED zcodec
    /\ UNCHANGED zin
DataReturns ==
    /\ zstream.at = "listening"
    /\ zstream' = [zstream EXCEPT !.at = "pushed"]
    /\ UNCHANGED <<zin, zcodec>>
DestroyedInPush(s) == Called(s)
PushedPiece ==
    /\ zstream.at = "pushed"
    /\ IF zstream.destroyed THEN zstream' = DestroyedInPush(zstream) /\ UNCHANGED zcodec
       ELSE IF zstream.more THEN zstream' = [zstream EXCEPT !.at = "step"] /\ UNCHANGED zcodec
       ELSE IF zstream.flushed THEN zcodec' = release_(zcodec) /\ zstream' = [Called(zstream) EXCEPT !.eof = TRUE]
       ELSE zstream' = [Called(zstream) EXCEPT !.eof = @ \/ zcodec.leftover] /\ UNCHANGED zcodec
    /\ UNCHANGED zin
ProgramDestroys ==
    /\ zstream.at \in {"idle", "listening"} /\ ~zstream.destroyed
    /\ zcodec' = release_(zcodec) /\ zstream' = [zstream EXCEPT !.destroyed = TRUE, !.byProgram = TRUE]
    /\ UNCHANGED zin

Opened(i, corked) ==
    /\ zin = [framing |-> i.framing, chunks |-> i.chunks, all |-> i.chunks, corked |-> corked]
    /\ zcodec = FreshCodec /\ zstream = FreshStream
ZlibInit == \E i \in ZlibInputs, corked \in BOOLEAN : Opened(i, corked)
ZlibNext == Transform \/ Flush \/ Drain \/ PushPiece \/ DataReturns \/ PushedPiece \/ ProgramDestroys

----------------
\* A codec stream that finishes has pushed exactly what the one-shot function gives for all its chunks together,
\* wherever the chunks were cut and however often the output buffer filled; and it fails only where that one fails,
\* unless the program destroyed it or wrote on after the padding that had ended the readable side.  A listener may
\* write while a write is under way, unless that one has input left to read: the write of the listener replaces it.
CodecsAgree ==
    \/ zstream.overwritten
    \/ /\ zstream.flushed /\ zstream.eof /\ ~zstream.destroyed => OneShot.ok /\ zstream.out = OneShot.out
       /\ zstream.error /\ ~zstream.eof /\ ~zstream.byProgram => ~OneShot.ok

\* The native handle is released once, on every way out: the end, a failure, destroy() from a listener
\* inside the loop or from outside; and a chunk that comes after that is refused.
HandleReleased ==
    /\ zcodec.closes = IF zcodec.open THEN 0 ELSE 1
    /\ zstream.destroyed \/ (zstream.flushed /\ zstream.at = "idle") => ~zcodec.open
    /\ zstream.at = "step" => zcodec.open

\* Every chunk and the flush are called back exactly once, also when the stream is destroyed inside them and when a
\* chunk is written inside another.
CalledBackOnce == zstream.called = zstream.written - Len(zstream.outer) - IF zstream.at = "idle" THEN 0 ELSE 1

\* The two layers of a codec stream agree, its native handle is released once, its callbacks come once.
CodecStreamsExact == CodecsAgree /\ HandleReleased /\ CalledBackOnce
=============================================================================
