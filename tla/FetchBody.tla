----------------------------- MODULE FetchBody -----------------------------
(***************************************************************************)
(* The bodies of Request and Response (src/runtime/node/globals.ts): a     *)
(* Request is read once, by any of five readers, at once when its body is  *)
(* bytes, chunk by chunk when it is a stream; clone() copies bytes and     *)
(* headers.  WebCrypto's HMAC keys, signatures and their verification.     *)
(***************************************************************************)
EXTENDS Integers, Sequences, FiniteSets

CONSTANTS MaxObjects, MaxReads, MaxChunks

None0 == "none"
FormTypes == {"urlencoded", "multipart"}

VARIABLES
    objs,       \* the Requests and Responses: [class, bytes, stream, used, type: content-type, like: cloned from]
    source,     \* the ReadableStream a Request may have: [chunks: not yet read, wrote, state, locked]
    reads       \* the calls of readers: [of, how, state, got, type]

bodyVars == <<objs, source, reads>>

\* The media type a body brings along when the caller named none.
OwnType(class, body) ==
    CASE body = "params" -> "urlencoded"
      [] body = "string" /\ class = "Response" -> "text"
      [] body = "form" /\ class = "Request" -> "multipart"
      [] body = "blob" /\ class = "Request" -> "png"
      [] OTHER -> None0
Object(class, body, named) ==
    [class |-> class, stream |-> body = "stream", used |-> FALSE, like |-> 0,
     bytes |-> IF body \in {"none", "stream"} THEN <<>> ELSE <<body>>,
     type |-> IF named # None0 THEN named ELSE OwnType(class, body)]
\* The Response constructor throws on a stream, a FormData and a Blob.
Takes(class, body) == class = "Request" \/ body \notin {"stream", "form", "blob"}
New(class, body, named) ==
    /\ Len(objs) < MaxObjects /\ Takes(class, body)
    /\ objs' = Append(objs, Object(class, body, named))
    /\ UNCHANGED <<source, reads>>
CloneType(o) == IF o.type = None0 /\ o.class = "Response" THEN "text" ELSE o.type
Clone(k) ==
    /\ Len(objs) < MaxObjects /\ ~objs[k].used
    /\ objs' = Append(objs, [objs[k] EXCEPT !.stream = FALSE, !.like = k, !.type = CloneType(objs[k])])
    /\ UNCHANGED <<source, reads>>

(* The readers.  blob() and formData() take the content type before the    *)
(* body; formData() refuses another type once it has the bytes.            *)
Settled(read, bytes) ==
    IF read.how = "formData" /\ read.type \notin FormTypes THEN [read EXCEPT !.state = "rejected"]
    ELSE [read EXCEPT !.state = "resolved", !.got = bytes]
Consumed(o) == [o EXCEPT !.used = TRUE]
Read(k, how) ==
    LET o == objs[k]
        read == [of |-> k, how |-> how, state |-> "draining", got |-> <<>>, type |-> o.type]
        Add(r) == reads' = Append(reads, r) IN
    /\ o.class = "Request" /\ Len(reads) < MaxReads
    /\ IF o.used THEN Add([read EXCEPT !.state = "rejected"]) /\ UNCHANGED <<objs, source>>
       ELSE /\ objs' = [objs EXCEPT ![k] = Consumed(@)]
            /\ IF ~o.stream THEN Add(Settled(read, o.bytes)) /\ UNCHANGED source
               ELSE IF source.locked THEN Add([read EXCEPT !.state = "rejected"]) /\ UNCHANGED source
               ELSE Add(read) /\ source' = [source EXCEPT !.locked = TRUE]
ReadText(k) ==            \* Response.text(): the body it holds, again and again
    /\ objs[k].class = "Response" /\ Len(reads) < MaxReads
    /\ reads' = Append(reads, [of |-> k, how |-> "text", state |-> "resolved", got |-> objs[k].bytes, type |-> objs[k].type])
    /\ UNCHANGED <<objs, source>>
\* drainRequestBody(): one turn of its loop.
Drain(k) ==
    /\ reads[k].state = "draining"
    /\ \/ /\ source.chunks # <<>>
          /\ reads' = [reads EXCEPT ![k].got = Append(@, Head(source.chunks))]
          /\ source' = [source EXCEPT !.chunks = Tail(@)]
       \/ /\ source.chunks = <<>> /\ source.state = "closed"
          /\ reads' = [reads EXCEPT ![k] = Settled(@, @.got)]
          /\ UNCHANGED source
       \/ /\ source.chunks = <<>> /\ source.state = "errored"
          /\ reads' = [reads EXCEPT ![k].state = "rejected"]
          /\ UNCHANGED source
    /\ UNCHANGED objs

\* The producer of the stream.
Produce ==
    /\ source.state = "open" /\ source.wrote < MaxChunks
    /\ source' = [source EXCEPT !.wrote = @ + 1, !.chunks = Append(@, source.wrote + 1)]
    /\ UNCHANGED <<objs, reads>>
Finish(state) ==
    /\ source.state = "open"
    /\ source' = [source EXCEPT !.state = state]
    /\ UNCHANGED <<objs, reads>>

BodyInit ==
    /\ objs = <<>> /\ reads = <<>>
    /\ source = [chunks |-> <<>>, wrote |-> 0, state |-> "open", locked |-> FALSE]
BodyKinds == {"none", "string", "params", "blob", "form", "stream"}
BodyNext ==
    \/ \E class \in {"Request", "Response"}, body \in BodyKinds, named \in {None0, "x"} : New(class, body, named)
    \/ \E k \in DOMAIN objs : Clone(k)
    \/ \E k \in DOMAIN objs, how \in {"text", "formData"} : Read(k, how)
    \/ \E k \in DOMAIN objs : ReadText(k)
    \/ \E k \in DOMAIN reads : Drain(k)
    \/ Produce
    \/ \E state \in {"closed", "errored"} : Finish(state)
BodyFairness == WF_bodyVars(\E k \in DOMAIN reads : Drain(k)) /\ WF_bodyVars(reads # <<>> /\ \E s \in {"closed", "errored"} : Finish(s))

\* A Request's body reaches one reader at most, whole and in order, whether it is bytes or a stream that two readers
\* or two Requests contend for; every other reader is refused.
BodyReadOnce ==
    LET Ok == {r \in DOMAIN reads : reads[r].state = "resolved" /\ objs[reads[r].of].class = "Request"} IN
    /\ \A r, q \in Ok : reads[r].of = reads[q].of => r = q
    /\ \A r \in Ok : reads[r].got = IF objs[reads[r].of].stream THEN [i \in 1..source.wrote |-> i] ELSE objs[reads[r].of].bytes
    /\ \A r, q \in Ok : objs[reads[r].of].stream /\ objs[reads[q].of].stream => r = q

\* A clone of a Request has its content type, and one of a Response has it when the Response has one; so a form can
\* be parsed from a clone exactly when it can be parsed from the original.
CloneKeepsType ==
    \A k \in DOMAIN objs : objs[k].like # 0 =>
        LET o == objs[objs[k].like] IN objs[k].type = o.type \/ (o.class = "Response" /\ o.type = None0)

\* Every reader is settled once the stream has ended.
ReadersSettle == \A n \in 1..MaxReads : (n \in DOMAIN reads) ~> (n \in DOMAIN reads /\ reads[n].state # "draining")
=============================================================================
