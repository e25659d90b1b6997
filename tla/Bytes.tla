------------------------------- MODULE Bytes -------------------------------
(***************************************************************************)
(* Objects of the runtime that keep bytes they were given: Hash and Hmac   *)
(* (src/runtime/node/crypto.ts), CryptoKey with SubtleCrypto and Blob      *)
(* (src/runtime/node/globals.ts).  Memory is explicit: a program may write *)
(* into every buffer it passed in or was given back, at any time between   *)
(* two calls, so what is copied and what is shared can be told apart.      *)
(* A byte is a sequence; digests and MACs are bytes that spell what they   *)
(* were computed from.                                                     *)
(***************************************************************************)
EXTENDS Integers, Sequences, FiniteSets, SequencesExt

CONSTANTS Contents,    \* what a program writes into a buffer
          MaxByteOps

VARIABLES
    memory,     \* the contents of each buffer ever allocated
    mine,       \* the buffers that the program can write to
    objects,    \* Hash, Hmac, CryptoKey and Blob objects, with what they were given, as it was then
    answers     \* the kind of object in use, and what was asked of them: the answer and the one expected

byteVars == <<memory, mine, objects, answers>>

Digest(algorithm, data) == <<<<"digest", algorithm, data>>>>
HmacOf(algorithm, key, data) == <<<<"hmac", algorithm, key, data>>>>
New(data) == memory' = Append(memory, data)
Id == Len(memory) + 1
Joined(ids) == FlattenSeq([i \in DOMAIN ids |-> memory[ids[i]]])
Object(kind, algorithm, key, keyWas, chunks, was) ==
    [kind |-> kind, algorithm |-> algorithm, key |-> key, keyWas |-> keyWas, chunks |-> chunks, was |-> was, finalized |-> FALSE]
Of(kind) == {o \in DOMAIN objects : objects[o].kind = kind}
May(kind) == answers.kind = kind /\ answers.ops < MaxByteOps
Ask == [answers EXCEPT !.ops = @ + 1]
Asked(got, right) == answers' = [Ask EXCEPT !.given = Append(@, [got |-> got, right |-> right])]
\* the memory an answer comes in is the program's
Returned(data) == New(data) /\ mine' = mine \cup {Id}

----------------
Allocate(c) ==
    /\ answers.ops < MaxByteOps
    /\ Returned(c) /\ answers' = Ask
    /\ UNCHANGED objects
Scribble(m, c) ==
    /\ answers.ops < MaxByteOps /\ m \in mine /\ memory[m] # c
    /\ memory' = [memory EXCEPT ![m] = c] /\ answers' = Ask
    /\ UNCHANGED <<mine, objects>>

(* copyBytes(): the buffer an object keeps is its own.                     *)
KeptFault(m) == [id |-> m, memory |-> memory]
Kept(m) == [id |-> Id, memory |-> Append(memory, memory[m])]
Keep(m) == memory' = Kept(m).memory

createHash(algorithm) ==
    /\ May("Hash")
    /\ objects' = Append(objects, Object("Hash", algorithm, 0, <<>>, <<>>, <<>>)) /\ answers' = Ask
    /\ UNCHANGED <<memory, mine>>
createHmac(algorithm, m) ==
    /\ May("Hmac")
    /\ objects' = Append(objects, Object("Hmac", algorithm, Kept(m).id, memory[m], <<>>, <<>>))
    /\ Keep(m) /\ answers' = Ask
    /\ UNCHANGED mine
Throws == answers' = Ask /\ UNCHANGED <<memory, mine, objects>>
update(o, m) ==
    /\ answers.ops < MaxByteOps
    /\ IF objects[o].finalized THEN Throws
       ELSE /\ objects' = [objects EXCEPT ![o].chunks = Append(@, Kept(m).id), ![o].was = @ \o memory[m]]
            /\ Keep(m) /\ answers' = Ask
            /\ UNCHANGED mine
copy(o) ==
    /\ answers.ops < MaxByteOps
    /\ IF objects[o].finalized THEN Throws
       ELSE /\ objects' = Append(objects, objects[o]) /\ answers' = Ask
            /\ UNCHANGED <<memory, mine>>
Finalized(o) == [objects EXCEPT ![o].finalized = TRUE, ![o].chunks = <<>>]
HashDigest(o) ==
    /\ answers.ops < MaxByteOps
    /\ IF objects[o].finalized THEN Throws
       ELSE LET k == objects[o] IN
            /\ Asked(Digest(k.algorithm, Joined(k.chunks)), Digest(k.algorithm, k.was))
            /\ objects' = Finalized(o) /\ Returned(Digest(k.algorithm, Joined(k.chunks)))
Again(k) == <<>>
\* a second digest() of an Hmac is empty: the key is gone
HmacDigest(o) ==
    /\ answers.ops < MaxByteOps
    /\ LET k == objects[o]
           bytes == IF k.finalized THEN Again(k) ELSE HmacOf(k.algorithm, memory[k.key], Joined(k.chunks))
       IN /\ Asked(bytes, IF k.finalized THEN <<>> ELSE HmacOf(k.algorithm, k.keyWas, k.was))
          /\ objects' = Finalized(o) /\ Returned(bytes)

----------------
(* SubtleCrypto: each operation computes before it returns its promise.    *)
Hashes == {"SHA-256", "SHA-512"}
Supported(format, algorithm, hash) == format = "raw" /\ algorithm = "HMAC" /\ hash \in Hashes
KeySecretFault(m) == KeptFault(m)
\* webCryptoBytes() shares the memory, Buffer.from(buffer) copies it
KeySecret(m) == Kept(m)
importKey(format, algorithm, hash, m) ==
    /\ May("CryptoKey")
    /\ IF ~Supported(format, algorithm, hash) THEN Throws
       ELSE /\ objects' = Append(objects, Object("CryptoKey", hash, KeySecret(m).id, memory[m], <<>>, <<>>))
            /\ memory' = KeySecret(m).memory /\ answers' = Ask
            /\ UNCHANGED mine
SubtleDigest(hash, m) ==
    /\ May("CryptoKey")
    /\ IF hash \notin Hashes THEN Throws
       ELSE Returned(Digest(hash, memory[m])) /\ answers' = Ask /\ UNCHANGED objects
sign(o, m) ==
    /\ answers.ops < MaxByteOps
    /\ LET mac == HmacOf(objects[o].algorithm, memory[objects[o].key], memory[m]) IN
       Asked(mac, HmacOf(objects[o].algorithm, objects[o].keyWas, memory[m])) /\ Returned(mac)
    /\ UNCHANGED objects
Verifies(expected, actual) == Len(expected) = Len(actual) /\ \A i \in DOMAIN expected : expected[i] = actual[i]
verify(o, signature, m) ==
    /\ answers.ops < MaxByteOps
    /\ Asked(Verifies(HmacOf(objects[o].algorithm, memory[objects[o].key], memory[m]), memory[signature]),
             memory[signature] = HmacOf(objects[o].algorithm, objects[o].keyWas, memory[m]))
    /\ UNCHANGED <<memory, mine, objects>>

----------------
(* Blob: the parts are put together in a buffer of its own.                *)
BlobOf(ids) == Object("Blob", "none", 0, <<>>, <<Id>>, Joined(ids))
newBlob(ids) ==
    /\ May("Blob")
    /\ objects' = Append(objects, BlobOf(ids)) /\ New(Joined(ids)) /\ answers' = Ask
    /\ UNCHANGED mine
Data(o) == memory[objects[o].chunks[1]]
Least(a, b) == IF a < b THEN a ELSE b
Most(a, b) == IF a > b THEN a ELSE b
Bound(at, size) == IF at < 0 THEN Most(size + at, 0) ELSE Least(at, size)
BlobSlice(data, start, end) ==
    LET from == Bound(start, Len(data)) to == Bound(end, Len(data)) IN SubSeq(data, from + 1, Most(from, to))
\* the spec's words: the bytes at or after start and before end, each counted from the end when it is negative
Between(data, start, end) ==
    LET n == Len(data)
        from == IF start < 0 THEN n + start ELSE start
        to == IF end < 0 THEN n + end ELSE end
        picked == {i \in 1..n : from < i /\ i <= to}
    IN [i \in 1..Cardinality(picked) |-> data[(CHOOSE p \in picked : Cardinality({q \in picked : q <= p}) = i)]]
slice(o, start, end) ==
    /\ May("Blob")
    /\ LET part == BlobSlice(Data(o), start, end) IN
       /\ objects' = Append(objects, [BlobOf(<<>>) EXCEPT !.was = Between(objects[o].was, start, end)]) /\ New(part) /\ answers' = Ask
    /\ UNCHANGED mine
\* arrayBuffer() and bytes(): a copy each time
BlobBytes(o) == Returned(Data(o))
bytes(o) ==
    /\ answers.ops < MaxByteOps
    /\ Asked(Data(o), objects[o].was) /\ BlobBytes(o)
    /\ UNCHANGED objects

ByteInit == memory = <<>> /\ mine = {} /\ objects = <<>> /\ \E k \in {"Hash", "Hmac", "CryptoKey", "Blob"} : answers = [kind |-> k, ops |-> 0, given |-> <<>>]
ByteNext ==
    \/ \E c \in Contents : Allocate(c) \/ \E m \in mine : Scribble(m, c)
    \/ createHash("sha256")
    \/ \E m \in mine : createHmac("sha256", m)
    \/ \E o \in Of("Hash") : copy(o) \/ HashDigest(o) \/ \E m \in mine : update(o, m)
    \/ \E o \in Of("Hmac") : HmacDigest(o) \/ \E m \in mine : update(o, m)
    \/ \E m \in mine, h \in {"SHA-256", "SHA-512", "MD5"} : SubtleDigest(h, m) \/ \E f \in {"raw", "jwk"} : importKey(f, "HMAC", h, m)
    \/ \E o \in Of("CryptoKey"), m \in mine : sign(o, m) \/ \E s \in mine : verify(o, s, m)
    \/ \E m \in mine, k \in mine : newBlob(<<m, k>>)
    \/ \E o \in Of("Blob") : bytes(o) \/ \E start, end \in -3..3 : slice(o, start, end)

----------------
\* Every digest and MAC is that of the bytes given to update() and to the constructor as they were at those calls,
\* though the program has written into its buffers since, a copy() went its own way, or digest() was called before;
\* a key signs and verifies with what importKey() was given, and a Blob keeps what it was made of.
AnswersExact == \A a \in DOMAIN answers.given : answers.given[a].got = answers.given[a].right
\* No object reads a buffer that the program can write to, whatever was passed in or handed out.
NothingShared == \A o \in DOMAIN objects : mine \cap (ToSet(objects[o].chunks) \cup {objects[o].key}) = {}
\* A slice holds the bytes that its start and end name, negative and crossed ones included.
SliceExact == \A o \in Of("Blob") : Data(o) = objects[o].was

\* Digests, signatures and random bytes are those of what was given, and no two owners share bytes.
BytesExact == AnswersExact /\ NothingShared /\ SliceExact
=============================================================================
