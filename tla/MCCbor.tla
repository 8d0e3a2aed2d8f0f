------------------------------- MODULE MCCbor -------------------------------
(***************************************************************************)
(* The codec over values at every boundary of the encoding, and over the   *)
(* bytes a peer may send: an encoding, a part of one, or one with bytes    *)
(* behind it, and short byte strings of every kind of initial byte.        *)
(***************************************************************************)
EXTENDS Cbor

CONSTANTS
    MaxBytes  \* how many bytes are tried without an encoding

VARIABLES
    value,  \* the value that was to be encoded
    bytes   \* what is decoded

Integers == {0, Immediate - 1, Immediate, Base - 1, Base, Base^2 - 1, Base^2, Base^4 - 1, Base^4, MAX_SAFE, MAX_SAFE + 1}
Leaves ==
    {<<"int", n>> : n \in Integers} \cup {<<"int", -1 - n>> : n \in Integers}
    \cup {<<kind, [i \in 1..n |-> i % 7]>> : kind \in {"bytes", "text"}, n \in {0, 1, Immediate - 1, Immediate, Base}}
    \cup {<<"simple", n>> : n \in Simple}
    \cup {<<"text", text>> : text \in {<<Bom>>, <<Bom, 1>>, <<1, Bom>>, <<Bom, Bom, 1>>, <<LoneSurrogate>>,
                                       <<Bom, LoneSurrogate>>, <<1, Replacement>>}}
\* Keys whose encodings differ in length, or only in a later byte, or not at all,
\* and texts that are the same once they are written or read.
Keys ==
    {<<"int", Immediate>>, <<"int", -1>>, <<"bytes", <<2>>>>}
    \cup {<<"text", text>> : text \in {<<1>>, <<1, 2>>, <<Bom, 1>>, <<LoneSurrogate>>, <<Replacement>>}}
Entries == {<<key, item>> : key \in Keys, item \in {<<"int", 0>>, <<"text", <<3>>>>}}
Maps == {<<"map", s>> : s \in UNION {[1..n -> Entries] : n \in 0..2}}

\* A Map holds a number or a text once; of byte strings it may hold equal ones.
IsMap(map) ==
    \A i, j \in DOMAIN map[2] :
        i # j /\ map[2][i][1] = map[2][j][1] => map[2][i][1][1] = "bytes"

RECURSIVE Nested(_, _)
Nested(inner, depth) == IF depth = 0 THEN inner ELSE <<"array", <<Nested(inner, depth - 1)>>>>

Values ==
    Leaves
    \cup {map \in Maps : IsMap(map)}
    \cup {<<"map", <<<<<<"text", <<k>>>>, <<"int", 1>>>>, <<<<"text", <<j>>>>, <<"array", <<v, v>>>>>>>>>> :
              k \in {1}, j \in {0, 2}, v \in Leaves}
    \cup {<<"tag", n, v>> : n \in {18, Base}, v \in Leaves}
    \cup {Nested(v, d) : v \in {<<"int", 5>>, <<"map", <<>>>>, <<"tag", 1, <<"int", 0>>>>}, d \in 0..MAX_DEPTH + 1}

\* Initial bytes of every major type, with small, one-byte and unknown arguments.
InitialBytes ==
    {Codes * major + info : major \in 0..7, info \in {1, 2, Info(1)}} \cup {Info(8), Bom, NotUtf8}

Init == value \in Values \cup {Failed} /\ bytes = <<>>

Encode ==
    /\ value # Failed /\ bytes = <<>>
    /\ CborEncode(value) # Failed
    /\ bytes' = CborEncode(value)
    /\ UNCHANGED value

\* The end of an encoding is lost.
Truncate ==
    /\ value # Failed /\ Len(bytes) > 1
    /\ bytes' = Front(bytes)
    /\ UNCHANGED value

\* A byte is added to what was written without the encoder.
Extend(byte) ==
    /\ value = Failed /\ Len(bytes) < MaxBytes
    /\ bytes' = Append(bytes, byte)
    /\ UNCHANGED value

Next == Encode \/ Truncate \/ \E byte \in InitialBytes : Extend(byte)

Spec == Init /\ [][Next]_<<value, bytes>>

-----------------------------------------------------------------------------
RECURSIVE Unmarked(_)
\* No text in the value begins with a byte order mark.
Unmarked(v) ==
    /\ v[1] = "text" /\ v[2] # <<>> => v[2][1] # Bom
    /\ \A i \in DOMAIN Children(v) : Unmarked(Children(v)[i])

\* What is left of a text that was written and read.
TextAsRead(text) ==
    LET kept == IF text # <<>> /\ text[1] = Bom THEN Tail(text) ELSE text
    IN  [i \in DOMAIN kept |-> IF kept[i] = LoneSurrogate THEN Replacement ELSE kept[i]]

RECURSIVE ReadsAs(_, _)
\* Each entry of a map reads as one of the entries written, and no key is
\* missing; entries are lost only where a byte order mark told keys apart.
MapReadsAs(v, read) ==
    /\ \A e \in ToSet(read) : \E d \in ToSet(v) : ReadsAs(d[1], e[1]) /\ ReadsAs(d[2], e[2])
    /\ \A d \in ToSet(v) : \E e \in ToSet(read) : ReadsAs(d[1], e[1])
    /\ Len(read) < Len(v) => \E d \in ToSet(v) : ~Unmarked(d[1])
    /\ Len(read) <= Len(v)

\* The value that is read is the one written, but for its texts and the order of
\* map entries.
ReadsAs(v, read) ==
    /\ read # Failed
    /\ read[1] = v[1]
    /\ CASE v[1] = "text" -> read[2] = TextAsRead(v[2])
         [] v[1] = "array" ->
                Len(read[2]) = Len(v[2]) /\ \A i \in DOMAIN v[2] : ReadsAs(v[2][i], read[2][i])
         [] v[1] = "map" -> MapReadsAs(v[2], read[2])
         [] v[1] = "tag" -> read[2] = v[2] /\ ReadsAs(v[3], read[3])
         [] OTHER -> read = v

\* What is encoded is decoded to the same value; a part of it is refused.
RoundTrip(encoded, decoded) == IF bytes = encoded THEN ReadsAs(value, decoded) ELSE decoded = Failed

\* However a value was written, there is one encoding of it, no longer than the
\* bytes it was read from, and those bytes themselves when they were written by
\* the encoder.
Canonical(again, decoded) ==
    \/ again = Failed
    \/ /\ Len(again) <= Len(bytes)
       /\ ReadsAs(decoded, CborDecode(again))
       /\ value # Failed => again = bytes \/ ~Unmarked(value)

\* A signed message gives the reader what was signed, and a part of it nothing.
Header == <<"map", <<<<<<"int", 1>>, <<"int", -35>>>>>>>>

ReadsAsSigned(read) ==
    /\ read # Failed
    /\ read.protectedHeader = Header /\ read.payload = bytes
    /\ read.signature = Sign(read.toBeSigned)

Sign1Agrees(message) ==
    ReadsAsSigned(CoseSign1Decode(message)) /\ CoseSign1Decode(Front(message)) = Failed

CodecIsExactFor(decoded) ==
    /\ value # Failed => RoundTrip(CborEncode(value), decoded)
    /\ decoded # Failed => Canonical(CborEncode(decoded), decoded)
    /\ value # Failed => Sign1Agrees(CoseSign1Encode(Header, bytes))

\* What the codec under the signatures of attestations keeps and what it loses:
\* decoding gives back the encoded value at every width, nesting and map order,
\* except that a lone surrogate in a text is replaced and a byte order mark at
\* the beginning of one is dropped, with the entries of a map whose keys it told
\* apart.  No part of an encoding is taken for a whole, the encoding is
\* canonical, and signer and verifier of a message agree on the signed bytes
\* (cbor.ts:9-147, cose.ts:12-31).
CodecIsExact == bytes # <<>> => CodecIsExactFor(CborDecode(bytes))

=============================================================================
