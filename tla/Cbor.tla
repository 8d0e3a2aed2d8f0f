-------------------------------- MODULE Cbor --------------------------------
(***************************************************************************)
(* The CBOR subset of packages/protocol/src/cbor.ts: what cborEncode       *)
(* writes for a value and what cborDecode reads from bytes, and the        *)
(* COSE_Sign1 messages of packages/protocol/src/cose.ts made of them.      *)
(*                                                                         *)
(* A value is a tuple that begins with its kind.  A byte string is a       *)
(* sequence of bytes, a text one of characters, an array is a sequence of  *)
(* values, a Map or an object is the sequence of its entries in insertion  *)
(* order.                                                                  *)
(*                                                                         *)
(* An initial byte is a major type, 0 to 7, and an additional information: *)
(* an argument below Immediate, or one of eight codes.  In the code        *)
(* Immediate is 24, which makes 32 codes and 256 bytes; a smaller one      *)
(* scales everything down without changing the format.                     *)
(***************************************************************************)
EXTENDS Integers, Sequences, FiniteSets, FiniteSetsExt, SequencesExt, TLC

CONSTANTS
    Immediate, \* the arguments that fit the initial byte
    MAX_DEPTH, \* the nesting that is read and written
    MAX_SAFE,  \* the largest safe integer
    Failed     \* an error was thrown

Codes == Immediate + 8
Base == 8 * Codes

ASSUME CborAssumption == Immediate >= 4 /\ MAX_SAFE > Base^4 /\ MAX_DEPTH \in Nat

-----------------------------------------------------------------------------
(***************************************************************************)
(* Text.  A character is written as the byte of the same number, except a  *)
(* surrogate without its other half, which has no UTF-8 form.              *)
(***************************************************************************)
Bom == Base - 2           \* the byte order mark
Replacement == Base - 3   \* the replacement character
NotUtf8 == Base - 1       \* a byte that occurs in no UTF-8 text
LoneSurrogate == Base

\* TextEncoder: a lone surrogate is replaced.
TextEncode(text) == [i \in DOMAIN text |-> IF text[i] = LoneSurrogate THEN Replacement ELSE text[i]]

\* TextDecoder, fatal and without ignoreBOM: one byte order mark at the beginning
\* is dropped.
TextDecode(bytes) ==
    IF NotUtf8 \in ToSet(bytes) THEN Failed
    ELSE IF bytes # <<>> /\ bytes[1] = Bom THEN Tail(bytes) ELSE bytes

-----------------------------------------------------------------------------
(***************************************************************************)
(* Writing.                                                                *)
(***************************************************************************)
\* The value in width bytes, most significant first.
Digits(value, width) ==
    LET rest[k \in 0..width] == IF k = 0 THEN value ELSE rest[k - 1] \div Base
    IN  [i \in 1..width |-> rest[width - i] % Base]

Widths == {1, 2, 4, 8}
Info(width) ==
    Immediate + CASE width = 1 -> 0 [] width = 2 -> 1 [] width = 4 -> 2 [] width = 8 -> 3
\* false, true, null and undefined.
Simple == Immediate - 4..Immediate - 1

HeadMutant(major, value) ==
    IF value <= Immediate THEN <<Codes * major + value>>
    ELSE LET fitting == {w \in {1, 2, 4} : value < Base^w}
             width == IF fitting = {} THEN 8 ELSE Min(fitting)
         IN  <<Codes * major + Info(width)>> \o Digits(value, width)

\* The initial byte and the argument in the fewest bytes that hold it.
HeadOf(major, value) ==
    IF value < Immediate THEN <<Codes * major + value>>
    ELSE LET fitting == {w \in {1, 2, 4} : value < Base^w}
             width == IF fitting = {} THEN 8 ELSE Min(fitting)
         IN  <<Codes * major + Info(width)>> \o Digits(value, width)

\* lexCompare(a, b) < 0.
LexLess(a, b) ==
    LET differing == {i \in 1..Min({Len(a), Len(b)}) : a[i] # b[i]}
    IN  IF differing = {} THEN Len(a) < Len(b) ELSE a[Min(differing)] < b[Min(differing)]

\* The order of map keys: the shorter encoding first, then bytewise.
KeyLess(a, b) == Len(a) < Len(b) \/ (Len(a) = Len(b) /\ LexLess(a, b))

\* The values inside a value; of a map, each key and its item in turn.
Children(value) ==
    CASE value[1] = "array" -> value[2]
      [] value[1] = "map" -> FlattenSeq(value[2])
      [] value[1] = "tag" -> <<value[3]>>
      [] OTHER -> <<>>

\* The entries of a map, as written, in the order of their keys.
SortedEntries(parts) ==
    SortSeq([i \in 1..Len(parts) \div 2 |-> <<parts[2 * i - 1], parts[2 * i]>>],
            LAMBDA a, b : KeyLess(a[1], b[1]))

WriteMap(entries) ==
    IF \E i \in 2..Len(entries) : entries[i - 1][1] = entries[i][1] THEN Failed
    ELSE HeadOf(5, Len(entries)) \o FlattenSeq(FlattenSeq(entries))

\* What is written for a value, given what was written for those inside it.
WriteWith(kind, body, parts) ==
    IF Failed \in ToSet(parts) THEN Failed
    ELSE CASE kind = "int" ->
                IF body > MAX_SAFE \/ body < -MAX_SAFE THEN Failed
                ELSE IF body >= 0 THEN HeadOf(0, body) ELSE HeadOf(1, -1 - body)
           [] kind = "bytes" -> HeadOf(2, Len(body)) \o body
           [] kind = "text" -> HeadOf(3, Len(TextEncode(body))) \o TextEncode(body)
           [] kind = "array" -> HeadOf(4, Len(body)) \o FlattenSeq(parts)
           [] kind = "map" -> WriteMap(SortedEntries(parts))
           [] kind = "tag" -> HeadOf(6, body) \o FlattenSeq(parts)
           [] kind = "simple" -> <<Codes * 7 + body>>

RECURSIVE Write(_, _)
Write(value, depth) ==
    IF depth > MAX_DEPTH THEN Failed
    ELSE WriteWith(value[1], value[2],
                   [i \in DOMAIN Children(value) |-> Write(Children(value)[i], depth + 1)])

CborEncode(value) == Write(value, 0)

-----------------------------------------------------------------------------
(***************************************************************************)
(* Reading.  A read item is its value and the offset behind it.            *)
(***************************************************************************)
Item(value, next) == [value |-> value, next |-> next]

\* The bytes after offset, as take() returns them; count of them are there.
Take(bytes, offset, count) == SubSeq(bytes, offset + 1, offset + count)

\* The argument of an initial byte: Failed if bytes are missing or it is too
\* large, or if the additional information is not known.
Argument(bytes, offset, info) ==
    LET width == CHOOSE w \in Widths : Info(w) = info
        digits == Take(bytes, offset, width)
        value == FoldLeft(LAMBDA n, d : IF n > (MAX_SAFE - d) \div Base THEN MAX_SAFE + 1 ELSE Base * n + d,
                          0, digits)
    IN  IF info < Immediate THEN Item(info, offset)
        ELSE IF info > Info(8) THEN Failed
        ELSE IF width > Len(bytes) - offset \/ value > MAX_SAFE THEN Failed
        ELSE Item(value, offset + width)

\* Map.set: numbers, texts and simple values are the same key when equal; other
\* keys are objects, each its own.
MapSet(entries, key, item) ==
    LET same == {i \in DOMAIN entries : key[1] \in {"int", "text", "simple"} /\ entries[i][1] = key}
    IN  IF same = {} THEN Append(entries, <<key, item>>)
        ELSE [entries EXCEPT ![Min(same)][2] = item]

\* The entries that keys and items read in turn make.
ReadEntries(values) ==
    FoldLeft(LAMBDA map, i : MapSet(map, values[2 * i - 1], values[2 * i]),
             <<>>, [i \in 1..Len(values) \div 2 |-> i])

ReadString(major, string, next) ==
    IF major = 2 THEN Item(<<"bytes", string>>, next)
    ELSE IF TextDecode(string) = Failed THEN Failed ELSE Item(<<"text", TextDecode(string)>>, next)

\* One more item is read behind the others.
Joined(items, item) ==
    IF item = Failed THEN Failed ELSE Item(Append(items.value, item.value), item.next)

ReadContainer(major, length, inside) ==
    IF inside = Failed THEN Failed
    ELSE Item(CASE major = 4 -> <<"array", inside.value>>
                [] major = 5 -> <<"map", ReadEntries(inside.value)>>
                [] major = 6 -> <<"tag", length, inside.value[1]>>,
              inside.next)

RECURSIVE ReadItem(_, _, _)
\* So many items, one after the other.
ReadItems(bytes, start, count, depth) ==
    FoldLeft(LAMBDA items, i : IF items = Failed THEN Failed
                               ELSE Joined(items, ReadItem(bytes, items.next, depth)),
             Item(<<>>, start), [i \in 1..count |-> i])

\* How many items a container holds; the argument of a tag is not a length.
ItemCount(major, length) ==
    CASE major = 4 -> length [] major = 5 -> 2 * length [] major = 6 -> 1

\* What follows the head.
ReadContent(bytes, major, length, start, depth) ==
    CASE major = 0 -> Item(<<"int", length>>, start)
      [] major = 1 -> Item(<<"int", -1 - length>>, start)
      [] major \in {2, 3} ->
            IF length > Len(bytes) - start THEN Failed
            ELSE ReadString(major, Take(bytes, start, length), start + length)
      [] major \in {4, 5, 6} ->
            IF major # 6 /\ length > Len(bytes) - start THEN Failed
            ELSE ReadContainer(major, length,
                               ReadItems(bytes, start, ItemCount(major, length), depth + 1))

ReadAfter(bytes, initial, argument, offset, depth) ==
    CASE initial \div Codes = 7 ->
            IF initial % Codes \in Simple THEN Item(<<"simple", initial % Codes>>, offset) ELSE Failed
      [] initial \div Codes # 7 ->
            IF argument = Failed THEN Failed
            ELSE ReadContent(bytes, initial \div Codes, argument.value, argument.next, depth)

ReadItem(bytes, offset, depth) ==
    IF depth > MAX_DEPTH \/ offset >= Len(bytes) THEN Failed
    ELSE ReadAfter(bytes, bytes[offset + 1], Argument(bytes, offset + 1, bytes[offset + 1] % Codes),
                   offset + 1, depth)

\* The whole input is one item.
WholeValue(item, length) ==
    IF item = Failed THEN Failed ELSE IF item.next # length THEN Failed ELSE item.value

CborDecode(bytes) == WholeValue(ReadItem(bytes, 0, 0), Len(bytes))

-----------------------------------------------------------------------------
(***************************************************************************)
(* COSE_Sign1.                                                             *)
(***************************************************************************)
Bytes(content) == <<"bytes", content>>
Signature1 == <<"text", <<1>>>>
Sign1Tag == 18

ToBeSigned(protectedBstr, payload) ==
    CborEncode(<<"array", <<Signature1, Bytes(protectedBstr), Bytes(<<>>), Bytes(payload)>>>>)

\* options.sign: a signature stands for the bytes that it signs.
Sign(toBeSigned) == toBeSigned

Sign1Message(protectedBstr, payload) ==
    CborEncode(<<"tag", Sign1Tag,
                 <<"array", <<Bytes(protectedBstr), <<"map", <<>>>>, Bytes(payload),
                              Bytes(Sign(ToBeSigned(protectedBstr, payload)))>>>>>>)

CoseSign1Encode(protectedHeader, payload) == Sign1Message(CborEncode(protectedHeader), payload)

\* The tag may be missing, but not be another.
Untagged(value) ==
    IF value = Failed THEN Failed
    ELSE IF value[1] # "tag" THEN value
    ELSE IF value[2] = Sign1Tag THEN value[3] ELSE Failed

Sign1(parts, protectedHeader) ==
    IF protectedHeader = Failed THEN Failed
    ELSE IF protectedHeader[1] # "map" THEN Failed
    ELSE [protectedHeader |-> protectedHeader, unprotectedHeader |-> parts[2], payload |-> parts[3][2],
          signature |-> parts[4][2], toBeSigned |-> ToBeSigned(parts[1][2], parts[3][2])]

Sign1Of(message) ==
    IF message = Failed THEN Failed
    ELSE IF message[1] # "array" THEN Failed
    ELSE IF [i \in DOMAIN message[2] |-> message[2][i][1]] # <<"bytes", "map", "bytes", "bytes">> THEN Failed
    ELSE Sign1(message[2], CborDecode(message[2][1][2]))

CoseSign1Decode(bytes) == Sign1Of(Untagged(CborDecode(bytes)))

=============================================================================
