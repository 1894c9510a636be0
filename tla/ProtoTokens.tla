---------------------------- MODULE ProtoTokens ----------------------------
(***************************************************************************)
(* Between a message and its bytes are the fields as they are on the wire, *)
(* here called tokens: how the generated code of the Injective adapter's   *)
(* messages writes and reads them (adapters/injective/types, the .pb.go    *)
(* files). The generated functions repeat this for every message.          *)
(*                                                                         *)
(* Left out: numbers of 2^31 and more, negative ones among them.           *)
(***************************************************************************)
EXTENDS ProtoKinds

MaxNumber == 2147483647
-----------------------------------------------------------------------------
(* Writing *)

Varint[n \in Nat] ==
  IF n < 128 THEN <<n>> ELSE <<128 + (n % 128)>> \o Varint[n \div 128]

\* How many bytes that takes: one for each seven bits.
Sov[n \in Nat] == IF n < 128 THEN 1 ELSE 1 + Sov[n \div 128]

Tag(n, wireType) == Varint[8 * n + wireType]

Chunk(n, bytes) == Tag(n, 2) \o Varint[Len(bytes)] \o bytes

Token(n, wireType, value) == [n |-> n, wireType |-> wireType, value |-> value]

TokenBytes(token) ==
  IF token.wireType = 0 THEN Tag(token.n, 0) \o Varint[token.value]
  ELSE Chunk(token.n, token.value)

TokensBytes(tokens) == FlattenSeq([k \in DOMAIN tokens |-> TokenBytes(tokens[k])])

Total(sizes) ==
  LET upTo[i \in 0 .. Len(sizes)] == IF i = 0 THEN 0 ELSE upTo[i - 1] + sizes[i]
  IN  upTo[Len(sizes)]

\* Mutant: the length prefix is taken to be one byte.
SizeOfShortChunk(size) == 2 + size

SizeOfChunk(size) == 1 + Sov[size] + size
-----------------------------------------------------------------------------
(* Reading tokens. What is left of the input comes with every result. *)

Refused == [ok |-> FALSE]
Read(value, rest) == [ok |-> TRUE, value |-> value, rest |-> rest]
Drop(bytes, n) == SubSeq(bytes, n + 1, Len(bytes))

\* The code returns an error at once when a step of it fails.
Then(result, F(_)) == IF result.ok THEN F(result) ELSE Refused

ReadUpTo(bytes, n) ==
  LET value[i \in 0 .. n] ==       \* of the last i bytes
        IF i = 0 THEN 0 ELSE (bytes[n + 1 - i] % 128) + 128 * value[i - 1]
  IN  Read(value[n], Drop(bytes, n))

\* A varint ends at its first byte below 128, the tenth at the latest.
ReadVarint(bytes) ==
  LET ends == {i \in DOMAIN bytes : i <= 10 /\ bytes[i] < 128}
  IN  IF ends = {} THEN Refused ELSE ReadUpTo(bytes, Min(ends))

\* Mutant: a length beyond the end takes what there is.
ReadWhatIsThere(bytes) ==
  Then(ReadVarint(bytes), LAMBDA length :
    Read(SubSeq(length.rest, 1, Min({length.value, Len(length.rest)})),
         Drop(length.rest, Min({length.value, Len(length.rest)}))))

ReadChunk(bytes) ==
  Then(ReadVarint(bytes), LAMBDA length :
    IF length.value > Len(length.rest) THEN Refused
    ELSE Read(SubSeq(length.rest, 1, length.value), Drop(length.rest, length.value)))

Fixed(bytes, n) == IF Len(bytes) < n THEN Refused ELSE Read(0, Drop(bytes, n))

\* What comes after a tag; nothing after the tags of groups.
ReadBody(wireType, bytes) ==
  CASE wireType = 0 -> ReadVarint(bytes)
    [] wireType = 1 -> Fixed(bytes, 8)
    [] wireType = 2 -> ReadChunk(bytes)
    [] wireType \in {3, 4} -> Read(0, bytes)
    [] wireType = 5 -> Fixed(bytes, 4)
    [] OTHER -> Refused

ReadToken(bytes) ==
  Then(ReadVarint(bytes), LAMBDA tag :
    Then(ReadBody(tag.value % 8, tag.rest), LAMBDA body :
      Read(Token(tag.value \div 8, tag.value % 8, body.value), body.rest)))

\* The loops over all bytes; `of' is for the last i bytes.
ReadAll(bytes, ReadOne(_)) ==
  LET of[i \in 0 .. Len(bytes)] ==
        IF i = 0 THEN Read(<<>>, <<>>)
        ELSE Then(ReadOne(Drop(bytes, Len(bytes) - i)), LAMBDA first :
               Then(of[Len(first.rest)], LAMBDA others :
                 Read(<<first.value>> \o others.value, <<>>)))
  IN  of[Len(bytes)]

ReadTokens(bytes) == ReadAll(bytes, ReadToken)

\* All numbers of a packed field.
ReadNumbers(bytes) == ReadAll(bytes, ReadVarint)
=============================================================================
