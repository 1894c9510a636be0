----------------------------- MODULE ProtoWire -----------------------------
(***************************************************************************)
(* Messages on the wire: the scheme of the generated code of the Injective *)
(* adapter's messages (adapters/injective/types, the .pb.go files), which  *)
(* repeats it per message. InjectiveMessages has what each message fills   *)
(* it with.                                                                *)
(*                                                                         *)
(* A message in a message is written, measured and read by the functions   *)
(* of its own type: they are parameters here. The code that reads does not *)
(* stop between bytes and tokens, but an error in either refuses the whole *)
(* message.                                                                *)
(*                                                                         *)
(* Left out: the parsing of the digits of Dec and Int.                     *)
(***************************************************************************)
EXTENDS ProtoTokens

CONSTANTS
  MarshalInner(_, _), SizeInner(_, _),   \* of fields and a message
  MergeInner(_, _, _)                    \* of fields, a message there was, and bytes
-----------------------------------------------------------------------------
(* Writing *)

\* What a field is written as, one after the other: numbers, contents, messages.
\* Fields that are not set are left out; elements of lists never are.
Elements(type, v) ==
  CASE type.kind = "number" -> IF v = 0 THEN <<>> ELSE <<v>>
    [] type.kind = "bool" -> IF v THEN <<1>> ELSE <<>>
    [] type.kind = "bytes" -> IF v = <<>> THEN <<>> ELSE <<v>>
    [] type.kind \in {"custom", "embedded"} -> <<v>>
    [] type.kind = "packed" ->
         IF v = <<>> THEN <<>> ELSE <<FlattenSeq([i \in DOMAIN v |-> Varint[v[i]]])>>
    [] OTHER -> v

Content(type, element) ==
  IF HoldsMessages(type) THEN MarshalInner(Inside(type), element) ELSE element

FieldTokens(n, type, v) ==
  [i \in DOMAIN Elements(type, v) |->
     Token(n, IF IsOneNumber(type) THEN 0 ELSE 2, Content(type, Elements(type, v)[i]))]

Tokens(fields, m) == FlattenSeq([n \in DOMAIN fields |-> FieldTokens(n, fields[n], m[n])])

\* The code fills a buffer of Size bytes from its end.
Marshal(fields, m) == TokensBytes(Tokens(fields, m))

\* Tags take one byte: no message has more than 15 fields.
SizeField(type, v) ==
  CASE type.kind = "number" -> IF v = 0 THEN 0 ELSE 1 + Sov[v]
    [] type.kind = "bool" -> IF v THEN 2 ELSE 0
    [] type.kind = "packed" ->
         IF v = <<>> THEN 0 ELSE SizeOfChunk(Total([i \in DOMAIN v |-> Sov[v[i]]]))
    [] OTHER ->
         LET elements == Elements(type, v) IN
         Total([i \in DOMAIN elements |->
           SizeOfChunk(IF HoldsMessages(type) THEN SizeInner(Inside(type), elements[i])
                       ELSE Len(elements[i]))])

Size(fields, m) == Total([n \in DOMAIN fields |-> SizeField(fields[n], m[n])])
-----------------------------------------------------------------------------
(* Reading a message from its tokens *)

Done(value) == [ok |-> TRUE, value |-> value]

\* A field of wire type 0: the last one counts.
FromNumber(type, v, number) ==
  CASE type.kind = "bool" -> Done(number # 0)
    [] type.kind = "packed" -> Done(Append(v, number))
    [] OTHER -> Done(number)

\* The message in a field that bytes are read into: of a list always a new one.
Before(type, v) ==
  CASE type.kind = "embedded" -> v
    [] type.kind = "pointer" /\ v # <<>> -> v[1]
    [] OTHER -> UnsetAll(Inside(type))

\* A field of wire type 2, with what its bytes are: lists grow, the last of
\* anything else counts.
With(type, v, content) ==
  CASE type.kind = "each" -> Append(v, content)
    [] type.kind = "packed" -> v \o content
    [] type.kind \in {"pointer", "customPtr"} -> <<content>>
    [] OTHER -> content

FromBytes(type, v, bytes) ==
  Then(CASE HoldsMessages(type) -> MergeInner(Inside(type), Before(type, v), bytes)
         [] type.kind = "packed" -> ReadNumbers(bytes)
         [] OTHER -> Done(bytes),
       LAMBDA content : Done(With(type, v, content.value)))

FromToken(type, v, token) ==
  CASE token.wireType = 0 /\ IsNumber(type) -> FromNumber(type, v, token.value)
    [] token.wireType = 2 /\ ~IsOneNumber(type) -> FromBytes(type, v, token.value)
    [] OTHER -> Refused

\* The message so far, and how many groups are open.
State(m, depth) == [ok |-> TRUE, value |-> m, depth |-> depth]

\* Mutant: an unknown field is an error.
RefuseUnknown(s, token) == Refused

SkipUnknown(s, token) == State(s.value, IF token.wireType = 3 THEN 1 ELSE 0)

\* skipOcr: groups, which nothing writes any more, are skipped up to their
\* end, with all that is in them.
SkipInGroup(s, token) ==
  State(s.value, CASE token.wireType = 3 -> s.depth + 1
                   [] token.wireType = 4 -> s.depth - 1
                   [] OTHER -> s.depth)

TakeField(fields, s, token) ==
  Then(FromToken(fields[token.n], s.value[token.n], token), LAMBDA field :
    State([s.value EXCEPT ![token.n] = field.value], 0))

Take(fields, s, token) ==
  IF s.depth > 0 THEN SkipInGroup(s, token)
  ELSE IF token.wireType = 4 \/ token.n = 0 THEN Refused
  ELSE IF token.n \in DOMAIN fields THEN TakeField(fields, s, token)
  ELSE SkipUnknown(s, token)

TakeAll(fields, m, tokens) ==
  LET after[k \in 0 .. Len(tokens)] ==
        IF k = 0 THEN State(m, 0)
        ELSE Then(after[k - 1], LAMBDA s : Take(fields, s, tokens[k]))
  IN  after[Len(tokens)]

\* Unmarshal, into a message that may have fields already.
Merge(fields, m, bytes) ==
  Then(ReadTokens(bytes), LAMBDA tokens :
    Then(TakeAll(fields, m, tokens.value), LAMBDA s :
      IF s.depth = 0 THEN Done(s.value) ELSE Refused))
=============================================================================
