---------------------------- MODULE InjectiveWire ----------------------------
(***************************************************************************)
(* A message of the Injective OCR module on the wire: one side writes it,  *)
(* what arrives may be that, the same cut short, the same with fields of a *)
(* newer version of the message, or two messages one after the other.      *)
(***************************************************************************)
EXTENDS InjectiveMessages

CONSTANT Messages    \* what may be written: [fields, value]

VARIABLE wire        \* what was written and what arrived

\* Messages are of their types, and no longer than the length of one can say.
ASSUME WireAssumption ==
  \A msg \in Messages :
    /\ Four!IsMessage(msg.fields, msg.value)
    /\ Len(Marshal(msg.fields, msg.value)) <= MaxNumber
-----------------------------------------------------------------------------
\* Fields no message has: one of each wire type, and a group with a group.
Unknown ==
  {Tag(15, 0) \o <<128, 1>>,
   Tag(15, 1) \o <<1, 2, 3, 4, 5, 6, 7, 8>>,
   Chunk(20, <<8, 1>>),
   Tag(15, 5) \o <<255, 255, 255, 255>>,
   Tag(15, 3) \o Tag(1, 3) \o Chunk(2, <<7>>) \o Tag(1, 4)
     \o Tag(15, 4)}

\* What no decoder may take: no field 0, no end without a group, no varint of
\* more than ten bytes, no wire types 6 and 7, and no group without an end.
Malformed ==
  {Tag(0, 0) \o <<1>>, Tag(15, 4),
   [i \in 1 .. 11 |-> IF i < 11 THEN 255 ELSE 1],
   Tag(15, 6), Tag(15, 7), Tag(15, 3) \o Tag(15, 0) \o <<1>>}

WireInit == wire = [at |-> "none"]

Send ==
  /\ wire.at = "none"
  /\ \E msg \in Messages :
       wire' = [at |-> "sent", fields |-> msg.fields, value |-> msg.value,
                bytes |-> Marshal(msg.fields, msg.value)]

Sent == wire.at = "sent"

Cut ==
  /\ Sent
  /\ \E n \in 0 .. Len(wire.bytes) - 1 :
       wire' = [wire EXCEPT !.at = "cut", !.bytes = SubSeq(@, 1, n)]

Newer ==
  /\ Sent
  /\ \E field \in Unknown :
       \E bytes \in {field \o wire.bytes, wire.bytes \o field} :
         wire' = [wire EXCEPT !.at = "newer", !.bytes = bytes]

Broken ==
  /\ Sent
  /\ \E field \in Malformed :
       wire' = [wire EXCEPT !.at = "broken", !.bytes = @ \o field]

\* Another message follows.
Twice ==
  /\ Sent
  /\ \E msg \in Messages :
       /\ msg.fields = wire.fields
       /\ wire' = [at |-> "twice", fields |-> wire.fields, value |-> wire.value,
                   second |-> msg.value,
                   bytes |-> wire.bytes \o Marshal(msg.fields, msg.value)]

WireNext == Send \/ Cut \/ Newer \/ Broken \/ Twice

WireSpec == WireInit /\ [][WireNext]_wire
-----------------------------------------------------------------------------
(* Properties *)

Received == Unmarshal(wire.fields, wire.bytes)

\* Every message is read as it was written, and takes the bytes that Size
\* announces: the writer fills a buffer of that size from its end, and one
\* byte less would leave it no place for the first field.
RoundTrip ==
  Sent =>
    /\ Received = [ok |-> TRUE, value |-> wire.value]
    /\ Size(wire.fields, wire.value) = Len(wire.bytes)

\* Of a message cut short only whole leading fields are read, or nothing: no
\* part of a field is taken for a value. Malformed bytes are refused.
LeadingFieldsOnly ==
  wire.at \in {"cut", "broken"} =>
    \A got \in {Received} : got.ok =>
      /\ wire.at = "cut"
      /\ \A n \in DOMAIN wire.fields :
           \/ got.value[n] \in {wire.value[n], wire.fields[n].unset}
           \/ wire.fields[n].kind = "each" /\ IsPrefix(got.value[n], wire.value[n])

\* Fields of a newer version are passed over, wherever they are; of fields
\* that come twice the later counts, lists grow and messages are merged.
LaterFieldsCount ==
  wire.at \in {"newer", "twice"} =>
    Received = [ok |-> TRUE,
                value |-> IF wire.at = "newer" THEN wire.value
                          ELSE Four!Combined(wire.fields, wire.value, wire.second)]
=============================================================================
