----------------------------- MODULE ProtoKinds -----------------------------
(***************************************************************************)
(* The kinds of fields of the Injective adapter's messages (adapters/      *)
(* injective/types, the .pb.go files). A message type is the sequence of   *)
(* its fields' kinds: field numbers run from 1 without gaps in every       *)
(* message of these files. A message is the sequence of its fields'        *)
(* values, and a pointer a sequence of at most one. Bytes are numbers.     *)
(***************************************************************************)
EXTENDS Integers, Sequences, SequencesExt

(* A kind says how a field is written, when it is left out, and what it is *)
(* when it is not set.                                                     *)
Number == [kind |-> "number", unset |-> 0]      \* uint32, uint64, int64: left out at zero
Bool == [kind |-> "bool", unset |-> FALSE]      \* left out when false
Bytes == [kind |-> "bytes", unset |-> <<>>]     \* and strings: left out when empty
Custom == [kind |-> "custom", unset |-> <<>>]   \* Dec, Int: their digits, never left out
OptionalCustom == [kind |-> "customPtr", unset |-> <<>>]     \* left out when nil
Packed == [kind |-> "packed", unset |-> <<>>]   \* repeated numbers

UnsetAll(fields) == [n \in DOMAIN fields |-> fields[n].unset]

Embedded(fields) == [kind |-> "embedded", fields |-> fields, unset |-> UnsetAll(fields)]
Optional(fields) == [kind |-> "pointer", fields |-> fields, unset |-> <<>>]
Each(type) == [kind |-> "each", of |-> type, unset |-> <<>>]

\* Kinds whose values hold messages, and the fields of those.
HoldsMessages(type) ==
  \/ type.kind \in {"embedded", "pointer"}
  \/ type.kind = "each" /\ type.of.kind = "embedded"
Inside(type) == IF type.kind = "each" THEN type.of.fields ELSE type.fields

IsNumber(type) == type.kind \in {"number", "bool", "packed"}
IsOneNumber(type) == type.kind \in {"number", "bool"}
=============================================================================
