---------------------------- MODULE ProtoValues ----------------------------
(***************************************************************************)
(* What the wire format is for: the messages that a type allows, and what  *)
(* two of them amount to when one follows the other. As in ProtoWire, what *)
(* is said of a message in a message is a parameter.                       *)
(***************************************************************************)
EXTENDS ProtoWire

CONSTANTS
  ValueInner(_, _),      \* of fields and a message
  JoinInner(_, _, _)     \* of fields and two messages

IsBytes(v) == v \in Seq(0 .. 255)
IsSequence(v) == Len(v) \in Nat /\ v = [i \in 1 .. Len(v) |-> v[i]]

IsType(type) ==
  \/ type \in {Number, Bool, Bytes, Custom, OptionalCustom, Packed, Each(Bytes), Each(Custom)}
  \/ \E fields \in {Inside(type)} :
       type \in {Embedded(fields), Optional(fields), Each(Embedded(fields))}

\* Tags take one byte.
IsMessageType(fields) ==
  IsSequence(fields) /\ Len(fields) < 15 /\ \A n \in DOMAIN fields : IsType(fields[n])

\* Dec and Int are never nil where they are written.
IsValue(type, v) ==
  CASE type.kind = "number" -> v \in 0 .. MaxNumber
    [] type.kind = "bool" -> v \in BOOLEAN
    [] type.kind = "bytes" -> IsBytes(v)
    [] type.kind = "custom" -> IsBytes(v) /\ v # <<>>
    [] type.kind = "customPtr" -> v \in Seq(Seq(0 .. 255)) /\ Len(v) <= 1
    [] type.kind = "packed" -> v \in Seq(0 .. MaxNumber)
    [] OTHER ->
         /\ IsSequence(Elements(type, v))
         /\ type.kind = "pointer" => Len(v) <= 1
         /\ \A i \in DOMAIN Elements(type, v) :
              IF HoldsMessages(type) THEN ValueInner(Inside(type), Elements(type, v)[i])
              ELSE IsBytes(v[i])

IsMessage(fields, m) ==
  /\ IsMessageType(fields)
  /\ IsSequence(m) /\ Len(m) = Len(fields) /\ \A n \in DOMAIN fields : IsValue(fields[n], m[n])

\* Of fields that come twice the later counts, lists grow, messages are merged.
Joined(type, a, b) ==
  CASE type.kind \in {"each", "packed"} -> a \o b
    [] type.kind = "embedded" -> JoinInner(type.fields, a, b)
    [] type.kind = "pointer" ->
         IF b = <<>> THEN a ELSE <<JoinInner(type.fields, Before(type, a), b[1])>>
    [] OTHER -> IF b = type.unset THEN a ELSE b

Combined(fields, a, b) == [n \in DOMAIN fields |-> Joined(fields[n], a[n], b[n])]
=============================================================================
