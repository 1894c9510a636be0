---------------------------- MODULE ProtoNested ----------------------------
(***************************************************************************)
(* Messages in messages. They are four deep at most                        *)
(* (QueryModuleStateResponse, GenesisState, FeedConfig, ModuleParams): the *)
(* functions of one depth call those of the next.                          *)
(***************************************************************************)
EXTENDS ProtoTokens

\* The innermost messages have none in them.
NoBytes(fields, m) == <<>>
NoSize(fields, m) == 0
NoResult(fields, m, bytes) == [ok |-> FALSE]
NoValue(fields, m) == FALSE
NeitherOf(fields, a, b) == <<>>

One == INSTANCE ProtoValues WITH
  MarshalInner <- NoBytes, SizeInner <- NoSize, MergeInner <- NoResult,
  ValueInner <- NoValue, JoinInner <- NeitherOf

Two == INSTANCE ProtoValues WITH
  MarshalInner <- One!Marshal, SizeInner <- One!Size, MergeInner <- One!Merge,
  ValueInner <- One!IsMessage, JoinInner <- One!Combined

Three == INSTANCE ProtoValues WITH
  MarshalInner <- Two!Marshal, SizeInner <- Two!Size, MergeInner <- Two!Merge,
  ValueInner <- Two!IsMessage, JoinInner <- Two!Combined

Four == INSTANCE ProtoValues WITH
  MarshalInner <- Three!Marshal, SizeInner <- Three!Size, MergeInner <- Three!Merge,
  ValueInner <- Three!IsMessage, JoinInner <- Three!Combined

Marshal(fields, m) == Four!Marshal(fields, m)
Size(fields, m) == Four!Size(fields, m)
Unmarshal(fields, bytes) == Four!Merge(fields, UnsetAll(fields), bytes)
=============================================================================
