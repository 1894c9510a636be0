---------------------------- MODULE MCMonitoring ----------------------------
(* Blocks for TLC. *)
EXTENDS Monitoring

Alone(message) == << <<message>> >>

AnyStart == {Alone("call"), Alone("config")}

\* Two configurations in one block; a transmission that is not the first
\* message of its transaction; a configuration behind that of another feed; a
\* call that failed.
SomeBlocks ==
  {Alone("config"), Alone("transmit"), Alone("failed"),
   << <<"config">>, <<"config">> >>,
   << <<"call", "transmit">> >>,
   << <<"otherConfig", "config">> >>}

ASSUME LastConfigFirstAssumption == \A block \in AnyStart \cup SomeBlocks : LastConfigFirst(block)
=============================================================================
