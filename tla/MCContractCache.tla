-------------------------- MODULE MCContractCache --------------------------
(***************************************************************************)
(* Blocks for TLC: one message each; a configuration that is not in the    *)
(* first message of its transaction; two configurations in two             *)
(* transactions of a block; configurations of two feeds in one transaction. *)
(***************************************************************************)
EXTENDS ContractCache

Alone(message) == << <<message>> >>

\* Instantiated; configured.
AnyStart == {Alone("call"), Alone("config")}

SingleFeedBlocks ==
  {Alone("config"), Alone("transmit"), << <<"call", "config">> >>,
   << <<"config">>, <<"config">> >>}

\* What the proof of ConfigServedIsRecent asks of blocks.
ASSUME FindableAssumption == \A block \in AnyStart \cup SingleFeedBlocks : Findable(block)

TwoFeedBlocks == {Alone("config"), << <<"otherConfig", "config">> >>}
=============================================================================
