----------------------------- MODULE FeedChain -----------------------------
(***************************************************************************)
(* The chain as those who read a feed see it: committed blocks, the events *)
(* of their messages, and what the aggregator answers to queries of its    *)
(* latest configuration and transmission.                                  *)
(*                                                                         *)
(* A block is a sequence of transactions, a transaction a sequence of      *)
(* messages, of this feed or of other contracts. A transaction that fails  *)
(* has one message here, and no events.                                    *)
(***************************************************************************)
EXTENDS Naturals, Sequences, SequencesExt

CONSTANTS
  Starts,            \* blocks the chain may begin with
  Blocks,            \* blocks that may be committed
  MaxHeight          \* bound: number of blocks

VARIABLES
  blocks,            \* the committed blocks, with the events of their messages
  feed               \* what the aggregator answers

chain == <<blocks, feed>>

\* accept_proposal, transmit and another call of this feed, and a call that
\* failed; a configuration of another feed, and a call of another contract.
Own == {"config", "transmit", "call"}
Messages == Own \cup {"failed", "otherConfig", "otherCall"}

ASSUME ChainAssumption ==
  /\ \A block \in Starts \cup Blocks : block \in Seq(Seq(Messages))
  /\ MaxHeight \in Nat \ {0}

\* Digests are the numbers of the configurations, an answer is the id of its
\* round; 0 is a digest or an answer there is not.
Unconfigured == [digest |-> 0, block |-> 0, epoch |-> 0, round |-> 0, answer |-> 0]
Foreign == 100       \* the digest of another feed's configuration

Height == Len(blocks)

\* accept_proposal resets epoch and round and keeps the transmissions.
Execute(state, message, height) ==
  CASE message = "config" ->
         [state EXCEPT !.digest = @ + 1, !.block = height, !.epoch = 0, !.round = 0]
    [] message = "transmit" ->
         [state EXCEPT !.epoch = @ + 1, !.round = 1, !.answer = @ + 1]
    [] OTHER -> state

ExecuteAll(state, messages, height) ==
  FoldLeft(LAMBDA s, m : Execute(s, m, height), state, messages)

\* Messages of a block up to message m of transaction i.
UpTo(block, i, m) == FlattenSeq(SubSeq(block, 1, i - 1)) \o SubSeq(block[i], 1, m)

\* The event of each message: its kind, and the state whose values it carries.
Record(state, block, height) ==
  [i \in DOMAIN block |-> [m \in DOMAIN block[i] |->
     [kind |-> block[i][m],
      state |-> IF block[i][m] = "otherConfig" THEN [Unconfigured EXCEPT !.digest = Foreign]
                ELSE ExecuteAll(state, UpTo(block, i, m), height)]]]

ChainInit ==
  \E block \in Starts :
    /\ blocks = <<Record(Unconfigured, block, 1)>>
    /\ feed = ExecuteAll(Unconfigured, FlattenSeq(block), 1)

\* Nobody can transmit to a feed that is not configured.
Commit(block) ==
  /\ Height < MaxHeight                      \* bound
  /\ feed.digest = 0 => ~Contains(FlattenSeq(block), "transmit")
  /\ blocks' = Append(blocks, Record(feed, block, Height + 1))
  /\ feed' = ExecuteAll(feed, FlattenSeq(block), Height + 1)

\* Transactions with an event of this feed, as queries by contract find them.
IsOurs(tx) == \E m \in DOMAIN tx : tx[m].kind \in Own
=============================================================================
