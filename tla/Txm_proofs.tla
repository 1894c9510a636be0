----------------------------- MODULE Txm_proofs -----------------------------
(***************************************************************************)
(* Proofs about Txm, for all values of its constants.                      *)
(***************************************************************************)
EXTENDS Txm, FiniteFolds, TLAPS

USE DEF table, locals, network, history
-----------------------------------------------------------------------------
(* Type correctness *)

\* None is no transaction, account or contract.
LEMMA NoneNotTx == None \notin Tx /\ None \notin Senders /\ None \notin Contracts
  BY NoneAssumption

\* An update of rows keeps the column's type.
LEMMA UpdatedType ==
  ASSUME TypeOK, NEW S, NEW to \in State
  PROVE  Updated(S, to) \in [Ids -> State]
  BY DEF Updated, TypeOK

\* The callers of Enqueue keep the types.
LEMMA EnqueueType ==
  ASSUME TypeOK, NEW c \in Callers, Enqueue(c)
  PROVE  TypeOK'
  <1> USE DEF TypeOK, Calling, CallState
  <1>1. ASSUME NEW k \in Contracts, EnqueueCancel(c, k)  PROVE TypeOK'
    <2>1. state' \in [Ids -> State]
      BY <1>1, UpdatedType DEF EnqueueCancel, UpdateMsgs, State
    <2>2. cancelled' \subseteq Ids
      BY <1>1 DEF EnqueueCancel, Superseded, InState
    <2>3. call' \in [Callers -> CallState]
      BY <1>1 DEF EnqueueCancel
    <2>4. QED  BY <1>1, <2>1, <2>2, <2>3 DEF EnqueueCancel
  <1>2. ASSUME NEW s \in Senders, EnqueueInsert(c, s)  PROVE TypeOK'
    <2>1. n + 1 \in Ids /\ n' \in 0 .. MaxMsgs
      BY <1>2, BoundsAssumption DEF EnqueueInsert, Ids
    <2>2. state' \in [Ids -> State] /\ sender' \in [Ids -> Senders \cup {None}]
      BY <1>2, <2>1 DEF EnqueueInsert, State
    <2>3. contract' \in [Ids -> Contracts \cup {None}]
      BY <1>2, <2>1 DEF EnqueueInsert
    <2>4. call' \in [Callers -> CallState]
      BY <1>2 DEF EnqueueInsert
    <2>5. QED  BY <1>2, <2>1, <2>2, <2>3, <2>4 DEF EnqueueInsert
  <1>3. ASSUME EnqueueFails(c)  PROVE TypeOK'
    BY <1>3 DEF EnqueueFails, Fault
  <1>4. ASSUME EnqueueTrigger(c)  PROVE TypeOK'
    <2>1. newMsgs' \in 0 .. 1
      BY <1>4 DEF EnqueueTrigger
    <2>2. QED  BY <1>4, <2>1 DEF EnqueueTrigger
  <1>5. QED  BY <1>1, <1>2, <1>3, <1>4 DEF Enqueue

\* Picking a batch and recovering keep the types.
LEMMA BatchType ==
  ASSUME TypeOK,
         \/ Start \/ Recover \/ RecoverFails \/ Regroup
         \/ ReadBatch \/ CommitBatch \/ RollbackBatch
         \/ GasPrice \/ GasPriceFails \/ BatchDone
  PROVE  TypeOK'
  <1> USE DEF TypeOK, PC
  <1>1. CASE Start  BY <1>1 DEF Start
  <1>2. CASE Recover  BY <1>2 DEF Recover, Oldest, InState
  <1>3. CASE RecoverFails  BY <1>3 DEF RecoverFails, Fault
  <1>4. CASE Regroup
    <2>1. CASE batch = {} /\ pc' = "recover" /\ UNCHANGED <<batch, tx, ids>>
      BY <1>4, <2>1 DEF Regroup
    <2>2. ASSUME NEW m \in batch, tx' = hash[m],
                 ids' = {x \in batch : hash[x] = hash[m]},
                 batch' = batch \ {x \in batch : hash[x] = hash[m]}, pc' = "repoll"
          PROVE  TypeOK'
      BY <1>4, <2>2 DEF Regroup
    <2>3. QED  BY <1>4, <2>1, <2>2 DEF Regroup
  <1>5. CASE ReadBatch
    <2>1. newMsgs' \in 0 .. 1
      BY <1>5 DEF ReadBatch, Wakes
    <2>2. fresh' \subseteq Ids /\ batch' \subseteq Ids /\ expired' \subseteq Ids
      BY <1>5 DEF ReadBatch, Oldest, InState
    <2>3. QED  BY <1>5, <2>1, <2>2 DEF ReadBatch
  <1>6. CASE CommitBatch
    <2>1. state' \in [Ids -> State]
      BY <1>6 DEF CommitBatch, State
    <2>2. QED  BY <1>6, <2>1 DEF CommitBatch
  <1>7. CASE RollbackBatch  BY <1>7 DEF RollbackBatch, UpdateFails, Fault
  <1>8. CASE GasPrice  BY <1>8 DEF GasPrice
  <1>9. CASE GasPriceFails  BY <1>9 DEF GasPriceFails, Fault
  <1>10. CASE BatchDone  BY <1>10 DEF BatchDone
  <1>11. QED
    BY <1>1, <1>2, <1>3, <1>4, <1>5, <1>6, <1>7, <1>8, <1>9, <1>10

\* Sending a batch keeps the types.
LEMMA SendType ==
  ASSUME TypeOK,
         \/ \E s \in Senders : NextSender(s) \/ SkipSender(s)
         \/ \E failed \in SUBSET (IF tx = None THEN {} ELSE tx.msgs) : Simulate(failed)
         \/ CombinedSimulationFails \/ SendFails \/ Sign
         \/ Broadcast \/ BroadcastLost \/ BroadcastRejected
         \/ CommitBroadcast \/ CommitBroadcastFails,
         pc \in {"simulate", "sign", "broadcast", "commit"} => tx # None
  PROVE  TypeOK'
  <1> USE DEF TypeOK, PC, Abandon
  <1>0. pc \in {"simulate", "sign", "broadcast", "commit"} => tx \in Tx
    OBVIOUS
  <1>1. ASSUME NEW s \in Senders, NextSender(s)  PROVE TypeOK'
    <2>1. tx' \in Tx
      BY <1>1 DEF NextSender, OfSender, Tx
    <2>2. QED  BY <1>1, <2>1 DEF NextSender
  <1>2. ASSUME NEW s \in Senders, SkipSender(s)  PROVE TypeOK'
    BY <1>2 DEF SkipSender, Fault
  <1>3. ASSUME NEW failed, Simulate(failed)  PROVE TypeOK'
    <2>1. state' \in [Ids -> State]
      BY <1>3, UpdatedType DEF Simulate, UpdateMsgs, State
    <2>2. tx' \in Tx \cup {None}
      BY <1>0, <1>3 DEF Simulate, Tx
    <2>3. pc' \in PC
      BY <1>3 DEF Simulate, NextAfter
    <2>4. QED  BY <1>3, <2>1, <2>2, <2>3 DEF Simulate
  <1>4. CASE CombinedSimulationFails  BY <1>4 DEF CombinedSimulationFails
  <1>5. CASE SendFails  BY <1>5 DEF SendFails, Fault
  <1>6. CASE Sign
    <2>1. tx' \in Tx
      BY <1>0, <1>6, BoundsAssumption DEF Sign, Tx
    <2>2. QED  BY <1>6, <2>1 DEF Sign
  <1>7. CASE Broadcast  BY <1>0, <1>7 DEF Broadcast
  <1>8. CASE BroadcastLost
    <2>1. tx.msgs \subseteq Ids
      BY <1>0, <1>8 DEF BroadcastLost, Tx
    <2>2. QED  BY <1>0, <1>8, <2>1 DEF BroadcastLost, Fault
  <1>9. CASE BroadcastRejected  BY <1>9 DEF BroadcastRejected
  <1>10. CASE CommitBroadcast
    <2>1. state' \in [Ids -> State]
      BY <1>10, UpdatedType DEF CommitBroadcast, UpdateMsgs, State
    <2>2. hash' \in [Ids -> Tx \cup {None}]
      BY <1>0, <1>10 DEF CommitBroadcast
    <2>3. ids' \subseteq Ids
      BY <1>0, <1>10 DEF CommitBroadcast, Tx
    <2>4. QED  BY <1>10, <2>1, <2>2, <2>3 DEF CommitBroadcast
  <1>11. CASE CommitBroadcastFails
    <2>1. tx.msgs \subseteq Ids
      BY <1>0, <1>11 DEF CommitBroadcastFails, Tx
    <2>2. QED  BY <1>11, <2>1 DEF CommitBroadcastFails, Fault
  <1>12. QED
    BY <1>1, <1>2, <1>3, <1>4, <1>5, <1>6, <1>7, <1>8, <1>9, <1>10, <1>11

\* Confirming, the process, the clock and the chain keep the types.
LEMMA ConfirmType ==
  ASSUME TypeOK, PollMiss \/ PollFound \/ PollsExhausted \/ ConfirmFails
  PROVE  TypeOK'
  <1> USE BoundsAssumption DEF TypeOK, PC, ConfirmReturns
  <1>1. CASE PollMiss  BY <1>1 DEF PollMiss
  <1>2. CASE PollFound
    <2>1. state' \in [Ids -> State]
      BY <1>2, UpdatedType DEF PollFound, UpdateMsgs, State
    <2>2. QED  BY <1>2, <2>1 DEF PollFound
  <1>3. CASE PollsExhausted
    <2>1. state' \in [Ids -> State]
      BY <1>3, UpdatedType DEF PollsExhausted, UpdateMsgs, State
    <2>2. QED  BY <1>3, <2>1 DEF PollsExhausted
  <1>4. CASE ConfirmFails
    <2>1. faults' \in Nat
      BY <1>4 DEF ConfirmFails, UpdateFails, Fault
    <2>2. QED  BY <1>4, <2>1 DEF ConfirmFails
  <1>5. QED  BY <1>1, <1>2, <1>3, <1>4

\* Crashes, the clock and blocks keep the types.
LEMMA OutsideType ==
  ASSUME TypeOK, Crash \/ TimePasses \/ NewBlock,
         pc \in {"simulate", "sign", "broadcast", "commit"} => tx # None
  PROVE  TypeOK'
  <1> USE BoundsAssumption DEF TypeOK, PC
  <1>1. CASE Crash
    <2>1. lost' \subseteq Ids
      BY <1>1 DEF Crash, Tx
    <2>2. call' \in [Callers -> CallState]
      BY <1>1 DEF Crash, CallState
    <2>3. QED  BY <1>1, <2>1, <2>2 DEF Crash, Fault
  <1>2. CASE TimePasses  BY <1>2 DEF TimePasses
  <1>3. CASE NewBlock
    <2>1. seq' \in [Senders -> Nat]
      BY <1>3 DEF NewBlock
    <2>2. chain' \subseteq Tx
      BY <1>3 DEF NewBlock, Includable
    <2>3. QED  BY <1>3, <2>1, <2>2 DEF NewBlock
  <1>4. QED  BY <1>1, <1>2, <1>3

-----------------------------------------------------------------------------
(* The inductive invariant *)

\* Rows beyond the last id do not exist.
RowsInv == \A m \in Ids : m > n => state[m] = "absent"

\* What the network was given has left the queue of Unstarted messages.
NetInv == \A t \in sent : \A m \in t.msgs : state[m] \notin {"absent", "unstarted"}

\* CancelledNeverSent needs NetInv and the worker's view (what is being sent
\* is Started); the view needs that no two accounts share a row.
IInv ==
  /\ TypeOK
  /\ RowsInv
  /\ NetInv
  /\ WorkerViewHolds
  /\ CancelledNeverSent
  /\ TableMatchesNetwork
  /\ ResentOnlyAfterLostAnswer

\* The invariant holds of an empty table and an idle process.
LEMMA InitIInv == Init => IInv
  <1> SUFFICES ASSUME Init PROVE IInv
    OBVIOUS
  <1>1. TypeOK
    BY BoundsAssumption DEF Init, TypeOK, State, PC, CallState
  <1>2. QED
    BY <1>1 DEF Init, IInv, RowsInv, NetInv, WorkerViewHolds, CancelledNeverSent,
                TableMatchesNetwork, ResentOnlyAfterLostAnswer

\* The messages of every transaction sent are ids.
LEMMA SentMsgs ==
  ASSUME TypeOK
  PROVE  /\ \A t \in sent : t \in Tx /\ t.msgs \subseteq Ids
         /\ tx # None => tx.msgs \subseteq Ids
  BY DEF TypeOK, Tx

\* A step that changes neither the table nor the network preserves the
\* invariant when the worker's view still holds after it.
LEMMA LocalStep ==
  ASSUME IInv, TypeOK', WorkerViewHolds',
         UNCHANGED <<n, state, hash, sent, cancelled, lost>>,
         pc # "commit"
  PROVE  IInv'
  BY DEF IInv, RowsInv, NetInv, CancelledNeverSent, TableMatchesNetwork,
         ResentOnlyAfterLostAnswer, InState

\* Callers keep the invariant: they touch rows that are absent or Unstarted,
\* and those are in no transaction and in no view of the worker.
LEMMA EnqueuePreserves ==
  ASSUME IInv, NEW c \in Callers, Enqueue(c)
  PROVE  IInv'
  <1> USE DEF RowsInv, NetInv, CancelledNeverSent, TableMatchesNetwork,
              ResentOnlyAfterLostAnswer, WorkerViewHolds, Calling
  <1>0. TypeOK' /\ TypeOK
    BY EnqueueType DEF IInv
  <1>1. ASSUME NEW k \in Contracts, EnqueueCancel(c, k)  PROVE IInv'
    <2>1. \A m \in Ids :
            /\ m \in Superseded(k) => state[m] = "unstarted" /\ state'[m] = "errored"
            /\ m \notin Superseded(k) => state'[m] = state[m]
      BY <1>1 DEF EnqueueCancel, UpdateMsgs, Updated, Superseded, InState
    <2>2. /\ UNCHANGED <<n, hash, pc, fresh, expired, batch, tx, ids, sent, lost>>
          /\ cancelled' = cancelled \cup Superseded(k)
          /\ Superseded(k) \subseteq Ids
      BY <1>1 DEF EnqueueCancel, Superseded, InState
    <2>3. RowsInv'  BY <2>1, <2>2 DEF IInv
    <2>4. NetInv'  BY <1>0, <2>1, <2>2, SentMsgs DEF IInv
    <2>5. WorkerViewHolds'  BY <1>0, <2>1, <2>2, SentMsgs DEF IInv, TypeOK
    <2>6. CancelledNeverSent'  BY <1>0, <2>1, <2>2, SentMsgs DEF IInv, TypeOK
    <2>7. TableMatchesNetwork'  BY <1>0, <2>1, <2>2, SentMsgs DEF IInv
    <2>8. ResentOnlyAfterLostAnswer'  BY <2>2 DEF IInv
    <2>9. QED  BY <1>0, <2>3, <2>4, <2>5, <2>6, <2>7, <2>8 DEF IInv
  <1>2. ASSUME NEW s \in Senders, EnqueueInsert(c, s)  PROVE IInv'
    <2>1. /\ n + 1 \in Ids /\ state[n + 1] = "absent" /\ state'[n + 1] = "unstarted"
          /\ \A m \in Ids : m # n + 1 => state'[m] = state[m]
          /\ n' = n + 1
      BY <1>0, <1>2, BoundsAssumption DEF EnqueueInsert, IInv, TypeOK, Ids
    <2>2. UNCHANGED <<hash, pc, fresh, expired, batch, tx, ids, sent, cancelled, lost>>
      BY <1>2 DEF EnqueueInsert
    <2>3. RowsInv'  BY <1>0, <2>1, <2>2 DEF IInv, TypeOK, Ids
    <2>4. NetInv'  BY <1>0, <2>1, <2>2, SentMsgs DEF IInv
    <2>5. WorkerViewHolds'  BY <1>0, <2>1, <2>2, SentMsgs DEF IInv, TypeOK
    <2>6. CancelledNeverSent'  BY <1>0, <2>1, <2>2 DEF IInv, TypeOK
    <2>7. TableMatchesNetwork'  BY <1>0, <2>1, <2>2, SentMsgs DEF IInv
    <2>8. ResentOnlyAfterLostAnswer'  BY <2>2 DEF IInv
    <2>9. QED  BY <1>0, <2>3, <2>4, <2>5, <2>6, <2>7, <2>8 DEF IInv
  <1>3. CASE EnqueueFails(c) \/ EnqueueTrigger(c)
    <2>1. UNCHANGED <<n, state, hash, pc, fresh, expired, batch, tx, ids, sent, cancelled, lost>>
      BY <1>3 DEF EnqueueFails, EnqueueTrigger
    <2>2. QED  BY <1>0, <2>1 DEF IInv, InState
  <1>4. QED  BY <1>1, <1>2, <1>3 DEF Enqueue

\* Picking a batch and recovering keep the invariant.
LEMMA BatchPreserves ==
  ASSUME IInv,
         \/ Start \/ Recover \/ RecoverFails \/ Regroup
         \/ ReadBatch \/ CommitBatch \/ RollbackBatch
         \/ GasPrice \/ GasPriceFails \/ BatchDone
  PROVE  IInv'
  <1> USE DEF WorkerViewHolds
  <1>0. TypeOK' /\ TypeOK
    BY BatchType DEF IInv
  <1>1. CASE Start \/ RecoverFails \/ GasPrice \/ GasPriceFails \/ BatchDone \/ RollbackBatch
    <2>1. UNCHANGED <<n, state, hash, sent, cancelled, lost>> /\ pc # "commit"
      BY <1>1 DEF Start, RecoverFails, GasPrice, GasPriceFails, BatchDone, RollbackBatch
    <2>2. WorkerViewHolds'
      BY <1>1 DEF Start, RecoverFails, GasPrice, GasPriceFails, BatchDone, RollbackBatch, IInv
    <2>3. QED  BY <1>0, <2>1, <2>2, LocalStep
  <1>2. CASE Recover
    <2>1. WorkerViewHolds'  BY <1>2 DEF Recover, Oldest, InState
    <2>2. QED  BY <1>0, <1>2, <2>1, LocalStep DEF Recover
  <1>3. CASE Regroup
    <2>1. CASE batch = {} /\ pc' = "recover" /\ UNCHANGED <<batch, tx, ids>>
      <3>1. WorkerViewHolds'  BY <2>1
      <3>2. QED  BY <1>0, <1>3, <3>1, LocalStep DEF Regroup
    <2>2. ASSUME NEW m \in batch, tx' = hash[m],
                 ids' = {x \in batch : hash[x] = hash[m]},
                 batch' = batch \ {x \in batch : hash[x] = hash[m]}, pc' = "repoll"
          PROVE  IInv'
      <3>1. /\ UNCHANGED <<n, state, hash, sent, cancelled, lost>> /\ pc = "regroup"
            /\ batch \subseteq Ids
            /\ \A x \in batch : state[x] = "broadcasted"
            /\ \A x \in batch : hash[x] \in sent /\ x \in hash[x].msgs
        BY <1>0, <1>3 DEF Regroup, IInv, TypeOK, TableMatchesNetwork
      <3>2. WorkerViewHolds'  BY <2>2, <3>1
      <3>3. QED  BY <1>0, <3>1, <3>2, LocalStep
    <2>3. QED  BY <1>3, <2>1, <2>2 DEF Regroup
  <1>4. CASE ReadBatch
    <2>1. WorkerViewHolds'
      <3>1. /\ pc' = "batching"
            /\ expired' \cap batch' = {} /\ fresh' \subseteq batch'
            /\ \A m \in batch' : m \in fresh' \/ state'[m] = "started"
        BY <1>4 DEF ReadBatch, Oldest, InState
      <3>2. QED  BY <3>1
    <2>2. QED  BY <1>0, <1>4, <2>1, LocalStep DEF ReadBatch
  <1>5. CASE CommitBatch
    <2>1. /\ \A m \in Ids :
               /\ m \in fresh => state[m] = "unstarted" /\ state'[m] = "started"
               /\ m \in expired =>
                    state[m] \in {"unstarted", "started", "broadcasted"} /\ state'[m] = "errored"
               /\ m \notin fresh \cup expired => state'[m] = state[m]
          /\ pc = "batching" /\ pc' \in {"idle", "gasprice"}
          /\ UNCHANGED <<n, hash, batch, tx, ids, sent, cancelled, lost>>
          /\ fresh \cap expired = {}
      BY <1>5 DEF CommitBatch, CanUpdate, DbAllows, IInv
    <2>2. RowsInv'  BY <2>1 DEF IInv, RowsInv
    <2>3. NetInv'  BY <1>0, <2>1, SentMsgs DEF IInv, NetInv
    <2>4. WorkerViewHolds'
      BY <1>0, <2>1 DEF IInv, TypeOK
    <2>5. CancelledNeverSent'  BY <1>0, <2>1 DEF IInv, TypeOK, CancelledNeverSent
    <2>6. TableMatchesNetwork'
      BY <1>0, <2>1, SentMsgs DEF IInv, TableMatchesNetwork, NetInv
    <2>7. ResentOnlyAfterLostAnswer'  BY <2>1 DEF IInv, ResentOnlyAfterLostAnswer
    <2>8. QED  BY <1>0, <2>2, <2>3, <2>4, <2>5, <2>6, <2>7 DEF IInv
  <1>6. QED  BY <1>1, <1>2, <1>3, <1>4, <1>5

\* What the worker's view says of the transaction in the making.
LEMMA TxInMaking ==
  ASSUME IInv, pc \in {"simulate", "sign", "broadcast", "commit"}
  PROVE  /\ tx \in Tx /\ tx.msgs \subseteq Ids
         /\ \A m \in tx.msgs : state[m] = "started" /\ m \notin batch
         /\ \A m \in batch : state[m] = "started"
         /\ pc = "commit" => tx \in sent
  BY DEF IInv, TypeOK, WorkerViewHolds, Tx

\* Broadcasting, whatever the answer: the new transaction holds Started
\* messages, and those already sent had their answer lost.
LEMMA BroadcastPreserves ==
  ASSUME IInv, TypeOK', pc = "broadcast",
         sent' = sent \cup {tx},
         \/ lost' = lost /\ pc' = "commit" /\ tx' = tx
         \/ lost' = lost \cup tx.msgs /\ pc' = "senders",
         UNCHANGED <<n, state, hash, batch, ids, cancelled>>
  PROVE  IInv'
  <1>1. /\ tx \in Tx /\ tx.msgs \subseteq Ids
        /\ \A m \in tx.msgs : state[m] = "started" /\ m \notin batch
        /\ \A m \in batch : state[m] = "started"
    BY TxInMaking
  <1>2. \A t \in sent : t.msgs \cap tx.msgs \subseteq lost
    BY <1>1 DEF IInv, TableMatchesNetwork
  <1>3. RowsInv'  BY DEF IInv, RowsInv
  <1>4. NetInv'  BY <1>1 DEF IInv, NetInv
  <1>5. WorkerViewHolds'
    <2>1. CASE pc' = "commit" /\ tx' = tx
      BY <1>1, <2>1, NoneNotTx DEF WorkerViewHolds
    <2>2. CASE pc' = "senders"
      BY <1>1, <2>2 DEF WorkerViewHolds
    <2>3. QED  BY <2>1, <2>2
  <1>6. CancelledNeverSent'  BY <1>1 DEF IInv, CancelledNeverSent
  <1>7. TableMatchesNetwork'
    <2>1. \A m \in Ids : \A t \in sent : m \in t.msgs /\ state[m] = "started" => m \in lost
      BY DEF IInv, TableMatchesNetwork
    <2>2. \A m \in Ids : state[m] \in {"broadcasted", "confirmed"} =>
                         hash[m] \in sent /\ m \in hash[m].msgs
      BY DEF IInv, TableMatchesNetwork
    <2>3. lost \subseteq lost'
      OBVIOUS
    <2>4. \A m \in Ids : m \in tx.msgs => m \in lost' \/ (pc' = "commit" /\ tx' = tx)
      OBVIOUS
    <2>5. QED  BY <2>1, <2>2, <2>3, <2>4 DEF TableMatchesNetwork
  <1>8. ResentOnlyAfterLostAnswer'
    BY <1>2 DEF IInv, ResentOnlyAfterLostAnswer
  <1>9. QED  BY <1>3, <1>4, <1>5, <1>6, <1>7, <1>8 DEF IInv

\* Simulating, broadcasting and recording the broadcast keep the invariant.
LEMMA SendPreserves ==
  ASSUME IInv,
         \/ \E s \in Senders : NextSender(s) \/ SkipSender(s)
         \/ \E failed \in SUBSET (IF tx = None THEN {} ELSE tx.msgs) : Simulate(failed)
         \/ CombinedSimulationFails \/ SendFails \/ Sign
         \/ Broadcast \/ BroadcastLost \/ BroadcastRejected
         \/ CommitBroadcast \/ CommitBroadcastFails
  PROVE  IInv'
  <1>0. TypeOK' /\ TypeOK
    BY SendType DEF IInv, WorkerViewHolds
  <1>1. ASSUME NEW s \in Senders, NextSender(s) \/ SkipSender(s)  PROVE IInv'
    <2>1. /\ \A m \in batch : state[m] = "started"
          /\ UNCHANGED <<n, state, hash, sent, cancelled, lost>>
          /\ pc = "senders" /\ batch' = batch \ OfSender(s)
      BY <1>1 DEF NextSender, SkipSender, WorkerViewHolds, IInv
    <2>2. CASE NextSender(s)
      <3>1. /\ tx' \in Tx /\ tx'.msgs = OfSender(s) /\ OfSender(s) \subseteq batch
            /\ pc' = "simulate"
        BY <1>0, <2>2 DEF NextSender, OfSender, TypeOK, Tx
      <3>2. WorkerViewHolds'  BY <2>1, <3>1, NoneNotTx DEF WorkerViewHolds
      <3>3. QED  BY <1>0, <2>1, <3>2, LocalStep
    <2>3. CASE SkipSender(s)
      <3>1. pc' = "senders"  BY <2>1, <2>3 DEF SkipSender
      <3>2. WorkerViewHolds'  BY <2>1, <3>1 DEF WorkerViewHolds
      <3>3. QED  BY <1>0, <2>1, <3>2, LocalStep
    <2>4. QED  BY <1>1, <2>2, <2>3
  <1>2. ASSUME NEW failed \in SUBSET (IF tx = None THEN {} ELSE tx.msgs), Simulate(failed)
        PROVE  IInv'
    <2>1. /\ tx \in Tx /\ tx.msgs \subseteq Ids
          /\ \A m \in tx.msgs : state[m] = "started" /\ m \notin batch
          /\ \A m \in batch : state[m] = "started"
          /\ failed \subseteq tx.msgs /\ failed \subseteq Ids
      BY <1>2, TxInMaking DEF Simulate
    <2>2. /\ \A m \in Ids : /\ m \in failed => state[m] = "started" /\ state'[m] = "errored"
                            /\ m \notin failed => state'[m] = state[m]
          /\ UNCHANGED <<n, hash, batch, ids, sent, cancelled, lost>>
          /\ pc = "simulate"
      BY <1>2, <2>1 DEF Simulate, UpdateMsgs, Updated
    <2>3. \/ pc' = "senders"
          \/ pc' = "sign" /\ tx' \in Tx /\ tx'.msgs = tx.msgs \ failed
      BY <1>2, <2>1 DEF Simulate, NextAfter, Tx
    <2>4. RowsInv'  BY <2>2 DEF IInv, RowsInv
    <2>5. NetInv'  BY <1>0, <2>2, SentMsgs DEF IInv, NetInv
    <2>6. WorkerViewHolds'
      <3>1. \A m \in batch : state'[m] = "started"
        BY <1>0, <2>1, <2>2 DEF TypeOK
      <3>2. QED  BY <2>1, <2>2, <2>3, <3>1, NoneNotTx DEF WorkerViewHolds
    <2>7. CancelledNeverSent'  BY <1>0, <2>2 DEF IInv, TypeOK, CancelledNeverSent
    <2>8. TableMatchesNetwork'
      BY <1>0, <2>2, SentMsgs DEF IInv, TableMatchesNetwork
    <2>9. ResentOnlyAfterLostAnswer'  BY <2>2 DEF IInv, ResentOnlyAfterLostAnswer
    <2>10. QED  BY <1>0, <2>4, <2>5, <2>6, <2>7, <2>8, <2>9 DEF IInv
  <1>3. CASE CombinedSimulationFails \/ SendFails \/ BroadcastRejected
    <2>1. WorkerViewHolds'
      BY <1>3 DEF CombinedSimulationFails, SendFails, BroadcastRejected, Abandon, WorkerViewHolds,
                  IInv
    <2>2. QED
      BY <1>0, <1>3, <2>1, LocalStep
         DEF CombinedSimulationFails, SendFails, BroadcastRejected, Abandon
  <1>4. CASE Sign
    <2>1. tx' # None /\ tx'.msgs = tx.msgs
      BY <1>4, <1>0, TxInMaking, BoundsAssumption, NoneNotTx DEF Sign, Tx, TypeOK
    <2>2. WorkerViewHolds'
      BY <1>4, <2>1, TxInMaking DEF Sign, WorkerViewHolds
    <2>3. QED  BY <1>0, <1>4, <2>2, LocalStep DEF Sign
  <1>5. CASE Broadcast \/ BroadcastLost
    BY <1>0, <1>5, BroadcastPreserves DEF Broadcast, BroadcastLost, Abandon
  <1>6. CASE CommitBroadcast
    <2>1. /\ tx \in Tx /\ tx.msgs \subseteq Ids /\ tx \in sent
          /\ \A m \in tx.msgs : state[m] = "started" /\ m \notin batch
          /\ \A m \in batch : state[m] = "started"
      BY <1>6, TxInMaking DEF CommitBroadcast
    <2>2. /\ \A m \in Ids :
               /\ m \in tx.msgs => /\ state[m] = "started" /\ state'[m] = "broadcasted"
                                   /\ hash'[m] = tx
               /\ m \notin tx.msgs => state'[m] = state[m] /\ hash'[m] = hash[m]
          /\ UNCHANGED <<n, batch, tx, sent, cancelled, lost>>
          /\ pc = "commit" /\ pc' = "poll" /\ ids' = tx.msgs
      BY <1>6, <2>1 DEF CommitBroadcast, UpdateMsgs, Updated
    <2>3. RowsInv'  BY <2>2 DEF IInv, RowsInv
    <2>4. NetInv'  BY <1>0, <2>2, SentMsgs DEF IInv, NetInv
    <2>5. WorkerViewHolds'
      BY <1>0, <2>1, <2>2 DEF WorkerViewHolds, TypeOK
    <2>6. CancelledNeverSent'  BY <1>0, <2>2 DEF IInv, TypeOK, CancelledNeverSent
    <2>7. TableMatchesNetwork'
      BY <1>0, <2>1, <2>2, SentMsgs DEF IInv, TableMatchesNetwork
    <2>8. ResentOnlyAfterLostAnswer'  BY <2>2 DEF IInv, ResentOnlyAfterLostAnswer
    <2>9. QED  BY <1>0, <2>3, <2>4, <2>5, <2>6, <2>7, <2>8 DEF IInv
  <1>7. CASE CommitBroadcastFails
    <2>1. /\ \A m \in batch : state[m] = "started"
          /\ UNCHANGED <<n, state, hash, batch, ids, sent, cancelled>>
          /\ lost' = lost \cup tx.msgs
          /\ pc = "commit" /\ pc' = "senders"
      BY <1>7, TxInMaking DEF CommitBroadcastFails, Abandon
    <2>2. WorkerViewHolds'  BY <2>1 DEF WorkerViewHolds
    <2>3. TableMatchesNetwork'
      BY <2>1 DEF IInv, TableMatchesNetwork
    <2>4. QED
      BY <1>0, <2>1, <2>2, <2>3
         DEF IInv, RowsInv, NetInv, CancelledNeverSent, ResentOnlyAfterLostAnswer
  <1>8. QED  BY <1>1, <1>2, <1>3, <1>4, <1>5, <1>6, <1>7

\* Polling and recording its outcome keep the invariant.
LEMMA ConfirmPreserves ==
  ASSUME IInv, PollMiss \/ PollFound \/ PollsExhausted \/ ConfirmFails
  PROVE  IInv'
  <1>0. TypeOK' /\ TypeOK
    BY ConfirmType DEF IInv
  <1>1. CASE PollMiss \/ ConfirmFails
    <2>1. WorkerViewHolds'
      BY <1>1 DEF PollMiss, ConfirmFails, ConfirmReturns, Polling, WorkerViewHolds, IInv
    <2>2. QED
      BY <1>0, <1>1, <2>1, LocalStep DEF PollMiss, ConfirmFails, ConfirmReturns, Polling
  <1>2. CASE PollFound \/ PollsExhausted
    <2>1. /\ \A m \in ids : state[m] = "broadcasted" /\ hash[m] = tx /\ m \notin batch
          /\ pc = "poll" => \A m \in batch : state[m] = "started"
          /\ pc = "repoll" => \A m \in batch : state[m] = "broadcasted"
          /\ pc \in {"poll", "repoll"} /\ ids \subseteq Ids /\ batch \subseteq Ids
      BY <1>0, <1>2 DEF PollFound, PollsExhausted, Polling, WorkerViewHolds, IInv, TypeOK
    <2>2. /\ \A m \in Ids :
               /\ m \in ids => state[m] = "broadcasted" /\ state'[m] \in {"confirmed", "errored"}
               /\ m \notin ids => state'[m] = state[m]
          /\ UNCHANGED <<n, hash, batch, sent, cancelled, lost>>
          /\ pc' = IF pc = "poll" THEN "senders" ELSE "regroup"
      BY <1>2, <2>1 DEF PollFound, PollsExhausted, ConfirmReturns, UpdateMsgs, Updated
    <2>3. RowsInv'  BY <2>2 DEF IInv, RowsInv
    <2>4. NetInv'  BY <1>0, <2>2, SentMsgs DEF IInv, NetInv
    <2>5. WorkerViewHolds'  BY <2>1, <2>2 DEF WorkerViewHolds
    <2>6. CancelledNeverSent'  BY <1>0, <2>2 DEF IInv, TypeOK, CancelledNeverSent
    <2>7. TableMatchesNetwork'
      BY <1>0, <2>1, <2>2, SentMsgs DEF IInv, TableMatchesNetwork
    <2>8. ResentOnlyAfterLostAnswer'  BY <2>2 DEF IInv, ResentOnlyAfterLostAnswer
    <2>9. QED  BY <1>0, <2>3, <2>4, <2>5, <2>6, <2>7, <2>8 DEF IInv
  <1>3. QED  BY <1>1, <1>2

\* Crashes, the clock and blocks keep the invariant.
LEMMA OutsidePreserves ==
  ASSUME IInv, Crash \/ TimePasses \/ NewBlock
  PROVE  IInv'
  <1>0. TypeOK' /\ TypeOK
    BY OutsideType DEF IInv, WorkerViewHolds
  <1>1. CASE Crash
    <2>1. /\ UNCHANGED <<n, state, hash, sent, cancelled>>
          /\ lost' = IF pc = "commit" THEN lost \cup tx.msgs ELSE lost
          /\ pc' = "down"
      BY <1>1 DEF Crash
    <2>2. WorkerViewHolds'  BY <2>1 DEF WorkerViewHolds
    <2>3. TableMatchesNetwork'
      BY <2>1 DEF IInv, TableMatchesNetwork
    <2>4. QED
      BY <1>0, <2>1, <2>2, <2>3
         DEF IInv, RowsInv, NetInv, CancelledNeverSent, ResentOnlyAfterLostAnswer
  <1>2. CASE TimePasses \/ NewBlock
    <2>1. UNCHANGED <<n, state, hash, pc, fresh, expired, batch, tx, ids, sent, cancelled, lost>>
      BY <1>2 DEF TimePasses, NewBlock
    <2>2. QED
      BY <1>0, <2>1
         DEF IInv, RowsInv, NetInv, WorkerViewHolds, CancelledNeverSent, TableMatchesNetwork,
             ResentOnlyAfterLostAnswer
  <1>3. QED  BY <1>1, <1>2

\* Every step keeps the invariant.
LEMMA NextIInv == IInv /\ [Next]_vars => IInv'
  <1> SUFFICES ASSUME IInv, [Next]_vars PROVE IInv'
    OBVIOUS
  <1>1. CASE UNCHANGED vars
    <2>1. TypeOK'  BY <1>1 DEF vars, IInv, TypeOK
    <2>2. QED
      BY <1>1, <2>1
         DEF vars, IInv, RowsInv, NetInv, WorkerViewHolds, CancelledNeverSent,
             TableMatchesNetwork, ResentOnlyAfterLostAnswer
  <1>2. CASE \E c \in Callers : Enqueue(c)  BY <1>2, EnqueuePreserves
  <1>3. CASE Worker
    BY <1>3, BatchPreserves, SendPreserves, ConfirmPreserves DEF Worker
  <1>4. CASE Crash \/ TimePasses \/ NewBlock  BY <1>4, OutsidePreserves
  <1>5. QED  BY <1>1, <1>2, <1>3, <1>4 DEF Next

\* The conjunction of types, rows, network and the safety properties below is
\* an invariant of the specification (the worker's loop, Enqueue, crashes).
THEOREM Invariance == Spec => []IInv
  BY InitIInv, NextIInv, PTL DEF Spec
-----------------------------------------------------------------------------
(* The theorems *)

\* Every variable keeps its type.
THEOREM TypeCorrect == Spec => []TypeOK
  BY Invariance, PTL DEF IInv

\* A message cancelled by a newer one never reaches the network.
THEOREM CancelledNeverSentThm == Spec => []CancelledNeverSent
  BY Invariance, PTL DEF IInv

\* The table calls broadcast what the network has, up to lost answers.
THEOREM TableMatchesNetworkThm == Spec => []TableMatchesNetwork
  BY Invariance, PTL DEF IInv

\* No message is put in two transactions unless an answer was lost.
THEOREM ResentOnlyAfterLostAnswerThm == Spec => []ResentOnlyAfterLostAnswer
  BY Invariance, PTL DEF IInv

\* What the worker read still holds when it acts on it.
THEOREM WorkerViewHoldsThm == Spec => []WorkerViewHolds
  BY Invariance, PTL DEF IInv
-----------------------------------------------------------------------------
(* Txm implements MsgLifecycle *)

LifeStatus == [m \in Ids |-> IF state[m] \in {"unstarted", "started"} THEN "queued"
                             ELSE IF state[m] = "broadcasted" THEN "sent" ELSE state[m]]
Attempted == UNION {t.msgs : t \in sent}
Executed == UNION {t.msgs : t \in chain}

\* A step that leaves the states and the network alone stutters.
LEMMA LifeStutter ==
  ASSUME UNCHANGED <<state, sent, chain>>
  PROVE  UNCHANGED Life!lifeVars
  BY DEF Life!lifeVars

\* Rows of S in state from move to errored.
LEMMA LifeGiveUp ==
  ASSUME TypeOK, NEW S \in SUBSET Ids,
         \A m \in S : state[m] \in {"unstarted", "started", "broadcasted"},
         \A m \in Ids : IF m \in S THEN state'[m] = "errored"
                        ELSE \/ state'[m] = state[m]
                             \/ state[m] = "unstarted" /\ state'[m] = "started",
         UNCHANGED <<sent, chain>>
  PROVE  Life!Next
  <1>1. Life!GiveUp(S)
    BY DEF Life!GiveUp, Life!Move
  <1>2. QED  BY <1>1 DEF Life!Next

\* The other actions of MsgLifecycle, over the mapped variables by name.
LEMMA LifeAttempt ==
  ASSUME NEW S \in SUBSET Ids, \A m \in S : LifeStatus[m] = "queued",
         Attempted' = Attempted \cup S, LifeStatus' = LifeStatus, Executed' = Executed
  PROVE  Life!Next
  <1>1. Life!Attempt(S)
    BY Zenon DEF Life!Attempt, LifeStatus, Attempted, Executed
  <1>2. QED  BY <1>1 DEF Life!Next

\* A row inserted is a message submitted.
LEMMA LifeSubmit ==
  ASSUME NEW m \in Ids, Life!Submit(m)
  PROVE  Life!Next
  BY DEF Life!Next

\* Rows marked Broadcasted are messages sent.
LEMMA LifeMarkSent ==
  ASSUME NEW S \in SUBSET Ids, S \subseteq Attempted, \A m \in S : LifeStatus[m] = "queued",
         LifeStatus' = [m \in Ids |-> IF m \in S THEN "sent" ELSE LifeStatus[m]],
         Attempted' = Attempted, Executed' = Executed
  PROVE  Life!Next
  <1>0. \A m \in S : LifeStatus[m] \in {"queued"}
    OBVIOUS
  <1>1. Life!MarkSent(S)
    BY <1>0, Zenon DEF Life!MarkSent, Life!Move, LifeStatus, Attempted, Executed
  <1>2. QED  BY <1>1 DEF Life!Next

\* Rows marked Confirmed are messages confirmed.
LEMMA LifeConfirm ==
  ASSUME NEW S \in SUBSET Ids, S \subseteq Executed, \A m \in S : LifeStatus[m] = "sent",
         LifeStatus' = [m \in Ids |-> IF m \in S THEN "confirmed" ELSE LifeStatus[m]],
         Attempted' = Attempted, Executed' = Executed
  PROVE  Life!Next
  <1>0. \A m \in S : LifeStatus[m] \in {"sent"}
    OBVIOUS
  <1>1. Life!Confirm(S)
    BY <1>0, Zenon DEF Life!Confirm, Life!Move, LifeStatus, Attempted, Executed
  <1>2. QED  BY <1>1 DEF Life!Next

\* A block executes messages that were attempted.
LEMMA LifeExecute ==
  ASSUME NEW S \in SUBSET Ids, S \subseteq Attempted, Executed' = Executed \cup S,
         LifeStatus' = LifeStatus, Attempted' = Attempted
  PROVE  Life!Next
  <1>1. Life!Execute(S)
    BY Zenon DEF Life!Execute, LifeStatus, Attempted, Executed
  <1>2. QED  BY <1>1 DEF Life!Next

\* The messages of an accepted transaction were attempted, those of one in
\* a block executed.
LEMMA AttemptedByTx == \A t \in sent : t.msgs \subseteq Attempted
  BY DEF Attempted

\* Transactions in blocks execute their messages.
LEMMA ExecutedByTx == \A t \in chain : t.msgs \subseteq Executed
  BY DEF Executed

\* Initial states map to initial states.
LEMMA InitRefines == Init => Life!Init
  BY DEF Init, Life!Init

\* Every step maps to a step of the life cycle or to a stutter.
LEMMA NextRefines == IInv /\ [Next]_vars => [Life!Next]_Life!lifeVars
  <1> SUFFICES ASSUME IInv, [Next]_vars
               PROVE  Life!Next \/ UNCHANGED Life!lifeVars
    OBVIOUS
  <1>0. TypeOK
    BY DEF IInv
  <1>1. ASSUME NEW c \in Callers, NEW k \in Contracts, EnqueueCancel(c, k)
        PROVE  Life!Next
    <2>1. /\ Superseded(k) \in SUBSET Ids
          /\ \A m \in Superseded(k) : state[m] = "unstarted"
          /\ \A m \in Ids : state'[m] = IF m \in Superseded(k) THEN "errored" ELSE state[m]
          /\ UNCHANGED <<sent, chain>>
      BY <1>1 DEF EnqueueCancel, Superseded, InState, UpdateMsgs, Updated
    <2>2. QED  BY <1>0, <2>1, LifeGiveUp
  <1>2. ASSUME NEW c \in Callers, NEW s \in Senders, EnqueueInsert(c, s)
        PROVE  Life!Next
    <2>1. /\ n + 1 \in Ids /\ state[n + 1] = "absent" /\ state'[n + 1] = "unstarted"
          /\ \A m \in Ids : m # n + 1 => state'[m] = state[m]
          /\ UNCHANGED <<sent, chain>>
      BY <1>0, <1>2, BoundsAssumption DEF EnqueueInsert, IInv, RowsInv, TypeOK, Ids
    <2>2. PICK m \in Ids : m = n + 1
      BY <2>1
    <2>3. Life!Submit(m)
      BY <2>1, <2>2 DEF Life!Submit, Life!Move
    <2>4. QED  BY <2>3, LifeSubmit
  <1>3. ASSUME CommitBatch  PROVE Life!Next
    <2>1. /\ expired \in SUBSET Ids
          /\ \A m \in expired : state[m] \in {"unstarted", "started", "broadcasted"}
          /\ \A m \in Ids : IF m \in expired THEN state'[m] = "errored"
                            ELSE \/ state'[m] = state[m]
                                 \/ state[m] = "unstarted" /\ state'[m] = "started"
          /\ UNCHANGED <<sent, chain>>
      BY <1>0, <1>3 DEF CommitBatch, CanUpdate, DbAllows, IInv, WorkerViewHolds, TypeOK
    <2>2. QED  BY <1>0, <2>1, LifeGiveUp
  <1>4. ASSUME NEW failed \in SUBSET (IF tx = None THEN {} ELSE tx.msgs), Simulate(failed)
        PROVE  Life!Next
    <2>1. /\ failed \in SUBSET Ids
          /\ \A m \in failed : state[m] = "started"
      BY <1>4, TxInMaking DEF Simulate
    <2>2. /\ \A m \in Ids : state'[m] = IF m \in failed THEN "errored" ELSE state[m]
          /\ UNCHANGED <<sent, chain>>
      BY <1>4 DEF Simulate, UpdateMsgs, Updated
    <2>3. QED  BY <1>0, <2>1, <2>2, LifeGiveUp
  <1>5. ASSUME Broadcast \/ BroadcastLost  PROVE Life!Next
    <2>1. /\ tx.msgs \in SUBSET Ids
          /\ \A m \in tx.msgs : state[m] = "started"
          /\ sent' = sent \cup {tx} /\ UNCHANGED <<state, chain>>
      BY <1>5, TxInMaking DEF Broadcast, BroadcastLost, Abandon
    <2>2. Attempted' = Attempted \cup tx.msgs
      BY <2>1 DEF Attempted
    <2>3. /\ \A m \in tx.msgs : LifeStatus[m] = "queued"
          /\ LifeStatus' = LifeStatus
          /\ Executed' = Executed
      BY <2>1 DEF LifeStatus, Executed
    <2>4. QED  BY <2>1, <2>2, <2>3, LifeAttempt
  <1>6. ASSUME CommitBroadcast  PROVE Life!Next
    <2>1. /\ tx.msgs \in SUBSET Ids /\ tx \in sent
          /\ \A m \in tx.msgs : state[m] = "started"
      BY <1>6, TxInMaking DEF CommitBroadcast
    <2>2. /\ \A m \in Ids : state'[m] = IF m \in tx.msgs THEN "broadcasted" ELSE state[m]
          /\ UNCHANGED <<sent, chain>>
      BY <1>6 DEF CommitBroadcast, UpdateMsgs, Updated
    <2>3. /\ \A m \in tx.msgs : LifeStatus[m] = "queued"
          /\ LifeStatus' = [m \in Ids |-> IF m \in tx.msgs THEN "sent" ELSE LifeStatus[m]]
      BY <2>1, <2>2 DEF LifeStatus
    <2>4. /\ tx.msgs \subseteq Attempted
          /\ Attempted' = Attempted /\ Executed' = Executed
      BY <2>1, <2>2, AttemptedByTx DEF Attempted, Executed
    <2>5. QED  BY <2>1, <2>3, <2>4, LifeMarkSent
  <1>7. ASSUME PollFound \/ PollsExhausted  PROVE Life!Next
    <2>1. /\ ids \in SUBSET Ids
          /\ \A m \in ids : state[m] = "broadcasted" /\ m \in tx.msgs
          /\ UNCHANGED <<sent, chain>>
      BY <1>0, <1>7
         DEF PollFound, PollsExhausted, Polling, ConfirmReturns, IInv, WorkerViewHolds, TypeOK
    <2>2. CASE PollFound
      <3>1. /\ \A m \in Ids : state'[m] = IF m \in ids THEN "confirmed" ELSE state[m]
            /\ tx \in chain
        BY <2>2 DEF PollFound, Found, UpdateMsgs, Updated
      <3>2. /\ \A m \in ids : LifeStatus[m] = "sent"
            /\ LifeStatus' = [m \in Ids |-> IF m \in ids THEN "confirmed" ELSE LifeStatus[m]]
        BY <2>1, <3>1 DEF LifeStatus
      <3>3. /\ ids \subseteq Executed
            /\ Attempted' = Attempted /\ Executed' = Executed
        BY <2>1, <3>1, ExecutedByTx DEF Attempted, Executed
      <3>4. QED  BY <2>1, <3>2, <3>3, LifeConfirm
    <2>3. CASE PollsExhausted
      <3>1. \A m \in Ids : state'[m] = IF m \in ids THEN "errored" ELSE state[m]
        BY <2>3 DEF PollsExhausted, UpdateMsgs, Updated
      <3>2. QED  BY <1>0, <2>1, <3>1, LifeGiveUp
    <2>4. QED  BY <1>7, <2>2, <2>3
  <1>8. ASSUME NewBlock  PROVE Life!Next
    <2>1. PICK S \in SUBSET Includable : chain' = chain \cup S
      BY <1>8 DEF NewBlock
    <2>2. UNCHANGED <<state, sent>> /\ S \subseteq sent
      BY <1>8, <2>1 DEF NewBlock, Includable
    <2>3. DEFINE E == UNION {t.msgs : t \in S}
    <2>4. E \in SUBSET Ids /\ E \subseteq Attempted
      BY <1>0, <2>2, SentMsgs DEF Attempted
    <2>5. Executed' = Executed \cup E
      BY <2>1 DEF Executed
    <2>6. LifeStatus' = LifeStatus /\ Attempted' = Attempted
      BY <2>2 DEF LifeStatus, Attempted
    <2>7. QED  BY <2>4, <2>5, <2>6, LifeExecute
  <1>9. CASE UNCHANGED <<state, sent, chain>>
    BY <1>9, LifeStutter
  <1>10. ASSUME \/ \E c \in Callers : EnqueueFails(c) \/ EnqueueTrigger(c)
                \/ Start \/ Recover \/ RecoverFails \/ Regroup \/ ReadBatch \/ RollbackBatch
                \/ GasPrice \/ GasPriceFails \/ BatchDone
                \/ \E s \in Senders : NextSender(s) \/ SkipSender(s)
                \/ CombinedSimulationFails \/ SendFails \/ Sign \/ BroadcastRejected
                \/ CommitBroadcastFails \/ PollMiss \/ ConfirmFails
                \/ Crash \/ TimePasses \/ UNCHANGED vars
         PROVE  UNCHANGED <<state, sent, chain>>
    BY <1>10
       DEF EnqueueFails, EnqueueTrigger, Start, Recover, RecoverFails, Regroup, ReadBatch,
           RollbackBatch, GasPrice, GasPriceFails, BatchDone, NextSender, SkipSender,
           CombinedSimulationFails, SendFails, Sign, BroadcastRejected, CommitBroadcastFails,
           Abandon, PollMiss, ConfirmFails, ConfirmReturns, Crash, TimePasses, vars
  <1>11. QED
    BY <1>1, <1>2, <1>3, <1>4, <1>5, <1>6, <1>7, <1>8, <1>9, <1>10 DEF Next, Worker, Enqueue

\* The manager implements the life cycle of a message: states move one way,
\* and a message is confirmed only when the chain has executed it.
THEOREM Refinement == Spec => LifeSpec
  BY Invariance, InitRefines, NextRefines, PTL DEF Spec, LifeSpec, Life!Spec

(***************************************************************************)
(* Batches and the order of messages, cancellation, recovery and sequence  *)
(* numbers.                                                                *)
(***************************************************************************)
(* The oldest rows of a set *)

LEMMA IdsFinite ==
  /\ IsFiniteSet(Ids) /\ Ids \subseteq Nat
  /\ \A S \in SUBSET Ids :
       IsFiniteSet(S) /\ Cardinality(S) \in Nat /\ \A R \in SUBSET S : Cardinality(R) <= Cardinality(S)
  <1>1. IsFiniteSet(Ids) /\ Ids \subseteq Nat
    BY BoundsAssumption, FS_Interval DEF Ids
  <1>2. ASSUME NEW S \in SUBSET Ids
        PROVE  /\ IsFiniteSet(S) /\ Cardinality(S) \in Nat
               /\ \A R \in SUBSET S : Cardinality(R) <= Cardinality(S)
    <2>1. IsFiniteSet(S)
      BY <1>1, FS_Subset
    <2> QED
      BY <2>1, FS_CardinalityType, FS_Subset
  <1> QED
    BY <1>1, <1>2

\* A set of rows that is not empty has an oldest and a newest one.
LEMMA Extremes ==
  ASSUME NEW S \in SUBSET Ids, S # {}
  PROVE  (\E m \in S : \A x \in S : m <= x) /\ (\E m \in S : \A x \in S : x <= m)
  <1>1. S \subseteq Nat /\ \A x \in S : x <= MaxMsgs /\ MaxMsgs - x \in Nat
    BY BoundsAssumption DEF Ids
  <1>2. \E m \in S : \A x \in S : m <= x
    BY <1>1, LeastNumber
  <1> DEFINE T == {MaxMsgs - x : x \in S}
  <1>3. PICK k \in T : \A y \in T : k <= y
    <2>1. T \subseteq Nat /\ T # {}
      BY <1>1
    <2> HIDE DEF T
    <2> QED
      BY <2>1, LeastNumber
  <1>4. PICK m \in S : k = MaxMsgs - m
    BY <1>3
  <1>5. \A x \in S : MaxMsgs - m <= MaxMsgs - x
    BY <1>3, <1>4
  <1>6. \A x \in S : x <= m
    BY <1>1, <1>5, BoundsAssumption
  <1> QED
    BY <1>2, <1>6

\* Oldest takes no row past a younger one it takes.
LEMMA OldestIsOldest ==
  ASSUME NEW S \in SUBSET Ids, NEW k \in Nat, NEW m \in Oldest(S, k), NEW x \in S, x < m
  PROVE  x \in Oldest(S, k)
  <1>1. m \in S /\ Cardinality({y \in S : y < m}) < k /\ \A y \in S : y \in Int
    BY DEF Oldest, Ids
  <1> DEFINE R == {y \in S : y < x}
             Q == {y \in S : y < m}
  <1>2. R \subseteq Q
    BY <1>1
  <1>3. Cardinality(R) \in Nat /\ Cardinality(Q) \in Nat /\ Cardinality(R) <= Cardinality(Q)
    BY <1>2, IdsFinite
  <1>4. Cardinality(R) < k
    BY <1>1, <1>3
  <1> QED
    BY <1>4 DEF Oldest

\* Oldest takes no more than k rows.
LEMMA OldestFits ==
  ASSUME NEW S \in SUBSET Ids, NEW k \in Nat
  PROVE  Cardinality(Oldest(S, k)) <= k
  <1> DEFINE O == Oldest(S, k)
  <1>0. \A x \in S : x \in Int
    BY DEF Ids
  <1>1. O \in SUBSET S /\ O \in SUBSET Ids /\ \A x \in O : x \in Int
    BY <1>0 DEF Oldest
  <1>2. CASE O = {}
    BY <1>2, FS_EmptySet
  <1>3. CASE O # {}
    <2>1. PICK m \in O : \A x \in O : x <= m
      <3> HIDE DEF O
      <3> QED
        BY <1>1, <1>3, Extremes
    <2> DEFINE R == {y \in S : y < m}
    <2>2. Cardinality(R) < k /\ IsFiniteSet(R) /\ Cardinality(R) \in Nat
      BY IdsFinite DEF Oldest
    <2>3. O \subseteq R \cup {m}
      <3> HIDE DEF O
      <3> QED
        BY <1>1, <2>1
    <2>4. m \notin R
      <3> HIDE DEF O
      <3> QED
        BY <1>1
    <2> HIDE DEF O, R
    <2>5. IsFiniteSet(R \cup {m}) /\ Cardinality(R \cup {m}) = Cardinality(R) + 1
      BY <2>2, <2>4, FS_AddElement
    <2>6. Cardinality(O) <= Cardinality(R) + 1
      BY <2>3, <2>5, FS_Subset
    <2>7. Cardinality(O) \in Nat
      BY <1>1, IdsFinite
    <2> QED
      BY <2>2, <2>6, <2>7 DEF O
  <1> QED
    BY <1>2, <1>3

\* Oldest takes all of a set that fits.
LEMMA OldestTakesAll ==
  ASSUME NEW S \in SUBSET Ids, NEW k \in Nat, Cardinality(S) <= k
  PROVE  Oldest(S, k) = S
  <1>1. ASSUME NEW m \in S
        PROVE  Cardinality({y \in S : y < m}) < k
    <2> DEFINE R == {y \in S : y < m}
    <2>1. R \subseteq S /\ m \notin R
      BY IdsFinite
    <2>2. IsFiniteSet(S) /\ IsFiniteSet(R) /\ Cardinality(R) \in Nat /\ Cardinality(S) \in Nat
      BY <2>1, IdsFinite
    <2> HIDE DEF R
    <2>3. Cardinality(R \cup {m}) = Cardinality(R) + 1
      BY <2>1, <2>2, FS_AddElement
    <2>4. Cardinality(R \cup {m}) <= Cardinality(S)
      BY <2>1, <2>2, FS_Subset
    <2>5. Cardinality(R) < k
      BY <2>2, <2>3, <2>4
    <2> QED
      BY <2>5 DEF R
  <1> QED
    BY <1>1 DEF Oldest

\* Oldest takes some of a set that is not empty.
LEMMA OldestTakesOne ==
  ASSUME NEW S \in SUBSET Ids, NEW k \in Nat \ {0}, Oldest(S, k) = {}
  PROVE  S = {}
  <1>1. SUFFICES ASSUME S # {} PROVE FALSE
    OBVIOUS
  <1>2. PICK m \in S : \A x \in S : m <= x
    BY <1>1, Extremes
  <1>0. \A x \in S : x \in Int
    BY DEF Ids
  <1>3. {y \in S : y < m} = {}
    BY <1>0, <1>2
  <1>4. Cardinality({y \in S : y < m}) < k
    BY <1>3, FS_EmptySet
  <1> QED
    BY <1>4 DEF Oldest
-----------------------------------------------------------------------------
(* The invariants *)

\* While the worker commits a batch, what it read as Unstarted and what is
\* Started fit one batch together, and the Unstarted it did not read are newer.
LeftoversInv ==
  /\ LeftoversFitOneBatch
  /\ pc = "batching" =>
       /\ Cardinality(InState("started")) + Cardinality(fresh) <= MaxMsgsPerBatch
       /\ \A m \in fresh : m <= n
       /\ \A m \in fresh, u \in InState("unstarted") : u \in fresh \cup expired \/ m < u

Waiting(m) == state[m] \in {"unstarted", "started"}

\* A batch holds all of an account that waits and is older than some of it; so
\* does the transaction made of it.
OrderInv ==
  /\ pc = "batching" =>
       /\ \A m \in batch : m <= n
       /\ InState("started") \subseteq batch \cup expired
       /\ \A u \in InState("unstarted"), x \in batch : u < x => u \in batch \cup expired
  /\ pc \in {"gasprice", "senders", "simulate", "sign", "broadcast", "commit", "poll"} =>
       \A m \in Ids, x \in batch :
         Waiting(m) /\ m < x /\ sender[m] = sender[x] => m \in batch
  /\ pc \in {"simulate", "sign", "broadcast"} =>
       \A m \in Ids, x \in tx.msgs :
         Waiting(m) /\ m < x /\ sender[m] = tx.sender => m \in tx.msgs

\* Rows that do not exist have no contract, those cancelled had one.
ReplacedInv ==
  /\ \A m \in Ids : m > n => contract[m] = None
  /\ \A m \in cancelled : m <= n /\ contract[m] # None
  /\ CancelledIsReplaced

\* Without failing databases and clients nothing is Broadcasted but what the
\* worker is confirming or still has to recover.
RecoveryInv ==
  FaultKinds \cap {"db", "client"} = {} =>
    /\ pc \in {"idle", "batching", "gasprice", "senders", "simulate", "sign", "broadcast",
               "commit"} => InState("broadcasted") = {}
    /\ pc = "poll" => InState("broadcasted") \subseteq ids

\* What a block included used its sequence number, and what is Confirmed is in
\* a block.
SequenceInv ==
  /\ \A t \in chain : t \in sent /\ t.sn < seq[t.sender]
  /\ \A m \in Ids : state[m] = "confirmed" => hash[m] \in chain
  /\ FaultKinds \cap {"db", "client"} = {} => SequenceReusedOnlyAfterGivingUp
-----------------------------------------------------------------------------
(* Steps that insert no row and pick no batch leave no more rows waiting *)

StillWaiting == \A m \in Ids : Waiting(m)' => state'[m] = state[m]

LEMMA WaitingShrinks ==
  ASSUME IInv, [Next]_vars
  PROVE  \/ \E c \in Callers, s \in Senders : EnqueueInsert(c, s)
         \/ ReadBatch
         \/ CommitBatch
         \/ /\ StillWaiting /\ UNCHANGED <<n, sender>>
            /\ UNCHANGED <<pc, fresh, expired>> \/ pc' # "batching"
  <1> DEFINE Shrinks == /\ StillWaiting /\ UNCHANGED <<n, sender>>
                        /\ UNCHANGED <<pc, fresh, expired>> \/ pc' # "batching"
  <1> USE DEF StillWaiting, Waiting
  <1>1. ASSUME NEW c \in Callers, NEW k \in Contracts, EnqueueCancel(c, k)
        PROVE  Shrinks
    BY <1>1 DEF EnqueueCancel, UpdateMsgs, Updated
  <1>2. ASSUME NEW c \in Callers, EnqueueFails(c) \/ EnqueueTrigger(c)
        PROVE  Shrinks
    BY <1>2 DEF EnqueueFails, EnqueueTrigger
  <1>3. ASSUME Start \/ Recover \/ RecoverFails \/ Regroup \/ RollbackBatch \/ GasPrice
               \/ GasPriceFails \/ BatchDone
        PROVE  Shrinks
    BY <1>3 DEF Start, Recover, RecoverFails, Regroup, RollbackBatch, GasPrice, GasPriceFails,
         BatchDone
  <1>4. ASSUME NEW s \in Senders, NextSender(s) \/ SkipSender(s)
        PROVE  Shrinks
    BY <1>4 DEF NextSender, SkipSender
  <1>5. ASSUME NEW failed, Simulate(failed)
        PROVE  Shrinks
    BY <1>5 DEF Simulate, UpdateMsgs, Updated, NextAfter
  <1>6. ASSUME CombinedSimulationFails \/ SendFails \/ Sign \/ Broadcast \/ BroadcastLost
               \/ BroadcastRejected \/ CommitBroadcastFails
        PROVE  Shrinks
    BY <1>6 DEF CombinedSimulationFails, SendFails, Sign, Broadcast, BroadcastLost,
         BroadcastRejected, CommitBroadcastFails, Abandon
  <1>7. ASSUME CommitBroadcast
        PROVE  Shrinks
    BY <1>7 DEF CommitBroadcast, UpdateMsgs, Updated
  <1>8. ASSUME PollMiss \/ PollFound \/ PollsExhausted \/ ConfirmFails
        PROVE  Shrinks
    BY <1>8 DEF PollMiss, PollFound, PollsExhausted, ConfirmFails, ConfirmReturns, UpdateMsgs,
         Updated
  <1>9. ASSUME Crash \/ TimePasses \/ NewBlock \/ UNCHANGED vars
        PROVE  Shrinks
    BY <1>9 DEF Crash, TimePasses, NewBlock, vars
  <1> HIDE DEF Shrinks
  <1>10. \/ \E c \in Callers, s \in Senders : EnqueueInsert(c, s)
         \/ ReadBatch \/ CommitBatch \/ Shrinks
    BY <1>1, <1>2, <1>3, <1>4, <1>5, <1>6, <1>7, <1>8, <1>9 DEF Next, Worker, Enqueue
  <1> QED
    BY <1>10 DEF Shrinks

\* What an insertion changes: the row after the last one.
LEMMA InsertFacts ==
  ASSUME IInv, NEW c \in Callers, NEW s \in Senders, EnqueueInsert(c, s)
  PROVE  /\ n + 1 \in Ids /\ n \in Nat /\ n' = n + 1
         /\ state[n + 1] = "absent" /\ state'[n + 1] = "unstarted" /\ sender'[n + 1] = s
         /\ contract'[n + 1] = call[c].contract
         /\ \A m \in Ids : m # n + 1 => /\ state'[m] = state[m] /\ sender'[m] = sender[m]
                                        /\ contract'[m] = contract[m]
         /\ UNCHANGED <<hash, pc, fresh, expired, batch, tx, ids, sent, chain, seq, faults,
                        cancelled, lost>>
  <1>1. n + 1 \in Ids /\ n \in Nat
    BY BoundsAssumption DEF EnqueueInsert, IInv, TypeOK, Ids
  <1>2. state[n + 1] = "absent"
    BY <1>1 DEF IInv, RowsInv
  <1> QED
    BY <1>1, <1>2 DEF EnqueueInsert, IInv, TypeOK

\* What is Started, or in any state but absent, is a row.
LEMMA RowsThere ==
  ASSUME IInv
  PROVE  \A m \in Ids : state[m] # "absent" => m <= n
  BY DEF IInv, RowsInv, TypeOK, Ids
-----------------------------------------------------------------------------
(* Leftovers fit one batch *)

LEMMA FewerLeftovers ==
  ASSUME TypeOK, LeftoversInv, StillWaiting, UNCHANGED n,
         UNCHANGED <<pc, fresh, expired>> \/ pc' # "batching"
  PROVE  LeftoversInv'
  <1>1. InState("started")' \subseteq InState("started")
        /\ InState("unstarted")' \subseteq InState("unstarted")
        /\ InState("started") \in SUBSET Ids
    BY DEF StillWaiting, Waiting, InState
  <1>2. /\ Cardinality(InState("started")') <= Cardinality(InState("started"))
        /\ Cardinality(InState("started")') \in Nat /\ Cardinality(InState("started")) \in Nat
    BY <1>1, IdsFinite
  <1>3. LeftoversFitOneBatch'
    BY <1>1, <1>2, BoundsAssumption DEF LeftoversInv, LeftoversFitOneBatch
  <1>4. CASE pc' # "batching"
    BY <1>3, <1>4 DEF LeftoversInv
  <1>5. ASSUME UNCHANGED <<pc, fresh, expired>>, pc = "batching"
        PROVE  LeftoversInv'
    <2>1. Cardinality(InState("started")') + Cardinality(fresh) <= MaxMsgsPerBatch
      <3>1. Cardinality(InState("started")) + Cardinality(fresh) <= MaxMsgsPerBatch
        BY <1>5 DEF LeftoversInv
      <3>2. Cardinality(fresh) \in Nat
        BY IdsFinite DEF TypeOK
      <3> QED
        BY <1>2, <3>1, <3>2, BoundsAssumption
    <2> QED
      BY <1>1, <1>3, <1>5, <2>1 DEF LeftoversInv
  <1> QED
    BY <1>4, <1>5

LEMMA LeftoversInit ==
  ASSUME Init
  PROVE  LeftoversInv
  <1>1. InState("started") = {} /\ InState("unstarted") = {} /\ pc # "batching"
    BY DEF Init, InState
  <1> QED
    BY <1>1, FS_EmptySet, BoundsAssumption DEF LeftoversInv, LeftoversFitOneBatch

\* What ReadBatch reads: all that is Started, then the oldest Unstarted that fit.
LEMMA ReadFacts ==
  ASSUME IInv, LeftoversInv, ReadBatch
  PROVE  \E unstarted \in SUBSET InState("unstarted") :
           /\ Cardinality(InState("started")) + Cardinality(unstarted) <= MaxMsgsPerBatch
           /\ \A x \in unstarted, u \in InState("unstarted") : u < x => u \in unstarted
           /\ fresh' \subseteq unstarted
           /\ fresh' = batch' \cap unstarted
           /\ batch' \cup expired' = InState("started") \cup unstarted
           /\ batch' \cap expired' = {}
           /\ pc' = "batching" /\ UNCHANGED <<n, state, sender, contract>>
  <1> DEFINE started == InState("started")
             limit == MaxMsgsPerBatch - Cardinality(started)
             unstarted == Oldest(InState("unstarted"), limit)
  <1>1. started \in SUBSET Ids /\ InState("unstarted") \in SUBSET Ids
    BY DEF InState
  <1>2. Cardinality(started) \in Nat /\ Cardinality(started) <= MaxMsgsPerBatch
        /\ MaxMsgsPerBatch \in Nat
    BY <1>1, IdsFinite, BoundsAssumption DEF LeftoversInv, LeftoversFitOneBatch
  <1>3. limit \in Nat
    BY <1>2
  <1>4. Oldest(started, MaxMsgsPerBatch) = started
    BY <1>1, <1>2, OldestTakesAll
  <1>5. unstarted \in SUBSET InState("unstarted")
    BY DEF Oldest
  <1>6. Cardinality(started) + Cardinality(unstarted) <= MaxMsgsPerBatch
    <2>1. Cardinality(unstarted) <= limit
      BY <1>1, <1>3, OldestFits
    <2>2. Cardinality(unstarted) \in Nat
      BY <1>1, <1>5, IdsFinite
    <2> HIDE DEF started, unstarted
    <2> QED
      BY <1>2, <2>1, <2>2
  <1>7. \A x \in unstarted, u \in InState("unstarted") : u < x => u \in unstarted
    BY <1>1, <1>3, OldestIsOldest
  <1>8. /\ fresh' = {m \in unstarted : m > old}
        /\ batch' = {m \in started \cup unstarted : m > old}
        /\ expired' = (started \cup unstarted) \ batch'
        /\ pc' = "batching" /\ UNCHANGED <<n, state, sender, contract>>
    BY <1>4 DEF ReadBatch
  <1> HIDE DEF started, unstarted
  <1>9. /\ fresh' \subseteq unstarted
        /\ fresh' = batch' \cap unstarted
        /\ batch' \cup expired' = started \cup unstarted
        /\ batch' \cap expired' = {}
    BY <1>8
  <1> QED
    BY <1>5, <1>6, <1>7, <1>8, <1>9 DEF started

\* What CommitBatch changes.
LEMMA CommitFacts ==
  ASSUME IInv, CommitBatch
  PROVE  /\ pc = "batching" /\ pc' \in {"idle", "gasprice"}
         /\ fresh \cap expired = {}
         /\ \A m \in Ids : state'[m] = IF m \in fresh THEN "started"
                                       ELSE IF m \in expired THEN "errored" ELSE state[m]
         /\ \A m \in fresh : state[m] = "unstarted"
         /\ \A m \in expired : state[m] \in {"unstarted", "started", "broadcasted"}
         /\ UNCHANGED <<n, contract, sender, hash, call, batch, tx, ids, sent, chain, seq, faults,
                        cancelled, lost>>
  BY DEF CommitBatch, CanUpdate, DbAllows, IInv, WorkerViewHolds

LEMMA LeftoversStep ==
  ASSUME IInv, LeftoversInv, [Next]_vars
  PROVE  LeftoversInv'
  <1>0. TypeOK /\ \A m \in Ids : m \in Int
    BY DEF IInv, Ids
  <1>1. ASSUME NEW c \in Callers, NEW s \in Senders, EnqueueInsert(c, s)
        PROVE  LeftoversInv'
    <2>1. InState("started")' = InState("started")
          /\ InState("unstarted")' = InState("unstarted") \cup {n + 1}
      BY <1>1, InsertFacts DEF InState
    <2>2. \A m \in InState("started") : m <= n
      BY RowsThere DEF InState
    <2>3. n \in Nat /\ n' = n + 1 /\ UNCHANGED <<pc, fresh, expired>>
      BY <1>1, InsertFacts
    <2>4. LeftoversFitOneBatch'
      BY <1>0, <2>1, <2>2, <2>3 DEF LeftoversInv, LeftoversFitOneBatch, InState
    <2>5. fresh \subseteq Ids
      BY <1>0 DEF TypeOK
    <2>6. pc = "batching" => \A m \in fresh : m <= n
      BY DEF LeftoversInv
    <2>7. pc = "batching" => \A m \in fresh : m <= n' /\ m < n + 1
      BY <1>0, <2>3, <2>5, <2>6
    <2> QED
      BY <2>1, <2>3, <2>4, <2>7 DEF LeftoversInv
  <1>2. CASE ReadBatch
    <2>1. PICK unstarted \in SUBSET InState("unstarted") :
            /\ Cardinality(InState("started")) + Cardinality(unstarted) <= MaxMsgsPerBatch
            /\ \A x \in unstarted, u \in InState("unstarted") : u < x => u \in unstarted
            /\ fresh' \subseteq unstarted
            /\ fresh' = batch' \cap unstarted
            /\ batch' \cup expired' = InState("started") \cup unstarted
            /\ pc' = "batching" /\ UNCHANGED <<n, state>>
      BY <1>2, ReadFacts
    <2>2. InState("started")' = InState("started") /\ InState("unstarted")' = InState("unstarted")
      BY <2>1 DEF InState
    <2>3. LeftoversFitOneBatch'
      BY <2>2 DEF LeftoversInv, LeftoversFitOneBatch
    <2>4. Cardinality(InState("started")) + Cardinality(fresh') <= MaxMsgsPerBatch
      <3>1. unstarted \in SUBSET Ids /\ fresh' \in SUBSET Ids
        BY <2>1 DEF InState
      <3>2. /\ Cardinality(fresh') \in Nat /\ Cardinality(unstarted) \in Nat
            /\ Cardinality(fresh') <= Cardinality(unstarted)
        BY <2>1, <3>1, IdsFinite
      <3>3. Cardinality(InState("started")) \in Nat
        BY IdsFinite DEF InState
      <3> QED
        BY <2>1, <3>2, <3>3, BoundsAssumption
    <2>5. \A m \in fresh' : m <= n'
      BY <2>1, RowsThere DEF InState
    <2>6. \A m \in fresh', u \in InState("unstarted") : u \in unstarted \/ m < u
      BY <1>0, <2>1 DEF InState
    <2>7. unstarted \subseteq fresh' \cup expired'
      BY <2>1
    <2> QED
      BY <2>1, <2>2, <2>3, <2>4, <2>5, <2>6, <2>7 DEF LeftoversInv
  <1>3. CASE CommitBatch
    <2>1. InState("started")' \subseteq InState("started") \cup fresh
      BY <1>3, CommitFacts DEF InState
    <2>2. InState("unstarted")' \subseteq InState("unstarted") \ (fresh \cup expired)
      BY <1>3, CommitFacts DEF InState
    <2>3. pc = "batching" /\ pc' # "batching"
      BY <1>3, CommitFacts
    <2>4. Cardinality(InState("started")') <= MaxMsgsPerBatch
      <3>1. /\ InState("started") \in SUBSET Ids /\ fresh \in SUBSET Ids
            /\ InState("started")' \in SUBSET Ids
        BY <1>0 DEF InState, TypeOK
      <3> DEFINE U == InState("started") \cup fresh
      <3>2. IsFiniteSet(InState("started")) /\ IsFiniteSet(fresh) /\ U \in SUBSET Ids
        BY <3>1, IdsFinite
      <3>3. Cardinality(U) = Cardinality(InState("started")) + Cardinality(fresh)
                               - Cardinality(InState("started") \cap fresh)
        BY <3>2, FS_Union
      <3>4. /\ Cardinality(InState("started")) \in Nat /\ Cardinality(fresh) \in Nat
            /\ Cardinality(InState("started") \cap fresh) \in Nat /\ Cardinality(U) \in Nat
            /\ Cardinality(InState("started")') \in Nat
            /\ Cardinality(InState("started")') <= Cardinality(U)
        <4>1. InState("started") \cap fresh \in SUBSET Ids
          BY <3>1
        <4> HIDE DEF U
        <4>2. InState("started")' \in SUBSET U
          BY <2>1 DEF U
        <4> QED
          BY <3>1, <3>2, <4>1, <4>2, IdsFinite
      <3>5. Cardinality(InState("started")) + Cardinality(fresh) <= MaxMsgsPerBatch
        BY <2>3 DEF LeftoversInv
      <3> HIDE DEF U
      <3> QED
        BY <3>3, <3>4, <3>5, BoundsAssumption
    <2>5. \A m \in InState("started"), u \in InState("unstarted") : m < u
      BY DEF LeftoversInv, LeftoversFitOneBatch
    <2>6. \A m \in fresh, u \in InState("unstarted") : u \in fresh \cup expired \/ m < u
      BY <2>3 DEF LeftoversInv
    <2>7. \A m \in InState("started")', u \in InState("unstarted")' : m < u
      BY <2>1, <2>2, <2>5, <2>6
    <2> QED
      BY <2>3, <2>4, <2>7 DEF LeftoversInv, LeftoversFitOneBatch
  <1>4. CASE StillWaiting /\ UNCHANGED n /\ (UNCHANGED <<pc, fresh, expired>> \/ pc' # "batching")
    BY <1>0, <1>4, FewerLeftovers
  <1> QED
    BY <1>1, <1>2, <1>3, <1>4, WaitingShrinks
-----------------------------------------------------------------------------
(* The order of an account's messages *)

LEMMA OrderInit == Init => OrderInv
  BY DEF Init, OrderInv

Sending == pc \in {"gasprice", "senders", "simulate", "sign", "broadcast", "commit", "poll"}

\* Steps that leave the batch alone and let nothing begin to wait.
LEMMA OrderKept ==
  ASSUME TypeOK, OrderInv, StillWaiting, UNCHANGED <<n, sender, batch>>,
         \/ UNCHANGED <<pc, expired, tx>>
         \/ pc' \notin {"batching", "simulate", "sign", "broadcast"} /\ (Sending' => Sending)
         \/ /\ pc \in {"simulate", "sign"} /\ pc' \in {"sign", "broadcast"}
            /\ tx'.sender = tx.sender
            /\ tx'.msgs \subseteq tx.msgs
            /\ \A m \in tx.msgs \ tx'.msgs : m \in Ids => ~Waiting(m)'
  PROVE  OrderInv'
  <1>1. \A m \in Ids : Waiting(m)' => Waiting(m)
    BY DEF StillWaiting, Waiting
  <1>2. /\ InState("started")' \subseteq InState("started")
        /\ InState("unstarted")' \subseteq InState("unstarted")
    BY DEF StillWaiting, Waiting, InState
  <1>3. batch \subseteq Ids
    BY DEF TypeOK
  <1>4. CASE UNCHANGED <<pc, expired, tx>>
    BY <1>1, <1>2, <1>4 DEF OrderInv
  <1>5. CASE pc' \notin {"batching", "simulate", "sign", "broadcast"} /\ (Sending' => Sending)
    BY <1>1, <1>5 DEF OrderInv, Sending
  <1>6. CASE /\ pc \in {"simulate", "sign"} /\ pc' \in {"sign", "broadcast"}
             /\ tx'.sender = tx.sender
             /\ tx'.msgs \subseteq tx.msgs
             /\ \A m \in tx.msgs \ tx'.msgs : m \in Ids => ~Waiting(m)'
    <2>1. \A m \in Ids, x \in batch :
             Waiting(m)' /\ m < x /\ sender'[m] = sender'[x] => m \in batch'
      BY <1>1, <1>6 DEF OrderInv
    <2>2. \A m \in Ids, x \in tx'.msgs :
             Waiting(m)' /\ m < x /\ sender'[m] = tx'.sender => m \in tx'.msgs
      BY <1>1, <1>6 DEF OrderInv
    <2> QED
      BY <1>6, <2>1, <2>2 DEF OrderInv
  <1> QED
    BY <1>4, <1>5, <1>6

LEMMA OrderStep ==
  ASSUME IInv, LeftoversInv, OrderInv, [Next]_vars
  PROVE  OrderInv'
  <1>0. TypeOK /\ (\A m \in Ids : m \in Int) /\ batch \subseteq Ids
    BY DEF IInv, TypeOK, Ids
  <1>1. ASSUME NEW c \in Callers, NEW s \in Senders, EnqueueInsert(c, s)
        PROVE  OrderInv'
    <2>1. /\ n \in Nat /\ n' = n + 1 /\ n + 1 \in Ids
          /\ \A m \in Ids : m # n + 1 => state'[m] = state[m] /\ sender'[m] = sender[m]
          /\ state'[n + 1] = "unstarted"
          /\ UNCHANGED <<pc, fresh, expired, batch, tx>>
      BY <1>1, InsertFacts
    <2>2. \A m \in Ids : m # n + 1 => (Waiting(m)' <=> Waiting(m))
      BY <2>1 DEF Waiting
    <2>3. CASE pc = "batching"
      <3>1. \A m \in batch : m <= n /\ m <= n'
        BY <1>0, <2>1, <2>3 DEF OrderInv
      <3>2. InState("started")' \subseteq InState("started")
            /\ InState("unstarted")' \subseteq InState("unstarted") \cup {n + 1}
        BY <2>1 DEF InState
      <3>3. \A u \in InState("unstarted")', x \in batch : u < x => u \in batch \cup expired
        <4>1. \A x \in batch : ~(n + 1 < x)
          BY <1>0, <2>1, <3>1
        <4> QED
          BY <2>3, <3>2, <4>1 DEF OrderInv
      <3> QED
        BY <2>1, <2>3, <3>1, <3>2, <3>3 DEF OrderInv
    <2>4. CASE Sending
      <3>1. \A x \in batch : x <= n
        <4>1. \A x \in batch : state[x] = "started"
          BY <2>4 DEF Sending, IInv, WorkerViewHolds
        <4> QED
          BY <1>0, <4>1, RowsThere
      <3>2. \A x \in batch : x # n + 1 /\ ~(n + 1 < x)
        BY <1>0, <2>1, <3>1
      <3>3. \A m \in Ids, x \in batch :
               Waiting(m)' /\ m < x /\ sender'[m] = sender'[x] => m \in batch
        <4>1. \A m \in Ids, x \in batch :
                 Waiting(m) /\ m < x /\ sender[m] = sender[x] => m \in batch
          BY <2>4 DEF OrderInv, Sending
        <4> QED
          BY <1>0, <2>1, <2>2, <3>2, <4>1
      <3>4. pc \in {"simulate", "sign", "broadcast"} =>
              \A m \in Ids, x \in tx.msgs :
                 Waiting(m)' /\ m < x /\ sender'[m] = tx.sender => m \in tx.msgs
        <4>1. SUFFICES ASSUME pc \in {"simulate", "sign", "broadcast"}
                       PROVE  \A m \in Ids, x \in tx.msgs :
                                Waiting(m)' /\ m < x /\ sender'[m] = tx.sender => m \in tx.msgs
          OBVIOUS
        <4>2. \A x \in tx.msgs : x \in Ids /\ state[x] = "started"
          BY <4>1, TxInMaking
        <4>3. \A x \in tx.msgs : ~(n + 1 < x)
          BY <1>0, <2>1, <4>2, RowsThere
        <4>4. \A m \in Ids, x \in tx.msgs :
                 Waiting(m) /\ m < x /\ sender[m] = tx.sender => m \in tx.msgs
          BY <4>1 DEF OrderInv
        <4> QED
          BY <2>1, <2>2, <4>3, <4>4
      <3> QED
        BY <2>1, <2>4, <3>3, <3>4 DEF OrderInv, Sending
    <2>5. CASE pc # "batching" /\ ~Sending
      BY <2>1, <2>5 DEF OrderInv, Sending
    <2> QED
      BY <2>3, <2>4, <2>5
  <1>2. CASE ReadBatch
    <2>1. PICK unstarted \in SUBSET InState("unstarted") :
            /\ \A x \in unstarted, u \in InState("unstarted") : u < x => u \in unstarted
            /\ batch' \cup expired' = InState("started") \cup unstarted
            /\ pc' = "batching" /\ UNCHANGED <<n, state, sender>>
      BY <1>2, ReadFacts
    <2>2. InState("started")' = InState("started") /\ InState("unstarted")' = InState("unstarted")
      BY <2>1 DEF InState
    <2>3. \A m \in batch' : m <= n
      BY <2>1, RowsThere DEF InState
    <2>4. \A u \in InState("unstarted"), x \in batch' : u < x => u \in batch' \cup expired'
      <3>1. \A u \in InState("unstarted"), x \in InState("started") : ~(u < x)
        BY <1>0 DEF LeftoversInv, LeftoversFitOneBatch, InState
      <3> QED
        BY <2>1, <3>1
    <2> QED
      BY <2>1, <2>2, <2>3, <2>4 DEF OrderInv
  <1>3. CASE CommitBatch
    <2>1. /\ pc = "batching" /\ pc' \in {"idle", "gasprice"}
          /\ \A m \in Ids : state'[m] = IF m \in fresh THEN "started"
                                        ELSE IF m \in expired THEN "errored" ELSE state[m]
          /\ \A m \in fresh : state[m] = "unstarted"
          /\ UNCHANGED <<sender, batch>> /\ fresh \cap expired = {}
      BY <1>3, CommitFacts
    <2>2. ASSUME NEW m \in Ids, NEW x \in batch, Waiting(m)', m < x
          PROVE  m \in batch
      <3>1. m \notin expired /\ Waiting(m)
        BY <2>1, <2>2 DEF Waiting
      <3>2. \/ m \in InState("started")
            \/ m \in InState("unstarted")
        BY <3>1 DEF Waiting, InState
      <3> QED
        BY <2>1, <2>2, <3>1, <3>2 DEF OrderInv
    <2> QED
      BY <2>1, <2>2 DEF OrderInv
  <1>4. ASSUME NEW s \in Senders, NextSender(s)
        PROVE  OrderInv'
    <2>1. /\ pc = "senders" /\ pc' = "simulate" /\ UNCHANGED <<n, state, sender>>
          /\ batch' = batch \ OfSender(s)
          /\ tx'.sender = s /\ tx'.msgs = OfSender(s)
      BY <1>4 DEF NextSender
    <2>2. \A m \in Ids, x \in batch :
             Waiting(m) /\ m < x /\ sender[m] = sender[x] => m \in batch
      BY <2>1 DEF OrderInv
    <2>3. \A m \in Ids : Waiting(m)' <=> Waiting(m)
      BY <2>1 DEF Waiting
    <2> QED
      BY <2>1, <2>2, <2>3 DEF OrderInv, OfSender
  <1>5. ASSUME NEW s \in Senders, SkipSender(s)
        PROVE  OrderInv'
    <2>1. /\ pc = "senders" /\ pc' = "senders" /\ UNCHANGED <<n, state, sender>>
          /\ batch' = batch \ OfSender(s)
      BY <1>5 DEF SkipSender
    <2>2. \A m \in Ids, x \in batch :
             Waiting(m) /\ m < x /\ sender[m] = sender[x] => m \in batch
      BY <2>1 DEF OrderInv
    <2>3. \A m \in Ids : Waiting(m)' <=> Waiting(m)
      BY <2>1 DEF Waiting
    <2> QED
      BY <2>1, <2>2, <2>3 DEF OrderInv, OfSender
  <1>6. ASSUME NEW failed \in SUBSET (IF tx = None THEN {} ELSE tx.msgs), Simulate(failed)
        PROVE  OrderInv'
    <2>1. /\ tx \in Tx /\ tx.msgs \subseteq Ids /\ pc = "simulate"
          /\ \A m \in tx.msgs : state[m] = "started"
          /\ failed \subseteq tx.msgs
      BY <1>6, TxInMaking DEF Simulate
    <2>2. /\ \A m \in Ids : /\ m \in failed => state'[m] = "errored"
                            /\ m \notin failed => state'[m] = state[m]
          /\ UNCHANGED <<n, sender, batch>>
      BY <1>6 DEF Simulate, UpdateMsgs, Updated
    <2>3. \/ pc' = "senders"
          \/ pc' = "sign" /\ tx'.sender = tx.sender /\ tx'.msgs = tx.msgs \ failed
      BY <1>6, <2>1 DEF Simulate, NextAfter, Tx
    <2>4. StillWaiting /\ \A m \in failed : ~Waiting(m)'
      BY <2>1, <2>2 DEF StillWaiting, Waiting
    <2>5. CASE pc' = "senders"
      BY <1>0, <2>1, <2>2, <2>4, <2>5, OrderKept DEF Sending
    <2>6. CASE pc' = "sign" /\ tx'.sender = tx.sender /\ tx'.msgs = tx.msgs \ failed
      <3>1. \A m \in tx.msgs \ tx'.msgs : m \in Ids => ~Waiting(m)'
        BY <2>4, <2>6
      <3>2. tx'.msgs \subseteq tx.msgs
        BY <2>6
      <3> QED
        BY <1>0, <2>1, <2>2, <2>4, <2>6, <3>1, <3>2, OrderKept
    <2> QED
      BY <2>3, <2>5, <2>6
  <1>7. CASE Sign
    <2>1. /\ pc = "sign" /\ pc' = "broadcast" /\ UNCHANGED <<n, state, sender, batch>>
          /\ tx \in Tx /\ tx' = [tx EXCEPT !.timeout = height + BlocksUntilTxTimeout]
      BY <1>7, TxInMaking DEF Sign
    <2>2. tx'.sender = tx.sender /\ tx'.msgs = tx.msgs
      BY <2>1 DEF Tx
    <2>3. StillWaiting /\ tx'.msgs \subseteq tx.msgs /\ tx.msgs \ tx'.msgs = {}
      BY <2>1, <2>2 DEF StillWaiting
    <2> QED
      BY <1>0, <2>1, <2>2, <2>3, OrderKept
  <1>8. ASSUME NEW c \in Callers, NEW k \in Contracts, EnqueueCancel(c, k)
        PROVE  OrderInv'
    <2>1. UNCHANGED <<n, sender, batch, pc, expired, tx>>
      BY <1>8 DEF EnqueueCancel
    <2>2. StillWaiting
      BY <1>8 DEF EnqueueCancel, UpdateMsgs, Updated, StillWaiting, Waiting
    <2> QED
      BY <1>0, <2>1, <2>2, OrderKept
  <1>9. ASSUME \/ \E c \in Callers : EnqueueFails(c) \/ EnqueueTrigger(c)
               \/ PollMiss \/ TimePasses \/ NewBlock \/ UNCHANGED vars
        PROVE  OrderInv'
    <2>1. UNCHANGED <<n, state, sender, batch, pc, expired, tx>>
      BY <1>9 DEF EnqueueFails, EnqueueTrigger, PollMiss, TimePasses, NewBlock, vars
    <2>2. StillWaiting
      BY <2>1 DEF StillWaiting
    <2> QED
      BY <1>0, <2>1, <2>2, OrderKept
  <1>10. ASSUME Start \/ Recover \/ RecoverFails \/ Regroup \/ RollbackBatch \/ GasPriceFails
                \/ Crash
         PROVE  OrderInv'
    <2>1. pc' \notin {"batching", "simulate", "sign", "broadcast"}
          /\ pc' \notin {"gasprice", "senders", "commit", "poll"}
      BY <1>10 DEF Start, Recover, RecoverFails, Regroup, RollbackBatch, GasPriceFails, Crash
    <2> QED
      BY <2>1 DEF OrderInv
  <1>11. ASSUME GasPrice \/ BatchDone \/ CombinedSimulationFails \/ SendFails \/ Broadcast
                \/ BroadcastLost \/ BroadcastRejected \/ CommitBroadcastFails
         PROVE  OrderInv'
    <2>1. /\ UNCHANGED <<n, state, sender, batch>>
          /\ pc' \notin {"batching", "simulate", "sign", "broadcast"} /\ Sending
      BY <1>11 DEF GasPrice, BatchDone, CombinedSimulationFails, SendFails, Broadcast,
           BroadcastLost, BroadcastRejected, CommitBroadcastFails, Abandon, Sending
    <2>2. StillWaiting
      BY <2>1 DEF StillWaiting
    <2> QED
      BY <1>0, <2>1, <2>2, OrderKept
  <1>12. CASE CommitBroadcast
    <2>1. /\ UNCHANGED <<n, sender, batch>> /\ pc' = "poll" /\ Sending
      BY <1>12 DEF CommitBroadcast, Sending
    <2>2. StillWaiting
      BY <1>12 DEF CommitBroadcast, UpdateMsgs, Updated, StillWaiting, Waiting
    <2> QED
      BY <1>0, <2>1, <2>2, OrderKept
  <1>13. ASSUME PollFound \/ PollsExhausted \/ ConfirmFails
         PROVE  OrderInv'
    <2>1. /\ UNCHANGED <<n, sender, batch>>
          /\ pc' \in {"senders", "regroup"} /\ (pc' = "senders" => pc = "poll")
      BY <1>13 DEF PollFound, PollsExhausted, ConfirmFails, ConfirmReturns, Polling
    <2>2. StillWaiting
      BY <1>13 DEF PollFound, PollsExhausted, ConfirmFails, ConfirmReturns, UpdateMsgs, Updated,
           StillWaiting, Waiting
    <2>3. Sending' => Sending
      BY <2>1 DEF Sending
    <2> QED
      BY <1>0, <2>1, <2>2, <2>3, OrderKept
  <1> QED
    BY <1>1, <1>2, <1>3, <1>4, <1>5, <1>6, <1>7, <1>8, <1>9, <1>10, <1>11, <1>12, <1>13
    DEF Next, Worker, Enqueue
-----------------------------------------------------------------------------
(* What a cancelled message is replaced by *)

LEMMA ReplacedInit == Init => ReplacedInv
  BY DEF Init, ReplacedInv, CancelledIsReplaced

LEMMA ReplacedStep ==
  ASSUME IInv, ReplacedInv, [Next]_vars
  PROVE  ReplacedInv'
  <1>0. TypeOK /\ (\A m \in Ids : m \in Int) /\ cancelled \subseteq Ids
    BY DEF IInv, TypeOK, Ids
  <1>1. ASSUME NEW c \in Callers, NEW s \in Senders, EnqueueInsert(c, s)
        PROVE  ReplacedInv'
    <2>1. /\ n \in Nat /\ n' = n + 1 /\ n + 1 \in Ids
          /\ \A m \in Ids : m # n + 1 => contract'[m] = contract[m]
          /\ contract'[n + 1] = call[c].contract
          /\ UNCHANGED <<cancelled, faults>>
      BY <1>1, InsertFacts
    <2>2. \A m \in Ids : m > n' => contract'[m] = None
      <3>1. \A m \in Ids : m > n' => m # n + 1 /\ m > n
        BY <1>0, <2>1
      <3> QED
        BY <2>1, <3>1 DEF ReplacedInv
    <2>3. \A m \in cancelled : m <= n /\ contract[m] # None
      BY DEF ReplacedInv
    <2>4. \A m \in cancelled : m # n + 1 /\ m < n + 1 /\ m <= n' /\ contract'[m] = contract[m]
      BY <1>0, <2>1, <2>3
    <2>5. ASSUME faults = 0, NEW m \in cancelled
          PROVE  \/ \E x \in Ids : m < x /\ contract'[x] = contract[m]
                 \/ \E d \in Callers : call'[d] = [pc |-> "insert", contract |-> contract[m]]
      <3>1. CASE \E x \in Ids : m < x /\ contract[x] = contract[m]
        <4>1. PICK x \in Ids : m < x /\ contract[x] = contract[m]
          BY <3>1
        <4>2. x # n + 1
          <5>1. contract[n + 1] = None
            <6>1. n + 1 > n
              BY <2>1
            <6> QED
              BY <2>1, <6>1 DEF ReplacedInv
          <5> QED
            BY <2>3, <4>1, <5>1
        <4> QED
          BY <2>1, <4>1, <4>2
      <3>2. ASSUME NEW d \in Callers, call[d] = [pc |-> "insert", contract |-> contract[m]]
            PROVE  \/ \E x \in Ids : m < x /\ contract'[x] = contract[m]
                   \/ \E e \in Callers : call'[e] = [pc |-> "insert", contract |-> contract[m]]
        <4>1. CASE d = c
          <5>1. contract'[n + 1] = contract[m]
            BY <2>1, <3>2, <4>1
          <5> QED
            BY <2>1, <2>4, <5>1
        <4>2. CASE d # c
          <5>1. call'[d] = call[d]
            BY <1>0, <1>1, <4>2 DEF EnqueueInsert, Calling, TypeOK
          <5> QED
            BY <3>2, <5>1
        <4> QED
          BY <4>1, <4>2
      <3> QED
        BY <2>5, <3>1, <3>2 DEF ReplacedInv, CancelledIsReplaced
    <2> QED
      BY <2>1, <2>2, <2>3, <2>4, <2>5 DEF ReplacedInv, CancelledIsReplaced
  <1>2. ASSUME NEW c \in Callers, NEW k \in Contracts, EnqueueCancel(c, k)
        PROVE  ReplacedInv'
    <2>1. /\ call[c].pc = "idle" /\ UNCHANGED <<n, contract, faults>>
          /\ cancelled' = cancelled \cup Superseded(k)
          /\ call' = [call EXCEPT ![c] = [pc |-> "insert", contract |-> k]]
      BY <1>2 DEF EnqueueCancel, Calling
    <2>2. \A m \in Superseded(k) : m \in Ids /\ m <= n /\ contract[m] = k
      BY RowsThere DEF Superseded, InState
    <2>3. k # None
      BY NoneNotTx
    <2>4. call'[c] = [pc |-> "insert", contract |-> k]
          /\ \A d \in Callers : d # c => call'[d] = call[d]
      BY <1>0, <2>1 DEF TypeOK
    <2>5. \A m \in cancelled : m <= n /\ contract[m] # None
      BY DEF ReplacedInv
    <2>6. \A m \in cancelled' : m <= n /\ contract[m] # None
      BY <2>1, <2>2, <2>3, <2>5
    <2>7. ASSUME faults = 0, NEW m \in cancelled'
          PROVE  \/ \E x \in Ids : m < x /\ contract[x] = contract[m]
                 \/ \E d \in Callers : call'[d] = [pc |-> "insert", contract |-> contract[m]]
      <3>1. CASE m \in Superseded(k)
        BY <2>2, <2>4, <3>1
      <3>2. CASE m \in cancelled
        <4>1. \A d \in Callers : call[d] = [pc |-> "insert", contract |-> contract[m]] => d # c
          BY <2>1
        <4> QED
          BY <2>4, <2>7, <3>2, <4>1 DEF ReplacedInv, CancelledIsReplaced
      <3> QED
        BY <2>1, <3>1, <3>2
    <2> QED
      BY <2>1, <2>6, <2>7 DEF ReplacedInv, CancelledIsReplaced
  <1>3. ASSUME NEW c \in Callers, EnqueueTrigger(c)
        PROVE  ReplacedInv'
    <2>1. /\ call[c].pc = "trigger" /\ UNCHANGED <<n, contract, cancelled, faults>>
          /\ \A d \in Callers : d # c => call'[d] = call[d]
      BY <1>0, <1>3 DEF EnqueueTrigger, Calling, TypeOK
    <2>2. \A m \in cancelled, d \in Callers :
             call[d] = [pc |-> "insert", contract |-> contract[m]] => call'[d] = call[d]
      BY <2>1
    <2> QED
      BY <2>1, <2>2 DEF ReplacedInv, CancelledIsReplaced
  <1>4. ASSUME UNCHANGED <<n, contract, cancelled>>,
               UNCHANGED call \/ faults' # 0, faults' = 0 => faults = 0
        PROVE  ReplacedInv'
    BY <1>4 DEF ReplacedInv, CancelledIsReplaced
  <1>5. faults \in Nat
    BY <1>0 DEF TypeOK
  <1>6. ASSUME NEW c \in Callers, EnqueueFails(c)
        PROVE  ReplacedInv'
    BY <1>4, <1>5, <1>6 DEF EnqueueFails, Fault
  <1>7. ASSUME Worker
        PROVE  ReplacedInv'
    <2>1. UNCHANGED <<n, contract, cancelled, call>>
      BY <1>7 DEF Worker, Start, Recover, RecoverFails, Regroup, ReadBatch, CommitBatch,
           RollbackBatch, GasPrice, GasPriceFails, BatchDone, NextSender, SkipSender, Simulate,
           CombinedSimulationFails, SendFails, Sign, Broadcast, BroadcastLost,
           BroadcastRejected, CommitBroadcast, CommitBroadcastFails, Abandon, PollMiss,
           PollFound, PollsExhausted, ConfirmFails, ConfirmReturns
    <2>2. faults' \in {faults, faults + 1}
      BY <1>7 DEF Worker, Start, Recover, RecoverFails, Regroup, ReadBatch, CommitBatch,
           RollbackBatch, GasPrice, GasPriceFails, BatchDone, NextSender, SkipSender, Simulate,
           CombinedSimulationFails, SendFails, Sign, Broadcast, BroadcastLost,
           BroadcastRejected, CommitBroadcast, CommitBroadcastFails, Abandon, PollMiss,
           PollFound, PollsExhausted, ConfirmFails, ConfirmReturns, UpdateFails, Fault
    <2> QED
      BY <1>4, <1>5, <2>1, <2>2
  <1>8. ASSUME Crash \/ TimePasses \/ NewBlock \/ UNCHANGED vars
        PROVE  ReplacedInv'
    BY <1>4, <1>5, <1>8 DEF Crash, TimePasses, NewBlock, vars, Fault
  <1> QED
    BY <1>1, <1>2, <1>3, <1>6, <1>7, <1>8 DEF Next, Enqueue
-----------------------------------------------------------------------------
(* What recovery leaves *)

Reliable == FaultKinds \cap {"db", "client"} = {}

Calm == pc \in {"idle", "batching", "gasprice", "senders", "simulate", "sign", "broadcast", "commit"}

LEMMA RecoveryInit == Init => RecoveryInv
  BY DEF Init, RecoveryInv

LEMMA RecoveryStep ==
  ASSUME IInv, RecoveryInv, [Next]_vars
  PROVE  RecoveryInv'
  <1>1. SUFFICES ASSUME Reliable
                 PROVE  /\ Calm' => InState("broadcasted")' = {}
                        /\ pc' = "poll" => InState("broadcasted")' \subseteq ids'
    BY DEF RecoveryInv, Reliable, Calm
  <1>2. /\ Calm => InState("broadcasted") = {}
        /\ pc = "poll" => InState("broadcasted") \subseteq ids
    BY <1>1 DEF RecoveryInv, Reliable, Calm
  <1>3. ~Fault("db") /\ ~Fault("client")
    BY <1>1 DEF Reliable, Fault
  <1> DEFINE Goal == /\ Calm' => InState("broadcasted")' = {}
                     /\ pc' = "poll" => InState("broadcasted")' \subseteq ids'
  <1>4. ASSUME InState("broadcasted")' \subseteq InState("broadcasted"),
               Calm' => Calm, pc' = "poll" => pc = "poll" /\ ids' = ids
        PROVE  Goal
    BY <1>2, <1>4
  <1>5. ASSUME NEW c \in Callers, Enqueue(c)
        PROVE  Goal
    <2>1. InState("broadcasted")' \subseteq InState("broadcasted")
      <3>1. ASSUME NEW k \in Contracts, EnqueueCancel(c, k)
            PROVE  InState("broadcasted")' \subseteq InState("broadcasted")
        BY <3>1 DEF EnqueueCancel, UpdateMsgs, Updated, InState
      <3>2. ASSUME NEW s \in Senders, EnqueueInsert(c, s)
            PROVE  InState("broadcasted")' \subseteq InState("broadcasted")
        BY <3>2, InsertFacts DEF InState
      <3>3. ASSUME EnqueueFails(c) \/ EnqueueTrigger(c)
            PROVE  InState("broadcasted")' \subseteq InState("broadcasted")
        BY <3>3 DEF EnqueueFails, EnqueueTrigger, InState
      <3> QED
        BY <1>5, <3>1, <3>2, <3>3 DEF Enqueue
    <2>2. UNCHANGED <<pc, ids>>
      BY <1>5 DEF Enqueue, EnqueueCancel, EnqueueInsert, EnqueueFails, EnqueueTrigger
    <2> QED
      BY <1>4, <2>1, <2>2 DEF Calm
  <1>6. ASSUME PollMiss \/ TimePasses \/ NewBlock \/ UNCHANGED vars
        PROVE  Goal
    <2>1. UNCHANGED <<state, pc, ids>>
      BY <1>6 DEF PollMiss, TimePasses, NewBlock, vars
    <2> QED
      BY <1>4, <2>1 DEF Calm, InState
  <1>7. ASSUME \/ ReadBatch \/ RollbackBatch \/ GasPrice \/ GasPriceFails \/ BatchDone
               \/ \E s \in Senders : NextSender(s) \/ SkipSender(s)
               \/ CombinedSimulationFails \/ SendFails \/ Sign \/ Broadcast \/ BroadcastLost
               \/ BroadcastRejected \/ CommitBroadcastFails
        PROVE  Goal
    <2>1. UNCHANGED state /\ Calm /\ pc' # "poll"
      BY <1>7 DEF ReadBatch, RollbackBatch, GasPrice, GasPriceFails, BatchDone, NextSender,
           SkipSender, CombinedSimulationFails, SendFails, Sign, Broadcast, BroadcastLost,
           BroadcastRejected, CommitBroadcastFails, Abandon, Calm
    <2> QED
      BY <1>4, <2>1 DEF InState
  <1>8. ASSUME CommitBatch
        PROVE  Goal
    <2>1. InState("broadcasted")' \subseteq InState("broadcasted") /\ Calm /\ pc' # "poll"
      BY <1>8, CommitFacts DEF InState, Calm
    <2> QED
      BY <1>4, <2>1
  <1>9. ASSUME NEW failed, Simulate(failed)
        PROVE  Goal
    <2>1. InState("broadcasted")' \subseteq InState("broadcasted") /\ Calm /\ pc' # "poll"
      BY <1>9 DEF Simulate, UpdateMsgs, Updated, NextAfter, InState, Calm
    <2> QED
      BY <1>4, <2>1
  <1>10. ASSUME Start \/ Regroup \/ Crash
         PROVE  Goal
    <2>1. pc' \in {"recover", "repoll", "down"}
      BY <1>10 DEF Start, Regroup, Crash
    <2> QED
      BY <2>1 DEF Calm
  <1>11. ASSUME Recover
        PROVE  Goal
    <2>1. InState("broadcasted") \in SUBSET Ids /\ MaxMsgsPerBatch \in Nat \ {0}
      BY BoundsAssumption DEF InState
    <2>2. pc' = "idle" => InState("broadcasted") = {}
      BY <1>11, <2>1, OldestTakesOne DEF Recover
    <2>3. pc' \in {"idle", "regroup"} /\ UNCHANGED state
      BY <1>11 DEF Recover
    <2> QED
      BY <2>2, <2>3 DEF Calm, InState
  <1>12. ~RecoverFails
    BY <1>3 DEF RecoverFails
  <1>13. ASSUME CommitBroadcast
        PROVE  Goal
    <2>1. InState("broadcasted") = {} /\ pc' = "poll" /\ ids' = tx.msgs
      BY <1>2, <1>13 DEF CommitBroadcast, Calm
    <2>2. InState("broadcasted")' \subseteq InState("broadcasted") \cup tx.msgs
      BY <1>13 DEF CommitBroadcast, UpdateMsgs, Updated, InState
    <2> QED
      BY <2>1, <2>2 DEF Calm
  <1>14. ASSUME PollFound \/ PollsExhausted
        PROVE  Goal
    <2>1. /\ pc \in {"poll", "repoll"}
          /\ pc' = IF pc = "poll" THEN "senders" ELSE "regroup"
      BY <1>14 DEF PollFound, PollsExhausted, ConfirmReturns, Polling
    <2>2. InState("broadcasted")' \subseteq InState("broadcasted") \ ids
      BY <1>14 DEF PollFound, PollsExhausted, UpdateMsgs, Updated, InState
    <2> QED
      BY <1>2, <2>1, <2>2 DEF Calm
  <1>15. ~ConfirmFails
    <2>1. SUFFICES ASSUME ConfirmFails PROVE FALSE
      OBVIOUS
    <2>2. \A m \in ids : state[m] = "broadcasted"
      BY <2>1 DEF ConfirmFails, Polling, IInv, WorkerViewHolds
    <2>3. CanUpdate(ids, "errored") /\ CanUpdate(ids, "confirmed")
      BY <2>2 DEF CanUpdate, DbAllows
    <2> QED
      BY <1>3, <2>1, <2>3 DEF ConfirmFails, UpdateFails
  <1> HIDE DEF Goal
  <1>16. Goal
    <2>1. ASSUME Worker
          PROVE  Goal
      BY <2>1, <1>6, <1>7, <1>8, <1>9, <1>10, <1>11, <1>12, <1>13, <1>14, <1>15 DEF Worker
    <2> QED
      BY <2>1, <1>5, <1>6, <1>10 DEF Next
  <1> QED
    BY <1>16 DEF Goal
-----------------------------------------------------------------------------
(* Sequence numbers *)

\* What the manager gave up it does not take back.
LEMMA GivenUpStays ==
  ASSUME IInv, [Next]_vars
  PROVE  /\ lost \subseteq lost'
         /\ \A m \in Ids : state[m] = "errored" => state'[m] = "errored"
         /\ \A m \in Ids : state'[m] = "confirmed" =>
              \/ state[m] = "confirmed" /\ hash'[m] = hash[m]
              \/ hash'[m] \in chain /\ UNCHANGED <<chain, sent>>
         /\ sent' = sent \/ Broadcast \/ BroadcastLost
         /\ UNCHANGED <<chain, seq>> \/ NewBlock
  <1> DEFINE Goal == /\ lost \subseteq lost'
                     /\ \A m \in Ids : state[m] = "errored" => state'[m] = "errored"
                     /\ \A m \in Ids : state'[m] = "confirmed" =>
                          \/ state[m] = "confirmed" /\ hash'[m] = hash[m]
                          \/ hash'[m] \in chain /\ UNCHANGED <<chain, sent>>
                     /\ sent' = sent \/ Broadcast \/ BroadcastLost
                     /\ UNCHANGED <<chain, seq>> \/ NewBlock
  <1>1. ASSUME NEW c \in Callers, NEW k \in Contracts, EnqueueCancel(c, k)
        PROVE  Goal
    BY <1>1 DEF EnqueueCancel, UpdateMsgs, Updated
  <1>2. ASSUME NEW c \in Callers, NEW s \in Senders, EnqueueInsert(c, s)
        PROVE  Goal
    <2>1. /\ state[n + 1] = "absent" /\ state'[n + 1] = "unstarted"
          /\ \A m \in Ids : m # n + 1 => state'[m] = state[m]
          /\ UNCHANGED <<hash, sent, chain, seq, lost>>
      BY <1>2, InsertFacts
    <2> QED
      BY <2>1
  <1>3. ASSUME \/ \E c \in Callers : EnqueueFails(c) \/ EnqueueTrigger(c)
               \/ Start \/ Recover \/ RecoverFails \/ Regroup \/ ReadBatch \/ RollbackBatch
               \/ GasPrice \/ GasPriceFails \/ BatchDone
               \/ \E s \in Senders : NextSender(s) \/ SkipSender(s)
               \/ CombinedSimulationFails \/ SendFails \/ Sign \/ BroadcastRejected
               \/ CommitBroadcastFails \/ PollMiss \/ ConfirmFails
               \/ Crash \/ TimePasses \/ UNCHANGED vars
        PROVE  Goal
    <2>1. UNCHANGED <<state, hash, sent, chain, seq>> /\ lost \subseteq lost'
      BY <1>3
      DEF EnqueueFails, EnqueueTrigger, Start, Recover, RecoverFails, Regroup, ReadBatch,
          RollbackBatch, GasPrice, GasPriceFails, BatchDone, NextSender, SkipSender,
          CombinedSimulationFails, SendFails, Sign, BroadcastRejected, CommitBroadcastFails,
          Abandon, PollMiss, ConfirmFails, ConfirmReturns, Crash, TimePasses, vars
    <2> QED
      BY <2>1
  <1>4. ASSUME CommitBatch
        PROVE  Goal
    BY <1>4, CommitFacts
  <1>5. ASSUME NEW failed \in SUBSET (IF tx = None THEN {} ELSE tx.msgs), Simulate(failed)
        PROVE  Goal
    BY <1>5, TxInMaking DEF Simulate, UpdateMsgs, Updated
  <1>6. ASSUME Broadcast \/ BroadcastLost
        PROVE  Goal
    BY <1>6 DEF Broadcast, BroadcastLost, Abandon
  <1>7. ASSUME CommitBroadcast
        PROVE  Goal
    BY <1>7, TxInMaking DEF CommitBroadcast, UpdateMsgs, Updated
  <1>8. ASSUME PollFound \/ PollsExhausted
        PROVE  Goal
    <2>1. \A m \in ids : state[m] = "broadcasted" /\ hash[m] = tx
      BY <1>8 DEF PollFound, PollsExhausted, Polling, IInv, WorkerViewHolds
    <2>2. UNCHANGED <<hash, sent, chain, seq, lost>>
      BY <1>8 DEF PollFound, PollsExhausted, ConfirmReturns
    <2>3. CASE PollFound
      <3>1. tx \in chain /\ \A m \in Ids : state'[m] = IF m \in ids THEN "confirmed" ELSE state[m]
        BY <2>3 DEF PollFound, Found, UpdateMsgs, Updated
      <3> QED
        BY <2>1, <2>2, <3>1
    <2>4. CASE PollsExhausted
      <3>1. \A m \in Ids : state'[m] = IF m \in ids THEN "errored" ELSE state[m]
        BY <2>4 DEF PollsExhausted, UpdateMsgs, Updated
      <3> QED
        BY <2>1, <2>2, <3>1
    <2> QED
      BY <1>8, <2>3, <2>4
  <1>9. ASSUME NewBlock
        PROVE  Goal
    BY <1>9 DEF NewBlock
  <1> HIDE DEF Goal
  <1>10. Goal
    <2>1. ASSUME Worker
          PROVE  Goal
      BY <2>1, <1>3, <1>4, <1>5, <1>6, <1>7, <1>8 DEF Worker
    <2>2. ASSUME NEW c \in Callers, Enqueue(c)
          PROVE  Goal
      BY <2>2, <1>1, <1>2, <1>3 DEF Enqueue
    <2> QED
      BY <2>1, <2>2, <1>3, <1>9 DEF Next
  <1> QED
    BY <1>10 DEF Goal

LEMMA SequenceInit == Init => SequenceInv
  BY DEF Init, SequenceInv, SequenceReusedOnlyAfterGivingUp

GivenUp(t) == \A m \in t.msgs : m \in lost \/ state[m] = "errored"

\* A sequence number the node takes was used by no transaction that still
\* counts on it.
LEMMA EarlierGivenUp ==
  ASSUME IInv, RecoveryInv, SequenceInv, Reliable, pc = "broadcast",
         tx.sn >= seq[tx.sender],
         NEW u \in sent, u.sender = tx.sender, u.sn = tx.sn
  PROVE  GivenUp(u)
  <1>1. SUFFICES ASSUME NEW m \in u.msgs, m \notin lost, state[m] # "errored"
                 PROVE  FALSE
    BY DEF GivenUp
  <1>2. m \in Ids /\ u \in Tx
    BY SentMsgs DEF IInv
  <1>3. state[m] \notin {"absent", "unstarted"}
    BY DEF IInv, NetInv
  <1>4. state[m] # "started"
    BY <1>1, <1>2 DEF IInv, TableMatchesNetwork
  <1>5. state[m] # "broadcasted"
    <2>1. InState("broadcasted") = {}
      BY DEF RecoveryInv, Reliable
    <2> QED
      BY <1>2, <2>1 DEF InState
  <1>6. state[m] = "confirmed"
    BY <1>1, <1>2, <1>3, <1>4, <1>5 DEF IInv, TypeOK, State
  <1>7. hash[m] \in sent /\ m \in hash[m].msgs /\ hash[m] \in chain
    BY <1>2, <1>6 DEF IInv, TableMatchesNetwork, SequenceInv
  <1>8. hash[m] = u
    BY <1>1, <1>7 DEF IInv, ResentOnlyAfterLostAnswer
  <1>9. u.sn < seq[u.sender]
    BY <1>7, <1>8 DEF SequenceInv
  <1>10. u.sn \in Nat /\ seq[u.sender] \in Nat
    BY <1>2 DEF IInv, TypeOK, Tx
  <1> QED
    BY <1>9, <1>10

LEMMA SequenceStep ==
  ASSUME IInv, RecoveryInv, SequenceInv, [Next]_vars
  PROVE  SequenceInv'
  <1>0. TypeOK
    BY DEF IInv
  <1>1. sent \subseteq sent' /\ lost \subseteq lost'
    BY GivenUpStays DEF Broadcast, BroadcastLost
  <1>2. \A t \in chain' : t \in sent' /\ t.sn < seq'[t.sender]
    <2>1. \A t \in chain : t \in sent /\ t.sn < seq[t.sender]
      BY DEF SequenceInv
    <2>2. CASE UNCHANGED <<chain, seq>>
      BY <1>1, <2>1, <2>2
    <2>3. CASE NewBlock
      <3>1. PICK S \in SUBSET Includable :
               /\ chain' = chain \cup S
               /\ seq' = [s \in Senders |-> IF \E t \in S : t.sender = s THEN seq[s] + 1 ELSE seq[s]]
        BY <2>3 DEF NewBlock
      <3>2. \A t \in sent : t.sender \in Senders /\ t.sn \in Nat /\ seq[t.sender] \in Nat
        BY <1>0 DEF TypeOK, Tx
      <3>3. \A t \in S : t \in sent /\ t.sn = seq[t.sender]
        BY DEF Includable
      <3>4. \A t \in S : t.sn < seq'[t.sender]
        BY <3>1, <3>2, <3>3
      <3>5. \A t \in chain : t.sn < seq'[t.sender]
        BY <2>1, <3>1, <3>2
      <3> QED
        BY <1>1, <2>1, <3>1, <3>3, <3>4, <3>5
    <2> QED
      BY <2>2, <2>3, GivenUpStays
  <1>3. \A m \in Ids : state'[m] = "confirmed" => hash'[m] \in chain'
    <2>1. chain \subseteq chain'
      BY GivenUpStays DEF NewBlock
    <2> QED
      BY <2>1, GivenUpStays DEF SequenceInv
  <1>4. ASSUME Reliable
        PROVE  SequenceReusedOnlyAfterGivingUp'
    <2>1. \A t \in sent : GivenUp(t) => GivenUp(t)'
      <3>1. \A t \in sent : t.msgs \subseteq Ids
        BY <1>0, SentMsgs
      <3> QED
        BY <1>1, <3>1, GivenUpStays DEF GivenUp
    <2>2. \A t, u \in sent :
             t # u /\ t.sender = u.sender /\ t.sn = u.sn => GivenUp(t)' \/ GivenUp(u)'
      BY <1>4, <2>1 DEF SequenceInv, SequenceReusedOnlyAfterGivingUp, Reliable, GivenUp
    <2>3. CASE sent' = sent
      BY <2>2, <2>3 DEF SequenceReusedOnlyAfterGivingUp, GivenUp
    <2>4. CASE Broadcast \/ BroadcastLost
      <3>1. pc = "broadcast" /\ tx.sn >= seq[tx.sender] /\ sent' = sent \cup {tx}
        BY <2>4 DEF Broadcast, BroadcastLost
      <3>2. \A u \in sent : u.sender = tx.sender /\ u.sn = tx.sn => GivenUp(u)'
        BY <1>4, <2>1, <3>1, EarlierGivenUp
      <3>3. \A t, u \in sent' :
              t # u /\ t.sender = u.sender /\ t.sn = u.sn => GivenUp(t)' \/ GivenUp(u)'
        BY <2>2, <3>1, <3>2
      <3> QED
        BY <3>3 DEF SequenceReusedOnlyAfterGivingUp, GivenUp
    <2> QED
      BY <2>3, <2>4, GivenUpStays
  <1> QED
    BY <1>2, <1>3, <1>4 DEF SequenceInv, Reliable
-----------------------------------------------------------------------------
(* The theorems *)

\* The inductive invariant: that of Txm_proofs and those of this module.
AllInv == IInv /\ LeftoversInv /\ OrderInv /\ ReplacedInv /\ RecoveryInv /\ SequenceInv

LEMMA AllInvariant == Spec => []AllInv
  <1>1. Init => AllInv
    BY InitIInv, LeftoversInit, OrderInit, ReplacedInit, RecoveryInit, SequenceInit DEF AllInv
  <1>2. AllInv /\ [Next]_vars => AllInv'
    BY NextIInv, LeftoversStep, OrderStep, ReplacedStep, RecoveryStep, SequenceStep DEF AllInv
  <1> QED
    BY <1>1, <1>2, PTL DEF Spec

\* What is Started fits one batch and is older than what is Unstarted, for any
\* size of a batch (sendMsgBatch: the Started are read first, the Unstarted
\* fill the rest).
THEOREM LeftoversFit == Spec => []LeftoversFitOneBatch
  <1>1. AllInv => LeftoversFitOneBatch
    BY DEF AllInv, LeftoversInv
  <1> QED
    BY <1>1, AllInvariant, PTL

\* A cancelled message has a newer one, or one about to be inserted, as long
\* as no fault struck (Enqueue run by any number of callers).
THEOREM CancelledReplaced == Spec => []CancelledIsReplaced
  <1>1. AllInv => CancelledIsReplaced
    BY DEF AllInv, ReplacedInv
  <1> QED
    BY <1>1, AllInvariant, PTL

\* Recovery leaves nothing Broadcasted, unless the database or the client
\* fails (confirmAnyUnconfirmed, confirmTx).
THEOREM NothingStranded == Spec => [](Reliable => NoneStranded)
  <1>1. AllInv => (Reliable => NoneStranded)
    BY DEF AllInv, RecoveryInv, Reliable, NoneStranded
  <1> QED
    BY <1>1, AllInvariant, PTL

\* A sequence number is used again only after the manager gave up the earlier
\* transaction, unless the database or the client fails
\* (sendMsgBatchFromAddress, confirmTx).
THEOREM SequencesReused == Spec => [](Reliable => SequenceReusedOnlyAfterGivingUp)
  <1>1. AllInv => (Reliable => SequenceReusedOnlyAfterGivingUp)
    BY DEF AllInv, SequenceInv, Reliable
  <1> QED
    BY <1>1, AllInvariant, PTL

LEMMA BroadcastOldestFirst ==
  ASSUME AllInv, [Next]_vars, NEW t \in sent' \ sent, NEW m \in Ids,
         sender[m] = t.sender, state[m] \in {"unstarted", "started"}, \E x \in t.msgs : m < x
  PROVE  m \in t.msgs
  <1>1. Broadcast \/ BroadcastLost
    BY GivenUpStays DEF AllInv
  <1>2. t = tx /\ pc = "broadcast"
    BY <1>1 DEF Broadcast, BroadcastLost
  <1> QED
    BY <1>2 DEF AllInv, OrderInv, Waiting

\* Messages of an account reach the network oldest first (the order of
\* GetMsgsState, kept by every step from the reads to the broadcast).
THEOREM OldestFirst == Spec => SendsOldestFirst
  <1>1. AllInv /\ [Next]_vars =>
          \A t \in sent' \ sent, m \in Ids :
            (/\ sender[m] = t.sender
             /\ state[m] \in {"unstarted", "started"}
             /\ \E x \in t.msgs : m < x) => m \in t.msgs
    BY BroadcastOldestFirst
  <1> QED
    BY <1>1, AllInvariant, PTL DEF Spec, SendsOldestFirst
=============================================================================
