-------------------------------- MODULE Txm --------------------------------
(***************************************************************************)
(* The transaction manager of the Cosmos relay (pkg/cosmos/txm): callers   *)
(* enqueue messages in a database table, one worker goroutine batches      *)
(* them, simulates, signs and broadcasts a transaction per sender, and     *)
(* polls until the transaction is found on chain or given up.              *)
(*                                                                         *)
(* Simplifications:                                                        *)
(*  - a message is its identifier; identifiers are given in insertion      *)
(*    order, so ORDER BY id and the sort by creation time agree;           *)
(*  - a transaction is its content, so its hash is the transaction itself; *)
(*  - the age of a message is the counter old: messages 1..old were        *)
(*    created more than TxMsgTimeout ago;                                  *)
(*  - what simulation accepts is chosen freely; a transaction counts as    *)
(*    executed when a block includes it;                                   *)
(*  - Close stops the worker between two steps: its effect on the database *)
(*    and the network is that of Crash, except that callers go on.         *)
(***************************************************************************)
EXTENDS Integers, FiniteSets

CONSTANTS
  Contracts,             \* values of contract_id ("" for plain transfers)
  Senders,               \* accounts the keystore signs for
  Callers,               \* goroutines that call Enqueue
  None,                  \* no value yet
  MaxMsgsPerBatch,       \* config MaxMsgsPerBatch
  MaxPolls,              \* what confirmPollConfig computes
  BlocksUntilTxTimeout,  \* config BlocksUntilTxTimeout
  FaultKinds,            \* which of "crash", "db", "rpc", "client" may happen
  MaxMsgs,               \* bound: messages ever enqueued
  MaxHeight,             \* bound: blocks
  MaxFaults              \* bound: faults

Ids == 1 .. MaxMsgs

\* A signed transaction: account, sequence number, messages, timeout height.
Tx == [sender : Senders, sn : Nat, msgs : SUBSET Ids, timeout : Nat]

ASSUME BoundsAssumption ==
  /\ MaxMsgs \in Nat /\ MaxHeight \in Nat /\ MaxFaults \in Nat
  /\ MaxMsgsPerBatch \in Nat \ {0}
  /\ MaxPolls \in Nat
  /\ BlocksUntilTxTimeout \in Nat
ASSUME NoneAssumption == None \notin Contracts \cup Senders \cup Tx

VARIABLES
  (* the cosmos_msgs table *)
  n,          \* messages inserted so far: the last id
  state,      \* state[m]: column state, "absent" before the row exists
  contract,   \* contract[m]: column contract_id
  sender,     \* sender[m]: the account inside column raw
  hash,       \* hash[m]: column tx_hash
  (* the process *)
  newMsgs,    \* requests buffered in channel newMsgs (capacity 1)
  call,       \* call[c]: progress of caller c inside Enqueue
  pc,         \* where the worker goroutine is
  fresh,      \* msgs.valid read as Unstarted, to be marked Started
  expired,    \* msgs.expired, to be marked Errored
  batch,      \* messages of the current batch not yet handled
  tx,         \* the transaction being built, broadcast or confirmed
  ids,        \* the messages confirmTx settles
  polls,      \* tries made by confirmTx
  (* outside *)
  old,        \* messages 1..old are older than TxMsgTimeout
  height,     \* height of the chain
  seq,        \* seq[s]: sequence number of account s on chain
  sent,       \* transactions some node of the network accepted
  chain,      \* transactions included in a block
  faults,     \* faults so far
  (* history *)
  cancelled,  \* messages errored by a later Enqueue for their contract
  lost        \* messages accepted by the network, unknown to the database

table   == <<n, state, contract, sender, hash>>
locals  == <<fresh, expired, batch, tx, ids, polls>>
network == <<height, seq, sent, chain>>
history == <<cancelled, lost>>
vars == <<table, newMsgs, call, pc, locals, old, network, faults, history>>

State == {"absent", "unstarted", "started", "broadcasted", "confirmed", "errored"}
PC == {"down", "recover", "regroup", "repoll", "idle", "batching", "gasprice",
       "senders", "simulate", "sign", "broadcast", "commit", "poll"}
CallState == [pc : {"idle", "insert", "trigger"}, contract : Contracts \cup {None}]
-----------------------------------------------------------------------------
(* The database *)

InState(st) == {m \in Ids : state[m] = st}

\* Mutant: ORDER BY id DESC.
Newest(S, k) == {m \in S : Cardinality({x \in S : x > m}) < k}

\* GetMsgsState: the k rows of S with the smallest ids.
Oldest(S, k) == {m \in S : Cardinality({x \in S : x < m}) < k}

\* Mutant: the table takes any transition.
DbAllowsAll(from, to) == TRUE

\* The transitions the table's trigger lets through.
DbAllows(from, to) ==
  \/ from = "unstarted" /\ to \in {"started", "errored"}
  \/ from = "started" /\ to \in {"broadcasted", "errored"}
  \/ from = "broadcasted" /\ to \in {"confirmed", "errored"}

CanUpdate(S, to) == \A m \in S : DbAllows(state[m], to)

Updated(S, to) == [m \in Ids |-> IF m \in S THEN to ELSE state[m]]

\* UpdateMsgs: all rows or none.
UpdateMsgs(S, to) == CanUpdate(S, to) /\ state' = Updated(S, to)

Fault(kind) ==
  /\ kind \in FaultKinds
  /\ faults < MaxFaults
  /\ faults' = faults + 1

\* An UPDATE of S fails: the trigger refuses it, or the database does.
UpdateFails(S, to) ==
  \/ ~CanUpdate(S, to) /\ UNCHANGED faults
  \/ CanUpdate(S, to) /\ Fault("db")
-----------------------------------------------------------------------------
Init ==
  /\ n = 0
  /\ state = [m \in Ids |-> "absent"]
  /\ contract = [m \in Ids |-> None]
  /\ sender = [m \in Ids |-> None]
  /\ hash = [m \in Ids |-> None]
  /\ newMsgs = 0
  /\ call = [c \in Callers |-> [pc |-> "idle", contract |-> None]]
  /\ pc = "down"
  /\ fresh = {} /\ expired = {} /\ batch = {} /\ ids = {}
  /\ tx = None /\ polls = 0
  /\ old = 0
  /\ height = 1
  /\ seq = [s \in Senders |-> 0]
  /\ sent = {} /\ chain = {}
  /\ faults = 0
  /\ cancelled = {} /\ lost = {}
-----------------------------------------------------------------------------
(* Enqueue, run by any number of goroutines. Its two statements go to      *)
(* txm.orm, not to the orm of the transaction around them, so each commits *)
(* by itself.                                                              *)

Calling(c, where, k) == call' = [call EXCEPT ![c] = [pc |-> where, contract |-> k]]

\* Mutant: what is Started is cancelled too.
SupersededOrStarted(k) == {m \in InState("unstarted") \cup InState("started") : contract[m] = k}

\* The rows UpdateMsgsContract(k, Unstarted, Errored) changes.
Superseded(k) == {m \in InState("unstarted") : contract[m] = k}

EnqueueCancel(c, k) ==
  /\ call[c].pc = "idle"
  /\ n < MaxMsgs                    \* bound
  /\ UpdateMsgs(Superseded(k), "errored")
  /\ cancelled' = cancelled \cup Superseded(k)
  /\ Calling(c, "insert", k)
  /\ UNCHANGED <<n, contract, sender, hash, newMsgs, pc, locals, old, network, faults, lost>>

\* Mutant: the row is inserted before the cancellation, which hits it too.
InsertThenCancel(c, s) ==
  /\ call[c].pc = "insert"
  /\ n < MaxMsgs
  /\ n' = n + 1
  /\ state' = [state EXCEPT ![n + 1] = "errored"]
  /\ contract' = [contract EXCEPT ![n + 1] = call[c].contract]
  /\ sender' = [sender EXCEPT ![n + 1] = s]
  /\ cancelled' = cancelled \cup {n + 1}
  /\ Calling(c, "trigger", None)
  /\ UNCHANGED <<hash, newMsgs, pc, locals, old, network, faults, lost>>

EnqueueInsert(c, s) ==
  /\ call[c].pc = "insert"
  /\ n < MaxMsgs                    \* bound
  /\ n' = n + 1
  /\ state' = [state EXCEPT ![n + 1] = "unstarted"]
  /\ contract' = [contract EXCEPT ![n + 1] = call[c].contract]
  /\ sender' = [sender EXCEPT ![n + 1] = s]
  /\ Calling(c, "trigger", None)
  /\ UNCHANGED <<hash, newMsgs, pc, locals, old, network, faults, history>>

\* Either statement fails; a cancellation already made stays.
EnqueueFails(c) ==
  /\ call[c].pc \in {"idle", "insert"}
  /\ Fault("db")
  /\ Calling(c, "trigger", None)
  /\ UNCHANGED <<table, newMsgs, pc, locals, old, network, history>>

\* Mutant: the trigger sends without looking at the channel's capacity.
TriggerUnbounded(c) ==
  /\ call[c].pc = "trigger"
  /\ newMsgs' = newMsgs + 1
  /\ Calling(c, "idle", None)
  /\ UNCHANGED <<table, pc, locals, old, network, faults, history>>

\* triggerNewMsg receives from the channel it means to send to.
EnqueueTrigger(c) ==
  /\ call[c].pc = "trigger"
  /\ newMsgs' = IF newMsgs > 0 THEN newMsgs - 1 ELSE newMsgs
  /\ Calling(c, "idle", None)
  /\ UNCHANGED <<table, pc, locals, old, network, faults, history>>

Enqueue(c) ==
  \/ \E k \in Contracts : EnqueueCancel(c, k)
  \/ \E s \in Senders : EnqueueInsert(c, s)
  \/ EnqueueFails(c)
  \/ EnqueueTrigger(c)
-----------------------------------------------------------------------------
(* Start and confirmAnyUnconfirmed *)

Start ==
  /\ pc = "down"
  /\ pc' = "recover"
  /\ UNCHANGED <<table, newMsgs, call, locals, old, network, faults, history>>

\* Mutant: recovery handles one read only and does not look again.
RecoverOnce ==
  /\ pc = "recover"
  /\ pc' = "idle"
  /\ UNCHANGED <<table, newMsgs, call, locals, old, network, faults, history>>

\* One turn of the recovery loop reads the next broadcast messages.
Recover ==
  LET unconfirmed == Oldest(InState("broadcasted"), MaxMsgsPerBatch) IN
  /\ pc = "recover"
  /\ batch' = unconfirmed
  /\ pc' = IF unconfirmed = {} THEN "idle" ELSE "regroup"
  /\ UNCHANGED <<table, newMsgs, call, fresh, expired, tx, ids, polls, old, network,
                 faults, history>>

\* The read or the client fails: recovery is abandoned until the next start.
RecoverFails ==
  /\ pc = "recover"
  /\ Fault("db") \/ Fault("client")
  /\ pc' = "idle"
  /\ UNCHANGED <<table, newMsgs, call, locals, old, network, history>>

\* msgsByTxHash: the next group, in any order; none left, read again.
Regroup ==
  /\ pc = "regroup"
  /\ \/ /\ batch = {}
        /\ pc' = "recover"
        /\ UNCHANGED <<batch, tx, ids>>
     \/ \E h \in {hash[m] : m \in batch} :
          LET group == {m \in batch : hash[m] = h} IN
          /\ tx' = h
          /\ ids' = group
          /\ batch' = batch \ group
          /\ pc' = "repoll"
  /\ UNCHANGED <<table, newMsgs, call, fresh, expired, polls, old, network, faults, history>>
-----------------------------------------------------------------------------
(* sendMsgBatch: the transaction that picks the batch *)

\* What the select of run() may receive from.
Wakes == {"tick"} \cup (IF newMsgs > 0 THEN {"newMsgs"} ELSE {})

\* Mutant: the budget for Unstarted ignores the Started leftovers.
ReadBatchFullLimit ==
  LET started == Oldest(InState("started"), MaxMsgsPerBatch)
      unstarted == Oldest(InState("unstarted"), MaxMsgsPerBatch)
      valid(S) == {m \in S : m > old}
  IN
  /\ pc = "idle"
  /\ newMsgs' = newMsgs
  /\ fresh' = valid(unstarted)
  /\ batch' = valid(started \cup unstarted)
  /\ expired' = (started \cup unstarted) \ batch'
  /\ pc' = "batching"
  /\ UNCHANGED <<table, call, tx, ids, polls, old, network, faults, history>>

ReadBatch ==
  LET started == Oldest(InState("started"), MaxMsgsPerBatch)
      limit == MaxMsgsPerBatch - Cardinality(started)
      unstarted == Oldest(InState("unstarted"), limit)
      valid(S) == {m \in S : m > old}
  IN
  /\ pc = "idle"
  /\ \E wake \in Wakes : newMsgs' = IF wake = "newMsgs" THEN newMsgs - 1 ELSE newMsgs
  /\ fresh' = valid(unstarted)
  /\ batch' = valid(started \cup unstarted)
  /\ expired' = (started \cup unstarted) \ batch'
  /\ pc' = "batching"
  /\ UNCHANGED <<table, call, tx, ids, polls, old, network, faults, history>>

CommitBatch ==
  /\ pc = "batching"
  /\ CanUpdate(fresh, "started") /\ CanUpdate(expired, "errored")
  /\ state' = [m \in Ids |-> IF m \in fresh THEN "started"
                             ELSE IF m \in expired THEN "errored" ELSE state[m]]
  /\ fresh' = {} /\ expired' = {}
  /\ pc' = IF batch = {} THEN "idle" ELSE "gasprice"
  /\ UNCHANGED <<n, contract, sender, hash, newMsgs, call, batch, tx, ids, polls, old, network,
                 faults, history>>

\* A concurrent cancellation, or the database, makes the transaction fail.
RollbackBatch ==
  /\ pc = "batching"
  /\ UpdateFails(fresh, "started") \/ UpdateFails(expired, "errored")
  /\ fresh' = {} /\ expired' = {} /\ batch' = {}
  /\ pc' = "idle"
  /\ UNCHANGED <<table, newMsgs, call, tx, ids, polls, old, network, history>>

GasPrice ==
  /\ pc = "gasprice"
  /\ pc' = "senders"
  /\ UNCHANGED <<table, newMsgs, call, locals, old, network, faults, history>>

GasPriceFails ==
  /\ pc = "gasprice"
  /\ Fault("rpc")
  /\ batch' = {}
  /\ pc' = "idle"
  /\ UNCHANGED <<table, newMsgs, call, fresh, expired, tx, ids, polls, old, network, history>>

BatchDone ==
  /\ pc = "senders" /\ batch = {}
  /\ pc' = "idle"
  /\ UNCHANGED <<table, newMsgs, call, locals, old, network, faults, history>>
-----------------------------------------------------------------------------
(* sendMsgBatchFromAddress *)

OfSender(s) == {m \in batch : sender[m] = s}

NextSender(s) ==
  /\ pc = "senders"
  /\ OfSender(s) # {}
  /\ tx' = [sender |-> s, sn |-> seq[s], msgs |-> OfSender(s), timeout |-> 0]
  /\ batch' = batch \ OfSender(s)
  /\ pc' = "simulate"
  /\ UNCHANGED <<table, newMsgs, call, fresh, expired, ids, polls, old, network, faults, history>>

\* No client, or Account fails: this sender waits for the next batch.
SkipSender(s) ==
  /\ pc = "senders"
  /\ OfSender(s) # {}
  /\ Fault("rpc")
  /\ batch' = batch \ OfSender(s)
  /\ UNCHANGED <<table, newMsgs, call, pc, fresh, expired, tx, ids, polls, old, network, history>>

NextAfter(failed) == IF failed = tx.msgs THEN "senders" ELSE "sign"

\* BatchSimulateUnsigned splits the batch; what failed is marked at once.
Simulate(failed) ==
  /\ pc = "simulate"
  /\ UpdateMsgs(failed, "errored")
  /\ tx' = IF failed = tx.msgs THEN None ELSE [tx EXCEPT !.msgs = @ \ failed]
  /\ pc' = NextAfter(failed)
  /\ UNCHANGED <<n, contract, sender, hash, newMsgs, call, fresh, expired, batch, ids, polls,
                 old, network, faults, history>>

\* Back to the loop over senders, nothing recorded.
Abandon ==
  /\ tx' = None
  /\ pc' = "senders"
  /\ UNCHANGED <<table, newMsgs, call, fresh, expired, batch, ids, polls, old>>

\* The messages that passed one by one are simulated together, and fail.
CombinedSimulationFails ==
  /\ pc = "sign"
  /\ Abandon
  /\ UNCHANGED <<network, faults, history>>

\* Mutant: a failed request does not roll the mark back.
SendFailsNoRollback ==
  /\ pc = "broadcast"
  /\ Fault("rpc")
  /\ UpdateMsgs(tx.msgs, "broadcasted")
  /\ hash' = [m \in Ids |-> IF m \in tx.msgs THEN tx ELSE hash[m]]
  /\ tx' = None
  /\ pc' = "senders"
  /\ UNCHANGED <<n, contract, sender, newMsgs, call, fresh, expired, batch, ids, polls, old,
                 network, history>>

SendFails ==
  /\ pc \in {"simulate", "sign", "broadcast"}
  /\ Fault("rpc") \/ Fault("db")
  /\ Abandon
  /\ UNCHANGED <<network, history>>

Sign ==
  /\ pc = "sign"
  /\ tx' = [tx EXCEPT !.timeout = height + BlocksUntilTxTimeout]
  /\ pc' = "broadcast"
  /\ UNCHANGED <<table, newMsgs, call, fresh, expired, batch, ids, polls, old, network, faults,
                 history>>

\* The node takes the transaction; the database transaction is still open.
Broadcast ==
  /\ pc = "broadcast"
  /\ tx.sn >= seq[tx.sender]
  /\ sent' = sent \cup {tx}
  /\ pc' = "commit"
  /\ UNCHANGED <<table, newMsgs, call, locals, old, height, seq, chain, faults, history>>

\* The node takes the transaction and its answer does not arrive: rollback.
BroadcastLost ==
  /\ pc = "broadcast"
  /\ tx.sn >= seq[tx.sender]
  /\ Fault("rpc")
  /\ sent' = sent \cup {tx}
  /\ lost' = lost \cup tx.msgs
  /\ Abandon
  /\ UNCHANGED <<height, seq, chain, cancelled>>

\* The node refuses the sequence number: used, or taken by a pending one.
BroadcastRejected ==
  /\ pc = "broadcast"
  /\ \/ tx.sn < seq[tx.sender]
     \/ \E t \in sent : t.sender = tx.sender /\ t.sn = tx.sn
  /\ Abandon
  /\ UNCHANGED <<network, faults, history>>

\* Mutant: the messages are not marked Broadcasted.
CommitNothing ==
  /\ pc = "commit"
  /\ hash' = [m \in Ids |-> IF m \in tx.msgs THEN tx ELSE hash[m]]
  /\ ids' = tx.msgs
  /\ pc' = "poll"
  /\ UNCHANGED <<n, state, contract, sender, newMsgs, call, fresh, expired, batch, tx, polls,
                 old, network, faults, history>>

CommitBroadcast ==
  /\ pc = "commit"
  /\ UpdateMsgs(tx.msgs, "broadcasted")
  /\ hash' = [m \in Ids |-> IF m \in tx.msgs THEN tx ELSE hash[m]]
  /\ ids' = tx.msgs
  /\ pc' = "poll"
  /\ UNCHANGED <<n, contract, sender, newMsgs, call, fresh, expired, batch, tx, polls, old,
                 network, faults, history>>

CommitBroadcastFails ==
  /\ pc = "commit"
  /\ Fault("db")
  /\ lost' = lost \cup tx.msgs
  /\ Abandon
  /\ UNCHANGED <<network, cancelled>>
-----------------------------------------------------------------------------
(* confirmTx, called after a broadcast and in recovery *)

Polling == pc \in {"poll", "repoll"}

ConfirmReturns ==
  /\ pc' = IF pc = "poll" THEN "senders" ELSE "regroup"
  /\ tx' = None /\ ids' = {} /\ polls' = 0
  /\ UNCHANGED <<n, contract, sender, hash, newMsgs, call, fresh, expired, batch, old, network,
                 history>>

\* Not found, or any error of the Tx request: both count as a try.
PollMiss ==
  /\ Polling /\ polls < MaxPolls
  /\ polls' = polls + 1
  /\ UNCHANGED <<table, newMsgs, call, pc, fresh, expired, batch, tx, ids, old, network, faults,
                 history>>

\* Mutant: any answer of the Tx request counts as found.
FoundAnything == polls < MaxPolls

Found == polls < MaxPolls /\ tx \in chain

PollFound ==
  /\ Polling /\ Found
  /\ UpdateMsgs(ids, "confirmed")
  /\ ConfirmReturns
  /\ UNCHANGED faults

\* Mutant: the messages keep their state when the polls are exhausted.
PollsExhaustedUnmarked ==
  /\ Polling /\ polls = MaxPolls
  /\ ConfirmReturns
  /\ UNCHANGED <<state, faults>>

PollsExhausted ==
  /\ Polling /\ polls = MaxPolls
  /\ UpdateMsgs(ids, "errored")
  /\ ConfirmReturns
  /\ UNCHANGED faults

\* The outcome cannot be recorded: the messages stay Broadcasted.
ConfirmFails ==
  /\ Polling /\ (Found \/ polls = MaxPolls)
  /\ UpdateFails(ids, IF polls = MaxPolls THEN "errored" ELSE "confirmed")
  /\ ConfirmReturns
  /\ UNCHANGED state
-----------------------------------------------------------------------------
(* The process, time and the chain *)

\* The process dies anywhere; only the table and the network survive.
Crash ==
  /\ pc # "down"
  /\ Fault("crash")
  /\ pc' = "down"
  /\ lost' = IF pc = "commit" THEN lost \cup tx.msgs ELSE lost
  /\ fresh' = {} /\ expired' = {} /\ batch' = {} /\ ids' = {}
  /\ tx' = None /\ polls' = 0
  /\ newMsgs' = 0
  /\ call' = [c \in Callers |-> [pc |-> "idle", contract |-> None]]
  /\ UNCHANGED <<table, old, network, cancelled>>

TimePasses ==
  /\ old < n
  /\ old' = old + 1
  /\ UNCHANGED <<table, newMsgs, call, pc, locals, network, faults, history>>

\* What the next block may include: the account's next sequence number,
\* timeout height not passed.
Includable == {t \in sent : t.sn = seq[t.sender] /\ height < t.timeout}

NewBlock ==
  /\ height < MaxHeight
  /\ height' = height + 1
  /\ \E S \in SUBSET Includable :
       /\ \A t, u \in S : t.sender = u.sender => t = u
       /\ chain' = chain \cup S
       /\ seq' = [s \in Senders |->
                    IF \E t \in S : t.sender = s THEN seq[s] + 1 ELSE seq[s]]
  /\ UNCHANGED <<table, newMsgs, call, pc, locals, old, sent, faults, history>>
-----------------------------------------------------------------------------
Worker ==
  \/ Start \/ Recover \/ RecoverFails \/ Regroup
  \/ ReadBatch \/ CommitBatch \/ RollbackBatch
  \/ GasPrice \/ GasPriceFails \/ BatchDone
  \/ \E s \in Senders : NextSender(s) \/ SkipSender(s)
  \/ \E failed \in SUBSET (IF tx = None THEN {} ELSE tx.msgs) : Simulate(failed)
  \/ CombinedSimulationFails \/ SendFails \/ Sign
  \/ Broadcast \/ BroadcastLost \/ BroadcastRejected
  \/ CommitBroadcast \/ CommitBroadcastFails
  \/ PollMiss \/ PollFound \/ PollsExhausted \/ ConfirmFails

Next ==
  \/ \E c \in Callers : Enqueue(c)
  \/ Worker
  \/ Crash
  \/ TimePasses
  \/ NewBlock

Spec == Init /\ [][Next]_vars

\* The Go scheduler runs the worker, the clock advances, a process that
\* died is started again (Start is a step of the worker).
FairSpec == Spec /\ WF_vars(Worker) /\ WF_vars(TimePasses)
-----------------------------------------------------------------------------
(* Properties *)

\* Every variable holds what its column, channel or Go variable can hold.
TypeOK ==
  /\ n \in 0 .. MaxMsgs
  /\ state \in [Ids -> State]
  /\ contract \in [Ids -> Contracts \cup {None}]
  /\ sender \in [Ids -> Senders \cup {None}]
  /\ hash \in [Ids -> Tx \cup {None}]
  /\ newMsgs \in 0 .. 1
  /\ call \in [Callers -> CallState]
  /\ pc \in PC
  /\ fresh \subseteq Ids /\ expired \subseteq Ids /\ batch \subseteq Ids /\ ids \subseteq Ids
  /\ tx \in Tx \cup {None}
  /\ polls \in 0 .. MaxPolls
  /\ old \in 0 .. MaxMsgs
  /\ height \in Nat /\ seq \in [Senders -> Nat]
  /\ sent \subseteq Tx /\ chain \subseteq Tx
  /\ faults \in Nat
  /\ cancelled \subseteq Ids /\ lost \subseteq Ids

\* A message that a newer one for its contract cancelled is never handed to
\* the network, although Enqueue runs while the worker picks its batch
\* (UpdateMsgsContract against the reads and updates of sendMsgBatch).
CancelledNeverSent ==
  \A m \in cancelled : state[m] = "errored" /\ \A t \in sent : m \notin t.msgs

\* The comment of sendMsgBatchFromAddress: the table says a transaction was
\* broadcast exactly when the network has it, save for a lost answer or a
\* commit still to come.
TableMatchesNetwork ==
  \A m \in Ids :
    /\ state[m] \in {"broadcasted", "confirmed"} => hash[m] \in sent /\ m \in hash[m].msgs
    /\ \A t \in sent : m \in t.msgs /\ state[m] = "started" =>
         m \in lost \/ (pc = "commit" /\ tx = t)

\* At-least-once delivery sends a message in a second transaction only when
\* the answer about the first was lost.
ResentOnlyAfterLostAnswer ==
  \A t, u \in sent : t # u => t.msgs \cap u.msgs \subseteq lost

\* What is Started fits one batch and is older than all that is Unstarted,
\* so leftovers of failed sends are always picked up again, before newer
\* messages.
LeftoversFitOneBatch ==
  /\ Cardinality(InState("started")) <= MaxMsgsPerBatch
  /\ \A m \in InState("started"), u \in InState("unstarted") : m < u

\* Messages of an account reach the network oldest first: none is broadcast
\* while an older one still waits outside the same transaction.
SendsOldestFirst ==
  [][\A t \in sent' \ sent, m \in Ids :
       (/\ sender[m] = t.sender
        /\ state[m] \in {"unstarted", "started"}
        /\ \E x \in t.msgs : m < x) => m \in t.msgs]_vars

\* A cancelled message has a newer one for its contract, or one about to be
\* inserted, unless a fault struck between the two statements of Enqueue.
CancelledIsReplaced ==
  faults = 0 =>
    \A m \in cancelled :
      \/ \E x \in Ids : m < x /\ contract[x] = contract[m]
      \/ \E c \in Callers : call[c] = [pc |-> "insert", contract |-> contract[m]]

\* While only crashes and failed requests happen, a waiting worker has left
\* no message Broadcasted: recovery settles what a crash left behind.
NoneStranded ==
  pc \in {"idle", "batching", "gasprice"} => InState("broadcasted") = {}

\* Two transactions of an account carry the same sequence number only after
\* the manager gave one of them up: it lost the answer or errored its
\* messages (confirmTx waits so that the sequence number has incremented).
SequenceReusedOnlyAfterGivingUp ==
  \A t, u \in sent :
    t # u /\ t.sender = u.sender /\ t.sn = u.sn =>
      \E x \in {t, u} : \A m \in x.msgs : m \in lost \/ state[m] = "errored"

\* What the worker read before its requests and polls is still so when it
\* acts on it: the rest of the batch and the transaction in the making are
\* Started, what is being confirmed is Broadcasted under the hash polled, and
\* no message is handled twice in a batch (sendMsgBatch keeps the rows it
\* read while Enqueue and the confirmation of other accounts go on).
WorkerViewHolds ==
  /\ pc = "batching" =>
       /\ fresh \cap expired = {} /\ batch \cap expired = {}
       /\ \A m \in batch : m \in fresh \/ state[m] = "started"
  /\ pc \in {"gasprice", "senders", "simulate", "sign", "broadcast", "commit", "poll"} =>
       \A m \in batch : state[m] = "started"
  /\ pc \in {"simulate", "sign", "broadcast", "commit"} =>
       /\ tx # None
       /\ \A m \in tx.msgs : state[m] = "started" /\ m \notin batch
  /\ pc = "commit" => tx \in sent
  /\ pc \in {"poll", "repoll"} =>
       /\ tx \in sent
       /\ \A m \in ids : /\ state[m] = "broadcasted" /\ hash[m] = tx
                        /\ m \in tx.msgs /\ m \notin batch
  /\ pc \in {"regroup", "repoll"} => \A m \in batch : state[m] = "broadcasted"

\* The manager implements the life of a message (MsgLifecycle).
Life == INSTANCE MsgLifecycle WITH
  status <- [m \in Ids |-> IF state[m] \in {"unstarted", "started"} THEN "queued"
                           ELSE IF state[m] = "broadcasted" THEN "sent" ELSE state[m]],
  attempted <- UNION {t.msgs : t \in sent},
  executed <- UNION {t.msgs : t \in chain}

LifeSpec == Life!Spec

\* Every message that was enqueued is confirmed or errored in the end.
EveryMessageSettles ==
  \A m \in Ids :
    state[m] \in {"unstarted", "started", "broadcasted"} ~> state[m] \in {"confirmed", "errored"}

\* The channel's comment, "buffered to hold one pending request", and
\* triggerNewMsg's "request is already queued": when Enqueue has triggered
\* the worker, a request is in the channel.
EnqueueQueuesRequest ==
  [][\A c \in Callers : EnqueueTrigger(c) => newMsgs' > 0]_vars

\* confirmTx's comment: messages are errored after the polls because their
\* transaction "has timed out": it is in no block and can be in none.
GivenUpTxHasTimedOut ==
  [][\A m \in Ids : state[m] = "broadcasted" /\ state'[m] = "errored" =>
       hash[m] \notin chain /\ hash[m].timeout <= height]_vars
=============================================================================
