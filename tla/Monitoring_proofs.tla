------------------------- MODULE Monitoring_proofs -------------------------
(***************************************************************************)
(* Proofs about the sources of the monitoring: that nothing is counted     *)
(* twice, that a configuration is of the Fetch that reports it, and that   *)
(* rounds keep up with what the FCD had.                                   *)
(***************************************************************************)
EXTENDS Monitoring, FeedChain_proofs

(* What the FCD has *)

FcdInv == ChainInv /\ indexed \in 0 .. Height

\* Transactions of the chain, whether the FCD has them or not.
ChainTxs == UNION {TxsIn(h) : h \in 1 .. Height}

\* The chain and the FCD go on, or stay.
Progress ==
  \/ \E block \in Blocks : Commit(block) /\ indexed' = indexed
  \/ Index /\ UNCHANGED chain
  \/ UNCHANGED <<chain, indexed>>

LEMMA FcdGrows ==
  ASSUME FcdInv, Progress
  PROVE  /\ FcdInv'
         /\ Height <= Height' /\ indexed <= indexed'
         /\ \A h \in 1 .. Height : blocks'[h] = blocks[h]
         /\ \A h \in 1 .. Height : TxsIn(h)' = TxsIn(h)
         /\ AccountTxs \subseteq AccountTxs'
<1>1. Height \in Nat /\ indexed \in Nat /\ indexed <= Height
  BY DEF FcdInv, ChainInv, Height
<1>2. /\ FcdInv' /\ Height <= Height' /\ indexed <= indexed'
      /\ \A h \in 1 .. Height : blocks'[h] = blocks[h]
  <2>1. ASSUME NEW block \in Blocks, Commit(block), indexed' = indexed
        PROVE  /\ FcdInv' /\ Height <= Height' /\ indexed <= indexed'
               /\ \A h \in 1 .. Height : blocks'[h] = blocks[h]
    <3>1. /\ ChainInv' /\ Height' = Height + 1
          /\ \A h \in 1 .. Height : blocks'[h] = blocks[h]
      BY <2>1, ChainGrows DEF FcdInv
    <3> QED
      BY <1>1, <2>1, <3>1 DEF FcdInv
  <2>2. CASE Index /\ UNCHANGED chain
    <3>1. Height' = Height /\ UNCHANGED <<blocks, feed>> /\ indexed < Height /\ indexed' = indexed + 1
      BY <2>2 DEF Index, chain, Height
    <3> QED
      BY <1>1, <3>1 DEF FcdInv, ChainInv, Height
  <2>3. CASE UNCHANGED <<chain, indexed>>
    BY <1>1, <2>3 DEF FcdInv, ChainInv, Height, chain
  <2> QED
    BY <2>1, <2>2, <2>3 DEF Progress
<1>3. \A h \in 1 .. Height : TxsIn(h)' = TxsIn(h)
  BY <1>2 DEF TxsIn
<1>4. AccountTxs \subseteq AccountTxs'
  <2>1. \A h \in 1 .. indexed : h \in 1 .. indexed' /\ h \in 1 .. Height
    BY <1>1, <1>2 DEF FcdInv
  <2>2. \A tx : Touches(tx)' <=> Touches(tx)
    BY DEF Touches
  <2> QED
    BY <1>3, <2>1, <2>2 DEF AccountTxs
<1> QED
  BY <1>2, <1>3, <1>4

\* Finitely many blocks have finitely many transactions.
LEMMA BlocksFinite ==
  ASSUME NEW S, NEW b \in Seq(Seq(S)), NEW n \in 0 .. Len(b)
  PROVE  IsFiniteSet(UNION {{[id |-> <<h, i>>, height |-> h, log |-> b[h][i]] : i \in DOMAIN b[h]} :
                            h \in 1 .. n})
<1> DEFINE txs(h) == {[id |-> <<h, i>>, height |-> h, log |-> b[h][i]] : i \in DOMAIN b[h]}
           all == {txs(h) : h \in 1 .. n}
<1>1. ASSUME NEW h \in 1 .. n PROVE IsFiniteSet(txs(h))
  <2> DEFINE l == Len(b[h])
             tx == [i \in 1 .. l |-> [id |-> <<h, i>>, height |-> h, log |-> b[h][i]]]
  <2>1. l \in Nat /\ DOMAIN b[h] = 1 .. l
    OBVIOUS
  <2>2. tx \in [1 .. l -> txs(h)] /\ \A t \in txs(h) : \E i \in 1 .. l : tx[i] = t
    BY <2>1
  <2> HIDE DEF l, tx, txs
  <2> QED
    BY <2>1, <2>2, EnumeratedSet
<1> HIDE DEF txs
<1>2. IsFiniteSet(all)
  <2> DEFINE listed == [h \in 1 .. n |-> txs(h)]
  <2>1. /\ n \in Nat /\ listed \in [1 .. n -> all]
        /\ \A t \in all : \E h \in 1 .. n : listed[h] = t
    OBVIOUS
  <2> HIDE DEF listed, all
  <2> QED
    BY <2>1, EnumeratedSet
<1>3. IsFiniteSet(UNION all)
  BY <1>1, <1>2, FS_UNION
<1> QED
  BY <1>3 DEF txs

LEMMA TxsFinite == FcdInv => IsFiniteSet(AccountTxs)
<1> SUFFICES ASSUME FcdInv PROVE IsFiniteSet(AccountTxs)
  OBVIOUS
<1>1. blocks \in Seq(Seq(Seq(Events))) /\ indexed \in 0 .. Len(blocks)
  BY DEF FcdInv, ChainInv, Height
<1>2. IsFiniteSet(UNION {TxsIn(h) : h \in 1 .. indexed})
  BY <1>1, BlocksFinite DEF TxsIn
<1> QED
  BY <1>2, FS_Subset DEF AccountTxs

Ids == Nat \X Nat

LEMMA TxFacts ==
  ASSUME FcdInv, NEW tx \in AccountTxs
  PROVE  /\ tx.id \in Ids /\ tx.id[1] \in 1 .. indexed
         /\ tx.id[2] \in DOMAIN blocks[tx.id[1]]
         /\ tx = [id |-> tx.id, height |-> tx.id[1], log |-> blocks[tx.id[1]][tx.id[2]]]
<1>1. blocks \in Seq(Seq(Seq(Events))) /\ indexed \in 0 .. Len(blocks) /\ Len(blocks) \in Nat
  BY DEF FcdInv, ChainInv, Height
<1>2. PICK h \in 1 .. indexed, i \in Nat :
        i \in DOMAIN blocks[h] /\ tx = [id |-> <<h, i>>, height |-> h, log |-> blocks[h][i]]
  <2>1. \A h \in 1 .. indexed : DOMAIN blocks[h] \subseteq Nat
    BY <1>1
  <2> QED
    BY <2>1 DEF AccountTxs, TxsIn
<1> QED
  BY <1>1, <1>2 DEF Ids
-----------------------------------------------------------------------------
(* The order of ids *)

LEMMA BeforeOrders ==
  \A a, b, c \in Ids :
    /\ ~Before(a, a)
    /\ Before(a, b) => ~Before(b, a)
    /\ ~Before(a, b) /\ ~Before(b, a) => a = b
    /\ ~Before(a, b) /\ ~Before(b, c) => ~Before(a, c)
    /\ Before(a, b) /\ Before(b, c) => Before(a, c)
  BY DEF Before, Ids

\* Of finitely many ids one is the latest.
LEMMA LatestExists ==
  ASSUME NEW S \in SUBSET Ids, IsFiniteSet(S), S # {}
  PROVE  \E x \in S : \A y \in S : ~Before(x, y)
<1> DEFINE Later(x) == {y \in S : Before(x, y)}
           T == {Later(x) : x \in S}
<1>1. T \in SUBSET (SUBSET S) /\ T # {}
  OBVIOUS
<1>2. PICK t \in T : \A u \in T : u \subseteq t => u = t
  <2> HIDE DEF T
  <2> QED
    BY <1>1, MinimalSubset
<1>3. PICK x \in S : t = Later(x)
  OBVIOUS
<1>4. ASSUME NEW y \in S, Before(x, y) PROVE FALSE
  <2>1. Later(y) \subseteq Later(x)
    BY <1>4, BeforeOrders
  <2>2. Later(y) = Later(x)
    BY <1>2, <1>3, <2>1
  <2>3. y \in Later(x) /\ y \notin Later(y)
    BY <1>4, BeforeOrders
  <2> QED
    BY <2>2, <2>3
<1> QED
  BY <1>4
-----------------------------------------------------------------------------
(* The counter: a transaction is counted once *)

LEMMA SameCardinality == \A S : Results!Cardinality(S) = Cardinality(S)
  BY DEF Results!Cardinality, Cardinality

LEMMA SameList ==
  /\ Results!AccountTxs = AccountTxs
  /\ Results!TxList = TxList
  /\ \A id, other : Results!Before(id, other) <=> Before(id, other)
<1>1. \A id, other : Results!Before(id, other) <=> Before(id, other)
  BY DEF Results!Before, Before
<1>2. \A h : Results!TxsIn(h) = TxsIn(h)
  BY DEF Results!TxsIn, TxsIn
<1>3. \A tx : Results!Touches(tx) <=> Touches(tx)
  BY DEF Results!Touches, Touches, Results!Own, Own
<1>4. Results!AccountTxs = AccountTxs
  BY <1>2, <1>3 DEF Results!AccountTxs, AccountTxs
<1>5. Results!TxList = TxList
  <2>1. \A tx : {t \in Results!AccountTxs : Results!Before(tx.id, t.id)}
                = {t \in AccountTxs : Before(tx.id, t.id)}
    BY <1>1, <1>4
  <2> QED
    BY <1>4, <2>1, SameCardinality DEF Results!TxList, TxList
<1> QED
  BY <1>1, <1>4, <1>5

\* What the counter has passed: failed transactions, and others.
PassedFailed ==
  {tx \in AccountTxs : ~Before(latestTxID, tx.id) /\ Results!IsFailed(tx)}
PassedOthers ==
  {tx \in AccountTxs : ~Before(latestTxID, tx.id) /\ ~Results!IsFailed(tx)}

CountedOnce ==
  /\ totals.failed <= Cardinality(PassedFailed)
  /\ totals.succeeded <= Cardinality(PassedOthers)

LEMMA CountedOnceSuffices == CountedOnce => NoneCountedTwice
<1>1. Results!Known(TRUE) = PassedFailed /\ Results!Known(FALSE) = PassedOthers
  BY SameList DEF Results!Known, Results!IsFailed, PassedFailed, PassedOthers
<1>2. /\ Results!Cardinality(Results!Known(TRUE)) = Cardinality(PassedFailed)
      /\ Results!Cardinality(Results!Known(FALSE)) = Cardinality(PassedOthers)
  BY <1>1, SameCardinality, Zenon
<1> QED
  BY <1>2, Zenon DEF CountedOnce, NoneCountedTwice, Results!NoneCountedTwice

CounterInv ==
  /\ FcdInv
  /\ latestTxID \in Ids
  /\ response \in [Fetchers -> SUBSET AccountTxs]
  /\ totals \in [failed : Nat, succeeded : Nat]
  /\ CountedOnce

PassedFinitely ==
  /\ IsFiniteSet(PassedFailed) /\ Cardinality(PassedFailed) \in Nat
  /\ IsFiniteSet(PassedOthers) /\ Cardinality(PassedOthers) \in Nat

LEMMA PassedFinite == FcdInv => PassedFinitely
<1> SUFFICES ASSUME FcdInv
             PROVE  IsFiniteSet(PassedFailed) /\ IsFiniteSet(PassedOthers)
  BY FS_CardinalityType DEF PassedFinitely
<1>1. IsFiniteSet(AccountTxs)
  BY TxsFinite
<1>2. PassedFailed \subseteq AccountTxs /\ PassedOthers \subseteq AccountTxs
  BY DEF PassedFailed, PassedOthers
<1> QED
  BY <1>1, <1>2, FS_Subset

LEMMA PassedFiniteNext == FcdInv' => PassedFinitely'
  BY PassedFinite, PTL

LEMMA CounterInit == MonitoringInit => CounterInv
<1> SUFFICES ASSUME MonitoringInit PROVE CounterInv
  OBVIOUS
<1>1. /\ latestTxID = <<0, 0>> /\ response = [f \in Fetchers |-> {}]
      /\ totals = [failed |-> 0, succeeded |-> 0]
  BY DEF MonitoringInit, Results!Init, Results!NoTx
<1>2. FcdInv
  BY ChainStarts DEF MonitoringInit, Init, FcdInv, ChainInv, Height
<1>3. CountedOnce
  BY <1>1, <1>2, PassedFinite DEF CountedOnce, PassedFinitely
<1> QED
  BY <1>1, <1>2, <1>3 DEF CounterInv, Ids

\* The chain and the FCD go on.
LEMMA CounterWatches ==
  ASSUME CounterInv, Progress, UNCHANGED counter
  PROVE  CounterInv'
<1>1. FcdInv /\ FcdInv' /\ AccountTxs \subseteq AccountTxs'
  BY FcdGrows DEF CounterInv
<1>2. PassedFailed \subseteq PassedFailed' /\ PassedOthers \subseteq PassedOthers'
  BY <1>1 DEF counter, Before, Results!IsFailed, PassedFailed, PassedOthers
<1>3. CountedOnce'
  <2>1. /\ Cardinality(PassedFailed) <= Cardinality(PassedFailed')
        /\ Cardinality(PassedOthers) <= Cardinality(PassedOthers')
    BY <1>1, <1>2, PassedFiniteNext, FS_Subset DEF PassedFinitely
  <2> QED
    BY <1>1, <2>1, PassedFinite, PassedFiniteNext
       DEF CounterInv, CountedOnce, counter, PassedFinitely
<1> QED
  BY <1>1, <1>3 DEF CounterInv, counter

\* A Fetch asks for the list.
LEMMA CounterRequests ==
  ASSUME CounterInv, NEW f \in Fetchers, Results!Request(f)
  PROVE  CounterInv'
<1>1. /\ response' = [response EXCEPT ![f] = TxList]
      /\ UNCHANGED <<blocks, feed, indexed, latestTxID, totals>>
  BY SameList DEF Results!Request, Results!chain
<1>2. TxList \subseteq AccountTxs
  BY DEF TxList
<1>3. AccountTxs' = AccountTxs /\ FcdInv'
  BY <1>1 DEF AccountTxs, TxsIn, Touches, CounterInv, FcdInv, ChainInv, Height
<1>4. CountedOnce'
  BY <1>1, <1>3 DEF CounterInv, CountedOnce, PassedFailed, PassedOthers, Before, Results!IsFailed
<1> QED
  BY <1>1, <1>2, <1>3, <1>4 DEF CounterInv

\* A Fetch counts: what it counts it passes, and it has not passed before.
LEMMA CounterCounts ==
  ASSUME CounterInv, NEW f \in Fetchers, Results!Count(f)
  PROVE  CounterInv'
<1> DEFINE recent == {tx \in response[f] : Before(latestTxID, tx.id)}
           failed == {tx \in recent : Results!IsFailed(tx)}
           others == recent \ failed
<1>1. /\ response[f] # {}
      /\ totals' = [failed |-> totals.failed + Cardinality(failed),
                    succeeded |-> totals.succeeded + Cardinality(others)]
      /\ latestTxID' = Results!NewLatest(f)
      /\ response' = [response EXCEPT ![f] = {}]
      /\ UNCHANGED <<blocks, feed, indexed>>
  <2>1. {tx \in response[f] : Results!Before(latestTxID, tx.id)} = recent
    BY SameList
  <2> QED
    BY <2>1, SameCardinality DEF Results!Count, Results!chain
<1>2. FcdInv /\ response[f] \subseteq AccountTxs /\ latestTxID \in Ids
  BY DEF CounterInv
<1>3. AccountTxs' = AccountTxs /\ FcdInv'
  BY <1>1, <1>2 DEF AccountTxs, TxsIn, Touches, FcdInv, ChainInv, Height
<1>4. /\ latestTxID' \in Ids /\ ~Before(latestTxID', latestTxID)
      /\ \A tx \in response[f] : ~Before(latestTxID', tx.id)
  <2> DEFINE ids == {tx.id : tx \in response[f]}
             all == {latestTxID} \cup ids
             Latest(id) == ~Before(id, latestTxID) /\ \A tx \in response[f] : ~Before(id, tx.id)
  <2>1. \A tx \in response[f] : tx.id \in Ids
    BY <1>2, TxFacts
  <2>2. all \in SUBSET Ids /\ all # {}
    BY <1>2, <2>1
  <2>3. IsFiniteSet(all)
    <3>1. IsFiniteSet(response[f])
      BY <1>2, TxsFinite, FS_Subset
    <3>2. IsFiniteSet(ids)
      <4> DEFINE id == [tx \in response[f] |-> tx.id]
      <4>1. id \in Surjection(response[f], ids)
        BY DEF Surjection
      <4> QED
        BY <3>1, <4>1, FS_Surjection
    <3> QED
      BY <3>2, FS_AddElement
  <2>4. PICK id \in all : \A y \in all : ~Before(id, y)
    <3> HIDE DEF all
    <3> QED
      BY <2>2, <2>3, LatestExists
  <2>5. Latest(id)
    BY <2>4
  <2>6. Results!NewLatest(f) = CHOOSE id_1 \in all : Latest(id_1)
    BY SameList DEF Results!NewLatest
  <2>7. latestTxID' \in all /\ Latest(latestTxID')
    <3> HIDE DEF all, Latest
    <3> QED
      BY <1>1, <2>4, <2>5, <2>6
  <2> QED
    BY <2>2, <2>7
<1>5. /\ failed \subseteq PassedFailed' /\ PassedFailed \subseteq PassedFailed'
      /\ others \subseteq PassedOthers' /\ PassedOthers \subseteq PassedOthers'
      /\ failed \cap PassedFailed = {} /\ others \cap PassedOthers = {}
  <2>1. \A tx \in AccountTxs : ~Before(latestTxID, tx.id) => ~Before(latestTxID', tx.id)
    BY <1>2, <1>4, TxFacts, BeforeOrders
  <2>2. /\ PassedFailed' = {tx \in AccountTxs : ~Before(latestTxID', tx.id) /\ Results!IsFailed(tx)}
        /\ PassedOthers' = {tx \in AccountTxs : ~Before(latestTxID', tx.id) /\ ~Results!IsFailed(tx)}
    BY <1>3 DEF PassedFailed, PassedOthers, Before, Results!IsFailed
  <2> QED
    BY <1>2, <1>4, <2>1, <2>2 DEF PassedFailed, PassedOthers
<1>6. /\ IsFiniteSet(failed) /\ IsFiniteSet(others)
      /\ Cardinality(failed) \in Nat /\ Cardinality(others) \in Nat
      /\ Cardinality(PassedFailed) + Cardinality(failed) <= Cardinality(PassedFailed')
      /\ Cardinality(PassedOthers) + Cardinality(others) <= Cardinality(PassedOthers')
  <2> HIDE DEF failed, others
  <2>1. /\ IsFiniteSet(PassedFailed) /\ IsFiniteSet(PassedOthers)
        /\ IsFiniteSet(PassedFailed') /\ IsFiniteSet(PassedOthers')
    BY <1>2, <1>3, PassedFinite, PassedFiniteNext DEF PassedFinitely
  <2>2. IsFiniteSet(failed) /\ IsFiniteSet(others)
    BY <1>5, <2>1, FS_Subset
  <2>3. /\ Cardinality(PassedFailed \cup failed) = Cardinality(PassedFailed) + Cardinality(failed)
        /\ Cardinality(PassedOthers \cup others) = Cardinality(PassedOthers) + Cardinality(others)
    <3>1. /\ PassedFailed \cap failed = {} /\ PassedOthers \cap others = {}
          /\ Cardinality({}) = 0
      BY <1>5, FS_EmptySet
    <3>2. /\ Cardinality(PassedFailed) \in Nat /\ Cardinality(PassedOthers) \in Nat
          /\ Cardinality(failed) \in Nat /\ Cardinality(others) \in Nat
      BY <2>1, <2>2, FS_CardinalityType
    <3>3. Cardinality(PassedFailed \cup failed) = Cardinality(PassedFailed) + Cardinality(failed) - 0
      BY <2>1, <2>2, <3>1, FS_Union
    <3>4. Cardinality(PassedOthers \cup others) = Cardinality(PassedOthers) + Cardinality(others) - 0
      BY <2>1, <2>2, <3>1, FS_Union
    <3> QED
      BY <3>2, <3>3, <3>4
  <2>4. /\ Cardinality(PassedFailed \cup failed) <= Cardinality(PassedFailed')
        /\ Cardinality(PassedOthers \cup others) <= Cardinality(PassedOthers')
    BY <1>5, <2>1, FS_Subset
  <2> QED
    BY <2>2, <2>3, <2>4, FS_CardinalityType
<1>7. CountedOnce' /\ totals' \in [failed : Nat, succeeded : Nat]
  <2> HIDE DEF failed, others
  <2> QED
    BY <1>1, <1>2, <1>3, <1>6, PassedFinite, PassedFiniteNext
       DEF CounterInv, CountedOnce, PassedFinitely
<1> QED
  BY <1>1, <1>3, <1>4, <1>7 DEF CounterInv

\* A step of the composition is one of the chain or the FCD, or leaves them.
LEMMA StepProgresses == [MonitoringNext]_<<mvars, counter>> => Progress
<1> SUFFICES ASSUME [MonitoringNext]_<<mvars, counter>> PROVE Progress
  OBVIOUS
<1>1. CASE Fetch
  BY <1>1 DEF Fetch, FetchTransmission, FetchConfigBlock, CompareConfigBlock, FetchConfigFromLogs,
              Join, Progress
<1>2. ASSUME NEW f \in Fetchers, Results!Request(f) \/ Results!Count(f) PROVE Progress
  BY <1>2 DEF Results!Request, Results!Count, Results!chain, Progress, chain
<1>3. CASE UNCHANGED <<mvars, counter>>
  BY <1>3 DEF mvars, Progress
<1> QED
  BY <1>1, <1>2, <1>3 DEF MonitoringNext, Grow, IndexBlock, Progress

LEMMA CounterStep == CounterInv /\ [MonitoringNext]_<<mvars, counter>> => CounterInv'
<1> SUFFICES ASSUME CounterInv, [MonitoringNext]_<<mvars, counter>> PROVE CounterInv'
  OBVIOUS
<1>1. ASSUME NEW f \in Fetchers, Results!Request(f) \/ Results!Count(f) PROVE CounterInv'
  BY <1>1, CounterRequests, CounterCounts
<1>2. CASE UNCHANGED counter
  BY <1>2, StepProgresses, CounterWatches
<1> QED
  BY <1>1, <1>2 DEF MonitoringNext, Results!Grow, Results!IndexBlock, counter

\* However the lists of overlapping Fetches overlap, and in whatever order
\* these end, no transaction is counted twice, nor a failed one as succeeded:
\* for every limit of a list and any number of Fetches (txResultsSource.Fetch).
THEOREM CountsOnce == MonitoringSpec => []NoneCountedTwice
<1>1. CounterInv => NoneCountedTwice
  BY CountedOnceSuffices DEF CounterInv
<1> QED
  BY CounterInit, CounterStep, <1>1, PTL DEF MonitoringSpec
-----------------------------------------------------------------------------
(* The envelope: a configuration of the Fetch that reports it *)

\* Transactions of a block with these events.
TxsOf(height, record) ==
  {[id |-> <<height, i>>, height |-> height, log |-> record[i]] : i \in DOMAIN record}

\* What is found in a block is what it left the feed with.
LEMMA NewestConfig ==
  ASSUME NEW state \in States, NEW block \in Seq(Seq(Messages)), NEW height \in Nat,
         LastConfigFirst(block)
  PROVE  LET after == ExecuteAll(state, FlattenSeq(block), height)
             found == Matching(TxsOf(height, Record(state, block, height)), "config")
         IN  \/ after.block = state.block /\ after.digest = state.digest
             \/ /\ after.block = height
                /\ found # {} => Newest(found).log[1].state.digest = after.digest
<1> DEFINE after == ExecuteAll(state, FlattenSeq(block), height)
           record == Record(state, block, height)
           found == Matching(TxsOf(height, record), "config")
           Tx(i) == [id |-> <<height, i>>, height |-> height, log |-> record[i]]
<1>1. /\ Len(block) \in Nat /\ DOMAIN block = 1 .. Len(block)
      /\ \A i \in DOMAIN block : Len(block[i]) \in Nat /\ DOMAIN block[i] = 1 .. Len(block[i])
  OBVIOUS
<1>2. /\ DOMAIN record = DOMAIN block
      /\ \A i \in DOMAIN block : /\ DOMAIN record[i] = DOMAIN block[i]
                                /\ \A m \in DOMAIN block[i] : record[i][m].kind = block[i][m]
  BY DEF Record
<1>3. record \in Seq(Seq(Events))
  BY RecordType
<1>4. \A i \in DOMAIN block :
        Tx(i) \in found <=> 1 \in DOMAIN block[i] /\ block[i][1] = "config"
  <2> SUFFICES ASSUME NEW i \in DOMAIN block
               PROVE  Tx(i) \in found <=> 1 \in DOMAIN block[i] /\ block[i][1] = "config"
    OBVIOUS
  <2>1. Tx(i) \in found <=> record[i] # <<>> /\ record[i][1].kind = "config"
    <3> HIDE DEF record
    <3> QED
      BY <1>2 DEF Matching, TxsOf
  <2>2. record[i] # <<>> <=> 1 \in DOMAIN record[i]
    <3>1. record[i] \in Seq(Events)
      BY <1>2, <1>3
    <3> HIDE DEF record
    <3> QED
      BY <3>1
  <2> HIDE DEF record, found
  <2> QED
    BY <1>2, <2>1, <2>2
<1>5. \A tx \in found : \E i \in DOMAIN block : tx = Tx(i)
  BY <1>2 DEF Matching, TxsOf
<1>6. CASE after.block = state.block /\ after.digest = state.digest
  BY <1>6
<1>7. ASSUME NEW i \in DOMAIN block, NEW m \in DOMAIN block[i], block[i][m] = "config",
             \A j \in DOMAIN block : \A k \in DOMAIN block[j] :
               block[j][k] = "config" => j < i \/ (j = i /\ k <= m),
             after.digest = ExecuteAll(state, UpTo(block, i, m), height).digest,
             found # {}
      PROVE  Newest(found).log[1].state.digest = after.digest
  <2>1. PICK j \in DOMAIN block : 1 \in DOMAIN block[j] /\ block[j][1] = "config"
    <3> HIDE DEF found, Tx
    <3> QED
      BY <1>4, <1>5, <1>7
  <2>2. m = 1
    <3>1. ASSUME m # 1 PROVE FALSE
      <4>1. PICK k \in DOMAIN block : i < k /\ 1 \in DOMAIN block[k] /\ block[k][1] = "config"
        BY <1>7, <2>1, <3>1 DEF LastConfigFirst
      <4>2. k < i \/ k = i
        BY <1>7, <4>1
      <4> QED
        BY <1>1, <4>1, <4>2
    <3> QED
      BY <3>1
  <2>3. Tx(i) \in found
    BY <1>4, <1>7, <2>2
  <2>4. \A k \in DOMAIN block : Tx(k) \in found => k < i \/ k = i
    BY <1>4, <1>7
  <2>5. \A k \in DOMAIN block : Before(Tx(k).id, Tx(i).id) <=> k < i
    BY <1>1 DEF Before
  <2>6. \A k \in DOMAIN block : k < i \/ k = i => ~Before(Tx(i).id, Tx(k).id)
    BY <1>1 DEF Before
  <2>7. \A tx \in found : ~Before(Tx(i).id, tx.id)
    <3> HIDE DEF found, Tx
    <3> QED
      BY <1>5, <2>4, <2>6
  <2>8. Newest(found) = Tx(i)
    <3> HIDE DEF found, Tx
    <3>1. Newest(found) \in found /\ ~Before(Newest(found).id, Tx(i).id)
      BY <2>3, <2>7 DEF Newest
    <3>2. PICK k \in DOMAIN block : Newest(found) = Tx(k)
      BY <1>5, <3>1
    <3>3. k = i
      BY <2>4, <2>5, <3>1, <3>2
    <3> QED
      BY <3>2, <3>3
  <2>9. Tx(i).log[1].state = ExecuteAll(state, UpTo(block, i, 1), height)
    <3>1. block[i][1] # "otherConfig" /\ 1 \in DOMAIN block[i]
      BY <1>7, <2>2
    <3>2. Tx(i).log = record[i]
      BY DEF record
    <3> QED
      BY <3>1, <3>2 DEF Record
  <2> HIDE DEF found, Tx, after
  <2> QED
    BY <1>7, <2>2, <2>8, <2>9
<1>8. \/ after.block = state.block /\ after.digest = state.digest
      \/ \E i \in DOMAIN block : \E m \in DOMAIN block[i] :
           /\ block[i][m] = "config"
           /\ \A j \in DOMAIN block : \A k \in DOMAIN block[j] :
                block[j][k] = "config" => j < i \/ (j = i /\ k <= m)
           /\ after.block = height
           /\ after.digest = ExecuteAll(state, UpTo(block, i, m), height).digest
  <2> HIDE DEF after
  <2> QED
    BY LastConfig DEF after
<1>9. \/ after.block = state.block /\ after.digest = state.digest
      \/ /\ after.block = height
         /\ found # {} => Newest(found).log[1].state.digest = after.digest
  <2> HIDE DEF after, found
  <2> QED
    BY <1>7, <1>8
<1> QED
  BY <1>9

ConfigFound(height) == Matching(TxsIn(height), "config")

\* Where a state of the feed says it was configured its configuration is found,
\* if any is.
Current(state) ==
  /\ state.block \in 0 .. Height
  /\ state.block # 0 /\ ConfigFound(state.block) # {} =>
       Newest(ConfigFound(state.block)).log[1].state.digest = state.digest

PartsOK ==
  configPart.at \in {"block", "logs"} =>
    configPart = [at |-> configPart.at, block |-> configPart.block]

\* What is kept is what its block says.
Kept ==
  cached = NoConfig \/
    /\ cached.block \in 1 .. Height /\ ConfigFound(cached.block) # {}
    /\ cached.digest = Newest(ConfigFound(cached.block)).log[1].state.digest

SeenInv ==
  /\ feed \in seen /\ \A s \in seen : Current(s)
  /\ PartsOK /\ Kept
  /\ configPart.at \in {"block", "logs"} => \E s \in seen : s.block = configPart.block
  /\ ConfigIsOfThisFetch

ConfigInv == FcdInv /\ SeenInv

LEMMA ConfigInit ==
  ASSUME \A block \in Starts \cup Blocks : LastConfigFirst(block), Init
  PROVE  ConfigInv
<1>1. PICK block \in Starts : /\ blocks = <<Record(Unconfigured, block, 1)>>
                              /\ feed = ExecuteAll(Unconfigured, FlattenSeq(block), 1)
  BY DEF Init, ChainInit
<1>2. block \in Seq(Seq(Messages)) /\ LastConfigFirst(block)
  BY ChainAssumption
<1>3. Unconfigured \in States /\ Unconfigured.block = 0
  BY DEF Unconfigured, States
<1>4. Height = 1 /\ TxsIn(1) = TxsOf(1, Record(Unconfigured, block, 1))
  BY <1>1 DEF Height, TxsIn, TxsOf
<1>5. FcdInv
  BY ChainStarts DEF Init, FcdInv, ChainInv, Height
<1>6. Current(feed)
  <2>1. \/ feed.block = 0
        \/ feed.block = 1 /\ (ConfigFound(1) # {} =>
                                Newest(ConfigFound(1)).log[1].state.digest = feed.digest)
    BY <1>1, <1>2, <1>3, <1>4, NewestConfig DEF ConfigFound
  <2> QED
    BY <1>4, <2>1 DEF Current
<1>7. /\ cached = NoConfig /\ configPart = [at |-> "ask"] /\ seen = {feed}
  BY DEF Init, Asking
<1> QED
  BY <1>5, <1>6, <1>7 DEF ConfigInv, SeenInv, PartsOK, Kept, ConfigIsOfThisFetch

\* A block is committed.
LEMMA ConfigGrows ==
  ASSUME \A block \in Starts \cup Blocks : LastConfigFirst(block), ConfigInv,
         NEW block \in Blocks, Grow(block)
  PROVE  ConfigInv'
<1>1. /\ Commit(block) /\ seen' = seen \cup {feed'}
      /\ UNCHANGED <<indexed, cached, configPart>>
  BY DEF Grow
<1>2. /\ FcdInv' /\ Height <= Height' /\ \A h \in 1 .. Height : TxsIn(h)' = TxsIn(h)
  BY <1>1, FcdGrows DEF ConfigInv, Progress
<1>3. \A h \in 1 .. Height : ConfigFound(h)' = ConfigFound(h)
  BY <1>2 DEF ConfigFound, Matching
<1>4. Height \in Nat /\ Height' = Height + 1 /\ feed \in States
  BY <1>1, ChainGrows DEF ConfigInv, FcdInv, ChainInv
<1> PICK next \in Nat : next = Height + 1
  BY <1>4
<1>5. ASSUME NEW state, Current(state) PROVE Current(state)'
  BY <1>2, <1>3, <1>4, <1>5 DEF Current
<1>6. /\ feed' = ExecuteAll(feed, FlattenSeq(block), next)
      /\ TxsIn(next)' = TxsOf(next, Record(feed, block, next))
  <2> DEFINE record == Record(feed, block, next)
  <2>1. blocks' = Append(blocks, record) /\ blocks \in Seq(Seq(Seq(Events))) /\ Height = Len(blocks)
    BY <1>1 DEF Commit, ConfigInv, FcdInv, ChainInv, Height
  <2>2. blocks'[next] = record
    <3> HIDE DEF record
    <3> QED
      BY <2>1
  <2> HIDE DEF record
  <2>3. TxsIn(next)' = TxsOf(next, record)
    BY <2>2 DEF TxsIn, TxsOf
  <2> QED
    BY <1>1, <2>3 DEF Commit, record
<1>7. block \in Seq(Seq(Messages)) /\ LastConfigFirst(block)
  BY ChainAssumption
<1>8. \/ feed'.block = feed.block /\ feed'.digest = feed.digest
      \/ /\ feed'.block = next
         /\ ConfigFound(next)' # {} =>
              Newest(ConfigFound(next)').log[1].state.digest = feed'.digest
  BY <1>4, <1>6, <1>7, NewestConfig DEF ConfigFound
<1>9. Current(feed)'
  <2>1. CASE feed'.block = feed.block /\ feed'.digest = feed.digest
    <3>1. PICK b \in 0 .. Height : b = feed.block /\ b = feed'.block
      BY <2>1 DEF ConfigInv, SeenInv, Current
    <3>2. b # 0 /\ ConfigFound(b) # {} => Newest(ConfigFound(b)).log[1].state.digest = feed.digest
      BY <3>1 DEF ConfigInv, SeenInv, Current
    <3>3. b # 0 => ConfigFound(b)' = ConfigFound(b)
      BY <1>3, <1>4, <3>1
    <3>4. b # 0 /\ ConfigFound(b)' # {} =>
            Newest(ConfigFound(b)').log[1].state.digest = feed'.digest
      BY <2>1, <3>2, <3>3
    <3> QED
      BY <1>4, <3>1, <3>4 DEF Current
  <2>2. CASE /\ feed'.block = next
             /\ ConfigFound(next)' # {} =>
                  Newest(ConfigFound(next)').log[1].state.digest = feed'.digest
    BY <1>4, <2>2 DEF Current, ConfigFound
  <2> QED
    BY <1>8, <2>1, <2>2
<1>10. Kept'
  BY <1>1, <1>2, <1>3, <1>4 DEF ConfigInv, SeenInv, Kept
<1> QED
  BY <1>1, <1>2, <1>5, <1>9, <1>10 DEF ConfigInv, SeenInv, PartsOK, ConfigIsOfThisFetch

\* The configuration is fetched, from what is kept or from the logs.
LEMMA ConfigFetches ==
  ASSUME ConfigInv, Fetch
  PROVE  ConfigInv'
<1> USE DEF ConfigInv
<1>1. UNCHANGED <<blocks, feed, indexed>>
  BY DEF Fetch, FetchTransmission, FetchConfigBlock, CompareConfigBlock, FetchConfigFromLogs, Join,
         chain
<1>2. /\ FcdInv' /\ Height' = Height /\ \A state : Current(state)' <=> Current(state)
      /\ \A h : ConfigFound(h)' = ConfigFound(h)
  <2>1. \A h : TxsIn(h)' = TxsIn(h)
    BY <1>1 DEF TxsIn
  <2> QED
    BY <1>1, <2>1 DEF FcdInv, ChainInv, Height, Current, ConfigFound, Matching
<1>3. CASE FetchTransmission
  BY <1>1, <1>2, <1>3 DEF FetchTransmission, SeenInv, PartsOK, Kept, ConfigIsOfThisFetch
<1>4. CASE FetchConfigBlock
  BY <1>1, <1>2, <1>4 DEF FetchConfigBlock, SeenInv, PartsOK, Kept, ConfigIsOfThisFetch, Failed
<1>5. CASE CompareConfigBlock
  <2>1. PICK outcome \in RaceOutcomes :
          configPart' = IF Glimpse(outcome).block # 0 /\ Glimpse(outcome).block = configPart.block
                        THEN [at |-> "ok", digest |-> Glimpse(outcome).digest]
                        ELSE [configPart EXCEPT !.at = "logs"]
    BY <1>5 DEF CompareConfigBlock
  <2>2. configPart.at = "block" /\ UNCHANGED <<cached, seen>>
    BY <1>5 DEF CompareConfigBlock
  <2>3. Kept'
    BY <1>2, <2>2 DEF SeenInv, Kept
  <2>4. CASE Glimpse(outcome).block # 0 /\ Glimpse(outcome).block = configPart.block
    <3>1. configPart' = [at |-> "ok", digest |-> Glimpse(outcome).digest]
      BY <2>1, <2>4
    <3>2. CASE outcome = "all"
      <4>1. Glimpse(outcome) = cached
        BY <3>2 DEF Glimpse
      <4>2. PICK s \in seen : s.block = configPart.block
        BY <2>2 DEF SeenInv
      <4>3. s.digest = cached.digest
        BY <2>4, <4>1, <4>2 DEF SeenInv, Kept, Current, NoConfig
      <4> QED
        BY <1>1, <1>2, <2>2, <2>3, <3>1, <4>1, <4>2, <4>3 DEF SeenInv, PartsOK, ConfigIsOfThisFetch
    <3>3. CASE outcome = "block"
      <4>1. Glimpse(outcome).digest = 0
        BY <3>3 DEF Glimpse, NoConfig
      <4> QED
        BY <1>1, <1>2, <2>2, <2>3, <3>1, <3>3, <4>1 DEF SeenInv, PartsOK, ConfigIsOfThisFetch
    <3>4. outcome # "nothing"
      BY <2>4 DEF Glimpse, NoConfig
    <3> QED
      BY <3>2, <3>3, <3>4, RaceAssumption
  <2>5. CASE ~(Glimpse(outcome).block # 0 /\ Glimpse(outcome).block = configPart.block)
    <3>1. configPart' = [at |-> "logs", block |-> configPart.block]
      BY <2>1, <2>2, <2>5 DEF SeenInv, PartsOK
    <3> QED
      BY <1>1, <1>2, <2>2, <2>3, <3>1 DEF SeenInv, PartsOK, ConfigIsOfThisFetch
  <2> QED
    BY <2>4, <2>5
<1>6. CASE FetchConfigFromLogs
  <2> DEFINE found == ConfigsIn(configPart.block)
             digest == Newest(found).log[1].state.digest
  <2>1. /\ configPart.at = "logs" /\ UNCHANGED seen
        /\ \/ configPart' = Failed /\ UNCHANGED cached
           \/ /\ found # {} /\ configPart' = [at |-> "ok", digest |-> digest]
              /\ cached' = [block |-> configPart.block, digest |-> digest]
    BY <1>6 DEF FetchConfigFromLogs
  <2>2. CASE configPart' = Failed /\ UNCHANGED cached
    BY <1>1, <1>2, <2>1, <2>2 DEF SeenInv, PartsOK, Kept, ConfigIsOfThisFetch, Failed
  <2>3. CASE /\ found # {} /\ configPart' = [at |-> "ok", digest |-> digest]
             /\ cached' = [block |-> configPart.block, digest |-> digest]
    <3>1. configPart.block \in 1 .. indexed /\ found = ConfigFound(configPart.block)
      BY <2>3 DEF ConfigsIn, ConfigFound, BlockTxs
    <3>2. configPart.block \in 1 .. Height
      BY <3>1 DEF FcdInv, ChainInv
    <3>3. PICK s \in seen : s.block = configPart.block
      BY <2>1 DEF SeenInv
    <3>4. s.digest = digest
      BY <2>3, <3>1, <3>2, <3>3 DEF SeenInv, Current
    <3> HIDE DEF found, digest
    <3>5. Kept'
      <4>1. PICK height \in 1 .. Height : height = configPart.block
        BY <3>2
      <4>2. ConfigFound(height)' = found /\ cached' = [block |-> height, digest |-> digest]
        BY <1>2, <2>3, <3>1, <4>1
      <4>3. (Newest(ConfigFound(height)))' = Newest(found)
        BY <4>2 DEF Newest, Before
      <4> QED
        BY <1>2, <2>3, <4>2, <4>3 DEF Kept, digest
    <3> QED
      BY <1>1, <1>2, <2>1, <2>3, <3>3, <3>4, <3>5 DEF SeenInv, PartsOK, ConfigIsOfThisFetch
  <2> QED
    BY <2>1, <2>2, <2>3
<1>7. CASE Join
  BY <1>1, <1>2, <1>7 DEF Join, SeenInv, PartsOK, Kept, ConfigIsOfThisFetch, Asking
<1> QED
  BY <1>3, <1>4, <1>5, <1>6, <1>7 DEF Fetch

\* The FCD has one more block.
LEMMA ConfigIndexes ==
  ASSUME ConfigInv, FcdInv',
         UNCHANGED <<blocks, feed, cached, configPart, seen>>
  PROVE  ConfigInv'
<1>1. \A h : TxsIn(h)' = TxsIn(h)
  BY DEF TxsIn
<1>2. /\ Height' = Height /\ \A state : Current(state)' <=> Current(state)
      /\ \A h : ConfigFound(h)' = ConfigFound(h)
  BY <1>1 DEF Height, Current, ConfigFound, Matching
<1> QED
  BY <1>2 DEF ConfigInv, SeenInv, PartsOK, Kept, ConfigIsOfThisFetch

LEMMA ConfigStep ==
  ASSUME \A block \in Starts \cup Blocks : LastConfigFirst(block),
         ConfigInv, [MonitoringNext]_<<mvars, counter>>
  PROVE  ConfigInv'
<1>1. FcdInv'
  BY StepProgresses, FcdGrows DEF ConfigInv
<1>2. CASE IndexBlock
  BY <1>1, <1>2, ConfigIndexes DEF IndexBlock, chain
<1>3. ASSUME NEW f \in Fetchers, Results!Request(f) \/ Results!Count(f), UNCHANGED source
      PROVE  ConfigInv'
  BY <1>1, <1>3, ConfigIndexes DEF Results!Request, Results!Count, Results!chain, source
<1>4. CASE UNCHANGED <<mvars, counter>>
  BY <1>1, <1>4, ConfigIndexes DEF mvars, chain
<1> QED
  BY <1>2, <1>3, <1>4, ConfigGrows, ConfigFetches DEF MonitoringNext

\* When the blocks show their last configuration to a reader of first
\* messages, the configuration a Fetch reports is one the feed had while it
\* ran: for every chain, every lag of the FCD, every failure of a request and
\* whatever the race with the copy shows (envelopeSource.Fetch).
THEOREM ReportsItsConfig ==
  ASSUME \A block \in Starts \cup Blocks : LastConfigFirst(block)
  PROVE  MonitoringSpec => []ConfigIsOfThisFetch
<1>1. MonitoringInit => ConfigInv
  BY ConfigInit DEF MonitoringInit
<1>2. ConfigInv /\ [MonitoringNext]_<<mvars, counter>> => ConfigInv'
  BY ConfigStep
<1>3. ConfigInv => ConfigIsOfThisFetch
  BY DEF ConfigInv, SeenInv
<1> QED
  BY <1>1, <1>2, <1>3, PTL DEF MonitoringSpec
-----------------------------------------------------------------------------
(* The envelope: a round not older than what the FCD had *)

Transmits(txs) == Matching(txs, "transmit")

Answer(tx) == tx.log[1].state.answer

\* Transmissions in the order of their answers, all between two.
InOrder(txs, low, high) ==
  \A tx \in Transmits(txs) :
    /\ tx.id \in Ids /\ Answer(tx) \in Nat
    /\ low <= Answer(tx) /\ Answer(tx) <= high
    /\ \A t \in Transmits(txs) : Before(tx.id, t.id) => Answer(tx) <= Answer(t)

LEMMA BlockInOrder ==
  ASSUME NEW state \in States, NEW block \in Seq(Seq(Messages)), NEW height \in Nat
  PROVE  InOrder(TxsOf(height, Record(state, block, height)), state.answer,
                 ExecuteAll(state, FlattenSeq(block), height).answer)
<1> DEFINE record == Record(state, block, height)
           high == ExecuteAll(state, FlattenSeq(block), height).answer
           There(i) == ExecuteAll(state, UpTo(block, i, 1), height).answer
           Tx(i) == [id |-> <<height, i>>, height |-> height, log |-> record[i]]
<1>1. /\ Len(block) \in Nat /\ DOMAIN block = 1 .. Len(block)
      /\ DOMAIN record = DOMAIN block
  BY DEF Record
<1>2. record \in Seq(Seq(Events))
  BY RecordType
<1>3. \A tx \in Transmits(TxsOf(height, record)) :
        \E i \in DOMAIN block : /\ 1 \in DOMAIN block[i] /\ tx = Tx(i)
                                /\ Answer(tx) = There(i) /\ Answer(tx) \in Nat
  <2> SUFFICES ASSUME NEW tx \in Transmits(TxsOf(height, record))
               PROVE  \E i \in DOMAIN block : /\ 1 \in DOMAIN block[i] /\ tx = Tx(i)
                                              /\ Answer(tx) = There(i) /\ Answer(tx) \in Nat
    OBVIOUS
  <2>1. PICK i \in DOMAIN block : tx = Tx(i) /\ record[i] # <<>> /\ record[i][1].kind = "transmit"
    <3> HIDE DEF record
    <3> QED
      BY <1>1 DEF Transmits, Matching, TxsOf
  <2>2. record[i] \in Seq(Events) /\ 1 \in DOMAIN record[i] /\ record[i][1] \in Events
    <3> HIDE DEF record
    <3> QED
      BY <1>1, <1>2, <2>1
  <2>3. DOMAIN record[i] = DOMAIN block[i] /\ record[i][1].kind = block[i][1]
    BY <2>2 DEF Record
  <2>4. record[i][1].state = ExecuteAll(state, UpTo(block, i, 1), height)
    BY <2>1, <2>2, <2>3 DEF Record
  <2> HIDE DEF record
  <2> QED
    BY <2>1, <2>2, <2>3, <2>4 DEF Answer, Events, States
<1>4. \A i \in DOMAIN block : 1 \in DOMAIN block[i] =>
        /\ state.answer <= There(i) /\ There(i) <= high
        /\ \A j \in DOMAIN block : i < j /\ 1 \in DOMAIN block[j] => There(i) <= There(j)
  BY AnswersGrow
<1>5. \A i, j \in DOMAIN block : /\ Tx(i).id \in Ids
                                 /\ Before(Tx(i).id, Tx(j).id) => i < j
  BY <1>1 DEF Before, Ids
<1> HIDE DEF record, high, There, Tx
<1>6. InOrder(TxsOf(height, record), state.answer, high)
  BY <1>3, <1>4, <1>5 DEF InOrder
<1> QED
  BY <1>6 DEF record, high

AnswersInOrder == InOrder(ChainTxs, 0, feed.answer)

LEMMA AnswersStart == Init => AnswersInOrder
<1> SUFFICES ASSUME Init PROVE AnswersInOrder
  OBVIOUS
<1>1. PICK block \in Starts : /\ blocks = <<Record(Unconfigured, block, 1)>>
                              /\ feed = ExecuteAll(Unconfigured, FlattenSeq(block), 1)
  BY DEF Init, ChainInit
<1>2. block \in Seq(Seq(Messages))
  BY ChainAssumption
<1>3. Unconfigured \in States /\ Unconfigured.answer = 0
  BY DEF Unconfigured, States
<1>4. ChainTxs = TxsOf(1, Record(Unconfigured, block, 1))
  BY <1>1 DEF ChainTxs, Height, TxsIn, TxsOf
<1> QED
  BY <1>1, <1>2, <1>3, <1>4, BlockInOrder DEF AnswersInOrder

LEMMA AnswersCommit ==
  ASSUME FcdInv, AnswersInOrder, NEW block \in Blocks, Commit(block)
  PROVE  AnswersInOrder'
<1>1. /\ ChainInv' /\ Height' = Height + 1 /\ Height \in Nat
      /\ \A h \in 1 .. Height : blocks'[h] = blocks[h]
      /\ feed \in States /\ feed.answer \in Nat /\ feed'.answer \in Nat /\ feed.answer <= feed'.answer
  <2>1. feed \in States /\ feed' \in States /\ Height \in Nat
    BY ChainGrows DEF FcdInv, ChainInv
  <2> QED
    BY <2>1, ChainGrows DEF FcdInv, After, States
<1> PICK next \in Nat : next = Height + 1
  BY <1>1
<1> DEFINE record == Record(feed, block, next)
           new == TxsOf(next, record)
<1>2. /\ blocks' = Append(blocks, record) /\ feed' = ExecuteAll(feed, FlattenSeq(block), next)
      /\ block \in Seq(Seq(Messages)) /\ blocks \in Seq(Seq(Seq(Events)))
  BY ChainAssumption DEF Commit, FcdInv, ChainInv
<1>3. InOrder(new, feed.answer, feed'.answer)
  BY <1>1, <1>2, BlockInOrder
<1> HIDE DEF record
<1>4. blocks'[next] = record
  BY <1>2 DEF Height
<1>5. TxsIn(next)' = new /\ \A h \in 1 .. Height : TxsIn(h)' = TxsIn(h)
  BY <1>1, <1>4 DEF TxsIn, TxsOf
<1>6. ChainTxs' = ChainTxs \cup new
  <2>1. 1 .. Height' = (1 .. Height) \cup {next}
    BY <1>1
  <2> HIDE DEF new
  <2>2. ChainTxs' = UNION {TxsIn(h)' : h \in 1 .. Height'}
    BY DEF ChainTxs
  <2>3. UNION {TxsIn(h)' : h \in 1 .. Height'} = ChainTxs \cup new
    BY <1>5, <2>1 DEF ChainTxs
  <2> QED
    BY <2>2, <2>3
<1>7. /\ \A tx \in Transmits(ChainTxs) : tx.id[1] <= Height
      /\ \A tx \in Transmits(new) : tx.id[1] = next
      /\ Transmits(ChainTxs \cup new) = Transmits(ChainTxs) \cup Transmits(new)
  BY <1>1 DEF ChainTxs, TxsIn, TxsOf, Transmits, Matching
<1> HIDE DEF new
<1>8. \A tx \in Transmits(ChainTxs), t \in Transmits(new) : ~Before(t.id, tx.id)
  <2> SUFFICES ASSUME NEW tx \in Transmits(ChainTxs), NEW t \in Transmits(new)
               PROVE  ~Before(t.id, tx.id)
    OBVIOUS
  <2>1. tx.id \in Ids /\ tx.id[1] <= Height /\ t.id[1] = next
    BY <1>7 DEF AnswersInOrder, InOrder
  <2> QED
    BY <1>1, <2>1 DEF Before, Ids
<1>9. InOrder(ChainTxs \cup new, 0, feed'.answer)
  <2> SUFFICES ASSUME NEW tx \in Transmits(ChainTxs) \cup Transmits(new)
               PROVE  /\ tx.id \in Ids /\ Answer(tx) \in Nat
                      /\ 0 <= Answer(tx) /\ Answer(tx) <= feed'.answer
                      /\ \A t \in Transmits(ChainTxs) \cup Transmits(new) :
                           Before(tx.id, t.id) => Answer(tx) <= Answer(t)
    BY <1>7 DEF InOrder
  <2> QED
    BY <1>1, <1>3, <1>8 DEF AnswersInOrder, InOrder
<1> QED
  BY <1>6, <1>9 DEF AnswersInOrder, InOrder, Transmits, Matching, Answer, Before

LEMMA AnswersStep ==
  ASSUME FcdInv, AnswersInOrder, Progress
  PROVE  AnswersInOrder'
<1>1. ASSUME UNCHANGED chain PROVE AnswersInOrder'
  <2>1. UNCHANGED <<blocks, feed>>
    BY <1>1 DEF chain
  <2>2. ChainTxs' = ChainTxs
    BY <2>1 DEF ChainTxs, TxsIn, Height
  <2> QED
    BY <2>1, <2>2 DEF AnswersInOrder, InOrder, Transmits, Matching, Answer, Before
<1> QED
  BY <1>1, AnswersCommit DEF Progress, chain

\* What the FCD had when the Fetch began it has, and what the Fetch found is
\* not older.
KnownInv ==
  /\ known = 0 \/ \E tx \in Transmits(AccountTxs) : Answer(tx) = known
  /\ txPart.at = "ok" => txPart.answer >= known

RoundsInv == FcdInv /\ AnswersInOrder /\ KnownInv

LEMMA RoundsInit == Init => RoundsInv
<1> SUFFICES ASSUME Init PROVE RoundsInv
  OBVIOUS
<1>1. FcdInv
  BY ChainStarts DEF Init, FcdInv, ChainInv, Height
<1>2. KnownInv
  BY DEF Init, Asking, KnownInv
<1> QED
  BY <1>1, <1>2, AnswersStart DEF RoundsInv

LEMMA ListedInOrder ==
  ASSUME FcdInv, AnswersInOrder
  PROVE  /\ InOrder(AccountTxs, 0, feed.answer)
         /\ \A tx \in AccountTxs : tx.id \in Ids
<1>1. AccountTxs \subseteq ChainTxs
  BY DEF AccountTxs, ChainTxs, FcdInv, ChainInv
<1>2. Transmits(AccountTxs) \subseteq Transmits(ChainTxs)
  BY <1>1 DEF Transmits, Matching
<1> QED
  BY <1>2, TxFacts DEF AnswersInOrder, InOrder

\* The newest transmission in the list is no older than any the FCD has.
LEMMA ListHasNewest ==
  ASSUME FcdInv, AnswersInOrder, Transmits(TxList) # {}
  PROVE  LET tx == Newest(Transmits(TxList)) IN
         /\ Answer(tx) \in Nat
         /\ \A t \in Transmits(AccountTxs) : Answer(t) <= Answer(tx)
<1> DEFINE listed == Transmits(TxList)
           tx == Newest(listed)
           Newer(t) == {u \in AccountTxs : Before(t.id, u.id)}
<1>1. /\ IsFiniteSet(AccountTxs) /\ TxList \subseteq AccountTxs
      /\ InOrder(AccountTxs, 0, feed.answer)
      /\ \A t \in AccountTxs : t.id \in Ids
  BY TxsFinite, ListedInOrder DEF TxList
<1>2. listed \subseteq AccountTxs /\ listed \subseteq Transmits(AccountTxs)
  BY <1>1 DEF Transmits, Matching
<1>3. tx \in listed /\ \A t \in listed : ~Before(tx.id, t.id)
  <2> DEFINE ids == {t.id : t \in listed}
  <2>1. IsFiniteSet(ids)
    <3>1. IsFiniteSet(listed)
      BY <1>1, <1>2, FS_Subset
    <3> DEFINE id == [t \in listed |-> t.id]
    <3>2. id \in Surjection(listed, ids)
      BY DEF Surjection
    <3> QED
      BY <3>1, <3>2, FS_Surjection
  <2>2. ids \in SUBSET Ids /\ ids # {}
    BY <1>1, <1>2
  <2>3. PICK x \in ids : \A y \in ids : ~Before(x, y)
    <3> HIDE DEF ids
    <3> QED
      BY <2>1, <2>2, LatestExists
  <2>4. PICK u \in listed : \A t \in listed : ~Before(u.id, t.id)
    BY <2>3
  <2> HIDE DEF listed
  <2> QED
    BY <2>4 DEF Newest
<1> HIDE DEF listed, tx
<1>4. ASSUME NEW t \in Transmits(AccountTxs), Before(tx.id, t.id) PROVE FALSE
  <2>1. t \in AccountTxs /\ tx \in AccountTxs /\ tx \in TxList
    BY <1>2, <1>3, <1>4 DEF Transmits, Matching, listed
  <2>2. Newer(t) \subseteq Newer(tx)
    <3> SUFFICES ASSUME NEW u \in AccountTxs, Before(t.id, u.id) PROVE Before(tx.id, u.id)
      OBVIOUS
    <3> QED
      BY <1>1, <1>4, <2>1, BeforeOrders
  <2>3. IsFiniteSet(Newer(tx))
    BY <1>1, FS_Subset
  <2> HIDE DEF Newer
  <2>4. /\ Cardinality(Newer(t)) <= Cardinality(Newer(tx))
        /\ Cardinality(Newer(t)) \in Nat /\ Cardinality(Newer(tx)) \in Nat
    BY <2>2, <2>3, FS_Subset, FS_CardinalityType
  <2>5. Cardinality(Newer(tx)) < Limit
    BY <2>1 DEF TxList, Newer
  <2>6. Cardinality(Newer(t)) < Limit
    BY <2>4, <2>5, LimitAssumption
  <2>7. t \in TxList
    BY <2>1, <2>6 DEF TxList, Newer
  <2>8. t \in listed
    BY <1>4, <2>7 DEF listed, Transmits, Matching
  <2> QED
    BY <1>3, <1>4, <2>8
<1>5. ASSUME NEW t \in Transmits(AccountTxs) PROVE Answer(t) <= Answer(tx)
  <2>1. tx \in Transmits(AccountTxs) /\ tx.id \in Ids /\ t.id \in Ids
        /\ Answer(tx) \in Nat /\ Answer(t) \in Nat
    BY <1>1, <1>2, <1>3, <1>5 DEF InOrder
  <2>2. CASE Before(t.id, tx.id)
    BY <1>1, <1>5, <2>1, <2>2 DEF InOrder
  <2>3. CASE ~Before(t.id, tx.id)
    <3>1. t.id = tx.id
      BY <1>4, <1>5, <2>1, <2>3, BeforeOrders
    <3>2. t \in AccountTxs /\ tx \in AccountTxs
      BY <1>2, <1>3, <1>5 DEF Transmits, Matching
    <3>3. t = tx
      BY <3>1, <3>2, TxFacts
    <3> QED
      BY <2>1, <3>3
  <2> QED
    BY <2>2, <2>3
<1>6. Answer(tx) \in Nat
  BY <1>1, <1>2, <1>3 DEF InOrder
<1> QED
  BY <1>5, <1>6 DEF tx, listed

\* What a Fetch begins with.
LEMMA NewestKnown ==
  ASSUME FcdInv, AnswersInOrder
  PROVE  NewestListed = 0 \/ \E tx \in Transmits(AccountTxs) : Answer(tx) = NewestListed
<1> DEFINE answers == {0} \cup {Answer(tx) : tx \in Transmits(AccountTxs)}
<1>1. feed.answer \in Nat /\ InOrder(AccountTxs, 0, feed.answer)
  BY ListedInOrder DEF FcdInv, ChainInv, States
<1>2. answers \in SUBSET (0 .. feed.answer) /\ answers # {}
  BY <1>1 DEF InOrder
<1>3. NewestListed = Max(answers)
  BY DEF NewestListed, Answer, Transmits
<1>4. Max(answers) \in answers
  <2> HIDE DEF answers
  <2> QED
    BY <1>1, <1>2, GreatestNumber
<1> HIDE DEF NewestListed
<1> QED
  BY <1>3, <1>4

LEMMA RoundsStep == RoundsInv /\ [MonitoringNext]_<<mvars, counter>> => RoundsInv'
<1> SUFFICES ASSUME RoundsInv, [MonitoringNext]_<<mvars, counter>> PROVE RoundsInv'
  OBVIOUS
<1> USE DEF RoundsInv
<1>1. /\ FcdInv' /\ AnswersInOrder' /\ AccountTxs \subseteq AccountTxs'
  BY StepProgresses, FcdGrows, AnswersStep
<1>2. \A tx \in Transmits(AccountTxs) : tx \in Transmits(AccountTxs)'
  BY <1>1 DEF Transmits, Matching
<1>3. CASE UNCHANGED <<known, txPart>>
  BY <1>1, <1>2, <1>3 DEF KnownInv, Answer
<1>4. CASE FetchTransmission
  <2>1. known' = known /\ UNCHANGED <<blocks, indexed>>
    BY <1>4 DEF FetchTransmission, chain
  <2>2. CASE txPart'.at # "ok"
    BY <1>1, <1>2, <2>1, <2>2 DEF KnownInv, Answer
  <2>3. CASE txPart' = TransmissionIn(TxList) /\ Transmits(TxList) # {}
    <3>1. txPart'.answer = Answer(Newest(Transmits(TxList)))
      BY <2>3 DEF TransmissionIn, Transmits, Answer
    <3>2. /\ Answer(Newest(Transmits(TxList))) \in Nat
          /\ \A t \in Transmits(AccountTxs) : Answer(t) <= Answer(Newest(Transmits(TxList)))
      BY <2>3, ListHasNewest
    <3>3. \A t \in Transmits(AccountTxs) : Answer(t) \in Nat
      BY ListedInOrder DEF InOrder
    <3>4. txPart'.answer >= known
      <4> DEFINE found == Answer(Newest(Transmits(TxList)))
      <4> HIDE DEF found
      <4>1. known \in Nat /\ found \in Nat /\ known <= found
        BY <3>2, <3>3 DEF KnownInv, found
      <4> QED
        BY <3>1, <4>1 DEF found
    <3> QED
      BY <1>1, <1>2, <2>1, <3>4 DEF KnownInv, Answer
  <2> QED
    BY <1>4, <2>2, <2>3 DEF FetchTransmission, TransmissionIn, Transmits, Failed
<1>5. CASE Join
  <2>1. known' = NewestListed /\ txPart' = Asking /\ UNCHANGED <<blocks, indexed>>
    BY <1>5 DEF Join, chain
  <2> QED
    BY <1>1, <1>2, <2>1, NewestKnown DEF KnownInv, Asking, Answer
<1>6. CASE UNCHANGED <<mvars, counter>>
  BY <1>3, <1>6 DEF mvars
<1>7. CASE Fetch
  BY <1>3, <1>4, <1>5, <1>7
     DEF Fetch, FetchConfigBlock, CompareConfigBlock, FetchConfigFromLogs
<1> QED
  BY <1>3, <1>6, <1>7 DEF MonitoringNext, Grow, IndexBlock, source

\* An envelope holds no older round than the FCD had when its Fetch began:
\* for every chain, every lag of the FCD, every limit of its lists, and in
\* whatever order the parts of the Fetch end (envelopeSource.Fetch,
\* fetchLatestTransmission).
THEOREM ReportsNewRounds == MonitoringSpec => RoundsKeepUp
<1>1. MonitoringInit => RoundsInv
  BY RoundsInit DEF MonitoringInit
<1>2. RoundsInv /\ [MonitoringNext]_<<mvars, counter>>
        => [envelope' # envelope => envelope'.answer >= known]_mvars
  <2> SUFFICES ASSUME RoundsInv, [MonitoringNext]_<<mvars, counter>>, envelope' # envelope
               PROVE  envelope'.answer >= known
    BY DEF mvars
  <2>1. Join
    BY DEF MonitoringNext, Grow, IndexBlock, source, Fetch, FetchTransmission, FetchConfigBlock,
           CompareConfigBlock, FetchConfigFromLogs, mvars
  <2> QED
    BY <2>1 DEF Join, RoundsInv, KnownInv
<1> QED
  BY <1>1, <1>2, RoundsStep, PTL DEF MonitoringSpec, RoundsKeepUp
=============================================================================
