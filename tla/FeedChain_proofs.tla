-------------------------- MODULE FeedChain_proofs --------------------------
(***************************************************************************)
(* Lemmas about the chain and its feed, for the proofs about those who     *)
(* read it: what a block does to the feed's state, and that committed      *)
(* blocks stay.                                                            *)
(***************************************************************************)
EXTENDS FeedChain, FiniteFolds, SequenceTheorems

\* A nonempty set of numbers up to n has a greatest.
LEMMA GreatestNumber ==
  ASSUME NEW n \in Nat, NEW T \in SUBSET (0 .. n), T # {}
  PROVE  /\ Max(T) \in T
         /\ \A k \in T : k <= Max(T)
<1> DEFINE D == {n - k : k \in T}
<1>1. D \in SUBSET Nat /\ D # {}
  <2>1. \A k \in T : n - k \in Nat
    OBVIOUS
  <2> QED
    BY <2>1
<1>2. PICK d \in D : \A e \in D : d <= e
  BY <1>1, LeastNumber
<1>3. PICK m \in T : d = n - m
  BY <1>2
<1>4. \A k \in T : m >= k
  <2> SUFFICES ASSUME NEW k \in T PROVE m >= k
    OBVIOUS
  <2>1. n - k \in D /\ k \in 0 .. n /\ m \in 0 .. n
    OBVIOUS
  <2> HIDE DEF D
  <2> QED
    BY <1>2, <1>3, <2>1
<1>5. Max(T) \in T /\ \A k \in T : Max(T) >= k
  BY <1>3, <1>4 DEF Max
<1> QED
  BY <1>5
-----------------------------------------------------------------------------
(* What a block does to the feed *)

States == [digest : Nat, block : Nat, epoch : Nat, round : Nat, answer : Nat]

\* t is s or what became of it at a height: configurations and answers only
\* grow in number, and epochs grow within a configuration.
After(s, t, height) ==
  /\ t \in States
  /\ t.block = s.block \/ t.block = height
  /\ s.digest <= t.digest /\ s.answer <= t.answer
  /\ t.digest = s.digest => s.epoch <= t.epoch /\ t.block = s.block

LEMMA ExecuteAfter ==
  ASSUME NEW s \in States, NEW u, NEW height \in Nat, NEW m, After(s, u, height)
  PROVE  After(s, Execute(u, m, height), height) /\ Execute(u, m, height) \in States
<1> DEFINE v == Execute(u, m, height)
<1>0. u \in States
  BY DEF After
<1>1. CASE m = "config"
  <2>1. v = [u EXCEPT !.digest = @ + 1, !.block = height, !.epoch = 0, !.round = 0]
    BY <1>1 DEF Execute
  <2>2. /\ v \in States
        /\ v.digest = u.digest + 1 /\ v.block = height /\ v.answer = u.answer
    <3>1. u.digest + 1 \in Nat /\ u.answer \in Nat
      BY <1>0 DEF States
    <3>2. v = [digest |-> u.digest + 1, block |-> height, epoch |-> 0,
               round |-> 0, answer |-> u.answer]
      <4> HIDE DEF v
      <4> QED
        BY <1>0, <2>1 DEF States
    <3> HIDE DEF v
    <3> QED
      BY <3>1, <3>2 DEF States
  <2>3. After(s, v, height)
    <3> HIDE DEF v
    <3> QED
      BY <1>0, <2>2 DEF After, States
  <2> QED
    BY <2>2, <2>3
<1>2. CASE m = "transmit"
  <2>1. v = [u EXCEPT !.epoch = @ + 1, !.round = 1, !.answer = @ + 1]
    BY <1>2 DEF Execute
  <2>2. /\ v \in States
        /\ v.digest = u.digest /\ v.block = u.block
        /\ v.answer = u.answer + 1 /\ v.epoch = u.epoch + 1
    <3>1. /\ u.digest \in Nat /\ u.block \in Nat
          /\ u.epoch + 1 \in Nat /\ u.answer + 1 \in Nat
      BY <1>0 DEF States
    <3>2. v = [digest |-> u.digest, block |-> u.block, epoch |-> u.epoch + 1,
               round |-> 1, answer |-> u.answer + 1]
      <4> HIDE DEF v
      <4> QED
        BY <1>0, <2>1 DEF States
    <3> HIDE DEF v
    <3> QED
      BY <3>1, <3>2 DEF States
  <2>3. After(s, v, height)
    <3> HIDE DEF v
    <3> QED
      BY <1>0, <2>2 DEF After, States
  <2> QED
    BY <2>2, <2>3
<1>3. CASE m # "config" /\ m # "transmit"
  BY <1>3 DEF After, Execute, States
<1> QED
  BY <1>1, <1>2, <1>3

\* The fold of ExecuteAll, as a function of sets of positions.
Executed(it, state, messages, height) ==
  it = [s \in SUBSET (DOMAIN messages) |->
          IF s = {} THEN state
          ELSE LET x == Max(s) IN Execute(it[s \ {x}], messages[x], height)]

LEMMA ExecuteAllFolds ==
  ASSUME NEW state \in States, NEW S, NEW messages \in Seq(S), NEW height \in Nat
  PROVE  \E it : /\ Executed(it, state, messages, height)
                 /\ ExecuteAll(state, messages, height) = it[DOMAIN messages]
<1> DEFINE n == Len(messages)
           D == 1 .. n
           step == [p \in D \X States |-> Execute(p[2], messages[p[1]], height)]
           pick == [s \in SUBSET D |-> Max(s)]
<1>1. n \in Nat /\ DOMAIN messages = D /\ IsFiniteSet(D)
  BY FS_Interval
<1>2. \A s \in SUBSET D : s # {} => pick[s] \in s /\ pick[s] = Max(s)
  <2> SUFFICES ASSUME NEW s \in SUBSET D, s # {} PROVE Max(s) \in s
    OBVIOUS
  <2>1. s \in SUBSET (0 .. n)
    BY <1>1
  <2> QED
    BY <1>1, <2>1, GreatestNumber
<1>3. \A x \in D, v \in States : step[<<x, v>>] = Execute(v, messages[x], height)
  OBVIOUS
<1>4. \A x \in D, v \in States : step[<<x, v>>] \in States
  <2> SUFFICES ASSUME NEW x \in D, NEW v \in States PROVE Execute(v, messages[x], height) \in States
    BY <1>3
  <2>1. After(v, v, height)
    BY DEF After, States
  <2> QED
    BY <2>1, ExecuteAfter
<1>5. \E g \in [SUBSET D -> States] : Folded(g, D, state, step, pick)
  <2> HIDE DEF D, step, pick
  <2> QED
    BY <1>1, <1>2, <1>4, FoldExists, Zenon
<1>6. PICK g \in [SUBSET D -> States] : Folded(g, D, state, step, pick)
  BY <1>5
<1>7. Executed(g, state, messages, height)
  <2> DEFINE G(s) == IF s = {} THEN state
                     ELSE LET x == Max(s) IN Execute(g[s \ {x}], messages[x], height)
  <2>1. ASSUME NEW s \in SUBSET D PROVE g[s] = G(s)
    <3>1. g[s] = IF s = {} THEN state ELSE step[<<pick[s], g[s \ {pick[s]}]>>]
      <4> HIDE DEF D, step, pick
      <4> QED
        BY <1>6 DEF Folded
    <3>2. CASE s = {}
      BY <3>1, <3>2
    <3>3. CASE s # {}
      <4>1. pick[s] \in D /\ pick[s] = Max(s) /\ g[s \ {pick[s]}] \in States
        <5>1. pick[s] \in s /\ pick[s] = Max(s)
          BY <1>2, <3>3
        <5>2. s \ {pick[s]} \in SUBSET D
          OBVIOUS
        <5> HIDE DEF pick, D
        <5> QED
          BY <5>1, <5>2
      <4>2. g[s] = Execute(g[s \ {pick[s]}], messages[pick[s]], height)
        <5> HIDE DEF step, pick, D
        <5> QED
          BY <1>3, <3>1, <3>3, <4>1
      <4> HIDE DEF step, pick
      <4> QED
        BY <3>3, <4>1, <4>2
    <3> QED
      BY <3>2, <3>3
  <2>2. g = [s \in SUBSET D |-> g[s]]
    OBVIOUS
  <2> QED
    BY <1>1, <2>1, <2>2 DEF Executed
<1> DEFINE it == CHOOSE it : Executed(it, state, messages, height)
<1>8. Executed(it, state, messages, height)
  BY <1>7
<1>9. ExecuteAll(state, messages, height) = it[DOMAIN messages]
  BY DEF ExecuteAll, FoldLeft, MapThenFoldSet, Executed
<1> QED
  BY <1>8, <1>9

LEMMA ExecuteAllAfter ==
  ASSUME NEW state \in States, NEW S, NEW messages \in Seq(S), NEW height \in Nat
  PROVE  After(state, ExecuteAll(state, messages, height), height)
<1> DEFINE D == DOMAIN messages
<1>1. PICK it : /\ Executed(it, state, messages, height)
                /\ ExecuteAll(state, messages, height) = it[D]
  BY ExecuteAllFolds
<1>2. D = 1 .. Len(messages) /\ Len(messages) \in Nat /\ IsFiniteSet(D)
  BY FS_Interval
<1> DEFINE T == {t \in SUBSET D : ~After(state, it[t], height)}
<1>3. SUFFICES ASSUME T # {} PROVE FALSE
  BY <1>1
<1>4. T \in SUBSET (SUBSET D)
  OBVIOUS
<1>5. PICK t \in T : \A u \in T : u \subseteq t => u = t
  <2> HIDE DEF T
  <2> QED
    BY <1>2, <1>3, <1>4, MinimalSubset
<1>6. it[t] = IF t = {} THEN state
              ELSE LET x == Max(t) IN Execute(it[t \ {x}], messages[x], height)
  BY <1>1, <1>5 DEF Executed
<1>7. After(state, state, height)
  BY DEF After, States
<1>8. CASE t = {}
  BY <1>5, <1>6, <1>7, <1>8
<1>9. CASE t # {}
  <2>1. Max(t) \in t
    <3>1. t \in SUBSET (0 .. Len(messages))
      BY <1>2, <1>5
    <3> QED
      BY <1>2, <1>9, <3>1, GreatestNumber
  <2>2. t \ {Max(t)} \notin T
    BY <1>5, <2>1
  <2>3. After(state, it[t \ {Max(t)}], height)
    BY <1>5, <2>2
  <2>4. it[t] = Execute(it[t \ {Max(t)}], messages[Max(t)], height)
    BY <1>6, <1>9
  <2> QED
    BY <1>5, <2>3, <2>4, ExecuteAfter
<1> QED
  BY <1>8, <1>9
-----------------------------------------------------------------------------
(* Messages of a block in a row *)

\* The recursion of FlattenSeq.
Flattened(f, seqs, n) ==
  f = [i \in 1 .. n |-> IF i = 1 THEN seqs[i] ELSE f[i - 1] \o seqs[i]]

LEMMA FlattenExists ==
  ASSUME NEW S, NEW seqs \in Seq(Seq(S)), NEW n \in 0 .. Len(seqs)
  PROVE  \E f \in [1 .. n -> Seq(S)] : Flattened(f, seqs, n)
<1> DEFINE Sol(k) == {f \in [1 .. k -> Seq(S)] : Flattened(f, seqs, k)}
           T == {k \in 0 .. Len(seqs) : Sol(k) = {}}
<1>1. SUFFICES ASSUME T # {} PROVE FALSE
  <2>1. n \notin T
    BY <1>1
  <2> QED
    BY <2>1
<1>2. PICK k \in T : \A j \in T : k <= j
  <2>1. T \in SUBSET Nat
    OBVIOUS
  <2> HIDE DEF T
  <2> QED
    BY <1>1, <2>1, LeastNumber
<1>3. k # 0
  <2>1. [i \in {} |-> <<>>] \in Sol(0)
    BY DEF Flattened
  <2> QED
    BY <1>2, <2>1
<1>4. k - 1 \in 0 .. Len(seqs) /\ k - 1 \notin T
  <2>1. k \in 0 .. Len(seqs) /\ Len(seqs) \in Nat
    BY <1>2
  <2>2. k - 1 \in 0 .. Len(seqs) /\ ~(k <= k - 1)
    BY <1>3, <2>1
  <2> HIDE DEF T
  <2> QED
    BY <1>2, <2>2
<1>5. PICK g \in [1 .. k - 1 -> Seq(S)] : Flattened(g, seqs, k - 1)
  BY <1>4
<1> DEFINE last == IF k = 1 THEN seqs[k] ELSE g[k - 1] \o seqs[k]
           h == [i \in 1 .. k |-> IF i = k THEN last ELSE g[i]]
<1>6. k \in 1 .. Len(seqs) /\ seqs[k] \in Seq(S)
  BY <1>2, <1>3
<1>7. last \in Seq(S)
  <2>1. CASE k = 1
    BY <1>6, <2>1
  <2>2. CASE k # 1
    <3>1. g[k - 1] \in Seq(S)
      BY <1>5, <1>6, <2>2
    <3> QED
      BY <1>6, <2>2, <3>1
  <2> QED
    BY <2>1, <2>2
<1>8. \A i \in 1 .. k - 1 : h[i] = g[i] /\ i \in 1 .. k /\ i # k
  <2>1. \A i \in 1 .. k - 1 : i \in 1 .. k /\ i # k
    BY <1>6
  <2> HIDE DEF last
  <2> QED
    BY <2>1
<1>9. h[k] = last
  BY <1>6
<1>10. h \in [1 .. k -> Seq(S)]
  <2> HIDE DEF last
  <2> QED
    BY <1>5, <1>7, <1>6
<1>11. \A i \in 1 .. k : h[i] = IF i = 1 THEN seqs[i] ELSE h[i - 1] \o seqs[i]
  <2> SUFFICES ASSUME NEW i \in 1 .. k
               PROVE  h[i] = IF i = 1 THEN seqs[i] ELSE h[i - 1] \o seqs[i]
    OBVIOUS
  <2>1. CASE i = k
    <3>1. k # 1 => h[k - 1] = g[k - 1]
      <4> HIDE DEF h
      <4> QED
        BY <1>6, <1>8
    <3> QED
      BY <1>9, <2>1, <3>1
  <2>2. CASE i # k
    <3>1. i \in 1 .. k - 1 /\ (i # 1 => i - 1 \in 1 .. k - 1)
      BY <1>6, <2>2
    <3>2. g[i] = IF i = 1 THEN seqs[i] ELSE g[i - 1] \o seqs[i]
      BY <1>5, <3>1 DEF Flattened
    <3> HIDE DEF h
    <3> QED
      BY <1>8, <3>1, <3>2
  <2> QED
    BY <2>1, <2>2
<1>12. h = [i \in 1 .. k |-> h[i]]
  OBVIOUS
<1>13. Flattened(h, seqs, k)
  <2> HIDE DEF h
  <2> QED
    BY <1>11, <1>12 DEF Flattened
<1> QED
  BY <1>2, <1>10, <1>13

LEMMA FlattenType ==
  ASSUME NEW S, NEW seqs \in Seq(Seq(S))
  PROVE  FlattenSeq(seqs) \in Seq(S)
<1> DEFINE n == Len(seqs)
<1>1. CASE n = 0
  BY <1>1 DEF FlattenSeq
<1>2. CASE n # 0
  <2> DEFINE f == CHOOSE f : Flattened(f, seqs, n)
  <2>1. n \in Nat /\ n \in 0 .. n
    OBVIOUS
  <2>2. Flattened(f, seqs, n)
    BY <2>1, FlattenExists
  <2>3. FlattenSeq(seqs) = f[n]
    BY <1>2 DEF FlattenSeq, Flattened
  <2> HIDE DEF f
  <2> DEFINE T == {i \in 1 .. n : f[i] \notin Seq(S)}
  <2>4. ASSUME T # {} PROVE FALSE
    <3>1. PICK i \in T : \A j \in T : i <= j
      <4>1. T \in SUBSET Nat
        OBVIOUS
      <4> HIDE DEF T
      <4> QED
        BY <2>4, <4>1, LeastNumber
    <3>2. f[i] = IF i = 1 THEN seqs[i] ELSE f[i - 1] \o seqs[i]
      BY <2>2, <3>1 DEF Flattened
    <3>3. seqs[i] \in Seq(S)
      BY <3>1
    <3>4. i # 1 => f[i - 1] \in Seq(S)
      BY <2>1, <3>1
    <3>5. f[i] \in Seq(S)
      <4>1. CASE i = 1
        BY <3>2, <3>3, <4>1
      <4>2. CASE i # 1
        BY <3>2, <3>3, <3>4, <4>2
      <4> QED
        BY <4>1, <4>2
    <3> QED
      BY <3>1, <3>5
  <2>5. n \in 1 .. n
    BY <1>2
  <2> QED
    BY <2>3, <2>4, <2>5
<1> QED
  BY <1>1, <1>2
-----------------------------------------------------------------------------
(* The chain *)

Events == [kind : Messages, state : States]

ChainInv ==
  /\ blocks \in Seq(Seq(Seq(Events)))
  /\ Height \in 1 .. MaxHeight
  /\ feed \in States /\ feed.block \in 0 .. Height

LEMMA RecordType ==
  ASSUME NEW state \in States, NEW block \in Seq(Seq(Messages)), NEW height \in Nat
  PROVE  Record(state, block, height) \in Seq(Seq(Events))
<1> DEFINE event(i, m) ==
             [kind |-> block[i][m],
              state |-> IF block[i][m] = "otherConfig" THEN [Unconfigured EXCEPT !.digest = Foreign]
                        ELSE ExecuteAll(state, UpTo(block, i, m), height)]
<1>1. ASSUME NEW i \in DOMAIN block, NEW m \in DOMAIN block[i] PROVE event(i, m) \in Events
  <2>1. block[i] \in Seq(Messages) /\ i \in 1 .. Len(block)
    OBVIOUS
  <2>2. block[i][m] \in Messages /\ SubSeq(block[i], 1, m) \in Seq(Messages)
    BY <2>1
  <2>3. SubSeq(block, 1, i - 1) \in Seq(Seq(Messages))
    BY <2>1
  <2>4. FlattenSeq(SubSeq(block, 1, i - 1)) \in Seq(Messages)
    BY <2>3, FlattenType
  <2>5. UpTo(block, i, m) \in Seq(Messages)
    BY <2>2, <2>4 DEF UpTo
  <2>6. ExecuteAll(state, UpTo(block, i, m), height) \in States
    BY <2>5, ExecuteAllAfter DEF After
  <2>7. [Unconfigured EXCEPT !.digest = Foreign] \in States
    BY DEF Unconfigured, Foreign, States
  <2> QED
    BY <2>2, <2>6, <2>7 DEF Events
<1> DEFINE tx(i) == [m \in DOMAIN block[i] |-> event(i, m)]
<1>2. ASSUME NEW i \in DOMAIN block PROVE tx(i) \in Seq(Events)
  <2>1. block[i] \in Seq(Messages)
    OBVIOUS
  <2>2. DOMAIN block[i] = 1 .. Len(block[i]) /\ Len(block[i]) \in Nat
    BY <2>1
  <2>3. \A m \in DOMAIN block[i] : event(i, m) \in Events
    BY <1>1
  <2> HIDE DEF event
  <2> QED
    BY <2>2, <2>3
<1>3. Record(state, block, height) = [i \in DOMAIN block |-> tx(i)]
  BY DEF Record
<1>4. DOMAIN block = 1 .. Len(block) /\ Len(block) \in Nat
  OBVIOUS
<1> HIDE DEF tx
<1> QED
  BY <1>2, <1>3, <1>4

LEMMA ChainStarts == ChainInit => ChainInv
<1> SUFFICES ASSUME ChainInit PROVE ChainInv
  OBVIOUS
<1>1. PICK block \in Starts : /\ blocks = <<Record(Unconfigured, block, 1)>>
                              /\ feed = ExecuteAll(Unconfigured, FlattenSeq(block), 1)
  BY DEF ChainInit
<1>2. block \in Seq(Seq(Messages)) /\ MaxHeight \in Nat \ {0}
  BY ChainAssumption
<1>3. Unconfigured \in States /\ Unconfigured.block = 0
  BY DEF Unconfigured, States
<1>4. Record(Unconfigured, block, 1) \in Seq(Seq(Events))
  BY <1>2, <1>3, RecordType
<1>5. FlattenSeq(block) \in Seq(Messages)
  BY <1>2, FlattenType
<1>6. After(Unconfigured, feed, 1)
  BY <1>1, <1>3, <1>5, ExecuteAllAfter
<1>7. blocks \in Seq(Seq(Seq(Events))) /\ Len(blocks) = 1
  BY <1>1, <1>4
<1> QED
  BY <1>2, <1>3, <1>6, <1>7 DEF ChainInv, After, Height

LEMMA ChainGrows ==
  ASSUME ChainInv, NEW block \in Blocks, Commit(block)
  PROVE  /\ ChainInv'
         /\ Height' = Height + 1
         /\ After(feed, feed', Height + 1)
         /\ \A h \in 1 .. Height : blocks'[h] = blocks[h]
<1>1. block \in Seq(Seq(Messages)) /\ MaxHeight \in Nat \ {0}
  BY ChainAssumption
<1>2. /\ Height < MaxHeight
      /\ blocks' = Append(blocks, Record(feed, block, Height + 1))
      /\ feed' = ExecuteAll(feed, FlattenSeq(block), Height + 1)
  BY DEF Commit
<1>3. Height \in Nat /\ Height + 1 \in Nat /\ Height = Len(blocks)
  BY DEF ChainInv, Height
<1>4. Record(feed, block, Height + 1) \in Seq(Seq(Events))
  BY <1>1, <1>3, RecordType DEF ChainInv
<1>5. FlattenSeq(block) \in Seq(Messages)
  BY <1>1, FlattenType
<1>6. After(feed, feed', Height + 1)
  BY <1>2, <1>3, <1>5, ExecuteAllAfter DEF ChainInv
<1> DEFINE record == Record(feed, block, Height + 1)
<1> HIDE DEF record
<1>7. blocks' = Append(blocks, record) /\ record \in Seq(Seq(Events))
  BY <1>2, <1>4 DEF record
<1>8. blocks' \in Seq(Seq(Seq(Events))) /\ Len(blocks') = Len(blocks) + 1
  BY <1>7 DEF ChainInv
<1>9. \A h \in 1 .. Height : blocks'[h] = blocks[h]
  BY <1>3, <1>7 DEF ChainInv
<1>10. Height' = Height + 1
  BY <1>3, <1>8 DEF Height
<1>11. ChainInv'
  BY <1>1, <1>2, <1>3, <1>6, <1>8, <1>10 DEF ChainInv, After
<1> QED
  BY <1>6, <1>9, <1>10, <1>11
-----------------------------------------------------------------------------
(* The last configuration of a block *)

\* FlattenSeq of the first sequences is a step of the recursion.
LEMMA FlattenPrefix ==
  ASSUME NEW S, NEW seqs \in Seq(Seq(S)), NEW f \in [1 .. Len(seqs) -> Seq(S)],
         Flattened(f, seqs, Len(seqs)), NEW n \in 1 .. Len(seqs)
  PROVE  FlattenSeq(SubSeq(seqs, 1, n)) = f[n]
<1> DEFINE init == SubSeq(seqs, 1, n)
           g == CHOOSE g : Flattened(g, init, n)
<1>1. init \in Seq(Seq(S)) /\ Len(init) = n /\ n \in Nat /\ \A i \in 1 .. n : init[i] = seqs[i]
  OBVIOUS
<1> HIDE DEF init
<1>2. Flattened(g, init, n)
  <2>1. n \in 0 .. Len(init)
    BY <1>1
  <2> QED
    BY <1>1, <2>1, FlattenExists
<1>3. FlattenSeq(init) = g[n]
  <2>1. Len(init) # 0
    BY <1>1
  <2> QED
    BY <1>1, <2>1 DEF FlattenSeq, Flattened
<1> HIDE DEF g
<1> DEFINE T == {i \in 1 .. n : g[i] # f[i]}
<1>4. ASSUME T # {} PROVE FALSE
  <2>1. PICK i \in T : \A j \in T : i <= j
    <3>1. T \in SUBSET Nat
      OBVIOUS
    <3> HIDE DEF T
    <3> QED
      BY <1>4, <3>1, LeastNumber
  <2>2. /\ g[i] = IF i = 1 THEN init[i] ELSE g[i - 1] \o init[i]
        /\ f[i] = IF i = 1 THEN seqs[i] ELSE f[i - 1] \o seqs[i]
    <3>1. i \in 1 .. n /\ i \in 1 .. Len(seqs)
      BY <1>1
    <3> QED
      BY <1>2, <3>1 DEF Flattened
  <2>3. i # 1 => g[i - 1] = f[i - 1]
    BY <1>1, <2>1
  <2> QED
    BY <1>1, <2>2, <2>3
<1>5. n \in 1 .. n
  BY <1>1
<1> QED
  BY <1>3, <1>4, <1>5 DEF init

LEMMA Associative ==
  \A S : \A s \in Seq(S), t \in Seq(S), u \in Seq(S) : (s \o t) \o u = s \o (t \o u)
BY ConcatAssociative

LEMMA BackType ==
  ASSUME NEW S, NEW seq \in Seq(S), NEW Rest, NEW m \in Nat,
         \A k \in m + 1 .. Len(seq) : seq[k] \in Rest, m <= Len(seq)
  PROVE  SubSeq(seq, m + 1, Len(seq)) \in Seq(Rest)
<1>1. PICK l \in Nat : l = Len(seq) - m
  OBVIOUS
<1>2. \A k \in 1 .. l : m + k \in m + 1 .. Len(seq)
  BY <1>1
<1>3. SubSeq(seq, m + 1, Len(seq)) = [k \in 1 .. l |-> seq[m + k]]
  BY <1>1
<1>4. \A k \in 1 .. l : seq[m + k] \in Rest
  BY <1>2
<1> QED
  BY <1>3, <1>4

\* A block's messages are those up to one of them, and the rest.
LEMMA FlattenSplits ==
  ASSUME NEW S, NEW Rest \in SUBSET S
  PROVE  \A seqs \in Seq(Seq(S)) : \A i \in DOMAIN seqs : \A m \in DOMAIN seqs[i] :
           /\ \A k \in DOMAIN seqs[i] : k > m => seqs[i][k] \in Rest
           /\ \A j \in DOMAIN seqs : j > i => seqs[j] \in Seq(Rest)
           => \E rest \in Seq(Rest) : FlattenSeq(seqs) = UpTo(seqs, i, m) \o rest
<1>0. \A s, t, u \in Seq(S) : (s \o t) \o u = s \o (t \o u)
  BY Associative
<1> SUFFICES ASSUME NEW seqs \in Seq(Seq(S)), NEW i \in DOMAIN seqs, NEW m \in DOMAIN seqs[i],
                    \A k \in DOMAIN seqs[i] : k > m => seqs[i][k] \in Rest,
                    \A j \in DOMAIN seqs : j > i => seqs[j] \in Seq(Rest)
             PROVE  \E rest \in Seq(Rest) : FlattenSeq(seqs) = UpTo(seqs, i, m) \o rest
  OBVIOUS
<1> DEFINE n == Len(seqs)
<1>1. /\ n \in Nat /\ i \in 1 .. n /\ seqs[i] \in Seq(S)
      /\ m \in 1 .. Len(seqs[i]) /\ Len(seqs[i]) \in Nat
  OBVIOUS
<1>2. PICK f \in [1 .. n -> Seq(S)] : Flattened(f, seqs, n)
  <2>1. n \in 0 .. Len(seqs)
    BY <1>1
  <2> QED
    BY <2>1, FlattenExists
<1>3. \A j \in 1 .. n : FlattenSeq(SubSeq(seqs, 1, j)) = f[j]
  BY <1>2, FlattenPrefix
<1>4. FlattenSeq(seqs) = f[n]
  <2>1. n \in 1 .. n /\ SubSeq(seqs, 1, n) = seqs
    BY <1>1
  <2> QED
    BY <1>3, <2>1
<1> DEFINE start == FlattenSeq(SubSeq(seqs, 1, i - 1))
           front == SubSeq(seqs[i], 1, m)
           back == SubSeq(seqs[i], m + 1, Len(seqs[i]))
           upto == UpTo(seqs, i, m)
<1>5. start \in Seq(S) /\ f[i] = start \o seqs[i]
  <2>1. CASE i = 1
    <3>1. SubSeq(seqs, 1, i - 1) = <<>>
      BY <2>1
    <3>2. start = <<>>
      BY <3>1 DEF FlattenSeq
    <3>3. f[i] = seqs[i]
      BY <1>1, <1>2, <2>1 DEF Flattened
    <3>4. <<>> \o seqs[i] = seqs[i]
      BY <1>1, ConcatEmptySeq
    <3> HIDE DEF start
    <3> QED
      BY <3>2, <3>3, <3>4
  <2>2. CASE i # 1
    <3>1. i - 1 \in 1 .. n
      BY <1>1, <2>2
    <3>2. start = f[i - 1]
      BY <1>3, <3>1
    <3> HIDE DEF start
    <3> QED
      BY <1>1, <1>2, <2>2, <3>1, <3>2 DEF Flattened
  <2> QED
    BY <2>1, <2>2
<1>6. /\ front \in Seq(S) /\ back \in Seq(Rest) /\ back \in Seq(S)
      /\ seqs[i] = front \o back
  <2> DEFINE tx == seqs[i]
             len == Len(tx)
  <2>1. tx \in Seq(S) /\ len \in Nat /\ m \in 1 .. len /\ \A k \in m + 1 .. len : tx[k] \in Rest
    BY <1>1
  <2> HIDE DEF tx
  <2>2. SubSeq(tx, 1, m) \o SubSeq(tx, m + 1, len) = SubSeq(tx, 1, len)
    <3>1. 1 \in 1 .. Len(tx) + 1 /\ m \in 1 - 1 .. Len(tx) /\ len \in m .. Len(tx)
      BY <2>1
    <3> QED
      BY <2>1, <3>1, ConcatAdjacentSubSeq
  <2>3. SubSeq(tx, 1, len) = tx /\ SubSeq(tx, 1, m) \in Seq(S) /\ SubSeq(tx, m + 1, len) \in Seq(S)
    BY <2>1
  <2>4. SubSeq(tx, m + 1, len) \in Seq(Rest)
    <3>1. len = Len(tx)
      OBVIOUS
    <3> HIDE DEF len
    <3> QED
      BY <2>1, <3>1, BackType
  <2> QED
    BY <2>2, <2>3, <2>4 DEF tx
<1>7. upto \in Seq(S) /\ upto = start \o front
  BY <1>5, <1>6 DEF UpTo
<1> HIDE DEF start, front, back, upto
<1> DEFINE Split(j) == \E rest \in Seq(Rest) : f[j] = upto \o rest
           T == {j \in i .. n : ~Split(j)}
<1>8. ASSUME T # {} PROVE FALSE
  <2>1. PICK j \in T : \A k \in T : j <= k
    <3>1. T \in SUBSET Nat
      BY <1>1
    <3> HIDE DEF T
    <3> QED
      BY <1>8, <3>1, LeastNumber
  <2>2. CASE j = i
    <3>1. (start \o front) \o back = start \o (front \o back)
      BY <1>0, <1>5, <1>6
    <3>2. f[i] = upto \o back
      BY <1>5, <1>6, <1>7, <3>1
    <3> QED
      BY <1>6, <2>1, <2>2, <3>2
  <2>3. CASE j # i
    <3>1. j \in i .. n
      BY <2>1
    <3>2. j - 1 \in i .. n /\ j \in 1 .. n /\ j # 1 /\ j > i /\ ~(j <= j - 1)
      <4> HIDE DEF n
      <4> QED
        BY <1>1, <3>1, <2>3
    <3>3. Split(j - 1)
      BY <2>1, <3>2
    <3>4. PICK rest \in Seq(Rest) : f[j - 1] = upto \o rest
      BY <3>3
    <3>5. seqs[j] \in Seq(Rest) /\ seqs[j] \in Seq(S)
      BY <3>2
    <3>6. f[j] = f[j - 1] \o seqs[j]
      BY <1>2, <3>2 DEF Flattened
    <3>7. rest \in Seq(S) /\ rest \o seqs[j] \in Seq(Rest)
      BY <3>4, <3>5
    <3>8. (upto \o rest) \o seqs[j] = upto \o (rest \o seqs[j])
      BY <1>0, <1>7, <3>5, <3>7
    <3> QED
      BY <2>1, <3>4, <3>6, <3>7, <3>8
  <2> QED
    BY <2>2, <2>3
<1>9. n \in i .. n
  BY <1>1
<1>10. Split(n)
  BY <1>8, <1>9
<1> QED
  BY <1>4, <1>10 DEF upto

\* The fold of ExecuteAll message by message.
LEMMA ExecutedSteps ==
  ASSUME NEW state \in States, NEW messages \in Seq(Messages), NEW height \in Nat,
         NEW it, Executed(it, state, messages, height)
  PROVE  /\ it[1 .. 0] = state
         /\ \A k \in 1 .. Len(messages) :
              it[1 .. k] = Execute(it[1 .. k - 1], messages[k], height)
         /\ \A k \in 0 .. Len(messages) : After(state, it[1 .. k], height)
<1> DEFINE n == Len(messages)
<1>1. n \in Nat /\ DOMAIN messages = 1 .. n
  OBVIOUS
<1>2. \A k \in 0 .. n : 1 .. k \in SUBSET (1 .. n)
  BY <1>1
<1>3. it[1 .. 0] = state
  <2>1. 1 .. 0 = {} /\ {} \in SUBSET (DOMAIN messages)
    OBVIOUS
  <2> QED
    BY <2>1 DEF Executed
<1>4. ASSUME NEW k \in 1 .. n
      PROVE  it[1 .. k] = Execute(it[1 .. k - 1], messages[k], height)
  <2>1. Max(1 .. k) = k
    <3>1. 1 .. k \in SUBSET (0 .. k) /\ 1 .. k # {} /\ k \in 1 .. k /\ k \in Nat
      BY <1>1
    <3>2. Max(1 .. k) \in 1 .. k /\ k <= Max(1 .. k)
      BY <3>1, GreatestNumber
    <3> QED
      BY <3>1, <3>2
  <2>2. (1 .. k) \ {k} = 1 .. k - 1 /\ 1 .. k # {}
    BY <1>1
  <2>3. 1 .. k \in SUBSET (DOMAIN messages)
    BY <1>1, <1>2
  <2>4. it[1 .. k] = Execute(it[(1 .. k) \ {Max(1 .. k)}], messages[Max(1 .. k)], height)
    BY <2>2, <2>3 DEF Executed
  <2> QED
    BY <2>1, <2>2, <2>4
<1> DEFINE T == {k \in 0 .. n : ~After(state, it[1 .. k], height)}
<1>5. ASSUME T # {} PROVE FALSE
  <2>1. PICK k \in T : \A j \in T : k <= j
    <3>1. T \in SUBSET Nat
      BY <1>1
    <3> HIDE DEF T
    <3> QED
      BY <1>5, <3>1, LeastNumber
  <2>2. k # 0
    BY <1>3, <2>1 DEF After, States
  <2>3. k \in 1 .. n /\ k - 1 \in 0 .. n /\ ~(k <= k - 1)
    <3>1. k \in 0 .. n
      BY <2>1
    <3> HIDE DEF n
    <3> QED
      BY <1>1, <2>2, <3>1
  <2>4. After(state, it[1 .. k - 1], height)
    BY <2>1, <2>3
  <2>5. it[1 .. k] = Execute(it[1 .. k - 1], messages[k], height)
    BY <1>4, <2>3
  <2> QED
    BY <2>1, <2>4, <2>5, ExecuteAfter
<1> QED
  BY <1>3, <1>4, <1>5

\* Only a configuration changes digest and block.
LEMMA ExecuteKeepsConfig ==
  ASSUME NEW u \in States, NEW m, NEW height \in Nat
  PROVE  /\ m # "config" => /\ Execute(u, m, height).digest = u.digest
                            /\ Execute(u, m, height).block = u.block
         /\ m = "config" => Execute(u, m, height).block = height
<1>1. CASE m = "config"
  <2>1. Execute(u, m, height) =
          [u EXCEPT !.digest = @ + 1, !.block = height, !.epoch = 0, !.round = 0]
    BY <1>1 DEF Execute
  <2> QED
    BY <1>1, <2>1 DEF States
<1>2. CASE m = "transmit"
  <2>1. Execute(u, m, height) = [u EXCEPT !.epoch = @ + 1, !.round = 1, !.answer = @ + 1]
    BY <1>2 DEF Execute
  <2> QED
    BY <1>2, <2>1 DEF States
<1>3. CASE m # "config" /\ m # "transmit"
  BY <1>3 DEF Execute
<1> QED
  BY <1>1, <1>2, <1>3

\* The messages of a block are executed one part after the other.
LEMMA ExecuteAllSplits ==
  ASSUME NEW state \in States, NEW a \in Seq(Messages), NEW b \in Seq(Messages),
         NEW height \in Nat
  PROVE  /\ ExecuteAll(state, a, height) \in States
         /\ ExecuteAll(state, a \o b, height) = ExecuteAll(ExecuteAll(state, a, height), b, height)
<1> DEFINE all == a \o b
           n == Len(a)
           N == Len(all)
           middle == ExecuteAll(state, a, height)
<1>1. /\ all \in Seq(Messages) /\ n \in Nat /\ Len(b) \in Nat /\ N = n + Len(b)
      /\ \A k \in 1 .. n : all[k] = a[k]
      /\ \A k \in n + 1 .. N : k - n \in 1 .. Len(b) /\ all[k] = b[k - n]
  OBVIOUS
<1> HIDE DEF all
<1>2. middle \in States
  BY ExecuteAllAfter DEF After
<1>3. PICK it : Executed(it, state, all, height) /\ ExecuteAll(state, all, height) = it[1 .. N]
  <2>1. DOMAIN all = 1 .. N
    BY <1>1
  <2> QED
    BY <1>1, <2>1, ExecuteAllFolds
<1>4. PICK up : Executed(up, state, a, height) /\ middle = up[1 .. n]
  BY ExecuteAllFolds
<1> HIDE DEF middle
<1>5. PICK on : Executed(on, middle, b, height) /\ ExecuteAll(middle, b, height) = on[1 .. Len(b)]
  BY <1>2, ExecuteAllFolds
<1>6. /\ it[1 .. 0] = state /\ up[1 .. 0] = state /\ on[1 .. 0] = middle
      /\ \A k \in 1 .. N : it[1 .. k] = Execute(it[1 .. k - 1], all[k], height)
      /\ \A k \in 1 .. n : up[1 .. k] = Execute(up[1 .. k - 1], a[k], height)
      /\ \A k \in 1 .. Len(b) : on[1 .. k] = Execute(on[1 .. k - 1], b[k], height)
  <2>1. /\ it[1 .. 0] = state
        /\ \A k \in 1 .. N : it[1 .. k] = Execute(it[1 .. k - 1], all[k], height)
    BY <1>1, <1>3, ExecutedSteps
  <2>2. /\ up[1 .. 0] = state
        /\ \A k \in 1 .. n : up[1 .. k] = Execute(up[1 .. k - 1], a[k], height)
    BY <1>4, ExecutedSteps
  <2>3. /\ on[1 .. 0] = middle
        /\ \A k \in 1 .. Len(b) : on[1 .. k] = Execute(on[1 .. k - 1], b[k], height)
    BY <1>2, <1>5, ExecutedSteps
  <2> QED
    BY <2>1, <2>2, <2>3
<1> DEFINE Like(k) == /\ k <= n => it[1 .. k] = up[1 .. k]
                      /\ n <= k => it[1 .. k] = on[1 .. k - n]
           T == {k \in 0 .. N : ~Like(k)}
<1>7. ASSUME T # {} PROVE FALSE
  <2>1. PICK k \in T : \A j \in T : k <= j
    <3>1. T \in SUBSET Nat
      BY <1>1
    <3> HIDE DEF T
    <3> QED
      BY <1>7, <3>1, LeastNumber
  <2>2. k \in 0 .. N /\ ~Like(k) /\ \A j \in 0 .. N : j < k => Like(j)
    <3>1. \A j \in 0 .. N : j < k => ~(k <= j)
      BY <1>1, <2>1
    <3> HIDE DEF Like
    <3> QED
      BY <2>1, <3>1
  <2> HIDE DEF T, N, n
  <2>3. CASE k = 0
    <3>1. n <= 0 => n = 0 /\ k - n = 0
      BY <1>1, <2>3
    <3> QED
      BY <1>4, <1>6, <2>2, <2>3, <3>1
  <2>4. CASE k # 0
    <3>1. k \in 1 .. N /\ k - 1 \in 0 .. N /\ k - 1 < k
      BY <1>1, <2>2, <2>4
    <3>2. Like(k - 1) /\ it[1 .. k] = Execute(it[1 .. k - 1], all[k], height)
      BY <1>6, <2>2, <3>1
    <3>3. CASE k <= n
      <4>1. k \in 1 .. n /\ k - 1 <= n
        BY <1>1, <3>1, <3>3
      <4>2. it[1 .. k] = up[1 .. k]
        BY <1>1, <1>6, <3>2, <4>1
      <4>3. n <= k => n = k /\ k - n = 0
        BY <1>1, <3>1, <3>3
      <4> QED
        BY <1>4, <1>6, <2>2, <4>2, <4>3
    <3>4. CASE ~(k <= n)
      <4>1. n <= k - 1 /\ k \in n + 1 .. N /\ (k - 1) - n = (k - n) - 1
        BY <1>1, <3>1, <3>4
      <4>2. k - n \in 1 .. Len(b) /\ all[k] = b[k - n]
        BY <1>1, <4>1
      <4>3. on[1 .. k - n] = Execute(on[1 .. (k - n) - 1], b[k - n], height)
        BY <1>6, <4>2
      <4> QED
        BY <2>2, <3>2, <3>4, <4>1, <4>2, <4>3
    <3> QED
      BY <3>3, <3>4
  <2> QED
    BY <2>3, <2>4
<1>8. N \in 0 .. N /\ n <= N /\ N - n = Len(b)
  BY <1>1
<1>9. Like(N)
  <2> HIDE DEF Like
  <2> QED
    BY <1>7, <1>8
<1> QED
  BY <1>2, <1>3, <1>5, <1>8, <1>9 DEF all, middle

\* Messages that configure nothing keep the configuration.
LEMMA ConfigKept ==
  ASSUME NEW state \in States, NEW b \in Seq(Messages \ {"config"}), NEW height \in Nat
  PROVE  /\ ExecuteAll(state, b, height).digest = state.digest
         /\ ExecuteAll(state, b, height).block = state.block
<1> DEFINE n == Len(b)
<1>1. n \in Nat /\ DOMAIN b = 1 .. n /\ b \in Seq(Messages) /\ \A k \in 1 .. n : b[k] # "config"
  OBVIOUS
<1>2. PICK it : Executed(it, state, b, height) /\ ExecuteAll(state, b, height) = it[1 .. n]
  BY <1>1, ExecuteAllFolds
<1>3. /\ it[1 .. 0] = state
      /\ \A k \in 1 .. n : it[1 .. k] = Execute(it[1 .. k - 1], b[k], height)
      /\ \A k \in 0 .. n : it[1 .. k] \in States
  BY <1>1, <1>2, ExecutedSteps DEF After
<1> HIDE DEF n
<1> DEFINE Kept(k) == it[1 .. k].digest = state.digest /\ it[1 .. k].block = state.block
           T == {k \in 0 .. n : ~Kept(k)}
<1>4. ASSUME T # {} PROVE FALSE
  <2>1. PICK k \in T : \A j \in T : k <= j
    <3>1. T \in SUBSET Nat
      BY <1>1
    <3> HIDE DEF T
    <3> QED
      BY <1>4, <3>1, LeastNumber
  <2>2. k # 0
    BY <1>3, <2>1
  <2>3. k \in 1 .. n /\ k - 1 \in 0 .. n /\ ~(k <= k - 1)
    <3>1. k \in 0 .. n
      BY <2>1
    <3> QED
      BY <1>1, <2>2, <3>1
  <2>4. Kept(k - 1)
    BY <2>1, <2>3
  <2>5. it[1 .. k] = Execute(it[1 .. k - 1], b[k], height) /\ it[1 .. k - 1] \in States
    BY <1>3, <2>3
  <2> QED
    BY <1>1, <2>1, <2>3, <2>4, <2>5, ExecuteKeepsConfig
<1>5. n \in 0 .. n
  BY <1>1
<1> QED
  BY <1>2, <1>4, <1>5

LEMMA RestKeepsConfig ==
  ASSUME NEW state \in States, NEW a \in Seq(Messages), NEW b \in Seq(Messages \ {"config"}),
         NEW height \in Nat
  PROVE  /\ ExecuteAll(state, a \o b, height).digest = ExecuteAll(state, a, height).digest
         /\ ExecuteAll(state, a \o b, height).block = ExecuteAll(state, a, height).block
<1> DEFINE middle == ExecuteAll(state, a, height)
<1>1. b \in Seq(Messages)
  OBVIOUS
<1>2. middle \in States /\ ExecuteAll(state, a \o b, height) = ExecuteAll(middle, b, height)
  BY <1>1, ExecuteAllSplits
<1> HIDE DEF middle
<1>3. /\ ExecuteAll(middle, b, height).digest = middle.digest
      /\ ExecuteAll(middle, b, height).block = middle.block
  BY <1>2, ConfigKept
<1> QED
  BY <1>2, <1>3 DEF middle

\* A configuration at the end is of this height.
LEMMA LastIsConfig ==
  ASSUME NEW state \in States, NEW a \in Seq(Messages), NEW height \in Nat,
         a # <<>>, a[Len(a)] = "config"
  PROVE  ExecuteAll(state, a, height).block = height
<1> DEFINE n == Len(a)
<1>1. n \in Nat /\ n \in 1 .. n /\ n - 1 \in 0 .. n /\ DOMAIN a = 1 .. n
  OBVIOUS
<1>2. PICK it : Executed(it, state, a, height) /\ ExecuteAll(state, a, height) = it[1 .. n]
  BY <1>1, ExecuteAllFolds
<1>3. it[1 .. n] = Execute(it[1 .. n - 1], a[n], height) /\ it[1 .. n - 1] \in States
  BY <1>1, <1>2, ExecutedSteps DEF After
<1> QED
  BY <1>2, <1>3, ExecuteKeepsConfig

\* A block leaves the feed with its last configuration, or the one it had.
LEMMA LastConfig ==
  ASSUME NEW state \in States, NEW block \in Seq(Seq(Messages)), NEW height \in Nat
  PROVE  LET after == ExecuteAll(state, FlattenSeq(block), height) IN
         \/ /\ \A i \in DOMAIN block : \A m \in DOMAIN block[i] : block[i][m] # "config"
            /\ after.block = state.block /\ after.digest = state.digest
         \/ \E i \in DOMAIN block : \E m \in DOMAIN block[i] :
              /\ block[i][m] = "config"
              /\ \A j \in DOMAIN block : \A k \in DOMAIN block[j] :
                   block[j][k] = "config" => j < i \/ (j = i /\ k <= m)
              /\ after.block = height
              /\ after.digest = ExecuteAll(state, UpTo(block, i, m), height).digest
<1> DEFINE after == ExecuteAll(state, FlattenSeq(block), height)
           Rest == Messages \ {"config"}
           Configured == {i \in DOMAIN block : \E m \in DOMAIN block[i] : block[i][m] = "config"}
<1>1. /\ Len(block) \in Nat /\ DOMAIN block = 1 .. Len(block)
      /\ \A i \in DOMAIN block : /\ block[i] \in Seq(Messages) /\ Len(block[i]) \in Nat
                                /\ DOMAIN block[i] = 1 .. Len(block[i])
  OBVIOUS
<1>2. CASE Configured = {}
  <2>1. \A i \in DOMAIN block : block[i] \in Seq(Rest)
    BY <1>1, <1>2
  <2>2. block \in Seq(Seq(Rest))
    <3> DEFINE Txs == Seq(Rest)
    <3>1. \A i \in DOMAIN block : block[i] \in Txs
      BY <2>1
    <3>2. block \in Seq(Txs)
      <4> HIDE DEF Txs
      <4> QED
        BY <1>1, <3>1
    <3> QED
      BY <3>2
  <2>3. FlattenSeq(block) \in Seq(Rest)
    BY <2>2, FlattenType
  <2> QED
    BY <1>2, <2>3, ConfigKept
<1>3. CASE Configured # {}
  <2>1. PICK i \in Configured : \A j \in Configured : j <= i
    <3>1. Configured \in SUBSET (0 .. Len(block))
      BY <1>1
    <3> HIDE DEF Configured
    <3> QED
      BY <1>1, <1>3, <3>1, GreatestNumber
  <2> DEFINE M == {m \in DOMAIN block[i] : block[i][m] = "config"}
  <2>2. PICK m \in M : \A k \in M : k <= m
    <3>1. M \in SUBSET (0 .. Len(block[i])) /\ M # {} /\ Len(block[i]) \in Nat
      BY <1>1
    <3> HIDE DEF M
    <3> QED
      BY <3>1, GreatestNumber
  <2>3. /\ i \in DOMAIN block /\ m \in DOMAIN block[i] /\ block[i][m] = "config"
        /\ i \in 1 .. Len(block) /\ m \in 1 .. Len(block[i])
    BY <1>1, <2>1, <2>2
  <2>4. \A k \in DOMAIN block[i] : k > m => block[i][k] \in Rest
    BY <1>1, <2>2, <2>3
  <2>5. \A j \in DOMAIN block : j > i => block[j] \in Seq(Rest)
    <3>1. \A j \in DOMAIN block : j > i => j \notin Configured
      BY SMTT(30), <1>1, <2>1, <2>3
    <3> SUFFICES ASSUME NEW j \in DOMAIN block, j > i PROVE block[j] \in Seq(Rest)
      OBVIOUS
    <3>2. \A k \in DOMAIN block[j] : block[j][k] \in Rest
      BY <1>1, <3>1
    <3> HIDE DEF Rest
    <3> QED
      BY <1>1, <3>2
  <2> DEFINE upto == UpTo(block, i, m)
             start == FlattenSeq(SubSeq(block, 1, i - 1))
             front == SubSeq(block[i], 1, m)
  <2>6. PICK rest \in Seq(Rest) : FlattenSeq(block) = upto \o rest
    <3>1. Rest \in SUBSET Messages
      OBVIOUS
    <3> QED
      BY ZenonT(60), <2>3, <2>4, <2>5, <3>1, FlattenSplits
  <2>7. upto \in Seq(Messages) /\ upto # <<>> /\ upto[Len(upto)] = "config"
    <3>1. SubSeq(block, 1, i - 1) \in Seq(Seq(Messages))
      BY <2>3
    <3>2. start \in Seq(Messages)
      BY <3>1, FlattenType
    <3>3. front \in Seq(Messages) /\ Len(front) = m /\ front[m] = "config" /\ m \in 1 .. m
      BY <1>1, <2>3
    <3>4. upto = start \o front
      BY DEF UpTo
    <3> HIDE DEF start, front, upto
    <3>5. Len(upto) = Len(start) + m /\ Len(start) \in Nat
      BY <3>2, <3>3, <3>4
    <3>6. upto[Len(start) + m] = front[m]
      BY <3>2, <3>3, <3>4, <3>5
    <3> QED
      BY <3>2, <3>3, <3>4, <3>5, <3>6
  <2>8. after.block = height /\ after.digest = ExecuteAll(state, upto, height).digest
    <3> HIDE DEF upto
    <3>1. ExecuteAll(state, upto, height).block = height
      BY <2>7, LastIsConfig
    <3> QED
      BY ZenonT(60), <2>6, <2>7, <3>1, RestKeepsConfig
  <2>9. ASSUME NEW j \in DOMAIN block, NEW k \in DOMAIN block[j], block[j][k] = "config"
        PROVE  j < i \/ (j = i /\ k <= m)
    <3>1. j <= i /\ i \in Nat /\ j \in Nat
      BY <1>1, <2>1, <2>3, <2>9
    <3>2. j = i => k <= m
      BY <2>2, <2>9
    <3> QED
      BY <3>1, <3>2
  <2> QED
    BY <2>3, <2>8, <2>9
<1> QED
  BY <1>2, <1>3
-----------------------------------------------------------------------------
(* Answers of a block *)

\* A transaction's messages come after those of the transactions before it.
LEMMA FlattenStep ==
  ASSUME NEW S, NEW seqs \in Seq(Seq(S)), NEW k \in 1 .. Len(seqs)
  PROVE  /\ FlattenSeq(SubSeq(seqs, 1, k - 1)) \in Seq(S)
         /\ FlattenSeq(SubSeq(seqs, 1, k)) = FlattenSeq(SubSeq(seqs, 1, k - 1)) \o seqs[k]
<1> DEFINE n == Len(seqs)
<1>1. n \in Nat /\ k \in 1 .. n /\ n \in 0 .. n /\ seqs[k] \in Seq(S)
  OBVIOUS
<1>2. PICK f \in [1 .. n -> Seq(S)] : Flattened(f, seqs, n)
  BY <1>1, FlattenExists
<1>3. \A j \in 1 .. n : FlattenSeq(SubSeq(seqs, 1, j)) = f[j]
  BY <1>2, FlattenPrefix
<1>4. f[k] = IF k = 1 THEN seqs[k] ELSE f[k - 1] \o seqs[k]
  BY <1>1, <1>2 DEF Flattened
<1>5. CASE k = 1
  <2>1. SubSeq(seqs, 1, k - 1) = <<>>
    BY <1>5
  <2>2. FlattenSeq(SubSeq(seqs, 1, k - 1)) = <<>>
    BY <2>1 DEF FlattenSeq
  <2>3. <<>> \o seqs[k] = seqs[k] /\ <<>> \in Seq(S)
    BY <1>1, ConcatEmptySeq
  <2>4. FlattenSeq(SubSeq(seqs, 1, k)) = seqs[k]
    BY <1>1, <1>3, <1>4, <1>5
  <2> QED
    BY <2>2, <2>3, <2>4
<1>6. CASE k # 1
  <2>1. k - 1 \in 1 .. n
    BY <1>1, <1>6
  <2> QED
    BY <1>1, <1>2, <1>3, <1>4, <1>6, <2>1
<1> QED
  BY <1>5, <1>6

LEMMA MoreAnswers ==
  ASSUME NEW state \in States, NEW a \in Seq(Messages), NEW b \in Seq(Messages),
         NEW height \in Nat
  PROVE  ExecuteAll(state, a, height).answer <= ExecuteAll(state, a \o b, height).answer
<1> DEFINE middle == ExecuteAll(state, a, height)
<1>1. middle \in States /\ ExecuteAll(state, a \o b, height) = ExecuteAll(middle, b, height)
  BY ExecuteAllSplits
<1> HIDE DEF middle
<1>2. After(middle, ExecuteAll(middle, b, height), height)
  BY <1>1, ExecuteAllAfter
<1> QED
  BY <1>1, <1>2 DEF After, middle

\* Answers only grow in number, from one transaction of a block to the next.
LEMMA AnswersGrow ==
  ASSUME NEW state \in States, NEW block \in Seq(Seq(Messages)), NEW height \in Nat
  PROVE  \A i \in DOMAIN block : 1 \in DOMAIN block[i] =>
           /\ state.answer <= ExecuteAll(state, UpTo(block, i, 1), height).answer
           /\ ExecuteAll(state, UpTo(block, i, 1), height).answer
                <= ExecuteAll(state, FlattenSeq(block), height).answer
           /\ \A j \in DOMAIN block : i < j /\ 1 \in DOMAIN block[j] =>
                ExecuteAll(state, UpTo(block, i, 1), height).answer
                  <= ExecuteAll(state, UpTo(block, j, 1), height).answer
<1>0. \A s, t, u \in Seq(Messages) : (s \o t) \o u = s \o (t \o u)
  BY Associative
<1> DEFINE n == Len(block)
           P(k) == ExecuteAll(state, FlattenSeq(SubSeq(block, 1, k)), height)
           there(i) == ExecuteAll(state, UpTo(block, i, 1), height)
<1>1. n \in Nat /\ DOMAIN block = 1 .. n /\ SubSeq(block, 1, n) = block
  OBVIOUS
<1>2. ASSUME NEW k \in 0 .. n PROVE P(k) \in States /\ state.answer <= P(k).answer
  <2>1. SubSeq(block, 1, k) \in Seq(Seq(Messages))
    BY <1>1
  <2>2. FlattenSeq(SubSeq(block, 1, k)) \in Seq(Messages)
    BY <2>1, FlattenType
  <2> QED
    BY <2>2, ExecuteAllAfter DEF After
<1>3. ASSUME NEW k \in 1 .. n PROVE P(k - 1).answer <= P(k).answer
  <2> DEFINE start == FlattenSeq(SubSeq(block, 1, k - 1))
             whole == FlattenSeq(SubSeq(block, 1, k))
  <2>1. start \in Seq(Messages) /\ whole = start \o block[k]
    BY FlattenStep
  <2>2. block[k] \in Seq(Messages)
    BY <1>1
  <2> HIDE DEF start, whole
  <2>3. ExecuteAll(state, start, height).answer <= ExecuteAll(state, whole, height).answer
    BY <2>1, <2>2, MoreAnswers
  <2> QED
    BY <2>3 DEF start, whole
<1>4. ASSUME NEW i \in 1 .. n, 1 \in DOMAIN block[i]
      PROVE  /\ there(i) \in States
             /\ P(i - 1).answer <= there(i).answer /\ there(i).answer <= P(i).answer
  <2> DEFINE start == FlattenSeq(SubSeq(block, 1, i - 1))
             whole == FlattenSeq(SubSeq(block, 1, i))
             first == SubSeq(block[i], 1, 1)
             rest == SubSeq(block[i], 2, Len(block[i]))
             upto == UpTo(block, i, 1)
  <2>1. start \in Seq(Messages) /\ whole = start \o block[i]
    BY FlattenStep
  <2>2. first \in Seq(Messages) /\ rest \in Seq(Messages) /\ block[i] = first \o rest
    <3>1. block[i] \in Seq(Messages) /\ 1 \in 1 .. Len(block[i])
      BY <1>1, <1>4
    <3> QED
      BY <3>1
  <2>3. upto = start \o first
    BY DEF UpTo
  <2> HIDE DEF start, whole, first, rest, upto
  <2>4. whole = upto \o rest /\ upto \in Seq(Messages)
    <3>1. whole = start \o (first \o rest)
      BY <2>1, <2>2
    <3>2. (start \o first) \o rest = start \o (first \o rest)
      BY <1>0, <2>1, <2>2, Zenon
    <3>3. start \o first \in Seq(Messages)
      BY <2>1, <2>2
    <3> QED
      BY <2>3, <3>1, <3>2, <3>3
  <2>5. /\ ExecuteAll(state, start, height).answer <= ExecuteAll(state, upto, height).answer
        /\ ExecuteAll(state, upto, height).answer <= ExecuteAll(state, whole, height).answer
    BY <2>1, <2>2, <2>3, <2>4, MoreAnswers
  <2>6. ExecuteAll(state, upto, height) \in States
    BY <2>4, ExecuteAllAfter DEF After
  <2> QED
    BY <2>5, <2>6 DEF start, whole, upto
<1>5. P(n) = ExecuteAll(state, FlattenSeq(block), height)
  BY <1>1
<1> HIDE DEF P, there, n
<1>6. ASSUME NEW i \in 0 .. n, NEW j \in 0 .. n, i <= j PROVE P(i).answer <= P(j).answer
  <2> DEFINE T == {k \in 0 .. n : i <= k /\ ~(P(i).answer <= P(k).answer)}
  <2>1. SUFFICES ASSUME T # {} PROVE FALSE
    BY <1>6
  <2>2. PICK k \in T : \A m \in T : k <= m
    <3>1. T \in SUBSET Nat
      BY <1>1
    <3> HIDE DEF T
    <3> QED
      BY <2>1, <3>1, LeastNumber
  <2>3. k \in 0 .. n /\ i <= k /\ ~(P(i).answer <= P(k).answer)
    BY <2>2
  <2>4. \A m \in 0 .. n : P(m).answer \in Nat
    BY <1>2 DEF States
  <2>5. k # i
    BY <2>3, <2>4
  <2>6. k \in 1 .. n /\ k - 1 \in 0 .. n /\ i <= k - 1 /\ ~(k <= k - 1)
    BY <1>1, <2>3, <2>5
  <2>7. P(i).answer <= P(k - 1).answer
    BY <2>2, <2>6
  <2> QED
    BY <1>3, <2>3, <2>4, <2>6, <2>7
<1> SUFFICES ASSUME NEW i \in 1 .. n, 1 \in DOMAIN block[i]
             PROVE  /\ state.answer <= there(i).answer
                    /\ there(i).answer <= P(n).answer
                    /\ \A j \in 1 .. n : i < j /\ 1 \in DOMAIN block[j] =>
                         there(i).answer <= there(j).answer
  BY <1>1, <1>5 DEF there
<1>7. /\ \A k \in 0 .. n : P(k).answer \in Nat
      /\ state.answer \in Nat
      /\ \A k \in 1 .. n : 1 \in DOMAIN block[k] => there(k).answer \in Nat
  BY <1>2, <1>4 DEF States
<1>8. i - 1 \in 0 .. n /\ i \in 0 .. n /\ n \in 0 .. n /\ i <= n
  BY <1>1
<1>9. /\ state.answer <= P(i - 1).answer /\ P(i - 1).answer <= there(i).answer
      /\ there(i).answer <= P(i).answer /\ P(i).answer <= P(n).answer
  BY <1>2, <1>4, <1>6, <1>8
<1>10. ASSUME NEW j \in 1 .. n, i < j, 1 \in DOMAIN block[j]
       PROVE  there(i).answer <= there(j).answer
  <2>1. j - 1 \in 0 .. n /\ i <= j - 1
    BY <1>1, <1>10
  <2>2. P(i).answer <= P(j - 1).answer /\ P(j - 1).answer <= there(j).answer
    BY <1>4, <1>6, <1>8, <1>10, <2>1
  <2>3. /\ P(i).answer \in Nat /\ P(j - 1).answer \in Nat
        /\ there(i).answer \in Nat /\ there(j).answer \in Nat
    BY <1>7, <1>8, <1>10, <2>1
  <2> QED
    BY <1>9, <2>2, <2>3
<1> QED
  BY <1>7, <1>8, <1>9, <1>10
=============================================================================
