------------------------ MODULE ContractCache_proofs ------------------------
(***************************************************************************)
(* Proofs about the contract cache: what is stored is a configuration of   *)
(* its block and a transmission of some recent moment, and goes back to    *)
(* neither an older configuration nor an older answer.                     *)
(***************************************************************************)
EXTENDS ContractCache, FeedChain_proofs

Places == {"details", "fetch", "trans", "epoch", "wait", "done"}
Values == [digest : Nat, epoch : Nat, round : Nat, answer : Nat]
Pairs == [block : Nat, digest : Nat]
Error == [status |-> "error"]
NotFound == [status |-> "notFound"]

\* What the node may have replied to each request.
ReplyTypeOK ==
  /\ pc = "details" => reply \in {NoReply, Error} \cup [status : {"ok"}, block : Nat, digest : Nat]
  /\ pc = "fetch" => reply \in {NoReply, Error} \cup [status : {"ok"}, digest : Nat]
  /\ pc = "trans" => reply \in {NoReply, Error, NotFound} \cup [status : {"ok"}, value : Values]
  /\ pc = "epoch" => reply \in {NoReply, Error} \cup [status : {"ok"}, value : Values]

CacheTypeOK ==
  /\ config \in Pairs /\ told \in Pairs
  /\ configAge \in 0 .. Never /\ transAge \in 0 .. Never
  /\ trans \in Values
  /\ pc \in Places
  /\ asked \in 0 .. Timeout
  /\ changedIn \in 0 .. Height
  /\ ReplyTypeOK
-----------------------------------------------------------------------------
(* Configurations *)

\* What ConfigAt finds in a block.
ConfigsOf(block) ==
  {i \in DOMAIN block : IsOurs(block[i]) /\ block[i][1].kind \in {"config", "otherConfig"}}

ConfigIn(block) ==
  IF ConfigsOf(block) = {} THEN Error
  ELSE [status |-> "ok", digest |-> block[Max(ConfigsOf(block))][1].state.digest]

\* A configuration that was stored is the one to be found in its block.
Stored(c) ==
  \/ c.block = 0 /\ c.digest = 0
  \/ c.block \in 1 .. Height /\ ConfigIn(blocks[c.block]) = [status |-> "ok", digest |-> c.digest]

\* What the poller learns is no older than what it stored.
ConfigInv ==
  /\ Stored(config)
  /\ told = Nothing \/ Stored(told)
  /\ config.block <= feed.block
  /\ pc = "details" /\ reply.status = "ok" =>
       config.block <= reply.block /\ reply.block <= feed.block
  /\ pc = "fetch" =>
       /\ config.block <= changedIn /\ changedIn <= feed.block
       /\ reply.status = "ok" => changedIn # 0 /\ reply = ConfigIn(blocks[changedIn])
-----------------------------------------------------------------------------
(* Transmissions *)

\* b is a, or what became of a feed that was at a.
Precedes(a, b) ==
  /\ a.digest <= b.digest /\ a.answer <= b.answer
  /\ a.digest = b.digest => a.epoch <= b.epoch

TransInv ==
  /\ Precedes(trans, feed)
  /\ pc \in {"trans", "epoch"} /\ reply.status = "ok" =>
       Precedes(trans, reply.value) /\ Precedes(reply.value, feed)
  /\ pc = "trans" /\ reply = NotFound => trans.answer = 0
  /\ pc = "epoch" => trans.answer = 0

\* What the feed was at some moment, at most limit ticks ago.
Was(value, limit) ==
  \/ Details(feed) = value
  \/ \E p \in past : p.age <= limit /\ Details(p.state) = value

WasUnanswered(limit) ==
  feed.answer = 0 \/ \E p \in past : p.age <= limit /\ p.state.answer = 0

WasInEpoch(value, limit) ==
  \/ feed.digest = value.digest /\ feed.epoch = value.epoch
  \/ \E p \in past : /\ p.age <= limit
                     /\ p.state.digest = value.digest /\ p.state.epoch = value.epoch

\* A value of a feed without transmissions, whose epoch was asked for since.
WasEpochOnly(value, unanswered, limit) ==
  /\ value.answer = 0 /\ value.round = 0
  /\ WasUnanswered(unanswered)
  /\ WasInEpoch(value, limit)

RecentInv ==
  /\ past \subseteq [state : States, age : Nat]
  /\ pc = "trans" /\ reply.status = "ok" => Was(reply.value, asked)
  /\ pc = "trans" /\ reply = NotFound => WasUnanswered(asked)
  /\ pc = "epoch" => WasUnanswered(Timeout + asked)
  /\ pc = "epoch" /\ reply.status = "ok" =>
       WasEpochOnly(reply.value, Timeout + asked, asked)
  /\ Fresh(transAge) =>
       \/ Was(trans, transAge + Timeout)
       \/ WasEpochOnly(trans, transAge + 2 * Timeout, transAge + Timeout)

-----------------------------------------------------------------------------
CacheInv == ChainInv /\ CacheTypeOK /\ ConfigInv /\ TransInv /\ RecentInv

LEMMA ConfigAtIs == \A h : ConfigAt(h) = IF h = 0 THEN Error ELSE ConfigIn(blocks[h])
BY DEF ConfigAt, Configurations, ConfigIn, ConfigsOf, Error

\* A configuration found has a digest.
LEMMA ConfigInType ==
  ASSUME NEW block \in Seq(Seq(Events))
  PROVE  ConfigIn(block) \in {Error} \cup [status : {"ok"}, digest : Nat]
<1> DEFINE found == ConfigsOf(block)
           i == Max(found)
<1>1. CASE found = {}
  BY <1>1 DEF ConfigIn
<1>2. CASE found # {}
  <2>1. found \in SUBSET (0 .. Len(block)) /\ Len(block) \in Nat
    BY DEF ConfigsOf
  <2>2. i \in found
    <3> HIDE DEF found
    <3> QED
      BY <1>2, <2>1, GreatestNumber
  <2>3. i \in DOMAIN block /\ IsOurs(block[i])
    BY <2>2 DEF ConfigsOf
  <2> HIDE DEF i, found
  <2>4. block[i] \in Seq(Events) /\ DOMAIN block[i] # {}
    BY <2>3 DEF IsOurs
  <2>5. block[i][1] \in Events
    BY <2>4
  <2>6. block[i][1].state.digest \in Nat
    BY <2>5 DEF Events, States
  <2> QED
    BY <1>2, <2>6 DEF ConfigIn, i, found
<1> QED
  BY <1>1, <1>2

LEMMA CacheInit == Init => CacheInv
<1> SUFFICES ASSUME Init PROVE CacheInv
  OBVIOUS
<1>1. ChainInv
  BY ChainStarts DEF Init
<1>2. Timeout \in Nat /\ TTL \in Nat /\ Never \in Nat /\ Never > TTL
  BY CacheAssumption DEF Never
<1>3. Height \in Nat
  BY <1>1 DEF ChainInv
<1>4. CacheTypeOK
  BY <1>2, <1>3 DEF Init, CacheTypeOK, ReplyTypeOK, Pairs, Values, Places, Nothing, Foreign, None, NoReply
<1>5. ConfigInv
  BY <1>1 DEF Init, ConfigInv, Stored, NoReply, ChainInv, States
<1>6. TransInv
  BY <1>1 DEF Init, TransInv, Precedes, None, NoReply, NotFound, ChainInv, States
<1>7. RecentInv
  BY <1>2 DEF Init, RecentInv, Fresh, NoReply
<1> QED
  BY <1>1, <1>4, <1>5, <1>6, <1>7 DEF CacheInv
-----------------------------------------------------------------------------
(* The node answers *)

LEMMA AnswerKeeps ==
  ASSUME CacheInv, Answer
  PROVE  CacheInv'
<1>1. /\ Asking /\ reply = NoReply /\ reply' = Query
      /\ UNCHANGED <<blocks, feed, config, configAge, trans, transAge, stopped, pc, changedIn,
                     asked, polling, told, faults, past>>
  BY DEF Answer, chain, cache
<1>2. feed \in States /\ feed.block \in 0 .. Height /\ Height \in Nat
  BY DEF CacheInv, ChainInv
<1>3. CASE pc = "details"
  <2>1. reply' = [status |-> "ok", block |-> feed.block, digest |-> feed.digest]
    BY <1>1, <1>3 DEF Query, QueryDetails
  <2>2. CacheTypeOK'
    BY <1>1, <1>2, <1>3, <2>1 DEF CacheInv, CacheTypeOK, ReplyTypeOK, States, Height
  <2>3. ConfigInv'
    BY <1>1, <1>3, <2>1, <1>2 DEF CacheInv, ConfigInv, Stored, Height, States
  <2>4. TransInv' /\ RecentInv'
    BY <1>1, <1>3, <2>1 DEF CacheInv, TransInv, RecentInv, Precedes, Was, WasUnanswered, WasInEpoch,
                            WasEpochOnly, NotFound
  <2> QED
    BY <1>1, <2>2, <2>3, <2>4 DEF CacheInv, ChainInv, Height
<1>4. CASE pc = "fetch"
  <2>1. reply' = IF changedIn = 0 THEN Error ELSE ConfigIn(blocks[changedIn])
    BY <1>1, <1>4, ConfigAtIs DEF Query
  <2>2. changedIn # 0 => blocks[changedIn] \in Seq(Seq(Events))
    BY <1>2 DEF CacheInv, ChainInv, CacheTypeOK, Height
  <2>3. reply' \in {Error} \cup [status : {"ok"}, digest : Nat]
    BY <2>1, <2>2, ConfigInType
  <2>4. CacheTypeOK'
    BY <1>1, <1>4, <2>3 DEF CacheInv, CacheTypeOK, ReplyTypeOK, Height
  <2>5. ConfigInv'
    BY <1>1, <1>4, <2>1 DEF CacheInv, ConfigInv, Stored, Height, Error
  <2>6. TransInv' /\ RecentInv'
    BY <1>1, <1>4 DEF CacheInv, TransInv, RecentInv, Precedes, Was, WasUnanswered, WasInEpoch,
                      WasEpochOnly
  <2> QED
    BY <1>1, <2>4, <2>5, <2>6 DEF CacheInv, ChainInv, Height
<1>5. CASE pc = "trans"
  <2>1. reply' = IF feed.answer = 0 THEN NotFound ELSE [status |-> "ok", value |-> Details(feed)]
    BY <1>1, <1>5 DEF Query, QueryTransmission, NotFound
  <2>2. Details(feed) \in Values /\ Precedes(Details(feed), feed)
    BY <1>2 DEF Details, Values, States, Precedes
  <2>3. CacheTypeOK'
    BY <1>1, <1>5, <2>1, <2>2 DEF CacheInv, CacheTypeOK, ReplyTypeOK, Height
  <2>4. ConfigInv'
    BY <1>1, <1>5 DEF CacheInv, ConfigInv, Stored, Height
  <2>5. feed.answer = 0 => trans.answer = 0
    BY <1>2 DEF CacheInv, CacheTypeOK, TransInv, Precedes, Values, States
  <2>6. Precedes(trans, Details(feed))
    BY DEF CacheInv, TransInv, Precedes, Details
  <2>7. TransInv'
    <3>1. CASE feed.answer = 0
      BY <1>1, <1>5, <2>1, <2>5, <3>1 DEF CacheInv, TransInv, Precedes, NotFound
    <3>2. CASE feed.answer # 0
      BY <1>1, <1>5, <2>1, <2>2, <2>6, <3>2 DEF CacheInv, TransInv, Precedes, NotFound
    <3> QED
      BY <3>1, <3>2
  <2>8. RecentInv'
    <3>1. CASE feed.answer = 0
      BY <1>1, <1>5, <2>1, <3>1 DEF CacheInv, RecentInv, Was, WasUnanswered, WasInEpoch,
                                    WasEpochOnly, NotFound
    <3>2. CASE feed.answer # 0
      <4>1. reply' = [status |-> "ok", value |-> Details(feed)] /\ reply' # NotFound
        BY <2>1, <3>2 DEF NotFound
      <4> QED
        BY <1>1, <1>5, <4>1 DEF CacheInv, RecentInv, Was, WasUnanswered, WasInEpoch, WasEpochOnly
    <3> QED
      BY <3>1, <3>2
  <2> QED
    BY <1>1, <2>3, <2>4, <2>7, <2>8 DEF CacheInv, ChainInv, Height
<1>6. CASE pc = "epoch"
  <2> DEFINE value == [None EXCEPT !.digest = feed.digest, !.epoch = feed.epoch]
  <2>1. reply' = [status |-> "ok", value |-> value]
    BY <1>1, <1>6 DEF Query, QueryEpoch
  <2>2. /\ value.digest = feed.digest /\ value.epoch = feed.epoch
        /\ value.answer = 0 /\ value.round = 0 /\ value \in Values
    BY <1>2 DEF None, Values, States
  <2> HIDE DEF value
  <2>3. CacheTypeOK'
    BY <1>1, <1>6, <2>1, <2>2 DEF CacheInv, CacheTypeOK, ReplyTypeOK, Height
  <2>4. ConfigInv'
    BY <1>1, <1>6 DEF CacheInv, ConfigInv, Stored, Height
  <2>5. TransInv'
    BY <1>1, <1>2, <1>6, <2>1, <2>2 DEF CacheInv, TransInv, CacheTypeOK, Precedes, Values, States
  <2>6. RecentInv'
    BY <1>1, <1>6, <2>1, <2>2 DEF CacheInv, RecentInv, Was, WasUnanswered, WasInEpoch, WasEpochOnly
  <2> QED
    BY <1>1, <2>3, <2>4, <2>5, <2>6 DEF CacheInv, ChainInv, Height
<1> QED
  BY <1>1, <1>3, <1>4, <1>5, <1>6 DEF Asking

LEMMA AnswerFailsKeeps ==
  ASSUME CacheInv, AnswerFails
  PROVE  CacheInv'
<1>1. /\ reply' = Error
      /\ UNCHANGED <<blocks, feed, config, configAge, trans, transAge, stopped, pc, changedIn,
                     asked, polling, told, past>>
  BY DEF AnswerFails, chain, cache, Error
<1>2. CacheTypeOK'
  BY <1>1 DEF CacheInv, CacheTypeOK, ReplyTypeOK, Height
<1>3. ConfigInv'
  BY <1>1 DEF CacheInv, ConfigInv, Stored, Height, Error
<1>4. TransInv' /\ RecentInv'
  BY <1>1 DEF CacheInv, TransInv, RecentInv, Precedes, Was, WasUnanswered, WasInEpoch,
              WasEpochOnly, NotFound, Error
<1> QED
  BY <1>1, <1>2, <1>3, <1>4 DEF CacheInv, ChainInv, Height
-----------------------------------------------------------------------------
(* The chain grows, and time passes *)

LEMMA GrowKeeps ==
  ASSUME CacheInv, NEW block \in Blocks, Grow(block)
  PROVE  CacheInv'
<1>1. /\ Commit(block)
      /\ past' = IF feed' = feed THEN past ELSE past \cup {[state |-> feed, age |-> 0]}
      /\ UNCHANGED <<config, configAge, trans, transAge, stopped, pc, changedIn, reply, asked,
                     polling, told, faults>>
  BY DEF Grow, cache, poller
<1>2. /\ ChainInv' /\ Height' = Height + 1
      /\ After(feed, feed', Height + 1)
      /\ \A h \in 1 .. Height : blocks'[h] = blocks[h]
  BY <1>1, ChainGrows DEF CacheInv
<1>3. /\ Height \in Nat /\ feed \in States /\ feed' \in States
      /\ feed.block \in Nat /\ feed'.block \in Nat /\ feed.block <= feed'.block
  BY <1>2 DEF CacheInv, ChainInv, After, States
<1>4. CacheTypeOK'
  BY <1>1, <1>2, <1>3 DEF CacheInv, CacheTypeOK, ReplyTypeOK
<1>5. ASSUME NEW c \in Pairs, Stored(c) PROVE Stored(c)'
  BY <1>2, <1>3, <1>5 DEF Stored, Pairs
<1>6. ConfigInv'
  <2>1. Stored(config)'
    <3>1. PICK c \in Pairs : c = config
      BY DEF CacheInv, CacheTypeOK
    <3>2. Stored(c)'
      BY <1>5, <3>1 DEF CacheInv, ConfigInv
    <3> QED
      BY <1>1, <3>1, <3>2 DEF Stored
  <2>2. told' = Nothing \/ Stored(told)'
    <3>1. CASE told = Nothing
      BY <1>1, <3>1
    <3>2. CASE told # Nothing
      <4>1. PICK c \in Pairs : c = told
        BY DEF CacheInv, CacheTypeOK
      <4>2. Stored(c)'
        BY <1>5, <3>2, <4>1 DEF CacheInv, ConfigInv
      <4> QED
        BY <1>1, <4>1, <4>2 DEF Stored
    <3> QED
      BY <3>1, <3>2
  <2>3. config'.block <= feed'.block
    BY <1>1, <1>3 DEF CacheInv, CacheTypeOK, ConfigInv, Pairs
  <2>4. pc' = "details" /\ reply'.status = "ok" =>
          config'.block <= reply'.block /\ reply'.block <= feed'.block
    BY <1>1, <1>3 DEF CacheInv, CacheTypeOK, ConfigInv, ReplyTypeOK, NoReply, Error
  <2>5. pc' = "fetch" =>
          /\ config'.block <= changedIn' /\ changedIn' <= feed'.block
          /\ reply'.status = "ok" => changedIn' # 0 /\ reply' = ConfigIn(blocks'[changedIn'])
    BY <1>1, <1>2, <1>3 DEF CacheInv, CacheTypeOK, ConfigInv
  <2> QED
    BY <2>1, <2>2, <2>3, <2>4, <2>5 DEF ConfigInv, Nothing
<1>7. ASSUME NEW v \in Values, Precedes(v, feed) PROVE Precedes(v, feed')
  BY <1>2, <1>3, <1>7 DEF Precedes, After, Values, States
<1>8. TransInv'
  <2>1. Precedes(trans, feed')
    BY <1>7 DEF CacheInv, CacheTypeOK, TransInv
  <2>2. pc \in {"trans", "epoch"} /\ reply.status = "ok" => Precedes(reply.value, feed')
    <3>1. pc \in {"trans", "epoch"} /\ reply.status = "ok" => reply.value \in Values
      BY DEF CacheInv, CacheTypeOK, ReplyTypeOK, NoReply, Error, NotFound
    <3> QED
      BY <1>7, <3>1 DEF CacheInv, TransInv
  <2> QED
    BY <1>1, <2>1, <2>2 DEF CacheInv, TransInv, Precedes, NotFound
<1>9. past' \subseteq [state : States, age : Nat] /\ past \subseteq past'
  BY <1>1, <1>3 DEF CacheInv, RecentInv
<1>10. feed' = feed \/ \E p \in past' : p.age = 0 /\ p.state = feed
  <2>1. feed' # feed => [state |-> feed, age |-> 0] \in past'
    BY <1>1
  <2> QED
    BY <2>1
<1>11. ASSUME NEW v, NEW l \in Nat, Was(v, l) PROVE Was(v, l)'
  BY <1>9, <1>10, <1>11 DEF Was
<1>12. ASSUME NEW l \in Nat, WasUnanswered(l) PROVE WasUnanswered(l)'
  BY <1>9, <1>10, <1>12 DEF WasUnanswered
<1>13. ASSUME NEW v, NEW l \in Nat, WasInEpoch(v, l) PROVE WasInEpoch(v, l)'
  BY <1>9, <1>10, <1>13 DEF WasInEpoch
<1>14. RecentInv'
  <2>1. PICK v \in {trans}, w \in {reply.value}, a \in Nat, b \in Nat : a = asked /\ b = transAge
    BY CacheAssumption DEF CacheInv, CacheTypeOK, Never
  <2>2. a + Timeout \in Nat /\ Timeout + a \in Nat /\ b + Timeout \in Nat /\ b + 2 * Timeout \in Nat
    BY <2>1, CacheAssumption
  <2>3. /\ pc = "trans" /\ reply.status = "ok" => Was(w, a)'
        /\ pc = "trans" /\ reply = NotFound => WasUnanswered(a)'
        /\ pc = "epoch" => WasUnanswered(Timeout + a)'
        /\ pc = "epoch" /\ reply.status = "ok" => WasEpochOnly(w, Timeout + a, a)'
        /\ Fresh(b) => \/ Was(v, b + Timeout)'
                       \/ WasEpochOnly(v, b + 2 * Timeout, b + Timeout)'
    BY <1>11, <1>12, <1>13, <2>1, <2>2 DEF CacheInv, RecentInv, WasEpochOnly
  <2> QED
    BY <1>1, <1>9, <2>1, <2>3 DEF RecentInv, Was, WasUnanswered, WasInEpoch, WasEpochOnly, NotFound,
                                  Fresh
<1> QED
  BY <1>2, <1>4, <1>6, <1>8, <1>14 DEF CacheInv

LEMMA TickKeeps ==
  ASSUME CacheInv, Tick
  PROVE  CacheInv'
<1>1. /\ Asking => asked < Timeout
      /\ asked' = IF Asking THEN asked + 1 ELSE asked
      /\ configAge' = Older(configAge) /\ transAge' = Older(transAge)
      /\ past' = {[p EXCEPT !.age = @ + 1] : p \in {q \in past : q.age < Horizon}}
      /\ UNCHANGED <<blocks, feed, config, trans, stopped, pc, changedIn, reply, polling, told, faults>>
  BY DEF Tick, chain
<1>2. /\ TTL \in Nat /\ Timeout \in Nat /\ Never = TTL + 1 /\ Horizon = TTL + 2 * Timeout
      /\ asked \in 0 .. Timeout /\ configAge \in 0 .. Never /\ transAge \in 0 .. Never
  BY CacheAssumption DEF CacheInv, CacheTypeOK, Never, Horizon
<1>3. CacheTypeOK'
  BY SMTT(30), <1>1, <1>2 DEF CacheInv, CacheTypeOK, ReplyTypeOK, Height, Older
<1>4. ConfigInv' /\ TransInv'
  BY <1>1 DEF CacheInv, ConfigInv, Stored, Height, TransInv, Precedes, NotFound
<1>5. past' \subseteq [state : States, age : Nat]
  <2>1. \A q \in past : [q EXCEPT !.age = @ + 1] \in [state : States, age : Nat]
    BY DEF CacheInv, RecentInv
  <2> QED
    BY <1>1, <2>1
<1>6. ASSUME NEW p \in past, p.age < Horizon
      PROVE  \E q \in past' : q.age = p.age + 1 /\ q.state = p.state
  <2> DEFINE q == [p EXCEPT !.age = @ + 1]
  <2>1. q.age = p.age + 1 /\ q.state = p.state
    BY DEF CacheInv, RecentInv
  <2> QED
    BY <1>1, <1>6, <2>1
<1>7. \A p \in past : p.age \in Nat
  BY DEF CacheInv, RecentInv
<1>8. ASSUME NEW v, NEW l \in Nat, l < Horizon, Was(v, l) PROVE Was(v, l + 1)'
  <2>1. CASE Details(feed) = v
    BY <1>1, <2>1 DEF Was
  <2>2. ASSUME NEW p \in past, p.age <= l, Details(p.state) = v PROVE Was(v, l + 1)'
    BY <1>2, <1>6, <1>7, <1>8, <2>2 DEF Was
  <2> QED
    BY <1>8, <2>1, <2>2 DEF Was
<1>9. ASSUME NEW l \in Nat, l < Horizon, WasUnanswered(l) PROVE WasUnanswered(l + 1)'
  <2>1. CASE feed.answer = 0
    BY <1>1, <2>1 DEF WasUnanswered
  <2>2. ASSUME NEW p \in past, p.age <= l, p.state.answer = 0 PROVE WasUnanswered(l + 1)'
    BY <1>2, <1>6, <1>7, <1>9, <2>2 DEF WasUnanswered
  <2> QED
    BY <1>9, <2>1, <2>2 DEF WasUnanswered
<1>10. ASSUME NEW v, NEW l \in Nat, l < Horizon, WasInEpoch(v, l) PROVE WasInEpoch(v, l + 1)'
  <2>1. CASE feed.digest = v.digest /\ feed.epoch = v.epoch
    BY <1>1, <2>1 DEF WasInEpoch
  <2>2. ASSUME NEW p \in past, p.age <= l, p.state.digest = v.digest, p.state.epoch = v.epoch
        PROVE  WasInEpoch(v, l + 1)'
    BY <1>2, <1>6, <1>7, <1>10, <2>2 DEF WasInEpoch
  <2> QED
    BY <1>10, <2>1, <2>2 DEF WasInEpoch
<1>11. RecentInv'
  <2>1. PICK v \in {trans}, w \in {reply.value}, a \in Nat, b \in Nat : a = asked /\ b = transAge
    BY <1>2
  <2>2. ASSUME Asking
        PROVE  /\ asked' = a + 1
               /\ pc = "trans" /\ reply.status = "ok" => Was(w, a + 1)'
               /\ pc = "trans" /\ reply = NotFound => WasUnanswered(a + 1)'
               /\ pc = "epoch" => WasUnanswered(Timeout + (a + 1))'
               /\ pc = "epoch" /\ reply.status = "ok" => WasEpochOnly(w, Timeout + (a + 1), a + 1)'
    <3>1. /\ a + 1 = asked' /\ a < Horizon /\ Timeout + a < Horizon /\ Timeout + a \in Nat
          /\ (Timeout + a) + 1 = Timeout + (a + 1)
      BY <1>1, <1>2, <2>1, <2>2
    <3> QED
      BY <1>8, <1>9, <1>10, <2>1, <3>1 DEF CacheInv, RecentInv, WasEpochOnly
  <2>3. ASSUME Fresh(transAge')
        PROVE  /\ transAge' = b + 1
               /\ \/ Was(v, b + 1 + Timeout)'
                  \/ WasEpochOnly(v, b + 1 + 2 * Timeout, b + 1 + Timeout)'
    <3>1. /\ transAge' = b + 1 /\ Fresh(b)
          /\ b + Timeout < Horizon /\ b + 2 * Timeout < Horizon
          /\ b + Timeout \in Nat /\ b + 2 * Timeout \in Nat
          /\ b + Timeout + 1 = b + 1 + Timeout /\ b + 2 * Timeout + 1 = b + 1 + 2 * Timeout
      BY <1>1, <1>2, <2>1, <2>3 DEF Fresh, Older
    <3> QED
      BY <1>8, <1>9, <1>10, <2>1, <3>1 DEF CacheInv, RecentInv, WasEpochOnly
  <2>4. pc \in {"trans", "epoch"} => Asking
    BY DEF Asking
  <2> QED
    BY <1>1, <1>5, <2>1, <2>2, <2>3, <2>4 DEF RecentInv, Was, WasUnanswered, WasInEpoch,
                                              WasEpochOnly, NotFound
<1> QED
  BY <1>1, <1>3, <1>4, <1>11 DEF CacheInv, ChainInv, Height
-----------------------------------------------------------------------------
(* The poller *)

\* What a step leaves that asks for what comes next.
LEMMA AskingAnew ==
  ASSUME CacheInv, NEW next \in Places, Ask(next), UNCHANGED <<blocks, feed, past, told>>,
         changedIn' \in 0 .. Height, config' \in Pairs, trans' \in Values,
         configAge' \in {0, configAge}, transAge' \in 0 .. Never,
         Stored(config'), config'.block <= feed.block,
         next = "fetch" => config'.block <= changedIn' /\ changedIn' <= feed.block,
         Precedes(trans', feed),
         next = "epoch" => trans'.answer = 0 /\ WasUnanswered(Timeout),
         Fresh(transAge') => \/ Was(trans', transAge' + Timeout)
                             \/ WasEpochOnly(trans', transAge' + 2 * Timeout, transAge' + Timeout)
  PROVE  CacheInv'
<1>1. pc' = next /\ reply' = NoReply /\ asked' = 0
  BY DEF Ask
<1>2. TTL \in Nat /\ Timeout \in Nat /\ Never \in Nat /\ Timeout + 0 = Timeout
  BY CacheAssumption DEF Never
<1>3. CacheTypeOK'
  BY <1>1, <1>2 DEF CacheInv, CacheTypeOK, ReplyTypeOK, Height, NoReply
<1>4. ConfigInv'
  BY <1>1 DEF CacheInv, ConfigInv, Stored, Height, NoReply
<1>5. TransInv'
  BY <1>1 DEF CacheInv, TransInv, Precedes, NoReply, NotFound
<1>6. RecentInv'
  BY <1>1, <1>2 DEF CacheInv, RecentInv, Was, WasUnanswered, WasInEpoch, WasEpochOnly, NoReply,
                    NotFound
<1> QED
  BY <1>3, <1>4, <1>5, <1>6 DEF CacheInv, ChainInv, Height

\* What the invariant says of what is stored.
LEMMA StoredIs ==
  ASSUME CacheInv
  PROVE  /\ changedIn \in 0 .. Height /\ config \in Pairs /\ trans \in Values
         /\ configAge \in 0 .. Never /\ transAge \in 0 .. Never
         /\ Stored(config) /\ config.block <= feed.block /\ Precedes(trans, feed)
         /\ Fresh(transAge) => \/ Was(trans, transAge + Timeout)
                               \/ WasEpochOnly(trans, transAge + 2 * Timeout, transAge + Timeout)
         /\ Height \in Nat /\ feed.block \in 0 .. Height
BY DEF CacheInv, ChainInv, CacheTypeOK, ConfigInv, TransInv, RecentInv

LEMMA ReceiveDetailsKeeps ==
  ASSUME CacheInv, ReceiveDetails
  PROVE  CacheInv'
<1>1. /\ pc = "details" /\ reply # NoReply
      /\ UNCHANGED <<blocks, feed, config, trans, transAge, stopped, told, past>>
  BY DEF ReceiveDetails, Replied, chain
<1>2. CASE /\ configAge' \in {0, configAge} /\ AfterConfig /\ UNCHANGED changedIn
  <2>1. PICK next \in {"wait", "done", "trans"} : Ask(next)
    BY <1>2 DEF AfterConfig
  <2>2. next \in Places /\ next # "fetch" /\ next # "epoch"
    BY DEF Places
  <2> QED
    BY <1>1, <1>2, <2>1, <2>2, StoredIs, AskingAnew DEF Stored, Precedes, Was, WasUnanswered, WasInEpoch, WasEpochOnly
<1>3. CASE reply.status = "ok" /\ changedIn' = reply.block /\ Ask("fetch") /\ UNCHANGED configAge
  <2>1. reply.block \in Nat /\ config.block <= reply.block /\ reply.block <= feed.block
    BY <1>1, <1>3 DEF CacheInv, CacheTypeOK, ReplyTypeOK, ConfigInv, Error
  <2>2. changedIn' \in 0 .. Height /\ "fetch" \in Places
    BY <1>3, <2>1, StoredIs DEF Places
  <2> QED
    BY <1>1, <1>3, <2>1, <2>2, StoredIs, AskingAnew
<1> QED
  BY <1>2, <1>3 DEF ReceiveDetails

LEMMA ReceiveConfigKeeps ==
  ASSUME CacheInv, ReceiveConfig
  PROVE  CacheInv' /\ config'.block >= config.block
<1>1. /\ pc = "fetch" /\ reply # NoReply /\ changedIn' = 0
      /\ UNCHANGED <<blocks, feed, trans, transAge, stopped, told, past>>
      /\ AfterConfig
  BY DEF ReceiveConfig, Replied, chain
<1>2. PICK next \in {"wait", "done", "trans"} : Ask(next)
  BY <1>1 DEF AfterConfig
<1>3. next \in Places /\ next # "fetch" /\ next # "epoch" /\ changedIn' \in 0 .. Height
  BY <1>1, StoredIs DEF Places
<1>4. /\ config' \in Pairs /\ configAge' \in {0, configAge}
      /\ Stored(config') /\ config'.block <= feed.block /\ config'.block >= config.block
  <2>1. CASE UNCHANGED <<config, configAge>>
    BY <2>1, StoredIs DEF Pairs
  <2>2. CASE /\ reply.status = "ok" /\ configAge' = 0
             /\ config' = [block |-> changedIn, digest |-> reply.digest]
    <3>1. reply \in [status : {"ok"}, digest : Nat]
      BY <1>1, <2>2 DEF CacheInv, CacheTypeOK, ReplyTypeOK, Error
    <3>2. reply = [status |-> "ok", digest |-> reply.digest] /\ reply.digest \in Nat
      BY <3>1
    <3>3. /\ changedIn # 0 /\ reply = ConfigIn(blocks[changedIn])
          /\ config.block <= changedIn /\ changedIn <= feed.block
      BY <1>1, <2>2 DEF CacheInv, ConfigInv
    <3>4. changedIn \in 1 .. Height /\ config.block \in Nat
      BY <3>3, StoredIs DEF Pairs
    <3> QED
      BY <2>2, <3>2, <3>3, <3>4 DEF Stored, Pairs
  <2> QED
    BY <2>1, <2>2 DEF ReceiveConfig
<1>5. /\ trans' \in Values /\ transAge' \in 0 .. Never /\ Precedes(trans', feed)
      /\ Fresh(transAge') => \/ Was(trans', transAge' + Timeout)
                             \/ WasEpochOnly(trans', transAge' + 2 * Timeout, transAge' + Timeout)
  BY <1>1, StoredIs
<1> QED
  BY <1>1, <1>2, <1>3, <1>4, <1>5, AskingAnew

\* A value that was stored, and its age.
LEMMA StoringKeeps ==
  ASSUME CacheInv, NEW next \in {"wait", "epoch"}, Ask(next),
         UNCHANGED <<blocks, feed, config, configAge, changedIn, told, past>>,
         trans' \in Values, transAge' \in 0 .. Never, Precedes(trans', feed),
         next = "epoch" => trans'.answer = 0 /\ WasUnanswered(Timeout),
         Fresh(transAge') => \/ Was(trans', transAge' + Timeout)
                             \/ WasEpochOnly(trans', transAge' + 2 * Timeout, transAge' + Timeout)
  PROVE  CacheInv'
<1>1. next \in Places /\ next # "fetch"
  BY DEF Places
<1>2. /\ changedIn' \in 0 .. Height /\ config' \in Pairs /\ configAge' \in {0, configAge}
      /\ Stored(config') /\ config'.block <= feed.block
  BY StoredIs
<1> QED
  BY <1>1, <1>2, AskingAnew

LEMMA ReceiveTransmissionKeeps ==
  ASSUME CacheInv, ReceiveTransmission
  PROVE  CacheInv' /\ Precedes(trans, trans')
<1>1. /\ pc = "trans" /\ reply # NoReply
      /\ UNCHANGED <<blocks, feed, config, configAge, changedIn, told, past>>
  BY DEF ReceiveTransmission, Replied, chain
<1>2. Timeout \in Nat /\ Never \in Nat /\ asked \in Nat /\ asked <= Timeout
  BY CacheAssumption DEF Never, CacheInv, CacheTypeOK
<1>3. CASE reply.status = "ok" /\ Store(reply.value) /\ Ask("wait")
  <2>1. reply.value \in Values
    BY <1>1, <1>3 DEF CacheInv, CacheTypeOK, ReplyTypeOK, Error, NotFound
  <2>2. Precedes(trans, reply.value) /\ Precedes(reply.value, feed)
    BY <1>1, <1>3 DEF CacheInv, TransInv
  <2>3. Was(reply.value, asked) /\ past \subseteq [state : States, age : Nat]
    BY <1>1, <1>3 DEF CacheInv, RecentInv
  <2>4. Was(reply.value, Timeout) /\ 0 + Timeout = Timeout
    BY <1>2, <2>3 DEF Was
  <2>5. trans' = reply.value /\ transAge' = 0 /\ 0 \in 0 .. Never
    BY <1>2, <1>3 DEF Store
  <2> QED
    BY <1>1, <1>3, <2>1, <2>2, <2>4, <2>5, StoringKeeps
<1>4. CASE reply.status = "notFound" /\ UNCHANGED <<trans, transAge>> /\ Ask("epoch")
  <2>1. reply = NotFound
    BY <1>1, <1>4 DEF CacheInv, CacheTypeOK, ReplyTypeOK, Error, NotFound
  <2>2. trans.answer = 0 /\ WasUnanswered(asked) /\ past \subseteq [state : States, age : Nat]
    BY <1>1, <2>1 DEF CacheInv, TransInv, RecentInv
  <2>3. WasUnanswered(Timeout)
    BY <1>2, <2>2 DEF WasUnanswered
  <2> QED
    BY <1>1, <1>4, <2>2, <2>3, StoredIs, StoringKeeps DEF Precedes, Values
<1>5. CASE reply.status = "error" /\ UNCHANGED <<trans, transAge>> /\ Ask("wait")
  BY <1>1, <1>5, StoredIs, StoringKeeps DEF Precedes, Values
<1> QED
  BY <1>3, <1>4, <1>5 DEF ReceiveTransmission

LEMMA ReceiveEpochKeeps ==
  ASSUME CacheInv, ReceiveEpoch
  PROVE  CacheInv' /\ Precedes(trans, trans')
<1>1. /\ pc = "epoch" /\ reply # NoReply /\ Ask("wait")
      /\ UNCHANGED <<blocks, feed, config, configAge, changedIn, told, past>>
  BY DEF ReceiveEpoch, Replied, chain
<1>2. Timeout \in Nat /\ Never \in Nat /\ asked \in Nat /\ asked <= Timeout
  BY CacheAssumption DEF Never, CacheInv, CacheTypeOK
<1>3. CASE reply.status = "ok" /\ Store(reply.value)
  <2>1. reply.value \in Values
    BY <1>1, <1>3 DEF CacheInv, CacheTypeOK, ReplyTypeOK, Error
  <2>2. Precedes(trans, reply.value) /\ Precedes(reply.value, feed)
    BY <1>1, <1>3 DEF CacheInv, TransInv
  <2>3. /\ WasEpochOnly(reply.value, Timeout + asked, asked)
        /\ past \subseteq [state : States, age : Nat]
    BY <1>1, <1>3 DEF CacheInv, RecentInv
  <2>4. WasEpochOnly(reply.value, 2 * Timeout, Timeout)
    <3>1. \A p \in past : /\ p.age <= Timeout + asked => p.age <= 2 * Timeout
                          /\ p.age <= asked => p.age <= Timeout
      BY <1>2, <2>3
    <3> QED
      BY <2>3, <3>1 DEF WasEpochOnly, WasUnanswered, WasInEpoch
  <2>5. /\ trans' = reply.value /\ transAge' = 0 /\ 0 \in 0 .. Never
        /\ 0 + Timeout = Timeout /\ 0 + 2 * Timeout = 2 * Timeout
    BY <1>2, <1>3 DEF Store
  <2> QED
    BY <1>1, <2>1, <2>2, <2>4, <2>5, StoringKeeps
<1>4. CASE UNCHANGED <<trans, transAge>>
  BY <1>1, <1>4, StoredIs, StoringKeeps DEF Precedes, Values
<1> QED
  BY <1>3, <1>4 DEF ReceiveEpoch

LEMMA PollKeeps ==
  ASSUME CacheInv, Poll
  PROVE  CacheInv'
<1>1. PICK next \in {"details", "done"} : Ask(next)
  BY DEF Poll
<1>2. next \in Places /\ next # "fetch" /\ next # "epoch"
  BY DEF Places
<1>3. UNCHANGED <<blocks, feed, config, configAge, trans, transAge, changedIn, told, past>>
  BY DEF Poll, chain, cache
<1> QED
  BY <1>1, <1>2, <1>3, StoredIs, AskingAnew
-----------------------------------------------------------------------------
(* Readers, and the end *)

LEMMA CloseKeeps ==
  ASSUME CacheInv, UNCHANGED <<blocks, feed, config, configAge, trans, transAge, pc, changedIn,
                               reply, asked, past>>,
         told' = told \/ told' = Nothing \/ told' = config
  PROVE  CacheInv'
<1>1. CacheTypeOK'
  BY DEF CacheInv, CacheTypeOK, ReplyTypeOK, Height, Nothing, Foreign, Pairs
<1>2. ConfigInv'
  BY DEF CacheInv, ConfigInv, Stored, Height
<1>3. TransInv' /\ RecentInv'
  BY DEF CacheInv, TransInv, RecentInv, Precedes, Was, WasUnanswered, WasInEpoch, WasEpochOnly,
         NotFound, Fresh
<1> QED
  BY <1>1, <1>2, <1>3 DEF CacheInv, ChainInv, Height

LEMMA CacheStep ==
  ASSUME CacheInv, [Next]_vars
  PROVE  /\ CacheInv'
         /\ config'.block >= config.block
         /\ Precedes(trans, trans')
<1>1. /\ UNCHANGED config => config'.block >= config.block
      /\ UNCHANGED trans => Precedes(trans, trans')
  BY StoredIs DEF Pairs, Values, Precedes
<1>2. CASE Answer
  BY <1>1, <1>2, AnswerKeeps DEF Answer, cache
<1>3. CASE AnswerFails
  BY <1>1, <1>3, AnswerFailsKeeps DEF AnswerFails, cache
<1>4. ASSUME NEW block \in Blocks, Grow(block)
      PROVE  CacheInv' /\ config'.block >= config.block /\ Precedes(trans, trans')
  BY <1>1, <1>4, GrowKeeps DEF Grow, cache
<1>5. CASE Tick
  BY <1>1, <1>5, TickKeeps DEF Tick
<1>6. CASE ReceiveDetails
  BY <1>1, <1>6, ReceiveDetailsKeeps DEF ReceiveDetails
<1>7. CASE ReceiveConfig
  BY <1>1, <1>7, ReceiveConfigKeeps DEF ReceiveConfig
<1>8. CASE ReceiveTransmission
  BY <1>1, <1>8, ReceiveTransmissionKeeps DEF ReceiveTransmission
<1>9. CASE ReceiveEpoch
  BY <1>1, <1>9, ReceiveEpochKeeps DEF ReceiveEpoch
<1>10. CASE Poll
  BY <1>1, <1>10, PollKeeps DEF Poll, cache
<1>11. CASE Close
  BY <1>1, <1>11, CloseKeeps DEF Close, chain, poller
<1>12. CASE ReadDetails \/ ReadConfig
  BY <1>1, <1>12, CloseKeeps DEF ReadDetails, ReadConfig, chain, cache, poller
<1>13. CASE UNCHANGED vars
  BY <1>1, <1>13, CloseKeeps DEF vars, chain, cache, poller
<1> QED
  BY <1>2, <1>3, <1>4, <1>5, <1>6, <1>7, <1>8, <1>9, <1>10, <1>11, <1>12, <1>13
  DEF Next, Update, Read

LEMMA CacheInvariant == Spec => []CacheInv
<1>1. CacheInv /\ [Next]_vars => CacheInv'
  BY CacheStep
<1> QED
  BY CacheInit, <1>1, PTL DEF Spec
-----------------------------------------------------------------------------
(* The configuration found is the feed's *)

\* What is found in a block is what it left the feed with.
LEMMA LastConfigFound ==
  ASSUME NEW state \in States, NEW block \in Seq(Seq(Messages)), NEW height \in Nat,
         Findable(block)
  PROVE  LET after == ExecuteAll(state, FlattenSeq(block), height)
             record == Record(state, block, height)
         IN  \/ after.block = state.block /\ after.digest = state.digest
             \/ /\ after.block = height
                /\ ConfigIn(record) \in {Error, [status |-> "ok", digest |-> after.digest]}
<1> DEFINE after == ExecuteAll(state, FlattenSeq(block), height)
           record == Record(state, block, height)
<1>1. /\ Len(block) \in Nat /\ DOMAIN block = 1 .. Len(block)
      /\ \A i \in DOMAIN block : /\ block[i] \in Seq(Messages) /\ Len(block[i]) \in Nat
                                /\ DOMAIN block[i] = 1 .. Len(block[i])
  OBVIOUS
<1>2. /\ DOMAIN record = DOMAIN block
      /\ \A i \in DOMAIN block : /\ DOMAIN record[i] = DOMAIN block[i]
                                /\ \A m \in DOMAIN block[i] : record[i][m].kind = block[i][m]
  BY DEF Record
<1>3. CASE after.block = state.block /\ after.digest = state.digest
  BY <1>3
<1>4. ASSUME NEW i \in DOMAIN block, NEW m \in DOMAIN block[i], block[i][m] = "config",
             \A j \in DOMAIN block : \A k \in DOMAIN block[j] :
               block[j][k] = "config" => j < i \/ (j = i /\ k <= m),
             after.block = height,
             after.digest = ExecuteAll(state, UpTo(block, i, m), height).digest
      PROVE  ConfigIn(record) \in {Error, [status |-> "ok", digest |-> after.digest]}
  <2> DEFINE there == ExecuteAll(state, UpTo(block, i, m), height)
  <2>1. CASE \A j \in DOMAIN block : \A k \in DOMAIN block[j] :
               k = 1 => block[j][k] \notin {"config", "otherConfig"}
    <3>1. ASSUME NEW j \in DOMAIN block, IsOurs(record[j])
          PROVE  1 \in DOMAIN block[j] /\ record[j][1].kind = block[j][1]
      BY <1>1, <1>2, <3>1 DEF IsOurs
    <3>2. ConfigsOf(record) = {}
      BY <1>2, <2>1, <3>1 DEF ConfigsOf
    <3> QED
      BY <3>2 DEF ConfigIn
  <2>2. CASE \A j \in DOMAIN block : \A k \in DOMAIN block[j] :
               /\ block[j][k] = "config" => k = 1
               /\ block[j][k] \in Own => block[j][1] # "otherConfig"
    <3>1. m = 1
      BY <1>4, <2>2
    <3>2. i \in ConfigsOf(record)
      BY <1>2, <1>4, <3>1 DEF ConfigsOf, IsOurs, Own
    <3>3. ASSUME NEW j \in ConfigsOf(record) PROVE j \in 1 .. Len(block) /\ j <= i
      <4>1. j \in DOMAIN block /\ record[j][1].kind \in {"config", "otherConfig"}
        BY <1>2 DEF ConfigsOf
      <4>2. PICK k \in DOMAIN block[j] : block[j][k] \in Own
        BY <1>2, <4>1 DEF ConfigsOf, IsOurs
      <4>3. 1 \in DOMAIN block[j]
        BY <1>1, <4>1, <4>2
      <4>4. block[j][1] = "config"
        BY <1>2, <2>2, <4>1, <4>2, <4>3
      <4>5. j < i \/ j = i
        BY <1>4, <4>1, <4>3, <4>4
      <4> QED
        BY <1>1, <4>1, <4>5
    <3>4. Max(ConfigsOf(record)) = i
      <4>1. ConfigsOf(record) \in SUBSET (0 .. Len(block)) /\ ConfigsOf(record) # {}
        BY <1>1, <1>2, <3>2 DEF ConfigsOf
      <4> HIDE DEF record
      <4>2. /\ Max(ConfigsOf(record)) \in ConfigsOf(record)
            /\ i <= Max(ConfigsOf(record))
        BY <1>1, <3>2, <4>1, GreatestNumber
      <4>3. Max(ConfigsOf(record)) <= i /\ Max(ConfigsOf(record)) \in 1 .. Len(block)
        BY <3>3, <4>2
      <4> QED
        BY <1>1, <4>2, <4>3
    <3>5. record[i][1].state = there
      BY <1>1, <1>4, <3>1 DEF Record
    <3>6. ConfigIn(record) = [status |-> "ok", digest |-> there.digest]
      <4> HIDE DEF record, there
      <4> QED
        BY <3>2, <3>4, <3>5 DEF ConfigIn
    <3> QED
      BY <1>4, <3>6
  <2> QED
    BY <2>1, <2>2 DEF Findable
<1>5. \/ after.block = state.block /\ after.digest = state.digest
      \/ \E i \in DOMAIN block : \E m \in DOMAIN block[i] :
           /\ block[i][m] = "config"
           /\ \A j \in DOMAIN block : \A k \in DOMAIN block[j] :
                block[j][k] = "config" => j < i \/ (j = i /\ k <= m)
           /\ after.block = height
           /\ after.digest = ExecuteAll(state, UpTo(block, i, m), height).digest
  <2> HIDE DEF after
  <2> QED
    BY LastConfig DEF after
<1>6. \/ after.block = state.block /\ after.digest = state.digest
      \/ /\ after.block = height
         /\ ConfigIn(record) \in {Error, [status |-> "ok", digest |-> after.digest]}
  <2> HIDE DEF after, record
  <2> QED
    BY <1>3, <1>4, <1>5
<1> QED
  BY <1>6

\* What is found where a state of the feed says it was configured is its
\* configuration, if anything.
Current(state) ==
  /\ state.block \in 0 .. Height
  /\ state.block # 0 =>
       ConfigIn(blocks[state.block]) \in {Error, [status |-> "ok", digest |-> state.digest]}

WasConfig(block, digest, limit) ==
  \/ feed.block = block /\ feed.digest = digest
  \/ \E p \in past : p.age <= limit /\ p.state.block = block /\ p.state.digest = digest

CurrentInv ==
  /\ Current(feed) /\ \A p \in past : Current(p.state)
  /\ pc = "details" /\ reply.status = "ok" => WasConfig(reply.block, reply.digest, asked)
  /\ pc = "fetch" => \E digest \in Nat : WasConfig(changedIn, digest, Timeout + asked)
  /\ Fresh(configAge) => WasConfig(config.block, config.digest, configAge + 2 * Timeout)

LEMMA CurrentInit ==
  ASSUME \A block \in Starts \cup Blocks : Findable(block), Init
  PROVE  CurrentInv
<1>1. PICK block \in Starts : /\ blocks = <<Record(Unconfigured, block, 1)>>
                              /\ feed = ExecuteAll(Unconfigured, FlattenSeq(block), 1)
  BY DEF Init, ChainInit
<1>2. block \in Seq(Seq(Messages)) /\ Findable(block)
  BY ChainAssumption
<1>3. Unconfigured \in States /\ Unconfigured.block = 0
  BY DEF Unconfigured, States
<1>4. Height = 1 /\ blocks[1] = Record(Unconfigured, block, 1)
  BY <1>1 DEF Height
<1>5. Current(feed)
  BY <1>1, <1>2, <1>3, <1>4, LastConfigFound DEF Current
<1>6. ~Fresh(configAge) /\ past = {} /\ pc = "details" /\ reply = NoReply
  BY CacheAssumption DEF Init, Fresh, Never
<1> QED
  BY <1>5, <1>6 DEF CurrentInv, NoReply

LEMMA CurrentGrows ==
  ASSUME \A block \in Starts \cup Blocks : Findable(block), CacheInv, CurrentInv,
         NEW block \in Blocks, Grow(block)
  PROVE  CurrentInv'
<1>1. /\ Commit(block)
      /\ past' = IF feed' = feed THEN past ELSE past \cup {[state |-> feed, age |-> 0]}
      /\ UNCHANGED <<config, configAge, pc, changedIn, reply, asked>>
  BY DEF Grow, cache, poller
<1>2. /\ Height' = Height + 1 /\ Height \in Nat
      /\ \A h \in 1 .. Height : blocks'[h] = blocks[h]
      /\ blocks'[Height + 1] = Record(feed, block, Height + 1)
      /\ feed' = ExecuteAll(feed, FlattenSeq(block), Height + 1)
      /\ feed \in States
  <2>1. blocks' = Append(blocks, Record(feed, block, Height + 1))
        /\ feed' = ExecuteAll(feed, FlattenSeq(block), Height + 1)
    BY <1>1 DEF Commit
  <2>2. blocks \in Seq(Seq(Seq(Events))) /\ Height = Len(blocks) /\ feed \in States
    BY DEF CacheInv, ChainInv, Height
  <2> DEFINE record == Record(feed, block, Height + 1)
  <2> HIDE DEF record
  <2>3. blocks' = Append(blocks, record)
    BY <2>1 DEF record
  <2>4. blocks'[Height + 1] = record
    BY <2>2, <2>3
  <2> QED
    BY <1>1, <2>1, <2>2, <2>4, ChainGrows DEF CacheInv, record
<1>3. block \in Seq(Seq(Messages)) /\ Findable(block)
  BY ChainAssumption
<1>4. ASSUME NEW state, Current(state) PROVE Current(state)'
  BY <1>2, <1>4 DEF Current
<1>5. \/ feed'.block = feed.block /\ feed'.digest = feed.digest
      \/ /\ feed'.block = Height + 1
         /\ ConfigIn(blocks'[Height + 1]) \in {Error, [status |-> "ok", digest |-> feed'.digest]}
  BY <1>2, <1>3, LastConfigFound
<1>6. Current(feed)'
  <2>1. CASE feed'.block = feed.block /\ feed'.digest = feed.digest
    <3>1. Current(feed)
      BY DEF CurrentInv
    <3> QED
      BY <1>2, <2>1, <3>1 DEF Current
  <2>2. CASE /\ feed'.block = Height + 1
             /\ ConfigIn(blocks'[Height + 1]) \in {Error, [status |-> "ok", digest |-> feed'.digest]}
    BY <1>2, <2>2 DEF Current
  <2> QED
    BY <1>5, <2>1, <2>2
<1>7. \A p \in past' : Current(p.state)'
  <2> SUFFICES ASSUME NEW p \in past' PROVE Current(p.state)'
    OBVIOUS
  <2>1. PICK state \in {p.state} : state = p.state
    OBVIOUS
  <2>2. Current(state)
    BY <1>1, <2>1 DEF CurrentInv
  <2> QED
    BY <1>4, <2>1, <2>2
<1>8. past \subseteq past' /\ (feed' # feed => \E p \in past' : p.age = 0 /\ p.state = feed)
  <2>1. past \subseteq past' /\ (feed' # feed => [state |-> feed, age |-> 0] \in past')
    BY <1>1
  <2> QED
    BY <2>1
<1>9. ASSUME NEW b, NEW d, NEW l \in Nat, WasConfig(b, d, l) PROVE WasConfig(b, d, l)'
  BY <1>8, <1>9 DEF WasConfig
<1>10. PICK a \in Nat, g \in Nat, t \in Nat : a = asked /\ g = configAge /\ t = Timeout
  BY CacheAssumption DEF CacheInv, CacheTypeOK, Never
<1>11. t + a \in Nat /\ g + 2 * t \in Nat
  OBVIOUS
<1>12. PICK b \in {config.block}, d \in {config.digest}, c \in {changedIn},
            rb \in {reply.block}, rd \in {reply.digest} : TRUE
  OBVIOUS
<1>13. /\ pc = "details" /\ reply.status = "ok" => WasConfig(rb, rd, a)'
       /\ pc = "fetch" => \E digest \in Nat : WasConfig(c, digest, t + a)'
       /\ Fresh(configAge) => WasConfig(b, d, g + 2 * t)'
  BY <1>9, <1>10, <1>11, <1>12 DEF CurrentInv
<1> QED
  BY <1>1, <1>6, <1>7, <1>10, <1>12, <1>13 DEF CurrentInv, WasConfig, Current, Fresh

LEMMA CurrentTicks ==
  ASSUME CacheInv, CurrentInv, Tick
  PROVE  CurrentInv'
<1>1. /\ Asking => asked < Timeout
      /\ asked' = IF Asking THEN asked + 1 ELSE asked
      /\ configAge' = Older(configAge)
      /\ past' = {[p EXCEPT !.age = @ + 1] : p \in {q \in past : q.age < Horizon}}
      /\ UNCHANGED <<blocks, feed, config, pc, changedIn, reply>>
  BY DEF Tick, chain
<1>2. /\ TTL \in Nat /\ Timeout \in Nat /\ Never = TTL + 1 /\ Horizon = TTL + 2 * Timeout
      /\ asked \in 0 .. Timeout /\ configAge \in 0 .. Never
      /\ past \subseteq [state : States, age : Nat]
  BY CacheAssumption DEF CacheInv, CacheTypeOK, RecentInv, Never, Horizon
<1>3. ASSUME NEW p \in past, p.age < Horizon
      PROVE  \E q \in past' : q.age = p.age + 1 /\ q.state = p.state
  <2> DEFINE q == [p EXCEPT !.age = @ + 1]
  <2>1. q.age = p.age + 1 /\ q.state = p.state
    BY <1>2
  <2> QED
    BY <1>1, <1>3, <2>1
<1>4. \A q \in past' : \E p \in past : q.state = p.state
  BY <1>1, <1>2
<1>5. ASSUME NEW b, NEW d, NEW l \in Nat, l < Horizon, WasConfig(b, d, l)
      PROVE  WasConfig(b, d, l + 1)'
  <2>1. CASE feed.block = b /\ feed.digest = d
    BY <1>1, <2>1 DEF WasConfig
  <2>2. ASSUME NEW p \in past, p.age <= l, p.state.block = b, p.state.digest = d
        PROVE  WasConfig(b, d, l + 1)'
    <3>1. p.age \in Nat /\ p.age < Horizon
      BY <1>2, <1>5, <2>2
    <3>2. PICK q \in past' : q.age = p.age + 1 /\ q.state = p.state
      BY <1>3, <3>1
    <3> QED
      BY <2>2, <3>1, <3>2 DEF WasConfig
  <2> QED
    BY <1>5, <2>1, <2>2 DEF WasConfig
<1>6. PICK a \in Nat, g \in Nat : a = asked /\ g = configAge
  BY <1>2
<1>7. PICK b \in {config.block}, d \in {config.digest}, c \in {changedIn},
           rb \in {reply.block}, rd \in {reply.digest} : TRUE
  OBVIOUS
<1>8. ASSUME pc = "details", reply.status = "ok" PROVE asked' = a + 1 /\ WasConfig(rb, rd, a + 1)'
  <2>1. Asking /\ a < Horizon
    BY <1>1, <1>2, <1>6, <1>8 DEF Asking
  <2> QED
    BY <1>1, <1>5, <1>6, <1>7, <1>8, <2>1 DEF CurrentInv
<1>9. ASSUME pc = "fetch"
      PROVE  asked' = a + 1 /\ \E digest \in Nat : WasConfig(c, digest, Timeout + (a + 1))'
  <2>1. Asking /\ Timeout + a < Horizon /\ Timeout + a \in Nat
        /\ (Timeout + a) + 1 = Timeout + (a + 1)
    BY <1>1, <1>2, <1>6, <1>9 DEF Asking
  <2> QED
    BY <1>1, <1>5, <1>6, <1>7, <1>9, <2>1 DEF CurrentInv
<1>10. ASSUME Fresh(configAge')
       PROVE  configAge' = g + 1 /\ WasConfig(b, d, g + 1 + 2 * Timeout)'
  <2>1. /\ configAge' = g + 1 /\ Fresh(configAge)
        /\ g + 2 * Timeout < Horizon /\ g + 2 * Timeout \in Nat
        /\ (g + 2 * Timeout) + 1 = g + 1 + 2 * Timeout
    BY <1>1, <1>2, <1>6, <1>10 DEF Fresh, Older
  <2> QED
    BY <1>5, <1>6, <1>7, <1>10, <2>1 DEF CurrentInv
<1>11. Current(feed)' /\ \A p \in past' : Current(p.state)'
  BY <1>1, <1>4 DEF CurrentInv, Current, Height
<1> QED
  BY <1>1, <1>7, <1>8, <1>9, <1>10, <1>11 DEF CurrentInv, WasConfig

LEMMA CurrentReplies ==
  ASSUME CacheInv, CurrentInv, Answer \/ AnswerFails
  PROVE  CurrentInv'
<1>1. /\ reply' \in {Query, Error}
      /\ UNCHANGED <<blocks, feed, past, config, configAge, pc, changedIn, asked>>
  BY DEF Answer, AnswerFails, chain, cache, Error
<1>2. pc = "details" => Query = [status |-> "ok", block |-> feed.block, digest |-> feed.digest]
  BY DEF Query, QueryDetails
<1> QED
  BY <1>1, <1>2 DEF CurrentInv, Current, WasConfig, Height, Fresh, Error

\* What a step leaves that asks for what comes next.
LEMMA CurrentAsking ==
  ASSUME CacheInv, CurrentInv, NEW next, Ask(next), UNCHANGED <<blocks, feed, past>>,
         next = "fetch" => \E digest \in Nat : WasConfig(changedIn', digest, Timeout),
         Fresh(configAge') => WasConfig(config'.block, config'.digest, configAge' + 2 * Timeout)
  PROVE  CurrentInv'
<1>1. pc' = next /\ reply' = NoReply /\ asked' = 0 /\ Timeout + 0 = Timeout
  BY CacheAssumption DEF Ask
<1> QED
  BY <1>1 DEF CurrentInv, Current, WasConfig, Height, Fresh, NoReply

LEMMA CurrentPolls ==
  ASSUME CacheInv, CurrentInv, Update
  PROVE  CurrentInv'
<1>1. /\ Timeout \in Nat /\ asked \in 0 .. Timeout /\ past \subseteq [state : States, age : Nat]
      /\ feed \in States
  BY CacheAssumption DEF CacheInv, CacheTypeOK, RecentInv, ChainInv
<1>2. ASSUME NEW b, NEW d, NEW l \in Nat, NEW k \in Nat, l <= k, WasConfig(b, d, l)
      PROVE  WasConfig(b, d, k)
  BY <1>1, <1>2 DEF WasConfig
<1>3. Fresh(configAge) => WasConfig(config.block, config.digest, configAge + 2 * Timeout)
  BY DEF CurrentInv
<1>4. ASSUME ReceiveDetails PROVE CurrentInv'
  <2>1. pc = "details" /\ reply # NoReply /\ UNCHANGED <<blocks, feed, past, config>>
    BY <1>4 DEF ReceiveDetails, Replied, chain
  <2>2. CASE AfterConfig /\ UNCHANGED configAge
    <3>1. PICK next \in {"wait", "done", "trans"} : Ask(next)
      BY <2>2 DEF AfterConfig
    <3> QED
      BY <1>3, <2>1, <2>2, <3>1, CurrentAsking
  <2>3. CASE reply.status = "ok" /\ Same /\ configAge' = 0 /\ AfterConfig
    <3>1. PICK next \in {"wait", "done", "trans"} : Ask(next)
      BY <2>3 DEF AfterConfig
    <3>2. WasConfig(config.block, config.digest, asked)
      BY <2>1, <2>3 DEF CurrentInv, Same
    <3>3. asked <= 2 * Timeout /\ asked \in Nat /\ 2 * Timeout \in Nat /\ 0 + 2 * Timeout = 2 * Timeout
      BY <1>1
    <3>4. WasConfig(config.block, config.digest, 2 * Timeout)
      BY <1>2, <3>2, <3>3
    <3> QED
      BY <2>1, <2>3, <3>1, <3>3, <3>4, CurrentAsking
  <2>4. CASE reply.status = "ok" /\ changedIn' = reply.block /\ Ask("fetch") /\ UNCHANGED configAge
    <3>1. reply.digest \in Nat
      BY <2>1, <2>4 DEF CacheInv, CacheTypeOK, ReplyTypeOK, Error
    <3>2. WasConfig(reply.block, reply.digest, asked)
      BY <2>1, <2>4 DEF CurrentInv
    <3>3. WasConfig(reply.block, reply.digest, Timeout)
      BY <1>1, <1>2, <3>2
    <3> QED
      BY <1>3, <2>1, <2>4, <3>1, <3>3, CurrentAsking
  <2> QED
    BY <1>4, <2>2, <2>3, <2>4 DEF ReceiveDetails
<1>5. ASSUME ReceiveConfig PROVE CurrentInv'
  <2>1. pc = "fetch" /\ reply # NoReply /\ UNCHANGED <<blocks, feed, past>> /\ AfterConfig
    BY <1>5 DEF ReceiveConfig, Replied, chain
  <2>2. PICK next \in {"wait", "done", "trans"} : Ask(next)
    BY <2>1 DEF AfterConfig
  <2>3. CASE UNCHANGED <<config, configAge>>
    BY <1>3, <2>1, <2>2, <2>3, CurrentAsking
  <2>4. CASE /\ reply.status = "ok" /\ configAge' = 0
             /\ config' = [block |-> changedIn, digest |-> reply.digest]
    <3>1. /\ reply \in [status : {"ok"}, digest : Nat]
          /\ changedIn # 0 /\ reply = ConfigIn(blocks[changedIn])
      BY <2>1, <2>4 DEF CacheInv, CacheTypeOK, ReplyTypeOK, ConfigInv, Error
    <3>2. PICK digest \in Nat : WasConfig(changedIn, digest, Timeout + asked)
      BY <2>1 DEF CurrentInv
    <3>3. PICK state \in States : Current(state) /\ state.block = changedIn /\ state.digest = digest
      BY <1>1, <3>2 DEF CurrentInv, WasConfig
    <3>4. reply.digest = digest
      BY <3>1, <3>3 DEF Current, Error
    <3>5. /\ Timeout + asked <= 2 * Timeout /\ Timeout + asked \in Nat /\ 2 * Timeout \in Nat
          /\ 0 + 2 * Timeout = 2 * Timeout
      BY <1>1
    <3>6. WasConfig(changedIn, digest, 2 * Timeout)
      BY <1>2, <3>2, <3>5
    <3> QED
      BY <2>1, <2>2, <2>4, <3>4, <3>5, <3>6, CurrentAsking
  <2> QED
    BY <1>5, <2>3, <2>4 DEF ReceiveConfig
<1>6. ASSUME ReceiveTransmission \/ ReceiveEpoch \/ Poll PROVE CurrentInv'
  <2>1. UNCHANGED <<blocks, feed, past, config, configAge>>
    BY <1>6 DEF ReceiveTransmission, ReceiveEpoch, Poll, chain, cache
  <2>2. PICK next \in {"wait", "epoch", "details", "done"} : Ask(next)
    BY <1>6 DEF ReceiveTransmission, ReceiveEpoch, Poll
  <2> QED
    BY <1>3, <2>1, <2>2, CurrentAsking
<1> QED
  BY <1>4, <1>5, <1>6 DEF Update

LEMMA CurrentStep ==
  ASSUME \A block \in Starts \cup Blocks : Findable(block), CacheInv, CurrentInv, [Next]_vars
  PROVE  CurrentInv'
<1>1. CASE Answer \/ AnswerFails
  BY <1>1, CurrentReplies
<1>2. ASSUME NEW block \in Blocks, Grow(block) PROVE CurrentInv'
  BY <1>2, CurrentGrows
<1>3. CASE Tick
  BY <1>3, CurrentTicks
<1>4. CASE Update
  BY <1>4, CurrentPolls
<1>5. CASE Close \/ Read \/ UNCHANGED vars
  <2>1. UNCHANGED <<blocks, feed, past, config, configAge, pc, changedIn, reply, asked>>
    BY <1>5 DEF Close, Read, ReadDetails, ReadConfig, vars, chain, cache, poller
  <2> QED
    BY <2>1 DEF CurrentInv, Current, WasConfig, Height, Fresh
<1> QED
  BY <1>1, <1>2, <1>3, <1>4, <1>5 DEF Next
-----------------------------------------------------------------------------
(* Theorems *)

\* The variables of the cache and its poller keep their types: in particular
\* no request outlives its timeout, and no block is asked for that the chain
\* has not got (NewContractCache, poll, checkTS).
THEOREM TypeCorrect == Spec => []TypeOK
<1>1. CacheInv => TypeOK
  <2> SUFFICES ASSUME CacheInv PROVE TypeOK
    OBVIOUS
  <2>1. Height \in 0 .. MaxHeight /\ MaxHeight \in Nat
    BY ChainAssumption DEF CacheInv, ChainInv
  <2>2. config.block \in 0 .. MaxHeight /\ changedIn \in 0 .. MaxHeight
    BY <2>1, StoredIs DEF Pairs
  <2> QED
    BY <2>2 DEF CacheInv, CacheTypeOK, TypeOK, Pairs, Values, Places
<1> QED
  BY CacheInvariant, <1>1, PTL

\* What readers get as the latest configuration, block and digest, was that
\* together at one moment not longer ago than the TTL and two requests, for
\* every TTL and timeout, however polls fail and whatever is accepted between
\* the two requests, if blocks are such that LatestConfig finds this feed's
\* configuration or none (updateConfig, checkTS).
THEOREM ServesRecentConfig ==
  ASSUME \A block \in Starts \cup Blocks : Findable(block)
  PROVE  Spec => []ConfigServedIsRecent
<1>1. Init => CurrentInv
  BY CurrentInit
<1>2. CacheInv /\ CurrentInv /\ [Next]_vars => CurrentInv'
  BY CurrentStep
<1>3. CacheInv /\ CurrentInv => ConfigServedIsRecent
  <2> SUFFICES ASSUME CacheInv, CurrentInv, Fresh(configAge)
               PROVE  Lately(LAMBDA s : s.block = config.block /\ s.digest = config.digest,
                             TTL + 2 * Timeout)
    BY DEF ConfigServedIsRecent
  <2>1. configAge \in Nat /\ configAge <= TTL /\ TTL \in Nat /\ Timeout \in Nat
    BY CacheAssumption, StoredIs DEF Fresh, Never
  <2>2. \A p \in past : /\ p.age \in Nat
                        /\ p.age <= configAge + 2 * Timeout => p.age <= TTL + 2 * Timeout
    BY <2>1 DEF CacheInv, RecentInv
  <2> QED
    BY <2>2 DEF CurrentInv, WasConfig, Lately
<1> QED
  BY CacheInvariant, <1>1, <1>2, <1>3, PTL DEF Spec

\* The configuration a reader gets for a block has the digest it was told with
\* that block, whatever was stored in between: what is stored for a block is
\* what its transactions say, and they stay (LatestConfigDetails,
\* LatestConfig, updateConfig).
THEOREM ServesTheOneTold == Spec => []ConfigServedIsTheOneTold
<1>1. CacheInv => ConfigServedIsTheOneTold
  <2> SUFFICES ASSUME CacheInv, told # Nothing, config.block = told.block
               PROVE  config.digest = told.digest
    BY DEF ConfigServedIsTheOneTold, ConfigServed
  <2>1. Stored(config) /\ Stored(told)
    BY DEF CacheInv, ConfigInv
  <2> QED
    BY <2>1 DEF Stored
<1> QED
  BY CacheInvariant, <1>1, PTL

\* What readers get as the latest transmission belonged together at one moment
\* not longer ago than the TTL and a request, or there was no transmission and
\* digest and epoch are of a request later: for every TTL and timeout, however
\* polls fail and the chain grows (LatestTransmissionDetails,
\* updateTransmission).
THEOREM ServesRecentTransmission == Spec => []TransmissionServedIsRecent
<1>1. CacheInv => TransmissionServedIsRecent
  <2> SUFFICES ASSUME CacheInv, Fresh(transAge)
               PROVE  \/ Lately(LAMBDA s : Details(s) = trans, TTL + Timeout)
                      \/ /\ trans.answer = 0 /\ trans.round = 0
                         /\ Lately(LAMBDA s : s.answer = 0, TTL + 2 * Timeout)
                         /\ Lately(LAMBDA s : s.digest = trans.digest /\ s.epoch = trans.epoch,
                                   TTL + Timeout)
    BY DEF TransmissionServedIsRecent
  <2>1. transAge \in Nat /\ transAge <= TTL /\ TTL \in Nat /\ Timeout \in Nat
    BY CacheAssumption, StoredIs DEF Fresh, Never
  <2>2. \A p \in past : /\ p.age \in Nat
                        /\ p.age <= transAge + Timeout => p.age <= TTL + Timeout
                        /\ p.age <= transAge + 2 * Timeout => p.age <= TTL + 2 * Timeout
    BY <2>1 DEF CacheInv, RecentInv
  <2>3. CASE Was(trans, transAge + Timeout)
    BY <2>2, <2>3 DEF Was, Lately
  <2>4. CASE WasEpochOnly(trans, transAge + 2 * Timeout, transAge + Timeout)
    BY <2>2, <2>4 DEF WasEpochOnly, WasUnanswered, WasInEpoch, Lately
  <2> QED
    BY <2>3, <2>4, StoredIs
<1> QED
  BY CacheInvariant, <1>1, PTL

\* What is stored never goes back, to an earlier configuration or to an
\* earlier epoch or answer of one: the poller's answers are no older than what
\* it stored when it asked (updateConfig, updateTransmission).
THEOREM StoredNeverGoesBack == Spec => NeverBack
<1>1. CacheInv /\ [Next]_vars =>
        [/\ config'.block >= config.block
         /\ trans'.digest >= trans.digest
         /\ trans'.digest = trans.digest =>
              trans'.epoch >= trans.epoch /\ trans'.answer >= trans.answer]_vars
  <2> SUFFICES ASSUME CacheInv, [Next]_vars
               PROVE  /\ config'.block >= config.block
                      /\ trans'.digest >= trans.digest
                      /\ trans'.digest = trans.digest =>
                           trans'.epoch >= trans.epoch /\ trans'.answer >= trans.answer
    OBVIOUS
  <2>1. config'.block >= config.block /\ Precedes(trans, trans') /\ CacheInv'
    BY CacheStep
  <2>2. trans \in Values /\ trans' \in Values
    BY <2>1 DEF CacheInv, CacheTypeOK
  <2> QED
    BY <2>1, <2>2 DEF Precedes, Values
<1> QED
  BY CacheInvariant, <1>1, PTL DEF Spec, NeverBack
=============================================================================
