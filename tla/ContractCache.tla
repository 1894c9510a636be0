--------------------------- MODULE ContractCache ---------------------------
(***************************************************************************)
(* The contract cache of the relay (adapters/cosmwasm): one goroutine polls *)
(* the aggregator for its configuration and transmission, through          *)
(* OCR2Reader; the OCR library reads what was stored, unless it is too old. *)
(*                                                                         *)
(* A request is sent, answered by the node at some moment, and received;   *)
(* the chain moves in between. Time is measured in ticks, as the age of    *)
(* what was stored, asked for or superseded.                               *)
(*                                                                         *)
(* The poll period and its jitter are left out: a poll may begin whenever  *)
(* the last is over.                                                       *)
(***************************************************************************)
EXTENDS FeedChain

CONSTANTS
  TTL,               \* OCR2CacheTTL
  Timeout,           \* the timeout of the client's requests
  MaxFaults          \* bound: failed requests

ASSUME CacheAssumption == TTL \in Nat /\ Timeout \in Nat

VARIABLES
  (* ContractCache *)
  config,            \* [block, digest]: configBlock and config
  configAge,         \* since configTS
  trans,             \* [digest, epoch, round, answer]
  transAge,          \* since transTS
  stopped,           \* stop is closed
  (* the goroutine that updates *)
  pc,
  changedIn,         \* changedInBlock of updateConfig
  reply,             \* the node's answer to the request under way
  asked,             \* since the request was sent
  polling,           \* Start is over, poll runs
  (* a reader, in the OCR library *)
  told,              \* block and digest a reader was given, until it asks for more
  (* environment and history *)
  faults,
  past               \* what the feed was before, and for how long not any more

cache == <<config, configAge, trans, transAge, stopped>>
poller == <<pc, changedIn, reply, asked, polling>>
vars == <<chain, cache, poller, told, faults, past>>

\* Ages are counted up to where nothing depends on them any more.
Never == TTL + 1
Older(age) == IF age < Never THEN age + 1 ELSE age
Horizon == TTL + 2 * Timeout

None == [digest |-> 0, epoch |-> 0, round |-> 0, answer |-> 0]
Details(state) ==
  [digest |-> state.digest, epoch |-> state.epoch, round |-> state.round,
   answer |-> state.answer]
NoReply == [status |-> "none"]
Nothing == [block |-> 0, digest |-> Foreign]

Init ==
  /\ ChainInit
  /\ config = [block |-> 0, digest |-> 0] /\ configAge = Never
  /\ trans = None /\ transAge = Never
  /\ stopped = FALSE
  /\ pc = "details" /\ changedIn = 0 /\ reply = NoReply /\ asked = 0 /\ polling = FALSE
  /\ told = Nothing
  /\ faults = 0 /\ past = {}
-----------------------------------------------------------------------------
(* The node *)

Asking == pc \in {"details", "fetch", "trans", "epoch"}

\* The transactions found whose first message has a configuration event.
Configurations(height) ==
  {i \in DOMAIN blocks[height] : /\ IsOurs(blocks[height][i])
                                 /\ blocks[height][i][1].kind \in {"config", "otherConfig"}}

\* The requests of OCR2Reader. LatestConfig takes the first, in descending
\* order, and finds no transaction at block 0.
QueryDetails == [status |-> "ok", block |-> feed.block, digest |-> feed.digest]

ConfigAt(height) ==
  IF height = 0 \/ Configurations(height) = {} THEN [status |-> "error"]
  ELSE [status |-> "ok", digest |-> blocks[height][Max(Configurations(height))][1].state.digest]

\* The contract has no details before the first transmission: the digest and
\* the epoch are asked for then.
QueryTransmission ==
  IF feed.answer = 0 THEN [status |-> "notFound"] ELSE [status |-> "ok", value |-> Details(feed)]

QueryEpoch ==
  [status |-> "ok", value |-> [None EXCEPT !.digest = feed.digest, !.epoch = feed.epoch]]

Query ==
  CASE pc = "details" -> QueryDetails
    [] pc = "fetch" -> ConfigAt(changedIn)
    [] pc = "trans" -> QueryTransmission
    [] pc = "epoch" -> QueryEpoch

Answer ==
  /\ Asking /\ reply = NoReply
  /\ reply' = Query
  /\ UNCHANGED <<chain, cache, pc, changedIn, asked, polling, told, faults, past>>

AnswerFails ==
  /\ Asking /\ reply = NoReply
  /\ faults < MaxFaults                      \* bound
  /\ faults' = faults + 1
  /\ reply' = [status |-> "error"]
  /\ UNCHANGED <<chain, cache, pc, changedIn, asked, polling, told, past>>

Grow(block) ==
  /\ Commit(block)
  /\ past' = IF feed' = feed THEN past ELSE past \cup {[state |-> feed, age |-> 0]}
  /\ UNCHANGED <<cache, poller, told, faults>>

\* Mutant: requests have no timeout.
TickOn ==
  /\ asked' = IF Asking THEN asked + 1 ELSE asked
  /\ configAge' = Older(configAge) /\ transAge' = Older(transAge)
  /\ UNCHANGED <<chain, config, trans, stopped, pc, changedIn, reply, polling, told, faults, past>>

\* A request is over when its timeout is.
Tick ==
  /\ Asking => asked < Timeout
  /\ asked' = IF Asking THEN asked + 1 ELSE asked
  /\ configAge' = Older(configAge) /\ transAge' = Older(transAge)
  /\ past' = {[p EXCEPT !.age = @ + 1] : p \in {q \in past : q.age < Horizon}}
  /\ UNCHANGED <<chain, config, trans, stopped, pc, changedIn, reply, polling, told, faults>>
-----------------------------------------------------------------------------
(* updateConfig, updateTransmission, poll *)

Ask(next) == pc' = next /\ reply' = NoReply /\ asked' = 0

\* The end of updateConfig: in Start poll begins; in poll the transmission
\* is next, unless the cache was closed.
AfterConfig ==
  /\ Ask(IF ~polling THEN "wait" ELSE IF stopped THEN "done" ELSE "trans")
  /\ polling' = TRUE

Replied(at) == pc = at /\ reply # NoReply

Same == config.block = reply.block /\ config.digest = reply.digest

\* Mutant: the age is reset although nothing was learned.
RefreshAnyway ==
  /\ Replied("details")
  /\ \/ /\ reply.status = "error" \/ stopped \/ Same
        /\ configAge' = 0
        /\ AfterConfig
        /\ UNCHANGED changedIn
     \/ /\ reply.status = "ok" /\ ~stopped /\ ~Same
        /\ changedIn' = reply.block
        /\ Ask("fetch")
        /\ UNCHANGED <<configAge, polling>>
  /\ UNCHANGED <<chain, config, trans, transAge, stopped, told, faults, past>>

\* The age is reset when nothing changed; else the configuration is fetched
\* from the block it changed in.
ReceiveDetails ==
  /\ Replied("details")
  /\ \/ /\ reply.status = "error" \/ stopped
        /\ AfterConfig
        /\ UNCHANGED <<configAge, changedIn>>
     \/ /\ reply.status = "ok" /\ ~stopped /\ Same
        /\ configAge' = 0
        /\ AfterConfig
        /\ UNCHANGED changedIn
     \/ /\ reply.status = "ok" /\ ~stopped /\ ~Same
        /\ changedIn' = reply.block
        /\ Ask("fetch")
        /\ UNCHANGED <<configAge, polling>>
  /\ UNCHANGED <<chain, config, trans, transAge, stopped, told, faults, past>>

\* What was fetched is stored even when the cache was closed meanwhile.
ReceiveConfig ==
  /\ Replied("fetch")
  /\ \/ /\ reply.status = "ok"
        /\ config' = [block |-> changedIn, digest |-> reply.digest]
        /\ configAge' = 0
     \/ reply.status = "error" /\ UNCHANGED <<config, configAge>>
  /\ AfterConfig
  /\ changedIn' = 0
  /\ UNCHANGED <<chain, trans, transAge, stopped, told, faults, past>>

Store(value) == trans' = value /\ transAge' = 0

\* Mutant: any error is taken for a feed without transmissions.
FallBackOnError ==
  /\ Replied("trans")
  /\ \/ reply.status = "ok" /\ Store(reply.value) /\ Ask("wait")
     \/ reply.status # "ok" /\ UNCHANGED <<trans, transAge>> /\ Ask("epoch")
  /\ UNCHANGED <<chain, config, configAge, stopped, changedIn, polling, told, faults, past>>

\* Mutant: the zero values that come with an error are stored.
StoreDefault ==
  /\ Replied("trans")
  /\ \/ reply.status = "ok" /\ Store(reply.value) /\ Ask("wait")
     \/ reply.status = "notFound" /\ UNCHANGED <<trans, transAge>> /\ Ask("epoch")
     \/ reply.status = "error" /\ Store(None) /\ Ask("wait")
  /\ UNCHANGED <<chain, config, configAge, stopped, changedIn, polling, told, faults, past>>

ReceiveTransmission ==
  /\ Replied("trans")
  /\ \/ reply.status = "ok" /\ Store(reply.value) /\ Ask("wait")
     \/ reply.status = "notFound" /\ UNCHANGED <<trans, transAge>> /\ Ask("epoch")
     \/ reply.status = "error" /\ UNCHANGED <<trans, transAge>> /\ Ask("wait")
  /\ UNCHANGED <<chain, config, configAge, stopped, changedIn, polling, told, faults, past>>

\* No transmission yet: round, answer and time are zero.
ReceiveEpoch ==
  /\ Replied("epoch")
  /\ \/ reply.status = "ok" /\ Store(reply.value)
     \/ reply.status = "error" /\ UNCHANGED <<trans, transAge>>
  /\ Ask("wait")
  /\ UNCHANGED <<chain, config, configAge, stopped, changedIn, polling, told, faults, past>>

\* Mutant: poll gives up when there is no configuration to refresh.
PollIfInitialized ==
  /\ pc = "wait"
  /\ Ask(IF stopped \/ configAge = Never THEN "done" ELSE "details")
  /\ UNCHANGED <<chain, cache, changedIn, polling, told, faults, past>>

Poll ==
  /\ pc = "wait"
  /\ \/ Ask("details")
     \/ stopped /\ Ask("done")
  /\ UNCHANGED <<chain, cache, changedIn, polling, told, faults, past>>

\* Close waits a second at most for the goroutine: it may run on.
Close ==
  /\ polling /\ ~stopped
  /\ stopped' = TRUE
  /\ UNCHANGED <<chain, config, configAge, trans, transAge, poller, told, faults, past>>
-----------------------------------------------------------------------------
(* A reader. What is stored is copied under the lock and its age checked    *)
(* after: between the two a copy only gets older, so one step stands for   *)
(* both. A call that is refused is no step; reads of the transmission      *)
(* change nothing here.                                                    *)

\* checkTS
Fresh(age) == age <= TTL

ReadDetails ==
  /\ told = Nothing
  /\ Fresh(configAge)
  /\ told' = config
  /\ UNCHANGED <<chain, cache, poller, faults, past>>

\* Mutant: the configuration of any block will do.
AnyConfig == Fresh(configAge)

\* LatestConfig(changedInBlock) of the cache succeeds.
ConfigServed == Fresh(configAge) /\ config.block = told.block

ReadConfig ==
  /\ told # Nothing
  /\ told' = Nothing
  /\ UNCHANGED <<chain, cache, poller, faults, past>>
-----------------------------------------------------------------------------
Update ==
  \/ ReceiveDetails \/ ReceiveConfig \/ ReceiveTransmission \/ ReceiveEpoch
  \/ Poll

Read == ReadDetails \/ ReadConfig

Next ==
  \/ Answer \/ AnswerFails
  \/ \E block \in Blocks : Grow(block)
  \/ Tick
  \/ Update
  \/ Close
  \/ Read

Spec == Init /\ [][Next]_vars /\ WF_vars(Answer) /\ WF_vars(Update)
-----------------------------------------------------------------------------
(* Properties *)

\* Blocks in which LatestConfig, which sees only the first message of a
\* transaction, finds the configuration they leave this feed with, or none.
Findable(block) ==
  \/ \A i \in DOMAIN block : \A m \in DOMAIN block[i] :
       m = 1 => block[i][m] \notin {"config", "otherConfig"}
  \/ \A i \in DOMAIN block : \A m \in DOMAIN block[i] :
       /\ block[i][m] = "config" => m = 1
       /\ block[i][m] \in Own => block[i][1] # "otherConfig"

TypeOK ==
  /\ config \in [block : 0 .. MaxHeight, digest : Nat]
  /\ configAge \in 0 .. Never /\ transAge \in 0 .. Never
  /\ trans \in [digest : Nat, epoch : Nat, round : Nat, answer : Nat]
  /\ pc \in {"details", "fetch", "trans", "epoch", "wait", "done"}
  /\ asked \in 0 .. Timeout
  /\ changedIn \in 0 .. MaxHeight

\* What the feed is, or was at most limit ticks ago, satisfies P.
Lately(P(_), limit) ==
  P(feed) \/ \E p \in past : p.age <= limit /\ P(p.state)

\* What readers are given as the latest configuration, block and digest, was
\* that together at one moment not longer ago than the TTL and two requests:
\* however polls fail or hang, and whatever is accepted between the request
\* for the details and the one for the configuration (updateConfig, checkTS).
ConfigServedIsRecent ==
  Fresh(configAge) =>
    Lately(LAMBDA s : s.block = config.block /\ s.digest = config.digest, TTL + 2 * Timeout)

\* The configuration a reader is given for a block is the one whose digest
\* it was told with that block, whatever was stored between the two calls.
ConfigServedIsTheOneTold ==
  told # Nothing /\ ConfigServed => config.digest = told.digest

\* Digest, epoch, round and answer readers are given belonged together not
\* longer ago than the TTL and one request; or there was no transmission
\* then, and digest and epoch are those of at most a request later.
TransmissionServedIsRecent ==
  Fresh(transAge) =>
    \/ Lately(LAMBDA s : Details(s) = trans, TTL + Timeout)
    \/ /\ trans.answer = 0 /\ trans.round = 0
       /\ Lately(LAMBDA s : s.answer = 0, TTL + 2 * Timeout)
       /\ Lately(LAMBDA s : s.digest = trans.digest /\ s.epoch = trans.epoch, TTL + Timeout)

\* What is stored never goes back: not to an earlier configuration, nor to
\* an earlier epoch or answer of one.
NeverBack ==
  [][/\ config'.block >= config.block
     /\ trans'.digest >= trans.digest
     /\ trans'.digest = trans.digest =>
          trans'.epoch >= trans.epoch /\ trans'.answer >= trans.answer]_vars

\* Polls that failed do not end polling: once the chain rests, the cache
\* has what the feed answers, unless it was closed, or the configuration is
\* not in the first message of its transaction.
Hidden == feed.block > 0 /\ Configurations(feed.block) = {}

EventuallyCurrent ==
  <>[](stopped \/ Hidden \/ /\ config = [block |-> feed.block, digest |-> feed.digest]
                            /\ trans = Details(feed))

\* "Use the first matching tx we find, since results are in descending
\* order" (LatestConfig): the configuration stored for a block is one this
\* feed accepted in it.
FirstMatchIsOurs ==
  config.block > 0 =>
    \E i \in DOMAIN blocks[config.block] : \E m \in DOMAIN blocks[config.block][i] :
      LET event == blocks[config.block][i][m] IN
      event.kind = "config" /\ event.state.digest = config.digest
=============================================================================
