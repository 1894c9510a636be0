------------------------------ MODULE FlagFeed ------------------------------
(***************************************************************************)
(* The flag of a feed: an aggregator reports each round to its validator   *)
(* in a sub-message, the deviation flagging validator has the flags        *)
(* contract raise a flag when the answer moved too far, an access          *)
(* controller decides who may raise it and another who may lower it        *)
(* (contracts/deviation-flagging-validator, flags, access-controller).     *)
(*                                                                         *)
(* The access controllers and the validator keep the owner they were made  *)
(* with; the flags contract does not. A call that reverts is no step.      *)
(***************************************************************************)
EXTENDS Integers

CONSTANTS
  Feed, Validator, Owner, Successor, Monitor, Stranger, Nobody,   \* accounts
  Flags, OtherFlags,       \* addresses the validator may send to
  Controllers,             \* access controllers for raising
  FirstController,         \* the one of instantiation
  Lowering,                \* accounts the lowering access controller lets in
  Answers,                 \* answers of the feed
  AnswerBits,              \* width of an answer: 128 in the code
  Multiplier,              \* THRESHOLD_MULTIPLIER: 100000 in the code
  Thresholds,              \* flagging thresholds
  FirstThreshold,          \* the one of instantiation
  MaxRounds                \* bound: rounds of the feed

VARIABLES
  flagsOwner, proposedFlagsOwner,
  raisingAC,         \* raising_access_controller of the flags contract
  raised,            \* FLAGS: the accounts whose flag is up
  access,            \* ACCESS of each access controller
  rule,              \* CONFIG of the validator: [flags, threshold]
  feed,              \* [round, answer, wired]: wired to the validator, or not
  due                \* history: why the feed's flag is due, since it was lowered

flagVars == <<flagsOwner, proposedFlagsOwner, raisingAC, raised, access, rule, feed, due>>
owning == <<flagsOwner, proposedFlagsOwner>>

Auth == INSTANCE Owned WITH
  Accounts <- {Owner, Successor}, owner <- flagsOwner, proposedOwner <- proposedFlagsOwner

Callers == {Owner, Successor, Monitor, Stranger}

Init ==
  /\ Auth!Initialize(Owner)
  /\ raisingAC = FirstController
  /\ raised = {}
  /\ access = [ac \in Controllers |-> {}]
  /\ rule = [flags |-> Flags, threshold |-> FirstThreshold]
  /\ feed = [round |-> 0, answer |-> 0, wired |-> FALSE]
  /\ due = {}
-----------------------------------------------------------------------------
(* Access controller *)

AddAccess(ac, who) ==
  /\ access' = [access EXCEPT ![ac] = @ \cup {who}]
  /\ UNCHANGED <<owning, raisingAC, raised, rule, feed, due>>

RemoveAccess(ac, who) ==
  /\ access' = [access EXCEPT ![ac] = @ \ {who}]
  /\ UNCHANGED <<owning, raisingAC, raised, rule, feed, due>>
-----------------------------------------------------------------------------
(* Flags *)

\* check_access
MayRaise(who) == Auth!IsOwner(who) \/ who \in access[raisingAC]
MayLower(who) == Auth!IsOwner(who) \/ who \in Lowering

\* raise_flag and raise_flags: a flag that is up stays up.
RaiseFlags(who, subjects) ==
  /\ MayRaise(who)
  /\ raised' = raised \cup subjects
  /\ due' = IF Feed \in subjects THEN due \cup {"asked for"} ELSE due
  /\ UNCHANGED <<owning, raisingAC, access, rule, feed>>

LowerFlags(who, subjects) ==
  /\ MayLower(who)
  /\ raised' = raised \ subjects
  /\ due' = IF Feed \in subjects THEN {} ELSE due
  /\ UNCHANGED <<owning, raisingAC, access, rule, feed>>

SetRaisingAccessController(who, ac) ==
  /\ Auth!IsOwner(who)
  /\ raisingAC' = ac
  /\ UNCHANGED <<owning, raised, access, rule, feed, due>>

ChangeOwner(who) ==
  /\ \/ \E to \in {Owner, Successor} : Auth!TransferOwnership(who, to)
     \/ Auth!AcceptOwnership(who)
  /\ UNCHANGED <<raisingAC, raised, access, rule, feed, due>>
-----------------------------------------------------------------------------
(* Deviation flagging validator *)

Modulus == 2 ^ AnswerBits            \* of u128; answers are half of it, signed
Abs(n) == IF n < 0 THEN -n ELSE n

\* abs_diff: as u128, wrapping_sub.
AbsDiff(a, b) ==
  IF a < b THEN ((b % Modulus) - (a % Modulus)) % Modulus
  ELSE ((a % Modulus) - (b % Modulus)) % Modulus

\* Mutant: the difference is taken of the magnitudes.
ValidByMagnitude(threshold, previous, answer) ==
  LET change == Abs(Abs(answer) - Abs(previous)) IN
  \/ previous = 0
  \/ /\ change * Multiplier < Modulus
     /\ (change * Multiplier) \div Abs(previous) <= threshold

\* is_valid; a change too large to multiply is not valid.
IsValid(threshold, previous, answer) ==
  LET change == AbsDiff(previous, answer) IN
  \/ previous = 0
  \/ /\ change * Multiplier < Modulus
     /\ (change * Multiplier) \div Abs(previous) <= threshold

\* The flags contract takes what the validator sends it.
Reaches == rule.flags = Flags /\ MayRaise(Validator)

\* execute_validate, and the message it sends; it reverts with that message.
Validate(who, previous, answer) ==
  /\ ~IsValid(rule.threshold, previous, answer) /\ Reaches
  /\ raised' = raised \cup {who}
  /\ UNCHANGED <<owning, raisingAC, access, rule, feed, due>>

SetFlagsAddress(flags) ==
  /\ rule' = [rule EXCEPT !.flags = flags]
  /\ UNCHANGED <<owning, raisingAC, raised, access, feed, due>>

SetFlaggingThreshold(threshold) ==
  /\ rule' = [rule EXCEPT !.threshold = threshold]
  /\ UNCHANGED <<owning, raisingAC, raised, access, feed, due>>
-----------------------------------------------------------------------------
(* Aggregator *)

\* How far an answer moved, by the numbers themselves. The code rounds the
\* ratio down to a whole part of Multiplier.
Exceeds(previous, answer) ==
  previous # 0 /\ Multiplier * Abs(answer - previous) >= (rule.threshold + 1) * Abs(previous)
TooLarge(previous, answer) == Multiplier * Abs(answer - previous) >= Modulus

\* report, with the sub-message of validate_answer, which may run out of gas;
\* reply lets its failure pass. There is no answer before the first round.
Transmit(answer, gas) ==
  LET asked == feed.wired /\ feed.round > 0
      reasons == (IF Exceeds(feed.answer, answer) THEN {"exceeds"} ELSE {})
                   \cup (IF TooLarge(feed.answer, answer) THEN {"too large"} ELSE {})
      flagged == asked /\ gas /\ ~IsValid(rule.threshold, feed.answer, answer) /\ Reaches
  IN
  /\ feed.round < MaxRounds            \* bound
  /\ feed' = [feed EXCEPT !.round = @ + 1, !.answer = answer]
  /\ raised' = IF flagged THEN raised \cup {Feed} ELSE raised
  /\ due' = IF asked /\ gas /\ Reaches THEN due \cup reasons ELSE due
  /\ UNCHANGED <<owning, raisingAC, access, rule>>

\* set_validator_config
SetValidator(wired) ==
  /\ feed' = [feed EXCEPT !.wired = wired]
  /\ UNCHANGED <<owning, raisingAC, raised, access, rule, due>>

Next ==
  \/ \E ac \in Controllers :
       \/ AddAccess(ac, Validator)
       \/ RemoveAccess(ac, Validator)
  \/ \E who \in Callers :
       \/ \E subjects \in {{Feed}, {Feed, Stranger}} :
            RaiseFlags(who, subjects) \/ LowerFlags(who, subjects)
       \/ \E ac \in Controllers : SetRaisingAccessController(who, ac)
       \/ ChangeOwner(who)
  \/ \E previous, answer \in Answers : Validate(Stranger, previous, answer)
  \/ \E flags \in {Flags, OtherFlags} : SetFlagsAddress(flags)
  \/ \E threshold \in Thresholds : SetFlaggingThreshold(threshold)
  \/ \E answer \in Answers, gas \in BOOLEAN : Transmit(answer, gas)
  \/ \E wired \in BOOLEAN : SetValidator(wired)

Spec == Init /\ [][Next]_flagVars
-----------------------------------------------------------------------------
(* Properties *)

\* The flag tells the truth of the answers: it is up while an answer that
\* moved by more than the threshold has not been lowered since, if the
\* validator could raise it when that answer came, whoever owned what before
\* and after; and it is up for no other reason than such an answer, a change
\* too large for the arithmetic, or somebody who may raise it. In particular
\* what strangers have validated raises their flags only.
FlagTellsDeviation ==
  /\ "exceeds" \in due => Feed \in raised
  /\ Feed \in raised => due # {}
=============================================================================
