---------------------------- MODULE Parts_proofs ----------------------------
(***************************************************************************)
(* Proofs about the keystore adapter, the flag and the proxy of a feed,    *)
(* the report and the configuration of an aggregator, and the simulation   *)
(* of a batch.                                                             *)
(***************************************************************************)
EXTENDS Parts, FiniteFolds

(* The keystore adapter: no assumption on its constants is needed. *)

Places == {"idle", "read", "lock", "accounts", "update", "returned"}
Results == {"none", "found", "no such id", "error", "signed", "refused"}

KeystoreTypeOK ==
  /\ accounts \subseteq Keys \cup NoKeys
  /\ mapped \subseteq Keys
  /\ caller \in [KeyUsers -> [at : Places, id : Keys \cup {Nobody},
                             listed : SUBSET (Keys \cup NoKeys), result : Results]]
  /\ absent \in [KeyUsers -> SUBSET Keys]
  /\ disturbed \subseteq KeyUsers

\* What a call has met so far is what its caller is told of.
CallSeesKeystore(p) ==
  caller[p].at # "idle" =>
    /\ caller[p].id \in Keys
    /\ Keys \ accounts \subseteq absent[p]
    /\ accounts \cap NoKeys # {} => p \in disturbed

\* The list a call is about to map has its key, if that stayed.
ListHasKey(p) ==
  caller[p].at = "update" =>
    /\ caller[p].id \notin absent[p] => caller[p].id \in caller[p].listed
    /\ caller[p].listed \cap NoKeys # {} => p \in disturbed

KeystoreInv ==
  /\ KeystoreTypeOK
  /\ \A p \in KeyUsers : CallSeesKeystore(p) /\ ListHasKey(p)
  /\ PresentKeySigns

\* p returns with a result and nothing else happens to the calls.
CallReturned(p, result) ==
  /\ caller' \in [KeyUsers -> [at : Places, id : Keys \cup {Nobody},
                              listed : SUBSET (Keys \cup NoKeys), result : Results]]
  /\ caller'[p].at = "returned" /\ caller'[p].result = result
  /\ caller'[p].id = caller[p].id /\ caller'[p].listed = caller[p].listed
  /\ \A q \in KeyUsers : q # p => caller'[q] = caller[q]

LEMMA ReturnsAre ==
  ASSUME KeystoreTypeOK, NEW p \in KeyUsers, NEW result \in Results, Adapter!Return(p, result)
  PROVE  CallReturned(p, result)
BY DEF KeystoreTypeOK, Adapter!Return, CallReturned, Places

LEMMA KeystoreInit == Adapter!Init => KeystoreInv
BY DEF Adapter!Init, Adapter!Idle, KeystoreInv, KeystoreTypeOK, CallSeesKeystore, ListHasKey,
       PresentKeySigns, Adapter!PresentKeySigns, Places, Results

LEMMA KeystoreStep == KeystoreInv /\ [Adapter!Next]_Adapter!keyVars => KeystoreInv'
<1> SUFFICES ASSUME KeystoreInv, [Adapter!Next]_Adapter!keyVars PROVE KeystoreInv'
  OBVIOUS
<1> USE DEF KeystoreInv, KeystoreTypeOK, CallSeesKeystore, ListHasKey,
            PresentKeySigns, Adapter!PresentKeySigns, Places, Results
<1>1. ASSUME NEW p \in KeyUsers, NEW id \in Keys, Adapter!Begin(p, id) PROVE KeystoreInv'
  BY <1>1 DEF Adapter!Begin, Adapter!Idle
<1>2. ASSUME NEW p \in KeyUsers, Adapter!ReadMapping(p) PROVE KeystoreInv'
  <2>1. CASE caller[p].id \in mapped
    <3>1. Adapter!Return(p, "found")
      BY <1>2, <2>1 DEF Adapter!ReadMapping
    <3>2. CallReturned(p, "found")
      BY <3>1, ReturnsAre
    <3> QED
      BY <1>2, <2>1, <3>2 DEF Adapter!ReadMapping, CallReturned
  <2>2. CASE caller[p].id \notin mapped
    <3>1. Adapter!Goto(p, "lock") /\ UNCHANGED <<accounts, mapped, writer, absent, disturbed>>
      BY <1>2, <2>2 DEF Adapter!ReadMapping
    <3>2. /\ caller' \in [KeyUsers -> [at : Places, id : Keys \cup {Nobody},
                                     listed : SUBSET (Keys \cup NoKeys), result : Results]]
          /\ caller'[p].at = "lock" /\ caller'[p].id = caller[p].id
          /\ \A q \in KeyUsers : q # p => caller'[q] = caller[q]
      BY <3>1 DEF Adapter!Goto
    <3> QED
      BY <1>2, <3>1, <3>2 DEF Adapter!ReadMapping
  <2> QED
    BY <2>1, <2>2
<1>3. ASSUME NEW p \in KeyUsers, Adapter!Lock(p) PROVE KeystoreInv'
  BY ZenonT(60), <1>3 DEF Adapter!Lock, Adapter!Goto
<1>4. ASSUME NEW p \in KeyUsers, Adapter!Accounts(p) PROVE KeystoreInv'
  <2>1. CASE /\ caller' = [caller EXCEPT ![p].at = "update", ![p].listed = accounts]
             /\ UNCHANGED disturbed
    BY ZenonT(60), <1>4, <2>1 DEF Adapter!Accounts
  <2>2. CASE Adapter!Return(p, "error") /\ disturbed' = disturbed \cup {p}
    BY ZenonT(60), <1>4, <2>2 DEF Adapter!Accounts, Adapter!Return
  <2> QED
    BY <1>4, <2>1, <2>2 DEF Adapter!Accounts
<1>5. ASSUME NEW p \in KeyUsers, Adapter!Update(p) PROVE KeystoreInv'
  <2>1. CASE caller[p].listed \cap NoKeys # {}
    <3>1. CallReturned(p, "error")
      BY <1>5, <2>1, ReturnsAre DEF Adapter!Update
    <3> QED
      BY <1>5, <2>1, <3>1 DEF Adapter!Update, CallReturned
  <2>2. CASE caller[p].listed \cap NoKeys = {} /\ caller[p].id \in caller[p].listed
    <3>1. mapped' = caller[p].listed
      BY <1>5, <2>2 DEF Adapter!Update
    <3>2. CallReturned(p, "found")
      BY <1>5, <2>2, <3>1, ReturnsAre DEF Adapter!Update
    <3> QED
      BY <1>5, <2>2, <3>1, <3>2 DEF Adapter!Update, CallReturned
  <2>3. CASE caller[p].listed \cap NoKeys = {} /\ caller[p].id \notin caller[p].listed
    <3>1. mapped' = caller[p].listed
      BY <1>5, <2>3 DEF Adapter!Update
    <3>2. CallReturned(p, "no such id")
      BY <1>5, <2>3, <3>1, ReturnsAre DEF Adapter!Update
    <3> QED
      BY ZenonT(60), <1>5, <2>3, <3>1, <3>2 DEF Adapter!Update, CallReturned
  <2> QED
    BY <2>1, <2>2, <2>3
<1>6. ASSUME NEW p \in KeyUsers, Adapter!Sign(p) PROVE KeystoreInv'
  BY ZenonT(60), <1>6 DEF Adapter!Sign, Adapter!Return
<1>7. ASSUME NEW account \in Keys \cup NoKeys, Adapter!Import(account) PROVE KeystoreInv'
  BY <1>7 DEF Adapter!Import, Adapter!Witness
<1>8. ASSUME NEW account \in Keys \cup NoKeys, Adapter!Delete(account) PROVE KeystoreInv'
  BY <1>8 DEF Adapter!Delete, Adapter!Witness
<1>9. CASE UNCHANGED Adapter!keyVars
  BY <1>9 DEF Adapter!keyVars
<1> QED
  BY <1>1, <1>2, <1>3, <1>4, <1>5, <1>6, <1>7, <1>8, <1>9 DEF Adapter!Next

\* A key that is in the keystore during a whole call is found and signs,
\* whatever other callers map meanwhile and whatever keys come and go
\* (keystoreAdapter.lookup, updateMappingLocked, Sign).
THEOREM KeysFound == Adapter!Spec => []PresentKeySigns
<1>1. KeystoreInv => PresentKeySigns
  BY DEF KeystoreInv
<1> QED
  BY KeystoreInit, KeystoreStep, <1>1, PTL DEF Adapter!Spec
-----------------------------------------------------------------------------
(* The flag of a feed. *)

\* A product grows with its factor.
LEMMA ProductGrows ==
  ASSUME NEW d \in Nat, NEW a \in Nat, NEW b \in Nat, a <= b
  PROVE  a * d <= b * d
OBVIOUS

\* A whole quotient is above t exactly if the dividend reaches t + 1 divisors.
LEMMA QuotientAbove ==
  ASSUME NEW x \in Nat, NEW d \in Nat \ {0}, NEW t \in Nat
  PROVE  ~(x \div d <= t) <=> x >= (t + 1) * d
<1> DEFINE q == x \div d
<1>1. q \in Nat /\ q * d <= x /\ x < (q + 1) * d
  OBVIOUS
<1> HIDE DEF q
<1>2. ASSUME q <= t PROVE x < (t + 1) * d
  <2>1. (q + 1) * d <= (t + 1) * d
    BY <1>1, <1>2, ProductGrows
  <2> QED
    BY <1>1, <2>1
<1>3. ASSUME ~(q <= t) PROVE x >= (t + 1) * d
  <2>1. (t + 1) * d <= q * d
    BY <1>1, <1>3, ProductGrows
  <2> QED
    BY <1>1, <2>1
<1>4. (t + 1) * d \in Nat
  OBVIOUS
<1> QED
  BY <1>1, <1>2, <1>3, <1>4 DEF q

\* An answer that a signed number of AnswerBits holds.
Fits(answer) == answer \in Int /\ -Flag!Modulus <= 2 * answer /\ 2 * answer < Flag!Modulus

\* The wrapping difference of two answers is their distance.
LEMMA DifferenceIsDistance ==
  ASSUME NEW a, NEW b, Fits(a), Fits(b)
  PROVE  Flag!AbsDiff(a, b) = Flag!Abs(b - a) /\ Flag!Abs(b - a) \in Nat
<1> DEFINE M == Flag!Modulus
<1>1. M \in Nat \ {0}
  BY FlagAssumption DEF Flag!Modulus
<1>2. a \in Int /\ b \in Int /\ -M <= 2 * a /\ 2 * a < M /\ -M <= 2 * b /\ 2 * b < M
  BY DEF Fits
<1>3. ASSUME NEW x \in Int, -M <= 2 * x, 2 * x < M
      PROVE  x % M = IF x < 0 THEN x + M ELSE x
  <2> HIDE DEF M
  <2> QED
    BY <1>1, <1>3
<1>4. ASSUME NEW x \in Int, NEW y \in Int, -M <= 2 * x, 2 * x < M, -M <= 2 * y, 2 * y < M, x >= y
      PROVE  ((x % M) - (y % M)) % M = x - y
  <2>1. x % M = (IF x < 0 THEN x + M ELSE x) /\ y % M = (IF y < 0 THEN y + M ELSE y)
    BY <1>3, <1>4
  <2> HIDE DEF M
  <2>2. x - y \in 0 .. M - 1
    BY <1>1, <1>4
  <2>3. CASE (x % M) - (y % M) = x - y
    BY <1>1, <2>2, <2>3
  <2>4. CASE (x % M) - (y % M) = (x - y) - M
    BY <1>1, <2>2, <2>4
  <2> QED
    BY <1>1, <1>4, <2>1, <2>3, <2>4
<1> HIDE DEF M
<1>5. CASE a < b
  BY <1>2, <1>4, <1>5 DEF Flag!AbsDiff, Flag!Abs, M
<1>6. CASE ~(a < b)
  BY <1>2, <1>4, <1>6 DEF Flag!AbsDiff, Flag!Abs, M
<1> QED
  BY <1>5, <1>6

\* What the validator's arithmetic finds invalid is what moved too far, by the
\* numbers, or too much to multiply.
LEMMA InvalidIsFar ==
  ASSUME NEW a, NEW b, Fits(a), Fits(b), rule.threshold \in Nat
  PROVE  ~Flag!IsValid(rule.threshold, a, b) <=>
           a # 0 /\ (Flag!Exceeds(a, b) \/ Flag!TooLarge(a, b))
<1> DEFINE d == Flag!Abs(b - a)
           size == Flag!Abs(a)
           t == rule.threshold
<1>1. a \in Int /\ t \in Nat /\ Flag!AbsDiff(a, b) = d /\ d \in Nat
  BY DifferenceIsDistance DEF Fits
<1>2. size \in Nat /\ (a # 0 => size # 0)
  BY <1>1 DEF Flag!Abs
<1>3. Multiplier \in Nat /\ Flag!Modulus \in Nat
  BY FlagAssumption DEF Flag!Modulus
<1> HIDE DEF d, size, t
<1>4. d * Multiplier = Multiplier * d /\ Multiplier * d \in Nat
  BY <1>1, <1>3
<1>5. a # 0 => (~((d * Multiplier) \div size <= t) <=> Multiplier * d >= (t + 1) * size)
  BY <1>1, <1>2, <1>4, QuotientAbove
<1>6. ~(d * Multiplier < Flag!Modulus) <=> Multiplier * d >= Flag!Modulus
  BY <1>3, <1>4
<1>7. Flag!Exceeds(a, b) <=> a # 0 /\ Multiplier * d >= (t + 1) * size
  BY DEF Flag!Exceeds, d, size, t
<1>8. Flag!TooLarge(a, b) <=> Multiplier * d >= Flag!Modulus
  BY DEF Flag!TooLarge, d
<1>9. Flag!IsValid(t, a, b) <=>
        a = 0 \/ (d * Multiplier < Flag!Modulus /\ (d * Multiplier) \div size <= t)
  BY <1>1 DEF Flag!IsValid, size
<1> QED
  BY <1>5, <1>6, <1>7, <1>8, <1>9 DEF t

FlagTypeOK ==
  /\ rule \in [flags : {Flags, OtherFlags}, threshold : Nat]
  /\ feed \in [round : Nat, answer : Int, wired : BOOLEAN]

FlagInv ==
  /\ FlagTypeOK
  /\ Fits(feed.answer)
  /\ FlagTellsDeviation

LEMMA FlagInit == Flag!Init => FlagInv
BY FlagAssumption DEF Flag!Init, FlagInv, FlagTypeOK, Fits, Flag!Modulus, FlagTellsDeviation,
                      Flag!FlagTellsDeviation

LEMMA TransmitTells ==
  ASSUME FlagInv, NEW answer \in FlagAnswers, NEW gas \in BOOLEAN, Flag!Transmit(answer, gas)
  PROVE  FlagInv'
<1> DEFINE previous == feed.answer
           asked == feed.wired /\ feed.round > 0 /\ gas /\ Flag!Reaches
           invalid == ~Flag!IsValid(rule.threshold, previous, answer)
           far == Flag!Exceeds(previous, answer)
           large == Flag!TooLarge(previous, answer)
<1>1. Fits(answer)
  BY FlagAssumption DEF Fits, Flag!Modulus
<1>2. invalid => far \/ large
  BY <1>1, InvalidIsFar DEF FlagInv, FlagTypeOK
<1>3. far => invalid
  BY <1>1, InvalidIsFar DEF FlagInv, FlagTypeOK, Flag!Exceeds
<1>4. feed' = [feed EXCEPT !.round = @ + 1, !.answer = answer] /\ UNCHANGED rule
  BY DEF Flag!Transmit
<1>5. raised' = IF asked /\ invalid THEN raised \cup {Feed} ELSE raised
  BY DEF Flag!Transmit
<1>6. due' = IF asked THEN due \cup ((IF far THEN {"exceeds"} ELSE {})
                                      \cup (IF large THEN {"too large"} ELSE {})) ELSE due
  BY DEF Flag!Transmit
<1> HIDE DEF asked, invalid, far, large
<1>7. FlagTypeOK' /\ Fits(feed.answer)'
  <2>1. answer \in Int /\ feed.round + 1 \in Nat
    BY <1>1 DEF Fits, FlagInv, FlagTypeOK
  <2>2. FlagTypeOK' /\ feed'.answer = answer
    BY <1>4, <2>1 DEF FlagInv, FlagTypeOK
  <2> QED
    BY <1>1, <2>2 DEF Fits, Flag!Modulus
<1>8. FlagTellsDeviation'
  BY <1>2, <1>3, <1>5, <1>6 DEF FlagInv, FlagTellsDeviation, Flag!FlagTellsDeviation
<1> QED
  BY <1>7, <1>8 DEF FlagInv

LEMMA FlagStep == FlagInv /\ [Flag!Next]_Flag!flagVars => FlagInv'
<1> SUFFICES ASSUME FlagInv, [Flag!Next]_Flag!flagVars PROVE FlagInv'
  OBVIOUS
<1> USE DEF FlagInv, FlagTypeOK, Fits, Flag!Modulus, FlagTellsDeviation, Flag!FlagTellsDeviation
<1>1. ASSUME NEW who, NEW ac, \/ Flag!AddAccess(ac, who) \/ Flag!RemoveAccess(ac, who)
                              \/ Flag!SetRaisingAccessController(who, ac)
      PROVE  FlagInv'
  BY <1>1 DEF Flag!AddAccess, Flag!RemoveAccess, Flag!SetRaisingAccessController, Flag!owning
<1>2. ASSUME NEW who, NEW subjects, Flag!RaiseFlags(who, subjects) PROVE FlagInv'
  BY <1>2 DEF Flag!RaiseFlags
<1>3. ASSUME NEW who, NEW subjects, Flag!LowerFlags(who, subjects) PROVE FlagInv'
  BY <1>3 DEF Flag!LowerFlags
<1>4. ASSUME NEW who, Flag!ChangeOwner(who) PROVE FlagInv'
  BY <1>4 DEF Flag!ChangeOwner
<1>5. ASSUME NEW previous, NEW answer, Flag!Validate(Stranger, previous, answer) PROVE FlagInv'
  BY <1>5, FlagAssumption DEF Flag!Validate
<1>6. ASSUME NEW flags \in {Flags, OtherFlags}, Flag!SetFlagsAddress(flags) PROVE FlagInv'
  BY <1>6 DEF Flag!SetFlagsAddress
<1>7. ASSUME NEW threshold \in Thresholds, Flag!SetFlaggingThreshold(threshold) PROVE FlagInv'
  BY <1>7, FlagAssumption DEF Flag!SetFlaggingThreshold
<1>8. ASSUME NEW answer \in FlagAnswers, NEW gas \in BOOLEAN, Flag!Transmit(answer, gas)
      PROVE  FlagInv'
  BY <1>8, TransmitTells
<1>9. ASSUME NEW wired \in BOOLEAN, Flag!SetValidator(wired) PROVE FlagInv'
  BY <1>9 DEF Flag!SetValidator
<1>10. CASE UNCHANGED Flag!flagVars
  BY <1>10 DEF Flag!flagVars
<1> QED
  BY <1>1, <1>2, <1>3, <1>4, <1>5, <1>6, <1>7, <1>8, <1>9, <1>10 DEF Flag!Next

\* A feed's flag is up while an answer that moved by more than the threshold
\* was not lowered since, and for no other reason than an answer or somebody
\* who may raise it: of answers of any width, with the wrapping arithmetic of
\* is_valid, whoever owns the contracts meanwhile (validate_answer,
\* execute_validate, raise_flag, lower_flags).
THEOREM FlagsTell == Flag!Spec => []FlagTellsDeviation
<1>1. FlagInv => FlagTellsDeviation
  BY DEF FlagInv
<1> QED
  BY FlagInit, FlagStep, <1>1, PTL DEF Flag!Spec
-----------------------------------------------------------------------------
(* The proxy of a feed. *)

\* A quotient is the one whole number that fits.
LEMMA QuotientOf ==
  ASSUME NEW q \in Nat, NEW d \in Nat \ {0}, NEW r \in Nat, r < d
  PROVE  (q * d + r) \div d = q /\ (q * d + r) % d = r
<1> DEFINE x == q * d + r
           k == x \div d
<1>1. x \in Nat /\ q * d \in Nat
  OBVIOUS
<1>2. k \in Nat /\ k * d <= x /\ x < (k + 1) * d /\ x = k * d + (x % d)
  BY <1>1
<1>3. x = q * d + r /\ (q + 1) * d = q * d + d
  OBVIOUS
<1> HIDE DEF k, x
<1>4. ASSUME k < q PROVE FALSE
  <2>1. (k + 1) * d <= q * d
    BY <1>2, <1>4, ProductGrows
  <2> QED
    BY <1>1, <1>2, <1>3, <2>1
<1>5. ASSUME q < k PROVE FALSE
  <2>1. (q + 1) * d <= k * d
    BY <1>2, <1>5, ProductGrows
  <2> QED
    BY <1>1, <1>2, <1>3, <2>1
<1>6. k = q
  BY <1>2, <1>4, <1>5
<1>7. x % d = r
  BY <1>1, <1>2, <1>3, <1>6
<1> QED
  BY <1>6, <1>7 DEF k, x

PhaseLimit == 2 ^ PhaseBits
RoundLimit == 2 ^ RoundBits

\* A round id is read as it was made.
LEMMA RoundIdParses ==
  ASSUME NEW p \in Nat, p < PhaseLimit, NEW r \in Nat, r < RoundLimit
  PROVE  Prox!ParseRoundId(Prox!WithPhaseId(r, p)) = [phase |-> p, round |-> r]
<1>1. PhaseLimit \in Nat \ {0} /\ RoundLimit \in Nat \ {0}
  BY ProxyAssumption DEF PhaseLimit, RoundLimit
<1>2. (p * RoundLimit + r) \div RoundLimit = p /\ (p * RoundLimit + r) % RoundLimit = r
  BY <1>1, QuotientOf
<1>3. p % PhaseLimit = p
  BY <1>1
<1> QED
  BY <1>2, <1>3 DEF Prox!ParseRoundId, Prox!WithPhaseId, PhaseLimit, RoundLimit

\* Ids grow with the phase, and within it with the round.
LEMMA RoundIdsGrow ==
  ASSUME NEW p \in Nat, NEW q \in Nat, NEW r \in Nat, NEW s \in Nat,
         r < RoundLimit, p < q \/ (p = q /\ r <= s)
  PROVE  Prox!WithPhaseId(r, p) <= Prox!WithPhaseId(s, q)
<1>1. RoundLimit \in Nat
  BY ProxyAssumption DEF RoundLimit
<1>2. CASE p < q
  <2>1. (p + 1) * RoundLimit <= q * RoundLimit /\ (p + 1) * RoundLimit = p * RoundLimit + RoundLimit
    BY <1>1, <1>2, ProductGrows
  <2>2. p * RoundLimit \in Nat /\ q * RoundLimit \in Nat
    BY <1>1
  <2>3. p * RoundLimit + r <= q * RoundLimit + s
    BY <1>1, <2>1, <2>2
  <2> QED
    BY <2>3 DEF Prox!WithPhaseId, RoundLimit
<1>3. CASE p = q /\ r <= s
  <2>1. p * RoundLimit \in Nat
    BY <1>1
  <2> QED
    BY <1>3, <2>1 DEF Prox!WithPhaseId, RoundLimit
<1> QED
  BY <1>2, <1>3

\* The phases so far, the last of them the current one.
PhasesInv ==
  /\ phase \in [id : Nat, aggregator : Aggregators]
  /\ phases \in Seq(Aggregators)
  /\ 1 <= phase.id /\ phase.id < PhaseLimit
  /\ Len(phases) = phase.id /\ phases[phase.id] = phase.aggregator

PublishedInv ==
  /\ published \in [Aggregators -> Seq(ProxyAnswers)]
  /\ \A a \in Aggregators : Len(published[a]) <= MaxPublished

\* What was served is a round of the aggregator of some phase.
ServedFrom(id, p, r) ==
  /\ p \in 1 .. Len(phases) /\ r \in 1 .. Len(published[phases[p]])
  /\ id = Prox!WithPhaseId(r, p)
  /\ served[id] = published[phases[p]][r]

ServedInv == \A id \in DOMAIN served : \E p, r \in Nat : ServedFrom(id, p, r)

ProxyInv == PhasesInv /\ PublishedInv /\ ServedInv

LEMMA ProxyInit == Prox!Init => ProxyInv
BY ProxyAssumption DEF Prox!Init, ProxyInv, PhasesInv, PublishedInv, ServedInv, PhaseLimit

LEMMA ProxyStep == ProxyInv /\ [Prox!Next]_Prox!proxyVars => ProxyInv'
<1> SUFFICES ASSUME ProxyInv, [Prox!Next]_Prox!proxyVars PROVE ProxyInv'
  OBVIOUS
<1> USE DEF ProxyInv
<1>1. ASSUME UNCHANGED <<phase, phases, published, served>> PROVE ProxyInv'
  BY <1>1 DEF PhasesInv, PublishedInv, ServedInv, ServedFrom, Prox!WithPhaseId
<1>2. ASSUME NEW who, NEW aggregator \in Aggregators, Prox!ConfirmContract(who, aggregator)
      PROVE  ProxyInv'
  <2>1. /\ phase' = [id |-> phase.id + 1, aggregator |-> aggregator]
        /\ phases' = Append(phases, aggregator)
        /\ phase.id + 1 < PhaseLimit
        /\ UNCHANGED <<published, served>>
    BY <1>2 DEF Prox!ConfirmContract, PhaseLimit
  <2>2. PhasesInv'
    BY <2>1 DEF PhasesInv, PhaseLimit
  <2>3. Len(phases') = Len(phases) + 1 /\ \A p \in 1 .. Len(phases) : phases'[p] = phases[p]
    BY <2>1 DEF PhasesInv
  <2>4. ServedInv'
    BY <2>1, <2>3 DEF PhasesInv, ServedInv, ServedFrom, Prox!WithPhaseId
  <2> QED
    BY <2>1, <2>2, <2>4 DEF PublishedInv
<1>3. ASSUME NEW aggregator \in Aggregators, NEW answer \in ProxyAnswers,
             Prox!Publish(aggregator, answer)
      PROVE  ProxyInv'
  <2>1. /\ published' = [published EXCEPT ![aggregator] = Append(@, answer)]
        /\ Len(published[aggregator]) < MaxPublished
        /\ UNCHANGED <<phase, phases, served>>
    BY <1>3 DEF Prox!Publish
  <2>2. PublishedInv'
    BY <2>1, ProxyAssumption DEF PublishedInv
  <2>3. \A a \in Aggregators :
          /\ Len(published[a]) <= Len(published'[a])
          /\ \A r \in 1 .. Len(published[a]) : published'[a][r] = published[a][r]
    BY <2>1 DEF PublishedInv
  <2>4. \A p \in 1 .. Len(phases) : phases[p] \in Aggregators
    BY DEF PhasesInv
  <2>5. \A a \in Aggregators : Len(published[a]) \in Nat /\ Len(published'[a]) \in Nat
    BY <2>2 DEF PublishedInv
  <2>6. ASSUME NEW id, NEW p \in Nat, NEW r \in Nat, ServedFrom(id, p, r) PROVE ServedFrom(id, p, r)'
    BY <2>1, <2>3, <2>4, <2>5, <2>6 DEF ServedFrom, Prox!WithPhaseId
  <2>7. ServedInv'
    BY <2>1, <2>6 DEF ServedInv
  <2> QED
    BY <2>1, <2>2, <2>7 DEF PhasesInv
<1>4. ASSUME Prox!ReadLatest PROVE ProxyInv'
  <2> DEFINE rounds == published[phase.aggregator]
  <2>1. UNCHANGED <<phase, phases, published>>
    BY <1>4 DEF Prox!ReadLatest
  <2>2. rounds \in Seq(ProxyAnswers) /\ rounds # <<>>
    BY <1>4 DEF Prox!ReadLatest, Prox!LatestRoundData, PhasesInv, PublishedInv
  <2>3. PICK i \in Nat, n \in Nat, last \in {Prox!WithPhaseId(Len(rounds), phase.id)} :
          i = phase.id /\ n = Len(rounds) /\ last = Prox!WithPhaseId(n, i)
    BY <2>2 DEF PhasesInv
  <2>4. served' = [id \in DOMAIN served \cup {last} |->
                     IF id = last THEN rounds[n] ELSE served[id]]
    BY <1>4, <2>2, <2>3 DEF Prox!ReadLatest, Prox!LatestRoundData
  <2>5. DOMAIN served' = DOMAIN served \cup {last}
    BY <2>4
  <2>6. ServedFrom(last, i, n)'
    BY <2>1, <2>2, <2>3, <2>4 DEF ServedFrom, PhasesInv, Prox!WithPhaseId
  <2>7. ASSUME NEW id \in DOMAIN served, id # last, NEW p \in Nat, NEW r \in Nat, ServedFrom(id, p, r)
        PROVE  ServedFrom(id, p, r)'
    BY <2>1, <2>4, <2>7 DEF ServedFrom, Prox!WithPhaseId
  <2>8. ASSUME NEW id \in DOMAIN served' PROVE \E p, r \in Nat : ServedFrom(id, p, r)'
    <3>1. CASE id = last
      BY <2>3, <2>6, <3>1
    <3>2. CASE id # last
      <4>1. PICK p \in Nat, r \in Nat : ServedFrom(id, p, r)
        BY <2>5, <3>2 DEF ServedInv
      <4>2. ServedFrom(id, p, r)'
        BY <2>5, <2>7, <3>2, <4>1
      <4> QED
        BY <4>2
    <3> QED
      BY <3>1, <3>2
  <2> QED
    BY <2>1, <2>8 DEF PhasesInv, PublishedInv, ServedInv
<1> QED
  BY <1>1, <1>2, <1>3, <1>4 DEF Prox!Next, Prox!ProposeContract, Prox!ChangeOwner, Prox!proxyVars

\* An id that was served is read again as it was, and is not above the latest.
LEMMA ServedIsRead ==
  ASSUME ProxyInv, NEW id \in DOMAIN served
  PROVE  /\ Prox!LatestRoundData.ok => id <= Prox!LatestRoundData.id
         /\ Prox!RoundData(id) = [ok |-> TRUE, id |-> id, answer |-> served[id]]
<1>1. PICK p \in Nat, r \in Nat : ServedFrom(id, p, r)
  BY DEF ProxyInv, ServedInv
<1>2. phases[p] \in Aggregators /\ p <= phase.id /\ phase.id \in Nat /\ p < PhaseLimit
      /\ p \in DOMAIN phases
  BY <1>1, ProxyAssumption DEF ProxyInv, PhasesInv, ServedFrom, PhaseLimit
<1>3. /\ Len(published[phases[p]]) \in Nat /\ r <= Len(published[phases[p]])
      /\ r < RoundLimit /\ r \in DOMAIN published[phases[p]]
  BY <1>1, <1>2, ProxyAssumption DEF ProxyInv, PublishedInv, ServedFrom, RoundLimit
<1>4. Prox!ParseRoundId(id) = [phase |-> p, round |-> r]
  BY <1>1, <1>2, <1>3, RoundIdParses DEF ServedFrom
<1>5. Prox!RoundData(id) = [ok |-> TRUE, id |-> id, answer |-> served[id]]
  BY <1>1, <1>2, <1>3, <1>4 DEF Prox!RoundData, ServedFrom
<1>6. ASSUME Prox!LatestRoundData.ok PROVE id <= Prox!LatestRoundData.id
  <2> DEFINE rounds == published[phase.aggregator]
  <2>1. rounds # <<>> /\ Prox!LatestRoundData.id = Prox!WithPhaseId(Len(rounds), phase.id)
    BY <1>6 DEF Prox!LatestRoundData
  <2>2. Len(rounds) \in Nat /\ (p = phase.id => r <= Len(rounds))
    BY <1>1, <1>2 DEF ProxyInv, PhasesInv, PublishedInv, ServedFrom
  <2> HIDE DEF rounds
  <2>3. Prox!WithPhaseId(r, p) <= Prox!WithPhaseId(Len(rounds), phase.id)
    BY <1>2, <1>3, <2>2, RoundIdsGrow
  <2> QED
    BY <1>1, <2>1, <2>3 DEF ServedFrom
<1> QED
  BY <1>5, <1>6

\* Readers of a proxy see one feed: the latest id never falls below one they
\* were given, and by an id they get ever after what they got with it, over
\* any number of phases and with aggregators that come back (with_phase_id,
\* parse_round_id, ConfirmContract).
THEOREM ProxyIsOneFeed == Prox!Spec => []ReadersSeeOneFeed
<1>1. ProxyInv => ReadersSeeOneFeed
  BY ServedIsRead DEF ReadersSeeOneFeed, Prox!ReadersSeeOneFeed
<1> QED
  BY ProxyInit, ProxyStep, <1>1, PTL DEF Prox!Spec
-----------------------------------------------------------------------------
(* The report of an aggregator. *)

Observation == [time : Int, value : Int, juels : Int, observer : Int]

ReportModulus == 2 ^ ReportBits

\* A cell that a signed number was written to reads as that number.
LEMMA SignedReads ==
  ASSUME NEW v \in Int, Codec!InRange(v)
  PROVE  v % ReportModulus \in Int /\ Codec!Signed(v % ReportModulus) = v
<1> DEFINE M == ReportModulus
           half == M \div 2
<1>1. M \in Nat \ {0}
  BY ReportAssumption DEF ReportModulus
<1>2. half \in Nat /\ 2 * half <= M /\ M <= 2 * half + 1
  <2> HIDE DEF M
  <2> QED
    BY <1>1
<1>3. -half <= v /\ v < half
  BY DEF Codec!InRange, Codec!Modulus, ReportModulus
<1>4. v % M = IF v < 0 THEN v + M ELSE v
  <2> HIDE DEF M, half
  <2>1. CASE v < 0
    <3>1. v + M \in 0 .. M - 1
      BY <1>1, <1>2, <1>3, <2>1
    <3> QED
      BY <1>1, <2>1, <3>1
  <2>2. CASE v >= 0
    <3>1. v \in 0 .. M - 1
      BY <1>1, <1>2, <1>3, <2>2
    <3> QED
      BY <1>1, <2>2, <3>1
  <2> QED
    BY <2>1, <2>2
<1>5. (IF v % M < half THEN v % M ELSE (v % M) - M) = v
  <2> HIDE DEF M, half
  <2> QED
    BY <1>1, <1>2, <1>3, <1>4
<1>6. Codec!Signed(v % M) = IF v % M < half THEN v % M ELSE (v % M) - M
  BY DEF Codec!Signed, Codec!Modulus, ReportModulus
<1> QED
  BY <1>1, <1>4, <1>5, <1>6

LEMMA OrdersAre ==
  ASSUME NEW list \in Seq(Observation), NEW keys \in [1 .. Len(list) -> Int]
  PROVE  /\ Codec!Orders(list, keys) # {}
         /\ \A sorted \in Codec!Orders(list, keys) : \E q :
              /\ SortsBy(q, Len(list), keys)
              /\ sorted = [i \in 1 .. Len(list) |-> list[q[i]]]
<1> DEFINE n == Len(list)
           sortings == {q \in [DOMAIN list -> DOMAIN list] :
                         /\ Codec!IsInjective(q)
                         /\ \A i, j \in DOMAIN list : i < j => keys[q[i]] <= keys[q[j]]}
           ordered(q) == [i \in DOMAIN list |-> list[q[i]]]
<1>1. n \in Nat /\ DOMAIN list = 1 .. n
  OBVIOUS
<1>2. Codec!Orders(list, keys) = {ordered(q) : q \in sortings}
  BY DEF Codec!Orders
<1>3. \A q : q \in sortings <=> SortsBy(q, n, keys)
  BY <1>1 DEF SortsBy, Codec!IsInjective
<1>4. \E q : SortsBy(q, n, keys)
  BY <1>1, SortedExists
<1> HIDE DEF sortings, ordered, n
<1>5. Codec!Orders(list, keys) # {}
  BY <1>2, <1>3, <1>4
<1>6. \A sorted \in Codec!Orders(list, keys) : \E q :
        SortsBy(q, n, keys) /\ sorted = ordered(q)
  BY <1>2, <1>3
<1> QED
  BY <1>1, <1>5, <1>6 DEF ordered, n

\* The element in the middle of a sorted list is of the list.
LEMMA MiddleOf ==
  ASSUME NEW list \in Seq(Observation), Len(list) # 0, NEW keys \in [1 .. Len(list) -> Int],
         NEW sorted \in Codec!Orders(list, keys)
  PROVE  Codec!Middle(sorted) \in Observation
<1>1. Len(list) \in Nat /\ DOMAIN list = 1 .. Len(list)
  OBVIOUS
<1>2. PICK q : /\ SortsBy(q, Len(list), keys)
               /\ sorted = [i \in 1 .. Len(list) |-> list[q[i]]]
  BY OrdersAre
<1> DEFINE n == Len(list)
           m == (n \div 2) + 1
<1>3. m \in 1 .. n
  <2> HIDE DEF n
  <2> QED
    BY <1>1 DEF n
<1>4. Len(sorted) = n
  BY <1>1, <1>2
<1>5. q[m] \in 1 .. n /\ sorted[m] = list[q[m]]
  <2> HIDE DEF m
  <2> QED
    BY <1>2, <1>3 DEF SortsBy
<1>6. Codec!Middle(sorted) = sorted[m]
  BY <1>4 DEF Codec!Middle
<1> HIDE DEF m, n
<1> QED
  BY <1>5, <1>6 DEF n

\* A sequence of two parts, of m and n elements.
Joins(S, c, a, b, m, n) ==
  /\ c \in Seq(S) /\ Len(c) = m + n
  /\ \A i \in 1 .. m : c[i] = a[i]
  /\ \A i \in 1 .. n : c[m + i] = b[i]

LEMMA Joined ==
  ASSUME NEW S, NEW a \in Seq(S), NEW b \in Seq(S)
  PROVE  Joins(S, a \o b, a, b, Len(a), Len(b))
BY DEF Joins

LEMMA OneMore ==
  ASSUME NEW S, NEW a \in Seq(S), NEW b \in S
  PROVE  Joins(S, a \o <<b>>, a, <<b>>, Len(a), 1)
BY DEF Joins

\* Where the parts of a report are found.
Cells(bytes, k, observers, n, values, j) ==
  /\ bytes \in Seq(Int) /\ Len(bytes) = k + n + 3
  /\ \A i \in 1 .. k : bytes[i + 1] = observers[i]
  /\ bytes[k + 2] = n
  /\ \A i \in 1 .. n : bytes[k + 2 + i] = values[i]
  /\ bytes[k + n + 3] = j

LEMMA CellsAt ==
  ASSUME NEW t \in Int, NEW k \in Nat, NEW observers \in [1 .. k -> Int],
         NEW n \in Nat, NEW values \in [1 .. n -> Int], NEW j \in Int
  PROVE  Cells(<<t>> \o observers \o <<n>> \o values \o <<j>>, k, observers, n, values, j)
<1> DEFINE a == <<t>> \o observers
           b == a \o <<n>>
           c == b \o values
           d == c \o <<j>>
<1>1. observers \in Seq(Int) /\ Len(observers) = k
  OBVIOUS
<1>2. values \in Seq(Int) /\ Len(values) = n
  OBVIOUS
<1>3. a \in Seq(Int) /\ Len(a) = k + 1 /\ \A i \in 1 .. k : a[i + 1] = observers[i]
  BY <1>1
<1> HIDE DEF a
<1>4. b \in Seq(Int) /\ Len(b) = k + 2 /\ b[k + 2] = n /\ \A i \in 1 .. k + 1 : b[i] = a[i]
  BY <1>3
<1> HIDE DEF b
<1>5. Joins(Int, c, b, values, k + 2, n)
  BY <1>2, <1>4, Joined
<1> HIDE DEF c
<1>6. c \in Seq(Int) /\ Len(c) = k + 2 + n
  BY <1>5 DEF Joins
<1>7. Joins(Int, d, c, <<j>>, k + 2 + n, 1)
  BY <1>6, OneMore
<1> HIDE DEF d
<1>8. \A i \in 1 .. k : d[i + 1] = observers[i]
  <2> TAKE i \in 1 .. k
  <2>1. i + 1 \in 1 .. k + 1 /\ i + 1 \in 1 .. k + 2 /\ i + 1 \in 1 .. k + 2 + n
    OBVIOUS
  <2> QED
    BY <1>3, <1>4, <1>5, <1>7, <2>1 DEF Joins
<1>9. d[k + 2] = n
  <2>1. k + 2 \in 1 .. k + 2 /\ k + 2 \in 1 .. k + 2 + n
    OBVIOUS
  <2> QED
    BY <1>4, <1>5, <1>7, <2>1 DEF Joins
<1>10. \A i \in 1 .. n : d[k + 2 + i] = values[i]
  <2> TAKE i \in 1 .. n
  <2>1. k + 2 + i \in 1 .. k + 2 + n
    OBVIOUS
  <2> QED
    BY <1>5, <1>7, <2>1 DEF Joins
<1>11. d \in Seq(Int) /\ Len(d) = k + n + 3 /\ d[k + n + 3] = j
  <2>1. k + 2 + n + 1 = k + n + 3 /\ 1 \in 1 .. 1 /\ <<j>>[1] = j
    OBVIOUS
  <2>2. d[k + 2 + n + 1] = <<j>>[1]
    BY <1>7, <2>1 DEF Joins
  <2> QED
    BY <1>7, <2>1, <2>2 DEF Joins
<1> QED
  BY <1>8, <1>9, <1>10, <1>11 DEF a, b, c, d, Cells

\* bytes are the report of a list, whose observations they hold in order q.
IsReport(list, bytes, q) ==
  /\ Len(list) # 0
  /\ SortsBy(q, Len(list), Codec!ByValue(list))
  /\ bytes \in Seq(Int) /\ Len(bytes) = Slots + Len(list) + 3
  /\ \A i \in 1 .. Len(list) : bytes[i + 1] = list[q[i]].observer
  /\ bytes[Slots + 2] = Len(list)
  /\ \A i \in 1 .. Len(list) : Codec!Signed(bytes[Slots + 2 + i]) = list[q[i]].value
  /\ Codec!MedianJuels(list) >= 0 => bytes[Slots + Len(list) + 3] = Codec!MedianJuels(list)

LEMMA ReportBuilt ==
  ASSUME NEW list \in ObservationLists, NEW bytes \in Codec!BuildReport(list)
  PROVE  \E q : IsReport(list, bytes, q)
<1> DEFINE n == Len(list)
           juels == Codec!MedianJuels(list)
           time == Codec!MedianTime(list)
           observers(sorted) == [i \in 1 .. Slots |-> IF i <= n THEN sorted[i].observer ELSE 0]
           values(sorted) == [i \in 1 .. n |-> sorted[i].value % ReportModulus]
           cells(sorted) == <<time>> \o observers(sorted) \o <<n>> \o values(sorted)
                              \o <<juels % ReportModulus>>
<1>1. /\ list \in Seq(Observation) /\ n \in Nat /\ n <= Slots /\ DOMAIN list = 1 .. n
      /\ ReportModulus \in Nat \ {0} /\ Slots \in Nat
  BY ReportAssumption DEF Observation, ReportModulus
<1>2. /\ n # 0 /\ Codec!InRange(juels) /\ \A i \in 1 .. n : Codec!InRange(list[i].value)
      /\ \E sorted \in Codec!Orders(list, Codec!ByValue(list)) : bytes = cells(sorted)
  BY DEF Codec!BuildReport, Codec!Modulus, ReportModulus
<1>3. \A i \in 1 .. n : list[i] \in Observation
  BY <1>1
<1>4. /\ Codec!ByTime(list) \in [1 .. n -> Int]
      /\ Codec!ByJuels(list) \in [1 .. n -> Int]
      /\ Codec!ByValue(list) \in [1 .. n -> Int]
  BY <1>1, <1>3 DEF Codec!ByTime, Codec!ByJuels, Codec!ByValue, Observation
<1>5. time \in Int /\ juels \in Int
  <2>1. \A keys \in [1 .. n -> Int] :
          Codec!Middle(CHOOSE sorted \in Codec!Orders(list, keys) : TRUE) \in Observation
    <3> TAKE keys \in [1 .. n -> Int]
    <3>1. (CHOOSE sorted \in Codec!Orders(list, keys) : TRUE) \in Codec!Orders(list, keys)
      BY <1>1, OrdersAre
    <3> QED
      BY <1>1, <1>2, <3>1, MiddleOf
  <2> QED
    BY <1>4, <2>1 DEF Codec!MedianTime, Codec!MedianJuels, Observation
<1> HIDE DEF n, time, juels
<1>6. PICK sorted \in Codec!Orders(list, Codec!ByValue(list)) : bytes = cells(sorted)
  BY <1>2
<1>7. PICK q : SortsBy(q, n, Codec!ByValue(list)) /\ sorted = [i \in 1 .. n |-> list[q[i]]]
  BY <1>1, <1>4, OrdersAre DEF n
<1>8. \A i \in 1 .. n : q[i] \in 1 .. n /\ sorted[i] = list[q[i]] /\ sorted[i] \in Observation
  BY <1>3, <1>7 DEF SortsBy
<1>9. observers(sorted) \in [1 .. Slots -> Int] /\ values(sorted) \in [1 .. n -> Int]
  <2>1. \A i \in 1 .. Slots : (IF i <= n THEN sorted[i].observer ELSE 0) \in Int
    <3>1. \A i \in 1 .. Slots : i <= n => i \in 1 .. n
      BY <1>1
    <3> QED
      BY <1>8, <3>1 DEF Observation
  <2>2. \A i \in 1 .. n : sorted[i].value % ReportModulus \in Int
    BY SMTT(30), <1>1, <1>8 DEF Observation
  <2> QED
    BY <2>1, <2>2
<1>10. juels % ReportModulus \in Int
  BY <1>1, <1>5
<1> DEFINE obs == observers(sorted)
           vals == values(sorted)
           j == juels % ReportModulus
<1>11. /\ \A i \in 1 .. n : i \in 1 .. Slots /\ obs[i] = sorted[i].observer
       /\ \A i \in 1 .. n : vals[i] = sorted[i].value % ReportModulus
  BY <1>1
<1> HIDE DEF obs, vals, j
<1>12. Cells(bytes, Slots, obs, n, vals, j)
  <2>1. bytes = <<time>> \o obs \o <<n>> \o vals \o <<j>>
    BY <1>6 DEF obs, vals, j
  <2>2. obs \in [1 .. Slots -> Int] /\ vals \in [1 .. n -> Int] /\ j \in Int
    BY <1>9, <1>10 DEF obs, vals, j
  <2> QED
    BY <1>1, <1>5, <2>1, <2>2, CellsAt
<1>13. \A i \in 1 .. n : bytes[i + 1] = list[q[i]].observer
  BY <1>8, <1>11, <1>12 DEF Cells
<1>14. \A i \in 1 .. n : Codec!Signed(bytes[Slots + 2 + i]) = list[q[i]].value
  <2> TAKE i \in 1 .. n
  <2>1. list[q[i]].value \in Int /\ Codec!InRange(list[q[i]].value)
    BY <1>2, <1>3, <1>8 DEF Observation
  <2>2. bytes[Slots + 2 + i] = list[q[i]].value % ReportModulus
    BY <1>8, <1>11, <1>12 DEF Cells
  <2> QED
    BY <2>1, <2>2, SignedReads
<1>15. juels >= 0 => j = juels
  <2>1. juels < ReportModulus
    <3>1. juels < ReportModulus \div 2
      BY <1>2 DEF Codec!InRange, Codec!Modulus, ReportModulus
    <3> HIDE DEF ReportModulus
    <3> QED
      BY <1>1, <1>5, <3>1
  <2> QED
    BY <1>1, <1>5, <2>1 DEF j
<1>16. juels >= 0 => bytes[Slots + n + 3] = juels
  BY <1>12, <1>15 DEF Cells
<1> QED
  BY <1>2, <1>7, <1>12, <1>13, <1>14, <1>16 DEF IsReport, Cells, n, juels

LEMMA CodecCardinality == \A S : Codec!Cardinality(S) = Cardinality(S)
  BY DEF Codec!Cardinality, Cardinality

\* The value in the middle of a sorted list is its median.
LEMMA MiddleIsMedian ==
  ASSUME NEW list \in Seq(Observation), Len(list) # 0, NEW q,
         SortsBy(q, Len(list), Codec!ByValue(list))
  PROVE  Codec!IsMedian(list, list[q[(Len(list) \div 2) + 1]].value)
<1> DEFINE n == Len(list)
           half == n \div 2
           m == half + 1
           v == list[q[m]].value
           below == {q[i] : i \in 1 .. half}
           above == {q[i] : i \in m + 1 .. n}
<1>1. n \in Nat /\ n # 0 /\ DOMAIN list = 1 .. n /\ \A i \in 1 .. n : list[i].value \in Int
  <2>1. \A i \in DOMAIN list : list[i] \in Observation
    OBVIOUS
  <2> QED
    BY <2>1 DEF Observation
<1>2. half \in Nat /\ m \in 1 .. n /\ 2 * half <= n /\ 2 * (n - half - 1) < n /\ n - half - 1 \in Nat
  <2> HIDE DEF n
  <2> QED
    BY <1>1
<1> HIDE DEF n, half
<1>3. /\ q \in [1 .. n -> 1 .. n]
      /\ \A i, j \in 1 .. n : q[i] = q[j] => i = j
      /\ \A i, j \in 1 .. n : i < j => list[q[i]].value <= list[q[j]].value
  BY <1>1 DEF SortsBy, Codec!ByValue, n
<1>12. \A i \in 1 .. n : list[q[i]].value <= list[q[i]].value
  BY <1>1, <1>3
<1>4. \A k \in 1 .. n : \E i \in 1 .. n : q[i] = k
  BY <1>1, <1>3, IndicesOnto
<1>5. Codec!Below(list, v) \subseteq below
  <2> SUFFICES ASSUME NEW k \in 1 .. n, list[k].value < v PROVE k \in below
    BY <1>1 DEF Codec!Below
  <2>1. PICK i \in 1 .. n : q[i] = k
    BY <1>4
  <2>2. i < m
    <3>1. i = m \/ m < i => v <= list[q[i]].value
      BY <1>2, <1>3, <1>12
    <3>2. v \in Int /\ list[k].value \in Int
      BY <1>1, <1>2, <1>3
    <3> QED
      BY <1>2, <2>1, <3>1, <3>2
  <2>3. i \in 1 .. half
    BY <1>2, <2>2
  <2> QED
    BY <2>1, <2>3
<1>6. Codec!Above(list, v) \subseteq above
  <2> SUFFICES ASSUME NEW k \in 1 .. n, list[k].value > v PROVE k \in above
    BY <1>1 DEF Codec!Above
  <2>1. PICK i \in 1 .. n : q[i] = k
    BY <1>4
  <2>2. i > m
    <3>1. i = m \/ i < m => list[q[i]].value <= v
      BY <1>2, <1>3, <1>12
    <3>2. v \in Int /\ list[k].value \in Int
      BY <1>1, <1>2, <1>3
    <3> QED
      BY <1>2, <2>1, <3>1, <3>2
  <2>3. i \in m + 1 .. n
    BY <1>1, <1>2, <2>2
  <2> QED
    BY <2>1, <2>3
<1>7. IsFiniteSet(below) /\ Cardinality(below) <= half
  <2> DEFINE s == [i \in 1 .. half |-> q[i]]
  <2>1. s \in [1 .. half -> below] /\ \A x \in below : \E i \in 1 .. half : s[i] = x
    OBVIOUS
  <2> HIDE DEF s, below
  <2> QED
    BY <1>2, <2>1, EnumeratedSet
<1>8. IsFiniteSet(above) /\ Cardinality(above) <= n - half - 1
  <2> DEFINE l == n - half - 1
             s == [i \in 1 .. l |-> q[m + i]]
  <2>1. \A i \in 1 .. l : m + i \in m + 1 .. n
    BY <1>1, <1>2
  <2>2. \A k \in m + 1 .. n : k - m \in 1 .. l /\ m + (k - m) = k
    BY <1>1, <1>2
  <2>3. s \in [1 .. l -> above]
    BY <2>1
  <2>4. \A x \in above : \E i \in 1 .. l : s[i] = x
    <3> TAKE x \in above
    <3>1. PICK k \in m + 1 .. n : q[k] = x
      OBVIOUS
    <3>2. k - m \in 1 .. l /\ s[k - m] = x
      BY <2>2, <3>1
    <3> QED
      BY <3>2
  <2> HIDE DEF s, above, l
  <2>5. l \in Nat
    BY <1>2 DEF l
  <2> QED
    BY <2>3, <2>4, <2>5, EnumeratedSet DEF l
<1> HIDE DEF below, above, v, m
<1>9. /\ Cardinality(Codec!Below(list, v)) \in Nat /\ Cardinality(Codec!Below(list, v)) <= half
      /\ Cardinality(Codec!Above(list, v)) \in Nat
      /\ Cardinality(Codec!Above(list, v)) <= n - half - 1
  BY <1>2, <1>5, <1>6, <1>7, <1>8, FS_Subset, FS_CardinalityType
<1>10. /\ 2 * Cardinality(Codec!Below(list, v)) <= n
       /\ 2 * Cardinality(Codec!Above(list, v)) < n
  <2> DEFINE b == Cardinality(Codec!Below(list, v))
             a == Cardinality(Codec!Above(list, v))
  <2> HIDE DEF b, a
  <2>1. b \in Nat /\ b <= half /\ a \in Nat /\ a <= n - half - 1
    BY <1>9 DEF a, b
  <2>2. 2 * b <= n /\ 2 * a < n
    BY <1>1, <1>2, <2>1
  <2> QED
    BY <2>2 DEF a, b
<1>11. Codec!IsMedian(list, v)
  <2>1. /\ Codec!Cardinality(Codec!Below(list, v)) = Cardinality(Codec!Below(list, v))
        /\ Codec!Cardinality(Codec!Above(list, v)) = Cardinality(Codec!Above(list, v))
    BY CodecCardinality
  <2> QED
    BY <1>10, <2>1 DEF Codec!IsMedian, n
<1> QED
  BY <1>11 DEF v, m, half, n

\* Of a whole report the nodes and the contract read the same, and what they
\* read is what was observed.
LEMMA WholeReportReads ==
  ASSUME NEW list \in ObservationLists, NEW bytes, NEW q, IsReport(list, bytes, q)
  PROVE  LET median == Codec!MedianFromReport(bytes)
             decoded == Codec!DecodeReport(bytes)
             n == Len(list)
         IN  /\ median # <<>> /\ decoded # <<>>
             /\ median[1] = Codec!Middle(decoded[1].observations)
             /\ Codec!IsMedian(list, median[1])
             /\ {<<decoded[1].observers[i], decoded[1].observations[i]>> : i \in 1 .. n} =
                  {<<list[i].observer, list[i].value>> : i \in 1 .. n}
             /\ Codec!MedianJuels(list) >= 0 => decoded[1].juels = Codec!MedianJuels(list)
             /\ Len(bytes) = Codec!MaxReportLength(n)
<1> DEFINE n == Len(list)
           observations == [i \in 1 .. n |-> Codec!Signed(bytes[Slots + 2 + i])]
           observers == SubSeq(bytes, 2, MaxOracles + 1)
           juels == bytes[Len(bytes)]
           m == (n \div 2) + 1
<1>1. /\ list \in Seq(Observation) /\ n \in Nat \ {0} /\ n <= MaxOracles /\ MaxOracles <= Slots
      /\ MaxOracles \in Nat /\ Slots \in Nat
  BY ReportAssumption DEF Observation, IsReport
<1>2. /\ SortsBy(q, n, Codec!ByValue(list))
      /\ bytes \in Seq(Int) /\ Len(bytes) = Slots + n + 3 /\ bytes[Slots + 2] = n
      /\ \A i \in 1 .. n : bytes[i + 1] = list[q[i]].observer
      /\ \A i \in 1 .. n : Codec!Signed(bytes[Slots + 2 + i]) = list[q[i]].value
      /\ Codec!MedianJuels(list) >= 0 => bytes[Slots + n + 3] = Codec!MedianJuels(list)
  BY DEF IsReport
<1>3. Len(observations) = n /\ \A i \in 1 .. n : observations[i] = list[q[i]].value
  BY <1>1, <1>2
<1>4. \A i \in 1 .. n : observers[i] = list[q[i]].observer
  <2> SUFFICES ASSUME NEW i \in 1 .. n PROVE observers[i] = list[q[i]].observer
    OBVIOUS
  <2>1. i \in 1 .. MaxOracles /\ MaxOracles + 1 <= Len(bytes)
    BY <1>1, <1>2
  <2>2. observers[i] = bytes[i + 1]
    BY <1>1, <1>2, <2>1
  <2> QED
    BY <1>2, <2>2
<1>5. m \in 1 .. n
  <2> HIDE DEF n
  <2> QED
    BY <1>1
<1> HIDE DEF n
<1>6. /\ Codec!PrefixSize = Slots + 2 /\ Codec!CountOf(bytes) = n
      /\ Codec!MaxReportLength(n) = Slots + 2 + n + 1
      /\ Len(bytes) = Slots + 2 + n + 1 /\ ~(Len(bytes) < Slots + 2)
      /\ ~(Len(bytes) < Slots + 2 + n + 1) /\ n # 0
  BY <1>1, <1>2 DEF Codec!PrefixSize, Codec!CountOf, Codec!MaxReportLength
<1>7. Codec!MedianFromReport(bytes) = <<Codec!Middle(observations)>>
  BY <1>6 DEF Codec!MedianFromReport
<1>8. Codec!DecodeReport(bytes) =
        <<[observers |-> observers, observations |-> observations, juels |-> juels]>>
  BY <1>6 DEF Codec!DecodeReport
<1>9. Codec!Middle(observations) = list[q[m]].value
  BY <1>3, <1>5 DEF Codec!Middle
<1>10. Codec!IsMedian(list, list[q[m]].value)
  BY <1>1, <1>2, MiddleIsMedian DEF n
<1> HIDE DEF observations, observers, juels, m
<1>11. {<<observers[i], observations[i]>> : i \in 1 .. n} =
         {<<list[i].observer, list[i].value>> : i \in 1 .. n}
  <2>1. /\ q \in [1 .. n -> 1 .. n]
        /\ \A k \in 1 .. n : \E i \in 1 .. n : q[i] = k
    <3>1. n \in Nat /\ q \in [1 .. n -> 1 .. n] /\ \A i, j \in 1 .. n : q[i] = q[j] => i = j
      BY <1>1, <1>2 DEF SortsBy
    <3> QED
      BY <3>1, IndicesOnto
  <2>2. \A i \in 1 .. n : q[i] \in 1 .. n
    BY <2>1
  <2> DEFINE read(i) == <<observers[i], observations[i]>>
             made(i) == <<list[i].observer, list[i].value>>
  <2>3. \A i \in 1 .. n : read(i) = made(q[i])
    BY <1>3, <1>4
  <2>4. {read(i) : i \in 1 .. n} = {made(i) : i \in 1 .. n}
    <3> HIDE DEF read, made
    <3> QED
      BY <2>1, <2>2, <2>3
  <2> QED
    BY <2>4
<1>12. Codec!MedianJuels(list) >= 0 => juels = Codec!MedianJuels(list)
  BY <1>1, <1>2 DEF juels
<1> QED
  BY <1>6, <1>7, <1>8, <1>9, <1>10, <1>11, <1>12 DEF n

\* Of a report cut short neither side reads a median; one with bytes to spare
\* the contract refuses.
LEMMA DamagedReportReads ==
  ASSUME NEW list \in ObservationLists, NEW whole, NEW q, IsReport(list, whole, q), NEW bytes,
         \/ \E n \in 0 .. Len(whole) - 1 : bytes = SubSeq(whole, 1, n)
         \/ bytes = Append(whole, 0)
  PROVE  /\ Codec!DecodeReport(bytes) = <<>>
         /\ Len(bytes) < Codec!MaxReportLength(Len(list)) => Codec!MedianFromReport(bytes) = <<>>
<1> DEFINE n == Len(list)
<1>1. /\ n \in Nat \ {0} /\ Slots \in Nat
      /\ whole \in Seq(Int) /\ Len(whole) = Slots + n + 3 /\ whole[Slots + 2] = n
  BY ReportAssumption DEF IsReport
<1>2. Codec!PrefixSize = Slots + 2 /\ Codec!MaxReportLength(n) = Slots + 2 + n + 1
  BY DEF Codec!PrefixSize, Codec!MaxReportLength
<1> HIDE DEF n
<1>3. /\ Len(bytes) \in Nat /\ Len(bytes) # Slots + n + 3
      /\ ~(Len(bytes) < Slots + 2) => bytes[Slots + 2] = n
  <2>1. CASE \E k \in 0 .. Len(whole) - 1 : bytes = SubSeq(whole, 1, k)
    <3>1. PICK k \in 0 .. Len(whole) - 1 : bytes = SubSeq(whole, 1, k)
      BY <2>1
    <3>2. Len(bytes) = k /\ \A i \in 1 .. k : bytes[i] = whole[i]
      BY <1>1, <3>1
    <3>3. k >= Slots + 2 => Slots + 2 \in 1 .. k
      BY <1>1, <3>1
    <3> QED
      BY <1>1, <3>1, <3>2, <3>3
  <2>2. CASE bytes = Append(whole, 0)
    <3>1. Len(bytes) = Slots + n + 4 /\ \A i \in 1 .. Len(whole) : bytes[i] = whole[i]
      <4>1. ASSUME NEW t \in Seq(Int), NEW e \in Int
            PROVE  /\ Len(Append(t, e)) = Len(t) + 1
                   /\ \A i \in 1 .. Len(t) : Append(t, e)[i] = t[i]
        OBVIOUS
      <4>2. /\ Len(bytes) = Len(whole) + 1
            /\ \A i \in 1 .. Len(whole) : bytes[i] = whole[i]
        <5>1. whole \in Seq(Int) /\ 0 \in Int
          BY <1>1
        <5>2. /\ Len(Append(whole, 0)) = Len(whole) + 1
              /\ \A i \in 1 .. Len(whole) : Append(whole, 0)[i] = whole[i]
          BY ONLY <4>1, <5>1
        <5> QED
          BY <2>2, <5>2, Zenon
      <4>3. Len(whole) + 1 = Slots + n + 4
        BY <1>1
      <4> QED
        BY <4>2, <4>3
    <3>2. Slots + 2 \in 1 .. Len(whole)
      BY <1>1
    <3> QED
      BY <1>1, <3>1, <3>2
  <2> QED
    BY <2>1, <2>2
<1>4. Codec!DecodeReport(bytes) = <<>>
  BY <1>1, <1>2, <1>3 DEF Codec!DecodeReport, Codec!None, Codec!CountOf, Codec!MaxReportLength
<1>5. Len(bytes) < Slots + 2 + n + 1 => Codec!MedianFromReport(bytes) = <<>>
  BY <1>1, <1>2, <1>3 DEF Codec!MedianFromReport, Codec!None, Codec!CountOf, Codec!MaxReportLength
<1> QED
  BY <1>2, <1>4, <1>5 DEF n

\* The report in hand: whole, cut short, or with a byte too many.
InHand(list, whole) ==
  \/ report = [list |-> list, bytes |-> whole, whole |-> TRUE]
  \/ \E bytes :
       /\ report = [list |-> list, bytes |-> bytes, whole |-> FALSE]
       /\ \/ \E n \in 0 .. Len(whole) - 1 : bytes = SubSeq(whole, 1, n)
          \/ bytes = Append(whole, 0)

ReportInv ==
  \/ report = <<>>
  \/ \E list \in ObservationLists : \E whole : \E q :
       IsReport(list, whole, q) /\ InHand(list, whole)

LEMMA ReportStep == ReportInv /\ [Codec!Next]_report => ReportInv'
<1> SUFFICES ASSUME ReportInv, [Codec!Next]_report PROVE ReportInv'
  OBVIOUS
<1>1. CASE Codec!Build
  <2>1. PICK list \in ObservationLists : \E bytes \in Codec!BuildReport(list) :
               report' = [list |-> list, bytes |-> bytes, whole |-> TRUE]
    BY <1>1 DEF Codec!Build
  <2>2. PICK bytes \in Codec!BuildReport(list) :
               report' = [list |-> list, bytes |-> bytes, whole |-> TRUE]
    BY <2>1
  <2>3. PICK q : IsReport(list, bytes, q)
    BY ReportBuilt
  <2> QED
    BY <2>2, <2>3 DEF ReportInv, InHand
<1>2. CASE Codec!Damage
  <2>1. report # <<>> /\ report.whole
    BY <1>2 DEF Codec!Damage, Codec!None
  <2>5. PICK list \in ObservationLists : \E whole : \E q :
          IsReport(list, whole, q) /\ report = [list |-> list, bytes |-> whole, whole |-> TRUE]
    BY <2>1 DEF ReportInv, InHand
  <2>2. PICK whole, q :
          IsReport(list, whole, q) /\ report = [list |-> list, bytes |-> whole, whole |-> TRUE]
    BY <2>5
  <2>3. PICK bytes : /\ \/ \E n \in 0 .. Len(whole) - 1 : bytes = SubSeq(whole, 1, n)
                        \/ bytes = Append(whole, 0)
                     /\ report' = [report EXCEPT !.bytes = bytes, !.whole = FALSE]
    BY <1>2, <2>2 DEF Codec!Damage
  <2>4. report' = [list |-> list, bytes |-> bytes, whole |-> FALSE]
    BY <2>2, <2>3
  <2> QED
    BY <2>2, <2>3, <2>4 DEF ReportInv, InHand
<1>3. CASE UNCHANGED report
  BY <1>3 DEF ReportInv, InHand
<1> QED
  BY <1>1, <1>2, <1>3 DEF Codec!Next

\* The contract publishes the very median the nodes agreed on, which is one of
\* the observations as listed, and neither side reads a median from a report cut
\* short: for reports of any number of observations of any width
\* (ReportCodec.BuildReport, MedianFromReport, decode_report).
THEOREM ReportsRead == Codec!Spec => []ReportUnderstood
<1>1. Codec!Init => ReportInv
  BY DEF Codec!Init, Codec!None, ReportInv
<1>2. ReportInv => ReportUnderstood
  <2> SUFFICES ASSUME ReportInv, report # <<>> PROVE Codec!ReportUnderstood
    BY DEF ReportUnderstood, Codec!ReportUnderstood, Codec!None
  <2>4. PICK list \in ObservationLists : \E whole : \E q :
          IsReport(list, whole, q) /\ InHand(list, whole)
    BY DEF ReportInv, InHand
  <2>1. PICK whole, q : IsReport(list, whole, q) /\ InHand(list, whole)
    BY <2>4
  <2>2. CASE report = [list |-> list, bytes |-> whole, whole |-> TRUE]
    <3>1. report.whole /\ report.list = list /\ report.bytes = whole
      BY <2>2
    <3> QED
      BY <2>1, <3>1, WholeReportReads DEF Codec!ReportUnderstood, Codec!None
  <2>3. ASSUME NEW bytes, report = [list |-> list, bytes |-> bytes, whole |-> FALSE],
               \/ \E n \in 0 .. Len(whole) - 1 : bytes = SubSeq(whole, 1, n)
               \/ bytes = Append(whole, 0)
        PROVE  Codec!ReportUnderstood
    <3>1. ~report.whole /\ report.list = list /\ report.bytes = bytes
      BY <2>3
    <3> QED
      BY <2>1, <2>3, <3>1, DamagedReportReads DEF Codec!ReportUnderstood, Codec!None
  <2> QED
    BY <2>1, <2>2, <2>3 DEF InHand
<1> QED
  BY <1>1, <1>2, ReportStep, PTL DEF Codec!Spec
-----------------------------------------------------------------------------
(* The configuration of an aggregator *)

\* A longer sequence of cells that begins with the cells of b.
Begins(d, b) == d \in Seq(Int) /\ Len(b) <= Len(d) /\ \A i \in 1 .. Len(b) : d[i] = b[i]

LEMMA BeginsStill ==
  ASSUME NEW b \in Seq(Int), NEW d, Begins(d, b), NEW s \in Seq(Int)
  PROVE  Begins(d \o s, b)
<1>1. d \in Seq(Int) /\ Len(b) <= Len(d) /\ \A i \in 1 .. Len(b) : d[i] = b[i]
  BY DEF Begins
<1>2. d \o s \in Seq(Int) /\ Len(d \o s) = Len(d) + Len(s)
  BY <1>1
<1>3. \A i \in 1 .. Len(d) : (d \o s)[i] = d[i]
  BY <1>1
<1>4. \A i \in 1 .. Len(b) : i \in 1 .. Len(d)
  BY <1>1
<1> QED
  BY <1>1, <1>2, <1>3, <1>4 DEF Begins

LEMMA ColumnsAre ==
  ASSUME NEW p \in Proposals
  PROVE  /\ p.oracles \in Seq([signer : Int, transmitter : Int, payee : Int])
         /\ p.f \in Int /\ p.version \in Int /\ p.offchain \in Seq(Int)
         /\ Len(p.oracles) \in Nat /\ Len(p.offchain) \in Nat /\ Len(OnchainConfig) \in Nat
         /\ \A key \in {"signer", "transmitter", "payee"} :
              /\ Wasm!Column(p.oracles, key) \in Seq(Int)
              /\ Len(Wasm!Column(p.oracles, key)) = Len(p.oracles)
              /\ Wasm!Column(p.oracles, key) = [i \in 1 .. Len(p.oracles) |-> p.oracles[i][key]]
<1>1. /\ p.oracles \in Seq([signer : Int, transmitter : Int, payee : Int])
      /\ p.f \in Int /\ p.version \in Int /\ p.offchain \in Seq(Int)
  BY ConfigAssumption
<1>2. ASSUME NEW key \in {"signer", "transmitter", "payee"}
      PROVE  Wasm!Column(p.oracles, key) \in [1 .. Len(p.oracles) -> Int]
  <2>1. \A i \in 1 .. Len(p.oracles) : p.oracles[i][key] \in Int
    <3> TAKE i \in 1 .. Len(p.oracles)
    <3>1. ASSUME NEW S, NEW q \in Seq(S), NEW j \in 1 .. Len(q) PROVE q[j] \in S
      BY <3>1
    <3>2. p.oracles[i] \in [signer : Int, transmitter : Int, payee : Int]
      BY <1>1, <3>1
    <3> QED
      BY <3>2
  <2>2. DOMAIN p.oracles = 1 .. Len(p.oracles)
    BY <1>1
  <2> QED
    BY <2>1, <2>2 DEF Wasm!Column
<1>3. Len(p.oracles) \in Nat /\ DOMAIN p.oracles = 1 .. Len(p.oracles)
  BY <1>1
<1>6. Len(p.offchain) \in Nat /\ Len(OnchainConfig) \in Nat
  BY <1>1, ConfigAssumption
<1>4. ASSUME NEW n \in Nat, NEW c \in [1 .. n -> Int] PROVE c \in Seq(Int) /\ Len(c) = n
  OBVIOUS
<1>5. \A key : Wasm!Column(p.oracles, key) = [i \in 1 .. Len(p.oracles) |-> p.oracles[i][key]]
  BY <1>3 DEF Wasm!Column
<1> QED
  BY <1>1, <1>2, <1>3, <1>4, <1>5, <1>6

\* What a digest says first: whose configuration it is, and its number.
LEMMA DigestBegins ==
  ASSUME NEW place \in Contracts, NEW count \in Int, NEW p \in Proposals
  PROVE  /\ place.chain \in Seq(Int)
         /\ Begins(Wasm!DigestFromData(place, count, p),
                   <<Len(place.chain)>> \o place.chain
                     \o <<place.contract, count, Len(p.oracles)>>)
<1> DEFINE b == <<Len(place.chain)>> \o place.chain
                  \o <<place.contract, count, Len(p.oracles)>>
           s == Wasm!Column(p.oracles, "signer")
           t == Wasm!Column(p.oracles, "transmitter")
           u == <<p.f, Len(OnchainConfig)>>
           v == <<p.version, Len(p.offchain)>>
           d == p.offchain
<1>1. place.chain \in Seq(Int) /\ place.contract \in Int
  BY ConfigAssumption
<1>2. OnchainConfig \in Seq(Int)
  BY ConfigAssumption
<1>3. s \in Seq(Int) /\ t \in Seq(Int) /\ u \in Seq(Int) /\ v \in Seq(Int) /\ d \in Seq(Int)
  <2>1. /\ p.f \in Int /\ p.version \in Int
        /\ Len(p.offchain) \in Nat /\ Len(OnchainConfig) \in Nat
    BY ColumnsAre
  <2>2. u \in Seq(Int) /\ v \in Seq(Int)
    BY <2>1
  <2> QED
    BY <2>2, ColumnsAre
<1>4. b \in Seq(Int)
  <2>1. Len(p.oracles) \in Int
    BY ColumnsAre
  <2> QED
    BY <1>1, <2>1
<1>5. Wasm!DigestFromData(place, count, p) = b \o s \o t \o u \o OnchainConfig \o v \o d
  BY DEF Wasm!DigestFromData
<1> HIDE DEF b, s, t, u, v, d
<1>6. Begins(b \o s, b)
  <2>1. Begins(b, b)
    BY <1>4 DEF Begins
  <2> QED
    BY <1>3, <1>4, <2>1, BeginsStill
<1>7. Begins(b \o s \o t \o u, b)
  <2>1. Begins(b \o s \o t, b)
    BY <1>3, <1>4, <1>6, BeginsStill
  <2> QED
    BY <1>3, <1>4, <2>1, BeginsStill
<1>8. Begins(b \o s \o t \o u \o OnchainConfig, b)
  BY <1>2, <1>4, <1>7, BeginsStill
<1>9. Begins(b \o s \o t \o u \o OnchainConfig \o v, b)
  BY <1>3, <1>4, <1>8, BeginsStill
<1>10. Begins(b \o s \o t \o u \o OnchainConfig \o v \o d, b)
  BY <1>3, <1>4, <1>9, BeginsStill
<1> QED
  BY <1>1, <1>5, <1>10 DEF b

\* So one digest is of one contract's, and of one number.
LEMMA DigestTellsConfig ==
  ASSUME NEW place1 \in Contracts, NEW count1 \in Int, NEW p1 \in Proposals,
         NEW place2 \in Contracts, NEW count2 \in Int, NEW p2 \in Proposals,
         Wasm!DigestFromData(place1, count1, p1) = Wasm!DigestFromData(place2, count2, p2)
  PROVE  place1 = place2 /\ count1 = count2
<1> DEFINE d == Wasm!DigestFromData(place1, count1, p1)
<1>1. ASSUME NEW place \in Contracts, NEW count \in Int, NEW p \in Proposals,
             d = Wasm!DigestFromData(place, count, p)
      PROVE  /\ place.chain \in Seq(Int)
             /\ d[1] = Len(place.chain)
             /\ \A i \in 1 .. Len(place.chain) : d[i + 1] = place.chain[i]
             /\ d[Len(place.chain) + 2] = place.contract
             /\ d[Len(place.chain) + 3] = count
  <2> DEFINE n == Len(place.chain)
             a == <<n>> \o place.chain
             m == <<place.contract, count, Len(p.oracles)>>
             b == a \o m
  <2>1. place.chain \in Seq(Int) /\ place.contract \in Int /\ Len(p.oracles) \in Int /\ n \in Nat
    <3>1. place.chain \in Seq(Int) /\ place.contract \in Int
      BY ConfigAssumption
    <3>2. Len(p.oracles) \in Int
      BY ColumnsAre
    <3> QED
      BY <3>1, <3>2
  <2>2. Begins(d, b)
    BY <1>1, DigestBegins
  <2>3. /\ a \in Seq(Int) /\ Len(a) = n + 1 /\ a[1] = n
        /\ \A i \in 1 .. n : a[i + 1] = place.chain[i]
    BY <2>1
  <2>4. m \in Seq(Int) /\ Len(m) = 3 /\ m[1] = place.contract /\ m[2] = count
    BY <2>1
  <2> HIDE DEF a, m, n
  <2>5. Joins(Int, b, a, m, n + 1, 3)
    BY <2>3, <2>4, Joined
  <2> HIDE DEF b
  <2>6. Len(b) = n + 4 /\ \A i \in 1 .. n + 4 : d[i] = b[i]
    BY <2>1, <2>2, <2>5 DEF Begins, Joins
  <2>7. d[1] = n
    BY <2>1, <2>3, <2>5, <2>6 DEF Joins
  <2>8. \A i \in 1 .. n : d[i + 1] = place.chain[i]
    <3> TAKE i \in 1 .. n
    <3>1. i + 1 \in 1 .. n + 1 /\ i + 1 \in 1 .. n + 4
      BY <2>1
    <3> QED
      BY <2>3, <2>5, <2>6, <3>1 DEF Joins
  <2>9. d[n + 2] = place.contract /\ d[n + 3] = count
    <3>1. /\ n + 2 \in 1 .. n + 4 /\ n + 3 \in 1 .. n + 4 /\ 1 \in 1 .. 3 /\ 2 \in 1 .. 3
          /\ (n + 1) + 1 = n + 2 /\ (n + 1) + 2 = n + 3
      BY <2>1
    <3>2. b[(n + 1) + 1] = m[1] /\ b[(n + 1) + 2] = m[2]
      BY <2>5, <3>1 DEF Joins
    <3> QED
      BY <2>4, <2>6, <3>1, <3>2
  <2> QED
    BY <2>1, <2>7, <2>8, <2>9 DEF n
<1> HIDE DEF d
<1>2. Len(place1.chain) = Len(place2.chain) /\ place1.contract = place2.contract /\ count1 = count2
  BY <1>1 DEF d
<1>3. \A i \in 1 .. Len(place1.chain) : place1.chain[i] = place2.chain[i]
  BY <1>1, <1>2 DEF d
<1>4. place1.chain = place2.chain
  <2>1. ASSUME NEW a \in Seq(Int), NEW b \in Seq(Int), Len(a) = Len(b),
               \A i \in 1 .. Len(a) : a[i] = b[i]
        PROVE  a = b
    BY <2>1
  <2> QED
    BY <1>2, <1>3, <2>1, ConfigAssumption
<1>5. /\ place1 = [chain |-> place1.chain, contract |-> place1.contract]
      /\ place2 = [chain |-> place2.chain, contract |-> place2.contract]
  <2>1. Contracts \subseteq [chain : Seq(Int), contract : Int]
    BY ConfigAssumption
  <2>2. ASSUME NEW S, NEW T, NEW r \in [chain : S, contract : T]
        PROVE  r = [chain |-> r.chain, contract |-> r.contract]
    OBVIOUS
  <2> QED
    BY <2>1, <2>2
<1> QED
  BY <1>2, <1>4, <1>5

LEMMA WasmCardinality == \A S : Wasm!Cardinality(S) = Cardinality(S)
  BY DEF Wasm!Cardinality, Cardinality

AcceptedAt(place) == {a \in accepted : a.place = place}

\* What a contract accepted is numbered from one on, and its digest is of it.
AcceptedInv ==
  /\ IsFiniteSet(accepted)
  /\ \A a \in accepted :
       /\ a.place \in Contracts /\ a.proposal \in Proposals
       /\ a.count \in Nat /\ a.count <= Cardinality(AcceptedAt(a.place))
       /\ a.digest = Wasm!DigestFromData(a.place, a.count, a.proposal)
  /\ \A a, b \in accepted : a.place = b.place /\ a.count = b.count => a = b

LEMMA AcceptedStep == AcceptedInv /\ [Wasm!Next]_Wasm!wasmVars => AcceptedInv'
<1> SUFFICES ASSUME AcceptedInv, [Wasm!Next]_Wasm!wasmVars PROVE AcceptedInv'
  OBVIOUS
<1>1. ASSUME NEW place \in Contracts, NEW p \in Proposals, Wasm!AcceptProposal(place, p)
      PROVE  AcceptedInv'
  <2> DEFINE count == Cardinality(AcceptedAt(place)) + 1
             new == [place |-> place, count |-> count, proposal |-> p,
                     digest |-> Wasm!DigestFromData(place, count, p)]
  <2>1. accepted' = accepted \cup {new}
    <3>1. Wasm!CountAt(place) = count
      BY WasmCardinality DEF Wasm!CountAt, AcceptedAt
    <3> QED
      BY <1>1, <3>1 DEF Wasm!AcceptProposal
  <2>2. /\ new.place = place /\ new.count = count /\ new.proposal = p
        /\ new.digest = Wasm!DigestFromData(place, count, p)
    OBVIOUS
  <2>3. \A at : IsFiniteSet(AcceptedAt(at)) /\ Cardinality(AcceptedAt(at)) \in Nat
    <3> TAKE at
    <3>1. AcceptedAt(at) \in SUBSET accepted
      BY DEF AcceptedAt
    <3> QED
      BY <3>1, FS_Subset, FS_CardinalityType DEF AcceptedInv
  <2>4. count \in Nat
    BY <2>3
  <2>5. \A a \in accepted : a.place = place => a.count < count
    BY <2>3 DEF AcceptedInv
  <2> HIDE DEF new
  <2>6. IsFiniteSet(accepted')
    BY <2>1, FS_AddElement DEF AcceptedInv
  <2>7. new \notin accepted
    BY <2>2, <2>4, <2>5
  <2>8. \A at : Cardinality(AcceptedAt(at)') = IF at = place THEN count ELSE Cardinality(AcceptedAt(at))
    <3> TAKE at
    <3>1. CASE at = place
      <4>1. AcceptedAt(at)' = AcceptedAt(at) \cup {new} /\ new \notin AcceptedAt(at)
        BY <2>1, <2>2, <2>7, <3>1 DEF AcceptedAt
      <4> QED
        BY <2>3, <3>1, <4>1, FS_AddElement
    <3>2. CASE at # place
      <4>1. AcceptedAt(at)' = AcceptedAt(at)
        BY <2>1, <2>2, <3>2 DEF AcceptedAt
      <4> QED
        BY <3>2, <4>1
    <3> QED
      BY <3>1, <3>2
  <2>9. \A at : Cardinality(AcceptedAt(at)) <= Cardinality(AcceptedAt(at)')
    BY <2>3, <2>8
  <2>10. \A a \in accepted' :
           /\ a.place \in Contracts /\ a.proposal \in Proposals
           /\ a.count \in Nat /\ a.count <= Cardinality(AcceptedAt(a.place)')
           /\ a.digest = Wasm!DigestFromData(a.place, a.count, a.proposal)
    <3> TAKE a \in accepted'
    <3>1. CASE a = new
      BY <2>2, <2>4, <2>8, <3>1
    <3>2. CASE a \in accepted
      <4>1. a.count \in Nat /\ a.count <= Cardinality(AcceptedAt(a.place))
        BY <3>2 DEF AcceptedInv
      <4>2. a.count <= Cardinality(AcceptedAt(a.place)')
        BY <2>3, <2>4, <2>8, <2>9, <4>1
      <4> QED
        BY <3>2, <4>1, <4>2 DEF AcceptedInv
    <3> QED
      BY <2>1, <3>1, <3>2
  <2>11. \A a, b \in accepted' : a.place = b.place /\ a.count = b.count => a = b
    <3> SUFFICES ASSUME NEW a \in accepted', NEW b \in accepted',
                        a.place = b.place, a.count = b.count
                 PROVE  a = b
      OBVIOUS
    <3>1. CASE a \in accepted /\ b \in accepted
      BY <3>1 DEF AcceptedInv
    <3>2. ASSUME NEW c \in accepted, c.place = place, c.count = count PROVE FALSE
      BY <2>4, <2>5, <3>2
    <3> QED
      BY <2>1, <2>2, <3>1, <3>2
  <2> QED
    BY <2>6, <2>10, <2>11 DEF AcceptedInv, AcceptedAt
<1>2. CASE Wasm!Disturb \/ UNCHANGED Wasm!wasmVars
  <2>1. accepted' = accepted
    BY <1>2 DEF Wasm!Disturb, Wasm!wasmVars
  <2> QED
    BY <2>1 DEF AcceptedInv, AcceptedAt
<1> QED
  BY <1>1, <1>2 DEF Wasm!Next

EventKeys ==
  Wasm!UniqueKeys \cup Wasm!ListKeys
    \cup {"_contract_address", "previous_config_block_number", "payees"}

EventAttribute == [key : EventKeys, value : Int \cup Seq(Int)]

\* The key of attribute i of an event that tells a set of n oracles.
KeyAt(n, i) ==
  IF i = 1 THEN "_contract_address"
  ELSE IF i = 2 THEN "previous_config_block_number"
  ELSE IF i = 3 THEN "latest_config_digest"
  ELSE IF i = 4 THEN "config_count"
  ELSE IF i <= n + 4 THEN "signers"
  ELSE IF i <= 2 * n + 4 THEN "transmitters"
  ELSE IF i <= 3 * n + 4 THEN "payees"
  ELSE IF i = 3 * n + 5 THEN "f"
  ELSE IF i = 3 * n + 6 THEN "onchain_config"
  ELSE IF i = 3 * n + 7 THEN "offchain_config_version"
  ELSE "offchain_config"

\* Where an event tells what.
Tells(a, n, place, count, p) ==
  /\ a \in Seq(EventAttribute) /\ Len(a) = 3 * n + 8
  /\ \A i \in 1 .. Len(a) : a[i].key = KeyAt(n, i)
  /\ a[3].value = Wasm!DigestFromData(place, count, p) /\ a[4].value = count
  /\ \A i \in 1 .. n :
       /\ a[i + 4].value = Wasm!Column(p.oracles, "signer")[i]
       /\ a[n + i + 4].value = Wasm!Column(p.oracles, "transmitter")[i]
  /\ a[3 * n + 5].value = p.f /\ a[3 * n + 6].value = OnchainConfig
  /\ a[3 * n + 7].value = p.version /\ a[3 * n + 8].value = p.offchain

\* Attributes of one key, with these values.
Lists(attributes, key, n, values) ==
  /\ attributes \in Seq(EventAttribute) /\ Len(attributes) = n
  /\ \A i \in 1 .. n : attributes[i].key = key /\ attributes[i].value = values[i]

LEMMA ListAttributes ==
  ASSUME NEW key \in EventKeys, NEW n \in Nat, NEW values \in Seq(Int), Len(values) = n
  PROVE  Lists(Wasm!Attributes(key, values), key, n, values)
<1> DEFINE attributes == [i \in 1 .. n |-> [key |-> key, value |-> values[i]]]
<1>1. Wasm!Attributes(key, values) = attributes
  BY DEF Wasm!Attributes, Wasm!Attribute
<1>2. \A i \in 1 .. n : values[i] \in Int \cup Seq(Int)
  OBVIOUS
<1>3. attributes \in [1 .. n -> EventAttribute]
  BY <1>2 DEF EventAttribute
<1>4. ASSUME NEW f \in [1 .. n -> EventAttribute] PROVE f \in Seq(EventAttribute) /\ Len(f) = n
  OBVIOUS
<1>5. attributes \in Seq(EventAttribute) /\ Len(attributes) = n
  BY <1>3, <1>4
<1>6. \A i \in 1 .. n : attributes[i].key = key /\ attributes[i].value = values[i]
  OBVIOUS
<1> QED
  BY <1>1, <1>5, <1>6 DEF Lists

LEMMA EventTells ==
  ASSUME NEW place \in Contracts, NEW count \in Int, NEW p \in Proposals
  PROVE  Tells(Wasm!SetConfig(place, count, p), Len(p.oracles), place, count, p)
<1> DEFINE n == Len(p.oracles)
           digest == Wasm!DigestFromData(place, count, p)
           column(key) == Wasm!Column(p.oracles, key)
           head == <<Wasm!Attribute("_contract_address", place.contract),
                     Wasm!Attribute("previous_config_block_number", 0),
                     Wasm!Attribute("latest_config_digest", digest),
                     Wasm!Attribute("config_count", count)>>
           s == Wasm!Attributes("signers", column("signer"))
           t == Wasm!Attributes("transmitters", column("transmitter"))
           u == Wasm!Attributes("payees", column("payee"))
           tail == <<Wasm!Attribute("f", p.f), Wasm!Attribute("onchain_config", OnchainConfig),
                     Wasm!Attribute("offchain_config_version", p.version),
                     Wasm!Attribute("offchain_config", p.offchain)>>
           hs == head \o s
           hst == hs \o t
           hstu == hst \o u
           a == hstu \o tail
<1>1. /\ n \in Nat /\ p.f \in Int /\ p.version \in Int /\ p.offchain \in Seq(Int)
      /\ \A key \in {"signer", "transmitter", "payee"} :
           column(key) \in Seq(Int) /\ Len(column(key)) = n
  BY ColumnsAre
<1>2. place.contract \in Int /\ OnchainConfig \in Seq(Int)
  BY ConfigAssumption
<1>3. digest \in Seq(Int)
  BY DigestBegins DEF Begins
<1>4. Wasm!SetConfig(place, count, p) = a
  BY DEF Wasm!SetConfig
<1> HIDE DEF n, digest, column
<1>5. /\ head \in Seq(EventAttribute) /\ Len(head) = 4
      /\ head[1].key = "_contract_address" /\ head[2].key = "previous_config_block_number"
      /\ head[3].key = "latest_config_digest" /\ head[3].value = digest
      /\ head[4].key = "config_count" /\ head[4].value = count
  <2>1. \A key \in EventKeys : \A v \in Int \cup Seq(Int) : Wasm!Attribute(key, v) \in EventAttribute
    BY DEF Wasm!Attribute, EventAttribute
  <2>4. \A key \in EventKeys : \A v \in Int : Wasm!Attribute(key, v) \in EventAttribute
    BY <2>1
  <2>5. \A key \in EventKeys : \A v \in Seq(Int) : Wasm!Attribute(key, v) \in EventAttribute
    BY <2>1
  <2>2. /\ Wasm!Attribute("_contract_address", place.contract) \in EventAttribute
        /\ Wasm!Attribute("previous_config_block_number", 0) \in EventAttribute
        /\ Wasm!Attribute("latest_config_digest", digest) \in EventAttribute
        /\ Wasm!Attribute("config_count", count) \in EventAttribute
    BY <1>2, <1>3, <2>4, <2>5 DEF EventKeys, Wasm!UniqueKeys
  <2>3. head \in Seq(EventAttribute)
    BY <2>2
  <2> QED
    BY <2>3 DEF Wasm!Attribute
<1>6. /\ tail \in Seq(EventAttribute) /\ Len(tail) = 4
      /\ tail[1].key = "f" /\ tail[1].value = p.f
      /\ tail[2].key = "onchain_config" /\ tail[2].value = OnchainConfig
      /\ tail[3].key = "offchain_config_version" /\ tail[3].value = p.version
      /\ tail[4].key = "offchain_config" /\ tail[4].value = p.offchain
  <2>1. \A key \in EventKeys : \A v \in Int \cup Seq(Int) : Wasm!Attribute(key, v) \in EventAttribute
    BY DEF Wasm!Attribute, EventAttribute
  <2>4. \A key \in EventKeys : \A v \in Int : Wasm!Attribute(key, v) \in EventAttribute
    BY <2>1
  <2>5. \A key \in EventKeys : \A v \in Seq(Int) : Wasm!Attribute(key, v) \in EventAttribute
    BY <2>1
  <2>2. /\ Wasm!Attribute("f", p.f) \in EventAttribute
        /\ Wasm!Attribute("onchain_config", OnchainConfig) \in EventAttribute
        /\ Wasm!Attribute("offchain_config_version", p.version) \in EventAttribute
        /\ Wasm!Attribute("offchain_config", p.offchain) \in EventAttribute
    BY <1>1, <1>2, <2>4, <2>5 DEF EventKeys, Wasm!UniqueKeys
  <2>3. tail \in Seq(EventAttribute)
    BY <2>2
  <2> QED
    BY <2>3 DEF Wasm!Attribute
<1>7. /\ s \in Seq(EventAttribute) /\ Len(s) = n
      /\ \A i \in 1 .. n : s[i].key = "signers" /\ s[i].value = column("signer")[i]
  <2>1. Lists(s, "signers", n, column("signer"))
    BY <1>1, ListAttributes DEF EventKeys, Wasm!ListKeys
  <2> QED
    BY <2>1 DEF Lists
<1>8. /\ t \in Seq(EventAttribute) /\ Len(t) = n
      /\ \A i \in 1 .. n : t[i].key = "transmitters" /\ t[i].value = column("transmitter")[i]
  <2>1. Lists(t, "transmitters", n, column("transmitter"))
    BY <1>1, ListAttributes DEF EventKeys, Wasm!ListKeys
  <2> QED
    BY <2>1 DEF Lists
<1>9. u \in Seq(EventAttribute) /\ Len(u) = n /\ \A i \in 1 .. n : u[i].key = "payees"
  <2>1. Lists(u, "payees", n, column("payee"))
    BY <1>1, ListAttributes DEF EventKeys, Wasm!ListKeys
  <2> QED
    BY <2>1 DEF Lists
<1> HIDE DEF head, s, t, u, tail
<1>10. Joins(EventAttribute, hs, head, s, 4, n)
  BY <1>5, <1>7, Joined
<1> HIDE DEF hs
<1>11. Joins(EventAttribute, hst, hs, t, n + 4, n)
  <2>1. hs \in Seq(EventAttribute) /\ Len(hs) = n + 4
    BY <1>1, <1>10 DEF Joins
  <2> QED
    BY <1>8, <2>1, Joined
<1> HIDE DEF hst
<1>12. Joins(EventAttribute, hstu, hst, u, 2 * n + 4, n)
  <2>1. hst \in Seq(EventAttribute) /\ Len(hst) = 2 * n + 4
    BY <1>1, <1>11 DEF Joins
  <2> QED
    BY <1>9, <2>1, Joined
<1> HIDE DEF hstu
<1>13. Joins(EventAttribute, a, hstu, tail, 3 * n + 4, 4)
  <2>1. hstu \in Seq(EventAttribute) /\ Len(hstu) = 3 * n + 4
    BY <1>1, <1>12 DEF Joins
  <2> QED
    BY <1>6, <2>1, Joined
<1> HIDE DEF a
<1>14. a \in Seq(EventAttribute) /\ Len(a) = 3 * n + 8
  BY <1>1, <1>13 DEF Joins
<1>15. \A i \in 1 .. 4 : a[i] = head[i]
  <2> TAKE i \in 1 .. 4
  <2>1. i \in 1 .. n + 4 /\ i \in 1 .. 2 * n + 4 /\ i \in 1 .. 3 * n + 4
    BY <1>1
  <2> QED
    BY <1>10, <1>11, <1>12, <1>13, <2>1 DEF Joins
<1>16. \A i \in 1 .. n : a[i + 4] = s[i]
  <2> TAKE i \in 1 .. n
  <2>1. /\ 4 + i = i + 4
        /\ i + 4 \in 1 .. n + 4 /\ i + 4 \in 1 .. 2 * n + 4 /\ i + 4 \in 1 .. 3 * n + 4
    BY <1>1
  <2> QED
    BY <1>10, <1>11, <1>12, <1>13, <2>1 DEF Joins
<1>17. \A i \in 1 .. n : a[n + i + 4] = t[i]
  <2> TAKE i \in 1 .. n
  <2>1. /\ (n + 4) + i = n + i + 4
        /\ n + i + 4 \in 1 .. 2 * n + 4 /\ n + i + 4 \in 1 .. 3 * n + 4
    BY <1>1
  <2>2. hst[n + i + 4] = t[i]
    BY <1>11, <2>1 DEF Joins
  <2> QED
    BY <1>12, <1>13, <2>1, <2>2 DEF Joins
<1>18. \A i \in 1 .. n : a[2 * n + i + 4] = u[i]
  <2> TAKE i \in 1 .. n
  <2>1. (2 * n + 4) + i = 2 * n + i + 4 /\ 2 * n + i + 4 \in 1 .. 3 * n + 4
    BY <1>1
  <2>2. hstu[2 * n + i + 4] = u[i]
    BY <1>12, <2>1 DEF Joins
  <2> QED
    BY <1>13, <2>1, <2>2 DEF Joins
<1>19. /\ a[3 * n + 5] = tail[1] /\ a[3 * n + 6] = tail[2]
       /\ a[3 * n + 7] = tail[3] /\ a[3 * n + 8] = tail[4]
  <2>1. \A i \in 1 .. 4 : a[(3 * n + 4) + i] = tail[i]
    BY <1>13 DEF Joins
  <2>2. /\ (3 * n + 4) + 1 = 3 * n + 5 /\ (3 * n + 4) + 2 = 3 * n + 6
        /\ (3 * n + 4) + 3 = 3 * n + 7 /\ (3 * n + 4) + 4 = 3 * n + 8
    BY <1>1
  <2> QED
    BY <2>1, <2>2
<1>20. \A i \in 1 .. Len(a) : a[i].key = KeyAt(n, i)
  <2> TAKE i \in 1 .. Len(a)
  <2>1. CASE i \in 1 .. 4
    <3>1. i = 1 \/ i = 2 \/ i = 3 \/ i = 4
      BY <2>1
    <3> QED
      BY <1>5, <1>15, <3>1 DEF KeyAt
  <2>2. CASE i \in 5 .. n + 4
    <3>1. i - 4 \in 1 .. n /\ (i - 4) + 4 = i
      BY <1>1, <2>2
    <3>2. a[i].key = "signers"
      BY <1>7, <1>16, <3>1
    <3> QED
      BY <2>2, <3>2 DEF KeyAt
  <2>3. CASE i \in n + 5 .. 2 * n + 4
    <3>1. i - n - 4 \in 1 .. n /\ n + (i - n - 4) + 4 = i
      BY <1>1, <2>3
    <3>2. a[i].key = "transmitters"
      BY <1>8, <1>17, <3>1
    <3>3. i # 1 /\ i # 2 /\ i # 3 /\ i # 4 /\ ~(i <= n + 4) /\ i <= 2 * n + 4
      BY <1>1, <2>3
    <3> QED
      BY <3>2, <3>3 DEF KeyAt
  <2>4. CASE i \in 2 * n + 5 .. 3 * n + 4
    <3>1. i - 2 * n - 4 \in 1 .. n /\ 2 * n + (i - 2 * n - 4) + 4 = i
      BY <1>1, <2>4
    <3>2. a[i].key = "payees"
      BY <1>9, <1>18, <3>1
    <3>3. /\ i # 1 /\ i # 2 /\ i # 3 /\ i # 4 /\ ~(i <= n + 4) /\ ~(i <= 2 * n + 4)
          /\ i <= 3 * n + 4
      BY <1>1, <2>4
    <3> QED
      BY <3>2, <3>3 DEF KeyAt
  <2>5. CASE i \in 3 * n + 5 .. 3 * n + 8
    <3>1. i = 3 * n + 5 \/ i = 3 * n + 6 \/ i = 3 * n + 7 \/ i = 3 * n + 8
      BY <1>1, <2>5
    <3> QED
      BY SMTT(30), <1>1, <1>6, <1>19, <3>1 DEF KeyAt
  <2> QED
    BY <1>1, <1>14, <2>1, <2>2, <2>3, <2>4, <2>5
<1>21. a[3].value = digest /\ a[4].value = count
  BY <1>5, <1>15
<1>22. \A i \in 1 .. n : /\ a[i + 4].value = column("signer")[i]
                         /\ a[n + i + 4].value = column("transmitter")[i]
  BY <1>7, <1>8, <1>16, <1>17
<1>23. /\ a[3 * n + 5].value = p.f /\ a[3 * n + 6].value = OnchainConfig
       /\ a[3 * n + 7].value = p.version /\ a[3 * n + 8].value = p.offchain
  BY <1>6, <1>19
<1> QED
  BY <1>4, <1>14, <1>20, <1>21, <1>22, <1>23 DEF Tells, n, digest, column

\* Where an event has which key.
KeysAt(a, n) ==
  /\ Wasm!Of(a, "latest_config_digest") = {3} /\ Wasm!Of(a, "config_count") = {4}
  /\ Wasm!Of(a, "f") = {3 * n + 5} /\ Wasm!Of(a, "onchain_config") = {3 * n + 6}
  /\ Wasm!Of(a, "offchain_config_version") = {3 * n + 7}
  /\ Wasm!Of(a, "offchain_config") = {3 * n + 8}
  /\ Wasm!Of(a, "signers") = 4 + 1 .. 4 + n
  /\ Wasm!Of(a, "transmitters") = (n + 4) + 1 .. (n + 4) + n

LEMMA KeysFoundAt ==
  ASSUME NEW n \in Nat, NEW a \in Seq(EventAttribute), Len(a) = 3 * n + 8,
         \A i \in 1 .. Len(a) : a[i].key = KeyAt(n, i)
  PROVE  KeysAt(a, n)
<1>1. \A key : Wasm!Of(a, key) = {i \in 1 .. 3 * n + 8 : KeyAt(n, i) = key}
  BY DEF Wasm!Of
<1>2. ASSUME NEW i \in 1 .. 3 * n + 8
      PROVE  /\ KeyAt(n, i) = "latest_config_digest" <=> i = 3
             /\ KeyAt(n, i) = "config_count" <=> i = 4
             /\ KeyAt(n, i) = "f" <=> i = 3 * n + 5
             /\ KeyAt(n, i) = "onchain_config" <=> i = 3 * n + 6
             /\ KeyAt(n, i) = "offchain_config_version" <=> i = 3 * n + 7
             /\ KeyAt(n, i) = "offchain_config" <=> i = 3 * n + 8
             /\ KeyAt(n, i) = "signers" <=> 5 <= i /\ i <= n + 4
             /\ KeyAt(n, i) = "transmitters" <=> n + 5 <= i /\ i <= 2 * n + 4
  <2>1. i \in Int /\ 1 <= i /\ i <= 3 * n + 8
    OBVIOUS
  <2>7. CASE i = 1
    BY <2>7 DEF KeyAt
  <2>8. CASE i = 2
    BY <2>8 DEF KeyAt
  <2>9. CASE i = 3
    BY <2>9 DEF KeyAt
  <2>10. CASE i = 4
    BY <2>10 DEF KeyAt
  <2>3. CASE ~(i = 1 \/ i = 2 \/ i = 3 \/ i = 4) /\ i <= n + 4
    BY <2>1, <2>3 DEF KeyAt
  <2>4. CASE ~(i = 1 \/ i = 2 \/ i = 3 \/ i = 4) /\ ~(i <= n + 4) /\ i <= 2 * n + 4
    BY <2>1, <2>4 DEF KeyAt
  <2>5. CASE ~(i = 1 \/ i = 2 \/ i = 3 \/ i = 4) /\ ~(i <= 2 * n + 4) /\ i <= 3 * n + 4
    BY <2>1, <2>5 DEF KeyAt
  <2>6. CASE ~(i <= 3 * n + 4)
    <3>1. i = 3 * n + 5 \/ i = 3 * n + 6 \/ i = 3 * n + 7 \/ i = 3 * n + 8
      BY <2>1, <2>6
    <3>2. /\ ~(i = 1 \/ i = 2 \/ i = 3 \/ i = 4)
          /\ ~(i <= n + 4) /\ ~(i <= 2 * n + 4) /\ ~(i <= 3 * n + 4)
      BY <2>1, <2>6
    <3>3. KeyAt(n, i) = IF i = 3 * n + 5 THEN "f"
                        ELSE IF i = 3 * n + 6 THEN "onchain_config"
                        ELSE IF i = 3 * n + 7 THEN "offchain_config_version"
                        ELSE "offchain_config"
      BY <3>2 DEF KeyAt
    <3> QED
      BY SMTT(30), <2>1, <3>1, <3>2, <3>3
  <2> QED
    BY <2>3, <2>4, <2>5, <2>6, <2>7, <2>8, <2>9, <2>10
<1>3. /\ Wasm!Of(a, "latest_config_digest") = {3} /\ Wasm!Of(a, "config_count") = {4}
      /\ Wasm!Of(a, "f") = {3 * n + 5} /\ Wasm!Of(a, "onchain_config") = {3 * n + 6}
      /\ Wasm!Of(a, "offchain_config_version") = {3 * n + 7}
      /\ Wasm!Of(a, "offchain_config") = {3 * n + 8}
  <2>1. /\ 3 \in 1 .. 3 * n + 8 /\ 4 \in 1 .. 3 * n + 8
        /\ 3 * n + 5 \in 1 .. 3 * n + 8 /\ 3 * n + 6 \in 1 .. 3 * n + 8
        /\ 3 * n + 7 \in 1 .. 3 * n + 8 /\ 3 * n + 8 \in 1 .. 3 * n + 8
    OBVIOUS
  <2> QED
    BY <1>1, <1>2, <2>1
<1>4. Wasm!Of(a, "signers") = 4 + 1 .. 4 + n
  <2>1. \A i \in 1 .. 3 * n + 8 : KeyAt(n, i) = "signers" <=> i \in 4 + 1 .. 4 + n
    BY <1>2
  <2>2. \A i \in 4 + 1 .. 4 + n : i \in 1 .. 3 * n + 8
    OBVIOUS
  <2> QED
    BY <1>1, <2>1, <2>2
<1>5. Wasm!Of(a, "transmitters") = (n + 4) + 1 .. (n + 4) + n
  <2>1. \A i \in 1 .. 3 * n + 8 :
          KeyAt(n, i) = "transmitters" <=> i \in (n + 4) + 1 .. (n + 4) + n
    BY <1>2
  <2>2. \A i \in (n + 4) + 1 .. (n + 4) + n : i \in 1 .. 3 * n + 8
    OBVIOUS
  <2> QED
    BY <1>1, <2>1, <2>2
<1> QED
  BY <1>3, <1>4, <1>5 DEF KeysAt

\* Attributes of one key that follow each other are read in their order.
LEMMA ValuesInOrder ==
  ASSUME NEW a, NEW key, NEW lo \in Nat, NEW n \in Nat, Wasm!Of(a, key) = lo + 1 .. lo + n
  PROVE  Wasm!Values(a, key) = [m \in 1 .. n |-> a[lo + m].value]
<1> DEFINE at == Wasm!Of(a, key)
           Rank(i) == Wasm!Cardinality({j \in at : j < i}) + 1
<1>1. at = lo + 1 .. lo + n /\ Wasm!Cardinality(at) = n
  BY FS_Interval, WasmCardinality
<1>2. Wasm!Values(a, key)
        = [m \in 1 .. Wasm!Cardinality(at) |-> a[CHOOSE i \in at : Rank(i) = m].value]
  BY DEF Wasm!Values
<1> HIDE DEF at
<1>3. \A i \in at : i \in Int /\ Rank(i) = i - lo
  <2> TAKE i \in at
  <2>1. i \in Int /\ lo + 1 <= i /\ i <= lo + n
    BY <1>1
  <2>2. {j \in at : j < i} = lo + 1 .. i - 1
    BY <1>1, <2>1
  <2>3. Cardinality(lo + 1 .. i - 1) = (i - 1) - (lo + 1) + 1
    BY <2>1, FS_Interval
  <2>4. Rank(i) = Cardinality(lo + 1 .. i - 1) + 1
    BY <2>2, WasmCardinality
  <2> QED
    BY <2>1, <2>3, <2>4
<1> HIDE DEF Rank
<1>4. \A m \in 1 .. n : (CHOOSE i \in at : Rank(i) = m) = lo + m
  <2> TAKE m \in 1 .. n
  <2>1. \A i \in at : Rank(i) = m <=> i = lo + m
    BY <1>3
  <2>2. lo + m \in at
    BY <1>1
  <2> QED
    BY <2>1, <2>2
<1> QED
  BY <1>1, <1>2, <1>4

\* From an event as the contract emits it the node reads the configuration, and
\* computes its digest.
LEMMA WholeEventReads ==
  ASSUME NEW place \in Contracts, NEW count \in Int, NEW p \in Proposals, Len(p.oracles) > 0,
         NEW a, a = Wasm!SetConfig(place, count, p),
         Wasm!FitsInt64(Wasm!Value(a, "offchain_config_version"))
  PROVE  /\ Wasm!Parsable(a)
         /\ Wasm!ConfigDigest(place, Wasm!ParseAttributes(a)) = Wasm!ParseAttributes(a).digest
<1> DEFINE n == Len(p.oracles)
           cfg == Wasm!ParseAttributes(a)
<1>1. Tells(a, n, place, count, p) /\ n \in Nat /\ n > 0
  BY EventTells, ColumnsAre
<1>2. KeysAt(a, n)
  BY <1>1, KeysFoundAt DEF Tells
<1>3. /\ cfg.digest = Wasm!DigestFromData(place, count, p) /\ cfg.count = count
      /\ cfg.f = p.f /\ cfg.onchain = OnchainConfig
      /\ cfg.version = p.version /\ cfg.offchain = p.offchain
  <2>1. \A i : \A key : Wasm!Of(a, key) = {i} => Wasm!Value(a, key) = a[i].value
    BY DEF Wasm!Value
  <2> HIDE DEF n
  <2> QED
    BY ZenonT(60), <1>1, <1>2, <2>1 DEF Wasm!ParseAttributes, KeysAt, Tells
<1>4. cfg.signers = Wasm!Column(p.oracles, "signer")
  <2>1. Wasm!Values(a, "signers") = [m \in 1 .. n |-> a[4 + m].value]
    <3>1. Wasm!Of(a, "signers") = 4 + 1 .. 4 + n /\ 4 \in Nat
      BY <1>1, <1>2 DEF KeysAt
    <3>2. ASSUME NEW lo \in Nat, Wasm!Of(a, "signers") = lo + 1 .. lo + n
          PROVE  Wasm!Values(a, "signers") = [m \in 1 .. n |-> a[lo + m].value]
      BY <1>1, <3>2, ValuesInOrder
    <3> HIDE DEF n
    <3> QED
      BY <3>1, <3>2
  <2>2. \A m \in 1 .. n : 4 + m = m + 4
    BY <1>1
  <2>3. \A m \in 1 .. n : a[4 + m].value = Wasm!Column(p.oracles, "signer")[m]
    BY <1>1, <2>2 DEF Tells
  <2>4. Wasm!Column(p.oracles, "signer") = [i \in 1 .. n |-> p.oracles[i]["signer"]]
    BY ColumnsAre
  <2>5. Wasm!Values(a, "signers") = Wasm!Column(p.oracles, "signer")
    BY <2>1, <2>3, <2>4
  <2> QED
    BY <2>5 DEF Wasm!ParseAttributes
<1>5. cfg.transmitters = Wasm!Column(p.oracles, "transmitter")
  <2>1. Wasm!Values(a, "transmitters") = [m \in 1 .. n |-> a[(n + 4) + m].value]
    <3>1. Wasm!Of(a, "transmitters") = (n + 4) + 1 .. (n + 4) + n /\ (n + 4) \in Nat
      BY <1>1, <1>2 DEF KeysAt
    <3>2. ASSUME NEW lo \in Nat, Wasm!Of(a, "transmitters") = lo + 1 .. lo + n
          PROVE  Wasm!Values(a, "transmitters") = [m \in 1 .. n |-> a[lo + m].value]
      BY <1>1, <3>2, ValuesInOrder
    <3> HIDE DEF n
    <3> QED
      BY <3>1, <3>2
  <2>2. \A m \in 1 .. n : (n + 4) + m = n + m + 4
    BY <1>1
  <2>3. \A m \in 1 .. n : a[(n + 4) + m].value = Wasm!Column(p.oracles, "transmitter")[m]
    BY <1>1, <2>2 DEF Tells
  <2>4. Wasm!Column(p.oracles, "transmitter") = [i \in 1 .. n |-> p.oracles[i]["transmitter"]]
    BY ColumnsAre
  <2>5. Wasm!Values(a, "transmitters") = Wasm!Column(p.oracles, "transmitter")
    BY <2>1, <2>3, <2>4
  <2> QED
    BY <2>5 DEF Wasm!ParseAttributes
<1>6. Wasm!ConfigDigest(place, cfg) = cfg.digest
  <2>1. Len(cfg.signers) = n
    BY <1>4, ColumnsAre
  <2> HIDE DEF cfg
  <2> QED
    BY <1>3, <1>4, <1>5, <2>1 DEF Wasm!ConfigDigest, Wasm!DigestFromData
<1>7. Wasm!Parsable(a)
  <2>1. \A i : Wasm!Cardinality({i}) = 1
    BY FS_Singleton, WasmCardinality
  <2>2. \A key \in Wasm!UniqueKeys : Wasm!Cardinality(Wasm!Of(a, key)) = 1
    BY <1>2, <2>1 DEF Wasm!UniqueKeys, KeysAt
  <2>3. 4 + 1 \in 4 + 1 .. 4 + n /\ (n + 4) + 1 \in (n + 4) + 1 .. (n + 4) + n
    BY <1>1
  <2>4. \A key \in Wasm!ListKeys : Wasm!Of(a, key) # {}
    BY <1>2, <2>3 DEF Wasm!ListKeys, KeysAt
  <2> QED
    BY <2>2, <2>4 DEF Wasm!Parsable
<1> QED
  BY <1>6, <1>7

\* An event without attribute i, or with another one of its key.
Without(a, i) == SubSeq(a, 1, i - 1) \o SubSeq(a, i + 1, Len(a))

\* A key too few or too many makes an event unreadable.
LEMMA DisturbedEventRefused ==
  ASSUME NEW place \in Contracts, NEW count \in Int, NEW p \in Proposals,
         NEW a, a = Wasm!SetConfig(place, count, p),
         NEW i \in 1 .. Len(a), a[i].key \in Wasm!UniqueKeys,
         NEW b \in {Without(a, i), Append(a, a[i])}
  PROVE  ~Wasm!Parsable(b)
<1> DEFINE n == Len(p.oracles)
           key == a[i].key
<1>1. Tells(a, n, place, count, p) /\ n \in Nat
  BY EventTells, ColumnsAre
<1>2. KeysAt(a, n)
  BY <1>1, KeysFoundAt DEF Tells
<1>3. /\ a \in Seq(EventAttribute) /\ Len(a) \in Nat /\ DOMAIN a = 1 .. Len(a)
      /\ i \in Nat /\ 1 <= i /\ i <= Len(a)
  BY <1>1 DEF Tells
<1> HIDE DEF n
<1>4. Wasm!Of(a, key) = {i}
  <2>1. \E j : Wasm!Of(a, key) = {j}
    BY <1>2 DEF Wasm!UniqueKeys, KeysAt
  <2>2. i \in Wasm!Of(a, key)
    BY <1>3 DEF Wasm!Of
  <2> QED
    BY <2>1, <2>2
<1>5. \A j \in 1 .. Len(a) : a[j].key = key => j = i
  BY <1>3, <1>4 DEF Wasm!Of
<1>6. CASE b = Without(a, i)
  <2> DEFINE x == SubSeq(a, 1, i - 1)
             y == SubSeq(a, i + 1, Len(a))
             z == x \o y
  <2>1. /\ x \in Seq(EventAttribute) /\ Len(x) = i - 1
        /\ \A j \in 1 .. i - 1 : x[j] = a[j]
    BY <1>3
  <2>2. /\ y \in Seq(EventAttribute) /\ Len(y) = Len(a) - i
        /\ \A j \in 1 .. Len(a) - i : y[j] = a[j + i]
    <3>1. ASSUME NEW S, NEW t \in Seq(S), NEW m \in Nat, 1 <= m, m <= Len(t)
          PROVE  /\ SubSeq(t, m + 1, Len(t)) \in Seq(S)
                 /\ Len(SubSeq(t, m + 1, Len(t))) = Len(t) - m
                 /\ \A j \in 1 .. Len(t) - m : SubSeq(t, m + 1, Len(t))[j] = t[j + m]
      BY <3>1
    <3> QED
      BY <1>3, <3>1
  <2> HIDE DEF x, y
  <2>3. Joins(EventAttribute, z, x, y, i - 1, Len(a) - i)
    BY <2>1, <2>2, Joined
  <2> HIDE DEF z
  <2>4. Wasm!Of(b, key) = {}
    <3>1. b = z
      BY <1>6 DEF Without, x, y, z
    <3>2. DOMAIN z = 1 .. Len(a) - 1
      BY <1>3, <2>3 DEF Joins
    <3> SUFFICES ASSUME NEW j \in 1 .. Len(a) - 1, b[j].key = key PROVE FALSE
      BY <3>1, <3>2 DEF Wasm!Of
    <3>3. CASE j <= i - 1
      <4>1. j \in 1 .. i - 1 /\ j \in 1 .. Len(a) /\ j # i
        BY <1>3, <3>3
      <4>2. b[j] = a[j]
        BY <2>1, <2>3, <3>1, <4>1 DEF Joins
      <4> QED
        BY <1>5, <4>1, <4>2
    <3>4. CASE j > i - 1
      <4>1. /\ j - (i - 1) \in 1 .. Len(a) - i /\ (i - 1) + (j - (i - 1)) = j
            /\ (j - (i - 1)) + i = j + 1 /\ j + 1 \in 1 .. Len(a) /\ j + 1 # i
        BY <1>3, <3>4
      <4>2. b[j] = a[j + 1]
        BY ZenonT(60), <2>2, <2>3, <3>1, <4>1 DEF Joins
      <4> QED
        BY <1>5, <4>1, <4>2
    <3> QED
      BY <1>3, <3>3, <3>4
  <2>5. Wasm!Cardinality(Wasm!Of(b, key)) = 0
    BY <2>4, FS_EmptySet, WasmCardinality
  <2> QED
    BY <2>5 DEF Wasm!Parsable
<1>7. CASE b = Append(a, a[i])
  <2>1. a[i] \in EventAttribute
    BY <1>3
  <2>2. /\ DOMAIN b = 1 .. Len(a) + 1 /\ b[Len(a) + 1] = a[i]
        /\ \A j \in 1 .. Len(a) : b[j] = a[j]
    BY <1>3, <1>7, <2>1
  <2>3. Wasm!Of(b, key) = {i, Len(a) + 1}
    <3>1. \A j \in 1 .. Len(a) + 1 : b[j].key = key <=> j \in {i, Len(a) + 1}
      <4> TAKE j \in 1 .. Len(a) + 1
      <4>1. j = Len(a) + 1 \/ j \in 1 .. Len(a)
        BY <1>3
      <4> QED
        BY <1>3, <1>5, <2>2, <4>1
    <3>2. i \in 1 .. Len(a) + 1 /\ Len(a) + 1 \in 1 .. Len(a) + 1
      BY <1>3
    <3> QED
      BY <2>2, <3>1, <3>2 DEF Wasm!Of
  <2>4. Wasm!Cardinality(Wasm!Of(b, key)) = 2
    <3>1. Len(a) + 1 \notin {i}
      BY <1>3
    <3>2. IsFiniteSet({i}) /\ Cardinality({i}) = 1 /\ {i, Len(a) + 1} = {i} \cup {Len(a) + 1}
      BY FS_Singleton
    <3>4. ASSUME NEW S, NEW x, IsFiniteSet(S), x \notin S
          PROVE  Cardinality(S \cup {x}) = Cardinality(S) + 1
      BY <3>4, FS_AddElement
    <3>3. Cardinality({i} \cup {Len(a) + 1}) = Cardinality({i}) + 1
      BY <3>1, <3>2, <3>4
    <3>5. Wasm!Cardinality(Wasm!Of(b, key)) = Cardinality({i} \cup {Len(a) + 1})
      BY <2>3, <3>2, WasmCardinality
    <3>6. 1 + 1 = 2
      OBVIOUS
    <3> QED
      BY ZenonT(60), <3>2, <3>3, <3>5, <3>6
  <2> QED
    BY <2>4 DEF Wasm!Parsable
<1> QED
  BY <1>6, <1>7

\* The event the node gets: whole, or with one attribute too few or too many.
EventOf(place, count, p) ==
  LET a == Wasm!SetConfig(place, count, p) IN
  \/ event = [place |-> place, attributes |-> a, whole |-> TRUE]
  \/ \E i \in 1 .. Len(a) :
       /\ a[i].key \in Wasm!UniqueKeys
       /\ \E b \in {Without(a, i), Append(a, a[i])} :
            event = [place |-> place, attributes |-> b, whole |-> FALSE]

EventInv ==
  event # <<>> =>
    \E place \in Contracts, p \in Proposals, count \in Int :
      Len(p.oracles) > 0 /\ EventOf(place, count, p)

LEMMA EventStep == AcceptedInv /\ EventInv /\ [Wasm!Next]_Wasm!wasmVars => EventInv'
<1> SUFFICES ASSUME AcceptedInv, EventInv, [Wasm!Next]_Wasm!wasmVars PROVE EventInv'
  OBVIOUS
<1>1. ASSUME NEW place \in Contracts, NEW p \in Proposals, Wasm!AcceptProposal(place, p)
      PROVE  EventInv'
  <2> DEFINE count == Wasm!CountAt(place)
  <2>1. /\ event' = [place |-> place, attributes |-> Wasm!SetConfig(place, count, p),
                     whole |-> TRUE]
        /\ p.f > 0 /\ 3 * p.f < Len(p.oracles)
    BY <1>1 DEF Wasm!AcceptProposal
  <2>2. Len(p.oracles) > 0
    <3>1. Len(p.oracles) \in Nat /\ p.f \in Int
      BY ColumnsAre
    <3> QED
      BY <2>1, <3>1
  <2>3. count \in Int
    <3>1. AcceptedAt(place) \in SUBSET accepted
      BY DEF AcceptedAt
    <3>2. Cardinality(AcceptedAt(place)) \in Nat
      BY <3>1, FS_Subset, FS_CardinalityType DEF AcceptedInv
    <3> QED
      BY <3>2, WasmCardinality DEF Wasm!CountAt, AcceptedAt
  <2> HIDE DEF count
  <2> QED
    BY <2>1, <2>2, <2>3 DEF EventInv, EventOf
<1>2. CASE Wasm!Disturb
  <2>1. event # <<>> /\ event.whole
    BY <1>2 DEF Wasm!Disturb, Wasm!None
  <2>2. PICK place \in Contracts, p \in Proposals, count \in Int :
          Len(p.oracles) > 0 /\ EventOf(place, count, p)
    BY <2>1 DEF EventInv
  <2> DEFINE a == Wasm!SetConfig(place, count, p)
  <2>3. event = [place |-> place, attributes |-> a, whole |-> TRUE]
    BY <2>1, <2>2 DEF EventOf
  <2>4. DOMAIN a = 1 .. Len(a)
    BY EventTells DEF Tells
  <2> HIDE DEF a
  <2>5. PICK i \in 1 .. Len(a) :
          /\ a[i].key \in Wasm!UniqueKeys
          /\ \E b \in {Without(a, i), Append(a, a[i])} :
               event' = [event EXCEPT !.attributes = b, !.whole = FALSE]
    BY ZenonT(60), <1>2, <2>3, <2>4 DEF Wasm!Disturb, Without
  <2>6. PICK b \in {Without(a, i), Append(a, a[i])} :
          event' = [place |-> place, attributes |-> b, whole |-> FALSE]
    BY <2>3, <2>5
  <2>7. EventOf(place, count, p)'
    BY <2>5, <2>6 DEF EventOf, a
  <2> QED
    BY <2>2, <2>7 DEF EventInv
<1>3. CASE UNCHANGED Wasm!wasmVars
  BY <1>3 DEF EventInv, EventOf, Wasm!wasmVars
<1> QED
  BY <1>1, <1>2, <1>3 DEF Wasm!Next

\* Contract and nodes compute one digest, which no other configuration of this
\* contract or of another has, and an event with an attribute too few or too
\* many is refused: for oracle sets and configurations of any size
\* (config_digest_from_data, parseAttributes, ConfigDigest).
THEOREM ConfigsUnderstood == Wasm!Spec => []ConfigUnderstood
<1> DEFINE Inv == AcceptedInv /\ EventInv
<1>1. Wasm!Init => Inv
  BY FS_EmptySet DEF Wasm!Init, Wasm!None, AcceptedInv, EventInv
<1>2. Inv /\ [Wasm!Next]_Wasm!wasmVars => Inv'
  BY AcceptedStep, EventStep
<1>3. Inv => ConfigUnderstood
  <2> SUFFICES ASSUME AcceptedInv, EventInv PROVE Wasm!ConfigUnderstood
    BY DEF ConfigUnderstood, Wasm!ConfigUnderstood, Inv
  <2>1. ASSUME NEW a \in accepted, NEW b \in accepted, a.digest = b.digest PROVE a = b
    <3>1. a.place = b.place /\ a.count = b.count
      BY <2>1, DigestTellsConfig DEF AcceptedInv
    <3> QED
      BY <3>1 DEF AcceptedInv
  <2>2. ASSUME event # <<>>
        PROVE  LET a == event.attributes IN
               IF event.whole
               THEN Wasm!FitsInt64(Wasm!Value(a, "offchain_config_version")) =>
                      /\ Wasm!Parsable(a)
                      /\ Wasm!ConfigDigest(event.place, Wasm!ParseAttributes(a))
                           = Wasm!ParseAttributes(a).digest
               ELSE ~Wasm!Parsable(a)
    <3>1. PICK place \in Contracts, p \in Proposals, count \in Int :
            Len(p.oracles) > 0 /\ EventOf(place, count, p)
      BY <2>2 DEF EventInv
    <3> DEFINE a == Wasm!SetConfig(place, count, p)
    <3>2. CASE event = [place |-> place, attributes |-> a, whole |-> TRUE]
      <4>1. event.place = place /\ event.attributes = a /\ event.whole
        BY <3>2
      <4>2. Wasm!FitsInt64(Wasm!Value(a, "offchain_config_version")) =>
              /\ Wasm!Parsable(a)
              /\ Wasm!ConfigDigest(place, Wasm!ParseAttributes(a)) = Wasm!ParseAttributes(a).digest
        BY <3>1, WholeEventReads
      <4> HIDE DEF a
      <4> QED
        BY <4>1, <4>2
    <3>3. ASSUME NEW i \in 1 .. Len(a), a[i].key \in Wasm!UniqueKeys,
                 NEW b \in {Without(a, i), Append(a, a[i])},
                 event = [place |-> place, attributes |-> b, whole |-> FALSE]
          PROVE  ~event.whole /\ ~Wasm!Parsable(event.attributes)
      <4>1. ~Wasm!Parsable(b)
        BY <3>3, DisturbedEventRefused
      <4> QED
        BY <3>3, <4>1
    <3> QED
      BY <3>1, <3>2, <3>3 DEF EventOf
  <2> QED
    BY <2>1, <2>2 DEF Wasm!ConfigUnderstood, Wasm!None
<1> QED
  BY <1>1, <1>2, <1>3, PTL DEF Wasm!Spec
-----------------------------------------------------------------------------
(* The simulation of a batch *)

Message == [id : Int, cost : Int]

LEMMA SimCardinality == \A S : Sim!Cardinality(S) = Cardinality(S)
  BY DEF Sim!Cardinality, Cardinality

\* Messages that come later in the batch are listed after the others.
LEMMA ListsMore ==
  ASSUME NEW d \in Nat, NEW places \in SUBSET (1 .. d), NEW list \in Seq(Message),
         Sim!Lists(list, places),
         NEW lo \in Nat, d <= lo, NEW more \in Seq(Message),
         \A j \in 1 .. Len(more) : more[j] = batch[lo + j]
  PROVE  Sim!Lists(list \o more, places \cup (lo + 1 .. lo + Len(more)))
<1> DEFINE k == Len(more)
           added == lo + 1 .. lo + k
           all == places \cup added
           both == list \o more
<1>1. k \in Nat
  OBVIOUS
<1>2. /\ IsFiniteSet(places) /\ Cardinality(places) \in Nat
      /\ \A i \in places : i \in Nat /\ 1 <= i /\ i <= d
  <2>1. IsFiniteSet(places)
    <3>1. IsFiniteSet(1 .. d)
      BY FS_Interval
    <3> QED
      BY <3>1, FS_Subset
  <2> QED
    BY <2>1, FS_CardinalityType
<1>3. /\ Len(list) = Cardinality(places)
      /\ \A i \in places : list[Cardinality({j \in places : j <= i})] = batch[i]
  BY SimCardinality DEF Sim!Lists
<1>4. Joins(Message, both, list, more, Cardinality(places), k)
  BY <1>3, Joined
<1> HIDE DEF both
<1>5. \A m \in 0 .. k : Cardinality(places \cup (lo + 1 .. lo + m)) = Cardinality(places) + m
  <2> TAKE m \in 0 .. k
  <2>1. IsFiniteSet(lo + 1 .. lo + m) /\ Cardinality(lo + 1 .. lo + m) = m
    <3>1. m \in Int /\ 0 <= m /\ lo + 1 \in Int /\ lo + m \in Int
      BY <1>1
    <3>2. /\ IsFiniteSet(lo + 1 .. lo + m)
          /\ Cardinality(lo + 1 .. lo + m)
               = IF lo + 1 > lo + m THEN 0 ELSE lo + m - (lo + 1) + 1
      BY <3>1, FS_Interval
    <3> QED
      BY <3>1, <3>2
  <2>2. places \cap (lo + 1 .. lo + m) = {}
    BY <1>2
  <2>3. Cardinality(places \cup (lo + 1 .. lo + m))
          = Cardinality(places) + Cardinality(lo + 1 .. lo + m) - Cardinality({})
    BY <1>2, <2>1, <2>2, FS_Union
  <2> QED
    BY <1>2, <2>1, <2>3, FS_EmptySet
<1>6. Len(both) = Cardinality(all)
  BY <1>1, <1>4, <1>5 DEF Joins
<1>7. ASSUME NEW i \in places PROVE both[Cardinality({j \in all : j <= i})] = batch[i]
  <2> DEFINE upto == {j \in places : j <= i}
  <2>1. {j \in all : j <= i} = upto
    BY <1>2
  <2>2. upto \in SUBSET places /\ i \in upto
    BY <1>2
  <2>3. Cardinality(upto) \in 1 .. Cardinality(places)
    <3>1. /\ IsFiniteSet(upto) /\ Cardinality(upto) <= Cardinality(places)
          /\ Cardinality(upto) \in Nat
      BY <1>2, <2>2, FS_Subset, FS_CardinalityType
    <3>2. Cardinality(upto) # 0
      BY <2>2, <3>1, FS_EmptySet
    <3> QED
      BY <1>2, <3>1, <3>2
  <2>4. list[Cardinality(upto)] = batch[i]
    BY <1>3
  <2> HIDE DEF upto
  <2> QED
    BY <1>4, <2>1, <2>3, <2>4 DEF Joins
<1>8. ASSUME NEW i \in added PROVE both[Cardinality({j \in all : j <= i})] = batch[i]
  <2> DEFINE m == i - lo
  <2>1. m \in 1 .. k /\ lo + m = i
    OBVIOUS
  <2>2. {j \in all : j <= i} = places \cup (lo + 1 .. lo + m)
    <3>1. \A j \in places : j <= i
      BY <1>2, <2>1
    <3>2. \A j \in added : j <= i <=> j \in lo + 1 .. lo + m
      BY <2>1
    <3>3. lo + 1 .. lo + m \subseteq added
      BY <2>1
    <3> HIDE DEF added, m
    <3> QED
      BY <3>1, <3>2, <3>3
  <2>3. Cardinality({j \in all : j <= i}) = Cardinality(places) + m
    BY <1>5, <2>1, <2>2
  <2>4. both[Cardinality(places) + m] = more[m]
    BY <1>4, <2>1 DEF Joins
  <2> QED
    BY <2>1, <2>3, <2>4
<1> QED
  BY <1>6, <1>7, <1>8, SimCardinality DEF Sim!Lists, both

\* The first d messages of the batch are split into those that passed and those
\* that failed.
SplitAt(d, passed, refused) ==
  /\ passed \in SUBSET (1 .. d) /\ refused \in SUBSET (1 .. d)
  /\ passed \cup refused = 1 .. d /\ passed \cap refused = {}
  /\ succeeded \in Seq(Message) /\ Sim!Lists(succeeded, passed)
  /\ failed \in Seq(Message) /\ Sim!Lists(failed, refused)
  /\ DOMAIN verdicts = {batch[i].id : i \in 1 .. d}
  /\ \A i \in passed : verdicts[batch[i].id] = "passed"
  /\ \A i \in refused : verdicts[batch[i].id] = "failed"

\* The next of them pass, and then one fails or none.
LEMMA SplitGrows ==
  ASSUME NEW d \in Nat, NEW passed, NEW refused, SplitAt(d, passed, refused),
         batch \in Seq(Message), batch' = batch,
         \A i, j \in DOMAIN batch : batch[i].id = batch[j].id => i = j,
         NEW before \in Seq(Message), \A j \in 1 .. Len(before) : before[j] = batch[d + j],
         NEW failing \in Seq(Message),
         \A j \in 1 .. Len(failing) : failing[j] = batch[d + Len(before) + j],
         NEW D, D = d + Len(before) + Len(failing), D <= Len(batch),
         succeeded' = succeeded \o before, failed' = failed \o failing,
         verdicts' = Sim!Told(before, failing)
  PROVE  \E p, r : SplitAt(D, p, r)'
<1> DEFINE k == Len(before)
           e == Len(failing)
           lo == d + k
           p == passed \cup (d + 1 .. d + k)
           r == refused \cup (lo + 1 .. lo + e)
<1>1. k \in Nat /\ e \in Nat /\ lo \in Nat /\ d <= lo /\ D = lo + e /\ D <= Len(batch)
  OBVIOUS
<1>2. /\ p \in SUBSET (1 .. D) /\ r \in SUBSET (1 .. D)
      /\ p \cup r = 1 .. D /\ p \cap r = {}
  <2>1. /\ passed \in SUBSET (1 .. d) /\ refused \in SUBSET (1 .. d)
        /\ passed \cup refused = 1 .. d /\ passed \cap refused = {}
    BY DEF SplitAt
  <2>2. 1 .. D = (1 .. d) \cup (d + 1 .. d + k) \cup (lo + 1 .. lo + e)
    BY <1>1
  <2>3. /\ (1 .. d) \cap (d + 1 .. d + k) = {} /\ (1 .. d) \cap (lo + 1 .. lo + e) = {}
        /\ (d + 1 .. d + k) \cap (lo + 1 .. lo + e) = {}
    BY <1>1
  <2> QED
    BY <2>1, <2>2, <2>3
<1>3. succeeded' \in Seq(Message) /\ Sim!Lists(succeeded, p)'
  <2>1. succeeded \in Seq(Message) /\ Sim!Lists(succeeded, passed)
    BY DEF SplitAt
  <2>2. Sim!Lists(succeeded \o before, p)
    <3>1. d <= d /\ passed \in SUBSET (1 .. d)
      BY DEF SplitAt
    <3> QED
      BY <2>1, <3>1, ListsMore
  <2>3. succeeded' \in Seq(Message)
    BY <2>1
  <2> HIDE DEF p
  <2>4. Sim!Lists(succeeded, p)'
    BY <2>2 DEF Sim!Lists
  <2> QED
    BY <2>3, <2>4
<1>4. failed' \in Seq(Message) /\ Sim!Lists(failed, r)'
  <2>1. failed \in Seq(Message) /\ Sim!Lists(failed, refused)
    BY DEF SplitAt
  <2>2. Sim!Lists(failed \o failing, r)
    BY <1>1, <2>1, ListsMore DEF SplitAt
  <2>3. failed' \in Seq(Message)
    BY <2>1
  <2> HIDE DEF r
  <2>4. Sim!Lists(failed, r)'
    BY <2>2 DEF Sim!Lists
  <2> QED
    BY <2>3, <2>4
<1>5. Sim!Ids(before) = {batch[i].id : i \in d + 1 .. d + k}
  <2>1. DOMAIN before = 1 .. k
    OBVIOUS
  <2>2. \A i \in d + 1 .. d + k : i - d \in 1 .. k /\ before[i - d] = batch[i]
    <3> TAKE i \in d + 1 .. d + k
    <3>1. i - d \in 1 .. k /\ d + (i - d) = i
      BY <1>1
    <3> QED
      BY <3>1
  <2>3. \A j \in 1 .. k : d + j \in d + 1 .. d + k
    BY <1>1
  <2>4. \A j \in 1 .. k : before[j] = batch[d + j]
    OBVIOUS
  <2> HIDE DEF k
  <2>5. Sim!Ids(before) = {before[j].id : j \in 1 .. k}
    BY <2>1 DEF Sim!Ids
  <2>6. \A j \in 1 .. k : before[j].id \in {batch[i].id : i \in d + 1 .. d + k}
    BY <2>3, <2>4
  <2>7. \A i \in d + 1 .. d + k : batch[i].id \in {before[j].id : j \in 1 .. k}
    BY <2>2
  <2> QED
    BY ZenonT(60), <2>5, <2>6, <2>7
<1>6. Sim!Ids(failing) = {batch[i].id : i \in lo + 1 .. lo + e}
  <2>1. DOMAIN failing = 1 .. e
    OBVIOUS
  <2>2. \A i \in lo + 1 .. lo + e : i - lo \in 1 .. e /\ failing[i - lo] = batch[i]
    <3> TAKE i \in lo + 1 .. lo + e
    <3>1. i - lo \in 1 .. e /\ lo + (i - lo) = i
      BY <1>1
    <3> QED
      BY <3>1
  <2>3. \A j \in 1 .. e : lo + j \in lo + 1 .. lo + e
    BY <1>1
  <2>4. \A j \in 1 .. e : failing[j] = batch[lo + j]
    OBVIOUS
  <2> HIDE DEF e, lo
  <2>5. Sim!Ids(failing) = {failing[j].id : j \in 1 .. e}
    BY <2>1 DEF Sim!Ids
  <2>6. \A j \in 1 .. e : failing[j].id \in {batch[i].id : i \in lo + 1 .. lo + e}
    BY SMTT(30), <2>3, <2>4
  <2>7. \A i \in lo + 1 .. lo + e : batch[i].id \in {failing[j].id : j \in 1 .. e}
    BY <2>2
  <2> QED
    BY ZenonT(60), <2>5, <2>6, <2>7
<1> HIDE DEF k, e, lo, p, r
<1>7. /\ DOMAIN verdicts = {batch[i].id : i \in 1 .. d}
      /\ \A i \in passed : verdicts[batch[i].id] = "passed"
      /\ \A i \in refused : verdicts[batch[i].id] = "failed"
      /\ passed \in SUBSET (1 .. d) /\ refused \in SUBSET (1 .. d)
  BY DEF SplitAt
<1>8. verdicts' = [id \in DOMAIN verdicts \cup Sim!Ids(before) \cup Sim!Ids(failing) |->
                     IF id \in Sim!Ids(before) THEN "passed"
                     ELSE IF id \in Sim!Ids(failing) THEN "failed" ELSE verdicts[id]]
  BY DEF Sim!Told
<1>9. \A i \in 1 .. d : i \in DOMAIN batch
  BY <1>1
<1>10. \A i \in d + 1 .. d + k : i \in DOMAIN batch /\ i \notin 1 .. d
  BY <1>1 DEF lo
<1>11. \A i \in lo + 1 .. lo + e : i \in DOMAIN batch /\ i \notin 1 .. d /\ i \notin d + 1 .. d + k
  BY <1>1 DEF lo
<1>12. DOMAIN verdicts' = {batch[i].id : i \in 1 .. D}
  <2>1. 1 .. D = (1 .. d) \cup (d + 1 .. d + k) \cup (lo + 1 .. lo + e)
    BY <1>1 DEF lo
  <2>2. DOMAIN verdicts' = DOMAIN verdicts \cup Sim!Ids(before) \cup Sim!Ids(failing)
    BY <1>8
  <2>4. ASSUME NEW i \in 1 .. D PROVE batch[i].id \in DOMAIN verdicts'
    BY <1>5, <1>6, <1>7, <2>1, <2>2
  <2>5. ASSUME NEW x \in DOMAIN verdicts' PROVE \E i \in 1 .. D : x = batch[i].id
    BY ZenonT(60), <1>5, <1>6, <1>7, <2>1, <2>2
  <2> DEFINE told == DOMAIN verdicts'
             ids == {batch[i].id : i \in 1 .. D}
  <2>6. \A x : x \in ids <=> \E i \in 1 .. D : x = batch[i].id
    OBVIOUS
  <2>7. ids \subseteq told
    BY <2>4, <2>6
  <2>8. told \subseteq ids
    BY <2>5, <2>6
  <2>9. told = ids
    <3> HIDE DEF told, ids
    <3> QED
      BY <2>7, <2>8
  <2> QED
    BY <2>9
<1>13. \A i \in 1 .. d : batch[i].id \notin Sim!Ids(before) /\ batch[i].id \notin Sim!Ids(failing)
  BY SMTT(30), <1>5, <1>6, <1>9, <1>10, <1>11
<1>14. \A i \in 1 .. d : verdicts'[batch[i].id] = verdicts[batch[i].id]
  BY <1>7, <1>8, <1>13
<1>15. \A i \in d + 1 .. d + k : verdicts'[batch[i].id] = "passed"
  BY <1>5, <1>8
<1>16. \A i \in lo + 1 .. lo + e : verdicts'[batch[i].id] = "failed"
  <2> TAKE i \in lo + 1 .. lo + e
  <2>1. batch[i].id \in Sim!Ids(failing)
    BY <1>6
  <2>2. batch[i].id \notin Sim!Ids(before)
    BY SMTT(30), <1>5, <1>10, <1>11
  <2> QED
    BY <1>8, <2>1, <2>2
<1>17. \A i \in p : verdicts'[batch[i].id] = "passed"
  BY <1>7, <1>14, <1>15 DEF p
<1>18. \A i \in r : verdicts'[batch[i].id] = "failed"
  BY <1>7, <1>14, <1>16 DEF r
<1>19. SplitAt(D, p, r)'
  BY <1>2, <1>3, <1>4, <1>12, <1>17, <1>18 DEF SplitAt
<1> QED
  BY <1>19

\* The messages still to simulate are those after the first d.
StillToSim(d) ==
  toSim \in Seq(Message) /\ Len(toSim) = Len(batch) - d
    /\ \A j \in 1 .. Len(toSim) : toSim[j] = batch[d + j]

SimInv ==
  \/ /\ outcome = "none"
     /\ succeeded = <<>> /\ failed = <<>> /\ DOMAIN verdicts = {}
  \/ /\ batch \in Batches
     /\ \E d \in 0 .. Len(batch) : \E passed, refused :
          /\ SplitAt(d, passed, refused)
          /\ \/ outcome \in {"running", "error"} /\ StillToSim(d)
             \/ outcome = "done" /\ d = Len(batch)

LEMMA BatchIs ==
  ASSUME batch \in Batches
  PROVE  /\ batch \in Seq(Message) /\ Len(batch) \in Nat /\ DOMAIN batch = 1 .. Len(batch)
         /\ \A i, j \in DOMAIN batch : batch[i].id = batch[j].id => i = j
<1>1. /\ batch \in Seq(Message)
      /\ \A i, j \in DOMAIN batch : batch[i].id = batch[j].id => i = j
  BY SimulationAssumption DEF Message
<1> QED
  BY <1>1

LEMMA CallStep ==
  ASSUME SimInv, NEW messages \in Batches, Sim!Call(messages)
  PROVE  SimInv'
<1>1. /\ outcome = "none" /\ outcome' = "running" /\ batch' = messages /\ toSim' = messages
      /\ succeeded' = succeeded /\ failed' = failed /\ verdicts' = verdicts
  BY DEF Sim!Call
<1>2. succeeded' = <<>> /\ failed' = <<>> /\ DOMAIN verdicts' = {}
  BY <1>1 DEF SimInv
<1>3. messages \in Seq(Message) /\ Len(messages) \in Nat
  BY SimulationAssumption DEF Message
<1>4. SplitAt(0, {}, {})'
  <2>1. 1 .. 0 = {}
    OBVIOUS
  <2>2. Sim!Lists(succeeded, {})' /\ Sim!Lists(failed, {})'
    <3>1. Sim!Cardinality({}) = 0
      BY SimCardinality, FS_EmptySet
    <3> QED
      BY <1>2, <3>1 DEF Sim!Lists
  <2>3. succeeded' \in Seq(Message) /\ failed' \in Seq(Message)
    BY <1>2
  <2> QED
    BY <1>2, <2>1, <2>2, <2>3 DEF SplitAt
<1>5. StillToSim(0)'
  BY <1>1, <1>3 DEF StillToSim
<1>6. 0 \in 0 .. Len(batch')
  BY <1>1, <1>3
<1> QED
  BY <1>1, <1>4, <1>5, <1>6 DEF SimInv

LEMMA FailureStep ==
  ASSUME SimInv, NEW budget, Sim!MessageFails(budget)
  PROVE  SimInv'
<1>1. outcome = "running" /\ batch' = batch
  BY DEF Sim!MessageFails
<1>2. PICK d \in 0 .. Len(batch) : \E passed, refused : SplitAt(d, passed, refused) /\ StillToSim(d)
  BY <1>1 DEF SimInv
<1>3. PICK passed, refused : SplitAt(d, passed, refused) /\ StillToSim(d)
  BY <1>2
<1>4. /\ batch \in Batches
      /\ batch \in Seq(Message) /\ Len(batch) \in Nat
      /\ \A i, j \in DOMAIN batch : batch[i].id = batch[j].id => i = j
  BY <1>1, BatchIs DEF SimInv
<1>5. /\ toSim \in Seq(Message) /\ Len(toSim) = Len(batch) - d
      /\ \A j \in 1 .. Len(toSim) : toSim[j] = batch[d + j]
  BY <1>3 DEF StillToSim
<1>6. PICK i \in Sim!Failing(budget) :
        /\ failed' = Append(failed, toSim[i])
        /\ succeeded' = succeeded \o SubSeq(toSim, 1, i - 1)
        /\ outcome' = IF i = Len(toSim) THEN "done" ELSE "running"
        /\ toSim' = SubSeq(toSim, i + 1, Len(toSim))
        /\ verdicts' = Sim!Told(SubSeq(toSim, 1, i - 1), <<toSim[i]>>)
  BY DEF Sim!MessageFails, Sim!AfterFailing
<1>7. i \in Nat /\ 1 <= i /\ i <= Len(toSim) /\ d \in Nat /\ Len(toSim) \in Nat
  <2>1. i \in 1 .. Len(toSim)
    BY <1>5 DEF Sim!Failing
  <2> QED
    BY <1>5, <2>1
<1>15. PICK before, failing, D :
          before = SubSeq(toSim, 1, i - 1) /\ failing = <<toSim[i]>> /\ D = d + (i - 1) + 1
  OBVIOUS
<1>8. /\ before \in Seq(Message) /\ Len(before) = i - 1
      /\ \A j \in 1 .. Len(before) : before[j] = batch[d + j]
  <2>1. /\ before \in Seq(Message) /\ Len(before) = i - 1
        /\ \A j \in 1 .. i - 1 : before[j] = toSim[j] /\ j \in 1 .. Len(toSim)
    BY <1>5, <1>7, <1>15
  <2> QED
    BY <1>5, <2>1
<1>9. /\ failing \in Seq(Message) /\ Len(failing) = 1
      /\ \A j \in 1 .. Len(failing) : failing[j] = batch[d + Len(before) + j]
  <2>1. toSim[i] \in Message /\ toSim[i] = batch[d + i] /\ d + (i - 1) + 1 = d + i
    BY <1>5, <1>7
  <2>2. failing \in Seq(Message) /\ Len(failing) = 1 /\ failing[1] = toSim[i]
    BY <1>15, <2>1
  <2> QED
    BY <1>8, <2>1, <2>2
<1>10. failed' = failed \o failing
  <2>1. failed \in Seq(Message) /\ toSim[i] \in Message
    BY <1>3, <1>5, <1>7 DEF SplitAt
  <2> QED
    BY <1>6, <1>15, <2>1
<1>11. \E p, r : SplitAt(D, p, r)'
  <2>1. d + Len(before) + Len(failing) = D /\ D <= Len(batch)
    BY <1>5, <1>7, <1>8, <1>9, <1>15
  <2>2. succeeded' = succeeded \o before /\ verdicts' = Sim!Told(before, failing)
    BY <1>6, <1>15
  <2> QED
    BY <1>1, <1>3, <1>4, <1>7, <1>8, <1>9, <1>10, <2>1, <2>2, SplitGrows
<1>12. D = d + i /\ D \in 0 .. Len(batch')
  BY <1>1, <1>4, <1>5, <1>7, <1>15
<1>13. CASE i = Len(toSim)
  <2>1. outcome' = "done" /\ D = Len(batch')
    BY <1>1, <1>4, <1>5, <1>6, <1>7, <1>12, <1>13
  <2> QED
    BY <1>1, <1>4, <1>11, <1>12, <2>1 DEF SimInv
<1>14. CASE i # Len(toSim)
  <2>1. outcome' = "running"
    BY <1>6, <1>14
  <2>2. ASSUME NEW S, NEW t \in Seq(S), NEW m \in Nat, 1 <= m, m <= Len(t)
        PROVE  /\ SubSeq(t, m + 1, Len(t)) \in Seq(S)
               /\ Len(SubSeq(t, m + 1, Len(t))) = Len(t) - m
               /\ \A j \in 1 .. Len(t) - m : SubSeq(t, m + 1, Len(t))[j] = t[m + j]
    BY <2>2
  <2>3. /\ toSim' \in Seq(Message) /\ Len(toSim') = Len(toSim) - i
        /\ \A j \in 1 .. Len(toSim) - i : toSim'[j] = toSim[i + j]
    BY <1>5, <1>6, <1>7, <2>2
  <2>4. Len(toSim') = Len(batch') - D
    BY <1>1, <1>4, <1>5, <1>7, <1>12, <2>3
  <2>5. \A j \in 1 .. Len(toSim') : toSim'[j] = batch'[D + j]
    <3> TAKE j \in 1 .. Len(toSim')
    <3>1. j \in 1 .. Len(toSim) - i /\ i + j \in 1 .. Len(toSim) /\ d + (i + j) = D + j
      BY <1>7, <1>12, <2>3
    <3> QED
      BY <1>1, <1>5, <2>3, <3>1
  <2>6. StillToSim(D)'
    BY <2>3, <2>4, <2>5 DEF StillToSim
  <2> QED
    BY <1>1, <1>4, <1>11, <1>12, <2>1, <2>6 DEF SimInv
<1> QED
  BY <1>13, <1>14

LEMMA AllPassStep ==
  ASSUME SimInv, NEW budget, Sim!AllPass(budget)
  PROVE  SimInv'
<1>1. /\ outcome = "running" /\ outcome' = "done" /\ batch' = batch
      /\ succeeded' = succeeded \o toSim /\ failed' = failed
      /\ verdicts' = Sim!Told(toSim, <<>>)
  BY DEF Sim!AllPass
<1>2. PICK d \in 0 .. Len(batch) : \E passed, refused : SplitAt(d, passed, refused) /\ StillToSim(d)
  BY <1>1 DEF SimInv
<1>3. PICK passed, refused : SplitAt(d, passed, refused) /\ StillToSim(d)
  BY <1>2
<1>4. /\ batch \in Batches
      /\ batch \in Seq(Message) /\ Len(batch) \in Nat
      /\ \A i, j \in DOMAIN batch : batch[i].id = batch[j].id => i = j
  BY <1>1, BatchIs DEF SimInv
<1>5. /\ toSim \in Seq(Message) /\ Len(toSim) = Len(batch) - d
      /\ \A j \in 1 .. Len(toSim) : toSim[j] = batch[d + j]
  BY <1>3 DEF StillToSim
<1>14. PICK before, none, D : before = toSim /\ none = <<>> /\ D = Len(batch)
  OBVIOUS
<1>6. /\ none \in Seq(Message) /\ Len(none) = 0
      /\ \A j \in 1 .. Len(none) : none[j] = batch[d + Len(before) + j]
  BY <1>14
<1>7. failed' = failed \o none
  <2>1. failed \in Seq(Message)
    BY <1>3 DEF SplitAt
  <2> QED
    BY <1>1, <1>14, <2>1
<1>8. verdicts' = Sim!Told(before, none) /\ succeeded' = succeeded \o before
  BY <1>1, <1>14
<1>9. /\ before \in Seq(Message) /\ d + Len(before) + Len(none) = D
      /\ \A j \in 1 .. Len(before) : before[j] = batch[d + j]
  BY <1>4, <1>5, <1>6, <1>14
<1>10. d \in Nat /\ D = d + Len(before) + Len(none) /\ D <= Len(batch)
  BY <1>4, <1>9, <1>14
<1>11. \E p, r : SplitAt(D, p, r)'
  BY <1>1, <1>3, <1>4, <1>6, <1>7, <1>8, <1>9, <1>10, SplitGrows
<1>13. D \in 0 .. Len(batch') /\ D = Len(batch')
  BY <1>1, <1>4, <1>14
<1> QED
  BY <1>1, <1>4, <1>11, <1>13 DEF SimInv

LEMMA SimStep == SimInv /\ [Sim!Next]_Sim!simVars => SimInv'
<1> SUFFICES ASSUME SimInv, [Sim!Next]_Sim!simVars PROVE SimInv'
  OBVIOUS
<1>1. ASSUME /\ batch' = batch /\ toSim' = toSim
             /\ succeeded' = succeeded /\ failed' = failed /\ verdicts' = verdicts,
             outcome' = outcome \/ (outcome = "running" /\ outcome' = "error")
      PROVE  SimInv'
  <2>1. CASE outcome = "none"
    BY <1>1, <2>1 DEF SimInv
  <2>2. CASE outcome # "none"
    <3>1. PICK d \in 0 .. Len(batch) : \E passed, refused :
            /\ SplitAt(d, passed, refused)
            /\ \/ outcome \in {"running", "error"} /\ StillToSim(d)
               \/ outcome = "done" /\ d = Len(batch)
      BY <2>2 DEF SimInv
    <3>2. PICK passed, refused :
            /\ SplitAt(d, passed, refused)
            /\ \/ outcome \in {"running", "error"} /\ StillToSim(d)
               \/ outcome = "done" /\ d = Len(batch)
      BY <3>1
    <3>3. Sim!Lists(succeeded, passed)' /\ Sim!Lists(failed, refused)'
      BY <1>1, <3>2 DEF SplitAt, Sim!Lists
    <3>4. SplitAt(d, passed, refused)'
      BY <1>1, <3>2, <3>3 DEF SplitAt
    <3>5. StillToSim(d) => StillToSim(d)'
      BY <1>1 DEF StillToSim
    <3>6. batch' \in Batches /\ d \in 0 .. Len(batch')
      BY <1>1, <2>2, <3>1 DEF SimInv
    <3>7. \/ outcome' \in {"running", "error"} /\ StillToSim(d)'
          \/ outcome' = "done" /\ d = Len(batch')
      BY <1>1, <3>2, <3>5
    <3> QED
      BY <3>4, <3>6, <3>7 DEF SimInv
  <2> QED
    BY <2>1, <2>2
<1>2. CASE Sim!OtherError
  BY <1>1, <1>2 DEF Sim!OtherError
<1>3. CASE UNCHANGED Sim!simVars
  BY <1>1, <1>3 DEF Sim!simVars
<1> QED
  BY <1>2, <1>3, CallStep, FailureStep, AllPassStep DEF Sim!Next

\* A batch is split in order and without loss as the messages' own simulations
\* said, however many fail and in however many rounds (BatchSimulateUnsigned).
THEOREM BatchesAreSplit == Sim!Spec => []SimulatedOnceInOrder
<1>1. Sim!Init => SimInv
  BY DEF Sim!Init, SimInv
<1>2. SimInv => SimulatedOnceInOrder
  <2> SUFFICES ASSUME SimInv, outcome = "done" PROVE Sim!SimulatedOnceInOrder
    BY DEF SimulatedOnceInOrder, Sim!SimulatedOnceInOrder
  <2>1. batch \in Batches /\ \E passed, refused : SplitAt(Len(batch), passed, refused)
    BY DEF SimInv
  <2>2. PICK passed, refused : SplitAt(Len(batch), passed, refused)
    BY <2>1
  <2>3. Len(batch) \in Nat /\ DOMAIN batch = 1 .. Len(batch)
    BY <2>1, BatchIs
  <2>4. \A i \in DOMAIN batch : batch[i].id \in DOMAIN verdicts
    BY <2>2, <2>3 DEF SplitAt
  <2>5. Sim!Judged("passed") = passed /\ Sim!Judged("failed") = refused
    <3>1. /\ passed \subseteq DOMAIN batch /\ refused \subseteq DOMAIN batch
          /\ DOMAIN batch = passed \cup refused
          /\ \A i \in passed : verdicts[batch[i].id] = "passed"
          /\ \A i \in refused : verdicts[batch[i].id] = "failed"
      BY <2>2, <2>3 DEF SplitAt
    <3>2. "passed" # "failed"
      OBVIOUS
    <3> QED
      BY <2>4, <3>1, <3>2 DEF Sim!Judged
  <2>6. Len(succeeded) + Len(failed) = Len(batch)
    <3>1. IsFiniteSet(1 .. Len(batch)) /\ Cardinality(1 .. Len(batch)) = Len(batch)
      <4>1. /\ IsFiniteSet(1 .. Len(batch))
            /\ Cardinality(1 .. Len(batch))
                 = IF 1 > Len(batch) THEN 0 ELSE Len(batch) - 1 + 1
        BY <2>3, FS_Interval
      <4> QED
        BY <2>3, <4>1
    <3>2. /\ passed \in SUBSET (1 .. Len(batch)) /\ refused \in SUBSET (1 .. Len(batch))
          /\ passed \cup refused = 1 .. Len(batch) /\ passed \cap refused = {}
      BY <2>2 DEF SplitAt
    <3>3. /\ IsFiniteSet(passed) /\ Cardinality(passed) \in Nat
          /\ IsFiniteSet(refused) /\ Cardinality(refused) \in Nat
      BY <3>1, <3>2, FS_Subset, FS_CardinalityType
    <3>4. Cardinality(passed \cup refused)
            = Cardinality(passed) + Cardinality(refused) - Cardinality({})
      BY <3>2, <3>3, FS_Union
    <3>5. Cardinality(passed) + Cardinality(refused) = Len(batch)
      <4>1. Cardinality({}) = 0
        BY FS_EmptySet
      <4>2. Cardinality(passed \cup refused) = Len(batch)
        BY <3>1, <3>2
      <4> QED
        BY <3>3, <3>4, <4>1, <4>2
    <3>6. Len(succeeded) = Cardinality(passed) /\ Len(failed) = Cardinality(refused)
      BY <2>2, SimCardinality DEF SplitAt, Sim!Lists
    <3> QED
      BY <3>5, <3>6
  <2> QED
    BY <2>2, <2>5, <2>6 DEF SplitAt, Sim!SimulatedOnceInOrder
<1> QED
  BY <1>1, <1>2, SimStep, PTL DEF Sim!Spec
=============================================================================
