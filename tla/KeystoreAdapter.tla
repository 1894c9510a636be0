-------------------------- MODULE KeystoreAdapter --------------------------
(***************************************************************************)
(* The keystore adapter of the transaction manager: it finds the key of an *)
(* address in a map of its own, and reads the keystore's accounts into the *)
(* map when it does not (txm/keystore_adapter.go). Users of the keystore   *)
(* import and delete keys meanwhile.                                       *)
(*                                                                         *)
(* An account is its public key, and an address stands for one key: the    *)
(* map is the set of keys that have an address in it. Re-use of addresses  *)
(* computed before is left out.                                            *)
(***************************************************************************)
EXTENDS FiniteSets

CONSTANTS
  Callers,           \* goroutines that sign or ask for a public key
  Keys,              \* accounts whose address can be computed
  Malformed,         \* accounts that are no public key
  Nobody

VARIABLES
  accounts,          \* external: what the keystore has
  mapped,            \* addressToPubKey
  writer,            \* who holds the mutex for writing
  caller,            \* caller[p]: [at, id, listed, result]
  absent,            \* history: ids whose key was not in the keystore since p began
  disturbed          \* history: p's calls may have met an error of the keystore

keyVars == <<accounts, mapped, writer, caller, absent, disturbed>>

Idle == [at |-> "idle", id |-> Nobody, listed |-> {}, result |-> "none"]

Init ==
  /\ accounts = {}
  /\ mapped = {}
  /\ writer = Nobody
  /\ caller = [p \in Callers |-> Idle]
  /\ absent = [p \in Callers |-> {}]
  /\ disturbed = {}

Goto(p, place) == caller' = [caller EXCEPT ![p].at = place]
Return(p, result) == caller' = [caller EXCEPT ![p].at = "returned", ![p].result = result]

\* What p's calls have met, with the keystore's accounts as they are now.
Witness(kept) ==
  /\ absent' = [p \in Callers |-> absent[p] \cup (Keys \ kept)]
  /\ disturbed' = IF kept \cap Malformed = {} THEN disturbed ELSE Callers
-----------------------------------------------------------------------------
(* lookup, with updateMappingLocked *)

Begin(p, id) ==
  /\ caller[p].at \in {"idle", "returned"}
  /\ caller' = [caller EXCEPT ![p] = [Idle EXCEPT !.at = "read", !.id = id]]
  /\ absent' = [absent EXCEPT ![p] = Keys \ accounts]
  /\ disturbed' = IF accounts \cap Malformed = {} THEN disturbed \ {p} ELSE disturbed \cup {p}
  /\ UNCHANGED <<accounts, mapped, writer>>

\* Under the read lock.
ReadMapping(p) ==
  /\ caller[p].at = "read" /\ writer = Nobody
  /\ IF caller[p].id \in mapped THEN Return(p, "found") ELSE Goto(p, "lock")
  /\ UNCHANGED <<accounts, mapped, writer, absent, disturbed>>

Lock(p) ==
  /\ caller[p].at = "lock" /\ writer = Nobody
  /\ writer' = p
  /\ Goto(p, "accounts")
  /\ UNCHANGED <<accounts, mapped, absent, disturbed>>

\* keystore.Accounts, which may fail; the lock is held while it answers.
Accounts(p) ==
  /\ caller[p].at = "accounts"
  /\ \/ /\ caller' = [caller EXCEPT ![p].at = "update", ![p].listed = accounts]
        /\ UNCHANGED <<writer, disturbed>>
     \/ /\ Return(p, "error")
        /\ writer' = Nobody
        /\ disturbed' = disturbed \cup {p}
  /\ UNCHANGED <<accounts, mapped, absent>>

\* Mutant: what is listed counts only while nothing is mapped.
UpdateOnce(p) ==
  /\ caller[p].at = "update"
  /\ IF caller[p].listed \cap Malformed # {}
     THEN Return(p, "error") /\ UNCHANGED mapped
     ELSE /\ mapped' = IF mapped = {} THEN caller[p].listed ELSE mapped
          /\ Return(p, IF caller[p].id \in mapped' THEN "found" ELSE "no such id")
  /\ writer' = Nobody
  /\ UNCHANGED <<accounts, absent, disturbed>>

\* One account that is no public key and the map stays as it was.
Update(p) ==
  /\ caller[p].at = "update"
  /\ IF caller[p].listed \cap Malformed # {}
     THEN Return(p, "error") /\ UNCHANGED mapped
     ELSE /\ mapped' = caller[p].listed
          /\ Return(p, IF caller[p].id \in mapped' THEN "found" ELSE "no such id")
  /\ writer' = Nobody
  /\ UNCHANGED <<accounts, absent, disturbed>>

\* Sign: the keystore signs with the key found, if it still has it.
Sign(p) ==
  /\ caller[p].at = "returned" /\ caller[p].result = "found"
  /\ Return(p, IF caller[p].id \in accounts THEN "signed" ELSE "refused")
  /\ UNCHANGED <<accounts, mapped, writer, absent, disturbed>>
-----------------------------------------------------------------------------
(* External: the keystore's users *)

Import(account) ==
  /\ accounts' = accounts \cup {account}
  /\ Witness(accounts')
  /\ UNCHANGED <<mapped, writer, caller>>

Delete(account) ==
  /\ accounts' = accounts \ {account}
  /\ Witness(accounts')
  /\ UNCHANGED <<mapped, writer, caller>>

Next ==
  \/ \E p \in Callers :
       \/ \E id \in Keys : Begin(p, id)
       \/ ReadMapping(p) \/ Lock(p) \/ Accounts(p) \/ Update(p) \/ Sign(p)
  \/ \E account \in Keys \cup Malformed : Import(account) \/ Delete(account)

Spec == Init /\ [][Next]_keyVars
-----------------------------------------------------------------------------
(* Properties *)

\* A key that is in the keystore from before a call until it returns is found
\* and signs, whoever else reads or replaces the map meanwhile; the call fails
\* only if the keystore did, or held an account that is no key. And nothing
\* that is no key is ever mapped.
PresentKeySigns ==
  /\ \A p \in Callers :
       caller[p].at = "returned" /\ caller[p].id \notin absent[p] =>
         \/ caller[p].result \in {"found", "signed"}
         \/ caller[p].result = "error" /\ p \in disturbed
  /\ mapped \subseteq Keys
=============================================================================
