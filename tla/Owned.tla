------------------------------- MODULE Owned -------------------------------
(***************************************************************************)
(* Two-step ownership of a contract (crates/owned): the owner proposes a   *)
(* successor, who becomes the owner by accepting.                          *)
(***************************************************************************)
CONSTANTS Accounts, Nobody

VARIABLES owner, proposedOwner

ownedVars == <<owner, proposedOwner>>

OwnedTypeOK == owner \in Accounts /\ proposedOwner \in Accounts \cup {Nobody}

Initialize(who) == owner = who /\ proposedOwner = Nobody

IsOwner(who) == who = owner

TransferOwnership(who, to) ==
  /\ IsOwner(who)
  /\ proposedOwner' = to
  /\ UNCHANGED owner

AcceptOwnership(who) ==
  /\ proposedOwner = who
  /\ owner' = who
  /\ proposedOwner' = Nobody
=============================================================================
