------------------------------- MODULE MCOCR2 -------------------------------
(***************************************************************************)
(* Instances of OCR2 for TLC. f = 1 needs at least four oracles; the       *)
(* second set shares three of its four with the first, and a fifth account *)
(* and key join.                                                           *)
(***************************************************************************)
EXTENDS OCR2, TLC

CONSTANTS own, alt, t1, t2, t3, t4, t5, p1, p2, p3, g1, g2, g3, g4, g5, ac1, ac2

Triple(g, t, p) == [signer |-> g, transmitter |-> t, payee |-> p]

First == <<Triple(g1, t1, p1), Triple(g2, t2, p2), Triple(g3, t3, p3), Triple(g4, t4, p3)>>
Second == <<Triple(g5, t5, p1), Triple(g2, t2, p1), Triple(g3, t3, p3), Triple(g4, t4, p3)>>
SameSigner == <<Triple(g1, t1, p1), Triple(g1, t2, p1), Triple(g3, t3, p1), Triple(g4, t4, p1)>>
TooMany == First \o <<Triple(g5, t5, p1)>>

GoodSetups == {[oracles |-> First, f |-> 1], [oracles |-> Second, f |-> 1]}

\* Also sets that repeat a key or an account, too large a set, too large an f.
AllSetups ==
  GoodSetups \cup {[oracles |-> SameSigner, f |-> 1], [oracles |-> TooMany, f |-> 1],
                   [oracles |-> First, f |-> 2]}

\* Two signers; signers of one set only; one signer twice; too few.
SomeSignatures == {<<g1, g2>>, <<g5, g3>>, <<g2, g2>>, <<g2>>}
OneSignature == {<<g2, g3>>}

\* In range at the middle; out of range; too short.
SomeObservations == {<<0, 1>>, <<1, 2>>, <<1, 3>>, <<1>>}
OneObservation == {<<1, 1>>}

NoBilling == [observation |-> 0, transmission |-> 0, gas |-> 0]
Cheap == [observation |-> 1, transmission |-> 1, gas |-> 1]
Dear == [observation |-> 2, transmission |-> 0, gas |-> 0]

FreeOnly == {NoBilling}
Paying == {Cheap, Dear}
AllBillings == {NoBilling, Cheap, Dear}

NobodyElse == [ac \in {ac1} |-> {}]
AltBills == [ac \in {ac1} |-> {alt}]
=============================================================================
