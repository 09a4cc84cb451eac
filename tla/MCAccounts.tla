----------------------------- MODULE MCAccounts -----------------------------
(* Two accounts, one with a document, and two chains at a time: on one     *)
(* installation, or on one each.                                           *)
EXTENDS Accounts, TLC

CONSTANTS a1, a2, d1, c1, c2, i1, i2

MCUser == {a1, a2}
MCDoc == {d1}
MCOwner == d1 :> a1
MCChain == {c1, c2}
MCInstallation == {i1, i2}
MCOne == {i1}
Apart == c1 :> i1 @@ c2 :> i2
Together == c1 :> i1 @@ c2 :> i1

Symmetry == Permutations(MCChain)
=============================================================================
