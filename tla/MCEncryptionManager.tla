------------------------ MODULE MCEncryptionManager ------------------------
(* Four addresses compete for three entries: refused additions, holes,     *)
(* reuse of expired entries and shrinking of the searched part all happen. *)
EXTENDS EncryptionManager, TLC

CONSTANTS a1, a2, a3, a4, k1, none

MCAddresses == {a1, a2, a3, a4}
MCKeys == {k1}
MCTimeouts == {1, -1}
MCSymmetry == Permutations(MCAddresses)
=============================================================================
