-------------------------- MODULE MCNetcodeServer --------------------------
(* Instances of NetcodeServer.  Two of the three tokens belong to the same *)
(* client.                                                                 *)
EXTENDS NetcodeServer, TLC

CONSTANTS a1, a2, a3, t1, t2, t3, c1, c2, local

TwoAddresses == {a1, a2}
ThreeAddresses == {a1, a2, a3}
TwoTokens == {t1, t2}
ThreeTokens == {t1, t2, t3}
OneLocal == {local}
NoLocal == {}

SharedId == (t1 :> c1) @@ (t2 :> c1) @@ (t3 :> c2)
DistinctId == (t1 :> c1) @@ (t2 :> c2)
OneSecond == [t \in Tokens |-> 1]
NeverExpire == [t \in Tokens |-> 100]
FirstExpires == [t \in Tokens |-> IF t = t1 THEN 1 ELSE 100]

AddressSymmetry == Permutations(ThreeAddresses)
=============================================================================
