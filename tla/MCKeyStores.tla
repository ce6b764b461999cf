---------------------------- MODULE MCKeyStores ----------------------------
(* Instances of KeyStores.                                                 *)
EXTENDS KeyStores, TLC

CONSTANTS k1, k2, f1, f2, v1, v2, s1

OneSlot == [v \in Var |-> s1]
FirstCanonical == {v1}
AllSteps == Steps
Cleaning == {"forget", "retire", "drop"}

SymmetricKeys == Permutations(Secret)
=============================================================================
