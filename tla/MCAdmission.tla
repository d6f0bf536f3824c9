---------------------------- MODULE MCAdmission ----------------------------
(* Instance of Admission for TLC: one user of each kind.                   *)
EXTENDS Admission, TLC
CONSTANTS m, b, c1, c2, c3

MCCap == (m :> 1) @@ (b :> 2)
CallSymmetry == Permutations(Calls)
=============================================================================
