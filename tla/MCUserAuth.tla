----------------------------- MODULE MCUserAuth -----------------------------
(***************************************************************************)
(* Instances of UserAuth for TLC.                                          *)
(***************************************************************************)
EXTENDS UserAuth, TLC

RequestSymmetry == Permutations(Requests)
=============================================================================
