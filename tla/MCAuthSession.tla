------------------------- MODULE MCAuthSession -------------------------
(* Finite instances of AuthSession. *)
EXTENDS AuthSession, TLC

CONSTANTS s1, r1, r2, r3

RequestSymmetry == Permutations(Requests)
==========================================================================
