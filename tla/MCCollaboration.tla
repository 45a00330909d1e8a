------------------------- MODULE MCCollaboration -------------------------
(* Two calls of the page that are alike. *)
EXTENDS Collaboration, TLC

CONSTANTS c, d

CallSymmetry == Permutations({c, d})
==========================================================================
