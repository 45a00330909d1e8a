--------------------------- MODULE MCTextEdits ---------------------------
(* A character of one byte, one of two, and the newline. *)
EXTENDS TextEdits, TLC

CONSTANTS a, umlaut, newline

MCWidth == (a :> 1) @@ (umlaut :> 2) @@ (newline :> 1)
==========================================================================
