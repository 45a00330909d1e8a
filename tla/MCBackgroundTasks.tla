------------------------ MODULE MCBackgroundTasks ------------------------
(* Finite instances of BackgroundTasks.  w2 runs an older build that does *)
(* not register the function g.                                           *)
EXTENDS BackgroundTasks, TLC

CONSTANTS t1, t2, t3, f, g, w1, w2, c1

MCRegistry    == (w1 :> {f, g}) @@ (w2 :> {f})
==========================================================================
