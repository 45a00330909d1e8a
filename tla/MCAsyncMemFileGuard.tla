----------------------- MODULE MCAsyncMemFileGuard -----------------------
(* A folder r of two folders with one path each, of which r/a/x is an empty *)
(* text at first; r/a/x and r/b/x stand for the two forms of a module.     *)
EXTENDS AsyncMemFileGuard, TLC

CONSTANTS r, a, b, x, engine

MCFolders  == {<<r>>, <<r, a>>, <<r, b>>}
MCKeyOrder == << <<r, a, x>>, <<r, b, x>> >>
MCPaths    == ToSet(MCKeyOrder)
MCStore    == (<<r, a, x>> :> << >>) @@ (<<r, b, x>> :> NoFile)
MCModules  == {MCKeyOrder}
==========================================================================
