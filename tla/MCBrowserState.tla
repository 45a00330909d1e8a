------------------------- MODULE MCBrowserState -------------------------
(* A project of two folders with one file each. *)
EXTENDS BrowserState, TLC

CONSTANTS a, b, x, s1, s2, c1

MCFolders  == {<<a>>, <<b>>}
MCPaths    == {<<a, x>>, <<b, x>>}
MCKeyOrder == << <<a, x>>, <<b, x>> >>
Symmetric  == Permutations(Tasks)
==========================================================================
