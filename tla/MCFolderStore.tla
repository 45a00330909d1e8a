-------------------------- MODULE MCFolderStore --------------------------
(* Folders a, b, a/a and b/a, and a file x in some of them.  The strings   *)
(* of KeyOrder sort as redb sorts the keys.                                *)
EXTENDS FolderStore

CONSTANTS a, b, x, text, c1, c2

MCFolders == {<<a>>, <<b>>, <<a, a>>, <<b, a>>}
\* "a/a/a/x" < "a/a/x" < "a/x" < "b/a/x" < "b/x"
MCKeyOrder == << <<a, a, a, x>>, <<a, a, x>>, <<a, x>>, <<b, a, x>>, <<b, x>> >>
MCPaths   == ToSet(MCKeyOrder)
MCSymmetry == Permutations(Callers)
==========================================================================
