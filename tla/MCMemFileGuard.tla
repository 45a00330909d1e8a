------------------------- MODULE MCMemFileGuard -------------------------
(* A project of two folders: a/x is an empty text, b/x a binary asset.     *)
EXTENDS MemFileGuard, TLC

CONSTANTS a, b, x

MCFolders == {<<a>>, <<b>>}
MCPaths   == {<<a, x>>, <<b, x>>}
MCBlob    == << <<0, "given">> >>
MCStore   == (<<a, x>> :> << >>) @@ (<<b, x>> :> MCBlob)
==========================================================================
