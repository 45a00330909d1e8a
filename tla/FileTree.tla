---------------------------- MODULE FileTree ----------------------------
(***************************************************************************)
(* A project's files as a function from paths to contents, and what the    *)
(* file and folder operations of the storage traits FileIo and FolderIo    *)
(* are documented to do to it.  A path is the sequence of its components;  *)
(* a folder is a path that has files beneath it.                           *)
(***************************************************************************)
EXTENDS Naturals, Sequences, SequencesExt

CONSTANTS Paths,    \* the file paths of the instance
          Folders,  \* the folder paths of the instance
          NoFile    \* contents of a path the tree does not hold

Components == UNION {ToSet(p) : p \in Paths \cup Folders}

ASSUME PathsAssumption == Paths \cup Folders \subseteq Seq(Components)

Present(tree) == {p \in Paths : tree[p] # NoFile}

\* Path::starts_with, by component: a folder also matches itself.
Beneath(folder) == {p \in Paths : IsPrefix(folder, p)}

Rebased(p, from, to) == to \o SubSeq(p, Len(from) + 1, Len(p))

Disjoint(from, to) == ~IsPrefix(from, to) /\ ~IsPrefix(to, from)

\* Bound: only folder pairs whose relocated files are paths of the instance.
FitsInto(from, to) == \A p \in Beneath(from) : Rebased(p, from, to) \in Paths

Without(tree, gone) == [p \in Paths |-> IF p \in gone THEN NoFile ELSE tree[p]]

FileCopied(tree, from, to) == [tree EXCEPT ![to] = tree[from]]

FileMoved(tree, from, to) == [tree EXCEPT ![from] = NoFile, ![to] = tree[from]]

\* Every file beneath `from`, at its place beneath `to`.
Relocated(tree, from, to) ==
  {Rebased(p, from, to) : p \in Beneath(from) \cap Present(tree)}

\* All files are copied at once: what was beneath `to` is overwritten.
FolderCopied(tree, from, to) ==
  [p \in Paths |-> IF p \in Relocated(tree, from, to)
                   THEN tree[Rebased(p, to, from)] ELSE tree[p]]

\* ... and for a move nothing remains beneath `from` but what was put there.
FolderMoved(tree, from, to) ==
  [p \in Paths |-> IF p \in Relocated(tree, from, to)
                   THEN tree[Rebased(p, to, from)]
                   ELSE IF p \in Beneath(from) THEN NoFile ELSE tree[p]]
==========================================================================
