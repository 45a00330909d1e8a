--------------------------- MODULE FileSession ---------------------------
(***************************************************************************)
(* What an editing session promises: the session sees one text per file.   *)
(* An edit only adds to the text it was made on, the file operations act   *)
(* on the texts the session sees (not on what happens to be on disk), a    *)
(* file that was deleted or moved away does not come back, and a crash     *)
(* takes back fewer than Threshold of the latest local keystrokes of a     *)
(* file, unless a failed save of that file was reported.  A step in which  *)
(* a final flush failed unseen is counted in `lapses` and promises         *)
(* nothing.                                                                *)
(*                                                                         *)
(* A text is the sequence of the edits that made it, each one a pair of a  *)
(* fresh number and its origin, "local" or "remote".                       *)
(***************************************************************************)
EXTENDS FileTree, FiniteSets

CONSTANT Threshold

VARIABLES files,   \* files[p]: the text the session sees, or NoFile
          atRisk,  \* paths with a reported save failure not made good since
          lapses,  \* final flushes that failed unseen
          crashes  \* process crashes

LocalEdits(text) == Cardinality({i \in DOMAIN text : text[i][2] = "local"})

Suffix(text, prefix) == SubSeq(text, Len(prefix) + 1, Len(text))

Edits(tree) == UNION {ToSet(tree[p]) : p \in Present(tree)}

FreshIn(text, tree) == ToSet(text) \cap Edits(tree) = {}

Init == atRisk = {} /\ lapses = 0 /\ crashes = 0

Edit(p) ==
  /\ files[p] # NoFile /\ files'[p] # NoFile
  /\ IsStrictPrefix(files[p], files'[p])
  /\ FreshIn(Suffix(files'[p], files[p]), files)
  /\ files' = [files EXCEPT ![p] = files'[p]]

Overwrite(p) ==
  /\ files'[p] # NoFile /\ FreshIn(files'[p], files)
  /\ files' = [files EXCEPT ![p] = files'[p]]

Delete(gone) == files' = Without(files, gone)

FileOperation ==
  /\ \/ \E p \in Paths : Edit(p) \/ Overwrite(p) \/ Delete({p})
     \/ \E from, to \in Paths :
          /\ files[from] # NoFile
          /\ files' \in {FileMoved(files, from, to), FileCopied(files, from, to)}
     \/ \E folder \in Folders : Delete(Beneath(folder))
     \/ \E from, to \in Folders :
          files' \in {FolderMoved(files, from, to), FolderCopied(files, from, to)}
  /\ UNCHANGED <<lapses, crashes>>

\* A crash takes the unsaved tail of some files.
TakenBack(p) ==
  \/ files'[p] = files[p]
  \/ p \in atRisk
  \/ /\ files[p] # NoFile /\ files'[p] # NoFile
     /\ IsPrefix(files'[p], files[p])
     /\ LocalEdits(Suffix(files[p], files'[p])) < Threshold

Crash ==
  /\ \A p \in Paths : TakenBack(p)
  /\ crashes' = crashes + 1
  /\ UNCHANGED lapses

Lapse == lapses' = lapses + 1

Next == FileOperation \/ Crash \/ Lapse

vars == <<files, atRisk, lapses, crashes>>

Spec == Init /\ [][Next]_vars
==========================================================================
