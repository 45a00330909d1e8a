--------------------------- MODULE FolderStore ---------------------------
(***************************************************************************)
(* The blocking stores behind FileIo and FolderIo.  BlockingMemIo (a       *)
(* HashMap) and KvBlockingIo (redb) keep a flat table of files: a folder   *)
(* operation lists the keys beneath a folder and goes through them one by  *)
(* one.  A call is one action: redb's write transaction and the RefCell    *)
(* keep others out until it ends, and a call that returns an error drops   *)
(* its transaction, which is a stuttering step.  What is left open is the  *)
(* order of the keys: a HashMap yields them in any order, redb in the      *)
(* order of the keys' text.  The disk store is DiskStore.                  *)
(***************************************************************************)
EXTENDS FileTree, FiniteSets, FiniteSetsExt

CONSTANTS
  Engines,      \* of "mem", "kv" and "disk"
  KeyOrder,     \* Paths, as a sequence in the order of redb's keys
  Contents,     \* the texts write_file is given
  Callers, Torn, Idle,  \* see DiskStore
  MaxCalls,     \* bound on the calls
  Overlapping   \* whether a folder is moved or copied into itself or a parent

ASSUME ConstantsAssumption ==
  /\ Engines \subseteq {"mem", "kv", "disk"}
  /\ KeyOrder \in Seq(Paths) /\ ToSet(KeyOrder) = Paths /\ Len(KeyOrder) = Cardinality(Paths)
  /\ NoFile # Torn /\ {NoFile, Torn} \cap (Contents \cup Paths) = {}
  /\ MaxCalls \in Nat /\ Overlapping \in BOOLEAN

\* The names of folders: no file has one, so that no path is both a file's and
\* a folder's.
FolderNames == UNION {ToSet(f) : f \in Folders \cup {Front(p) : p \in Paths}}

ASSUME NamesAssumption == \A p \in Paths : p # << >> /\ Last(p) \notin FolderNames

VARIABLES engine,
          files,  \* files[p]: the contents stored under p, or NoFile
          calls,  \* calls made
          dirs, walk, since  \* of the disk store

disk == <<dirs, walk, since>>
vars == <<engine, files, calls, disk>>

Disk == INSTANCE DiskStore

ASSUME IdleAssumption == Idle \notin Disk!Walks

Place(p) == CHOOSE i \in DOMAIN KeyOrder : KeyOrder[i] = p

\* The orders in which a call may go through the given keys.
Orders(keys) ==
  {order \in SetToSeqs(keys) :
     engine = "kv" => \A i, j \in DOMAIN order : i < j => Place(order[i]) < Place(order[j])}

matching_keys(folder) == Beneath(folder) \cap Present(files)

swap_prefix(key, from, to) == Rebased(key, from, to)

\* Read, remove, insert under the new key; a key that is gone is skipped.
re_key(table, key, from, to) ==
  IF table[key] = NoFile THEN table
  ELSE [table EXCEPT ![key] = NoFile, ![swap_prefix(key, from, to)] = table[key]]

copy_key(table, key, from, to) ==
  IF table[key] = NoFile THEN table
  ELSE [table EXCEPT ![swap_prefix(key, from, to)] = table[key]]

\* A loop over the keys.
Loop(step(_, _), order) ==
  LET table[n \in 0..Len(order)] == IF n = 0 THEN files ELSE step(table[n - 1], order[n])
  IN table[Len(order)]

-----------------------------------------------------------------------------
Call == calls < MaxCalls /\ calls' = calls + 1

write_file(p, data) == Call /\ files' = [files EXCEPT ![p] = data]

delete_file(p) ==
  /\ Call /\ files[p] # NoFile
  /\ files' = [files EXCEPT ![p] = NoFile]

move_file(from, to) ==
  /\ Call /\ files[from] # NoFile
  /\ files' = [files EXCEPT ![from] = NoFile, ![to] = files[from]]

copy_file(from, to) ==
  /\ Call /\ files[from] # NoFile
  /\ files' = [files EXCEPT ![to] = files[from]]

delete_folder(folder) ==
  /\ Call /\ matching_keys(folder) # {}
  /\ files' = [p \in Paths |-> IF p \in matching_keys(folder) THEN NoFile ELSE files[p]]

\* Bounds: the relocated files are paths of the instance, and the folders
\* overlap only where the instance allows it.
Relocates(from, to) ==
  /\ matching_keys(from) # {}
  /\ Relocated(files, from, to) \subseteq Paths
  /\ Overlapping \/ from = to \/ Disjoint(from, to)

move_folder(from, to) ==
  /\ Call /\ Relocates(from, to)
  /\ \E order \in Orders(matching_keys(from)) :
       files' = Loop(LAMBDA table, key : re_key(table, key, from, to), order)

copy_folder(from, to) ==
  /\ Call /\ Relocates(from, to)
  /\ \E order \in Orders(matching_keys(from)) :
       files' = Loop(LAMBDA table, key : copy_key(table, key, from, to), order)

-----------------------------------------------------------------------------
\* Every path that is present first holds a text of its own.
Init ==
  /\ engine \in Engines
  /\ \E present \in SUBSET Paths :
       files = [p \in Paths |-> IF p \in present THEN p ELSE NoFile]
  /\ calls = 0
  /\ Disk!Init

FlatNext ==
  \/ \E p \in Paths : delete_file(p) \/ \E data \in Contents : write_file(p, data)
  \/ \E from, to \in Paths : move_file(from, to) \/ copy_file(from, to)
  \/ \E folder \in Folders : delete_folder(folder)
  \/ \E from, to \in Folders : move_folder(from, to) \/ copy_folder(from, to)

Next ==
  /\ IF engine = "disk" THEN Disk!Next ELSE FlatNext /\ UNCHANGED disk
  /\ UNCHANGED engine

Spec == Init /\ [][Next]_vars

-----------------------------------------------------------------------------
(* Properties *)

\* What move_folder and copy_folder are documented to do (kv.rs:188, :220): every
\* file beneath `from` sits beneath `to` afterwards, with its contents, and
\* nothing else changes, in whatever order the keys were visited.
RelocatesAll ==
  \A from, to \in Folders :
    /\ move_folder(from, to) => files' = FolderMoved(files, from, to)
    /\ copy_folder(from, to) => files' = FolderCopied(files, from, to)

\* On disk, a copy or a removal that returns without an error has done it to
\* every file that no other call changed meanwhile, and to no other file; a
\* folder copied onto itself is not spared.
WalksAll ==
  \A c \in Callers : Disk!Returns(c) =>
    \/ walk[c].op = "copy" /\ walk[c].from = walk[c].to
    \/ \A p \in Paths : Disk!Untouched(c, p) => files[p] = Disk!Meant(c)[p]

\* A folder operation acts on the whole folder and on nothing else, in each of
\* the three stores.
WholeFolder == [][IF engine = "disk" THEN WalksAll ELSE RelocatesAll]_vars
==========================================================================
