---------------------------- MODULE DiskStore ----------------------------
(***************************************************************************)
(* The disk store, BlockingDiskIo: files and folders of the file system,   *)
(* used by several threads without a lock.  Renaming is one step of the    *)
(* file system; copying and removing a folder walk down its tree, listing  *)
(* one folder after the other and acting on one entry after the other,     *)
(* while other calls go on.  A call that returns an error keeps what it    *)
(* has done.                                                               *)
(*                                                                         *)
(* A listing is read at once when its folder is opened.  A file is Torn    *)
(* that a write or a copy has not finished, or that was copied onto itself.*)
(***************************************************************************)
EXTENDS FileTree, FiniteSets

CONSTANTS
  Callers,   \* threads that copy and remove folders
  Contents,  \* the texts write_file is given
  Torn,
  Idle,      \* a caller without a walk
  MaxCalls   \* bound on the calls

VARIABLES
  files,  \* files[p]: the contents of p, or NoFile
  dirs,   \* the folders that exist; << >> is the root
  walk,   \* copy_dir_all or remove_dir_all under way: the folders it is in, the
          \* innermost first, each with the listed entries it has yet to do
  since,  \* history: the files as the walk found them, and the paths that
          \* others have changed since
  calls

vars == <<files, dirs, walk, since, calls>>

\* What a caller has of a call under way.
Walks == [op : {"copy", "delete"}, from : Folders, to : Folders,
          within : Seq([dir : Seq(Components), left : SUBSET Seq(Components)])]

Walking == {c \in Callers : walk[c] # Idle}

child_files(folder) == {p \in Present(files) : Front(p) = folder}

child_folders(folder) == {f \in dirs \ {<< >>} : Front(f) = folder}

\* Faulty: sub-folders are not descended into.
read_dir_flat(folder) == child_files(folder)

read_dir(folder) == child_files(folder) \cup child_folders(folder)

\* create_dir_all
Upto(folder) == {SubSeq(folder, 1, n) : n \in 0..Len(folder)}

Call == calls < MaxCalls /\ calls' = calls + 1

-----------------------------------------------------------------------------
(* Calls that are one step *)

\* An error may come after the folders were made, or in the middle of the text.
write_file(p, data) ==
  /\ Call
  /\ dirs' = dirs \cup Upto(Front(p))
  /\ \E new \in {files[p], data, Torn} : files' = [files EXCEPT ![p] = new]
  /\ UNCHANGED walk

delete_file(p) ==
  /\ Call /\ files[p] # NoFile
  /\ files' = [files EXCEPT ![p] = NoFile]
  /\ UNCHANGED <<dirs, walk>>

\* rename makes no folders.
move_file(from, to) ==
  /\ Call /\ files[from] # NoFile /\ Front(to) \in dirs
  /\ files' = FileMoved(files, from, to)
  /\ UNCHANGED <<dirs, walk>>

\* fs::copy opens its target before it reads, which empties a file that is
\* copied onto itself.
FsCopied(from, to) == [files EXCEPT ![to] = IF from = to THEN Torn ELSE files[from]]

copy_file(from, to) ==
  /\ Call /\ files[from] # NoFile /\ Front(to) \in dirs
  /\ files' \in {FsCopied(from, to), [files EXCEPT ![to] = Torn]}
  /\ UNCHANGED <<dirs, walk>>

create_folder(folder) ==
  /\ Call
  /\ dirs' = dirs \cup Upto(folder)
  /\ UNCHANGED <<files, walk>>

\* A folder is renamed to a new name, or in place of an empty folder.
move_folder(from, to) ==
  /\ Call /\ from \in dirs /\ Front(to) \in dirs /\ Disjoint(from, to)
  /\ to \in dirs => read_dir(to) = {}
  /\ Relocated(files, from, to) \subseteq Paths  \* bound
  /\ files' = FolderMoved(files, from, to)
  /\ dirs' = {IF IsPrefix(from, f) THEN Rebased(f, from, to) ELSE f : f \in dirs}
  /\ UNCHANGED walk

-----------------------------------------------------------------------------
(* Walks *)

Folder(f) == [dir |-> f, left |-> read_dir(f)]

\* The target is created before the source is known to exist.
copy_folder(c, from, to) ==
  /\ Call /\ walk[c] = Idle
  /\ from = to \/ Disjoint(from, to)             \* bound
  /\ Relocated(files, from, to) \subseteq Paths  \* bound
  /\ dirs' = dirs \cup Upto(to) /\ UNCHANGED files
  /\ IF from \in dirs
     THEN walk' = [walk EXCEPT ![c] = [op |-> "copy", from |-> from, to |-> to,
                                       within |-> <<Folder(from)>>]]
     ELSE UNCHANGED walk

delete_folder(c, folder) ==
  /\ Call /\ walk[c] = Idle /\ folder \in dirs
  /\ walk' = [walk EXCEPT ![c] = [op |-> "delete", from |-> folder, to |-> folder,
                                  within |-> <<Folder(folder)>>]]
  /\ UNCHANGED <<files, dirs>>

Left(c) == Head(walk[c].within).left

\* Entry e of the innermost folder is done.
Done(c, e) == [Head(walk[c].within) EXCEPT !.left = @ \ {e}]

Proceed(c, e) == walk' = [walk EXCEPT ![c].within = <<Done(c, e)>> \o Tail(@)]

Target(c, e) == Rebased(e, walk[c].from, walk[c].to)

\* A folder is entered; a copy makes its counterpart first.
Enter(c, e) ==
  /\ c \in Walking /\ e \in Left(c) \cap dirs
  /\ walk' = [walk EXCEPT ![c].within = <<Folder(e), Done(c, e)>> \o Tail(@)]
  /\ dirs' = IF walk[c].op = "copy" THEN dirs \cup Upto(Target(c, e)) ELSE dirs
  /\ UNCHANGED <<files, calls>>

CopyEntry(c, e) ==
  /\ c \in Walking /\ walk[c].op = "copy" /\ e \in Left(c) \cap Present(files)
  /\ Target(c, e) \in Paths /\ Front(Target(c, e)) \in dirs
  /\ files' = FsCopied(e, Target(c, e)) /\ Proceed(c, e)
  /\ UNCHANGED <<dirs, calls>>

\* An entry that is gone is no error.
DeleteEntry(c, e) ==
  /\ c \in Walking /\ walk[c].op = "delete" /\ e \in Left(c) \ dirs
  /\ files' = [p \in Paths |-> IF p = e THEN NoFile ELSE files[p]] /\ Proceed(c, e)
  /\ UNCHANGED <<dirs, calls>>

\* Every entry is done: the folder is left, and a removed one must be empty.
Leave(c) ==
  /\ c \in Walking /\ Left(c) = {}
  /\ IF walk[c].op = "copy" THEN UNCHANGED dirs
     ELSE LET dir == Head(walk[c].within).dir
          IN read_dir(dir) = {} /\ dirs' = dirs \ {dir}
  /\ walk' = [walk EXCEPT ![c] = IF Len(walk[c].within) = 1 THEN Idle
                                 ELSE [walk[c] EXCEPT !.within = Tail(walk[c].within)]]
  /\ UNCHANGED <<files, calls>>

\* The first error ends the call, and so does the end of the process; the file
\* that was being copied is then Torn.
Fail(c) ==
  /\ c \in Walking
  /\ walk' = [walk EXCEPT ![c] = Idle]
  /\ \/ UNCHANGED files
     \/ /\ walk[c].op = "copy"
        /\ \E e \in Left(c) \cap Present(files) :
             /\ Target(c, e) \in Paths /\ Front(Target(c, e)) \in dirs
             /\ files' = [files EXCEPT ![Target(c, e)] = Torn]
  /\ UNCHANGED <<dirs, calls>>

-----------------------------------------------------------------------------
Init ==
  /\ dirs = {<< >>} \cup UNION {Upto(Front(p)) : p \in Present(files)}
  /\ walk = [c \in Callers |-> Idle]
  /\ since = [c \in Callers |-> Idle]

Remembered ==
  since' = [c \in Callers |->
    IF walk'[c] = Idle THEN Idle
    ELSE IF walk[c] = Idle THEN [found |-> files, touched |-> {}]
    ELSE IF walk'[c] # walk[c] THEN since[c]
    ELSE [since[c] EXCEPT !.touched = @ \cup {p \in Paths : files'[p] # files[p]}]]

Next ==
  /\ \/ \E p \in Paths : delete_file(p) \/ \E data \in Contents : write_file(p, data)
     \/ \E from, to \in Paths : move_file(from, to) \/ copy_file(from, to)
     \/ \E f \in Folders : create_folder(f)
     \/ \E from, to \in Folders : move_folder(from, to)
     \/ \E c \in Callers :
          \/ \E f \in Folders : delete_folder(c, f)
          \/ \E from, to \in Folders : copy_folder(c, from, to)
          \/ c \in Walking /\ \E e \in Left(c) : Enter(c, e) \/ CopyEntry(c, e) \/ DeleteEntry(c, e)
          \/ Leave(c) \/ Fail(c)
  /\ Remembered

-----------------------------------------------------------------------------
(* What a walk is for *)

Returns(c) == Leave(c) /\ walk'[c] = Idle

Meant(c) ==
  IF walk[c].op = "copy" THEN FolderCopied(since[c].found, walk[c].from, walk[c].to)
  ELSE Without(since[c].found, Beneath(walk[c].from))

\* Nobody else has changed p, or the file that is copied to p.
Untouched(c, p) ==
  {p} \cup {q \in Beneath(walk[c].from) : Target(c, q) = p} \subseteq Paths \ since[c].touched
==========================================================================
