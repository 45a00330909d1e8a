---------------------------- MODULE IndexedDb ----------------------------
(***************************************************************************)
(* The asynchronous store over the browser's IndexedDB: IndexedDbIo with   *)
(* its file and folder operations, called concurrently.                    *)
(*                                                                         *)
(* An operation awaits one or two transactions of the database.  Those run *)
(* in the order they were opened, which `queue` holds, save that readers do *)
(* not wait for one another.  An operation runs without interruption from  *)
(* one await to the next, so an action is a call up to its first await, or *)
(* the answer to the transaction whose turn it is, with what its owner does *)
(* next.                                                                   *)
(***************************************************************************)
EXTENDS FileTree, FiniteSets

CONSTANTS
  Callers,    \* the concurrent calls of the store
  KeyOrder,   \* Paths, as a sequence in the order of the keys' text
  MaxFaults   \* bound on failing transactions and crashes

ASSUME StoreAssumption ==
  /\ KeyOrder \in Seq(Paths)
  /\ ToSet(KeyOrder) = Paths /\ Len(KeyOrder) = Cardinality(Paths)
  /\ MaxFaults \in Nat

VARIABLES
  store,   \* store[p]: the committed contents of p, or NoFile
  queue,   \* open transactions: [owner, requests], oldest first
  call,    \* call[c]: the operation the caller awaits
  faults   \* failed transactions and crashes so far

storeVars == <<store, queue, call, faults>>

\* A request is a path and what is put under it, NoFile to delete it; a read
\* is a transaction without one.
Transaction(owner, requests) == [owner |-> owner, requests |-> requests]

Open(owner, requests) == queue' = Append(queue, Transaction(owner, requests))

\* The i-th transaction is its owner's and may run: it is the oldest, or it and
\* those before it only read.
Served(i, owner) ==
  /\ i \in DOMAIN queue /\ queue[i].owner = owner
  /\ i > 1 => \A j \in 1..i : queue[j].requests = << >>

\* The last request for a path decides.
Committed(tree, requests) ==
  [p \in Paths |-> LET mine == {i \in DOMAIN requests : requests[i][1] = p}
                   IN IF mine = {} THEN tree[p] ELSE requests[Max(mine)][2]]

\* "ok"; "error": the request fails; "lost": the request succeeds, which is
\* what is awaited, and the transaction then aborts at its commit.
Answers(i) == {"ok"} \cup IF faults = MaxFaults THEN {}
                          ELSE IF queue[i].requests = << >> THEN {"error"}
                          ELSE {"error", "lost"}

\* The i-th transaction is answered, and its owner opens the next one with
\* `requests`, or none.
Answer(i, answer, requests) ==
  /\ store' = IF answer = "ok" THEN Committed(store, queue[i].requests) ELSE store
  /\ faults' = IF answer = "ok" THEN faults ELSE faults + 1
  /\ queue' = IF requests = << >> THEN RemoveAt(queue, i)
              ELSE Append(RemoveAt(queue, i), Transaction(queue[i].owner, requests))

-----------------------------------------------------------------------------
(* What each operation asks of its second transaction, when its first one  *)
(* has read the store.                                                     *)

Nothing == [p \in Paths |-> NoFile]
Idle == [op |-> "none", from |-> << >>, to |-> << >>, awaits |-> "none", before |-> Nothing]

\* all_keys, all_entries: in the order of the keys.
Keys(folder) ==
  LET found == {i \in DOMAIN KeyOrder : KeyOrder[i] \in Beneath(folder) \cap Present(store)}
  IN [n \in 1..Cardinality(found) |->
        KeyOrder[CHOOSE i \in found : Cardinality({j \in found : j <= i}) = n]]

delete_file(p) == << <<p, NoFile>> >>

move_file(from, to) == << <<to, store[from]>>, <<from, NoFile>> >>

copy_file(from, to) == << <<to, store[from]>> >>

delete_folder(folder) == [i \in 1..Len(Keys(folder)) |-> <<Keys(folder)[i], NoFile>>]

\* Faulty: the keys beneath `from` stay, to be deleted in a transaction of their
\* own.
move_folder_puts_only(from, to) ==
  [i \in 1..Len(Keys(from)) |->
     <<Rebased(Keys(from)[i], from, to), store[Keys(from)[i]]>>]

move_folder(from, to) ==
  [i \in 1..(2 * Len(Keys(from))) |->
     LET key == Keys(from)[(i + 1) \div 2]
     IN IF i % 2 = 1 THEN <<Rebased(key, from, to), store[key]>> ELSE <<key, NoFile>>]

copy_folder(from, to) ==
  [i \in 1..Len(Keys(from)) |->
     <<Rebased(Keys(from)[i], from, to), store[Keys(from)[i]]>>]

\* A file operation on a missing file, or a folder operation on a folder
\* without files, asks for nothing and returns "not found".
Requests(d) ==
  IF d.op \in {"delete_file", "move_file", "copy_file"} /\ store[d.from] = NoFile THEN << >>
  ELSE CASE d.op = "delete_file"   -> delete_file(d.from)
         [] d.op = "move_file"     -> move_file(d.from, d.to)
         [] d.op = "copy_file"     -> copy_file(d.from, d.to)
         [] d.op = "delete_folder" -> delete_folder(d.from)
         [] d.op = "move_folder"   -> move_folder(d.from, d.to)
         [] d.op = "copy_folder"   -> copy_folder(d.from, d.to)

-----------------------------------------------------------------------------
(* Actions *)

FileOperations == {"move_file", "copy_file"}
FolderOperations == {"move_folder", "copy_folder"}

\* The arguments of an operation.  Bound: relocated files are paths of the
\* instance.  Operations that only read (read_file, exists, the listings) change
\* nothing and are left out.
Calls ==
     [op : {"delete_file"}, from : Paths, to : {<< >>}]
  \cup [op : FileOperations, from : Paths, to : Paths]
  \cup [op : {"delete_folder"}, from : Folders, to : {<< >>}]
  \cup {d \in [op : FolderOperations, from : Folders, to : Folders] : FitsInto(d.from, d.to)}

\* Every one of these reads first, in a transaction of its own.
Begin(c, d) ==
  /\ call[c] = Idle
  /\ call' = [call EXCEPT ![c] = [op |-> d.op, from |-> d.from, to |-> d.to,
                                 awaits |-> "read", before |-> Nothing]]
  /\ Open(c, << >>)
  /\ UNCHANGED <<store, faults>>

\* write_file has a single transaction.
write_file(c, p, data) ==
  /\ call[c] = Idle
  /\ call' = [call EXCEPT ![c] = [op |-> "write_file", from |-> p, to |-> << >>,
                                 awaits |-> "write", before |-> Nothing]]
  /\ Open(c, << <<p, data>> >>)
  /\ UNCHANGED <<store, faults>>

\* What was read decides whether there is a second transaction; it is opened
\* before anything else runs, with all its requests, but behind those that
\* were opened since the first.
ReadAnswered(c) ==
  /\ call[c].awaits = "read"
  /\ \E i \in DOMAIN queue : Served(i, c) /\ \E answer \in Answers(i) :
       LET requests == IF answer = "ok" THEN Requests(call[c]) ELSE << >>
       IN  /\ Answer(i, answer, requests)
           /\ call' = [call EXCEPT ![c] = IF requests = << >> THEN Idle
                                ELSE [@ EXCEPT !.awaits = "write", !.before = store]]

WriteAnswered(c) ==
  /\ Served(1, c) /\ call[c].awaits = "write"
  /\ \E answer \in Answers(1) : Answer(1, answer, << >>)
  /\ call' = [call EXCEPT ![c] = Idle]

StoreInit ==
  /\ store = Nothing /\ queue = << >>
  /\ call = [c \in Callers |-> Idle]
  /\ faults = 0

StoreStep ==
  \E c \in Callers : (\E d \in Calls : Begin(c, d)) \/ ReadAnswered(c) \/ WriteAnswered(c)

-----------------------------------------------------------------------------
(* Properties *)

\* What an operation is to do to the tree.
Meant(d, tree) ==
  CASE d.op = "delete_file"   -> Without(tree, {d.from})
    [] d.op = "move_file"     -> FileMoved(tree, d.from, d.to)
    [] d.op = "copy_file"     -> FileCopied(tree, d.from, d.to)
    [] d.op = "delete_folder" -> Without(tree, Beneath(d.from))
    [] d.op = "move_folder"   -> FolderMoved(tree, d.from, d.to)
    [] d.op = "copy_folder"   -> FolderCopied(tree, d.from, d.to)
    [] OTHER                  -> tree

\* The paths an operation looked at or changes.
Concerned(d) ==
  CASE d.op \in FolderOperations -> Beneath(d.from) \cup Beneath(d.to)
    [] d.op = "delete_folder" -> Beneath(d.from)
    [] d.op \in FileOperations -> {d.from, d.to}
    [] OTHER -> {d.from}

\* The files an operation is to delete, move or copy.
Source(d) == IF d.op \in FolderOperations \cup {"delete_folder"} THEN Beneath(d.from) ELSE {d.from}

\* Nothing is put onto itself.
Spread(d) ==
  /\ d.op \in FileOperations => d.from # d.to
  /\ d.op \in FolderOperations => Disjoint(d.from, d.to)

\* An operation does to the store, in one step, what it is meant to do, unless
\* another one changed the paths it is concerned with between its read and its
\* write, or it puts a folder or file onto itself.  In particular no state of the store
\* shows a file at both ends of a move, or at neither.
AtomicUnlessInterfered ==
  [][\A c \in Callers :
       /\ Served(1, c) /\ call[c].awaits = "write" /\ call[c].op # "write_file"
       /\ queue' = Tail(queue) /\ faults' = faults
       /\ Spread(call[c])
       /\ \A p \in Concerned(call[c]) : store[p] = call[c].before[p]
       => store' = Meant(call[c], store)]_storeVars
==========================================================================
