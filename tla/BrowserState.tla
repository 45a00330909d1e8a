-------------------------- MODULE BrowserState --------------------------
(***************************************************************************)
(* The buffers of a browser session over the IndexedDB store: the map      *)
(* FILE_STATE and the functions of browser_state.rs.                       *)
(*                                                                         *)
(* The page has one thread, so a function runs without interruption up to  *)
(* an await.  Those that save take the buffer out of the map, await the    *)
(* save and put the buffer back; whatever is called meanwhile finds the    *)
(* path not open.  A call that returns an error at once changes nothing    *)
(* and is a stuttering step.                                               *)
(*                                                                         *)
(* A text is the sequence of the edits that made it.  The first of them is *)
(* the insertion that opened the buffer, and identifies the buffer.        *)
(***************************************************************************)
EXTENDS IndexedDb

CONSTANTS
  Tasks,           \* the concurrent calls of the session's functions
  SAVE_THRESHOLD,  \* single character edits that force a save
  MaxRun,          \* bound on the operations of one transaction
  MaxEdits,        \* bound on the edits
  MaxCalls         \* bound on the calls of the store's own operations

ASSUME ConstantsAssumption ==
  /\ SAVE_THRESHOLD \in Nat \ {0}
  /\ MaxRun \in Nat /\ MaxEdits \in Nat /\ MaxCalls \in Nat
  /\ Tasks \cap Callers = {}
  /\ NoFile \notin Seq(Nat)

VARIABLES
  FILE_STATE,  \* the open buffers: [text, ops_since_save] per path
  task,        \* what each call in progress holds and awaits
  edits,       \* edits made so far; numbers the next one
  calls,       \* store operations called so far
  closed,      \* history: buffers that were replaced, removed or wiped
  foreign,     \* history: paths last written by an operation of the store
  atRisk       \* history: paths whose last save failed, or was lost

session == <<FILE_STATE, task, edits>>
history == <<closed, foreign, atRisk>>
vars == <<storeVars, session, calls, history>>

open == DOMAIN FILE_STATE

\* Faulty: leaves an empty buffer behind.
TakeEmptied(p) ==
  [q \in open |-> IF q = p THEN [text |-> << >>, ops_since_save |-> 0] ELSE FILE_STATE[q]]

Take(p) == [q \in open \ {p} |-> FILE_STATE[q]]
Insert(p, file) == [q \in open \cup {p} |-> IF q = p THEN file ELSE FILE_STATE[q]]

\* state.extend(files)
Extend(files) ==
  [q \in open \cup DOMAIN files |-> IF q \in DOMAIN files THEN files[q] ELSE FILE_STATE[q]]

Done == [kind |-> "none"]

\* The buffers a call has taken out of the map.
Held(t) == CASE task[t].kind = "edit"  -> {<<task[t].path, task[t].file>>}
             [] task[t].kind = "flush" -> {<<p, task[t].files[p]>> : p \in DOMAIN task[t].files}
             [] OTHER -> {}

\* Every buffer of the session, with its path.
Buffers == {<<p, FILE_STATE[p]>> : p \in open} \cup UNION {Held(t) : t \in Tasks}

Id(text) == Head(text)

BuffersAt(p) == {Id(b[2].text) : b \in {c \in Buffers : c[1] = p}}

-----------------------------------------------------------------------------
(* Saving and editing a buffer.                                            *)

Put(p, file) == << <<p, file.text>> >>

saved(file) == [file EXCEPT !.ops_since_save = 0]

\* A save of p was answered.
Recorded(p, answer) ==
  /\ foreign' = IF answer = "ok" THEN foreign \ {p} ELSE foreign
  /\ atRisk' = IF answer = "ok" THEN atRisk \ {p} ELSE atRisk \cup {p}

\* Faulty: the save happens one edit late.
MustSaveLate(file, run) == run = "run" \/ file.ops_since_save > SAVE_THRESHOLD

\* A longer run is saved at once, a single character when enough built up.
MustSave(file, run) == run = "run" \/ file.ops_since_save >= SAVE_THRESHOLD

\* The buffer after the first n operations of a transaction.
Edited(file, todo, n) ==
  [text |-> file.text \o [i \in 1..n |-> todo[i][1]],
   ops_since_save |-> file.ops_since_save + Cardinality({i \in 1..n : todo[i][2] = "char"})]

\* apply_transaction up to the first save: the buffer, the operations that
\* remain, and whether there is a save to await.
ApplyUntilSave(file, todo) ==
  LET saves == {n \in 1..Len(todo) : MustSave(Edited(file, todo, n), todo[n][2])}
      last  == IF saves = {} THEN Len(todo) ELSE Min(saves)
  IN [file |-> Edited(file, todo, last), rest |-> SubSeq(todo, last + 1, Len(todo)),
      saving |-> saves # {}]

Transactions == UNION {[1..n -> {"char", "run"}] : n \in 1..MaxRun}
Numbered(runs) == [i \in 1..Len(runs) |-> <<edits + i, runs[i]>>]

-----------------------------------------------------------------------------
(* Calls, up to their first await.                                         *)

\* insert_file_from_string, insert_file_from_state: a new buffer is saved, and
\* enters the map when the save has succeeded.
insert_file(t, p) ==
  /\ task[t] = Done /\ edits < MaxEdits
  /\ LET file == [text |-> <<edits + 1>>, ops_since_save |-> 0]
     IN /\ task' = [task EXCEPT ![t] = [kind |-> "insert", path |-> p, file |-> file]]
        /\ Open(t, Put(p, file))
  /\ edits' = edits + 1
  /\ UNCHANGED <<store, call, faults, FILE_STATE, calls, history>>

\* Faulty: the buffer is edited while it is also left in the map.
TakenOutCopied(p) == FILE_STATE

TakenOut(p) == Take(p)

\* An operation whose position is outside the text ends the transaction like
\* its end does, so such a transaction is a shorter one.
write_transaction_to_file(t, p) ==
  /\ task[t] = Done /\ p \in open
  /\ \E runs \in Transactions :
       /\ edits + Len(runs) <= MaxEdits /\ edits' = edits + Len(runs)
       /\ LET d == ApplyUntilSave(FILE_STATE[p], Numbered(runs))
          IN IF d.saving
             THEN /\ FILE_STATE' = TakenOut(p)
                  /\ task' = [task EXCEPT ![t] = [kind |-> "edit", path |-> p,
                                                  file |-> d.file, rest |-> d.rest]]
                  /\ Open(t, Put(p, d.file))
             ELSE FILE_STATE' = Insert(p, d.file) /\ UNCHANGED <<task, queue>>
  /\ UNCHANGED <<store, call, faults, calls, history>>

\* The merged text is saved, whatever the counter says.
apply_update_to_file(t, p) ==
  /\ task[t] = Done /\ p \in open /\ edits < MaxEdits
  /\ edits' = edits + 1
  /\ LET file == [FILE_STATE[p] EXCEPT !.text = Append(@, edits + 1)]
     IN /\ task' = [task EXCEPT ![t] = [kind |-> "edit", path |-> p,
                                        file |-> file, rest |-> << >>]]
        /\ Open(t, Put(p, file))
  /\ FILE_STATE' = TakenOut(p)
  /\ UNCHANGED <<store, call, faults, calls, history>>

\* The buffers another flush_all has taken out and not begun to save: a later
\* flush_all may well return before the earlier one comes to them.
Waiting == UNION {{<<p, task[t].files[p]>> : p \in task[t].left} :
                    t \in {u \in Tasks : task[u].kind = "flush"}}

\* The whole map is taken out; its buffers are saved one after the other, in
\* any order.  `asked` remembers the buffers it is to reach, `seen` every buffer
\* of the session.  (Nothing happens when the map is empty.)
flush_all(t) ==
  /\ task[t] = Done /\ open # {}
  /\ \E p \in open :
       /\ task' = [task EXCEPT ![t] = [kind |-> "flush", path |-> p, files |-> FILE_STATE,
                                       left |-> open \ {p},
                                       asked |-> Buffers \ Waiting, seen |-> Buffers]]
       /\ Open(t, Put(p, FILE_STATE[p]))
  /\ FILE_STATE' = << >>
  /\ UNCHANGED <<store, call, faults, edits, calls, history>>

\* Neither of these awaits, nor reaches a buffer that is taken out.
remove_file(p) ==
  /\ BuffersAt(p) # {}
  /\ FILE_STATE' = Take(p)
  /\ closed' = closed \cup BuffersAt(p)
  /\ UNCHANGED <<storeVars, task, edits, calls, foreign, atRisk>>

wipe_state ==
  /\ Buffers # {}
  /\ FILE_STATE' = << >>
  /\ closed' = closed \cup UNION {BuffersAt(p) : p \in Paths}
  /\ UNCHANGED <<storeVars, task, edits, calls, foreign, atRisk>>

-----------------------------------------------------------------------------
(* What follows an await.                                                  *)

InsertSaved(t) ==
  /\ Served(1, t) /\ task[t].kind = "insert"
  /\ \E answer \in Answers(1) :
       /\ Answer(1, answer, << >>) /\ Recorded(task[t].path, answer)
       /\ IF answer = "error" THEN UNCHANGED <<FILE_STATE, closed>>
          ELSE /\ FILE_STATE' = Insert(task[t].path, task[t].file)
               /\ closed' = closed \cup BuffersAt(task[t].path)
  /\ task' = [task EXCEPT ![t] = Done]
  /\ UNCHANGED <<call, edits, calls>>

\* The transaction goes on to its next save or to its end; an error ends it.
\* The buffer is put back in the end, over whatever is there by now.
EditSaved(t) ==
  /\ Served(1, t) /\ task[t].kind = "edit"
  /\ \E answer \in Answers(1) :
       LET p == task[t].path
           d == IF answer = "error"
                THEN [file |-> task[t].file, rest |-> << >>, saving |-> FALSE]
                ELSE ApplyUntilSave(saved(task[t].file), task[t].rest)
       IN /\ Answer(1, answer, IF d.saving THEN Put(p, d.file) ELSE << >>)
          /\ Recorded(p, answer)
          /\ IF d.saving
             THEN /\ task' = [task EXCEPT ![t].file = d.file, ![t].rest = d.rest]
                  /\ UNCHANGED FILE_STATE
             ELSE /\ task' = [task EXCEPT ![t] = Done]
                  /\ FILE_STATE' = Insert(p, d.file)
  /\ UNCHANGED <<call, edits, calls, closed>>

\* Faulty: flush_all ends with its first save.
FlushSavedOne(t) ==
  /\ Served(1, t) /\ task[t].kind = "flush"
  /\ \E answer \in Answers(1) :
       /\ Recorded(task[t].path, answer) /\ Answer(1, answer, << >>)
       /\ FILE_STATE' = Extend(task[t].files)
       /\ task' = [task EXCEPT ![t] = Done]
  /\ UNCHANGED <<call, edits, calls, closed>>

\* A failed save does not keep the other buffers from being saved.
FlushSaved(t) ==
  /\ Served(1, t) /\ task[t].kind = "flush"
  /\ \E answer \in Answers(1) :
       LET p     == task[t].path
           files == IF answer = "error" THEN task[t].files
                    ELSE [task[t].files EXCEPT ![p] = saved(@)]
       IN /\ Recorded(p, answer)
          /\ \/ /\ task[t].left = {}
                /\ Answer(1, answer, << >>)
                /\ FILE_STATE' = Extend(files)
                /\ task' = [task EXCEPT ![t] = Done]
             \/ \E q \in task[t].left :
                  /\ Answer(1, answer, Put(q, files[q]))
                  /\ task' = [task EXCEPT ![t].path = q, ![t].files = files,
                                          ![t].left = @ \ {q}]
                  /\ UNCHANGED FILE_STATE
  /\ UNCHANGED <<call, edits, calls, closed>>

\* An operation of the store itself, called from anywhere in the page; the
\* text that write_file writes is fresh.
Written == IF queue = << >> THEN {} ELSE {r[1] : r \in ToSet(Head(queue).requests)}

StoreOperation ==
  /\ \/ StoreStep /\ UNCHANGED edits
     \/ /\ edits < MaxEdits /\ edits' = edits + 1
        /\ \E c \in Callers, p \in Paths : write_file(c, p, <<edits + 1>>)
  /\ \/ \E c \in Callers : call[c] = Idle /\ call'[c] # Idle /\ calls < MaxCalls
                           /\ calls' = calls + 1 /\ UNCHANGED foreign
     \/ /\ \A c \in Callers : call[c] = Idle => call'[c] = Idle
        /\ foreign' = foreign \cup Written
        /\ UNCHANGED calls
  /\ UNCHANGED <<FILE_STATE, task, closed, atRisk>>

\* The page is closed or reloaded: transactions that were not run are gone,
\* like everything in memory.
Reload ==
  /\ faults < MaxFaults /\ faults' = faults + 1
  /\ queue' = << >> /\ call' = [c \in Callers |-> Idle]
  /\ FILE_STATE' = << >> /\ task' = [t \in Tasks |-> Done]
  /\ UNCHANGED <<store, edits, calls, history>>

-----------------------------------------------------------------------------
Init ==
  /\ StoreInit
  /\ FILE_STATE = << >> /\ task = [t \in Tasks |-> Done]
  /\ edits = 0 /\ calls = 0
  /\ closed = {} /\ foreign = {} /\ atRisk = {}

SessionCall ==
  \/ wipe_state
  \/ \E p \in Paths :
       \/ remove_file(p)
       \/ \E t \in Tasks : \/ insert_file(t, p) \/ write_transaction_to_file(t, p)
                          \/ apply_update_to_file(t, p)
  \/ \E t \in Tasks : flush_all(t)

Resumed(t) == InsertSaved(t) \/ EditSaved(t) \/ FlushSaved(t)

Next == SessionCall \/ (\E t \in Tasks : Resumed(t)) \/ StoreOperation \/ Reload

Spec == Init /\ [][Next]_vars

-----------------------------------------------------------------------------
(* Properties *)

IsFile(f) == /\ f.text # << >> /\ ToSet(f.text) \subseteq 1..edits
             /\ f.ops_since_save \in 0..edits

\* Every buffer and every stored text is made of edits that were made, the
\* buffers in the map and in the calls are files, and a call that awaits
\* something has a transaction in the queue.
TypeOK ==
  /\ open \subseteq Paths
  /\ \A b \in Buffers : IsFile(b[2])
  /\ \A p \in Present(store) : store[p] # << >> /\ ToSet(store[p]) \subseteq 1..edits
  /\ {queue[i].owner : i \in 1..Len(queue)} =
        {t \in Tasks : task[t] # Done} \cup {c \in Callers : call[c] # Idle}
  /\ Len(queue) = Cardinality({queue[i].owner : i \in 1..Len(queue)})
  /\ closed \subseteq 1..edits /\ foreign \subseteq Paths /\ atRisk \subseteq Paths
  /\ edits \in 0..MaxEdits /\ calls \in 0..MaxCalls /\ faults \in 0..MaxFaults

\* However calls overlap, the edits of a buffer are applied one after the
\* other: no state has it twice with different texts, no step takes an edit out
\* of it again, and what the compiler reads of it never goes back to an older
\* text, except by an operation of the store.
EditsNeverUndone ==
  [][/\ \A b \in Buffers, c \in Buffers' :
          Id(b[2].text) = Id(c[2].text) => IsPrefix(b[2].text, c[2].text)
     /\ \A p \in Present(store) :
          p \in Present(store)' /\ p \notin foreign' /\ Id(store[p]) = Id(store'[p])
          => IsPrefix(store[p], store'[p])]_vars

\* A buffer that rests in the map over a text of its own lacks in the store
\* exactly the keystrokes it has counted, and they are fewer than
\* SAVE_THRESHOLD, unless its last save failed.
OnlyBatchedUnsaved ==
  \A p \in (open \cap Present(store)) \ (foreign \cup atRisk) :
    LET f == FILE_STATE[p]
    IN Id(f.text) = Id(store[p]) =>
         /\ IsPrefix(store[p], f.text)
         /\ Len(f.text) - Len(store[p]) = f.ops_since_save
         /\ f.ops_since_save < SAVE_THRESHOLD

\* The text of p is in the store, or on its way there.
Reaches(p, text) ==
  \/ store[p] # NoFile /\ IsPrefix(text, store[p])
  \/ \E i \in 1..Len(queue) : \E r \in ToSet(queue[i].requests) :
       r[1] = p /\ r[2] # NoFile /\ IsPrefix(text, r[2])

\* When flush_all returns, every edit that a buffer of the session had when it
\* was called will be seen by a later read of the store; a buffer that a call
\* had taken out and begun to save is included, one that waits in another
\* flush_all is not.  Failed saves, files that operations of the store have
\* changed, and paths with a buffer that was closed but is still in some call's
\* hands, to be saved again by it, are apart.
FlushReachesAll ==
  [][\A t \in Tasks : task[t].kind = "flush" /\ Resumed(t) /\ task'[t] = Done =>
       \A b \in task[t].asked :
         \/ Reaches(b[1], b[2].text)'
         \/ b[1] \in (foreign \cup atRisk)'
         \/ \E c \in task[t].seen : c[1] = b[1] /\ Id(c[2].text) \in closed']_vars
==========================================================================
