-------------------------- MODULE MemFileGuard --------------------------
(***************************************************************************)
(* The in-memory buffers of an editing session over a blocking store: one  *)
(* MemFileGuard, the MemFile buffers it owns and the memfile_blocking      *)
(* calls of the files API that combine the two.                            *)
(*                                                                         *)
(* Every call takes &mut MemFileGuard, so a call is one action; what can   *)
(* come between two calls is a crash of the process, and inside a call a   *)
(* write to the store can fail.  `down` is the set of paths whose writes   *)
(* fail during the call.  A call that returns an error before it touched   *)
(* a buffer or the store changes nothing and is a stuttering step.         *)
(***************************************************************************)
EXTENDS FileTree, FiniteSets

CONSTANTS
  SAVE_THRESHOLD,   \* single character edits that force a save
  InitialStore,     \* what the store holds when the session starts
  Blob,             \* contents that are not UTF-8: read_file refuses them
  MaxRun,           \* bound on the operations of one transaction
  MaxEdits,         \* bound on the edits of all buffers
  MaxFaults         \* bound on calls with failing writes, on crashes and on
                    \* reloads that take edits back

ASSUME ConstantsAssumption ==
  /\ SAVE_THRESHOLD \in Nat \ {0}
  /\ MaxRun \in Nat /\ MaxEdits \in Nat /\ MaxFaults \in Nat

\* The texts that edits up to the n-th have made; what was there before the
\* session has the number 0.
Origins == {"given", "local", "remote"}
TextsUpTo(n) == Seq((0..n) \X Origins)

ASSUME StoreAssumption ==
  /\ InitialStore \in [Paths -> TextsUpTo(0) \cup {NoFile}]
  /\ Blob \in TextsUpTo(0)
  /\ NoFile \notin Seq(Nat \X Origins)

VARIABLES
  store,     \* store[p]: the durable text of p, or NoFile
  file_map,  \* the live buffers: [text, ops_since_save] per resident path
  edits,     \* edits made so far; numbers the next one
  atRisk,    \* history: buffers whose last save reported an error, or that were
             \* read again and are older than what the store holds
  lapses,    \* history: flushes on drop that failed with edits to write
  crashes,   \* history: times unsaved edits were taken back, by a crash or a reload
  faults     \* calls with failing writes, and crashes and reloads of that kind

vars == <<store, file_map, edits, atRisk, lapses, crashes, faults>>

resident == DOMAIN file_map

-----------------------------------------------------------------------------
(* Buffers.  A text is the sequence of the edits that made it (see         *)
(* FileSession): a deletion is an edit like an insertion.                  *)

\* A call during which the writes to the paths in `down` fail, and the store's
\* own delete, move or copy works or does not.
Outages(touched) == IF faults < MaxFaults THEN SUBSET touched ELSE {{}}
Outcomes == IF faults < MaxFaults THEN BOOLEAN ELSE {TRUE}

CountFault(down, works) ==
  faults' = IF down = {} /\ works THEN faults ELSE faults + 1

from_string(text) == [text |-> text, ops_since_save |-> 0]

Loadable(p) == p \in resident \/ store[p] \notin {NoFile, Blob}

\* get_file: the live buffer, or one read from the store on first use.
get_file(p) == IF p \in resident THEN file_map[p] ELSE from_string(store[p])

Keep(p, buffer) == [q \in resident \cup {p} |-> IF q = p THEN buffer ELSE file_map[q]]

\* Dropping a buffer writes its text, edited or not; an error is swallowed.
Flushed(ps, down) ==
  [p \in Paths |-> IF p \in (ps \cap resident) \ down THEN file_map[p].text ELSE store[p]]

Evicted(ps) == [p \in resident \ ps |-> file_map[p]]

\* A flush on drop failed for a path of `lost` that had something to write.
CountLapse(lost) ==
  lapses' = IF \E p \in lost \cap resident : file_map[p].text # store[p]
            THEN lapses + 1 ELSE lapses

\* The buffers of `ps` leave the map, and the store becomes `tree`.
Drop(ps, lost, tree) ==
  /\ file_map' = Evicted(ps)
  /\ store' = tree
  /\ atRisk' = atRisk \ ps
  /\ CountLapse(lost)

-----------------------------------------------------------------------------
(* Editing. *)

\* State of a transaction in progress: the buffer, the durable text of its
\* path, the number of the last edit, whether the last save failed, and
\* whether no operation has.
Begin(p) == [text |-> get_file(p).text, ops |-> get_file(p).ops_since_save,
             disk |-> store[p], last |-> edits, risk |-> p \in atRisk, ok |-> TRUE]

save(f, up) == IF up THEN [f EXCEPT !.disk = f.text, !.ops = 0, !.risk = FALSE]
                     ELSE [f EXCEPT !.risk = TRUE, !.ok = FALSE]

Typed(f, origin) == [f EXCEPT !.text = Append(@, <<f.last + 1, origin>>), !.last = @ + 1]

\* Faulty: the save happens one edit late.
record_single_edit_late(f, up) ==
  LET counted == [f EXCEPT !.ops = @ + 1]
  IN IF counted.ops > SAVE_THRESHOLD THEN save(counted, up) ELSE counted

record_single_edit(f, up) ==
  LET counted == [f EXCEPT !.ops = @ + 1]
  IN IF counted.ops >= SAVE_THRESHOLD THEN save(counted, up) ELSE counted

\* One insertion or deletion: of one character, or of a longer run.
EditBuffer(f, run, up) ==
  IF ~f.ok THEN f
  ELSE IF run = "char" THEN record_single_edit(Typed(f, "local"), up)
  ELSE save(Typed(f, "local"), up)

apply_transaction_ops(p, runs, up) ==
  LET after[n \in 0..Len(runs)] ==
        IF n = 0 THEN Begin(p) ELSE EditBuffer(after[n - 1], runs[n], up)
  IN after[Len(runs)]

\* The runs of a transaction's operations; a swap is two of them.
Transactions == UNION {[1..n -> {"char", "run"}] : n \in 1..MaxRun}

Commit(p, f) ==
  /\ file_map' = Keep(p, [text |-> f.text, ops_since_save |-> f.ops])
  /\ store' = [store EXCEPT ![p] = f.disk]
  /\ edits' = f.last
  /\ atRisk' = IF f.risk THEN atRisk \cup {p} ELSE atRisk \ {p}
  /\ UNCHANGED <<lapses, crashes>>

apply_transaction(p) ==
  /\ Loadable(p)
  /\ \E runs \in Transactions, down \in Outages({p}) :
       /\ edits + Len(runs) <= MaxEdits
       /\ Commit(p, apply_transaction_ops(p, runs, down = {}))
       /\ CountFault(down, TRUE)

\* A relayed edit is merged into the buffer; it is neither counted nor saved.
apply_update(p) ==
  /\ Loadable(p) /\ edits < MaxEdits
  /\ file_map' = Keep(p, [get_file(p) EXCEPT !.text = Append(@, <<edits + 1, "remote">>)])
  /\ edits' = edits + 1
  /\ UNCHANGED <<store, atRisk, lapses, crashes, faults>>

read(p) ==
  /\ Loadable(p) /\ p \notin resident
  /\ file_map' = Keep(p, get_file(p))
  /\ UNCHANGED <<store, edits, atRisk, lapses, crashes, faults>>

\* add_file reads first; inserting the new buffer then drops the old one,
\* whose flush changes the store under the text just read.
add_file(p) ==
  /\ store[p] \notin {NoFile, Blob}
  /\ \E down \in Outages({p}) :
       /\ file_map' = Keep(p, from_string(store[p]))
       /\ store' = Flushed({p}, down)
       /\ atRisk' = IF store' = store THEN atRisk \ {p} ELSE atRisk \cup {p}
       /\ CountLapse(down)
       /\ IF p \in resident /\ file_map[p].text # store[p]
          THEN /\ faults < MaxFaults /\ faults' = faults + 1
               /\ crashes' = crashes + 1
          ELSE CountFault(down, TRUE) /\ UNCHANGED crashes
  /\ UNCHANGED edits

\* Faulty: the buffer is reset and left for a later save.
write_unsaved(p) ==
  /\ edits < MaxEdits
  /\ Commit(p, [Begin(p) EXCEPT !.text = << <<edits + 1, "local">> >>, !.ops = 0,
                                !.last = edits + 1, !.risk = FALSE])
  /\ UNCHANGED faults

\* write: reset_file drops the old buffer unflushed, then the new one is saved.
write(p) ==
  /\ edits < MaxEdits
  /\ \E down \in Outages({p}) :
       /\ Commit(p, save([Begin(p) EXCEPT !.text = << <<edits + 1, "local">> >>, !.ops = 0,
                                           !.last = edits + 1], down = {}))
       /\ CountFault(down, TRUE)

-----------------------------------------------------------------------------
(* Closing, saving, and the file and folder operations. *)

\* What is dropped is flushed on the way out (guard.rs, as its own doc comments
\* say), although README.md:1768 has these two close buffers without saving.
drop_file(p) ==
  /\ p \in resident
  /\ \E down \in Outages({p}) : Drop({p}, down, Flushed({p}, down)) /\ CountFault(down, TRUE)
  /\ UNCHANGED <<edits, crashes>>

drop_dir(folder) ==
  /\ Beneath(folder) \cap resident # {}
  /\ \E down \in Outages(Beneath(folder)) :
       Drop(Beneath(folder), down, Flushed(Beneath(folder), down)) /\ CountFault(down, TRUE)
  /\ UNCHANGED <<edits, crashes>>

\* The guard goes out of scope: every buffer is dropped.
DropGuard ==
  /\ resident # {}
  /\ \E down \in Outages(Paths) : Drop(Paths, down, Flushed(Paths, down)) /\ CountFault(down, TRUE)
  /\ UNCHANGED <<edits, crashes>>

\* What snapshot has saved when it stops at the first path that fails: the
\* map is walked in any order.
Saved(down) == IF down \cap resident = {} THEN {resident} ELSE SUBSET (resident \ down)

\* The buffers once those of `saved` are saved.
Clean(saved) == [p \in resident |-> IF p \in saved THEN from_string(file_map[p].text)
                                                   ELSE file_map[p]]

snapshot ==
  /\ resident # {}
  /\ \E down \in Outages(resident) : \E saved \in Saved(down) :
       /\ store' = Flushed(saved, {})
       /\ file_map' = Clean(saved)
       /\ IF down = {} THEN atRisk' = {}
          ELSE \E failed \in down : atRisk' = (atRisk \ saved) \cup {failed}
       /\ CountFault(down, TRUE)
  /\ UNCHANGED <<edits, lapses, crashes>>

\* Faulty: the store's entry goes first, the buffer is dropped after it.
delete_before_drop(p) ==
  /\ p \in resident \/ store[p] # NoFile
  /\ \E down \in Outages({p}), works \in Outcomes :
       /\ Drop({p}, down, IF p \in resident THEN Flushed({p}, down)
                          ELSE Without(store, {p}))
       /\ CountFault(down, works)
  /\ UNCHANGED <<edits, crashes>>

delete(p) ==
  /\ p \in resident \/ store[p] # NoFile
  /\ \E down \in Outages({p}), works \in Outcomes :
       /\ IF works THEN Drop({p}, {}, Without(store, {p}))
                   ELSE Drop({p}, down, Flushed({p}, down))
       /\ CountFault(down, works)
  /\ UNCHANGED <<edits, crashes>>

\* The store's move also fails when it holds no `from`.
move_file(from, to) ==
  /\ \E down \in Outages({from, to}), works \in Outcomes :
       LET flushed == Flushed({from, to}, down)
       IN /\ IF works /\ flushed[from] # NoFile
             THEN Drop({from, to}, down \cap {from}, FileMoved(flushed, from, to))
             ELSE Drop({from, to}, down, flushed)
          /\ CountFault(down, works)
  /\ UNCHANGED <<edits, crashes>>

\* copy saves `from` first and stops, `from` loaded, if that save fails.
copy_file(from, to) ==
  /\ Loadable(from)
  /\ \E down \in Outages({from, to}), works \in Outcomes :
       LET source  == save(Begin(from), from \notin down)
           flushed == [Flushed({to} \ {from}, down) EXCEPT ![from] = source.disk]
       IN /\ IF ~source.ok
             THEN /\ file_map' = Keep(from, get_file(from))
                  /\ atRisk' = atRisk \cup {from}
                  /\ UNCHANGED <<store, lapses>>
             ELSE /\ file_map' = [p \in (resident \cup {from}) \ {to} |->
                                    IF p = from THEN from_string(source.text) ELSE file_map[p]]
                  /\ store' = IF works THEN FileCopied(flushed, from, to) ELSE flushed
                  /\ atRisk' = atRisk \ {from, to}
                  /\ CountLapse(IF works THEN {} ELSE down \ {from})
          /\ CountFault(down, works)
  /\ UNCHANGED <<edits, crashes>>

delete_folder(folder) ==
  /\ \E p \in Beneath(folder) : p \in resident \/ store[p] # NoFile
  /\ \E down \in Outages(Beneath(folder)), works \in Outcomes :
       /\ IF works THEN Drop(Beneath(folder), {}, Without(store, Beneath(folder)))
                   ELSE Drop(Beneath(folder), down, Flushed(Beneath(folder), down))
       /\ CountFault(down, works)
  /\ UNCHANGED <<edits, crashes>>

\* A folder operation of the store works as a whole or not at all here; the
\* order in which it goes through the files is the subject of FolderStore.
move_folder(from, to) ==
  /\ Disjoint(from, to) /\ FitsInto(from, to)
  /\ \E down \in Outages(Beneath(from) \cup Beneath(to)), works \in Outcomes :
       LET dropped == Beneath(from) \cup Beneath(to)
           flushed == Flushed(dropped, down)
       IN /\ IF works
             THEN Drop(dropped, down \ Relocated(flushed, from, to),
                       FolderMoved(flushed, from, to))
             ELSE Drop(dropped, down, flushed)
          /\ CountFault(down, works)
  /\ UNCHANGED <<edits, crashes>>

\* copy snapshots every buffer of the session, evicts those beneath `to` (now
\* clean, so that their flush writes nothing new) and copies in the store.
copy_folder(from, to) ==
  /\ Disjoint(from, to) /\ FitsInto(from, to)
  /\ \E down \in Outages(resident), works \in Outcomes : \E saved \in Saved(down) :
       LET flushed == Flushed(saved, {})
           clean   == Clean(saved)
       IN /\ IF down = {}
             THEN /\ store' = IF works THEN FolderCopied(flushed, from, to) ELSE flushed
                  /\ file_map' = [p \in resident \ Beneath(to) |-> clean[p]]
                  /\ atRisk' = {}
             ELSE /\ store' = flushed
                  /\ file_map' = clean
                  /\ \E failed \in down : atRisk' = (atRisk \ saved) \cup {failed}
          /\ CountFault(down, works)
  /\ UNCHANGED <<edits, lapses, crashes>>

\* The process dies without running any Drop; a new guard starts empty.
Crash ==
  /\ faults < MaxFaults /\ resident # {}
  /\ file_map' = Evicted(Paths)
  /\ atRisk' = {}
  /\ crashes' = crashes + 1
  /\ faults' = faults + 1
  /\ UNCHANGED <<store, edits, lapses>>

-----------------------------------------------------------------------------
Init ==
  /\ store = InitialStore
  /\ file_map = [p \in {} |-> from_string(<< >>)]
  /\ edits = 0 /\ atRisk = {} /\ lapses = 0 /\ crashes = 0 /\ faults = 0

Next ==
  \/ \E p \in Paths : \/ apply_transaction(p) \/ apply_update(p) \/ read(p) \/ add_file(p)
                      \/ write(p) \/ drop_file(p) \/ delete(p)
  \/ \E from, to \in Paths : move_file(from, to) \/ copy_file(from, to)
  \/ \E folder \in Folders : drop_dir(folder) \/ delete_folder(folder)
  \/ \E from, to \in Folders : move_folder(from, to) \/ copy_folder(from, to)
  \/ DropGuard \/ snapshot \/ Crash

Spec == Init /\ [][Next]_vars

-----------------------------------------------------------------------------
(* Properties *)

Contents == [p \in Paths |-> IF p \in resident THEN file_map[p].text ELSE store[p]]

Session == INSTANCE FileSession WITH files <- Contents, Threshold <- SAVE_THRESHOLD

\* Unless a failed save of it was reported or it was read again over its own
\* unsaved edits, a buffer only runs ahead of the
\* store: what is durable is a beginning of the live text, the local edits the
\* store lacks are exactly those ops_since_save counts, and they are fewer than
\* SAVE_THRESHOLD.  It is what makes the loss in a crash bounded, and it is
\* lost as soon as one path of save, drop, reset, move or copy leaves a buffer
\* over a file it was not read from.
BufferRunsAhead ==
  \A p \in resident \ atRisk :
    /\ store[p] # NoFile
    /\ IsPrefix(store[p], file_map[p].text)
    /\ Session!LocalEdits(Session!Suffix(file_map[p].text, store[p]))
         = file_map[p].ops_since_save
    /\ file_map[p].ops_since_save < SAVE_THRESHOLD

\* The guard, its buffers and the store together implement the session of
\* FileSession: whatever is buffered, the file operations act on the texts the
\* session sees, edits only add, nothing deleted or moved away comes back, and
\* a crash takes back fewer than SAVE_THRESHOLD keystrokes of a file.  A drop takes
\* back nothing, which is guard.rs:184-196 and not README.md:1768 ("closes buffers
\* without saving").
ImplementsSession == Session!Spec

\* A file or folder operation that ran without a failing write did to the texts
\* the session sees what its name says, edits that were not saved included: a
\* buffer dropped too late brings a deleted file back, one saved too late or
\* left in the map makes a move or a copy miss edits or be overwritten.
CallsActOnSession ==
  [][faults' = faults =>
       /\ \A p \in Paths : delete(p) => Contents' = Without(Contents, {p})
       /\ \A folder \in Folders :
            delete_folder(folder) => Contents' = Without(Contents, Beneath(folder))
       /\ \A from, to \in Paths : Contents[from] # NoFile =>
            /\ move_file(from, to) => Contents' = FileMoved(Contents, from, to)
            /\ copy_file(from, to) => Contents' = FileCopied(Contents, from, to)
       /\ \A from, to \in Folders :
            /\ move_folder(from, to) => Contents' = FolderMoved(Contents, from, to)
            /\ copy_folder(from, to) => Contents' = FolderCopied(Contents, from, to)]_vars
==========================================================================
