------------------------ MODULE AsyncMemFileGuard ------------------------
(***************************************************************************)
(* The in-memory buffers of an editing session over the IndexedDB store:   *)
(* one AsyncMemFileGuard, its MemFile buffers, and the memfile_asynchronous *)
(* calls of the files API.                                                 *)
(*                                                                         *)
(* A call has the guard to itself, but it awaits every save, every read    *)
(* and every operation of the store.  At each await its future may be      *)
(* dropped: the rest of the call then never runs, while the transaction    *)
(* that was awaited stays in the database's queue and is run all the same. *)
(* A call is therefore the list of the steps it has still to take, `plan`. *)
(* Texts are sequences of edits, as in MemFileGuard.                       *)
(***************************************************************************)
EXTENDS IndexedDb

CONSTANTS
  Guard, Gone,     \* owners of transactions: the guard's call, and nobody
  SAVE_THRESHOLD,  \* single character edits that force a save
  InitialStore,    \* what the store holds when the session starts
  Modules,         \* the pairs of paths a module may be declared under
  MaxRun,          \* bound on the operations of one transaction
  MaxEdits,        \* bound on the edits
  MaxMishaps       \* bound on dropped calls, dropped guards and page reloads

\* The texts that the first n edits can have made.
TextsUpTo(n) == Seq((0..n) \X {"local", "remote"})

ASSUME ConstantsAssumption ==
  /\ SAVE_THRESHOLD \in Nat \ {0}
  /\ MaxRun \in Nat /\ MaxEdits \in Nat /\ MaxMishaps \in Nat
  /\ Guard # Gone /\ Guard \notin Callers /\ Gone \notin Callers
  /\ \E c \in Callers : Callers = {c}
  /\ InitialStore \in [Paths -> TextsUpTo(0) \cup {NoFile}]
  /\ NoFile \notin Seq(Nat \X {"local", "remote"})
  /\ Modules \subseteq Seq(Paths)

VARIABLES
  file_map,  \* the live buffers: [text, ops_since_save] per resident path
  plan,      \* the steps the call in progress has still to take
  edits,     \* edits made so far; numbers the next one
  cancels,   \* calls dropped at an await
  atRisk,    \* history: buffers whose last save failed, or was lost
  lapses,    \* history: writes that failed with nobody to notice
  discards   \* history: times unsaved edits were taken back

vars == <<storeVars, file_map, plan, edits, cancels, atRisk, lapses, discards>>

resident == DOMAIN file_map

Keep(p, file) == [q \in resident \cup {p} |-> IF q = p THEN file ELSE file_map[q]]
Evicted(ps) == [q \in resident \ ps |-> file_map[q]]

from_string(text) == [text |-> text, ops_since_save |-> 0]

Put(p, text) == << <<p, text>> >>

\* The call in progress awaits a transaction; otherwise it takes a step.
Waiting == \E i \in DOMAIN queue : queue[i].owner # Gone

At(steps) == plan # << >> /\ ~Waiting /\ Head(plan)[1] \in steps
Path == Head(plan)[2]

Awaits(steps) == plan # << >> /\ Head(plan)[1] \in steps

Proceed == plan' = Tail(plan)
Return == plan' = << >>

Concerns(requests) == {r[1] : r \in ToSet(requests)}

\* The places in the queue of the saves, and the transactions of dropped calls,
\* that are to write p.
Writes(p) ==
  {i \in DOMAIN queue : queue[i].owner \notin Callers /\ p \in Concerns(queue[i].requests)}

\* The texts the session sees: a buffer's, or else what the store will hold
\* when these are through.
Settled ==
  [p \in Paths |-> IF Writes(p) = {} THEN store[p]
                   ELSE Committed(store, queue[Max(Writes(p))].requests)[p]]

Contents == [p \in Paths |-> IF p \in resident THEN file_map[p].text ELSE Settled[p]]

\* Unsaved edits, if any, are taken back.
Discards == discards' = IF Contents' = Contents THEN discards ELSE discards + 1

Mishaps == cancels + discards + faults

-----------------------------------------------------------------------------
(* Calls, as the steps they take.  memfile_f is memfile_asynchronous of the *)
(* API's module f.                                                         *)

Call(steps) ==
  /\ plan = << >> /\ steps # << >>
  /\ plan' = steps
  /\ UNCHANGED <<storeVars, file_map, edits, cancels, atRisk, lapses, discards>>

Each(step, paths) == [i \in DOMAIN paths |-> <<step, paths[i]>>]

\* The map is walked in any order.
Walks(ps) == SetToSeqs(ps \cap resident)

Transactions == UNION {[1..n -> {"char", "run"}] : n \in 1..MaxRun}

read(p) == Call(<< <<"load", p>> >>)
add_file(p) == Call(<< <<"add", p>> >>)

\* An operation outside the text ends a transaction like its end does.
apply_transaction(p) ==
  \E runs \in Transactions :
    /\ edits + Len(runs) <= MaxEdits
    /\ Call(<< <<"load", p>> >> \o [i \in DOMAIN runs |-> <<runs[i], p>>])

apply_update(p) == edits < MaxEdits /\ Call(<< <<"load", p>>, <<"remote", p>> >>)

write(p) == edits < MaxEdits /\ Call(<< <<"reset", p>> >>)

\* Saved, then removed (README.md:1768 and :1774 have it close without saving).
drop_file(p) == Call(<< <<"drop", p>> >>)
drop_dir(folder) == \E walk \in Walks(Beneath(folder)) : Call(Each("drop", walk))

\* Faulty: buffers that count no edits are passed over.
snapshot_counted ==
  \E walk \in Walks({p \in resident : file_map[p].ops_since_save > 0}) : Call(Each("save", walk))

snapshot == \E walk \in Walks(resident) : Call(Each("save", walk))

\* extract_path: the direct path first, then mod.cad in the folder of that name.
extract_path(candidates) == Call(Each("probe", candidates))

Operation(op, from, to) == << <<"store", [op |-> op, from |-> from, to |-> to]>> >>

memfile_delete(p) == Call(<< <<"drop", p>> >> \o Operation("delete_file", p, << >>))

\* Faulty: only the destination's buffer is dropped.
memfile_move_file_from_kept(from, to) ==
  Call(<< <<"drop", to>> >> \o Operation("move_file", from, to))

memfile_move_file(from, to) ==
  Call(<< <<"drop", from>>, <<"drop", to>> >> \o Operation("move_file", from, to))

memfile_copy_file(from, to) ==
  Call(<< <<"load", from>>, <<"save", from>>, <<"drop", to>> >>
         \o Operation("copy_file", from, to))

memfile_delete_folder(folder) ==
  \E walk \in Walks(Beneath(folder)) :
    Call(Each("drop", walk) \o Operation("delete_folder", folder, << >>))

memfile_move_folder(from, to) ==
  \E first \in Walks(Beneath(from)), second \in Walks(Beneath(to)) :
    Call(Each("drop", first) \o Each("drop", second) \o Operation("move_folder", from, to))

memfile_copy_folder(from, to) ==
  \E all \in Walks(resident), walk \in Walks(Beneath(to)) :
    Call(Each("save", all) \o Each("drop", walk) \o Operation("copy_folder", from, to))

-----------------------------------------------------------------------------
(* Steps, up to their await or to their end if they have none. *)

\* get_file reads the store on first use, add_file always; exists asks the
\* store only about a path that is not resident.
Read ==
  /\ At({"load", "add", "probe"})
  /\ IF Path \in resident /\ Head(plan)[1] # "add"
     THEN /\ IF Head(plan)[1] = "probe" THEN Return ELSE Proceed
          /\ UNCHANGED queue
     ELSE Open(Guard, << >>) /\ UNCHANGED plan
  /\ UNCHANGED <<store, call, faults, file_map, edits, cancels, atRisk, lapses, discards>>

\* Faulty: the save happens one edit late.
MustSaveLate(step, file) ==
  \/ step \in {"run", "reset"}
  \/ step = "char" /\ file.ops_since_save > SAVE_THRESHOLD

\* A relayed edit is neither counted nor saved, a longer run is saved at once.
MustSave(step, file) ==
  \/ step \in {"run", "reset"}
  \/ step = "char" /\ file.ops_since_save >= SAVE_THRESHOLD

Edited(step, file, edit) ==
  CASE step = "reset" -> from_string(<<edit>>)
    [] step = "char"  -> [text |-> Append(file.text, edit),
                          ops_since_save |-> file.ops_since_save + 1]
    [] OTHER          -> [file EXCEPT !.text = Append(@, edit)]

\* One insertion or deletion, a merged update, or reset_file with the save that
\* follows it: the buffer changes before the save is awaited.
Edit ==
  /\ At({"char", "run", "remote", "reset"})
  /\ LET step == Head(plan)[1]
         old  == IF Path \in resident THEN file_map[Path] ELSE from_string(<< >>)
         file == Edited(step, old, <<edits + 1, IF step = "remote" THEN "remote" ELSE "local">>)
     IN /\ file_map' = Keep(Path, file)
        /\ IF MustSave(step, file) THEN Open(Guard, Put(Path, file.text)) /\ UNCHANGED plan
                                   ELSE Proceed /\ UNCHANGED queue
  /\ edits' = edits + 1
  /\ UNCHANGED <<store, call, faults, cancels, atRisk, lapses, discards>>

Save ==
  /\ At({"save"})
  /\ Open(Guard, Put(Path, file_map[Path].text))
  /\ UNCHANGED <<store, call, faults, file_map, plan, edits, cancels, atRisk, lapses, discards>>

\* The buffer leaves the map before its save is awaited.
Drop ==
  /\ At({"drop"})
  /\ IF Path \in resident
     THEN Open(Guard, Put(Path, file_map[Path].text)) /\ UNCHANGED plan
     ELSE Proceed /\ UNCHANGED queue
  /\ file_map' = Evicted({Path})
  /\ atRisk' = atRisk \ {Path}
  /\ UNCHANGED <<store, call, faults, edits, cancels, lapses, discards>>

Operate ==
  /\ At({"store"})
  /\ \E c \in Callers : Begin(c, Path)
  /\ UNCHANGED <<file_map, plan, edits, cancels, atRisk, lapses, discards>>

-----------------------------------------------------------------------------
(* What follows an await. *)

\* A missing file or a failed read ends the call, but for a probe, to which
\* both say that the file does not exist.
ReadReturned ==
  /\ Awaits({"load", "add", "probe"})
  /\ \E i \in DOMAIN queue : Served(i, Guard) /\ \E answer \in Answers(i) :
       LET found == answer = "ok" /\ store[Path] # NoFile
       IN /\ Answer(i, answer, << >>)
          /\ IF Head(plan)[1] = "probe"
             THEN /\ IF found THEN Return ELSE Proceed
                  /\ UNCHANGED <<file_map, atRisk, discards>>
             ELSE IF ~found THEN Return /\ UNCHANGED <<file_map, atRisk, discards>>
             ELSE /\ Proceed
                  /\ file_map' = Keep(Path, from_string(store[Path]))
                  /\ atRisk' = atRisk \ {Path}
                  /\ Discards
  /\ UNCHANGED <<call, edits, cancels, lapses>>

\* The count starts again when the save has succeeded; an error ends the call.
SaveReturned ==
  /\ Awaits({"char", "run", "reset", "save"})
  /\ Served(1, Guard) /\ \E answer \in Answers(1) :
       /\ Answer(1, answer, << >>)
       /\ atRisk' = IF answer = "ok" THEN atRisk \ {Path} ELSE atRisk \cup {Path}
       /\ IF answer = "error"
          THEN Return /\ UNCHANGED file_map
          ELSE Proceed /\ file_map' = [file_map EXCEPT ![Path].ops_since_save = 0]
  /\ UNCHANGED <<call, edits, cancels, lapses, discards>>

\* The error of a dropped buffer's save is swallowed.
DropReturned ==
  /\ Awaits({"drop"})
  /\ Served(1, Guard) /\ \E answer \in Answers(1) :
       /\ Answer(1, answer, << >>)
       /\ lapses' = IF answer = "ok" THEN lapses ELSE lapses + 1
  /\ Proceed
  /\ UNCHANGED <<call, file_map, edits, cancels, atRisk, discards>>

\* The operation took over a text whose save was lost unseen.
Stale(c) == call[c].awaits = "write" /\ atRisk \cap Source(call[c]) # {}

\* The store's operation goes on to its second transaction, or ends.
OperationReturned ==
  /\ Awaits({"store"})
  /\ \E c \in Callers :
       /\ ReadAnswered(c) \/ WriteAnswered(c)
       /\ IF call'[c] = Idle THEN Return ELSE UNCHANGED plan
       /\ lapses' = IF call'[c] = Idle /\ Stale(c) THEN lapses + 1 ELSE lapses
  /\ UNCHANGED <<file_map, edits, cancels, atRisk, discards>>

\* Faulty: the transaction goes on counting as awaited.
CancelKept ==
  /\ Waiting /\ Mishaps < MaxMishaps /\ cancels' = cancels + 1
  /\ Return
  /\ UNCHANGED <<storeVars, file_map, edits, atRisk, lapses, discards>>

\* Faulty: dropping the future takes its transaction back.
CancelAborts ==
  /\ Waiting /\ Mishaps < MaxMishaps /\ cancels' = cancels + 1
  /\ Return
  /\ queue' = SelectSeq(queue, LAMBDA t : t.owner = Gone)
  /\ call' = [c \in Callers |-> Idle]
  /\ UNCHANGED <<store, faults, file_map, edits, atRisk, lapses, discards>>

\* The future of the call is dropped at an await.
Cancel ==
  /\ Waiting /\ Mishaps < MaxMishaps /\ cancels' = cancels + 1
  /\ Return
  /\ queue' = [i \in DOMAIN queue |-> [queue[i] EXCEPT !.owner = Gone]]
  /\ call' = [c \in Callers |-> Idle]
  /\ lapses' = IF \E c \in Callers : Stale(c) THEN lapses + 1 ELSE lapses
  /\ UNCHANGED <<store, faults, file_map, edits, atRisk, discards>>

\* A transaction that nobody awaits is answered.
Unawaited ==
  /\ \E i \in DOMAIN queue : Served(i, Gone) /\ \E answer \in Answers(i) :
       LET paths == Concerns(queue[i].requests)
       IN /\ Answer(i, answer, << >>)
          /\ atRisk' = IF answer = "ok" THEN atRisk \ paths
                       ELSE atRisk \cup (paths \cap resident)
          /\ lapses' = IF answer = "ok" \/ paths \subseteq resident THEN lapses ELSE lapses + 1
  /\ UNCHANGED <<call, file_map, plan, edits, cancels, discards>>

-----------------------------------------------------------------------------
(* The guard is dropped between two calls, without a flush; or the page    *)
(* goes, with the transactions that were not run.                          *)

DropGuard ==
  /\ plan = << >> /\ resident # {} /\ Mishaps < MaxMishaps
  /\ file_map' = Evicted(resident) /\ atRisk' = {}
  /\ UNCHANGED <<storeVars, plan, edits, cancels, lapses>>
  /\ Discards

PageReload ==
  /\ Mishaps < MaxMishaps
  /\ queue' = << >> /\ call' = [c \in Callers |-> Idle]
  /\ file_map' = Evicted(resident) /\ plan' = << >> /\ atRisk' = {}
  /\ UNCHANGED <<store, faults, edits, cancels, lapses>>
  /\ Discards

Init ==
  /\ store = InitialStore /\ queue = << >> /\ faults = 0
  /\ call = [c \in Callers |-> Idle]
  /\ file_map = [p \in {} |-> from_string(<< >>)] /\ plan = << >>
  /\ edits = 0 /\ cancels = 0 /\ atRisk = {} /\ lapses = 0 /\ discards = 0

\* Bounds: a file is not moved or copied onto itself, nor a folder into itself.
Called ==
  \/ \E p \in Paths : \/ read(p) \/ add_file(p) \/ apply_transaction(p) \/ apply_update(p)
                      \/ write(p) \/ drop_file(p) \/ memfile_delete(p)
  \/ \E from, to \in Paths : from # to /\ (memfile_move_file(from, to) \/ memfile_copy_file(from, to))
  \/ \E folder \in Folders : drop_dir(folder) \/ memfile_delete_folder(folder)
  \/ \E from, to \in Folders : /\ Disjoint(from, to) /\ FitsInto(from, to)
                               /\ (memfile_move_folder(from, to) \/ memfile_copy_folder(from, to))
  \/ \E candidates \in Modules : extract_path(candidates)
  \/ snapshot

Resumed ==
  ReadReturned \/ SaveReturned \/ DropReturned \/ OperationReturned

Next ==
  \/ Called \/ Read \/ Edit \/ Save \/ Drop \/ Operate
  \/ Resumed \/ Cancel \/ Unawaited \/ DropGuard \/ PageReload

Spec == Init /\ [][Next]_vars

-----------------------------------------------------------------------------
(* Properties *)

\* Paths that a transaction is still to write.
InFlight == UNION {Concerns(queue[i].requests) : i \in DOMAIN queue}

Abstract == INSTANCE FileSession
  WITH files <- Contents, Threshold <- SAVE_THRESHOLD,
       atRisk <- atRisk \cup InFlight, crashes <- discards

\* Every text is made of edits that were made, at most one transaction is
\* awaited, and only by a call with steps to take.
TypeOK ==
  /\ store \in [Paths -> TextsUpTo(edits) \cup {NoFile}]
  /\ resident \subseteq Paths
  /\ file_map \in [resident -> [text : TextsUpTo(edits), ops_since_save : 0..edits]]
  /\ Cardinality({i \in DOMAIN queue : queue[i].owner # Gone}) <= 1
  /\ Waiting => plan # << >>
  /\ \A c \in Callers : call[c] # Idle => \E i \in DOMAIN queue : queue[i].owner = c
  /\ atRisk \subseteq resident
  /\ edits \in 0..MaxEdits /\ cancels \in 0..MaxMishaps
  /\ lapses \in Nat /\ discards \in Nat

\* Unless a save of it is on its way or has failed, the store lacks of a buffer
\* no more local edits than ops_since_save counts, and fewer than
\* SAVE_THRESHOLD; a call dropped while it saved must not widen that gap.
BufferRunsAhead ==
  \A p \in resident \ (atRisk \cup InFlight) :
    /\ store[p] # NoFile /\ IsPrefix(store[p], file_map[p].text)
    /\ LET unsaved == Abstract!LocalEdits(Abstract!Suffix(file_map[p].text, store[p]))
       IN unsaved <= file_map[p].ops_since_save /\ unsaved < SAVE_THRESHOLD

\* Calls dropped at any await, transactions that run without their call, and
\* saves that fail leave the session what FileSession promises: edits only add
\* to a text, an operation happens wholly or not at all, and losing the buffers
\* takes back fewer than SAVE_THRESHOLD keystrokes of a file.  A drop takes back
\* nothing: async_guard.rs:147-181 awaits a save before it, where README.md:1768
\* and :1774 say that it closes the buffer without one.
ImplementsSession == Abstract!Spec

\* A file or folder operation that takes effect, when it is answered or when
\* its call is dropped while it is carried out, does what it is meant to do to
\* the texts the session sees, buffered edits included, and one that finds no
\* file is right about that.
OperationsActOnSession ==
  [][\A c \in Callers :
       /\ OperationReturned \/ Cancel
       /\ call[c] # Idle /\ call'[c] = Idle
       /\ faults' = faults /\ atRisk = {}
       => IF call[c].awaits = "write" THEN Contents' = Meant(call[c], Contents)
          ELSE \/ Cancel
               \/ Present(Contents) \cap Source(call[c]) = {}]_vars

\* "Callers that need durability before teardown must snapshot first": when a
\* snapshot returns, the store holds the text of every buffer, whatever the
\* buffer counts, unless a save was lost.
SnapshotPersists ==
  [][SaveReturned /\ Head(plan)[1] = "save" /\ plan' = << >> /\ faults' = faults =>
       \A p \in resident \ atRisk : store'[p] = file_map[p].text]_vars
==========================================================================
