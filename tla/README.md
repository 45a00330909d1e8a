# Formal specification of saps

saps is a Rust library for services over Postgres: a background-task queue, a cron
scheduler on top of it, sessions for signed-in users, and a file layer with in-memory,
collaboratively edited buffers. This directory holds TLA+ modules of those parts, TLC
configurations that check them on small instances, and TLAPS proofs, for every value of
the constants, about the queue, the scheduler, the sessions and their data, the buffers of
both guards and of the browser, the IndexedDB store, and the collaboration. Definitions keep the names
of the source where TLA+ allows it. Paths below are relative to `src/saps/src/`.

## The system

| part | state it keeps | operations | what is hard |
|---|---|---|---|
| task queue (`background_tasks/`, macro `background-task`) | table `saps.queued_tasks` (`status`, `locked`, `time_posted`), one loop per worker | enqueue, `get_next_task`, `claim_task`, run, mark completed or exited | workers poll concurrently, each in its own transaction; crash between claim and mark; lost replies; failed updates |
| scheduler (`scheduled_tasks/`) | table `saps.scheduled_tasks` (`time_scheduled`, `locked`), one loop per process | migrate, register, claim due rows, post each to the queue, sleep | several processes with clocks of their own, a crash in mid-batch, a migration under a live scheduler |
| sessions (`auth/`) | table `saps.auth_sessions`, the browser's cookie, the handlers' cookie slot | login, `ping` (evict, rotate, accept), logout | requests of one browser in parallel, rotation of the id under them, the response that carried it lost or replaced by an error, statement-level interleaving inside `ping` |
| session data (`meta`, same table) | one JSON object per session, the session a token has cached, unique indexes on keys of `meta` | set, swap and delete a key, replace the object, update or delete every session by one or two pairs | cached values that are stale, rows that change between the choice and the lock, an id that is rotated meanwhile, a unique index under two writers |
| open files (`files/files/mem_files/`, `files/api/`) | `file_map`: one buffer per open path, with `ops_since_save`; the store beneath | transactions of edits, read, write, delete, move, copy, folders, snapshot, drop | what is buffered is newer than what is stored: order of flush and file operation; failing writes; crash |
| file stores (`files/files/`, `files/folders/`, `files/engines/`) | a table from paths to texts (HashMap, redb, IndexedDB) or the disk | file and folder operations | folder operations work key by key; IndexedDB reads and writes in separate transactions |
| browser state (`browser_state.rs`) | `FILE_STATE`: the open buffers of the page, over IndexedDB; no flush on drop | insert, edit, merge, flush, remove, wipe | a buffer is taken out of the map, its save awaited, and put back; other calls run meanwhile |
| async guard (`async_guard.rs`) | the same map as the blocking guard, without flush on drop | as above, across `await` | a call can be dropped at any `await`, while the transaction it awaited runs on |
| collaboration (`full_descriptors/`, `streamer.rs`) | one CRDT document per buffer | state, update, state vector and diff; join, merge, edit, flush | updates late, twice or out of order, joins under way, edits that no update carries, a buffer put back over another |
| text offsets (`full_descriptors/tx_utils.rs`) | none | line and column to bytes, insert, delete, swap | characters of several bytes, places past the end |
| paths, module extraction | none | pure functions | normalisation, probe order |
| connections, migrations, config, errors, macros, examples | - | set-up, I/O | - |

How they interact. The scheduler's `post_scheduled_task` inserts into the queue's table
and moves its own row on in one transaction; `ScheduledTasks` extends `BackgroundTasks`
and shares its variables. Workers look the name of a claimed row up in the registry of
their own build. Every request of the web layer runs the extractor, which calls
`saps.ping`; the middleware puts the rotated id into the response. The files API calls
combine one call on the guard with one on the store the guard borrows. The buffers of the
browser save to the same IndexedDB store that the page's own file operations work on. A
transaction on the server's guard returns an update, which the endpoint sends to the other
users' pages; a page joins with the state the streamer yields.

What makes each part correct: a row is handed to one worker and run at most once; a
final status stays; without faults nothing is stranded, and every
row gets its turn. As far as the clocks agree, a firing is posted once, and schedules only move
forward. A browser that gets its responses, and no error in place of a rotated cookie, never
notices a rotation; only idleness or logout ends a session; the previous id is good for the grace period. Writers of one session's `meta` never
undo one another, and a statement by pairs reaches exactly the sessions that match. The session's view of its files
is changed only by the operations asked for, whatever happens to be buffered, and a
crash takes back fewer than `SAVE_THRESHOLD` keystrokes. A folder moves as a whole. However
the calls of a page overlap, the edits of a buffer are applied one after the other, in
memory and in the store, and a flush reaches them all. A replica that has integrated every
update has the origin's text but for its own edits, and with them once the origin has them. A place that the editor names by characters is that place in
the bytes.

## Modules

| module | models | proofs |
|---|---|---|
| `TaskBoard` | abstract promise of the queue: at-most-once delivery | |
| `BackgroundTasks` | the queue: table, enqueue macro, both claiming procedures, `worker_cycle` | `ScheduledTasksProofs` |
| `ScheduledTasks` (extends the queue) | the scheduler, composed with queue and workers | `ScheduledTasksProofs` |
| `AuthSession` | login, `saps.ping`, cookie middleware, logout | `AuthProofs` |
| `AuthMeta` | every update of `meta`, by id and by pairs, the unique indexes, the token's cached session | `AuthProofs` |
| `FileTree` | operators: a tree of files, and what a move or copy of a file or a folder is to do to it | |
| `FileSession` (extends `FileTree`) | abstract promise of an editing session | |
| `MemFileGuard` (extends `FileTree`) | guard, buffers, save policy, the `memfile_blocking` calls | `MemFileGuardProofs` |
| `FolderStore` (extends `FileTree`) | the HashMap and redb stores, key by key | `FolderStoreProofs` |
| `DiskStore` (extends `FileTree`, instantiated by `FolderStore`) | the disk store, entry by entry | `FolderStoreProofs` |
| `IndexedDb` (extends `FileTree`) | the IndexedDB store: its queue of transactions, the concurrent file and folder operations | `IndexedDbProofs` |
| `BrowserState` (extends `IndexedDb`) | the buffers of the page, over that store | `BrowserStateProofs` |
| `AsyncMemFileGuard` (extends `IndexedDb`) | the async guard, its buffers, the `memfile_asynchronous` calls, over that store | `AsyncMemFileGuardProofs` |
| `Collaboration` | a guard's document, the updates it returns, and a replica of it | `CollaborationProofs` |
| `TextEdits` | offsets and the operations of a transaction on the bytes of a text | |
| `MC...` | values of the constants for TLC | |

Definitions whose comment begins with "Faulty:" are variants with one plausible bug
each. No specification uses them; substituted for the definition they follow in name,
each makes one property fail, which shows that the property depends on that code.

### BackgroundTasks

A call of `get_next_task` is a transaction of two statements, so it is two actions:
`GetNextSelect` takes the row lock (`FOR UPDATE SKIP LOCKED`, oldest first, ties in any
order), `GetNextCommit` sets `locked`. In between other sessions run, and the call may
roll back (`GetNextRollback`), commit and lose its reply (`GetNextLost`), or its process
die (`Crash`). `pc` holds a worker's place in the loop: `Lookup` is the registry lookup,
`HandlerEnds` the joined handler with its three outcomes (a panic is caught by the join;
an `Err` is not told from an `Ok` by `Ok(_)`), `Mark` and `MarkFails` the update whose
error is dropped, `Wake` the end of the sleep. `Build` and `Insert` are the two halves of
the enqueue function: the time is read, from the process's own clock, before the insert is awaited. `claim_task` sets
`status` and ignores `locked`, `get_next_task` the other way round; both are modelled as
they are, run by sessions of their own. The history variables `runs` and `outcome` record
what happened to a task.

### ScheduledTasks

`Migrate` drops and creates the table (it waits for transactions that use it), `Join` is
a process that does not migrate, `Register` computes the first firing and
`InsertSchedule` inserts it later. `ClaimSelect` and `LockRows` are the two statements of
the claiming procedure (SKIP LOCKED), `PostBegin` computes the next firing, `PostCommit` commits both writes, `PostFails` rolls
them back and leaves the row locked, `SkipBadCron` is the `continue` of a string that
does not parse. `QueueStep` is any step of the queue. `now` is the
database's clock, which decides what is due. The processes read clocks of their own, each time
a value up to `MaxSkew` from it, on either side (`Readings`), for the next firing as for
`time_posted`. `origin` remembers which firing a posted task stands for; `behind` the firings
that the database's clock had reached when some process computed the next one from an
earlier reading; `overlapped` that a migration ran while another process was using the
table. The properties hold up to the last two: with one process's clock behind, `OncePerFiring` says which
firings may be posted again, and `ScheduleAdvances` which rows may move back, and no others.

### AuthSession

Time, ids and the rows of the table are explicit. A request is sent with the browser's
cookie (`Send`), goes through the three statements of `saps.ping` (`PingDelete`,
`PingSelect`, `PingUpdate`, each its own snapshot, as READ COMMITTED gives) or, under
`RefreshMode::Never`, `ReadSession`, runs a handler (`Handle`, `Logout`) and is answered (`Deliver`, `LoseReply`). An error response can
come of every step: the database's error (`ExtractionFails`, rolled back), the loss of the reply to
what was committed (an alternative of `PingDelete`, `PingUpdate` and `Logout`), a rotated id that gets no token, the role check,
the handler. Those of the extractor leave the CookieSlot empty, so that a
committed rotation may not reach the browser; `clean` holds of a browser to which
that has not happened, nor a lost response, nor two requests at once. `NOW()` in a call is the time
the call began. `GRACE`, `ROTATE`, `IDLE`, `EXPIRE` are the code's intervals, `PingTime`
bounds how long a call of `ping` takes.

### AuthMeta

The same table seen by its `meta` column, without time. (What both modules would name alike
is prefixed here, `MetaInit` to `MetaTypeOK`, so that one module of proofs can extend both.) `token` is the `HeaderToken` of a
request: the id its session had when the extractor ran (`Extract`, with or without a
rotation) and the `meta` it caches. An operation of a token is one UPDATE or DELETE
`WHERE id = unique_id`, so one action; `Hit` is empty once another request rotated the id,
and then the operations on one key do nothing, while `update_auth_session_meta` sets the
cached value all the same, as the code does. `Put` is what they have in common: wait for
the row's lock, let a unique index refuse, write the row, cache what was written.

A statement by pairs (`BeginStatement`) chooses its rows when it starts, `Visit` locks them
one at a time and evaluates its WHERE again on what it finds then, `Commit` makes its writes
visible, and `Fail` is a lost connection or a deadlock that Postgres resolves. `Collides`
and `MustWait` are the unique indexes: a value that a committed row has is refused, one that
an uncommitted write brings or takes away is waited for. `ledger` is what the operations make
of each `meta` one after the other, `steady` the rows that have matched a statement ever since
it began. `meta` is NULL or an object. Values are compared in three ways, which are parameters: the unique indexes are on
`Text` (`->>`, SQL's NULL for JSON null, which is a duplicate of nothing), the statements by
pairs match by `Fits` (`@>`, containment), `compare_and_swap` by `Equal` (`=` of jsonb). That a
statement finds one row at most under an index is therefore true of pairs whose values are
`Exact`: they have a text, and what contains them has the same (`ByIndex`).

### MemFileGuard, FileSession, FileTree

A text is the sequence of the edits that made it, each one a fresh number and its origin
(a keystroke or relayed); a deletion is an edit. So "no edit is lost" is a statement about
prefixes, and neither offsets nor the CRDT need to be looked into. Every call takes
`&mut MemFileGuard`, hence is one action. A call is given the set of paths whose writes
fail in it (`down`), and whether the store's own move, copy or delete works; the errors
of `save` are reported (`atRisk` records it), those of the flush on drop are not
(`lapses` counts them). `Drop` is the Rust `Drop` of the buffers that leave the map, with
the unconditional flush; `add_file` reads before the old buffer is dropped, as the code
does, so that a path that was open goes back to the stored text while its own flush makes
the store newer than the buffer: such a reload counts like a crash (`crashes`), and the
buffer is `atRisk` until its next save. A snapshot that fails has saved any part of the map, since the map is walked in any
order. `FileSession` is what the user of the session sees: `Contents` (the live text
where there is a buffer, the stored one elsewhere) is its `files`.

### FolderStore, DiskStore

One action per call, since redb's write transaction and the `RefCell` exclude others; the
result of a folder operation is computed as the code does it, a `Loop` of `re_key` or
`copy_key` over the keys beneath the folder, in any order for the HashMap and in key order for
redb (`Orders`). `engine` says which store a behaviour has. No name of a file is also the name of
a folder (`NamesAssumption`): on disk a path is one or the other (a call that would make it
both fails), and the flat stores look at whole keys only.

The disk store has no lock. A rename is one step; `copy_dir_all` and `remove_dir_all` are
walks of the callers: `within` is the stack of the open folders, each with the entries
still to do, and one entry is one step (`Enter`, `CopyEntry`, `DeleteEntry`, `Leave`),
among the steps of other calls. An error or the end of the process (`Fail`) may come at
every step and leaves what was done, with one file perhaps half written (`Torn`). Folders
(`dirs`) exist for themselves: a rename or a copy of a file needs the folder of its target, a write makes it,
a copy of a folder makes its target before it looks for the source. `WholeFolder` is
about the calls that return `Ok`: what they did to the files that no other call has
changed since they began (`since`) is the folder operation at once.

### IndexedDb, BrowserState

The page has one thread, so a call runs without interruption up to an `await`, and an
action is a call up to its first await, or an answer and what its owner does next.
IndexedDB runs overlapping transactions on one object store in the order in which they
were opened, except that readers do not wait for one another; `queue` holds them. What the store's operations do is visible in their
transactions: a file or folder operation reads in one (`Begin`) and, when the answer is
there, opens a second one with all its requests (`ReadAnswered`), behind those that others
opened since. An answer (`Answer`) is `ok`, `error` (the request fails, the transaction
with it), or `lost`: `await_request` resolves with the request, and the transaction aborts
at its commit afterwards, which nothing in the code looks at.

`write_transaction_to_file` and `apply_update_to_file` take the buffer out of `FILE_STATE`
(`TakenOut`), and `EditSaved` goes on with the operations that remain after every save and
puts the buffer back in the end (`Insert`); `flush_all` takes the whole map, in the order of
the HashMap, that is in any. `task` holds what a call in progress has taken out. `Reload` is
the end of the page. A text is the sequence of the edits that made it, as in `MemFileGuard`;
its first edit, the insertion that opened the buffer, identifies the buffer, since a new one
starts from a text of its own. Three history variables tell what the properties need:
`closed`, the buffers that were removed, wiped or replaced; `foreign`, the paths an operation
of the store wrote last; `atRisk`, the paths whose last save failed or was lost.

### AsyncMemFileGuard

A call has the guard to itself, but awaits each save, each read and each operation of the
store. `plan` is the list of the steps a call has still to take: the call's action lays it
down (`memfile_move_file` is drop, drop, move), one action takes each step up to its await
(`Read`, `Edit`, `Save`, `Drop`, `Operate`), another goes on when the answer is there
(`...Returned`). `Cancel` drops the future: the rest of the plan is gone, the awaited
transaction belongs to nobody and runs all the same (`Unawaited`); a file or folder
operation between its two transactions is never carried out. A buffer leaves the map before
its last save is awaited, an async buffer is not flushed when it is dropped (`DropGuard`),
and `PageReload` takes the transactions that were not run along. `Settled` is what the store
will hold when everything that runs unawaited is through; with the buffers it makes
`Contents`, and the guard implements the same `FileSession` as the blocking one, where
`discards` counts the times that unsaved keystrokes were taken back (the guard or the page
dropped, `add_file` on an open path).

### Collaboration

One path. The origin is the buffer of the server's guard. A document is a set of items and of
deletions; an item is numbered by its client (the n-th document of the origin, or 0, the
replica) and a clock. `apply_transaction` returns the diff from the state vector it took before;
`Unsent` edits the origin without an update, which is what a transaction does that fails
midway, an async one that is dropped, and `apply_transactions`; `Reseed` makes a new document
(`reset_file`, `add_file` of an open path, `drop_file` and the next load); `Relay` integrates an
update that a peer made of its own edits. Of yrs the model knows what its use rests on: items
wait for those of lower clocks, a state vector names the last integrated clock, deletions
travel whole with every diff, but what still waits does not.

The replica is a page or a peer. A page's calls, each up to its await and then what follows it,
are all those that take a buffer out of the map or put one in: `insert_file_from_state`,
`insert_file_from_string`, `apply_update_to_file`, `write_transaction_to_file`, `flush_all` and
`remove_file` (with `wipe_state`). They overlap, and their saves may fail. `Takes` is the
`FILE_STATE.remove` or `take` before the await, `Inserts` the `insert` or `extend` after it, over
whatever is there by then. What a page edits is in no update, since
`write_transaction_to_file` returns none. A peer owns its `MemFile`: `from_state`, `Empty`, the
handshake `Ask`, `Answer`, `CatchUp`, updates (`Relayed`), and its own edits (`Edit`), of which it
has updates to send. States and replies are under way in `mail`; updates may be integrated at any
time after they were returned, or never, or twice. Further replicas exist for this one only
through what the origin has integrated of theirs.

A buffer carries its history with it, so that a buffer that a call puts back over a newer one is
known for what it is: `joined`, where the origin stood when it wrote the last state or reply the
buffer has; `told`, the updates integrated; `erased`, what the replica deleted itself. `Converges` speaks of a buffer that is
`Complete`: it joined the origin's present document, has every update since, and holds nothing
of an earlier document; edits of the origin in no update are apart, by `unsent`. Such a buffer
differs from the origin by the replica's own insertions and deletions and by nothing else, and
not at all once the origin has these. Each of the exemptions is needed: without it TLC finds a replica that stays different.

### TextEdits

A text is the sequence of its bytes, each one `<<character, index>>`, so that cutting a
character in two would be seen. `line_col_to_byte` and `byte_span` are the two resolutions,
`apply_insert` and `apply_delete` choose among the four edits by the length of the run.
`shown` is the sequence of the characters that are meant, by the meaning the documentation
gives a position (`tx_utils.rs:242`): ropey's `line_to_char(line) + col`, clamped to the
end. `EditsByCharacter` compares the whole text after every operation.

## Runs

| run | shows | bounds |
|---|---|---|
| `queue` (`background_tasks.cfg`) | exclusive claims, at most one run, a final status only on rows that are over, and for good, no silent loss, refinement of `TaskBoard`; every inserted row is claimed, without faults every registered row finishes | 2 tasks, 2 workers of different builds, 1 `claim_task` session, 2 times, clocks 1 apart, 2 faults |
| `schedules` (`scheduled_tasks.cfg`) | once per firing, no stuck schedule, schedules advance | 2 schedulers, 2 schedules, 3 tasks, 3 times, every process's clock up to 2 ahead or behind, 1 fault |
| `schedules_live` (`scheduled_tasks_live.cfg`) | a due firing ends with a final status, although another row's cron string is bad | 1 scheduler, 1 worker, 3 tasks, one clock, 1 fault |
| `sessions` (`auth_session.cfg`) | `StaysSignedIn`, `GraceKept`, `EvictedWhenIdle`, `RotationsSpaced` | 1 session, 3 parallel requests, 7 times, 1 lost reply, any number of error responses |
| `meta` (`auth_meta.cfg`) | `NothingOverwritten`, `WritesExactlyMatches`, `UniqueMatch` | 2 sessions, 1 token, 2 statements by pairs, 2 keys unique as a pair, 2 values (one of them JSON null), 2 ids, 2 operations |
| `guard` (`mem_file_guard.cfg`) | `BufferRunsAhead`, every call acts on what the session sees, refinement of `FileSession` | a text and a binary asset in 2 folders, 3 edits, threshold 2, 2 faults |
| `async_guard` (`async_guard.cfg`) | the same over IndexedDB with calls dropped at every await; `SnapshotPersists` | 2 paths in 2 folders, 2 edits, threshold 2, 1 mishap, 1 fault |
| `folders` (`folder_store.cfg`) | `WholeFolder`: moving or copying a folder key by key is moving or copying it at once; on disk, a copy or removal among other calls acts on all that they leave alone | 3 stores, every set of 5 paths, 4 folders, every order, 2 callers, 2 calls |
| `browser` (`browser_state.cfg`) | `EditsNeverUndone`, `OnlyBatchedUnsaved`, `FlushReachesAll`, `AtomicUnlessInterfered` | 2 files in 2 folders, 2 overlapping calls of the session, 1 store operation, 3 edits, threshold 2, 1 fault |
| `collaboration` (`collaboration.cfg`) | `Converges`, `AlwaysReturned` | 2 items of each document of the origin, 2 changes of it (updates, edits without one, new documents), 2 own edits in a buffer, 1 state or reply under way, 2 overlapping calls |
| `text_edits` (`text_edits.cfg`) | `EditsByCharacter` | every text of 6 bytes over a character of one byte, one of two and the newline; lines and columns to 6, runs to 2, lengths to 3 |

Why these bounds. The queue's rows interact through the choice of the oldest and the row
locks, which two rows show; two faults let a crash follow a lost reply. A schedule's
firing can be posted twice only by two posts of one row, so two schedulers, two firings
and one fault reach it; a clock two behind has not come to a firing that another process has
posted and moved on from. Three tasks let each of the three firings be posted, or one of them twice. In `sessions`
IDLE = 3 and ROTATE = 2 with 7 times let a session rotate twice, or rotate and go idle;
two requests rotate against one another and the third uses what they leave. In `meta` each property is about two operations on one row or on two, which
meet in every order within a statement's locking; ids are for two sessions, or for one that is rotated (the index looks at no id). With threshold 2, one edit is buffered and the second is saved; three
edits and two faults let a failed save be followed by edits and then by a crash. Two
calls in `folders` start from every subset of the paths, with contents all different: one
walk meets another, or a call that changes the tree beneath it. In
`browser` the races are between two calls on one path, a flush and an edit, or a call and
one store operation; three edits open a buffer and then either batch a keystroke and save
with the next one, or edit it in two calls at once. In `async_guard` a dropped call leaves one
transaction behind, which the steps of one later call meet in either order; with threshold 2
an edit of two that fails to be saved is one keystroke too many. In `collaboration` an item
that waits needs one before it, so two per client; two updates can arrive in the wrong order, an
update can follow an unsent edit or a reset, or a peer's edit come back; and two calls are one that holds a buffer and one
that joins, edits or removes meanwhile. In `text_edits` six bytes
hold two lines with a character of two bytes in each, and places before, on and past
every end.

One run checks a sentence of the repository against what the code does, and TLC finds the
shortest behaviour that contradicts it:

| run | the sentence | what happens |
|---|---|---|
| `unsent_edits` | `mem_files/guard.rs:227`: "A replica applies it with `apply_update` to reach the identical state" | a transaction fails in the middle, its edits stay in the buffer and are in no update; the update of the next transaction starts after them, and waits at the replica for items that nobody sends |

More differences between text and code were met, are in the model as the code has
them, and have no run of their own. Two instances that start together register each schedule
twice, and a migration drops the table under a live scheduler (the history variable
`overlapped`), against "multiple scheduler instances can run safely"
(`scheduled_tasks/dal/model.rs:111`). Of two pings with one id that are both due for
rotation the second is refused, although the id was replaced a moment ago, against "Accept
the ping if rotation happened within the last 10 seconds" (`auth/dal/model.rs:260`);
`GraceKept` is what holds, of pings that arrive after the rotation. README.md:401 says that the
middleware attaches the rotated cookie to the response automatically, and :641 that this happens
transparently; when `saps.ping` has committed a rotation and the extractor then returns an error
(`run_auth_extraction.rs:261`, `:314`, `:329`), the CookieSlot is empty, the browser keeps the
previous id, and after the grace period it is refused, though it got every response; `clean`
leaves such a browser apart. `add_file` and `load_all`
on an open path go back to the stored text, against "the same buffer is reused - carrying any
unsaved edits" (`mem_files/guard.rs:10`). A buffer that is being saved while `wipe_state` or
`remove_file` runs is put back into the map afterwards (`closed` remembers it), against
"Drops every open buffer, leaving the session empty". `Ok(_)` in `background_tasks/worker_pool.rs:265` matches the result of
the join, so a handler that returned `Err` is marked completed, against `background_tasks/dal/model.rs:34` ("The task
finished successfully"), `:36` (`Exited` is "failed or was terminated abnormally") and
`worker_pool.rs:186-188` (`Ok` is marked completed, "Panic/Error (`Err`)" exited).
`FinishedIsOver` says what a final status is worth: the run is over, and which way the thread was
joined, not whether the task succeeded. `get_next_task` leaves `status` at `pending` while a
row is run, which `background_tasks/dal/model.rs:30` calls "no worker has picked it up
yet". `claim_task` looks at `status` only and `get_next_task` at `locked` only, so one row
can be handed out once by each, against `model.rs:193`; nothing in the crate mixes the two.
The example server's logout deletes by the id the request came with, which another request
may have rotated, and answers 200 although no row was deleted. The same rotation makes
`update_auth_session_meta` of a token write nothing, and the token still shows the new value
afterwards, against `auth/token/header_token.rs:343`; the operations on one key are silent then,
which their documentation says only of a row that "no longer exists". The pair operations say
that a key "must equal" a value; `@>` is containment, which for an array or an object is less.
That a unique index is "to guarantee the return value is `0` or `1`" (`auth/dal/postgres_txs.rs:615`,
`:660`) is not so of every value: the index compares texts (`auth/dal/model.rs:339-342`, `:395-399`), in
which JSON null is SQL's NULL and no duplicate, while `@>` matches every row that has it; 1 and
1.0 are two texts and one number; and an object is contained in others of other texts.
`UniqueMatch` is about the values for which it holds (`Exact`). With clocks that differ, a process whose
clock is short of a firing that another has posted computes that firing again
(`scheduled_tasks/scheduler.rs:114`), which is posted twice and moves the row back, against
`scheduled_tasks/dal/model.rs:111` as well (`behind`).

Ten more concern the files. README.md:1768 says that `drop_file` and `drop_dir` close buffers
"without saving", and :1774 that the async guard has the same API. Both guards save: the blocking
one by the flush on drop (`guard.rs:184-196` says so itself), the async one before it removes the
buffer (`async_guard.rs:147-181`). `ImplementsSession` is that of the code, in which a drop takes no edit back. On disk `fs::copy` truncates its target before it reads, so a
file or folder that is copied onto itself is emptied, where the trait's other stores keep it
and `folders/blocking_io/disk.rs:251` says "leaving the source in place" (the exemption in
`WalksAll`). When one folder lies inside the other, `move_folder` of redb
and the HashMap puts a file on a key whose own file has not been moved yet, which is lost
(`Overlapping = TRUE` in `FolderStore`). `files/files/async_io/indexed_db.rs:128` calls a move
atomic because put and delete share a transaction; the read does not, so a write in between
is moved over, and moving a file onto itself puts it and deletes it. The repository's
README.md:1836 says of the browser's buffers that "a page reload does not lose unsaved
edits"; up to `SAVE_THRESHOLD - 1` keystrokes are only in memory, and are
(`OnlyBatchedUnsaved` is what holds). README.md:1844 lets `write_transaction_to_file` return
the update to broadcast; it returns `()`, and no other function of the page has the update. So what a page
edits stays in its own buffer: even when the same edit is made at the origin as a transaction, its items are
others, and the page then shows both. README.md:1742-1744 ("two replicas editing the same
file concurrently converge"), `full_descriptors/constructors.rs:63-65` and the text an editor
renders (`browser_state.rs:231`) suggest otherwise; `Converges` holds up to the replica's
own edits. A call that holds a buffer across its await (an edit, an update, a `flush_all`) puts it back over one that
a join has put there meanwhile, so the page is back at the document it had before it joined;
`browser_state.rs:289` says of `flush_all` that it "keeps any file opened during the awaits", and in the
same sentence that it overwrites the paths that were being flushed. While a buffer's save is awaited `read_file` finds
no file and edits of it are refused, which no text mentions. `flush_all` promises to save
"every one" of the open buffers (`browser_state.rs:276`), but what another `flush_all` has
taken out and not come to yet is in no map: the second call returns before the first has
saved it, at once when it finds the map empty. `FlushReachesAll` leaves these buffers apart
(`Waiting`); with three files and five edits TLC shows why it must.

`CHECK_DEADLOCK FALSE` appears in the configurations of the scheduler, `meta`, the stores, the browser
and the collaboration: there the pool of task ids, calls, edits or updates is finite, and the model stops when it is used up.

### Environment bounds

`MaxTime`, `MaxFaults`, `MaxLost`, `MaxEdits`, `MaxRun`, `MaxIds`, `MaxCalls`, `MaxMishaps`,
`MaxItems`, `MaxOwn`, `MaxChanges`, `MaxMail` and `MaxBytes`
cap counters, texts and sets in the guards of the actions that raise them. `MaxSkew` is how far
a process's clock may be from the database's; no theorem depends on its value. It is 0 in
`schedules_live`, since a clock that stays behind posts one firing until the pool of tasks is used up. A peer's
update reaches the origin (`Relay`) only while the peer's buffer has nothing of an earlier document. `Overlapping` (stores) admits a move
of a folder into itself or a parent; it is FALSE in `folders`. `Callers` walks of the disk store go on at once.
`FitsInto` and `Relocates` keep relocated paths within the instance.

## Fairness

`queue` assumes weak fairness of every worker's steps: Tokio polls a runnable task,
Postgres answers, a handler ends, a sleep elapses, and a process that died is started
again. Faults, enqueueing and `claim_task` are never forced, and a failed poll is no
step. A handler that never returns is outside the assumption (nothing in the code times
it out). `schedules_live` assumes the same of schedulers and workers, not of time.

## Proofs

`ScheduledTasksProofs` proves about the queue, for every set of tasks, workers, names, registries and any
number of faults, under `ConstantsAssumption` (the placeholder row is not a task, a
session is either worker or claimer):

- `TypeCorrect`, `Exclusive`, `RunAtMostOnce`, `FinishedForGood`: the invariants of `queue`;
- `FinalStatusKept`: a final status is never overwritten, by any interleaving of the
  unconditional updates;
- `NothingLost`: without faults a locked row of a registered function is finished or in a
  worker's hands.

None of these is inductive alone. The strengthening `IInv` adds `PlacesAgree` (a worker
holds a row exactly at the places of the loop where the code has one), `LocksAgree` (a
row that was handed to a worker and committed is locked, one that is only row-locked is
not) and `RunsAgree` (how often a handler ran is determined by where its row is). With it
one worker's claim cannot meet another's: `GetNextSelect` takes only unlocked rows no
other session has a row lock on, and `locked` is never reset. `StepInv` has one step per
action; `LockEffect` collects what a claim changes.

`Refinement`: the queue implements `TaskBoard` under
the mapping `StageOf`, which reads the stage of a task off its row and its holder. The
lemmas `HolderMoves`, `ClaimMoves` and `MarkMoves` show that a step of a holder moves one
task by one allowed stage and no other; everything else is a stutter (`NoneMoves`).

The second part of the module is about the schedulers: `QueueInv` shows that every step of the schedulers keeps
the queue's `IInv`, since to the queue they are one more way to enqueue, and `QueueKeptSafe`
carries the queue's invariants over. For the schedules themselves (`ScheduleAssumption`:
cron tables are sets of times, `Never` is none) the strengthening `SInv` adds what each
process holds by its place (`SRecords`), that claimed firings are due and a post's next one is a firing
of its schedule (`ClocksAgree`), that a row selected for a claim is one claim's and still as
it was selected (`ClaimsAgree`), and, unless a migration
overlapped, `Orderly`: each schedule is registered once (`RegisteredOnce`), rows carry firings of
their own schedules (`FiringsAgree`), a claimed row is in one scheduler's hands
(`FlightsAgree`), what was posted for a row is behind it, or is a firing in `behind` (`PostsAgree`), and a lock without a
holder has a fault or a bad string behind it (`NoStranded`). `Once`, `NotStuck` and `Advances` follow. `now` exists for "the first
firing after now" because a set of numbers has a least one; `LeastNumber` gets this from the
well-foundedness of `<`, since the induction theorems of the library cannot be instantiated.

`AuthProofs`, about `AuthSession` (`DurationsAssumption`: the intervals are numbers, a call of `ping` is
shorter than what ROTATE has beyond GRACE, ROTATE is less than IDLE). `StaysSignedIn` is not inductive by far: it
needs that an id drawn for one login is never seen with another (`IdsOwned`, over rows,
cookies and every request under way), how rows and requests stand to the clock (`RowsAgree`, `RequestsAgree`),
that the ids in a slot, a key and a cookie are the row's, or its previous one within grace
(`PingsInTime`, `GracedAgree`), and what an undisturbed browser's cookie is (`CleanAgree`).
`Evicted` and `Spaced` are action properties from the same invariant: one lemma
(`RowChanges`) lists the steps that can touch a row.

`AuthProofs`, about `AuthMeta` (`MetaTypeCorrect`, `LostNoWrite`, `ExactMatches`,
`AtMostOneMatch`, `IndexKept`; `MetaAssumption`: indexes are sets of keys, tokens, sessions and
statements are named apart). `NothingOverwritten` compares each row with `ledger`, and
needs that an uncommitted write is what its statement makes of the row as it still is
(`WrittenAgrees`), which is where the row locks enter. `UniqueMatch` needs the indexes to hold
between committed rows (`IndexHolds`) and between uncommitted writes and all others
(`WrittenDistinct`), which `Collides` and `MustWait` keep; `IndexKept` states the first of
these.

`MemFileGuardProofs` (the paths are sequences, `InitialStore` holds texts that no edit of
this session made, `NoFile` is no text). `IInv` is the types and `BufferRunsAhead`; the work is in
the transaction of any length: `apply_transaction_ops` is a recursive function, so
`StatesExist` shows that a sequence of states exists in which each follows from the one
before (by `Reach`, again from the well-foundedness of `<`), and `Transaction` carries the
invariant of a single edit along it. On this rest three results. `RunsAhead` is the
invariant. `Calls` is the action property `CallsActOnSession`: one lemma per operation computes
what it does to `Contents`; a dropped buffer does not change them when its flush succeeds
(`FlushEffect`), and a relocation is a bijection between what lies beneath two disjoint folders
(`RebasedBack`, `SourceOf`). `Implements` is the refinement of `FileSession`: each action is
mapped to an edit of one text by fresh numbers, to one file or folder operation, to a step
that takes back fewer than `SAVE_THRESHOLD` keystrokes of a text (`RunsAhead` says that this
is all a crash can do), or to a stutter.

`CollaborationProofs` (`ConstantsAssumption`: the bounds are numbers; `NoneAssumption`: `None` is
neither a buffer nor a call). `Converged` needs that nothing under way and no document has more
of the present document than the origin, but for deletions of the replica's own (`Carried`,
`AllKnow`); that every buffer, in the map or in the hands of a call, has what its history says it was
told, and lacks nothing of the origin's document but what was returned in updates since it
joined (`Knows`, `Covers`); the same of a state in the mail, and of a reply together with the buffer that asked for it
(`MailAgrees`); and that only a peer's own items and deletions can wait in the origin for an
earlier one (`Waiting`), which that peer has itself, so that a diff, which leaves out what waits, leaves out nothing
the peer lacks. Since the history goes with the buffer, it does not matter which of two
overlapping calls puts its own back last. `BufferReturned` is part of the same invariant.

`IndexedDbProofs` (`StoreAssumption`: `KeyOrder` lists the paths; `PathsAssumption`: paths are
sequences) has the facts about the store that its users need. What `Committed` does to a tree
is said path by path (`Effect`, `Commits`); what an operation requests, in whatever order, is
`Asked` (`Asks`, on `KeysAre`: the keys beneath a folder are the files there, each at one
place, although `Keys` is defined by counting); and `RequestsCarry` is the point of the module: the requests that an
operation makes of what it read do what it is meant to do (`Meant`) to every tree that agrees
with what it read on the paths it is concerned with. `RebasedBack` makes a folder's relocation
one to one, `ApartBeneath` keeps its ends apart.

`BrowserStateProofs` (`ConstantsAssumption`: the threshold is positive, the session's calls
and the store's are named apart, `NoFile` is no text; and those of `IndexedDbProofs`). A buffer can be in the map or in the hands of
any call, so the invariant speaks of all the `Copies` there are and of the texts that are
`Known` of them: stored, requested, or seen by a flush. `Base` says that calls and open
transactions belong to one another (`QueueAgrees`), that no buffer has two copies (`Unique`),
that what is known of a buffer is a prefix of its copy (`Precede`), that all edits were made
(`Within`), and that a copy whose save is not awaited has counted what the store lacks
(`Counts`). `Descent` is what each action is shown to be a case of: the copies after it
continue, one to one, copies from before it, but for a fresh one. From `Base` follow
`TypeCorrect` and `OnlyBatched`, and from `Base` and the steps `NeverUndone`. For a flush
`IInv` adds that of two buffers at one path one was closed (`OneOpen`), that a buffer the flush
saw is still the only one of its path unless one was closed (`SeenLive`), that what it was
asked for is in the store, being saved, or still to be saved by it (`AskedAgrees`), and, for
the buffers it has behind it, `DoneAgrees`: two flushes can have a buffer each at one path
only when one was closed, so what the earlier saved is not overwritten by less. `Settling`
bundles what a step does to these four, and there is one lemma per action. `Atomic`, about
the store's own operations beside the session, rests on `WritesCarry`: the requests of a call
that awaits its write do what is meant to every tree that is as the call read it where it is
concerned, whoever else has queued transactions since. What a transaction of the store
commits and where a session's transaction stops to save are
defined by least and greatest numbers (`LeastNumber`), not by folds.

`AsyncMemFileGuardProofs` (`ConstantsAssumption`: one owner `Guard` for the saves of the call
in progress, one, `Gone`, for what dropped calls left behind, one caller of the store; the
texts as for the blocking guard; and the assumptions of `IndexedDbProofs`). A call can be
dropped at any await, so the invariant must say at every step of a plan what is still true
if the rest of it never runs. `QueueAgrees`: of the transactions in the queue only the
youngest is awaited, and it is the one that the plan's step asked for; `CallsAgree`: an
operation of the store under way is that step. `PlanAgrees` is what the remaining steps have
to count on: their order (`Ordered`), room for the edits (`Counted`), that a buffer which an
operation must find dropped or saved is so or will be before it (`Prepared`), and the same for
a snapshot (`Persisting`). `BuffersSound` strengthens `BufferRunsAhead` by speaking of
`Settled`, not of the store: what a dropped call left in the queue may still change the
store, but never to something a buffer does not continue. `TodoAgrees` carries a plan over a step
that does what its head says and keeps what was done; a transaction that reaches the store
leaves `Settled` as it was (`RemoveSettles`), which makes `Unawaited` a stutter. From `IInv` follow `TypeCorrect`
and `RunsAhead`, and from `IInv` and the steps `Snapshot` and `OperationsAct`. `Implements` maps
an edit to an edit, `write` on an open file to an overwriting one, a dropped guard, a reload and
an `add_file` that goes back to the stored text to `FileSession`'s `Crash`, a failure that
nobody notices to `Lapse`, the step that makes an operation certain to the file operation,
and the rest, the awaits above all, to a stutter.

`FolderStoreProofs` (`ConstantsAssumption`; `NamesAssumption`: no file has a folder's name;
`IdleAssumption`: `Idle` is no walk; and, in both theorems, `~Overlapping`: no folder is moved or
copied into itself or a parent, where the code is known to lose files). `FoldersMoveWhole` is
`WholeFolder` in the three stores. For the HashMap and redb it says that the loop computes what the
operation at once is to yield, for every order of the keys. `CopyLoop` and `MoveLoop` give the
table after n keys in closed form: the first n keys are where they belong, all else is
as it was. That this form holds for every n is shown by the least n for which it fails
(`StepByStep`, from the well-foundedness of `<`), and a step preserves it because folders that lie apart
have no key in common and a relocation is one to one (`RebasedBack`, `FilesApart`). For the disk
store, `IInv` says of the folders that each lies in a folder that exists and each file too
(`DirsAgree`, which `FoldersHoldFiles` states by itself), and of each walk (`WalkAgrees`) that a file it found
and that nobody else has changed since has been copied or removed, or is `Pending`, that is, beneath an
entry still on the walk's stack, and that no other file has changed by it. The listing of a folder has every
file beneath it under one of its entries (`Listed`, which needs `DirsAgree`), so a folder that is
entered takes over what was pending under its entry (`Entering`), and an entry is done
(`Copying`, `Deleting`) or a folder left (`Leaving`) with nothing under it forgotten. When the stack is empty nothing is pending, and the walk has
done what it is to do (`WalksDone`). `Renaming` shows that a rename, which takes folders and files along at
once, keeps the tree a tree.

Only model-checked: the liveness of the queue and the scheduler (`EveryRowClaimed`,
`EveryRowFinishes`, `EveryFiringRuns`) with its fairness (neither that nor ENABLED is within
TLAPS's reach here), the overlapping folders excepted above, and the text offsets (`EditsByCharacter`), which are
recursive definitions: what those compute for every
input needs induction over data, which the provers do not have for an operator of the
library. The functions of the models that are proved about are written so that no fold is in
them.

## Left out

- The inside of yrs: where in the text an item goes when two were inserted at one place. That
  replicas with the same items and deletions have the same text is what a CRDT is, and taken
  as given.
- On disk, a copy of a folder into itself (it descends into its own copy until a name is too
  long) and links; reads of IndexedDB, and the switch of a page to another database
  (`configure_persistence`).
- `auth`: the queries by a key of `meta` (one SELECT each), what `->>`, `@>` and `=`
  make of particular JSON values (they are parameters), token encoding, credentials, role comparison.
- Paths (joins of `PathBuf`; `into_parent_folder`, the one with a check, is called by tests only), the spelling of a module's two candidates, configuration, connections, migrations other than the two
  tables', error types, macros other than the enqueue function, examples and the command
  line: stateless, or pure I/O.
- A caller that calls `reset_file` without writing, or holds two guards over one store.

About two thirds of the lines of the sources are documentation comments and tests within the
files; of the rest, most is argument lists, SQL text repeated per variant of a statement,
formatting, configuration and generated glue, which no definition translates. The
mapped lines are those whose state changes, guards and order the modules have.

External to the sources, and modelled from their use: Postgres (row locks, READ COMMITTED,
SERIAL), the clock, the browser with its connection and IndexedDB, the crash of a process.

## Plan

1. Queue, scheduler, sessions and `meta`, blocking and async buffers, stores, browser state,
   collaboration and text offsets: written and checked. All but the text offsets: proved.
2. A torn file of the disk store beneath the blocking guard: what a buffer opened over it shows.
