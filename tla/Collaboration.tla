-------------------------- MODULE Collaboration --------------------------
(***************************************************************************)
(* One file edited together: the buffer of the server's guard is the       *)
(* origin, and a replica joins with the origin's state and integrates the  *)
(* updates that the origin's transactions return.                          *)
(*                                                                         *)
(* The replica is a page (browser_state), whose calls take the buffer out  *)
(* of the map, await a save and overlap, or a peer that owns its MemFile,  *)
(* can catch up by the state-vector handshake and sends its own edits to   *)
(* the origin.  What a page edits is in no update.  Other replicas exist   *)
(* for this one only by what the origin has integrated of theirs.          *)
(*                                                                         *)
(* The CRDT is yrs, seen from its use: a document is made of items, each   *)
(* <<client, clock>>; an update is a set of items with a set of deletions; *)
(* an item waits until those of lower clocks are there.  Each document the *)
(* origin makes has a client of its own, the replica is client 0.  What is *)
(* carried may arrive late, in any order, or never, and updates twice.     *)
(***************************************************************************)
EXTENDS Naturals, Sequences, FiniteSets

CONSTANTS
  Calls,         \* the page's calls that may overlap
  None,          \* no buffer, no call in progress, no join yet
  MaxItems,      \* bound on the items of one document of the origin
  MaxOwn,        \* bound on the items a replica inserts or deletes in its buffer
  MaxChanges,    \* bound on the changes of the origin: updates returned, edits
                 \* that no update carries, documents made anew
  MaxMail        \* bound on states and replies under way

ASSUME ConstantsAssumption ==
  {MaxItems, MaxOwn, MaxChanges, MaxMail} \subseteq Nat

Item     == Nat \X Nat
Document == [items : SUBSET Item, deleted : SUBSET Item]
Stand    == [document : Nat, sent : Nat, unsent : Nat]
Buffer   == [document : Document, joined : Stand, told : SUBSET Nat, erased : SUBSET Item]
Call     == [op : {"join", "hold"}, buffer : Buffer]

ASSUME NoneAssumption == None \notin Buffer /\ None \notin Call

VARIABLES
  documents,  \* documents made so far; the last is the origin's
  origin,     \* the origin's document: [items, deleted]
  sent,       \* the updates returned so far, with the text they lead to
  mail,       \* states and handshake replies under way
  kind,       \* whether the replica is a page or a peer
  buffer,     \* the replica's buffer, or None while it is not in the map.  With
              \* its document goes its history: what the origin was when it wrote
              \* the last state joined, the updates integrated since, and what
              \* the replica itself has deleted
  call,       \* per call of the page: the buffer it is to put in the map
  asked,      \* the peer's state vectors on their way to the origin
  outbox,     \* the updates a peer made of its own edits
  unsent,     \* history: times the origin was edited without a returned update
  open        \* history: a page's file was opened, and not removed since

originVars  == <<documents, origin, sent, unsent>>
replicaVars == <<kind, buffer, call, asked, outbox, open>>
vars == <<originVars, mail, replicaVars>>

empty == [items |-> {}, deleted |-> {}]

\* An item is part of the text when every earlier one of its client is there.
Integrated(items) ==
  {i \in items : \A clock \in 1..i[2] : <<i[1], clock>> \in items}

Text(document) == Integrated(document.items) \ document.deleted

apply_update(document, update) ==
  [items   |-> document.items \cup update.items,
   deleted |-> document.deleted \cup update.deleted]

\* A state vector names, per client, the last integrated clock.
state_vector(document) == Integrated(document.items)

\* Deletions are not counted by a state vector: all of them go with every update.
\* What still waits for an earlier item, or for the item it deletes, does not.
encode_diff(document, vector) ==
  [items   |-> Integrated(document.items) \ vector,
   deleted |-> document.deleted \cap Integrated(document.items)]

\* The whole document goes, with what still waits.
encode_state(document) == document

\* Bound: of the operations that are run, one inserts an item or deletes one.
Edits(document, client, bound) ==
  LET next == {<<client, clock>> : clock \in
                 {k \in 1..bound : /\ <<client, k>> \notin document.items
                                   /\ \A j \in 1..(k - 1) : <<client, j>> \in document.items}}
  IN   {[document EXCEPT !.items = @ \cup {item}] : item \in next}
  \cup {[document EXCEPT !.deleted = @ \cup {item}] : item \in Text(document)}

\* Where the origin stands: what a state written now need not be told again.
Standing == [document |-> documents, sent |-> Len(sent), unsent |-> unsent]

\* A text of the replica's own has joined no document of the origin.
Alone == [document |-> 0, sent |-> 0, unsent |-> 0]

Opened(document, standing) ==
  [document |-> document, joined |-> standing, told |-> {}, erased |-> {}]

Integrate(b, update) == [b EXCEPT !.document = apply_update(@, update)]

Tell(b, n) == [Integrate(b, sent[n].update) EXCEPT !.told = @ \cup {n}]

Own(document) == {item \in document.items : item[1] = 0}

OwnEdits(b) ==
  {e \in {[b EXCEPT !.document = edited, !.erased = @ \cup (edited.deleted \ b.document.deleted)] :
             edited \in Edits(b.document, 0, MaxOwn)} :
     Cardinality(Own(e.document) \cup e.erased) <= MaxOwn}

-----------------------------------------------------------------------------
(* The origin.  Its calls have the guard to themselves.                    *)

Changes == Len(sent) + unsent + documents - 1

Return(update, text) == sent' = Append(sent, [update |-> update, leads |-> text])

\* Faulty: the state vector is taken after the operations have run.
apply_transaction_late ==
  /\ Changes < MaxChanges
  /\ origin' \in Edits(origin, documents, MaxItems)
  /\ Return(encode_diff(origin', state_vector(origin')), Text(origin'))
  /\ UNCHANGED <<documents, mail, unsent, replicaVars>>

\* The diff is from the state vector that was taken before the operations.
apply_transaction ==
  /\ Changes < MaxChanges
  /\ origin' \in Edits(origin, documents, MaxItems)
  /\ Return(encode_diff(origin', state_vector(origin)), Text(origin'))
  /\ UNCHANGED <<documents, mail, unsent, replicaVars>>

\* A save in the middle fails, or the async call is dropped while it awaits one:
\* the edits stay in the buffer and no update is returned.  apply_transactions
\* returns none in any case.
Unsent ==
  /\ Changes < MaxChanges /\ unsent' = unsent + 1
  /\ origin' \in Edits(origin, documents, MaxItems)
  /\ UNCHANGED <<documents, sent, mail, replicaVars>>

\* reset_file, add_file (load_all) of an open path, or drop_file and the next
\* get_file: the same path, but a new document, seeded with a text.
Reseed ==
  /\ Changes < MaxChanges /\ documents' = documents + 1
  /\ \E items \in {{}, {<<documents + 1, 1>>}} : origin' = [empty EXCEPT !.items = items]
  /\ UNCHANGED <<sent, mail, unsent, replicaVars>>

\* A peer's update reaches the origin, which hands it on as its own.  Bound: none
\* is of a buffer with an earlier document in it, whose items would wait there.
Relay ==
  /\ Changes < MaxChanges
  /\ \E update \in outbox :
       /\ \A item \in buffer.document.items : item[1] \in {0, documents}
       /\ origin' = apply_update(origin, update)
       /\ Return(update, Text(origin'))
  /\ UNCHANGED <<documents, mail, unsent, replicaVars>>

Post(update, reply) ==
  /\ Cardinality(mail) < MaxMail
  /\ mail' = mail \cup {[update |-> update, reply |-> reply, standing |-> Standing]}

\* The streamer yields the state of the resident buffer.
states ==
  /\ Post(encode_state(origin), FALSE)
  /\ UNCHANGED <<originVars, replicaVars>>

\* The origin answers a state vector, which may be old by now.
Answer ==
  /\ asked # None /\ asked' = None
  /\ Post(encode_diff(origin, asked), TRUE)
  /\ UNCHANGED <<originVars, kind, buffer, call, outbox, open>>

State == {m \in mail : ~m.reply}
Reply == mail \ State

-----------------------------------------------------------------------------
(* The page: each call up to its await, then what follows it.              *)

Begins(c, op, b) ==
  /\ kind = "page" /\ call[c] = None
  /\ call' = [call EXCEPT ![c] = [op |-> op, buffer |-> b]]
  /\ UNCHANGED <<originVars, kind, asked, outbox, open>>

Joins(c) == call[c] # None /\ call[c].op = "join"
Holds(c) == call[c] # None /\ call[c].op = "hold"

insert_file_from_state(c) ==
  \E m \in State :
    /\ Begins(c, "join", Opened(apply_update(empty, m.update), m.standing))
    /\ mail' = mail \ {m}
    /\ UNCHANGED buffer

\* A text of the page's own.
insert_file_from_string(c) ==
  /\ \E document \in {empty} \cup Edits(empty, 0, MaxOwn) :
       Begins(c, "join", Opened(document, Alone))
  /\ UNCHANGED <<mail, buffer>>

\* The buffer is out of the map while its save is awaited; without one there
\* the call returns an error and changes nothing.
Takes(c, b) ==
  /\ Begins(c, "hold", b)
  /\ buffer' = None
  /\ UNCHANGED mail

apply_update_to_file(c) ==
  buffer # None /\ \E n \in DOMAIN sent : Takes(c, Tell(buffer, n))

\* The page edits its own buffer, which nothing else sees meanwhile, and has no
\* update of it to send.  An error may leave none of the edits made.
write_transaction_to_file(c) ==
  buffer # None /\ \E b \in {buffer} \cup OwnEdits(buffer) : Takes(c, b)

\* The whole map is taken, this buffer with the others.
flush_all(c) ==
  buffer # None /\ Takes(c, buffer)

\* remove_file and wipe_state: a buffer that a call holds is not in the map, and
\* comes back with it.
remove_file ==
  /\ kind = "page" /\ buffer # None
  /\ buffer' = None /\ open' = FALSE
  /\ UNCHANGED <<originVars, mail, kind, call, asked, outbox>>

\* What follows the await, when the buffer goes into the map, over what is there.
Inserts(c) ==
  /\ call' = [call EXCEPT ![c] = None]
  /\ buffer' = call[c].buffer

\* A failed save of a buffer that was to be opened leaves the map as it is.
JoinReturned(c) ==
  /\ Joins(c)
  /\ \/ Inserts(c) /\ open' = TRUE
     \/ call' = [call EXCEPT ![c] = None] /\ UNCHANGED <<buffer, open>>
  /\ UNCHANGED <<originVars, mail, kind, asked, outbox>>

\* Faulty: a failed save ends the call before the buffer is put back.
ReturnedEarly(c) ==
  /\ Holds(c)
  /\ \/ Inserts(c)
     \/ call' = [call EXCEPT ![c] = None] /\ UNCHANGED buffer
  /\ UNCHANGED <<originVars, mail, kind, asked, outbox, open>>

\* The buffer that was taken is put back whether the save went well or not.
Returned(c) ==
  /\ Holds(c)
  /\ Inserts(c)
  /\ UNCHANGED <<originVars, mail, kind, asked, outbox, open>>

-----------------------------------------------------------------------------
(* The peer: from_state, or empty and the handshake; nothing is awaited.   *)

from_state ==
  /\ kind = "peer" /\ buffer = None
  /\ \E m \in State :
       /\ buffer' = Opened(apply_update(empty, m.update), m.standing)
       /\ mail' = mail \ {m}
  /\ UNCHANGED <<originVars, kind, call, asked, outbox, open>>

Empty ==
  /\ kind = "peer" /\ buffer = None
  /\ buffer' = Opened(empty, Alone)
  /\ UNCHANGED <<originVars, mail, kind, call, asked, outbox, open>>

\* Bound: one handshake at a time.
Ask ==
  /\ kind = "peer" /\ buffer # None /\ asked = None /\ Reply = {}
  /\ asked' = state_vector(buffer.document)
  /\ UNCHANGED <<originVars, mail, kind, buffer, call, outbox, open>>

\* Updates and edits may have come in between the question and the reply.
CatchUp ==
  /\ \E m \in Reply :
       /\ buffer' = [Integrate(buffer, m.update) EXCEPT !.joined = m.standing]
       /\ mail' = mail \ {m}
  /\ UNCHANGED <<originVars, kind, call, asked, outbox, open>>

Relayed ==
  /\ kind = "peer" /\ buffer # None
  /\ \E n \in DOMAIN sent : buffer' = Tell(buffer, n)
  /\ UNCHANGED <<originVars, mail, kind, call, asked, outbox, open>>

\* A peer edits its buffer and makes an update of it, as the origin does.
Edit ==
  /\ kind = "peer" /\ buffer # None
  /\ buffer' \in OwnEdits(buffer)
  /\ outbox' = outbox \cup {encode_diff(buffer'.document, state_vector(buffer.document))}
  /\ UNCHANGED <<originVars, mail, kind, call, asked, open>>

-----------------------------------------------------------------------------

Init ==
  /\ documents = 1 /\ sent = << >> /\ mail = {} /\ unsent = 0
  /\ \E items \in {{}, {<<1, 1>>}} : origin = [empty EXCEPT !.items = items]
  /\ kind \in {"page", "peer"} /\ buffer = None /\ open = FALSE
  /\ call = [c \in Calls |-> None] /\ asked = None /\ outbox = {}

Next ==
  \/ apply_transaction \/ Unsent \/ Reseed \/ Relay \/ states \/ Answer
  \/ \E c \in Calls : \/ insert_file_from_state(c) \/ insert_file_from_string(c)
                      \/ apply_update_to_file(c) \/ flush_all(c)
                      \/ write_transaction_to_file(c) \/ JoinReturned(c) \/ Returned(c)
  \/ remove_file
  \/ from_state \/ Empty \/ Ask \/ CatchUp \/ Relayed \/ Edit

Spec == Init /\ [][Next]_vars

-----------------------------------------------------------------------------
(* Properties *)

\* The buffer in the map joined the origin's present document and has integrated
\* all that was returned since, nothing of an earlier document among it.
Complete ==
  /\ buffer # None /\ buffer.joined.document = documents
  /\ \A item \in buffer.document.items : item[1] \in {0, documents}
  /\ (buffer.joined.sent + 1)..Len(sent) \subseteq buffer.told

\* "A replay or an out-of-order arrival still converges": a replica that was
\* seeded or caught up, and has integrated every update since, in whatever order
\* and however often, with edits of its own, flushes and joins in between, differs
\* from the origin by its own edits only, and by nothing once the origin has them,
\* as long as no edit of the origin went without an update since.  A page's edits
\* are in no update: its buffer stays apart from the origin by them.
Converges ==
  Complete /\ buffer.joined.unsent = unsent =>
    LET here == buffer.document
    IN  /\ Text(here) \ Own(here) \subseteq Text(origin)
        /\ Text(origin) \ (Own(here) \cup buffer.erased) \subseteq Text(here)
        /\ Own(here) \subseteq origin.items /\ here.deleted \subseteq origin.deleted
             => Text(here) = Text(origin)

\* "The buffer is always returned to the map, even on error" (browser_state.rs:184,
\* of an edit; :213 of an update): once a file was opened, only a call in progress
\* or remove_file keeps its buffer from being found.
AlwaysReturned ==
  open /\ (\A c \in Calls : ~Holds(c)) => buffer # None

(* What the documentation says, and the code does not do *)

\* "A replica applies it with apply_update to reach the identical state": after
\* the update of the last transaction, with none missing, a replica that has made
\* no edit has the text that the transaction led to.
UpdatesSuffice ==
  /\ Complete /\ Own(buffer.document) = {} /\ buffer.erased = {}
  /\ Len(sent) \in buffer.told /\ sent[Len(sent)].leads = Text(origin)
  => Text(buffer.document) = Text(origin)
==========================================================================
