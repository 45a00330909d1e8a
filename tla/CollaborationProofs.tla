------------------------ MODULE CollaborationProofs ------------------------
(***************************************************************************)
(* Proofs about Collaboration, for any number of calls and of documents,   *)
(* items, own edits, changes of the origin and states under way.           *)
(***************************************************************************)
EXTENDS Collaboration, TLAPS

\* What the origin has returned and what is under way.
CTypeOK ==
  /\ documents \in Nat \ {0} /\ unsent \in Nat
  /\ origin \in Document
  /\ sent \in Seq([update : Document, leads : SUBSET Item])
  /\ mail \subseteq [update : Document, reply : BOOLEAN, standing : Stand]
  /\ kind \in {"page", "peer"}
  /\ buffer \in Buffer \cup {None}
  /\ call \in [Calls -> Call \cup {None}]
  /\ asked \in (SUBSET Item) \cup {None}
  /\ outbox \subseteq Document
  /\ open \in BOOLEAN

\* x carries nothing of the origin's document that the origin does not have, but
\* for the deletions in gone.
Within(x, gone) ==
  /\ \A i \in x.items : i[1] <= documents /\ (i[1] = documents => i \in origin.items)
  /\ \A i \in x.deleted :
       i[1] <= documents /\ (i[1] = documents => i \in origin.deleted \cup gone)

\* A standing is one the origin has had.
Past(s) == s.document <= documents /\ s.sent <= Len(sent) /\ s.unsent <= unsent

\* What was carried to or from the origin is of the origin.
Carried ==
  /\ Within(origin, {})
  /\ \A n \in DOMAIN sent : Within(sent[n].update, {})
  /\ \A m \in mail : Within(m.update, {}) /\ Past(m.standing)

\* What the origin has returned since it stood at s.
Since(s) == (s.sent + 1)..Len(sent)

\* A document made of these items and deletions, of when the origin stood at s,
\* lacks nothing of it but what it has returned in updates since then.
Covers(items, deleted, s) ==
  s.document = documents /\ s.unsent = unsent =>
    /\ \A i \in origin.items : i \in items \/ \E n \in Since(s) : i \in sent[n].update.items
    /\ \A i \in origin.deleted : i \in deleted \/ \E n \in Since(s) : i \in sent[n].update.deleted

\* x has the n-th update integrated.
Has(x, n) == sent[n].update.items \subseteq x.items /\ sent[n].update.deleted \subseteq x.deleted

\* The history of a buffer tells of its document.
Knows(b) ==
  /\ Within(b.document, b.erased)
  /\ \A n \in b.told : n \in DOMAIN sent /\ Has(b.document, n)
  /\ Past(b.joined) /\ Covers(b.document.items, b.document.deleted, b.joined)

AllKnow ==
  /\ buffer # None => Knows(buffer)
  /\ \A c \in Calls : call[c] # None => Knows(call[c].buffer)

\* The peer's buffer has these items and deletions.
PeerHas(items, deleted) ==
  /\ kind = "peer" /\ buffer # None
  /\ items \subseteq buffer.document.items /\ deleted \subseteq buffer.document.deleted

\* What waits in the origin is the peer's own.
Waiting ==
  /\ \A i \in origin.items : i[1] # 0 => i \in Integrated(origin.items)
  /\ \A i \in origin.items : i[1] = 0 => PeerHas({i}, {})
  /\ \A i \in origin.deleted : i \in Integrated(origin.items) \/ PeerHas({}, {i})

\* The updates of a peer are of its own edits.
Outbox ==
  \A u \in outbox : PeerHas(u.items, u.deleted) /\ \A i \in u.items : i[1] = 0

\* States and replies, with the buffer that asked for them.
MailAgrees ==
  /\ \A m \in State : Covers(m.update.items, m.update.deleted, m.standing)
  /\ \A m \in Reply :
       /\ PeerHas({}, {})
       /\ Covers(m.update.items \cup buffer.document.items,
                 m.update.deleted \cup buffer.document.deleted, m.standing)
  /\ asked # None => PeerHas(asked, {})

\* A peer has no calls.
NoCalls == kind = "peer" => \A c \in Calls : call[c] = None

\* The inductive invariant.
IInv == /\ CTypeOK /\ Carried /\ AllKnow /\ Waiting /\ Outbox
        /\ MailAgrees /\ NoCalls /\ AlwaysReturned

---------------------------------------------------------------------------
\* An edit inserts the next item of its client, or deletes what is in the text.
LEMMA EditsEffect ==
  ASSUME NEW x \in Document, NEW k \in Nat, NEW bound \in Nat, NEW o \in Edits(x, k, bound)
  PROVE  /\ o \in Document
         /\ x.items \subseteq o.items /\ x.deleted \subseteq o.deleted
         /\ \A i \in o.items : \/ i \in x.items
                               \/ i \in Item /\ i[1] = k
                                  /\ \A j \in 1..(i[2] - 1) : <<k, j>> \in x.items
         /\ \A i \in o.deleted : i \in x.deleted \/ i \in Integrated(x.items)
<1> DEFINE clocks == {n \in 1..bound : /\ <<k, n>> \notin x.items
                                       /\ \A j \in 1..(n - 1) : <<k, j>> \in x.items}
           next == {<<k, clock>> : clock \in clocks}
<1>1. ASSUME NEW i \in next
      PROVE  i \in Item /\ i[1] = k /\ \A j \in 1..(i[2] - 1) : <<k, j>> \in x.items
  <2>1. PICK n \in clocks : i = <<k, n>>
    OBVIOUS
  <2>2. i[1] = k /\ i[2] = n /\ i \in Item
    BY <2>1 DEF Item
  <2> QED BY <2>2
<1>2. x = [items |-> x.items, deleted |-> x.deleted]
      /\ x.items \subseteq Item /\ x.deleted \subseteq Item
  BY DEF Document
<1>3. \/ \E i \in next : o = [x EXCEPT !.items = @ \cup {i}]
      \/ \E i \in Text(x) : o = [x EXCEPT !.deleted = @ \cup {i}]
  BY DEF Edits
<1> HIDE DEF next
<1>4. CASE \E i \in next : o = [x EXCEPT !.items = @ \cup {i}]
  <2>1. PICK i \in next : o = [x EXCEPT !.items = @ \cup {i}]
    BY <1>4
  <2>2. o.items = x.items \cup {i} /\ o.deleted = x.deleted
        /\ o = [items |-> x.items \cup {i}, deleted |-> x.deleted]
    BY <1>2, <2>1
  <2> QED BY <1>1, <1>2, <2>2 DEF Document
<1>5. CASE \E i \in Text(x) : o = [x EXCEPT !.deleted = @ \cup {i}]
  <2>1. PICK i \in Text(x) : o = [x EXCEPT !.deleted = @ \cup {i}]
    BY <1>5
  <2>2. o.items = x.items /\ o.deleted = x.deleted \cup {i}
        /\ o = [items |-> x.items, deleted |-> x.deleted \cup {i}]
    BY <1>2, <2>1
  <2>3. i \in Integrated(x.items) /\ i \in Item
    BY <1>2 DEF Text, Integrated
  <2> QED BY <1>2, <2>2, <2>3 DEF Document
<1> QED BY <1>3, <1>4, <1>5

\* What is in the text stays in it when there are more items.
LEMMA IntegratedGrows ==
  ASSUME NEW a, NEW b, a \subseteq b PROVE Integrated(a) \subseteq Integrated(b)
  BY DEF Integrated

\* A diff carries what is in the text and not in the vector.
LEMMA DiffEffect ==
  ASSUME NEW x \in Document, NEW vector
  PROVE  /\ encode_diff(x, vector) \in Document
         /\ encode_diff(x, vector).items = Integrated(x.items) \ vector
         /\ encode_diff(x, vector).deleted = x.deleted \cap Integrated(x.items)
         /\ Integrated(x.items) \subseteq x.items
  BY DEF encode_diff, Document, Integrated

\* What applying an update does.
LEMMA ApplyEffect ==
  ASSUME NEW x \in Document, NEW y \in Document
  PROVE  /\ apply_update(x, y) \in Document
         /\ apply_update(x, y).items = x.items \cup y.items
         /\ apply_update(x, y).deleted = x.deleted \cup y.deleted
  BY DEF apply_update, Document

\* The same for a buffer.
LEMMA IntegrateEffect ==
  ASSUME NEW b \in Buffer, NEW u \in Document
  PROVE  /\ Integrate(b, u) \in Buffer
         /\ Integrate(b, u).document.items = b.document.items \cup u.items
         /\ Integrate(b, u).document.deleted = b.document.deleted \cup u.deleted
         /\ Integrate(b, u).joined = b.joined
         /\ Integrate(b, u).told = b.told
         /\ Integrate(b, u).erased = b.erased
<1> DEFINE x == apply_update(b.document, u)
<1>1. b.document \in Document
  BY DEF Buffer
<1>2. /\ x \in Document /\ x.items = b.document.items \cup u.items
      /\ x.deleted = b.document.deleted \cup u.deleted
  BY <1>1, ApplyEffect
<1>3. Integrate(b, u) = [b EXCEPT !.document = x]
  BY DEF Integrate
<1> HIDE DEF x
<1> QED BY <1>2, <1>3 DEF Buffer

LEMMA TellEffect ==
  ASSUME NEW b \in Buffer, NEW n \in Nat, sent[n].update \in Document
  PROVE  /\ Tell(b, n) \in Buffer
         /\ Tell(b, n).document.items = b.document.items \cup sent[n].update.items
         /\ Tell(b, n).document.deleted = b.document.deleted \cup sent[n].update.deleted
         /\ Tell(b, n).joined = b.joined
         /\ Tell(b, n).told = b.told \cup {n}
         /\ Tell(b, n).erased = b.erased
<1> DEFINE u == sent[n].update
           y == Integrate(b, u)
<1>1. u \in Document
  OBVIOUS
<1> HIDE DEF u
<1>2. /\ y \in Buffer /\ y.joined = b.joined /\ y.told = b.told /\ y.erased = b.erased
      /\ y.document.items = b.document.items \cup u.items
      /\ y.document.deleted = b.document.deleted \cup u.deleted
  BY <1>1, IntegrateEffect
<1>3. Tell(b, n) = [y EXCEPT !.told = @ \cup {n}]
  BY DEF Tell, u
<1> HIDE DEF y
<1>4. /\ Tell(b, n) \in Buffer /\ Tell(b, n).document = y.document /\ Tell(b, n).joined = y.joined
      /\ Tell(b, n).told = y.told \cup {n} /\ Tell(b, n).erased = y.erased
  BY <1>2, <1>3 DEF Buffer
<1> QED BY <1>2, <1>4 DEF u

\* An edit of the replica's own adds items of client 0, and what it deletes to erased.
LEMMA OwnEditsEffect ==
  ASSUME NEW b \in Buffer, NEW e \in OwnEdits(b)
  PROVE  /\ e \in Buffer
         /\ b.document.items \subseteq e.document.items
         /\ b.document.deleted \subseteq e.document.deleted
         /\ \A i \in e.document.items : i \in b.document.items \/ i[1] = 0
         /\ \A i \in e.document.deleted : \/ i \in b.document.deleted
                                          \/ i \in Integrated(b.document.items)
         /\ e.joined = b.joined /\ e.told = b.told
         /\ e.erased = b.erased \cup (e.document.deleted \ b.document.deleted)
<1>1. PICK x \in Edits(b.document, 0, MaxOwn) :
        e = [b EXCEPT !.document = x, !.erased = @ \cup (x.deleted \ b.document.deleted)]
  BY DEF OwnEdits
<1>2. b.document \in Document /\ MaxOwn \in Nat
  BY ConstantsAssumption DEF Buffer
<1>3. /\ x \in Document
      /\ b.document.items \subseteq x.items /\ b.document.deleted \subseteq x.deleted
      /\ \A i \in x.items : i \in b.document.items \/ i[1] = 0
      /\ \A i \in x.deleted : i \in b.document.deleted \/ i \in Integrated(b.document.items)
  BY <1>2, EditsEffect
<1>4. x.deleted \subseteq Item
  BY <1>3 DEF Document
<1>5. /\ e \in Buffer /\ e.document = x /\ e.joined = b.joined /\ e.told = b.told
      /\ e.erased = b.erased \cup (x.deleted \ b.document.deleted)
  BY <1>1, <1>3, <1>4 DEF Buffer
<1> QED BY <1>3, <1>5

\* What was returned are updates.
LEMMA SentUpdates == CTypeOK => \A n \in DOMAIN sent : n \in Nat /\ sent[n].update \in Document
<1> SUFFICES ASSUME CTypeOK, NEW n \in DOMAIN sent PROVE n \in Nat /\ sent[n].update \in Document
  OBVIOUS
<1> DEFINE R == [update : Document, leads : SUBSET Item]
<1>1. sent \in Seq(R)
  BY DEF CTypeOK
<1>2. \A r \in R : r.update \in Document
  OBVIOUS
<1> HIDE DEF R
<1>3. sent[n] \in R /\ n \in Nat
  BY <1>1
<1> QED BY <1>2, <1>3

---------------------------------------------------------------------------
\* The origin's own steps: its document grows, by what it returns as an update
\* if it counts no unsent edit, or is replaced by one of a higher number.
OriginStep == apply_transaction \/ Unsent \/ Reseed \/ Relay

Grown ==
  /\ documents' \in Nat \ {0} /\ unsent' \in Nat
  /\ origin' \in Document
  /\ sent' \in Seq([update : Document, leads : SUBSET Item])
  /\ documents <= documents' /\ unsent <= unsent' /\ Len(sent) <= Len(sent')
  /\ \A n \in DOMAIN sent : n \in DOMAIN sent' /\ sent'[n] = sent[n]
  /\ documents' = documents =>
       origin.items \subseteq origin'.items /\ origin.deleted \subseteq origin'.deleted

Informed ==
  documents' = documents /\ unsent' = unsent =>
    /\ \A i \in origin'.items : \/ i \in origin.items
                                \/ Len(sent') > Len(sent) /\ i \in sent'[Len(sent')].update.items
    /\ \A i \in origin'.deleted : \/ i \in origin.deleted
                                  \/ Len(sent') > Len(sent) /\ i \in sent'[Len(sent')].update.deleted

\* An edit of the origin by itself.
LEMMA OriginEdits ==
  ASSUME IInv, origin' \in Edits(origin, documents, MaxItems),
         UNCHANGED <<documents, kind, buffer>>
  PROVE  /\ origin' \in Document
         /\ origin.items \subseteq origin'.items /\ origin.deleted \subseteq origin'.deleted
         /\ Within(origin, {})'
         /\ Waiting'
         /\ \A i \in origin'.items : i \in origin.items \/ i \in Integrated(origin'.items)
         /\ \A i \in origin'.deleted : i \in origin.deleted \/ i \in Integrated(origin'.items)
<1>1. /\ documents \in Nat \ {0} /\ origin \in Document /\ MaxItems \in Nat
      /\ Within(origin, {}) /\ Waiting
  BY ConstantsAssumption DEF IInv, CTypeOK, Carried
<1>2. /\ origin' \in Document
      /\ origin.items \subseteq origin'.items /\ origin.deleted \subseteq origin'.deleted
      /\ \A i \in origin'.items :
           \/ i \in origin.items
           \/ i \in Item /\ i[1] = documents
              /\ \A j \in 1..(i[2] - 1) : <<documents, j>> \in origin.items
      /\ \A i \in origin'.deleted : i \in origin.deleted \/ i \in Integrated(origin.items)
  BY <1>1, EditsEffect
<1>3. Integrated(origin.items) \subseteq Integrated(origin'.items)
  BY <1>2, IntegratedGrows
<1>4. ASSUME NEW i \in origin'.items, i \notin origin.items
      PROVE  i[1] = documents /\ i \in Integrated(origin'.items)
  <2>1. i \in Item /\ i[1] = documents /\ \A j \in 1..(i[2] - 1) : <<documents, j>> \in origin.items
    BY <1>2, <1>4
  <2>2. i[2] \in Nat /\ i = <<documents, i[2]>>
    BY <2>1 DEF Item
  <2>3. ASSUME NEW clock \in 1..i[2] PROVE <<i[1], clock>> \in origin'.items
    <3>1. clock = i[2] \/ clock \in 1..(i[2] - 1)
      BY <2>2
    <3> QED BY <1>2, <1>4, <2>1, <2>2, <3>1
  <2> QED BY <2>1, <2>3 DEF Integrated
<1>5. \A i \in Integrated(origin.items) : i[1] <= documents
  BY <1>1 DEF Within, Integrated
<1>6. Within(origin, {})'
  BY <1>1, <1>2, <1>4, <1>5 DEF Within
<1>7. Waiting'
  <2>1. \A i \in origin'.items : i[1] # 0 => i \in Integrated(origin'.items)
    BY <1>1, <1>3, <1>4 DEF Waiting
  <2>2. \A i \in origin'.items : i[1] = 0 => PeerHas({i}, {})'
    BY <1>1, <1>4 DEF Waiting, PeerHas
  <2>3. \A i \in origin'.deleted : i \in Integrated(origin'.items) \/ PeerHas({}, {i})'
    BY <1>1, <1>2, <1>3 DEF Waiting, PeerHas
  <2> QED BY <2>1, <2>2, <2>3 DEF Waiting
<1> QED BY <1>2, <1>3, <1>4, <1>6, <1>7

\* What is appended to the updates.
LEMMA ReturnEffect ==
  ASSUME CTypeOK, NEW u \in Document, NEW text \in SUBSET Item, Return(u, text)
  PROVE  /\ sent' \in Seq([update : Document, leads : SUBSET Item])
         /\ Len(sent) \in Nat /\ Len(sent') = Len(sent) + 1
         /\ DOMAIN sent = 1..Len(sent) /\ DOMAIN sent' = 1..(Len(sent) + 1)
         /\ sent'[Len(sent')].update = u
         /\ \A n \in DOMAIN sent : sent'[n] = sent[n]
<1> DEFINE e == [update |-> u, leads |-> text]
<1>1. e \in [update : Document, leads : SUBSET Item] /\ e.update = u
  OBVIOUS
<1>2. sent' = Append(sent, e)
  BY DEF Return
<1> HIDE DEF e
<1> QED BY <1>1, <1>2 DEF CTypeOK

LEMMA OriginGrows ==
  ASSUME IInv, OriginStep
  PROVE  /\ UNCHANGED <<mail, kind, buffer, call, asked, outbox>>
         /\ Grown /\ Informed /\ Within(origin, {})' /\ Waiting'
         /\ \A n \in DOMAIN sent' \ DOMAIN sent : Within(sent[n].update, {})'
<1>1. /\ CTypeOK /\ Within(origin, {}) /\ Waiting
      /\ documents \in Nat \ {0} /\ unsent \in Nat /\ origin \in Document /\ Len(sent) \in Nat
      /\ sent \in Seq([update : Document, leads : SUBSET Item]) /\ DOMAIN sent = 1..Len(sent)
  BY DEF IInv, CTypeOK, Carried
<1>2. \A x \in Document : Text(x) \subseteq Item
  BY DEF Text, Integrated, Document
<1>3. CASE apply_transaction
  <2>1. /\ UNCHANGED <<mail, kind, buffer, call, asked, outbox, documents, unsent>>
        /\ origin' \in Edits(origin, documents, MaxItems)
    BY <1>3 DEF apply_transaction, replicaVars
  <2>2. /\ origin' \in Document
        /\ origin.items \subseteq origin'.items /\ origin.deleted \subseteq origin'.deleted
        /\ Within(origin, {})' /\ Waiting'
        /\ \A i \in origin'.items : i \in origin.items \/ i \in Integrated(origin'.items)
        /\ \A i \in origin'.deleted : i \in origin.deleted \/ i \in Integrated(origin'.items)
    BY <2>1, OriginEdits
  <2> DEFINE d == encode_diff(origin', state_vector(origin))
  <2>3. /\ d \in Document /\ d.items = Integrated(origin'.items) \ state_vector(origin)
        /\ d.deleted = origin'.deleted \cap Integrated(origin'.items)
        /\ Integrated(origin'.items) \subseteq origin'.items
    BY <2>2, DiffEffect
  <2>4. state_vector(origin) \subseteq origin.items
    BY DEF state_vector, Integrated
  <2>5. Return(d, Text(origin'))
    BY <1>3 DEF apply_transaction
  <2> HIDE DEF d
  <2>6. /\ sent' \in Seq([update : Document, leads : SUBSET Item])
        /\ Len(sent') = Len(sent) + 1
        /\ DOMAIN sent' = 1..(Len(sent) + 1)
        /\ sent'[Len(sent')].update = d
        /\ \A n \in DOMAIN sent : sent'[n] = sent[n]
    BY <1>1, <1>2, <2>2, <2>3, <2>5, ReturnEffect
  <2>7. Grown
    BY <1>1, <2>1, <2>2, <2>6 DEF Grown
  <2>8. Informed
    BY <1>1, <2>1, <2>2, <2>3, <2>4, <2>6 DEF Informed
  <2>9. \A n \in DOMAIN sent' \ DOMAIN sent : Within(sent[n].update, {})'
    BY <1>1, <2>2, <2>3, <2>6 DEF Within
  <2> QED BY <2>1, <2>2, <2>7, <2>8, <2>9
<1>4. CASE Unsent
  <2>1. /\ UNCHANGED <<mail, kind, buffer, call, asked, outbox, documents, sent>>
        /\ origin' \in Edits(origin, documents, MaxItems) /\ unsent' = unsent + 1
    BY <1>4 DEF Unsent, replicaVars
  <2>2. /\ origin' \in Document
        /\ origin.items \subseteq origin'.items /\ origin.deleted \subseteq origin'.deleted
        /\ Within(origin, {})' /\ Waiting'
    BY <2>1, OriginEdits
  <2> QED BY <1>1, <2>1, <2>2 DEF Grown, Informed
<1>5. CASE Reseed
  <2>1. UNCHANGED <<mail, kind, buffer, call, asked, outbox, unsent, sent>>
        /\ documents' = documents + 1
    BY <1>5 DEF Reseed, replicaVars
  <2>2. PICK items \in {{}, {<<documents + 1, 1>>}} : origin' = [empty EXCEPT !.items = items]
    BY <1>5 DEF Reseed
  <2>3. origin'.items = items /\ origin'.deleted = {} /\ origin' = [items |-> items, deleted |-> {}]
    BY <2>2 DEF empty
  <2>4. items \in SUBSET Item /\ \A i \in items : i[1] = documents + 1 /\ i = <<documents + 1, 1>>
    BY <1>1, <2>2 DEF Item
  <2>5. Within(origin, {})'
    BY <1>1, <2>1, <2>3, <2>4 DEF Within
  <2>6. origin' \in Document
    BY <2>3, <2>4 DEF Document
  <2>7. \A i \in items : i \in Integrated(items)
    BY <1>1, <2>4 DEF Integrated
  <2>8. Waiting'
    BY <1>1, <2>1, <2>3, <2>4, <2>7 DEF Waiting
  <2> QED BY <1>1, <2>1, <2>5, <2>6, <2>8 DEF Grown, Informed
<1>6. CASE Relay
  <2>1. UNCHANGED <<mail, kind, buffer, call, asked, outbox, documents, unsent>>
    BY <1>6 DEF Relay, replicaVars
  <2>2. PICK u \in outbox : origin' = apply_update(origin, u) /\ Return(u, Text(origin'))
    BY <1>6 DEF Relay
  <2>3. u \in Document /\ PeerHas(u.items, u.deleted) /\ \A i \in u.items : i[1] = 0
    BY DEF IInv, CTypeOK, Outbox
  <2>4. /\ origin' \in Document /\ origin'.items = origin.items \cup u.items
        /\ origin'.deleted = origin.deleted \cup u.deleted
    BY <1>1, <2>2, <2>3, ApplyEffect
  <2>5. /\ sent' \in Seq([update : Document, leads : SUBSET Item])
        /\ Len(sent') = Len(sent) + 1
        /\ DOMAIN sent' = 1..(Len(sent) + 1)
        /\ sent'[Len(sent')].update = u
        /\ \A n \in DOMAIN sent : sent'[n] = sent[n]
    BY <1>1, <1>2, <2>2, <2>3, <2>4, ReturnEffect
  <2>6. \A i \in u.deleted : i[1] <= documents
    BY <2>3 DEF IInv, AllKnow, Knows, Within, PeerHas
  <2>7. Within(origin, {})' /\ Within(u, {})'
    BY <1>1, <2>1, <2>3, <2>4, <2>6 DEF Within
  <2>8. Waiting'
    <3>1. Integrated(origin.items) \subseteq Integrated(origin'.items)
      BY <2>4, IntegratedGrows
    <3>2. \A i \in origin'.items : i[1] # 0 => i \in Integrated(origin'.items)
      BY <1>1, <2>3, <2>4, <3>1 DEF Waiting
    <3>3. \A i \in origin'.items : i[1] = 0 => PeerHas({i}, {})'
      BY <1>1, <2>1, <2>3, <2>4 DEF Waiting, PeerHas
    <3>4. \A i \in origin'.deleted : i \in Integrated(origin'.items) \/ PeerHas({}, {i})'
      BY <1>1, <2>1, <2>3, <2>4, <3>1 DEF Waiting, PeerHas
    <3> QED BY <3>2, <3>3, <3>4 DEF Waiting
  <2>9. \A n \in DOMAIN sent' \ DOMAIN sent : Within(sent[n].update, {})'
    BY <1>1, <2>5, <2>7 DEF Within
  <2> QED BY <1>1, <2>1, <2>4, <2>5, <2>7, <2>8, <2>9 DEF Grown, Informed
<1> QED BY <1>3, <1>4, <1>5, <1>6 DEF OriginStep

\* A step of the origin preserves the invariant: what it returns is what those
\* who have its document lack.
LEMMA OriginStepInv == ASSUME IInv, OriginStep PROVE IInv'
<1>1. /\ UNCHANGED <<mail, kind, buffer, call, asked, outbox>>
      /\ Within(origin, {})' /\ Waiting'
      /\ \A n \in DOMAIN sent' \ DOMAIN sent : Within(sent[n].update, {})'
  BY OriginGrows
<1>2. /\ documents' \in Nat \ {0} /\ unsent' \in Nat
      /\ origin' \in Document
      /\ sent' \in Seq([update : Document, leads : SUBSET Item])
      /\ documents <= documents' /\ unsent <= unsent' /\ Len(sent) <= Len(sent')
      /\ \A n \in DOMAIN sent : n \in DOMAIN sent' /\ sent'[n] = sent[n]
      /\ documents' = documents =>
           origin.items \subseteq origin'.items /\ origin.deleted \subseteq origin'.deleted
  BY OriginGrows DEF Grown
<1>3. documents' = documents /\ unsent' = unsent =>
        /\ \A i \in origin'.items : \/ i \in origin.items
                                    \/ Len(sent') > Len(sent) /\ i \in sent'[Len(sent')].update.items
        /\ \A i \in origin'.deleted : \/ i \in origin.deleted
                                      \/ Len(sent') > Len(sent) /\ i \in sent'[Len(sent')].update.deleted
  BY OriginGrows DEF Informed
<1>4. open' = open
  BY Zenon DEF OriginStep, apply_transaction, Unsent, Reseed, Relay, replicaVars
<1>5. /\ documents \in Nat \ {0} /\ unsent \in Nat /\ Len(sent) \in Nat /\ Len(sent') \in Nat
      /\ DOMAIN sent = 1..Len(sent) /\ DOMAIN sent' = 1..Len(sent')
  BY <1>2 DEF IInv, CTypeOK
<1>6. CTypeOK'
  <2>1. open' \in BOOLEAN
    BY <1>4, Zenon DEF IInv, CTypeOK
  <2> QED BY <1>1, <1>2, <2>1 DEF IInv, CTypeOK
<1>7. ASSUME NEW x \in Document, NEW gone, Within(x, gone) PROVE Within(x, gone)'
  <2>1. x.items \subseteq Item /\ x.deleted \subseteq Item
    BY DEF Document
  <2>2. \A i \in Item : i[1] \in Nat
    BY DEF Item
  <2> QED BY <1>2, <1>5, <1>7, <2>1, <2>2 DEF Within
<1>8. ASSUME NEW s \in Stand, Past(s) PROVE Past(s)'
  <2>1. s.document \in Nat /\ s.sent \in Nat /\ s.unsent \in Nat
    BY DEF Stand
  <2> QED BY <1>2, <1>5, <1>8, <2>1 DEF Past
<1>9. ASSUME NEW items, NEW deleted, NEW s \in Stand, Past(s), Covers(items, deleted, s)
      PROVE  Covers(items, deleted, s)'
  <2> SUFFICES ASSUME s.document = documents', s.unsent = unsent'
               PROVE  /\ \A i \in origin'.items :
                           i \in items \/ \E n \in Since(s)' : i \in sent'[n].update.items
                      /\ \A i \in origin'.deleted :
                           i \in deleted \/ \E n \in Since(s)' : i \in sent'[n].update.deleted
    BY DEF Covers
  <2>1. s.document \in Nat /\ s.sent \in Nat /\ s.unsent \in Nat
    BY DEF Stand
  <2>2. documents' = documents /\ unsent' = unsent
    BY <1>2, <1>5, <1>9, <2>1 DEF Past
  <2>3. \A n \in Since(s) : n \in Since(s)' /\ sent'[n] = sent[n]
    BY <1>2, <1>5, <1>9, <2>1 DEF Past, Since
  <2>4. Len(sent') > Len(sent) => Len(sent') \in Since(s)'
    BY <1>2, <1>5, <1>9, <2>1 DEF Past, Since
  <2>5. \A i \in origin.items : i \in items \/ \E n \in Since(s) : i \in sent[n].update.items
    BY <1>9, <2>2 DEF Covers
  <2>6. \A i \in origin.deleted : i \in deleted \/ \E n \in Since(s) : i \in sent[n].update.deleted
    BY <1>9, <2>2 DEF Covers
  <2>7. \A i \in origin'.items : i \in items \/ \E n \in Since(s)' : i \in sent'[n].update.items
    BY <1>3, <2>2, <2>3, <2>4, <2>5
  <2>8. \A i \in origin'.deleted : i \in deleted \/ \E n \in Since(s)' : i \in sent'[n].update.deleted
    BY <1>3, <2>2, <2>3, <2>4, <2>6
  <2> QED BY <2>7, <2>8
<1>10. Carried'
  <2>1. \A n \in DOMAIN sent' : Within(sent[n].update, {})'
    <3>1. \A n \in DOMAIN sent : sent[n].update \in Document /\ Within(sent[n].update, {})
      BY SentUpdates DEF IInv, Carried
    <3>2. ASSUME NEW n \in DOMAIN sent PROVE Within(sent[n].update, {})'
      BY <1>2, <1>7, <3>1 DEF Within
    <3> QED BY <1>1, <3>2
  <2>2. \A m \in mail : Within(m.update, {})' /\ Past(m.standing)'
    BY <1>7, <1>8 DEF IInv, CTypeOK, Carried
  <2> QED BY <1>1, <2>1, <2>2 DEF Carried
<1>11. ASSUME NEW b \in Buffer, Knows(b) PROVE Knows(b)'
  <2>1. b.document \in Document /\ b.joined \in Stand
    BY DEF Buffer
  <2>2. Within(b.document, b.erased)' /\ Past(b.joined)'
    BY <1>7, <1>8, <1>11, <2>1 DEF Knows
  <2>3. Covers(b.document.items, b.document.deleted, b.joined)'
    BY <1>9, <1>11, <2>1 DEF Knows
  <2>4. \A n \in b.told : n \in DOMAIN sent' /\ Has(b.document, n)'
    BY <1>2, <1>11 DEF Knows, Has
  <2> QED BY <2>2, <2>3, <2>4 DEF Knows
<1>12. AllKnow'
  <2>1. ASSUME buffer' # None PROVE Knows(buffer)'
    <3>1. \A b : b = buffer => Knows(b)'
      BY <1>1, <1>11, <2>1 DEF IInv, CTypeOK, AllKnow
    <3> QED BY <1>1, <3>1 DEF Knows, Within, Past, Covers, Since, Has
  <2>2. ASSUME NEW c \in Calls, call'[c] # None PROVE Knows(call[c].buffer)'
    <3>1. call[c].buffer \in Buffer /\ Knows(call[c].buffer)
      BY <1>1, <2>2 DEF IInv, CTypeOK, Call, AllKnow
    <3>2. \A b : b = call[c].buffer => Knows(b)'
      BY <1>11, <3>1
    <3> QED BY <1>1, <3>2 DEF Knows, Within, Past, Covers, Since, Has
  <2> QED BY <2>1, <2>2 DEF AllKnow
<1>13. Outbox' /\ NoCalls'
  BY <1>1 DEF IInv, Outbox, NoCalls, PeerHas
<1>14. MailAgrees'
  <2>1. \A m \in mail : m.standing \in Stand /\ Past(m.standing)
    BY DEF IInv, CTypeOK, Carried
  <2>2. \A m \in State : Covers(m.update.items, m.update.deleted, m.standing)'
    <3>1. \A m \in State : m \in mail /\ Covers(m.update.items, m.update.deleted, m.standing)
      BY DEF IInv, MailAgrees, State
    <3> QED BY <1>9, <2>1, <3>1
  <2>3. ASSUME NEW m \in Reply
        PROVE  Covers(m.update.items \cup buffer.document.items,
                      m.update.deleted \cup buffer.document.deleted, m.standing)'
    <3> DEFINE items == m.update.items \cup buffer.document.items
               deleted == m.update.deleted \cup buffer.document.deleted
    <3>1. items' = items /\ deleted' = deleted
      BY <1>1
    <3>2. m \in mail /\ Covers(items, deleted, m.standing)
      BY DEF IInv, MailAgrees, Reply
    <3> HIDE DEF items, deleted
    <3>3. \A x, y : x = items /\ y = deleted => Covers(x, y, m.standing)'
      BY <1>9, <2>1, <3>2
    <3>4. Covers(items, deleted, m.standing)'
      BY <3>1, <3>3 DEF Covers
    <3> QED BY <3>4 DEF items, deleted
  <2> QED BY <1>1, <2>2, <2>3 DEF IInv, MailAgrees, PeerHas, State, Reply
<1>15. AlwaysReturned'
  <2>1. \A c \in Calls : Holds(c)' <=> Holds(c)
    BY <1>1 DEF Holds
  <2> QED BY <1>1, <1>4, <2>1, Zenon DEF IInv, AlwaysReturned
<1> QED BY <1>1, <1>6, <1>10, <1>12, <1>13, <1>14, <1>15 DEF IInv

---------------------------------------------------------------------------
\* A step of the replica or of the mail leaves the origin as it is; what it has
\* to show of what it changes.
LEMMA ReplicaStepInv ==
  ASSUME IInv, UNCHANGED <<documents, origin, sent, unsent, kind>>, CTypeOK',
         \A m \in mail' : m \in mail \/ (Within(m.update, {}) /\ Past(m.standing)),
         buffer' # None => Knows(buffer'),
         \A c \in Calls : call'[c] # None => call'[c] = call[c] \/ Knows(call'[c].buffer),
         kind = "peer" /\ buffer # None =>
           /\ buffer' # None
           /\ buffer.document.items \subseteq buffer'.document.items
           /\ buffer.document.deleted \subseteq buffer'.document.deleted,
         NoCalls', Outbox', MailAgrees', AlwaysReturned'
  PROVE  IInv'
<1>1. Carried'
  BY DEF IInv, Carried, Within, Past
<1>2. \A b : Knows(b)' <=> Knows(b)
  BY DEF Knows, Within, Past, Covers, Since, Has
<1>3. AllKnow'
  <2>1. buffer' # None => Knows(buffer)'
    BY DEF Knows, Within, Past, Covers, Since, Has
  <2>2. ASSUME NEW c \in Calls, call'[c] # None PROVE Knows(call[c].buffer)'
    <3>1. Knows(call'[c].buffer)
      BY <2>2 DEF IInv, AllKnow
    <3> QED BY <3>1 DEF Knows, Within, Past, Covers, Since, Has
  <2> QED BY <2>1, <2>2 DEF AllKnow
<1>4. \A items, deleted : PeerHas(items, deleted) => PeerHas(items, deleted)'
  BY DEF PeerHas
<1>5. Waiting'
  <2>1. \A i : PeerHas({i}, {}) => PeerHas({i}, {})'
    BY <1>4
  <2>2. \A i : PeerHas({}, {i}) => PeerHas({}, {i})'
    BY <1>4
  <2> QED BY <2>1, <2>2 DEF IInv, Waiting
<1> QED BY <1>1, <1>3, <1>5 DEF IInv

\* What the origin writes now covers all of it, for who has what waits there.
LEMMA StandingNow == IInv => Standing \in Stand /\ Past(Standing)
<1> SUFFICES ASSUME IInv PROVE Standing \in Stand /\ Past(Standing)
  OBVIOUS
<1>1. documents \in Nat \ {0} /\ unsent \in Nat /\ Len(sent) \in Nat
  BY DEF IInv, CTypeOK
<1> QED BY <1>1 DEF Standing, Stand, Past

\* A new state or reply, that agrees with the buffer.
LEMMA MailStepInv ==
  ASSUME IInv, UNCHANGED <<documents, origin, sent, unsent, kind, buffer, call, outbox>>,
         open' = open, asked' \in {asked, None},
         NEW u \in Document, NEW reply \in BOOLEAN, Within(u, {}),
         mail' = mail \cup {[update |-> u, reply |-> reply, standing |-> Standing]},
         ~reply => Covers(u.items, u.deleted, Standing),
         reply => /\ PeerHas({}, {})
                  /\ Covers(u.items \cup buffer.document.items,
                            u.deleted \cup buffer.document.deleted, Standing)
  PROVE  IInv'
<1> DEFINE m == [update |-> u, reply |-> reply, standing |-> Standing]
<1>1. Standing \in Stand /\ Past(Standing)
  BY StandingNow
<1>2. /\ m \in [update : Document, reply : BOOLEAN, standing : Stand]
      /\ m.update = u /\ m.standing = Standing /\ m.reply = reply
  BY <1>1
<1>3. mail' = mail \cup {m}
  OBVIOUS
<1> HIDE DEF m
<1>4. CTypeOK'
  <2>1. open' \in BOOLEAN
    BY Zenon DEF IInv, CTypeOK
  <2>2. asked' \in (SUBSET Item) \cup {None}
    BY DEF IInv, CTypeOK
  <2> QED BY <1>2, <1>3, <2>1, <2>2 DEF IInv, CTypeOK
<1>5. \A items, deleted : PeerHas(items, deleted)' <=> PeerHas(items, deleted)
  BY DEF PeerHas
<1>6. MailAgrees'
  <2>1. \A x \in State' : Covers(x.update.items, x.update.deleted, x.standing)
    BY <1>2, <1>3 DEF IInv, MailAgrees, State
  <2>2. \A x \in Reply' :
          /\ PeerHas({}, {})
          /\ Covers(x.update.items \cup buffer.document.items,
                    x.update.deleted \cup buffer.document.deleted, x.standing)
    BY <1>2, <1>3 DEF IInv, MailAgrees, State, Reply
  <2>3. asked' # None => PeerHas(asked', {})
    BY DEF IInv, MailAgrees
  <2> QED BY <2>1, <2>2, <2>3 DEF MailAgrees, PeerHas, Covers, Since
<1>7. NoCalls' /\ Outbox'
  BY DEF IInv, NoCalls, Outbox, PeerHas
<1>8. AlwaysReturned'
  <2>1. \A c \in Calls : Holds(c)' <=> Holds(c)
    BY DEF Holds
  <2> QED BY <2>1, Zenon DEF IInv, AlwaysReturned
<1>9. /\ buffer' # None => Knows(buffer')
      /\ \A x \in mail' : x \in mail \/ (Within(x.update, {}) /\ Past(x.standing))
  BY <1>1, <1>2, <1>3 DEF IInv, AllKnow
<1> QED BY <1>4, <1>6, <1>7, <1>8, <1>9, ReplicaStepInv

\* The streamer writes a state.
LEMMA StatesInv == ASSUME IInv, states PROVE IInv'
<1>1. /\ UNCHANGED <<documents, origin, sent, unsent, kind, buffer, call, outbox>>
      /\ asked' = asked
      /\ mail' = mail \cup {[update |-> origin, reply |-> FALSE, standing |-> Standing]}
  BY DEF states, Post, encode_state, originVars, replicaVars
<1>2. open' = open
  BY Zenon DEF states, replicaVars
<1>3. origin \in Document /\ Within(origin, {}) /\ Covers(origin.items, origin.deleted, Standing)
  BY DEF IInv, CTypeOK, Carried, Covers
<1> QED BY <1>1, <1>2, <1>3, MailStepInv

\* The origin's answer lacks what the peer has already, and what waits in the
\* origin, which is the peer's own.
LEMMA AnswerInv == ASSUME IInv, Answer PROVE IInv'
<1> DEFINE u == encode_diff(origin, asked)
<1>1. /\ UNCHANGED <<documents, origin, sent, unsent, kind, buffer, call, outbox>>
      /\ asked # None /\ asked' = None
      /\ mail' = mail \cup {[update |-> u, reply |-> TRUE, standing |-> Standing]}
  BY DEF Answer, Post, originVars
<1>2. open' = open
  BY Zenon DEF Answer
<1>3. origin \in Document /\ Within(origin, {}) /\ Waiting /\ PeerHas(asked, {})
  BY <1>1 DEF IInv, CTypeOK, Carried, MailAgrees
<1>4. /\ u \in Document /\ u.items = Integrated(origin.items) \ asked
      /\ u.deleted = origin.deleted \cap Integrated(origin.items)
      /\ Integrated(origin.items) \subseteq origin.items
  BY <1>3, DiffEffect
<1> HIDE DEF u
<1>5. Within(u, {})
  BY <1>3, <1>4 DEF Within
<1>6. Covers(u.items \cup buffer.document.items, u.deleted \cup buffer.document.deleted, Standing)
  BY <1>3, <1>4 DEF Covers, Waiting, PeerHas
<1>7. PeerHas({}, {})
  BY <1>3 DEF PeerHas
<1> QED BY <1>1, <1>2, <1>4, <1>5, <1>6, <1>7, MailStepInv

\* The peer asks with what it has.
LEMMA AskInv == ASSUME IInv, Ask PROVE IInv'
<1>1. /\ UNCHANGED <<documents, origin, sent, unsent, kind, mail, buffer, call, outbox>>
      /\ kind = "peer" /\ buffer # None /\ asked' = state_vector(buffer.document)
  BY DEF Ask, originVars
<1>2. open' = open
  BY Zenon DEF Ask
<1>3. asked' \subseteq buffer.document.items /\ asked' \subseteq Item
  BY <1>1 DEF state_vector, Integrated, IInv, CTypeOK, Buffer, Document
<1>4. CTypeOK'
  <2>1. open' \in BOOLEAN
    BY <1>2, Zenon DEF IInv, CTypeOK
  <2> QED BY <1>1, <1>3, <2>1 DEF IInv, CTypeOK
<1>5. MailAgrees'
  BY <1>1, <1>3 DEF IInv, MailAgrees, PeerHas, State, Reply, Covers, Since
<1>6. NoCalls' /\ Outbox'
  BY <1>1 DEF IInv, NoCalls, Outbox, PeerHas
<1>7. AlwaysReturned'
  BY <1>1 DEF AlwaysReturned
<1>8. buffer' # None => Knows(buffer')
  BY <1>1 DEF IInv, AllKnow
<1> QED BY <1>1, <1>4, <1>5, <1>6, <1>7, <1>8, ReplicaStepInv

---------------------------------------------------------------------------
\* A buffer with an update told knows as much.
LEMMA KnowsTold ==
  ASSUME IInv, NEW b \in Buffer, NEW n \in DOMAIN sent, Knows(b)
  PROVE  Tell(b, n) \in Buffer /\ Knows(Tell(b, n))
<1> DEFINE e == Tell(b, n)
<1>1. n \in Nat /\ sent[n].update \in Document /\ Within(sent[n].update, {})
  BY SentUpdates DEF IInv, Carried
<1>2. /\ e \in Buffer
      /\ e.document.items = b.document.items \cup sent[n].update.items
      /\ e.document.deleted = b.document.deleted \cup sent[n].update.deleted
      /\ e.joined = b.joined /\ e.told = b.told \cup {n} /\ e.erased = b.erased
  BY <1>1, TellEffect
<1> HIDE DEF e
<1>3. Within(e.document, e.erased)
  BY <1>1, <1>2 DEF Knows, Within
<1>4. \A k \in e.told : k \in DOMAIN sent /\ Has(e.document, k)
  BY <1>2 DEF Knows, Has
<1>5. Past(e.joined) /\ Covers(e.document.items, e.document.deleted, e.joined)
  BY <1>2 DEF Knows, Covers
<1> QED BY <1>2, <1>3, <1>4, <1>5 DEF Knows, e

\* So does one with an edit of the replica's own.
LEMMA KnowsOwn ==
  ASSUME IInv, NEW b \in Buffer, NEW e \in OwnEdits(b), Knows(b)
  PROVE  e \in Buffer /\ Knows(e)
<1>1. /\ e \in Buffer
      /\ b.document.items \subseteq e.document.items
      /\ b.document.deleted \subseteq e.document.deleted
      /\ \A i \in e.document.items : i \in b.document.items \/ i[1] = 0
      /\ \A i \in e.document.deleted : i \in b.document.deleted \/ i \in Integrated(b.document.items)
      /\ e.joined = b.joined /\ e.told = b.told
      /\ e.erased = b.erased \cup (e.document.deleted \ b.document.deleted)
  BY OwnEditsEffect
<1>2. documents \in Nat \ {0} /\ Integrated(b.document.items) \subseteq b.document.items
  BY DEF IInv, CTypeOK, Integrated
<1>3. Within(e.document, e.erased)
  BY <1>1, <1>2 DEF Knows, Within
<1>4. \A k \in e.told : k \in DOMAIN sent /\ Has(e.document, k)
  BY <1>1 DEF Knows, Has
<1>5. Past(e.joined) /\ Covers(e.document.items, e.document.deleted, e.joined)
  BY <1>1 DEF Knows, Covers
<1> QED BY <1>1, <1>3, <1>4, <1>5 DEF Knows

\* A buffer that was just opened.
LEMMA KnowsOpened ==
  ASSUME IInv, NEW x \in Document, NEW s \in Stand,
         Within(x, {}), Past(s), Covers(x.items, x.deleted, s)
  PROVE  Opened(x, s) \in Buffer /\ Knows(Opened(x, s))
<1> DEFINE b == Opened(x, s)
<1>1. b \in Buffer /\ b.document = x /\ b.joined = s /\ b.told = {} /\ b.erased = {}
  BY DEF Opened, Buffer
<1> HIDE DEF b
<1>2. Knows(b)
  BY <1>1 DEF Knows
<1> QED BY <1>1, <1>2 DEF b

\* From a state, or from a text of the replica's own.
LEMMA OpenedState ==
  ASSUME IInv, NEW m \in State
  PROVE  /\ Opened(apply_update(empty, m.update), m.standing) \in Buffer
         /\ Knows(Opened(apply_update(empty, m.update), m.standing))
<1> DEFINE x == apply_update(empty, m.update)
<1>1. /\ m.update \in Document /\ m.standing \in Stand /\ Within(m.update, {}) /\ Past(m.standing)
      /\ Covers(m.update.items, m.update.deleted, m.standing)
  BY DEF State, IInv, CTypeOK, Carried, MailAgrees
<1>2. empty \in Document /\ empty.items = {} /\ empty.deleted = {}
  BY DEF empty, Document
<1>3. /\ x \in Document /\ x.items = empty.items \cup m.update.items
      /\ x.deleted = empty.deleted \cup m.update.deleted
  BY <1>1, <1>2, ApplyEffect
<1> HIDE DEF x
<1>4. Within(x, {}) /\ Covers(x.items, x.deleted, m.standing)
  BY <1>1, <1>2, <1>3 DEF Within, Covers
<1>5. Opened(x, m.standing) \in Buffer /\ Knows(Opened(x, m.standing))
  BY <1>1, <1>3, <1>4, KnowsOpened
<1> QED BY <1>5 DEF x

LEMMA OpenedAlone ==
  ASSUME IInv, NEW x \in {empty} \cup Edits(empty, 0, MaxOwn)
  PROVE  Opened(x, Alone) \in Buffer /\ Knows(Opened(x, Alone))
<1>1. empty \in Document /\ empty.items = {} /\ empty.deleted = {}
  BY DEF empty, Document
<1>2. documents \in Nat \ {0} /\ unsent \in Nat /\ Len(sent) \in Nat /\ MaxOwn \in Nat
  BY ConstantsAssumption DEF IInv, CTypeOK
<1>3. /\ x \in Document /\ \A i \in x.items : i[1] = 0
      /\ x.deleted = {}
  <2>1. CASE x = empty
    BY <1>1, <2>1
  <2>2. CASE x \in Edits(empty, 0, MaxOwn)
    <3>1. /\ x \in Document
          /\ \A i \in x.items : i \in empty.items \/ i[1] = 0
          /\ \A i \in x.deleted : i \in empty.deleted \/ i \in Integrated(empty.items)
      <4>1. PICK y \in Document : y = empty
        BY <1>1
      <4>2. x \in Edits(y, 0, MaxOwn)
        BY <2>2, <4>1
      <4>3. /\ x \in Document
            /\ \A i \in x.items : i \in y.items \/ i[1] = 0
            /\ \A i \in x.deleted : i \in y.deleted \/ i \in Integrated(y.items)
        BY <1>2, <4>2, EditsEffect
      <4> QED BY <4>1, <4>3
    <3> QED BY <1>1, <3>1 DEF Integrated
  <2> QED BY <2>1, <2>2
<1>4. Alone \in Stand /\ Alone.document = 0 /\ Past(Alone)
  BY <1>2 DEF Alone, Stand, Past
<1>5. Within(x, {}) /\ Covers(x.items, x.deleted, Alone)
  BY <1>2, <1>3, <1>4 DEF Within, Covers
<1> QED BY <1>3, <1>4, <1>5, KnowsOpened

---------------------------------------------------------------------------
\* A page has no handshake and no updates of its own: a step of it has to show
\* what it puts in the map and in its calls.
LEMMA PageStepInv ==
  ASSUME IInv, kind = "page",
         UNCHANGED <<documents, origin, sent, unsent, kind, asked, outbox>>, mail' \subseteq mail,
         open' \in BOOLEAN,
         buffer' = None \/ (buffer' \in Buffer /\ Knows(buffer')),
         call' \in [Calls -> Call \cup {None}],
         \A c \in Calls : call'[c] # None => call'[c] = call[c] \/ Knows(call'[c].buffer),
         AlwaysReturned'
  PROVE  IInv'
<1>1. CTypeOK'
  BY DEF IInv, CTypeOK
<1>2. \A items, deleted : ~PeerHas(items, deleted)
  BY DEF PeerHas
<1>3. Reply = {} /\ asked = None /\ outbox = {}
  BY <1>2 DEF IInv, MailAgrees, Outbox
<1>4. Reply' = {} /\ State' \subseteq State
  BY <1>3 DEF Reply, State
<1>5. MailAgrees'
  BY <1>3, <1>4 DEF IInv, MailAgrees, Covers, Since
<1>6. Outbox' /\ NoCalls'
  BY <1>3 DEF Outbox, NoCalls
<1> QED BY <1>1, <1>5, <1>6, ReplicaStepInv

\* A call begins, up to its await: with a buffer to open, or with the one in the map.
LEMMA BeginsEffect ==
  ASSUME IInv, NEW c \in Calls, NEW op \in {"join", "hold"}, NEW b \in Buffer, Begins(c, op, b)
  PROVE  /\ UNCHANGED <<documents, origin, sent, unsent, kind, asked, outbox>> /\ kind = "page"
         /\ call' \in [Calls -> Call \cup {None}]
         /\ call'[c] # None /\ call'[c].buffer = b /\ call'[c].op = op
         /\ \A d \in Calls \ {c} : call'[d] = call[d]
         /\ call[c] = None
<1> DEFINE h == [op |-> op, buffer |-> b]
<1>1. h \in Call /\ h.op = op /\ h.buffer = b
  BY DEF Call
<1>2. h # None
  BY <1>1, NoneAssumption
<1>3. call' = [call EXCEPT ![c] = h] /\ call \in [Calls -> Call \cup {None}]
      /\ UNCHANGED <<documents, origin, sent, unsent, kind, asked, outbox>>
      /\ kind = "page" /\ call[c] = None
  BY DEF Begins, originVars, IInv, CTypeOK
<1> HIDE DEF h
<1> QED BY <1>1, <1>2, <1>3

LEMMA JoinBegins ==
  ASSUME IInv, NEW c \in Calls, NEW b \in Buffer, Knows(b), Begins(c, "join", b),
         mail' \subseteq mail, UNCHANGED buffer
  PROVE  IInv'
<1>1. /\ UNCHANGED <<documents, origin, sent, unsent, kind, asked, outbox>> /\ kind = "page"
      /\ call' \in [Calls -> Call \cup {None}]
      /\ call'[c] # None /\ call'[c].buffer = b /\ call'[c].op = "join"
      /\ \A d \in Calls \ {c} : call'[d] = call[d]
      /\ call[c] = None
  BY BeginsEffect
<1>2. open' = open /\ open' \in BOOLEAN
  BY Zenon DEF Begins, IInv, CTypeOK
<1>3. AlwaysReturned'
  <2>1. \A d \in Calls : Holds(d)' <=> Holds(d)
    BY <1>1 DEF Holds
  <2> QED BY <1>2, <2>1, Zenon DEF IInv, AlwaysReturned
<1>4. buffer' = None \/ (buffer' \in Buffer /\ Knows(buffer'))
  BY DEF IInv, CTypeOK, AllKnow
<1> QED BY <1>1, <1>2, <1>3, <1>4, PageStepInv

LEMMA TakesInv ==
  ASSUME IInv, NEW c \in Calls, NEW b \in Buffer, Knows(b), Takes(c, b)
  PROVE  IInv'
<1>1. Begins(c, "hold", b) /\ buffer' = None /\ mail' = mail
  BY DEF Takes
<1>2. /\ UNCHANGED <<documents, origin, sent, unsent, kind, asked, outbox>> /\ kind = "page"
      /\ call' \in [Calls -> Call \cup {None}]
      /\ call'[c] # None /\ call'[c].buffer = b /\ call'[c].op = "hold"
      /\ \A d \in Calls \ {c} : call'[d] = call[d]
  BY <1>1, BeginsEffect
<1>3. open' = open /\ open' \in BOOLEAN
  BY <1>1, Zenon DEF Begins, IInv, CTypeOK
<1>4. AlwaysReturned'
  <2>1. Holds(c)'
    BY <1>2 DEF Holds
  <2> QED BY <2>1 DEF AlwaysReturned
<1> QED BY <1>1, <1>2, <1>3, <1>4, PageStepInv

\* What each call takes or opens knows the origin.
LEMMA BeginInv ==
  ASSUME IInv, NEW c \in Calls,
         \/ insert_file_from_state(c) \/ insert_file_from_string(c)
         \/ apply_update_to_file(c) \/ flush_all(c) \/ write_transaction_to_file(c)
  PROVE  IInv'
<1>1. CASE insert_file_from_state(c)
  <2>1. PICK m \in State :
          /\ Begins(c, "join", Opened(apply_update(empty, m.update), m.standing))
          /\ mail' = mail \ {m} /\ UNCHANGED buffer
    BY <1>1 DEF insert_file_from_state
  <2>2. PICK b \in Buffer : b = Opened(apply_update(empty, m.update), m.standing) /\ Knows(b)
    BY OpenedState
  <2>3. Begins(c, "join", b) /\ mail' \subseteq mail /\ UNCHANGED buffer
    BY <2>1, <2>2
  <2> QED BY <2>2, <2>3, JoinBegins
<1>2. CASE insert_file_from_string(c)
  <2>1. PICK x \in {empty} \cup Edits(empty, 0, MaxOwn) : Begins(c, "join", Opened(x, Alone))
    BY <1>2 DEF insert_file_from_string
  <2>2. PICK b \in Buffer : b = Opened(x, Alone) /\ Knows(b)
    BY OpenedAlone
  <2>3. Begins(c, "join", b) /\ mail' \subseteq mail /\ UNCHANGED buffer
    BY <1>2, <2>1, <2>2 DEF insert_file_from_string
  <2> QED BY <2>2, <2>3, JoinBegins
<1>3. buffer # None => buffer \in Buffer /\ Knows(buffer)
  BY DEF IInv, CTypeOK, AllKnow
<1>4. CASE apply_update_to_file(c)
  <2>1. buffer # None /\ \E n \in DOMAIN sent : Takes(c, Tell(buffer, n))
    BY <1>4 DEF apply_update_to_file
  <2>2. PICK n \in DOMAIN sent : Takes(c, Tell(buffer, n))
    BY <2>1
  <2>3. PICK old \in Buffer : old = buffer /\ Knows(old)
    BY <1>3, <2>1
  <2>4. Tell(old, n) \in Buffer /\ Knows(Tell(old, n))
    BY <2>3, KnowsTold
  <2>5. PICK b \in Buffer : b = Tell(old, n) /\ Knows(b)
    BY <2>4
  <2>6. Takes(c, b)
    BY <2>2, <2>3, <2>5
  <2> QED BY <2>5, <2>6, TakesInv
<1>5. CASE flush_all(c)
  <2>1. PICK b \in Buffer : b = buffer /\ Knows(b)
    BY <1>3, <1>5 DEF flush_all
  <2>2. Takes(c, b)
    BY <1>5, <2>1 DEF flush_all
  <2> QED BY <2>1, <2>2, TakesInv
<1>6. CASE write_transaction_to_file(c)
  <2>1. PICK b \in {buffer} \cup OwnEdits(buffer) : buffer # None /\ Takes(c, b)
    BY <1>6 DEF write_transaction_to_file
  <2>2. PICK old \in Buffer : old = buffer /\ Knows(old)
    BY <1>3, <2>1
  <2>3. b = old \/ b \in OwnEdits(old)
    BY <2>1, <2>2
  <2>4. b \in Buffer /\ Knows(b)
    BY <2>2, <2>3, KnowsOwn
  <2> QED BY <2>1, <2>4, TakesInv
<1> QED BY <1>1, <1>2, <1>4, <1>5, <1>6

\* A peer has no call to return, and a page's calls return what they hold.
LEMMA CallReturns ==
  ASSUME IInv, NEW c \in Calls, Joins(c) \/ Holds(c), call' = [call EXCEPT ![c] = None]
  PROVE  /\ kind = "page" /\ call' \in [Calls -> Call \cup {None}]
         /\ call'[c] = None /\ \A d \in Calls \ {c} : call'[d] = call[d]
         /\ call[c].buffer \in Buffer /\ Knows(call[c].buffer) /\ call[c].buffer # None
<1>1. call \in [Calls -> Call \cup {None}] /\ call[c] # None /\ kind \in {"page", "peer"}
  BY DEF Joins, Holds, IInv, CTypeOK
<1>2. kind = "page" /\ call[c] \in Call /\ Knows(call[c].buffer)
  BY <1>1 DEF IInv, NoCalls, AllKnow
<1>3. call[c].buffer \in Buffer
  BY <1>2 DEF Call
<1> QED BY <1>1, <1>2, <1>3, NoneAssumption

\* A buffer goes into the map: opened, or put back.
LEMMA JoinReturnedInv == ASSUME IInv, NEW c \in Calls, JoinReturned(c) PROVE IInv'
<1>1. /\ UNCHANGED <<documents, origin, sent, unsent, kind, asked, outbox, mail>>
      /\ Joins(c) /\ call' = [call EXCEPT ![c] = None]
  BY DEF JoinReturned, Inserts, originVars
<1>2. /\ kind = "page" /\ call' \in [Calls -> Call \cup {None}]
      /\ call'[c] = None /\ \A d \in Calls \ {c} : call'[d] = call[d]
      /\ call[c].buffer \in Buffer /\ Knows(call[c].buffer) /\ call[c].buffer # None
  BY <1>1, CallReturns
<1>3. CASE Inserts(c) /\ open' = TRUE
  <2>1. buffer' = call[c].buffer
    BY <1>3 DEF Inserts
  <2>2. open' \in BOOLEAN
    BY <1>3, Zenon
  <2>3. AlwaysReturned'
    BY <1>2, <2>1 DEF AlwaysReturned
  <2> QED BY <1>1, <1>2, <2>1, <2>2, <2>3, PageStepInv
<1>4. CASE UNCHANGED <<buffer, open>>
  <2>1. open' = open /\ open' \in BOOLEAN
    BY <1>4, Zenon DEF IInv, CTypeOK
  <2>2. buffer' = None \/ (buffer' \in Buffer /\ Knows(buffer'))
    BY <1>4 DEF IInv, CTypeOK, AllKnow
  <2>3. AlwaysReturned'
    <3>1. ~Holds(c)' /\ ~Holds(c)
      BY <1>1, <1>2 DEF Holds, Joins
    <3>2. \A d \in Calls : Holds(d)' <=> Holds(d)
      BY <1>2, <3>1 DEF Holds
    <3>3. buffer' = buffer
      BY <1>4
    <3> QED BY <2>1, <3>2, <3>3, Zenon DEF IInv, AlwaysReturned
  <2> QED BY <1>1, <1>2, <2>1, <2>2, <2>3, PageStepInv
<1> QED BY <1>3, <1>4 DEF JoinReturned

LEMMA ReturnedInv == ASSUME IInv, NEW c \in Calls, Returned(c) PROVE IInv'
<1>1. /\ UNCHANGED <<documents, origin, sent, unsent, kind, asked, outbox, mail>>
      /\ Holds(c) /\ call' = [call EXCEPT ![c] = None] /\ buffer' = call[c].buffer
  BY DEF Returned, Inserts, originVars
<1>2. /\ kind = "page" /\ call' \in [Calls -> Call \cup {None}]
      /\ call'[c] = None /\ \A d \in Calls \ {c} : call'[d] = call[d]
      /\ call[c].buffer \in Buffer /\ Knows(call[c].buffer) /\ call[c].buffer # None
  BY <1>1, CallReturns
<1>3. open' \in BOOLEAN
  BY Zenon DEF Returned, IInv, CTypeOK
<1>4. AlwaysReturned'
  BY <1>1, <1>2 DEF AlwaysReturned
<1> QED BY <1>1, <1>2, <1>3, <1>4, PageStepInv

\* What is removed was not open any more.
LEMMA RemoveInv == ASSUME IInv, remove_file PROVE IInv'
<1>1. /\ UNCHANGED <<documents, origin, sent, unsent, kind, asked, outbox, mail, call>>
      /\ kind = "page" /\ buffer' = None
  BY DEF remove_file, originVars
<1>2. open' = FALSE
  BY Zenon DEF remove_file
<1>3. open' \in BOOLEAN /\ AlwaysReturned'
  BY <1>2, Zenon DEF AlwaysReturned
<1>4. call' \in [Calls -> Call \cup {None}] /\ \A c \in Calls : call'[c] = call[c]
  BY <1>1 DEF IInv, CTypeOK
<1> QED BY <1>1, <1>3, <1>4, PageStepInv

---------------------------------------------------------------------------
\* The buffer of a peer grows, and its updates are of what it has.
LEMMA PeerStepInv ==
  ASSUME IInv, kind = "peer",
         UNCHANGED <<documents, origin, sent, unsent, kind, call, asked>>, mail' \subseteq mail,
         open' = open, NEW b \in Buffer, buffer' = b, Knows(b),
         buffer # None => /\ buffer.document.items \subseteq b.document.items
                          /\ buffer.document.deleted \subseteq b.document.deleted,
         outbox' \subseteq Document,
         \A u \in outbox' : u \in outbox \/ /\ u.items \subseteq b.document.items
                                            /\ u.deleted \subseteq b.document.deleted
                                            /\ \A i \in u.items : i[1] = 0
  PROVE  IInv'
<1>1. b # None
  BY NoneAssumption
<1>2. CTypeOK'
  <2>1. open' \in BOOLEAN
    BY Zenon DEF IInv, CTypeOK
  <2> QED BY <2>1 DEF IInv, CTypeOK
<1>3. \A items, deleted : PeerHas(items, deleted) => PeerHas(items, deleted)'
  BY <1>1 DEF PeerHas
<1>4. Outbox'
  <2>1. \A u \in outbox' : PeerHas(u.items, u.deleted)' /\ \A i \in u.items : i[1] = 0
    BY <1>1, <1>3 DEF IInv, Outbox, PeerHas
  <2> QED BY <2>1 DEF Outbox, PeerHas
<1>5. MailAgrees'
  <2>1. State' \subseteq State /\ Reply' \subseteq Reply
    BY DEF State, Reply
  <2>2. \A m \in Reply : Covers(m.update.items \cup b.document.items,
                                m.update.deleted \cup b.document.deleted, m.standing)
    BY DEF IInv, MailAgrees, Covers, PeerHas
  <2>3. \A m \in Reply : PeerHas({}, {})'
    BY <1>3 DEF IInv, MailAgrees
  <2>4. asked' # None => PeerHas(asked, {})'
    BY <1>1 DEF IInv, MailAgrees, PeerHas
  <2> QED BY <2>1, <2>2, <2>3, <2>4 DEF IInv, MailAgrees, Covers, Since, PeerHas
<1>6. NoCalls' /\ AlwaysReturned'
  BY <1>1 DEF IInv, NoCalls, AlwaysReturned
<1> QED BY <1>1, <1>2, <1>4, <1>5, <1>6, ReplicaStepInv

\* A peer that has no buffer yet has asked for nothing and sent nothing.
LEMMA NothingYet ==
  ASSUME IInv, buffer = None PROVE asked = None /\ Reply = {} /\ outbox = {}
<1>1. \A items, deleted : ~PeerHas(items, deleted)
  BY DEF PeerHas
<1> QED BY <1>1 DEF IInv, MailAgrees, Outbox

\* What the peer integrates is from the origin, and leaves it knowing as much.
LEMMA PeerInv ==
  ASSUME IInv, from_state \/ Empty \/ CatchUp \/ Relayed \/ Edit PROVE IInv'
<1>1. /\ UNCHANGED <<documents, origin, sent, unsent, kind, call, asked>> /\ mail' \subseteq mail
  BY DEF from_state, Empty, CatchUp, Relayed, Edit, originVars
<1>2. open' = open
  BY Zenon DEF from_state, Empty, CatchUp, Relayed, Edit
<1>3. buffer # None => buffer \in Buffer /\ Knows(buffer)
  BY DEF IInv, CTypeOK, AllKnow
<1>4. outbox \subseteq Document
  BY DEF IInv, CTypeOK
<1>5. CASE from_state
  <2>1. PICK m \in State : buffer' = Opened(apply_update(empty, m.update), m.standing)
    BY <1>5 DEF from_state
  <2>2. PICK b \in Buffer : b = Opened(apply_update(empty, m.update), m.standing) /\ Knows(b)
    BY OpenedState
  <2>3. kind = "peer" /\ buffer = None /\ buffer' = b /\ outbox' = outbox
    BY <1>5, <2>1, <2>2 DEF from_state
  <2> QED BY <1>1, <1>2, <1>4, <2>2, <2>3, PeerStepInv
<1>6. CASE Empty
  <2>1. empty \in {empty} \cup Edits(empty, 0, MaxOwn)
    OBVIOUS
  <2>2. PICK b \in Buffer : b = Opened(empty, Alone) /\ Knows(b)
    BY <2>1, OpenedAlone
  <2>3. kind = "peer" /\ buffer = None /\ buffer' = b /\ outbox' = outbox
    BY <1>6, <2>2 DEF Empty
  <2> QED BY <1>1, <1>2, <1>4, <2>2, <2>3, PeerStepInv
<1>7. CASE CatchUp
  <2>1. PICK m \in Reply : buffer' = [Integrate(buffer, m.update) EXCEPT !.joined = m.standing]
    BY <1>7 DEF CatchUp
  <2>2. /\ m.update \in Document /\ m.standing \in Stand /\ Within(m.update, {}) /\ Past(m.standing)
        /\ PeerHas({}, {})
        /\ Covers(m.update.items \cup buffer.document.items,
                  m.update.deleted \cup buffer.document.deleted, m.standing)
    BY DEF Reply, IInv, CTypeOK, Carried, MailAgrees
  <2>3. kind = "peer" /\ buffer # None /\ outbox' = outbox
    BY <1>7, <2>2 DEF CatchUp, PeerHas
  <2>4. PICK old \in Buffer : old = buffer /\ Knows(old)
    BY <1>3, <2>3
  <2> DEFINE y == Integrate(old, m.update)
             b == [y EXCEPT !.joined = m.standing]
  <2>5. /\ y \in Buffer /\ y.told = old.told /\ y.erased = old.erased
        /\ y.document.items = old.document.items \cup m.update.items
        /\ y.document.deleted = old.document.deleted \cup m.update.deleted
    BY <2>2, IntegrateEffect
  <2>6. buffer' = b
    BY <2>1, <2>4
  <2> HIDE DEF y
  <2>7. b \in Buffer /\ b.document = y.document /\ b.joined = m.standing
        /\ b.told = y.told /\ b.erased = y.erased
    BY <2>2, <2>5 DEF Buffer
  <2> HIDE DEF b
  <2>8. Within(b.document, b.erased)
    BY <2>2, <2>4, <2>5, <2>7 DEF Knows, Within
  <2>9. \A k \in b.told : k \in DOMAIN sent /\ Has(b.document, k)
    BY <2>4, <2>5, <2>7 DEF Knows, Has
  <2>10. Past(b.joined) /\ Covers(b.document.items, b.document.deleted, b.joined)
    BY <2>2, <2>4, <2>5, <2>7 DEF Covers
  <2>11. Knows(b)
    BY <2>8, <2>9, <2>10 DEF Knows
  <2>12. /\ buffer.document.items \subseteq b.document.items
         /\ buffer.document.deleted \subseteq b.document.deleted
    BY <2>4, <2>5, <2>7
  <2> QED BY <1>1, <1>2, <1>4, <2>3, <2>6, <2>7, <2>11, <2>12, PeerStepInv
<1>8. CASE Relayed
  <2>1. kind = "peer" /\ buffer # None /\ outbox' = outbox
    BY <1>8 DEF Relayed
  <2>2. PICK n \in DOMAIN sent : buffer' = Tell(buffer, n)
    BY <1>8 DEF Relayed
  <2>3. PICK old \in Buffer : old = buffer /\ Knows(old)
    BY <1>3, <2>1
  <2>4. Tell(old, n) \in Buffer /\ Knows(Tell(old, n))
    BY <2>3, KnowsTold
  <2>5. n \in Nat /\ sent[n].update \in Document
    BY SentUpdates DEF IInv
  <2>6. /\ Tell(old, n).document.items = old.document.items \cup sent[n].update.items
        /\ Tell(old, n).document.deleted = old.document.deleted \cup sent[n].update.deleted
    BY <2>5, TellEffect
  <2>7. PICK b \in Buffer : b = Tell(old, n) /\ Knows(b)
    BY <2>4
  <2>8. /\ buffer' = b /\ buffer.document.items \subseteq b.document.items
        /\ buffer.document.deleted \subseteq b.document.deleted
    BY <2>2, <2>3, <2>6, <2>7
  <2> QED BY <1>1, <1>2, <1>4, <2>1, <2>7, <2>8, PeerStepInv
<1>9. CASE Edit
  <2>1. kind = "peer" /\ buffer # None /\ buffer' \in OwnEdits(buffer)
        /\ outbox' = outbox \cup {encode_diff(buffer'.document, state_vector(buffer.document))}
    BY <1>9 DEF Edit
  <2>2. PICK old \in Buffer : old = buffer /\ Knows(old)
    BY <1>3, <2>1
  <2>3. PICK b \in OwnEdits(old) : b = buffer'
    BY <2>1, <2>2
  <2>4. b \in Buffer /\ Knows(b)
    BY <2>2, KnowsOwn
  <2>5. /\ old.document.items \subseteq b.document.items
        /\ old.document.deleted \subseteq b.document.deleted
        /\ \A i \in b.document.items : i \in old.document.items \/ i[1] = 0
    BY OwnEditsEffect
  <2> DEFINE u == encode_diff(b.document, state_vector(old.document))
  <2>6. b.document \in Document
    BY <2>4 DEF Buffer
  <2>7. /\ u \in Document /\ u.items = Integrated(b.document.items) \ state_vector(old.document)
        /\ u.deleted \subseteq b.document.deleted
        /\ Integrated(b.document.items) \subseteq b.document.items
    BY <2>6, DiffEffect
  <2>8. outbox' = outbox \cup {u}
    BY <2>1, <2>2, <2>3
  <2> HIDE DEF u
  <2>9. ASSUME NEW i \in u.items PROVE i[1] = 0
    <3> SUFFICES ASSUME i[1] # 0 PROVE FALSE
      OBVIOUS
    <3>1. i \in b.document.items /\ \A clock \in 1..i[2] : <<i[1], clock>> \in b.document.items
      BY <2>7 DEF Integrated
    <3>2. \A clock \in 1..i[2] : <<i[1], clock>>[1] # 0
      OBVIOUS
    <3>3. i \in old.document.items /\ \A clock \in 1..i[2] : <<i[1], clock>> \in old.document.items
      BY <2>5, <3>1, <3>2
    <3>4. i \in state_vector(old.document)
      BY <3>3 DEF state_vector, Integrated
    <3> QED BY <2>7, <3>4
  <2>10. \A x \in outbox' : x \in outbox \/ /\ x.items \subseteq b.document.items
                                            /\ x.deleted \subseteq b.document.deleted
                                            /\ \A i \in x.items : i[1] = 0
    BY <2>7, <2>8, <2>9
  <2>11. outbox' \subseteq Document /\ buffer' = b
    BY <1>4, <2>3, <2>7, <2>8
  <2>12. /\ buffer.document.items \subseteq b.document.items
         /\ buffer.document.deleted \subseteq b.document.deleted
    BY <2>2, <2>5
  <2> QED BY <1>1, <1>2, <2>1, <2>4, <2>10, <2>11, <2>12, PeerStepInv
<1> QED BY <1>5, <1>6, <1>7, <1>8, <1>9

---------------------------------------------------------------------------
\* The initial state satisfies the invariant.
LEMMA InitInv == Init => IInv
<1> SUFFICES ASSUME Init PROVE IInv
  OBVIOUS
<1>1. /\ documents = 1 /\ sent = << >> /\ mail = {} /\ unsent = 0 /\ buffer = None /\ asked = None
      /\ kind \in {"page", "peer"} /\ outbox = {} /\ call = [c \in Calls |-> None]
  BY DEF Init
<1>2. open = FALSE
  BY Zenon DEF Init
<1>3. PICK items \in {{}, {<<1, 1>>}} : origin = [empty EXCEPT !.items = items]
  BY DEF Init
<1>4. origin = [items |-> items, deleted |-> {}] /\ origin.items = items /\ origin.deleted = {}
  BY <1>3 DEF empty
<1>5. items \in SUBSET Item /\ \A i \in items : i = <<1, 1>> /\ i[1] = 1
  BY <1>3 DEF Item
<1>6. origin \in Document /\ Within(origin, {})
  BY <1>1, <1>4, <1>5 DEF Document, Within
<1>7. CTypeOK
  <2>1. sent \in Seq([update : Document, leads : SUBSET Item])
    BY <1>1
  <2>2. open \in BOOLEAN
    BY <1>2, Zenon
  <2> QED BY <1>1, <1>6, <2>1, <2>2 DEF CTypeOK
<1>8. \A i \in origin.items : i \in Integrated(origin.items)
  BY <1>4, <1>5 DEF Integrated
<1>9. Carried /\ AllKnow /\ Waiting /\ Outbox /\ MailAgrees /\ NoCalls
  BY <1>1, <1>4, <1>5, <1>6, <1>8
  DEF Carried, AllKnow, Waiting, Outbox, MailAgrees, NoCalls, State, Reply
<1>10. AlwaysReturned
  BY <1>2, Zenon DEF AlwaysReturned
<1> QED BY <1>7, <1>9, <1>10 DEF IInv

\* Every step preserves the invariant.
LEMMA StepInv == IInv /\ [Next]_vars => IInv'
<1> SUFFICES ASSUME IInv, [Next]_vars PROVE IInv'
  OBVIOUS
<1>1. CASE UNCHANGED vars
  <2>1. UNCHANGED <<documents, origin, sent, unsent, mail, kind, buffer, call, asked, outbox>>
    BY <1>1 DEF vars, originVars, replicaVars
  <2>2. open' = open /\ open' \in BOOLEAN
    BY <1>1, Zenon DEF vars, replicaVars, IInv, CTypeOK
  <2>3. CTypeOK'
    BY <2>1, <2>2 DEF IInv, CTypeOK
  <2>4. MailAgrees' /\ Outbox' /\ NoCalls'
    BY <2>1 DEF IInv, MailAgrees, Outbox, NoCalls, State, Reply, Covers, Since, PeerHas
  <2>5. AlwaysReturned'
    <3>1. \A c \in Calls : Holds(c)' <=> Holds(c)
      BY <2>1 DEF Holds
    <3>2. buffer' = buffer
      BY <2>1
    <3> QED BY <2>2, <3>1, <3>2, Zenon DEF IInv, AlwaysReturned
  <2>6. buffer' # None => Knows(buffer')
    BY <2>1 DEF IInv, AllKnow
  <2> QED BY <2>1, <2>3, <2>4, <2>5, <2>6, ReplicaStepInv
<1>2. CASE Next
  BY <1>2, OriginStepInv, StatesInv, AnswerInv, BeginInv, JoinReturnedInv,
     ReturnedInv, RemoveInv, PeerInv, AskInv
  DEF Next, OriginStep
<1> QED BY <1>1, <1>2

\* The invariant holds in every reachable state.
LEMMA InductiveInv == Spec => []IInv
<1> QED BY InitInv, StepInv, PTL DEF Spec

\* Documents, updates, states under way and what the calls hold keep their types,
\* through every save that fails and every call that overlaps another.
THEOREM TypeCorrect == Spec => []CTypeOK
<1>1. IInv => CTypeOK
  BY DEF IInv
<1> QED BY <1>1, InductiveInv, PTL

\* A replica that was seeded or caught up from the origin's present document, and
\* has integrated every update since, in whatever order and however often, differs
\* from the origin by its own edits only, and by nothing once the origin has them:
\* what apply_transaction returns is a diff from the state vector taken before the
\* operations, and what a handshake leaves out is what the replica has.
THEOREM Converged == Spec => []Converges
<1>1. IInv => Converges
  <2> SUFFICES ASSUME IInv, Complete, buffer.joined.unsent = unsent PROVE Converges
    BY DEF Converges
  <2> DEFINE here == buffer.document
             own  == Own(here)
  <2>1. /\ buffer # None /\ buffer.joined.document = documents
        /\ \A i \in here.items : i[1] \in {0, documents}
        /\ \A n \in Since(buffer.joined) : n \in buffer.told
    BY DEF Complete, Since
  <2>2. Knows(buffer) /\ Within(origin, {}) /\ Waiting /\ documents \in Nat \ {0}
    BY <2>1 DEF IInv, AllKnow, Carried, CTypeOK
  <2>3. origin.items \subseteq here.items /\ origin.deleted \subseteq here.deleted
    BY <2>1, <2>2 DEF Knows, Has, Covers
  <2>4. \A i \in here.items : i \in own \/ i \in origin.items
    BY <2>1, <2>2 DEF Knows, Within, Own
  <2>5. Integrated(origin.items) \subseteq Integrated(here.items)
    BY <2>3, IntegratedGrows
  <2>6. \A i \in Integrated(here.items) : i \in here.items
    BY DEF Integrated
  <2>7. \A i \in here.items \ own : i \in Integrated(origin.items)
    BY <2>2, <2>4 DEF Waiting, Own
  <2>8. Text(here) \ own \subseteq Text(origin)
    BY <2>3, <2>6, <2>7 DEF Text
  <2>9. Text(origin) \ (own \cup buffer.erased) \subseteq Text(here)
    <3>1. ASSUME NEW i \in Text(origin), i \notin own, i \notin buffer.erased PROVE i \in Text(here)
      <4>1. i \in Integrated(here.items) /\ i \in here.items /\ i \notin origin.deleted
        BY <2>5, <2>6 DEF Text
      <4>2. i[1] = documents
        BY <2>1, <3>1, <4>1 DEF Own
      <4>3. i \notin here.deleted
        BY <2>2, <3>1, <4>1, <4>2 DEF Knows, Within
      <4> QED BY <4>1, <4>3 DEF Text
    <3> QED BY <3>1
  <2>10. ASSUME own \subseteq origin.items, here.deleted \subseteq origin.deleted
         PROVE  Text(here) = Text(origin)
    <3>1. here.items = origin.items
      BY <2>3, <2>4, <2>10
    <3>2. here.deleted = origin.deleted
      BY <2>3, <2>10
    <3> QED BY <3>1, <3>2 DEF Text
  <2> QED BY <2>8, <2>9, <2>10 DEF Converges
<1> QED BY <1>1, InductiveInv, PTL

\* Once a file was opened, its buffer is in the map or in a call that is going to
\* put it back, whatever its save does, until the file is removed.
THEOREM BufferReturned == Spec => []AlwaysReturned
<1>1. IInv => AlwaysReturned
  BY DEF IInv
<1> QED BY <1>1, InductiveInv, PTL
=============================================================================
