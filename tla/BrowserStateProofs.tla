------------------------ MODULE BrowserStateProofs ------------------------
(***************************************************************************)
(* Proofs about BrowserState, for any files, threshold and number of calls *)
(* that overlap, for any length of transactions and any bounds.            *)
(***************************************************************************)
EXTENDS BrowserState, IndexedDbProofs

Text == Seq(Nat) \ {<< >>}
File == [text : Text, ops_since_save : Nat]

\* Maps of buffers, whole or in part.
FileMap == UNION {[D -> File] : D \in SUBSET Paths}

InsertCall == [kind : {"insert"}, path : Paths, file : {f \in File : f.ops_since_save = 0}]
EditCall   == [kind : {"edit"}, path : Paths, file : File,
               rest : Seq(Nat \X {"char", "run"})]
FlushCall  == [kind : {"flush"}, path : Paths, files : FileMap, left : SUBSET Paths,
               asked : SUBSET (Paths \X File), seen : SUBSET (Paths \X File)]

Call == {Done} \cup InsertCall \cup EditCall \cup FlushCall

Request == Paths \X (Text \cup {NoFile})

\* A call of the store that awaits its read still has its arguments.
CallOK(x) ==
  /\ DOMAIN x = DOMAIN Idle
  /\ \/ x = Idle
     \/ x.awaits = "write"
     \/ \E d \in Calls : /\ x.op = d.op /\ x.from = d.from /\ x.to = d.to
                         /\ x.awaits = "read"

\* A flush of t's awaits the save of one of its buffers, and others after it.
FlushOK(x) ==
  x.kind = "flush" => /\ x.path \in DOMAIN x.files
                      /\ x.left \subseteq DOMAIN x.files \ {x.path}
                      /\ x.asked \subseteq x.seen

Types ==
  /\ store \in [Paths -> Text \cup {NoFile}]
  /\ queue \in Seq([owner : Tasks \cup Callers, requests : Seq(Request)])
  /\ \A c \in Callers : CallOK(call[c])
  /\ DOMAIN call = Callers
  /\ FILE_STATE \in FileMap
  /\ task \in [Tasks -> Call]
  /\ \A t \in Tasks : FlushOK(task[t])
  /\ edits \in 0..MaxEdits /\ calls \in 0..MaxCalls /\ faults \in 0..MaxFaults
  /\ closed \subseteq 1..edits /\ foreign \subseteq Paths /\ atRisk \subseteq Paths

\* The buffer whose save a call awaits.
Awaited(x) == IF x.kind = "flush" THEN x.files[x.path] ELSE x.file

OneEach(q) == \A i, j \in DOMAIN q : q[i].owner = q[j].owner => i = j

\* Every call in progress has one transaction in the queue, and that of a
\* session's call saves the buffer it awaits.
QueueAgrees ==
  /\ OneEach(queue)
  /\ \A e \in ToSet(queue) :
       /\ e.owner \in Tasks => /\ task[e.owner] # Done
                               /\ e.requests = Put(task[e.owner].path, Awaited(task[e.owner]))
       /\ e.owner \in Callers => call[e.owner] # Idle
  /\ \A t \in Tasks : task[t] # Done => \E e \in ToSet(queue) : e.owner = t
  /\ \A c \in Callers : call[c] # Idle => \E e \in ToSet(queue) : e.owner = c

-----------------------------------------------------------------------------
(* Every buffer there is: <<holder, path, file>>, where the holder is {} for *)
(* the map and {t} for the call t.                                           *)

Copy == (SUBSET Tasks) \X Paths \X File

KeptBy(x, t) ==
  IF x.kind \in {"insert", "edit"} THEN {<<{t}, x.path, x.file>>}
  ELSE IF x.kind = "flush" THEN {<<{t}, p, x.files[p]>> : p \in DOMAIN x.files}
  ELSE {}

InMap == {<<{}, p, FILE_STATE[p]>> : p \in open}
Copies == InMap \cup UNION {KeptBy(task[t], t) : t \in Tasks}

Stored == {store[p] : p \in Present(store)}
Requested == (UNION {{r[2] : r \in ToSet(e.requests)} : e \in ToSet(queue)}) \ {NoFile}
SeenBy(x) == IF x.kind = "flush" THEN {b[2].text : b \in x.seen} ELSE {}

\* The texts that were written, are to be, or that a flush has seen.
Known == Stored \cup Requested \cup UNION {SeenBy(task[t]) : t \in Tasks}

\* No two copies of one buffer.
Unique(C) == \A c, d \in C : Id(c[3].text) = Id(d[3].text) => c = d

\* The texts X are older than the copies C of their buffers.
Precede(X, C) ==
  \A x \in X, c \in C : Id(x) = Id(c[3].text) => IsPrefix(x, c[3].text)

\* All edits were made.
Within ==
  /\ \A c \in Copies : ToSet(c[3].text) \subseteq 1..edits /\ c[3].ops_since_save <= edits
  /\ \A x \in Known : ToSet(x) \subseteq 1..edits
  /\ \A t \in Tasks : task[t].kind = "edit" =>
       /\ \A i \in DOMAIN task[t].rest : task[t].rest[i][1] \in 1..edits
       /\ task[t].file.ops_since_save + Len(task[t].rest) <= edits

\* The copy f of p lacks in the tree what it has counted, if the tree has it
\* and p is not among those apart.
CountedIn(tree, apart, p, f) ==
  p \notin apart /\ tree[p] # NoFile /\ Id(tree[p]) = Id(f.text) =>
    /\ Len(f.text) - Len(tree[p]) = f.ops_since_save
    /\ f.ops_since_save < SAVE_THRESHOLD

Counted(p, f) == CountedIn(store, foreign \cup atRisk, p, f)

\* So it is of every copy whose save is not awaited.
Counts ==
  /\ \A p \in open : Counted(p, FILE_STATE[p])
  /\ \A t \in Tasks : task[t].kind = "flush" =>
       \A p \in DOMAIN task[t].files \ {task[t].path} : Counted(p, task[t].files[p])

\* Of two buffers at one path one was closed.
OneOpen ==
  \A p \in Paths : \A i, j \in BuffersAt(p) : i = j \/ i \in closed \/ j \in closed

Dead(x, p) == \E c \in x.seen : c[1] = p /\ Id(c[2].text) \in closed

\* What a flush has seen is still there and nothing else is at its path, or a
\* buffer of that path was closed.
SeenLive ==
  \A t \in Tasks : task[t].kind = "flush" =>
    \A b \in task[t].seen :
      Dead(task[t], b[1]) \/ BuffersAt(b[1]) = {Id(b[2].text)}

\* p is the path of a save of the session's that has the text in it.
Saving(p, text) ==
  \E e \in ToSet(queue) : e.owner \in Tasks /\ e.requests[1][1] = p /\ IsPrefix(text, e.requests[1][2])

\* The store has the text, or p is apart.
Settled(p, text) ==
  p \in foreign \cup atRisk \/ (store[p] # NoFile /\ IsPrefix(text, store[p]))

\* What a flush is asked for is settled, being saved, or still to be saved by it.
AskedAgrees ==
  \A t \in Tasks : task[t].kind = "flush" =>
    \A b \in task[t].asked :
      \/ Dead(task[t], b[1])
      \/ Settled(b[1], b[2].text)
      \/ Saving(b[1], b[2].text)
      \/ b[1] \in task[t].left /\ task[t].files[b[1]] = b[2]

DoneBy(x) == DOMAIN x.files \ ({x.path} \cup x.left)

\* What a flush has saved is settled, or a buffer of its path was closed.
DoneAgrees ==
  \A t \in Tasks : task[t].kind = "flush" =>
    \A p \in DoneBy(task[t]) :
      Settled(p, task[t].files[p].text) \/ \E j \in BuffersAt(p) : j \in closed

\* The inductive invariant, for the first properties and for flush_all's.
Base == /\ Types /\ QueueAgrees
        /\ Unique(Copies) /\ Precede(Known, Copies) /\ Within /\ Counts

IInv == Base /\ OneOpen /\ SeenLive /\ AskedAgrees /\ DoneAgrees

-----------------------------------------------------------------------------
(* Sequences.                                                              *)

LEMMA PrefixOfTexts ==
  ASSUME NEW s \in Text, NEW t \in Text, NEW u \in Text
  PROVE  /\ IsPrefix(s, s)
         /\ IsPrefix(s, t) => Id(s) = Id(t)
         /\ IsPrefix(s, t) /\ IsPrefix(t, u) => IsPrefix(s, u)
<1>1. Len(s) \in Nat \ {0} /\ Len(t) \in Nat \ {0} /\ Len(u) \in Nat \ {0}
  BY DEF Text
<1>2. s \in Seq(Nat) /\ t \in Seq(Nat) /\ u \in Seq(Nat)
  BY DEF Text
<1>3. IsPrefix(s, s)
  BY <1>2, PrefixByPlace
<1>4. ASSUME IsPrefix(s, t) PROVE Id(s) = Id(t)
  <2>1. s[1] = t[1]
    <3>1. 1 \in 1..Len(s)
      BY <1>1
    <3> QED BY <1>2, <1>4, <3>1, PrefixByPlace
  <2> QED BY <1>1, <1>2, <2>1 DEF Id
<1>5. ASSUME IsPrefix(s, t), IsPrefix(t, u) PROVE IsPrefix(s, u)
  <2>1. Len(s) <= Len(t) /\ \A i \in 1..Len(s) : s[i] = t[i]
    BY <1>2, <1>5, PrefixByPlace
  <2>2. Len(t) <= Len(u) /\ \A i \in 1..Len(t) : t[i] = u[i]
    BY <1>2, <1>5, PrefixByPlace
  <2>3. Len(s) <= Len(u) /\ \A i \in 1..Len(s) : s[i] = u[i]
    BY <1>1, <2>1, <2>2
  <2> QED BY <1>2, <2>3, PrefixByPlace
<1> QED BY <1>3, <1>4, <1>5

\* A longer text is begun by the shorter one.
LEMMA PrefixOfJoin ==
  ASSUME NEW s \in Text, NEW w \in Seq(Nat)
  PROVE  s \o w \in Text /\ IsPrefix(s, s \o w) /\ Len(s \o w) = Len(s) + Len(w)
<1>1. s \in Seq(Nat) /\ Len(s) \in Nat \ {0} /\ Len(w) \in Nat
  BY DEF Text
<1>2. s \o w \in Seq(Nat) /\ Len(s \o w) = Len(s) + Len(w)
  BY <1>1
<1>3. \A i \in 1..Len(s) : s[i] = (s \o w)[i]
  BY <1>1
<1>4. s \o w # << >>
  BY <1>1, <1>2
<1>5. IsPrefix(s, s \o w)
  <2> DEFINE t == s \o w
  <2>1. t \in Seq(Nat) /\ Len(s) <= Len(t)
    BY <1>1, <1>2
  <2>2. \A i \in 1..Len(s) : s[i] = t[i]
    BY <1>3
  <2> HIDE DEF t
  <2>3. IsPrefix(s, t)
    BY <1>1, <2>1, <2>2, PrefixByPlace
  <2> QED BY <2>3 DEF t
<1> QED BY <1>2, <1>4, <1>5 DEF Text

LEMMA IdOfText ==
  ASSUME NEW s \in Text, NEW n, ToSet(s) \subseteq 1..n
  PROVE  Id(s) \in 1..n
<1>1. 1 \in DOMAIN s /\ Id(s) = s[1]
  BY DEF Text, Id
<1> QED BY <1>1 DEF ToSet

\* Keystrokes among the first n edits.
LEMMA CharsOf ==
  ASSUME NEW todo \in Seq(Nat \X {"char", "run"}), NEW n \in 0..Len(todo)
  PROVE  LET chars == {i \in 1..n : todo[i][2] = "char"}
         IN  /\ Cardinality(chars) \in 0..n
             /\ (\A i \in 1..n : todo[i][2] # "run") => Cardinality(chars) = n
<1> DEFINE chars == {i \in 1..n : todo[i][2] = "char"}
<1>1. n \in Nat /\ IsFiniteSet(1..n) /\ Cardinality(1..n) = n
  <2>1. n \in Nat /\ n \in Int /\ 1 \in Int
    OBVIOUS
  <2>2. IsFiniteSet(1..n) /\ Cardinality(1..n) = IF 1 > n THEN 0 ELSE n - 1 + 1
    BY <2>1, FS_Interval
  <2> QED BY <2>1, <2>2
<1>2. chars \in SUBSET (1..n)
  OBVIOUS
<1>3. Cardinality(chars) \in Nat /\ Cardinality(chars) <= n
  <2> HIDE DEF chars
  <2> QED BY <1>1, <1>2, FS_Subset, FS_CardinalityType
<1>4. ASSUME \A i \in 1..n : todo[i][2] # "run" PROVE chars = 1..n
  <2>1. \A i \in 1..n : i \in DOMAIN todo /\ todo[i][2] \in {"char", "run"}
    BY <1>1
  <2> QED BY <1>4, <2>1
<1>5. (\A i \in 1..n : todo[i][2] # "run") => Cardinality(chars) = n
  BY <1>1, <1>4
<1>6. Cardinality(chars) \in 0..n
  <2> HIDE DEF chars
  <2> QED BY <1>1, <1>3
<1> QED BY <1>5, <1>6

\* The buffer in the middle of a transaction.
LEMMA EditedEffect ==
  ASSUME NEW f \in File, NEW todo \in Seq(Nat \X {"char", "run"}), NEW n \in 0..Len(todo)
  PROVE  LET g == Edited(f, todo, n)
         IN  /\ g \in File
             /\ IsPrefix(f.text, g.text)
             /\ Len(g.text) = Len(f.text) + n
             /\ ToSet(g.text) \subseteq ToSet(f.text) \cup {todo[i][1] : i \in DOMAIN todo}
             /\ g.ops_since_save \in f.ops_since_save..(f.ops_since_save + n)
             /\ (\A i \in 1..n : todo[i][2] # "run") => g.ops_since_save = f.ops_since_save + n
<1> DEFINE w == [i \in 1..n |-> todo[i][1]]
           c == Cardinality({i \in 1..n : todo[i][2] = "char"})
           g == Edited(f, todo, n)
<1>1. g = [text |-> f.text \o w, ops_since_save |-> f.ops_since_save + c]
  BY DEF Edited
<1>2. f.text \in Text /\ f.ops_since_save \in Nat
  BY DEF File
<1>3. n \in Nat /\ \A i \in 1..n : i \in DOMAIN todo /\ todo[i][1] \in Nat
  OBVIOUS
<1>4. w \in Seq(Nat) /\ Len(w) = n /\ DOMAIN w = 1..n
  BY <1>3
<1>5. c \in 0..n /\ ((\A i \in 1..n : todo[i][2] # "run") => c = n)
  BY CharsOf
<1>6. ToSet(f.text \o w) \subseteq ToSet(f.text) \cup {todo[i][1] : i \in DOMAIN todo}
  <2>1. f.text \in Seq(Nat)
    BY <1>2 DEF Text
  <2>2. ASSUME NEW i \in DOMAIN (f.text \o w)
        PROVE  \/ i \in DOMAIN f.text /\ (f.text \o w)[i] = f.text[i]
               \/ i - Len(f.text) \in DOMAIN todo /\ (f.text \o w)[i] = todo[i - Len(f.text)][1]
    <3>1. i \in 1..(Len(f.text) + n) /\ Len(f.text) \in Nat
      BY <1>3, <1>4, <2>1
    <3>2. CASE i <= Len(f.text)
      <4> HIDE DEF w
      <4> QED BY <1>4, <2>1, <3>1, <3>2
    <3>3. CASE i > Len(f.text)
      <4>1. i - Len(f.text) \in 1..n
        BY <1>3, <3>1, <3>3
      <4>2. (f.text \o w)[i] = w[i - Len(f.text)]
        <5> HIDE DEF w
        <5> QED BY <1>4, <2>1, <3>1, <3>3
      <4>3. w[i - Len(f.text)] = todo[i - Len(f.text)][1]
        BY <4>1
      <4> QED BY <1>3, <4>1, <4>2, <4>3
    <3> QED BY <3>1, <3>2, <3>3
  <2> HIDE DEF w
  <2> QED BY <2>2 DEF ToSet
<1>7. f.text \o w \in Text /\ IsPrefix(f.text, f.text \o w) /\ Len(f.text \o w) = Len(f.text) + n
  <2> HIDE DEF w
  <2> QED BY <1>2, <1>4, PrefixOfJoin
<1>8. f.ops_since_save + c \in Nat /\ f.ops_since_save + c \in f.ops_since_save..(f.ops_since_save + n)
  <2> HIDE DEF c
  <2> QED BY <1>2, <1>3, <1>5
<1> HIDE DEF w, c
<1>9. g \in File /\ g.text = f.text \o w /\ g.ops_since_save = f.ops_since_save + c
  BY <1>1, <1>7, <1>8 DEF File
<1> HIDE DEF g
<1>10. (\A i \in 1..n : todo[i][2] # "run") => g.ops_since_save = f.ops_since_save + n
  BY <1>5, <1>9
<1> QED BY <1>6, <1>7, <1>8, <1>9, <1>10 DEF g

\* A transaction up to its first save, or to its end.
LEMMA ApplyEffect ==
  ASSUME NEW f \in File, NEW todo \in Seq(Nat \X {"char", "run"})
  PROVE  LET d == ApplyUntilSave(f, todo)
         IN  /\ d.file \in File /\ d.saving \in BOOLEAN
             /\ d.rest \in Seq(Nat \X {"char", "run"})
             /\ IsPrefix(f.text, d.file.text)
             /\ ToSet(d.file.text) \subseteq ToSet(f.text) \cup {todo[i][1] : i \in DOMAIN todo}
             /\ \A i \in DOMAIN d.rest : \E j \in DOMAIN todo : d.rest[i] = todo[j]
             /\ d.file.ops_since_save + Len(d.rest) <= f.ops_since_save + Len(todo)
             /\ ~d.saving =>
                  /\ Len(d.file.text) - Len(f.text) = d.file.ops_since_save - f.ops_since_save
                  /\ f.ops_since_save < SAVE_THRESHOLD => d.file.ops_since_save < SAVE_THRESHOLD
<1> DEFINE saves == {n \in 1..Len(todo) : MustSave(Edited(f, todo, n), todo[n][2])}
           last  == IF saves = {} THEN Len(todo) ELSE Min(saves)
           d == ApplyUntilSave(f, todo)
           g == Edited(f, todo, last)
<1>1. d = [file |-> g, rest |-> SubSeq(todo, last + 1, Len(todo)), saving |-> saves # {}]
  BY DEF ApplyUntilSave
<1>2. Len(todo) \in Nat /\ f.ops_since_save \in Nat /\ Len(f.text) \in Nat
  BY DEF File, Text
<1>3. last \in 0..Len(todo) /\ (saves # {} => last \in saves)
  <2>1. saves \in SUBSET (1..Len(todo)) /\ saves \in SUBSET Nat
    OBVIOUS
  <2> HIDE DEF saves
  <2>2. CASE saves = {}
    BY <1>2, <2>2
  <2>3. CASE saves # {}
    <3>1. Min(saves) \in saves
      BY <2>1, <2>3, LeastIs
    <3>2. Min(saves) \in 1..Len(todo)
      BY <2>1, <3>1
    <3> QED BY <1>2, <2>3, <3>1, <3>2
  <2> QED BY <2>2, <2>3
<1> HIDE DEF last
<1>4. /\ g \in File
      /\ IsPrefix(f.text, g.text)
      /\ Len(g.text) = Len(f.text) + last
      /\ ToSet(g.text) \subseteq ToSet(f.text) \cup {todo[i][1] : i \in DOMAIN todo}
      /\ g.ops_since_save \in f.ops_since_save..(f.ops_since_save + last)
      /\ (\A i \in 1..last : todo[i][2] # "run") => g.ops_since_save = f.ops_since_save + last
  BY <1>3, EditedEffect
<1>5. /\ SubSeq(todo, last + 1, Len(todo)) \in Seq(Nat \X {"char", "run"})
      /\ Len(SubSeq(todo, last + 1, Len(todo))) = Len(todo) - last
      /\ \A i \in DOMAIN SubSeq(todo, last + 1, Len(todo)) :
           /\ last + i \in DOMAIN todo
           /\ SubSeq(todo, last + 1, Len(todo))[i] = todo[last + i]
  <2> DEFINE u == SubSeq(todo, last + 1, Len(todo))
  <2>1. u = [i \in 1..(Len(todo) - last) |-> todo[last + i]] /\ Len(u) = Len(todo) - last
    BY <1>2, <1>3
  <2>2. \A i \in 1..(Len(todo) - last) : last + i \in DOMAIN todo /\ todo[last + i] \in Nat \X {"char", "run"}
    BY <1>2, <1>3
  <2>3. Len(todo) - last \in Nat /\ DOMAIN u = 1..(Len(todo) - last)
    BY <1>2, <1>3, <2>1
  <2>4. u \in Seq(Nat \X {"char", "run"})
    <3> HIDE DEF u
    <3> QED BY <2>1, <2>2, <2>3
  <2> QED BY <2>1, <2>2, <2>3, <2>4
<1>6. ASSUME saves = {}
      PROVE  /\ Len(g.text) - Len(f.text) = g.ops_since_save - f.ops_since_save
             /\ f.ops_since_save < SAVE_THRESHOLD => g.ops_since_save < SAVE_THRESHOLD
  <2>1. last = Len(todo)
    BY <1>6 DEF last
  <2>2. \A n \in 1..Len(todo) : ~MustSave(Edited(f, todo, n), todo[n][2])
    BY <1>6
  <2>3. \A i \in 1..last : todo[i][2] # "run"
    BY <2>1, <2>2 DEF MustSave
  <2>4. g.ops_since_save = f.ops_since_save + last
    BY <1>4, <2>3
  <2>5. g.ops_since_save \in Nat /\ SAVE_THRESHOLD \in Nat
    BY <1>4, ConstantsAssumption DEF File
  <2>6. CASE last = 0
    <3> HIDE DEF g
    <3> QED BY <1>2, <1>4, <2>4, <2>6
  <2>7. CASE last # 0
    <3>1. last \in 1..Len(todo)
      BY <1>2, <1>3, <2>7
    <3>2. ~(g.ops_since_save >= SAVE_THRESHOLD)
      BY <2>2, <3>1 DEF MustSave
    <3> HIDE DEF g
    <3> QED BY <1>2, <1>3, <1>4, <2>4, <2>5, <3>2
  <2> QED BY <2>6, <2>7
<1>7. d.file = g /\ d.rest = SubSeq(todo, last + 1, Len(todo)) /\ d.saving = (saves # {})
  <2> HIDE DEF g, saves, d
  <2>1. d.file = g /\ d.rest = SubSeq(todo, last + 1, Len(todo))
    BY <1>1
  <2>2. d.saving = (saves # {})
    BY <1>1, Zenon
  <2> QED BY <2>1, <2>2, Zenon
<1> HIDE DEF g, saves, d
<1>8. d.file.ops_since_save + Len(d.rest) <= f.ops_since_save + Len(todo)
  <2>1. d.file.ops_since_save = g.ops_since_save /\ Len(d.rest) = Len(todo) - last
    BY <1>5, <1>7
  <2>2. last \in Nat /\ g.ops_since_save \in Nat /\ g.ops_since_save <= f.ops_since_save + last
    BY <1>2, <1>3, <1>4
  <2> QED BY <1>2, <2>1, <2>2
<1>9. \A i \in DOMAIN d.rest : \E j \in DOMAIN todo : d.rest[i] = todo[j]
  BY <1>5, <1>7
<1>10. ~d.saving => saves = {}
  BY <1>7
<1>11. d.saving \in BOOLEAN
  BY <1>7
<1> QED BY <1>4, <1>5, <1>6, <1>7, <1>8, <1>9, <1>10, <1>11 DEF d

-----------------------------------------------------------------------------
(* The queue of transactions.                                              *)

Entry == [owner : Tasks \cup Callers, requests : Seq(Request)]

LEMMA QueueLess ==
  ASSUME NEW q \in Seq(Entry), OneEach(q), NEW i \in DOMAIN q
  PROVE  /\ RemoveAt(q, i) \in Seq(Entry) /\ OneEach(RemoveAt(q, i))
         /\ ToSet(RemoveAt(q, i)) = {e \in ToSet(q) : e.owner # q[i].owner}
<1> DEFINE r == RemoveAt(q, i)
           at(k) == IF k < i THEN k ELSE k + 1
<1>1. i \in 1..Len(q) /\ Len(q) \in Nat
  OBVIOUS
<1>2. r \in Seq(Entry) /\ DOMAIN r = 1..(Len(q) - 1)
  BY RemovedAt
<1>3. \A k \in DOMAIN r : at(k) \in DOMAIN q /\ at(k) # i /\ r[k] = q[at(k)]
  <2>1. \A k \in 1..(Len(q) - 1) : r[k] = IF k < i THEN q[k] ELSE q[k + 1]
    BY RemovedAt
  <2> HIDE DEF r
  <2> QED BY <1>1, <1>2, <2>1
<1>4. \A j \in DOMAIN q : j # i => \E k \in DOMAIN r : at(k) = j
  <2> SUFFICES ASSUME NEW j \in DOMAIN q, j # i PROVE \E k \in DOMAIN r : at(k) = j
    OBVIOUS
  <2> HIDE DEF r
  <2>1. j \in 1..Len(q)
    OBVIOUS
  <2>2. CASE j < i
    <3>1. j \in DOMAIN r /\ at(j) = j
      BY <1>1, <1>2, <2>1, <2>2
    <3> QED BY <3>1
  <2>3. CASE ~(j < i)
    <3>1. j - 1 \in DOMAIN r /\ at(j - 1) = j
      BY <1>1, <1>2, <2>1, <2>3
    <3> QED BY <3>1
  <2> QED BY <2>2, <2>3
<1>5. \A j, k \in DOMAIN r : at(j) = at(k) => j = k
  <2> HIDE DEF r
  <2> QED BY <1>1, <1>2
<1> HIDE DEF r, at
<1>6. OneEach(r)
  BY <1>3, <1>5 DEF OneEach
<1>7. ToSet(r) = {e \in ToSet(q) : e.owner # q[i].owner}
  BY <1>3, <1>4 DEF OneEach, ToSet
<1> QED BY <1>2, <1>6, <1>7 DEF r

LEMMA QueueMore ==
  ASSUME NEW q \in Seq(Entry), OneEach(q), NEW e \in Entry,
         \A x \in ToSet(q) : x.owner # e.owner
  PROVE  /\ Append(q, e) \in Seq(Entry) /\ OneEach(Append(q, e))
         /\ ToSet(Append(q, e)) = ToSet(q) \cup {e}
<1> DEFINE r == Append(q, e)
<1>1. /\ r \in Seq(Entry) /\ Len(r) = Len(q) + 1 /\ Len(q) \in Nat
      /\ \A i \in 1..Len(q) : r[i] = q[i]
      /\ r[Len(q) + 1] = e
  OBVIOUS
<1> HIDE DEF r
<1>2. DOMAIN r = 1..(Len(q) + 1) /\ DOMAIN q = 1..Len(q)
  BY <1>1
<1>3. \A i \in DOMAIN r : (i \in DOMAIN q /\ r[i] = q[i]) \/ (i = Len(q) + 1 /\ r[i] = e)
  BY <1>1, <1>2
<1>4. \A i \in DOMAIN q : i \in DOMAIN r /\ i # Len(q) + 1
  BY <1>1, <1>2
<1>5. Len(q) + 1 \in DOMAIN r
  BY <1>1, <1>2
<1>6. OneEach(r)
  BY <1>3 DEF OneEach, ToSet
<1>7. ToSet(r) = ToSet(q) \cup {e}
  BY <1>1, <1>3, <1>4, <1>5 DEF ToSet
<1> QED BY <1>1, <1>6, <1>7 DEF r

-----------------------------------------------------------------------------
(* What is committed, and what the store's operations ask for.             *)

\* A path holds what a request of the transaction puts there, if there is one.
LEMMA CommittedIs ==
  ASSUME NEW tree \in [Paths -> Text \cup {NoFile}], NEW requests \in Seq(Request)
  PROVE  /\ Committed(tree, requests) \in [Paths -> Text \cup {NoFile}]
         /\ Effect(tree, requests, Committed(tree, requests))
BY Commits DEF Request

\* A save.
LEMMA CommittedPut ==
  ASSUME NEW tree \in [Paths -> Text \cup {NoFile}], NEW p \in Paths, NEW x \in Text
  PROVE  /\ Committed(tree, << <<p, x>> >>) \in [Paths -> Text \cup {NoFile}]
         /\ \A q \in Paths : Committed(tree, << <<p, x>> >>)[q] = IF q = p THEN x ELSE tree[q]
<1> SUFFICES ASSUME NEW requests, requests = << <<p, x>> >>
             PROVE  /\ Committed(tree, requests) \in [Paths -> Text \cup {NoFile}]
                    /\ \A q \in Paths : Committed(tree, requests)[q] = IF q = p THEN x ELSE tree[q]
  OBVIOUS
<1>1. requests \in Seq(Request) /\ ToSet(requests) = {<<p, x>>}
  BY DEF Request, ToSet
<1>2. /\ Committed(tree, requests) \in [Paths -> Text \cup {NoFile}]
      /\ \A q \in Paths :
           \/ \E r \in ToSet(requests) : r[1] = q /\ Committed(tree, requests)[q] = r[2]
           \/ Committed(tree, requests)[q] = tree[q] /\ \A r \in ToSet(requests) : r[1] # q
  BY <1>1, CommittedIs DEF Effect
<1>3. \A q \in Paths : Committed(tree, requests)[q] = IF q = p THEN x ELSE tree[q]
  BY <1>1, <1>2
<1> QED BY <1>2, <1>3

\* What an operation asks for is what is stored, or to delete.
LEMMA Relay ==
  ASSUME Types, NEW d, IsOperation(d)
  PROVE  /\ Requests(d) \in Seq(Request)
         /\ \A r \in ToSet(Requests(d)) : r[2] = NoFile \/ \E p \in Paths : r[2] = store[p]
<1>1. NoFile \in Text \cup {NoFile} /\ store \in [Paths -> Text \cup {NoFile}]
  BY DEF Types
<1>2. Requests(d) \in Seq(Paths \X (Text \cup {NoFile})) /\ ToSet(Requests(d)) = Asked(d)
  BY <1>1, Asks
<1>3. \A r \in Asked(d) : r[2] = NoFile \/ \E p \in Paths : r[2] = store[p]
  BY Arguments DEF Asked, FileOps, Files, Present
<1> QED BY <1>2, <1>3 DEF Request

-----------------------------------------------------------------------------
(* Copies and their texts.                                                 *)

\* Every copy of D but a fresh one continues, by g, a copy of C that no other
\* does; the texts Y are of X, of copies of D, or of buffers that have none.
Descending(C, D, X, Y, n, F, g) ==
  /\ C \in SUBSET Copy /\ D \in SUBSET Copy /\ X \in SUBSET Text
  /\ Unique(C) /\ Precede(X, C)
  /\ \A c \in C : ToSet(c[3].text) \subseteq 1..n
  /\ \A x \in X : ToSet(x) \subseteq 1..n
  /\ F \in SUBSET D /\ \A d, e \in F : d = e
  /\ \A d \in F : Id(d[3].text) \notin 1..n
  /\ \A d \in D \ F : g[d] \in C /\ IsPrefix(g[d][3].text, d[3].text)
  /\ \A d, e \in D \ F : g[d] = g[e] => d = e
  /\ \A y \in Y : y \in X \/ (\E d \in D : y = d[3].text) \/ \A d \in D : Id(y) # Id(d[3].text)

\* When every copy but a fresh one descends from one of its own, no buffer has
\* two, and each continues what there was of it.
LEMMA Descent ==
  ASSUME NEW C, NEW D, NEW X, NEW Y, NEW n, NEW F, NEW g, Descending(C, D, X, Y, n, F, g)
  PROVE  /\ Unique(D) /\ Precede(Y, D)
         /\ \A c \in C, d \in D : Id(c[3].text) = Id(d[3].text) => IsPrefix(c[3].text, d[3].text)
<1> USE DEF Descending
<1>1. \A c \in C : c[3].text \in Text /\ Id(c[3].text) \in 1..n
  BY IdOfText DEF Copy, File
<1>2. \A d \in D : d[3].text \in Text
  BY DEF Copy, File
<1>3. \A x \in X : Id(x) \in 1..n
  BY IdOfText
<1>4. ASSUME NEW d \in D \ F
      PROVE  /\ g[d] \in C /\ IsPrefix(g[d][3].text, d[3].text)
             /\ Id(g[d][3].text) = Id(d[3].text)
  BY <1>1, <1>2, PrefixOfTexts
<1>5. ASSUME NEW c \in C, NEW d \in D, Id(c[3].text) = Id(d[3].text)
      PROVE  d \in D \ F /\ c = g[d]
  <2>1. d \in D \ F
    BY <1>1, <1>5
  <2> QED BY <1>4, <1>5, <2>1 DEF Unique
<1>6. Unique(D)
  <2> SUFFICES ASSUME NEW d \in D, NEW e \in D, Id(d[3].text) = Id(e[3].text)
               PROVE  d = e
    BY DEF Unique
  <2>1. CASE d \in F /\ e \in F
    BY <2>1
  <2>2. CASE d \in D \ F
    <3>1. e \in D \ F /\ g[d] = g[e]
      BY <1>4, <1>5, <2>2
    <3> QED BY <2>2, <3>1
  <2>3. CASE e \in D \ F
    <3>1. d \in D \ F /\ g[d] = g[e]
      BY <1>4, <1>5, <2>3
    <3> QED BY <2>3, <3>1
  <2> QED BY <2>1, <2>2, <2>3
<1>7. \A c \in C, d \in D : Id(c[3].text) = Id(d[3].text) => IsPrefix(c[3].text, d[3].text)
  BY <1>4, <1>5
<1>8. ASSUME NEW y \in Y, NEW d \in D, Id(y) = Id(d[3].text)
      PROVE  IsPrefix(y, d[3].text)
  <2>1. CASE y \in X
    <3>1. d \in D \ F
      BY <1>3, <1>8, <2>1
    <3>2. Id(y) = Id(g[d][3].text) /\ g[d] \in C
      BY <1>4, <1>8, <3>1
    <3>3. IsPrefix(y, g[d][3].text)
      BY <2>1, <3>2 DEF Precede
    <3> QED BY <1>1, <1>2, <1>4, <2>1, <3>1, <3>2, <3>3, PrefixOfTexts
  <2>2. CASE \E e \in D : y = e[3].text
    <3>1. PICK e \in D : y = e[3].text
      BY <2>2
    <3>2. e = d
      BY <1>6, <1>8, <3>1 DEF Unique
    <3> QED BY <1>2, <3>1, <3>2, PrefixOfTexts
  <2> QED BY <1>8, <2>1, <2>2
<1> QED BY <1>6, <1>7, <1>8 DEF Precede

LEMMA MapTyped ==
  ASSUME NEW m \in FileMap
  PROVE  DOMAIN m \subseteq Paths /\ \A p \in DOMAIN m : m[p] \in File
BY DEF FileMap

LEMMA MapIs ==
  ASSUME NEW m, NEW D \in SUBSET Paths, m \in [D -> File]
  PROVE  m \in FileMap
BY DEF FileMap

LEMMA KeptTyped ==
  ASSUME NEW t \in Tasks, NEW x \in Call
  PROVE  KeptBy(x, t) \subseteq Copy
<1>1. CASE x = Done
  BY <1>1 DEF KeptBy, Done
<1>2. CASE x \in InsertCall \cup EditCall
  BY <1>2 DEF KeptBy, Copy, InsertCall, EditCall
<1>3. CASE x \in FlushCall
  <2>1. x.kind = "flush" /\ x.files \in FileMap
    BY <1>3 DEF FlushCall
  <2>2. DOMAIN x.files \subseteq Paths /\ \A p \in DOMAIN x.files : x.files[p] \in File
    BY <2>1, MapTyped
  <2> QED BY <2>1, <2>2 DEF KeptBy, Copy
<1> QED BY <1>1, <1>2, <1>3 DEF Call

LEMMA CopiesTyped ==
  ASSUME Types
  PROVE  Copies \in SUBSET Copy
<1>1. InMap \subseteq Copy
  <2>1. FILE_STATE \in FileMap
    BY DEF Types
  <2>2. open \subseteq Paths /\ \A p \in open : FILE_STATE[p] \in File
    BY <2>1, MapTyped DEF open
  <2> QED BY <2>2 DEF InMap, Copy
<1>2. \A t \in Tasks : KeptBy(task[t], t) \subseteq Copy
  BY KeptTyped DEF Types
<1> QED BY <1>1, <1>2 DEF Copies

\* Every transaction has an owner and requests.
LEMMA EntriesTyped ==
  ASSUME Types, NEW e \in ToSet(queue)
  PROVE  /\ e.owner \in Tasks \cup Callers /\ e.requests \in Seq(Request)
         /\ e \in Entry /\ e = Transaction(e.owner, e.requests)
<1>1. queue \in Seq(Entry)
  BY DEF Types, Entry
<1>2. PICK i \in DOMAIN queue : e = queue[i]
  BY DEF ToSet
<1>3. e \in Entry
  BY <1>1, <1>2
<1> QED BY <1>3 DEF Entry, Transaction

LEMMA KnownTyped ==
  ASSUME Types
  PROVE  Known \in SUBSET Text
<1>1. Stored \subseteq Text
  BY DEF Types, Stored, Present
<1>2. Requested \subseteq Text
  <2> SUFFICES ASSUME NEW y \in Requested PROVE y \in Text
    OBVIOUS
  <2>1. PICK e \in ToSet(queue) : y \in {r[2] : r \in ToSet(e.requests)}
    BY DEF Requested
  <2>2. PICK r \in ToSet(e.requests) : y = r[2]
    BY <2>1
  <2>3. e.requests \in Seq(Request)
    BY EntriesTyped
  <2>4. r \in Request
    BY <2>3 DEF ToSet
  <2>5. y # NoFile
    BY DEF Requested
  <2> QED BY <2>2, <2>4, <2>5 DEF Request
<1>3. \A t \in Tasks : SeenBy(task[t]) \subseteq Text
  <2> SUFFICES ASSUME NEW t \in Tasks, task[t].kind = "flush" PROVE SeenBy(task[t]) \subseteq Text
    BY DEF SeenBy
  <2>1. task[t] \in FlushCall
    BY DEF Types, Call, Done, InsertCall, EditCall
  <2> QED BY <2>1 DEF SeenBy, FlushCall, File
<1> QED BY <1>1, <1>2, <1>3 DEF Known

-----------------------------------------------------------------------------
(* How the queue and the calls change together.                            *)

\* A transaction is opened.
LEMMA Opened ==
  ASSUME Types, QueueAgrees, NEW owner \in Tasks \cup Callers, NEW requests \in Seq(Request),
         \A e \in ToSet(queue) : e.owner # owner,
         Open(owner, requests)
  PROVE  /\ queue' \in Seq(Entry) /\ OneEach(queue')
         /\ ToSet(queue') = ToSet(queue) \cup {Transaction(owner, requests)}
<1>1. queue \in Seq(Entry) /\ OneEach(queue)
  BY DEF Types, Entry, QueueAgrees
<1>2. Transaction(owner, requests) \in Entry /\ Transaction(owner, requests).owner = owner
  BY DEF Transaction, Entry
<1> QED BY <1>1, <1>2, QueueMore DEF Open

\* A transaction is answered, and its owner opens the next one or none.
LEMMA Replaced ==
  ASSUME Types, QueueAgrees, NEW i \in DOMAIN queue, NEW owner, queue[i].owner = owner,
         NEW requests \in Seq(Request),
         queue' = IF requests = << >> THEN RemoveAt(queue, i)
                  ELSE Append(RemoveAt(queue, i), Transaction(queue[i].owner, requests))
  PROVE  /\ queue' \in Seq(Entry) /\ OneEach(queue')
         /\ ToSet(queue') = {e \in ToSet(queue) : e.owner # owner}
                            \cup IF requests = << >> THEN {} ELSE {Transaction(owner, requests)}
<1> DEFINE q == RemoveAt(queue, i)
<1>1. queue \in Seq(Entry) /\ OneEach(queue)
  BY DEF Types, Entry, QueueAgrees
<1>2. /\ q \in Seq(Entry) /\ OneEach(q)
      /\ ToSet(q) = {e \in ToSet(queue) : e.owner # owner}
  BY <1>1, QueueLess
<1>3. queue[i] \in Entry
  BY <1>1
<1>4. Transaction(owner, requests) \in Entry /\ Transaction(owner, requests).owner = owner
  BY <1>3 DEF Transaction, Entry
<1> HIDE DEF q
<1>5. CASE requests = << >>
  BY <1>2, <1>5 DEF q
<1>6. CASE requests # << >>
  <2>1. \A x \in ToSet(q) : x.owner # Transaction(owner, requests).owner
    BY <1>2, <1>4
  <2>2. queue' = Append(q, Transaction(owner, requests))
    BY <1>6 DEF q
  <2>3. /\ Append(q, Transaction(owner, requests)) \in Seq(Entry)
        /\ OneEach(Append(q, Transaction(owner, requests)))
        /\ ToSet(Append(q, Transaction(owner, requests))) = ToSet(q) \cup {Transaction(owner, requests)}
    BY <1>2, <1>4, <2>1, QueueMore
  <2> QED BY <1>2, <1>6, <2>2, <2>3
<1> QED BY <1>5, <1>6

\* The call t becomes x, and its transaction with it.
Moved(t, x) ==
  /\ task' = [task EXCEPT ![t] = x] /\ call' = call
  /\ queue' \in Seq(Entry) /\ OneEach(queue')
  /\ ToSet(queue') = {e \in ToSet(queue) : e.owner # t}
                     \cup IF x = Done THEN {} ELSE {Transaction(t, Put(x.path, Awaited(x)))}

LEMMA MovedAgrees ==
  ASSUME Types, QueueAgrees, NEW t \in Tasks, NEW x, Moved(t, x)
  PROVE  QueueAgrees'
<1>1. task' = [task EXCEPT ![t] = x] /\ DOMAIN task = Tasks /\ call' = call
  BY DEF Types, Moved
<1>2. task'[t] = x /\ \A u \in Tasks : u # t => task'[u] = task[u]
  BY <1>1
<1>3. t \notin Callers
  BY ConstantsAssumption
<1>4. ASSUME NEW e \in ToSet(queue')
      PROVE  /\ e.owner \in Tasks => /\ task'[e.owner] # Done
                                     /\ e.requests = Put(task'[e.owner].path, Awaited(task'[e.owner]))
             /\ e.owner \in Callers => call'[e.owner] # Idle
  <2>1. CASE e \in ToSet(queue) /\ e.owner # t
    BY <1>1, <1>2, <2>1 DEF QueueAgrees
  <2>2. CASE x # Done /\ e = Transaction(t, Put(x.path, Awaited(x)))
    BY <1>2, <1>3, <2>2 DEF Transaction
  <2> QED BY <2>1, <2>2 DEF Moved
<1>5. ASSUME NEW u \in Tasks, task'[u] # Done PROVE \E e \in ToSet(queue') : e.owner = u
  <2>1. CASE u = t
    <3>1. Transaction(t, Put(x.path, Awaited(x))) \in ToSet(queue')
      BY <1>2, <1>5, <2>1 DEF Moved
    <3> QED BY <2>1, <3>1 DEF Transaction
  <2>2. CASE u # t
    <3>1. PICK e \in ToSet(queue) : e.owner = u
      BY <1>2, <1>5, <2>2 DEF QueueAgrees
    <3> QED BY <2>2, <3>1 DEF Moved
  <2> QED BY <2>1, <2>2
<1>6. ASSUME NEW c \in Callers, call'[c] # Idle PROVE \E e \in ToSet(queue') : e.owner = c
  <2>1. PICK e \in ToSet(queue) : e.owner = c
    BY <1>1, <1>6 DEF QueueAgrees
  <2> QED BY <1>3, <2>1 DEF Moved
<1>7. OneEach(queue')
  BY DEF Moved
<1> QED BY <1>4, <1>5, <1>6, <1>7 DEF QueueAgrees

\* A call in progress awaits the save of a buffer.
LEMMA AwaitedTyped ==
  ASSUME NEW x \in Call, FlushOK(x), x # Done
  PROVE  /\ x.path \in Paths /\ Awaited(x) \in File
         /\ Put(x.path, Awaited(x)) \in Seq(Request) /\ Put(x.path, Awaited(x)) # << >>
<1>1. x.path \in Paths /\ Awaited(x) \in File
  <2>1. CASE x \in InsertCall \cup EditCall
    BY <2>1 DEF InsertCall, EditCall, Awaited
  <2>2. CASE x \in FlushCall
    <3>1. x.kind = "flush" /\ x.files \in FileMap /\ x.path \in DOMAIN x.files /\ x.path \in Paths
      BY <2>2 DEF FlushCall, FlushOK
    <3>2. x.files[x.path] \in File
      BY <3>1, MapTyped
    <3> QED BY <3>1, <3>2 DEF Awaited
  <2> QED BY <2>1, <2>2 DEF Call
<1>2. Awaited(x).text \in Text
  BY <1>1 DEF File
<1> QED BY <1>1, <1>2 DEF Put, Request

LEMMA MovedByOpening ==
  ASSUME Types, QueueAgrees, NEW t \in Tasks, NEW x \in Call, FlushOK(x), x # Done, task[t] = Done,
         task' = [task EXCEPT ![t] = x], call' = call, Open(t, Put(x.path, Awaited(x)))
  PROVE  Moved(t, x)
<1>1. Put(x.path, Awaited(x)) \in Seq(Request)
  BY AwaitedTyped
<1>2. \A e \in ToSet(queue) : e.owner # t
  BY DEF QueueAgrees
<1>3. /\ queue' \in Seq(Entry) /\ OneEach(queue')
      /\ ToSet(queue') = ToSet(queue) \cup {Transaction(t, Put(x.path, Awaited(x)))}
  BY <1>1, <1>2, Opened
<1> QED BY <1>2, <1>3 DEF Moved

LEMMA MovedByAnswer ==
  ASSUME Types, QueueAgrees, NEW t \in Tasks, NEW x \in Call, FlushOK(x), Served(1, t),
         task' = [task EXCEPT ![t] = x], call' = call,
         NEW requests, requests = IF x = Done THEN << >> ELSE Put(x.path, Awaited(x)),
         NEW answer, Answer(1, answer, requests)
  PROVE  Moved(t, x)
<1>1. requests \in Seq(Request) /\ (requests = << >> <=> x = Done)
  BY AwaitedTyped
<1>2. 1 \in DOMAIN queue /\ queue[1].owner = t
  BY DEF Served
<1>3. /\ queue' \in Seq(Entry) /\ OneEach(queue')
      /\ ToSet(queue') = {e \in ToSet(queue) : e.owner # t}
                         \cup IF requests = << >> THEN {} ELSE {Transaction(t, requests)}
  BY <1>1, <1>2, Replaced DEF Answer
<1> QED BY <1>1, <1>3 DEF Moved

\* The save of the text y at p succeeded; it failed, or was lost.
Landed(p, y) ==
  /\ store' \in [Paths -> Text \cup {NoFile}]
  /\ \A q \in Paths : store'[q] = IF q = p THEN y ELSE store[q]
  /\ foreign' = foreign \ {p} /\ atRisk' = atRisk \ {p}

Failed(p) == store' = store /\ foreign' = foreign /\ atRisk' = atRisk \cup {p}

LEMMA SaveAnswered ==
  ASSUME Types, QueueAgrees, NEW t \in Tasks, Served(1, t), NEW answer \in Answers(1),
         NEW requests, Answer(1, answer, requests), Recorded(task[t].path, answer)
  PROVE  /\ task[t] # Done /\ faults' \in 0..MaxFaults
         /\ task[t].path \in Paths /\ Awaited(task[t]) \in File
         /\ answer = "ok" => Landed(task[t].path, Awaited(task[t]).text)
         /\ answer # "ok" => Failed(task[t].path)
<1>1. queue[1] \in ToSet(queue) /\ queue[1].owner = t
  BY DEF Served, ToSet
<1>2. task[t] # Done /\ queue[1].requests = Put(task[t].path, Awaited(task[t]))
  BY <1>1 DEF QueueAgrees
<1>3. task[t].path \in Paths /\ Awaited(task[t]) \in File
  BY <1>2, AwaitedTyped DEF Types
<1>4. faults' \in 0..MaxFaults
  <2>1. faults = MaxFaults => answer = "ok"
    BY DEF Answers
  <2> QED BY <2>1, StoreAssumption DEF Answer, Types
<1>5. ASSUME answer = "ok" PROVE Landed(task[t].path, Awaited(task[t]).text)
  <2>1. store' = Committed(store, << <<task[t].path, Awaited(task[t]).text>> >>)
    BY <1>2, <1>5 DEF Answer, Put
  <2>2. store \in [Paths -> Text \cup {NoFile}] /\ Awaited(task[t]).text \in Text
    BY <1>3 DEF Types, File
  <2> QED BY <1>3, <1>5, <2>1, <2>2, CommittedPut DEF Landed, Recorded
<1>6. answer # "ok" => Failed(task[t].path)
  BY DEF Answer, Recorded, Failed
<1> QED BY <1>2, <1>3, <1>4, <1>5, <1>6

-----------------------------------------------------------------------------
(* Copies and texts from one state to the next.                            *)

Others(t) == UNION {KeptBy(task[u], u) : u \in Tasks \ {t}}

LEMMA CopiesSplit ==
  ASSUME NEW t \in Tasks
  PROVE  Copies = InMap \cup KeptBy(task[t], t) \cup Others(t)
BY DEF Copies, Others

LEMMA CopiesMoved ==
  ASSUME Types, NEW t \in Tasks, NEW x, task' = [task EXCEPT ![t] = x]
  PROVE  Copies' = InMap' \cup KeptBy(x, t) \cup Others(t)
<1>1. task'[t] = x /\ \A u \in Tasks \ {t} : task'[u] = task[u]
  BY DEF Types
<1>2. \A u \in Tasks \ {t} : KeptBy(task'[u], u) = KeptBy(task[u], u)
  BY <1>1
<1>3. Copies' = InMap' \cup KeptBy(task'[t], t) \cup UNION {KeptBy(task'[u], u) : u \in Tasks \ {t}}
  BY DEF Copies
<1>4. UNION {KeptBy(task'[u], u) : u \in Tasks \ {t}} = Others(t)
  BY <1>2 DEF Others
<1> QED BY <1>1, <1>3, <1>4

\* Copies are told apart by who has them.
LEMMA Apart ==
  ASSUME NEW t \in Tasks
  PROVE  /\ \A c \in InMap : c[1] = {} /\ c[2] \in open /\ c = <<{}, c[2], FILE_STATE[c[2]]>>
         /\ \A x : \A c \in KeptBy(x, t) : c[1] = {t}
         /\ \A c \in Others(t) : c[1] # {} /\ c[1] # {t}
<1>1. \A x, u : \A c \in KeptBy(x, u) : c[1] = {u}
  BY DEF KeptBy
<1> QED BY <1>1 DEF InMap, Others

LEMMA KeptAwaited ==
  ASSUME NEW t \in Tasks, NEW x \in Call, FlushOK(x), x # Done
  PROVE  <<{t}, x.path, Awaited(x)>> \in KeptBy(x, t)
<1>1. CASE x \in InsertCall \cup EditCall
  BY <1>1 DEF InsertCall, EditCall, KeptBy, Awaited
<1>2. CASE x \in FlushCall
  <2>1. x.kind = "flush" /\ x.path \in DOMAIN x.files
    BY <1>2 DEF FlushCall, FlushOK
  <2> QED BY <2>1 DEF KeptBy, Awaited
<1> QED BY <1>1, <1>2 DEF Call

LEMMA RequestedIs ==
  ASSUME NEW e \in ToSet(queue), NEW r \in ToSet(e.requests), r[2] # NoFile
  PROVE  r[2] \in Known
BY DEF Requested, Known

\* What a call is to save is requested.
LEMMA AwaitedKnown ==
  ASSUME Types, QueueAgrees, NEW t \in Tasks, task[t] # Done
  PROVE  Awaited(task[t]).text \in Known
<1>1. PICK e \in ToSet(queue) : e.owner = t
  BY DEF QueueAgrees
<1>2. e.requests = << <<task[t].path, Awaited(task[t]).text>> >>
  BY <1>1 DEF QueueAgrees, Put
<1>3. Awaited(task[t]) \in File
  BY AwaitedTyped DEF Types
<1>4. <<task[t].path, Awaited(task[t]).text>> \in ToSet(e.requests)
  BY <1>2 DEF ToSet
<1>5. Awaited(task[t]).text # NoFile
  BY <1>3, ConstantsAssumption DEF File, Text
<1> QED BY <1>1, <1>4, <1>5, RequestedIs

\* The texts known after a call went on are known or of copies there are then.
LEMMA KnownMoved ==
  ASSUME Types, QueueAgrees, NEW t \in Tasks, NEW x \in Call, FlushOK(x), Moved(t, x),
         DOMAIN store' = Paths,
         \A p \in Paths : \/ store'[p] = store[p]
                          \/ task[t] # Done /\ store'[p] = Awaited(task[t]).text,
         SeenBy(x) \subseteq Known \cup {c[3].text : c \in Copies'}
  PROVE  Known' \subseteq Known \cup {c[3].text : c \in Copies'}
<1> DEFINE T == {c[3].text : c \in Copies'}
<1>1. Stored' \subseteq Known
  <2> SUFFICES ASSUME NEW p \in Paths, store'[p] # NoFile PROVE store'[p] \in Known
    BY DEF Stored, Present
  <2>1. CASE store'[p] = store[p]
    BY <2>1 DEF Known, Stored, Present
  <2>2. CASE task[t] # Done /\ store'[p] = Awaited(task[t]).text
    BY <2>2, AwaitedKnown
  <2> QED BY <2>1, <2>2
<1>2. Requested' \subseteq Known \cup T
  <2> SUFFICES ASSUME NEW y \in Requested' PROVE y \in Known \cup T
    OBVIOUS
  <2>1. PICK e \in ToSet(queue') : y \in {r[2] : r \in ToSet(e.requests)}
    BY DEF Requested
  <2>2. PICK r \in ToSet(e.requests) : y = r[2]
    BY <2>1
  <2>3. CASE e \in ToSet(queue)
    <3>1. y # NoFile
      BY DEF Requested
    <3> QED BY <2>2, <2>3, <3>1, RequestedIs
  <2>4. CASE x # Done /\ e = Transaction(t, Put(x.path, Awaited(x)))
    <3>1. y = Awaited(x).text
      BY <2>2, <2>4 DEF Transaction, Put, ToSet
    <3>2. <<{t}, x.path, Awaited(x)>> \in Copies'
      <4>1. <<{t}, x.path, Awaited(x)>> \in KeptBy(x, t)
        BY <2>4, KeptAwaited
      <4>2. Copies' = InMap' \cup KeptBy(x, t) \cup Others(t)
        BY CopiesMoved DEF Moved
      <4> QED BY <4>1, <4>2
    <3>3. <<{t}, x.path, Awaited(x)>>[3].text = y
      BY <3>1
    <3> QED BY <3>2, <3>3
  <2> QED BY <2>3, <2>4 DEF Moved
<1>3. \A u \in Tasks : SeenBy(task'[u]) \subseteq Known \cup T
  <2> SUFFICES ASSUME NEW u \in Tasks PROVE SeenBy(task'[u]) \subseteq Known \cup T
    OBVIOUS
  <2>1. task' = [task EXCEPT ![t] = x] /\ DOMAIN task = Tasks
    BY DEF Moved, Types
  <2>2. CASE u = t
    BY <2>1, <2>2
  <2>3. CASE u # t
    <3>1. task'[u] = task[u]
      BY <2>1, <2>3
    <3>2. SeenBy(task[u]) \subseteq Known
      BY DEF Known
    <3> QED BY <3>1, <3>2
  <2> QED BY <2>2, <2>3
<1>4. Known' = Stored' \cup Requested' \cup UNION {SeenBy(task'[u]) : u \in Tasks}
  BY DEF Known
<1> HIDE DEF T
<1> QED BY <1>1, <1>2, <1>3, <1>4 DEF T

\* What there is of a buffer is continued, if the buffer is still there.
Continues ==
  \A c \in Copies, d \in Copies' :
    Id(c[3].text) = Id(d[3].text) => IsPrefix(c[3].text, d[3].text)

\* Every copy but a fresh one descends from one of its own.
Descended(F, g) ==
  /\ F \in SUBSET Copies' /\ \A d, e \in F : d = e
  /\ \A d \in F : Id(d[3].text) \notin 1..edits
  /\ \A d \in Copies' \ F : g[d] \in Copies /\ IsPrefix(g[d][3].text, d[3].text)
  /\ \A d, e \in Copies' \ F : g[d] = g[e] => d = e

LEMMA Descends ==
  ASSUME Types, Types', Unique(Copies), Precede(Known, Copies), Within,
         \A y \in Known' : \/ y \in Known
                           \/ \E d \in Copies' : y = d[3].text
                           \/ \A d \in Copies' : Id(y) # Id(d[3].text),
         NEW F, NEW g, Descended(F, g)
  PROVE  Unique(Copies)' /\ Precede(Known, Copies)' /\ Continues
<1>1. Copies \in SUBSET Copy /\ Known \in SUBSET Text
  BY CopiesTyped, KnownTyped
<1>2. Copies' \in SUBSET Copy
  <2>1. InMap' \subseteq Copy
    <3>1. FILE_STATE' \in FileMap
      BY DEF Types
    <3>2. open' \subseteq Paths /\ \A p \in open' : FILE_STATE'[p] \in File
      BY <3>1, MapTyped DEF open
    <3> QED BY <3>2 DEF InMap, Copy
  <2>2. \A t \in Tasks : KeptBy(task'[t], t) \subseteq Copy
    BY KeptTyped DEF Types
  <2>3. Copies' = InMap' \cup UNION {KeptBy(task'[t], t) : t \in Tasks}
    BY DEF Copies
  <2> QED BY <2>1, <2>2, <2>3
<1>3. /\ \A c \in Copies : ToSet(c[3].text) \subseteq 1..edits
      /\ \A x \in Known : ToSet(x) \subseteq 1..edits
  BY DEF Within
<1>4. ASSUME NEW C, C = Copies, NEW X, X = Known, NEW D, D = Copies', NEW Y, Y = Known'
      PROVE  /\ Unique(D) /\ Precede(Y, D)
             /\ \A c \in C, d \in D : Id(c[3].text) = Id(d[3].text) => IsPrefix(c[3].text, d[3].text)
  <2>1. C \in SUBSET Copy /\ X \in SUBSET Text /\ D \in SUBSET Copy /\ F \in SUBSET D
    BY <1>1, <1>2, <1>4 DEF Descended
  <2>2. Unique(C) /\ Precede(X, C)
    BY <1>4
  <2>3. /\ \A c \in C : ToSet(c[3].text) \subseteq 1..edits
        /\ \A x \in X : ToSet(x) \subseteq 1..edits
    BY <1>3, <1>4
  <2>4. /\ \A d, e \in F : d = e
        /\ \A d \in F : Id(d[3].text) \notin 1..edits
        /\ \A d \in D \ F : g[d] \in C /\ IsPrefix(g[d][3].text, d[3].text)
        /\ \A d, e \in D \ F : g[d] = g[e] => d = e
    BY <1>4 DEF Descended
  <2>5. \A y \in Y : y \in X \/ (\E d \in D : y = d[3].text) \/ \A d \in D : Id(y) # Id(d[3].text)
    BY <1>4
  <2>6. Descending(C, D, X, Y, edits, F, g)
    BY <2>1, <2>2, <2>3, <2>4, <2>5 DEF Descending
  <2> QED BY <2>6, Descent
<1>5. /\ \A c, d \in Copies' : Id(c[3].text) = Id(d[3].text) => c = d
      /\ \A y \in Known', d \in Copies' : Id(y) = Id(d[3].text) => IsPrefix(y, d[3].text)
      /\ \A c \in Copies, d \in Copies' : Id(c[3].text) = Id(d[3].text) => IsPrefix(c[3].text, d[3].text)
  BY <1>4 DEF Unique, Precede
<1> QED BY <1>5 DEF Unique, Precede, Continues

LEMMA NoneNew ==
  ASSUME Types, Copies' \subseteq Copies
  PROVE  \E F, g : Descended(F, g)
<1> DEFINE g == [d \in Copies' |-> d]
<1>1. \A d \in Copies' : g[d] = d /\ d[3].text \in Text
  BY CopiesTyped DEF Copy, File
<1>2. Descended({}, g)
  BY <1>1, PrefixOfTexts DEF Descended
<1> QED BY <1>2

LEMMA OneFresh ==
  ASSUME Types, NEW new, Id(new[3].text) \notin 1..edits, Copies' \subseteq Copies \cup {new},
         new \in Copies'
  PROVE  \E F, g : Descended(F, g)
<1> DEFINE g == [d \in Copies' |-> d]
<1>1. \A d \in Copies' \ {new} : g[d] = d /\ d \in Copies /\ d[3].text \in Text
  BY CopiesTyped DEF Copy, File
<1>2. Descended({new}, g)
  BY <1>1, PrefixOfTexts DEF Descended
<1> QED BY <1>2

LEMMA OneChanges ==
  ASSUME Types, NEW old \in Copies, NEW new, IsPrefix(old[3].text, new[3].text),
         Copies' \subseteq (Copies \ {old}) \cup {new}
  PROVE  \E F, g : Descended(F, g)
<1> DEFINE g == [d \in Copies' |-> IF d = new THEN old ELSE d]
<1>1. \A d \in Copies' : /\ g[d] = IF d = new THEN old ELSE d
                         /\ d # new => d \in Copies \ {old} /\ d[3].text \in Text
  BY CopiesTyped DEF Copy, File
<1> HIDE DEF g
<1>2. \A d \in Copies' : g[d] \in Copies /\ IsPrefix(g[d][3].text, d[3].text)
  BY <1>1, PrefixOfTexts
<1>3. \A d, e \in Copies' : g[d] = g[e] => d = e
  BY <1>1
<1>4. Descended({}, g)
  BY <1>2, <1>3 DEF Descended
<1> QED BY <1>4

\* Every copy was in the map and is with t, or is as it was.
LEMMA AllTaken ==
  ASSUME Types, NEW t \in Tasks,
         \A d \in Copies' : \/ d[1] = {t} /\ <<{}, d[2], d[3]>> \in Copies /\ d = <<{t}, d[2], d[3]>>
                            \/ d[1] # {} /\ d[1] # {t} /\ d \in Copies
  PROVE  \E F, g : Descended(F, g)
<1> DEFINE old(d) == IF d[1] = {t} THEN <<{}, d[2], d[3]>> ELSE d
           g == [d \in Copies' |-> old(d)]
<1>1. \A d \in Copies' : old(d) \in Copies /\ old(d)[3] = d[3]
  OBVIOUS
<1>2. \A d \in Copies' : /\ d[1] = {t} => d = <<{t}, d[2], d[3]>> /\ old(d) = <<{}, d[2], d[3]>>
                         /\ d[1] # {t} => d[1] # {} /\ old(d) = d
  OBVIOUS
<1> HIDE DEF old
<1>3. ASSUME NEW d \in Copies' PROVE IsPrefix(old(d)[3].text, d[3].text)
  <2>1. old(d)[3].text = d[3].text /\ old(d) \in Copies
    BY <1>1
  <2>2. old(d)[3].text \in Text
    BY <2>1, CopiesTyped DEF Copy, File
  <2> QED BY <2>1, <2>2, PrefixOfTexts
<1>4. ASSUME NEW d \in Copies', NEW e \in Copies', old(d) = old(e) PROVE d = e
  <2>1. CASE d[1] = {t} /\ e[1] = {t}
    <3>1. d = <<{t}, d[2], d[3]>> /\ e = <<{t}, e[2], e[3]>>
      BY <1>2, <2>1
    <3>2. <<{}, d[2], d[3]>> = <<{}, e[2], e[3]>>
      BY <1>2, <1>4, <2>1
    <3>3. d[2] = e[2] /\ d[3] = e[3]
      BY <3>2
    <3> QED BY <3>1, <3>3
  <2>2. CASE d[1] = {t} /\ e[1] # {t}
    <3>1. old(d)[1] = {} /\ old(e)[1] # {}
      BY <1>2, <2>2
    <3> QED BY <1>4, <3>1
  <2>3. CASE d[1] # {t} /\ e[1] = {t}
    <3>1. old(e)[1] = {} /\ old(d)[1] # {}
      BY <1>2, <2>3
    <3> QED BY <1>4, <3>1
  <2>4. CASE d[1] # {t} /\ e[1] # {t}
    BY <1>2, <1>4, <2>4
  <2> QED BY <2>1, <2>2, <2>3, <2>4
<1>5. \A d \in Copies' : g[d] = old(d)
  OBVIOUS
<1> HIDE DEF g
<1>6. Descended({}, g)
  BY <1>1, <1>3, <1>4, <1>5 DEF Descended
<1> QED BY <1>6

\* Every copy was with t and is in the map, or is as it was.
LEMMA AllReturned ==
  ASSUME Types, NEW t \in Tasks, NEW files,
         \A d \in Copies' :
           \/ /\ d[1] = {} /\ d[2] \in DOMAIN files /\ <<{t}, d[2], files[d[2]]>> \in Copies
              /\ IsPrefix(files[d[2]].text, d[3].text)
           \/ d[1] # {t} /\ d \in Copies /\ ~(d[1] = {} /\ d[2] \in DOMAIN files),
         \A d, e \in Copies' : d[1] = {} /\ e[1] = {} /\ d[2] = e[2] => d = e
  PROVE  \E F, g : Descended(F, g)
<1> DEFINE in(d) == d[1] = {} /\ d[2] \in DOMAIN files
           old(d) == IF in(d) THEN <<{t}, d[2], files[d[2]]>> ELSE d
           g == [d \in Copies' |-> old(d)]
<1>1. \A d \in Copies' :
        /\ old(d) \in Copies
        /\ in(d) => /\ d[1] = {} /\ old(d) = <<{t}, d[2], files[d[2]]>>
                    /\ IsPrefix(files[d[2]].text, d[3].text)
        /\ ~in(d) => d[1] # {t} /\ old(d) = d
  OBVIOUS
<1> HIDE DEF old, in
<1>2. ASSUME NEW d \in Copies' PROVE IsPrefix(old(d)[3].text, d[3].text)
  <2>1. CASE in(d)
    <3>1. old(d)[3] = files[d[2]] /\ IsPrefix(files[d[2]].text, d[3].text)
      BY <1>1, <2>1
    <3> QED BY <3>1
  <2>2. CASE ~in(d)
    <3>1. old(d) = d /\ d \in Copies
      BY <1>1, <2>2
    <3>2. d[3].text \in Text
      BY <3>1, CopiesTyped DEF Copy, File
    <3> QED BY <3>1, <3>2, PrefixOfTexts
  <2> QED BY <2>1, <2>2
<1>3. ASSUME NEW d \in Copies', NEW e \in Copies', old(d) = old(e) PROVE d = e
  <2>1. CASE in(d) /\ in(e)
    <3>1. <<{t}, d[2], files[d[2]]>> = <<{t}, e[2], files[e[2]]>>
      BY <1>1, <1>3, <2>1
    <3>2. d[2] = e[2]
      BY <3>1
    <3> QED BY <1>1, <2>1, <3>2
  <2>2. CASE in(d) /\ ~in(e)
    <3>1. old(d)[1] = {t} /\ old(e)[1] # {t}
      BY <1>1, <2>2
    <3> QED BY <1>3, <3>1
  <2>3. CASE ~in(d) /\ in(e)
    <3>1. old(e)[1] = {t} /\ old(d)[1] # {t}
      BY <1>1, <2>3
    <3> QED BY <1>3, <3>1
  <2>4. CASE ~in(d) /\ ~in(e)
    BY <1>1, <1>3, <2>4
  <2> QED BY <2>1, <2>2, <2>3, <2>4
<1>4. \A d \in Copies' : g[d] = old(d)
  OBVIOUS
<1> HIDE DEF g
<1>5. Descended({}, g)
  BY <1>1, <1>2, <1>3, <1>4 DEF Descended
<1> QED BY <1>5

\* All texts are made of edits made, and a transaction's edits were made too.
WithinCall(x, n) ==
  x.kind = "edit" => /\ \A i \in DOMAIN x.rest : x.rest[i][1] \in 1..n
                     /\ x.file.ops_since_save + Len(x.rest) <= n

WithinFile(f, n) == ToSet(f.text) \subseteq 1..n /\ f.ops_since_save <= n

LEMMA CallKinds ==
  ASSUME NEW x \in Call
  PROVE  /\ x.kind = "insert" => x \in InsertCall
         /\ x.kind = "edit" => x \in EditCall
         /\ x.kind = "flush" => x \in FlushCall
         /\ x.kind \notin {"insert", "edit", "flush"} => x = Done
BY DEF Call, Done, InsertCall, EditCall, FlushCall

LEMMA WithinGrows ==
  ASSUME Types, Types', Within, edits <= edits',
         \A d \in Copies' : (\E c \in Copies : c[3] = d[3]) \/ WithinFile(d[3], edits'),
         \A y \in Known' : \/ y \in Known
                           \/ \E d \in Copies' : y = d[3].text
                           \/ ToSet(y) \subseteq 1..edits',
         \A u \in Tasks : task'[u] = task[u] \/ WithinCall(task'[u], edits')
  PROVE  Within'
<1>1. edits \in Nat /\ edits' \in Nat
  BY ConstantsAssumption DEF Types
<1>2. 1..edits \subseteq 1..edits'
  BY <1>1
<1>3. ASSUME NEW d \in Copies' PROVE ToSet(d[3].text) \subseteq 1..edits' /\ d[3].ops_since_save <= edits'
  <2>1. CASE WithinFile(d[3], edits')
    BY <2>1 DEF WithinFile
  <2>2. CASE \E c \in Copies : c[3] = d[3]
    <3>1. PICK c \in Copies : c[3] = d[3]
      BY <2>2
    <3>2. ToSet(d[3].text) \subseteq 1..edits /\ d[3].ops_since_save <= edits
      BY <3>1 DEF Within
    <3>3. d[3].ops_since_save \in Nat
      BY <3>1, CopiesTyped DEF Copy, File
    <3> QED BY <1>1, <1>2, <3>2, <3>3
  <2> QED BY <2>1, <2>2
<1>4. ASSUME NEW y \in Known' PROVE ToSet(y) \subseteq 1..edits'
  <2>1. CASE y \in Known
    BY <1>2, <2>1 DEF Within
  <2>2. CASE \E d \in Copies' : y = d[3].text
    BY <1>3, <2>2
  <2> QED BY <2>1, <2>2
<1>5. ASSUME NEW u \in Tasks PROVE WithinCall(task'[u], edits')
  <2>1. CASE task'[u] = task[u] /\ task[u].kind = "edit"
    <3>1. task[u] \in EditCall
      BY <2>1, CallKinds DEF Types
    <3>2. task[u].file.ops_since_save \in Nat /\ Len(task[u].rest) \in Nat
      BY <3>1 DEF EditCall, File
    <3>3. /\ \A i \in DOMAIN task[u].rest : task[u].rest[i][1] \in 1..edits
          /\ task[u].file.ops_since_save + Len(task[u].rest) <= edits
      BY <2>1 DEF Within
    <3> QED BY <1>1, <1>2, <2>1, <3>2, <3>3 DEF WithinCall
  <2>2. CASE task'[u] = task[u] /\ task[u].kind # "edit"
    BY <2>2 DEF WithinCall
  <2> QED BY <2>1, <2>2
<1> QED BY <1>3, <1>4, <1>5 DEF Within, WithinCall

\* What is left to show of a step in which a call goes on.
LEMMA MoveKeeps ==
  ASSUME Base, Types', NEW t \in Tasks, NEW x \in Call, FlushOK(x), Moved(t, x),
         \A p \in Paths : \/ store'[p] = store[p]
                          \/ task[t] # Done /\ store'[p] = Awaited(task[t]).text,
         SeenBy(x) \subseteq Known \cup {c[3].text : c \in Copies'},
         \E F, g : Descended(F, g),
         edits <= edits', WithinCall(x, edits'),
         \A d \in Copies' : (\E c \in Copies : c[3] = d[3]) \/ WithinFile(d[3], edits'),
         Counts'
  PROVE  Base' /\ Continues
<1>0. Types /\ QueueAgrees /\ Unique(Copies) /\ Precede(Known, Copies) /\ Within
  BY DEF Base
<1>1. QueueAgrees'
  BY <1>0, MovedAgrees
<1>2. Known' \subseteq Known \cup {c[3].text : c \in Copies'}
  <2>1. DOMAIN store' = Paths
    BY DEF Types
  <2> QED BY <1>0, <2>1, KnownMoved
<1>3. Unique(Copies)' /\ Precede(Known, Copies)' /\ Continues
  BY <1>0, <1>2, Descends
<1>4. \A u \in Tasks : task'[u] = task[u] \/ WithinCall(task'[u], edits')
  <2>1. task' = [task EXCEPT ![t] = x] /\ DOMAIN task = Tasks
    BY <1>0 DEF Moved, Types
  <2> QED BY <2>1
<1>5. Within'
  BY <1>0, <1>2, <1>4, WithinGrows
<1> QED BY <1>1, <1>3, <1>5 DEF Base

\* The same of a step that concerns the map alone.
LEMMA StayKeeps ==
  ASSUME Base, Types', UNCHANGED <<store, queue, call, task>>,
         \E F, g : Descended(F, g), edits <= edits',
         \A d \in Copies' : (\E c \in Copies : c[3] = d[3]) \/ WithinFile(d[3], edits'),
         Counts'
  PROVE  Base' /\ Continues
<1>0. Types /\ QueueAgrees /\ Unique(Copies) /\ Precede(Known, Copies) /\ Within
  BY DEF Base
<1>1. QueueAgrees'
  BY <1>0 DEF QueueAgrees
<1>2. Known' = Known
  BY DEF Known, Stored, Requested, Present
<1>3. Unique(Copies)' /\ Precede(Known, Copies)' /\ Continues
  BY <1>0, <1>2, Descends
<1>5. Within'
  BY <1>0, <1>2, WithinGrows
<1> QED BY <1>1, <1>3, <1>5 DEF Base

-----------------------------------------------------------------------------
(* Maps of buffers, and what is counted of their edits.                    *)

LEMMA MapEmpty == << >> \in FileMap /\ DOMAIN << >> = {}
<1>1. << >> \in [{} -> File]
  OBVIOUS
<1> QED BY <1>1, MapIs

LEMMA MapTake ==
  ASSUME Types, NEW p
  PROVE  /\ Take(p) \in FileMap /\ DOMAIN Take(p) = open \ {p}
         /\ \A q \in open \ {p} : Take(p)[q] = FILE_STATE[q]
<1>1. open \subseteq Paths /\ \A q \in open : FILE_STATE[q] \in File
  BY MapTyped DEF Types, open
<1>2. Take(p) \in [open \ {p} -> File]
  BY <1>1 DEF Take
<1>3. Take(p) \in FileMap
  BY <1>1, <1>2, MapIs
<1> QED BY <1>3 DEF Take

LEMMA MapInsert ==
  ASSUME Types, NEW p \in Paths, NEW f \in File
  PROVE  /\ Insert(p, f) \in FileMap /\ DOMAIN Insert(p, f) = open \cup {p}
         /\ \A q \in open \cup {p} : Insert(p, f)[q] = IF q = p THEN f ELSE FILE_STATE[q]
<1>1. open \subseteq Paths /\ \A q \in open : FILE_STATE[q] \in File
  BY MapTyped DEF Types, open
<1>2. Insert(p, f) \in [open \cup {p} -> File]
  BY <1>1 DEF Insert
<1>3. Insert(p, f) \in FileMap
  BY <1>1, <1>2, MapIs
<1> QED BY <1>3 DEF Insert

LEMMA MapExtend ==
  ASSUME Types, NEW files \in FileMap
  PROVE  /\ Extend(files) \in FileMap /\ DOMAIN Extend(files) = open \cup DOMAIN files
         /\ \A q \in open \cup DOMAIN files :
              Extend(files)[q] = IF q \in DOMAIN files THEN files[q] ELSE FILE_STATE[q]
<1>1. open \subseteq Paths /\ \A q \in open : FILE_STATE[q] \in File
  BY MapTyped DEF Types, open
<1>2. DOMAIN files \subseteq Paths /\ \A q \in DOMAIN files : files[q] \in File
  BY MapTyped
<1>3. Extend(files) \in [open \cup DOMAIN files -> File]
  BY <1>1, <1>2 DEF Extend
<1>4. Extend(files) \in FileMap
  BY <1>1, <1>2, <1>3, MapIs
<1> QED BY <1>4 DEF Extend

LEMMA InMapIs ==
  ASSUME Types
  PROVE  /\ open \subseteq Paths
         /\ \A p \in open : FILE_STATE[p] \in File /\ <<{}, p, FILE_STATE[p]>> \in Copies
BY MapTyped DEF Types, open, InMap, Copies

\* What is left to show of the types.
LEMMA MoveTypes ==
  ASSUME Types, NEW t \in Tasks, NEW x \in Call, FlushOK(x), Moved(t, x),
         store' \in [Paths -> Text \cup {NoFile}], FILE_STATE' \in FileMap,
         edits' \in 0..MaxEdits, calls' = calls, faults' \in 0..MaxFaults,
         closed' \subseteq 1..edits', foreign' \subseteq Paths, atRisk' \subseteq Paths
  PROVE  Types'
<1>1. task' = [task EXCEPT ![t] = x] /\ task \in [Tasks -> Call] /\ \A u \in Tasks : FlushOK(task[u])
  BY DEF Types, Moved
<1>2. task' \in [Tasks -> Call] /\ \A u \in Tasks : task'[u] = IF u = t THEN x ELSE task[u]
  BY <1>1
<1>3. \A u \in Tasks : FlushOK(task'[u])
  BY <1>1, <1>2
<1>4. queue' \in Seq(Entry) /\ call' = call
  BY DEF Moved
<1> QED BY <1>2, <1>3, <1>4 DEF Types, Entry

Keeps(c) ==
  CountedIn(store, foreign \cup atRisk, c[2], c[3]) =>
    CountedIn(store', foreign' \cup atRisk', c[2], c[3])

LEMMA CountsAfter ==
  ASSUME Types, Counts, NEW t \in Tasks, NEW x, task' = [task EXCEPT ![t] = x],
         \A c \in Others(t) : Keeps(c),
         \A p \in open' : CountedIn(store', foreign' \cup atRisk', p, FILE_STATE'[p]),
         x.kind = "flush" => \A p \in DOMAIN x.files \ {x.path} :
                               CountedIn(store', foreign' \cup atRisk', p, x.files[p])
  PROVE  Counts'
<1>1. \A u \in Tasks : task'[u] = IF u = t THEN x ELSE task[u]
  BY DEF Types
<1>2. ASSUME NEW u \in Tasks, task'[u].kind = "flush", NEW p \in DOMAIN task'[u].files \ {task'[u].path}
      PROVE  CountedIn(store', foreign' \cup atRisk', p, task'[u].files[p])
  <2>1. CASE u = t
    BY <1>1, <1>2, <2>1
  <2>2. CASE u # t
    <3>1. task'[u] = task[u]
      BY <1>1, <2>2
    <3>2. <<{u}, p, task[u].files[p]>> \in Others(t)
      BY <1>2, <2>2, <3>1 DEF Others, KeptBy
    <3>3. CountedIn(store, foreign \cup atRisk, p, task[u].files[p])
      BY <1>2, <3>1 DEF Counts, Counted
    <3> QED BY <3>1, <3>2, <3>3 DEF Keeps
  <2> QED BY <2>1, <2>2
<1> QED BY <1>2 DEF Counts, Counted

LEMMA SameKeeps ==
  ASSUME UNCHANGED <<store, foreign, atRisk>>
  PROVE  \A c : Keeps(c)
BY DEF Keeps, CountedIn

\* A save changes nothing about the copies of other buffers.
LEMMA SaveKeeps ==
  ASSUME Types, Unique(Copies), NEW t \in Tasks, task[t] # Done,
         Landed(task[t].path, Awaited(task[t]).text) \/ Failed(task[t].path),
         NEW c \in Copies, c # <<{t}, task[t].path, Awaited(task[t])>>
  PROVE  Keeps(c)
<1> DEFINE p == task[t].path
           y == Awaited(task[t]).text
<1>1. p \in Paths /\ c[2] \in Paths
  BY AwaitedTyped, CopiesTyped DEF Types, Copy
<1>2. Id(c[3].text) # Id(y)
  <2>1. <<{t}, p, Awaited(task[t])>> \in Copies
    BY KeptAwaited DEF Types, Copies
  <2>2. <<{t}, p, Awaited(task[t])>>[3].text = y
    OBVIOUS
  <2> QED BY <2>1, <2>2 DEF Unique
<1> HIDE DEF p, y
<1>3. CASE Landed(p, y)
  <2>1. store'[c[2]] = IF c[2] = p THEN y ELSE store[c[2]]
    BY <1>1, <1>3 DEF Landed
  <2>2. foreign' = foreign \ {p} /\ atRisk' = atRisk \ {p}
    BY <1>3 DEF Landed
  <2>3. CASE c[2] = p
    BY <1>2, <2>1, <2>3 DEF Keeps, CountedIn
  <2>4. CASE c[2] # p
    BY <2>1, <2>2, <2>4 DEF Keeps, CountedIn
  <2> QED BY <2>3, <2>4
<1>4. CASE Failed(p)
  BY <1>4 DEF Failed, Keeps, CountedIn
<1> QED BY <1>3, <1>4 DEF p, y

LEMMA StayTypes ==
  ASSUME Types, UNCHANGED <<store, queue, call, task, calls, faults, foreign, atRisk>>,
         FILE_STATE' \in FileMap, edits' \in 0..MaxEdits, closed' \subseteq 1..edits'
  PROVE  Types'
BY DEF Types

-----------------------------------------------------------------------------
(* The calls of the session.                                               *)

\* Every buffer of the session is a copy.
LEMMA BuffersAreCopies ==
  ASSUME Types, NEW b \in Buffers
  PROVE  /\ b = <<b[1], b[2]>> /\ b[1] \in Paths /\ b[2] \in File
         /\ \E c \in Copies : c[2] = b[1] /\ c[3] = b[2]
<1>1. CASE b \in {<<p, FILE_STATE[p]>> : p \in open}
  <2>1. PICK p \in open : b = <<p, FILE_STATE[p]>>
    BY <1>1
  <2>2. p \in Paths /\ FILE_STATE[p] \in File /\ <<{}, p, FILE_STATE[p]>> \in Copies
    BY InMapIs
  <2> QED BY <2>1, <2>2
<1>2. ASSUME NEW t \in Tasks, b \in Held(t)
      PROVE  b = <<b[1], b[2]>> /\ <<{t}, b[1], b[2]>> \in KeptBy(task[t], t)
  <2>1. CASE task[t].kind = "edit"
    BY <1>2, <2>1 DEF Held, KeptBy
  <2>2. CASE task[t].kind = "flush"
    <3>1. PICK p \in DOMAIN task[t].files : b = <<p, task[t].files[p]>>
      BY <1>2, <2>2 DEF Held
    <3>2. <<{t}, p, task[t].files[p]>> \in KeptBy(task[t], t)
      BY <2>2 DEF KeptBy
    <3> QED BY <3>1, <3>2
  <2>3. task[t].kind \in {"edit", "flush"}
    BY <1>2 DEF Held
  <2> QED BY <2>1, <2>2, <2>3
<1>3. CASE \E t \in Tasks : b \in Held(t)
  <2>1. PICK t \in Tasks : b \in Held(t)
    BY <1>3
  <2>2. b = <<b[1], b[2]>> /\ <<{t}, b[1], b[2]>> \in Copies
    BY <1>2, <2>1 DEF Copies
  <2>3. <<{t}, b[1], b[2]>> \in Copy
    BY <2>2, CopiesTyped
  <2>4. b[1] \in Paths /\ b[2] \in File
    BY <2>3 DEF Copy
  <2> QED BY <2>2, <2>4
<1> QED BY <1>1, <1>3 DEF Buffers

LEMMA BuffersAtMade ==
  ASSUME Types, Within
  PROVE  \A p : BuffersAt(p) \subseteq 1..edits
<1> SUFFICES ASSUME NEW p, NEW i \in BuffersAt(p) PROVE i \in 1..edits
  OBVIOUS
<1>1. PICK b \in Buffers : b[1] = p /\ i = Id(b[2].text)
  BY DEF BuffersAt
<1>2. PICK c \in Copies : c[3] = b[2]
  BY BuffersAreCopies
<1>3. c[3].text \in Text /\ ToSet(c[3].text) \subseteq 1..edits
  BY <1>2, CopiesTyped DEF Copy, File, Within
<1> QED BY <1>1, <1>2, <1>3, IdOfText

\* Buffers leave the map.
LEMMA MapShrinks ==
  ASSUME Base, UNCHANGED <<store, queue, call, task, edits, calls, faults, foreign, atRisk>>,
         FILE_STATE' \in FileMap, open' \subseteq open,
         \A p \in open' : FILE_STATE'[p] = FILE_STATE[p],
         closed' \subseteq 1..edits
  PROVE  Base' /\ Continues
<1>0. Types /\ Counts
  BY DEF Base
<1>1. Types'
  BY <1>0, StayTypes DEF Types
<1>2. Copies' \subseteq Copies
  BY DEF Copies, InMap
<1>3. \E F, g : Descended(F, g)
  BY <1>0, <1>2, NoneNew
<1>4. Counts'
  BY <1>0 DEF Counts, Counted
<1>5. edits <= edits'
  BY <1>0 DEF Types
<1> QED BY <1>1, <1>2, <1>3, <1>4, <1>5, StayKeeps

LEMMA RemoveFile ==
  ASSUME Base, NEW p \in Paths, remove_file(p)
  PROVE  Base' /\ Continues
<1>1. Types /\ Within
  BY DEF Base
<1>2. /\ FILE_STATE' \in FileMap /\ open' \subseteq open
      /\ \A q \in open' : FILE_STATE'[q] = FILE_STATE[q]
  BY <1>1, MapTake DEF remove_file, open
<1>3. closed' \subseteq 1..edits
  BY <1>1, BuffersAtMade DEF remove_file, Types
<1> QED BY <1>2, <1>3, MapShrinks DEF remove_file, storeVars

LEMMA WipeState ==
  ASSUME Base, wipe_state
  PROVE  Base' /\ Continues
<1>1. Types /\ Within
  BY DEF Base
<1>2. FILE_STATE' \in FileMap /\ open' = {}
  BY MapEmpty DEF wipe_state, open
<1>3. closed' \subseteq 1..edits
  BY <1>1, BuffersAtMade DEF wipe_state, Types
<1> QED BY <1>2, <1>3, MapShrinks DEF wipe_state, storeVars

LEMMA InsertFile ==
  ASSUME Base, NEW t \in Tasks, NEW p \in Paths, insert_file(t, p)
  PROVE  Base' /\ Continues
<1> DEFINE file == [text |-> <<edits + 1>>, ops_since_save |-> 0]
           x == [kind |-> "insert", path |-> p, file |-> file]
           new == <<{t}, p, file>>
<1>0. Types /\ QueueAgrees /\ Within /\ Counts
  BY DEF Base
<1>1. edits \in Nat /\ edits' = edits + 1 /\ edits' \in 0..MaxEdits
  BY <1>0, ConstantsAssumption DEF Types, insert_file
<1>2. file \in File /\ Id(file.text) = edits + 1 /\ WithinFile(file, edits')
  BY <1>1 DEF File, Text, Id, WithinFile, ToSet
<1>3. x \in Call /\ FlushOK(x) /\ x # Done /\ x.kind = "insert" /\ x.path = p /\ x.file = file
  BY <1>2 DEF Call, InsertCall, FlushOK, Done
<1>4. task[t] = Done /\ task' = [task EXCEPT ![t] = x] /\ Open(t, Put(p, file))
  BY DEF insert_file
<1>5. UNCHANGED <<store, call, faults, FILE_STATE, calls, closed, foreign, atRisk>>
  BY DEF insert_file, history
<1> HIDE DEF file, x
<1>6. Moved(t, x)
  <2>1. Awaited(x) = file
    BY <1>3 DEF Awaited
  <2> QED BY <1>0, <1>3, <1>4, <1>5, <2>1, MovedByOpening
<1>7. Types'
  <2>1. closed' \subseteq 1..edits'
    BY <1>0, <1>1, <1>5 DEF Types
  <2>2. /\ store' \in [Paths -> Text \cup {NoFile}] /\ FILE_STATE' \in FileMap
        /\ faults' \in 0..MaxFaults /\ foreign' \subseteq Paths /\ atRisk' \subseteq Paths /\ calls' = calls
    BY <1>0, <1>5 DEF Types
  <2> QED BY <1>0, <1>1, <1>3, <1>6, <2>1, <2>2, MoveTypes
<1>8. Copies' = Copies \cup {new}
  <2>1. KeptBy(x, t) = {new} /\ KeptBy(task[t], t) = {}
    BY <1>3, <1>4 DEF KeptBy, Done
  <2>2. InMap' = InMap
    BY <1>5 DEF InMap, open
  <2> QED BY <1>0, <1>4, <2>1, <2>2, CopiesSplit, CopiesMoved
<1>9. \E F, g : Descended(F, g)
  <2>1. new[3] = file /\ edits + 1 \notin 1..edits
    BY <1>1
  <2>2. new \in Copies' /\ Copies' \subseteq Copies \cup {new} /\ Id(new[3].text) \notin 1..edits
    BY <1>2, <1>8, <2>1
  <2> HIDE DEF new
  <2> QED BY <1>0, <2>2, OneFresh
<1>10. Counts'
  <2>1. \A p1 \in open' : CountedIn(store', foreign' \cup atRisk', p1, FILE_STATE'[p1])
    BY <1>0, <1>5 DEF Counts, Counted, open
  <2> QED BY <1>0, <1>3, <1>4, <1>5, <2>1, SameKeeps, CountsAfter
<1>11. \A d \in Copies' : (\E c \in Copies : c[3] = d[3]) \/ WithinFile(d[3], edits')
  BY <1>2, <1>8
<1>12. SeenBy(x) = {} /\ WithinCall(x, edits') /\ edits <= edits'
  BY <1>1, <1>3 DEF SeenBy, WithinCall
<1>13. \A q \in Paths : store'[q] = store[q]
  BY <1>5
<1> QED BY <1>3, <1>6, <1>7, <1>9, <1>10, <1>11, <1>12, <1>13, MoveKeeps

\* A buffer of the map is with t, to be saved with what was added to it.
LEMMA TakesOut ==
  ASSUME Base, NEW t \in Tasks, NEW p \in open, NEW file \in File,
         NEW rest \in Seq(Nat \X {"char", "run"}), NEW x,
         x = [kind |-> "edit", path |-> p, file |-> file, rest |-> rest],
         IsPrefix(FILE_STATE[p].text, file.text),
         edits' \in 0..MaxEdits, edits <= edits', WithinFile(file, edits'), WithinCall(x, edits'),
         task[t] = Done, task' = [task EXCEPT ![t] = x], Open(t, Put(p, file)),
         FILE_STATE' = Take(p),
         UNCHANGED <<store, call, faults, calls, history>>
  PROVE  Base' /\ Continues
<1> DEFINE old == <<{}, p, FILE_STATE[p]>>
           new == <<{t}, p, file>>
<1>0. Types /\ QueueAgrees /\ Within /\ Counts
  BY DEF Base
<1>1. edits \in Nat /\ edits' \in Nat
  BY <1>0, ConstantsAssumption DEF Types
<1>2. p \in Paths /\ old \in Copies
  BY <1>0, InMapIs
<1>3. x \in Call /\ FlushOK(x) /\ x # Done /\ x.kind = "edit" /\ x.path = p /\ x.file = file
  BY <1>2 DEF Call, EditCall, FlushOK, Done
<1>4. UNCHANGED <<store, call, faults, calls, closed, foreign, atRisk>>
  BY DEF history
<1>5. /\ FILE_STATE' \in FileMap /\ open' = open \ {p}
      /\ \A q \in open' : FILE_STATE'[q] = FILE_STATE[q]
  BY <1>0, MapTake DEF open
<1>6. Moved(t, x)
  <2>1. Awaited(x) = file
    BY <1>3 DEF Awaited
  <2> QED BY <1>0, <1>3, <1>4, <2>1, MovedByOpening
<1>7. Types'
  <2>1. closed' \subseteq 1..edits'
    BY <1>0, <1>1, <1>4 DEF Types
  <2>2. /\ store' \in [Paths -> Text \cup {NoFile}]
        /\ faults' \in 0..MaxFaults /\ foreign' \subseteq Paths /\ atRisk' \subseteq Paths /\ calls' = calls
    BY <1>0, <1>4 DEF Types
  <2> QED BY <1>0, <1>3, <1>5, <1>6, <2>1, <2>2, MoveTypes
<1>8. Copies' \subseteq (Copies \ {old}) \cup {new}
  <2>1. KeptBy(x, t) = {new} /\ KeptBy(task[t], t) = {}
    BY <1>3 DEF KeptBy, Done
  <2>2. InMap' \subseteq InMap \ {old}
    BY <1>5 DEF InMap
  <2>3. old \notin Others(t)
    BY Apart
  <2>4. Copies = InMap \cup Others(t) /\ Copies' = InMap' \cup {new} \cup Others(t)
    BY <1>0, <2>1, CopiesSplit, CopiesMoved
  <2> QED BY <2>2, <2>3, <2>4
<1>9. \E F, g : Descended(F, g)
  <2>1. IsPrefix(old[3].text, new[3].text)
    OBVIOUS
  <2> HIDE DEF old, new
  <2> QED BY <1>0, <1>2, <1>8, <2>1, OneChanges
<1>10. Counts'
  <2>1. \A q \in open' : CountedIn(store', foreign' \cup atRisk', q, FILE_STATE'[q])
    BY <1>0, <1>4, <1>5 DEF Counts, Counted
  <2> QED BY <1>0, <1>3, <1>4, <2>1, SameKeeps, CountsAfter
<1>11. \A d \in Copies' : (\E c \in Copies : c[3] = d[3]) \/ WithinFile(d[3], edits')
  BY <1>8
<1>12. SeenBy(x) = {}
  BY <1>3 DEF SeenBy
<1>13. \A q \in Paths : store'[q] = store[q]
  BY <1>4
<1> HIDE DEF old, new
<1> QED BY <1>3, <1>6, <1>7, <1>9, <1>10, <1>11, <1>12, <1>13, MoveKeeps

LEMMA AppendedFile ==
  ASSUME NEW f \in File, NEW n \in Nat
  PROVE  /\ [f EXCEPT !.text = Append(@, n)] = [text |-> f.text \o <<n>>, ops_since_save |-> f.ops_since_save]
         /\ [f EXCEPT !.text = Append(@, n)] \in File
         /\ IsPrefix(f.text, [f EXCEPT !.text = Append(@, n)].text)
<1> DEFINE file == [f EXCEPT !.text = Append(@, n)]
<1>1. file = [text |-> f.text \o <<n>>, ops_since_save |-> f.ops_since_save]
  <2>1. f = [text |-> f.text, ops_since_save |-> f.ops_since_save] /\ f.text \in Seq(Nat)
    BY DEF File, Text
  <2>2. Append(f.text, n) = f.text \o <<n>>
    BY <2>1
  <2>3. file = [text |-> Append(f.text, n), ops_since_save |-> f.ops_since_save]
    <3>1. \A a, b, c : [[text |-> a, ops_since_save |-> b] EXCEPT !.text = c]
                         = [text |-> c, ops_since_save |-> b]
      OBVIOUS
    <3>2. file = [[text |-> f.text, ops_since_save |-> f.ops_since_save]
                    EXCEPT !.text = Append(f.text, n)]
      BY <2>1, Zenon
    <3> HIDE DEF file
    <3> QED BY <3>1, <3>2
  <2> QED BY <2>2, <2>3
<1>2. /\ f.text \in Text /\ f.ops_since_save \in Nat
      /\ f.text \o <<n>> \in Text /\ IsPrefix(f.text, f.text \o <<n>>)
  <2>1. f.text \in Text /\ f.ops_since_save \in Nat /\ <<n>> \in Seq(Nat)
    BY DEF File
  <2> QED BY <2>1, PrefixOfJoin
<1> HIDE DEF file
<1>3. file \in File /\ IsPrefix(f.text, file.text)
  BY <1>1, <1>2 DEF File
<1> QED BY <1>1, <1>3 DEF file

LEMMA ApplyUpdateToFile ==
  ASSUME Base, NEW t \in Tasks, NEW p \in Paths, apply_update_to_file(t, p)
  PROVE  Base' /\ Continues
<1> DEFINE f == FILE_STATE[p]
           file == [f EXCEPT !.text = Append(@, edits + 1)]
           x == [kind |-> "edit", path |-> p, file |-> file, rest |-> << >>]
<1>0. Types /\ Within
  BY DEF Base
<1>1. edits \in Nat /\ edits' = edits + 1 /\ edits' \in 0..MaxEdits /\ p \in open
  BY <1>0, ConstantsAssumption DEF Types, apply_update_to_file
<1>2. f \in File /\ WithinFile(f, edits)
  <2>1. f \in File /\ <<{}, p, f>> \in Copies
    BY <1>0, <1>1, InMapIs
  <2>2. <<{}, p, f>>[3] = f
    OBVIOUS
  <2> QED BY <1>0, <2>1, <2>2 DEF Within, WithinFile
<1>3. file = [text |-> f.text \o <<edits + 1>>, ops_since_save |-> f.ops_since_save]
  <2>1. edits + 1 \in Nat
    BY <1>1
  <2> HIDE DEF f
  <2> QED BY <1>2, <2>1, AppendedFile
<1>4. /\ task[t] = Done /\ task' = [task EXCEPT ![t] = x] /\ Open(t, Put(p, file))
      /\ FILE_STATE' = Take(p) /\ UNCHANGED <<store, call, faults, calls, history>>
  BY DEF apply_update_to_file, TakenOut
<1>5. x = [kind |-> "edit", path |-> p, file |-> file, rest |-> << >>]
  OBVIOUS
<1> HIDE DEF f, file, x
<1>6. file \in File /\ IsPrefix(f.text, file.text) /\ WithinFile(file, edits')
  <2>1. f.text \in Text /\ f.ops_since_save \in Nat /\ <<edits + 1>> \in Seq(Nat)
    BY <1>1, <1>2 DEF File
  <2>2. f.text \o <<edits + 1>> \in Text /\ IsPrefix(f.text, f.text \o <<edits + 1>>)
    BY <2>1, PrefixOfJoin
  <2>3. ToSet(f.text \o <<edits + 1>>) \subseteq ToSet(f.text) \cup {edits + 1}
    BY <2>1 DEF Text, ToSet
  <2>4. ToSet(f.text \o <<edits + 1>>) \subseteq 1..edits' /\ f.ops_since_save <= edits'
    <3>1. ToSet(f.text) \subseteq 1..edits /\ f.ops_since_save <= edits
      BY <1>2 DEF WithinFile
    <3>2. 1..edits \subseteq 1..edits' /\ edits + 1 \in 1..edits'
      BY <1>1
    <3> QED BY <1>1, <2>1, <2>3, <3>1, <3>2
  <2> QED BY <1>3, <2>1, <2>2, <2>4 DEF File, WithinFile
<1>7. WithinCall(x, edits') /\ << >> \in Seq(Nat \X {"char", "run"}) /\ edits <= edits'
  <2>1. file.ops_since_save + Len(<< >>) <= edits' /\ DOMAIN << >> = {}
    BY <1>6 DEF File, WithinFile
  <2>2. x.kind = "edit" /\ x.file = file /\ x.rest = << >>
    BY <1>5
  <2> QED BY <1>1, <2>1, <2>2 DEF WithinCall
<1>8. IsPrefix(FILE_STATE[p].text, file.text)
  BY <1>6 DEF f
<1> QED BY <1>1, <1>4, <1>5, <1>6, <1>7, <1>8, TakesOut

\* The operations of a transaction are numbered by the edits they are.
LEMMA NumberedTyped ==
  ASSUME edits \in Nat, NEW runs \in Transactions
  PROVE  /\ Len(runs) \in Nat /\ Len(Numbered(runs)) = Len(runs)
         /\ Numbered(runs) \in Seq(Nat \X {"char", "run"})
         /\ \A i \in DOMAIN Numbered(runs) : Numbered(runs)[i][1] \in 1..(edits + Len(runs))
<1>1. PICK n \in 1..MaxRun : runs \in [1..n -> {"char", "run"}]
  BY DEF Transactions
<1>2. n \in Nat /\ Len(runs) = n
  BY <1>1, ConstantsAssumption
<1>3. Numbered(runs) = [i \in 1..n |-> <<edits + i, runs[i]>>]
  BY <1>2 DEF Numbered
<1>4. \A i \in 1..n : /\ <<edits + i, runs[i]>> \in Nat \X {"char", "run"}
                      /\ edits + i \in 1..(edits + n)
  BY <1>1, <1>2
<1> QED BY <1>2, <1>3, <1>4

\* A transaction's edits, up to a save or to the end, are edits that were made.
LEMMA AppliedWithin ==
  ASSUME NEW f \in File, NEW todo \in Seq(Nat \X {"char", "run"}), NEW n \in Nat,
         ToSet(f.text) \subseteq 1..n, f.ops_since_save + Len(todo) <= n,
         \A i \in DOMAIN todo : todo[i][1] \in 1..n,
         NEW d, d = ApplyUntilSave(f, todo)
  PROVE  /\ d.file \in File /\ WithinFile(d.file, n)
         /\ d.rest \in Seq(Nat \X {"char", "run"})
         /\ \A i \in DOMAIN d.rest : d.rest[i][1] \in 1..n
         /\ d.file.ops_since_save + Len(d.rest) <= n
         /\ IsPrefix(f.text, d.file.text)
         /\ ~d.saving => /\ Len(d.file.text) - Len(f.text) = d.file.ops_since_save - f.ops_since_save
                         /\ f.ops_since_save < SAVE_THRESHOLD => d.file.ops_since_save < SAVE_THRESHOLD
<1>1. /\ d.file \in File /\ d.rest \in Seq(Nat \X {"char", "run"})
      /\ IsPrefix(f.text, d.file.text)
      /\ ToSet(d.file.text) \subseteq ToSet(f.text) \cup {todo[i][1] : i \in DOMAIN todo}
      /\ \A i \in DOMAIN d.rest : \E j \in DOMAIN todo : d.rest[i] = todo[j]
      /\ d.file.ops_since_save + Len(d.rest) <= f.ops_since_save + Len(todo)
      /\ ~d.saving =>
           /\ Len(d.file.text) - Len(f.text) = d.file.ops_since_save - f.ops_since_save
           /\ f.ops_since_save < SAVE_THRESHOLD => d.file.ops_since_save < SAVE_THRESHOLD
  BY ApplyEffect
<1>2. ToSet(d.file.text) \subseteq 1..n
  BY <1>1
<1>3. \A i \in DOMAIN d.rest : d.rest[i][1] \in 1..n
  BY <1>1
<1>4. d.file.ops_since_save \in Nat /\ Len(d.rest) \in Nat /\ f.ops_since_save \in Nat /\ Len(todo) \in Nat
  BY <1>1 DEF File
<1>5. d.file.ops_since_save + Len(d.rest) <= n /\ d.file.ops_since_save <= n
  BY <1>1, <1>4
<1> QED BY <1>1, <1>2, <1>3, <1>5 DEF WithinFile

\* What was counted and what is counted on top of it.
LEMMA CountedOn ==
  ASSUME NEW tree \in [Paths -> Text \cup {NoFile}], NEW apart, NEW p \in Paths,
         NEW f \in File, NEW g \in File, IsPrefix(f.text, g.text),
         CountedIn(tree, apart, p, f),
         Len(g.text) - Len(f.text) = g.ops_since_save - f.ops_since_save,
         f.ops_since_save < SAVE_THRESHOLD => g.ops_since_save < SAVE_THRESHOLD
  PROVE  CountedIn(tree, apart, p, g)
<1>1. f.text \in Text /\ g.text \in Text /\ f.ops_since_save \in Nat /\ g.ops_since_save \in Nat
  BY DEF File
<1>2. Id(f.text) = Id(g.text)
  BY <1>1, PrefixOfTexts
<1>3. Len(f.text) \in Nat /\ Len(g.text) \in Nat
  BY <1>1 DEF Text
<1>4. SUFFICES ASSUME p \notin apart, tree[p] # NoFile, Id(tree[p]) = Id(g.text)
               PROVE  /\ Len(g.text) - Len(tree[p]) = g.ops_since_save
                      /\ g.ops_since_save < SAVE_THRESHOLD
  BY DEF CountedIn
<1>5. Len(f.text) - Len(tree[p]) = f.ops_since_save /\ f.ops_since_save < SAVE_THRESHOLD
  BY <1>2, <1>4 DEF CountedIn
<1>6. Len(tree[p]) \in Nat
  BY <1>4 DEF Text
<1>7. Len(g.text) - Len(f.text) = g.ops_since_save - f.ops_since_save
  OBVIOUS
<1>8. g.ops_since_save < SAVE_THRESHOLD
  BY <1>5
<1>9. ASSUME NEW a, a = Len(f.text), NEW b, b = Len(g.text), NEW c, c = Len(tree[p]),
             NEW m, m = g.ops_since_save, NEW n, n = f.ops_since_save
      PROVE  b - c = m
  <2>1. a \in Nat /\ b \in Nat /\ c \in Nat /\ m \in Nat /\ n \in Nat
    BY <1>1, <1>3, <1>6, <1>9
  <2>2. a - c = n /\ b - a = m - n
    BY <1>5, <1>7, <1>9
  <2> QED BY <2>1, <2>2
<1>10. Len(g.text) - Len(tree[p]) = g.ops_since_save
  BY <1>9
<1> QED BY <1>8, <1>10

LEMMA WriteTransactionToFile ==
  ASSUME Base, NEW t \in Tasks, NEW p \in Paths, write_transaction_to_file(t, p)
  PROVE  Base' /\ Continues
<1>0. Types /\ Within /\ Counts
  BY DEF Base
<1>1. task[t] = Done /\ p \in open /\ edits \in Nat
  BY <1>0, ConstantsAssumption DEF Types, write_transaction_to_file
<1>2. PICK runs \in Transactions :
        /\ edits + Len(runs) <= MaxEdits /\ edits' = edits + Len(runs)
        /\ LET d == ApplyUntilSave(FILE_STATE[p], Numbered(runs))
           IN IF d.saving
              THEN /\ FILE_STATE' = TakenOut(p)
                   /\ task' = [task EXCEPT ![t] = [kind |-> "edit", path |-> p,
                                                   file |-> d.file, rest |-> d.rest]]
                   /\ Open(t, Put(p, d.file))
              ELSE FILE_STATE' = Insert(p, d.file) /\ UNCHANGED <<task, queue>>
  BY DEF write_transaction_to_file
<1>3. UNCHANGED <<store, call, faults, calls, history>>
  BY DEF write_transaction_to_file
<1> DEFINE f == FILE_STATE[p]
           todo == Numbered(runs)
<1>4. SUFFICES ASSUME NEW d, d = ApplyUntilSave(f, todo) PROVE Base' /\ Continues
  OBVIOUS
<1>5. Len(runs) \in Nat /\ edits' \in 0..MaxEdits /\ edits <= edits' /\ edits' \in Nat
  BY <1>1, <1>2, NumberedTyped, ConstantsAssumption
<1>6. f \in File /\ <<{}, p, f>> \in Copies /\ ToSet(f.text) \subseteq 1..edits /\ f.ops_since_save <= edits
  <2>1. f \in File /\ <<{}, p, f>> \in Copies
    BY <1>0, <1>1, InMapIs
  <2>2. <<{}, p, f>>[3] = f
    OBVIOUS
  <2> QED BY <1>0, <2>1, <2>2 DEF Within
<1>7. /\ todo \in Seq(Nat \X {"char", "run"}) /\ f.ops_since_save + Len(todo) <= edits'
      /\ \A i \in DOMAIN todo : todo[i][1] \in 1..edits'
      /\ ToSet(f.text) \subseteq 1..edits'
  <2>1. f.ops_since_save \in Nat /\ 1..edits \subseteq 1..edits'
    BY <1>1, <1>5, <1>6 DEF File
  <2>2. /\ Len(todo) = Len(runs) /\ todo \in Seq(Nat \X {"char", "run"})
        /\ \A i \in DOMAIN todo : todo[i][1] \in 1..(edits + Len(runs))
    BY <1>1, NumberedTyped
  <2> HIDE DEF f, todo
  <2> QED BY <1>1, <1>2, <1>5, <1>6, <2>1, <2>2
<1> HIDE DEF todo
<1>8. /\ d.file \in File /\ WithinFile(d.file, edits')
      /\ d.rest \in Seq(Nat \X {"char", "run"})
      /\ \A i \in DOMAIN d.rest : d.rest[i][1] \in 1..edits'
      /\ d.file.ops_since_save + Len(d.rest) <= edits'
      /\ IsPrefix(f.text, d.file.text)
      /\ ~d.saving => /\ Len(d.file.text) - Len(f.text) = d.file.ops_since_save - f.ops_since_save
                      /\ f.ops_since_save < SAVE_THRESHOLD => d.file.ops_since_save < SAVE_THRESHOLD
  <2> HIDE DEF f
  <2> QED BY <1>4, <1>5, <1>6, <1>7, AppliedWithin
<1>9. CASE d.saving
  <2>1. SUFFICES ASSUME NEW x, x = [kind |-> "edit", path |-> p, file |-> d.file, rest |-> d.rest]
                 PROVE  Base' /\ Continues
    OBVIOUS
  <2>2. /\ FILE_STATE' = Take(p) /\ task' = [task EXCEPT ![t] = x] /\ Open(t, Put(p, d.file))
    BY <1>2, <1>4, <1>9, <2>1 DEF TakenOut, todo
  <2>3. WithinCall(x, edits')
    <3>1. x.file = d.file /\ x.rest = d.rest
      BY <2>1
    <3> HIDE DEF f
    <3> QED BY <1>8, <3>1 DEF WithinCall
  <2> QED BY <1>1, <1>3, <1>5, <1>8, <2>1, <2>2, <2>3, TakesOut
<1>10. CASE ~d.saving
  <2> DEFINE old == <<{}, p, f>>
             new == <<{}, p, d.file>>
  <2>1. FILE_STATE' = Insert(p, d.file) /\ UNCHANGED <<task, queue>>
    BY <1>2, <1>4, <1>10 DEF todo
  <2>2. UNCHANGED <<store, queue, call, task, calls, faults, closed, foreign, atRisk>>
    BY <1>3, <2>1 DEF history
  <2>3. /\ FILE_STATE' \in FileMap /\ open' = open
        /\ \A q \in open : FILE_STATE'[q] = IF q = p THEN d.file ELSE FILE_STATE[q]
    <3>1. open \cup {p} = open
      BY <1>1
    <3>2. /\ Insert(p, d.file) \in FileMap /\ DOMAIN Insert(p, d.file) = open
          /\ \A q \in open : Insert(p, d.file)[q] = IF q = p THEN d.file ELSE FILE_STATE[q]
      <4> HIDE DEF f, todo
      <4>1. p \in Paths /\ d.file \in File
        BY <1>0, <1>1, <1>8, InMapIs
      <4> QED BY <1>0, <3>1, <4>1, MapInsert, ZenonT(60)
    <3> QED BY <2>1, <3>2 DEF open
  <2>4. Types'
    <3>1. closed' \subseteq 1..edits'
      BY <1>0, <1>1, <1>5, <2>2 DEF Types
    <3> QED BY <1>0, <1>5, <2>2, <2>3, <3>1, StayTypes
  <2>5. Copies' \subseteq (Copies \ {old}) \cup {new}
    <3>1. InMap' \subseteq (InMap \ {old}) \cup {new}
      BY <2>3 DEF InMap
    <3>2. \A u \in Tasks : old \notin KeptBy(task[u], u)
      BY Apart
    <3>3. Copies' = InMap' \cup UNION {KeptBy(task[u], u) : u \in Tasks}
      BY <2>2 DEF Copies
    <3> QED BY <3>1, <3>2, <3>3 DEF Copies
  <2>6. \E F, g : Descended(F, g)
    <3>1. IsPrefix(old[3].text, new[3].text) /\ old \in Copies
      BY <1>6, <1>8
    <3> HIDE DEF old, new
    <3> QED BY <1>0, <2>5, <3>1, OneChanges
  <2>7. Counts'
    <3>1. CountedIn(store, foreign \cup atRisk, p, f)
      BY <1>0, <1>1 DEF Counts, Counted
    <3>2. CountedIn(store, foreign \cup atRisk, p, d.file)
      <4> HIDE DEF f
      <4>1. store \in [Paths -> Text \cup {NoFile}]
        BY <1>0 DEF Types
      <4> QED BY <1>6, <1>8, <1>10, <3>1, <4>1, CountedOn
    <3>3. \A q \in open' : CountedIn(store, foreign \cup atRisk, q, FILE_STATE'[q])
      BY <1>0, <2>3, <3>2 DEF Counts, Counted
    <3> QED BY <1>0, <2>2, <3>3 DEF Counts, Counted
  <2>8. \A e \in Copies' : (\E c \in Copies : c[3] = e[3]) \/ WithinFile(e[3], edits')
    BY <1>8, <2>5
  <2> QED BY <1>5, <2>2, <2>4, <2>6, <2>7, <2>8, StayKeeps
<1> QED BY <1>9, <1>10

LEMMA FlushAll ==
  ASSUME Base, NEW t \in Tasks, flush_all(t)
  PROVE  Base' /\ Continues
<1>0. Types /\ QueueAgrees /\ Within /\ Counts
  BY DEF Base
<1>1. PICK p \in open :
        /\ task' = [task EXCEPT ![t] = [kind |-> "flush", path |-> p, files |-> FILE_STATE,
                                       left |-> open \ {p},
                                       asked |-> Buffers \ Waiting, seen |-> Buffers]]
        /\ Open(t, Put(p, FILE_STATE[p]))
  BY DEF flush_all
<1>2. SUFFICES ASSUME NEW x, x = [kind |-> "flush", path |-> p, files |-> FILE_STATE,
                                  left |-> open \ {p},
                                  asked |-> Buffers \ Waiting, seen |-> Buffers]
               PROVE  Base' /\ Continues
  OBVIOUS
<1>3. /\ task[t] = Done /\ task' = [task EXCEPT ![t] = x] /\ Open(t, Put(p, FILE_STATE[p]))
      /\ FILE_STATE' = << >>
      /\ UNCHANGED <<store, call, faults, edits, calls, closed, foreign, atRisk>>
  BY <1>1, <1>2 DEF flush_all, history
<1>4. open \subseteq Paths /\ p \in Paths /\ FILE_STATE \in FileMap /\ open = DOMAIN FILE_STATE
  BY <1>0, InMapIs DEF Types, open
<1>5. Buffers \subseteq Paths \X File
  BY <1>0, BuffersAreCopies
<1>6. /\ x.kind = "flush" /\ x.path = p /\ x.files = FILE_STATE /\ x.left = open \ {p}
      /\ x.asked = Buffers \ Waiting /\ x.seen = Buffers
  BY <1>2
<1>7. x \in Call /\ FlushOK(x) /\ x # Done /\ Awaited(x) = FILE_STATE[p]
  <2>1. x \in FlushCall
    <3> HIDE DEF open
    <3> QED BY <1>2, <1>4, <1>5 DEF FlushCall
  <2>2. FlushOK(x)
    BY <1>4, <1>6 DEF FlushOK
  <2>3. x # Done
    BY <1>6 DEF Done
  <2> QED BY <1>6, <2>1, <2>2, <2>3 DEF Call, Awaited
<1>8. Moved(t, x)
  BY <1>0, <1>3, <1>6, <1>7, MovedByOpening
<1>9. FILE_STATE' \in FileMap /\ open' = {} /\ InMap' = {}
  BY <1>3, MapEmpty DEF open, InMap
<1>10. Types'
  <2>1. edits' \in 0..MaxEdits /\ closed' \subseteq 1..edits'
    BY <1>0, <1>3 DEF Types
  <2>2. /\ store' \in [Paths -> Text \cup {NoFile}]
        /\ faults' \in 0..MaxFaults /\ foreign' \subseteq Paths /\ atRisk' \subseteq Paths /\ calls' = calls
    BY <1>0, <1>3 DEF Types
  <2> QED BY <1>0, <1>7, <1>8, <1>9, <2>1, <2>2, MoveTypes
<1>11. Copies = InMap \cup Others(t) /\ Copies' = KeptBy(x, t) \cup Others(t)
  <2>1. KeptBy(task[t], t) = {}
    BY <1>3 DEF KeptBy, Done
  <2> QED BY <1>0, <1>3, <1>9, <2>1, CopiesSplit, CopiesMoved
<1>12. KeptBy(x, t) = {<<{t}, q, FILE_STATE[q]>> : q \in open}
  BY <1>4, <1>6 DEF KeptBy
<1>13. \A d \in Copies' : \/ d[1] = {t} /\ <<{}, d[2], d[3]>> \in Copies /\ d = <<{t}, d[2], d[3]>>
                          \/ d[1] # {} /\ d[1] # {t} /\ d \in Copies
  <2> SUFFICES ASSUME NEW d \in Copies'
               PROVE  \/ d[1] = {t} /\ <<{}, d[2], d[3]>> \in Copies /\ d = <<{t}, d[2], d[3]>>
                      \/ d[1] # {} /\ d[1] # {t} /\ d \in Copies
    OBVIOUS
  <2>1. CASE d \in KeptBy(x, t)
    <3>1. PICK q \in open : d = <<{t}, q, FILE_STATE[q]>>
      BY <1>12, <2>1
    <3>2. <<{}, q, FILE_STATE[q]>> \in Copies
      BY <1>0, InMapIs
    <3> QED BY <3>1, <3>2
  <2>2. CASE d \in Others(t)
    BY <1>11, <2>2, Apart
  <2> QED BY <1>11, <2>1, <2>2
<1>14. \E F, g : Descended(F, g)
  BY <1>0, <1>13, AllTaken
<1>15. ASSUME NEW c \in Copies PROVE \E d \in Copies' : d[3] = c[3]
  <2>1. CASE c \in InMap
    <3>1. PICK q \in open : c = <<{}, q, FILE_STATE[q]>>
      BY <2>1 DEF InMap
    <3>2. <<{t}, q, FILE_STATE[q]>> \in Copies' /\ <<{t}, q, FILE_STATE[q]>>[3] = c[3]
      BY <1>11, <1>12, <3>1
    <3> QED BY <3>2
  <2>2. CASE c \in Others(t)
    BY <1>11, <2>2
  <2> QED BY <1>11, <2>1, <2>2
<1>16. SeenBy(x) \subseteq Known \cup {c[3].text : c \in Copies'}
  <2> SUFFICES ASSUME NEW b \in Buffers PROVE b[2].text \in {c[3].text : c \in Copies'}
    BY <1>6 DEF SeenBy
  <2>1. PICK c \in Copies : c[3] = b[2]
    BY <1>0, BuffersAreCopies
  <2>2. PICK d \in Copies' : d[3] = c[3]
    BY <1>15
  <2> QED BY <2>1, <2>2
<1>17. Counts'
  <2>1. \A q \in open' : CountedIn(store', foreign' \cup atRisk', q, FILE_STATE'[q])
    BY <1>9
  <2>2. \A q \in DOMAIN x.files \ {x.path} : CountedIn(store', foreign' \cup atRisk', q, x.files[q])
    BY <1>0, <1>3, <1>4, <1>6 DEF Counts, Counted
  <2> QED BY <1>0, <1>3, <2>1, <2>2, SameKeeps, CountsAfter
<1>18. \A d \in Copies' : \E c \in Copies : c[3] = d[3]
  BY <1>13
<1>19. WithinCall(x, edits') /\ edits <= edits' /\ \A q \in Paths : store'[q] = store[q]
  BY <1>0, <1>3, <1>6 DEF WithinCall, Types
<1> QED BY <1>7, <1>8, <1>10, <1>14, <1>16, <1>17, <1>18, <1>19, MoveKeeps

-----------------------------------------------------------------------------
(* What follows an await.                                                  *)

\* What every answer to a save brings.
LEMMA CallAnswered ==
  ASSUME Base, NEW t \in Tasks, Served(1, t), NEW answer \in Answers(1),
         NEW x \in Call, FlushOK(x), NEW requests,
         requests = IF x = Done THEN << >> ELSE Put(x.path, Awaited(x)),
         Answer(1, answer, requests), Recorded(task[t].path, answer),
         task' = [task EXCEPT ![t] = x], UNCHANGED <<call, edits, calls>>,
         FILE_STATE' \in FileMap, closed' \subseteq 1..edits
  PROVE  /\ Moved(t, x) /\ Types' /\ task[t] # Done /\ edits <= edits'
         /\ task[t].path \in Paths /\ Awaited(task[t]) \in File
         /\ answer = "ok" => Landed(task[t].path, Awaited(task[t]).text)
         /\ answer # "ok" => Failed(task[t].path)
         /\ \A p \in Paths : store'[p] = store[p] \/ store'[p] = Awaited(task[t]).text
         /\ \A c \in InMap \cup Others(t) : Keeps(c)
<1>0. Types /\ QueueAgrees /\ Unique(Copies)
  BY DEF Base
<1>1. Moved(t, x)
  BY <1>0, MovedByAnswer
<1>2. /\ task[t] # Done /\ faults' \in 0..MaxFaults
      /\ task[t].path \in Paths /\ Awaited(task[t]) \in File
      /\ answer = "ok" => Landed(task[t].path, Awaited(task[t]).text)
      /\ answer # "ok" => Failed(task[t].path)
  BY <1>0, SaveAnswered
<1>3. /\ store' \in [Paths -> Text \cup {NoFile}]
      /\ foreign' \subseteq Paths /\ atRisk' \subseteq Paths
      /\ \A p \in Paths : store'[p] = store[p] \/ store'[p] = Awaited(task[t]).text
  <2>1. CASE answer = "ok"
    BY <1>0, <1>2, <2>1 DEF Landed, Types
  <2>2. CASE answer # "ok"
    BY <1>0, <1>2, <2>2 DEF Failed, Types
  <2> QED BY <2>1, <2>2
<1>4. Types' /\ edits <= edits'
  <2>1. edits' \in 0..MaxEdits /\ closed' \subseteq 1..edits' /\ edits <= edits'
    BY <1>0 DEF Types
  <2> QED BY <1>0, <1>1, <1>2, <1>3, <2>1, MoveTypes
<1>5. \A c \in InMap \cup Others(t) : Keeps(c)
  <2> SUFFICES ASSUME NEW c \in InMap \cup Others(t) PROVE Keeps(c)
    OBVIOUS
  <2>1. c \in Copies
    BY CopiesSplit
  <2>2. c[1] # {t}
    BY Apart
  <2>3. c # <<{t}, task[t].path, Awaited(task[t])>>
    BY <2>2
  <2>4. Landed(task[t].path, Awaited(task[t]).text) \/ Failed(task[t].path)
    BY <1>2
  <2> QED BY <1>0, <1>2, <2>1, <2>3, <2>4, SaveKeeps
<1> QED BY <1>1, <1>2, <1>3, <1>4, <1>5

LEMMA DoneIsCall == Done \in Call /\ FlushOK(Done) /\ \A t : KeptBy(Done, t) = {}
                    /\ SeenBy(Done) = {} /\ \A n : WithinCall(Done, n)
BY DEF Done, Call, FlushOK, KeptBy, SeenBy, WithinCall

\* The awaited copy has nothing to count when its save has succeeded, and is
\* not looked at when it has not.
LEMMA SavedCounts ==
  ASSUME NEW p \in Paths, NEW y \in File, Landed(p, y.text) \/ Failed(p),
         NEW f \in File,
         Landed(p, y.text) => /\ IsPrefix(y.text, f.text)
                              /\ Len(f.text) - Len(y.text) = f.ops_since_save
                              /\ f.ops_since_save < SAVE_THRESHOLD
  PROVE  CountedIn(store', foreign' \cup atRisk', p, f)
<1>1. CASE Landed(p, y.text)
  <2>1. store'[p] = y.text
    BY <1>1 DEF Landed
  <2> QED BY <1>1, <2>1 DEF CountedIn
<1>2. CASE Failed(p)
  BY <1>2 DEF Failed, CountedIn
<1> QED BY <1>1, <1>2

LEMMA InsertSavedStep ==
  ASSUME Base, NEW t \in Tasks, InsertSaved(t)
  PROVE  Base' /\ Continues
<1> DEFINE p == task[t].path
           f == task[t].file
           old == <<{t}, p, f>>
           new == <<{}, p, f>>
<1>0. Types /\ QueueAgrees /\ Within /\ Counts
  BY DEF Base
<1>1. PICK answer \in Answers(1) :
        /\ Answer(1, answer, << >>) /\ Recorded(p, answer)
        /\ IF answer = "error" THEN UNCHANGED <<FILE_STATE, closed>>
           ELSE /\ FILE_STATE' = Insert(p, f)
                /\ closed' = closed \cup BuffersAt(p)
  BY DEF InsertSaved
<1>2. /\ Served(1, t) /\ task[t].kind = "insert" /\ task' = [task EXCEPT ![t] = Done]
      /\ UNCHANGED <<call, edits, calls>>
  BY DEF InsertSaved
<1>3. /\ task[t] \in InsertCall /\ p \in Paths /\ f \in File /\ f.ops_since_save = 0
      /\ Awaited(task[t]) = f /\ KeptBy(task[t], t) = {old}
  <2>1. task[t] \in InsertCall
    BY <1>0, <1>2, CallKinds DEF Types
  <2> QED BY <1>2, <2>1 DEF InsertCall, Awaited, KeptBy
<1> HIDE DEF p, f
<1>4. /\ FILE_STATE' \in FileMap /\ closed' \subseteq 1..edits
      /\ \A q \in open' : \/ q \in open /\ FILE_STATE'[q] = FILE_STATE[q]
                          \/ q = p /\ FILE_STATE'[q] = f
  <2>1. CASE answer = "error"
    BY <1>0, <1>1, <2>1 DEF Types, open
  <2>2. CASE answer # "error"
    <3>1. FILE_STATE' = Insert(p, f) /\ closed' = closed \cup BuffersAt(p)
      BY <1>1, <2>2
    <3>2. closed' \subseteq 1..edits
      BY <1>0, <3>1, BuffersAtMade DEF Types
    <3>3. /\ Insert(p, f) \in FileMap /\ DOMAIN Insert(p, f) = open \cup {p}
          /\ \A q \in open \cup {p} : Insert(p, f)[q] = IF q = p THEN f ELSE FILE_STATE[q]
      BY <1>0, <1>3, MapInsert
    <3> QED BY <3>1, <3>2, <3>3 DEF open
  <2> QED BY <2>1, <2>2
<1>5. /\ Moved(t, Done) /\ Types' /\ task[t] # Done /\ edits <= edits'
      /\ answer = "ok" => Landed(p, f.text)
      /\ answer # "ok" => Failed(p)
      /\ \A q \in Paths : store'[q] = store[q] \/ store'[q] = f.text
      /\ \A c \in InMap \cup Others(t) : Keeps(c)
  <2>1. Recorded(task[t].path, answer) /\ Done \in Call /\ FlushOK(Done)
    BY <1>1, DoneIsCall DEF p
  <2> QED BY <1>1, <1>2, <1>3, <1>4, <2>1, CallAnswered DEF p
<1>6. Copies' \subseteq (Copies \ {old}) \cup {new}
  <2>1. Copies = InMap \cup {old} \cup Others(t) /\ Copies' = InMap' \cup Others(t)
    BY <1>0, <1>2, <1>3, DoneIsCall, CopiesSplit, CopiesMoved
  <2>2. InMap' \subseteq InMap \cup {new}
    BY <1>4 DEF InMap
  <2>3. old \notin InMap \cup Others(t) /\ new # old
    BY Apart
  <2> QED BY <2>1, <2>2, <2>3
<1>7. old \in Copies
  BY <1>3, CopiesSplit
<1>8. \E F, g : Descended(F, g)
  <2>1. IsPrefix(old[3].text, new[3].text)
    BY <1>3, PrefixOfTexts DEF File
  <2> HIDE DEF old, new
  <2> QED BY <1>0, <1>6, <1>7, <2>1, OneChanges
<1>9. Counts'
  <2>1. CountedIn(store', foreign' \cup atRisk', p, f)
    <3>1. f.text \in Text /\ SAVE_THRESHOLD \in Nat \ {0}
      BY <1>3, ConstantsAssumption DEF File
    <3>2. IsPrefix(f.text, f.text) /\ Len(f.text) - Len(f.text) = f.ops_since_save /\ f.ops_since_save < SAVE_THRESHOLD
      BY <1>3, <3>1, PrefixOfTexts DEF Text
    <3> QED BY <1>3, <1>5, <3>2, SavedCounts
  <2>2. ASSUME NEW q \in open' PROVE CountedIn(store', foreign' \cup atRisk', q, FILE_STATE'[q])
    <3>1. CASE q = p /\ FILE_STATE'[q] = f
      BY <2>1, <3>1
    <3>2. CASE q \in open /\ FILE_STATE'[q] = FILE_STATE[q]
      <4>1. Keeps(<<{}, q, FILE_STATE[q]>>)
        BY <1>5, <3>2 DEF InMap
      <4>2. CountedIn(store, foreign \cup atRisk, q, FILE_STATE[q])
        BY <1>0, <3>2 DEF Counts, Counted
      <4> QED BY <3>2, <4>1, <4>2 DEF Keeps
    <3> QED BY <1>4, <3>1, <3>2
  <2>3. Done.kind # "flush" /\ \A c \in Others(t) : Keeps(c)
    BY <1>5 DEF Done
  <2> QED BY <1>0, <1>2, <2>2, <2>3, CountsAfter
<1>10. \A d \in Copies' : \E c \in Copies : c[3] = d[3]
  <2>1. old[3] = new[3]
    OBVIOUS
  <2> HIDE DEF old, new
  <2> QED BY <1>6, <1>7, <2>1
<1>11. \A q \in Paths : \/ store'[q] = store[q]
                        \/ task[t] # Done /\ store'[q] = Awaited(task[t]).text
  BY <1>3, <1>5
<1> HIDE DEF old, new
<1> QED BY <1>5, <1>8, <1>9, <1>10, <1>11, DoneIsCall, MoveKeeps

LEMMA SavedFile ==
  ASSUME NEW f \in File
  PROVE  saved(f) \in File /\ saved(f).text = f.text /\ saved(f).ops_since_save = 0
<1>1. f = [text |-> f.text, ops_since_save |-> f.ops_since_save] /\ f.text \in Text
  BY DEF File
<1>2. \A a, b : [[text |-> a, ops_since_save |-> b] EXCEPT !.ops_since_save = 0]
                = [text |-> a, ops_since_save |-> 0]
  OBVIOUS
<1>3. saved(f) = [[text |-> f.text, ops_since_save |-> f.ops_since_save] EXCEPT !.ops_since_save = 0]
  BY <1>1, Zenon DEF saved
<1>4. saved(f) = [text |-> f.text, ops_since_save |-> 0]
  BY <1>2, <1>3
<1> QED BY <1>1, <1>4 DEF File

\* A transaction that goes on.
LEMMA EditGoesOn ==
  ASSUME Types, NEW t \in Tasks, task[t].kind = "edit", NEW file, NEW rest
  PROVE  [task EXCEPT ![t].file = file, ![t].rest = rest] =
         [task EXCEPT ![t] = [kind |-> "edit", path |-> task[t].path, file |-> file, rest |-> rest]]
<1>1. task[t] \in EditCall
  BY CallKinds DEF Types
<1>2. [task[t] EXCEPT !.file = file, !.rest = rest]
        \in [kind : {"edit"}, path : {task[t].path}, file : {file}, rest : {rest}]
  BY <1>1 DEF EditCall
<1>3. \A y : y \in [kind : {"edit"}, path : {task[t].path}, file : {file}, rest : {rest}] =>
               y = [kind |-> "edit", path |-> task[t].path, file |-> file, rest |-> rest]
  OBVIOUS
<1>4. [task[t] EXCEPT !.file = file, !.rest = rest]
      = [kind |-> "edit", path |-> task[t].path, file |-> file, rest |-> rest]
  BY <1>2, <1>3, Zenon
<1>5. [task EXCEPT ![t].file = file, ![t].rest = rest]
      = [task EXCEPT ![t] = [task[t] EXCEPT !.file = file, !.rest = rest]]
  BY DEF Types
<1> QED BY <1>4, <1>5, Zenon

LEMMA EditSavedStep ==
  ASSUME Base, NEW t \in Tasks, EditSaved(t)
  PROVE  Base' /\ Continues
<1> DEFINE p == task[t].path
           f == task[t].file
           old == <<{t}, p, f>>
<1>0. Types /\ QueueAgrees /\ Within /\ Counts
  BY DEF Base
<1>1. PICK answer \in Answers(1) :
       LET d == IF answer = "error"
                THEN [file |-> task[t].file, rest |-> << >>, saving |-> FALSE]
                ELSE ApplyUntilSave(saved(task[t].file), task[t].rest)
       IN /\ Answer(1, answer, IF d.saving THEN Put(p, d.file) ELSE << >>)
          /\ Recorded(p, answer)
          /\ IF d.saving
             THEN /\ task' = [task EXCEPT ![t].file = d.file, ![t].rest = d.rest]
                  /\ UNCHANGED FILE_STATE
             ELSE /\ task' = [task EXCEPT ![t] = Done]
                  /\ FILE_STATE' = Insert(p, d.file)
  BY DEF EditSaved
<1>2. Served(1, t) /\ task[t].kind = "edit" /\ UNCHANGED <<call, edits, calls, closed>>
  BY DEF EditSaved
<1>3. /\ task[t] \in EditCall /\ p \in Paths /\ f \in File /\ task[t].rest \in Seq(Nat \X {"char", "run"})
      /\ Awaited(task[t]) = f /\ KeptBy(task[t], t) = {old}
  <2>1. task[t] \in EditCall
    BY <1>0, <1>2, CallKinds DEF Types
  <2> QED BY <1>2, <2>1 DEF EditCall, Awaited, KeptBy
<1>4. SUFFICES ASSUME NEW d, d = IF answer = "error"
                                 THEN [file |-> f, rest |-> << >>, saving |-> FALSE]
                                 ELSE ApplyUntilSave(saved(f), task[t].rest)
               PROVE  Base' /\ Continues
  OBVIOUS
<1>5. /\ Answer(1, answer, IF d.saving THEN Put(p, d.file) ELSE << >>)
      /\ Recorded(p, answer)
      /\ d.saving => /\ task' = [task EXCEPT ![t] = [kind |-> "edit", path |-> p, file |-> d.file, rest |-> d.rest]]
                     /\ UNCHANGED FILE_STATE
      /\ ~d.saving => /\ task' = [task EXCEPT ![t] = Done]
                      /\ FILE_STATE' = Insert(p, d.file)
  <2>0. Types /\ task[t].kind = "edit"
    BY <1>0, <1>2
  <2>1. [task EXCEPT ![t].file = d.file, ![t].rest = d.rest] =
        [task EXCEPT ![t] = [kind |-> "edit", path |-> p, file |-> d.file, rest |-> d.rest]]
    <3>1. \A file, rest :
            [task EXCEPT ![t].file = file, ![t].rest = rest] =
            [task EXCEPT ![t] = [kind |-> "edit", path |-> task[t].path, file |-> file, rest |-> rest]]
      BY <2>0, EditGoesOn, Zenon
    <3> QED BY <3>1, Zenon
  <2>2. /\ Answer(1, answer, IF d.saving THEN Put(p, d.file) ELSE << >>)
        /\ Recorded(p, answer)
        /\ IF d.saving
           THEN /\ task' = [task EXCEPT ![t].file = d.file, ![t].rest = d.rest]
                /\ UNCHANGED FILE_STATE
           ELSE /\ task' = [task EXCEPT ![t] = Done]
                /\ FILE_STATE' = Insert(p, d.file)
    BY <1>1, <1>4
  <2> HIDE DEF p
  <2>3. CASE d.saving
    BY <2>1, <2>2, <2>3
  <2>4. CASE ~d.saving
    BY <2>2, <2>4
  <2> QED BY <2>2, <2>3, <2>4
<1>6. WithinFile(f, edits) /\ WithinCall(task[t], edits)
  <2>1. old \in Copies /\ old[3] = f
    BY <1>3, CopiesSplit
  <2>2. ToSet(old[3].text) \subseteq 1..edits /\ old[3].ops_since_save <= edits
    BY <1>0, <2>1 DEF Within
  <2>3. WithinCall(task[t], edits)
    BY <1>0 DEF Within, WithinCall
  <2> QED BY <2>1, <2>2, <2>3 DEF WithinFile
<1>7. edits \in Nat
  BY <1>0, ConstantsAssumption DEF Types
<1> HIDE DEF p, f
<1>8. /\ d.file \in File /\ WithinFile(d.file, edits)
      /\ d.rest \in Seq(Nat \X {"char", "run"})
      /\ \A i \in DOMAIN d.rest : d.rest[i][1] \in 1..edits
      /\ d.file.ops_since_save + Len(d.rest) <= edits
      /\ IsPrefix(f.text, d.file.text)
      /\ answer = "ok" /\ ~d.saving => /\ Len(d.file.text) - Len(f.text) = d.file.ops_since_save
                                      /\ d.file.ops_since_save < SAVE_THRESHOLD
  <2>1. CASE answer = "error"
    <3>1. d.file = f /\ d.rest = << >>
      BY <1>4, <2>1
    <3>2. f.text \in Text /\ f.ops_since_save \in Nat
      BY <1>3 DEF File
    <3>3. IsPrefix(f.text, f.text)
      BY <3>2, PrefixOfTexts
    <3>4. << >> \in Seq(Nat \X {"char", "run"}) /\ Len(<< >>) = 0 /\ DOMAIN << >> = {}
      OBVIOUS
    <3>5. f.ops_since_save + 0 <= edits
      BY <1>6, <3>2 DEF WithinFile
    <3> QED BY <1>3, <1>6, <2>1, <3>1, <3>3, <3>4, <3>5
  <2>2. CASE answer # "error"
    <3> DEFINE g == saved(f)
               todo == task[t].rest
    <3>1. d = ApplyUntilSave(g, todo)
      BY <1>4, <2>2
    <3>2. g \in File /\ g.text = f.text /\ g.ops_since_save = 0
      BY <1>3, SavedFile
    <3>3. ToSet(g.text) \subseteq 1..edits
      BY <1>6, <3>2 DEF WithinFile
    <3>4. f.ops_since_save \in Nat /\ Len(todo) \in Nat /\ todo \in Seq(Nat \X {"char", "run"})
      BY <1>3 DEF File
    <3>5. f.ops_since_save + Len(todo) <= edits /\ \A i \in DOMAIN todo : todo[i][1] \in 1..edits
      BY <1>2, <1>6 DEF WithinCall, f
    <3>6. g.ops_since_save + Len(todo) <= edits
      BY <1>7, <3>2, <3>4, <3>5
    <3> HIDE DEF g, todo
    <3>7. /\ d.file \in File /\ WithinFile(d.file, edits)
          /\ d.rest \in Seq(Nat \X {"char", "run"})
          /\ \A i \in DOMAIN d.rest : d.rest[i][1] \in 1..edits
          /\ d.file.ops_since_save + Len(d.rest) <= edits
          /\ IsPrefix(g.text, d.file.text)
          /\ ~d.saving => /\ Len(d.file.text) - Len(g.text) = d.file.ops_since_save - g.ops_since_save
                          /\ g.ops_since_save < SAVE_THRESHOLD => d.file.ops_since_save < SAVE_THRESHOLD
      BY <1>7, <3>1, <3>2, <3>3, <3>4, <3>5, <3>6, AppliedWithin
    <3>8. d.file.ops_since_save \in Nat /\ SAVE_THRESHOLD \in Nat \ {0}
      BY <3>7, ConstantsAssumption DEF File
    <3>9. 0 < SAVE_THRESHOLD /\ d.file.ops_since_save - 0 = d.file.ops_since_save
      BY <3>8
    <3> QED BY <3>2, <3>7, <3>9
  <2> QED BY <2>1, <2>2
<1>9. ASSUME NEW x, NEW new,
             x = IF d.saving THEN [kind |-> "edit", path |-> p, file |-> d.file, rest |-> d.rest] ELSE Done,
             new = IF d.saving THEN <<{t}, p, d.file>> ELSE <<{}, p, d.file>>
      PROVE  Base' /\ Continues
  <2>1. /\ x \in Call /\ FlushOK(x) /\ (x = Done <=> ~d.saving) /\ x.kind # "flush"
        /\ KeptBy(x, t) = IF d.saving THEN {new} ELSE {}
        /\ WithinCall(x, edits) /\ SeenBy(x) = {}
        /\ (IF x = Done THEN << >> ELSE Put(x.path, Awaited(x))) = IF d.saving THEN Put(p, d.file) ELSE << >>
    <3>1. CASE d.saving
      <4>1. /\ x = [kind |-> "edit", path |-> p, file |-> d.file, rest |-> d.rest]
            /\ x.kind = "edit" /\ x.path = p /\ x.file = d.file /\ x.rest = d.rest
        BY <1>9, <3>1
      <4>2. x \in EditCall /\ x # Done
        BY <1>3, <1>8, <4>1 DEF EditCall, Done
      <4>3. KeptBy(x, t) = {new} /\ Awaited(x) = d.file /\ SeenBy(x) = {} /\ FlushOK(x)
        BY <1>9, <3>1, <4>1 DEF KeptBy, Awaited, SeenBy, FlushOK
      <4>4. WithinCall(x, edits)
        BY <1>8, <4>1 DEF WithinCall
      <4> QED BY <3>1, <4>1, <4>2, <4>3, <4>4 DEF Call
    <3>2. CASE ~d.saving
      BY <1>9, <3>2, DoneIsCall DEF Done
    <3> QED BY <3>1, <3>2
  <2>2. task' = [task EXCEPT ![t] = x]
    BY <1>5, <1>9
  <2>3. /\ FILE_STATE' \in FileMap
        /\ \A q \in open' : \/ q \in open /\ FILE_STATE'[q] = FILE_STATE[q]
                            \/ q = p /\ FILE_STATE'[q] = d.file /\ ~d.saving
    <3>1. CASE d.saving
      BY <1>0, <1>5, <3>1 DEF Types, open
    <3>2. CASE ~d.saving
      <4>1. /\ Insert(p, d.file) \in FileMap /\ DOMAIN Insert(p, d.file) = open \cup {p}
            /\ \A q \in open \cup {p} : Insert(p, d.file)[q] = IF q = p THEN d.file ELSE FILE_STATE[q]
        BY <1>0, <1>3, <1>8, MapInsert
      <4> QED BY <1>5, <3>2, <4>1 DEF open
    <3> QED BY <3>1, <3>2
  <2>4. /\ Moved(t, x) /\ Types' /\ task[t] # Done /\ edits <= edits'
        /\ answer = "ok" => Landed(p, f.text)
        /\ answer # "ok" => Failed(p)
        /\ \A q \in Paths : store'[q] = store[q] \/ store'[q] = f.text
        /\ \A c \in InMap \cup Others(t) : Keeps(c)
    <3>1. SUFFICES ASSUME NEW requests, requests = IF d.saving THEN Put(p, d.file) ELSE << >>
                   PROVE  /\ Moved(t, x) /\ Types' /\ task[t] # Done /\ edits <= edits'
                          /\ answer = "ok" => Landed(p, f.text)
                          /\ answer # "ok" => Failed(p)
                          /\ \A q \in Paths : store'[q] = store[q] \/ store'[q] = f.text
                          /\ \A c \in InMap \cup Others(t) : Keeps(c)
      OBVIOUS
    <3>2. /\ Answer(1, answer, requests) /\ Recorded(task[t].path, answer)
          /\ requests = IF x = Done THEN << >> ELSE Put(x.path, Awaited(x))
      BY <1>5, <2>1, <3>1 DEF p
    <3>3. closed' \subseteq 1..edits
      BY <1>0, <1>2 DEF Types
    <3> QED BY <1>2, <1>3, <2>1, <2>2, <2>3, <3>2, <3>3, CallAnswered DEF p
  <2>5. Copies' \subseteq (Copies \ {old}) \cup {new}
    <3>1. Copies = InMap \cup {old} \cup Others(t) /\ Copies' = InMap' \cup KeptBy(x, t) \cup Others(t)
      BY <1>0, <1>3, <2>2, CopiesSplit, CopiesMoved
    <3>2. InMap' \subseteq InMap \cup {new}
      BY <1>9, <2>3 DEF InMap
    <3>3. old \notin InMap \cup Others(t)
      BY Apart
    <3>4. InMap' \subseteq (InMap \ {old}) \cup {new}
      BY <3>2, <3>3
    <3>5. KeptBy(x, t) \subseteq {new}
      BY <2>1
    <3> QED BY <3>1, <3>3, <3>4, <3>5
  <2>6. old \in Copies /\ new[3] = d.file /\ old[3] = f
    BY <1>3, <1>9, CopiesSplit
  <2>7. \E F, g : Descended(F, g)
    <3>1. IsPrefix(old[3].text, new[3].text)
      BY <1>8, <2>6
    <3> HIDE DEF old
    <3> QED BY <1>0, <2>5, <2>6, <3>1, OneChanges
  <2>8. Counts'
    <3>1. ~d.saving => CountedIn(store', foreign' \cup atRisk', p, d.file)
      <4>1. Landed(p, f.text) => answer = "ok" \/ Failed(p)
        BY <2>4
      <4>2. CASE answer = "ok"
        BY <1>3, <1>8, <2>4, <4>2, SavedCounts
      <4>3. CASE answer # "ok"
        BY <2>4, <4>3 DEF Failed, CountedIn
      <4> QED BY <4>2, <4>3
    <3>2. ASSUME NEW q \in open' PROVE CountedIn(store', foreign' \cup atRisk', q, FILE_STATE'[q])
      <4>1. CASE q = p /\ FILE_STATE'[q] = d.file /\ ~d.saving
        BY <3>1, <4>1
      <4>2. CASE q \in open /\ FILE_STATE'[q] = FILE_STATE[q]
        <5>1. Keeps(<<{}, q, FILE_STATE[q]>>)
          BY <2>4, <4>2 DEF InMap
        <5>2. CountedIn(store, foreign \cup atRisk, q, FILE_STATE[q])
          BY <1>0, <4>2 DEF Counts, Counted
        <5> QED BY <4>2, <5>1, <5>2 DEF Keeps
      <4> QED BY <2>3, <4>1, <4>2
    <3>3. \A c \in Others(t) : Keeps(c)
      BY <2>4
    <3> QED BY <1>0, <2>1, <2>2, <3>2, <3>3, CountsAfter
  <2>9. \A e \in Copies' : (\E c \in Copies : c[3] = e[3]) \/ WithinFile(e[3], edits')
    <3>1. WithinFile(new[3], edits')
      BY <1>2, <1>8, <2>6
    <3> QED BY <2>5, <3>1
  <2>10. \A q \in Paths : \/ store'[q] = store[q]
                          \/ task[t] # Done /\ store'[q] = Awaited(task[t]).text
    BY <1>3, <2>4
  <2>11. WithinCall(x, edits') /\ SeenBy(x) \subseteq Known \cup {c[3].text : c \in Copies'}
    BY <1>2, <2>1
  <2> QED BY <2>1, <2>4, <2>7, <2>8, <2>9, <2>10, <2>11, MoveKeeps
<1> QED BY <1>9

\* A flush that goes on.
FlushGoing(x, files, q) ==
  [kind |-> "flush", path |-> q, files |-> files, left |-> x.left \ {q},
   asked |-> x.asked, seen |-> x.seen]

LEMMA FlushGoesOn ==
  ASSUME Types, NEW t \in Tasks, task[t].kind = "flush", NEW q, NEW files
  PROVE  [task EXCEPT ![t].path = q, ![t].files = files, ![t].left = @ \ {q}] =
         [task EXCEPT ![t] = FlushGoing(task[t], files, q)]
<1>1. task[t] \in FlushCall
  BY CallKinds DEF Types
<1> DEFINE y == task[t]
           S == [kind : {"flush"}, path : {q}, files : {files}, left : {y.left \ {q}},
                 asked : {y.asked}, seen : {y.seen}]
<1>2. [y EXCEPT !.path = q, !.files = files, !.left = @ \ {q}] \in S
  <2>1. y \in FlushCall
    BY <1>1
  <2> HIDE DEF y
  <2> QED BY <2>1 DEF FlushCall
<1>3. \A z : z \in S => z = FlushGoing(y, files, q)
  BY DEF FlushGoing
<1>4. [y EXCEPT !.path = q, !.files = files, !.left = @ \ {q}] = FlushGoing(y, files, q)
  <2> HIDE DEF y, S
  <2> QED BY <1>2, <1>3, Zenon
<1>5. [task EXCEPT ![t].path = q, ![t].files = files, ![t].left = @ \ {q}]
      = [task EXCEPT ![t] = [task[t] EXCEPT !.path = q, !.files = files, !.left = @ \ {q}]]
  BY DEF Types
<1> QED BY <1>4, <1>5, Zenon

\* The buffers of a flush after one of them was saved, or not.
AfterSave(m, p, answer) == IF answer = "error" THEN m ELSE [m EXCEPT ![p] = saved(@)]

LEMMA FlushedFiles ==
  ASSUME NEW m \in FileMap, NEW p \in DOMAIN m, NEW answer, NEW files,
         files = AfterSave(m, p, answer)
  PROVE  /\ files \in FileMap /\ DOMAIN files = DOMAIN m
         /\ \A q \in DOMAIN m : /\ files[q] \in File /\ files[q].text = m[q].text
                                /\ files[q].ops_since_save <= m[q].ops_since_save
                                /\ q # p => files[q] = m[q]
         /\ answer # "error" => files[p].ops_since_save = 0
<1>1. DOMAIN m \subseteq Paths /\ m \in [DOMAIN m -> File]
  BY DEF FileMap
<1>2. m[p] \in File /\ saved(m[p]) \in File /\ saved(m[p]).text = m[p].text /\ saved(m[p]).ops_since_save = 0
  BY <1>1, SavedFile
<1>3. \A q \in DOMAIN m : m[q].ops_since_save \in Nat
  BY <1>1 DEF File
<1>4. CASE answer = "error"
  BY <1>1, <1>3, <1>4 DEF AfterSave
<1>5. CASE answer # "error"
  <2>1. files = [q \in DOMAIN m |-> IF q = p THEN saved(m[p]) ELSE m[q]]
    BY <1>1, <1>5 DEF AfterSave
  <2>2. files \in [DOMAIN m -> File]
    BY <1>1, <1>2, <2>1
  <2>3. files \in FileMap
    BY <1>1, <2>2, MapIs
  <2>4. \A q \in DOMAIN m : files[q] = IF q = p THEN saved(m[p]) ELSE m[q]
    BY <2>1
  <2>5. \A q \in DOMAIN m : files[q].ops_since_save <= m[q].ops_since_save /\ files[q].text = m[q].text
    BY <1>2, <1>3, <2>4
  <2> QED BY <1>1, <1>2, <2>2, <2>3, <2>4, <2>5
<1> QED BY <1>4, <1>5

LEMMA FlushSavedStep ==
  ASSUME Base, NEW t \in Tasks, FlushSaved(t)
  PROVE  Base' /\ Continues
<1> DEFINE p == task[t].path
           m == task[t].files
           f == task[t].files[task[t].path]
           old == <<{t}, p, f>>
<1>0. Types /\ QueueAgrees /\ Within /\ Counts /\ Unique(Copies)
  BY DEF Base
<1>1. PICK answer \in Answers(1) :
       LET files == AfterSave(m, p, answer)
       IN /\ Recorded(p, answer)
          /\ \/ /\ task[t].left = {}
                /\ Answer(1, answer, << >>)
                /\ FILE_STATE' = Extend(files)
                /\ task' = [task EXCEPT ![t] = Done]
             \/ \E q \in task[t].left :
                  /\ Answer(1, answer, Put(q, files[q]))
                  /\ task' = [task EXCEPT ![t].path = q, ![t].files = files,
                                          ![t].left = @ \ {q}]
                  /\ UNCHANGED FILE_STATE
  BY DEF FlushSaved, AfterSave
<1>2. Served(1, t) /\ task[t].kind = "flush" /\ UNCHANGED <<call, edits, calls, closed>>
  BY DEF FlushSaved
<1>3. /\ task[t] \in FlushCall /\ FlushOK(task[t]) /\ m \in FileMap /\ p \in DOMAIN m /\ p \in Paths
      /\ task[t].left \subseteq DOMAIN m \ {p} /\ Awaited(task[t]) = f /\ task[t] # Done
      /\ KeptBy(task[t], t) = {<<{t}, q, m[q]>> : q \in DOMAIN m}
  <2>1. task[t] \in FlushCall /\ FlushOK(task[t])
    BY <1>0, <1>2, CallKinds DEF Types
  <2> QED BY <1>2, <2>1 DEF FlushCall, FlushOK, Awaited, KeptBy, Done
<1>4. DOMAIN m \subseteq Paths /\ f \in File
  BY <1>3, MapTyped
<1>5. SUFFICES ASSUME NEW files, files = AfterSave(m, p, answer)
               PROVE  Base' /\ Continues
  OBVIOUS
<1>6. /\ Recorded(p, answer)
      /\ \/ /\ task[t].left = {}
            /\ Answer(1, answer, << >>)
            /\ FILE_STATE' = Extend(files)
            /\ task' = [task EXCEPT ![t] = Done]
         \/ \E q \in task[t].left :
              /\ Answer(1, answer, Put(q, files[q]))
              /\ task' = [task EXCEPT ![t] = FlushGoing(task[t], files, q)]
              /\ UNCHANGED FILE_STATE
  <2> HIDE DEF p, m
  <2>1. /\ Recorded(p, answer)
        /\ \/ /\ task[t].left = {}
              /\ Answer(1, answer, << >>)
              /\ FILE_STATE' = Extend(files)
              /\ task' = [task EXCEPT ![t] = Done]
           \/ \E q \in task[t].left :
                /\ Answer(1, answer, Put(q, files[q]))
                /\ task' = [task EXCEPT ![t].path = q, ![t].files = files,
                                        ![t].left = @ \ {q}]
                /\ UNCHANGED FILE_STATE
    BY <1>1, <1>5, Zenon
  <2>2. ASSUME NEW q PROVE [task EXCEPT ![t].path = q, ![t].files = files, ![t].left = @ \ {q}]
                            = [task EXCEPT ![t] = FlushGoing(task[t], files, q)]
    BY <1>0, <1>2, FlushGoesOn
  <2> QED BY <2>1, <2>2, Zenon
<1> HIDE DEF p, m, f
<1>7. /\ files \in FileMap /\ DOMAIN files = DOMAIN m
      /\ \A q \in DOMAIN m : /\ files[q] \in File /\ files[q].text = m[q].text
                             /\ files[q].ops_since_save <= m[q].ops_since_save
                             /\ q # p => files[q] = m[q]
      /\ answer # "error" => files[p].ops_since_save = 0
  BY <1>3, <1>5, FlushedFiles
<1>8. f = m[p]
  BY DEF f, m, p
<1>9. ASSUME NEW q \in DOMAIN m
      PROVE  <<{t}, q, m[q]>> \in Copies /\ WithinFile(files[q], edits) /\ m[q].text \in Text
  <2>1. <<{t}, q, m[q]>> \in Copies
    BY <1>3, CopiesSplit
  <2>2. <<{t}, q, m[q]>>[3] = m[q]
    OBVIOUS
  <2>3. ToSet(m[q].text) \subseteq 1..edits /\ m[q].ops_since_save <= edits
    BY <1>0, <2>1, <2>2 DEF Within
  <2>4. m[q] \in File /\ m[q].ops_since_save \in Nat /\ files[q].ops_since_save \in Nat
    BY <1>3, <1>7, MapTyped DEF File
  <2>5. edits \in Nat
    BY <1>0, ConstantsAssumption DEF Types
  <2>6. files[q].ops_since_save <= edits
    BY <1>7, <2>3, <2>4, <2>5
  <2> QED BY <1>7, <2>1, <2>3, <2>4, <2>6 DEF WithinFile, File
<1>10. closed' \subseteq 1..edits /\ edits <= edits' /\ edits' = edits
  BY <1>0, <1>2 DEF Types
\* What holds of the counts once it is known how the save went.
<1>11. ASSUME Landed(p, f.text) \/ Failed(p), answer # "ok" => Failed(p), NEW q \in DOMAIN files
       PROVE  CountedIn(store', foreign' \cup atRisk', q, files[q])
  <2>1. CASE q = p
    <3>1. CASE answer # "ok"
      BY <1>11, <2>1, <3>1 DEF Failed, CountedIn
    <3>2. CASE answer = "ok"
      <4>1. files[p].ops_since_save = 0 /\ files[p].text = f.text /\ files[p] \in File
        BY <1>3, <1>7, <1>8, <3>2
      <4>2. f.text \in Text /\ SAVE_THRESHOLD \in Nat \ {0}
        BY <1>4, ConstantsAssumption DEF File
      <4>3. IsPrefix(f.text, files[p].text) /\ Len(files[p].text) - Len(f.text) = files[p].ops_since_save
            /\ files[p].ops_since_save < SAVE_THRESHOLD
        BY <4>1, <4>2, PrefixOfTexts DEF Text
      <4> QED BY <1>3, <1>4, <1>11, <2>1, <4>1, <4>3, SavedCounts
    <3> QED BY <3>1, <3>2
  <2>2. CASE q # p
    <3>1. files[q] = m[q] /\ CountedIn(store, foreign \cup atRisk, q, m[q])
      BY <1>0, <1>2, <1>7, <2>2 DEF Counts, Counted, m, p
    <3>2. <<{t}, q, m[q]>> \in Copies /\ <<{t}, q, m[q]>> # <<{t}, p, f>>
      BY <1>7, <1>9, <2>2
    <3>3. Keeps(<<{t}, q, m[q]>>)
      <4>1. Landed(task[t].path, Awaited(task[t]).text) \/ Failed(task[t].path)
        BY <1>3, <1>11 DEF p
      <4>2. <<{t}, q, m[q]>> # <<{t}, task[t].path, Awaited(task[t])>>
        BY <1>3, <3>2 DEF p
      <4> QED BY <1>0, <1>3, <3>2, <4>1, <4>2, SaveKeeps
    <3> QED BY <3>1, <3>3 DEF Keeps
  <2> QED BY <2>1, <2>2
<1>12. CASE /\ Answer(1, answer, << >>) /\ FILE_STATE' = Extend(files)
            /\ task' = [task EXCEPT ![t] = Done]
  <2>1. /\ FILE_STATE' \in FileMap /\ open' = open \cup DOMAIN m
        /\ \A q \in open' : FILE_STATE'[q] = IF q \in DOMAIN m THEN files[q] ELSE FILE_STATE[q]
    BY <1>0, <1>7, <1>12, MapExtend DEF open
  <2>2. /\ Moved(t, Done) /\ Types'
        /\ answer = "ok" => Landed(p, f.text)
        /\ answer # "ok" => Failed(p)
        /\ \A q \in Paths : store'[q] = store[q] \/ store'[q] = f.text
        /\ \A c \in InMap \cup Others(t) : Keeps(c)
    <3>1. Recorded(task[t].path, answer) /\ Done \in Call /\ FlushOK(Done)
      BY <1>6, DoneIsCall DEF p
    <3> QED BY <1>2, <1>3, <1>10, <1>12, <2>1, <3>1, CallAnswered DEF p
  <2>3. Copies' = InMap' \cup Others(t) /\ InMap \cup Others(t) \subseteq Copies
    BY <1>0, <1>12, DoneIsCall, CopiesSplit, CopiesMoved
  <2>4. ASSUME NEW d \in Copies'
        PROVE  \/ /\ d[1] = {} /\ d[2] \in DOMAIN m /\ <<{t}, d[2], m[d[2]]>> \in Copies
                  /\ IsPrefix(m[d[2]].text, d[3].text) /\ WithinFile(d[3], edits)
               \/ d[1] # {t} /\ d \in Copies /\ ~(d[1] = {} /\ d[2] \in DOMAIN m)
    <3>1. CASE d \in Others(t)
      BY <2>3, <3>1, Apart
    <3>2. CASE d \in InMap'
      <4>1. PICK q \in open' : d = <<{}, q, FILE_STATE'[q]>>
        BY <3>2 DEF InMap
      <4>2. CASE q \in DOMAIN m
        <5>1. d[1] = {} /\ d[2] = q /\ d[3] = files[q]
          BY <2>1, <4>1, <4>2
        <5>2. IsPrefix(m[q].text, files[q].text)
          <6>1. m[q].text \in Text /\ files[q].text = m[q].text
            BY <1>7, <1>9, <4>2
          <6> QED BY <6>1, PrefixOfTexts
        <5> QED BY <1>9, <4>2, <5>1, <5>2
      <4>3. CASE q \notin DOMAIN m
        <5>1. q \in open /\ d = <<{}, q, FILE_STATE[q]>>
          BY <2>1, <4>1, <4>3
        <5> QED BY <2>3, <4>3, <5>1 DEF InMap
      <4> QED BY <4>2, <4>3
    <3> QED BY <2>3, <3>1, <3>2
  <2>5. \A d, e \in Copies' : d[1] = {} /\ e[1] = {} /\ d[2] = e[2] => d = e
    <3> SUFFICES ASSUME NEW d \in Copies', NEW e \in Copies', d[1] = {}, e[1] = {}, d[2] = e[2]
                 PROVE  d = e
      OBVIOUS
    <3>1. d \in InMap' /\ e \in InMap'
      BY <2>3, Apart
    <3> QED BY <3>1 DEF InMap
  <2>6. \E F, g : Descended(F, g)
    BY <1>0, <2>4, <2>5, AllReturned
  <2>7. Counts'
    <3>1. ASSUME NEW q \in open' PROVE CountedIn(store', foreign' \cup atRisk', q, FILE_STATE'[q])
      <4>1. CASE q \in DOMAIN m
        BY <1>7, <1>11, <2>1, <2>2, <4>1
      <4>2. CASE q \notin DOMAIN m
        <5>1. q \in open /\ FILE_STATE'[q] = FILE_STATE[q]
          BY <2>1, <4>2
        <5>2. Keeps(<<{}, q, FILE_STATE[q]>>)
          BY <2>2, <5>1 DEF InMap
        <5>3. CountedIn(store, foreign \cup atRisk, q, FILE_STATE[q])
          BY <1>0, <5>1 DEF Counts, Counted
        <5> QED BY <5>1, <5>2, <5>3 DEF Keeps
      <4> QED BY <4>1, <4>2
    <3>2. Done.kind # "flush" /\ \A c \in Others(t) : Keeps(c)
      BY <2>2 DEF Done
    <3> QED BY <1>0, <1>12, <3>1, <3>2, CountsAfter
  <2>8. \A d \in Copies' : (\E c \in Copies : c[3] = d[3]) \/ WithinFile(d[3], edits')
    BY <1>10, <2>4
  <2>9. \A q \in Paths : \/ store'[q] = store[q]
                         \/ task[t] # Done /\ store'[q] = Awaited(task[t]).text
    BY <1>3, <2>2
  <2> QED BY <1>10, <2>2, <2>6, <2>7, <2>8, <2>9, DoneIsCall, MoveKeeps
<1>13. ASSUME NEW q \in task[t].left,
              Answer(1, answer, Put(q, files[q])),
              task' = [task EXCEPT ![t] = FlushGoing(task[t], files, q)],
              UNCHANGED FILE_STATE
       PROVE  Base' /\ Continues
  <2>0. SUFFICES ASSUME NEW x, x = FlushGoing(task[t], files, q) PROVE Base' /\ Continues
    OBVIOUS
  <2> DEFINE new == <<{t}, p, files[p]>>
  <2>1. /\ x.kind = "flush" /\ x.path = q /\ x.files = files /\ x.left = task[t].left \ {q}
        /\ x.asked = task[t].asked /\ x.seen = task[t].seen
    BY <2>0 DEF FlushGoing
  <2>2. q \in DOMAIN m /\ q \in Paths
    BY <1>3, <1>4, <1>13
  <2>3. /\ x \in Call /\ FlushOK(x) /\ x # Done /\ Awaited(x) = files[q]
        /\ KeptBy(x, t) = {<<{t}, r, files[r]>> : r \in DOMAIN m}
        /\ SeenBy(x) = SeenBy(task[t]) /\ WithinCall(x, edits')
    <3>1. task[t].asked \in SUBSET (Paths \X File) /\ task[t].seen \in SUBSET (Paths \X File)
          /\ task[t].left \in SUBSET Paths /\ task[t].asked \subseteq task[t].seen
      BY <1>2, <1>3 DEF FlushCall, FlushOK
    <3>2. x \in FlushCall
      BY <1>7, <2>0, <2>2, <3>1 DEF FlushGoing, FlushCall
    <3>3. FlushOK(x)
      BY <1>3, <1>7, <2>1, <2>2, <3>1 DEF FlushOK
    <3>4. x # Done /\ WithinCall(x, edits') /\ SeenBy(x) = SeenBy(task[t])
      BY <1>2, <2>1 DEF Done, WithinCall, SeenBy
    <3>5. Awaited(x) = files[q] /\ KeptBy(x, t) = {<<{t}, r, files[r]>> : r \in DOMAIN m}
      BY <1>7, <2>1 DEF Awaited, KeptBy
    <3> QED BY <3>2, <3>3, <3>4, <3>5 DEF Call
  <2>4. task' = [task EXCEPT ![t] = x] /\ FILE_STATE' \in FileMap /\ open' = open /\ InMap' = InMap
    BY <1>0, <1>13, <2>0 DEF Types, open, InMap
  <2>5. /\ Moved(t, x) /\ Types'
        /\ answer = "ok" => Landed(p, f.text)
        /\ answer # "ok" => Failed(p)
        /\ \A r \in Paths : store'[r] = store[r] \/ store'[r] = f.text
        /\ \A c \in InMap \cup Others(t) : Keeps(c)
    <3>1. Recorded(task[t].path, answer)
      BY <1>6 DEF p
    <3>2. SUFFICES ASSUME NEW requests, requests = Put(q, files[q])
                   PROVE  /\ Moved(t, x) /\ Types'
                          /\ answer = "ok" => Landed(p, f.text)
                          /\ answer # "ok" => Failed(p)
                          /\ \A r \in Paths : store'[r] = store[r] \/ store'[r] = f.text
                          /\ \A c \in InMap \cup Others(t) : Keeps(c)
      OBVIOUS
    <3>3. Answer(1, answer, requests) /\ requests = IF x = Done THEN << >> ELSE Put(x.path, Awaited(x))
      BY <1>13, <2>1, <2>3, <3>2
    <3> QED BY <1>2, <1>3, <1>10, <2>3, <2>4, <3>1, <3>3, CallAnswered DEF p
  <2>6. old \in Copies /\ new[3] = files[p] /\ old[3] = f
    BY <1>3, <1>8, <1>9
  <2>7. Copies' \subseteq (Copies \ {old}) \cup {new}
    <3>1. Copies' = InMap \cup KeptBy(x, t) \cup Others(t) /\ InMap \cup Others(t) \subseteq Copies
      BY <1>0, <2>4, CopiesSplit, CopiesMoved
    <3>2. old \notin InMap \cup Others(t)
      BY Apart
    <3>3. KeptBy(x, t) \subseteq (Copies \ {old}) \cup {new}
      <4> SUFFICES ASSUME NEW r \in DOMAIN m PROVE <<{t}, r, files[r]>> \in (Copies \ {old}) \cup {new}
        BY <2>3
      <4>1. CASE r = p
        BY <4>1
      <4>2. CASE r # p
        <5>1. files[r] = m[r] /\ <<{t}, r, m[r]>> \in Copies /\ <<{t}, r, m[r]>> # old
          BY <1>7, <1>9, <4>2
        <5> QED BY <5>1
      <4> QED BY <4>1, <4>2
    <3> QED BY <3>1, <3>2, <3>3
  <2>8. \E F, g : Descended(F, g)
    <3>1. IsPrefix(old[3].text, new[3].text)
      BY <1>3, <1>7, <1>8, <1>9, <2>6, PrefixOfTexts
    <3> HIDE DEF old, new
    <3> QED BY <1>0, <2>6, <2>7, <3>1, OneChanges
  <2>9. Counts'
    <3>1. ASSUME NEW r \in open' PROVE CountedIn(store', foreign' \cup atRisk', r, FILE_STATE'[r])
      <4>1. r \in open /\ FILE_STATE'[r] = FILE_STATE[r]
        BY <1>13, <2>4
      <4>2. Keeps(<<{}, r, FILE_STATE[r]>>)
        BY <2>5, <4>1 DEF InMap
      <4>3. CountedIn(store, foreign \cup atRisk, r, FILE_STATE[r])
        BY <1>0, <4>1 DEF Counts, Counted
      <4> QED BY <4>1, <4>2, <4>3 DEF Keeps
    <3>2. \A r \in DOMAIN x.files \ {x.path} : CountedIn(store', foreign' \cup atRisk', r, x.files[r])
      BY <1>7, <1>11, <2>1, <2>5
    <3>3. \A c \in Others(t) : Keeps(c)
      BY <2>5
    <3> QED BY <1>0, <2>4, <3>1, <3>2, <3>3, CountsAfter
  <2>10. \A d \in Copies' : (\E c \in Copies : c[3] = d[3]) \/ WithinFile(d[3], edits')
    <3>1. WithinFile(new[3], edits')
      BY <1>3, <1>9, <1>10, <2>6
    <3> QED BY <2>7, <3>1
  <2>11. \A r \in Paths : \/ store'[r] = store[r]
                          \/ task[t] # Done /\ store'[r] = Awaited(task[t]).text
    BY <1>3, <2>5
  <2>12. SeenBy(x) \subseteq Known \cup {c[3].text : c \in Copies'}
    BY <2>3 DEF Known
  <2> QED BY <1>10, <2>3, <2>5, <2>8, <2>9, <2>10, <2>11, <2>12, MoveKeeps
<1> QED BY <1>6, <1>12, <1>13

-----------------------------------------------------------------------------
(* The operations of the store, and a reload.                              *)

\* The store's call c becomes y, with a transaction for `requests` if it is in
\* progress, and what it writes is foreign to the session.
StoreMoves(c, y, requests) ==
  /\ call' = [call EXCEPT ![c] = y] /\ CallOK(y)
  /\ UNCHANGED <<FILE_STATE, task, closed, atRisk>>
  /\ queue' \in Seq(Entry) /\ OneEach(queue')
  /\ ToSet(queue') = {e \in ToSet(queue) : e.owner # c}
                     \cup IF y = Idle THEN {} ELSE {Transaction(c, requests)}
  /\ \A r \in ToSet(requests) : \/ r[2] = NoFile \/ r[2] \in Known
                                \/ r[2] = <<edits + 1>> /\ edits' = edits + 1
  /\ store' \in [Paths -> Text \cup {NoFile}]
  /\ \A p \in Paths : \/ store'[p] = store[p]
                      \/ p \in foreign' /\ store'[p] \in Known \cup {NoFile}
  /\ foreign \subseteq foreign' /\ foreign' \subseteq Paths
  /\ edits' \in 0..MaxEdits /\ edits <= edits'
  /\ calls' \in 0..MaxCalls /\ faults' \in 0..MaxFaults

LEMMA StoreMovesAgrees ==
  ASSUME Types, QueueAgrees, NEW c \in Callers, NEW y, NEW requests, StoreMoves(c, y, requests)
  PROVE  QueueAgrees'
<1>1. DOMAIN call = Callers /\ call' = [call EXCEPT ![c] = y] /\ task' = task
  BY DEF Types, StoreMoves
<1>2. call'[c] = y /\ \A b \in Callers : b # c => call'[b] = call[b]
  BY <1>1
<1>3. c \notin Tasks
  BY ConstantsAssumption
<1>4. ASSUME NEW e \in ToSet(queue')
      PROVE  /\ e.owner \in Tasks => /\ task[e.owner] # Done
                                     /\ e.requests = Put(task[e.owner].path, Awaited(task[e.owner]))
             /\ e.owner \in Callers => call'[e.owner] # Idle
  <2>1. CASE e \in ToSet(queue) /\ e.owner # c
    BY <1>2, <2>1 DEF QueueAgrees
  <2>2. CASE y # Idle /\ e = Transaction(c, requests)
    BY <1>2, <1>3, <2>2 DEF Transaction
  <2> QED BY <2>1, <2>2 DEF StoreMoves
<1>5. ASSUME NEW u \in Tasks, task[u] # Done PROVE \E e \in ToSet(queue') : e.owner = u
  <2>1. PICK e \in ToSet(queue) : e.owner = u
    BY <1>5 DEF QueueAgrees
  <2> QED BY <1>3, <2>1 DEF StoreMoves
<1>6. ASSUME NEW b \in Callers, call'[b] # Idle PROVE \E e \in ToSet(queue') : e.owner = b
  <2>1. CASE b = c
    <3>1. Transaction(c, requests) \in ToSet(queue')
      BY <1>2, <1>6, <2>1 DEF StoreMoves
    <3> QED BY <2>1, <3>1 DEF Transaction
  <2>2. CASE b # c
    <3>1. PICK e \in ToSet(queue) : e.owner = b
      BY <1>2, <1>6, <2>2 DEF QueueAgrees
    <3> QED BY <2>2, <3>1 DEF StoreMoves
  <2> QED BY <2>1, <2>2
<1>7. OneEach(queue')
  BY DEF StoreMoves
<1> QED BY <1>1, <1>4, <1>5, <1>6, <1>7 DEF QueueAgrees

LEMMA StoreMovesKeeps ==
  ASSUME Base, NEW c \in Callers, NEW y, NEW requests, StoreMoves(c, y, requests)
  PROVE  Base' /\ Continues
<1>0. Types /\ QueueAgrees /\ Unique(Copies) /\ Precede(Known, Copies) /\ Within /\ Counts
  BY DEF Base
<1>1. Types'
  <2>1. DOMAIN call' = Callers /\ \A b \in Callers : CallOK(call'[b])
    BY <1>0 DEF Types, StoreMoves
  <2>2. edits \in Nat /\ edits' \in Nat /\ edits <= edits'
    BY <1>0, ConstantsAssumption DEF Types, StoreMoves
  <2>3. closed' \subseteq 1..edits'
    BY <1>0, <2>2 DEF Types, StoreMoves
  <2> QED BY <1>0, <2>1, <2>3 DEF Types, StoreMoves, Entry
<1>2. QueueAgrees'
  BY <1>0, StoreMovesAgrees
<1>3. Copies' = Copies
  <2>1. FILE_STATE' = FILE_STATE /\ task' = task
    BY DEF StoreMoves
  <2>2. InMap' = InMap
    BY <2>1 DEF InMap, open
  <2> QED BY <2>1, <2>2 DEF Copies
<1>4. edits \in Nat
  BY <1>0, ConstantsAssumption DEF Types
<1>5. ASSUME NEW z \in Known'
      PROVE  z \in Known \/ (z = <<edits + 1>> /\ edits' = edits + 1)
  <2>1. CASE z \in Stored'
    <3>1. PICK p \in Paths : z = store'[p] /\ z # NoFile
      BY <2>1 DEF Stored, Present
    <3>2. CASE store'[p] = store[p]
      BY <3>1, <3>2 DEF Known, Stored, Present
    <3>3. CASE store'[p] \in Known \cup {NoFile}
      BY <3>1, <3>3
    <3> QED BY <3>2, <3>3 DEF StoreMoves
  <2>2. CASE z \in Requested'
    <3>1. PICK e \in ToSet(queue') : z \in {r[2] : r \in ToSet(e.requests)}
      BY <2>2 DEF Requested
    <3>2. PICK r \in ToSet(e.requests) : z = r[2]
      BY <3>1
    <3>3. z # NoFile
      BY <2>2 DEF Requested
    <3>4. CASE e \in ToSet(queue)
      BY <3>2, <3>3, <3>4, RequestedIs
    <3>5. CASE e = Transaction(c, requests)
      <4>1. r \in ToSet(requests)
        BY <3>5 DEF Transaction
      <4> QED BY <3>2, <3>3, <4>1 DEF StoreMoves
    <3> QED BY <3>4, <3>5 DEF StoreMoves
  <2>3. CASE z \in UNION {SeenBy(task'[t]) : t \in Tasks}
    BY <2>3 DEF Known, StoreMoves
  <2>4. Known' = Stored' \cup Requested' \cup UNION {SeenBy(task'[t]) : t \in Tasks}
    BY DEF Known
  <2> QED BY <2>1, <2>2, <2>3, <2>4
<1>6. Unique(Copies)' /\ Precede(Known, Copies)' /\ Continues
  <2>1. \E F, g : Descended(F, g)
    BY <1>0, <1>3, NoneNew
  <2>2. ASSUME NEW d \in Copies PROVE Id(<<edits + 1>>) # Id(d[3].text)
    <3>1. d[3].text \in Text /\ ToSet(d[3].text) \subseteq 1..edits
      BY <1>0, CopiesTyped DEF Within, Copy, File
    <3>2. Id(d[3].text) \in 1..edits
      BY <3>1, IdOfText
    <3>3. Id(<<edits + 1>>) = edits + 1 /\ edits + 1 \notin 1..edits
      BY <1>4 DEF Id
    <3> QED BY <3>2, <3>3
  <2>3. \A z \in Known' : z \in Known \/ \A d \in Copies' : Id(z) # Id(d[3].text)
    BY <1>3, <1>5, <2>2
  <2> QED BY <1>0, <1>1, <2>1, <2>3, Descends
<1>7. Within'
  <2>1. \A z \in Known' : z \in Known \/ ToSet(z) \subseteq 1..edits'
    <3>1. edits' = edits + 1 => ToSet(<<edits + 1>>) \subseteq 1..edits'
      BY <1>4 DEF ToSet
    <3> QED BY <1>5, <3>1
  <2>2. edits <= edits' /\ task' = task
    BY DEF StoreMoves
  <2> QED BY <1>0, <1>1, <1>3, <2>1, <2>2, WithinGrows
<1>8. Counts'
  <2>1. ASSUME NEW p \in Paths, NEW f, CountedIn(store, foreign \cup atRisk, p, f)
        PROVE  CountedIn(store', foreign' \cup atRisk', p, f)
    <3>1. store'[p] = store[p] \/ p \in foreign'
      BY DEF StoreMoves
    <3>2. foreign \subseteq foreign' /\ atRisk' = atRisk
      BY DEF StoreMoves
    <3> QED BY <2>1, <3>1, <3>2 DEF CountedIn
  <2>2. FILE_STATE' = FILE_STATE /\ task' = task /\ open' = open
    BY DEF StoreMoves, open
  <2>3. \A p \in open' : CountedIn(store', foreign' \cup atRisk', p, FILE_STATE'[p])
    BY <1>0, <2>1, <2>2, InMapIs DEF Counts, Counted
  <2>4. ASSUME NEW t \in Tasks, task[t].kind = "flush", NEW p \in DOMAIN task[t].files \ {task[t].path}
        PROVE  CountedIn(store', foreign' \cup atRisk', p, task[t].files[p])
    <3>1. task[t].files \in FileMap
      BY <1>0, <2>4, CallKinds DEF Types, FlushCall
    <3>2. p \in Paths
      BY <2>4, <3>1, MapTyped
    <3>3. CountedIn(store, foreign \cup atRisk, p, task[t].files[p])
      BY <1>0, <2>4 DEF Counts, Counted
    <3> QED BY <2>1, <3>2, <3>3
  <2> QED BY <2>2, <2>3, <2>4 DEF Counts, Counted
<1> QED BY <1>1, <1>2, <1>6, <1>7, <1>8 DEF Base

LEMMA Accounted ==
  ASSUME Types, StoreOperation
  PROVE  foreign \subseteq foreign' /\ foreign' \subseteq Paths /\ calls' \in 0..MaxCalls
<1>1. Written \subseteq Paths
  <2>1. SUFFICES ASSUME queue # << >> PROVE {r[1] : r \in ToSet(Head(queue).requests)} \subseteq Paths
    BY DEF Written
  <2>2. Head(queue) \in Entry
    <3>1. queue \in Seq(Entry)
      BY DEF Types, Entry
    <3> HIDE DEF Entry
    <3> QED BY <2>1, <3>1
  <2>3. Head(queue).requests \in Seq(Request)
    BY <2>2 DEF Entry
  <2> QED BY <2>3 DEF ToSet, Request
<1>2. foreign \subseteq Paths /\ calls \in 0..MaxCalls /\ MaxCalls \in Nat
  BY ConstantsAssumption DEF Types
<1>3. \/ calls < MaxCalls /\ calls' = calls + 1 /\ foreign' = foreign
      \/ foreign' = foreign \cup Written /\ calls' = calls
  BY DEF StoreOperation
<1>4. CASE calls < MaxCalls /\ calls' = calls + 1 /\ foreign' = foreign
  BY <1>2, <1>4
<1>5. CASE foreign' = foreign \cup Written /\ calls' = calls
  BY <1>1, <1>2, <1>5
<1> QED BY <1>3, <1>4, <1>5

LEMMA StoreOpened ==
  ASSUME Base, StoreOperation, NEW c \in Callers, call[c] = Idle,
         NEW y, CallOK(y), y # Idle, call' = [call EXCEPT ![c] = y],
         NEW requests \in Seq(Request), Open(c, requests),
         \A r \in ToSet(requests) : r[2] = NoFile \/ (r[2] = <<edits + 1>> /\ edits' = edits + 1),
         edits' \in 0..MaxEdits, edits <= edits',
         UNCHANGED <<store, faults>>
  PROVE  StoreMoves(c, y, requests)
<1>1. Types /\ QueueAgrees
  BY DEF Base
<1>2. \A e \in ToSet(queue) : e.owner # c
  BY <1>1 DEF QueueAgrees
<1>3. /\ queue' \in Seq(Entry) /\ OneEach(queue')
      /\ ToSet(queue') = ToSet(queue) \cup {Transaction(c, requests)}
  BY <1>1, <1>2, Opened
<1>4. ToSet(queue') = {e \in ToSet(queue) : e.owner # c}
                      \cup IF y = Idle THEN {} ELSE {Transaction(c, requests)}
  BY <1>2, <1>3
<1>5. foreign \subseteq foreign' /\ foreign' \subseteq Paths /\ calls' \in 0..MaxCalls
  BY <1>1, Accounted
<1>6. store \in [Paths -> Text \cup {NoFile}] /\ faults \in 0..MaxFaults
  BY <1>1 DEF Types
<1>7. UNCHANGED <<FILE_STATE, task, closed, atRisk>>
  BY DEF StoreOperation
<1> QED BY <1>3, <1>4, <1>5, <1>6, <1>7 DEF StoreMoves

LEMMA StoreAnswered ==
  ASSUME Base, StoreOperation, edits' = edits, NEW c \in Callers, call[c] # Idle,
         NEW i, Served(i, c), NEW answer \in Answers(i),
         NEW requests \in Seq(Request), Answer(i, answer, requests),
         \A r \in ToSet(requests) : r[2] = NoFile \/ r[2] \in Known,
         NEW y, CallOK(y), y = Idle <=> requests = << >>, call' = [call EXCEPT ![c] = y]
  PROVE  StoreMoves(c, y, requests)
<1>1. Types /\ QueueAgrees /\ edits \in 0..MaxEdits
  BY DEF Base, Types
<1>2. i \in DOMAIN queue /\ queue[i].owner = c /\ queue[i] \in ToSet(queue)
  BY DEF Served, ToSet
<1>3. /\ queue' \in Seq(Entry) /\ OneEach(queue')
      /\ ToSet(queue') = {e \in ToSet(queue) : e.owner # c}
                         \cup IF requests = << >> THEN {} ELSE {Transaction(c, requests)}
  <2>1. queue' = IF requests = << >> THEN RemoveAt(queue, i)
                 ELSE Append(RemoveAt(queue, i), Transaction(queue[i].owner, requests))
    BY DEF Answer
  <2> QED BY <1>1, <1>2, <2>1, Replaced
<1>4. foreign \subseteq foreign' /\ foreign' \subseteq Paths /\ calls' \in 0..MaxCalls
  BY <1>1, Accounted
<1>5. foreign' = foreign \cup Written
  <2>1. DOMAIN call = Callers
    BY <1>1 DEF Types
  <2>2. \A b \in Callers : call[b] = Idle => call'[b] = Idle
    BY <2>1
  <2> QED BY <2>2 DEF StoreOperation
<1>6. queue[i].requests \in Seq(Request)
  BY <1>1, <1>2, EntriesTyped
<1>7. store \in [Paths -> Text \cup {NoFile}]
  BY <1>1 DEF Types
<1>8. /\ store' \in [Paths -> Text \cup {NoFile}]
      /\ \A p \in Paths : store'[p] = store[p] \/ (p \in foreign' /\ store'[p] \in Known \cup {NoFile})
  <2>1. CASE answer = "ok"
    <3>1. store' = Committed(store, queue[i].requests)
      BY <2>1 DEF Answer
    <3>2. ASSUME NEW p \in Paths, NEW r \in ToSet(queue[i].requests), r[1] = p, store'[p] = r[2]
          PROVE  p \in foreign' /\ store'[p] \in Known \cup {NoFile}
      <4>1. i = 1
        <5>1. ToSet(queue[i].requests) # {}
          BY <3>2
        <5>2. queue[i].requests # << >>
          BY <5>1 DEF ToSet
        <5>3. i \in Nat /\ i >= 1
          BY <1>1, <1>2 DEF Types
        <5>4. ~(i > 1)
          BY <5>2, <5>3 DEF Served
        <5> QED BY <5>3, <5>4
      <4>2. queue # << >> /\ Head(queue) = queue[1]
        BY <1>1, <1>2, <4>1 DEF Types
      <4>3. p \in Written
        BY <3>2, <4>1, <4>2 DEF Written
      <4>4. r[2] = NoFile \/ r[2] \in Known
        BY <1>2, <3>2, RequestedIs
      <4> QED BY <1>5, <3>2, <4>3, <4>4
    <3>3. store' \in [Paths -> Text \cup {NoFile}] /\ Effect(store, queue[i].requests, store')
      BY <1>6, <1>7, <3>1, CommittedIs
    <3> QED BY <3>2, <3>3 DEF Effect
  <2>2. CASE answer # "ok"
    BY <1>7, <2>2 DEF Answer
  <2> QED BY <2>1, <2>2
<1>9. faults' \in 0..MaxFaults
  BY <1>1, StoreAssumption DEF Answer, Answers, Types
<1>10. UNCHANGED <<FILE_STATE, task, closed, atRisk>>
  BY DEF StoreOperation
<1> QED BY <1>1, <1>3, <1>4, <1>8, <1>9, <1>10 DEF StoreMoves

LEMMA StoreOperationIs ==
  ASSUME Base, StoreOperation
  PROVE  \E c \in Callers : \E y, requests : StoreMoves(c, y, requests)
<1>1. Types /\ QueueAgrees /\ edits \in 0..MaxEdits /\ MaxEdits \in Nat
  BY ConstantsAssumption DEF Base, Types
<1>2. ASSUME NEW c \in Callers, NEW d \in Calls, Begin(c, d), edits' = edits
      PROVE  \E y, requests : StoreMoves(c, y, requests)
  <2> DEFINE y == [op |-> d.op, from |-> d.from, to |-> d.to, awaits |-> "read", before |-> Nothing]
  <2>1. call[c] = Idle /\ call' = [call EXCEPT ![c] = y] /\ Open(c, << >>) /\ UNCHANGED <<store, faults>>
    BY <1>2 DEF Begin
  <2>2. CallOK(y) /\ y # Idle
    <3>1. y.awaits = "read" /\ y.op = d.op /\ y.from = d.from /\ y.to = d.to /\ Idle.awaits = "none"
      BY DEF Idle
    <3>2. DOMAIN y = DOMAIN Idle
      BY DEF Idle
    <3> HIDE DEF y
    <3> QED BY <3>1, <3>2 DEF CallOK
  <2>3. << >> \in Seq(Request) /\ ToSet(<< >>) = {}
    BY DEF ToSet
  <2>4. edits <= edits' /\ edits' \in 0..MaxEdits
    BY <1>1, <1>2
  <2> HIDE DEF y
  <2>5. StoreMoves(c, y, << >>)
    BY <2>1, <2>2, <2>3, <2>4, StoreOpened
  <2> QED BY <2>5
<1>3. ASSUME NEW c \in Callers, NEW p \in Paths, write_file(c, p, <<edits + 1>>),
             edits < MaxEdits, edits' = edits + 1
      PROVE  \E y, requests : StoreMoves(c, y, requests)
  <2> DEFINE y == [op |-> "write_file", from |-> p, to |-> << >>, awaits |-> "write", before |-> Nothing]
             requests == << <<p, <<edits + 1>> >> >>
  <2>1. call[c] = Idle /\ call' = [call EXCEPT ![c] = y] /\ Open(c, requests) /\ UNCHANGED <<store, faults>>
    BY <1>3 DEF write_file
  <2>2. CallOK(y) /\ y # Idle
    <3>1. y.awaits = "write" /\ Idle.awaits = "none"
      BY DEF Idle
    <3>2. DOMAIN y = DOMAIN Idle
      BY DEF Idle
    <3> HIDE DEF y
    <3> QED BY <3>1, <3>2 DEF CallOK
  <2>3. requests \in Seq(Request) /\ \A r \in ToSet(requests) : r[2] = <<edits + 1>>
    <3>1. <<edits + 1>> \in Text
      BY <1>1 DEF Text
    <3>2. ToSet(requests) = {<<p, <<edits + 1>> >>}
      BY DEF ToSet
    <3> QED BY <3>1, <3>2 DEF Request
  <2>4. edits <= edits' /\ edits' \in 0..MaxEdits
    BY <1>1, <1>3
  <2> HIDE DEF y, requests
  <2>5. StoreMoves(c, y, requests)
    BY <1>3, <2>1, <2>2, <2>3, <2>4, StoreOpened
  <2> QED BY <2>5
<1>4. ASSUME NEW c \in Callers, ReadAnswered(c), edits' = edits
      PROVE  \E y, requests : StoreMoves(c, y, requests)
  <2>1. call[c].awaits = "read"
    BY <1>4 DEF ReadAnswered
  <2>2. PICK i \in DOMAIN queue : Served(i, c) /\ \E answer \in Answers(i) :
               LET requests == IF answer = "ok" THEN Requests(call[c]) ELSE << >>
               IN  /\ Answer(i, answer, requests)
                   /\ call' = [call EXCEPT ![c] = IF requests = << >> THEN Idle
                                ELSE [@ EXCEPT !.awaits = "write", !.before = store]]
    BY <1>4 DEF ReadAnswered
  <2>3. PICK answer \in Answers(i) :
               LET requests == IF answer = "ok" THEN Requests(call[c]) ELSE << >>
               IN  /\ Answer(i, answer, requests)
                   /\ call' = [call EXCEPT ![c] = IF requests = << >> THEN Idle
                                ELSE [@ EXCEPT !.awaits = "write", !.before = store]]
    BY <2>2
  <2> DEFINE requests == IF answer = "ok" THEN Requests(call[c]) ELSE << >>
             z == [call[c] EXCEPT !.awaits = "write", !.before = store]
             y == IF requests = << >> THEN Idle ELSE z
  <2>4. Answer(i, answer, requests) /\ call' = [call EXCEPT ![c] = y]
    BY <2>3
  <2>5. CallOK(call[c]) /\ Idle.awaits = "none"
    BY <1>1 DEF Types, Idle
  <2>6. call[c] # Idle /\ \E x \in Calls : call[c].op = x.op /\ call[c].from = x.from /\ call[c].to = x.to
    BY <2>1, <2>5 DEF CallOK
  <2>7. z.awaits = "write" /\ DOMAIN z = DOMAIN Idle
    <3>1. "awaits" \in DOMAIN call[c] /\ DOMAIN call[c] = DOMAIN Idle
      BY <2>5 DEF CallOK, Idle
    <3> QED BY <3>1
  <2>8. CallOK(y) /\ (y = Idle <=> requests = << >>)
    <3>1. CallOK(Idle)
      BY DEF CallOK
    <3> HIDE DEF z, requests
    <3> QED BY <2>5, <2>7, <3>1 DEF CallOK
  <2>9. requests \in Seq(Request) /\ \A r \in ToSet(requests) : r[2] = NoFile \/ r[2] \in Known
    <3>1. CASE answer = "ok"
      <4>1. /\ Requests(call[c]) \in Seq(Request)
            /\ \A r \in ToSet(Requests(call[c])) : r[2] = NoFile \/ \E p \in Paths : r[2] = store[p]
        BY <1>1, <2>6, Relay DEF IsOperation
      <4>2. \A p \in Paths : store[p] = NoFile \/ store[p] \in Known
        BY DEF Known, Stored, Present
      <4> QED BY <3>1, <4>1, <4>2
    <3>2. CASE answer # "ok"
      <4>1. requests = << >> /\ << >> \in Seq(Request) /\ ToSet(<< >>) = {}
        BY <3>2 DEF ToSet
      <4> HIDE DEF requests
      <4> QED BY <4>1
    <3> QED BY <3>1, <3>2
  <2> HIDE DEF requests, z, y
  <2>10. StoreMoves(c, y, requests)
    BY <1>4, <2>2, <2>4, <2>6, <2>8, <2>9, StoreAnswered
  <2> QED BY <2>10
<1>5. ASSUME NEW c \in Callers, WriteAnswered(c), edits' = edits
      PROVE  \E y, requests : StoreMoves(c, y, requests)
  <2>1. /\ Served(1, c) /\ call[c].awaits = "write" /\ call' = [call EXCEPT ![c] = Idle]
    BY <1>5 DEF WriteAnswered
  <2>2. PICK answer \in Answers(1) : Answer(1, answer, << >>)
    BY <1>5 DEF WriteAnswered
  <2>3. CallOK(Idle) /\ call[c] # Idle
    BY <2>1 DEF CallOK, Idle
  <2>4. << >> \in Seq(Request) /\ ToSet(<< >>) = {}
    BY DEF ToSet
  <2>5. StoreMoves(c, Idle, << >>)
    BY <1>5, <2>1, <2>2, <2>3, <2>4, StoreAnswered
  <2> QED BY <2>5
<1> QED BY <1>2, <1>3, <1>4, <1>5 DEF StoreOperation, StoreStep

LEMMA ReloadStep ==
  ASSUME Base, Reload
  PROVE  Base' /\ Continues
<1>0. Types /\ Unique(Copies) /\ Precede(Known, Copies) /\ Within
  BY DEF Base
<1>1. /\ queue' = << >> /\ call' = [c \in Callers |-> Idle]
      /\ FILE_STATE' = << >> /\ task' = [t \in Tasks |-> Done]
      /\ UNCHANGED <<store, edits, calls, closed, foreign, atRisk>>
      /\ faults' \in 0..MaxFaults
  <2>1. faults \in 0..MaxFaults /\ MaxFaults \in Nat
    BY <1>0, StoreAssumption DEF Types
  <2> QED BY <2>1 DEF Reload, history
<1>2. /\ \A t \in Tasks : task'[t] = Done
      /\ \A c \in Callers : call'[c] = Idle
      /\ open' = {} /\ ToSet(queue') = {}
  BY <1>1, MapEmpty DEF open, ToSet
<1>3. Types'
  <2>1. queue' \in Seq([owner : Tasks \cup Callers, requests : Seq(Request)])
    BY <1>1
  <2>2. (\A c \in Callers : CallOK(call'[c])) /\ DOMAIN call' = Callers
    BY <1>1, <1>2 DEF CallOK
  <2>3. FILE_STATE' \in FileMap
    BY <1>1, MapEmpty
  <2>4. task' \in [Tasks -> Call] /\ \A t \in Tasks : FlushOK(task'[t])
    BY <1>1, <1>2, DoneIsCall
  <2> QED BY <1>0, <1>1, <2>1, <2>2, <2>3, <2>4 DEF Types
<1>4. Copies' = {}
  BY <1>2, DoneIsCall DEF Copies, InMap
<1>5. Known' \subseteq Known
  <2>1. Requested' = {}
    BY <1>2 DEF Requested
  <2>2. Stored' = Stored
    BY <1>1 DEF Stored, Present
  <2>3. UNION {SeenBy(task'[t]) : t \in Tasks} = {}
    BY <1>2, DoneIsCall
  <2> QED BY <2>1, <2>2, <2>3 DEF Known
<1>6. Unique(Copies)' /\ Precede(Known, Copies)' /\ Continues
  <2>1. \E F, g : Descended(F, g)
    BY <1>0, <1>4, NoneNew
  <2> QED BY <1>0, <1>3, <1>5, <2>1, Descends
<1>7. Within'
  <2>1. edits <= edits' /\ \A u \in Tasks : WithinCall(task'[u], edits')
    BY <1>0, <1>1, <1>2, ConstantsAssumption, DoneIsCall DEF Types
  <2> QED BY <1>0, <1>3, <1>4, <1>5, <2>1, WithinGrows
<1>8. QueueAgrees'
  <2>1. OneEach(queue')
    BY <1>1 DEF OneEach
  <2> QED BY <1>2, <2>1 DEF QueueAgrees
<1>9. Counts'
  BY <1>2 DEF Counts, Done
<1> QED BY <1>3, <1>6, <1>7, <1>8, <1>9 DEF Base

LEMMA InitBase == Init => Base
<1> SUFFICES ASSUME Init PROVE Base
  OBVIOUS
<1>1. /\ queue = << >> /\ call = [c \in Callers |-> Idle]
      /\ FILE_STATE = << >> /\ task = [t \in Tasks |-> Done]
      /\ store = Nothing /\ edits = 0 /\ calls = 0 /\ faults = 0
      /\ closed = {} /\ foreign = {} /\ atRisk = {}
  BY DEF Init, StoreInit
<1>2. /\ \A t \in Tasks : task[t] = Done
      /\ \A c \in Callers : call[c] = Idle
      /\ open = {} /\ ToSet(queue) = {}
  BY <1>1, MapEmpty DEF open, ToSet
<1>3. Types
  <2>1. queue \in Seq([owner : Tasks \cup Callers, requests : Seq(Request)])
    BY <1>1
  <2>2. (\A c \in Callers : CallOK(call[c])) /\ DOMAIN call = Callers
    BY <1>1, <1>2 DEF CallOK
  <2>3. FILE_STATE \in FileMap
    BY <1>1, MapEmpty
  <2>4. task \in [Tasks -> Call] /\ \A t \in Tasks : FlushOK(task[t])
    BY <1>1, <1>2, DoneIsCall
  <2>5. store \in [Paths -> Text \cup {NoFile}]
    BY <1>1 DEF Nothing
  <2>6. edits \in 0..MaxEdits /\ calls \in 0..MaxCalls /\ faults \in 0..MaxFaults
    BY <1>1, ConstantsAssumption, StoreAssumption
  <2>7. closed \subseteq 1..edits /\ foreign \subseteq Paths /\ atRisk \subseteq Paths
    BY <1>1
  <2> QED BY <2>1, <2>2, <2>3, <2>4, <2>5, <2>6, <2>7 DEF Types
<1>4. Copies = {}
  BY <1>2, DoneIsCall DEF Copies, InMap
<1>5. Known = {}
  <2>1. Requested = {}
    BY <1>2 DEF Requested
  <2>2. Stored = {}
    BY <1>1 DEF Stored, Present, Nothing
  <2>3. UNION {SeenBy(task[t]) : t \in Tasks} = {}
    BY <1>2, DoneIsCall
  <2> QED BY <2>1, <2>2, <2>3 DEF Known
<1>6. Unique(Copies) /\ Precede(Known, Copies)
  BY <1>4, <1>5 DEF Unique, Precede
<1>7. Within
  BY <1>2, <1>4, <1>5 DEF Within, Done
<1>8. QueueAgrees
  <2>1. OneEach(queue)
    BY <1>1 DEF OneEach
  <2> QED BY <1>2, <2>1 DEF QueueAgrees
<1>9. Counts
  BY <1>2 DEF Counts, Done
<1> QED BY <1>3, <1>6, <1>7, <1>8, <1>9 DEF Base

LEMMA NextKeeps == Base /\ [Next]_vars => Base' /\ Continues
<1> SUFFICES ASSUME Base, [Next]_vars PROVE Base' /\ Continues
  OBVIOUS
<1>1. ASSUME NEW t \in Tasks, NEW p \in Paths,
             insert_file(t, p) \/ write_transaction_to_file(t, p) \/ apply_update_to_file(t, p)
      PROVE  Base' /\ Continues
  BY <1>1, InsertFile, WriteTransactionToFile, ApplyUpdateToFile
<1>2. ASSUME NEW p \in Paths, remove_file(p) PROVE Base' /\ Continues
  BY <1>2, RemoveFile
<1>3. CASE wipe_state
  BY <1>3, WipeState
<1>4. ASSUME NEW t \in Tasks, flush_all(t) PROVE Base' /\ Continues
  BY <1>4, FlushAll
<1>5. ASSUME NEW t \in Tasks, Resumed(t) PROVE Base' /\ Continues
  BY <1>5, InsertSavedStep, EditSavedStep, FlushSavedStep DEF Resumed
<1>6. CASE StoreOperation
  <2>1. PICK c \in Callers : \E y, requests : StoreMoves(c, y, requests)
    BY <1>6, StoreOperationIs
  <2>2. PICK y, requests : StoreMoves(c, y, requests)
    BY <2>1
  <2> QED BY <2>2, StoreMovesKeeps
<1>7. CASE Reload
  BY <1>7, ReloadStep
<1>8. CASE UNCHANGED vars
  <2>1. UNCHANGED <<store, queue, call, task, edits, calls, faults, foreign, atRisk, FILE_STATE, closed>>
    BY <1>8 DEF vars, storeVars, session, history
  <2>2. FILE_STATE' \in FileMap /\ closed' \subseteq 1..edits
    BY <2>1 DEF Base, Types
  <2>3. open' \subseteq open /\ \A p \in open' : FILE_STATE'[p] = FILE_STATE[p]
    BY <2>1 DEF open
  <2> QED BY <2>1, <2>2, <2>3, MapShrinks
<1> QED BY <1>1, <1>2, <1>3, <1>4, <1>5, <1>6, <1>7, <1>8 DEF Next, SessionCall

LEMMA Invariant == Spec => []Base
<1>1. Base /\ [Next]_vars => Base'
  BY NextKeeps
<1> QED BY InitBase, <1>1, PTL DEF Spec

-----------------------------------------------------------------------------
(* The properties.                                                         *)

\* Distinct owners are as many as the transactions.
LEMMA OwnersCounted ==
  ASSUME NEW q \in Seq(Entry), OneEach(q)
  PROVE  Len(q) = Cardinality({q[i].owner : i \in 1..Len(q)})
<1> DEFINE S == {q[i].owner : i \in 1..Len(q)}
           f == [i \in 1..Len(q) |-> q[i].owner]
<1>1. f \in Injection(1..Len(q), S)
  BY DEF Injection, IsInjective, OneEach
<1>2. f \in Surjection(1..Len(q), S)
  BY DEF Surjection
<1>3. ExistsBijection(1..Len(q), S)
  BY <1>1, <1>2 DEF ExistsBijection, Bijection
<1>4. Len(q) \in Nat
  OBVIOUS
<1> HIDE DEF S
<1>5. Cardinality(S) = Len(q)
  BY <1>3, <1>4, FS_CountingElements
<1> QED BY <1>5 DEF S

\* Every buffer and stored text is made of edits that were made, and every call
\* in progress has its transaction in the queue: what the functions of
\* browser_state.rs and of the IndexedDB store leave behind at every await.
THEOREM TypeCorrect == Spec => []TypeOK
<1>1. ASSUME Base PROVE TypeOK
  <2>1. Types /\ QueueAgrees /\ Within
    BY <1>1 DEF Base
  <2>2. open \subseteq Paths
    BY <2>1, InMapIs
  <2>3. ASSUME NEW b \in Buffers PROVE IsFile(b[2])
    <3>1. PICK c \in Copies : c[3] = b[2] /\ b[2] \in File
      BY <2>1, BuffersAreCopies
    <3>2. ToSet(b[2].text) \subseteq 1..edits /\ b[2].ops_since_save <= edits
      BY <2>1, <3>1 DEF Within
    <3>3. b[2].text # << >> /\ b[2].ops_since_save \in Nat /\ edits \in Nat
      BY <2>1, <3>1, ConstantsAssumption DEF File, Text, Types
    <3> QED BY <3>2, <3>3 DEF IsFile
  <2>4. ASSUME NEW p \in Present(store)
        PROVE  store[p] # << >> /\ ToSet(store[p]) \subseteq 1..edits
    <3>1. store[p] \in Known
      BY DEF Known, Stored
    <3>2. store[p] \in Text
      BY <2>1, <3>1, KnownTyped
    <3> QED BY <2>1, <3>1, <3>2 DEF Within, Text
  <2>5. queue \in Seq(Entry) /\ OneEach(queue)
    BY <2>1 DEF Types, QueueAgrees, Entry
  <2>6. {queue[i].owner : i \in 1..Len(queue)} =
          {t \in Tasks : task[t] # Done} \cup {c \in Callers : call[c] # Idle}
    <3>1. {queue[i].owner : i \in 1..Len(queue)} = {e.owner : e \in ToSet(queue)}
      BY <2>5 DEF ToSet
    <3>2. ASSUME NEW e \in ToSet(queue)
          PROVE  e.owner \in {t \in Tasks : task[t] # Done} \cup {c \in Callers : call[c] # Idle}
      <4>1. e.owner \in Tasks \cup Callers
        BY <2>1, EntriesTyped
      <4> QED BY <2>1, <4>1 DEF QueueAgrees
    <3>3. ASSUME NEW u \in {t \in Tasks : task[t] # Done} \cup {c \in Callers : call[c] # Idle}
          PROVE  \E e \in ToSet(queue) : u = e.owner
      BY <2>1 DEF QueueAgrees
    <3>4. {e.owner : e \in ToSet(queue)} =
            {t \in Tasks : task[t] # Done} \cup {c \in Callers : call[c] # Idle}
      BY <3>2, <3>3, Zenon
    <3> QED BY <3>1, <3>4, Zenon
  <2>7. Len(queue) = Cardinality({queue[i].owner : i \in 1..Len(queue)})
    BY <2>5, OwnersCounted
  <2>8. /\ closed \subseteq 1..edits /\ foreign \subseteq Paths /\ atRisk \subseteq Paths
        /\ edits \in 0..MaxEdits /\ calls \in 0..MaxCalls /\ faults \in 0..MaxFaults
    BY <2>1 DEF Types
  <2> QED BY <2>2, <2>3, <2>4, <2>6, <2>7, <2>8 DEF TypeOK
<1> QED BY <1>1, Invariant, PTL

\* A buffer that rests in the map has exactly the keystrokes it counts unsaved,
\* fewer than SAVE_THRESHOLD: the batching of write_transaction_to_file keeps its
\* count through all that runs during its awaits.
THEOREM OnlyBatched == Spec => []OnlyBatchedUnsaved
<1>1. ASSUME Base PROVE OnlyBatchedUnsaved
  <2>1. Types /\ Precede(Known, Copies) /\ Counts
    BY <1>1 DEF Base
  <2>2. SUFFICES ASSUME NEW p \in (open \cap Present(store)) \ (foreign \cup atRisk),
                        Id(FILE_STATE[p].text) = Id(store[p])
                 PROVE  /\ IsPrefix(store[p], FILE_STATE[p].text)
                        /\ Len(FILE_STATE[p].text) - Len(store[p]) = FILE_STATE[p].ops_since_save
                        /\ FILE_STATE[p].ops_since_save < SAVE_THRESHOLD
    BY DEF OnlyBatchedUnsaved
  <2>3. store[p] \in Known
    BY DEF Known, Stored
  <2>4. <<{}, p, FILE_STATE[p]>> \in Copies
    BY <2>1, InMapIs
  <2>5. IsPrefix(store[p], FILE_STATE[p].text)
    BY <2>1, <2>2, <2>3, <2>4 DEF Precede
  <2>6. CountedIn(store, foreign \cup atRisk, p, FILE_STATE[p])
    BY <2>1 DEF Counts, Counted
  <2> QED BY <2>2, <2>5, <2>6 DEF CountedIn, Present
<1> QED BY <1>1, Invariant, PTL

\* A step writes what it found, what an operation of the store puts there, or a
\* copy's text.
Overwrites ==
  \A p \in Paths : \/ store'[p] = store[p]
                   \/ p \in foreign'
                   \/ \E c \in Copies : store'[p] = c[3].text

LEMMA SaveOverwrites ==
  ASSUME Base, NEW t \in Tasks, Served(1, t), NEW answer \in Answers(1),
         NEW requests, Answer(1, answer, requests), Recorded(task[t].path, answer)
  PROVE  Overwrites
<1>1. Types /\ QueueAgrees
  BY DEF Base
<1>2. /\ task[t] # Done
      /\ answer = "ok" => Landed(task[t].path, Awaited(task[t]).text)
      /\ answer # "ok" => Failed(task[t].path)
  BY <1>1, SaveAnswered
<1>3. <<{t}, task[t].path, Awaited(task[t])>> \in Copies
  <2>1. task[t] \in Call /\ FlushOK(task[t])
    BY <1>1 DEF Types
  <2>2. <<{t}, task[t].path, Awaited(task[t])>> \in KeptBy(task[t], t)
    BY <1>2, <2>1, KeptAwaited
  <2> QED BY <2>2 DEF Copies
<1>4. \A p \in Paths : store'[p] = store[p] \/ store'[p] = Awaited(task[t]).text
  BY <1>2 DEF Landed, Failed
<1> QED BY <1>3, <1>4 DEF Overwrites

LEMMA NextOverwrites ==
  ASSUME Base, [Next]_vars
  PROVE  Overwrites
<1>1. ASSUME NEW t \in Tasks, NEW p \in Paths,
             insert_file(t, p) \/ write_transaction_to_file(t, p) \/ apply_update_to_file(t, p)
      PROVE  store' = store
  BY <1>1 DEF insert_file, write_transaction_to_file, apply_update_to_file
<1>2. ASSUME NEW p \in Paths, remove_file(p) PROVE store' = store
  BY <1>2 DEF remove_file, storeVars
<1>3. wipe_state => store' = store
  BY DEF wipe_state, storeVars
<1>4. ASSUME NEW t \in Tasks, flush_all(t) PROVE store' = store
  BY <1>4 DEF flush_all
<1>5. ASSUME NEW t \in Tasks, Resumed(t) PROVE Overwrites
  <2>1. CASE InsertSaved(t)
    BY <2>1, SaveOverwrites DEF InsertSaved
  <2>2. CASE EditSaved(t)
    <3>1. PICK answer \in Answers(1) : \E requests :
            Served(1, t) /\ Answer(1, answer, requests) /\ Recorded(task[t].path, answer)
      BY <2>2 DEF EditSaved
    <3> QED BY <3>1, SaveOverwrites
  <2>3. CASE FlushSaved(t)
    <3>1. PICK answer \in Answers(1) : \E requests :
            Served(1, t) /\ Answer(1, answer, requests) /\ Recorded(task[t].path, answer)
      BY <2>3 DEF FlushSaved
    <3> QED BY <3>1, SaveOverwrites
  <2> QED BY <1>5, <2>1, <2>2, <2>3 DEF Resumed
<1>6. CASE StoreOperation
  <2>1. PICK c \in Callers : \E y, requests : StoreMoves(c, y, requests)
    BY <1>6, StoreOperationIs
  <2>2. PICK y, requests : StoreMoves(c, y, requests)
    BY <2>1
  <2> QED BY <2>2 DEF StoreMoves, Overwrites
<1>7. CASE Reload
  BY <1>7 DEF Reload, Overwrites
<1>8. CASE UNCHANGED vars
  BY <1>8 DEF vars, storeVars, Overwrites
<1>9. store' = store => Overwrites
  BY DEF Overwrites
<1> QED BY <1>1, <1>2, <1>3, <1>4, <1>5, <1>6, <1>7, <1>8, <1>9 DEF Next, SessionCall

\* Every buffer is one of the copies.
Listed == \A b \in Buffers : \E c \in Copies : c[3] = b[2]

\* No step takes an edit out of a buffer again, or forks one, whichever of the
\* calls of browser_state.rs overlap; nor does one take the store back to an older
\* text, except through an operation of the store.
THEOREM NeverUndone == Spec => EditsNeverUndone
<1>1. Base => Listed
  <2> SUFFICES ASSUME Base PROVE Listed
    OBVIOUS
  <2>1. Types
    BY DEF Base
  <2> QED BY <2>1, BuffersAreCopies DEF Listed
<1>2. Base /\ Listed /\ Listed' /\ [Next]_vars =>
        [/\ \A b \in Buffers, c \in Buffers' :
              Id(b[2].text) = Id(c[2].text) => IsPrefix(b[2].text, c[2].text)
         /\ \A p \in Present(store) :
              p \in Present(store)' /\ p \notin foreign' /\ Id(store[p]) = Id(store'[p])
              => IsPrefix(store[p], store'[p])]_vars
  <2> SUFFICES ASSUME Base, Listed, Listed', [Next]_vars
               PROVE  /\ \A b \in Buffers, c \in Buffers' :
                           Id(b[2].text) = Id(c[2].text) => IsPrefix(b[2].text, c[2].text)
                      /\ \A p \in Present(store) :
                           p \in Present(store)' /\ p \notin foreign' /\ Id(store[p]) = Id(store'[p])
                           => IsPrefix(store[p], store'[p])
    OBVIOUS
  <2>1. Continues /\ Types /\ Precede(Known, Copies)
    BY NextKeeps DEF Base
  <2>2. \A b \in Buffers, c \in Buffers' :
          Id(b[2].text) = Id(c[2].text) => IsPrefix(b[2].text, c[2].text)
    <3>1. SUFFICES ASSUME NEW b \in Buffers, NEW c \in Buffers', Id(b[2].text) = Id(c[2].text)
                   PROVE  IsPrefix(b[2].text, c[2].text)
      OBVIOUS
    <3>2. PICK d \in Copies : d[3] = b[2]
      BY DEF Listed
    <3>3. PICK e \in Copies' : e[3] = c[2]
      BY DEF Listed
    <3> QED BY <2>1, <3>1, <3>2, <3>3 DEF Continues
  <2>3. ASSUME NEW p \in Present(store), p \notin foreign', Id(store[p]) = Id(store'[p])
        PROVE  IsPrefix(store[p], store'[p])
    <3>1. store[p] \in Known /\ p \in Paths
      BY DEF Known, Stored, Present
    <3>2. store[p] \in Text
      BY <2>1, <3>1, KnownTyped
    <3>3. CASE store'[p] = store[p]
      BY <3>2, <3>3, PrefixOfTexts
    <3>4. CASE \E c \in Copies : store'[p] = c[3].text
      BY <2>1, <2>3, <3>1, <3>4 DEF Precede
    <3> QED BY <2>3, <3>1, <3>3, <3>4, NextOverwrites DEF Overwrites
  <2> QED BY <2>2, <2>3
<1> QED BY <1>1, <1>2, Invariant, PTL DEF Spec, EditsNeverUndone

-----------------------------------------------------------------------------
(* What flush_all reaches.                                                 *)

MapAt(m, p) == IF p \in DOMAIN m THEN {Id(m[p].text)} ELSE {}

CallAt(x, p) == IF x.kind = "edit" THEN IF x.path = p THEN {Id(x.file.text)} ELSE {}
                ELSE IF x.kind = "flush" THEN MapAt(x.files, p) ELSE {}

OthersAt(t, p) == UNION {CallAt(task[u], p) : u \in Tasks \ {t}}

\* The buffers at p are that of the map and those of the calls.
LEMMA BuffersAtIs ==
  ASSUME NEW p
  PROVE  BuffersAt(p) = MapAt(FILE_STATE, p) \cup UNION {CallAt(task[t], p) : t \in Tasks}
<1>1. ASSUME NEW i \in BuffersAt(p)
      PROVE  i \in MapAt(FILE_STATE, p) \cup UNION {CallAt(task[t], p) : t \in Tasks}
  <2>1. PICK b \in Buffers : b[1] = p /\ i = Id(b[2].text)
    BY DEF BuffersAt
  <2>2. CASE b \in {<<q, FILE_STATE[q]>> : q \in open}
    BY <2>1, <2>2 DEF MapAt, open
  <2>3. ASSUME NEW t \in Tasks, b \in Held(t) PROVE i \in CallAt(task[t], p)
    <3>1. task[t].kind \in {"edit", "flush"}
      BY <2>3 DEF Held
    <3>2. CASE task[t].kind = "edit"
      BY <2>1, <2>3, <3>2 DEF Held, CallAt
    <3>3. CASE task[t].kind = "flush"
      BY <2>1, <2>3, <3>3 DEF Held, CallAt, MapAt
    <3> QED BY <3>1, <3>2, <3>3
  <2> QED BY <2>2, <2>3 DEF Buffers
<1>2. ASSUME NEW i \in MapAt(FILE_STATE, p) PROVE i \in BuffersAt(p)
  <2>1. p \in open /\ i = Id(FILE_STATE[p].text)
    BY DEF MapAt, open
  <2>2. <<p, FILE_STATE[p]>> \in Buffers
    BY <2>1 DEF Buffers
  <2> QED BY <2>1, <2>2 DEF BuffersAt
<1>3. ASSUME NEW t \in Tasks, NEW i \in CallAt(task[t], p) PROVE i \in BuffersAt(p)
  <2>1. task[t].kind \in {"edit", "flush"}
    BY DEF CallAt
  <2>2. CASE task[t].kind = "edit"
    <3>1. p = task[t].path /\ i = Id(task[t].file.text)
      BY <2>2 DEF CallAt
    <3>2. <<p, task[t].file>> \in Buffers
      BY <2>2, <3>1 DEF Buffers, Held
    <3> QED BY <3>1, <3>2 DEF BuffersAt
  <2>3. CASE task[t].kind = "flush"
    <3>1. p \in DOMAIN task[t].files /\ i = Id(task[t].files[p].text)
      BY <2>3 DEF CallAt, MapAt
    <3>2. <<p, task[t].files[p]>> \in Buffers
      BY <2>3, <3>1 DEF Buffers, Held
    <3> QED BY <3>1, <3>2 DEF BuffersAt
  <2> QED BY <2>1, <2>2, <2>3
<1> QED BY <1>1, <1>2, <1>3

\* The same of this state and the next one.
AtIs == \A p : BuffersAt(p) = MapAt(FILE_STATE, p) \cup UNION {CallAt(task[t], p) : t \in Tasks}

LEMMA AtMoved ==
  ASSUME Types, AtIs, AtIs', NEW t \in Tasks, NEW x, task' = [task EXCEPT ![t] = x], NEW p
  PROVE  /\ BuffersAt(p) = MapAt(FILE_STATE, p) \cup CallAt(task[t], p) \cup OthersAt(t, p)
         /\ BuffersAt(p)' = MapAt(FILE_STATE', p) \cup CallAt(x, p) \cup OthersAt(t, p)
<1>1. DOMAIN task = Tasks
  BY DEF Types
<1>2. task'[t] = x /\ \A u \in Tasks \ {t} : task'[u] = task[u]
  BY <1>1
<1>3. BuffersAt(p) = MapAt(FILE_STATE, p) \cup UNION {CallAt(task[u], p) : u \in Tasks}
  BY DEF AtIs
<1>4. BuffersAt(p)' = MapAt(FILE_STATE', p) \cup UNION {CallAt(task'[u], p) : u \in Tasks}
  BY DEF AtIs, MapAt, CallAt
<1>5. UNION {CallAt(task[u], p) : u \in Tasks} = CallAt(task[t], p) \cup OthersAt(t, p)
  BY DEF OthersAt
<1>6. UNION {CallAt(task'[u], p) : u \in Tasks} = CallAt(x, p) \cup OthersAt(t, p)
  BY <1>2 DEF OthersAt
<1> QED BY <1>3, <1>4, <1>5, <1>6

\* The buffers of p are the same; one is put back over another; or all that
\* there were are closed.
ClosesOrKeeps(p) ==
  \/ BuffersAt(p)' = BuffersAt(p)
  \/ p \in open' /\ BuffersAt(p)' \subseteq BuffersAt(p)
  \/ BuffersAt(p) \subseteq closed' /\ \E n : BuffersAt(p)' \subseteq BuffersAt(p) \cup {n}

\* A save of p's by v: an insertion closes what is at the path.
Lands(v, p) ==
  /\ task[v] # Done /\ task[v].path = p /\ store'[p] = Awaited(task[v]).text
  /\ task[v].kind = "insert" => BuffersAt(p) \subseteq closed'

LandsOrKeeps(p) ==
  \/ p \in foreign' \cup atRisk'
  \/ store'[p] = store[p] /\ p \notin foreign \cup atRisk
  \/ \E v \in Tasks : Lands(v, p)

SettledNext(p, text) ==
  p \in foreign' \cup atRisk' \/ (store'[p] # NoFile /\ IsPrefix(text, store'[p]))

\* A flush goes on to its next file.
Continued(t) ==
  /\ task[t].kind = "flush" /\ task'[t].seen = task[t].seen /\ task'[t].asked = task[t].asked
  /\ task'[t].path \in task[t].left /\ task'[t].left = task[t].left \ {task'[t].path}
  /\ DOMAIN task'[t].files = DOMAIN task[t].files
  /\ \A r \in DOMAIN task[t].files :
       /\ task'[t].files[r].text = task[t].files[r].text
       /\ r # task[t].path => task'[t].files[r] = task[t].files[r]
  /\ SettledNext(task[t].path, task[t].files[task[t].path].text)

Begun(t) == flush_all(t) /\ \A p \in Paths : BuffersAt(p)' = BuffersAt(p)

\* What a step does for the flushes.
Settling ==
  /\ closed \subseteq closed'
  /\ \A p \in Paths : ClosesOrKeeps(p) /\ LandsOrKeeps(p)
  /\ \A e \in ToSet(queue) : e.owner \in Tasks =>
       e \in ToSet(queue') \/ SettledNext(e.requests[1][1], e.requests[1][2])
  /\ \A t \in Tasks : task'[t].kind = "flush" => task'[t] = task[t] \/ Continued(t) \/ Begun(t)

LEMMA LandedAt ==
  ASSUME Types, NEW v \in Tasks, NEW p, Lands(v, p)
  PROVE  /\ Awaited(task[v]) \in File /\ <<{v}, p, Awaited(task[v])>> \in Copies
         /\ BuffersAt(p) \subseteq closed' \/ Id(Awaited(task[v]).text) \in BuffersAt(p)
<1>1. task[v] \in Call /\ FlushOK(task[v]) /\ task[v] # Done /\ task[v].path = p
  BY DEF Types, Lands
<1>2. Awaited(task[v]) \in File /\ <<{v}, p, Awaited(task[v])>> \in Copies
  <2>1. <<{v}, task[v].path, Awaited(task[v])>> \in KeptBy(task[v], v)
    BY <1>1, KeptAwaited
  <2> QED BY <1>1, <2>1, AwaitedTyped DEF Copies
<1>3. CASE task[v].kind = "insert"
  BY <1>2, <1>3 DEF Lands
<1>4. CASE task[v].kind # "insert"
  <2>1. task[v].kind \in {"edit", "flush"}
    BY <1>1, <1>4, CallKinds
  <2>2. Id(Awaited(task[v]).text) \in CallAt(task[v], p)
    BY <1>1, <2>1 DEF CallAt, MapAt, Awaited, FlushOK
  <2> QED BY <1>2, <2>2, BuffersAtIs
<1> QED BY <1>2, <1>3, <1>4

\* What was settled stays so, unless another buffer is at the path.
LEMMA SettledKept ==
  ASSUME Base, NEW p \in Paths, LandsOrKeeps(p), NEW y \in Known, Settled(p, y)
  PROVE  \/ SettledNext(p, y)
         \/ BuffersAt(p) \subseteq closed'
         \/ \E j \in BuffersAt(p) : j # Id(y)
<1>0. Types /\ Precede(Known, Copies)
  BY DEF Base
<1>1. CASE p \in foreign' \cup atRisk'
  BY <1>1 DEF SettledNext
<1>2. CASE store'[p] = store[p] /\ p \notin foreign \cup atRisk
  BY <1>2 DEF SettledNext, Settled
<1>3. ASSUME NEW v \in Tasks, Lands(v, p)
      PROVE  \/ SettledNext(p, y)
             \/ BuffersAt(p) \subseteq closed'
             \/ \E j \in BuffersAt(p) : j # Id(y)
  <2> DEFINE z == Awaited(task[v])
  <2>1. z \in File /\ <<{v}, p, z>> \in Copies
        /\ (BuffersAt(p) \subseteq closed' \/ Id(z.text) \in BuffersAt(p))
    BY <1>0, <1>3, LandedAt
  <2>2. store'[p] = z.text
    BY <1>3 DEF Lands
  <2> HIDE DEF z
  <2>3. CASE Id(z.text) = Id(y)
    <3>1. IsPrefix(y, z.text)
      BY <1>0, <2>1, <2>3 DEF Precede
    <3>2. z.text # NoFile
      BY <2>1, ConstantsAssumption DEF File, Text
    <3> QED BY <2>2, <3>1, <3>2 DEF SettledNext
  <2>4. CASE Id(z.text) # Id(y)
    BY <2>1, <2>4
  <2> QED BY <2>3, <2>4
<1> QED BY <1>1, <1>2, <1>3 DEF LandsOrKeeps

LEMMA OneOpenKept ==
  ASSUME OneOpen, Settling
  PROVE  OneOpen'
<1> SUFFICES ASSUME NEW p \in Paths, NEW i \in BuffersAt(p)', NEW j \in BuffersAt(p)', i # j
             PROVE  i \in closed' \/ j \in closed'
  BY DEF OneOpen
<1>1. closed \subseteq closed' /\ ClosesOrKeeps(p)
  BY DEF Settling
<1>2. CASE BuffersAt(p)' \subseteq BuffersAt(p)
  BY <1>1, <1>2 DEF OneOpen
<1>3. CASE BuffersAt(p) \subseteq closed' /\ \E n : BuffersAt(p)' \subseteq BuffersAt(p) \cup {n}
  BY <1>3
<1> QED BY <1>1, <1>2, <1>3 DEF ClosesOrKeeps

LEMMA FlushTyped ==
  ASSUME Types, NEW t \in Tasks, task[t].kind = "flush"
  PROVE  /\ task[t] \in FlushCall /\ task[t] # Done
         /\ task[t].path \in DOMAIN task[t].files /\ task[t].files \in FileMap
         /\ task[t].left \subseteq DOMAIN task[t].files \ {task[t].path}
         /\ task[t].asked \subseteq task[t].seen
         /\ \A b \in task[t].seen : b[1] \in Paths /\ b[2] \in File /\ b[2].text \in Known
<1>1. task[t] \in FlushCall /\ FlushOK(task[t]) /\ task[t] # Done
  BY CallKinds DEF Types, Done
<1>2. \A b \in task[t].seen : b[1] \in Paths /\ b[2] \in File
  BY <1>1 DEF FlushCall
<1>3. \A b \in task[t].seen : b[2].text \in Known
  BY DEF Known, SeenBy
<1> QED BY <1>1, <1>2, <1>3 DEF FlushOK, FlushCall

LEMMA SeenLiveKept ==
  ASSUME Types, OneOpen, SeenLive, Settling, AtIs'
  PROVE  SeenLive'
<1> SUFFICES ASSUME NEW t \in Tasks, task'[t].kind = "flush", NEW b \in task'[t].seen
             PROVE  \/ \E c \in task'[t].seen : c[1] = b[1] /\ Id(c[2].text) \in closed'
                    \/ BuffersAt(b[1])' = {Id(b[2].text)}
  BY DEF SeenLive, Dead
<1>1. closed \subseteq closed'
  BY DEF Settling
<1>2. ASSUME task[t].kind = "flush", task'[t].seen = task[t].seen
      PROVE  \/ \E c \in task'[t].seen : c[1] = b[1] /\ Id(c[2].text) \in closed'
             \/ BuffersAt(b[1])' = {Id(b[2].text)}
  <2> DEFINE p == b[1]
             i == Id(b[2].text)
  <2>1. p \in Paths
    BY <1>2, FlushTyped
  <2>2. CASE Dead(task[t], p)
    BY <1>1, <1>2, <2>2 DEF Dead
  <2>3. CASE BuffersAt(p) = {i}
    <3>1. ClosesOrKeeps(p)
      BY <2>1 DEF Settling
    <3>2. CASE BuffersAt(p)' = BuffersAt(p)
      BY <2>3, <3>2
    <3>3. CASE p \in open' /\ BuffersAt(p)' \subseteq BuffersAt(p)
      <4>1. MapAt(FILE_STATE', p) # {}
        BY <3>3 DEF MapAt, open
      <4>2. MapAt(FILE_STATE', p) \subseteq BuffersAt(p)'
        BY DEF AtIs, MapAt
      <4> QED BY <2>3, <3>3, <4>1, <4>2
    <3>4. CASE BuffersAt(p) \subseteq closed'
      BY <2>3, <3>4
    <3> QED BY <3>1, <3>2, <3>3, <3>4 DEF ClosesOrKeeps
  <2> QED BY <1>2, <2>2, <2>3 DEF SeenLive
<1>3. CASE Begun(t)
  <2>1. task'[t].seen = Buffers
    BY <1>3 DEF flush_all, Begun, Types
  <2>2. b[1] \in Paths
    BY <2>1, BuffersAreCopies
  <2>3. BuffersAt(b[1])' = BuffersAt(b[1]) /\ Id(b[2].text) \in BuffersAt(b[1])
    BY <1>3, <2>1, <2>2 DEF Begun, BuffersAt
  <2>4. ASSUME NEW j \in BuffersAt(b[1]), j # Id(b[2].text)
        PROVE  \E c \in task'[t].seen : c[1] = b[1] /\ Id(c[2].text) \in closed'
    <3>1. j \in closed \/ Id(b[2].text) \in closed
      BY <2>2, <2>3, <2>4 DEF OneOpen
    <3>2. PICK c \in Buffers : c[1] = b[1] /\ j = Id(c[2].text)
      BY DEF BuffersAt
    <3> QED BY <1>1, <2>1, <3>1, <3>2
  <2> QED BY <2>3, <2>4
<1>4. task'[t] = task[t] \/ Continued(t) \/ Begun(t)
  BY DEF Settling
<1> QED BY <1>2, <1>3, <1>4 DEF Continued

\* A session's transaction saves the buffer its call awaits.
LEMMA SavingIs ==
  ASSUME Types, QueueAgrees, NEW e \in ToSet(queue), e.owner \in Tasks
  PROVE  /\ task[e.owner] # Done /\ e.requests[1][1] = task[e.owner].path
         /\ e.requests[1][2] = Awaited(task[e.owner]).text /\ e.requests[1][2] \in Text
<1>1. task[e.owner] # Done /\ e.requests = Put(task[e.owner].path, Awaited(task[e.owner]))
  BY DEF QueueAgrees
<1>2. Awaited(task[e.owner]) \in File
  BY <1>1, AwaitedTyped DEF Types
<1> QED BY <1>1, <1>2 DEF Put, File

LEMMA AskedGoesOn ==
  ASSUME Base, Types', SeenLive, Settling, NEW t \in Tasks, task[t].kind = "flush",
         NEW b \in task[t].asked,
         Dead(task[t], b[1]) \/ Settled(b[1], b[2].text) \/ Saving(b[1], b[2].text)
  PROVE  \/ \E c \in task[t].seen : c[1] = b[1] /\ Id(c[2].text) \in closed'
         \/ SettledNext(b[1], b[2].text)
         \/ Saving(b[1], b[2].text)'
<1> DEFINE p == b[1]
           y == b[2].text
<1>0. Types /\ QueueAgrees
  BY DEF Base
<1>1. b \in task[t].seen /\ p \in Paths /\ y \in Known /\ b[2] \in File /\ y \in Text
  BY <1>0, FlushTyped DEF File
<1>2. closed \subseteq closed' /\ LandsOrKeeps(p)
  BY <1>1 DEF Settling
<1>3. CASE Dead(task[t], p)
  BY <1>2, <1>3 DEF Dead
<1>4. CASE BuffersAt(p) = {Id(y)} /\ Settled(p, y)
  <2>1. \/ SettledNext(p, y)
        \/ BuffersAt(p) \subseteq closed'
        \/ \E j \in BuffersAt(p) : j # Id(y)
    BY <1>1, <1>2, <1>4, SettledKept
  <2> QED BY <1>1, <1>4, <2>1
<1>5. CASE Saving(p, y)
  <2>1. PICK e \in ToSet(queue) : e.owner \in Tasks /\ e.requests[1][1] = p /\ IsPrefix(y, e.requests[1][2])
    BY <1>5 DEF Saving
  <2>2. CASE e \in ToSet(queue')
    BY <2>1, <2>2 DEF Saving
  <2>3. CASE SettledNext(p, e.requests[1][2])
    <3>1. e.requests[1][2] \in Text
      BY <1>0, <2>1, SavingIs
    <3>2. ASSUME store'[p] # NoFile, IsPrefix(e.requests[1][2], store'[p]) PROVE IsPrefix(y, store'[p])
      <4>1. store'[p] \in Text
        BY <1>1, <3>2 DEF Types
      <4> QED BY <1>1, <2>1, <3>1, <3>2, <4>1, PrefixOfTexts
    <3> QED BY <2>3, <3>2 DEF SettledNext
  <2> QED BY <2>1, <2>2, <2>3 DEF Settling
<1>6. Dead(task[t], p) \/ BuffersAt(p) = {Id(y)}
  BY <1>1 DEF SeenLive
<1> QED BY <1>3, <1>4, <1>5, <1>6

LEMMA DoneKept ==
  ASSUME Base, Base', OneOpen, OneOpen', DoneAgrees, AtIs, AtIs', Settling
  PROVE  DoneAgrees'
<1> SUFFICES ASSUME NEW t \in Tasks, task'[t].kind = "flush", NEW p \in DoneBy(task'[t])
             PROVE  \/ SettledNext(p, task'[t].files[p].text)
                    \/ \E j \in BuffersAt(p)' : j \in closed'
  BY DEF DoneAgrees, Settled, SettledNext
<1>0. Types /\ Types' /\ Unique(Copies) /\ Unique(Copies)'
  BY DEF Base
<1>1. closed \subseteq closed'
  BY DEF Settling
<1>2. CASE Begun(t)
  <2>1. PICK q \in open : task'[t] = [kind |-> "flush", path |-> q, files |-> FILE_STATE,
                                      left |-> open \ {q},
                                      asked |-> Buffers \ Waiting, seen |-> Buffers]
    BY <1>0, <1>2 DEF flush_all, Begun, Types
  <2>2. DoneBy(task'[t]) = {}
    BY <2>1 DEF DoneBy, open
  <2> QED BY <2>2
<1>3. ASSUME task[t].kind = "flush", p \in DoneBy(task[t]),
             task'[t].files[p] = task[t].files[p], DOMAIN task'[t].files = DOMAIN task[t].files
      PROVE  \/ SettledNext(p, task'[t].files[p].text)
             \/ \E j \in BuffersAt(p)' : j \in closed'
  <2> DEFINE f == task[t].files[p]
             i == Id(f.text)
  <2>1. p \in DOMAIN task[t].files /\ p # task[t].path /\ p \in Paths
    <3>1. p \in DOMAIN task[t].files /\ p # task[t].path
      BY <1>3 DEF DoneBy
    <3> QED BY <1>0, <1>3, <3>1, FlushTyped, MapTyped
  <2>2. i \in BuffersAt(p)
    <3>1. i \in CallAt(task[t], p)
      BY <1>3, <2>1 DEF CallAt, MapAt
    <3> QED BY <3>1 DEF AtIs
  <2>3. i \in BuffersAt(p)'
    <3>1. i \in CallAt(task'[t], p)
      BY <1>3, <2>1 DEF CallAt, MapAt
    <3> QED BY <3>1 DEF AtIs, CallAt, MapAt
  <2>4. <<{t}, p, f>> \in Copies /\ <<{t}, p, f>> \in Copies'
    <3>1. <<{t}, p, f>> \in KeptBy(task[t], t) /\ <<{t}, p, f>> \in KeptBy(task'[t], t)
      BY <1>3, <2>1 DEF KeptBy
    <3> QED BY <3>1 DEF Copies
  <2> HIDE DEF f, i
  <2>5. ASSUME NEW j \in BuffersAt(p), j # i PROVE \E k \in BuffersAt(p)' : k \in closed'
    <3>1. ClosesOrKeeps(p)
      BY <2>1 DEF Settling
    <3>2. CASE BuffersAt(p)' = BuffersAt(p)
      BY <2>1, <2>2, <2>3, <2>5, <3>2 DEF OneOpen
    <3>3. CASE p \in open'
      <4> DEFINE d == <<{}, p, FILE_STATE'[p]>>
      <4>1. d \in Copies'
        BY <3>3 DEF Copies, InMap
      <4>2. d # <<{t}, p, f>>
        OBVIOUS
      <4>3. Id(FILE_STATE'[p].text) # Id(f.text)
        BY <1>0, <2>4, <4>1, <4>2 DEF Unique
      <4>4. Id(FILE_STATE'[p].text) \in BuffersAt(p)'
        BY <3>3 DEF AtIs, MapAt, open
      <4> QED BY <2>1, <2>3, <4>3, <4>4 DEF OneOpen, i
    <3>4. CASE BuffersAt(p) \subseteq closed'
      BY <2>2, <2>3, <3>4
    <3> QED BY <3>1, <3>2, <3>3, <3>4 DEF ClosesOrKeeps
  <2>6. CASE \E j \in BuffersAt(p) : j \in closed
    <3>1. PICK j \in BuffersAt(p) : j \in closed
      BY <2>6
    <3>2. CASE j = i
      BY <1>1, <2>3, <3>1, <3>2
    <3>3. CASE j # i
      BY <2>5, <3>3
    <3> QED BY <3>2, <3>3
  <2>7. CASE Settled(p, f.text)
    <3>1. CASE p \in foreign' \cup atRisk'
      BY <3>1 DEF SettledNext
    <3>2. CASE store'[p] = store[p] /\ p \notin foreign \cup atRisk
      BY <1>3, <2>7, <3>2 DEF SettledNext, Settled, f
    <3>3. ASSUME NEW v \in Tasks, Lands(v, p)
          PROVE  \E j \in BuffersAt(p)' : j \in closed'
      <4> DEFINE z == Awaited(task[v])
      <4>1. <<{v}, p, z>> \in Copies
            /\ (BuffersAt(p) \subseteq closed' \/ Id(z.text) \in BuffersAt(p))
        BY <1>0, <3>3, LandedAt
      <4>2. v # t
        BY <2>1, <3>3 DEF Lands
      <4> HIDE DEF z
      <4>3. Id(z.text) # i
        <5>1. <<{v}, p, z>> # <<{t}, p, f>>
          BY <4>2
        <5> QED BY <1>0, <2>4, <4>1, <5>1 DEF Unique, i
      <4>4. CASE BuffersAt(p) \subseteq closed'
        BY <2>2, <2>3, <4>4
      <4>5. CASE Id(z.text) \in BuffersAt(p)
        BY <2>5, <4>3, <4>5
      <4> QED BY <4>1, <4>4, <4>5
    <3>4. LandsOrKeeps(p)
      BY <2>1 DEF Settling
    <3> QED BY <3>1, <3>2, <3>3, <3>4 DEF LandsOrKeeps
  <2>8. Settled(p, f.text) \/ \E j \in BuffersAt(p) : j \in closed
    BY <1>3 DEF DoneAgrees, f
  <2> QED BY <2>6, <2>7, <2>8
<1>4. CASE task'[t] = task[t]
  BY <1>3, <1>4
<1>5. CASE Continued(t)
  <2>1. /\ task[t].kind = "flush" /\ DOMAIN task'[t].files = DOMAIN task[t].files
        /\ task'[t].path \in task[t].left /\ task'[t].left = task[t].left \ {task'[t].path}
    BY <1>5 DEF Continued
  <2>2. CASE p = task[t].path
    <3>1. p \in DOMAIN task[t].files
      BY <1>0, <2>1, <2>2, FlushTyped
    <3>2. task'[t].files[p].text = task[t].files[p].text
      BY <1>5, <3>1 DEF Continued
    <3> QED BY <1>5, <2>2, <3>2 DEF Continued
  <2>3. CASE p # task[t].path
    <3>1. p \in DOMAIN task[t].files /\ p \in DoneBy(task[t])
      BY <2>1, <2>3 DEF DoneBy
    <3>2. task'[t].files[p] = task[t].files[p]
      BY <1>5, <2>3, <3>1 DEF Continued
    <3> QED BY <1>3, <2>1, <3>1, <3>2
  <2> QED BY <2>2, <2>3
<1>6. task'[t] = task[t] \/ Continued(t) \/ Begun(t)
  BY DEF Settling
<1> QED BY <1>2, <1>4, <1>5, <1>6

LEMMA AskedKept ==
  ASSUME Base, Base', OneOpen, SeenLive, AskedAgrees, DoneAgrees, Settling
  PROVE  AskedAgrees'
<1> SUFFICES ASSUME NEW t \in Tasks, task'[t].kind = "flush", NEW b \in task'[t].asked
             PROVE  \/ \E c \in task'[t].seen : c[1] = b[1] /\ Id(c[2].text) \in closed'
                    \/ SettledNext(b[1], b[2].text)
                    \/ Saving(b[1], b[2].text)'
                    \/ b[1] \in task'[t].left /\ task'[t].files[b[1]] = b[2]
  BY DEF AskedAgrees, Settled, SettledNext, Dead
<1>0. Types /\ Types' /\ QueueAgrees /\ QueueAgrees'
  BY DEF Base
<1>1. ASSUME task[t].kind = "flush", task'[t].seen = task[t].seen, b \in task[t].asked,
             ~(b[1] \in task[t].left /\ task[t].files[b[1]] = b[2])
      PROVE  \/ \E c \in task'[t].seen : c[1] = b[1] /\ Id(c[2].text) \in closed'
             \/ SettledNext(b[1], b[2].text)
             \/ Saving(b[1], b[2].text)'
  <2>1. Dead(task[t], b[1]) \/ Settled(b[1], b[2].text) \/ Saving(b[1], b[2].text)
    BY <1>1 DEF AskedAgrees
  <2>2. \/ \E c \in task[t].seen : c[1] = b[1] /\ Id(c[2].text) \in closed'
        \/ SettledNext(b[1], b[2].text)
        \/ Saving(b[1], b[2].text)'
    BY <1>0, <1>1, <2>1, AskedGoesOn
  <2> QED BY <1>1, <2>2
<1>2. CASE task'[t] = task[t]
  BY <1>1, <1>2
<1>3. CASE Continued(t)
  <2>1. /\ task[t].kind = "flush" /\ task'[t].seen = task[t].seen /\ b \in task[t].asked
        /\ task'[t].path \in task[t].left /\ task'[t].left = task[t].left \ {task'[t].path}
    BY <1>3 DEF Continued
  <2>2. CASE b[1] \in task[t].left /\ task[t].files[b[1]] = b[2]
    <3>1. b[1] \in DOMAIN task[t].files /\ b[1] # task[t].path
      BY <1>0, <2>1, <2>2, FlushTyped
    <3>2. task'[t].files[b[1]] = b[2]
      BY <1>3, <2>2, <3>1 DEF Continued
    <3>3. CASE b[1] # task'[t].path
      BY <2>1, <2>2, <3>2, <3>3
    <3>4. CASE b[1] = task'[t].path
      <4>1. task'[t] # Done
        BY DEF Done
      <4>2. PICK e \in ToSet(queue') : e.owner = t
        BY <1>0, <4>1 DEF QueueAgrees
      <4>3. e.requests = Put(task'[t].path, Awaited(task'[t]))
        BY <1>0, <4>2 DEF QueueAgrees, Awaited
      <4>4. Awaited(task'[t]) = b[2]
        BY <3>2, <3>4 DEF Awaited
      <4>5. e.requests[1][1] = b[1] /\ e.requests[1][2] = b[2].text
        BY <3>4, <4>3, <4>4 DEF Put
      <4>6. IsPrefix(b[2].text, b[2].text)
        <5>1. b[2] \in File
          BY <1>0, <2>1, FlushTyped
        <5> QED BY <5>1, PrefixOfTexts DEF File
      <4> QED BY <4>2, <4>5, <4>6 DEF Saving
    <3> QED BY <3>3, <3>4
  <2>3. CASE ~(b[1] \in task[t].left /\ task[t].files[b[1]] = b[2])
    BY <1>1, <2>1, <2>3
  <2> QED BY <2>2, <2>3
<1>4. CASE Begun(t)
  <2>1. PICK p \in open :
          /\ task' = [task EXCEPT ![t] = [kind |-> "flush", path |-> p, files |-> FILE_STATE,
                                          left |-> open \ {p},
                                          asked |-> Buffers \ Waiting, seen |-> Buffers]]
          /\ Open(t, Put(p, FILE_STATE[p]))
    BY <1>4 DEF flush_all, Begun
  <2>2. UNCHANGED <<store, closed, foreign, atRisk>> /\ task[t] = Done
    BY <1>4 DEF flush_all, Begun, history
  <2>3. task'[t] = [kind |-> "flush", path |-> p, files |-> FILE_STATE, left |-> open \ {p},
                    asked |-> Buffers \ Waiting, seen |-> Buffers]
    BY <1>0, <2>1 DEF Types
  <2>4. b \in Buffers /\ b \notin Waiting /\ task'[t].seen = Buffers
    BY <2>3
  <2>5. b = <<b[1], b[2]>> /\ b[1] \in Paths /\ b[2] \in File
    BY <1>0, <2>4, BuffersAreCopies
  <2>6. b[2].text \in Text /\ IsPrefix(b[2].text, b[2].text)
    BY <2>5, PrefixOfTexts DEF File
  <2>7. ToSet(queue') = ToSet(queue) \cup {Transaction(t, Put(p, FILE_STATE[p]))}
    <3>1. FILE_STATE[p] \in File /\ p \in Paths
      BY <1>0, InMapIs
    <3>2. Put(p, FILE_STATE[p]) \in Seq(Request)
      BY <3>1 DEF Put, Request, File
    <3>3. \A e \in ToSet(queue) : e.owner # t
      BY <1>0, <2>2 DEF QueueAgrees
    <3> QED BY <1>0, <2>1, <3>2, <3>3, Opened
  <2>8. CASE b \in {<<q, FILE_STATE[q]>> : q \in open}
    <3>1. b[1] \in open /\ FILE_STATE[b[1]] = b[2]
      BY <2>8
    <3>2. CASE b[1] # p
      BY <2>3, <3>1, <3>2
    <3>3. CASE b[1] = p
      <4> DEFINE e == Transaction(t, Put(p, FILE_STATE[p]))
      <4>1. e \in ToSet(queue') /\ e.owner = t /\ e.requests[1][1] = b[1] /\ e.requests[1][2] = b[2].text
        BY <2>7, <3>1, <3>3 DEF Transaction, Put
      <4> HIDE DEF e
      <4> QED BY <2>6, <4>1 DEF Saving
    <3> QED BY <3>2, <3>3
  <2>9. ASSUME NEW u \in Tasks, task[u] # Done, task[u].path = b[1], Awaited(task[u]) = b[2]
        PROVE  Saving(b[1], b[2].text)'
    <3>1. PICK e \in ToSet(queue) : e.owner = u
      BY <1>0, <2>9 DEF QueueAgrees
    <3>2. e.requests[1][1] = b[1] /\ e.requests[1][2] = b[2].text
      BY <1>0, <2>9, <3>1, SavingIs
    <3>3. e \in ToSet(queue')
      BY <2>7, <3>1
    <3> QED BY <2>6, <3>1, <3>2, <3>3 DEF Saving
  <2>10. ASSUME NEW u \in Tasks, b \in Held(u)
         PROVE  \/ \E c \in task'[t].seen : c[1] = b[1] /\ Id(c[2].text) \in closed'
                \/ SettledNext(b[1], b[2].text)
                \/ Saving(b[1], b[2].text)'
    <3>1. task[u].kind \in {"edit", "flush"}
      BY <2>10 DEF Held
    <3>2. CASE task[u].kind = "edit"
      <4>1. task[u] # Done /\ task[u].path = b[1] /\ Awaited(task[u]) = b[2]
        BY <2>10, <3>2 DEF Held, Awaited, Done
      <4> QED BY <2>9, <4>1
    <3>3. CASE task[u].kind = "flush"
      <4>1. b[1] \in DOMAIN task[u].files /\ b[2] = task[u].files[b[1]]
        BY <2>10, <3>3 DEF Held
      <4>2. CASE b[1] = task[u].path
        <5>1. task[u] # Done /\ Awaited(task[u]) = b[2]
          BY <3>3, <4>1, <4>2 DEF Awaited, Done
        <5> QED BY <2>9, <4>2, <5>1
      <4>3. CASE b[1] \in task[u].left
        <5>1. <<b[1], task[u].files[b[1]]>> \in Waiting
          BY <3>3, <4>3 DEF Waiting
        <5> QED BY <2>4, <2>5, <4>1, <5>1
      <4>4. CASE b[1] \in DoneBy(task[u])
        <5>1. Settled(b[1], b[2].text) \/ \E j \in BuffersAt(b[1]) : j \in closed
          BY <3>3, <4>1, <4>4 DEF DoneAgrees
        <5>2. Settled(b[1], b[2].text) => SettledNext(b[1], b[2].text)
          BY <2>2 DEF Settled, SettledNext
        <5>3. ASSUME NEW j \in BuffersAt(b[1]), j \in closed
              PROVE  \E c \in task'[t].seen : c[1] = b[1] /\ Id(c[2].text) \in closed'
          BY <2>2, <2>4, <5>3 DEF BuffersAt
        <5> QED BY <5>1, <5>2, <5>3
      <4> QED BY <4>1, <4>2, <4>3, <4>4 DEF DoneBy
    <3> QED BY <3>1, <3>2, <3>3
  <2> QED BY <2>4, <2>8, <2>10 DEF Buffers
<1>5. task'[t] = task[t] \/ Continued(t) \/ Begun(t)
  BY DEF Settling
<1> QED BY <1>2, <1>3, <1>4, <1>5

LEMMA Settles ==
  ASSUME IInv, Base', AtIs, AtIs', Settling
  PROVE  IInv'
<1>1. Base /\ OneOpen /\ SeenLive /\ AskedAgrees /\ DoneAgrees /\ Types
  BY DEF IInv, Base
<1>2. OneOpen'
  BY <1>1, OneOpenKept
<1>3. SeenLive'
  BY <1>1, SeenLiveKept
<1>4. AskedAgrees'
  BY <1>1, AskedKept
<1>5. DoneAgrees'
  BY <1>1, <1>2, DoneKept
<1> QED BY <1>2, <1>3, <1>4, <1>5 DEF IInv

LEMMA OpenKeeps ==
  ASSUME Types, NEW owner, NEW requests, Open(owner, requests)
  PROVE  ToSet(queue) \subseteq ToSet(queue')
<1>1. queue' = Append(queue, Transaction(owner, requests))
  BY DEF Open
<1>2. Len(queue) \in Nat /\ DOMAIN queue = 1..Len(queue)
  BY DEF Types
<1>3. Len(queue') = Len(queue) + 1 /\ DOMAIN queue' = 1..(Len(queue) + 1)
      /\ \A i \in 1..Len(queue) : queue'[i] = queue[i]
  <2>1. queue \in Seq(ToSet(queue) \cup {Transaction(owner, requests)})
    BY DEF Types, ToSet
  <2> QED BY <1>1, <1>2, <2>1
<1> QED BY <1>2, <1>3 DEF ToSet

\* What a call does for the flushes before its first await.
LEMMA CallSettles ==
  ASSUME Types, AtIs, AtIs', NEW t \in Tasks, NEW x, task' = [task EXCEPT ![t] = x],
         ToSet(queue) \subseteq ToSet(queue'), UNCHANGED <<store, history>>,
         \A p \in Paths : MapAt(FILE_STATE', p) \cup CallAt(x, p)
                          = MapAt(FILE_STATE, p) \cup CallAt(task[t], p),
         x.kind = "flush" => flush_all(t)
  PROVE  Settling
<1>1. \A p \in Paths : BuffersAt(p)' = BuffersAt(p)
  <2> SUFFICES ASSUME NEW p \in Paths PROVE BuffersAt(p)' = BuffersAt(p)
    OBVIOUS
  <2>1. /\ BuffersAt(p) = MapAt(FILE_STATE, p) \cup CallAt(task[t], p) \cup OthersAt(t, p)
        /\ BuffersAt(p)' = MapAt(FILE_STATE', p) \cup CallAt(x, p) \cup OthersAt(t, p)
    <3>1. \A q :
            /\ BuffersAt(q) = MapAt(FILE_STATE, q) \cup CallAt(task[t], q) \cup OthersAt(t, q)
            /\ BuffersAt(q)' = MapAt(FILE_STATE', q) \cup CallAt(x, q) \cup OthersAt(t, q)
      BY AtMoved, ZenonT(60)
    <3> QED BY <3>1, Zenon
  <2> QED BY <2>1
<1>2. UNCHANGED <<store, closed, foreign, atRisk>>
  BY DEF history
<1>3. \A p \in Paths : ClosesOrKeeps(p) /\ LandsOrKeeps(p)
  BY <1>1, <1>2 DEF ClosesOrKeeps, LandsOrKeeps
<1>4. task'[t] = x /\ \A u \in Tasks \ {t} : task'[u] = task[u]
  BY DEF Types
<1>5. ASSUME NEW u \in Tasks, task'[u].kind = "flush"
      PROVE  task'[u] = task[u] \/ Continued(u) \/ Begun(u)
  BY <1>1, <1>4, <1>5 DEF Begun
<1> QED BY <1>2, <1>3, <1>5 DEF Settling

\* Buffers leave the map.
LEMMA ShrinkSettles ==
  ASSUME Types, AtIs, AtIs', UNCHANGED <<store, queue, task, foreign, atRisk>>, closed \subseteq closed',
         \A p \in Paths : \/ MapAt(FILE_STATE', p) = MapAt(FILE_STATE, p)
                          \/ MapAt(FILE_STATE', p) = {} /\ BuffersAt(p) \subseteq closed'
  PROVE  Settling
<1>1. ASSUME NEW p \in Paths PROVE ClosesOrKeeps(p)
  <2>1. BuffersAt(p) = MapAt(FILE_STATE, p) \cup UNION {CallAt(task[u], p) : u \in Tasks}
    BY DEF AtIs
  <2>2. BuffersAt(p)' = MapAt(FILE_STATE', p) \cup UNION {CallAt(task[u], p) : u \in Tasks}
    BY DEF AtIs, MapAt, CallAt
  <2>3. CASE MapAt(FILE_STATE', p) = MapAt(FILE_STATE, p)
    BY <2>1, <2>2, <2>3 DEF ClosesOrKeeps
  <2>4. CASE MapAt(FILE_STATE', p) = {} /\ BuffersAt(p) \subseteq closed'
    <3>1. BuffersAt(p)' \subseteq BuffersAt(p) \cup {0}
      BY <2>1, <2>2, <2>4
    <3> QED BY <2>4, <3>1 DEF ClosesOrKeeps
  <2> QED BY <2>3, <2>4
<1>2. \A p \in Paths : LandsOrKeeps(p)
  BY DEF LandsOrKeeps
<1> QED BY <1>1, <1>2 DEF Settling

LEMMA RemoveSettles ==
  ASSUME Types, AtIs, AtIs', NEW p \in Paths, remove_file(p)
  PROVE  Settling
<1>1. UNCHANGED <<store, queue, task, foreign, atRisk>> /\ closed' = closed \cup BuffersAt(p)
      /\ FILE_STATE' = Take(p)
  BY DEF remove_file, storeVars
<1>2. ASSUME NEW q \in Paths
      PROVE  \/ MapAt(FILE_STATE', q) = MapAt(FILE_STATE, q)
             \/ MapAt(FILE_STATE', q) = {} /\ BuffersAt(q) \subseteq closed'
  <2>1. DOMAIN Take(p) = open \ {p} /\ \A r \in open \ {p} : Take(p)[r] = FILE_STATE[r]
    BY MapTake
  <2>2. CASE q = p
    BY <1>1, <2>1, <2>2 DEF MapAt
  <2>3. CASE q # p
    BY <1>1, <2>1, <2>3 DEF MapAt, open
  <2> QED BY <2>2, <2>3
<1> QED BY <1>1, <1>2, ShrinkSettles

LEMMA WipeSettles ==
  ASSUME Types, AtIs, AtIs', wipe_state
  PROVE  Settling
<1>1. UNCHANGED <<store, queue, task, foreign, atRisk>> /\ FILE_STATE' = << >>
      /\ closed' = closed \cup UNION {BuffersAt(p) : p \in Paths}
  BY DEF wipe_state, storeVars
<1>2. \A q \in Paths : MapAt(FILE_STATE', q) = {} /\ BuffersAt(q) \subseteq closed'
  BY <1>1, MapEmpty DEF MapAt
<1> QED BY <1>1, <1>2, ShrinkSettles

LEMMA InsertSettles ==
  ASSUME Types, AtIs, AtIs', NEW t \in Tasks, NEW p \in Paths, insert_file(t, p)
  PROVE  Settling
<1> DEFINE file == [text |-> <<edits + 1>>, ops_since_save |-> 0]
           x == [kind |-> "insert", path |-> p, file |-> file]
<1>1. /\ task[t] = Done /\ task' = [task EXCEPT ![t] = x] /\ Open(t, Put(p, file))
      /\ UNCHANGED <<store, FILE_STATE, history>>
  BY DEF insert_file
<1>2. x.kind = "insert"
  OBVIOUS
<1> HIDE DEF x
<1>3. ToSet(queue) \subseteq ToSet(queue')
  BY <1>1, OpenKeeps
<1>4. \A q \in Paths : MapAt(FILE_STATE', q) \cup CallAt(x, q)
                       = MapAt(FILE_STATE, q) \cup CallAt(task[t], q)
  BY <1>1, <1>2 DEF CallAt, Done
<1> QED BY <1>1, <1>2, <1>3, <1>4, CallSettles

LEMMA TakingSettles ==
  ASSUME Types, AtIs, AtIs', NEW t \in Tasks, NEW p \in open, NEW file \in File, NEW rest, NEW x,
         x = [kind |-> "edit", path |-> p, file |-> file, rest |-> rest],
         IsPrefix(FILE_STATE[p].text, file.text),
         task[t] = Done, task' = [task EXCEPT ![t] = x], Open(t, Put(p, file)),
         FILE_STATE' = Take(p), UNCHANGED <<store, history>>
  PROVE  Settling
<1>1. x.kind = "edit" /\ x.path = p /\ x.file = file
  OBVIOUS
<1>2. ToSet(queue) \subseteq ToSet(queue')
  BY OpenKeeps
<1>3. Id(file.text) = Id(FILE_STATE[p].text)
  BY InMapIs, PrefixOfTexts DEF File
<1>4. ASSUME NEW q \in Paths
      PROVE  MapAt(FILE_STATE', q) \cup CallAt(x, q) = MapAt(FILE_STATE, q) \cup CallAt(task[t], q)
  <2>1. DOMAIN Take(p) = open \ {p} /\ \A r \in open \ {p} : Take(p)[r] = FILE_STATE[r]
    BY MapTake
  <2>2. CASE q = p
    BY <1>1, <1>3, <2>1, <2>2 DEF MapAt, CallAt, open, Done
  <2>3. CASE q # p
    BY <1>1, <2>1, <2>3 DEF MapAt, CallAt, open, Done
  <2> QED BY <2>2, <2>3
<1>5. x.kind = "flush" => flush_all(t)
  BY <1>1
<1> QED BY <1>2, <1>4, <1>5, CallSettles, Zenon

LEMMA UpdateSettles ==
  ASSUME Types, AtIs, AtIs', NEW t \in Tasks, NEW p \in Paths, apply_update_to_file(t, p)
  PROVE  Settling
<1> DEFINE file == [FILE_STATE[p] EXCEPT !.text = Append(@, edits + 1)]
           x == [kind |-> "edit", path |-> p, file |-> file, rest |-> << >>]
<1>1. /\ task[t] = Done /\ p \in open /\ task' = [task EXCEPT ![t] = x] /\ Open(t, Put(p, file))
      /\ FILE_STATE' = Take(p) /\ UNCHANGED <<store, history>>
  BY DEF apply_update_to_file, TakenOut
<1>2. FILE_STATE[p] \in File
  BY <1>1, InMapIs
<1>3. edits + 1 \in Nat
  BY ConstantsAssumption DEF Types
<1>4. file \in File /\ IsPrefix(FILE_STATE[p].text, file.text)
  BY <1>2, <1>3, AppendedFile
<1> HIDE DEF file
<1> QED BY <1>1, <1>4, TakingSettles

LEMMA TransactionSettles ==
  ASSUME Types, AtIs, AtIs', NEW t \in Tasks, NEW p \in Paths, write_transaction_to_file(t, p)
  PROVE  Settling
<1>1. PICK runs \in Transactions :
        LET d == ApplyUntilSave(FILE_STATE[p], Numbered(runs))
        IN IF d.saving
           THEN /\ FILE_STATE' = TakenOut(p)
                /\ task' = [task EXCEPT ![t] = [kind |-> "edit", path |-> p,
                                                file |-> d.file, rest |-> d.rest]]
                /\ Open(t, Put(p, d.file))
           ELSE FILE_STATE' = Insert(p, d.file) /\ UNCHANGED <<task, queue>>
  BY DEF write_transaction_to_file
<1>2. task[t] = Done /\ p \in open /\ UNCHANGED <<store, history>>
  BY DEF write_transaction_to_file
<1>3. FILE_STATE[p] \in File /\ edits \in Nat
  <2>1. edits \in Nat
    BY ConstantsAssumption DEF Types
  <2> QED BY <1>2, <2>1, InMapIs
<1>4. SUFFICES ASSUME NEW d, d = ApplyUntilSave(FILE_STATE[p], Numbered(runs)) PROVE Settling
  OBVIOUS
<1>5. d.file \in File /\ IsPrefix(FILE_STATE[p].text, d.file.text)
  <2>1. Numbered(runs) \in Seq(Nat \X {"char", "run"})
    BY <1>3, NumberedTyped
  <2> QED BY <1>3, <1>4, <2>1, ApplyEffect
<1>6. CASE d.saving
  <2>1. /\ FILE_STATE' = Take(p) /\ Open(t, Put(p, d.file))
        /\ task' = [task EXCEPT ![t] = [kind |-> "edit", path |-> p, file |-> d.file, rest |-> d.rest]]
    BY <1>1, <1>4, <1>6 DEF TakenOut
  <2> QED BY <1>2, <1>5, <2>1, TakingSettles
<1>7. CASE ~d.saving
  <2>1. FILE_STATE' = Insert(p, d.file) /\ task' = task /\ queue' = queue
    BY <1>1, <1>4, <1>7
  <2>2. UNCHANGED <<store, foreign, atRisk, closed>>
    BY <1>2 DEF history
  <2>3. Id(d.file.text) = Id(FILE_STATE[p].text)
    BY <1>3, <1>5, PrefixOfTexts DEF File
  <2>4. ASSUME NEW q \in Paths PROVE MapAt(FILE_STATE', q) = MapAt(FILE_STATE, q)
    <3>1. /\ DOMAIN Insert(p, d.file) = open \cup {p}
          /\ \A r \in open \cup {p} : Insert(p, d.file)[r] = IF r = p THEN d.file ELSE FILE_STATE[r]
      BY <1>5, MapInsert
    <3> QED BY <1>2, <2>1, <2>3, <3>1 DEF MapAt, open
  <2> QED BY <2>1, <2>2, <2>4, ShrinkSettles
<1> QED BY <1>6, <1>7

LEMMA FlushAllSettles ==
  ASSUME Types, AtIs, AtIs', NEW t \in Tasks, flush_all(t)
  PROVE  Settling
<1>1. PICK p \in open :
        /\ task' = [task EXCEPT ![t] = [kind |-> "flush", path |-> p, files |-> FILE_STATE,
                                        left |-> open \ {p},
                                        asked |-> Buffers \ Waiting, seen |-> Buffers]]
        /\ Open(t, Put(p, FILE_STATE[p]))
  BY DEF flush_all
<1>2. task[t] = Done /\ FILE_STATE' = << >> /\ UNCHANGED <<store, history>>
  BY DEF flush_all
<1> DEFINE x == [kind |-> "flush", path |-> p, files |-> FILE_STATE, left |-> open \ {p},
                 asked |-> Buffers \ Waiting, seen |-> Buffers]
<1>3. x.kind = "flush" /\ x.files = FILE_STATE /\ task' = [task EXCEPT ![t] = x]
  BY <1>1
<1> HIDE DEF x
<1>4. ToSet(queue) \subseteq ToSet(queue')
  BY <1>1, OpenKeeps
<1>5. \A q \in Paths : MapAt(FILE_STATE', q) \cup CallAt(x, q)
                       = MapAt(FILE_STATE, q) \cup CallAt(task[t], q)
  BY <1>2, <1>3, MapEmpty DEF MapAt, CallAt, Done
<1> QED BY <1>2, <1>3, <1>4, <1>5, CallSettles

LEMMA StoreSettles ==
  ASSUME Base, AtIs, AtIs', StoreOperation
  PROVE  Settling
<1>1. PICK c \in Callers : \E y, requests : StoreMoves(c, y, requests)
  BY StoreOperationIs
<1>2. PICK y, requests : StoreMoves(c, y, requests)
  BY <1>1
<1>3. UNCHANGED <<FILE_STATE, task, closed, atRisk>>
  BY <1>2 DEF StoreMoves
<1>4. ASSUME NEW p \in Paths PROVE ClosesOrKeeps(p) /\ LandsOrKeeps(p)
  <2>1. BuffersAt(p) = MapAt(FILE_STATE, p) \cup UNION {CallAt(task[u], p) : u \in Tasks}
    BY DEF AtIs
  <2>2. BuffersAt(p)' = MapAt(FILE_STATE, p) \cup UNION {CallAt(task[u], p) : u \in Tasks}
    BY <1>3 DEF AtIs, MapAt, CallAt
  <2>3. LandsOrKeeps(p)
    BY <1>2, <1>3 DEF StoreMoves, LandsOrKeeps
  <2> QED BY <2>1, <2>2, <2>3 DEF ClosesOrKeeps
<1>5. ASSUME NEW e \in ToSet(queue), e.owner \in Tasks PROVE e \in ToSet(queue')
  <2>1. e.owner # c
    BY <1>5, ConstantsAssumption
  <2> QED BY <1>2, <2>1 DEF StoreMoves
<1> QED BY <1>3, <1>4, <1>5 DEF Settling

\* What the answer to a save does for the flushes.
LEMMA AnswerSettles ==
  ASSUME Base, NEW t \in Tasks, Served(1, t), NEW answer \in Answers(1),
         NEW requests \in Seq(Request), Answer(1, answer, requests), Recorded(task[t].path, answer),
         NEW x, task' = [task EXCEPT ![t] = x],
         closed \subseteq closed', \A p \in Paths : ClosesOrKeeps(p),
         task[t].kind = "insert" /\ answer = "ok" => BuffersAt(task[t].path) \subseteq closed',
         SettledNext(task[t].path, Awaited(task[t]).text) /\ x.kind = "flush" => Continued(t)
  PROVE  Settling
<1> DEFINE tp == task[t].path
           y == Awaited(task[t]).text
<1>0. Types /\ QueueAgrees
  BY DEF Base
<1>1. /\ task[t] # Done /\ tp \in Paths /\ Awaited(task[t]) \in File
      /\ answer = "ok" => Landed(tp, y)
      /\ answer # "ok" => Failed(tp)
  BY <1>0, SaveAnswered
<1>2. y \in Text /\ y # NoFile /\ IsPrefix(y, y)
  BY <1>1, ConstantsAssumption, PrefixOfTexts DEF File, Text
<1> HIDE DEF tp, y
<1>3. SettledNext(tp, y)
  <2>1. CASE answer = "ok"
    <3>1. store'[tp] = y
      BY <1>1, <2>1 DEF Landed
    <3> QED BY <1>2, <3>1 DEF SettledNext
  <2>2. CASE answer # "ok"
    BY <1>1, <2>2 DEF Failed, SettledNext
  <2> QED BY <2>1, <2>2
<1>4. ASSUME NEW p \in Paths PROVE LandsOrKeeps(p)
  <2>1. CASE answer = "ok" /\ p = tp
    <3>1. store'[p] = y
      BY <1>1, <2>1 DEF Landed
    <3>2. Lands(t, p)
      BY <1>1, <2>1, <3>1 DEF Lands, tp, y
    <3> QED BY <3>2 DEF LandsOrKeeps
  <2>2. CASE answer = "ok" /\ p # tp
    <3>1. store'[p] = store[p] /\ foreign' = foreign \ {tp} /\ atRisk' = atRisk \ {tp}
      BY <1>1, <2>2 DEF Landed
    <3> QED BY <2>2, <3>1 DEF LandsOrKeeps
  <2>3. CASE answer # "ok"
    BY <1>1, <2>3 DEF Failed, LandsOrKeeps
  <2> QED BY <2>1, <2>2, <2>3
<1>5. ASSUME NEW e \in ToSet(queue), e.owner \in Tasks
      PROVE  e \in ToSet(queue') \/ SettledNext(e.requests[1][1], e.requests[1][2])
  <2>1. CASE e.owner = t
    <3>1. e.requests[1][1] = tp /\ e.requests[1][2] = y
      BY <1>0, <1>5, <2>1, SavingIs DEF tp, y
    <3> QED BY <1>3, <3>1
  <2>2. CASE e.owner # t
    <3>1. 1 \in DOMAIN queue /\ queue[1].owner = t
      BY DEF Served
    <3>2. queue' = IF requests = << >> THEN RemoveAt(queue, 1)
                   ELSE Append(RemoveAt(queue, 1), Transaction(queue[1].owner, requests))
      BY DEF Answer
    <3>3. ToSet(queue') = {d \in ToSet(queue) : d.owner # t}
                          \cup IF requests = << >> THEN {} ELSE {Transaction(t, requests)}
      BY <1>0, <3>1, <3>2, Replaced
    <3> QED BY <2>2, <3>3
  <2> QED BY <2>1, <2>2
<1>6. ASSUME NEW u \in Tasks, task'[u].kind = "flush"
      PROVE  task'[u] = task[u] \/ Continued(u) \/ Begun(u)
  <2>1. task'[t] = x /\ \A v \in Tasks \ {t} : task'[v] = task[v]
    BY <1>0 DEF Types
  <2>2. x.kind = "flush" => Continued(t)
    BY <1>3 DEF tp, y
  <2> QED BY <1>6, <2>1, <2>2
<1> QED BY <1>4, <1>5, <1>6 DEF Settling

LEMMA InsertSavedSettles ==
  ASSUME Base, AtIs, AtIs', NEW t \in Tasks, InsertSaved(t)
  PROVE  Settling
<1> DEFINE p == task[t].path
           f == task[t].file
<1>0. Types
  BY DEF Base
<1>1. PICK answer \in Answers(1) :
        /\ Answer(1, answer, << >>) /\ Recorded(p, answer)
        /\ IF answer = "error" THEN UNCHANGED <<FILE_STATE, closed>>
           ELSE /\ FILE_STATE' = Insert(p, f)
                /\ closed' = closed \cup BuffersAt(p)
  BY DEF InsertSaved
<1>2. Served(1, t) /\ task[t].kind = "insert" /\ task' = [task EXCEPT ![t] = Done]
  BY DEF InsertSaved
<1>3. p \in Paths /\ f \in File
  <2>1. task[t] \in InsertCall
    BY <1>0, <1>2, CallKinds DEF Types
  <2> QED BY <2>1 DEF InsertCall
<1>4. closed \subseteq closed' /\ (answer = "ok" => BuffersAt(p) \subseteq closed')
  <2>1. answer = "ok" => answer # "error"
    OBVIOUS
  <2> QED BY <1>1, <2>1
<1>5. ASSUME NEW q \in Paths PROVE ClosesOrKeeps(q)
  <2>1. /\ BuffersAt(q) = MapAt(FILE_STATE, q) \cup CallAt(task[t], q) \cup OthersAt(t, q)
        /\ BuffersAt(q)' = MapAt(FILE_STATE', q) \cup CallAt(Done, q) \cup OthersAt(t, q)
    BY <1>0, <1>2, AtMoved
  <2>2. CallAt(task[t], q) = {} /\ CallAt(Done, q) = {}
    BY <1>2 DEF CallAt, Done
  <2> HIDE DEF p, f
  <2>3. CASE answer = "error"
    BY <1>1, <2>1, <2>2, <2>3 DEF ClosesOrKeeps
  <2>4. CASE answer # "error"
    <3>1. FILE_STATE' = Insert(p, f) /\ closed' = closed \cup BuffersAt(p)
      BY <1>1, <2>4
    <3>2. /\ DOMAIN Insert(p, f) = open \cup {p}
          /\ \A r \in open \cup {p} : Insert(p, f)[r] = IF r = p THEN f ELSE FILE_STATE[r]
      BY <1>0, <1>3, MapInsert
    <3>3. CASE q = p
      <4>1. MapAt(FILE_STATE', q) = {Id(f.text)}
        BY <3>1, <3>2, <3>3 DEF MapAt
      <4>2. BuffersAt(q)' \subseteq BuffersAt(q) \cup {Id(f.text)}
        BY <2>1, <2>2, <4>1
      <4> QED BY <3>1, <3>3, <4>2 DEF ClosesOrKeeps
    <3>4. CASE q # p
      <4>1. MapAt(FILE_STATE', q) = MapAt(FILE_STATE, q)
        BY <3>1, <3>2, <3>4 DEF MapAt, open
      <4> QED BY <2>1, <2>2, <4>1 DEF ClosesOrKeeps
    <3> QED BY <3>3, <3>4
  <2> QED BY <2>3, <2>4
<1>6. << >> \in Seq(Request) /\ Done.kind # "flush"
  BY DEF Done
<1> QED BY <1>1, <1>2, <1>4, <1>5, <1>6, AnswerSettles

LEMMA EditSavedSettles ==
  ASSUME Base, AtIs, AtIs', NEW t \in Tasks, EditSaved(t)
  PROVE  Settling
<1> DEFINE p == task[t].path
           f == task[t].file
<1>0. Types
  BY DEF Base
<1>1. PICK answer \in Answers(1) :
       LET d == IF answer = "error"
                THEN [file |-> task[t].file, rest |-> << >>, saving |-> FALSE]
                ELSE ApplyUntilSave(saved(task[t].file), task[t].rest)
       IN /\ Answer(1, answer, IF d.saving THEN Put(p, d.file) ELSE << >>)
          /\ Recorded(p, answer)
          /\ IF d.saving
             THEN /\ task' = [task EXCEPT ![t].file = d.file, ![t].rest = d.rest]
                  /\ UNCHANGED FILE_STATE
             ELSE /\ task' = [task EXCEPT ![t] = Done]
                  /\ FILE_STATE' = Insert(p, d.file)
  BY DEF EditSaved
<1>2. Served(1, t) /\ task[t].kind = "edit" /\ closed' = closed
  BY DEF EditSaved
<1>3. p \in Paths /\ f \in File /\ task[t].rest \in Seq(Nat \X {"char", "run"})
  <2>1. task[t] \in EditCall
    BY <1>0, <1>2, CallKinds DEF Types
  <2> QED BY <2>1 DEF EditCall
<1>4. SUFFICES ASSUME NEW d, d = IF answer = "error"
                                 THEN [file |-> f, rest |-> << >>, saving |-> FALSE]
                                 ELSE ApplyUntilSave(saved(f), task[t].rest)
               PROVE  Settling
  OBVIOUS
<1>5. /\ Answer(1, answer, IF d.saving THEN Put(p, d.file) ELSE << >>)
      /\ Recorded(p, answer)
      /\ IF d.saving
         THEN /\ task' = [task EXCEPT ![t].file = d.file, ![t].rest = d.rest]
              /\ UNCHANGED FILE_STATE
         ELSE /\ task' = [task EXCEPT ![t] = Done]
              /\ FILE_STATE' = Insert(p, d.file)
  BY <1>1, <1>4
<1>6. d.file \in File /\ Id(d.file.text) = Id(f.text)
  <2> HIDE DEF f
  <2>1. CASE answer = "error"
    BY <1>3, <1>4, <2>1
  <2>2. CASE answer # "error"
    <3> DEFINE g == saved(f)
    <3>1. g \in File /\ g.text = f.text
      BY <1>3, SavedFile
    <3>2. d = ApplyUntilSave(g, task[t].rest)
      BY <1>4, <2>2
    <3> HIDE DEF g
    <3>3. d.file \in File /\ IsPrefix(g.text, d.file.text)
      BY <1>3, <3>1, <3>2, ApplyEffect
    <3> QED BY <3>1, <3>3, PrefixOfTexts DEF File
  <2> QED BY <2>1, <2>2
<1>7. \A q : CallAt(task[t], q) = IF q = p THEN {Id(f.text)} ELSE {}
  BY <1>2 DEF CallAt
<1>8. CASE d.saving
  <2> DEFINE x == [kind |-> "edit", path |-> p, file |-> d.file, rest |-> d.rest]
  <2>1. task' = [task EXCEPT ![t] = x]
    <3>0. Types /\ task[t].kind = "edit"
      BY <1>0, <1>2
    <3>1. [task EXCEPT ![t].file = d.file, ![t].rest = d.rest] = [task EXCEPT ![t] = x]
      <4>1. \A file, rest :
              [task EXCEPT ![t].file = file, ![t].rest = rest] =
              [task EXCEPT ![t] = [kind |-> "edit", path |-> task[t].path, file |-> file, rest |-> rest]]
        BY <3>0, EditGoesOn, Zenon
      <4> QED BY <4>1, Zenon
    <3>2. task' = [task EXCEPT ![t].file = d.file, ![t].rest = d.rest]
      BY <1>5, <1>8
    <3> HIDE DEF x
    <3> QED BY <3>1, <3>2
  <2>2. x.kind = "edit" /\ x.path = p /\ x.file = d.file
    OBVIOUS
  <2> HIDE DEF x, p, f
  <2>3. FILE_STATE' = FILE_STATE /\ Answer(1, answer, Put(p, d.file)) /\ Recorded(p, answer)
    BY <1>5, <1>8
  <2>4. ASSUME NEW q \in Paths PROVE ClosesOrKeeps(q)
    <3>1. /\ BuffersAt(q) = MapAt(FILE_STATE, q) \cup CallAt(task[t], q) \cup OthersAt(t, q)
          /\ BuffersAt(q)' = MapAt(FILE_STATE', q) \cup CallAt(x, q) \cup OthersAt(t, q)
      BY <1>0, <2>1, AtMoved
    <3>2. CallAt(x, q) = CallAt(task[t], q)
      BY <1>6, <1>7, <2>2 DEF CallAt
    <3> QED BY <2>3, <3>1, <3>2 DEF ClosesOrKeeps
  <2>5. Put(p, d.file) \in Seq(Request)
    BY <1>3, <1>6 DEF Put, Request, File
  <2>6. x.kind # "flush" /\ task[t].kind # "insert"
    BY <1>2, <2>2
  <2> QED BY <1>2, <2>1, <2>3, <2>4, <2>5, <2>6, AnswerSettles DEF p
<1>9. CASE ~d.saving
  <2> HIDE DEF p, f
  <2>1. /\ task' = [task EXCEPT ![t] = Done] /\ FILE_STATE' = Insert(p, d.file)
        /\ Answer(1, answer, << >>) /\ Recorded(p, answer)
    BY <1>5, <1>9
  <2>2. ASSUME NEW q \in Paths PROVE ClosesOrKeeps(q)
    <3>1. /\ BuffersAt(q) = MapAt(FILE_STATE, q) \cup CallAt(task[t], q) \cup OthersAt(t, q)
          /\ BuffersAt(q)' = MapAt(FILE_STATE', q) \cup CallAt(Done, q) \cup OthersAt(t, q)
      <4>1. task' = [task EXCEPT ![t] = Done]
        BY <2>1
      <4> QED BY <1>0, <4>1, AtMoved, ZenonT(60)
    <3>2. CallAt(Done, q) = {}
      BY DEF CallAt, Done
    <3>3. /\ DOMAIN Insert(p, d.file) = open \cup {p}
          /\ \A r \in open \cup {p} : Insert(p, d.file)[r] = IF r = p THEN d.file ELSE FILE_STATE[r]
      BY <1>0, <1>3, <1>6, MapInsert
    <3>4. CASE q = p
      <4>1. MapAt(FILE_STATE', q) = CallAt(task[t], q) /\ q \in open'
        BY <1>6, <1>7, <2>1, <3>3, <3>4 DEF MapAt, open
      <4> QED BY <3>1, <3>2, <4>1 DEF ClosesOrKeeps
    <3>5. CASE q # p
      <4>1. MapAt(FILE_STATE', q) = MapAt(FILE_STATE, q) /\ CallAt(task[t], q) = {}
        BY <1>7, <2>1, <3>3, <3>5 DEF MapAt, open
      <4> QED BY <3>1, <3>2, <4>1 DEF ClosesOrKeeps
    <3> QED BY <3>4, <3>5
  <2>3. << >> \in Seq(Request) /\ Done.kind # "flush" /\ task[t].kind # "insert"
    BY <1>2 DEF Done
  <2> QED BY <1>2, <2>1, <2>2, <2>3, AnswerSettles DEF p
<1> QED BY <1>8, <1>9

LEMMA FlushSavedSettles ==
  ASSUME Base, AtIs, AtIs', NEW t \in Tasks, FlushSaved(t)
  PROVE  Settling
<1> DEFINE p == task[t].path
           m == task[t].files
<1>0. Types
  BY DEF Base
<1>1. PICK answer \in Answers(1) :
       LET files == AfterSave(m, p, answer)
       IN /\ Recorded(p, answer)
          /\ \/ /\ task[t].left = {}
                /\ Answer(1, answer, << >>)
                /\ FILE_STATE' = Extend(files)
                /\ task' = [task EXCEPT ![t] = Done]
             \/ \E q \in task[t].left :
                  /\ Answer(1, answer, Put(q, files[q]))
                  /\ task' = [task EXCEPT ![t].path = q, ![t].files = files,
                                          ![t].left = @ \ {q}]
                  /\ UNCHANGED FILE_STATE
  BY DEF FlushSaved, AfterSave
<1>2. Served(1, t) /\ task[t].kind = "flush" /\ closed' = closed
  BY DEF FlushSaved
<1>3. /\ m \in FileMap /\ p \in DOMAIN m /\ task[t].left \subseteq DOMAIN m \ {p} /\ task[t] \in FlushCall
  BY <1>0, <1>2, FlushTyped
<1>4. DOMAIN m \subseteq Paths /\ Awaited(task[t]) = m[p]
  BY <1>2, <1>3, MapTyped DEF Awaited
<1>5. SUFFICES ASSUME NEW files, files = AfterSave(m, p, answer)
               PROVE  Settling
  OBVIOUS
<1>6. /\ files \in FileMap /\ DOMAIN files = DOMAIN m
      /\ \A q \in DOMAIN m : /\ files[q] \in File /\ files[q].text = m[q].text
                             /\ q # p => files[q] = m[q]
  <2> HIDE DEF m, p
  <2> QED BY <1>3, <1>5, FlushedFiles
<1>7. \A q : MapAt(files, q) = CallAt(task[t], q)
  <2>1. \A q : CallAt(task[t], q) = MapAt(m, q)
    BY <1>2 DEF CallAt
  <2> HIDE DEF m
  <2> QED BY <1>6, <2>1 DEF MapAt
<1>8. CASE /\ task[t].left = {}
           /\ Answer(1, answer, << >>)
           /\ FILE_STATE' = Extend(files)
           /\ task' = [task EXCEPT ![t] = Done]
  <2>1. ASSUME NEW q \in Paths PROVE ClosesOrKeeps(q)
    <3>1. /\ BuffersAt(q) = MapAt(FILE_STATE, q) \cup CallAt(task[t], q) \cup OthersAt(t, q)
          /\ BuffersAt(q)' = MapAt(FILE_STATE', q) \cup CallAt(Done, q) \cup OthersAt(t, q)
      <4>1. task' = [task EXCEPT ![t] = Done]
        BY <1>8
      <4> QED BY <1>0, <4>1, AtMoved, ZenonT(60)
    <3>2. CallAt(Done, q) = {}
      BY DEF CallAt, Done
    <3>3. /\ DOMAIN Extend(files) = open \cup DOMAIN files
          /\ \A r \in open \cup DOMAIN files :
               Extend(files)[r] = IF r \in DOMAIN files THEN files[r] ELSE FILE_STATE[r]
      BY <1>0, <1>6, MapExtend
    <3> HIDE DEF m, p
    <3>4. CASE q \in DOMAIN files
      <4>1. MapAt(FILE_STATE', q) = CallAt(task[t], q) /\ q \in open'
        BY <1>7, <1>8, <3>3, <3>4 DEF MapAt, open
      <4> QED BY <3>1, <3>2, <4>1 DEF ClosesOrKeeps
    <3>5. CASE q \notin DOMAIN files
      <4>1. MapAt(FILE_STATE', q) = MapAt(FILE_STATE, q)
        BY <1>8, <3>3, <3>5 DEF MapAt, open
      <4>2. CallAt(task[t], q) = {}
        BY <1>7, <3>5 DEF MapAt
      <4> QED BY <3>1, <3>2, <4>1, <4>2 DEF ClosesOrKeeps
    <3> QED BY <3>4, <3>5
  <2>2. << >> \in Seq(Request) /\ Done.kind # "flush" /\ task[t].kind # "insert"
    BY <1>2 DEF Done
  <2>3. Recorded(task[t].path, answer)
    BY <1>1
  <2> QED BY <1>2, <1>8, <2>1, <2>2, <2>3, AnswerSettles
<1>9. ASSUME NEW q \in task[t].left,
             Answer(1, answer, Put(q, files[q])),
             task' = [task EXCEPT ![t].path = q, ![t].files = files, ![t].left = @ \ {q}],
             FILE_STATE' = FILE_STATE
      PROVE  Settling
  <2> DEFINE x == FlushGoing(task[t], files, q)
  <2>1. task' = [task EXCEPT ![t] = x]
    <3>1. [task EXCEPT ![t].path = q, ![t].files = files, ![t].left = @ \ {q}] = [task EXCEPT ![t] = x]
      BY <1>0, <1>2, FlushGoesOn
    <3> HIDE DEF x
    <3> QED BY <1>9, <3>1, Zenon
  <2>2. /\ x.kind = "flush" /\ x.path = q /\ x.files = files /\ x.left = task[t].left \ {q}
        /\ x.asked = task[t].asked /\ x.seen = task[t].seen
    BY DEF FlushGoing
  <2> HIDE DEF x
  <2>3. ASSUME NEW r \in Paths PROVE ClosesOrKeeps(r)
    <3>1. /\ BuffersAt(r) = MapAt(FILE_STATE, r) \cup CallAt(task[t], r) \cup OthersAt(t, r)
          /\ BuffersAt(r)' = MapAt(FILE_STATE', r) \cup CallAt(x, r) \cup OthersAt(t, r)
      BY <1>0, <2>1, AtMoved
    <3>2. CallAt(x, r) = CallAt(task[t], r)
      BY <1>7, <2>2 DEF CallAt
    <3> QED BY <1>9, <3>1, <3>2 DEF ClosesOrKeeps
  <2>4. Put(q, files[q]) \in Seq(Request)
    <3>1. q \in Paths /\ files[q] \in File
      BY <1>3, <1>4, <1>6
    <3> QED BY <3>1 DEF Put, Request, File
  <2>5. SettledNext(task[t].path, Awaited(task[t]).text) => Continued(t)
    <3>1. task'[t] = x
      BY <1>0, <2>1 DEF Types
    <3>2. q \in task[t].left /\ DOMAIN x.files = DOMAIN m
          /\ \A r \in DOMAIN m : x.files[r].text = m[r].text /\ (r # p => x.files[r] = m[r])
      BY <1>6, <2>2
    <3> QED BY <1>2, <1>4, <2>2, <3>1, <3>2 DEF Continued
  <2>6. Recorded(task[t].path, answer) /\ task[t].kind # "insert"
    BY <1>1, <1>2
  <2> QED BY <1>2, <1>9, <2>1, <2>3, <2>4, <2>5, <2>6, AnswerSettles
<1> QED BY <1>1, <1>5, <1>8, <1>9

LEMMA InitInvariant ==
  ASSUME Init, AtIs
  PROVE  IInv
<1>1. task = [t \in Tasks |-> Done] /\ FILE_STATE = << >>
  BY DEF Init
<1>2. \A t \in Tasks : task[t].kind # "flush" /\ \A p : CallAt(task[t], p) = {}
  BY <1>1 DEF Done, CallAt
<1>3. \A p : BuffersAt(p) = {}
  BY <1>1, <1>2, MapEmpty DEF AtIs, MapAt
<1>4. OneOpen
  BY <1>3 DEF OneOpen
<1> QED BY InitBase, <1>2, <1>4 DEF IInv, SeenLive, AskedAgrees, DoneAgrees

LEMMA ReloadInvariant ==
  ASSUME Base', AtIs', Reload
  PROVE  IInv'
<1>1. task' = [t \in Tasks |-> Done] /\ FILE_STATE' = << >>
  BY DEF Reload
<1>2. \A t \in Tasks : task'[t].kind # "flush" /\ \A p : CallAt(task'[t], p) = {}
  BY <1>1 DEF Done, CallAt
<1>3. \A p : BuffersAt(p)' = {}
  <2>1. \A p : MapAt(FILE_STATE', p) = {}
    BY <1>1, MapEmpty DEF MapAt
  <2> SUFFICES ASSUME NEW p PROVE BuffersAt(p)' = {}
    OBVIOUS
  <2>2. BuffersAt(p)' = MapAt(FILE_STATE', p) \cup UNION {CallAt(task'[u], p) : u \in Tasks}
    BY DEF AtIs, MapAt, CallAt
  <2> QED BY <1>2, <2>1, <2>2
<1>4. OneOpen'
  BY <1>3 DEF OneOpen
<1> QED BY <1>2, <1>4 DEF IInv, SeenLive, AskedAgrees, DoneAgrees

LEMMA ResumedSettles ==
  ASSUME Base, AtIs, AtIs', NEW t \in Tasks, Resumed(t)
  PROVE  Settling
BY InsertSavedSettles, EditSavedSettles, FlushSavedSettles DEF Resumed

LEMMA NextSettles ==
  ASSUME Base, AtIs, AtIs', [Next]_vars, ~Reload
  PROVE  Settling
<1>0. Types
  BY DEF Base
<1>1. ASSUME NEW t \in Tasks, NEW p \in Paths,
             insert_file(t, p) \/ write_transaction_to_file(t, p) \/ apply_update_to_file(t, p)
      PROVE  Settling
  BY <1>0, <1>1, InsertSettles, TransactionSettles, UpdateSettles
<1>2. ASSUME NEW p \in Paths, remove_file(p) PROVE Settling
  BY <1>0, <1>2, RemoveSettles
<1>3. CASE wipe_state
  BY <1>0, <1>3, WipeSettles
<1>4. ASSUME NEW t \in Tasks, flush_all(t) PROVE Settling
  BY <1>0, <1>4, FlushAllSettles
<1>5. ASSUME NEW t \in Tasks, Resumed(t) PROVE Settling
  BY <1>5, ResumedSettles
<1>6. CASE StoreOperation
  BY <1>6, StoreSettles
<1>7. CASE UNCHANGED vars
  <2>1. UNCHANGED <<store, queue, task, foreign, atRisk, FILE_STATE, closed>>
    BY <1>7 DEF vars, storeVars, session, history
  <2>2. \A p \in Paths : MapAt(FILE_STATE', p) = MapAt(FILE_STATE, p)
    BY <2>1
  <2> QED BY <1>0, <2>1, <2>2, ShrinkSettles
<1> QED BY <1>1, <1>2, <1>3, <1>4, <1>5, <1>6, <1>7 DEF Next, SessionCall

LEMMA AtIsAlways == AtIs
BY BuffersAtIs DEF AtIs

LEMMA FlushInvariant == Spec => []IInv
<1>1. Init /\ AtIs => IInv
  BY InitInvariant
<1>2. IInv /\ AtIs /\ AtIs' /\ [Next]_vars => IInv'
  <2> SUFFICES ASSUME IInv, AtIs, AtIs', [Next]_vars PROVE IInv'
    OBVIOUS
  <2>1. Base
    BY DEF IInv
  <2>2. Base'
    BY <2>1, NextKeeps
  <2>3. CASE Reload
    BY <2>2, <2>3, ReloadInvariant
  <2>4. CASE ~Reload
    BY <2>1, <2>2, <2>4, NextSettles, Settles
  <2> QED BY <2>3, <2>4
<1> QED BY <1>1, <1>2, AtIsAlways, PTL DEF Spec

\* A text that is being saved will be read from the store.
LEMMA SavingReaches ==
  ASSUME Types', QueueAgrees', NEW p, NEW text, Saving(p, text)'
  PROVE  Reaches(p, text)'
<1>1. PICK e \in ToSet(queue') : e.owner \in Tasks /\ e.requests[1][1] = p
                                 /\ IsPrefix(text, e.requests[1][2])
  BY DEF Saving
<1> DEFINE x == task'[e.owner]
<1>2. x # Done /\ e.requests = Put(x.path, Awaited(x))
  BY <1>1 DEF QueueAgrees, Awaited, Put
<1>3. Awaited(x) \in File
  <2>1. x \in Call /\ FlushOK(x)
    BY <1>1 DEF Types
  <2> QED BY <1>2, <2>1, AwaitedTyped
<1>4. Awaited(x).text # NoFile
  BY <1>3, ConstantsAssumption DEF File, Text
<1> HIDE DEF x
<1>5. e.requests[1] \in ToSet(e.requests) /\ e.requests[1][2] # NoFile
  BY <1>2, <1>4 DEF Put, ToSet
<1>6. PICK i \in DOMAIN queue' : e = queue'[i]
  BY DEF ToSet
<1>7. DOMAIN queue' = 1..Len(queue')
  BY DEF Types
<1> QED BY <1>1, <1>5, <1>6, <1>7 DEF Reaches

\* A flush that ends has nothing left to save.
LEMMA FlushEnds ==
  ASSUME Types, NEW t \in Tasks, task[t].kind = "flush", Resumed(t), task'[t] = Done
  PROVE  task[t].left = {}
<1>1. FlushSaved(t)
  BY DEF Resumed, InsertSaved, EditSaved
<1>2. SUFFICES ASSUME NEW q, NEW files,
                      task' = [task EXCEPT ![t].path = q, ![t].files = files, ![t].left = @ \ {q}]
               PROVE  FALSE
  BY <1>1 DEF FlushSaved
<1>3. [task EXCEPT ![t].path = q, ![t].files = files, ![t].left = @ \ {q}]
        = [task EXCEPT ![t] = FlushGoing(task[t], files, q)]
  BY FlushGoesOn
<1>4. task' = [task EXCEPT ![t] = FlushGoing(task[t], files, q)]
  BY <1>2, <1>3, Zenon
<1>5. task'[t] = FlushGoing(task[t], files, q)
  BY <1>4 DEF Types
<1> QED BY <1>5 DEF FlushGoing, Done

\* When flush_all returns, each edit that it found is in the store or on its way
\* there, except where a save failed, an operation of the store wrote, or a
\* buffer of that path was closed meanwhile.
THEOREM FlushReaches == Spec => FlushReachesAll
<1>1. IInv /\ IInv' /\ AtIs /\ AtIs' /\ [Next]_vars =>
        [\A t \in Tasks : task[t].kind = "flush" /\ Resumed(t) /\ task'[t] = Done =>
           \A b \in task[t].asked :
             \/ Reaches(b[1], b[2].text)'
             \/ b[1] \in (foreign \cup atRisk)'
             \/ \E c \in task[t].seen : c[1] = b[1] /\ Id(c[2].text) \in closed']_vars
  <2> SUFFICES ASSUME IInv, IInv', AtIs, AtIs', NEW t \in Tasks, task[t].kind = "flush",
                      Resumed(t), task'[t] = Done, NEW b \in task[t].asked
               PROVE  \/ Reaches(b[1], b[2].text)'
                      \/ b[1] \in (foreign \cup atRisk)'
                      \/ \E c \in task[t].seen : c[1] = b[1] /\ Id(c[2].text) \in closed'
    OBVIOUS
  <2>1. Base /\ SeenLive /\ AskedAgrees /\ Types /\ Types' /\ QueueAgrees'
    BY DEF IInv, Base
  <2>2. Settling
    BY <2>1, ResumedSettles
  <2>3. task[t].left = {}
    BY <2>1, FlushEnds
  <2>4. Dead(task[t], b[1]) \/ Settled(b[1], b[2].text) \/ Saving(b[1], b[2].text)
    BY <2>1, <2>3 DEF AskedAgrees
  <2>5. \/ \E c \in task[t].seen : c[1] = b[1] /\ Id(c[2].text) \in closed'
        \/ SettledNext(b[1], b[2].text)
        \/ Saving(b[1], b[2].text)'
    BY <2>1, <2>2, <2>4, AskedGoesOn
  <2>6. SettledNext(b[1], b[2].text) => Reaches(b[1], b[2].text)' \/ b[1] \in (foreign \cup atRisk)'
    BY DEF SettledNext, Reaches
  <2>7. Saving(b[1], b[2].text)' => Reaches(b[1], b[2].text)'
    BY <2>1, SavingReaches
  <2> QED BY <2>5, <2>6, <2>7
<1> QED BY <1>1, FlushInvariant, AtIsAlways, PTL DEF Spec, FlushReachesAll

-----------------------------------------------------------------------------
(* What an operation of the store writes.                                  *)

Contents == Text \cup {NoFile}

\* The requests of a call that awaits its write do what it is meant to do, to
\* every tree that is, where the call is concerned, as it read it.
WriteCarries(x, requests) ==
  x.awaits = "write" =>
    /\ requests # << >>
    /\ x.op # "write_file" /\ Spread(x) => Carries(x, Contents, requests, x.before)

WritesCarry ==
  \A e \in ToSet(queue) : e.owner \in Callers => WriteCarries(call[e.owner], e.requests)

LEMMA OpenedEntries ==
  ASSUME Types, NEW owner, NEW requests, Open(owner, requests)
  PROVE  /\ \A e \in ToSet(queue') : e \in ToSet(queue) \/ e = Transaction(owner, requests)
         /\ Len(queue') = Len(queue) + 1
<1> DEFINE new == Transaction(owner, requests)
           S == Entry \cup {new}
<1>1. queue \in Seq(Entry) /\ queue' = Append(queue, new)
  BY DEF Types, Entry, Open
<1>2. queue \in Seq(S) /\ new \in S
  BY <1>1
<1> HIDE DEF S, new
<1>3. /\ Len(queue') = Len(queue) + 1 /\ Len(queue) \in Nat /\ DOMAIN queue' = 1..(Len(queue) + 1)
      /\ DOMAIN queue = 1..Len(queue)
      /\ \A i \in 1..(Len(queue) + 1) : queue'[i] = IF i <= Len(queue) THEN queue[i] ELSE new
  BY <1>1, <1>2
<1>4. ASSUME NEW i \in DOMAIN queue' PROVE queue'[i] \in ToSet(queue) \/ queue'[i] = new
  <2>1. CASE i <= Len(queue)
    <3>1. i \in DOMAIN queue /\ queue'[i] = queue[i]
      BY <1>3, <2>1
    <3> QED BY <3>1 DEF ToSet
  <2>2. CASE ~(i <= Len(queue))
    BY <1>3, <2>2
  <2> QED BY <2>1, <2>2
<1> QED BY <1>3, <1>4 DEF ToSet, new

LEMMA AnsweredEntries ==
  ASSUME Types, QueueAgrees, NEW i, NEW owner, Served(i, owner),
         NEW answer, NEW requests, Answer(i, answer, requests)
  PROVE  \A e \in ToSet(queue') : \/ e \in ToSet(queue) /\ e.owner # owner
                                  \/ requests # << >> /\ e = Transaction(owner, requests)
<1> DEFINE new == Transaction(owner, requests)
           S == Entry \cup {new}
           q == RemoveAt(queue, i)
<1>1. /\ queue \in Seq(Entry) /\ OneEach(queue) /\ i \in DOMAIN queue /\ queue[i].owner = owner
      /\ queue' = IF requests = << >> THEN q ELSE Append(q, new)
  BY DEF Types, Entry, QueueAgrees, Served, Answer
<1>2. /\ q \in Seq(Entry) /\ ToSet(q) = {e \in ToSet(queue) : e.owner # owner}
  BY <1>1, QueueLess
<1> HIDE DEF q, new
<1>3. q \in Seq(S) /\ new \in S
  BY <1>2
<1> HIDE DEF S
<1>4. CASE requests = << >>
  BY <1>1, <1>2, <1>4
<1>5. CASE requests # << >>
  <2>1. queue' = Append(q, new)
    BY <1>1, <1>5
  <2>2. /\ Len(q) \in Nat /\ DOMAIN queue' = 1..(Len(q) + 1) /\ DOMAIN q = 1..Len(q)
        /\ \A k \in 1..(Len(q) + 1) : queue'[k] = IF k <= Len(q) THEN q[k] ELSE new
    BY <1>3, <2>1
  <2>3. ASSUME NEW k \in DOMAIN queue' PROVE queue'[k] \in ToSet(q) \/ queue'[k] = new
    <3>1. CASE k <= Len(q)
      <4>1. k \in DOMAIN q /\ queue'[k] = q[k]
        BY <2>2, <3>1
      <4> QED BY <4>1 DEF ToSet
    <3>2. CASE ~(k <= Len(q))
      BY <2>2, <3>2
    <3> QED BY <3>1, <3>2
  <2>4. \A e \in ToSet(queue') : e \in ToSet(q) \/ e = new
    BY <2>3 DEF ToSet
  <2> QED BY <1>2, <1>5, <2>4 DEF new
<1> QED BY <1>4, <1>5

\* One owner's transaction is replaced, or none of the store's calls is touched.
LEMMA WritesKept ==
  ASSUME WritesCarry, NEW owner, NEW requests,
         \A e \in ToSet(queue') : \/ e \in ToSet(queue) /\ (e.owner \in Callers => e.owner # owner)
                                  \/ e = Transaction(owner, requests),
         \A b \in Callers : b # owner => call'[b] = call[b],
         owner \in Callers /\ Transaction(owner, requests) \in ToSet(queue')
            => WriteCarries(call'[owner], requests)
  PROVE  WritesCarry'
<1> SUFFICES ASSUME NEW e \in ToSet(queue'), e.owner \in Callers
             PROVE  WriteCarries(call'[e.owner], e.requests)
  BY DEF WritesCarry, WriteCarries, Carries, Committed, Meant, Without, FileMoved, FileCopied,
         FolderMoved, FolderCopied
<1>1. CASE e \in ToSet(queue) /\ e.owner # owner
  BY <1>1 DEF WritesCarry
<1>2. CASE e = Transaction(owner, requests)
  BY <1>2 DEF Transaction
<1> QED BY <1>1, <1>2

\* The session's calls leave those of the store alone.
LEMMA SessionWrites ==
  ASSUME Base, WritesCarry, SessionCall \/ \E t \in Tasks : Resumed(t)
  PROVE  WritesCarry'
<1>1. Types /\ QueueAgrees
  BY DEF Base
<1>2. call' = call
  BY DEF SessionCall, wipe_state, remove_file, insert_file, write_transaction_to_file,
         apply_update_to_file, flush_all, Resumed, InsertSaved, EditSaved, FlushSaved, storeVars
<1>3. \/ queue' = queue
      \/ \E t \in Tasks : \E requests : Open(t, requests)
      \/ \E t \in Tasks : Served(1, t) /\ \E answer : \E requests : Answer(1, answer, requests)
  <2>1. CASE wipe_state \/ \E p \in Paths : remove_file(p)
    BY <2>1 DEF wipe_state, remove_file, storeVars
  <2>2. ASSUME NEW t \in Tasks, NEW p \in Paths, insert_file(t, p)
        PROVE  \E requests : Open(t, requests)
    BY <2>2 DEF insert_file
  <2>3. ASSUME NEW t \in Tasks, NEW p \in Paths, write_transaction_to_file(t, p)
        PROVE  queue' = queue \/ \E requests : Open(t, requests)
    BY <2>3 DEF write_transaction_to_file
  <2>4. ASSUME NEW t \in Tasks, NEW p \in Paths, apply_update_to_file(t, p)
        PROVE  \E requests : Open(t, requests)
    BY <2>4 DEF apply_update_to_file
  <2>5. ASSUME NEW t \in Tasks, flush_all(t)
        PROVE  \E requests : Open(t, requests)
    BY <2>5 DEF flush_all
  <2>6. ASSUME NEW t \in Tasks, Resumed(t)
        PROVE  Served(1, t) /\ \E answer : \E requests : Answer(1, answer, requests)
    <3>1. CASE InsertSaved(t)
      BY <3>1 DEF InsertSaved
    <3>2. CASE EditSaved(t)
      BY <3>2 DEF EditSaved
    <3>3. CASE FlushSaved(t)
      BY <3>3 DEF FlushSaved
    <3> QED BY <2>6, <3>1, <3>2, <3>3 DEF Resumed
  <2> QED BY <2>1, <2>2, <2>3, <2>4, <2>5, <2>6 DEF SessionCall
<1>4. CASE queue' = queue
  BY <1>2, <1>4 DEF WritesCarry, WriteCarries, Carries
<1>5. ASSUME NEW t \in Tasks, NEW requests, Open(t, requests)
      PROVE  WritesCarry'
  <2>1. \A e \in ToSet(queue') : e \in ToSet(queue) \/ e = Transaction(t, requests)
    BY <1>1, <1>5, OpenedEntries
  <2> QED BY <1>2, <2>1, WritesKept, ConstantsAssumption
<1>6. ASSUME NEW t \in Tasks, Served(1, t), NEW answer, NEW requests, Answer(1, answer, requests)
      PROVE  WritesCarry'
  <2>1. \A e \in ToSet(queue') : \/ e \in ToSet(queue) /\ e.owner # t
                                 \/ requests # << >> /\ e = Transaction(t, requests)
    BY <1>1, <1>6, AnsweredEntries
  <2> QED BY <1>2, <2>1, WritesKept, ConstantsAssumption
<1> QED BY <1>3, <1>4, <1>5, <1>6

LEMMA StoreWrites ==
  ASSUME Base, WritesCarry, StoreOperation
  PROVE  WritesCarry'
<1>1. Types /\ QueueAgrees /\ DOMAIN call = Callers /\ store \in [Paths -> Contents]
  BY DEF Base, Types, Contents
<1>2. ASSUME NEW c \in Callers, NEW requests, NEW y, call[c] = Idle, call' = [call EXCEPT ![c] = y],
             Open(c, requests), WriteCarries(y, requests)
      PROVE  WritesCarry'
  <2>1. \A e \in ToSet(queue') : e \in ToSet(queue) \/ e = Transaction(c, requests)
    BY <1>1, <1>2, OpenedEntries
  <2>2. \A e \in ToSet(queue) : e.owner \in Callers => e.owner # c
    BY <1>1, <1>2 DEF QueueAgrees
  <2>3. call'[c] = y /\ \A b \in Callers : b # c => call'[b] = call[b]
    BY <1>1, <1>2
  <2> QED BY <1>2, <2>1, <2>2, <2>3, WritesKept
<1>3. ASSUME NEW c \in Callers, NEW d \in Calls, Begin(c, d)
      PROVE  WritesCarry'
  <2> DEFINE y == [op |-> d.op, from |-> d.from, to |-> d.to, awaits |-> "read", before |-> Nothing]
  <2>1. call[c] = Idle /\ call' = [call EXCEPT ![c] = y] /\ Open(c, << >>)
    BY <1>3 DEF Begin
  <2>2. y.awaits = "read"
    OBVIOUS
  <2> HIDE DEF y
  <2>3. WriteCarries(y, << >>)
    BY <2>2 DEF WriteCarries
  <2> QED BY <1>2, <2>1, <2>3
<1>4. ASSUME NEW c \in Callers, NEW p \in Paths, NEW x, write_file(c, p, x)
      PROVE  WritesCarry'
  <2> DEFINE y == [op |-> "write_file", from |-> p, to |-> << >>, awaits |-> "write", before |-> Nothing]
             requests == << <<p, x>> >>
  <2>1. call[c] = Idle /\ call' = [call EXCEPT ![c] = y] /\ Open(c, requests)
    BY <1>4 DEF write_file
  <2>2. y.op = "write_file" /\ requests # << >>
    OBVIOUS
  <2> HIDE DEF y, requests
  <2>3. WriteCarries(y, requests)
    BY <2>2 DEF WriteCarries
  <2> QED BY <1>2, <2>1, <2>3
<1>5. ASSUME NEW c \in Callers, NEW i, Served(i, c), NEW answer, NEW requests, Answer(i, answer, requests),
             NEW y, call' = [call EXCEPT ![c] = y], requests # << >> => WriteCarries(y, requests)
      PROVE  WritesCarry'
  <2>1. \A e \in ToSet(queue') : \/ e \in ToSet(queue) /\ e.owner # c
                                 \/ requests # << >> /\ e = Transaction(c, requests)
    BY <1>1, <1>5, AnsweredEntries
  <2>2. call'[c] = y /\ \A b \in Callers : b # c => call'[b] = call[b]
    BY <1>1, <1>5
  <2>3. CASE requests # << >>
    BY <1>5, <2>1, <2>2, <2>3, WritesKept
  <2>4. CASE requests = << >>
    <3>1. \A e \in ToSet(queue') : e \in ToSet(queue) /\ e.owner # c
      BY <2>1, <2>4
    <3> SUFFICES ASSUME NEW e \in ToSet(queue'), e.owner \in Callers
                 PROVE  WriteCarries(call'[e.owner], e.requests)
      BY DEF WritesCarry, WriteCarries, Carries
    <3> QED BY <2>2, <3>1 DEF WritesCarry
  <2> QED BY <2>3, <2>4
<1>6. ASSUME NEW c \in Callers, ReadAnswered(c)
      PROVE  WritesCarry'
  <2>1. call[c].awaits = "read"
    BY <1>6 DEF ReadAnswered
  <2>2. PICK i \in DOMAIN queue : Served(i, c) /\ \E answer \in Answers(i) :
               LET requests == IF answer = "ok" THEN Requests(call[c]) ELSE << >>
               IN  /\ Answer(i, answer, requests)
                   /\ call' = [call EXCEPT ![c] = IF requests = << >> THEN Idle
                                ELSE [@ EXCEPT !.awaits = "write", !.before = store]]
    BY <1>6 DEF ReadAnswered
  <2>3. PICK answer \in Answers(i) :
               LET requests == IF answer = "ok" THEN Requests(call[c]) ELSE << >>
               IN  /\ Answer(i, answer, requests)
                   /\ call' = [call EXCEPT ![c] = IF requests = << >> THEN Idle
                                ELSE [@ EXCEPT !.awaits = "write", !.before = store]]
    BY <2>2
  <2> DEFINE requests == IF answer = "ok" THEN Requests(call[c]) ELSE << >>
             z == [call[c] EXCEPT !.awaits = "write", !.before = store]
             y == IF requests = << >> THEN Idle ELSE z
  <2>4. Answer(i, answer, requests) /\ call' = [call EXCEPT ![c] = y]
    BY <2>3
  <2>5. CallOK(call[c]) /\ Idle.awaits = "none"
    BY <1>1 DEF Types, Idle
  <2>6. IsOperation(call[c])
    BY <2>1, <2>5 DEF CallOK, IsOperation
  <2>7. z.op = call[c].op /\ z.from = call[c].from /\ z.to = call[c].to /\ z.before = store
    <3>1. DOMAIN call[c] = {"op", "from", "to", "awaits", "before"}
      BY <2>5 DEF CallOK, Idle
    <3> QED BY <3>1
  <2>8. requests # << >> => requests = Requests(call[c]) /\ y = z
    OBVIOUS
  <2> HIDE DEF requests, z, y
  <2>9. ASSUME requests # << >>, Spread(z) PROVE Carries(z, Contents, requests, z.before)
    <3>1. Spread(call[c]) /\ Requests(call[c]) # << >> /\ NoFile \in Contents
      BY <2>7, <2>8, <2>9 DEF Spread, Contents
    <3>2. Carries(call[c], Contents, Requests(call[c]), store)
      BY <1>1, <2>6, <3>1, RequestsCarry
    <3>3. Concerned(z) = Concerned(call[c]) /\ \A tree : Meant(z, tree) = Meant(call[c], tree)
      BY <2>7 DEF Concerned, Meant
    <3> QED BY <2>7, <2>8, <2>9, <3>2, <3>3 DEF Carries
  <2>10. requests # << >> => WriteCarries(y, requests)
    BY <2>8, <2>9 DEF WriteCarries
  <2> QED BY <1>5, <2>2, <2>4, <2>10
<1>7. ASSUME NEW c \in Callers, WriteAnswered(c)
      PROVE  WritesCarry'
  <2>1. Served(1, c) /\ call' = [call EXCEPT ![c] = Idle] /\ \E answer : Answer(1, answer, << >>)
    BY <1>7 DEF WriteAnswered
  <2> QED BY <1>5, <2>1
<1> QED BY <1>3, <1>4, <1>6, <1>7 DEF StoreOperation, StoreStep

LEMMA WritesInvariant == Spec => []WritesCarry
<1>1. Init => WritesCarry
  BY DEF Init, StoreInit, WritesCarry, ToSet
<1>2. Base /\ WritesCarry /\ [Next]_vars => WritesCarry'
  <2> SUFFICES ASSUME Base, WritesCarry, [Next]_vars PROVE WritesCarry'
    OBVIOUS
  <2>1. CASE SessionCall \/ \E t \in Tasks : Resumed(t)
    BY <2>1, SessionWrites
  <2>2. CASE StoreOperation
    BY <2>2, StoreWrites
  <2>3. CASE Reload
    BY <2>3 DEF Reload, WritesCarry, ToSet
  <2>4. CASE UNCHANGED vars
    BY <2>4 DEF vars, storeVars, WritesCarry, WriteCarries, Carries
  <2> QED BY <2>1, <2>2, <2>3, <2>4 DEF Next
<1> QED BY Invariant, <1>1, <1>2, PTL DEF Spec

\* Only the answer to the write takes the head of the queue away without a fault.
LEMMA WriteCommits ==
  ASSUME Base, WritesCarry, [Next]_vars, NEW c \in Callers,
         Served(1, c), call[c].awaits = "write", queue' = Tail(queue), faults' = faults
  PROVE  store' = Committed(store, queue[1].requests)
<1>1. /\ Types /\ queue \in Seq(Entry) /\ 1 \in DOMAIN queue /\ queue[1].owner = c /\ c \notin Tasks
      /\ faults \in Nat /\ MaxFaults \in Nat
  BY ConstantsAssumption, StoreAssumption DEF Base, Types, Entry, Served
<1>2. Len(queue) \in Nat /\ Len(queue') = Len(queue) - 1
  BY <1>1
<1>3. queue' # queue /\ \A b : \A requests : ~Open(b, requests)
  BY <1>1, <1>2, OpenedEntries
<1>4. queue[1] \in ToSet(queue) /\ queue[1].requests # << >>
  BY <1>1 DEF ToSet, WritesCarry, WriteCarries
<1>5. CASE SessionCall
  BY <1>3, <1>5 DEF SessionCall, wipe_state, remove_file, insert_file, write_transaction_to_file,
                    apply_update_to_file, flush_all, storeVars
<1>6. ASSUME NEW t \in Tasks, Resumed(t) PROVE FALSE
  BY <1>1, <1>6 DEF Resumed, InsertSaved, EditSaved, FlushSaved, Served
<1>7. CASE StoreOperation
  <2>1. ASSUME NEW b \in Callers, (\E d \in Calls : Begin(b, d)) \/ \E p \in Paths : \E x : write_file(b, p, x)
        PROVE  FALSE
    BY <1>3, <2>1 DEF Begin, write_file
  <2>2. ASSUME NEW b \in Callers, ReadAnswered(b) PROVE FALSE
    <3>1. PICK i \in DOMAIN queue : Served(i, b)
      BY <2>2 DEF ReadAnswered
    <3>2. i > 1 => FALSE
      <4>1. i > 1 => 1 \in 1..i
        BY <1>1
      <4> QED BY <1>4, <3>1, <4>1 DEF Served
    <3>3. i = 1
      BY <1>1, <3>2
    <3> QED BY <1>1, <2>2, <3>1, <3>3 DEF Served, ReadAnswered
  <2>3. ASSUME NEW b \in Callers, WriteAnswered(b) PROVE store' = Committed(store, queue[1].requests)
    <3>1. PICK answer : Answer(1, answer, << >>)
      BY <2>3 DEF WriteAnswered
    <3>2. answer = "ok"
      BY <1>1, <3>1 DEF Answer
    <3> QED BY <3>1, <3>2 DEF Answer
  <2> QED BY <1>7, <2>1, <2>2, <2>3 DEF StoreOperation, StoreStep
<1>8. ~Reload
  BY <1>1 DEF Reload
<1>9. ~UNCHANGED vars
  BY <1>3 DEF vars, storeVars
<1> QED BY <1>5, <1>6, <1>7, <1>8, <1>9 DEF Next

\* Whatever was queued between its read and its write, a file or folder
\* operation of the store does in one step what its name says, unless another
\* call changed what it had read.  (delete_file to copy_folder of IndexedDbIo.)
THEOREM Atomic == Spec => AtomicUnlessInterfered
<1>1. Base /\ WritesCarry /\ [Next]_vars =>
        [\A c \in Callers :
           /\ Served(1, c) /\ call[c].awaits = "write" /\ call[c].op # "write_file"
           /\ queue' = Tail(queue) /\ faults' = faults
           /\ Spread(call[c])
           /\ \A p \in Concerned(call[c]) : store[p] = call[c].before[p]
           => store' = Meant(call[c], store)]_storeVars
  <2> SUFFICES ASSUME Base, WritesCarry, [Next]_vars, NEW c \in Callers,
                      Served(1, c), call[c].awaits = "write", call[c].op # "write_file",
                      queue' = Tail(queue), faults' = faults, Spread(call[c]),
                      \A p \in Concerned(call[c]) : store[p] = call[c].before[p]
               PROVE  store' = Meant(call[c], store)
    OBVIOUS
  <2>1. store \in [Paths -> Contents] /\ queue[1] \in ToSet(queue) /\ queue[1].owner = c
    BY DEF Base, Types, Contents, Served, ToSet
  <2>2. Carries(call[c], Contents, queue[1].requests, call[c].before)
    BY <2>1 DEF WritesCarry, WriteCarries
  <2>3. Committed(store, queue[1].requests) = Meant(call[c], store)
    BY <2>1, <2>2 DEF Carries
  <2> QED BY <2>3, WriteCommits
<1> QED BY <1>1, Invariant, WritesInvariant, PTL DEF Spec, AtomicUnlessInterfered
=============================================================================
