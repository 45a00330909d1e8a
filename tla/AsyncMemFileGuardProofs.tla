---------------------- MODULE AsyncMemFileGuardProofs ----------------------
(***************************************************************************)
(* Proofs about AsyncMemFileGuard, for any paths, texts, threshold, length *)
(* of transactions and bounds: the buffers run ahead of the store wherever *)
(* a call is dropped, a snapshot persists them, operations act on what the *)
(* session sees, and the whole implements FileSession.                     *)
(***************************************************************************)
EXTENDS AsyncMemFileGuard, IndexedDbProofs

Origins == {"local", "remote"}

\* The texts of a session, of edits however late.
Texts == Seq(Nat \X Origins)

Buffers(n) == [text : TextsUpTo(n), ops_since_save : 0..n]
Trees(n) == [Paths -> TextsUpTo(n) \cup {NoFile}]
Entries(n) == [owner : Callers \cup {Guard, Gone},
               requests : Seq(Paths \X (TextsUpTo(n) \cup {NoFile}))]

Edits == {"char", "run", "remote"}
Simple == {"load", "add", "probe", "reset", "save", "drop"} \cup Edits
Step == (Simple \X Paths) \cup ({"store"} \X Calls)

Types ==
  /\ store \in Trees(edits) /\ queue \in Seq(Entries(edits))
  /\ resident \subseteq Paths /\ file_map \in [resident -> Buffers(edits)]
  /\ plan \in Seq(Step)
  /\ DOMAIN call = Callers
  /\ edits \in 0..MaxEdits /\ cancels \in 0..MaxMishaps /\ faults \in 0..MaxFaults
  /\ atRisk \subseteq resident /\ lapses \in Nat /\ discards \in Nat

-----------------------------------------------------------------------------
(* What is awaited.                                                        *)

\* The first n transactions only read.
Reads(n) == \A j \in 1..n : queue[j].requests = << >>

\* The guard's call awaits this of the step it is at.
GuardAwaits(requests) ==
  \/ Awaits({"load", "add", "probe"}) /\ requests = << >>
  \/ /\ Awaits({"char", "run", "reset", "save"}) /\ Path \in resident
     /\ requests = Put(Path, file_map[Path].text)
  \/ Awaits({"drop"}) /\ Path \notin resident /\ Concerns(requests) = {Path}

\* The store's operation awaits its read, or its write behind nothing but
\* reads, so that the store is still as it was read.
CallerAwaits(c, requests) ==
  /\ call[c].awaits = "read" => requests = << >>
  /\ call[c].awaits = "write" => /\ requests = Requests(call[c]) /\ requests # << >>
                                 /\ Reads(Len(queue) - 1)

\* Only the youngest transaction is awaited.
QueueAgrees ==
  \A i \in DOMAIN queue :
    queue[i].owner # Gone =>
      /\ i = Len(queue) /\ plan # << >>
      /\ queue[i].owner = Guard => GuardAwaits(queue[i].requests)
      /\ queue[i].owner \in Callers =>
           call[queue[i].owner] # Idle /\ CallerAwaits(queue[i].owner, queue[i].requests)

\* An operation under way is the step the guard's call is at.
CallsAgree ==
  \A c \in Callers :
    \/ call[c] = Idle
    \/ /\ DOMAIN call[c] = DOMAIN Idle
       /\ Awaits({"store"}) /\ call[c].op = Path.op /\ call[c].from = Path.from /\ call[c].to = Path.to
       /\ call[c].awaits \in {"read", "write"}
       /\ \E i \in DOMAIN queue : queue[i].owner = c

-----------------------------------------------------------------------------
(* What is still to be done.                                               *)

Todo == ToSet(plan)

\* The paths whose buffers an operation finds dropped.
Dropped(d) ==
  IF d.op \in {"copy_file", "copy_folder"} THEN Concerned(d) \ Source(d) ELSE Concerned(d)

\* The text of p is stored, or its save was lost.
Clean(p) == p \notin InFlight /\ (p \in atRisk \/ file_map[p].text = store[p])

\* A buffer is read before anything else; edits and saves are made of buffers
\* that are there; nothing but the operation follows a drop, nothing follows it.
Ordered ==
  \A i \in DOMAIN plan :
    /\ plan[i][1] \in {"load", "add", "reset"} => i = 1
    /\ plan[i][1] \in Edits \cup {"save"} =>
         \/ plan[i][2] \in resident
         \/ i # 1 /\ plan[1] = <<"load", plan[i][2]>>
    /\ plan[i][1] = "drop" => \A j \in DOMAIN plan : i < j => plan[j][1] \in {"drop", "store"}
    /\ plan[i][1] = "store" => i = Len(plan)

\* There is room for the edits still to be made.
Counted ==
  \A i \in DOMAIN plan :
    plan[i][1] \in Edits \cup {"reset"} /\ (i = 1 => ~Waiting) => edits + Len(plan) - i < MaxEdits

\* The buffers are as an operation needs them, or will be.
Prepared(d) ==
  /\ Spread(d)
  /\ \A s \in Todo : s = <<"store", d>> \/ s[1] \in {"load", "save", "drop"}
  /\ \A p \in resident \cap Dropped(d) : <<"drop", p>> \in Todo
  /\ \A p \in Paths : <<"load", p>> \in Todo => p \notin Dropped(d) /\ <<"save", p>> \in Todo
  /\ \A p \in (resident \cap Source(d)) \ Dropped(d) : Clean(p) \/ <<"save", p>> \in Todo

\* A snapshot has saved the buffers, or will.
Persisting ==
  \A s \in Todo : s[1] = "save" /\ (\A u \in Todo : u[1] # "store") =>
    /\ \A u \in Todo : u[1] = "save"
    /\ \A p \in resident : Clean(p) \/ <<"save", p>> \in Todo

PlanAgrees ==
  /\ Ordered /\ Counted /\ Persisting
  /\ \A s \in Todo : s[1] = "store" => Prepared(s[2])

-----------------------------------------------------------------------------
(* The buffers and the store.                                              *)

\* The buffer [text, ops] runs ahead of what is durable and not too far.
Behind(disk, text, ops) ==
  /\ disk # NoFile /\ IsPrefix(disk, text)
  /\ LET unsaved == Abstract!LocalEdits(Abstract!Suffix(text, disk))
     IN unsaved <= ops /\ unsaved < SAVE_THRESHOLD

\* A buffer runs ahead of what the store will hold of it, once the transactions
\* that are to write it are through; or its save was lost.
Sound(p) ==
  \/ p \in atRisk \ InFlight
  \/ Behind(Settled[p], file_map[p].text, file_map[p].ops_since_save)

BuffersSound == \A p \in resident : Sound(p)

IInv == Types /\ QueueAgrees /\ CallsAgree /\ PlanAgrees /\ BuffersSound

-----------------------------------------------------------------------------
(* Texts.                                                                  *)

LEMMA TextsAreTexts ==
  ASSUME NEW n \in Nat
  PROVE  TextsUpTo(n) \subseteq Texts /\ NoFile \notin Texts /\ NoFile \notin TextsUpTo(n)
<1>1. (0..n) \X Origins \subseteq Nat \X Origins
  OBVIOUS
<1>2. TextsUpTo(n) \subseteq Texts
  BY <1>1 DEF TextsUpTo, Texts, Origins
<1>3. NoFile \notin Texts
  BY ConstantsAssumption DEF Texts, Origins
<1> QED BY <1>2, <1>3

LEMMA TextsGrow ==
  ASSUME NEW n \in Nat, NEW m \in Nat, n <= m
  PROVE  TextsUpTo(n) \subseteq TextsUpTo(m)
<1>1. (0..n) \X Origins \subseteq (0..m) \X Origins
  OBVIOUS
<1> QED BY <1>1 DEF TextsUpTo, Origins

LEMMA BuffersGrow ==
  ASSUME NEW n \in Nat, NEW m \in Nat, n <= m
  PROVE  /\ Buffers(n) \subseteq Buffers(m) /\ Trees(n) \subseteq Trees(m)
         /\ Entries(n) \subseteq Entries(m) /\ Seq(Entries(n)) \subseteq Seq(Entries(m))
<1>1. TextsUpTo(n) \subseteq TextsUpTo(m)
  BY TextsGrow
<1>2. Buffers(n) \subseteq Buffers(m) /\ Trees(n) \subseteq Trees(m)
  BY <1>1 DEF Buffers, Trees
<1>3. Paths \X (TextsUpTo(n) \cup {NoFile}) \subseteq Paths \X (TextsUpTo(m) \cup {NoFile})
  BY <1>1
<1>4. Seq(Paths \X (TextsUpTo(n) \cup {NoFile})) \subseteq Seq(Paths \X (TextsUpTo(m) \cup {NoFile}))
  BY <1>3
<1>5. Entries(n) \subseteq Entries(m)
  BY <1>4 DEF Entries
<1> QED BY <1>2, <1>5

\* A text has nothing that it lacks itself.
LEMMA SuffixOfSelf ==
  ASSUME NEW S, NEW t \in Seq(S)
  PROVE  IsPrefix(t, t) /\ Abstract!Suffix(t, t) = << >>
<1>1. IsPrefix(t, t)
  BY PrefixByPlace
<1>2. Abstract!Suffix(t, t) = << >>
  BY SubSeqEmpty DEF Abstract!Suffix
<1> QED BY <1>1, <1>2

\* One edit more is one edit more of what is lacking.
LEMMA SuffixOfAppend ==
  ASSUME NEW S, NEW d \in Seq(S), NEW t \in Seq(S), IsPrefix(d, t), NEW e \in S
  PROVE  /\ Append(t, e) \in Seq(S) /\ IsPrefix(d, Append(t, e))
         /\ Abstract!Suffix(t, d) \in Seq(S)
         /\ Abstract!Suffix(Append(t, e), d) = Append(Abstract!Suffix(t, d), e)
<1> DEFINE u == Append(t, e)
           a == Abstract!Suffix(t, d)
           b == Abstract!Suffix(u, d)
           c == Append(a, e)
<1>1. Len(d) \in Nat /\ Len(t) \in Nat /\ Len(d) <= Len(t) /\ \A i \in 1..Len(d) : d[i] = t[i]
  BY PrefixByPlace
<1>2. /\ u \in Seq(S) /\ Len(u) = Len(t) + 1
      /\ \A i \in 1..(Len(t) + 1) : u[i] = IF i <= Len(t) THEN t[i] ELSE e
  BY <1>1
<1>3. a = SubSeq(t, Len(d) + 1, Len(t)) /\ b = SubSeq(u, Len(d) + 1, Len(u))
  BY DEF Abstract!Suffix
<1> HIDE DEF u, a, b
<1>4. IsPrefix(d, u)
  <2>1. Len(d) <= Len(u) /\ \A i \in 1..Len(d) : d[i] = u[i]
    BY <1>1, <1>2
  <2> QED BY <1>2, <2>1, PrefixByPlace
<1>5. a \in Seq(S) /\ Len(a) = Len(t) - Len(d) /\ \A i \in 1..(Len(t) - Len(d)) : a[i] = t[Len(d) + i]
  BY <1>1, <1>3
<1>6. /\ b \in Seq(S) /\ Len(b) = Len(t) + 1 - Len(d)
      /\ \A i \in 1..(Len(t) + 1 - Len(d)) : b[i] = u[Len(d) + i]
  BY <1>1, <1>2, <1>3
<1>7. /\ c \in Seq(S) /\ Len(c) = Len(t) + 1 - Len(d)
      /\ \A i \in 1..(Len(t) + 1 - Len(d)) : c[i] = IF i <= Len(t) - Len(d) THEN a[i] ELSE e
  <2>0. a \in Seq(S)
    BY <1>5
  <2>1. c \in Seq(S) /\ Len(c) = Len(a) + 1 /\ \A i \in 1..(Len(a) + 1) : c[i] = IF i <= Len(a) THEN a[i] ELSE e
    BY <2>0
  <2> HIDE DEF c
  <2> QED BY <1>1, <1>5, <2>1
<1> HIDE DEF c
<1>8. \A i \in 1..(Len(t) + 1 - Len(d)) : b[i] = c[i]
  <2> SUFFICES ASSUME NEW i \in 1..(Len(t) + 1 - Len(d)) PROVE b[i] = c[i]
    OBVIOUS
  <2>1. Len(d) + i \in 1..(Len(t) + 1) /\ (i <= Len(t) - Len(d) <=> Len(d) + i <= Len(t))
    BY <1>1
  <2>2. b[i] = IF i <= Len(t) - Len(d) THEN t[Len(d) + i] ELSE e
    BY <1>2, <1>6, <2>1
  <2>3. i <= Len(t) - Len(d) => i \in 1..(Len(t) - Len(d))
    BY <1>1
  <2> QED BY <1>5, <1>7, <2>2, <2>3
<1>9. b = c
  BY <1>6, <1>7, <1>8, SeqEqual
<1> QED BY <1>2, <1>4, <1>5, <1>9 DEF u, a, b, c

LEMMA LocalEditsOf ==
  ASSUME NEW t \in Texts
  PROVE  /\ Abstract!LocalEdits(t) \in Nat
         /\ t = << >> => Abstract!LocalEdits(t) = 0
         /\ \A e \in Nat \X Origins :
              Abstract!LocalEdits(Append(t, e)) =
                Abstract!LocalEdits(t) + IF e[2] = "local" THEN 1 ELSE 0
<1> DEFINE Locals(s) == {i \in DOMAIN s : s[i][2] = "local"}
<1>1. IsFiniteSet(Locals(t)) /\ Len(t) + 1 \notin Locals(t) /\ Cardinality(Locals(t)) \in Nat
  <2>1. IsFiniteSet(1..Len(t)) /\ DOMAIN t = 1..Len(t)
    BY FS_Interval DEF Texts
  <2>2. IsFiniteSet(Locals(t))
    BY <2>1, FS_Subset
  <2> QED BY <2>1, <2>2, FS_CardinalityType DEF Texts
<1>2. t = << >> => Locals(t) = {}
  OBVIOUS
<1>3. ASSUME NEW e \in Nat \X Origins
      PROVE  Locals(Append(t, e)) = IF e[2] = "local" THEN Locals(t) \cup {Len(t) + 1} ELSE Locals(t)
  BY <1>3 DEF Texts
<1>4. \A s : Abstract!LocalEdits(s) = Cardinality(Locals(s))
  <2>1. \A S : Abstract!Cardinality(S) = Cardinality(S)
    BY DEF Abstract!Cardinality, Cardinality
  <2> QED BY <2>1 DEF Abstract!LocalEdits
<1> HIDE DEF Locals
<1>5. ASSUME NEW e \in Nat \X Origins
      PROVE  Cardinality(Locals(Append(t, e))) = Cardinality(Locals(t)) + IF e[2] = "local" THEN 1 ELSE 0
  BY <1>1, <1>3, FS_AddElement
<1> QED BY <1>1, <1>2, <1>4, <1>5, FS_EmptySet

\* What is durable lacks nothing of itself.
LEMMA BehindSelf ==
  ASSUME NEW t \in Texts, NEW ops \in Nat
  PROVE  Behind(t, t, ops)
<1>1. t # NoFile
  BY ConstantsAssumption DEF Texts, Origins
<1>2. IsPrefix(t, t) /\ Abstract!Suffix(t, t) = << >>
  BY SuffixOfSelf DEF Texts
<1>3. << >> \in Texts
  BY DEF Texts
<1>4. Abstract!LocalEdits(<< >>) = 0
  BY <1>3, LocalEditsOf
<1>5. 0 <= ops /\ 0 < SAVE_THRESHOLD
  BY ConstantsAssumption
<1> QED BY <1>1, <1>2, <1>4, <1>5 DEF Behind

\* A local edit is one that is counted, a relayed one is not.
LEMMA BehindAppend ==
  ASSUME NEW disk \in Texts, NEW text \in Texts, NEW ops \in Nat, Behind(disk, text, ops),
         NEW e \in Nat \X Origins
  PROVE  /\ e[2] # "local" => Behind(disk, Append(text, e), ops)
         /\ e[2] = "local" /\ ops + 1 < SAVE_THRESHOLD => Behind(disk, Append(text, e), ops + 1)
<1> DEFINE lacking == Abstract!Suffix(text, disk)
<1>1. /\ IsPrefix(disk, Append(text, e)) /\ lacking \in Texts
      /\ Abstract!Suffix(Append(text, e), disk) = Append(lacking, e)
  BY SuffixOfAppend DEF Behind, Texts
<1>2. Abstract!LocalEdits(lacking) <= ops /\ Abstract!LocalEdits(lacking) < SAVE_THRESHOLD
  BY DEF Behind
<1> HIDE DEF lacking
<1>3. /\ Abstract!LocalEdits(lacking) \in Nat
      /\ Abstract!LocalEdits(Append(lacking, e)) =
           Abstract!LocalEdits(lacking) + IF e[2] = "local" THEN 1 ELSE 0
  BY <1>1, LocalEditsOf
<1> QED BY <1>1, <1>2, <1>3, ConstantsAssumption DEF Behind

LEMMA TextTyped ==
  ASSUME NEW n \in Nat, NEW t \in TextsUpTo(n), NEW origin \in Origins
  PROVE  Append(t, <<n + 1, origin>>) \in TextsUpTo(n + 1)
<1>1. t \in TextsUpTo(n + 1)
  BY TextsGrow
<1>2. n + 1 \in 0..(n + 1)
  OBVIOUS
<1>3. <<n + 1, origin>> \in (0..(n + 1)) \X Origins
  BY <1>2, Zenon
<1> QED BY <1>1, <1>3 DEF TextsUpTo, Origins

-----------------------------------------------------------------------------
(* The queue, and what the store will hold.                                *)

Requested(n) == Seq(Paths \X (TextsUpTo(n) \cup {NoFile}))

LEMMA EntryTyped ==
  ASSUME Types, NEW i \in DOMAIN queue
  PROVE  /\ Len(queue) \in Nat /\ DOMAIN queue = 1..Len(queue) /\ edits \in Nat
         /\ queue[i].owner \in Callers \cup {Guard, Gone} /\ queue[i].requests \in Requested(edits)
         /\ queue[i] = Transaction(queue[i].owner, queue[i].requests)
         /\ Concerns(queue[i].requests) \subseteq Paths
<1>1. queue \in Seq(Entries(edits)) /\ edits \in Nat
  BY ConstantsAssumption DEF Types
<1>2. queue[i] \in Entries(edits) /\ Len(queue) \in Nat /\ DOMAIN queue = 1..Len(queue)
  BY <1>1
<1>3. queue[i].owner \in Callers \cup {Guard, Gone} /\ queue[i].requests \in Requested(edits)
      /\ queue[i] = Transaction(queue[i].owner, queue[i].requests)
  BY <1>2 DEF Entries, Requested, Transaction
<1>4. Concerns(queue[i].requests) \subseteq Paths
  BY <1>3 DEF Requested, Concerns, ToSet
<1> QED BY <1>1, <1>2, <1>3, <1>4

LEMMA ConcernsNone == Concerns(<< >>) = {}
BY DEF Concerns, ToSet

LEMMA ConcernsOne ==
  ASSUME NEW p, NEW x
  PROVE  Concerns(Put(p, x)) = {p}
<1>1. ToSet(Put(p, x)) = {<<p, x>>}
  BY DEF Put, ToSet
<1> QED BY <1>1 DEF Concerns

LEMMA GreatestOf ==
  ASSUME NEW S \in SUBSET Nat, NEW j \in S, \A k \in S : k <= j
  PROVE  Max(S) = j
<1>1. \A k \in S : (\A l \in S : k >= l) => k = j
  BY SMT
<1>2. \A l \in S : j >= l
  OBVIOUS
<1> QED BY <1>1, <1>2 DEF Max

\* The last transaction that is to write p.
LastWrite(p, j) == j \in Writes(p) /\ \A k \in Writes(p) : k <= j

\* What a transaction puts under a path is not a matter of what is there.
LEMMA PutThere ==
  ASSUME NEW n \in Nat, NEW requests \in Requested(n), NEW tree \in Trees(n), NEW other \in Trees(n),
         NEW p \in Concerns(requests)
  PROVE  /\ Committed(tree, requests)[p] = Committed(other, requests)[p]
         /\ \E r \in ToSet(requests) : r[1] = p /\ Committed(tree, requests)[p] = r[2]
<1>0. p \in Paths
  BY DEF Requested, Concerns, ToSet
<1>1. PICK r \in ToSet(requests) : r[1] = p
  BY DEF Concerns
<1>2. {i \in DOMAIN requests : requests[i][1] = p} # {}
  BY <1>1 DEF ToSet
<1>3. Committed(tree, requests)[p] = Committed(other, requests)[p]
  BY <1>0, <1>2 DEF Committed
<1>4. Effect(tree, requests, Committed(tree, requests))
  BY Commits DEF Requested, Trees
<1>5. \E s \in ToSet(requests) : s[1] = p /\ Committed(tree, requests)[p] = s[2]
  BY <1>0, <1>1, <1>4 DEF Effect
<1> QED BY <1>3, <1>5

LEMMA KeptThere ==
  ASSUME NEW n \in Nat, NEW requests \in Requested(n), NEW tree \in Trees(n), NEW p \in Paths
  PROVE  /\ Committed(tree, requests) \in Trees(n)
         /\ p \notin Concerns(requests) => Committed(tree, requests)[p] = tree[p]
<1>1. /\ Committed(tree, requests) \in Trees(n)
      /\ Effect(tree, requests, Committed(tree, requests))
  BY Commits DEF Requested, Trees
<1> QED BY <1>1 DEF Effect, Concerns

LEMMA SettledIs ==
  ASSUME Types, NEW p \in Paths
  PROVE  /\ Settled[p] \in TextsUpTo(edits) \cup {NoFile}
         /\ Writes(p) = {} => Settled[p] = store[p]
         /\ Writes(p) # {} => \E j : LastWrite(p, j)
         /\ \A j : LastWrite(p, j) => Settled[p] = Committed(store, queue[j].requests)[p]
<1>1. Len(queue) \in Nat /\ DOMAIN queue = 1..Len(queue) /\ edits \in Nat /\ store \in Trees(edits)
  BY ConstantsAssumption DEF Types
<1>2. Writes(p) \in SUBSET (1..Len(queue))
  BY <1>1 DEF Writes
<1>3. Settled[p] = IF Writes(p) = {} THEN store[p]
                   ELSE Committed(store, queue[Max(Writes(p))].requests)[p]
  BY DEF Settled
<1>4. ASSUME NEW j, LastWrite(p, j)
      PROVE  /\ Settled[p] = Committed(store, queue[j].requests)[p]
             /\ Settled[p] \in TextsUpTo(edits) \cup {NoFile}
  <2>1. j \in Writes(p) /\ j \in 1..Len(queue) /\ Max(Writes(p)) = j
    BY <1>2, <1>4, GreatestOf DEF LastWrite
  <2>2. Settled[p] = Committed(store, queue[j].requests)[p]
    BY <1>3, <2>1
  <2>3. queue[j].requests \in Requested(edits)
    BY <1>1, <2>1, EntryTyped
  <2>4. Committed(store, queue[j].requests) \in Trees(edits)
    BY <1>1, <2>3, KeptThere
  <2> QED BY <2>2, <2>4 DEF Trees
<1>5. ASSUME Writes(p) # {} PROVE \E j : LastWrite(p, j)
  <2> DEFINE T == {Len(queue) - k : k \in Writes(p)}
  <2>1. T \in SUBSET Nat /\ T # {}
    <3>1. \A k \in Writes(p) : k \in Nat /\ k <= Len(queue) /\ Len(queue) - k \in Nat
      BY <1>1, <1>2
    <3> QED BY <1>5, <3>1
  <2>2. PICK m \in T : \A l \in T : m <= l
    BY <2>1, LeastNumber
  <2>3. PICK j \in Writes(p) : m = Len(queue) - j
    BY <2>2
  <2>4. ASSUME NEW k \in Writes(p) PROVE k <= j
    <3>1. Len(queue) - j <= Len(queue) - k
      BY <2>2, <2>3
    <3> QED BY <1>1, <1>2, <3>1
  <2> QED BY <2>4 DEF LastWrite
<1>6. Writes(p) = {} => Settled[p] \in TextsUpTo(edits) \cup {NoFile}
  BY <1>1, <1>3 DEF Trees
<1> QED BY <1>3, <1>4, <1>5, <1>6

\* Nothing is to be written.
LEMMA NothingInFlight ==
  ASSUME Types, Reads(Len(queue))
  PROVE  InFlight = {} /\ Settled = store /\ \A p \in Paths : Writes(p) = {}
<1>1. \A i \in DOMAIN queue : queue[i].requests = << >>
  BY DEF Types, Reads
<1>2. \A i \in DOMAIN queue : Concerns(queue[i].requests) = {}
  BY <1>1, ConcernsNone
<1>3. InFlight = {} /\ \A p \in Paths : Writes(p) = {}
  BY <1>2 DEF InFlight, Writes
<1>4. Settled = [p \in Paths |-> store[p]]
  BY <1>3 DEF Settled
<1> QED BY <1>3, <1>4 DEF Types, Trees

\* A transaction is opened.
LEMMA OpenEffect ==
  ASSUME Types, NEW owner, NEW n \in Nat, NEW requests \in Requested(n), Open(owner, requests)
  PROVE  /\ Len(queue') = Len(queue) + 1 /\ DOMAIN queue' = 1..(Len(queue) + 1)
         /\ \A i \in DOMAIN queue : queue'[i] = queue[i]
         /\ queue'[Len(queue) + 1] = Transaction(owner, requests)
         /\ InFlight' = InFlight \cup Concerns(requests)
<1> DEFINE new == Transaction(owner, requests)
           S == Entries(edits) \cup {new}
<1>1. queue \in Seq(S) /\ new \in S /\ queue' = Append(queue, new)
  BY DEF Types, Open
<1> HIDE DEF S
<1>2. new.requests = requests
  BY DEF Transaction
<1> HIDE DEF new
<1>3. /\ Len(queue) \in Nat /\ DOMAIN queue = 1..Len(queue)
      /\ Len(queue') = Len(queue) + 1 /\ DOMAIN queue' = 1..(Len(queue) + 1)
      /\ \A i \in DOMAIN queue : queue'[i] = queue[i]
      /\ queue'[Len(queue) + 1] = new
  BY <1>1
<1>4. \A i \in DOMAIN queue' : i \in DOMAIN queue \/ i = Len(queue) + 1
  BY <1>3
<1>5. InFlight' = UNION {Concerns(queue'[i].requests) : i \in DOMAIN queue'}
  BY DEF InFlight, Concerns
<1>6. InFlight' = InFlight \cup Concerns(requests)
  <2>1. DOMAIN queue \subseteq DOMAIN queue' /\ Len(queue) + 1 \in DOMAIN queue'
    BY <1>3
  <2> QED BY <1>2, <1>3, <1>4, <1>5, <2>1 DEF InFlight
<1> QED BY <1>3, <1>6 DEF new

LEMMA OpenSettles ==
  ASSUME Types, NEW owner, NEW n \in Nat, NEW requests \in Requested(n), Open(owner, requests),
         store' = store, NEW p \in Paths
  PROVE  Settled'[p] = IF owner \notin Callers /\ p \in Concerns(requests)
                       THEN Committed(store, requests)[p] ELSE Settled[p]
<1>0. edits \in Nat /\ Len(queue) \in Nat /\ DOMAIN queue = 1..Len(queue)
  BY ConstantsAssumption DEF Types
<1>1. /\ Len(queue') = Len(queue) + 1 /\ DOMAIN queue' = 1..(Len(queue) + 1)
      /\ \A i \in DOMAIN queue : queue'[i] = queue[i]
      /\ queue'[Len(queue) + 1] = Transaction(owner, requests)
  BY <1>0, OpenEffect
<1>2. /\ Transaction(owner, requests).owner = owner /\ Transaction(owner, requests).requests = requests
  BY DEF Transaction
<1>3. Writes(p)' = {i \in DOMAIN queue' : queue'[i].owner \notin Callers /\ p \in Concerns(queue'[i].requests)}
  BY DEF Writes, Concerns
<1>4. Settled'[p] = IF Writes(p)' = {} THEN store[p]
                    ELSE Committed(store, queue'[Max(Writes(p)')].requests)[p]
  BY DEF Settled, Writes, Concerns, Committed
<1>5. CASE owner \notin Callers /\ p \in Concerns(requests)
  <2>1. Len(queue) + 1 \in Writes(p)' /\ Writes(p)' \in SUBSET Nat
    BY <1>0, <1>1, <1>2, <1>3, <1>5
  <2>2. \A k \in Writes(p)' : k <= Len(queue) + 1
    BY <1>0, <1>1, <1>3
  <2>3. Max(Writes(p)') = Len(queue) + 1
    BY <2>1, <2>2, GreatestOf
  <2> QED BY <1>1, <1>2, <1>4, <1>5, <2>1, <2>3
<1>6. CASE ~(owner \notin Callers /\ p \in Concerns(requests))
  <2>1. Writes(p)' = Writes(p)
    BY <1>0, <1>1, <1>2, <1>3, <1>6 DEF Writes
  <2>2. CASE Writes(p) = {}
    BY <1>4, <1>6, <2>1, <2>2, SettledIs
  <2>3. CASE Writes(p) # {}
    <3>1. PICK j : LastWrite(p, j)
      BY <2>3, SettledIs
    <3>2. j \in Writes(p) /\ j \in DOMAIN queue /\ Writes(p) \in SUBSET Nat
      BY <1>0, <3>1 DEF LastWrite, Writes
    <3>3. Max(Writes(p)) = j
      BY <3>1, <3>2, GreatestOf DEF LastWrite
    <3>4. Settled[p] = Committed(store, queue[j].requests)[p]
      BY <3>1, SettledIs
    <3> QED BY <1>1, <1>4, <1>6, <2>1, <2>3, <3>2, <3>3, <3>4
  <2> QED BY <2>2, <2>3
<1> QED BY <1>5, <1>6

\* A transaction leaves the queue.
LEMMA RemoveEffect ==
  ASSUME Types, NEW i \in DOMAIN queue, queue' = RemoveAt(queue, i)
  PROVE  /\ Len(queue') = Len(queue) - 1 /\ DOMAIN queue' = 1..(Len(queue) - 1)
         /\ queue' \in Seq(Entries(edits))
         /\ \A k \in 1..(Len(queue) - 1) : queue'[k] = IF k < i THEN queue[k] ELSE queue[k + 1]
         /\ InFlight' \subseteq InFlight
         /\ InFlight \subseteq InFlight' \cup Concerns(queue[i].requests)
<1>1. queue \in Seq(Entries(edits)) /\ Len(queue) \in Nat /\ DOMAIN queue = 1..Len(queue)
  BY DEF Types
<1>2. /\ queue' \in Seq(Entries(edits)) /\ Len(queue') = Len(queue) - 1
      /\ \A k \in 1..(Len(queue) - 1) : queue'[k] = IF k < i THEN queue[k] ELSE queue[k + 1]
  BY <1>1, RemovedAt
<1>3. DOMAIN queue' = 1..(Len(queue) - 1)
  BY <1>1, <1>2
<1>4. InFlight' = UNION {Concerns(queue'[k].requests) : k \in DOMAIN queue'}
  BY DEF InFlight, Concerns
<1>5. \A k \in DOMAIN queue' : \E l \in DOMAIN queue : queue'[k] = queue[l]
  <2> SUFFICES ASSUME NEW k \in 1..(Len(queue) - 1) PROVE \E l \in DOMAIN queue : queue'[k] = queue[l]
    BY <1>3
  <2>1. k \in DOMAIN queue /\ k + 1 \in DOMAIN queue
    BY <1>1
  <2> QED BY <1>2, <2>1
<1>6. \A l \in DOMAIN queue : l = i \/ \E k \in DOMAIN queue' : queue'[k] = queue[l]
  <2> SUFFICES ASSUME NEW l \in DOMAIN queue, l # i PROVE \E k \in DOMAIN queue' : queue'[k] = queue[l]
    OBVIOUS
  <2>1. CASE l < i
    <3>1. l \in 1..(Len(queue) - 1)
      BY <1>1, <2>1
    <3> QED BY <1>2, <1>3, <2>1, <3>1
  <2>2. CASE l > i
    <3>1. l - 1 \in 1..(Len(queue) - 1) /\ ~(l - 1 < i) /\ (l - 1) + 1 = l
      BY <1>1, <2>2
    <3> QED BY <1>2, <1>3, <3>1
  <2> QED BY <1>1, <2>1, <2>2
<1>7. InFlight' \subseteq InFlight
  BY <1>4, <1>5 DEF InFlight
<1>8. InFlight \subseteq InFlight' \cup Concerns(queue[i].requests)
  BY <1>4, <1>6 DEF InFlight
<1> QED BY <1>2, <1>3, <1>7, <1>8

\* What is left is written as it would have been, and the first one's part of
\* it when the first one is.
LEMMA RemoveSettles ==
  ASSUME Types, NEW i \in DOMAIN queue, queue' = RemoveAt(queue, i), store' \in Trees(edits), NEW p \in Paths
  PROVE  /\ (p \notin Concerns(queue[i].requests) \/ queue[i].owner \in Callers) /\ store'[p] = store[p]
              => Settled'[p] = Settled[p]
         /\ i = 1 /\ queue[1].owner \notin Callers /\ store' = Committed(store, queue[1].requests)
              => Settled'[p] = Settled[p]
         /\ i = 1 /\ Writes(p)' # {} => Settled'[p] = Settled[p]
         /\ Writes(p)' = {} => Settled'[p] = store'[p]
<1>0. edits \in Nat /\ Len(queue) \in Nat /\ DOMAIN queue = 1..Len(queue) /\ store \in Trees(edits)
  BY ConstantsAssumption DEF Types
<1>1. /\ DOMAIN queue' = 1..(Len(queue) - 1)
      /\ \A k \in 1..(Len(queue) - 1) : queue'[k] = IF k < i THEN queue[k] ELSE queue[k + 1]
  BY RemoveEffect
<1>2. Writes(p)' = {k \in DOMAIN queue' : queue'[k].owner \notin Callers /\ p \in Concerns(queue'[k].requests)}
  BY DEF Writes, Concerns
<1>3. Settled'[p] = IF Writes(p)' = {} THEN store'[p]
                    ELSE Committed(store', queue'[Max(Writes(p)')].requests)[p]
  BY DEF Settled, Writes, Concerns, Committed
<1> DEFINE old(k) == IF k < i THEN k ELSE k + 1
<1>4. \A k \in 1..(Len(queue) - 1) : old(k) \in DOMAIN queue /\ old(k) # i /\ queue'[k] = queue[old(k)]
  BY <1>0, <1>1
<1>5. \A l \in DOMAIN queue : l # i => \E k \in 1..(Len(queue) - 1) : old(k) = l
  <2> SUFFICES ASSUME NEW l \in DOMAIN queue, l # i PROVE \E k \in 1..(Len(queue) - 1) : old(k) = l
    OBVIOUS
  <2>1. CASE l < i
    <3>1. l \in 1..(Len(queue) - 1)
      BY <1>0, <2>1
    <3> QED BY <2>1, <3>1
  <2>2. CASE l > i
    <3>1. l - 1 \in 1..(Len(queue) - 1) /\ ~(l - 1 < i) /\ (l - 1) + 1 = l
      BY <1>0, <2>2
    <3> QED BY <3>1
  <2> QED BY <1>0, <2>1, <2>2
<1>6. \A k, l \in 1..(Len(queue) - 1) : old(k) <= old(l) => k <= l
  BY <1>0
<1> HIDE DEF old
<1>7. /\ \A k \in Writes(p)' : old(k) \in Writes(p) /\ k \in 1..(Len(queue) - 1)
      /\ \A l \in Writes(p) : l = i \/ \E k \in Writes(p)' : old(k) = l
  <2>1. \A k \in Writes(p)' : old(k) \in Writes(p) /\ k \in 1..(Len(queue) - 1)
    BY <1>1, <1>2, <1>4 DEF Writes
  <2>2. ASSUME NEW l \in Writes(p), l # i PROVE \E k \in Writes(p)' : old(k) = l
    <3>1. PICK k \in 1..(Len(queue) - 1) : old(k) = l
      BY <1>5, <2>2 DEF Writes
    <3>2. k \in DOMAIN queue' /\ queue'[k] = queue[l]
      BY <1>1, <1>4, <3>1
    <3> QED BY <1>2, <2>2, <3>1, <3>2 DEF Writes
  <2> QED BY <2>1, <2>2
\* The last of those that are left is the last there was.
<1>8. ASSUME NEW j, LastWrite(p, j), j # i
      PROVE  Writes(p)' # {} /\ Settled'[p] = Settled[p]
  <2>1. PICK k \in Writes(p)' : old(k) = j
    BY <1>7, <1>8 DEF LastWrite
  <2>2. \A l \in Writes(p)' : l <= k
    <3> SUFFICES ASSUME NEW l \in Writes(p)' PROVE l <= k
      OBVIOUS
    <3>1. old(l) <= old(k)
      BY <1>7, <1>8, <2>1 DEF LastWrite
    <3> QED BY <1>6, <1>7, <3>1
  <2>3. Writes(p)' \in SUBSET Nat
    BY <1>0, <1>7
  <2>4. Max(Writes(p)') = k /\ queue'[k] = queue[j] /\ j \in DOMAIN queue /\ j \in Writes(p)
    BY <1>4, <1>7, <1>8, <2>1, <2>2, <2>3, GreatestOf DEF LastWrite, Writes
  <2>5. Settled'[p] = Committed(store', queue[j].requests)[p]
    BY <1>3, <2>1, <2>4
  <2>6. Settled[p] = Committed(store, queue[j].requests)[p]
    BY <1>8, SettledIs
  <2>7. queue[j].requests \in Requested(edits) /\ p \in Concerns(queue[j].requests)
    BY <2>4, EntryTyped DEF Writes
  <2> QED BY <1>0, <2>1, <2>5, <2>6, <2>7, PutThere
<1>9. ASSUME Writes(p) \subseteq {i} PROVE Writes(p)' = {} /\ Settled'[p] = store'[p]
  BY <1>3, <1>4, <1>7, <1>9
<1>10. ASSUME ~(p \in Concerns(queue[i].requests) /\ queue[i].owner \notin Callers), store'[p] = store[p]
       PROVE  Settled'[p] = Settled[p]
  <2>1. i \notin Writes(p)
    BY <1>10 DEF Writes
  <2>2. CASE Writes(p) = {}
    BY <1>9, <1>10, <2>2, SettledIs
  <2>3. CASE Writes(p) # {}
    BY <1>8, <2>1, <2>3, SettledIs DEF LastWrite
  <2> QED BY <2>2, <2>3
<1>11. ASSUME i = 1, queue[1].owner \notin Callers, store' = Committed(store, queue[1].requests)
       PROVE  Settled'[p] = Settled[p]
  <2>1. queue[1].requests \in Requested(edits)
    BY <1>11, EntryTyped
  <2>2. CASE p \notin Concerns(queue[1].requests)
    <3>1. store'[p] = store[p]
      BY <1>0, <1>11, <2>1, <2>2, KeptThere
    <3> QED BY <1>10, <1>11, <2>2, <3>1
  <2>3. CASE p \in Concerns(queue[1].requests)
    <3>1. 1 \in Writes(p)
      BY <1>11, <2>3 DEF Writes
    <3>2. PICK j : LastWrite(p, j)
      BY <3>1, SettledIs
    <3>3. CASE j = 1
      <4>1. Writes(p) \subseteq {1}
        <5>1. \A k \in Writes(p) : k \in Nat /\ k >= 1 /\ k <= 1
          BY <1>0, <3>2, <3>3 DEF LastWrite, Writes
        <5> QED BY <5>1
      <4>2. Settled'[p] = store'[p]
        BY <1>9, <1>11, <4>1
      <4>3. Settled[p] = Committed(store, queue[1].requests)[p]
        BY <3>2, <3>3, SettledIs
      <4> QED BY <1>11, <4>2, <4>3
    <3>4. CASE j # 1
      BY <1>8, <1>11, <3>2, <3>4
    <3> QED BY <3>3, <3>4
  <2> QED BY <2>2, <2>3
<1>12. ASSUME i = 1, Writes(p)' # {} PROVE Settled'[p] = Settled[p]
  <2>1. PICK k \in Writes(p)' : TRUE
    BY <1>12
  <2>2. old(k) \in Writes(p) /\ k \in 1..(Len(queue) - 1) /\ old(k) = k + 1
    BY <1>0, <1>7, <1>12, <2>1 DEF old
  <2>3. PICK j : LastWrite(p, j)
    BY <2>2, SettledIs
  <2>4. k + 1 <= j /\ k \in Nat /\ k >= 1 /\ j \in Nat
    BY <1>0, <2>2, <2>3 DEF LastWrite, Writes
  <2>5. j # i
    BY <1>12, <2>4
  <2> QED BY <1>8, <2>3, <2>5
<1> QED BY <1>3, <1>10, <1>11, <1>12

-----------------------------------------------------------------------------
(* The steps still to take.                                                *)

LEMMA StepTyped ==
  ASSUME NEW s \in Step
  PROVE  /\ s = <<s[1], s[2]>> /\ s[1] \in Simple \cup {"store"}
         /\ s[1] # "store" => s[2] \in Paths
         /\ s[1] = "store" => s[2] \in Calls
<1>1. CASE s \in Simple \X Paths
  <2>1. s[1] \in Simple /\ s[2] \in Paths /\ s = <<s[1], s[2]>>
    BY <1>1
  <2>2. s[1] # "store"
    BY <2>1 DEF Simple, Edits
  <2> QED BY <2>1, <2>2
<1>2. CASE s \in {"store"} \X Calls
  BY <1>2
<1> QED BY <1>1, <1>2 DEF Step

LEMMA FirstStep ==
  ASSUME Types, plan # << >>
  PROVE  /\ Len(plan) \in Nat /\ Len(plan) >= 1 /\ DOMAIN plan = 1..Len(plan) /\ 1 \in DOMAIN plan
         /\ Head(plan) = plan[1] /\ Head(plan) \in Todo
         /\ Todo \subseteq Step
         /\ Tail(plan) \in Seq(Step) /\ DOMAIN Tail(plan) = 1..(Len(plan) - 1)
         /\ Len(Tail(plan)) = Len(plan) - 1
         /\ \A i \in 1..(Len(plan) - 1) : Tail(plan)[i] = plan[i + 1] /\ i + 1 \in DOMAIN plan
<1>1. plan \in Seq(Step)
  BY DEF Types
<1>2. /\ Len(plan) \in Nat /\ Len(plan) >= 1 /\ DOMAIN plan = 1..Len(plan) /\ 1 \in DOMAIN plan
      /\ Head(plan) = plan[1]
  BY <1>1
<1>3. /\ Tail(plan) \in Seq(Step) /\ DOMAIN Tail(plan) = 1..(Len(plan) - 1)
      /\ Len(Tail(plan)) = Len(plan) - 1
      /\ \A i \in 1..(Len(plan) - 1) : Tail(plan)[i] = plan[i + 1] /\ i + 1 \in DOMAIN plan
  BY <1>1, <1>2
<1>4. Head(plan) \in Todo /\ Todo \subseteq Step
  BY <1>1, <1>2 DEF Todo, ToSet
<1> QED BY <1>2, <1>3, <1>4

\* The first step is what the others are left of.
LEMMA TodoOfTail ==
  ASSUME Types, plan # << >>, plan' = Tail(plan)
  PROVE  Todo' \subseteq Todo /\ \A s \in Todo : s \in Todo' \/ s = Head(plan)
<1>1. Todo' \subseteq Todo
  BY FirstStep DEF Todo, ToSet
<1>2. ASSUME NEW s \in Todo PROVE s \in Todo' \/ s = Head(plan)
  <2>1. PICK i \in DOMAIN plan : plan[i] = s
    BY <1>2 DEF Todo, ToSet
  <2>2. CASE i = 1
    BY <2>1, <2>2, FirstStep
  <2>3. CASE i # 1
    <3>1. i - 1 \in 1..(Len(plan) - 1) /\ (i - 1) + 1 = i
      BY <2>3, FirstStep
    <3>2. i - 1 \in DOMAIN plan' /\ plan'[i - 1] = s
      BY <2>1, <3>1, FirstStep
    <3> QED BY <3>2 DEF Todo, ToSet
  <2> QED BY <2>2, <2>3
<1> QED BY <1>1, <1>2

LEMMA OrderedProceeds ==
  ASSUME Types, Ordered, plan # << >>, plan' = Tail(plan),
         \A p \in resident : p \in resident' \/ Head(plan) = <<"drop", p>>,
         Head(plan)[1] = "load" => Path \in resident'
  PROVE  Ordered'
<1>0. /\ DOMAIN plan' = 1..(Len(plan) - 1) /\ Len(plan') = Len(plan) - 1
      /\ \A i \in 1..(Len(plan) - 1) : plan'[i] = plan[i + 1]
  BY FirstStep
<1>1. SUFFICES ASSUME NEW k \in DOMAIN plan'
               PROVE  /\ plan'[k][1] \notin {"load", "add", "reset"}
                      /\ plan'[k][1] \in Edits \cup {"save"} => plan'[k][2] \in resident'
                      /\ plan'[k][1] = "drop" =>
                           \A j \in DOMAIN plan' : k < j => plan'[j][1] \in {"drop", "store"}
                      /\ plan'[k][1] = "store" => k = Len(plan')
  BY Zenon DEF Ordered
<1>2. k + 1 \in DOMAIN plan /\ k + 1 # 1 /\ k \in Nat /\ 1 \in DOMAIN plan /\ Head(plan) = plan[1]
      /\ Len(plan) \in Nat
  BY <1>0, FirstStep
<1>3. plan[k + 1][1] \notin {"load", "add", "reset"}
  BY <1>2 DEF Ordered
<1>4. plan[k + 1][1] = "store" => k = Len(plan) - 1
  BY <1>2 DEF Ordered
<1>5. ASSUME plan[k + 1][1] = "drop", NEW j \in 1..(Len(plan) - 1), k < j
      PROVE  plan[j + 1][1] \in {"drop", "store"}
  <2>1. j + 1 \in DOMAIN plan /\ k + 1 < j + 1
    BY <1>2, <1>5, FirstStep
  <2> QED BY <1>2, <1>5, <2>1 DEF Ordered
<1>6. ASSUME plan[k + 1][1] \in Edits \cup {"save"} PROVE plan[k + 1][2] \in resident'
  <2>1. plan[k + 1][2] \in resident \/ Head(plan) = <<"load", plan[k + 1][2]>>
    BY <1>2, <1>6 DEF Ordered
  <2>2. Head(plan)[1] # "drop"
    <3>1. plan[k + 1][1] \notin {"drop", "store"}
      BY <1>6 DEF Edits
    <3>2. 1 < k + 1
      BY <1>2
    <3> QED BY <1>2, <3>1, <3>2 DEF Ordered
  <2>3. CASE plan[k + 1][2] \in resident
    BY <2>2, <2>3
  <2>4. CASE Head(plan) = <<"load", plan[k + 1][2]>>
    BY <2>4 DEF Path
  <2> QED BY <2>1, <2>3, <2>4
<1> QED BY <1>0, <1>3, <1>4, <1>5, <1>6

LEMMA OrderedStays ==
  ASSUME Types, Ordered, plan' = plan,
         \A p \in resident : p \in resident' \/ (plan # << >> /\ Head(plan) = <<"drop", p>>)
  PROVE  Ordered'
<1>1. SUFFICES ASSUME NEW k \in DOMAIN plan, plan[k][1] \in Edits \cup {"save"}
               PROVE  \/ plan[k][2] \in resident'
                      \/ k # 1 /\ plan[1] = <<"load", plan[k][2]>>
  BY DEF Ordered
<1>2. plan # << >>
  BY <1>1
<1>3. plan[k][2] \in resident \/ (k # 1 /\ plan[1] = <<"load", plan[k][2]>>)
  BY <1>1 DEF Ordered
<1>4. Head(plan)[1] # "drop"
  <2>1. plan[k][1] \notin {"drop", "store"}
    BY <1>1 DEF Edits
  <2>2. 1 \in DOMAIN plan /\ Head(plan) = plan[1] /\ (k # 1 => 1 < k)
    BY <1>1, <1>2, FirstStep
  <2> QED BY <1>1, <2>1, <2>2 DEF Ordered
<1> QED BY <1>3, <1>4

\* One of the edits is made.
Makes == ~Waiting /\ Head(plan)[1] \in Edits \cup {"reset"} /\ edits' = edits + 1

LEMMA CountedProceeds ==
  ASSUME Types, Counted, plan # << >>, plan' = Tail(plan), edits' = edits \/ Makes
  PROVE  Counted'
<1>0. edits \in Nat /\ MaxEdits \in Nat /\ edits' \in Nat /\ edits <= edits' /\ edits' <= edits + 1
  <2>1. edits \in Nat
    BY ConstantsAssumption DEF Types
  <2> QED BY <2>1, ConstantsAssumption DEF Makes
<1>1. ASSUME NEW k \in 1..(Len(plan) - 1), plan[k + 1][1] \in Edits \cup {"reset"}
      PROVE  edits' + (Len(plan) - 1) - k < MaxEdits
  <2>0. k \in Nat /\ k >= 1 /\ Len(plan) \in Nat /\ k + 1 \in DOMAIN plan /\ k + 1 # 1 /\ 1 \in DOMAIN plan
    BY FirstStep
  <2>1. edits + Len(plan) - (k + 1) < MaxEdits
    BY <1>1, <2>0 DEF Counted
  <2>2. CASE edits' = edits
    BY <1>0, <2>0, <2>1, <2>2
  <2>3. CASE Makes
    <3>1. edits + Len(plan) - 1 < MaxEdits
      BY <2>0, <2>3, FirstStep DEF Counted, Makes
    <3> QED BY <1>0, <2>0, <3>1
  <2> QED BY <2>2, <2>3
<1> QED BY <1>1, FirstStep DEF Counted

LEMMA CountedStays ==
  ASSUME Types, Counted, plan' = plan, Waiting' \/ ~Waiting, edits' = edits \/ (Makes /\ Waiting')
  PROVE  Counted'
<1>0. edits \in Nat /\ MaxEdits \in Nat /\ edits' \in Nat /\ edits <= edits' /\ edits' <= edits + 1
  <2>1. edits \in Nat
    BY ConstantsAssumption DEF Types
  <2> QED BY <2>1, ConstantsAssumption DEF Makes
<1>1. ASSUME NEW k \in DOMAIN plan, plan[k][1] \in Edits \cup {"reset"}, k = 1 => ~Waiting'
      PROVE  edits' + Len(plan) - k < MaxEdits
  <2>0. plan # << >>
    BY <1>1
  <2>1. k \in Nat /\ k >= 1 /\ Len(plan) \in Nat /\ 1 \in DOMAIN plan
    BY <1>1, <2>0, FirstStep
  <2>2. edits + Len(plan) - k < MaxEdits
    BY <1>1 DEF Counted
  <2>3. CASE edits' = edits
    BY <2>2, <2>3
  <2>4. CASE Makes /\ Waiting'
    <3>1. edits + Len(plan) - 1 < MaxEdits
      BY <2>0, <2>1, <2>4, FirstStep DEF Counted, Makes
    <3>2. k # 1
      BY <1>1, <2>4
    <3> QED BY <1>0, <2>1, <3>1, <3>2
  <2> QED BY <2>3, <2>4
<1> QED BY <1>1 DEF Counted

\* The buffers are kept for what is to be done with them: those that were there
\* are as they were, and a step that is done is.
Preserves ==
  Head(plan)[1] \in {"load", "save", "drop", "store"} =>
    /\ \A p \in resident' : p \in resident \/ Head(plan) = <<"load", p>>
    /\ \A p \in resident \cap resident' : Clean(p) => Clean(p)' \/ <<"save", p>> \in Todo'

Does ==
  /\ Head(plan)[1] # "store"
  /\ \A p \in Paths : /\ Head(plan) = <<"save", p>> => Clean(p)'
                      /\ Head(plan) = <<"drop", p>> => p \notin resident'

LEMMA TodoAgrees ==
  ASSUME Types, PlanAgrees, plan # << >>, resident' \subseteq Paths, Preserves,
         Todo' \subseteq Todo, \A s \in Todo : s \in Todo' \/ (s = Head(plan) /\ Does)
  PROVE  Persisting' /\ \A s \in Todo' : s[1] = "store" => Prepared(s[2])'
<1>0. Head(plan) \in Todo /\ Todo \subseteq Step /\ resident \subseteq Paths
  BY FirstStep DEF Types
<1>1. ASSUME NEW p \in Paths, <<"save", p>> \in Todo PROVE <<"save", p>> \in Todo' \/ Clean(p)'
  BY <1>1 DEF Does
<1>2. ASSUME NEW s \in Todo, s[1] = "store" PROVE s \in Todo'
  BY <1>2 DEF Does
<1>3. ASSUME NEW s \in Todo', s[1] = "save", \A u \in Todo' : u[1] # "store"
      PROVE  /\ \A u \in Todo' : u[1] = "save"
             /\ \A p \in resident' : Clean(p)' \/ <<"save", p>> \in Todo'
  <2>1. \A u \in Todo : u[1] # "store"
    BY <1>2, <1>3
  <2>2. /\ \A u \in Todo : u[1] = "save"
        /\ \A p \in resident : Clean(p) \/ <<"save", p>> \in Todo
    BY <1>3, <2>1 DEF PlanAgrees, Persisting
  <2>3. Head(plan)[1] = "save"
    BY <1>0, <2>2
  <2>4. ASSUME NEW p \in resident' PROVE Clean(p)' \/ <<"save", p>> \in Todo'
    <3>1. p \in resident /\ p \in Paths
      BY <1>0, <2>3, <2>4 DEF Preserves
    <3>2. CASE Clean(p)
      BY <2>3, <2>4, <3>1, <3>2 DEF Preserves
    <3>3. CASE <<"save", p>> \in Todo
      BY <1>1, <3>1, <3>3
    <3> QED BY <2>2, <3>1, <3>2, <3>3
  <2> QED BY <2>2, <2>4
<1>4. ASSUME NEW s \in Todo', s[1] = "store" PROVE Prepared(s[2])'
  <2> DEFINE d == s[2]
  <2>0. s \in Todo /\ s = <<"store", d>>
    BY <1>0, <1>4, StepTyped
  <2>1. Prepared(d)
    BY <1>4, <2>0 DEF PlanAgrees
  <2> HIDE DEF d
  <2>2. /\ Spread(d)
        /\ \A u \in Todo : u = <<"store", d>> \/ u[1] \in {"load", "save", "drop"}
        /\ \A p \in resident \cap Dropped(d) : <<"drop", p>> \in Todo
        /\ \A p \in Paths : <<"load", p>> \in Todo => p \notin Dropped(d) /\ <<"save", p>> \in Todo
        /\ \A p \in (resident \cap Source(d)) \ Dropped(d) : Clean(p) \/ <<"save", p>> \in Todo
    BY <2>1, Zenon DEF Prepared
  <2>3. Head(plan)[1] \in {"load", "save", "drop", "store"}
    BY <1>0, <2>2
  <2>4. /\ \A p \in resident' : p \in resident \/ Head(plan) = <<"load", p>>
        /\ \A p \in resident \cap resident' : Clean(p) => Clean(p)' \/ <<"save", p>> \in Todo'
    BY <2>3 DEF Preserves
  <2>5. \A u \in Todo' : u = <<"store", d>> \/ u[1] \in {"load", "save", "drop"}
    BY <2>2
  <2>6. ASSUME NEW p \in resident' \cap Dropped(d) PROVE <<"drop", p>> \in Todo'
    <3>1. p \in resident
      BY <1>0, <2>2, <2>4, <2>6
    <3>2. <<"drop", p>> \in Todo /\ p \in Paths
      BY <1>0, <2>2, <2>6, <3>1
    <3> QED BY <2>6, <3>2 DEF Does
  <2>7. ASSUME NEW p \in Paths, <<"load", p>> \in Todo
        PROVE  p \notin Dropped(d) /\ <<"save", p>> \in Todo'
    <3>1. p \notin Dropped(d) /\ <<"save", p>> \in Todo
      BY <2>2, <2>7
    <3>2. Head(plan) = <<"load", p>>
      <4>1. PICK i \in DOMAIN plan : plan[i] = <<"load", p>>
        BY <2>7 DEF Todo, ToSet
      <4>2. i = 1
        BY <4>1 DEF PlanAgrees, Ordered
      <4> QED BY <4>1, <4>2, FirstStep
    <3> QED BY <3>1, <3>2
  <2>8. ASSUME NEW p \in (resident' \cap Source(d)) \ Dropped(d)
        PROVE  Clean(p)' \/ <<"save", p>> \in Todo'
    <3>0. p \in Paths
      BY <2>8
    <3>1. CASE Head(plan) = <<"load", p>>
      BY <1>0, <2>7, <3>0, <3>1
    <3>2. CASE p \in resident
      <4>1. CASE Clean(p)
        BY <2>4, <2>8, <3>2, <4>1
      <4>2. CASE <<"save", p>> \in Todo
        BY <1>1, <3>0, <4>2
      <4> QED BY <2>2, <2>8, <3>2, <4>1, <4>2
    <3> QED BY <2>4, <2>8, <3>1, <3>2
  <2>9. /\ Spread(d)
        /\ \A u \in Todo' : u = <<"store", d>> \/ u[1] \in {"load", "save", "drop"}
        /\ \A p \in resident' \cap Dropped(d) : <<"drop", p>> \in Todo'
        /\ \A p \in Paths : <<"load", p>> \in Todo' => p \notin Dropped(d) /\ <<"save", p>> \in Todo'
        /\ \A p \in (resident' \cap Source(d)) \ Dropped(d) : Clean(p)' \/ <<"save", p>> \in Todo'
    BY <2>2, <2>5, <2>6, <2>7, <2>8
  <2>10. Prepared(d)'
    BY <2>9 DEF Prepared
  <2> QED BY <2>10 DEF d
<1> QED BY <1>3, <1>4, Zenon DEF Persisting

\* The call takes its next step.
LEMMA PlanProceeds ==
  ASSUME Types, PlanAgrees, plan # << >>, plan' = Tail(plan), resident' \subseteq Paths,
         \A p \in resident : p \in resident' \/ Head(plan) = <<"drop", p>>,
         Head(plan)[1] = "load" => Path \in resident',
         edits' = edits \/ Makes, Preserves, Does
  PROVE  PlanAgrees'
<1>1. Ordered'
  BY OrderedProceeds DEF PlanAgrees
<1>2. Counted'
  BY CountedProceeds DEF PlanAgrees
<1>3. Todo' \subseteq Todo /\ \A s \in Todo : s \in Todo' \/ (s = Head(plan) /\ Does)
  BY TodoOfTail
<1>4. Persisting' /\ \A s \in Todo' : s[1] = "store" => Prepared(s[2])'
  BY <1>3, TodoAgrees
<1> QED BY <1>1, <1>2, <1>4 DEF PlanAgrees

\* The call awaits, or goes on awaiting.
LEMMA PlanStays ==
  ASSUME Types, PlanAgrees, plan # << >>, plan' = plan, resident' \subseteq Paths,
         \A p \in resident : p \in resident' \/ Head(plan) = <<"drop", p>>,
         Waiting' \/ ~Waiting, edits' = edits \/ (Makes /\ Waiting'), Preserves
  PROVE  PlanAgrees'
<1>1. Ordered'
  BY OrderedStays DEF PlanAgrees
<1>2. Counted'
  BY CountedStays DEF PlanAgrees
<1>3. Todo' = Todo
  BY DEF Todo
<1>4. Persisting' /\ \A s \in Todo' : s[1] = "store" => Prepared(s[2])'
  BY <1>3, TodoAgrees
<1> QED BY <1>1, <1>2, <1>4 DEF PlanAgrees

\* There is no call.
LEMMA PlanEnds ==
  ASSUME plan' = << >>
  PROVE  PlanAgrees'
<1>1. DOMAIN plan' = {} /\ Todo' = {}
  BY DEF Todo, ToSet
<1>2. Ordered' /\ Counted'
  BY <1>1 DEF Ordered, Counted
<1> QED BY <1>1, <1>2 DEF PlanAgrees, Persisting

-----------------------------------------------------------------------------
(* The buffers.                                                            *)

LEMMA QueueTyped ==
  ASSUME Types
  PROVE  /\ queue \in Seq(Entries(edits)) /\ Len(queue) \in Nat /\ DOMAIN queue = 1..Len(queue)
         /\ store \in Trees(edits) /\ edits \in Nat
BY ConstantsAssumption DEF Types

LEMMA KeepEffect ==
  ASSUME Types, NEW n \in Nat, edits <= n, NEW p \in Paths, NEW file \in Buffers(n), file_map' = Keep(p, file)
  PROVE  /\ resident' = resident \cup {p} /\ resident' \subseteq Paths
         /\ file_map' \in [resident' -> Buffers(n)]
         /\ file_map'[p] = file /\ \A q \in resident : q # p => file_map'[q] = file_map[q]
<1>1. file_map' = [q \in resident \cup {p} |-> IF q = p THEN file ELSE file_map[q]]
  BY DEF Keep
<1>2. resident' = resident \cup {p}
  BY <1>1 DEF resident
<1>3. Buffers(edits) \subseteq Buffers(n)
  BY ConstantsAssumption, BuffersGrow DEF Types
<1>4. \A q \in resident : file_map[q] \in Buffers(n)
  BY <1>3 DEF Types
<1> QED BY <1>1, <1>2, <1>4 DEF Types

LEMMA EvictedEffect ==
  ASSUME Types, NEW ps, file_map' = Evicted(ps)
  PROVE  /\ resident' = resident \ ps /\ resident' \subseteq Paths
         /\ file_map' \in [resident' -> Buffers(edits)]
         /\ \A q \in resident' : file_map'[q] = file_map[q]
<1>1. file_map' = [q \in resident \ ps |-> file_map[q]]
  BY DEF Evicted
<1>2. resident' = resident \ ps
  BY <1>1 DEF resident
<1> QED BY <1>1, <1>2 DEF Types

LEMMA BufferTyped ==
  ASSUME Types, NEW p \in resident
  PROVE  /\ p \in Paths /\ edits \in Nat
         /\ file_map[p].text \in TextsUpTo(edits) /\ file_map[p].text \in Texts
         /\ file_map[p].text # NoFile
         /\ file_map[p].ops_since_save \in Nat
<1>1. edits \in Nat
  BY ConstantsAssumption DEF Types
<1>2. p \in Paths /\ file_map[p] \in Buffers(edits)
  BY DEF Types
<1>3. file_map[p].text \in TextsUpTo(edits) /\ file_map[p].ops_since_save \in Nat
  BY <1>1, <1>2 DEF Buffers
<1> QED BY <1>1, <1>2, <1>3, TextsAreTexts

\* A buffer stays as sound as it was.
LEMMA SoundStays ==
  ASSUME NEW p, Sound(p), file_map'[p] = file_map[p], Settled'[p] = Settled[p],
         p \in atRisk \ InFlight => p \in (atRisk \ InFlight)'
  PROVE  Sound(p)'
BY DEF Sound

\* A buffer whose text is what will be stored is sound.
LEMMA SoundWhenStored ==
  ASSUME Types', NEW p \in resident', Settled'[p] = file_map'[p].text
  PROVE  Sound(p)'
<1>1. file_map'[p].text \in Texts /\ file_map'[p].ops_since_save \in Nat
  <2>1. edits' \in Nat
    BY ConstantsAssumption DEF Types
  <2>2. file_map'[p] \in Buffers(edits')
    BY DEF Types
  <2> QED BY <2>1, <2>2, TextsAreTexts DEF Buffers
<1>2. Behind(Settled'[p], file_map'[p].text, file_map'[p].ops_since_save)
  BY <1>1, BehindSelf
<1> QED BY <1>2 DEF Sound

-----------------------------------------------------------------------------
(* What is awaited.                                                        *)

\* Nothing is awaited, so no operation is under way.
LEMMA NothingAwaited ==
  ASSUME QueueAgrees, CallsAgree, ~Waiting
  PROVE  /\ \A i \in DOMAIN queue : queue[i].owner = Gone
         /\ \A c \in Callers : call[c] = Idle
<1>1. \A i \in DOMAIN queue : queue[i].owner = Gone
  BY DEF Waiting
<1>2. \A c \in Callers : c # Gone
  BY ConstantsAssumption
<1> QED BY <1>1, <1>2 DEF CallsAgree

\* The one that is awaited is the last, and leaves the others alone.
LEMMA AwaitedLeaves ==
  ASSUME Types, QueueAgrees, NEW i \in DOMAIN queue, queue[i].owner # Gone, queue' = RemoveAt(queue, i)
  PROVE  /\ i = Len(queue) /\ plan # << >>
         /\ DOMAIN queue' = 1..(Len(queue) - 1)
         /\ \A k \in DOMAIN queue' : k \in DOMAIN queue /\ queue'[k] = queue[k] /\ queue'[k].owner = Gone
         /\ QueueAgrees' /\ ~Waiting'
<1>1. i = Len(queue) /\ plan # << >> /\ Len(queue) \in Nat /\ DOMAIN queue = 1..Len(queue)
  BY DEF QueueAgrees, Types
<1>2. /\ DOMAIN queue' = 1..(Len(queue) - 1)
      /\ \A k \in 1..(Len(queue) - 1) : queue'[k] = IF k < i THEN queue[k] ELSE queue[k + 1]
  BY RemoveEffect
<1>3. \A k \in 1..(Len(queue) - 1) : k \in DOMAIN queue /\ k # Len(queue) /\ k < i
  BY <1>1
<1>4. \A k \in DOMAIN queue : k # Len(queue) => queue[k].owner = Gone
  BY DEF QueueAgrees
<1>5. \A k \in DOMAIN queue' : k \in DOMAIN queue /\ queue'[k] = queue[k] /\ queue'[k].owner = Gone
  BY <1>2, <1>3, <1>4
<1>6. \A k \in DOMAIN queue' : queue'[k].owner = Gone
  BY <1>5
<1>7. QueueAgrees' /\ ~Waiting'
  BY <1>6 DEF QueueAgrees, Waiting
<1> QED BY <1>1, <1>2, <1>5, <1>7

\* The guard's call opens a transaction and awaits it.
LEMMA GuardOpens ==
  ASSUME Types, QueueAgrees, CallsAgree, ~Waiting, plan # << >>, plan' = plan, call' = call,
         NEW n \in Nat, NEW requests \in Requested(n), Open(Guard, requests), GuardAwaits(requests)'
  PROVE  QueueAgrees' /\ CallsAgree' /\ Waiting'
<1>0. Guard # Gone /\ Guard \notin Callers
  BY ConstantsAssumption
<1>1. /\ Len(queue') = Len(queue) + 1 /\ DOMAIN queue' = 1..(Len(queue) + 1)
      /\ \A i \in DOMAIN queue : queue'[i] = queue[i]
      /\ queue'[Len(queue) + 1] = Transaction(Guard, requests)
      /\ DOMAIN queue = 1..Len(queue) /\ Len(queue) \in Nat
  BY OpenEffect, QueueTyped
<1>2. queue'[Len(queue')].owner = Guard /\ queue'[Len(queue')].requests = requests /\ Len(queue') \in DOMAIN queue'
  BY <1>1 DEF Transaction
<1>3. \A i \in DOMAIN queue' : queue'[i].owner # Gone => i = Len(queue')
  BY <1>1, NothingAwaited
<1>4. Waiting'
  BY <1>0, <1>2 DEF Waiting
<1>5. QueueAgrees'
  BY <1>0, <1>2, <1>3 DEF QueueAgrees
<1>6. CallsAgree'
  BY NothingAwaited DEF CallsAgree
<1> QED BY <1>4, <1>5, <1>6

\* The awaited read has been answered: nothing is to be written, before or after.
LEMMA ReadDone ==
  ASSUME Types, QueueAgrees, NEW i \in DOMAIN queue, queue[i].owner # Gone, Served(i, queue[i].owner),
         queue[i].requests = << >>, NEW answer \in Answers(i), Answer(i, answer, << >>)
  PROVE  /\ Reads(Len(queue)) /\ store' = store /\ queue' = RemoveAt(queue, i)
         /\ faults' \in 0..MaxFaults /\ answer \in {"ok", "error"}
         /\ InFlight = {} /\ InFlight' = {} /\ Settled = store /\ Settled' = store
<1>1. Len(queue) \in Nat /\ DOMAIN queue = 1..Len(queue) /\ i = Len(queue) /\ edits \in Nat
  BY ConstantsAssumption DEF Types, QueueAgrees
<1>2. Reads(Len(queue))
  <2>1. CASE i = 1
    BY <1>1, <2>1 DEF Reads
  <2>2. CASE i # 1
    BY <1>1, <2>2 DEF Served, Reads
  <2> QED BY <2>1, <2>2
<1>3. queue' = RemoveAt(queue, i)
  BY DEF Answer
<1>4. store' = store
  <2>1. Committed(store, << >>) = store
    BY CommitsNone DEF Types, Trees
  <2> QED BY <2>1 DEF Answer
<1>5. faults' \in 0..MaxFaults /\ answer \in {"ok", "error"}
  <2>1. faults \in 0..MaxFaults /\ MaxFaults \in Nat
    BY StoreAssumption DEF Types
  <2> QED BY <2>1 DEF Answer, Answers
<1>6. InFlight = {} /\ Settled = store /\ \A p \in Paths : Writes(p) = {}
  BY <1>2, NothingInFlight
<1>7. \A k \in DOMAIN queue' : queue'[k].requests = << >>
  BY <1>1, <1>2, <1>3, AwaitedLeaves DEF Reads
<1>8. \A k \in DOMAIN queue' : Concerns(queue'[k].requests) = {}
  BY <1>7, ConcernsNone
<1>9. InFlight' = UNION {Concerns(queue'[k].requests) : k \in DOMAIN queue'}
  BY DEF InFlight, Concerns
<1>10. \A p \in Paths : Writes(p)' = {}
  <2>1. \A p \in Paths : Writes(p)' = {k \in DOMAIN queue' : queue'[k].owner \notin Callers
                                                             /\ p \in Concerns(queue'[k].requests)}
    BY DEF Writes, Concerns
  <2> QED BY <1>8, <2>1
<1>11. Settled' = store
  <2>1. Settled' = [p \in Paths |-> IF Writes(p)' = {} THEN store'[p]
                                   ELSE Committed(store', queue'[Max(Writes(p)')].requests)[p]]
    BY DEF Settled, Writes, Concerns, Committed
  <2>2. Settled' = [p \in Paths |-> store[p]]
    BY <1>4, <1>10, <2>1
  <2> QED BY <2>2 DEF Types, Trees
<1> QED BY <1>2, <1>3, <1>4, <1>5, <1>6, <1>8, <1>9, <1>11

\* The awaited write has been answered: it was the only one, and it has been
\* put there wholly or not at all.
LEMMA WriteDone ==
  ASSUME Types, QueueAgrees, 1 \in DOMAIN queue, queue[1].owner # Gone,
         NEW answer \in Answers(1), Answer(1, answer, << >>)
  PROVE  /\ Len(queue) = 1 /\ queue' = RemoveAt(queue, 1)
         /\ store' \in Trees(edits) /\ faults' \in 0..MaxFaults
         /\ answer = "ok" => store' = Committed(store, queue[1].requests) /\ faults' = faults
         /\ answer # "ok" => store' = store /\ faults' # faults
         /\ InFlight = Concerns(queue[1].requests) /\ InFlight' = {} /\ Settled' = store'
<1>1. Len(queue) = 1 /\ DOMAIN queue = {1} /\ edits \in Nat
  <2>1. Len(queue) = 1
    BY DEF QueueAgrees
  <2> QED BY <2>1, QueueTyped
<1>2. queue' = RemoveAt(queue, 1)
  BY DEF Answer
<1>3. queue[1].requests \in Requested(edits) /\ store \in Trees(edits)
  BY EntryTyped DEF Types
<1>4. Committed(store, queue[1].requests) \in Trees(edits)
  <2> DEFINE r == queue[1].requests
  <2>1. r \in Requested(edits)
    BY <1>3
  <2> HIDE DEF r
  <2>2. \A p \in Paths : Committed(store, r) \in Trees(edits)
    BY <1>1, <1>3, <2>1, KeptThere
  <2>3. Committed(store, r) \in Trees(edits)
    <3>1. CASE Paths = {}
      BY <3>1 DEF Committed, Trees
    <3> QED BY <2>2, <3>1
  <2> QED BY <2>3 DEF r
<1>5. /\ store' \in Trees(edits)
      /\ answer = "ok" => store' = Committed(store, queue[1].requests) /\ faults' = faults
      /\ answer # "ok" => store' = store /\ faults' = faults + 1 /\ faults # MaxFaults
  BY <1>3, <1>4 DEF Answer, Answers
<1>6. faults' \in 0..MaxFaults /\ (answer # "ok" => faults' # faults)
  <2>1. faults \in 0..MaxFaults /\ MaxFaults \in Nat
    BY StoreAssumption DEF Types
  <2> QED BY <1>5, <2>1
<1>7. DOMAIN queue' = {}
  <2>1. DOMAIN queue' = 1..(Len(queue) - 1)
    BY <1>2, AwaitedLeaves
  <2> QED BY <1>1, <2>1
<1>8. InFlight = Concerns(queue[1].requests) /\ InFlight' = {}
  BY <1>1, <1>7 DEF InFlight
<1>9. Settled' = store'
  <2>1. \A p \in Paths : Writes(p)' = {}
    BY <1>7 DEF Writes
  <2>2. Settled' = [p \in Paths |-> IF Writes(p)' = {} THEN store'[p]
                                   ELSE Committed(store', queue'[Max(Writes(p)')].requests)[p]]
    BY DEF Settled, Writes, Concerns, Committed
  <2>3. Settled' = [p \in Paths |-> store'[p]]
    BY <2>1, <2>2
  <2> QED BY <1>5, <2>3 DEF Trees
<1> QED BY <1>1, <1>2, <1>5, <1>6, <1>8, <1>9

-----------------------------------------------------------------------------
(* Steps of the call in progress.                                          *)

LEMMA SameStore ==
  ASSUME store' = store, queue' = queue
  PROVE  Settled' = Settled /\ InFlight' = InFlight
BY DEF Settled, Writes, Concerns, Committed, InFlight

\* A step that the session does not see.
Quiet == UNCHANGED <<Contents, lapses, discards>>

LEMMA SameContents ==
  ASSUME file_map' = file_map, \A p \in Paths : p \notin resident => Settled'[p] = Settled[p]
  PROVE  Contents' = Contents
<1>1. resident' = resident
  BY DEF resident
<1> QED BY <1>1 DEF Contents

LEMMA IdleQueue ==
  ASSUME QueueAgrees, CallsAgree, ~Waiting, queue' = queue, call' = call
  PROVE  QueueAgrees' /\ CallsAgree' /\ ~Waiting'
<1>1. /\ \A i \in DOMAIN queue' : queue'[i].owner = Gone
      /\ \A c \in Callers : call'[c] = Idle
  BY NothingAwaited
<1> QED BY <1>1 DEF QueueAgrees, CallsAgree, Waiting

\* An entry more, of what texts there are.
LEMMA OpenTyped ==
  ASSUME Types, NEW n \in Nat, edits <= n, NEW owner \in Callers \cup {Guard, Gone},
         NEW requests \in Requested(n), Open(owner, requests)
  PROVE  queue' \in Seq(Entries(n))
<1>1. queue \in Seq(Entries(n))
  BY QueueTyped, BuffersGrow
<1>2. Transaction(owner, requests) \in Entries(n)
  BY DEF Transaction, Entries, Requested
<1> HIDE DEF Entries
<1> QED BY <1>1, <1>2 DEF Open

LEMMA NoRequest ==
  ASSUME NEW n \in Nat
  PROVE  << >> \in Requested(n)
BY DEF Requested

LEMMA OneRequest ==
  ASSUME NEW n \in Nat, NEW p \in Paths, NEW text \in TextsUpTo(n)
  PROVE  Put(p, text) \in Requested(n)
<1>1. <<p, text>> \in Paths \X (TextsUpTo(n) \cup {NoFile})
  OBVIOUS
<1> QED BY <1>1 DEF Put, Requested

LEMMA ReadInv ==
  ASSUME IInv, Read
  PROVE  IInv' /\ Quiet
<1>0. Types /\ QueueAgrees /\ CallsAgree /\ PlanAgrees /\ BuffersSound
  BY DEF IInv
<1>1. /\ plan # << >> /\ ~Waiting /\ Head(plan)[1] \in {"load", "add", "probe"}
      /\ UNCHANGED <<store, call, faults, file_map, edits, cancels, atRisk, lapses, discards>>
  BY DEF Read, At
<1>2. resident' = resident /\ resident' \subseteq Paths
  <2>1. resident' = resident
    BY <1>1 DEF resident
  <2> QED BY <1>0, <2>1 DEF Types
<1>3. CASE Path \in resident /\ Head(plan)[1] # "add"
  <2>1. /\ plan' = << >> \/ (plan' = Tail(plan) /\ Head(plan)[1] = "load")
        /\ queue' = queue
    BY <1>1, <1>3 DEF Read, Return, Proceed
  <2>2. Settled' = Settled /\ InFlight' = InFlight
    BY <1>1, <2>1, SameStore
  <2>3. \A p : Clean(p) => Clean(p)'
    BY <1>1, <2>2 DEF Clean
  <2>4. QueueAgrees' /\ CallsAgree'
    BY <1>0, <1>1, <2>1, IdleQueue
  <2>5. PlanAgrees'
    <3>1. CASE plan' = << >>
      BY <3>1, PlanEnds
    <3>2. CASE plan' = Tail(plan) /\ Head(plan)[1] = "load"
      <4>1. Preserves /\ Does
        BY <1>2, <2>3, <3>2 DEF Preserves, Does
      <4> QED BY <1>0, <1>1, <1>2, <1>3, <3>2, <4>1, PlanProceeds
    <3> QED BY <2>1, <3>1, <3>2
  <2>6. BuffersSound'
    BY <1>0, <1>1, <1>2, <2>2 DEF BuffersSound, Sound
  <2>7. Types'
    <3>1. plan' \in Seq(Step)
      <4>1. << >> \in Seq(Step) /\ Tail(plan) \in Seq(Step)
        BY <1>0, <1>1, FirstStep
      <4> QED BY <2>1, <4>1
    <3> QED BY <1>0, <1>1, <1>2, <2>1, <3>1 DEF Types
  <2>8. Contents' = Contents
    BY <1>1, <2>2, SameContents
  <2> QED BY <1>1, <2>4, <2>5, <2>6, <2>7, <2>8 DEF IInv, Quiet
<1>4. CASE ~(Path \in resident /\ Head(plan)[1] # "add")
  <2>1. Open(Guard, << >>) /\ plan' = plan
    BY <1>1, <1>4 DEF Read
  <2>2. << >> \in Requested(edits) /\ edits \in Nat
    BY <1>0, NoRequest, QueueTyped
  <2>3. \A p \in Paths : Settled'[p] = Settled[p]
    BY <1>0, <1>1, <2>1, <2>2, OpenSettles, ConcernsNone
  <2>4. InFlight' = InFlight
    BY <1>0, <2>1, <2>2, OpenEffect, ConcernsNone
  <2>5. \A p : Clean(p) => Clean(p)'
    BY <1>1, <2>4 DEF Clean
  <2>6. GuardAwaits(<< >>)'
    BY <1>1, <2>1 DEF GuardAwaits, Awaits
  <2>7. QueueAgrees' /\ CallsAgree' /\ Waiting'
    BY <1>0, <1>1, <2>1, <2>2, <2>6, GuardOpens
  <2>8. PlanAgrees'
    <3>1. Preserves
      BY <1>2, <2>5 DEF Preserves
    <3> QED BY <1>0, <1>1, <1>2, <2>1, <2>7, <3>1, PlanStays
  <2>9. BuffersSound'
    <3>1. ASSUME NEW p \in resident' PROVE Sound(p)'
      BY <1>0, <1>1, <1>2, <2>3, <2>4, <3>1, SoundStays DEF BuffersSound
    <3> QED BY <3>1 DEF BuffersSound
  <2>10. Types'
    <3>1. queue' \in Seq(Entries(edits))
      BY <1>0, <2>1, <2>2, OpenTyped
    <3> QED BY <1>0, <1>1, <1>2, <2>1, <3>1 DEF Types
  <2>11. Contents' = Contents
    BY <1>1, <2>3, SameContents
  <2> QED BY <1>1, <2>7, <2>8, <2>9, <2>10, <2>11 DEF IInv, Quiet
<1> QED BY <1>3, <1>4

\* The guard's call opens the save of a text.
LEMMA GuardPuts ==
  ASSUME Types, NEW n \in Nat, edits <= n, NEW p \in Paths, NEW text \in TextsUpTo(n),
         Open(Guard, Put(p, text)), store' = store
  PROVE  /\ Settled'[p] = text /\ \A q \in Paths : q # p => Settled'[q] = Settled[q]
         /\ InFlight' = InFlight \cup {p} /\ queue' \in Seq(Entries(n))
         /\ Put(p, text) \in Requested(n) /\ Concerns(Put(p, text)) = {p}
<1> DEFINE requests == Put(p, text)
<1>1. requests \in Requested(n) /\ Concerns(requests) = {p} /\ ToSet(requests) = {<<p, text>>}
  BY OneRequest, ConcernsOne DEF Put, ToSet
<1>2. Open(Guard, requests) /\ Guard \notin Callers
  BY ConstantsAssumption
<1> HIDE DEF requests
<1>3. \A q \in Paths : Settled'[q] = IF q = p THEN Committed(store, requests)[q] ELSE Settled[q]
  BY <1>1, <1>2, OpenSettles
<1>4. Committed(store, requests)[p] = text
  <2>1. store \in Trees(n)
    BY QueueTyped, BuffersGrow
  <2>2. \E r \in ToSet(requests) : r[1] = p /\ Committed(store, requests)[p] = r[2]
    BY <1>1, <2>1, PutThere
  <2> QED BY <1>1, <2>2
<1>5. InFlight' = InFlight \cup {p}
  BY <1>1, <1>2, OpenEffect
<1>6. queue' \in Seq(Entries(n))
  BY <1>1, <1>2, OpenTyped
<1> QED BY <1>1, <1>3, <1>4, <1>5, <1>6 DEF requests

LEMMA SaveInv ==
  ASSUME IInv, Save
  PROVE  IInv' /\ Quiet
<1>0. Types /\ QueueAgrees /\ CallsAgree /\ PlanAgrees /\ BuffersSound
  BY DEF IInv
<1>1. /\ plan # << >> /\ ~Waiting /\ Head(plan)[1] = "save"
      /\ Open(Guard, Put(Path, file_map[Path].text))
      /\ UNCHANGED <<store, call, faults, file_map, plan, edits, cancels, atRisk, lapses, discards>>
  BY DEF Save, At
<1>2. resident' = resident /\ resident' \subseteq Paths
  <2>1. resident' = resident
    BY <1>1 DEF resident
  <2> QED BY <1>0, <2>1 DEF Types
<1>3. Path \in resident /\ Path \in Paths /\ Head(plan) = <<"save", Path>>
  <2>1. Head(plan) \in Step /\ Head(plan) = plan[1] /\ 1 \in DOMAIN plan
    BY <1>0, <1>1, FirstStep
  <2>2. Path \in resident
    BY <1>0, <1>1, <2>1 DEF PlanAgrees, Ordered, Path
  <2> QED BY <1>1, <1>2, <2>1, <2>2, StepTyped DEF Path
<1> PICK text : text = file_map[Path].text
  OBVIOUS
<1> PICK requests : requests = Put(Path, text)
  OBVIOUS
<1>4. text \in TextsUpTo(edits) /\ edits \in Nat
  BY <1>0, <1>3, BufferTyped
<1>6. Open(Guard, requests)
  BY <1>1
<1>7. /\ Settled'[Path] = text
      /\ \A p \in Paths : p # Path => Settled'[p] = Settled[p]
      /\ InFlight' = InFlight \cup {Path} /\ queue' \in Seq(Entries(edits))
      /\ requests \in Requested(edits)
  BY <1>0, <1>1, <1>3, <1>4, <1>6, GuardPuts
<1>9. GuardAwaits(requests)'
  BY <1>1, <1>2, <1>3 DEF GuardAwaits, Awaits, Path
<1>10. QueueAgrees' /\ CallsAgree' /\ Waiting'
  BY <1>0, <1>1, <1>4, <1>6, <1>7, <1>9, GuardOpens
<1>11. PlanAgrees'
  <2>1. \A p \in resident : p # Path /\ Clean(p) => Clean(p)'
    BY <1>1, <1>7 DEF Clean
  <2>2. <<"save", Path>> \in Todo'
    BY <1>0, <1>1, <1>3, FirstStep DEF Todo
  <2>3. Preserves
    BY <1>2, <2>1, <2>2 DEF Preserves
  <2> QED BY <1>0, <1>1, <1>2, <1>10, <2>3, PlanStays
<1>12. Types'
  BY <1>0, <1>1, <1>2, <1>7 DEF Types
<1>13. BuffersSound'
  <2>1. ASSUME NEW p \in resident' PROVE Sound(p)'
    <3>1. CASE p = Path
      BY <1>1, <1>2, <1>7, <1>12, <3>1, SoundWhenStored
    <3>2. CASE p # Path
      BY <1>0, <1>1, <1>2, <1>7, <3>2, SoundStays DEF BuffersSound
    <3> QED BY <3>1, <3>2
  <2> QED BY <2>1 DEF BuffersSound
<1>14. IInv'
  BY <1>10, <1>11, <1>12, <1>13 DEF IInv
<1>15. Contents' = Contents
  BY <1>1, <1>3, <1>7, SameContents
<1> QED BY <1>1, <1>14, <1>15 DEF Quiet

\* The buffer that an edit makes of the one there is.
EditOf(file, e) ==
  LET step == Head(plan)[1] old == file_map[Path]
  IN /\ step = "reset" => file = [text |-> <<e>>, ops_since_save |-> 0]
     /\ step # "reset" => file.text = Append(old.text, e)
     /\ step = "char" => file = [text |-> file.text, ops_since_save |-> old.ops_since_save + 1]
     /\ step \in {"run", "remote"} => file = [text |-> file.text, ops_since_save |-> old.ops_since_save]
     /\ e[2] = IF step = "remote" THEN "remote" ELSE "local"

LEMMA EditMakes ==
  ASSUME IInv, Edit
  PROVE  /\ Makes /\ plan # << >> /\ Path \in Paths /\ Head(plan) = <<Head(plan)[1], Path>>
         /\ Head(plan)[1] # "reset" => Path \in resident
         /\ edits' \in 0..MaxEdits /\ edits \in Nat
         /\ UNCHANGED <<store, call, faults, cancels, atRisk, lapses, discards>>
         /\ \E file \in Buffers(edits + 1), e \in {edits + 1} \X Origins :
              /\ file_map' = Keep(Path, file) /\ EditOf(file, e)
              /\ \/ /\ Open(Guard, Put(Path, file.text)) /\ plan' = plan
                    /\ Head(plan)[1] \in {"char", "run", "reset"}
                 \/ /\ plan' = Tail(plan) /\ queue' = queue /\ Head(plan)[1] \in {"char", "remote"}
                    /\ Head(plan)[1] = "char" => file.ops_since_save < SAVE_THRESHOLD
<1>0. Types /\ PlanAgrees
  BY DEF IInv
<1>1. /\ plan # << >> /\ ~Waiting /\ Head(plan)[1] \in {"char", "run", "remote", "reset"}
      /\ edits' = edits + 1
      /\ UNCHANGED <<store, call, faults, cancels, atRisk, lapses, discards>>
  BY DEF Edit, At
<1>2. Makes
  BY <1>1 DEF Makes, Edits
<1>3. /\ Head(plan) \in Step /\ Head(plan) = plan[1] /\ 1 \in DOMAIN plan /\ Len(plan) \in Nat /\ Len(plan) >= 1
  BY <1>0, <1>1, FirstStep
<1>4. Path \in Paths /\ Head(plan) = <<Head(plan)[1], Path>>
  BY <1>1, <1>3, StepTyped DEF Path
<1>5. Head(plan)[1] # "reset" => Path \in resident
  BY <1>0, <1>1, <1>3 DEF PlanAgrees, Ordered, Edits, Path
<1>6. edits' \in 0..MaxEdits /\ edits \in Nat
  <2>1. edits \in Nat /\ MaxEdits \in Nat
    BY <1>0, ConstantsAssumption, QueueTyped
  <2>2. edits + Len(plan) - 1 < MaxEdits
    BY <1>0, <1>1, <1>3 DEF PlanAgrees, Counted, Edits
  <2> QED BY <1>1, <1>3, <2>1, <2>2
<1>s. PICK step : step = Head(plan)[1]
  OBVIOUS
<1>o. PICK old : old = IF Path \in resident THEN file_map[Path] ELSE from_string(<< >>)
  OBVIOUS
<1>e. PICK e : e = <<edits + 1, IF step = "remote" THEN "remote" ELSE "local">>
  OBVIOUS
<1>f. PICK file : file = Edited(step, old, e)
  OBVIOUS
<1>7. /\ file_map' = Keep(Path, file)
      /\ IF MustSave(step, file) THEN Open(Guard, Put(Path, file.text)) /\ plan' = plan
                                 ELSE plan' = Tail(plan) /\ queue' = queue
  BY <1>s, <1>o, <1>e, <1>f DEF Edit, Proceed
<1>8. e \in {edits + 1} \X Origins /\ e[2] = IF step = "remote" THEN "remote" ELSE "local"
  BY <1>e DEF Origins
<1>9. /\ step = "reset" => file = [text |-> <<e>>, ops_since_save |-> 0]
      /\ step = "char"  => file = [text |-> Append(old.text, e), ops_since_save |-> old.ops_since_save + 1]
      /\ step \in {"run", "remote"} => file = [old EXCEPT !.text = Append(old.text, e)]
  BY <1>1, <1>s, <1>f DEF Edited, from_string
<1>10. step # "reset" =>
         /\ old = file_map[Path] /\ old.text \in TextsUpTo(edits) /\ old.ops_since_save \in 0..edits
         /\ old = [text |-> old.text, ops_since_save |-> old.ops_since_save]
  BY <1>0, <1>5, <1>s, <1>o DEF Types, Buffers
<1>11. EditOf(file, e)
  <2>1. CASE step = "reset"
    BY <1>8, <1>9, <1>s, <2>1 DEF EditOf
  <2>2. CASE step = "char"
    <3>1. file = [text |-> Append(old.text, e), ops_since_save |-> old.ops_since_save + 1]
      BY <1>9, <2>2
    <3>2. /\ file.text = Append(old.text, e) /\ old = file_map[Path]
          /\ file = [text |-> file.text, ops_since_save |-> old.ops_since_save + 1]
      <4>1. old = file_map[Path]
        BY <1>10, <2>2
      <4>2. file.text = Append(old.text, e)
        BY <3>1
      <4> QED BY <3>1, <4>1, <4>2, Zenon
    <3>3. e[2] = "local" /\ Head(plan)[1] = "char"
      BY <1>8, <1>s, <2>2
    <3> QED BY <3>2, <3>3 DEF EditOf
  <2>3. CASE step \in {"run", "remote"}
    <3>1. file = [text |-> Append(old.text, e), ops_since_save |-> old.ops_since_save]
      BY <1>9, <1>10, <2>3
    <3>2. /\ file.text = Append(old.text, e) /\ old = file_map[Path]
          /\ file = [text |-> file.text, ops_since_save |-> old.ops_since_save]
      <4>1. old = file_map[Path]
        BY <1>10, <2>3
      <4>2. file.text = Append(old.text, e)
        BY <3>1
      <4> QED BY <3>1, <4>1, <4>2, Zenon
    <3>3. e[2] = (IF step = "remote" THEN "remote" ELSE "local") /\ Head(plan)[1] = step
      BY <1>8, <1>s
    <3> QED BY <2>3, <3>2, <3>3 DEF EditOf
  <2> QED BY <1>1, <1>s, <2>1, <2>2, <2>3
<1>12. <<e>> \in TextsUpTo(edits + 1) /\ \A t \in TextsUpTo(edits) : Append(t, e) \in TextsUpTo(edits + 1)
  <2>1. \A t \in TextsUpTo(edits) : Append(t, e) \in TextsUpTo(edits + 1)
    BY <1>6, <1>e, TextTyped DEF Origins
  <2>2. << >> \in TextsUpTo(edits) /\ Append(<< >>, e) = <<e>>
    BY DEF TextsUpTo
  <2> QED BY <2>1, <2>2
<1>13. file \in Buffers(edits + 1)
  <2>1. CASE step = "reset"
    <3>1. 0 \in 0..(edits + 1)
      BY <1>6
    <3> QED BY <1>9, <1>12, <2>1, <3>1 DEF Buffers
  <2>2. CASE step # "reset"
    <3>1. file.text \in TextsUpTo(edits + 1)
      BY <1>10, <1>11, <1>12, <1>s, <2>2 DEF EditOf
    <3>2. file = [text |-> file.text, ops_since_save |-> file.ops_since_save]
          /\ file.ops_since_save \in 0..(edits + 1)
      BY <1>1, <1>6, <1>10, <1>11, <1>s, <2>2 DEF EditOf
    <3> QED BY <3>1, <3>2 DEF Buffers
  <2> QED BY <2>1, <2>2
<1>14. \/ /\ Open(Guard, Put(Path, file.text)) /\ plan' = plan
          /\ step \in {"char", "run", "reset"}
       \/ /\ plan' = Tail(plan) /\ queue' = queue /\ step \in {"char", "remote"}
          /\ step = "char" => file.ops_since_save < SAVE_THRESHOLD
  <2>1. CASE MustSave(step, file)
    BY <1>7, <1>s, <1>1, <2>1 DEF MustSave
  <2>2. CASE ~MustSave(step, file)
    <3>1. step \in {"char", "remote"} /\ (step = "char" => ~(file.ops_since_save >= SAVE_THRESHOLD))
      BY <1>1, <1>s, <2>2 DEF MustSave
    <3>2. file.ops_since_save \in Nat /\ SAVE_THRESHOLD \in Nat
      BY <1>6, <1>13, ConstantsAssumption DEF Buffers
    <3> QED BY <1>7, <2>2, <3>1, <3>2
  <2> QED BY <2>1, <2>2
<1> QED BY <1>1, <1>2, <1>4, <1>5, <1>6, <1>7, <1>8, <1>11, <1>13, <1>14, <1>s

\* What an edit does to the session: one text is edited, however it is saved.
EditedIn(file) ==
  /\ resident' = resident \cup {Path} /\ file_map'[Path] = file
  /\ \A p \in resident : p # Path => file_map'[p] = file_map[p]
  /\ \A p \in Paths : p # Path => Settled'[p] = Settled[p]

LEMMA EditInv ==
  ASSUME IInv, Edit
  PROVE  /\ IInv'
         /\ \E file \in Buffers(edits + 1), e \in {edits + 1} \X Origins : EditedIn(file) /\ EditOf(file, e)
<1>0. Types /\ QueueAgrees /\ CallsAgree /\ PlanAgrees /\ BuffersSound
  BY DEF IInv
<1>1. /\ Makes /\ plan # << >> /\ Path \in Paths /\ Head(plan) = <<Head(plan)[1], Path>>
      /\ Head(plan)[1] # "reset" => Path \in resident
      /\ edits' \in 0..MaxEdits /\ edits \in Nat
      /\ UNCHANGED <<store, call, faults, cancels, atRisk, lapses, discards>>
  BY EditMakes
<1>2. PICK file \in Buffers(edits + 1), e \in {edits + 1} \X Origins :
         /\ file_map' = Keep(Path, file) /\ EditOf(file, e)
         /\ \/ /\ Open(Guard, Put(Path, file.text)) /\ plan' = plan
               /\ Head(plan)[1] \in {"char", "run", "reset"}
            \/ /\ plan' = Tail(plan) /\ queue' = queue /\ Head(plan)[1] \in {"char", "remote"}
               /\ Head(plan)[1] = "char" => file.ops_since_save < SAVE_THRESHOLD
  BY EditMakes
<1>3. ~Waiting /\ edits' = edits + 1 /\ edits + 1 \in Nat /\ edits <= edits + 1
      /\ Head(plan)[1] \in Edits \cup {"reset"}
  BY <1>1 DEF Makes
<1>4. /\ resident' = resident \cup {Path} /\ resident' \subseteq Paths
      /\ file_map' \in [resident' -> Buffers(edits + 1)]
      /\ file_map'[Path] = file /\ \A q \in resident : q # Path => file_map'[q] = file_map[q]
  BY <1>0, <1>1, <1>2, <1>3, KeepEffect
<1>5. store \in Trees(edits + 1) /\ Seq(Entries(edits)) \subseteq Seq(Entries(edits + 1))
  BY <1>0, <1>3, BuffersGrow, QueueTyped
<1>6. Preserves /\ Does
  <2>1. Head(plan)[1] \notin {"load", "save", "drop", "store"}
    BY <1>3 DEF Edits
  <2> QED BY <1>1, <2>1 DEF Preserves, Does
<1> PICK text : text = file.text
  OBVIOUS
<1>7. text \in TextsUpTo(edits + 1)
  BY DEF Buffers
<1>9. CASE /\ Open(Guard, Put(Path, text)) /\ plan' = plan
           /\ Head(plan)[1] \in {"char", "run", "reset"}
  <2>1. /\ Settled'[Path] = text
        /\ \A p \in Paths : p # Path => Settled'[p] = Settled[p]
        /\ InFlight' = InFlight \cup {Path} /\ queue' \in Seq(Entries(edits + 1))
        /\ Put(Path, text) \in Requested(edits + 1)
    BY <1>0, <1>1, <1>3, <1>7, <1>9, GuardPuts
  <2> PICK requests : requests = Put(Path, text)
    OBVIOUS
  <2>2. GuardAwaits(requests)'
    BY <1>1, <1>4, <1>9 DEF GuardAwaits, Awaits, Path
  <2>3. QueueAgrees' /\ CallsAgree' /\ Waiting'
    BY <1>0, <1>1, <1>3, <1>9, <2>1, <2>2, GuardOpens
  <2>4. PlanAgrees'
    BY <1>0, <1>1, <1>4, <1>6, <1>9, <2>3, PlanStays
  <2>5. Types'
    BY <1>0, <1>1, <1>3, <1>4, <1>5, <1>9, <2>1 DEF Types
  <2>6. BuffersSound'
    <3>1. ASSUME NEW p \in resident' PROVE Sound(p)'
      <4>1. CASE p = Path
        BY <1>4, <2>1, <2>5, <4>1, SoundWhenStored
      <4>2. CASE p # Path
        <5>1. p \in resident /\ p \in Paths
          BY <1>4, <4>2
        <5> QED BY <1>0, <1>1, <1>4, <2>1, <4>2, <5>1, SoundStays DEF BuffersSound
      <4> QED BY <4>1, <4>2
    <3> QED BY <3>1 DEF BuffersSound
  <2>7. EditedIn(file)
    BY <1>4, <2>1 DEF EditedIn
  <2> QED BY <1>2, <2>3, <2>4, <2>5, <2>6, <2>7 DEF IInv
<1>10. CASE /\ plan' = Tail(plan) /\ queue' = queue /\ Head(plan)[1] \in {"char", "remote"}
            /\ Head(plan)[1] = "char" => file.ops_since_save < SAVE_THRESHOLD
  <2>1. Settled' = Settled /\ InFlight' = InFlight
    BY <1>1, <1>10, SameStore
  <2>2. QueueAgrees' /\ CallsAgree'
    BY <1>0, <1>1, <1>3, <1>10, IdleQueue
  <2>3. Path \in resident
    BY <1>1, <1>10
  <2>4. PlanAgrees'
    <3>1. Head(plan)[1] # "load" /\ \A p \in resident : p \in resident'
      BY <1>4, <1>10
    <3> QED BY <1>0, <1>1, <1>4, <1>6, <1>10, <3>1, PlanProceeds
  <2>5. Types'
    <3>1. plan' \in Seq(Step) /\ queue' \in Seq(Entries(edits + 1))
      BY <1>0, <1>1, <1>5, <1>10, FirstStep, QueueTyped
    <3> QED BY <1>0, <1>1, <1>3, <1>4, <1>5, <3>1 DEF Types
  <2>6. ASSUME Behind(Settled[Path], file_map[Path].text, file_map[Path].ops_since_save)
        PROVE  Behind(Settled[Path], file.text, file.ops_since_save)
    <3> PICK disk : disk = Settled[Path]
      OBVIOUS
    <3> PICK old : old = file_map[Path]
      OBVIOUS
    <3>1. disk \in Texts /\ old.text \in Texts /\ old.ops_since_save \in Nat
      <4>1. disk # NoFile /\ disk \in TextsUpTo(edits) \cup {NoFile}
        BY <1>0, <1>1, <2>6, SettledIs DEF Behind
      <4>2. disk \in Texts
        BY <1>1, <4>1, TextsAreTexts
      <4>3. old.text \in Texts /\ old.ops_since_save \in Nat
        BY <1>0, <2>3, BufferTyped
      <4> QED BY <4>2, <4>3
    <3>2. e \in Nat \X Origins
      BY <1>3
    <3>3. file.text = Append(old.text, e)
      BY <1>2, <1>10 DEF EditOf
    <3>4. CASE Head(plan)[1] = "remote"
      <4>1. e[2] # "local" /\ file.ops_since_save = old.ops_since_save
        <5>1. file = [text |-> file.text, ops_since_save |-> old.ops_since_save] /\ e[2] = "remote"
          BY <1>2, <3>4 DEF EditOf
        <5> QED BY <5>1
      <4> QED BY <2>6, <3>1, <3>2, <3>3, <4>1, BehindAppend
    <3>5. CASE Head(plan)[1] = "char"
      <4>1. file.ops_since_save = old.ops_since_save + 1 /\ old.ops_since_save + 1 < SAVE_THRESHOLD
        <5>1. file = [text |-> file.text, ops_since_save |-> old.ops_since_save + 1]
          BY <1>2, <3>5 DEF EditOf
        <5> QED BY <1>10, <3>5, <5>1
      <4>2. e[2] = "local"
        BY <1>2, <3>5 DEF EditOf
      <4> QED BY <2>6, <3>1, <3>2, <3>3, <3>5, <4>1, <4>2, BehindAppend
    <3> QED BY <1>10, <3>4, <3>5
  <2>7. BuffersSound'
    <3>1. ASSUME NEW p \in resident' PROVE Sound(p)'
      <4>1. CASE p = Path
        BY <1>0, <1>1, <1>4, <2>1, <2>3, <2>6, <4>1 DEF BuffersSound, Sound
      <4>2. CASE p # Path
        <5>1. p \in resident /\ p \in Paths
          BY <1>4, <4>2
        <5> QED BY <1>0, <1>1, <1>4, <2>1, <4>2, <5>1, SoundStays DEF BuffersSound
      <4> QED BY <4>1, <4>2
    <3> QED BY <3>1 DEF BuffersSound
  <2>8. EditedIn(file)
    BY <1>4, <2>1 DEF EditedIn
  <2> QED BY <1>2, <2>2, <2>4, <2>5, <2>7, <2>8 DEF IInv
<1> QED BY <1>2, <1>9, <1>10

LEMMA DropInv ==
  ASSUME IInv, Drop
  PROVE  IInv' /\ Quiet
<1>0. Types /\ QueueAgrees /\ CallsAgree /\ PlanAgrees /\ BuffersSound
  BY DEF IInv
<1>1. /\ plan # << >> /\ ~Waiting /\ Head(plan)[1] = "drop"
      /\ IF Path \in resident THEN Open(Guard, Put(Path, file_map[Path].text)) /\ plan' = plan
                              ELSE plan' = Tail(plan) /\ queue' = queue
      /\ file_map' = Evicted({Path}) /\ atRisk' = atRisk \ {Path}
      /\ UNCHANGED <<store, call, faults, edits, cancels, lapses, discards>>
  BY DEF Drop, At, Proceed
<1>2. /\ resident' = resident \ {Path} /\ resident' \subseteq Paths
      /\ file_map' \in [resident' -> Buffers(edits)]
      /\ \A q \in resident' : file_map'[q] = file_map[q]
  BY <1>0, <1>1, EvictedEffect
<1>3. Path \in Paths /\ Head(plan) = <<"drop", Path>>
  <2>1. Head(plan) \in Step
    BY <1>0, <1>1, FirstStep
  <2> QED BY <1>1, <2>1, StepTyped DEF Path
<1>4. /\ Path \notin resident'
      /\ \A p \in resident : p \in resident' \/ Head(plan) = <<"drop", p>>
      /\ atRisk' \subseteq resident'
  BY <1>0, <1>1, <1>2, <1>3 DEF Types
<1>5. \A p \in Paths : Path # p /\ p \notin InFlight' /\ Clean(p) /\ p \in resident => Clean(p)'
  BY <1>1, <1>2 DEF Clean
<1>6. ASSUME \A p \in Paths : p # Path => Settled'[p] = Settled[p],
             InFlight' \subseteq InFlight \cup {Path}
      PROVE  BuffersSound' /\ Preserves /\ Does
  <2>1. ASSUME NEW p \in resident' PROVE Sound(p)'
    <3>1. p \in resident /\ p # Path /\ p \in Paths
      BY <1>2
    <3> QED BY <1>0, <1>1, <1>2, <1>6, <3>1, SoundStays DEF BuffersSound
  <2>2. \A p \in resident' : Clean(p) => Clean(p)'
    BY <1>2, <1>5, <1>6 DEF Clean
  <2>3. Preserves
    BY <1>2, <2>2 DEF Preserves
  <2>4. Does
    BY <1>1, <1>3, <1>4 DEF Does
  <2> QED BY <2>1, <2>3, <2>4 DEF BuffersSound
<1>7. CASE Path \in resident
  <2> PICK text : text = file_map[Path].text
    OBVIOUS
  <2> PICK requests : requests = Put(Path, text)
    OBVIOUS
  <2>1. text \in TextsUpTo(edits) /\ edits \in Nat
    BY <1>0, <1>7, BufferTyped
  <2>2. Open(Guard, requests) /\ plan' = plan
    BY <1>1, <1>7
  <2>3. /\ Settled'[Path] = text
        /\ \A p \in Paths : p # Path => Settled'[p] = Settled[p]
        /\ InFlight' = InFlight \cup {Path} /\ queue' \in Seq(Entries(edits))
        /\ requests \in Requested(edits) /\ Concerns(requests) = {Path}
    BY <1>0, <1>1, <1>3, <2>1, <2>2, GuardPuts
  <2>4. GuardAwaits(requests)'
    <3>1. plan' # << >> /\ Head(plan')[1] = "drop" /\ Head(plan')[2] \notin resident'
          /\ Concerns(requests) = {Head(plan')[2]}
      BY <1>1, <1>4, <2>2, <2>3 DEF Path
    <3> QED BY <3>1 DEF GuardAwaits, Awaits, Path, Concerns
  <2>5. QueueAgrees' /\ CallsAgree' /\ Waiting'
    BY <1>0, <1>1, <2>1, <2>2, <2>3, <2>4, GuardOpens
  <2>6. PlanAgrees'
    BY <1>0, <1>1, <1>2, <1>4, <1>6, <2>2, <2>3, <2>5, PlanStays
  <2>7. Types'
    BY <1>0, <1>1, <1>2, <1>4, <2>2, <2>3 DEF Types
  <2>8. Contents' = Contents
    BY <1>2, <1>7, <2>3 DEF Contents
  <2> QED BY <1>1, <1>6, <2>3, <2>5, <2>6, <2>7, <2>8 DEF IInv, Quiet
<1>8. CASE Path \notin resident
  <2>1. plan' = Tail(plan) /\ queue' = queue
    BY <1>1, <1>8
  <2>2. Settled' = Settled /\ InFlight' = InFlight
    BY <1>1, <2>1, SameStore
  <2>3. QueueAgrees' /\ CallsAgree'
    BY <1>0, <1>1, <2>1, IdleQueue
  <2>4. PlanAgrees'
    BY <1>0, <1>1, <1>2, <1>4, <1>6, <2>1, <2>2, PlanProceeds
  <2>5. Types'
    <3>1. plan' \in Seq(Step) /\ queue' \in Seq(Entries(edits))
      BY <1>0, <1>1, <2>1, FirstStep, QueueTyped
    <3> QED BY <1>0, <1>1, <1>2, <1>4, <3>1 DEF Types
  <2>6. Contents' = Contents
    BY <1>2, <1>8, <2>2 DEF Contents
  <2> QED BY <1>1, <1>6, <2>2, <2>3, <2>4, <2>5, <2>6 DEF IInv, Quiet
<1> QED BY <1>7, <1>8

LEMMA OperateInv ==
  ASSUME IInv, Operate
  PROVE  IInv' /\ Quiet
<1>0. Types /\ QueueAgrees /\ CallsAgree /\ PlanAgrees /\ BuffersSound
  BY DEF IInv
<1>1. /\ plan # << >> /\ ~Waiting /\ Head(plan)[1] = "store"
      /\ UNCHANGED <<store, faults, file_map, plan, edits, cancels, atRisk, lapses, discards>>
  BY DEF Operate, At, Begin
<1>2. PICK c \in Callers : Begin(c, Path)
  BY DEF Operate
<1>3. /\ call' = [call EXCEPT ![c] = [op |-> Path.op, from |-> Path.from, to |-> Path.to,
                                     awaits |-> "read", before |-> Nothing]]
      /\ Open(c, << >>)
  BY <1>2 DEF Begin
<1>4. c # Gone /\ c # Guard
  BY ConstantsAssumption
<1>5. << >> \in Requested(edits) /\ edits \in Nat
  BY <1>0, NoRequest, QueueTyped
<1>6. /\ Len(queue') = Len(queue) + 1 /\ DOMAIN queue' = 1..(Len(queue) + 1)
      /\ \A i \in DOMAIN queue : queue'[i] = queue[i]
      /\ queue'[Len(queue) + 1] = Transaction(c, << >>)
      /\ DOMAIN queue = 1..Len(queue) /\ Len(queue) \in Nat
      /\ InFlight' = InFlight
  BY <1>0, <1>3, <1>5, OpenEffect, QueueTyped, ConcernsNone
<1>7. \A p \in Paths : Settled'[p] = Settled[p]
  BY <1>0, <1>1, <1>3, <1>5, OpenSettles, ConcernsNone
<1>8. queue'[Len(queue')].owner = c /\ queue'[Len(queue')].requests = << >> /\ Len(queue') \in DOMAIN queue'
  BY <1>6 DEF Transaction
<1>9. \A i \in DOMAIN queue' : queue'[i].owner # Gone => i = Len(queue')
  BY <1>0, <1>1, <1>6, NothingAwaited
<1>10. /\ DOMAIN call' = Callers /\ \A d \in Callers : d # c => call'[d] = Idle
       /\ call'[c] = [op |-> Path.op, from |-> Path.from, to |-> Path.to,
                      awaits |-> "read", before |-> Nothing]
  <2>1. \A d \in Callers : call[d] = Idle
    BY <1>0, <1>1, NothingAwaited
  <2>2. DOMAIN call = Callers
    BY <1>0 DEF Types
  <2> QED BY <1>3, <2>1, <2>2
<1>11. /\ call'[c].op = Path.op /\ call'[c].from = Path.from /\ call'[c].to = Path.to
       /\ call'[c].awaits = "read" /\ DOMAIN call'[c] = DOMAIN Idle /\ call'[c] # Idle
  <2>1. DOMAIN call'[c] = {"op", "from", "to", "awaits", "before"}
    BY <1>10, Zenon
  <2>2. DOMAIN Idle = {"op", "from", "to", "awaits", "before"} /\ Idle.awaits = "none"
    BY DEF Idle
  <2>3. /\ call'[c].op = Path.op /\ call'[c].from = Path.from /\ call'[c].to = Path.to
        /\ call'[c].awaits = "read"
    BY <1>10
  <2> QED BY <2>1, <2>2, <2>3
<1>12. Waiting'
  BY <1>4, <1>8 DEF Waiting
<1>13. CallerAwaits(c, << >>)'
  BY <1>11 DEF CallerAwaits
<1>14. QueueAgrees'
  <2>1. ASSUME NEW i \in DOMAIN queue', queue'[i].owner # Gone
        PROVE  i = Len(queue') /\ queue'[i].owner = c /\ queue'[i].requests = << >>
    BY <1>8, <1>9, <2>1
  <2>2. plan' # << >>
    BY <1>1
  <2> QED BY <1>4, <1>11, <1>13, <2>1, <2>2 DEF QueueAgrees
<1>15. CallsAgree'
  <2>1. Awaits({"store"})' /\ Path' = Path
    BY <1>1 DEF Awaits, Path
  <2> QED BY <1>8, <1>10, <1>11, <2>1 DEF CallsAgree
<1>16. resident' = resident /\ resident' \subseteq Paths
  <2>1. resident' = resident
    BY <1>1 DEF resident
  <2> QED BY <1>0, <2>1 DEF Types
<1>17. PlanAgrees'
  <2>1. \A p : Clean(p) => Clean(p)'
    BY <1>1, <1>6 DEF Clean
  <2>2. Preserves
    BY <1>16, <2>1 DEF Preserves
  <2> QED BY <1>0, <1>1, <1>12, <1>16, <2>2, PlanStays
<1>18. BuffersSound'
  <2>1. ASSUME NEW p \in resident' PROVE Sound(p)'
    BY <1>0, <1>1, <1>6, <1>7, <1>16, <2>1, SoundStays DEF BuffersSound
  <2> QED BY <2>1 DEF BuffersSound
<1>19. Types'
  <2>1. queue' \in Seq(Entries(edits))
    BY <1>0, <1>3, <1>5, OpenTyped
  <2> QED BY <1>0, <1>1, <1>10, <1>16, <2>1 DEF Types
<1>20. Contents' = Contents
  BY <1>1, <1>7, SameContents
<1> QED BY <1>1, <1>14, <1>15, <1>17, <1>18, <1>19, <1>20 DEF IInv, Quiet

-----------------------------------------------------------------------------
(* What follows an await.                                                  *)

\* Unsaved edits are taken back, as many as that can be.
Loses ==
  /\ lapses' = lapses /\ discards' = discards + 1
  /\ \A p \in Paths :
       \/ Contents'[p] = Contents[p] \/ p \in atRisk \cup InFlight
       \/ /\ Contents[p] # NoFile
          /\ \E ops \in Nat : Behind(Contents'[p], Contents[p], ops)

\* The step, and what of it the guard awaited.
LEMMA GuardAwaited ==
  ASSUME IInv, NEW i \in DOMAIN queue, queue[i].owner = Guard
  PROVE  /\ plan # << >> /\ i = Len(queue) /\ GuardAwaits(queue[i].requests)
         /\ queue[i].owner # Gone
         /\ Head(plan)[1] # "store" /\ Path \in Paths /\ Head(plan) = <<Head(plan)[1], Path>>
         /\ \A c \in Callers : call[c] = Idle
<1>1. Types /\ QueueAgrees /\ CallsAgree /\ Guard # Gone /\ Guard \notin Callers
  BY ConstantsAssumption DEF IInv
<1>2. plan # << >> /\ i = Len(queue) /\ GuardAwaits(queue[i].requests)
  BY <1>1 DEF QueueAgrees
<1>3. Head(plan)[1] # "store"
  BY <1>2 DEF GuardAwaits, Awaits
<1>4. Head(plan) \in Step
  BY <1>1, <1>2, FirstStep
<1>5. Path \in Paths /\ Head(plan) = <<Head(plan)[1], Path>>
  BY <1>3, <1>4, StepTyped DEF Path
<1>6. \A c \in Callers : call[c] = Idle
  BY <1>1, <1>2, <1>3 DEF CallsAgree, Awaits
<1> QED BY <1>1, <1>2, <1>3, <1>5, <1>6

LEMMA ReadReturnedInv ==
  ASSUME IInv, ReadReturned
  PROVE  IInv' /\ (Quiet \/ Loses)
<1>0. Types /\ QueueAgrees /\ CallsAgree /\ PlanAgrees /\ BuffersSound
  BY DEF IInv
<1>1. /\ plan # << >> /\ Head(plan)[1] \in {"load", "add", "probe"}
      /\ UNCHANGED <<call, edits, cancels, lapses>>
  BY DEF ReadReturned, Awaits
<1>i. PICK i \in DOMAIN queue : Served(i, Guard) /\ \E answer \in Answers(i) :
       LET found == answer = "ok" /\ store[Path] # NoFile
       IN /\ Answer(i, answer, << >>)
          /\ IF Head(plan)[1] = "probe"
             THEN /\ IF found THEN Return ELSE Proceed
                  /\ UNCHANGED <<file_map, atRisk, discards>>
             ELSE IF ~found THEN Return /\ UNCHANGED <<file_map, atRisk, discards>>
             ELSE /\ Proceed
                  /\ file_map' = Keep(Path, from_string(store[Path]))
                  /\ atRisk' = atRisk \ {Path}
                  /\ Discards
  BY DEF ReadReturned
<1>2. PICK answer \in Answers(i) :
        /\ Answer(i, answer, << >>)
        /\ \/ plan' = << >> /\ UNCHANGED <<file_map, atRisk, discards>>
           \/ plan' = Tail(plan) /\ Head(plan)[1] = "probe" /\ UNCHANGED <<file_map, atRisk, discards>>
           \/ /\ plan' = Tail(plan) /\ Head(plan)[1] # "probe" /\ store[Path] # NoFile
              /\ file_map' = Keep(Path, from_string(store[Path]))
              /\ atRisk' = atRisk \ {Path} /\ Discards
  BY <1>i DEF Return, Proceed
<1>3. /\ queue[i].owner = Guard /\ queue[i].owner # Gone
      /\ GuardAwaits(queue[i].requests) /\ i = Len(queue)
      /\ Path \in Paths /\ Head(plan) = <<Head(plan)[1], Path>>
      /\ \A c \in Callers : call[c] = Idle
  BY <1>i, GuardAwaited DEF Served
<1>4. queue[i].requests = << >>
  BY <1>1, <1>3 DEF GuardAwaits, Awaits
<1>5. /\ store' = store /\ queue' = RemoveAt(queue, i) /\ faults' \in 0..MaxFaults
      /\ InFlight = {} /\ InFlight' = {} /\ Settled = store /\ Settled' = store
  BY <1>0, <1>i, <1>2, <1>3, <1>4, ReadDone
<1>6. QueueAgrees'
  BY <1>0, <1>3, <1>5, AwaitedLeaves
<1>7. CallsAgree'
  BY <1>1, <1>3 DEF CallsAgree
<1>8. queue' \in Seq(Entries(edits)) /\ edits \in Nat /\ store \in Trees(edits)
  BY <1>0, <1>5, RemoveEffect, QueueTyped
<1>9. CASE /\ UNCHANGED <<file_map, atRisk, discards>>
           /\ plan' = << >> \/ (plan' = Tail(plan) /\ Head(plan)[1] = "probe")
  <2>1. resident' = resident /\ resident' \subseteq Paths
    <3>1. resident' = resident
      BY <1>9 DEF resident
    <3> QED BY <1>0, <3>1 DEF Types
  <2>3. PlanAgrees'
    <3>1. CASE plan' = << >>
      BY <3>1, PlanEnds
    <3>2. CASE plan' = Tail(plan) /\ Head(plan)[1] = "probe"
      <4>1. Preserves /\ Does
        BY <3>2 DEF Preserves, Does
      <4> QED BY <1>0, <1>1, <2>1, <3>2, <4>1, PlanProceeds
    <3> QED BY <1>9, <3>1, <3>2
  <2>4. BuffersSound'
    BY <1>0, <1>5, <1>9, <2>1 DEF BuffersSound, Sound
  <2>5. Types'
    <3>1. plan' \in Seq(Step)
      <4>1. << >> \in Seq(Step) /\ Tail(plan) \in Seq(Step)
        BY <1>0, <1>1, FirstStep
      <4> QED BY <1>9, <4>1
    <3> QED BY <1>0, <1>1, <1>5, <1>8, <1>9, <2>1, <3>1 DEF Types
  <2>6. Contents' = Contents
    BY <1>5, <1>9, SameContents
  <2> QED BY <1>1, <1>6, <1>7, <1>9, <2>3, <2>4, <2>5, <2>6 DEF IInv, Quiet
<1>10. CASE /\ plan' = Tail(plan) /\ Head(plan)[1] # "probe" /\ store[Path] # NoFile
            /\ file_map' = Keep(Path, from_string(store[Path]))
            /\ atRisk' = atRisk \ {Path} /\ Discards
  <2> PICK file : file = from_string(store[Path])
    OBVIOUS
  <2>1. file = [text |-> store[Path], ops_since_save |-> 0]
    BY DEF from_string
  <2>2. store[Path] \in TextsUpTo(edits) /\ file.text = store[Path]
    BY <1>3, <1>8, <1>10, <2>1 DEF Trees
  <2>3. file \in Buffers(edits)
    <3>1. 0 \in 0..edits
      BY <1>8
    <3> QED BY <2>1, <2>2, <3>1 DEF Buffers
  <2>4. /\ resident' = resident \cup {Path} /\ resident' \subseteq Paths
        /\ file_map' \in [resident' -> Buffers(edits)]
        /\ file_map'[Path] = file /\ \A q \in resident : q # Path => file_map'[q] = file_map[q]
    BY <1>0, <1>3, <1>8, <1>10, <2>3, KeepEffect
  <2>5. Types'
    <3>1. plan' \in Seq(Step)
      BY <1>0, <1>1, <1>10, FirstStep
    <3>2. discards' \in Nat
      BY <1>0, <1>10 DEF Types, Discards
    <3> QED BY <1>0, <1>1, <1>5, <1>8, <1>10, <2>4, <3>1, <3>2 DEF Types
  <2>6. BuffersSound'
    <3>1. ASSUME NEW p \in resident' PROVE Sound(p)'
      <4>1. CASE p = Path
        BY <1>5, <2>2, <2>4, <2>5, <4>1, SoundWhenStored
      <4>2. CASE p # Path
        BY <1>0, <1>5, <1>10, <2>4, <4>2, SoundStays DEF BuffersSound
      <4> QED BY <4>1, <4>2
    <3> QED BY <3>1 DEF BuffersSound
  <2>7. Head(plan)[1] \notin {"save", "drop", "store"} /\ Head(plan)[1] \in {"load", "add"}
    BY <1>1, <1>10
  <2>8. PlanAgrees'
    <3>1. \A p \in resident : Clean(p) => Clean(p)'
      BY <1>5, <1>10, <2>2, <2>4 DEF Clean
    <3>2. Preserves
      <4>1. Head(plan)[1] = "load" => \A p \in resident' : p \in resident \/ Head(plan) = <<"load", p>>
        BY <1>3, <2>4
      <4> QED BY <2>7, <3>1, <4>1 DEF Preserves
    <3>3. Does
      BY <2>7 DEF Does
    <3> QED BY <1>0, <1>1, <1>10, <2>4, <2>7, <3>2, <3>3, PlanProceeds
  <2>9. Quiet \/ Loses
    <3>1. CASE Contents' = Contents
      BY <1>1, <1>10, <3>1 DEF Discards, Quiet
    <3>2. CASE Contents' # Contents
      <4>1. discards' = discards + 1
        BY <1>10, <3>2 DEF Discards
      <4>2. ASSUME NEW p \in Paths
            PROVE  \/ Contents'[p] = Contents[p] \/ p \in atRisk \cup InFlight
                   \/ /\ Contents[p] # NoFile
                      /\ \E ops \in Nat : Behind(Contents'[p], Contents[p], ops)
        <5>1. /\ Contents'[p] = IF p \in resident' THEN file_map'[p].text ELSE Settled'[p]
              /\ Contents[p] = IF p \in resident THEN file_map[p].text ELSE Settled[p]
          BY DEF Contents
        <5>2. CASE p # Path
          BY <1>5, <2>4, <5>1, <5>2
        <5>3. CASE p = Path /\ p \notin resident
          BY <1>5, <2>2, <2>4, <5>1, <5>3
        <5>4. CASE p = Path /\ p \in resident
          <6>1. Sound(p)
            BY <1>0, <5>4 DEF BuffersSound
          <6>2. p \in atRisk \/ Behind(store[p], file_map[p].text, file_map[p].ops_since_save)
            BY <1>5, <6>1 DEF Sound
          <6>3. file_map[p].ops_since_save \in Nat /\ file_map[p].text # NoFile
            BY <1>0, <5>4, BufferTyped
          <6> QED BY <2>2, <2>4, <5>1, <5>4, <6>2, <6>3
        <5> QED BY <5>2, <5>3, <5>4
      <4> QED BY <1>1, <4>1, <4>2 DEF Loses
    <3> QED BY <3>1, <3>2
  <2> QED BY <1>6, <1>7, <2>5, <2>6, <2>8, <2>9 DEF IInv
<1> QED BY <1>2, <1>9, <1>10

\* The awaited save has been answered: the store holds what the buffer does, or
\* what it held.
LEMMA SaveAnswered ==
  ASSUME IInv, SaveReturned
  PROVE  /\ plan # << >> /\ Path \in resident /\ Path \in Paths /\ Head(plan) = <<Head(plan)[1], Path>>
         /\ Head(plan)[1] \in {"char", "run", "reset", "save"}
         /\ UNCHANGED <<call, edits, cancels, lapses, discards>>
         /\ 1 \in DOMAIN queue /\ queue[1].owner = Guard
         /\ queue' = RemoveAt(queue, 1) /\ faults' \in 0..MaxFaults /\ store' \in Trees(edits)
         /\ InFlight = {Path} /\ InFlight' = {} /\ Settled' = store'
         /\ \A p \in Paths : p # Path => store'[p] = store[p] /\ Settled'[p] = Settled[p]
         /\ \/ /\ faults' = faults /\ store'[Path] = file_map[Path].text
               /\ plan' = Tail(plan) /\ atRisk' = atRisk \ {Path}
               /\ file_map' = [file_map EXCEPT ![Path].ops_since_save = 0]
            \/ /\ faults' # faults /\ atRisk' = atRisk \cup {Path}
               /\ \/ plan' = << >> /\ file_map' = file_map
                  \/ plan' = Tail(plan) /\ file_map' = [file_map EXCEPT ![Path].ops_since_save = 0]
<1>0. Types /\ QueueAgrees /\ CallsAgree
  BY DEF IInv
<1>1. /\ plan # << >> /\ Head(plan)[1] \in {"char", "run", "reset", "save"}
      /\ UNCHANGED <<call, edits, cancels, lapses, discards>>
      /\ Served(1, Guard)
  BY DEF SaveReturned, Awaits
<1>2. PICK answer \in Answers(1) :
        /\ Answer(1, answer, << >>)
        /\ atRisk' = IF answer = "ok" THEN atRisk \ {Path} ELSE atRisk \cup {Path}
        /\ IF answer = "error"
           THEN plan' = << >> /\ file_map' = file_map
           ELSE plan' = Tail(plan) /\ file_map' = [file_map EXCEPT ![Path].ops_since_save = 0]
  BY DEF SaveReturned, Return, Proceed
<1>3. /\ 1 \in DOMAIN queue /\ queue[1].owner = Guard /\ queue[1].owner # Gone
      /\ GuardAwaits(queue[1].requests)
      /\ Path \in Paths /\ Head(plan) = <<Head(plan)[1], Path>>
  BY <1>1, GuardAwaited DEF Served
<1> PICK text : text = file_map[Path].text
  OBVIOUS
<1>4. Path \in resident /\ queue[1].requests = Put(Path, text)
  BY <1>1, <1>3 DEF GuardAwaits, Awaits
<1>5. text \in TextsUpTo(edits) /\ edits \in Nat /\ store \in Trees(edits)
  BY <1>0, <1>4, BufferTyped, QueueTyped
<1> PICK requests : requests = queue[1].requests
  OBVIOUS
<1>6. requests \in Requested(edits) /\ Concerns(requests) = {Path} /\ ToSet(requests) = {<<Path, text>>}
  BY <1>3, <1>4, <1>5, OneRequest, ConcernsOne DEF Put, ToSet
<1>7. /\ queue' = RemoveAt(queue, 1) /\ store' \in Trees(edits) /\ faults' \in 0..MaxFaults
      /\ answer = "ok" => store' = Committed(store, requests) /\ faults' = faults
      /\ answer # "ok" => store' = store /\ faults' # faults
      /\ InFlight = {Path} /\ InFlight' = {} /\ Settled' = store'
  BY <1>0, <1>2, <1>3, <1>6, WriteDone
<1>8. Committed(store, requests)[Path] = text
  <2>1. \E r \in ToSet(requests) : r[1] = Path /\ Committed(store, requests)[Path] = r[2]
    BY <1>5, <1>6, PutThere
  <2> QED BY <1>6, <2>1
<1>9. ASSUME NEW p \in Paths, p # Path PROVE store'[p] = store[p] /\ Settled'[p] = Settled[p]
  <2>1. store'[p] = store[p]
    BY <1>5, <1>6, <1>7, <1>9, KeptThere
  <2> QED BY <1>0, <1>3, <1>6, <1>7, <1>9, <2>1, RemoveSettles
<1>10. CASE answer = "ok"
  BY <1>1, <1>2, <1>3, <1>4, <1>7, <1>8, <1>9, <1>10
<1>11. CASE answer # "ok"
  <2>1. faults' # faults /\ atRisk' = atRisk \cup {Path}
    BY <1>2, <1>7, <1>11
  <2> QED BY <1>1, <1>2, <1>3, <1>4, <1>7, <1>9, <2>1
<1> QED BY <1>10, <1>11

LEMMA SaveReturnedInv ==
  ASSUME IInv, SaveReturned
  PROVE  IInv' /\ Quiet
<1>0. Types /\ QueueAgrees /\ CallsAgree /\ PlanAgrees /\ BuffersSound
  BY DEF IInv
<1>1. /\ plan # << >> /\ Path \in resident /\ Path \in Paths /\ Head(plan) = <<Head(plan)[1], Path>>
      /\ Head(plan)[1] \in {"char", "run", "reset", "save"}
      /\ UNCHANGED <<call, edits, cancels, lapses, discards>>
      /\ 1 \in DOMAIN queue /\ queue[1].owner = Guard
      /\ queue' = RemoveAt(queue, 1) /\ faults' \in 0..MaxFaults /\ store' \in Trees(edits)
      /\ InFlight = {Path} /\ InFlight' = {} /\ Settled' = store'
      /\ \A p \in Paths : p # Path => store'[p] = store[p] /\ Settled'[p] = Settled[p]
  BY SaveAnswered
<1>2. \/ /\ store'[Path] = file_map[Path].text
         /\ plan' = Tail(plan) /\ atRisk' = atRisk \ {Path}
         /\ file_map' = [file_map EXCEPT ![Path].ops_since_save = 0]
      \/ /\ atRisk' = atRisk \cup {Path}
         /\ \/ plan' = << >> /\ file_map' = file_map
            \/ plan' = Tail(plan) /\ file_map' = [file_map EXCEPT ![Path].ops_since_save = 0]
  BY SaveAnswered
<1>3. /\ resident' = resident /\ resident' \subseteq Paths
      /\ file_map' \in [resident' -> Buffers(edits)]
      /\ file_map'[Path].text = file_map[Path].text
      /\ \A p \in resident : p # Path => file_map'[p] = file_map[p]
  <2>1. file_map \in [resident -> Buffers(edits)] /\ resident \subseteq Paths /\ 0 \in 0..edits
    BY <1>0 DEF Types
  <2>2. file_map[Path] = [text |-> file_map[Path].text, ops_since_save |-> file_map[Path].ops_since_save]
        /\ file_map[Path].text \in TextsUpTo(edits)
    BY <1>1, <2>1 DEF Buffers
  <2>3. CASE file_map' = file_map
    BY <2>1, <2>3 DEF resident
  <2>4. CASE file_map' = [file_map EXCEPT ![Path].ops_since_save = 0]
    <3>1. [file_map[Path] EXCEPT !.ops_since_save = 0] = [text |-> file_map[Path].text, ops_since_save |-> 0]
      BY <2>2
    <3> PICK file : file = [text |-> file_map[Path].text, ops_since_save |-> 0]
      OBVIOUS
    <3>2. file \in Buffers(edits) /\ file.text = file_map[Path].text
      BY <2>1, <2>2 DEF Buffers
    <3>3. file_map' = [file_map EXCEPT ![Path] = file]
      BY <2>4, <3>1
    <3>4. resident' = resident
      BY <3>3 DEF resident
    <3> QED BY <1>1, <2>1, <3>2, <3>3, <3>4
  <2> QED BY <1>2, <2>3, <2>4
<1>4. \A p \in resident : p \in Paths
  BY <1>3
<1>5. QueueAgrees'
  <2>1. queue[1].owner # Gone
    BY <1>1, ConstantsAssumption
  <2> QED BY <1>0, <1>1, <2>1, AwaitedLeaves
<1>6. CallsAgree'
  <2>1. \A c \in Callers : call[c] = Idle
    BY <1>1, GuardAwaited
  <2> QED BY <1>1, <2>1 DEF CallsAgree
<1>7. \A p \in Paths : p = Path => Clean(p)'
  <2>1. Path \in atRisk' \/ file_map'[Path].text = store'[Path]
    BY <1>2, <1>3
  <2> QED BY <1>1, <2>1 DEF Clean
<1>8. \A p \in resident : p # Path /\ Clean(p) => Clean(p)'
  BY <1>1, <1>2, <1>3, <1>4 DEF Clean
<1>9. PlanAgrees'
  <2>1. CASE plan' = << >>
    BY <2>1, PlanEnds
  <2>2. CASE plan' = Tail(plan)
    <3>1. \A p \in resident : Clean(p) => Clean(p)'
      <4>1. ~Clean(Path)
        BY <1>1 DEF Clean
      <4> QED BY <1>8, <4>1
    <3>2. Preserves
      BY <1>3, <3>1 DEF Preserves
    <3>3. Does
      <4>1. Head(plan)[1] \notin {"store", "drop"} /\ \A p : Head(plan) = <<"save", p>> => p = Path
        BY <1>1
      <4> QED BY <1>7, <4>1 DEF Does
    <3> QED BY <1>0, <1>1, <1>3, <2>2, <3>2, <3>3, PlanProceeds
  <2> QED BY <1>2, <2>1, <2>2
<1>10. Types'
  <2>1. plan' \in Seq(Step)
    <3>1. << >> \in Seq(Step) /\ Tail(plan) \in Seq(Step)
      BY <1>0, <1>1, FirstStep
    <3> QED BY <1>2, <3>1
  <2>2. queue' \in Seq(Entries(edits))
    BY <1>0, <1>1, RemoveEffect
  <2>3. atRisk' \subseteq resident'
    BY <1>0, <1>1, <1>2, <1>3 DEF Types
  <2> QED BY <1>0, <1>1, <1>3, <2>1, <2>2, <2>3 DEF Types
<1>11. BuffersSound'
  <2>1. ASSUME NEW p \in resident' PROVE Sound(p)'
    <3>1. CASE p = Path /\ store'[p] = file_map'[p].text
      BY <1>1, <1>3, <1>10, <3>1, SoundWhenStored
    <3>2. CASE p = Path /\ p \in atRisk'
      BY <1>1, <3>2 DEF Sound
    <3>3. CASE p # Path
      <4>1. p \in Paths /\ p \in resident /\ file_map'[p] = file_map[p] /\ Settled'[p] = Settled[p]
        BY <1>1, <1>3, <3>3
      <4>2. p \in atRisk \ InFlight => p \in (atRisk \ InFlight)'
        BY <1>1, <1>2, <3>3
      <4> QED BY <1>0, <4>1, <4>2, SoundStays DEF BuffersSound
    <3> QED BY <1>2, <1>3, <3>1, <3>2, <3>3
  <2> QED BY <2>1 DEF BuffersSound
<1>12. Contents' = Contents
  BY <1>1, <1>3 DEF Contents
<1> QED BY <1>1, <1>5, <1>6, <1>9, <1>10, <1>11, <1>12 DEF IInv, Quiet

\* The last step is all there is to do.
LEMMA OnlyStep ==
  ASSUME Types, plan # << >>, Len(plan) = 1
  PROVE  Tail(plan) = << >> /\ Todo = {Head(plan)}
<1> PICK t : t = Tail(plan)
  OBVIOUS
<1>1. /\ DOMAIN plan = 1..1 /\ plan[1] = Head(plan)
      /\ t \in Seq(Step) /\ Len(t) = 0
  <2>1. /\ DOMAIN plan = 1..Len(plan) /\ plan[1] = Head(plan)
        /\ t \in Seq(Step) /\ Len(t) = Len(plan) - 1
    BY FirstStep
  <2> QED BY <2>1
<1> HIDE DEF Step
<1>2. t = << >>
  BY <1>1
<1>3. \A s \in Todo : s = Head(plan)
  BY <1>1 DEF Todo, ToSet
<1>4. Head(plan) \in Todo
  BY FirstStep
<1> QED BY <1>2, <1>3, <1>4

\* When a snapshot returns, whatever is not at risk is stored.
LEMMA SnapshotStores ==
  ASSUME IInv, SaveReturned, Head(plan)[1] = "save", plan' = << >>, faults' = faults, NEW p \in resident \ atRisk
  PROVE  store'[p] = file_map[p].text
<1>0. Types /\ PlanAgrees
  BY DEF IInv
<1>1. /\ plan # << >> /\ Path \in Paths /\ Head(plan) = <<Head(plan)[1], Path>>
      /\ InFlight = {Path}
      /\ \A q \in Paths : q # Path => store'[q] = store[q]
      /\ store'[Path] = file_map[Path].text /\ plan' = Tail(plan)
  BY SaveAnswered
<1>2. Todo = {<<"save", Path>>}
  <2>1. Len(plan) = 1
    <3>1. Len(plan) \in Nat /\ Len(Tail(plan)) = Len(plan) - 1
      BY <1>0, <1>1, FirstStep
    <3>2. Len(Tail(plan)) = 0
      <4>1. Tail(plan) = << >> /\ Len(<< >>) = 0
        BY <1>1
      <4> QED BY <4>1
    <3> QED BY <3>1, <3>2
  <2> QED BY <1>0, <1>1, <2>1, OnlyStep
<1>3. Clean(p) \/ <<"save", p>> \in Todo
  <2>1. \A u \in Todo : u[1] # "store"
    BY <1>2
  <2>2. \E s \in Todo : s[1] = "save"
    BY <1>2
  <2> QED BY <1>0, <2>1, <2>2 DEF PlanAgrees, Persisting
<1>4. p \in Paths
  BY <1>0 DEF Types
<1>5. CASE p = Path
  BY <1>1, <1>5
<1>6. CASE p # Path
  BY <1>1, <1>2, <1>3, <1>4, <1>6 DEF Clean
<1> QED BY <1>5, <1>6

\* The final save of a buffer that was dropped.
LEMMA DropReturnedInv ==
  ASSUME IInv, DropReturned
  PROVE  IInv' /\ (Quiet \/ lapses' = lapses + 1)
<1>0. Types /\ QueueAgrees /\ CallsAgree /\ PlanAgrees /\ BuffersSound
  BY DEF IInv
<1>1. /\ plan # << >> /\ Head(plan)[1] = "drop" /\ plan' = Tail(plan)
      /\ UNCHANGED <<call, file_map, edits, cancels, atRisk, discards>>
      /\ Served(1, Guard)
  BY DEF DropReturned, Awaits, Proceed
<1>2. PICK answer \in Answers(1) :
        /\ Answer(1, answer, << >>)
        /\ lapses' = IF answer = "ok" THEN lapses ELSE lapses + 1
  BY DEF DropReturned
<1>3. /\ 1 \in DOMAIN queue /\ queue[1].owner = Guard /\ queue[1].owner # Gone
      /\ GuardAwaits(queue[1].requests)
      /\ Path \in Paths /\ Head(plan) = <<Head(plan)[1], Path>>
      /\ \A c \in Callers : call[c] = Idle
  BY <1>1, GuardAwaited DEF Served
<1> PICK requests : requests = queue[1].requests
  OBVIOUS
<1>4. Path \notin resident /\ Concerns(requests) = {Path} /\ Guard \notin Callers
  BY <1>1, <1>3, ConstantsAssumption DEF GuardAwaits, Awaits
<1>5. /\ queue' = RemoveAt(queue, 1) /\ store' \in Trees(edits) /\ faults' \in 0..MaxFaults
      /\ answer = "ok" => store' = Committed(store, requests)
      /\ answer # "ok" => store' = store
      /\ InFlight = {Path} /\ InFlight' = {} /\ Settled' = store'
  BY <1>0, <1>2, <1>3, <1>4, WriteDone
<1>6. requests \in Requested(edits) /\ edits \in Nat /\ store \in Trees(edits)
  BY <1>0, <1>3, EntryTyped, QueueTyped
<1>7. ASSUME NEW p \in Paths, p # Path PROVE store'[p] = store[p] /\ Settled'[p] = Settled[p]
  <2>1. store'[p] = store[p]
    BY <1>4, <1>5, <1>6, <1>7, KeptThere
  <2> QED BY <1>0, <1>3, <1>4, <1>5, <1>7, <2>1, RemoveSettles
<1>8. resident' = resident /\ resident' \subseteq Paths
  <2>1. resident' = resident
    BY <1>1 DEF resident
  <2> QED BY <1>0, <2>1 DEF Types
<1>9. QueueAgrees' /\ CallsAgree'
  <2>1. QueueAgrees'
    BY <1>0, <1>3, <1>5, AwaitedLeaves
  <2>2. CallsAgree'
    BY <1>1, <1>3 DEF CallsAgree
  <2> QED BY <2>1, <2>2
<1>10. PlanAgrees'
  <2>1. \A p \in resident : Clean(p) => Clean(p)'
    <3>1. \A p \in resident : p # Path /\ p \in Paths
      BY <1>4, <1>8
    <3> QED BY <1>1, <1>5, <1>7, <3>1 DEF Clean
  <2>2. Preserves
    BY <1>8, <2>1 DEF Preserves
  <2>3. Does
    <3>1. Head(plan)[1] # "store" /\ \A p : Head(plan) # <<"save", p>> /\ (Head(plan) = <<"drop", p>> => p = Path)
      BY <1>1, <1>3
    <3> QED BY <1>4, <1>8, <3>1 DEF Does
  <2> QED BY <1>0, <1>1, <1>8, <2>2, <2>3, PlanProceeds
<1>11. Types'
  <2>1. plan' \in Seq(Step)
    BY <1>0, <1>1, FirstStep
  <2>2. queue' \in Seq(Entries(edits))
    BY <1>0, <1>3, <1>5, RemoveEffect
  <2>3. lapses' \in Nat
    BY <1>0, <1>2 DEF Types
  <2> QED BY <1>0, <1>1, <1>5, <1>8, <2>1, <2>2, <2>3 DEF Types
<1>12. BuffersSound'
  <2>1. ASSUME NEW p \in resident' PROVE Sound(p)'
    <3>1. p \in Paths /\ p \in resident /\ Settled'[p] = Settled[p]
      BY <1>4, <1>7, <1>8
    <3> QED BY <1>0, <1>1, <1>5, <1>4, <1>8, <3>1, SoundStays DEF BuffersSound
  <2> QED BY <2>1 DEF BuffersSound
<1>13. Quiet \/ lapses' = lapses + 1
  <2>1. CASE answer = "ok"
    <3>1. \A p \in Paths : Settled'[p] = Settled[p]
      BY <1>0, <1>3, <1>4, <1>5, <2>1, RemoveSettles
    <3>2. Contents' = Contents
      BY <1>1, <3>1, SameContents
    <3> QED BY <1>1, <1>2, <2>1, <3>2 DEF Quiet
  <2> QED BY <1>2, <2>1
<1> QED BY <1>9, <1>10, <1>11, <1>12, <1>13 DEF IInv

\* What the arguments of an operation decide.
LEMMA SameArguments ==
  ASSUME NEW d, NEW e, d.op = e.op, d.from = e.from, d.to = e.to
  PROVE  /\ Concerned(d) = Concerned(e) /\ Source(d) = Source(e) /\ Dropped(d) = Dropped(e)
         /\ Spread(d) <=> Spread(e)
         /\ IsOperation(d) <=> IsOperation(e)
         /\ Requests(d) = Requests(e)
<1>1. /\ Concerned(d) = Concerned(e) /\ Source(d) = Source(e)
      /\ Spread(d) <=> Spread(e)
  BY DEF Concerned, Source, Spread
<1>2. Dropped(d) = Dropped(e)
  BY <1>1 DEF Dropped
<1>3. IsOperation(d) <=> IsOperation(e)
  BY DEF IsOperation
<1>4. Requests(d) = Requests(e)
  BY DEF Requests
<1> QED BY <1>1, <1>2, <1>3, <1>4

\* What an operation changes, no buffer holds when it begins; what it reads of
\* a buffer is stored.
LEMMA OperationAwaited ==
  ASSUME IInv, NEW c \in Callers, call[c] # Idle
  PROVE  /\ plan # << >> /\ Tail(plan) = << >> /\ Head(plan)[1] = "store"
         /\ IsOperation(call[c]) /\ Spread(call[c]) /\ call[c].awaits \in {"read", "write"}
         /\ DOMAIN queue = 1..Len(queue) /\ Len(queue) \in DOMAIN queue /\ queue[Len(queue)].owner = c
         /\ CallerAwaits(c, queue[Len(queue)].requests)
         /\ \A i \in DOMAIN queue : i < Len(queue) => queue[i].owner = Gone
         /\ \A d \in Callers : d = c
         /\ resident \cap Dropped(call[c]) = {}
         /\ \A p \in resident \cap Source(call[c]) : p \in Concerned(call[c]) => Clean(p)
         /\ c # Gone /\ c # Guard
<1>0. Types /\ QueueAgrees /\ CallsAgree /\ PlanAgrees
  BY DEF IInv
<1>1. c # Gone /\ c # Guard /\ \A d \in Callers : d = c
  BY ConstantsAssumption
<1>2. /\ Awaits({"store"}) /\ call[c].op = Path.op /\ call[c].from = Path.from /\ call[c].to = Path.to
      /\ call[c].awaits \in {"read", "write"}
  BY <1>0 DEF CallsAgree
<1>3. PICK i \in DOMAIN queue : queue[i].owner = c
  BY <1>0 DEF CallsAgree
<1>4. i = Len(queue) /\ CallerAwaits(c, queue[i].requests)
  BY <1>0, <1>1, <1>3 DEF QueueAgrees
<1>5. DOMAIN queue = 1..Len(queue) /\ \A j \in DOMAIN queue : j < Len(queue) => queue[j].owner = Gone
  BY <1>0, QueueTyped DEF QueueAgrees
<1>6. plan # << >> /\ Head(plan)[1] = "store" /\ Head(plan) \in Todo /\ Head(plan) \in Step
  BY <1>0, <1>2, FirstStep DEF Awaits
<1>7. Path \in Calls /\ Head(plan) = <<"store", Path>>
  BY <1>6, StepTyped DEF Path
<1>8. Tail(plan) = << >> /\ Todo = {Head(plan)}
  <2>1. 1 \in DOMAIN plan /\ plan[1] = Head(plan)
    BY <1>0, <1>6, FirstStep
  <2>2. 1 = Len(plan)
    BY <1>0, <1>6, <2>1 DEF PlanAgrees, Ordered
  <2> QED BY <1>0, <1>6, <2>2, OnlyStep
<1>9. \A s \in Todo : s = <<"store", Path>>
  BY <1>7, <1>8
<1>10. Prepared(Path)
  BY <1>0, <1>6, <1>7 DEF PlanAgrees
<1>11. IsOperation(call[c]) /\ Spread(call[c]) /\ Dropped(call[c]) = Dropped(Path)
       /\ Source(call[c]) = Source(Path) /\ Concerned(call[c]) = Concerned(Path)
  <2>1. IsOperation(Path)
    BY <1>7 DEF IsOperation
  <2>2. Spread(Path)
    BY <1>10 DEF Prepared
  <2> HIDE DEF Path
  <2> QED BY <1>2, <2>1, <2>2, SameArguments
<1>12. resident \cap Dropped(Path) = {}
  BY <1>9, <1>10 DEF Prepared
<1>13. \A p \in resident \cap Source(Path) : Clean(p)
  <2> SUFFICES ASSUME NEW p \in resident \cap Source(Path) PROVE Clean(p)
    OBVIOUS
  <2>1. p \in (resident \cap Source(Path)) \ Dropped(Path)
    BY <1>12
  <2>2. <<"save", p>> \notin Todo
    BY <1>9
  <2> QED BY <1>10, <2>1, <2>2 DEF Prepared
<1> QED BY <1>1, <1>2, <1>3, <1>4, <1>5, <1>6, <1>8, <1>11, <1>12, <1>13

\* Then the session sees what the operation does.
LEMMA OperationSees ==
  ASSUME IInv, NEW c \in Callers, call[c] # Idle, atRisk \cap Source(call[c]) = {}, Settled = store,
         NEW p \in Concerned(call[c]), p \in Paths
  PROVE  Contents[p] = store[p]
<1>1. /\ resident \cap Dropped(call[c]) = {}
      /\ \A q \in resident \cap Source(call[c]) : q \in Concerned(call[c]) => Clean(q)
  BY OperationAwaited
<1>2. CASE p \in resident
  <2>1. p \in Source(call[c])
    BY <1>1, <1>2 DEF Dropped
  <2>2. Clean(p) /\ p \notin atRisk
    BY <1>1, <1>2, <2>1
  <2> QED BY <1>2, <2>2 DEF Clean, Contents
<1>3. CASE p \notin resident
  BY <1>3 DEF Contents
<1> QED BY <1>2, <1>3

\* An operation asks only for what it changes.
LEMMA AsksConcerned ==
  ASSUME NEW n \in Nat, store \in Trees(n), NEW d, IsOperation(d), Spread(d)
  PROVE  Requests(d) \in Requested(n) /\ Concerns(Requests(d)) \subseteq Dropped(d)
<1> DEFINE V == TextsUpTo(n) \cup {NoFile}
<1>1. NoFile \in V /\ store \in [Paths -> V]
  BY DEF Trees
<1> HIDE DEF V
<1>2. Requests(d) \in Seq(Paths \X V) /\ ToSet(Requests(d)) = Asked(d)
  BY <1>1, Asks
<1>3. /\ d.op \in FileOps \cup {"delete_folder", "move_folder", "copy_folder"}
      /\ d.op \in FileOps => d.from \in Paths /\ (d.op # "delete_file" => d.to \in Paths)
      /\ d.op \notin FileOps => d.from \in Folders
      /\ d.op \in {"move_folder", "copy_folder"} => d.to \in Folders /\ FitsInto(d.from, d.to)
  BY Arguments
<1>4. \A r \in Asked(d) : r[1] \in Dropped(d)
  <2>1. CASE d.op = "delete_file"
    BY <1>3, <2>1 DEF Asked, FileOps, Dropped, Concerned, FolderOperations, FileOperations
  <2>2. CASE d.op = "move_file"
    BY <1>3, <2>2 DEF Asked, FileOps, Dropped, Concerned, FolderOperations, FileOperations
  <2>3. CASE d.op = "copy_file"
    <3>1. d.from # d.to
      BY <2>3 DEF Spread, FileOperations
    <3>2. d.from \in Paths /\ d.to \in Paths
      BY <1>3, <2>3 DEF FileOps
    <3>3. d.to \in Dropped(d)
      BY <2>3, <3>1, <3>2 DEF Dropped, Concerned, Source, FolderOperations, FileOperations
    <3>4. \A r \in Asked(d) : r[1] = d.to
      BY <2>3 DEF Asked, FileOps
    <3> QED BY <3>3, <3>4
  <2>4. CASE d.op = "delete_folder"
    <3>1. Dropped(d) = Beneath(d.from)
      BY <2>4 DEF Dropped, Concerned, FolderOperations, FileOperations
    <3>2. \A r \in Asked(d) : \E k \in Files(d.from) : r = <<k, NoFile>>
      BY <2>4 DEF Asked, FileOps
    <3> QED BY <3>1, <3>2 DEF Files
  <2>5. CASE d.op = "move_folder"
    <3>1. Dropped(d) = Beneath(d.from) \cup Beneath(d.to)
      BY <2>5 DEF Dropped, Concerned, FolderOperations, FileOperations
    <3>2. \A r \in Asked(d) : \E k \in Files(d.from) : r[1] = k \/ r[1] = Rebased(k, d.from, d.to)
      BY <2>5 DEF Asked, FileOps
    <3>3. \A k \in Files(d.from) : k \in Beneath(d.from) /\ Rebased(k, d.from, d.to) \in Beneath(d.to)
      BY <1>3, <2>5, RebasedBack DEF Files, FileOps
    <3> QED BY <3>1, <3>2, <3>3
  <2>6. CASE d.op = "copy_folder"
    <3>1. Dropped(d) = (Beneath(d.from) \cup Beneath(d.to)) \ Beneath(d.from)
      BY <2>6 DEF Dropped, Concerned, Source, FolderOperations, FileOperations
    <3>2. \A r \in Asked(d) : \E k \in Files(d.from) : r[1] = Rebased(k, d.from, d.to)
      BY <2>6 DEF Asked, FileOps
    <3>3. \A k \in Files(d.from) : Rebased(k, d.from, d.to) \in Beneath(d.to)
      BY <1>3, <2>6, RebasedBack DEF Files, FileOps
    <3>4. Beneath(d.from) \cap Beneath(d.to) = {}
      <4>1. Disjoint(d.from, d.to)
        BY <2>6 DEF Spread, FolderOperations
      <4> QED BY <1>3, <2>6, <4>1, ApartBeneath DEF FileOps
    <3> QED BY <3>1, <3>2, <3>3, <3>4
  <2> QED BY <1>3, <2>1, <2>2, <2>3, <2>4, <2>5, <2>6 DEF FileOps
<1> QED BY <1>2, <1>4 DEF Concerns, Requested, V

\* The write of an operation is awaited: nothing else is on its way.
LEMMA WriteAwaited ==
  ASSUME IInv, NEW c \in Callers, call[c] # Idle, call[c].awaits = "write"
  PROVE  /\ Settled = store /\ \A p \in Paths : Writes(p) = {}
         /\ queue[Len(queue)].requests = Requests(call[c]) /\ Requests(call[c]) # << >>
         /\ Requests(call[c]) \in Requested(edits)
         /\ Concerns(Requests(call[c])) \subseteq Dropped(call[c])
         /\ InFlight = Concerns(Requests(call[c]))
<1>0. Types
  BY DEF IInv
<1>1. /\ DOMAIN queue = 1..Len(queue) /\ Len(queue) \in DOMAIN queue /\ queue[Len(queue)].owner = c
      /\ CallerAwaits(c, queue[Len(queue)].requests)
      /\ IsOperation(call[c]) /\ Spread(call[c])
      /\ \A i \in DOMAIN queue : i < Len(queue) => queue[i].owner = Gone
  BY OperationAwaited
<1>2. /\ queue[Len(queue)].requests = Requests(call[c]) /\ Requests(call[c]) # << >>
      /\ Reads(Len(queue) - 1)
  BY <1>1 DEF CallerAwaits
<1>3. /\ Len(queue) \in Nat /\ edits \in Nat /\ store \in Trees(edits)
  BY <1>0, QueueTyped
<1>4. \A i \in DOMAIN queue : i # Len(queue) => queue[i].requests = << >>
  BY <1>1, <1>2, <1>3 DEF Reads
<1>5. \A p \in Paths : Writes(p) = {}
  <2>1. \A i \in DOMAIN queue : queue[i].owner \in Callers \/ Concerns(queue[i].requests) = {}
    BY <1>1, <1>4, ConcernsNone
  <2> QED BY <2>1 DEF Writes
<1>6. Settled = store
  <2>1. Settled = [p \in Paths |-> store[p]]
    BY <1>5 DEF Settled
  <2> QED BY <1>3, <2>1 DEF Trees
<1>7. InFlight = Concerns(Requests(call[c]))
  <2>1. \A i \in DOMAIN queue : Concerns(queue[i].requests) = {} \/ i = Len(queue)
    BY <1>4, ConcernsNone
  <2> QED BY <1>1, <1>2, <2>1 DEF InFlight
<1>8. Requests(call[c]) \in Requested(edits) /\ Concerns(Requests(call[c])) \subseteq Dropped(call[c])
  BY <1>1, <1>3, AsksConcerned
<1> QED BY <1>2, <1>5, <1>6, <1>7, <1>8

LEMMA ContentsTyped ==
  ASSUME Types
  PROVE  Contents \in Trees(edits)
<1>1. ASSUME NEW p \in Paths
      PROVE  (IF p \in resident THEN file_map[p].text ELSE Settled[p]) \in TextsUpTo(edits) \cup {NoFile}
  BY BufferTyped, SettledIs
<1> QED BY <1>1 DEF Contents, Trees

\* When it takes effect, it does to what the session sees what it is meant to.
LEMMA OperationTakesEffect ==
  ASSUME IInv, NEW c \in Callers, call[c] # Idle, call[c].awaits = "write",
         atRisk \cap Source(call[c]) = {}, file_map' = file_map,
         \A p \in Paths : Settled'[p] = Committed(store, Requests(call[c]))[p]
  PROVE  Contents' = Meant(call[c], Contents)
<1>0. Types
  BY DEF IInv
<1> PICK requests : requests = Requests(call[c])
  OBVIOUS
<1>1. /\ Settled = store /\ requests # << >> /\ requests \in Requested(edits)
      /\ Concerns(requests) \subseteq Dropped(call[c])
  BY WriteAwaited
<1>2. /\ resident \cap Dropped(call[c]) = {} /\ IsOperation(call[c]) /\ Spread(call[c])
  BY OperationAwaited
<1>3. edits \in Nat /\ store \in Trees(edits) /\ Contents \in Trees(edits)
  BY <1>0, QueueTyped, ContentsTyped
<1> DEFINE V == TextsUpTo(edits) \cup {NoFile}
<1>4. NoFile \in V /\ store \in [Paths -> V] /\ Contents \in [Paths -> V]
  BY <1>3 DEF Trees
<1> HIDE DEF V
<1>5. Committed(Contents, requests) = Meant(call[c], Contents)
  <2>1. Carries(call[c], V, requests, store)
    BY <1>1, <1>2, <1>4, RequestsCarry
  <2>2. \A p \in Concerned(call[c]) : p \in Paths => Contents[p] = store[p]
    BY <1>1, OperationSees
  <2>3. Concerned(call[c]) \subseteq Paths
    BY <1>2, ConcernedIs
  <2> QED BY <1>4, <2>1, <2>2, <2>3 DEF Carries
<1>6. resident' = resident
  BY DEF resident
<1>7. ASSUME NEW p \in Paths PROVE Contents'[p] = Committed(Contents, requests)[p]
  <2>1. /\ Contents'[p] = IF p \in resident' THEN file_map'[p].text ELSE Settled'[p]
        /\ Contents[p] = IF p \in resident THEN file_map[p].text ELSE Settled[p]
    BY DEF Contents
  <2>2. CASE p \in resident
    <3>1. p \notin Concerns(requests)
      BY <1>1, <1>2, <2>2
    <3>2. Committed(Contents, requests)[p] = Contents[p]
      BY <1>1, <1>3, <3>1, KeptThere
    <3> QED BY <1>6, <2>1, <2>2, <3>2
  <2>3. CASE p \notin resident /\ p \in Concerns(requests)
    <3>1. Committed(store, requests)[p] = Committed(Contents, requests)[p]
      BY <1>1, <1>3, <2>3, PutThere
    <3> QED BY <1>6, <2>1, <2>3, <3>1
  <2>4. CASE p \notin resident /\ p \notin Concerns(requests)
    <3>1. Committed(Contents, requests)[p] = Contents[p] /\ Committed(store, requests)[p] = store[p]
      BY <1>1, <1>3, <2>4, KeptThere
    <3> QED BY <1>1, <1>6, <2>1, <2>4, <3>1
  <2> QED BY <2>2, <2>3, <2>4
<1>8. Committed(Contents, requests) \in [Paths -> V]
  <2>1. requests \in Seq(Paths \X V)
    BY <1>1 DEF Requested, V
  <2> QED BY <1>4, <2>1, Commits
<1>9. Contents' = [p \in Paths |-> Contents'[p]]
  BY DEF Contents
<1> QED BY <1>5, <1>7, <1>8, <1>9

\* The store's operation has been answered.
ReturnsTo(c) ==
  /\ IF call'[c] = Idle THEN plan' = << >> ELSE plan' = plan
  /\ lapses' = IF call'[c] = Idle /\ Stale(c) THEN lapses + 1 ELSE lapses
  /\ UNCHANGED <<file_map, edits, cancels, atRisk, discards>>

\* The operation does to what the session sees what it is meant to.
Effective(c) ==
  /\ IsOperation(call[c]) /\ Spread(call[c])
  /\ Contents' = Meant(call[c], Contents) /\ UNCHANGED <<lapses, discards>>

\* What a caller's answer is, before what follows it.
LEMMA ReadAnsweredIs ==
  ASSUME IInv, NEW c \in Callers, ReadAnswered(c)
  PROVE  /\ call[c] # Idle /\ call[c].awaits = "read"
         /\ \E answer \in {"ok", "error"}, requests \in Requested(edits) :
              /\ requests = IF answer = "ok" THEN Requests(call[c]) ELSE << >>
              /\ store' = store /\ faults' \in 0..MaxFaults /\ (answer = "ok" <=> faults' = faults)
              /\ queue' = IF requests = << >> THEN RemoveAt(queue, Len(queue))
                          ELSE Append(RemoveAt(queue, Len(queue)), Transaction(c, requests))
              /\ DOMAIN call' = Callers
              /\ call'[c] = IF requests = << >> THEN Idle
                            ELSE [call[c] EXCEPT !.awaits = "write", !.before = store]
         /\ Reads(Len(queue)) /\ Settled = store /\ InFlight = {} /\ \A p \in Paths : Writes(p) = {}
<1>0. Types
  BY DEF IInv
<1>1. call[c].awaits = "read" /\ call[c] # Idle
  BY DEF ReadAnswered, Idle
<1>2. PICK i \in DOMAIN queue : Served(i, c) /\ \E answer \in Answers(i) :
       LET requests == IF answer = "ok" THEN Requests(call[c]) ELSE << >>
       IN  /\ Answer(i, answer, requests)
           /\ call' = [call EXCEPT ![c] = IF requests = << >> THEN Idle
                                ELSE [@ EXCEPT !.awaits = "write", !.before = store]]
  BY DEF ReadAnswered
<1>3. PICK answer \in Answers(i) :
       LET requests == IF answer = "ok" THEN Requests(call[c]) ELSE << >>
       IN  /\ Answer(i, answer, requests)
           /\ call' = [call EXCEPT ![c] = IF requests = << >> THEN Idle
                                ELSE [@ EXCEPT !.awaits = "write", !.before = store]]
  BY <1>2
<1> PICK requests : requests = IF answer = "ok" THEN Requests(call[c]) ELSE << >>
  OBVIOUS
<1>4. /\ Answer(i, answer, requests)
      /\ call' = [call EXCEPT ![c] = IF requests = << >> THEN Idle
                                ELSE [call[c] EXCEPT !.awaits = "write", !.before = store]]
  BY <1>3
<1>5. /\ DOMAIN queue = 1..Len(queue) /\ CallerAwaits(c, queue[Len(queue)].requests)
      /\ \A k \in DOMAIN queue : k < Len(queue) => queue[k].owner = Gone
      /\ c # Gone /\ IsOperation(call[c]) /\ Spread(call[c])
      /\ Len(queue) \in Nat /\ Len(queue) \in DOMAIN queue
  BY <1>0, <1>1, OperationAwaited, QueueTyped
<1>6. i = Len(queue) /\ queue[i].requests = << >>
  BY <1>1, <1>2, <1>5 DEF Served, CallerAwaits
<1>7. Reads(Len(queue))
  BY <1>2, <1>5, <1>6 DEF Reads, Served
<1>8. Settled = store /\ InFlight = {} /\ \A p \in Paths : Writes(p) = {}
  BY <1>0, <1>7, NothingInFlight
<1>9. edits \in Nat /\ store \in Trees(edits) /\ faults \in 0..MaxFaults /\ MaxFaults \in Nat /\ DOMAIN call = Callers
  BY <1>0, StoreAssumption, QueueTyped DEF Types
<1>10. requests \in Requested(edits)
  BY <1>5, <1>9, AsksConcerned, NoRequest
<1>11. answer \in {"ok", "error"} /\ (answer = "error" => faults # MaxFaults)
  BY <1>6 DEF Answers
<1>12. Committed(store, << >>) = store
  <2>1. DOMAIN << >> = {}
    OBVIOUS
  <2>2. Committed(store, << >>) = [p \in Paths |-> store[p]]
    BY <2>1 DEF Committed
  <2> QED BY <1>9, <2>2 DEF Trees
<1>13. store' = store /\ faults' \in 0..MaxFaults /\ (answer = "ok" <=> faults' = faults)
  BY <1>4, <1>6, <1>9, <1>11, <1>12 DEF Answer
<1>14. queue' = IF requests = << >> THEN RemoveAt(queue, Len(queue))
                ELSE Append(RemoveAt(queue, Len(queue)), Transaction(c, requests))
  <2>1. queue[i].owner = c
    BY <1>2 DEF Served
  <2> QED BY <1>4, <1>6, <2>1 DEF Answer
<1>15. /\ DOMAIN call' = Callers
       /\ call'[c] = IF requests = << >> THEN Idle
                     ELSE [call[c] EXCEPT !.awaits = "write", !.before = store]
  BY <1>4, <1>9
<1> QED BY <1>1, <1>7, <1>8, <1>10, <1>11, <1>13, <1>14, <1>15

LEMMA ReadAnsweredInv ==
  ASSUME IInv, NEW c \in Callers, ReadAnswered(c), ReturnsTo(c)
  PROVE  IInv' /\ Quiet
<1>0. Types /\ QueueAgrees /\ CallsAgree /\ PlanAgrees /\ BuffersSound
  BY DEF IInv
<1>1. /\ call[c] # Idle /\ call[c].awaits = "read"
      /\ Reads(Len(queue)) /\ Settled = store /\ InFlight = {} /\ \A p \in Paths : Writes(p) = {}
  BY ReadAnsweredIs
<1>2. PICK answer \in {"ok", "error"}, requests \in Requested(edits) :
        /\ requests = IF answer = "ok" THEN Requests(call[c]) ELSE << >>
        /\ store' = store /\ faults' \in 0..MaxFaults
        /\ queue' = IF requests = << >> THEN RemoveAt(queue, Len(queue))
                    ELSE Append(RemoveAt(queue, Len(queue)), Transaction(c, requests))
        /\ DOMAIN call' = Callers
        /\ call'[c] = IF requests = << >> THEN Idle
                      ELSE [call[c] EXCEPT !.awaits = "write", !.before = store]
  BY ReadAnsweredIs
<1>3. /\ plan # << >> /\ Head(plan)[1] = "store" /\ IsOperation(call[c]) /\ Spread(call[c])
      /\ DOMAIN queue = 1..Len(queue) /\ Len(queue) \in DOMAIN queue /\ queue[Len(queue)].owner = c
      /\ \A i \in DOMAIN queue : i < Len(queue) => queue[i].owner = Gone
      /\ \A d \in Callers : d = c
      /\ resident \cap Dropped(call[c]) = {}
      /\ c # Gone /\ c # Guard
      /\ Len(queue) \in Nat /\ edits \in Nat /\ store \in Trees(edits) /\ queue \in Seq(Entries(edits))
  BY <1>0, <1>1, OperationAwaited, QueueTyped
<1>4. /\ UNCHANGED <<file_map, edits, cancels, atRisk, lapses, discards>>
      /\ IF call'[c] = Idle THEN plan' = << >> ELSE plan' = plan
  BY <1>1 DEF ReturnsTo, Stale
<1>5. resident' = resident /\ resident' \subseteq Paths
  <2>1. resident' = resident
    BY <1>4 DEF resident
  <2> QED BY <1>0, <2>1 DEF Types
<1>q. /\ RemoveAt(queue, Len(queue)) \in Seq(Entries(edits)) /\ Len(RemoveAt(queue, Len(queue))) = Len(queue) - 1
      /\ \A k \in 1..(Len(queue) - 1) : RemoveAt(queue, Len(queue))[k] = queue[k]
  <2> PICK S : S = Entries(edits)
    OBVIOUS
  <2>1. queue \in Seq(S) /\ Len(queue) \in DOMAIN queue /\ Len(queue) \in Nat
    BY <1>3
  <2> PICK i : i = Len(queue)
    OBVIOUS
  <2>2. /\ RemoveAt(queue, i) \in Seq(S) /\ Len(RemoveAt(queue, i)) = Len(queue) - 1
        /\ \A k \in 1..(Len(queue) - 1) : RemoveAt(queue, i)[k] = IF k < i THEN queue[k] ELSE queue[k + 1]
    BY <2>1, RemovedAt
  <2>3. \A k \in 1..(Len(queue) - 1) : k < i
    BY <2>1
  <2> QED BY <2>2, <2>3
<1>6. CASE requests = << >>
  <2>1. call'[c] = Idle /\ plan' = << >> /\ queue' = RemoveAt(queue, Len(queue))
    BY <1>2, <1>4, <1>6
  <2>2. QueueAgrees' /\ queue' \in Seq(Entries(edits))
    BY <1>0, <1>3, <1>q, <2>1, AwaitedLeaves
  <2>3. CallsAgree'
    BY <1>3, <2>1 DEF CallsAgree
  <2>4. PlanAgrees'
    BY <2>1, PlanEnds
  <2>5. Types'
    <3>1. plan' \in Seq(Step)
      BY <2>1
    <3> QED BY <1>0, <1>2, <1>3, <1>4, <1>5, <2>2, <3>1 DEF Types
  <2>6. InFlight' = {} /\ \A p \in Paths : Settled'[p] = store[p]
    <3>1. InFlight' \subseteq InFlight
      BY <1>0, <1>3, <2>1, RemoveEffect
    <3>2. \A p \in Paths : p \notin Concerns(queue[Len(queue)].requests)
      BY <1>1, <1>3, ConcernsNone DEF Reads
    <3>3. \A p \in Paths : Settled'[p] = Settled[p]
      BY <1>0, <1>2, <1>3, <2>1, <3>2, RemoveSettles
    <3> QED BY <1>1, <3>1, <3>3
  <2>7. BuffersSound'
    <3>1. ASSUME NEW p \in resident' PROVE Sound(p)'
      BY <1>0, <1>1, <1>4, <1>5, <2>6, <3>1, SoundStays DEF BuffersSound
    <3> QED BY <3>1 DEF BuffersSound
  <2>8. Contents' = Contents
    BY <1>1, <1>4, <2>6, SameContents
  <2> QED BY <1>4, <2>2, <2>3, <2>4, <2>5, <2>7, <2>8 DEF IInv, Quiet
<1>7. CASE requests # << >>
  <2> PICK last : last = Len(queue)
    OBVIOUS
  <2>1. /\ requests = Requests(call[c])
        /\ call'[c] = [call[c] EXCEPT !.awaits = "write", !.before = store]
        /\ queue' = Append(RemoveAt(queue, last), Transaction(c, requests))
    BY <1>2, <1>7
  <2>2. /\ call'[c].op = call[c].op /\ call'[c].from = call[c].from /\ call'[c].to = call[c].to
        /\ call'[c].awaits = "write" /\ DOMAIN call'[c] = DOMAIN Idle /\ call'[c] # Idle
    <3>1. DOMAIN call[c] = DOMAIN Idle
      BY <1>0, <1>1 DEF CallsAgree
    <3>2. DOMAIN Idle = {"op", "from", "to", "awaits", "before"} /\ Idle.awaits = "none"
      BY DEF Idle
    <3>3. DOMAIN call'[c] = DOMAIN call[c]
      BY <2>1
    <3>4. /\ call'[c].op = call[c].op /\ call'[c].from = call[c].from /\ call'[c].to = call[c].to
          /\ call'[c].awaits = "write"
      BY <2>1, <3>1, <3>2
    <3> QED BY <3>1, <3>2, <3>3, <3>4
  <2>3. plan' = plan
    BY <1>4, <2>2
  <2>4. /\ Len(queue') = last /\ DOMAIN queue' = 1..last /\ last \in 1..last
        /\ \A k \in 1..(last - 1) : queue'[k] = queue[k]
        /\ queue'[last] = Transaction(c, requests)
        /\ queue' \in Seq(Entries(edits))
    <3>1. Transaction(c, requests) \in Entries(edits)
      BY DEF Transaction, Entries, Requested
    <3> PICK r : r = RemoveAt(queue, last)
      OBVIOUS
    <3>2. /\ r \in Seq(Entries(edits)) /\ Len(r) = last - 1 /\ last \in Nat /\ last >= 1
          /\ \A k \in 1..(last - 1) : r[k] = queue[k]
      BY <1>3, <1>q
    <3>3. queue' = Append(r, Transaction(c, requests))
      BY <2>1
    <3> HIDE DEF Entries
    <3> QED BY <3>1, <3>2, <3>3
  <2>5. queue'[last].owner = c /\ queue'[last].requests = requests
    BY <2>4 DEF Transaction
  <2>6. \A k \in DOMAIN queue' : k # last => queue'[k].owner = Gone /\ queue'[k].requests = << >>
    BY <1>1, <1>3, <2>4 DEF Reads
  <2>7. Waiting'
    BY <1>3, <2>4, <2>5 DEF Waiting
  <2>8. CallerAwaits(c, requests)'
    <3>1. Requests(call[c])' = Requests(call[c])
      <4> PICK d : d = call'[c]
        OBVIOUS
      <4>0. store' = store /\ d = call'[c]
        BY <1>2
      <4>1. Requests(d)' = Requests(d)
        BY <4>0 DEF Requests, delete_file, move_file, copy_file, delete_folder, move_folder, copy_folder, Keys, Present
      <4>2. Requests(d) = Requests(call[c])
        BY <2>2, SameArguments
      <4>3. Requests(call[c])' = Requests(d)'
        BY <4>0 DEF Requests
      <4> QED BY <4>1, <4>2, <4>3
    <3>2. Reads(Len(queue) - 1)'
      BY <2>4, <2>6 DEF Reads
    <3> QED BY <1>7, <2>1, <2>2, <3>1, <3>2 DEF CallerAwaits
  <2>9. QueueAgrees'
    <3>1. ASSUME NEW k \in DOMAIN queue', queue'[k].owner # Gone
          PROVE  k = Len(queue') /\ queue'[k].owner = c /\ queue'[k].requests = requests
      BY <2>4, <2>5, <2>6, <3>1
    <3>2. plan' # << >>
      BY <1>3, <2>3
    <3> QED BY <1>3, <2>2, <2>8, <3>1, <3>2 DEF QueueAgrees
  <2>10. CallsAgree'
    <3>1. Awaits({"store"})' /\ Path' = Path
      BY <1>3, <2>3 DEF Awaits, Path
    <3>2. call[c].op = Path.op /\ call[c].from = Path.from /\ call[c].to = Path.to
      BY <1>0, <1>1 DEF CallsAgree
    <3> QED BY <1>3, <2>2, <2>4, <2>5, <3>1, <3>2 DEF CallsAgree
  <2>11. InFlight' = Concerns(requests)
    <3>1. \A k \in DOMAIN queue' : Concerns(queue'[k].requests) = {} \/ k = last
      BY <2>6, ConcernsNone
    <3>2. last \in DOMAIN queue' /\ Concerns(queue'[last].requests) = Concerns(requests)
      BY <2>4, <2>5
    <3>3. \A k \in DOMAIN queue' : Concerns(queue'[k].requests) \subseteq Concerns(requests)
      BY <3>1, <3>2
    <3>4. InFlight' = UNION {Concerns(queue'[k].requests) : k \in DOMAIN queue'}
      BY DEF InFlight, Concerns
    <3> HIDE DEF Concerns
    <3> QED BY <3>2, <3>3, <3>4
  <2>12. \A p \in resident : p \notin InFlight'
    <3>1. Concerns(requests) \subseteq Dropped(call[c])
      BY <1>3, <2>1, AsksConcerned
    <3> QED BY <1>3, <2>11, <3>1
  <2>13. Types'
    BY <1>0, <1>2, <1>4, <1>5, <2>3, <2>4 DEF Types
  <2>14. \A p \in Paths : Settled'[p] = store[p]
    <3>1. ASSUME NEW p \in Paths PROVE Writes(p)' = {}
      <4>1. ASSUME NEW k \in DOMAIN queue'
            PROVE  queue'[k].owner \in Callers \/ Concerns(queue'[k].requests) = {}
        BY <2>5, <2>6, ConcernsNone
      <4> QED BY <4>1 DEF Writes, Concerns
    <3>2. ASSUME NEW p \in Paths PROVE Settled'[p] = store'[p]
      BY <3>1 DEF Settled
    <3> QED BY <1>2, <3>2
  <2>15. BuffersSound'
    <3>1. ASSUME NEW p \in resident' PROVE Sound(p)'
      BY <1>0, <1>1, <1>4, <1>5, <2>12, <2>14, <3>1, SoundStays DEF BuffersSound
    <3> QED BY <3>1 DEF BuffersSound
  <2>16. PlanAgrees'
    <3>1. \A p \in resident : Clean(p) => Clean(p)'
      BY <1>2, <1>4, <2>12 DEF Clean
    <3>2. Preserves
      BY <1>5, <3>1 DEF Preserves
    <3> QED BY <1>0, <1>3, <1>4, <1>5, <2>3, <2>7, <3>2, PlanStays
  <2>17. Contents' = Contents
    BY <1>1, <1>4, <2>14, SameContents
  <2> QED BY <1>4, <2>9, <2>10, <2>13, <2>15, <2>16, <2>17 DEF IInv, Quiet
<1> QED BY <1>6, <1>7

\* The write has been answered: it has been put there, or there is no trace of it.
LEMMA WriteAnsweredIs ==
  ASSUME IInv, NEW c \in Callers, WriteAnswered(c)
  PROVE  /\ call[c] # Idle /\ call[c].awaits = "write"
         /\ 1 \in DOMAIN queue /\ Len(queue) = 1 /\ queue[1].owner = c /\ queue' = RemoveAt(queue, 1)
         /\ store' \in Trees(edits) /\ faults' \in 0..MaxFaults
         /\ InFlight' = {} /\ Settled' = store'
         /\ \/ faults' = faults /\ store' = Committed(store, Requests(call[c]))
            \/ faults' # faults /\ store' = store
         /\ DOMAIN call' = Callers /\ call'[c] = Idle
<1>0. Types /\ QueueAgrees
  BY DEF IInv
<1>1. /\ call[c].awaits = "write" /\ call[c] # Idle
      /\ 1 \in DOMAIN queue /\ queue[1].owner = c /\ c # Gone
      /\ call' = [call EXCEPT ![c] = Idle]
  BY ConstantsAssumption DEF WriteAnswered, Idle, Served
<1>2. PICK answer \in Answers(1) : Answer(1, answer, << >>)
  BY DEF WriteAnswered
<1>3. /\ Len(queue) = 1 /\ queue' = RemoveAt(queue, 1)
      /\ store' \in Trees(edits) /\ faults' \in 0..MaxFaults
      /\ answer = "ok" => store' = Committed(store, queue[1].requests) /\ faults' = faults
      /\ answer # "ok" => store' = store /\ faults' # faults
      /\ InFlight' = {} /\ Settled' = store'
  BY <1>0, <1>1, <1>2, WriteDone
<1>4. queue[1].requests = Requests(call[c])
  BY <1>1, <1>3, WriteAwaited
<1>5. DOMAIN call' = Callers /\ call'[c] = Idle
  BY <1>0, <1>1 DEF Types
<1>6. \/ faults' = faults /\ store' = Committed(store, Requests(call[c]))
      \/ faults' # faults /\ store' = store
  BY <1>3, <1>4
<1> QED BY <1>1, <1>3, <1>5, <1>6

LEMMA WriteActs ==
  ASSUME IInv, NEW c \in Callers, WriteAnswered(c), file_map' = file_map, atRisk \cap Source(call[c]) = {},
         faults' = faults
  PROVE  Contents' = Meant(call[c], Contents)
<1>1. /\ call[c] # Idle /\ call[c].awaits = "write"
      /\ Settled' = store' /\ store' = Committed(store, Requests(call[c]))
  BY WriteAnsweredIs
<1>2. \A p \in Paths : Settled'[p] = Committed(store, Requests(call[c]))[p]
  BY <1>1
<1> QED BY <1>1, <1>2, OperationTakesEffect

LEMMA WriteAnsweredInv ==
  ASSUME IInv, NEW c \in Callers, WriteAnswered(c), ReturnsTo(c)
  PROVE  IInv' /\ (Quiet \/ lapses' = lapses + 1 \/ Effective(c))
<1>0. Types /\ QueueAgrees /\ CallsAgree /\ BuffersSound
  BY DEF IInv
<1>1. /\ call[c] # Idle /\ call[c].awaits = "write"
      /\ 1 \in DOMAIN queue /\ Len(queue) = 1 /\ queue[1].owner = c /\ queue' = RemoveAt(queue, 1)
      /\ store' \in Trees(edits) /\ faults' \in 0..MaxFaults
      /\ InFlight' = {} /\ Settled' = store'
      /\ \/ faults' = faults /\ store' = Committed(store, Requests(call[c]))
         \/ faults' # faults /\ store' = store
      /\ DOMAIN call' = Callers /\ call'[c] = Idle
  BY WriteAnsweredIs
<1>2. /\ Settled = store /\ Requests(call[c]) \in Requested(edits)
      /\ Concerns(Requests(call[c])) \subseteq Dropped(call[c])
  BY <1>1, WriteAwaited
<1>3. /\ resident \cap Dropped(call[c]) = {} /\ \A d \in Callers : d = c
      /\ IsOperation(call[c]) /\ Spread(call[c]) /\ c # Gone
  BY <1>1, OperationAwaited
<1>4. /\ UNCHANGED <<file_map, edits, cancels, atRisk, discards>> /\ plan' = << >>
      /\ lapses' = IF Stale(c) THEN lapses + 1 ELSE lapses
  BY <1>1 DEF ReturnsTo
<1>5. resident' = resident /\ resident' \subseteq Paths
  <2>1. resident' = resident
    BY <1>4 DEF resident
  <2> QED BY <1>0, <2>1 DEF Types
<1>6. QueueAgrees' /\ CallsAgree' /\ PlanAgrees'
  <2>1. QueueAgrees'
    BY <1>0, <1>1, <1>3, AwaitedLeaves
  <2>2. CallsAgree'
    BY <1>1, <1>3 DEF CallsAgree
  <2> QED BY <1>4, <2>1, <2>2, PlanEnds
<1>7. Types'
  <2>1. queue' \in Seq(Entries(edits)) /\ plan' \in Seq(Step)
    BY <1>0, <1>1, <1>4, RemoveEffect
  <2>2. lapses' \in Nat
    BY <1>0, <1>4 DEF Types
  <2> QED BY <1>0, <1>1, <1>4, <1>5, <2>1, <2>2 DEF Types
<1>8. \A p \in resident : Settled'[p] = Settled[p]
  <2>1. ASSUME NEW p \in resident PROVE store'[p] = store[p]
    <3>1. p \in Paths /\ p \notin Concerns(Requests(call[c])) /\ edits \in Nat /\ store \in Trees(edits)
      BY <1>0, <1>2, <1>3, BufferTyped, QueueTyped
    <3>2. Committed(store, Requests(call[c]))[p] = store[p]
      BY <1>2, <3>1, KeptThere
    <3> QED BY <1>1, <3>2
  <2> QED BY <1>1, <1>2, <2>1
<1>9. BuffersSound'
  <2>1. ASSUME NEW p \in resident' PROVE Sound(p)'
    BY <1>0, <1>1, <1>4, <1>5, <1>8, <2>1, SoundStays DEF BuffersSound
  <2> QED BY <2>1 DEF BuffersSound
<1>10. Quiet \/ lapses' = lapses + 1 \/ Effective(c)
  <2>1. CASE Stale(c)
    BY <1>4, <2>1
  <2>2. CASE ~Stale(c) /\ faults' = faults
    <3>1. atRisk \cap Source(call[c]) = {}
      BY <1>1, <2>2 DEF Stale
    <3>2. Contents' = Meant(call[c], Contents)
      BY <1>4, <2>2, <3>1, WriteActs
    <3> QED BY <1>3, <1>4, <2>2, <3>2 DEF Effective
  <2>3. CASE ~Stale(c) /\ store' = store
    <3>1. Contents' = Contents
      BY <1>1, <1>2, <1>4, <2>3, SameContents
    <3> QED BY <1>4, <2>3, <3>1 DEF Quiet
  <2> QED BY <1>1, <2>1, <2>2, <2>3
<1> QED BY <1>6, <1>7, <1>9, <1>10 DEF IInv

LEMMA OperationReturnedInv ==
  ASSUME IInv, OperationReturned
  PROVE  IInv' /\ (Quiet \/ lapses' = lapses + 1 \/ \E c \in Callers : Effective(c))
<1>1. PICK c \in Callers : (ReadAnswered(c) \/ WriteAnswered(c)) /\ ReturnsTo(c)
  BY DEF OperationReturned, ReturnsTo, Return
<1>2. CASE ReadAnswered(c)
  BY <1>1, <1>2, ReadAnsweredInv
<1>3. CASE WriteAnswered(c)
  BY <1>1, <1>3, WriteAnsweredInv
<1> QED BY <1>1, <1>2, <1>3

\* What an operation that ends without a fault was right about.
LEMMA OperationActs ==
  ASSUME IInv, OperationReturned, NEW c \in Callers, call[c] # Idle, call'[c] = Idle,
         faults' = faults, atRisk = {}
  PROVE  /\ call[c].awaits = "write" => Contents' = Meant(call[c], Contents)
         /\ call[c].awaits # "write" => Present(Contents) \cap Source(call[c]) = {}
<1>0. Types
  BY DEF IInv
<1>1. PICK d \in Callers : (ReadAnswered(d) \/ WriteAnswered(d)) /\ ReturnsTo(d)
  BY DEF OperationReturned, ReturnsTo, Return
<1>2. /\ d = c /\ IsOperation(call[c]) /\ Spread(call[c])
  BY OperationAwaited
<1>3. ReadAnswered(c) \/ WriteAnswered(c)
  BY <1>1, <1>2
<1>4. CASE WriteAnswered(c)
  <2>1. file_map' = file_map
    BY <1>1 DEF ReturnsTo
  <2>2. Contents' = Meant(call[c], Contents)
    BY <1>4, <2>1, WriteActs
  <2>3. call[c].awaits = "write"
    BY <1>4 DEF WriteAnswered
  <2> QED BY <2>2, <2>3
<1>5. CASE ReadAnswered(c)
  <2>1. call[c].awaits = "read" /\ Settled = store
    BY <1>5, ReadAnsweredIs
  <2>2. PICK answer \in {"ok", "error"}, requests \in Requested(edits) :
          /\ requests = IF answer = "ok" THEN Requests(call[c]) ELSE << >>
          /\ answer = "ok" <=> faults' = faults
          /\ call'[c] = IF requests = << >> THEN Idle
                        ELSE [call[c] EXCEPT !.awaits = "write", !.before = store]
    BY <1>5, ReadAnsweredIs
  <2>3. Requests(call[c]) = << >>
    <3>1. Idle.awaits = "none" /\ DOMAIN Idle = {"op", "from", "to", "awaits", "before"}
      BY DEF Idle
    <3>2. DOMAIN call[c] = DOMAIN Idle
      BY DEF IInv, CallsAgree
    <3>3. [call[c] EXCEPT !.awaits = "write", !.before = store].awaits = "write"
      BY <3>1, <3>2
    <3> QED BY <2>2, <3>1, <3>3
  <2>4. ASSUME NEW p \in Source(call[c]), p \in Paths PROVE Contents[p] = NoFile
    <3> DEFINE V == TextsUpTo(edits) \cup {NoFile}
    <3>1. NoFile \in V /\ store \in [Paths -> V]
      BY <1>0, QueueTyped DEF Trees
    <3> HIDE DEF V
    <3>2. IF call[c].op \in FileOps THEN store[call[c].from] = NoFile ELSE Files(call[c].from) = {}
      BY <1>2, <2>3, <3>1, NothingAsked
    <3>3. call[c].op \in FileOps \cup {"delete_folder", "move_folder", "copy_folder"}
      BY <1>2, Arguments
    <3>4. store[p] = NoFile /\ p \in Concerned(call[c])
      <4>1. CASE call[c].op \in FileOps
        BY <2>4, <3>2, <4>1 DEF FileOps, Source, Concerned, FolderOperations, FileOperations
      <4>2. CASE call[c].op \in {"delete_folder", "move_folder", "copy_folder"}
        <5>1. p \in Beneath(call[c].from) /\ p \in Concerned(call[c])
          BY <2>4, <4>2 DEF Source, Concerned, FolderOperations, FileOperations
        <5>2. Files(call[c].from) = {}
          BY <3>2, <4>2 DEF FileOps
        <5> QED BY <2>4, <5>1, <5>2 DEF Files, Present
      <4> QED BY <3>3, <4>1, <4>2
    <3> QED BY <2>1, <2>4, <3>4, OperationSees
  <2>5. Present(Contents) \cap Source(call[c]) = {}
    BY <2>4 DEF Present
  <2> QED BY <2>1, <2>5
<1> QED BY <1>3, <1>4, <1>5

-----------------------------------------------------------------------------
(* Calls that are dropped, and what they leave behind.                     *)

\* A dropped call leaves its transactions where they are.
LEMMA CancelledQueue ==
  ASSUME Types, queue' = [i \in DOMAIN queue |-> [queue[i] EXCEPT !.owner = Gone]], store' = store
  PROVE  /\ DOMAIN queue' = DOMAIN queue /\ queue' \in Seq(Entries(edits))
         /\ \A i \in DOMAIN queue : queue'[i].owner = Gone /\ queue'[i].requests = queue[i].requests
         /\ InFlight' = InFlight
         /\ \A p \in Paths :
              (\A i \in DOMAIN queue : queue[i].owner \in Callers => p \notin Concerns(queue[i].requests))
                => Settled'[p] = Settled[p]
<1>1. ASSUME NEW i \in DOMAIN queue
      PROVE  /\ queue'[i].owner = Gone /\ queue'[i].requests = queue[i].requests
             /\ queue'[i] \in Entries(edits)
  <2>1. /\ queue[i].owner \in Callers \cup {Guard, Gone} /\ queue[i].requests \in Requested(edits)
        /\ queue[i] = [owner |-> queue[i].owner, requests |-> queue[i].requests]
    BY EntryTyped DEF Transaction
  <2>2. [queue[i] EXCEPT !.owner = Gone] = [owner |-> Gone, requests |-> queue[i].requests]
    BY <2>1
  <2>3. queue'[i] = [owner |-> Gone, requests |-> queue[i].requests]
    BY <2>2
  <2> QED BY <2>1, <2>3 DEF Entries, Requested
<1>2. DOMAIN queue' = DOMAIN queue /\ DOMAIN queue = 1..Len(queue) /\ Len(queue) \in Nat
  BY QueueTyped
<1>3. queue' \in Seq(Entries(edits))
  <2> DEFINE S == Entries(edits)
  <2>1. \A i \in 1..Len(queue) : queue'[i] \in S
    BY <1>1, <1>2
  <2> HIDE DEF S
  <2>2. queue' \in [1..Len(queue) -> S]
    BY <1>2, <2>1
  <2> QED BY <1>2, <2>2 DEF S
<1>4. InFlight' = InFlight
  <2>1. \A i \in DOMAIN queue : Concerns(queue'[i].requests) = Concerns(queue[i].requests)
    BY <1>1
  <2>2. InFlight' = UNION {Concerns(queue'[i].requests) : i \in DOMAIN queue'}
    BY DEF InFlight, Concerns
  <2> QED BY <1>2, <2>1, <2>2 DEF InFlight
<1>5. ASSUME NEW p \in Paths,
             \A i \in DOMAIN queue : queue[i].owner \in Callers => p \notin Concerns(queue[i].requests)
      PROVE  Settled'[p] = Settled[p]
  <2>1. Writes(p)' = Writes(p)
    <3>1. \A i \in DOMAIN queue : Concerns(queue'[i].requests) = Concerns(queue[i].requests) /\ queue'[i].owner \notin Callers
      BY <1>1, ConstantsAssumption
    <3>2. Writes(p)' = {i \in DOMAIN queue' : queue'[i].owner \notin Callers /\ p \in Concerns(queue'[i].requests)}
      BY DEF Writes, Concerns
    <3> QED BY <1>2, <1>5, <3>1, <3>2 DEF Writes
  <2>2. CASE Writes(p) = {}
    BY <2>1, <2>2 DEF Settled
  <2>3. CASE Writes(p) # {}
    <3>1. PICK j \in Writes(p) : \A k \in Writes(p) : k <= j
      BY <2>3, SettledIs DEF LastWrite
    <3>2. Max(Writes(p)) = j
      <4>1. Writes(p) \in SUBSET Nat
        BY <1>2 DEF Writes
      <4> QED BY <3>1, <4>1, GreatestOf
    <3>3. j \in DOMAIN queue /\ queue'[j].requests = queue[j].requests
      BY <1>1, <3>1 DEF Writes
    <3>4. Settled[p] = Committed(store, queue[j].requests)[p]
      BY <2>3, <3>2 DEF Settled
    <3>5. Settled'[p] = Committed(store', queue'[Max(Writes(p)')].requests)[p]
      BY <2>1, <2>3 DEF Settled, Committed
    <3> QED BY <2>1, <3>2, <3>3, <3>4, <3>5
  <2> QED BY <2>2, <2>3
<1> QED BY <1>1, <1>2, <1>3, <1>4, <1>5

\* The write of an operation that is dropped will be carried out all the same.
LEMMA CancelledWrite ==
  ASSUME IInv, NEW c \in Callers, call[c] # Idle, call[c].awaits = "write",
         queue' = [i \in DOMAIN queue |-> [queue[i] EXCEPT !.owner = Gone]], store' = store,
         NEW p \in Paths
  PROVE  Settled'[p] = Committed(store, Requests(call[c]))[p]
<1>0. Types
  BY DEF IInv
<1>1. /\ DOMAIN queue' = DOMAIN queue
      /\ \A i \in DOMAIN queue : queue'[i].owner = Gone /\ queue'[i].requests = queue[i].requests
  BY <1>0, CancelledQueue
<1> PICK requests : requests = Requests(call[c])
  OBVIOUS
<1> PICK last : last = Len(queue)
  OBVIOUS
<1>2. /\ queue[last].requests = requests /\ requests \in Requested(edits)
      /\ last \in DOMAIN queue /\ CallerAwaits(c, queue[last].requests)
      /\ DOMAIN queue = 1..last /\ last \in Nat
  BY <1>0, WriteAwaited, OperationAwaited, QueueTyped
<1>3. \A i \in DOMAIN queue : i # last => Concerns(queue'[i].requests) = {}
  BY <1>1, <1>2, ConcernsNone DEF CallerAwaits, Reads
<1>4. Writes(p)' = {i \in DOMAIN queue' : queue'[i].owner \notin Callers /\ p \in Concerns(queue'[i].requests)}
  BY DEF Writes, Concerns
<1>5. Gone \notin Callers
  BY ConstantsAssumption
<1>6. CASE p \in Concerns(requests)
  <2>1. Writes(p)' = {last}
    <3>1. \A i \in DOMAIN queue' : p \in Concerns(queue'[i].requests) => i = last
      BY <1>1, <1>3
    <3>2. /\ last \in DOMAIN queue' /\ p \in Concerns(queue'[last].requests)
          /\ queue'[last].owner \notin Callers
      BY <1>1, <1>2, <1>5, <1>6
    <3> QED BY <1>4, <3>1, <3>2
  <2>2. Settled'[p] = Committed(store', queue'[last].requests)[p]
    <3>1. Settled'[p] = IF Writes(p)' = {} THEN store'[p]
                        ELSE Committed(store', queue'[Max(Writes(p)')].requests)[p]
      BY DEF Settled, Writes, Concerns, Committed
    <3>2. {last} \in SUBSET Nat /\ last \in {last} /\ \A k \in {last} : k <= last
      BY <1>2
    <3>3. Max({last}) = last
      BY <3>2, GreatestOf
    <3> QED BY <2>1, <3>1, <3>3
  <2> QED BY <1>1, <1>2, <2>2
<1>7. CASE p \notin Concerns(requests)
  <2>1. Writes(p)' = {}
    BY <1>1, <1>2, <1>3, <1>4, <1>7
  <2>2. Settled'[p] = store'[p]
    BY <2>1 DEF Settled
  <2>3. Committed(store, requests)[p] = store[p]
    <3>1. edits \in Nat /\ store \in Trees(edits)
      BY <1>0, QueueTyped
    <3> QED BY <1>2, <1>7, <3>1, KeptThere
  <2> QED BY <2>2, <2>3
<1> QED BY <1>6, <1>7

LEMMA CancelTyped ==
  ASSUME IInv, Cancel
  PROVE  /\ Types' /\ QueueAgrees' /\ CallsAgree' /\ PlanAgrees'
         /\ resident' = resident /\ InFlight' = InFlight
         /\ queue' = [i \in DOMAIN queue |-> [queue[i] EXCEPT !.owner = Gone]]
         /\ call' = [c \in Callers |-> Idle]
         /\ UNCHANGED <<store, faults, file_map, edits, atRisk, discards>>
         /\ lapses' = IF \E c \in Callers : Stale(c) THEN lapses + 1 ELSE lapses
<1>0. Types /\ QueueAgrees
  BY DEF IInv
<1>1. /\ Waiting /\ Mishaps < MaxMishaps /\ cancels' = cancels + 1 /\ plan' = << >>
      /\ queue' = [i \in DOMAIN queue |-> [queue[i] EXCEPT !.owner = Gone]]
      /\ call' = [c \in Callers |-> Idle]
      /\ UNCHANGED <<store, faults, file_map, edits, atRisk, discards>>
      /\ lapses' = IF \E c \in Callers : Stale(c) THEN lapses + 1 ELSE lapses
  BY DEF Cancel, Return
<1>2. /\ DOMAIN queue' = DOMAIN queue /\ queue' \in Seq(Entries(edits))
      /\ \A i \in DOMAIN queue : queue'[i].owner = Gone
      /\ InFlight' = InFlight
  BY <1>0, <1>1, CancelledQueue
<1>3. QueueAgrees' /\ CallsAgree' /\ PlanAgrees'
  <2>1. QueueAgrees'
    BY <1>2 DEF QueueAgrees
  <2>2. CallsAgree'
    BY <1>1 DEF CallsAgree
  <2> QED BY <1>1, <2>1, <2>2, PlanEnds
<1>4. resident' = resident /\ resident' \subseteq Paths
  <2>1. resident' = resident
    BY <1>1 DEF resident
  <2> QED BY <1>0, <2>1 DEF Types
<1>5. cancels' \in 0..MaxMishaps
  BY <1>0, <1>1, ConstantsAssumption, StoreAssumption DEF Types, Mishaps
<1>6. plan' \in Seq(Step) /\ lapses' \in Nat /\ DOMAIN call' = Callers
  BY <1>0, <1>1 DEF Types
<1>7. Types'
  BY <1>0, <1>1, <1>2, <1>4, <1>5, <1>6 DEF Types
<1> QED BY <1>1, <1>2, <1>3, <1>4, <1>7

LEMMA CancelActs ==
  ASSUME IInv, Cancel, NEW c \in Callers, call[c] # Idle, call[c].awaits = "write", atRisk \cap Source(call[c]) = {}
  PROVE  Contents' = Meant(call[c], Contents)
<1>1. /\ Types' /\ queue' = [i \in DOMAIN queue |-> [queue[i] EXCEPT !.owner = Gone]]
      /\ file_map' = file_map /\ store' = store
  BY CancelTyped
<1>2. \A p \in Paths : Settled'[p] = Committed(store, Requests(call[c]))[p]
  BY <1>1, CancelledWrite
<1> QED BY <1>1, <1>2, OperationTakesEffect

LEMMA CancelInv ==
  ASSUME IInv, Cancel
  PROVE  IInv' /\ (Quiet \/ lapses' = lapses + 1 \/ \E c \in Callers : Effective(c))
<1>0. Types /\ QueueAgrees /\ CallsAgree /\ BuffersSound
  BY DEF IInv
<1>1. /\ Types' /\ QueueAgrees' /\ CallsAgree' /\ PlanAgrees'
      /\ resident' = resident /\ InFlight' = InFlight
      /\ queue' = [i \in DOMAIN queue |-> [queue[i] EXCEPT !.owner = Gone]]
      /\ UNCHANGED <<store, faults, file_map, edits, atRisk, discards>>
      /\ lapses' = IF \E c \in Callers : Stale(c) THEN lapses + 1 ELSE lapses
  BY CancelTyped
<1>2. CASE \E c \in Callers : call[c] # Idle /\ call[c].awaits = "write"
  <2>1. PICK c \in Callers : call[c] # Idle /\ call[c].awaits = "write"
    BY <1>2
  <2>2. /\ Settled = store /\ Requests(call[c]) \in Requested(edits)
        /\ Concerns(Requests(call[c])) \subseteq Dropped(call[c])
    BY <2>1, WriteAwaited
  <2>3. /\ resident \cap Dropped(call[c]) = {} /\ \A d \in Callers : d = c
        /\ IsOperation(call[c]) /\ Spread(call[c])
    BY <2>1, OperationAwaited
  <2>4. ASSUME NEW p \in resident PROVE Settled'[p] = Settled[p]
    <3>1. p \in Paths /\ p \notin Concerns(Requests(call[c])) /\ edits \in Nat /\ store \in Trees(edits)
      BY <1>0, <2>2, <2>3, BufferTyped, QueueTyped
    <3>2. Committed(store, Requests(call[c]))[p] = store[p]
      BY <2>2, <3>1, KeptThere
    <3>3. Settled'[p] = Committed(store, Requests(call[c]))[p]
      BY <1>1, <2>1, <3>1, CancelledWrite
    <3> QED BY <2>2, <3>2, <3>3
  <2>5. BuffersSound'
    <3>1. ASSUME NEW p \in resident' PROVE Sound(p)'
      BY <1>0, <1>1, <2>4, <3>1, SoundStays DEF BuffersSound
    <3> QED BY <3>1 DEF BuffersSound
  <2>6. lapses' = lapses + 1 \/ Effective(c)
    <3>1. CASE Stale(c)
      BY <1>1, <3>1
    <3>2. CASE ~Stale(c)
      <4>1. atRisk \cap Source(call[c]) = {}
        BY <2>1, <3>2 DEF Stale
      <4>2. Contents' = Meant(call[c], Contents)
        BY <2>1, <4>1, CancelActs
      <4>3. lapses' = lapses
        BY <1>1, <2>3, <3>2
      <4> QED BY <1>1, <2>3, <4>2, <4>3 DEF Effective
    <3> QED BY <3>1, <3>2
  <2> QED BY <1>1, <2>5, <2>6 DEF IInv
<1>3. CASE ~(\E c \in Callers : call[c] # Idle /\ call[c].awaits = "write")
  <2>1. ASSUME NEW i \in DOMAIN queue, queue[i].owner \in Callers
        PROVE  Concerns(queue[i].requests) = {}
    <3>1. PICK c \in Callers : c = queue[i].owner
      BY <2>1
    <3>2. c # Gone
      BY ConstantsAssumption
    <3>3. call[c] # Idle /\ CallerAwaits(c, queue[i].requests)
      BY <1>0, <3>1, <3>2 DEF QueueAgrees
    <3>4. call[c].awaits = "read"
      BY <1>0, <1>3, <3>3 DEF CallsAgree
    <3> QED BY <3>3, <3>4, ConcernsNone DEF CallerAwaits
  <2>2. \A p \in Paths : Settled'[p] = Settled[p]
    BY <1>0, <1>1, <2>1, CancelledQueue
  <2>3. BuffersSound'
    <3>1. ASSUME NEW p \in resident' PROVE Sound(p)'
      <4>1. p \in Paths
        BY <1>0, <1>1 DEF Types
      <4> QED BY <1>0, <1>1, <2>2, <4>1, <3>1, SoundStays DEF BuffersSound
    <3> QED BY <3>1 DEF BuffersSound
  <2>4. \A c \in Callers : ~Stale(c)
    <3>1. Idle.awaits = "none"
      BY DEF Idle
    <3> QED BY <1>3, <3>1 DEF Stale
  <2>5. Contents' = Contents
    BY <1>1, <2>2, SameContents
  <2> QED BY <1>1, <2>3, <2>4, <2>5 DEF IInv, Quiet
<1> QED BY <1>2, <1>3

\* When one that nobody awaits leaves the queue, whoever awaits another still does.
LEMMA UnawaitedQueue ==
  ASSUME Types, QueueAgrees, CallsAgree, NEW i \in DOMAIN queue, queue[i].owner = Gone,
         queue' = RemoveAt(queue, i), UNCHANGED <<call, plan, file_map>>,
         store' = store \/ \A c \in Callers : call[c].awaits # "write"
  PROVE  QueueAgrees' /\ CallsAgree' /\ (Waiting => Waiting')
<1>1. /\ DOMAIN queue' = 1..(Len(queue) - 1) /\ Len(queue') = Len(queue) - 1
      /\ \A k \in 1..(Len(queue) - 1) : queue'[k] = IF k < i THEN queue[k] ELSE queue[k + 1]
      /\ DOMAIN queue = 1..Len(queue) /\ Len(queue) \in Nat
  BY RemoveEffect, QueueTyped
<1>2. ASSUME NEW k \in DOMAIN queue', queue'[k].owner # Gone
      PROVE  k = Len(queue') /\ k + 1 = Len(queue) /\ queue'[k] = queue[k + 1] /\ k + 1 \in DOMAIN queue
  <2>1. k \in DOMAIN queue /\ k + 1 \in DOMAIN queue /\ k < Len(queue)
    BY <1>1
  <2>2. CASE k < i
    <3>1. queue[k].owner # Gone
      BY <1>1, <1>2, <2>2
    <3>2. k = Len(queue)
      BY <2>1, <3>1 DEF QueueAgrees
    <3> QED BY <2>1, <3>2, <1>1
  <2>3. CASE ~(k < i)
    <3>1. queue'[k] = queue[k + 1]
      BY <1>1, <2>3
    <3>2. k + 1 = Len(queue)
      BY <1>2, <2>1, <3>1 DEF QueueAgrees
    <3> QED BY <1>1, <2>1, <3>1, <3>2
  <2> QED BY <2>2, <2>3
<1>3. ASSUME NEW j \in DOMAIN queue, queue[j].owner # Gone
      PROVE  \E k \in DOMAIN queue' : queue'[k] = queue[j]
  <2>1. j = Len(queue) /\ j # i
    BY <1>3 DEF QueueAgrees
  <2>2. j - 1 \in 1..(Len(queue) - 1) /\ ~(j - 1 < i) /\ (j - 1) + 1 = j
    BY <1>1, <2>1
  <2>3. queue'[j - 1] = queue[j]
    BY <1>1, <2>2
  <2> QED BY <1>1, <2>2, <2>3
<1>4. Waiting => Waiting'
  BY <1>3 DEF Waiting
<1>5. CallsAgree'
  <2>1. Awaits({"store"})' = Awaits({"store"}) /\ Path' = Path
    BY DEF Awaits, Path
  <2>2. \A c \in Callers : c # Gone
    BY ConstantsAssumption
  <2>3. ASSUME NEW c \in Callers, call[c] # Idle
        PROVE  \E k \in DOMAIN queue' : queue'[k].owner = c
    <3>1. PICK j \in DOMAIN queue : queue[j].owner = c
      BY <2>3 DEF CallsAgree
    <3> QED BY <1>3, <2>2, <3>1
  <2>4. ASSUME NEW c \in Callers, call[c] # Idle
        PROVE  /\ DOMAIN call[c] = DOMAIN Idle /\ Awaits({"store"})
               /\ call[c].op = Path.op /\ call[c].from = Path.from /\ call[c].to = Path.to
               /\ call[c].awaits \in {"read", "write"}
    BY <2>4 DEF CallsAgree
  <2> QED BY <2>1, <2>3, <2>4 DEF CallsAgree
<1>6. QueueAgrees'
  <2> SUFFICES ASSUME NEW k \in DOMAIN queue', queue'[k].owner # Gone,
                      NEW requests, requests = queue'[k].requests, NEW c, c = queue'[k].owner
               PROVE  /\ k = Len(queue') /\ plan' # << >>
                      /\ c = Guard => GuardAwaits(requests)'
                      /\ c \in Callers => call'[c] # Idle /\ CallerAwaits(c, requests)'
    BY DEF QueueAgrees
  <2>1. /\ k = Len(queue') /\ k + 1 \in DOMAIN queue /\ k + 1 = Len(queue)
        /\ queue[k + 1].owner = c /\ queue[k + 1].requests = requests /\ c # Gone
    BY <1>2
  <2>2. /\ plan # << >>
        /\ c = Guard => GuardAwaits(requests)
        /\ c \in Callers => call[c] # Idle /\ CallerAwaits(c, requests)
    BY <2>1 DEF QueueAgrees
  <2>3. c = Guard => GuardAwaits(requests)'
    BY <2>2 DEF GuardAwaits, Awaits, Path, resident
  <2>4. c \in Callers => CallerAwaits(c, requests)'
    <3>1. CASE c \in Callers /\ call[c].awaits # "write"
      BY <2>2, <3>1 DEF CallerAwaits
    <3>2. CASE c \in Callers /\ call[c].awaits = "write" /\ store' = store
      <4>1. requests = Requests(call[c]) /\ requests # << >> /\ Reads(Len(queue) - 1)
        BY <2>2, <3>2 DEF CallerAwaits
      <4>2. Reads(Len(queue) - 1)'
        <5>1. \A j \in 1..(Len(queue) - 1) : queue[j].requests = << >>
          BY <4>1 DEF Reads
        <5>2. \A j \in 1..(Len(queue) - 1) : j < Len(queue) - 1 => queue'[j].requests = << >>
          <6> SUFFICES ASSUME NEW j \in 1..(Len(queue) - 1), j < Len(queue) - 1 PROVE queue'[j].requests = << >>
            OBVIOUS
          <6>1. j + 1 \in 1..(Len(queue) - 1)
            BY <1>1
          <6> QED BY <1>1, <5>1, <6>1
        <5> QED BY <1>1, <5>2 DEF Reads
      <4>3. Requests(call[c])' = Requests(call[c])
        <5> PICK d : d = call[c]
          OBVIOUS
        <5>0. store' = store /\ d = call'[c] /\ d = call[c]
          BY <3>2
        <5>1. Requests(d)' = Requests(d)
          BY <5>0 DEF Requests, delete_file, move_file, copy_file, delete_folder, move_folder, copy_folder, Keys, Present
        <5>2. Requests(call[c])' = Requests(d)'
          BY <5>0 DEF Requests
        <5> QED BY <5>0, <5>1, <5>2
      <4> QED BY <2>2, <3>2, <4>1, <4>2, <4>3 DEF CallerAwaits
    <3> QED BY <3>1, <3>2
  <2> QED BY <2>1, <2>2, <2>3, <2>4
<1> QED BY <1>4, <1>5, <1>6

\* What is taken from the paths of an answered transaction, whoever awaited it.
LEMMA UnawaitedInv ==
  ASSUME IInv, Unawaited
  PROVE  IInv' /\ (Quiet \/ lapses' = lapses + 1)
<1>0. Types /\ QueueAgrees /\ CallsAgree /\ PlanAgrees /\ BuffersSound
  BY DEF IInv
<1>1. UNCHANGED <<call, file_map, plan, edits, cancels, discards>>
  BY DEF Unawaited
<1>i. PICK i \in DOMAIN queue : Served(i, Gone) /\ \E answer \in Answers(i) :
       LET paths == Concerns(queue[i].requests)
       IN /\ Answer(i, answer, << >>)
          /\ atRisk' = IF answer = "ok" THEN atRisk \ paths
                       ELSE atRisk \cup (paths \cap resident)
          /\ lapses' = IF answer = "ok" \/ paths \subseteq resident THEN lapses ELSE lapses + 1
  BY DEF Unawaited
<1> PICK requests : requests = queue[i].requests
  OBVIOUS
<1> PICK paths : paths = Concerns(requests)
  OBVIOUS
<1>2. PICK answer \in Answers(i) :
        /\ Answer(i, answer, << >>)
        /\ atRisk' = IF answer = "ok" THEN atRisk \ paths ELSE atRisk \cup (paths \cap resident)
        /\ lapses' = IF answer = "ok" \/ paths \subseteq resident THEN lapses ELSE lapses + 1
  BY <1>i
<1>3. /\ queue[i].owner = Gone /\ Gone \notin Callers
      /\ i > 1 => requests = << >>
      /\ DOMAIN queue = 1..Len(queue) /\ Len(queue) \in Nat
  BY <1>0, <1>i, QueueTyped, ConstantsAssumption DEF Served
<1>4. requests \in Requested(edits) /\ edits \in Nat /\ store \in Trees(edits) /\ paths \subseteq Paths
  BY <1>0, EntryTyped, QueueTyped
<1>5. /\ queue' = RemoveAt(queue, i) /\ faults' \in 0..MaxFaults
      /\ store' = IF answer = "ok" THEN Committed(store, requests) ELSE store
  <2>1. faults \in 0..MaxFaults /\ MaxFaults \in Nat
    BY <1>0, StoreAssumption DEF Types
  <2>2. answer # "ok" => faults # MaxFaults
    BY DEF Answers
  <2> QED BY <1>2, <2>1, <2>2 DEF Answer
<1>6. store' \in Trees(edits)
  <2>1. requests \in Seq(Paths \X (TextsUpTo(edits) \cup {NoFile}))
    BY <1>4 DEF Requested
  <2>2. Committed(store, requests) \in Trees(edits)
    BY <1>4, <2>1, Commits DEF Trees
  <2> QED BY <1>4, <1>5, <2>2
<1>7. ASSUME NEW p \in Paths, p \notin paths PROVE store'[p] = store[p] /\ Settled'[p] = Settled[p]
  <2>1. store'[p] = store[p]
    BY <1>4, <1>5, <1>7, KeptThere
  <2> QED BY <1>0, <1>5, <1>6, <1>7, <2>1, RemoveSettles
<1>8. requests = << >> => paths = {}
  BY ConcernsNone
<1>9. /\ queue' \in Seq(Entries(edits))
      /\ InFlight' \subseteq InFlight /\ InFlight \subseteq InFlight' \cup paths /\ paths \subseteq InFlight
  <2>1. paths \subseteq InFlight
    BY DEF InFlight
  <2> QED BY <1>0, <1>5, <2>1, RemoveEffect
<1>10. resident' = resident /\ resident' \subseteq Paths
  <2>1. resident' = resident
    BY <1>1 DEF resident
  <2> QED BY <1>0, <2>1 DEF Types
\* Nobody awaits a write behind one that writes.
<1>11. ASSUME requests # << >>, NEW c \in Callers, call[c].awaits = "write" PROVE FALSE
  <2>1. call[c] # Idle
    BY <1>11 DEF Idle
  <2>2. /\ Len(queue) \in DOMAIN queue /\ queue[Len(queue)].owner = c /\ c # Gone
        /\ CallerAwaits(c, queue[Len(queue)].requests)
    BY <2>1, OperationAwaited
  <2>3. i = 1 /\ 1 \in 1..(Len(queue) - 1)
    BY <1>3, <1>11, <2>2
  <2>4. Reads(Len(queue) - 1)
    BY <1>11, <2>2 DEF CallerAwaits
  <2> QED BY <1>11, <2>3, <2>4 DEF Reads
<1>12. QueueAgrees' /\ CallsAgree' /\ (Waiting => Waiting')
  <2>1. store' = store \/ \A c \in Callers : call[c].awaits # "write"
    <3>1. CASE requests = << >>
      <4>1. \A p \in Paths : store'[p] = store[p]
        BY <1>7, <1>8, <3>1
      <4> QED BY <1>4, <1>6, <4>1 DEF Trees
    <3>2. CASE requests # << >>
      BY <1>11, <3>2
    <3> QED BY <3>1, <3>2
  <2> QED BY <1>0, <1>1, <1>3, <1>5, <2>1, UnawaitedQueue
<1>13. ASSUME NEW p \in resident, p \notin paths
       PROVE  /\ p \in Paths /\ store'[p] = store[p] /\ Settled'[p] = Settled[p] /\ file_map'[p] = file_map[p]
              /\ p \in atRisk <=> p \in atRisk'
              /\ p \in InFlight <=> p \in InFlight'
  BY <1>1, <1>2, <1>7, <1>9, <1>10, <1>13
<1>14. \A p \in resident : Clean(p) => p \notin paths /\ Clean(p)'
  <2> SUFFICES ASSUME NEW p \in resident, Clean(p) PROVE p \notin paths /\ Clean(p)'
    OBVIOUS
  <2>1. p \notin paths
    BY <1>9 DEF Clean
  <2> QED BY <1>13, <2>1 DEF Clean
<1>15. PlanAgrees'
  <2>1. CASE plan = << >>
    BY <1>1, <2>1, PlanEnds
  <2>2. CASE plan # << >>
    <3>1. Preserves
      BY <1>10, <1>14 DEF Preserves
    <3> QED BY <1>0, <1>1, <1>10, <1>12, <2>2, <3>1, PlanStays
  <2> QED BY <2>1, <2>2
<1>16. Types'
  <2>1. atRisk' \subseteq resident' /\ lapses' \in Nat
    BY <1>0, <1>2, <1>10 DEF Types
  <2> QED BY <1>0, <1>1, <1>5, <1>6, <1>9, <1>10, <2>1 DEF Types
<1>17. answer = "ok" => \A p \in Paths : Settled'[p] = Settled[p]
  <2> SUFFICES ASSUME answer = "ok", NEW p \in Paths PROVE Settled'[p] = Settled[p]
    OBVIOUS
  <2>1. CASE p \in paths
    <3>1. i = 1 /\ store' = Committed(store, queue[1].requests) /\ queue[1].owner \notin Callers
      BY <1>3, <1>5, <1>8, <2>1
    <3> QED BY <1>0, <1>5, <1>6, <3>1, RemoveSettles
  <2> QED BY <1>7, <2>1
<1>18. ASSUME NEW p \in resident', p \in paths, answer # "ok" PROVE Sound(p)'
  <2>1. i = 1 /\ requests # << >> /\ p \in Paths /\ p \in resident
    BY <1>3, <1>8, <1>10, <1>18
  <2>2. CASE Writes(p)' # {}
    <3>1. Settled'[p] = Settled[p]
      BY <1>0, <1>5, <1>6, <2>1, <2>2, RemoveSettles
    <3>2. p \in InFlight /\ file_map'[p] = file_map[p]
      BY <1>1, <1>9, <1>18
    <3> QED BY <1>0, <2>1, <3>1, <3>2, SoundStays DEF BuffersSound
  <2>3. CASE Writes(p)' = {}
    <3>1. p \in atRisk'
      BY <1>2, <1>18, <2>1
    <3>2. p \notin InFlight'
      <4>1. \A k \in DOMAIN queue' : queue'[k].owner \notin Callers => p \notin Concerns(queue'[k].requests)
        BY <2>3 DEF Writes, Concerns
      <4>2. ASSUME NEW k \in DOMAIN queue', queue'[k].owner \in Callers PROVE Concerns(queue'[k].requests) = {}
        <5>1. PICK j \in DOMAIN queue : queue'[k] = queue[j]
          <6>1. /\ DOMAIN queue' = 1..(Len(queue) - 1)
                /\ \A m \in 1..(Len(queue) - 1) : queue'[m] = IF m < i THEN queue[m] ELSE queue[m + 1]
            BY <1>0, <1>5, RemoveEffect
          <6>2. k \in DOMAIN queue /\ k + 1 \in DOMAIN queue
            BY <1>3, <6>1
          <6> QED BY <6>1, <6>2
        <5>2. PICK c \in Callers : c = queue[j].owner
          BY <4>2, <5>1
        <5>3. c # Gone
          BY ConstantsAssumption
        <5>4. call[c] # Idle /\ CallerAwaits(c, queue[j].requests)
          BY <1>0, <5>2, <5>3 DEF QueueAgrees
        <5>5. call[c].awaits = "read"
          BY <1>0, <1>11, <2>1, <5>4 DEF CallsAgree
        <5> QED BY <5>1, <5>4, <5>5, ConcernsNone DEF CallerAwaits
      <4>3. InFlight' = UNION {Concerns(queue'[k].requests) : k \in DOMAIN queue'}
        BY DEF InFlight, Concerns
      <4> QED BY <4>1, <4>2, <4>3
    <3> QED BY <3>1, <3>2 DEF Sound
  <2> QED BY <2>2, <2>3
<1>19. BuffersSound'
  <2>1. ASSUME NEW p \in resident' PROVE Sound(p)'
    <3>1. CASE p \notin paths
      BY <1>0, <1>10, <1>13, <3>1, SoundStays DEF BuffersSound
    <3>2. CASE p \in paths /\ answer = "ok"
      <4>1. Settled'[p] = Settled[p] /\ file_map'[p] = file_map[p] /\ p \in InFlight
        BY <1>1, <1>9, <1>10, <1>17, <3>2
      <4> QED BY <1>0, <1>10, <4>1, SoundStays DEF BuffersSound
    <3> QED BY <1>18, <3>1, <3>2
  <2> QED BY <2>1 DEF BuffersSound
<1>20. Quiet \/ lapses' = lapses + 1
  <2>1. CASE answer = "ok"
    <3>1. Contents' = Contents
      BY <1>1, <1>17, <2>1, SameContents
    <3> QED BY <1>1, <1>2, <2>1, <3>1 DEF Quiet
  <2>2. CASE paths \subseteq resident
    <3>1. \A p \in Paths : p \notin resident => Settled'[p] = Settled[p]
      BY <1>7, <2>2
    <3>2. Contents' = Contents
      BY <1>1, <3>1, SameContents
    <3> QED BY <1>1, <1>2, <2>2, <3>2 DEF Quiet
  <2> QED BY <1>2, <2>1, <2>2
<1> QED BY <1>12, <1>15, <1>16, <1>19, <1>20 DEF IInv

\* The buffers go, and the session sees what is settled.
LEMMA BuffersGo ==
  ASSUME IInv, file_map' = Evicted(resident), lapses' = lapses, Discards,
         \A p \in Paths : p \notin InFlight => Settled'[p] = Settled[p]
  PROVE  Quiet \/ Loses
<1>0. Types /\ BuffersSound
  BY DEF IInv
<1>1. resident' = {}
  BY <1>0, EvictedEffect
<1>2. CASE Contents' = Contents
  BY <1>2 DEF Discards, Quiet
<1>3. CASE Contents' # Contents
  <2>1. discards' = discards + 1
    BY <1>3 DEF Discards
  <2>2. ASSUME NEW p \in Paths
        PROVE  \/ Contents'[p] = Contents[p] \/ p \in atRisk \cup InFlight
               \/ /\ Contents[p] # NoFile
                  /\ \E ops \in Nat : Behind(Contents'[p], Contents[p], ops)
    <3>1. /\ Contents'[p] = IF p \in resident' THEN file_map'[p].text ELSE Settled'[p]
          /\ Contents[p] = IF p \in resident THEN file_map[p].text ELSE Settled[p]
      BY DEF Contents
    <3>2. CASE p \in InFlight
      BY <3>2
    <3>3. CASE p \notin InFlight /\ p \notin resident
      BY <1>1, <3>1, <3>3
    <3>4. CASE p \notin InFlight /\ p \in resident
      <4>1. Contents'[p] = Settled[p] /\ Contents[p] = file_map[p].text
        BY <1>1, <3>1, <3>4
      <4>2. p \in atRisk \/ Behind(Settled[p], file_map[p].text, file_map[p].ops_since_save)
        BY <1>0, <3>4 DEF BuffersSound, Sound
      <4>3. file_map[p].ops_since_save \in Nat /\ file_map[p].text # NoFile
        BY <1>0, <3>4, BufferTyped
      <4> QED BY <4>1, <4>2, <4>3
    <3> QED BY <3>2, <3>3, <3>4
  <2> QED BY <2>1, <2>2 DEF Loses
<1> QED BY <1>2, <1>3

LEMMA DropGuardInv ==
  ASSUME IInv, DropGuard
  PROVE  IInv' /\ (Quiet \/ Loses)
<1>0. Types /\ QueueAgrees /\ CallsAgree
  BY DEF IInv
<1>1. /\ plan = << >> /\ plan' = << >> /\ file_map' = Evicted(resident) /\ atRisk' = {} /\ Discards
      /\ UNCHANGED <<store, queue, call, faults, edits, cancels, lapses>>
  BY DEF DropGuard, storeVars
<1>2. /\ resident' = {} /\ file_map' \in [resident' -> Buffers(edits)]
  BY <1>0, <1>1, EvictedEffect
<1>3. ~Waiting
  BY <1>0, <1>1 DEF Waiting, QueueAgrees
<1>4. QueueAgrees' /\ CallsAgree' /\ PlanAgrees'
  BY <1>0, <1>1, <1>3, IdleQueue, PlanEnds
<1>5. Types'
  <2>1. discards' \in Nat
    BY <1>0, <1>1 DEF Types, Discards
  <2> QED BY <1>0, <1>1, <1>2, <2>1 DEF Types
<1>6. BuffersSound'
  BY <1>2 DEF BuffersSound
<1>7. Settled' = Settled
  BY <1>1, SameStore
<1> QED BY <1>1, <1>4, <1>5, <1>6, <1>7, BuffersGo DEF IInv

LEMMA PageReloadInv ==
  ASSUME IInv, PageReload
  PROVE  IInv' /\ (Quiet \/ Loses)
<1>0. Types
  BY DEF IInv
<1>1. /\ queue' = << >> /\ call' = [c \in Callers |-> Idle] /\ plan' = << >>
      /\ file_map' = Evicted(resident) /\ atRisk' = {} /\ Discards
      /\ UNCHANGED <<store, faults, edits, cancels, lapses>>
  BY DEF PageReload
<1>2. /\ resident' = {} /\ file_map' \in [resident' -> Buffers(edits)]
  BY <1>0, <1>1, EvictedEffect
<1>3. DOMAIN queue' = {}
  BY <1>1
<1>4. QueueAgrees' /\ CallsAgree' /\ PlanAgrees'
  <2>1. QueueAgrees'
    BY <1>3 DEF QueueAgrees
  <2>2. CallsAgree'
    BY <1>1 DEF CallsAgree
  <2> QED BY <1>1, <2>1, <2>2, PlanEnds
<1>5. Types'
  <2>1. discards' \in Nat
    BY <1>0, <1>1 DEF Types, Discards
  <2>2. queue' \in Seq(Entries(edits)) /\ plan' \in Seq(Step) /\ DOMAIN call' = Callers
    BY <1>1
  <2> QED BY <1>0, <1>1, <1>2, <2>1, <2>2 DEF Types
<1>6. BuffersSound'
  BY <1>2 DEF BuffersSound
<1>7. ASSUME NEW p \in Paths, p \notin InFlight PROVE Settled'[p] = Settled[p]
  <2>1. Writes(p) = {}
    BY <1>7 DEF InFlight, Writes
  <2>2. Settled[p] = store[p]
    BY <2>1 DEF Settled
  <2>3. Settled'[p] = IF Writes(p)' = {} THEN store'[p]
                      ELSE Committed(store', queue'[Max(Writes(p)')].requests)[p]
    BY DEF Settled, Writes, Concerns, Committed
  <2>4. Writes(p)' = {}
    BY <1>3 DEF Writes
  <2> QED BY <1>1, <2>2, <2>3, <2>4
<1> QED BY <1>1, <1>4, <1>5, <1>6, <1>7, BuffersGo DEF IInv

LEMMA InitInv ==
  ASSUME Init
  PROVE  IInv
<1>1. /\ store = InitialStore /\ queue = << >> /\ faults = 0
      /\ call = [c \in Callers |-> Idle]
      /\ file_map = [p \in {} |-> from_string(<< >>)] /\ plan = << >>
      /\ edits = 0 /\ cancels = 0 /\ atRisk = {} /\ lapses = 0 /\ discards = 0
  BY DEF Init
<1>2. resident = {} /\ DOMAIN queue = {} /\ DOMAIN plan = {}
  BY <1>1 DEF resident
<1>3. Types
  <2>1. store \in Trees(0)
    BY <1>1, ConstantsAssumption DEF Trees
  <2>2. queue \in Seq(Entries(0)) /\ plan \in Seq(Step) /\ DOMAIN call = Callers
    BY <1>1
  <2>3. file_map \in [resident -> Buffers(0)]
    BY <1>1, <1>2
  <2>4. 0 \in 0..MaxEdits /\ 0 \in 0..MaxMishaps /\ 0 \in 0..MaxFaults
    BY ConstantsAssumption, StoreAssumption
  <2> QED BY <1>1, <1>2, <2>1, <2>2, <2>3, <2>4 DEF Types
<1>4. QueueAgrees /\ CallsAgree /\ BuffersSound
  BY <1>1, <1>2 DEF QueueAgrees, CallsAgree, BuffersSound
<1>5. PlanAgrees
  BY <1>2 DEF PlanAgrees, Ordered, Counted, Persisting, Todo, ToSet
<1> QED BY <1>3, <1>4, <1>5 DEF IInv

-----------------------------------------------------------------------------
(* Calls.                                                                  *)

LEMMA PathsFinite == IsFiniteSet(Paths)
<1> DEFINE N == Len(KeyOrder)
<1>1. KeyOrder \in Seq(Paths) /\ ToSet(KeyOrder) = Paths /\ N \in Nat /\ DOMAIN KeyOrder = 1..N
  BY StoreAssumption
<1>2. KeyOrder \in Surjection(1..N, Paths)
  BY <1>1 DEF Surjection, ToSet
<1>3. IsFiniteSet(1..N)
  BY <1>1, FS_Interval
<1> HIDE DEF N
<1> QED BY <1>2, <1>3, FS_Surjection

\* A walk meets each of the buffers, and nothing else.
LEMMA WalkOf ==
  ASSUME Types, NEW ps, NEW walk \in Walks(ps)
  PROVE  /\ walk \in Seq(ps \cap resident) /\ Len(walk) \in Nat /\ DOMAIN walk = 1..Len(walk)
         /\ \A p \in ps \cap resident : \E i \in 1..Len(walk) : walk[i] = p
<1> DEFINE S == ps \cap resident
           N == Cardinality(S)
           D == 1..N
<1>1. IsFiniteSet(S) /\ N \in Nat
  <2>1. S \in SUBSET Paths
    BY DEF Types
  <2> QED BY <2>1, PathsFinite, FS_Subset, FS_CardinalityType
<1>2. walk \in [D -> S] /\ \A i, j \in D : i # j => walk[i] # walk[j]
  BY DEF Walks, SetToSeqs
<1>3. IsFiniteSet(D) /\ Cardinality(D) = N
  <2>1. 1 \in Int /\ N \in Int /\ Cardinality(1..N) = IF 1 > N THEN 0 ELSE N - 1 + 1
    BY <1>1, FS_Interval
  <2> QED BY <1>1, <2>1, FS_Interval
<1> HIDE DEF N, S
<1>4. walk \in Injection(D, S)
  BY <1>2 DEF Injection, IsInjective
<1>5. walk \in Surjection(D, S)
  <2> HIDE DEF D
  <2> QED BY <1>1, <1>3, <1>4, FS_Injection DEF N
<1>6. walk \in Seq(S) /\ Len(walk) = N /\ DOMAIN walk = 1..N
  BY <1>1, <1>2
<1> QED BY <1>1, <1>5, <1>6 DEF Surjection, S

\* A call may begin with these steps.
Begins(steps) ==
  /\ \A i \in DOMAIN steps :
       /\ steps[i][1] \in {"load", "add", "reset"} => i = 1
       /\ steps[i][1] \in Edits \cup {"save"} =>
            \/ steps[i][2] \in resident
            \/ i # 1 /\ steps[1] = <<"load", steps[i][2]>>
       /\ steps[i][1] = "drop" => \A j \in DOMAIN steps : i < j => steps[j][1] \in {"drop", "store"}
       /\ steps[i][1] = "store" => i = Len(steps)
       /\ steps[i][1] \in Edits \cup {"reset"} => edits + Len(steps) - i < MaxEdits
  /\ \A s \in ToSet(steps) : s[1] = "save" /\ (\A u \in ToSet(steps) : u[1] # "store") =>
       /\ \A u \in ToSet(steps) : u[1] = "save"
       /\ \A p \in resident : <<"save", p>> \in ToSet(steps)
  /\ \A s \in ToSet(steps) : s[1] = "store" =>
       /\ Spread(s[2])
       /\ \A t \in ToSet(steps) : t = s \/ t[1] \in {"load", "save", "drop"}
       /\ \A p \in resident \cap Dropped(s[2]) : <<"drop", p>> \in ToSet(steps)
       /\ \A p \in Paths : <<"load", p>> \in ToSet(steps) =>
                             p \notin Dropped(s[2]) /\ <<"save", p>> \in ToSet(steps)
       /\ \A p \in (resident \cap Source(s[2])) \ Dropped(s[2]) : <<"save", p>> \in ToSet(steps)

LEMMA CallBegins ==
  ASSUME IInv, NEW steps \in Seq(Step), Call(steps), Begins(steps)
  PROVE  IInv' /\ Quiet
<1>0. Types /\ QueueAgrees /\ CallsAgree /\ PlanAgrees /\ BuffersSound
  BY DEF IInv
<1>1. /\ plan = << >> /\ plan' = steps
      /\ UNCHANGED <<store, queue, call, faults, file_map, edits, cancels, atRisk, lapses, discards>>
  BY DEF Call, storeVars
<1>2. ~Waiting
  BY <1>0, <1>1 DEF Waiting, QueueAgrees
<1>3. QueueAgrees' /\ CallsAgree' /\ ~Waiting'
  BY <1>0, <1>1, <1>2, IdleQueue
<1>4. resident' = resident /\ resident' \subseteq Paths
  <2>1. resident' = resident
    BY <1>1 DEF resident
  <2> QED BY <1>0, <2>1 DEF Types
<1>5. Settled' = Settled /\ InFlight' = InFlight
  BY <1>1, SameStore
<1>6. Types'
  BY <1>0, <1>1, <1>4 DEF Types
<1>7. BuffersSound'
  BY <1>0, <1>1, <1>4, <1>5 DEF BuffersSound, Sound
<1>8. Contents' = Contents
  BY <1>1, <1>5, SameContents
<1> PICK todo : todo = ToSet(steps)
  OBVIOUS
<1>9. Todo' = todo
  BY <1>1 DEF Todo
<1>10. Ordered'
  BY <1>1, <1>4 DEF Begins, Ordered
<1>11. Counted'
  BY <1>1 DEF Begins, Counted
<1>12. Persisting'
  BY <1>4, <1>9 DEF Begins, Persisting
<1>13. ASSUME NEW d, <<"store", d>> \in todo PROVE Prepared(d)'
  <2>1. PICK s \in todo : s = <<"store", d>>
    BY <1>13
  <2>2. s[1] = "store" /\ s[2] = d
    BY <2>1
  <2>3. /\ Spread(d)
        /\ \A t \in todo : t = s \/ t[1] \in {"load", "save", "drop"}
        /\ \A p \in resident \cap Dropped(d) : <<"drop", p>> \in todo
        /\ \A p \in Paths : <<"load", p>> \in todo => p \notin Dropped(d) /\ <<"save", p>> \in todo
        /\ \A p \in (resident \cap Source(d)) \ Dropped(d) : <<"save", p>> \in todo
    BY <2>2 DEF Begins
  <2> QED BY <1>4, <1>9, <2>1, <2>3 DEF Prepared
<1>14. PlanAgrees'
  <2>1. ASSUME NEW s \in todo, s[1] = "store" PROVE s = <<"store", s[2]>>
    <3>1. s \in Step
      BY DEF ToSet
    <3> QED BY <2>1, <3>1, StepTyped
  <2>2. ASSUME NEW s \in todo, s[1] = "store", NEW d, d = s[2] PROVE Prepared(d)'
    BY <1>13, <2>1, <2>2
  <2> QED BY <1>9, <1>10, <1>11, <1>12, <2>2 DEF PlanAgrees
<1> QED BY <1>1, <1>3, <1>6, <1>7, <1>8, <1>14 DEF IInv, Quiet

\* The n steps before an operation save what it is to read, and drop what it is
\* to change.
LEMMA OperationBegins ==
  ASSUME NEW d \in Calls, Spread(d), NEW n \in Nat,
         NEW steps \in Seq(Step), Len(steps) = n + 1, steps[n + 1] = <<"store", d>>,
         \A i \in 1..n :
           \/ steps[i][1] = "drop" /\ \A j \in 1..n : i < j => steps[j][1] = "drop"
           \/ /\ steps[i][1] = "save"
              /\ steps[i][2] \in resident \/ (i # 1 /\ steps[1] = <<"load", steps[i][2]>>)
           \/ /\ steps[i][1] = "load" /\ i = 1 /\ steps[i][2] \notin Dropped(d)
              /\ \E j \in 1..n : steps[j] = <<"save", steps[i][2]>>,
         \A p \in resident \cap Dropped(d) : \E j \in 1..n : steps[j] = <<"drop", p>>,
         \A p \in (resident \cap Source(d)) \ Dropped(d) : \E j \in 1..n : steps[j] = <<"save", p>>
  PROVE  Begins(steps)
<1>1. DOMAIN steps = 1..(n + 1) /\ ToSet(steps) = {steps[i] : i \in 1..(n + 1)}
  BY DEF ToSet
<1>2. \A i \in 1..(n + 1) : i = n + 1 \/ i \in 1..n
  OBVIOUS
<1>3. \A i \in 1..n : i # n + 1 /\ i \in 1..(n + 1) /\ i < n + 1
  OBVIOUS
<1>4. /\ steps[n + 1][1] = "store" /\ steps[n + 1][2] = d /\ n + 1 \in 1..(n + 1)
      /\ \A i \in 1..n : steps[i][1] \in {"load", "save", "drop"}
  OBVIOUS
<1>5. ASSUME NEW i \in DOMAIN steps
      PROVE  /\ steps[i][1] \in {"load", "add", "reset"} => i = 1
             /\ steps[i][1] \in Edits \cup {"save"} =>
                  \/ steps[i][2] \in resident
                  \/ i # 1 /\ steps[1] = <<"load", steps[i][2]>>
             /\ steps[i][1] = "drop" => \A j \in DOMAIN steps : i < j => steps[j][1] \in {"drop", "store"}
             /\ steps[i][1] = "store" => i = Len(steps)
             /\ steps[i][1] \notin Edits \cup {"reset"}
  <2>1. CASE i = n + 1
    BY <1>1, <1>4, <2>1 DEF Edits
  <2>2. CASE i \in 1..n
    <3>1. steps[i][1] \in {"load", "save", "drop"}
      BY <1>4, <2>2
    <3>2. steps[i][1] = "drop" => \A j \in DOMAIN steps : i < j => steps[j][1] \in {"drop", "store"}
      BY <1>1, <1>2, <1>4, <2>2
    <3> QED BY <2>2, <3>1, <3>2 DEF Edits
  <2> QED BY <1>1, <1>2, <2>1, <2>2
<1>6. steps[n + 1] \in ToSet(steps) /\ \A j \in 1..n : steps[j] \in ToSet(steps)
  BY <1>1, <1>3
<1>7. ASSUME NEW s \in ToSet(steps) PROVE s = steps[n + 1] \/ s[1] \in {"load", "save", "drop"}
  <2>1. PICK i \in 1..(n + 1) : s = steps[i]
    BY <1>1
  <2> QED BY <1>2, <1>4, <2>1
<1>8. \A s \in ToSet(steps) : s[1] = "store" => s = steps[n + 1] /\ s[2] = d
  BY <1>4, <1>7
<1>9. ASSUME NEW p, <<"load", p>> \in ToSet(steps) PROVE p \notin Dropped(d) /\ <<"save", p>> \in ToSet(steps)
  <2>1. PICK i \in 1..(n + 1) : steps[i] = <<"load", p>>
    BY <1>1, <1>9
  <2>2. i \in 1..n /\ steps[i][1] = "load" /\ steps[i][2] = p
    BY <1>2, <1>4, <2>1
  <2>3. p \notin Dropped(d) /\ \E j \in 1..n : steps[j] = <<"save", p>>
    BY <2>2
  <2>4. PICK j \in 1..n : steps[j] = <<"save", p>>
    BY <2>3
  <2>5. steps[j] \in ToSet(steps)
    BY <1>6
  <2> QED BY <2>3, <2>4, <2>5
<1>10. /\ \A p \in resident \cap Dropped(d) : <<"drop", p>> \in ToSet(steps)
       /\ \A p \in (resident \cap Source(d)) \ Dropped(d) : <<"save", p>> \in ToSet(steps)
  <2>1. ASSUME NEW p \in resident \cap Dropped(d) PROVE <<"drop", p>> \in ToSet(steps)
    <3>1. PICK j \in 1..n : steps[j] = <<"drop", p>>
      OBVIOUS
    <3>2. steps[j] \in ToSet(steps)
      BY <1>6
    <3> QED BY <3>1, <3>2
  <2>2. ASSUME NEW p \in (resident \cap Source(d)) \ Dropped(d) PROVE <<"save", p>> \in ToSet(steps)
    <3>1. PICK j \in 1..n : steps[j] = <<"save", p>>
      OBVIOUS
    <3>2. steps[j] \in ToSet(steps)
      BY <1>6
    <3> QED BY <3>1, <3>2
  <2> QED BY <2>1, <2>2
<1>11. \E u \in ToSet(steps) : u[1] = "store"
  BY <1>4, <1>6
<1> QED BY <1>5, <1>7, <1>8, <1>9, <1>10, <1>11 DEF Begins

LEMMA StepIs ==
  ASSUME NEW kind \in Simple, NEW p \in Paths
  PROVE  <<kind, p>> \in Step
<1>1. <<kind, p>> \in Simple \X Paths
  BY Zenon
<1> QED BY <1>1 DEF Step

LEMMA EachStep ==
  ASSUME NEW kind \in Simple, NEW walk \in Seq(Paths)
  PROVE  /\ Each(kind, walk) \in Seq(Step) /\ Len(walk) \in Nat /\ Len(Each(kind, walk)) = Len(walk)
         /\ DOMAIN Each(kind, walk) = 1..Len(walk)
         /\ \A i \in 1..Len(walk) : Each(kind, walk)[i] = <<kind, walk[i]>>
<1>1. Len(walk) \in Nat /\ DOMAIN walk = 1..Len(walk) /\ \A i \in 1..Len(walk) : walk[i] \in Paths
  OBVIOUS
<1>2. \A i \in 1..Len(walk) : <<kind, walk[i]>> \in Step
  BY <1>1, StepIs
<1>3. Each(kind, walk) = [i \in 1..Len(walk) |-> <<kind, walk[i]>>]
  BY <1>1 DEF Each
<1> QED BY <1>1, <1>2, <1>3

\* A call of drops, or of probes, begins whatever the buffers are.
LEMMA DropsBegin ==
  ASSUME NEW kind \in {"drop", "probe"}, NEW walk \in Seq(Paths)
  PROVE  Each(kind, walk) \in Seq(Step) /\ Begins(Each(kind, walk))
<1> DEFINE steps == Each(kind, walk)
<1>1. /\ steps \in Seq(Step) /\ Len(walk) \in Nat /\ Len(steps) = Len(walk)
      /\ DOMAIN steps = 1..Len(walk) /\ \A i \in 1..Len(walk) : steps[i] = <<kind, walk[i]>>
  BY EachStep DEF Simple
<1> HIDE DEF steps
<1>2. \A i \in DOMAIN steps : steps[i][1] = kind
  BY <1>1
<1>3. \A s \in ToSet(steps) : s[1] = kind
  BY <1>2 DEF ToSet
<1>4. kind \notin {"load", "add", "reset", "save", "store"} \cup Edits
  BY DEF Edits
<1>5. Begins(steps)
  BY <1>2, <1>3, <1>4 DEF Begins
<1> QED BY <1>1, <1>5 DEF steps

\* A snapshot saves every buffer.
LEMMA SavesBegin ==
  ASSUME Types, NEW walk \in Walks(resident)
  PROVE  Each("save", walk) \in Seq(Step) /\ Begins(Each("save", walk))
<1> DEFINE steps == Each("save", walk)
<1>0. /\ walk \in Seq(Paths) /\ \A i \in 1..Len(walk) : walk[i] \in resident
      /\ \A p \in resident : \E i \in 1..Len(walk) : walk[i] = p
  <2>1. /\ walk \in Seq(resident \cap resident)
        /\ \A p \in resident \cap resident : \E i \in 1..Len(walk) : walk[i] = p
    BY WalkOf
  <2>2. resident \subseteq Paths
    BY DEF Types
  <2>3. walk \in Seq(resident)
    BY <2>1
  <2> QED BY <2>1, <2>2, <2>3
<1>1. /\ steps \in Seq(Step) /\ Len(walk) \in Nat /\ Len(steps) = Len(walk)
      /\ DOMAIN steps = 1..Len(walk) /\ \A i \in 1..Len(walk) : steps[i] = <<"save", walk[i]>>
  BY <1>0, EachStep DEF Simple
<1> HIDE DEF steps
<1>2. \A i \in DOMAIN steps : steps[i][1] = "save" /\ steps[i][2] \in resident
  BY <1>0, <1>1
<1>3. \A s \in ToSet(steps) : s[1] = "save"
  BY <1>2 DEF ToSet
<1>4. ASSUME NEW p \in resident PROVE <<"save", p>> \in ToSet(steps)
  <2>1. PICK i \in 1..Len(walk) : walk[i] = p
    BY <1>0
  <2> QED BY <1>1, <2>1 DEF ToSet
<1>5. Begins(steps)
  BY <1>2, <1>3, <1>4 DEF Begins, Edits
<1> QED BY <1>1, <1>5 DEF steps

\* A step that stands for a call.
LEMMA StepBegins ==
  ASSUME NEW kind \in {"load", "add", "drop", "reset"}, NEW p \in Paths,
         edits \in Nat, kind = "reset" => edits < MaxEdits
  PROVE  << <<kind, p>> >> \in Seq(Step) /\ Begins(<< <<kind, p>> >>)
<1> DEFINE steps == << <<kind, p>> >>
<1>1. <<kind, p>> \in Step
  BY StepIs DEF Simple
<1>2. steps \in Seq(Step) /\ Len(steps) = 1 /\ DOMAIN steps = {1} /\ steps[1][1] = kind
  BY <1>1
<1>3. \A s \in ToSet(steps) : s[1] = kind
  BY <1>2 DEF ToSet
<1> HIDE DEF steps
<1>4. edits + 1 - 1 = edits
  OBVIOUS
<1>5. Begins(steps)
  BY <1>2, <1>3, <1>4 DEF Begins, Edits
<1> QED BY <1>2, <1>5 DEF steps

\* A buffer is read, and n edits are made of it.
LEMMA EditsBegin ==
  ASSUME NEW p \in Paths, NEW n \in Nat, edits \in Nat, MaxEdits \in Nat,
         n > 0 => edits + n <= MaxEdits,
         NEW steps, steps \in Seq(Step), Len(steps) = n + 1, steps[1] = <<"load", p>>,
         \A i \in 2..(n + 1) : \E kind \in Edits : steps[i] = <<kind, p>>
  PROVE  Begins(steps)
<1>1. DOMAIN steps = 1..(n + 1) /\ \A i \in 1..(n + 1) : i = 1 \/ i \in 2..(n + 1)
  OBVIOUS
<1>2. \A i \in 2..(n + 1) : steps[i][1] \in Edits /\ steps[i][2] = p
  OBVIOUS
<1>3. \A i \in 1..(n + 1) : steps[i][1] \notin {"add", "reset", "save", "drop", "store"}
  BY <1>1, <1>2 DEF Edits
<1>4. \A s \in ToSet(steps) : s[1] \notin {"save", "store"}
  BY <1>1, <1>3 DEF ToSet
<1>5. ASSUME NEW i \in 1..(n + 1)
      PROVE  /\ steps[i][1] = "load" => i = 1
             /\ steps[i][1] \in Edits =>
                  /\ i # 1 /\ steps[1] = <<"load", steps[i][2]>>
                  /\ edits + Len(steps) - i < MaxEdits
  <2>1. CASE i = 1
    BY <2>1 DEF Edits
  <2>2. CASE i \in 2..(n + 1)
    BY <1>2, <2>2 DEF Edits
  <2> QED BY <1>1, <2>1, <2>2
<1> QED BY <1>1, <1>3, <1>4, <1>5 DEF Begins

LEMMA EditCalls ==
  ASSUME IInv, NEW p \in Paths, apply_transaction(p) \/ apply_update(p)
  PROVE  IInv' /\ Quiet
<1>0. edits \in Nat /\ MaxEdits \in Nat
  <2>1. Types
    BY DEF IInv
  <2> QED BY <2>1, QueueTyped, ConstantsAssumption
<1>1. CASE apply_transaction(p)
  <2>1. PICK runs \in Transactions : /\ edits + Len(runs) <= MaxEdits
                                     /\ Call(<< <<"load", p>> >> \o [i \in DOMAIN runs |-> <<runs[i], p>>])
    BY <1>1 DEF apply_transaction
  <2>2. PICK n \in 1..MaxRun : runs \in [1..n -> {"char", "run"}]
    BY DEF Transactions
  <2>3. n \in Nat /\ Len(runs) = n /\ DOMAIN runs = 1..n
    BY <2>2, ConstantsAssumption
  <2> DEFINE made == [i \in 1..n |-> <<runs[i], p>>]
             steps == << <<"load", p>> >> \o made
  <2>4. \A i \in 1..n : made[i] \in Step /\ \E kind \in Edits : made[i] = <<kind, p>>
    <3>1. \A i \in 1..n : runs[i] \in Edits /\ runs[i] \in Simple
      BY <2>2 DEF Edits, Simple
    <3> QED BY <3>1, StepIs
  <2>5. made \in Seq(Step) /\ Len(made) = n
    BY <2>3, <2>4
  <2>6. <<"load", p>> \in Step
    BY StepIs DEF Simple
  <2>7. Call(steps)
    BY <2>1, <2>3
  <2> HIDE DEF made
  <2>8. /\ steps \in Seq(Step) /\ Len(steps) = n + 1 /\ steps[1] = <<"load", p>>
        /\ \A i \in 2..(n + 1) : steps[i] = made[i - 1] /\ i - 1 \in 1..n
    BY <2>3, <2>5, <2>6
  <2> HIDE DEF steps
  <2>9. \A i \in 2..(n + 1) : \E kind \in Edits : steps[i] = <<kind, p>>
    BY <2>4, <2>8
  <2>10. Begins(steps)
    BY <1>0, <2>1, <2>3, <2>8, <2>9, EditsBegin
  <2> QED BY <2>7, <2>8, <2>10, CallBegins
<1>2. CASE apply_update(p)
  <2> DEFINE steps == << <<"load", p>>, <<"remote", p>> >>
  <2>1. edits < MaxEdits /\ Call(steps)
    BY <1>2 DEF apply_update
  <2>2. <<"load", p>> \in Step /\ <<"remote", p>> \in Step
    BY StepIs DEF Simple, Edits
  <2>3. steps \in Seq(Step) /\ Len(steps) = 1 + 1 /\ steps[1] = <<"load", p>> /\ steps[2] = <<"remote", p>>
    BY <2>2
  <2> HIDE DEF steps
  <2>4. \A i \in 2..(1 + 1) : \E kind \in Edits : steps[i] = <<kind, p>>
    BY <2>3 DEF Edits
  <2>5. 1 \in Nat /\ edits + 1 <= MaxEdits
    BY <1>0, <2>1
  <2>6. Begins(steps)
    BY <1>0, <2>3, <2>4, <2>5, EditsBegin
  <2> QED BY <2>1, <2>3, <2>6, CallBegins
<1> QED BY <1>1, <1>2

\* The calls of one buffer, and those that only save or drop buffers.
LEMMA PlainCalls ==
  ASSUME IInv,
         \/ \E p \in Paths : read(p) \/ add_file(p) \/ write(p) \/ drop_file(p)
         \/ \E folder \in Folders : drop_dir(folder)
         \/ \E candidates \in Modules : extract_path(candidates)
         \/ snapshot
  PROVE  IInv' /\ Quiet
<1>0. Types /\ edits \in Nat
  <2>1. Types
    BY DEF IInv
  <2> QED BY <2>1, QueueTyped
<1>1. CASE \E p \in Paths : read(p) \/ add_file(p) \/ write(p) \/ drop_file(p)
  <2>1. PICK p \in Paths : read(p) \/ add_file(p) \/ write(p) \/ drop_file(p)
    BY <1>1
  <2>2. PICK kind \in {"load", "add", "drop", "reset"} :
          Call(<< <<kind, p>> >>) /\ (kind = "reset" => edits < MaxEdits)
    BY <2>1 DEF read, add_file, write, drop_file
  <2> QED BY <1>0, <2>2, StepBegins, CallBegins
<1>2. CASE \E folder \in Folders : drop_dir(folder)
  <2>0. PICK folder \in Folders : drop_dir(folder)
    BY <1>2
  <2>1. PICK walk \in Walks(Beneath(folder)) : Call(Each("drop", walk))
    BY <2>0 DEF drop_dir
  <2>2. walk \in Seq(Paths)
    <3>1. walk \in Seq(Beneath(folder) \cap resident) /\ Beneath(folder) \cap resident \subseteq Paths
      BY <1>0, WalkOf DEF Beneath
    <3> QED BY <3>1
  <2> QED BY <2>1, <2>2, DropsBegin, CallBegins
<1>3. CASE \E candidates \in Modules : extract_path(candidates)
  <2>1. PICK candidates \in Modules : Call(Each("probe", candidates))
    BY <1>3 DEF extract_path
  <2>2. candidates \in Seq(Paths)
    BY ConstantsAssumption
  <2> QED BY <2>1, <2>2, DropsBegin, CallBegins
<1>4. CASE snapshot
  <2>1. PICK walk \in Walks(resident) : Call(Each("save", walk))
    BY <1>4 DEF snapshot
  <2> QED BY <1>0, <2>1, SavesBegin, CallBegins
<1> QED BY <1>1, <1>2, <1>3, <1>4

\* The steps that make the buffers ready for an operation, and the operation.
LEMMA OperationFollows ==
  ASSUME NEW d \in Calls, Spread(d), NEW first \in Seq(Step),
         \A i \in DOMAIN first :
           \/ first[i][1] = "drop" /\ \A j \in DOMAIN first : i < j => first[j][1] = "drop"
           \/ /\ first[i][1] = "save"
              /\ first[i][2] \in resident \/ (i # 1 /\ first[1] = <<"load", first[i][2]>>)
           \/ /\ first[i][1] = "load" /\ i = 1 /\ first[i][2] \notin Dropped(d)
              /\ \E j \in DOMAIN first : first[j] = <<"save", first[i][2]>>,
         \A p \in resident \cap Dropped(d) : \E j \in DOMAIN first : first[j] = <<"drop", p>>,
         \A p \in (resident \cap Source(d)) \ Dropped(d) :
           \E j \in DOMAIN first : first[j] = <<"save", p>>
  PROVE  /\ first \o << <<"store", d>> >> \in Seq(Step)
         /\ Begins(first \o << <<"store", d>> >>)
<1> DEFINE n == Len(first)
           steps == first \o << <<"store", d>> >>
<1>1. <<"store", d>> \in Step
  <2>1. <<"store", d>> \in {"store"} \X Calls
    BY Zenon
  <2> QED BY <2>1 DEF Step
<1>2. n \in Nat /\ DOMAIN first = 1..n
  OBVIOUS
<1>3. /\ steps \in Seq(Step) /\ Len(steps) = n + 1 /\ steps[n + 1] = <<"store", d>>
      /\ \A i \in 1..n : steps[i] = first[i]
  BY <1>1, <1>2
<1> HIDE DEF n, steps
<1>4. \A i \in 1..n : i # 1 => 1 \in 1..n
  BY <1>2
<1>5. ASSUME NEW i \in 1..n
      PROVE  \/ steps[i][1] = "drop" /\ \A j \in 1..n : i < j => steps[j][1] = "drop"
             \/ /\ steps[i][1] = "save"
                /\ steps[i][2] \in resident \/ (i # 1 /\ steps[1] = <<"load", steps[i][2]>>)
             \/ /\ steps[i][1] = "load" /\ i = 1 /\ steps[i][2] \notin Dropped(d)
                /\ \E j \in 1..n : steps[j] = <<"save", steps[i][2]>>
  <2>1. CASE first[i][1] = "drop" /\ \A j \in DOMAIN first : i < j => first[j][1] = "drop"
    BY <1>2, <1>3, <2>1
  <2>2. CASE /\ first[i][1] = "save"
             /\ first[i][2] \in resident \/ (i # 1 /\ first[1] = <<"load", first[i][2]>>)
    BY <1>2, <1>3, <1>4, <2>2
  <2>3. CASE /\ first[i][1] = "load" /\ i = 1 /\ first[i][2] \notin Dropped(d)
             /\ \E j \in DOMAIN first : first[j] = <<"save", first[i][2]>>
    BY <1>2, <1>3, <2>3
  <2> QED BY <1>2, <2>1, <2>2, <2>3
<1>6. \A p \in resident \cap Dropped(d) : \E j \in 1..n : steps[j] = <<"drop", p>>
  BY <1>2, <1>3
<1>7. \A p \in (resident \cap Source(d)) \ Dropped(d) : \E j \in 1..n : steps[j] = <<"save", p>>
  BY <1>2, <1>3
<1>8. Begins(steps)
  BY <1>2, <1>3, <1>5, <1>6, <1>7, OperationBegins
<1> QED BY <1>3, <1>8 DEF steps

\* The buffers an operation finds dropped, and those it finds saved.
LEMMA DroppedIs ==
  ASSUME NEW d, IsOperation(d)
  PROVE  /\ d.op \in {"delete_file", "delete_folder"} => Dropped(d) = Source(d)
         /\ d.op = "move_file" => Dropped(d) = {d.from, d.to}
         /\ d.op = "copy_file" => Dropped(d) = {d.from, d.to} \ {d.from}
         /\ d.op = "move_folder" => Dropped(d) = Beneath(d.from) \cup Beneath(d.to)
         /\ d.op = "copy_folder" => Dropped(d) = Beneath(d.to) \ Beneath(d.from)
         /\ d.op \in {"delete_file", "move_file", "copy_file"} => Source(d) = {d.from}
         /\ d.op \in {"delete_folder", "move_folder", "copy_folder"} => Source(d) = Beneath(d.from)
<1>1. /\ d.op \in {"delete_file", "move_file", "copy_file"} => Source(d) = {d.from}
      /\ d.op \in {"delete_folder", "move_folder", "copy_folder"} => Source(d) = Beneath(d.from)
  BY DEF Source, FolderOperations
<1>2. /\ d.op \in {"delete_file", "delete_folder"} => Concerned(d) = Source(d)
      /\ d.op \in {"move_file", "copy_file"} => Concerned(d) = {d.from, d.to}
      /\ d.op \in {"move_folder", "copy_folder"} => Concerned(d) = Beneath(d.from) \cup Beneath(d.to)
  BY <1>1 DEF Concerned, FolderOperations, FileOperations
<1>3. /\ d.op \in {"delete_file", "delete_folder", "move_file", "move_folder"} => Dropped(d) = Concerned(d)
      /\ d.op \in {"copy_file", "copy_folder"} => Dropped(d) = Concerned(d) \ Source(d)
  BY DEF Dropped
<1>4. (Beneath(d.from) \cup Beneath(d.to)) \ Beneath(d.from) = Beneath(d.to) \ Beneath(d.from)
  OBVIOUS
<1> QED BY <1>1, <1>2, <1>3, <1>4

LEMMA FileCalls ==
  ASSUME IInv,
         \/ \E p \in Paths : memfile_delete(p)
         \/ \E from, to \in Paths : from # to /\ (memfile_move_file(from, to) \/ memfile_copy_file(from, to))
  PROVE  IInv' /\ Quiet
<1>1. ASSUME NEW p \in Paths, memfile_delete(p) PROVE IInv' /\ Quiet
  <2> DEFINE d == [op |-> "delete_file", from |-> p, to |-> << >>]
             first == << <<"drop", p>> >>
  <2>1. d \in Calls /\ d.op = "delete_file" /\ d.from = p
    BY DEF Calls
  <2>2. IsOperation(d) /\ Spread(d)
    BY <2>1 DEF IsOperation, Spread, FileOperations, FolderOperations
  <2>3. Call(first \o << <<"store", d>> >>)
    BY <1>1 DEF memfile_delete, Operation
  <2> HIDE DEF d
  <2>4. Dropped(d) = {p} /\ Source(d) = {p}
    BY <2>1, <2>2, DroppedIs
  <2>5. <<"drop", p>> \in Step
    BY StepIs DEF Simple
  <2>6. first \in Seq(Step) /\ DOMAIN first = {1} /\ first[1] = <<"drop", p>>
    BY <2>5
  <2> HIDE DEF first
  <2>7. /\ \A i \in DOMAIN first : first[i][1] = "drop"
        /\ \A q \in resident \cap Dropped(d) : \E j \in DOMAIN first : first[j] = <<"drop", q>>
        /\ (resident \cap Source(d)) \ Dropped(d) = {}
    BY <2>4, <2>6
  <2>8. first \o << <<"store", d>> >> \in Seq(Step) /\ Begins(first \o << <<"store", d>> >>)
    BY <2>1, <2>2, <2>6, <2>7, OperationFollows
  <2> QED BY <2>3, <2>8, CallBegins
<1>2. ASSUME NEW from \in Paths, NEW to \in Paths, from # to, memfile_move_file(from, to)
      PROVE  IInv' /\ Quiet
  <2> DEFINE d == [op |-> "move_file", from |-> from, to |-> to]
             first == << <<"drop", from>>, <<"drop", to>> >>
  <2>1. d \in Calls /\ d.op = "move_file" /\ d.from = from /\ d.to = to
    BY DEF Calls, FileOperations
  <2>2. IsOperation(d) /\ Spread(d)
    BY <1>2, <2>1 DEF IsOperation, Spread, FolderOperations
  <2>3. Call(first \o << <<"store", d>> >>)
    BY <1>2 DEF memfile_move_file, Operation
  <2> HIDE DEF d
  <2>4. Dropped(d) = {from, to} /\ Source(d) = {from}
    BY <2>1, <2>2, DroppedIs
  <2>5. <<"drop", from>> \in Step /\ <<"drop", to>> \in Step
    BY StepIs DEF Simple
  <2>6. first \in Seq(Step) /\ DOMAIN first = {1, 2} /\ first[1] = <<"drop", from>> /\ first[2] = <<"drop", to>>
    BY <2>5
  <2> HIDE DEF first
  <2>7. /\ \A i \in DOMAIN first : first[i][1] = "drop"
        /\ \A p \in resident \cap Dropped(d) : \E j \in DOMAIN first : first[j] = <<"drop", p>>
        /\ (resident \cap Source(d)) \ Dropped(d) = {}
    BY <2>4, <2>6
  <2>8. first \o << <<"store", d>> >> \in Seq(Step) /\ Begins(first \o << <<"store", d>> >>)
    BY <2>1, <2>2, <2>6, <2>7, OperationFollows
  <2> QED BY <2>3, <2>8, CallBegins
<1>3. ASSUME NEW from \in Paths, NEW to \in Paths, from # to, memfile_copy_file(from, to)
      PROVE  IInv' /\ Quiet
  <2> DEFINE d == [op |-> "copy_file", from |-> from, to |-> to]
             first == << <<"load", from>>, <<"save", from>>, <<"drop", to>> >>
  <2>1. d \in Calls /\ d.op = "copy_file" /\ d.from = from /\ d.to = to
    BY DEF Calls, FileOperations
  <2>2. IsOperation(d) /\ Spread(d)
    BY <1>3, <2>1 DEF IsOperation, Spread, FolderOperations
  <2>3. Call(first \o << <<"store", d>> >>)
    BY <1>3 DEF memfile_copy_file, Operation
  <2> HIDE DEF d
  <2>4. Dropped(d) = {to} /\ Source(d) = {from}
    BY <1>3, <2>1, <2>2, DroppedIs
  <2>5. <<"load", from>> \in Step /\ <<"save", from>> \in Step /\ <<"drop", to>> \in Step
    BY StepIs DEF Simple
  <2>6. /\ first \in Seq(Step) /\ DOMAIN first = {1, 2, 3}
        /\ first[1] = <<"load", from>> /\ first[2] = <<"save", from>> /\ first[3] = <<"drop", to>>
    BY <2>5
  <2> HIDE DEF first
  <2>7. /\ first[1][1] = "load" /\ first[1][2] \notin Dropped(d) /\ first[2] = <<"save", first[1][2]>>
        /\ first[2][1] = "save" /\ first[1] = <<"load", first[2][2]>>
        /\ first[3][1] = "drop" /\ \A j \in DOMAIN first : ~(3 < j)
        /\ \A p \in resident \cap Dropped(d) : first[3] = <<"drop", p>>
        /\ \A p \in (resident \cap Source(d)) \ Dropped(d) : first[2] = <<"save", p>>
    BY <1>3, <2>4, <2>6
  <2>8. first \o << <<"store", d>> >> \in Seq(Step) /\ Begins(first \o << <<"store", d>> >>)
    BY <2>1, <2>2, <2>6, <2>7, OperationFollows
  <2> QED BY <2>3, <2>8, CallBegins
<1> QED BY <1>1, <1>2, <1>3

\* Steps of one kind, for each of the buffers among ps.
Reaches(steps, kind, ps) ==
  /\ steps \in Seq(Step) /\ DOMAIN steps = 1..Len(steps)
  /\ \A i \in 1..Len(steps) : steps[i][1] = kind /\ steps[i][2] \in resident
  /\ \A p \in ps \cap resident : \E i \in 1..Len(steps) : steps[i] = <<kind, p>>

LEMMA EachOf ==
  ASSUME Types, NEW ps, NEW walk \in Walks(ps), NEW kind \in {"save", "drop"}
  PROVE  Reaches(Each(kind, walk), kind, ps)
<1> DEFINE steps == Each(kind, walk)
<1>1. /\ walk \in Seq(ps \cap resident)
      /\ \A p \in ps \cap resident : \E i \in 1..Len(walk) : walk[i] = p
  BY WalkOf
<1>2. walk \in Seq(Paths) /\ \A i \in 1..Len(walk) : walk[i] \in resident
  <2>1. resident \subseteq Paths
    BY DEF Types
  <2> QED BY <1>1, <2>1
<1>3. kind \in Simple
  BY DEF Simple
<1>4. /\ steps \in Seq(Step) /\ Len(steps) = Len(walk) /\ DOMAIN steps = 1..Len(walk)
      /\ \A i \in 1..Len(walk) : steps[i] = <<kind, walk[i]>>
  BY <1>2, <1>3, EachStep
<1> HIDE DEF steps
<1>5. \A i \in 1..Len(steps) : steps[i][1] = kind /\ steps[i][2] \in resident
  BY <1>2, <1>4
<1>6. \A p \in ps \cap resident : \E i \in 1..Len(steps) : steps[i] = <<kind, p>>
  BY <1>1, <1>4
<1>7. Reaches(steps, kind, ps)
  BY <1>4, <1>5, <1>6 DEF Reaches
<1> QED BY <1>7 DEF steps

\* Steps one after another.
LEMMA StepsJoined ==
  ASSUME NEW a \in Seq(Step), NEW b \in Seq(Step)
  PROVE  /\ a \o b \in Seq(Step) /\ Len(a) \in Nat /\ Len(b) \in Nat
         /\ DOMAIN (a \o b) = 1..(Len(a) + Len(b))
         /\ \A i \in 1..Len(a) : (a \o b)[i] = a[i]
         /\ \A i \in 1..Len(b) : (a \o b)[Len(a) + i] = b[i] /\ Len(a) + i \in 1..(Len(a) + Len(b))
         /\ \A i \in 1..(Len(a) + Len(b)) :
              i \in 1..Len(a) \/ \E j \in 1..Len(b) : i = Len(a) + j
<1>1. Len(a) \in Nat /\ Len(b) \in Nat
  OBVIOUS
<1>2. \A i \in 1..(Len(a) + Len(b)) : i \in 1..Len(a) \/ \E j \in 1..Len(b) : i = Len(a) + j
  <2> TAKE i \in 1..(Len(a) + Len(b))
  <2>1. CASE i <= Len(a)
    BY <1>1, <2>1
  <2>2. CASE ~(i <= Len(a))
    <3>1. i - Len(a) \in 1..Len(b) /\ i = Len(a) + (i - Len(a))
      BY <1>1, <2>2
    <3> QED BY <3>1
  <2> QED BY <2>1, <2>2
<1> QED BY <1>1, <1>2

LEMMA FolderCalls ==
  ASSUME IInv,
         \/ \E folder \in Folders : memfile_delete_folder(folder)
         \/ \E from, to \in Folders : /\ Disjoint(from, to) /\ FitsInto(from, to)
                                      /\ (memfile_move_folder(from, to) \/ memfile_copy_folder(from, to))
  PROVE  IInv' /\ Quiet
<1>0. Types
  BY DEF IInv
<1>1. ASSUME NEW folder \in Folders, memfile_delete_folder(folder) PROVE IInv' /\ Quiet
  <2> DEFINE d == [op |-> "delete_folder", from |-> folder, to |-> << >>]
  <2>1. d \in Calls /\ d.op = "delete_folder" /\ d.from = folder
    BY DEF Calls
  <2>2. IsOperation(d) /\ Spread(d)
    BY <2>1 DEF IsOperation, Spread, FileOperations, FolderOperations
  <2>3. PICK walk \in Walks(Beneath(folder)) : Call(Each("drop", walk) \o << <<"store", d>> >>)
    BY <1>1 DEF memfile_delete_folder, Operation
  <2> HIDE DEF d
  <2>4. Dropped(d) = Beneath(folder) /\ Source(d) = Beneath(folder)
    BY <2>1, <2>2, DroppedIs
  <2> DEFINE first == Each("drop", walk)
  <2>5. /\ first \in Seq(Step) /\ \A i \in DOMAIN first : first[i][1] = "drop"
        /\ \A p \in Beneath(folder) \cap resident : \E i \in DOMAIN first : first[i] = <<"drop", p>>
    <3>1. Reaches(first, "drop", Beneath(folder))
      BY <1>0, EachOf
    <3> HIDE DEF first
    <3> QED BY <3>1 DEF Reaches
  <2> HIDE DEF first
  <2>6. /\ \A p \in resident \cap Dropped(d) : \E j \in DOMAIN first : first[j] = <<"drop", p>>
        /\ (resident \cap Source(d)) \ Dropped(d) = {}
    BY <2>4, <2>5
  <2>7. first \o << <<"store", d>> >> \in Seq(Step) /\ Begins(first \o << <<"store", d>> >>)
    BY <2>1, <2>2, <2>5, <2>6, OperationFollows
  <2> QED BY <2>3, <2>7, CallBegins DEF first
<1>2. ASSUME NEW from \in Folders, NEW to \in Folders, Disjoint(from, to), FitsInto(from, to),
             memfile_move_folder(from, to)
      PROVE  IInv' /\ Quiet
  <2> DEFINE d == [op |-> "move_folder", from |-> from, to |-> to]
  <2>1. d \in Calls /\ d.op = "move_folder" /\ d.from = from /\ d.to = to
    BY <1>2 DEF Calls, FolderOperations
  <2>2. IsOperation(d) /\ Spread(d)
    BY <1>2, <2>1 DEF IsOperation, Spread, FileOperations
  <2>3. PICK walk \in Walks(Beneath(from)) : \E second \in Walks(Beneath(to)) :
          Call(Each("drop", walk) \o Each("drop", second) \o << <<"store", d>> >>)
    BY <1>2 DEF memfile_move_folder, Operation
  <2>4. PICK second \in Walks(Beneath(to)) :
          Call(Each("drop", walk) \o Each("drop", second) \o << <<"store", d>> >>)
    BY <2>3
  <2> HIDE DEF d
  <2>5. Dropped(d) = Beneath(from) \cup Beneath(to) /\ Source(d) = Beneath(from)
    BY <2>1, <2>2, DroppedIs
  <2> DEFINE a == Each("drop", walk)
             b == Each("drop", second)
             first == a \o b
  <2>6. /\ a \in Seq(Step) /\ DOMAIN a = 1..Len(a) /\ \A i \in 1..Len(a) : a[i][1] = "drop"
        /\ \A p \in Beneath(from) \cap resident : \E i \in 1..Len(a) : a[i] = <<"drop", p>>
    <3>1. Reaches(a, "drop", Beneath(from))
      BY <1>0, EachOf
    <3> HIDE DEF a
    <3> QED BY <3>1 DEF Reaches
  <2>7. /\ b \in Seq(Step) /\ DOMAIN b = 1..Len(b) /\ \A i \in 1..Len(b) : b[i][1] = "drop"
        /\ \A p \in Beneath(to) \cap resident : \E i \in 1..Len(b) : b[i] = <<"drop", p>>
    <3>1. Reaches(b, "drop", Beneath(to))
      BY <1>0, EachOf
    <3> HIDE DEF b
    <3> QED BY <3>1 DEF Reaches
  <2> HIDE DEF a, b
  <2>8. /\ first \in Seq(Step) /\ Len(a) \in Nat /\ Len(b) \in Nat
        /\ DOMAIN first = 1..(Len(a) + Len(b))
        /\ \A i \in 1..Len(a) : first[i] = a[i]
        /\ \A i \in 1..Len(b) : first[Len(a) + i] = b[i] /\ Len(a) + i \in 1..(Len(a) + Len(b))
        /\ \A i \in 1..(Len(a) + Len(b)) : i \in 1..Len(a) \/ \E j \in 1..Len(b) : i = Len(a) + j
    BY <2>6, <2>7, StepsJoined
  <2>9. Call(first \o << <<"store", d>> >>)
    BY <2>4 DEF a, b
  <2> HIDE DEF first
  <2>10. \A i \in DOMAIN first : first[i][1] = "drop"
    BY <2>6, <2>7, <2>8
  <2>11. \A p \in resident \cap Dropped(d) : \E j \in DOMAIN first : first[j] = <<"drop", p>>
    <3> TAKE p \in resident \cap Dropped(d)
    <3>1. CASE p \in Beneath(from)
      <4>1. PICK i \in 1..Len(a) : a[i] = <<"drop", p>>
        BY <2>6, <3>1
      <4>2. i \in DOMAIN first /\ first[i] = <<"drop", p>>
        BY <2>8, <4>1
      <4> QED BY <4>2
    <3>2. CASE p \in Beneath(to)
      <4>1. PICK i \in 1..Len(b) : b[i] = <<"drop", p>>
        BY <2>7, <3>2
      <4>2. Len(a) + i \in DOMAIN first /\ first[Len(a) + i] = <<"drop", p>>
        BY <2>8, <4>1
      <4> QED BY <4>2
    <3> QED BY <2>5, <3>1, <3>2
  <2>12. (resident \cap Source(d)) \ Dropped(d) = {}
    BY <2>5
  <2>13. first \o << <<"store", d>> >> \in Seq(Step) /\ Begins(first \o << <<"store", d>> >>)
    BY <2>1, <2>2, <2>8, <2>10, <2>11, <2>12, OperationFollows
  <2> QED BY <2>9, <2>13, CallBegins
<1>3. ASSUME NEW from \in Folders, NEW to \in Folders, Disjoint(from, to), FitsInto(from, to),
             memfile_copy_folder(from, to)
      PROVE  IInv' /\ Quiet
  <2> DEFINE d == [op |-> "copy_folder", from |-> from, to |-> to]
  <2>1. d \in Calls /\ d.op = "copy_folder" /\ d.from = from /\ d.to = to
    BY <1>3 DEF Calls, FolderOperations
  <2>2. IsOperation(d) /\ Spread(d)
    BY <1>3, <2>1 DEF IsOperation, Spread, FileOperations
  <2>3. PICK all \in Walks(resident) : \E walk \in Walks(Beneath(to)) :
          Call(Each("save", all) \o Each("drop", walk) \o << <<"store", d>> >>)
    BY <1>3 DEF memfile_copy_folder, Operation
  <2>4. PICK walk \in Walks(Beneath(to)) :
          Call(Each("save", all) \o Each("drop", walk) \o << <<"store", d>> >>)
    BY <2>3
  <2> HIDE DEF d
  <2>5. Dropped(d) = Beneath(to) \ Beneath(from) /\ Source(d) = Beneath(from)
    BY <2>1, <2>2, DroppedIs
  <2> DEFINE a == Each("save", all)
             b == Each("drop", walk)
             first == a \o b
  <2>6. /\ a \in Seq(Step) /\ DOMAIN a = 1..Len(a)
        /\ \A i \in 1..Len(a) : a[i][1] = "save" /\ a[i][2] \in resident
        /\ \A p \in resident \cap resident : \E i \in 1..Len(a) : a[i] = <<"save", p>>
    <3>1. Reaches(a, "save", resident)
      BY <1>0, EachOf
    <3> HIDE DEF a
    <3> QED BY <3>1 DEF Reaches
  <2>7. /\ b \in Seq(Step) /\ DOMAIN b = 1..Len(b) /\ \A i \in 1..Len(b) : b[i][1] = "drop"
        /\ \A p \in Beneath(to) \cap resident : \E i \in 1..Len(b) : b[i] = <<"drop", p>>
    <3>1. Reaches(b, "drop", Beneath(to))
      BY <1>0, EachOf
    <3> HIDE DEF b
    <3> QED BY <3>1 DEF Reaches
  <2> HIDE DEF a, b
  <2>8. /\ first \in Seq(Step) /\ Len(a) \in Nat /\ Len(b) \in Nat
        /\ DOMAIN first = 1..(Len(a) + Len(b))
        /\ \A i \in 1..Len(a) : first[i] = a[i]
        /\ \A i \in 1..Len(b) : first[Len(a) + i] = b[i] /\ Len(a) + i \in 1..(Len(a) + Len(b))
        /\ \A i \in 1..(Len(a) + Len(b)) : i \in 1..Len(a) \/ \E j \in 1..Len(b) : i = Len(a) + j
    BY <2>6, <2>7, StepsJoined
  <2>9. Call(first \o << <<"store", d>> >>)
    BY <2>4 DEF a, b
  <2> HIDE DEF first
  <2>10. /\ \A i \in 1..Len(a) : first[i][1] = "save" /\ first[i][2] \in resident
         /\ \A i \in 1..(Len(a) + Len(b)) : i \notin 1..Len(a) => first[i][1] = "drop"
    <3>1. \A i \in 1..Len(a) : first[i][1] = "save" /\ first[i][2] \in resident
      BY <2>6, <2>8
    <3>2. \A j \in 1..Len(b) : first[Len(a) + j][1] = "drop"
      BY <2>7, <2>8
    <3>3. ASSUME NEW i \in 1..(Len(a) + Len(b)), i \notin 1..Len(a) PROVE first[i][1] = "drop"
      <4>1. PICK j \in 1..Len(b) : i = Len(a) + j
        BY <2>8, <3>3
      <4> QED BY <3>2, <4>1
    <3> QED BY <3>1, <3>3
  <2>11. \A i \in DOMAIN first :
           \/ first[i][1] = "drop" /\ \A j \in DOMAIN first : i < j => first[j][1] = "drop"
           \/ first[i][1] = "save" /\ first[i][2] \in resident
    <3> TAKE i \in DOMAIN first
    <3>1. CASE i \in 1..Len(a)
      BY <2>10, <3>1
    <3>2. CASE i \notin 1..Len(a)
      <4>1. \A j \in DOMAIN first : i < j => j \notin 1..Len(a)
        BY <2>8, <3>2
      <4> QED BY <2>8, <2>10, <3>2, <4>1
    <3> QED BY <3>1, <3>2
  <2>12. \A p \in resident \cap Dropped(d) : \E j \in DOMAIN first : first[j] = <<"drop", p>>
    <3> TAKE p \in resident \cap Dropped(d)
    <3>1. PICK i \in 1..Len(b) : b[i] = <<"drop", p>>
      BY <2>5, <2>7
    <3>2. Len(a) + i \in DOMAIN first /\ first[Len(a) + i] = <<"drop", p>>
      BY <2>8, <3>1
    <3> QED BY <3>2
  <2>13. \A p \in (resident \cap Source(d)) \ Dropped(d) : \E j \in DOMAIN first : first[j] = <<"save", p>>
    <3> TAKE p \in (resident \cap Source(d)) \ Dropped(d)
    <3>1. PICK i \in 1..Len(a) : a[i] = <<"save", p>>
      BY <2>6
    <3>2. i \in DOMAIN first /\ first[i] = <<"save", p>>
      BY <2>8, <3>1
    <3> QED BY <3>2
  <2>14. first \o << <<"store", d>> >> \in Seq(Step) /\ Begins(first \o << <<"store", d>> >>)
    BY <2>1, <2>2, <2>8, <2>11, <2>12, <2>13, OperationFollows
  <2> QED BY <2>9, <2>14, CallBegins
<1> QED BY <1>1, <1>2, <1>3

LEMMA CalledInv ==
  ASSUME IInv, Called
  PROVE  IInv' /\ Quiet
<1>1. CASE \E p \in Paths : apply_transaction(p) \/ apply_update(p)
  BY <1>1, EditCalls
<1>2. CASE \/ \E p \in Paths : memfile_delete(p)
           \/ \E from, to \in Paths :
                from # to /\ (memfile_move_file(from, to) \/ memfile_copy_file(from, to))
  BY <1>2, FileCalls
<1>3. CASE \/ \E folder \in Folders : memfile_delete_folder(folder)
           \/ \E from, to \in Folders :
                /\ Disjoint(from, to) /\ FitsInto(from, to)
                /\ (memfile_move_folder(from, to) \/ memfile_copy_folder(from, to))
  BY <1>3, FolderCalls
<1>4. CASE \/ \E p \in Paths : read(p) \/ add_file(p) \/ write(p) \/ drop_file(p)
           \/ \E folder \in Folders : drop_dir(folder)
           \/ \E candidates \in Modules : extract_path(candidates)
           \/ snapshot
  BY <1>4, PlainCalls
<1> QED BY <1>1, <1>2, <1>3, <1>4 DEF Called

-----------------------------------------------------------------------------
(* The theorems.                                                           *)

\* A step keeps the invariant, and the session sees an edit, buffers that are
\* lost, a lapse, an operation, or nothing of it.
LEMMA StepInv ==
  ASSUME IInv, Next
  PROVE  /\ IInv'
         /\ \/ Edit \/ Quiet \/ Loses \/ lapses' = lapses + 1
            \/ \E c \in Callers : Effective(c)
<1>1. CASE Called
  BY <1>1, CalledInv
<1>2. CASE Read \/ Save \/ Drop \/ Operate
  BY <1>2, ReadInv, SaveInv, DropInv, OperateInv
<1>3. CASE Edit
  BY <1>3, EditInv
<1>4. CASE ReadReturned
  BY <1>4, ReadReturnedInv
<1>5. CASE SaveReturned
  BY <1>5, SaveReturnedInv
<1>6. CASE DropReturned
  BY <1>6, DropReturnedInv
<1>7. CASE OperationReturned
  BY <1>7, OperationReturnedInv
<1>8. CASE Cancel
  BY <1>8, CancelInv
<1>9. CASE Unawaited
  BY <1>9, UnawaitedInv
<1>10. CASE DropGuard
  BY <1>10, DropGuardInv
<1>11. CASE PageReload
  BY <1>11, PageReloadInv
<1> QED BY <1>1, <1>2, <1>3, <1>4, <1>5, <1>6, <1>7, <1>8, <1>9, <1>10, <1>11 DEF Next, Resumed

\* A step that changes nothing.
LEMMA Stuttering ==
  ASSUME IInv, UNCHANGED vars
  PROVE  IInv' /\ Contents' = Contents
<1>1. /\ plan' = plan
      /\ UNCHANGED <<store, queue, call, faults, file_map, edits, cancels, atRisk, lapses, discards>>
  BY DEF vars, storeVars
<1>2. resident' = resident /\ Settled' = Settled /\ InFlight' = InFlight /\ Waiting' = Waiting
  <2>1. resident' = resident
    BY <1>1 DEF resident
  <2>2. Settled' = Settled /\ InFlight' = InFlight
    BY <1>1, SameStore
  <2> QED BY <1>1, <2>1, <2>2 DEF Waiting
<1>3. Types' /\ BuffersSound'
  BY <1>1, <1>2 DEF IInv, Types, BuffersSound, Sound
<1>4. Contents' = Contents
  BY <1>1, <1>2, SameContents
<1>5. CallsAgree'
  BY <1>1 DEF IInv, CallsAgree, Awaits, Path
<1>6. ASSUME NEW i \in DOMAIN queue, queue[i].owner # Gone
      PROVE  /\ queue[i].owner = Guard => GuardAwaits(queue[i].requests)'
             /\ queue[i].owner \in Callers => CallerAwaits(queue[i].owner, queue[i].requests)'
  <2>1. /\ queue[i].owner = Guard => GuardAwaits(queue[i].requests)
        /\ queue[i].owner \in Callers => CallerAwaits(queue[i].owner, queue[i].requests)
    BY <1>6 DEF IInv, QueueAgrees
  <2>2. GuardAwaits(queue[i].requests)' <=> GuardAwaits(queue[i].requests)
    BY <1>1, <1>2 DEF GuardAwaits, Awaits, Path, Put, Concerns
  <2>3. CallerAwaits(queue[i].owner, queue[i].requests)' <=> CallerAwaits(queue[i].owner, queue[i].requests)
    BY <1>1 DEF CallerAwaits, Reads, Requests, delete_folder, move_folder, copy_folder, move_file,
                copy_file, delete_file, Keys
  <2> QED BY <2>1, <2>2, <2>3
<1>7. QueueAgrees'
  BY <1>1, <1>6 DEF IInv, QueueAgrees
<1>8. PlanAgrees'
  BY <1>1, <1>2 DEF IInv, PlanAgrees, Ordered, Counted, Persisting, Todo, Clean, Prepared
<1> QED BY <1>3, <1>4, <1>5, <1>7, <1>8 DEF IInv

LEMMA InductiveInv == Spec => []IInv
<1>1. Init => IInv
  BY InitInv
<1>2. IInv /\ [Next]_vars => IInv'
  BY StepInv, Stuttering
<1> QED BY <1>1, <1>2, PTL DEF Spec

\* Whatever is in the queue and however calls were dropped, at most one
\* transaction is awaited, by a call with steps to take; buffers and store hold
\* texts of edits that were made, and only buffers are at risk.
THEOREM TypeCorrect == Spec => []TypeOK
<1>1. IInv => TypeOK
  <2> SUFFICES ASSUME IInv PROVE TypeOK
    OBVIOUS
  <2>0. Types /\ QueueAgrees /\ CallsAgree
    BY DEF IInv
  <2> DEFINE awaited == {i \in DOMAIN queue : queue[i].owner # Gone}
  <2>1. Cardinality(awaited) <= 1
    <3>1. awaited \subseteq {Len(queue)}
      BY <2>0 DEF QueueAgrees
    <3>2. awaited = {} \/ awaited = {Len(queue)}
      BY <3>1
    <3> HIDE DEF awaited
    <3>3. Cardinality(awaited) = 0 \/ Cardinality(awaited) = 1
      BY <3>2, FS_EmptySet, FS_Singleton
    <3> QED BY <3>3
  <2>2. Waiting => plan # << >>
    BY <2>0 DEF Waiting, QueueAgrees
  <2>3. \A c \in Callers : call[c] # Idle => \E i \in DOMAIN queue : queue[i].owner = c
    BY <2>0 DEF CallsAgree
  <2>4. /\ store \in [Paths -> TextsUpTo(edits) \cup {NoFile}] /\ resident \subseteq Paths
        /\ file_map \in [resident -> [text : TextsUpTo(edits), ops_since_save : 0..edits]]
        /\ atRisk \subseteq resident
        /\ edits \in 0..MaxEdits /\ cancels \in 0..MaxMishaps
        /\ lapses \in Nat /\ discards \in Nat
    BY <2>0 DEF Types, Trees, Buffers
  <2> QED BY <2>1, <2>2, <2>3, <2>4 DEF TypeOK
<1> QED BY <1>1, InductiveInv, PTL

\* Wherever calls are dropped and in whatever order transactions are run, unless a save
\* of it is on its way or was lost, a buffer only adds to what is stored, by no more local
\* edits than it counts and fewer than SAVE_THRESHOLD.
THEOREM RunsAhead == Spec => []BufferRunsAhead
<1>1. IInv => BufferRunsAhead
  <2> SUFFICES ASSUME IInv, NEW p \in resident \ (atRisk \cup InFlight)
               PROVE  /\ store[p] # NoFile /\ IsPrefix(store[p], file_map[p].text)
                      /\ LET unsaved == Abstract!LocalEdits(Abstract!Suffix(file_map[p].text, store[p]))
                         IN unsaved <= file_map[p].ops_since_save /\ unsaved < SAVE_THRESHOLD
    BY DEF BufferRunsAhead
  <2>0. Types /\ BuffersSound
    BY DEF IInv
  <2>1. p \in Paths /\ Writes(p) = {}
    BY <2>0 DEF Types, InFlight, Writes
  <2>2. Settled[p] = store[p]
    BY <2>0, <2>1, SettledIs
  <2>3. Behind(store[p], file_map[p].text, file_map[p].ops_since_save)
    BY <2>0, <2>2 DEF BuffersSound, Sound
  <2> QED BY <2>3 DEF Behind
<1> QED BY <1>1, InductiveInv, PTL

\* Transactions of dropped calls that run beside it and saves that others have lost
\* notwithstanding, a snapshot that returns has stored every buffer that is not at risk,
\* whether the buffer counts edits or not.
THEOREM Snapshot == Spec => SnapshotPersists
<1>1. IInv => [SaveReturned /\ Head(plan)[1] = "save" /\ plan' = << >> /\ faults' = faults =>
                 \A p \in resident \ atRisk : store'[p] = file_map[p].text]_vars
  BY SnapshotStores
<1> QED BY <1>1, InductiveInv, PTL DEF SnapshotPersists

\* An operation that is answered, or whose call is dropped while it is carried out, does
\* what it is meant to do to the texts the session sees, unsaved edits included.
THEOREM OperationsAct == Spec => OperationsActOnSession
<1>1. IInv => [\A c \in Callers :
                 /\ OperationReturned \/ Cancel
                 /\ call[c] # Idle /\ call'[c] = Idle
                 /\ faults' = faults /\ atRisk = {}
                 => IF call[c].awaits = "write" THEN Contents' = Meant(call[c], Contents)
                    ELSE \/ Cancel
                         \/ Present(Contents) \cap Source(call[c]) = {}]_vars
  <2> SUFFICES ASSUME IInv, NEW c \in Callers, OperationReturned \/ Cancel,
                      call[c] # Idle, call'[c] = Idle, faults' = faults, atRisk = {}
               PROVE  IF call[c].awaits = "write" THEN Contents' = Meant(call[c], Contents)
                      ELSE Cancel \/ Present(Contents) \cap Source(call[c]) = {}
    OBVIOUS
  <2>1. CASE OperationReturned
    BY <2>1, OperationActs
  <2>2. CASE Cancel
    <3>1. atRisk \cap Source(call[c]) = {}
      OBVIOUS
    <3> QED BY <2>2, <3>1, CancelActs
  <2> QED BY <2>1, <2>2
<1> QED BY <1>1, InductiveInv, PTL DEF OperationsActOnSession

-----------------------------------------------------------------------------
(* Every step is one of the session.                                       *)

\* The session's operators on trees are those of the store.
LEMMA AbstractTrees ==
  ASSUME NEW tree, NEW from, NEW to
  PROVE  /\ Abstract!Without(tree, from) = Without(tree, from)
         /\ Abstract!Beneath(from) = Beneath(from)
         /\ Abstract!FileMoved(tree, from, to) = FileMoved(tree, from, to)
         /\ Abstract!FileCopied(tree, from, to) = FileCopied(tree, from, to)
<1>1. \A s, t : Abstract!IsPrefix(s, t) = IsPrefix(s, t)
  BY DEF Abstract!IsPrefix, IsPrefix
<1> QED BY <1>1 DEF Abstract!Without, Without, Abstract!Beneath, Beneath, Abstract!FileMoved, FileMoved,
                    Abstract!FileCopied, FileCopied

LEMMA AbstractFolders ==
  ASSUME NEW tree, NEW from, NEW to
  PROVE  /\ Abstract!FolderMoved(tree, from, to) = FolderMoved(tree, from, to)
         /\ Abstract!FolderCopied(tree, from, to) = FolderCopied(tree, from, to)
<1>1. \A f : Abstract!Beneath(f) = Beneath(f)
  BY AbstractTrees
<1>2. \A p, f, t : Abstract!Rebased(p, f, t) = Rebased(p, f, t)
  BY DEF Abstract!Rebased, Rebased
<1>3. Abstract!Present(tree) = Present(tree)
  BY DEF Abstract!Present, Present
<1>4. Abstract!Relocated(tree, from, to) = Relocated(tree, from, to)
  BY <1>1, <1>2, <1>3 DEF Abstract!Relocated, Relocated
<1> QED BY <1>1, <1>2, <1>4 DEF Abstract!FolderMoved, FolderMoved, Abstract!FolderCopied, FolderCopied

\* A step that the session does not see, but for what is at risk.
LEMMA QuietStep ==
  ASSUME IInv, IInv', Contents' = Contents, lapses' = lapses, discards' = discards
  PROVE  [Abstract!Next]_(Abstract!vars)
<1>1. CASE (atRisk \cup InFlight)' = atRisk \cup InFlight
  BY <1>1 DEF Abstract!vars
<1>2. CASE (atRisk \cup InFlight)' # atRisk \cup InFlight
  <2>1. atRisk \cup InFlight \subseteq Paths
    BY EntryTyped DEF IInv, Types, InFlight
  <2>2. (atRisk \cup InFlight)' \subseteq Paths
    <3>1. atRisk' \subseteq Paths /\ queue' \in Seq(Entries(edits'))
      BY DEF IInv, Types
    <3>2. ASSUME NEW i \in DOMAIN queue' PROVE Concerns(queue'[i].requests) \subseteq Paths
      <4>1. queue'[i] \in Entries(edits')
        BY <3>1
      <4>2. queue'[i].requests \in Seq(Paths \X (TextsUpTo(edits') \cup {NoFile}))
        BY <4>1 DEF Entries
      <4> QED BY <4>2 DEF Concerns, ToSet
    <3>3. InFlight' \subseteq Paths
      BY <3>2 DEF InFlight, Concerns
    <3> QED BY <3>1, <3>3
  <2>3. PICK p : p \in Paths
    BY <1>2, <2>1, <2>2
  <2>4. Abstract!FileOperation
    <3>1. CASE Contents[p] # NoFile
      <4>1. FileCopied(Contents, p, p) = Contents
        BY <2>3 DEF FileCopied, Contents
      <4>2. Contents' = Abstract!FileCopied(Contents, p, p)
        BY <4>1, AbstractTrees
      <4> QED BY <2>3, <3>1, <4>2 DEF Abstract!FileOperation
    <3>2. CASE Contents[p] = NoFile
      <4>1. Without(Contents, {p}) = Contents
        BY <2>3, <3>2 DEF Without, Contents
      <4>2. Contents' = Abstract!Without(Contents, {p})
        BY <4>1, AbstractTrees
      <4> QED BY <2>3, <4>2 DEF Abstract!FileOperation, Abstract!Delete
    <3> QED BY <3>1, <3>2
  <2> QED BY <2>4 DEF Abstract!Next
<1> QED BY <1>1, <1>2

\* Without a source, a file operation leaves no destination.
LEMMA NoSource ==
  ASSUME NEW n \in Nat, NEW tree \in Trees(n), NEW from \in Paths, NEW to \in Paths, from # to, tree[from] = NoFile
  PROVE  /\ FileMoved(tree, from, to) = Without(tree, {to})
         /\ FileCopied(tree, from, to) = Without(tree, {to})
<1> DEFINE V == TextsUpTo(n) \cup {NoFile}
<1>1. tree \in [Paths -> V]
  BY DEF Trees
<1> HIDE DEF V
<1>2. FileMoved(tree, from, to) = [p \in Paths |-> IF p = to THEN NoFile ELSE tree[p]]
  <2>1. FileMoved(tree, from, to) =
          [p \in Paths |-> IF p = to THEN tree[from] ELSE IF p = from THEN NoFile ELSE tree[p]]
    BY <1>1 DEF FileMoved
  <2> QED BY <2>1
<1>3. FileCopied(tree, from, to) = [p \in Paths |-> IF p = to THEN NoFile ELSE tree[p]]
  BY <1>1 DEF FileCopied
<1> QED BY <1>2, <1>3 DEF Without

LEMMA EffectiveStep ==
  ASSUME IInv, NEW c \in Callers, Effective(c)
  PROVE  [Abstract!Next]_(Abstract!vars)
<1> DEFINE d == call[c]
           from == d.from
           to == d.to
<1>1. /\ IsOperation(d) /\ Spread(d) /\ Contents' = Meant(d, Contents)
      /\ lapses' = lapses /\ discards' = discards
  BY DEF Effective
<1>2. /\ d.op \in FileOps \cup {"delete_folder", "move_folder", "copy_folder"}
      /\ d.op \in FileOps => from \in Paths /\ (d.op # "delete_file" => to \in Paths)
      /\ d.op \notin FileOps => from \in Folders
      /\ d.op \in {"move_folder", "copy_folder"} => to \in Folders
  BY <1>1, Arguments
<1>3. d.op \in {"move_file", "copy_file"} => from # to
  BY <1>1 DEF Spread, FileOperations
<1>4. edits \in Nat /\ Contents \in Trees(edits)
  <2>1. Types
    BY DEF IInv
  <2> QED BY <2>1, QueueTyped, ContentsTyped
<1> HIDE DEF d
<1>5. \/ \E p \in Paths : Contents' = Without(Contents, {p})
      \/ \E folder \in Folders : Contents' = Without(Contents, Beneath(folder))
      \/ \E f, t \in Paths :
           /\ Contents[f] # NoFile
           /\ Contents' \in {FileMoved(Contents, f, t), FileCopied(Contents, f, t)}
      \/ \E f, t \in Folders :
           Contents' \in {FolderMoved(Contents, f, t), FolderCopied(Contents, f, t)}
  <2>1. CASE d.op = "delete_file"
    BY <1>1, <1>2, <2>1 DEF Meant, FileOps
  <2>2. CASE d.op = "delete_folder"
    BY <1>1, <1>2, <2>2 DEF Meant, FileOps
  <2>3. CASE d.op \in {"move_folder", "copy_folder"}
    <3>1. Contents' \in {FolderMoved(Contents, from, to), FolderCopied(Contents, from, to)}
      BY <1>1, <2>3 DEF Meant
    <3> QED BY <1>2, <2>3, <3>1 DEF FileOps
  <2>4. CASE d.op \in {"move_file", "copy_file"}
    <3>1. Contents' \in {FileMoved(Contents, from, to), FileCopied(Contents, from, to)}
      BY <1>1, <2>4 DEF Meant
    <3>2. from \in Paths /\ to \in Paths /\ from # to
      BY <1>2, <1>3, <2>4 DEF FileOps
    <3>3. CASE Contents[from] = NoFile
      BY <1>4, <3>1, <3>2, <3>3, NoSource
    <3> QED BY <3>1, <3>2, <3>3
  <2> QED BY <1>2, <2>1, <2>2, <2>3, <2>4 DEF FileOps
<1>6. Abstract!FileOperation
  BY <1>1, <1>5, AbstractTrees, AbstractFolders DEF Abstract!FileOperation, Abstract!Delete
<1> QED BY <1>6 DEF Abstract!Next

\* Buffers that are lost take back what they lacked in the store.
LEMMA LosesStep ==
  ASSUME Loses
  PROVE  [Abstract!Next]_(Abstract!vars)
<1>1. ASSUME NEW p \in Paths PROVE Abstract!TakenBack(p)
  <2>1. CASE Contents'[p] = Contents[p] \/ p \in atRisk \cup InFlight
    BY <2>1 DEF Abstract!TakenBack
  <2>2. ASSUME Contents[p] # NoFile, NEW ops \in Nat, Behind(Contents'[p], Contents[p], ops)
        PROVE  Abstract!TakenBack(p)
    BY <2>2 DEF Behind, Abstract!TakenBack, Abstract!IsPrefix, IsPrefix
  <2> QED BY <2>1, <2>2 DEF Loses
<1> QED BY <1>1 DEF Loses, Abstract!Next, Abstract!Crash

\* The number of an edit is new to the session.
LEMMA FreshEdit ==
  ASSUME edits \in Nat, Contents \in Trees(edits), NEW e \in {edits + 1} \X Origins
  PROVE  Abstract!FreshIn(<<e>>, Contents)
<1> SUFFICES ASSUME NEW x \in Abstract!ToSet(<<e>>), x \in Abstract!Edits(Contents) PROVE FALSE
  BY DEF Abstract!FreshIn
<1>1. x = e
  BY DEF Abstract!ToSet
<1>2. PICK q \in Abstract!Present(Contents) : x \in Abstract!ToSet(Contents[q])
  BY DEF Abstract!Edits
<1>3. q \in Paths /\ Contents[q] \in TextsUpTo(edits)
  BY <1>2 DEF Abstract!Present, Trees
<1>4. PICK j \in DOMAIN Contents[q] : x = Contents[q][j]
  BY <1>2 DEF Abstract!ToSet
<1>5. x \in (0..edits) \X Origins
  <2> DEFINE E == (0..edits) \X Origins
             t == Contents[q]
  <2>1. t \in Seq(E)
    BY <1>3 DEF TextsUpTo, Origins
  <2>2. j \in DOMAIN t /\ x = t[j]
    BY <1>4
  <2> HIDE DEF E, t
  <2>3. x \in E
    BY <2>1, <2>2
  <2> QED BY <2>3 DEF E
<1>6. x[1] \in 0..edits /\ x[1] = edits + 1
  BY <1>1, <1>5
<1> QED BY <1>6

\* What an edit adds to a text is the edit.
LEMMA EditAdds ==
  ASSUME NEW t \in Texts, NEW e \in Nat \X Origins
  PROVE  /\ Abstract!IsStrictPrefix(t, Append(t, e)) /\ Append(t, e) # NoFile
         /\ Abstract!Suffix(Append(t, e), t) = <<e>>
<1> DEFINE E == Nat \X Origins
           u == Append(t, e)
<1>1. t \in Seq(E) /\ e \in E
  BY DEF Texts
<1> HIDE DEF E
<1>2. IsPrefix(t, t) /\ Abstract!Suffix(t, t) = << >>
  BY <1>1, SuffixOfSelf
<1>3. u \in Seq(E) /\ IsPrefix(t, u) /\ Abstract!Suffix(u, t) = Append(Abstract!Suffix(t, t), e)
  <2>1. ASSUME NEW S, t \in Seq(S), e \in S, IsPrefix(t, t)
        PROVE  /\ Append(t, e) \in Seq(S) /\ IsPrefix(t, Append(t, e))
               /\ Abstract!Suffix(Append(t, e), t) = Append(Abstract!Suffix(t, t), e)
    BY <2>1, SuffixOfAppend
  <2> QED BY <1>1, <1>2, <2>1
<1>4. Append(<< >>, e) = <<e>>
  OBVIOUS
<1>5. Len(t) \in Nat /\ Len(u) = Len(t) + 1
  BY <1>1
<1> HIDE DEF u
<1>6. t # u
  BY <1>5
<1>7. u # NoFile
  BY <1>3, ConstantsAssumption DEF E, Origins
<1>8. Abstract!IsStrictPrefix(t, u)
  BY <1>3, <1>6 DEF Abstract!IsStrictPrefix, Abstract!IsPrefix, IsPrefix
<1> QED BY <1>2, <1>3, <1>4, <1>7, <1>8 DEF u

LEMMA EditStep ==
  ASSUME IInv, Edit
  PROVE  [Abstract!Next]_(Abstract!vars)
<1>0. Types /\ edits \in Nat /\ Contents \in Trees(edits)
  <2>1. Types
    BY DEF IInv
  <2> QED BY <2>1, QueueTyped, ContentsTyped
<1>1. PICK file \in Buffers(edits + 1) : \E e \in {edits + 1} \X Origins : EditedIn(file) /\ EditOf(file, e)
  BY EditInv
<1>2. PICK e \in {edits + 1} \X Origins : EditedIn(file) /\ EditOf(file, e)
  BY <1>1
<1>3. /\ Path \in Paths
      /\ Head(plan)[1] # "reset" => Path \in resident
      /\ lapses' = lapses /\ discards' = discards
  <2>1. Path \in Paths /\ (Head(plan)[1] # "reset" => Path \in resident)
    BY EditMakes
  <2> QED BY <2>1 DEF Edit
<1> PICK path : path = Path
  OBVIOUS
<1>4. \A p \in Paths : /\ Contents'[p] = IF p \in resident' THEN file_map'[p].text ELSE Settled'[p]
                       /\ Contents[p] = IF p \in resident THEN file_map[p].text ELSE Settled[p]
  BY DEF Contents
<1>5. Contents'[path] = file.text
  BY <1>2, <1>3, <1>4 DEF EditedIn
<1>6. ASSUME NEW p \in Paths, p # path PROVE Contents'[p] = Contents[p]
  BY <1>2, <1>4, <1>6 DEF EditedIn
<1>7. Contents' = [Contents EXCEPT ![path] = Contents'[path]]
  <2>1. Contents' = [p \in Paths |-> Contents'[p]] /\ Contents = [p \in Paths |-> Contents[p]]
    BY DEF Contents
  <2> QED BY <1>6, <2>1
<1>8. e \in Nat \X Origins
  BY <1>0, <1>2
<1>9. Abstract!FreshIn(<<e>>, Contents)
  BY <1>0, FreshEdit
<1>10. CASE Head(plan)[1] = "reset"
  <2>1. Contents'[path] = <<e>>
    BY <1>2, <1>5, <1>10 DEF EditOf
  <2>2. <<e>> # NoFile
    <3>1. <<e>> \in Seq(Nat \X Origins)
      BY <1>8
    <3> QED BY <3>1, ConstantsAssumption DEF Origins
  <2>3. Abstract!Overwrite(path)
    BY <1>7, <1>9, <2>1, <2>2 DEF Abstract!Overwrite
  <2> QED BY <1>3, <2>3 DEF Abstract!FileOperation, Abstract!Next
<1>11. CASE Head(plan)[1] # "reset"
  <2>1. path \in resident /\ path \in Paths
    BY <1>3, <1>11
  <2> PICK text : text = file_map[path].text
    OBVIOUS
  <2>2. text \in Texts /\ text # NoFile /\ Contents[path] = text
    BY <1>0, <1>4, <2>1, BufferTyped
  <2>3. Contents'[path] = Append(text, e)
    BY <1>2, <1>5, <1>11 DEF EditOf
  <2>4. /\ Abstract!IsStrictPrefix(text, Append(text, e)) /\ Append(text, e) # NoFile
        /\ Abstract!Suffix(Append(text, e), text) = <<e>>
    BY <1>8, <2>2, EditAdds
  <2>5. Abstract!Edit(path)
    BY <1>7, <1>9, <2>2, <2>3, <2>4 DEF Abstract!Edit
  <2> QED BY <1>3, <2>1, <2>5 DEF Abstract!FileOperation, Abstract!Next
<1> QED BY <1>10, <1>11

LEMMA AbstractInit == Init => Abstract!Init
  BY DEF Init, Abstract!Init, InFlight

\* Each step is an operation of the session on its texts, a lapse, buffers that
\* are lost, or nothing that the session sees.
LEMMA AbstractStep == IInv /\ IInv' /\ [Next]_vars => [Abstract!Next]_(Abstract!vars)
<1> SUFFICES ASSUME IInv, IInv', [Next]_vars PROVE [Abstract!Next]_(Abstract!vars)
  OBVIOUS
<1>1. CASE Edit
  BY <1>1, EditStep
<1>2. CASE Quiet
  BY <1>2, QuietStep DEF Quiet
<1>3. CASE Loses
  BY <1>3, LosesStep
<1>4. CASE lapses' = lapses + 1
  BY <1>4 DEF Abstract!Next, Abstract!Lapse
<1>5. CASE \E c \in Callers : Effective(c)
  BY <1>5, EffectiveStep
<1>6. CASE UNCHANGED vars
  <2>1. Contents' = Contents /\ lapses' = lapses /\ discards' = discards
    BY <1>6, Stuttering DEF vars
  <2> QED BY <2>1, QuietStep
<1>7. Next => \/ Edit \/ Quiet \/ Loses \/ lapses' = lapses + 1
              \/ \E c \in Callers : Effective(c)
  BY StepInv
<1> QED BY <1>1, <1>2, <1>3, <1>4, <1>5, <1>6, <1>7

\* With calls dropped at any await, transactions that run without their call and saves that
\* fail, the asynchronous guard and its store are the editing session of FileSession: edits
\* only add to a text, an operation happens wholly or not at all, and losing the buffers takes
\* back fewer than SAVE_THRESHOLD local keystrokes of a file with no save lost or on its way.
THEOREM Implements == Spec => ImplementsSession
  BY AbstractInit, AbstractStep, InductiveInv, PTL DEF Spec, ImplementsSession, Abstract!Spec
=============================================================================
