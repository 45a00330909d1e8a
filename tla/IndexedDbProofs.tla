-------------------------- MODULE IndexedDbProofs --------------------------
(***************************************************************************)
(* Facts about the store over IndexedDB, for the proofs of the sessions    *)
(* that use it: what is left of a queue when a transaction is answered,    *)
(* what a transaction commits, and that the requests an operation makes of *)
(* what it read do, when they are committed, what the operation is meant   *)
(* to do.                                                                  *)
(***************************************************************************)
EXTENDS IndexedDb, FiniteSetTheorems, SequenceTheorems, WellFoundedInduction, TLAPS

-----------------------------------------------------------------------------
(* Numbers and sets of them.                                               *)

LEMMA LeastNumber ==
  ASSUME NEW S \in SUBSET Nat, S # {}
  PROVE  \E n \in S : \A m \in S : n <= m
<1> DEFINE R == OpToRel(<, Nat)
<1>1. IsWellFoundedOn(R, Nat)
  BY NatLessThanWellFounded
<1>2. \A x, y \in Nat : <<x, y>> \in R <=> x < y
  BY DEF OpToRel
<1> HIDE DEF R
<1>3. PICK n \in S : \A m \in S : ~(<<m, n>> \in R)
  BY <1>1, WFMin
<1>4. \A m \in S : n <= m
  <2> SUFFICES ASSUME NEW m \in S PROVE n <= m
    OBVIOUS
  <2>1. n \in Nat /\ m \in Nat /\ ~(m < n)
    BY <1>2, <1>3
  <2> QED BY <2>1
<1> QED BY <1>4

LEMMA LeastIs ==
  ASSUME NEW S \in SUBSET Nat, S # {}
  PROVE  Min(S) \in S /\ \A m \in S : Min(S) <= m
BY LeastNumber DEF Min

LEMMA GreatestIs ==
  ASSUME NEW N \in Nat, NEW S \in SUBSET (1..N), S # {}
  PROVE  Max(S) \in S
<1> DEFINE T == {N - n : n \in S}
<1>1. T \in SUBSET Nat /\ T # {}
  <2>1. \A n \in S : n \in Nat /\ n <= N /\ N - n \in Nat
    OBVIOUS
  <2> QED BY <2>1
<1>2. PICK k \in T : \A m \in T : k <= m
  BY <1>1, LeastNumber
<1>3. PICK n \in S : k = N - n
  OBVIOUS
<1>4. \A m \in S : n >= m
  <2>1. SUFFICES ASSUME NEW m \in S PROVE n >= m
    OBVIOUS
  <2>2. N - m \in T
    OBVIOUS
  <2>3. N - n <= N - m
    BY <1>2, <1>3, <2>2
  <2> QED BY <2>3
<1> QED BY <1>4 DEF Max

\* The n-th number of a finite set.
LEMMA NthNumber ==
  ASSUME NEW N \in Nat, NEW S \in SUBSET (1..N), NEW n \in 1..Cardinality(S)
  PROVE  \E i \in S : Cardinality({j \in S : j <= i}) = n
<1> DEFINE Upto(m) == {j \in S : j <= m}
           T == {m \in Nat : Cardinality(Upto(m)) >= n}
<1>1. IsFiniteSet(S) /\ Cardinality(S) \in Nat
  BY FS_BoundedSetOfNaturals, FS_CardinalityType
<1>2. \A m \in Nat : IsFiniteSet(Upto(m)) /\ Cardinality(Upto(m)) \in Nat
  BY <1>1, FS_Subset, FS_CardinalityType
<1>3. N \in T
  <2>1. Upto(N) = S
    <3>1. \A j \in S : j <= N
      OBVIOUS
    <3> QED BY <3>1
  <2> QED BY <1>1, <2>1
<1>4. PICK m \in T : \A k \in T : m <= k
  <2>1. T \in SUBSET Nat /\ T # {}
    BY <1>3
  <2> HIDE DEF T
  <2> QED BY <2>1, LeastNumber
<1>5. m # 0
  <2>1. Upto(0) = {}
    <3>1. \A j \in S : ~(j <= 0)
      OBVIOUS
    <3> QED BY <3>1
  <2>2. Cardinality(Upto(0)) = 0 /\ ~(0 >= n)
    BY <2>1, FS_EmptySet
  <2> QED BY <2>2
<1>6. m - 1 \in Nat /\ ~(Cardinality(Upto(m - 1)) >= n)
  <2>1. m - 1 \in Nat /\ ~(m <= m - 1) /\ m \in Nat
    BY <1>5
  <2>2. m - 1 \notin T
    BY <1>4, <2>1
  <2> QED BY <2>1, <2>2
<1>7. CASE m \in S
  <2>1. Upto(m) = Upto(m - 1) \cup {m} /\ m \notin Upto(m - 1)
    <3>1. \A j \in S : /\ j <= m <=> j <= m - 1 \/ j = m
                       /\ ~(m <= m - 1)
      BY <1>6
    <3> QED BY <1>7, <3>1
  <2>2. Cardinality(Upto(m)) = Cardinality(Upto(m - 1)) + 1
    <3>1. IsFiniteSet(Upto(m - 1))
      BY <1>2, <1>6
    <3> HIDE DEF Upto
    <3> QED BY <2>1, <3>1, FS_AddElement
  <2>3. Cardinality(Upto(m - 1)) \in Nat
    BY <1>2, <1>6
  <2>4. Cardinality(Upto(m)) = n
    BY <1>1, <1>4, <1>6, <2>2, <2>3
  <2> QED BY <1>7, <2>4
<1>8. CASE m \notin S
  <2>1. Upto(m) = Upto(m - 1)
    <3>1. \A j \in S : j <= m <=> j <= m - 1
      BY <1>6, <1>8
    <3> QED BY <3>1
  <2> QED BY <1>4, <1>6, <2>1
<1> QED BY <1>7, <1>8

LEMMA PlaceInSet ==
  ASSUME NEW N \in Nat, NEW S \in SUBSET (1..N), NEW i \in S
  PROVE  /\ Cardinality({j \in S : j <= i}) \in 1..Cardinality(S)
         /\ \A k \in S : Cardinality({j \in S : j <= k}) = Cardinality({j \in S : j <= i}) => k = i
<1> DEFINE Upto(m) == {j \in S : j <= m}
<1>1. IsFiniteSet(S) /\ Cardinality(S) \in Nat
  BY FS_BoundedSetOfNaturals, FS_CardinalityType
<1>2. \A m \in S : /\ IsFiniteSet(Upto(m)) /\ Cardinality(Upto(m)) \in Nat
                   /\ Cardinality(Upto(m)) <= Cardinality(S)
  <2> SUFFICES ASSUME NEW m \in S
               PROVE  /\ IsFiniteSet(Upto(m)) /\ Cardinality(Upto(m)) \in Nat
                      /\ Cardinality(Upto(m)) <= Cardinality(S)
    OBVIOUS
  <2>1. Upto(m) \subseteq S
    OBVIOUS
  <2> HIDE DEF Upto
  <2> QED BY <1>1, <2>1, FS_Subset, FS_CardinalityType
<1>3. Cardinality(Upto(i)) # 0
  <2>1. i \in Upto(i)
    OBVIOUS
  <2> HIDE DEF Upto
  <2> QED BY <1>2, <2>1, FS_EmptySet
\* Of two places the later one has more before it.
<1>4. ASSUME NEW k \in S, NEW l \in S, k < l
      PROVE  Cardinality(Upto(k)) < Cardinality(Upto(l))
  <2>1. /\ \A j \in S : j <= k => j <= l
        /\ l <= l /\ ~(l <= k)
    BY <1>4
  <2>4. Upto(k) \subseteq Upto(l) /\ l \in Upto(l) /\ l \notin Upto(k)
    BY <2>1
  <2> HIDE DEF Upto
  <2>2. Upto(k) # Upto(l)
    BY <2>4
  <2>3. /\ Cardinality(Upto(k)) <= Cardinality(Upto(l))
        /\ Cardinality(Upto(l)) = Cardinality(Upto(k)) => Upto(k) = Upto(l)
    BY <1>2, <2>4, FS_Subset
  <2> QED BY <1>2, <2>2, <2>3
<1>5. \A k \in S : Cardinality(Upto(k)) = Cardinality(Upto(i)) => k = i
  <2> SUFFICES ASSUME NEW k \in S, k # i PROVE Cardinality(Upto(k)) # Cardinality(Upto(i))
    OBVIOUS
  <2>1. k < i \/ i < k
    OBVIOUS
  <2> HIDE DEF Upto
  <2> QED BY <1>2, <1>4, <2>1
<1> HIDE DEF Upto
<1>6. Cardinality(Upto(i)) \in 1..Cardinality(S)
  BY <1>1, <1>2, <1>3
<1> QED BY <1>5, <1>6 DEF Upto

-----------------------------------------------------------------------------
(* Sequences.                                                              *)

\* One text begins another if it is no longer and agrees with it place by place.
LEMMA PrefixByPlace ==
  ASSUME NEW S, NEW s \in Seq(S), NEW t \in Seq(S)
  PROVE  IsPrefix(s, t) <=> Len(s) <= Len(t) /\ \A i \in 1..Len(s) : s[i] = t[i]
<1>1. Len(s) \in Nat /\ Len(t) \in Nat
  OBVIOUS
<1>2. ASSUME Len(s) <= Len(t)
      PROVE  SubSeq(s, 1, Len(s)) = SubSeq(t, 1, Len(s)) <=> \A i \in 1..Len(s) : s[i] = t[i]
  BY <1>1, <1>2
<1> QED BY <1>1, <1>2 DEF IsPrefix

\* Two sequences joined, place by place.
LEMMA JoinedByPlace ==
  ASSUME NEW S, NEW s \in Seq(S), NEW t \in Seq(S)
  PROVE  /\ s \o t \in Seq(S) /\ Len(s \o t) = Len(s) + Len(t)
         /\ \A i \in 1..Len(s \o t) : (s \o t)[i] = IF i <= Len(s) THEN s[i] ELSE t[i - Len(s)]
<1>1. s \o t \in Seq(S)
  OBVIOUS
<1>2. Len(s \o t) = Len(s) + Len(t)
  OBVIOUS
<1>3. ASSUME NEW i \in 1..(Len(s) + Len(t))
      PROVE  (s \o t)[i] = IF i <= Len(s) THEN s[i] ELSE t[i - Len(s)]
  OBVIOUS
<1> QED BY <1>1, <1>2, <1>3

\* What is left of a queue.
LEMMA RemovedAt ==
  ASSUME NEW S, NEW q \in Seq(S), NEW i \in DOMAIN q
  PROVE  /\ RemoveAt(q, i) \in Seq(S)
         /\ Len(RemoveAt(q, i)) = Len(q) - 1
         /\ \A k \in 1..(Len(q) - 1) : RemoveAt(q, i)[k] = IF k < i THEN q[k] ELSE q[k + 1]
<1> DEFINE a == SubSeq(q, 1, i - 1)
           b == SubSeq(q, i + 1, Len(q))
<1>1. i \in 1..Len(q) /\ Len(q) \in Nat /\ i \in Nat /\ i # 0
  OBVIOUS
<1>2. /\ a \in Seq(S) /\ Len(a) = i - 1
      /\ \A k \in 1..(i - 1) : a[k] = q[k]
  <2>1. \A k \in 1..(i - 1) : k \in 1..Len(q)
    BY <1>1
  <2>2. 1 \in 1..(Len(q) + 1) /\ i - 1 \in 0..Len(q)
    BY <1>1
  <2>3. /\ a \in Seq(S)
        /\ Len(a) = IF 1 <= i - 1 THEN (i - 1) - 1 + 1 ELSE 0
        /\ \A k \in 1..((i - 1) - 1 + 1) : a[k] = q[1 + k - 1]
    BY <2>2, SubSeqProperties
  <2> HIDE DEF a
  <2>4. Len(a) = i - 1
    BY <1>1, <2>3
  <2>5. \A k \in 1..(i - 1) : k \in 1..((i - 1) - 1 + 1) /\ 1 + k - 1 = k
    BY <1>1
  <2> QED BY <2>3, <2>4, <2>5
<1>3. /\ b \in Seq(S) /\ Len(b) = Len(q) - i
      /\ \A k \in 1..(Len(q) - i) : b[k] = q[i + k]
  <2>2. i + 1 \in 1..(Len(q) + 1) /\ Len(q) \in i..Len(q)
    BY <1>1
  <2>3. /\ b \in Seq(S)
        /\ Len(b) = IF i + 1 <= Len(q) THEN Len(q) - (i + 1) + 1 ELSE 0
        /\ \A k \in 1..(Len(q) - (i + 1) + 1) : b[k] = q[(i + 1) + k - 1]
    BY <2>2, SubSeqProperties
  <2> HIDE DEF b
  <2>4. Len(b) = Len(q) - i
    BY <1>1, <2>3
  <2>5. \A k \in 1..(Len(q) - i) : k \in 1..(Len(q) - (i + 1) + 1) /\ (i + 1) + k - 1 = i + k
    BY <1>1
  <2> QED BY <2>3, <2>4, <2>5
<1> HIDE DEF a, b
<1>4. a \o b \in Seq(S) /\ Len(a \o b) = Len(q) - 1
  BY <1>1, <1>2, <1>3
<1>5. ASSUME NEW k \in 1..(Len(q) - 1)
      PROVE  (a \o b)[k] = IF k < i THEN q[k] ELSE q[k + 1]
  <2>1. CASE k < i
    <3>1. k \in 1..Len(a) /\ k \in 1..(i - 1)
      BY <1>1, <1>2, <2>1
    <3>2. (a \o b)[k] = a[k]
      BY <1>2, <1>3, <3>1
    <3> QED BY <1>2, <2>1, <3>1, <3>2
  <2>2. CASE ~(k < i)
    <3>1. k > Len(a) /\ k <= Len(a) + Len(b) /\ k - Len(a) \in 1..(Len(q) - i) /\ i + (k - Len(a)) = k + 1
      BY <1>1, <1>2, <1>3, <2>2
    <3>2. (a \o b)[k] = b[k - Len(a)]
      BY <1>2, <1>3, <3>1
    <3> QED BY <1>3, <2>2, <3>1, <3>2
  <2> QED BY <2>1, <2>2
<1> QED BY <1>4, <1>5 DEF RemoveAt, a, b

-----------------------------------------------------------------------------
(* Paths and folders.                                                      *)

LEMMA PathsAreSequences ==
  ASSUME NEW p \in Paths \cup Folders
  PROVE  p \in Seq(Components)
  BY PathsAssumption

\* No path is beneath two folders that are apart.
LEMMA ApartBeneath ==
  ASSUME NEW from \in Folders, NEW to \in Folders, Disjoint(from, to)
  PROVE  Beneath(from) \cap Beneath(to) = {}
<1> SUFFICES ASSUME NEW p \in Paths, IsPrefix(from, p), IsPrefix(to, p) PROVE FALSE
  BY DEF Beneath
<1>1. p \in Seq(Components) /\ from \in Seq(Components) /\ to \in Seq(Components)
  BY PathsAreSequences
<1>2. /\ Len(from) \in Nat /\ Len(to) \in Nat
      /\ Len(from) <= Len(p) /\ \A i \in 1..Len(from) : from[i] = p[i]
      /\ Len(to) <= Len(p) /\ \A i \in 1..Len(to) : to[i] = p[i]
  BY <1>1, PrefixByPlace
<1>3. CASE Len(from) <= Len(to)
  <2>1. \A i \in 1..Len(from) : from[i] = to[i]
    BY <1>2, <1>3
  <2>2. IsPrefix(from, to)
    BY <1>1, <1>3, <2>1, PrefixByPlace
  <2> QED BY <2>2 DEF Disjoint
<1>4. CASE Len(to) <= Len(from)
  <2>1. \A i \in 1..Len(to) : to[i] = from[i]
    BY <1>2, <1>4
  <2>2. IsPrefix(to, from)
    BY <1>1, <1>4, <2>1, PrefixByPlace
  <2> QED BY <2>2 DEF Disjoint
<1> QED BY <1>2, <1>3, <1>4

\* A file that is relocated comes from one place.
LEMMA RebasedBack ==
  ASSUME NEW from \in Folders, NEW to \in Folders, FitsInto(from, to), NEW q \in Beneath(from)
  PROVE  /\ Rebased(q, from, to) \in Beneath(to)
         /\ Rebased(Rebased(q, from, to), to, from) = q
<1> DEFINE C == Components
           rest == SubSeq(q, Len(from) + 1, Len(q))
           p == to \o rest
<1>1. q \in Seq(C) /\ from \in Seq(C) /\ to \in Seq(C) /\ IsPrefix(from, q)
  BY PathsAreSequences DEF Beneath
<1>2. p = Rebased(q, from, to) /\ p \in Paths
  BY DEF Rebased, FitsInto
<1> HIDE DEF C
<1>3. /\ Len(from) \in Nat /\ Len(to) \in Nat /\ Len(q) \in Nat /\ Len(from) <= Len(q)
      /\ \A i \in 1..Len(from) : from[i] = q[i]
  BY <1>1, PrefixByPlace
<1>4. rest \in Seq(C) /\ Len(rest) = Len(q) - Len(from) /\ \A i \in 1..Len(rest) : rest[i] = q[Len(from) + i]
  BY <1>1, <1>3
<1> HIDE DEF rest
<1>5. /\ p \in Seq(C) /\ Len(p) = Len(to) + Len(rest)
      /\ \A i \in 1..Len(p) : p[i] = IF i <= Len(to) THEN to[i] ELSE rest[i - Len(to)]
  BY <1>1, <1>4, JoinedByPlace
<1> HIDE DEF p
<1>6. IsPrefix(to, p)
  <2>1. Len(to) <= Len(p) /\ \A i \in 1..Len(to) : to[i] = p[i]
    <3>1. Len(rest) \in Nat /\ Len(p) \in Nat
      BY <1>4, <1>5
    <3>2. Len(to) <= Len(p)
      BY <1>3, <1>5, <3>1
    <3>3. ASSUME NEW i \in 1..Len(to) PROVE to[i] = p[i]
      <4>1. i \in 1..Len(p) /\ i <= Len(to)
        BY <1>3, <3>1, <3>2
      <4> QED BY <1>5, <4>1
    <3> QED BY <3>2, <3>3
  <2> QED BY <1>1, <1>5, <2>1, PrefixByPlace
<1>7. from \o SubSeq(p, Len(to) + 1, Len(p)) = q
  <2> DEFINE tail == SubSeq(p, Len(to) + 1, Len(p))
             back == from \o tail
  <2>1. /\ tail \in Seq(C) /\ Len(tail) = Len(rest)
        /\ \A i \in 1..Len(tail) : tail[i] = p[Len(to) + i]
    BY <1>3, <1>4, <1>5
  <2>2. \A i \in 1..Len(tail) : tail[i] = rest[i]
    <3> SUFFICES ASSUME NEW i \in 1..Len(tail) PROVE tail[i] = rest[i]
      OBVIOUS
    <3>1. Len(to) + i \in 1..Len(p) /\ ~(Len(to) + i <= Len(to)) /\ (Len(to) + i) - Len(to) = i
      BY <1>3, <1>4, <1>5, <2>1
    <3>2. p[Len(to) + i] = rest[i]
      BY <1>5, <3>1
    <3> QED BY <2>1, <3>2
  <2> HIDE DEF tail
  <2>3. /\ back \in Seq(C) /\ Len(back) = Len(q)
        /\ \A i \in 1..Len(back) : back[i] = IF i <= Len(from) THEN from[i] ELSE tail[i - Len(from)]
    <3>1. tail \in Seq(C) /\ Len(from) + Len(tail) = Len(q)
      BY <1>3, <1>4, <2>1
    <3>2. /\ back \in Seq(C) /\ Len(back) = Len(from) + Len(tail)
          /\ \A i \in 1..Len(back) : back[i] = IF i <= Len(from) THEN from[i] ELSE tail[i - Len(from)]
      BY <1>1, <3>1, JoinedByPlace
    <3> QED BY <3>1, <3>2
  <2> HIDE DEF back
  <2>4. ASSUME NEW i \in 1..Len(q) PROVE back[i] = q[i]
    <3>1. CASE i <= Len(from)
      BY <1>3, <2>3, <3>1
    <3>2. CASE ~(i <= Len(from))
      <4>1. i - Len(from) \in 1..Len(rest) /\ Len(from) + (i - Len(from)) = i
        BY <1>3, <1>4, <3>2
      <4>2. back[i] = tail[i - Len(from)]
        BY <2>3, <3>2
      <4> QED BY <1>4, <2>1, <2>2, <4>1, <4>2
    <3> QED BY <3>1, <3>2
  <2>5. back = q
    BY <1>1, <2>3, <2>4, SeqEqual
  <2> QED BY <2>5 DEF back, tail
<1>8. p \in Beneath(to)
  BY <1>2, <1>6 DEF Beneath
<1> QED BY <1>2, <1>7, <1>8 DEF Rebased

\* What is relocated is beneath the destination, and is to be found at the source.
LEMMA RelocatedFrom ==
  ASSUME NEW from \in Folders, NEW to \in Folders, FitsInto(from, to), NEW tree,
         NEW p \in Relocated(tree, from, to)
  PROVE  /\ p \in Beneath(to) /\ Rebased(p, to, from) \in Beneath(from)
         /\ Rebased(p, to, from) \in Paths /\ tree[Rebased(p, to, from)] # NoFile
<1>1. PICK q \in Beneath(from) \cap Present(tree) : p = Rebased(q, from, to)
  BY DEF Relocated
<1>2. Rebased(p, to, from) = q /\ p \in Beneath(to)
  BY <1>1, RebasedBack
<1> QED BY <1>1, <1>2 DEF Present, Beneath

-----------------------------------------------------------------------------
(* What is committed.                                                      *)

\* A path holds in `after` what a request puts there, or else what it had.
Effect(tree, requests, after) ==
  \A p \in Paths :
    \/ \E r \in ToSet(requests) : r[1] = p /\ after[p] = r[2]
    \/ after[p] = tree[p] /\ \A r \in ToSet(requests) : r[1] # p

LEMMA Commits ==
  ASSUME NEW V, NEW tree \in [Paths -> V], NEW requests \in Seq(Paths \X V)
  PROVE  /\ Committed(tree, requests) \in [Paths -> V]
         /\ Effect(tree, requests, Committed(tree, requests))
<1> DEFINE after == Committed(tree, requests)
           mine(p) == {i \in DOMAIN requests : requests[i][1] = p}
<1>1. after = [p \in Paths |-> IF mine(p) = {} THEN tree[p] ELSE requests[Max(mine(p))][2]]
  BY DEF Committed
<1>2. Len(requests) \in Nat /\ DOMAIN requests = 1..Len(requests)
  OBVIOUS
<1>3. ASSUME NEW p \in Paths
      PROVE  /\ after[p] \in V
             /\ \/ \E r \in ToSet(requests) : r[1] = p /\ after[p] = r[2]
                \/ after[p] = tree[p] /\ \A r \in ToSet(requests) : r[1] # p
  <2>1. CASE mine(p) = {}
    <3>1. after[p] = tree[p]
      BY <1>1, <2>1
    <3>2. \A r \in ToSet(requests) : r[1] # p
      BY <2>1 DEF ToSet
    <3> QED BY <3>1, <3>2
  <2>2. CASE mine(p) # {}
    <3>1. Max(mine(p)) \in mine(p)
      <4>1. mine(p) \in SUBSET (1..Len(requests))
        BY <1>2
      <4> HIDE DEF mine
      <4> QED BY <1>2, <2>2, <4>1, GreatestIs
    <3>2. after[p] = requests[Max(mine(p))][2]
      BY <1>1, <2>2
    <3>3. PICK i \in DOMAIN requests : requests[i][1] = p /\ after[p] = requests[i][2]
      BY <3>1, <3>2
    <3>4. requests[i] \in ToSet(requests) /\ requests[i] \in Paths \X V
      BY DEF ToSet
    <3> QED BY <3>3, <3>4
  <2> QED BY <2>1, <2>2
<1>4. DOMAIN after = Paths /\ after = [p \in Paths |-> after[p]]
  BY <1>1
<1> HIDE DEF after
<1> QED BY <1>3, <1>4 DEF after, Effect

\* One request.
LEMMA CommitsOne ==
  ASSUME NEW V, NEW tree \in [Paths -> V], NEW p \in Paths, NEW x \in V
  PROVE  Committed(tree, << <<p, x>> >>) = [q \in Paths |-> IF q = p THEN x ELSE tree[q]]
<1> SUFFICES ASSUME NEW requests, requests = << <<p, x>> >>
             PROVE  Committed(tree, requests) = [q \in Paths |-> IF q = p THEN x ELSE tree[q]]
  OBVIOUS
<1>1. requests \in Seq(Paths \X V) /\ ToSet(requests) = {<<p, x>>}
  BY DEF ToSet
<1>2. Committed(tree, requests) \in [Paths -> V] /\ Effect(tree, requests, Committed(tree, requests))
  BY <1>1, Commits
<1>3. \A q \in Paths : Committed(tree, requests)[q] = IF q = p THEN x ELSE tree[q]
  BY <1>1, <1>2 DEF Effect
<1> QED BY <1>2, <1>3

\* No request.
LEMMA CommitsNone ==
  ASSUME NEW V, NEW tree \in [Paths -> V]
  PROVE  Committed(tree, << >>) = tree
<1>1. Committed(tree, << >>) = [p \in Paths |-> tree[p]]
  BY DEF Committed
<1> QED BY <1>1

-----------------------------------------------------------------------------
(* What the operations of the store ask for.                               *)

\* The keys beneath a folder are the files there.
LEMMA KeysAre ==
  ASSUME NEW folder
  PROVE  /\ Len(Keys(folder)) \in Nat
         /\ \A i \in 1..Len(Keys(folder)) : Keys(folder)[i] \in Beneath(folder) \cap Present(store)
         /\ \A k \in Beneath(folder) \cap Present(store) :
              \E i \in 1..Len(Keys(folder)) : Keys(folder)[i] = k
<1> DEFINE S == Beneath(folder) \cap Present(store)
           found == {i \in DOMAIN KeyOrder : KeyOrder[i] \in S}
           nth(n) == CHOOSE i \in found : Cardinality({j \in found : j <= i}) = n
<1>1. Keys(folder) = [n \in 1..Cardinality(found) |-> KeyOrder[nth(n)]]
  BY DEF Keys
<1>2. Len(KeyOrder) \in Nat /\ found \in SUBSET (1..Len(KeyOrder))
  BY StoreAssumption
<1>3. Cardinality(found) \in Nat
  <2> HIDE DEF found
  <2>1. IsFiniteSet(found)
    <3>1. found \in SUBSET Nat /\ \A i \in found : i <= Len(KeyOrder)
      BY <1>2
    <3> QED BY <1>2, <3>1, FS_BoundedSetOfNaturals
  <2> QED BY <2>1, FS_CardinalityType
<1>4. \A n \in 1..Cardinality(found) :
        nth(n) \in found /\ Cardinality({j \in found : j <= nth(n)}) = n
  <2> SUFFICES ASSUME NEW n \in 1..Cardinality(found)
               PROVE  nth(n) \in found /\ Cardinality({j \in found : j <= nth(n)}) = n
    OBVIOUS
  <2> HIDE DEF found
  <2>1. \E i \in found : Cardinality({j \in found : j <= i}) = n
    BY <1>2, NthNumber
  <2> QED BY <2>1
<1>5. \A n \in 1..Cardinality(found) : KeyOrder[nth(n)] \in S
  <2> HIDE DEF nth
  <2> QED BY <1>4
<1>6. Len(Keys(folder)) = Cardinality(found)
  <2> HIDE DEF found, nth
  <2> QED BY <1>1, <1>3
<1>7. ASSUME NEW k \in S
      PROVE  \E i \in 1..Cardinality(found) : KeyOrder[nth(i)] = k
  <2>1. k \in Paths
    BY DEF Beneath
  <2>2. PICK m \in DOMAIN KeyOrder : KeyOrder[m] = k
    BY <2>1, StoreAssumption DEF ToSet
  <2>3. m \in found
    BY <2>2
  <2> DEFINE place == Cardinality({j \in found : j <= m})
  <2>4. /\ place \in 1..Cardinality(found)
        /\ \A l \in found : Cardinality({j \in found : j <= l}) = place => l = m
    <3> HIDE DEF found
    <3> QED BY <1>2, <2>3, PlaceInSet
  <2>5. nth(place) \in found /\ Cardinality({j \in found : j <= nth(place)}) = place
    <3> HIDE DEF found, nth, place
    <3> QED BY <1>4, <2>4
  <2> HIDE DEF found, nth, place
  <2>6. nth(place) = m
    BY <2>4, <2>5
  <2> QED BY <2>2, <2>4, <2>6
<1> HIDE DEF found, nth
<1>8. \A i \in 1..Cardinality(found) : Keys(folder)[i] = KeyOrder[nth(i)]
  BY <1>1
<1> QED BY <1>3, <1>5, <1>6, <1>7, <1>8

\* The files beneath a folder.
Files(folder) == Beneath(folder) \cap Present(store)

FileOps == {"delete_file", "move_file", "copy_file"}

\* d has the arguments of an operation.
IsOperation(d) == \E x \in Calls : d.op = x.op /\ d.from = x.from /\ d.to = x.to

\* What d asks for, in any order.
Asked(d) ==
  CASE d.op \in FileOps /\ store[d.from] = NoFile -> {}
    [] d.op = "delete_file" /\ store[d.from] # NoFile -> {<<d.from, NoFile>>}
    [] d.op = "move_file" /\ store[d.from] # NoFile ->
         {<<d.to, store[d.from]>>, <<d.from, NoFile>>}
    [] d.op = "copy_file" /\ store[d.from] # NoFile -> {<<d.to, store[d.from]>>}
    [] d.op = "delete_folder" -> {<<k, NoFile>> : k \in Files(d.from)}
    [] d.op = "copy_folder" -> {<<Rebased(k, d.from, d.to), store[k]>> : k \in Files(d.from)}
    [] d.op = "move_folder" -> {<<Rebased(k, d.from, d.to), store[k]>> : k \in Files(d.from)}
                                 \cup {<<k, NoFile>> : k \in Files(d.from)}

\* The arguments of an operation, by what it is.
LEMMA Arguments ==
  ASSUME NEW d, IsOperation(d)
  PROVE  /\ d.op \in FileOps \cup {"delete_folder", "move_folder", "copy_folder"}
         /\ d.op \in FileOps => d.from \in Paths /\ (d.op # "delete_file" => d.to \in Paths)
         /\ d.op \notin FileOps => d.from \in Folders
         /\ d.op \in {"move_folder", "copy_folder"} => d.to \in Folders /\ FitsInto(d.from, d.to)
         /\ d.op \in {"delete_file", "delete_folder"} => d.to = << >>
<1>1. PICK x \in Calls : d.op = x.op /\ d.from = x.from /\ d.to = x.to
  BY DEF IsOperation
<1>2. CASE x \in [op : {"delete_file"}, from : Paths, to : {<< >>}]
  BY <1>1, <1>2 DEF FileOps
<1>3. CASE x \in [op : FileOperations, from : Paths, to : Paths]
  BY <1>1, <1>3 DEF FileOps, FileOperations
<1>4. CASE x \in [op : {"delete_folder"}, from : Folders, to : {<< >>}]
  BY <1>1, <1>4 DEF FileOps
<1>5. CASE x \in [op : FolderOperations, from : Folders, to : Folders] /\ FitsInto(x.from, x.to)
  BY <1>1, <1>5 DEF FileOps, FolderOperations
<1> QED BY <1>2, <1>3, <1>4, <1>5 DEF Calls

\* The n entries of s are those of T.
Lists(s, n, T) == (\A i \in 1..n : s[i] \in T) /\ \A x \in T : \E i \in 1..n : s[i] = x

LEMMA SequenceOf ==
  ASSUME NEW S, NEW n \in Nat, NEW s \in [1..n -> S], NEW T, Lists(s, n, T)
  PROVE  s \in Seq(S) /\ ToSet(s) = T
<1>1. s \in Seq(S) /\ DOMAIN s = 1..n
  OBVIOUS
<1> QED BY <1>1 DEF ToSet, Lists

\* An operation asks for what is put or deleted under the keys of the files it
\* found, in whatever order, and for nothing when it found none.
LEMMA Asks ==
  ASSUME NEW V, NoFile \in V, store \in [Paths -> V], NEW d, IsOperation(d)
  PROVE  Requests(d) \in Seq(Paths \X V) /\ ToSet(Requests(d)) = Asked(d)
<1> DEFINE from == d.from
           to == d.to
           keys == Keys(from)
           files == Files(from)
           R == Paths \X V
<1>1. CASE d.op \in FileOps /\ store[from] = NoFile
  <2>1. Requests(d) = << >> /\ Asked(d) = {}
    BY <1>1 DEF Requests, Asked, FileOps
  <2> QED BY <2>1 DEF ToSet
<1>2. d.op \in FileOps => from \in Paths /\ (d.op # "delete_file" => to \in Paths)
  BY Arguments
<1>3. CASE d.op = "delete_file" /\ store[from] # NoFile
  <2>1. Requests(d) = << <<from, NoFile>> >> /\ Asked(d) = {<<from, NoFile>>}
    BY <1>3 DEF Requests, delete_file, Asked, FileOps
  <2>2. <<from, NoFile>> \in R
    BY <1>2, <1>3 DEF FileOps
  <2> HIDE DEF from, R
  <2> QED BY <2>1, <2>2 DEF ToSet, R
<1>4. CASE d.op = "move_file" /\ store[from] # NoFile
  <2>1. /\ Requests(d) = << <<to, store[from]>>, <<from, NoFile>> >>
        /\ Asked(d) = {<<to, store[from]>>, <<from, NoFile>>}
    BY <1>4 DEF Requests, move_file, Asked, FileOps
  <2>2. <<from, NoFile>> \in R /\ <<to, store[from]>> \in R
    BY <1>2, <1>4 DEF FileOps
  <2> HIDE DEF from, to, R
  <2> QED BY <2>1, <2>2 DEF ToSet, R
<1>5. CASE d.op = "copy_file" /\ store[from] # NoFile
  <2>1. Requests(d) = << <<to, store[from]>> >> /\ Asked(d) = {<<to, store[from]>>}
    BY <1>5 DEF Requests, copy_file, Asked, FileOps
  <2>2. <<to, store[from]>> \in R
    BY <1>2, <1>5 DEF FileOps
  <2> HIDE DEF from, to, R
  <2> QED BY <2>1, <2>2 DEF ToSet, R
<1>6. /\ Len(keys) \in Nat
      /\ \A i \in 1..Len(keys) : keys[i] \in files
      /\ \A k \in files : \E i \in 1..Len(keys) : keys[i] = k
  BY KeysAre DEF Files
<1>7. \A k \in files : k \in Paths /\ k \in Beneath(from) /\ store[k] \in V
  BY DEF Files, Present
<1>8. d.op \in {"move_folder", "copy_folder"} => \A k \in files : Rebased(k, from, to) \in Paths
  BY <1>7, Arguments DEF FitsInto
<1> HIDE DEF from, to, keys, files
<1>9. CASE d.op = "delete_folder"
  <2> DEFINE s == [i \in 1..Len(keys) |-> <<keys[i], NoFile>>]
  <2> DEFINE gone(k) == <<k, NoFile>>
             T == {gone(k) : k \in files}
  <2>1. Requests(d) = s /\ Asked(d) = T
    BY <1>9 DEF Requests, delete_folder, Asked, FileOps, keys, from, files
  <2>2. \A i \in 1..Len(keys) : s[i] = gone(keys[i]) /\ s[i] \in R
    BY <1>6, <1>7
  <2>3. s \in [1..Len(keys) -> R]
    BY <2>2
  <2> HIDE DEF s, R, gone
  <2>4. Lists(s, Len(keys), T)
    BY <1>6, <2>2 DEF Lists
  <2> HIDE DEF T
  <2>5. s \in Seq(R) /\ ToSet(s) = T
    BY <1>6, <2>3, <2>4, SequenceOf
  <2> QED BY <2>1, <2>5 DEF R
<1>10. CASE d.op = "copy_folder"
  <2> DEFINE s == [i \in 1..Len(keys) |-> <<Rebased(keys[i], from, to), store[keys[i]]>>]
  <2> DEFINE put(k) == <<Rebased(k, from, to), store[k]>>
             T == {put(k) : k \in files}
  <2>1. Requests(d) = s /\ Asked(d) = T
    BY <1>10 DEF Requests, copy_folder, Asked, FileOps, keys, from, to, files
  <2>2. \A i \in 1..Len(keys) : s[i] = put(keys[i]) /\ s[i] \in R
    BY <1>6, <1>7, <1>8, <1>10
  <2>3. s \in [1..Len(keys) -> R]
    BY <2>2
  <2> HIDE DEF s, R, put
  <2>4. Lists(s, Len(keys), T)
    BY <1>6, <2>2 DEF Lists
  <2> HIDE DEF T
  <2>5. s \in Seq(R) /\ ToSet(s) = T
    BY <1>6, <2>3, <2>4, SequenceOf
  <2> QED BY <2>1, <2>5 DEF R
<1>11. CASE d.op = "move_folder"
  <2> DEFINE n == 2 * Len(keys)
             put(k) == <<Rebased(k, from, to), store[k]>>
             gone(k) == <<k, NoFile>>
             s == [i \in 1..n |-> LET key == keys[(i + 1) \div 2]
                                  IN IF i % 2 = 1 THEN <<Rebased(key, from, to), store[key]>>
                                     ELSE <<key, NoFile>>]
  <2> DEFINE T == {put(k) : k \in files} \cup {gone(k) : k \in files}
  <2>1. Requests(d) = s /\ Asked(d) = T
    BY <1>11 DEF Requests, move_folder, Asked, FileOps, keys, from, to, files
  <2>2. n \in Nat /\ \A i \in 1..n : (i + 1) \div 2 \in 1..Len(keys)
    BY <1>6
  <2>3. \A i \in 1..n : s[i] = IF i % 2 = 1 THEN put(keys[(i + 1) \div 2]) ELSE gone(keys[(i + 1) \div 2])
    OBVIOUS
  <2>4. \A k \in files : put(k) \in R /\ gone(k) \in R
    BY <1>7, <1>8, <1>11
  <2>5. DOMAIN s = 1..n /\ s = [i \in 1..n |-> s[i]]
    OBVIOUS
  <2> HIDE DEF s, R, put, gone
  <2>6. \A i \in 1..n : s[i] \in T /\ s[i] \in R
    BY <1>6, <2>2, <2>3, <2>4
  <2>7. s \in [1..n -> R]
    BY <2>5, <2>6
  <2>8. ASSUME NEW k \in files
        PROVE  (\E i \in 1..n : s[i] = put(k)) /\ (\E i \in 1..n : s[i] = gone(k))
    <3>1. PICK j \in 1..Len(keys) : keys[j] = k
      BY <1>6
    <3> DEFINE o == 2 * j - 1
               e == 2 * j
    <3>2. /\ o \in 1..n /\ o % 2 = 1 /\ (o + 1) \div 2 = j
          /\ e \in 1..n /\ e % 2 # 1 /\ (e + 1) \div 2 = j
      BY <1>6
    <3> HIDE DEF o, e, n
    <3>3. s[o] = put(k) /\ s[e] = gone(k)
      BY <2>3, <3>1, <3>2
    <3> QED BY <3>2, <3>3
  <2>9. Lists(s, n, T)
    BY <2>6, <2>8 DEF Lists
  <2> HIDE DEF n, T
  <2>10. s \in Seq(R) /\ ToSet(s) = T
    BY <2>2, <2>7, <2>9, SequenceOf
  <2> QED BY <2>1, <2>10 DEF R
<1>12. d.op \in FileOps \cup {"delete_folder", "move_folder", "copy_folder"}
  BY Arguments
<1> QED BY <1>1, <1>3, <1>4, <1>5, <1>9, <1>10, <1>11, <1>12 DEF FileOps, from, R

-----------------------------------------------------------------------------
(* What the operations do.                                                 *)

\* The paths of the instance that an operation is concerned with.
LEMMA ConcernedIs ==
  ASSUME NEW d, IsOperation(d)
  PROVE  /\ Concerned(d) \subseteq Paths
         /\ Concerned(d) = CASE d.op = "delete_file" -> {d.from}
                             [] d.op \in {"move_file", "copy_file"} -> {d.from, d.to}
                             [] d.op = "delete_folder" -> Beneath(d.from)
                             [] d.op \in {"move_folder", "copy_folder"} ->
                                  Beneath(d.from) \cup Beneath(d.to)
<1>1. CASE d.op \in FileOps
  BY <1>1, Arguments DEF Concerned, FolderOperations, FileOperations, FileOps
<1>2. CASE d.op \in {"delete_folder", "move_folder", "copy_folder"}
  BY <1>2 DEF Concerned, FolderOperations, FileOperations, Beneath
<1> QED BY <1>1, <1>2, Arguments

\* What an operation read decides what it writes; if the paths it is concerned
\* with are still as it read them, that is what it is meant to do.
LEMMA FileEffect ==
  ASSUME NEW V, NoFile \in V, store \in [Paths -> V], NEW tree \in [Paths -> V],
         NEW d, IsOperation(d), d.op \in FileOps, Spread(d), store[d.from] # NoFile,
         \A p \in Concerned(d) : tree[p] = store[p],
         NEW after \in [Paths -> V], NEW requests, ToSet(requests) = Asked(d),
         Effect(tree, requests, after)
  PROVE  after = Meant(d, tree)
<1> DEFINE from == d.from
           to == d.to
<1>1. from \in Paths /\ tree[from] = store[from]
  BY Arguments DEF FolderOperations, FileOperations, FileOps, Concerned
<1>2. d.op # "delete_file" => to \in Paths /\ from # to
  BY Arguments DEF FileOperations, FileOps, Spread
<1>3. \A p \in Paths : \/ \E r \in Asked(d) : r[1] = p /\ after[p] = r[2]
                       \/ after[p] = tree[p] /\ \A r \in Asked(d) : r[1] # p
  BY DEF Effect
<1> HIDE DEF from, to
<1>4. CASE d.op = "delete_file"
  <2>1. Asked(d) = {<<from, NoFile>>} /\ Meant(d, tree) = Without(tree, {from})
    BY <1>4 DEF Asked, Meant, FileOps, from
  <2>2. \A p \in Paths : after[p] = IF p = from THEN NoFile ELSE tree[p]
    BY <1>3, <2>1
  <2> QED BY <2>1, <2>2 DEF Without
<1>5. CASE d.op = "move_file"
  <2>1. /\ Asked(d) = {<<to, store[from]>>, <<from, NoFile>>}
        /\ Meant(d, tree) = FileMoved(tree, from, to)
    BY <1>5 DEF Asked, Meant, FileOps, from, to
  <2>2. \A p \in Paths : after[p] = IF p = to THEN tree[from] ELSE IF p = from THEN NoFile ELSE tree[p]
    BY <1>1, <1>2, <1>3, <1>5, <2>1
  <2>3. FileMoved(tree, from, to) =
          [p \in Paths |-> IF p = to THEN tree[from] ELSE IF p = from THEN NoFile ELSE tree[p]]
    BY <1>1, <1>2, <1>5 DEF FileMoved
  <2> QED BY <2>1, <2>2, <2>3
<1>6. CASE d.op = "copy_file"
  <2>1. Asked(d) = {<<to, store[from]>>} /\ Meant(d, tree) = FileCopied(tree, from, to)
    BY <1>6 DEF Asked, Meant, FileOps, from, to
  <2>2. \A p \in Paths : after[p] = IF p = to THEN tree[from] ELSE tree[p]
    BY <1>1, <1>3, <2>1
  <2>3. FileCopied(tree, from, to) = [p \in Paths |-> IF p = to THEN tree[from] ELSE tree[p]]
    BY DEF FileCopied
  <2> QED BY <2>1, <2>2, <2>3
<1> QED BY <1>4, <1>5, <1>6 DEF FileOps

LEMMA FolderEffect ==
  ASSUME NEW V, NoFile \in V, store \in [Paths -> V], NEW tree \in [Paths -> V],
         NEW d, IsOperation(d), d.op \notin FileOps, Spread(d),
         \A p \in Concerned(d) : tree[p] = store[p],
         NEW after \in [Paths -> V], NEW requests, ToSet(requests) = Asked(d),
         Effect(tree, requests, after)
  PROVE  after = Meant(d, tree)
<1> DEFINE from == d.from
           to == d.to
           files == Files(from)
           put(k) == <<Rebased(k, from, to), store[k]>>
           gone(k) == <<k, NoFile>>
<1>1. files = Beneath(from) \cap Present(tree) /\ \A p \in Beneath(from) : p \in Paths /\ tree[p] = store[p]
  <2>1. \A p \in Beneath(from) : p \in Paths /\ tree[p] = store[p]
    BY Arguments DEF FolderOperations, FileOperations, FileOps, Concerned, Beneath
  <2> QED BY <2>1 DEF Files, Present
<1>2. d.op \in FolderOperations => /\ from \in Folders /\ to \in Folders
                                   /\ Disjoint(from, to) /\ FitsInto(from, to)
  BY Arguments DEF FolderOperations, FileOps, Spread
<1>3. \A p \in Paths : \/ \E r \in Asked(d) : r[1] = p /\ after[p] = r[2]
                       \/ after[p] = tree[p] /\ \A r \in Asked(d) : r[1] # p
  BY DEF Effect
<1>4. d.op \in {"delete_folder", "move_folder", "copy_folder"}
  BY Arguments
<1>5. /\ d.op = "delete_folder" => Asked(d) = {gone(k) : k \in files} /\ Meant(d, tree) = Without(tree, Beneath(from))
      /\ d.op = "copy_folder" => Asked(d) = {put(k) : k \in files} /\ Meant(d, tree) = FolderCopied(tree, from, to)
      /\ d.op = "move_folder" => /\ Asked(d) = {put(k) : k \in files} \cup {gone(k) : k \in files}
                                 /\ Meant(d, tree) = FolderMoved(tree, from, to)
  BY DEF Asked, Meant, FileOps
<1>6. \A k \in files : k \in Paths /\ k \in Beneath(from)
  BY <1>1
<1>7. \A k : put(k)[1] = Rebased(k, from, to) /\ put(k)[2] = store[k] /\ gone(k)[1] = k /\ gone(k)[2] = NoFile
  OBVIOUS
<1> HIDE DEF from, to, files, put, gone
<1>8. CASE d.op = "delete_folder"
  <2>1. \A p \in Paths : after[p] = IF p \in Beneath(from) THEN NoFile ELSE tree[p]
    <3> SUFFICES ASSUME NEW p \in Paths PROVE after[p] = IF p \in Beneath(from) THEN NoFile ELSE tree[p]
      OBVIOUS
    <3>1. CASE p \in files
      <4>1. gone(p) \in Asked(d) /\ \A r \in Asked(d) : r[2] = NoFile
        BY <1>5, <1>7, <1>8, <3>1
      <4> QED BY <1>3, <1>6, <1>7, <3>1, <4>1
    <3>2. CASE p \notin files
      <4>1. \A r \in Asked(d) : r[1] # p
        BY <1>5, <1>7, <1>8, <3>2
      <4>2. after[p] = tree[p]
        BY <1>3, <4>1
      <4> QED BY <1>1, <3>2, <4>2 DEF Present
    <3> QED BY <3>1, <3>2
  <2> QED BY <1>5, <1>8, <2>1 DEF Without
<1>9. ASSUME d.op \in FolderOperations, NEW p \in Paths
      PROVE  /\ p \in Relocated(tree, from, to) =>
                  /\ p \in Beneath(to) /\ p \notin files
                  /\ \E k \in files : put(k)[1] = p
                  /\ \A k \in files : put(k)[1] = p => put(k)[2] = tree[Rebased(p, to, from)]
             /\ p \notin Relocated(tree, from, to) => \A k \in files : put(k)[1] # p
  <2>0. from \in Folders /\ to \in Folders /\ FitsInto(from, to) /\ Beneath(from) \cap Beneath(to) = {}
    BY <1>2, <1>9, ApartBeneath
  <2>1. Relocated(tree, from, to) = {Rebased(k, from, to) : k \in files}
    BY <1>1 DEF Relocated
  <2>2. \A k \in files : Rebased(k, from, to) \in Beneath(to) /\ Rebased(Rebased(k, from, to), to, from) = k
    BY <1>6, <2>0, RebasedBack
  <2>3. \A k \in files : store[k] = tree[k]
    BY <1>1, <1>6
  <2>4. ASSUME p \in Relocated(tree, from, to)
        PROVE  /\ p \in Beneath(to) /\ p \notin files
               /\ \E k \in files : put(k)[1] = p
               /\ \A k \in files : put(k)[1] = p => put(k)[2] = tree[Rebased(p, to, from)]
    <3>1. PICK k \in files : p = Rebased(k, from, to)
      BY <2>1, <2>4
    <3>2. Rebased(p, to, from) = k /\ p \in Beneath(to)
      BY <2>2, <3>1
    <3>3. \A l \in files : put(l)[1] = p => l = k /\ put(l)[2] = tree[k]
      BY <1>7, <2>2, <2>3, <3>1
    <3> QED BY <1>6, <1>7, <2>0, <3>1, <3>2, <3>3
  <2>5. p \notin Relocated(tree, from, to) => \A k \in files : put(k)[1] # p
    BY <1>7, <2>1
  <2> QED BY <2>4, <2>5
<1>10. CASE d.op = "copy_folder"
  <2>1. \A p \in Paths : after[p] = IF p \in Relocated(tree, from, to) THEN tree[Rebased(p, to, from)] ELSE tree[p]
    <3> SUFFICES ASSUME NEW p \in Paths
                 PROVE  after[p] = IF p \in Relocated(tree, from, to)
                                   THEN tree[Rebased(p, to, from)] ELSE tree[p]
      OBVIOUS
    <3>1. d.op \in FolderOperations
      BY <1>10 DEF FolderOperations
    <3>2. CASE p \in Relocated(tree, from, to)
      BY <1>3, <1>5, <1>9, <1>10, <3>1, <3>2
    <3>3. CASE p \notin Relocated(tree, from, to)
      BY <1>3, <1>5, <1>9, <1>10, <3>1, <3>3
    <3> QED BY <3>2, <3>3
  <2> QED BY <1>5, <1>10, <2>1 DEF FolderCopied
<1>11. CASE d.op = "move_folder"
  <2>1. \A p \in Paths : after[p] = IF p \in Relocated(tree, from, to) THEN tree[Rebased(p, to, from)]
                                    ELSE IF p \in Beneath(from) THEN NoFile ELSE tree[p]
    <3> SUFFICES ASSUME NEW p \in Paths
                 PROVE  after[p] = IF p \in Relocated(tree, from, to) THEN tree[Rebased(p, to, from)]
                                   ELSE IF p \in Beneath(from) THEN NoFile ELSE tree[p]
      OBVIOUS
    <3>1. d.op \in FolderOperations /\ Asked(d) = {put(k) : k \in files} \cup {gone(k) : k \in files}
      BY <1>5, <1>11 DEF FolderOperations
    <3>2. CASE p \in Relocated(tree, from, to)
      <4>1. \A k \in files : gone(k)[1] # p
        BY <1>7, <1>9, <3>1, <3>2
      <4> QED BY <1>3, <1>9, <3>1, <3>2, <4>1
    <3>3. CASE p \notin Relocated(tree, from, to) /\ p \in files
      <4>1. gone(p) \in Asked(d) /\ gone(p)[1] = p
        BY <1>7, <3>1, <3>3
      <4>2. \A r \in Asked(d) : r[1] = p => r[2] = NoFile
        BY <1>7, <1>9, <3>1, <3>3
      <4> QED BY <1>3, <1>6, <3>3, <4>1, <4>2
    <3>4. CASE p \notin Relocated(tree, from, to) /\ p \notin files
      <4>1. \A r \in Asked(d) : r[1] # p
        BY <1>7, <1>9, <3>1, <3>4
      <4>2. after[p] = tree[p] /\ (p \in Beneath(from) => tree[p] = NoFile)
        BY <1>1, <1>3, <3>4, <4>1 DEF Present
      <4> QED BY <3>4, <4>2
    <3> QED BY <3>2, <3>3, <3>4
  <2> QED BY <1>5, <1>11, <2>1 DEF FolderMoved
<1> QED BY <1>4, <1>8, <1>10, <1>11

\* What was asked for is right for every tree that agrees with what was read.
Carries(d, V, requests, before) ==
  \A tree \in [Paths -> V] :
    (\A p \in Concerned(d) : tree[p] = before[p]) => Committed(tree, requests) = Meant(d, tree)

LEMMA RequestsCarry ==
  ASSUME NEW V, NoFile \in V, store \in [Paths -> V], NEW d, IsOperation(d), Spread(d),
         Requests(d) # << >>
  PROVE  Carries(d, V, Requests(d), store)
<1> DEFINE requests == Requests(d)
<1>1. SUFFICES ASSUME NEW tree \in [Paths -> V], \A p \in Concerned(d) : tree[p] = store[p]
               PROVE  Committed(tree, requests) = Meant(d, tree)
  BY DEF Carries
<1>2. requests \in Seq(Paths \X V) /\ ToSet(requests) = Asked(d)
  BY Asks
<1>3. d.op \in FileOps => store[d.from] # NoFile
  BY DEF Requests, FileOps
<1> HIDE DEF requests
<1> DEFINE after == Committed(tree, requests)
<1>4. after \in [Paths -> V] /\ Effect(tree, requests, after)
  BY <1>2, Commits
<1> HIDE DEF after
<1>5. CASE d.op \in FileOps
  BY <1>1, <1>2, <1>3, <1>4, <1>5, FileEffect DEF after
<1>6. CASE d.op \notin FileOps
  BY <1>1, <1>2, <1>4, <1>6, FolderEffect DEF after
<1> QED BY <1>5, <1>6

\* Nothing is asked for when there is nothing to act on.
LEMMA NothingAsked ==
  ASSUME NEW V, NoFile \in V, store \in [Paths -> V], NEW d, IsOperation(d)
  PROVE  Requests(d) = << >> <=> IF d.op \in FileOps THEN store[d.from] = NoFile ELSE Files(d.from) = {}
<1>1. Requests(d) \in Seq(Paths \X V) /\ ToSet(Requests(d)) = Asked(d)
  BY Asks
<1>2. Requests(d) = << >> <=> Asked(d) = {}
  <2> DEFINE s == Requests(d)
  <2>1. s \in Seq(Paths \X V) /\ ToSet(s) = Asked(d)
    BY <1>1
  <2> HIDE DEF s
  <2>2. s = << >> <=> ToSet(s) = {}
    <3>1. s # << >> => s[1] \in ToSet(s)
      BY <2>1 DEF ToSet
    <3>2. s = << >> => ToSet(s) = {}
      BY DEF ToSet
    <3> QED BY <3>1, <3>2
  <2> QED BY <2>1, <2>2 DEF s
<1>3. d.op \in FileOps \cup {"delete_folder", "move_folder", "copy_folder"}
  BY Arguments
<1>4. CASE d.op \in FileOps
  BY <1>2, <1>4 DEF Asked, FileOps
<1>5. CASE d.op = "delete_folder"
  BY <1>2, <1>5 DEF Asked, FileOps
<1>6. CASE d.op = "copy_folder"
  BY <1>2, <1>6 DEF Asked, FileOps
<1>7. CASE d.op = "move_folder"
  BY <1>2, <1>7 DEF Asked, FileOps
<1> QED BY <1>3, <1>4, <1>5, <1>6, <1>7
==========================================================================
