------------------------- MODULE FolderStoreProofs -------------------------
(***************************************************************************)
(* Proofs about FolderStore, for any paths, folders, contents and callers: *)
(* the key by key loops of the flat stores do at once what the folder      *)
(* operations are meant to do, and so do the walks of the disk store to    *)
(* every file that no other call touches meanwhile.                        *)
(***************************************************************************)
EXTENDS FolderStore, FiniteSetTheorems, SequenceTheorems, WellFoundedInduction, TLAPS

Trees == [Paths -> Contents \cup Paths \cup {NoFile, Torn}]

-----------------------------------------------------------------------------
(* The folders on disk.                                                    *)

Rooted == \A f \in dirs : \A n \in 0..Len(f) : SubSeq(f, 1, n) \in dirs

Housed == \A p \in Present(files) : Front(p) \in dirs

DirsAgree == dirs \subseteq Seq(FolderNames) /\ Rooted /\ Housed

-----------------------------------------------------------------------------
(* The walks.                                                              *)

From(c) == walk[c].from
To(c) == walk[c].to
Within(c) == walk[c].within
Found(c) == since[c].found
Kept(c) == Paths \ since[c].touched

\* A listed entry.
Entry(folder, e) == IsPrefix(folder, e) /\ e \in Paths \cup Seq(FolderNames)

WalkTyped(c) ==
  /\ walk[c] \in Disk!Walks /\ Within(c) # << >>
  /\ since[c] \in [found : Trees, touched : SUBSET Paths]
  /\ \A i \in DOMAIN Within(c) : /\ Within(c)[i].dir \in Seq(FolderNames)
                                 /\ \A e \in Within(c)[i].left : Entry(From(c), e)
  /\ walk[c].op = "delete" => Within(c)[Len(Within(c))].dir = From(c)
  /\ walk[c].op = "copy" => From(c) = To(c) \/ Disjoint(From(c), To(c))

\* The walk has still to come to q.
Pending(c, q) == \E i \in DOMAIN Within(c) : \E e \in Within(c)[i].left : IsPrefix(e, q)

\* What was found has been copied or will be, and nothing else has changed.
CopyAgrees(c) ==
  walk[c].op = "copy" /\ From(c) # To(c) =>
    /\ Relocated(Found(c), From(c), To(c)) \subseteq Paths
    /\ \A q \in Beneath(From(c)) \cap Present(Found(c)) \cap Kept(c) :
         Rebased(q, From(c), To(c)) \in Kept(c) =>
           files[Rebased(q, From(c), To(c))] = Found(c)[q] \/ Pending(c, q)
    /\ \A p \in Kept(c) :
         (\A q \in Beneath(From(c)) :
            Rebased(q, From(c), To(c)) = p => q \in Kept(c) /\ Found(c)[q] = NoFile)
         => files[p] = Found(c)[p]

RemoveAgrees(c) ==
  walk[c].op = "delete" =>
    \A p \in Kept(c) : files[p] = Found(c)[p] \/ (p \in Beneath(From(c)) /\ files[p] = NoFile)

WalkAgrees(c) == WalkTyped(c) /\ CopyAgrees(c) /\ RemoveAgrees(c)

DiskAgrees ==
  /\ DOMAIN walk = Callers /\ DirsAgree
  /\ \A c \in Disk!Walking : WalkAgrees(c)

IInv == files \in Trees /\ (engine = "disk" => DiskAgrees)

-----------------------------------------------------------------------------
(* Sequences.                                                              *)

\* One sequence begins another if it is no longer and agrees with it place by
\* place.
LEMMA PrefixByPlace ==
  ASSUME NEW S, NEW s \in Seq(S), NEW t \in Seq(S)
  PROVE  IsPrefix(s, t) <=> Len(s) <= Len(t) /\ \A i \in 1..Len(s) : s[i] = t[i]
<1>1. Len(s) \in Nat /\ Len(t) \in Nat
  OBVIOUS
<1>2. ASSUME Len(s) <= Len(t)
      PROVE  SubSeq(s, 1, Len(s)) = SubSeq(t, 1, Len(s)) <=> \A i \in 1..Len(s) : s[i] = t[i]
  BY <1>1, <1>2
<1> QED BY <1>1, <1>2 DEF IsPrefix

\* A sequence up to its n-th place.
LEMMA StartIs ==
  ASSUME NEW S, NEW s \in Seq(S), NEW n \in 0..Len(s)
  PROVE  /\ SubSeq(s, 1, n) \in Seq(S) /\ Len(SubSeq(s, 1, n)) = n
         /\ \A i \in 1..n : SubSeq(s, 1, n)[i] = s[i]
         /\ IsPrefix(SubSeq(s, 1, n), s)
<1> DEFINE t == SubSeq(s, 1, n)
<1>1. Len(s) \in Nat /\ n \in Nat /\ n <= Len(s)
  OBVIOUS
<1>2. t \in Seq(S) /\ Len(t) = n /\ \A i \in 1..n : t[i] = s[i]
  BY <1>1
<1> HIDE DEF t
<1>3. IsPrefix(t, s)
  <2>1. Len(t) <= Len(s) /\ \A i \in 1..Len(t) : t[i] = s[i]
    BY <1>1, <1>2
  <2> QED BY <1>2, <2>1, PrefixByPlace
<1> QED BY <1>2, <1>3 DEF t

LEMMA PrefixIsStart ==
  ASSUME NEW S, NEW s \in Seq(S), NEW t \in Seq(S), IsPrefix(s, t)
  PROVE  Len(s) \in 0..Len(t) /\ s = SubSeq(t, 1, Len(s))
<1>1. Len(s) \in Nat /\ Len(t) \in Nat /\ Len(s) <= Len(t)
  BY PrefixByPlace
<1>2. SubSeq(s, 1, Len(s)) = s
  OBVIOUS
<1> QED BY <1>1, <1>2 DEF IsPrefix

\* Of two sequences that begin a third one begins the other.
LEMMA PrefixesCompare ==
  ASSUME NEW S, NEW s \in Seq(S), NEW t \in Seq(S), NEW u \in Seq(S),
         IsPrefix(s, u), IsPrefix(t, u), Len(s) <= Len(t)
  PROVE  IsPrefix(s, t)
<1>1. /\ Len(s) \in Nat /\ Len(t) \in Nat
      /\ \A i \in 1..Len(s) : s[i] = u[i]
      /\ \A i \in 1..Len(t) : t[i] = u[i]
  BY PrefixByPlace
<1>2. \A i \in 1..Len(s) : s[i] = t[i]
  BY <1>1
<1> QED BY <1>2, PrefixByPlace

LEMMA PrefixTransitive ==
  ASSUME NEW S, NEW s \in Seq(S), NEW t \in Seq(S), NEW u \in Seq(S), IsPrefix(s, t), IsPrefix(t, u)
  PROVE  IsPrefix(s, u)
<1>1. /\ Len(s) \in Nat /\ Len(t) \in Nat /\ Len(u) \in Nat /\ Len(s) <= Len(t) /\ Len(t) <= Len(u)
      /\ \A i \in 1..Len(s) : s[i] = t[i]
      /\ \A i \in 1..Len(t) : t[i] = u[i]
  BY PrefixByPlace
<1>2. Len(s) <= Len(u) /\ \A i \in 1..Len(s) : s[i] = u[i]
  BY <1>1
<1> QED BY <1>2, PrefixByPlace

\* What is relocated, place by place, and where it came from.
LEMMA RebasedIs ==
  ASSUME NEW S, NEW from \in Seq(S), NEW to \in Seq(S), NEW q \in Seq(S), IsPrefix(from, q)
  PROVE  LET p == Rebased(q, from, to)
         IN /\ p \in Seq(S) /\ Len(p) = Len(to) + Len(q) - Len(from)
            /\ \A i \in 1..Len(p) : p[i] = IF i <= Len(to) THEN to[i] ELSE q[i - Len(to) + Len(from)]
            /\ IsPrefix(to, p)
<1> DEFINE rest == SubSeq(q, Len(from) + 1, Len(q))
           p == to \o rest
<1>1. /\ Len(from) \in Nat /\ Len(to) \in Nat /\ Len(q) \in Nat /\ Len(from) <= Len(q)
      /\ \A i \in 1..Len(from) : from[i] = q[i]
  BY PrefixByPlace
<1>2. rest \in Seq(S) /\ Len(rest) = Len(q) - Len(from) /\ \A i \in 1..Len(rest) : rest[i] = q[Len(from) + i]
  BY <1>1
<1> HIDE DEF rest
<1>3. p \in Seq(S) /\ Len(p) = Len(to) + Len(q) - Len(from)
  <2>1. rest \in Seq(S)
    BY <1>2
  <2>2. p \in Seq(S) /\ Len(p) = Len(to) + Len(rest)
    BY <2>1
  <2> HIDE DEF p
  <2> QED BY <1>1, <1>2, <2>2
<1>4. ASSUME NEW i \in 1..Len(p)
      PROVE  p[i] = IF i <= Len(to) THEN to[i] ELSE q[i - Len(to) + Len(from)]
  <2>1. p[i] = IF i <= Len(to) THEN to[i] ELSE rest[i - Len(to)]
    BY <1>1, <1>2, <1>3
  <2>2. CASE ~(i <= Len(to))
    <3>1. i - Len(to) \in 1..Len(rest) /\ Len(from) + (i - Len(to)) = i - Len(to) + Len(from)
      BY <1>1, <1>2, <1>3, <2>2
    <3> QED BY <1>2, <2>1, <2>2, <3>1
  <2> QED BY <2>1, <2>2
<1> HIDE DEF p
<1>5. IsPrefix(to, p)
  <2>1. Len(to) <= Len(p) /\ \A i \in 1..Len(to) : i \in 1..Len(p) /\ i <= Len(to)
    BY <1>1, <1>3
  <2>2. \A i \in 1..Len(to) : to[i] = p[i]
    BY <1>4, <2>1
  <2> QED BY <1>3, <2>1, <2>2, PrefixByPlace
<1>6. Rebased(q, from, to) = p
  BY DEF Rebased, p, rest
<1> QED BY <1>3, <1>4, <1>5, <1>6

LEMMA RebasedBack ==
  ASSUME NEW S, NEW from \in Seq(S), NEW to \in Seq(S), NEW q \in Seq(S), IsPrefix(from, q)
  PROVE  Rebased(Rebased(q, from, to), to, from) = q
<1> DEFINE p == Rebased(q, from, to)
           r == Rebased(p, to, from)
<1>1. /\ Len(from) \in Nat /\ Len(to) \in Nat /\ Len(q) \in Nat /\ Len(from) <= Len(q)
      /\ \A i \in 1..Len(from) : from[i] = q[i]
  BY PrefixByPlace
<1>2. /\ p \in Seq(S) /\ Len(p) = Len(to) + Len(q) - Len(from) /\ IsPrefix(to, p)
      /\ \A i \in 1..Len(p) : p[i] = IF i <= Len(to) THEN to[i] ELSE q[i - Len(to) + Len(from)]
  BY RebasedIs
<1> HIDE DEF p
<1>3. /\ r \in Seq(S) /\ Len(r) = Len(from) + Len(p) - Len(to)
      /\ \A i \in 1..Len(r) : r[i] = IF i <= Len(from) THEN from[i] ELSE p[i - Len(from) + Len(to)]
  <2>1. p \in Seq(S) /\ IsPrefix(to, p)
    BY <1>2
  <2> QED BY <2>1, RebasedIs
<1> HIDE DEF r
<1>4. Len(r) = Len(q)
  BY <1>1, <1>2, <1>3
<1>5. ASSUME NEW i \in 1..Len(q) PROVE r[i] = q[i]
  <2>1. CASE i <= Len(from)
    <3>1. i \in 1..Len(from)
      BY <1>1, <2>1
    <3> QED BY <1>1, <1>3, <1>4, <2>1, <3>1
  <2>2. CASE ~(i <= Len(from))
    <3> DEFINE j == i - Len(from) + Len(to)
    <3>1. /\ j \in 1..Len(p) /\ ~(j <= Len(to)) /\ j - Len(to) + Len(from) = i
      BY <1>1, <1>2, <2>2
    <3> HIDE DEF j
    <3>2. p[j] = q[i]
      BY <1>2, <3>1
    <3> QED BY <1>3, <1>4, <2>2, <3>2 DEF j
  <2> QED BY <2>1, <2>2
<1>6. r = q
  BY <1>3, <1>4, <1>5, SeqEqual
<1> QED BY <1>6 DEF r, p

-----------------------------------------------------------------------------
(* Files, folders and what lies beneath.                                   *)

LEMMA NamesAreComponents ==
  /\ Seq(FolderNames) \subseteq Seq(Components)
  /\ \A f \in Folders : f \in Seq(FolderNames)
  /\ \A p \in Paths : p \in Seq(Components)
<1>1. \A p \in Paths : p \in Seq(Components)
  BY PathsAssumption
<1>2. \A f \in Folders : f \in Seq(Components)
  BY PathsAssumption
<1>3. ASSUME NEW p \in Paths PROVE ToSet(Front(p)) \subseteq Components
  <2>1. p \in Seq(Components) /\ Len(p) \in Nat /\ p # << >>
    BY <1>1, NamesAssumption
  <2>2. Front(p) \in Seq(Components)
    <3>1. Len(p) # 0
      BY <2>1
    <3>2. Len(p) - 1 \in 0..Len(p)
      BY <2>1, <3>1
    <3> QED BY <2>1, <3>2, StartIs DEF Front
  <2> QED BY <2>2 DEF ToSet
<1>4. FolderNames \subseteq Components
  <2>1. \A f \in Folders : ToSet(f) \subseteq Components
    BY DEF Components
  <2> QED BY <1>3, <2>1 DEF FolderNames
<1>5. Seq(FolderNames) \subseteq Seq(Components)
  BY <1>4
<1>6. ASSUME NEW f \in Folders PROVE f \in Seq(FolderNames)
  <2>1. ToSet(f) \subseteq FolderNames
    BY DEF FolderNames
  <2>2. \A i \in 1..Len(f) : f[i] \in FolderNames
    <3>1. DOMAIN f = 1..Len(f)
      BY <1>2
    <3> QED BY <2>1, <3>1 DEF ToSet
  <2>3. f \in [1..Len(f) -> Components] /\ Len(f) \in Nat
    BY <1>2
  <2> QED BY <2>2, <2>3
<1> QED BY <1>1, <1>5, <1>6

LEMMA FileNames ==
  ASSUME NEW p \in Paths
  PROVE  /\ p \in Seq(Components) /\ Len(p) \in Nat \ {0}
         /\ Front(p) = SubSeq(p, 1, Len(p) - 1) /\ Front(p) \in Seq(FolderNames)
         /\ p[Len(p)] \notin FolderNames
<1>1. p \in Seq(Components) /\ p # << >> /\ p[Len(p)] \notin FolderNames
  BY NamesAreComponents, NamesAssumption DEF Last
<1>2. Len(p) \in Nat \ {0}
  BY <1>1
<1>3. Front(p) = SubSeq(p, 1, Len(p) - 1)
  BY DEF Front
<1>4. /\ Front(p) \in Seq(Components) /\ Len(Front(p)) = Len(p) - 1
  <2>1. Len(p) - 1 \in 0..Len(p)
    BY <1>2
  <2> QED BY <1>1, <1>3, <2>1, StartIs
<1>5. ToSet(Front(p)) \subseteq FolderNames
  BY DEF FolderNames
<1>6. \A i \in 1..Len(Front(p)) : Front(p)[i] \in FolderNames
  <2>1. DOMAIN Front(p) = 1..Len(Front(p))
    BY <1>4
  <2> QED BY <1>5, <2>1 DEF ToSet
<1>7. Front(p) \in Seq(FolderNames)
  <2> PICK f : f = Front(p)
    OBVIOUS
  <2>1. f \in [1..Len(f) -> Components] /\ Len(f) \in Nat /\ \A i \in 1..Len(f) : f[i] \in FolderNames
    BY <1>4, <1>6
  <2> QED BY <2>1
<1> QED BY <1>1, <1>2, <1>3, <1>7

\* A file is no folder, and nothing lies beneath it.
LEMMA FilesApart ==
  ASSUME NEW p \in Paths
  PROVE  /\ p \notin Seq(FolderNames)
         /\ \A f \in Seq(FolderNames) : ~IsPrefix(p, f)
         /\ \A q \in Paths : IsPrefix(p, q) => q = p
<1>1. p \in Seq(Components) /\ Len(p) \in Nat \ {0} /\ p[Len(p)] \notin FolderNames
  BY FileNames
<1>2. ASSUME NEW f \in Seq(FolderNames) PROVE ~IsPrefix(p, f)
  <2> SUFFICES ASSUME IsPrefix(p, f) PROVE FALSE
    OBVIOUS
  <2>1. f \in Seq(Components)
    BY NamesAreComponents
  <2>2. Len(p) <= Len(f) /\ p[Len(p)] = f[Len(p)]
    BY <1>1, <2>1, PrefixByPlace
  <2>3. f[Len(p)] \in FolderNames
    BY <1>1, <2>2
  <2> QED BY <1>1, <2>2, <2>3
<1>3. p \notin Seq(FolderNames)
  <2>1. IsPrefix(p, p)
    BY <1>1, PrefixByPlace
  <2> QED BY <1>2, <2>1
<1>4. ASSUME NEW q \in Paths, IsPrefix(p, q), q # p PROVE FALSE
  <2>1. /\ q \in Seq(Components) /\ Len(q) \in Nat \ {0}
        /\ Front(q) = SubSeq(q, 1, Len(q) - 1) /\ Front(q) \in Seq(FolderNames)
    BY FileNames
  <2>2. Len(p) <= Len(q) /\ \A i \in 1..Len(p) : p[i] = q[i]
    BY <1>1, <1>4, <2>1, PrefixByPlace
  <2>3. Len(p) # Len(q)
    BY <1>1, <1>4, <2>1, <2>2, SeqEqual
  <2>4. Len(p) \in 1..(Len(q) - 1) /\ Len(q) - 1 \in 0..Len(q)
    BY <1>1, <2>1, <2>2, <2>3
  <2>5. Len(Front(q)) = Len(q) - 1 /\ Front(q)[Len(p)] = q[Len(p)]
    BY <2>1, <2>4, StartIs
  <2>6. Front(q)[Len(p)] \in FolderNames
    BY <2>1, <2>4, <2>5
  <2> QED BY <1>1, <2>2, <2>4, <2>5, <2>6
<1> QED BY <1>2, <1>3, <1>4

\* The operators of a tree are the disk store's.
LEMMA SameOperators ==
  /\ \A tree : Disk!Present(tree) = Present(tree)
  /\ \A f : Disk!Beneath(f) = Beneath(f)
  /\ \A q, f, t : Disk!Rebased(q, f, t) = Rebased(q, f, t)
  /\ \A s, t : Disk!IsPrefix(s, t) = IsPrefix(s, t)
  /\ \A s : Disk!Front(s) = Front(s)
  /\ \A tree, f, t : Disk!Relocated(tree, f, t) = Relocated(tree, f, t)
  /\ \A f, t : Disk!Disjoint(f, t) = Disjoint(f, t)
<1>1. \A tree : Disk!Present(tree) = Present(tree)
  BY DEF Present, Disk!Present
<1>2. \A s, t : Disk!IsPrefix(s, t) = IsPrefix(s, t)
  BY DEF IsPrefix, Disk!IsPrefix
<1>3. \A f : Disk!Beneath(f) = Beneath(f)
  BY <1>2 DEF Beneath, Disk!Beneath
<1>4. \A q, f, t : Disk!Rebased(q, f, t) = Rebased(q, f, t)
  BY DEF Rebased, Disk!Rebased
<1>5. \A s : Disk!Front(s) = Front(s)
  BY DEF Front, Disk!Front
<1>6. \A tree, f, t : Disk!Relocated(tree, f, t) = Relocated(tree, f, t)
  BY <1>1, <1>3, <1>4 DEF Relocated, Disk!Relocated
<1>7. \A f, t : Disk!Disjoint(f, t) = Disjoint(f, t)
  BY <1>2 DEF Disjoint, Disk!Disjoint
<1> QED BY <1>1, <1>2, <1>3, <1>4, <1>5, <1>6, <1>7

LEMMA WalksAre ==
  Disk!Walks = [op : {"copy", "delete"}, from : Folders, to : Folders,
                within : Seq([dir : Seq(Components), left : SUBSET Seq(Components)])]
<1>1. \A s : Disk!ToSet(s) = ToSet(s)
  BY DEF ToSet, Disk!ToSet
<1>2. Disk!Components = Components
  BY <1>1 DEF Components, Disk!Components
<1> QED BY <1>2 DEF Disk!Walks

LEMMA ReadDirIs ==
  ASSUME NEW dir, NEW e
  PROVE  e \in Disk!read_dir(dir) <=> \/ e \in Present(files) /\ Front(e) = dir
                                      \/ e \in dirs /\ e # << >> /\ Front(e) = dir
  BY SameOperators DEF Disk!read_dir, Disk!child_files, Disk!child_folders

\* What is listed lies in the folder.
LEMMA Lists ==
  ASSUME DirsAgree, NEW dir \in Seq(FolderNames), NEW e \in Disk!read_dir(dir)
  PROVE  IsPrefix(dir, e) /\ e \in Paths \cup Seq(FolderNames)
<1>1. e \in Paths \cup Seq(FolderNames) /\ e # << >> /\ Front(e) = dir
  BY ReadDirIs, NamesAssumption DEF Present, DirsAgree
<1>2. e \in Seq(Components)
  BY <1>1, NamesAreComponents
<1>3. Len(e) - 1 \in 0..Len(e)
  <2>1. Len(e) \in Nat /\ Len(e) # 0
    BY <1>1, <1>2
  <2> QED BY <2>1
<1>4. IsPrefix(Front(e), e)
  BY <1>2, <1>3, StartIs DEF Front
<1> QED BY <1>1, <1>4

\* A file beneath a folder lies beneath one of its entries; and so does a folder.
LEMMA Listed ==
  ASSUME DirsAgree, NEW dir \in Seq(FolderNames), NEW q, IsPrefix(dir, q),
         q \in Present(files) \/ (q \in dirs /\ q # dir)
  PROVE  \E e \in Disk!read_dir(dir) : IsPrefix(e, q)
<1> DEFINE n == Len(dir) + 1
           e == SubSeq(q, 1, n)
<1>1. q \in Seq(Components) /\ dir \in Seq(Components)
  BY NamesAreComponents DEF Present, DirsAgree
<1>2. q # dir
  BY FilesApart DEF Present
<1>3. Len(dir) \in Nat /\ Len(q) \in Nat /\ Len(dir) <= Len(q) /\ \A i \in 1..Len(dir) : dir[i] = q[i]
  BY <1>1, PrefixByPlace
<1>4. Len(dir) # Len(q)
  BY <1>1, <1>2, <1>3, SeqEqual
<1>5. n \in 1..Len(q) /\ n \in 0..Len(q) /\ n - 1 = Len(dir)
  BY <1>3, <1>4
<1>6. e \in Seq(Components) /\ Len(e) = n /\ IsPrefix(e, q) /\ \A i \in 1..n : e[i] = q[i]
  BY <1>1, <1>5, StartIs
<1> HIDE DEF e
<1>7. Front(e) = dir /\ e # << >>
  <2>1. Len(e) - 1 \in 0..Len(e) /\ Len(e) - 1 = Len(dir)
    BY <1>3, <1>5, <1>6
  <2>2. Front(e) \in Seq(Components) /\ Len(Front(e)) = Len(dir) /\ \A i \in 1..Len(dir) : Front(e)[i] = e[i]
    BY <1>6, <2>1, StartIs DEF Front
  <2>3. \A i \in 1..Len(dir) : i \in 1..n
    BY <1>3
  <2>4. \A i \in 1..Len(dir) : Front(e)[i] = dir[i]
    BY <1>3, <1>6, <2>2, <2>3
  <2>5. Front(e) = dir
    BY <1>1, <2>2, <2>4, SeqEqual
  <2>6. e # << >>
    BY <1>5, <1>6
  <2> QED BY <2>5, <2>6
<1>8. CASE q \in Present(files) /\ n = Len(q)
  <2>1. e = q
    BY <1>1, <1>6, <1>8, SeqEqual
  <2> QED BY <1>6, <1>7, <1>8, <2>1, ReadDirIs
<1>9. CASE q \in Present(files) /\ n # Len(q)
  <2>1. q \in Paths /\ Front(q) \in dirs
    BY <1>9 DEF DirsAgree, Housed, Present
  <2>2. Len(q) - 1 \in 0..Len(q) /\ n \in 0..(Len(q) - 1)
    BY <1>3, <1>5, <1>9
  <2>3. /\ Front(q) \in Seq(Components) /\ Len(Front(q)) = Len(q) - 1
        /\ \A i \in 1..(Len(q) - 1) : Front(q)[i] = q[i]
    BY <1>1, <2>2, StartIs DEF Front
  <2>4. SubSeq(Front(q), 1, n) = e
    <3> DEFINE g == SubSeq(Front(q), 1, n)
    <3>1. g \in Seq(Components) /\ Len(g) = n /\ \A i \in 1..n : g[i] = Front(q)[i]
      BY <2>2, <2>3, StartIs
    <3>2. \A i \in 1..n : i \in 1..(Len(q) - 1)
      BY <1>3, <2>2
    <3> HIDE DEF g
    <3>3. \A i \in 1..n : g[i] = e[i]
      BY <1>6, <2>3, <3>1, <3>2
    <3>4. g = e
      BY <1>6, <3>1, <3>3, SeqEqual
    <3> QED BY <3>4 DEF g
  <2>5. n \in 0..Len(Front(q))
    BY <2>2, <2>3
  <2>6. e \in dirs
    BY <2>1, <2>4, <2>5 DEF DirsAgree, Rooted
  <2> QED BY <1>6, <1>7, <2>6, ReadDirIs
<1>10. CASE q \in dirs
  <2>1. e \in dirs
    BY <1>5, <1>10 DEF DirsAgree, Rooted, e
  <2> QED BY <1>6, <1>7, <2>1, ReadDirIs
<1> QED BY <1>8, <1>9, <1>10

\* The folders down to f.
LEMMA UptoIs ==
  ASSUME NEW f \in Seq(FolderNames)
  PROVE  /\ Disk!Upto(f) \subseteq Seq(FolderNames) /\ f \in Disk!Upto(f)
         /\ \A g \in Disk!Upto(f) : \A n \in 0..Len(g) : SubSeq(g, 1, n) \in Disk!Upto(f)
<1>1. Disk!Upto(f) = {SubSeq(f, 1, n) : n \in 0..Len(f)}
  BY DEF Disk!Upto
<1>2. \A n \in 0..Len(f) : SubSeq(f, 1, n) \in Seq(FolderNames) /\ Len(SubSeq(f, 1, n)) = n
  BY StartIs
<1>3. SubSeq(f, 1, Len(f)) = f /\ Len(f) \in 0..Len(f)
  OBVIOUS
<1>4. ASSUME NEW m \in 0..Len(f), NEW n \in 0..Len(SubSeq(f, 1, m))
      PROVE  SubSeq(SubSeq(f, 1, m), 1, n) = SubSeq(f, 1, n) /\ n \in 0..Len(f)
  <2> DEFINE g == SubSeq(f, 1, m)
  <2>1. g \in Seq(FolderNames) /\ Len(g) = m /\ \A i \in 1..m : g[i] = f[i]
    BY StartIs
  <2> HIDE DEF g
  <2>2. n \in 0..Len(g) /\ n \in 0..Len(f) /\ \A i \in 1..n : i \in 1..m
    BY <2>1 DEF g
  <2>3. /\ SubSeq(g, 1, n) \in Seq(FolderNames) /\ Len(SubSeq(g, 1, n)) = n
        /\ \A i \in 1..n : SubSeq(g, 1, n)[i] = g[i]
    BY <2>1, <2>2, StartIs
  <2>4. /\ SubSeq(f, 1, n) \in Seq(FolderNames) /\ Len(SubSeq(f, 1, n)) = n
        /\ \A i \in 1..n : SubSeq(f, 1, n)[i] = f[i]
    BY <2>2, StartIs
  <2>5. SubSeq(g, 1, n) = SubSeq(f, 1, n)
    <3> DEFINE s == SubSeq(g, 1, n)
               t == SubSeq(f, 1, n)
    <3>1. /\ s \in Seq(FolderNames) /\ t \in Seq(FolderNames) /\ Len(s) = Len(t)
          /\ \A i \in 1..Len(s) : s[i] = t[i]
      BY <2>1, <2>2, <2>3, <2>4
    <3> HIDE DEF s, t
    <3>2. s = t
      BY <3>1, SeqEqual
    <3> QED BY <3>2 DEF s, t
  <2> QED BY <2>2, <2>5 DEF g
<1>5. Disk!Upto(f) \subseteq Seq(FolderNames)
  BY <1>1, <1>2
<1>6. f \in Disk!Upto(f)
  BY <1>1, <1>3
<1>7. ASSUME NEW g \in Disk!Upto(f), NEW n \in 0..Len(g) PROVE SubSeq(g, 1, n) \in Disk!Upto(f)
  <2>1. PICK m \in 0..Len(f) : g = SubSeq(f, 1, m)
    BY <1>1
  <2>2. SubSeq(g, 1, n) = SubSeq(f, 1, n) /\ n \in 0..Len(f)
    BY <1>4, <2>1
  <2> QED BY <1>1, <2>2
<1> QED BY <1>5, <1>6, <1>7

\* Folders that are made keep the files housed.
LEMMA Making ==
  ASSUME DirsAgree, NEW f \in Seq(FolderNames), dirs' = dirs \cup Disk!Upto(f),
         \A p \in Present(files') : p \in Present(files) \/ Front(p) \in dirs'
  PROVE  DirsAgree' /\ f \in dirs'
<1>1. dirs' \subseteq Seq(FolderNames) /\ f \in dirs'
  BY UptoIs DEF DirsAgree
<1>2. ASSUME NEW g \in dirs', NEW n \in 0..Len(g) PROVE SubSeq(g, 1, n) \in dirs'
  BY UptoIs DEF DirsAgree, Rooted
<1>3. \A p \in Present(files') : Front(p) \in dirs'
  BY DEF DirsAgree, Housed
<1> QED BY <1>1, <1>2, <1>3 DEF DirsAgree, Rooted, Housed, Present

LEMMA SameFolders ==
  ASSUME DirsAgree, dirs' = dirs,
         \A p \in Present(files') : p \in Present(files) \/ Front(p) \in dirs
  PROVE  DirsAgree'
<1>1. \A p \in Present(files') : Front(p) \in dirs'
  BY DEF DirsAgree, Housed
<1> QED BY <1>1 DEF DirsAgree, Rooted, Housed, Present

\* A folder that is removed was empty.
LEMMA Removing ==
  ASSUME DirsAgree, NEW dir \in Seq(FolderNames), Disk!read_dir(dir) = {}, dirs' = dirs \ {dir}, files' = files
  PROVE  DirsAgree'
<1>1. dirs' \subseteq Seq(FolderNames)
  BY DEF DirsAgree
<1>2. ASSUME NEW f \in dirs', NEW n \in 0..Len(f) PROVE SubSeq(f, 1, n) \in dirs'
  <2>1. f \in dirs /\ f # dir /\ f \in Seq(FolderNames) /\ SubSeq(f, 1, n) \in dirs
    BY DEF DirsAgree, Rooted
  <2>2. SubSeq(f, 1, n) # dir
    <3> SUFFICES ASSUME SubSeq(f, 1, n) = dir PROVE FALSE
      OBVIOUS
    <3>1. IsPrefix(dir, f)
      BY <2>1, StartIs
    <3> QED BY <2>1, <3>1, Listed
  <2> QED BY <2>1, <2>2
<1>3. ASSUME NEW p \in Present(files') PROVE Front(p) \in dirs'
  <2>1. p \in Present(files) /\ p \in Paths /\ Front(p) \in dirs
    BY DEF DirsAgree, Housed, Present
  <2>2. Front(p) # dir
    BY <2>1, ReadDirIs
  <2> QED BY <2>1, <2>2
<1> QED BY <1>1, <1>2, <1>3 DEF DirsAgree, Rooted, Housed, Present

\* What lies beneath an empty folder, and beneath one that does not exist.
LEMMA Emptied ==
  ASSUME DirsAgree, NEW dir \in Seq(FolderNames), Disk!read_dir(dir) = {}
  PROVE  Beneath(dir) \cap Present(files) = {} /\ \A f \in dirs : IsPrefix(dir, f) => f = dir
<1>1. \A p \in Beneath(dir) \cap Present(files) : FALSE
  BY Listed DEF Beneath
<1>2. \A f \in dirs : IsPrefix(dir, f) => f = dir
  BY Listed
<1> QED BY <1>1, <1>2

LEMMA Missing ==
  ASSUME DirsAgree, NEW dir \in Seq(FolderNames), dir \notin dirs
  PROVE  Beneath(dir) \cap Present(files) = {} /\ \A f \in dirs : ~IsPrefix(dir, f)
<1>1. ASSUME NEW f \in dirs, IsPrefix(dir, f) PROVE FALSE
  <2>1. dir \in Seq(Components) /\ f \in Seq(Components)
    BY NamesAreComponents DEF DirsAgree
  <2>2. Len(dir) \in 0..Len(f) /\ dir = SubSeq(f, 1, Len(dir))
    BY <1>1, <2>1, PrefixIsStart
  <2> QED BY <2>2 DEF DirsAgree, Rooted
<1>2. ASSUME NEW p \in Beneath(dir) \cap Present(files) PROVE FALSE
  <2>1. p \in Paths /\ IsPrefix(dir, p) /\ Front(p) \in dirs
    BY DEF Beneath, DirsAgree, Housed
  <2>2. p \in Seq(Components) /\ dir \in Seq(Components) /\ Len(p) \in Nat \ {0}
    BY <2>1, FileNames, NamesAreComponents
  <2>3. p # dir
    BY <2>1, FilesApart
  <2>4. /\ Len(dir) \in Nat /\ Len(dir) <= Len(p) /\ \A i \in 1..Len(dir) : dir[i] = p[i]
    BY <2>1, <2>2, PrefixByPlace
  <2>5. Len(dir) # Len(p)
    BY <2>2, <2>3, <2>4, SeqEqual
  <2>6. Len(p) - 1 \in 0..Len(p) /\ Len(dir) <= Len(p) - 1
    BY <2>2, <2>4, <2>5
  <2>7. Front(p) \in Seq(Components) /\ Len(Front(p)) = Len(p) - 1 /\ IsPrefix(Front(p), p)
    BY <2>2, <2>6, StartIs DEF Front
  <2>8. IsPrefix(dir, Front(p))
    BY <2>1, <2>2, <2>6, <2>7, PrefixesCompare
  <2> QED BY <1>1, <2>1, <2>8
<1> QED BY <1>1, <1>2

\* What begins a relocated sequence is the relocated beginning.
LEMMA RebasedStart ==
  ASSUME NEW S, NEW from \in Seq(S), NEW to \in Seq(S), NEW q \in Seq(S), IsPrefix(from, q),
         NEW m \in Len(from)..Len(q)
  PROVE  /\ IsPrefix(from, SubSeq(q, 1, m))
         /\ SubSeq(Rebased(q, from, to), 1, Len(to) + m - Len(from)) = Rebased(SubSeq(q, 1, m), from, to)
<1> DEFINE p == Rebased(q, from, to)
           k == SubSeq(q, 1, m)
           r == Rebased(k, from, to)
           n == Len(to) + m - Len(from)
           s == SubSeq(p, 1, n)
<1>1. /\ Len(from) \in Nat /\ Len(to) \in Nat /\ Len(q) \in Nat /\ m \in Nat
      /\ Len(from) <= m /\ m <= Len(q) /\ m \in 0..Len(q)
  BY PrefixByPlace
<1>2. k \in Seq(S) /\ Len(k) = m /\ IsPrefix(k, q) /\ \A i \in 1..m : k[i] = q[i]
  BY <1>1, StartIs
<1> HIDE DEF k
<1>3. IsPrefix(from, k)
  BY <1>1, <1>2, PrefixesCompare
<1>4. /\ p \in Seq(S) /\ Len(p) = Len(to) + Len(q) - Len(from)
      /\ \A i \in 1..Len(p) : p[i] = IF i <= Len(to) THEN to[i] ELSE q[i - Len(to) + Len(from)]
  BY RebasedIs
<1> HIDE DEF p
<1>10. /\ r \in Seq(S) /\ Len(r) = Len(to) + Len(k) - Len(from)
       /\ \A i \in 1..Len(r) : r[i] = IF i <= Len(to) THEN to[i] ELSE k[i - Len(to) + Len(from)]
  <2>1. k \in Seq(S)
    BY <1>2
  <2> QED BY <1>3, <2>1, RebasedIs
<1> HIDE DEF r
<1>5. /\ r \in Seq(S) /\ Len(r) = Len(to) + m - Len(from)
      /\ \A i \in 1..Len(r) : r[i] = IF i <= Len(to) THEN to[i] ELSE k[i - Len(to) + Len(from)]
  BY <1>2, <1>10
<1>6. n \in 0..Len(p)
  BY <1>1, <1>4
<1>7. s \in Seq(S) /\ Len(s) = n /\ \A i \in 1..n : s[i] = p[i]
  BY <1>4, <1>6, StartIs
<1> HIDE DEF s
<1>8. ASSUME NEW i \in 1..n PROVE s[i] = r[i]
  <2>1. i \in 1..Len(p) /\ i \in 1..Len(r) /\ i \in Nat
    BY <1>1, <1>4, <1>5, <1>6
  <2>2. CASE i <= Len(to)
    BY <1>4, <1>5, <1>7, <2>1, <2>2
  <2>3. CASE ~(i <= Len(to))
    <3>1. i - Len(to) + Len(from) \in 1..m
      BY <1>1, <2>1, <2>3
    <3> QED BY <1>2, <1>4, <1>5, <1>7, <2>1, <2>3, <3>1
  <2> QED BY <2>2, <2>3
<1>9. s = r
  BY <1>5, <1>7, <1>8, SeqEqual
<1> QED BY <1>3, <1>9 DEF s, p, r, k, n

\* A folder is renamed.
LEMMA Renaming ==
  ASSUME DirsAgree, NEW from \in Folders, NEW to \in Folders, Disjoint(from, to), Front(to) \in dirs,
         files' = Disk!FolderMoved(files, from, to),
         dirs' = {IF IsPrefix(from, f) THEN Rebased(f, from, to) ELSE f : f \in dirs}
  PROVE  DirsAgree'
<1> DEFINE S == FolderNames
<1>1. from \in Seq(S) /\ to \in Seq(S) /\ \A f \in dirs : f \in Seq(S)
  BY NamesAreComponents DEF DirsAgree
<1> HIDE DEF S
<1>2. /\ \A f \in dirs : IF IsPrefix(from, f) THEN Rebased(f, from, to) \in dirs' ELSE f \in dirs'
      /\ \A g \in dirs' : \/ g \in dirs /\ ~IsPrefix(from, g)
                          \/ \E f \in dirs : IsPrefix(from, f) /\ g = Rebased(f, from, to)
  OBVIOUS
<1>3. Len(from) \in Nat /\ Len(to) \in Nat /\ Len(to) # 0
  <2>1. Len(from) \in Nat /\ Len(to) \in Nat
    BY <1>1
  <2>2. Len(to) # 0
    <3> SUFFICES ASSUME Len(to) = 0 PROVE FALSE
      OBVIOUS
    <3>1. Len(to) <= Len(from) /\ \A i \in 1..Len(to) : to[i] = from[i]
      BY <2>1
    <3>2. IsPrefix(to, from)
      BY <1>1, <3>1, PrefixByPlace
    <3> QED BY <3>2 DEF Disjoint
  <2> QED BY <2>1, <2>2
<1>4. dirs' \subseteq Seq(S)
  BY <1>1, <1>2, RebasedIs
<1>5. ASSUME NEW f \in dirs, ~IsPrefix(from, f), NEW n \in 0..Len(f)
      PROVE  SubSeq(f, 1, n) \in dirs'
  <2> DEFINE h == SubSeq(f, 1, n)
  <2>1. h \in dirs
    BY DEF DirsAgree, Rooted
  <2>2. h \in Seq(S) /\ IsPrefix(h, f)
    BY <1>1, StartIs
  <2> HIDE DEF h
  <2>3. ~IsPrefix(from, h)
    BY <1>1, <1>5, <2>2, PrefixTransitive
  <2> QED BY <1>2, <2>1, <2>3 DEF h
<1>6. ASSUME NEW f \in dirs, IsPrefix(from, f), NEW n \in 0..Len(Rebased(f, from, to))
      PROVE  SubSeq(Rebased(f, from, to), 1, n) \in dirs'
  <2> DEFINE g == Rebased(f, from, to)
  <2>1. /\ g \in Seq(S) /\ Len(g) = Len(to) + Len(f) - Len(from) /\ IsPrefix(to, g)
    BY <1>1, <1>6, RebasedIs
  <2>2. n \in 0..Len(g)
    OBVIOUS
  <2> HIDE DEF g
  <2>3. n \in Nat /\ n <= Len(g) /\ Len(f) \in Nat /\ Len(from) <= Len(f)
    <3>1. Len(f) \in Nat /\ Len(from) <= Len(f)
      BY <1>1, <1>6, PrefixByPlace
    <3> QED BY <1>3, <2>1, <2>2, <3>1
  <2>4. CASE Len(to) <= n
    <3> DEFINE m == n - Len(to) + Len(from)
               k == SubSeq(f, 1, m)
    <3>1. m \in Len(from)..Len(f) /\ Len(to) + m - Len(from) = n /\ m \in 0..Len(f)
      BY <1>3, <2>1, <2>3, <2>4
    <3> HIDE DEF m
    <3>2. IsPrefix(from, k) /\ SubSeq(g, 1, Len(to) + m - Len(from)) = Rebased(k, from, to)
      BY <1>1, <1>6, <3>1, RebasedStart DEF g
    <3>3. k \in dirs
      BY <3>1 DEF DirsAgree, Rooted
    <3> HIDE DEF k
    <3> QED BY <1>2, <3>1, <3>2, <3>3 DEF g
  <2>5. CASE ~(Len(to) <= n)
    <3>1. n \in 0..Len(to) /\ Len(to) - 1 \in 0..Len(to) /\ n \in 0..(Len(to) - 1)
      BY <1>3, <2>3, <2>5
    <3> DEFINE h == SubSeq(g, 1, n)
               t == Front(to)
    <3>2. h \in Seq(S) /\ Len(h) = n /\ IsPrefix(h, g)
      BY <2>1, <2>2, StartIs
    <3> HIDE DEF h
    <3>3. IsPrefix(h, to)
      BY <1>1, <2>1, <3>1, <3>2, PrefixesCompare
    <3>4. t \in Seq(S) /\ Len(t) = Len(to) - 1 /\ IsPrefix(t, to)
      BY <1>1, <3>1, StartIs DEF Front
    <3> HIDE DEF t
    <3>5. Len(h) <= Len(t)
      BY <3>1, <3>2, <3>4
    <3>6. IsPrefix(h, t)
      BY <1>1, <3>2, <3>3, <3>4, <3>5, PrefixesCompare
    <3>7. h = SubSeq(t, 1, n) /\ n \in 0..Len(t)
      BY <3>2, <3>4, <3>6, PrefixIsStart
    <3>8. h \in dirs
      BY <3>7 DEF DirsAgree, Rooted, t
    <3>9. ~IsPrefix(from, h)
      BY <1>1, <3>2, <3>3, PrefixTransitive DEF Disjoint
    <3> QED BY <1>2, <3>8, <3>9 DEF h, g
  <2> QED BY <2>4, <2>5
<1>7. ASSUME NEW g \in dirs', NEW n \in 0..Len(g) PROVE SubSeq(g, 1, n) \in dirs'
  <2>1. CASE g \in dirs /\ ~IsPrefix(from, g)
    BY <1>5, <2>1
  <2>2. ASSUME NEW f \in dirs, IsPrefix(from, f), g = Rebased(f, from, to)
        PROVE  SubSeq(g, 1, n) \in dirs'
    BY <1>6, <2>2
  <2> QED BY <1>2, <2>1, <2>2
<1>8. ASSUME NEW p \in Present(files')
      PROVE  \/ p \in Present(files) /\ p \notin Beneath(from)
             \/ \E q \in Beneath(from) \cap Present(files) : p = Rebased(q, from, to)
  <2>1. p \in Paths /\ files'[p] # NoFile
    BY DEF Present
  <2>2. files'[p] = IF p \in Relocated(files, from, to) THEN files[Rebased(p, to, from)]
                    ELSE IF p \in Beneath(from) THEN NoFile ELSE files[p]
    BY <2>1, SameOperators DEF Disk!FolderMoved
  <2>3. CASE p \in Relocated(files, from, to)
    BY <2>3 DEF Relocated
  <2>4. CASE p \notin Relocated(files, from, to)
    BY <2>1, <2>2, <2>4 DEF Present
  <2> QED BY <2>3, <2>4
<1>9. ASSUME NEW p \in Present(files') PROVE Front(p) \in dirs'
  <2>1. CASE p \in Present(files) /\ p \notin Beneath(from)
    <3>1. Front(p) \in dirs /\ p \in Paths /\ ~IsPrefix(from, p)
      BY <2>1 DEF DirsAgree, Housed, Present, Beneath
    <3>2. p \in Seq(Components) /\ from \in Seq(Components) /\ Front(p) \in Seq(Components) /\ IsPrefix(Front(p), p)
      <4>1. p \in Seq(Components) /\ Len(p) \in Nat \ {0}
        BY <3>1, FileNames
      <4>2. Len(p) - 1 \in 0..Len(p)
        BY <4>1
      <4> QED BY <4>1, <4>2, StartIs, NamesAreComponents DEF Front
    <3>3. ~IsPrefix(from, Front(p))
      BY <3>1, <3>2, PrefixTransitive
    <3> QED BY <1>2, <3>1, <3>3
  <2>2. ASSUME NEW q \in Beneath(from) \cap Present(files), p = Rebased(q, from, to)
        PROVE  Front(p) \in dirs'
    <3>1. q \in Paths /\ IsPrefix(from, q) /\ Front(q) \in dirs
      BY DEF DirsAgree, Housed, Beneath
    <3>2. q \in Seq(Components) /\ from \in Seq(Components) /\ to \in Seq(Components) /\ Len(q) \in Nat \ {0}
      BY <3>1, FileNames, NamesAreComponents
    <3>3. Len(from) <= Len(q) /\ \A i \in 1..Len(from) : from[i] = q[i]
      BY <3>1, <3>2, PrefixByPlace
    <3>4. Len(from) # Len(q)
      <4>1. from # q
        BY <1>1, <3>1, FilesApart DEF S
      <4> QED BY <3>2, <3>3, <4>1, SeqEqual
    <3>5. Len(q) - 1 \in Len(from)..Len(q) /\ Len(to) + (Len(q) - 1) - Len(from) = Len(p) - 1
      <4>1. Len(p) = Len(to) + Len(q) - Len(from)
        BY <2>2, <3>1, <3>2, RebasedIs
      <4> QED BY <1>3, <3>2, <3>3, <3>4, <4>1
    <3> PICK m : m = Len(q) - 1
      OBVIOUS
    <3>6. /\ IsPrefix(from, SubSeq(q, 1, m))
          /\ SubSeq(Rebased(q, from, to), 1, Len(to) + m - Len(from)) = Rebased(SubSeq(q, 1, m), from, to)
      <4>1. m \in Len(from)..Len(q)
        BY <3>5
      <4> PICK S3 : S3 = Components
        OBVIOUS
      <4>2. from \in Seq(S3) /\ to \in Seq(S3) /\ q \in Seq(S3) /\ IsPrefix(from, q)
        BY <3>1, <3>2
      <4>3. \A f, t, x \in Seq(S3) : IsPrefix(f, x) => \A k \in Len(f)..Len(x) :
              /\ IsPrefix(f, SubSeq(x, 1, k))
              /\ SubSeq(Rebased(x, f, t), 1, Len(t) + k - Len(f)) = Rebased(SubSeq(x, 1, k), f, t)
        BY RebasedStart
      <4>4. \A k \in Len(from)..Len(q) :
              /\ IsPrefix(from, SubSeq(q, 1, k))
              /\ SubSeq(Rebased(q, from, to), 1, Len(to) + k - Len(from)) = Rebased(SubSeq(q, 1, k), from, to)
        BY <4>2, <4>3
      <4> QED BY <4>1, <4>4
    <3>7. IsPrefix(from, Front(q)) /\ Front(p) = Rebased(Front(q), from, to)
      BY <2>2, <3>5, <3>6 DEF Front
    <3> QED BY <1>2, <3>1, <3>7
  <2> QED BY <1>8, <2>1, <2>2
<1> QED BY <1>4, <1>7, <1>9 DEF DirsAgree, Rooted, Housed, Present, S

-----------------------------------------------------------------------------
(* What a step does to the files and the folders.                          *)

LEMMA MovedIsTree ==
  ASSUME files \in Trees, NEW from \in Folders, NEW to \in Folders
  PROVE  Disk!FolderMoved(files, from, to) \in Trees
<1>1. ASSUME NEW p \in Relocated(files, from, to) PROVE Rebased(p, to, from) \in Paths
  <2>1. PICK q \in Beneath(from) \cap Present(files) : p = Rebased(q, from, to)
    BY DEF Relocated
  <2>2. /\ q \in Paths /\ IsPrefix(from, q)
        /\ q \in Seq(Components) /\ from \in Seq(Components) /\ to \in Seq(Components)
    BY NamesAreComponents DEF Beneath
  <2>3. Rebased(p, to, from) = q
    BY <2>1, <2>2, RebasedBack
  <2> QED BY <2>2, <2>3
<1>2. Disk!FolderMoved(files, from, to)
        = [p \in Paths |-> IF p \in Relocated(files, from, to) THEN files[Rebased(p, to, from)]
                           ELSE IF p \in Beneath(from) THEN NoFile ELSE files[p]]
  BY SameOperators DEF Disk!FolderMoved
<1> QED BY <1>1, <1>2 DEF Trees

LEMMA WriteKeeps ==
  ASSUME IInv, DiskAgrees, NEW p \in Paths, NEW data \in Contents, Disk!write_file(p, data)
  PROVE  files' \in Trees /\ DirsAgree'
<1>1. /\ dirs' = dirs \cup Disk!Upto(Front(p))
      /\ \E new \in {files[p], data, Torn} : files' = [files EXCEPT ![p] = new]
  BY SameOperators DEF Disk!write_file
<1>2. files' \in Trees /\ \A q \in Paths : q # p => files'[q] = files[q]
  BY <1>1 DEF IInv, Trees
<1>3. Front(p) \in Seq(FolderNames) /\ DirsAgree
  BY FileNames DEF DiskAgrees
<1>4. Front(p) \in dirs'
  BY <1>1, <1>3, UptoIs
<1>5. \A q \in Present(files') : q \in Present(files) \/ Front(q) \in dirs'
  BY <1>2, <1>4 DEF Present
<1> QED BY <1>1, <1>2, <1>3, <1>5, Making

LEMMA DeleteKeeps ==
  ASSUME IInv, DiskAgrees, NEW p \in Paths, Disk!delete_file(p)
  PROVE  files' \in Trees /\ DirsAgree'
<1>1. dirs' = dirs /\ files' = [files EXCEPT ![p] = NoFile]
  BY DEF Disk!delete_file
<1>2. files' \in Trees /\ \A q \in Paths : q # p => files'[q] = files[q]
  BY <1>1 DEF IInv, Trees
<1>3. \A q \in Present(files') : q \in Present(files)
  BY <1>1, <1>2 DEF Present, IInv, Trees
<1> QED BY <1>1, <1>2, <1>3, SameFolders DEF DiskAgrees

\* A file is moved or copied, wholly or in part, into a folder that exists.
LEMMA PutKeeps ==
  ASSUME IInv, DiskAgrees, NEW to \in Paths, Front(to) \in dirs, dirs' = dirs, files' \in Trees,
         \A q \in Paths : q # to => files'[q] \in {files[q], NoFile}
  PROVE  DirsAgree'
<1>1. \A q \in Present(files') : q \in Present(files) \/ Front(q) \in dirs
  BY DEF Present
<1> QED BY <1>1, SameFolders DEF DiskAgrees

LEMMA MoveKeeps ==
  ASSUME IInv, DiskAgrees, NEW from \in Paths, NEW to \in Paths, Disk!move_file(from, to)
  PROVE  files' \in Trees /\ DirsAgree'
<1>1. /\ dirs' = dirs /\ Front(to) \in dirs
      /\ files' = [files EXCEPT ![from] = NoFile, ![to] = files[from]]
  BY SameOperators DEF Disk!move_file, Disk!FileMoved
<1>2. files' \in Trees /\ \A q \in Paths : q # to => files'[q] \in {files[q], NoFile}
  BY <1>1 DEF IInv, Trees
<1> QED BY <1>1, <1>2, PutKeeps

LEMMA FsCopiedIs ==
  ASSUME files \in Trees, NEW from \in Paths, NEW to \in Paths
  PROVE  /\ Disk!FsCopied(from, to) \in Trees /\ [files EXCEPT ![to] = Torn] \in Trees
         /\ \A q \in Paths : q # to => /\ Disk!FsCopied(from, to)[q] = files[q]
                                       /\ [files EXCEPT ![to] = Torn][q] = files[q]
         /\ from # to => Disk!FsCopied(from, to)[to] = files[from]
  BY DEF Trees, Disk!FsCopied

LEMMA CopyKeeps ==
  ASSUME IInv, DiskAgrees, NEW from \in Paths, NEW to \in Paths, Disk!copy_file(from, to)
  PROVE  files' \in Trees /\ DirsAgree'
<1>1. /\ dirs' = dirs /\ Front(to) \in dirs
      /\ files' \in {Disk!FsCopied(from, to), [files EXCEPT ![to] = Torn]}
  BY SameOperators DEF Disk!copy_file
<1>2. files' \in Trees /\ \A q \in Paths : q # to => files'[q] = files[q]
  BY <1>1 DEF IInv, Trees, Disk!FsCopied
<1> QED BY <1>1, <1>2, PutKeeps

LEMMA CreateKeeps ==
  ASSUME IInv, DiskAgrees, NEW f \in Seq(FolderNames), dirs' = dirs \cup Disk!Upto(f), files' = files
  PROVE  files' \in Trees /\ DirsAgree'
<1>1. \A q \in Present(files') : q \in Present(files)
  BY DEF Present
<1> QED BY <1>1, Making DEF IInv, DiskAgrees

LEMMA RenameKeeps ==
  ASSUME IInv, DiskAgrees, NEW from \in Folders, NEW to \in Folders, Disk!move_folder(from, to)
  PROVE  files' \in Trees /\ DirsAgree'
<1>1. /\ Disjoint(from, to) /\ Front(to) \in dirs /\ files' = Disk!FolderMoved(files, from, to)
      /\ dirs' = {IF IsPrefix(from, f) THEN Rebased(f, from, to) ELSE f : f \in dirs}
  BY SameOperators DEF Disk!move_folder
<1> QED BY <1>1, MovedIsTree, Renaming DEF IInv, DiskAgrees

-----------------------------------------------------------------------------
(* What a step does to the walks.                                          *)

\* A walk that another's step leaves as it was: what has changed is noted.
LEMMA WalkWaits ==
  ASSUME IInv, DiskAgrees, files' \in Trees, Disk!Remembered,
         NEW c \in Callers, walk[c] # Idle, walk'[c] = walk[c]
  PROVE  WalkAgrees(c)'
<1> DEFINE changed == {p \in Paths : files'[p] # files[p]}
<1>1. WalkAgrees(c)
  BY DEF DiskAgrees, Disk!Walking
<1>2. since'[c] = [since[c] EXCEPT !.touched = @ \cup changed]
  BY DEF Disk!Remembered
<1>3. /\ since[c] \in [found : Trees, touched : SUBSET Paths]
      /\ since'[c] \in [found : Trees, touched : SUBSET Paths]
      /\ since'[c].found = since[c].found /\ since'[c].touched = since[c].touched \cup changed
  BY <1>1, <1>2 DEF WalkAgrees, WalkTyped
<1>4. From(c)' = From(c) /\ To(c)' = To(c) /\ Within(c)' = Within(c) /\ Found(c)' = Found(c)
  BY <1>3 DEF From, To, Within, Found
<1>5. \A p \in Kept(c)' : p \in Kept(c) /\ p \in Paths /\ files'[p] = files[p]
  BY <1>3 DEF Kept
<1>6. WalkTyped(c)'
  BY <1>1, <1>3, <1>4 DEF WalkAgrees, WalkTyped
<1>7. \A q : Pending(c, q)' <=> Pending(c, q)
  BY <1>4 DEF Pending
<1>8. CopyAgrees(c)'
  BY <1>1, <1>4, <1>5, <1>7 DEF WalkAgrees, CopyAgrees
<1>9. RemoveAgrees(c)'
  BY <1>1, <1>4, <1>5 DEF WalkAgrees, RemoveAgrees
<1> QED BY <1>6, <1>8, <1>9 DEF WalkAgrees

\* A walk that begins.
LEMMA WalkBegins ==
  ASSUME IInv, DiskAgrees, Disk!Remembered, files' = files,
         NEW c \in Callers, walk[c] = Idle, NEW op \in {"copy", "delete"},
         NEW from \in Folders, NEW to \in Folders,
         walk'[c] = [op |-> op, from |-> from, to |-> to, within |-> <<Disk!Folder(from)>>],
         walk'[c] # Idle,
         op = "copy" => /\ from = to \/ Disjoint(from, to)
                        /\ Relocated(files, from, to) \subseteq Paths
  PROVE  WalkAgrees(c)'
<1> DEFINE listed == Disk!read_dir(from)
           first == [dir |-> from, left |-> listed]
<1>1. since'[c] = [found |-> files, touched |-> {}]
  BY DEF Disk!Remembered
<1>2. /\ From(c)' = from /\ To(c)' = to /\ Within(c)' = <<first>> /\ walk'[c].op = op
      /\ Found(c)' = files /\ Kept(c)' = Paths
  BY <1>1 DEF From, To, Within, Found, Kept, Disk!Folder
<1>3. from \in Seq(FolderNames)
  BY NamesAreComponents
<1>4. \A e \in listed : IsPrefix(from, e) /\ e \in Paths \cup Seq(FolderNames)
  BY <1>3, Lists DEF DiskAgrees
<1> HIDE DEF listed
<1>5. first \in [dir : Seq(Components), left : SUBSET Seq(Components)]
  BY <1>3, <1>4, NamesAreComponents
<1>6. WalkTyped(c)'
  <2>1. walk'[c] \in Disk!Walks
    BY <1>5, WalksAre DEF Disk!Folder, listed
  <2>2. Within(c)' # << >> /\ \A i \in DOMAIN Within(c)' : Within(c)'[i] = first
    BY <1>2
  <2>3. \A i \in DOMAIN Within(c)' : /\ Within(c)'[i].dir \in Seq(FolderNames)
                                     /\ \A e \in Within(c)'[i].left : Entry(From(c)', e)
    BY <1>2, <1>3, <1>4, <2>2 DEF Entry
  <2>4. Len(Within(c)') = 1 /\ Within(c)'[Len(Within(c)')].dir = From(c)'
    BY <1>2
  <2> QED BY <1>1, <1>2, <2>1, <2>2, <2>3, <2>4 DEF WalkTyped, IInv
<1>7. ASSUME NEW q \in Beneath(from) \cap Present(files) PROVE Pending(c, q)'
  <2>1. PICK e \in listed : IsPrefix(e, q)
    BY <1>3, Listed DEF DiskAgrees, Beneath, listed
  <2>2. 1 \in DOMAIN Within(c)' /\ e \in Within(c)'[1].left
    BY <1>2
  <2> QED BY <2>1, <2>2 DEF Pending
<1>8. CopyAgrees(c)'
  BY <1>2, <1>7 DEF CopyAgrees
<1>9. RemoveAgrees(c)'
  BY <1>2 DEF RemoveAgrees
<1> QED BY <1>6, <1>8, <1>9 DEF WalkAgrees

LEMMA WalkParts ==
  ASSUME NEW c \in Callers, WalkTyped(c)
  PROVE  /\ From(c) \in Folders /\ To(c) \in Folders /\ walk[c].op \in {"copy", "delete"}
         /\ From(c) \in Seq(Components) /\ To(c) \in Seq(Components)
         /\ Within(c) \in Seq([dir : Seq(Components), left : SUBSET Seq(Components)])
         /\ Len(Within(c)) \in Nat \ {0} /\ DOMAIN Within(c) = 1..Len(Within(c))
         /\ Disk!Left(c) = Within(c)[1].left /\ Head(Within(c)) = Within(c)[1]
         /\ walk[c] = [op |-> walk[c].op, from |-> From(c), to |-> To(c), within |-> Within(c)]
         /\ since[c] \in [found : Trees, touched : SUBSET Paths]
<1>1. walk[c] \in [op : {"copy", "delete"}, from : Folders, to : Folders,
                within : Seq([dir : Seq(Components), left : SUBSET Seq(Components)])]
  BY WalksAre DEF WalkTyped
<1>2. From(c) \in Folders /\ To(c) \in Folders
  BY <1>1 DEF From, To
<1>3. /\ Within(c) \in Seq([dir : Seq(Components), left : SUBSET Seq(Components)]) /\ Within(c) # << >>
      /\ walk[c] = [op |-> walk[c].op, from |-> From(c), to |-> To(c), within |-> Within(c)]
      /\ walk[c].op \in {"copy", "delete"}
  BY <1>1 DEF Within, WalkTyped, From, To
<1>4. Len(Within(c)) \in Nat \ {0} /\ DOMAIN Within(c) = 1..Len(Within(c)) /\ Head(Within(c)) = Within(c)[1]
  BY <1>3
<1> QED BY <1>2, <1>3, <1>4, NamesAreComponents DEF WalkTyped, Disk!Left, Within

\* An entry that is copied or descended into, and where it goes.
LEMMA EntryIs ==
  ASSUME NEW c \in Callers, WalkTyped(c), NEW e \in Disk!Left(c)
  PROVE  /\ e \in Seq(Components) /\ IsPrefix(From(c), e) /\ e \in Paths \cup Seq(FolderNames)
         /\ Disk!Target(c, e) = Rebased(e, From(c), To(c))
         /\ IsPrefix(To(c), Disk!Target(c, e)) /\ Disk!Target(c, e) \in Seq(Components)
         /\ e \in Seq(FolderNames) => Disk!Target(c, e) \in Seq(FolderNames)
<1>1. Entry(From(c), e)
  <2>2. /\ Len(Within(c)) \in Nat \ {0} /\ DOMAIN Within(c) = 1..Len(Within(c))
        /\ Disk!Left(c) = Within(c)[1].left
    BY WalkParts
  <2>1. 1 \in DOMAIN Within(c) /\ e \in Within(c)[1].left
    BY <2>2
  <2> QED BY <2>1 DEF WalkTyped
<1>2. /\ e \in Seq(Components) /\ IsPrefix(From(c), e) /\ e \in Paths \cup Seq(FolderNames)
      /\ From(c) \in Folders /\ To(c) \in Folders /\ From(c) \in Seq(Components) /\ To(c) \in Seq(Components)
  BY <1>1, NamesAreComponents, WalkParts DEF Entry
<1>3. Disk!Target(c, e) = Rebased(e, From(c), To(c))
  BY SameOperators DEF Disk!Target, From, To
<1>4. IsPrefix(To(c), Rebased(e, From(c), To(c))) /\ Rebased(e, From(c), To(c)) \in Seq(Components)
  BY <1>2, RebasedIs
<1>5. ASSUME e \in Seq(FolderNames) PROVE Rebased(e, From(c), To(c)) \in Seq(FolderNames)
  BY <1>2, <1>5, NamesAreComponents, RebasedIs
<1> QED BY <1>2, <1>3, <1>4, <1>5

\* Where a copy puts nothing: beneath the folder it is taken from.
LEMMA SourcesApart ==
  ASSUME NEW from \in Folders, NEW to \in Folders, Disjoint(from, to), NEW q \in Seq(Components),
         IsPrefix(from, q), NEW r \in Seq(Components), IsPrefix(from, r)
  PROVE  Rebased(r, from, to) # q /\ ~IsPrefix(to, q)
<1>1. from \in Seq(Components) /\ to \in Seq(Components) /\ Len(from) \in Nat /\ Len(to) \in Nat
  BY NamesAreComponents
<1>2. ~IsPrefix(to, q)
  <2> SUFFICES ASSUME IsPrefix(to, q) PROVE FALSE
    OBVIOUS
  <2>1. CASE Len(from) <= Len(to)
    BY <1>1, <2>1, PrefixesCompare DEF Disjoint
  <2>2. CASE Len(to) <= Len(from)
    BY <1>1, <2>2, PrefixesCompare DEF Disjoint
  <2> QED BY <1>1, <2>1, <2>2
<1>3. IsPrefix(to, Rebased(r, from, to))
  BY <1>1, RebasedIs
<1> QED BY <1>2, <1>3

\* Two files are never copied to one place.
LEMMA TargetsApart ==
  ASSUME NEW from \in Folders, NEW to \in Folders, NEW q \in Seq(Components), NEW r \in Seq(Components),
         IsPrefix(from, q), IsPrefix(from, r), Rebased(q, from, to) = Rebased(r, from, to)
  PROVE  q = r
<1>1. from \in Seq(Components) /\ to \in Seq(Components)
  BY NamesAreComponents
<1>2. Rebased(Rebased(q, from, to), to, from) = q
  BY <1>1, RebasedBack
<1>3. Rebased(Rebased(r, from, to), to, from) = r
  BY <1>1, RebasedBack
<1> QED BY <1>2, <1>3

\* What a copy found and nobody touched is still there.
LEMMA SourceStands ==
  ASSUME NEW c \in Callers, WalkAgrees(c), walk[c].op = "copy", From(c) # To(c),
         NEW q \in Beneath(From(c)) \cap Kept(c)
  PROVE  files[q] = Found(c)[q]
<1>1. /\ From(c) \in Folders /\ To(c) \in Folders /\ Disjoint(From(c), To(c))
      /\ q \in Paths /\ q \in Seq(Components) /\ IsPrefix(From(c), q)
  BY WalkParts, NamesAreComponents DEF WalkAgrees, WalkTyped, Beneath
<1>2. ASSUME NEW r \in Beneath(From(c)) PROVE Rebased(r, From(c), To(c)) # q
  <2>1. r \in Seq(Components) /\ IsPrefix(From(c), r)
    BY NamesAreComponents DEF Beneath
  <2> QED BY <1>1, <2>1, SourcesApart
<1> QED BY <1>2 DEF WalkAgrees, CopyAgrees

\* The innermost folder replaced, a folder entered, and a folder left.
LEMMA InnermostIs ==
  ASSUME NEW S, NEW w \in Seq(S), Len(w) # 0, NEW a \in S, NEW b \in S
  PROVE  /\ <<a>> \o Tail(w) \in Seq(S) /\ Len(<<a>> \o Tail(w)) = Len(w)
         /\ \A i \in 1..Len(w) : (<<a>> \o Tail(w))[i] = IF i = 1 THEN a ELSE w[i]
         /\ <<a, b>> \o Tail(w) \in Seq(S) /\ Len(<<a, b>> \o Tail(w)) = Len(w) + 1
         /\ \A i \in 1..(Len(w) + 1) : (<<a, b>> \o Tail(w))[i] = IF i = 1 THEN a ELSE IF i = 2 THEN b ELSE w[i - 1]
         /\ Tail(w) \in Seq(S) /\ Len(Tail(w)) = Len(w) - 1
         /\ \A i \in 1..(Len(w) - 1) : Tail(w)[i] = w[i + 1]
<1>1. /\ Len(w) \in Nat \ {0} /\ Tail(w) \in Seq(S) /\ Len(Tail(w)) = Len(w) - 1
      /\ \A i \in 1..(Len(w) - 1) : Tail(w)[i] = w[i + 1]
  OBVIOUS
<1> DEFINE t == Tail(w)
           p == <<a>> \o t
           q == <<a, b>> \o t
<1> HIDE DEF t
<1>2. p \in Seq(S) /\ Len(p) = 1 + Len(t) /\ \A i \in 1..(1 + Len(t)) : p[i] = IF i <= 1 THEN a ELSE t[i - 1]
  BY <1>1 DEF t
<1>3. q \in Seq(S) /\ Len(q) = 2 + Len(t)
      /\ \A i \in 1..(2 + Len(t)) : q[i] = IF i <= 2 THEN <<a, b>>[i] ELSE t[i - 2]
  BY <1>1 DEF t
<1> HIDE DEF p, q
<1>4. \A i \in 1..Len(w) : p[i] = IF i = 1 THEN a ELSE w[i]
  <2> TAKE i \in 1..Len(w)
  <2>1. CASE i = 1
    BY <1>1, <1>2, <2>1 DEF t
  <2>2. CASE i # 1
    <3>1. i - 1 \in 1..(Len(w) - 1) /\ i - 1 + 1 = i
      BY <1>1, <2>2
    <3> QED BY <1>1, <1>2, <2>2, <3>1 DEF t
  <2> QED BY <2>1, <2>2
<1>5. \A i \in 1..(Len(w) + 1) : q[i] = IF i = 1 THEN a ELSE IF i = 2 THEN b ELSE w[i - 1]
  <2> TAKE i \in 1..(Len(w) + 1)
  <2>1. CASE i \in {1, 2}
    BY <1>1, <1>3, <2>1 DEF t
  <2>2. CASE i \notin {1, 2}
    <3>1. i - 2 \in 1..(Len(w) - 1) /\ i - 2 + 1 = i - 1
      BY <1>1, <2>2
    <3> QED BY <1>1, <1>3, <2>2, <3>1 DEF t
  <2> QED BY <2>1, <2>2
<1>6. Len(p) = Len(w) /\ Len(q) = Len(w) + 1
  BY <1>1, <1>2, <1>3 DEF t
<1> QED BY <1>1, <1>2, <1>3, <1>4, <1>5, <1>6 DEF p, q, t

LEMMA WalkGoesOn ==
  ASSUME NEW c \in Callers, WalkTyped(c), walk[c] # Idle, Disk!Remembered,
         NEW w \in Seq([dir : Seq(Components), left : SUBSET Seq(Components)]), w # << >>,
         walk'[c] = [walk[c] EXCEPT !.within = w], walk'[c] # walk[c],
         \A i \in DOMAIN w : w[i].dir \in Seq(FolderNames) /\ \A e \in w[i].left : Entry(From(c), e),
         walk[c].op = "delete" => w[Len(w)].dir = From(c)
  PROVE  /\ WalkTyped(c)' /\ Within(c)' = w
         /\ From(c)' = From(c) /\ To(c)' = To(c) /\ walk'[c].op = walk[c].op
         /\ Found(c)' = Found(c) /\ Kept(c)' = Kept(c)
<1>2. walk'[c] = [op |-> walk[c].op, from |-> From(c), to |-> To(c), within |-> w]
  <2>1. walk[c] = [op |-> walk[c].op, from |-> From(c), to |-> To(c), within |-> Within(c)]
    BY WalkParts
  <2>2. PICK o, f, t, v : walk[c] = [op |-> o, from |-> f, to |-> t, within |-> v]
    BY <2>1
  <2>3. walk'[c] = [op |-> o, from |-> f, to |-> t, within |-> w]
    BY <2>2
  <2> QED BY <2>2, <2>3 DEF From, To
<1>4. walk'[c] \in Disk!Walks
  <2>1. From(c) \in Folders /\ To(c) \in Folders /\ walk[c].op \in {"copy", "delete"}
    BY WalkParts
  <2> QED BY <1>2, <2>1, WalksAre
<1>1. since'[c] = since[c]
  BY <1>4, IdleAssumption DEF Disk!Remembered
<1>3. /\ Within(c)' = w /\ From(c)' = From(c) /\ To(c)' = To(c) /\ walk'[c].op = walk[c].op
      /\ Found(c)' = Found(c) /\ Kept(c)' = Kept(c)
  BY <1>1, <1>2 DEF Within, From, To, Found, Kept
<1> QED BY <1>1, <1>3, <1>4 DEF WalkTyped

\* A copy or a removal goes down into a folder it has listed.
LEMMA Entering ==
  ASSUME IInv, DiskAgrees, Disk!Remembered, DirsAgree', NEW c \in Callers, NEW e, Disk!Enter(c, e)
  PROVE  walk'[c] = walk[c] \/ WalkAgrees(c)'
<1> SUFFICES ASSUME walk'[c] # walk[c] PROVE WalkAgrees(c)'
  OBVIOUS
<1> DEFINE w == Within(c)
           a == Disk!Folder(e)
           b == Disk!Done(c, e)
           v == <<a, b>> \o Tail(w)
           Frames == [dir : Seq(Components), left : SUBSET Seq(Components)]
<1>1. /\ walk[c] # Idle /\ e \in Disk!Left(c) /\ e \in dirs /\ files' = files
      /\ walk' = [walk EXCEPT ![c].within = v] /\ DOMAIN walk = Callers
  BY DEF Disk!Enter, Disk!Walking, Within, DiskAgrees
<1>2. WalkAgrees(c) /\ WalkTyped(c)
  BY <1>1 DEF DiskAgrees, Disk!Walking, WalkAgrees
<1>3. /\ w \in Seq(Frames) /\ Len(w) \in Nat \ {0} /\ DOMAIN w = 1..Len(w)
      /\ Disk!Left(c) = w[1].left /\ Head(w) = w[1]
  BY <1>2, WalkParts
<1>4. /\ e \in Seq(FolderNames) /\ e \in Seq(Components) /\ IsPrefix(From(c), e)
  BY <1>1, <1>2, EntryIs DEF DiskAgrees, DirsAgree
<1>5. a = [dir |-> e, left |-> Disk!read_dir(e)] /\ \A x \in Disk!read_dir(e) : Entry(From(c), x) /\ IsPrefix(e, x)
  <2>1. a = [dir |-> e, left |-> Disk!read_dir(e)]
    BY DEF Disk!Folder
  <2>2. ASSUME NEW x \in Disk!read_dir(e) PROVE Entry(From(c), x) /\ IsPrefix(e, x)
    <3>1. IsPrefix(e, x) /\ x \in Paths \cup Seq(FolderNames) /\ x \in Seq(Components)
      BY <1>4, Lists, NamesAreComponents DEF DiskAgrees
    <3>2. From(c) \in Seq(Components)
      BY <1>2, WalkParts
    <3>3. IsPrefix(From(c), x)
      BY <1>4, <3>1, <3>2, PrefixTransitive
    <3> QED BY <3>1, <3>3 DEF Entry
  <2> QED BY <2>1, <2>2
<1>6. a \in Frames
  <2>1. Disk!read_dir(e) \subseteq Seq(Components)
    BY <1>5, NamesAreComponents DEF Entry
  <2> QED BY <1>4, <1>5, <2>1
<1>7. b \in Frames /\ b.dir = w[1].dir /\ b.left = w[1].left \ {e}
  <2>1. b = [w[1] EXCEPT !.left = @ \ {e}]
    BY <1>3 DEF Disk!Done, Within
  <2>2. w[1] \in Frames
    <3> HIDE DEF w, Frames
    <3> QED BY <1>3
  <2> QED BY <2>1, <2>2
<1> HIDE DEF w, a, b, Frames
<1>8. /\ v \in Seq(Frames) /\ Len(v) = Len(w) + 1 /\ DOMAIN v = 1..(Len(w) + 1)
      /\ \A i \in 1..(Len(w) + 1) : v[i] = IF i = 1 THEN a ELSE IF i = 2 THEN b ELSE w[i - 1]
  <2>1. /\ v \in Seq(Frames) /\ Len(v) = Len(w) + 1
        /\ \A i \in 1..(Len(w) + 1) : v[i] = IF i = 1 THEN a ELSE IF i = 2 THEN b ELSE w[i - 1]
    BY <1>3, <1>6, <1>7, InnermostIs
  <2> QED BY <2>1
<1> HIDE DEF v
<1>9. walk'[c] = [walk[c] EXCEPT !.within = v]
  BY <1>1
<1>10. \A i \in DOMAIN w : w[i].dir \in Seq(FolderNames) /\ \A x \in w[i].left : Entry(From(c), x)
  BY <1>2 DEF WalkTyped, w
<1>11. ASSUME NEW i \in DOMAIN v
       PROVE  v[i].dir \in Seq(FolderNames) /\ \A x \in v[i].left : Entry(From(c), x)
  <2>1. CASE i = 1
    BY <1>4, <1>5, <1>8, <2>1
  <2>2. CASE i = 2
    <3>1. 1 \in DOMAIN w
      BY <1>3
    <3> QED BY <1>7, <1>8, <1>10, <2>2, <3>1
  <2>3. CASE i # 1 /\ i # 2
    <3>1. i - 1 \in DOMAIN w
      BY <1>3, <1>8, <2>3
    <3> QED BY <1>8, <1>10, <2>3, <3>1
  <2> QED BY <2>1, <2>2, <2>3
<1>12. ASSUME walk[c].op = "delete" PROVE v[Len(v)].dir = From(c)
  <2>1. w[Len(w)].dir = From(c)
    BY <1>2, <1>12 DEF WalkTyped, w
  <2>2. v[Len(w) + 1] = IF Len(w) + 1 = 2 THEN b ELSE w[Len(w)]
    <3>1. Len(w) + 1 \in 1..(Len(w) + 1) /\ Len(w) + 1 # 1 /\ Len(w) + 1 - 1 = Len(w)
      BY <1>3
    <3> QED BY <1>8, <3>1
  <2>3. v[Len(v)].dir = w[Len(w)].dir
    <3>1. CASE Len(w) = 1
      BY <1>7, <1>8, <2>2, <3>1
    <3>2. CASE Len(w) # 1
      BY <1>3, <1>8, <2>2, <3>2
    <3> QED BY <3>1, <3>2
  <2> QED BY <2>1, <2>3
<1>13. /\ WalkTyped(c)' /\ Within(c)' = v
       /\ From(c)' = From(c) /\ To(c)' = To(c) /\ walk'[c].op = walk[c].op
       /\ Found(c)' = Found(c) /\ Kept(c)' = Kept(c)
  <2>1. v # << >>
    BY <1>3, <1>8
  <2>2. v \in Seq([dir : Seq(Components), left : SUBSET Seq(Components)])
    BY <1>8 DEF Frames
  <2> QED BY <1>1, <1>2, <1>9, <1>11, <1>12, <2>1, <2>2, WalkGoesOn
<1>14. ASSUME walk[c].op = "copy", From(c) # To(c), NEW q \in Beneath(From(c)) \cap Present(Found(c)) \cap Kept(c),
              Pending(c, q)
       PROVE  Pending(c, q)'
  <2>1. PICK i \in DOMAIN w : \E x \in w[i].left : IsPrefix(x, q)
    BY <1>14 DEF Pending, w
  <2>2. PICK x \in w[i].left : IsPrefix(x, q)
    BY <2>1
  <2>3. CASE i = 1 /\ x = e
    <3>1. q \in Present(files)
      <4>1. files[q] = Found(c)[q]
        BY <1>2, <1>14, SourceStands
      <4> QED BY <4>1 DEF Present
    <3>2. PICK y \in Disk!read_dir(e) : IsPrefix(y, q)
      BY <1>4, <2>2, <2>3, <3>1, Listed DEF DiskAgrees
    <3>3. 1 \in DOMAIN v /\ y \in v[1].left
      BY <1>3, <1>5, <1>8
    <3> QED BY <1>13, <3>2, <3>3 DEF Pending
  <2>4. CASE i = 1 /\ x # e
    <3>1. 2 \in DOMAIN v /\ x \in v[2].left
      BY <1>3, <1>7, <1>8, <2>2, <2>4
    <3> QED BY <1>13, <2>2, <3>1 DEF Pending
  <2>5. CASE i # 1
    <3>1. i + 1 \in DOMAIN v /\ i + 1 # 1 /\ i + 1 # 2 /\ i + 1 - 1 = i
      BY <1>3, <1>8, <2>5
    <3>2. x \in v[i + 1].left
      BY <1>8, <2>2, <3>1
    <3> QED BY <1>13, <2>2, <3>1, <3>2 DEF Pending
  <2> QED BY <2>3, <2>4, <2>5
<1>15. CopyAgrees(c)'
  BY <1>1, <1>2, <1>13, <1>14 DEF WalkAgrees, CopyAgrees
<1>16. RemoveAgrees(c)'
  BY <1>1, <1>2, <1>13 DEF WalkAgrees, RemoveAgrees
<1> QED BY <1>13, <1>15, <1>16 DEF WalkAgrees

\* One entry of the innermost folder is done: the others remain.
LEMMA Proceeding ==
  ASSUME IInv, DiskAgrees, Disk!Remembered, NEW c \in Callers, walk[c] # Idle, NEW e,
         Disk!Proceed(c, e), walk'[c] # walk[c]
  PROVE  /\ WalkTyped(c)'
         /\ From(c)' = From(c) /\ To(c)' = To(c) /\ walk'[c].op = walk[c].op
         /\ Found(c)' = Found(c) /\ Kept(c)' = Kept(c)
         /\ \A q : Pending(c, q) => Pending(c, q)' \/ IsPrefix(e, q)
<1> DEFINE w == Within(c)
           b == Disk!Done(c, e)
           v == <<b>> \o Tail(w)
           Frames == [dir : Seq(Components), left : SUBSET Seq(Components)]
<1>1. walk'[c] = [walk[c] EXCEPT !.within = v]
  BY DEF Disk!Proceed, Within, DiskAgrees
<1>2. WalkAgrees(c) /\ WalkTyped(c)
  BY DEF DiskAgrees, Disk!Walking, WalkAgrees
<1>3. /\ w \in Seq(Frames) /\ Len(w) \in Nat \ {0} /\ DOMAIN w = 1..Len(w)
      /\ Disk!Left(c) = w[1].left /\ Head(w) = w[1]
  BY <1>2, WalkParts
<1>4. b \in Frames /\ b.dir = w[1].dir /\ b.left = w[1].left \ {e}
  <2>1. b = [w[1] EXCEPT !.left = @ \ {e}]
    BY <1>3 DEF Disk!Done, Within
  <2>2. w[1] \in Frames
    <3> HIDE DEF w, Frames
    <3> QED BY <1>3
  <2> QED BY <2>1, <2>2
<1> HIDE DEF w, b, Frames
<1>5. /\ v \in Seq(Frames) /\ Len(v) = Len(w) /\ DOMAIN v = 1..Len(w)
      /\ \A i \in 1..Len(w) : v[i] = IF i = 1 THEN b ELSE w[i]
  <2>1. /\ v \in Seq(Frames) /\ Len(v) = Len(w)
        /\ \A i \in 1..Len(w) : v[i] = IF i = 1 THEN b ELSE w[i]
    BY <1>3, <1>4, InnermostIs
  <2> QED BY <2>1
<1> HIDE DEF v
<1>6. \A i \in DOMAIN v : i \in DOMAIN w /\ v[i].dir = w[i].dir /\ v[i].left \subseteq w[i].left
  BY <1>3, <1>4, <1>5
<1>7. \A i \in DOMAIN w : w[i].dir \in Seq(FolderNames) /\ \A x \in w[i].left : Entry(From(c), x)
  BY <1>2 DEF WalkTyped, w
<1>8. \A i \in DOMAIN v : v[i].dir \in Seq(FolderNames) /\ \A x \in v[i].left : Entry(From(c), x)
  BY <1>6, <1>7
<1>9. ASSUME walk[c].op = "delete" PROVE v[Len(v)].dir = From(c)
  <2>1. w[Len(w)].dir = From(c)
    BY <1>2, <1>9 DEF WalkTyped, w
  <2>2. Len(v) \in DOMAIN v /\ Len(v) = Len(w)
    BY <1>3, <1>5
  <2> QED BY <1>6, <2>1, <2>2
<1>10. /\ WalkTyped(c)' /\ Within(c)' = v
       /\ From(c)' = From(c) /\ To(c)' = To(c) /\ walk'[c].op = walk[c].op
       /\ Found(c)' = Found(c) /\ Kept(c)' = Kept(c)
  <2>1. v # << >>
    BY <1>3, <1>5
  <2>2. v \in Seq([dir : Seq(Components), left : SUBSET Seq(Components)])
    BY <1>5 DEF Frames
  <2> QED BY <1>1, <1>2, <1>8, <1>9, <2>1, <2>2, WalkGoesOn
<1>11. ASSUME NEW q, Pending(c, q) PROVE Pending(c, q)' \/ IsPrefix(e, q)
  <2>1. PICK i \in DOMAIN w : \E x \in w[i].left : IsPrefix(x, q)
    BY <1>11 DEF Pending, w
  <2>2. PICK x \in w[i].left : IsPrefix(x, q)
    BY <2>1
  <2>3. i \in DOMAIN v /\ (x \in v[i].left \/ x = e)
    BY <1>3, <1>4, <1>5, <2>2
  <2> QED BY <1>10, <2>2, <2>3 DEF Pending
<1> QED BY <1>10, <1>11

\* A listed file is copied.
LEMMA Copying ==
  ASSUME IInv, DiskAgrees, Disk!Remembered, NEW c \in Callers, NEW e, Disk!CopyEntry(c, e)
  PROVE  /\ files' \in Trees /\ DirsAgree'
         /\ walk'[c] = walk[c] \/ WalkAgrees(c)'
<1> DEFINE t == Disk!Target(c, e)
<1>1. /\ walk[c] # Idle /\ e \in Disk!Left(c) /\ e \in Present(files) /\ e \in Paths /\ walk[c].op = "copy"
      /\ t \in Paths /\ Front(t) \in dirs /\ files' = Disk!FsCopied(e, t) /\ Disk!Proceed(c, e) /\ dirs' = dirs
  BY SameOperators DEF Disk!CopyEntry, Disk!Walking, Present
<1>2. WalkAgrees(c) /\ WalkTyped(c)
  BY <1>1 DEF DiskAgrees, Disk!Walking, WalkAgrees
<1>3. IsPrefix(From(c), e) /\ t = Rebased(e, From(c), To(c)) /\ e \in Beneath(From(c)) /\ e \in Seq(Components)
  BY <1>1, <1>2, EntryIs DEF Beneath
<1>4. From(c) \in Folders /\ To(c) \in Folders
  BY <1>2, WalkParts
<1> HIDE DEF t
<1>5. /\ files' \in Trees /\ \A q \in Paths : q # t => files'[q] = files[q]
      /\ e # t => files'[t] = files[e]
  <2>1. files \in Trees
    BY DEF IInv
  <2> QED BY <1>1, <2>1 DEF Trees, Disk!FsCopied
<1>6. DirsAgree'
  BY <1>1, <1>5, PutKeeps
<1>7. ASSUME walk'[c] # walk[c] PROVE WalkAgrees(c)'
  <2>1. /\ WalkTyped(c)'
        /\ From(c)' = From(c) /\ To(c)' = To(c) /\ walk'[c].op = "copy"
        /\ Found(c)' = Found(c) /\ Kept(c)' = Kept(c)
        /\ \A q : Pending(c, q) => Pending(c, q)' \/ IsPrefix(e, q)
    BY <1>1, <1>7, Proceeding
  <2>2. CopyAgrees(c)'
    <3> SUFFICES ASSUME From(c) # To(c)
                 PROVE  /\ Relocated(Found(c), From(c), To(c)) \subseteq Paths
                        /\ \A q \in Beneath(From(c)) \cap Present(Found(c)) \cap Kept(c) :
                             Rebased(q, From(c), To(c)) \in Kept(c) =>
                               files'[Rebased(q, From(c), To(c))] = Found(c)[q] \/ Pending(c, q)'
                        /\ \A p \in Kept(c) :
                             (\A q \in Beneath(From(c)) :
                                Rebased(q, From(c), To(c)) = p => q \in Kept(c) /\ Found(c)[q] = NoFile)
                             => files'[p] = Found(c)[p]
      BY <2>1 DEF CopyAgrees
    <3>1. CopyAgrees(c) /\ Disjoint(From(c), To(c)) /\ Kept(c) \subseteq Paths
      BY <1>1, <1>2 DEF WalkAgrees, WalkTyped, Kept
    <3>2. e # t
      BY <1>3, <1>4, <3>1, SourcesApart
    <3>3. ASSUME NEW q \in Beneath(From(c)) \cap Present(Found(c)) \cap Kept(c), Rebased(q, From(c), To(c)) \in Kept(c)
          PROVE  files'[Rebased(q, From(c), To(c))] = Found(c)[q] \/ Pending(c, q)'
      <4>1. files[q] = Found(c)[q]
        BY <1>1, <1>2, SourceStands
      <4>2. q \in Paths /\ q \in Seq(Components) /\ IsPrefix(From(c), q)
        BY NamesAreComponents DEF Beneath
      <4>3. CASE q = e
        BY <1>3, <1>5, <3>2, <4>1, <4>3
      <4>4. CASE q # e
        <5>1. Rebased(q, From(c), To(c)) # t
          BY <1>3, <1>4, <4>2, <4>4, TargetsApart
        <5>2. ~IsPrefix(e, q)
          BY <1>1, <4>2, <4>4, FilesApart
        <5>3. files[Rebased(q, From(c), To(c))] = Found(c)[q] \/ Pending(c, q)
          BY <1>1, <3>1, <3>3 DEF CopyAgrees
        <5> QED BY <1>5, <2>1, <3>1, <3>3, <5>1, <5>2, <5>3
      <4> QED BY <4>3, <4>4
    <3>4. ASSUME NEW p \in Kept(c),
                 \A q \in Beneath(From(c)) :
                   Rebased(q, From(c), To(c)) = p => q \in Kept(c) /\ Found(c)[q] = NoFile
          PROVE  files'[p] = Found(c)[p]
      <4>1. files[p] = Found(c)[p]
        BY <1>1, <3>1, <3>4 DEF CopyAgrees
      <4>2. p # t
        <5> SUFFICES ASSUME p = t PROVE FALSE
          OBVIOUS
        <5>1. e \in Kept(c) /\ Found(c)[e] = NoFile
          BY <1>3, <3>4
        <5>2. files[e] = NoFile
          BY <1>1, <1>2, <1>3, <5>1, SourceStands
        <5> QED BY <1>1, <5>2 DEF Present
      <4> QED BY <1>5, <3>1, <4>1, <4>2
    <3> QED BY <1>1, <3>1, <3>3, <3>4 DEF CopyAgrees
  <2> QED BY <2>1, <2>2 DEF WalkAgrees, RemoveAgrees
<1> QED BY <1>5, <1>6, <1>7

\* A listed file is removed; one that is gone already is no error.
LEMMA Deleting ==
  ASSUME IInv, DiskAgrees, Disk!Remembered, NEW c \in Callers, NEW e, Disk!DeleteEntry(c, e)
  PROVE  /\ files' \in Trees /\ DirsAgree'
         /\ walk'[c] = walk[c] \/ WalkAgrees(c)'
<1>1. /\ walk[c] # Idle /\ e \in Disk!Left(c) /\ walk[c].op = "delete" /\ dirs' = dirs
      /\ files' = [p \in Paths |-> IF p = e THEN NoFile ELSE files[p]] /\ Disk!Proceed(c, e)
  BY DEF Disk!DeleteEntry, Disk!Walking
<1>2. WalkAgrees(c) /\ WalkTyped(c)
  BY <1>1 DEF DiskAgrees, Disk!Walking, WalkAgrees
<1>3. IsPrefix(From(c), e)
  BY <1>1, <1>2, EntryIs
<1>4. files' \in Trees /\ \A p \in Paths : files'[p] = IF p = e THEN NoFile ELSE files[p]
  BY <1>1 DEF IInv, Trees
<1>5. DirsAgree'
  <2>1. \A p \in Present(files') : p \in Present(files)
    BY <1>4 DEF Present
  <2> QED BY <1>1, <2>1, SameFolders DEF DiskAgrees
<1>6. ASSUME walk'[c] # walk[c] PROVE WalkAgrees(c)'
  <2>1. /\ WalkTyped(c)'
        /\ From(c)' = From(c) /\ To(c)' = To(c) /\ walk'[c].op = "delete"
        /\ Found(c)' = Found(c) /\ Kept(c)' = Kept(c)
    BY <1>1, <1>6, Proceeding
  <2>2. ASSUME NEW p \in Kept(c) PROVE files'[p] = Found(c)[p] \/ (p \in Beneath(From(c)) /\ files'[p] = NoFile)
    <3>1. p \in Paths /\ (files[p] = Found(c)[p] \/ (p \in Beneath(From(c)) /\ files[p] = NoFile))
      BY <1>1, <1>2 DEF WalkAgrees, RemoveAgrees, Kept
    <3> QED BY <1>3, <1>4, <3>1 DEF Beneath
  <2>3. RemoveAgrees(c)'
    BY <2>1, <2>2 DEF RemoveAgrees
  <2> QED BY <2>1, <2>3 DEF WalkAgrees, CopyAgrees
<1> QED BY <1>4, <1>5, <1>6

\* A folder is left: either the walk goes on in the one around it or it ends.
LEMMA Leaving ==
  ASSUME IInv, DiskAgrees, Disk!Remembered, NEW c \in Callers, Disk!Leave(c)
  PROVE  /\ files' \in Trees /\ DirsAgree'
         /\ walk'[c] \in {walk[c], Idle} \/ WalkAgrees(c)'
<1> DEFINE w == Within(c)
           v == Tail(w)
           Frames == [dir : Seq(Components), left : SUBSET Seq(Components)]
<1>1. /\ walk[c] # Idle /\ Disk!Left(c) = {} /\ files' = files
      /\ walk'[c] = IF Len(w) = 1 THEN Idle ELSE [walk[c] EXCEPT !.within = v]
      /\ walk[c].op = "copy" => dirs' = dirs
      /\ walk[c].op # "copy" => Disk!read_dir(Head(w).dir) = {} /\ dirs' = dirs \ {Head(w).dir}
  BY DEF Disk!Leave, Disk!Walking, Within, DiskAgrees
<1>2. WalkAgrees(c) /\ WalkTyped(c)
  BY <1>1 DEF DiskAgrees, Disk!Walking, WalkAgrees
<1>3. /\ w \in Seq(Frames) /\ Len(w) \in Nat \ {0} /\ DOMAIN w = 1..Len(w)
      /\ Disk!Left(c) = w[1].left /\ Head(w) = w[1]
  BY <1>2, WalkParts
<1>4. \A i \in DOMAIN w : w[i].dir \in Seq(FolderNames) /\ \A x \in w[i].left : Entry(From(c), x)
  BY <1>2 DEF WalkTyped
<1>5. DirsAgree'
  <2>1. CASE walk[c].op = "copy"
    <3>1. \A p \in Present(files') : p \in Present(files)
      BY <1>1 DEF Present
    <3> QED BY <1>1, <2>1, <3>1, SameFolders DEF DiskAgrees
  <2>2. CASE walk[c].op # "copy"
    <3>1. Head(w).dir \in Seq(FolderNames)
      <4>1. 1 \in DOMAIN w
        BY <1>3
      <4> QED BY <1>3, <1>4, <4>1
    <3> QED BY <1>1, <2>2, <3>1, Removing DEF DiskAgrees
  <2> QED BY <2>1, <2>2
<1> HIDE DEF w, Frames
<1>6. ASSUME walk'[c] # walk[c], walk'[c] # Idle PROVE WalkAgrees(c)'
  <2>1. walk'[c] = [walk[c] EXCEPT !.within = v] /\ Len(w) # 1 /\ Len(w) # 0
    BY <1>1, <1>3, <1>6
  <2>2. /\ v \in Seq(Frames) /\ Len(v) = Len(w) - 1
        /\ \A i \in 1..(Len(w) - 1) : v[i] = w[i + 1]
    BY <1>3, <2>1
  <2>3. DOMAIN v = 1..(Len(w) - 1) /\ v # << >> /\ Len(v) # 0
    <3> HIDE DEF v
    <3>1. DOMAIN v = 1..Len(v)
      BY <2>2
    <3> QED BY <1>3, <2>1, <2>2, <3>1
  <2> HIDE DEF v
  <2>4. \A i \in DOMAIN v : i + 1 \in DOMAIN w /\ v[i] = w[i + 1]
    BY <1>3, <2>2, <2>3
  <2>5. \A i \in DOMAIN v : v[i].dir \in Seq(FolderNames) /\ \A x \in v[i].left : Entry(From(c), x)
    BY <1>4, <2>4
  <2>6. ASSUME walk[c].op = "delete" PROVE v[Len(v)].dir = From(c)
    <3>1. w[Len(w)].dir = From(c)
      BY <1>2, <2>6 DEF WalkTyped, w
    <3>2. Len(v) \in DOMAIN v /\ Len(v) + 1 = Len(w)
      BY <1>3, <2>2, <2>3
    <3> QED BY <2>4, <3>1, <3>2
  <2>7. /\ WalkTyped(c)' /\ Within(c)' = v
        /\ From(c)' = From(c) /\ To(c)' = To(c) /\ walk'[c].op = walk[c].op
        /\ Found(c)' = Found(c) /\ Kept(c)' = Kept(c)
    <3>1. v \in Seq([dir : Seq(Components), left : SUBSET Seq(Components)])
      BY <2>2 DEF Frames
    <3> QED BY <1>1, <1>2, <1>6, <2>1, <2>3, <2>5, <2>6, <3>1, WalkGoesOn
  <2>8. ASSUME NEW q, Pending(c, q) PROVE Pending(c, q)'
    <3>1. PICK i \in DOMAIN w : \E x \in w[i].left : IsPrefix(x, q)
      BY <2>8 DEF Pending, w
    <3>2. i # 1
      BY <1>1, <1>3, <3>1
    <3>3. i - 1 \in DOMAIN v /\ i - 1 + 1 = i
      BY <1>3, <2>3, <3>2
    <3>4. v[i - 1] = w[i]
      BY <2>4, <3>3
    <3> QED BY <2>7, <3>1, <3>3, <3>4 DEF Pending
  <2>9. CopyAgrees(c)'
    BY <1>1, <1>2, <2>7, <2>8 DEF WalkAgrees, CopyAgrees
  <2>10. RemoveAgrees(c)'
    BY <1>1, <1>2, <2>7 DEF WalkAgrees, RemoveAgrees
  <2> QED BY <2>7, <2>9, <2>10 DEF WalkAgrees
<1> QED BY <1>1, <1>5, <1>6 DEF IInv

LEMMA Failing ==
  ASSUME IInv, DiskAgrees, NEW c \in Callers, Disk!Fail(c)
  PROVE  /\ files' \in Trees /\ DirsAgree' /\ walk'[c] = Idle
<1>1. walk'[c] = Idle /\ dirs' = dirs
  BY DEF Disk!Fail, DiskAgrees
<1>2. CASE files' = files
  <2>1. \A p \in Present(files') : p \in Present(files)
    BY <1>2 DEF Present
  <2> QED BY <1>1, <1>2, <2>1, SameFolders DEF IInv, DiskAgrees
<1>3. ASSUME NEW t \in Paths, Front(t) \in dirs, files' = [files EXCEPT ![t] = Torn]
      PROVE  files' \in Trees /\ DirsAgree'
  <2>1. files' \in Trees /\ \A q \in Paths : q # t => files'[q] = files[q]
    BY <1>3 DEF IInv, Trees
  <2> QED BY <1>1, <1>3, <2>1, PutKeeps
<1>4. \/ files' = files
      \/ \E t \in Paths : Front(t) \in dirs /\ files' = [files EXCEPT ![t] = Torn]
  BY SameOperators DEF Disk!Fail
<1> QED BY <1>1, <1>2, <1>3, <1>4

\* A call to copy or to remove a folder.
LEMMA Starting ==
  ASSUME IInv, DiskAgrees, Disk!Remembered, NEW c \in Callers, NEW from \in Folders, NEW to \in Folders,
         Disk!copy_folder(c, from, to) \/ Disk!delete_folder(c, from)
  PROVE  /\ files' \in Trees /\ DirsAgree' /\ DOMAIN walk' = Callers
         /\ \A d \in Callers \ {c} : walk'[d] = walk[d]
         /\ walk'[c] = walk[c] \/ WalkAgrees(c)'
<1>1. Idle \notin Disk!Walks
  BY IdleAssumption
<1>2. CASE Disk!copy_folder(c, from, to)
  <2>1. /\ walk[c] = Idle /\ files' = files /\ dirs' = dirs \cup Disk!Upto(to)
        /\ from = to \/ Disjoint(from, to)
        /\ Relocated(files, from, to) \subseteq Paths
        /\ \/ walk' = walk
           \/ walk' = [walk EXCEPT ![c] = [op |-> "copy", from |-> from, to |-> to,
                                           within |-> <<Disk!Folder(from)>>]]
    BY <1>2, SameOperators DEF Disk!copy_folder
  <2>2. files' \in Trees /\ DirsAgree'
    BY <2>1, CreateKeeps, NamesAreComponents
  <2>3. CASE walk' = walk
    BY <2>2, <2>3 DEF DiskAgrees
  <2>4. CASE walk' = [walk EXCEPT ![c] = [op |-> "copy", from |-> from, to |-> to,
                                          within |-> <<Disk!Folder(from)>>]]
    <3>1. DOMAIN walk' = Callers /\ \A d \in Callers \ {c} : walk'[d] = walk[d]
      BY <2>4 DEF DiskAgrees
    <3>2. walk'[c] = [op |-> "copy", from |-> from, to |-> to, within |-> <<Disk!Folder(from)>>]
      BY <2>4 DEF DiskAgrees
    <3>3. CASE walk'[c] = Idle
      BY <2>1, <2>2, <3>1, <3>3
    <3>4. CASE walk'[c] # Idle
      <4> DEFINE op == "copy"
      <4>1. /\ op \in {"copy", "delete"}
            /\ walk'[c] = [op |-> op, from |-> from, to |-> to, within |-> <<Disk!Folder(from)>>]
            /\ op = "copy" => /\ from = to \/ Disjoint(from, to)
                              /\ Relocated(files, from, to) \subseteq Paths
        BY <2>1, <3>2
      <4> HIDE DEF op
      <4>2. WalkAgrees(c)'
        BY <2>1, <3>4, <4>1, WalkBegins
      <4> QED BY <2>2, <3>1, <4>2
    <3> QED BY <3>3, <3>4
  <2> QED BY <2>1, <2>3, <2>4
<1>3. CASE Disk!delete_folder(c, from)
  <2>1. /\ walk[c] = Idle /\ files' = files /\ dirs' = dirs
        /\ walk' = [walk EXCEPT ![c] = [op |-> "delete", from |-> from, to |-> from,
                                        within |-> <<Disk!Folder(from)>>]]
    BY <1>3 DEF Disk!delete_folder
  <2>2. files' \in Trees /\ DirsAgree'
    <3>1. \A p \in Present(files') : p \in Present(files)
      BY <2>1 DEF Present
    <3> QED BY <2>1, <3>1, SameFolders DEF IInv, DiskAgrees
  <2>3. DOMAIN walk' = Callers /\ \A d \in Callers \ {c} : walk'[d] = walk[d]
    BY <2>1 DEF DiskAgrees
  <2>4. walk'[c] = [op |-> "delete", from |-> from, to |-> from, within |-> <<Disk!Folder(from)>>]
    BY <2>1 DEF DiskAgrees
  <2>5. CASE walk'[c] = Idle
    BY <2>1, <2>2, <2>3, <2>5
  <2>6. CASE walk'[c] # Idle
    <3> DEFINE op == "delete"
    <3>1. /\ op \in {"copy", "delete"} /\ op # "copy"
          /\ walk'[c] = [op |-> op, from |-> from, to |-> from, within |-> <<Disk!Folder(from)>>]
      BY <2>4
    <3> HIDE DEF op
    <3>2. WalkAgrees(c)'
      BY <2>1, <2>6, <3>1, WalkBegins
    <3> QED BY <2>2, <2>3, <3>2
  <2> QED BY <2>5, <2>6
<1> QED BY <1>2, <1>3

LEMMA DiskStep ==
  ASSUME IInv, DiskAgrees, Disk!Next
  PROVE  files' \in Trees /\ DiskAgrees'
<1> DEFINE Settled == /\ files' \in Trees /\ DirsAgree' /\ DOMAIN walk' = Callers
                      /\ \A d \in Callers : walk'[d] \in {walk[d], Idle} \/ WalkAgrees(d)'
           Steady == files' \in Trees /\ DirsAgree' /\ walk' = walk
           Own(c) == /\ files' \in Trees /\ DirsAgree' /\ DOMAIN walk' = Callers
                     /\ \A d \in Callers \ {c} : walk'[d] = walk[d]
                     /\ walk'[c] \in {walk[c], Idle} \/ WalkAgrees(c)'
<1>1. Disk!Remembered
  BY DEF Disk!Next
<1>2. DOMAIN walk = Callers
  BY DEF DiskAgrees
<1>3. Steady => Settled
  BY <1>2
<1>4. \A c \in Callers : Own(c) => Settled
  OBVIOUS
<1>5. Settled => files' \in Trees /\ DiskAgrees'
  <2> SUFFICES ASSUME Settled PROVE DiskAgrees'
    OBVIOUS
  <2>1. ASSUME NEW d \in Callers, walk'[d] # Idle PROVE WalkAgrees(d)'
    <3>1. CASE walk'[d] = walk[d]
      BY <1>1, <2>1, <3>1, WalkWaits
    <3> QED BY <2>1, <3>1
  <2> QED BY <2>1 DEF DiskAgrees, Disk!Walking
<1>6. ASSUME NEW p \in Paths, Disk!delete_file(p) PROVE Steady
  BY <1>6, DeleteKeeps DEF Disk!delete_file
<1>7. ASSUME NEW p \in Paths, NEW data \in Contents, Disk!write_file(p, data) PROVE Steady
  BY <1>7, WriteKeeps DEF Disk!write_file
<1>8. ASSUME NEW from \in Paths, NEW to \in Paths, Disk!move_file(from, to) PROVE Steady
  BY <1>8, MoveKeeps DEF Disk!move_file
<1>9. ASSUME NEW from \in Paths, NEW to \in Paths, Disk!copy_file(from, to) PROVE Steady
  BY <1>9, CopyKeeps DEF Disk!copy_file
<1>10. ASSUME NEW f \in Folders, Disk!create_folder(f) PROVE Steady
  BY <1>10, CreateKeeps, NamesAreComponents DEF Disk!create_folder
<1>11. ASSUME NEW from \in Folders, NEW to \in Folders, Disk!move_folder(from, to) PROVE Steady
  BY <1>11, RenameKeeps DEF Disk!move_folder
<1>12. ASSUME NEW c \in Callers, NEW f \in Folders, Disk!delete_folder(c, f) PROVE Own(c)
  BY <1>1, <1>12, Starting
<1>13. ASSUME NEW c \in Callers, NEW from \in Folders, NEW to \in Folders, Disk!copy_folder(c, from, to) PROVE Own(c)
  BY <1>1, <1>13, Starting
<1>14. ASSUME NEW c \in Callers, NEW e, Disk!Enter(c, e) PROVE Own(c)
  <2>1. DOMAIN walk' = Callers /\ \A d \in Callers \ {c} : walk'[d] = walk[d]
    BY <1>2, <1>14 DEF Disk!Enter
  <2>2. files' \in Trees /\ DirsAgree'
    <3>1. files' = files /\ (dirs' = dirs \/ (walk[c] # Idle /\ e \in Disk!Left(c) /\ e \in dirs
                                              /\ dirs' = dirs \cup Disk!Upto(Disk!Target(c, e))))
      BY <1>14 DEF Disk!Enter, Disk!Walking
    <3>2. CASE dirs' = dirs
      <4>1. \A p \in Present(files') : p \in Present(files)
        BY <3>1 DEF Present
      <4> QED BY <3>1, <3>2, <4>1, SameFolders DEF IInv, DiskAgrees
    <3>3. CASE walk[c] # Idle /\ e \in Disk!Left(c) /\ e \in dirs /\ dirs' = dirs \cup Disk!Upto(Disk!Target(c, e))
      <4>1. WalkTyped(c)
        BY <3>3 DEF DiskAgrees, Disk!Walking, WalkAgrees
      <4>2. Disk!Target(c, e) \in Seq(FolderNames)
        BY <3>3, <4>1, EntryIs DEF DiskAgrees, DirsAgree
      <4> QED BY <3>1, <3>3, <4>2, CreateKeeps
    <3> QED BY <3>1, <3>2, <3>3
  <2> QED BY <1>1, <1>14, <2>1, <2>2, Entering
<1>15. ASSUME NEW c \in Callers, NEW e, Disk!CopyEntry(c, e) PROVE Own(c)
  <2>1. DOMAIN walk' = Callers /\ \A d \in Callers \ {c} : walk'[d] = walk[d]
    BY <1>2, <1>15 DEF Disk!CopyEntry, Disk!Proceed
  <2> QED BY <1>1, <1>15, <2>1, Copying
<1>16. ASSUME NEW c \in Callers, NEW e, Disk!DeleteEntry(c, e) PROVE Own(c)
  <2>1. DOMAIN walk' = Callers /\ \A d \in Callers \ {c} : walk'[d] = walk[d]
    BY <1>2, <1>16 DEF Disk!DeleteEntry, Disk!Proceed
  <2> QED BY <1>1, <1>16, <2>1, Deleting
<1>17. ASSUME NEW c \in Callers, Disk!Leave(c) PROVE Own(c)
  <2>1. DOMAIN walk' = Callers /\ \A d \in Callers \ {c} : walk'[d] = walk[d]
    BY <1>2, <1>17 DEF Disk!Leave
  <2> QED BY <1>1, <1>17, <2>1, Leaving
<1>18. ASSUME NEW c \in Callers, Disk!Fail(c) PROVE Own(c)
  <2>1. DOMAIN walk' = Callers /\ \A d \in Callers \ {c} : walk'[d] = walk[d]
    BY <1>2, <1>18 DEF Disk!Fail
  <2> QED BY <1>18, <2>1, Failing
<1> HIDE DEF Settled, Steady, Own
<1>19. Settled
  BY <1>3, <1>4, <1>6, <1>7, <1>8, <1>9, <1>10, <1>11, <1>12, <1>13, <1>14, <1>15, <1>16, <1>17, <1>18
     DEF Disk!Next
<1> QED BY <1>5, <1>19

-----------------------------------------------------------------------------
(* A walk that returns has done what it is for.                            *)

LEMMA MeansTheSame ==
  /\ \A tree, f, t : Disk!FolderCopied(tree, f, t) = FolderCopied(tree, f, t)
  /\ \A tree, gone : Disk!Without(tree, gone) = Without(tree, gone)
<1>1. \A tree, f, t : Disk!FolderCopied(tree, f, t) = FolderCopied(tree, f, t)
  BY SameOperators DEF FolderCopied, Disk!FolderCopied
<1>2. \A tree, gone : Disk!Without(tree, gone) = Without(tree, gone)
  BY DEF Without, Disk!Without
<1> QED BY <1>1, <1>2

\* It ends when it leaves the folder it began with, and has come to every entry.
LEMMA ReturnsEmpty ==
  ASSUME NEW c \in Callers, walk[c] # Idle, WalkTyped(c), DOMAIN walk = Callers, Disk!Returns(c)
  PROVE  /\ Len(Within(c)) = 1 /\ \A q : ~Pending(c, q)
         /\ walk[c].op = "delete" => Disk!read_dir(From(c)) = {}
<1> DEFINE w == Within(c)
           v == Tail(w)
           Frames == [dir : Seq(Components), left : SUBSET Seq(Components)]
<1>1. /\ Disk!Left(c) = {} /\ walk'[c] = Idle
      /\ walk'[c] = IF Len(w) = 1 THEN Idle ELSE [walk[c] EXCEPT !.within = v]
      /\ walk[c].op = "delete" => Disk!read_dir(Head(w).dir) = {}
  BY DEF Disk!Returns, Disk!Leave, Within
<1>2. /\ w \in Seq(Frames) /\ Len(w) \in Nat \ {0} /\ DOMAIN w = 1..Len(w)
      /\ Disk!Left(c) = w[1].left /\ Head(w) = w[1]
      /\ walk[c] = [op |-> walk[c].op, from |-> From(c), to |-> To(c), within |-> w]
      /\ From(c) \in Folders /\ To(c) \in Folders /\ walk[c].op \in {"copy", "delete"}
  BY WalkParts
<1> HIDE DEF w, Frames
<1>3. Len(w) = 1
  <2> SUFFICES ASSUME Len(w) # 1 PROVE FALSE
    OBVIOUS
  <2>1. v \in Seq(Frames)
    BY <1>2
  <2> HIDE DEF v
  <2>2. PICK o, f, t, x : walk[c] = [op |-> o, from |-> f, to |-> t, within |-> x]
    BY <1>2
  <2>3. o \in {"copy", "delete"} /\ f \in Folders /\ t \in Folders
    BY <1>2, <2>2 DEF From, To
  <2>4. Idle = [op |-> o, from |-> f, to |-> t, within |-> v]
    BY <1>1, <2>2
  <2>5. Idle \in Disk!Walks
    BY <2>1, <2>3, <2>4, WalksAre DEF Frames
  <2> QED BY <2>5, IdleAssumption
<1>4. \A q : ~Pending(c, q)
  BY <1>1, <1>2, <1>3 DEF Pending, w
<1>5. ASSUME walk[c].op = "delete" PROVE Disk!read_dir(From(c)) = {}
  <2>1. Head(w).dir = From(c)
    BY <1>2, <1>3, <1>5 DEF WalkTyped, w
  <2> QED BY <1>1, <1>5, <2>1
<1> QED BY <1>3, <1>4, <1>5 DEF w

LEMMA WalksDone ==
  ASSUME IInv, DiskAgrees
  PROVE  WalksAll
<1> SUFFICES ASSUME NEW c \in Callers, Disk!Returns(c), ~(walk[c].op = "copy" /\ From(c) = To(c)),
                    NEW p \in Paths, Disk!Untouched(c, p)
             PROVE  files[p] = Disk!Meant(c)[p]
  BY DEF WalksAll, From, To
<1>1. walk[c] # Idle /\ DOMAIN walk = Callers
  BY DEF Disk!Returns, Disk!Leave, Disk!Walking, DiskAgrees
<1>2. WalkAgrees(c) /\ WalkTyped(c)
  BY <1>1 DEF DiskAgrees, Disk!Walking, WalkAgrees
<1>3. /\ \A q : ~Pending(c, q)
      /\ walk[c].op = "delete" => Disk!read_dir(From(c)) = {}
  BY <1>1, <1>2, ReturnsEmpty
<1>4. /\ From(c) \in Folders /\ To(c) \in Folders /\ walk[c].op \in {"copy", "delete"}
      /\ From(c) \in Seq(Components) /\ To(c) \in Seq(Components)
  BY <1>2, WalkParts
<1>5. /\ p \in Kept(c)
      /\ \A q \in Beneath(From(c)) : Rebased(q, From(c), To(c)) = p => q \in Kept(c)
  <2>1. {p} \cup {q \in Beneath(From(c)) : Rebased(q, From(c), To(c)) = p} \subseteq Kept(c)
    BY SameOperators DEF Disk!Untouched, Disk!Target, From, To, Kept
  <2> QED BY <2>1
<1>6. CASE walk[c].op = "copy"
  <2>1. Disk!Meant(c)[p] = IF p \in Relocated(Found(c), From(c), To(c))
                           THEN Found(c)[Rebased(p, To(c), From(c))] ELSE Found(c)[p]
    BY <1>6, MeansTheSame DEF Disk!Meant, FolderCopied, Found, From, To
  <2>2. From(c) # To(c) /\ CopyAgrees(c)
    BY <1>2, <1>6 DEF WalkAgrees
  <2>3. ASSUME p \in Relocated(Found(c), From(c), To(c)) PROVE files[p] = Found(c)[Rebased(p, To(c), From(c))]
    <3>1. PICK q \in Beneath(From(c)) \cap Present(Found(c)) : p = Rebased(q, From(c), To(c))
      BY <2>3 DEF Relocated
    <3>2. q \in Seq(Components) /\ IsPrefix(From(c), q)
      BY NamesAreComponents DEF Beneath
    <3>3. Rebased(p, To(c), From(c)) = q
      BY <1>4, <3>1, <3>2, RebasedBack
    <3>4. q \in Kept(c)
      BY <1>5, <3>1
    <3>5. files[p] = Found(c)[q]
      BY <1>3, <1>5, <1>6, <2>2, <3>1, <3>4 DEF CopyAgrees
    <3> QED BY <3>3, <3>5
  <2>4. ASSUME p \notin Relocated(Found(c), From(c), To(c)) PROVE files[p] = Found(c)[p]
    <3>1. ASSUME NEW q \in Beneath(From(c)), Rebased(q, From(c), To(c)) = p
          PROVE  q \in Kept(c) /\ Found(c)[q] = NoFile
      <4>1. q \notin Present(Found(c))
        BY <2>4, <3>1 DEF Relocated
      <4> QED BY <1>5, <3>1, <4>1 DEF Present, Beneath
    <3> QED BY <1>5, <1>6, <2>2, <3>1 DEF CopyAgrees
  <2> QED BY <2>1, <2>3, <2>4
<1>7. CASE walk[c].op = "delete"
  <2>1. Disk!Meant(c)[p] = IF p \in Beneath(From(c)) THEN NoFile ELSE Found(c)[p]
    BY <1>7, MeansTheSame, SameOperators DEF Disk!Meant, Without, Found, From
  <2>2. files[p] = Found(c)[p] \/ (p \in Beneath(From(c)) /\ files[p] = NoFile)
    BY <1>2, <1>5, <1>7 DEF WalkAgrees, RemoveAgrees
  <2>3. p \in Beneath(From(c)) => files[p] = NoFile
    <3>1. Beneath(From(c)) \cap Present(files) = {}
      BY <1>3, <1>4, <1>7, NamesAreComponents, Emptied DEF DiskAgrees
    <3> QED BY <3>1 DEF Present
  <2> QED BY <2>1, <2>2, <2>3
<1> QED BY <1>4, <1>6, <1>7

-----------------------------------------------------------------------------
(* The loops of the flat stores.                                           *)

\* Two sequences of tables that begin alike and go on alike are the same.
LEMMA StepByStep ==
  ASSUME NEW N \in Nat, NEW s, NEW t, s[0] = t[0],
         \A n \in 1..N : s[n - 1] = t[n - 1] => s[n] = t[n]
  PROVE  s[N] = t[N]
<1> DEFINE R == {m \in 0..N : s[m] # t[m]}
<1> SUFFICES ASSUME R # {} PROVE FALSE
  OBVIOUS
<1>1. IsWellFoundedOn(OpToRel(<, Nat), Nat)
  BY NatLessThanWellFounded
<1>2. PICK n \in R : \A m \in R : ~(<<m, n>> \in OpToRel(<, Nat))
  <2>1. R \subseteq Nat
    OBVIOUS
  <2> HIDE DEF R
  <2> QED BY <1>1, <2>1, WFMin
<1>3. n \in 1..N /\ n - 1 \in 0..N /\ s[n] # t[n]
  OBVIOUS
<1>4. s[n - 1] = t[n - 1]
  <2> SUFFICES ASSUME s[n - 1] # t[n - 1] PROVE FALSE
    OBVIOUS
  <2>1. n - 1 \in R /\ n - 1 \in Nat /\ n \in Nat /\ n - 1 < n
    BY <1>3
  <2>2. <<n - 1, n>> \in OpToRel(<, Nat)
    BY <2>1 DEF OpToRel
  <2> QED BY <1>2, <2>1, <2>2
<1> QED BY <1>3, <1>4

LEMMA PathsFinite == IsFiniteSet(Paths)
<1> DEFINE N == Len(KeyOrder)
<1>1. KeyOrder \in Seq(Paths) /\ ToSet(KeyOrder) = Paths /\ N \in Nat /\ DOMAIN KeyOrder = 1..N
  BY ConstantsAssumption
<1>2. KeyOrder \in Surjection(1..N, Paths)
  BY <1>1 DEF Surjection, ToSet
<1>3. IsFiniteSet(1..N)
  BY <1>1, FS_Interval
<1> HIDE DEF N
<1> QED BY <1>2, <1>3, FS_Surjection

\* A loop comes to each of the keys once.
LEMMA OrderIs ==
  ASSUME NEW keys \in SUBSET Paths, NEW order \in Orders(keys)
  PROVE  /\ Len(order) \in Nat /\ DOMAIN order = 1..Len(order)
         /\ \A i \in 1..Len(order) : order[i] \in keys
         /\ \A i, j \in 1..Len(order) : i # j => order[i] # order[j]
         /\ \A q \in keys : \E i \in 1..Len(order) : order[i] = q
<1> DEFINE N == Cardinality(keys)
           D == 1..N
<1>1. IsFiniteSet(keys) /\ N \in Nat
  BY PathsFinite, FS_Subset, FS_CardinalityType
<1>2. order \in [D -> keys] /\ \A i, j \in D : i # j => order[i] # order[j]
  BY DEF Orders, SetToSeqs
<1>3. IsFiniteSet(D) /\ Cardinality(D) = N
  <2>1. 1 \in Int /\ N \in Int /\ Cardinality(1..N) = IF 1 > N THEN 0 ELSE N - 1 + 1
    BY <1>1, FS_Interval
  <2> QED BY <1>1, <2>1, FS_Interval
<1> HIDE DEF N
<1>4. order \in Injection(D, keys)
  BY <1>2 DEF Injection, IsInjective
<1>5. order \in Surjection(D, keys)
  <2> HIDE DEF D
  <2> QED BY <1>1, <1>3, <1>4, FS_Injection DEF N
<1>6. order \in Seq(keys) /\ Len(order) = N /\ DOMAIN order = 1..N
  BY <1>1, <1>2
<1>7. \A q \in keys : \E i \in 1..N : order[i] = q
  BY <1>5 DEF Surjection
<1> QED BY <1>1, <1>2, <1>6, <1>7

LEMMA RebasedSame ==
  ASSUME NEW S, NEW from \in Seq(S), NEW q \in Seq(S), IsPrefix(from, q)
  PROVE  Rebased(q, from, from) = q
<1> DEFINE p == Rebased(q, from, from)
<1>1. /\ Len(from) \in Nat /\ Len(q) \in Nat /\ Len(from) <= Len(q)
      /\ \A i \in 1..Len(from) : from[i] = q[i]
  BY PrefixByPlace
<1>2. /\ p \in Seq(S) /\ Len(p) = Len(from) + Len(q) - Len(from)
      /\ \A i \in 1..Len(p) : p[i] = IF i <= Len(from) THEN from[i] ELSE q[i - Len(from) + Len(from)]
  BY RebasedIs
<1> HIDE DEF p
<1>3. Len(p) = Len(q)
  BY <1>1, <1>2
<1>4. ASSUME NEW i \in 1..Len(q) PROVE p[i] = q[i]
  <2>1. i - Len(from) + Len(from) = i /\ (i <= Len(from) => i \in 1..Len(from))
    BY <1>1
  <2> QED BY <1>1, <1>2, <1>3, <2>1
<1>5. p = q
  BY <1>2, <1>3, <1>4, SeqEqual
<1> QED BY <1>5 DEF p

\* What a loop from one folder to another goes through, and where it puts it.
LEMMA KeysAre ==
  ASSUME files \in Trees, NEW from \in Folders, NEW to \in Folders, from = to \/ Disjoint(from, to),
         Relocated(files, from, to) \subseteq Paths
  PROVE  LET keys == matching_keys(from)
         IN /\ keys \in SUBSET Paths /\ \A q \in keys : files[q] # NoFile
            /\ \A q \in keys : Rebased(q, from, to) \in Paths /\ Rebased(Rebased(q, from, to), to, from) = q
            /\ \A q, r \in keys : Rebased(r, from, to) = q => r = q /\ from = to /\ Rebased(q, to, from) = q
            /\ Relocated(files, from, to) = {Rebased(q, from, to) : q \in keys}
            /\ \A p \in Beneath(from) \ keys : files[p] = NoFile
<1> DEFINE keys == matching_keys(from)
<1>1. /\ keys \in SUBSET Paths /\ \A q \in keys : files[q] # NoFile
      /\ \A p \in Beneath(from) \ keys : files[p] = NoFile
      /\ Relocated(files, from, to) = {Rebased(q, from, to) : q \in keys}
  BY DEF matching_keys, Present, Beneath, Relocated
<1>2. from \in Seq(Components) /\ to \in Seq(Components)
  BY NamesAreComponents
<1>3. \A q \in keys : q \in Seq(Components) /\ IsPrefix(from, q)
  BY NamesAreComponents DEF matching_keys, Beneath
<1> HIDE DEF keys
<1>4. ASSUME NEW q \in keys
      PROVE  Rebased(q, from, to) \in Paths /\ Rebased(Rebased(q, from, to), to, from) = q
  <2>1. Rebased(q, from, to) \in Relocated(files, from, to)
    BY <1>1
  <2>2. q \in Seq(Components) /\ IsPrefix(from, q)
    BY <1>3
  <2> QED BY <1>2, <2>1, <2>2, RebasedBack
<1>5. ASSUME NEW q \in keys, NEW r \in keys, Rebased(r, from, to) = q
      PROVE  r = q /\ from = to /\ Rebased(q, to, from) = q
  <2>1. q \in Seq(Components) /\ IsPrefix(from, q) /\ r \in Seq(Components) /\ IsPrefix(from, r)
    BY <1>3
  <2>2. from = to
    BY <1>5, <2>1, SourcesApart
  <2>3. Rebased(r, from, from) = r /\ Rebased(q, from, from) = q
    BY <1>2, <2>1, RebasedSame
  <2> QED BY <1>5, <2>2, <2>3
<1> QED BY <1>1, <1>4, <1>5 DEF keys

LEMMA CopyLoop ==
  ASSUME files \in Trees, NEW from \in Folders, NEW to \in Folders, from = to \/ Disjoint(from, to),
         Relocated(files, from, to) \subseteq Paths, NEW order \in Orders(matching_keys(from))
  PROVE  Loop(LAMBDA table, key : copy_key(table, key, from, to), order) = FolderCopied(files, from, to)
<1> DEFINE keys == matching_keys(from)
           N == Len(order)
           done(n, p) == \E i \in 1..n : p = Rebased(order[i], from, to)
           After(n) == [p \in Paths |-> IF done(n, p) THEN files[Rebased(p, to, from)] ELSE files[p]]
           s == [n \in 0..N |-> After(n)]
           Round(t) == [n \in 0..N |-> IF n = 0 THEN files ELSE copy_key(t[n - 1], order[n], from, to)]
           t == CHOOSE u : u = Round(u)
<1>1. /\ keys \in SUBSET Paths /\ \A q \in keys : files[q] # NoFile
      /\ \A q \in keys : Rebased(q, from, to) \in Paths /\ Rebased(Rebased(q, from, to), to, from) = q
      /\ \A q, r \in keys : Rebased(r, from, to) = q => r = q /\ from = to /\ Rebased(q, to, from) = q
      /\ Relocated(files, from, to) = {Rebased(q, from, to) : q \in keys}
  BY KeysAre
<1>2. /\ N \in Nat
      /\ \A i \in 1..N : order[i] \in keys
      /\ \A q \in keys : \E i \in 1..N : order[i] = q
  BY <1>1, OrderIs
<1> SUFFICES t[N] = FolderCopied(files, from, to)
  BY DEF Loop
<1> HIDE DEF keys, N
<1>4. ASSUME NEW n \in 1..N PROVE After(n) = copy_key(After(n - 1), order[n], from, to)
  <2> DEFINE key == order[n]
             new == Rebased(key, from, to)
  <2>1. key \in keys /\ key \in Paths /\ new \in Paths /\ files[key] # NoFile
    BY <1>1, <1>2
  <2>2. After(n - 1)[key] = files[key]
    <3>1. CASE done(n - 1, key)
      <4>1. PICK i \in 1..(n - 1) : key = Rebased(order[i], from, to)
        BY <3>1
      <4>2. order[i] \in keys
        BY <1>2
      <4>3. Rebased(key, to, from) = key
        BY <1>1, <2>1, <4>1, <4>2
      <4> QED BY <2>1, <3>1, <4>3
    <3>2. CASE ~done(n - 1, key)
      BY <2>1, <3>2
    <3> QED BY <3>1, <3>2
  <2>3. copy_key(After(n - 1), key, from, to) = [After(n - 1) EXCEPT ![new] = files[key]]
    BY <2>1, <2>2 DEF copy_key, swap_prefix
  <2>4. \A p : done(n, p) <=> done(n - 1, p) \/ p = new
    <3>1. 1..n = (1..(n - 1)) \cup {n}
      BY <1>2
    <3> QED BY <3>1
  <2>5. ASSUME NEW p \in Paths PROVE After(n)[p] = [After(n - 1) EXCEPT ![new] = files[key]][p]
    <3> HIDE DEF done, new, key
    <3>1. CASE p = new
      <4>1. After(n)[p] = files[Rebased(p, to, from)]
        BY <2>4, <3>1
      <4>2. Rebased(p, to, from) = key
        BY <1>1, <2>1, <3>1 DEF new
      <4> QED BY <3>1, <4>1, <4>2
    <3>2. CASE p # new
      BY <2>4, <3>2
    <3> QED BY <3>1, <3>2
  <2>6. After(n) = [After(n - 1) EXCEPT ![new] = files[key]]
    <3> HIDE DEF done, new, key
    <3> QED BY <2>5
  <2> QED BY <2>3, <2>6
<1>5. After(0) = files
  <2>1. \A p : ~done(0, p)
    OBVIOUS
  <2> HIDE DEF done
  <2> QED BY <2>1 DEF Trees
<1> HIDE DEF After
<1>6. s = Round(s)
  BY <1>2, <1>4, <1>5
<1> HIDE DEF s
<1>7. t = Round(t)
  BY <1>6
<1> HIDE DEF t
<1>8. s[N] = t[N]
  <2>1. s[0] = t[0]
    BY <1>2, <1>6, <1>7
  <2>2. ASSUME NEW n \in 1..N, s[n - 1] = t[n - 1] PROVE s[n] = t[n]
    <3>1. n \in 0..N /\ n # 0
      BY <1>2
    <3>2. s[n] = Round(s)[n] /\ t[n] = Round(t)[n]
      BY <1>6, <1>7
    <3>3. \A u : Round(u)[n] = copy_key(u[n - 1], order[n], from, to)
      BY <3>1
    <3> HIDE DEF Round
    <3> QED BY <2>2, <3>2, <3>3
  <2> QED BY <1>2, <2>1, <2>2, StepByStep
<1>9. \A p : done(N, p) <=> p \in Relocated(files, from, to)
  BY <1>1, <1>2
<1>10. After(N) = FolderCopied(files, from, to)
  BY <1>9 DEF After, FolderCopied
<1> QED BY <1>2, <1>8, <1>10 DEF s

LEMMA MoveLoop ==
  ASSUME files \in Trees, NEW from \in Folders, NEW to \in Folders, from = to \/ Disjoint(from, to),
         Relocated(files, from, to) \subseteq Paths, NEW order \in Orders(matching_keys(from))
  PROVE  Loop(LAMBDA table, key : re_key(table, key, from, to), order) = FolderMoved(files, from, to)
<1> DEFINE keys == matching_keys(from)
           N == Len(order)
           done(n, p) == \E i \in 1..n : p = Rebased(order[i], from, to)
           gone(n, p) == \E i \in 1..n : p = order[i]
           After(n) == [p \in Paths |-> IF done(n, p) THEN files[Rebased(p, to, from)]
                                        ELSE IF gone(n, p) THEN NoFile ELSE files[p]]
           s == [n \in 0..N |-> After(n)]
           Round(t) == [n \in 0..N |-> IF n = 0 THEN files ELSE re_key(t[n - 1], order[n], from, to)]
           t == CHOOSE u : u = Round(u)
<1>1. /\ keys \in SUBSET Paths /\ \A q \in keys : files[q] # NoFile
      /\ \A q \in keys : Rebased(q, from, to) \in Paths /\ Rebased(Rebased(q, from, to), to, from) = q
      /\ \A q, r \in keys : Rebased(r, from, to) = q => r = q /\ from = to /\ Rebased(q, to, from) = q
      /\ Relocated(files, from, to) = {Rebased(q, from, to) : q \in keys}
      /\ \A p \in Beneath(from) \ keys : files[p] = NoFile
  BY KeysAre
<1>2. /\ N \in Nat
      /\ \A i \in 1..N : order[i] \in keys
      /\ \A i, j \in 1..N : i # j => order[i] # order[j]
      /\ \A q \in keys : \E i \in 1..N : order[i] = q
  BY <1>1, OrderIs
<1>3. keys \subseteq Beneath(from)
  BY DEF matching_keys
<1> SUFFICES t[N] = FolderMoved(files, from, to)
  BY DEF Loop
<1> HIDE DEF keys, N
<1>4. ASSUME NEW n \in 1..N PROVE After(n) = re_key(After(n - 1), order[n], from, to)
  <2> DEFINE key == order[n]
             new == Rebased(key, from, to)
  <2>1. key \in keys /\ key \in Paths /\ new \in Paths /\ files[key] # NoFile
    BY <1>1, <1>2
  <2>2. ~gone(n - 1, key)
    BY <1>2
  <2>3. After(n - 1)[key] = files[key]
    <3>1. CASE done(n - 1, key)
      <4>1. PICK i \in 1..(n - 1) : key = Rebased(order[i], from, to)
        BY <3>1
      <4>2. order[i] \in keys
        BY <1>2
      <4>3. Rebased(key, to, from) = key
        BY <1>1, <2>1, <4>1, <4>2
      <4> QED BY <2>1, <3>1, <4>3
    <3>2. CASE ~done(n - 1, key)
      BY <2>1, <2>2, <3>2
    <3> QED BY <3>1, <3>2
  <2>4. re_key(After(n - 1), key, from, to) = [After(n - 1) EXCEPT ![key] = NoFile, ![new] = files[key]]
    BY <2>1, <2>3 DEF re_key, swap_prefix
  <2>5. /\ \A p : done(n, p) <=> done(n - 1, p) \/ p = new
        /\ \A p : gone(n, p) <=> gone(n - 1, p) \/ p = key
    <3>1. 1..n = (1..(n - 1)) \cup {n}
      BY <1>2
    <3> QED BY <3>1
  <2>6. done(n - 1, key) => new = key
    <3> SUFFICES ASSUME done(n - 1, key) PROVE new = key
      OBVIOUS
    <3>1. PICK i \in 1..(n - 1) : key = Rebased(order[i], from, to)
      OBVIOUS
    <3>2. order[i] \in keys
      BY <1>2
    <3>3. order[i] = key
      BY <1>1, <2>1, <3>1, <3>2
    <3> QED BY <3>1, <3>3
  <2>7. ASSUME NEW p \in Paths
        PROVE  After(n)[p] = [After(n - 1) EXCEPT ![key] = NoFile, ![new] = files[key]][p]
    <3>1. p = new => Rebased(p, to, from) = key
      BY <1>1, <2>1
    <3> HIDE DEF done, gone, new, key
    <3>2. CASE p = new
      BY <2>5, <3>1, <3>2
    <3>3. CASE p # new /\ p = key
      BY <2>5, <2>6, <3>3
    <3>4. CASE p # new /\ p # key
      BY <2>5, <3>4
    <3> QED BY <3>2, <3>3, <3>4
  <2>8. After(n) = [After(n - 1) EXCEPT ![key] = NoFile, ![new] = files[key]]
    <3> HIDE DEF done, gone, new, key
    <3> QED BY <2>7
  <2> QED BY <2>4, <2>8
<1>5. After(0) = files
  <2>1. \A p : ~done(0, p) /\ ~gone(0, p)
    OBVIOUS
  <2> HIDE DEF done, gone
  <2> QED BY <2>1 DEF Trees
<1> HIDE DEF After
<1>6. s = Round(s)
  BY <1>2, <1>4, <1>5
<1> HIDE DEF s
<1>7. t = Round(t)
  BY <1>6
<1> HIDE DEF t
<1>8. s[N] = t[N]
  <2>1. s[0] = t[0]
    BY <1>2, <1>6, <1>7
  <2>2. ASSUME NEW n \in 1..N, s[n - 1] = t[n - 1] PROVE s[n] = t[n]
    <3>1. n \in 0..N /\ n # 0
      BY <1>2
    <3>2. s[n] = Round(s)[n] /\ t[n] = Round(t)[n]
      BY <1>6, <1>7
    <3>3. \A u : Round(u)[n] = re_key(u[n - 1], order[n], from, to)
      BY <3>1
    <3> HIDE DEF Round
    <3> QED BY <2>2, <3>2, <3>3
  <2> QED BY <1>2, <2>1, <2>2, StepByStep
<1>9. /\ \A p : done(N, p) <=> p \in Relocated(files, from, to)
      /\ \A p : gone(N, p) <=> p \in keys
  BY <1>1, <1>2
<1>10. \A p \in Paths : (IF p \in keys THEN NoFile ELSE files[p]) = IF p \in Beneath(from) THEN NoFile ELSE files[p]
  BY <1>1, <1>3
<1>11. After(N) = FolderMoved(files, from, to)
  <2>1. FolderMoved(files, from, to)
          = [p \in Paths |-> IF p \in Relocated(files, from, to) THEN files[Rebased(p, to, from)]
                             ELSE IF p \in Beneath(from) THEN NoFile ELSE files[p]]
    BY DEF FolderMoved
  <2>2. \A p \in Paths : After(N)[p] = FolderMoved(files, from, to)[p]
    <3> HIDE DEF done, gone
    <3> QED BY <1>9, <1>10, <2>1 DEF After
  <2> HIDE DEF done, gone
  <2> QED BY <2>1, <2>2 DEF After
<1> QED BY <1>2, <1>8, <1>11 DEF s

-----------------------------------------------------------------------------
(* The invariant, and what it is for.                                      *)

LEMMA FlatDone ==
  ASSUME IInv, ~Overlapping
  PROVE  RelocatesAll
<1> SUFFICES ASSUME NEW from \in Folders, NEW to \in Folders
             PROVE  /\ move_folder(from, to) => files' = FolderMoved(files, from, to)
                    /\ copy_folder(from, to) => files' = FolderCopied(files, from, to)
  BY DEF RelocatesAll
<1>1. files \in Trees
  BY DEF IInv
<1>2. ASSUME move_folder(from, to) PROVE files' = FolderMoved(files, from, to)
  <2>1. from = to \/ Disjoint(from, to)
    BY <1>2 DEF move_folder, Relocates
  <2>2. Relocated(files, from, to) \subseteq Paths
    BY <1>2 DEF move_folder, Relocates
  <2>3. \A order \in Orders(matching_keys(from)) :
          Loop(LAMBDA table, key : re_key(table, key, from, to), order) = FolderMoved(files, from, to)
    BY <1>1, <2>1, <2>2, MoveLoop
  <2> QED BY <1>2, <2>3 DEF move_folder
<1>3. ASSUME copy_folder(from, to) PROVE files' = FolderCopied(files, from, to)
  <2>1. from = to \/ Disjoint(from, to)
    BY <1>3 DEF copy_folder, Relocates
  <2>2. Relocated(files, from, to) \subseteq Paths
    BY <1>3 DEF copy_folder, Relocates
  <2>3. \A order \in Orders(matching_keys(from)) :
          Loop(LAMBDA table, key : copy_key(table, key, from, to), order) = FolderCopied(files, from, to)
    BY <1>1, <2>1, <2>2, CopyLoop
  <2> QED BY <1>3, <2>3 DEF copy_folder
<1> QED BY <1>2, <1>3

LEMMA FlatTyped ==
  ASSUME IInv, ~Overlapping, FlatNext
  PROVE  files' \in Trees
<1>1. files \in Trees
  BY DEF IInv
<1>2. ASSUME NEW p \in Paths, NEW data \in Contents, write_file(p, data) PROVE files' \in Trees
  BY <1>1, <1>2 DEF write_file, Trees
<1>3. ASSUME NEW p \in Paths, delete_file(p) PROVE files' \in Trees
  BY <1>1, <1>3 DEF delete_file, Trees
<1>4. ASSUME NEW from \in Paths, NEW to \in Paths, move_file(from, to) PROVE files' \in Trees
  BY <1>1, <1>4 DEF move_file, Trees
<1>5. ASSUME NEW from \in Paths, NEW to \in Paths, copy_file(from, to) PROVE files' \in Trees
  BY <1>1, <1>5 DEF copy_file, Trees
<1>6. ASSUME NEW folder \in Folders, delete_folder(folder) PROVE files' \in Trees
  BY <1>1, <1>6 DEF delete_folder, Trees
<1>7. ASSUME NEW from \in Folders, NEW to \in Folders, NEW p \in Relocated(files, from, to)
      PROVE  Rebased(p, to, from) \in Paths
  <2>1. PICK q \in Beneath(from) : p = Rebased(q, from, to)
    BY DEF Relocated
  <2>2. /\ q \in Paths /\ IsPrefix(from, q)
        /\ q \in Seq(Components) /\ from \in Seq(Components) /\ to \in Seq(Components)
    BY NamesAreComponents DEF Beneath
  <2>3. Rebased(p, to, from) = q
    BY <2>1, <2>2, RebasedBack
  <2> QED BY <2>2, <2>3
<1>8. ASSUME NEW from \in Folders, NEW to \in Folders, move_folder(from, to) PROVE files' \in Trees
  <2>1. files' = FolderMoved(files, from, to)
    BY <1>8, FlatDone DEF RelocatesAll
  <2> QED BY <1>1, <1>7, <2>1 DEF FolderMoved, Trees
<1>9. ASSUME NEW from \in Folders, NEW to \in Folders, copy_folder(from, to) PROVE files' \in Trees
  <2>1. files' = FolderCopied(files, from, to)
    BY <1>9, FlatDone DEF RelocatesAll
  <2> QED BY <1>1, <1>7, <2>1 DEF FolderCopied, Trees
<1> QED BY <1>2, <1>3, <1>4, <1>5, <1>6, <1>8, <1>9 DEF FlatNext

LEMMA InitInv ==
  ASSUME Init
  PROVE  IInv
<1>1. files \in Trees
  <2>1. PICK present \in SUBSET Paths : files = [p \in Paths |-> IF p \in present THEN p ELSE NoFile]
    BY DEF Init
  <2> QED BY <2>1 DEF Trees
<1>2. /\ dirs = {<< >>} \cup UNION {Disk!Upto(Front(p)) : p \in Present(files)}
      /\ walk = [c \in Callers |-> Idle]
  BY SameOperators DEF Init, Disk!Init
<1>3. ASSUME NEW p \in Present(files)
      PROVE  /\ Disk!Upto(Front(p)) \subseteq Seq(FolderNames) /\ Front(p) \in Disk!Upto(Front(p))
             /\ \A f \in Disk!Upto(Front(p)) : \A n \in 0..Len(f) : SubSeq(f, 1, n) \in Disk!Upto(Front(p))
  <2>1. Front(p) \in Seq(FolderNames)
    BY FileNames DEF Present
  <2> QED BY <2>1, UptoIs
<1>4. << >> \in Seq(FolderNames) /\ \A n \in 0..Len(<< >>) : SubSeq(<< >>, 1, n) = << >>
  OBVIOUS
<1>5. dirs \subseteq Seq(FolderNames)
  BY <1>2, <1>3, <1>4
<1>6. Rooted
  BY <1>2, <1>3, <1>4 DEF Rooted
<1>7. Housed
  BY <1>2, <1>3 DEF Housed
<1>8. DOMAIN walk = Callers /\ Disk!Walking = {}
  BY <1>2 DEF Disk!Walking
<1> QED BY <1>1, <1>5, <1>6, <1>7, <1>8 DEF IInv, DiskAgrees, DirsAgree

LEMMA StepInv ==
  ASSUME IInv, ~Overlapping, [Next]_vars
  PROVE  IInv'
<1>1. CASE Next
  <2>1. engine' = engine
    BY <1>1 DEF Next
  <2>2. CASE engine = "disk"
    <3>1. DiskAgrees /\ Disk!Next
      BY <1>1, <2>2 DEF Next, IInv
    <3>2. files' \in Trees /\ DiskAgrees'
      BY <3>1, DiskStep
    <3> QED BY <3>2 DEF IInv
  <2>3. CASE engine # "disk"
    <3>1. FlatNext
      BY <1>1, <2>3 DEF Next
    <3>2. files' \in Trees
      BY <3>1, FlatTyped
    <3> QED BY <2>1, <2>3, <3>2 DEF IInv
  <2> QED BY <2>2, <2>3
<1>2. CASE vars' = vars
  <2>1. engine' = engine /\ files' = files /\ dirs' = dirs /\ walk' = walk /\ since' = since
    BY <1>2 DEF vars, disk
  <2>2. DirsAgree => DirsAgree'
    BY <2>1 DEF DirsAgree, Rooted, Housed, Present
  <2>3. ASSUME NEW c \in Callers, WalkAgrees(c) PROVE WalkAgrees(c)'
    <3>1. From(c)' = From(c) /\ To(c)' = To(c) /\ Within(c)' = Within(c) /\ Found(c)' = Found(c) /\ Kept(c)' = Kept(c)
      BY <2>1 DEF From, To, Within, Found, Kept
    <3>2. WalkTyped(c)'
      BY <2>1, <2>3, <3>1 DEF WalkAgrees, WalkTyped
    <3>3. CopyAgrees(c)'
      BY <2>1, <2>3, <3>1 DEF WalkAgrees, CopyAgrees, Pending
    <3>4. RemoveAgrees(c)'
      BY <2>1, <2>3, <3>1 DEF WalkAgrees, RemoveAgrees
    <3> QED BY <3>2, <3>3, <3>4 DEF WalkAgrees
  <2>4. DiskAgrees => DiskAgrees'
    BY <2>1, <2>2, <2>3 DEF DiskAgrees, Disk!Walking
  <2> QED BY <2>1, <2>4 DEF IInv
<1> QED BY <1>1, <1>2

\* Every folder operation acts on the whole folder and on nothing else
\* (blocking/mem.rs, kv.rs, disk.rs), whatever order the keys are visited in and
\* whatever other calls do meanwhile, unless a folder is moved or copied into
\* itself or one of its parents.
THEOREM FoldersMoveWhole ==
  ASSUME ~Overlapping
  PROVE  Spec => WholeFolder
<1>1. Init => IInv
  BY InitInv
<1>2. IInv /\ [Next]_vars => IInv'
  BY StepInv
<1>3. IInv => (IF engine = "disk" THEN WalksAll ELSE RelocatesAll)
  BY WalksDone, FlatDone DEF IInv
<1>4. IInv => [IF engine = "disk" THEN WalksAll ELSE RelocatesAll]_vars
  BY <1>3
<1> QED BY <1>1, <1>2, <1>4, PTL DEF Spec, WholeFolder

\* On disk, whatever calls and walks do at once (disk.rs), no file is left outside
\* a folder and no folder outside its parent.
THEOREM FoldersHoldFiles ==
  ASSUME ~Overlapping
  PROVE  Spec => [](engine = "disk" => Rooted /\ Housed)
<1>1. Init => IInv
  BY InitInv
<1>2. IInv /\ [Next]_vars => IInv'
  BY StepInv
<1>3. IInv => (engine = "disk" => Rooted /\ Housed)
  BY DEF IInv, DiskAgrees, DirsAgree
<1> QED BY <1>1, <1>2, <1>3, PTL DEF Spec
=============================================================================
