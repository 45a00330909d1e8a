------------------------ MODULE MemFileGuardProofs ------------------------
(***************************************************************************)
(* Proofs about MemFileGuard, for any paths, texts, threshold and length   *)
(* of transactions, and for any writes that fail.                          *)
(***************************************************************************)
EXTENDS MemFileGuard, FiniteSetTheorems, SequenceTheorems, WellFoundedInduction, TLAPS

\* One text begins another if it is no longer and agrees with it place by place.
LEMMA PrefixByPlace ==
  ASSUME NEW S, NEW s \in Seq(S), NEW t \in Seq(S)
  PROVE  IsPrefix(s, t) <=> Len(s) <= Len(t) /\ \A i \in 1..Len(s) : s[i] = t[i]
<1>1. Len(s) \in Nat /\ Len(t) \in Nat
  OBVIOUS
<1>2. ASSUME Len(s) <= Len(t)
      PROVE  SubSeq(s, 1, Len(s)) = SubSeq(t, 1, Len(s)) <=> \A i \in 1..Len(s) : s[i] = t[i]
  BY <1>1, <1>2
<1> QED BY <1>1, <1>2 DEF IsPrefix

\* The texts of a session, of edits however late.
Texts == Seq(Nat \X Origins)

\* The buffer [text, ops] runs ahead of what is durable and not too far.
Behind(disk, text, ops) ==
  /\ disk # NoFile
  /\ IsPrefix(disk, text)
  /\ Session!LocalEdits(Session!Suffix(text, disk)) = ops
  /\ ops < SAVE_THRESHOLD

LEMMA TextsAreTexts ==
  ASSUME NEW n \in Nat
  PROVE  TextsUpTo(n) \subseteq Texts /\ NoFile \notin Texts
<1>1. (0..n) \X Origins \subseteq Nat \X Origins
  OBVIOUS
<1> QED BY <1>1, StoreAssumption DEF TextsUpTo, Texts

LEMMA TextsGrow ==
  ASSUME NEW n \in Nat, NEW m \in Nat, n <= m
  PROVE  TextsUpTo(n) \subseteq TextsUpTo(m)
<1>1. (0..n) \X Origins \subseteq (0..m) \X Origins
  OBVIOUS
<1> QED BY <1>1 DEF TextsUpTo

\* A text has nothing that it lacks itself.
LEMMA SuffixOfSelf ==
  ASSUME NEW S, NEW t \in Seq(S)
  PROVE  IsPrefix(t, t) /\ Session!Suffix(t, t) = << >>
<1>1. IsPrefix(t, t)
  BY PrefixByPlace
<1>2. Session!Suffix(t, t) = << >>
  BY SubSeqEmpty DEF Session!Suffix
<1> QED BY <1>1, <1>2

\* One edit more is one edit more of what is lacking.
LEMMA SuffixOfAppend ==
  ASSUME NEW S, NEW d \in Seq(S), NEW t \in Seq(S), IsPrefix(d, t), NEW e \in S
  PROVE  /\ Append(t, e) \in Seq(S) /\ IsPrefix(d, Append(t, e))
         /\ Session!Suffix(t, d) \in Seq(S)
         /\ Session!Suffix(Append(t, e), d) = Append(Session!Suffix(t, d), e)
<1>1. Len(d) \in Nat /\ Len(t) \in Nat /\ Len(d) <= Len(t)
  BY PrefixByPlace
<1>2. Append(t, e) \in Seq(S) /\ Len(Append(t, e)) = Len(t) + 1
  OBVIOUS
<1>3. IsPrefix(d, Append(t, e))
  <2>1. \A i \in 1..Len(d) : d[i] = t[i] /\ Append(t, e)[i] = t[i]
    BY <1>1, PrefixByPlace
  <2> DEFINE u == Append(t, e)
  <2>2. u \in Seq(S)
    OBVIOUS
  <2> HIDE DEF u
  <2>3. Len(d) <= Len(u) /\ \A i \in 1..Len(d) : d[i] = u[i]
    BY <1>1, <1>2, <2>1 DEF u
  <2>4. IsPrefix(d, u)
    BY <2>2, <2>3, PrefixByPlace
  <2> QED BY <2>4 DEF u
<1>4. Session!Suffix(t, d) \in Seq(S) /\ Len(Session!Suffix(t, d)) = Len(t) - Len(d)
  BY <1>1 DEF Session!Suffix
<1>5. /\ Session!Suffix(Append(t, e), d) \in Seq(S)
      /\ Len(Session!Suffix(Append(t, e), d)) = Len(t) + 1 - Len(d)
  BY <1>1, <1>2 DEF Session!Suffix
<1>6. \A i \in 1..(Len(t) + 1 - Len(d)) :
        Session!Suffix(Append(t, e), d)[i] = Append(Session!Suffix(t, d), e)[i]
  BY <1>1, <1>2, <1>4 DEF Session!Suffix
<1>7. Append(Session!Suffix(t, d), e) \in Seq(S) /\ Len(Append(Session!Suffix(t, d), e)) = Len(t) + 1 - Len(d)
  BY <1>1, <1>4
<1>8. Session!Suffix(Append(t, e), d) = Append(Session!Suffix(t, d), e)
  BY <1>5, <1>6, <1>7, SeqEqual
<1> QED BY <1>2, <1>3, <1>4, <1>8

LEMMA LocalEditsOf ==
  ASSUME NEW t \in Texts
  PROVE  /\ Session!LocalEdits(t) \in Nat
         /\ t = << >> => Session!LocalEdits(t) = 0
         /\ \A e \in Nat \X Origins :
              Session!LocalEdits(Append(t, e)) =
                Session!LocalEdits(t) + IF e[2] = "local" THEN 1 ELSE 0
<1> DEFINE At(s) == {i \in DOMAIN s : s[i][2] = "local"}
<1>1. IsFiniteSet(At(t)) /\ Len(t) + 1 \notin At(t) /\ Cardinality(At(t)) \in Nat
  <2>1. IsFiniteSet(1..Len(t)) /\ DOMAIN t = 1..Len(t)
    BY FS_Interval DEF Texts
  <2>2. IsFiniteSet(At(t))
    BY <2>1, FS_Subset
  <2> QED BY <2>1, <2>2, FS_CardinalityType DEF Texts
<1>2. t = << >> => At(t) = {}
  OBVIOUS
<1>3. ASSUME NEW e \in Nat \X Origins
      PROVE  At(Append(t, e)) = IF e[2] = "local" THEN At(t) \cup {Len(t) + 1} ELSE At(t)
  BY <1>3 DEF Texts
<1>4. \A s : Session!LocalEdits(s) = Cardinality(At(s))
  <2>1. \A S : Session!Cardinality(S) = Cardinality(S)
    BY DEF Session!Cardinality, Cardinality
  <2> QED BY <2>1 DEF Session!LocalEdits
<1> HIDE DEF At
<1>5. ASSUME NEW e \in Nat \X Origins
      PROVE  Cardinality(At(Append(t, e))) = Cardinality(At(t)) + IF e[2] = "local" THEN 1 ELSE 0
  BY <1>1, <1>3, FS_AddElement
<1> QED BY <1>1, <1>2, <1>4, <1>5, FS_EmptySet

\* What is durable lacks nothing of itself.
LEMMA BehindSelf ==
  ASSUME NEW t \in Texts
  PROVE  Behind(t, t, 0)
<1>1. t # NoFile
  BY StoreAssumption DEF Texts
<1>2. IsPrefix(t, t) /\ Session!Suffix(t, t) = << >>
  BY SuffixOfSelf DEF Texts
<1>3. << >> \in Texts
  BY DEF Texts
<1>4. Session!LocalEdits(<< >>) = 0
  BY <1>3, LocalEditsOf
<1> QED BY <1>1, <1>2, <1>4, ConstantsAssumption DEF Behind

\* A local edit is one that is counted, a relayed one is not.
LEMMA BehindAppend ==
  ASSUME NEW disk \in Texts, NEW text \in Texts, NEW ops \in Nat, Behind(disk, text, ops),
         NEW e \in Nat \X Origins
  PROVE  /\ IsPrefix(disk, Append(text, e))
         /\ e[2] # "local" => Behind(disk, Append(text, e), ops)
         /\ e[2] = "local" /\ ops + 1 < SAVE_THRESHOLD => Behind(disk, Append(text, e), ops + 1)
<1> DEFINE lacking == Session!Suffix(text, disk)
<1>1. /\ IsPrefix(disk, Append(text, e)) /\ lacking \in Texts
      /\ Session!Suffix(Append(text, e), disk) = Append(lacking, e)
  BY SuffixOfAppend DEF Behind, Texts
<1>2. Session!LocalEdits(lacking) = ops
  BY DEF Behind
<1> HIDE DEF lacking
<1>3. Session!LocalEdits(Append(lacking, e)) = ops + IF e[2] = "local" THEN 1 ELSE 0
  BY <1>1, <1>2, LocalEditsOf
<1> QED BY <1>1, <1>3 DEF Behind

LEMMA TextTyped ==
  ASSUME NEW n \in Nat, NEW t \in TextsUpTo(n), NEW origin \in Origins
  PROVE  Append(t, <<n + 1, origin>>) \in TextsUpTo(n + 1)
<1>1. t \in TextsUpTo(n + 1)
  BY TextsGrow
<1>2. n + 1 \in 0..(n + 1)
  OBVIOUS
<1>3. <<n + 1, origin>> \in (0..(n + 1)) \X Origins
  BY <1>2, Zenon
<1> QED BY <1>1, <1>3 DEF TextsUpTo

\* A transaction in progress: what it has typed, and what of it is durable.
InProgress(f) ==
  /\ f.last \in Nat /\ f.ops \in Nat
  /\ f.text \in TextsUpTo(f.last) /\ f.disk \in TextsUpTo(f.last) \cup {NoFile}
  /\ f.risk \in BOOLEAN /\ f.ok \in BOOLEAN
  /\ ~f.ok => f.risk
  /\ f.ok /\ ~f.risk => Behind(f.disk, f.text, f.ops)

Fields(f) == f = [text |-> f.text, ops |-> f.ops, disk |-> f.disk, last |-> f.last,
                  risk |-> f.risk, ok |-> f.ok]

LEMMA SaveFields ==
  ASSUME NEW f, NEW up \in BOOLEAN, Fields(f)
  PROVE  /\ Fields(save(f, up))
         /\ save(f, up).text = f.text /\ save(f, up).last = f.last
         /\ up => /\ save(f, up).disk = f.text /\ save(f, up).ops = 0
                  /\ save(f, up).risk = FALSE /\ save(f, up).ok = f.ok
         /\ ~up => /\ save(f, up).disk = f.disk /\ save(f, up).ops = f.ops
                   /\ save(f, up).risk = TRUE /\ save(f, up).ok = FALSE
<1>1. CASE up
  BY <1>1 DEF save, Fields
<1>2. CASE ~up
  BY <1>2 DEF save, Fields
<1> QED BY <1>1, <1>2

LEMMA SaveInProgress ==
  ASSUME NEW f, NEW up \in BOOLEAN, Fields(f), f.last \in Nat, f.ops \in Nat,
         f.text \in TextsUpTo(f.last), f.disk \in TextsUpTo(f.last) \cup {NoFile}, f.ok = TRUE
  PROVE  InProgress(save(f, up))
<1>1. f.text \in Texts
  BY TextsAreTexts
<1>2. Behind(f.text, f.text, 0)
  BY <1>1, BehindSelf
<1> DEFINE g == save(f, up)
<1>3. /\ g.text = f.text /\ g.last = f.last
      /\ up => g.disk = f.text /\ g.ops = 0 /\ g.risk = FALSE /\ g.ok = TRUE
      /\ ~up => g.disk = f.disk /\ g.ops = f.ops /\ g.risk = TRUE /\ g.ok = FALSE
  <2>1. /\ g.text = f.text /\ g.last = f.last
        /\ up => g.disk = f.text /\ g.ops = 0 /\ g.risk = FALSE /\ g.ok = f.ok
        /\ ~up => g.disk = f.disk /\ g.ops = f.ops /\ g.risk = TRUE /\ g.ok = FALSE
    <3>1. CASE up
      BY <3>1 DEF save, Fields
    <3>2. CASE ~up
      BY <3>2 DEF save, Fields
    <3> QED BY <3>1, <3>2
  <2> HIDE DEF g
  <2> QED BY <2>1, Zenon
<1> HIDE DEF g
<1>4. g.risk \in BOOLEAN /\ g.ok \in BOOLEAN /\ (~g.ok => g.risk)
  BY <1>3, Zenon
<1>5. g.ok => up
  BY <1>3, Zenon
<1>6. up => Behind(g.disk, g.text, g.ops)
  BY <1>2, <1>3, Zenon
<1>7. /\ g.last \in Nat /\ g.ops \in Nat
      /\ g.text \in TextsUpTo(g.last) /\ g.disk \in TextsUpTo(g.last) \cup {NoFile}
  BY <1>3
<1> QED BY <1>4, <1>5, <1>6, <1>7, Zenon DEF InProgress, g

\* What an operation types is a text of the edits up to its own.
LEMMA TypedFields ==
  ASSUME NEW f, Fields(f), NEW origin
  PROVE  /\ Fields(Typed(f, origin))
         /\ Typed(f, origin).text = Append(f.text, <<f.last + 1, origin>>)
         /\ Typed(f, origin).last = f.last + 1
         /\ Typed(f, origin).ops = f.ops /\ Typed(f, origin).disk = f.disk
         /\ Typed(f, origin).risk = f.risk /\ Typed(f, origin).ok = f.ok
<1> DEFINE longer == Append(f.text, <<f.last + 1, origin>>)
<1>1. Typed(f, origin) = [text |-> longer, ops |-> f.ops, disk |-> f.disk,
                          last |-> f.last + 1, risk |-> f.risk, ok |-> f.ok]
  <2>1. Typed(f, origin) = [f EXCEPT !.text = longer, !.last = f.last + 1]
    BY DEF Typed, Fields
  <2> HIDE DEF longer
  <2> QED BY <2>1 DEF Fields
<1> HIDE DEF longer
<1> QED BY <1>1 DEF longer, Fields

LEMMA CountedFields ==
  ASSUME NEW f, Fields(f)
  PROVE  /\ Fields([f EXCEPT !.ops = @ + 1])
         /\ [f EXCEPT !.ops = @ + 1].text = f.text /\ [f EXCEPT !.ops = @ + 1].disk = f.disk
         /\ [f EXCEPT !.ops = @ + 1].last = f.last /\ [f EXCEPT !.ops = @ + 1].risk = f.risk
         /\ [f EXCEPT !.ops = @ + 1].ok = f.ok /\ [f EXCEPT !.ops = @ + 1].ops = f.ops + 1
  BY DEF Fields

\* One operation leaves a transaction that is in progress in progress, and types
\* one edit at the end of the text unless an earlier save has failed.
LEMMA EditBufferStep ==
  ASSUME NEW f, Fields(f), InProgress(f), NEW run \in {"char", "run"}, NEW up \in BOOLEAN
  PROVE  LET g == EditBuffer(f, run, up)
         IN /\ Fields(g) /\ InProgress(g)
            /\ ~f.ok => g = f
            /\ f.ok => /\ g.text = Append(f.text, <<f.last + 1, "local">>)
                       /\ g.last = f.last + 1
<1> DEFINE g == EditBuffer(f, run, up)
           h == Typed(f, "local")
           c == [h EXCEPT !.ops = @ + 1]
           Right(x) == /\ Fields(x) /\ InProgress(x)
                       /\ x.text = Append(f.text, <<f.last + 1, "local">>)
                       /\ x.last = f.last + 1
<1>1. CASE ~f.ok
  BY <1>1, Zenon DEF EditBuffer
<1>2. CASE f.ok
  <2>1. /\ Fields(h) /\ h.text = Append(f.text, <<f.last + 1, "local">>)
        /\ h.last = f.last + 1 /\ h.ops = f.ops /\ h.disk = f.disk /\ h.risk = f.risk /\ h.ok = f.ok
    BY TypedFields, Zenon
  <2>2. f.ok = TRUE /\ f.risk \in BOOLEAN
    BY <1>2, Zenon DEF InProgress
  <2>3. f.last \in Nat /\ f.ops \in Nat /\ f.text \in TextsUpTo(f.last) /\ f.disk \in TextsUpTo(f.last) \cup {NoFile}
    BY DEF InProgress
  <2>4. h.text \in TextsUpTo(h.last) /\ h.disk \in TextsUpTo(h.last) \cup {NoFile} /\ h.last \in Nat /\ h.ops \in Nat
    <3>1. h.text \in TextsUpTo(f.last + 1)
      <4>1. "local" \in Origins
        BY DEF Origins
      <4>2. Append(f.text, <<f.last + 1, "local">>) \in TextsUpTo(f.last + 1)
        BY <2>3, <4>1, TextTyped
      <4> QED BY <2>1, <4>2, Zenon
    <3>2. TextsUpTo(f.last) \subseteq TextsUpTo(f.last + 1)
      BY <2>3, TextsGrow
    <3> HIDE DEF h
    <3> QED BY <2>1, <2>3, <3>1, <3>2
  <2>5. h.ok = TRUE
    BY <2>1, <2>2, Zenon
  <2> HIDE DEF h
  <2>6. /\ Fields(c) /\ c.text = h.text /\ c.disk = h.disk /\ c.last = h.last
        /\ c.risk = h.risk /\ c.ok = h.ok /\ c.ops = h.ops + 1
    BY <2>1, CountedFields, Zenon
  <2>7. c.ok = TRUE
    BY <2>5, <2>6, Zenon
  <2> HIDE DEF c
  <2>8. Right(save(h, up))
    <3>1. Fields(save(h, up)) /\ save(h, up).text = h.text /\ save(h, up).last = h.last
      BY <2>1, SaveFields
    <3>2. InProgress(save(h, up))
      BY <2>1, <2>4, <2>5, SaveInProgress
    <3> QED BY <2>1, <3>1, <3>2, Zenon
  <2>9. c.last \in Nat /\ c.ops \in Nat /\ c.text \in TextsUpTo(c.last) /\ c.disk \in TextsUpTo(c.last) \cup {NoFile}
    BY <2>4, <2>6
  <2>10. Right(save(c, up))
    <3>1. Fields(save(c, up)) /\ save(c, up).text = c.text /\ save(c, up).last = c.last
      BY <2>6, SaveFields
    <3>2. InProgress(save(c, up))
      BY <2>6, <2>7, <2>9, SaveInProgress
    <3> QED BY <2>1, <2>6, <3>1, <3>2, Zenon
  <2>11. ASSUME c.ops < SAVE_THRESHOLD PROVE InProgress(c)
    <3>1. ASSUME ~c.risk PROVE Behind(c.disk, c.text, c.ops)
      <4>1. ~f.risk
        BY <2>1, <2>6, <3>1, Zenon
      <4>2. Behind(f.disk, f.text, f.ops)
        BY <4>1, <2>2, Zenon DEF InProgress
      <4>3. f.disk \in Texts /\ f.text \in Texts
        BY <2>3, <4>2, TextsAreTexts DEF Behind
      <4> DEFINE e == <<f.last + 1, "local">>
      <4>4. e \in Nat \X Origins /\ e[2] = "local"
        <5>1. f.last + 1 \in Nat
          BY <2>3
        <5>2. "local" \in Origins
          BY DEF Origins
        <5> QED BY <5>1, <5>2, Zenon
      <4>5. f.ops + 1 < SAVE_THRESHOLD /\ c.ops = f.ops + 1
        BY <2>11, <2>1, <2>6
      <4>6. c.text = Append(f.text, e) /\ c.disk = f.disk
        BY <2>1, <2>6, Zenon
      <4> HIDE DEF e
      <4>7. Behind(f.disk, Append(f.text, e), f.ops + 1)
        BY <4>2, <4>3, <4>4, <4>5, <2>3, BehindAppend
      <4> QED BY <4>5, <4>6, <4>7, Zenon
    <3>2. c.risk \in BOOLEAN /\ c.ok \in BOOLEAN
      BY <2>1, <2>2, <2>6, <2>7, Zenon
    <3> QED BY <3>1, <3>2, <2>7, <2>9, Zenon DEF InProgress
  <2>12. CASE run # "char"
    <3>1. g = save(h, up)
      BY <1>2, <2>12, Zenon DEF EditBuffer, h
    <3> QED BY <1>2, <2>8, <3>1, Zenon
  <2>13. CASE run = "char" /\ c.ops >= SAVE_THRESHOLD
    <3>1. g = save(c, up)
      BY <1>2, <2>13, Zenon DEF EditBuffer, record_single_edit, h, c
    <3> QED BY <1>2, <2>10, <3>1, Zenon
  <2>14. CASE run = "char" /\ ~(c.ops >= SAVE_THRESHOLD)
    <3>1. g = c
      BY <1>2, <2>14, Zenon DEF EditBuffer, record_single_edit, h, c
    <3>2. c.ops < SAVE_THRESHOLD
      BY <2>9, <2>14, ConstantsAssumption
    <3>3. Right(c)
      BY <2>1, <2>6, <2>11, <3>2, Zenon
    <3> QED BY <1>2, <3>1, <3>3, Zenon
  <2> QED BY <2>12, <2>13, <2>14, Zenon
<1> QED BY <1>1, <1>2, Zenon

-----------------------------------------------------------------------------
(* A transaction as a whole. *)

\* Induction, for a set of numbers: there is no least number outside of it.
LEMMA Reach ==
  ASSUME NEW S \in SUBSET Nat, 0 \in S, \A n \in S : n + 1 \in S
  PROVE  S = Nat
<1> DEFINE R == OpToRel(<, Nat)
           Left == Nat \ S
<1>1. IsWellFoundedOn(R, Nat)
  BY NatLessThanWellFounded
<1>2. \A x, y \in Nat : <<x, y>> \in R <=> x < y
  BY DEF OpToRel
<1> HIDE DEF R
<1> SUFFICES ASSUME Left # {} PROVE FALSE
  OBVIOUS
<1>3. PICK n \in Left : \A m \in Left : ~(<<m, n>> \in R)
  <2>1. Left \in SUBSET Nat /\ Left # {}
    OBVIOUS
  <2> HIDE DEF Left
  <2> QED BY <1>1, <2>1, WFMin
<1>4. n \in Nat /\ n # 0 /\ n \notin S
  OBVIOUS
<1>5. n - 1 \in Nat /\ n - 1 < n /\ (n - 1) + 1 = n
  BY <1>4
<1>6. n - 1 \in S
  BY <1>2, <1>3, <1>5
<1> QED BY <1>4, <1>5, <1>6

\* The states of a transaction are one after the other: there is such a function.
LEMMA StatesExist ==
  ASSUME NEW first, NEW runs, NEW up, NEW N \in Nat
  PROVE  \E h : h = [n \in 0..N |-> IF n = 0 THEN first ELSE EditBuffer(h[n - 1], runs[n], up)]
<1> DEFINE Is(h, m) == h = [n \in 0..m |-> IF n = 0 THEN first ELSE EditBuffer(h[n - 1], runs[n], up)]
           S == {m \in Nat : \E h : Is(h, m)}
<1>1. 0 \in S
  <2>1. Is([n \in 0..0 |-> first], 0)
    OBVIOUS
  <2> QED BY <2>1
<1>2. ASSUME NEW m \in S PROVE m + 1 \in S
  <2>1. m \in Nat /\ \E h : Is(h, m)
    OBVIOUS
  <2>2. PICK h : Is(h, m)
    BY <2>1
  <2> DEFINE last == EditBuffer(h[m], runs[m + 1], up)
             g == [n \in 0..(m + 1) |-> IF n = m + 1 THEN last ELSE h[n]]
  <2>3. \A n \in 0..m : h[n] = IF n = 0 THEN first ELSE EditBuffer(h[n - 1], runs[n], up)
    BY <2>2
  <2>4. ASSUME NEW n \in 0..(m + 1)
        PROVE  g[n] = IF n = 0 THEN first ELSE EditBuffer(g[n - 1], runs[n], up)
    <3>1. CASE n = m + 1
      <4>1. n # 0 /\ n - 1 = m /\ m \in 0..(m + 1) /\ m # m + 1
        BY <2>1, <3>1
      <4>2. g[n - 1] = h[m]
        BY <4>1
      <4>3. g[n] = last
        BY <3>1
      <4> HIDE DEF g
      <4> QED BY <3>1, <4>1, <4>2, <4>3
    <3>2. CASE n # m + 1
      <4>1. n \in 0..m
        BY <2>1, <3>2
      <4>2. g[n] = h[n]
        BY <3>2
      <4>3. n # 0 => n - 1 \in 0..(m + 1) /\ n - 1 # m + 1
        BY <2>1, <4>1
      <4>4. n # 0 => g[n - 1] = h[n - 1]
        BY <4>3
      <4>5. h[n] = IF n = 0 THEN first ELSE EditBuffer(h[n - 1], runs[n], up)
        BY <2>3, <4>1
      <4> HIDE DEF g
      <4> QED BY <4>2, <4>4, <4>5
    <3> QED BY <3>1, <3>2
  <2>5. g = [n \in 0..(m + 1) |-> g[n]]
    OBVIOUS
  <2> HIDE DEF g, last
  <2>6. Is(g, m + 1)
    BY <2>4, <2>5
  <2> QED BY <2>1, <2>6
<1> HIDE DEF Is
<1>3. S = Nat
  <2>1. S \in SUBSET Nat
    OBVIOUS
  <2> HIDE DEF S
  <2> QED BY <1>1, <1>2, <2>1, Reach
<1>4. \E h : Is(h, N)
  BY <1>3
<1> QED BY <1>4 DEF Is

LEMMA StatesOf ==
  ASSUME NEW p, NEW runs, NEW up, Len(runs) \in Nat
  PROVE  \E h : /\ apply_transaction_ops(p, runs, up) = h[Len(runs)]
                /\ h[0] = Begin(p)
                /\ \A n \in 1..Len(runs) : h[n] = EditBuffer(h[n - 1], runs[n], up)
<1> DEFINE after[n \in 0..Len(runs)] == IF n = 0 THEN Begin(p) ELSE EditBuffer(after[n - 1], runs[n], up)
<1>1. after = [n \in 0..Len(runs) |-> IF n = 0 THEN Begin(p) ELSE EditBuffer(after[n - 1], runs[n], up)]
  BY StatesExist
<1>2. apply_transaction_ops(p, runs, up) = after[Len(runs)]
  BY DEF apply_transaction_ops
<1> HIDE DEF after
<1>3. after[0] = Begin(p)
  BY <1>1
<1>4. \A n \in 1..Len(runs) : after[n] = EditBuffer(after[n - 1], runs[n], up)
  BY <1>1
<1> QED BY <1>2, <1>3, <1>4

\* f continues the text `base` with edits numbered from n + 1 to its last one.
Continues(f, base, n) ==
  /\ IsPrefix(base, f.text)
  /\ n <= f.last
  /\ \A i \in 1..Len(f.text) : i > Len(base) => f.text[i] \in ((n + 1)..f.last) \X Origins

LEMMA ContinuesStep ==
  ASSUME NEW f, NEW g, NEW base \in Texts, NEW n \in Nat, f.text \in Texts, f.last \in Nat,
         Continues(f, base, n), g.text = Append(f.text, <<f.last + 1, "local">>), g.last = f.last + 1
  PROVE  Continues(g, base, n) /\ Len(base) < Len(g.text)
<1> DEFINE t == f.text
           e == <<f.last + 1, "local">>
           Right(x) == x \in ((n + 1)..g.last) \X Origins
<1>1. e \in Nat \X Origins /\ Right(e)
  <2>1. f.last + 1 \in Nat /\ f.last + 1 \in (n + 1)..g.last
    BY DEF Continues
  <2>2. "local" \in Origins
    BY DEF Origins
  <2> QED BY <2>1, <2>2, Zenon
<1>2. IsPrefix(base, t) /\ t \in Texts
  BY DEF Continues
<1>3. \A i \in 1..Len(t) : i > Len(base) => Right(t[i])
  <2>1. (n + 1)..f.last \subseteq (n + 1)..g.last
    OBVIOUS
  <2> QED BY <2>1, Zenon DEF Continues
<1>4. g.text = Append(t, e)
  OBVIOUS
<1> HIDE DEF t, e, Right
<1>5. IsPrefix(base, g.text)
  <2>1. IsPrefix(base, Append(t, e))
    BY <1>1, <1>2, SuffixOfAppend, Zenon DEF Texts
  <2> QED BY <1>4, <2>1, Zenon
<1>6. Len(base) \in Nat /\ Len(base) <= Len(t) /\ Len(t) \in Nat
  BY <1>2, PrefixByPlace DEF Texts
<1>7. Len(g.text) = Len(t) + 1 /\ \A i \in 1..Len(g.text) : g.text[i] = IF i <= Len(t) THEN t[i] ELSE e
  <2> DEFINE u == Append(t, e)
  <2>1. Len(u) = Len(t) + 1 /\ \A i \in 1..Len(u) : u[i] = IF i <= Len(t) THEN t[i] ELSE e
    <3> DEFINE E == Nat \X Origins
    <3>1. t \in Seq(E) /\ e \in E
      BY <1>1, <1>2 DEF Texts
    <3> HIDE DEF E
    <3> QED BY <3>1, <1>6
  <2> HIDE DEF u
  <2>2. g.text = u
    BY <1>4 DEF u
  <2> QED BY <2>1, <2>2, Zenon
<1>8. \A i \in 1..Len(g.text) : i > Len(base) => Right(g.text[i])
  BY <1>1, <1>3, <1>6, <1>7
<1>9. n <= g.last
  BY DEF Continues
<1>10. Continues(g, base, n)
  BY <1>5, <1>8, <1>9, Zenon DEF Continues, Right
<1>11. Len(base) < Len(g.text)
  BY <1>6, <1>7
<1> QED BY <1>10, <1>11

\* Whatever fails in it, a transaction leaves a buffer that its store entry is
\* behind, or that is at risk, and continues the text that it began with.
LEMMA Transaction ==
  ASSUME NEW p, NEW runs \in Transactions, NEW up \in BOOLEAN, edits \in Nat,
         InProgress(Begin(p)), Begin(p).text \in Texts
  PROVE  LET f == apply_transaction_ops(p, runs, up)
         IN InProgress(f) /\ Continues(f, Begin(p).text, edits) /\ Len(Begin(p).text) < Len(f.text)
<1> DEFINE base == Begin(p).text
           N == Len(runs)
           Right(f) == Fields(f) /\ InProgress(f) /\ Continues(f, base, edits)
<1>1. N \in Nat \ {0} /\ \A n \in 1..N : runs[n] \in {"char", "run"}
  <2>1. PICK k \in 1..MaxRun : runs \in [1..k -> {"char", "run"}]
    BY DEF Transactions
  <2>2. k \in Nat \ {0}
    BY ConstantsAssumption
  <2>3. N = k
    BY <2>1, <2>2
  <2> QED BY <2>1, <2>2, <2>3
<1>2. PICK h : /\ apply_transaction_ops(p, runs, up) = h[N]
               /\ h[0] = Begin(p)
               /\ \A n \in 1..N : h[n] = EditBuffer(h[n - 1], runs[n], up)
  BY <1>1, StatesOf
<1>3. Fields(Begin(p)) /\ Begin(p).ok = TRUE /\ Begin(p).last = edits /\ base \in Texts
  BY DEF Begin, Fields
<1>4. Right(Begin(p))
  <2>1. IsPrefix(base, base)
    BY <1>3, SuffixOfSelf DEF Texts
  <2> QED BY <1>3, <2>1 DEF Continues
<1> DEFINE S == {n \in Nat : n <= N => /\ Right(h[n])
                                       /\ n = 0 => h[n].ok = TRUE
                                       /\ n # 0 => Len(base) < Len(h[n].text)}
<1> HIDE DEF base
<1>5. 0 \in S
  BY <1>2, <1>3, <1>4
<1>6. ASSUME NEW n \in S, n + 1 <= N PROVE Right(h[n + 1]) /\ Len(base) < Len(h[n + 1].text)
  <2> DEFINE f == h[n]
             g == h[n + 1]
  <2>1. n \in Nat /\ n + 1 \in 1..N /\ (n + 1) - 1 = n /\ n <= N
    BY <1>1, <1>6
  <2>2. Right(f) /\ (n = 0 => f.ok = TRUE) /\ (n # 0 => Len(base) < Len(f.text))
    BY <2>1
  <2>3. g = EditBuffer(f, runs[n + 1], up) /\ runs[n + 1] \in {"char", "run"}
    BY <1>1, <1>2, <2>1
  <2> HIDE DEF f, g
  <2>4. /\ Fields(g) /\ InProgress(g) /\ ~f.ok => g = f
        /\ f.ok => g.text = Append(f.text, <<f.last + 1, "local">>) /\ g.last = f.last + 1
    BY <2>2, <2>3, EditBufferStep, Zenon
  <2>41. Fields(g) /\ InProgress(g)
    BY <2>2, <2>3, EditBufferStep, Zenon
  <2>5. CASE ~f.ok
    <3>1. n # 0 /\ g = f
      BY <2>2, <2>4, <2>41, <2>5, Zenon
    <3> QED BY <2>2, <3>1, Zenon DEF g
  <2>6. CASE f.ok
    <3>1. g.text = Append(f.text, <<f.last + 1, "local">>) /\ g.last = f.last + 1
      BY <2>4, <2>41, <2>6, Zenon
    <3>2. f.last \in Nat /\ f.text \in Texts
      BY <2>2, TextsAreTexts DEF InProgress
    <3>3. Continues(g, base, edits) /\ Len(base) < Len(g.text)
      BY <1>3, <2>2, <3>1, <3>2, ContinuesStep
    <3> QED BY <2>41, <3>3, Zenon DEF g
  <2> QED BY <2>5, <2>6, Zenon
<1>7. ASSUME NEW n \in S PROVE n + 1 \in S
  <2>1. n \in Nat /\ n + 1 \in Nat /\ n + 1 # 0
    OBVIOUS
  <2>2. n + 1 <= N => Right(h[n + 1]) /\ Len(base) < Len(h[n + 1].text)
    BY <1>6
  <2> HIDE DEF Right
  <2> QED BY <2>1, <2>2
<1> HIDE DEF Right
<1>8. S = Nat
  <2>1. S \in SUBSET Nat
    OBVIOUS
  <2> HIDE DEF S
  <2> QED BY <1>5, <1>7, <2>1, Reach
<1>9. Right(h[N]) /\ Len(base) < Len(h[N].text)
  <2>1. N \in S
    BY <1>1, <1>8
  <2> HIDE DEF N
  <2> QED BY <1>1, <2>1
<1> QED BY <1>2, <1>9 DEF Right, base

-----------------------------------------------------------------------------
(* Folders. *)

\* Two sequences joined, place by place.
LEMMA JoinedByPlace ==
  ASSUME NEW S, NEW s \in Seq(S), NEW t \in Seq(S)
  PROVE  /\ s \o t \in Seq(S) /\ Len(s \o t) = Len(s) + Len(t)
         /\ \A i \in 1..Len(s \o t) : (s \o t)[i] = IF i <= Len(s) THEN s[i] ELSE t[i - Len(s)]
<1>1. s \o t \in Seq(S)
  OBVIOUS
<1>2. Len(s \o t) = Len(s) + Len(t)
  OBVIOUS
<1>3. ASSUME NEW i \in 1..(Len(s) + Len(t))
      PROVE  (s \o t)[i] = IF i <= Len(s) THEN s[i] ELSE t[i - Len(s)]
  OBVIOUS
<1> QED BY <1>1, <1>2, <1>3

LEMMA PathsAreSequences ==
  ASSUME NEW p \in Paths \cup Folders
  PROVE  p \in Seq(Components)
  BY PathsAssumption

\* No path is beneath two folders that are apart.
LEMMA ApartBeneath ==
  ASSUME NEW from \in Folders, NEW to \in Folders, Disjoint(from, to)
  PROVE  Beneath(from) \cap Beneath(to) = {}
<1> SUFFICES ASSUME NEW p \in Paths, IsPrefix(from, p), IsPrefix(to, p) PROVE FALSE
  BY DEF Beneath
<1>1. p \in Seq(Components) /\ from \in Seq(Components) /\ to \in Seq(Components)
  BY PathsAreSequences
<1>2. /\ Len(from) \in Nat /\ Len(to) \in Nat
      /\ Len(from) <= Len(p) /\ \A i \in 1..Len(from) : from[i] = p[i]
      /\ Len(to) <= Len(p) /\ \A i \in 1..Len(to) : to[i] = p[i]
  BY <1>1, PrefixByPlace
<1>3. CASE Len(from) <= Len(to)
  <2>1. \A i \in 1..Len(from) : from[i] = to[i]
    BY <1>2, <1>3
  <2>2. IsPrefix(from, to)
    BY <1>1, <1>3, <2>1, PrefixByPlace
  <2> QED BY <2>2 DEF Disjoint
<1>4. CASE Len(to) <= Len(from)
  <2>1. \A i \in 1..Len(to) : to[i] = from[i]
    BY <1>2, <1>4
  <2>2. IsPrefix(to, from)
    BY <1>1, <1>4, <2>1, PrefixByPlace
  <2> QED BY <2>2 DEF Disjoint
<1> QED BY <1>2, <1>3, <1>4

\* A file that is relocated comes from one place.
LEMMA RebasedBack ==
  ASSUME NEW from \in Folders, NEW to \in Folders, FitsInto(from, to), NEW q \in Beneath(from)
  PROVE  /\ Rebased(q, from, to) \in Beneath(to)
         /\ Rebased(Rebased(q, from, to), to, from) = q
<1> DEFINE C == Components
           rest == SubSeq(q, Len(from) + 1, Len(q))
           p == to \o rest
<1>1. q \in Seq(C) /\ from \in Seq(C) /\ to \in Seq(C) /\ IsPrefix(from, q)
  BY PathsAreSequences DEF Beneath
<1>2. p = Rebased(q, from, to) /\ p \in Paths
  BY DEF Rebased, FitsInto
<1> HIDE DEF C
<1>3. /\ Len(from) \in Nat /\ Len(to) \in Nat /\ Len(q) \in Nat /\ Len(from) <= Len(q)
      /\ \A i \in 1..Len(from) : from[i] = q[i]
  BY <1>1, PrefixByPlace
<1>4. rest \in Seq(C) /\ Len(rest) = Len(q) - Len(from) /\ \A i \in 1..Len(rest) : rest[i] = q[Len(from) + i]
  BY <1>1, <1>3
<1> HIDE DEF rest
<1>5. /\ p \in Seq(C) /\ Len(p) = Len(to) + Len(rest)
      /\ \A i \in 1..Len(p) : p[i] = IF i <= Len(to) THEN to[i] ELSE rest[i - Len(to)]
  BY <1>1, <1>4, JoinedByPlace
<1> HIDE DEF p
<1>6. IsPrefix(to, p)
  <2>1. Len(to) <= Len(p) /\ \A i \in 1..Len(to) : to[i] = p[i]
    <3>1. Len(rest) \in Nat /\ Len(p) \in Nat
      BY <1>4, <1>5
    <3>2. Len(to) <= Len(p)
      BY <1>3, <1>5, <3>1
    <3>3. ASSUME NEW i \in 1..Len(to) PROVE to[i] = p[i]
      <4>1. i \in 1..Len(p) /\ i <= Len(to)
        BY <1>3, <3>1, <3>2
      <4> QED BY <1>5, <4>1
    <3> QED BY <3>2, <3>3
  <2> QED BY <1>1, <1>5, <2>1, PrefixByPlace
<1>7. from \o SubSeq(p, Len(to) + 1, Len(p)) = q
  <2> DEFINE tail == SubSeq(p, Len(to) + 1, Len(p))
             back == from \o tail
  <2>1. /\ tail \in Seq(C) /\ Len(tail) = Len(rest)
        /\ \A i \in 1..Len(tail) : tail[i] = p[Len(to) + i]
    BY <1>3, <1>4, <1>5
  <2>2. \A i \in 1..Len(tail) : tail[i] = rest[i]
    <3> SUFFICES ASSUME NEW i \in 1..Len(tail) PROVE tail[i] = rest[i]
      OBVIOUS
    <3>1. Len(to) + i \in 1..Len(p) /\ ~(Len(to) + i <= Len(to)) /\ (Len(to) + i) - Len(to) = i
      BY <1>3, <1>4, <1>5, <2>1
    <3>2. p[Len(to) + i] = rest[i]
      BY <1>5, <3>1
    <3> QED BY <2>1, <3>2
  <2> HIDE DEF tail
  <2>3. /\ back \in Seq(C) /\ Len(back) = Len(q)
        /\ \A i \in 1..Len(back) : back[i] = IF i <= Len(from) THEN from[i] ELSE tail[i - Len(from)]
    <3>1. tail \in Seq(C) /\ Len(from) + Len(tail) = Len(q)
      BY <1>3, <1>4, <2>1
    <3>2. /\ back \in Seq(C) /\ Len(back) = Len(from) + Len(tail)
          /\ \A i \in 1..Len(back) : back[i] = IF i <= Len(from) THEN from[i] ELSE tail[i - Len(from)]
      BY <1>1, <3>1, JoinedByPlace
    <3> QED BY <3>1, <3>2
  <2> HIDE DEF back
  <2>4. ASSUME NEW i \in 1..Len(q) PROVE back[i] = q[i]
    <3>1. CASE i <= Len(from)
      BY <1>3, <2>3, <3>1
    <3>2. CASE ~(i <= Len(from))
      <4>1. i - Len(from) \in 1..Len(rest) /\ Len(from) + (i - Len(from)) = i
        BY <1>3, <1>4, <3>2
      <4>2. back[i] = tail[i - Len(from)]
        BY <2>3, <3>2
      <4> QED BY <1>4, <2>1, <2>2, <4>1, <4>2
    <3> QED BY <3>1, <3>2
  <2>5. back = q
    BY <1>1, <2>3, <2>4, SeqEqual
  <2> QED BY <2>5 DEF back, tail
<1>8. p \in Beneath(to)
  BY <1>2, <1>6 DEF Beneath
<1> QED BY <1>2, <1>7, <1>8 DEF Rebased

\* What is relocated is beneath the destination, and is to be found at the source.
LEMMA RelocatedFrom ==
  ASSUME NEW from \in Folders, NEW to \in Folders, FitsInto(from, to), NEW tree,
         NEW p \in Relocated(tree, from, to)
  PROVE  /\ p \in Beneath(to) /\ Rebased(p, to, from) \in Beneath(from)
         /\ Rebased(p, to, from) \in Paths /\ tree[Rebased(p, to, from)] # NoFile
<1>1. PICK q \in Beneath(from) \cap Present(tree) : p = Rebased(q, from, to)
  BY DEF Relocated
<1>2. Rebased(p, to, from) = q /\ p \in Beneath(to)
  BY <1>1, RebasedBack
<1> QED BY <1>1, <1>2 DEF Present, Beneath

-----------------------------------------------------------------------------
(* The inductive invariant. *)

Trees(n) == [Paths -> TextsUpTo(n) \cup {NoFile}]
Buffers(n) == [text : TextsUpTo(n), ops_since_save : Nat]

GTypeOK ==
  /\ edits \in Nat /\ store \in Trees(edits)
  /\ resident \subseteq Paths /\ file_map \in [resident -> Buffers(edits)]
  /\ atRisk \subseteq resident
  /\ lapses \in Nat /\ crashes \in Nat /\ faults \in 0..MaxFaults

\* The buffer of p has its type, and only a reported failure keeps it from
\* running ahead of the store.
Sound(p) ==
  /\ file_map[p] \in Buffers(edits)
  /\ p \in atRisk \/ Behind(store[p], file_map[p].text, file_map[p].ops_since_save)

IInv == GTypeOK /\ BufferRunsAhead

LEMMA SoundBuffers ==
  ASSUME IInv, NEW p \in resident
  PROVE  Sound(p) /\ p \in Paths
  BY DEF IInv, GTypeOK, BufferRunsAhead, Sound, Behind

LEMMA BuffersGrow ==
  ASSUME NEW n \in Nat, NEW m \in Nat, n <= m
  PROVE  Buffers(n) \subseteq Buffers(m) /\ Trees(n) \subseteq Trees(m)
<1>1. TextsUpTo(n) \subseteq TextsUpTo(m)
  BY TextsGrow
<1> QED BY <1>1 DEF Buffers, Trees

\* A step keeps the invariant if every buffer it leaves in the map is one that it
\* did not touch, or one that is sound.
LEMMA Assemble ==
  ASSUME IInv, NEW R \in SUBSET Paths, file_map' = [p \in R |-> file_map'[p]],
         edits' \in Nat, edits <= edits', store' \in Trees(edits'), atRisk' \subseteq R,
         lapses' \in Nat, crashes' \in Nat, faults' \in 0..MaxFaults,
         \A p \in R : \/ /\ p \in resident /\ file_map'[p] = file_map[p]
                         /\ store'[p] = store[p] /\ (p \in atRisk => p \in atRisk')
                      \/ Sound(p)'
  PROVE  IInv'
<1>1. resident' = R
  BY DEF resident
<1>2. ASSUME NEW p \in R PROVE Sound(p)'
  <2>1. CASE /\ p \in resident /\ file_map'[p] = file_map[p]
             /\ store'[p] = store[p] /\ (p \in atRisk => p \in atRisk')
    <3>1. Sound(p)
      BY <2>1, SoundBuffers
    <3>2. Buffers(edits) \subseteq Buffers(edits')
      BY BuffersGrow DEF IInv, GTypeOK
    <3> QED BY <2>1, <3>1, <3>2 DEF Sound
  <2> QED BY <2>1, <1>2
<1>3. file_map' \in [resident' -> Buffers(edits')]
  <2>1. \A p \in R : file_map'[p] \in Buffers(edits')
    BY <1>2 DEF Sound
  <2> QED BY <1>1, <2>1
<1>4. GTypeOK'
  BY <1>1, <1>3 DEF GTypeOK
<1>5. BufferRunsAhead'
  <2>1. ASSUME NEW p \in R, p \notin atRisk'
        PROVE  Behind(store'[p], file_map'[p].text, file_map'[p].ops_since_save)
    BY <1>2, <2>1 DEF Sound
  <2> QED BY <1>1, <2>1 DEF BufferRunsAhead, Behind
<1> QED BY <1>4, <1>5 DEF IInv

\* What is read from the store, or has just been saved, is sound.
LEMMA FreshIsSound ==
  ASSUME NEW t \in TextsUpTo(edits), edits \in Nat
  PROVE  /\ from_string(t) \in Buffers(edits)
         /\ Behind(t, from_string(t).text, from_string(t).ops_since_save)
<1>1. from_string(t) = [text |-> t, ops_since_save |-> 0]
  BY DEF from_string
<1>2. t \in Texts
  BY TextsAreTexts
<1>3. Behind(t, t, 0)
  BY <1>2, BehindSelf
<1> QED BY <1>1, <1>3 DEF Buffers

LEMMA FaultCounted ==
  ASSUME IInv, NEW touched, NEW down \in Outages(touched), NEW works \in BOOLEAN,
         works \in Outcomes, CountFault(down, works)
  PROVE  /\ faults' \in 0..MaxFaults /\ down \subseteq touched
         /\ faults' = faults => down = {} /\ works
<1>1. faults \in 0..MaxFaults /\ MaxFaults \in Nat
  BY ConstantsAssumption DEF IInv, GTypeOK
<1>2. faults' = IF down = {} /\ works THEN faults ELSE faults + 1
  BY Zenon DEF CountFault
<1>3. CASE faults < MaxFaults
  <2>1. down \subseteq touched
    BY <1>3 DEF Outages
  <2>2. faults \in 0..MaxFaults /\ faults + 1 \in 0..MaxFaults /\ faults + 1 # faults
    BY <1>1, <1>3
  <2> QED BY <1>2, <2>1, <2>2, Zenon
<1>4. CASE ~(faults < MaxFaults)
  <2>1. down = {} /\ works
    BY <1>4, Zenon DEF Outages, Outcomes
  <2> QED BY <1>1, <1>2, <2>1, Zenon
<1> QED BY <1>3, <1>4

LEMMA OutcomesAre == Outcomes \subseteq BOOLEAN /\ TRUE \in Outcomes
  BY DEF Outcomes

LEMMA LapseCounted ==
  ASSUME IInv, NEW lost, CountLapse(lost)
  PROVE  /\ lapses' \in Nat
         /\ \/ lapses' = lapses /\ \A p \in lost \cap resident : file_map[p].text = store[p]
            \/ lapses' = lapses + 1
  BY DEF IInv, GTypeOK, CountLapse

-----------------------------------------------------------------------------
(* What the operations make of the store. *)

LEMMA FlushedTree ==
  ASSUME IInv, NEW ps, NEW down
  PROVE  /\ Flushed(ps, down) \in Trees(edits)
         /\ \A q \in Paths : q \notin ps => Flushed(ps, down)[q] = store[q]
         /\ \A q \in resident : q \in ps /\ q \notin down => Flushed(ps, down)[q] = file_map[q].text
         /\ \A q \in Paths : q \notin resident => Flushed(ps, down)[q] = store[q]
         /\ \A q \in Paths : q \in down => Flushed(ps, down)[q] = store[q]
<1>1. \A q \in resident : q \in Paths /\ file_map[q].text \in TextsUpTo(edits)
  BY DEF IInv, GTypeOK, Buffers
<1>2. store \in Trees(edits)
  BY DEF IInv, GTypeOK
<1> QED BY <1>1, <1>2 DEF Flushed, Trees

LEMMA FileTrees ==
  ASSUME NEW n \in Nat, NEW tree \in Trees(n), NEW from \in Paths, NEW to \in Paths
  PROVE  /\ FileMoved(tree, from, to) \in Trees(n)
         /\ FileCopied(tree, from, to) \in Trees(n)
         /\ \A q \in Paths \ {to} : FileCopied(tree, from, to)[q] = tree[q]
         /\ \A q \in Paths \ {from, to} : FileMoved(tree, from, to)[q] = tree[q]
         /\ FileCopied(tree, from, to)[to] = tree[from]
         /\ FileMoved(tree, from, to)[to] = tree[from]
         /\ from # to => FileMoved(tree, from, to)[from] = NoFile
  BY DEF FileMoved, FileCopied, Trees

LEMMA WithoutTree ==
  ASSUME NEW n \in Nat, NEW tree \in Trees(n), NEW gone
  PROVE  /\ Without(tree, gone) \in Trees(n)
         /\ \A q \in Paths : Without(tree, gone)[q] = IF q \in gone THEN NoFile ELSE tree[q]
  BY DEF Without, Trees

LEMMA FolderTrees ==
  ASSUME NEW n \in Nat, NEW tree \in Trees(n), NEW from \in Folders, NEW to \in Folders,
         FitsInto(from, to)
  PROVE  /\ FolderMoved(tree, from, to) \in Trees(n)
         /\ FolderCopied(tree, from, to) \in Trees(n)
         /\ \A q \in Paths \ Beneath(to) : FolderCopied(tree, from, to)[q] = tree[q]
         /\ \A q \in Paths \ (Beneath(from) \cup Beneath(to)) : FolderMoved(tree, from, to)[q] = tree[q]
<1>1. \A p \in Relocated(tree, from, to) :
        p \in Beneath(to) /\ Rebased(p, to, from) \in Paths
  BY RelocatedFrom
<1>2. FolderCopied(tree, from, to) \in Trees(n)
  BY <1>1 DEF FolderCopied, Trees
<1>3. FolderMoved(tree, from, to) \in Trees(n)
  BY <1>1 DEF FolderMoved, Trees
<1>4. \A q \in Paths \ Beneath(to) : FolderCopied(tree, from, to)[q] = tree[q]
  BY <1>1 DEF FolderCopied
<1>5. \A q \in Paths \ (Beneath(from) \cup Beneath(to)) : FolderMoved(tree, from, to)[q] = tree[q]
  BY <1>1 DEF FolderMoved
<1> QED BY <1>2, <1>3, <1>4, <1>5

-----------------------------------------------------------------------------
(* The steps. *)

\* A file that can be loaded begins a transaction in order.
LEMMA BeginInProgress ==
  ASSUME IInv, NEW p \in Paths, Loadable(p)
  PROVE  /\ get_file(p) \in Buffers(edits)
         /\ InProgress(Begin(p)) /\ Begin(p).text \in TextsUpTo(edits)
         /\ Begin(p).text = get_file(p).text /\ Begin(p).last = edits
<1>1. edits \in Nat /\ store[p] \in TextsUpTo(edits) \cup {NoFile} /\ atRisk \subseteq resident
  BY DEF IInv, GTypeOK, Trees
<1>2. CASE p \in resident
  <2>1. get_file(p) = file_map[p]
    BY <1>2 DEF get_file
  <2>2. Sound(p)
    BY <1>2, SoundBuffers
  <2>3. /\ Begin(p).text = file_map[p].text /\ Begin(p).ops = file_map[p].ops_since_save
        /\ Begin(p).disk = store[p] /\ Begin(p).last = edits /\ Begin(p).risk = (p \in atRisk)
        /\ Begin(p).ok = TRUE
    BY <2>1 DEF Begin
  <2>4. /\ file_map[p] \in Buffers(edits)
        /\ file_map[p].text \in TextsUpTo(edits) /\ file_map[p].ops_since_save \in Nat
    BY <2>2 DEF Sound, Buffers
  <2>5. ~Begin(p).risk => Behind(Begin(p).disk, Begin(p).text, Begin(p).ops)
    BY <2>2, <2>3, Zenon DEF Sound
  <2>6. Begin(p).risk \in BOOLEAN /\ Begin(p).ok \in BOOLEAN /\ Begin(p).ok
    <3>1. (p \in atRisk) \in BOOLEAN
      OBVIOUS
    <3> QED BY <2>3, <3>1, Zenon
  <2>7. InProgress(Begin(p))
    BY <1>1, <2>3, <2>4, <2>5, <2>6, Zenon DEF InProgress
  <2> QED BY <2>1, <2>3, <2>4, <2>7
<1>3. CASE p \notin resident
  <2>1. store[p] \in TextsUpTo(edits) /\ get_file(p) = from_string(store[p])
    BY <1>1, <1>3 DEF get_file, Loadable
  <2>2. get_file(p) \in Buffers(edits) /\ Behind(store[p], get_file(p).text, get_file(p).ops_since_save)
    BY <1>1, <2>1, FreshIsSound
  <2>3. p \notin atRisk
    BY <1>1, <1>3
  <2> QED BY <1>1, <2>1, <2>2, <2>3 DEF InProgress, Begin, Buffers
<1> QED BY <1>2, <1>3

\* The end of a transaction, with the buffer and the durable text it came to.
LEMMA CommitStep ==
  ASSUME IInv, NEW p \in Paths, NEW f, InProgress(f), edits <= f.last, Commit(p, f),
         faults' \in 0..MaxFaults
  PROVE  IInv'
<1> DEFINE R == resident \cup {p}
           b == [text |-> f.text, ops_since_save |-> f.ops]
<1>1. /\ edits \in Nat /\ store \in Trees(edits) /\ resident \subseteq Paths
      /\ atRisk \subseteq resident /\ lapses \in Nat /\ crashes \in Nat
  BY DEF IInv, GTypeOK
<1>2. /\ f.last \in Nat /\ b \in Buffers(f.last) /\ f.disk \in TextsUpTo(f.last) \cup {NoFile}
      /\ edits' = f.last
  BY DEF InProgress, Buffers, Commit
<1>3. f.risk \/ Behind(f.disk, f.text, f.ops)
  BY Zenon DEF InProgress
<1>4. store' \in Trees(edits') /\ store'[p] = f.disk /\ \A q \in Paths \ {p} : store'[q] = store[q]
  <2>1. Trees(edits) \subseteq Trees(f.last)
    BY <1>1, <1>2, BuffersGrow
  <2>2. store' = [store EXCEPT ![p] = f.disk]
    BY DEF Commit
  <2> QED BY <1>1, <1>2, <2>1, <2>2 DEF Trees
<1>5. /\ file_map' = [q \in R |-> IF q = p THEN b ELSE file_map[q]]
      /\ UNCHANGED <<lapses, crashes>>
  BY DEF Commit, Keep
<1>6. atRisk' = IF f.risk THEN atRisk \cup {p} ELSE atRisk \ {p}
  BY Zenon DEF Commit
<1>7. Sound(p)'
  <2>1. file_map'[p] = b
    BY <1>5
  <2>2. p \in atRisk' \/ Behind(f.disk, f.text, f.ops)
    BY <1>3, <1>6, Zenon
  <2> HIDE DEF Behind
  <2> QED BY <1>2, <1>4, <2>1, <2>2 DEF Sound
<1>8. \A q \in R \ {p} : /\ q \in resident /\ file_map'[q] = file_map[q]
                         /\ store'[q] = store[q] /\ (q \in atRisk => q \in atRisk')
  BY <1>1, <1>4, <1>5, <1>6
<1>9. R \in SUBSET Paths /\ file_map' = [q \in R |-> file_map'[q]] /\ atRisk' \subseteq R
  BY <1>1, <1>5, <1>6
<1> HIDE DEF R, b
<1> QED BY <1>1, <1>2, <1>4, <1>5, <1>7, <1>8, <1>9, Assemble

LEMMA TransactionStep ==
  ASSUME IInv, NEW p \in Paths, apply_transaction(p)
  PROVE  IInv'
<1>1. PICK runs \in Transactions, down \in Outages({p}) :
        /\ Commit(p, apply_transaction_ops(p, runs, down = {}))
        /\ CountFault(down, TRUE)
  BY Zenon DEF apply_transaction
<1>2. Loadable(p) /\ edits \in Nat
  BY DEF apply_transaction, IInv, GTypeOK
<1>3. InProgress(Begin(p)) /\ Begin(p).text \in Texts
  BY <1>2, BeginInProgress, TextsAreTexts
<1>4. (down = {}) \in BOOLEAN
  OBVIOUS
<1>5. /\ InProgress(apply_transaction_ops(p, runs, down = {}))
      /\ edits <= apply_transaction_ops(p, runs, down = {}).last
  BY <1>2, <1>3, <1>4, Transaction DEF Continues
<1>6. faults' \in 0..MaxFaults
  BY <1>1, FaultCounted, OutcomesAre
<1> QED BY <1>1, <1>5, <1>6, CommitStep

\* What write puts in place of the buffer.
Written(f, t, n) == [f EXCEPT !.text = t, !.ops = 0, !.last = n]

LEMMA WrittenFields ==
  ASSUME NEW f, Fields(f), NEW t, NEW n
  PROVE  LET w == Written(f, t, n)
         IN /\ Fields(w) /\ w.last = n /\ w.ops = 0 /\ w.ok = f.ok /\ w.text = t /\ w.disk = f.disk
<1> DEFINE w == Written(f, t, n)
<1>1. w = [f EXCEPT !.text = t, !.ops = 0, !.last = n]
  BY DEF Written
<1> HIDE DEF w
<1>2. w = [text |-> t, ops |-> 0, disk |-> f.disk, last |-> n, risk |-> f.risk, ok |-> f.ok]
  BY <1>1 DEF Fields
<1>3. /\ Fields(w) /\ w.last = n /\ w.ops = 0 /\ w.ok = f.ok /\ w.text = t /\ w.disk = f.disk
  BY <1>2 DEF Fields
<1> QED BY <1>3 DEF w

LEMMA WriteStep ==
  ASSUME IInv, NEW p \in Paths, write(p)
  PROVE  IInv'
<1> DEFINE written == Written(Begin(p), << <<edits + 1, "local">> >>, edits + 1)
<1>1. PICK down \in Outages({p}) :
        Commit(p, save(written, down = {})) /\ CountFault(down, TRUE)
  BY Zenon DEF write, Written
<1>2. edits \in Nat /\ store[p] \in TextsUpTo(edits) \cup {NoFile}
  BY DEF IInv, GTypeOK, Trees
<1>3. << <<edits + 1, "local">> >> \in TextsUpTo(edits + 1)
  <2>1. edits + 1 \in 0..(edits + 1)
    BY <1>2
  <2>2. <<edits + 1, "local">> \in (0..(edits + 1)) \X Origins
    BY <2>1, Zenon DEF Origins
  <2> QED BY <2>2 DEF TextsUpTo
<1>4. TextsUpTo(edits) \subseteq TextsUpTo(edits + 1)
  BY <1>2, TextsGrow
<1>5. /\ Fields(written) /\ written.last = edits + 1 /\ written.ops = 0 /\ written.ok = TRUE
      /\ written.text = << <<edits + 1, "local">> >> /\ written.disk = store[p]
  <2> DEFINE t == << <<edits + 1, "local">> >>
             n == edits + 1
             f == Begin(p)
             w == Written(f, t, n)
  <2>1. Fields(f) /\ f.ok = TRUE /\ f.disk = store[p]
    BY DEF Begin, Fields
  <2> HIDE DEF t, n, f
  <2>2. Fields(w) /\ w.last = n /\ w.ops = 0 /\ w.ok = f.ok /\ w.text = t /\ w.disk = f.disk
    BY <2>1, WrittenFields
  <2> QED BY <2>1, <2>2 DEF t, n, f
<1> HIDE DEF written
<1> DEFINE up == down = {}
<1>6. up \in BOOLEAN
  OBVIOUS
<1> HIDE DEF up
<1>7. InProgress(save(written, up))
  <2>1. /\ written.last \in Nat /\ written.ops \in Nat /\ written.text \in TextsUpTo(written.last)
        /\ written.disk \in TextsUpTo(written.last) \cup {NoFile}
    BY <1>2, <1>3, <1>4, <1>5
  <2> QED BY <1>5, <1>6, <2>1, SaveInProgress
<1>8. save(written, up).last = edits + 1
  <2>1. save(written, up).last = written.last
    <3>1. CASE up
      BY <1>5, <3>1 DEF save, Fields
    <3>2. CASE ~up
      BY <1>5, <3>2 DEF save, Fields
    <3> QED BY <3>1, <3>2
  <2> QED BY <1>5, <2>1
<1>9. faults' \in 0..MaxFaults
  BY <1>1, FaultCounted, OutcomesAre
<1>10. edits <= save(written, up).last
  BY <1>2, <1>8
<1>11. Commit(p, save(written, up))
  BY <1>1 DEF up
<1> QED BY <1>7, <1>9, <1>10, <1>11, CommitStep

\* A relayed edit leaves a buffer as far behind in local edits as it was.
LEMMA UpdateStep ==
  ASSUME IInv, NEW p \in Paths, apply_update(p)
  PROVE  IInv'
<1> DEFINE old == get_file(p)
           e == <<edits + 1, "remote">>
           b == [old EXCEPT !.text = Append(@, e)]
           R == resident \cup {p}
<1>1. /\ edits \in Nat /\ store \in Trees(edits) /\ resident \subseteq Paths /\ edits' = edits + 1
      /\ atRisk \subseteq resident /\ lapses \in Nat /\ crashes \in Nat /\ faults \in 0..MaxFaults
      /\ UNCHANGED <<store, atRisk, lapses, crashes, faults>>
  BY DEF IInv, GTypeOK, apply_update
<1>2. old \in Buffers(edits) /\ InProgress(Begin(p)) /\ Begin(p).text = old.text
  BY BeginInProgress DEF apply_update
<1>3. Begin(p).ops = old.ops_since_save /\ Begin(p).disk = store[p] /\ Begin(p).ok = TRUE
  BY DEF Begin
<1>4. Begin(p).risk <=> p \in atRisk
  BY Zenon DEF Begin
<1>5. p \in atRisk \/ Behind(store[p], old.text, old.ops_since_save)
  BY <1>2, <1>3, <1>4, Zenon DEF InProgress
<1>6. file_map' = [q \in R |-> IF q = p THEN b ELSE file_map[q]]
  BY DEF apply_update, Keep
<1> HIDE DEF old
<1>7. old.text \in TextsUpTo(edits) /\ old.ops_since_save \in Nat
  BY <1>2 DEF Buffers
<1>8. Append(old.text, e) \in TextsUpTo(edits + 1)
  BY <1>1, <1>7, TextTyped DEF Origins
<1>9. e \in Nat \X Origins /\ e[2] # "local"
  <2>1. edits + 1 \in Nat
    BY <1>1
  <2>2. e \in Nat \X Origins
    BY <2>1, Zenon DEF Origins
  <2> QED BY <2>2
<1>10. b.text = Append(old.text, e) /\ b.ops_since_save = old.ops_since_save /\ b \in Buffers(edits + 1)
  <2> DEFINE t == Append(old.text, e)
  <2>1. b = [text |-> t, ops_since_save |-> old.ops_since_save]
    BY <1>2 DEF Buffers
  <2>2. t \in TextsUpTo(edits + 1)
    BY <1>8
  <2> HIDE DEF t, b
  <2> QED BY <1>7, <2>1, <2>2 DEF Buffers, t
<1> HIDE DEF b, e
<1>11. p \in atRisk \/ Behind(store[p], b.text, b.ops_since_save)
  <2>1. ASSUME Behind(store[p], old.text, old.ops_since_save)
        PROVE  Behind(store[p], Append(old.text, e), old.ops_since_save)
    <3>1. store[p] \in Texts /\ old.text \in Texts
      BY <1>1, <1>7, <2>1, TextsAreTexts DEF Behind, Trees
    <3> QED BY <1>7, <1>9, <2>1, <3>1, BehindAppend
  <2> QED BY <1>5, <1>10, <2>1
<1>12. Sound(p)'
  <2>1. file_map'[p] = b
    BY <1>6
  <2> HIDE DEF Behind
  <2> QED BY <1>1, <1>10, <1>11, <2>1 DEF Sound
<1>13. /\ edits' \in Nat /\ edits <= edits' /\ store' \in Trees(edits') /\ atRisk' \subseteq R
       /\ R \in SUBSET Paths /\ file_map' = [q \in R |-> file_map'[q]]
       /\ lapses' \in Nat /\ crashes' \in Nat /\ faults' \in 0..MaxFaults
  <2>1. edits + 1 \in Nat /\ edits <= edits + 1
    BY <1>1
  <2>2. Trees(edits) \subseteq Trees(edits + 1)
    BY <1>1, <2>1, BuffersGrow
  <2> QED BY <1>1, <1>6, <2>1, <2>2
<1>14. \A q \in R \ {p} : q \in resident /\ file_map'[q] = file_map[q] /\ store'[q] = store[q]
                          /\ (q \in atRisk => q \in atRisk')
  BY <1>1, <1>6
<1> HIDE DEF R
<1> QED BY <1>12, <1>13, <1>14, Assemble

LEMMA ReadStep ==
  ASSUME IInv, NEW p \in Paths, read(p)
  PROVE  IInv'
<1> DEFINE b == get_file(p)
           R == resident \cup {p}
<1>1. /\ edits \in Nat /\ store \in Trees(edits) /\ resident \subseteq Paths
      /\ atRisk \subseteq resident /\ lapses \in Nat /\ crashes \in Nat /\ faults \in 0..MaxFaults
      /\ UNCHANGED <<store, edits, atRisk, lapses, crashes, faults>>
  BY DEF IInv, GTypeOK, read
<1>2. store[p] \in TextsUpTo(edits) /\ b = from_string(store[p])
  BY <1>1 DEF read, Loadable, get_file, Trees
<1>3. file_map' = [q \in R |-> IF q = p THEN b ELSE file_map[q]]
  BY DEF read, Keep
<1> HIDE DEF b
<1>4. Sound(p)'
  BY <1>1, <1>2, <1>3, FreshIsSound DEF Sound
<1>5. R \in SUBSET Paths /\ file_map' = [q \in R |-> file_map'[q]] /\ atRisk' \subseteq R
  BY <1>1, <1>3
<1>6. \A q \in R \ {p} : q \in resident /\ file_map'[q] = file_map[q] /\ store'[q] = store[q]
                         /\ (q \in atRisk => q \in atRisk')
  BY <1>1, <1>3
<1> HIDE DEF R
<1> QED BY <1>1, <1>4, <1>5, <1>6, Assemble

\* add_file reads what is durable and then flushes the old buffer over it: the
\* new one is at risk if that changed the store.
LEMMA AddStep ==
  ASSUME IInv, NEW p \in Paths, add_file(p)
  PROVE  IInv'
<1> DEFINE b == from_string(store[p])
           R == resident \cup {p}
<1>1. PICK down \in Outages({p}) :
        /\ file_map' = Keep(p, b)
        /\ store' = Flushed({p}, down)
        /\ atRisk' = IF store' = store THEN atRisk \ {p} ELSE atRisk \cup {p}
        /\ CountLapse(down)
        /\ IF p \in resident /\ file_map[p].text # store[p]
           THEN /\ faults < MaxFaults /\ faults' = faults + 1
                /\ crashes' = crashes + 1
           ELSE CountFault(down, TRUE) /\ UNCHANGED crashes
  BY DEF add_file
<1>2. /\ edits \in Nat /\ store \in Trees(edits) /\ resident \subseteq Paths /\ edits' = edits
      /\ atRisk \subseteq resident /\ lapses \in Nat /\ crashes \in Nat /\ faults \in 0..MaxFaults
      /\ store[p] \in TextsUpTo(edits)
  BY DEF IInv, GTypeOK, add_file, Trees
<1>3. b \in Buffers(edits) /\ Behind(store[p], b.text, b.ops_since_save)
  BY <1>2, FreshIsSound
<1>4. store' \in Trees(edits) /\ \A q \in Paths : q # p => store'[q] = store[q]
  BY <1>1, FlushedTree
<1>5. file_map' = [q \in R |-> IF q = p THEN b ELSE file_map[q]]
  BY <1>1 DEF Keep
<1> HIDE DEF b
<1>6. p \in atRisk' \/ store'[p] = store[p]
  BY <1>1
<1>7. Sound(p)'
  BY <1>2, <1>3, <1>5, <1>6 DEF Sound
<1>8. faults' \in 0..MaxFaults /\ crashes' \in Nat /\ lapses' \in Nat
  <2>1. CountFault(down, TRUE) => faults' \in 0..MaxFaults
    BY FaultCounted, OutcomesAre
  <2>2. faults < MaxFaults => faults + 1 \in 0..MaxFaults
    BY <1>2, ConstantsAssumption
  <2>3. lapses' \in Nat
    BY <1>1, LapseCounted
  <2>4. CASE p \in resident /\ file_map[p].text # store[p]
    BY <1>1, <1>2, <2>2, <2>3, <2>4
  <2>5. CASE ~(p \in resident /\ file_map[p].text # store[p])
    <3>1. CountFault(down, TRUE) /\ crashes' = crashes
      BY <1>1, <2>5, Zenon
    <3> QED BY <1>2, <2>1, <2>3, <3>1
  <2> QED BY <2>4, <2>5
<1>9. R \in SUBSET Paths /\ file_map' = [q \in R |-> file_map'[q]] /\ atRisk' \subseteq R
  BY <1>1, <1>2, <1>5
<1>10. \A q \in R \ {p} : q \in resident /\ file_map'[q] = file_map[q] /\ store'[q] = store[q]
                          /\ (q \in atRisk => q \in atRisk')
  BY <1>1, <1>2, <1>4, <1>5
<1> HIDE DEF R
<1> QED BY <1>2, <1>4, <1>7, <1>8, <1>9, <1>10, Assemble

\* Buffers that leave the map leave nothing behind that could be wrong, as long
\* as the store keeps what is beneath the buffers that stay.
LEMMA DropStep ==
  ASSUME IInv, NEW ps, NEW lost, NEW tree \in Trees(edits), Drop(ps, lost, tree),
         \A q \in resident \ ps : tree[q] = store[q],
         faults' \in 0..MaxFaults, UNCHANGED <<edits, crashes>>
  PROVE  IInv'
<1> DEFINE R == resident \ ps
<1>1. /\ edits \in Nat /\ resident \subseteq Paths /\ atRisk \subseteq resident /\ crashes \in Nat
  BY DEF IInv, GTypeOK
<1>2. /\ file_map' = [p \in R |-> file_map[p]] /\ store' = tree /\ atRisk' = atRisk \ ps
  BY DEF Drop, Evicted
<1>3. lapses' \in Nat
  BY LapseCounted DEF Drop
<1>4. \A p \in R : /\ p \in resident /\ file_map'[p] = file_map[p] /\ store'[p] = store[p]
                   /\ (p \in atRisk => p \in atRisk')
  BY <1>2
<1>5. R \in SUBSET Paths /\ file_map' = [q \in R |-> file_map'[q]] /\ atRisk' \subseteq R
  BY <1>1, <1>2
<1>6. edits' = edits /\ edits <= edits /\ crashes' \in Nat
  BY <1>1
<1> HIDE DEF R
<1> QED BY <1>1, <1>2, <1>3, <1>4, <1>5, <1>6, Assemble

\* ... which a flush of those buffers does.
LEMMA FlushStep ==
  ASSUME IInv, NEW ps, NEW down, NEW lost, Drop(ps, lost, Flushed(ps, down)),
         faults' \in 0..MaxFaults, UNCHANGED <<edits, crashes>>
  PROVE  IInv'
<1>1. Flushed(ps, down) \in Trees(edits) /\ \A q \in resident \ ps : Flushed(ps, down)[q] = store[q]
  BY FlushedTree DEF IInv, GTypeOK
<1> QED BY <1>1, DropStep

LEMMA DropFileStep ==
  ASSUME IInv, NEW p \in Paths, drop_file(p)
  PROVE  IInv'
<1>1. PICK down \in Outages({p}) : Drop({p}, down, Flushed({p}, down)) /\ CountFault(down, TRUE)
  BY DEF drop_file
<1>2. UNCHANGED <<edits, crashes>>
  BY DEF drop_file
<1>3. faults' \in 0..MaxFaults
  BY <1>1, FaultCounted, OutcomesAre
<1> QED BY <1>1, <1>2, <1>3, FlushStep

LEMMA DropDirStep ==
  ASSUME IInv, NEW folder \in Folders, drop_dir(folder)
  PROVE  IInv'
<1>1. PICK down \in Outages(Beneath(folder)) :
        Drop(Beneath(folder), down, Flushed(Beneath(folder), down)) /\ CountFault(down, TRUE)
  BY DEF drop_dir
<1>2. UNCHANGED <<edits, crashes>>
  BY DEF drop_dir
<1>3. faults' \in 0..MaxFaults
  BY <1>1, FaultCounted, OutcomesAre
<1> QED BY <1>1, <1>2, <1>3, FlushStep

LEMMA DropGuardStep ==
  ASSUME IInv, DropGuard
  PROVE  IInv'
<1>1. PICK down \in Outages(Paths) : Drop(Paths, down, Flushed(Paths, down)) /\ CountFault(down, TRUE)
  BY DEF DropGuard
<1>2. UNCHANGED <<edits, crashes>>
  BY DEF DropGuard
<1>3. faults' \in 0..MaxFaults
  BY <1>1, FaultCounted, OutcomesAre
<1> QED BY <1>1, <1>2, <1>3, FlushStep

LEMMA WithoutStep ==
  ASSUME IInv, NEW gone, Drop(gone, {}, Without(store, gone)),
         faults' \in 0..MaxFaults, UNCHANGED <<edits, crashes>>
  PROVE  IInv'
<1>1. edits \in Nat /\ store \in Trees(edits) /\ resident \subseteq Paths
  BY DEF IInv, GTypeOK
<1>2. Without(store, gone) \in Trees(edits) /\ \A q \in resident \ gone : Without(store, gone)[q] = store[q]
  BY <1>1, WithoutTree
<1> QED BY <1>2, DropStep

LEMMA DeleteStep ==
  ASSUME IInv, NEW p \in Paths, delete(p)
  PROVE  IInv'
<1>1. PICK down \in Outages({p}), works \in Outcomes :
        /\ IF works THEN Drop({p}, {}, Without(store, {p}))
                    ELSE Drop({p}, down, Flushed({p}, down))
        /\ CountFault(down, works)
  BY DEF delete
<1>2. UNCHANGED <<edits, crashes>>
  BY DEF delete
<1>3. faults' \in 0..MaxFaults
  BY <1>1, FaultCounted, OutcomesAre
<1>4. CASE works
  <2>1. Drop({p}, {}, Without(store, {p}))
    BY <1>1, <1>4, Zenon
  <2> QED BY <1>2, <1>3, <2>1, WithoutStep
<1>5. CASE ~works
  <2>1. Drop({p}, down, Flushed({p}, down))
    BY <1>1, <1>5, Zenon
  <2> QED BY <1>2, <1>3, <2>1, FlushStep
<1> QED BY <1>4, <1>5

LEMMA DeleteFolderStep ==
  ASSUME IInv, NEW folder \in Folders, delete_folder(folder)
  PROVE  IInv'
<1> DEFINE ps == Beneath(folder)
<1>1. PICK down \in Outages(ps), works \in Outcomes :
        /\ IF works THEN Drop(ps, {}, Without(store, ps))
                    ELSE Drop(ps, down, Flushed(ps, down))
        /\ CountFault(down, works)
  BY DEF delete_folder
<1>2. UNCHANGED <<edits, crashes>>
  BY DEF delete_folder
<1> HIDE DEF ps
<1>3. faults' \in 0..MaxFaults
  BY <1>1, FaultCounted, OutcomesAre
<1>4. CASE works
  <2>1. Drop(ps, {}, Without(store, ps))
    BY <1>1, <1>4, Zenon
  <2> QED BY <1>2, <1>3, <2>1, WithoutStep
<1>5. CASE ~works
  <2>1. Drop(ps, down, Flushed(ps, down))
    BY <1>1, <1>5, Zenon
  <2> QED BY <1>2, <1>3, <2>1, FlushStep
<1> QED BY <1>4, <1>5

LEMMA MoveFileStep ==
  ASSUME IInv, NEW from \in Paths, NEW to \in Paths, move_file(from, to)
  PROVE  IInv'
<1> DEFINE ps == {from, to}
<1>1. PICK down \in Outages(ps), works \in Outcomes :
        /\ IF works /\ Flushed(ps, down)[from] # NoFile
           THEN Drop(ps, down \cap {from}, FileMoved(Flushed(ps, down), from, to))
           ELSE Drop(ps, down, Flushed(ps, down))
        /\ CountFault(down, works)
  BY DEF move_file
<1>2. UNCHANGED <<edits, crashes>>
  BY DEF move_file
<1>3. faults' \in 0..MaxFaults
  BY <1>1, FaultCounted, OutcomesAre
<1>4. CASE works /\ Flushed(ps, down)[from] # NoFile
  <2>1. Drop(ps, down \cap {from}, FileMoved(Flushed(ps, down), from, to))
    BY <1>1, <1>4, Zenon
  <2>2. edits \in Nat /\ resident \subseteq Paths
    BY DEF IInv, GTypeOK
  <2>3. Flushed(ps, down) \in Trees(edits) /\ \A q \in resident \ ps : Flushed(ps, down)[q] = store[q]
    BY <2>2, FlushedTree
  <2>4. /\ FileMoved(Flushed(ps, down), from, to) \in Trees(edits)
        /\ \A q \in resident \ ps : FileMoved(Flushed(ps, down), from, to)[q] = store[q]
    <3> DEFINE flushed == Flushed(ps, down)
    <3>1. flushed \in Trees(edits) /\ \A q \in resident \ ps : flushed[q] = store[q]
      BY <2>3
    <3> HIDE DEF flushed
    <3>2. /\ FileMoved(flushed, from, to) \in Trees(edits)
          /\ \A q \in Paths \ ps : FileMoved(flushed, from, to)[q] = flushed[q]
      BY <2>2, <3>1, FileTrees
    <3> QED BY <2>2, <3>1, <3>2 DEF flushed
  <2> QED BY <1>2, <1>3, <2>1, <2>4, DropStep
<1>5. CASE ~(works /\ Flushed(ps, down)[from] # NoFile)
  <2>1. Drop(ps, down, Flushed(ps, down))
    BY <1>1, <1>5, Zenon
  <2> QED BY <1>2, <1>3, <2>1, FlushStep
<1> QED BY <1>4, <1>5

LEMMA MoveFolderStep ==
  ASSUME IInv, NEW from \in Folders, NEW to \in Folders, move_folder(from, to)
  PROVE  IInv'
<1> DEFINE ps == Beneath(from) \cup Beneath(to)
<1>1. PICK down \in Outages(ps), works \in Outcomes :
        /\ IF works
           THEN Drop(ps, down \ Relocated(Flushed(ps, down), from, to),
                     FolderMoved(Flushed(ps, down), from, to))
           ELSE Drop(ps, down, Flushed(ps, down))
        /\ CountFault(down, works)
  BY DEF move_folder
<1>2. UNCHANGED <<edits, crashes>> /\ FitsInto(from, to)
  BY DEF move_folder
<1> DEFINE flushed == Flushed(ps, down)
<1>3. faults' \in 0..MaxFaults
  BY <1>1, FaultCounted, OutcomesAre
<1>4. CASE works
  <2>1. Drop(ps, down \ Relocated(flushed, from, to), FolderMoved(flushed, from, to))
    BY <1>1, <1>4, Zenon
  <2>2. edits \in Nat /\ resident \subseteq Paths
    BY DEF IInv, GTypeOK
  <2>3. flushed \in Trees(edits) /\ \A q \in resident \ ps : flushed[q] = store[q]
    BY <2>2, FlushedTree
  <2> HIDE DEF flushed
  <2>4. /\ FolderMoved(flushed, from, to) \in Trees(edits)
        /\ \A q \in resident \ ps : FolderMoved(flushed, from, to)[q] = store[q]
    BY <1>2, <2>2, <2>3, FolderTrees
  <2> HIDE DEF ps
  <2> QED BY <1>2, <1>3, <2>1, <2>4, DropStep
<1>5. CASE ~works
  <2>1. Drop(ps, down, Flushed(ps, down))
    BY <1>1, <1>5, Zenon
  <2> QED BY <1>2, <1>3, <2>1, FlushStep
<1> QED BY <1>4, <1>5

\* What a snapshot that was stopped by a failure leaves: the buffers it saved are
\* clean, and one of those that failed is at risk.
LEMMA CleanBuffers ==
  ASSUME IInv, NEW saved \in SUBSET resident, NEW p \in resident
  PROVE  /\ p \in saved => /\ Clean(saved)[p] \in Buffers(edits)
                           /\ Behind(file_map[p].text, Clean(saved)[p].text, Clean(saved)[p].ops_since_save)
                           /\ Flushed(saved, {})[p] = file_map[p].text
         /\ p \notin saved => Clean(saved)[p] = file_map[p] /\ Flushed(saved, {})[p] = store[p]
         /\ Clean(saved)[p].text = file_map[p].text
<1>1. file_map[p].text \in TextsUpTo(edits) /\ edits \in Nat /\ p \in Paths
  BY DEF IInv, GTypeOK, Buffers
<1>2. CASE p \in saved
  <2>1. Clean(saved)[p] = from_string(file_map[p].text) /\ Flushed(saved, {})[p] = file_map[p].text
    BY <1>1, <1>2 DEF Clean, Flushed
  <2>2. Clean(saved)[p].text = file_map[p].text
    BY <2>1 DEF from_string
  <2> QED BY <1>1, <1>2, <2>1, <2>2, FreshIsSound
<1>3. CASE p \notin saved
  BY <1>1, <1>3 DEF Clean, Flushed
<1> QED BY <1>2, <1>3

LEMMA SavedAre ==
  ASSUME NEW down, NEW saved \in Saved(down)
  PROVE  saved \in SUBSET resident /\ (down = {} => saved = resident)
  BY DEF Saved

LEMMA SnapshotStep ==
  ASSUME IInv, snapshot
  PROVE  IInv'
<1>0. PICK down \in Outages(resident) : \E saved \in Saved(down) :
        /\ store' = Flushed(saved, {})
        /\ file_map' = Clean(saved)
        /\ IF down = {} THEN atRisk' = {}
           ELSE \E failed \in down : atRisk' = (atRisk \ saved) \cup {failed}
        /\ CountFault(down, TRUE)
  BY DEF snapshot
<1>1. PICK saved \in Saved(down) :
        /\ store' = Flushed(saved, {})
        /\ file_map' = Clean(saved)
        /\ IF down = {} THEN atRisk' = {}
           ELSE \E failed \in down : atRisk' = (atRisk \ saved) \cup {failed}
        /\ CountFault(down, TRUE)
  BY <1>0
<1>2. /\ edits \in Nat /\ resident \subseteq Paths /\ atRisk \subseteq resident
      /\ lapses \in Nat /\ crashes \in Nat /\ UNCHANGED <<edits, lapses, crashes>>
  BY DEF IInv, GTypeOK, snapshot
<1>3. faults' \in 0..MaxFaults /\ down \subseteq resident
  BY <1>1, FaultCounted, OutcomesAre
<1>4. saved \in SUBSET resident /\ (down = {} => saved = resident)
  BY <1>1, SavedAre
<1>5. atRisk' \subseteq resident /\ \A p \in atRisk \ saved : p \in atRisk'
  BY <1>1, <1>2, <1>3, <1>4
<1>6. store' \in Trees(edits)
  BY <1>1, FlushedTree
<1>7. ASSUME NEW p \in resident
      PROVE  \/ /\ p \in resident /\ file_map'[p] = file_map[p]
                /\ store'[p] = store[p] /\ (p \in atRisk => p \in atRisk')
             \/ Sound(p)'
  <2>1. CASE p \in saved
    <3>1. /\ Clean(saved)[p] \in Buffers(edits) /\ Flushed(saved, {})[p] = file_map[p].text
          /\ Behind(file_map[p].text, Clean(saved)[p].text, Clean(saved)[p].ops_since_save)
      BY <1>4, <2>1, CleanBuffers
    <3>2. Sound(p)'
      BY <1>1, <1>2, <3>1 DEF Sound
    <3> QED BY <3>2
  <2>2. CASE p \notin saved
    BY <1>1, <1>4, <1>5, <2>2, CleanBuffers
  <2> QED BY <2>1, <2>2
<1>8. file_map' = [p \in resident |-> file_map'[p]]
  BY <1>1 DEF Clean
<1> QED BY <1>2, <1>3, <1>5, <1>6, <1>7, <1>8, Assemble

LEMMA CopyFolderStep ==
  ASSUME IInv, NEW from \in Folders, NEW to \in Folders, copy_folder(from, to)
  PROVE  IInv'
<1>0. PICK down \in Outages(resident), works \in Outcomes : \E saved \in Saved(down) :
        /\ IF down = {}
           THEN /\ store' = IF works THEN FolderCopied(Flushed(saved, {}), from, to) ELSE Flushed(saved, {})
                /\ file_map' = [p \in resident \ Beneath(to) |-> Clean(saved)[p]]
                /\ atRisk' = {}
           ELSE /\ store' = Flushed(saved, {})
                /\ file_map' = Clean(saved)
                /\ \E failed \in down : atRisk' = (atRisk \ saved) \cup {failed}
        /\ CountFault(down, works)
  BY DEF copy_folder
<1>1. PICK saved \in Saved(down) :
        /\ IF down = {}
           THEN /\ store' = IF works THEN FolderCopied(Flushed(saved, {}), from, to) ELSE Flushed(saved, {})
                /\ file_map' = [p \in resident \ Beneath(to) |-> Clean(saved)[p]]
                /\ atRisk' = {}
           ELSE /\ store' = Flushed(saved, {})
                /\ file_map' = Clean(saved)
                /\ \E failed \in down : atRisk' = (atRisk \ saved) \cup {failed}
        /\ CountFault(down, works)
  BY <1>0
<1>2. /\ edits \in Nat /\ resident \subseteq Paths /\ atRisk \subseteq resident
      /\ lapses \in Nat /\ crashes \in Nat /\ UNCHANGED <<edits, lapses, crashes>>
      /\ FitsInto(from, to)
  BY DEF IInv, GTypeOK, copy_folder
<1>3. faults' \in 0..MaxFaults /\ down \subseteq resident
  BY <1>1, FaultCounted, OutcomesAre
<1>4. saved \in SUBSET resident /\ (down = {} => saved = resident)
  BY <1>1, SavedAre
<1> DEFINE flushed == Flushed(saved, {})
           clean == Clean(saved)
<1>5. flushed \in Trees(edits)
  BY FlushedTree
<1>6. \A p \in resident : p \in saved => /\ clean[p] \in Buffers(edits) /\ flushed[p] = file_map[p].text
                                         /\ Behind(flushed[p], clean[p].text, clean[p].ops_since_save)
  BY <1>4, CleanBuffers
<1>7. \A p \in resident : p \notin saved => clean[p] = file_map[p] /\ flushed[p] = store[p]
  BY <1>4, CleanBuffers
<1>8. clean = [p \in resident |-> clean[p]]
  BY DEF Clean
<1>9. CASE down = {}
  <2> DEFINE R == resident \ Beneath(to)
  <2>1. file_map' = [p \in R |-> clean[p]] /\ atRisk' = {}
    BY <1>1, <1>9
  <2>2. store' = IF works THEN FolderCopied(flushed, from, to) ELSE flushed
    BY <1>1, <1>9, Zenon
  <2> HIDE DEF flushed, clean
  <2>3. /\ FolderCopied(flushed, from, to) \in Trees(edits)
        /\ \A p \in R : FolderCopied(flushed, from, to)[p] = flushed[p]
    BY <1>2, <1>5, FolderTrees
  <2>4. store' \in Trees(edits) /\ \A p \in R : store'[p] = flushed[p]
    <3>1. CASE works
      BY <2>2, <2>3, <3>1, Zenon
    <3>2. CASE ~works
      BY <1>5, <2>2, <3>2, Zenon
    <3> QED BY <3>1, <3>2
  <2>5. ASSUME NEW p \in R PROVE Sound(p)'
    <3>1. /\ clean[p] \in Buffers(edits) /\ Behind(flushed[p], clean[p].text, clean[p].ops_since_save)
      BY <1>4, <1>6, <1>9
    <3> QED BY <1>2, <2>1, <2>4, <3>1 DEF Sound
  <2>6. R \in SUBSET Paths /\ file_map' = [p \in R |-> file_map'[p]] /\ atRisk' \subseteq R
    BY <1>2, <2>1
  <2> HIDE DEF R
  <2> QED BY <1>2, <1>3, <2>4, <2>5, <2>6, Assemble
<1>10. CASE down # {}
  <2>1. store' = flushed /\ file_map' = clean
    BY <1>1, <1>10
  <2>2. PICK failed \in down : atRisk' = (atRisk \ saved) \cup {failed}
    BY <1>1, <1>10
  <2> HIDE DEF flushed, clean
  <2>3. ASSUME NEW p \in resident
        PROVE  \/ /\ p \in resident /\ file_map'[p] = file_map[p]
                  /\ store'[p] = store[p] /\ (p \in atRisk => p \in atRisk')
               \/ Sound(p)'
    <3>1. CASE p \in saved
      BY <1>2, <1>6, <2>1, <3>1 DEF Sound
    <3>2. CASE p \notin saved
      BY <1>7, <2>1, <2>2, <3>2
    <3> QED BY <3>1, <3>2
  <2>4. file_map' = [p \in resident |-> file_map'[p]] /\ atRisk' \subseteq resident /\ store' \in Trees(edits)
    BY <1>2, <1>3, <1>5, <1>8, <2>1, <2>2
  <2> QED BY <1>2, <1>3, <2>3, <2>4, Assemble
<1> QED BY <1>9, <1>10

\* copy saves its source first.
LEMMA SourceOf ==
  ASSUME IInv, NEW from \in Paths, Loadable(from), NEW up \in BOOLEAN
  PROVE  LET source == save(Begin(from), up)
         IN /\ source.text = get_file(from).text /\ source.text \in TextsUpTo(edits)
            /\ source.ok <=> up
            /\ up => source.disk = source.text
<1> DEFINE f == Begin(from)
<1>1. f.text = get_file(from).text /\ f.text \in TextsUpTo(edits)
  BY BeginInProgress
<1>2. Fields(f) /\ f.ok = TRUE
  BY DEF Begin, Fields
<1> HIDE DEF f
<1>3. CASE up
  BY <1>1, <1>2, <1>3 DEF save, Fields, f
<1>4. CASE ~up
  <2>1. save(f, up).text = f.text /\ save(f, up).ok = FALSE
    BY <1>2, <1>4 DEF save, Fields
  <2> QED BY <1>1, <1>4, <2>1, Zenon DEF f
<1> QED BY <1>3, <1>4

LEMMA CopyFileStep ==
  ASSUME IInv, NEW from \in Paths, NEW to \in Paths, copy_file(from, to)
  PROVE  IInv'
<1>1. PICK down \in Outages({from, to}), works \in Outcomes :
        LET source  == save(Begin(from), from \notin down)
            flushed == [Flushed({to} \ {from}, down) EXCEPT ![from] = source.disk]
        IN /\ IF ~source.ok
              THEN /\ file_map' = Keep(from, get_file(from))
                   /\ atRisk' = atRisk \cup {from}
                   /\ UNCHANGED <<store, lapses>>
              ELSE /\ file_map' = [p \in (resident \cup {from}) \ {to} |->
                                     IF p = from THEN from_string(source.text) ELSE file_map[p]]
                   /\ store' = IF works THEN FileCopied(flushed, from, to) ELSE flushed
                   /\ atRisk' = atRisk \ {from, to}
                   /\ CountLapse(IF works THEN {} ELSE down \ {from})
           /\ CountFault(down, works)
  BY DEF copy_file
<1> DEFINE source == save(Begin(from), from \notin down)
           flushed == [Flushed({to} \ {from}, down) EXCEPT ![from] = source.disk]
<1>2. /\ edits \in Nat /\ store \in Trees(edits) /\ resident \subseteq Paths /\ atRisk \subseteq resident
      /\ lapses \in Nat /\ crashes \in Nat /\ UNCHANGED <<edits, crashes>>
      /\ Loadable(from)
  BY DEF IInv, GTypeOK, copy_file
<1>3. faults' \in 0..MaxFaults
  <2>1. CountFault(down, works)
    BY <1>1
  <2> QED BY <2>1, FaultCounted, OutcomesAre
<1>4. get_file(from) \in Buffers(edits)
  BY <1>2, BeginInProgress
<1>5. /\ source.text = get_file(from).text /\ source.text \in TextsUpTo(edits)
      /\ source.ok <=> from \notin down
      /\ from \notin down => source.disk = source.text
  <2>1. (from \notin down) \in BOOLEAN
    OBVIOUS
  <2> QED BY <1>2, <2>1, SourceOf
<1>6. CASE ~source.ok
  <2> DEFINE R == resident \cup {from}
  <2>1. file_map' = Keep(from, get_file(from)) /\ atRisk' = atRisk \cup {from} /\ UNCHANGED <<store, lapses>>
    BY <1>1, <1>6
  <2>2. file_map' = [q \in R |-> IF q = from THEN get_file(from) ELSE file_map[q]]
    BY <2>1 DEF Keep
  <2>3. Sound(from)'
    BY <1>2, <1>4, <2>1, <2>2 DEF Sound
  <2>4. R \in SUBSET Paths /\ file_map' = [q \in R |-> file_map'[q]] /\ atRisk' \subseteq R
    BY <1>2, <2>1, <2>2
  <2>5. \A q \in R \ {from} : /\ q \in resident /\ file_map'[q] = file_map[q] /\ store'[q] = store[q]
                              /\ (q \in atRisk => q \in atRisk')
    BY <2>1, <2>2
  <2> HIDE DEF R
  <2> QED BY <1>2, <1>3, <2>1, <2>3, <2>4, <2>5, Assemble
<1>7. CASE source.ok
  <2> DEFINE R == (resident \cup {from}) \ {to}
             body == source.text
  <2>1. /\ file_map' = [p \in R |-> IF p = from THEN from_string(body) ELSE file_map[p]]
        /\ store' = IF works THEN FileCopied(flushed, from, to) ELSE flushed
        /\ atRisk' = atRisk \ {from, to}
        /\ CountLapse(IF works THEN {} ELSE down \ {from})
    BY <1>1, <1>7, Zenon
  <2>2. source.disk = body /\ body \in TextsUpTo(edits)
    BY <1>5, <1>7, Zenon
  <2>3. /\ flushed \in Trees(edits) /\ flushed[from] = body /\ \A q \in Paths \ {from, to} : flushed[q] = store[q]
    <3> DEFINE tree == Flushed({to} \ {from}, down)
    <3>1. tree \in Trees(edits) /\ \A q \in Paths \ {to} : tree[q] = store[q]
      BY FlushedTree
    <3> HIDE DEF body, tree
    <3>2. flushed = [tree EXCEPT ![from] = body]
      BY <2>2 DEF tree
    <3> HIDE DEF flushed
    <3>3. body \in TextsUpTo(edits)
      BY <2>2
    <3> QED BY <3>1, <3>2, <3>3 DEF Trees
  <2> HIDE DEF flushed, body
  <2>4. /\ FileCopied(flushed, from, to) \in Trees(edits)
        /\ \A q \in Paths \ {to} : FileCopied(flushed, from, to)[q] = flushed[q]
    BY <1>2, <2>3, FileTrees
  <2>5. store' \in Trees(edits) /\ \A q \in Paths \ {to} : store'[q] = flushed[q]
    <3>1. CASE works
      BY <2>1, <2>4, <3>1, Zenon
    <3>2. CASE ~works
      BY <2>1, <2>3, <3>2, Zenon
    <3> QED BY <3>1, <3>2
  <2>6. from # to => Sound(from)'
    BY <1>2, <2>1, <2>2, <2>3, <2>5, FreshIsSound DEF Sound
  <2>7. \A q \in R \ {from} : /\ q \in resident /\ file_map'[q] = file_map[q] /\ store'[q] = store[q]
                              /\ (q \in atRisk => q \in atRisk')
    BY <1>2, <2>1, <2>3, <2>5
  <2>8. R \in SUBSET Paths /\ file_map' = [q \in R |-> file_map'[q]] /\ atRisk' \subseteq R
    BY <1>2, <2>1
  <2>9. lapses' \in Nat
    BY <2>1, LapseCounted
  <2>10. from \in R => from # to
    OBVIOUS
  <2> HIDE DEF R
  <2> QED BY <1>2, <1>3, <2>5, <2>6, <2>7, <2>8, <2>9, <2>10, Assemble
<1> QED BY <1>6, <1>7

LEMMA CrashStep ==
  ASSUME IInv, Crash
  PROVE  IInv'
<1>1. /\ edits \in Nat /\ store \in Trees(edits) /\ lapses \in Nat /\ crashes \in Nat
      /\ resident \subseteq Paths /\ faults \in 0..MaxFaults
  BY DEF IInv, GTypeOK
<1>2. /\ faults < MaxFaults /\ faults' = faults + 1 /\ crashes' = crashes + 1
      /\ UNCHANGED <<store, edits, lapses>> /\ atRisk' = {}
      /\ file_map' = [p \in resident \ Paths |-> file_map[p]]
  BY DEF Crash, Evicted
<1>3. resident \ Paths = {}
  BY <1>1
<1>4. file_map' = [p \in {} |-> file_map'[p]]
  BY <1>2, <1>3
<1>5. faults' \in 0..MaxFaults /\ crashes' \in Nat
  BY <1>1, <1>2, ConstantsAssumption
<1>6. edits' \in Nat /\ edits <= edits' /\ store' \in Trees(edits') /\ lapses' \in Nat
  BY <1>1, <1>2
<1> DEFINE R == {}
<1>7. R \in SUBSET Paths /\ atRisk' \subseteq R /\ file_map' = [p \in R |-> file_map'[p]]
  BY <1>2, <1>4
<1>8. \A p \in R : Sound(p)'
  OBVIOUS
<1> HIDE DEF R
<1> QED BY <1>5, <1>6, <1>7, <1>8, Assemble

-----------------------------------------------------------------------------
LEMMA InitInv == Init => IInv
<1> SUFFICES ASSUME Init PROVE IInv
  OBVIOUS
<1>1. resident = {} /\ edits = 0
  BY DEF Init, resident
<1>2. store \in Trees(0)
  BY StoreAssumption DEF Init, Trees
<1>3. file_map \in [resident -> Buffers(edits)]
  BY <1>1 DEF Init
<1> QED BY <1>1, <1>2, <1>3, ConstantsAssumption DEF Init, IInv, GTypeOK, BufferRunsAhead

LEMMA StepInv == IInv /\ [Next]_vars => IInv'
<1>1. ASSUME IInv, Next PROVE IInv'
  <2> USE <1>1
  <2>1. ASSUME NEW p \in Paths, apply_transaction(p) PROVE IInv'
    BY <2>1, TransactionStep
  <2>2. ASSUME NEW p \in Paths, apply_update(p) PROVE IInv'
    BY <2>2, UpdateStep
  <2>3. ASSUME NEW p \in Paths, read(p) PROVE IInv'
    BY <2>3, ReadStep
  <2>4. ASSUME NEW p \in Paths, add_file(p) PROVE IInv'
    BY <2>4, AddStep
  <2>5. ASSUME NEW p \in Paths, write(p) PROVE IInv'
    BY <2>5, WriteStep
  <2>6. ASSUME NEW p \in Paths, drop_file(p) PROVE IInv'
    BY <2>6, DropFileStep
  <2>7. ASSUME NEW p \in Paths, delete(p) PROVE IInv'
    BY <2>7, DeleteStep
  <2>8. ASSUME NEW from \in Paths, NEW to \in Paths, move_file(from, to) PROVE IInv'
    BY <2>8, MoveFileStep
  <2>9. ASSUME NEW from \in Paths, NEW to \in Paths, copy_file(from, to) PROVE IInv'
    BY <2>9, CopyFileStep
  <2>10. ASSUME NEW folder \in Folders, drop_dir(folder) PROVE IInv'
    BY <2>10, DropDirStep
  <2>11. ASSUME NEW folder \in Folders, delete_folder(folder) PROVE IInv'
    BY <2>11, DeleteFolderStep
  <2>12. ASSUME NEW from \in Folders, NEW to \in Folders, move_folder(from, to) PROVE IInv'
    BY <2>12, MoveFolderStep
  <2>13. ASSUME NEW from \in Folders, NEW to \in Folders, copy_folder(from, to) PROVE IInv'
    BY <2>13, CopyFolderStep
  <2>14. DropGuard => IInv'
    BY DropGuardStep
  <2>15. snapshot => IInv'
    BY SnapshotStep
  <2>16. Crash => IInv'
    BY CrashStep
  <2> QED BY <2>1, <2>2, <2>3, <2>4, <2>5, <2>6, <2>7, <2>8, <2>9, <2>10, <2>11, <2>12,
             <2>13, <2>14, <2>15, <2>16, Zenon DEF Next
<1>2. ASSUME IInv, UNCHANGED vars PROVE IInv'
  BY <1>2 DEF vars, IInv, GTypeOK, BufferRunsAhead, resident
<1> QED BY <1>1, <1>2

\* The invariant holds in every reachable state.
LEMMA InductiveInv == Spec => []IInv
<1> QED BY InitInv, StepInv, PTL DEF Spec

\* Store, buffers and counters keep their types, and whatever the session holds
\* was made by edits that were made.
THEOREM TypeCorrect == Spec => []GTypeOK
<1>1. IInv => GTypeOK
  BY DEF IInv
<1> QED BY <1>1, InductiveInv, PTL

\* Unless its last save was reported to have failed, a buffer extends what is
\* durable by exactly the local edits it counts, and by fewer than
\* SAVE_THRESHOLD: save, flush on drop, reset, move and copy never leave a buffer
\* over a file that it was not read from.
THEOREM RunsAhead == Spec => []BufferRunsAhead
<1>1. IInv => BufferRunsAhead
  BY DEF IInv
<1> QED BY <1>1, InductiveInv, PTL

-----------------------------------------------------------------------------
(* What the steps do to the texts that the session sees. *)

LEMMA ContentsAre ==
  ASSUME IInv
  PROVE  /\ Contents \in Trees(edits) /\ edits \in Nat
         /\ \A q \in Paths : Contents[q] = IF q \in resident THEN file_map[q].text ELSE store[q]
         /\ \A q \in resident : q \in Paths /\ Contents[q] = file_map[q].text /\ Contents[q] # NoFile
<1>1. \A q \in resident : q \in Paths /\ file_map[q].text \in TextsUpTo(edits)
  BY DEF IInv, GTypeOK, Buffers
<1>2. store \in Trees(edits) /\ edits \in Nat
  BY DEF IInv, GTypeOK
<1>3. NoFile \notin TextsUpTo(edits)
  BY <1>2, TextsAreTexts
<1> QED BY <1>1, <1>2, <1>3 DEF Contents, Trees

\* ... and after a step.
LEMMA ContentsNext ==
  ASSUME IInv'
  PROVE  Contents' \in Trees(edits')
<1>1. \A q \in resident' : file_map'[q].text \in TextsUpTo(edits')
  BY DEF IInv, GTypeOK, Buffers
<1>2. store' \in Trees(edits')
  BY DEF IInv, GTypeOK
<1> QED BY <1>1, <1>2 DEF Contents, Trees

\* Two trees are the same if they hold the same files.
LEMMA SameTrees ==
  ASSUME NEW n, NEW tree \in Trees(n), NEW other \in Trees(n), \A q \in Paths : tree[q] = other[q]
  PROVE  tree = other
  BY DEF Trees

\* Dropped buffers show what the store holds.
LEMMA DropEffect ==
  ASSUME IInv, IInv', NEW ps, NEW lost, NEW tree, Drop(ps, lost, tree)
  PROVE  \A q \in Paths : Contents'[q] = IF q \in resident \ ps THEN Contents[q] ELSE tree[q]
<1>1. file_map' = [p \in resident \ ps |-> file_map[p]] /\ store' = tree
  BY DEF Drop, Evicted
<1>2. resident' = resident \ ps
  BY <1>1 DEF resident
<1> SUFFICES ASSUME NEW q \in Paths PROVE Contents'[q] = IF q \in resident \ ps THEN Contents[q] ELSE tree[q]
  OBVIOUS
<1>3. Contents'[q] = IF q \in resident' THEN file_map'[q].text ELSE store'[q]
  BY DEF Contents
<1>4. CASE q \in resident \ ps
  BY <1>1, <1>2, <1>3, <1>4 DEF Contents
<1>5. CASE q \notin resident \ ps
  BY <1>1, <1>2, <1>3, <1>5
<1> QED BY <1>4, <1>5

\* A flush shows what the session saw, unless a write failed that mattered.
LEMMA FlushedContents ==
  ASSUME IInv, NEW ps, NEW down, NEW q \in Paths, q \in down /\ q \in resident => file_map[q].text = store[q]
  PROVE  /\ q \in ps => Flushed(ps, down)[q] = Contents[q]
         /\ q \notin ps => Flushed(ps, down)[q] = store[q]
<1>1. Flushed(ps, down)[q] = IF q \in (ps \cap resident) \ down THEN file_map[q].text ELSE store[q]
  BY DEF Flushed
<1>2. Contents[q] = IF q \in resident THEN file_map[q].text ELSE store[q]
  BY DEF Contents
<1> QED BY <1>1, <1>2

\* A flush on drop changes nothing for the session, or is a lapse.
LEMMA FlushEffect ==
  ASSUME IInv, IInv', NEW ps, NEW down, Drop(ps, down, Flushed(ps, down)), edits' = edits
  PROVE  \/ Contents' = Contents /\ lapses' = lapses
         \/ lapses' = lapses + 1 /\ down # {}
<1>1. \/ lapses' = lapses /\ \A p \in down \cap resident : file_map[p].text = store[p]
      \/ lapses' = lapses + 1
  BY LapseCounted DEF Drop
<1>2. lapses \in Nat
  BY DEF IInv, GTypeOK
<1>3. down = {} => lapses' = lapses
  BY DEF Drop, CountLapse
<1>4. CASE lapses' = lapses
  <2>1. \A p \in down \cap resident : file_map[p].text = store[p]
    BY <1>1, <1>2, <1>4
  <2>2. Contents \in Trees(edits) /\ Contents' \in Trees(edits)
    BY ContentsAre, ContentsNext
  <2>3. ASSUME NEW q \in Paths PROVE Contents'[q] = Contents[q]
    <3>1. Contents'[q] = IF q \in resident \ ps THEN Contents[q] ELSE Flushed(ps, down)[q]
      BY DropEffect
    <3>2. /\ q \in ps => Flushed(ps, down)[q] = Contents[q]
          /\ q \notin ps => Flushed(ps, down)[q] = store[q]
      BY <2>1, FlushedContents
    <3>3. q \notin resident => Contents[q] = store[q]
      BY DEF Contents
    <3> QED BY <3>1, <3>2, <3>3
  <2> QED BY <1>4, <2>2, <2>3, SameTrees
<1> QED BY <1>1, <1>2, <1>3, <1>4

\* An operation that is refused or fails flushes what it dropped.
Refused == \/ Contents' = Contents /\ lapses' = lapses
           \/ lapses' = lapses + 1

LEMMA WithoutEffect ==
  ASSUME IInv, IInv', NEW gone, Drop(gone, {}, Without(store, gone)), edits' = edits
  PROVE  Contents' = Without(Contents, gone) /\ lapses' = lapses
<1>1. lapses' = lapses
  BY DEF Drop, CountLapse
<1>2. Without(Contents, gone) \in Trees(edits) /\ Contents' \in Trees(edits)
  BY ContentsAre, ContentsNext, WithoutTree
<1>3. ASSUME NEW q \in Paths PROVE Contents'[q] = Without(Contents, gone)[q]
  <2>1. Contents'[q] = IF q \in resident \ gone THEN Contents[q] ELSE Without(store, gone)[q]
    BY DropEffect
  <2>2. q \notin resident => Contents[q] = store[q]
    BY DEF Contents
  <2> QED BY <2>1, <2>2 DEF Without
<1> QED BY <1>1, <1>2, <1>3, SameTrees

LEMMA DeleteEffect ==
  ASSUME IInv, IInv', NEW p \in Paths, delete(p)
  PROVE  /\ Refused \/ (Contents' = Without(Contents, {p}) /\ lapses' = lapses)
         /\ faults' = faults => Contents' = Without(Contents, {p})
         /\ crashes' = crashes
<1>1. PICK down \in Outages({p}), works \in Outcomes :
        /\ IF works THEN Drop({p}, {}, Without(store, {p}))
                    ELSE Drop({p}, down, Flushed({p}, down))
        /\ CountFault(down, works)
  BY DEF delete
<1>2. edits' = edits /\ crashes' = crashes
  BY DEF delete
<1>3. faults' = faults => works
  BY <1>1, FaultCounted, OutcomesAre
<1>4. CASE works
  <2>1. Drop({p}, {}, Without(store, {p}))
    BY <1>1, <1>4, Zenon
  <2> QED BY <1>2, <2>1, WithoutEffect
<1>5. CASE ~works
  <2>1. Drop({p}, down, Flushed({p}, down))
    BY <1>1, <1>5, Zenon
  <2>2. Refused
    BY <1>2, <2>1, FlushEffect DEF Refused
  <2> QED BY <1>2, <1>3, <1>5, <2>2
<1> QED BY <1>4, <1>5

LEMMA DeleteFolderEffect ==
  ASSUME IInv, IInv', NEW folder \in Folders, delete_folder(folder)
  PROVE  /\ Refused \/ (Contents' = Without(Contents, Beneath(folder)) /\ lapses' = lapses)
         /\ faults' = faults => Contents' = Without(Contents, Beneath(folder))
         /\ crashes' = crashes
<1> DEFINE ps == Beneath(folder)
<1>1. PICK down \in Outages(ps), works \in Outcomes :
        /\ IF works THEN Drop(ps, {}, Without(store, ps))
                    ELSE Drop(ps, down, Flushed(ps, down))
        /\ CountFault(down, works)
  BY DEF delete_folder
<1>2. edits' = edits /\ crashes' = crashes
  BY DEF delete_folder
<1> HIDE DEF ps
<1>3. faults' = faults => works
  BY <1>1, FaultCounted, OutcomesAre
<1>4. CASE works
  <2>1. Drop(ps, {}, Without(store, ps))
    BY <1>1, <1>4, Zenon
  <2>2. Contents' = Without(Contents, ps) /\ lapses' = lapses
    BY <1>2, <2>1, WithoutEffect
  <2> QED BY <1>2, <2>2 DEF ps
<1>5. CASE ~works
  <2>1. Drop(ps, down, Flushed(ps, down))
    BY <1>1, <1>5, Zenon
  <2>2. Refused
    BY <1>2, <2>1, FlushEffect DEF Refused
  <2> QED BY <1>2, <1>3, <1>5, <2>2
<1> QED BY <1>4, <1>5

\* A move takes what is at the source and nothing else.
LEMMA SameMove ==
  ASSUME NEW n, NEW tree \in Trees(n), NEW other \in Trees(n), NEW from \in Paths, NEW to \in Paths,
         tree[from] = other[from]
  PROVE  \A q \in {from, to} : FileMoved(tree, from, to)[q] = FileMoved(other, from, to)[q]
  BY DEF FileMoved, Trees

LEMMA MoveFileEffect ==
  ASSUME IInv, IInv', NEW from \in Paths, NEW to \in Paths, move_file(from, to)
  PROVE  /\ \/ Refused
            \/ /\ Contents' = FileMoved(Contents, from, to) /\ lapses' = lapses
               /\ Contents[from] # NoFile
         /\ faults' = faults /\ Contents[from] # NoFile => Contents' = FileMoved(Contents, from, to)
         /\ crashes' = crashes
<1> DEFINE ps == {from, to}
<1>1. PICK down \in Outages(ps), works \in Outcomes :
        /\ IF works /\ Flushed(ps, down)[from] # NoFile
           THEN Drop(ps, down \cap {from}, FileMoved(Flushed(ps, down), from, to))
           ELSE Drop(ps, down, Flushed(ps, down))
        /\ CountFault(down, works)
  BY DEF move_file
<1>2. edits' = edits /\ crashes' = crashes
  BY DEF move_file
<1> DEFINE flushed == Flushed(ps, down)
<1>3. faults' = faults => works /\ down = {}
  BY <1>1, FaultCounted, OutcomesAre
<1>4. CASE works /\ flushed[from] # NoFile
  <2>1. Drop(ps, down \cap {from}, FileMoved(flushed, from, to))
    BY <1>1, <1>4, Zenon
  <2>2. \/ lapses' = lapses /\ \A p \in (down \cap {from}) \cap resident : file_map[p].text = store[p]
        \/ lapses' = lapses + 1
    BY <2>1, LapseCounted DEF Drop
  <2>3. down = {} => lapses' = lapses
    BY <2>1 DEF Drop, CountLapse
  <2>4. lapses \in Nat
    BY DEF IInv, GTypeOK
  <2>5. CASE lapses' = lapses
    <3>1. from \in down /\ from \in resident => file_map[from].text = store[from]
      BY <2>2, <2>4, <2>5
    <3>2. flushed[from] = Contents[from]
      BY <3>1, FlushedContents
    <3>3. Contents \in Trees(edits) /\ Contents' \in Trees(edits) /\ edits \in Nat /\ flushed \in Trees(edits)
      BY <1>2, ContentsAre, ContentsNext, FlushedTree
    <3>4. \A q \in Paths \ ps : flushed[q] = store[q]
      BY FlushedTree
    <3>5. \A q \in Paths : Contents'[q] = IF q \in resident \ ps THEN Contents[q] ELSE FileMoved(flushed, from, to)[q]
      BY <2>1, DropEffect
    <3> HIDE DEF flushed
    <3>6. FileMoved(Contents, from, to) \in Trees(edits)
      BY <3>3, FileTrees
    <3>7. ASSUME NEW q \in Paths PROVE Contents'[q] = FileMoved(Contents, from, to)[q]
      <4>1. CASE q \in {from, to}
        <5>1. FileMoved(flushed, from, to)[q] = FileMoved(Contents, from, to)[q]
          BY <3>2, <3>3, <4>1, SameMove
        <5> QED BY <3>5, <4>1, <5>1
      <4>2. CASE q \notin {from, to}
        <5>1. FileMoved(flushed, from, to)[q] = store[q] /\ FileMoved(Contents, from, to)[q] = Contents[q]
          BY <3>3, <3>4, <4>2, FileTrees
        <5>2. q \notin resident => Contents[q] = store[q]
          BY DEF Contents
        <5> QED BY <3>5, <4>2, <5>1, <5>2
      <4> QED BY <4>1, <4>2
    <3>8. Contents' = FileMoved(Contents, from, to)
      BY <3>3, <3>6, <3>7, SameTrees
    <3> QED BY <1>2, <1>4, <2>5, <3>2, <3>8
  <2>6. CASE lapses' # lapses
    BY <1>2, <1>3, <2>2, <2>3, <2>6 DEF Refused
  <2> QED BY <2>5, <2>6
<1>5. CASE ~(works /\ flushed[from] # NoFile)
  <2>1. Drop(ps, down, flushed)
    BY <1>1, <1>5, Zenon
  <2>2. Refused
    BY <1>2, <2>1, FlushEffect DEF Refused
  <2>3. ASSUME works, down = {} PROVE Contents[from] = NoFile
    <3>1. flushed[from] = NoFile
      BY <1>5, <2>3
    <3> QED BY <2>3, <3>1, FlushedContents
  <2> QED BY <1>2, <1>3, <2>2, <2>3
<1> QED BY <1>4, <1>5

\* A folder operation takes what is beneath the source.
LEMMA SameRelocation ==
  ASSUME NEW n, NEW tree \in Trees(n), NEW other \in Trees(n), NEW from \in Folders, NEW to \in Folders,
         FitsInto(from, to), \A q \in Beneath(from) : tree[q] = other[q]
  PROVE  /\ Relocated(tree, from, to) = Relocated(other, from, to)
         /\ \A q \in Relocated(tree, from, to) :
              /\ FolderMoved(tree, from, to)[q] = FolderMoved(other, from, to)[q]
              /\ FolderCopied(tree, from, to)[q] = FolderCopied(other, from, to)[q]
<1>1. Relocated(tree, from, to) = Relocated(other, from, to)
  <2>1. Beneath(from) \cap Present(tree) = Beneath(from) \cap Present(other)
    BY DEF Present
  <2> QED BY <2>1 DEF Relocated
<1>2. ASSUME NEW q \in Relocated(tree, from, to)
      PROVE  /\ FolderMoved(tree, from, to)[q] = FolderMoved(other, from, to)[q]
             /\ FolderCopied(tree, from, to)[q] = FolderCopied(other, from, to)[q]
  <2> DEFINE R == Relocated(tree, from, to)
             s == Rebased(q, to, from)
  <2>1. s \in Beneath(from) /\ q \in Paths
    BY RelocatedFrom DEF Beneath
  <2>2. tree[s] = other[s]
    BY <2>1
  <2>3. q \in R /\ R = Relocated(other, from, to)
    BY <1>1, <1>2
  <2> HIDE DEF R
  <2>4. /\ FolderMoved(tree, from, to)[q] = tree[s] /\ FolderMoved(other, from, to)[q] = other[s]
        /\ FolderCopied(tree, from, to)[q] = tree[s] /\ FolderCopied(other, from, to)[q] = other[s]
    BY <2>1, <2>3 DEF FolderMoved, FolderCopied, R
  <2> QED BY <2>2, <2>4
<1> QED BY <1>1, <1>2

\* ... and leaves the rest, but for what a move takes away.
LEMMA RestStays ==
  ASSUME NEW tree, NEW from, NEW to, NEW q \in Paths, q \notin Relocated(tree, from, to)
  PROVE  /\ FolderMoved(tree, from, to)[q] = IF q \in Beneath(from) THEN NoFile ELSE tree[q]
         /\ FolderCopied(tree, from, to)[q] = tree[q]
  BY DEF FolderMoved, FolderCopied

LEMMA MoveFolderEffect ==
  ASSUME IInv, IInv', NEW from \in Folders, NEW to \in Folders, move_folder(from, to)
  PROVE  /\ Refused \/ (Contents' = FolderMoved(Contents, from, to) /\ lapses' = lapses)
         /\ faults' = faults => Contents' = FolderMoved(Contents, from, to)
         /\ crashes' = crashes
<1> DEFINE ps == Beneath(from) \cup Beneath(to)
<1>1. PICK down \in Outages(ps), works \in Outcomes :
        /\ IF works
           THEN Drop(ps, down \ Relocated(Flushed(ps, down), from, to), FolderMoved(Flushed(ps, down), from, to))
           ELSE Drop(ps, down, Flushed(ps, down))
        /\ CountFault(down, works)
  BY DEF move_folder
<1>2. edits' = edits /\ crashes' = crashes /\ Disjoint(from, to) /\ FitsInto(from, to)
  BY DEF move_folder
<1> DEFINE flushed == Flushed(ps, down)
           R == Relocated(flushed, from, to)
<1>3. faults' = faults => works /\ down = {}
  BY <1>1, FaultCounted, OutcomesAre
<1>4. CASE works
  <2>1. Drop(ps, down \ R, FolderMoved(flushed, from, to))
    BY <1>1, <1>4, Zenon
  <2>2. \/ lapses' = lapses /\ \A p \in (down \ R) \cap resident : file_map[p].text = store[p]
        \/ lapses' = lapses + 1
    BY <2>1, LapseCounted DEF Drop
  <2>3. down = {} => lapses' = lapses
    BY <2>1 DEF Drop, CountLapse
  <2>4. lapses \in Nat
    BY DEF IInv, GTypeOK
  <2>5. CASE lapses' = lapses
    <3>1. \A p \in (down \ R) \cap resident : file_map[p].text = store[p]
      BY <2>2, <2>4, <2>5
    <3>2. R \subseteq Beneath(to)
      BY <1>2, RelocatedFrom
    <3>3. \A q \in Beneath(from) : q \notin Beneath(to) /\ q \in Paths
      BY <1>2, ApartBeneath DEF Beneath
    <3>4. ASSUME NEW q \in ps \ R, q \in Paths PROVE flushed[q] = Contents[q]
      <4>1. q \in ps /\ q \notin R
        OBVIOUS
      <4> HIDE DEF R, ps
      <4>2. q \in down /\ q \in resident => file_map[q].text = store[q]
        BY <3>1, <4>1
      <4> QED BY <3>4, <4>1, <4>2, FlushedContents
    <3>5. \A q \in Paths \ ps : flushed[q] = store[q] /\ (q \notin resident => Contents[q] = store[q])
      BY FlushedTree DEF Contents
    <3>6. Contents \in Trees(edits) /\ Contents' \in Trees(edits) /\ edits \in Nat /\ flushed \in Trees(edits)
      BY <1>2, ContentsAre, ContentsNext, FlushedTree
    <3>7. \A q \in Paths : Contents'[q] = IF q \in resident \ ps THEN Contents[q]
                                          ELSE FolderMoved(flushed, from, to)[q]
      BY <2>1, DropEffect
    <3>8. \A q \in Beneath(from) : flushed[q] = Contents[q]
      BY <3>2, <3>3, <3>4
    <3> HIDE DEF flushed
    <3>9. /\ R = Relocated(Contents, from, to)
          /\ \A q \in R : FolderMoved(flushed, from, to)[q] = FolderMoved(Contents, from, to)[q]
      BY <1>2, <3>6, <3>8, SameRelocation
    <3>10. FolderMoved(Contents, from, to) \in Trees(edits)
      BY <1>2, <3>6, FolderTrees
    <3>11. ASSUME NEW q \in Paths PROVE Contents'[q] = FolderMoved(Contents, from, to)[q]
      <4>1. CASE q \in R
        <5>1. q \in ps
          BY <3>2, <4>1
        <5> QED BY <3>7, <3>9, <4>1, <5>1
      <4>2. CASE q \notin R
        <5>1. /\ FolderMoved(flushed, from, to)[q] = IF q \in Beneath(from) THEN NoFile ELSE flushed[q]
              /\ FolderMoved(Contents, from, to)[q] = IF q \in Beneath(from) THEN NoFile ELSE Contents[q]
          BY <3>9, <4>2, RestStays
        <5> HIDE DEF R
        <5> QED BY <3>4, <3>5, <3>7, <4>2, <5>1
      <4> QED BY <4>1, <4>2
    <3>12. Contents' = FolderMoved(Contents, from, to)
      BY <3>6, <3>10, <3>11, SameTrees
    <3> QED BY <1>2, <2>5, <3>12
  <2>6. CASE lapses' # lapses
    BY <1>2, <1>3, <2>2, <2>3, <2>6 DEF Refused
  <2> QED BY <2>5, <2>6
<1>5. CASE ~works
  <2>1. Drop(ps, down, flushed)
    BY <1>1, <1>5, Zenon
  <2>2. Refused
    BY <1>2, <2>1, FlushEffect DEF Refused
  <2> QED BY <1>2, <1>3, <1>5, <2>2
<1> QED BY <1>4, <1>5

LEMMA CopyFolderEffect ==
  ASSUME IInv, IInv', NEW from \in Folders, NEW to \in Folders, copy_folder(from, to)
  PROVE  /\ \/ Contents' = Contents
            \/ Contents' = FolderCopied(Contents, from, to)
         /\ faults' = faults => Contents' = FolderCopied(Contents, from, to)
         /\ lapses' = lapses /\ crashes' = crashes
<1>1. PICK down \in Outages(resident), works \in Outcomes : \E saved \in Saved(down) :
        /\ IF down = {}
           THEN /\ store' = IF works THEN FolderCopied(Flushed(saved, {}), from, to) ELSE Flushed(saved, {})
                /\ file_map' = [p \in resident \ Beneath(to) |-> Clean(saved)[p]]
           ELSE store' = Flushed(saved, {}) /\ file_map' = Clean(saved)
        /\ CountFault(down, works)
  BY DEF copy_folder
<1>2. PICK saved \in Saved(down) :
        /\ IF down = {}
           THEN /\ store' = IF works THEN FolderCopied(Flushed(saved, {}), from, to) ELSE Flushed(saved, {})
                /\ file_map' = [p \in resident \ Beneath(to) |-> Clean(saved)[p]]
           ELSE store' = Flushed(saved, {}) /\ file_map' = Clean(saved)
        /\ CountFault(down, works)
  BY <1>1
<1>3. /\ edits' = edits /\ crashes' = crashes /\ lapses' = lapses
      /\ Disjoint(from, to) /\ FitsInto(from, to)
  BY DEF copy_folder
<1> DEFINE flushed == Flushed(saved, {})
<1>4. faults' = faults => works /\ down = {}
  BY <1>2, FaultCounted, OutcomesAre
<1>5. saved \in SUBSET resident /\ (down = {} => saved = resident)
  BY SavedAre
<1>6. Contents \in Trees(edits) /\ Contents' \in Trees(edits) /\ edits \in Nat /\ flushed \in Trees(edits)
  BY <1>3, ContentsAre, ContentsNext, FlushedTree
<1>7. \A q \in resident : Clean(saved)[q].text = Contents[q] /\ q \in Paths
  BY <1>5, CleanBuffers, ContentsAre
<1>8. \A q \in Paths \ resident : flushed[q] = Contents[q]
  BY FlushedTree DEF Contents
<1>9. \A q \in Paths : Contents'[q] = IF q \in resident' THEN file_map'[q].text ELSE store'[q]
  BY DEF Contents
<1> HIDE DEF flushed
<1>10. CASE down # {}
  <2>1. file_map' = Clean(saved) /\ store' = flushed
    BY <1>2, <1>10 DEF flushed
  <2>2. resident' = resident
    BY <2>1 DEF resident, Clean
  <2>3. \A q \in Paths : Contents'[q] = Contents[q]
    BY <1>7, <1>8, <1>9, <2>1, <2>2
  <2>4. Contents' = Contents
    BY <1>6, <2>3, SameTrees
  <2> QED BY <1>3, <1>4, <1>10, <2>4
<1>11. CASE down = {}
  <2>1. /\ file_map' = [p \in resident \ Beneath(to) |-> Clean(saved)[p]]
        /\ store' = IF works THEN FolderCopied(flushed, from, to) ELSE flushed
    BY <1>2, <1>11 DEF flushed
  <2>2. resident' = resident \ Beneath(to)
    BY <2>1 DEF resident
  <2>3. flushed = Contents
    <3>1. \A q \in resident : flushed[q] = Contents[q]
      BY <1>5, <1>11, CleanBuffers, ContentsAre DEF flushed
    <3> QED BY <1>6, <1>8, <3>1, SameTrees
  <2>4. \A q \in resident \ Beneath(to) : file_map'[q].text = Contents[q]
    BY <1>7, <2>1
  <2>5. CASE works
    <3>1. store' = FolderCopied(Contents, from, to)
      BY <2>1, <2>3, <2>5, Zenon
    <3>2. /\ FolderCopied(Contents, from, to) \in Trees(edits)
          /\ \A q \in Paths \ Beneath(to) : FolderCopied(Contents, from, to)[q] = Contents[q]
      BY <1>3, <1>6, FolderTrees
    <3>3. \A q \in Paths : Contents'[q] = FolderCopied(Contents, from, to)[q]
      BY <1>7, <1>9, <2>2, <2>4, <3>1, <3>2
    <3>4. Contents' = FolderCopied(Contents, from, to)
      BY <1>6, <3>2, <3>3, SameTrees
    <3> QED BY <1>3, <3>4
  <2>6. CASE ~works
    <3>1. store' = Contents
      BY <2>1, <2>3, <2>6, Zenon
    <3>2. \A q \in Paths : Contents'[q] = Contents[q]
      BY <1>9, <2>2, <2>4, <3>1
    <3>3. Contents' = Contents
      BY <1>6, <3>2, SameTrees
    <3> QED BY <1>3, <1>4, <2>6, <3>3
  <2> QED BY <2>5, <2>6
<1> QED BY <1>10, <1>11

LEMMA CopyFileEffect ==
  ASSUME IInv, IInv', NEW from \in Paths, NEW to \in Paths, copy_file(from, to)
  PROVE  /\ \/ Refused
            \/ Contents' = FileCopied(Contents, from, to) /\ lapses' = lapses
         /\ Contents[from] # NoFile
         /\ faults' = faults => Contents' = FileCopied(Contents, from, to)
         /\ crashes' = crashes
<1>1. PICK down \in Outages({from, to}), works \in Outcomes :
        LET source  == save(Begin(from), from \notin down)
            flushed == [Flushed({to} \ {from}, down) EXCEPT ![from] = source.disk]
        IN /\ IF ~source.ok
              THEN /\ file_map' = Keep(from, get_file(from))
                   /\ UNCHANGED <<store, lapses>>
              ELSE /\ file_map' = [p \in (resident \cup {from}) \ {to} |->
                                     IF p = from THEN from_string(source.text) ELSE file_map[p]]
                   /\ store' = IF works THEN FileCopied(flushed, from, to) ELSE flushed
                   /\ CountLapse(IF works THEN {} ELSE down \ {from})
           /\ CountFault(down, works)
  BY DEF copy_file
<1>2. edits' = edits /\ crashes' = crashes /\ Loadable(from)
  BY DEF copy_file
<1>3. faults' = faults => works /\ down = {}
  BY <1>1, FaultCounted, OutcomesAre
<1> DEFINE source  == save(Begin(from), from \notin down)
           base == Flushed({to} \ {from}, down)
           flushed == [base EXCEPT ![from] = source.disk]
<1>4. /\ Contents \in Trees(edits) /\ Contents' \in Trees(edits) /\ edits \in Nat
      /\ base \in Trees(edits) /\ lapses \in Nat
  BY <1>2, ContentsAre, ContentsNext, FlushedTree DEF IInv, GTypeOK
<1>5. get_file(from).text = Contents[from] /\ Contents[from] # NoFile
  <2>1. CASE from \in resident
    BY <2>1, ContentsAre DEF get_file
  <2>2. CASE from \notin resident
    BY <1>2, <2>2 DEF get_file, from_string, Contents, Loadable
  <2> QED BY <2>1, <2>2
<1>6. /\ source.text = Contents[from] /\ (source.ok <=> from \notin down)
      /\ from \notin down => source.disk = Contents[from]
      /\ source.text \in TextsUpTo(edits)
  <2>1. (from \notin down) \in BOOLEAN
    OBVIOUS
  <2> QED BY <1>2, <1>5, <2>1, SourceOf
<1>7. \A q \in Paths : Contents'[q] = IF q \in resident' THEN file_map'[q].text ELSE store'[q]
  BY DEF Contents
<1>8. \A q \in Paths : Contents[q] = IF q \in resident THEN file_map[q].text ELSE store[q]
  BY DEF Contents
<1>9. CASE from \in down
  <2>1. file_map' = Keep(from, get_file(from)) /\ store' = store /\ lapses' = lapses
    BY <1>1, <1>6, <1>9, Zenon
  <2>2. /\ resident' = resident \cup {from}
        /\ \A q \in resident' : file_map'[q] = IF q = from THEN get_file(from) ELSE file_map[q]
    BY <2>1 DEF resident, Keep
  <2>3. \A q \in Paths : Contents'[q] = Contents[q]
    BY <1>5, <1>7, <1>8, <2>1, <2>2
  <2>4. Contents' = Contents
    BY <1>4, <2>3, SameTrees
  <2> QED BY <1>2, <1>3, <1>5, <1>9, <2>1, <2>4 DEF Refused
<1>10. CASE from \notin down
  <2>1. /\ file_map' = [p \in (resident \cup {from}) \ {to} |->
                          IF p = from THEN from_string(source.text) ELSE file_map[p]]
        /\ store' = IF works THEN FileCopied(flushed, from, to) ELSE flushed
        /\ CountLapse(IF works THEN {} ELSE down \ {from})
        /\ source.text = Contents[from] /\ source.disk = Contents[from]
    BY <1>1, <1>6, <1>10, Zenon
  <2> HIDE DEF source
  <2>2. /\ resident' = (resident \cup {from}) \ {to}
        /\ \A q \in resident' : file_map'[q].text = Contents[q]
    <3>1. resident' = (resident \cup {from}) \ {to}
      BY <2>1 DEF resident
    <3>2. \A q \in resident' : file_map'[q] = IF q = from THEN from_string(source.text) ELSE file_map[q]
      BY <2>1, <3>1
    <3>3. \A q \in resident : file_map[q].text = Contents[q]
      BY ContentsAre
    <3> QED BY <2>1, <3>1, <3>2, <3>3 DEF from_string
  <2>3. flushed \in Trees(edits) /\ flushed[from] = Contents[from]
    <3>1. source.disk \in TextsUpTo(edits)
      BY <1>6, <2>1, Zenon
    <3> HIDE DEF base
    <3> QED BY <1>4, <2>1, <3>1 DEF Trees
  <2>4. \A q \in Paths : q \notin {from, to} => flushed[q] = store[q]
    <3>1. \A q \in Paths : q \notin {from, to} => base[q] = store[q]
      BY FlushedTree
    <3> HIDE DEF base
    <3> QED BY <1>4, <3>1 DEF Trees
  <2>5. to # from => flushed[to] = base[to]
    <3> HIDE DEF base
    <3> QED BY <1>4 DEF Trees
  <2>6. CASE works
    <3>1. lapses' = lapses
      BY <2>1, <2>6 DEF CountLapse
    <3> HIDE DEF flushed
    <3>2. /\ store' = FileCopied(flushed, from, to)
          /\ FileCopied(Contents, from, to) \in Trees(edits)
          /\ FileCopied(Contents, from, to)[to] = Contents[from] /\ store'[to] = Contents[from]
          /\ \A q \in Paths \ {to} : FileCopied(Contents, from, to)[q] = Contents[q] /\ store'[q] = flushed[q]
      <4>1. store' = FileCopied(flushed, from, to)
        BY <2>1, <2>6, Zenon
      <4>2. /\ FileCopied(flushed, from, to)[to] = flushed[from]
            /\ \A q \in Paths \ {to} : FileCopied(flushed, from, to)[q] = flushed[q]
        BY <1>4, <2>3, FileTrees
      <4>3. /\ FileCopied(Contents, from, to) \in Trees(edits)
            /\ FileCopied(Contents, from, to)[to] = Contents[from]
            /\ \A q \in Paths \ {to} : FileCopied(Contents, from, to)[q] = Contents[q]
        BY <1>4, FileTrees
      <4> QED BY <2>3, <4>1, <4>2, <4>3
    <3>3. ASSUME NEW q \in Paths PROVE Contents'[q] = FileCopied(Contents, from, to)[q]
      <4>1. CASE q = to
        BY <1>7, <2>2, <3>2, <4>1
      <4>2. CASE q # to /\ q \in resident \cup {from}
        BY <1>7, <2>2, <3>2, <4>2
      <4>3. CASE q \notin {from, to} /\ q \notin resident
        BY <1>7, <1>8, <2>2, <2>4, <3>2, <4>3
      <4> QED BY <4>1, <4>2, <4>3
    <3>4. Contents' = FileCopied(Contents, from, to)
      BY <1>4, <3>2, <3>3, SameTrees
    <3> QED BY <1>2, <1>5, <3>1, <3>4
  <2>7. CASE ~works
    <3>1. CountLapse(down \ {from})
      BY <2>1, <2>7, Zenon
    <3>2. \/ lapses' = lapses /\ \A p \in (down \ {from}) \cap resident : file_map[p].text = store[p]
          \/ lapses' = lapses + 1
      BY <3>1, LapseCounted
    <3>3. CASE lapses' = lapses
      <4>1. \A p \in (down \ {from}) \cap resident : file_map[p].text = store[p]
        BY <1>4, <3>2, <3>3
      <4>2. store' = flushed
        BY <2>1, <2>7, Zenon
      <4>3. flushed[to] = Contents[to]
        <5>1. CASE to = from
          BY <2>3, <5>1
        <5>2. CASE to # from
          <6>1. base[to] = Contents[to]
            BY <4>1, <5>2, FlushedContents
          <6> QED BY <2>5, <5>2, <6>1
        <5> QED BY <5>1, <5>2
      <4> HIDE DEF flushed
      <4>4. ASSUME NEW q \in Paths PROVE Contents'[q] = Contents[q]
        <5>1. CASE q = to
          BY <1>7, <2>2, <4>2, <4>3, <5>1
        <5>2. CASE q # to /\ q \in resident \cup {from}
          BY <1>7, <2>2, <5>2
        <5>3. CASE q \notin {from, to} /\ q \notin resident
          BY <1>7, <1>8, <2>2, <2>4, <4>2, <5>3
        <5> QED BY <5>1, <5>2, <5>3
      <4>5. Contents' = Contents
        BY <1>4, <4>4, SameTrees
      <4> QED BY <1>2, <1>3, <1>5, <2>7, <3>3, <4>5 DEF Refused
    <3>4. CASE lapses' # lapses
      BY <1>2, <1>3, <1>5, <2>7, <3>2, <3>4 DEF Refused
    <3> QED BY <3>3, <3>4
  <2> QED BY <2>6, <2>7
<1> QED BY <1>9, <1>10

\* A call in which no write failed does to the session's texts what it is named for.
LEMMA CallsStep ==
  ASSUME IInv, IInv', faults' = faults
  PROVE  /\ \A p \in Paths : delete(p) => Contents' = Without(Contents, {p})
         /\ \A folder \in Folders :
              delete_folder(folder) => Contents' = Without(Contents, Beneath(folder))
         /\ \A from, to \in Paths : Contents[from] # NoFile =>
              /\ move_file(from, to) => Contents' = FileMoved(Contents, from, to)
              /\ copy_file(from, to) => Contents' = FileCopied(Contents, from, to)
         /\ \A from, to \in Folders :
              /\ move_folder(from, to) => Contents' = FolderMoved(Contents, from, to)
              /\ copy_folder(from, to) => Contents' = FolderCopied(Contents, from, to)
<1>1. ASSUME NEW p \in Paths, delete(p) PROVE Contents' = Without(Contents, {p})
  BY <1>1, DeleteEffect
<1>2. ASSUME NEW folder \in Folders, delete_folder(folder)
      PROVE  Contents' = Without(Contents, Beneath(folder))
  BY <1>2, DeleteFolderEffect
<1>3. ASSUME NEW from \in Paths, NEW to \in Paths, Contents[from] # NoFile, move_file(from, to)
      PROVE  Contents' = FileMoved(Contents, from, to)
  BY <1>3, MoveFileEffect
<1>4. ASSUME NEW from \in Paths, NEW to \in Paths, copy_file(from, to)
      PROVE  Contents' = FileCopied(Contents, from, to)
  BY <1>4, CopyFileEffect
<1>5. ASSUME NEW from \in Folders, NEW to \in Folders, move_folder(from, to)
      PROVE  Contents' = FolderMoved(Contents, from, to)
  BY <1>5, MoveFolderEffect
<1>6. ASSUME NEW from \in Folders, NEW to \in Folders, copy_folder(from, to)
      PROVE  Contents' = FolderCopied(Contents, from, to)
  BY <1>6, CopyFolderEffect
<1> QED BY <1>1, <1>2, <1>3, <1>4, <1>5, <1>6

\* Whatever is buffered, a file or folder operation during which no write fails does to the
\* texts the session sees exactly what its name says: delete, move and copy act on the unsaved
\* edits too, and no buffer that is dropped on the way undoes them.
THEOREM Calls == Spec => CallsActOnSession
<1>1. IInv /\ IInv' =>
        [faults' = faults =>
           /\ \A p \in Paths : delete(p) => Contents' = Without(Contents, {p})
           /\ \A folder \in Folders :
                delete_folder(folder) => Contents' = Without(Contents, Beneath(folder))
           /\ \A from, to \in Paths : Contents[from] # NoFile =>
                /\ move_file(from, to) => Contents' = FileMoved(Contents, from, to)
                /\ copy_file(from, to) => Contents' = FileCopied(Contents, from, to)
           /\ \A from, to \in Folders :
                /\ move_folder(from, to) => Contents' = FolderMoved(Contents, from, to)
                /\ copy_folder(from, to) => Contents' = FolderCopied(Contents, from, to)]_vars
  BY CallsStep
<1> QED BY <1>1, InductiveInv, PTL DEF CallsActOnSession

-----------------------------------------------------------------------------
(* Every call is a step of the session. *)

\* The operators of the session are those of the guard.
LEMMA SessionTrees ==
  ASSUME NEW tree, NEW from, NEW to
  PROVE  /\ Session!Without(tree, from) = Without(tree, from)
         /\ Session!Beneath(from) = Beneath(from)
         /\ Session!FileMoved(tree, from, to) = FileMoved(tree, from, to)
         /\ Session!FileCopied(tree, from, to) = FileCopied(tree, from, to)
<1>1. \A s, t : Session!IsPrefix(s, t) = IsPrefix(s, t)
  BY DEF Session!IsPrefix, IsPrefix
<1> QED BY <1>1 DEF Session!Without, Without, Session!Beneath, Beneath, Session!FileMoved, FileMoved,
                    Session!FileCopied, FileCopied

LEMMA SessionFolders ==
  ASSUME NEW tree, NEW from, NEW to
  PROVE  /\ Session!FolderMoved(tree, from, to) = FolderMoved(tree, from, to)
         /\ Session!FolderCopied(tree, from, to) = FolderCopied(tree, from, to)
<1>1. \A f : Session!Beneath(f) = Beneath(f)
  BY SessionTrees
<1>2. \A p, f, t : Session!Rebased(p, f, t) = Rebased(p, f, t)
  BY DEF Session!Rebased, Rebased
<1>3. Session!Present(tree) = Present(tree)
  BY DEF Session!Present, Present
<1>4. Session!Relocated(tree, from, to) = Relocated(tree, from, to)
  BY <1>1, <1>2, <1>3 DEF Session!Relocated, Relocated
<1> QED BY <1>1, <1>2, <1>4 DEF Session!FolderMoved, FolderMoved, Session!FolderCopied, FolderCopied

\* A step that the session does not see, but for what is at risk.
LEMMA QuietStep ==
  ASSUME IInv, IInv', Contents' = Contents, lapses' = lapses, crashes' = crashes
  PROVE  [Session!Next]_(Session!vars)
<1>1. CASE atRisk' = atRisk
  BY <1>1 DEF Session!vars
<1>2. CASE atRisk' # atRisk
  <2>1. PICK p : p \in atRisk \/ p \in atRisk'
    BY <1>2
  <2>2. p \in Paths /\ Contents[p] # NoFile
    <3>1. CASE p \in atRisk
      <4>1. p \in resident
        BY <3>1 DEF IInv, GTypeOK
      <4> QED BY <4>1, ContentsAre
    <3>2. CASE p \in atRisk'
      <4>1. p \in resident' /\ p \in Paths
        BY <3>2 DEF IInv, GTypeOK
      <4>2. file_map'[p].text \in TextsUpTo(edits') /\ edits' \in Nat
        BY <4>1 DEF IInv, GTypeOK, Buffers
      <4>3. file_map'[p].text # NoFile
        BY <4>2, TextsAreTexts
      <4>4. Contents'[p] = file_map'[p].text
        BY <4>1 DEF Contents
      <4> QED BY <4>1, <4>3, <4>4
    <3> QED BY <2>1, <3>1, <3>2
  <2>3. FileCopied(Contents, p, p) = Contents
    BY <2>2 DEF FileCopied, Contents
  <2>4. Contents' = Session!FileCopied(Contents, p, p)
    BY <2>3, SessionTrees
  <2>5. Session!FileOperation
    BY <2>2, <2>4 DEF Session!FileOperation
  <2> QED BY <2>5 DEF Session!Next
<1> QED BY <1>1, <1>2

LEMMA RefusedStep ==
  ASSUME IInv, IInv', Refused, crashes' = crashes
  PROVE  [Session!Next]_(Session!vars)
<1>1. CASE lapses' = lapses + 1
  BY <1>1 DEF Session!Next, Session!Lapse
<1> QED BY <1>1, QuietStep DEF Refused

LEMMA OperationsSteps ==
  ASSUME IInv, IInv', lapses' = lapses, crashes' = crashes,
         \/ \E p \in Paths : Contents' = Without(Contents, {p})
         \/ \E folder \in Folders : Contents' = Without(Contents, Beneath(folder))
         \/ \E from, to \in Paths :
              /\ Contents[from] # NoFile
              /\ Contents' \in {FileMoved(Contents, from, to), FileCopied(Contents, from, to)}
         \/ \E from, to \in Folders :
              Contents' \in {FolderMoved(Contents, from, to), FolderCopied(Contents, from, to)}
  PROVE  [Session!Next]_(Session!vars)
<1>1. Session!FileOperation
  BY SessionTrees, SessionFolders DEF Session!FileOperation, Session!Delete
<1> QED BY <1>1 DEF Session!Next

\* What an edit numbers after the last one is nowhere in the session yet.
LEMMA Fresh ==
  ASSUME IInv, NEW m \in Nat, NEW s, \A i \in DOMAIN s : s[i] \in ((edits + 1)..m) \X Origins
  PROVE  Session!FreshIn(s, Contents)
<1> SUFFICES ASSUME NEW x \in Session!ToSet(s), x \in Session!Edits(Contents) PROVE FALSE
  BY DEF Session!FreshIn
<1>1. PICK i \in DOMAIN s : x = s[i]
  BY DEF Session!ToSet
<1>2. PICK q \in Session!Present(Contents) : x \in Session!ToSet(Contents[q])
  BY DEF Session!Edits
<1>3. edits \in Nat /\ q \in Paths /\ Contents[q] \in TextsUpTo(edits)
  BY <1>2, ContentsAre DEF Session!Present, Trees
<1>4. PICK j \in DOMAIN Contents[q] : x = Contents[q][j]
  BY <1>2 DEF Session!ToSet
<1>5. x \in (0..edits) \X Origins
  <2> DEFINE E == (0..edits) \X Origins
             t == Contents[q]
  <2>1. t \in Seq(E)
    BY <1>3 DEF TextsUpTo
  <2>2. j \in DOMAIN t /\ x = t[j]
    BY <1>4
  <2> HIDE DEF E, t
  <2>3. x \in E
    BY <2>1, <2>2
  <2> QED BY <2>3 DEF E
<1>6. x[1] \in 0..edits /\ x[1] \in (edits + 1)..m
  BY <1>1, <1>5
<1> QED BY <1>3, <1>6

\* A buffer that is put in place shows its text, and no other text changes.
LEMMA KeptEffect ==
  ASSUME IInv, IInv', NEW p \in Paths, NEW b, file_map' = Keep(p, b),
         \A q \in Paths \ {p} : store'[q] = store[q]
  PROVE  /\ Contents'[p] = b.text /\ Contents'[p] # NoFile
         /\ Contents' = [Contents EXCEPT ![p] = Contents'[p]]
<1>1. resident' = resident \cup {p} /\ \A q \in resident' : file_map'[q] = IF q = p THEN b ELSE file_map[q]
  BY DEF resident, Keep
<1>2. \A q \in Paths : /\ Contents'[q] = IF q \in resident' THEN file_map'[q].text ELSE store'[q]
                       /\ Contents[q] = IF q \in resident THEN file_map[q].text ELSE store[q]
  BY DEF Contents
<1>3. Contents'[p] = b.text
  BY <1>1, <1>2
<1>4. \A q \in Paths \ {p} : Contents'[q] = Contents[q]
  BY <1>1, <1>2
<1>5. Contents'[p] # NoFile
  <2>1. edits' \in Nat /\ file_map'[p].text \in TextsUpTo(edits')
    BY <1>1 DEF IInv, GTypeOK, Buffers
  <2> QED BY <1>1, <1>3, <2>1, TextsAreTexts
<1>6. Contents' = [Contents EXCEPT ![p] = Contents'[p]]
  <2>1. Contents = [q \in Paths |-> Contents[q]] /\ Contents' = [q \in Paths |-> Contents'[q]]
    BY DEF Contents
  <2> DEFINE before == Contents
             now    == Contents'
  <2>2. before = [q \in Paths |-> before[q]] /\ now = [q \in Paths |-> now[q]]
    BY <2>1
  <2>3. \A q \in Paths \ {p} : now[q] = before[q]
    BY <1>4
  <2> HIDE DEF before, now
  <2>4. now = [before EXCEPT ![p] = now[p]]
    BY <2>2, <2>3
  <2> QED BY <2>4 DEF before, now
<1> QED BY <1>3, <1>5, <1>6

\* To continue a text with new edits is an edit of the session.
LEMMA EditingStep ==
  ASSUME IInv, IInv', NEW p \in Paths, NEW f, f.last \in Nat, f.text \in Texts,
         Contents[p] # NoFile, Continues(f, Contents[p], edits), Len(Contents[p]) < Len(f.text),
         Contents'[p] = f.text, Contents'[p] # NoFile,
         Contents' = [Contents EXCEPT ![p] = Contents'[p]], lapses' = lapses, crashes' = crashes
  PROVE  [Session!Next]_(Session!vars)
<1> DEFINE base == Contents[p]
           t == f.text
           s == SubSeq(t, Len(base) + 1, Len(t))
           New == ((edits + 1)..f.last) \X Origins
<1>1. base \in Texts /\ t \in Texts /\ edits \in Nat
  BY ContentsAre, TextsAreTexts DEF Trees
<1>2. /\ IsPrefix(base, t) /\ Len(base) < Len(t)
      /\ \A i \in 1..Len(t) : i > Len(base) => t[i] \in New
  BY DEF Continues
<1>3. Contents'[p] = t
  OBVIOUS
<1> HIDE DEF base, t, New
<1>4. \A i \in DOMAIN s : s[i] \in New
  <2> DEFINE E == Nat \X Origins
  <2>1. base \in Seq(E) /\ t \in Seq(E)
    BY <1>1 DEF Texts
  <2> HIDE DEF E
  <2>2. Len(base) \in Nat /\ Len(t) \in Nat
    BY <2>1
  <2>3. \A i \in DOMAIN s : s[i] = t[Len(base) + i] /\ Len(base) + i \in 1..Len(t) /\ Len(base) + i > Len(base)
    BY <2>1, <2>2, <1>2
  <2> QED BY <1>2, <2>3
<1> HIDE DEF s
<1>5. Session!FreshIn(s, Contents)
  BY <1>4, Fresh DEF New
<1>6. Session!Suffix(Contents'[p], Contents[p]) = s
  BY <1>3 DEF Session!Suffix, s, base
<1>7. Session!IsStrictPrefix(Contents[p], Contents'[p])
  BY <1>2, <1>3 DEF base, Session!IsStrictPrefix, Session!IsPrefix, IsPrefix
<1>8. Session!Edit(p)
  BY <1>5, <1>6, <1>7 DEF Session!Edit
<1>9. Session!FileOperation
  BY <1>8 DEF Session!FileOperation
<1> QED BY <1>9 DEF Session!Next

LEMMA LoadedContents ==
  ASSUME IInv, NEW p \in Paths, Loadable(p)
  PROVE  get_file(p).text = Contents[p] /\ Contents[p] # NoFile
<1>1. CASE p \in resident
  BY <1>1, ContentsAre DEF get_file
<1>2. CASE p \notin resident
  BY <1>2 DEF get_file, from_string, Contents, Loadable
<1> QED BY <1>1, <1>2

LEMMA TransactionSession ==
  ASSUME IInv, IInv', NEW p \in Paths, apply_transaction(p)
  PROVE  [Session!Next]_(Session!vars)
<1>1. PICK runs \in Transactions, down \in Outages({p}) :
        Commit(p, apply_transaction_ops(p, runs, down = {}))
  BY Zenon DEF apply_transaction
<1>2. Loadable(p) /\ edits \in Nat
  BY DEF apply_transaction, IInv, GTypeOK
<1>3. InProgress(Begin(p)) /\ Begin(p).text \in Texts /\ Begin(p).text = Contents[p] /\ Contents[p] # NoFile
  BY <1>2, BeginInProgress, TextsAreTexts, LoadedContents
<1> DEFINE up == down = {}
           f == apply_transaction_ops(p, runs, up)
<1>4. up \in BOOLEAN
  OBVIOUS
<1>5. /\ InProgress(f) /\ Continues(f, Begin(p).text, edits) /\ Len(Begin(p).text) < Len(f.text)
  <2> HIDE DEF up
  <2> QED BY <1>2, <1>3, <1>4, Transaction
<1>6. Commit(p, f)
  BY <1>1, Zenon
<1> HIDE DEF f
<1>7. f.last \in Nat /\ f.text \in Texts
  BY <1>5, TextsAreTexts DEF InProgress
<1> DEFINE b == [text |-> f.text, ops_since_save |-> f.ops]
<1>8. /\ file_map' = Keep(p, b) /\ b.text = f.text
      /\ store' = [store EXCEPT ![p] = f.disk] /\ lapses' = lapses /\ crashes' = crashes
  BY <1>6 DEF Commit
<1>9. \A q \in Paths \ {p} : store'[q] = store[q]
  BY <1>8 DEF IInv, GTypeOK, Trees
<1> HIDE DEF b
<1>10. /\ Contents'[p] = f.text /\ Contents'[p] # NoFile
       /\ Contents' = [Contents EXCEPT ![p] = Contents'[p]]
  BY <1>8, <1>9, KeptEffect
<1>11. Continues(f, Contents[p], edits) /\ Len(Contents[p]) < Len(f.text)
  BY <1>3, <1>5
<1> QED BY <1>3, <1>7, <1>8, <1>10, <1>11, EditingStep

LEMMA UpdateSession ==
  ASSUME IInv, IInv', NEW p \in Paths, apply_update(p)
  PROVE  [Session!Next]_(Session!vars)
<1> DEFINE e == <<edits + 1, "remote">>
           old == get_file(p)
           b == [old EXCEPT !.text = Append(@, e)]
           f == [text |-> Append(Contents[p], e), last |-> edits + 1]
<1>1. /\ Loadable(p) /\ edits \in Nat
      /\ file_map' = Keep(p, b) /\ store' = store /\ lapses' = lapses /\ crashes' = crashes
  BY DEF apply_update, IInv, GTypeOK
<1>2. old \in Buffers(edits) /\ old.text = Contents[p] /\ Contents[p] # NoFile /\ Contents[p] \in Texts
  BY <1>1, BeginInProgress, LoadedContents, TextsAreTexts, ContentsAre DEF Trees
<1>3. b.text = f.text
  BY <1>2 DEF Buffers
<1>4. e \in Nat \X Origins /\ e \in ((edits + 1)..(edits + 1)) \X Origins
  <2>1. edits + 1 \in Nat /\ edits + 1 \in (edits + 1)..(edits + 1)
    BY <1>1
  <2> QED BY <2>1, Zenon DEF Origins
<1> HIDE DEF b, e
<1>5. /\ Contents'[p] = f.text /\ Contents'[p] # NoFile
      /\ Contents' = [Contents EXCEPT ![p] = Contents'[p]]
  BY <1>1, <1>3, KeptEffect
<1> DEFINE base == Contents[p]
<1>6. /\ f.text = Append(base, e) /\ f.last = edits + 1 /\ base \in Texts
  BY <1>2
<1> HIDE DEF base, f
<1>7. /\ f.text \in Texts /\ Len(f.text) = Len(base) + 1 /\ Len(base) \in Nat
      /\ IsPrefix(base, f.text) /\ f.text[Len(base) + 1] = e
  <2> DEFINE E == Nat \X Origins
  <2>1. base \in Seq(E) /\ e \in E
    BY <1>4, <1>6 DEF Texts
  <2> HIDE DEF E
  <2>2. Append(base, e) \in Seq(E) /\ IsPrefix(base, Append(base, e))
    <3>1. IsPrefix(base, base)
      BY <2>1, SuffixOfSelf
    <3> QED BY <2>1, <3>1, SuffixOfAppend
  <2>3. Len(Append(base, e)) = Len(base) + 1 /\ Append(base, e)[Len(base) + 1] = e /\ Len(base) \in Nat
    BY <2>1
  <2> QED BY <1>6, <2>2, <2>3 DEF Texts, E
<1>8. Continues(f, base, edits) /\ Len(base) < Len(f.text)
  <2>1. \A i \in 1..Len(f.text) : i > Len(base) => f.text[i] = e
    BY <1>7
  <2>2. f.last = edits + 1 /\ edits <= f.last
    BY <1>1, <1>6
  <2> QED BY <1>4, <1>7, <2>1, <2>2 DEF Continues
<1>9. f.last \in Nat
  BY <1>1, <1>6
<1> QED BY <1>1, <1>2, <1>5, <1>7, <1>8, <1>9, EditingStep DEF base

LEMMA ReadSession ==
  ASSUME IInv, IInv', NEW p \in Paths, read(p)
  PROVE  [Session!Next]_(Session!vars)
<1>1. /\ Loadable(p) /\ file_map' = Keep(p, get_file(p))
      /\ store' = store /\ edits' = edits /\ lapses' = lapses /\ crashes' = crashes
  BY DEF read
<1>2. /\ Contents'[p] = get_file(p).text
      /\ Contents' = [Contents EXCEPT ![p] = Contents'[p]]
  BY <1>1, KeptEffect
<1>3. get_file(p).text = Contents[p]
  BY <1>1, LoadedContents
<1>4. Contents' = Contents
  BY <1>2, <1>3 DEF Contents
<1> QED BY <1>1, <1>4, QuietStep

LEMMA WriteSession ==
  ASSUME IInv, IInv', NEW p \in Paths, write(p)
  PROVE  [Session!Next]_(Session!vars)
<1> DEFINE typed == << <<edits + 1, "local">> >>
           written == Written(Begin(p), typed, edits + 1)
<1>1. PICK down \in Outages({p}) : Commit(p, save(written, down = {}))
  BY Zenon DEF write, Written
<1>2. edits \in Nat
  BY DEF IInv, GTypeOK
<1>3. written.text = typed /\ Fields(written)
  <2> DEFINE n == edits + 1
             f == Begin(p)
             w == Written(f, typed, n)
  <2>1. Fields(f)
    BY DEF Begin, Fields
  <2> HIDE DEF typed, n, f
  <2>2. w.text = typed /\ Fields(w)
    BY <2>1, WrittenFields
  <2> QED BY <2>2 DEF n, f
<1> HIDE DEF typed, written
<1> DEFINE up == down = {}
           f == save(written, up)
           b == [text |-> f.text, ops_since_save |-> f.ops]
<1>4. up \in BOOLEAN
  OBVIOUS
<1> HIDE DEF up
<1>5. f.text = typed
  BY <1>3, <1>4, SaveFields
<1>6. Commit(p, f)
  BY <1>1 DEF up
<1> HIDE DEF f
<1>7. /\ file_map' = Keep(p, b) /\ b.text = typed
      /\ store' = [store EXCEPT ![p] = f.disk] /\ lapses' = lapses /\ crashes' = crashes
  BY <1>5, <1>6 DEF Commit
<1>8. \A q \in Paths \ {p} : store'[q] = store[q]
  BY <1>7 DEF IInv, GTypeOK, Trees
<1> HIDE DEF b
<1>9. /\ Contents'[p] = typed /\ Contents'[p] # NoFile
      /\ Contents' = [Contents EXCEPT ![p] = Contents'[p]]
  BY <1>7, <1>8, KeptEffect
<1>10. \A i \in DOMAIN typed : typed[i] \in ((edits + 1)..(edits + 1)) \X Origins
  <2>1. \A i \in DOMAIN typed : typed[i] = <<edits + 1, "local">>
    BY DEF typed
  <2>2. <<edits + 1, "local">> \in ((edits + 1)..(edits + 1)) \X Origins
    <3>1. edits + 1 \in (edits + 1)..(edits + 1)
      BY <1>2
    <3> QED BY <3>1, Zenon DEF Origins
  <2> QED BY <2>1, <2>2
<1>11. Session!FreshIn(typed, Contents)
  <2>1. edits + 1 \in Nat
    BY <1>2
  <2> QED BY <1>10, <2>1, Fresh
<1>12. Session!FileOperation
  BY <1>7, <1>9, <1>11 DEF Session!FileOperation, Session!Overwrite
<1> QED BY <1>12 DEF Session!Next

\* What a crash or a reload takes back of a buffer is the tail that was not saved.
LEMMA TakenBackStep ==
  ASSUME IInv, IInv', NEW p \in Paths, Contents'[p] = IF p \in resident THEN store[p] ELSE Contents[p]
  PROVE  Session!TakenBack(p)
<1>1. CASE p \in resident \ atRisk
  <2>1. Contents'[p] = store[p] /\ Contents[p] = file_map[p].text /\ Contents[p] # NoFile
    BY <1>1, ContentsAre
  <2>2. /\ store[p] # NoFile /\ IsPrefix(store[p], Contents[p])
        /\ Session!LocalEdits(Session!Suffix(Contents[p], store[p])) < SAVE_THRESHOLD
    BY <1>1, <2>1 DEF IInv, BufferRunsAhead
  <2> QED BY <2>1, <2>2 DEF Session!TakenBack, Session!IsPrefix, IsPrefix
<1>2. CASE p \in atRisk
  BY <1>2 DEF Session!TakenBack
<1>3. CASE p \notin resident
  BY <1>3 DEF Session!TakenBack
<1> QED BY <1>1, <1>2, <1>3

LEMMA CrashSession ==
  ASSUME IInv, IInv', Crash
  PROVE  [Session!Next]_(Session!vars)
<1>1. /\ file_map' = Evicted(Paths) /\ store' = store
      /\ crashes' = crashes + 1 /\ lapses' = lapses
  BY DEF Crash
<1>2. resident' = {}
  <2>1. resident \ Paths = {}
    BY DEF IInv, GTypeOK
  <2> QED BY <1>1, <2>1 DEF resident, Evicted
<1>3. ASSUME NEW p \in Paths PROVE Session!TakenBack(p)
  <2>1. Contents'[p] = store[p]
    BY <1>1, <1>2 DEF Contents
  <2>2. p \notin resident => Contents[p] = store[p]
    BY DEF Contents
  <2> QED BY <2>1, <2>2, TakenBackStep
<1> QED BY <1>1, <1>3 DEF Session!Next, Session!Crash

LEMMA AddSession ==
  ASSUME IInv, IInv', NEW p \in Paths, add_file(p)
  PROVE  [Session!Next]_(Session!vars)
<1>1. PICK down \in Outages({p}) :
        /\ file_map' = Keep(p, from_string(store[p]))
        /\ store' = Flushed({p}, down)
        /\ CountLapse(down)
        /\ IF p \in resident /\ file_map[p].text # store[p]
           THEN crashes' = crashes + 1
           ELSE UNCHANGED crashes
  BY DEF add_file
<1>2. \A q \in Paths \ {p} : store'[q] = store[q]
  BY <1>1, FlushedTree
<1>3. /\ Contents'[p] = from_string(store[p]).text
      /\ Contents' = [Contents EXCEPT ![p] = Contents'[p]]
  BY <1>1, <1>2, KeptEffect
<1>4. Contents'[p] = store[p]
  BY <1>3 DEF from_string
<1>5. \A q \in Paths \ {p} : Contents'[q] = Contents[q]
  BY <1>3 DEF Contents
<1>6. \/ lapses' = lapses /\ \A q \in down \cap resident : file_map[q].text = store[q]
      \/ lapses' = lapses + 1
  BY <1>1, LapseCounted
<1>7. CASE lapses' = lapses + 1
  BY <1>7 DEF Session!Next, Session!Lapse
<1>8. CASE lapses' = lapses /\ p \in resident /\ file_map[p].text # store[p]
  <2>1. crashes' = crashes + 1
    BY <1>1, <1>8
  <2>2. Session!TakenBack(p)
    BY <1>4, <1>8, TakenBackStep
  <2>3. \A q \in Paths \ {p} : Session!TakenBack(q)
    BY <1>5 DEF Session!TakenBack
  <2> QED BY <1>8, <2>1, <2>2, <2>3 DEF Session!Next, Session!Crash
<1>9. CASE lapses' = lapses /\ ~(p \in resident /\ file_map[p].text # store[p])
  <2>1. crashes' = crashes /\ Contents'[p] = Contents[p]
    BY <1>1, <1>4, <1>9 DEF Contents
  <2>2. Contents' = Contents
    BY <1>3, <2>1 DEF Contents
  <2> QED BY <1>9, <2>1, <2>2, QuietStep
<1> QED BY <1>6, <1>7, <1>8, <1>9

\* Buffers that are dropped, or saved: at most a lapse, and for the rest unseen.
LEMMA DroppedSession ==
  ASSUME IInv, IInv',
         \/ \E p \in Paths : drop_file(p)
         \/ \E folder \in Folders : drop_dir(folder)
         \/ DropGuard
  PROVE  [Session!Next]_(Session!vars)
<1>1. PICK ps, down : Drop(ps, down, Flushed(ps, down))
  BY DEF drop_file, drop_dir, DropGuard
<1>2. edits' = edits /\ crashes' = crashes
  BY DEF drop_file, drop_dir, DropGuard
<1>3. Refused
  BY <1>1, <1>2, FlushEffect DEF Refused
<1> QED BY <1>2, <1>3, RefusedStep

LEMMA SnapshotSession ==
  ASSUME IInv, IInv', snapshot
  PROVE  [Session!Next]_(Session!vars)
<1>1. PICK down \in Outages(resident) : \E saved \in Saved(down) :
        store' = Flushed(saved, {}) /\ file_map' = Clean(saved)
  BY DEF snapshot
<1>2. PICK saved \in Saved(down) : store' = Flushed(saved, {}) /\ file_map' = Clean(saved)
  BY <1>1
<1>3. saved \in SUBSET resident
  BY SavedAre
<1>4. resident' = resident
  BY <1>2 DEF resident, Clean
<1>5. \A q \in resident : file_map'[q].text = Contents[q] /\ q \in Paths
  BY <1>2, <1>3, CleanBuffers, ContentsAre
<1>6. \A q \in Paths \ resident : store'[q] = Contents[q]
  BY <1>2, FlushedTree DEF Contents
<1>7. \A q \in Paths : Contents'[q] = Contents[q]
  BY <1>4, <1>5, <1>6 DEF Contents
<1>8. edits' = edits /\ lapses' = lapses /\ crashes' = crashes
  BY DEF snapshot
<1>9. Contents' = Contents
  BY <1>7, <1>8, ContentsAre, ContentsNext, SameTrees
<1> QED BY <1>8, <1>9, QuietStep

\* Initially the session sees what the store holds.
LEMMA SessionInit == Init => Session!Init
  BY DEF Init, Session!Init

\* Each call is an operation of the session on its texts, a lapse, a crash, or
\* nothing that the session sees.
LEMMA SessionStep == IInv /\ IInv' /\ [Next]_vars => [Session!Next]_(Session!vars)
<1> SUFFICES ASSUME IInv, IInv', [Next]_vars PROVE [Session!Next]_(Session!vars)
  OBVIOUS
<1>1. ASSUME NEW p \in Paths, apply_transaction(p) PROVE [Session!Next]_(Session!vars)
  BY <1>1, TransactionSession
<1>2. ASSUME NEW p \in Paths, apply_update(p) PROVE [Session!Next]_(Session!vars)
  BY <1>2, UpdateSession
<1>3. ASSUME NEW p \in Paths, read(p) PROVE [Session!Next]_(Session!vars)
  BY <1>3, ReadSession
<1>4. ASSUME NEW p \in Paths, add_file(p) PROVE [Session!Next]_(Session!vars)
  BY <1>4, AddSession
<1>5. ASSUME NEW p \in Paths, write(p) PROVE [Session!Next]_(Session!vars)
  BY <1>5, WriteSession
<1>6. ASSUME \/ \E p \in Paths : drop_file(p)
             \/ \E folder \in Folders : drop_dir(folder)
             \/ DropGuard
      PROVE  [Session!Next]_(Session!vars)
  BY <1>6, DroppedSession
<1>7. ASSUME NEW p \in Paths, delete(p) PROVE [Session!Next]_(Session!vars)
  <2>1. Refused \/ (Contents' = Without(Contents, {p}) /\ lapses' = lapses)
    BY <1>7, DeleteEffect
  <2>2. crashes' = crashes
    BY <1>7, DeleteEffect
  <2> QED BY <2>1, <2>2, RefusedStep, OperationsSteps
<1>8. ASSUME NEW folder \in Folders, delete_folder(folder) PROVE [Session!Next]_(Session!vars)
  <2>1. Refused \/ (Contents' = Without(Contents, Beneath(folder)) /\ lapses' = lapses)
    BY <1>8, DeleteFolderEffect
  <2>2. crashes' = crashes
    BY <1>8, DeleteFolderEffect
  <2> QED BY <2>1, <2>2, RefusedStep, OperationsSteps
<1>9. ASSUME NEW from \in Paths, NEW to \in Paths, move_file(from, to)
      PROVE  [Session!Next]_(Session!vars)
  <2>1. \/ Refused
        \/ /\ Contents' = FileMoved(Contents, from, to) /\ lapses' = lapses
           /\ Contents[from] # NoFile
    BY <1>9, MoveFileEffect
  <2>2. crashes' = crashes
    BY <1>9, MoveFileEffect
  <2> QED BY <2>1, <2>2, RefusedStep, OperationsSteps
<1>10. ASSUME NEW from \in Paths, NEW to \in Paths, copy_file(from, to)
       PROVE  [Session!Next]_(Session!vars)
  <2>1. Refused \/ (Contents' = FileCopied(Contents, from, to) /\ lapses' = lapses)
    BY <1>10, CopyFileEffect
  <2>2. crashes' = crashes /\ Contents[from] # NoFile
    BY <1>10, CopyFileEffect
  <2> QED BY <2>1, <2>2, RefusedStep, OperationsSteps
<1>11. ASSUME NEW from \in Folders, NEW to \in Folders, move_folder(from, to)
       PROVE  [Session!Next]_(Session!vars)
  <2>1. Refused \/ (Contents' = FolderMoved(Contents, from, to) /\ lapses' = lapses)
    BY <1>11, MoveFolderEffect
  <2>2. crashes' = crashes
    BY <1>11, MoveFolderEffect
  <2> QED BY <2>1, <2>2, RefusedStep, OperationsSteps
<1>12. ASSUME NEW from \in Folders, NEW to \in Folders, copy_folder(from, to)
       PROVE  [Session!Next]_(Session!vars)
  <2>1. Contents' = Contents \/ Contents' = FolderCopied(Contents, from, to)
    BY <1>12, CopyFolderEffect
  <2>2. lapses' = lapses /\ crashes' = crashes
    BY <1>12, CopyFolderEffect
  <2> QED BY <2>1, <2>2, QuietStep, OperationsSteps
<1>13. ASSUME snapshot PROVE [Session!Next]_(Session!vars)
  BY <1>13, SnapshotSession
<1>14. ASSUME Crash PROVE [Session!Next]_(Session!vars)
  BY <1>14, CrashSession
<1>15. ASSUME UNCHANGED vars PROVE [Session!Next]_(Session!vars)
  BY <1>15, QuietStep DEF vars, Contents, resident
<1> QED
  BY <1>1, <1>2, <1>3, <1>4, <1>5, <1>6, <1>7, <1>8, <1>9, <1>10, <1>11, <1>12, <1>13, <1>14, <1>15
  DEF Next

\* The guard, its buffers and the store together are the editing session of FileSession: edits
\* only add to the text they were made on, file operations act on the texts the session sees,
\* nothing deleted or moved away comes back, and what a crash takes back of a file without a
\* reported failure is fewer than SAVE_THRESHOLD local keystrokes.
THEOREM Implements == Spec => ImplementsSession
  BY SessionInit, SessionStep, InductiveInv, PTL DEF Spec, ImplementsSession, Session!Spec
==========================================================================
