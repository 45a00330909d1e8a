---------------------------- MODULE AuthProofs ----------------------------
(***************************************************************************)
(* Proofs about AuthSession, for any number of logins and requests and for *)
(* all durations that DurationsAssumption allows; and about AuthMeta, for  *)
(* any number of sessions, tokens, statements and keys, and any unique     *)
(* indexes.                                                                *)
(***************************************************************************)
EXTENDS AuthSession, AuthMeta, FiniteSetTheorems, TLAPS

-----------------------------------------------------------------------------
(* AuthSession.                                                            *)

Active(r) == req[r] # Idle

\* The ids a login has, or ever had and some request still carries.
Owns(s, i) ==
  /\ i # NoId
  /\ \/ s \in Live /\ i \in {auth_sessions[s].id, auth_sessions[s].old_id}
     \/ i = cookie[s].id
     \/ \E r \in Requests :
          /\ Active(r) /\ req[r].session = s
          /\ i \in {req[r].token.id, req[r].key, req[r].unique_id, req[r].slot.id}

\* An id was drawn, and for one login.
IdsOwned ==
  \A s, u \in Sessions, i \in Nat :
    Owns(s, i) => i < nextId /\ (Owns(u, i) => s = u)

\* What holds of a row, whatever requests are under way.
RowsAgree ==
  /\ \A s \in Sessions : lastSeen[s] <= now /\ (cookie[s].id = NoId => cookie[s] = NoCookie)
  /\ \A s \in Live :
       LET row == auth_sessions[s]
       IN  /\ cookie[s] # NoCookie /\ row.id # NoId /\ row.old_id # NoId
           /\ row.time_minted = row.date_created
           /\ row.date_created <= now /\ row.last_interacted <= now
           /\ lastSeen[s] <= row.last_interacted + PingTime

\* What holds of a request by itself.
RequestsAgree ==
  \A r \in Requests : Active(r) =>
    /\ cookie[req[r].session] # NoCookie
    /\ req[r].slot.id = NoId => req[r].slot = NoCookie
    /\ req[r].pc \in {"sent", "select", "update"} =>
         req[r].token.id # NoId /\ req[r].slot = NoCookie
    /\ req[r].pc = "sent" => ~req[r].graced
    /\ InPing(r) => req[r].ts <= now /\ now <= req[r].ts + PingTime
    /\ req[r].pc = "update" => req[r].plan # "none" /\ req[r].key # NoId

\* A ping whose id is still on the row found the row not idle; its plan to
\* rotate an id that is still the row's is due.
PingsInTime ==
  \A r \in Requests : Active(r) /\ req[r].session \in Live =>
    LET d == req[r]
        row == auth_sessions[d.session]
    IN  /\ d.pc = "select" /\ d.token.id \in {row.id, row.old_id} =>
             d.ts <= row.last_interacted + IDLE
        /\ d.pc = "update" /\ d.key = row.id =>
             /\ d.ts <= row.last_interacted + IDLE
             /\ d.plan = "rotate" => row.date_created + ROTATE < d.ts

\* A ping that came in the grace period stays in it: nobody can rotate the row
\* before it ends.
GracedAgree ==
  \A r \in Requests : Active(r) /\ req[r].graced /\ req[r].session \in Live =>
    LET d == req[r]
        row == auth_sessions[d.session]
    IN  /\ d.pc = "select" => d.token.id = row.old_id /\ d.token.id # row.id
        /\ d.pc = "update" => d.key = row.id
        /\ InPing(r) => d.ts <= row.time_minted + GRACE
        /\ d.pc = "reply" => d.result # "unauthorized"

\* A login that never lost a response or the cookie of a rotation, nor sent two
\* requests at once, and was neither idle nor logged out: one request carries its row's id, or brings it.
CleanOf(s) ==
  /\ s \in Live
  /\ \A q, r \in Requests :
       Active(q) /\ Active(r) /\ req[q].session = s /\ req[r].session = s => q = r
  /\ (\A r \in Requests : Active(r) => req[r].session # s) =>
       cookie[s].id = auth_sessions[s].id
  /\ \A r \in Requests : Active(r) /\ req[r].session = s =>
       /\ req[r].slot = NoCookie => cookie[s].id = auth_sessions[s].id
       /\ req[r].slot # NoCookie => req[r].slot.id = auth_sessions[s].id
       /\ req[r].pc \in {"sent", "select", "update"} => req[r].token.id = auth_sessions[s].id
       /\ req[r].pc = "update" => req[r].key = auth_sessions[s].id
       /\ req[r].pc = "reply" => req[r].result # "unauthorized"

CleanAgree ==
  \A s \in Sessions :
    clean[s] /\ s \notin idled \cup out /\ cookie[s] # NoCookie => CleanOf(s)

\* The inductive invariant.
IInv == /\ TypeOK /\ IdsOwned /\ RowsAgree /\ RequestsAgree
        /\ PingsInTime /\ GracedAgree /\ CleanAgree

---------------------------------------------------------------------------
\* The initial state satisfies the invariant.
LEMMA InitInv == Init => IInv
<1> SUFFICES ASSUME Init PROVE IInv
  OBVIOUS
<1> USE DurationsAssumption
<1>1. TypeOK
  BY DEF Init, TypeOK, Idle, NoCookie, NoId, Cookie, Live
<1>2. /\ Live = {}
      /\ \A r \in Requests : ~Active(r)
      /\ \A s \in Sessions : cookie[s] = NoCookie /\ lastSeen[s] = 0 /\ clean[s]
  BY DEF Init, Live, Active
<1>3. IdsOwned /\ RowsAgree /\ RequestsAgree /\ PingsInTime /\ GracedAgree /\ CleanAgree
  BY <1>2 DEF Init, IdsOwned, Owns, RowsAgree, RequestsAgree, PingsInTime, GracedAgree,
              CleanAgree, NoCookie, NoId
<1> QED
  BY <1>1, <1>3 DEF IInv

\* A request under way is a record.
LEMMA ActiveType ==
  ASSUME TypeOK, NEW r \in Requests, Active(r)
  PROVE  /\ req[r] \in Request
         /\ req[r].session \in Sessions
         /\ req[r].token.id \in Nat /\ req[r].key \in Nat /\ req[r].unique_id \in Nat
         /\ req[r].slot.id \in Nat /\ req[r].ts \in Nat
  BY DEF TypeOK, Active, Request, Cookie

\* A request that is somewhere is under way.
LEMMA Somewhere ==
  ASSUME TypeOK, NEW r \in Requests, req[r].pc # "idle"
  PROVE  Active(r)
  BY DEF Active, Idle

\* Set gives one request its record.
LEMMA SetEffect ==
  ASSUME TypeOK, NEW r \in Requests, NEW rec \in Request, Set(r, rec)
  PROVE  /\ req' \in [Requests -> {Idle} \cup Request]
         /\ req'[r] = rec /\ Active(r)'
         /\ \A q \in Requests \ {r} : req'[q] = req[q]
<1>1. rec # Idle
  BY DEF Request, Idle, Stops
<1> QED
  BY <1>1 DEF TypeOK, Set, Active

\* Answer keeps what the request carries to the browser, and no other id.
LEMMA AnswerEffect ==
  ASSUME TypeOK, NEW r \in Requests, Active(r), NEW result \in Results, Answer(r, result)
  PROVE  /\ req' \in [Requests -> {Idle} \cup Request]
         /\ \A q \in Requests \ {r} : req'[q] = req[q]
         /\ Active(r)' /\ req'[r].pc = "reply" /\ req'[r].result = result
         /\ req'[r].session = req[r].session /\ req'[r].slot = req[r].slot
         /\ (req'[r].graced => req[r].graced) /\ req'[r].token.id = NoId
         /\ req'[r].key = NoId /\ req'[r].unique_id = NoId
<1> DEFINE graced == req[r].graced /\ result = "unauthorized"
           rec == [req[r] EXCEPT !.pc = "reply", !.result = result, !.token = NoCookie,
                     !.ts = 0, !.plan = "none", !.key = NoId, !.unique_id = NoId,
                     !.graced = graced]
<1>1. req[r] \in Request
  BY ActiveType
<1>2. rec \in Request /\ NoCookie.id = NoId
  BY <1>1 DEF Request, Stops, Cookie, NoId, NoCookie
<1>3. Set(r, rec)
  BY DEF Answer
<1>4. /\ rec.pc = "reply" /\ rec.result = result
      /\ rec.session = req[r].session /\ rec.slot = req[r].slot
      /\ rec.graced = graced /\ rec.token = NoCookie
      /\ rec.key = NoId /\ rec.unique_id = NoId
  BY <1>1 DEF Request, Cookie
<1> HIDE DEF rec
<1> QED
  BY <1>2, <1>3, <1>4, SetEffect

\* Grant gives the handler the row's id, and the CookieSlot a cookie with it
\* exactly when the request came with another id.
LEMMA GrantEffect ==
  ASSUME TypeOK, NEW r \in Requests, Active(r), NEW row \in AuthSessionRow, Grant(r, row),
         row.id # NoId
  PROVE  /\ req' \in [Requests -> {Idle} \cup Request]
         /\ \A q \in Requests \ {r} : req'[q] = req[q]
         /\ Active(r)' /\ req'[r].pc = "handle"
         /\ req'[r].session = req[r].session
         /\ ~req'[r].graced /\ req'[r].token.id = NoId
         /\ req'[r].key = NoId /\ req'[r].unique_id = row.id
         /\ row.id = req[r].token.id => req'[r].slot = NoCookie
         /\ row.id # req[r].token.id => req'[r].slot.id = row.id /\ req'[r].slot # NoCookie
<1> DEFINE slot == IF row.id # req[r].token.id
                   THEN [id |-> row.id, expire |-> now + EXPIRE] ELSE NoCookie
           rec == [req[r] EXCEPT !.pc = "handle", !.unique_id = row.id, !.token = NoCookie,
                     !.ts = 0, !.plan = "none", !.key = NoId, !.graced = FALSE, !.slot = slot]
<1>1. req[r] \in Request
  BY ActiveType
<1>2. slot \in Cookie /\ (row.id # req[r].token.id => slot.id = row.id /\ slot # NoCookie)
  BY DurationsAssumption DEF AuthSessionRow, Cookie, TypeOK, NoCookie, NoId
<1>3. (row.id = req[r].token.id => slot = NoCookie) /\ NoCookie.id = NoId
  BY DEF NoCookie
<1>4. Set(r, rec)
  BY DEF Grant
<1> HIDE DEF slot
<1>5. rec \in Request
  BY <1>1, <1>2 DEF Request, Stops, AuthSessionRow, NoId, NoCookie, Cookie
<1>6. /\ rec.pc = "handle" /\ rec.session = req[r].session
      /\ ~rec.graced /\ rec.token = NoCookie
      /\ rec.key = NoId /\ rec.unique_id = row.id /\ rec.slot = slot
  BY <1>1 DEF Request
<1> HIDE DEF rec
<1> QED
  BY <1>2, <1>3, <1>4, <1>5, <1>6, SetEffect

\* An id that a request carries finds at most the row of its own login.
LEMMA Found ==
  ASSUME IInv, NEW r \in Requests, Active(r),
         NEW i \in {req[r].token.id, req[r].key, req[r].unique_id}
  PROVE  ById(i) \subseteq ByAnyId(i) /\ ByAnyId(i) \subseteq {req[r].session}
<1>1. SUFFICES ASSUME NEW s \in ByAnyId(i) PROVE s = req[r].session
  BY DEF ById, ByAnyId
<1>2. i # NoId /\ s \in Sessions /\ s \in Live
  BY <1>1 DEF ByAnyId, IInv, RowsAgree, TypeOK, Live
<1>3. Owns(s, i) /\ Owns(req[r].session, i)
  BY <1>1, <1>2 DEF Owns, ByAnyId
<1>4. i \in Nat /\ req[r].session \in Sessions
  BY ActiveType DEF IInv
<1> QED
  BY <1>2, <1>3, <1>4 DEF IInv, IdsOwned

\* Ids stay those of one login when a step gives a login at most the next id.
LEMMA OwnsStep ==
  ASSUME TypeOK, IdsOwned, NEW u \in Sessions, nextId' \in {nextId, nextId + 1},
         \A s \in Sessions, i \in Nat :
           Owns(s, i)' => Owns(s, i) \/ (s = u /\ i = nextId /\ nextId' = nextId + 1)
  PROVE  IdsOwned'
  BY DEF IdsOwned, TypeOK

\* The same of a step of one request.
LEMMA RequestOwns ==
  ASSUME TypeOK, IdsOwned, NEW r \in Requests, Active(r), Active(r)',
         req'[r].session = req[r].session,
         \A q \in Requests \ {r} : req'[q] = req[q],
         nextId' = nextId, UNCHANGED cookie,
         DOMAIN auth_sessions' \subseteq Live,
         \A s \in DOMAIN auth_sessions' : auth_sessions'[s] = auth_sessions[s],
         \A i \in {req'[r].token.id, req'[r].key, req'[r].unique_id, req'[r].slot.id} :
           i # NoId => Owns(req[r].session, i)
  PROVE  IdsOwned'
<1>1. req[r].session \in Sessions
  BY ActiveType
<1>2. ASSUME NEW s \in Sessions, NEW i \in Nat, Owns(s, i)' PROVE Owns(s, i)
  <2>1. i # NoId
    BY <1>2 DEF Owns
  <2>2. CASE s \in Live' /\ i \in {auth_sessions'[s].id, auth_sessions'[s].old_id}
    <3>1. s \in Live /\ auth_sessions'[s] = auth_sessions[s]
      BY <2>2 DEF Live
    <3> QED BY <2>1, <2>2, <3>1 DEF Owns
  <2>3. CASE i = cookie'[s].id
    BY <2>1, <2>3 DEF Owns
  <2>4. ASSUME NEW q \in Requests, Active(q)', req'[q].session = s,
               i \in {req'[q].token.id, req'[q].key, req'[q].unique_id, req'[q].slot.id}
        PROVE  Owns(s, i)
    <3>1. CASE q = r
      BY <2>1, <2>4, <3>1
    <3>2. CASE q # r
      <4>1. req'[q] = req[q] /\ Active(q)
        BY <2>4, <3>2 DEF Active
      <4> QED BY <2>1, <2>4, <4>1 DEF Owns
    <3> QED BY <3>1, <3>2
  <2> QED BY <1>2, <2>2, <2>3, <2>4 DEF Owns
<1> QED
  BY <1>1, <1>2, OwnsStep

---------------------------------------------------------------------------
\* The clock: no ping under way lets it pass the end of the ping.
LEMMA TickInv == ASSUME IInv, Tick PROVE IInv'
<1> USE DurationsAssumption DEF IInv, Tick, history, Live
<1>1. TypeOK'
  BY DEF TypeOK
<1>2. IdsOwned'
  BY DEF IdsOwned, Owns, Active
<1>3. RowsAgree'
  BY DEF TypeOK, RowsAgree, AuthSessionRow
<1>4. RequestsAgree'
  <2>1. ASSUME NEW r \in Requests, Active(r), InPing(r)
        PROVE req[r].ts <= now' /\ now' <= req[r].ts + PingTime
    BY <2>1, ActiveType DEF TypeOK, RequestsAgree
  <2> QED BY <2>1 DEF RequestsAgree, Active, InPing
<1>5. PingsInTime' /\ GracedAgree' /\ CleanAgree'
  BY DEF PingsInTime, GracedAgree, CleanAgree, CleanOf, Active, InPing
<1> QED BY <1>1, <1>2, <1>3, <1>4, <1>5

\* A login: its row and its cookie have a new id, and it has no request yet.
LEMMA LoginInv == ASSUME IInv, NEW s \in Sessions, Login(s) PROVE IInv'
<1> DEFINE row == [id |-> nextId, old_id |-> nextId, date_created |-> now,
                   last_interacted |-> now, time_minted |-> now]
           new == [id |-> nextId, expire |-> now + EXPIRE]
<1> USE DurationsAssumption
<1>1. now \in Nat /\ nextId \in Nat /\ nextId # NoId /\ new \in Cookie /\ row \in AuthSessionRow
  BY DEF IInv, TypeOK, Cookie, AuthSessionRow, NoId
<1>2. /\ s \notin Live /\ DOMAIN auth_sessions' = Live \cup {s}
      /\ auth_sessions'[s] = row
      /\ \A u \in Live : auth_sessions'[u] = auth_sessions[u]
  BY DEF Login, IInv, RowsAgree, Live
<1>3. /\ cookie' \in [Sessions -> Cookie] /\ cookie'[s] = new /\ new # NoCookie
      /\ \A u \in Sessions \ {s} : cookie'[u] = cookie[u]
  BY <1>1 DEF Login, IInv, TypeOK, NoCookie, NoId
<1>4. \A r \in Requests : Active(r) => req[r].session # s
  BY DEF Login, IInv, RequestsAgree
<1>5. /\ lastSeen' \in [Sessions -> Nat] /\ lastSeen'[s] = now
      /\ \A u \in Sessions \ {s} : lastSeen'[u] = lastSeen[u]
  BY <1>1 DEF Login, IInv, TypeOK
<1>6. nextId' = nextId + 1 /\ UNCHANGED <<now, req, lost, clean, idled, out>>
  BY DEF Login
<1> USE <1>1, <1>2, <1>3, <1>4, <1>5, <1>6
<1> HIDE DEF row, new
<1>7. TypeOK'
  BY DEF IInv, TypeOK, Live, NoId
<1>8. IdsOwned'
  <2>1. row.id = nextId /\ row.old_id = nextId /\ new.id = nextId
    BY DEF row, new
  <2>2. ASSUME NEW u \in Sessions, NEW i \in Nat, Owns(u, i)'
        PROVE  Owns(u, i) \/ (u = s /\ i = nextId /\ nextId' = nextId + 1)
    <3>1. CASE u = s
      BY <2>1, <2>2, <3>1 DEF Owns, Live, Active
    <3>2. CASE u # s
      BY <2>2, <3>2 DEF Owns, Live, Active
    <3> QED BY <3>1, <3>2
  <2> QED BY <2>2, OwnsStep DEF IInv
<1>9. RowsAgree'
  BY DEF IInv, RowsAgree, TypeOK, Live, row, new, NoId
<1>10. RequestsAgree'
  BY ActiveType DEF IInv, RequestsAgree, TypeOK, Active, InPing
<1>11. PingsInTime' /\ GracedAgree'
  BY DEF IInv, PingsInTime, GracedAgree, Active, Live, InPing
<1>12. CleanAgree'
  BY DEF IInv, CleanAgree, CleanOf, Active, Live, row, new
<1> QED BY <1>7, <1>8, <1>9, <1>10, <1>11, <1>12 DEF IInv

\* A request leaves with the cookie its browser has.
LEMMA SendInv ==
  ASSUME IInv, NEW r \in Requests, NEW s \in Sessions, NEW kind \in Kinds, Send(r, s, kind)
  PROVE  IInv'
<1> DEFINE rec == [pc |-> "sent", session |-> s, kind |-> kind, token |-> cookie[s], ts |-> 0,
                   plan |-> "none", key |-> NoId, unique_id |-> NoId,
                   slot |-> NoCookie, result |-> "none", graced |-> FALSE]
<1>1. rec \in Request
  BY DEF IInv, TypeOK, Request, Stops, Results, NoCookie, Cookie, NoId
<1>2. /\ req' \in [Requests -> {Idle} \cup Request] /\ req'[r] = rec /\ Active(r)'
      /\ \A q \in Requests \ {r} : req'[q] = req[q]
  BY <1>1, SetEffect DEF Send, IInv
<1>3. /\ rec.pc = "sent" /\ rec.session = s /\ rec.token = cookie[s]
      /\ rec.key = NoId /\ rec.unique_id = NoId /\ rec.slot = NoCookie /\ ~rec.graced
  OBVIOUS
<1>4. /\ cookie[s] # NoCookie /\ ~Active(r)
      /\ UNCHANGED <<now, auth_sessions, nextId, cookie, lost, lastSeen, idled, out>>
  BY DEF Send, Active
<1>5. /\ clean' \in [Sessions -> BOOLEAN]
      /\ clean'[s] => clean[s] /\ \A q \in Requests : Active(q) => req[q].session # s
      /\ \A u \in Sessions \ {s} : clean'[u] = clean[u]
  BY DEF Send, IInv, TypeOK, Active
<1>6. NoCookie.id = NoId
  BY DEF NoCookie
<1> HIDE DEF rec
<1> USE <1>1, <1>2, <1>3, <1>4, <1>5, <1>6
<1>7. TypeOK'
  BY DEF IInv, TypeOK
<1>8. IdsOwned'
  <2>1. ASSUME NEW u \in Sessions, NEW i \in Nat, Owns(u, i)' PROVE Owns(u, i)
    BY <2>1 DEF Owns, Live, Active
  <2> QED BY <2>1, OwnsStep DEF IInv
<1>9. RowsAgree'
  BY DEF IInv, RowsAgree, Live
<1>10. RequestsAgree'
  BY DEF IInv, RequestsAgree, RowsAgree, Active, InPing
<1>11. PingsInTime'
  BY DEF IInv, PingsInTime, Active, Live
<1>12. GracedAgree'
  BY DEF IInv, GracedAgree, Active, Live, InPing
<1>13. CleanAgree'
  <2> SUFFICES ASSUME NEW u \in Sessions, clean'[u], u \notin idled \cup out, cookie[u] # NoCookie
               PROVE  CleanOf(u)'
    BY DEF CleanAgree
  <2>1. CASE u # s
    BY <2>1 DEF IInv, CleanAgree, CleanOf, Active, Live
  <2>2. CASE u = s
    BY <2>2 DEF IInv, CleanAgree, CleanOf, Active, Live
  <2> QED BY <2>1, <2>2
<1> QED BY <1>7, <1>8, <1>9, <1>10, <1>11, <1>12, <1>13 DEF IInv

\* A request that leaves the extractor or the handler with an answer: perhaps the
\* row of its login is deleted, with an entry in `idled` or `out`.
LEMMA AnswerInv ==
  ASSUME IInv, NEW r \in Requests, Active(r), NEW result \in Results, Answer(r, result),
         NEW D \in SUBSET {req[r].session},
         DOMAIN auth_sessions' = Live \ D,
         \A u \in Live \ D : auth_sessions'[u] = auth_sessions[u],
         D # {} => req[r].session \in idled' \cup out',
         idled \subseteq idled', out \subseteq out',
         idled' \subseteq Sessions, out' \subseteq Sessions,
         result = "unauthorized" =>
           /\ req[r].graced => req[r].session \notin Live \ D
           /\ clean[req[r].session] => req[r].session \in idled' \cup out',
         UNCHANGED <<now, nextId, cookie, lost, clean, lastSeen>>
  PROVE  IInv'
<1>1. /\ req' \in [Requests -> {Idle} \cup Request]
      /\ \A q \in Requests \ {r} : req'[q] = req[q]
      /\ Active(r)' /\ req'[r].pc = "reply" /\ req'[r].result = result
      /\ req'[r].session = req[r].session /\ req'[r].slot = req[r].slot
      /\ (req'[r].graced => req[r].graced) /\ req'[r].token.id = NoId
      /\ req'[r].key = NoId /\ req'[r].unique_id = NoId
  BY AnswerEffect DEF IInv
<1>2. req[r].session \in Sessions
  BY ActiveType DEF IInv
<1>3. TypeOK'
  BY <1>1 DEF IInv, TypeOK, Live
<1>4. IdsOwned'
  <2>1. \A i \in {req'[r].token.id, req'[r].key, req'[r].unique_id, req'[r].slot.id} :
          i # NoId => Owns(req[r].session, i)
    BY <1>1 DEF Owns
  <2> QED BY <1>1, <2>1, RequestOwns DEF IInv
<1>5. RowsAgree'
  BY DEF IInv, RowsAgree, Live
<1>6. RequestsAgree'
  BY <1>1 DEF IInv, RequestsAgree, Active, InPing
<1>7. PingsInTime'
  BY <1>1 DEF IInv, PingsInTime, Active, Live
<1>8. GracedAgree'
  BY <1>1 DEF IInv, GracedAgree, Active, Live, InPing
<1>9. CleanAgree'
  <2> SUFFICES ASSUME NEW u \in Sessions, clean[u], u \notin (idled \cup out)',
                      cookie[u] # NoCookie
               PROVE  CleanOf(u)'
    BY DEF CleanAgree
  <2>1. CleanOf(u) /\ u \in Live \ D
    BY <1>2 DEF IInv, CleanAgree, CleanOf
  <2> QED BY <1>1, <2>1 DEF CleanOf, Active, Live
<1> QED BY <1>3, <1>4, <1>5, <1>6, <1>7, <1>8, <1>9 DEF IInv

\* The same when no row is deleted.
LEMMA AnswerOnlyInv ==
  ASSUME IInv, NEW r \in Requests, Active(r), NEW result \in Results, Answer(r, result),
         result = "unauthorized" =>
           /\ req[r].graced => req[r].session \notin Live
           /\ clean[req[r].session] => req[r].session \in idled \cup out,
         UNCHANGED <<now, auth_sessions, nextId, cookie, lost, clean, lastSeen, idled, out>>
  PROVE  IInv'
<1> DEFINE D == {}
<1>1. /\ D \in SUBSET {req[r].session} /\ (D # {} => req[r].session \in idled' \cup out')
      /\ DOMAIN auth_sessions' = Live \ D
      /\ \A u \in Live \ D : auth_sessions'[u] = auth_sessions[u]
      /\ idled \subseteq idled' /\ out \subseteq out'
  BY DEF Live
<1>2. idled' \subseteq Sessions /\ out' \subseteq Sessions
  BY DEF IInv, TypeOK
<1>3. result = "unauthorized" =>
        /\ req[r].graced => req[r].session \notin Live \ D
        /\ clean[req[r].session] => req[r].session \in idled' \cup out'
  OBVIOUS
<1>4. UNCHANGED <<now, nextId, cookie, lost, clean, lastSeen>>
  OBVIOUS
<1> HIDE DEF D
<1> QED BY <1>1, <1>2, <1>3, <1>4, AnswerInv

\* The handler answers without touching the session.
LEMMA HandleInv ==
  ASSUME IInv, NEW r \in Requests, NEW result \in {"ok", "error"}, Handle(r, result)
  PROVE  IInv'
<1>1. Active(r) /\ Answer(r, result) /\ result \in Results /\ result # "unauthorized"
  BY Somewhere DEF Handle, IInv, Results
<1>2. UNCHANGED <<now, auth_sessions, nextId, cookie, lost, clean, lastSeen, idled, out>>
  BY DEF Handle, history
<1> QED BY <1>1, <1>2, AnswerOnlyInv

\* An extraction that fails changes nothing.
LEMMA ExtractionFailsInv == ASSUME IInv, NEW r \in Requests, ExtractionFails(r) PROVE IInv'
<1>1. Active(r) /\ Answer(r, "error") /\ "error" \in Results
  BY Somewhere DEF ExtractionFails, IInv, Results
<1>2. UNCHANGED <<now, auth_sessions, nextId, cookie, lost, clean, lastSeen, idled, out>>
  BY DEF ExtractionFails, history
<1> QED BY <1>1, <1>2, AnswerOnlyInv

\* A logout deletes the row of its own login or none.
LEMMA LogoutInv == ASSUME IInv, NEW r \in Requests, Logout(r) PROVE IInv'
<1> DEFINE D == ById(req[r].unique_id)
<1>1. PICK result \in {"ok", "error"} : Active(r) /\ Answer(r, result)
  BY Somewhere DEF Logout, IInv
<1>2. D \subseteq {req[r].session} /\ D \subseteq Live
  BY <1>1, Found DEF ById
<1>3. DOMAIN auth_sessions' = Live \ D /\ \A u \in Live \ D : auth_sessions'[u] = auth_sessions[u]
  BY DEF Logout
<1>4. /\ out' = out \cup {req[r].session} /\ idled' = idled
      /\ UNCHANGED <<now, nextId, cookie, lost, clean, lastSeen>>
  BY DEF Logout
<1>5. idled' \subseteq Sessions /\ out' \subseteq Sessions
  BY <1>1, <1>4, ActiveType DEF IInv, TypeOK
<1>6. result \in Results /\ result # "unauthorized"
  BY DEF Results
<1> HIDE DEF D
<1> QED BY <1>1, <1>2, <1>3, <1>4, <1>5, <1>6, AnswerInv

\* A response reaches the browser, and with it what the CookieSlot holds.
LEMMA DeliverInv == ASSUME IInv, NEW r \in Requests, Deliver(r) PROVE IInv'
<1> DEFINE s == req[r].session
<1>1. Active(r) /\ s \in Sessions /\ req[r] \in Request /\ req[r].slot \in Cookie
  BY Somewhere, ActiveType DEF Deliver, IInv, Request
<1>2. /\ req' \in [Requests -> {Idle} \cup Request] /\ ~Active(r)'
      /\ \A q \in Requests \ {r} : req'[q] = req[q]
  BY DEF Deliver, Set, IInv, TypeOK, Active
<1>3. /\ cookie' \in [Sessions -> Cookie]
      /\ cookie'[s] = IF req[r].slot # NoCookie THEN req[r].slot ELSE cookie[s]
      /\ \A u \in Sessions \ {s} : cookie'[u] = cookie[u]
  BY <1>1 DEF Deliver, IInv, TypeOK
<1>4. UNCHANGED <<now, auth_sessions, nextId, lost, clean, lastSeen, idled, out>>
  BY DEF Deliver, history
<1>5. /\ cookie[s] # NoCookie /\ (req[r].slot.id = NoId => req[r].slot = NoCookie)
      /\ cookie[s].id # NoId
  BY <1>1 DEF IInv, RequestsAgree, RowsAgree
<1>6. cookie'[s] # NoCookie /\ cookie'[s].id # NoId
  BY <1>3, <1>5
<1>7. TypeOK'
  BY <1>1, <1>2, <1>3, <1>4 DEF IInv, TypeOK
<1>8. IdsOwned'
  <2>1. ASSUME NEW u \in Sessions, NEW i \in Nat, Owns(u, i)' PROVE Owns(u, i)
    <3>1. CASE u = s
      BY <1>1, <1>2, <1>3, <1>4, <2>1, <3>1 DEF Owns, Live, Active
    <3>2. CASE u # s
      BY <1>1, <1>2, <1>3, <1>4, <2>1, <3>2 DEF Owns, Live, Active
    <3> QED BY <3>1, <3>2
  <2> QED BY <1>1, <1>4, <2>1, OwnsStep DEF IInv
<1> HIDE DEF s
<1>9. RowsAgree'
  BY <1>1, <1>3, <1>4, <1>6 DEF IInv, RowsAgree, Live, TypeOK
<1>10. RequestsAgree'
  BY <1>2, <1>3, <1>4, <1>6, ActiveType DEF IInv, RequestsAgree, Active, InPing
<1>11. PingsInTime' /\ GracedAgree'
  BY <1>2, <1>4 DEF IInv, PingsInTime, GracedAgree, Active, Live, InPing
<1>12. CleanAgree'
  <2> SUFFICES ASSUME NEW u \in Sessions, clean[u], u \notin idled \cup out, cookie'[u] # NoCookie
               PROVE  CleanOf(u)'
    BY <1>4 DEF CleanAgree
  <2>1. cookie[u] # NoCookie
    BY <1>3, <1>5
  <2>2. CleanOf(u)
    BY <2>1 DEF IInv, CleanAgree
  <2>3. CASE u = s
    BY <1>1, <1>2, <1>3, <1>4, <2>2, <2>3 DEF CleanOf, Active, Live, s
  <2>4. CASE u # s
    BY <1>1, <1>2, <1>3, <1>4, <2>2, <2>4 DEF CleanOf, Active, Live, s
  <2> QED BY <2>3, <2>4
<1> QED BY <1>7, <1>8, <1>9, <1>10, <1>11, <1>12 DEF IInv

\* A lost response: its login is no longer clean.
LEMMA LoseReplyInv == ASSUME IInv, NEW r \in Requests, LoseReply(r) PROVE IInv'
<1> DEFINE s == req[r].session
<1>1. Active(r) /\ s \in Sessions
  BY Somewhere, ActiveType DEF LoseReply, IInv
<1>2. /\ req' \in [Requests -> {Idle} \cup Request] /\ ~Active(r)'
      /\ \A q \in Requests \ {r} : req'[q] = req[q]
  BY DEF LoseReply, Set, IInv, TypeOK, Active
<1>3. /\ clean' \in [Sessions -> BOOLEAN] /\ ~clean'[s]
      /\ \A u \in Sessions \ {s} : clean'[u] = clean[u]
  BY <1>1 DEF LoseReply, IInv, TypeOK
<1>4. UNCHANGED <<now, auth_sessions, nextId, cookie, lastSeen, idled, out>>
  BY DEF LoseReply
<1>5. TypeOK'
  BY <1>2, <1>3, <1>4, DurationsAssumption DEF IInv, TypeOK, LoseReply
<1>6. IdsOwned'
  <2>1. ASSUME NEW u \in Sessions, NEW i \in Nat, Owns(u, i)' PROVE Owns(u, i)
    BY <1>2, <1>4, <2>1 DEF Owns, Live, Active
  <2> QED BY <1>1, <1>4, <2>1, OwnsStep DEF IInv
<1>7. RowsAgree' /\ RequestsAgree'
  BY <1>2, <1>4 DEF IInv, RowsAgree, RequestsAgree, Live, Active, InPing
<1>8. PingsInTime' /\ GracedAgree'
  BY <1>2, <1>4 DEF IInv, PingsInTime, GracedAgree, Active, Live, InPing
<1>9. CleanAgree'
  <2> SUFFICES ASSUME NEW u \in Sessions \ {s}, clean[u], u \notin idled \cup out,
                      cookie[u] # NoCookie
               PROVE  CleanOf(u)'
    BY <1>3, <1>4 DEF CleanAgree
  <2>1. CleanOf(u)
    BY DEF IInv, CleanAgree
  <2> QED BY <1>1, <1>2, <1>4, <2>1 DEF CleanOf, Active, Live
<1> QED BY <1>5, <1>6, <1>7, <1>8, <1>9 DEF IInv

---------------------------------------------------------------------------
\* A request that goes on to the next statement of saps.ping, with what the
\* statement before found.
LEMMA GoOnInv ==
  ASSUME IInv, NEW r \in Requests, Active(r), req[r].pc \in {"sent", "select"},
         NEW rec \in Request, Set(r, rec),
         rec.pc \in {"select", "update"},
         rec.session = req[r].session, rec.token = req[r].token, rec.slot = req[r].slot,
         rec.unique_id = req[r].unique_id,
         rec.key # NoId => Owns(req[r].session, rec.key),
         rec.ts <= now, now <= rec.ts + PingTime,
         rec.pc = "update" => rec.plan # "none" /\ rec.key # NoId,
         req[r].session \in Live =>
           LET row == auth_sessions[req[r].session]
           IN  /\ rec.pc = "select" /\ rec.token.id \in {row.id, row.old_id} =>
                    rec.ts <= row.last_interacted + IDLE
               /\ rec.pc = "update" =>
                    /\ rec.key = row.id
                    /\ rec.ts <= row.last_interacted + IDLE
                    /\ rec.plan = "rotate" => row.date_created + ROTATE < rec.ts
               /\ rec.graced => rec.ts <= row.time_minted + GRACE
               /\ rec.graced /\ rec.pc = "select" =>
                    rec.token.id = row.old_id /\ rec.token.id # row.id,
         UNCHANGED <<now, auth_sessions, nextId, cookie, lost, history>>
  PROVE  IInv'
<1>1. /\ req' \in [Requests -> {Idle} \cup Request] /\ req'[r] = rec /\ Active(r)'
      /\ \A q \in Requests \ {r} : req'[q] = req[q]
  BY SetEffect DEF IInv
<1>2. UNCHANGED <<now, auth_sessions, nextId, cookie, lost, clean, lastSeen, idled, out>>
  BY DEF history
<1>3. TypeOK'
  BY <1>1, <1>2 DEF IInv, TypeOK
<1>4. IdsOwned'
  <2>1. \A i \in {req'[r].token.id, req'[r].key, req'[r].unique_id, req'[r].slot.id} :
          i # NoId => Owns(req[r].session, i)
    BY <1>1 DEF Owns
  <2> QED BY <1>1, <1>2, <2>1, RequestOwns DEF IInv, Live
<1>5. RowsAgree'
  BY <1>2 DEF IInv, RowsAgree, Live
<1>6. RequestsAgree'
  BY <1>1, <1>2 DEF IInv, RequestsAgree, Active, InPing
<1>7. PingsInTime'
  BY <1>1, <1>2 DEF IInv, PingsInTime, Active, Live
<1>8. GracedAgree'
  BY <1>1, <1>2 DEF IInv, GracedAgree, Active, Live, InPing
<1>9. CleanAgree'
  <2> SUFFICES ASSUME NEW u \in Sessions, clean[u], u \notin idled \cup out,
                      cookie[u] # NoCookie
               PROVE  CleanOf(u)'
    BY <1>2 DEF CleanAgree
  <2>1. CleanOf(u)
    BY DEF IInv, CleanAgree
  <2> QED BY <1>1, <1>2, <2>1 DEF CleanOf, Active, Live
<1> QED BY <1>3, <1>4, <1>5, <1>6, <1>7, <1>8, <1>9 DEF IInv

\* A request whose extractor has the row of its login: the row as it was, with
\* another last_interacted, or rotated.  Or it has an error instead: a login is
\* then clean only if the id of its row is the same.
LEMMA GrantInv ==
  ASSUME IInv, NEW r \in Requests, Active(r), req[r].pc \in {"sent", "update"},
         NEW s \in Live, s = req[r].session,
         NEW row \in AuthSessionRow,
         \/ Grant(r, row) /\ clean' = clean
         \/ /\ Answer(r, "error") /\ clean' \in [Sessions -> BOOLEAN]
            /\ \A u \in Sessions \ {s} : clean'[u] = clean[u]
            /\ clean'[s] => clean[s] /\ row.id = auth_sessions[s].id,
         DOMAIN auth_sessions' = Live, auth_sessions'[s] = row,
         \A u \in Live \ {s} : auth_sessions'[u] = auth_sessions[u],
         row.time_minted = row.date_created,
         row.date_created <= now, row.last_interacted <= now,
         \/ /\ row.id = auth_sessions[s].id /\ row.old_id = auth_sessions[s].old_id
            /\ row.date_created = auth_sessions[s].date_created
            /\ nextId' = nextId
         \/ /\ row.id = nextId /\ row.old_id = auth_sessions[s].id
            /\ auth_sessions[s].date_created + ROTATE < row.date_created
            /\ now <= row.last_interacted + IDLE
            /\ nextId' = nextId + 1,
         \/ now <= row.last_interacted + IDLE
         \/ row.last_interacted = auth_sessions[s].last_interacted,
         lastSeen' \in [Sessions -> Nat],
         \A u \in Sessions \ {s} : lastSeen'[u] = lastSeen[u],
         lastSeen'[s] <= now, lastSeen'[s] <= row.last_interacted + PingTime,
         UNCHANGED <<now, cookie, lost, idled, out>>
  PROVE  IInv'
<1> DEFINE old == auth_sessions[s]
<1>1. /\ old \in AuthSessionRow /\ s \in Sessions /\ old.id # NoId /\ old.id \in Nat
      /\ old.time_minted = old.date_created /\ nextId \in Nat /\ nextId # NoId
      /\ now \in Nat
  BY DEF IInv, TypeOK, Live, RowsAgree, AuthSessionRow
<1>2. row.id # NoId /\ row.old_id # NoId
  BY <1>1 DEF IInv, RowsAgree
<1>3. /\ req' \in [Requests -> {Idle} \cup Request]
      /\ \A q \in Requests \ {r} : req'[q] = req[q]
      /\ Active(r)' /\ req'[r].session = req[r].session
      /\ req'[r].pc \in {"handle", "reply"}
      /\ req'[r].pc = "reply" => req'[r].result # "unauthorized"
      /\ req'[r].token.id = NoId /\ req'[r].key = NoId
      /\ req'[r].unique_id \in {row.id, NoId} /\ req'[r].slot.id \in {row.id, NoId}
      /\ req'[r].slot.id = NoId => req'[r].slot = NoCookie
  <2>1. CASE Grant(r, row)
    <3>1. NoCookie.id = NoId
      BY DEF NoCookie
    <3> QED BY <1>2, <2>1, <3>1, GrantEffect DEF IInv
  <2>2. CASE Answer(r, "error")
    <3>1. "error" \in Results /\ NoCookie.id = NoId /\ req[r].slot = NoCookie
      BY DEF Results, NoCookie, IInv, RequestsAgree
    <3> QED BY <2>2, <3>1, AnswerEffect DEF IInv
  <2> QED BY <2>1, <2>2
<1>3a. /\ clean' \in [Sessions -> BOOLEAN]
       /\ \A u \in Sessions \ {s} : clean'[u] = clean[u]
       /\ clean'[s] =>
            /\ clean[s]
            /\ \/ req'[r].slot = NoCookie /\ row.id \in {req[r].token.id, old.id}
               \/ req'[r].slot.id = row.id
  <2>1. CASE Grant(r, row) /\ clean' = clean
    BY <1>2, <2>1, GrantEffect DEF IInv, TypeOK
  <2>2. CASE Answer(r, "error") /\ ~(Grant(r, row) /\ clean' = clean)
    <3>1. "error" \in Results /\ req[r].slot = NoCookie
      BY DEF Results, IInv, RequestsAgree
    <3> QED BY <2>2, <3>1, AnswerEffect DEF IInv
  <2> QED BY <2>1, <2>2
<1>4. \A q \in Requests : Active(q) /\ req[q].session = s =>
        req[q].token.id # nextId /\ req[q].key # nextId
  <2> SUFFICES ASSUME NEW q \in Requests, Active(q), req[q].session = s,
                      req[q].token.id = nextId \/ req[q].key = nextId
               PROVE  FALSE
    OBVIOUS
  <2>1. Owns(s, nextId)
    BY <1>1 DEF Owns
  <2> QED BY <1>1, <2>1 DEF IInv, IdsOwned
<1>5. TypeOK'
  BY <1>1, <1>3, <1>3a DEF IInv, TypeOK, Live, NoId
<1>6. IdsOwned'
  <2>1. ASSUME NEW u \in Sessions, NEW i \in Nat, Owns(u, i)'
        PROVE  Owns(u, i) \/ (u = s /\ i = nextId /\ nextId' = nextId + 1)
    <3>1. CASE u = s
      <4>1. \/ i \in {row.id, row.old_id}
            \/ i = cookie[s].id
            \/ \E q \in Requests \ {r} :
                 /\ Active(q) /\ req[q].session = s
                 /\ i \in {req[q].token.id, req[q].key, req[q].unique_id, req[q].slot.id}
        BY <1>3, <2>1, <3>1 DEF Owns, Active
      <4>2. i # NoId
        BY <2>1 DEF Owns
      <4> QED BY <1>1, <3>1, <4>1, <4>2 DEF Owns
    <3>2. CASE u # s
      BY <1>3, <2>1, <3>2 DEF Owns, Live, Active
    <3> QED BY <3>1, <3>2
  <2> QED BY <1>1, <2>1, OwnsStep DEF IInv
<1>7. RowsAgree'
  <2>1. \A u \in Sessions : lastSeen'[u] <= now'
    BY <1>1 DEF IInv, RowsAgree
  <2>2. \A u \in Live \ {s} : lastSeen'[u] = lastSeen[u]
    BY DEF IInv, TypeOK, Live
  <2> QED BY <1>1, <1>2, <2>1, <2>2 DEF IInv, RowsAgree, Live
<1>8. RequestsAgree'
  BY <1>2, <1>3 DEF IInv, RequestsAgree, Active, InPing
<1>9. PingsInTime'
  <2> SUFFICES ASSUME NEW q \in Requests \ {r}, Active(q), req[q].session = s
               PROVE  /\ req[q].pc = "select" /\ req[q].token.id \in {row.id, row.old_id} =>
                           req[q].ts <= row.last_interacted + IDLE
                      /\ req[q].pc = "update" /\ req[q].key = row.id =>
                           /\ req[q].ts <= row.last_interacted + IDLE
                           /\ req[q].plan = "rotate" => row.date_created + ROTATE < req[q].ts
    BY <1>3 DEF IInv, PingsInTime, Active, Live
  <2>1. InPing(q) => req[q].ts <= now /\ req[q].ts \in Nat
    BY ActiveType DEF IInv, RequestsAgree
  <2>2. row.last_interacted \in Nat /\ IDLE \in Nat
    BY DurationsAssumption DEF AuthSessionRow
  <2>3. now <= row.last_interacted + IDLE /\ InPing(q) => req[q].ts <= row.last_interacted + IDLE
    BY <1>1, <2>1, <2>2
  <2> QED BY <1>1, <1>4, <2>3 DEF IInv, PingsInTime, InPing
<1>10. GracedAgree'
  <2> SUFFICES ASSUME NEW q \in Requests \ {r}, Active(q), req[q].session = s, req[q].graced
               PROVE  /\ req[q].pc = "select" =>
                           req[q].token.id = row.old_id /\ req[q].token.id # row.id
                      /\ req[q].pc = "update" => req[q].key = row.id
                      /\ InPing(q) => req[q].ts <= row.time_minted + GRACE
                      /\ req[q].pc = "reply" => req[q].result # "unauthorized"
    BY <1>3 DEF IInv, GracedAgree, Active, Live, InPing
  <2>1. InPing(q) => now <= req[q].ts + PingTime /\ req[q].ts \in Nat
    BY ActiveType DEF IInv, RequestsAgree
  <2>2. InPing(q) => req[q].ts <= old.date_created + GRACE
    BY <1>1 DEF IInv, GracedAgree
  <2>3. InPing(q) => ~(old.date_created + ROTATE < row.date_created)
    BY <1>1, <2>1, <2>2, DurationsAssumption DEF AuthSessionRow
  <2>4. InPing(q) => row.id = old.id /\ row.old_id = old.old_id /\ row.time_minted = old.time_minted
    BY <1>1, <2>3
  <2> QED BY <2>4 DEF IInv, GracedAgree, InPing
<1>11. CleanAgree'
  <2> SUFFICES ASSUME NEW u \in Sessions, clean'[u], u \notin idled \cup out,
                      cookie[u] # NoCookie
               PROVE  CleanOf(u)'
    BY DEF CleanAgree
  <2>1. CleanOf(u)
    BY <1>3a DEF IInv, CleanAgree
  <2>2. CASE u # s
    BY <1>3, <2>1, <2>2 DEF CleanOf, Active, Live
  <2>3. CASE u = s
    <3>1. req[r].token.id = old.id /\ cookie[s].id = old.id
      BY <2>1, <2>3 DEF CleanOf, IInv, RequestsAgree
    <3>2. \/ req'[r].slot = NoCookie /\ cookie'[s].id = row.id
          \/ req'[r].slot.id = row.id /\ req'[r].slot # NoCookie
      BY <1>2, <1>3a, <2>3, <3>1 DEF NoCookie
    <3>3. /\ \A q \in Requests : Active(q)' /\ req'[q].session = s => q = r
          /\ s \in DOMAIN auth_sessions' /\ auth_sessions'[s].id = row.id
      BY <1>3, <2>1, <2>3 DEF CleanOf, Active, Live
    <3> QED BY <1>3, <2>3, <3>2, <3>3 DEF CleanOf, Live
  <2> QED BY <2>2, <2>3
<1> QED BY <1>5, <1>6, <1>7, <1>8, <1>9, <1>10, <1>11 DEF IInv

\* The statement that deletes an idle row, or starts a ping with what it saw.
LEMMA PingDeleteInv == ASSUME IInv, NEW r \in Requests, PingDelete(r) PROVE IInv'
<1> DEFINE p == req[r].token.id
           s == req[r].session
           stale == {u \in ByAnyId(p) : auth_sessions[u].last_interacted + IDLE < now}
<1>1. Active(r) /\ req[r].pc = "sent" /\ req[r] \in Request /\ s \in Sessions
  BY Somewhere, ActiveType DEF PingDelete, IInv
<1>2. ByAnyId(p) \subseteq {s} /\ ByAnyId(p) \subseteq Live
  BY <1>1, Found DEF ByAnyId
<1>3. UNCHANGED <<now, nextId, cookie, lost, clean, lastSeen, out>>
  BY DEF PingDelete
<1>4. CASE stale # {}
  <2>1. PICK result \in {"unauthorized", "error"} :
          /\ DOMAIN auth_sessions' = Live \ stale
          /\ \A u \in Live \ stale : auth_sessions'[u] = auth_sessions[u]
          /\ idled' = idled \cup stale /\ Answer(r, result)
    BY <1>4 DEF PingDelete, Refuse
  <2>2. stale = {s}
    BY <1>2, <1>4
  <2>3. ~req[r].graced /\ s \in idled' /\ result \in Results
    BY <1>1, <2>1, <2>2 DEF IInv, RequestsAgree, Results
  <2>4. idled' \subseteq Sessions /\ out' \subseteq Sessions
    BY <1>1, <1>3, <2>1, <2>2 DEF IInv, TypeOK
  <2> HIDE DEF stale
  <2> QED BY <1>1, <1>3, <2>1, <2>2, <2>3, <2>4, AnswerInv
<1>5. CASE stale = {}
  <2> DEFINE graced == \E u \in ByAnyId(p) : /\ auth_sessions[u].id # p
                                             /\ now <= auth_sessions[u].time_minted + GRACE
             rec == [req[r] EXCEPT !.pc = "select", !.ts = now, !.graced = graced]
  <2>1. Set(r, rec) /\ UNCHANGED <<auth_sessions, idled>>
    BY <1>5 DEF PingDelete
  <2>2. graced \in BOOLEAN /\ now \in Nat
    BY DEF IInv, TypeOK
  <2>3. graced /\ s \in Live => /\ auth_sessions[s].id # p /\ auth_sessions[s].old_id = p
                                /\ now <= auth_sessions[s].time_minted + GRACE
    BY <1>2 DEF ByAnyId
  <2> HIDE DEF graced
  <2>4. rec \in Request
    BY <1>1, <2>2 DEF Request, Stops
  <2>5. /\ rec.pc = "select" /\ rec.ts = now /\ rec.graced = graced /\ rec.session = s
        /\ rec.token = req[r].token /\ rec.slot = req[r].slot
        /\ rec.unique_id = req[r].unique_id /\ rec.key = req[r].key
    BY <1>1 DEF Request
  <2> HIDE DEF rec
  <2>6. rec.key # NoId => Owns(s, rec.key)
    BY <1>1, <2>5 DEF Owns
  <2>7. rec.ts <= now /\ now <= rec.ts + PingTime
    BY <2>2, <2>5, DurationsAssumption
  <2>8. s \in Live /\ p \in {auth_sessions[s].id, auth_sessions[s].old_id} =>
          now <= auth_sessions[s].last_interacted + IDLE
    BY <1>5, <2>2, DurationsAssumption DEF ByAnyId, IInv, TypeOK, Live, AuthSessionRow
  <2>9. UNCHANGED <<now, auth_sessions, nextId, cookie, lost, history>>
    BY <1>3, <2>1 DEF history
  <2> QED BY <1>1, <2>1, <2>3, <2>4, <2>5, <2>6, <2>7, <2>8, <2>9, GoOnInv
<1> QED BY <1>4, <1>5

\* The statement that reads the row and decides what the ping does.
LEMMA PingSelectInv == ASSUME IInv, NEW r \in Requests, PingSelect(r) PROVE IInv'
<1> DEFINE p == req[r].token.id
           s == req[r].session
           go(plan, key) == [req[r] EXCEPT !.pc = "update", !.plan = plan, !.key = key]
<1>1. /\ Active(r) /\ req[r].pc = "select" /\ req[r] \in Request /\ s \in Sessions
      /\ p # NoId /\ InPing(r) /\ cookie[s] # NoCookie
  BY Somewhere, ActiveType DEF PingSelect, IInv, RequestsAgree, InPing
<1>2. ByAnyId(p) \subseteq {s} /\ ByAnyId(p) \subseteq Live
  BY <1>1, Found DEF ByAnyId
<1>3. /\ UNCHANGED <<now, auth_sessions, nextId, cookie, lost, history>>
      /\ UNCHANGED <<now, auth_sessions, nextId, cookie, lost, clean, lastSeen, idled, out>>
  BY DEF PingSelect, history
<1>4. clean[s] /\ s \notin idled \cup out => s \in Live /\ auth_sessions[s].id = p
  BY <1>1 DEF IInv, CleanAgree, CleanOf
<1>5. req[r].graced /\ s \in Live =>
        /\ p = auth_sessions[s].old_id /\ p # auth_sessions[s].id
        /\ req[r].ts <= auth_sessions[s].time_minted + GRACE
  BY <1>1 DEF IInv, GracedAgree
<1>6. "unauthorized" \in Results
  BY DEF Results
<1>7. CASE ByAnyId(p) = {} /\ Refuse(r)
  BY <1>1, <1>3, <1>4, <1>5, <1>6, <1>7, AnswerOnlyInv DEF Refuse, ByAnyId
<1>8. CASE \E u \in ByAnyId(p) :
             LET row == auth_sessions[u]
             IN  IF row.id # p
                 THEN IF row.time_minted + GRACE < req[r].ts THEN Refuse(r)
                                                  ELSE Set(r, go("touch", row.id))
                 ELSE IF row.date_created + ROTATE < req[r].ts THEN Set(r, go("rotate", p))
                                                               ELSE Set(r, go("touch", p))
  <2> DEFINE row == auth_sessions[s]
  <2>1. /\ s \in Live /\ p \in {row.id, row.old_id}
        /\ IF row.id # p
           THEN IF row.time_minted + GRACE < req[r].ts THEN Refuse(r)
                                                       ELSE Set(r, go("touch", row.id))
           ELSE IF row.date_created + ROTATE < req[r].ts THEN Set(r, go("rotate", p))
                                                         ELSE Set(r, go("touch", p))
    BY <1>2, <1>8 DEF ByAnyId
  <2>2. row \in AuthSessionRow /\ req[r].ts \in Nat
    BY <1>1, <2>1 DEF IInv, TypeOK, Live, Request
  <2>3. CASE row.id # p /\ row.time_minted + GRACE < req[r].ts
    <3>1. ~req[r].graced
      BY <1>5, <2>1, <2>2, <2>3, DurationsAssumption DEF AuthSessionRow
    <3> QED BY <1>1, <1>3, <1>4, <1>6, <2>1, <2>3, <3>1, AnswerOnlyInv DEF Refuse
  <2>4. ASSUME NEW plan \in {"touch", "rotate"}, Set(r, go(plan, row.id)),
               plan = "rotate" => row.date_created + ROTATE < req[r].ts
        PROVE  IInv'
    <3> DEFINE rec == go(plan, row.id)
    <3>1. rec \in Request
      BY <1>1, <2>2 DEF Request, Stops, AuthSessionRow
    <3>2. /\ rec.pc = "update" /\ rec.plan = plan /\ rec.key = row.id /\ rec.session = s
          /\ rec.token = req[r].token /\ rec.slot = req[r].slot /\ rec.ts = req[r].ts
          /\ rec.unique_id = req[r].unique_id /\ rec.graced = req[r].graced
      BY <1>1 DEF Request
    <3>3. Set(r, rec)
      BY <2>4
    <3> HIDE DEF rec
    <3>4. row.id # NoId /\ Owns(s, row.id)
      BY <2>1 DEF Owns, IInv, RowsAgree
    <3>5. req[r].ts <= now /\ now <= req[r].ts + PingTime
      BY <1>1 DEF IInv, RequestsAgree
    <3>6. req[r].ts <= row.last_interacted + IDLE
      BY <1>1, <2>1 DEF IInv, PingsInTime
    <3> QED BY <1>1, <1>3, <1>5, <2>1, <2>4, <3>1, <3>2, <3>3, <3>4, <3>5, <3>6, GoOnInv
  <2> QED BY <2>1, <2>3, <2>4
<1> QED BY <1>7, <1>8 DEF PingSelect

\* The statement that touches or rotates the row by its id, if it is there.
LEMMA PingUpdateInv == ASSUME IInv, NEW r \in Requests, PingUpdate(r) PROVE IInv'
<1> DEFINE d == req[r]
           s == d.session
           old == auth_sessions[s]
<1>1. /\ Active(r) /\ d.pc = "update" /\ d \in Request /\ s \in Sessions /\ d.ts \in Nat
      /\ cookie[s] # NoCookie /\ d.plan \in {"touch", "rotate"} /\ d.key # NoId
      /\ d.ts <= now /\ now <= d.ts + PingTime /\ now \in Nat
  BY Somewhere, ActiveType DEF PingUpdate, IInv, RequestsAgree, InPing, Request, TypeOK
<1>2. ById(d.key) \subseteq {s} /\ ById(d.key) \subseteq Live
  BY <1>1, Found DEF ById
<1>3. /\ UNCHANGED <<now, cookie, lost, idled, out>>
  BY DEF PingUpdate
<1>4. CASE ById(d.key) = {} /\ Refuse(r) /\ UNCHANGED <<auth_sessions, nextId, clean, lastSeen>>
  <2>1. ~(s \in Live /\ old.id = d.key)
    BY <1>4 DEF ById
  <2>2. d.graced => s \notin Live
    BY <1>1, <2>1 DEF IInv, GracedAgree
  <2>3. clean[s] => s \in idled \cup out
    BY <1>1, <2>1 DEF IInv, CleanAgree, CleanOf
  <2>4. "unauthorized" \in Results
    BY DEF Results
  <2> QED BY <1>1, <1>3, <1>4, <2>2, <2>3, <2>4, AnswerOnlyInv DEF Refuse
<1>5. ASSUME NEW u \in ById(d.key),
             LET row == IF d.plan = "rotate" THEN Rotated(auth_sessions[u], d.ts)
                        ELSE [auth_sessions[u] EXCEPT !.last_interacted = d.ts]
             IN  /\ auth_sessions' = [auth_sessions EXCEPT ![u] = row]
                 /\ nextId' = IF d.plan = "rotate" THEN nextId + 1 ELSE nextId
                 /\ \/ Grant(r, row) /\ UNCHANGED clean
                    \/ /\ Answer(r, "error")
                       /\ clean' = [clean EXCEPT ![u] = @ /\ d.plan # "rotate"]
                 /\ Seen(u, d.ts)
      PROVE  IInv'
  <2> DEFINE row == IF d.plan = "rotate" THEN Rotated(old, d.ts)
                    ELSE [old EXCEPT !.last_interacted = d.ts]
  <2>1. u = s /\ s \in Live /\ d.key = old.id
    BY <1>2 DEF ById
  <2>2. /\ old \in AuthSessionRow /\ nextId \in Nat /\ old.time_minted = old.date_created
        /\ old.date_created <= now
    BY <2>1 DEF IInv, TypeOK, Live, RowsAgree
  <2>3. /\ auth_sessions' = [auth_sessions EXCEPT ![s] = row]
        /\ nextId' = IF d.plan = "rotate" THEN nextId + 1 ELSE nextId
        /\ \/ Grant(r, row) /\ clean' = clean
           \/ /\ Answer(r, "error")
              /\ clean' = [clean EXCEPT ![s] = @ /\ d.plan # "rotate"]
        /\ Seen(s, d.ts)
    BY <1>5, <2>1
  <2>4. /\ row \in AuthSessionRow /\ row.last_interacted = d.ts
        /\ d.plan = "rotate" => /\ row.id = nextId /\ row.old_id = old.id
                                /\ row.date_created = d.ts /\ row.time_minted = d.ts
        /\ d.plan = "touch" => /\ row.id = old.id /\ row.old_id = old.old_id
                               /\ row.date_created = old.date_created
                               /\ row.time_minted = old.time_minted
    BY <1>1, <2>2 DEF AuthSessionRow, Rotated
  <2> HIDE DEF row
  <2>5. /\ DOMAIN auth_sessions' = Live /\ auth_sessions'[s] = row
        /\ \A v \in Live \ {s} : auth_sessions'[v] = auth_sessions[v]
    BY <2>1, <2>3 DEF Live
  <2>6. d.plan = "rotate" => old.date_created + ROTATE < d.ts
    BY <1>1, <2>1 DEF IInv, PingsInTime
  <2>7. lastSeen[s] \in Nat /\ lastSeen[s] <= now
    BY <1>1 DEF IInv, TypeOK, RowsAgree
  <2>8. /\ lastSeen' \in [Sessions -> Nat]
        /\ lastSeen'[s] = IF d.ts > lastSeen[s] THEN d.ts ELSE lastSeen[s]
        /\ \A v \in Sessions \ {s} : lastSeen'[v] = lastSeen[v]
    BY <1>1, <2>3, <2>7 DEF Seen, IInv, TypeOK
  <2>9. lastSeen'[s] <= now /\ lastSeen'[s] <= row.last_interacted + PingTime
    BY <1>1, <2>4, <2>7, <2>8, DurationsAssumption
  <2>10. now <= row.last_interacted + IDLE
    BY <1>1, <2>4, DurationsAssumption
  <2>11. /\ row.time_minted = row.date_created /\ row.date_created <= now
         /\ row.last_interacted <= now
    BY <1>1, <2>2, <2>4
  <2>12. \/ /\ row.id = old.id /\ row.old_id = old.old_id
            /\ row.date_created = old.date_created /\ nextId' = nextId
         \/ /\ row.id = nextId /\ row.old_id = old.id
            /\ old.date_created + ROTATE < row.date_created
            /\ now <= row.last_interacted + IDLE
            /\ nextId' = nextId + 1
    BY <1>1, <2>3, <2>4, <2>6, <2>10
  <2>13. \/ Grant(r, row) /\ clean' = clean
         \/ /\ Answer(r, "error") /\ clean' \in [Sessions -> BOOLEAN]
            /\ \A v \in Sessions \ {s} : clean'[v] = clean[v]
            /\ clean'[s] => clean[s] /\ row.id = old.id
    BY <1>1, <2>3, <2>4 DEF IInv, TypeOK
  <2> QED BY <1>1, <1>3, <2>1, <2>4, <2>5, <2>8, <2>9, <2>10, <2>11, <2>12, <2>13, GrantInv
<1> QED BY <1>4, <1>5 DEF PingUpdate

\* RefreshMode::Never reads the row and changes nothing.
LEMMA ReadSessionInv == ASSUME IInv, NEW r \in Requests, ReadSession(r) PROVE IInv'
<1> DEFINE d == req[r]
           s == d.session
<1>1. /\ Active(r) /\ d.pc = "sent" /\ s \in Sessions /\ cookie[s] # NoCookie /\ ~d.graced
      /\ {"unauthorized", "error"} \subseteq Results
  BY Somewhere, ActiveType DEF ReadSession, IInv, RequestsAgree, Results
<1>2. ById(d.token.id) \subseteq {s} /\ ById(d.token.id) \subseteq Live
  BY <1>1, Found DEF ById
<1>3. UNCHANGED <<now, auth_sessions, nextId, cookie, lost, clean, lastSeen, idled, out>>
  BY DEF ReadSession, history
<1>4. CASE Answer(r, "error")
  BY <1>1, <1>3, <1>4, AnswerOnlyInv
<1>5. CASE ById(d.token.id) = {} /\ Refuse(r)
  <2>1. clean[s] => s \in idled \cup out
    BY <1>1, <1>5 DEF IInv, CleanAgree, CleanOf, ById
  <2> QED BY <1>1, <1>3, <1>5, <2>1, AnswerOnlyInv DEF Refuse
<1>6. ASSUME NEW u \in ById(d.token.id), Grant(r, auth_sessions[u]) PROVE IInv'
  <2>1. u = s /\ s \in Live
    BY <1>2
  <2> DEFINE row == auth_sessions[s]
  <2>2. /\ row \in AuthSessionRow /\ row.time_minted = row.date_created
        /\ row.date_created <= now /\ row.last_interacted <= now
        /\ lastSeen[s] <= now /\ lastSeen[s] <= row.last_interacted + PingTime
        /\ lastSeen \in [Sessions -> Nat] /\ nextId \in Nat
    BY <1>1, <2>1 DEF IInv, TypeOK, Live, RowsAgree
  <2>3. DOMAIN auth_sessions' = Live /\ \A v \in Live : auth_sessions'[v] = auth_sessions[v]
    BY <1>3 DEF Live
  <2>4. Grant(r, row)
    BY <1>6, <2>1
  <2> QED BY <1>1, <1>3, <2>1, <2>2, <2>3, <2>4, GrantInv
<1> QED BY <1>4, <1>5, <1>6 DEF ReadSession

\* Every step preserves the invariant.
LEMMA StepInv == IInv /\ [Next]_vars => IInv'
<1> SUFFICES ASSUME IInv, [Next]_vars PROVE IInv'
  OBVIOUS
<1>1. CASE Next
  BY <1>1, TickInv, LoginInv, SendInv, PingDeleteInv, PingSelectInv, PingUpdateInv,
     ReadSessionInv, ExtractionFailsInv, HandleInv, LogoutInv, DeliverInv, LoseReplyInv
  DEF Next, Ping
<1>2. CASE UNCHANGED vars
  BY <1>2 DEF vars, history, IInv, TypeOK, IdsOwned, Owns, RowsAgree, RequestsAgree,
              PingsInTime, GracedAgree, CleanAgree, CleanOf, Active, Live, InPing
<1> QED BY <1>1, <1>2

\* The invariant holds in every reachable state.
LEMMA InductiveInv == Spec => []IInv
  BY InitInv, StepInv, PTL DEF Spec

---------------------------------------------------------------------------
\* Every variable has its type.
THEOREM TypeCorrect == Spec => []TypeOK
<1>1. IInv => TypeOK
  BY DEF IInv
<1> QED BY <1>1, InductiveInv, PTL

\* A browser that sends one request after the other, gets every response, and gets
\* no error in place of a rotated cookie, is not refused by saps.ping or
\* read_auth_session unless its session was idle too long or logged out.
THEOREM SignedIn == Spec => []StaysSignedIn
<1>1. IInv => StaysSignedIn
  BY Somewhere, ActiveType
  DEF IInv, StaysSignedIn, Refused, RequestsAgree, CleanAgree, CleanOf
<1> QED BY <1>1, InductiveInv, PTL

\* A ping that came with the previous id within the grace period is not refused,
\* as long as the row is there.
THEOREM Grace == Spec => []GraceKept
<1>1. IInv => GraceKept
  BY Somewhere DEF IInv, GraceKept, Refused, GracedAgree
<1> QED BY <1>1, InductiveInv, PTL

---------------------------------------------------------------------------
\* The steps that change a row that is there: a ping's deletion, a ping's update
\* of the id that is still the row's, and a logout of it.
LEMMA RowChanges ==
  ASSUME IInv, Next, NEW s \in Live,
         ~(s \in DOMAIN auth_sessions' /\ auth_sessions'[s] = auth_sessions[s])
  PROVE  \E r \in Requests :
           /\ Active(r) /\ req[r].session = s
           /\ \/ /\ PingDelete(r) /\ s \notin DOMAIN auth_sessions'
                 /\ auth_sessions[s].last_interacted + IDLE < now
              \/ /\ Logout(r) /\ s \notin DOMAIN auth_sessions'
              \/ /\ PingUpdate(r) /\ s \in DOMAIN auth_sessions'
                 /\ req[r].pc = "update" /\ req[r].key = auth_sessions[s].id
                 /\ auth_sessions'[s] =
                      IF req[r].plan = "rotate" THEN Rotated(auth_sessions[s], req[r].ts)
                      ELSE [auth_sessions[s] EXCEPT !.last_interacted = req[r].ts]
<1> DEFINE Kept == s \in DOMAIN auth_sessions' /\ auth_sessions'[s] = auth_sessions[s]
<1>1. CASE UNCHANGED auth_sessions
  BY <1>1 DEF Live
<1>2. ASSUME NEW u \in Sessions, Login(u) PROVE Kept
  BY <1>2 DEF Login, IInv, RowsAgree
<1>3. ASSUME NEW r \in Requests, PingDelete(r)
      PROVE  Kept \/ /\ Active(r) /\ req[r].session = s /\ s \notin DOMAIN auth_sessions'
                     /\ auth_sessions[s].last_interacted + IDLE < now
  <2>1. Active(r)
    BY <1>3, Somewhere DEF PingDelete, IInv
  <2>2. ByAnyId(req[r].token.id) \subseteq {req[r].session}
    BY <2>1, Found
  <2> QED BY <1>3, <2>1, <2>2 DEF PingDelete, Live
<1>4. ASSUME NEW r \in Requests, Logout(r)
      PROVE  Kept \/ (Active(r) /\ req[r].session = s /\ s \notin DOMAIN auth_sessions')
  <2>1. Active(r)
    BY <1>4, Somewhere DEF Logout, IInv
  <2>2. ById(req[r].unique_id) \subseteq {req[r].session}
    BY <2>1, Found
  <2> QED BY <1>4, <2>1, <2>2 DEF Logout, Live
<1>5. ASSUME NEW r \in Requests, PingUpdate(r)
      PROVE  Kept \/
             /\ Active(r) /\ req[r].session = s /\ s \in DOMAIN auth_sessions'
             /\ req[r].pc = "update" /\ req[r].key = auth_sessions[s].id
             /\ auth_sessions'[s] =
                  IF req[r].plan = "rotate" THEN Rotated(auth_sessions[s], req[r].ts)
                  ELSE [auth_sessions[s] EXCEPT !.last_interacted = req[r].ts]
  <2>1. Active(r) /\ req[r].pc = "update"
    BY <1>5, Somewhere DEF PingUpdate, IInv
  <2>2. ById(req[r].key) \subseteq {req[r].session}
    BY <2>1, Found
  <2> QED BY <1>5, <2>1, <2>2 DEF PingUpdate, Live, ById
<1>6. \/ UNCHANGED auth_sessions
      \/ \E u \in Sessions : Login(u)
      \/ \E r \in Requests : PingDelete(r) \/ Logout(r) \/ PingUpdate(r)
  BY DEF Next, Ping, Tick, Send, PingSelect, ReadSession, ExtractionFails, Handle, Deliver, LoseReply
<1> HIDE DEF Kept
<1>7. ~Kept
  BY DEF Kept
<1> QED BY <1>1, <1>2, <1>3, <1>4, <1>5, <1>6, <1>7

\* A ping that updates a row does so in time: its time is that of the row's last
\* interaction, up to IDLE, and a rotation is due.
LEMMA UpdateInTime ==
  ASSUME IInv, NEW r \in Requests, NEW s \in Live, Active(r), req[r].session = s,
         req[r].pc = "update", req[r].key = auth_sessions[s].id
  PROVE  /\ req[r].ts <= auth_sessions[s].last_interacted + IDLE
         /\ req[r].plan = "rotate" => auth_sessions[s].time_minted + ROTATE < req[r].ts
  BY DEF IInv, PingsInTime, RowsAgree

\* Only idleness or a logout ends a session, and no slow ping revives one.
THEOREM Evicted == Spec => EvictedWhenIdle
<1> DEFINE A(s) == IF s \in DOMAIN auth_sessions'
                   THEN auth_sessions'[s].last_interacted <= auth_sessions[s].last_interacted + IDLE
                   ELSE s \in out' \/ now + PingTime > lastSeen[s] + IDLE
<1>1. ASSUME IInv, [Next]_vars, NEW s \in Live PROVE A(s)
  <2>1. /\ auth_sessions[s] \in AuthSessionRow /\ s \in Sessions /\ now \in Nat
        /\ lastSeen[s] \in Nat /\ lastSeen[s] <= auth_sessions[s].last_interacted + PingTime
        /\ auth_sessions[s].last_interacted \in Nat
    BY <1>1 DEF IInv, TypeOK, Live, RowsAgree, AuthSessionRow
  <2>2. CASE s \in DOMAIN auth_sessions' /\ auth_sessions'[s] = auth_sessions[s]
    BY <2>1, <2>2, DurationsAssumption
  <2>3. CASE ~(s \in DOMAIN auth_sessions' /\ auth_sessions'[s] = auth_sessions[s])
    <3>1. Next
      BY <1>1, <2>3 DEF vars, Live
    <3>2. PICK r \in Requests :
           /\ Active(r) /\ req[r].session = s
           /\ \/ /\ PingDelete(r) /\ s \notin DOMAIN auth_sessions'
                 /\ auth_sessions[s].last_interacted + IDLE < now
              \/ /\ Logout(r) /\ s \notin DOMAIN auth_sessions'
              \/ /\ PingUpdate(r) /\ s \in DOMAIN auth_sessions'
                 /\ req[r].pc = "update" /\ req[r].key = auth_sessions[s].id
                 /\ auth_sessions'[s] =
                      IF req[r].plan = "rotate" THEN Rotated(auth_sessions[s], req[r].ts)
                      ELSE [auth_sessions[s] EXCEPT !.last_interacted = req[r].ts]
      BY <1>1, <2>3, <3>1, RowChanges
    <3>3. CASE s \notin DOMAIN auth_sessions' /\ auth_sessions[s].last_interacted + IDLE < now
      BY <2>1, <3>3, DurationsAssumption
    <3>4. CASE s \notin DOMAIN auth_sessions' /\ Logout(r)
      BY <3>2, <3>4 DEF Logout
    <3>5. CASE /\ s \in DOMAIN auth_sessions' /\ req[r].pc = "update"
               /\ req[r].key = auth_sessions[s].id
      <4>1. req[r].ts <= auth_sessions[s].last_interacted + IDLE
        BY <1>1, <3>2, <3>5, UpdateInTime
      <4>2. auth_sessions'[s].last_interacted = req[r].ts
        BY <2>1, <3>2, <3>5 DEF Rotated, AuthSessionRow
      <4> QED BY <3>5, <4>1, <4>2
    <3> QED BY <3>2, <3>3, <3>4, <3>5
  <2> QED BY <2>2, <2>3
<1>2. IInv /\ [Next]_vars => [\A s \in Live : A(s)]_vars
  BY <1>1
<1> QED BY <1>2, InductiveInv, PTL DEF Spec, EvictedWhenIdle

\* However many pings find an id due for rotation, it is replaced at most once
\* per ROTATE, and the replaced id becomes old_id.
THEOREM Spaced == Spec => RotationsSpaced
<1> DEFINE A(s) == auth_sessions'[s].id # auth_sessions[s].id =>
                     /\ auth_sessions'[s].old_id = auth_sessions[s].id
                     /\ auth_sessions'[s].time_minted > auth_sessions[s].time_minted + ROTATE
<1>1. ASSUME IInv, [Next]_vars, NEW s \in Live \cap DOMAIN auth_sessions' PROVE A(s)
  <2>1. auth_sessions[s] \in AuthSessionRow
    BY <1>1 DEF IInv, TypeOK, Live
  <2>2. CASE auth_sessions'[s] = auth_sessions[s]
    BY <2>2
  <2>3. CASE auth_sessions'[s] # auth_sessions[s]
    <3>1. Next
      BY <1>1, <2>3 DEF vars
    <3>2. PICK r \in Requests :
           /\ Active(r) /\ req[r].session = s
           /\ req[r].pc = "update" /\ req[r].key = auth_sessions[s].id
           /\ auth_sessions'[s] =
                IF req[r].plan = "rotate" THEN Rotated(auth_sessions[s], req[r].ts)
                ELSE [auth_sessions[s] EXCEPT !.last_interacted = req[r].ts]
      <4>1. s \in Live /\ s \in DOMAIN auth_sessions'
        BY <1>1
      <4> QED BY <1>1, <2>3, <3>1, <4>1, RowChanges, ZenonT(60)
    <3>3. req[r].plan = "rotate" => auth_sessions[s].time_minted + ROTATE < req[r].ts
      BY <1>1, <3>2, UpdateInTime
    <3>4. CASE req[r].plan = "rotate"
      <4>1. /\ auth_sessions'[s].old_id = auth_sessions[s].id
            /\ auth_sessions'[s].time_minted = req[r].ts
        BY <2>1, <3>2, <3>4 DEF Rotated, AuthSessionRow
      <4>2. req[r].ts \in Nat /\ auth_sessions[s].time_minted \in Nat
        BY <1>1, <2>1, <3>2, ActiveType DEF IInv, AuthSessionRow
      <4> QED BY <3>3, <3>4, <4>1, <4>2, DurationsAssumption
    <3>5. CASE req[r].plan # "rotate"
      BY <2>1, <3>2, <3>5 DEF AuthSessionRow
    <3> QED BY <3>4, <3>5
  <2> QED BY <2>2, <2>3
<1>2. IInv /\ [Next]_vars => [\A s \in Live \cap DOMAIN auth_sessions' : A(s)]_vars
  BY <1>1
<1> QED BY <1>2, InductiveInv, PTL DEF Spec, RotationsSpaced

-----------------------------------------------------------------------------
(* AuthMeta.                                                               *)

Row == [id : Nat, meta : Metas]
Token == [session : Logins, unique_id : Nat, meta : Metas]
Statement == [op : {"delete", "upsert"}, what : Doings, pairs : Pairs,
              written : UNION {[D -> Metas \cup {Gone}] : D \in SUBSET Logins},
              todo : SUBSET Logins]

\* The shape of what the variables hold.
RecordsOK ==
  /\ \A s \in LiveRows : rows[s] \in Row
  /\ token \in [Tokens -> {NoToken} \cup Token]
  /\ stmt \in [Statements -> {Finished} \cup Statement]

\* A unique index holds of the committed rows.
IndexHolds == \A s, u \in LiveRows : s # u => ~Same(rows[s].meta, rows[u].meta)

\* What a statement wrote is what it makes of the row as it still is, which
\* matches; nobody else has the row.
WrittenAgrees ==
  \A b \in Running : \A s \in Written(b) :
    /\ s \in LiveRows /\ Contains(rows[s].meta, stmt[b].pairs)
    /\ stmt[b].written[s] = Does(stmt[b].what, rows[s].meta)

\* What is written and not committed is in no conflict with a committed row that
\* its statement did not write, nor with any other uncommitted row.
WrittenDistinct ==
  \A b \in Running : \A s \in Written(b) :
    /\ \A u \in LiveRows \ ({s} \cup Written(b)) : ~Same(stmt[b].written[s], rows[u].meta)
    /\ \A c \in Running : \A u \in Written(c) \ {s} :
         ~Same(stmt[b].written[s], stmt[c].written[u])

\* A statement by the keys of a unique index has one row at most.
OneMatch ==
  \A b \in Running :
    ByIndex(stmt[b].pairs) =>
      \A s, u \in stmt[b].todo \cup Written(b) : s = u

\* The inductive invariant.
MetaIInv == /\ MetaTypeOK /\ RecordsOK /\ IndexHolds /\ WrittenAgrees /\ WrittenDistinct
        /\ OneMatch /\ NothingOverwritten /\ WritesExactlyMatches

---------------------------------------------------------------------------
\* Setting a key of a meta makes an object; without a meta it makes the first.
LEMMA SetType ==
  ASSUME NEW meta \in Metas, NEW k \in Keys, NEW v \in Values
  PROVE  jsonb_set(meta, k, v) \in Objects
<1>1. CASE meta = NULL
  <2>1. jsonb_set(meta, k, v) \in [{k} -> Values]
    BY <1>1 DEF jsonb_set
  <2> QED BY <2>1 DEF Objects
<1>2. CASE meta # NULL
  <2>1. PICK D \in SUBSET Keys : meta \in [D -> Values]
    BY <1>2 DEF Metas, Objects
  <2>2. jsonb_set(meta, k, v) \in [{k} \cup D -> Values]
    BY <1>2, <2>1 DEF jsonb_set
  <2> QED BY <2>2 DEF Objects
<1> QED BY <1>1, <1>2

\* Deleting a key of a meta leaves a meta.
LEMMA MinusType ==
  ASSUME NEW meta \in Metas, NEW k \in Keys
  PROVE  Minus(meta, k) \in Metas
<1>1. CASE meta = NULL
  BY <1>1 DEF Minus, Metas
<1>2. CASE meta # NULL
  <2>1. PICK D \in SUBSET Keys : meta \in [D -> Values]
    BY <1>2 DEF Metas, Objects
  <2>2. Minus(meta, k) \in [D \ {k} -> Values]
    BY <1>2, <2>1 DEF Minus
  <2> QED BY <2>2 DEF Metas, Objects
<1> QED BY <1>1, <1>2

\* What a statement does to a meta is a meta, or the deletion of the row.
LEMMA DoesType ==
  ASSUME NEW what \in Doings, NEW meta \in Metas
  PROVE  Does(what, meta) \in Metas \cup {Gone}
<1>1. CASE what.op = "delete"
  BY <1>1 DEF Does
<1>2. CASE what.op # "delete"
  <2>1. what.key \in Keys /\ what.value \in Values
    BY <1>2 DEF Doings
  <2> QED BY <1>2, <2>1, SetType DEF Does, Metas
<1> QED BY <1>1, <1>2

\* A unique index does not tell the two rows apart whichever comes first.
LEMMA SameSymmetric ==
  ASSUME NEW m, NEW n, Same(m, n)
  PROVE  Same(n, m)
  BY DEF Same

\* Two rows that match the keys of a unique index, with values that their texts
\* tell apart, have the same texts there.
LEMMA MatchesSame ==
  ASSUME NEW m, NEW n, NEW pairs, Contains(m, pairs), Contains(n, pairs), ByIndex(pairs)
  PROVE  Same(m, n)
<1>1. PICK U \in Unique : U \subseteq DOMAIN pairs /\ \A k \in U : Exact(pairs[k])
  BY DEF ByIndex
<1>2. ASSUME NEW k \in U PROVE Text[m[k]] = Text[n[k]] /\ Text[m[k]] # NULL
  <2>1. <<m[k], pairs[k]>> \in Fits /\ <<n[k], pairs[k]>> \in Fits
    BY <1>1 DEF Contains
  <2>2. m[k] \in Values /\ n[k] \in Values
    BY <2>1, MetaAssumption
  <2> QED BY <1>1, <2>1, <2>2 DEF Exact
<1> QED BY <1>1, <1>2 DEF Contains, Same

\* A statement under way is a record, and what it wrote a function.
LEMMA RunningType ==
  ASSUME RecordsOK, NEW b \in Running
  PROVE  /\ b \in Statements /\ stmt[b] \in Statement /\ stmt[b] # Finished
         /\ Written(b) = DOMAIN stmt[b].written
         /\ stmt[b].written \in [Written(b) -> Metas \cup {Gone}]
         /\ Written(b) \subseteq Logins /\ stmt[b].todo \subseteq Logins
         /\ stmt[b].pairs \in Pairs /\ stmt[b].what \in Doings
<1>1. b \in Statements /\ stmt[b] \in Statement /\ stmt[b] # Finished
  BY DEF RecordsOK, Running
<1>2. PICK D \in SUBSET Logins : stmt[b].written \in [D -> Metas \cup {Gone}]
  BY <1>1 DEF Statement
<1>3. Written(b) = DOMAIN stmt[b].written /\ Written(b) = D
  BY <1>2 DEF Written
<1> QED BY <1>1, <1>2, <1>3 DEF Statement

\* The initial state satisfies the invariant.
LEMMA MetaInitInv == MetaInit => MetaIInv
<1> SUFFICES ASSUME MetaInit PROVE MetaIInv
  OBVIOUS
<1>1. LiveRows = {} /\ Running = {}
  BY DEF MetaInit, LiveRows, Running
<1>2. RecordsOK
  BY <1>1 DEF MetaInit, RecordsOK
<1>3. MetaTypeOK
  BY <1>1, MetaAssumption DEF MetaInit, MetaTypeOK
<1>4. /\ IndexHolds /\ WrittenAgrees /\ WrittenDistinct /\ OneMatch
      /\ NothingOverwritten /\ WritesExactlyMatches
  BY <1>1 DEF IndexHolds, WrittenAgrees, WrittenDistinct, OneMatch, NothingOverwritten,
              WritesExactlyMatches
<1> QED BY <1>2, <1>3, <1>4 DEF MetaIInv

\* The part of the invariant that a step of a request or a login has to show: the
\* rows that statements wrote stay as they are, and a changed row is in no
\* conflict with a written one.
RowsOK ==
  /\ LiveRows \subseteq Logins
  /\ \A s \in LiveRows : rows[s] \in Row /\ rows[s].id \in 1..(nextUuid - 1)
                         /\ rows[s].meta = ledger[s]
  /\ \A s, u \in LiveRows : rows[s].id = rows[u].id => s = u
  /\ nextUuid \in 1..(MaxIds + 1) /\ calls \in 0..MaxCalls
  /\ token \in [Tokens -> {NoToken} \cup Token]
  /\ ledger \in [Logins -> Metas \cup {Gone}]
  /\ IndexHolds

\* The invariant implies RowsOK.
LEMMA InvRows == MetaIInv => RowsOK
  BY DEF MetaIInv, RowsOK, MetaTypeOK, RecordsOK, NothingOverwritten

\* A step of a request or a login preserves the invariant when it shows that part.
LEMMA RequestInv ==
  ASSUME MetaIInv, Remembered, UNCHANGED stmt, RowsOK',
         \A b \in Running : \A s \in Written(b) :
           /\ s \in LiveRows' /\ rows'[s].meta = rows[s].meta
           /\ \A u \in LiveRows' \ ({s} \cup Written(b)) : ~Same(stmt[b].written[s], rows'[u].meta)
  PROVE  MetaIInv'
<1>1. Running' = Running /\ \A b : Written(b)' = Written(b)
  BY DEF Running, Written
<1>2. RecordsOK'
  BY DEF MetaIInv, RecordsOK, RowsOK
<1>3. MetaTypeOK'
  <2>1. \A s \in LiveRows' : rows'[s].id \in (1..(nextUuid - 1))' /\ rows'[s].meta \in Metas
    BY DEF RowsOK, Row
  <2>2. \A t \in Tokens : token'[t] # NoToken => token'[t].session \in Logins
                                                 /\ token'[t].meta \in Metas
    BY DEF RowsOK, Token
  <2>3. \A b \in Running' : /\ stmt'[b].pairs \in Pairs /\ stmt'[b].what \in Doings
                            /\ stmt'[b].todo \cup Written(b)' \subseteq Logins
                            /\ \A c \in Running' \ {b} : Written(b)' \cap Written(c)' = {}
    BY <1>1 DEF MetaIInv, MetaTypeOK
  <2> QED BY <2>1, <2>2, <2>3 DEF MetaTypeOK, RowsOK
<1>4. WrittenAgrees'
  BY <1>1 DEF MetaIInv, WrittenAgrees
<1>5. WrittenDistinct'
  BY <1>1 DEF MetaIInv, WrittenDistinct
<1>6. OneMatch'
  BY <1>1 DEF MetaIInv, OneMatch
<1>7. WritesExactlyMatches'
  <2>1. ASSUME NEW b \in Running PROVE steady'[b] \subseteq steady[b]
    BY <2>1 DEF Remembered, Running
  <2> QED BY <1>1, <1>4, <2>1 DEF MetaIInv, WritesExactlyMatches, WrittenAgrees
<1>8. IndexHolds' /\ NothingOverwritten'
  BY DEF RowsOK, NothingOverwritten
<1> QED BY <1>2, <1>3, <1>4, <1>5, <1>6, <1>7, <1>8 DEF MetaIInv

\* A request or a login is no statement: it waits for all of them, and a
\* collision is one with a committed row.
LEMMA NoStatement ==
  ASSUME NEW t \in Tokens \cup Logins, NEW s, NEW meta
  PROVE  /\ Running \ {t} = Running
         /\ Collides(t, s, meta) = \E u \in LiveRows \ {s} : Same(meta, rows[u].meta)
<1>1. t \notin Running
  BY MetaAssumption DEF Running
<1> QED BY <1>1 DEF Collides, Written

\* An operation that writes the meta of one row, or is refused by an index.
LEMMA PutInv ==
  ASSUME MetaIInv, Remembered, NEW t \in Tokens, NEW s \in LiveRows, token[t] # NoToken,
         NEW meta \in Metas, Put(t, s, meta, meta)
  PROVE  MetaIInv'
<1>1. RowsOK
  BY InvRows
<1>2. CASE Collides(t, s, meta)
  <2>1. UNCHANGED <<rows, ledger, token, nextUuid, stmt>> /\ calls' \in 0..MaxCalls
    BY <1>1, <1>2, MetaAssumption DEF Put, Called, RowsOK
  <2>2. RowsOK'
    BY <1>1, <2>1 DEF RowsOK, LiveRows, IndexHolds
  <2> QED BY <2>1, <2>2, RequestInv DEF MetaIInv, WrittenAgrees, WrittenDistinct, LiveRows
<1>3. CASE ~Collides(t, s, meta)
  <2>1. /\ rows' = [rows EXCEPT ![s].meta = meta]
        /\ ledger' = [ledger EXCEPT ![s] = meta]
        /\ token' = [token EXCEPT ![t].meta = meta]
        /\ UNCHANGED <<nextUuid, stmt>> /\ calls' \in 0..MaxCalls
    BY <1>1, <1>3, MetaAssumption DEF Put, Called, RowsOK
  <2>2. /\ LiveRows' = LiveRows /\ rows'[s] \in Row /\ rows'[s].meta = meta
        /\ rows'[s].id = rows[s].id
        /\ \A u \in LiveRows \ {s} : rows'[u] = rows[u]
    BY <1>1, <2>1 DEF LiveRows, RowsOK, Row
  <2>3. token' \in [Tokens -> {NoToken} \cup Token]
    <3>1. token[t] \in Token
      BY <1>1 DEF RowsOK
    <3>2. [token[t] EXCEPT !.meta = meta] \in Token
      BY <3>1 DEF Token
    <3> QED BY <1>1, <2>1, <3>2 DEF RowsOK
  <2>4. \A u \in LiveRows \ {s} : ~Same(meta, rows[u].meta) /\ ~Same(rows[u].meta, meta)
    <3>1. \A u \in LiveRows \ {s} : ~Same(meta, rows[u].meta)
      BY <1>3, NoStatement
    <3> QED BY <3>1, SameSymmetric
  <2>5. IndexHolds'
    BY <1>1, <2>2, <2>4 DEF RowsOK, IndexHolds
  <2>6. ledger' \in [Logins -> Metas \cup {Gone}] /\ ledger'[s] = meta
        /\ \A u \in LiveRows \ {s} : ledger'[u] = ledger[u]
    BY <1>1, <2>1 DEF RowsOK
  <2>7. RowsOK'
    BY <1>1, <2>1, <2>2, <2>3, <2>5, <2>6 DEF RowsOK
  <2>8. ASSUME NEW b \in Running, NEW u \in Written(b) PROVE u # s /\ u \in LiveRows
    BY <2>8 DEF Put, Locked, MetaIInv, WrittenAgrees
  <2>9. ASSUME NEW b \in Running, NEW u \in Written(b)
        PROVE  ~Same(stmt[b].written[u], meta)
    <3>1. ~MustWait(t, s, meta)
      BY DEF Put
    <3>2. ~Same(meta, stmt[b].written[u])
      BY <2>8, <2>9, <3>1, NoStatement DEF MustWait
    <3> QED BY <3>2, SameSymmetric
  <2>10. ASSUME NEW b \in Running, NEW u \in Written(b)
         PROVE  /\ u \in LiveRows' /\ rows'[u].meta = rows[u].meta
                /\ \A v \in LiveRows' \ ({u} \cup Written(b)) : ~Same(stmt[b].written[u], rows'[v].meta)
    BY <2>2, <2>8, <2>9 DEF MetaIInv, WrittenDistinct
  <2> QED BY <2>1, <2>7, <2>10, RequestInv
<1> QED BY <1>2, <1>3

\* A row that a token's statement finds has the token's id.
LEMMA HitEffect ==
  ASSUME MetaIInv, NEW t \in Tokens, NEW s \in Hit(t)
  PROVE  s \in LiveRows /\ token[t] # NoToken /\ rows[s].meta \in Metas /\ rows[s].meta = ledger[s]
  BY DEF MetaIInv, MetaTypeOK, RecordsOK, Hit, NoToken, NothingOverwritten, Row

\* An operation that changes only a token's cache.
LEMMA CacheInv ==
  ASSUME MetaIInv, Remembered, NEW t \in Tokens, token[t] # NoToken, NEW meta \in Metas,
         token' = [token EXCEPT ![t].meta = meta], calls' \in 0..MaxCalls,
         UNCHANGED <<rows, nextUuid, stmt, ledger>>
  PROVE  MetaIInv'
<1>1. RowsOK
  BY InvRows
<1>2. token[t] \in Token
  BY <1>1 DEF RowsOK
<1>3. [token[t] EXCEPT !.meta = meta] \in Token
  BY <1>2 DEF Token
<1>4. token' \in [Tokens -> {NoToken} \cup Token]
  BY <1>1, <1>3 DEF RowsOK
<1>5. RowsOK'
  BY <1>1, <1>4 DEF RowsOK, LiveRows, IndexHolds
<1> QED BY <1>5, RequestInv DEF MetaIInv, WrittenAgrees, WrittenDistinct, LiveRows

\* A login with meta.
LEMMA CreateInv ==
  ASSUME MetaIInv, Remembered, NEW s \in Logins, NEW meta \in Metas, create_auth_session(s, meta)
  PROVE  MetaIInv'
<1>1. RowsOK /\ s \notin LiveRows /\ nextUuid <= MaxIds /\ nextUuid \in Nat
  BY InvRows, MetaAssumption DEF create_auth_session, RowsOK
<1>2. /\ LiveRows' = LiveRows \cup {s} /\ rows'[s] = [id |-> nextUuid, meta |-> meta]
      /\ \A u \in LiveRows : rows'[u] = rows[u]
      /\ ledger' = [ledger EXCEPT ![s] = meta] /\ nextUuid' = nextUuid + 1
      /\ UNCHANGED <<token, stmt, calls>>
  BY <1>1 DEF create_auth_session, LiveRows, NewId
<1>3. \A u \in LiveRows : ~Same(meta, rows[u].meta) /\ ~Same(rows[u].meta, meta)
  <2>1. ~Collides(s, s, meta)
    BY DEF create_auth_session
  <2>2. \A u \in LiveRows : ~Same(meta, rows[u].meta)
    BY <1>1, <2>1, NoStatement
  <2> QED BY <2>2, SameSymmetric
<1>4. IndexHolds'
  BY <1>1, <1>2, <1>3 DEF RowsOK, IndexHolds
<1>5. \A u \in LiveRows' : rows'[u] \in Row /\ rows'[u].id \in 1..nextUuid
  BY <1>1, <1>2 DEF RowsOK, Row
<1>6. \A u, v \in LiveRows' : rows'[u].id = rows'[v].id => u = v
  BY <1>1, <1>2 DEF RowsOK
<1>7. /\ ledger' \in [Logins -> Metas \cup {Gone}] /\ ledger'[s] = meta
      /\ \A u \in LiveRows : ledger'[u] = ledger[u]
  BY <1>1, <1>2 DEF RowsOK
<1>8. RowsOK'
  BY <1>1, <1>2, <1>4, <1>5, <1>6, <1>7, MetaAssumption DEF RowsOK
<1>9. ASSUME NEW b \in Running, NEW u \in Written(b) PROVE ~Same(stmt[b].written[u], meta)
  <2>1. ~MustWait(s, s, meta) /\ u # s
    BY <1>1, <1>9 DEF create_auth_session, MetaIInv, WrittenAgrees
  <2>2. ~Same(meta, stmt[b].written[u])
    BY <1>9, <2>1, NoStatement DEF MustWait
  <2> QED BY <2>2, SameSymmetric
<1>10. ASSUME NEW b \in Running, NEW u \in Written(b)
       PROVE  /\ u \in LiveRows' /\ rows'[u].meta = rows[u].meta
              /\ \A v \in LiveRows' \ ({u} \cup Written(b)) : ~Same(stmt[b].written[u], rows'[v].meta)
  BY <1>2, <1>9 DEF MetaIInv, WrittenDistinct, WrittenAgrees
<1> QED BY <1>2, <1>8, <1>10, RequestInv

\* The extractor: perhaps a new id, and a token with the meta it read.
LEMMA ExtractInv ==
  ASSUME MetaIInv, Remembered, NEW t \in Tokens, NEW s \in Logins, Extract(t, s)
  PROVE  MetaIInv'
<1>1. RowsOK /\ s \in LiveRows
  BY InvRows DEF Extract
<1>2. PICK id \in {rows[s].id, nextUuid} :
        /\ id = nextUuid => nextUuid <= MaxIds
        /\ nextUuid' = IF id = nextUuid THEN nextUuid + 1 ELSE nextUuid
        /\ rows' = [rows EXCEPT ![s].id = id]
        /\ token' = [token EXCEPT ![t] = [session |-> s, unique_id |-> id, meta |-> rows[s].meta]]
  <2>1. PICK rotate \in BOOLEAN :
          LET id == IF rotate THEN nextUuid ELSE rows[s].id
          IN  /\ rotate => nextUuid <= MaxIds
              /\ nextUuid' = IF rotate THEN nextUuid + 1 ELSE nextUuid
              /\ rows' = [rows EXCEPT ![s].id = id]
              /\ token' = [token EXCEPT ![t] = [session |-> s, unique_id |-> id,
                                                meta |-> rows[s].meta]]
    BY DEF Extract
  <2>2. rows[s].id # nextUuid
    BY <1>1, MetaAssumption DEF RowsOK
  <2>3. CASE rotate
    BY <2>1, <2>3
  <2>4. CASE ~rotate
    BY <2>1, <2>2, <2>4
  <2> QED BY <2>3, <2>4
<1>3. UNCHANGED <<stmt, calls, ledger>> /\ nextUuid \in Nat /\ rows[s] \in Row
  BY <1>1, MetaAssumption DEF Extract, RowsOK
<1>4. /\ LiveRows' = LiveRows /\ rows'[s] \in Row /\ rows'[s].id = id /\ rows'[s].meta = rows[s].meta
      /\ \A u \in LiveRows \ {s} : rows'[u] = rows[u]
  BY <1>1, <1>2, <1>3 DEF LiveRows, Row
<1>5. \A u \in LiveRows' : rows'[u] \in Row /\ rows'[u].id \in 1..(nextUuid' - 1)
                           /\ rows'[u].meta = rows[u].meta
  BY <1>1, <1>2, <1>3, <1>4 DEF RowsOK
<1>6. \A u, v \in LiveRows' : rows'[u].id = rows'[v].id => u = v
  BY <1>1, <1>2, <1>3, <1>4 DEF RowsOK
<1>7. token' \in [Tokens -> {NoToken} \cup Token]
  BY <1>1, <1>2, <1>3 DEF RowsOK, Token, Row
<1>8. nextUuid' \in 1..(MaxIds + 1)
  BY <1>1, <1>2, MetaAssumption DEF RowsOK
<1>9. IndexHolds'
  BY <1>1, <1>4, <1>5 DEF RowsOK, IndexHolds
<1>10. RowsOK'
  BY <1>1, <1>3, <1>4, <1>5, <1>6, <1>7, <1>8, <1>9 DEF RowsOK
<1> QED BY <1>3, <1>4, <1>5, <1>10, RequestInv DEF MetaIInv, WrittenAgrees, WrittenDistinct

\* A token deletes its row, unless a statement has it.
LEMMA DeleteInv ==
  ASSUME MetaIInv, Remembered, NEW t \in Tokens, delete_auth_session(t)
  PROVE  MetaIInv'
<1>1. PICK s \in Hit(t) : /\ ~Locked(s)
                          /\ rows' = [u \in LiveRows \ {s} |-> rows[u]]
                          /\ ledger' = [ledger EXCEPT ![s] = Gone]
  BY DEF delete_auth_session
<1>2. RowsOK /\ UNCHANGED <<nextUuid, token, stmt>> /\ calls' \in 0..MaxCalls
  BY InvRows, MetaAssumption DEF delete_auth_session, Called, RowsOK
<1>3. LiveRows' = LiveRows \ {s} /\ \A u \in LiveRows' : rows'[u] = rows[u] /\ ledger'[u] = ledger[u]
  BY <1>1, <1>2 DEF LiveRows, RowsOK
<1>4. ledger' \in [Logins -> Metas \cup {Gone}]
  BY <1>1, <1>2 DEF RowsOK
<1>5. RowsOK'
  BY <1>2, <1>3, <1>4 DEF RowsOK, IndexHolds
<1>6. \A b \in Running : s \notin Written(b)
  BY <1>1 DEF Locked
<1> QED BY <1>2, <1>3, <1>5, <1>6, RequestInv DEF MetaIInv, WrittenAgrees, WrittenDistinct

\* Every operation of a token preserves the invariant.
LEMMA TokenInv ==
  ASSUME MetaIInv, Remembered, NEW t \in Tokens, TokenStep(t)
  PROVE  MetaIInv'
<1>1. CASE \E s \in Logins : Extract(t, s)
  BY <1>1, ExtractInv
<1>2. ASSUME NEW meta \in Objects, update_auth_session_meta(t, meta) PROVE MetaIInv'
  <2>1. meta \in Metas
    BY DEF Metas
  <2>2. CASE Hit(t) = {} /\ token[t] # NoToken /\ token' = [token EXCEPT ![t].meta = meta]
             /\ Called /\ UNCHANGED <<rows, nextUuid, stmt, ledger>>
    <3>1. calls' \in 0..MaxCalls
      BY <2>2, MetaAssumption DEF Called, MetaIInv, MetaTypeOK
    <3> QED BY <2>1, <2>2, <3>1, CacheInv
  <2>3. ASSUME NEW s \in Hit(t), Put(t, s, meta, meta) PROVE MetaIInv'
    BY <2>1, <2>3, HitEffect, PutInv
  <2> QED BY <1>2, <2>2, <2>3 DEF update_auth_session_meta
<1>3. ASSUME NEW k \in Keys, NEW v \in Values, NEW s \in Hit(t),
             Put(t, s, jsonb_set(rows[s].meta, k, v), jsonb_set(ledger[s], k, v))
      PROVE  MetaIInv'
  <2>1. jsonb_set(rows[s].meta, k, v) \in Metas
    BY HitEffect, SetType DEF Metas
  <2> QED BY <1>3, <2>1, HitEffect, PutInv
<1>4. ASSUME NEW k \in Keys, delete_auth_session_meta_key(t, k) PROVE MetaIInv'
  <2>1. PICK s \in Hit(t) : Put(t, s, Minus(rows[s].meta, k), Minus(ledger[s], k))
    BY <1>4 DEF delete_auth_session_meta_key
  <2>2. Minus(rows[s].meta, k) \in Metas
    BY HitEffect, MinusType
  <2> QED BY <2>1, <2>2, HitEffect, PutInv
<1>5. CASE refresh_auth_session(t)
  <2>1. PICK s \in Hit(t) : token' = [token EXCEPT ![t].meta = rows[s].meta]
    BY <1>5 DEF refresh_auth_session
  <2>2. UNCHANGED <<rows, nextUuid, stmt, ledger>> /\ calls' \in 0..MaxCalls
    BY <1>5 DEF refresh_auth_session, MetaIInv, MetaTypeOK
  <2> QED BY <2>1, <2>2, HitEffect, CacheInv
<1>6. CASE delete_auth_session(t)
  BY <1>6, DeleteInv
<1> QED BY <1>1, <1>2, <1>3, <1>4, <1>5, <1>6
        DEF TokenStep, upsert_auth_session_meta_key, compare_and_swap_auth_session_meta

---------------------------------------------------------------------------
\* What a step of statement b has to show of b when it commits nothing.
StatementOK(b) ==
  /\ stmt[b] \in Statement
  /\ \A s \in DOMAIN stmt[b].written :
       /\ s \in LiveRows /\ Contains(rows[s].meta, stmt[b].pairs)
       /\ stmt[b].written[s] = Does(stmt[b].what, rows[s].meta)
       /\ \A u \in LiveRows \ ({s} \cup DOMAIN stmt[b].written) :
            ~Same(stmt[b].written[s], rows[u].meta)
       /\ \A u \in DOMAIN stmt[b].written \ {s} : ~Same(stmt[b].written[s], stmt[b].written[u])
       /\ \A c \in Running \ {b} :
            /\ s \notin Written(c)
            /\ \A u \in Written(c) : ~Same(stmt[b].written[s], stmt[c].written[u])
  /\ ByIndex(stmt[b].pairs) =>
       \A s, u \in stmt[b].todo \cup DOMAIN stmt[b].written : s = u
  /\ steady[b] \subseteq stmt[b].todo \cup DOMAIN stmt[b].written

\* The invariant says so of a statement under way.
LEMMA InvStatement ==
  ASSUME MetaIInv, NEW b \in Running
  PROVE  StatementOK(b)
  BY RunningType
  DEF MetaIInv, StatementOK, MetaTypeOK, WrittenAgrees, WrittenDistinct, OneMatch, WritesExactlyMatches

\* A step of one statement that commits nothing preserves the invariant.
LEMMA StatementInv ==
  ASSUME MetaIInv, Remembered, NEW b \in Statements,
         UNCHANGED <<rows, nextUuid, token, ledger>>, calls' \in 0..MaxCalls,
         stmt' = [stmt EXCEPT ![b] = stmt'[b]],
         stmt'[b] # Finished => StatementOK(b)'
  PROVE  MetaIInv'
<1>1. /\ \A c \in Statements \ {b} : stmt'[c] = stmt[c]
      /\ \A c \in Running' \ {b} :
           c \in Running /\ stmt'[c] = stmt[c] /\ Written(c)' = Written(c)
      /\ Running' \ {b} = Running \ {b} /\ LiveRows' = LiveRows
  BY DEF Running, Written, MetaIInv, RecordsOK, LiveRows
<1>2. b \in Running' => StatementOK(b)' /\ Written(b)' = DOMAIN stmt'[b].written
  BY DEF Running, Written
<1>3. RecordsOK'
  BY <1>1 DEF MetaIInv, RecordsOK, StatementOK
<1>4. MetaTypeOK'
  <2>1. ASSUME NEW c \in Running'
        PROVE  /\ stmt'[c].pairs \in Pairs /\ stmt'[c].what \in Doings
               /\ stmt'[c].todo \cup Written(c)' \subseteq Logins
    <3>1. CASE c # b
      BY <1>1, <2>1, <3>1 DEF MetaIInv, MetaTypeOK
    <3>2. CASE c = b
      BY <1>2, <2>1, <3>2 DEF StatementOK, Statement
    <3> QED BY <3>1, <3>2
  <2>2. ASSUME NEW c \in Running', NEW e \in Running' \ {c}
        PROVE  Written(c)' \cap Written(e)' = {}
    <3>1. CASE c # b /\ e # b
      BY <1>1, <2>2, <3>1 DEF MetaIInv, MetaTypeOK
    <3>2. CASE c = b
      BY <1>1, <1>2, <2>2, <3>2 DEF StatementOK
    <3>3. CASE e = b
      BY <1>1, <1>2, <2>2, <3>3 DEF StatementOK
    <3> QED BY <3>1, <3>2, <3>3
  <2> QED BY <1>1, <2>1, <2>2 DEF MetaIInv, MetaTypeOK
<1>5. WrittenAgrees'
  BY <1>1, <1>2 DEF MetaIInv, WrittenAgrees, StatementOK
<1>6. WrittenDistinct'
  <2> SUFFICES ASSUME NEW c \in Running', NEW s \in Written(c)'
               PROVE  /\ \A u \in LiveRows \ ({s} \cup Written(c)') : ~Same(stmt'[c].written[s], rows[u].meta)
                      /\ \A e \in Running' : \A u \in Written(e)' \ {s} :
                           ~Same(stmt'[c].written[s], stmt'[e].written[u])
    BY <1>1 DEF WrittenDistinct
  <2>1. CASE c = b
    BY <1>1, <1>2, <2>1 DEF StatementOK
  <2>2. CASE c # b
    <3>1. \A u \in LiveRows \ ({s} \cup Written(c)') : ~Same(stmt'[c].written[s], rows[u].meta)
      BY <1>1, <2>2 DEF MetaIInv, WrittenDistinct
    <3>2. ASSUME NEW e \in Running', NEW u \in Written(e)' \ {s}
          PROVE  ~Same(stmt'[c].written[s], stmt'[e].written[u])
      <4>1. CASE e # b
        BY <1>1, <2>2, <3>2, <4>1 DEF MetaIInv, WrittenDistinct
      <4>2. CASE e = b
        <5>1. ~Same(stmt'[b].written[u], stmt'[c].written[s])
          BY <1>1, <1>2, <2>2, <3>2, <4>2 DEF StatementOK
        <5> QED BY <4>2, <5>1, SameSymmetric
      <4> QED BY <4>1, <4>2
    <3> QED BY <3>1, <3>2
  <2> QED BY <2>1, <2>2
<1>7. OneMatch'
  BY <1>1, <1>2 DEF MetaIInv, OneMatch, StatementOK
<1>8. WritesExactlyMatches'
  <2>1. ASSUME NEW c \in Running' \ {b} PROVE steady'[c] \subseteq steady[c]
    <3>1. stmt[c] # Finished /\ stmt'[c] # Finished /\ c \in Statements
      BY <1>1, <2>1 DEF Running
    <3> QED BY <3>1 DEF Remembered
  <2> QED BY <1>1, <1>2, <1>5, <2>1
          DEF MetaIInv, WritesExactlyMatches, WrittenAgrees, StatementOK
<1>9. IndexHolds' /\ NothingOverwritten'
  BY <1>1 DEF MetaIInv, IndexHolds, NothingOverwritten
<1> QED BY <1>3, <1>4, <1>5, <1>6, <1>7, <1>8, <1>9 DEF MetaIInv

\* A statement begins with the rows it matches, which are one at most by the keys
\* of a unique index.
LEMMA BeginInv ==
  ASSUME MetaIInv, Remembered, NEW b \in Statements, NEW pairs \in Pairs, NEW what \in Doings,
         BeginStatement(b, pairs, what)
  PROVE  MetaIInv'
<1> DEFINE todo == {s \in LiveRows : Contains(rows[s].meta, pairs)}
           d == [op |-> what.op, what |-> what, pairs |-> pairs, written |-> << >>, todo |-> todo]
<1>1. /\ stmt' = [stmt EXCEPT ![b] = d] /\ stmt'[b] = d /\ stmt[b] = Finished
      /\ UNCHANGED <<rows, nextUuid, token, ledger>> /\ calls' \in 0..MaxCalls
  BY MetaAssumption DEF BeginStatement, MetaIInv, RecordsOK, Called, MetaTypeOK
<1>2. /\ d.written = << >> /\ DOMAIN d.written = {} /\ d.todo = todo /\ d.pairs = pairs
  OBVIOUS
<1>3. d \in Statement
  <2>1. what.op \in {"delete", "upsert"}
    BY DEF Doings
  <2>2. << >> \in [{} -> Metas \cup {Gone}]
    OBVIOUS
  <2>3. todo \subseteq Logins
    BY DEF MetaIInv, MetaTypeOK, LiveRows
  <2> QED BY <2>1, <2>2, <2>3 DEF Statement
<1>4. ASSUME ByIndex(pairs), NEW s \in todo, NEW u \in todo PROVE s = u
  BY <1>4, MatchesSame DEF MetaIInv, IndexHolds
<1> HIDE DEF d
<1>5. d # Finished
  BY <1>3 DEF Finished, Statement
<1>6. steady'[b] \subseteq d.todo
  BY <1>1, <1>5 DEF Remembered
<1>7. StatementOK(b)'
  BY <1>1, <1>2, <1>3, <1>4, <1>6 DEF StatementOK
<1> QED BY <1>1, <1>7, StatementInv

\* A statement that ends without a trace.
LEMMA EndInv ==
  ASSUME MetaIInv, Remembered, NEW b \in Statements, stmt' = [stmt EXCEPT ![b] = Finished],
         UNCHANGED <<rows, nextUuid, token, calls, ledger>>
  PROVE  MetaIInv'
<1>1. stmt'[b] = Finished /\ calls' \in 0..MaxCalls
  BY DEF MetaIInv, RecordsOK, MetaTypeOK
<1> QED BY <1>1, StatementInv

\* A statement comes to one of its rows: it passes it by, locks it with what it
\* makes of it, or is refused by an index.
LEMMA VisitInv ==
  ASSUME MetaIInv, Remembered, NEW b \in Statements, NEW s \in Logins, Visit(b, s)
  PROVE  MetaIInv'
<1> DEFINE d == stmt[b]
           meta == Does(d.what, rows[s].meta)
<1>1. /\ b \in Running /\ s \in d.todo /\ d \in Statement /\ StatementOK(b)
      /\ UNCHANGED <<rows, nextUuid, token, calls, ledger>> /\ calls' \in 0..MaxCalls
      /\ Written(b) = DOMAIN d.written /\ d # Finished
  BY RunningType, InvStatement DEF Visit, MetaIInv, MetaTypeOK
<1>2. steady'[b] = IF stmt'[b] = Finished THEN {}
                   ELSE {u \in steady[b] \cap LiveRows : Contains(rows[u].meta, d.pairs)}
  BY <1>1 DEF Remembered, LiveRows
<1>3. Running' \ {b} = Running \ {b} /\ \A c \in Running \ {b} : Written(c)' = Written(c)
  BY DEF Visit, Running, Written, Lock, MetaIInv, RecordsOK
<1>4. CASE Passed(b, s) /\ stmt' = [stmt EXCEPT ![b].todo = @ \ {s}]
  <2> DEFINE e == [d EXCEPT !.todo = @ \ {s}]
  <2>1. stmt' = [stmt EXCEPT ![b] = e] /\ stmt'[b] = e
    BY <1>4 DEF MetaIInv, RecordsOK
  <2>2. /\ e.written = d.written /\ e.todo = d.todo \ {s} /\ e.pairs = d.pairs
        /\ e.what = d.what /\ e \in Statement
    BY <1>1 DEF Statement
  <2>3. ~Matches(b, s)
    BY <1>4 DEF Passed
  <2> HIDE DEF e
  <2>4. steady'[b] \subseteq e.todo \cup DOMAIN e.written
    BY <1>1, <1>2, <2>2, <2>3 DEF StatementOK, Matches
  <2>5. \A c \in Running \ {b} : stmt'[c] = stmt[c]
    BY <2>1 DEF Running
  <2>6. StatementOK(b)'
    BY <1>1, <1>3, <2>1, <2>2, <2>4, <2>5 DEF StatementOK, LiveRows
  <2> QED BY <1>1, <2>1, <2>6, StatementInv
<1>5. CASE /\ ~Locked(s) /\ Matches(b, s) /\ ~MustWait(b, s, meta) /\ ~Collides(b, s, meta)
           /\ Lock(b, s, meta)
  <2> DEFINE W == Written(b)
             written == [u \in W \cup {s} |-> IF u = s THEN meta ELSE d.written[u]]
             e == [d EXCEPT !.todo = @ \ {s}, !.written = written]
  <2>1. stmt' = [stmt EXCEPT ![b] = e] /\ stmt'[b] = e
    BY <1>5 DEF Lock, MetaIInv, RecordsOK
  <2>2. s \in LiveRows /\ rows[s].meta \in Metas /\ meta \in Metas \cup {Gone} /\ s \notin W
    BY <1>1, <1>5, DoesType DEF Matches, MetaIInv, MetaTypeOK, Statement, Locked
  <2>3. written \in [W \cup {s} -> Metas \cup {Gone}] /\ W \cup {s} \in SUBSET Logins
    BY <1>1, <2>2, RunningType DEF MetaIInv
  <2>4. /\ DOMAIN written = W \cup {s} /\ written[s] = meta
        /\ \A u \in W : written[u] = d.written[u]
    BY <2>2
  <2> HIDE DEF written
  <2>5. e.written = written /\ e.todo = d.todo \ {s} /\ e.pairs = d.pairs /\ e.what = d.what
    BY <1>1 DEF Statement
  <2>6. e \in Statement
    BY <1>1, <2>3 DEF Statement
  <2> HIDE DEF e
  <2>7. \A c \in Running \ {b} : stmt'[c] = stmt[c]
    BY <2>1 DEF Running
  <2>8. \A u \in W : ~Same(meta, d.written[u]) /\ ~Same(d.written[u], meta)
    <3>1. \A u \in W : ~Same(meta, d.written[u])
      BY <1>1, <1>5, <2>2 DEF Collides, StatementOK
    <3> QED BY <3>1, SameSymmetric
  <2>9. \A u \in LiveRows \ (W \cup {s}) : ~Same(meta, rows[u].meta)
    BY <1>5 DEF Collides
  <2>10. \A c \in Running \ {b} : s \notin Written(c)
                                  /\ \A u \in Written(c) : ~Same(meta, stmt[c].written[u])
    BY <1>5 DEF MustWait, Locked
  <2>11. steady'[b] \subseteq e.todo \cup DOMAIN e.written
    BY <1>1, <1>2, <2>4, <2>5 DEF StatementOK
  <2>12. ASSUME NEW u \in DOMAIN e.written
         PROVE  /\ u \in LiveRows /\ Contains(rows[u].meta, e.pairs)
                /\ e.written[u] = Does(e.what, rows[u].meta)
                /\ \A v \in LiveRows \ ({u} \cup DOMAIN e.written) : ~Same(e.written[u], rows[v].meta)
                /\ \A v \in DOMAIN e.written \ {u} : ~Same(e.written[u], e.written[v])
                /\ \A c \in Running \ {b} :
                     /\ u \notin Written(c)
                     /\ \A v \in Written(c) : ~Same(e.written[u], stmt[c].written[v])
    <3>1. CASE u = s
      BY <1>5, <2>2, <2>4, <2>5, <2>8, <2>9, <2>10, <3>1 DEF Matches
    <3>2. CASE u \in W
      BY <1>1, <2>2, <2>4, <2>5, <2>8, <3>2 DEF StatementOK
    <3> QED BY <2>4, <2>5, <2>12, <3>1, <3>2
  <2>13. ByIndex(e.pairs) =>
           \A u, v \in e.todo \cup DOMAIN e.written : u = v
    BY <1>1, <2>4, <2>5 DEF StatementOK
  <2>14. StatementOK(b)'
    BY <1>1, <1>3, <2>1, <2>6, <2>7, <2>11, <2>12, <2>13 DEF StatementOK, LiveRows
  <2> QED BY <1>1, <2>1, <2>14, StatementInv
<1>6. CASE stmt' = [stmt EXCEPT ![b] = Finished]
  BY <1>1, <1>6, EndInv
<1> QED BY <1>4, <1>5, <1>6 DEF Visit

\* A commit makes what the statement wrote the meta of the rows, or deletes them.
LEMMA CommitInv ==
  ASSUME MetaIInv, Remembered, NEW b \in Statements, Commit(b)
  PROVE  MetaIInv'
<1> DEFINE d == stmt[b]
           W == Written(b)
           new == d.written
<1>1. /\ b \in Running /\ StatementOK(b) /\ W = DOMAIN new /\ W \subseteq LiveRows
      /\ new \in [W -> Metas \cup {Gone}]
  BY RunningType, InvStatement DEF Commit, MetaIInv, WrittenAgrees
<1>2. /\ stmt' = [stmt EXCEPT ![b] = Finished] /\ UNCHANGED <<nextUuid, token, calls>>
      /\ rows' = [s \in {u \in LiveRows : u \notin W \/ new[u] # Gone} |->
                    IF s \in W THEN [rows[s] EXCEPT !.meta = new[s]] ELSE rows[s]]
      /\ ledger' = [s \in Logins |-> IF s \in W THEN Does(d.what, ledger[s]) ELSE ledger[s]]
  BY DEF Commit
<1>3. RowsOK
  BY InvRows
<1>4. /\ LiveRows' = {u \in LiveRows : u \notin W \/ new[u] # Gone}
      /\ \A s \in LiveRows' \cap W : /\ rows'[s] = [rows[s] EXCEPT !.meta = new[s]]
                                     /\ new[s] \in Metas
      /\ \A s \in LiveRows' \ W : rows'[s] = rows[s]
  BY <1>1, <1>2 DEF LiveRows
<1>5. ASSUME NEW s \in LiveRows'
      PROVE  /\ s \in LiveRows /\ rows'[s] \in Row /\ rows'[s].id = rows[s].id
             /\ s \in W => rows'[s].meta = new[s]
             /\ s \notin W => rows'[s].meta = rows[s].meta
  <2>1. s \in LiveRows /\ rows[s] \in Row
    BY <1>3, <1>4, <1>5 DEF RowsOK
  <2> HIDE DEF W, new
  <2>2. CASE s \in W
    <3>1. new[s] \in Metas /\ rows'[s] = [rows[s] EXCEPT !.meta = new[s]]
      BY <1>4, <1>5, <2>2
    <3> QED BY <2>1, <2>2, <3>1 DEF Row
  <2>3. CASE s \notin W
    BY <1>4, <1>5, <2>1, <2>3
  <2> QED BY <2>2, <2>3
<1>6. \A s \in W : new[s] = Does(d.what, ledger[s])
  BY <1>1, <1>3 DEF StatementOK, RowsOK
<1>7. /\ ledger' \in [Logins -> Metas \cup {Gone}]
      /\ \A s \in LiveRows' : rows'[s].meta = ledger'[s]
  BY <1>1, <1>2, <1>3, <1>5, <1>6 DEF RowsOK
<1>8. IndexHolds'
  <2> SUFFICES ASSUME NEW s \in LiveRows', NEW u \in LiveRows', s # u
               PROVE  ~Same(rows'[s].meta, rows'[u].meta)
    BY DEF IndexHolds
  <2>1. CASE s \in W
    BY <1>1, <1>5, <2>1 DEF StatementOK
  <2>2. CASE s \notin W /\ u \in W
    <3>1. ~Same(rows'[u].meta, rows'[s].meta)
      BY <1>1, <1>5, <2>2 DEF StatementOK
    <3> QED BY <3>1, SameSymmetric
  <2>3. CASE s \notin W /\ u \notin W
    BY <1>3, <1>5, <2>3 DEF RowsOK, IndexHolds
  <2> QED BY <2>1, <2>2, <2>3
<1>9. /\ Running' = Running \ {b}
      /\ \A c \in Running' : stmt'[c] = stmt[c] /\ Written(c)' = Written(c) /\ c # b
                             /\ c \in Running /\ c \in Statements
  BY <1>2 DEF Running, Written, MetaIInv, RecordsOK
<1>10. ASSUME NEW c \in Running', NEW s \in Written(c)
       PROVE  s \notin W /\ s \in LiveRows' /\ rows'[s] = rows[s]
  BY <1>1, <1>4, <1>9, <1>10 DEF MetaIInv, MetaTypeOK, WrittenAgrees
<1>11. RecordsOK'
  BY <1>2, <1>3, <1>5 DEF RecordsOK, RowsOK, MetaIInv
<1>12. MetaTypeOK'
  <2>1. \A s \in LiveRows' : rows'[s].id \in (1..(nextUuid - 1))' /\ rows'[s].meta \in Metas
    BY <1>2, <1>3, <1>5 DEF RowsOK, Row
  <2>2. \A s, u \in LiveRows' : rows'[s].id = rows'[u].id => s = u
    BY <1>3, <1>5 DEF RowsOK
  <2>3. \A c \in Running' : /\ stmt'[c].pairs \in Pairs /\ stmt'[c].what \in Doings
                            /\ stmt'[c].todo \cup Written(c)' \subseteq Logins
                            /\ \A e \in Running' \ {c} : Written(c)' \cap Written(e)' = {}
    BY <1>9 DEF MetaIInv, MetaTypeOK
  <2> QED BY <1>2, <1>3, <1>5, <1>7, <2>1, <2>2, <2>3 DEF MetaIInv, MetaTypeOK, RowsOK
<1>13. WrittenAgrees'
  BY <1>9, <1>10 DEF MetaIInv, WrittenAgrees
<1>14. WrittenDistinct'
  <2> SUFFICES ASSUME NEW c \in Running', NEW s \in Written(c)
               PROVE  /\ \A u \in LiveRows' \ ({s} \cup Written(c)) : ~Same(stmt[c].written[s], rows'[u].meta)
                      /\ \A e \in Running' : \A u \in Written(e) \ {s} :
                           ~Same(stmt[c].written[s], stmt[e].written[u])
    BY <1>9 DEF WrittenDistinct
  <2>1. \A e \in Running : \A u \in Written(e) \ {s} : ~Same(stmt[c].written[s], stmt[e].written[u])
    BY <1>9 DEF MetaIInv, WrittenDistinct
  <2>2. ASSUME NEW u \in LiveRows' \ ({s} \cup Written(c))
        PROVE  ~Same(stmt[c].written[s], rows'[u].meta)
    <3>1. CASE u \in W
      BY <1>1, <1>5, <2>1, <3>1
    <3>2. CASE u \notin W
      BY <1>5, <1>9, <3>2 DEF MetaIInv, WrittenDistinct
    <3> QED BY <3>1, <3>2
  <2> QED BY <1>9, <2>1, <2>2
<1>15. OneMatch'
  BY <1>9 DEF MetaIInv, OneMatch
<1>16. WritesExactlyMatches'
  <2>1. ASSUME NEW c \in Running' PROVE steady'[c] \subseteq steady[c]
    <3>1. stmt[c] # Finished /\ stmt'[c] # Finished /\ c \in Statements
      BY <1>9, <2>1 DEF Running
    <3> QED BY <3>1 DEF Remembered
  <2> QED BY <1>9, <1>13, <2>1 DEF MetaIInv, WritesExactlyMatches, WrittenAgrees
<1> QED BY <1>7, <1>8, <1>11, <1>12, <1>13, <1>14, <1>15, <1>16 DEF MetaIInv, NothingOverwritten

\* Every step preserves the invariant.
LEMMA MetaStepInv == MetaIInv /\ [MetaNext]_metaVars => MetaIInv'
<1> SUFFICES ASSUME MetaIInv, [MetaNext]_metaVars PROVE MetaIInv'
  OBVIOUS
<1>1. CASE MetaNext
  <2>1. Remembered
    BY <1>1 DEF MetaNext
  <2>2. ASSUME NEW s \in Logins, NEW meta \in Metas, create_auth_session(s, meta)
        PROVE  MetaIInv'
    BY <2>1, <2>2, CreateInv
  <2>3. ASSUME NEW t \in Tokens, TokenStep(t) PROVE MetaIInv'
    BY <2>1, <2>3, TokenInv
  <2>4. ASSUME NEW b \in Statements, StatementStep(b) PROVE MetaIInv'
    BY <2>1, <2>4, BeginInv, VisitInv, CommitInv, EndInv DEF StatementStep, Fail
  <2> QED BY <1>1, <2>2, <2>3, <2>4 DEF MetaNext, Metas
<1>2. CASE UNCHANGED metaVars
  BY <1>2 DEF metaVars, MetaIInv, MetaTypeOK, RecordsOK, IndexHolds, WrittenAgrees, WrittenDistinct,
              OneMatch, NothingOverwritten, WritesExactlyMatches, LiveRows, Running, Written
<1> QED BY <1>1, <1>2

\* The invariant holds in every reachable state.
LEMMA MetaInductiveInv == MetaSpec => []MetaIInv
  BY MetaInitInv, MetaStepInv, PTL DEF MetaSpec

---------------------------------------------------------------------------
\* Every variable has its type, ids are drawn once, and no row is locked twice.
THEOREM MetaTypeCorrect == MetaSpec => []MetaTypeOK
<1>1. MetaIInv => MetaTypeOK
  BY DEF MetaIInv
<1> QED BY <1>1, MetaInductiveInv, PTL

\* The meta of a session is what its operations made of it, in the order of their
\* commits: none of them is overwritten by another that did not see it.
THEOREM LostNoWrite == MetaSpec => []NothingOverwritten
<1>1. MetaIInv => NothingOverwritten
  BY DEF MetaIInv
<1> QED BY <1>1, MetaInductiveInv, PTL

\* A statement by pairs of meta writes rows that still match, and misses no row
\* that matches all along.
THEOREM ExactMatches == MetaSpec => []WritesExactlyMatches
<1>1. MetaIInv => WritesExactlyMatches
  BY DEF MetaIInv
<1> QED BY <1>1, MetaInductiveInv, PTL

\* A unique index holds whatever statements and operations race for a value, so a
\* statement by its keys finds at most one row, if only values of the same text
\* match those it asks for: JSON null, 1 beside 1.0, and a part of an object do not
\* have it so.
THEOREM AtMostOneMatch == MetaSpec => []UniqueMatch
<1>1. MetaIInv => UniqueMatch
  <2> SUFFICES ASSUME MetaIInv, NEW b \in Running,
                      ByIndex(stmt[b].pairs)
               PROVE  Cardinality(stmt[b].todo \cup Written(b)) <= 1
    BY DEF UniqueMatch
  <2> DEFINE S == stmt[b].todo \cup Written(b)
  <2>1. \A s, u \in S : s = u
    BY DEF MetaIInv, OneMatch
  <2>2. S = {} \/ \E s : S = {s}
    BY <2>1
  <2> HIDE DEF S
  <2>3. S = {} => Cardinality(S) = 0
    BY FS_EmptySet
  <2>4. ASSUME NEW s, S = {s} PROVE Cardinality(S) = 1
    <3>1. Cardinality({s}) = 1
      BY FS_Singleton
    <3> QED BY <2>4, <3>1
  <2>5. Cardinality(S) \in {0, 1}
    BY <2>2, <2>3, <2>4
  <2> QED BY <2>5 DEF S
<1> QED BY <1>1, MetaInductiveInv, PTL

\* No two sessions ever have the same texts, none of them SQL's NULL, under the keys
\* of a unique index.
THEOREM IndexKept == MetaSpec => []IndexHolds
<1>1. MetaIInv => IndexHolds
  BY DEF MetaIInv
<1> QED BY <1>1, MetaInductiveInv, PTL
=============================================================================
