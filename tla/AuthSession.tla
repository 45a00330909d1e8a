---------------------------- MODULE AuthSession ----------------------------
(***************************************************************************)
(* Auth sessions of saps: the table saps.auth_sessions, the stored         *)
(* procedure saps.ping(10, id) with its idle deletion, id rotation and     *)
(* grace period, the extractor run_auth_extraction that calls it, the      *)
(* CookieSlot layer that hands a rotated id to the browser, and the        *)
(* handler that logs out by the id it was given.  AuthMeta has the column  *)
(* meta of the same rows.                                                  *)
(*                                                                         *)
(* Each statement of saps.ping sees what was committed when it started     *)
(* (READ COMMITTED); NOW() is the time at which the call began.  At most   *)
(* one statement of a call writes, and it is the last one, so it is one    *)
(* step together with the commit: a writer that finds the row locked waits *)
(* and then checks its WHERE again, as a later step does.                  *)
(*                                                                         *)
(* A session is one login of one browser; ids are drawn in order, so 0 is  *)
(* no id.  Minutes and seconds are replaced by the three durations below.  *)
(***************************************************************************)
EXTENDS Naturals, FiniteSets

CONSTANTS
  Sessions,   \* logins, each of a browser with a cookie of its own
  Requests,   \* requests under way at the same time, of any browser
  GRACE,      \* "10 seconds": how long the previous id is accepted
  ROTATE,     \* "5 minutes": the age at which an id is replaced
  IDLE,       \* p_minutes: how long an untouched session lives
  EXPIRE,     \* TOKEN_EXPIRE_MINS
  PingTime,   \* bound on the duration of one call of saps.ping
  MaxTime,    \* bound on the clock
  MaxLost     \* bound on lost responses

ASSUME DurationsAssumption ==
  /\ {GRACE, ROTATE, IDLE, EXPIRE, PingTime, MaxTime, MaxLost} \subseteq Nat
  /\ GRACE + PingTime <= ROTATE
  /\ ROTATE < IDLE

VARIABLES
  now,            \* the clock
  auth_sessions,  \* the rows, by the login they belong to
  nextId,         \* the next value of gen_random_uuid()
  cookie,         \* what each browser holds: the JWT's unique_id and time_expire
  req,            \* the requests under way
  lost,           \* lost responses so far
  clean,          \* history: no lost response, no error in place of a rotated cookie,
                  \* never two requests at once
  lastSeen,       \* history: NOW() of the latest ping that was granted
  idled,          \* history: logins whose row a ping deleted
  out             \* history: logins whose logout was carried out

history == <<clean, lastSeen, idled, out>>
vars == <<now, auth_sessions, nextId, cookie, req, lost, history>>

NoId == 0
NoCookie == [id |-> NoId, expire |-> 0]
Cookie == [id : Nat, expire : Nat]
AuthSessionRow == [id : Nat, old_id : Nat, date_created : Nat, last_interacted : Nat,
                   time_minted : Nat]

\* "sent": on its way to ping or read; "select", "update": within saps.ping;
\* "handle": in the handler with its token; "reply": response on its way.
Stops == {"idle", "sent", "select", "update", "handle", "reply"}
Kinds == {"auto", "never"}
\* "unauthorized": "session not present"; "error": any other error response, be it
\* of an expired JWT, the role check, the database or the handler.
Results == {"none", "ok", "unauthorized", "error"}
Idle == [pc |-> "idle"]
Request == [pc : Stops \ {"idle"}, session : Sessions, kind : Kinds, token : Cookie,
            ts : Nat, plan : {"none", "touch", "rotate"}, key : Nat, unique_id : Nat,
            slot : Cookie, result : Results, graced : BOOLEAN]

TypeOK ==
  /\ now \in 0..MaxTime
  /\ DOMAIN auth_sessions \subseteq Sessions
  /\ \A s \in DOMAIN auth_sessions : auth_sessions[s] \in AuthSessionRow
  /\ nextId \in Nat \ {NoId}
  /\ cookie \in [Sessions -> Cookie]
  /\ req \in [Requests -> {Idle} \cup Request]
  /\ lost \in 0..MaxLost
  /\ clean \in [Sessions -> BOOLEAN]
  /\ lastSeen \in [Sessions -> Nat]
  /\ idled \subseteq Sessions /\ out \subseteq Sessions

---------------------------------------------------------------------------
(* Helpers *)

Live == DOMAIN auth_sessions

\* Faulty: the UPDATE of a ping finds the row by its previous id as well.
ByIdOrOld(p) == {s \in Live : p \in {auth_sessions[s].id, auth_sessions[s].old_id}}

\* WHERE id = p, and WHERE id = p OR old_id = p
ById(p)  == {s \in Live : auth_sessions[s].id = p}
ByAnyId(p) == {s \in Live : p \in {auth_sessions[s].id, auth_sessions[s].old_id}}

\* The request goes on with some of its fields changed; fields that no later
\* step of it reads are cleared.
Set(r, rec) == req' = [req EXCEPT ![r] = rec]
Answer(r, result) ==
  Set(r, [req[r] EXCEPT !.pc = "reply", !.result = result, !.token = NoCookie, !.ts = 0,
          !.plan = "none", !.key = NoId, !.unique_id = NoId,
          !.graced = @ /\ result = "unauthorized"])
Refuse(r) == Answer(r, "unauthorized")

\* The extractor has a session: a row whose id is not the JWT's gets a new JWT,
\* put into the CookieSlot.  The handler works with the row's id.
Grant(r, row) ==
  Set(r, [req[r] EXCEPT !.pc = "handle", !.unique_id = row.id,
          !.token = NoCookie, !.ts = 0, !.plan = "none", !.key = NoId, !.graced = FALSE,
          !.slot = IF row.id # req[r].token.id
                   THEN [id |-> row.id, expire |-> now + EXPIRE] ELSE NoCookie])

Seen(s, ts) == lastSeen' = [lastSeen EXCEPT ![s] = IF ts > @ THEN ts ELSE @]

Init ==
  /\ now = 0 /\ nextId = 1 /\ lost = 0
  /\ auth_sessions = [s \in {} |-> 0]
  /\ cookie = [s \in Sessions |-> NoCookie]
  /\ req = [r \in Requests |-> Idle]
  /\ clean = [s \in Sessions |-> TRUE]
  /\ lastSeen = [s \in Sessions |-> 0]
  /\ idled = {} /\ out = {}

---------------------------------------------------------------------------
(* The browser *)

InPing(r) == req[r].pc \in {"select", "update"}

Tick ==
  /\ now < MaxTime
  /\ \A r \in Requests : InPing(r) => now < req[r].ts + PingTime
  /\ now' = now + 1
  /\ UNCHANGED <<auth_sessions, nextId, cookie, req, lost, history>>

\* AuthSession::new and create_auth_session; the cookie reaches the browser.
Login(s) ==
  /\ cookie[s] = NoCookie
  /\ auth_sessions' = [u \in Live \cup {s} |->
        IF u = s THEN [id |-> nextId, old_id |-> nextId, date_created |-> now,
                       last_interacted |-> now, time_minted |-> now]
        ELSE auth_sessions[u]]
  /\ nextId' = nextId + 1
  /\ cookie' = [cookie EXCEPT ![s] = [id |-> nextId, expire |-> now + EXPIRE]]
  /\ lastSeen' = [lastSeen EXCEPT ![s] = now]
  /\ UNCHANGED <<now, req, lost, clean, idled, out>>

Send(r, s, kind) ==
  /\ req[r] = Idle
  /\ cookie[s] # NoCookie
  /\ Set(r, [pc |-> "sent", session |-> s, kind |-> kind, token |-> cookie[s], ts |-> 0,
             plan |-> "none", key |-> NoId, unique_id |-> NoId,
             slot |-> NoCookie, result |-> "none", graced |-> FALSE])
  /\ clean' = [clean EXCEPT ![s] = @ /\ \A q \in Requests : req[q] = Idle \/ req[q].session # s]
  /\ UNCHANGED <<now, auth_sessions, nextId, cookie, lost, lastSeen, idled, out>>

\* Faulty: only a successful response carries the refreshed cookie.
DeliverOnSuccess(r) ==
  /\ req[r].pc = "reply"
  /\ cookie' = [cookie EXCEPT ![req[r].session] =
        IF req[r].slot # NoCookie /\ req[r].result = "ok" THEN req[r].slot ELSE @]
  /\ Set(r, Idle)
  /\ UNCHANGED <<now, auth_sessions, nextId, lost, history>>

\* Faulty: the slot outlives its request.
DeliverKeepsSlot(r) ==
  /\ req[r].pc = "reply"
  /\ cookie' = [cookie EXCEPT ![req[r].session] =
        IF req[r].slot # NoCookie THEN req[r].slot ELSE @]
  /\ Set(r, [pc |-> "idle", slot |-> req[r].slot])
  /\ UNCHANGED <<now, auth_sessions, nextId, lost, history>>

\* attach_refreshed_cookie sets the cookie on any response, a refusal included.
Deliver(r) ==
  /\ req[r].pc = "reply"
  /\ cookie' = [cookie EXCEPT ![req[r].session] =
                  IF req[r].slot # NoCookie THEN req[r].slot ELSE @]
  /\ Set(r, Idle)
  /\ UNCHANGED <<now, auth_sessions, nextId, lost, history>>

LoseReply(r) ==
  /\ req[r].pc = "reply"
  /\ lost < MaxLost /\ lost' = lost + 1
  /\ clean' = [clean EXCEPT ![req[r].session] = FALSE]
  /\ Set(r, Idle)
  /\ UNCHANGED <<now, auth_sessions, nextId, cookie, lastSeen, idled, out>>

---------------------------------------------------------------------------
(* saps.ping, statement by statement *)

\* Faulty: the age of the id decides, not the last interaction.
PingDeleteByAge(r) ==
  LET p == req[r].token.id
      stale == {s \in ByAnyId(p) : auth_sessions[s].date_created + IDLE < now}
  IN  /\ req[r].pc = "sent" /\ req[r].kind = "auto"
      /\ IF stale # {}
         THEN /\ auth_sessions' = [s \in Live \ stale |-> auth_sessions[s]]
              /\ idled' = idled \cup stale
              /\ Refuse(r)
         ELSE /\ UNCHANGED <<auth_sessions, idled>>
              /\ Set(r, [req[r] EXCEPT !.pc = "select", !.ts = now])
  /\ UNCHANGED <<now, nextId, cookie, lost, clean, lastSeen, out>>

\* DELETE ... WHERE (id = p OR old_id = p) AND last_interacted < NOW() - p_minutes
PingDelete(r) ==
  LET p == req[r].token.id
      stale == {s \in ByAnyId(p) : auth_sessions[s].last_interacted + IDLE < now}
  IN  /\ req[r].pc = "sent" /\ req[r].kind = "auto"
      /\ IF stale # {}
         THEN /\ auth_sessions' = [s \in Live \ stale |-> auth_sessions[s]]
              /\ idled' = idled \cup stale
              /\ Refuse(r) \/ Answer(r, "error")
         ELSE /\ UNCHANGED <<auth_sessions, idled>>
              /\ Set(r, [req[r] EXCEPT !.pc = "select", !.ts = now,
                   !.graced = \E s \in ByAnyId(p) :
                      /\ auth_sessions[s].id # p
                      /\ now <= auth_sessions[s].time_minted + GRACE])
  /\ UNCHANGED <<now, nextId, cookie, lost, clean, lastSeen, out>>

\* Faulty: a caller with the previous id touches the row by that id.
PingSelectByOldId(r) ==
  LET p == req[r].token.id
      ts == req[r].ts
      go(plan) == Set(r, [req[r] EXCEPT !.pc = "update", !.plan = plan, !.key = p])
  IN  /\ req[r].pc = "select"
      /\ \/ ByAnyId(p) = {} /\ Refuse(r)
         \/ \E s \in ByAnyId(p) :
              LET row == auth_sessions[s]
              IN  IF row.id # p
                  THEN IF row.time_minted + GRACE < ts THEN Refuse(r) ELSE go("touch")
                  ELSE IF row.date_created + ROTATE < ts THEN go("rotate") ELSE go("touch")
      /\ UNCHANGED <<now, auth_sessions, nextId, cookie, lost, history>>

\* SELECT INTO session_record, and the branch it decides: the previous id is
\* good during the grace period and touches the row by the row's own id; the
\* current id rotates or touches it by p.
PingSelect(r) ==
  LET p == req[r].token.id
      ts == req[r].ts
      go(plan, key) == Set(r, [req[r] EXCEPT !.pc = "update", !.plan = plan, !.key = key])
  IN  /\ req[r].pc = "select"
      /\ \/ ByAnyId(p) = {} /\ Refuse(r)
         \/ \E s \in ByAnyId(p) :
              LET row == auth_sessions[s]
              IN  IF row.id # p
                  THEN IF row.time_minted + GRACE < ts THEN Refuse(r)
                                                       ELSE go("touch", row.id)
                  ELSE IF row.date_created + ROTATE < ts THEN go("rotate", p)
                                                         ELSE go("touch", p)
      /\ UNCHANGED <<now, auth_sessions, nextId, cookie, lost, history>>

Rotated(row, ts) ==
  [row EXCEPT !.old_id = row.id, !.id = nextId, !.date_created = ts,
              !.last_interacted = ts, !.time_minted = ts]

\* UPDATE ... WHERE id = key RETURNING *.  No row with that id any more means
\* a NULL record, which ping_auth_session turns into None.  After the commit the
\* call can still fail: its reply is lost, the row is not understood (from_row),
\* or the rotated id gets no token (TOKEN_EXPIRE_MINS, encode).  The answer is
\* then an error, and the CookieSlot stays empty.
PingUpdate(r) ==
  LET d == req[r]
  IN  /\ d.pc = "update"
      /\ \/ /\ ById(d.key) = {}
            /\ Refuse(r)
            /\ UNCHANGED <<auth_sessions, nextId, clean, lastSeen>>
         \/ \E s \in ById(d.key) :
              LET row == IF d.plan = "rotate" THEN Rotated(auth_sessions[s], d.ts)
                         ELSE [auth_sessions[s] EXCEPT !.last_interacted = d.ts]
              IN  /\ auth_sessions' = [auth_sessions EXCEPT ![s] = row]
                  /\ nextId' = IF d.plan = "rotate" THEN nextId + 1 ELSE nextId
                  /\ \/ Grant(r, row) /\ UNCHANGED clean
                     \/ /\ Answer(r, "error")
                        /\ clean' = [clean EXCEPT ![s] = @ /\ d.plan # "rotate"]
                  /\ Seen(s, d.ts)
      /\ UNCHANGED <<now, cookie, lost, idled, out>>

\* A database error ends the extraction, and rolls back what the call did.
ExtractionFails(r) ==
  /\ req[r].pc \in {"sent", "select", "update"}
  /\ Answer(r, "error")
  /\ UNCHANGED <<now, auth_sessions, nextId, cookie, lost, history>>

\* RefreshMode::Never: the JWT's own expiry, then a plain lookup by id.
ReadSession(r) ==
  LET d == req[r]
  IN  /\ d.pc = "sent" /\ d.kind = "never"
      /\ \/ /\ now > d.token.expire
            /\ Answer(r, "error")
         \/ /\ now <= d.token.expire
            /\ \/ ById(d.token.id) = {} /\ Refuse(r)
               \/ \E s \in ById(d.token.id) : Grant(r, auth_sessions[s])
      /\ UNCHANGED <<now, auth_sessions, nextId, cookie, lost, history>>

---------------------------------------------------------------------------
(* After the extractor *)

\* check_user_role refuses, or the handler answers, be it with an error, and
\* does not touch the session.
Handle(r, result) ==
  /\ req[r].pc = "handle"
  /\ Answer(r, result)
  /\ UNCHANGED <<now, auth_sessions, nextId, cookie, lost, history>>

\* logout_handler: delete by the token's unique_id; whether there was such a
\* row or not, the answer is 200, unless the reply to the deletion is lost.
Logout(r) ==
  /\ req[r].pc = "handle"
  /\ auth_sessions' = [s \in Live \ ById(req[r].unique_id) |-> auth_sessions[s]]
  /\ out' = out \cup {req[r].session}
  /\ Answer(r, "ok") \/ Answer(r, "error")
  /\ UNCHANGED <<now, nextId, cookie, lost, clean, lastSeen, idled>>

---------------------------------------------------------------------------
Ping(r) == PingDelete(r) \/ PingSelect(r) \/ PingUpdate(r)

Next ==
  \/ Tick
  \/ \E s \in Sessions : Login(s)
  \/ \E r \in Requests :
       \/ \E s \in Sessions, kind \in Kinds : Send(r, s, kind)
       \/ Ping(r) \/ ReadSession(r) \/ ExtractionFails(r)
       \/ \E result \in {"ok", "error"} : Handle(r, result)
       \/ Logout(r)
       \/ Deliver(r) \/ LoseReply(r)

Spec == Init /\ [][Next]_vars

---------------------------------------------------------------------------
(* Properties *)

Refused(r) == req[r].pc = "reply" /\ req[r].result = "unauthorized"

\* Rotation of the id is invisible to a browser that sends one request after the
\* other, gets every response, and gets no error in place of a rotated cookie:
\* it is never refused before its session was idle too long or logged out.
StaysSignedIn ==
  \A r \in Requests : Refused(r) /\ clean[req[r].session] =>
    req[r].session \in idled \cup out

\* Idleness, and nothing else but a logout, ends a session: saps.ping deletes
\* it only when no ping of it was granted during the last IDLE, up to the
\* duration of a call, whose UPDATE may set last_interacted back; and a session
\* that was idle for longer is not revived by a slow ping.
EvictedWhenIdle ==
  [][\A s \in Live :
       IF s \in DOMAIN auth_sessions'
       THEN auth_sessions'[s].last_interacted <= auth_sessions[s].last_interacted + IDLE
       ELSE s \in out' \/ now + PingTime > lastSeen[s] + IDLE]_vars

\* The id of a session is replaced at most once per ROTATE, however many pings
\* found it due for rotation, and the replaced id becomes old_id.
RotationsSpaced ==
  [][\A s \in Live \cap DOMAIN auth_sessions' :
       auth_sessions'[s].id # auth_sessions[s].id =>
         /\ auth_sessions'[s].old_id = auth_sessions[s].id
         /\ auth_sessions'[s].time_minted > auth_sessions[s].time_minted + ROTATE]_vars

\* A ping that arrives with the previous id within GRACE of the rotation is not
\* refused, whatever other pings do meanwhile, as long as the row is there.
GraceKept ==
  \A r \in Requests : Refused(r) /\ req[r].graced =>
    req[r].session \notin Live
==========================================================================
