---------------------------- MODULE AuthMeta ----------------------------
(***************************************************************************)
(* The meta column of saps.auth_sessions: the operations a handler's token *)
(* performs on the row of its session, and the statements that update or   *)
(* delete every row whose meta contains given pairs, with unique indexes   *)
(* on keys of meta, while other requests rotate the ids.                   *)
(*                                                                         *)
(* A statement on one row is one step: it waits for the row's lock and     *)
(* evaluates its WHERE on what it finds then.  A statement on many rows    *)
(* chooses them when it begins, locks them one by one, evaluates its WHERE *)
(* again on each, and commits.  A write that meets an uncommitted one of   *)
(* the same unique value waits for it.                                     *)
(*                                                                         *)
(* meta is SQL's NULL or an object, a function on some keys.               *)
(***************************************************************************)
EXTENDS Naturals, FiniteSets

CONSTANTS
  Logins,      \* logins
  Tokens,      \* HeaderTokens of the requests under way
  Statements,  \* statements on many rows under way
  Keys,
  Values,      \* JSON values
  Text,        \* what ->> makes of a value; SQL's NULL of JSON null
  Fits, Equal, \* the pairs of values of which the first @> the second, or = it
  NULL,
  Gone,        \* in place of the meta of a deleted row
  Unique,      \* the sets of keys that have a unique index
  MaxIds,      \* bound on the ids drawn
  MaxCalls     \* bound on the operations

ASSUME MetaAssumption ==
  /\ Unique \subseteq SUBSET Keys
  /\ DOMAIN Text = Values
  /\ Equal \subseteq Fits /\ Fits \subseteq Values \X Values
  /\ MaxIds \in Nat /\ MaxCalls \in Nat
  /\ (Tokens \cup Logins) \cap Statements = {}

VARIABLES
  rows,     \* committed rows: [id, meta] per session
  nextUuid,
  token,    \* token[t]: the session and id it was extracted with, the cached meta
  stmt,     \* statements under way: what they match and do, rows to visit and written
  calls,    \* operations so far
  ledger,   \* history: meta as the operations, in order of their commits, make it
  steady    \* history: rows that have matched a statement ever since it began

metaVars == <<rows, nextUuid, token, stmt, calls, ledger, steady>>

LiveRows == DOMAIN rows
Objects == UNION {[D -> Values] : D \in SUBSET Keys}
NoToken == [unique_id |-> 0]
Finished == [op |-> "none"]

Running == {b \in Statements : stmt[b] # Finished}
Written(b) == IF b \in Running THEN DOMAIN stmt[b].written ELSE {}
Locked(s) == \E b \in Running : s \in Written(b)

-----------------------------------------------------------------------------
(* What the statements compute *)

\* meta @> jsonb_build_object(...)
Contains(meta, pairs) ==
  /\ meta \notin {NULL, Gone} /\ DOMAIN pairs \subseteq DOMAIN meta
  /\ \A k \in DOMAIN pairs : <<meta[k], pairs[k]>> \in Fits

\* jsonb_set(COALESCE(meta, '{}'), ARRAY[k], v, true)
jsonb_set(meta, k, v) ==
  [j \in {k} \cup IF meta = NULL THEN {} ELSE DOMAIN meta |-> IF j = k THEN v ELSE meta[j]]

\* meta - k
Minus(meta, k) == IF meta = NULL THEN NULL ELSE [j \in DOMAIN meta \ {k} |-> meta[j]]

\* Faulty: CREATE INDEX.
SameNever(m, n) == FALSE

\* Two rows that a unique index does not allow: it is on the texts meta->>'k' of
\* its keys.  Rows that lack one of them are not in it, and a NULL is no duplicate.
Same(m, n) ==
  {m, n} \cap {NULL, Gone} = {} /\
  \E U \in Unique : /\ U \subseteq DOMAIN m \cap DOMAIN n
                    /\ \A k \in U : Text[m[k]] = Text[n[k]] /\ Text[m[k]] # NULL

\* Row s is to get `meta` from statement b, or from an operation of a token.
MustWait(b, s, meta) ==
  \E c \in Running \ {b} : \E u \in Written(c) \ {s} :
    Same(meta, stmt[c].written[u]) \/ Same(meta, rows[u].meta)

Collides(b, s, meta) ==
  \E u \in LiveRows \ {s} :
    Same(meta, IF u \in Written(b) THEN stmt[b].written[u] ELSE rows[u].meta)

-----------------------------------------------------------------------------
(* Requests and their tokens *)

Called == calls < MaxCalls /\ calls' = calls + 1

\* Faulty: every session is made from the same one.
SameId == 1

NewId == nextUuid

\* A login with meta; the index may refuse it.
create_auth_session(s, meta) ==
  /\ s \notin LiveRows /\ nextUuid <= MaxIds
  /\ ~MustWait(s, s, meta) /\ ~Collides(s, s, meta)
  /\ rows' = [u \in LiveRows \cup {s} |-> IF u = s THEN [id |-> NewId, meta |-> meta]
                                          ELSE rows[u]]
  /\ ledger' = [ledger EXCEPT ![s] = meta]
  /\ nextUuid' = nextUuid + 1
  /\ UNCHANGED <<token, stmt, calls>>

\* The extractor of a request: saps.ping, which locks the row when it rotates
\* the id, or the plain read of RefreshMode::Never.
Extract(t, s) ==
  /\ s \in LiveRows
  /\ \E rotate \in BOOLEAN :
       LET id == IF rotate THEN nextUuid ELSE rows[s].id
       IN /\ rotate => nextUuid <= MaxIds /\ ~Locked(s)
          /\ nextUuid' = IF rotate THEN nextUuid + 1 ELSE nextUuid
          /\ rows' = [rows EXCEPT ![s].id = id]
          /\ token' = [token EXCEPT ![t] = [session |-> s, unique_id |-> id,
                                            meta |-> rows[s].meta]]
  /\ UNCHANGED <<stmt, calls, ledger>>

\* WHERE id = unique_id: no row once the id was rotated, or the row deleted.
Hit(t) == {s \in LiveRows : rows[s].id = token[t].unique_id}

\* The row gets `meta`, recorded as `entry`, and the token caches it, unless a
\* unique index refuses.
Put(t, s, meta, entry) ==
  /\ ~Locked(s) /\ ~MustWait(t, s, meta)
  /\ IF Collides(t, s, meta) THEN UNCHANGED <<rows, ledger, token>>
     ELSE /\ rows' = [rows EXCEPT ![s].meta = meta]
          /\ ledger' = [ledger EXCEPT ![s] = entry]
          /\ token' = [token EXCEPT ![t].meta = meta]
  /\ Called /\ UNCHANGED <<nextUuid, stmt>>

\* Without a row the token's cached meta is set all the same.
update_auth_session_meta(t, meta) ==
  \/ /\ Hit(t) = {} /\ token[t] # NoToken
     /\ token' = [token EXCEPT ![t].meta = meta]
     /\ Called /\ UNCHANGED <<rows, nextUuid, stmt, ledger>>
  \/ \E s \in Hit(t) : Put(t, s, meta, meta)

\* Faulty: the whole object is written, made of the one the token has cached.
upsert_cached(t, k, v) ==
  \E s \in Hit(t) : Put(t, s, jsonb_set(token[t].meta, k, v), jsonb_set(ledger[s], k, v))

\* The operations on one key do nothing when there is no row.
upsert_auth_session_meta_key(t, k, v) ==
  \E s \in Hit(t) : Put(t, s, jsonb_set(rows[s].meta, k, v), jsonb_set(ledger[s], k, v))

compare_and_swap_auth_session_meta(t, k, expected, v) ==
  \E s \in Hit(t) : /\ rows[s].meta # NULL /\ k \in DOMAIN rows[s].meta
                    /\ <<rows[s].meta[k], expected>> \in Equal
                    /\ Put(t, s, jsonb_set(rows[s].meta, k, v), jsonb_set(ledger[s], k, v))

delete_auth_session_meta_key(t, k) ==
  \E s \in Hit(t) : Put(t, s, Minus(rows[s].meta, k), Minus(ledger[s], k))

refresh_auth_session(t) ==
  /\ \E s \in Hit(t) : token' = [token EXCEPT ![t].meta = rows[s].meta]
  /\ UNCHANGED <<rows, nextUuid, stmt, calls, ledger>>

delete_auth_session(t) ==
  /\ \E s \in Hit(t) : /\ ~Locked(s)
                       /\ rows' = [u \in LiveRows \ {s} |-> rows[u]]
                       /\ ledger' = [ledger EXCEPT ![s] = Gone]
  /\ Called /\ UNCHANGED <<nextUuid, token, stmt>>

-----------------------------------------------------------------------------
(* Statements on many rows *)

\* One or two pairs to match, and what is done to the matching rows.
Pairs == UNION {[D -> Values] : D \in {E \in SUBSET Keys : Cardinality(E) \in {1, 2}}}
Doings == {[op |-> "delete"]} \cup [op : {"upsert"}, key : Keys, value : Values]

Does(what, meta) ==
  IF what.op = "delete" THEN Gone ELSE jsonb_set(meta, what.key, what.value)

\* upsert_auth_sessions_meta_key_by_meta(_key_pair), delete_auth_sessions_by_meta_key(_pair)
BeginStatement(b, pairs, what) ==
  /\ stmt[b] = Finished
  /\ stmt' = [stmt EXCEPT ![b] = [op |-> what.op, what |-> what, pairs |-> pairs,
                                 written |-> << >>,
                                 todo |-> {s \in LiveRows : Contains(rows[s].meta, pairs)}]]
  /\ Called /\ UNCHANGED <<rows, nextUuid, token, ledger>>

Lock(b, s, meta) ==
  stmt' = [stmt EXCEPT ![b].todo = @ \ {s},
                       ![b].written = [u \in Written(b) \cup {s} |->
                                         IF u = s THEN meta ELSE stmt[b].written[u]]]

\* Faulty: a row that matched when the statement began is taken to match.
MatchedOnce(b, s) == s \in LiveRows

Matches(b, s) == s \in LiveRows /\ Contains(rows[s].meta, stmt[b].pairs)

\* Faulty: SKIP LOCKED.
PassedLocked(b, s) == Locked(s) \/ ~Matches(b, s)

\* A row that was deleted, or no longer matches when it can be locked, is left
\* alone.
Passed(b, s) == ~Locked(s) /\ ~Matches(b, s)

\* A unique index that refuses ends the statement, and nothing of it remains.
Visit(b, s) ==
  /\ b \in Running /\ s \in stmt[b].todo
  /\ \/ Passed(b, s) /\ stmt' = [stmt EXCEPT ![b].todo = @ \ {s}]
     \/ /\ ~Locked(s) /\ Matches(b, s)
        /\ LET meta == Does(stmt[b].what, rows[s].meta)
           IN /\ ~MustWait(b, s, meta)
              /\ IF Collides(b, s, meta) THEN stmt' = [stmt EXCEPT ![b] = Finished]
                 ELSE Lock(b, s, meta)
  /\ UNCHANGED <<rows, nextUuid, token, calls, ledger>>

Commit(b) ==
  /\ b \in Running /\ stmt[b].todo = {}
  /\ LET new == stmt[b].written
     IN rows' = [s \in {u \in LiveRows : u \notin Written(b) \/ new[u] # Gone} |->
                   IF s \in Written(b) THEN [rows[s] EXCEPT !.meta = new[s]] ELSE rows[s]]
  /\ ledger' = [s \in Logins |-> IF s \in Written(b) THEN Does(stmt[b].what, ledger[s])
                                 ELSE ledger[s]]
  /\ stmt' = [stmt EXCEPT ![b] = Finished]
  /\ UNCHANGED <<nextUuid, token, calls>>

\* The connection is lost, or the statement is chosen to end a deadlock: it is
\* rolled back.
Fail(b) ==
  /\ b \in Running
  /\ stmt' = [stmt EXCEPT ![b] = Finished]
  /\ UNCHANGED <<rows, nextUuid, token, calls, ledger>>

-----------------------------------------------------------------------------
MetaInit ==
  /\ rows = [s \in {} |-> NULL] /\ nextUuid = 1
  /\ token = [t \in Tokens |-> NoToken]
  /\ stmt = [b \in Statements |-> Finished]
  /\ calls = 0
  /\ ledger = [s \in Logins |-> Gone]
  /\ steady = [b \in Statements |-> {}]

TokenStep(t) ==
  \/ \E s \in Logins : Extract(t, s)
  \/ \E meta \in Objects : update_auth_session_meta(t, meta)
  \/ \E k \in Keys, v \in Values :
       \/ upsert_auth_session_meta_key(t, k, v)
       \/ \E expected \in Values : compare_and_swap_auth_session_meta(t, k, expected, v)
  \/ \E k \in Keys : delete_auth_session_meta_key(t, k)
  \/ refresh_auth_session(t)
  \/ delete_auth_session(t)

StatementStep(b) ==
  \/ \E pairs \in Pairs, what \in Doings : BeginStatement(b, pairs, what)
  \/ \E s \in Logins : Visit(b, s)
  \/ Commit(b) \/ Fail(b)

Remembered ==
  steady' = [b \in Statements |->
     IF stmt'[b] = Finished THEN {}
     ELSE IF stmt[b] = Finished THEN stmt'[b].todo
     ELSE {s \in steady[b] \cap LiveRows' : Contains(rows'[s].meta, stmt[b].pairs)}]

MetaNext ==
  /\ \/ \E s \in Logins, meta \in Objects \cup {NULL} : create_auth_session(s, meta)
     \/ \E t \in Tokens : TokenStep(t)
     \/ \E b \in Statements : StatementStep(b)
  /\ Remembered

MetaSpec == MetaInit /\ [][MetaNext]_metaVars

-----------------------------------------------------------------------------
(* Properties *)

Metas == Objects \cup {NULL}

\* Every variable has its type, ids are drawn once, and no row is locked twice.
MetaTypeOK ==
  /\ LiveRows \subseteq Logins
  /\ \A s \in LiveRows : rows[s].id \in 1..(nextUuid - 1) /\ rows[s].meta \in Metas
  /\ \A s, u \in LiveRows : rows[s].id = rows[u].id => s = u
  /\ nextUuid \in 1..(MaxIds + 1) /\ calls \in 0..MaxCalls
  /\ \A t \in Tokens : token[t] # NoToken => token[t].session \in Logins
                                             /\ token[t].meta \in Metas
  /\ \A b \in Running : /\ stmt[b].pairs \in Pairs /\ stmt[b].what \in Doings
                        /\ stmt[b].todo \cup Written(b) \subseteq Logins
                        /\ \A c \in Running \ {b} : Written(b) \cap Written(c) = {}
  /\ ledger \in [Logins -> Metas \cup {Gone}]

\* The meta of a session is what its operations made of it one after the other:
\* writers of different keys, of one row or of many, never lose each other's.
NothingOverwritten == \A s \in LiveRows : rows[s].meta = ledger[s]

\* A statement by pairs of meta changes or deletes only rows that still match
\* when it does, so a session whose meta was changed in time is spared; and it
\* does not miss a session that matches all along, whatever the other requests
\* do to the row meanwhile.
WritesExactlyMatches ==
  \A b \in Running :
    /\ \A s \in Written(b) : s \in LiveRows /\ Contains(rows[s].meta, stmt[b].pairs)
    /\ steady[b] \subseteq stmt[b].todo \cup Written(b)

\* A value that only values of its own text match.  Not so JSON null, which has no
\* text, 1, which 1.0 matches, or an object, which one with more members matches.
Exact(v) == Text[v] # NULL /\ \A w \in Values : <<w, v>> \in Fits => Text[w] = Text[v]

\* The pairs name the keys of a unique index, with such values.
ByIndex(pairs) ==
  \E U \in Unique : U \subseteq DOMAIN pairs /\ \A k \in U : Exact(pairs[k])

\* "Guarantees the return value is 0 or 1": matching the keys of a unique index, a
\* statement finds one row at most, if the texts the index compares tell the values
\* it asks for apart as @> does.
UniqueMatch ==
  \A b \in Running :
    ByIndex(stmt[b].pairs) => Cardinality(stmt[b].todo \cup Written(b)) <= 1
==========================================================================
