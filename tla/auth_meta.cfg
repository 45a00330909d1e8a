SPECIFICATION MetaSpec
CONSTANTS
  s1 = s1
  s2 = s2
  h1 = h1
  b1 = b1
  b2 = b2
  user_id = user_id
  server_tag = server_tag
  v = v
  null = null
  NULL = NULL
  Gone = Gone
  Logins = {s1, s2}
  Tokens = {h1}
  Statements = {b1, b2}
  Keys = {user_id, server_tag}
  Values = {v, null}
  Text <- MCText
  Fits <- MCFits
  Equal <- MCFits
  Unique <- MCUnique
  MaxIds = 2
  MaxCalls = 2
SYMMETRY Symmetric
INVARIANTS MetaTypeOK NothingOverwritten WritesExactlyMatches UniqueMatch
CHECK_DEADLOCK FALSE
