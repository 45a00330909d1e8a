--------------------------- MODULE MCAuthMeta ---------------------------
(* Two sessions; a user's id and a server's tag, unique as a pair, each a value *)
(* with a text or JSON null.                                                    *)
EXTENDS AuthMeta, TLC

CONSTANTS s1, s2, h1, b1, b2, user_id, server_tag, v, null

MCUnique  == {{user_id, server_tag}}
MCText == [x \in Values |-> IF x = null THEN NULL ELSE x]
MCFits == {<<x, x>> : x \in Values}
Symmetric == Permutations(Logins) \cup Permutations(Statements) \cup Permutations(Keys)
==========================================================================
