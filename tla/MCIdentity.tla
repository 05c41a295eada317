----------------------------- MODULE MCIdentity -----------------------------
(***************************************************************************)
(* Instances of Identity for TLC: calls on two servers about one agent,    *)
(* who may be registered or not.                                           *)
(***************************************************************************)
EXTENDS Identity

CONSTANTS a1, f1, f2, c1, c2, c3, api, mcp

TwoServers == [c \in Call |-> IF c = c2 THEN mcp ELSE api]

(* The key of the agent, and one that the first server published.          *)
TwoKeys == {a1, <<api, 1>>}

(* Calls of one server are interchangeable, and so are fields.             *)
Alike == Permutations({c1, c3}) \cup Permutations(Field)
=============================================================================
