----------------------------- MODULE MCLearning -----------------------------
(***************************************************************************)
(* Instances of Learning for TLC: two executions of one agent and one of   *)
(* another, rated by calls on two servers.                                 *)
(***************************************************************************)
EXTENDS Learning

CONSTANTS a1, a2, e1, e2, e3, c1, c2, c3, c4, api, mcp

Agents == [e \in Execution |-> IF e = e3 THEN a2 ELSE a1]
TwoServers == [c \in Call |-> IF c \in {c1, c3} THEN api ELSE mcp]

(* Calls of one server are interchangeable.                                *)
Calls == Permutations({c1, c3} \cap Call) \cup Permutations({c2, c4} \cap Call)

(* Low, high, and out of range.                                            *)
GivenScores == {-1, 4, 6}
=============================================================================
