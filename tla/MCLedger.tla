------------------------------ MODULE MCLedger ------------------------------
(***************************************************************************)
(* Instances of ExecutionLedger for TLC: two writers on each server.  Ids  *)
(* are random, so that with one instant too a row may sort before or after *)
(* any row that was inserted earlier.                                      *)
(***************************************************************************)
EXTENDS ExecutionLedger

CONSTANTS api, mcp, w1, w2, w3, w4

TwoServers == [c \in Writer |-> IF c \in {w1, w3} THEN api ELSE mcp]

(* Writers of one server are interchangeable.                              *)
Writers == Permutations({w1, w3}) \cup Permutations({w2, w4})
=============================================================================
