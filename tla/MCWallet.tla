------------------------------ MODULE MCWallet ------------------------------
(***************************************************************************)
(* Instances of Wallet for TLC: two owners who want the same address.      *)
(***************************************************************************)
EXTENDS Wallet

CONSTANTS o1, o2, w1, w2, c1, c2, c3, c4, api, mcp

OneServer == [c \in Call |-> api]
TwoServers == [c \in Call |-> IF c \in {c1, c3} THEN api ELSE mcp]
=============================================================================
