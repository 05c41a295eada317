---------------------------- MODULE MCSettlement ----------------------------
(***************************************************************************)
(* Instances of Settlement for TLC: the REST server "api" and the MCP      *)
(* server "mcp" on one database.                                           *)
(***************************************************************************)
EXTENDS Settlement

CONSTANTS a, b, s1, s2, t1, t2, c1, c2, api, mcp

(* One call in each server.                                                *)
OneEach == [c \in Call |-> IF c = c1 THEN api ELSE mcp]

Points(id, payer, payee, amount) ==
  [id |-> id, payer |-> payer, payee |-> payee, amount |-> amount,
   rail |-> "luffa-points", adapter |-> "missing", submit |-> "none", tx |-> t1]

OnChain(id, adapter, submit, tx) ==
  [id |-> id, payer |-> a, payee |-> b, amount |-> 1,
   rail |-> "chain", adapter |-> adapter, submit |-> submit, tx |-> tx]

(* Transfers that spend the same point, one to oneself, an amount that is  *)
(* not positive, and every way to a chain, competing for two ids.          *)
MixedInstructions ==
  {Points(s1, a, b, 1), Points(s2, a, b, 1), Points(s2, b, b, 1), Points(s2, a, b, 0),
   OnChain(s1, "live", "signed", t1), OnChain(s2, "live", "none", t2),
   OnChain(s2, "mock", "hash", t1), OnChain(s2, "missing", "none", t1)}

LiveInstructions == {OnChain(s1, "live", "signed", t1)}
=============================================================================
