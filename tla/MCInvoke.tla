------------------------------ MODULE MCInvoke ------------------------------
(***************************************************************************)
(* Instances of Invoke for TLC.                                            *)
(***************************************************************************)
EXTENDS Invoke

CONSTANTS a1, a2, k1, t1, d1, d2, c1, c2, c3, e1, s1

Paying(id, rail) ==
  [id |-> id, payer |-> d1, payee |-> d2, amount |-> 1, rail |-> rail]

Asks(agent, exec, token, pay) ==
  [agent |-> agent, key |-> k1, exec |-> exec, token |-> token, pay |-> pay]

(* One key asked by two agents: payments of points with and without a      *)
(* settlement id.                                                          *)
RetriedRequests ==
  {Asks(a1, None, None, Paying(s1, "luffa-points")),
   Asks(a2, None, None, Paying(None, "luffa-points"))}

(* Tokens, execution ids chosen and drawn, and chain payments.             *)
GuardedRequests ==
  {Asks(a1, e1, t1, Paying(s1, "chain")), Asks(a2, e1, None, None),
   Asks(a2, None, t1, None), Asks(a2, None, None, Paying(s1, "chain"))}

NoGrants == {}
TokenGrants == {<<t1, a1>>}
=============================================================================
