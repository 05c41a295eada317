---------------------------- MODULE MCPermission ----------------------------
(***************************************************************************)
(* Instances of Permission for TLC: one owner, two agents, and policies    *)
(* that overlap in every way Verdict distinguishes.                        *)
(***************************************************************************)
EXTENDS Permission

CONSTANTS o, a1, a2, c1, c2, c3, api, mcp, read, pay, normal, confirm, usdc, eth, base

Owners == [a \in Agent |-> o]
SameServer == [c \in Call |-> api]
OneEach == [c \in Call |-> IF c = c1 THEN api ELSE mcp]

(* Calls of one server are interchangeable.                                *)
Calls == Permutations(Call)

Open(priority, born) ==
  [owner |-> o, priority |-> priority, born |-> born,
   allowed |-> {read}, denied |-> {}, contexts |-> {normal, confirm},
   perAction |-> None, total |-> None, threshold |-> None,
   assets |-> None, chains |-> None, confirm |-> FALSE]

(* A total cap on everything; a denial of lowest rank in one context; two  *)
(* policies of equal priority told apart by age; a stricter one above.     *)
Policies ==
  {[Open(1, 1) EXCEPT !.allowed = {read, pay}, !.total = 3],
   [Open(0, 5) EXCEPT !.allowed = {}, !.denied = {read}, !.contexts = {confirm}],
   [Open(2, 3) EXCEPT !.perAction = 1, !.threshold = 50, !.assets = {usdc}],
   [Open(2, 4) EXCEPT !.total = 2, !.chains = {base}],
   [Open(3, 2) EXCEPT !.confirm = TRUE, !.threshold = 5]}

Ask(action, context, amounts, risk, asset, chain) ==
  [owner |-> o, action |-> action, context |-> context, amounts |-> amounts,
   risk |-> risk, asset |-> asset, chain |-> chain]

MCRequests ==
  {Ask(read, normal, <<None, 2, None, None, None>>, 10, usdc, base),
   Ask(read, normal, <<1, None, 2, None, None>>, 60, usdc, None),
   Ask(read, normal, <<1, None, 2, None, None>>, 80, usdc, None),
   Ask(read, confirm, <<None, None, None, None, None>>, 10, None, None),
   Ask(read, normal, <<None, None, 1, None, None>>, 10, eth, None),
   Ask(pay, normal, <<None, None, None, 1, None>>, 10, None, None)}

(* Requests and policies for several evaluations at a time.                *)
SpendingRequests ==
  {Ask(read, normal, <<None, 2, None, None, None>>, 10, None, None),
   Ask(read, normal, <<1, None, None, None, None>>, 10, None, None)}
SpendingPolicies ==
  {[Open(1, 1) EXCEPT !.total = 3],
   [Open(2, 2) EXCEPT !.total = 2],
   [Open(0, 3) EXCEPT !.allowed = {}, !.denied = {read}]}
=============================================================================
