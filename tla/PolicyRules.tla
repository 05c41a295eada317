----------------------------- MODULE PolicyRules -----------------------------
(***************************************************************************)
(* How evaluatePermission (src/permission/index.ts) decides a request from *)
(* the active policies of the agent's owner and the budget the agent has   *)
(* used.  Action patterns and context constraints are given by what they   *)
(* match: a policy lists the actions and the contexts it is about.         *)
(***************************************************************************)
EXTENDS Integers

CONSTANTS
  Owner, Action, Context,
  Asset,       (* Asset names, and chain names, of policies and requests.  *)
  Chain,
  HighRisk,    (* luffa.trigger_payment and luffa.reward_user.             *)
  Confirming,  (* Contexts with requiresConfirmation set.                  *)
  Elevated,    (* The risk score from which confirmation is needed (0.75). *)
  None         (* Stands for a rule or a field that is absent.             *)

Cap == Int \cup {None}

Policy ==
  [owner : Owner, priority : Int, born : Nat,
   allowed : SUBSET Action, denied : SUBSET Action, contexts : SUBSET Context,
   perAction : Cap, total : Cap, threshold : Cap,
   assets : (SUBSET Asset) \cup {None}, chains : (SUBSET Chain) \cup {None},
   confirm : BOOLEAN]

(* amounts holds, in order, context.budget, params.budget, params.amount,  *)
(* params.settlement.amount and context.settlement.amount.                 *)
Request ==
  [owner : Owner, action : Action, context : Context,
   amounts : [1..5 -> Int \cup {None}], risk : Int,
   asset : Asset \cup {None}, chain : Chain \cup {None}]

ASSUME RulesAssumption ==
  /\ None \notin Int
  /\ Elevated \in Int
  /\ HighRisk \subseteq Action
  /\ Confirming \subseteq Context

(* deriveBudget: the first candidate that is a number.                     *)
Budget(r) ==
  LET given == {k \in 1..5 : r.amounts[k] # None}
  IN  IF given = {} THEN 0
      ELSE r.amounts[CHOOSE k \in given : \A j \in given : k <= j]

(* ORDER BY priority DESC, created_at ASC.                                 *)
Before(p, q) ==
  p.priority > q.priority \/ (p.priority = q.priority /\ p.born < q.born)

(* Mutant: the oldest policy first, whatever its priority.                 *)
FirstByAge(ps) == CHOOSE p \in ps : \A q \in ps \ {p} : p.born < q.born

First(ps) == CHOOSE p \in ps : \A q \in ps \ {p} : Before(p, q)

Denying(ps, r) == {p \in ps : r.context \in p.contexts /\ r.action \in p.denied}

(* Mutant: what a policy does not mention it allows.                       *)
AllowingUnmentioned(ps, r) ==
  {p \in ps : r.context \in p.contexts /\ r.action \notin p.denied}

Allowing(ps, r) == {p \in ps : r.context \in p.contexts /\ r.action \in p.allowed}

(* Mutant: the total and the risk are compared with the wrong sign.        *)
WithinSwapped(p, r, used) ==
  /\ p.perAction # None => Budget(r) <= p.perAction
  /\ p.total # None => used - Budget(r) <= p.total
  /\ p.assets # None /\ r.asset # None => r.asset \in p.assets
  /\ p.chains # None /\ r.chain # None => r.chain \in p.chains
  /\ p.threshold # None => r.risk >= p.threshold

(* The limits of the chosen policy; an absent limit, asset or chain        *)
(* restricts nothing.                                                      *)
Within(p, r, used) ==
  /\ p.perAction # None => Budget(r) <= p.perAction
  /\ p.total # None => used + Budget(r) <= p.total
  /\ p.assets # None /\ r.asset # None => r.asset \in p.assets
  /\ p.chains # None /\ r.chain # None => r.chain \in p.chains
  /\ p.threshold # None => r.risk <= p.threshold

Confirms(p, r) ==
  \/ p.confirm
  \/ r.action \in HighRisk
  \/ r.risk >= Elevated
  \/ r.context \in Confirming

Verdict(ps, r, used) ==
  IF Denying(ps, r) # {} \/ Allowing(ps, r) = {} THEN "DENY"
  ELSE LET p == First(Allowing(ps, r)) IN
       IF ~Within(p, r, used) THEN "DENY"
       ELSE IF Confirms(p, r) THEN "REQUIRES_CONFIRMATION" ELSE "ALLOW"

Decision == {"ALLOW", "DENY", "REQUIRES_CONFIRMATION"}

(* The row's matched_policy_id.                                            *)
Matched(ps, r) ==
  IF Denying(ps, r) # {} THEN First(Denying(ps, r))
  ELSE IF Allowing(ps, r) # {} THEN First(Allowing(ps, r)) ELSE None
=============================================================================
