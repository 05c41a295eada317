------------------------------- MODULE MCVarr -------------------------------
(***************************************************************************)
(* An instance of Varr for TLC: three calls of one server, or three        *)
(* commands of the CLI, on a workspace of two agents.                      *)
(***************************************************************************)
EXTENDS Varr, TLC

CONSTANTS a1, a2, g1, g2, g3, x1, x2, w1, w2, f1, f2, draft, publish, shell, n1, n2,
  r1, c1, c2, c3, server

AllOnServer == [c \in Call |-> Server]
OneEach == [c \in Call |-> c]
BothHomes == {AllOnServer, OneEach}

ActionRisk == (draft :> "low") @@ (publish :> "high") @@ (shell :> "critical")

GrantTable ==
  (g1 :> [subject |-> a1, resource |-> r1, actions |-> {draft, publish},
          approvals |-> {}, expires |-> TRUE, status |-> "active"])
  @@ (g2 :> [subject |-> a1, resource |-> r1, actions |-> {draft},
             approvals |-> {draft}, expires |-> FALSE, status |-> "active"])
  @@ (g3 :> [subject |-> a2, resource |-> r1, actions |-> {draft},
             approvals |-> {}, expires |-> FALSE, status |-> "active"])

ContextTable ==
  (x1 :> [open |-> TRUE, subjects |-> {a1, a2}, namespace |-> n1])
  @@ (x2 :> [open |-> TRUE, subjects |-> {a1}, namespace |-> n2])

WorkflowTable ==
  (w1 :> [active |-> TRUE, agents |-> {a1},
          steps |-> {[action |-> draft, resource |-> r1]}])
  @@ (w2 :> [active |-> FALSE, agents |-> {a1},
            steps |-> {[action |-> draft, resource |-> None]}])

ResourceNamespace == r1 :> n1

Seeded ==
  [agents |-> a1 :> [status |-> "active", named |-> a1, hosted |-> TRUE],
   grants |-> (g1 :> "active") @@ (g3 :> "active"), contexts |-> {x1},
   workflows |-> {w1, w2}, receipts |-> Nothing, feedback |-> Nothing,
   signals |-> Nothing]

RunOf(a, w, refs, acts) ==
  [op |-> "run", agent |-> a, workflow |-> w, contexts |-> refs, actions |-> acts]

Succeeds == RunOf(a1, w1, <<x1>>, {draft})

Registration(a) ==
  [op |-> "register", agent |-> a, status |-> "active", hosted |-> TRUE]
Patch(status, named, hosted) ==
  [op |-> "update", agent |-> a1, status |-> status, named |-> named, hosted |-> hosted]

(* Runs that differ in how they end, feedback on the first receipt, and    *)
(* what changes agents and grants.                                         *)
ServerAsks ==
  {Succeeds, RunOf(a1, w1, <<x1, x2>>, {}), RunOf(a1, w1, <<x1>>, {publish}),
   RunOf(a2, w1, <<x1>>, {}), Registration(a2),
   [op |-> "feedback", id |-> f1, receipt |-> 1],
   [op |-> "feedback", id |-> f2, receipt |-> 1],
   [op |-> "revoke", id |-> g1], [op |-> "grant", id |-> g2],
   [op |-> "context", id |-> x2]}
  \cup {Patch(status, None, None) : status \in {"suspended", "active", None}}
  \cup {Patch(None, a2, None), Patch(None, None, FALSE)}

(* Commands that write to each table, and those that only read or reset.   *)
CliAsks ==
  {RunOf(a1, w2, <<>>, {}), RunOf(a1, w1, <<x1>>, {shell}),
   [op |-> "feedback", id |-> f1, receipt |-> 1],
   [op |-> "workflow", id |-> w2], Registration(a1),
   [op |-> "init"], [op |-> "show"]}

Start == {Seeded}
CallSymmetry == Permutations(Call)
=============================================================================
