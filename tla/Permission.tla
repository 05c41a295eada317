----------------------------- MODULE Permission -----------------------------
(***************************************************************************)
(* PermissionService (src/permission/index.ts): policies, evaluations by   *)
(* concurrent calls, and the permission_audits table.  An evaluation reads *)
(* the policies, then the used budget, then inserts its audit row, as      *)
(* three SQL statements outside any transaction; within one server nothing *)
(* runs in between, since the method never awaits.                         *)
(***************************************************************************)
EXTENDS PolicyRules, SequencesExt

CONSTANTS
  Agent, OwnerOf,          (* Agents and the owner each belongs to.        *)
  Call, Server, ServerOf,  (* Evaluations, and the server that runs each.  *)
  Requests,                (* The requests agents make.                    *)
  Pool                     (* Bound: the policies that may be created.     *)

ASSUME PermissionAssumption ==
  /\ OwnerOf \in [Agent -> Owner]
  /\ ServerOf \in [Call -> Server]
  /\ Requests \subseteq Request
  /\ Pool \subseteq Policy

(* Of policies with equal priority one is older; where created_at is equal,*)
(* too, the order of the rows is unspecified.                              *)
ASSUME RankAssumption ==
  \A ps \in SUBSET Pool : ps # {} => \E p \in ps : \A q \in ps \ {p} : Before(p, q)

VARIABLES
  policies,  (* The active rows of the policies table.                     *)
  audits,    (* permission_audits, in insertion order.                     *)
  pc,        (* Where each evaluation stands.                              *)
  asked,     (* The agent and request of each evaluation.                  *)
  held,      (* The policies an evaluation has read.                       *)
  outcome    (* The audit row an evaluation is about to insert.            *)

vars == <<policies, audits, pc, asked, held, outcome>>

Question == {[agent |-> a, request |-> r] : a \in Agent, r \in Requests}

Resting == {"idle", "done", "thrown", "lost"}
HoldsLoop == {"spent", "write"}

LoopFree(c) ==
  \A d \in Call \ {c} : ServerOf[d] = ServerOf[c] => pc[d] \notin HoldsLoop

IdleServer(s) == \A c \in Call : ServerOf[c] = s => pc[c] \notin HoldsLoop

Goto(c, label) == pc' = [pc EXCEPT ![c] = label]

(* What a row adds to the budget that agent a has used.                    *)
Used(a, row) == IF row.agent = a /\ row.decision = "ALLOW" THEN row.budget ELSE 0

(* SUM(budget) of the agent's ALLOW rows, with each row in turn.           *)
Spent(a, rows) ==
  LET sum[n \in Nat] == IF n = 0 THEN 0 ELSE sum[n - 1] + Used(a, rows[n])
  IN  sum[Len(rows)]

ActivePolicies(owner) == {p \in policies : p.owner = owner}

Row(q, decision, matched) ==
  [agent |-> q.agent, request |-> q.request, decision |-> decision,
   budget |-> Budget(q.request), matched |-> matched]

Init ==
  /\ policies = {}
  /\ audits = <<>>
  /\ pc = [c \in Call |-> "idle"]
  /\ asked = [c \in Call |-> None]
  /\ held = [c \in Call |-> {}]
  /\ outcome = [c \in Call |-> None]

CreatePolicy(s, p) ==
  /\ IdleServer(s)
  /\ p \notin policies
  /\ policies' = policies \cup {p}
  /\ UNCHANGED <<audits, pc, asked, held, outcome>>

Start(c, q) ==
  /\ pc[c] = "idle" /\ LoopFree(c)
  /\ q.request.owner = OwnerOf[q.agent]
  /\ asked' = [asked EXCEPT ![c] = q]

(* Mutant: the loop is given up between the reads and the insert.          *)
EvaluateUnguarded(c, q) ==
  /\ pc[c] = "idle"
  /\ q.request.owner = OwnerOf[q.agent]
  /\ asked' = [asked EXCEPT ![c] = q]
  /\ held' = [held EXCEPT ![c] = ActivePolicies(q.request.owner)]
  /\ Goto(c, "spent")
  /\ UNCHANGED <<policies, audits, outcome>>

(* evaluatePermission starts by reading the active policies.               *)
Evaluate(c, q) ==
  /\ Start(c, q)
  /\ held' = [held EXCEPT ![c] = ActivePolicies(q.request.owner)]
  /\ Goto(c, "spent")
  /\ UNCHANGED <<policies, audits, outcome>>

(* recordDeny: a denial decided by the caller.                             *)
RecordDeny(c, q) ==
  /\ Start(c, q)
  /\ outcome' = [outcome EXCEPT ![c] = Row(q, "DENY", None)]
  /\ Goto(c, "write")
  /\ UNCHANGED <<policies, audits, held>>

(* The used budget is read and the decision taken.                         *)
ReadSpent(c) ==
  LET q == asked[c] IN
  /\ pc[c] = "spent"
  /\ outcome' = [outcome EXCEPT ![c] =
       Row(q, Verdict(held[c], q.request, Spent(q.agent, audits)),
           Matched(held[c], q.request))]
  /\ Goto(c, "write")
  /\ UNCHANGED <<policies, audits, asked, held>>

(* A call that is over holds nothing.                                      *)
Forget(c) ==
  /\ asked' = [asked EXCEPT ![c] = None]
  /\ held' = [held EXCEPT ![c] = {}]
  /\ outcome' = [outcome EXCEPT ![c] = None]

(* writeDecision.                                                          *)
Write(c) ==
  /\ pc[c] = "write"
  /\ audits' = Append(audits, outcome[c])
  /\ Goto(c, "done") /\ Forget(c)
  /\ UNCHANGED policies

(* The insert fails, for instance on a database another server has locked. *)
WriteThrows(c) ==
  /\ pc[c] = "write"
  /\ Goto(c, "thrown") /\ Forget(c)
  /\ UNCHANGED <<policies, audits>>

(* Evaluations a crash of server s would end.                              *)
Exposed(s) == {c \in Call : ServerOf[c] = s /\ pc[c] \notin Resting}

Crash(s) ==
  /\ Exposed(s) # {}
  /\ pc' = [c \in Call |-> IF c \in Exposed(s) THEN "lost" ELSE pc[c]]
  /\ asked' = [c \in Call |-> IF c \in Exposed(s) THEN None ELSE asked[c]]
  /\ held' = [c \in Call |-> IF c \in Exposed(s) THEN {} ELSE held[c]]
  /\ outcome' = [c \in Call |-> IF c \in Exposed(s) THEN None ELSE outcome[c]]
  /\ UNCHANGED <<policies, audits>>

Next ==
  \/ \E s \in Server, p \in Pool : CreatePolicy(s, p)
  \/ \E c \in Call, q \in Question : Evaluate(c, q) \/ RecordDeny(c, q)
  \/ \E c \in Call : ReadSpent(c) \/ Write(c) \/ WriteThrows(c)
  \/ \E s \in Server : Crash(s)

Spec == Init /\ [][Next]_vars

-----------------------------------------------------------------------------
Audit == [agent : Agent, request : Requests, decision : Decision,
          budget : Int, matched : Pool \cup {None}]

(* Every variable holds a value of its kind.                               *)
TypeOK ==
  /\ policies \in SUBSET Pool
  /\ audits \in Seq(Audit)
  /\ pc \in [Call -> Resting \cup HoldsLoop]
  /\ asked \in [Call -> Question \cup {None}]
  /\ held \in [Call -> SUBSET Pool]
  /\ outcome \in [Call -> Audit \cup {None}]

(* A decision is the one the policies and the spending of the moment call  *)
(* for, or a refusal: nothing that was read for it has changed by the time *)
(* its row is inserted.                                                    *)
DecisionIsCurrent ==
  [][\A c \in Call :
       (pc[c] = "write" /\ pc'[c] = "done")
         => outcome[c].decision \in
              {"DENY",
               Verdict(ActivePolicies(asked[c].request.owner), asked[c].request,
                       Spent(asked[c].agent, audits))}]_vars

(* What an agent was allowed never sums to more than the maxTotalBudget    *)
(* under which its latest request was allowed.                             *)
TotalBudgetKept ==
  \A k \in DOMAIN audits :
    (audits[k].decision = "ALLOW" /\ audits[k].matched.total # None)
      => Spent(audits[k].agent, SubSeq(audits, 1, k)) <= audits[k].matched.total

(* "Deny rules override allow rules" (README.md:183): a further policy that *)
(* denies the action denies it, and one that does not allow it can only    *)
(* narrow what is permitted, whatever their priorities.                    *)
DenialsOnlyNarrow ==
  \A p \in Pool \ policies, q \in Question :
    LET r == q.request
        spent == Spent(q.agent, audits)
        now == ActivePolicies(r.owner)
        then == Verdict(now \cup {p}, r, spent)
    IN  p.owner = r.owner =>
          /\ (r.action \in p.denied /\ r.context \in p.contexts) => then = "DENY"
          /\ r.action \notin p.allowed => then \in {Verdict(now, r, spent), "DENY"}

(* A further policy of lower rank than the one that decides, and that does *)
(* not deny, changes nothing.                                              *)
RankDecides ==
  \A p \in Pool \ policies, q \in Question :
    LET r == q.request
        spent == Spent(q.agent, audits)
        now == ActivePolicies(r.owner)
    IN  (/\ p.owner = r.owner /\ r.action \notin p.denied
         /\ \E other \in Allowing(now, r) : Before(other, p))
          => Verdict(now \cup {p}, r, spent) = Verdict(now, r, spent)

(* Having spent less, or asking with less risk, never costs a permission.  *)
LessIsNeverWorse ==
  \A q \in Question, risk \in {s.risk : s \in Requests}, saved \in 0..2 :
    LET r == q.request
        spent == Spent(q.agent, audits)
        now == ActivePolicies(r.owner)
    IN  (risk <= r.risk /\ Verdict(now, r, spent) = "ALLOW")
          => Verdict(now, [r EXCEPT !.risk = risk], spent - saved) = "ALLOW"
=============================================================================
