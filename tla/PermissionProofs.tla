-------------------------- MODULE PermissionProofs --------------------------
(***************************************************************************)
(* Theorems about Permission, for every set of agents, calls, requests and *)
(* policies that are ranked.                                               *)
(***************************************************************************)
EXTENDS Permission, WellFoundedInduction, TLAPS

(* The first of some policies is one of them, and comes before the others. *)
LEMMA FirstIsFirst ==
  ASSUME NEW ps \in SUBSET Pool, ps # {}
  PROVE  /\ First(ps) \in ps
         /\ \A q \in ps \ {First(ps)} : Before(First(ps), q)
  BY RankAssumption DEF First

(* The budget of a request is a number.                                    *)
LEMMA BudgetIsInt ==
  ASSUME NEW r \in Request
  PROVE  Budget(r) \in Int
  <1> DEFINE given == {k \in 1..5 : r.amounts[k] # None}
  <1>1. r.amounts \in [1..5 -> Int \cup {None}]
    BY DEF Request
  <1>2. CASE given # {}
    <2>1. \E k \in given : \A j \in given : k <= j
      BY <1>2
    <2>2. (CHOOSE k \in given : \A j \in given : k <= j) \in given
      BY <2>1
    <2> QED
      BY <1>1, <1>2, <2>2 DEF Budget
  <1>3. CASE given = {}
    BY <1>3 DEF Budget
  <1> QED
    BY <1>2, <1>3

LEMMA RowIsAudit ==
  ASSUME NEW q \in Question, NEW d \in Decision, NEW m \in Pool \cup {None}
  PROVE  Row(q, d, m) \in Audit
  <1>1. q.agent \in Agent /\ q.request \in Requests
    BY DEF Question
  <1>2. Budget(q.request) \in Int
    BY <1>1, PermissionAssumption, BudgetIsInt
  <1> QED
    BY <1>1, <1>2 DEF Row, Audit

LEMMA VerdictIsDecision ==
  ASSUME NEW ps, NEW r, NEW used
  PROVE  Verdict(ps, r, used) \in Decision
  BY DEF Verdict, Decision

LEMMA MatchedIsPolicy ==
  ASSUME NEW ps \in SUBSET Pool, NEW r
  PROVE  Matched(ps, r) \in Pool \cup {None}
  <1>1. Denying(ps, r) \in SUBSET Pool /\ Allowing(ps, r) \in SUBSET Pool
    BY DEF Denying, Allowing
  <1> QED
    BY <1>1, FirstIsFirst DEF Matched

-----------------------------------------------------------------------------
(* An evaluation that has not ended has a question.                        *)
Asks == \A c \in Call : pc[c] \in HoldsLoop => asked[c] \in Question

Decides == \A c \in Call : pc[c] = "write" => outcome[c] \in Audit

(* The inductive invariant.                                                *)
IInv == TypeOK /\ Asks /\ Decides

LEMMA InitIInv == Init => IInv
  BY DEF Init, IInv, TypeOK, Asks, Decides, Resting, HoldsLoop

LEMMA NextIInv == IInv /\ [Next]_vars => IInv'
  <1> SUFFICES ASSUME IInv, [Next]_vars PROVE IInv'
    OBVIOUS
  <1> USE DEF Resting, HoldsLoop
  <1>1. ASSUME NEW s \in Server, NEW p \in Pool, CreatePolicy(s, p) PROVE IInv'
    BY <1>1 DEF CreatePolicy, IInv, TypeOK, Asks, Decides
  <1>2. ASSUME NEW c \in Call, NEW q \in Question, Evaluate(c, q) PROVE IInv'
    <2>1. ActivePolicies(q.request.owner) \in SUBSET Pool
      BY DEF ActivePolicies, IInv, TypeOK
    <2> QED
      BY <1>2, <2>1 DEF Evaluate, Start, Goto, IInv, TypeOK, Asks, Decides
  <1>3. ASSUME NEW c \in Call, NEW q \in Question, RecordDeny(c, q) PROVE IInv'
    <2>1. Row(q, "DENY", None) \in Audit
      BY RowIsAudit DEF Decision
    <2> QED
      BY <1>3, <2>1 DEF RecordDeny, Start, Goto, IInv, TypeOK, Asks, Decides
  <1>4. ASSUME NEW c \in Call, ReadSpent(c) PROVE IInv'
    <2> DEFINE q == asked[c]
               row == Row(q, Verdict(held[c], q.request, Spent(q.agent, audits)),
                          Matched(held[c], q.request))
    <2>1. q \in Question /\ held[c] \in SUBSET Pool
      BY <1>4 DEF ReadSpent, IInv, Asks, TypeOK
    <2>2. row \in Audit
      BY <2>1, RowIsAudit, VerdictIsDecision, MatchedIsPolicy
    <2>3. /\ outcome' = [outcome EXCEPT ![c] = row] /\ pc' = [pc EXCEPT ![c] = "write"]
          /\ pc[c] = "spent" /\ UNCHANGED <<policies, audits, asked, held>>
      BY <1>4 DEF ReadSpent, Goto
    <2> HIDE DEF row
    <2> QED
      BY <2>2, <2>3 DEF IInv, TypeOK, Asks, Decides
  <1>5. ASSUME NEW c \in Call, Write(c) PROVE IInv'
    <2>1. outcome[c] \in Audit /\ audits \in Seq(Audit) /\ audits' = Append(audits, outcome[c])
      BY <1>5 DEF Write, IInv, Decides, TypeOK
    <2>2. audits' \in Seq(Audit)
      BY <2>1
    <2> QED
      BY <1>5, <2>2 DEF Write, Forget, Goto, IInv, TypeOK, Asks, Decides
  <1>6. ASSUME NEW c \in Call, WriteThrows(c) PROVE IInv'
    BY <1>6 DEF WriteThrows, Forget, Goto, IInv, TypeOK, Asks, Decides
  <1>7. ASSUME NEW s \in Server, Crash(s) PROVE IInv'
    BY <1>7 DEF Crash, Exposed, IInv, TypeOK, Asks, Decides
  <1>8. CASE UNCHANGED vars
    BY <1>8 DEF vars, IInv, TypeOK, Asks, Decides
  <1> QED
    BY <1>1, <1>2, <1>3, <1>4, <1>5, <1>6, <1>7, <1>8 DEF Next

(* Every variable holds a value of its kind.                               *)
THEOREM TypeCorrect == Spec => []TypeOK
  <1>1. IInv => TypeOK
    BY DEF IInv
  <1> QED
    BY <1>1, InitIInv, NextIInv, PTL DEF Spec

-----------------------------------------------------------------------------
LEMMA PoliciesAreRanked ==
  ASSUME NEW p \in Pool
  PROVE  p.priority \in Int /\ p.born \in Nat
  BY PermissionAssumption DEF Policy

(* Before is a strict order.                                               *)
LEMMA BeforeIsStrict ==
  ASSUME NEW p \in Pool, NEW q \in Pool, NEW r \in Pool
  PROVE  /\ ~(Before(p, q) /\ Before(q, p))
         /\ Before(p, q) /\ Before(q, r) => Before(p, r)
  BY PoliciesAreRanked DEF Before

(* A policy that some other comes before is never the first.               *)
LEMMA FirstIsKept ==
  ASSUME NEW ps \in SUBSET Pool, NEW p \in Pool \ ps,
         NEW other \in ps, Before(other, p)
  PROVE  First(ps \cup {p}) = First(ps)
  <1> DEFINE f == First(ps)
             g == First(ps \cup {p})
  <1>1. f \in ps /\ \A q \in ps \ {f} : Before(f, q)
    BY FirstIsFirst
  <1>2. g \in ps \cup {p} /\ \A q \in (ps \cup {p}) \ {g} : Before(g, q)
    <2>1. ps \cup {p} \in SUBSET Pool /\ ps \cup {p} # {}
      OBVIOUS
    <2> QED
      BY <2>1, FirstIsFirst
  <1> HIDE DEF f, g
  <1>3. g # p
    <2> SUFFICES ASSUME g = p PROVE FALSE
      OBVIOUS
    <2>1. Before(p, other)
      BY <1>2
    <2> QED
      BY <2>1, BeforeIsStrict
  <1>4. g = f
    <2> SUFFICES ASSUME g # f PROVE FALSE
      OBVIOUS
    <2>1. Before(f, g) /\ Before(g, f)
      BY <1>1, <1>2, <1>3
    <2> QED
      BY <2>1, <1>1, <1>2, BeforeIsStrict
  <1> QED
    BY <1>4 DEF f, g

-----------------------------------------------------------------------------
(* A further policy that denies the action denies it, and one that does    *)
(* not allow it can only narrow what is permitted, in every reachable      *)
(* state, for every set of ranked policies and every request.              *)
THEOREM DenialsNarrow == Spec => []DenialsOnlyNarrow
  <1>1. DenialsOnlyNarrow
    <2> SUFFICES ASSUME NEW p \in Pool \ policies, NEW q \in Question,
                        NEW r, r = q.request, NEW spent, NEW now,
                        NEW then, then = Verdict(now \cup {p}, r, spent)
                 PROVE  /\ (r.action \in p.denied /\ r.context \in p.contexts) => then = "DENY"
                        /\ r.action \notin p.allowed => then \in {Verdict(now, r, spent), "DENY"}
      BY DEF DenialsOnlyNarrow
    <2>1. Denying(now, r) \subseteq Denying(now \cup {p}, r)
      BY DEF Denying
    <2>2. ASSUME r.action \in p.denied, r.context \in p.contexts
          PROVE  then = "DENY"
      <3>1. p \in Denying(now \cup {p}, r)
        BY <2>2 DEF Denying
      <3> QED
        BY <3>1 DEF Verdict
    <2>3. ASSUME r.action \notin p.allowed
          PROVE  then \in {Verdict(now, r, spent), "DENY"}
      <3>1. Allowing(now \cup {p}, r) = Allowing(now, r)
        BY <2>3 DEF Allowing
      <3>2. CASE Denying(now \cup {p}, r) # {}
        BY <3>2 DEF Verdict
      <3>3. CASE Denying(now \cup {p}, r) = {}
        <4>1. Denying(now, r) = {}
          BY <2>1, <3>3
        <4> QED
          BY <3>1, <3>3, <4>1 DEF Verdict
      <3> QED
        BY <3>2, <3>3
    <2> QED
      BY <2>2, <2>3
  <1> QED
    BY <1>1, PTL

LEMMA LowerChangesNothing ==
  ASSUME NEW now \in SUBSET Pool, NEW p \in Pool \ now, NEW r, NEW spent,
         r.action \notin p.denied,
         NEW other \in Allowing(now, r), Before(other, p)
  PROVE  Verdict(now \cup {p}, r, spent) = Verdict(now, r, spent)
  <1> DEFINE as == Allowing(now, r)
  <1>1. Denying(now \cup {p}, r) = Denying(now, r)
    BY DEF Denying
  <1>2. as \in SUBSET Pool /\ p \notin as
    BY DEF Allowing
  <1>3. Allowing(now \cup {p}, r) = as \/ Allowing(now \cup {p}, r) = as \cup {p}
    BY DEF Allowing
  <1>4. other \in as
    OBVIOUS
  <1> HIDE DEF as
  <1>5. First(as \cup {p}) = First(as)
    BY <1>2, <1>4, FirstIsKept
  <1>6. as # {} /\ Allowing(now \cup {p}, r) # {} /\ First(Allowing(now \cup {p}, r)) = First(as)
    BY <1>3, <1>4, <1>5
  <1> QED
    BY <1>1, <1>6 DEF Verdict, as

(* A further policy of lower rank than one that allows the request, and    *)
(* that does not deny it, changes no verdict.                              *)
THEOREM RankDecidesAlways == Spec => []RankDecides
  <1>1. TypeOK => RankDecides
    <2> SUFFICES ASSUME TypeOK, NEW p \in Pool \ policies, NEW q \in Question,
                        q.request.action \notin p.denied,
                        \E other \in Allowing(ActivePolicies(q.request.owner), q.request) :
                          Before(other, p)
                 PROVE  Verdict(ActivePolicies(q.request.owner) \cup {p}, q.request,
                                Spent(q.agent, audits))
                        = Verdict(ActivePolicies(q.request.owner), q.request,
                                  Spent(q.agent, audits))
      BY DEF RankDecides
    <2>1. ActivePolicies(q.request.owner) \in SUBSET Pool
      BY DEF ActivePolicies, TypeOK
    <2>2. p \in Pool \ ActivePolicies(q.request.owner)
      BY DEF ActivePolicies
    <2> QED
      BY <2>1, <2>2, LowerChangesNothing
  <1> QED
    BY <1>1, TypeCorrect, PTL

(* Whatever was used, having used less and asking with less risk never     *)
(* costs a permission.                                                     *)
THEOREM LessIsAllowed ==
  ASSUME NEW ps \in SUBSET Pool, NEW r \in Request, NEW risk \in Int,
         NEW used \in Int, NEW less \in Int,
         risk <= r.risk, less <= used, Verdict(ps, r, used) = "ALLOW"
  PROVE  Verdict(ps, [r EXCEPT !.risk = risk], less) = "ALLOW"
  <1> DEFINE s == [r EXCEPT !.risk = risk]
             p == First(Allowing(ps, r))
  <1>1. /\ s.action = r.action /\ s.context = r.context /\ s.amounts = r.amounts
        /\ s.asset = r.asset /\ s.chain = r.chain /\ s.risk = risk
    BY DEF Request
  <1> HIDE DEF s
  <1>2. Denying(ps, s) = Denying(ps, r) /\ Allowing(ps, s) = Allowing(ps, r)
    BY <1>1 DEF Denying, Allowing
  <1>3. Budget(s) = Budget(r)
    BY <1>1 DEF Budget
  <1>4. /\ Denying(ps, r) = {} /\ Allowing(ps, r) # {}
        /\ Within(p, r, used) /\ ~Confirms(p, r)
    BY DEF Verdict
  <1>5. p \in Pool
    BY <1>4, FirstIsFirst DEF Allowing
  <1>6. p.total \in Cap /\ p.threshold \in Cap /\ r.risk \in Int /\ Budget(r) \in Int
    BY <1>5, PermissionAssumption, BudgetIsInt DEF Policy, Request
  <1>7. Within(p, s, less)
    BY <1>1, <1>3, <1>4, <1>6 DEF Within, Cap
  <1>8. ~Confirms(p, s)
    BY <1>1, <1>4, <1>6, RulesAssumption DEF Confirms
  <1> QED
    BY <1>2, <1>4, <1>7, <1>8 DEF Verdict, s

(* What 0 has, and n + 1 whenever n has it, every natural number has.      *)
LEMMA NaturalInduction ==
  ASSUME NEW Good, 0 \in Good, \A n \in Nat : n \in Good => n + 1 \in Good
  PROVE  Nat \subseteq Good
  <1> DEFINE Bad == Nat \ Good
  <1> SUFFICES ASSUME Bad # {} PROVE FALSE
    OBVIOUS
  <1>1. IsWellFoundedOn(OpToRel(<, Nat), Nat)
    BY NatLessThanWellFounded
  <1>2. PICK n \in Bad : \A m \in Bad : <<m, n>> \notin OpToRel(<, Nat)
    <2> HIDE DEF Bad
    <2>1. Bad \subseteq Nat
      BY DEF Bad
    <2> QED
      BY <1>1, <2>1, WFMin
  <1>3. n \in Nat /\ n \notin Good
    OBVIOUS
  <1>4. n # 0
    BY <1>3
  <1>5. n - 1 \in Nat /\ n - 1 < n /\ (n - 1) + 1 = n
    BY <1>3, <1>4
  <1>6. <<n - 1, n>> \in OpToRel(<, Nat)
    BY <1>3, <1>5 DEF OpToRel
  <1>7. n - 1 \in Good
    BY <1>2, <1>5, <1>6
  <1>8. (n - 1) + 1 \in Good
    BY <1>5, <1>7
  <1> QED
    BY <1>3, <1>5, <1>8

(* The recursive function in Spent, up to n and for every number of rows.  *)
SumsTo(g, n, a, rows) ==
  \A m \in 0 .. n : g[m] = IF m = 0 THEN 0 ELSE g[m - 1] + Used(a, rows[m])

Sums(g, a, rows) ==
  g = [n \in Nat |-> IF n = 0 THEN 0 ELSE g[n - 1] + Used(a, rows[n])]

LEMMA SumsToAgree ==
  ASSUME NEW a, NEW rows, NEW more, NEW i \in Nat, NEW g, NEW h,
         SumsTo(g, i, a, rows), SumsTo(h, i, a, more),
         \A m \in 1 .. i : rows[m] = more[m]
  PROVE  \A m \in 0 .. i : g[m] = h[m]
  <1> DEFINE Good == {m \in Nat : m <= i => g[m] = h[m]}
  <1>1. 0 \in Good
    BY DEF SumsTo
  <1>2. ASSUME NEW n \in Nat, n \in Good PROVE n + 1 \in Good
    <2>1. CASE n + 1 <= i
      <3>1. n + 1 \in 0 .. i /\ n + 1 # 0 /\ (n + 1) - 1 = n /\ n + 1 \in 1 .. i /\ n <= i
        BY <2>1
      <3>2. g[n + 1] = g[n] + Used(a, rows[n + 1]) /\ h[n + 1] = h[n] + Used(a, more[n + 1])
        BY <3>1 DEF SumsTo
      <3> QED
        BY <1>2, <3>1, <3>2
    <2> QED
      BY <2>1
  <1>3. Nat \subseteq Good
    <2> HIDE DEF Good
    <2> QED
      BY <1>1, <1>2, NaturalInduction
  <1> QED
    BY <1>3

(* The function that CHOOSE looks for exists.                              *)
LEMMA SumsExist ==
  ASSUME NEW a, NEW rows
  PROVE  \E g : Sums(g, a, rows)
  <1> DEFINE Good == {n \in Nat : \E g : SumsTo(g, n, a, rows)}
             Solve(n) == CHOOSE g : SumsTo(g, n, a, rows)
             sum == [n \in Nat |-> Solve(n)[n]]
  <1>1. 0 \in Good
    <2>1. SumsTo([m \in {0} |-> 0], 0, a, rows)
      BY DEF SumsTo
    <2> QED
      BY <2>1
  <1>2. ASSUME NEW n \in Nat, n \in Good PROVE n + 1 \in Good
    <2>1. PICK g : SumsTo(g, n, a, rows)
      BY <1>2
    <2> DEFINE h == [m \in 0 .. n + 1 |->
                       IF m = n + 1 THEN g[n] + Used(a, rows[n + 1]) ELSE g[m]]
    <2>2. ASSUME NEW m \in 0 .. n + 1
          PROVE  h[m] = IF m = 0 THEN 0 ELSE h[m - 1] + Used(a, rows[m])
      <3>1. CASE m = n + 1
        BY <3>1
      <3>2. CASE m # n + 1
        <4>1. m \in 0 .. n /\ (m # 0 => m - 1 \in 0 .. n /\ m - 1 # n + 1)
          BY <3>2
        <4>2. h[m] = g[m] /\ (m # 0 => h[m - 1] = g[m - 1])
          BY <4>1, <3>2
        <4> QED
          BY <2>1, <4>1, <4>2 DEF SumsTo
      <3> QED
        BY <3>1, <3>2
    <2>3. SumsTo(h, n + 1, a, rows)
      BY <2>2 DEF SumsTo
    <2> QED
      BY <2>3
  <1>3. \A n \in Nat : SumsTo(Solve(n), n, a, rows)
    <2>1. Nat \subseteq Good
      <3> HIDE DEF Good
      <3> QED
        BY <1>1, <1>2, NaturalInduction
    <2> QED
      BY <2>1
  <1>4. ASSUME NEW n \in Nat
        PROVE  sum[n] = IF n = 0 THEN 0 ELSE sum[n - 1] + Used(a, rows[n])
    <2>1. SumsTo(Solve(n), n, a, rows)
      BY <1>3
    <2>2. CASE n = 0
      BY <2>1, <2>2 DEF SumsTo
    <2>3. CASE n # 0
      <3>1. n - 1 \in Nat /\ n - 1 \in 0 .. n - 1 /\ n \in 0 .. n
        BY <2>3
      <3>2. SumsTo(Solve(n - 1), n - 1, a, rows)
        BY <1>3, <3>1
      <3>3. SumsTo(Solve(n), n - 1, a, rows)
        BY <2>1, <3>1 DEF SumsTo
      <3> HIDE DEF Solve
      <3>4. Solve(n)[n - 1] = Solve(n - 1)[n - 1]
        BY <3>1, <3>2, <3>3, SumsToAgree
      <3>5. Solve(n)[n] = Solve(n)[n - 1] + Used(a, rows[n])
        BY <2>1, <2>3, <3>1 DEF SumsTo
      <3> QED
        BY <2>3, <3>1, <3>4, <3>5
    <2> QED
      BY <2>2, <2>3
  <1>5. sum = [n \in Nat |-> IF n = 0 THEN 0 ELSE sum[n - 1] + Used(a, rows[n])]
    <2> HIDE DEF Solve
    <2> QED
      BY <1>4
  <1> QED
    BY <1>5 DEF Sums

(* What an agent has spent with the first rows is a number, and each row   *)
(* adds what it allows the agent.                                          *)
LEMMA SpentSums ==
  ASSUME NEW a, NEW rows
  PROVE  \E g : Spent(a, rows) = g[Len(rows)] /\ \A n \in Nat : SumsTo(g, n, a, rows)
  <1> DEFINE sum == CHOOSE g : Sums(g, a, rows)
  <1>1. Sums(sum, a, rows)
    BY SumsExist
  <1>2. Spent(a, rows) = sum[Len(rows)]
    BY DEF Spent, Sums
  <1> HIDE DEF sum
  <1>3. \A n \in Nat : SumsTo(sum, n, a, rows)
    BY <1>1 DEF Sums, SumsTo
  <1> QED
    BY <1>2, <1>3

LEMMA SpentIsInt ==
  ASSUME NEW a, NEW rows \in Seq(Audit)
  PROVE  Spent(a, rows) \in Int
  <1>1. PICK g : Spent(a, rows) = g[Len(rows)] /\ \A n \in Nat : SumsTo(g, n, a, rows)
    BY SpentSums
  <1> DEFINE Good == {n \in Nat : n <= Len(rows) => g[n] \in Int}
  <1>2. 0 \in Good
    BY <1>1 DEF SumsTo
  <1>3. ASSUME NEW n \in Nat, n \in Good PROVE n + 1 \in Good
    <2>1. CASE n + 1 <= Len(rows)
      <3>1. n + 1 \in 0 .. n + 1 /\ n + 1 # 0 /\ (n + 1) - 1 = n /\ n <= Len(rows)
        BY <2>1
      <3>2. g[n + 1] = g[n] + Used(a, rows[n + 1])
        BY <1>1, <3>1 DEF SumsTo
      <3>3. rows[n + 1] \in Audit
        BY <2>1
      <3> QED
        BY <1>3, <3>1, <3>2, <3>3 DEF Used, Audit
    <2> QED
      BY <2>1
  <1>4. Nat \subseteq Good
    <2> HIDE DEF Good
    <2> QED
      BY <1>2, <1>3, NaturalInduction
  <1> QED
    BY <1>1, <1>4

LEMMA SpentAppends ==
  ASSUME NEW a, NEW rows \in Seq(Audit), NEW r \in Audit
  PROVE  Spent(a, Append(rows, r)) = Spent(a, rows) + Used(a, r)
  <1> DEFINE more == Append(rows, r)
             z == Len(rows)
  <1>1. /\ z \in Nat /\ Len(more) = z + 1 /\ more[z + 1] = r
        /\ \A k \in 1 .. z : more[k] = rows[k]
    OBVIOUS
  <1> HIDE DEF more, z
  <1>2. PICK g : Spent(a, rows) = g[z] /\ \A n \in Nat : SumsTo(g, n, a, rows)
    BY SpentSums DEF z
  <1>3. PICK h : Spent(a, more) = h[z + 1] /\ \A n \in Nat : SumsTo(h, n, a, more)
    BY <1>1, SpentSums
  <1>4. g[z] = h[z]
    <2>1. \A m \in 0 .. z : g[m] = h[m]
      BY <1>1, <1>2, <1>3, SumsToAgree
    <2> QED
      BY <1>1, <2>1
  <1>5. h[z + 1] = h[z] + Used(a, more[z + 1])
    <2>1. z + 1 \in Nat /\ z + 1 \in 0 .. z + 1 /\ z + 1 # 0 /\ (z + 1) - 1 = z
      BY <1>1
    <2> QED
      BY <1>3, <2>1 DEF SumsTo
  <1> QED
    BY <1>1, <1>2, <1>3, <1>4, <1>5 DEF more

(* In every reachable state having spent less, or asking with less risk,   *)
(* never costs an agent a permission.                                      *)
THEOREM LessCostsNothing == Spec => []LessIsNeverWorse
  <1>1. TypeOK => LessIsNeverWorse
    <2> SUFFICES ASSUME TypeOK, NEW q \in Question, NEW s \in Requests, NEW saved \in 0 .. 2,
                        s.risk <= q.request.risk,
                        Verdict(ActivePolicies(q.request.owner), q.request,
                                Spent(q.agent, audits)) = "ALLOW"
                 PROVE  Verdict(ActivePolicies(q.request.owner),
                                [q.request EXCEPT !.risk = s.risk],
                                Spent(q.agent, audits) - saved) = "ALLOW"
      BY DEF LessIsNeverWorse
    <2>1. q.request \in Request /\ s.risk \in Int
      BY PermissionAssumption DEF Question, Request
    <2>2. ActivePolicies(q.request.owner) \in SUBSET Pool
      BY DEF ActivePolicies, TypeOK
    <2>3. Spent(q.agent, audits) \in Int
      BY SpentIsInt DEF TypeOK
    <2> DEFINE spent == Spent(q.agent, audits)
    <2> HIDE DEF spent
    <2>4. spent \in Int /\ spent - saved \in Int /\ spent - saved <= spent
      BY <2>3 DEF spent
    <2> QED
      BY <2>1, <2>2, <2>4, LessIsAllowed DEF spent
  <1> QED
    BY <1>1, TypeCorrect, PTL

-----------------------------------------------------------------------------
(* Every call runs on the same server.                                     *)
OneServer == \A c \in Call, s \in Server : ServerOf[c] = s

Alone == \A c, d \in Call : pc[c] \in HoldsLoop /\ pc[d] \in HoldsLoop => c = d

(* What call c has asked, decided by the tables as they are.               *)
Called(c) ==
  Verdict(ActivePolicies(asked[c].request.owner), asked[c].request,
          Spent(asked[c].agent, audits))

(* What an evaluation holds is what the tables still say.                  *)
Holds(c) ==
  /\ pc[c] = "spent" => held[c] = ActivePolicies(asked[c].request.owner)
  /\ pc[c] = "write" => outcome[c].decision \in {"DENY", Called(c)}

CurrentInv == TypeOK /\ Alone /\ \A c \in Call : Holds(c)

LEMMA StartsAlone ==
  ASSUME OneServer, NEW c \in Call, LoopFree(c)
  PROVE  \A d \in Call \ {c} : pc[d] \notin HoldsLoop
  BY PermissionAssumption DEF OneServer, LoopFree

LEMMA NextCurrent ==
  ASSUME OneServer, CurrentInv, TypeOK', [Next]_vars
  PROVE  CurrentInv'
  <1> USE DEF CurrentInv
  <1>1. ASSUME NEW s \in Server, NEW p \in Pool, CreatePolicy(s, p)
        PROVE  Alone' /\ \A d \in Call : Holds(d)'
    <2>1. \A d \in Call : pc[d] \notin HoldsLoop
      BY <1>1 DEF CreatePolicy, IdleServer, OneServer
    <2>2. pc' = pc
      BY <1>1 DEF CreatePolicy
    <2> QED
      BY <2>1, <2>2 DEF Alone, Holds, HoldsLoop
  <1>2. ASSUME NEW c \in Call, NEW q \in Question, Evaluate(c, q) \/ RecordDeny(c, q)
        PROVE  Alone' /\ \A d \in Call : Holds(d)'
    <2>1. /\ LoopFree(c) /\ UNCHANGED <<policies, audits>>
          /\ asked' = [asked EXCEPT ![c] = q]
          /\ pc' = [pc EXCEPT ![c] = "spent"] \/ pc' = [pc EXCEPT ![c] = "write"]
      BY <1>2 DEF Evaluate, RecordDeny, Start, Goto
    <2>2. \A d \in Call \ {c} : pc[d] \notin HoldsLoop
      BY <2>1, StartsAlone
    <2>3. \A d \in Call \ {c} : pc'[d] \notin HoldsLoop
      BY <2>1, <2>2 DEF TypeOK
    <2>4. Alone'
      BY <2>3 DEF Alone
    <2>5. \A d \in Call \ {c} : Holds(d)'
      BY <2>3 DEF Holds, HoldsLoop
    <2>6. Holds(c)'
      <3>1. CASE Evaluate(c, q)
        <4>1. held'[c] = ActivePolicies(q.request.owner) /\ asked'[c] = q /\ pc'[c] = "spent"
          BY <3>1 DEF Evaluate, Start, Goto, TypeOK
        <4>2. ActivePolicies(q.request.owner)' = ActivePolicies(q.request.owner)
          BY <2>1 DEF ActivePolicies
        <4> QED
          BY <4>1, <4>2, <2>1 DEF Holds, ActivePolicies
      <3>2. CASE RecordDeny(c, q)
        <4>1. outcome'[c] = Row(q, "DENY", None) /\ pc'[c] = "write"
          BY <3>2 DEF RecordDeny, Goto, TypeOK
        <4>2. outcome'[c].decision = "DENY"
          BY <4>1 DEF Row
        <4> QED
          BY <4>1, <4>2 DEF Holds
      <3> QED
        BY <1>2, <3>1, <3>2
    <2> QED
      BY <2>4, <2>5, <2>6
  <1>3. ASSUME NEW c \in Call, ReadSpent(c)
        PROVE  Alone' /\ \A d \in Call : Holds(d)'
    <2> DEFINE q == asked[c]
               decided == Verdict(held[c], q.request, Spent(q.agent, audits))
    <2>1. /\ pc[c] = "spent" /\ pc' = [pc EXCEPT ![c] = "write"]
          /\ UNCHANGED <<policies, audits, asked, held>>
          /\ outcome' = [outcome EXCEPT ![c] = Row(q, decided, Matched(held[c], q.request))]
      BY <1>3 DEF ReadSpent, Goto
    <2>2. \A d \in Call \ {c} : pc[d] \notin HoldsLoop
      BY <2>1 DEF Alone, HoldsLoop
    <2>3. \A d \in Call \ {c} : pc'[d] \notin HoldsLoop
      BY <2>1, <2>2 DEF TypeOK
    <2>4. outcome'[c].decision = decided
      BY <2>1 DEF Row, TypeOK
    <2>5. held[c] = ActivePolicies(q.request.owner)
      BY <2>1 DEF Holds
    <2>6. Called(c)' = Called(c)
      BY <2>1 DEF Called, ActivePolicies
    <2>7. decided = Called(c)
      BY <2>5 DEF Called
    <2>8. pc'[c] = "write"
      BY <2>1 DEF TypeOK
    <2> HIDE DEF decided, q
    <2>9. Holds(c)'
      BY <2>4, <2>6, <2>7, <2>8 DEF Holds
    <2>10. \A d \in Call \ {c} : Holds(d)'
      BY <2>3 DEF Holds, HoldsLoop
    <2> QED
      BY <2>3, <2>9, <2>10 DEF Alone
  <1>4. ASSUME NEW c \in Call, Write(c) \/ WriteThrows(c)
        PROVE  Alone' /\ \A d \in Call : Holds(d)'
    <2>1. /\ pc[c] = "write"
          /\ pc' = [pc EXCEPT ![c] = "done"] \/ pc' = [pc EXCEPT ![c] = "thrown"]
      BY <1>4 DEF Write, WriteThrows, Goto
    <2>2. \A d \in Call : pc'[d] \notin HoldsLoop
      BY <2>1 DEF Alone, TypeOK, HoldsLoop
    <2> QED
      BY <2>2 DEF Alone, Holds, HoldsLoop
  <1>5. ASSUME NEW s \in Server, Crash(s)
        PROVE  Alone' /\ \A d \in Call : Holds(d)'
    <2>1. \A d \in Call : pc'[d] \notin HoldsLoop
      BY <1>5, PermissionAssumption DEF Crash, Exposed, OneServer, Resting, HoldsLoop, TypeOK
    <2> QED
      BY <2>1 DEF Alone, Holds, HoldsLoop
  <1>6. CASE UNCHANGED vars
    BY <1>6 DEF vars, Alone, Holds, Called, ActivePolicies
  <1> QED
    BY <1>1, <1>2, <1>3, <1>4, <1>5, <1>6 DEF Next

(* On one server a decision is the one the policies and the spending of    *)
(* the moment call for, or a refusal, when its row is inserted.  Two       *)
(* servers sharing a database may allow more than that.                    *)
THEOREM DecisionsAreCurrent ==
  ASSUME OneServer
  PROVE  Spec => DecisionIsCurrent
  <1>1. Init => CurrentInv
    BY InitIInv DEF Init, CurrentInv, IInv, Alone, Holds, HoldsLoop
  <1>2. CurrentInv /\ TypeOK' /\ [Next]_vars => CurrentInv'
    BY NextCurrent
  <1>3. CurrentInv => [\A c \in Call :
          (pc[c] = "write" /\ pc'[c] = "done")
            => outcome[c].decision \in
                 {"DENY",
                  Verdict(ActivePolicies(asked[c].request.owner), asked[c].request,
                          Spent(asked[c].agent, audits))}]_vars
    BY DEF CurrentInv, Holds, Called
  <1> QED
    BY <1>1, <1>2, <1>3, TypeCorrect, PTL DEF Spec, DecisionIsCurrent

-----------------------------------------------------------------------------
(* A row that is about to be inserted and allows something leaves its      *)
(* agent within the total of the policy it was allowed under.              *)
Affords(row) ==
  (row.decision = "ALLOW" /\ row.matched.total # None)
    => Spent(row.agent, audits) + row.budget <= row.matched.total

SpendingInv ==
  /\ CurrentInv
  /\ \A c \in Call : pc[c] = "write" => Affords(outcome[c])
  /\ TotalBudgetKept

(* What the verdict ALLOW says of the policy the row names.                *)
LEMMA AllowedWithin ==
  ASSUME NEW ps, NEW r, NEW used, Verdict(ps, r, used) = "ALLOW",
         Matched(ps, r).total # None
  PROVE  used + Budget(r) <= Matched(ps, r).total
  BY DEF Verdict, Matched, Within

(* Earlier rows, and what had been spent with each of them, stay.          *)
LEMMA SpentEarlierStays ==
  ASSUME NEW rows \in Seq(Audit), NEW r \in Audit, NEW a, NEW k \in DOMAIN rows
  PROVE  Spent(a, SubSeq(Append(rows, r), 1, k)) = Spent(a, SubSeq(rows, 1, k))
  <1> DEFINE more == Append(rows, r)
  <1>1. /\ more \in Seq(Audit) /\ Len(rows) \in Nat /\ k \in 1 .. Len(rows)
        /\ Len(more) = Len(rows) + 1 /\ \A j \in 1 .. Len(rows) : more[j] = rows[j]
    OBVIOUS
  <1>2. /\ SubSeq(more, 1, k) = [j \in 1 .. k |-> more[j]]
        /\ SubSeq(rows, 1, k) = [j \in 1 .. k |-> rows[j]]
    BY <1>1
  <1>3. SubSeq(more, 1, k) = SubSeq(rows, 1, k)
    BY <1>1, <1>2
  <1> QED
    BY <1>3

(* Inserting a row its agent can afford keeps every total.                 *)
LEMMA WriteKeepsTotals ==
  ASSUME TypeOK, TotalBudgetKept, NEW row \in Audit, Affords(row),
         audits' = Append(audits, row)
  PROVE  TotalBudgetKept'
  <1> SUFFICES ASSUME NEW k \in DOMAIN audits', audits'[k].decision = "ALLOW",
                      audits'[k].matched.total # None
               PROVE  Spent(audits'[k].agent, SubSeq(audits', 1, k))
                        <= audits'[k].matched.total
    BY DEF TotalBudgetKept
  <1>1. /\ audits \in Seq(Audit) /\ Len(audits) \in Nat /\ DOMAIN audits = 1 .. Len(audits)
        /\ audits' \in Seq(Audit) /\ DOMAIN audits' = DOMAIN audits \cup {Len(audits) + 1}
        /\ audits'[Len(audits) + 1] = row
        /\ \A j \in DOMAIN audits : audits'[j] = audits[j]
    BY DEF TypeOK
  <1>2. CASE k \in DOMAIN audits
    <2>1. audits'[k] = audits[k]
      BY <1>1, <1>2
    <2>2. \A a : Spent(a, SubSeq(audits', 1, k)) = Spent(a, SubSeq(audits, 1, k))
      <3>1. \A a : Spent(a, SubSeq(Append(audits, row), 1, k)) = Spent(a, SubSeq(audits, 1, k))
        BY <1>1, <1>2, SpentEarlierStays
      <3> QED
        BY <3>1
    <2>3. Spent(audits[k].agent, SubSeq(audits, 1, k)) <= audits[k].matched.total
      BY <1>2, <2>1 DEF TotalBudgetKept
    <2> QED
      BY <2>1, <2>2, <2>3
  <1>3. CASE k = Len(audits) + 1
    <2>1. audits'[k] = row /\ SubSeq(audits', 1, k) = audits'
      BY <1>1, <1>3
    <2>2. Spent(row.agent, audits') = Spent(row.agent, audits) + row.budget
      <3>1. audits' = Append(audits, row) /\ audits \in Seq(Audit)
        BY DEF TypeOK
      <3>2. Spent(row.agent, Append(audits, row)) = Spent(row.agent, audits) + Used(row.agent, row)
        BY <3>1, SpentAppends
      <3>3. Used(row.agent, row) = row.budget
        BY <2>1 DEF Used
      <3>4. Spent(row.agent, audits') = Spent(row.agent, Append(audits, row))
        BY <3>1
      <3> QED
        BY <3>2, <3>3, <3>4
    <2>3. Spent(row.agent, audits) + row.budget <= row.matched.total
      BY <2>1 DEF Affords
    <2> QED
      BY <2>1, <2>2, <2>3
  <1> QED
    BY <1>1, <1>2, <1>3

LEMMA NextSpending ==
  ASSUME OneServer, IInv, SpendingInv, CurrentInv', [Next]_vars
  PROVE  SpendingInv'
  <1> USE DEF SpendingInv
  <1>0. TypeOK
    BY DEF CurrentInv
  <1>1. ASSUME UNCHANGED audits,
               \A c \in Call : pc'[c] = "write" => pc[c] = "write" /\ outcome'[c] = outcome[c]
        PROVE  SpendingInv'
    BY <1>1 DEF Affords, TotalBudgetKept
  <1>2. ASSUME NEW s \in Server, NEW p \in Pool, CreatePolicy(s, p) PROVE SpendingInv'
    BY <1>1, <1>2 DEF CreatePolicy
  <1>3. ASSUME NEW c \in Call, NEW q \in Question, Evaluate(c, q) PROVE SpendingInv'
    BY <1>0, <1>1, <1>3 DEF Evaluate, Start, Goto, TypeOK
  <1>4. ASSUME NEW c \in Call, NEW q \in Question, RecordDeny(c, q) PROVE SpendingInv'
    <2>1. /\ UNCHANGED audits /\ outcome'[c].decision = "DENY"
          /\ \A d \in Call \ {c} : pc'[d] = pc[d] /\ outcome'[d] = outcome[d]
      BY <1>0, <1>4 DEF RecordDeny, Start, Goto, TypeOK, Row
    <2> QED
      BY <2>1 DEF Affords, TotalBudgetKept
  <1>5. ASSUME NEW c \in Call, ReadSpent(c) PROVE SpendingInv'
    <2> DEFINE q == asked[c]
               used == Spent(q.agent, audits)
               row == Row(q, Verdict(held[c], q.request, used), Matched(held[c], q.request))
    <2>1. /\ UNCHANGED audits /\ outcome'[c] = row
          /\ \A d \in Call \ {c} : pc'[d] = pc[d] /\ outcome'[d] = outcome[d]
      BY <1>0, <1>5 DEF ReadSpent, Goto, TypeOK
    <2>2. Affords(row)
      BY AllowedWithin DEF Affords, Row
    <2> HIDE DEF row
    <2>3. Affords(outcome[c])'
      BY <2>1, <2>2 DEF Affords
    <2>4. ASSUME NEW d \in Call, pc'[d] = "write" PROVE Affords(outcome[d])'
      <3>1. d = c \/ (pc[d] = "write" /\ outcome'[d] = outcome[d])
        BY <2>1, <2>4
      <3>2. d # c => Affords(outcome[d])
        BY <3>1
      <3> QED
        BY <2>1, <2>3, <3>1, <3>2 DEF Affords
    <2>5. TotalBudgetKept'
      BY <2>1 DEF TotalBudgetKept
    <2> QED
      BY <2>4, <2>5
  <1>6. ASSUME NEW c \in Call, Write(c) PROVE SpendingInv'
    <2>1. /\ pc[c] = "write" /\ audits' = Append(audits, outcome[c])
          /\ pc' = [pc EXCEPT ![c] = "done"]
      BY <1>6 DEF Write, Goto
    <2>2. outcome[c] \in Audit /\ Affords(outcome[c])
      BY <2>1 DEF IInv, Decides
    <2>3. TotalBudgetKept'
      BY <1>0, <2>1, <2>2, WriteKeepsTotals
    <2>4. \A d \in Call : pc'[d] # "write"
      BY <1>0, <2>1 DEF CurrentInv, Alone, HoldsLoop, TypeOK
    <2> QED
      BY <2>3, <2>4
  <1>7. ASSUME NEW c \in Call, WriteThrows(c) PROVE SpendingInv'
    BY <1>0, <1>1, <1>7 DEF WriteThrows, Forget, Goto, TypeOK
  <1>8. ASSUME NEW s \in Server, Crash(s) PROVE SpendingInv'
    BY <1>0, <1>1, <1>8 DEF Crash, Exposed, TypeOK
  <1>9. CASE UNCHANGED vars
    BY <1>1, <1>9 DEF vars
  <1> QED
    BY <1>2, <1>3, <1>4, <1>5, <1>6, <1>7, <1>8, <1>9 DEF Next

(* On one server what an agent was allowed never sums to more than the     *)
(* maxTotalBudget under which its latest request was allowed: no row comes *)
(* between the sum an evaluation reads and the row it inserts.             *)
THEOREM TotalBudgetsAreKept ==
  ASSUME OneServer
  PROVE  Spec => []TotalBudgetKept
  <1>1. Init => IInv /\ CurrentInv /\ SpendingInv
    <2>1. Init => IInv /\ CurrentInv
      BY InitIInv DEF Init, CurrentInv, IInv, Alone, Holds, HoldsLoop
    <2> QED
      BY <2>1 DEF Init, SpendingInv, TotalBudgetKept
  <1>2. IInv /\ [Next]_vars => IInv'
    BY NextIInv
  <1>3. CurrentInv /\ IInv' /\ [Next]_vars => CurrentInv'
    BY NextCurrent DEF IInv
  <1>4. IInv /\ SpendingInv /\ CurrentInv' /\ [Next]_vars => SpendingInv'
    BY NextSpending
  <1>5. SpendingInv => TotalBudgetKept
    BY DEF SpendingInv
  <1> QED
    BY <1>1, <1>2, <1>3, <1>4, <1>5, PTL DEF Spec
=============================================================================
