---------------------------- MODULE InvokeProofs ----------------------------
(***************************************************************************)
(* Theorems about Invoke, for every set of agents, keys, tokens, calls and *)
(* requests.                                                               *)
(***************************************************************************)
EXTENDS Invoke, FiniteSetTheorems, TLAPS

Inside(c) == pc[c] \notin Resting

(* Where a call has not been decided, and where its handler has been run.  *)
Undecided == {"resolved", "verified", "checked"}
Ran == {"handler", "chain", "settled", "caught", "recorded"}
Refused == {"refuse", "key"}
Written == {"recorded", "key"}

(* Local variables of a call in progress agree with its request and pc.    *)
Carries ==
  \A c \in Call : Inside(c) =>
    /\ req[c] \in Requests
    /\ local[c] \in Local
    /\ local[c].exec = IF req[c].exec # None THEN req[c].exec ELSE c
    /\ pc[c] = "verified" => req[c].token # None
    /\ pc[c] = "chain" => req[c].pay # None
    /\ pc[c] \in {"settled", "recorded"} => local[c].outcome \in {"SUCCESS", "FAILED"}
    /\ pc[c] = "caught" => local[c].outcome = "FAILED"
    /\ pc[c] \notin {"settled", "caught", "recorded"} => local[c].outcome = "DENIED"
    /\ pc[c] \notin {"settled", "recorded"} => local[c].settlement = None

(* An execution that was not refused rests on an ALLOW row, and each on    *)
(* a row of its own agent; so does each call in progress.                  *)
AuditsHold ==
  /\ \A c \in Call : (Inside(c) /\ pc[c] \notin Undecided) =>
       /\ local[c].audit \in 1..Len(audits)
       /\ audits[local[c].audit].agent = req[c].agent
       /\ pc[c] \in Ran => audits[local[c].audit].decision = "ALLOW" /\ ~local[c].refused
  /\ \A e \in ExecId : execs[e] # None =>
       /\ execs[e].audit \in 1..Len(audits)
       /\ audits[execs[e].audit].agent = execs[e].agent
       /\ execs[e].status # "DENIED" => audits[execs[e].audit].decision = "ALLOW"

(* No audit row serves two calls, two executions, or a call and another's  *)
(* execution.                                                              *)
AuditsApart ==
  /\ \A c, d \in Call :
       (/\ Inside(c) /\ pc[c] \notin Undecided
        /\ Inside(d) /\ pc[d] \notin Undecided
        /\ local[c].audit = local[d].audit) => c = d
  /\ \A c \in Call, e \in ExecId :
       (/\ Inside(c) /\ pc[c] \notin Undecided
        /\ execs[e] # None /\ execs[e].audit = local[c].audit)
         => pc[c] \in Written /\ e = local[c].exec
  /\ \A e, f \in ExecId :
       (execs[e] # None /\ execs[f] # None /\ execs[e].audit = execs[f].audit) => e = f

(* What a call has written, keyed and answered stays.                      *)
AnswersHold ==
  /\ \A c \in Call : pc[c] \in Written => execs[local[c].exec] = ExecRow(c)
  /\ \A p \in Agent \X Key : keys[p] # None =>
       execs[keys[p]] # None /\ execs[keys[p]].agent = p[1]
  /\ \A c \in Call : pc[c] = "done" =>
       /\ req[c] \in Requests
       /\ reply[c] \in [id : ExecId, row : ExecRecord]
  /\ ReplyIsStored

(* A late call is refused wherever it stands.                              *)
LateAt(c) ==
  /\ Inside(c) /\ Dead(req[c])
  /\ (pc[c] = "resolved" /\ local[c].active) =>
       req[c].token # None /\ req[c].token \notin live
  /\ pc[c] = "verified" => req[c].token \notin live
  /\ pc[c] \in {"checked", "decided"} => local[c].refused
  /\ pc[c] \notin Ran

LateHeld == \A c \in late : LateAt(c)

(* Of a pair without duplicates at most one call is in progress; once it is*)
(* past the lookup the key is free, and the handler has run only if the key*)
(* is taken or that call ran it.                                           *)
RunHeld ==
  \A p \in (Agent \X Key) \ rough :
    /\ \A c, d \in Busy(p) : c = d
    /\ \A c \in Busy(p) : pc[c] # "resolved" => keys[p] = None
    /\ runs[p] \in {0, 1}
    /\ (runs[p] = 1 /\ keys[p] = None) => \E c \in Busy(p) : pc[c] \in Ran

(* Settlement s has been decided as the handler records it.                *)
Reports(row, s) ==
  /\ row.settlement = s
  /\ (row.status = "SUCCESS") = (records[s].status # "ROLLED_BACK")

(* A settlement under an execution id that newId drew was made by the call *)
(* that drew it, whose outcome and row name it, unless they could not be   *)
(* written.                                                                *)
SettleHeld ==
  /\ \A c \in Call : (pc[c] = "idle" \/ (Inside(c) /\ pc[c] \notin Written)) => execs[c] = None
  /\ \A c \in Call, s \in SettlementId :
       (records[s] # None /\ records[s].execution = c) =>
         /\ pc[c] # "idle"
         /\ Inside(c) => /\ pc[c] \in {"settled", "recorded"}
                         /\ c \notin unwritten => Reports(ExecRow(c), s)
         /\ execs[c] # None => (c \notin unwritten => Reports(execs[c], s))
  /\ \A c \in unwritten :
       /\ pc[c] # "idle" /\ (Inside(c) => pc[c] = "recorded")
       /\ execs[c] # None => execs[c].status = "FAILED" /\ execs[c].settlement = None

Settlements ==
  {s \in SettlementId : records[s] # None /\ records[s].execution # None}
AllowRows == {k \in 1..Len(audits) : audits[k].decision = "ALLOW"}

(* The settlements of invocations can be given ALLOW rows of their own,    *)
(* none of them the row of a call that has yet to settle.                  *)
Paired ==
  \E f \in [Settlements -> AllowRows] :
    /\ \A s, t \in Settlements : f[s] = f[t] => s = t
    /\ \A c \in Call, s \in Settlements :
         pc[c] \in {"decided", "handler", "chain"} => f[s] # local[c].audit

(* The inductive invariant.                                                *)
IInv ==
  /\ TypeOK
  /\ Carries
  /\ AuditsHold
  /\ AuditsApart
  /\ AnswersHold
  /\ LateHeld
  /\ RunHeld
  /\ SettleHeld
  /\ Paired
-----------------------------------------------------------------------------
(* Requests and rows are what they should be.                              *)
LEMMA RequestFacts ==
  ASSUME NEW r \in Requests
  PROVE  /\ r \in Request /\ r # None /\ Scoped(r) \in Agent \X Key
         /\ Scoped(r)[1] = r.agent
  BY InvokeAssumption DEF Request, Scoped

(* The initial state satisfies the invariant.                              *)
LEMMA InitIInv == Init => IInv
  <1> SUFFICES ASSUME Init PROVE IInv
    OBVIOUS
  <1> USE InvokeAssumption DEF Init
  <1>1. TypeOK
    BY DEF TypeOK, Ledger!LedgerInit, Label, Resting
  <1>2. Carries /\ AuditsHold /\ AuditsApart /\ AnswersHold /\ LateHeld /\ SettleHeld
    BY DEF Carries, AuditsHold, AuditsApart, AnswersHold, LateHeld, LateAt, SettleHeld, Inside,
           Resting, ReplyIsStored, Written, Ledger!LedgerInit, ExecId
  <1>3. RunHeld
    BY DEF RunHeld, Busy, Resting
  <1>4. Paired
    <2>1. Settlements = {}
      BY DEF Settlements, Ledger!LedgerInit
    <2>2. [s \in {} |-> 0] \in [Settlements -> AllowRows]
      BY <2>1
    <2> QED
      BY <2>1, <2>2 DEF Paired
  <1> QED
    BY <1>1, <1>2, <1>3, <1>4 DEF IInv

(* Pairings outlive every step that keeps the settlements of invocations,  *)
(* loses no audit row, and brings no call with an old row before its       *)
(* settlement.                                                             *)
LEMMA PairedStays ==
  ASSUME Paired, Settlements' = Settlements, AllowRows \subseteq AllowRows',
         \A d \in Call : pc'[d] \in {"decided", "handler", "chain"} =>
           \/ pc[d] \in {"decided", "handler", "chain"} /\ local'[d].audit = local[d].audit
           \/ local'[d].audit \notin AllowRows
  PROVE  Paired'
  <1>1. PICK f \in [Settlements -> AllowRows] :
          /\ \A s, t \in Settlements : f[s] = f[t] => s = t
          /\ \A d \in Call, s \in Settlements :
               pc[d] \in {"decided", "handler", "chain"} => f[s] # local[d].audit
    BY DEF Paired
  <1>2. f \in [Settlements' -> AllowRows']
    OBVIOUS
  <1>3. ASSUME NEW d \in Call, NEW s \in Settlements,
               pc'[d] \in {"decided", "handler", "chain"}
        PROVE  f[s] # local'[d].audit
    BY <1>1, <1>3
  <1> QED
    BY <1>1, <1>2, <1>3 DEF Paired

(* The rows that allow, when audits stay.                                  *)
LEMMA AllowRowsStay ==
  ASSUME audits' = audits
  PROVE  AllowRows' = AllowRows
  BY DEF AllowRows

LEMMA SettlementsStay ==
  ASSUME records' = records
  PROVE  Settlements' = Settlements
  BY DEF Settlements

(* A step of call c: the other calls stay where they are.                  *)
Others(c) ==
  /\ \A d \in Call \ {c} : pc'[d] = pc[d] /\ local'[d] = local[d]
  /\ req' = req

(* Call c goes on: what it will write is the same.                         *)
GoesOn(c) ==
  /\ Others(c) /\ Inside(c) /\ Inside(c)'
  /\ pc'[c] \in Label
  /\ pc' \in [Call -> Label] /\ local' \in [Call -> Local \cup {None}]
  /\ local'[c] \in Local
  /\ local'[c].exec = local[c].exec

SameRow(c) ==
  /\ local'[c].outcome = local[c].outcome
  /\ local'[c].settlement = local[c].settlement

(* What a handler has run for stays as it is while a call goes on, past    *)
(* the lookup only if its key is free.                                     *)
LEMMA RunStays ==
  ASSUME RunHeld, NEW c \in Call, Others(c), Inside(c), Inside(c)',
         keys' = keys, runs' = runs, rough' = rough,
         pc[c] \in Ran => pc'[c] \in Ran,
         pc[c] = "resolved" => keys[Scoped(req[c])] = None
  PROVE  RunHeld'
  <1>1. \A p \in Agent \X Key : Busy(p)' = Busy(p)
    BY DEF Busy, Inside, Others
  <1> SUFFICES ASSUME NEW p \in (Agent \X Key) \ rough
               PROVE  /\ \A d, e \in Busy(p) : d = e
                      /\ \A d \in Busy(p) : pc'[d] # "resolved" => keys[p] = None
                      /\ runs[p] \in {0, 1}
                      /\ (runs[p] = 1 /\ keys[p] = None) => \E d \in Busy(p) : pc'[d] \in Ran
    BY <1>1 DEF RunHeld
  <1>2. \A d \in Busy(p) : pc'[d] # "resolved" => keys[p] = None
    BY DEF RunHeld, Busy, Others
  <1>3. (runs[p] = 1 /\ keys[p] = None) => \E d \in Busy(p) : pc'[d] \in Ran
    BY DEF RunHeld, Busy, Others
  <1> QED
    BY <1>2, <1>3 DEF RunHeld

(* Settlements stay reported while a call goes on.                         *)
LEMMA SettleStays ==
  ASSUME SettleHeld, NEW c \in Call, Others(c), Inside(c), Inside(c)',
         execs' = execs, records' = records, unwritten' = unwritten, unwritten \subseteq Call,
         pc[c] \notin Written,
         pc[c] \in {"settled", "recorded"} =>
           pc'[c] \in {"settled", "recorded"} /\ SameRow(c)
  PROVE  SettleHeld'
  <1>1. \A d \in Call : (pc'[d] = "idle" \/ (Inside(d)' /\ pc'[d] \notin Written))
                         => execs[d] = None
    BY DEF SettleHeld, Others, Inside, Resting
  <1>2. ASSUME NEW d \in Call, NEW s \in SettlementId, records[s] # None, records[s].execution = d
        PROVE  /\ pc'[d] # "idle"
               /\ Inside(d)' => /\ pc'[d] \in {"settled", "recorded"}
                                /\ d \notin unwritten => Reports(ExecRow(d), s)'
               /\ execs[d] # None => (d \notin unwritten => Reports(execs[d], s))
    <2>1. CASE d # c
      BY <1>2, <2>1 DEF SettleHeld, Others, Inside, Reports, ExecRow
    <2>2. CASE d = c
      BY <1>2, <2>2 DEF SettleHeld, SameRow, Inside, Resting, Reports, ExecRow
    <2> QED
      BY <2>1, <2>2
  <1>3. \A d \in Call, s \in SettlementId : Reports(execs[d], s)' = Reports(execs[d], s)
    BY DEF Reports
  <1>4. \A d \in unwritten : pc'[d] # "idle" /\ (Inside(d)' => pc'[d] = "recorded")
    BY DEF SettleHeld, Others, Inside, Written
  <1> QED
    BY <1>1, <1>2, <1>3, <1>4 DEF SettleHeld

(* Before the handler has run a call only checks.                          *)
Checks(c) ==
  /\ GoesOn(c) /\ SameRow(c) /\ local'[c].audit = local[c].audit
  /\ UNCHANGED <<active, live, bound, audits, execs, keys, balance, records, reply,
                 runs, rough, late, unwritten>>
  /\ pc'[c] \in {"verified", "checked", "refuse"}
  /\ pc[c] \in {"resolved", "verified", "decided"}
  /\ pc[c] = "resolved" => keys[Scoped(req[c])] = None
  /\ pc'[c] = "verified" => req[c].token # None
  /\ pc'[c] = "refuse" <=> pc[c] = "decided"

(* Noting the signature check or a refusal changes nothing else.           *)
LEMMA Noted ==
  ASSUME NEW l \in Local, NEW b \in BOOLEAN
  PROVE  /\ [l EXCEPT !.valid = b] \in Local
         /\ [l EXCEPT !.refused = b] \in Local
         /\ [l EXCEPT !.refused = b].refused = b
         /\ \A v \in {[l EXCEPT !.valid = b], [l EXCEPT !.refused = b]} :
              /\ v.exec = l.exec /\ v.outcome = l.outcome
              /\ v.settlement = l.settlement /\ v.audit = l.audit
  BY DEF Local

LEMMA CheckCapabilityChecks ==
  ASSUME IInv, NEW c \in Call, CheckCapability(c)
  PROVE  /\ Checks(c)
         /\ pc'[c] = "checked" => req[c].token = None
         /\ pc[c] = "resolved" /\ local[c].active
  <1>0. TypeOK /\ Carries
    BY DEF IInv
  <1>1. pc[c] = "resolved" /\ local[c].active /\ Known(c) = None
    BY DEF CheckCapability
  <1>2. local[c] \in Local /\ local \in [Call -> Local \cup {None}] /\ pc \in [Call -> Label]
    BY <1>0, <1>1 DEF Carries, Inside, Resting, TypeOK
  <1>3. UNCHANGED <<active, live, bound, audits, execs, keys, balance, records, req, reply,
                    runs, rough, late, unwritten>>
    BY DEF CheckCapability, db, stores, ledger, history
  <1>4. CASE req[c].token # None
    <2> DEFINE b == req[c].token \in live
               v == [local[c] EXCEPT !.valid = b]
    <2>1. local' = [local EXCEPT ![c] = v] /\ pc' = [pc EXCEPT ![c] = "verified"]
      BY <1>4 DEF CheckCapability, Goto
    <2>b. b \in BOOLEAN
      OBVIOUS
    <2> HIDE DEF b
    <2>2. v \in Local /\ v.exec = local[c].exec /\ v.outcome = local[c].outcome
          /\ v.settlement = local[c].settlement /\ v.audit = local[c].audit
      BY <1>2, <2>b, Noted
    <2> HIDE DEF v
    <2>3. local'[c] = v /\ pc'[c] = "verified"
      BY <2>1, <1>2
    <2>4. Checks(c)
      BY <1>1, <1>2, <1>3, <1>4, <2>1, <2>2, <2>3
      DEF Checks, GoesOn, SameRow, Others, Inside, Resting, Label, Known
    <2> QED
      BY <2>4, <2>2, <2>3, <1>1, <1>4
  <1>5. CASE req[c].token = None
    <2> DEFINE b == req[c].agent \notin Capable
               v == [local[c] EXCEPT !.refused = b]
    <2>1. local' = [local EXCEPT ![c] = v] /\ pc' = [pc EXCEPT ![c] = "checked"]
      BY <1>5 DEF CheckCapability, Goto
    <2>b. b \in BOOLEAN
      OBVIOUS
    <2> HIDE DEF b
    <2>2. v \in Local /\ v.exec = local[c].exec /\ v.outcome = local[c].outcome
          /\ v.settlement = local[c].settlement /\ v.audit = local[c].audit
      BY <1>2, <2>b, Noted
    <2> HIDE DEF v
    <2>3. local'[c] = v /\ pc'[c] = "checked"
      BY <2>1, <1>2
    <2>4. Checks(c)
      BY <1>1, <1>2, <1>3, <1>5, <2>1, <2>2, <2>3
      DEF Checks, GoesOn, SameRow, Others, Inside, Resting, Label, Known
    <2> QED
      BY <2>4, <2>2, <2>3, <1>1, <1>5
  <1> QED
    BY <1>4, <1>5

LEMMA CheckTokenChecks ==
  ASSUME IInv, NEW c \in Call, CheckToken(c)
  PROVE  /\ Checks(c)
         /\ req[c].token \notin live => local'[c].refused
         /\ pc[c] = "verified" /\ pc'[c] = "checked"
  <1>0. TypeOK /\ Carries
    BY DEF IInv
  <1>1. pc[c] = "verified"
    BY DEF CheckToken
  <1>2. local[c] \in Local /\ local \in [Call -> Local \cup {None}] /\ pc \in [Call -> Label]
    BY <1>0, <1>1 DEF Carries, Inside, Resting, TypeOK
  <1>3. UNCHANGED <<active, live, bound, audits, execs, keys, balance, records, req, reply,
                    runs, rough, late, unwritten>>
    BY DEF CheckToken, db, stores, ledger, history
  <1>4. PICK b \in BOOLEAN : /\ local' = [local EXCEPT ![c] = [local[c] EXCEPT !.refused = b]]
                             /\ req[c].token \notin live => b
    BY DEF CheckToken
  <1> DEFINE v == [local[c] EXCEPT !.refused = b]
  <1>5. local' = [local EXCEPT ![c] = v] /\ pc' = [pc EXCEPT ![c] = "checked"]
    BY <1>4 DEF CheckToken, Goto
  <1>6. v \in Local /\ v.exec = local[c].exec /\ v.outcome = local[c].outcome
        /\ v.settlement = local[c].settlement /\ v.audit = local[c].audit
        /\ v.refused = b
    BY <1>2, Noted
  <1> HIDE DEF v
  <1>7. local'[c] = v /\ pc'[c] = "checked"
    BY <1>5, <1>2
  <1>8. Checks(c)
    BY <1>1, <1>2, <1>3, <1>5, <1>6, <1>7
    DEF Checks, GoesOn, SameRow, Others, Inside, Resting, Label
  <1> QED
    BY <1>1, <1>4, <1>6, <1>7, <1>8

LEMMA RefuseDecidedChecks ==
  ASSUME IInv, NEW c \in Call, RefuseDecided(c)
  PROVE  Checks(c) /\ pc'[c] = "refuse"
  <1>0. TypeOK /\ Carries
    BY DEF IInv
  <1>1. pc[c] = "decided" /\ pc' = [pc EXCEPT ![c] = "refuse"] /\ local' = local
    BY DEF RefuseDecided, Goto
  <1>2. local[c] \in Local /\ local \in [Call -> Local \cup {None}] /\ pc \in [Call -> Label]
    BY <1>0, <1>1 DEF Carries, Inside, Resting, TypeOK
  <1>3. UNCHANGED <<active, live, bound, audits, execs, keys, balance, records, req, reply,
                    runs, rough, late, unwritten>>
    BY DEF RefuseDecided, db, stores, ledger, history
  <1> QED
    BY <1>1, <1>2, <1>3
    DEF Checks, GoesOn, SameRow, Others, Inside, Resting, Label, HoldsLoop

LEMMA ChecksKeep ==
  ASSUME IInv, NEW c \in Call, Checks(c)
  PROVE  /\ TypeOK' /\ Carries' /\ AuditsHold' /\ AuditsApart' /\ AnswersHold'
         /\ RunHeld' /\ SettleHeld' /\ Paired'
  <1> USE DEF Checks, GoesOn, Others, SameRow
  <1>1. TypeOK'
    BY DEF IInv, TypeOK
  <1>2. Carries'
    BY DEF IInv, Carries, Inside
  <1>3. AuditsHold'
    BY DEF IInv, AuditsHold, Inside, Undecided, Ran
  <1>4. AuditsApart'
    BY DEF IInv, AuditsApart, Inside, Undecided, Written
  <1>5. AnswersHold'
    BY DEF IInv, AnswersHold, ReplyIsStored, Inside, Resting, Written, ExecRow
  <1>7. RunHeld'
    BY RunStays DEF IInv, Ran
  <1>8. SettleHeld'
    BY SettleStays DEF IInv, TypeOK, Written
  <1>9. Paired'
    BY PairedStays, AllowRowsStay, SettlementsStay DEF IInv
  <1> QED
    BY <1>1, <1>2, <1>3, <1>4, <1>5, <1>7, <1>8, <1>9

(* The steps that check a request preserve the invariant.                  *)
LEMMA CheckStep ==
  ASSUME IInv, NEW c \in Call,
         CheckCapability(c) \/ CheckToken(c) \/ RefuseDecided(c)
  PROVE  IInv'
  <1>1. /\ Checks(c)
        /\ pc'[c] = "checked" =>
             (pc[c] = "resolved" /\ local[c].active /\ req[c].token = None)
               \/ (pc[c] = "verified" /\ (req[c].token \notin live => local'[c].refused))
        /\ pc'[c] = "verified" => pc[c] = "resolved" /\ local[c].active
    BY CheckCapabilityChecks, CheckTokenChecks, RefuseDecidedChecks DEF Checks
  <1>2. LateHeld'
    <2> SUFFICES ASSUME NEW d \in late
                 PROVE  LateAt(d)'
      BY <1>1 DEF LateHeld, Checks
    <2>1. d \in Call /\ LateAt(d)
      BY DEF IInv, TypeOK, LateHeld
    <2>2. active' = active /\ live' = live /\ req' = req
      BY <1>1 DEF Checks, GoesOn, Others
    <2>3. CASE d # c
      <3>1. pc'[d] = pc[d] /\ local'[d] = local[d]
        BY <1>1, <2>1, <2>3 DEF Checks, GoesOn, Others
      <3> QED
        BY <2>1, <2>2, <3>1 DEF LateAt, Inside, Dead
    <2>4. CASE d = c
      <3>1. pc'[c] \in {"verified", "checked", "refuse"} /\ Inside(c)'
        BY <1>1 DEF Checks, GoesOn
      <3>2. Dead(req[c])'
        BY <2>1, <2>2, <2>4 DEF LateAt, Dead
      <3> QED
        BY <1>1, <2>1, <2>2, <2>4, <3>1, <3>2 DEF LateAt, Ran
    <2> QED
      BY <2>3, <2>4
  <1>3. /\ TypeOK' /\ Carries' /\ AuditsHold' /\ AuditsApart' /\ AnswersHold'
        /\ RunHeld' /\ SettleHeld' /\ Paired'
    BY <1>1, ChecksKeep
  <1> QED
    BY <1>2, <1>3 DEF IInv

-----------------------------------------------------------------------------
(* A step writes one audit row, about the agent of the call, and the call  *)
(* is decided by it or refused.                                            *)
Audits(c) ==
  /\ GoesOn(c) /\ SameRow(c)
  /\ UNCHANGED <<active, live, bound, execs, keys, balance, records, reply, runs, rough, late,
                 unwritten>>
  /\ audits' \in Seq([agent : Agent, decision : Decision])
  /\ Len(audits') = Len(audits) + 1
  /\ \A k \in 1..Len(audits) : audits'[k] = audits[k]
  /\ audits'[Len(audits) + 1].agent = req[c].agent
  /\ local'[c].audit = Len(audits) + 1
  /\ local'[c].refused = local[c].refused
  /\ pc'[c] \in {"refuse", "decided"}
  /\ pc[c] \in {"resolved", "checked", "decided"}
  /\ pc[c] = "resolved" => keys[Scoped(req[c])] = None
  /\ pc'[c] = "decided" => pc[c] = "checked"

LEMMA AuditedAudits ==
  ASSUME TypeOK, Carries, NEW c \in Call, NEW decision \in Decision, Audited(c, decision),
         NEW l \in {"refuse", "decided"}, Goto(c, l),
         UNCHANGED <<stores, execs, keys, ledger, req, reply, history>>,
         pc[c] \in {"resolved", "checked", "decided"},
         pc[c] = "resolved" => Known(c) = None,
         l = "decided" => pc[c] = "checked"
  PROVE  Audits(c)
  <1>1. /\ local[c] \in Local /\ local \in [Call -> Local \cup {None}] /\ pc \in [Call -> Label]
        /\ req[c] \in Requests /\ audits \in Seq([agent : Agent, decision : Decision])
    BY DEF Carries, Inside, Resting, TypeOK
  <1>2. req[c].agent \in Agent
    BY <1>1, RequestFacts DEF Request
  <1> DEFINE row == [agent |-> req[c].agent, decision |-> decision]
             v == [local[c] EXCEPT !.audit = Len(audits) + 1]
  <1>3. audits' = Append(audits, row) /\ local' = [local EXCEPT ![c] = v]
        /\ pc' = [pc EXCEPT ![c] = l]
    BY DEF Audited, Goto
  <1>4. row \in [agent : Agent, decision : Decision] /\ row.agent = req[c].agent
    BY <1>2
  <1> HIDE DEF row
  <1>5. /\ audits' \in Seq([agent : Agent, decision : Decision])
        /\ Len(audits') = Len(audits) + 1
        /\ \A k \in 1..Len(audits) : audits'[k] = audits[k]
        /\ audits'[Len(audits) + 1] = row
    BY <1>1, <1>3, <1>4
  <1>6. /\ v \in Local /\ v.exec = local[c].exec /\ v.outcome = local[c].outcome
        /\ v.settlement = local[c].settlement /\ v.audit = Len(audits) + 1
        /\ v.refused = local[c].refused
    BY <1>1 DEF Local
  <1> HIDE DEF v
  <1>7. local'[c] = v /\ pc'[c] = l
    BY <1>1, <1>3
  <1> QED
    BY <1>1, <1>3, <1>4, <1>5, <1>6, <1>7
    DEF Audits, GoesOn, SameRow, Others, Inside, Resting, Label, HoldsLoop, Known,
        stores, ledger, history

(* A call that goes on, and is not a late one, leaves the late ones late.  *)
LEMMA LateStays ==
  ASSUME TypeOK, LateHeld, NEW c \in Call, Others(c), active' = active, live' = live,
         late' \subseteq late \ {c}
  PROVE  LateHeld'
  <1> SUFFICES ASSUME NEW d \in late, d # c PROVE LateAt(d)'
    BY DEF LateHeld
  <1>1. d \in Call /\ LateAt(d)
    BY DEF TypeOK, LateHeld
  <1> QED
    BY <1>1 DEF LateAt, Others, Inside, Dead

LEMMA AuditsKeep ==
  ASSUME IInv, NEW c \in Call, Audits(c)
  PROVE  IInv'
  <1> USE DEF Audits, GoesOn, Others, SameRow
  <1>0. Len(audits) \in Nat
    BY DEF IInv, TypeOK
  <1>1. TypeOK'
    BY DEF IInv, TypeOK
  <1>2. Carries'
    BY DEF IInv, Carries, Inside
  <1>3. AuditsHold'
    BY <1>0 DEF IInv, AuditsHold, Inside, Undecided, Ran
  <1>4. AuditsApart'
    <2>1. \A d \in Call : Inside(d) /\ pc[d] \notin Undecided => local[d].audit # Len(audits) + 1
      BY <1>0 DEF IInv, AuditsHold
    <2>2. \A e \in ExecId : execs[e] # None => execs[e].audit # Len(audits) + 1
      BY <1>0 DEF IInv, AuditsHold
    <2> QED
      BY <2>1, <2>2 DEF IInv, AuditsApart, Inside, Undecided, Written
  <1>5. AnswersHold'
    BY DEF IInv, AnswersHold, ReplyIsStored, Inside, Resting, Written, ExecRow
  <1>6. LateHeld'
    <2> SUFFICES ASSUME NEW d \in late PROVE LateAt(d)'
      BY DEF LateHeld
    <2>1. d \in Call /\ LateAt(d)
      BY DEF IInv, TypeOK, LateHeld
    <2>2. CASE d # c
      BY <2>1, <2>2 DEF LateAt, Inside, Dead
    <2>3. CASE d = c
      BY <2>1, <2>3 DEF LateAt, Inside, Dead, Ran
    <2> QED
      BY <2>2, <2>3
  <1>7. RunHeld'
    BY RunStays DEF IInv, Ran
  <1>8. SettleHeld'
    BY SettleStays DEF IInv, TypeOK, Written
  <1>9. Paired'
    <2>1. AllowRows \subseteq AllowRows'
      BY <1>0 DEF AllowRows
    <2>2. Len(audits) + 1 \notin AllowRows
      BY <1>0 DEF AllowRows
    <2>3. \A d \in Call : pc'[d] \in {"decided", "handler", "chain"} =>
           \/ pc[d] \in {"decided", "handler", "chain"} /\ local'[d].audit = local[d].audit
           \/ local'[d].audit \notin AllowRows
      BY <2>2
    <2> QED
      BY <2>1, <2>3, PairedStays, SettlementsStay DEF IInv
  <1> QED
    BY <1>1, <1>2, <1>3, <1>4, <1>5, <1>6, <1>7, <1>8, <1>9 DEF IInv

(* The steps that write an audit row preserve the invariant.               *)
LEMMA AuditStep ==
  ASSUME IInv, NEW c \in Call,
         RefuseInactive(c) \/ Evaluate(c) \/ RefuseUnbound(c)
  PROVE  IInv'
  <1>1. TypeOK /\ Carries /\ "DENY" \in Decision
    BY DEF IInv, Decision
  <1>2. CASE RefuseInactive(c)
    <2>1. Audited(c, "DENY") /\ Goto(c, "refuse")
          /\ UNCHANGED <<stores, execs, keys, ledger, req, reply, history>>
          /\ pc[c] = "resolved" /\ Known(c) = None
      BY <1>2 DEF RefuseInactive
    <2> QED
      BY <1>1, <2>1, AuditedAudits, AuditsKeep
  <1>3. CASE Evaluate(c)
    <2>1. PICK decision \in Decision : Audited(c, decision)
      BY <1>3 DEF Evaluate
    <2>2. Goto(c, "decided") /\ pc[c] = "checked"
          /\ UNCHANGED <<stores, execs, keys, ledger, req, reply, history>>
      BY <1>3 DEF Evaluate
    <2> QED
      BY <1>1, <2>1, <2>2, AuditedAudits, AuditsKeep
  <1>4. CASE RefuseUnbound(c)
    <2>1. Audited(c, "DENY") /\ Goto(c, "refuse") /\ pc[c] = "decided"
          /\ UNCHANGED <<stores, execs, keys, ledger, req, reply, history>>
      BY <1>4 DEF RefuseUnbound
    <2> QED
      BY <1>1, <2>1, AuditedAudits, AuditsKeep
  <1> QED
    BY <1>2, <1>3, <1>4

-----------------------------------------------------------------------------
(* A permitted call runs its handler, goes to the chain, or returns from   *)
(* both with an outcome.                                                   *)
Returns(c) ==
  /\ GoesOn(c) /\ local'[c].audit = local[c].audit /\ local'[c].refused = local[c].refused
  /\ UNCHANGED <<active, live, bound, audits, execs, keys, reply, rough, late, unwritten>>
  /\ pc[c] \in {"decided", "handler", "chain"}
  /\ pc[c] = "decided" => Allowed(c)
  /\ pc'[c] \in {"handler", "chain", "settled", "caught"}
  /\ pc'[c] = "settled" => local'[c].outcome \in {"SUCCESS", "FAILED"}
  /\ pc'[c] = "caught" => local'[c].outcome = "FAILED" /\ local'[c].settlement = None
  /\ pc'[c] \in {"handler", "chain"} => SameRow(c)
  /\ pc'[c] = "chain" => req[c].pay # None

(* What execute() catches returns with FAILED and no settlement.           *)
LEMMA CatchReturns ==
  ASSUME TypeOK, NEW c \in Call, local[c] \in Local, Catch(c),
         UNCHANGED <<db, req, reply, rough, late, unwritten>>,
         pc[c] \in {"decided", "handler", "chain"}, pc[c] = "decided" => Allowed(c)
  PROVE  Returns(c)
  <1> DEFINE v == Failed(local[c])
  <1>1. v \in Local /\ v.exec = local[c].exec /\ v.outcome = "FAILED" /\ v.settlement = None
        /\ v.audit = local[c].audit /\ v.refused = local[c].refused
    BY DEF Failed, Local, ExecStatus
  <1>2. local' = [local EXCEPT ![c] = v] /\ pc' = [pc EXCEPT ![c] = "caught"]
    BY DEF Catch, Goto
  <1>3. local \in [Call -> Local \cup {None}] /\ pc \in [Call -> Label]
    BY DEF TypeOK
  <1> HIDE DEF v
  <1>4. local'[c] = v /\ pc'[c] = "caught"
    BY <1>2, <1>3
  <1> QED
    BY <1>1, <1>2, <1>3, <1>4
    DEF Returns, GoesOn, Others, Inside, Resting, Label, db, stores, ledger

LEMMA ReturnsKeep ==
  ASSUME IInv, NEW c \in Call, Returns(c)
  PROVE  Carries' /\ AuditsHold' /\ AuditsApart' /\ AnswersHold' /\ LateHeld'
  <1> USE DEF Returns, GoesOn, Others, SameRow
  <1>1. Carries'
    BY DEF IInv, Carries, Inside
  <1>2. local[c].audit \in 1..Len(audits) /\ ~local[c].refused
        /\ audits[local[c].audit].agent = req[c].agent
        /\ audits[local[c].audit].decision = "ALLOW"
    BY DEF IInv, AuditsHold, Undecided, Ran, Allowed
  <1>3. AuditsHold'
    BY <1>2 DEF IInv, AuditsHold, Inside, Undecided
  <1>4. AuditsApart'
    BY DEF IInv, AuditsApart, Inside, Undecided, Written
  <1>5. AnswersHold'
    BY DEF IInv, AnswersHold, ReplyIsStored, Inside, Resting, Written, ExecRow
  <1>6. c \notin late
    BY <1>2 DEF IInv, LateHeld, LateAt, Ran
  <1>7. LateHeld'
    BY <1>6, LateStays DEF IInv
  <1> QED
    BY <1>1, <1>3, <1>4, <1>5, <1>7

(* The handler runs.                                                       *)
LEMMA RunHandlerStep ==
  ASSUME IInv, NEW c \in Call, RunHandler(c)
  PROVE  IInv'
  <1>0. TypeOK /\ Carries /\ RunHeld
    BY DEF IInv
  <1>1. /\ pc[c] = "decided" /\ Allowed(c) /\ runs' = [runs EXCEPT ![Scoped(req[c])] = @ + 1]
        /\ UNCHANGED <<active, live, bound, audits, execs, keys, balance, records, req, reply,
                       rough, late, unwritten>>
    BY DEF RunHandler, db, stores, ledger
  <1>2. /\ local[c] \in Local /\ local \in [Call -> Local \cup {None}] /\ pc \in [Call -> Label]
        /\ req[c] \in Requests /\ Inside(c)
    BY <1>0, <1>1 DEF Carries, Inside, Resting, TypeOK
  <1>3. Scoped(req[c]) \in Agent \X Key
    BY <1>2, RequestFacts
  <1>4. Returns(c)
    <2>1. CASE Goto(c, "handler") /\ UNCHANGED local
      BY <1>1, <1>2, <2>1 DEF Goto, Returns, GoesOn, Others, SameRow, Inside, Resting, Label
    <2>2. CASE Catch(c)
      BY <1>0, <1>1, <1>2, <2>2, CatchReturns DEF db, stores, ledger
    <2> QED
      BY <2>1, <2>2 DEF RunHandler
  <1>5. TypeOK'
    BY <1>0, <1>1, <1>3, <1>4 DEF TypeOK, Returns, GoesOn
  <1>6. RunHeld'
    <2>1. \A p \in Agent \X Key : Busy(p)' = Busy(p)
      BY <1>4 DEF Busy, Inside, Returns, GoesOn, Others
    <2> SUFFICES ASSUME NEW p \in (Agent \X Key) \ rough
                 PROVE  /\ \A d, e \in Busy(p) : d = e
                        /\ \A d \in Busy(p) : pc'[d] # "resolved" => keys[p] = None
                        /\ runs'[p] \in {0, 1}
                        /\ (runs'[p] = 1 /\ keys[p] = None) => \E d \in Busy(p) : pc'[d] \in Ran
      BY <1>1, <2>1 DEF RunHeld
    <2>2. CASE p = Scoped(req[c])
      <3>1. c \in Busy(p) /\ Busy(p) = {c}
        BY <1>0, <1>2, <2>2 DEF Busy, Inside, RunHeld
      <3>2. keys[p] = None /\ runs[p] = 0
        BY <1>0, <1>1, <3>1 DEF RunHeld, Ran
      <3>3. runs'[p] = 1 /\ pc'[c] \in Ran
        BY <1>0, <1>1, <1>3, <1>4, <2>2, <3>2 DEF TypeOK, Returns, Ran
      <3> QED
        BY <3>1, <3>2, <3>3
    <2>3. CASE p # Scoped(req[c])
      <3>1. c \notin Busy(p) /\ runs'[p] = runs[p]
        BY <1>0, <1>1, <2>3 DEF Busy, TypeOK
      <3>2. \A d \in Busy(p) : pc'[d] = pc[d]
        BY <1>4, <3>1 DEF Busy, Returns, GoesOn, Others
      <3> QED
        BY <1>0, <3>1, <3>2 DEF RunHeld
    <2> QED
      BY <2>2, <2>3
  <1>7. SettleHeld'
    BY <1>1, <1>4, SettleStays DEF IInv, TypeOK, Returns, GoesOn, Written
  <1>8. Paired'
    <2>1. \A d \in Call : pc'[d] \in {"decided", "handler", "chain"} =>
            pc[d] \in {"decided", "handler", "chain"} /\ local'[d].audit = local[d].audit
      BY <1>4 DEF Returns, GoesOn, Others
    <2> QED
      BY <1>1, <2>1, PairedStays, AllowRowsStay, SettlementsStay DEF IInv
  <1> QED
    BY <1>4, <1>5, <1>6, <1>7, <1>8, ReturnsKeep DEF IInv

(* Steps after the handler that leave runs and settlements alone.          *)
LEMMA ReturnsStay ==
  ASSUME IInv, NEW c \in Call, Returns(c), pc[c] \in {"handler", "chain"},
         UNCHANGED <<balance, records, runs>>
  PROVE  IInv'
  <1>1. TypeOK'
    BY DEF IInv, TypeOK, Returns, GoesOn, Others
  <1>2. RunHeld'
    BY RunStays DEF IInv, Returns, GoesOn, Ran
  <1>3. SettleHeld'
    BY SettleStays DEF IInv, TypeOK, Returns, GoesOn, Written
  <1>4. Paired'
    <2>1. \A d \in Call : pc'[d] \in {"decided", "handler", "chain"} =>
            pc[d] \in {"decided", "handler", "chain"} /\ local'[d].audit = local[d].audit
      BY DEF Returns, GoesOn, Others
    <2> QED
      BY <2>1, PairedStays, AllowRowsStay, SettlementsStay DEF IInv, Returns
  <1> QED
    BY <1>1, <1>2, <1>3, <1>4, ReturnsKeep DEF IInv

(* What settle() returned becomes the outcome of the call.                 *)
LEMMA AfterSettlementReturns ==
  ASSUME IInv, NEW c \in Call, NEW row, AfterSettlement(c, row), req[c].pay # None,
         pc[c] \in {"handler", "chain"},
         UNCHANGED <<stores, audits, execs, keys, req, reply, history>>
  PROVE  /\ Returns(c) /\ runs' = runs /\ pc'[c] = "settled"
         /\ req[c].pay \in Payment /\ PaymentId(c) \in SettlementId
         /\ local'[c].settlement = PaymentId(c)
         /\ (local'[c].outcome = "SUCCESS") = (row.status # "ROLLED_BACK")
  <1>1. TypeOK /\ Carries
    BY DEF IInv
  <1>2. /\ local[c] \in Local /\ local \in [Call -> Local \cup {None}] /\ pc \in [Call -> Label]
        /\ req[c] \in Requests /\ Inside(c)
    BY <1>1 DEF Carries, Inside, Resting, TypeOK
  <1>3. req[c].pay \in Payment
    BY <1>2, RequestFacts DEF Request
  <1>4. PaymentId(c) \in SettlementId
    BY <1>3 DEF Payment, PaymentId, SettlementId
  <1> DEFINE o == IF row.status = "ROLLED_BACK" THEN "FAILED" ELSE "SUCCESS"
             v == [local[c] EXCEPT !.outcome = o, !.settlement = PaymentId(c)]
  <1>5. o \in {"SUCCESS", "FAILED"} /\ (o = "SUCCESS") = (row.status # "ROLLED_BACK")
    OBVIOUS
  <1>6. local' = [local EXCEPT ![c] = v] /\ pc' = [pc EXCEPT ![c] = "settled"]
    BY <1>2 DEF AfterSettlement, Goto
  <1> HIDE DEF o
  <1>7. /\ v \in Local /\ v.settlement = PaymentId(c) /\ v.outcome = o
        /\ v.exec = local[c].exec /\ v.audit = local[c].audit /\ v.refused = local[c].refused
    <2>1. o \in ExecStatus
      BY <1>5 DEF ExecStatus
    <2> QED
      BY <1>2, <1>4, <2>1 DEF Local
  <1> HIDE DEF v
  <1>8. local'[c] = v /\ pc'[c] = "settled"
    BY <1>2, <1>6
  <1>9. Returns(c)
    BY <1>2, <1>5, <1>6, <1>7, <1>8
    DEF Returns, GoesOn, Others, Inside, Resting, Label, stores, history
  <1> QED
    BY <1>3, <1>4, <1>5, <1>7, <1>8, <1>9 DEF history

(* The steps after the handler that decide no settlement preserve the      *)
(* invariant.                                                              *)
LEMMA AfterHandlerStep ==
  ASSUME IInv, NEW c \in Call,
         SettleNothing(c) \/ SettleAgain(c) \/ ReachChain(c) \/ SettleThrows(c)
  PROVE  IInv'
  <1>1. TypeOK /\ Carries
    BY DEF IInv
  <1>2. /\ pc[c] \in {"handler", "chain"} /\ UNCHANGED <<db, req, reply, history>>
        /\ local[c] \in Local /\ local \in [Call -> Local \cup {None}] /\ pc \in [Call -> Label]
    BY <1>1 DEF SettleNothing, SettleAgain, ReachChain, SettleThrows, Carries, Inside,
       Resting, TypeOK
  <1>4. CASE SettleNothing(c)
    <2> DEFINE v == [local[c] EXCEPT !.outcome = "SUCCESS"]
    <2>1. v \in Local /\ v.exec = local[c].exec /\ v.outcome = "SUCCESS"
          /\ v.audit = local[c].audit /\ v.refused = local[c].refused
      BY <1>2 DEF Local, ExecStatus
    <2>2. local' = [local EXCEPT ![c] = v] /\ pc' = [pc EXCEPT ![c] = "settled"]
      BY <1>4 DEF SettleNothing, Goto
    <2> HIDE DEF v
    <2>3. Returns(c)
      BY <1>2, <2>1, <2>2
      DEF Returns, GoesOn, Others, Inside, Resting, Label, db, stores, history
    <2> QED
      BY <1>2, <2>3, ReturnsStay DEF db, ledger, history
  <1>5. CASE SettleThrows(c)
    <2>1. Returns(c)
      BY <1>1, <1>2, <1>5, CatchReturns DEF SettleThrows, history
    <2> QED
      BY <1>2, <2>1, ReturnsStay DEF db, ledger, history
  <1>6. CASE SettleAgain(c)
    <2>1. Returns(c) /\ runs' = runs
      BY <1>2, <1>6, AfterSettlementReturns DEF SettleAgain, db
    <2> QED
      BY <1>2, <2>1, ReturnsStay DEF db, ledger
  <1>7. CASE ReachChain(c)
    <2>1. Returns(c)
      BY <1>2, <1>7
      DEF ReachChain, Goto, Returns, GoesOn, Others, SameRow, Inside, Resting, Label, db,
          stores, history
    <2> QED
      BY <1>2, <2>1, ReturnsStay DEF db, ledger, history
  <1> QED
    BY <1>4, <1>5, <1>6, <1>7

(* Deciding a settlement in the ledger keeps its types.                    *)
LEMMA DecideTypes ==
  ASSUME balance \in [Did -> Nat], records \in [SettlementId -> Settled \cup {None}],
         NEW s \in SettlementId, NEW row \in Settled, Ledger!Decide(s, row)
  PROVE  /\ balance' \in [Did -> Nat]
         /\ records' \in [SettlementId -> Settled \cup {None}]
         /\ records[s] = None /\ records' = [records EXCEPT ![s] = row]
  <1>1. row.payer \in Did /\ row.payee \in Did /\ row.amount \in Nat
    BY DEF Settled
  <1>2. CASE Ledger!MovesPoints(row)
    <2>1. balance[row.payer] >= row.amount
          /\ balance' = Ledger!Moved(row.payer, row.payee, row.amount)
      BY <1>2 DEF Ledger!Decide
    <2>2. \A d \in Did :
            balance[d] - (IF d = row.payer THEN row.amount ELSE 0)
                       + (IF d = row.payee THEN row.amount ELSE 0) \in Nat
      BY <1>1, <2>1
    <2> QED
      BY <2>1, <2>2 DEF Ledger!Decide, Ledger!Moved
  <1> QED
    BY <1>2 DEF Ledger!Decide

(* An invocation that decides a settlement gives it the ALLOW row it holds.*)
LEMMA SettleAsStep ==
  ASSUME IInv, NEW c \in Call, NEW outcome \in SettlementStatus,
         pc[c] \in {"handler", "chain"}, req[c].pay # None,
         SettleAs(c, SettledRow(req[c].pay, outcome, local[c].exec))
  PROVE  IInv'
  <1> DEFINE row == SettledRow(req[c].pay, outcome, local[c].exec)
             s0 == PaymentId(c)
  <1>0. TypeOK /\ Carries /\ SettleHeld /\ Inside(c)
    BY DEF IInv, Inside, Resting
  <1>1. /\ Ledger!Decide(s0, row) /\ AfterSettlement(c, row)
        /\ UNCHANGED <<stores, audits, execs, keys, req, reply, history>>
    BY DEF SettleAs
  <1>2. /\ Returns(c) /\ runs' = runs /\ pc'[c] = "settled"
        /\ req[c].pay \in Payment /\ s0 \in SettlementId
        /\ local'[c].settlement = s0
        /\ (local'[c].outcome = "SUCCESS") = (row.status # "ROLLED_BACK")
    BY <1>1, AfterSettlementReturns
  <1>3. local[c] \in Local /\ local[c].exec \in ExecId
        /\ local[c].exec = IF req[c].exec # None THEN req[c].exec ELSE c
    BY <1>0 DEF Carries, Local
  <1>4. /\ row \in Settled /\ row.execution = local[c].exec /\ row.status = outcome
        /\ row # None /\ row.execution # None
    BY <1>2, <1>3, InvokeAssumption DEF SettledRow, Settled, Payment, ExecId
  <1> HIDE DEF row, s0
  <1>5. /\ balance' \in [Did -> Nat] /\ records' \in [SettlementId -> Settled \cup {None}]
        /\ records[s0] = None /\ records' = [records EXCEPT ![s0] = row]
    BY <1>0, <1>1, <1>2, <1>4, DecideTypes DEF TypeOK
  <1>6. records'[s0] = row /\ \A s \in SettlementId \ {s0} : records'[s] = records[s]
    BY <1>0, <1>2, <1>5 DEF TypeOK
  <1>7. TypeOK'
    BY <1>0, <1>2, <1>5 DEF TypeOK, Returns, GoesOn, Others
  <1>8. RunHeld'
    BY <1>2, RunStays DEF IInv, Returns, GoesOn, Ran
  <1>9. SettleHeld'
    <2>1. execs' = execs /\ Others(c)
      BY <1>2 DEF Returns, GoesOn
    <2>2. \A d \in Call : (pc'[d] = "idle" \/ (Inside(d)' /\ pc'[d] \notin Written))
                           => execs[d] = None
      BY <1>0, <1>2, <2>1 DEF SettleHeld, Others, Inside, Resting, Written
    <2>3. ASSUME NEW d \in Call, NEW s \in SettlementId,
                 records'[s] # None, records'[s].execution = d
          PROVE  /\ pc'[d] # "idle"
                 /\ Inside(d)' => /\ pc'[d] \in {"settled", "recorded"}
                                  /\ d \notin unwritten => Reports(ExecRow(d), s)'
                 /\ execs[d] # None => (d \notin unwritten => Reports(execs[d], s)')
      <3>1. CASE s # s0
        <4>1. records'[s] = records[s]
          BY <1>6, <3>1
        <4>2. d # c
          BY <1>0, <2>3, <4>1 DEF SettleHeld
        <4> QED
          BY <1>0, <2>1, <2>3, <4>1, <4>2 DEF SettleHeld, Others, Inside, Reports, ExecRow
      <3>2. CASE s = s0
        <4>1. d = c
          BY <1>0, <1>3, <1>4, <1>6, <2>3, <3>2, InvokeAssumption, RequestFacts
          DEF Carries, Request
        <4>2. execs[c] = None
          BY <1>0 DEF SettleHeld, Written
        <4>3. Reports(ExecRow(c), s)'
          BY <1>2, <1>4, <1>6, <3>2 DEF Reports, ExecRow
        <4> QED
          BY <1>2, <4>1, <4>2, <4>3 DEF Inside
      <3> QED
        BY <3>1, <3>2
    <2>4. unwritten' = unwritten /\ \A d \in unwritten : d # c /\ d \in Call
      BY <1>0, <1>2 DEF SettleHeld, TypeOK, Returns
    <2>5. \A d \in unwritten : pc'[d] # "idle" /\ (Inside(d)' => pc'[d] = "recorded")
      BY <1>0, <2>1, <2>4 DEF SettleHeld, Others, Inside
    <2> QED
      BY <1>0, <2>1, <2>2, <2>3, <2>4, <2>5 DEF SettleHeld
  <1>10. Paired'
    <2>1. PICK f \in [Settlements -> AllowRows] :
            /\ \A s, t \in Settlements : f[s] = f[t] => s = t
            /\ \A d \in Call, s \in Settlements :
                 pc[d] \in {"decided", "handler", "chain"} => f[s] # local[d].audit
      BY DEF IInv, Paired
    <2>2. s0 \notin Settlements /\ Settlements' = Settlements \cup {s0}
      BY <1>2, <1>4, <1>5, <1>6 DEF Settlements
    <2>3. local[c].audit \in AllowRows /\ AllowRows' = AllowRows
      BY <1>2, AllowRowsStay DEF IInv, AuditsHold, Inside, Resting, Undecided, Ran, AllowRows,
         Returns
    <2> DEFINE g == [s \in Settlements' |-> IF s = s0 THEN local[c].audit ELSE f[s]]
    <2>4. g \in [Settlements' -> AllowRows']
      BY <2>1, <2>2, <2>3
    <2>5. \A s, t \in Settlements' : g[s] = g[t] => s = t
      BY <2>1, <2>2
    <2>6. \A d \in Call, s \in Settlements' :
            pc'[d] \in {"decided", "handler", "chain"} => g[s] # local'[d].audit
      <3> SUFFICES ASSUME NEW d \in Call, NEW s \in Settlements',
                          pc'[d] \in {"decided", "handler", "chain"}
                   PROVE  g[s] # local'[d].audit
        OBVIOUS
      <3>1. d # c /\ pc'[d] = pc[d] /\ local'[d] = local[d]
        BY <1>2 DEF Returns, GoesOn, Others
      <3>2. local[d].audit # local[c].audit
        BY <3>1 DEF IInv, AuditsApart, Inside, Resting, Undecided
      <3> QED
        BY <2>1, <2>2, <3>1, <3>2
    <2> HIDE DEF g
    <2> QED
      BY <2>4, <2>5, <2>6 DEF Paired
  <1> QED
    BY <1>2, <1>7, <1>8, <1>9, <1>10, ReturnsKeep DEF IInv

(* The steps that decide a settlement preserve the invariant.              *)
LEMMA SettleStep ==
  ASSUME IInv, NEW c \in Call, SettlePoints(c) \/ SettleChain(c)
  PROVE  IInv'
  <1>1. CASE SettlePoints(c)
    BY <1>1, SettleAsStep DEF SettlePoints, SettlementStatus
  <1>2. CASE SettleChain(c)
    BY <1>2, SettleAsStep DEF SettleChain, IInv, Carries, Inside, Resting
  <1> QED
    BY <1>1, <1>2

-----------------------------------------------------------------------------
(* Calls end: they leave the loop, and the others stay where they are.     *)
Leave(ended) ==
  /\ \A d \in ended : d \in Call /\ Inside(d) /\ pc'[d] \in {"done", "thrown", "lost"}
  /\ \A d \in Call \ ended : pc'[d] = pc[d] /\ local'[d] = local[d]
  /\ pc' \in [Call -> Label] /\ local' \in [Call -> Local \cup {None}]
  /\ late' = late \ ended
  /\ UNCHANGED <<active, live, bound, audits, execs, balance, records, req, runs, unwritten>>

LEMMA LeaveKeeps ==
  ASSUME IInv, NEW ended, Leave(ended)
  PROVE  /\ Carries' /\ AuditsHold' /\ AuditsApart' /\ LateHeld' /\ SettleHeld' /\ Paired'
         /\ \A d \in Call : pc'[d] \in Written => execs[local'[d].exec] = ExecRow(d)'
  <1> USE DEF Leave
  <1>0. /\ \A d \in Call : Inside(d)' => d \notin ended /\ Inside(d)
        /\ \A d \in ended : pc'[d] \notin Written /\ pc'[d] \notin {"decided", "handler", "chain"}
    BY DEF Inside, Resting, Written
  <1>1. Carries'
    BY <1>0 DEF IInv, Carries
  <1>2. AuditsHold'
    BY <1>0 DEF IInv, AuditsHold
  <1>3. AuditsApart'
    BY <1>0 DEF IInv, AuditsApart
  <1>4. LateHeld'
    <2> SUFFICES ASSUME NEW d \in late, d \notin ended PROVE LateAt(d)'
      BY DEF LateHeld
    <2>1. d \in Call /\ LateAt(d)
      BY DEF IInv, TypeOK, LateHeld
    <2> QED
      BY <2>1 DEF LateAt, Inside, Dead
  <1>5. SettleHeld'
    <2>1. \A d \in Call : (pc'[d] = "idle" \/ (Inside(d)' /\ pc'[d] \notin Written))
                           => execs[d] = None
      BY <1>0 DEF IInv, SettleHeld
    <2>2. ASSUME NEW d \in Call, NEW s \in SettlementId,
                 records[s] # None, records[s].execution = d
          PROVE  /\ pc'[d] # "idle"
                 /\ Inside(d)' => /\ pc'[d] \in {"settled", "recorded"}
                                  /\ d \notin unwritten => Reports(ExecRow(d), s)'
                 /\ execs[d] # None => (d \notin unwritten => Reports(execs[d], s)')
      BY <1>0, <2>2 DEF IInv, SettleHeld, Reports, ExecRow
    <2>3. \A d \in unwritten :
            /\ pc'[d] # "idle" /\ (Inside(d)' => pc'[d] = "recorded")
            /\ execs[d] # None => execs[d].status = "FAILED" /\ execs[d].settlement = None
      BY <1>0 DEF IInv, TypeOK, SettleHeld
    <2> QED
      BY <2>1, <2>2, <2>3 DEF SettleHeld
  <1>6. Paired'
    <2>1. \A d \in Call : pc'[d] \in {"decided", "handler", "chain"} =>
            pc[d] \in {"decided", "handler", "chain"} /\ local'[d].audit = local[d].audit
      BY <1>0
    <2> QED
      BY <2>1, PairedStays, AllowRowsStay, SettlementsStay DEF IInv
  <1>7. \A d \in Call : pc'[d] \in Written => execs[local'[d].exec] = ExecRow(d)'
    BY <1>0 DEF IInv, AnswersHold, ExecRow
  <1> QED
    BY <1>1, <1>2, <1>3, <1>4, <1>5, <1>6, <1>7

(* Calls that throw or are lost make their pairs rough.                    *)
LEMMA RoughEnd ==
  ASSUME IInv, NEW ended, Leave(ended), \A d \in ended : pc'[d] \in {"thrown", "lost"},
         rough' = rough \cup {Scoped(req[d]) : d \in ended}, UNCHANGED <<keys, reply>>
  PROVE  IInv'
  <1>1. \A d \in ended : d \in Call /\ req[d] \in Requests /\ Scoped(req[d]) \in Agent \X Key
    BY RequestFacts DEF Leave, IInv, Carries
  <1>2. TypeOK'
    BY <1>1 DEF IInv, TypeOK, Leave
  <1>3. AnswersHold'
    BY LeaveKeeps DEF Leave, IInv, AnswersHold, ReplyIsStored
  <1>4. RunHeld'
    <2> SUFFICES ASSUME NEW p \in (Agent \X Key) \ rough'
                 PROVE  /\ \A d, e \in Busy(p)' : d = e
                        /\ \A d \in Busy(p)' : pc'[d] # "resolved" => keys[p] = None
                        /\ runs[p] \in {0, 1}
                        /\ (runs[p] = 1 /\ keys[p] = None) => \E d \in Busy(p)' : pc'[d] \in Ran
      BY DEF RunHeld, Leave
    <2>1. \A d \in Busy(p) : d \notin ended
      BY DEF Busy
    <2>2. Busy(p)' = Busy(p) /\ \A d \in Busy(p) : pc'[d] = pc[d]
      BY <2>1 DEF Busy, Leave, Resting
    <2> QED
      BY <2>2 DEF IInv, RunHeld
  <1> QED
    BY <1>2, <1>3, <1>4, LeaveKeeps DEF IInv

(* A call that ends alone leaves.                                          *)
LEMMA OneLeaves ==
  ASSUME TypeOK, NEW c \in Call, Inside(c), NEW l \in {"done", "thrown"},
         Goto(c, l), Forget({c}),
         UNCHANGED <<active, live, bound, audits, execs, balance, records, req, runs, unwritten>>
  PROVE  Leave({c}) /\ pc'[c] = l
  BY DEF TypeOK, Goto, Forget, Leave, Label, Resting

(* A call that throws preserves the invariant.                             *)
LEMMA ThrowStep ==
  ASSUME IInv, NEW c \in Call, StatementThrows(c) \/ WriteThrows(c) \/ KeyThrows(c)
  PROVE  IInv'
  <1>1. Throw(c) /\ UNCHANGED <<db, req, reply, runs, unwritten>> /\ Inside(c)
    BY DEF StatementThrows, WriteThrows, KeyThrows, Throw, Writing, Keying, Inside, Resting
  <1>2. Leave({c}) /\ pc'[c] = "thrown"
    BY <1>1, OneLeaves DEF IInv, Throw, db, stores, ledger
  <1>3. rough' = rough \cup {Scoped(req[d]) : d \in {c}} /\ UNCHANGED <<keys, reply>>
    BY <1>1 DEF Throw, db
  <1> QED
    BY <1>2, <1>3, RoughEnd

(* The process dies.                                                       *)
LEMMA CrashStep ==
  ASSUME IInv, Crash
  PROVE  IInv'
  <1> DEFINE lost == {c \in Call : pc[c] \notin Resting}
  <1>1. /\ pc' = [c \in Call |-> IF c \in lost THEN "lost" ELSE pc[c]]
        /\ rough' = rough \cup {Scoped(req[c]) : c \in lost}
        /\ Forget(lost) /\ UNCHANGED <<db, req, reply, runs, unwritten>>
    BY DEF Crash
  <1>2. lost \subseteq Call /\ \A c \in lost : Inside(c)
    BY DEF Inside
  <1> HIDE DEF lost
  <1>3. /\ local' = [c \in Call |-> IF c \in lost THEN None ELSE local[c]]
        /\ late' = late \ lost
        /\ UNCHANGED <<active, live, bound, audits, execs, keys, balance, records, req, reply, runs,
                       unwritten>>
    BY <1>1 DEF Forget, db, stores, ledger
  <1>4. Leave(lost) /\ \A c \in lost : pc'[c] = "lost"
    BY <1>1, <1>2, <1>3 DEF IInv, TypeOK, Leave, Label, Resting
  <1> QED
    BY <1>1, <1>3, <1>4, RoughEnd

(* A call answers: the key of its request holds the execution it returns,  *)
(* and no other key changes.                                               *)
LEMMA AnswerEnd ==
  ASSUME IInv, NEW c \in Call, Inside(c), NEW e \in ExecId, NEW row \in ExecRecord,
         execs[e] = row, row.agent = req[c].agent,
         Answer(c, [id |-> e, row |-> row]),
         keys'[Scoped(req[c])] = e,
         \A p \in Agent \X Key : keys[p] # None => keys'[p] = keys[p],
         \A p \in Agent \X Key : p # Scoped(req[c]) => keys'[p] = keys[p],
         keys' \in [Agent \X Key -> ExecId \cup {None}],
         UNCHANGED <<active, live, bound, audits, execs, balance, records, req, runs, rough,
                     unwritten>>
  PROVE  IInv'
  <1>0. req[c] \in Requests /\ Scoped(req[c]) \in Agent \X Key /\ Scoped(req[c])[1] = req[c].agent
    BY RequestFacts DEF IInv, Carries
  <1>1. Leave({c}) /\ pc'[c] = "done"
    BY OneLeaves DEF IInv, Answer
  <1>2. e # None /\ row # None
    BY InvokeAssumption DEF ExecId
  <1>3. reply' = [reply EXCEPT ![c] = [id |-> e, row |-> row]]
    BY DEF Answer
  <1>4. TypeOK'
    BY <1>0, <1>1, <1>3 DEF IInv, TypeOK, Leave
  <1>5. reply'[c] = [id |-> e, row |-> row] /\ \A d \in Call \ {c} : reply'[d] = reply[d]
    BY <1>3 DEF IInv, TypeOK
  <1>6. AnswersHold'
    <2>1. \A p \in Agent \X Key : keys'[p] # None =>
            execs[keys'[p]] # None /\ execs[keys'[p]].agent = p[1]
      BY <1>0, <1>2 DEF IInv, AnswersHold
    <2>2. ASSUME NEW d \in Call, pc'[d] = "done"
          PROVE  /\ req[d] \in Requests /\ reply'[d] \in [id : ExecId, row : ExecRecord]
                 /\ keys'[Scoped(req[d])] = reply'[d].id
                 /\ execs[reply'[d].id] = reply'[d].row
                 /\ reply'[d].row.agent = req[d].agent
      <3>1. CASE d = c
        BY <1>0, <1>5, <3>1
      <3>2. CASE d # c
        <4>1. pc[d] = "done" /\ reply'[d] = reply[d]
          BY <1>1, <1>5, <2>2, <3>2 DEF Leave
        <4>2. /\ req[d] \in Requests /\ reply[d] \in [id : ExecId, row : ExecRecord]
              /\ keys[Scoped(req[d])] = reply[d].id /\ execs[reply[d].id] = reply[d].row
              /\ reply[d].row.agent = req[d].agent
          BY <4>1 DEF IInv, AnswersHold, ReplyIsStored
        <4>3. Scoped(req[d]) \in Agent \X Key /\ keys[Scoped(req[d])] # None
          BY <4>2, RequestFacts, InvokeAssumption DEF ExecId
        <4> QED
          BY <4>1, <4>2, <4>3
      <3> QED
        BY <3>1, <3>2
    <2> QED
      BY <1>1, <2>1, <2>2, LeaveKeeps DEF AnswersHold, ReplyIsStored
  <1>7. RunHeld'
    <2> SUFFICES ASSUME NEW p \in (Agent \X Key) \ rough
                 PROVE  /\ \A d, g \in Busy(p)' : d = g
                        /\ \A d \in Busy(p)' : pc'[d] # "resolved" => keys'[p] = None
                        /\ runs[p] \in {0, 1}
                        /\ (runs[p] = 1 /\ keys'[p] = None) => \E d \in Busy(p)' : pc'[d] \in Ran
      BY DEF RunHeld
    <2>1. Busy(p)' = Busy(p) \ {c} /\ \A d \in Busy(p)' : pc'[d] = pc[d]
      BY <1>1 DEF Busy, Leave, Resting
    <2>2. CASE p = Scoped(req[c])
      <3>1. Busy(p)' = {}
        BY <2>1, <2>2 DEF IInv, RunHeld, Busy, Inside
      <3> QED
        BY <1>2, <2>2, <3>1 DEF IInv, RunHeld
    <2>3. CASE p # Scoped(req[c])
      <3>1. Busy(p)' = Busy(p) /\ keys'[p] = keys[p]
        BY <2>1, <2>3 DEF Busy
      <3> QED
        BY <2>1, <3>1 DEF IInv, RunHeld
    <2> QED
      BY <2>2, <2>3
  <1> QED
    BY <1>1, <1>4, <1>6, <1>7, LeaveKeeps DEF IInv

(* The two ways to answer preserve the invariant.                          *)
LEMMA AnswerStep ==
  ASSUME IInv, NEW c \in Call, Replay(c) \/ RecordIdempotency(c)
  PROVE  IInv'
  <1>0. Inside(c) /\ TypeOK /\ Carries /\ AnswersHold
    BY DEF IInv, Replay, RecordIdempotency, Keying, Inside, Resting
  <1>1. req[c] \in Requests /\ Scoped(req[c]) \in Agent \X Key /\ Scoped(req[c])[1] = req[c].agent
        /\ local[c] \in Local
    BY <1>0, RequestFacts DEF Carries
  <1>2. CASE Replay(c)
    <2> DEFINE e == Known(c)
    <2>1. e \in ExecId /\ execs[e] \in ExecRecord /\ execs[e].agent = req[c].agent
      BY <1>0, <1>1, <1>2 DEF Replay, Known, TypeOK, AnswersHold
    <2>2. Answer(c, [id |-> e, row |-> execs[e]]) /\ UNCHANGED <<db, req, runs, rough, unwritten>>
          /\ keys[Scoped(req[c])] = e
      BY <1>2 DEF Replay, Known
    <2>3. UNCHANGED <<active, live, bound, audits, execs, keys, balance, records, req, runs, rough,
                      unwritten>>
      BY <2>2 DEF db, stores, ledger
    <2> HIDE DEF e
    <2> QED
      BY <1>0, <2>1, <2>2, <2>3, AnswerEnd DEF TypeOK
  <1>3. CASE RecordIdempotency(c)
    <2> DEFINE e == local[c].exec
    <2>1. pc[c] \in Written /\ execs[e] = ExecRow(c) /\ e \in ExecId
      BY <1>0, <1>1, <1>3 DEF RecordIdempotency, Keying, Written, AnswersHold, Local
    <2>2. ExecRow(c) \in ExecRecord /\ ExecRow(c).agent = req[c].agent
      BY <1>1, RequestFacts DEF ExecRow, ExecRecord, Local, Request
    <2>3. /\ Answer(c, [id |-> e, row |-> ExecRow(c)]) /\ keys[Scoped(req[c])] = None
          /\ keys' = [keys EXCEPT ![Scoped(req[c])] = e]
          /\ UNCHANGED <<active, live, bound, audits, execs, balance, records, req, runs, rough,
                         unwritten>>
      BY <1>3 DEF RecordIdempotency, Known, stores, ledger
    <2> HIDE DEF e
    <2>4. /\ keys' \in [Agent \X Key -> ExecId \cup {None}] /\ keys'[Scoped(req[c])] = e
          /\ \A p \in Agent \X Key : p # Scoped(req[c]) => keys'[p] = keys[p]
      BY <1>0, <1>1, <2>1, <2>3 DEF TypeOK
    <2>5. \A p \in Agent \X Key : keys[p] # None => keys'[p] = keys[p]
      BY <2>3, <2>4
    <2> QED
      BY <1>0, <2>1, <2>2, <2>3, <2>4, <2>5, AnswerEnd
  <1> QED
    BY <1>2, <1>3

(* What a call writes is its outcome, or FAILED where that fails, and rests*)
(* on its audit row.                                                       *)
Writes(c, row) ==
  /\ Insert(c, row)
  /\ row \in ExecRecord /\ row.agent = req[c].agent /\ row.audit = local[c].audit
  /\ row = ExecRow(c)'
  /\ local' \in [Call -> Local \cup {None}] /\ local'[c] \in Local
  /\ \A d \in Call \ {c} : local'[d] = local[d]
  /\ local'[c].exec = local[c].exec /\ local'[c].audit = local[c].audit
  /\ local'[c].refused = local[c].refused
  /\ \/ row = ExecRow(c) /\ SameRow(c) /\ unwritten' = unwritten
     \/ /\ pc[c] = "settled" /\ unwritten' = unwritten \cup {c}
        /\ local'[c].outcome = "FAILED" /\ local'[c].settlement = None

(* A row overwritten with FAILED and no settlement.                        *)
LEMMA FailedRow ==
  ASSUME NEW row \in ExecRecord
  PROVE  [row EXCEPT !.status = "FAILED", !.settlement = None]
           = [agent |-> row.agent, status |-> "FAILED", audit |-> row.audit, settlement |-> None]
  <1> DEFINE new == [row EXCEPT !.status = "FAILED", !.settlement = None]
  <1>1. /\ new \in ExecRecord /\ new.agent = row.agent /\ new.audit = row.audit
        /\ new.status = "FAILED" /\ new.settlement = None
    BY DEF ExecRecord, ExecStatus
  <1> HIDE DEF new
  <1>2. new = [agent |-> row.agent, status |-> "FAILED", audit |-> row.audit, settlement |-> None]
    BY <1>1 DEF ExecRecord
  <1> QED
    BY <1>2 DEF new

(* Both ways to write a row are such writes.                               *)
LEMMA RowWrites ==
  ASSUME IInv, NEW c \in Call, WriteRow(c) \/ WriteAgain(c)
  PROVE  \E row : Writes(c, row)
  <1>0. TypeOK /\ Carries /\ Inside(c) /\ local \in [Call -> Local \cup {None}]
    BY DEF IInv, TypeOK, WriteRow, WriteAgain, Writing, Inside, Resting
  <1>1. local[c] \in Local /\ req[c].agent \in Agent
    BY <1>0, RequestFacts DEF Carries, Request
  <1>2. CASE WriteRow(c)
    <2>1. Insert(c, ExecRow(c)) /\ UNCHANGED <<local, unwritten>> /\ req' = req
      BY <1>2 DEF WriteRow, Insert
    <2>2. ExecRow(c) \in ExecRecord /\ ExecRow(c).agent = req[c].agent
          /\ ExecRow(c).audit = local[c].audit /\ ExecRow(c)' = ExecRow(c)
      BY <1>1, <2>1 DEF ExecRow, ExecRecord, Local
    <2>3. Writes(c, ExecRow(c))
      BY <1>0, <1>1, <2>1, <2>2 DEF Writes, SameRow
    <2> QED
      BY <2>3
  <1>3. CASE WriteAgain(c)
    <2> DEFINE v == Failed(local[c])
               row == [ExecRow(c) EXCEPT !.status = "FAILED", !.settlement = None]
    <2>1. /\ Insert(c, row) /\ local' = [local EXCEPT ![c] = v] /\ req' = req
          /\ pc[c] = "settled" /\ unwritten' = unwritten \cup {c}
      BY <1>3 DEF WriteAgain, Insert
    <2>2. /\ v \in Local /\ v.exec = local[c].exec /\ v.audit = local[c].audit
          /\ v.refused = local[c].refused /\ v.outcome = "FAILED" /\ v.settlement = None
      BY <1>1 DEF Failed, Local, ExecStatus
    <2>3. row = [agent |-> req[c].agent, status |-> "FAILED", audit |-> local[c].audit,
                 settlement |-> None]
      <3>1. ExecRow(c) \in ExecRecord /\ ExecRow(c).agent = req[c].agent
            /\ ExecRow(c).audit = local[c].audit
        BY <1>1 DEF ExecRow, ExecRecord, Local
      <3> QED
        BY <3>1, FailedRow
    <2>4. row \in ExecRecord /\ row.agent = req[c].agent /\ row.audit = local[c].audit
      BY <1>1, <2>3 DEF ExecRecord, ExecStatus, Local
    <2> HIDE DEF v
    <2>5. /\ local'[c] = v /\ local' \in [Call -> Local \cup {None}]
          /\ \A d \in Call \ {c} : local'[d] = local[d]
      BY <1>0, <2>1, <2>2
    <2>6. row = ExecRow(c)'
      BY <2>1, <2>2, <2>3, <2>5 DEF ExecRow
    <2> HIDE DEF row
    <2>7. Writes(c, row)
      BY <2>1, <2>2, <2>4, <2>5, <2>6 DEF Writes
    <2> QED
      BY <2>7
  <1> QED
    BY <1>2, <1>3

(* The execution row is written, with the audit row of its call.           *)
LEMMA WriteStep ==
  ASSUME IInv, NEW c \in Call, WriteRow(c) \/ WriteAgain(c)
  PROVE  IInv'
  <1> DEFINE e0 == local[c].exec
  <1>p. PICK row : Writes(c, row)
    BY RowWrites
  <1>0. /\ TypeOK /\ Carries /\ AuditsHold /\ AuditsApart /\ AnswersHold /\ SettleHeld
        /\ pc[c] \in {"refuse", "settled", "caught"} /\ Inside(c)
    BY DEF IInv, WriteRow, WriteAgain, Writing, Inside, Resting
  <1>1. /\ req[c] \in Requests /\ req[c].agent \in Agent /\ local[c] \in Local
        /\ e0 = IF req[c].exec # None THEN req[c].exec ELSE c
    BY <1>0, RequestFacts DEF Carries, Request
  <1>2. /\ e0 \in ExecId /\ row \in ExecRecord /\ row # None /\ row.agent = req[c].agent
        /\ row.audit = local[c].audit /\ row = ExecRow(c)'
    BY <1>1, <1>p, InvokeAssumption DEF Writes, Local
  <1>3. /\ execs[e0] = None /\ execs' = [execs EXCEPT ![e0] = row]
        /\ pc' = [pc EXCEPT ![c] = IF pc[c] = "refuse" THEN "key" ELSE "recorded"]
        /\ UNCHANGED <<active, live, bound, audits, keys, balance, records, req, reply,
                       runs, rough, late>>
    BY <1>p DEF Writes, Insert, Goto, stores, ledger
  <1>l. /\ local' \in [Call -> Local \cup {None}] /\ local'[c] \in Local
        /\ \A d \in Call \ {c} : local'[d] = local[d]
        /\ local'[c].exec = e0 /\ local'[c].audit = local[c].audit
        /\ local'[c].refused = local[c].refused
    BY <1>p DEF Writes
  <1>u. \/ row = ExecRow(c) /\ SameRow(c) /\ unwritten' = unwritten
        \/ /\ pc[c] = "settled" /\ unwritten' = unwritten \cup {c}
           /\ local'[c].outcome = "FAILED" /\ local'[c].settlement = None
           /\ row.status = "FAILED" /\ row.settlement = None
    BY <1>p DEF Writes, ExecRow
  <1> HIDE DEF e0
  <1>4. execs'[e0] = row /\ \A e \in ExecId \ {e0} : execs'[e] = execs[e]
    BY <1>0, <1>2, <1>3 DEF TypeOK
  <1>5. /\ pc[c] = "refuse" => pc'[c] = "key"
        /\ pc[c] # "refuse" => pc'[c] = "recorded"
        /\ \A d \in Call \ {c} : pc'[d] = pc[d]
        /\ pc' \in [Call -> Label]
    BY <1>0, <1>3 DEF TypeOK, Label, Resting, HoldsLoop
  <1>6. GoesOn(c)
    BY <1>0, <1>1, <1>3, <1>5, <1>l DEF GoesOn, Others, Inside, Resting, TypeOK, e0
  <1>7. TypeOK'
    BY <1>0, <1>2, <1>3, <1>5, <1>l, <1>u DEF TypeOK
  <1>8. Carries'
    <2>1. ASSUME NEW d \in Call, Inside(d)', d # c
          PROVE  Inside(d) /\ pc'[d] = pc[d] /\ local'[d] = local[d] /\ req'[d] = req[d]
      BY <1>3, <1>5, <1>l, <2>1 DEF Inside
    <2>2. local'[c].exec = IF req'[c].exec # None THEN req'[c].exec ELSE c
      BY <1>1, <1>3, <1>l
    <2>3. /\ pc'[c] = "recorded" => local'[c].outcome \in {"SUCCESS", "FAILED"}
          /\ pc'[c] = "key" => local'[c].outcome = "DENIED" /\ local'[c].settlement = None
      BY <1>0, <1>5, <1>u DEF Carries, SameRow
    <2> QED
      BY <1>0, <1>1, <1>3, <1>5, <1>l, <2>1, <2>2, <2>3 DEF Carries
  <1>9. AuditsHold'
    <2>1. /\ local[c].audit \in 1..Len(audits) /\ audits[local[c].audit].agent = req[c].agent
          /\ pc[c] # "refuse" => audits[local[c].audit].decision = "ALLOW"
          /\ pc[c] = "refuse" => row.status = "DENIED"
      BY <1>0, <1>u DEF AuditsHold, Carries, Undecided, Ran, ExecRow
    <2>2. \A e \in ExecId : execs'[e] # None =>
            /\ execs'[e].audit \in 1..Len(audits)
            /\ audits[execs'[e].audit].agent = execs'[e].agent
            /\ execs'[e].status # "DENIED" => audits[execs'[e].audit].decision = "ALLOW"
      BY <1>0, <1>2, <1>4, <2>1 DEF AuditsHold
    <2>3. \A d \in Call : (Inside(d)' /\ pc'[d] \notin Undecided) =>
            /\ local'[d].audit = local[d].audit
            /\ local[d].audit \in 1..Len(audits)
            /\ audits[local[d].audit].agent = req[d].agent
            /\ pc'[d] \in Ran => audits[local[d].audit].decision = "ALLOW" /\ ~local'[d].refused
      BY <1>0, <1>5, <1>l DEF AuditsHold, Inside, Undecided, Ran
    <2> QED
      BY <1>3, <2>2, <2>3 DEF AuditsHold
  <1>10. AuditsApart'
    <2>1. \A d, e \in Call :
            (/\ Inside(d)' /\ pc'[d] \notin Undecided /\ Inside(e)' /\ pc'[e] \notin Undecided
             /\ local[d].audit = local[e].audit) => d = e
      BY <1>0, <1>5 DEF AuditsApart, Inside, Undecided
    <2>2. ASSUME NEW d \in Call, NEW e \in ExecId, Inside(d)', pc'[d] \notin Undecided,
                 execs'[e] # None, execs'[e].audit = local[d].audit
          PROVE  pc'[d] \in Written /\ e = local[d].exec
      <3>1. Inside(d) /\ pc[d] \notin Undecided
        BY <1>0, <1>5, <2>2 DEF Inside, Undecided
      <3>2. CASE e # e0
        BY <1>0, <1>4, <1>5, <2>2, <3>1, <3>2 DEF AuditsApart, Written
      <3>3. CASE e = e0
        <4>1. d = c
          BY <1>0, <1>2, <1>4, <2>2, <3>1, <3>3 DEF AuditsApart, Undecided
        <4> QED
          BY <1>0, <1>5, <3>3, <4>1 DEF Written, e0
      <3> QED
        BY <3>2, <3>3
    <2>3. \A e \in ExecId \ {e0} : execs[e] # None => execs[e].audit # row.audit
      BY <1>0, <1>2 DEF AuditsApart, Written, Undecided
    <2>4. \A e, f \in ExecId :
            (execs'[e] # None /\ execs'[f] # None /\ execs'[e].audit = execs'[f].audit) => e = f
      BY <1>0, <1>4, <2>3 DEF AuditsApart
    <2>5. \A d \in Call : local'[d].audit = local[d].audit /\ local'[d].exec = local[d].exec
      BY <1>l DEF e0
    <2> QED
      BY <2>1, <2>2, <2>4, <2>5 DEF AuditsApart
  <1>11. AnswersHold'
    <2>1. ASSUME NEW d \in Call, pc'[d] \in Written
          PROVE  execs'[local'[d].exec] = ExecRow(d)'
      <3>1. CASE d = c
        BY <1>2, <1>4, <1>l, <3>1
      <3>2. CASE d # c
        <4>1. pc[d] \in Written /\ execs[local[d].exec] = ExecRow(d)
              /\ req[d] \in Requests /\ local[d] \in Local
          BY <1>0, <1>5, <2>1, <3>2 DEF AnswersHold, Carries, Inside, Resting, Written
        <4>2. ExecRow(d) \in ExecRecord /\ local[d].exec \in ExecId /\ ExecRow(d)' = ExecRow(d)
              /\ local'[d] = local[d]
          BY <1>3, <1>l, <3>2, <4>1, RequestFacts DEF ExecRow, ExecRecord, Local, Request
        <4> QED
          BY <1>3, <1>4, <4>1, <4>2, InvokeAssumption
      <3> QED
        BY <3>1, <3>2
    <2>2. \A e \in ExecId : execs[e] # None => execs'[e] = execs[e]
      BY <1>3, <1>4
    <2>3. \A p \in Agent \X Key : keys[p] # None =>
            execs'[keys[p]] # None /\ execs'[keys[p]].agent = p[1]
      BY <1>0, <2>2 DEF AnswersHold, TypeOK
    <2>4. ASSUME NEW d \in Call, pc'[d] = "done"
          PROVE  /\ req[d] \in Requests /\ reply[d] \in [id : ExecId, row : ExecRecord]
                 /\ keys[Scoped(req[d])] = reply[d].id
                 /\ execs'[reply[d].id] = reply[d].row
                 /\ reply[d].row.agent = req[d].agent
      <3>1. pc[d] = "done"
        BY <1>0, <1>5, <2>4
      <3>2. /\ req[d] \in Requests /\ reply[d] \in [id : ExecId, row : ExecRecord]
            /\ keys[Scoped(req[d])] = reply[d].id /\ execs[reply[d].id] = reply[d].row
            /\ reply[d].row.agent = req[d].agent
        BY <1>0, <3>1 DEF AnswersHold, ReplyIsStored
      <3> QED
        BY <2>2, <3>2, InvokeAssumption
    <2> QED
      BY <1>3, <2>1, <2>3, <2>4 DEF AnswersHold, ReplyIsStored
  <1>12. LateHeld'
    <2> SUFFICES ASSUME NEW d \in late PROVE LateAt(d)'
      BY <1>3 DEF LateHeld
    <2>1. d \in Call /\ LateAt(d)
      BY DEF IInv, TypeOK, LateHeld
    <2> QED
      BY <1>0, <1>3, <1>5, <1>l, <2>1 DEF LateAt, Inside, Resting, Dead, Ran
  <1>13. RunHeld'
    BY <1>0, <1>3, <1>5, <1>6, RunStays DEF IInv, GoesOn, Ran
  <1>14. SettleHeld'
    <2>1. e0 \in Call => e0 = c
      BY <1>1, RequestFacts, InvokeAssumption DEF Request
    <2>2. \A d \in Call : (pc'[d] = "idle" \/ (Inside(d)' /\ pc'[d] \notin Written))
                           => execs'[d] = None
      BY <1>0, <1>4, <1>5, <2>1 DEF SettleHeld, Inside, Resting, Written, ExecId
    <2>3. ASSUME NEW d \in Call, NEW s \in SettlementId,
                 records[s] # None, records[s].execution = d
          PROVE  /\ pc'[d] # "idle"
                 /\ Inside(d)' => /\ pc'[d] \in {"settled", "recorded"}
                                  /\ d \notin unwritten' => Reports(ExecRow(d)', s)
                 /\ execs'[d] # None => (d \notin unwritten' => Reports(execs'[d], s))
      <3>1. CASE d # c
        <4>1. /\ execs'[d] = execs[d] /\ pc'[d] = pc[d] /\ ExecRow(d)' = ExecRow(d)
              /\ (d \in unwritten' <=> d \in unwritten)
          BY <1>3, <1>4, <1>5, <1>l, <1>u, <2>1, <3>1 DEF ExecId, ExecRow
        <4> QED
          BY <1>0, <2>3, <4>1 DEF SettleHeld, Inside
      <3>2. CASE d = c
        <4>1. /\ pc[c] = "settled" /\ execs[c] = None
              /\ c \notin unwritten => Reports(ExecRow(c), s)
          BY <1>0, <2>3, <3>2 DEF SettleHeld, Written
        <4>2. c \notin unwritten' => Reports(row, s)
          BY <1>u, <4>1
        <4>3. execs'[c] # None => execs'[c] = row
          BY <1>4, <4>1 DEF ExecId
        <4> QED
          BY <1>2, <1>5, <3>2, <4>1, <4>2, <4>3
      <3> QED
        BY <3>1, <3>2
    <2>4. ASSUME NEW d \in unwritten'
          PROVE  /\ pc'[d] # "idle" /\ (Inside(d)' => pc'[d] = "recorded")
                 /\ execs'[d] # None => execs'[d].status = "FAILED" /\ execs'[d].settlement = None
      <3>1. d \in Call
        BY <1>7, <2>4 DEF TypeOK
      <3>2. CASE d # c
        <4>1. d \in unwritten /\ execs'[d] = execs[d] /\ pc'[d] = pc[d]
          BY <1>4, <1>5, <1>u, <2>1, <2>4, <3>1, <3>2 DEF ExecId
        <4> QED
          BY <1>0, <4>1 DEF SettleHeld, Inside
      <3>3. CASE d = c
        <4>1. c \notin unwritten /\ execs[c] = None
          BY <1>0 DEF SettleHeld, Written
        <4>2. pc[c] = "settled" /\ row.status = "FAILED" /\ row.settlement = None
          BY <1>u, <2>4, <3>3, <4>1
        <4>3. execs'[c] # None => execs'[c] = row
          BY <1>4, <4>1 DEF ExecId
        <4> QED
          BY <1>5, <3>3, <4>2, <4>3
      <3> QED
        BY <3>2, <3>3
    <2>5. \A x, s : Reports(x, s)' = Reports(x, s)
      BY <1>3 DEF Reports
    <2> QED
      BY <1>3, <2>2, <2>3, <2>4, <2>5 DEF SettleHeld, Reports, ExecRow
  <1>15. Paired'
    <2>1. \A d \in Call : pc'[d] \in {"decided", "handler", "chain"} =>
            pc[d] \in {"decided", "handler", "chain"} /\ local'[d].audit = local[d].audit
      BY <1>0, <1>5, <1>l
    <2> QED
      BY <1>3, <2>1, PairedStays, AllowRowsStay, SettlementsStay DEF IInv
  <1> QED
    BY <1>7, <1>8, <1>9, <1>10, <1>11, <1>12, <1>13, <1>14, <1>15 DEF IInv

-----------------------------------------------------------------------------
(* Operations of the other services only let agents and tokens go, and     *)
(* decide settlements that name no execution.                              *)
Elsewhere ==
  /\ active' \subseteq active /\ live' \subseteq live
  /\ UNCHANGED <<audits, execs, keys, pc, req, local, reply, runs, rough, late, unwritten>>
  /\ \A s \in SettlementId :
       records'[s] # records[s] => records[s] = None /\ records'[s].execution = None

LEMMA ElsewhereKeeps ==
  ASSUME IInv, TypeOK', Elsewhere
  PROVE  IInv'
  <1> USE DEF Elsewhere
  <1>0. \A c \in Call : Inside(c)' = Inside(c) /\ ExecRow(c)' = ExecRow(c)
    BY DEF Inside, ExecRow
  <1>1. Carries'
    BY <1>0 DEF IInv, Carries
  <1>2. AuditsHold'
    BY <1>0 DEF IInv, AuditsHold
  <1>3. AuditsApart'
    BY <1>0 DEF IInv, AuditsApart
  <1>4. AnswersHold'
    BY <1>0 DEF IInv, AnswersHold, ReplyIsStored
  <1>5. LateHeld'
    <2> SUFFICES ASSUME NEW d \in late PROVE LateAt(d)'
      BY DEF LateHeld
    <2>1. d \in Call /\ LateAt(d)
      BY DEF IInv, TypeOK, LateHeld
    <2> QED
      BY <1>0, <2>1 DEF LateAt, Dead
  <1>6. RunHeld'
    <2>1. \A p \in Agent \X Key : Busy(p)' = Busy(p)
      BY DEF Busy
    <2> QED
      BY <2>1 DEF IInv, RunHeld
  <1>7. SettleHeld'
    <2>1. ASSUME NEW c \in Call, NEW s \in SettlementId,
                 records'[s] # None, records'[s].execution = c
          PROVE  /\ records'[s] = records[s]
                 /\ pc[c] # "idle"
                 /\ Inside(c) => /\ pc[c] \in {"settled", "recorded"}
                                 /\ c \notin unwritten => Reports(ExecRow(c), s)
                 /\ execs[c] # None => (c \notin unwritten => Reports(execs[c], s))
      <3>1. records'[s] = records[s]
        BY <2>1, InvokeAssumption
      <3> QED
        BY <2>1, <3>1 DEF IInv, SettleHeld
    <2>2. \A c \in unwritten' :
            /\ pc'[c] # "idle" /\ (Inside(c)' => pc'[c] = "recorded")
            /\ execs'[c] # None => execs'[c].status = "FAILED" /\ execs'[c].settlement = None
      BY <1>0 DEF IInv, TypeOK, SettleHeld
    <2>3. \A c \in Call : (pc'[c] = "idle" \/ (Inside(c)' /\ pc'[c] \notin Written))
                           => execs'[c] = None
      BY <1>0 DEF IInv, SettleHeld
    <2>4. ASSUME NEW c \in Call, NEW s \in SettlementId,
                 (records[s] # None /\ records[s].execution = c)'
          PROVE  (/\ pc[c] # "idle"
                  /\ Inside(c) => /\ pc[c] \in {"settled", "recorded"}
                                  /\ c \notin unwritten => Reports(ExecRow(c), s)
                  /\ execs[c] # None => (c \notin unwritten => Reports(execs[c], s)))'
      BY <1>0, <2>1, <2>4 DEF Reports, ExecRow
    <2> QED
      BY <2>2, <2>3, <2>4 DEF SettleHeld
  <1>8. Paired'
    <2>1. Settlements' = Settlements
      BY DEF Settlements
    <2> QED
      BY <2>1, PairedStays, AllowRowsStay DEF IInv
  <1> QED
    BY <1>1, <1>2, <1>3, <1>4, <1>5, <1>6, <1>7, <1>8 DEF IInv

(* The operations of the other services preserve the invariant.            *)
LEMMA ElsewhereStep ==
  ASSUME IInv,
         \/ \E a \in Agent : DeactivateAgent(a)
         \/ \E t \in Token : EndToken(t)
         \/ \E d \in Payer("chain") : VerifyWallet(d) \/ ReconnectWallet(d)
         \/ \E d \in Payer("luffa-points") : Credit(d)
         \/ \E s \in GivenSettlement, i \in Pays : TransferSettlement(s, i)
  PROVE  IInv'
  <1> USE DEF Quiet, history, stores, ledger
  <1>0. TypeOK /\ Pays \subseteq Payment
    BY RequestFacts DEF IInv, Pays, Request
  <1>1. ASSUME NEW a \in Agent, DeactivateAgent(a) PROVE TypeOK' /\ Elsewhere
    BY <1>0, <1>1 DEF DeactivateAgent, TypeOK, Elsewhere
  <1>2. ASSUME NEW t \in Token, EndToken(t) PROVE TypeOK' /\ Elsewhere
    BY <1>0, <1>2 DEF EndToken, TypeOK, Elsewhere
  <1>3. ASSUME NEW d \in Payer("chain"), VerifyWallet(d) \/ ReconnectWallet(d)
        PROVE  TypeOK' /\ Elsewhere
    <2>1. d \in Did
      BY <1>0 DEF Payer, Payment
    <2> QED
      BY <1>0, <1>3, <2>1 DEF VerifyWallet, ReconnectWallet, TypeOK, Elsewhere
  <1>4. ASSUME NEW d \in Payer("luffa-points"), Credit(d) PROVE TypeOK' /\ Elsewhere
    <2>1. d \in Did
      BY <1>0 DEF Payer, Payment
    <2> QED
      BY <1>0, <1>4, <2>1 DEF Credit, TypeOK, Elsewhere
  <1>5. ASSUME NEW s \in GivenSettlement, NEW i \in Pays, TransferSettlement(s, i)
        PROVE  TypeOK' /\ Elsewhere
    <2>1. PICK outcome \in SettlementStatus : Ledger!Decide(s, SettledRow(i, outcome, None))
      BY <1>5 DEF TransferSettlement
    <2>2. SettledRow(i, outcome, None) \in Settled /\ SettledRow(i, outcome, None).execution = None
          /\ s \in SettlementId
      BY <1>0 DEF SettledRow, Settled, Payment, SettlementId
    <2>3. /\ balance' \in [Did -> Nat] /\ records' \in [SettlementId -> Settled \cup {None}]
          /\ records[s] = None /\ records' = [records EXCEPT ![s] = SettledRow(i, outcome, None)]
      BY <1>0, <2>1, <2>2, DecideTypes DEF TypeOK
    <2>4. UNCHANGED <<active, live, bound, audits, execs, keys, pc, req, local, reply, runs,
                      rough, late, unwritten>>
      BY <1>5 DEF TransferSettlement
    <2> QED
      BY <1>0, <2>2, <2>3, <2>4 DEF TypeOK, Elsewhere
  <1> QED
    BY <1>1, <1>2, <1>3, <1>4, <1>5, ElsewhereKeeps

(* A request arrives: its agent is unknown, or its row is copied.          *)
LEMMA ArriveStep ==
  ASSUME IInv, NEW c \in Call, NEW r \in Requests, Arrive(c, r)
  PROVE  IInv'
  <1>0. /\ TypeOK /\ Carries /\ AuditsHold /\ AuditsApart /\ AnswersHold /\ LateHeld /\ RunHeld
        /\ SettleHeld /\ Paired
    BY DEF IInv
  <1>1. r \in Request /\ r # None /\ Scoped(r) \in Agent \X Key
    BY RequestFacts
  <1>2. /\ pc[c] = "idle" /\ req' = [req EXCEPT ![c] = r]
        /\ UNCHANGED <<active, live, bound, audits, execs, keys, balance, records, reply, runs,
                       unwritten>>
    BY DEF Arrive, db, stores, ledger
  <1>3. /\ req'[c] = r /\ req' \in [Call -> Requests \cup {None}]
        /\ \A d \in Call \ {c} : req'[d] = req[d]
    BY <1>0, <1>2 DEF TypeOK
  <1>4. \E l \in {"thrown", "resolved"} :
          pc' = [pc EXCEPT ![c] = l] /\ (l = "resolved" => r.agent \in Registered)
    BY DEF Arrive, Goto
  <1>5. /\ pc' \in [Call -> Label] /\ pc'[c] \in {"thrown", "resolved"}
        /\ \A d \in Call \ {c} : pc'[d] = pc[d]
    BY <1>0, <1>4 DEF TypeOK, Label, Resting
  <1> DEFINE v == [active |-> r.agent \in active, valid |-> FALSE, refused |-> FALSE,
                   audit |-> 0, exec |-> IF r.exec # None THEN r.exec ELSE c,
                   outcome |-> "DENIED", settlement |-> None]
  <1>6. pc'[c] = "resolved" =>
          /\ local' = [local EXCEPT ![c] = v]
          /\ rough' = IF Busy(Scoped(r)) # {} THEN rough \cup {Scoped(r)} ELSE rough
          /\ late' = IF Dead(r) THEN late \cup {c} ELSE late
    BY <1>0, <1>4 DEF Arrive, Goto, TypeOK
  <1>7. pc'[c] = "thrown" => UNCHANGED <<local, rough, late, unwritten>>
    BY <1>0, <1>4 DEF Arrive, Goto, TypeOK
  <1>8. /\ v \in Local /\ v.exec = IF r.exec # None THEN r.exec ELSE c
        /\ v.outcome = "DENIED" /\ v.settlement = None
    BY <1>1 DEF Local, ExecId, ExecStatus, Request
  <1>9. v.active => r.agent \in active
    OBVIOUS
  <1> HIDE DEF v
  <1>10. /\ \A d \in Call \ {c} : local'[d] = local[d]
         /\ local' \in [Call -> Local \cup {None}]
         /\ pc'[c] = "resolved" => local'[c] = v
    BY <1>0, <1>5, <1>6, <1>7, <1>8 DEF TypeOK
  <1>11. TypeOK'
    BY <1>0, <1>1, <1>2, <1>3, <1>5, <1>6, <1>7, <1>10 DEF TypeOK
  <1>12. /\ \A d \in Call \ {c} : Inside(d)' = Inside(d) /\ ExecRow(d)' = ExecRow(d)
         /\ ~Inside(c) /\ (Inside(c)' => pc'[c] = "resolved")
    BY <1>2, <1>3, <1>5, <1>10 DEF Inside, Resting, ExecRow
  <1>13. Carries'
    BY <1>0, <1>3, <1>5, <1>8, <1>10, <1>12 DEF Carries
  <1>14. AuditsHold'
    BY <1>0, <1>2, <1>3, <1>5, <1>10, <1>12 DEF AuditsHold, Undecided
  <1>15. AuditsApart'
    BY <1>0, <1>2, <1>5, <1>10, <1>12 DEF AuditsApart, Undecided
  <1>16. AnswersHold'
    <2>1. \A d \in Call : pc'[d] \in Written => execs[local'[d].exec] = ExecRow(d)'
      BY <1>0, <1>5, <1>10, <1>12 DEF AnswersHold, Written
    <2>2. \A d \in Call : pc'[d] = "done" => d # c /\ pc[d] = "done" /\ req'[d] = req[d]
      BY <1>3, <1>5
    <2> QED
      BY <1>0, <1>2, <2>1, <2>2 DEF AnswersHold, ReplyIsStored
  <1>17. LateHeld'
    <2> SUFFICES ASSUME NEW d \in late' PROVE LateAt(d)'
      BY DEF LateHeld
    <2>1. CASE d = c
      <3>1. c \notin late
        BY <1>0, <1>12 DEF LateHeld, LateAt
      <3>2. pc'[c] = "resolved" /\ Dead(r)
        BY <1>5, <1>6, <1>7, <2>1, <3>1
      <3>3. Dead(req[c])' /\ (r.agent \in active => r.token # None /\ r.token \notin live)
        BY <1>2, <1>3, <3>2 DEF Dead
      <3>4. local'[c].active => r.agent \in active
        BY <1>9, <1>10, <3>2
      <3> QED
        BY <1>2, <1>3, <2>1, <3>2, <3>3, <3>4 DEF LateAt, Inside, Resting, Ran
    <2>2. CASE d # c
      <3>1. d \in late /\ d \in Call /\ LateAt(d)
        BY <1>0, <1>5, <1>6, <1>7, <2>2 DEF LateHeld, TypeOK
      <3> QED
        BY <1>2, <1>3, <1>5, <1>10, <1>12, <2>2, <3>1 DEF LateAt, Dead
    <2> QED
      BY <2>1, <2>2
  <1>18. RunHeld'
    <2> SUFFICES ASSUME NEW p \in (Agent \X Key) \ rough'
                 PROVE  /\ \A d, e \in Busy(p)' : d = e
                        /\ \A d \in Busy(p)' : pc'[d] # "resolved" => keys[p] = None
                        /\ runs[p] \in {0, 1}
                        /\ (runs[p] = 1 /\ keys[p] = None) => \E d \in Busy(p)' : pc'[d] \in Ran
      BY <1>2 DEF RunHeld
    <2>1. p \notin rough /\ c \notin Busy(p)
      BY <1>2, <1>5, <1>6, <1>7 DEF Busy, Resting
    <2>2. \A d \in Call \ {c} : d \in Busy(p)' <=> d \in Busy(p)
      BY <1>3, <1>5 DEF Busy
    <2>3. CASE c \notin Busy(p)'
      <3>1. Busy(p)' = Busy(p) /\ \A d \in Busy(p) : pc'[d] = pc[d]
        BY <1>5, <2>1, <2>2, <2>3 DEF Busy
      <3> QED
        BY <1>0, <2>1, <3>1 DEF RunHeld
    <2>4. CASE c \in Busy(p)'
      <3>1. p = Scoped(r) /\ pc'[c] = "resolved"
        BY <1>3, <1>5, <2>4 DEF Busy, Resting
      <3>2. Busy(p) = {}
        BY <1>6, <3>1
      <3>3. Busy(p)' = {c}
        BY <2>2, <2>4, <3>2 DEF Busy
      <3> QED
        BY <1>0, <2>1, <3>1, <3>2, <3>3 DEF RunHeld
    <2> QED
      BY <2>3, <2>4
  <1>19. SettleHeld'
    <2>1. \A d \in Call : (pc'[d] = "idle" \/ (Inside(d)' /\ pc'[d] \notin Written))
                           => execs[d] = None
      BY <1>0, <1>2, <1>5, <1>12 DEF SettleHeld
    <2>2. ASSUME NEW d \in Call, NEW s \in SettlementId,
                 records[s] # None, records[s].execution = d
          PROVE  /\ d # c /\ pc[d] # "idle"
                 /\ Inside(d) => /\ pc[d] \in {"settled", "recorded"}
                                 /\ d \notin unwritten => Reports(ExecRow(d), s)
                 /\ execs[d] # None => (d \notin unwritten => Reports(execs[d], s))
      BY <1>0, <1>2, <2>2 DEF SettleHeld
    <2>3. \A d \in unwritten :
            /\ d \in Call /\ d # c /\ pc[d] # "idle" /\ (Inside(d) => pc[d] = "recorded")
            /\ execs[d] # None => execs[d].status = "FAILED" /\ execs[d].settlement = None
      BY <1>0, <1>2 DEF SettleHeld, TypeOK
    <2> QED
      BY <1>2, <1>5, <1>12, <2>1, <2>2, <2>3 DEF SettleHeld, Reports
  <1>20. Paired'
    <2>1. \A d \in Call : pc'[d] \in {"decided", "handler", "chain"} =>
            pc[d] \in {"decided", "handler", "chain"} /\ local'[d].audit = local[d].audit
      BY <1>5, <1>10
    <2> QED
      BY <1>0, <1>2, <2>1, PairedStays, AllowRowsStay, SettlementsStay
  <1> QED
    BY <1>11, <1>13, <1>14, <1>15, <1>16, <1>17, <1>18, <1>19, <1>20 DEF IInv

(* Every step of Next preserves the invariant, and so does stuttering.     *)
LEMMA NextIInv == IInv /\ [Next]_vars => IInv'
  <1> SUFFICES ASSUME IInv, [Next]_vars PROVE IInv'
    OBVIOUS
  <1>1. ASSUME NEW c \in Call, Step(c) PROVE IInv'
    BY <1>1, CheckStep, AuditStep, RunHandlerStep, AfterHandlerStep, SettleStep, WriteStep,
       AnswerStep, ThrowStep DEF Step
  <1>2. CASE UNCHANGED vars
    <2>1. TypeOK' /\ Elsewhere
      BY <1>2 DEF IInv, TypeOK, Elsewhere, vars, db, stores, ledger, history
    <2> QED
      BY <2>1, ElsewhereKeeps
  <1> QED
    BY <1>1, <1>2, ElsewhereStep, ArriveStep, CrashStep DEF Next

(* The inductive invariant holds throughout.                               *)
THEOREM Invariant == Spec => []IInv
  BY InitIInv, NextIInv, PTL DEF Spec

(* Every variable holds a value of its kind.                               *)
THEOREM TypeCorrect == Spec => []TypeOK
  <1>1. IInv => TypeOK
    BY DEF IInv
  <1> QED
    BY <1>1, Invariant, PTL

(* The rows of audits are audit rows.                                      *)
LEMMA Elements ==
  ASSUME NEW S, NEW q \in Seq(S)
  PROVE  \A k \in 1..Len(q) : q[k] \in S
  OBVIOUS

LEMMA AuditRows ==
  ASSUME TypeOK
  PROVE  /\ DOMAIN audits = 1..Len(audits) /\ Len(audits) \in Nat
         /\ \A k \in 1..Len(audits) : audits[k] \in [agent : Agent, decision : Decision]
  <1> DEFINE Rows == [agent : Agent, decision : Decision]
  <1>1. audits \in Seq(Rows)
    BY DEF TypeOK
  <1> HIDE DEF Rows
  <1>2. \A k \in 1..Len(audits) : audits[k] \in Rows
    BY <1>1, Elements
  <1> QED
    BY <1>1, <1>2 DEF Rows

(* An audit row is its agent and its decision.                             *)
LEMMA AuditRow ==
  \A row \in [agent : Agent, decision : Decision], a \in Agent :
    (row.agent = a /\ row.decision = "ALLOW") => row = [agent |-> a, decision |-> "ALLOW"]
  OBVIOUS

(* An execution that is not DENIED rests on an ALLOW row of its own agent, *)
(* and no two executions share one.                                        *)
THEOREM ExecutionsArePermitted == Spec => []ExecutedWithPermission
  <1>1. IInv => ExecutedWithPermission
    <2> SUFFICES ASSUME IInv, NEW e \in ExecId, Executed(e)
                 PROVE  /\ execs[e].audit \in DOMAIN audits
                        /\ audits[execs[e].audit] = [agent |-> execs[e].agent, decision |-> "ALLOW"]
                        /\ \A f \in ExecId \ {e} : execs[f] # None => execs[f].audit # execs[e].audit
      BY DEF ExecutedWithPermission
    <2>1. /\ execs[e] # None /\ execs[e].audit \in 1..Len(audits)
          /\ audits[execs[e].audit].agent = execs[e].agent
          /\ audits[execs[e].audit].decision = "ALLOW"
      BY DEF IInv, AuditsHold, Executed
    <2>2. DOMAIN audits = 1..Len(audits)
          /\ audits[execs[e].audit] \in [agent : Agent, decision : Decision]
      BY <2>1, AuditRows DEF IInv
    <2>3. audits[execs[e].audit] = [agent |-> execs[e].agent, decision |-> "ALLOW"]
      <3> DEFINE row == audits[execs[e].audit]
      <3>1. row \in [agent : Agent, decision : Decision] /\ row.agent = execs[e].agent
            /\ row.decision = "ALLOW"
        BY <2>1, <2>2
      <3> HIDE DEF row
      <3>2. row = [agent |-> execs[e].agent, decision |-> "ALLOW"]
        BY <3>1, AuditRow
      <3> QED
        BY <3>2 DEF row
    <2>4. \A f \in ExecId \ {e} : execs[f] # None => execs[f].audit # execs[e].audit
      BY <2>1 DEF IInv, AuditsApart
    <2> QED
      BY <2>1, <2>2, <2>3, <2>4
  <1> QED
    BY <1>1, Invariant, PTL

(* Settlements by invocations never outnumber the ALLOW decisions.         *)
THEOREM SettlementsArePermitted == Spec => []SettledWithPermission
  <1>1. IInv => SettledWithPermission
    <2> SUFFICES ASSUME IInv PROVE Cardinality(Settlements) <= Cardinality(UNION {AllowedOf(a) : a \in Agent})
      BY DEF SettledWithPermission, Settlements
    <2> DEFINE allowed == UNION {AllowedOf(a) : a \in Agent}
    <2>1. /\ DOMAIN audits = 1..Len(audits) /\ Len(audits) \in Nat
          /\ \A k \in 1..Len(audits) : audits[k] \in [agent : Agent, decision : Decision]
      BY AuditRows DEF IInv
    <2>2. AllowRows \subseteq allowed
      <3> SUFFICES ASSUME NEW k \in AllowRows PROVE \E a \in Agent : k \in AllowedOf(a)
        OBVIOUS
      <3>1. k \in 1..Len(audits) /\ audits[k] \in [agent : Agent, decision : Decision]
            /\ audits[k].decision = "ALLOW"
        BY <2>1 DEF AllowRows
      <3>2. audits[k] = [agent |-> audits[k].agent, decision |-> "ALLOW"]
            /\ audits[k].agent \in Agent
        <4> DEFINE row == audits[k]
        <4>1. row \in [agent : Agent, decision : Decision] /\ row.decision = "ALLOW"
          BY <3>1
        <4> HIDE DEF row
        <4>2. row = [agent |-> row.agent, decision |-> "ALLOW"] /\ row.agent \in Agent
          BY <4>1, AuditRow
        <4> QED
          BY <4>2 DEF row
      <3>3. k \in AllowedOf(audits[k].agent)
        BY <2>1, <3>1, <3>2 DEF AllowedOf
      <3> QED
        BY <3>2, <3>3
    <2>3. allowed \subseteq 1..Len(audits)
      BY <2>1 DEF AllowedOf
    <2>4. IsFiniteSet(allowed)
      <3>1. IsFiniteSet(1..Len(audits))
        BY <2>1, FS_Interval
      <3> QED
        BY <2>3, <3>1, FS_Subset
    <2>5. PICK f \in [Settlements -> AllowRows] :
            \A s, t \in Settlements : f[s] = f[t] => s = t
      BY DEF IInv, Paired
    <2>6. f \in Injection(Settlements, allowed)
      BY <2>2, <2>5 DEF Injection, IsInjective
    <2> HIDE DEF allowed
    <2>7. Cardinality(Settlements) <= Cardinality(allowed)
      BY <2>4, <2>6, FS_Injection
    <2> QED
      BY <2>7 DEF allowed
  <1> QED
    BY <1>1, Invariant, PTL

(* Sequential retries run the handler once.                                *)
THEOREM RetriesRunOnce == Spec => []RunOnce
  <1>1. IInv => RunOnce
    BY DEF IInv, RunHeld, RunOnce
  <1> QED
    BY <1>1, Invariant, PTL

(* What was returned is stored, and stays what a retry returns.            *)
THEOREM RepliesAreStored == Spec => []ReplyIsStored
  <1>1. IInv => ReplyIsStored
    BY DEF IInv, AnswersHold
  <1> QED
    BY <1>1, Invariant, PTL

(* A late request runs no handler and settles nothing.                     *)
THEOREM LateAreRefused == Spec => []LateIsRefused
  <1>1. IInv => LateIsRefused
    BY DEF IInv, LateHeld, LateAt, LateIsRefused, Ran
  <1> QED
    BY <1>1, Invariant, PTL

(* Settlements are named by the executions that made them.                 *)
THEOREM SettlementsAreReported == Spec => []SettlementIsReported
  <1>1. IInv => SettlementIsReported
    <2> SUFFICES ASSUME IInv, NEW s \in SettlementId, NEW c \in Call, records[s] # None,
                        pc[c] = "done", reply[c].id \in Call,
                        records[s].execution = reply[c].id
                 PROVE  IF reply[c].id \in unwritten
                          THEN reply[c].row.status = "FAILED" /\ reply[c].row.settlement = None
                          ELSE Reports(reply[c].row, s)
      BY DEF SettlementIsReported, Reports
    <2>1. execs[reply[c].id] = reply[c].row /\ reply[c].row \in ExecRecord
      BY DEF IInv, AnswersHold, ReplyIsStored
    <2>2. execs[reply[c].id] # None
      BY <2>1, InvokeAssumption
    <2> QED
      BY <2>1, <2>2 DEF IInv, SettleHeld
  <1> QED
    BY <1>1, Invariant, PTL

(* Whatever interleaves with an invocation, the balances and settlement    *)
(* records move only as PointsLedger lets them.                            *)
THEOREM InvokeImplementsLedger == Spec => Ledger!LedgerSpec
  <1>1. Init => Ledger!LedgerInit
    BY DEF Init
  <1>2. IInv /\ [Next]_vars => [Ledger!LedgerNext]_(Ledger!ledger)
    <2> SUFFICES ASSUME IInv, [Next]_vars
                 PROVE  Ledger!LedgerNext \/ UNCHANGED <<balance, records>>
      BY DEF Ledger!ledger
    <2> USE DEF db, stores, ledger
    <2>0. Pays \subseteq Payment
      BY RequestFacts DEF Pays, Request
    <2>1. ASSUME NEW d \in Payer("luffa-points"), Credit(d)
          PROVE  Ledger!LedgerNext
      <3>1. d \in Did
        BY <2>0 DEF Payer, Payment
      <3>2. balance \in [Did -> Nat] /\ balance' = [balance EXCEPT ![d] = @ + 1]
            /\ records' = records
        BY <2>1 DEF Credit, IInv, TypeOK
      <3>3. balance'[d] = balance[d] + 1 /\ balance[d] \in Nat
        BY <3>1, <3>2
      <3>4. balance' = [balance EXCEPT ![d] = balance'[d]]
        BY <3>1, <3>2, <3>3
      <3>5. Ledger!Mint(d)
        BY <3>2, <3>3, <3>4 DEF Ledger!Mint
      <3> QED
        BY <3>1, <3>5 DEF Ledger!LedgerNext
    <2>2. ASSUME NEW s \in GivenSettlement, NEW i \in Pays, TransferSettlement(s, i)
          PROVE  Ledger!LedgerNext
      <3>1. PICK outcome \in SettlementStatus : Ledger!Decide(s, SettledRow(i, outcome, None))
        BY <2>2 DEF TransferSettlement
      <3>2. SettledRow(i, outcome, None) \in Settled /\ s \in SettlementId
        BY <2>0 DEF SettledRow, Settled, Payment, SettlementId
      <3> QED
        BY <3>1, <3>2 DEF Ledger!LedgerNext
    <2>3. ASSUME NEW c \in Call, NEW outcome \in SettlementStatus,
                 pc[c] \in {"handler", "chain"}, req[c].pay # None,
                 SettleAs(c, SettledRow(req[c].pay, outcome, local[c].exec))
          PROVE  Ledger!LedgerNext
      <3>1. req[c] \in Requests /\ local[c].exec \in ExecId
        BY <2>3 DEF IInv, Carries, Inside, Resting, Local
      <3>2. req[c].pay \in Payment
        BY <2>3, <3>1, RequestFacts DEF Request
      <3>3. SettledRow(req[c].pay, outcome, local[c].exec) \in Settled /\ PaymentId(c) \in SettlementId
        BY <3>1, <3>2 DEF SettledRow, Settled, Payment, PaymentId, SettlementId
      <3>4. Ledger!Decide(PaymentId(c), SettledRow(req[c].pay, outcome, local[c].exec))
        BY <2>3 DEF SettleAs
      <3> QED
        BY <3>3, <3>4 DEF Ledger!LedgerNext
    <2>4. ASSUME NEW c \in Call, SettlePoints(c) PROVE Ledger!LedgerNext
      BY <2>3, <2>4 DEF SettlePoints, SettlementStatus
    <2>5. ASSUME NEW c \in Call, SettleChain(c) PROVE Ledger!LedgerNext
      BY <2>3, <2>5 DEF SettleChain, IInv, Carries, Inside, Resting
    <2>6. ASSUME NEW c \in Call, Step(c)
          PROVE  Ledger!LedgerNext \/ UNCHANGED <<balance, records>>
      BY <2>4, <2>5, <2>6
      DEF Step, Replay, RefuseInactive, CheckCapability, CheckToken, Evaluate, RefuseDecided,
          RefuseUnbound, RunHandler, SettleNothing, SettleAgain, ReachChain, SettleThrows,
          WriteRow, WriteAgain, Insert, WriteThrows, RecordIdempotency, KeyThrows, StatementThrows,
          Throw
    <2>7. ASSUME \/ \E a \in Agent : DeactivateAgent(a)
                 \/ \E t \in Token : EndToken(t)
                 \/ \E d \in Payer("chain") : VerifyWallet(d) \/ ReconnectWallet(d)
                 \/ \E c \in Call, r \in Requests : Arrive(c, r)
                 \/ Crash
                 \/ UNCHANGED vars
          PROVE  UNCHANGED <<balance, records>>
      BY <2>7 DEF DeactivateAgent, EndToken, VerifyWallet, ReconnectWallet, Arrive, Crash, vars
    <2> QED
      BY <2>1, <2>2, <2>6, <2>7 DEF Next
  <1> QED
    BY <1>1, <1>2, Invariant, PTL DEF Spec, Ledger!LedgerSpec
=============================================================================
