------------------------------- MODULE Invoke -------------------------------
(***************************************************************************)
(* LAEL.invoke (src/core/index.ts) with ExecutionService: concurrent calls *)
(* on one event loop, clients that retry a key, crashes and restarts.      *)
(* Identity, permission, wallet and settlement appear by what they promise *)
(* invoke(): an agent row, a token that is live or not, an audit row with  *)
(* any decision, a verified binding or none, and PointsLedger.             *)
(*                                                                         *)
(* A step ends at an await or after a committed SQL statement; while the   *)
(* pc of a call is in HoldsLoop it goes on without giving way.             *)
(***************************************************************************)
EXTENDS Integers, Sequences, FiniteSets

CONSTANTS
  Agent, Key, Token, Did,
  Call,               (* Invocations.                                      *)
  GivenExec,          (* Execution ids that clients supply.                *)
  GivenSettlement,    (* Settlement ids that clients supply.               *)
  Requests,           (* The requests clients send.                        *)
  Registered,         (* Agents with a row in agents.                      *)
  Capable,            (* Agents whose capabilities include the action.     *)
  Grants,             (* <<token, agent>>: grantee, scope and settlement   *)
                      (* constraints of the token admit the agent.         *)
  MaxMint,            (* Bound: points credited to one identity.           *)
  None

(* An id drawn by newId is named after the call that draws it.             *)
ExecId == Call \cup GivenExec
SettlementId == Call \cup GivenSettlement

Rail == {"luffa-points", "chain"}

(* What buildSettlementInstruction makes of the request's parameters.      *)
Payment ==
  [id : GivenSettlement \cup {None}, payer : Did, payee : Did,
   amount : Nat \ {0}, rail : Rail]

Request ==
  [agent : Agent, key : Key, exec : GivenExec \cup {None},
   token : Token \cup {None}, pay : Payment \cup {None}]

(* REQUIRES_CONFIRMATION is refused just as DENY is.                       *)
Decision == {"ALLOW", "DENY"}

SettlementStatus == {"COMPLETED", "FAILED", "ROLLED_BACK"}

(* A row of settlement_records; transferSettlement names no execution.     *)
Settled ==
  [payer : Did, payee : Did, amount : Nat \ {0}, rail : Rail,
   status : SettlementStatus, execution : ExecId \cup {None}]

(* A row of execution_records.                                             *)
ExecStatus == {"SUCCESS", "FAILED", "DENIED"}
ExecRecord ==
  [agent : Agent, status : ExecStatus, audit : Nat,
   settlement : SettlementId \cup {None}]

ASSUME InvokeAssumption ==
  /\ Requests \subseteq Request
  /\ Registered \subseteq Agent /\ Capable \subseteq Agent
  /\ Grants \subseteq Token \X Agent
  /\ MaxMint \in Nat
  /\ Call \cap (GivenExec \cup GivenSettlement) = {}
  /\ None \notin Call \cup GivenExec \cup GivenSettlement \cup Token \cup Requests
  /\ None \notin Settled \cup Payment \cup ExecRecord

VARIABLES
  active,   (* Agents whose status is "active".                            *)
  live,     (* Capability tokens neither revoked nor expired.              *)
  bound,    (* Identities whose wallet binding is verified.                *)
  audits,   (* permission_audits, in insertion order.                      *)
  execs,    (* execution_records by primary key, or None.                  *)
  keys,     (* idempotency_keys: the execution of <<agent, key>>, or None. *)
  balance,  (* As in PointsLedger.                                         *)
  records,
  pc, req,  (* Where each call stands, and what it was asked.              *)
  local,    (* The local variables of each call.                           *)
  reply,    (* The row each call returned.                                 *)
  runs,     (* History: handler runs for each <<agent, key>>.              *)
  rough,    (* History: the <<agent, key>> that were asked again while in  *)
            (* progress, or one of whose calls crashed or threw.           *)
  late,     (* History: calls that came after their agent was deactivated  *)
            (* or their token ended.                                       *)
  unwritten (* History: calls whose outcome could not be written, so that  *)
            (* a second row took its place.                                *)

stores == <<active, live, bound>>
ledger == <<balance, records>>
db == <<stores, audits, execs, keys, ledger>>
history == <<runs, rough, late, unwritten>>
vars == <<db, pc, req, local, reply, history>>

Ledger == INSTANCE PointsLedger WITH Record <- Settled

Resting == {"idle", "done", "thrown", "lost"}
HoldsLoop == {"refuse", "key"}
Label ==
  Resting \cup HoldsLoop
    \cup {"resolved", "verified", "checked", "decided", "handler", "chain",
          "settled", "caught", "recorded"}

LoopIdle == \A c \in Call : pc[c] \notin HoldsLoop

Goto(c, label) == pc' = [pc EXCEPT ![c] = label]

Scoped(r) == <<r.agent, r.key>>

Busy(pair) ==
  {c \in Call : pc[c] \notin Resting /\ Scoped(req[c]) = pair}

(* What a call that ends leaves behind.                                    *)
Forget(ended) ==
  /\ local' = [c \in Call |-> IF c \in ended THEN None ELSE local[c]]
  /\ late' = late \ ended

Throw(c) ==
  /\ Goto(c, "thrown") /\ Forget({c})
  /\ rough' = rough \cup {Scoped(req[c])}
  /\ UNCHANGED <<db, req, reply, runs, unwritten>>

Init ==
  /\ active = Registered
  /\ live = Token
  /\ bound = {}
  /\ audits = <<>>
  /\ execs = [e \in ExecId |-> None]
  /\ keys = [p \in Agent \X Key |-> None]
  /\ Ledger!LedgerInit
  /\ pc = [c \in Call |-> "idle"]
  /\ req = [c \in Call |-> None]
  /\ local = [c \in Call |-> None]
  /\ reply = [c \in Call |-> None]
  /\ runs = [p \in Agent \X Key |-> 0]
  /\ rough = {}
  /\ late = {}
  /\ unwritten = {}

-----------------------------------------------------------------------------
(* Operations of the other services.                                       *)

Quiet == UNCHANGED <<pc, req, local, reply, history>>

(* An agent that is deactivated never becomes active again.                *)
DeactivateAgent(a) ==
  /\ LoopIdle /\ a \in active
  /\ active' = active \ {a}
  /\ Quiet /\ UNCHANGED <<live, bound, audits, execs, keys, ledger>>

(* The token is revoked, or its expiresAt passes.                          *)
EndToken(t) ==
  /\ LoopIdle /\ t \in live
  /\ live' = live \ {t}
  /\ Quiet /\ UNCHANGED <<active, bound, audits, execs, keys, ledger>>

(* wallet.verify succeeds, or connect() asks for a new verification.       *)
VerifyWallet(d) ==
  /\ LoopIdle /\ d \notin bound
  /\ bound' = bound \cup {d}
  /\ Quiet /\ UNCHANGED <<active, live, audits, execs, keys, ledger>>

ReconnectWallet(d) ==
  /\ LoopIdle /\ d \in bound
  /\ bound' = bound \ {d}
  /\ Quiet /\ UNCHANGED <<active, live, audits, execs, keys, ledger>>

Credit(d) ==
  /\ LoopIdle /\ balance[d] < MaxMint
  /\ balance' = [balance EXCEPT ![d] = @ + 1]
  /\ Quiet /\ UNCHANGED <<stores, audits, execs, keys, records>>

SettledRow(i, outcome, e) ==
  [payer |-> i.payer, payee |-> i.payee, amount |-> i.amount, rail |-> i.rail,
   status |-> outcome, execution |-> e]

(* transferSettlement: a settlement outside any invocation.                *)
TransferSettlement(s, i) ==
  /\ LoopIdle
  /\ \E outcome \in SettlementStatus : Ledger!Decide(s, SettledRow(i, outcome, None))
  /\ Quiet /\ UNCHANGED <<stores, audits, execs, keys>>

-----------------------------------------------------------------------------
(* invoke().                                                               *)

Dead(r) ==
  r.agent \notin active \/ (r.token # None /\ r.token \notin live)

(* resolveAgent: the agent's row is copied before the first await.         *)
Arrive(c, r) ==
  /\ pc[c] = "idle" /\ LoopIdle
  /\ req' = [req EXCEPT ![c] = r]
  /\ IF r.agent \notin Registered
       THEN Goto(c, "thrown") /\ UNCHANGED <<local, rough, late>>
       ELSE /\ Goto(c, "resolved")
            /\ local' = [local EXCEPT ![c] =
                 [active |-> r.agent \in active, valid |-> FALSE,
                  refused |-> FALSE, audit |-> 0,
                  exec |-> IF r.exec # None THEN r.exec ELSE c,
                  outcome |-> "DENIED", settlement |-> None]]
            /\ rough' = IF Busy(Scoped(r)) # {} THEN rough \cup {Scoped(r)} ELSE rough
            /\ late' = IF Dead(r) THEN late \cup {c} ELSE late
  /\ UNCHANGED <<db, reply, runs, unwritten>>

(* Mutant: a key whose execution did not succeed is free again.            *)
KnownSuccess(c) ==
  LET e == keys[Scoped(req[c])] IN
  IF e # None /\ execs[e].status = "SUCCESS" THEN e ELSE None

(* The execution that already answered the key of a call, or None.         *)
Known(c) == keys[Scoped(req[c])]

Answer(c, row) ==
  /\ reply' = [reply EXCEPT ![c] = row]
  /\ Goto(c, "done") /\ Forget({c})

(* The key is known: its execution is returned.                            *)
Replay(c) ==
  /\ pc[c] = "resolved" /\ LoopIdle /\ Known(c) # None
  /\ Answer(c, [id |-> Known(c), row |-> execs[Known(c)]])
  /\ UNCHANGED <<db, req, runs, rough, unwritten>>

Audited(c, decision) ==
  /\ audits' = Append(audits, [agent |-> req[c].agent, decision |-> decision])
  /\ local' = [local EXCEPT ![c].audit = Len(audits) + 1]

(* The copied row says inactive: recordDeny.                               *)
RefuseInactive(c) ==
  /\ pc[c] = "resolved" /\ LoopIdle /\ Known(c) = None
  /\ ~local[c].active
  /\ Audited(c, "DENY")
  /\ Goto(c, "refuse")
  /\ UNCHANGED <<stores, execs, keys, ledger, req, reply, history>>

(* getCapabilityError, up to the signature check of verifyCapabilityToken. *)
CheckCapability(c) ==
  LET r == req[c] IN
  /\ pc[c] = "resolved" /\ LoopIdle /\ Known(c) = None
  /\ local[c].active
  /\ IF r.token # None
       THEN /\ local' = [local EXCEPT ![c].valid = r.token \in live]
            /\ Goto(c, "verified")
       ELSE /\ local' = [local EXCEPT ![c].refused = r.agent \notin Capable]
            /\ Goto(c, "checked")
  /\ UNCHANGED <<db, req, reply, history>>

(* Mutant: only the grantee and the scope are looked at.                   *)
CheckGrant(c) ==
  LET r == req[c] IN
  /\ pc[c] = "verified" /\ LoopIdle
  /\ local' = [local EXCEPT ![c].refused = <<r.token, r.agent>> \notin Grants]
  /\ Goto(c, "checked")
  /\ UNCHANGED <<db, req, reply, history>>

(* assertTokenAuthorizes reads the token's row again; a read that fails is *)
(* caught and refused.                                                     *)
CheckToken(c) ==
  LET r == req[c]
      grants == local[c].valid /\ r.token \in live /\ <<r.token, r.agent>> \in Grants IN
  /\ pc[c] = "verified" /\ LoopIdle
  /\ \E refused \in {TRUE, ~grants} : local' = [local EXCEPT ![c].refused = refused]
  /\ Goto(c, "checked")
  /\ UNCHANGED <<db, req, reply, history>>

(* evaluatePermission inserts its audit row, also after a refusal.         *)
Evaluate(c) ==
  /\ pc[c] = "checked" /\ LoopIdle
  /\ \E decision \in Decision : Audited(c, decision)
  /\ Goto(c, "decided")
  /\ UNCHANGED <<stores, execs, keys, ledger, req, reply, history>>

(* Outside execute() a statement that fails ends the invocation.           *)
StatementThrows(c) ==
  /\ pc[c] \in {"resolved", "verified", "checked", "decided"} /\ LoopIdle
  /\ Throw(c)

Allowed(c) == audits[local[c].audit].decision = "ALLOW" /\ ~local[c].refused

Unbound(c) ==
  /\ req[c].pay # None /\ req[c].pay.rail = "chain"
  /\ req[c].pay.payer \notin bound

RefuseDecided(c) ==
  /\ pc[c] = "decided" /\ LoopIdle /\ ~Allowed(c)
  /\ Goto(c, "refuse")
  /\ UNCHANGED <<db, req, local, reply, history>>

(* getWalletBindingError: a second audit row denies the request.           *)
RefuseUnbound(c) ==
  /\ pc[c] = "decided" /\ LoopIdle /\ Allowed(c) /\ Unbound(c)
  /\ Audited(c, "DENY")
  /\ Goto(c, "refuse")
  /\ UNCHANGED <<stores, execs, keys, ledger, req, reply, history>>

(* Mutant: the capability is enough.                                       *)
RunUnpermitted(c) ==
  /\ pc[c] = "decided" /\ LoopIdle /\ ~local[c].refused /\ ~Unbound(c)
  /\ runs' = [runs EXCEPT ![Scoped(req[c])] = @ + 1]
  /\ Goto(c, "handler")
  /\ UNCHANGED <<db, req, local, reply, rough, late, unwritten>>

(* execute() catches what its handler or afterHandler throws: FAILED, with *)
(* no settlement.                                                          *)
Failed(l) == [l EXCEPT !.outcome = "FAILED", !.settlement = None]

Catch(c) == local' = [local EXCEPT ![c] = Failed(@)] /\ Goto(c, "caught")

(* The handler returns or throws.                                          *)
RunHandler(c) ==
  /\ pc[c] = "decided" /\ LoopIdle /\ Allowed(c) /\ ~Unbound(c)
  /\ runs' = [runs EXCEPT ![Scoped(req[c])] = @ + 1]
  /\ \/ Goto(c, "handler") /\ UNCHANGED local
     \/ Catch(c)
  /\ UNCHANGED <<db, req, reply, rough, late, unwritten>>

PaymentId(c) == IF req[c].pay.id # None THEN req[c].pay.id ELSE c

(* Mutant: the handler's success is reported, whatever the settlement says.*)
AfterAnySettlement(c, row) ==
  /\ row # None
  /\ local' = [local EXCEPT ![c].outcome = "SUCCESS", ![c].settlement = PaymentId(c)]
  /\ Goto(c, "settled")

(* afterHandler once the settlement row is known.                          *)
AfterSettlement(c, row) ==
  /\ local' = [local EXCEPT
       ![c].outcome = IF row.status = "ROLLED_BACK" THEN "FAILED" ELSE "SUCCESS",
       ![c].settlement = PaymentId(c)]
  /\ Goto(c, "settled")

SettleNothing(c) ==
  /\ pc[c] = "handler" /\ LoopIdle /\ req[c].pay = None
  /\ local' = [local EXCEPT ![c].outcome = "SUCCESS"]
  /\ Goto(c, "settled")
  /\ UNCHANGED <<db, req, reply, history>>

(* settle() returns the row its id already has, whatever it is about.      *)
SettleAgain(c) ==
  /\ pc[c] = "handler" /\ LoopIdle /\ req[c].pay # None
  /\ records[PaymentId(c)] # None
  /\ AfterSettlement(c, records[PaymentId(c)])
  /\ UNCHANGED <<db, req, reply, history>>

SettleAs(c, row) ==
  /\ Ledger!Decide(PaymentId(c), row)
  /\ AfterSettlement(c, row)
  /\ UNCHANGED <<stores, audits, execs, keys, req, reply, history>>

SettlePoints(c) ==
  /\ pc[c] = "handler" /\ LoopIdle
  /\ req[c].pay # None /\ req[c].pay.rail = "luffa-points"
  /\ \E outcome \in {"COMPLETED", "ROLLED_BACK"} :
       SettleAs(c, SettledRow(req[c].pay, outcome, local[c].exec))

ReachChain(c) ==
  /\ pc[c] = "handler" /\ LoopIdle
  /\ req[c].pay # None /\ req[c].pay.rail = "chain"
  /\ records[PaymentId(c)] = None
  /\ Goto(c, "chain")
  /\ UNCHANGED <<db, req, local, reply, history>>

SettleChain(c) ==
  /\ pc[c] = "chain" /\ LoopIdle
  /\ \E outcome \in SettlementStatus :
       SettleAs(c, SettledRow(req[c].pay, outcome, local[c].exec))

(* Nothing is recorded: another call took the id meanwhile, or a statement *)
(* of afterHandler failed.                                                 *)
SettleThrows(c) ==
  /\ pc[c] \in {"handler", "chain"} /\ LoopIdle
  /\ Catch(c)
  /\ UNCHANGED <<db, req, reply, history>>

-----------------------------------------------------------------------------
(* #writeExecutionRecord and recordIdempotency.                            *)

ExecRow(c) ==
  [agent |-> req[c].agent, status |-> local[c].outcome,
   audit |-> local[c].audit, settlement |-> local[c].settlement]

(* A refusal goes on to recordIdempotency at once; execute() returns first.*)
Writing(c) == pc[c] = "refuse" \/ (pc[c] \in {"settled", "caught"} /\ LoopIdle)

Insert(c, row) ==
  /\ execs[local[c].exec] = None
  /\ execs' = [execs EXCEPT ![local[c].exec] = row]
  /\ Goto(c, IF pc[c] = "refuse" THEN "key" ELSE "recorded")
  /\ UNCHANGED <<stores, audits, keys, ledger, req, reply, runs, rough, late>>

WriteRow(c) ==
  /\ Writing(c) /\ Insert(c, ExecRow(c))
  /\ UNCHANGED <<local, unwritten>>

(* Within execute()'s try the first write may fail, after settle() too: its*)
(* catch writes a FAILED row without the settlement under the same id.     *)
WriteAgain(c) ==
  /\ pc[c] = "settled" /\ LoopIdle
  /\ local' = [local EXCEPT ![c] = Failed(@)]
  /\ Insert(c, [ExecRow(c) EXCEPT !.status = "FAILED", !.settlement = None])
  /\ unwritten' = unwritten \cup {c}

(* No row can be written, as when the client's execution id is taken.      *)
WriteThrows(c) == Writing(c) /\ Throw(c)

Keying(c) == pc[c] = "key" \/ (pc[c] = "recorded" /\ LoopIdle)

RecordIdempotency(c) ==
  /\ Keying(c) /\ Known(c) = None
  /\ keys' = [keys EXCEPT ![Scoped(req[c])] = local[c].exec]
  /\ Answer(c, [id |-> local[c].exec, row |-> ExecRow(c)])
  /\ UNCHANGED <<stores, audits, execs, ledger, req, runs, rough, unwritten>>

(* Mutant: INSERT OR IGNORE.                                               *)
KeyIgnores(c) ==
  /\ Keying(c) /\ Known(c) # None
  /\ Answer(c, [id |-> local[c].exec, row |-> ExecRow(c)])
  /\ UNCHANGED <<db, req, runs, rough, unwritten>>

(* Mutant: the insert is tried again as long as it fails.                  *)
KeyRetries(c) ==
  /\ Keying(c) /\ Known(c) # None
  /\ UNCHANGED vars

(* Another call of the key was recorded first, or a statement after the    *)
(* row's INSERT fails (reading the leaves, stamping the row, this key):    *)
(* invoke() rejects and the row stays.                                     *)
KeyThrows(c) == Keying(c) /\ Throw(c)

(* The process dies; the database stays, the calls in progress are lost.   *)
Crash ==
  LET lost == {c \in Call : pc[c] \notin Resting} IN
  /\ lost # {}
  /\ pc' = [c \in Call |-> IF c \in lost THEN "lost" ELSE pc[c]]
  /\ rough' = rough \cup {Scoped(req[c]) : c \in lost}
  /\ Forget(lost)
  /\ UNCHANGED <<db, req, reply, runs, unwritten>>

-----------------------------------------------------------------------------
Step(c) ==
  \/ Replay(c) \/ RefuseInactive(c) \/ CheckCapability(c) \/ CheckToken(c)
  \/ Evaluate(c) \/ RefuseDecided(c) \/ RefuseUnbound(c) \/ RunHandler(c)
  \/ SettleNothing(c) \/ SettleAgain(c) \/ SettlePoints(c)
  \/ ReachChain(c) \/ SettleChain(c) \/ SettleThrows(c)
  \/ WriteRow(c) \/ WriteAgain(c) \/ WriteThrows(c) \/ RecordIdempotency(c)
  \/ KeyThrows(c) \/ StatementThrows(c)

Pays == {r.pay : r \in Requests} \ {None}

(* Only the identities that requests pay from, on each rail.               *)
Payer(rail) == {i.payer : i \in {j \in Pays : j.rail = rail}}

Next ==
  \/ \E a \in Agent : DeactivateAgent(a)
  \/ \E t \in Token : EndToken(t)
  \/ \E d \in Payer("chain") : VerifyWallet(d) \/ ReconnectWallet(d)
  \/ \E d \in Payer("luffa-points") : Credit(d)
  \/ \E s \in GivenSettlement, i \in Pays : TransferSettlement(s, i)
  \/ \E c \in Call, r \in Requests : Arrive(c, r)
  \/ \E c \in Call : Step(c)
  \/ Crash

Spec == Init /\ [][Next]_vars

(* Promises are resumed in the end, and adapters answer or reject.         *)
FairSpec == Spec /\ \A c \in Call : WF_vars(Step(c))

-----------------------------------------------------------------------------
Local ==
  [active : BOOLEAN, valid : BOOLEAN, refused : BOOLEAN, audit : Nat,
   exec : ExecId, outcome : ExecStatus, settlement : SettlementId \cup {None}]

(* Every variable holds a value of its kind.                               *)
TypeOK ==
  /\ active \in SUBSET Registered
  /\ live \in SUBSET Token
  /\ bound \in SUBSET Did
  /\ audits \in Seq([agent : Agent, decision : Decision])
  /\ execs \in [ExecId -> ExecRecord \cup {None}]
  /\ keys \in [Agent \X Key -> ExecId \cup {None}]
  /\ balance \in [Did -> Nat]
  /\ records \in [SettlementId -> Settled \cup {None}]
  /\ pc \in [Call -> Label]
  /\ req \in [Call -> Requests \cup {None}]
  /\ local \in [Call -> Local \cup {None}]
  /\ reply \in [Call -> [id : ExecId, row : ExecRecord] \cup {None}]
  /\ runs \in [Agent \X Key -> Nat]
  /\ rough \in SUBSET (Agent \X Key)
  /\ late \in SUBSET Call
  /\ unwritten \in SUBSET Call

Executed(e) == execs[e] # None /\ execs[e].status # "DENIED"

(* An execution that is not DENIED rests on an ALLOW row of its own agent, *)
(* and no two executions share one.                                        *)
ExecutedWithPermission ==
  \A e \in ExecId : Executed(e) =>
    /\ execs[e].audit \in DOMAIN audits
    /\ audits[execs[e].audit] = [agent |-> execs[e].agent, decision |-> "ALLOW"]
    /\ \A f \in ExecId \ {e} : execs[f] # None => execs[f].audit # execs[e].audit

AllowedOf(a) ==
  {k \in DOMAIN audits : audits[k] = [agent |-> a, decision |-> "ALLOW"]}

(* Each settlement made by an invocation has used up an ALLOW decision:    *)
(* there are never more of them than decisions ("settlement only after     *)
(* permission approval").                                                  *)
SettledWithPermission ==
  Cardinality({s \in SettlementId : records[s] # None /\ records[s].execution # None})
    <= Cardinality(UNION {AllowedOf(a) : a \in Agent})

(* A retry that neither overlaps another call of its key nor follows one   *)
(* that crashed or threw never runs the handler a second time.             *)
RunOnce == \A p \in Agent \X Key : p \notin rough => runs[p] <= 1

(* What a call returned is stored, under its agent, and is what a retry of *)
(* its key will return.                                                    *)
ReplyIsStored ==
  \A c \in Call : pc[c] = "done" =>
    /\ keys[Scoped(req[c])] = reply[c].id
    /\ execs[reply[c].id] = reply[c].row
    /\ reply[c].row.agent = req[c].agent

(* A request that arrives after its agent was deactivated, or its token    *)
(* revoked or expired, runs no handler and settles nothing.                *)
LateIsRefused ==
  \A c \in late : pc[c] \notin {"handler", "chain", "settled", "caught", "recorded"}

(* A call that returned an execution whose id newId drew, its own or by    *)
(* replay, and that made a settlement, returned that settlement's id, and  *)
(* SUCCESS unless the settlement was rolled back.  Only where its outcome  *)
(* could not be written does it name none, and then never with SUCCESS.    *)
SettlementIsReported ==
  \A s \in SettlementId, c \in Call :
    (/\ records[s] # None /\ pc[c] = "done" /\ reply[c].id \in Call
     /\ records[s].execution = reply[c].id)
      => IF reply[c].id \in unwritten
           THEN reply[c].row.status = "FAILED" /\ reply[c].row.settlement = None
           ELSE /\ reply[c].row.settlement = s
                /\ (reply[c].row.status = "SUCCESS") = (records[s].status # "ROLLED_BACK")

(* An invocation ends, unless the process crashes.                         *)
CallsEnd == \A c \in Call : (pc[c] \notin Resting) ~> (pc[c] \in Resting)

(* tests/integration.test.ts:890 "prevents duplicate execution with        *)
(* idempotency keys".                                                      *)
KeyRunsOnce == \A p \in Agent \X Key : runs[p] <= 1
=============================================================================
