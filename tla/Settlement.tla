----------------------------- MODULE Settlement -----------------------------
(***************************************************************************)
(* SettlementService (src/settlement/index.ts) and its chain adapters, run *)
(* by several server processes (the REST API and the MCP server) that may  *)
(* share one SQLite database.                                              *)
(*                                                                         *)
(* A step is what runs without giving way: one SQL statement or one        *)
(* BEGIN IMMEDIATE ... COMMIT transaction as seen by the other servers,    *)
(* and everything between two awaits as seen by the calls of the same      *)
(* server, whose event loop a call keeps while its pc is in HoldsLoop.     *)
(***************************************************************************)
EXTENDS Integers, FiniteSetsExt

CONSTANTS
  Did,           (* Identities that may hold Luffa Points.                 *)
  SettlementId,  (* Ids carried by an instruction or drawn by newId.       *)
  Tx,            (* Chain transactions.                                    *)
  Call,          (* Calls of settle() that may be in progress at once.     *)
  Server,        (* Processes that open the database.                      *)
  ServerOf,      (* The server that runs each call.                        *)
  Instruction,   (* The settlement instructions callers may send.          *)
  MaxMint,       (* Bound: points credited to one identity.                *)
  None

(* How an instruction reaches a chain: its chain, token or adapter is      *)
(* unusable ("missing"), the adapter answers from a mock or is the Endless *)
(* stub ("mock"), or it asks an RPC node ("live").                         *)
Adapter == {"missing", "mock", "live"}

(* A transaction is named by its hash, sent as signed bytes, or invented.  *)
Submit == {"hash", "signed", "none"}

Rail == {"luffa-points", "chain"}

ASSUME InstructionAssumption ==
  /\ Instruction \subseteq [id : SettlementId, payer : Did, payee : Did,
                            amount : Int, rail : Rail, adapter : Adapter,
                            submit : Submit, tx : Tx]
  /\ ServerOf \in [Call -> Server]
  /\ MaxMint \in Nat

ASSUME NoneAssumption ==
  /\ None \notin Instruction
  /\ None \notin Tx
  /\ None \notin [payer : Did, payee : Did, amount : Int, rail : Rail,
                  tx : Tx \cup {None},
                  status : {"COMPLETED", "FAILED", "ROLLED_BACK"}]

(* A row of settlement_records.                                            *)
Record == [payer : Did, payee : Did, amount : {i.amount : i \in Instruction},
           rail : Rail, tx : Tx \cup {None},
           status : {"COMPLETED", "FAILED", "ROLLED_BACK"}]

TxStatus == {"none", "pending", "success", "failed"}

VARIABLES
  opened,   (* Identities with an accounts row.                            *)
  balance,  (* accounts.balance; 0 without a row.                          *)
  records,  (* settlement_records by primary key, or None.                 *)
  chain,    (* What the chain says of each transaction.                    *)
  pc,       (* Where each call stands.                                     *)
  instr,    (* The instruction a call carries.                             *)
  seen,     (* The verification answer a call holds across its await.      *)
  reply,    (* What a call returned.                                       *)
  minted,   (* History: points credited so far.                            *)
  named     (* History: accounts opened by createAccount itself.           *)

vars == <<opened, balance, records, chain, pc, instr, seen, reply, minted, named>>
db == <<opened, balance, records>>
history == <<minted, named>>

Ledger == INSTANCE PointsLedger

Resting == {"idle", "done", "thrown", "lost"}
HoldsLoop == {"pay", "undo"}
Label == Resting \cup HoldsLoop \cup {"send", "verify", "record"}

LoopFree(c) ==
  \A d \in Call \ {c} : ServerOf[d] = ServerOf[c] => pc[d] \notin HoldsLoop

IdleServer(s) == \A c \in Call : ServerOf[c] = s => pc[c] \notin HoldsLoop

(* Any statement of another server may hold SQLite's write lock, and no    *)
(* busy timeout is set.                                                    *)
Contended(c) == \E s \in Server : s # ServerOf[c]

Goto(c, label) == pc' = [pc EXCEPT ![c] = label]

(* Mutant: neither the lookup nor the primary key is there.                *)
ExistingNever(id) == FALSE /\ id \in SettlementId

Existing(id) == records[id] # None

(* Within the transaction the payee has been given a row before the payer  *)
(* is looked up.                                                           *)
Covered(i) ==
  i.payer \in opened \cup {i.payee} /\ balance[i.payer] >= i.amount

Row(i, status, tx) ==
  [payer |-> i.payer, payee |-> i.payee, amount |-> i.amount,
   rail |-> i.rail, tx |-> tx, status |-> status]

(* The hash in a row: the caller's, or after the adapter answered also the *)
(* one the broadcast returned; an invented hash names no transaction.      *)
HashGiven(i) == IF i.submit = "hash" THEN i.tx ELSE None
HashUsed(i) == IF i.submit = "none" THEN None ELSE i.tx

Init ==
  /\ opened = {}
  /\ balance = [d \in Did |-> 0]
  /\ records = [s \in SettlementId |-> None]
  /\ chain = [t \in Tx |-> "none"]
  /\ pc = [c \in Call |-> "idle"]
  /\ instr = [c \in Call |-> None]
  /\ seen = [c \in Call |-> "none"]
  /\ reply = [c \in Call |-> None]
  /\ minted = [d \in Did |-> 0]
  /\ named = {}

-----------------------------------------------------------------------------
(* Accounts.                                                               *)

OpenAccount(s, d) ==
  /\ IdleServer(s)
  /\ opened' = opened \cup {d}
  /\ named' = named \cup {d}
  /\ UNCHANGED <<balance, records, chain, pc, instr, seen, reply, minted>>

Credit(s, d, amount) ==
  /\ IdleServer(s)
  /\ amount > 0 /\ minted[d] + amount <= MaxMint
  /\ opened' = opened \cup {d}
  /\ balance' = [balance EXCEPT ![d] = @ + amount]
  /\ minted' = [minted EXCEPT ![d] = @ + amount]
  /\ UNCHANGED <<records, chain, pc, instr, seen, reply, named>>

-----------------------------------------------------------------------------
(* settle().                                                               *)

(* Where a call goes once it found no row for its id.                      *)
AfterLookup(i) ==
  IF i.rail = "luffa-points" THEN "pay"
  ELSE IF i.adapter = "missing" THEN "undo"
  ELSE IF i.adapter = "live" /\ i.submit = "signed" THEN "send"
  ELSE "verify"

Settle(c, i) ==
  /\ pc[c] = "idle" /\ LoopFree(c)
  /\ instr' = [instr EXCEPT ![c] = i]
  /\ \/ i.amount <= 0 /\ Goto(c, "thrown") /\ UNCHANGED reply
     \/ /\ i.amount > 0 /\ Existing(i.id)
        /\ reply' = [reply EXCEPT ![c] = records[i.id]]
        /\ Goto(c, "done")
     \/ /\ i.amount > 0 /\ ~Existing(i.id)
        /\ Goto(c, AfterLookup(i))
        /\ UNCHANGED reply
  /\ UNCHANGED <<db, chain, seen, history>>

(* Inserting the row of a call and returning it.                           *)
Insert(c, row) ==
  /\ records' = [records EXCEPT ![instr[c].id] = row]
  /\ reply' = [reply EXCEPT ![c] = row]
  /\ Goto(c, "done")

(* The transfer transaction commits: the payee has a row, the points move, *)
(* and the COMPLETED row is there.                                         *)
Pay(c) ==
  LET i == instr[c] IN
  /\ pc[c] = "pay" /\ Covered(i) /\ ~Existing(i.id)
  /\ opened' = opened \cup {i.payee}
  /\ balance' = Ledger!Moved(i.payer, i.payee, i.amount)
  /\ Insert(c, Row(i, "COMPLETED", HashGiven(i)))
  /\ UNCHANGED <<chain, instr, seen, history>>

(* The transaction throws (no account, too few points, the id inserted     *)
(* meanwhile, or a locked database).                                       *)
PayThrows(c) ==
  /\ pc[c] = "pay"
  /\ ~Covered(instr[c]) \/ Existing(instr[c].id) \/ Contended(c)
  /\ Goto(c, "undo")

(* Mutant: the payee's account is created outside the transaction.         *)
PayKeepsAccount(c) ==
  /\ PayThrows(c)
  /\ opened' = opened \cup {instr[c].payee}
  /\ UNCHANGED <<balance, records, chain, instr, seen, reply, history>>

(* Mutant: the two balance updates are not undone.                         *)
PayKeepsMove(c) ==
  /\ PayThrows(c)
  /\ balance' = IF Covered(instr[c])
                  THEN Ledger!Moved(instr[c].payer, instr[c].payee, instr[c].amount)
                  ELSE balance
  /\ UNCHANGED <<opened, records, chain, instr, seen, reply, history>>

(* Then everything it did is undone.                                       *)
PayRollsBack(c) ==
  /\ PayThrows(c)
  /\ UNCHANGED <<db, chain, instr, seen, reply, history>>

RolledBack(c) == Row(instr[c], "ROLLED_BACK", HashGiven(instr[c]))

(* The catch block inserts a ROLLED_BACK row.                              *)
Undo(c) ==
  /\ pc[c] = "undo" /\ ~Existing(instr[c].id)
  /\ Insert(c, RolledBack(c))
  /\ UNCHANGED <<opened, balance, chain, instr, seen, history>>

(* Mutant: the failed insert is ignored and the row returned all the same. *)
UndoIgnoresError(c) ==
  /\ pc[c] = "undo"
  /\ Existing(instr[c].id) \/ Contended(c)
  /\ reply' = [reply EXCEPT ![c] = RolledBack(c)]
  /\ Goto(c, "done")
  /\ UNCHANGED <<db, chain, instr, seen, history>>

(* Mutant: the insert is retried as long as the key exists.                *)
UndoRetries(c) ==
  /\ pc[c] = "undo" /\ ~Existing(instr[c].id)
  /\ Contended(c)
  /\ Goto(c, "thrown")
  /\ UNCHANGED <<db, chain, instr, seen, reply, history>>

(* That insert fails too: the primary key exists, or the database is       *)
(* locked; settle() rejects.                                               *)
UndoThrows(c) ==
  /\ pc[c] = "undo"
  /\ Existing(instr[c].id) \/ Contended(c)
  /\ Goto(c, "thrown")
  /\ UNCHANGED <<db, chain, instr, seen, reply, history>>

-----------------------------------------------------------------------------
(* Chain adapters.                                                         *)

Broadcast(tx) ==
  [chain EXCEPT ![tx] = IF @ = "none" THEN "pending" ELSE @]

Send(c) ==
  /\ pc[c] = "send"
  /\ chain' = Broadcast(instr[c].tx)
  /\ Goto(c, "verify")
  /\ UNCHANGED <<db, instr, seen, reply, history>>

(* The RPC call fails, before or after the node took the transaction.      *)
SendFails(c) ==
  /\ pc[c] = "send" /\ LoopFree(c)
  /\ chain' \in {chain, Broadcast(instr[c].tx)}
  /\ Goto(c, "undo")
  /\ UNCHANGED <<db, instr, seen, reply, history>>

(* verifyTransaction: an invented hash is on no chain.                     *)
TxAnswer(i) ==
  IF i.adapter = "mock" THEN "success"
  ELSE IF i.submit = "none" THEN "none"
  ELSE chain[i.tx]

Verify(c) ==
  /\ pc[c] = "verify"
  /\ seen' = [seen EXCEPT ![c] = TxAnswer(instr[c])]
  /\ Goto(c, "record")
  /\ UNCHANGED <<db, chain, instr, reply, history>>

VerifyFails(c) ==
  /\ pc[c] = "verify" /\ instr[c].adapter = "live" /\ LoopFree(c)
  /\ Goto(c, "undo")
  /\ UNCHANGED <<db, chain, instr, seen, reply, history>>

(* Mutant: a transaction that the chain still considers has failed.        *)
ChainStatusStrict(answer) ==
  IF answer \in {"pending", "failed"} THEN "FAILED" ELSE "COMPLETED"

(* Only a failed transaction is FAILED; pending and unknown ones are       *)
(* recorded as COMPLETED.                                                  *)
ChainStatus(answer) == IF answer = "failed" THEN "FAILED" ELSE "COMPLETED"

RecordChain(c) ==
  /\ pc[c] = "record" /\ LoopFree(c) /\ ~Existing(instr[c].id)
  /\ Insert(c, Row(instr[c], ChainStatus(seen[c]), HashUsed(instr[c])))
  /\ UNCHANGED <<opened, balance, chain, instr, seen, history>>

(* The insert throws: with the id taken, the ROLLED_BACK insert of the     *)
(* catch block throws as well; on a locked database it is tried.           *)
RecordThrows(c) ==
  /\ pc[c] = "record" /\ LoopFree(c)
  /\ \/ Existing(instr[c].id) /\ Goto(c, "thrown")
     \/ Contended(c) /\ Goto(c, "undo")
  /\ UNCHANGED <<db, chain, instr, seen, reply, history>>

-----------------------------------------------------------------------------
(* The environment: wallets broadcast, chains decide, servers crash.       *)

(* Only transactions a caller quotes by hash are broadcast by a wallet.    *)
WalletBroadcasts(tx) ==
  /\ \E i \in Instruction : i.submit = "hash" /\ i.tx = tx
  /\ chain[tx] = "none"
  /\ chain' = Broadcast(tx)
  /\ UNCHANGED <<db, pc, instr, seen, reply, history>>

ChainDecides(tx) ==
  /\ chain[tx] = "pending"
  /\ \E verdict \in {"success", "failed"} : chain' = [chain EXCEPT ![tx] = verdict]
  /\ UNCHANGED <<db, pc, instr, seen, reply, history>>

Crash(s) ==
  /\ \E c \in Call : ServerOf[c] = s /\ pc[c] \notin Resting
  /\ pc' = [c \in Call |-> IF ServerOf[c] = s /\ pc[c] \notin Resting
                             THEN "lost" ELSE pc[c]]
  /\ UNCHANGED <<db, chain, instr, seen, reply, history>>

-----------------------------------------------------------------------------
Step(c) ==
  \/ Pay(c) \/ PayRollsBack(c) \/ Undo(c) \/ UndoThrows(c)
  \/ Send(c) \/ SendFails(c) \/ Verify(c) \/ VerifyFails(c)
  \/ RecordChain(c) \/ RecordThrows(c)

Next ==
  \/ \E s \in Server, d \in Did : OpenAccount(s, d)
  \/ \E s \in Server, d \in Did, amount \in 1..MaxMint : Credit(s, d, amount)
  \/ \E c \in Call, i \in Instruction : Settle(c, i)
  \/ \E c \in Call : Step(c)
  \/ \E tx \in Tx : WalletBroadcasts(tx) \/ ChainDecides(tx)
  \/ \E s \in Server : Crash(s)

Spec == Init /\ [][Next]_vars

(* A call in progress keeps running: its own statements follow each other, *)
(* and an RPC node answers or refuses in the end.                          *)
FairSpec == Spec /\ \A c \in Call : WF_vars(Step(c))

-----------------------------------------------------------------------------
(* Every variable holds a value of its kind; balances are never negative.  *)
TypeOK ==
  /\ opened \in SUBSET Did
  /\ balance \in [Did -> Nat]
  /\ records \in [SettlementId -> Record \cup {None}]
  /\ chain \in [Tx -> TxStatus]
  /\ pc \in [Call -> Label]
  /\ instr \in [Call -> Instruction \cup {None}]
  /\ seen \in [Call -> TxStatus]
  /\ reply \in [Call -> Record \cup {None}]
  /\ minted \in [Did -> Nat]
  /\ named \in SUBSET Did

(* The ids of the rows that moved points.                                  *)
Transfers ==
  {s \in SettlementId : records[s] # None /\ Ledger!MovesPoints(records[s])}

Amounts == [s \in Transfers |-> records[s].amount]
Received(d) == {s \in Transfers : records[s].payee = d}
Sent(d) == {s \in Transfers : records[s].payer = d}

(* The accounts table and settlement_records always tell the same story:   *)
(* a balance is what was credited, plus the COMPLETED transfers received,  *)
(* less those sent, across races, rollbacks and crashes.                   *)
BalancesExplained ==
  \A d \in Did :
    balance[d] = minted[d] + SumFunctionOnSet(Amounts, Received(d))
                           - SumFunctionOnSet(Amounts, Sent(d))

(* A transfer that is rolled back leaves no account row behind: each row   *)
(* was asked for, credited, or is the payee of a COMPLETED transfer.       *)
AccountsJustified ==
  opened = named \cup {d \in Did : minted[d] > 0}
                 \cup {records[s].payee : s \in Transfers}

(* What a caller was told is what the ledger keeps for its settlement id,  *)
(* whichever call decided it.                                              *)
ReplyIsStored ==
  \A c \in Call : pc[c] = "done" =>
    reply[c] # None /\ records[instr[c].id] = reply[c]

(* A row says FAILED only of a transaction the chain rejected for good.    *)
FailedIsFinal ==
  \A s \in SettlementId :
    (records[s] # None /\ records[s].status = "FAILED")
      => chain[records[s].tx] = "failed"

(* settlement_records is append-only.                                      *)
RecordsAppendOnly ==
  [][\A s \in SettlementId : records[s] # None => records'[s] = records[s]]_vars

(* Points move and accounts change only with the COMPLETED row that says   *)
(* so, or by a credit: the component implements PointsLedger.              *)
ImplementsLedger == Ledger!LedgerSpec

(* A call in progress ends, unless its server crashes: no event loop and   *)
(* no lock is kept for ever.                                               *)
CallsEnd == \A c \in Call : (pc[c] \notin Resting) ~> (pc[c] \in Resting)

(* tests/security.test.ts:56 "does not mark failed chain settlement as     *)
(* completed": no COMPLETED row names a transaction the chain rejected.    *)
FailedIsNotCompleted ==
  \A s \in SettlementId :
    (records[s] # None /\ records[s].rail = "chain" /\ records[s].status = "COMPLETED"
       /\ records[s].tx # None)
      => chain[records[s].tx] # "failed"
=============================================================================
