# LAEL and VARR in TLA+

Models, model-checking runs and machine-checked proofs of LAEL, the agent
execution layer in `src/`, and of VARR, the governed runtime in `varr-mvp1/`.
Agents ask LAEL to run actions; LAEL checks who they are and what they may do,
runs the action, settles payments on an internal points ledger or a chain, and
keeps a record. VARR runs the steps of a workflow for an agent within the grants
and contexts it has, and leaves a receipt. Both are TypeScript on Node; LAEL has
one SQLite file, VARR repositories in memory and, for its CLI, one JSON file.
`PROJECT.json` lists components, runs, mutants, the source lines behind each
definition, findings, hazards and theorems.

Paths below are relative to the repository (`src/core/index.ts` and so on).

## 1. The system

### 1.1 Processes, scheduling, storage

Two programs open the database: the REST API (`src/api/server.ts`) and the MCP
server (`src/mcp/server.ts`). They may be given the same file. Each is one Node
event loop:

- within a process, calls interleave only at an `await`. What runs between two
  awaits is one step for the other calls of that process;
- between processes, each SQL statement outside a transaction is a step of its
  own, and a `db.transaction` (`src/db/index.ts`, BEGIN IMMEDIATE .. COMMIT, or
  ROLLBACK on an exception) is one step;
- no busy timeout is set, so a statement may throw because another process holds
  the write lock;
- a process may die between any two steps. The file survives, the calls in
  progress do not.

The modules say this with the same idiom: a call has a `pc`, a step is what is
atomic for the other *servers*, and while `pc[c]` is in `HoldsLoop` no other
call of the same server may move (`LoopFree`). So one module covers both
interleaving at awaits and interleaving of servers.

VARR (`varr-mvp1`) shares nothing with LAEL. Its API server is one process whose
calls share repositories in memory; each command of its CLI is a process that
loads `.lael/state.json`, does one call and writes the whole file back. Every
repository operation is asynchronous, so its calls interleave at each of them.
With the memory repositories these awaits are settled at once, and two HTTP
requests seldom meet inside one; but a caller of the library may start several
runs together, and an adapter that does real I/O, or another implementation of
the repository interface, leaves any time in between. The model follows the
interface.

### 1.2 Components

| component | state | operations | what must be true | status |
|---|---|---|---|---|
| Settlement (`src/settlement`) | accounts, balances, settlement_records | createAccount, credit, settle, get | points are neither made nor lost; an id is decided once; a rollback leaves nothing; the caller is told what is stored | modelled |
| Chain adapters (`src/settlement/adapters`) | none of their own; the chain's | build, broadcast, verify | a row agrees with what the chain decides | modelled, with settlement |
| Permission (`src/permission`) | policies, permission_audits | createPolicy, evaluate, recordDeny | budgets hold over all calls; denials win; a decision is not stale | modelled |
| LAEL core (`src/core`) | none of its own | invoke, transferSettlement, forwarding | nothing runs or is paid without permission; retries do not repeat; replies match the record | modelled |
| Execution ledger (`src/execution`) | execution_records, idempotency_keys, Merkle index and root | execute, recordDenied, recordIdempotency, proofs | append-only; keys answer with one execution; a stored root is one the ledger had | modelled |
| Wallet bindings (`src/wallet`) | wallet_bindings | connect, verify, isVerified | an address has one owner; a used nonce is dead; only its own signature verifies a binding | modelled |
| Identity and capability tokens (`src/identity`) | agents, capability_tokens, service key | create, update, deactivate, issue, revoke, verify token | an update loses nothing it need not; service tokens outlive restarts; only the issuer's signature counts, or that of the key a request brought for the service | modelled |
| Learning (`src/learning`) | feedback, reputation, RLHF rows | submitFeedback, updateReputation, export | each feedback counts once | modelled |
| Merkle proofs (`src/execution/merkle.ts`) | none | root, proof, verify | a proof of a stored leaf verifies, of another does not | modelled |
| VARR runtime (`varr-mvp1/packages/core/src/runtime`) | receipts | run: workflow, agent, contexts, capabilities, approval, adapter, receipt | nothing runs out of bounds or for a suspended agent; receipts tell what happened and are never changed | modelled |
| VARR feedback, signals | feedback, signals | submit, emit | a signal is about stored feedback, and no feedback loses its signal without a reason | modelled |
| VARR storage, resources, API (`storage`, `resources`, `packages/api`) | agents, grants, contexts, workflows | create, update, suspend, revoke, find | an ended grant stays ended; nothing but an update to active, or a patch already under way, undoes a suspension; only a completed update changes whose grants a run goes by | partly |
| VARR CLI workspace (`packages/cli`) | one JSON file | init, load, one call, save | what a command saved is not lost to another that does not overlap it | modelled |
| Handlers, database, VARR adapters | - | a handler or adapter returns or throws; transactions and keys as the others use them | - | partly |
| REST, MCP, SDK, frontend, demos, chain tables | - | parsing, forwarding, presentation | - | not modelled |

### 1.3 How they interact

`invoke` calls the others in this order and awaits in between: resolve the
agent's row; look up the idempotency key; check the capability token (awaits a
signature check, reads the token again); evaluate the permission (inserts an
audit row); check that the payer's wallet is bound; run the handler (awaits);
settle (awaits RPC nodes); insert the execution record; return from `execute`
(await); insert the key. No transaction spans two of these. So every pair of
consecutive calls is a place where another invocation, an administrative
operation or a crash may come in. `POST /v2/settlement/transfer` reaches
settlement without going through `invoke`.

`RuntimeOrchestrator.run` of VARR reads one table after another: the workflow,
the agent, each context, the agent's grants. Then it runs the adapter, counts
the receipts, and inserts one under the next number. `FeedbackProcessor.submit`
reads the receipt, stores the feedback, counts the signals, reads a context and
inserts a signal. Agents are suspended, and grants revoked or expired, between
any two of these.

### 1.4 What is hard here

Reads before an await that are used after it (agent status, `verified`, the
idempotency lookup); effects of several services with no common transaction; two
servers between a SELECT and an INSERT; the order in which a chain decides and
an adapter asks; policies that overlap; numbers drawn from a count that is out
of date when they are used; a whole row, or a whole file, written back after a
read. `PROJECT.json` lists every such place with its line and the properties
about it.

## 2. Modules

    PolicyRules <- Permission <- MCPermission        (evaluation and budgets)
                       ^- PermissionProofs
    PointsLedger <= Settlement <- MCSettlement       (<= : implements)
                       ^- SettlementProofs
    PointsLedger <= Invoke <- MCInvoke               (the composition)
                       ^- InvokeProofs
    Wallet <- MCWallet
       ^- WalletProofs
    Merkle <- ExecutionLedger <- MCLedger            (roots stored in rows)
                       ^- LedgerProofs
    Identity <- MCIdentity
       ^- IdentityProofs
    Learning <- MCLearning
       ^- LearningProofs
    Varr <- MCVarr                                   (runtime, API and CLI)
       ^- VarrProofs

**PointsLedger** is the abstract promise of settlement: a map from ids to
decisions and balances that move only in the step that decides a transfer
COMPLETED. It has no call, process or chain. `Settlement` is shown to implement
it, by TLC and by proof. `Invoke` uses the abstract ledger in place of the
detailed module: `LedgerInit` and `Decide` are its settlement, so the
composition is small enough to check and rests on a proved refinement.

**Settlement** models `SettlementService` and the adapters.

| code | model |
|---|---|
| `createAccount` | `OpenAccount` (its SELECT and INSERT are one step; the outcome is the same row) |
| `credit` transaction | `Credit` |
| `settle` up to the lookup of the id | `Settle`, `AfterLookup` |
| transfer transaction of the points rail | `Pay`, or `PayRollsBack` when anything in it throws |
| the catch block's ROLLED_BACK row | `Undo`, `UndoThrows` |
| adapter broadcast, RPC failure | `Send`, `SendFails` |
| `verifyTransaction`, RPC failure | `Verify`, `VerifyFails` |
| status mapping and insert of a chain row | `ChainStatus`, `RecordChain`, `RecordThrows` |
| a statement of another server holds the lock | `Contended`, a guard of the steps that throw |
| wallets, chains, process death | `WalletBroadcasts`, `ChainDecides`, `Crash` |

`adapter` and `submit` fields of an instruction abstract chain, token and
metadata to what changes the control flow: unusable, mock (and the Endless
stub), live; a quoted hash, signed bytes, an invented hash.

**PolicyRules** is the pure decision of `evaluatePermission`: the denying
policies, the first allowing one in rank order, its limits, the confirmation
rules. Action patterns and context constraints appear as the sets they match.
**Permission** adds state: an evaluation reads the policies, then the used
budget, then inserts, as three statements with no await (`Evaluate`,
`ReadSpent`, `Write`, and `WriteThrows` for a failed insert); `recordDeny` is
`RecordDeny`; `createPolicy` and crashes come in between.

**Invoke** is `LAEL.invoke` await by await, with `ExecutionService`. `Arrive`
copies the agent's row, `Replay` answers a known key, `CheckCapability` and
`CheckToken` are the two halves of the token check, `Evaluate` inserts the audit
row, `RunHandler` runs the action, `Settle*` and `ReachChain` settle, `WriteRow`
and `RecordIdempotency` are the two inserts, `StatementThrows`, `SettleThrows`,
`WriteAgain`, `WriteThrows`, `KeyThrows`, `Crash` are how it goes wrong. Any
statement may fail. `WriteAgain` is the catch of `execute()` after a first
insert that failed: it writes a second row, FAILED and without the settlement,
although `settle()` may have committed; the history variable `unwritten`
remembers the calls it did so for. The steps of `execute()` around its writes
are `settled` (inside the try) and `caught` (in the catch), so that a write that
fails in the catch ends the call. The administrative operations
(`DeactivateAgent`, `EndToken`, `VerifyWallet`, `ReconnectWallet`, `Credit`,
`TransferSettlement`) run in between. It is one process: what two servers add is
in the modules of the components. The decision of permission is any decision:
`Permission` says which.

**Wallet** models `connect` (lookup, then upsert) and `verify` (lookup, await,
update), nonce expiry and crashes, on one or several servers. Signatures are
valid or not, freely.

**Merkle** has the four functions of `merkle.ts` over symbolic hashes. Their
loops are functions on the naturals: the levels of a tree (`Levels`, of which
`Height` says how many the loop makes), the cursor of a proof on its way up
(`Path`), the hashes a verifier makes (`Climb`).
**ExecutionLedger** has the three statements of `#writeExecutionRecord`
(`Insert`, `ReadLeaves`, `Stamp`), between which other servers insert,
statements fail (`WriteThrows`) and processes die (`Crash`). The order of rows
is that of `created_at` and then of a random id, not that of insertion: `Place`
counts the rows that sort before one, and `Leaves` has each row at its place.
What the rest of `execute` does is in `Invoke`.

**Identity** models `IdentityService` with the servers' starts as state: each
start draws a new service key (`Restart`, `OwnKey`). `UpdateAgentMetadata` reads
the row and awaits, `WriteMetadata` merges and writes; `IssueCapabilityToken`
awaits the signature, `InsertToken` inserts; `VerifyCapabilityToken` picks the
key to try (`IssuerKey`), `VerifySignature` answers, `RefuseToken` is every
refusal before that. An issuer may be left out, may be the service named
explicitly, or an agent, registered or not; the secret may be left out or be any
agent's. The constraints of a request may bring a public key of their own, as
`Signed` has it: only where the issuer is left out does the service put its own
key in that place, and `IssuerKey` believes the key of any token that names the
service. The field `brought` of a token is history and says that it did.

**Learning** models the three commits of `submitFeedback` (`SubmitFeedback`,
`UpdateReputation`, `Show`), the row it then reports, and `getReputation`, which
inserts a row where it finds none (`ReadReputation`, `CreateReputation`).

**Varr** is the VARR runtime with its API and CLI, all in one module, since each
operation is a few repository calls on the same tables.

| code | model |
|---|---|
| a request reaches the server; a command loads the workspace | `Arrive`, `Load` |
| `RuntimeOrchestrator.run` | `LoadWorkflow`, `ResolveAgent`, `ReadContext` (once per context), `CheckCapabilities`, `Execute` |
| `ReceiptGenerator.generate` | `CountReceipts`, `InsertReceipt`; `LoseReceipt` where the number was taken meanwhile |
| `FeedbackProcessor.submit`, `LearningSignalEmitter.emit` | `FindReceipt`, `StoreFeedback`, `CountSignals`, `ReadNamespace`, `EmitSignal` |
| `agents.update`, `suspend` | `ReadAgent`, `ReplaceAgent` |
| other routes and commands that write | `Register`, `CreateGrant`, `Revoke`, `CreateContext`, `CreateWorkflow` |
| `saveRepositories`: truncate, then write | `Truncate`, `Write`; where two processes do, the result depends on lengths (`mixed`) |
| process death, clock | `Kill`, `Expire` |

A patch is written over the row it was read with as it came: validation looks at
known fields and returns the input unfiltered. So an `AgentRow` has, besides the
status, the `agent_id` it says it has (`named`) and whether the orchestrator has
its `runtime_adapter` (`hosted`), and `Patched` changes any of the three. A run
looks the row up under the id of its request, and goes by the id in the row when
it comes to contexts and grants.

`Homes` spreads the calls over processes: all in the server, or each its own CLI
command. `local` holds what a call carries over an await (`count`, `caps`,
`seen`). The variables in `history` only record what properties need to know of
the past: grants that had ended when a call came (`dead`), calls that came while
their agent was suspended (`down`), calls that overlapped one of their kind
(`met`), and whether CLI processes overlapped or were killed at the wrong time
(`raced`).

Definitions marked `Mutant:` are not part of a model. Each is a plausible bug (a
dropped guard, a wrong order, a swallowed error) put in place of the definition
named in `PROJECT.json`, to see that the property notices.

## 3. Runs

All bounds are in the `.cfg` files and the `MC*` modules. Every passing run
covers its state space completely. Deadlock is not checked: clients may stop
asking, so the systems really may stop; that calls do end is `CallsEnd`.

| run | question | answer |
|---|---|---|
| `Settlement_calls` | two calls, one on each server, by points or any way to a chain, under two contended ids: reversed roles, a transfer to oneself, a non-positive amount, failing RPCs and inserts, crashes, a chain that decides at any time | balances are always explained by credits and COMPLETED rows (`BalancesExplained`), rollbacks leave no account (`AccountsJustified`), replies are stored, FAILED rows are right for good, PointsLedger is implemented, calls end |
| `Settlement_pending` | is a COMPLETED row never about a rejected transaction? | violated, see 6 |
| `Permission_rules` | one server, evaluations for two agents, overlapping policies created in any order | the total budget holds, decisions are current when written, denials only narrow, rank decides, less risk or spending is never worse |
| `Permission_two_servers` | does the total budget hold over two servers? | violated, see 6 |
| `Invoke_retries` | two calls of one agent's key and another agent's, with and without a chosen settlement id, crashes | nothing settles without an ALLOW row of its own, replies are stored, retries of an undisturbed key do not run again, calls end |
| `Invoke_guards` | tokens that end, agents that are deactivated, wallets that are unbound at any moment, execution ids chosen or drawn, chain payments | no execution without permission, late requests are refused, settlements are reported, or the row says FAILED where its outcome could not be written |
| `Invoke_duplicates` | does one key run one handler? | violated, see 6 |
| `Wallet_claims` | four calls on two servers, two owners, two addresses, expiry, crashes | two owners of one address only after a race of two servers; only an owner's own verification verifies; accepted nonces are dead for later calls |
| `Ledger_roots` | four writers on two servers, ids in any order, equal times, failing statements, crashes | a stored root is the root of the ledger at one moment after the insert (`RootsArePast`), an index stays right until a row sorts before it, proofs hold for their leaf only and roots commit to the rows, at every size up to four |
| `Identity_tokens` | three calls on two servers that restart; one agent, registered or not; two fields; every issuer and secret, with and without a public key of the caller's | tokens issued by the service verify until they end (`ServiceTokensHold`), others only under their issuer's key or the one their request brought (`SignedByIssuer`), patches lose a field only to a race |
| `Learning_feedback` | three calls on two servers, three executions of two agents, scores below, in and above the range, failures and crashes | reputations are exactly the applied feedback, each piece once; what returned is applied; rows are not started over |
| `Varr_calls` | three calls of a server, or three CLI commands on one file: runs that succeed, fail, are refused or await approval, feedback on the first receipt, suspensions, patches that rename or unhost an agent, grants that come, go and expire, kills | receipts and signals are numbered without a gap, tell the truth and stay; runs are within the bounds of the agent their row names; suspended agents stay out; what was saved is kept |

Why the bounds suffice. The hazards are pairwise: two calls with one id, key,
nonce, number or agent. Two calls give each pair of steps in each order; third
and fourth calls, where a run has them, give a later reader of what the race
left (a retry, a later evaluation, a replay). Two servers are what the system
has. Two settlement ids, identities or owners give one that is contended and one
that is not. Amounts 1 and 2 against `MaxMint` 1 give covered, uncovered and
double spending. The `Permission` pool has, for each rule `Verdict`
distinguishes, a policy that it decides on and one that it does not. A ledger of
four rows is the smallest with two full levels, and three rows have the odd
level; a second instant of the clock adds no order, since ids are random
(`MaxTime` 1). Two starts of each server (`MaxStarts`) give an old and a new
service key, on both; the keys a request may bring (`PinnedKey`) are one of an
agent and one that the service published. `Settlement_calls` has two calls
because its chains, accounts and adapters multiply; three or more are covered by
the theorems, which hold for any number. In `Varr_calls` the second call takes
the number the first has drawn, and the third suspends, patches or reads; there
are two agents, of whom one is registered at first and one allowed by the
workflow, a grant of each and one that comes later, two contexts of different
namespaces, and one workflow of two that is active, so that each branch of `run`
is taken: an agent that is missing, suspended or not allowed, a context that is
missing or not its own, no grant, an approval, an adapter that is missing,
throws or returns. Symmetry is used in five runs (`Permission_rules`,
`Ledger_roots`, `Identity_tokens`, `Learning_feedback`, `Varr_calls`): it swaps
calls of one server, or fields, that nothing else tells apart, and none of these
runs checks liveness.

Types. Each module states `TypeOK`, and all of them are theorems. Only that of
`Learning` is also checked by a run, since it bounds ratings and reputations.

Fairness. Only `FairSpec` states any: `WF_vars(Step(c))` for each call. A call
that was started continues because Node resumes a settled promise, and because
an RPC node answers or refuses at some time: this is an assumption on the
network, since the adapters set no timeout. No environment operation, no client
and no crash is fair. The property excuses calls lost in a crash.

## 4. Proofs

Eight modules prove theorems for all values of the constants. They assume what
the named assumptions of the models say (`InstructionAssumption`,
`NoneAssumption`, `WalletAssumption`, `IdentityAssumption`, `InvokeAssumption`,
`VarrAssumption`, `RulesAssumption`, `PermissionAssumption`, `RankAssumption`,
`LearningAssumption`, `LedgerAssumption`): what requests, instructions and rows
are, that every call has a server, that `None` is none of the values. None of
them assumes a number of calls, and only the theorems that say so assume one
server. Each rests on an inductive invariant.

**Settlement.** `IInv` is inductive. Besides the properties it says that a call
past its lookup carries an instruction of positive amount (`Carries`), that the
points transaction and the adapters are reached by their own rail (`Routed`),
that a failure seen by an adapter is still true after the await (`SeenIsFinal`),
and that FAILED rows name a transaction (`FailedRowsNameTx`). Why it is needed:
`FailedIsFinal` alone is not inductive, since the row is written from `seen` two
steps after the chain was asked; `ReplyIsStored` needs that the id of a call
does not change and that inserts only fill empty ids; `AccountsJustified` needs
`Routed` to know which rows move points. Each action has a lemma; actions that
write no row share `QuietCallStep`. From `IInv`:

- `TypeCorrect`: types; no balance is ever negative;
- `AccountsAreJustified`, `RepliesAreStored`, `FailuresAreFinal`;
- `RecordsAreAppendOnly`, an action property;
- `SettlementImplementsLedger`: `Spec => Ledger!LedgerSpec`, where every step is
  a step of PointsLedger or leaves its variables alone;
- `BalancesAreExplained`: each balance is what was credited to it and what the
  COMPLETED rows of the points rail brought, less what they took. Both sides are
  sums over all records, of which each step changes one (`SumAgrees`,
  `SumRemoves`). That only finitely many ids have a record is part of the
  invariant, not an assumption on the ids;
- `PointsAreConserved`: all balances together are what was ever credited, by
  `credit()`. It rests on the refinement, so that it need not look at any pc: a
  step that decides a transfer moves points from payer to payee
  (`MovedKeepsSum`, also when they are one), and every other step of a call
  leaves the balances alone. The sum is over the identities, of which the
  theorem assumes that they are finitely many.

**Wallet.** `IInv` says which call drew which id and nonce, and for which key:
ids and nonces of a row, and nonces in use by `verify()`, come from a call that
claimed the same key (`Carries`, `RowsOwn`, `NoncesOwn`). This is needed because
`verify()` updates by `binding_id`: only because ids are never shared between
keys does the update reach the right row. `AcceptedVerified` (the row that still
holds an accepted nonce is verified) is why a later `verify()` is refused, and
`ClaimsAlone` is what makes `OneOwner` inductive: a claim in progress is of an
address free of other owners. From `IInv`: `TypeCorrect`, `OwnersAreAlone`,
`BindingsAreOwnVerified`, `LateReplaysFail`; and `OneServerOneOwner`: if every
call runs in one process, no address ever has two owners.

**Identity.** `ServiceTokensHold` speaks of an answer, which is given a step
after the key to try was chosen, which is itself any number of restarts after
the token was signed. `IInv` carries the fact along that path: from before it is
inserted, a token that names no issuer names the key that signed it, and one of
the service names a key that is not the service's only if its request brought
that key (`TokensPinned`); a token's fields do not change after its call is done
(`TokensInserted`); a verification in progress holds a key of the token's
issuer, or the one its request brought (`TriesIssuerKey`); rows that answers or
updates refer to exist (`AnswersNameTokens`, `UpdatesNameAgents`).
`ServiceTokensVerify`, `IssuersSign` and `TypeCorrect` follow. `UpdatesKeep`
needs a second invariant, that a row is as an update read it unless another has
written since (`ReadsFresh`).

**Permission.** `DenialsNarrow` and `RankDecidesAlways` relate two decisions,
with and without one more policy. They need `RankAssumption`: among any policies
one comes first, that is, no two active rows agree in `priority` and
`created_at`. (Where they do, `ORDER BY` promises no order, and which of them
decides is open. For an infinite pool it also says that every set of policies
has a first.) From it, `FirstIsFirst` says what `CHOOSE` picks, and
`FirstIsKept` that a policy behind another never becomes the first.
`LessIsAllowed` says for every used budget that lower risk and less spending
never turn ALLOW into something else; `LessCostsNothing` is `LessIsNeverWorse`,
the same of the budget in the table, which needs that `Spent` is an integer
(`SpentIsInt`) and grows with each row by what that row adds (`SpentAppends`).
`DecisionsAreCurrent` and `TotalBudgetsAreKept` assume `OneServer`. Their
invariant says that at most one evaluation is between its reads and its insert
(`Alone`), and that what it holds is what the tables say (`Holds`). With two
servers what was read may be out of date when the row is inserted
(`Permission_two_servers`). `TotalBudgetKept` becomes inductive together with
`Affords`: a row that is about to be inserted leaves its agent within the total
it was allowed under. `Affords` survives the steps of others only because of
`Alone` and `Holds`, which is where the proof would fail for two servers.

**Invoke.** The properties speak of what several calls leave behind, so `IInv`
says what each place in `invoke` implies for the call standing there:

- `Carries`: local variables fit the request;
- `AuditsHold`, `AuditsApart`: executions and calls in progress rest on an audit
  row of their own agent, and no row serves two of them.
  `ExecutedWithPermission` is not inductive without the calls in progress;
- `AnswersHold`: rows and keys that were written or answered stay;
- `LateHeld`: a late call will be refused wherever it stands;
- `RunHeld`: of a pair of agent and key that had no duplicates or failures at
  most one call is in progress, and the handler has run only if the key is taken
  or that call ran it;
- `SettleHeld`: a settlement under an id that `newId` drew is told by the row of
  the call that drew it, unless that row could not be written (`unwritten`): the
  row in its place is then FAILED and names no settlement;
- `Paired`: there is an injection from settlements to ALLOW rows that avoids the
  rows of calls yet to settle. `SettledWithPermission` compares two
  cardinalities; the injection is how it is proved, since it is extended by one
  pair in the step that settles.

Steps that do the same to these parts share a lemma (`Checks`, `Audits`,
`Returns`, `Leave`, `Elsewhere`). All the properties of `Invoke_retries` and
`Invoke_guards` but liveness are theorems, and `InvokeImplementsLedger` says
that the composition moves balances and settlement records only as PointsLedger
does.

**Varr.** The first part of `VarrProofs` has the types and the frame: what a
step of a call may do to the repositories of its process (`Moved`, `Grown`:
evidence is only added, and an ended grant does not come back). `Numbered` holds
although the count a call carries may be out of date: it is never above what the
table holds, so the next number is taken or the first free one.
`EvidenceIsAppendOnly` follows from the frame. The second part adds what a step
of one call may do to another (`Aside`, `Own`). `RunsAreBounded` carries each
passed check along the run (`Bounded`): the grants that had ended at its arrival
are still there and still ended when its grants are read. Whose bounds those are
is a matter of names: `NameInv` says that each row under an agent's id, and each
row a call has read, names that agent or the one that a completed update of the
row gave it; it holds in the file, too, since no command of the CLI updates an
agent. `SuspendedAreKeptOut`
needs that no update is about to write back an active row that it read before
the suspension (`Asleep`); such an update would have to be under way when the
run came, which `down` excludes. The third part shows `ReceiptsAreTrue` and
`AloneGetReceipts`: the number of a run that no other overlapped is still free
when it inserts its receipt (`Truthful`); `SavedStays`: while nothing raced, one
command is busy at most, and it has loaded what the finished ones saved
(`SaveInv`); and `SignalsAreJustified`: feedback of a call that is still
emitting is in the repositories of its own process only (`PlaceOK`), and that of
an ended call has its signal or a reason not to (`FeedbackTrue`).

**Learning.** `IInv` says what has become of a call's feedback from where the
call stands (`Placed`): feedback that is not applied belongs to a call that is
about to apply it, for the agent of that feedback, or that ended badly; a call
that is about to show its feedback has it applied, by itself or by another
server. `NoneAreForgotten` follows, and with `Shows` also `ShownAreApplied`.
`ReputationInv` adds what the reputations are. `ReputationsAreExplained` needs
that blending one series of scores after another is blending them in one
(`BlendedJoins`) and that an order of the feedback applied so far, followed by
one of the pending feedback, is an order of both without repetition
(`OrdersJoin`). Reputations are exact rationals, `score / (10 * scale)`, and
stay between 0 and 1 since blending keeps them there (`BlendIsReputation`);
`TypeCorrect` follows. Calls may be infinitely many: only finitely many have
given feedback in any state, which is part of the invariant.

**Execution ledger.** `LedgerProofs` has three layers.

The first is about trees of any size, without state. The levels halve until one
node is left (`LevelsShrink`, `HeightIsFirst`); a node and its sibling hash to
the node above (`JoinedIsParent`), so a proof climbs along the path of its leaf
(`ClimbFollowsPath`), which gives `ProofsVerify`: `verifyMerkleProof` accepts
what `buildMerkleProof` makes of a leaf, and no other leaf in its place.
`RootsTellLeaves` says that two series of leaves with one root are the same. The
last node of an odd level is paired with itself, so this is true only of leaves
that are all different: then a level is known by the next (`LevelsDistinct`,
`NextLevelInjective`). Two trees of different height agree from the root down
(`LowerTreeInHigher`) until a leaf of the one would be a pair of the other,
which no leaf is (`LeafIsNoPair`).

The second is about the order of rows. Rows with different ids have different
places, and every place is taken (`PlacesDiffer`, `EveryPlaceIsTaken`, by
counting), so the leaves are the rows, each at its place (`LeavesHoldRows`), and
`findIndex` finds it (`IndexIsPlace`). Rows that sort after a row do not move it
(`PlaceStays`).

The third is about the state. A row gets its root two statements after it was
inserted, and `RootsArePast` speaks of the ledger as it was once. Rows are only
appended, so the past stays what it was (`PastStays`); ids are a primary key
(`IdsApart`); what a call is about to store was found in the ledger at some
moment after its own row was inserted (`FoundFrom`, `Placed`), and so was what
it has stored (`Rooted`). From `IInv`, with the other layers where they are
needed:

- `RootsWereTrue`, which needs nothing of how a root is computed;
- `IndicesAreCurrent`, `LedgerProofsHold`, `RootsCommitAlways`: an index is
  right until a row sorts before it, and of the ledger in any reachable state
  every proof verifies and no proper part has the same root;
- `StoredRootsAreProvable`: with the root and the index stored in a row, and the
  ledger of some moment after its insertion, a proof of that row can be made;
- `LedgerIsAppendOnly`, an action property: no row is changed or removed, and a
  root once stored stays. It needs that two calls in progress never hold one id
  and that the row of such a call has no root yet (`Unstamped`);
- `TypeCorrect`.

**Sums and recursions.** A sum over a set, a budget over a table, a reputation
over scores and the levels of a tree are all defined by recursion, as functions
on the naturals, and what is shown of them is shown by induction. The induction
is written out: a lemma defines the set `Good` of the numbers, or finite sets,
of which its claim holds, and takes a least one outside of it to a contradiction
(`NaturalInduction`). That a function with the recursive equations exists is
shown the same way (`SumsExist`, `BlendsExist`, `RunsExist`), as is that any two
agree (`SumsToAgree`, `BlendsToAgree`, `RunsToAgree`); without it nothing would
follow from the equations.

**Only model-checked.** Every invariant and every action property that a passing
run checks is a theorem. What remains is `CallsEnd`, liveness under fairness,
which the provers do not handle. The three findings of section 6 are
counterexamples, and stay with TLC by their nature.

## 5. Hazards and properties

`PROJECT.json` `hazards` has the full list. The properties that need a sequence
of steps of several actors to break:

- `BalancesExplained`, `ImplementsLedger`: both transfers of a race moved
  points, or a rollback forgot one of the two updates;
- `ReplyIsStored` (settlement and invoke): the loser of a race for a primary key
  answers with its own row;
- `FailedIsFinal`: an adapter takes "not yet known" for "failed";
- `TotalBudgetKept`, `DecisionIsCurrent`: an evaluation gives way between
  reading the sum and inserting;
- `DenialsOnlyNarrow`, `RankDecides`, `LessIsNeverWorse`: relations between two
  decisions, over all orders of creating policies;
- `ExecutedWithPermission`, `SettledWithPermission`: an invocation reuses
  another's audit row, or runs without one;
- `LateIsRefused`: a token ends between the two reads of its row;
- `SettlementIsReported`: handler, settlement and row disagree, also when the
  first row could not be written;
- `RootsArePast`, `IndexIsCurrent`: another server's row, or a clock set back,
  between the insert of a row and the read of the leaves;
- `ServiceTokensHold`: a restart between issuing, choosing a key and answering;
- `UpdatesKeepTheRest`: a deactivation or a patch between the read and the write
  of another;
- `ReputationExplained`, `NoneForgotten`: a crash between the commits of a
  feedback, or two servers applying each other's;
- `NoLateReplay`, `VerifiedByOwnCall`, `OneOwner`: reconnects and other servers
  between a check and its update;
- `WellNumbered`, `ReceiptsTrue`, `AloneIsReceipted`: a receipt of another run
  between the count and the insert;
- `SignalsJustified`: a submission that fails between feedback and signal, or
  two of one id;
- `RanWithinBounds`: a grant that ended between two reads of a run, or a row
  that names another agent without an update having said so;
- `SuspendedStaysOut`: a patch that writes back a status it read before a
  suspension;
- `SavedIsKept`, `EvidenceKept`: a command that saves what it loaded over what
  another saved.

`SettlementIsReported` is about executions whose id `newId` drew, returned by
their own call or by a replay: a client-chosen id used twice lets a settlement
name the DENIED row of the other call (the second row is refused by the primary
key). It lets one kind of row be silent about its settlement, the FAILED row
that the catch of `execute()` writes when the first write fails after `settle()`
committed. Its key stores that row, so a retry is told of a failure, and only
`settlement_records` knows of the payment. `SettledWithPermission` is about rows
that name an execution: README.md:404 lists "settlement only after permission
approval", and README.md:228 also lists `/v2/settlement/transfer`, which reaches
the adapter with no agent and no policy. High-risk actions
(`luffa.trigger_payment`, `luffa.reward_user`) always require confirmation, so
`invoke` settles only for other actions that carry `params.settlement`.

## 6. Findings

Three runs state what a test or document says and are violated by the code.

1. `Settlement_pending`: a transaction that is pending when the adapter asks is
   recorded COMPLETED, and stays so when the chain rejects it
   (`src/settlement/adapters/evm`, `tests/security.test.ts:56`).
2. `Permission_two_servers`: two servers sum the used budget before either
   inserts its ALLOW row (`src/permission/index.ts`,
   `tests/integration.test.ts:283`). In one process this cannot happen:
   `Permission_rules`.
3. `Invoke_duplicates`: a duplicate of a request in progress, or of one that
   crashed, runs the handler again; its key insert then throws
   (`src/core/index.ts`, `tests/integration.test.ts:890`).

Also: two servers can give one address two owners (excluded by `raced` in
`OneOwner`); an ALLOW row, and its budget, is spent on a request that is denied
afterwards for its capability or wallet; two `verify()` calls in progress with
one nonce both succeed, which verifies the same row twice (`NoLateReplay` is
about replays made after the nonce was accepted); a token that names the service
DID explicitly, without a key among its constraints, stops verifying at the next
restart, and one whose request brought a key verifies under that key; one of two
concurrent metadata patches is lost.

In VARR, two runs that overlap in one process may draw one receipt number. The
insert that comes second throws. If its run executed, the exception is caught as
one of the adapter and the receipt says `failed`; if not, the run ends in an
exception and leaves no receipt (`LoseReceipt`). `varr-mvp1/README.md:28` says
"Generates an `ExecutionReceipt` for every path." This needs repositories or
adapters that really wait between the count and the insert, as 1.1 explains, so
it is not listed as a finding. `ReceiptsTrue` and `AloneIsReceipted` say what
holds. Two CLI processes that overlap may lose changes or leave a file that is
not JSON, which the next command takes for an empty workspace and saves. A
patch may overwrite the id in an agent's row: later runs for that agent go by
the contexts and grants of the other, and their receipts name the agent of the
request (`RanWithinBounds` speaks of whoever the row named).

## 7. Abstractions

Amounts are integers (floats in the code) and there is one asset; the `frozen`
column is set by no code; ids drawn by `newId` are named after the call that
draws them; signatures are valid or invalid freely; clocks are not modelled
(expiry may happen at any time, and among unverified rows any may be the
latest); REQUIRES_CONFIRMATION and DENY are one in `Invoke`; handlers return or
throw; JSON, HTTP, logging and reasons are left out. In `Merkle` a hash is the
pair of what it hashes, so nothing collides. In `Identity` both keys of a pair
are one value and a signature is the key it was made with; `last_active_at` and
the rows that updates return are left out. In `Learning` scores are exact (the
code computes in floats), and feedback on executions that do not exist, which is
refused, is left out. Migrations are the initial state. A statement may fail at
any time; only in `Settlement` it has a cause: the accounts, a key that exists
or a lock that another server holds.

In `Varr` times and texts are left out, and an id is a number or a name from a
small set. A grant's row says everything but its status, which is all that
changes; the order of the table of grants is not kept, so any covering grant may
be taken. Of an agent the model keeps the status, the id its row holds and
whether its runtime has an adapter, and a patch changes any of them.
Requests that validation refuses change nothing and are left out, as are the
causes a context can be closed for (`open`). A seeded workspace has resources
and no evidence. A crash of the server loses its memory and with it everything
there is to say; it is left out. What an adapter returns is data.

Not modelled: request parsing and tool schemas (REST, MCP, SDK), frontend and
demos, constant tables of chains, curve arithmetic and JSON-RPC payloads, the
VARR sanitizer (a pure string rule), its SQLite repository (a placeholder in the
code), its evidence store and trace events (not used by the runtime).

## 8. Plan

1. `Permission` composed with `Invoke`, with amounts: the budget a policy
   charges and the amount that is settled come from different fields (see the
   hazards).
2. A second server in `Invoke`, whose calls interleave between statements and
   not only at awaits.
