-------------------------------- MODULE Varr --------------------------------
(***************************************************************************)
(* The VARR runtime (src/varr-mvp1): the orchestrator that runs intents,   *)
(* feedback and learning signals, and the administration of agents and     *)
(* capabilities, on the repositories of memory.repository.ts.              *)
(*                                                                         *)
(* Each process has repositories of its own. The calls of one server share *)
(* them, and interleave wherever the code awaits a repository or adapter.  *)
(* A command of the CLI is a process of its own: it loads the workspace    *)
(* file, does one call, and writes the whole snapshot back.                *)
(***************************************************************************)
EXTENDS Integers, Sequences, FiniteSets

CONSTANTS
  AgentId, GrantId, ContextId, WorkflowId, FeedbackId, Action, Namespace,
  Resource,
  NamespaceOf,  (* namespaceFromResource: a namespace or None.             *)
  Risk,         (* classifyAction, per action.                             *)
  Grant, Context, Workflow,   (* What the resource with an id says.        *)
  Call,         (* Requests to the server, or commands of the CLI.         *)
  Server,       (* The process of the API server.                          *)
  Homes,        (* The ways to spread the calls over processes.            *)
  ServerRequests, CliRequests,
  Seeds,        (* What the server is created with, or the file holds:     *)
                (* resources without a history.                            *)
  None

AgentStatus == {"active", "suspended", "revoked"}
GrantStatus == {"active", "expired", "revoked"}
Level == {"low", "medium", "high", "critical"}
Outcome == {"success", "failed", "rejected", "pending_approval", "denied"}

(* The status, agent_id and runtime_adapter of an agent: what the row says *)
(* its id is, and whether the orchestrator has the adapter.                *)
AgentRow == [status : AgentStatus, named : AgentId, hosted : BOOLEAN]

Step == [action : Action, resource : Resource \cup {None}]

GrantRow ==
  [subject : AgentId, resource : Resource, actions : SUBSET Action,
   approvals : SUBSET Action, expires : BOOLEAN,
   status : GrantStatus]

(* open: active, community_public and without cross-namespace access.      *)
ContextRow ==
  [open : BOOLEAN, subjects : SUBSET AgentId, namespace : Namespace]

WorkflowRow ==
  [active : BOOLEAN, agents : SUBSET AgentId, steps : SUBSET Step]

RunRequest ==
  [op : {"run"}, agent : AgentId, workflow : WorkflowId,
   contexts : Seq(ContextId), actions : SUBSET Action]
FeedbackRequest == [op : {"feedback"}, id : FeedbackId, receipt : Nat]
RegisterRequest ==
  [op : {"register"}, agent : AgentId, status : AgentStatus, hosted : BOOLEAN]
UpdateRequest ==
  [op : {"update"}, agent : AgentId, status : AgentStatus \cup {None},
   named : AgentId \cup {None}, hosted : BOOLEAN \cup {None}]
GrantRequest == [op : {"grant", "revoke"}, id : GrantId]
CreateRequest ==
  [op : {"context"}, id : ContextId] \cup [op : {"workflow"}, id : WorkflowId]
CliRequest == [op : {"init", "show"}]
Request ==
  RunRequest \cup FeedbackRequest \cup RegisterRequest \cup UpdateRequest
    \cup GrantRequest \cup CreateRequest \cup CliRequest

Process == Call \cup {Server}

(* call stands for the intent and the clock: it tells receipts apart.      *)
ReceiptRow == [call : Call, request : RunRequest, status : Outcome]
FeedbackRow == [call : Call, receipt : Nat]
SignalRow ==
  [feedback : FeedbackId, receipt : Nat, policy : Outcome,
   namespace : Namespace \cup {None}]

IsTable(f, S, T) == DOMAIN f \subseteq S /\ f \in [DOMAIN f -> T]

(* RepositorySnapshot. Of a grant only its status ever changes.            *)
IsSnapshot(s) ==
  /\ DOMAIN s = {"agents", "grants", "contexts", "workflows", "receipts",
                 "feedback", "signals"}
  /\ IsTable(s.agents, AgentId, AgentRow)
  /\ IsTable(s.grants, GrantId, GrantStatus)
  /\ s.contexts \subseteq ContextId
  /\ s.workflows \subseteq WorkflowId
  /\ IsTable(s.receipts, Nat, ReceiptRow)
  /\ IsTable(s.feedback, FeedbackId, FeedbackRow)
  /\ IsTable(s.signals, Nat, SignalRow)

Nothing == [x \in {} |-> None]

(* createEmptySnapshot.                                                    *)
EmptySnapshot ==
  [agents |-> Nothing, grants |-> Nothing, contexts |-> {}, workflows |-> {},
   receipts |-> Nothing, feedback |-> Nothing, signals |-> Nothing]

Torn == [torn |-> TRUE]   (* No file, or one that is not JSON.              *)

ASSUME VarrAssumption ==
  /\ NamespaceOf \in [Resource -> Namespace \cup {None}]
  /\ Risk \in [Action -> Level]
  /\ Grant \in [GrantId -> GrantRow]
  /\ Context \in [ContextId -> ContextRow]
  /\ Workflow \in [WorkflowId -> WorkflowRow]
  /\ Server \notin Call
  /\ Homes \subseteq [Call -> Process]
  /\ \A h \in Homes, c \in Call : h[c] \in {c, Server}
  /\ ServerRequests \subseteq Request /\ CliRequests \subseteq Request
  /\ \A r \in CliRequests : r.op # "update"
  /\ \A r \in ServerRequests : r.op \notin {"init", "show"}
  /\ \A s \in Seeds : IsSnapshot(s) /\ \A a \in DOMAIN s.agents : s.agents[a].named = a
  /\ \A s \in Seeds : s.receipts = Nothing /\ s.feedback = Nothing /\ s.signals = Nothing
  /\ None \notin Namespace \cup Resource \cup AgentStatus \cup AgentId \cup AgentRow
  /\ None \notin Nat

VARIABLES
  home,     (* The process of each call.                                   *)
  mem,      (* The repositories of each process.                           *)
  file,     (* .lael/state.json.                                           *)
  past,     (* Grants whose expires_at has passed.                         *)
  pc, req,  (* Where each call stands, and what it was asked.              *)
  local,    (* The local variables of each call.                           *)
  reply,    (* The id of the receipt each run returned.                    *)
  dead,     (* History: grants that had ended when a call came.            *)
  down,     (* History: calls that came after their agent had been         *)
            (* suspended, no update of it being under way.                 *)
  met,      (* History: calls that overlapped one of their kind.           *)
  raced     (* History: whether CLI processes overlapped, one of them was  *)
            (* killed, or init was run.                                    *)

vars == <<home, mem, file, past, pc, req, local, reply, dead, down, met, raced>>
history == <<dead, down, met, raced>>

Ended == {"done", "thrown", "killed"}
Label ==
  Ended \cup {"idle", "ready", "agent", "context", "capability", "adapter",
    "count", "insert", "store", "signals", "namespace", "emit", "replace",
    "returned", "writing", "mixed"}

UnderWay(c) == pc[c] \notin Ended \cup {"idle"}
Cli(c) == home[c] = c
Mem(c) == mem[home[c]]

Fresh ==
  [at |-> 1, count |-> 0, caps |-> {}, status |-> "denied", seen |-> None,
   namespace |-> None, went |-> "none"]

Init ==
  /\ home \in Homes
  /\ \E s \in Seeds :
       /\ mem = [p \in Process |-> IF p = Server THEN s ELSE EmptySnapshot]
       /\ file \in {s, Torn}
  /\ past = {}
  /\ pc = [c \in Call |-> "idle"]
  /\ req = [c \in Call |-> None]
  /\ local = [c \in Call |-> Fresh]
  /\ reply = [c \in Call |-> None]
  /\ dead = [c \in Call |-> {}]
  /\ down = {} /\ met = {} /\ raced = FALSE

-----------------------------------------------------------------------------
(* Steps that every kind of call takes.                                    *)

Goto(c, label) == pc' = [pc EXCEPT ![c] = label]

Store(c, s) == mem' = [mem EXCEPT ![home[c]] = s]

(* MemoryRepository.create and replace, on one table.                      *)
Put(table, id, row) ==
  [i \in DOMAIN table \cup {id} |-> IF i = id THEN row ELSE table[i]]

(* Mutant: the CLI forgets to save.                                        *)
ReturnUnsaved(c) == Goto(c, "done")

(* An answer, or an exception. Only after an answer the CLI saves.         *)
Return(c) == Goto(c, IF Cli(c) THEN "returned" ELSE "done")
Throw(c) == Goto(c, "thrown")

Elsewhere == UNCHANGED <<home, file, past, req, history>>

(* A call takes a step from a place in its code, for some kinds of request.*)
At(c, label) == pc[c] = label
Asked(c, op) == pc[c] = "ready" /\ req[c].op = op

-----------------------------------------------------------------------------
(* The server receives a request; a CLI process loads the workspace.       *)

EndedGrants(s) ==
  past \cup {g \in DOMAIN s.grants : s.grants[g] # "active"}

SameKind(c, r) ==
  {d \in Call : UnderWay(d) /\ home[d] = home[c] /\ req[d].op = r.op}

(* The agent is not active, and no update of it is under way.              *)
IsDown(c, a) ==
  /\ a \in DOMAIN Mem(c).agents /\ Mem(c).agents[a].status # "active"
  /\ \A d \in Call :
       UnderWay(d) /\ home[d] = home[c] /\ req[d].op = "update" => req[d].agent # a

Arrive(c, r) ==
  /\ At(c, "idle") /\ ~Cli(c)
  /\ Goto(c, "ready")
  /\ req' = [req EXCEPT ![c] = r]
  /\ dead' = [dead EXCEPT ![c] = EndedGrants(Mem(c))]
  /\ down' = IF r.op = "run" /\ IsDown(c, r.agent) THEN down \cup {c} ELSE down
  /\ met' = IF SameKind(c, r) # {} THEN met \cup SameKind(c, r) \cup {c} ELSE met
  /\ UNCHANGED <<home, mem, file, past, local, reply, raced>>

Busy == {d \in Call : Cli(d) /\ UnderWay(d)}

(* loadSnapshot: whatever goes wrong, the snapshot is empty. init loads    *)
(* nothing and writes the empty snapshot.                                  *)
Load(c, r) ==
  LET s == IF file = Torn \/ r.op = "init" THEN EmptySnapshot ELSE file IN
  /\ At(c, "idle") /\ Cli(c)
  /\ Goto(c, IF r.op \in {"init", "show"} THEN "returned" ELSE "ready")
  /\ req' = [req EXCEPT ![c] = r]
  /\ mem' = [mem EXCEPT ![c] = s]
  /\ dead' = [dead EXCEPT ![c] = EndedGrants(s)]
  /\ raced' = (raced \/ Busy # {} \/ r.op = "init")
  /\ UNCHANGED <<home, file, past, local, reply, down, met>>

-----------------------------------------------------------------------------
(* RuntimeOrchestrator.run. finish() gives the receipt its status.         *)

Finish(c, status) ==
  /\ Goto(c, "count")
  /\ local' = [local EXCEPT ![c].status = status]

Actions(r) == r.actions \cup {s.action : s \in Workflow[r.workflow].steps}

Rank == [low |-> 1, medium |-> 2, high |-> 3, critical |-> 4]

(* maxRisk.                                                                *)
RiskOf(acts) ==
  CHOOSE l \in Level :
    /\ l \in {"low"} \cup {Risk[x] : x \in acts}
    /\ \A x \in acts : Rank[Risk[x]] <= Rank[l]

(* Mutant: an unavailable workflow is an exception.                        *)
LoadWorkflowOrThrow(c) ==
  LET w == req[c].workflow IN
  /\ Asked(c, "run")
  /\ Goto(c, IF w \in Mem(c).workflows /\ Workflow[w].active THEN "agent" ELSE "thrown")
  /\ Elsewhere /\ UNCHANGED <<mem, local, reply>>

LoadWorkflow(c) ==
  LET w == req[c].workflow IN
  /\ Asked(c, "run")
  /\ IF w \in Mem(c).workflows /\ Workflow[w].active
       THEN Goto(c, "agent") /\ UNCHANGED local
       ELSE Finish(c, "rejected")
  /\ Elsewhere /\ UNCHANGED <<mem, reply>>

IsActive(c, a) ==
  a \in DOMAIN Mem(c).agents /\ Mem(c).agents[a].status = "active"

(* Without context references there is not exactly one namespace.          *)
Admitted(r) ==
  /\ r.agent \in Workflow[r.workflow].agents
  /\ RiskOf(Actions(r)) # "critical"
  /\ r.contexts # <<>>

(* The row that is read here is what the checks below go by.               *)
ResolveAgent(c) ==
  LET a == req[c].agent IN
  /\ At(c, "agent")
  /\ IF IsActive(c, a) /\ Admitted(req[c])
       THEN Goto(c, "context") /\ local' = [local EXCEPT ![c].seen = Mem(c).agents[a]]
       ELSE Finish(c, "denied")
  /\ Elsewhere /\ UNCHANGED <<mem, reply>>

(* ContextBoundaryChecker, once all contexts are found; who is the         *)
(* agent_id of the agent's row.                                            *)
InBounds(r, who) ==
  /\ \A i \in DOMAIN r.contexts :
       Context[r.contexts[i]].open /\ who \in Context[r.contexts[i]].subjects
  /\ \E ns \in Namespace :
       /\ \A i \in DOMAIN r.contexts : Context[r.contexts[i]].namespace = ns
       /\ \A s \in Workflow[r.workflow].steps :
            s.resource # None => NamespaceOf[s.resource] \in {ns, None}

ReadContext(c) ==
  LET r == req[c]  i == local[c].at IN
  /\ At(c, "context")
  /\ IF r.contexts[i] \notin Mem(c).contexts THEN Finish(c, "denied")
     ELSE IF i < Len(r.contexts)
       THEN local' = [local EXCEPT ![c].at = i + 1] /\ UNCHANGED pc
     ELSE IF InBounds(r, local[c].seen.named) THEN Goto(c, "capability") /\ UNCHANGED local
     ELSE Finish(c, "denied")
  /\ Elsewhere /\ UNCHANGED <<mem, reply>>

(* Mutant: the status of a grant is not looked at.                         *)
UnexpiredGrants(c) ==
  {g \in DOMAIN Mem(c).grants :
    Grant[g].subject = local[c].seen.named /\ g \notin past}

(* findActiveBySubject.                                                    *)
LiveGrants(c) ==
  {g \in DOMAIN Mem(c).grants :
    /\ Grant[g].subject = local[c].seen.named
    /\ Mem(c).grants[g] = "active" /\ g \notin past}

Covers(g, x, r) ==
  /\ x \in Grant[g].actions
  /\ \A s \in Workflow[r.workflow].steps :
       s.action = x /\ s.resource # None => s.resource = Grant[g].resource

NeedsApproval(caps, r) ==
  \/ RiskOf(Actions(r)) = "high"
  \/ \E g \in caps : Grant[g].approvals \cap Actions(r) # {}

(* CapabilityChecker takes for an action the first grant that covers it;   *)
(* the order of the table is not kept, so any one that does.               *)
CheckCapabilities(c) ==
  LET r == req[c] IN
  /\ At(c, "capability")
  /\ \/ /\ \E x \in Actions(r) : \A g \in LiveGrants(c) : ~Covers(g, x, r)
        /\ Finish(c, "denied")
     \/ \E pick \in [Actions(r) -> LiveGrants(c)] :
          LET caps == {pick[x] : x \in Actions(r)} IN
          /\ \A x \in Actions(r) : Covers(pick[x], x, r)
          /\ IF NeedsApproval(caps, r) THEN Finish(c, "pending_approval")
             ELSE IF ~local[c].seen.hosted THEN Finish(c, "failed")
             ELSE Goto(c, "adapter") /\ local' = [local EXCEPT ![c].caps = caps]
  /\ Elsewhere /\ UNCHANGED <<mem, reply>>

(* Mutant: what the adapter throws is swallowed.                           *)
ExecuteSwallows(c) ==
  /\ At(c, "adapter")
  /\ Goto(c, "count")
  /\ \E status \in {"success", "failed"} :
       local' = [local EXCEPT ![c].went = status, ![c].status = "success"]
  /\ Elsewhere /\ UNCHANGED <<mem, reply>>

(* The adapter, which returns or throws.                                   *)
Execute(c) ==
  /\ At(c, "adapter")
  /\ Goto(c, "count")
  /\ \E status \in {"success", "failed"} :
       local' = [local EXCEPT ![c].went = status, ![c].status = status]
  /\ Elsewhere /\ UNCHANGED <<mem, reply>>

(* ReceiptGenerator counts the receipts before it inserts one.             *)
CountReceipts(c) ==
  /\ At(c, "count")
  /\ Goto(c, "insert")
  /\ local' = [local EXCEPT ![c].count = Cardinality(DOMAIN Mem(c).receipts)]
  /\ Elsewhere /\ UNCHANGED <<mem, reply>>

(* Mutant: numbers start with zero.                                        *)
NextIdFromZero(c) == local[c].count

NextId(c) == local[c].count + 1

(* Mutant: the insert replaces what is there.                              *)
InsertReceiptAnyway(c) ==
  /\ At(c, "insert")
  /\ Store(c, [Mem(c) EXCEPT !.receipts =
       Put(@, NextId(c), [call |-> c, request |-> req[c], status |-> local[c].status])])
  /\ reply' = [reply EXCEPT ![c] = NextId(c)]
  /\ Return(c)
  /\ Elsewhere /\ UNCHANGED local

InsertReceipt(c) ==
  /\ At(c, "insert") /\ NextId(c) \notin DOMAIN Mem(c).receipts
  /\ Store(c, [Mem(c) EXCEPT !.receipts =
       Put(@, NextId(c), [call |-> c, request |-> req[c], status |-> local[c].status])])
  /\ reply' = [reply EXCEPT ![c] = NextId(c)]
  /\ Return(c)
  /\ Elsewhere /\ UNCHANGED local

(* The id was taken meanwhile. The try block around a success holds the    *)
(* insertion too: its exception is reported as an error of the adapter.    *)
LoseReceipt(c) ==
  /\ At(c, "insert") /\ NextId(c) \in DOMAIN Mem(c).receipts
  /\ IF local[c].status = "success"
       THEN Finish(c, "failed")
       ELSE Throw(c) /\ UNCHANGED local
  /\ Elsewhere /\ UNCHANGED <<mem, reply>>

-----------------------------------------------------------------------------
(* FeedbackProcessor.submit and LearningSignalEmitter.emit.                *)

FindReceipt(c) ==
  /\ Asked(c, "feedback")
  /\ IF req[c].receipt \in DOMAIN Mem(c).receipts THEN Goto(c, "store") ELSE Return(c)
  /\ Elsewhere /\ UNCHANGED <<mem, local, reply>>

(* Mutant: feedback that is there already is passed on all the same.       *)
StoreFeedbackAgain(c) ==
  LET f == req[c].id IN
  /\ At(c, "store")
  /\ Goto(c, "signals")
  /\ IF f \in DOMAIN Mem(c).feedback THEN UNCHANGED mem
     ELSE Store(c, [Mem(c) EXCEPT !.feedback =
            Put(@, f, [call |-> c, receipt |-> req[c].receipt])])
  /\ Elsewhere /\ UNCHANGED <<local, reply>>

StoreFeedback(c) ==
  LET f == req[c].id IN
  /\ At(c, "store")
  /\ IF f \in DOMAIN Mem(c).feedback THEN Throw(c) /\ UNCHANGED mem
     ELSE /\ Goto(c, "signals")
          /\ Store(c, [Mem(c) EXCEPT !.feedback =
               Put(@, f, [call |-> c, receipt |-> req[c].receipt])])
  /\ Elsewhere /\ UNCHANGED <<local, reply>>

ReceiptOf(c) == Mem(c).receipts[req[c].receipt]

CountSignals(c) ==
  /\ At(c, "signals")
  /\ Goto(c, IF ReceiptOf(c).request.contexts = <<>> THEN "emit" ELSE "namespace")
  /\ local' = [local EXCEPT ![c].count = Cardinality(DOMAIN Mem(c).signals)]
  /\ Elsewhere /\ UNCHANGED <<mem, reply>>

ReadNamespace(c) ==
  LET ref == ReceiptOf(c).request.contexts[1] IN
  /\ At(c, "namespace")
  /\ Goto(c, "emit")
  /\ local' = [local EXCEPT ![c].namespace =
       IF ref \in Mem(c).contexts THEN Context[ref].namespace ELSE None]
  /\ Elsewhere /\ UNCHANGED <<mem, reply>>

EmitSignal(c) ==
  /\ At(c, "emit")
  /\ IF NextId(c) \in DOMAIN Mem(c).signals THEN Throw(c) /\ UNCHANGED mem
     ELSE /\ Return(c)
          /\ Store(c, [Mem(c) EXCEPT !.signals = Put(@, NextId(c),
               [feedback |-> req[c].id, receipt |-> req[c].receipt,
                policy |-> ReceiptOf(c).status, namespace |-> local[c].namespace])])
  /\ Elsewhere /\ UNCHANGED <<local, reply>>

-----------------------------------------------------------------------------
(* Administration.                                                         *)

(* agents.update, of which suspend() is a case: the row is read, and       *)
(* written back with the patch on top. Nothing keeps a patch from naming   *)
(* another agent_id or runtime_adapter; the row stays under its key.       *)
ReadAgent(c) ==
  LET a == req[c].agent IN
  /\ Asked(c, "update")
  /\ IF a \notin DOMAIN Mem(c).agents THEN Throw(c) /\ UNCHANGED local
     ELSE Goto(c, "replace") /\ local' = [local EXCEPT ![c].seen = Mem(c).agents[a]]
  /\ Elsewhere /\ UNCHANGED <<mem, reply>>

Given(value, old) == IF value = None THEN old ELSE value

(* Mutant: a patch without a status means active.                          *)
PatchedActive(row, r) ==
  [status |-> Given(r.status, "active"), named |-> Given(r.named, row.named),
   hosted |-> Given(r.hosted, row.hosted)]

Patched(row, r) ==
  [status |-> Given(r.status, row.status), named |-> Given(r.named, row.named),
   hosted |-> Given(r.hosted, row.hosted)]

ReplaceAgent(c) ==
  LET r == req[c] IN
  /\ At(c, "replace")
  /\ Store(c, [Mem(c) EXCEPT !.agents[r.agent] = Patched(local[c].seen, r)])
  /\ Return(c)
  /\ Elsewhere /\ UNCHANGED <<local, reply>>

Created(c, s) == Return(c) /\ Store(c, s)
Refused(c) == Throw(c) /\ UNCHANGED mem

Register(c) ==
  LET r == req[c]  s == Mem(c) IN
  /\ Asked(c, "register")
  /\ IF r.agent \in DOMAIN s.agents THEN Refused(c)
     ELSE Created(c, [s EXCEPT !.agents = Put(@, r.agent,
            [status |-> r.status, named |-> r.agent, hosted |-> r.hosted])])
  /\ Elsewhere /\ UNCHANGED <<local, reply>>

(* The subject is looked up first; agents are never deleted.               *)
CreateGrant(c) ==
  LET g == req[c].id  s == Mem(c) IN
  /\ Asked(c, "grant")
  /\ IF Grant[g].subject \notin DOMAIN s.agents \/ g \in DOMAIN s.grants
       THEN Refused(c)
       ELSE Created(c, [s EXCEPT !.grants = Put(@, g, Grant[g].status)])
  /\ Elsewhere /\ UNCHANGED <<local, reply>>

(* Nothing else of a grant changes: what revoke() read cannot be stale.    *)
Revoke(c) ==
  LET g == req[c].id  s == Mem(c) IN
  /\ Asked(c, "revoke")
  /\ IF g \notin DOMAIN s.grants THEN Refused(c)
     ELSE Created(c, [s EXCEPT !.grants[g] = "revoked"])
  /\ Elsewhere /\ UNCHANGED <<local, reply>>

CreateContext(c) ==
  LET x == req[c].id  s == Mem(c) IN
  /\ Asked(c, "context")
  /\ IF x \in s.contexts THEN Refused(c)
     ELSE Created(c, [s EXCEPT !.contexts = @ \cup {x}])
  /\ Elsewhere /\ UNCHANGED <<local, reply>>

CreateWorkflow(c) ==
  LET w == req[c].id  s == Mem(c) IN
  /\ Asked(c, "workflow")
  /\ IF w \in s.workflows THEN Refused(c)
     ELSE Created(c, [s EXCEPT !.workflows = @ \cup {w}])
  /\ Elsewhere /\ UNCHANGED <<local, reply>>

-----------------------------------------------------------------------------
(* saveRepositories: the file is truncated, then written. Whether a writer *)
(* covers all that another wrote since ("mixed") depends on their lengths. *)

Exit(c) == mem' = [mem EXCEPT ![c] = EmptySnapshot]

Truncate(c) ==
  /\ At(c, "returned")
  /\ pc' = [d \in Call |-> IF d = c \/ At(d, "mixed") THEN "writing" ELSE pc[d]]
  /\ file' = Torn
  /\ UNCHANGED <<home, mem, past, req, local, reply, history>>

Write(c) ==
  /\ pc[c] \in {"writing", "mixed"}
  /\ \/ file' = mem[c]
     \/ At(c, "mixed") /\ file' = Torn
  /\ pc' = [d \in Call |-> IF d = c THEN "done"
                           ELSE IF pc[d] = "writing" THEN "mixed" ELSE pc[d]]
  /\ Exit(c)
  /\ UNCHANGED <<home, past, req, local, reply, history>>

(* A CLI process is killed.                                                *)
Kill(c) ==
  /\ Cli(c) /\ UnderWay(c)
  /\ Goto(c, "killed")
  /\ \/ file' = file
     \/ At(c, "mixed") /\ file' = Torn
  /\ raced' = (raced \/ pc[c] \in {"writing", "mixed"})
  /\ Exit(c)
  /\ UNCHANGED <<home, past, req, local, reply, dead, down, met>>

(* The clock reaches expires_at.                                           *)
Expire(g) ==
  /\ Grant[g].expires /\ g \notin past
  /\ past' = past \cup {g}
  /\ UNCHANGED <<home, mem, file, pc, req, local, reply, history>>

-----------------------------------------------------------------------------

Run(c) ==
  \/ LoadWorkflow(c) \/ ResolveAgent(c) \/ ReadContext(c)
  \/ CheckCapabilities(c) \/ Execute(c)
  \/ CountReceipts(c) \/ InsertReceipt(c) \/ LoseReceipt(c)

Submit(c) ==
  \/ FindReceipt(c) \/ StoreFeedback(c) \/ CountSignals(c)
  \/ ReadNamespace(c) \/ EmitSignal(c)

Administer(c) ==
  \/ ReadAgent(c) \/ ReplaceAgent(c) \/ Register(c)
  \/ CreateGrant(c) \/ Revoke(c) \/ CreateContext(c) \/ CreateWorkflow(c)

Next ==
  \/ \E c \in Call :
       \/ \E r \in ServerRequests : Arrive(c, r)
       \/ \E r \in CliRequests : Load(c, r)
       \/ Run(c) \/ Submit(c) \/ Administer(c)
       \/ Truncate(c) \/ Write(c) \/ Kill(c)
  \/ \E g \in GrantId : Expire(g)

Spec == Init /\ [][Next]_vars

-----------------------------------------------------------------------------

TypeOK ==
  /\ home \in Homes
  /\ DOMAIN mem = Process /\ \A p \in Process : IsSnapshot(mem[p])
  /\ file = Torn \/ IsSnapshot(file)
  /\ past \subseteq GrantId
  /\ pc \in [Call -> Label]
  /\ DOMAIN req = Call /\ \A c \in Call : pc[c] # "idle" => req[c] \in Request
  /\ local \in [Call ->
       [at : Nat, count : Nat, caps : SUBSET GrantId, status : Outcome,
        seen : AgentRow \cup {None}, namespace : Namespace \cup {None},
        went : {"none", "success", "failed"}]]
  /\ reply \in [Call -> Nat \cup {None}]
  /\ dead \in [Call -> SUBSET GrantId]
  /\ down \subseteq Call /\ met \subseteq Call /\ raced \in BOOLEAN

Snapshots == {mem[p] : p \in Process} \cup ({file} \ {Torn})

(* Ids are drawn from a count that may be out of date when they are used.  *)
(* Yet in every process and in the file, receipts and signals are numbered *)
(* without a gap, so that no number was ever given to two of them.         *)
WellNumbered ==
  \A s \in Snapshots :
    \A ids \in {DOMAIN s.receipts, DOMAIN s.signals} : ids = 1 .. Cardinality(ids)

(* A receipt is by one call, and tells what that call did: a success ran   *)
(* the adapter, a denial never did, and a failure is an adapter that threw *)
(* or is missing, or a success whose receipt lost its number to another.   *)
ReceiptsTrue ==
  \A s \in Snapshots : \A i, j \in DOMAIN s.receipts :
    LET row == s.receipts[i]  c == row.call IN
    /\ row.call = s.receipts[j].call => i = j
    /\ row.request = req[c] /\ reply[c] = i
    /\ row.status = "success" => local[c].went = "success"
    /\ row.status = "failed" =>
         \/ local[c].went = "failed"
         \/ local[c].seen # None /\ ~local[c].seen.hosted
         \/ (local[c].went = "success" /\ c \in met)
    /\ row.status \notin {"success", "failed"} => local[c].went = "none"

(* "Generates an ExecutionReceipt for every path": a run that no other run *)
(* of its process overlapped answers with a receipt, which says success    *)
(* exactly if the adapter succeeded.                                       *)
AloneIsReceipted ==
  \A c \in Call :
    pc[c] \in {"done", "thrown", "returned"} /\ req[c].op = "run" /\ c \notin met =>
      /\ pc[c] # "thrown" /\ reply[c] # None
      /\ ~Cli(c) =>
           /\ reply[c] \in DOMAIN Mem(c).receipts
           /\ LET row == Mem(c).receipts[reply[c]] IN
              /\ row.call = c
              /\ row.status = "success" <=> local[c].went = "success"

(* Signals are about feedback on the receipt they name, at most one each,  *)
(* and carry the outcome of that receipt. Feedback without its signal is   *)
(* still being processed, or another submission came in between.           *)
SignalsJustified ==
  \A s \in Snapshots :
    /\ \A i, j \in DOMAIN s.signals :
         LET signal == s.signals[i] IN
         /\ signal.feedback = s.signals[j].feedback => i = j
         /\ signal.feedback \in DOMAIN s.feedback
         /\ s.feedback[signal.feedback].receipt = signal.receipt
         /\ signal.receipt \in DOMAIN s.receipts
         /\ s.receipts[signal.receipt].status = signal.policy
    /\ \A f \in DOMAIN s.feedback :
         \/ \E i \in DOMAIN s.signals : s.signals[i].feedback = f
         \/ pc[s.feedback[f].call] \in {"signals", "namespace", "emit", "killed"}
         \/ s.feedback[f].call \in met

(* An update of the agent's row has said that its agent_id is who.         *)
Renamed(c, who) ==
  \E d \in Call :
    /\ pc[d] = "done" /\ home[d] = home[c]
    /\ req[d].op = "update" /\ req[d].agent = req[c].agent /\ req[d].named = who

(* What ran the adapter was within every bound of the agent it ran as,     *)
(* which is the agent of the request unless an update has renamed that     *)
(* agent's row: each action under a grant of that agent that had not ended *)
(* when the call came, nothing critical or awaiting approval, and contexts *)
(* and resources of one namespace.                                         *)
RanWithinBounds ==
  \A c \in Call : pc[c] # "idle" /\ local[c].went # "none" =>
    LET r == req[c]  caps == local[c].caps  who == local[c].seen.named IN
    /\ who = r.agent \/ Renamed(c, who)
    /\ r.agent \in Workflow[r.workflow].agents /\ InBounds(r, who)
    /\ local[c].seen.hosted
    /\ \A x \in Actions(r) :
         /\ Risk[x] \in {"low", "medium"}
         /\ \E g \in caps : Covers(g, x, r)
         /\ \A g \in caps : x \notin Grant[g].approvals
    /\ \A g \in caps : Grant[g].subject = who /\ g \notin dead[c]

(* "Agents cannot execute unless active": a call that comes when its agent *)
(* is suspended, and no update of it is under way, runs the adapter only   *)
(* after an update that asked for active.                                  *)
SuspendedStaysOut ==
  \A c \in down : local[c].went # "none" =>
    \E d \in Call :
      /\ pc[d] = "done" /\ home[d] = home[c]
      /\ req[d].op = "update" /\ req[d].agent = req[c].agent /\ req[d].status = "active"

(* "Receipts are append-only records": in the memory of a process that has *)
(* loaded, no receipt, feedback or signal is changed or removed.           *)
EvidenceKept ==
  [][\A c \in Call : ~Cli(c) \/ (UnderWay(c) /\ UnderWay(c)') =>
       \A field \in {"receipts", "feedback", "signals"} :
         \A i \in DOMAIN Mem(c)[field] :
           /\ i \in DOMAIN mem'[home[c]][field]
           /\ mem'[home[c]][field][i] = Mem(c)[field][i]]_vars

(* What the file holds, or will when the one writer is done.               *)
Saved ==
  IF file # Torn THEN {file}
  ELSE {mem[c] : c \in {d \in Call : pc[d] \in {"writing", "mixed"}}}

(* While commands do not overlap, none is killed while it saves and init   *)
(* is not run, the receipt of a finished execution stays in the workspace. *)
SavedIsKept ==
  \A c \in Call :
    Cli(c) /\ pc[c] = "done" /\ req[c].op = "run" /\ ~raced =>
      /\ Saved # {}
      /\ \A s \in Saved : reply[c] \in DOMAIN s.receipts /\ s.receipts[reply[c]].call = c
=============================================================================
