----------------------------- MODULE VarrProofs -----------------------------
(***************************************************************************)
(* Theorems about Varr, for every set of calls, agents, grants, contexts   *)
(* and workflows, and every way to spread the calls over processes. In     *)
(* this order: types and numbers; what the orchestrator runs, and for whom;*)
(* whether receipts, saved workspaces and signals are true.                *)
(***************************************************************************)
EXTENDS Varr, FiniteSetTheorems, TLAPS

Numbers(ids) == \E n \in Nat : ids = 1 .. n

(* A snapshot whose receipts and signals are numbered without a gap.       *)
Sound(s) ==
  /\ IsSnapshot(s)
  /\ Numbers(DOMAIN s.receipts) /\ Numbers(DOMAIN s.signals)

RowsKept(f, g) == \A i \in DOMAIN f : i \in DOMAIN g /\ g[i] = f[i]

(* What a step may do to the repositories of a process in use: evidence is *)
(* only added, and a grant that has ended does not come back.              *)
Grown(s, t) ==
  /\ RowsKept(s.receipts, t.receipts)
  /\ RowsKept(s.feedback, t.feedback)
  /\ RowsKept(s.signals, t.signals)
  /\ \A g \in DOMAIN s.grants :
       g \in DOMAIN t.grants /\ (s.grants[g] # "active" => t.grants[g] # "active")

LocalRow ==
  [at : Nat, count : Nat, caps : SUBSET GrantId, status : Outcome,
   seen : AgentRow \cup {None}, namespace : Namespace \cup {None},
   went : {"none", "success", "failed"}]

RunLabel == {"agent", "context", "capability", "adapter", "count", "insert"}
SubmitLabel == {"store", "signals", "namespace", "emit"}
SaveLabel == {"returned", "writing", "mixed"}

(* What each place in the code says of the request and the local variables.*)
(* A count is never above what the table holds when it is used.            *)
CallOK(c) ==
  /\ pc[c] # "idle" => req[c] \in Request
  /\ pc[c] \in RunLabel => req[c] \in RunRequest
  /\ pc[c] \in SubmitLabel =>
       req[c] \in FeedbackRequest /\ req[c].receipt \in DOMAIN Mem(c).receipts
  /\ pc[c] = "replace" =>
       req[c] \in UpdateRequest /\ local[c].seen \in AgentRow
  /\ pc[c] = "insert" => 1 .. local[c].count \subseteq DOMAIN Mem(c).receipts
  /\ pc[c] \in {"namespace", "emit"} =>
       1 .. local[c].count \subseteq DOMAIN Mem(c).signals
  /\ pc[c] \in SaveLabel => Cli(c)

(* What callers never ask for.                                             *)
Requested(c) ==
  pc[c] # "idle" /\ Cli(c) => req[c].op # "update"

(* The inductive invariant behind TypeOK and WellNumbered.                 *)
TypeInv ==
  /\ home \in Homes
  /\ DOMAIN mem = Process /\ \A p \in Process : Sound(mem[p])
  /\ file # Torn => Sound(file)
  /\ past \subseteq GrantId
  /\ pc \in [Call -> Label] /\ DOMAIN req = Call
  /\ local \in [Call -> LocalRow]
  /\ reply \in [Call -> Nat \cup {None}]
  /\ dead \in [Call -> SUBSET GrantId]
  /\ down \subseteq Call /\ met \subseteq Call /\ raced \in BOOLEAN
  /\ \A c \in Call : CallOK(c) /\ Requested(c)

(* A step of a call within its process.                                    *)
Moved(c) ==
  /\ pc[c] # "idle" /\ UNCHANGED <<home, file, past, req, history>>
  /\ pc' \in [Call -> Label] /\ local' \in [Call -> LocalRow]
  /\ reply' \in [Call -> Nat \cup {None}]
  /\ \A d \in Call \ {c} :
       pc'[d] = pc[d] /\ local'[d] = local[d] /\ reply'[d] = reply[d]
  /\ DOMAIN mem' = Process
  /\ \A p \in Process \ {home[c]} : mem'[p] = mem[p]
  /\ Sound(mem'[home[c]]) /\ Grown(Mem(c), mem'[home[c]])
  /\ CallOK(c)'

-----------------------------------------------------------------------------
(* Tables, snapshots and numbers.                                          *)

(* A row that is put into a table.                                         *)
LEMMA PutRow ==
  ASSUME NEW f, NEW i, NEW v
  PROVE  /\ DOMAIN Put(f, i, v) = DOMAIN f \cup {i}
         /\ Put(f, i, v)[i] = v
         /\ \A j \in DOMAIN f : j # i => Put(f, i, v)[j] = f[j]
         /\ i \notin DOMAIN f => RowsKept(f, Put(f, i, v))
  BY DEF Put, RowsKept

LEMMA PutTable ==
  ASSUME NEW S, NEW T, NEW f, IsTable(f, S, T), NEW i \in S, NEW v \in T
  PROVE  IsTable(Put(f, i, v), S, T)
  BY DEF Put, IsTable

LEMMA NothingTable ==
  ASSUME NEW S, NEW T PROVE IsTable(Nothing, S, T)
  BY DEF Nothing, IsTable

LEMMA EmptySound == Sound(EmptySnapshot)
  <1>1. Numbers({})
    <2>1. {} = 1 .. 0
      OBVIOUS
    <2> QED
      BY <2>1 DEF Numbers
  <1>2. DOMAIN Nothing = {}
    BY DEF Nothing
  <1>3. IsSnapshot(EmptySnapshot)
    BY NothingTable DEF IsSnapshot, EmptySnapshot
  <1> QED
    BY <1>1, <1>2, <1>3 DEF Sound, EmptySnapshot

LEMMA SeedSound ==
  ASSUME NEW s \in Seeds PROVE Sound(s)
  <1>1. Numbers({})
    <2>1. {} = 1 .. 0
      OBVIOUS
    <2> QED
      BY <2>1 DEF Numbers
  <1>2. DOMAIN Nothing = {}
    BY DEF Nothing
  <1> QED
    BY <1>1, <1>2, VarrAssumption DEF Sound

(* The id drawn from a count that is not too high is the next number, or   *)
(* it is taken.                                                            *)
LEMMA NextNumber ==
  ASSUME NEW ids, Numbers(ids), NEW n \in Nat, 1 .. n \subseteq ids, n + 1 \notin ids
  PROVE  Numbers(ids \cup {n + 1}) /\ ids = 1 .. n
  <1>1. PICK m \in Nat : ids = 1 .. m
    BY DEF Numbers
  <1>2. n = m
    BY <1>1
  <1>3. ids \cup {n + 1} = 1 .. (n + 1)
    BY <1>1, <1>2
  <1> QED
    BY <1>1, <1>2, <1>3 DEF Numbers

LEMMA CountNumbers ==
  ASSUME NEW ids, Numbers(ids)
  PROVE  Cardinality(ids) \in Nat /\ ids = 1 .. Cardinality(ids)
  <1>1. PICK m \in Nat : ids = 1 .. m
    BY DEF Numbers
  <1>2. Cardinality(1 .. m) = m
    BY FS_Interval
  <1> QED
    BY <1>1, <1>2

LEMMA GrownSelf == ASSUME NEW s PROVE Grown(s, s)
  BY DEF Grown, RowsKept

-----------------------------------------------------------------------------
LEMMA Homed ==
  ASSUME TypeInv, NEW c \in Call
  PROVE  home[c] \in {c, Server} /\ home[c] \in Process /\ c # Server
  BY VarrAssumption DEF TypeInv, Process

LEMMA InitTypeInv == Init => TypeInv
  <1> SUFFICES ASSUME Init PROVE TypeInv
    OBVIOUS
  <1>1. PICK s \in Seeds :
          /\ mem = [p \in Process |-> IF p = Server THEN s ELSE EmptySnapshot]
          /\ file \in {s, Torn}
    BY DEF Init
  <1>2. DOMAIN mem = Process /\ \A p \in Process : Sound(mem[p])
    BY <1>1, SeedSound, EmptySound
  <1>3. file # Torn => Sound(file)
    BY <1>1, SeedSound
  <1>4. Fresh \in LocalRow
    BY DEF Fresh, LocalRow, Outcome
  <1>5. \A c \in Call : CallOK(c) /\ Requested(c)
    BY DEF Init, CallOK, Requested, RunLabel, SubmitLabel, SaveLabel
  <1> QED
    BY <1>2, <1>3, <1>4, <1>5 DEF Init, TypeInv, Label

(* Other calls do not notice the step of a call, but for new rows.         *)
LEMMA MovedKeeps ==
  ASSUME TypeInv, NEW c \in Call, Moved(c)
  PROVE  TypeInv'
  <1>1. \A p \in Process : Sound(mem'[p])
    BY Homed DEF TypeInv, Moved
  <1>2. ASSUME NEW d \in Call \ {c} PROVE CallOK(d)'
    <2>1. CallOK(d) /\ pc'[d] = pc[d] /\ local'[d] = local[d] /\ req' = req /\ home' = home
      BY DEF TypeInv, Moved
    <2>2. /\ DOMAIN Mem(d).receipts \subseteq DOMAIN Mem(d)'.receipts
          /\ DOMAIN Mem(d).signals \subseteq DOMAIN Mem(d)'.signals
      BY Homed DEF Moved, Mem, Grown, RowsKept
    <2> QED
      BY <2>1, <2>2 DEF CallOK, Cli
  <1>3. \A d \in Call : CallOK(d)' /\ Requested(d)'
    BY <1>2 DEF Moved, TypeInv, Requested, Cli
  <1> QED
    BY <1>1, <1>3 DEF TypeInv, Moved, history

-----------------------------------------------------------------------------
(* Each step of a call within its process is Moved.                        *)

(* Of the local variables, only those of one call change.                  *)
OnlyLocal(c) ==
  /\ local' \in [Call -> LocalRow]
  /\ \A d \in Call \ {c} : local'[d] = local[d]

(* A step that leaves the repositories alone.                              *)
LEMMA StillMoves ==
  ASSUME TypeInv, NEW c \in Call, NEW label \in Label, pc[c] # "idle",
         Elsewhere, UNCHANGED <<mem, reply>>, Goto(c, label),
         OnlyLocal(c), CallOK(c)'
  PROVE  Moved(c)
  BY Homed, GrownSelf DEF TypeInv, Moved, Elsewhere, Goto, Mem, OnlyLocal

(* A step that stores a snapshot.                                          *)
LEMMA StoreMoves ==
  ASSUME TypeInv, NEW c \in Call, NEW label \in Label, NEW s, pc[c] # "idle",
         Elsewhere, UNCHANGED local, Goto(c, label), Store(c, s),
         reply' \in [Call -> Nat \cup {None}],
         \A d \in Call \ {c} : reply'[d] = reply[d],
         Sound(s), Grown(Mem(c), s), CallOK(c)'
  PROVE  Moved(c)
  BY Homed DEF TypeInv, Moved, Elsewhere, Goto, Store, Mem

LEMMA RunMoves ==
  ASSUME TypeInv, NEW c \in Call, pc[c] # "idle", req[c] \in RunRequest, OnlyLocal(c),
         NEW label \in RunLabel \ {"insert"},
         Elsewhere, UNCHANGED <<mem, reply>>, Goto(c, label)
  PROVE  Moved(c)
  <1>1. label \in Label
    BY DEF RunLabel, Label
  <1>2. pc'[c] = label /\ req' = req
    BY DEF Goto, TypeInv, Elsewhere
  <1>3. CallOK(c)'
    BY <1>2 DEF CallOK, RunLabel, SubmitLabel, SaveLabel, Request
  <1> QED
    BY <1>1, <1>3, StillMoves

LEMMA FinishMoves ==
  ASSUME TypeInv, NEW c \in Call, pc[c] # "idle", req[c] \in RunRequest, NEW status \in Outcome,
         Elsewhere, UNCHANGED <<mem, reply>>, Finish(c, status)
  PROVE  Moved(c)
  <1>1. OnlyLocal(c)
    BY DEF TypeInv, LocalRow, Finish, OnlyLocal
  <1> QED
    BY <1>1, RunMoves DEF Finish, RunLabel

LEMMA RunAsked ==
  ASSUME TypeInv, NEW c \in Call
  PROVE  /\ Asked(c, "run") => req[c] \in RunRequest
         /\ Asked(c, "feedback") => req[c] \in FeedbackRequest
         /\ Asked(c, "update") => req[c] \in UpdateRequest
         /\ Asked(c, "register") => req[c] \in RegisterRequest
         /\ Asked(c, "grant") \/ Asked(c, "revoke") => req[c] \in GrantRequest
         /\ Asked(c, "context") => req[c].id \in ContextId
         /\ Asked(c, "workflow") => req[c].id \in WorkflowId
  BY DEF TypeInv, CallOK, Asked, Request, RunRequest, FeedbackRequest,
     RegisterRequest, UpdateRequest, GrantRequest, CreateRequest, CliRequest

(* A call that goes on without a change of its variables.                  *)
LEMMA OnlyGoto ==
  ASSUME TypeInv, NEW c \in Call, UNCHANGED local
  PROVE  OnlyLocal(c)
  BY DEF TypeInv, OnlyLocal

LEMMA LoadWorkflowMoves ==
  ASSUME TypeInv, NEW c \in Call, LoadWorkflow(c)
  PROVE  Moved(c)
  BY RunAsked, FinishMoves, RunMoves, OnlyGoto DEF LoadWorkflow, Asked, Outcome, RunLabel

LEMMA ResolveAgentMoves ==
  ASSUME TypeInv, NEW c \in Call, ResolveAgent(c)
  PROVE  Moved(c)
  <1>1. req[c] \in RunRequest /\ pc[c] # "idle"
    BY DEF ResolveAgent, At, TypeInv, CallOK, RunLabel
  <1>2. CASE IsActive(c, req[c].agent) /\ Admitted(req[c])
    <2> DEFINE row == Mem(c).agents[req[c].agent]
    <2>1. row \in AgentRow
      BY <1>2, Homed DEF IsActive, TypeInv, Mem, Sound, IsSnapshot, IsTable
    <2>2. local' = [local EXCEPT ![c].seen = row] /\ Goto(c, "context")
      BY <1>2 DEF ResolveAgent
    <2> HIDE DEF row
    <2>3. OnlyLocal(c)
      BY <2>1, <2>2 DEF TypeInv, LocalRow, OnlyLocal
    <2> QED
      BY <1>1, <2>2, <2>3, RunMoves DEF ResolveAgent, RunLabel
  <1>3. CASE ~(IsActive(c, req[c].agent) /\ Admitted(req[c]))
    BY <1>1, <1>3, FinishMoves DEF ResolveAgent, Outcome
  <1> QED
    BY <1>2, <1>3

LEMMA ReadContextMoves ==
  ASSUME TypeInv, NEW c \in Call, ReadContext(c)
  PROVE  Moved(c)
  <1>1. req[c] \in RunRequest /\ pc[c] # "idle"
    BY DEF ReadContext, At, TypeInv, CallOK, RunLabel
  <1>2. CASE /\ local' = [local EXCEPT ![c].at = local[c].at + 1]
             /\ UNCHANGED pc
    <2> DEFINE n == local[c].at + 1
    <2> n \in Nat /\ local' = [local EXCEPT ![c].at = n]
      BY <1>2 DEF TypeInv, LocalRow
    <2> HIDE DEF n
    <2>1. OnlyLocal(c)
      BY DEF TypeInv, LocalRow, OnlyLocal
    <2>2. Goto(c, "context")
      BY <1>2 DEF Goto, ReadContext, At, TypeInv
    <2> QED
      BY <1>1, <2>1, <2>2, RunMoves DEF ReadContext, RunLabel
  <1> QED
    BY <1>1, <1>2, FinishMoves, RunMoves, OnlyGoto DEF ReadContext, Outcome, RunLabel

LEMMA CheckCapabilitiesMoves ==
  ASSUME TypeInv, NEW c \in Call, CheckCapabilities(c)
  PROVE  Moved(c)
  <1>1. req[c] \in RunRequest /\ pc[c] # "idle"
    BY DEF CheckCapabilities, At, TypeInv, CallOK, RunLabel
  <1>2. ASSUME NEW caps \in SUBSET GrantId, Goto(c, "adapter"),
               local' = [local EXCEPT ![c].caps = caps]
        PROVE  Moved(c)
    <2>1. OnlyLocal(c)
      BY <1>2 DEF TypeInv, LocalRow, OnlyLocal
    <2> QED
      BY <1>1, <1>2, <2>1, RunMoves DEF CheckCapabilities, RunLabel
  <1>3. LiveGrants(c) \subseteq GrantId
    BY Homed DEF LiveGrants, Mem, TypeInv, Sound, IsSnapshot, IsTable
  <1>4. ASSUME NEW pick \in [Actions(req[c]) -> LiveGrants(c)]
        PROVE  {pick[x] : x \in Actions(req[c])} \in SUBSET GrantId
    BY <1>3
  <1> QED
    BY <1>1, <1>2, <1>4, FinishMoves DEF CheckCapabilities, Outcome

LEMMA ExecuteMoves ==
  ASSUME TypeInv, NEW c \in Call, Execute(c)
  PROVE  Moved(c)
  <1>1. req[c] \in RunRequest /\ pc[c] # "idle"
    BY DEF Execute, At, TypeInv, CallOK, RunLabel
  <1>2. PICK status \in {"success", "failed"} :
          local' = [local EXCEPT ![c].went = status, ![c].status = status]
    BY DEF Execute
  <1> DEFINE went == [local EXCEPT ![c].went = status]
  <1>3. went \in [Call -> LocalRow] /\ \A d \in Call \ {c} : went[d] = local[d]
    BY DEF TypeInv, LocalRow
  <1>4. local' = [went EXCEPT ![c].status = status]
    BY <1>2
  <1> HIDE DEF went
  <1>5. OnlyLocal(c)
    BY <1>3, <1>4 DEF LocalRow, Outcome, OnlyLocal
  <1> QED
    BY <1>1, <1>5, RunMoves DEF Execute, RunLabel

LEMMA CountTyped ==
  ASSUME TypeInv, NEW c \in Call, NEW n \in Nat, local' = [local EXCEPT ![c].count = n]
  PROVE  OnlyLocal(c) /\ local'[c].count = n
  BY DEF TypeInv, LocalRow, OnlyLocal

LEMMA CountReceiptsMoves ==
  ASSUME TypeInv, NEW c \in Call, CountReceipts(c)
  PROVE  Moved(c)
  <1> DEFINE n == Cardinality(DOMAIN Mem(c).receipts)
  <1>1. req[c] \in RunRequest /\ pc[c] # "idle"
    BY DEF CountReceipts, At, TypeInv, CallOK, RunLabel
  <1>2. n \in Nat /\ DOMAIN Mem(c).receipts = 1 .. n
    BY Homed, CountNumbers DEF TypeInv, Sound, Mem
  <1>3. local' = [local EXCEPT ![c].count = n]
    BY DEF CountReceipts
  <1>4. pc'[c] = "insert" /\ req' = req /\ Mem(c)' = Mem(c)
    BY DEF CountReceipts, Goto, TypeInv, Elsewhere, Mem
  <1> HIDE DEF n
  <1>5. OnlyLocal(c) /\ local'[c].count = n
    BY <1>2, <1>3, CountTyped
  <1>6. CallOK(c)'
    BY <1>1, <1>2, <1>4, <1>5 DEF CallOK, RunLabel, SubmitLabel, SaveLabel, Request
  <1> QED
    BY <1>1, <1>5, <1>6, StillMoves DEF CountReceipts, Label

LEMMA LoseReceiptMoves ==
  ASSUME TypeInv, NEW c \in Call, LoseReceipt(c)
  PROVE  Moved(c)
  <1>1. req[c] \in RunRequest /\ pc[c] # "idle"
    BY DEF LoseReceipt, At, TypeInv, CallOK, RunLabel
  <1>2. CASE Throw(c) /\ UNCHANGED local
    <2>1. pc'[c] = "thrown" /\ req' = req
      BY <1>2 DEF Throw, Goto, TypeInv, LoseReceipt, Elsewhere
    <2>2. CallOK(c)'
      BY <1>1, <2>1 DEF CallOK, RunLabel, SubmitLabel, SaveLabel, Request
    <2> QED
      BY <1>1, <1>2, <2>2, StillMoves, OnlyGoto DEF LoseReceipt, Throw, Label, Ended
  <1> QED
    BY <1>1, <1>2, FinishMoves DEF LoseReceipt, Outcome

(* A new table in a sound snapshot.                                        *)
LEMMA NewEvidence ==
  ASSUME NEW s, Sound(s), NEW T
  PROVE  /\ IsTable(T, Nat, ReceiptRow) /\ Numbers(DOMAIN T) /\ RowsKept(s.receipts, T) =>
              /\ Sound([s EXCEPT !.receipts = T])
              /\ Grown(s, [s EXCEPT !.receipts = T])
         /\ IsTable(T, FeedbackId, FeedbackRow) /\ RowsKept(s.feedback, T) =>
              /\ Sound([s EXCEPT !.feedback = T])
              /\ Grown(s, [s EXCEPT !.feedback = T])
         /\ IsTable(T, Nat, SignalRow) /\ Numbers(DOMAIN T) /\ RowsKept(s.signals, T) =>
              /\ Sound([s EXCEPT !.signals = T])
              /\ Grown(s, [s EXCEPT !.signals = T])
  BY DEF Sound, IsSnapshot, Grown, RowsKept

LEMMA NewResources ==
  ASSUME NEW s, Sound(s), NEW T
  PROVE  /\ IsTable(T, AgentId, AgentRow) =>
              /\ Sound([s EXCEPT !.agents = T])
              /\ Grown(s, [s EXCEPT !.agents = T])
         /\ /\ IsTable(T, GrantId, GrantStatus)
            /\ \A g \in DOMAIN s.grants :
                 g \in DOMAIN T /\ (s.grants[g] # "active" => T[g] # "active")
            => /\ Sound([s EXCEPT !.grants = T])
               /\ Grown(s, [s EXCEPT !.grants = T])
         /\ T \subseteq ContextId =>
              /\ Sound([s EXCEPT !.contexts = T])
              /\ Grown(s, [s EXCEPT !.contexts = T])
         /\ T \subseteq WorkflowId =>
              /\ Sound([s EXCEPT !.workflows = T])
              /\ Grown(s, [s EXCEPT !.workflows = T])
  BY DEF Sound, IsSnapshot, Grown, RowsKept

(* After a call has stored what it came for, it returns.                   *)
LEMMA StoreReturns ==
  ASSUME TypeInv, NEW c \in Call, NEW s, pc[c] # "idle",
         Elsewhere, UNCHANGED local, Return(c), Store(c, s),
         reply' \in [Call -> Nat \cup {None}],
         \A d \in Call \ {c} : reply'[d] = reply[d],
         Sound(s), Grown(Mem(c), s)
  PROVE  Moved(c)
  <1> DEFINE label == IF Cli(c) THEN "returned" ELSE "done"
  <1>1. label \in Label /\ Goto(c, label)
    BY DEF Label, Ended, Return
  <1>2. pc'[c] = label /\ req' = req /\ home' = home
    BY <1>1 DEF Goto, TypeInv, Elsewhere
  <1>3. CallOK(c)'
    BY <1>2 DEF TypeInv, CallOK, RunLabel, SubmitLabel, SaveLabel, Cli
  <1> HIDE DEF label
  <1> QED
    BY <1>1, <1>3, StoreMoves

LEMMA Throws ==
  ASSUME TypeInv, NEW c \in Call, pc[c] # "idle",
         Elsewhere, UNCHANGED <<mem, local, reply>>, Throw(c) \/ Return(c)
  PROVE  Moved(c)
  <1> PICK label \in {"thrown", "done", "returned"} :
          Goto(c, label) /\ (label = "returned" => Cli(c))
    BY DEF Throw, Return
  <1>1. pc'[c] = label /\ req' = req /\ home' = home
    BY DEF Goto, TypeInv, Elsewhere
  <1>2. CallOK(c)'
    BY <1>1 DEF TypeInv, CallOK, RunLabel, SubmitLabel, SaveLabel, Cli
  <1> QED
    BY <1>2, StillMoves, OnlyGoto DEF Label, Ended

LEMMA InsertReceiptMoves ==
  ASSUME TypeInv, NEW c \in Call, InsertReceipt(c)
  PROVE  Moved(c)
  <1> DEFINE n == local[c].count
             row == [call |-> c, request |-> req[c], status |-> local[c].status]
             T == Put(Mem(c).receipts, n + 1, row)
  <1>1. n \in Nat /\ local[c].status \in Outcome
    BY DEF TypeInv, LocalRow
  <1>2. /\ req[c] \in RunRequest
        /\ 1 .. n \subseteq DOMAIN Mem(c).receipts
        /\ n + 1 \notin DOMAIN Mem(c).receipts
    BY DEF InsertReceipt, At, NextId, TypeInv, CallOK, RunLabel
  <1>3. Sound(Mem(c))
    BY Homed DEF TypeInv, Mem
  <1>4. row \in ReceiptRow
    BY <1>1, <1>2 DEF ReceiptRow
  <1>5. Store(c, [Mem(c) EXCEPT !.receipts = T])
    BY DEF InsertReceipt, NextId
  <1>6. reply' = [reply EXCEPT ![c] = n + 1]
    BY DEF InsertReceipt, NextId
  <1> HIDE DEF n, row
  <1>7. IsTable(T, Nat, ReceiptRow)
    <2>1. IsTable(Mem(c).receipts, Nat, ReceiptRow)
      BY <1>3 DEF Sound, IsSnapshot
    <2>2. n + 1 \in Nat
      BY <1>1
    <2> QED
      BY <1>4, <2>1, <2>2, PutTable
  <1>8. Numbers(DOMAIN T) /\ RowsKept(Mem(c).receipts, T)
    <2>1. DOMAIN T = DOMAIN Mem(c).receipts \cup {n + 1}
      BY PutRow
    <2>2. Numbers(DOMAIN Mem(c).receipts)
      BY <1>3 DEF Sound
    <2>3. Numbers(DOMAIN Mem(c).receipts \cup {n + 1})
      BY <1>1, <1>2, <2>2, NextNumber
    <2> QED
      BY <1>2, <2>1, <2>3, PutRow
  <1> HIDE DEF T
  <1>9. /\ reply' \in [Call -> Nat \cup {None}]
        /\ \A d \in Call \ {c} : reply'[d] = reply[d]
    BY <1>1, <1>6 DEF TypeInv
  <1>10. pc[c] # "idle"
    BY DEF InsertReceipt, At
  <1> QED
    BY <1>3, <1>5, <1>7, <1>8, <1>9, <1>10, NewEvidence, StoreReturns DEF InsertReceipt

LEMMA FindReceiptMoves ==
  ASSUME TypeInv, NEW c \in Call, FindReceipt(c)
  PROVE  Moved(c)
  <1>1. req[c] \in FeedbackRequest /\ pc[c] # "idle"
    BY RunAsked DEF FindReceipt, Asked
  <1>2. CASE req[c].receipt \in DOMAIN Mem(c).receipts /\ Goto(c, "store")
    <2>1. pc'[c] = "store" /\ req' = req /\ Mem(c)' = Mem(c)
      BY <1>2 DEF FindReceipt, Goto, TypeInv, Elsewhere, Mem
    <2>2. CallOK(c)'
      BY <1>1, <1>2, <2>1 DEF CallOK, RunLabel, SubmitLabel, SaveLabel, Request
    <2> QED
      BY <1>1, <1>2, <2>2, StillMoves, OnlyGoto DEF FindReceipt, Label
  <1> QED
    BY <1>1, <1>2, Throws DEF FindReceipt

LEMMA StoreFeedbackMoves ==
  ASSUME TypeInv, NEW c \in Call, StoreFeedback(c)
  PROVE  Moved(c)
  <1> DEFINE f == req[c].id
             row == [call |-> c, receipt |-> req[c].receipt]
             T == Put(Mem(c).feedback, f, row)
  <1>1. /\ req[c] \in FeedbackRequest /\ req[c].receipt \in DOMAIN Mem(c).receipts
        /\ pc[c] # "idle"
    BY DEF StoreFeedback, At, TypeInv, CallOK, SubmitLabel
  <1>2. CASE f \in DOMAIN Mem(c).feedback
    BY <1>1, <1>2, Throws DEF StoreFeedback
  <1>3. CASE f \notin DOMAIN Mem(c).feedback
    <2>1. Store(c, [Mem(c) EXCEPT !.feedback = T]) /\ Goto(c, "signals")
      BY <1>3 DEF StoreFeedback
    <2>2. Sound(Mem(c))
      BY Homed DEF TypeInv, Mem
    <2>3. row \in FeedbackRow /\ f \in FeedbackId
      BY <1>1 DEF FeedbackRow, FeedbackRequest
    <2>4. IsTable(Mem(c).feedback, FeedbackId, FeedbackRow)
      BY <2>2 DEF Sound, IsSnapshot
    <2> HIDE DEF f, row
    <2>5. IsTable(T, FeedbackId, FeedbackRow) /\ RowsKept(Mem(c).feedback, T)
      BY <1>3, <2>3, <2>4, PutTable, PutRow
    <2> HIDE DEF T
    <2>6. Sound([Mem(c) EXCEPT !.feedback = T]) /\ Grown(Mem(c), [Mem(c) EXCEPT !.feedback = T])
      BY <2>2, <2>5, NewEvidence
    <2>7. /\ pc'[c] = "signals" /\ req' = req
          /\ Mem(c)' = [Mem(c) EXCEPT !.feedback = T]
      BY <2>1, Homed DEF Store, Mem, Goto, TypeInv, StoreFeedback, Elsewhere
    <2>8. req[c].receipt \in DOMAIN Mem(c)'.receipts
      BY <1>1, <2>6, <2>7 DEF Grown, RowsKept
    <2>9. CallOK(c)'
      BY <1>1, <2>7, <2>8 DEF CallOK, RunLabel, SubmitLabel, SaveLabel, Request
    <2>10. reply' \in [Call -> Nat \cup {None}] /\ \A d \in Call \ {c} : reply'[d] = reply[d]
      BY DEF StoreFeedback, TypeInv
    <2> QED
      BY <1>1, <2>1, <2>6, <2>9, <2>10, StoreMoves DEF StoreFeedback, Label
  <1> QED
    BY <1>2, <1>3

LEMMA CountSignalsMoves ==
  ASSUME TypeInv, NEW c \in Call, CountSignals(c)
  PROVE  Moved(c)
  <1> DEFINE n == Cardinality(DOMAIN Mem(c).signals)
  <1>1. /\ req[c] \in FeedbackRequest /\ req[c].receipt \in DOMAIN Mem(c).receipts
        /\ pc[c] # "idle"
    BY DEF CountSignals, At, TypeInv, CallOK, SubmitLabel
  <1>2. n \in Nat /\ DOMAIN Mem(c).signals = 1 .. n
    BY Homed, CountNumbers DEF TypeInv, Sound, Mem
  <1>3. local' = [local EXCEPT ![c].count = n]
    BY DEF CountSignals
  <1>4. PICK label \in {"emit", "namespace"} : Goto(c, label)
    BY DEF CountSignals
  <1>5. pc'[c] = label /\ req' = req /\ Mem(c)' = Mem(c)
    BY <1>4 DEF CountSignals, Goto, TypeInv, Elsewhere, Mem
  <1> HIDE DEF n
  <1>6. OnlyLocal(c) /\ local'[c].count = n
    BY <1>2, <1>3, CountTyped
  <1>7. CallOK(c)'
    BY <1>1, <1>2, <1>5, <1>6 DEF CallOK, RunLabel, SubmitLabel, SaveLabel, Request
  <1> QED
    BY <1>1, <1>4, <1>6, <1>7, StillMoves DEF CountSignals, Label

LEMMA ReadNamespaceMoves ==
  ASSUME TypeInv, NEW c \in Call, ReadNamespace(c)
  PROVE  Moved(c)
  <1>1. /\ req[c] \in FeedbackRequest /\ req[c].receipt \in DOMAIN Mem(c).receipts
        /\ 1 .. local[c].count \subseteq DOMAIN Mem(c).signals /\ pc[c] # "idle"
    BY DEF ReadNamespace, At, TypeInv, CallOK, SubmitLabel
  <1>2. PICK ns \in Namespace \cup {None} : local' = [local EXCEPT ![c].namespace = ns]
    <2>1. Mem(c).contexts \subseteq ContextId
      BY Homed DEF TypeInv, Mem, Sound, IsSnapshot
    <2>2. \A x \in ContextId : Context[x].namespace \in Namespace
      BY VarrAssumption DEF ContextRow
    <2> QED
      BY <2>1, <2>2 DEF ReadNamespace
  <1>3. OnlyLocal(c) /\ local'[c].count = local[c].count
    BY <1>2 DEF TypeInv, LocalRow, OnlyLocal
  <1>4. pc'[c] = "emit" /\ req' = req /\ Mem(c)' = Mem(c)
    BY DEF ReadNamespace, Goto, TypeInv, Elsewhere, Mem
  <1>5. CallOK(c)'
    BY <1>1, <1>3, <1>4 DEF CallOK, RunLabel, SubmitLabel, SaveLabel, Request
  <1> QED
    BY <1>1, <1>3, <1>5, StillMoves DEF ReadNamespace, Label

LEMMA EmitSignalMoves ==
  ASSUME TypeInv, NEW c \in Call, EmitSignal(c)
  PROVE  Moved(c)
  <1> DEFINE n == local[c].count
             row == [feedback |-> req[c].id, receipt |-> req[c].receipt,
                     policy |-> ReceiptOf(c).status, namespace |-> local[c].namespace]
             T == Put(Mem(c).signals, n + 1, row)
  <1>1. /\ req[c] \in FeedbackRequest /\ req[c].receipt \in DOMAIN Mem(c).receipts
        /\ 1 .. n \subseteq DOMAIN Mem(c).signals /\ pc[c] # "idle"
    BY DEF EmitSignal, At, TypeInv, CallOK, SubmitLabel
  <1>2. Sound(Mem(c)) /\ n \in Nat /\ local[c].namespace \in Namespace \cup {None}
    BY Homed DEF TypeInv, Mem, LocalRow
  <1>3. CASE n + 1 \in DOMAIN Mem(c).signals
    BY <1>1, <1>3, Throws DEF EmitSignal, NextId
  <1>4. CASE n + 1 \notin DOMAIN Mem(c).signals
    <2>1. Store(c, [Mem(c) EXCEPT !.signals = T]) /\ Return(c)
      BY <1>4 DEF EmitSignal, NextId
    <2>2. ReceiptOf(c).status \in Outcome
      BY <1>1, <1>2 DEF ReceiptOf, Sound, IsSnapshot, IsTable, ReceiptRow
    <2>3. row \in SignalRow
      BY <1>1, <1>2, <2>2 DEF SignalRow, FeedbackRequest
    <2> HIDE DEF n, row
    <2>4. IsTable(T, Nat, SignalRow)
      <3>1. IsTable(Mem(c).signals, Nat, SignalRow) /\ n + 1 \in Nat
        BY <1>2 DEF Sound, IsSnapshot
      <3> QED
        BY <2>3, <3>1, PutTable
    <2>5. Numbers(DOMAIN T) /\ RowsKept(Mem(c).signals, T)
      <3>1. DOMAIN T = DOMAIN Mem(c).signals \cup {n + 1}
        BY PutRow
      <3>2. Numbers(DOMAIN Mem(c).signals)
        BY <1>2 DEF Sound
      <3>3. Numbers(DOMAIN Mem(c).signals \cup {n + 1})
        BY <1>1, <1>2, <1>4, <3>2, NextNumber
      <3> QED
        BY <1>4, <3>1, <3>3, PutRow
    <2> HIDE DEF T
    <2>6. reply' \in [Call -> Nat \cup {None}] /\ \A d \in Call \ {c} : reply'[d] = reply[d]
      BY DEF EmitSignal, TypeInv
    <2> QED
      BY <1>1, <1>2, <2>1, <2>4, <2>5, <2>6, NewEvidence, StoreReturns DEF EmitSignal
  <1> QED
    BY <1>3, <1>4

LEMMA ReadAgentMoves ==
  ASSUME TypeInv, NEW c \in Call, ReadAgent(c)
  PROVE  Moved(c)
  <1> DEFINE a == req[c].agent
  <1>1. req[c] \in UpdateRequest /\ pc[c] # "idle"
    BY RunAsked DEF ReadAgent, Asked
  <1>2. CASE a \notin DOMAIN Mem(c).agents
    BY <1>1, <1>2, Throws DEF ReadAgent
  <1>3. CASE a \in DOMAIN Mem(c).agents
    <2>1. Mem(c).agents[a] \in AgentRow
      BY <1>3, Homed DEF TypeInv, Mem, Sound, IsSnapshot, IsTable
    <2>2. OnlyLocal(c) /\ local'[c].seen \in AgentRow
      BY <1>3, <2>1 DEF ReadAgent, TypeInv, LocalRow, OnlyLocal
    <2>3. pc'[c] = "replace" /\ req' = req
      BY <1>3 DEF ReadAgent, Goto, TypeInv, Elsewhere
    <2>4. CallOK(c)'
      BY <1>1, <2>2, <2>3 DEF CallOK, RunLabel, SubmitLabel, SaveLabel, Request
    <2> QED
      BY <1>1, <1>3, <2>2, <2>4, StillMoves DEF ReadAgent, Label
  <1> QED
    BY <1>2, <1>3

(* A call whose snapshot replaces that of its process returns, or throws   *)
(* and has changed nothing.                                                *)
LEMMA CreatedMoves ==
  ASSUME TypeInv, NEW c \in Call, NEW s, pc[c] # "idle",
         Elsewhere, UNCHANGED <<local, reply>>,
         Refused(c) \/ (Created(c, s) /\ Sound(s) /\ Grown(Mem(c), s))
  PROVE  Moved(c)
  <1>1. reply' \in [Call -> Nat \cup {None}] /\ \A d \in Call \ {c} : reply'[d] = reply[d]
    BY DEF TypeInv
  <1> QED
    BY <1>1, StoreReturns, Throws DEF Created, Refused

(* A patched row is a row; its name is the one given or the one it had.    *)
LEMMA PatchedRow ==
  ASSUME NEW r \in UpdateRequest, NEW row \in AgentRow
  PROVE  /\ Patched(row, r) \in AgentRow
         /\ Patched(row, r).status = IF r.status = None THEN row.status ELSE r.status
         /\ Patched(row, r).named = IF r.named = None THEN row.named ELSE r.named
  BY DEF Patched, Given, UpdateRequest, AgentRow

LEMMA ReplaceAgentMoves ==
  ASSUME TypeInv, NEW c \in Call, ReplaceAgent(c)
  PROVE  Moved(c)
  <1> DEFINE r == req[c]
             row == Patched(local[c].seen, r)
             T == [Mem(c).agents EXCEPT ![r.agent] = row]
  <1>1. r \in UpdateRequest /\ local[c].seen \in AgentRow /\ pc[c] # "idle"
    BY DEF ReplaceAgent, At, TypeInv, CallOK
  <1>2. row \in AgentRow
    BY <1>1, PatchedRow
  <1>3. Sound(Mem(c))
    BY Homed DEF TypeInv, Mem
  <1>4. IsTable(Mem(c).agents, AgentId, AgentRow)
    BY <1>3 DEF Sound, IsSnapshot
  <1>5. Created(c, [Mem(c) EXCEPT !.agents = T])
    BY DEF ReplaceAgent, Created
  <1> HIDE DEF row
  <1>6. IsTable(T, AgentId, AgentRow)
    BY <1>2, <1>4 DEF IsTable
  <1> HIDE DEF T
  <1> QED
    BY <1>1, <1>3, <1>5, <1>6, NewResources, CreatedMoves DEF ReplaceAgent

(* The row that a registration puts into the table.                        *)
Registered(r) == [status |-> r.status, named |-> r.agent, hosted |-> r.hosted]

LEMMA RegisterMoves ==
  ASSUME TypeInv, NEW c \in Call, Register(c)
  PROVE  Moved(c)
  <1> DEFINE T == Put(Mem(c).agents, req[c].agent, Registered(req[c]))
  <1>1. req[c].agent \in AgentId /\ Registered(req[c]) \in AgentRow /\ pc[c] # "idle"
    BY RunAsked DEF Register, Asked, Registered, RegisterRequest, AgentRow
  <1>2. Sound(Mem(c))
    BY Homed DEF TypeInv, Mem
  <1>3. IsTable(T, AgentId, AgentRow)
    BY <1>1, <1>2, PutTable DEF Sound, IsSnapshot
  <1>4. Refused(c) \/ Created(c, [Mem(c) EXCEPT !.agents = T])
    BY DEF Register, Registered
  <1> HIDE DEF T
  <1> QED
    BY <1>1, <1>2, <1>3, <1>4, NewResources, CreatedMoves DEF Register

LEMMA CreateGrantMoves ==
  ASSUME TypeInv, NEW c \in Call, CreateGrant(c)
  PROVE  Moved(c)
  <1> DEFINE g == req[c].id
             T == Put(Mem(c).grants, g, Grant[g].status)
  <1>1. g \in GrantId /\ Grant[g].status \in GrantStatus /\ pc[c] # "idle"
    BY RunAsked, VarrAssumption DEF CreateGrant, Asked, GrantRequest, GrantRow
  <1>2. Sound(Mem(c))
    BY Homed DEF TypeInv, Mem
  <1>3. Refused(c) \/ (g \notin DOMAIN Mem(c).grants /\ Created(c, [Mem(c) EXCEPT !.grants = T]))
    BY DEF CreateGrant
  <1> HIDE DEF g
  <1>4. IsTable(T, GrantId, GrantStatus)
    BY <1>1, <1>2, PutTable DEF Sound, IsSnapshot
  <1>5. g \notin DOMAIN Mem(c).grants => RowsKept(Mem(c).grants, T)
    BY PutRow
  <1> HIDE DEF T
  <1> QED
    BY <1>1, <1>2, <1>3, <1>4, <1>5, NewResources, CreatedMoves DEF CreateGrant, RowsKept

LEMMA RevokeMoves ==
  ASSUME TypeInv, NEW c \in Call, Revoke(c)
  PROVE  Moved(c)
  <1> DEFINE g == req[c].id
             T == [Mem(c).grants EXCEPT ![g] = "revoked"]
  <1>1. pc[c] # "idle"
    BY DEF Revoke, Asked
  <1>2. Sound(Mem(c))
    BY Homed DEF TypeInv, Mem
  <1>3. Refused(c) \/ Created(c, [Mem(c) EXCEPT !.grants = T])
    BY DEF Revoke
  <1>4. IsTable(Mem(c).grants, GrantId, GrantStatus)
    BY <1>2 DEF Sound, IsSnapshot
  <1> HIDE DEF g
  <1>5. /\ IsTable(T, GrantId, GrantStatus)
        /\ \A h \in DOMAIN Mem(c).grants :
             h \in DOMAIN T /\ (Mem(c).grants[h] # "active" => T[h] # "active")
    BY <1>4 DEF IsTable, GrantStatus
  <1> HIDE DEF T
  <1> QED
    BY <1>1, <1>2, <1>3, <1>5, NewResources, CreatedMoves DEF Revoke

LEMMA CreateContextMoves ==
  ASSUME TypeInv, NEW c \in Call, CreateContext(c) \/ CreateWorkflow(c)
  PROVE  Moved(c)
  <1>1. pc[c] # "idle"
    BY DEF CreateContext, CreateWorkflow, Asked
  <1>2. Sound(Mem(c))
    BY Homed DEF TypeInv, Mem
  <1>3. CASE CreateContext(c)
    <2> DEFINE T == Mem(c).contexts \cup {req[c].id}
    <2>1. Refused(c) \/ Created(c, [Mem(c) EXCEPT !.contexts = T])
      BY <1>3 DEF CreateContext
    <2>2. T \subseteq ContextId
      BY <1>2, <1>3, RunAsked DEF CreateContext, Sound, IsSnapshot
    <2> HIDE DEF T
    <2> QED
      BY <1>1, <1>2, <1>3, <2>1, <2>2, NewResources, CreatedMoves DEF CreateContext
  <1>4. CASE CreateWorkflow(c)
    <2> DEFINE T == Mem(c).workflows \cup {req[c].id}
    <2>1. Refused(c) \/ Created(c, [Mem(c) EXCEPT !.workflows = T])
      BY <1>4 DEF CreateWorkflow
    <2>2. T \subseteq WorkflowId
      BY <1>2, <1>4, RunAsked DEF CreateWorkflow, Sound, IsSnapshot
    <2> HIDE DEF T
    <2> QED
      BY <1>1, <1>2, <1>4, <2>1, <2>2, NewResources, CreatedMoves DEF CreateWorkflow
  <1> QED
    BY <1>3, <1>4

(* Every step of a call within its process.                                *)
LEMMA StepMoves ==
  ASSUME TypeInv, NEW c \in Call, Run(c) \/ Submit(c) \/ Administer(c)
  PROVE  Moved(c)
  <1>1. CASE Run(c)
    BY <1>1, LoadWorkflowMoves, ResolveAgentMoves, ReadContextMoves, CheckCapabilitiesMoves,
       ExecuteMoves, CountReceiptsMoves, InsertReceiptMoves, LoseReceiptMoves DEF Run
  <1>2. CASE Submit(c)
    BY <1>2, FindReceiptMoves, StoreFeedbackMoves, CountSignalsMoves, ReadNamespaceMoves,
       EmitSignalMoves DEF Submit
  <1>3. CASE Administer(c)
    BY <1>3, ReadAgentMoves, ReplaceAgentMoves, RegisterMoves, CreateGrantMoves,
       RevokeMoves, CreateContextMoves DEF Administer
  <1> QED
    BY <1>1, <1>2, <1>3

-----------------------------------------------------------------------------
(* The other steps: a process starts, saves, or is killed; time passes.    *)

LEMMA ArriveTyped ==
  ASSUME TypeInv, NEW c \in Call, NEW r \in ServerRequests, Arrive(c, r)
  PROVE  TypeInv'
  <1>1. r \in Request /\ ~Cli(c)
    BY VarrAssumption DEF Arrive
  <1>2. EndedGrants(Mem(c)) \subseteq GrantId
    BY Homed DEF TypeInv, EndedGrants, Mem, Sound, IsSnapshot, IsTable
  <1>3. /\ pc' \in [Call -> Label] /\ pc'[c] = "ready" /\ req'[c] = r
        /\ \A d \in Call \ {c} : pc'[d] = pc[d] /\ req'[d] = req[d]
        /\ DOMAIN req' = Call /\ home' = home /\ mem' = mem /\ local' = local
    BY DEF Arrive, Goto, TypeInv, Label
  <1>4. CallOK(c)' /\ Requested(c)'
    BY <1>1, <1>3 DEF CallOK, Requested, RunLabel, SubmitLabel, SaveLabel, Cli
  <1>5. \A d \in Call \ {c} : CallOK(d)' /\ Requested(d)'
    BY <1>3 DEF TypeInv, CallOK, Requested, Cli, Mem
  <1>6. dead' \in [Call -> SUBSET GrantId]
    BY <1>2 DEF Arrive, TypeInv
  <1>7. down' \subseteq Call /\ met' \subseteq Call
    BY DEF Arrive, TypeInv, SameKind
  <1> QED
    BY <1>3, <1>4, <1>5, <1>6, <1>7 DEF TypeInv, Arrive

LEMMA LoadTyped ==
  ASSUME TypeInv, NEW c \in Call, NEW r \in CliRequests, Load(c, r)
  PROVE  TypeInv'
  <1> DEFINE s == IF file = Torn \/ r.op = "init" THEN EmptySnapshot ELSE file
  <1>1. r \in Request /\ r.op # "update"
    BY VarrAssumption
  <1>2. Sound(s)
    BY EmptySound DEF TypeInv
  <1>3. PICK label \in {"returned", "ready"} : Goto(c, label)
    BY DEF Load
  <1>4. /\ pc' \in [Call -> Label] /\ pc'[c] = label /\ req'[c] = r
        /\ \A d \in Call \ {c} : pc'[d] = pc[d] /\ req'[d] = req[d]
        /\ DOMAIN req' = Call /\ home' = home /\ local' = local /\ Cli(c)
    BY <1>3 DEF Load, Goto, TypeInv, Label
  <1>5. /\ mem' = [mem EXCEPT ![c] = s]
        /\ dead' = [dead EXCEPT ![c] = EndedGrants(s)]
    BY DEF Load
  <1>6. EndedGrants(s) \subseteq GrantId
    BY <1>2 DEF TypeInv, EndedGrants, Sound, IsSnapshot, IsTable
  <1> HIDE DEF s
  <1>7. CallOK(c)' /\ Requested(c)'
    BY <1>1, <1>4 DEF CallOK, Requested, RunLabel, SubmitLabel, SaveLabel, Cli
  <1>8. \A d \in Call \ {c} : Mem(d)' = Mem(d)
    BY <1>4, <1>5, Homed DEF Mem, TypeInv
  <1>9. \A d \in Call \ {c} : CallOK(d)' /\ Requested(d)'
    BY <1>4, <1>8 DEF TypeInv, CallOK, Requested, Cli
  <1>10. DOMAIN mem' = Process /\ \A p \in Process : Sound(mem'[p])
    BY <1>2, <1>5 DEF TypeInv
  <1>11. dead' \in [Call -> SUBSET GrantId] /\ raced' \in BOOLEAN
    BY <1>5, <1>6 DEF TypeInv, Load
  <1> QED
    BY <1>4, <1>7, <1>9, <1>10, <1>11 DEF TypeInv, Load

LEMMA TruncateTyped ==
  ASSUME TypeInv, NEW c \in Call, Truncate(c)
  PROVE  TypeInv'
  <1>1. /\ pc' \in [Call -> Label] /\ file' = Torn
        /\ \A d \in Call : pc'[d] = pc[d] \/ (pc'[d] = "writing" /\ pc[d] \in SaveLabel)
    BY DEF Truncate, At, TypeInv, Label, SaveLabel
  <1>2. \A d \in Call : CallOK(d)' /\ Requested(d)'
    BY <1>1 DEF TypeInv, CallOK, Requested, Cli, Mem, Truncate, RunLabel, SubmitLabel, SaveLabel
  <1> QED
    BY <1>1, <1>2 DEF TypeInv, Truncate, history

(* A CLI process ends.                                                     *)
LEMMA ExitTyped ==
  ASSUME TypeInv, NEW c \in Call, Cli(c), Exit(c), UNCHANGED <<home, req, local>>,
         pc' \in [Call -> Label], pc'[c] \in {"done", "killed"}, pc[c] # "idle",
         \A d \in Call \ {c} :
           pc'[d] = pc[d] \/ (pc'[d] \in SaveLabel /\ pc[d] \in SaveLabel)
  PROVE  /\ \A d \in Call : CallOK(d)' /\ Requested(d)'
         /\ DOMAIN mem' = Process /\ \A p \in Process : Sound(mem'[p])
  <1>1. \A d \in Call \ {c} : Mem(d)' = Mem(d)
    BY Homed DEF Mem, TypeInv, Exit
  <1>2. CallOK(c)' /\ Requested(c)'
    BY DEF TypeInv, CallOK, Requested, RunLabel, SubmitLabel, SaveLabel, Cli
  <1>3. ASSUME NEW d \in Call \ {c} PROVE CallOK(d)' /\ Requested(d)'
    BY <1>1 DEF TypeInv, CallOK, Requested, Cli, RunLabel, SubmitLabel, SaveLabel
  <1>4. DOMAIN mem' = Process /\ \A p \in Process : Sound(mem'[p])
    BY EmptySound DEF TypeInv, Exit
  <1> QED
    BY <1>2, <1>3, <1>4

LEMMA WriteTyped ==
  ASSUME TypeInv, NEW c \in Call, Write(c)
  PROVE  TypeInv'
  <1>1. Cli(c) /\ Sound(mem[c]) /\ pc[c] # "idle"
    <2>1. pc[c] \in SaveLabel
      BY DEF Write, SaveLabel
    <2> QED
      BY <2>1, Homed DEF TypeInv, CallOK, Cli, SaveLabel
  <1>2. /\ pc' \in [Call -> Label] /\ pc'[c] = "done"
        /\ \A d \in Call \ {c} :
             pc'[d] = pc[d] \/ (pc'[d] \in SaveLabel /\ pc[d] \in SaveLabel)
    BY DEF Write, TypeInv, Label, Ended, SaveLabel
  <1>3. /\ \A d \in Call : CallOK(d)' /\ Requested(d)'
        /\ DOMAIN mem' = Process /\ \A p \in Process : Sound(mem'[p])
    BY <1>1, <1>2, ExitTyped DEF Write
  <1>4. file' # Torn => Sound(file')
    BY <1>1 DEF Write
  <1> QED
    BY <1>2, <1>3, <1>4 DEF TypeInv, Write, history

LEMMA KillTyped ==
  ASSUME TypeInv, NEW c \in Call, Kill(c)
  PROVE  TypeInv'
  <1>1. Cli(c) /\ pc[c] # "idle"
    BY DEF Kill, UnderWay
  <1>2. /\ pc' \in [Call -> Label] /\ pc'[c] = "killed"
        /\ \A d \in Call \ {c} : pc'[d] = pc[d]
    BY DEF Kill, Goto, TypeInv, Label, Ended
  <1>3. /\ \A d \in Call : CallOK(d)' /\ Requested(d)'
        /\ DOMAIN mem' = Process /\ \A p \in Process : Sound(mem'[p])
    BY <1>1, <1>2, ExitTyped DEF Kill
  <1>4. file' # Torn => Sound(file')
    BY DEF Kill, TypeInv
  <1>5. raced' \in BOOLEAN
    BY DEF Kill
  <1> QED
    BY <1>2, <1>3, <1>4, <1>5 DEF TypeInv, Kill

LEMMA ExpireTyped ==
  ASSUME TypeInv, NEW g \in GrantId, Expire(g)
  PROVE  TypeInv'
  <1>1. UNCHANGED <<home, mem, file, pc, req, local, reply, history>> /\ past' \subseteq GrantId
    BY DEF Expire, TypeInv
  <1>2. \A c \in Call : CallOK(c)' /\ Requested(c)'
    BY <1>1 DEF TypeInv, CallOK, Requested, Cli, Mem
  <1> QED
    BY <1>1, <1>2 DEF TypeInv, history

LEMMA StutterTyped ==
  ASSUME TypeInv, UNCHANGED vars
  PROVE  TypeInv'
  <1>1. \A c \in Call : CallOK(c)' /\ Requested(c)'
    BY DEF TypeInv, CallOK, Requested, Cli, Mem, vars
  <1> QED
    BY <1>1 DEF TypeInv, vars

LEMMA NextTyped == TypeInv /\ [Next]_vars => TypeInv'
  <1> SUFFICES ASSUME TypeInv, [Next]_vars PROVE TypeInv'
    OBVIOUS
  <1>1. ASSUME NEW c \in Call, NEW r \in ServerRequests, Arrive(c, r) PROVE TypeInv'
    BY <1>1, ArriveTyped
  <1>2. ASSUME NEW c \in Call, NEW r \in CliRequests, Load(c, r) PROVE TypeInv'
    BY <1>2, LoadTyped
  <1>3. ASSUME NEW c \in Call, Run(c) \/ Submit(c) \/ Administer(c) PROVE TypeInv'
    BY <1>3, StepMoves, MovedKeeps
  <1>4. ASSUME NEW c \in Call, Truncate(c) \/ Write(c) \/ Kill(c) PROVE TypeInv'
    BY <1>4, TruncateTyped, WriteTyped, KillTyped
  <1>5. ASSUME NEW g \in GrantId, Expire(g) PROVE TypeInv'
    BY <1>5, ExpireTyped
  <1>6. CASE UNCHANGED vars
    BY <1>6, StutterTyped
  <1> QED
    BY <1>1, <1>2, <1>3, <1>4, <1>5, <1>6 DEF Next

(* The inductive invariant of the types and numbers.                       *)
THEOREM TypesAndNumbers == Spec => []TypeInv
  BY InitTypeInv, NextTyped, PTL DEF Spec

(* Every variable of Varr keeps its type.                                  *)
THEOREM TypeCorrect == Spec => []TypeOK
  <1>1. TypeInv => TypeOK
    BY DEF TypeInv, TypeOK, Sound, LocalRow, CallOK
  <1> QED
    BY <1>1, TypesAndNumbers, PTL

(* Although ids are drawn from counts that may be out of date, no process  *)
(* and no workspace ever has a gap in its receipts or signals.             *)
THEOREM Numbered == Spec => []WellNumbered
  <1>1. TypeInv => WellNumbered
    BY CountNumbers DEF TypeInv, WellNumbered, Snapshots, Sound
  <1> QED
    BY <1>1, TypesAndNumbers, PTL

-----------------------------------------------------------------------------
(* Evidence is append-only.                                                *)

(* What a process with the call c holds is there after the step, too.      *)
KeptFor(c) ==
  /\ RowsKept(Mem(c).receipts, mem'[home[c]].receipts)
  /\ RowsKept(Mem(c).feedback, mem'[home[c]].feedback)
  /\ RowsKept(Mem(c).signals, mem'[home[c]].signals)

LEMMA NextKeeps ==
  ASSUME TypeInv, [Next]_vars, NEW d \in Call,
         ~Cli(d) \/ (UnderWay(d) /\ UnderWay(d)')
  PROVE  KeptFor(d)
  <1>1. ASSUME mem'[home[d]] = mem[home[d]] PROVE KeptFor(d)
    BY <1>1 DEF KeptFor, RowsKept, Mem
  <1>2. ASSUME NEW c \in Call, NEW r, Arrive(c, r) PROVE KeptFor(d)
    BY <1>1, <1>2 DEF Arrive
  <1>3. ASSUME NEW c \in Call, NEW r, Load(c, r) PROVE KeptFor(d)
    <2>1. home[d] # c
      BY <1>3, Homed DEF Load, Cli, At, UnderWay
    <2> QED
      BY <1>1, <1>3, <2>1, Homed DEF Load, TypeInv
  <1>4. ASSUME NEW c \in Call, Run(c) \/ Submit(c) \/ Administer(c) PROVE KeptFor(d)
    <2>1. Moved(c)
      BY <1>4, StepMoves
    <2>2. CASE home[d] = home[c]
      BY <2>1, <2>2 DEF Moved, Grown, KeptFor, Mem
    <2>3. CASE home[d] # home[c]
      BY <1>1, <2>1, <2>3, Homed DEF Moved
    <2> QED
      BY <2>2, <2>3
  <1>5. ASSUME NEW c \in Call, Truncate(c) PROVE KeptFor(d)
    BY <1>1, <1>5 DEF Truncate
  <1>6. ASSUME NEW c \in Call, Write(c) \/ Kill(c) PROVE KeptFor(d)
    <2>1. pc'[c] \in {"done", "killed"} /\ Exit(c) /\ Cli(c)
      <3>1. CASE Write(c)
        BY <3>1 DEF Write, TypeInv, CallOK, SaveLabel
      <3>2. CASE Kill(c)
        BY <3>2 DEF Kill, Goto, TypeInv
      <3> QED
        BY <1>6, <3>1, <3>2
    <2>2. home[d] # c
      BY <2>1, Homed DEF Cli, UnderWay, Ended
    <2> QED
      BY <1>1, <2>1, <2>2, Homed DEF Exit, TypeInv
  <1>7. ASSUME NEW g \in GrantId, Expire(g) PROVE KeptFor(d)
    BY <1>1, <1>7 DEF Expire
  <1>8. CASE UNCHANGED vars
    BY <1>1, <1>8 DEF vars
  <1> QED
    BY <1>2, <1>3, <1>4, <1>5, <1>6, <1>7, <1>8 DEF Next

(* In the memory of a process in use no receipt, feedback or signal is     *)
(* ever changed or removed.                                                *)
THEOREM EvidenceIsAppendOnly == Spec => EvidenceKept
  <1>1. TypeInv /\ [Next]_vars =>
          [\A c \in Call : ~Cli(c) \/ (UnderWay(c) /\ UnderWay(c)') =>
             \A field \in {"receipts", "feedback", "signals"} :
               \A i \in DOMAIN Mem(c)[field] :
                 /\ i \in DOMAIN mem'[home[c]][field]
                 /\ mem'[home[c]][field][i] = Mem(c)[field][i]]_vars
    BY NextKeeps DEF KeptFor, RowsKept
  <1> QED
    BY <1>1, TypesAndNumbers, PTL DEF Spec, EvidenceKept

-----------------------------------------------------------------------------
(***************************************************************************)
(* What the orchestrator of Varr runs: only within the bounds of the       *)
(* agent, its grants and contexts, and never for an agent that stays       *)
(* suspended. The proofs rest on the types and frames above.               *)
(***************************************************************************)

(* What a step that is not its own may do to a call.                       *)
Aside(c) ==
  /\ home' = home /\ req'[c] = req[c] /\ local'[c] = local[c]
  /\ reply'[c] = reply[c] /\ dead'[c] = dead[c]
  /\ pc'[c] = pc[c] \/ (pc[c] \in SaveLabel /\ pc'[c] \in SaveLabel)
  /\ (c \in down') = (c \in down) /\ met \subseteq met'
  /\ past \subseteq past'
  /\ Grown(Mem(c), Mem(c)')

(* A step of a call itself.                                                *)
Own(c) ==
  \/ \E r \in ServerRequests : Arrive(c, r)
  \/ \E r \in CliRequests : Load(c, r)
  \/ Run(c) \/ Submit(c) \/ Administer(c)
  \/ Truncate(c) \/ Write(c) \/ Kill(c)

LEMMA AsideOrOwn ==
  ASSUME TypeInv, [Next]_vars, NEW c \in Call
  PROVE  Aside(c) \/ Own(c)
  <1> SUFFICES ASSUME ~Own(c) PROVE Aside(c)
    OBVIOUS
  <1>1. ASSUME NEW d \in Call \ {c}, NEW r \in ServerRequests, Arrive(d, r) PROVE Aside(c)
    BY <1>1, GrownSelf DEF Arrive, Aside, Goto, TypeInv, Mem, SameKind
  <1>2. ASSUME NEW d \in Call \ {c}, NEW r \in CliRequests, Load(d, r) PROVE Aside(c)
    <2>1. Mem(c)' = Mem(c)
      BY <1>2, Homed DEF Load, Mem, TypeInv
    <2> QED
      BY <1>2, <2>1, GrownSelf DEF Load, Aside, Goto, TypeInv
  <1>3. ASSUME NEW d \in Call \ {c}, Run(d) \/ Submit(d) \/ Administer(d) PROVE Aside(c)
    <2>1. Moved(d)
      BY <1>3, StepMoves
    <2>2. Grown(Mem(c), Mem(c)')
      <3>1. CASE home[c] = home[d]
        BY <2>1, <3>1 DEF Moved, Mem
      <3>2. CASE home[c] # home[d]
        BY <2>1, <3>2, Homed, GrownSelf DEF Moved, Mem
      <3> QED
        BY <3>1, <3>2
    <2> QED
      BY <2>1, <2>2 DEF Moved, Aside, history
  <1>4. ASSUME NEW d \in Call \ {c}, Truncate(d) PROVE Aside(c)
    BY <1>4, GrownSelf DEF Truncate, Aside, TypeInv, Mem, At, SaveLabel, history
  <1>5. ASSUME NEW d \in Call \ {c}, Write(d) PROVE Aside(c)
    <2>1. Mem(c)' = Mem(c)
      BY <1>5, Homed DEF Write, Exit, Mem, TypeInv, CallOK, SaveLabel, Cli
    <2> QED
      BY <1>5, <2>1, GrownSelf DEF Write, Aside, TypeInv, SaveLabel, history
  <1>6. ASSUME NEW d \in Call \ {c}, Kill(d) PROVE Aside(c)
    <2>1. Mem(c)' = Mem(c)
      BY <1>6, Homed DEF Kill, Exit, Mem, TypeInv
    <2> QED
      BY <1>6, <2>1, GrownSelf DEF Kill, Aside, Goto, TypeInv
  <1>7. ASSUME NEW g \in GrantId, Expire(g) PROVE Aside(c)
    BY <1>7, GrownSelf DEF Expire, Aside, TypeInv, Mem, history
  <1>8. CASE UNCHANGED vars
    BY <1>8, GrownSelf DEF Aside, vars, Mem
  <1> QED
    BY <1>1, <1>2, <1>3, <1>4, <1>5, <1>6, <1>7, <1>8 DEF Next, Own

(* Feedback and administration leave what runs depend on alone.            *)
LEMMA OtherKinds ==
  ASSUME TypeInv, NEW c \in Call, Submit(c) \/ Administer(c)
  PROVE  /\ pc'[c] \in SubmitLabel \cup {"replace", "thrown", "done", "returned"}
         /\ local'[c].went = local[c].went /\ local'[c].caps = local[c].caps
         /\ ReadAgent(c) \/ local'[c].seen = local[c].seen
         /\ reply' = reply /\ req[c] \notin RunRequest /\ req[c].op # "run"
  <1>1. CASE Submit(c)
    <2>1. req[c] \in FeedbackRequest
      BY <1>1, RunAsked DEF Submit, FindReceipt, StoreFeedback, CountSignals, ReadNamespace,
         EmitSignal, At, TypeInv, CallOK, SubmitLabel
    <2>2. /\ pc'[c] \in SubmitLabel \cup {"replace", "thrown", "done", "returned"}
          /\ reply' = reply
      BY <1>1 DEF Submit, FindReceipt, StoreFeedback, CountSignals, ReadNamespace,
         EmitSignal, Goto, Return, Throw, SubmitLabel, TypeInv
    <2>3. /\ local'[c].went = local[c].went /\ local'[c].caps = local[c].caps
          /\ ReadAgent(c) \/ local'[c].seen = local[c].seen
      BY <1>1 DEF Submit, FindReceipt, StoreFeedback, CountSignals, ReadNamespace,
         EmitSignal, TypeInv, LocalRow
    <2> QED
      BY <2>1, <2>2, <2>3 DEF FeedbackRequest, RunRequest
  <1>2. CASE Administer(c)
    <2>1. req[c].op \notin {"run"}
      BY <1>2 DEF Administer, ReadAgent, ReplaceAgent, Register, CreateGrant, Revoke,
         CreateContext, CreateWorkflow, Asked, At, TypeInv, CallOK, UpdateRequest
    <2>2. /\ pc'[c] \in SubmitLabel \cup {"replace", "thrown", "done", "returned"}
          /\ reply' = reply
      BY <1>2 DEF Administer, ReadAgent, ReplaceAgent, Register, CreateGrant, Revoke,
         CreateContext, CreateWorkflow, Created, Refused, Goto, Return, Throw, TypeInv
    <2>3. /\ local'[c].went = local[c].went /\ local'[c].caps = local[c].caps
          /\ ReadAgent(c) \/ local'[c].seen = local[c].seen
      <3>1. CASE ReadAgent(c)
        BY <3>1 DEF ReadAgent, TypeInv, LocalRow
      <3>2. CASE ~ReadAgent(c)
        BY <1>2, <3>2 DEF Administer, ReplaceAgent, Register, CreateGrant, Revoke,
           CreateContext, CreateWorkflow
      <3> QED
        BY <3>1, <3>2
    <2> QED
      BY <2>1, <2>2, <2>3 DEF RunRequest
  <1> QED
    BY <1>1, <1>2

-----------------------------------------------------------------------------
(* What the adapter may run.                                               *)

WithinBounds(c) ==
  LET r == req[c]  caps == local[c].caps  who == local[c].seen.named IN
  /\ r.agent \in Workflow[r.workflow].agents /\ InBounds(r, who)
  /\ local[c].seen.hosted
  /\ \A x \in Actions(r) :
       /\ Risk[x] \in {"low", "medium"}
       /\ \E g \in caps : Covers(g, x, r)
       /\ \A g \in caps : x \notin Grant[g].approvals
  /\ \A g \in caps : Grant[g].subject = who /\ g \notin dead[c]

(* Each check passed is remembered by where the run stands; grants that    *)
(* had ended when it came are still there, and have still ended.           *)
Bounded(c) ==
  /\ pc[c] \in {"idle", "ready", "agent", "context", "capability", "adapter"} =>
       local[c].went = "none"
  /\ pc[c] \in {"context", "capability", "adapter"} => Admitted(req[c])
  /\ pc[c] = "capability" => InBounds(req[c], local[c].seen.named)
  /\ pc[c] \in {"ready", "agent", "context", "capability"} => dead[c] \subseteq EndedGrants(Mem(c))
  /\ pc[c] = "adapter" \/ local[c].went # "none" => WithinBounds(c)

(* The risk of a set of actions is the highest of theirs.                  *)
LEMMA RiskIsHighest ==
  ASSUME NEW acts \in SUBSET Action
  PROVE  /\ RiskOf(acts) \in Level
         /\ \A x \in acts : Rank[Risk[x]] <= Rank[RiskOf(acts)]
  <1> DEFINE Levels == {"low"} \cup {Risk[x] : x \in acts}
             Highest(l) == l \in Levels /\ \A x \in acts : Rank[Risk[x]] <= Rank[l]
  <1>1. \A x \in acts : Risk[x] \in {"low", "medium", "high", "critical"}
    BY VarrAssumption DEF Level
  <1>2. /\ Rank["low"] = 1 /\ Rank["medium"] = 2
        /\ Rank["high"] = 3 /\ Rank["critical"] = 4
    BY DEF Rank
  <1>3. \E l \in Level : Highest(l)
    <2>1. CASE "critical" \in Levels
      BY <1>1, <1>2, <2>1 DEF Level
    <2>2. CASE "critical" \notin Levels /\ "high" \in Levels
      BY <1>1, <1>2, <2>2 DEF Level
    <2>3. CASE "critical" \notin Levels /\ "high" \notin Levels /\ "medium" \in Levels
      BY <1>1, <1>2, <2>3 DEF Level
    <2>4. CASE Levels \cap {"critical", "high", "medium"} = {}
      BY <1>1, <1>2, <2>4 DEF Level
    <2> QED
      BY <2>1, <2>2, <2>3, <2>4
  <1>4. RiskOf(acts) = CHOOSE l \in Level : Highest(l)
    BY DEF RiskOf
  <1> HIDE DEF Highest
  <1>5. RiskOf(acts) \in Level /\ Highest(RiskOf(acts))
    BY <1>3, <1>4
  <1> QED
    BY <1>5 DEF Highest

(* Without a high or critical risk, every action is of low or medium risk. *)
LEMMA ModerateActions ==
  ASSUME NEW acts \in SUBSET Action, RiskOf(acts) \notin {"high", "critical"}
  PROVE  \A x \in acts : Risk[x] \in {"low", "medium"}
  <1>1. \A x \in acts : Risk[x] \in {"low", "medium", "high", "critical"}
    BY VarrAssumption DEF Level
  <1>2. RiskOf(acts) \in {"low", "medium"} /\ \A x \in acts : Rank[Risk[x]] <= Rank[RiskOf(acts)]
    BY RiskIsHighest DEF Level
  <1> QED
    BY <1>1, <1>2 DEF Rank

LEMMA RunActions ==
  ASSUME NEW r \in RunRequest
  PROVE  Actions(r) \in SUBSET Action
  BY VarrAssumption DEF Actions, RunRequest, WorkflowRow, Step

LEMMA BoundedAside ==
  ASSUME TypeInv, NEW c \in Call, Aside(c), Bounded(c)
  PROVE  Bounded(c)'
  <1>1. EndedGrants(Mem(c)) \subseteq EndedGrants(Mem(c))'
    BY DEF Aside, Grown, EndedGrants
  <1> QED
    BY <1>1 DEF Aside, Bounded, WithinBounds, SaveLabel

(* The capabilities a run goes on with are bounds on it.                   *)
LEMMA BoundedCheck ==
  ASSUME TypeInv, NEW c \in Call, Bounded(c), CheckCapabilities(c)
  PROVE  Bounded(c)'
  <1> DEFINE r == req[c]
  <1>1. /\ r \in RunRequest /\ Admitted(r) /\ InBounds(r, local[c].seen.named)
        /\ local[c].went = "none"
        /\ dead[c] \subseteq EndedGrants(Mem(c)) /\ req' = req /\ dead' = dead
    BY DEF CheckCapabilities, At, TypeInv, CallOK, RunLabel, Bounded, Elsewhere, history
  <1>2. CASE \E status \in Outcome : Finish(c, status)
    <2>1. pc'[c] = "count" /\ local'[c].went = local[c].went
      BY <1>2 DEF Finish, Goto, TypeInv, LocalRow
    <2> QED
      BY <1>1, <2>1 DEF Bounded, WithinBounds
  <1>3. ASSUME NEW pick \in [Actions(r) -> LiveGrants(c)], NEW caps,
               caps = {pick[x] : x \in Actions(r)},
               \A x \in Actions(r) : Covers(pick[x], x, r),
               ~NeedsApproval(caps, r), local[c].seen.hosted,
               Goto(c, "adapter"), local' = [local EXCEPT ![c].caps = caps]
        PROVE  Bounded(c)'
    <2>1. /\ pc'[c] = "adapter" /\ local'[c].caps = caps
          /\ local'[c].seen = local[c].seen /\ local'[c].went = local[c].went
      BY <1>3 DEF Goto, TypeInv, LocalRow
    <2>2. \A x \in Actions(r) : Risk[x] \in {"low", "medium"}
      BY <1>1, <1>3, RunActions, ModerateActions DEF Admitted, NeedsApproval
    <2>3. \A g \in caps : Grant[g].subject = local[c].seen.named /\ g \notin dead[c]
      BY <1>1, <1>3 DEF LiveGrants, EndedGrants
    <2>4. WithinBounds(c)'
      BY <1>1, <1>3, <2>1, <2>2, <2>3 DEF WithinBounds, Admitted, NeedsApproval
    <2> QED
      BY <1>1, <2>1, <2>4 DEF Bounded
  <1> QED
    BY <1>2, <1>3 DEF CheckCapabilities, Outcome

LEMMA BoundedRun ==
  ASSUME TypeInv, NEW c \in Call, Bounded(c), Run(c)
  PROVE  Bounded(c)'
  <1>1. req' = req /\ dead' = dead /\ home' = home /\ past' = past /\ pc[c] # "idle"
    BY StepMoves DEF Moved, history
  <1>2. ASSUME pc'[c] \in {"count", "insert", "thrown", "done", "returned"},
               local'[c].caps = local[c].caps, local'[c].seen = local[c].seen,
               local'[c].went = local[c].went \/ pc[c] = "adapter"
        PROVE  Bounded(c)'
    BY <1>1, <1>2 DEF Bounded, WithinBounds
  <1>3. ASSUME NEW status, Finish(c, status)
        PROVE  Bounded(c)'
    BY <1>2, <1>3 DEF Finish, Goto, TypeInv, LocalRow
  <1>4. CASE LoadWorkflow(c)
    <2>1. CASE Goto(c, "agent") /\ UNCHANGED local
      BY <1>1, <1>4, <2>1 DEF LoadWorkflow, Asked, Goto, TypeInv, Bounded, WithinBounds, Mem, EndedGrants
    <2> QED
      BY <1>3, <1>4, <2>1 DEF LoadWorkflow
  <1>5. CASE ResolveAgent(c)
    <2>1. ASSUME NEW row, Goto(c, "context"), Admitted(req[c]),
                 local' = [local EXCEPT ![c].seen = row]
          PROVE  Bounded(c)'
      <3>1. pc'[c] = "context" /\ local'[c].went = local[c].went
        BY <2>1 DEF Goto, TypeInv, LocalRow
      <3> QED
        BY <1>1, <1>5, <2>1, <3>1 DEF ResolveAgent, At, Bounded, Mem, EndedGrants
    <2> QED
      BY <1>3, <1>5, <2>1 DEF ResolveAgent
  <1>6. CASE ReadContext(c)
    <2>1. CASE local' = [local EXCEPT ![c].at = local[c].at + 1] /\ UNCHANGED pc
      <3>1. local'[c].went = local[c].went
        BY <2>1 DEF TypeInv, LocalRow
      <3> QED
        BY <1>1, <1>6, <2>1, <3>1 DEF ReadContext, At, Bounded, Mem, EndedGrants
    <2>2. CASE Goto(c, "capability") /\ UNCHANGED local /\ InBounds(req[c], local[c].seen.named)
      BY <1>1, <1>6, <2>2 DEF ReadContext, At, Goto, TypeInv, Bounded, WithinBounds, Mem, EndedGrants
    <2> QED
      BY <1>3, <1>6, <2>1, <2>2 DEF ReadContext
  <1>7. CASE CheckCapabilities(c)
    BY <1>7, BoundedCheck
  <1>8. CASE Execute(c)
    BY <1>2, <1>8 DEF Execute, At, Goto, TypeInv, LocalRow
  <1>9. CASE CountReceipts(c)
    BY <1>2, <1>9 DEF CountReceipts, Goto, TypeInv, LocalRow
  <1>10. CASE InsertReceipt(c)
    BY <1>2, <1>10 DEF InsertReceipt, Return, Goto, TypeInv
  <1>11. CASE LoseReceipt(c)
    BY <1>2, <1>3, <1>11 DEF LoseReceipt, Throw, Goto, TypeInv
  <1> QED
    BY <1>4, <1>5, <1>6, <1>7, <1>8, <1>9, <1>10, <1>11 DEF Run

LEMMA BoundedOwn ==
  ASSUME TypeInv, NEW c \in Call, Bounded(c), Own(c)
  PROVE  Bounded(c)'
  <1>1. ASSUME NEW r \in ServerRequests, Arrive(c, r) PROVE Bounded(c)'
    <2>1. /\ pc'[c] = "ready" /\ local'[c].went = "none" /\ dead'[c] = EndedGrants(Mem(c))
          /\ UNCHANGED <<home, mem, past>>
      BY <1>1 DEF Arrive, At, Goto, TypeInv, Bounded
    <2> QED
      BY <2>1 DEF Bounded, Mem, EndedGrants
  <1>2. ASSUME NEW r \in CliRequests, Load(c, r) PROVE Bounded(c)'
    <2> DEFINE s == IF file = Torn \/ r.op = "init" THEN EmptySnapshot ELSE file
    <2>1. mem'[home'[c]] = s /\ dead'[c] = EndedGrants(s) /\ past' = past
      BY <1>2, Homed DEF Load, Cli, TypeInv
    <2> HIDE DEF s
    <2>2. pc'[c] \in {"returned", "ready"} /\ local'[c].went = "none"
      BY <1>2 DEF Load, At, Goto, TypeInv, Bounded
    <2> QED
      BY <2>1, <2>2 DEF Bounded, Mem, EndedGrants
  <1>3. CASE Run(c)
    BY <1>3, BoundedRun
  <1>4. CASE Submit(c) \/ Administer(c)
    <2>1. req' = req /\ dead' = dead /\ pc[c] # "idle"
      BY <1>4, StepMoves DEF Moved, history
    <2>2. CASE ReadAgent(c)
      <3>1. pc[c] = "ready" /\ pc'[c] \notin {"adapter", "context", "capability"}
        BY <1>4, <2>2, OtherKinds DEF ReadAgent, Asked, SubmitLabel
      <3> QED
        BY <1>4, <3>1, OtherKinds DEF Bounded, SubmitLabel
    <2>3. CASE ~ReadAgent(c)
      BY <1>4, <2>1, <2>3, OtherKinds DEF Bounded, WithinBounds, SubmitLabel
    <2> QED
      BY <2>2, <2>3
  <1>5. CASE Truncate(c) \/ Write(c) \/ Kill(c)
    <2>1. /\ pc'[c] \in {"writing", "done", "killed"}
          /\ local' = local /\ req' = req /\ dead' = dead
      BY <1>5 DEF Truncate, Write, Kill, At, Goto, TypeInv, history
    <2> QED
      BY <2>1 DEF Bounded, WithinBounds
  <1> QED
    BY <1>1, <1>2, <1>3, <1>4, <1>5 DEF Own

-----------------------------------------------------------------------------
(* Who changes which table.                                                *)

LEMMA Stored ==
  ASSUME TypeInv, NEW c \in Call, NEW s, Store(c, s)
  PROVE  mem'[home[c]] = s
  BY Homed DEF TypeInv, Store

LEMMA StepTables ==
  ASSUME TypeInv, NEW c \in Call, Run(c) \/ Submit(c) \/ Administer(c)
  PROVE  /\ InsertReceipt(c) \/ mem'[home[c]].receipts = Mem(c).receipts
         /\ StoreFeedback(c) \/ mem'[home[c]].feedback = Mem(c).feedback
         /\ EmitSignal(c) \/ mem'[home[c]].signals = Mem(c).signals
         /\ ReplaceAgent(c) \/ Register(c) \/ mem'[home[c]].agents = Mem(c).agents
  <1> DEFINE Fields == {"agents", "grants", "contexts", "workflows", "receipts", "feedback", "signals"}
  <1>1. DOMAIN Mem(c) = Fields
    BY Homed DEF TypeInv, Mem, Sound, IsSnapshot
  <1>2. CASE UNCHANGED mem
    BY <1>2 DEF Mem
  <1>3. ASSUME NEW T, Store(c, [Mem(c) EXCEPT !.receipts = T])
        PROVE  /\ mem'[home[c]].agents = Mem(c).agents
               /\ mem'[home[c]].feedback = Mem(c).feedback
               /\ mem'[home[c]].signals = Mem(c).signals
    BY <1>1, <1>3, Stored
  <1>4. ASSUME NEW T, Store(c, [Mem(c) EXCEPT !.feedback = T])
        PROVE  /\ mem'[home[c]].agents = Mem(c).agents
               /\ mem'[home[c]].receipts = Mem(c).receipts
               /\ mem'[home[c]].signals = Mem(c).signals
    BY <1>1, <1>4, Stored
  <1>5. ASSUME NEW T, Store(c, [Mem(c) EXCEPT !.signals = T])
        PROVE  /\ mem'[home[c]].agents = Mem(c).agents
               /\ mem'[home[c]].receipts = Mem(c).receipts
               /\ mem'[home[c]].feedback = Mem(c).feedback
    BY <1>1, <1>5, Stored
  <1>6. ASSUME NEW T, Store(c, [Mem(c) EXCEPT !.agents = T])
        PROVE  /\ mem'[home[c]].receipts = Mem(c).receipts
               /\ mem'[home[c]].feedback = Mem(c).feedback
               /\ mem'[home[c]].signals = Mem(c).signals
    BY <1>1, <1>6, Stored
  <1>7. ASSUME NEW T, \/ Store(c, [Mem(c) EXCEPT !.grants = T])
                     \/ Store(c, [Mem(c) EXCEPT !.contexts = T])
                     \/ Store(c, [Mem(c) EXCEPT !.workflows = T])
        PROVE  /\ mem'[home[c]].agents = Mem(c).agents
               /\ mem'[home[c]].receipts = Mem(c).receipts
               /\ mem'[home[c]].feedback = Mem(c).feedback
               /\ mem'[home[c]].signals = Mem(c).signals
    BY <1>1, <1>7, Stored
  <1>8. CASE Run(c)
    BY <1>2, <1>3, <1>8 DEF Run, LoadWorkflow, ResolveAgent, ReadContext, CheckCapabilities,
       Execute, CountReceipts, InsertReceipt, LoseReceipt
  <1>9. CASE Submit(c)
    BY <1>2, <1>4, <1>5, <1>9 DEF Submit, FindReceipt, StoreFeedback, CountSignals,
       ReadNamespace, EmitSignal
  <1>10. CASE Administer(c)
    <2>1. CASE ReadAgent(c)
      BY <1>2, <2>1 DEF ReadAgent
    <2>2. CASE ReplaceAgent(c)
      <3> DEFINE T == [Mem(c).agents EXCEPT ![req[c].agent] = Patched(local[c].seen, req[c])]
      <3>1. Store(c, [Mem(c) EXCEPT !.agents = T])
        BY <2>2 DEF ReplaceAgent
      <3> HIDE DEF T
      <3> QED
        BY <1>6, <2>2, <3>1
    <2>3. CASE Register(c)
      BY <1>2, <1>6, <2>3 DEF Register, Created, Refused
    <2>4. CASE CreateGrant(c)
      BY <1>2, <1>7, <2>4 DEF CreateGrant, Created, Refused
    <2>5. CASE Revoke(c)
      <3> DEFINE T == [Mem(c).grants EXCEPT ![req[c].id] = "revoked"]
      <3>1. UNCHANGED mem \/ Store(c, [Mem(c) EXCEPT !.grants = T])
        BY <2>5 DEF Revoke, Created, Refused
      <3> HIDE DEF T
      <3> QED
        BY <1>2, <1>7, <3>1
    <2>6. CASE CreateContext(c) \/ CreateWorkflow(c)
      BY <1>2, <1>7, <2>6 DEF CreateContext, CreateWorkflow, Created, Refused
    <2> QED
      BY <1>10, <2>1, <2>2, <2>3, <2>4, <2>5, <2>6 DEF Administer
  <1> QED
    BY <1>8, <1>9, <1>10

(* How a call comes, acts in its process, and goes.                        *)
Comes(c) == \E r \in CliRequests : Load(c, r)
Acts(c) == Run(c) \/ Submit(c) \/ Administer(c)
Goes(c) == Write(c) \/ Kill(c)

(* The repositories of a process change when it is loaded, by what a call  *)
(* in it does, and when it ends.                                           *)
LEMMA MemChange ==
  ASSUME TypeInv, [Next]_vars, NEW p \in Process
  PROVE  \/ mem'[p] = mem[p]
         \/ \E d \in Call : home[d] = p /\ Acts(d)
         \/ p \in Call /\ Comes(p) /\ mem'[p] \in {EmptySnapshot, file} \ {Torn}
         \/ p \in Call /\ Goes(p) /\ mem'[p] = EmptySnapshot
  <1>1. ASSUME NEW d \in Call, (\E r \in ServerRequests : Arrive(d, r)) \/ Truncate(d)
        PROVE  mem'[p] = mem[p]
    BY <1>1 DEF Arrive, Truncate
  <1>2. ASSUME NEW d \in Call, NEW r \in CliRequests, Load(d, r)
        PROVE  \/ mem'[p] = mem[p]
               \/ p = d /\ mem'[p] \in {EmptySnapshot, file} \ {Torn}
    <2>1. EmptySnapshot # Torn
      <3>1. IsSnapshot(EmptySnapshot)
        BY EmptySound DEF Sound
      <3>2. DOMAIN Torn = {"torn"}
        BY DEF Torn
      <3> QED
        BY <3>1, <3>2 DEF IsSnapshot
    <2> QED
      BY <1>2, <2>1 DEF Load, TypeInv
  <1>3. ASSUME NEW d \in Call, Write(d) \/ Kill(d)
        PROVE  mem'[p] = mem[p] \/ (p = d /\ mem'[p] = EmptySnapshot)
    BY <1>3 DEF Write, Kill, Exit, TypeInv
  <1>4. ASSUME NEW d \in Call, Acts(d), home[d] # p
        PROVE  mem'[p] = mem[p]
    BY <1>4, StepMoves DEF Moved, Acts
  <1>5. CASE (\E g \in GrantId : Expire(g)) \/ UNCHANGED vars
    BY <1>5 DEF Expire, vars
  <1> QED
    BY <1>1, <1>2, <1>3, <1>4, <1>5 DEF Next, Comes, Acts, Goes

LEMMA HomeKept ==
  ASSUME TypeInv, [Next]_vars
  PROVE  home' = home
  <1>1. ASSUME NEW c \in Call, Run(c) \/ Submit(c) \/ Administer(c) PROVE home' = home
    BY <1>1, StepMoves DEF Moved
  <1> QED
    BY <1>1 DEF Next, Arrive, Load, Truncate, Write, Kill, Expire, vars

(* A call is asked once, and rests when it has ended.                      *)
LEMMA AskedOnce ==
  ASSUME TypeInv, [Next]_vars, NEW c \in Call, pc[c] # "idle"
  PROVE  /\ req'[c] = req[c] /\ home' = home /\ pc'[c] # "idle"
         /\ pc[c] \in Ended => pc'[c] = pc[c] /\ local'[c] = local[c] /\ reply'[c] = reply[c]
  <1>1. CASE Aside(c)
    BY <1>1 DEF Aside, SaveLabel, Ended
  <1>2. CASE Run(c) \/ Submit(c) \/ Administer(c)
    <2>1. Moved(c)
      BY <1>2, StepMoves
    <2>2. pc[c] \in {"ready", "replace"} \cup RunLabel \cup SubmitLabel
      BY <1>2 DEF Run, LoadWorkflow, ResolveAgent, ReadContext, CheckCapabilities,
         Execute, CountReceipts, InsertReceipt, LoseReceipt, Submit, FindReceipt, StoreFeedback,
         CountSignals, ReadNamespace, EmitSignal, Administer, ReadAgent, ReplaceAgent, Register,
         CreateGrant, Revoke, CreateContext, CreateWorkflow, At, Asked, RunLabel, SubmitLabel
    <2>3. pc'[c] # "idle"
      <3>1. CASE Run(c)
        BY <2>2, <3>1 DEF Run, LoadWorkflow, ResolveAgent, ReadContext, CheckCapabilities, Execute,
           CountReceipts, InsertReceipt, LoseReceipt, Finish, Goto, Return, Throw, TypeInv,
           RunLabel, SubmitLabel
      <3>2. CASE Submit(c) \/ Administer(c)
        BY <3>2, OtherKinds DEF SubmitLabel
      <3> QED
        BY <1>2, <3>1, <3>2
    <2> QED
      BY <2>1, <2>2, <2>3 DEF Moved, RunLabel, SubmitLabel, Ended
  <1>3. CASE Truncate(c) \/ Write(c) \/ Kill(c)
    BY <1>3 DEF Truncate, Write, Kill, At, Goto, UnderWay, Ended, TypeInv
  <1>4. CASE (\E r \in ServerRequests : Arrive(c, r)) \/ (\E r \in CliRequests : Load(c, r))
    BY <1>4 DEF Arrive, Load, At
  <1> QED
    BY <1>1, <1>2, <1>3, <1>4, AsideOrOwn DEF Own

-----------------------------------------------------------------------------
(* Whose bounds they are: names of agents change by updates only.          *)

(* In the process p, an update of the row of agent a has named it who.     *)
RenamedIn(p, a, who) ==
  \E d \in Call :
    /\ pc[d] = "done" /\ home[d] = p
    /\ req[d].op = "update" /\ req[d].agent = a /\ req[d].named = who

Known(p, a, who) == who = a \/ RenamedIn(p, a, who)

NamesKnown(p, agents) == \A a \in DOMAIN agents : Known(p, a, agents[a].named)

(* A row that a call has read is one of its process.                       *)
SeenKnown(c) ==
  /\ pc[c] = "idle" => local[c].seen = None
  /\ pc[c] \in {"context", "capability", "adapter"} \/ local[c].went # "none" =>
       local[c].seen # None
  /\ local[c].seen # None => Known(home[c], req[c].agent, local[c].seen.named)

OwnNames(agents) == \A a \in DOMAIN agents : agents[a].named = a

NameInv ==
  /\ \A p \in Process : NamesKnown(p, mem[p].agents)
  /\ file # Torn => OwnNames(file.agents)
  /\ \A c \in Call : SeenKnown(c)

LEMMA KnownStays ==
  ASSUME TypeInv, [Next]_vars, NEW p, NEW a, NEW who, Known(p, a, who)
  PROVE  Known(p, a, who)'
  <1>1. CASE RenamedIn(p, a, who)
    <2>1. PICK d \in Call :
            /\ pc[d] = "done" /\ home[d] = p
            /\ req[d].op = "update" /\ req[d].agent = a /\ req[d].named = who
      BY <1>1 DEF RenamedIn
    <2>2. pc'[d] = "done" /\ req'[d] = req[d] /\ home' = home
      BY <2>1, AskedOnce DEF Ended
    <2> QED
      BY <2>1, <2>2 DEF Known, RenamedIn
  <1> QED
    BY <1>1 DEF Known

LEMMA NamesStay ==
  ASSUME TypeInv, [Next]_vars, NEW p, NEW T, NamesKnown(p, T)
  PROVE  NamesKnown(p, T)'
  BY KnownStays DEF NamesKnown

(* Commands of the CLI update no agent: their names are as in the file.    *)
LEMMA CliNames ==
  ASSUME TypeInv, NameInv, NEW c \in Call
  PROVE  OwnNames(mem[c].agents)
  <1> SUFFICES ASSUME NEW a, NEW who, RenamedIn(c, a, who) PROVE FALSE
    BY DEF NameInv, NamesKnown, Known, OwnNames, Process
  <1>1. PICK d \in Call : pc[d] = "done" /\ home[d] = c /\ req[d].op = "update"
    BY DEF RenamedIn
  <1>2. Cli(d)
    BY <1>1, Homed DEF Cli
  <1> QED
    BY <1>1, <1>2 DEF TypeInv, Requested

(* An update gives a row the name it was asked for, or leaves the one that *)
(* it read; a registration gives it its own.                               *)
LEMMA NamesAct ==
  ASSUME TypeInv, NameInv, [Next]_vars, NEW d \in Call, Acts(d),
         NEW p, p = home[d], NEW T, T = mem'[p].agents
  PROVE  NamesKnown(p, T)'
  <1> PICK old : old = Mem(d).agents
    OBVIOUS
  <1>1. /\ NamesKnown(p, old) /\ IsTable(old, AgentId, AgentRow)
        /\ "agents" \in DOMAIN Mem(d)
    BY Homed DEF NameInv, Mem, TypeInv, Sound, IsSnapshot
  <1>2. NamesKnown(p, old)'
    BY <1>1, NamesStay
  <1>3. ASSUME NEW a \in DOMAIN T, NEW who, who = T[a].named PROVE Known(p, a, who)'
    <2>1. CASE T = old
      BY <1>2, <1>3, <2>1 DEF NamesKnown
    <2>2. CASE ReplaceAgent(d)
      <3> PICK row : row = Patched(local[d].seen, req[d])
        OBVIOUS
      <3> PICK t : t = [old EXCEPT ![req[d].agent] = row]
        OBVIOUS
      <3>1. Store(d, [Mem(d) EXCEPT !.agents = t])
        BY <2>2 DEF ReplaceAgent
      <3>2. T = t
        BY <1>1, <3>1, Stored
      <3>3. /\ req[d] \in UpdateRequest /\ local[d].seen \in AgentRow
            /\ ~Cli(d) /\ Return(d) /\ req' = req /\ home' = home
        BY <2>2 DEF ReplaceAgent, At, Elsewhere, TypeInv, CallOK, Requested, UpdateRequest
      <3>4. pc'[d] = "done"
        BY <3>3 DEF Return, Goto, TypeInv
      <3>5. row.named = IF req[d].named = None THEN local[d].seen.named ELSE req[d].named
        BY <3>3, PatchedRow
      <3>6. CASE a # req[d].agent
        BY <1>2, <1>3, <3>2, <3>6 DEF NamesKnown
      <3>7. CASE a = req[d].agent
        <4>1. who = row.named
          BY <1>3, <3>2, <3>7
        <4>2. CASE req[d].named = None
          <5>1. Known(p, a, who)
            BY <3>3, <3>5, <3>7, <4>1, <4>2, VarrAssumption DEF NameInv, SeenKnown
          <5> QED
            BY <5>1, KnownStays
        <4>3. CASE req[d].named # None
          BY <3>3, <3>4, <3>5, <3>7, <4>1, <4>3 DEF Known, RenamedIn, UpdateRequest
        <4> QED
          BY <4>2, <4>3
      <3> QED
        BY <3>6, <3>7
    <2>3. CASE Register(d) /\ T # old
      <3> PICK row : row = Registered(req[d])
        OBVIOUS
      <3> PICK t : t = Put(old, req[d].agent, row)
        OBVIOUS
      <3>1. Store(d, [Mem(d) EXCEPT !.agents = t])
        BY <2>3 DEF Register, Registered, Created, Refused, Mem
      <3>2. T = t
        BY <1>1, <3>1, Stored
      <3>3. row.named = req[d].agent
        BY DEF Registered
      <3> QED
        BY <1>2, <1>3, <3>2, <3>3 DEF NamesKnown, Known, Put
    <2> QED
      BY <2>1, <2>2, <2>3, StepTables DEF Acts
  <1> QED
    BY <1>3 DEF NamesKnown

LEMMA NamesMem ==
  ASSUME TypeInv, NameInv, [Next]_vars, NEW p \in Process
  PROVE  NamesKnown(p, mem[p].agents)'
  <1> PICK T : T = mem'[p].agents
    OBVIOUS
  <1>1. ASSUME NamesKnown(p, T)' PROVE NamesKnown(p, mem[p].agents)'
    BY <1>1 DEF NamesKnown
  <1>2. CASE mem'[p] = mem[p]
    BY <1>1, <1>2, NamesStay DEF NameInv
  <1>3. ASSUME NEW d \in Call, home[d] = p, Acts(d) PROVE NamesKnown(p, T)'
    BY <1>3, NamesAct
  <1>4. CASE mem'[p] = EmptySnapshot
    BY <1>1, <1>4 DEF EmptySnapshot, Nothing, NamesKnown
  <1>5. CASE mem'[p] = file /\ file # Torn
    <2>1. OwnNames(T)
      BY <1>5 DEF NameInv
    <2> QED
      BY <1>1, <2>1 DEF OwnNames, NamesKnown, Known
  <1> QED
    BY <1>1, <1>2, <1>3, <1>4, <1>5, MemChange

LEMMA NamesFile ==
  ASSUME TypeInv, NameInv, [Next]_vars, file' # Torn
  PROVE  OwnNames(file'.agents)
  <1>1. ASSUME NEW c \in Call, Acts(c) PROVE file' = file
    BY <1>1, StepMoves DEF Acts, Moved
  <1>2. file' = file \/ \E c \in Call : file' = mem[c]
    BY <1>1 DEF Next, Acts, Arrive, Load, Truncate, Write, Kill, Expire, vars
  <1> QED
    BY <1>2, CliNames DEF NameInv

(* Of the steps of a run, the one that resolves the agent reads its row.   *)
LEMMA SeenByRun ==
  ASSUME TypeInv, NEW c \in Call, SeenKnown(c), Run(c)
  PROVE  \/ /\ req[c].agent \in DOMAIN Mem(c).agents
            /\ local'[c].seen = Mem(c).agents[req[c].agent]
         \/ /\ local'[c].seen = local[c].seen
            /\ pc'[c] \in {"context", "capability", "adapter"} \/ local'[c].went # "none" =>
                 local[c].seen # None
  <1> DEFINE Kept == /\ local'[c].seen = local[c].seen
                     /\ \/ pc'[c] \in {"context", "capability", "adapter"}
                        \/ local'[c].went # "none"
                        => local[c].seen # None
  <1>1. ASSUME NEW status, Finish(c, status) PROVE Kept
    BY <1>1 DEF Finish, Goto, TypeInv, LocalRow, SeenKnown
  <1>2. CASE LoadWorkflow(c)
    BY <1>1, <1>2 DEF LoadWorkflow, Goto, TypeInv, SeenKnown
  <1>3. CASE ResolveAgent(c)
    <2>1. CASE IsActive(c, req[c].agent) /\ Admitted(req[c])
      <3>1. PICK row : row = Mem(c).agents[req[c].agent]
        OBVIOUS
      <3>2. local' = [local EXCEPT ![c].seen = row]
        BY <1>3, <2>1, <3>1 DEF ResolveAgent
      <3>3. local'[c].seen = row
        BY <3>2 DEF TypeInv, LocalRow
      <3> QED
        BY <2>1, <3>1, <3>3 DEF IsActive
    <2> QED
      BY <1>1, <1>3, <2>1 DEF ResolveAgent
  <1>4. CASE ReadContext(c)
    <2>1. CASE local' = [local EXCEPT ![c].at = local[c].at + 1] /\ UNCHANGED pc
      BY <1>4, <2>1 DEF ReadContext, At, TypeInv, LocalRow, SeenKnown
    <2> QED
      BY <1>1, <1>4, <2>1 DEF ReadContext, At, Goto, TypeInv, SeenKnown
  <1>5. CASE CheckCapabilities(c)
    <2>1. ASSUME NEW caps, Goto(c, "adapter"), local' = [local EXCEPT ![c].caps = caps]
          PROVE  Kept
      BY <1>5, <2>1 DEF CheckCapabilities, At, TypeInv, LocalRow, SeenKnown
    <2> QED
      BY <1>1, <1>5, <2>1 DEF CheckCapabilities
  <1>6. CASE Execute(c)
    BY <1>6 DEF Execute, At, TypeInv, LocalRow, SeenKnown
  <1>7. CASE CountReceipts(c)
    BY <1>7 DEF CountReceipts, Goto, TypeInv, LocalRow, SeenKnown
  <1>8. CASE InsertReceipt(c)
    BY <1>8 DEF InsertReceipt, Return, Goto, TypeInv, SeenKnown
  <1>9. CASE LoseReceipt(c)
    BY <1>1, <1>9 DEF LoseReceipt, Throw, Goto, TypeInv, SeenKnown
  <1> QED
    BY <1>2, <1>3, <1>4, <1>5, <1>6, <1>7, <1>8, <1>9 DEF Run

(* What a call has read stays what it was, or is a row of its process.     *)
LEMMA SeenStays ==
  ASSUME TypeInv, NameInv, [Next]_vars, NEW c \in Call, pc[c] # "idle",
         \/ /\ local'[c].seen = local[c].seen
            /\ pc'[c] \in {"context", "capability", "adapter"} \/ local'[c].went # "none" =>
                 local[c].seen # None
         \/ /\ req[c].agent \in DOMAIN Mem(c).agents
            /\ local'[c].seen = Mem(c).agents[req[c].agent]
  PROVE  SeenKnown(c)'
  <1> PICK row, who, p, a :
         row = local'[c].seen /\ who = row.named /\ p = home[c] /\ a = req[c].agent
    OBVIOUS
  <1>1. pc'[c] # "idle" /\ req'[c] = req[c] /\ home' = home
    BY AskedOnce
  <1>2. SeenKnown(c) /\ NamesKnown(p, Mem(c).agents)
    BY Homed DEF NameInv, Mem
  <1>3. /\ pc'[c] \in {"context", "capability", "adapter"} \/ local'[c].went # "none" =>
             row # None
        /\ row # None => Known(p, a, who)
    <2>1. CASE a \in DOMAIN Mem(c).agents /\ row = Mem(c).agents[a]
      <3>1. row \in AgentRow
        BY <2>1, Homed DEF TypeInv, Mem, Sound, IsSnapshot, IsTable
      <3> QED
        BY <1>2, <2>1, <3>1, VarrAssumption DEF NamesKnown
    <2> QED
      BY <1>2, <2>1 DEF SeenKnown
  <1>4. row # None => Known(p, a, who)'
    BY <1>3, KnownStays
  <1> QED
    BY <1>1, <1>3, <1>4 DEF SeenKnown

LEMMA SeenStep ==
  ASSUME TypeInv, NameInv, [Next]_vars, NEW c \in Call
  PROVE  SeenKnown(c)'
  <1>1. SeenKnown(c)
    BY DEF NameInv
  <1>2. ASSUME pc[c] = "idle", pc'[c] \notin {"context", "capability", "adapter"},
               local'[c] = local[c]
        PROVE  SeenKnown(c)'
    BY <1>1, <1>2 DEF SeenKnown
  <1>3. CASE Aside(c)
    BY <1>1, <1>2, <1>3, SeenStays DEF Aside, SaveLabel, SeenKnown
  <1>4. CASE (\E r \in ServerRequests : Arrive(c, r)) \/ (\E r \in CliRequests : Load(c, r))
    BY <1>2, <1>4 DEF Arrive, Load, At, Goto, TypeInv
  <1>5. CASE Run(c)
    BY <1>1, <1>5, SeenByRun, SeenStays, StepMoves DEF Moved
  <1>6. CASE Submit(c) \/ Administer(c)
    <2>1. pc[c] # "idle"
      BY <1>6, StepMoves DEF Moved
    <2>2. CASE local'[c].seen = local[c].seen
      BY <1>1, <1>6, <2>1, <2>2, OtherKinds, SeenStays DEF SeenKnown, SubmitLabel
    <2>3. CASE ReadAgent(c) /\ local'[c].seen # local[c].seen
      <3>1. PICK row : row = Mem(c).agents[req[c].agent]
        OBVIOUS
      <3>2. /\ req[c].agent \in DOMAIN Mem(c).agents
            /\ local' = [local EXCEPT ![c].seen = row]
        BY <2>3, <3>1 DEF ReadAgent
      <3>3. local'[c].seen = row
        BY <3>2 DEF TypeInv, LocalRow
      <3> QED
        BY <2>1, <3>1, <3>2, <3>3, SeenStays
    <2> QED
      BY <1>6, <2>2, <2>3, OtherKinds
  <1>7. CASE Truncate(c) \/ Write(c) \/ Kill(c)
    <2>1. /\ pc[c] # "idle" /\ local' = local
          /\ pc'[c] \notin {"context", "capability", "adapter"}
      BY <1>7 DEF Truncate, Write, Kill, At, Goto, UnderWay, TypeInv
    <2> QED
      BY <1>1, <2>1, SeenStays DEF SeenKnown
  <1> QED
    BY <1>3, <1>4, <1>5, <1>6, <1>7, AsideOrOwn DEF Own

LEMMA NameInit == Init => NameInv
  <1> SUFFICES ASSUME Init PROVE NameInv
    OBVIOUS
  <1>1. OwnNames(EmptySnapshot.agents)
    BY DEF OwnNames, EmptySnapshot, Nothing
  <1>2. \A s \in Seeds : OwnNames(s.agents)
    BY VarrAssumption DEF OwnNames
  <1>3. \A p \in Process : OwnNames(mem[p].agents)
    BY <1>1, <1>2 DEF Init
  <1>4. file # Torn => OwnNames(file.agents)
    BY <1>2 DEF Init
  <1>5. \A c \in Call : SeenKnown(c)
    BY DEF Init, Fresh, SeenKnown
  <1> QED
    BY <1>3, <1>4, <1>5 DEF NameInv, NamesKnown, Known, OwnNames

LEMMA NameStep == TypeInv /\ NameInv /\ [Next]_vars => NameInv'
  <1> SUFFICES ASSUME TypeInv, NameInv, [Next]_vars PROVE NameInv'
    OBVIOUS
  <1>1. \A p \in Process : NamesKnown(p, mem[p].agents)'
    BY NamesMem
  <1>2. file' # Torn => OwnNames(file'.agents)
    BY NamesFile
  <1>3. \A c \in Call : SeenKnown(c)'
    BY SeenStep
  <1> QED
    BY <1>1, <1>2, <1>3 DEF NameInv

(* Whatever ran the adapter was within every bound of the agent that its   *)
(* row names: the one of the request, unless an update renamed that row.   *)
THEOREM RunsAreBounded == Spec => []RanWithinBounds
  <1> DEFINE Safe == \A c \in Call : Bounded(c)
  <1>1. Init => Safe
    BY DEF Init, Bounded, Fresh
  <1>2. TypeInv /\ Safe /\ [Next]_vars => Safe'
    BY AsideOrOwn, BoundedAside, BoundedOwn
  <1>3. Safe /\ NameInv => RanWithinBounds
    BY DEF Bounded, WithinBounds, RanWithinBounds, NameInv, SeenKnown, Known, RenamedIn, Renamed
  <1> QED
    BY <1>1, <1>2, <1>3, NameInit, NameStep, TypesAndNumbers, PTL DEF Spec

-----------------------------------------------------------------------------
(* Agents that stay suspended.                                             *)

(* An update to active has been completed.                                 *)
Woken(c) ==
  \E d \in Call :
    /\ pc[d] = "done" /\ home[d] = home[c]
    /\ req[d].op = "update" /\ req[d].agent = req[c].agent /\ req[d].status = "active"

(* The agent is not active, nor will an update put back that it was.       *)
Asleep(c) ==
  LET a == req[c].agent IN
  /\ a \in DOMAIN Mem(c).agents /\ Mem(c).agents[a].status # "active"
  /\ \A d \in Call :
       pc[d] = "replace" /\ home[d] = home[c] /\ req[d].agent = a /\ req[d].status = None
         => local[d].seen.status # "active"

(* A run of an agent that was down: it has not passed the check of the     *)
(* agent, unless the agent has been woken since.                           *)
Watched(c) ==
  c \in down =>
    /\ pc[c] # "idle" /\ ~Cli(c) /\ req[c].op = "run"
    /\ \/ Woken(c)
       \/ /\ Asleep(c) /\ local[c].went = "none"
          /\ pc[c] \notin {"context", "capability", "adapter"}

LEMMA WokenStays ==
  ASSUME TypeInv, [Next]_vars, NEW c \in Call, pc[c] # "idle", Woken(c)
  PROVE  Woken(c)'
  <1>1. PICK d \in Call :
          /\ pc[d] = "done" /\ home[d] = home[c]
          /\ req[d].op = "update" /\ req[d].agent = req[c].agent /\ req[d].status = "active"
    BY DEF Woken
  <1>2. pc'[d] = "done" /\ req'[d] = req[d] /\ home' = home /\ req'[c] = req[c]
    BY <1>1, AskedOnce DEF Ended
  <1> QED
    BY <1>1, <1>2 DEF Woken

(* Only two actions of the process change its agents.                      *)
LEMMA AgentsChange ==
  ASSUME TypeInv, [Next]_vars, NEW c \in Call, ~Cli(c)
  PROVE  \/ mem'[home[c]].agents = Mem(c).agents
         \/ \E d \in Call : home[d] = home[c] /\ (ReplaceAgent(d) \/ Register(d))
  <1>1. home[c] = Server /\ Server \in Process
    BY Homed DEF Cli
  <1>2. ASSUME NEW d \in Call, home[d] = Server, Run(d) \/ Submit(d) \/ Administer(d)
        PROVE  mem'[home[c]].agents = Mem(c).agents \/ ReplaceAgent(d) \/ Register(d)
    BY <1>1, <1>2, StepTables DEF Mem
  <1> QED
    BY <1>1, <1>2, MemChange, Homed DEF Mem, Comes, Goes, Acts

(* An update comes to its second half from the first.                      *)
LEMMA ToReplace ==
  ASSUME TypeInv, [Next]_vars, NEW d \in Call, pc'[d] = "replace"
  PROVE  \/ ReadAgent(d)
         \/ pc[d] = "replace" /\ local'[d] = local[d] /\ req'[d] = req[d] /\ home' = home
  <1>1. CASE Aside(d)
    BY <1>1 DEF Aside, SaveLabel
  <1>2. ASSUME Own(d) PROVE ReadAgent(d)
    <2>1. CASE (\E r \in ServerRequests : Arrive(d, r)) \/ (\E r \in CliRequests : Load(d, r))
      BY <2>1 DEF Arrive, Load, Goto, TypeInv
    <2>2. CASE Run(d)
      BY <2>2 DEF Run, LoadWorkflow, ResolveAgent, ReadContext, CheckCapabilities, Execute,
         CountReceipts, InsertReceipt, LoseReceipt, Finish, Goto, Return, Throw, TypeInv, At
    <2>3. CASE Submit(d)
      BY <2>3 DEF Submit, FindReceipt, StoreFeedback, CountSignals, ReadNamespace, EmitSignal,
         Goto, Return, Throw, TypeInv
    <2>4. CASE Administer(d)
      BY <2>4 DEF Administer, ReplaceAgent, Register, CreateGrant, Revoke, CreateContext,
         CreateWorkflow, Created, Refused, Goto, Return, Throw, TypeInv
    <2>5. CASE Truncate(d) \/ Write(d) \/ Kill(d)
      BY <2>5 DEF Truncate, Write, Kill, Goto, TypeInv
    <2> QED
      BY <1>2, <2>1, <2>2, <2>3, <2>4, <2>5 DEF Own
  <1> QED
    BY <1>1, <1>2, AsideOrOwn

LEMMA SleepsOn ==
  ASSUME TypeInv, [Next]_vars, NEW c \in Call, pc[c] # "idle", ~Cli(c), Asleep(c)
  PROVE  Asleep(c)' \/ Woken(c)'
  <1> DEFINE a == req[c].agent
  <1>1. req'[c] = req[c] /\ home' = home /\ Mem(c)' = mem'[home[c]]
    BY AskedOnce DEF Mem
  <1>2. \A d \in Call :
          pc'[d] = "replace" /\ home'[d] = home[c] /\ req'[d].agent = a /\ req'[d].status = None
            => local'[d].seen.status # "active"
    <2> SUFFICES ASSUME NEW d \in Call, pc'[d] = "replace", home[d] = home[c],
                        req'[d].agent = a, req'[d].status = None
                 PROVE  local'[d].seen.status # "active"
      BY <1>1
    <2>1. CASE ReadAgent(d)
      <3>1. req' = req /\ pc'[d] \in {"thrown", "replace"} /\ Mem(d) = Mem(c)
        BY <2>1 DEF ReadAgent, Elsewhere, Throw, Goto, TypeInv, Mem
      <3>2. local'[d].seen = Mem(d).agents[a]
        BY <2>1, <3>1 DEF ReadAgent, Throw, Goto, TypeInv, LocalRow
      <3> QED
        BY <3>1, <3>2 DEF Asleep
    <2>2. CASE pc[d] = "replace" /\ local'[d] = local[d] /\ req'[d] = req[d]
      BY <2>2 DEF Asleep
    <2> QED
      BY <2>1, <2>2, ToReplace
  <1>3. CASE mem'[home[c]].agents = Mem(c).agents
    BY <1>1, <1>2, <1>3 DEF Asleep
  <1>4. ASSUME NEW d \in Call, home[d] = home[c], Register(d) PROVE Asleep(c)'
    <2>1. CASE req[d].agent = a
      <3>1. Refused(d)
        BY <1>4, <2>1 DEF Register, Asleep, Mem
      <3> QED
        BY <1>1, <1>2, <3>1 DEF Refused, Asleep, Mem
    <2>2. CASE UNCHANGED mem
      BY <1>1, <1>2, <2>2 DEF Asleep, Mem
    <2>3. CASE /\ req[d].agent # a
               /\ Store(d, [Mem(d) EXCEPT !.agents = Put(@, req[d].agent, Registered(req[d]))])
      <3>1. "agents" \in DOMAIN Mem(d)
        BY Homed DEF TypeInv, Mem, Sound, IsSnapshot
      <3>2. mem'[home[d]].agents = Put(Mem(d).agents, req[d].agent, Registered(req[d]))
        BY <2>3, <3>1, Stored
      <3>3. a \in DOMAIN Mem(d).agents /\ Mem(d) = Mem(c)
        BY <1>4 DEF Asleep, Mem
      <3>4. mem'[home[c]].agents[a] = Mem(c).agents[a] /\ a \in DOMAIN mem'[home[c]].agents
        <4> DEFINE T == Put(Mem(d).agents, req[d].agent, Registered(req[d]))
        <4>1. T[a] = Mem(d).agents[a] /\ a \in DOMAIN T
          BY <2>3, <3>3 DEF Put
        <4> HIDE DEF T
        <4> QED
          BY <1>4, <3>2, <3>3, <4>1 DEF T
      <3> QED
        BY <1>1, <1>2, <3>4 DEF Asleep
    <2> QED
      BY <1>4, <2>1, <2>2, <2>3 DEF Register, Registered, Created, Refused
  <1>5. ASSUME NEW d \in Call, home[d] = home[c], ReplaceAgent(d) PROVE Asleep(c)' \/ Woken(c)'
    <2> DEFINE row == Patched(local[d].seen, req[d])
               T == [Mem(d).agents EXCEPT ![req[d].agent] = row]
    <2>1. /\ req[d].op = "update" /\ req'[d] = req[d] /\ ~Cli(d)
          /\ pc[d] = "replace" /\ Return(d)
          /\ row.status = IF req[d].status = None THEN local[d].seen.status ELSE req[d].status
      BY <1>5, PatchedRow
      DEF ReplaceAgent, At, Elsewhere, TypeInv, CallOK, Requested, UpdateRequest
    <2>2. pc'[d] = "done"
      BY <2>1 DEF Return, Goto, TypeInv
    <2>3. "agents" \in DOMAIN Mem(d)
      BY Homed DEF TypeInv, Mem, Sound, IsSnapshot
    <2>4. Store(d, [Mem(d) EXCEPT !.agents = T])
      BY <1>5 DEF ReplaceAgent
    <2>5. mem'[home[d]].agents = T
      <3> HIDE DEF T
      <3> QED
        BY <2>3, <2>4, Stored
    <2>6. CASE req[d].agent # a \/ row.status # "active"
      <3>1. a \in DOMAIN T /\ T[a].status # "active"
        BY <1>5, <2>6 DEF Asleep, Mem
      <3> QED
        BY <1>1, <1>2, <1>5, <2>5, <3>1 DEF Asleep
    <2>7. CASE req[d].agent = a /\ row.status = "active"
      <3>1. req[d].status = "active"
        BY <1>5, <2>1, <2>7 DEF Asleep
      <3> QED
        BY <1>1, <1>5, <2>1, <2>2, <2>7, <3>1 DEF Woken
    <2> QED
      BY <2>6, <2>7
  <1> QED
    BY <1>3, <1>4, <1>5, AgentsChange

(* A run of a sleeping agent does not pass.                                *)
LEMMA SleeperDenied ==
  ASSUME TypeInv, NEW c \in Call, Own(c), Asleep(c), req[c].op = "run", ~Cli(c),
         pc[c] # "idle", local[c].went = "none", pc[c] \notin {"context", "capability", "adapter"}
  PROVE  local'[c].went = "none" /\ pc'[c] \notin {"context", "capability", "adapter"}
  <1>1. ASSUME NEW status, Finish(c, status)
        PROVE  local'[c].went = "none" /\ pc'[c] = "count"
    BY <1>1 DEF Finish, Goto, TypeInv, LocalRow
  <1>2. CASE Run(c)
    <2>1. CASE LoadWorkflow(c)
      BY <1>1, <2>1 DEF LoadWorkflow, Goto, TypeInv
    <2>2. CASE ResolveAgent(c)
      BY <1>1, <2>2 DEF ResolveAgent, IsActive, Asleep
    <2>3. CASE CountReceipts(c)
      BY <2>3 DEF CountReceipts, Goto, TypeInv, LocalRow
    <2>4. CASE InsertReceipt(c)
      BY <2>4 DEF InsertReceipt, Return, Goto, TypeInv
    <2>5. CASE LoseReceipt(c)
      BY <1>1, <2>5 DEF LoseReceipt, Throw, Goto, TypeInv
    <2> QED
      BY <1>2, <2>1, <2>2, <2>3, <2>4, <2>5 DEF Run, ReadContext, CheckCapabilities, Execute, At
  <1>3. CASE Submit(c) \/ Administer(c)
    BY <1>3, OtherKinds
  <1>4. CASE Truncate(c) \/ Write(c) \/ Kill(c)
    BY <1>4 DEF Truncate, Write, Kill, At, Goto, TypeInv
  <1>5. CASE (\E r \in ServerRequests : Arrive(c, r)) \/ (\E r \in CliRequests : Load(c, r))
    BY <1>5 DEF Arrive, Load, At
  <1> QED
    BY <1>2, <1>3, <1>4, <1>5 DEF Own

LEMMA WatchedStep ==
  ASSUME TypeInv, [Next]_vars, NEW c \in Call, Watched(c),
         pc[c] = "idle" => local[c].went = "none"
  PROVE  Watched(c)'
  <1>1. CASE c \in down
    <2>1. req'[c] = req[c] /\ home' = home /\ pc'[c] # "idle" /\ ~Cli(c)'
      BY <1>1, AskedOnce DEF Watched, Cli
    <2>2. CASE Woken(c)
      BY <1>1, <2>1, <2>2, WokenStays DEF Watched
    <2>3. CASE /\ Asleep(c) /\ local[c].went = "none"
               /\ pc[c] \notin {"context", "capability", "adapter"}
      <3>1. Asleep(c)' \/ Woken(c)'
        BY <1>1, <2>3, SleepsOn DEF Watched
      <3>2. local'[c].went = "none" /\ pc'[c] \notin {"context", "capability", "adapter"}
        BY <1>1, <2>3, SleeperDenied, AsideOrOwn DEF Watched, Aside, SaveLabel
      <3> QED
        BY <1>1, <2>1, <3>1, <3>2 DEF Watched
    <2> QED
      BY <1>1, <2>2, <2>3 DEF Watched
  <1>2. CASE c \notin down /\ c \in down'
    <2>1. PICK r \in ServerRequests : Arrive(c, r)
      BY <1>2, AsideOrOwn, StepMoves DEF Aside, Own, Moved, Load, Truncate, Write, Kill, history
    <2>2. /\ r.op = "run" /\ IsDown(c, r.agent) /\ ~Cli(c) /\ local' = local
          /\ mem' = mem /\ home' = home /\ req'[c] = r /\ pc'[c] = "ready" /\ pc[c] = "idle"
          /\ \A d \in Call \ {c} : pc'[d] = pc[d] /\ req'[d] = req[d]
      BY <1>2, <2>1 DEF Arrive, At, Goto, TypeInv
    <2>3. ASSUME NEW d \in Call, pc'[d] = "replace", home'[d] = home[c]
          PROVE  req'[d].agent # r.agent
      <3>1. pc[d] = "replace" /\ req'[d] = req[d]
        BY <2>2, <2>3
      <3>2. UnderWay(d) /\ req[d].op = "update"
        BY <3>1 DEF UnderWay, Ended, TypeInv, CallOK, UpdateRequest
      <3> QED
        BY <2>2, <2>3, <3>1, <3>2 DEF IsDown
    <2>4. Asleep(c)'
      BY <2>2, <2>3 DEF Asleep, IsDown, Mem
    <2> QED
      BY <2>2, <2>4 DEF Watched, Cli
  <1> QED
    BY <1>1, <1>2 DEF Watched

(* A run that comes when its agent is suspended, and no update of it is    *)
(* under way, reaches the adapter only after an update to active.          *)
THEOREM SuspendedAreKeptOut == Spec => []SuspendedStaysOut
  <1> DEFINE Safe == \A c \in Call : Bounded(c) /\ Watched(c)
  <1>1. Init => Safe
    BY DEF Init, Bounded, Fresh, Watched
  <1>2. TypeInv /\ Safe /\ [Next]_vars => Safe'
    <2>1. TypeInv /\ Safe /\ [Next]_vars => (\A c \in Call : Bounded(c))'
      BY AsideOrOwn, BoundedAside, BoundedOwn
    <2>2. TypeInv /\ Safe /\ [Next]_vars => (\A c \in Call : Watched(c))'
      BY WatchedStep DEF Bounded
    <2> QED
      BY <2>1, <2>2
  <1>3. TypeInv /\ Safe => SuspendedStaysOut
    BY DEF Watched, Woken, SuspendedStaysOut, TypeInv
  <1> QED
    BY <1>1, <1>2, <1>3, TypesAndNumbers, PTL DEF Spec

-----------------------------------------------------------------------------
(***************************************************************************)
(* The evidence of Varr is true: a receipt tells what its run did, and a   *)
(* run that no other overlapped has one.                                   *)
(***************************************************************************)

(* What the status of a receipt says of the run c.                         *)
StatusTrue(c, status) ==
  /\ status = "success" => local[c].went = "success"
  /\ status = "failed" =>
       \/ local[c].went = "failed"
       \/ local[c].went = "none" /\ local[c].seen # None /\ ~local[c].seen.hosted
       \/ local[c].went = "success" /\ c \in met
  /\ status \notin {"success", "failed"} => local[c].went = "none"

(* A run that has got its receipt.                                         *)
HasReceipt(c) ==
  reply[c] \in DOMAIN Mem(c).receipts /\ Mem(c).receipts[reply[c]].call = c

Settled(c) == pc[c] \in SaveLabel \cup {"done", "killed"}

(* A row of a receipt that is true.                                        *)
RowTrue(i, row) ==
  LET c == row.call IN
  /\ c \in Call /\ Settled(c)
  /\ row.request = req[c] /\ reply[c] = i /\ StatusTrue(c, row.status)

RowsTrue(s) == \A i \in DOMAIN s.receipts : RowTrue(i, s.receipts[i])

(* Where a run stands and what has become of it. The number of a run that  *)
(* no other overlapped is still free when it inserts its receipt.          *)
Truthful(c) ==
  /\ pc[c] \in {"idle", "ready", "agent", "context", "capability", "adapter"} =>
       local[c].went = "none"
  /\ pc[c] \in {"context", "capability"} => local[c].seen # None
  /\ pc[c] \in {"count", "insert"} => StatusTrue(c, local[c].status)
  /\ pc[c] = "insert" /\ c \notin met => NextId(c) \notin DOMAIN Mem(c).receipts
  /\ pc[c] # "idle" /\ req[c].op = "run" =>
       /\ pc[c] = "thrown" => c \in met
       /\ pc[c] \in SaveLabel \cup {"done"} => reply[c] # None
       /\ pc[c] \in SaveLabel \/ (pc[c] = "done" /\ ~Cli(c)) => HasReceipt(c)

(* Calls of one kind that are under way in one process have met.           *)
Overlap(c, d) ==
  c # d /\ UnderWay(c) /\ UnderWay(d) /\ home[c] = home[d] /\ req[c].op = req[d].op =>
    c \in met /\ d \in met

EvidenceInv ==
  /\ \A c \in Call : Truthful(c)
  /\ \A c, d \in Call : Overlap(c, d)
  /\ \A s \in Snapshots : RowsTrue(s)

-----------------------------------------------------------------------------
(* What a step makes of calls and snapshots.                               *)

LEMMA MetGrows ==
  ASSUME TypeInv, [Next]_vars
  PROVE  met \subseteq met'
  <1>1. ASSUME NEW c \in Call, Run(c) \/ Submit(c) \/ Administer(c) PROVE met' = met
    BY <1>1, StepMoves DEF Moved, history
  <1> QED
    BY <1>1 DEF Next, Arrive, Load, Truncate, Write, Kill, Expire, vars, history

(* Once a call is under way, it came there, or was there before.           *)
LEMMA UnderWayStep ==
  ASSUME TypeInv, [Next]_vars, NEW c \in Call, UnderWay(c)'
  PROVE  \/ UnderWay(c) /\ req'[c] = req[c]
         \/ \E r \in ServerRequests : Arrive(c, r)
         \/ Comes(c)
  <1>1. CASE Aside(c)
    BY <1>1 DEF Aside, UnderWay, SaveLabel, Ended
  <1>2. CASE pc[c] # "idle"
    BY <1>2, AskedOnce DEF UnderWay
  <1> QED
    BY <1>1, <1>2, AsideOrOwn, StepMoves DEF Own, Moved, Truncate, Write, Kill, At, UnderWay, Comes

LEMMA OverlapStep ==
  ASSUME TypeInv, [Next]_vars, NEW c \in Call, NEW d \in Call, Overlap(c, d), Overlap(d, c)
  PROVE  Overlap(c, d)'
  <1> SUFFICES ASSUME c # d, UnderWay(c)', UnderWay(d)', home[c] = home[d],
                      req'[c].op = req'[d].op
               PROVE  c \in met' /\ d \in met'
    BY HomeKept DEF Overlap
  <1>1. ~Cli(c) /\ ~Cli(d)
    BY Homed DEF Cli
  <1>2. ASSUME NEW x \in Call, NEW y \in Call, x # y, home[x] = home[y], UnderWay(y)',
               req'[x].op = req'[y].op, NEW r \in ServerRequests, Arrive(x, r)
        PROVE  x \in met' /\ y \in met'
    <2>1. pc'[y] = pc[y] /\ req'[y] = req[y] /\ req'[x] = r
      BY <1>2 DEF Arrive, Goto, TypeInv
    <2>2. y \in SameKind(x, r)
      BY <1>2, <2>1 DEF SameKind, UnderWay
    <2> QED
      BY <1>2, <2>2 DEF Arrive
  <1>3. CASE UnderWay(c) /\ UnderWay(d) /\ req'[c] = req[c] /\ req'[d] = req[d]
    BY <1>3, MetGrows DEF Overlap
  <1>4. ~Comes(c) /\ ~Comes(d)
    BY <1>1 DEF Comes, Load
  <1> QED
    BY <1>2, <1>3, <1>4, UnderWayStep

(* A snapshot is as before, empty, or what a call has made of it.          *)
LEMMA NewSnapshots ==
  ASSUME TypeInv, [Next]_vars, NEW s \in Snapshots'
  PROVE  \/ s \in Snapshots \/ s = EmptySnapshot
         \/ \E d \in Call : Acts(d) /\ s = mem'[home[d]]
  <1>1. ASSUME NEW p \in Process, s = mem'[p]
        PROVE  \/ s \in Snapshots \/ s = EmptySnapshot
               \/ \E d \in Call : Acts(d) /\ s = mem'[home[d]]
    BY <1>1, MemChange DEF Snapshots
  <1>2. CASE s = file' /\ s # Torn
    <2>1. ASSUME NEW d \in Call, Acts(d) PROVE file' = file
      BY <2>1, StepMoves DEF Acts, Moved
    <2>2. \/ file' = file \/ file' = Torn
          \/ \E d \in Call : file' = mem[d]
      BY <2>1 DEF Next, Acts, Arrive, Load, Truncate, Write, Kill, Expire, vars
    <2> QED
      BY <1>2, <2>2 DEF Snapshots, Process
  <1> QED
    BY <1>1, <1>2 DEF Snapshots

(* Settled calls rest, but for saving.                                     *)
LEMMA SettledStays ==
  ASSUME TypeInv, [Next]_vars, NEW c \in Call, Settled(c)
  PROVE  /\ Settled(c)' /\ req'[c] = req[c]
         /\ reply'[c] = reply[c] /\ local'[c] = local[c]
  <1>1. CASE Aside(c)
    BY <1>1 DEF Aside, Settled
  <1>2. CASE Truncate(c) \/ Write(c) \/ Kill(c)
    BY <1>2 DEF Truncate, Write, Kill, At, Goto, Settled, SaveLabel, TypeInv, history
  <1>3. ~Run(c) /\ ~Submit(c) /\ ~Administer(c)
    BY DEF Settled, SaveLabel, Run, LoadWorkflow, ResolveAgent, ReadContext, CheckCapabilities,
       Execute, CountReceipts, InsertReceipt, LoseReceipt, Submit, FindReceipt, StoreFeedback,
       CountSignals, ReadNamespace, EmitSignal, Administer, ReadAgent, ReplaceAgent, Register,
       CreateGrant, Revoke, CreateContext, CreateWorkflow, At, Asked
  <1>4. \A r : ~Arrive(c, r) /\ ~Load(c, r)
    BY DEF Settled, SaveLabel, Arrive, Load, At
  <1> QED
    BY <1>1, <1>2, <1>3, <1>4, AsideOrOwn DEF Own

LEMMA RowStaysTrue ==
  ASSUME TypeInv, [Next]_vars, NEW i, NEW row, RowTrue(i, row)
  PROVE  RowTrue(i, row)'
  BY SettledStays, MetGrows DEF RowTrue, StatusTrue

LEMMA Inserted ==
  ASSUME TypeInv, NEW c \in Call, InsertReceipt(c)
  PROVE  /\ mem'[home[c]].receipts =
              Put(Mem(c).receipts, NextId(c),
                  [call |-> c, request |-> req[c], status |-> local[c].status])
         /\ reply'[c] = NextId(c) /\ NextId(c) \in Nat
         /\ pc'[c] = IF Cli(c) THEN "returned" ELSE "done"
         /\ UNCHANGED <<home, req, local, met>>
  <1> DEFINE T == Put(Mem(c).receipts, NextId(c),
                    [call |-> c, request |-> req[c], status |-> local[c].status])
  <1>1. Store(c, [Mem(c) EXCEPT !.receipts = T]) /\ "receipts" \in DOMAIN Mem(c)
    BY Homed DEF InsertReceipt, TypeInv, Mem, Sound, IsSnapshot
  <1>2. mem'[home[c]].receipts = T
    <2> HIDE DEF T
    <2> QED
      BY <1>1, Stored
  <1>3. NextId(c) \in Nat
    BY DEF NextId, TypeInv, LocalRow
  <1> QED
    BY <1>2, <1>3 DEF InsertReceipt, Return, Goto, TypeInv, Elsewhere, history

(* New receipts are true when the run that inserts them is truthful.       *)
LEMMA RowsStayTrue ==
  ASSUME TypeInv, [Next]_vars, EvidenceInv, NEW s \in Snapshots'
  PROVE  RowsTrue(s)'
  <1>1. ASSUME NEW t \in Snapshots, s.receipts = t.receipts PROVE RowsTrue(s)'
    BY <1>1, RowStaysTrue DEF EvidenceInv, RowsTrue
  <1>2. CASE s = EmptySnapshot
    BY <1>2 DEF RowsTrue, EmptySnapshot, Nothing
  <1>3. ASSUME NEW d \in Call, Acts(d), s = mem'[home[d]], ~InsertReceipt(d)
        PROVE  RowsTrue(s)'
    BY <1>1, <1>3, StepTables, Homed DEF Acts, Snapshots, Mem
  <1>4. ASSUME NEW d \in Call, InsertReceipt(d), s = mem'[home[d]], NEW n, n = NextId(d),
               NEW row, row = [call |-> d, request |-> req[d], status |-> local[d].status]
        PROVE  RowsTrue(s)'
    <2>1. Mem(d) \in Snapshots
      BY Homed DEF Snapshots, Mem
    <2>2. RowTrue(n, row)'
      <3>1. Settled(d)'
        BY <1>4, Inserted DEF Settled, SaveLabel
      <3>2. StatusTrue(d, row.status)
        BY <1>4 DEF EvidenceInv, Truthful, InsertReceipt, At
      <3>3. row.call = d /\ row.request = req'[d] /\ reply'[d] = n
        BY <1>4, Inserted
      <3> QED
        BY <1>4, <3>1, <3>2, <3>3, Inserted DEF RowTrue, StatusTrue
    <2>3. s.receipts = Put(Mem(d).receipts, n, row)
      BY <1>4, Inserted
    <2>4. ASSUME NEW i \in DOMAIN s.receipts
          PROVE  RowTrue(i, s.receipts[i])'
      <3>1. \/ i = n /\ s.receipts[i] = row
            \/ i \in DOMAIN Mem(d).receipts /\ s.receipts[i] = Mem(d).receipts[i]
        BY <2>3, <2>4 DEF Put
      <3> QED
        BY <2>1, <2>2, <3>1, RowStaysTrue DEF EvidenceInv, RowsTrue
    <2> QED
      BY <2>4 DEF RowsTrue
  <1> QED
    BY <1>1, <1>2, <1>3, <1>4, NewSnapshots

(* Nobody takes the number of a run that no other overlapped.              *)
LEMMA NumberStaysFree ==
  ASSUME TypeInv, [Next]_vars, EvidenceInv, NEW c \in Call,
         pc[c] = "insert", pc'[c] = "insert", c \notin met
  PROVE  mem'[home[c]].receipts = Mem(c).receipts
  <1>1. ~InsertReceipt(c) /\ ~Comes(c) /\ ~Goes(c)
    BY DEF InsertReceipt, Return, Comes, Load, Goes, Write, Kill, At, Goto, TypeInv
  <1>2. UnderWay(c) /\ req[c].op = "run"
    BY DEF UnderWay, Ended, TypeInv, CallOK, RunLabel, RunRequest
  <1>3. ASSUME NEW d \in Call, home[d] = home[c], Acts(d)
        PROVE  mem'[home[c]].receipts = Mem(c).receipts
    <2>1. ASSUME InsertReceipt(d) PROVE FALSE
      <3>1. UnderWay(d) /\ req[d].op = "run"
        BY <2>1 DEF InsertReceipt, At, UnderWay, Ended, TypeInv, CallOK, RunLabel, RunRequest
      <3> QED
        BY <1>1, <1>2, <1>3, <2>1, <3>1 DEF EvidenceInv, Overlap
    <2> QED
      BY <1>3, <2>1, StepTables DEF Acts, Mem
  <1>4. \A p \in Call : p = home[c] => p = c
    BY Homed, VarrAssumption
  <1> QED
    BY <1>1, <1>3, <1>4, MemChange, Homed DEF Mem

LEMMA TruthfulAside ==
  ASSUME TypeInv, [Next]_vars, EvidenceInv, NEW c \in Call, Aside(c)
  PROVE  Truthful(c)'
  <1>1. Truthful(c)
    BY DEF EvidenceInv
  <1>2. pc[c] = "insert" /\ pc'[c] = "insert" /\ c \notin met => NextId(c) \notin DOMAIN Mem(c)'.receipts
    BY <1>1, NumberStaysFree DEF Aside, Mem, Truthful
  <1>3. HasReceipt(c) => HasReceipt(c)'
    BY DEF Aside, HasReceipt, Grown, RowsKept
  <1> QED
    BY <1>1, <1>2, <1>3 DEF Aside, Truthful, StatusTrue, NextId, Cli, SaveLabel

LEMMA TruthfulRun ==
  ASSUME TypeInv, EvidenceInv, NEW c \in Call, Run(c)
  PROVE  Truthful(c)'
  <1>1. Truthful(c)
    BY DEF EvidenceInv
  <1>2. met' = met /\ req' = req /\ home' = home
    BY StepMoves DEF Moved, history
  <1>3. ASSUME NEW status, Finish(c, status), UNCHANGED mem, StatusTrue(c, status)
        PROVE  Truthful(c)'
    <2>1. /\ pc'[c] = "count" /\ local'[c].went = local[c].went
          /\ local'[c].status = status /\ local'[c].seen = local[c].seen
      BY <1>3 DEF Finish, Goto, TypeInv, LocalRow
    <2> QED
      BY <1>2, <1>3, <2>1 DEF Truthful, StatusTrue, SaveLabel
  <1>4. ASSUME NEW label \in {"agent", "context", "capability", "adapter"}, pc'[c] = label,
               local'[c].went = local[c].went, local[c].went = "none",
               label \in {"context", "capability"} => local'[c].seen # None
        PROVE  Truthful(c)'
    BY <1>4 DEF Truthful, SaveLabel
  <1>5. CASE LoadWorkflow(c)
    BY <1>1, <1>3, <1>4, <1>5 DEF LoadWorkflow, Asked, Goto, TypeInv, Truthful, StatusTrue
  <1>6. CASE ResolveAgent(c)
    <2>1. local[c].went = "none" /\ UNCHANGED mem
      BY <1>1, <1>6 DEF ResolveAgent, At, Truthful
    <2>2. CASE IsActive(c, req[c].agent) /\ Admitted(req[c])
      <3> DEFINE row == Mem(c).agents[req[c].agent]
      <3>1. row # None
        BY <2>2, Homed, VarrAssumption DEF IsActive, TypeInv, Mem, Sound, IsSnapshot, IsTable
      <3>2. local' = [local EXCEPT ![c].seen = row] /\ pc'[c] = "context"
        BY <1>6, <2>2 DEF ResolveAgent, Goto, TypeInv
      <3> HIDE DEF row
      <3>3. local'[c].went = local[c].went /\ local'[c].seen = row
        BY <3>2 DEF TypeInv, LocalRow
      <3> QED
        BY <1>4, <2>1, <3>1, <3>2, <3>3
    <2>3. CASE ~(IsActive(c, req[c].agent) /\ Admitted(req[c]))
      BY <1>3, <1>6, <2>1, <2>3 DEF ResolveAgent, StatusTrue
    <2> QED
      BY <2>2, <2>3
  <1>7. CASE ReadContext(c)
    <2>1. CASE local' = [local EXCEPT ![c].at = local[c].at + 1] /\ UNCHANGED pc
      <3>1. /\ local'[c].went = local[c].went /\ local'[c].seen = local[c].seen
            /\ pc'[c] = "context"
        BY <1>7, <2>1 DEF ReadContext, At, TypeInv, LocalRow
      <3> QED
        BY <1>1, <1>4, <1>7, <3>1 DEF ReadContext, At, Truthful
    <2> QED
      BY <1>1, <1>3, <1>4, <1>7, <2>1 DEF ReadContext, At, Goto, TypeInv, Truthful, StatusTrue
  <1>8. CASE CheckCapabilities(c)
    <2>1. local[c].went = "none" /\ local[c].seen # None /\ UNCHANGED mem
      BY <1>1, <1>8 DEF CheckCapabilities, At, Truthful
    <2>2. ASSUME NEW caps, Goto(c, "adapter"), local' = [local EXCEPT ![c].caps = caps]
          PROVE  Truthful(c)'
      <3>1. pc'[c] = "adapter" /\ local'[c].went = "none"
        BY <2>1, <2>2 DEF Goto, TypeInv, LocalRow
      <3> QED
        BY <1>4, <2>1, <3>1
    <2>3. ASSUME Finish(c, "denied") \/ Finish(c, "pending_approval") PROVE Truthful(c)'
      BY <1>3, <2>1, <2>3 DEF StatusTrue
    <2>4. ASSUME Finish(c, "failed"), ~local[c].seen.hosted PROVE Truthful(c)'
      BY <1>3, <2>1, <2>4 DEF StatusTrue
    <2> QED
      BY <1>8, <2>2, <2>3, <2>4 DEF CheckCapabilities
  <1>9. CASE Execute(c)
    <2>1. PICK status \in {"success", "failed"} :
            local' = [local EXCEPT ![c].went = status, ![c].status = status]
      BY <1>9 DEF Execute
    <2>2. local'[c].went = status /\ local'[c].status = status /\ pc'[c] = "count"
      BY <1>9, <2>1 DEF Execute, Goto, TypeInv, LocalRow
    <2> QED
      BY <2>2 DEF Truthful, StatusTrue, SaveLabel
  <1>10. CASE CountReceipts(c)
    <2> DEFINE n == Cardinality(DOMAIN Mem(c).receipts)
    <2>1. n \in Nat /\ DOMAIN Mem(c).receipts = 1 .. n
      BY Homed, CountNumbers DEF TypeInv, Sound, Mem
    <2>2. local' = [local EXCEPT ![c].count = n] /\ pc'[c] = "insert" /\ mem' = mem
      BY <1>10 DEF CountReceipts, Goto, TypeInv
    <2> HIDE DEF n
    <2>3. /\ local'[c].count = n /\ local'[c].went = local[c].went
          /\ local'[c].status = local[c].status /\ local'[c].seen = local[c].seen
      BY <2>2 DEF TypeInv, LocalRow
    <2>4. NextId(c)' \notin DOMAIN Mem(c)'.receipts
      BY <1>2, <2>1, <2>2, <2>3 DEF NextId, Mem
    <2> QED
      BY <1>1, <1>2, <1>10, <2>2, <2>3, <2>4 DEF Truthful, StatusTrue, SaveLabel, CountReceipts, At
  <1>11. CASE InsertReceipt(c)
    <2>1. HasReceipt(c)' /\ reply'[c] # None
      <3> DEFINE row == [call |-> c, request |-> req[c], status |-> local[c].status]
                 n == NextId(c)
      <3>1. mem'[home[c]].receipts = Put(Mem(c).receipts, n, row) /\ reply'[c] = n /\ n # None
        BY <1>11, Inserted, VarrAssumption
      <3>2. row.call = c /\ Mem(c)' = mem'[home[c]]
        BY <1>2 DEF Mem
      <3> HIDE DEF row, n
      <3>3. n \in DOMAIN mem'[home[c]].receipts /\ mem'[home[c]].receipts[n] = row
        BY <3>1 DEF Put
      <3> QED
        BY <3>1, <3>2, <3>3 DEF HasReceipt
    <2> QED
      BY <1>11, <2>1, Inserted DEF Truthful, SaveLabel
  <1>12. CASE LoseReceipt(c)
    <2>1. c \in met /\ StatusTrue(c, local[c].status) /\ UNCHANGED mem
      BY <1>1, <1>12 DEF LoseReceipt, At, Truthful
    <2>2. CASE Throw(c)
      <3>1. pc'[c] = "thrown"
        BY <2>2 DEF Throw, Goto, TypeInv
      <3> QED
        BY <1>2, <2>1, <3>1 DEF Truthful, SaveLabel
    <2>3. CASE local[c].status = "success" /\ Finish(c, "failed")
      BY <1>3, <2>1, <2>3 DEF StatusTrue
    <2> QED
      BY <1>12, <2>2, <2>3 DEF LoseReceipt
  <1> QED
    BY <1>5, <1>6, <1>7, <1>8, <1>9, <1>10, <1>11, <1>12 DEF Run

LEMMA TruthfulOwn ==
  ASSUME TypeInv, EvidenceInv, NEW c \in Call, Own(c)
  PROVE  Truthful(c)'
  <1>1. Truthful(c)
    BY DEF EvidenceInv
  <1>2. CASE \E r \in ServerRequests : Arrive(c, r)
    <2>1. pc'[c] = "ready" /\ local'[c].went = "none"
      BY <1>1, <1>2 DEF Arrive, At, Goto, TypeInv, Truthful
    <2> QED
      BY <2>1 DEF Truthful, SaveLabel
  <1>3. ASSUME NEW r \in CliRequests, Load(c, r) PROVE Truthful(c)'
    <2>1. /\ pc'[c] = "ready" \/ (pc'[c] = "returned" /\ req'[c].op # "run")
          /\ local'[c].went = "none"
      BY <1>1, <1>3 DEF Load, At, Goto, TypeInv, Truthful
    <2> QED
      BY <2>1 DEF Truthful, SaveLabel
  <1>4. CASE Run(c)
    BY <1>4, TruthfulRun
  <1>5. CASE Submit(c) \/ Administer(c)
    <2>1. req'[c].op # "run"
      BY <1>5, OtherKinds, StepMoves DEF Moved
    <2> QED
      BY <1>5, <2>1, OtherKinds DEF Truthful, SubmitLabel
  <1>6. CASE Truncate(c)
    <2>1. /\ pc[c] = "returned" /\ pc'[c] = "writing"
          /\ UNCHANGED <<req, local, reply, mem, home, met>>
      BY <1>6 DEF Truncate, At, TypeInv, history
    <2> QED
      BY <1>1, <2>1 DEF Truthful, HasReceipt, Mem, SaveLabel
  <1>7. CASE Write(c)
    <2>1. /\ pc[c] \in SaveLabel /\ pc'[c] = "done" /\ UNCHANGED <<req, local, reply, home>>
          /\ Cli(c)
      BY <1>7 DEF Write, TypeInv, SaveLabel, CallOK
    <2> QED
      BY <1>1, <2>1 DEF Truthful, SaveLabel, Cli
  <1>8. CASE Kill(c)
    BY <1>8 DEF Kill, Goto, TypeInv, Truthful, SaveLabel
  <1> QED
    BY <1>2, <1>3, <1>4, <1>5, <1>6, <1>7, <1>8 DEF Own

LEMMA EvidenceInit == Init => EvidenceInv
  <1> SUFFICES ASSUME Init PROVE EvidenceInv
    OBVIOUS
  <1>1. \A c \in Call : Truthful(c)
    BY DEF Init, Fresh, Truthful
  <1>2. \A c, d \in Call : Overlap(c, d)
    BY DEF Init, Overlap, UnderWay
  <1>3. \A s \in Snapshots : s \in Seeds \cup {EmptySnapshot}
    BY DEF Init, Snapshots
  <1>4. \A s \in Snapshots : s.receipts = Nothing
    BY <1>3, VarrAssumption DEF EmptySnapshot
  <1> QED
    BY <1>1, <1>2, <1>4 DEF EvidenceInv, RowsTrue, Nothing

LEMMA EvidenceStep == TypeInv /\ EvidenceInv /\ [Next]_vars => EvidenceInv'
  <1> SUFFICES ASSUME TypeInv, EvidenceInv, [Next]_vars PROVE EvidenceInv'
    OBVIOUS
  <1>1. \A c \in Call : Truthful(c)'
    BY AsideOrOwn, TruthfulAside, TruthfulOwn
  <1>2. \A c, d \in Call : Overlap(c, d)'
    BY OverlapStep DEF EvidenceInv
  <1>3. \A s \in Snapshots' : RowsTrue(s)'
    BY RowsStayTrue
  <1> QED
    BY <1>1, <1>2, <1>3 DEF EvidenceInv

THEOREM EvidenceHolds == Spec => []EvidenceInv
  BY EvidenceInit, EvidenceStep, TypesAndNumbers, PTL DEF Spec

(* In every process and in the file, a receipt tells what its run did, and *)
(* is the only one of it.                                                  *)
THEOREM ReceiptsAreTrue == Spec => []ReceiptsTrue
  <1>1. EvidenceInv => ReceiptsTrue
    BY DEF EvidenceInv, RowsTrue, RowTrue, StatusTrue, ReceiptsTrue
  <1> QED
    BY <1>1, EvidenceHolds, PTL

(* A run that no other overlapped answers with a receipt, which says       *)
(* success exactly if the adapter succeeded.                               *)
THEOREM AloneGetReceipts == Spec => []AloneIsReceipted
  <1>1. TypeInv /\ EvidenceInv => AloneIsReceipted
    <2> SUFFICES ASSUME TypeInv, EvidenceInv, NEW c \in Call,
                        pc[c] \in {"done", "thrown", "returned"}, req[c].op = "run", c \notin met
                 PROVE  /\ pc[c] # "thrown" /\ reply[c] # None
                        /\ ~Cli(c) =>
                             /\ reply[c] \in DOMAIN Mem(c).receipts
                             /\ LET row == Mem(c).receipts[reply[c]] IN
                                /\ row.call = c
                                /\ row.status = "success" <=> local[c].went = "success"
      BY DEF AloneIsReceipted
    <2>1. pc[c] # "thrown" /\ reply[c] # None
      BY DEF EvidenceInv, Truthful, SaveLabel
    <2>2. ASSUME ~Cli(c)
          PROVE  /\ reply[c] \in DOMAIN Mem(c).receipts
                 /\ Mem(c).receipts[reply[c]].call = c
                 /\ StatusTrue(c, Mem(c).receipts[reply[c]].status)
      <3>1. HasReceipt(c)
        BY <2>1, <2>2 DEF EvidenceInv, Truthful, SaveLabel
      <3>2. RowsTrue(Mem(c))
        BY Homed DEF EvidenceInv, Snapshots, Mem
      <3> QED
        BY <3>1, <3>2 DEF HasReceipt, RowsTrue, RowTrue
    <2>3. ASSUME NEW status, StatusTrue(c, status)
          PROVE  status = "success" <=> local[c].went = "success"
      BY <2>3 DEF StatusTrue
    <2> QED
      BY <2>1, <2>2, <2>3
  <1> QED
    BY <1>1, EvidenceHolds, TypesAndNumbers, PTL

-----------------------------------------------------------------------------
(* What the CLI saves is kept.                                             *)

InSnapshot(c, s) == reply[c] \in DOMAIN s.receipts /\ s.receipts[reply[c]].call = c

Finished(c) == Cli(c) /\ pc[c] = "done" /\ req[c].op = "run"

(* While nothing raced, one command is busy at most, and it has loaded     *)
(* what the finished ones have saved.                                      *)
SaveInv ==
  ~raced =>
    /\ \A c, d \in Busy : c = d
    /\ \A c \in Call : pc[c] # "mixed"
    /\ \A c \in Call : Finished(c) =>
         /\ file # Torn => InSnapshot(c, file)
         /\ file = Torn => \E d \in Call : pc[d] = "writing"
         /\ \A d \in Busy : InSnapshot(c, mem[d])

LEMMA ActsLabel ==
  ASSUME TypeInv, NEW d \in Call, Acts(d)
  PROVE  /\ UnderWay(d) /\ pc[d] \notin SaveLabel
         /\ pc'[d] \notin {"idle", "writing", "mixed", "killed"}
         /\ Cli(d) => pc'[d] # "done"
  <1>1. CASE Run(d)
    BY <1>1 DEF Run, LoadWorkflow, ResolveAgent, ReadContext, CheckCapabilities, Execute,
       CountReceipts, InsertReceipt, LoseReceipt, Finish, Goto, Return, Throw, TypeInv,
       UnderWay, Ended, SaveLabel, At, Asked
  <1>2. CASE Submit(d)
    BY <1>2 DEF Submit, FindReceipt, StoreFeedback, CountSignals, ReadNamespace, EmitSignal,
       Goto, Return, Throw, TypeInv, UnderWay, Ended, SaveLabel, At, Asked
  <1>3. CASE Administer(d)
    BY <1>3 DEF Administer, ReadAgent, ReplaceAgent, Register, CreateGrant, Revoke, CreateContext,
       CreateWorkflow, Created, Refused, Goto, Return, Throw, TypeInv, UnderWay, Ended,
       SaveLabel, At, Asked
  <1> QED
    BY <1>1, <1>2, <1>3 DEF Acts

LEMMA SaveActs ==
  ASSUME TypeInv, [Next]_vars, SaveInv, NEW d \in Call, Acts(d)
  PROVE  SaveInv'
  <1> SUFFICES ASSUME ~raced PROVE SaveInv'
    BY StepMoves DEF SaveInv, Acts, Moved, history
  <1>1. Moved(d)
    BY StepMoves DEF Acts
  <1>2. \A c \in Call : UnderWay(c)' => UnderWay(c)
    BY <1>1, ActsLabel DEF Moved, UnderWay
  <1>3. Busy' \subseteq Busy /\ \A c \in Call : pc'[c] # "mixed"
    BY <1>1, <1>2, ActsLabel DEF Moved, Busy, Cli, SaveInv
  <1>4. ASSUME NEW c \in Call, Finished(c)'
        PROVE  Finished(c) /\ reply'[c] = reply[c]
    BY <1>1, <1>4, ActsLabel DEF Moved, Finished, Cli
  <1>5. ASSUME NEW x \in Call, pc[x] = "writing" PROVE pc'[x] = "writing"
    BY <1>1, <1>5, ActsLabel DEF Moved, SaveLabel
  <1>6. ASSUME NEW x \in Busy PROVE RowsKept(mem[x].receipts, mem'[x].receipts)
    <2>1. home[x] = x /\ x \in Process
      BY <1>6 DEF Busy, Cli, Process
    <2>2. CASE home[d] = x
      BY <1>1, <2>2 DEF Moved, Grown, Mem
    <2>3. CASE home[d] # x
      BY <1>1, <2>1, <2>3 DEF Moved, RowsKept
    <2> QED
      BY <2>2, <2>3
  <1>7. ASSUME NEW c \in Call, Finished(c)', NEW x \in Busy PROVE InSnapshot(c, mem[x])'
    BY <1>4, <1>6, <1>7 DEF SaveInv, InSnapshot, RowsKept
  <1>8. ASSUME NEW c \in Call, Finished(c)'
        PROVE  /\ file' # Torn => InSnapshot(c, file)'
               /\ file' = Torn => \E x \in Call : pc'[x] = "writing"
    BY <1>1, <1>4, <1>5, <1>8 DEF SaveInv, InSnapshot, Moved
  <1> QED
    BY <1>3, <1>7, <1>8 DEF SaveInv

LEMMA SaveLoad ==
  ASSUME TypeInv, SaveInv, NEW d \in Call, NEW r \in CliRequests, Load(d, r)
  PROVE  SaveInv'
  <1> SUFFICES ASSUME ~raced' PROVE SaveInv'
    BY DEF SaveInv
  <1>1. ~raced /\ Busy = {} /\ r.op # "init"
    BY DEF Load
  <1>2. /\ UNCHANGED <<home, file, reply>> /\ pc'[d] \in {"ready", "returned"}
        /\ \A c \in Call \ {d} : pc'[c] = pc[c] /\ req'[c] = req[c]
    BY DEF Load, Goto, TypeInv
  <1>3. Busy' \subseteq {d}
    BY <1>1, <1>2 DEF Busy, UnderWay, Cli
  <1>4. \A c \in Call : pc'[c] # "mixed" /\ pc[c] # "writing"
    BY <1>1, <1>2 DEF SaveInv, Busy, UnderWay, Ended, TypeInv, CallOK, SaveLabel
  <1>5. ASSUME NEW c \in Call, Finished(c)'
        PROVE  Finished(c) /\ file # Torn /\ InSnapshot(c, file)
    <2>1. Finished(c)
      BY <1>2, <1>5 DEF Finished, Cli
    <2> QED
      BY <1>1, <1>4, <2>1 DEF SaveInv
  <1>6. file # Torn => mem'[d] = file
    BY <1>1 DEF Load, TypeInv, Process
  <1> QED
    BY <1>2, <1>3, <1>4, <1>5, <1>6 DEF SaveInv, InSnapshot

LEMMA SaveTruncate ==
  ASSUME TypeInv, SaveInv, NEW d \in Call, Truncate(d)
  PROVE  SaveInv'
  <1> SUFFICES ASSUME ~raced PROVE SaveInv'
    BY DEF SaveInv, Truncate, history
  <1>1. /\ UNCHANGED <<home, mem, req, reply>> /\ file' = Torn /\ pc'[d] = "writing"
        /\ \A c \in Call \ {d} : pc'[c] = pc[c]
        /\ pc[d] = "returned"
    BY DEF Truncate, At, SaveInv, TypeInv
  <1>2. Busy' = Busy
    BY <1>1 DEF Busy, UnderWay, Cli, Ended
  <1> QED
    BY <1>1, <1>2 DEF SaveInv, Finished, InSnapshot, Cli

LEMMA SaveWrite ==
  ASSUME TypeInv, SaveInv, EvidenceInv, NEW d \in Call, Write(d)
  PROVE  SaveInv'
  <1> SUFFICES ASSUME ~raced PROVE SaveInv'
    BY DEF SaveInv, Write, history
  <1>1. pc[d] = "writing" /\ d \in Busy /\ home[d] = d /\ Mem(d) = mem[d]
    BY DEF Write, SaveInv, Busy, UnderWay, Ended, TypeInv, CallOK, SaveLabel, Cli, Mem
  <1>2. \A c \in Call \ {d} : pc[c] # "writing"
    BY <1>1 DEF SaveInv, Busy, UnderWay, Ended, TypeInv, CallOK, SaveLabel
  <1>3. /\ UNCHANGED <<home, req, reply>> /\ file' = mem[d] /\ pc'[d] = "done"
        /\ \A c \in Call \ {d} : pc'[c] = pc[c]
    BY <1>1, <1>2 DEF Write, At, TypeInv
  <1>4. Busy' = {}
    BY <1>1, <1>3 DEF SaveInv, Busy, UnderWay, Cli, Ended
  <1>5. ASSUME NEW c \in Call, Finished(c)' PROVE InSnapshot(c, mem[d])
    <2>1. CASE c = d
      BY <1>1, <1>3, <1>5, <2>1 DEF EvidenceInv, Truthful, HasReceipt, SaveLabel, Finished, InSnapshot
    <2>2. CASE c # d
      BY <1>1, <1>3, <1>5, <2>2 DEF SaveInv, Finished, Cli
    <2> QED
      BY <2>1, <2>2
  <1>6. file' # Torn
    <2>1. IsSnapshot(mem[d])
      BY <1>1, Homed DEF TypeInv, Sound
    <2>2. DOMAIN Torn = {"torn"}
      BY DEF Torn
    <2> QED
      BY <1>3, <2>1, <2>2 DEF IsSnapshot
  <1> QED
    BY <1>3, <1>4, <1>5, <1>6 DEF SaveInv, InSnapshot

LEMMA SaveKill ==
  ASSUME TypeInv, SaveInv, NEW d \in Call, Kill(d)
  PROVE  SaveInv'
  <1> SUFFICES ASSUME ~raced' PROVE SaveInv'
    BY DEF SaveInv
  <1>1. ~raced /\ pc[d] \notin {"writing", "mixed"} /\ d \in Busy
    BY DEF Kill, Busy
  <1>2. /\ UNCHANGED <<home, file, req, reply>> /\ pc'[d] = "killed"
        /\ \A c \in Call \ {d} : pc'[c] = pc[c]
    BY <1>1 DEF Kill, Goto, At, TypeInv
  <1>3. Busy' = {}
    BY <1>1, <1>2 DEF SaveInv, Busy, UnderWay, Cli, Ended
  <1> QED
    BY <1>1, <1>2, <1>3 DEF SaveInv, Finished, InSnapshot, Cli

LEMMA SaveStep == TypeInv /\ EvidenceInv /\ SaveInv /\ [Next]_vars => SaveInv'
  <1> SUFFICES ASSUME TypeInv, EvidenceInv, SaveInv, [Next]_vars PROVE SaveInv'
    OBVIOUS
  <1>1. ASSUME NEW d \in Call, NEW r \in ServerRequests, Arrive(d, r) PROVE SaveInv'
    <2>1. /\ UNCHANGED <<home, mem, file, reply, raced>> /\ ~Cli(d) /\ pc'[d] = "ready"
          /\ \A c \in Call \ {d} : pc'[c] = pc[c] /\ req'[c] = req[c]
          /\ pc[d] = "idle"
      BY <1>1 DEF Arrive, At, Goto, TypeInv
    <2>2. Busy' = Busy
      BY <2>1 DEF Busy, UnderWay, Cli
    <2>3. \A c \in Call : pc[c] = "writing" => pc'[c] = "writing"
      BY <2>1
    <2> QED
      BY <2>1, <2>2, <2>3 DEF SaveInv, Finished, InSnapshot, Cli
  <1>2. CASE (\E g \in GrantId : Expire(g)) \/ UNCHANGED vars
    <2>1. UNCHANGED <<home, mem, file, pc, req, reply, raced>>
      BY <1>2 DEF Expire, vars, history
    <2> QED
      BY <2>1 DEF SaveInv, Busy, UnderWay, Finished, InSnapshot, Cli
  <1> QED
    BY <1>1, <1>2, SaveActs, SaveLoad, SaveTruncate, SaveWrite, SaveKill DEF Next, Acts

(* While commands of the CLI do not overlap, none is killed while it saves *)
(* and init is not run, the receipt of a finished run stays in the file.   *)
THEOREM SavedStays == Spec => []SavedIsKept
  <1>1. Init => SaveInv
    BY DEF Init, SaveInv, Busy, UnderWay, Finished
  <1>2. TypeInv /\ SaveInv => SavedIsKept
    <2> SUFFICES ASSUME TypeInv, SaveInv, NEW c \in Call, Finished(c), ~raced
                 PROVE  Saved # {} /\ \A s \in Saved : InSnapshot(c, s)
      BY DEF SavedIsKept, Finished, InSnapshot
    <2>1. \A d \in Call : pc[d] \in {"writing", "mixed"} => d \in Busy
      BY DEF Busy, UnderWay, Ended, TypeInv, CallOK, SaveLabel
    <2> QED
      BY <2>1 DEF SaveInv, Saved
  <1> QED
    BY <1>1, <1>2, SaveStep, EvidenceHolds, TypesAndNumbers, PTL DEF Spec

-----------------------------------------------------------------------------
(* Signals.                                                                *)

Emitting(c) == pc[c] \in {"signals", "namespace", "emit"}
Rest(c) == pc[c] \in SaveLabel \cup Ended

Signalled(f, s) == \E i \in DOMAIN s.signals : s.signals[i].feedback = f

SignalTrue(s, i) ==
  LET signal == s.signals[i] IN
  /\ signal.feedback \in DOMAIN s.feedback
  /\ s.feedback[signal.feedback].receipt = signal.receipt
  /\ signal.receipt \in DOMAIN s.receipts
  /\ s.receipts[signal.receipt].status = signal.policy
  /\ \A j \in DOMAIN s.signals : s.signals[j].feedback = signal.feedback => i = j

(* Feedback of a call that has ended has its signal, or a reason not to.   *)
FeedbackTrue(s, f) ==
  LET row == s.feedback[f]  c == row.call IN
  /\ c \in Call /\ pc[c] # "idle" /\ req[c].op = "feedback"
  /\ req[c].id = f /\ req[c].receipt = row.receipt
  /\ Rest(c) => Signalled(f, s) \/ pc[c] = "killed" \/ c \in met

Justified(s) ==
  /\ \A i \in DOMAIN s.signals : SignalTrue(s, i)
  /\ \A f \in DOMAIN s.feedback : FeedbackTrue(s, f)

(* Only the process of a call that is still emitting holds its feedback.   *)
PlaceOK(p) ==
  /\ Justified(mem[p])
  /\ \A f \in DOMAIN mem[p].feedback :
       LET c == mem[p].feedback[f].call IN Rest(c) \/ (home[c] = p /\ Emitting(c))

FileOK ==
  file # Torn =>
    /\ Justified(file)
    /\ \A f \in DOMAIN file.feedback : Rest(file.feedback[f].call)

Emits(c) ==
  /\ Emitting(c) =>
       /\ req[c].id \in DOMAIN Mem(c).feedback /\ Mem(c).feedback[req[c].id].call = c
       /\ ~Signalled(req[c].id, Mem(c))
  /\ pc[c] \in {"namespace", "emit"} /\ c \notin met => NextId(c) \notin DOMAIN Mem(c).signals

SignalInv ==
  /\ \A p \in Process : PlaceOK(p)
  /\ FileOK
  /\ \A c \in Call : Emits(c)

LEMMA EmittingStep ==
  ASSUME TypeInv, [Next]_vars, NEW c \in Call, Emitting(c)
  PROVE  Emitting(c)' \/ pc'[c] = "killed" \/ EmitSignal(c)
  <1>1. CASE Aside(c)
    BY <1>1 DEF Aside, Emitting, SaveLabel
  <1>2. ~Run(c) /\ ~Administer(c) /\ ~Truncate(c) /\ ~Write(c)
    BY DEF Emitting, Run, LoadWorkflow, ResolveAgent, ReadContext, CheckCapabilities,
       Execute, CountReceipts, InsertReceipt, LoseReceipt, Administer, ReadAgent, ReplaceAgent,
       Register, CreateGrant, Revoke, CreateContext, CreateWorkflow, Truncate, Write, At, Asked
  <1>3. CASE Submit(c)
    BY <1>3 DEF Submit, FindReceipt, StoreFeedback, CountSignals, ReadNamespace, Emitting, At,
       Asked, Goto, TypeInv
  <1>4. CASE Kill(c)
    BY <1>4 DEF Kill, Goto, TypeInv
  <1>5. \A r : ~Arrive(c, r) /\ ~Load(c, r)
    BY DEF Emitting, Arrive, Load, At
  <1> QED
    BY <1>1, <1>2, <1>3, <1>4, <1>5, AsideOrOwn DEF Own

LEMMA RestStays ==
  ASSUME TypeInv, [Next]_vars, NEW c \in Call, Rest(c)
  PROVE  Rest(c)' /\ (pc[c] = "killed" => pc'[c] = "killed")
  <1>1. CASE pc[c] \in Ended
    BY <1>1, AskedOnce DEF Rest, Ended
  <1>2. CASE Settled(c)
    BY <1>2, SettledStays, AskedOnce DEF Settled, Rest, Ended
  <1> QED
    BY <1>1, <1>2 DEF Rest, Settled

(* What a submission writes.                                               *)
LEMMA Emitted ==
  ASSUME TypeInv, NEW c \in Call, EmitSignal(c)
  PROVE  /\ pc[c] = "emit" /\ pc'[c] \in {"thrown", "returned", "done"}
         /\ \/ NextId(c) \in DOMAIN Mem(c).signals /\ UNCHANGED mem
            \/ /\ NextId(c) \notin DOMAIN Mem(c).signals
               /\ mem'[home[c]].signals = Put(Mem(c).signals, NextId(c),
                    [feedback |-> req[c].id, receipt |-> req[c].receipt,
                     policy |-> ReceiptOf(c).status, namespace |-> local[c].namespace])
  <1> DEFINE T == Put(Mem(c).signals, NextId(c),
                    [feedback |-> req[c].id, receipt |-> req[c].receipt,
                     policy |-> ReceiptOf(c).status, namespace |-> local[c].namespace])
  <1>1. ASSUME Store(c, [Mem(c) EXCEPT !.signals = T])
        PROVE  mem'[home[c]].signals = T
    <2>1. "signals" \in DOMAIN Mem(c)
      BY Homed DEF TypeInv, Mem, Sound, IsSnapshot
    <2> HIDE DEF T
    <2> QED
      BY <1>1, <2>1, Stored
  <1> QED
    BY <1>1 DEF EmitSignal, At, Return, Throw, Goto, TypeInv

LEMMA FeedbackStored ==
  ASSUME TypeInv, NEW c \in Call, StoreFeedback(c)
  PROVE  /\ pc[c] = "store" /\ pc'[c] \in {"thrown", "signals"}
         /\ \/ pc'[c] = "thrown" /\ UNCHANGED mem
            \/ /\ req[c].id \notin DOMAIN Mem(c).feedback /\ pc'[c] = "signals"
               /\ mem'[home[c]].feedback =
                    Put(Mem(c).feedback, req[c].id, [call |-> c, receipt |-> req[c].receipt])
  <1> DEFINE T == Put(Mem(c).feedback, req[c].id, [call |-> c, receipt |-> req[c].receipt])
  <1>1. ASSUME Store(c, [Mem(c) EXCEPT !.feedback = T])
        PROVE  mem'[home[c]].feedback = T
    <2>1. "feedback" \in DOMAIN Mem(c)
      BY Homed DEF TypeInv, Mem, Sound, IsSnapshot
    <2> HIDE DEF T
    <2> QED
      BY <1>1, <2>1, Stored
  <1> QED
    BY <1>1 DEF StoreFeedback, At, Throw, Goto, TypeInv

(* The feedback of a call stays true where signals are only added.         *)
LEMMA FeedbackStays ==
  ASSUME TypeInv, [Next]_vars, SignalInv, NEW p \in Process, NEW f \in DOMAIN mem[p].feedback,
         NEW row, row = mem[p].feedback[f], NEW c, c = row.call,
         NEW t, f \in DOMAIN t.feedback, t.feedback[f] = row,
         RowsKept(mem[p].signals, t.signals),
         EmitSignal(c) => Signalled(f, t) \/ c \in met
  PROVE  FeedbackTrue(t, f)' /\ (Rest(c)' \/ (home'[c] = p /\ Emitting(c)'))
  <1>1. FeedbackTrue(mem[p], f) /\ (Rest(c) \/ (home[c] = p /\ Emitting(c)))
    BY DEF SignalInv, PlaceOK, Justified
  <1>2. c \in Call /\ pc[c] # "idle" /\ req[c].op = "feedback"
        /\ req[c].id = f /\ req[c].receipt = row.receipt
        /\ (Rest(c) => Signalled(f, mem[p]) \/ pc[c] = "killed" \/ c \in met)
    BY <1>1 DEF FeedbackTrue
  <1>3. req'[c] = req[c] /\ home' = home /\ pc'[c] # "idle"
    BY <1>2, AskedOnce
  <1>4. Signalled(f, mem[p]) => Signalled(f, t)
    BY DEF Signalled, RowsKept
  <1>5. ASSUME Rest(c)' => Signalled(f, t) \/ pc'[c] = "killed" \/ c \in met'
        PROVE  FeedbackTrue(t, f)'
    BY <1>2, <1>3, <1>5 DEF FeedbackTrue, Signalled
  <1>6. CASE Rest(c)
    BY <1>2, <1>4, <1>5, <1>6, RestStays, MetGrows
  <1>7. CASE Emitting(c) /\ home[c] = p
    <2>1. ASSUME EmitSignal(c) PROVE Rest(c)'
      BY <1>2, <2>1, Emitted DEF Rest, Ended, SaveLabel
    <2>2. Rest(c)' \/ Emitting(c)'
      BY <1>2, <1>7, <2>1, EmittingStep DEF Rest, Ended
    <2>3. Rest(c)' => Signalled(f, t) \/ pc'[c] = "killed" \/ c \in met'
      BY <1>2, <1>7, EmittingStep, MetGrows DEF Rest, Emitting, Ended, SaveLabel
    <2> QED
      BY <1>3, <1>5, <1>7, <2>2, <2>3
  <1> QED
    BY <1>1, <1>6, <1>7

LEMMA PlaceSame ==
  ASSUME TypeInv, [Next]_vars, SignalInv, NEW p \in Process, NEW t, t = mem'[p],
         RowsKept(mem[p].receipts, t.receipts),
         t.feedback = mem[p].feedback, t.signals = mem[p].signals
  PROVE  PlaceOK(p)'
  <1>1. Justified(mem[p])
    BY DEF SignalInv, PlaceOK
  <1>2. \A i \in DOMAIN t.signals : SignalTrue(t, i)
    BY <1>1 DEF Justified, SignalTrue, RowsKept
  <1>3. ASSUME NEW f \in DOMAIN t.feedback, NEW row, row = t.feedback[f], NEW c, c = row.call
        PROVE  FeedbackTrue(t, f)' /\ (Rest(c)' \/ (home'[c] = p /\ Emitting(c)'))
    <2>1. ASSUME EmitSignal(c) PROVE c \in met
      <3>1. c \in Call /\ (Rest(c) \/ home[c] = p)
        BY <1>1, <1>3 DEF SignalInv, PlaceOK, Justified, FeedbackTrue
      <3>2. home[c] = p /\ Mem(c) = mem[p]
        BY <2>1, <3>1, Emitted DEF Rest, SaveLabel, Ended, Mem
      <3>3. NextId(c) \in DOMAIN Mem(c).signals
        <4> SUFFICES ASSUME NextId(c) \notin DOMAIN Mem(c).signals PROVE FALSE
          OBVIOUS
        <4>1. PICK row1 : mem'[home[c]].signals = Put(Mem(c).signals, NextId(c), row1)
          BY <2>1, <3>1, Emitted
        <4>2. NextId(c) \in DOMAIN t.signals
          BY <3>2, <4>1 DEF Put
        <4> QED
          BY <3>2, <4>2
      <3> QED
        BY <2>1, <3>1, <3>3, Emitted DEF SignalInv, Emits
    <2>2. RowsKept(mem[p].signals, t.signals)
      BY DEF RowsKept
    <2> QED
      BY <1>3, <2>1, <2>2, FeedbackStays
  <1>4. Justified(t)'
    BY <1>2, <1>3 DEF Justified, SignalTrue
  <1> QED
    BY <1>3, <1>4 DEF PlaceOK

LEMMA PlaceEmitted ==
  ASSUME TypeInv, [Next]_vars, SignalInv, NEW p \in Process, NEW t, t = mem'[p],
         NEW e \in Call, EmitSignal(e), home[e] = p, NextId(e) \notin DOMAIN mem[p].signals
  PROVE  PlaceOK(p)'
  <1>1. Justified(mem[p]) /\ Emits(e) /\ Mem(e) = mem[p] /\ Emitting(e)
    BY Emitted DEF SignalInv, PlaceOK, Mem, Emitting
  <1>2. t.receipts = mem[p].receipts /\ t.feedback = mem[p].feedback
    <2>1. ~InsertReceipt(e) /\ ~StoreFeedback(e)
      BY Emitted DEF InsertReceipt, StoreFeedback, At
    <2> QED
      BY <1>1, <2>1, StepTables DEF Submit
  <1>3. PICK n, row :
          /\ n = NextId(e) /\ t.signals = Put(mem[p].signals, n, row)
          /\ row = [feedback |-> req[e].id, receipt |-> req[e].receipt,
                    policy |-> ReceiptOf(e).status, namespace |-> local[e].namespace]
    <2> DEFINE signal == [feedback |-> req[e].id, receipt |-> req[e].receipt,
                          policy |-> ReceiptOf(e).status, namespace |-> local[e].namespace]
    <2>1. t.signals = Put(mem[p].signals, NextId(e), signal)
      BY <1>1, Emitted
    <2> QED
      BY <2>1
  <1>4. /\ row.feedback = req[e].id /\ row.receipt = req[e].receipt
        /\ row.policy = mem[p].receipts[req[e].receipt].status
        /\ n \notin DOMAIN mem[p].signals
    BY <1>1, <1>3 DEF ReceiptOf
  <1>5. /\ DOMAIN t.signals = DOMAIN mem[p].signals \cup {n} /\ t.signals[n] = row
        /\ \A i \in DOMAIN mem[p].signals : t.signals[i] = mem[p].signals[i]
    BY <1>3, <1>4 DEF Put
  <1>6. SignalTrue(t, n)
    <2>1. req[e].id \in DOMAIN mem[p].feedback /\ mem[p].feedback[req[e].id].receipt = req[e].receipt
      <3>1. /\ req[e].id \in DOMAIN mem[p].feedback
            /\ mem[p].feedback[req[e].id].call = e
        BY <1>1 DEF Emits
      <3> QED
        BY <1>1, <3>1 DEF Justified, FeedbackTrue
    <2>2. req[e].receipt \in DOMAIN mem[p].receipts
      BY <1>1 DEF TypeInv, CallOK, SubmitLabel, Emitting
    <2>3. \A j \in DOMAIN mem[p].signals : mem[p].signals[j].feedback # req[e].id
      BY <1>1 DEF Emits, Signalled
    <2> QED
      BY <1>2, <1>4, <1>5, <2>1, <2>2, <2>3 DEF SignalTrue
  <1>7. ASSUME NEW i \in DOMAIN mem[p].signals PROVE SignalTrue(t, i)
    <2>1. SignalTrue(mem[p], i) /\ mem[p].signals[i].feedback # row.feedback
      BY <1>1, <1>4 DEF Justified, Emits, Signalled
    <2> QED
      BY <1>2, <1>5, <2>1 DEF SignalTrue
  <1>8. ASSUME NEW f \in DOMAIN t.feedback, NEW fed, fed = t.feedback[f], NEW c, c = fed.call
        PROVE  FeedbackTrue(t, f)' /\ (Rest(c)' \/ (home'[c] = p /\ Emitting(c)'))
    <2>1. ASSUME EmitSignal(c) PROVE Signalled(f, t)
      <3>1. CASE c = e
        <4>1. FeedbackTrue(mem[p], f) /\ mem[p].feedback[f].call = e
          BY <1>1, <1>2, <1>8, <3>1 DEF Justified
        <4>2. req[e].id = f
          BY <4>1 DEF FeedbackTrue
        <4> QED
          BY <1>4, <1>5, <4>2 DEF Signalled
      <3>2. CASE c # e
        <4>1. c \in Call /\ pc'[c] = pc[c]
          BY <1>1, <1>2, <1>8, <3>2, StepMoves DEF Justified, FeedbackTrue, Moved, Submit
        <4> QED
          BY <2>1, <4>1, Emitted
      <3> QED
        BY <3>1, <3>2
    <2>2. RowsKept(mem[p].signals, t.signals)
      BY <1>5 DEF RowsKept
    <2> QED
      BY <1>2, <1>8, <2>1, <2>2, FeedbackStays
  <1>9. Justified(t)'
    BY <1>5, <1>6, <1>7, <1>8 DEF Justified, SignalTrue
  <1> QED
    BY <1>8, <1>9 DEF PlaceOK

LEMMA PlaceFed ==
  ASSUME TypeInv, [Next]_vars, SignalInv, NEW p \in Process, NEW t, t = mem'[p],
         NEW e \in Call, StoreFeedback(e), home[e] = p, pc'[e] = "signals"
  PROVE  PlaceOK(p)'
  <1>1. Justified(mem[p]) /\ Mem(e) = mem[p] /\ pc[e] = "store"
    BY FeedbackStored DEF SignalInv, PlaceOK, Mem
  <1>2. t.receipts = mem[p].receipts /\ t.signals = mem[p].signals
    <2>1. ~InsertReceipt(e) /\ ~EmitSignal(e)
      BY <1>1 DEF InsertReceipt, EmitSignal, At
    <2> QED
      BY <1>1, <2>1, StepTables DEF Submit
  <1>3. PICK g, new :
          /\ g = req[e].id /\ g \notin DOMAIN mem[p].feedback
          /\ t.feedback = Put(mem[p].feedback, g, new)
          /\ new = [call |-> e, receipt |-> req[e].receipt]
    BY <1>1, FeedbackStored
  <1>4. new.call = e /\ new.receipt = req[e].receipt
    BY <1>3
  <1>5. /\ DOMAIN t.feedback = DOMAIN mem[p].feedback \cup {g} /\ t.feedback[g] = new
        /\ \A f \in DOMAIN mem[p].feedback : t.feedback[f] = mem[p].feedback[f]
    BY <1>3 DEF Put
  <1>6. \A i \in DOMAIN t.signals : SignalTrue(t, i)
    BY <1>1, <1>2, <1>5 DEF Justified, SignalTrue
  <1>7. req[e].op = "feedback" /\ req'[e] = req[e] /\ home' = home /\ pc[e] # "idle"
    BY <1>1, AskedOnce DEF TypeInv, CallOK, SubmitLabel, FeedbackRequest
  <1>8. FeedbackTrue(t, g)' /\ home'[e] = p /\ Emitting(e)'
    BY <1>3, <1>4, <1>5, <1>7 DEF FeedbackTrue, Emitting, Rest, SaveLabel, Ended
  <1>9. ASSUME NEW f \in DOMAIN mem[p].feedback, NEW row, row = t.feedback[f], NEW c, c = row.call
        PROVE  FeedbackTrue(t, f)' /\ (Rest(c)' \/ (home'[c] = p /\ Emitting(c)'))
    <2>1. ~EmitSignal(c)
      <3>1. c \in Call
        BY <1>1, <1>5, <1>9 DEF Justified, FeedbackTrue
      <3>2. c = e \/ pc'[c] = pc[c]
        BY <3>1, StepMoves DEF Moved, Submit
      <3> QED
        BY <1>1, <3>1, <3>2, Emitted
    <2>2. RowsKept(mem[p].signals, t.signals)
      BY <1>2 DEF RowsKept
    <2> QED
      BY <1>5, <1>9, <2>1, <2>2, FeedbackStays
  <1>10. Justified(t)'
    BY <1>5, <1>6, <1>8, <1>9 DEF Justified, SignalTrue
  <1> QED
    BY <1>4, <1>5, <1>8, <1>9, <1>10 DEF PlaceOK

(* A snapshot whose calls are at rest stays justified.                     *)
LEMMA RestJustified ==
  ASSUME TypeInv, [Next]_vars, NEW t, Justified(t),
         \A f \in DOMAIN t.feedback : Rest(t.feedback[f].call)
  PROVE  Justified(t)' /\ \A f \in DOMAIN t.feedback : Rest(t.feedback[f].call)'
  <1>1. ASSUME NEW f \in DOMAIN t.feedback, NEW row, row = t.feedback[f], NEW c, c = row.call
        PROVE  FeedbackTrue(t, f)' /\ Rest(c)'
    <2>1. FeedbackTrue(t, f) /\ Rest(c) /\ c \in Call /\ pc[c] # "idle"
      BY <1>1 DEF Justified, FeedbackTrue
    <2>2. /\ req'[c] = req[c] /\ pc'[c] # "idle" /\ Rest(c)'
          /\ pc[c] = "killed" => pc'[c] = "killed"
      BY <2>1, AskedOnce, RestStays
    <2> QED
      BY <1>1, <2>1, <2>2, MetGrows DEF FeedbackTrue, Signalled
  <1> QED
    BY <1>1 DEF Justified, SignalTrue

LEMMA PlaceStep ==
  ASSUME TypeInv, [Next]_vars, SignalInv, NEW p \in Process
  PROVE  PlaceOK(p)'
  <1>1. ASSUME RowsKept(mem[p].receipts, mem'[p].receipts),
               mem'[p].feedback = mem[p].feedback, mem'[p].signals = mem[p].signals
        PROVE  PlaceOK(p)'
    <2>1. PICK t : t = mem'[p]
      OBVIOUS
    <2> QED
      BY <1>1, <2>1, PlaceSame
  <1>2. CASE mem'[p] = mem[p]
    BY <1>1, <1>2 DEF RowsKept
  <1>3. ASSUME NEW d \in Call, home[d] = p, Acts(d) PROVE PlaceOK(p)'
    <2>1. CASE EmitSignal(d)
      <3>1. CASE NextId(d) \notin DOMAIN mem[p].signals
        <4>1. PICK t : t = mem'[p]
          OBVIOUS
        <4> QED
          BY <1>3, <2>1, <3>1, <4>1, PlaceEmitted
      <3>2. CASE NextId(d) \in DOMAIN mem[p].signals
        BY <1>2, <1>3, <2>1, <3>2, Emitted DEF Mem
      <3> QED
        BY <3>1, <3>2
    <2>2. CASE StoreFeedback(d)
      <3>1. CASE pc'[d] = "signals"
        <4>1. PICK t : t = mem'[p]
          OBVIOUS
        <4> QED
          BY <1>3, <2>2, <3>1, <4>1, PlaceFed
      <3>2. CASE pc'[d] # "signals"
        BY <1>2, <2>2, <3>2, FeedbackStored
      <3> QED
        BY <3>1, <3>2
    <2>3. CASE ~EmitSignal(d) /\ ~StoreFeedback(d)
      <3>1. mem'[p].feedback = mem[p].feedback /\ mem'[p].signals = mem[p].signals
        BY <1>3, <2>3, StepTables DEF Acts, Mem
      <3>2. RowsKept(mem[p].receipts, mem'[p].receipts)
        BY <1>3, StepMoves DEF Acts, Moved, Grown, Mem
      <3> QED
        BY <1>1, <3>1, <3>2
    <2> QED
      BY <2>1, <2>2, <2>3
  <1>4. CASE mem'[p] = EmptySnapshot
    BY <1>4 DEF PlaceOK, Justified, EmptySnapshot, Nothing
  <1>5. CASE file # Torn /\ mem'[p] = file
    <2>1. PICK t : t = file
      OBVIOUS
    <2>2. Justified(t)' /\ \A f \in DOMAIN t.feedback : Rest(t.feedback[f].call)'
      BY <1>5, <2>1, RestJustified DEF SignalInv, FileOK
    <2> QED
      BY <1>5, <2>1, <2>2 DEF PlaceOK
  <1> QED
    BY <1>2, <1>3, <1>4, <1>5, MemChange

LEMMA FileStep ==
  ASSUME TypeInv, [Next]_vars, SignalInv
  PROVE  FileOK'
  <1>1. ASSUME NEW t, Justified(t), \A f \in DOMAIN t.feedback : Rest(t.feedback[f].call),
               file' = t
        PROVE  FileOK'
    BY <1>1, RestJustified DEF FileOK
  <1>2. CASE file' = file
    <2>1. PICK t : t = file
      OBVIOUS
    <2> QED
      BY <1>1, <1>2, <2>1 DEF SignalInv, FileOK
  <1>3. CASE file' = Torn
    BY <1>3 DEF FileOK
  <1>4. ASSUME NEW c \in Call, Write(c), file' = mem[c] PROVE FileOK'
    <2>1. pc[c] \in {"writing", "mixed"} /\ home[c] = c /\ c \in Process
      BY <1>4, Homed DEF Write, TypeInv, CallOK, SaveLabel, Cli
    <2>2. ASSUME NEW f \in DOMAIN mem[c].feedback PROVE Rest(mem[c].feedback[f].call)
      <3>1. PICK d : d = mem[c].feedback[f].call
        OBVIOUS
      <3>2. d \in Call /\ (Rest(d) \/ (home[d] = c /\ Emitting(d)))
        BY <2>1, <2>2, <3>1 DEF SignalInv, PlaceOK, Justified, FeedbackTrue
      <3>3. home[d] = c => d = c
        BY <2>1, <3>2, Homed
      <3> QED
        BY <2>1, <3>1, <3>2, <3>3 DEF Emitting
    <2>3. PICK t : t = mem[c]
      OBVIOUS
    <2> QED
      BY <1>1, <1>4, <2>1, <2>2, <2>3 DEF SignalInv, PlaceOK
  <1>5. ASSUME NEW c \in Call, Acts(c) PROVE file' = file
    BY <1>5, StepMoves DEF Acts, Moved
  <1> QED
    BY <1>2, <1>3, <1>4, <1>5 DEF Next, Acts, Arrive, Load, Truncate, Write, Kill, Expire, vars

(* While a call is emitting, only another one may add signals.             *)
LEMMA SignalsChange ==
  ASSUME TypeInv, [Next]_vars, NEW c \in Call, Emitting(c), Emitting(c)'
  PROVE  \/ mem'[home[c]].signals = Mem(c).signals
         \/ \E d \in Call \ {c} : home[d] = home[c] /\ EmitSignal(d)
  <1>1. ~EmitSignal(c) /\ ~Comes(c) /\ ~Goes(c)
    BY Emitted DEF Emitting, Comes, Load, At, Goes, Write, Kill, Goto, TypeInv
  <1>2. \A p \in Call : p = home[c] => p = c
    BY Homed, VarrAssumption
  <1>3. ASSUME NEW d \in Call, home[d] = home[c], Acts(d)
        PROVE  mem'[home[c]].signals = Mem(c).signals \/ EmitSignal(d)
    BY <1>3, StepTables DEF Acts, Mem
  <1> QED
    BY <1>1, <1>2, <1>3, MemChange, Homed DEF Mem

(* How a call comes to emit.                                               *)
LEMMA ToEmit ==
  ASSUME TypeInv, [Next]_vars, NEW c \in Call, Emitting(c)'
  PROVE  \/ StoreFeedback(c) /\ pc'[c] = "signals"
         \/ CountSignals(c)
         \/ pc[c] \in {"namespace", "emit"} /\ NextId(c)' = NextId(c)
         \/ pc[c] = "signals" /\ pc'[c] = "signals"
  <1>1. CASE Aside(c)
    BY <1>1 DEF Aside, Emitting, SaveLabel, NextId
  <1>2. CASE Run(c)
    BY <1>2 DEF Run, LoadWorkflow, ResolveAgent, ReadContext, CheckCapabilities, Execute,
       CountReceipts, InsertReceipt, LoseReceipt, Finish, Goto, Return, Throw, TypeInv,
       Emitting, At
  <1>3. CASE Submit(c)
    <2>1. CASE ReadNamespace(c)
      BY <2>1 DEF ReadNamespace, At, TypeInv, LocalRow, NextId
    <2>2. CASE FindReceipt(c)
      BY <2>2 DEF FindReceipt, Return, Goto, TypeInv, Emitting
    <2>3. CASE StoreFeedback(c) \/ EmitSignal(c)
      BY <2>3, FeedbackStored, Emitted DEF Emitting
    <2> QED
      BY <1>3, <2>1, <2>2, <2>3 DEF Submit
  <1>4. CASE Administer(c)
    BY <1>4 DEF Administer, ReadAgent, ReplaceAgent, Register, CreateGrant, Revoke, CreateContext,
       CreateWorkflow, Created, Refused, Goto, Return, Throw, TypeInv, Emitting
  <1>5. CASE Truncate(c) \/ Write(c) \/ Kill(c)
    BY <1>5 DEF Truncate, Write, Kill, Goto, TypeInv, Emitting
  <1>6. CASE (\E r \in ServerRequests : Arrive(c, r)) \/ (\E r \in CliRequests : Load(c, r))
    BY <1>6 DEF Arrive, Load, Goto, TypeInv, Emitting
  <1> QED
    BY <1>1, <1>2, <1>3, <1>4, <1>5, <1>6, AsideOrOwn DEF Own

(* While a call is emitting, its feedback stays without a signal.          *)
LEMMA Unsignalled ==
  ASSUME TypeInv, [Next]_vars, SignalInv, NEW c \in Call, Emitting(c), Emitting(c)'
  PROVE  LET t == mem'[home[c]]  f == req[c].id IN
         /\ f \in DOMAIN t.feedback /\ t.feedback[f].call = c
         /\ \A i \in DOMAIN t.signals : t.signals[i].feedback # f
  <1> DEFINE f == req[c].id
  <1>1. f \in DOMAIN Mem(c).feedback /\ Mem(c).feedback[f].call = c /\ ~Signalled(f, Mem(c))
    BY DEF SignalInv, Emits
  <1>2. RowsKept(Mem(c).feedback, mem'[home[c]].feedback)
    BY NextKeeps DEF KeptFor, Emitting, UnderWay, Ended
  <1>3. ASSUME NEW d \in Call \ {c}, home[d] = home[c], EmitSignal(d),
               NEW i \in DOMAIN mem'[home[c]].signals
        PROVE  mem'[home[c]].signals[i].feedback # f
    <2>1. req[d].id # f
      BY <1>1, <1>3, Emitted DEF SignalInv, Emits, Emitting, Mem
    <2>2. mem'[home[c]] = Mem(c) \/
          \E signal : /\ signal.feedback = req[d].id
                     /\ mem'[home[c]].signals = Put(Mem(c).signals, NextId(d), signal)
      <3> DEFINE signal == [feedback |-> req[d].id, receipt |-> req[d].receipt,
                            policy |-> ReceiptOf(d).status, namespace |-> local[d].namespace]
      <3>1. signal.feedback = req[d].id
        OBVIOUS
      <3>2. mem'[home[c]] = Mem(c) \/ mem'[home[c]].signals = Put(Mem(c).signals, NextId(d), signal)
        BY <1>3, Emitted DEF Mem
      <3> HIDE DEF signal
      <3> QED
        BY <3>1, <3>2
    <2> QED
      BY <1>1, <1>3, <2>1, <2>2 DEF Put, Signalled
  <1> QED
    BY <1>1, <1>2, <1>3, SignalsChange DEF RowsKept, Signalled

LEMMA EmitsStep ==
  ASSUME TypeInv, [Next]_vars, EvidenceInv, SignalInv, NEW c \in Call
  PROVE  Emits(c)'
  <1> SUFFICES ASSUME Emitting(c)' PROVE Emits(c)'
    BY DEF Emits, Emitting
  <1>1. CASE StoreFeedback(c) /\ pc'[c] = "signals"
    <2>1. /\ pc[c] = "store" /\ req[c].id \notin DOMAIN Mem(c).feedback
          /\ mem'[home[c]].feedback =
               Put(Mem(c).feedback, req[c].id, [call |-> c, receipt |-> req[c].receipt])
      BY <1>1, FeedbackStored
    <2>2. mem'[home[c]].signals = Mem(c).signals
      BY <1>1, <2>1, StepTables DEF Submit, EmitSignal, At
    <2>3. \A i \in DOMAIN Mem(c).signals : Mem(c).signals[i].feedback # req[c].id
      BY <2>1, Homed DEF SignalInv, PlaceOK, Justified, SignalTrue, Mem
    <2>4. home' = home /\ req' = req
      BY <1>1 DEF StoreFeedback, Elsewhere
    <2> DEFINE row == [call |-> c, receipt |-> req[c].receipt]
    <2>5. row.call = c /\ mem'[home[c]].feedback = Put(Mem(c).feedback, req[c].id, row)
      BY <2>1
    <2> HIDE DEF row
    <2>6. req[c].id \in DOMAIN mem'[home[c]].feedback /\ mem'[home[c]].feedback[req[c].id].call = c
      BY <2>5 DEF Put
    <2> QED
      BY <1>1, <2>2, <2>3, <2>4, <2>6 DEF Emits, Emitting, Signalled, Mem
  <1>2. CASE CountSignals(c)
    <2> DEFINE n == Cardinality(DOMAIN Mem(c).signals)
    <2>1. n \in Nat /\ DOMAIN Mem(c).signals = 1 .. n
      BY Homed, CountNumbers DEF TypeInv, Sound, Mem
    <2>2. local' = [local EXCEPT ![c].count = n] /\ UNCHANGED <<mem, home, req>> /\ Emitting(c)
      BY <1>2 DEF CountSignals, At, Emitting, Elsewhere
    <2> HIDE DEF n
    <2>3. local'[c].count = n
      BY <2>2 DEF TypeInv, LocalRow
    <2>4. NextId(c)' \notin DOMAIN Mem(c)'.signals
      BY <2>1, <2>2, <2>3 DEF NextId, Mem
    <2> QED
      BY <2>2, <2>4 DEF SignalInv, Emits, Signalled, Mem
  <1>3. CASE Emitting(c) /\ pc'[c] = "signals"
    <2>1. home' = home /\ req'[c] = req[c]
      BY <1>3, AskedOnce DEF Emitting
    <2> QED
      BY <1>3, <2>1, Unsignalled DEF Emits, Signalled, Mem
  <1>4. CASE pc[c] \in {"namespace", "emit"} /\ NextId(c)' = NextId(c)
    <2>1. home' = home /\ req'[c] = req[c] /\ Emitting(c)
      BY <1>4, AskedOnce DEF Emitting
    <2>2. ASSUME c \notin met' PROVE NextId(c) \notin DOMAIN mem'[home[c]].signals
      <3>1. c \notin met /\ UnderWay(c) /\ req[c].op = "feedback"
        BY <1>4, <2>2, MetGrows DEF UnderWay, Ended, TypeInv, CallOK, SubmitLabel, FeedbackRequest
      <3>2. ASSUME NEW d \in Call \ {c}, home[d] = home[c], EmitSignal(d) PROVE FALSE
        <4>1. UnderWay(d) /\ req[d].op = "feedback"
          BY <3>2, Emitted DEF UnderWay, Ended, TypeInv, CallOK, SubmitLabel, FeedbackRequest
        <4> QED
          BY <3>1, <3>2, <4>1 DEF EvidenceInv, Overlap
      <3>3. mem'[home[c]].signals = Mem(c).signals
        BY <2>1, <3>2, SignalsChange
      <3> QED
        BY <1>4, <3>1, <3>3 DEF SignalInv, Emits
    <2> QED
      BY <1>4, <2>1, <2>2, Unsignalled DEF Emits, Signalled, Mem
  <1> QED
    BY <1>1, <1>2, <1>3, <1>4, ToEmit DEF Emitting

LEMMA SignalInit == Init => SignalInv
  <1> SUFFICES ASSUME Init PROVE SignalInv
    OBVIOUS
  <1>1. \A s \in Seeds \cup {EmptySnapshot} : s.feedback = Nothing /\ s.signals = Nothing
    BY VarrAssumption DEF EmptySnapshot
  <1>2. ASSUME NEW s \in Seeds \cup {EmptySnapshot}
        PROVE  Justified(s) /\ DOMAIN s.feedback = {}
    BY <1>1 DEF Justified, Nothing
  <1>3. \A p \in Process : mem[p] \in Seeds \cup {EmptySnapshot}
    BY DEF Init
  <1>4. file # Torn => file \in Seeds
    BY DEF Init
  <1> QED
    BY <1>2, <1>3, <1>4 DEF Init, SignalInv, PlaceOK, FileOK, Emits, Emitting

(* Signals are about feedback on the receipt they name, at most one each,  *)
(* and feedback without one is still being processed or was overlapped.    *)
THEOREM SignalsAreJustified == Spec => []SignalsJustified
  <1>1. TypeInv /\ EvidenceInv /\ SignalInv /\ [Next]_vars => SignalInv'
    BY PlaceStep, FileStep, EmitsStep DEF SignalInv, Process, TypeInv
  <1>2. TypeInv /\ SignalInv => SignalsJustified
    <2> SUFFICES ASSUME TypeInv, SignalInv, NEW s \in Snapshots
                 PROVE  /\ \A i, j \in DOMAIN s.signals :
                             LET signal == s.signals[i] IN
                             /\ signal.feedback = s.signals[j].feedback => i = j
                             /\ signal.feedback \in DOMAIN s.feedback
                             /\ s.feedback[signal.feedback].receipt = signal.receipt
                             /\ signal.receipt \in DOMAIN s.receipts
                             /\ s.receipts[signal.receipt].status = signal.policy
                        /\ \A f \in DOMAIN s.feedback :
                             \/ \E i \in DOMAIN s.signals : s.signals[i].feedback = f
                             \/ pc[s.feedback[f].call] \in {"signals", "namespace", "emit", "killed"}
                             \/ s.feedback[f].call \in met
      BY DEF SignalsJustified
    <2>1. Justified(s)
      BY DEF Snapshots, SignalInv, PlaceOK, FileOK
    <2>2. \A f \in DOMAIN s.feedback : LET c == s.feedback[f].call IN Rest(c) \/ Emitting(c)
      BY DEF Snapshots, SignalInv, PlaceOK, FileOK
    <2> QED
      BY <2>1, <2>2 DEF Justified, SignalTrue, FeedbackTrue, Signalled, Emitting
  <1> QED
    BY <1>1, <1>2, SignalInit, EvidenceHolds, TypesAndNumbers, PTL DEF Spec
=============================================================================
