------------------------------ MODULE Learning ------------------------------
(***************************************************************************)
(* LearningService (src/learning/index.ts) and submitFeedback of LAEL:     *)
(* feedback on executions and the reputation of agents.  Feedback is       *)
(* inserted, applied in a transaction, and shown in the execution's row,   *)
(* in three commits; no method gives way, so other servers and crashes are *)
(* what comes in between.                                                  *)
(***************************************************************************)
EXTENDS Integers, SequencesExt

CONSTANTS
  Agent, Execution, AgentOf,  (* Rows of execution_records; they stay.     *)
  Call, Server, ServerOf,     (* Calls, and the server that runs each.     *)
  Score,                      (* The scores that callers give.             *)
  None

FeedbackRow == [execution : Execution, normalized : 0 .. 10, applied : BOOLEAN]

(* A row holds its score exactly: as score / (10 * scale), at most 1.      *)
ReputationRow ==
  {row \in [score : Nat, scale : Nat \ {0}, count : Nat] : row.score <= 10 * row.scale}

ASSUME LearningAssumption ==
  /\ AgentOf \in [Execution -> Agent]
  /\ ServerOf \in [Call -> Server]
  /\ Score \subseteq Int
  /\ None \notin Call \cup Agent \cup FeedbackRow \cup ReputationRow

VARIABLES
  feedback,    (* feedback_records by the call that inserted each, or None.*)
  reputation,  (* The reputation row of each agent, or None.               *)
  shown,       (* execution_records.feedback: the feedback named, or None. *)
  pc,
  about,       (* The agent whose reputation a call reads or changes.      *)
  reply        (* The reputation a call returned.                          *)

vars == <<feedback, reputation, shown, pc, about, reply>>

Resting == {"idle", "done", "thrown", "lost"}
HoldsLoop == {"apply", "show", "report", "create"}

LoopFree(c) ==
  \A d \in Call \ {c} : ServerOf[d] = ServerOf[c] => pc[d] \notin HoldsLoop

Goto(c, label) == pc' = [pc EXCEPT ![c] = label]

(* Mutant: scores are not clamped.                                         *)
NormalizedFree(score) == 2 * score

(* clamp(score / 5), in tenths.                                            *)
Normalized(score) ==
  IF score < 0 THEN 0 ELSE IF score > 5 THEN 10 ELSE 2 * score

Initial == [score |-> 5, scale |-> 1, count |-> 0]

(* EMA_ALPHA * normalized_score + (1 - EMA_ALPHA) * score                  *)
Blend(row, normalized) ==
  [score |-> normalized * row.scale + 9 * row.score,
   scale |-> 10 * row.scale, count |-> row.count + 1]

(* The loop over the scores of pending feedback.                           *)
Blended(row, scores) ==
  LET after[n \in Nat] == IF n = 0 THEN row ELSE Blend(after[n - 1], scores[n])
  IN  after[Len(scores)]

Scores(order) == [k \in DOMAIN order |-> feedback[order[k]].normalized]

Current(a) == IF reputation[a] = None THEN Initial ELSE reputation[a]

Of(a) == {f \in Call : feedback[f] # None /\ AgentOf[feedback[f].execution] = a}
Applied(a) == {f \in Of(a) : feedback[f].applied}

(* Mutant: WHERE agent_id = ?, whether applied or not.                     *)
PendingAny(a) == Of(a)

Pending(a) == Of(a) \ Applied(a)

Init ==
  /\ feedback = [c \in Call |-> None]
  /\ reputation = [a \in Agent |-> None]
  /\ shown = [e \in Execution |-> None]
  /\ pc = [c \in Call |-> "idle"]
  /\ about = [c \in Call |-> None]
  /\ reply = [c \in Call |-> None]

Feedback(e, score) ==
  [execution |-> e, normalized |-> Normalized(score), applied |-> FALSE]

(* Mutant: the execution's row is written together with the feedback.      *)
SubmitShows(c, e, score) ==
  /\ pc[c] = "idle" /\ LoopFree(c)
  /\ feedback' = [feedback EXCEPT ![c] = Feedback(e, score)]
  /\ shown' = [shown EXCEPT ![e] = c]
  /\ about' = [about EXCEPT ![c] = AgentOf[e]]
  /\ Goto(c, "apply")
  /\ UNCHANGED <<reputation, reply>>

SubmitFeedback(c, e, score) ==
  /\ pc[c] = "idle" /\ LoopFree(c)
  /\ feedback' = [feedback EXCEPT ![c] = Feedback(e, score)]
  /\ about' = [about EXCEPT ![c] = AgentOf[e]]
  /\ Goto(c, "apply")
  /\ UNCHANGED <<reputation, shown, reply>>

(* updateReputation, in a transaction.  Random ids and clocks may put the  *)
(* pending feedback in any order.                                          *)
UpdateReputation(c) ==
  LET a == about[c] IN
  /\ pc[c] = "apply"
  /\ \E order \in SetToSeqs(Pending(a)) :
       reputation' = [reputation EXCEPT ![a] = Blended(Current(a), Scores(order))]
  /\ feedback' = [f \in Call |->
       IF f \in Pending(a) THEN [feedback[f] EXCEPT !.applied = TRUE] ELSE feedback[f]]
  /\ Goto(c, "show")
  /\ UNCHANGED <<shown, about, reply>>

Show(c) ==
  /\ pc[c] = "show"
  /\ shown' = [shown EXCEPT ![feedback[c].execution] = c]
  /\ Goto(c, "report")
  /\ UNCHANGED <<feedback, reputation, about, reply>>

Return(c, row) ==
  /\ reply' = [reply EXCEPT ![c] = row]
  /\ Goto(c, "done")

(* getReputation finds the agent's row.                                    *)
Report(c) ==
  /\ pc[c] = "report"
  /\ Return(c, reputation[about[c]])
  /\ UNCHANGED <<feedback, reputation, shown, about>>

(* getReputation of an agent; without a row one is inserted.               *)
ReadReputation(c, a) ==
  /\ pc[c] = "idle" /\ LoopFree(c)
  /\ about' = [about EXCEPT ![c] = a]
  /\ IF reputation[a] # None THEN Return(c, reputation[a])
     ELSE Goto(c, "create") /\ UNCHANGED reply
  /\ UNCHANGED <<feedback, reputation, shown>>

(* The primary key refuses the insert if another server was faster.        *)
CreateReputation(c) ==
  /\ pc[c] = "create" /\ reputation[about[c]] = None
  /\ reputation' = [reputation EXCEPT ![about[c]] = Initial]
  /\ Return(c, Initial)
  /\ UNCHANGED <<feedback, shown, about>>

(* Mutant: an error of updateReputation is ignored.                        *)
ApplyIgnoresError(c) ==
  /\ pc[c] \in HoldsLoop
  /\ Goto(c, IF pc[c] = "apply" THEN "show" ELSE "thrown")
  /\ UNCHANGED <<feedback, reputation, shown, about, reply>>

(* A statement fails; a transaction that was begun is rolled back.         *)
Throws(c) ==
  /\ pc[c] \in HoldsLoop
  /\ Goto(c, "thrown")
  /\ UNCHANGED <<feedback, reputation, shown, about, reply>>

Crash(s) ==
  /\ \E c \in Call : ServerOf[c] = s /\ pc[c] \notin Resting
  /\ pc' = [c \in Call |-> IF ServerOf[c] = s /\ pc[c] \notin Resting
                             THEN "lost" ELSE pc[c]]
  /\ UNCHANGED <<feedback, reputation, shown, about, reply>>

Next ==
  \/ \E c \in Call, e \in Execution, score \in Score : SubmitFeedback(c, e, score)
  \/ \E c \in Call, a \in Agent : ReadReputation(c, a)
  \/ \E c \in Call :
       \/ UpdateReputation(c) \/ Show(c) \/ Report(c)
       \/ CreateReputation(c) \/ Throws(c)
  \/ \E s \in Server : Crash(s)

Spec == Init /\ [][Next]_vars

-----------------------------------------------------------------------------
(* Every variable holds a value of its kind; reputations are in [0, 1].    *)
TypeOK ==
  /\ feedback \in [Call -> FeedbackRow \cup {None}]
  /\ reputation \in [Agent -> ReputationRow \cup {None}]
  /\ shown \in [Execution -> Call \cup {None}]
  /\ pc \in [Call -> Resting \cup HoldsLoop]
  /\ about \in [Call -> Agent \cup {None}]
  /\ reply \in [Call -> ReputationRow \cup {None}]

(* An agent's reputation is made of the feedback marked as applied, each   *)
(* piece counted once, in some order.                                      *)
ReputationExplained ==
  \A a \in Agent :
    \E order \in SetToSeqs(Applied(a)) : Current(a) = Blended(Initial, Scores(order))

(* Feedback whose call returned has been applied, by its own call or by    *)
(* another server's; feedback waits only if its call is in progress, threw *)
(* or crashed.                                                             *)
NoneForgotten ==
  \A a \in Agent, f \in Call :
    f \in Pending(a) => pc[f] \in {"apply", "thrown", "lost"}

(* The feedback an execution's row shows is about that execution, and is   *)
(* part of the agent's reputation.                                         *)
ShownIsApplied ==
  \A e \in Execution :
    shown[e] # None => feedback[shown[e]].execution = e /\ feedback[shown[e]].applied
=============================================================================
