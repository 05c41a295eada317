--------------------------- MODULE LearningProofs ---------------------------
(***************************************************************************)
(* Theorems about Learning, for every set of agents, executions, calls,    *)
(* servers and scores.                                                     *)
(***************************************************************************)
EXTENDS Learning, FiniteSetTheorems, WellFoundedInduction, TLAPS

(* What 0 has, and n + 1 whenever n has it, every natural number has.      *)
LEMMA NaturalInduction ==
  ASSUME NEW Good, 0 \in Good, \A n \in Nat : n \in Good => n + 1 \in Good
  PROVE  Nat \subseteq Good
  <1> DEFINE Bad == Nat \ Good
  <1> SUFFICES ASSUME Bad # {} PROVE FALSE
    OBVIOUS
  <1>1. IsWellFoundedOn(OpToRel(<, Nat), Nat)
    BY NatLessThanWellFounded
  <1>2. PICK n \in Bad : \A m \in Bad : <<m, n>> \notin OpToRel(<, Nat)
    <2> HIDE DEF Bad
    <2>1. Bad \subseteq Nat
      BY DEF Bad
    <2> QED
      BY <1>1, <2>1, WFMin
  <1>3. n \in Nat /\ n \notin Good
    OBVIOUS
  <1>4. n # 0
    BY <1>3
  <1>5. n - 1 \in Nat /\ n - 1 < n /\ (n - 1) + 1 = n
    BY <1>3, <1>4
  <1>6. <<n - 1, n>> \in OpToRel(<, Nat)
    BY <1>3, <1>5 DEF OpToRel
  <1>7. n - 1 \in Good
    BY <1>2, <1>5, <1>6
  <1>8. (n - 1) + 1 \in Good
    BY <1>5, <1>7
  <1> QED
    BY <1>3, <1>5, <1>8

(* The recursive function in Blended, up to n and for every number of them.*)
BlendsTo(g, n, row, scores) ==
  \A m \in 0 .. n : g[m] = IF m = 0 THEN row ELSE Blend(g[m - 1], scores[m])

Blends(g, row, scores) ==
  g = [n \in Nat |-> IF n = 0 THEN row ELSE Blend(g[n - 1], scores[n])]

LEMMA BlendsToAgree ==
  ASSUME NEW row, NEW scores, NEW more, NEW i \in Nat, NEW g, NEW h,
         BlendsTo(g, i, row, scores), BlendsTo(h, i, row, more),
         \A m \in 1 .. i : scores[m] = more[m]
  PROVE  \A m \in 0 .. i : g[m] = h[m]
  <1> DEFINE Good == {m \in Nat : m <= i => g[m] = h[m]}
  <1>1. 0 \in Good
    BY DEF BlendsTo
  <1>2. ASSUME NEW n \in Nat, n \in Good PROVE n + 1 \in Good
    <2>1. CASE n + 1 <= i
      <3>1. n + 1 \in 0 .. i /\ n + 1 # 0 /\ (n + 1) - 1 = n /\ n + 1 \in 1 .. i /\ n <= i
        BY <2>1
      <3>2. g[n + 1] = Blend(g[n], scores[n + 1]) /\ h[n + 1] = Blend(h[n], more[n + 1])
        BY <3>1 DEF BlendsTo
      <3> QED
        BY <1>2, <3>1, <3>2
    <2> QED
      BY <2>1
  <1>3. Nat \subseteq Good
    <2> HIDE DEF Good
    <2> QED
      BY <1>1, <1>2, NaturalInduction
  <1> QED
    BY <1>3

(* The function that CHOOSE looks for exists.                              *)
LEMMA BlendsExist ==
  ASSUME NEW row, NEW scores
  PROVE  \E g : Blends(g, row, scores)
  <1> DEFINE Good == {n \in Nat : \E g : BlendsTo(g, n, row, scores)}
             Solve(n) == CHOOSE g : BlendsTo(g, n, row, scores)
             after == [n \in Nat |-> Solve(n)[n]]
  <1>1. 0 \in Good
    <2>1. BlendsTo([m \in {0} |-> row], 0, row, scores)
      BY DEF BlendsTo
    <2> QED
      BY <2>1
  <1>2. ASSUME NEW n \in Nat, n \in Good PROVE n + 1 \in Good
    <2>1. PICK g : BlendsTo(g, n, row, scores)
      BY <1>2
    <2> DEFINE h == [m \in 0 .. n + 1 |->
                       IF m = n + 1 THEN Blend(g[n], scores[n + 1]) ELSE g[m]]
    <2>2. ASSUME NEW m \in 0 .. n + 1
          PROVE  h[m] = IF m = 0 THEN row ELSE Blend(h[m - 1], scores[m])
      <3>1. CASE m = n + 1
        BY <3>1
      <3>2. CASE m # n + 1
        <4>1. m \in 0 .. n /\ (m # 0 => m - 1 \in 0 .. n /\ m - 1 # n + 1)
          BY <3>2
        <4>2. h[m] = g[m] /\ (m # 0 => h[m - 1] = g[m - 1])
          BY <4>1, <3>2
        <4> QED
          BY <2>1, <4>1, <4>2 DEF BlendsTo
      <3> QED
        BY <3>1, <3>2
    <2>3. BlendsTo(h, n + 1, row, scores)
      BY <2>2 DEF BlendsTo
    <2> QED
      BY <2>3
  <1>3. \A n \in Nat : BlendsTo(Solve(n), n, row, scores)
    <2>1. Nat \subseteq Good
      <3> HIDE DEF Good
      <3> QED
        BY <1>1, <1>2, NaturalInduction
    <2> QED
      BY <2>1
  <1>4. ASSUME NEW n \in Nat
        PROVE  after[n] = IF n = 0 THEN row ELSE Blend(after[n - 1], scores[n])
    <2>1. BlendsTo(Solve(n), n, row, scores)
      BY <1>3
    <2>2. CASE n = 0
      BY <2>1, <2>2 DEF BlendsTo
    <2>3. CASE n # 0
      <3>1. n - 1 \in Nat /\ n - 1 \in 0 .. n - 1 /\ n \in 0 .. n
        BY <2>3
      <3>2. BlendsTo(Solve(n - 1), n - 1, row, scores)
        BY <1>3, <3>1
      <3>3. BlendsTo(Solve(n), n - 1, row, scores)
        BY <2>1, <3>1 DEF BlendsTo
      <3> HIDE DEF Solve
      <3>4. Solve(n)[n - 1] = Solve(n - 1)[n - 1]
        BY <3>1, <3>2, <3>3, BlendsToAgree
      <3>5. Solve(n)[n] = Blend(Solve(n)[n - 1], scores[n])
        BY <2>1, <2>3, <3>1 DEF BlendsTo
      <3> QED
        BY <2>3, <3>1, <3>4, <3>5
    <2> QED
      BY <2>2, <2>3
  <1>5. after = [n \in Nat |-> IF n = 0 THEN row ELSE Blend(after[n - 1], scores[n])]
    <2> HIDE DEF Solve
    <2> QED
      BY <1>4
  <1> QED
    BY <1>5 DEF Blends

(* What Blended computes, step by step.                                    *)
LEMMA BlendedRuns ==
  ASSUME NEW row, NEW scores
  PROVE  \E g : Blended(row, scores) = g[Len(scores)] /\ \A n \in Nat : BlendsTo(g, n, row, scores)
  <1> DEFINE after == CHOOSE g : Blends(g, row, scores)
  <1>1. Blends(after, row, scores)
    BY BlendsExist
  <1>2. Blended(row, scores) = after[Len(scores)]
    BY DEF Blended, Blends
  <1> HIDE DEF after
  <1>3. \A n \in Nat : BlendsTo(after, n, row, scores)
    BY <1>1 DEF Blends, BlendsTo
  <1> QED
    BY <1>2, <1>3

LEMMA BlendedNone ==
  ASSUME NEW row, NEW scores, Len(scores) = 0
  PROVE  Blended(row, scores) = row
  BY BlendedRuns DEF BlendsTo

(* Scores that come later are blended into what the earlier ones made.     *)
LEMMA BlendedJoins ==
  ASSUME NEW row, NEW X, NEW v \in Seq(X), NEW w \in Seq(X)
  PROVE  Blended(row, v \o w) = Blended(Blended(row, v), w)
  <1> DEFINE all == v \o w
             k == Len(v)
             mid == Blended(row, v)
  <1>1. /\ k \in Nat /\ Len(w) \in Nat /\ Len(all) = k + Len(w)
        /\ \A m \in 1 .. k : v[m] = all[m]
        /\ \A m \in 1 .. Len(w) : all[k + m] = w[m]
    OBVIOUS
  <1> HIDE DEF all, k
  <1>2. PICK g : mid = g[k] /\ \A n \in Nat : BlendsTo(g, n, row, v)
    BY BlendedRuns DEF k
  <1> HIDE DEF mid
  <1>3. PICK f : Blended(row, all) = f[Len(all)] /\ \A n \in Nat : BlendsTo(f, n, row, all)
    BY BlendedRuns
  <1>4. PICK h : Blended(mid, w) = h[Len(w)] /\ \A n \in Nat : BlendsTo(h, n, mid, w)
    BY BlendedRuns
  <1>5. f[k] = mid
    <2>1. BlendsTo(g, k, row, v) /\ BlendsTo(f, k, row, all)
      BY <1>1, <1>2, <1>3
    <2>2. \A m \in 0 .. k : g[m] = f[m]
      <3>1. k \in Nat
        BY <1>1
      <3>2. \A m \in 1 .. k : v[m] = all[m]
        BY <1>1
      <3> QED
        BY <2>1, <3>1, <3>2, BlendsToAgree
    <2> QED
      BY <1>1, <1>2, <2>2
  <1> DEFINE Good == {n \in Nat : n <= Len(w) => f[k + n] = h[n]}
  <1>6. 0 \in Good
    <2>1. BlendsTo(h, 0, mid, w) /\ 0 \in 0 .. 0
      BY <1>4
    <2>2. h[0] = mid
      BY <2>1 DEF BlendsTo
    <2> QED
      BY <1>1, <1>5, <2>2
  <1>7. ASSUME NEW n \in Nat, n \in Good PROVE n + 1 \in Good
    <2>1. CASE n + 1 <= Len(w)
      <3>1. /\ n + 1 \in 0 .. n + 1 /\ n + 1 # 0 /\ (n + 1) - 1 = n
            /\ k + n + 1 \in Nat /\ k + n + 1 \in 0 .. k + n + 1 /\ k + n + 1 # 0
            /\ (k + n + 1) - 1 = k + n /\ n + 1 \in 1 .. Len(w) /\ n <= Len(w)
            /\ k + n + 1 = k + (n + 1)
        BY <1>1, <2>1
      <3>2. h[n + 1] = Blend(h[n], w[n + 1])
        <4>1. BlendsTo(h, n + 1, mid, w)
          BY <1>4
        <4> QED
          BY <3>1, <4>1 DEF BlendsTo
      <3>3. f[k + n + 1] = Blend(f[k + n], all[k + n + 1])
        <4>1. BlendsTo(f, k + n + 1, row, all)
          BY <1>3, <3>1
        <4> QED
          BY <3>1, <4>1 DEF BlendsTo
      <3>4. all[k + (n + 1)] = w[n + 1]
        BY <1>1, <3>1
      <3> QED
        BY <1>7, <3>1, <3>2, <3>3, <3>4
    <2> QED
      BY <2>1
  <1>8. Nat \subseteq Good
    <2> HIDE DEF Good
    <2> QED
      BY <1>6, <1>7, NaturalInduction
  <1>9. f[k + Len(w)] = h[Len(w)]
    BY <1>1, <1>8
  <1> QED
    BY <1>1, <1>3, <1>4, <1>9 DEF all, mid

(* A blend of a reputation and a score between 0 and 1 is a reputation.    *)
LEMMA BlendIsReputation ==
  ASSUME NEW row \in ReputationRow, NEW normalized \in 0 .. 10
  PROVE  Blend(row, normalized) \in ReputationRow
  <1>1. row.score \in Nat /\ row.scale \in Nat \ {0} /\ row.count \in Nat /\ row.score <= 10 * row.scale
    BY DEF ReputationRow
  <1> DEFINE part == normalized * row.scale
  <1>2. part \in Nat /\ part <= 10 * row.scale
    <2>1. normalized \in {0, 1, 2, 3, 4, 5, 6, 7, 8, 9, 10}
      OBVIOUS
    <2> QED
      BY <1>1, <2>1
  <1> DEFINE score == part + 9 * row.score
             scale == 10 * row.scale
  <1>3. Blend(row, normalized) = [score |-> score, scale |-> scale, count |-> row.count + 1]
    BY DEF Blend
  <1> HIDE DEF part
  <1>4. score \in Nat /\ scale \in Nat \ {0} /\ row.count + 1 \in Nat /\ score <= 10 * scale
    BY <1>1, <1>2
  <1> HIDE DEF score, scale
  <1> QED
    BY <1>3, <1>4 DEF ReputationRow

LEMMA BlendedIsReputation ==
  ASSUME NEW row \in ReputationRow, NEW scores \in Seq(0 .. 10)
  PROVE  Blended(row, scores) \in ReputationRow
  <1>1. PICK g : Blended(row, scores) = g[Len(scores)] /\ \A n \in Nat : BlendsTo(g, n, row, scores)
    BY BlendedRuns
  <1> DEFINE Good == {n \in Nat : n <= Len(scores) => g[n] \in ReputationRow}
  <1>2. 0 \in Good
    BY <1>1 DEF BlendsTo
  <1>3. ASSUME NEW n \in Nat, n \in Good PROVE n + 1 \in Good
    <2>1. CASE n + 1 <= Len(scores)
      <3>1. n + 1 \in 0 .. n + 1 /\ n + 1 # 0 /\ (n + 1) - 1 = n /\ n <= Len(scores)
        BY <2>1
      <3>2. g[n + 1] = Blend(g[n], scores[n + 1])
        BY <1>1, <3>1 DEF BlendsTo
      <3>3. scores[n + 1] \in 0 .. 10
        BY <2>1
      <3>4. g[n] \in ReputationRow
        BY <1>3, <3>1
      <3> QED
        BY <3>2, <3>3, <3>4, BlendIsReputation
    <2> QED
      BY <2>1
  <1>4. Nat \subseteq Good
    <2> HIDE DEF Good
    <2> QED
      BY <1>2, <1>3, NaturalInduction
  <1> QED
    BY <1>1, <1>4

(* An order of one set and then one of another is an order of both.        *)
LEMMA OrdersJoin ==
  ASSUME NEW S, IsFiniteSet(S), NEW T, IsFiniteSet(T), S \cap T = {},
         NEW s \in SetToSeqs(S), NEW t \in SetToSeqs(T)
  PROVE  s \o t \in SetToSeqs(S \cup T)
  <1> DEFINE i == Cardinality(S)
             j == Cardinality(T)
             both == s \o t
  <1>1. i \in Nat /\ j \in Nat /\ Cardinality(S \cup T) = i + j
    <2>1. Cardinality(S \cup T) = i + j - Cardinality(S \cap T)
      BY FS_Union
    <2>2. Cardinality(S \cap T) = 0
      BY FS_EmptySet
    <2>3. i \in Nat /\ j \in Nat
      BY FS_CardinalityType
    <2> QED
      BY <2>1, <2>2, <2>3
  <1>2. /\ s \in [1 .. i -> S] /\ \A m, n \in 1 .. i : m # n => s[m] # s[n]
        /\ t \in [1 .. j -> T] /\ \A m, n \in 1 .. j : m # n => t[m] # t[n]
    BY DEF SetToSeqs
  <1> HIDE DEF i, j
  <1>3. s \in Seq(S \cup T) /\ Len(s) = i /\ t \in Seq(S \cup T) /\ Len(t) = j
    BY <1>1, <1>2
  <1>4. /\ both \in Seq(S \cup T) /\ Len(both) = i + j
        /\ \A n \in 1 .. i + j : both[n] = IF n <= i THEN s[n] ELSE t[n - i]
    BY <1>1, <1>3
  <1> HIDE DEF both
  <1>5. \A n \in 1 .. i + j :
          \/ n <= i /\ n \in 1 .. i /\ both[n] = s[n] /\ both[n] \in S
          \/ n > i /\ n - i \in 1 .. j /\ both[n] = t[n - i] /\ both[n] \in T
    BY <1>1, <1>2, <1>4
  <1>6. both \in [1 .. i + j -> S \cup T]
    BY <1>1, <1>4
  <1>7. ASSUME NEW m \in 1 .. i + j, NEW n \in 1 .. i + j, m # n
        PROVE  both[m] # both[n]
    <2>1. CASE m <= i /\ n <= i
      BY <1>1, <1>2, <1>5, <1>7, <2>1
    <2>2. CASE m > i /\ n > i
      <3>1. m - i # n - i
        BY <1>1, <1>7
      <3> QED
        BY <1>1, <1>2, <1>5, <2>2, <3>1
    <2>3. CASE m <= i /\ n > i
      <3>1. both[m] \in S /\ both[n] \in T
        BY <1>1, <1>5, <2>3
      <3> QED
        BY <3>1
    <2>4. CASE m > i /\ n <= i
      <3>1. both[m] \in T /\ both[n] \in S
        BY <1>1, <1>5, <2>4
      <3> QED
        BY <3>1
    <2>5. (m <= i \/ m > i) /\ (n <= i \/ n > i)
      BY <1>1
    <2> QED
      BY <2>1, <2>2, <2>3, <2>4, <2>5
  <1>8. both \in SetToSeqs(S \cup T)
    BY <1>1, <1>6, <1>7 DEF SetToSeqs
  <1> QED
    BY <1>8 DEF both

-----------------------------------------------------------------------------
Typed ==
  /\ feedback \in [Call -> FeedbackRow \cup {None}]
  /\ shown \in [Execution -> Call \cup {None}]
  /\ pc \in [Call -> Resting \cup HoldsLoop]
  /\ about \in [Call -> Agent \cup {None}]

IsApplied(f) == feedback[f] # None /\ feedback[f].applied

(* Where a call stands says what has become of its feedback.               *)
Placed(c) ==
  /\ pc[c] = "idle" => feedback[c] = None
  /\ pc[c] = "apply" => feedback[c] # None /\ AgentOf[feedback[c].execution] = about[c]
  /\ pc[c] = "show" => IsApplied(c)
  /\ feedback[c] # None /\ ~feedback[c].applied => pc[c] \in {"apply", "thrown", "lost"}

Shows(e) ==
  shown[e] # None => IsApplied(shown[e]) /\ feedback[shown[e]].execution = e

(* The inductive invariant.                                                *)
IInv ==
  /\ Typed
  /\ \A c \in Call : Placed(c)
  /\ \A e \in Execution : Shows(e)

LEMMA InitIInv == Init => IInv
  BY DEF Init, IInv, Typed, Placed, Shows, Resting, HoldsLoop

(* A step of call c that leaves feedback and execution rows alone.         *)
LEMMA QuietStep ==
  ASSUME IInv, NEW c \in Call, UNCHANGED <<feedback, shown>>,
         NEW label \in (Resting \cup HoldsLoop) \ {"idle", "apply", "show"}, Goto(c, label),
         \/ about' = about /\ label \in {"thrown", "lost"}
         \/ about' \in [Call -> Agent \cup {None}] /\ pc[c] \notin {"apply", "thrown", "lost"}
            /\ \A d \in Call \ {c} : about'[d] = about[d]
  PROVE  IInv'
  <1>1. pc' = [pc EXCEPT ![c] = label] /\ Typed'
    BY DEF Goto, IInv, Typed
  <1>2. ASSUME NEW d \in Call PROVE Placed(d)'
    BY <1>1 DEF IInv, Typed, Placed, IsApplied
  <1>3. ASSUME NEW e \in Execution PROVE Shows(e)'
    BY DEF IInv, Shows, IsApplied
  <1> QED
    BY <1>1, <1>2, <1>3 DEF IInv

LEMMA NextIInv == IInv /\ [Next]_vars => IInv'
  <1> SUFFICES ASSUME IInv, [Next]_vars PROVE IInv'
    OBVIOUS
  <1>1. ASSUME NEW c \in Call, NEW e \in Execution, NEW score \in Score,
               SubmitFeedback(c, e, score)
        PROVE  IInv'
    <2> DEFINE row == Feedback(e, score)
    <2>0. Normalized(score) \in 0 .. 10
      BY LearningAssumption DEF Normalized
    <2>1. row \in FeedbackRow /\ row # None /\ row.execution = e
      <3>1. row \in FeedbackRow
        BY <2>0 DEF Feedback, FeedbackRow
      <3>2. None \notin FeedbackRow
        BY LearningAssumption
      <3> QED
        BY <3>1, <3>2 DEF Feedback
    <2> HIDE DEF row
    <2>2. /\ pc[c] = "idle" /\ feedback' = [feedback EXCEPT ![c] = row]
          /\ about' = [about EXCEPT ![c] = AgentOf[e]]
          /\ pc' = [pc EXCEPT ![c] = "apply"] /\ shown' = shown
      BY <1>1 DEF SubmitFeedback, Goto, row
    <2>3. feedback[c] = None /\ AgentOf[e] \in Agent
      BY <2>2, LearningAssumption DEF IInv, Placed
    <2>4. Typed'
      BY <2>1, <2>2, <2>3 DEF IInv, Typed, Resting, HoldsLoop
    <2>5. ASSUME NEW d \in Call PROVE Placed(d)'
      BY <2>1, <2>2 DEF IInv, Typed, Placed, IsApplied
    <2>6. ASSUME NEW x \in Execution PROVE Shows(x)'
      BY <2>2, <2>3 DEF IInv, Typed, Shows, IsApplied
    <2> QED
      BY <2>4, <2>5, <2>6 DEF IInv
  <1>2. ASSUME NEW c \in Call, UpdateReputation(c)
        PROVE  IInv'
    <2> DEFINE pending == Pending(about[c])
    <2>1. /\ pc[c] = "apply" /\ UNCHANGED <<shown, about>>
          /\ pc' = [pc EXCEPT ![c] = "show"]
          /\ feedback' = [f \in Call |->
               IF f \in pending THEN [feedback[f] EXCEPT !.applied = TRUE] ELSE feedback[f]]
      BY <1>2 DEF UpdateReputation, Goto
    <2>2. \A f \in pending : f \in Call /\ feedback[f] \in FeedbackRow /\ ~feedback[f].applied
      BY DEF Pending, Of, Applied, IInv, Typed
    <2>3. c \in pending \/ IsApplied(c)
      BY <2>1 DEF Pending, Of, Applied, IInv, Placed, IsApplied
    <2> HIDE DEF pending
    <2>4. ASSUME NEW f \in pending
          PROVE  /\ feedback'[f] \in FeedbackRow /\ feedback'[f] # None
                 /\ feedback'[f].applied /\ feedback'[f].execution = feedback[f].execution
      BY <2>1, <2>2, LearningAssumption DEF FeedbackRow
    <2>5. \A f \in Call \ pending : feedback'[f] = feedback[f]
      BY <2>1
    <2>6. Typed'
      BY <2>1, <2>4, <2>5 DEF IInv, Typed, Resting, HoldsLoop
    <2>7. ASSUME NEW d \in Call PROVE Placed(d)'
      <3>1. CASE d \in pending
        <4>1. feedback[d] # None /\ pc[d] \in {"apply", "thrown", "lost"}
          BY <2>2, <3>1, LearningAssumption DEF IInv, Placed
        <4>2. IsApplied(d)' /\ feedback'[d].execution = feedback[d].execution
          BY <2>4, <3>1 DEF IsApplied
        <4>3. pc'[d] \in {"apply", "show", "thrown", "lost"}
              /\ (pc'[d] = "apply" => pc[d] = "apply") /\ about'[d] = about[d]
          BY <2>1, <4>1 DEF IInv, Typed
        <4> QED
          BY <4>1, <4>2, <4>3 DEF IInv, Placed, IsApplied
      <3>2. CASE d \notin pending
        BY <2>1, <2>3, <2>5, <3>2 DEF IInv, Typed, Placed, IsApplied
      <3> QED
        BY <3>1, <3>2
    <2>8. ASSUME NEW e \in Execution PROVE Shows(e)'
      BY <2>1, <2>2, <2>4, <2>5 DEF IInv, Typed, Shows, IsApplied
    <2> QED
      BY <2>6, <2>7, <2>8 DEF IInv
  <1>3. ASSUME NEW c \in Call, Show(c)
        PROVE  IInv'
    <2>1. /\ pc[c] = "show" /\ UNCHANGED <<feedback, about>>
          /\ pc' = [pc EXCEPT ![c] = "report"]
          /\ shown' = [shown EXCEPT ![feedback[c].execution] = c]
      BY <1>3 DEF Show, Goto
    <2>2. IsApplied(c) /\ feedback[c] \in FeedbackRow
      BY <2>1 DEF IInv, Typed, Placed, IsApplied
    <2>3. Typed'
      BY <2>1 DEF IInv, Typed, Resting, HoldsLoop
    <2>4. ASSUME NEW d \in Call PROVE Placed(d)'
      BY <2>1, <2>2 DEF IInv, Typed, Placed, IsApplied
    <2>5. ASSUME NEW e \in Execution PROVE Shows(e)'
      BY <2>1, <2>2 DEF IInv, Typed, Shows, IsApplied
    <2> QED
      BY <2>3, <2>4, <2>5 DEF IInv
  <1>4. ASSUME NEW c \in Call, NEW a \in Agent, ReadReputation(c, a)
        PROVE  IInv'
    <2>1. /\ pc[c] = "idle" /\ UNCHANGED <<feedback, shown>>
          /\ about' = [about EXCEPT ![c] = a]
          /\ Goto(c, "done") \/ Goto(c, "create")
      BY <1>4 DEF ReadReputation, Return
    <2>2. /\ about' \in [Call -> Agent \cup {None}]
          /\ \A d \in Call \ {c} : about'[d] = about[d]
      BY <2>1 DEF IInv, Typed
    <2> QED
      BY <2>1, <2>2, QuietStep DEF Resting, HoldsLoop
  <1>5. ASSUME NEW c \in Call, Report(c) \/ CreateReputation(c)
        PROVE  IInv'
    <2>1. /\ pc[c] \in {"report", "create"} /\ UNCHANGED <<feedback, shown, about>>
          /\ Goto(c, "done")
      BY <1>5 DEF Report, CreateReputation, Return
    <2> QED
      BY <2>1, QuietStep DEF Resting, HoldsLoop, IInv, Typed
  <1>6. ASSUME NEW c \in Call, Throws(c)
        PROVE  IInv'
    BY <1>6, QuietStep DEF Throws, Resting
  <1>7. ASSUME NEW s \in Server, Crash(s)
        PROVE  IInv'
    <2>1. /\ UNCHANGED <<feedback, shown, about>>
          /\ pc' \in [Call -> Resting \cup HoldsLoop]
          /\ \A c \in Call : pc'[c] = pc[c] \/ (pc'[c] = "lost" /\ pc[c] \notin Resting)
      BY <1>7 DEF Crash, IInv, Typed, Resting
    <2> QED
      BY <2>1 DEF IInv, Typed, Placed, Shows, IsApplied, Resting
  <1>8. CASE UNCHANGED vars
    BY <1>8 DEF vars, IInv, Typed, Placed, Shows, IsApplied
  <1> QED
    BY <1>1, <1>2, <1>3, <1>4, <1>5, <1>6, <1>7, <1>8 DEF Next

(* The inductive invariant holds in every reachable state.                 *)
THEOREM Invariant == Spec => []IInv
  BY InitIInv, NextIInv, PTL DEF Spec

(* Feedback waits to be applied only while its call is in progress, or     *)
(* because it threw or crashed, whatever other servers apply meanwhile.    *)
THEOREM NoneAreForgotten == Spec => []NoneForgotten
  <1>1. IInv => NoneForgotten
    BY DEF IInv, Placed, NoneForgotten, Pending, Applied, Of
  <1> QED
    BY <1>1, Invariant, PTL

(* The feedback an execution's row shows is about it, and has been applied.*)
THEOREM ShownAreApplied == Spec => []ShownIsApplied
  <1>1. IInv => ShownIsApplied
    BY DEF IInv, Shows, IsApplied, ShownIsApplied
  <1> QED
    BY <1>1, Invariant, PTL

-----------------------------------------------------------------------------
Given == {f \in Call : feedback[f] # None}

(* What a call will report is the reputation of an agent.                  *)
Aims == \A c \in Call : pc[c] \in HoldsLoop => about[c] \in Agent

(* The inductive invariant of reputations; only finitely many calls have   *)
(* given feedback.                                                         *)
ReputationInv ==
  /\ IsFiniteSet(Given)
  /\ Aims
  /\ reputation \in [Agent -> ReputationRow \cup {None}]
  /\ reply \in [Call -> ReputationRow \cup {None}]
  /\ ReputationExplained

LEMMA InitialIsReputation == Initial \in ReputationRow
  BY DEF Initial, ReputationRow

LEMMA InitReputations == Init => ReputationInv
  <1> SUFFICES ASSUME Init PROVE ReputationInv
    OBVIOUS
  <1>1. Given = {}
    BY DEF Init, Given
  <1>2. IsFiniteSet(Given)
    BY <1>1, FS_EmptySet
  <1>3. ASSUME NEW a \in Agent
        PROVE  \E order \in SetToSeqs(Applied(a)) : Current(a) = Blended(Initial, Scores(order))
    <2>1. Applied(a) = {}
      BY DEF Init, Applied, Of
    <2>2. Cardinality({}) = 0
      BY FS_EmptySet
    <2>3. <<>> \in SetToSeqs(Applied(a))
      BY <2>1, <2>2 DEF SetToSeqs
    <2>4. Len(Scores(<<>>)) = 0
      BY DEF Scores
    <2>5. Current(a) = Initial
      BY DEF Init, Current
    <2> QED
      BY <2>3, <2>4, <2>5, BlendedNone
  <1> QED
    BY <1>2, <1>3 DEF Init, ReputationInv, ReputationExplained, Aims, HoldsLoop

(* Feedback of agent a, as long as it is not changed, explains the same    *)
(* reputation.                                                             *)
LEMMA SameExplanation ==
  ASSUME NEW a \in Agent, Current(a)' = Current(a), Applied(a)' = Applied(a),
         \A f \in Applied(a) : feedback'[f].normalized = feedback[f].normalized,
         \E order \in SetToSeqs(Applied(a)) : Current(a) = Blended(Initial, Scores(order))
  PROVE  (\E order \in SetToSeqs(Applied(a)) : Current(a) = Blended(Initial, Scores(order)))'
  <1>1. PICK order \in SetToSeqs(Applied(a)) : Current(a) = Blended(Initial, Scores(order))
    OBVIOUS
  <1>2. \A k \in DOMAIN order : order[k] \in Applied(a)
    BY <1>1 DEF SetToSeqs
  <1>3. Scores(order)' = Scores(order)
    BY <1>2 DEF Scores
  <1>4. Blended(Initial, Scores(order))' = Blended(Initial, Scores(order))
    BY <1>3
  <1> QED
    BY <1>1, <1>4

(* A step that changes no feedback and no reputation that an agent has.    *)
LEMMA NoFeedbackStep ==
  ASSUME ReputationInv, feedback' = feedback, \A a \in Agent : Current(a)' = Current(a)
  PROVE  IsFiniteSet(Given)' /\ ReputationExplained'
  <1>1. Given' = Given
    BY DEF Given
  <1>2. \A a \in Agent : Applied(a)' = Applied(a)
    BY DEF Applied, Of
  <1>3. ASSUME NEW a \in Agent
        PROVE  (\E order \in SetToSeqs(Applied(a)) : Current(a) = Blended(Initial, Scores(order)))'
    <2>1. \E order \in SetToSeqs(Applied(a)) : Current(a) = Blended(Initial, Scores(order))
      BY DEF ReputationInv, ReputationExplained
    <2>2. Current(a)' = Current(a) /\ Applied(a)' = Applied(a)
      BY <1>2
    <2> QED
      BY <2>1, <2>2, SameExplanation
  <1>4. IsFiniteSet(Given)'
    BY <1>1 DEF ReputationInv
  <1> QED
    BY <1>3, <1>4 DEF ReputationExplained

(* updateReputation blends the pending feedback of an agent into what the  *)
(* earlier feedback made; what explains the other agents stays.            *)
LEMMA UpdateExplains ==
  ASSUME IInv, ReputationInv, NEW c \in Call, about[c] \in Agent, UpdateReputation(c)
  PROVE  /\ reputation' \in [Agent -> ReputationRow \cup {None}]
         /\ IsFiniteSet(Given)'
         /\ ReputationExplained'
  <1>0. PICK a \in Agent : a = about[c]
    OBVIOUS
  <1> DEFINE pending == Pending(a)
             applied == Applied(a)
  <1>1. PICK late \in SetToSeqs(pending) :
          reputation' = [reputation EXCEPT ![a] = Blended(Current(a), Scores(late))]
    BY <1>0 DEF UpdateReputation
  <1>2. feedback' = [f \in Call |->
               IF f \in pending THEN [feedback[f] EXCEPT !.applied = TRUE] ELSE feedback[f]]
    BY <1>0 DEF UpdateReputation
  <1>3. \A f \in pending : f \in Call /\ feedback[f] \in FeedbackRow /\ ~feedback[f].applied
                           /\ AgentOf[feedback[f].execution] = a
    BY DEF Pending, Of, Applied, IInv, Typed
  <1>4. \A f \in applied : f \in Call /\ feedback[f] \in FeedbackRow /\ f \notin pending
    BY DEF Pending, Of, Applied, IInv, Typed
  <1>5. PICK early \in SetToSeqs(applied) : Current(a) = Blended(Initial, Scores(early))
    BY DEF ReputationInv, ReputationExplained
  <1>6. Current(a) \in ReputationRow
    BY InitialIsReputation DEF Current, ReputationInv
  <1>7. \A f \in Of(a) : feedback[f] \in FeedbackRow /\ f \in Given
    BY DEF Of, Given, IInv, Typed
  <1>8. pending \subseteq Of(a) /\ applied \subseteq Of(a) /\ applied \cap pending = {}
        /\ applied \cup pending = Of(a)
    BY DEF Pending, Applied
  <1>9. IsFiniteSet(pending) /\ IsFiniteSet(applied)
    <2>1. pending \in SUBSET Given /\ applied \in SUBSET Given
      BY <1>7, <1>8
    <2> QED
      BY <2>1, FS_Subset DEF ReputationInv
  <1> HIDE DEF pending, applied
  <1>10. ASSUME NEW S \in SUBSET Of(a), IsFiniteSet(S), NEW order \in SetToSeqs(S)
         PROVE  /\ order \in Seq(S) /\ DOMAIN order = 1 .. Len(order)
                /\ Scores(order) \in Seq(0 .. 10) /\ Len(Scores(order)) = Len(order)
    <2>1. Cardinality(S) \in Nat
      BY <1>10, FS_CardinalityType
    <2>2. order \in [1 .. Cardinality(S) -> S]
      BY <1>10 DEF SetToSeqs
    <2>3. order \in Seq(S) /\ Len(order) = Cardinality(S) /\ DOMAIN order = 1 .. Len(order)
      BY <2>1, <2>2
    <2>4. \A k \in DOMAIN order : feedback[order[k]].normalized \in 0 .. 10
      BY <1>7, <2>2 DEF FeedbackRow
    <2>5. Scores(order) \in [1 .. Len(order) -> 0 .. 10]
      BY <2>3, <2>4 DEF Scores
    <2> QED
      BY <2>1, <2>3, <2>5
  <1> DEFINE row == Blended(Current(a), Scores(late))
             order == early \o late
  <1>11. row \in ReputationRow /\ row # None
    <2>1. Scores(late) \in Seq(0 .. 10)
      BY <1>8, <1>9, <1>10
    <2>2. row \in ReputationRow
      BY <1>6, <2>1, BlendedIsReputation
    <2> QED
      BY <2>2, LearningAssumption
  <1>12. order \in SetToSeqs(Of(a))
    BY <1>8, <1>9, OrdersJoin
  <1>13. Scores(order) = Scores(early) \o Scores(late)
    <2>1. /\ early \in Seq(Of(a)) /\ DOMAIN early = 1 .. Len(early)
          /\ Scores(early) \in Seq(0 .. 10) /\ Len(Scores(early)) = Len(early)
      <3>1. /\ early \in Seq(applied) /\ DOMAIN early = 1 .. Len(early)
            /\ Scores(early) \in Seq(0 .. 10) /\ Len(Scores(early)) = Len(early)
        BY <1>8, <1>9, <1>10
      <3> QED
        BY <1>8, <3>1
    <2>2. /\ late \in Seq(Of(a)) /\ DOMAIN late = 1 .. Len(late)
          /\ Scores(late) \in Seq(0 .. 10) /\ Len(Scores(late)) = Len(late)
      <3>1. /\ late \in Seq(pending) /\ DOMAIN late = 1 .. Len(late)
            /\ Scores(late) \in Seq(0 .. 10) /\ Len(Scores(late)) = Len(late)
        BY <1>8, <1>9, <1>10
      <3> QED
        BY <1>8, <3>1
    <2> DEFINE i == Len(early)
               j == Len(late)
               joined == Scores(early) \o Scores(late)
    <2>3. i \in Nat /\ j \in Nat
      BY <2>1, <2>2
    <2>4. /\ order \in Seq(Of(a)) /\ Len(order) = i + j /\ DOMAIN order = 1 .. i + j
          /\ \A k \in 1 .. i + j : order[k] = IF k <= i THEN early[k] ELSE late[k - i]
      BY <2>1, <2>2, <2>3
    <2>5. /\ joined \in Seq(0 .. 10) /\ Len(joined) = i + j /\ DOMAIN joined = 1 .. i + j
          /\ \A k \in 1 .. i + j :
               joined[k] = IF k <= i THEN Scores(early)[k] ELSE Scores(late)[k - i]
      BY <2>1, <2>2, <2>3
    <2> HIDE DEF order, joined, i, j
    <2>6. ASSUME NEW k \in 1 .. i + j
          PROVE  joined[k] = feedback[order[k]].normalized
      <3>1. CASE k <= i
        <4>1. k \in DOMAIN early
          BY <2>1, <2>3, <3>1 DEF i
        <4>2. Scores(early)[k] = feedback[early[k]].normalized
          BY <4>1 DEF Scores
        <4> QED
          BY <2>4, <2>5, <3>1, <4>2
      <3>2. CASE k > i
        <4>1. k - i \in DOMAIN late
          BY <2>2, <2>3, <3>2 DEF j
        <4>2. Scores(late)[k - i] = feedback[late[k - i]].normalized
          BY <4>1 DEF Scores
        <4> QED
          BY <2>3, <2>4, <2>5, <3>2, <4>2
      <3> QED
        BY <2>3, <3>1, <3>2
    <2>7. joined = [k \in 1 .. i + j |-> joined[k]]
      BY <2>3, <2>5
    <2>8. Scores(order) = [k \in 1 .. i + j |-> feedback[order[k]].normalized]
      BY <2>4 DEF Scores
    <2> QED
      BY <2>6, <2>7, <2>8 DEF joined
  <1>14. row = Blended(Initial, Scores(order))
    <2>1. Scores(early) \in Seq(0 .. 10) /\ Scores(late) \in Seq(0 .. 10)
      BY <1>8, <1>9, <1>10
    <2>2. Blended(Initial, Scores(early) \o Scores(late))
            = Blended(Blended(Initial, Scores(early)), Scores(late))
      BY <2>1, BlendedJoins
    <2> QED
      BY <1>5, <1>13, <2>2
  <1> HIDE DEF row, order
  <1>15. ASSUME NEW f \in Call, feedback[f] # None
         PROVE  /\ feedback'[f] # None /\ feedback'[f].execution = feedback[f].execution
                /\ feedback'[f].normalized = feedback[f].normalized
                /\ feedback'[f].applied <=> (f \in pending \/ feedback[f].applied)
    <2>1. feedback[f] \in FeedbackRow
      BY <1>15 DEF IInv, Typed
    <2>2. CASE f \in pending
      <3>1. feedback'[f] = [feedback[f] EXCEPT !.applied = TRUE]
        BY <1>2, <2>2
      <3>2. feedback'[f] \in FeedbackRow
        BY <2>1, <3>1 DEF FeedbackRow
      <3>3. feedback'[f] # None
        BY <3>2, LearningAssumption
      <3>4. /\ feedback'[f].execution = feedback[f].execution
            /\ feedback'[f].normalized = feedback[f].normalized /\ feedback'[f].applied
        BY <2>1, <3>1 DEF FeedbackRow
      <3> QED
        BY <2>2, <3>3, <3>4
    <2>3. CASE f \notin pending
      BY <1>2, <1>15, <2>3
    <2> QED
      BY <2>2, <2>3
  <1>16. \A f \in Call : feedback[f] = None => feedback'[f] = None
    BY <1>2, <1>3, LearningAssumption
  <1>17. \A b \in Agent : Of(b)' = Of(b)
    BY <1>15, <1>16 DEF Of
  <1>18. Given' = Given
    BY <1>15, <1>16 DEF Given
  <1>19. Applied(a)' = Of(a)
    <2>1. \A f \in Of(a) : f \in Call /\ feedback[f] # None
      BY DEF Of
    <2>2. Of(a)' = Of(a)
      BY <1>17
    <2>3. Applied(a)' = {f \in Of(a) : feedback'[f].applied}
      BY <2>2 DEF Applied
    <2>4. \A f \in Of(a) : f \in pending \/ feedback[f].applied
      BY <1>8 DEF applied, Applied
    <2> QED
      BY <1>15, <2>1, <2>3, <2>4
  <1>20. reputation' \in [Agent -> ReputationRow \cup {None}]
    BY <1>1, <1>11 DEF ReputationInv, row
  <1>21. ASSUME NEW b \in Agent
         PROVE  (\E o \in SetToSeqs(Applied(b)) : Current(b) = Blended(Initial, Scores(o)))'
    <2>1. CASE b = a
      <3>1. Current(b)' = row
        BY <1>1, <1>11, <2>1 DEF Current, ReputationInv, row
      <3>2. order \in SetToSeqs(Applied(b)')
        <4>1. Applied(b)' = Of(a)
          BY <1>19, <2>1
        <4> QED
          BY <1>12, <4>1
      <3>3. Scores(order)' = Scores(order)
        <4>1. \A k \in DOMAIN order : order[k] \in Of(a)
          BY <1>12 DEF SetToSeqs
        <4>2. \A k \in DOMAIN order : feedback'[order[k]].normalized = feedback[order[k]].normalized
          BY <1>15, <4>1 DEF Of
        <4>3. order' = order
          OBVIOUS
        <4> QED
          BY <4>2 DEF Scores
      <3> QED
        BY <1>14, <3>1, <3>2, <3>3
    <2>2. CASE b # a
      <3>1. Current(b)' = Current(b)
        BY <1>1, <2>2 DEF Current, ReputationInv
      <3>2. \A f \in Of(b) : f \in Call /\ feedback[f] # None /\ f \notin pending
        BY <1>3, <2>2 DEF Of
      <3>3. Applied(b)' = Applied(b)
        BY <1>15, <1>17, <3>2 DEF Applied
      <3>4. \A f \in Applied(b) : feedback'[f].normalized = feedback[f].normalized
        BY <1>15, <3>2 DEF Applied
      <3>5. \E o \in SetToSeqs(Applied(b)) : Current(b) = Blended(Initial, Scores(o))
        BY DEF ReputationInv, ReputationExplained
      <3> QED
        BY <3>1, <3>3, <3>4, <3>5, SameExplanation
    <2> QED
      BY <2>1, <2>2
  <1> QED
    BY <1>18, <1>20, <1>21 DEF ReputationInv, ReputationExplained

LEMMA NextReputations == IInv /\ ReputationInv /\ [Next]_vars => ReputationInv'
  <1> SUFFICES ASSUME IInv, ReputationInv, [Next]_vars PROVE ReputationInv'
    OBVIOUS
  <1>0. /\ pc \in [Call -> Resting \cup HoldsLoop] /\ about \in [Call -> Agent \cup {None}]
        /\ reputation \in [Agent -> ReputationRow \cup {None}]
        /\ reply \in [Call -> ReputationRow \cup {None}]
        /\ \A c \in Call : pc[c] \in HoldsLoop => about[c] \in Agent
    BY DEF IInv, Typed, ReputationInv, Aims
  <1>1. ASSUME NEW c \in Call, NEW e \in Execution, NEW score \in Score,
               SubmitFeedback(c, e, score)
        PROVE  ReputationInv'
    <2> DEFINE given == Feedback(e, score)
    <2>1. /\ pc[c] = "idle" /\ UNCHANGED <<reputation, reply>>
          /\ feedback' = [feedback EXCEPT ![c] = given]
          /\ about' = [about EXCEPT ![c] = AgentOf[e]] /\ pc' = [pc EXCEPT ![c] = "apply"]
      BY <1>1 DEF SubmitFeedback, Goto
    <2>2. AgentOf[e] \in Agent /\ feedback[c] = None
      BY <2>1, LearningAssumption DEF IInv, Placed
    <2>3. ~given.applied
      BY DEF Feedback
    <2> HIDE DEF given
    <2>4. Aims'
      BY <1>0, <2>1, <2>2 DEF Aims
    <2>5. /\ \A f \in Call \ {c} : feedback'[f] = feedback[f]
          /\ feedback'[c] = given
      BY <2>1 DEF IInv, Typed
    <2>6. IsFiniteSet(Given)'
      <3>1. Given' \in SUBSET (Given \cup {c})
        BY <2>5 DEF Given
      <3>2. IsFiniteSet(Given \cup {c})
        BY FS_AddElement DEF ReputationInv
      <3> QED
        BY <3>1, <3>2, FS_Subset
    <2>7. ASSUME NEW a \in Agent
          PROVE  (\E order \in SetToSeqs(Applied(a)) : Current(a) = Blended(Initial, Scores(order)))'
      <3>1. \E order \in SetToSeqs(Applied(a)) : Current(a) = Blended(Initial, Scores(order))
        BY DEF ReputationInv, ReputationExplained
      <3>2. Current(a)' = Current(a)
        BY <2>1 DEF Current
      <3>3. c \notin Applied(a) /\ c \notin Applied(a)'
        BY <2>2, <2>3, <2>5 DEF Applied, Of
      <3>4. Applied(a)' = Applied(a)
        BY <2>5, <3>3 DEF Applied, Of
      <3>5. \A f \in Applied(a) : feedback'[f].normalized = feedback[f].normalized
        BY <2>5, <3>3 DEF Applied, Of
      <3> QED
        BY <3>1, <3>2, <3>4, <3>5, SameExplanation
    <2> QED
      BY <1>0, <2>1, <2>4, <2>6, <2>7 DEF ReputationInv, ReputationExplained
  <1>2. ASSUME NEW c \in Call, UpdateReputation(c)
        PROVE  ReputationInv'
    <2>1. pc[c] = "apply" /\ pc' = [pc EXCEPT ![c] = "show"] /\ UNCHANGED <<about, reply>>
      BY <1>2 DEF UpdateReputation, Goto
    <2>2. about[c] \in Agent
      BY <1>0, <2>1 DEF HoldsLoop
    <2>3. Aims'
      BY <1>0, <2>1, <2>2 DEF Aims
    <2> QED
      BY <1>0, <1>2, <2>1, <2>2, <2>3, UpdateExplains DEF ReputationInv
  (* A step that ends or moves calls and neither gives nor applies feedback. *)
  <1>3. ASSUME feedback' = feedback, Aims',
               reputation' \in [Agent -> ReputationRow \cup {None}],
               reply' \in [Call -> ReputationRow \cup {None}],
               \A a \in Agent : Current(a)' = Current(a)
        PROVE  ReputationInv'
    BY <1>3, NoFeedbackStep DEF ReputationInv
  <1>4. reputation' = reputation => \A a \in Agent : Current(a)' = Current(a)
    BY DEF Current
  <1>5. ASSUME NEW c \in Call, Show(c) \/ Throws(c)
        PROVE  ReputationInv'
    <2>1. /\ UNCHANGED <<feedback, reputation, about, reply>> /\ pc[c] \in HoldsLoop
          /\ \E label : pc' = [pc EXCEPT ![c] = label]
      BY <1>5 DEF Show, Throws, Goto, HoldsLoop
    <2>2. Aims'
      BY <1>0, <2>1 DEF Aims
    <2> QED
      BY <1>0, <1>3, <1>4, <2>1, <2>2
  <1>6. ASSUME NEW c \in Call, Report(c)
        PROVE  ReputationInv'
    <2>1. /\ UNCHANGED <<feedback, reputation, about>> /\ pc[c] = "report"
          /\ pc' = [pc EXCEPT ![c] = "done"]
          /\ reply' = [reply EXCEPT ![c] = reputation[about[c]]]
      BY <1>6 DEF Report, Return, Goto
    <2>2. about[c] \in Agent
      BY <1>0, <2>1 DEF HoldsLoop
    <2>3. Aims' /\ reply' \in [Call -> ReputationRow \cup {None}]
      BY <1>0, <2>1, <2>2 DEF Aims
    <2> QED
      BY <1>0, <1>3, <1>4, <2>1, <2>3
  <1>7. ASSUME NEW c \in Call, NEW a \in Agent, ReadReputation(c, a)
        PROVE  ReputationInv'
    <2>1. /\ UNCHANGED <<feedback, reputation>> /\ about' = [about EXCEPT ![c] = a]
          /\ \E label : pc' = [pc EXCEPT ![c] = label]
          /\ reply' = reply \/ reply' = [reply EXCEPT ![c] = reputation[a]]
      BY <1>7 DEF ReadReputation, Return, Goto
    <2>2. Aims' /\ reply' \in [Call -> ReputationRow \cup {None}]
      BY <1>0, <2>1 DEF Aims
    <2> QED
      BY <1>0, <1>3, <1>4, <2>1, <2>2
  <1>8. ASSUME NEW c \in Call, CreateReputation(c)
        PROVE  ReputationInv'
    <2>1. /\ UNCHANGED <<feedback, about>> /\ pc[c] = "create" /\ reputation[about[c]] = None
          /\ pc' = [pc EXCEPT ![c] = "done"]
          /\ reputation' = [reputation EXCEPT ![about[c]] = Initial]
          /\ reply' = [reply EXCEPT ![c] = Initial]
      BY <1>8 DEF CreateReputation, Return, Goto
    <2>2. about[c] \in Agent
      BY <1>0, <2>1 DEF HoldsLoop
    <2>3. Aims'
      BY <1>0, <2>1, <2>2 DEF Aims
    <2>4. /\ reputation' \in [Agent -> ReputationRow \cup {None}]
          /\ reply' \in [Call -> ReputationRow \cup {None}]
      BY <1>0, <2>1, <2>2, InitialIsReputation
    <2>5. \A a \in Agent : Current(a)' = Current(a)
      BY <1>0, <2>1, <2>2 DEF Current
    <2> QED
      BY <1>3, <2>1, <2>3, <2>4, <2>5
  <1>9. ASSUME NEW s \in Server, Crash(s)
        PROVE  ReputationInv'
    <2>1. /\ UNCHANGED <<feedback, reputation, about, reply>>
          /\ \A c \in Call : pc'[c] \in HoldsLoop => pc'[c] = pc[c]
      BY <1>9 DEF Crash, HoldsLoop
    <2>2. Aims'
      BY <1>0, <2>1 DEF Aims
    <2> QED
      BY <1>0, <1>3, <1>4, <2>1, <2>2
  <1>10. CASE UNCHANGED vars
    BY <1>0, <1>3, <1>4, <1>10 DEF vars, Aims
  <1> QED
    BY <1>1, <1>2, <1>5, <1>6, <1>7, <1>8, <1>9, <1>10 DEF Next

(* The inductive invariant of reputations holds in every reachable state.  *)
THEOREM ReputationsFollowed == Spec => []ReputationInv
  BY InitReputations, NextReputations, Invariant, PTL DEF Spec

(* Every variable holds a value of its kind; reputations are in [0, 1].    *)
THEOREM TypeCorrect == Spec => []TypeOK
  <1>1. IInv /\ ReputationInv => TypeOK
    BY DEF IInv, Typed, ReputationInv, TypeOK
  <1> QED
    BY <1>1, Invariant, ReputationsFollowed, PTL

(* In every reachable state the reputation of every agent is made of the   *)
(* feedback marked as applied, each piece counted once, in some order.     *)
THEOREM ReputationsAreExplained == Spec => []ReputationExplained
  <1>1. ReputationInv => ReputationExplained
    BY DEF ReputationInv
  <1> QED
    BY <1>1, ReputationsFollowed, PTL
=============================================================================
