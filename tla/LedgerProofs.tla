---------------------------- MODULE LedgerProofs ----------------------------
(***************************************************************************)
(* Theorems about ExecutionLedger, for every set of writers and servers    *)
(* and every number of rows and instants; and about Merkle roots and       *)
(* proofs, for leaves of any number.                                       *)
(***************************************************************************)
EXTENDS ExecutionLedger, FiniteSetTheorems, WellFoundedInduction, TLAPS

Row == [id : ExecutionId, at : Time]

-----------------------------------------------------------------------------
(* Induction over the naturals, for a set of numbers.                      *)
LEMMA NaturalInduction ==
  ASSUME NEW Good, 0 \in Good, \A n \in Nat : n \in Good => n + 1 \in Good
  PROVE  Nat \subseteq Good
  <1> DEFINE Bad == Nat \ Good
  <1> SUFFICES ASSUME Bad # {} PROVE FALSE
    OBVIOUS
  <1>1. IsWellFoundedOn(OpToRel(<, Nat), Nat)
    BY NatLessThanWellFounded
  <1>2. PICK n \in Bad : \A m \in Bad : <<m, n>> \notin OpToRel(<, Nat)
    <2> HIDE DEF Bad
    <2>1. Bad \subseteq Nat
      BY DEF Bad
    <2> QED
      BY <1>1, <2>1, WFMin
  <1>3. n \in Nat /\ n \notin Good
    OBVIOUS
  <1>4. n # 0
    BY <1>3
  <1>5. n - 1 \in Nat /\ n - 1 < n /\ (n - 1) + 1 = n
    BY <1>3, <1>4
  <1>6. <<n - 1, n>> \in OpToRel(<, Nat)
    BY <1>3, <1>5 DEF OpToRel
  <1>7. n - 1 \in Good
    BY <1>2, <1>5, <1>6
  <1>8. (n - 1) + 1 \in Good
    BY <1>5, <1>7
  <1> QED
    BY <1>3, <1>5, <1>8

(* The three recursions of Merkle, a step of each: the levels of a tree,   *)
(* the path above an index, the climb past the siblings in `a`.            *)
Step(kind, a, n, x) ==
  CASE kind = "levels" -> NextLevel(x)
    [] kind = "path"   -> x \div 2
    [] kind = "climb"  -> Joined(a[n], x)

(* The recursion up to n, and for every number of steps.                   *)
RunsTo(g, n, kind, a, base) ==
  \A m \in 0 .. n : g[m] = IF m = 0 THEN base ELSE Step(kind, a, m, g[m - 1])

Runs(g, kind, a, base) ==
  g = [n \in Nat |-> IF n = 0 THEN base ELSE Step(kind, a, n, g[n - 1])]

LEMMA RunsToAgree ==
  ASSUME NEW kind, NEW a, NEW base, NEW i \in Nat, NEW g, NEW h,
         RunsTo(g, i, kind, a, base), RunsTo(h, i, kind, a, base)
  PROVE  \A m \in 0 .. i : g[m] = h[m]
  <1> DEFINE Good == {m \in Nat : m <= i => g[m] = h[m]}
  <1>1. 0 \in Good
    BY DEF RunsTo
  <1>2. ASSUME NEW n \in Nat, n \in Good PROVE n + 1 \in Good
    <2>1. CASE n + 1 <= i
      <3>1. n + 1 \in 0 .. i /\ n + 1 # 0 /\ (n + 1) - 1 = n /\ n <= i
        BY <2>1
      <3>2. /\ g[n + 1] = Step(kind, a, n + 1, g[n])
            /\ h[n + 1] = Step(kind, a, n + 1, h[n])
        BY <3>1 DEF RunsTo
      <3> QED
        BY <1>2, <3>1, <3>2
    <2> QED
      BY <2>1
  <1>3. Nat \subseteq Good
    <2> HIDE DEF Good
    <2> QED
      BY <1>1, <1>2, NaturalInduction
  <1> QED
    BY <1>3

(* The function that each recursion looks for exists.                      *)
LEMMA RunsExist ==
  ASSUME NEW kind, NEW a, NEW base
  PROVE  \E g : Runs(g, kind, a, base)
  <1> DEFINE Good == {n \in Nat : \E g : RunsTo(g, n, kind, a, base)}
             Solve(n) == CHOOSE g : RunsTo(g, n, kind, a, base)
             run == [n \in Nat |-> Solve(n)[n]]
  <1>1. 0 \in Good
    <2>1. RunsTo([m \in {0} |-> base], 0, kind, a, base)
      BY DEF RunsTo
    <2> QED
      BY <2>1
  <1>2. ASSUME NEW n \in Nat, n \in Good PROVE n + 1 \in Good
    <2>1. PICK g : RunsTo(g, n, kind, a, base)
      BY <1>2
    <2> DEFINE h == [m \in 0 .. n + 1 |->
                       IF m = n + 1 THEN Step(kind, a, n + 1, g[n]) ELSE g[m]]
    <2>2. ASSUME NEW m \in 0 .. n + 1
          PROVE  h[m] = IF m = 0 THEN base ELSE Step(kind, a, m, h[m - 1])
      <3>1. CASE m = n + 1
        BY <3>1
      <3>2. CASE m # n + 1
        <4>1. m \in 0 .. n /\ (m # 0 => m - 1 \in 0 .. n /\ m - 1 # n + 1)
          BY <3>2
        <4>2. h[m] = g[m] /\ (m # 0 => h[m - 1] = g[m - 1])
          BY <4>1, <3>2
        <4> QED
          BY <2>1, <4>1, <4>2 DEF RunsTo
      <3> QED
        BY <3>1, <3>2
    <2>3. RunsTo(h, n + 1, kind, a, base)
      BY <2>2 DEF RunsTo
    <2> QED
      BY <2>3
  <1>3. \A n \in Nat : RunsTo(Solve(n), n, kind, a, base)
    <2>1. Nat \subseteq Good
      <3> HIDE DEF Good
      <3> QED
        BY <1>1, <1>2, NaturalInduction
    <2> QED
      BY <2>1
  <1>4. ASSUME NEW n \in Nat
        PROVE  run[n] = IF n = 0 THEN base ELSE Step(kind, a, n, run[n - 1])
    <2>1. RunsTo(Solve(n), n, kind, a, base)
      BY <1>3
    <2>2. CASE n = 0
      BY <2>1, <2>2 DEF RunsTo
    <2>3. CASE n # 0
      <3>1. n - 1 \in Nat /\ n - 1 \in 0 .. n - 1 /\ n \in 0 .. n
        BY <2>3
      <3>2. RunsTo(Solve(n - 1), n - 1, kind, a, base)
        BY <1>3, <3>1
      <3>3. RunsTo(Solve(n), n - 1, kind, a, base)
        BY <2>1, <3>1 DEF RunsTo
      <3> HIDE DEF Solve
      <3>4. Solve(n)[n - 1] = Solve(n - 1)[n - 1]
        BY <3>1, <3>2, <3>3, RunsToAgree
      <3>5. Solve(n)[n] = Step(kind, a, n, Solve(n)[n - 1])
        BY <2>1, <2>3, <3>1 DEF RunsTo
      <3> QED
        BY <2>3, <3>1, <3>4, <3>5
    <2> QED
      BY <2>2, <2>3
  <1>5. run = [n \in Nat |-> IF n = 0 THEN base ELSE Step(kind, a, n, run[n - 1])]
    <2> HIDE DEF Solve
    <2> QED
      BY <1>4
  <1> QED
    BY <1>5 DEF Runs

LEMMA LevelsRun ==
  ASSUME NEW leaves
  PROVE  /\ Levels(leaves)[0] = leaves
         /\ \A n \in Nat : Levels(leaves)[n + 1] = NextLevel(Levels(leaves)[n])
  <1> DEFINE Is(g) == g = [n \in Nat |-> IF n = 0 THEN leaves ELSE NextLevel(g[n - 1])]
             level == CHOOSE g : Is(g)
  <1>1. PICK g : Runs(g, "levels", <<>>, leaves)
    BY RunsExist
  <1>2. Is(g)
    BY <1>1 DEF Runs, Step
  <1>3. Is(level)
    BY <1>2
  <1>4. Levels(leaves) = level
    BY DEF Levels
  <1> HIDE DEF level
  <1>5. \A n \in Nat : level[n] = IF n = 0 THEN leaves ELSE NextLevel(level[n - 1])
    BY <1>3
  <1>6. ASSUME NEW n \in Nat PROVE level[n + 1] = NextLevel(level[n])
    <2>1. n + 1 \in Nat /\ n + 1 # 0 /\ (n + 1) - 1 = n
      OBVIOUS
    <2> QED
      BY <1>5, <2>1
  <1> QED
    BY <1>4, <1>5, <1>6

LEMMA PathRuns ==
  ASSUME NEW index
  PROVE  /\ Path(index)[0] = index
         /\ \A n \in Nat : Path(index)[n + 1] = Path(index)[n] \div 2
  <1> DEFINE Is(g) == g = [n \in Nat |-> IF n = 0 THEN index ELSE g[n - 1] \div 2]
             path == CHOOSE g : Is(g)
  <1>1. PICK g : Runs(g, "path", <<>>, index)
    BY RunsExist
  <1>2. Is(g)
    BY <1>1 DEF Runs, Step
  <1>3. Is(path)
    BY <1>2
  <1>4. Path(index) = path
    BY DEF Path
  <1> HIDE DEF path
  <1>5. \A n \in Nat : path[n] = IF n = 0 THEN index ELSE path[n - 1] \div 2
    BY <1>3
  <1>6. ASSUME NEW n \in Nat PROVE path[n + 1] = path[n] \div 2
    <2>1. n + 1 \in Nat /\ n + 1 # 0 /\ (n + 1) - 1 = n
      OBVIOUS
    <2> QED
      BY <1>5, <2>1
  <1> QED
    BY <1>4, <1>5, <1>6

LEMMA ClimbRuns ==
  ASSUME NEW proof
  PROVE  /\ Climb(proof)[0] = proof.leaf
         /\ \A n \in Nat :
              Climb(proof)[n + 1] = Joined(proof.siblings[n + 1], Climb(proof)[n])
  <1> DEFINE Is(g) == g = [n \in Nat |-> IF n = 0 THEN proof.leaf
                                         ELSE Joined(proof.siblings[n], g[n - 1])]
             climb == CHOOSE g : Is(g)
  <1>1. PICK g : Runs(g, "climb", proof.siblings, proof.leaf)
    BY RunsExist
  <1>2. Is(g)
    BY <1>1 DEF Runs, Step
  <1>3. Is(climb)
    BY <1>2
  <1>4. Climb(proof) = climb
    BY DEF Climb
  <1> HIDE DEF climb
  <1>5. \A n \in Nat : climb[n] = IF n = 0 THEN proof.leaf
                                  ELSE Joined(proof.siblings[n], climb[n - 1])
    BY <1>3
  <1>6. ASSUME NEW n \in Nat
        PROVE  climb[n + 1] = Joined(proof.siblings[n + 1], climb[n])
    <2>1. n + 1 \in Nat /\ n + 1 # 0 /\ (n + 1) - 1 = n
      OBVIOUS
    <2> QED
      BY <1>5, <2>1
  <1> QED
    BY <1>4, <1>5, <1>6

-----------------------------------------------------------------------------
(* A number of nodes, rounded up to pairs.                                 *)
LEMMA HalfUp ==
  ASSUME NEW n \in Nat
  PROVE  /\ (n + 1) \div 2 \in Nat
         /\ 2 * ((n + 1) \div 2) = n \/ 2 * ((n + 1) \div 2) = n + 1
  OBVIOUS

LEMMA PairPlaces ==
  ASSUME NEW n \in Nat, NEW h \in Nat, 2 * h = n \/ 2 * h = n + 1, NEW k \in 1 .. h
  PROVE  /\ 2 * k - 1 \in 1 .. n
         /\ 2 * k <= n => 2 * k \in 1 .. n
  OBVIOUS

(* The next level has a node for each pair, made of its two.               *)
LEMMA NextLevelPairs ==
  ASSUME NEW X, NEW s \in Seq(X)
  PROVE  /\ NextLevel(s) \in Seq(X \X X)
         /\ 2 * Len(NextLevel(s)) = Len(s) \/ 2 * Len(NextLevel(s)) = Len(s) + 1
         /\ \A k \in 1 .. Len(NextLevel(s)) :
              /\ 2 * k - 1 \in 1 .. Len(s)
              /\ NextLevel(s)[k] =
                   <<s[2 * k - 1], IF 2 * k <= Len(s) THEN s[2 * k] ELSE s[2 * k - 1]>>
  <1> DEFINE h == (Len(s) + 1) \div 2
  <1>1. Len(s) \in Nat /\ DOMAIN s = 1 .. Len(s) /\ \A k \in 1 .. Len(s) : s[k] \in X
    OBVIOUS
  <1>2. h \in Nat /\ (2 * h = Len(s) \/ 2 * h = Len(s) + 1)
    BY <1>1, HalfUp
  <1>3. NextLevel(s) =
          [k \in 1 .. h |->
             <<s[2 * k - 1], IF 2 * k <= Len(s) THEN s[2 * k] ELSE s[2 * k - 1]>>]
    BY DEF NextLevel, HashPair
  <1> HIDE DEF h
  <1>4. ASSUME NEW k \in 1 .. h
        PROVE  /\ 2 * k - 1 \in 1 .. Len(s)
               /\ 2 * k <= Len(s) => 2 * k \in 1 .. Len(s)
    BY <1>1, <1>2, PairPlaces
  <1>5. ASSUME NEW k \in 1 .. h
        PROVE  <<s[2 * k - 1], IF 2 * k <= Len(s) THEN s[2 * k] ELSE s[2 * k - 1]>> \in X \X X
    BY <1>1, <1>4
  <1>6. NextLevel(s) \in [1 .. h -> X \X X]
    BY <1>3, <1>5
  <1>7. NextLevel(s) \in Seq(X \X X) /\ Len(NextLevel(s)) = h
    BY <1>2, <1>6
  <1> QED
    BY <1>2, <1>3, <1>4, <1>7

(* Every level of a tree is a sequence, half as long as the one before,    *)
(* and none is empty unless there are no leaves.                           *)
LEMMA LevelsAreSeq ==
  ASSUME NEW X, NEW leaves \in Seq(X)
  PROVE  \A n \in Nat : \E Y : Levels(leaves)[n] \in Seq(Y)
  <1> DEFINE Good == {n \in Nat : \E Y : Levels(leaves)[n] \in Seq(Y)}
  <1>1. 0 \in Good
    BY LevelsRun
  <1>2. ASSUME NEW n \in Nat, n \in Good PROVE n + 1 \in Good
    <2>1. PICK Y : Levels(leaves)[n] \in Seq(Y)
      BY <1>2
    <2>2. NextLevel(Levels(leaves)[n]) \in Seq(Y \X Y)
      BY <2>1, NextLevelPairs
    <2>3. Levels(leaves)[n + 1] = NextLevel(Levels(leaves)[n])
      BY LevelsRun
    <2> QED
      BY <2>2, <2>3
  <1> HIDE DEF Good
  <1>3. Nat \subseteq Good
    BY <1>1, <1>2, NaturalInduction
  <1> QED
    BY <1>3 DEF Good

LEMMA LevelsHalve ==
  ASSUME NEW X, NEW leaves \in Seq(X), NEW n \in Nat
  PROVE  /\ Len(Levels(leaves)[n]) \in Nat
         /\ Len(Levels(leaves)[n + 1]) \in Nat
         /\ \/ 2 * Len(Levels(leaves)[n + 1]) = Len(Levels(leaves)[n])
            \/ 2 * Len(Levels(leaves)[n + 1]) = Len(Levels(leaves)[n]) + 1
  <1>1. PICK Y : Levels(leaves)[n] \in Seq(Y)
    BY LevelsAreSeq
  <1> DEFINE s == Levels(leaves)[n]
  <1>2. Levels(leaves)[n + 1] = NextLevel(s)
    BY LevelsRun
  <1> HIDE DEF s
  <1>3. s \in Seq(Y)
    BY <1>1 DEF s
  <1>4. /\ NextLevel(s) \in Seq(Y \X Y)
        /\ 2 * Len(NextLevel(s)) = Len(s) \/ 2 * Len(NextLevel(s)) = Len(s) + 1
    BY <1>3, NextLevelPairs
  <1>5. Len(s) \in Nat
    BY <1>3
  <1>6. Len(NextLevel(s)) \in Nat
    BY <1>4
  <1> QED
    BY <1>2, <1>4, <1>5, <1>6 DEF s

LEMMA LevelsShrink ==
  ASSUME NEW X, NEW leaves \in Seq(X), leaves # <<>>, NEW n \in Nat
  PROVE  /\ Len(Levels(leaves)[n]) >= 1
         /\ Len(Levels(leaves)[n]) <= 1 \/ Len(Levels(leaves)[n]) + n <= Len(leaves)
  <1> DEFINE length(m) == Len(Levels(leaves)[m])
             Good == {m \in Nat : /\ length(m) >= 1
                                  /\ length(m) <= 1 \/ length(m) + m <= Len(leaves)}
  <1>1. 0 \in Good
    BY LevelsRun
  <1>2. ASSUME NEW m \in Nat, m \in Good PROVE m + 1 \in Good
    <2>1. /\ length(m) \in Nat /\ length(m + 1) \in Nat
          /\ 2 * length(m + 1) = length(m) \/ 2 * length(m + 1) = length(m) + 1
      BY LevelsHalve
    <2>2. Len(leaves) \in Nat
      OBVIOUS
    <2> HIDE DEF length
    <2> QED
      BY <1>2, <2>1, <2>2
  <1>3. Nat \subseteq Good
    <2> HIDE DEF Good
    <2> QED
      BY <1>1, <1>2, NaturalInduction
  <1> QED
    BY <1>3

(* The height is the first level of one node.                              *)
LEMMA HeightIsFirst ==
  ASSUME NEW X, NEW leaves \in Seq(X), leaves # <<>>
  PROVE  /\ Height(leaves) \in Nat
         /\ Len(Levels(leaves)[Height(leaves)]) = 1
  <1> DEFINE flat == {n \in 0 .. Len(leaves) : Len(Levels(leaves)[n]) <= 1}
  <1>1. Len(leaves) \in Nat
    OBVIOUS
  <1>2. Len(leaves) \in flat
    <2>1. /\ Len(Levels(leaves)[Len(leaves)]) \in Nat
          /\ \/ Len(Levels(leaves)[Len(leaves)]) <= 1
             \/ Len(Levels(leaves)[Len(leaves)]) + Len(leaves) <= Len(leaves)
      BY <1>1, LevelsShrink, LevelsHalve
    <2> QED
      BY <1>1, <2>1
  <1> HIDE DEF flat
  <1>3. flat \in SUBSET Nat
    BY <1>1 DEF flat
  <1>4. \E n \in flat : \A m \in flat : n <= m
    <2>1. IsWellFoundedOn(OpToRel(<, Nat), Nat)
      BY NatLessThanWellFounded
    <2>2. PICK n \in flat : \A m \in flat : <<m, n>> \notin OpToRel(<, Nat)
      BY <1>2, <1>3, <2>1, WFMin
    <2>3. \A m \in flat : ~(m < n)
      BY <1>3, <2>2 DEF OpToRel
    <2> QED
      BY <1>3, <2>3
  <1>5. Height(leaves) = CHOOSE n \in flat : \A m \in flat : n <= m
    BY DEF Height, Min, flat
  <1>6. Height(leaves) \in flat
    BY <1>4, <1>5
  <1>7. Height(leaves) \in Nat /\ Len(Levels(leaves)[Height(leaves)]) <= 1
    BY <1>3, <1>6 DEF flat
  <1>8. /\ Len(Levels(leaves)[Height(leaves)]) \in Nat
        /\ Len(Levels(leaves)[Height(leaves)]) >= 1
    BY <1>7, LevelsHalve, LevelsShrink
  <1>9. \A n \in Nat : n <= 1 /\ n >= 1 => n = 1
    OBVIOUS
  <1> QED
    BY <1>7, <1>8, <1>9

-----------------------------------------------------------------------------
LEMMA HalfDown ==
  ASSUME NEW c \in Nat
  PROVE  /\ c \div 2 \in Nat
         /\ c % 2 = 1 => c = 2 * (c \div 2) + 1
         /\ c % 2 # 1 => c = 2 * (c \div 2)
  OBVIOUS

LEMMA HalfPlaces ==
  ASSUME NEW n \in Nat, NEW h \in Nat, 2 * h = n \/ 2 * h = n + 1,
         NEW c \in 0 .. n - 1, NEW d \in Nat, c = 2 * d \/ c = 2 * d + 1
  PROVE  /\ d \in 0 .. h - 1
         /\ d + 1 \in 1 .. h
         /\ c = 2 * d => 2 * (d + 1) - 1 = c + 1 /\ 2 * (d + 1) = c + 2
         /\ c = 2 * d + 1 => 2 * (d + 1) - 1 = c /\ 2 * (d + 1) = c + 1 /\ c + 1 <= n
  OBVIOUS

LEMMA PairsAreEqual ==
  ASSUME NEW w, NEW x, NEW y, NEW z
  PROVE  <<w, x>> = <<y, z>> <=> w = y /\ x = z
  OBVIOUS

(* Past its sibling a node becomes its parent, and no other node does.     *)
LEMMA JoinedIsParent ==
  ASSUME NEW X, NEW s \in Seq(X), NEW c \in 0 .. Len(s) - 1, NEW x
  PROVE  /\ c \div 2 \in 0 .. Len(NextLevel(s)) - 1
         /\ Joined(Sibling(s, c), x) = NextLevel(s)[c \div 2 + 1] <=> x = s[c + 1]
  <1> DEFINE n == Len(s)
             h == Len(NextLevel(s))
             d == c \div 2
             up == NextLevel(s)
  <1>1. NextLevel(s) \in Seq(X \X X)
    BY NextLevelPairs
  <1>2. n \in Nat /\ h \in Nat /\ c \in Nat
    BY <1>1
  <1>3. 2 * h = n \/ 2 * h = n + 1
    BY NextLevelPairs
  <1>4. d \in Nat /\ (c % 2 = 1 => c = 2 * d + 1) /\ (c % 2 # 1 => c = 2 * d)
    BY <1>2, HalfDown
  <1>5. \A k \in 1 .. h :
          up[k] = <<s[2 * k - 1], IF 2 * k <= n THEN s[2 * k] ELSE s[2 * k - 1]>>
    BY NextLevelPairs
  <1>c. c \in 0 .. n - 1
    OBVIOUS
  <1> HIDE DEF n, h, d, up
  <1>6. c = 2 * d \/ c = 2 * d + 1
    BY <1>4
  <1>7. /\ d \in 0 .. h - 1 /\ d + 1 \in 1 .. h
        /\ c = 2 * d => 2 * (d + 1) - 1 = c + 1 /\ 2 * (d + 1) = c + 2
        /\ c = 2 * d + 1 => 2 * (d + 1) - 1 = c /\ 2 * (d + 1) = c + 1 /\ c + 1 <= n
    BY <1>2, <1>3, <1>4, <1>6, <1>c, HalfPlaces
  <1>8. up[d + 1] = <<s[2 * (d + 1) - 1],
                      IF 2 * (d + 1) <= n THEN s[2 * (d + 1)] ELSE s[2 * (d + 1) - 1]>>
    BY <1>5, <1>7
  <1>9. CASE c % 2 = 1
    <2>1. Joined(Sibling(s, c), x) = <<s[c], x>>
      BY <1>9 DEF Joined, Sibling, HashPair
    <2>2. up[d + 1] = <<s[c], s[c + 1]>>
      BY <1>4, <1>7, <1>8, <1>9
    <2>3. Joined(Sibling(s, c), x) = up[d + 1] <=> x = s[c + 1]
      BY <2>1, <2>2, PairsAreEqual
    <2> QED
      BY <1>7, <2>3 DEF d, h, up
  <1>10. CASE c % 2 # 1
    <2> DEFINE other == IF c + 2 <= n THEN s[c + 2] ELSE s[c + 1]
    <2>1. Joined(Sibling(s, c), x) = <<x, other>>
      BY <1>10 DEF Joined, Sibling, HashPair, n
    <2>2. up[d + 1] = <<s[c + 1], other>>
      BY <1>4, <1>7, <1>8, <1>10
    <2> HIDE DEF other
    <2>3. Joined(Sibling(s, c), x) = up[d + 1] <=> x = s[c + 1]
      BY <2>1, <2>2, PairsAreEqual
    <2> QED
      BY <1>7, <2>3 DEF d, h, up
  <1> QED
    BY <1>9, <1>10

Follows(proof, leaves, index, n) ==
  Climb(proof)[n] = Levels(leaves)[n][Path(index)[n] + 1]
    <=> proof.leaf = leaves[index + 1]

(* A proof climbs along the path of its leaf, and no other leaf does.      *)
LEMMA ClimbFollowsPath ==
  ASSUME NEW X, NEW leaves \in Seq(X), NEW index \in 0 .. Len(leaves) - 1,
         NEW height \in Nat, NEW proof,
         proof.siblings = [n \in 1 .. height |->
                             Sibling(Levels(leaves)[n - 1], Path(index)[n - 1])]
  PROVE  /\ Path(index)[height] \in 0 .. Len(Levels(leaves)[height]) - 1
         /\ Follows(proof, leaves, index, height)
  <1> DEFINE path == Path(index)
             climb == Climb(proof)
             level == Levels(leaves)
             Climbs(n) == /\ path[n] \in 0 .. Len(level[n]) - 1
                          /\ climb[n] = level[n][path[n] + 1]
                               <=> proof.leaf = leaves[index + 1]
             Good == {n \in Nat : n <= height => Climbs(n)}
  <1>1. /\ path[0] = index
        /\ \A n \in Nat : path[n + 1] = path[n] \div 2
    BY PathRuns
  <1>2. /\ climb[0] = proof.leaf
        /\ \A n \in Nat : climb[n + 1] = Joined(proof.siblings[n + 1], climb[n])
    BY ClimbRuns
  <1>3. /\ level[0] = leaves
        /\ \A n \in Nat : level[n + 1] = NextLevel(level[n])
    BY LevelsRun
  <1>4. \A n \in Nat : \E Y : level[n] \in Seq(Y)
    BY LevelsAreSeq
  <1>5. proof.siblings = [n \in 1 .. height |-> Sibling(level[n - 1], path[n - 1])]
    OBVIOUS
  <1> HIDE DEF path, climb, level
  <1>6. 0 \in Good
    BY <1>1, <1>2, <1>3
  <1>7. ASSUME NEW n \in Nat, n \in Good PROVE n + 1 \in Good
    <2>1. CASE n + 1 <= height
      <3>1. n + 1 \in 1 .. height /\ (n + 1) - 1 = n /\ n <= height
        BY <2>1
      <3>2. Climbs(n)
        BY <1>7, <3>1
      <3>3. proof.siblings[n + 1] = Sibling(level[n], path[n])
        BY <1>5, <3>1
      <3>4. climb[n + 1] = Joined(Sibling(level[n], path[n]), climb[n])
        BY <1>2, <3>3
      <3>5. PICK Y : level[n] \in Seq(Y)
        BY <1>4
      <3>6. /\ path[n] \div 2 \in 0 .. Len(NextLevel(level[n])) - 1
            /\ Joined(Sibling(level[n], path[n]), climb[n])
                   = NextLevel(level[n])[path[n] \div 2 + 1]
                 <=> climb[n] = level[n][path[n] + 1]
        BY <3>2, <3>5, JoinedIsParent
      <3>7. path[n + 1] = path[n] \div 2 /\ level[n + 1] = NextLevel(level[n])
        BY <1>1, <1>3
      <3>8. Climbs(n + 1)
        BY <3>2, <3>4, <3>6, <3>7
      <3> QED
        BY <3>8
    <2> QED
      BY <2>1
  <1>8. Nat \subseteq Good
    <2> HIDE DEF Good
    <2> QED
      BY <1>6, <1>7, NaturalInduction
  <1>9. Climbs(height)
    BY <1>8
  <1> QED
    BY <1>9 DEF path, climb, level, Follows

(* The proof of a leaf verifies under the root of its tree with that leaf, *)
(* and with nothing else in its place: buildMerkleProof and                *)
(* verifyMerkleProof agree, for leaves of any number.                      *)
THEOREM ProofsVerify ==
  ASSUME NEW X, NEW leaves \in Seq(X), NEW index \in 0 .. Len(leaves) - 1, NEW leaf
  PROVE  VerifyProof([BuildProof(leaves, index) EXCEPT !.leaf = leaf])
           <=> leaf = leaves[index + 1]
  <1> DEFINE height == Height(leaves)
             siblings == [n \in 1 .. height |->
                            Sibling(Levels(leaves)[n - 1], Path(index)[n - 1])]
             proof == [leaf |-> leaf, index |-> index, root |-> Root(leaves),
                       siblings |-> siblings]
  <1>1. Len(leaves) \in Nat /\ leaves # <<>>
    OBVIOUS
  <1>2. height \in Nat /\ Len(Levels(leaves)[height]) = 1
    BY <1>1, HeightIsFirst
  <1>3. [BuildProof(leaves, index) EXCEPT !.leaf = leaf] = proof
    <2>1. BuildProof(leaves, index) =
            [leaf |-> leaves[index + 1], index |-> index, root |-> Root(leaves),
             siblings |-> siblings]
      BY DEF BuildProof
    <2> HIDE DEF siblings
    <2> QED
      BY <2>1
  <1>4. Root(leaves) = Levels(leaves)[height][1]
    BY <1>1 DEF Root
  <1> HIDE DEF height
  <1>5. Len(siblings) = height
    BY <1>2
  <1> HIDE DEF siblings
  <1>6. /\ proof.leaf = leaf /\ proof.root = Root(leaves) /\ proof.siblings = siblings
    OBVIOUS
  <1> HIDE DEF proof
  <1>7. proof.siblings = [n \in 1 .. height |->
                            Sibling(Levels(leaves)[n - 1], Path(index)[n - 1])]
    BY <1>6 DEF siblings
  <1>a. Path(index)[height] \in 0 .. Len(Levels(leaves)[height]) - 1
    BY <1>2, <1>7, ClimbFollowsPath
  <1>8. Climb(proof)[height] = Levels(leaves)[height][Path(index)[height] + 1]
          <=> proof.leaf = leaves[index + 1]
    <2>1. Follows(proof, leaves, index, height)
      BY <1>2, <1>7, ClimbFollowsPath
    <2> QED
      BY <2>1 DEF Follows
  <1>9. Path(index)[height] = 0
    <2>1. Path(index)[height] \in 0 .. 0
      BY <1>2, <1>a
    <2> QED
      BY <2>1
  <1>10. Climb(proof)[height] = proof.root <=> proof.leaf = leaves[index + 1]
    BY <1>4, <1>6, <1>8, <1>9
  <1> QED
    BY <1>3, <1>5, <1>6, <1>10 DEF VerifyProof

-----------------------------------------------------------------------------
Distinct(s) == \A i, j \in 1 .. Len(s) : s[i] = s[j] => i = j

SameLevel(s, t) == Len(s) = Len(t) /\ \A i \in 1 .. Len(s) : s[i] = t[i]

LEMMA NextLevelDistinct ==
  ASSUME NEW X, NEW s \in Seq(X), Distinct(s)
  PROVE  Distinct(NextLevel(s))
  <1> DEFINE h == Len(NextLevel(s))
             up == NextLevel(s)
             other(k) == IF 2 * k <= Len(s) THEN s[2 * k] ELSE s[2 * k - 1]
  <1>1. \A k \in 1 .. h : /\ 2 * k - 1 \in 1 .. Len(s)
                          /\ up[k] = <<s[2 * k - 1], other(k)>>
    BY NextLevelPairs
  <1>2. h \in Nat
    <2>1. NextLevel(s) \in Seq(X \X X)
      BY NextLevelPairs
    <2> QED
      BY <2>1
  <1> HIDE DEF h, up, other
  <1>3. ASSUME NEW i \in 1 .. h, NEW j \in 1 .. h, up[i] = up[j] PROVE i = j
    <2>1. s[2 * i - 1] = s[2 * j - 1]
      BY <1>1, <1>3, PairsAreEqual
    <2>2. 2 * i - 1 \in 1 .. Len(s) /\ 2 * j - 1 \in 1 .. Len(s)
      BY <1>1
    <2>3. 2 * i - 1 = 2 * j - 1
      BY <2>1, <2>2 DEF Distinct
    <2> QED
      BY <1>2, <2>3
  <1> QED
    BY <1>3 DEF Distinct, h, up

LEMMA LevelsDistinct ==
  ASSUME NEW X, NEW leaves \in Seq(X), Distinct(leaves)
  PROVE  \A n \in Nat : Distinct(Levels(leaves)[n])
  <1> DEFINE Good == {n \in Nat : Distinct(Levels(leaves)[n])}
  <1>1. 0 \in Good
    BY LevelsRun
  <1>2. ASSUME NEW n \in Nat, n \in Good PROVE n + 1 \in Good
    <2>1. PICK Y : Levels(leaves)[n] \in Seq(Y)
      BY LevelsAreSeq
    <2>2. Distinct(NextLevel(Levels(leaves)[n]))
      BY <1>2, <2>1, NextLevelDistinct
    <2> QED
      BY <2>2, LevelsRun
  <1>3. Nat \subseteq Good
    <2> HIDE DEF Good
    <2> QED
      BY <1>1, <1>2, NaturalInduction
  <1> QED
    BY <1>3

(* In a pair or the last without a partner.                                *)
LEMMA OddOrEven ==
  ASSUME NEW n \in Nat, NEW h \in Nat, 2 * h = n \/ 2 * h = n + 1, NEW i \in 1 .. n
  PROVE  \E k \in 1 .. h : i = 2 * k - 1 \/ i = 2 * k
  <1>1. i \in Nat /\ (i + 1) \div 2 \in Nat
    BY HalfUp
  <1>2. 2 * ((i + 1) \div 2) = i \/ 2 * ((i + 1) \div 2) = i + 1
    BY <1>1, HalfUp
  <1> DEFINE k == (i + 1) \div 2
  <1>3. k \in Nat /\ (2 * k = i \/ 2 * k = i + 1)
    BY <1>1, <1>2
  <1> HIDE DEF k
  <1>4. k \in 1 .. h
    BY <1>3
  <1> QED
    BY <1>3, <1>4

(* Without repeated nodes a level is known by the next: only a pair of two *)
(* equal nodes could stand for a node alone.                               *)
LEMMA ShorterIsImpossible ==
  ASSUME NEW X, NEW s \in Seq(X), NEW Y, NEW t \in Seq(Y), Distinct(t),
         SameLevel(NextLevel(s), NextLevel(t))
  PROVE  Len(t) <= Len(s)
  <1> DEFINE n == Len(s)
             m == Len(t)
             h == Len(NextLevel(t))
             up == NextLevel(s)
             vp == NextLevel(t)
  <1>1. /\ 2 * Len(up) = n \/ 2 * Len(up) = n + 1
        /\ \A k \in 1 .. Len(up) :
              up[k] = <<s[2 * k - 1], IF 2 * k <= n THEN s[2 * k] ELSE s[2 * k - 1]>>
    BY NextLevelPairs
  <1>2. /\ 2 * h = m \/ 2 * h = m + 1
        /\ \A k \in 1 .. h :
              vp[k] = <<t[2 * k - 1], IF 2 * k <= m THEN t[2 * k] ELSE t[2 * k - 1]>>
    BY NextLevelPairs
  <1>3. n \in Nat /\ m \in Nat /\ h \in Nat
    <2>1. NextLevel(t) \in Seq(Y \X Y)
      BY NextLevelPairs
    <2> QED
      BY <2>1
  <1>4. Len(up) = h /\ \A k \in 1 .. h : up[k] = vp[k]
    BY DEF SameLevel
  <1>d. \A i, j \in 1 .. m : t[i] = t[j] => i = j
    BY DEF Distinct
  <1> HIDE DEF n, m, h, up, vp
  <1> SUFFICES ASSUME n < m PROVE FALSE
    BY <1>3 DEF n, m
  <1>5. m = 2 * h /\ n = 2 * h - 1 /\ h \in 1 .. h
    BY <1>1, <1>2, <1>3, <1>4
  <1>6. 2 * h - 1 \in 1 .. m /\ 2 * h \in 1 .. m /\ 2 * h <= m /\ ~(2 * h <= n) /\ 2 * h - 1 # 2 * h
    BY <1>3, <1>5
  <1>7. vp[h] = <<t[2 * h - 1], t[2 * h]>>
    BY <1>2, <1>5, <1>6
  <1>8. up[h] = <<s[2 * h - 1], s[2 * h - 1]>>
    BY <1>1, <1>4, <1>5, <1>6
  <1>9. up[h] = vp[h]
    BY <1>4, <1>5
  <1>10. t[2 * h - 1] = t[2 * h]
    BY <1>7, <1>8, <1>9, PairsAreEqual
  <1> QED
    BY <1>6, <1>10, <1>d

LEMMA NextLevelInjective ==
  ASSUME NEW X, NEW s \in Seq(X), NEW Y, NEW t \in Seq(Y), Distinct(s), Distinct(t),
         SameLevel(NextLevel(s), NextLevel(t))
  PROVE  SameLevel(s, t)
  <1> DEFINE n == Len(s)
             h == Len(NextLevel(s))
             up == NextLevel(s)
             vp == NextLevel(t)
  <1>1. /\ 2 * h = n \/ 2 * h = n + 1
        /\ \A k \in 1 .. h :
              up[k] = <<s[2 * k - 1], IF 2 * k <= n THEN s[2 * k] ELSE s[2 * k - 1]>>
    BY NextLevelPairs
  <1>2. \A k \in 1 .. Len(vp) :
          vp[k] = <<t[2 * k - 1], IF 2 * k <= Len(t) THEN t[2 * k] ELSE t[2 * k - 1]>>
    BY NextLevelPairs
  <1>3. n \in Nat /\ h \in Nat
    <2>1. NextLevel(s) \in Seq(X \X X)
      BY NextLevelPairs
    <2> QED
      BY <2>1
  <1>4. Len(vp) = h /\ \A k \in 1 .. h : up[k] = vp[k]
    BY DEF SameLevel
  <1>5. Len(t) = n
    <2>1. Len(t) <= Len(s)
      BY ShorterIsImpossible
    <2>2. SameLevel(NextLevel(t), NextLevel(s))
      BY DEF SameLevel
    <2>3. Len(s) <= Len(t)
      BY <2>2, ShorterIsImpossible
    <2>4. Len(s) \in Nat /\ Len(t) \in Nat
      OBVIOUS
    <2> QED
      BY <2>1, <2>3, <2>4
  <1> HIDE DEF n, h, up, vp
  <1>6. ASSUME NEW i \in 1 .. n PROVE s[i] = t[i]
    <2>1. PICK k \in 1 .. h : i = 2 * k - 1 \/ i = 2 * k
      BY <1>1, <1>3, OddOrEven
    <2>2. /\ up[k] = <<s[2 * k - 1], IF 2 * k <= n THEN s[2 * k] ELSE s[2 * k - 1]>>
          /\ vp[k] = <<t[2 * k - 1], IF 2 * k <= n THEN t[2 * k] ELSE t[2 * k - 1]>>
          /\ up[k] = vp[k]
      BY <1>1, <1>2, <1>4, <1>5
    <2>3. CASE i = 2 * k - 1
      BY <2>2, <2>3, PairsAreEqual
    <2>4. CASE i = 2 * k
      <3>1. 2 * k <= n
        BY <1>3, <2>4
      <3> QED
        BY <2>2, <2>4, <3>1, PairsAreEqual
    <2> QED
      BY <2>1, <2>3, <2>4
  <1> QED
    BY <1>5, <1>6 DEF SameLevel, n

(* Trees of equal roots agree from the root down, as deep as the lower of  *)
(* the two goes.                                                           *)
LEMMA LowerTreeInHigher ==
  ASSUME NEW X, NEW low \in Seq(X), NEW Y, NEW high \in Seq(Y),
         low # <<>>, high # <<>>, Distinct(low), Distinct(high),
         Height(low) <= Height(high), Root(low) = Root(high)
  PROVE  /\ Height(high) - Height(low) \in Nat
         /\ SameLevel(low, Levels(high)[Height(high) - Height(low)])
  <1> DEFINE a == Height(low)
             b == Height(high)
             lows == Levels(low)
             highs == Levels(high)
             Good == {m \in Nat : m <= a => SameLevel(lows[a - m], highs[b - m])}
  <1>1. a \in Nat /\ b \in Nat /\ Len(lows[a]) = 1 /\ Len(highs[b]) = 1
    BY HeightIsFirst
  <1>2. lows[a][1] = highs[b][1]
    BY DEF Root
  <1>3. a <= b
    OBVIOUS
  <1>4. \A n \in Nat : \E Z : lows[n] \in Seq(Z)
    BY LevelsAreSeq
  <1>5. \A n \in Nat : \E Z : highs[n] \in Seq(Z)
    BY LevelsAreSeq
  <1>6. \A n \in Nat : Distinct(lows[n])
    BY LevelsDistinct
  <1>7. \A n \in Nat : Distinct(highs[n])
    BY LevelsDistinct
  <1>8. lows[0] = low /\ \A n \in Nat : lows[n + 1] = NextLevel(lows[n])
    BY LevelsRun
  <1>9. \A n \in Nat : highs[n + 1] = NextLevel(highs[n])
    BY LevelsRun
  <1> HIDE DEF a, b, lows, highs
  <1>10. 0 \in Good
    <2>1. a - 0 = a /\ b - 0 = b
      BY <1>1
    <2>2. SameLevel(lows[a], highs[b])
      BY <1>1, <1>2 DEF SameLevel
    <2> QED
      BY <2>1, <2>2
  <1>11. ASSUME NEW m \in Nat, m \in Good PROVE m + 1 \in Good
    <2>1. CASE m + 1 <= a
      <3> DEFINE i == a - (m + 1)
                 j == b - (m + 1)
      <3>1. i \in Nat /\ j \in Nat /\ i + 1 = a - m /\ j + 1 = b - m /\ m <= a
        BY <1>1, <1>3, <2>1
      <3>2. SameLevel(lows[a - m], highs[b - m])
        BY <1>11, <3>1
      <3> HIDE DEF i, j
      <3>3. SameLevel(NextLevel(lows[i]), NextLevel(highs[j]))
        BY <1>8, <1>9, <3>1, <3>2
      <3>4. PICK V : lows[i] \in Seq(V)
        BY <1>4, <3>1
      <3>5. PICK W : highs[j] \in Seq(W)
        BY <1>5, <3>1
      <3>6. SameLevel(lows[i], highs[j])
        BY <1>6, <1>7, <3>1, <3>3, <3>4, <3>5, NextLevelInjective
      <3> QED
        BY <3>6 DEF i, j
    <2> QED
      BY <2>1
  <1>12. Nat \subseteq Good
    <2> HIDE DEF Good
    <2> QED
      BY <1>10, <1>11, NaturalInduction
  <1>13. SameLevel(lows[a - a], highs[b - a])
    BY <1>1, <1>12
  <1>14. a - a = 0 /\ b - a \in Nat
    BY <1>1, <1>3
  <1> QED
    BY <1>8, <1>13, <1>14 DEF a, b, highs

LEMMA LeafIsNoPair ==
  ASSUME NEW e, NEW x, NEW y
  PROVE  LeafHash(e) # HashPair(x, y)
  <1>1. Len(<<e>>) = 1 /\ Len(<<x, y>>) = 2
    OBVIOUS
  <1> QED
    BY <1>1 DEF LeafHash, HashPair

(* The hashes of ids, each its own.                                        *)
LeafLevel(s) ==
  /\ s # <<>> /\ Distinct(s)
  /\ \A i \in 1 .. Len(s) : \E e : s[i] = LeafHash(e)

LEMMA LowerLeavesAreEqual ==
  ASSUME NEW X, NEW low \in Seq(X), NEW Y, NEW high \in Seq(Y),
         LeafLevel(low), LeafLevel(high),
         Height(low) <= Height(high), Root(low) = Root(high)
  PROVE  SameLevel(low, high)
  <1> DEFINE d == Height(high) - Height(low)
  <1>1. low # <<>> /\ high # <<>> /\ Distinct(low) /\ Distinct(high)
    BY DEF LeafLevel
  <1>2. d \in Nat /\ SameLevel(low, Levels(high)[d])
    BY <1>1, LowerTreeInHigher
  <1> HIDE DEF d
  <1>3. CASE d = 0
    BY <1>2, <1>3, LevelsRun
  <1>4. CASE d # 0
    <2>1. d - 1 \in Nat /\ (d - 1) + 1 = d
      BY <1>2, <1>4
    <2>2. Levels(high)[d] = NextLevel(Levels(high)[d - 1])
      <3>1. Levels(high)[(d - 1) + 1] = NextLevel(Levels(high)[d - 1])
        BY <2>1, LevelsRun
      <3> QED
        BY <2>1, <3>1
    <2>3. PICK Z : Levels(high)[d - 1] \in Seq(Z)
      BY <2>1, LevelsAreSeq
    <2>4. 1 \in 1 .. Len(low) /\ 1 \in 1 .. Len(Levels(high)[d])
      <3>1. Len(low) \in Nat /\ Len(low) >= 1
        BY <1>1
      <3> QED
        BY <1>2, <3>1 DEF SameLevel
    <2>5. \E x, y : Levels(high)[d][1] = HashPair(x, y)
      <3> DEFINE below == Levels(high)[d - 1]
      <3>1. 1 \in 1 .. Len(NextLevel(below))
        BY <2>2, <2>4
      <3>2. \A k \in 1 .. Len(NextLevel(below)) :
              NextLevel(below)[k] =
                <<below[2 * k - 1],
                  IF 2 * k <= Len(below) THEN below[2 * k] ELSE below[2 * k - 1]>>
        BY <2>3, NextLevelPairs
      <3> HIDE DEF below
      <3>3. \E x, y : NextLevel(below)[1] = <<x, y>>
        BY <3>1, <3>2
      <3> QED
        BY <2>2, <3>3 DEF below, HashPair
    <2>6. PICK e : low[1] = LeafHash(e)
      BY <2>4 DEF LeafLevel
    <2>7. low[1] = Levels(high)[d][1]
      BY <1>2, <2>4 DEF SameLevel
    <2> QED
      BY <2>5, <2>6, <2>7, LeafIsNoPair
  <1> QED
    BY <1>3, <1>4

(* A root commits to its leaves, for leaves of any two numbers: hashes of  *)
(* ids that are all different have the root of no other such leaves.       *)
THEOREM RootsTellLeaves ==
  ASSUME NEW X, NEW s \in Seq(X), NEW Y, NEW t \in Seq(Y),
         LeafLevel(s), LeafLevel(t), Root(s) = Root(t)
  PROVE  SameLevel(s, t)
  <1>1. Height(s) \in Nat /\ Height(t) \in Nat
    BY HeightIsFirst DEF LeafLevel
  <1>2. CASE Height(s) <= Height(t)
    BY <1>2, LowerLeavesAreEqual
  <1>3. CASE Height(t) <= Height(s)
    <2>1. SameLevel(t, s)
      BY <1>3, LowerLeavesAreEqual
    <2> QED
      BY <2>1 DEF SameLevel
  <1>4. Height(s) <= Height(t) \/ Height(t) <= Height(s)
    BY <1>1
  <1> QED
    BY <1>2, <1>3, <1>4

-----------------------------------------------------------------------------
(* Rows that the primary key allows together.                              *)
Keyed(stored) == \A r, s \in stored : r.id = s.id => r = s

LEMMA RowsAreOrdered ==
  ASSUME NEW r \in Row, NEW s \in Row, NEW t \in Row
  PROVE  /\ ~ Precedes(r, r)
         /\ ~ (Precedes(r, s) /\ Precedes(s, r))
         /\ Precedes(r, s) /\ Precedes(s, t) => Precedes(r, t)
         /\ r.id # s.id => Precedes(r, s) \/ Precedes(s, r)
  <1>1. /\ r.at \in Int /\ s.at \in Int /\ t.at \in Int
        /\ r.id \in Int /\ s.id \in Int /\ t.id \in Int
    BY DEF Row, ExecutionId, Time
  <1> QED
    BY <1>1 DEF Precedes

(* ORDER BY gives every row a place of its own, from the first to the last.*)
LEMMA PlaceIsPosition ==
  ASSUME NEW stored \in SUBSET Row, IsFiniteSet(stored), NEW r \in stored
  PROVE  /\ Place(stored, r) \in 1 .. Cardinality(stored)
         /\ IsFiniteSet({s \in stored : Precedes(s, r)})
  <1> DEFINE before == {s \in stored : Precedes(s, r)}
  <1>1. before \in SUBSET stored /\ r \notin before /\ before # stored
    BY RowsAreOrdered
  <1>2. Cardinality(stored) \in Nat
    BY FS_CardinalityType
  <1> HIDE DEF before
  <1>3. IsFiniteSet(before) /\ Cardinality(before) <= Cardinality(stored)
    BY <1>1, FS_Subset
  <1>4. Cardinality(before) # Cardinality(stored)
    BY <1>1, FS_Subset
  <1>5. Cardinality(before) \in Nat
    BY <1>3, FS_CardinalityType
  <1>6. Place(stored, r) = Cardinality(before) + 1
    BY DEF Place, before
  <1>7. Place(stored, r) \in 1 .. Cardinality(stored)
    BY <1>2, <1>3, <1>4, <1>5, <1>6
  <1> QED
    BY <1>3, <1>7 DEF before

LEMMA LaterIsPlacedLater ==
  ASSUME NEW stored \in SUBSET Row, IsFiniteSet(stored),
         NEW r \in stored, NEW s \in stored, Precedes(r, s)
  PROVE  Place(stored, r) # Place(stored, s)
  <1> DEFINE low == {x \in stored : Precedes(x, r)}
             high == {x \in stored : Precedes(x, s)}
  <1>1. low \in SUBSET high
    BY RowsAreOrdered
  <1>2. r \in high /\ r \notin low
    BY RowsAreOrdered
  <1>3. IsFiniteSet(high) /\ IsFiniteSet(low)
    BY PlaceIsPosition
  <1>4. Place(stored, r) = Cardinality(low) + 1 /\ Place(stored, s) = Cardinality(high) + 1
    BY DEF Place
  <1> HIDE DEF low, high
  <1>5. Cardinality(low) # Cardinality(high)
    BY <1>1, <1>2, <1>3, FS_Subset
  <1>6. Cardinality(low) \in Nat /\ Cardinality(high) \in Nat
    BY <1>3, FS_CardinalityType
  <1> QED
    BY <1>4, <1>5, <1>6

LEMMA PlacesDiffer ==
  ASSUME NEW stored \in SUBSET Row, IsFiniteSet(stored), Keyed(stored),
         NEW r \in stored, NEW s \in stored, Place(stored, r) = Place(stored, s)
  PROVE  r = s
  <1>1. ~ Precedes(r, s) /\ ~ Precedes(s, r)
    BY LaterIsPlacedLater
  <1>2. r.id = s.id
    BY <1>1, RowsAreOrdered
  <1> QED
    BY <1>2 DEF Keyed

LEMMA EveryPlaceIsTaken ==
  ASSUME NEW stored \in SUBSET Row, IsFiniteSet(stored), Keyed(stored),
         NEW k \in 1 .. Cardinality(stored)
  PROVE  \E r \in stored : Place(stored, r) = k
  <1> DEFINE n == Cardinality(stored)
             place == [r \in stored |-> Place(stored, r)]
  <1>1. n \in Nat
    BY FS_CardinalityType
  <1>2. IsFiniteSet(1 .. n) /\ Cardinality(1 .. n) = n
    <2> HIDE DEF n
    <2>1. /\ IsFiniteSet(1 .. n)
          /\ Cardinality(1 .. n) = IF 1 > n THEN 0 ELSE n - 1 + 1
      BY <1>1, FS_Interval
    <2> QED
      BY <1>1, <2>1
  <1>3. place \in [stored -> 1 .. n]
    BY PlaceIsPosition
  <1>4. \A r, s \in stored : place[r] = place[s] => r = s
    BY PlacesDiffer
  <1>5. \A r \in stored : place[r] = Place(stored, r)
    OBVIOUS
  <1>n. n = Cardinality(stored) /\ k \in 1 .. n
    OBVIOUS
  <1> HIDE DEF place, n
  <1>6. place \in Injection(stored, 1 .. n)
    BY <1>3, <1>4 DEF Injection, IsInjective
  <1>7. place \in Surjection(stored, 1 .. n)
    BY <1>2, <1>6, <1>n, FS_Injection
  <1>8. \E r \in stored : place[r] = k
    BY <1>7, <1>n DEF Surjection
  <1> QED
    BY <1>5, <1>8

(* The leaves are the rows, each at its place.                             *)
LEMMA LeavesHoldRows ==
  ASSUME NEW stored \in SUBSET Row, IsFiniteSet(stored), Keyed(stored)
  PROVE  /\ Leaves(stored) \in Seq({LeafHash(r.id) : r \in stored})
         /\ Len(Leaves(stored)) = Cardinality(stored)
         /\ \A k \in 1 .. Cardinality(stored) :
              \E r \in stored : Place(stored, r) = k /\ Leaves(stored)[k] = LeafHash(r.id)
  <1> DEFINE n == Cardinality(stored)
             at(k) == CHOOSE r \in stored : Place(stored, r) = k
  <1>1. n \in Nat
    BY FS_CardinalityType
  <1>2. ASSUME NEW k \in 1 .. n
        PROVE  at(k) \in stored /\ Place(stored, at(k)) = k
    <2>1. \E r \in stored : Place(stored, r) = k
      BY EveryPlaceIsTaken
    <2> QED
      BY <2>1
  <1>3. Leaves(stored) = [k \in 1 .. n |-> LeafHash(at(k).id)]
    BY DEF Leaves
  <1> HIDE DEF n, at
  <1>4. Leaves(stored) \in [1 .. n -> {LeafHash(r.id) : r \in stored}]
    BY <1>2, <1>3
  <1>5. Leaves(stored) \in Seq({LeafHash(r.id) : r \in stored}) /\ Len(Leaves(stored)) = n
    BY <1>1, <1>4
  <1>6. ASSUME NEW k \in 1 .. n
        PROVE  \E r \in stored : Place(stored, r) = k /\ Leaves(stored)[k] = LeafHash(r.id)
    <2>1. Leaves(stored)[k] = LeafHash(at(k).id)
      BY <1>3
    <2> QED
      BY <1>2, <2>1
  <1> QED
    BY <1>5, <1>6 DEF n

LEMMA LeafHashesDiffer ==
  ASSUME NEW d, NEW e, LeafHash(d) = LeafHash(e)
  PROVE  d = e
  <1>1. <<d>>[1] = d /\ <<e>>[1] = e
    OBVIOUS
  <1> QED
    BY <1>1 DEF LeafHash

LEMMA LeavesAreLeaves ==
  ASSUME NEW stored \in SUBSET Row, IsFiniteSet(stored), Keyed(stored), stored # {}
  PROVE  LeafLevel(Leaves(stored))
  <1> DEFINE leaves == Leaves(stored)
             n == Cardinality(stored)
  <1>1. n \in Nat /\ n # 0
    BY FS_CardinalityType, FS_EmptySet
  <1>2. leaves \in Seq({LeafHash(r.id) : r \in stored}) /\ Len(leaves) = n
    BY LeavesHoldRows
  <1>3. \A k \in 1 .. n : \E r \in stored : Place(stored, r) = k /\ leaves[k] = LeafHash(r.id)
    BY LeavesHoldRows
  <1> HIDE DEF leaves, n
  <1>4. ASSUME NEW i \in 1 .. n, NEW j \in 1 .. n, leaves[i] = leaves[j] PROVE i = j
    <2>1. PICK r \in stored : Place(stored, r) = i /\ leaves[i] = LeafHash(r.id)
      BY <1>3
    <2>2. PICK s \in stored : Place(stored, s) = j /\ leaves[j] = LeafHash(s.id)
      BY <1>3
    <2>3. r.id = s.id
      BY <1>4, <2>1, <2>2, LeafHashesDiffer
    <2>4. r = s
      BY <2>3 DEF Keyed
    <2> QED
      BY <2>1, <2>2, <2>4
  <1>5. Distinct(leaves)
    BY <1>2, <1>4 DEF Distinct
  <1>6. leaves # <<>>
    BY <1>1, <1>2
  <1>7. \A i \in 1 .. Len(leaves) : \E e : leaves[i] = LeafHash(e)
    BY <1>2, <1>3
  <1> QED
    BY <1>5, <1>6, <1>7 DEF LeafLevel, leaves

(* findIndex gives the place of a row.                                     *)
LEMMA IndexIsPlace ==
  ASSUME NEW stored \in SUBSET Row, IsFiniteSet(stored), Keyed(stored), NEW r \in stored
  PROVE  IndexIn(Leaves(stored), r.id) = Place(stored, r) - 1
  <1> DEFINE leaves == Leaves(stored)
             n == Cardinality(stored)
             p == Place(stored, r)
             found == CHOOSE k \in DOMAIN leaves : leaves[k] = LeafHash(r.id)
  <1>1. leaves \in Seq({LeafHash(s.id) : s \in stored}) /\ Len(leaves) = n
    BY LeavesHoldRows
  <1>2. \A k \in 1 .. n : \E s \in stored : Place(stored, s) = k /\ leaves[k] = LeafHash(s.id)
    BY LeavesHoldRows
  <1>3. p \in 1 .. n
    BY PlaceIsPosition
  <1>4. DOMAIN leaves = 1 .. n
    <2> HIDE DEF leaves
    <2> QED
      BY <1>1
  <1>5. IndexIn(leaves, r.id) = IF LeafHash(r.id) \in {leaves[k] : k \in DOMAIN leaves}
                                  THEN found - 1 ELSE -1
    BY DEF IndexIn, Range
  <1> HIDE DEF leaves, n
  <1>6. ASSUME NEW k \in 1 .. n, leaves[k] = LeafHash(r.id) PROVE k = p
    <2>1. PICK s \in stored : Place(stored, s) = k /\ leaves[k] = LeafHash(s.id)
      BY <1>2
    <2>2. s.id = r.id
      BY <1>6, <2>1, LeafHashesDiffer
    <2>3. s = r
      BY <2>2 DEF Keyed
    <2> QED
      BY <2>1, <2>3
  <1>7. leaves[p] = LeafHash(r.id)
    <2>1. PICK s \in stored : Place(stored, s) = p /\ leaves[p] = LeafHash(s.id)
      BY <1>2, <1>3
    <2>2. s = r
      BY <2>1, PlacesDiffer
    <2> QED
      BY <2>1, <2>2
  <1> HIDE DEF p
  <1>8. found = p
    BY <1>3, <1>4, <1>6, <1>7
  <1> HIDE DEF found
  <1>9. LeafHash(r.id) \in {leaves[k] : k \in DOMAIN leaves}
    BY <1>3, <1>4, <1>7
  <1> QED
    BY <1>5, <1>8, <1>9 DEF leaves, p

-----------------------------------------------------------------------------
(* What ReadLeaves finds for the id e when the ledger has n rows.          *)
Found(e, n) ==
  LET leaves == Leaves(Stored(Past(n))) IN [root |-> Root(leaves), index |-> IndexIn(leaves, e)]

Typed ==
  /\ rows \in Seq(Row)
  /\ pc \in [Writer -> Resting \cup HoldsLoop]
  /\ own \in [Writer -> ExecutionId \cup {None}]
  /\ DOMAIN stamp = ExecutionId /\ DOMAIN seen = Writer

(* The primary key.                                                        *)
IdsApart == \A k, n \in DOMAIN rows : rows[k].id = rows[n].id => k = n

(* What is stored for row k was found in the ledger after its insertion.   *)
FoundFrom(k, found) == \E n \in k .. Len(rows) : found = Found(rows[k].id, n)

Placed(c) ==
  pc[c] \in HoldsLoop =>
    \E k \in DOMAIN rows :
      /\ rows[k].id = own[c]
      /\ pc[c] = "stamp" => FoundFrom(k, seen[c])

(* What was found waits to be stored.                                      *)
Waiting(c) == seen[c] # None => pc[c] = "stamp"

OnlyOwnStamped == \A e \in ExecutionId : stamp[e] # None => e \in Ids(rows)

Rooted(k) == stamp[rows[k].id] # None => FoundFrom(k, stamp[rows[k].id])

(* The inductive invariant.                                                *)
IInv ==
  /\ Typed
  /\ IdsApart
  /\ \A c \in Writer : Placed(c) /\ Waiting(c)
  /\ OnlyOwnStamped
  /\ \A k \in DOMAIN rows : Rooted(k)

LEMMA InitIInv == Init => IInv
  BY DEF Init, IInv, Typed, IdsApart, Placed, Waiting, OnlyOwnStamped, Rooted, Row,
     Resting, HoldsLoop

(* Rows are only added, at the end: the past stays what it was.            *)
LEMMA PastStays ==
  ASSUME Typed, NEW r \in Row, rows' = Append(rows, r)
  PROVE  /\ rows' \in Seq(Row) /\ Len(rows') = Len(rows) + 1
         /\ \A k \in DOMAIN rows : k \in DOMAIN rows' /\ rows'[k] = rows[k]
         /\ \A k \in DOMAIN rows' \ DOMAIN rows : k = Len(rows') /\ rows'[k] = r
         /\ \A n \in 0 .. Len(rows) : Past(n)' = Past(n)
         /\ \A k \in DOMAIN rows : \A found : FoundFrom(k, found) => FoundFrom(k, found)'
  <1>1. rows \in Seq(Row)
    BY DEF Typed
  <1>2. /\ rows' \in Seq(Row) /\ Len(rows') = Len(rows) + 1
        /\ DOMAIN rows = 1 .. Len(rows) /\ DOMAIN rows' = 1 .. Len(rows) + 1
        /\ \A k \in 1 .. Len(rows) : rows'[k] = rows[k]
        /\ rows'[Len(rows) + 1] = r
    BY <1>1
  <1>3. ASSUME NEW n \in 0 .. Len(rows)
        PROVE  SubSeq(rows', 1, n) = SubSeq(rows, 1, n)
    <2>1. /\ SubSeq(rows', 1, n) = [i \in 1 .. n |-> rows'[i]]
          /\ SubSeq(rows, 1, n) = [i \in 1 .. n |-> rows[i]]
      BY <1>1, <1>2
    <2> QED
      BY <1>2, <2>1
  <1>4. \A n \in 0 .. Len(rows) : Past(n)' = Past(n)
    BY <1>3 DEF Past
  <1>5. ASSUME NEW k \in DOMAIN rows, NEW found, FoundFrom(k, found)
        PROVE  FoundFrom(k, found)'
    <2>1. PICK n \in k .. Len(rows) : found = Found(rows[k].id, n)
      BY <1>5 DEF FoundFrom
    <2>2. n \in k .. Len(rows') /\ n \in 0 .. Len(rows) /\ rows'[k] = rows[k]
      BY <1>1, <1>2
    <2>3. Past(n)' = Past(n)
      BY <1>4, <2>2
    <2>4. Found(rows[k].id, n)' = Found(rows[k].id, n)
      BY <2>2, <2>3 DEF Found
    <2> QED
      BY <2>1, <2>2, <2>4 DEF FoundFrom
  <1> QED
    BY <1>2, <1>4, <1>5

(* Steps that leave the rows and the stamps alone and end some calls.      *)
LEMMA QuietStep ==
  ASSUME IInv, UNCHANGED <<rows, stamp>>, NEW ended \in SUBSET Writer, Forget(ended),
         pc' \in [Writer -> Resting \cup HoldsLoop],
         \A c \in Writer : pc'[c] = pc[c] \/ pc'[c] \notin HoldsLoop,
         \A c \in ended : pc'[c] \notin HoldsLoop,
         \A c \in Writer \ ended : pc'[c] = pc[c]
  PROVE  IInv'
  <1>1. \A k \in DOMAIN rows : \A found : FoundFrom(k, found)' = FoundFrom(k, found)
    BY DEF FoundFrom, Found, Past
  <1>2. Typed'
    BY DEF IInv, Typed, Forget
  <1>3. ASSUME NEW c \in Writer PROVE Placed(c)'
    BY <1>1 DEF IInv, Typed, Placed, Forget
  <1>4. ASSUME NEW c \in Writer PROVE Waiting(c)'
    BY DEF IInv, Typed, Waiting, Forget
  <1> QED
    BY <1>1, <1>2, <1>3, <1>4 DEF IInv, Typed, IdsApart, OnlyOwnStamped, Rooted, Ids, Stored

LEMMA NextIInv == IInv /\ [Next]_vars => IInv'
  <1> SUFFICES ASSUME IInv, [Next]_vars PROVE IInv'
    OBVIOUS
  <1>0. rows \in Seq(Row) /\ Len(rows) \in Nat /\ DOMAIN rows = 1 .. Len(rows)
    BY DEF IInv, Typed
  <1>1. ASSUME NEW c \in Writer, NEW e \in ExecutionId, NEW at \in Time, Insert(c, e, at)
        PROVE  IInv'
    <2> DEFINE r == [id |-> e, at |-> at]
    <2>1. /\ pc[c] = "idle" /\ e \notin Ids(rows) /\ rows' = Append(rows, r)
          /\ own' = [own EXCEPT ![c] = e] /\ pc' = [pc EXCEPT ![c] = "leaves"]
          /\ UNCHANGED <<stamp, seen>>
      BY <1>1 DEF Insert, Goto
    <2>2. r \in Row /\ r.id = e
      BY DEF Row
    <2> HIDE DEF r
    <2>3. /\ rows' \in Seq(Row) /\ Len(rows') = Len(rows) + 1
          /\ \A k \in DOMAIN rows : k \in DOMAIN rows' /\ rows'[k] = rows[k]
          /\ \A k \in DOMAIN rows' \ DOMAIN rows : k = Len(rows') /\ rows'[k] = r
          /\ \A k \in DOMAIN rows : \A found : FoundFrom(k, found) => FoundFrom(k, found)'
      BY <2>1, <2>2, PastStays DEF IInv
    <2>4. Len(rows') \in DOMAIN rows' /\ Len(rows') \notin DOMAIN rows
      BY <1>0, <2>3
    <2>5. \A k \in DOMAIN rows : rows[k].id # e
      BY <2>1 DEF Ids, Stored
    <2>6. stamp[e] = None
      BY <2>1 DEF IInv, OnlyOwnStamped
    <2>7. Typed'
      BY <2>1, <2>3 DEF IInv, Typed, Resting, HoldsLoop
    <2>8. IdsApart'
      BY <2>2, <2>3, <2>5 DEF IInv, IdsApart
    <2>9. ASSUME NEW d \in Writer PROVE Placed(d)'
      <3>1. CASE d = c
        <4>1. pc'[c] = "leaves" /\ own'[c] = e /\ rows'[Len(rows')].id = e
          BY <2>1, <2>2, <2>3, <2>4 DEF IInv, Typed
        <4> QED
          BY <2>4, <3>1, <4>1 DEF Placed
      <3>2. CASE d # c
        <4>1. pc'[d] = pc[d] /\ own'[d] = own[d] /\ seen'[d] = seen[d]
          BY <2>1, <3>2 DEF IInv, Typed
        <4> QED
          BY <2>3, <4>1 DEF IInv, Placed
      <3> QED
        BY <3>1, <3>2
    <2>10. Ids(rows) \subseteq Ids(rows')
      BY <2>3 DEF Ids, Stored
    <2>11. OnlyOwnStamped'
      BY <2>1, <2>10 DEF IInv, OnlyOwnStamped
    <2>12. ASSUME NEW k \in DOMAIN rows' PROVE Rooted(k)'
      <3>1. CASE k \in DOMAIN rows
        BY <2>1, <2>3, <3>1 DEF IInv, Rooted
      <3>2. CASE k \notin DOMAIN rows
        BY <2>1, <2>2, <2>3, <2>6, <3>2 DEF Rooted
      <3> QED
        BY <3>1, <3>2
    <2>13. ASSUME NEW d \in Writer PROVE Waiting(d)'
      BY <2>1 DEF IInv, Typed, Waiting
    <2> QED
      BY <2>7, <2>8, <2>9, <2>11, <2>12, <2>13 DEF IInv
  <1>2. ASSUME NEW c \in Writer, ReadLeaves(c)
        PROVE  IInv'
    <2>1. /\ pc[c] = "leaves" /\ UNCHANGED <<rows, stamp, own>>
          /\ seen' = [seen EXCEPT ![c] =
               [root |-> Root(Leaves(Stored(rows))),
                index |-> IndexIn(Leaves(Stored(rows)), own[c])]]
          /\ pc' = [pc EXCEPT ![c] = "stamp"]
      BY <1>2 DEF ReadLeaves, Goto
    <2>2. \A k \in DOMAIN rows : \A found : FoundFrom(k, found)' = FoundFrom(k, found)
      BY <2>1 DEF FoundFrom, Found, Past
    <2>3. Typed'
      BY <2>1 DEF IInv, Typed, Resting, HoldsLoop
    <2>4. Placed(c)'
      <3>1. PICK k \in DOMAIN rows : rows[k].id = own[c]
        BY <2>1 DEF IInv, Placed, HoldsLoop
      <3>2. Past(Len(rows)) = rows
        BY <1>0 DEF Past
      <3>3. seen'[c] = Found(rows[k].id, Len(rows))
        BY <2>1, <3>1, <3>2 DEF Found, IInv, Typed
      <3>4. FoundFrom(k, seen'[c])
        BY <1>0, <3>3 DEF FoundFrom
      <3> QED
        BY <2>1, <2>2, <3>1, <3>4 DEF Placed
    <2>5. ASSUME NEW d \in Writer \ {c} PROVE Placed(d)'
      <3>1. pc'[d] = pc[d] /\ own'[d] = own[d] /\ seen'[d] = seen[d]
        BY <2>1 DEF IInv, Typed
      <3> QED
        BY <2>1, <2>2, <3>1 DEF IInv, Placed
    <2>6. ASSUME NEW d \in Writer PROVE Waiting(d)'
      BY <2>1 DEF IInv, Typed, Waiting
    <2> QED
      BY <2>1, <2>2, <2>3, <2>4, <2>5, <2>6 DEF IInv, IdsApart, OnlyOwnStamped, Rooted, Ids, Stored
  <1>3. ASSUME NEW c \in Writer, Stamp(c)
        PROVE  IInv'
    <2>1. /\ pc[c] = "stamp" /\ rows' = rows /\ Forget({c})
          /\ stamp' = [stamp EXCEPT ![own[c]] = seen[c]]
          /\ pc' = [pc EXCEPT ![c] = "done"]
      BY <1>3 DEF Stamp, Goto
    <2>2. PICK k \in DOMAIN rows : rows[k].id = own[c] /\ FoundFrom(k, seen[c])
      BY <2>1 DEF IInv, Placed, HoldsLoop
    <2>3. \A n \in DOMAIN rows : \A found : FoundFrom(n, found)' = FoundFrom(n, found)
      BY <2>1 DEF FoundFrom, Found, Past
    <2>4. rows[k].id \in ExecutionId
      <3>1. rows[k] \in Row
        BY <1>0
      <3> QED
        BY <3>1 DEF Row
    <2>5. Typed'
      BY <2>1 DEF IInv, Typed, Forget, Resting, HoldsLoop
    <2>6. ASSUME NEW d \in Writer PROVE Placed(d)'
      <3>1. pc'[d] \in HoldsLoop =>
              d # c /\ pc'[d] = pc[d] /\ own'[d] = own[d] /\ seen'[d] = seen[d]
        BY <2>1 DEF IInv, Typed, Forget, HoldsLoop
      <3> QED
        BY <2>1, <2>3, <3>1 DEF IInv, Placed
    <2>7. OnlyOwnStamped'
      BY <2>1, <2>2 DEF IInv, Typed, OnlyOwnStamped, Ids, Stored
    <2>8. ASSUME NEW n \in DOMAIN rows' PROVE Rooted(n)'
      <3>1. CASE n = k
        <4>1. stamp'[rows'[n].id] = seen[c]
          BY <2>1, <2>2, <2>4, <3>1 DEF IInv, Typed
        <4> QED
          BY <2>1, <2>2, <2>3, <3>1, <4>1 DEF Rooted
      <3>2. CASE n # k
        <4>1. rows[n].id # own[c]
          BY <2>1, <2>2, <3>2 DEF IInv, IdsApart
        <4>2. stamp'[rows'[n].id] = stamp[rows[n].id]
          BY <2>1, <4>1 DEF IInv, Typed
        <4> QED
          BY <2>1, <2>3, <4>2 DEF IInv, Rooted
      <3> QED
        BY <3>1, <3>2
    <2>9. IdsApart'
      BY <2>1 DEF IInv, IdsApart
    <2>10. ASSUME NEW d \in Writer PROVE Waiting(d)'
      BY <2>1 DEF IInv, Typed, Waiting, Forget
    <2> QED
      BY <2>5, <2>6, <2>7, <2>8, <2>9, <2>10 DEF IInv
  <1>4. ASSUME NEW c \in Writer, WriteThrows(c)
        PROVE  IInv'
    <2>1. /\ UNCHANGED <<rows, stamp>> /\ Forget({c}) /\ pc' = [pc EXCEPT ![c] = "thrown"]
      BY <1>4 DEF WriteThrows, Goto
    <2>2. /\ pc' \in [Writer -> Resting \cup HoldsLoop]
          /\ \A d \in Writer : pc'[d] = pc[d] \/ pc'[d] \notin HoldsLoop
          /\ \A d \in {c} : pc'[d] \notin HoldsLoop
          /\ \A d \in Writer \ {c} : pc'[d] = pc[d]
      BY <2>1 DEF IInv, Typed, Resting, HoldsLoop
    <2> QED
      BY <2>1, <2>2, QuietStep
  <1>5. ASSUME NEW s \in Server, Crash(s)
        PROVE  IInv'
    <2> DEFINE lost == {c \in Writer : ServerOf[c] = s /\ pc[c] \notin Resting}
    <2>1. /\ UNCHANGED <<rows, stamp>> /\ Forget(lost) /\ lost \in SUBSET Writer
          /\ pc' = [c \in Writer |-> IF c \in lost THEN "lost" ELSE pc[c]]
      BY <1>5 DEF Crash
    <2> HIDE DEF lost
    <2>2. /\ pc' \in [Writer -> Resting \cup HoldsLoop]
          /\ \A d \in Writer : pc'[d] = pc[d] \/ pc'[d] \notin HoldsLoop
          /\ \A d \in lost : pc'[d] \notin HoldsLoop
          /\ \A d \in Writer \ lost : pc'[d] = pc[d]
      BY <2>1 DEF IInv, Typed, Resting, HoldsLoop
    <2> QED
      BY <2>1, <2>2, QuietStep
  <1>6. CASE UNCHANGED vars
    <2>1. UNCHANGED <<rows, stamp, pc, own, seen>>
      BY <1>6 DEF vars
    <2>2. \A k \in DOMAIN rows : \A found : FoundFrom(k, found)' = FoundFrom(k, found)
      BY <2>1 DEF FoundFrom, Found, Past
    <2>3. Typed' /\ IdsApart' /\ OnlyOwnStamped'
      BY <2>1 DEF IInv, Typed, IdsApart, OnlyOwnStamped, Ids, Stored
    <2>4. ASSUME NEW c \in Writer PROVE Placed(c)' /\ Waiting(c)'
      BY <2>1, <2>2 DEF IInv, Placed, Waiting
    <2>5. \A k \in DOMAIN rows : Rooted(k)'
      BY <2>1, <2>2 DEF IInv, Rooted
    <2> QED
      BY <2>1, <2>3, <2>4, <2>5 DEF IInv
  <1> QED
    BY <1>1, <1>2, <1>3, <1>4, <1>5, <1>6 DEF Next

(* The inductive invariant holds in every reachable state.                 *)
THEOREM Invariant == Spec => []IInv
  BY InitIInv, NextIInv, PTL DEF Spec

(* A stored root is the root of the ledger as it was at one moment after   *)
(* the row was inserted, and the stored index is its place in that ledger, *)
(* whatever other servers insert and whoever crashes.                      *)
THEOREM RootsWereTrue == Spec => []RootsArePast
  <1>1. IInv => RootsArePast
    BY DEF IInv, Rooted, FoundFrom, Found, RootsArePast
  <1> QED
    BY <1>1, Invariant, PTL

-----------------------------------------------------------------------------
(* The rows of any past are keyed, and no more than were inserted.         *)
LEMMA PastIsKeyed ==
  ASSUME Typed, IdsApart, NEW n \in 0 .. Len(rows)
  PROVE  /\ Stored(Past(n)) \in SUBSET Row
         /\ Stored(Past(n)) = {rows[k] : k \in 1 .. n}
         /\ Keyed(Stored(Past(n)))
         /\ IsFiniteSet(Stored(Past(n)))
         /\ Cardinality(Stored(Past(n))) <= n
  <1> DEFINE stored == {rows[k] : k \in 1 .. n}
             row == [k \in 1 .. n |-> rows[k]]
  <1>1. rows \in Seq(Row) /\ Len(rows) \in Nat /\ n \in Nat
    BY DEF Typed
  <1>2. \A k \in 1 .. n : k \in DOMAIN rows /\ rows[k] \in Row
    BY <1>1
  <1>3. Past(n) = row
    BY <1>1, <1>2 DEF Past
  <1>4. Stored(Past(n)) = stored
    BY <1>3 DEF Stored
  <1>5. stored \in SUBSET Row
    BY <1>2
  <1>6. Keyed(stored)
    BY <1>2 DEF Keyed, IdsApart
  <1>7. IsFiniteSet(1 .. n) /\ Cardinality(1 .. n) = n
    <2>1. /\ IsFiniteSet(1 .. n)
          /\ Cardinality(1 .. n) = IF 1 > n THEN 0 ELSE n - 1 + 1
      BY <1>1, FS_Interval
    <2> QED
      BY <1>1, <2>1
  <1>8. row \in Surjection(1 .. n, stored)
    BY DEF Surjection
  <1> HIDE DEF stored, row
  <1>9. IsFiniteSet(stored) /\ Cardinality(stored) <= Cardinality(1 .. n)
    BY <1>7, <1>8, FS_Surjection
  <1> QED
    BY <1>4, <1>5, <1>6, <1>7, <1>9 DEF stored

LEMMA LedgerIsKeyed ==
  ASSUME Typed, IdsApart
  PROVE  /\ Stored(rows) \in SUBSET Row
         /\ Keyed(Stored(rows))
         /\ IsFiniteSet(Stored(rows))
         /\ Past(Len(rows)) = rows
  <1>1. rows \in Seq(Row) /\ Len(rows) \in Nat /\ Len(rows) \in 0 .. Len(rows)
    BY DEF Typed
  <1>2. Past(Len(rows)) = rows
    BY <1>1 DEF Past
  <1> QED
    BY <1>1, <1>2, PastIsKeyed

(* Rows that sort after a row do not move it.                              *)
LEMMA PlaceStays ==
  ASSUME Typed, IdsApart, NEW k \in DOMAIN rows, NEW n \in k .. Len(rows),
         \A m \in k + 1 .. Len(rows) : Precedes(rows[k], rows[m])
  PROVE  Place(Stored(Past(n)), rows[k]) = Place(Stored(rows), rows[k])
  <1>1. /\ Len(rows) \in Nat /\ DOMAIN rows = 1 .. Len(rows) /\ n \in 0 .. Len(rows)
        /\ \A m \in 1 .. Len(rows) : rows[m] \in Row
    BY DEF Typed
  <1>2. Stored(Past(n)) = {rows[m] : m \in 1 .. n}
    BY <1>1, PastIsKeyed
  <1>3. Stored(rows) = {rows[m] : m \in 1 .. Len(rows)}
    BY <1>1 DEF Stored
  <1>4. ASSUME NEW m \in 1 .. Len(rows), Precedes(rows[m], rows[k]) PROVE m \in 1 .. n
    <2>1. ~ Precedes(rows[k], rows[m])
      BY <1>1, <1>4, RowsAreOrdered
    <2>2. m \notin k + 1 .. Len(rows)
      BY <2>1
    <2> QED
      BY <1>1, <2>2
  <1>5. \A m \in 1 .. n : m \in 1 .. Len(rows)
    BY <1>1
  <1>6. {s \in Stored(Past(n)) : Precedes(s, rows[k])} = {s \in Stored(rows) : Precedes(s, rows[k])}
    BY <1>2, <1>3, <1>4, <1>5
  <1> QED
    BY <1>6 DEF Place

(* A stored index stays the place of its row, and so what                  *)
(* generateMerkleProof gives, unless a later row sorts before it.          *)
THEOREM IndicesAreCurrent == Spec => []IndexIsCurrent
  <1>1. ASSUME IInv PROVE IndexIsCurrent
    <2> SUFFICES ASSUME NEW k \in DOMAIN rows, stamp[rows[k].id] # None,
                        \A m \in k + 1 .. Len(rows) : Precedes(rows[k], rows[m])
                 PROVE  stamp[rows[k].id].index = IndexIn(Leaves(Stored(rows)), rows[k].id)
      BY DEF IndexIsCurrent
    <2>1. Typed /\ IdsApart
      BY <1>1 DEF IInv
    <2>2. PICK n \in k .. Len(rows) : stamp[rows[k].id] = Found(rows[k].id, n)
      BY <1>1 DEF IInv, Rooted, FoundFrom
    <2>3. stamp[rows[k].id].index = IndexIn(Leaves(Stored(Past(n))), rows[k].id)
      BY <2>2 DEF Found
    <2>4. /\ DOMAIN rows = 1 .. Len(rows) /\ Len(rows) \in Nat
          /\ n \in 0 .. Len(rows) /\ k \in 1 .. n
      BY <2>1 DEF Typed
    <2>5. rows[k] \in Stored(Past(n)) /\ rows[k] \in Stored(rows)
      <3>1. Stored(Past(n)) = {rows[m] : m \in 1 .. n}
        BY <2>1, <2>4, PastIsKeyed
      <3> QED
        BY <2>4, <3>1 DEF Stored
    <2>6. IndexIn(Leaves(Stored(Past(n))), rows[k].id) = Place(Stored(Past(n)), rows[k]) - 1
      <3>1. Stored(Past(n)) \in SUBSET Row /\ IsFiniteSet(Stored(Past(n)))
        BY <2>1, <2>4, PastIsKeyed
      <3>2. Keyed(Stored(Past(n)))
        BY <2>1, <2>4, PastIsKeyed
      <3> QED
        BY <2>5, <3>1, <3>2, IndexIsPlace
    <2>7. IndexIn(Leaves(Stored(rows)), rows[k].id) = Place(Stored(rows), rows[k]) - 1
      <3>1. Stored(rows) \in SUBSET Row /\ IsFiniteSet(Stored(rows)) /\ Keyed(Stored(rows))
        BY <2>1, LedgerIsKeyed
      <3> QED
        BY <2>5, <3>1, IndexIsPlace
    <2>8. Place(Stored(Past(n)), rows[k]) = Place(Stored(rows), rows[k])
      BY <2>1, PlaceStays
    <2> QED
      BY <2>3, <2>6, <2>7, <2>8
  <1> QED
    BY <1>1, Invariant, PTL

(* tests/integration.test.ts:446: the proof of every row verifies under    *)
(* the root of the ledger, and under no other leaf hash.                   *)
THEOREM LedgerProofsHold == Spec => []ProofsHold
  <1>1. ASSUME IInv PROVE ProofsHold
    <2> DEFINE leaves == Leaves(Stored(rows))
               X == {LeafHash(r.id) : r \in Stored(rows)}
    <2>1. Stored(rows) \in SUBSET Row /\ IsFiniteSet(Stored(rows)) /\ Keyed(Stored(rows))
      BY <1>1, LedgerIsKeyed DEF IInv
    <2>2. leaves \in Seq(X)
      BY <2>1, LeavesHoldRows
    <2> HIDE DEF leaves, X
    <2>3. ASSUME NEW k \in DOMAIN leaves
          PROVE  /\ BuildProof(leaves, k - 1).root = Root(leaves)
                 /\ \A e \in ExecutionId :
                      VerifyProof([BuildProof(leaves, k - 1) EXCEPT !.leaf = LeafHash(e)])
                        <=> LeafHash(e) = leaves[k]
      <3>1. k - 1 \in 0 .. Len(leaves) - 1 /\ (k - 1) + 1 = k
        BY <2>2
      <3>2. BuildProof(leaves, k - 1).root = Root(leaves)
        BY DEF BuildProof
      <3>3. ASSUME NEW e \in ExecutionId
            PROVE  VerifyProof([BuildProof(leaves, k - 1) EXCEPT !.leaf = LeafHash(e)])
                     <=> LeafHash(e) = leaves[k]
        <4>1. VerifyProof([BuildProof(leaves, k - 1) EXCEPT !.leaf = LeafHash(e)])
                <=> LeafHash(e) = leaves[(k - 1) + 1]
          BY <2>2, <3>1, ProofsVerify
        <4> QED
          BY <3>1, <4>1
      <3> QED
        BY <3>2, <3>3
    <2> QED
      BY <2>3 DEF ProofsHold, VerifyProof, leaves
  <1> QED
    BY <1>1, Invariant, PTL

(* A root commits to the rows of its ledger: no part of them has the same. *)
THEOREM RootsCommitAlways == Spec => []RootsCommit
  <1>1. ASSUME IInv PROVE RootsCommit
    <2> SUFFICES ASSUME NEW part \in SUBSET Stored(rows),
                        part # {}, part # Stored(rows),
                        Root(Leaves(part)) = Root(Leaves(Stored(rows)))
                 PROVE  FALSE
      BY DEF RootsCommit
    <2> DEFINE all == Stored(rows)
    <2>1. all \in SUBSET Row /\ IsFiniteSet(all) /\ Keyed(all)
      BY <1>1, LedgerIsKeyed DEF IInv
    <2>2. part \in SUBSET all /\ part # {} /\ part # all
      OBVIOUS
    <2>3. Root(Leaves(part)) = Root(Leaves(all))
      OBVIOUS
    <2> HIDE DEF all
    <2>4. IsFiniteSet(part) /\ (Cardinality(all) = Cardinality(part) => all = part)
      BY <2>1, <2>2, FS_Subset
    <2>5. part \in SUBSET Row /\ Keyed(part) /\ all # {}
      BY <2>1, <2>2 DEF Keyed
    <2>6. /\ Leaves(all) \in Seq({LeafHash(r.id) : r \in all})
          /\ Len(Leaves(all)) = Cardinality(all)
      BY <2>1, LeavesHoldRows
    <2>7. /\ Leaves(part) \in Seq({LeafHash(r.id) : r \in part})
          /\ Len(Leaves(part)) = Cardinality(part)
      BY <2>4, <2>5, LeavesHoldRows
    <2>8. LeafLevel(Leaves(all))
      BY <2>1, <2>5, LeavesAreLeaves
    <2>9. LeafLevel(Leaves(part))
      BY <2>2, <2>4, <2>5, LeavesAreLeaves
    <2>10. SameLevel(Leaves(part), Leaves(all))
      BY <2>3, <2>6, <2>7, <2>8, <2>9, RootsTellLeaves
    <2>11. Cardinality(part) = Cardinality(all)
      BY <2>6, <2>7, <2>10 DEF SameLevel
    <2> QED
      BY <2>2, <2>4, <2>11
  <1> QED
    BY <1>1, Invariant, PTL

LEMMA FoundIsPosition ==
  ASSUME Typed, IdsApart, NEW k \in DOMAIN rows, NEW found, FoundFrom(k, found)
  PROVE  found.index \in 0 .. Len(rows) - 1
  <1>1. PICK n \in k .. Len(rows) : found = Found(rows[k].id, n)
    BY DEF FoundFrom
  <1>2. found.index = IndexIn(Leaves(Stored(Past(n))), rows[k].id)
    BY <1>1 DEF Found
  <1>3. /\ DOMAIN rows = 1 .. Len(rows) /\ Len(rows) \in Nat
        /\ n \in 0 .. Len(rows) /\ k \in 1 .. n
    BY DEF Typed
  <1> DEFINE stored == Stored(Past(n))
  <1>4. stored \in SUBSET Row /\ IsFiniteSet(stored) /\ Cardinality(stored) <= n
    BY <1>3, PastIsKeyed
  <1>5. Keyed(stored)
    BY <1>3, PastIsKeyed
  <1>6. rows[k] \in stored
    <2>1. stored = {rows[m] : m \in 1 .. n}
      BY <1>3, PastIsKeyed
    <2> QED
      BY <1>3, <2>1
  <1> HIDE DEF stored
  <1>7. IndexIn(Leaves(stored), rows[k].id) = Place(stored, rows[k]) - 1
    BY <1>4, <1>5, <1>6, IndexIsPlace
  <1>8. Place(stored, rows[k]) \in 1 .. Cardinality(stored)
    BY <1>4, <1>6, PlaceIsPosition
  <1>9. Cardinality(stored) \in Nat
    BY <1>4, FS_CardinalityType
  <1>10. found.index = Place(stored, rows[k]) - 1
    BY <1>2, <1>7 DEF stored
  <1> QED
    BY <1>3, <1>4, <1>8, <1>9, <1>10

(* Every variable holds a value of its kind, and every stored index is a   *)
(* position in the ledger.                                                 *)
THEOREM TypeCorrect == Spec => []TypeOK
  <1>1. ASSUME IInv PROVE TypeOK
    <2>1. Typed /\ IdsApart
      BY <1>1 DEF IInv
    <2>2. ASSUME NEW e \in ExecutionId, stamp[e] # None
          PROVE  stamp[e].index \in 0 .. Len(rows) - 1
      <3>1. PICK k \in DOMAIN rows : rows[k].id = e
        BY <1>1, <2>2 DEF IInv, OnlyOwnStamped, Ids, Stored
      <3>2. FoundFrom(k, stamp[e])
        BY <1>1, <2>2, <3>1 DEF IInv, Rooted
      <3> QED
        BY <2>1, <3>2, FoundIsPosition
    <2>3. ASSUME NEW c \in Writer, seen[c] # None
          PROVE  seen[c].index \in 0 .. Len(rows) - 1
      <3>1. pc[c] = "stamp"
        BY <1>1, <2>3 DEF IInv, Waiting
      <3>2. PICK k \in DOMAIN rows : FoundFrom(k, seen[c])
        BY <1>1, <3>1 DEF IInv, Placed, HoldsLoop
      <3> QED
        BY <2>1, <3>2, FoundIsPosition
    <2> QED
      BY <2>1, <2>2, <2>3 DEF TypeOK, Typed, Row
  <1> QED
    BY <1>1, Invariant, PTL

-----------------------------------------------------------------------------
(* The stored index leads to a proof of the row, and the proof verifies    *)
(* under the stored root, in a ledger that was there after the insertion.  *)
StampsProve ==
  \A k \in DOMAIN rows : stamp[rows[k].id] # None =>
    \E n \in k .. Len(rows) :
      LET leaves == Leaves(Stored(Past(n)))
          index == stamp[rows[k].id].index
          proof == BuildProof(leaves, index)
      IN
      /\ index \in 0 .. Len(leaves) - 1
      /\ proof.root = stamp[rows[k].id].root
      /\ proof.leaf = LeafHash(rows[k].id)
      /\ VerifyProof(proof)

(* What #writeExecutionRecord stores in a row is what a client needs: from *)
(* the root and the index a proof of that very row can be rebuilt.         *)
THEOREM StoredRootsAreProvable == Spec => []StampsProve
  <1>1. ASSUME IInv PROVE StampsProve
    <2> SUFFICES ASSUME NEW k \in DOMAIN rows, stamp[rows[k].id] # None
                 PROVE  \E n \in k .. Len(rows) :
                          LET leaves == Leaves(Stored(Past(n)))
                              index == stamp[rows[k].id].index
                              proof == BuildProof(leaves, index)
                          IN
                          /\ index \in 0 .. Len(leaves) - 1
                          /\ proof.root = stamp[rows[k].id].root
                          /\ proof.leaf = LeafHash(rows[k].id)
                          /\ VerifyProof(proof)
      BY DEF StampsProve
    <2>1. Typed /\ IdsApart
      BY <1>1 DEF IInv
    <2>2. PICK n \in k .. Len(rows) : stamp[rows[k].id] = Found(rows[k].id, n)
      BY <1>1 DEF IInv, Rooted, FoundFrom
    <2> DEFINE stored == Stored(Past(n))
               leaves == Leaves(stored)
               index == stamp[rows[k].id].index
               X == {LeafHash(r.id) : r \in stored}
    <2>3. index = IndexIn(leaves, rows[k].id) /\ stamp[rows[k].id].root = Root(leaves)
      BY <2>2 DEF Found
    <2>4. /\ DOMAIN rows = 1 .. Len(rows) /\ Len(rows) \in Nat
          /\ n \in 0 .. Len(rows) /\ k \in 1 .. n
      BY <2>1 DEF Typed
    <2>5. stored \in SUBSET Row /\ IsFiniteSet(stored) /\ Keyed(stored)
      BY <2>1, <2>4, PastIsKeyed
    <2>6. rows[k] \in stored
      <3>1. stored = {rows[m] : m \in 1 .. n}
        BY <2>1, <2>4, PastIsKeyed
      <3> QED
        BY <2>4, <3>1
    <2> HIDE DEF stored
    <2>7. leaves \in Seq(X) /\ Len(leaves) = Cardinality(stored)
      BY <2>5, LeavesHoldRows
    <2>8. Place(stored, rows[k]) \in 1 .. Cardinality(stored) /\ Cardinality(stored) \in Nat
      BY <2>5, <2>6, PlaceIsPosition, FS_CardinalityType
    <2>9. index = Place(stored, rows[k]) - 1
      BY <2>3, <2>5, <2>6, IndexIsPlace
    <2>10. leaves[Place(stored, rows[k])] = LeafHash(rows[k].id)
      <3>1. PICK r \in stored : /\ Place(stored, r) = Place(stored, rows[k])
                                /\ leaves[Place(stored, rows[k])] = LeafHash(r.id)
        BY <2>5, <2>8, LeavesHoldRows
      <3>2. r = rows[k]
        BY <2>5, <2>6, <3>1, PlacesDiffer
      <3> QED
        BY <3>1, <3>2
    <2> HIDE DEF leaves, index, X
    <2>11. /\ index \in 0 .. Len(leaves) - 1
           /\ leaves[index + 1] = LeafHash(rows[k].id)
      BY <2>7, <2>8, <2>9, <2>10
    <2> DEFINE proof == BuildProof(leaves, index)
    <2>12. /\ proof.root = Root(leaves) /\ proof.leaf = leaves[index + 1]
           /\ [proof EXCEPT !.leaf = leaves[index + 1]] = proof
      BY DEF BuildProof
    <2>13. VerifyProof([proof EXCEPT !.leaf = leaves[index + 1]])
             <=> leaves[index + 1] = leaves[index + 1]
      BY <2>7, <2>11, ProofsVerify
    <2> HIDE DEF proof
    <2>14. /\ proof.root = stamp[rows[k].id].root /\ proof.leaf = LeafHash(rows[k].id)
           /\ VerifyProof(proof)
      BY <2>3, <2>11, <2>12, <2>13
    <2> QED
      BY <2>11, <2>14 DEF proof, leaves, index, stored
  <1> QED
    BY <1>1, Invariant, PTL

-----------------------------------------------------------------------------
(* A call that is writing has an id of its own, not stamped yet.           *)
Unstamped ==
  \A c \in Writer : pc[c] \in HoldsLoop =>
    /\ stamp[own[c]] = None
    /\ \A d \in Writer : pc[d] \in HoldsLoop /\ own[d] = own[c] => d = c

LEMMA NextUnstamped == IInv /\ Unstamped /\ [Next]_vars => Unstamped'
  <1> SUFFICES ASSUME IInv, Unstamped, [Next]_vars PROVE Unstamped'
    OBVIOUS
  <1>t. /\ pc \in [Writer -> Resting \cup HoldsLoop]
        /\ own \in [Writer -> ExecutionId \cup {None}]
        /\ DOMAIN stamp = ExecutionId
    BY DEF IInv, Typed
  <1>1. ASSUME NEW c \in Writer, NEW e \in ExecutionId, NEW at \in Time, Insert(c, e, at)
        PROVE  Unstamped'
    <2>1. /\ e \notin Ids(rows) /\ own' = [own EXCEPT ![c] = e]
          /\ pc' = [pc EXCEPT ![c] = "leaves"] /\ UNCHANGED stamp
      BY <1>1 DEF Insert, Goto
    <2>2. stamp[e] = None
      BY <2>1 DEF IInv, OnlyOwnStamped
    <2>3. \A d \in Writer : pc[d] \in HoldsLoop => own[d] # e
      BY <2>1 DEF IInv, Placed, Ids, Stored
    <2> QED
      BY <1>t, <2>1, <2>2, <2>3 DEF Unstamped
  <1>2. ASSUME NEW c \in Writer, ReadLeaves(c) PROVE Unstamped'
    BY <1>t, <1>2 DEF ReadLeaves, Goto, Unstamped, HoldsLoop
  <1>3. ASSUME NEW c \in Writer, Stamp(c) PROVE Unstamped'
    <2>1. /\ pc[c] = "stamp" /\ stamp' = [stamp EXCEPT ![own[c]] = seen[c]]
          /\ pc' = [pc EXCEPT ![c] = "done"] /\ Forget({c})
      BY <1>3 DEF Stamp, Goto
    <2>2. ASSUME NEW d \in Writer, pc'[d] \in HoldsLoop
          PROVE  d # c /\ pc[d] \in HoldsLoop /\ own'[d] = own[d] /\ stamp'[own[d]] = stamp[own[d]]
      <3>1. d # c /\ pc'[d] = pc[d] /\ own'[d] = own[d]
        BY <1>t, <2>1, <2>2 DEF Forget, HoldsLoop
      <3>2. own[d] # own[c]
        BY <2>1, <2>2, <3>1 DEF Unstamped, HoldsLoop
      <3> QED
        BY <2>1, <2>2, <3>1, <3>2
    <2> QED
      BY <2>2 DEF Unstamped
  <1>4. ASSUME NEW c \in Writer, WriteThrows(c) PROVE Unstamped'
    BY <1>t, <1>4 DEF WriteThrows, Goto, Forget, Unstamped, HoldsLoop
  <1>5. ASSUME NEW s \in Server, Crash(s) PROVE Unstamped'
    BY <1>t, <1>5 DEF Crash, Forget, Unstamped, HoldsLoop
  <1>6. CASE UNCHANGED vars
    BY <1>6 DEF vars, Unstamped
  <1> QED
    BY <1>1, <1>2, <1>3, <1>4, <1>5, <1>6 DEF Next

(* Rows of execution_records stay as they were inserted, and a root and an *)
(* index that a row has stay in it: nothing deletes or updates them again. *)
KeepsRecords ==
  /\ \A k \in DOMAIN rows : k \in DOMAIN rows' /\ rows'[k] = rows[k]
  /\ \A e \in ExecutionId : stamp[e] # None => stamp'[e] = stamp[e]

(* The ledger is append-only: no step takes back or changes a row, nor the *)
(* root and index that were once stored in one.                            *)
THEOREM LedgerIsAppendOnly == Spec => [][KeepsRecords]_vars
  <1>1. Init => Unstamped
    BY DEF Init, Unstamped, HoldsLoop
  <1>2. ASSUME IInv, Unstamped, Next PROVE KeepsRecords
    <2>1. ASSUME NEW c \in Writer, NEW e \in ExecutionId, NEW at \in Time, Insert(c, e, at)
          PROVE  KeepsRecords
      <3> DEFINE r == [id |-> e, at |-> at]
      <3>1. r \in Row /\ rows' = Append(rows, r) /\ stamp' = stamp
        BY <2>1 DEF Row, Insert
      <3>2. \A k \in DOMAIN rows : k \in DOMAIN rows' /\ rows'[k] = rows[k]
        BY <1>2, <3>1, PastStays DEF IInv
      <3> QED
        BY <3>1, <3>2 DEF KeepsRecords
    <2>2. ASSUME NEW c \in Writer, ReadLeaves(c) \/ WriteThrows(c) PROVE KeepsRecords
      BY <2>2 DEF ReadLeaves, WriteThrows, KeepsRecords
    <2>3. ASSUME NEW c \in Writer, Stamp(c) PROVE KeepsRecords
      <3>1. stamp[own[c]] = None
        BY <1>2, <2>3 DEF Stamp, Unstamped, HoldsLoop
      <3> QED
        BY <1>2, <2>3, <3>1 DEF Stamp, KeepsRecords, IInv, Typed
    <2>4. ASSUME NEW s \in Server, Crash(s) PROVE KeepsRecords
      BY <2>4 DEF Crash, KeepsRecords
    <2> QED
      BY <1>2, <2>1, <2>2, <2>3, <2>4 DEF Next
  <1>3. IInv /\ Unstamped /\ [Next]_vars => [KeepsRecords]_vars
    BY <1>2
  <1> QED
    BY <1>1, <1>3, NextUnstamped, Invariant, PTL DEF Spec
=============================================================================
