-------------------------- MODULE SettlementProofs --------------------------
(***************************************************************************)
(* Theorems about Settlement, for every set of identities, ids, calls,     *)
(* servers and instructions.                                               *)
(***************************************************************************)
EXTENDS Settlement, FiniteSetTheorems, WellFoundedInduction, TLAPS

(* First what a fold of a finite set is, and what follows for the sums     *)
(* SumFunctionOnSet(f, S) of the community modules: they are integers, and *)
(* change by f[z] with a z put in or taken out.  In an induction the       *)
(* property is given as the set Good of what has it.                       *)

(* What a subset of a finite set has whenever its own strict subsets have  *)
(* it, all of them have.                                                   *)
LEMMA FiniteSubsetInduction ==
  ASSUME NEW S, IsFiniteSet(S), NEW Good,
         \A T \in SUBSET S : (\A U \in (SUBSET T) \ {T} : U \in Good) => T \in Good
  PROVE  SUBSET S \subseteq Good
  <1> DEFINE Bad == (SUBSET S) \ Good
  <1> SUFFICES ASSUME Bad # {} PROVE FALSE
    OBVIOUS
  <1>1. Bad \subseteq FiniteSubsetsOf(S)
    BY FS_FiniteSubsetsOfFinite
  <1>2. IsWellFoundedOn(StrictSubsetOrdering(S), FiniteSubsetsOf(S))
    BY FS_StrictSubsetOrderingWellFounded
  <1>3. PICK T \in Bad : \A U \in Bad : <<U, T>> \notin StrictSubsetOrdering(S)
    <2> HIDE DEF Bad
    <2> QED
      BY <1>1, <1>2, WFMin
  <1>4. ASSUME NEW U \in (SUBSET T) \ {T} PROVE U \in Good
    <2>1. U \in SUBSET S /\ T \in SUBSET S
      OBVIOUS
    <2>2. <<U, T>> \in StrictSubsetOrdering(S)
      BY <2>1, <1>4 DEF StrictSubsetOrdering
    <2> QED
      BY <1>3, <2>1, <2>2
  <1> QED
    BY <1>4

(* g satisfies the equation of a fold that takes pick[T] out of T first.   *)
Unfolds(g, S, base, pick, step) ==
  \A T \in SUBSET S : g[T] = IF T = {} THEN base ELSE step[<<pick[T], g[T \ {pick[T]}]>>]

(* g is the function that Functions and Folds define by that equation.     *)
IsFold(g, S, base, pick, step) ==
  g = [T \in SUBSET S |-> IF T = {} THEN base ELSE step[<<pick[T], g[T \ {pick[T]}]>>]]

(* The equation has one solution; a larger set makes no difference.        *)
LEMMA FoldUnique ==
  ASSUME NEW S, IsFiniteSet(S), NEW R, NEW base, NEW pick, NEW step, NEW g, NEW h,
         \A T \in SUBSET S : T # {} => pick[T] \in T,
         Unfolds(g, S, base, pick, step), S \subseteq R, Unfolds(h, R, base, pick, step)
  PROVE  \A T \in SUBSET S : g[T] = h[T]
  <1> DEFINE Good == {T \in SUBSET S : g[T] = h[T]}
  <1>1. ASSUME NEW T \in SUBSET S, \A U \in (SUBSET T) \ {T} : U \in Good
        PROVE  T \in Good
    <2>1. CASE T = {}
      BY <2>1 DEF Unfolds
    <2>2. CASE T # {}
      <3>1. T \ {pick[T]} \in Good
        BY <1>1, <2>2
      <3> QED
        BY <2>2, <3>1 DEF Unfolds
    <2> QED
      BY <2>1, <2>2
  <1>2. SUBSET S \subseteq Good
    <2> HIDE DEF Good
    <2> QED
      BY <1>1, FiniteSubsetInduction
  <1> QED
    BY <1>2

(* The equation has a solution, so that CHOOSE finds it.                   *)
LEMMA FoldExists ==
  ASSUME NEW S, IsFiniteSet(S), NEW base, NEW pick, NEW step,
         \A T \in SUBSET S : T # {} => pick[T] \in T
  PROVE  \E g : IsFold(g, S, base, pick, step)
  <1> DEFINE Is(g, U) == g = [T \in SUBSET U |->
                      IF T = {} THEN base ELSE step[<<pick[T], g[T \ {pick[T]}]>>]]
             Good == {U \in SUBSET S : \E g : Is(g, U)}
             Solve(U) == CHOOSE g : Is(g, U)
  <1>1. ASSUME NEW U \in SUBSET S, \A V \in (SUBSET U) \ {U} : V \in Good
        PROVE  U \in Good
    <2> DEFINE last == IF U = {} THEN base
                       ELSE step[<<pick[U], Solve(U \ {pick[U]})[U \ {pick[U]}]>>]
               h == [T \in SUBSET U |-> IF T = U THEN last ELSE Solve(T)[T]]
    <2>1. ASSUME NEW V \in (SUBSET U) \ {U}
          PROVE  Is(Solve(V), V) /\ Unfolds(Solve(V), V, base, pick, step)
      <3>1. Is(Solve(V), V)
        BY <1>1
      <3> QED
        BY <3>1 DEF Unfolds
    <2>2. ASSUME NEW V \in (SUBSET U) \ {U}, NEW T \in SUBSET V
          PROVE  Solve(V)[T] = Solve(T)[T]
      <3> HIDE DEF Solve, Is
      <3>1. T \in (SUBSET U) \ {U} /\ IsFiniteSet(T)
        BY FS_Subset
      <3> QED
        BY <2>1, <3>1, FoldUnique
    <2>3. ASSUME NEW T \in SUBSET U
          PROVE  h[T] = IF T = {} THEN base ELSE step[<<pick[T], h[T \ {pick[T]}]>>]
      <3> HIDE DEF Solve, Is
      <3>1. CASE T = U
        BY <3>1
      <3>2. CASE T # U
        <4> DEFINE V == T \ {pick[T]}
        <4>1. T \in (SUBSET U) \ {U} /\ h[T] = Solve(T)[T]
          BY <3>2
        <4>2. CASE T = {}
          BY <2>1, <4>1, <4>2 DEF Unfolds
        <4>3. CASE T # {}
          <5>1. V \in SUBSET T /\ V # U /\ V \in SUBSET U
            BY <4>1, <4>3
          <5>2. Solve(T)[V] = Solve(V)[V]
            BY <2>2, <4>1, <5>1
          <5>3. h[V] = Solve(V)[V]
            BY <5>1
          <5>4. Solve(T)[T] = step[<<pick[T], Solve(T)[V]>>]
            BY <2>1, <4>1, <4>3 DEF Unfolds
          <5> QED
            BY <4>1, <4>3, <5>2, <5>3, <5>4
        <4> QED
          BY <4>2, <4>3
      <3> QED
        BY <3>1, <3>2
    <2>4. Is(h, U)
      <3> HIDE DEF Solve
      <3> QED
      BY <2>3
    <2> QED
      BY <2>4
  <1>2. S \in Good
    <2> HIDE DEF Good
    <2> QED
      BY <1>1, FiniteSubsetInduction
  <1> QED
    BY <1>2 DEF IsFold

(* A fold stays in the set its steps stay in.                              *)
LEMMA FoldType ==
  ASSUME NEW S, IsFiniteSet(S), NEW V, NEW base \in V, NEW pick, NEW step, NEW g,
         \A T \in SUBSET S : T # {} => pick[T] \in T,
         \A x \in S, v \in V : step[<<x, v>>] \in V,
         Unfolds(g, S, base, pick, step)
  PROVE  \A T \in SUBSET S : g[T] \in V
  <1> DEFINE Good == {T \in SUBSET S : g[T] \in V}
  <1>1. ASSUME NEW T \in SUBSET S, \A U \in (SUBSET T) \ {T} : U \in Good
        PROVE  T \in Good
    <2>1. CASE T = {}
      BY <2>1 DEF Unfolds
    <2>2. CASE T # {}
      <3>1. pick[T] \in S /\ T \ {pick[T]} \in Good
        BY <1>1, <2>2
      <3> QED
        BY <2>2, <3>1 DEF Unfolds
    <2> QED
      BY <2>1, <2>2
  <1>2. SUBSET S \subseteq Good
    <2> HIDE DEF Good
    <2> QED
      BY <1>1, FiniteSubsetInduction
  <1> QED
    BY <1>2

(* The element that SumFunctionOnSet takes first.                          *)
Picked(T) == CHOOSE x \in T : TRUE

(* The recursive function in the definition of SumFunctionOnSet.           *)
IsSum(g, S, f) ==
  g = [T \in SUBSET S |-> IF T = {} THEN 0 ELSE f[Picked(T)] + g[T \ {Picked(T)}]]

SumFold(S, f) == CHOOSE g : IsSum(g, S, f)

(* SumFunctionOnSet is that function at S.                                 *)
LEMMA SumIsFold ==
  ASSUME NEW S, NEW f
  PROVE  SumFunctionOnSet(f, S) = SumFold(S, f)[S]
  BY DEF SumFunctionOnSet, FoldFunctionOnSet, MapThenFoldSet, SumFold, IsSum, Picked

(* Its choice and its steps as functions.                                  *)
PickFrom(S) == [T \in SUBSET S |-> Picked(T)]
AddTo(S, f) == [p \in S \X Int |-> f[p[1]] + p[2]]

(* The choice is an element.                                               *)
LEMMA PickFromPicks ==
  ASSUME NEW S
  PROVE  \A T \in SUBSET S : PickFrom(S)[T] = Picked(T) /\ (T # {} => Picked(T) \in T)
  BY DEF PickFrom, Picked

(* The steps add.                                                          *)
LEMMA AddToAdds ==
  ASSUME NEW S, NEW f, \A x \in S : f[x] \in Int
  PROVE  \A x \in S, v \in Int : AddTo(S, f)[<<x, v>>] = f[x] + v /\ f[x] + v \in Int
  BY DEF AddTo

(* The function that CHOOSE looks for exists.                              *)
LEMMA SumFoldFolds ==
  ASSUME NEW S, IsFiniteSet(S), NEW f, \A x \in S : f[x] \in Int
  PROVE  IsSum(SumFold(S, f), S, f)
  <1> DEFINE pick == PickFrom(S)
             add == AddTo(S, f)
  <1>1. \A T \in SUBSET S : pick[T] = Picked(T) /\ (T # {} => pick[T] \in T)
    BY PickFromPicks
  <1>2. \A x \in S, v \in Int : add[<<x, v>>] = f[x] + v /\ f[x] + v \in Int
    BY AddToAdds
  <1> HIDE DEF pick, add
  <1>3. PICK g : IsFold(g, S, 0, pick, add)
    BY <1>1, FoldExists
  <1>4. Unfolds(g, S, 0, pick, add)
    BY <1>3 DEF Unfolds, IsFold
  <1>5. \A T \in SUBSET S : g[T] \in Int
    BY <1>1, <1>2, <1>4, FoldType
  <1>6. ASSUME NEW T \in SUBSET S
        PROVE  (IF T = {} THEN 0 ELSE add[<<pick[T], g[T \ {pick[T]}]>>])
                 = (IF T = {} THEN 0 ELSE f[Picked(T)] + g[T \ {Picked(T)}])
    <2>1. T # {} => pick[T] = Picked(T) /\ Picked(T) \in S /\ g[T \ {Picked(T)}] \in Int
      BY <1>1, <1>5
    <2> QED
      BY <1>2, <2>1
  <1>7. IsSum(g, S, f)
    BY <1>3, <1>6 DEF IsFold, IsSum
  <1> QED
    BY <1>7 DEF SumFold

(* Sums of integers are integers.                                          *)
LEMMA SumFoldTyped ==
  ASSUME NEW S, IsFiniteSet(S), NEW f, \A x \in S : f[x] \in Int
  PROVE  \A T \in SUBSET S : SumFold(S, f)[T] \in Int
  <1> DEFINE g == SumFold(S, f)
             Good == {T \in SUBSET S : g[T] \in Int}
  <1>1. IsSum(g, S, f)
    BY SumFoldFolds
  <1> HIDE DEF g
  <1>2. ASSUME NEW T \in SUBSET S, \A U \in (SUBSET T) \ {T} : U \in Good
        PROVE  T \in Good
    <2>1. g[T] = IF T = {} THEN 0 ELSE f[Picked(T)] + g[T \ {Picked(T)}]
      BY <1>1 DEF IsSum
    <2>2. CASE T # {}
      <3>1. Picked(T) \in T
        BY <2>2 DEF Picked
      <3>2. T \ {Picked(T)} \in Good
        BY <1>2, <3>1
      <3> QED
        BY <2>1, <2>2, <3>1, <3>2
    <2> QED
      BY <2>1, <2>2
  <1>3. SUBSET S \subseteq Good
    <2> HIDE DEF Good
    <2> QED
      BY <1>2, FiniteSubsetInduction
  <1> QED
    BY <1>3 DEF g

(* A sum is 0 or an element and the sum of the others.                     *)
LEMMA SumIs ==
  ASSUME NEW S, IsFiniteSet(S), NEW f, \A x \in S : f[x] \in Int, NEW T \in SUBSET S
  PROVE  /\ SumFold(S, f)[T] \in Int
         /\ SumFold(S, f)[T] = IF T = {} THEN 0 ELSE f[Picked(T)] + SumFold(S, f)[T \ {Picked(T)}]
         /\ T # {} => Picked(T) \in T
  <1>1. IsSum(SumFold(S, f), S, f)
    BY SumFoldFolds
  <1>2. SumFold(S, f)[T] \in Int
    BY SumFoldTyped
  <1>3. T # {} => Picked(T) \in T
    BY DEF Picked
  <1> QED
    BY <1>1, <1>2, <1>3 DEF IsSum

(* The sum of a subset is the same in the recursion over a larger set.     *)
LEMMA SumFoldAgrees ==
  ASSUME NEW S, IsFiniteSet(S), NEW f, \A x \in S : f[x] \in Int, NEW U \in SUBSET S
  PROVE  SumFold(U, f)[U] = SumFold(S, f)[U]
  <1> DEFINE g == SumFold(U, f)
             h == SumFold(S, f)
             Good == {T \in SUBSET U : g[T] = h[T]}
  <1>1. IsFiniteSet(U) /\ \A x \in U : f[x] \in Int
    BY FS_Subset
  <1>2. ASSUME NEW T \in SUBSET U
        PROVE  /\ g[T] = IF T = {} THEN 0 ELSE f[Picked(T)] + g[T \ {Picked(T)}]
               /\ h[T] = IF T = {} THEN 0 ELSE f[Picked(T)] + h[T \ {Picked(T)}]
               /\ T # {} => Picked(T) \in T
    <2>1. g[T] = IF T = {} THEN 0 ELSE f[Picked(T)] + g[T \ {Picked(T)}]
      <3>1. IsSum(g, U, f)
        BY <1>1, SumFoldFolds
      <3> HIDE DEF g
      <3> QED
        BY <3>1 DEF IsSum
    <2>2. T \in SUBSET S
      OBVIOUS
    <2>3. h[T] = IF T = {} THEN 0 ELSE f[Picked(T)] + h[T \ {Picked(T)}]
      BY <2>2, SumIs
    <2>4. T # {} => Picked(T) \in T
      BY <2>2, SumIs
    <2> QED
      BY <2>1, <2>3, <2>4
  <1> HIDE DEF g, h
  <1>3. ASSUME NEW T \in SUBSET U, \A V \in (SUBSET T) \ {T} : V \in Good
        PROVE  T \in Good
    <2>1. T # {} => T \ {Picked(T)} \in Good
      BY <1>2, <1>3
    <2>2. T # {} => g[T \ {Picked(T)}] = h[T \ {Picked(T)}]
      BY <2>1
    <2> QED
      BY <1>2, <2>2
  <1>4. SUBSET U \subseteq Good
    <2> HIDE DEF Good
    <2> QED
      BY <1>1, <1>3, FiniteSubsetInduction
  <1> QED
    BY <1>4 DEF g, h

(* The same of SumFunctionOnSet.                                           *)
LEMMA SumUnfolds ==
  ASSUME NEW S, IsFiniteSet(S), NEW f, \A x \in S : f[x] \in Int
  PROVE  /\ SumFunctionOnSet(f, S) \in Int
         /\ S = {} => SumFunctionOnSet(f, S) = 0
         /\ S # {} =>
              /\ Picked(S) \in S
              /\ SumFunctionOnSet(f, S) = f[Picked(S)] + SumFunctionOnSet(f, S \ {Picked(S)})
  <1> DEFINE U == S \ {Picked(S)}
  <1>1. /\ SumFold(S, f)[S] \in Int
        /\ SumFold(S, f)[S] = IF S = {} THEN 0 ELSE f[Picked(S)] + SumFold(S, f)[U]
        /\ S # {} => Picked(S) \in S
    BY SumIs
  <1>2. SumFold(U, f)[U] = SumFold(S, f)[U]
    <2> U \in SUBSET S
      OBVIOUS
    <2> HIDE DEF U
    <2> QED
      BY SumFoldAgrees
  <1> QED
    BY <1>1, <1>2, SumIsFold

(* Any element, not just the one that CHOOSE picks, can be taken first.    *)
LEMMA SumRemoves ==
  ASSUME NEW S, IsFiniteSet(S), NEW f, \A x \in S : f[x] \in Int, NEW z \in S
  PROVE  SumFunctionOnSet(f, S) = f[z] + SumFunctionOnSet(f, S \ {z})
  <1> DEFINE Sum(T) == SumFunctionOnSet(f, T)
             Good == {T \in SUBSET S : \A x \in T : Sum(T) = f[x] + Sum(T \ {x})}
  <1> HIDE DEF Sum
  <1>1. /\ \A T \in SUBSET S : Sum(T) \in Int
        /\ \A T \in SUBSET S : T # {} =>
             Picked(T) \in T /\ Sum(T) = f[Picked(T)] + Sum(T \ {Picked(T)})
    <2>1. \A T \in SUBSET S : IsFiniteSet(T) /\ \A x \in T : f[x] \in Int
      BY FS_Subset
    <2> QED
      BY <2>1, SumUnfolds DEF Sum
  <1>2. ASSUME NEW T \in SUBSET S, \A U \in (SUBSET T) \ {T} : U \in Good, NEW x \in T
        PROVE  Sum(T) = f[x] + Sum(T \ {x})
    <2> DEFINE p == Picked(T)
    <2>1. p \in T /\ Sum(T) = f[p] + Sum(T \ {p})
      BY <1>1
    <2>2. CASE x = p
      BY <2>1, <2>2
    <2>3. CASE x # p
      <3>1. T \ {p} \in Good /\ T \ {x} \in Good /\ x \in T \ {p} /\ p \in T \ {x}
        BY <1>2, <2>1, <2>3
      <3>2. Sum(T \ {p}) = f[x] + Sum((T \ {p}) \ {x}) /\ Sum(T \ {x}) = f[p] + Sum((T \ {x}) \ {p})
        BY <3>1
      <3>3. (T \ {p}) \ {x} = (T \ {x}) \ {p}
        OBVIOUS
      <3>4. f[x] \in Int /\ f[p] \in Int /\ Sum((T \ {x}) \ {p}) \in Int
        BY <1>1, <2>1
      <3> DEFINE rest == Sum((T \ {x}) \ {p})
      <3>5. Sum(T) = f[p] + (f[x] + rest) /\ Sum(T \ {x}) = f[p] + rest
        BY <2>1, <3>2, <3>3
      <3> HIDE DEF p, rest
      <3> QED
        BY <3>4, <3>5 DEF rest
    <2> QED
      BY <2>2, <2>3
  <1>3. SUBSET S \subseteq Good
    <2>1. \A T \in SUBSET S : (\A U \in (SUBSET T) \ {T} : U \in Good) => T \in Good
      BY <1>2
    <2> HIDE DEF Good
    <2> QED
      BY <2>1, FiniteSubsetInduction
  <1> QED
    BY <1>3 DEF Sum

(* An element that is put in adds its value.                               *)
LEMMA SumAdds ==
  ASSUME NEW S, IsFiniteSet(S), NEW z, z \notin S, NEW f, \A x \in S \cup {z} : f[x] \in Int
  PROVE  SumFunctionOnSet(f, S \cup {z}) = f[z] + SumFunctionOnSet(f, S)
  <1>1. IsFiniteSet(S \cup {z}) /\ (S \cup {z}) \ {z} = S
    BY FS_AddElement
  <1>2. SumFunctionOnSet(f, S \cup {z}) = f[z] + SumFunctionOnSet(f, (S \cup {z}) \ {z})
    BY <1>1, SumRemoves
  <1> QED
    BY <1>1, <1>2

(* A sum depends on the values at its elements only.                       *)
LEMMA SumAgrees ==
  ASSUME NEW S, IsFiniteSet(S), NEW f, NEW g, \A x \in S : f[x] \in Int /\ f[x] = g[x]
  PROVE  SumFunctionOnSet(f, S) = SumFunctionOnSet(g, S)
  <1> DEFINE F(T) == SumFunctionOnSet(f, T)
             G(T) == SumFunctionOnSet(g, T)
             Good == {T \in SUBSET S : F(T) = G(T)}
  <1> HIDE DEF F, G
  <1>1. /\ F({}) = 0 /\ G({}) = 0
        /\ \A T \in SUBSET S : T # {} =>
             /\ Picked(T) \in T
             /\ F(T) = f[Picked(T)] + F(T \ {Picked(T)})
             /\ G(T) = g[Picked(T)] + G(T \ {Picked(T)})
    <2>1. /\ IsFiniteSet({})
          /\ \A T \in SUBSET S : IsFiniteSet(T) /\ \A x \in T : f[x] \in Int /\ g[x] = f[x]
      BY FS_Subset
    <2>2. F({}) = 0 /\ G({}) = 0
      BY <2>1, SumUnfolds DEF F, G
    <2>3. ASSUME NEW T \in SUBSET S, T # {}
          PROVE  /\ Picked(T) \in T
                 /\ F(T) = f[Picked(T)] + F(T \ {Picked(T)})
                 /\ G(T) = g[Picked(T)] + G(T \ {Picked(T)})
      <3>1. IsFiniteSet(T) /\ (\A x \in T : f[x] \in Int) /\ (\A x \in T : g[x] \in Int)
        BY <2>1
      <3>2. Picked(T) \in T /\ F(T) = f[Picked(T)] + F(T \ {Picked(T)})
        BY <2>3, <3>1, SumUnfolds DEF F
      <3>3. G(T) = g[Picked(T)] + G(T \ {Picked(T)})
        BY <2>3, <3>1, SumUnfolds DEF G
      <3> QED
        BY <3>2, <3>3
    <2> QED
      BY <2>2, <2>3
  <1>2. ASSUME NEW T \in SUBSET S, \A U \in (SUBSET T) \ {T} : U \in Good
        PROVE  T \in Good
    <2>1. CASE T = {}
      BY <1>1, <2>1
    <2>2. CASE T # {}
      <3>1. Picked(T) \in T /\ T \ {Picked(T)} \in Good
        BY <1>1, <1>2, <2>2
      <3>2. F(T \ {Picked(T)}) = G(T \ {Picked(T)}) /\ f[Picked(T)] = g[Picked(T)]
        BY <3>1
      <3> QED
        BY <1>1, <2>2, <3>2
    <2> QED
      BY <2>1, <2>2
  <1>3. SUBSET S \subseteq Good
    <2> HIDE DEF Good
    <2> QED
      BY <1>2, FiniteSubsetInduction
  <1> QED
    BY <1>3 DEF F, G

(* What becomes of a sum when its elements keep their values and z may be  *)
(* put in.                                                                 *)
LEMMA SumGrows ==
  ASSUME NEW S, IsFiniteSet(S), NEW f, NEW g, \A x \in S : f[x] \in Int /\ f[x] = g[x],
         NEW z, z \notin S, g[z] \in Int
  PROVE  /\ SumFunctionOnSet(f, S) \in Int
         /\ SumFunctionOnSet(g, S) = SumFunctionOnSet(f, S)
         /\ SumFunctionOnSet(g, S \cup {z}) = SumFunctionOnSet(f, S) + g[z]
  <1>1. SumFunctionOnSet(f, S) \in Int
    BY SumUnfolds
  <1>2. SumFunctionOnSet(g, S) = SumFunctionOnSet(f, S)
    BY SumAgrees
  <1>3. SumFunctionOnSet(g, S \cup {z}) = g[z] + SumFunctionOnSet(g, S)
    BY SumAdds
  <1> HIDE DEF SumFunctionOnSet
  <1> QED
    BY <1>1, <1>2, <1>3

-----------------------------------------------------------------------------

(* A call past its lookup carries one instruction, with a positive amount, *)
(* until it rests.                                                         *)
Carries ==
  \A c \in Call :
    /\ pc[c] # "idle" => instr[c] \in Instruction
    /\ pc[c] \notin Resting => instr[c].amount > 0

(* Only points instructions reach the transfer transaction, and only chain *)
(* instructions an adapter.                                                *)
Routed ==
  \A c \in Call :
    /\ pc[c] = "pay" => instr[c].rail = "luffa-points"
    /\ pc[c] \in {"send", "verify", "record"} => instr[c].rail = "chain"

(* A verification answer held across the await stays true: only a chain    *)
(* transaction that has failed for good was seen to have failed.           *)
SeenIsFinal ==
  \A c \in Call :
    (pc[c] = "record" /\ seen[c] = "failed")
      => instr[c].submit # "none" /\ chain[instr[c].tx] = "failed"

(* A FAILED row names the transaction that failed.                         *)
FailedRowsNameTx ==
  \A s \in SettlementId :
    (records[s] # None /\ records[s].status = "FAILED") => records[s].tx \in Tx

(* The inductive invariant.                                                *)
IInv ==
  /\ TypeOK
  /\ Carries
  /\ Routed
  /\ ReplyIsStored
  /\ SeenIsFinal
  /\ FailedRowsNameTx
  /\ FailedIsFinal
  /\ AccountsJustified

-----------------------------------------------------------------------------
(* No row is mistaken for the absence of one.                              *)
LEMMA NoneIsNoRow == None \notin Record
  BY NoneAssumption, InstructionAssumption DEF Record

(* The row a call writes for its instruction is a row of the table.        *)
LEMMA RowIsRecord ==
  ASSUME NEW i \in Instruction,
         NEW status \in {"COMPLETED", "FAILED", "ROLLED_BACK"},
         NEW tx \in Tx \cup {None}
  PROVE  /\ Row(i, status, tx) \in Record
         /\ Row(i, status, tx).status = status
         /\ Row(i, status, tx).rail = i.rail
         /\ Row(i, status, tx).payee = i.payee
         /\ Row(i, status, tx).tx = tx
  BY InstructionAssumption DEF Row, Record

(* The fields of an instruction.                                           *)
LEMMA InstructionFields ==
  ASSUME NEW i \in Instruction
  PROVE  /\ i.id \in SettlementId /\ i.payer \in Did /\ i.payee \in Did
         /\ i.amount \in Int /\ i.rail \in Rail /\ i.adapter \in Adapter
         /\ i.submit \in Submit /\ i.tx \in Tx /\ i # None
         /\ HashGiven(i) \in Tx \cup {None} /\ HashUsed(i) \in Tx \cup {None}
  BY InstructionAssumption, NoneAssumption DEF HashGiven, HashUsed

(* The initial state satisfies the invariant.                              *)
LEMMA InitIInv == Init => IInv
  <1> SUFFICES ASSUME Init PROVE IInv
    OBVIOUS
  <1> USE DEF Init
  <1>1. TypeOK
    BY DEF TypeOK, TxStatus, Label, Resting
  <1>2. Carries /\ Routed /\ ReplyIsStored /\ SeenIsFinal
    BY DEF Carries, Routed, ReplyIsStored, SeenIsFinal, Resting
  <1>3. FailedRowsNameTx /\ FailedIsFinal
    BY DEF FailedRowsNameTx, FailedIsFinal
  <1>4. Transfers = {}
    BY DEF Transfers
  <1>5. AccountsJustified
    BY <1>4 DEF AccountsJustified
  <1> QED
    BY <1>1, <1>2, <1>3, <1>5 DEF IInv

(* A step that leaves the tables and what calls hold alone, except that    *)
(* some calls move on without a row and without an answer.                 *)
LEMMA QuietStep ==
  ASSUME IInv, UNCHANGED <<db, instr, seen, reply, history>>,
         pc' \in [Call -> Label], chain' \in [Tx -> TxStatus],
         \A t \in Tx : chain[t] = "failed" => chain'[t] = "failed",
         \A c \in Call :
           \/ pc'[c] = pc[c]
           \/ /\ pc[c] \notin Resting
              /\ pc'[c] \in {"undo", "thrown", "lost"}
           \/ pc[c] = "send" /\ pc'[c] = "verify"
  PROVE  IInv'
  <1> USE DEF db, history
  <1>1. TypeOK'
    BY DEF IInv, TypeOK
  <1>2. Carries' /\ Routed'
    BY DEF IInv, Carries, Routed, Resting
  <1>3. ReplyIsStored'
    BY DEF IInv, ReplyIsStored
  <1>4. SeenIsFinal'
    <2> SUFFICES ASSUME NEW c \in Call, pc'[c] = "record", seen[c] = "failed"
                 PROVE  instr[c].submit # "none" /\ chain'[instr[c].tx] = "failed"
      BY DEF SeenIsFinal
    <2>1. pc[c] = "record"
      OBVIOUS
    <2>2. instr[c] \in Instruction
      BY <2>1 DEF IInv, Carries
    <2>3. instr[c].tx \in Tx
      BY <2>2, InstructionFields
    <2> QED
      BY <2>1, <2>3 DEF IInv, SeenIsFinal
  <1>5. FailedRowsNameTx' /\ FailedIsFinal'
    BY DEF IInv, FailedRowsNameTx, FailedIsFinal
  <1>6. AccountsJustified'
    BY DEF IInv, AccountsJustified, Transfers, Ledger!MovesPoints
  <1> QED
    BY <1>1, <1>2, <1>3, <1>4, <1>5, <1>6 DEF IInv

(* A call inserts the row of its instruction and returns it: the invariant *)
(* survives when a FAILED row is backed by the chain and an account row    *)
(* appears exactly for the payee of a row that moves points.               *)
LEMMA InsertStep ==
  ASSUME IInv, NEW c \in Call, pc[c] \notin Resting,
         NEW status \in {"COMPLETED", "FAILED", "ROLLED_BACK"},
         NEW tx \in Tx \cup {None},
         ~Existing(instr[c].id),
         Insert(c, Row(instr[c], status, tx)),
         status = "FAILED" => tx \in Tx /\ chain[tx] = "failed",
         balance' \in [Did -> Nat],
         opened' = IF Ledger!MovesPoints(Row(instr[c], status, tx))
                     THEN opened \cup {instr[c].payee} ELSE opened,
         UNCHANGED <<chain, instr, seen, history>>
  PROVE  IInv'
  <1> DEFINE i == instr[c]
             row == Row(i, status, tx)
  <1>i. /\ i \in Instruction /\ row \in Record /\ row # None
        /\ row.status = status /\ row.payee = i.payee /\ row.tx = tx
        /\ i.id \in SettlementId /\ i.payee \in Did
    <2>1. i \in Instruction
      BY DEF IInv, Carries, Resting
    <2> QED
      BY <2>1, RowIsRecord, InstructionFields, NoneIsNoRow
  <1>n. /\ records[i.id] = None
        /\ records' = [records EXCEPT ![i.id] = row]
        /\ reply' = [reply EXCEPT ![c] = row]
        /\ pc' = [pc EXCEPT ![c] = "done"]
    BY DEF Existing, Insert, Goto
  <1> HIDE DEF i, row
  <1>1. TypeOK'
    BY <1>i, <1>n DEF IInv, TypeOK, history, Label, Resting, i
  <1>2. Carries' /\ Routed'
    BY <1>n DEF IInv, Carries, Routed, Resting, TypeOK
  <1>3. ReplyIsStored'
    <2> SUFFICES ASSUME NEW d \in Call, pc'[d] = "done"
                 PROVE  reply'[d] # None /\ records'[instr[d].id] = reply'[d]
      BY DEF ReplyIsStored
    <2>1. CASE d = c
      BY <2>1, <1>i, <1>n DEF IInv, TypeOK, i
    <2>2. CASE d # c
      <3>1. pc[d] = "done" /\ reply'[d] = reply[d]
        BY <2>2, <1>n DEF IInv, TypeOK
      <3>2. reply[d] # None /\ records[instr[d].id] = reply[d]
        BY <3>1 DEF IInv, ReplyIsStored
      <3> QED
        BY <3>1, <3>2, <1>n DEF IInv, TypeOK
    <2> QED
      BY <2>1, <2>2
  <1>4. SeenIsFinal'
    BY <1>n DEF IInv, SeenIsFinal, TypeOK
  <1>5. FailedRowsNameTx' /\ FailedIsFinal'
    BY <1>i, <1>n DEF IInv, TypeOK, FailedRowsNameTx, FailedIsFinal
  <1>6. AccountsJustified'
    <2>1. CASE Ledger!MovesPoints(row)
      <3>1. Transfers' = Transfers \cup {i.id}
        BY <2>1, <1>i, <1>n DEF Transfers, Ledger!MovesPoints, IInv, TypeOK
      <3>2. i.id \notin Transfers
        BY <1>n DEF Transfers
      <3>3. {records'[s].payee : s \in Transfers'}
              = {records[s].payee : s \in Transfers} \cup {i.payee}
        BY <3>1, <3>2, <1>i, <1>n DEF Transfers, IInv, TypeOK
      <3>4. opened' = opened \cup {i.payee}
        BY <2>1 DEF i, row
      <3> QED
        BY <3>3, <3>4 DEF IInv, AccountsJustified, history
    <2>2. CASE ~Ledger!MovesPoints(row)
      <3>1. Transfers' = Transfers
        BY <2>2, <1>i, <1>n DEF Transfers, Ledger!MovesPoints, IInv, TypeOK
      <3>2. i.id \notin Transfers
        BY <1>n DEF Transfers
      <3>3. {records'[s].payee : s \in Transfers'}
              = {records[s].payee : s \in Transfers}
        BY <3>1, <3>2, <1>i, <1>n DEF Transfers, IInv, TypeOK
      <3>4. opened' = opened
        BY <2>2 DEF i, row
      <3> QED
        BY <3>3, <3>4 DEF IInv, AccountsJustified, history
    <2> QED
      BY <2>1, <2>2
  <1> QED
    BY <1>1, <1>2, <1>3, <1>4, <1>5, <1>6 DEF IInv

(* A call starts: it rests at once with the stored row or with an error,   *)
(* or carries an instruction with a positive amount.                       *)
LEMMA SettleStep ==
  ASSUME IInv, NEW c \in Call, NEW i \in Instruction, Settle(c, i)
  PROVE  IInv'
  <1> USE DEF db, history
  <1>i. /\ i.id \in SettlementId /\ i.amount \in Int
        /\ AfterLookup(i) \in {"pay", "undo", "send", "verify"}
        /\ AfterLookup(i) = "pay" <=> i.rail = "luffa-points"
        /\ i.rail \in {"luffa-points", "chain"}
    BY InstructionFields DEF AfterLookup, Rail
  <1>n. /\ pc[c] = "idle"
        /\ instr' = [instr EXCEPT ![c] = i]
        /\ UNCHANGED <<opened, balance, records, chain, seen, minted, named>>
    BY DEF Settle
  <1>m. \/ pc' = [pc EXCEPT ![c] = "thrown"] /\ reply' = reply
        \/ /\ Existing(i.id)
           /\ reply' = [reply EXCEPT ![c] = records[i.id]]
           /\ pc' = [pc EXCEPT ![c] = "done"]
        \/ /\ i.amount > 0
           /\ pc' = [pc EXCEPT ![c] = AfterLookup(i)] /\ reply' = reply
    BY DEF Settle, Goto
  <1>1. TypeOK'
    BY <1>i, <1>n, <1>m DEF IInv, TypeOK, Label, Resting, HoldsLoop
  <1>2. Carries' /\ Routed'
    BY <1>i, <1>n, <1>m DEF IInv, TypeOK, Carries, Routed, Resting
  <1>3. ReplyIsStored'
    BY <1>i, <1>n, <1>m DEF IInv, TypeOK, ReplyIsStored, Existing
  <1>4. SeenIsFinal'
    BY <1>i, <1>n, <1>m DEF IInv, TypeOK, SeenIsFinal
  <1>5. FailedRowsNameTx' /\ FailedIsFinal'
    BY <1>n DEF IInv, FailedRowsNameTx, FailedIsFinal
  <1>6. AccountsJustified'
    BY <1>n DEF IInv, AccountsJustified, Transfers, Ledger!MovesPoints
  <1> QED
    BY <1>1, <1>2, <1>3, <1>4, <1>5, <1>6 DEF IInv

(* createAccount preserves the invariant: the new row is one that was      *)
(* asked for.                                                              *)
LEMMA OpenAccountStep ==
  ASSUME IInv, NEW s \in Server, NEW d \in Did, OpenAccount(s, d)
  PROVE  IInv'
  <1> USE DEF OpenAccount, IInv
  <1>1. TypeOK'
    BY DEF TypeOK
  <1>2. Carries' /\ Routed' /\ ReplyIsStored' /\ SeenIsFinal'
    BY DEF Carries, Routed, ReplyIsStored, SeenIsFinal
  <1>3. FailedRowsNameTx' /\ FailedIsFinal'
    BY DEF FailedRowsNameTx, FailedIsFinal
  <1>4. AccountsJustified'
    BY DEF AccountsJustified, Transfers, Ledger!MovesPoints
  <1> QED
    BY <1>1, <1>2, <1>3, <1>4

(* credit() preserves the invariant: the account row it may add is         *)
(* justified by the points it mints.                                       *)
LEMMA CreditStep ==
  ASSUME IInv, NEW s \in Server, NEW d \in Did, NEW amount \in 1..MaxMint,
         Credit(s, d, amount)
  PROVE  IInv'
  <1> USE DEF Credit, IInv
  <1>0. amount \in Nat /\ amount > 0
    BY InstructionAssumption
  <1>1. TypeOK'
    BY <1>0 DEF TypeOK
  <1>2. Carries' /\ Routed' /\ ReplyIsStored' /\ SeenIsFinal'
    BY DEF Carries, Routed, ReplyIsStored, SeenIsFinal
  <1>3. FailedRowsNameTx' /\ FailedIsFinal'
    BY DEF FailedRowsNameTx, FailedIsFinal
  <1>4. AccountsJustified'
    <2>1. {e \in Did : minted'[e] > 0} = {e \in Did : minted[e] > 0} \cup {d}
      BY <1>0 DEF TypeOK
    <2>2. Transfers' = Transfers
      BY DEF Transfers, Ledger!MovesPoints
    <2> QED
      BY <2>1, <2>2 DEF AccountsJustified
  <1> QED
    BY <1>1, <1>2, <1>3, <1>4

(* The points moved by a covered payment leave no balance negative.        *)
LEMMA MovedIsNat ==
  ASSUME TypeOK, NEW payer \in Did, NEW payee \in Did, NEW amount \in Int,
         amount > 0, balance[payer] >= amount
  PROVE  Ledger!Moved(payer, payee, amount) \in [Did -> Nat]
  BY DEF TypeOK, Ledger!Moved

(* A committed transfer preserves the invariant: its COMPLETED row         *)
(* justifies the payee's account row.                                      *)
LEMMA PayStep ==
  ASSUME IInv, NEW c \in Call, Pay(c)
  PROVE  IInv'
  <1>1. /\ instr[c] \in Instruction /\ instr[c].amount > 0
        /\ instr[c].rail = "luffa-points" /\ pc[c] \notin Resting
    BY DEF Pay, IInv, Carries, Routed, Resting
  <1>2. /\ instr[c].payer \in Did /\ instr[c].payee \in Did
        /\ instr[c].amount \in Int
        /\ HashGiven(instr[c]) \in Tx \cup {None}
    BY <1>1, InstructionFields
  <1>3. balance' \in [Did -> Nat]
    BY <1>1, <1>2, MovedIsNat DEF Pay, Covered, IInv
  <1>4. Ledger!MovesPoints(Row(instr[c], "COMPLETED", HashGiven(instr[c])))
    BY <1>1, <1>2, RowIsRecord DEF Ledger!MovesPoints
  <1>5. opened' = opened \cup {instr[c].payee}
    BY DEF Pay
  <1> QED
    BY <1>1, <1>2, <1>3, <1>4, <1>5, InsertStep DEF Pay

(* A ROLLED_BACK row preserves the invariant: it moves nothing and accuses *)
(* no transaction.                                                         *)
LEMMA UndoStep ==
  ASSUME IInv, NEW c \in Call, Undo(c)
  PROVE  IInv'
  <1>1. instr[c] \in Instruction /\ pc[c] \notin Resting
    BY DEF Undo, IInv, Carries, Resting
  <1>2. HashGiven(instr[c]) \in Tx \cup {None}
    BY <1>1, InstructionFields
  <1>3. ~Ledger!MovesPoints(Row(instr[c], "ROLLED_BACK", HashGiven(instr[c])))
    BY <1>1, <1>2, RowIsRecord DEF Ledger!MovesPoints
  <1>4. balance' \in [Did -> Nat]
    BY DEF Undo, IInv, TypeOK
  <1> QED
    BY <1>1, <1>2, <1>3, <1>4, InsertStep DEF Undo, RolledBack

(* The row an adapter's answer leads to preserves the invariant: it says   *)
(* FAILED only when the call saw the transaction fail.                     *)
LEMMA RecordChainStep ==
  ASSUME IInv, NEW c \in Call, RecordChain(c)
  PROVE  IInv'
  <1> DEFINE status == ChainStatus(seen[c])
             tx == HashUsed(instr[c])
  <1>1. /\ instr[c] \in Instruction /\ pc[c] \notin Resting
        /\ instr[c].rail = "chain"
    BY DEF RecordChain, IInv, Carries, Routed, Resting
  <1>2. tx \in Tx \cup {None} /\ status \in {"COMPLETED", "FAILED", "ROLLED_BACK"}
    BY <1>1, InstructionFields DEF ChainStatus
  <1>3. status = "FAILED" => tx \in Tx /\ chain[tx] = "failed"
    BY <1>1, InstructionFields
       DEF ChainStatus, RecordChain, IInv, SeenIsFinal, HashUsed
  <1>4. ~Ledger!MovesPoints(Row(instr[c], status, tx))
    BY <1>1, <1>2, RowIsRecord DEF Ledger!MovesPoints
  <1>5. balance' \in [Did -> Nat] /\ opened' = opened
    BY DEF RecordChain, IInv, TypeOK
  <1> QED
    BY <1>1, <1>2, <1>3, <1>4, <1>5, InsertStep DEF RecordChain

(* Asking the chain preserves the invariant: the answer the call now holds *)
(* is the chain's own, and a failed transaction stays failed.              *)
LEMMA VerifyStep ==
  ASSUME IInv, NEW c \in Call, Verify(c)
  PROVE  IInv'
  <1> USE DEF db, history
  <1>1. /\ pc[c] = "verify" /\ pc' = [pc EXCEPT ![c] = "record"]
        /\ seen' = [seen EXCEPT ![c] = TxAnswer(instr[c])]
        /\ UNCHANGED <<opened, balance, records, chain, instr, reply, minted, named>>
    BY DEF Verify, Goto
  <1>2. instr[c] \in Instruction
    BY <1>1 DEF IInv, Carries
  <1>3. /\ TxAnswer(instr[c]) \in TxStatus
        /\ TxAnswer(instr[c]) = "failed" =>
             instr[c].submit # "none" /\ chain[instr[c].tx] = "failed"
    BY <1>2, InstructionFields DEF TxAnswer, TxStatus, IInv, TypeOK
  <1>4. TypeOK'
    BY <1>1, <1>3 DEF IInv, TypeOK, Label
  <1>5. Carries' /\ Routed' /\ ReplyIsStored'
    BY <1>1 DEF IInv, TypeOK, Carries, Routed, ReplyIsStored, Resting
  <1>6. SeenIsFinal'
    BY <1>1, <1>3 DEF IInv, TypeOK, SeenIsFinal
  <1>7. FailedRowsNameTx' /\ FailedIsFinal'
    BY <1>1 DEF IInv, FailedRowsNameTx, FailedIsFinal
  <1>8. AccountsJustified'
    BY <1>1 DEF IInv, AccountsJustified, Transfers, Ledger!MovesPoints
  <1> QED
    BY <1>4, <1>5, <1>6, <1>7, <1>8 DEF IInv

(* The steps of a call that write nothing but its pc and perhaps the chain.*)
LEMMA QuietCallStep ==
  ASSUME IInv, NEW c \in Call,
         \/ PayRollsBack(c) \/ UndoThrows(c) \/ Send(c) \/ SendFails(c)
         \/ VerifyFails(c) \/ RecordThrows(c)
  PROVE  IInv'
  <1>1. instr[c] \in Instruction
    BY DEF PayRollsBack, PayThrows, UndoThrows, Send, SendFails, VerifyFails,
           RecordThrows, IInv, Carries, Resting
  <1>2. instr[c].tx \in Tx
    BY <1>1, InstructionFields
  <1>3. /\ Broadcast(instr[c].tx) \in [Tx -> TxStatus]
        /\ \A t \in Tx : chain[t] = "failed" => Broadcast(instr[c].tx)[t] = "failed"
    BY <1>2 DEF Broadcast, IInv, TypeOK, TxStatus
  <1>4. /\ chain' \in {chain, Broadcast(instr[c].tx)}
        /\ UNCHANGED <<db, instr, seen, reply, history>>
    BY DEF PayRollsBack, UndoThrows, Send, SendFails, VerifyFails, RecordThrows
  <1>5. /\ pc[c] \notin Resting
        /\ \/ pc' = [pc EXCEPT ![c] = "undo"]
           \/ pc' = [pc EXCEPT ![c] = "thrown"]
           \/ pc[c] = "send" /\ pc' = [pc EXCEPT ![c] = "verify"]
    BY DEF PayRollsBack, PayThrows, UndoThrows, Send, SendFails, VerifyFails,
           RecordThrows, Goto, Resting
  <1>6. pc' \in [Call -> Label]
    BY <1>5 DEF IInv, TypeOK, Label, HoldsLoop, Resting
  <1>7. \A d \in Call :
          \/ pc'[d] = pc[d]
          \/ pc[d] \notin Resting /\ pc'[d] \in {"undo", "thrown", "lost"}
          \/ pc[d] = "send" /\ pc'[d] = "verify"
    BY <1>5 DEF IInv, TypeOK
  <1>8. /\ chain' \in [Tx -> TxStatus]
        /\ \A t \in Tx : chain[t] = "failed" => chain'[t] = "failed"
    BY <1>3, <1>4 DEF IInv, TypeOK
  <1> QED
    BY <1>4, <1>6, <1>7, <1>8, QuietStep

(* Wallets, chains and crashes preserve the invariant.                     *)
LEMMA EnvironmentStep ==
  ASSUME IInv,
         \/ \E tx \in Tx : WalletBroadcasts(tx) \/ ChainDecides(tx)
         \/ \E s \in Server : Crash(s)
  PROVE  IInv'
  <1>1. ASSUME NEW tx \in Tx, WalletBroadcasts(tx) \/ ChainDecides(tx)
        PROVE  IInv'
    <2>1. /\ chain' \in [Tx -> TxStatus]
          /\ \A t \in Tx : chain[t] = "failed" => chain'[t] = "failed"
      BY <1>1 DEF WalletBroadcasts, ChainDecides, Broadcast, IInv, TypeOK, TxStatus
    <2>2. UNCHANGED <<db, pc, instr, seen, reply, history>>
      BY <1>1 DEF WalletBroadcasts, ChainDecides
    <2>3. pc' \in [Call -> Label]
      BY <2>2 DEF IInv, TypeOK
    <2> QED
      BY <2>1, <2>2, <2>3, QuietStep
  <1>2. ASSUME NEW s \in Server, Crash(s)
        PROVE  IInv'
    <2>1. UNCHANGED <<db, chain, instr, seen, reply, history>>
      BY <1>2 DEF Crash
    <2>2. /\ pc' \in [Call -> Label]
          /\ \A d \in Call :
               \/ pc'[d] = pc[d]
               \/ pc[d] \notin Resting /\ pc'[d] \in {"undo", "thrown", "lost"}
      BY <1>2 DEF Crash, IInv, TypeOK, Label, Resting
    <2>3. chain' \in [Tx -> TxStatus]
      BY <2>1 DEF IInv, TypeOK
    <2> QED
      BY <2>1, <2>2, <2>3, QuietStep
  <1> QED
    BY <1>1, <1>2

(* Nothing happens to the invariant when nothing happens.                  *)
LEMMA StutterStep == IInv /\ UNCHANGED vars => IInv'
  <1> SUFFICES ASSUME IInv, UNCHANGED vars PROVE IInv'
    OBVIOUS
  <1>1. pc' \in [Call -> Label] /\ chain' \in [Tx -> TxStatus]
    BY DEF vars, IInv, TypeOK
  <1> QED
    BY <1>1, QuietStep DEF vars, db, history

(* Every step preserves the invariant.                                     *)
LEMMA NextIInv == IInv /\ [Next]_vars => IInv'
  <1> SUFFICES ASSUME IInv, Next PROVE IInv'
    BY StutterStep
  <1>1. ASSUME NEW c \in Call, Step(c) PROVE IInv'
    BY <1>1, PayStep, UndoStep, RecordChainStep, VerifyStep, QuietCallStep DEF Step
  <1> QED
    BY <1>1, OpenAccountStep, CreditStep, SettleStep, EnvironmentStep DEF Next

-----------------------------------------------------------------------------
(* The invariant holds in every reachable state.                           *)
THEOREM Invariant == Spec => []IInv
  BY InitIInv, NextIInv, PTL DEF Spec

(* Type correctness; in particular no balance is ever negative.            *)
THEOREM TypeCorrect == Spec => []TypeOK
  <1>1. IInv => TypeOK
    BY DEF IInv
  <1> QED
    BY <1>1, Invariant, PTL

(* Account rows exist exactly for who asked, was credited or was paid: a   *)
(* transfer that rolled back left none.                                    *)
THEOREM AccountsAreJustified == Spec => []AccountsJustified
  <1>1. IInv => AccountsJustified
    BY DEF IInv
  <1> QED
    BY <1>1, Invariant, PTL

(* A caller is told what the ledger keeps, whichever call decided the id.  *)
THEOREM RepliesAreStored == Spec => []ReplyIsStored
  <1>1. IInv => ReplyIsStored
    BY DEF IInv
  <1> QED
    BY <1>1, Invariant, PTL

(* A FAILED row names a transaction that failed for good.                  *)
THEOREM FailuresAreFinal == Spec => []FailedIsFinal
  <1>1. IInv => FailedIsFinal
    BY DEF IInv
  <1> QED
    BY <1>1, Invariant, PTL

-----------------------------------------------------------------------------
(* A step of PointsLedger that is not a credit.                            *)
Decided == \E s \in SettlementId, r \in Record : Ledger!Decide(s, r)

(* Inserting a row decides an id nobody had decided, without moving points *)
(* or moving them as the row says.                                         *)
LEMMA InsertDecides ==
  ASSUME IInv, NEW c \in Call, instr[c] \in Instruction,
         NEW status \in {"COMPLETED", "FAILED", "ROLLED_BACK"},
         NEW tx \in Tx \cup {None},
         ~Existing(instr[c].id),
         Insert(c, Row(instr[c], status, tx)),
         IF Ledger!MovesPoints(Row(instr[c], status, tx))
           THEN /\ balance[instr[c].payer] >= instr[c].amount
                /\ balance' = Ledger!Moved(instr[c].payer, instr[c].payee, instr[c].amount)
           ELSE UNCHANGED balance
  PROVE  Decided
  <1>1. /\ instr[c].id \in SettlementId
        /\ Row(instr[c], status, tx) \in Record
    BY InstructionFields, RowIsRecord
  <1>2. Ledger!Decide(instr[c].id, Row(instr[c], status, tx))
    BY <1>1 DEF Ledger!Decide, Existing, Insert, Row
  <1> QED
    BY <1>1, <1>2 DEF Decided

(* A step of a call decides its id, or is not seen by the ledger.          *)
LEMMA StepRefines ==
  ASSUME IInv, NEW c \in Call, Step(c)
  PROVE  (Decided \/ UNCHANGED Ledger!ledger) /\ minted' = minted
  <1> USE DEF db, history
  <1>1. CASE Pay(c)
    <2>1. /\ instr[c] \in Instruction /\ HashGiven(instr[c]) \in Tx \cup {None}
          /\ instr[c].rail = "luffa-points"
      BY <1>1, InstructionFields DEF Pay, IInv, Carries, Routed
    <2>2. Ledger!MovesPoints(Row(instr[c], "COMPLETED", HashGiven(instr[c])))
      BY <2>1, RowIsRecord DEF Ledger!MovesPoints
    <2> QED
      BY <1>1, <2>1, <2>2, InsertDecides DEF Pay, Covered
  <1>2. CASE Undo(c)
    <2>1. instr[c] \in Instruction /\ HashGiven(instr[c]) \in Tx \cup {None}
      BY <1>2, InstructionFields DEF Undo, IInv, Carries
    <2>2. ~Ledger!MovesPoints(Row(instr[c], "ROLLED_BACK", HashGiven(instr[c])))
      BY <2>1, RowIsRecord DEF Ledger!MovesPoints
    <2> QED
      BY <1>2, <2>1, <2>2, InsertDecides DEF Undo, RolledBack
  <1>3. CASE RecordChain(c)
    <2> DEFINE status == ChainStatus(seen[c])
               tx == HashUsed(instr[c])
    <2>1. /\ instr[c] \in Instruction /\ tx \in Tx \cup {None}
          /\ instr[c].rail = "chain"
          /\ status \in {"COMPLETED", "FAILED", "ROLLED_BACK"}
      BY <1>3, InstructionFields
         DEF RecordChain, IInv, Carries, Routed, ChainStatus
    <2>2. ~Ledger!MovesPoints(Row(instr[c], status, tx))
      BY <2>1, RowIsRecord DEF Ledger!MovesPoints
    <2> QED
      BY <1>3, <2>1, <2>2, InsertDecides DEF RecordChain
  <1>4. CASE \/ PayRollsBack(c) \/ UndoThrows(c) \/ Send(c) \/ SendFails(c)
             \/ Verify(c) \/ VerifyFails(c) \/ RecordThrows(c)
    BY <1>4 DEF PayRollsBack, UndoThrows, Send, SendFails, Verify, VerifyFails,
                RecordThrows, db, Ledger!ledger
  <1> QED
    BY <1>1, <1>2, <1>3, <1>4 DEF Step

(* Every step is a step of PointsLedger or is not seen by it.              *)
LEMMA NextRefines == IInv /\ [Next]_vars => [Ledger!LedgerNext]_(Ledger!ledger)
  <1> SUFFICES ASSUME IInv, [Next]_vars
               PROVE  Ledger!LedgerNext \/ UNCHANGED Ledger!ledger
    OBVIOUS
  <1>1. ASSUME NEW s \in Server, NEW d \in Did, NEW amount \in 1..MaxMint,
               Credit(s, d, amount)
        PROVE  Ledger!LedgerNext
    <2>1. /\ amount \in Nat /\ amount > 0
          /\ balance' = [balance EXCEPT ![d] = @ + amount] /\ UNCHANGED records
      BY <1>1, InstructionAssumption DEF Credit
    <2>2. Ledger!Mint(d)
      BY <2>1 DEF Ledger!Mint, IInv, TypeOK
    <2> QED
      BY <2>2 DEF Ledger!LedgerNext
  <1>2. ASSUME NEW c \in Call, NEW i \in Instruction, Settle(c, i)
        PROVE  UNCHANGED Ledger!ledger
    BY <1>2 DEF Settle, db, Ledger!ledger
  <1>3. ASSUME NEW s \in Server, NEW d \in Did, OpenAccount(s, d)
        PROVE  UNCHANGED Ledger!ledger
    BY <1>3 DEF OpenAccount, Ledger!ledger
  <1>4. CASE \/ \E tx \in Tx : WalletBroadcasts(tx) \/ ChainDecides(tx)
             \/ \E s \in Server : Crash(s)
    BY <1>4 DEF WalletBroadcasts, ChainDecides, Crash, db, Ledger!ledger
  <1>5. CASE UNCHANGED vars
    BY <1>5 DEF vars, Ledger!ledger
  <1> QED
    BY <1>1, <1>2, <1>3, <1>4, <1>5, StepRefines DEF Next, Decided, Ledger!LedgerNext

(* The component implements PointsLedger: an id is decided once, and points*)
(* move only in the step that decides it COMPLETED, or by a credit.        *)
THEOREM SettlementImplementsLedger == Spec => ImplementsLedger
  <1>1. Init => Ledger!LedgerInit
    BY DEF Init, Ledger!LedgerInit
  <1> QED
    BY <1>1, NextRefines, Invariant, PTL DEF Spec, ImplementsLedger, Ledger!LedgerSpec

(* settlement_records is append-only.                                      *)
THEOREM RecordsAreAppendOnly == Spec => RecordsAppendOnly
  <1> DEFINE Kept == \A s \in SettlementId : records[s] # None => records'[s] = records[s]
  <1>1. IInv /\ [Next]_vars => [Kept]_vars
    <2> SUFFICES ASSUME IInv, [Next]_vars PROVE Kept
      OBVIOUS
    <2>1. CASE UNCHANGED records
      BY <2>1
    <2>2. CASE Decided
      BY <2>2 DEF Decided, Ledger!Decide, IInv, TypeOK
    <2> QED
      BY <2>1, <2>2, NextRefines DEF Decided, Ledger!LedgerNext, Ledger!ledger, Ledger!Mint
  <1> QED
    BY <1>1, Invariant, PTL DEF Spec, RecordsAppendOnly

-----------------------------------------------------------------------------
(* Balances are explained.  Rows are inserted one at a time, so that there *)
(* is something to add up.                                                 *)
Explained == IsFiniteSet(Transfers) /\ BalancesExplained

(* What moved points is a row between two identities.                      *)
LEMMA TransfersAreRows ==
  ASSUME TypeOK
  PROVE  \A s \in Transfers :
           /\ s \in SettlementId /\ records[s] \in Record /\ records[s].amount \in Int
           /\ Amounts[s] = records[s].amount
  BY InstructionAssumption DEF TypeOK, Transfers, Amounts, Record

LEMMA InitExplained == Init => Explained
  <1> SUFFICES ASSUME Init PROVE Explained
    OBVIOUS
  <1>1. Transfers = {}
    BY DEF Init, Transfers
  <1>2. IsFiniteSet({}) /\ \A x \in {} : Amounts[x] \in Int
    BY FS_EmptySet
  <1>3. SumFunctionOnSet(Amounts, {}) = 0
    BY <1>2, SumUnfolds
  <1>4. \A d \in Did : Received(d) = {} /\ Sent(d) = {}
    BY <1>1 DEF Received, Sent
  <1> HIDE DEF SumFunctionOnSet
  <1> QED
    BY <1>1, <1>2, <1>3, <1>4 DEF Explained, BalancesExplained, Init

(* A decision to move points adds one row to what its payer sent and its   *)
(* payee received, who may be one; the sums move as the balances do.       *)
LEMMA MovingExplained ==
  ASSUME TypeOK, Explained, NEW s \in SettlementId, NEW r \in Record,
         Ledger!Decide(s, r), Ledger!MovesPoints(r), UNCHANGED minted
  PROVE  Explained'
  <1>1. /\ s \notin Transfers /\ r \in Record /\ r # None
        /\ r.payer \in Did /\ r.payee \in Did /\ r.amount \in Int
        /\ records' = [records EXCEPT ![s] = r]
        /\ balance' = Ledger!Moved(r.payer, r.payee, r.amount)
    BY NoneIsNoRow, InstructionAssumption DEF Ledger!Decide, Transfers, Record
  <1>2. Transfers' = Transfers \cup {s}
    BY <1>1 DEF TypeOK, Transfers, Ledger!MovesPoints
  <1>3. IsFiniteSet(Transfers')
    BY <1>2, FS_AddElement DEF Explained
  <1>4. \A x \in Transfers : Amounts[x] \in Int /\ Amounts[x] = Amounts'[x]
    BY <1>1, <1>2, TransfersAreRows DEF Amounts, TypeOK
  <1>5. Amounts'[s] = r.amount
    BY <1>1, <1>2 DEF Amounts, TypeOK
  <1>6. ASSUME NEW d \in Did
        PROVE  /\ IsFiniteSet(Received(d)) /\ Received(d) \subseteq Transfers
               /\ IsFiniteSet(Sent(d)) /\ Sent(d) \subseteq Transfers
               /\ Received(d)' = IF r.payee = d THEN Received(d) \cup {s} ELSE Received(d)
               /\ Sent(d)' = IF r.payer = d THEN Sent(d) \cup {s} ELSE Sent(d)
    <2>1. Received(d) \subseteq Transfers /\ Sent(d) \subseteq Transfers
      BY DEF Received, Sent
    <2>2. records'[s] = r /\ \A x \in Transfers : records'[x] = records[x]
      BY <1>1, TransfersAreRows DEF TypeOK
    <2>3. /\ Received(d)' = IF r.payee = d THEN Received(d) \cup {s} ELSE Received(d)
          /\ Sent(d)' = IF r.payer = d THEN Sent(d) \cup {s} ELSE Sent(d)
      BY <1>2, <2>2 DEF Received, Sent
    <2> QED
      BY <2>1, <2>3, FS_Subset DEF Explained
  <1>7. ASSUME NEW T \in SUBSET Transfers, IsFiniteSet(T)
        PROVE  /\ SumFunctionOnSet(Amounts, T) \in Int
               /\ SumFunctionOnSet(Amounts', T) = SumFunctionOnSet(Amounts, T)
               /\ SumFunctionOnSet(Amounts', T \cup {s})
                    = SumFunctionOnSet(Amounts, T) + r.amount
    <2>1. \A x \in T : Amounts[x] \in Int /\ Amounts[x] = Amounts'[x]
      BY <1>4
    <2>2. s \notin T /\ Amounts'[s] \in Int
      BY <1>1, <1>5
    <2>3. SumFunctionOnSet(Amounts, T) \in Int
      BY <1>7, <2>1, SumUnfolds
    <2>4. SumFunctionOnSet(Amounts', T) = SumFunctionOnSet(Amounts, T)
      BY <1>7, <2>1, SumAgrees
    <2>5. SumFunctionOnSet(Amounts', T \cup {s}) = SumFunctionOnSet(Amounts, T) + Amounts'[s]
      BY <1>7, <2>1, <2>2, SumGrows
    <2> QED
      BY <1>5, <2>3, <2>4, <2>5
  <1>8. ASSUME NEW d \in Did
        PROVE  balance'[d] = minted'[d] + SumFunctionOnSet(Amounts', Received(d)')
                                        - SumFunctionOnSet(Amounts', Sent(d)')
    <2> DEFINE received == SumFunctionOnSet(Amounts, Received(d))
               sent == SumFunctionOnSet(Amounts, Sent(d))
    <2>1. balance[d] = minted[d] + received - sent
      BY DEF Explained, BalancesExplained
    <2>2. balance'[d] = balance[d] - (IF d = r.payer THEN r.amount ELSE 0)
                                   + (IF d = r.payee THEN r.amount ELSE 0)
      BY <1>1 DEF Ledger!Moved
    <2>3. /\ received \in Int
          /\ SumFunctionOnSet(Amounts', Received(d)')
               = IF d = r.payee THEN received + r.amount ELSE received
      <3>1. IsFiniteSet(Received(d)) /\ Received(d) \in SUBSET Transfers
        BY <1>6
      <3>2. /\ received \in Int /\ SumFunctionOnSet(Amounts', Received(d)) = received
            /\ SumFunctionOnSet(Amounts', Received(d) \cup {s}) = received + r.amount
        BY <1>7, <3>1
      <3> QED
        BY <1>6, <3>2
    <2>4. /\ sent \in Int
          /\ SumFunctionOnSet(Amounts', Sent(d)')
               = IF d = r.payer THEN sent + r.amount ELSE sent
      <3>1. IsFiniteSet(Sent(d)) /\ Sent(d) \in SUBSET Transfers
        BY <1>6
      <3>2. /\ sent \in Int /\ SumFunctionOnSet(Amounts', Sent(d)) = sent
            /\ SumFunctionOnSet(Amounts', Sent(d) \cup {s}) = sent + r.amount
        BY <1>7, <3>1
      <3> QED
        BY <1>6, <3>2
    <2>5. minted'[d] = minted[d] /\ minted[d] \in Int /\ balance[d] \in Int
      BY DEF TypeOK
    <2> HIDE DEF received, sent
    <2> QED
      BY <1>1, <2>1, <2>2, <2>3, <2>4, <2>5
  <1> QED
    BY <1>3, <1>8 DEF Explained, BalancesExplained

(* A step that leaves what moved points as it was.                         *)
LEMMA SameSums ==
  ASSUME TypeOK, IsFiniteSet(Transfers), Transfers' = Transfers,
         \A s \in Transfers : records'[s] = records[s]
  PROVE  \A d \in Did :
           /\ SumFunctionOnSet(Amounts, Received(d)) \in Int
           /\ SumFunctionOnSet(Amounts, Sent(d)) \in Int
           /\ SumFunctionOnSet(Amounts', Received(d)') = SumFunctionOnSet(Amounts, Received(d))
           /\ SumFunctionOnSet(Amounts', Sent(d)') = SumFunctionOnSet(Amounts, Sent(d))
  <1>1. Amounts' = Amounts /\ \A x \in Transfers : Amounts[x] \in Int
    BY TransfersAreRows DEF Amounts
  <1> SUFFICES ASSUME NEW d \in Did
               PROVE  /\ SumFunctionOnSet(Amounts, Received(d)) \in Int
                      /\ SumFunctionOnSet(Amounts, Sent(d)) \in Int
                      /\ Received(d)' = Received(d) /\ Sent(d)' = Sent(d)
    BY <1>1
  <1>2. Received(d)' = Received(d) /\ Sent(d)' = Sent(d)
    BY DEF Received, Sent
  <1>3. /\ IsFiniteSet(Received(d)) /\ Received(d) \subseteq Transfers
        /\ IsFiniteSet(Sent(d)) /\ Sent(d) \subseteq Transfers
    BY FS_Subset DEF Received, Sent
  <1> HIDE DEF Amounts
  <1> QED
    BY <1>1, <1>2, <1>3, SumUnfolds

LEMMA QuietExplained ==
  ASSUME TypeOK, Explained, Transfers' = Transfers,
         \A s \in Transfers : records'[s] = records[s], UNCHANGED <<balance, minted>>
  PROVE  Explained'
  <1> HIDE DEF SumFunctionOnSet
  <1> QED
    BY SameSums DEF Explained, BalancesExplained

(* A credit raises a balance and what was credited alike.                  *)
LEMMA CreditExplained ==
  ASSUME IInv, Explained, NEW s \in Server, NEW d \in Did, NEW amount \in 1 .. MaxMint,
         Credit(s, d, amount)
  PROVE  Explained'
  <1>1. /\ UNCHANGED records /\ amount \in Int /\ TypeOK
        /\ balance' = [balance EXCEPT ![d] = @ + amount]
        /\ minted' = [minted EXCEPT ![d] = @ + amount]
    BY InstructionAssumption DEF Credit, IInv
  <1>2. Transfers' = Transfers
    BY <1>1 DEF Transfers, Ledger!MovesPoints
  <1> HIDE DEF SumFunctionOnSet
  <1>3. ASSUME NEW e \in Did
        PROVE  balance'[e] - minted'[e] = balance[e] - minted[e]
               /\ balance'[e] \in Int /\ minted'[e] \in Int
               /\ balance[e] \in Int /\ minted[e] \in Int
    BY <1>1 DEF TypeOK
  <1> QED
    BY <1>1, <1>2, <1>3, SameSums DEF Explained, BalancesExplained

LEMMA NextExplained == IInv /\ Explained /\ [Next]_vars => Explained'
  <1> SUFFICES ASSUME IInv, Explained, [Next]_vars PROVE Explained'
    OBVIOUS
  <1>1. TypeOK
    BY DEF IInv
  <1>2. CASE UNCHANGED <<balance, records, minted>>
    <2>1. Transfers' = Transfers
      BY <1>2 DEF Transfers, Ledger!MovesPoints
    <2> QED
      BY <1>1, <1>2, <2>1, QuietExplained
  <1>3. ASSUME NEW s \in SettlementId, NEW r \in Record, Ledger!Decide(s, r),
               UNCHANGED minted
        PROVE  Explained'
    <2>1. CASE Ledger!MovesPoints(r)
      BY <1>1, <1>3, <2>1, MovingExplained
    <2>2. CASE ~Ledger!MovesPoints(r)
      <3>1. /\ records[s] = None /\ records' = [records EXCEPT ![s] = r]
            /\ UNCHANGED balance
        BY <1>3, <2>2 DEF Ledger!Decide
      <3>2. Transfers' = Transfers /\ \A x \in Transfers : records'[x] = records[x]
        BY <1>1, <2>2, <3>1 DEF Transfers, TypeOK, Ledger!MovesPoints
      <3> QED
        BY <1>1, <1>3, <3>1, <3>2, QuietExplained
    <2> QED
      BY <2>1, <2>2
  <1>4. ASSUME NEW c \in Call, Step(c) PROVE Explained'
    <2>1. (Decided \/ UNCHANGED Ledger!ledger) /\ UNCHANGED minted
      BY <1>4, StepRefines
    <2> QED
      BY <1>2, <1>3, <2>1 DEF Decided, Ledger!ledger
  <1>5. ASSUME NEW c \in Call, NEW i \in Instruction, Settle(c, i) PROVE Explained'
    BY <1>2, <1>5 DEF Settle, db, history
  <1>6. ASSUME NEW s \in Server, NEW d \in Did, OpenAccount(s, d) PROVE Explained'
    BY <1>2, <1>6 DEF OpenAccount
  <1>7. CASE \/ \E tx \in Tx : WalletBroadcasts(tx) \/ ChainDecides(tx)
             \/ \E s \in Server : Crash(s)
    BY <1>2, <1>7 DEF WalletBroadcasts, ChainDecides, Crash, db, history
  <1>8. CASE UNCHANGED vars
    BY <1>2, <1>8 DEF vars
  <1> QED
    BY <1>4, <1>5, <1>6, <1>7, <1>8, CreditExplained DEF Next

(* A balance is what was credited, plus the COMPLETED transfers received,  *)
(* less those sent, whatever calls raced, rolled back or were lost.        *)
THEOREM BalancesAreExplained == Spec => []BalancesExplained
  <1>1. Explained => BalancesExplained
    BY DEF Explained
  <1> QED
    BY <1>1, InitExplained, NextExplained, Invariant, PTL DEF Spec
-----------------------------------------------------------------------------
(* All the points there are were credited by a credit() call: no settle(), *)
(* whether it commits, rolls back, fails or is killed, makes or loses any. *)
PointsConserved == SumFunctionOnSet(balance, Did) = SumFunctionOnSet(minted, Did)

(* What becomes of a sum when one value of it changes.                     *)
LEMMA SumShifts ==
  ASSUME NEW S, IsFiniteSet(S), NEW f, NEW g, \A x \in S : f[x] \in Int,
         NEW z \in S, g[z] \in Int, \A x \in S \ {z} : g[x] = f[x]
  PROVE  /\ SumFunctionOnSet(f, S) \in Int
         /\ SumFunctionOnSet(g, S) = SumFunctionOnSet(f, S) - f[z] + g[z]
  <1> DEFINE T == S \ {z}
  <1>1. \A x \in S : g[x] \in Int
    OBVIOUS
  <1>2. IsFiniteSet(T) /\ z \notin T /\ \A x \in T : f[x] \in Int /\ f[x] = g[x]
    BY FS_RemoveElement
  <1>3. SumFunctionOnSet(f, S) = f[z] + SumFunctionOnSet(f, T)
    BY SumRemoves
  <1>4. SumFunctionOnSet(g, S) = g[z] + SumFunctionOnSet(g, T)
    BY <1>1, SumRemoves
  <1> HIDE DEF T
  <1>5. SumFunctionOnSet(f, T) \in Int
    BY <1>2, SumUnfolds
  <1>6. SumFunctionOnSet(f, T) = SumFunctionOnSet(g, T)
    BY <1>2, SumAgrees
  <1>7. f[z] \in Int /\ g[z] \in Int
    OBVIOUS
  <1> HIDE DEF SumFunctionOnSet
  <1> QED
    BY <1>3, <1>4, <1>5, <1>6, <1>7

(* A transfer leaves the sum of all balances as it was, also when payer    *)
(* and payee are one.                                                      *)
LEMMA MovedKeepsSum ==
  ASSUME TypeOK, IsFiniteSet(Did), NEW payer \in Did, NEW payee \in Did, NEW amount \in Int
  PROVE  SumFunctionOnSet(Ledger!Moved(payer, payee, amount), Did)
           = SumFunctionOnSet(balance, Did)
  <1> DEFINE paid == [balance EXCEPT ![payer] = @ - amount]
             moved == [paid EXCEPT ![payee] = @ + amount]
  <1>1. \A d \in Did : balance[d] \in Int
    BY DEF TypeOK
  <1>2. Ledger!Moved(payer, payee, amount) = moved
    <2>1. moved = [d \in Did |-> moved[d]]
      BY DEF TypeOK
    <2>2. ASSUME NEW d \in Did
          PROVE  moved[d] = balance[d] - (IF d = payer THEN amount ELSE 0)
                                       + (IF d = payee THEN amount ELSE 0)
      <3>1. paid[d] = balance[d] - (IF d = payer THEN amount ELSE 0)
        BY <1>1 DEF TypeOK
      <3>2. moved[d] = paid[d] + (IF d = payee THEN amount ELSE 0)
        BY <1>1 DEF TypeOK
      <3> QED
        BY <3>1, <3>2
    <2> HIDE DEF paid, moved
    <2> QED
      BY <2>1, <2>2 DEF Ledger!Moved
  <1>3. /\ paid[payer] = balance[payer] - amount
        /\ \A d \in Did \ {payer} : paid[d] = balance[d]
        /\ \A d \in Did : paid[d] \in Int
    BY <1>1 DEF TypeOK
  <1>4. /\ moved[payee] = paid[payee] + amount
        /\ \A d \in Did \ {payee} : moved[d] = paid[d]
        /\ moved[payee] \in Int
    BY <1>1 DEF TypeOK
  <1> HIDE DEF paid, moved
  <1>5. paid[payer] \in Int
    BY <1>3
  <1>6. \A d \in Did : paid[d] \in Int
    BY <1>3
  <1>7. \A d \in Did \ {payer} : paid[d] = balance[d]
    BY <1>3
  <1>8. \A d \in Did \ {payee} : moved[d] = paid[d]
    BY <1>4
  <1>9. moved[payee] \in Int
    BY <1>4
  <1>10. /\ SumFunctionOnSet(balance, Did) \in Int
         /\ SumFunctionOnSet(paid, Did)
              = SumFunctionOnSet(balance, Did) - balance[payer] + paid[payer]
    BY <1>1, <1>5, <1>7, SumShifts
  <1>11. SumFunctionOnSet(moved, Did)
           = SumFunctionOnSet(paid, Did) - paid[payee] + moved[payee]
    BY <1>6, <1>8, <1>9, SumShifts
  <1> HIDE DEF SumFunctionOnSet
  <1>12. balance[payer] \in Int /\ paid[payee] \in Int
    BY <1>1, <1>6
  <1>13. SumFunctionOnSet(moved, Did) = SumFunctionOnSet(balance, Did)
    BY <1>3, <1>4, <1>10, <1>11, <1>12
  <1> QED
    BY <1>2, <1>13

LEMMA CreditAddsBoth ==
  ASSUME IInv, IsFiniteSet(Did), PointsConserved, NEW s \in Server, NEW d \in Did,
         NEW amount \in 1 .. MaxMint, Credit(s, d, amount)
  PROVE  PointsConserved'
  <1>1. /\ amount \in Int
        /\ balance' = [balance EXCEPT ![d] = @ + amount]
        /\ minted' = [minted EXCEPT ![d] = @ + amount]
    BY InstructionAssumption DEF Credit, IInv
  <1>2. \A e \in Did : balance[e] \in Int
    BY DEF IInv, TypeOK
  <1>3. \A e \in Did : minted[e] \in Int
    BY DEF IInv, TypeOK
  <1>4. /\ balance'[d] = balance[d] + amount /\ minted'[d] = minted[d] + amount
        /\ balance'[d] \in Int /\ minted'[d] \in Int
    BY <1>1 DEF IInv, TypeOK
  <1>5. \A e \in Did \ {d} : balance'[e] = balance[e]
    BY <1>1 DEF IInv, TypeOK
  <1>6. \A e \in Did \ {d} : minted'[e] = minted[e]
    BY <1>1 DEF IInv, TypeOK
  <1>7. /\ SumFunctionOnSet(balance, Did) \in Int
        /\ SumFunctionOnSet(balance', Did)
             = SumFunctionOnSet(balance, Did) - balance[d] + balance'[d]
    BY <1>2, <1>4, <1>5, SumShifts
  <1>8. /\ SumFunctionOnSet(minted, Did) \in Int
        /\ SumFunctionOnSet(minted', Did)
             = SumFunctionOnSet(minted, Did) - minted[d] + minted'[d]
    BY <1>3, <1>4, <1>6, SumShifts
  <1>9. SumFunctionOnSet(balance, Did) = SumFunctionOnSet(minted, Did)
    BY DEF PointsConserved
  <1> HIDE DEF SumFunctionOnSet
  <1>10. SumFunctionOnSet(balance', Did) = SumFunctionOnSet(minted', Did)
    BY <1>1, <1>2, <1>3, <1>4, <1>7, <1>8, <1>9
  <1> QED
    BY <1>10 DEF PointsConserved

LEMMA NextConserves ==
  ASSUME IsFiniteSet(Did)
  PROVE  IInv /\ PointsConserved /\ [Next]_vars => PointsConserved'
  <1> SUFFICES ASSUME IInv, PointsConserved, [Next]_vars PROVE PointsConserved'
    OBVIOUS
  <1>1. CASE UNCHANGED <<balance, minted>>
    BY <1>1 DEF PointsConserved
  <1>2. ASSUME NEW c \in Call, Step(c) PROVE PointsConserved'
    <2>1. (Decided \/ UNCHANGED Ledger!ledger) /\ UNCHANGED minted
      BY <1>2, StepRefines
    <2>2. ASSUME NEW s \in SettlementId, NEW r \in Record,
                 Ledger!Decide(s, r), Ledger!MovesPoints(r)
          PROVE  PointsConserved'
      <3>1. /\ r.payer \in Did /\ r.payee \in Did /\ r.amount \in Int
            /\ balance' = Ledger!Moved(r.payer, r.payee, r.amount)
        BY <2>2, InstructionAssumption DEF Ledger!Decide, Record
      <3>2. SumFunctionOnSet(balance', Did) = SumFunctionOnSet(balance, Did)
        BY <3>1, MovedKeepsSum DEF IInv
      <3> HIDE DEF SumFunctionOnSet
      <3> QED
        BY <2>1, <3>2 DEF PointsConserved
    <2>3. ASSUME NEW s \in SettlementId, NEW r \in Record,
                 Ledger!Decide(s, r), ~Ledger!MovesPoints(r)
          PROVE  UNCHANGED balance
      BY <2>3 DEF Ledger!Decide
    <2> QED
      BY <1>1, <2>1, <2>2, <2>3 DEF Decided, Ledger!ledger
  <1>3. ASSUME NEW c \in Call, NEW i \in Instruction, Settle(c, i) PROVE PointsConserved'
    BY <1>1, <1>3 DEF Settle, db, history
  <1>4. ASSUME NEW s \in Server, NEW d \in Did, OpenAccount(s, d) PROVE PointsConserved'
    BY <1>1, <1>4 DEF OpenAccount
  <1>5. CASE \/ \E tx \in Tx : WalletBroadcasts(tx) \/ ChainDecides(tx)
             \/ \E s \in Server : Crash(s)
    BY <1>1, <1>5 DEF WalletBroadcasts, ChainDecides, Crash, db, history
  <1>6. CASE UNCHANGED vars
    BY <1>1, <1>6 DEF vars
  <1> QED
    BY <1>2, <1>3, <1>4, <1>5, <1>6, CreditAddsBoth DEF Next

(* Points are neither made nor lost: for any finite number of identities,  *)
(* all balances together are what was ever credited, whatever calls raced, *)
(* rolled back or were lost in between.                                    *)
THEOREM PointsAreConserved ==
  ASSUME IsFiniteSet(Did)
  PROVE  Spec => []PointsConserved
  <1>1. Init => PointsConserved
    BY DEF Init, PointsConserved
  <1> QED
    BY <1>1, NextConserves, Invariant, PTL DEF Spec
=============================================================================
