------------------------------- MODULE Merkle -------------------------------
(***************************************************************************)
(* Merkle roots and proofs (src/execution/merkle.ts) over symbolic hashes: *)
(* the hash of two nodes is the pair of them, so no two hashes collide.    *)
(* Indices count from 0, as in the code.                                   *)
(***************************************************************************)
EXTENDS Integers, SequencesExt

HashPair(left, right) == <<left, right>>

(* Mutant: a last node without a partner is dropped.                       *)
NextLevelDrops(level) ==
  [k \in 1 .. Len(level) \div 2 |-> HashPair(level[2*k - 1], level[2*k])]

(* One round of buildMerkleLevels; a last node without a partner is paired *)
(* with itself.                                                            *)
NextLevel(level) ==
  [k \in 1 .. (Len(level) + 1) \div 2 |->
     HashPair(level[2*k - 1], IF 2*k <= Len(level) THEN level[2*k] ELSE level[2*k - 1])]

(* The levels that rounds of buildMerkleLevels make of the leaves, level 0.*)
Levels(leaves) ==
  LET level[n \in Nat] == IF n = 0 THEN leaves ELSE NextLevel(level[n - 1])
  IN  level

(* Rounds are made while a level has more than one node.                   *)
Height(leaves) == Min({n \in 0 .. Len(leaves) : Len(Levels(leaves)[n]) <= 1})

(* The hash of "" stands for the root of no leaves.                        *)
EmptyRoot == <<>>

Root(leaves) == IF leaves = <<>> THEN EmptyRoot ELSE Levels(leaves)[Height(leaves)][1]

(* Mutant: the sibling is always the next node.                            *)
SiblingNext(level, cursor) ==
  [position |-> "right",
   hash |-> IF cursor + 2 <= Len(level) THEN level[cursor + 2] ELSE level[cursor + 1]]

(* The node that `cursor` is paired with, itself if there is none.         *)
Sibling(level, cursor) ==
  IF cursor % 2 = 1 THEN [position |-> "left", hash |-> level[cursor]]
  ELSE [position |-> "right",
        hash |-> IF cursor + 2 <= Len(level) THEN level[cursor + 2] ELSE level[cursor + 1]]

(* The places of the nodes above a leaf, level by level.                   *)
Path(index) ==
  LET cursor[n \in Nat] == IF n = 0 THEN index ELSE cursor[n - 1] \div 2
  IN  cursor

BuildProof(leaves, index) ==
  [leaf |-> leaves[index + 1], index |-> index, root |-> Root(leaves),
   siblings |-> [n \in 1 .. Height(leaves) |->
                   Sibling(Levels(leaves)[n - 1], Path(index)[n - 1])]]

Joined(sibling, cursor) ==
  IF sibling.position = "left" THEN HashPair(sibling.hash, cursor)
  ELSE HashPair(cursor, sibling.hash)

(* The hashes verifyMerkleProof makes of a leaf, sibling by sibling.       *)
Climb(proof) ==
  LET cursor[n \in Nat] ==
        IF n = 0 THEN proof.leaf ELSE Joined(proof.siblings[n], cursor[n - 1])
  IN  cursor

VerifyProof(proof) == Climb(proof)[Len(proof.siblings)] = proof.root
=============================================================================
