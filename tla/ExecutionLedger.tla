-------------------------- MODULE ExecutionLedger --------------------------
(***************************************************************************)
(* execution_records as an evidence ledger (src/execution/index.ts):       *)
(* #writeExecutionRecord inserts a row, reads the leaves of all rows in    *)
(* the order of (created_at, execution_id), and stores root and index in   *)
(* its own row.  These are three SQL statements outside any transaction;   *)
(* within one server nothing runs in between.                              *)
(***************************************************************************)
EXTENDS Merkle, FiniteSets

CONSTANTS
  Writer, Server, ServerOf,  (* Writing calls, and the server of each.     *)
  MaxRows,                   (* Bound: execution ids that may be drawn.    *)
  MaxTime,                   (* Bound: instants a clock may show.          *)
  None

ASSUME LedgerAssumption ==
  /\ ServerOf \in [Writer -> Server]
  /\ MaxRows \in Nat /\ MaxTime \in Nat
  /\ None \notin 1 .. MaxRows

(* Ids are random, so that their order says nothing of when they were      *)
(* drawn; clocks have milliseconds and may be set back.                    *)
ExecutionId == 1 .. MaxRows
Time == 1 .. MaxTime

VARIABLES
  rows,   (* execution_records, in the order of insertion.                 *)
  stamp,  (* merkle_root and merkle_index of each row, or None.            *)
  pc,
  own,    (* The execution id of each call.                                *)
  seen    (* The root and index a call is about to store.                  *)

vars == <<rows, stamp, pc, own, seen>>

Resting == {"idle", "done", "thrown", "lost"}
HoldsLoop == {"leaves", "stamp"}

LoopFree(c) ==
  \A d \in Writer \ {c} : ServerOf[d] = ServerOf[c] => pc[d] \notin HoldsLoop

Goto(c, label) == pc' = [pc EXCEPT ![c] = label]

Init ==
  /\ rows = <<>>
  /\ stamp = [e \in ExecutionId |-> None]
  /\ pc = [c \in Writer |-> "idle"]
  /\ own = [c \in Writer |-> None]
  /\ seen = [c \in Writer |-> None]

Stored(table) == {table[k] : k \in DOMAIN table}
Ids(table) == {r.id : r \in Stored(table)}

(* ORDER BY created_at ASC, execution_id ASC.                              *)
Precedes(r, s) == r.at < s.at \/ (r.at = s.at /\ r.id < s.id)

(* The place of a row in that order.                                       *)
Place(stored, r) == Cardinality({s \in stored : Precedes(s, r)}) + 1

(* createExecutionLeafHash covers the id, which tells a row from others.   *)
LeafHash(e) == <<e>>

(* #getLedgerLeaves                                                        *)
Leaves(stored) ==
  [k \in 1 .. Cardinality(stored) |->
     LeafHash((CHOOSE r \in stored : Place(stored, r) = k).id)]

(* leaves.findIndex                                                        *)
IndexIn(leaves, e) ==
  IF LeafHash(e) \in Range(leaves)
    THEN (CHOOSE k \in DOMAIN leaves : leaves[k] = LeafHash(e)) - 1
    ELSE -1

Insert(c, e, at) ==
  /\ pc[c] = "idle" /\ LoopFree(c)
  /\ e \notin Ids(rows)
  /\ rows' = Append(rows, [id |-> e, at |-> at])
  /\ own' = [own EXCEPT ![c] = e]
  /\ Goto(c, "leaves")
  /\ UNCHANGED <<stamp, seen>>

(* Mutant: only rows that have a root are leaves.                          *)
ReadStamped(c) ==
  LET leaves == Leaves({r \in Stored(rows) : r.id = own[c] \/ stamp[r.id] # None}) IN
  /\ pc[c] = "leaves"
  /\ seen' = [seen EXCEPT ![c] =
       [root |-> Root(leaves), index |-> IndexIn(leaves, own[c])]]
  /\ Goto(c, "stamp")
  /\ UNCHANGED <<rows, stamp, own>>

(* Mutant: a new row is taken for the last leaf.                           *)
ReadLast(c) ==
  LET leaves == Leaves(Stored(rows)) IN
  /\ pc[c] = "leaves"
  /\ seen' = [seen EXCEPT ![c] = [root |-> Root(leaves), index |-> Len(leaves) - 1]]
  /\ Goto(c, "stamp")
  /\ UNCHANGED <<rows, stamp, own>>

ReadLeaves(c) ==
  LET leaves == Leaves(Stored(rows)) IN
  /\ pc[c] = "leaves"
  /\ seen' = [seen EXCEPT ![c] =
       [root |-> Root(leaves), index |-> IndexIn(leaves, own[c])]]
  /\ Goto(c, "stamp")
  /\ UNCHANGED <<rows, stamp, own>>

(* A call that is over holds nothing.                                      *)
Forget(ended) ==
  /\ own' = [c \in Writer |-> IF c \in ended THEN None ELSE own[c]]
  /\ seen' = [c \in Writer |-> IF c \in ended THEN None ELSE seen[c]]

Stamp(c) ==
  /\ pc[c] = "stamp"
  /\ stamp' = [stamp EXCEPT ![own[c]] = seen[c]]
  /\ Goto(c, "done") /\ Forget({c})
  /\ UNCHANGED rows

(* The second or the third statement fails.  execute() then writes its     *)
(* record again, and the primary key refuses it.                           *)
WriteThrows(c) ==
  /\ pc[c] \in HoldsLoop
  /\ Goto(c, "thrown") /\ Forget({c})
  /\ UNCHANGED <<rows, stamp>>

Crash(s) ==
  LET lost == {c \in Writer : ServerOf[c] = s /\ pc[c] \notin Resting} IN
  /\ lost # {}
  /\ pc' = [c \in Writer |-> IF c \in lost THEN "lost" ELSE pc[c]]
  /\ Forget(lost)
  /\ UNCHANGED <<rows, stamp>>

Next ==
  \/ \E c \in Writer, e \in ExecutionId, at \in Time : Insert(c, e, at)
  \/ \E c \in Writer : ReadLeaves(c) \/ Stamp(c) \/ WriteThrows(c)
  \/ \E s \in Server : Crash(s)

Spec == Init /\ [][Next]_vars

-----------------------------------------------------------------------------
(* The first n rows: the ledger as it was when the n-th had been inserted. *)
Past(n) == SubSeq(rows, 1, n)

(* A stored root is the root of the whole ledger as it was at one moment   *)
(* after the row was inserted, and the stored index is where that ledger   *)
(* has the row, whatever other servers inserted and whoever crashed.       *)
RootsArePast ==
  \A k \in DOMAIN rows : stamp[rows[k].id] # None =>
    \E n \in k .. Len(rows) :
      LET leaves == Leaves(Stored(Past(n))) IN
      stamp[rows[k].id] = [root |-> Root(leaves), index |-> IndexIn(leaves, rows[k].id)]

(* The stored index stays the one generateMerkleProof gives, unless a row  *)
(* inserted later sorts before it: one of the same millisecond, or of a    *)
(* clock that was set back.                                                *)
IndexIsCurrent ==
  \A k \in DOMAIN rows :
    (/\ stamp[rows[k].id] # None
     /\ \A n \in k + 1 .. Len(rows) : Precedes(rows[k], rows[n]))
      => stamp[rows[k].id].index = IndexIn(Leaves(Stored(rows)), rows[k].id)

(* tests/integration.test.ts:446 "generates and verifies Merkle proofs",   *)
(* of ledgers of every shape: the proof of a row verifies under the root   *)
(* of the ledger, and under no other leaf hash.                            *)
ProofsHold ==
  LET leaves == Leaves(Stored(rows)) IN
  \A k \in DOMAIN leaves :
    LET proof == BuildProof(leaves, k - 1) IN
    /\ proof.root = Root(leaves)
    /\ \A e \in ExecutionId :
         VerifyProof([proof EXCEPT !.leaf = LeafHash(e)]) = (LeafHash(e) = leaves[k])

(* A root commits to the rows of its ledger: no part of them has the same. *)
RootsCommit ==
  LET root == Root(Leaves(Stored(rows))) IN
  \A part \in (SUBSET Stored(rows)) \ {{}, Stored(rows)} :
    Root(Leaves(part)) # root

(* Every variable holds a value of its kind; a stored index is a position. *)
TypeOK ==
  /\ rows \in Seq([id : ExecutionId, at : Time])
  /\ \A e \in ExecutionId : stamp[e] # None => stamp[e].index \in 0 .. Len(rows) - 1
  /\ pc \in [Writer -> Resting \cup HoldsLoop]
  /\ own \in [Writer -> ExecutionId \cup {None}]
  /\ \A c \in Writer : seen[c] # None => seen[c].index \in 0 .. Len(rows) - 1
=============================================================================
