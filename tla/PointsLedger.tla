---------------------------- MODULE PointsLedger ----------------------------
(***************************************************************************)
(* What the settlement component promises, with no process, no database    *)
(* and no chain in it: a settlement id is decided at most once, and        *)
(* deciding it COMPLETED on the luffa-points rail moves the points in the   *)
(* same step.  Settlement.tla implements this specification.               *)
(***************************************************************************)
EXTENDS Integers

CONSTANTS
  Did,           (* Identities that may hold Luffa Points.                 *)
  SettlementId,  (* Primary keys of settlement_records.                    *)
  Record,        (* The rows settlement_records can hold.                  *)
  None           (* Stands for "no row".                                   *)

VARIABLES
  balance,  (* Points of each identity; 0 without an account row.          *)
  records   (* The decision taken for each settlement id, or None.         *)

ledger == <<balance, records>>

(* The balances once `amount` points have left `payer` and reached `payee`. *)
Moved(payer, payee, amount) ==
  [d \in Did |-> balance[d] - (IF d = payer THEN amount ELSE 0)
                            + (IF d = payee THEN amount ELSE 0)]

MovesPoints(r) == r.rail = "luffa-points" /\ r.status = "COMPLETED"

LedgerInit ==
  /\ balance = [d \in Did |-> 0]
  /\ records = [s \in SettlementId |-> None]

Mint(d) ==
  /\ balance'[d] > balance[d]
  /\ balance' = [balance EXCEPT ![d] = balance'[d]]
  /\ UNCHANGED records

(* Deciding id s by record r.  A decision that does not move points may be *)
(* taken whatever the balances are.                                        *)
Decide(s, r) ==
  /\ records[s] = None
  /\ records' = [records EXCEPT ![s] = r]
  /\ IF MovesPoints(r)
       THEN /\ balance[r.payer] >= r.amount
            /\ balance' = Moved(r.payer, r.payee, r.amount)
       ELSE UNCHANGED balance

LedgerNext ==
  \/ \E d \in Did : Mint(d)
  \/ \E s \in SettlementId, r \in Record : Decide(s, r)

LedgerSpec == LedgerInit /\ [][LedgerNext]_ledger
=============================================================================
