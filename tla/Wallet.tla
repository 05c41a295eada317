------------------------------- MODULE Wallet -------------------------------
(***************************************************************************)
(* WalletService (src/wallet/index.ts): connect() claims an address for an *)
(* owner and issues a nonce, verify() marks the claim verified once a      *)
(* signature of that nonce checks out.  connect() reads and then upserts   *)
(* without giving way; verify() awaits the signature check between reading *)
(* the row and updating it.  Several servers may share the database.       *)
(***************************************************************************)
EXTENDS Integers

CONSTANTS
  Owner, Address,
  Call, Server, ServerOf,  (* Calls, and the server that runs each.        *)
  None

ASSUME WalletAssumption ==
  /\ ServerOf \in [Call -> Server]
  /\ None \notin Call
  /\ None \notin Owner \X Address
  /\ None \notin [id : Call, nonce : Call, verified : BOOLEAN]

(* newId draws the nonce and, for a new row, the binding id; both are      *)
(* named after the call that draws them.                                   *)
Nonce == Call
BindingId == Call

(* A row of wallet_bindings; (owner, address) is unique.                   *)
Binding == [id : BindingId, nonce : Nonce, verified : BOOLEAN]

VARIABLES
  bindings,  (* The row of each <<owner, address>>, or None.               *)
  expired,   (* Nonces past nonce_expires_at.                              *)
  pc,
  claim,     (* The <<owner, address>> of each call.                       *)
  held,      (* The binding id a call has read or drawn.                   *)
  used,      (* The nonce a verify() quotes, or None.                      *)
  accepted,  (* History: calls of verify() that succeeded.                 *)
  tardy,     (* History: calls of verify() made after their nonce had been *)
             (* accepted.                                                  *)
  raced      (* History: addresses claimed by a server while another was   *)
             (* claiming them.                                             *)

vars == <<bindings, expired, pc, claim, held, used, accepted, tardy, raced>>
history == <<accepted, tardy, raced>>

Resting == {"idle", "done", "thrown", "lost"}
HoldsLoop == {"claim"}

LoopFree(c) ==
  \A d \in Call \ {c} : ServerOf[d] = ServerOf[c] => pc[d] \notin HoldsLoop

Goto(c, label) == pc' = [pc EXCEPT ![c] = label]

Claimed(o, a) == bindings[<<o, a>>] # None

Init ==
  /\ bindings = [k \in Owner \X Address |-> None]
  /\ expired = {}
  /\ pc = [c \in Call |-> "idle"]
  /\ claim = [c \in Call |-> None]
  /\ held = [c \in Call |-> None]
  /\ used = [c \in Call |-> None]
  /\ accepted = {}
  /\ tardy = {}
  /\ raced = {}

(* Mutant: only verified rows are looked for.                              *)
FoundVerified(a) == {o \in Owner : Claimed(o, a) /\ bindings[<<o, a>>].verified}

(* The owners whose row findBindingOwner may find: one that is verified if *)
(* there is one, else the latest; clocks are not modelled.                 *)
Found(a) ==
  {o \in Owner : /\ Claimed(o, a)
                 /\ \A p \in Owner : Claimed(p, a) /\ bindings[<<p, a>>].verified
                                      => bindings[<<o, a>>].verified}

(* A row of another owner refuses the claim, verified or not.              *)
Taken(o, a) == Found(a) \ {o} # {}

Free(o, a) == Found(a) = {} \/ o \in Found(a)

(* connect() looks for another owner and for an earlier row of its own.    *)
Connect(c, o, a) ==
  /\ pc[c] = "idle" /\ LoopFree(c)
  /\ claim' = [claim EXCEPT ![c] = <<o, a>>]
  /\ \/ Taken(o, a) /\ Goto(c, "thrown") /\ UNCHANGED held
     \/ /\ Free(o, a)
        /\ held' = [held EXCEPT ![c] =
             IF Claimed(o, a) THEN bindings[<<o, a>>].id ELSE c]
        /\ Goto(c, "claim")
  /\ raced' = IF \E d \in Call : pc[d] = "claim" /\ claim[d][2] = a
                 THEN raced \cup {a} ELSE raced
  /\ UNCHANGED <<bindings, expired, used, accepted, tardy>>

(* Mutant: a row that is there keeps its nonce.                            *)
ClaimKeepsNonce(c) ==
  /\ pc[c] = "claim"
  /\ bindings' = [bindings EXCEPT ![claim[c]] =
       [id |-> held[c], verified |-> FALSE,
        nonce |-> IF @ # None THEN @.nonce ELSE c]]
  /\ Goto(c, "done")
  /\ UNCHANGED <<expired, claim, held, used, history>>

(* INSERT ... ON CONFLICT DO UPDATE: a new nonce, not verified any more.   *)
Claim(c) ==
  /\ pc[c] = "claim"
  /\ bindings' = [bindings EXCEPT ![claim[c]] =
       [id |-> held[c], nonce |-> c, verified |-> FALSE]]
  /\ Goto(c, "done")
  /\ UNCHANGED <<expired, claim, held, used, history>>

(* What verify() accepts before it checks the signature.                   *)
Awaited(o, a, n) ==
  /\ Claimed(o, a)
  /\ ~bindings[<<o, a>>].verified
  /\ bindings[<<o, a>>].nonce = n
  /\ n \notin expired

Issued == {c \in Call : pc[c] = "done" /\ used[c] = None}

Verify(c, o, a, n) ==
  /\ pc[c] = "idle" /\ LoopFree(c)
  /\ n \in Issued
  /\ claim' = [claim EXCEPT ![c] = <<o, a>>]
  /\ used' = [used EXCEPT ![c] = n]
  /\ tardy' = IF \E d \in accepted : used[d] = n THEN tardy \cup {c} ELSE tardy
  /\ IF Awaited(o, a, n)
       THEN held' = [held EXCEPT ![c] = bindings[<<o, a>>].id] /\ Goto(c, "signature")
       ELSE Goto(c, "thrown") /\ UNCHANGED held
  /\ UNCHANGED <<bindings, expired, accepted, raced>>

(* Mutant: UPDATE ... WHERE owner_ref.                                     *)
AcceptForOwner(c) ==
  /\ pc[c] = "signature" /\ LoopFree(c)
  /\ bindings' = [k \in Owner \X Address |->
       IF bindings[k] # None /\ k[1] = claim[c][1]
         THEN [bindings[k] EXCEPT !.verified = TRUE] ELSE bindings[k]]
  /\ Goto(c, "done") /\ accepted' = accepted \cup {c}
  /\ UNCHANGED <<expired, claim, held, used, tardy, raced>>

(* The signature is valid: UPDATE ... WHERE binding_id, and read it back.  *)
Accept(c) ==
  /\ pc[c] = "signature" /\ LoopFree(c)
  /\ bindings' = [k \in Owner \X Address |->
       IF bindings[k] # None /\ bindings[k].id = held[c]
         THEN [bindings[k] EXCEPT !.verified = TRUE] ELSE bindings[k]]
  /\ IF \E k \in Owner \X Address : bindings[k] # None /\ bindings[k].id = held[c]
       THEN Goto(c, "done") /\ accepted' = accepted \cup {c}
       ELSE Goto(c, "thrown") /\ UNCHANGED accepted
  /\ UNCHANGED <<expired, claim, held, used, tardy, raced>>

(* The signature is not valid, or a statement fails.                       *)
Reject(c) ==
  /\ pc[c] = "signature" \/ pc[c] = "claim"
  /\ Goto(c, "thrown")
  /\ UNCHANGED <<bindings, expired, claim, held, used, history>>

NonceExpires(n) ==
  /\ n \in Issued \ expired
  /\ expired' = expired \cup {n}
  /\ UNCHANGED <<bindings, pc, claim, held, used, history>>

Crash(s) ==
  /\ \E c \in Call : ServerOf[c] = s /\ pc[c] \notin Resting
  /\ pc' = [c \in Call |-> IF ServerOf[c] = s /\ pc[c] \notin Resting
                             THEN "lost" ELSE pc[c]]
  /\ UNCHANGED <<bindings, expired, claim, held, used, history>>

Next ==
  \/ \E c \in Call, o \in Owner, a \in Address :
       \/ Connect(c, o, a)
       \/ \E n \in Nonce : Verify(c, o, a, n)
  \/ \E c \in Call : Claim(c) \/ Accept(c) \/ Reject(c)
  \/ \E n \in Nonce : NonceExpires(n)
  \/ \E s \in Server : Crash(s)

Spec == Init /\ [][Next]_vars

-----------------------------------------------------------------------------
(* Every variable holds a value of its kind.                               *)
TypeOK ==
  /\ bindings \in [Owner \X Address -> Binding \cup {None}]
  /\ expired \in SUBSET Nonce
  /\ pc \in [Call -> Resting \cup HoldsLoop \cup {"signature"}]
  /\ claim \in [Call -> (Owner \X Address) \cup {None}]
  /\ held \in [Call -> BindingId \cup {None}]
  /\ used \in [Call -> Nonce \cup {None}]
  /\ accepted \in SUBSET Call
  /\ tardy \in SUBSET Call
  /\ raced \in SUBSET Address

(* tests/wallet.test.ts:203 "prevents cross-owner duplicate binding": an   *)
(* address has rows of two owners only if two servers claimed it at once,  *)
(* each between its lookup of an owner and its upsert.                     *)
OneOwner ==
  \A a \in Address \ raced, o, p \in Owner :
    Claimed(o, a) /\ Claimed(p, a) => o = p

(* tests/wallet.test.ts:141 "rejects replayed nonce", for replays made     *)
(* after the nonce was accepted: they fail, although a reconnect may have  *)
(* come between the check of the first use and its update.                 *)
NoLateReplay == tardy \cap accepted = {}

(* A binding is verified only by a verify() of its own owner and address   *)
(* that succeeded: nothing signed for another owner or address verifies it.*)
VerifiedByOwnCall ==
  \A k \in Owner \X Address :
    (bindings[k] # None /\ bindings[k].verified)
      => \E c \in accepted : claim[c] = k
=============================================================================
