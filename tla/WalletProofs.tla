----------------------------- MODULE WalletProofs -----------------------------
(***************************************************************************)
(* Theorems about Wallet, for every set of owners, addresses, calls and    *)
(* servers.                                                                *)
(***************************************************************************)
EXTENDS Wallet, TLAPS

Key == Owner \X Address

(* What a call past its lookup carries: a key, and the id of a binding that*)
(* was drawn for that key.                                                 *)
Carries ==
  \A c \in Call :
    pc[c] \in {"claim", "signature"} =>
      /\ claim[c] \in Key
      /\ held[c] \in BindingId
      /\ pc[held[c]] # "idle"
      /\ claim[held[c]] = claim[c]

(* Ids and nonces of a row were drawn by calls that claimed its key.       *)
RowsOwn ==
  \A k \in Key : bindings[k] # None =>
    /\ pc[bindings[k].id] # "idle" /\ claim[bindings[k].id] = k
    /\ pc[bindings[k].nonce] # "idle" /\ claim[bindings[k].nonce] = k

(* A nonce that verify() was given, and waits for or has accepted, was     *)
(* issued for the key that verify() is about.                              *)
NoncesOwn ==
  \A c \in Call :
    (pc[c] = "signature" \/ c \in accepted) =>
      /\ used[c] \in Nonce
      /\ pc[used[c]] = "done"
      /\ claim[used[c]] = claim[c]
      /\ claim[c] \in Key

(* The row an accepted nonce still stands in is verified.                  *)
AcceptedVerified ==
  \A c \in accepted :
    /\ pc[c] = "done"
    /\ (bindings[claim[c]] # None /\ bindings[claim[c]].nonce = used[c])
         => bindings[claim[c]].verified

(* A verify() that came after its nonce had been accepted was refused.     *)
TardyRefused == \A c \in tardy : pc[c] = "thrown" /\ c \notin accepted

(* A claim in progress is of an address free of other owners, and is alone *)
(* in claiming it, unless servers raced.                                   *)
ClaimsAlone ==
  \A c \in Call :
    (pc[c] = "claim" /\ claim[c][2] \notin raced) =>
      /\ \A o \in Owner : Claimed(o, claim[c][2]) => o = claim[c][1]
      /\ \A d \in Call \ {c} : pc[d] = "claim" => claim[d][2] # claim[c][2]

(* The inductive invariant.                                                *)
IInv ==
  /\ TypeOK
  /\ Carries
  /\ RowsOwn
  /\ NoncesOwn
  /\ AcceptedVerified
  /\ TardyRefused
  /\ VerifiedByOwnCall
  /\ ClaimsAlone
  /\ OneOwner

-----------------------------------------------------------------------------
(* The initial state satisfies the invariant.                              *)
LEMMA InitIInv == Init => IInv
  BY DEF Init, IInv, TypeOK, Carries, RowsOwn, NoncesOwn, AcceptedVerified,
         TardyRefused, VerifiedByOwnCall, ClaimsAlone, OneOwner, Claimed,
         Resting, HoldsLoop, Key

(* A call starts to claim an address, or is refused it.                    *)
LEMMA ConnectStep ==
  ASSUME IInv, NEW c \in Call, NEW o \in Owner, NEW a \in Address, Connect(c, o, a)
  PROVE  IInv'
  <1> USE WalletAssumption DEF Connect, Goto, Key
  <1> <<o, a>> \in Key
    BY DEF Key
  <1>1. TypeOK'
    BY DEF IInv, TypeOK, Resting, HoldsLoop, Claimed, Binding, BindingId, Nonce
  <1>2. Carries'
    BY DEF IInv, TypeOK, Carries, RowsOwn, Claimed, Binding, BindingId, Nonce, Resting, HoldsLoop
  <1>3. RowsOwn'
    BY DEF IInv, TypeOK, RowsOwn, Binding, BindingId, Nonce
  <1>4. NoncesOwn'
    BY DEF IInv, TypeOK, NoncesOwn, AcceptedVerified, Nonce
  <1>5. AcceptedVerified'
    BY DEF IInv, TypeOK, AcceptedVerified
  <1>6. TardyRefused'
    BY DEF IInv, TypeOK, TardyRefused
  <1>7. VerifiedByOwnCall'
    BY DEF IInv, TypeOK, VerifiedByOwnCall, AcceptedVerified
  <1>8. OneOwner'
    BY DEF IInv, OneOwner, Claimed
  <1>9. ClaimsAlone'
    BY <1>1, <1>2 DEF IInv, TypeOK, ClaimsAlone, Carries, OneOwner, Claimed, Found, Free, Key
  <1> QED
    BY <1>1, <1>2, <1>3, <1>4, <1>5, <1>6, <1>7, <1>8, <1>9 DEF IInv

(* A claim is written: the row gets the nonce of this call and is not      *)
(* verified; the address stays with one owner.                             *)
LEMMA ClaimStep ==
  ASSUME IInv, NEW c \in Call, Claim(c)
  PROVE  IInv'
  <1> USE WalletAssumption DEF Claim, Goto, Key, history
  <1>0. claim[c] \in Key /\ held[c] \in BindingId
    BY DEF IInv, Carries
  <1>1. TypeOK'
    BY <1>0 DEF IInv, TypeOK, Resting, HoldsLoop, Binding, BindingId, Nonce
  <1>2. Carries'
    BY <1>0 DEF IInv, TypeOK, Carries, BindingId, Resting, HoldsLoop
  <1>3. RowsOwn'
    BY <1>0 DEF IInv, TypeOK, Carries, RowsOwn, Binding, BindingId, Nonce
  <1>4. NoncesOwn'
    BY DEF IInv, TypeOK, NoncesOwn, AcceptedVerified, Nonce
  <1>5. AcceptedVerified'
    BY <1>0 DEF IInv, TypeOK, AcceptedVerified, NoncesOwn, Nonce
  <1>6. TardyRefused'
    BY DEF IInv, TypeOK, TardyRefused
  <1>7. VerifiedByOwnCall'
    BY <1>0 DEF IInv, TypeOK, VerifiedByOwnCall
  <1>8. OneOwner'
    BY <1>0 DEF IInv, TypeOK, OneOwner, ClaimsAlone, Claimed
  <1>9. ClaimsAlone'
    BY <1>0 DEF IInv, TypeOK, ClaimsAlone, Carries, Claimed
  <1> QED
    BY <1>1, <1>2, <1>3, <1>4, <1>5, <1>6, <1>7, <1>8, <1>9 DEF IInv

(* verify() reads its row: a nonce that has been accepted is not awaited.  *)
LEMMA VerifyStep ==
  ASSUME IInv, NEW c \in Call, NEW o \in Owner, NEW a \in Address, NEW n \in Nonce,
         Verify(c, o, a, n)
  PROVE  IInv'
  <1> USE WalletAssumption DEF Verify, Goto, Key, Issued
  <1> DEFINE k == <<o, a>>
  <1>0. k \in Key
    OBVIOUS
  <1>a. Awaited(o, a, n) => /\ bindings[k] # None /\ bindings[k] \in Binding
                            /\ ~bindings[k].verified /\ bindings[k].nonce = n
    BY <1>0 DEF IInv, TypeOK, Awaited, Claimed
  <1>1. TypeOK'
    BY <1>0, <1>a DEF IInv, TypeOK, Resting, HoldsLoop, Binding, BindingId, Nonce
  <1>2. Carries'
    BY <1>0, <1>a DEF IInv, TypeOK, Carries, RowsOwn, Binding, BindingId, Nonce, Resting, HoldsLoop
  <1>3. RowsOwn'
    BY DEF IInv, TypeOK, RowsOwn, Binding, BindingId, Nonce
  <1>4. NoncesOwn'
    BY <1>0, <1>a DEF IInv, TypeOK, NoncesOwn, AcceptedVerified, RowsOwn, Nonce
  <1>5. AcceptedVerified'
    BY DEF IInv, TypeOK, AcceptedVerified
  <1>6. TardyRefused'
    <2>1. ASSUME NEW d \in accepted, used[d] = n PROVE ~Awaited(o, a, n)
      BY <2>1, <1>0, <1>a DEF IInv, TypeOK, AcceptedVerified, NoncesOwn, RowsOwn
    <2> QED
      BY <2>1 DEF IInv, TypeOK, TardyRefused, AcceptedVerified
  <1>7. VerifiedByOwnCall'
    BY DEF IInv, TypeOK, VerifiedByOwnCall, AcceptedVerified
  <1>8. OneOwner'
    BY DEF IInv, OneOwner, Claimed
  <1>9. ClaimsAlone'
    BY DEF IInv, TypeOK, ClaimsAlone, Claimed
  <1> QED
    BY <1>1, <1>2, <1>3, <1>4, <1>5, <1>6, <1>7, <1>8, <1>9 DEF IInv

(* A signature checks out: the row with the id that was read, which can    *)
(* only be the row of this call's key, becomes verified.                   *)
LEMMA AcceptStep ==
  ASSUME IInv, NEW c \in Call, Accept(c)
  PROVE  IInv'
  <1> USE WalletAssumption DEF Accept, Goto
  <1>0. claim[c] \in Key /\ held[c] \in BindingId /\ claim[held[c]] = claim[c]
    BY DEF IInv, Carries
  <1>a. \A k \in Key : bindings[k] # None /\ bindings[k].id = held[c] => k = claim[c]
    <2> SUFFICES ASSUME NEW k \in Key, bindings[k] # None, bindings[k].id = held[c]
                 PROVE  k = claim[c]
      OBVIOUS
    <2>1. claim[bindings[k].id] = k
      BY DEF IInv, RowsOwn
    <2> QED
      BY <2>1, <1>0
  <1> USE DEF Key
  <1>b. \A k \in Key : bindings[k] # None =>
          /\ bindings[k] \in Binding
          /\ bindings'[k] \in Binding /\ bindings'[k] # None
          /\ bindings'[k].id = bindings[k].id /\ bindings'[k].nonce = bindings[k].nonce
          /\ bindings[k].verified => bindings'[k].verified
          /\ k # claim[c] => bindings'[k] = bindings[k]
    <2> SUFFICES ASSUME NEW k \in Key, bindings[k] # None
                 PROVE  /\ bindings[k] \in Binding
                        /\ bindings'[k] \in Binding /\ bindings'[k] # None
                        /\ bindings'[k].id = bindings[k].id
                        /\ bindings'[k].nonce = bindings[k].nonce
                        /\ bindings[k].verified => bindings'[k].verified
                        /\ k # claim[c] => bindings'[k] = bindings[k]
      OBVIOUS
    <2>1. bindings[k] \in Binding
      BY DEF IInv, TypeOK
    <2>2. CASE bindings[k].id = held[c]
      <3>1. bindings'[k] = [bindings[k] EXCEPT !.verified = TRUE]
        BY <2>2
      <3>2. k = claim[c]
        BY <2>2, <1>a
      <3> QED
        BY <2>1, <3>1, <3>2 DEF Binding, BindingId, Nonce
    <2>3. CASE bindings[k].id # held[c]
      <3>1. bindings'[k] = bindings[k]
        BY <2>3
      <3> QED
        BY <2>1, <3>1
    <2> QED
      BY <2>2, <2>3
  <1>c. \A k \in Key : bindings[k] = None => bindings'[k] = None
    BY DEF IInv, TypeOK
  <1>1. TypeOK'
    BY <1>b, <1>c DEF IInv, TypeOK, Resting, HoldsLoop
  <1>2. Carries'
    BY <1>0 DEF IInv, TypeOK, Carries, BindingId, Resting, HoldsLoop
  <1>3. RowsOwn'
    BY <1>b, <1>c DEF IInv, TypeOK, RowsOwn, Binding, BindingId, Nonce
  <1>4. NoncesOwn'
    BY DEF IInv, TypeOK, NoncesOwn, AcceptedVerified, Nonce
  <1>5. AcceptedVerified'
    <2>1. c \in accepted' => bindings'[claim[c]] = None \/ bindings'[claim[c]].verified
      BY <1>0, <1>a, <1>b DEF IInv, TypeOK, AcceptedVerified, Binding
    <2> QED
      BY <2>1, <1>0, <1>b, <1>c DEF IInv, TypeOK, AcceptedVerified, NoncesOwn
  <1>6. TardyRefused'
    BY DEF IInv, TypeOK, TardyRefused
  <1>7. VerifiedByOwnCall'
    BY <1>a, <1>b, <1>c DEF IInv, TypeOK, VerifiedByOwnCall
  <1>8. OneOwner'
    BY <1>c DEF IInv, OneOwner, Claimed
  <1>9. ClaimsAlone'
    BY <1>0, <1>c DEF IInv, TypeOK, ClaimsAlone, Carries, Claimed
  <1> QED
    BY <1>1, <1>2, <1>3, <1>4, <1>5, <1>6, <1>7, <1>8, <1>9 DEF IInv

(* Calls that end without a result, and nonces that expire, change no row. *)
LEMMA QuietStep ==
  ASSUME IInv, UNCHANGED <<bindings, claim, held, used, history>>,
         expired' \in SUBSET Nonce,
         pc' \in [Call -> Resting \cup HoldsLoop \cup {"signature"}],
         \A c \in Call :
           \/ pc'[c] = pc[c]
           \/ pc[c] \in {"claim", "signature"} /\ pc'[c] \in {"thrown", "lost"}
  PROVE  IInv'
  <1> USE DEF history
  <1>1. TypeOK' /\ Carries'
    BY DEF IInv, TypeOK, Carries, BindingId
  <1>2. RowsOwn'
    BY DEF IInv, TypeOK, RowsOwn, Key, Binding, BindingId, Nonce
  <1>3. NoncesOwn' /\ AcceptedVerified'
    BY DEF IInv, TypeOK, NoncesOwn, AcceptedVerified, Nonce
  <1>4. TardyRefused'
    BY DEF IInv, TypeOK, TardyRefused
  <1>5. VerifiedByOwnCall' /\ OneOwner' /\ ClaimsAlone'
    BY DEF IInv, VerifiedByOwnCall, OneOwner, ClaimsAlone, Claimed
  <1> QED
    BY <1>1, <1>2, <1>3, <1>4, <1>5 DEF IInv

(* Every step preserves the invariant.                                     *)
LEMMA NextIInv == IInv /\ [Next]_vars => IInv'
  <1> SUFFICES ASSUME IInv, [Next]_vars PROVE IInv'
    OBVIOUS
  <1>1. ASSUME NEW c \in Call, Reject(c) PROVE IInv'
    BY <1>1, QuietStep DEF Reject, Goto, IInv, TypeOK, Resting
  <1>2. ASSUME NEW n \in Nonce, NonceExpires(n) PROVE IInv'
    BY <1>2, QuietStep DEF NonceExpires, Issued, IInv, TypeOK
  <1>3. ASSUME NEW s \in Server, Crash(s) PROVE IInv'
    <2>1. pc' \in [Call -> Resting \cup HoldsLoop \cup {"signature"}]
      BY <1>3 DEF Crash, IInv, TypeOK, Resting
    <2>2. \A c \in Call : pc'[c] = pc[c] \/ (pc[c] \in {"claim", "signature"} /\ pc'[c] = "lost")
      BY <1>3 DEF Crash, IInv, TypeOK, Resting, HoldsLoop
    <2> QED
      BY <1>3, <2>1, <2>2, QuietStep DEF Crash, IInv, TypeOK
  <1>4. CASE UNCHANGED vars
    BY <1>4, QuietStep DEF vars, history, IInv, TypeOK
  <1> QED
    BY <1>1, <1>2, <1>3, <1>4, ConnectStep, ClaimStep, VerifyStep, AcceptStep DEF Next

-----------------------------------------------------------------------------
(* The invariant holds in every reachable state.                           *)
THEOREM Invariant == Spec => []IInv
  BY InitIInv, NextIInv, PTL DEF Spec

(* Every variable keeps its type.                                          *)
THEOREM TypeCorrect == Spec => []TypeOK
  <1>1. IInv => TypeOK
    BY DEF IInv
  <1> QED
    BY <1>1, Invariant, PTL

(* An address gets a second owner only if two servers claimed it at once.  *)
THEOREM OwnersAreAlone == Spec => []OneOwner
  <1>1. IInv => OneOwner
    BY DEF IInv
  <1> QED
    BY <1>1, Invariant, PTL

(* A binding is verified only by a verify() of its own owner and address.  *)
THEOREM BindingsAreOwnVerified == Spec => []VerifiedByOwnCall
  <1>1. IInv => VerifiedByOwnCall
    BY DEF IInv
  <1> QED
    BY <1>1, Invariant, PTL

(* A verify() made after its nonce had been accepted is refused, whatever  *)
(* reconnects and other servers did in between.                            *)
THEOREM LateReplaysFail == Spec => []NoLateReplay
  <1>1. IInv => NoLateReplay
    BY DEF IInv, TardyRefused, NoLateReplay
  <1> QED
    BY <1>1, Invariant, PTL

-----------------------------------------------------------------------------
(* With one server no two claims overlap.                                  *)
LEMMA OneServerNext ==
  ASSUME \A c, d \in Call : ServerOf[c] = ServerOf[d],
         IInv, raced = {}, [Next]_vars
  PROVE  raced' = {}
  <1>1. ASSUME NEW c \in Call, NEW o \in Owner, NEW a \in Address, Connect(c, o, a)
        PROVE  raced' = {}
    BY <1>1 DEF Connect, LoopFree, HoldsLoop
  <1>2. ASSUME NEW c \in Call, NEW o \in Owner, NEW a \in Address, NEW n \in Nonce,
               Verify(c, o, a, n)
        PROVE  raced' = {}
    BY <1>2 DEF Verify
  <1>3. ASSUME NEW c \in Call, Claim(c) \/ Accept(c) \/ Reject(c) PROVE raced' = {}
    BY <1>3 DEF Claim, Accept, Reject, history
  <1>4. ASSUME NEW n \in Nonce, NonceExpires(n) PROVE raced' = {}
    BY <1>4 DEF NonceExpires, history
  <1>5. ASSUME NEW s \in Server, Crash(s) PROVE raced' = {}
    BY <1>5 DEF Crash, history
  <1>6. CASE UNCHANGED vars
    BY <1>6 DEF vars
  <1> QED
    BY <1>1, <1>2, <1>3, <1>4, <1>5, <1>6 DEF Next

(* No claim was made while another server was claiming the same address.   *)
NoRace == raced = {}

(* No address has rows of two owners.                                      *)
SoleOwner ==
  \A a \in Address, o, p \in Owner : Claimed(o, a) /\ Claimed(p, a) => o = p

(* In one process, an address never has rows of two owners.                *)
THEOREM OneServerOneOwner ==
  ASSUME \A c, d \in Call : ServerOf[c] = ServerOf[d]
  PROVE  Spec => []SoleOwner
  <1>1. Init => NoRace
    BY DEF Init, NoRace
  <1>2. IInv /\ NoRace /\ [Next]_vars => NoRace'
    BY OneServerNext DEF NoRace
  <1>3. IInv /\ NoRace => SoleOwner
    BY DEF IInv, OneOwner, NoRace, SoleOwner
  <1> QED
    BY <1>1, <1>2, <1>3, Invariant, PTL DEF Spec
=============================================================================
