------------------------------ MODULE Identity ------------------------------
(***************************************************************************)
(* IdentityService (src/identity/index.ts): agent rows, capability tokens  *)
(* and the service key, on several servers that restart.  A step ends at   *)
(* an await.  Public and secret key of a pair are one value, and a         *)
(* signature is the key it was made with.                                  *)
(***************************************************************************)
EXTENDS Naturals, TLC

CONSTANTS
  Agent,                     (* The DIDs of agents, registered or not.     *)
  Field,                     (* Metadata keys, and the other columns that  *)
                             (* an update may give.                        *)
  Call, Server, ServerOf,    (* Calls, and the server that runs each.      *)
  Service,                   (* did:luffa:lael-service                     *)
  MaxStarts,                 (* Bound: starts of a server.                 *)
  PinnedKey,                 (* Bound: public keys that requests put among *)
                             (* the constraints of a token.                *)
  None

(* Every process draws its own service key; an agent's key is named after  *)
(* the agent.                                                              *)
ServiceKey == Server \X (1 .. MaxStarts)
Key == Agent \cup ServiceKey

(* A field holds the call that gave its value, None since registration.    *)
Fields == [Field -> Call \cup {None}]
Row == [status : {"active", "inactive"}, fields : Fields]

(* A row of capability_tokens: the issuer, the public key among its        *)
(* constraints, the key of its signature, whether it is neither revoked    *)
(* nor expired; and (history) whether issuer and signing were left to the  *)
(* service, and whether the request brought the public key.                *)
Token ==
  [issuer : Agent \cup {Service}, issuerPublicKey : Key \cup {None},
   signature : Key, live : BOOLEAN, plain : BOOLEAN, brought : BOOLEAN]

ASSUME IdentityAssumption ==
  /\ ServerOf \in [Call -> Server]
  /\ MaxStarts \in Nat \ {0}
  /\ PinnedKey \subseteq Key
  /\ Service \notin Agent /\ Agent \cap ServiceKey = {}
  /\ None \notin Key \cup {Service} \cup Call
  /\ None \notin Row \cup Token \cup [token : Call, valid : BOOLEAN]

VARIABLES
  agents,   (* The row of each agent, or None.                             *)
  tokens,   (* capability_tokens by the call that drew the id, or None.    *)
  starts,   (* How often each server was started.                          *)
  pc,
  local,    (* What a call holds across an await.                          *)
  stale,    (* History: updates whose row another update has written since *)
            (* they read it.                                               *)
  reply     (* What verifyCapabilityToken answered.                        *)

vars == <<agents, tokens, starts, pc, local, stale, reply>>

Awaiting == {"updating", "signing", "verifying"}

Init ==
  /\ agents = [a \in Agent |-> None]
  /\ tokens = [c \in Call |-> None]
  /\ starts = [s \in Server |-> 1]
  /\ pc = [c \in Call |-> "idle"]
  /\ local = [c \in Call |-> None]
  /\ stale = {}
  /\ reply = [c \in Call |-> None]

(* The key that a call's server drew when it started.                      *)
OwnKey(c) == <<ServerOf[c], starts[ServerOf[c]]>>

Await(c, label, held) ==
  /\ pc[c] = "idle"
  /\ pc' = [pc EXCEPT ![c] = label]
  /\ local' = [local EXCEPT ![c] = held]

Resume(c, label) ==
  /\ pc[c] = label
  /\ pc' = [pc EXCEPT ![c] = "done"]
  /\ local' = [local EXCEPT ![c] = None]

-----------------------------------------------------------------------------
(* The unique index on external_id refuses a second registration.          *)
RegisterAgent(a) ==
  /\ agents[a] = None
  /\ agents' = [agents EXCEPT ![a] =
       [status |-> "active", fields |-> [f \in Field |-> None]]]
  /\ UNCHANGED <<tokens, starts, pc, local, stale, reply>>

(* What resolveAgent reads before the await is only the id.                *)
DeactivateAgent(a) ==
  /\ agents[a] # None
  /\ agents' = [agents EXCEPT ![a].status = "inactive"]
  /\ UNCHANGED <<tokens, starts, pc, local, stale, reply>>

UpdateAgentMetadata(c, a, given) ==
  /\ agents[a] # None
  /\ Await(c, "updating", [agent |-> a, given |-> given, read |-> agents[a]])
  /\ UNCHANGED <<agents, tokens, starts, stale, reply>>

(* Fields that are not given are written as they were read.                *)
Merged(c) ==
  [f \in Field |-> IF f \in local[c].given THEN c ELSE local[c].read.fields[f]]

(* Mutant: the whole row is written as it was read.                        *)
UpdatedWhole(c) == [local[c].read EXCEPT !.fields = Merged(c)]

(* The UPDATE leaves the status alone.                                     *)
Updated(c) == [agents[local[c].agent] EXCEPT !.fields = Merged(c)]

WriteMetadata(c) ==
  LET a == local[c].agent IN
  /\ Resume(c, "updating")
  /\ agents' = [agents EXCEPT ![a] = Updated(c)]
  /\ stale' = (stale \cup {d \in Call : pc[d] = "updating" /\ local[d].agent = a}) \ {c}
  /\ UNCHANGED <<tokens, starts, reply>>

-----------------------------------------------------------------------------
(* The keys that there are so far.                                         *)
KnownKey == Agent \cup {k \in ServiceKey : k[2] <= starts[k[1]]}

(* Mutant: the token does not say which service key signed it.             *)
SignedUnpinned(c, issuer, secret, pinned) ==
  [issuer |-> IF issuer = None THEN Service ELSE issuer,
   issuerPublicKey |-> IF issuer = None THEN None ELSE pinned,
   signature |-> IF secret = None THEN OwnKey(c) ELSE secret,
   live |-> TRUE,
   plain |-> issuer = None /\ secret = None,
   brought |-> issuer # None /\ pinned # None]

(* The token issued for an issuer, a secret and a public key among the     *)
(* constraints, each of which the input may leave out; the service puts    *)
(* its own public key there only where the input names no issuer.          *)
Signed(c, issuer, secret, pinned) ==
  [issuer |-> IF issuer = None THEN Service ELSE issuer,
   issuerPublicKey |-> IF issuer = None THEN OwnKey(c) ELSE pinned,
   signature |-> IF secret = None THEN OwnKey(c) ELSE secret,
   live |-> TRUE,
   plain |-> issuer = None /\ secret = None,
   brought |-> issuer # None /\ pinned # None]

IssueCapabilityToken(c, issuer, secret, pinned) ==
  /\ Await(c, "signing", Signed(c, issuer, secret, pinned))
  /\ UNCHANGED <<agents, tokens, starts, stale, reply>>

InsertToken(c) ==
  /\ Resume(c, "signing")
  /\ tokens' = [tokens EXCEPT ![c] = local[c]]
  /\ UNCHANGED <<agents, starts, stale, reply>>

(* revokeCapabilityToken, or expiresAt passes.                             *)
EndToken(t) ==
  /\ tokens[t] # None
  /\ tokens' = [tokens EXCEPT ![t].live = FALSE]
  /\ UNCHANGED <<agents, starts, pc, local, stale, reply>>

(* Mutant: the service answers for issuers that have no row.               *)
IssuerKeyOrOwn(c, token) ==
  IF token.issuerPublicKey # None THEN token.issuerPublicKey
  ELSE IF token.issuer # Service /\ agents[token.issuer] # None THEN token.issuer
  ELSE OwnKey(c)

(* getIssuerPublicKey as the call's server answers it.                     *)
IssuerKey(c, token) ==
  IF token.issuer = Service
    THEN IF token.issuerPublicKey # None THEN token.issuerPublicKey ELSE OwnKey(c)
  ELSE IF agents[token.issuer] # None THEN token.issuer ELSE None

Answer(c, t, valid) == reply' = [reply EXCEPT ![c] = [token |-> t, valid |-> valid]]

(* verifyCapabilityToken without a key to try, or of a token that ended.   *)
RefuseToken(c, t) ==
  /\ pc[c] = "idle" /\ tokens[t] # None
  /\ ~ tokens[t].live \/ IssuerKey(c, tokens[t]) = None
  /\ pc' = [pc EXCEPT ![c] = "done"]
  /\ Answer(c, t, FALSE)
  /\ UNCHANGED <<agents, tokens, starts, local, stale>>

VerifyCapabilityToken(c, t) ==
  /\ tokens[t] # None /\ tokens[t].live
  /\ IssuerKey(c, tokens[t]) # None
  /\ Await(c, "verifying", [token |-> t, key |-> IssuerKey(c, tokens[t])])
  /\ UNCHANGED <<agents, tokens, starts, stale, reply>>

VerifySignature(c) ==
  LET t == local[c].token IN
  /\ Resume(c, "verifying")
  /\ Answer(c, t, tokens[t].signature = local[c].key)
  /\ UNCHANGED <<agents, tokens, starts, stale>>

-----------------------------------------------------------------------------
Drop(ended, label) ==
  /\ pc' = [c \in Call |-> IF c \in ended THEN label ELSE pc[c]]
  /\ local' = [c \in Call |-> IF c \in ended THEN None ELSE local[c]]
  /\ stale' = stale \ ended

(* An INSERT or UPDATE throws.                                             *)
WriteThrows(c) ==
  /\ pc[c] \in {"updating", "signing"}
  /\ Drop({c}, "thrown")
  /\ UNCHANGED <<agents, tokens, starts, reply>>

(* A server ends and is started again, with a new key.                     *)
Restart(s) ==
  /\ starts[s] < MaxStarts
  /\ starts' = [starts EXCEPT ![s] = @ + 1]
  /\ Drop({c \in Call : ServerOf[c] = s /\ pc[c] \in Awaiting}, "lost")
  /\ UNCHANGED <<agents, tokens, reply>>

Next ==
  \/ \E a \in Agent : RegisterAgent(a) \/ DeactivateAgent(a)
  \/ \E c \in Call :
       \/ \E a \in Agent, given \in SUBSET Field : UpdateAgentMetadata(c, a, given)
       \/ \E issuer \in Agent \cup {Service, None}, secret \in Agent \cup {None},
             pinned \in (PinnedKey \cap KnownKey) \cup {None} :
            IssueCapabilityToken(c, issuer, secret, pinned)
       \/ \E t \in Call : VerifyCapabilityToken(c, t) \/ RefuseToken(c, t)
       \/ WriteMetadata(c) \/ InsertToken(c) \/ VerifySignature(c) \/ WriteThrows(c)
  \/ \E t \in Call : EndToken(t)
  \/ \E s \in Server : Restart(s)

Spec == Init /\ [][Next]_vars

-----------------------------------------------------------------------------
(* What a call holds while it awaits.                                      *)
Holds(c) ==
  /\ pc[c] = "updating" => local[c] \in [agent : Agent, given : SUBSET Field, read : Row]
  /\ pc[c] = "signing" => local[c] \in Token
  /\ pc[c] = "verifying" => local[c] \in [token : Call, key : Key]
  /\ pc[c] \notin Awaiting => local[c] = None

(* Every variable holds a value of its kind.                               *)
TypeOK ==
  /\ agents \in [Agent -> Row \cup {None}]
  /\ tokens \in [Call -> Token \cup {None}]
  /\ starts \in [Server -> 1 .. MaxStarts]
  /\ pc \in [Call -> Awaiting \cup {"idle", "done", "thrown", "lost"}]
  /\ DOMAIN local = Call /\ \A c \in Call : Holds(c)
  /\ stale \subseteq {c \in Call : pc[c] = "updating"}
  /\ reply \in [Call -> [token : Call, valid : BOOLEAN] \cup {None}]

(* tests/integration.test.ts:115 "keeps service-issued capability tokens   *)
(* verifiable across restarts": a token issued by the service verifies     *)
(* until it is revoked or expires, whichever server is asked and however   *)
(* often the servers have drawn new keys.                                  *)
ServiceTokensHold ==
  \A c \in Call :
    (reply[c] # None /\ ~ reply[c].valid /\ tokens[reply[c].token].plain)
      => ~ tokens[reply[c].token].live

(* Whose signature a token that verifies bears: of a token that names an   *)
(* agent, that agent's, who is registered, whatever key the request put    *)
(* among the constraints; of one that names the service, a process of the  *)
(* service, except that a request which names the service and brings a key *)
(* of its own is believed: such a token bears the signature of that key.   *)
SignedByIssuer ==
  \A c \in Call : reply[c] # None /\ reply[c].valid =>
    LET token == tokens[reply[c].token] IN
    IF token.issuer # Service
      THEN token.signature = token.issuer /\ agents[token.issuer] # None
    ELSE IF token.brought THEN token.signature = token.issuerPublicKey
    ELSE token.signature \in ServiceKey

(* Nothing brings a deactivated agent back, and a field changes only to    *)
(* the value that the caller of an update gave, or when that update read   *)
(* the row before another one wrote it.                                    *)
UpdatesKeepTheRest ==
  [][\A a \in Agent : agents[a] # None =>
       /\ agents'[a] # None
       /\ agents[a].status = "inactive" => agents'[a].status = "inactive"
       /\ \A f \in Field : agents'[a].fields[f] # agents[a].fields[f] =>
            \E c \in Call :
              /\ pc[c] = "updating" /\ local[c].agent = a
              /\ \/ f \in local[c].given /\ agents'[a].fields[f] = c
                 \/ c \in stale]_vars
=============================================================================
