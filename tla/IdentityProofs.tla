--------------------------- MODULE IdentityProofs ---------------------------
(***************************************************************************)
(* Theorems about Identity, for every set of agents, fields, calls and     *)
(* servers, and every number of restarts.                                  *)
(***************************************************************************)
EXTENDS Identity, TLAPS

(* A token that the service issued of its own accord names the key it was  *)
(* signed with; one that names the service names a key of the service, or  *)
(* none, unless its request brought the key.                               *)
Pinned(token) ==
  /\ token.plain => token.issuer = Service /\ token.issuerPublicKey = token.signature
  /\ token.brought => token.issuerPublicKey # None
  /\ token.issuer = Service /\ ~ token.brought =>
       token.issuerPublicKey \in ServiceKey \cup {None}

(* What SignedByIssuer says of a token that verifies.                      *)
Borne(token) ==
  IF token.issuer # Service
    THEN token.signature = token.issuer /\ agents[token.issuer] # None
  ELSE IF token.brought THEN token.signature = token.issuerPublicKey
  ELSE token.signature \in ServiceKey

TokensPinned ==
  /\ \A t \in Call : tokens[t] # None => Pinned(tokens[t])
  /\ \A c \in Call : pc[c] = "signing" => Pinned(local[c])

(* The call that drew a token's id has inserted it and is done.            *)
TokensInserted == \A t \in Call : tokens[t] # None => pc[t] = "done"

(* A verification in progress tries a key of the token's issuer.           *)
Tries(c) ==
  LET token == tokens[local[c].token] IN
  /\ token # None
  /\ IF token.issuer = Service
       THEN /\ token.brought \/ local[c].key \in ServiceKey
            /\ token.issuerPublicKey \in {None, local[c].key}
       ELSE local[c].key = token.issuer /\ agents[token.issuer] # None

TriesIssuerKey == \A c \in Call : pc[c] = "verifying" => Tries(c)

(* An update in progress is of an agent there is.                          *)
UpdatesNameAgents ==
  \A c \in Call : pc[c] = "updating" => agents[local[c].agent] # None

(* Answers are about tokens there are.                                     *)
AnswersNameTokens == \A c \in Call : reply[c] # None => tokens[reply[c].token] # None

(* The inductive invariant.                                                *)
IInv ==
  /\ TypeOK
  /\ TokensPinned
  /\ TokensInserted
  /\ TriesIssuerKey
  /\ UpdatesNameAgents
  /\ AnswersNameTokens
  /\ ServiceTokensHold
  /\ SignedByIssuer

-----------------------------------------------------------------------------
(* The key a server drew last is one of the service.                       *)
LEMMA OwnKeyType ==
  ASSUME TypeOK, NEW c \in Call
  PROVE  OwnKey(c) \in ServiceKey
  BY IdentityAssumption DEF TypeOK, OwnKey, ServiceKey

(* A token that is issued has the shape of a row and names its key.        *)
LEMMA SignedType ==
  ASSUME TypeOK, NEW c \in Call, NEW issuer \in Agent \cup {Service, None},
         NEW secret \in Agent \cup {None}, NEW pinned \in Key \cup {None}
  PROVE  /\ Signed(c, issuer, secret, pinned) \in Token
         /\ Pinned(Signed(c, issuer, secret, pinned))
  <1> DEFINE token == Signed(c, issuer, secret, pinned)
  <1>1. OwnKey(c) \in ServiceKey /\ OwnKey(c) # None
    BY OwnKeyType, IdentityAssumption DEF Key
  <1>2. token \in Token
    BY <1>1 DEF Signed, Token, Key
  <1>3. token.brought => token.issuerPublicKey # None
    BY DEF Signed
  <1>4. token.plain => token.issuer = Service /\ token.issuerPublicKey = token.signature
    BY <1>1 DEF Signed
  <1>5. ~ token.brought => token.issuerPublicKey \in ServiceKey \cup {None}
    BY <1>1 DEF Signed
  <1> QED
    BY <1>2, <1>3, <1>4, <1>5 DEF Pinned

(* A call that begins to await something of the right kind, and one that   *)
(* has awaited it, keep the types of what calls hold.                      *)
LEMMA AwaitTypes ==
  ASSUME TypeOK, NEW c \in Call, NEW label \in Awaiting, NEW held,
         Await(c, label, held), UNCHANGED stale,
         label = "updating" => held \in [agent : Agent, given : SUBSET Field, read : Row],
         label = "signing" => held \in Token,
         label = "verifying" => held \in [token : Call, key : Key]
  PROVE  /\ pc' \in [Call -> Awaiting \cup {"idle", "done", "thrown", "lost"}]
         /\ DOMAIN local' = Call /\ \A d \in Call : Holds(d)'
         /\ stale' \subseteq {d \in Call : pc'[d] = "updating"}
         /\ pc'[c] = label /\ local'[c] = held
         /\ \A d \in Call \ {c} : pc'[d] = pc[d] /\ local'[d] = local[d]
  <1>1. pc'[c] = label /\ local'[c] = held
    BY DEF Await, TypeOK
  <1>2. \A d \in Call \ {c} : pc'[d] = pc[d] /\ local'[d] = local[d]
    BY DEF Await, TypeOK
  <1>3. pc' \in [Call -> Awaiting \cup {"idle", "done", "thrown", "lost"}]
    BY DEF Await, TypeOK
  <1>4. ASSUME NEW d \in Call PROVE Holds(d)'
    <2>1. CASE d = c
      BY <2>1, <1>1 DEF Holds, Awaiting
    <2>2. CASE d # c
      BY <2>2, <1>2 DEF TypeOK, Holds
    <2> QED
      BY <2>1, <2>2
  <1>5. DOMAIN local' = Call
    BY DEF Await, TypeOK
  <1>6. stale' \subseteq {d \in Call : pc'[d] = "updating"}
    BY <1>2 DEF Await, TypeOK
  <1> QED
    BY <1>1, <1>2, <1>3, <1>4, <1>5, <1>6

LEMMA ResumeTypes ==
  ASSUME TypeOK, NEW c \in Call, NEW label \in Awaiting, Resume(c, label)
  PROVE  /\ pc' \in [Call -> Awaiting \cup {"idle", "done", "thrown", "lost"}]
         /\ DOMAIN local' = Call /\ \A d \in Call : Holds(d)'
         /\ pc'[c] = "done" /\ local'[c] = None
         /\ \A d \in Call \ {c} : pc'[d] = pc[d] /\ local'[d] = local[d]
  <1>1. pc'[c] = "done" /\ local'[c] = None
    BY DEF Resume, TypeOK
  <1>2. \A d \in Call \ {c} : pc'[d] = pc[d] /\ local'[d] = local[d]
    BY DEF Resume, TypeOK
  <1>3. pc' \in [Call -> Awaiting \cup {"idle", "done", "thrown", "lost"}]
    BY DEF Resume, TypeOK
  <1>4. ASSUME NEW d \in Call PROVE Holds(d)'
    <2>1. CASE d = c
      BY <2>1, <1>1 DEF Holds, Awaiting
    <2>2. CASE d # c
      BY <2>2, <1>2 DEF TypeOK, Holds
    <2> QED
      BY <2>1, <2>2
  <1>5. DOMAIN local' = Call
    BY DEF Resume, TypeOK
  <1> QED
    BY <1>1, <1>2, <1>3, <1>4, <1>5

(* An update whose row no other one has written since holds it as it is.   *)
ReadsFresh ==
  \A c \in Call : pc[c] = "updating" /\ c \notin stale =>
    local[c].read.fields = agents[local[c].agent].fields

(* The initial state satisfies the invariant.                              *)
LEMMA InitIInv == Init => IInv
  BY IdentityAssumption
  DEF Init, IInv, TypeOK, Holds, Awaiting, TokensPinned, TokensInserted, TriesIssuerKey,
      UpdatesNameAgents, AnswersNameTokens, ServiceTokensHold, SignedByIssuer

(* A step that leaves tokens and answers alone and keeps agents registered *)
(* preserves the invariant, if what calls newly hold is as it says.        *)
LEMMA QuietStep ==
  ASSUME IInv, TypeOK', UNCHANGED <<tokens, reply>>,
         \A a \in Agent : agents[a] # None => agents'[a] # None,
         \A c \in Call : pc[c] = "done" => pc'[c] = "done",
         \A c \in Call : pc'[c] = "updating" => agents[local'[c].agent] # None,
         \A c \in Call : pc'[c] = "signing" => Pinned(local'[c]),
         \A c \in Call : pc'[c] = "verifying" =>
           Tries(c)' \/ (pc[c] = "verifying" /\ local'[c] = local[c])
  PROVE  IInv'
  <1>1. TokensPinned'
    BY DEF IInv, TokensPinned
  <1>2. TriesIssuerKey'
    <2> SUFFICES ASSUME NEW c \in Call, pc[c] = "verifying", local'[c] = local[c]
                 PROVE  Tries(c)'
      BY DEF TriesIssuerKey
    <2> DEFINE token == tokens[local[c].token]
    <2>1. local[c].token \in Call
      BY DEF IInv, TypeOK, Holds
    <2>2. token \in Token
      BY <2>1 DEF IInv, TypeOK, TriesIssuerKey, Tries
    <2> QED
      BY <2>1, <2>2 DEF IInv, TriesIssuerKey, Tries, Token
  <1>3. AnswersNameTokens' /\ ServiceTokensHold'
    BY DEF IInv, AnswersNameTokens, ServiceTokensHold
  <1>4. SignedByIssuer'
    <2> SUFFICES ASSUME NEW c \in Call, reply[c] # None, reply[c].valid
                 PROVE  Borne(tokens[reply[c].token])'
      BY DEF SignedByIssuer, Borne
    <2> DEFINE token == tokens[reply[c].token]
    <2>1. token \in Token
      BY DEF IInv, TypeOK, AnswersNameTokens
    <2> QED
      BY <2>1 DEF IInv, SignedByIssuer, Borne, Token
  <1>5. UpdatesNameAgents'
    BY DEF UpdatesNameAgents, TypeOK, Holds
  <1>6. TokensInserted'
    BY DEF IInv, TokensInserted
  <1> QED
    BY <1>1, <1>2, <1>3, <1>4, <1>5, <1>6 DEF IInv

(* Registrations, deactivations and the updates of agents.                 *)
LEMMA AgentStep ==
  ASSUME IInv,
         \/ \E a \in Agent : RegisterAgent(a) \/ DeactivateAgent(a)
         \/ \E c \in Call, a \in Agent, given \in SUBSET Field :
              UpdateAgentMetadata(c, a, given)
         \/ \E c \in Call : WriteMetadata(c)
  PROVE  IInv'
  <1>1. ASSUME NEW a \in Agent, RegisterAgent(a) PROVE IInv'
    <2>1. TypeOK'
      BY <1>1 DEF IInv, TypeOK, Holds, RegisterAgent, Row, Fields
    <2>2. agents'[a] # None
      BY <1>1, <2>1, IdentityAssumption DEF IInv, TypeOK, RegisterAgent, Row, Fields
    <2> QED
      BY <1>1, <2>1, <2>2, QuietStep DEF IInv, TypeOK, TokensPinned, UpdatesNameAgents, RegisterAgent
  <1>2. ASSUME NEW a \in Agent, DeactivateAgent(a) PROVE IInv'
    <2>0. agents[a] \in Row
      BY <1>2 DEF IInv, TypeOK, DeactivateAgent
    <2>1. [agents[a] EXCEPT !.status = "inactive"] \in Row
      BY <2>0 DEF Row
    <2>2. TypeOK'
      BY <1>2, <2>1 DEF IInv, TypeOK, Holds, DeactivateAgent
    <2>3. agents'[a] # None
      BY <1>2, <2>1, IdentityAssumption DEF IInv, TypeOK, DeactivateAgent
    <2> QED
      BY <1>2, <2>2, <2>3, QuietStep DEF IInv, TypeOK, TokensPinned, UpdatesNameAgents, DeactivateAgent
  <1>3. ASSUME NEW c \in Call, NEW a \in Agent, NEW given \in SUBSET Field,
               UpdateAgentMetadata(c, a, given)
        PROVE  IInv'
    <2> DEFINE held == [agent |-> a, given |-> given, read |-> agents[a]]
    <2>0. agents[a] \in Row /\ Await(c, "updating", held)
      BY <1>3 DEF IInv, TypeOK, UpdateAgentMetadata
    <2>1. held \in [agent : Agent, given : SUBSET Field, read : Row]
      BY <2>0
    <2>a. held.agent = a
      OBVIOUS
    <2> HIDE DEF held
    <2>2. /\ pc' \in [Call -> Awaiting \cup {"idle", "done", "thrown", "lost"}]
          /\ DOMAIN local' = Call /\ \A d \in Call : Holds(d)'
          /\ stale' \subseteq {d \in Call : pc'[d] = "updating"}
          /\ pc'[c] = "updating" /\ local'[c].agent = a
          /\ \A d \in Call \ {c} : pc'[d] = pc[d] /\ local'[d] = local[d]
      BY <1>3, <2>0, <2>1, <2>a, AwaitTypes DEF IInv, UpdateAgentMetadata, Awaiting
    <2>3. TypeOK'
      BY <1>3, <2>2 DEF IInv, TypeOK, UpdateAgentMetadata
    <2> QED
      BY <1>3, <2>2, <2>3, QuietStep DEF IInv, TokensPinned, UpdatesNameAgents, UpdateAgentMetadata, Await
  <1>4. ASSUME NEW c \in Call, WriteMetadata(c) PROVE IInv'
    <2> DEFINE a == local[c].agent
    <2>1. pc[c] = "updating" /\ Resume(c, "updating")
      BY <1>4 DEF WriteMetadata, Resume
    <2>2. local[c] \in [agent : Agent, given : SUBSET Field, read : Row]
      BY <2>1 DEF IInv, TypeOK, Holds
    <2>3. Merged(c) \in Fields
      BY <2>2 DEF Merged, Fields, Row
    <2>4. agents[a] \in Row
      BY <2>1, <2>2 DEF IInv, TypeOK, UpdatesNameAgents
    <2>5. Updated(c) \in Row
      BY <2>3, <2>4 DEF Updated, Row
    <2>6. /\ pc' \in [Call -> Awaiting \cup {"idle", "done", "thrown", "lost"}]
          /\ DOMAIN local' = Call /\ \A d \in Call : Holds(d)'
          /\ pc'[c] = "done"
          /\ \A d \in Call \ {c} : pc'[d] = pc[d] /\ local'[d] = local[d]
      BY <2>1, ResumeTypes DEF IInv, Awaiting
    <2>7. stale' \subseteq {d \in Call : pc'[d] = "updating"}
      BY <1>4, <2>6 DEF IInv, TypeOK, WriteMetadata
    <2>8. TypeOK'
      BY <1>4, <2>5, <2>6, <2>7 DEF IInv, TypeOK, WriteMetadata
    <2>9. \A b \in Agent : agents[b] # None => agents'[b] # None
      BY <1>4, <2>5, IdentityAssumption DEF IInv, TypeOK, WriteMetadata
    <2> QED
      BY <1>4, <2>6, <2>8, <2>9, QuietStep DEF IInv, TokensPinned, UpdatesNameAgents, WriteMetadata
  <1> QED
    BY <1>1, <1>2, <1>3, <1>4
(* Signing begins: what is signed names its key.                           *)
LEMMA IssueStep ==
  ASSUME IInv, NEW c \in Call, NEW issuer \in Agent \cup {Service, None},
         NEW secret \in Agent \cup {None}, NEW pinned \in Key \cup {None},
         IssueCapabilityToken(c, issuer, secret, pinned)
  PROVE  IInv'
  <1> DEFINE held == Signed(c, issuer, secret, pinned)
  <1>1. held \in Token /\ Pinned(held)
    BY SignedType DEF IInv
  <1> HIDE DEF held
  <1>2. /\ pc' \in [Call -> Awaiting \cup {"idle", "done", "thrown", "lost"}]
        /\ DOMAIN local' = Call /\ \A d \in Call : Holds(d)'
        /\ stale' \subseteq {d \in Call : pc'[d] = "updating"}
        /\ pc'[c] = "signing" /\ local'[c] = held
        /\ \A d \in Call \ {c} : pc'[d] = pc[d] /\ local'[d] = local[d]
    BY <1>1, AwaitTypes DEF IInv, IssueCapabilityToken, Awaiting, held
  <1>3. TypeOK'
    BY <1>2 DEF IInv, TypeOK, IssueCapabilityToken
  <1> QED
    BY <1>1, <1>2, <1>3, QuietStep
    DEF IInv, TokensPinned, UpdatesNameAgents, IssueCapabilityToken, Await

(* A verification begins with a key of the issuer.                         *)
LEMMA VerifyStep ==
  ASSUME IInv, NEW c \in Call, NEW t \in Call, VerifyCapabilityToken(c, t)
  PROVE  IInv'
  <1> DEFINE held == [token |-> t, key |-> IssuerKey(c, tokens[t])]
  <1>1. tokens[t] \in Token
    BY DEF IInv, TypeOK, VerifyCapabilityToken
  <1>2. /\ IssuerKey(c, tokens[t]) \in Key
        /\ IF tokens[t].issuer = Service
             THEN /\ tokens[t].brought \/ IssuerKey(c, tokens[t]) \in ServiceKey
                  /\ tokens[t].issuerPublicKey \in {None, IssuerKey(c, tokens[t])}
             ELSE IssuerKey(c, tokens[t]) = tokens[t].issuer /\ agents[tokens[t].issuer] # None
    BY <1>1, OwnKeyType DEF IInv, TokensPinned, Pinned, VerifyCapabilityToken,
       IssuerKey, Token, Key
  <1>3. held \in [token : Call, key : Key] /\ held.token = t
        /\ held.key = IssuerKey(c, tokens[t])
    BY <1>2
  <1> HIDE DEF held
  <1>4. /\ pc' \in [Call -> Awaiting \cup {"idle", "done", "thrown", "lost"}]
        /\ DOMAIN local' = Call /\ \A d \in Call : Holds(d)'
        /\ stale' \subseteq {d \in Call : pc'[d] = "updating"}
        /\ pc'[c] = "verifying" /\ local'[c] = held
        /\ \A d \in Call \ {c} : pc'[d] = pc[d] /\ local'[d] = local[d]
    BY <1>3, AwaitTypes DEF IInv, VerifyCapabilityToken, Awaiting, held
  <1>5. TypeOK'
    BY <1>4 DEF IInv, TypeOK, VerifyCapabilityToken
  <1>6. Tries(c)'
    BY <1>1, <1>2, <1>3, <1>4 DEF Tries, VerifyCapabilityToken
  <1> QED
    BY <1>4, <1>5, <1>6, QuietStep
    DEF IInv, TokensPinned, UpdatesNameAgents, VerifyCapabilityToken, Await

(* Calls end without a result.                                             *)
LEMMA DropStep ==
  ASSUME IInv, NEW ended \in SUBSET Call, NEW label \in {"thrown", "lost"},
         Drop(ended, label), \A c \in ended : pc[c] \in Awaiting,
         starts' \in [Server -> 1 .. MaxStarts],
         UNCHANGED <<agents, tokens, reply>>
  PROVE  IInv'
  <1>1. \A c \in Call : c \in ended => pc'[c] = label /\ local'[c] = None
    BY DEF Drop
  <1>2. \A c \in Call \ ended : pc'[c] = pc[c] /\ local'[c] = local[c]
    BY DEF Drop
  <1>3. ASSUME NEW d \in Call PROVE Holds(d)'
    <2>1. CASE d \in ended
      BY <2>1, <1>1 DEF Holds, Awaiting
    <2>2. CASE d \notin ended
      BY <2>2, <1>2 DEF IInv, TypeOK, Holds
    <2> QED
      BY <2>1, <2>2
  <1>4. TypeOK'
    BY <1>1, <1>2, <1>3 DEF IInv, TypeOK, Drop
  <1> QED
    BY <1>1, <1>2, <1>4, QuietStep DEF IInv, TokensPinned, UpdatesNameAgents, Awaiting
(* A verification answers: yes only if the issuer signed, no about a plain *)
(* token only if it ended.                                                 *)
LEMMA AnswerStep ==
  ASSUME IInv, TypeOK', NEW c \in Call, NEW t \in Call, NEW valid \in BOOLEAN,
         Answer(c, t, valid), UNCHANGED <<agents, tokens>>, tokens[t] # None,
         valid => Borne(tokens[t]),
         (~ valid /\ tokens[t].plain) => ~ tokens[t].live,
         pc'[c] = "done",
         \A d \in Call \ {c} : pc'[d] = pc[d] /\ local'[d] = local[d]
  PROVE  IInv'
  <1>1. reply'[c] = [token |-> t, valid |-> valid]
    BY DEF Answer, IInv, TypeOK
  <1>2. \A d \in Call \ {c} : reply'[d] = reply[d]
    BY DEF Answer, IInv, TypeOK
  <1>3. TokensPinned' /\ TokensInserted' /\ UpdatesNameAgents'
    BY DEF IInv, TokensPinned, TokensInserted, UpdatesNameAgents
  <1>4. TriesIssuerKey'
    BY DEF IInv, TriesIssuerKey, Tries
  <1>5. AnswersNameTokens'
    BY <1>1, <1>2 DEF IInv, AnswersNameTokens
  <1>6. ServiceTokensHold'
    BY <1>1, <1>2 DEF IInv, ServiceTokensHold
  <1>7. SignedByIssuer'
    BY <1>1, <1>2 DEF IInv, SignedByIssuer, Borne
  <1> QED
    BY <1>3, <1>4, <1>5, <1>6, <1>7 DEF IInv

LEMMA RefuseStep ==
  ASSUME IInv, NEW c \in Call, NEW t \in Call, RefuseToken(c, t)
  PROVE  IInv'
  <1>1. tokens[t] \in Token /\ Pinned(tokens[t])
    BY DEF IInv, TypeOK, TokensPinned, RefuseToken
  <1>2. tokens[t].plain => IssuerKey(c, tokens[t]) # None
    BY <1>1, OwnKeyType, IdentityAssumption DEF IInv, IssuerKey, Pinned, Token, Key
  <1>3. pc'[c] = "done" /\ \A d \in Call \ {c} : pc'[d] = pc[d] /\ local'[d] = local[d]
    BY DEF IInv, TypeOK, RefuseToken
  <1>4. ASSUME NEW d \in Call PROVE Holds(d)'
    BY <1>3 DEF IInv, TypeOK, Holds, Awaiting, RefuseToken
  <1>5. TypeOK'
    BY <1>3, <1>4 DEF IInv, TypeOK, RefuseToken, Answer
  <1> QED
    BY <1>1, <1>2, <1>3, <1>5, AnswerStep DEF RefuseToken

LEMMA VerifiedStep ==
  ASSUME IInv, NEW c \in Call, VerifySignature(c)
  PROVE  IInv'
  <1> DEFINE t == local[c].token
             valid == tokens[t].signature = local[c].key
  <1>1. pc[c] = "verifying" /\ Resume(c, "verifying")
    BY DEF VerifySignature, Resume
  <1>2. t \in Call /\ local[c].key \in Key
    BY <1>1 DEF IInv, TypeOK, Holds
  <1>3. tokens[t] \in Token /\ Pinned(tokens[t]) /\ tokens[t] # None
    BY <1>1, <1>2 DEF IInv, TypeOK, TokensPinned, TriesIssuerKey, Tries
  <1>4. valid => Borne(tokens[t])
    BY <1>1, <1>3 DEF IInv, TriesIssuerKey, Tries, Pinned, Borne
  <1>5. tokens[t].plain => valid
    BY <1>1, <1>3, IdentityAssumption DEF IInv, TriesIssuerKey, Tries, Pinned, Token, Key
  <1>6. /\ pc' \in [Call -> Awaiting \cup {"idle", "done", "thrown", "lost"}]
        /\ DOMAIN local' = Call /\ \A d \in Call : Holds(d)'
        /\ pc'[c] = "done"
        /\ \A d \in Call \ {c} : pc'[d] = pc[d] /\ local'[d] = local[d]
    BY <1>1, ResumeTypes DEF IInv, Awaiting
  <1>7. TypeOK'
    BY <1>1, <1>2, <1>6 DEF IInv, TypeOK, VerifySignature, Answer
  <1>8. Answer(c, t, valid) /\ UNCHANGED <<agents, tokens>>
    BY DEF VerifySignature
  <1> QED
    BY <1>2, <1>3, <1>4, <1>5, <1>6, <1>7, <1>8, AnswerStep

(* A signed token is inserted; nobody has asked about it yet.              *)
LEMMA InsertStep ==
  ASSUME IInv, NEW c \in Call, InsertToken(c)
  PROVE  IInv'
  <1>1. pc[c] = "signing" /\ Resume(c, "signing")
    BY DEF InsertToken, Resume
  <1>2. local[c] \in Token /\ Pinned(local[c]) /\ local[c] # None /\ tokens[c] = None
    BY <1>1, IdentityAssumption DEF IInv, TypeOK, Holds, TokensPinned, TokensInserted
  <1>3. tokens'[c] = local[c] /\ \A t \in Call \ {c} : tokens'[t] = tokens[t]
    BY DEF IInv, TypeOK, InsertToken
  <1>4. /\ pc' \in [Call -> Awaiting \cup {"idle", "done", "thrown", "lost"}]
        /\ DOMAIN local' = Call /\ \A d \in Call : Holds(d)'
        /\ pc'[c] = "done"
        /\ \A d \in Call \ {c} : pc'[d] = pc[d] /\ local'[d] = local[d]
    BY <1>1, ResumeTypes DEF IInv, Awaiting
  <1>5. TypeOK'
    BY <1>1, <1>2, <1>4 DEF IInv, TypeOK, InsertToken
  <1>6. TokensPinned' /\ TokensInserted' /\ UpdatesNameAgents'
    BY <1>2, <1>3, <1>4 DEF IInv, TokensPinned, TokensInserted, UpdatesNameAgents, InsertToken
  <1>7. TriesIssuerKey'
    <2> SUFFICES ASSUME NEW d \in Call, pc'[d] = "verifying" PROVE Tries(d)'
      BY DEF TriesIssuerKey
    <2>1. d # c /\ pc[d] = "verifying" /\ local'[d] = local[d] /\ Tries(d)
      BY <1>4 DEF IInv, TriesIssuerKey
    <2>2. local[d].token \in Call /\ local[d].token # c
      BY <2>1, <1>2 DEF IInv, TypeOK, Holds, Tries
    <2> QED
      BY <2>1, <2>2, <1>3 DEF Tries, InsertToken
  <1>8. ASSUME NEW d \in Call, reply[d] # None
        PROVE  reply[d].token \in Call /\ reply[d].token # c
    BY <1>8, <1>2 DEF IInv, TypeOK, AnswersNameTokens
  <1>9. AnswersNameTokens' /\ ServiceTokensHold' /\ SignedByIssuer'
    BY <1>3, <1>8 DEF IInv, AnswersNameTokens, ServiceTokensHold, SignedByIssuer, InsertToken
  <1> QED
    BY <1>5, <1>6, <1>7, <1>9 DEF IInv

(* A token ends: it only stops to be live.                                 *)
LEMMA EndStep ==
  ASSUME IInv, NEW e \in Call, EndToken(e)
  PROVE  IInv'
  <1>1. tokens[e] \in Token /\ tokens[e] # None
    BY DEF IInv, TypeOK, EndToken
  <1> DEFINE ended == [tokens[e] EXCEPT !.live = FALSE]
  <1>2. /\ ended \in Token /\ ended.issuer = tokens[e].issuer
        /\ ended.issuerPublicKey = tokens[e].issuerPublicKey
        /\ ended.signature = tokens[e].signature
        /\ ended.plain = tokens[e].plain /\ ended.brought = tokens[e].brought
        /\ ~ ended.live
    BY <1>1 DEF Token
  <1> HIDE DEF ended
  <1>3. ended # None
    BY <1>2, IdentityAssumption
  <1>4. tokens'[e] = ended /\ \A t \in Call \ {e} : tokens'[t] = tokens[t]
    BY DEF IInv, TypeOK, EndToken, ended
  <1>5. TypeOK'
    BY <1>2 DEF IInv, TypeOK, EndToken, Holds, ended
  <1>6. TokensPinned' /\ TokensInserted' /\ UpdatesNameAgents'
    BY <1>1, <1>2, <1>4
    DEF IInv, TokensPinned, Pinned, TokensInserted, UpdatesNameAgents, EndToken
  <1>7. \A t \in Call : tokens[t] # None =>
          /\ tokens'[t] # None
          /\ tokens'[t].issuer = tokens[t].issuer
          /\ tokens'[t].issuerPublicKey = tokens[t].issuerPublicKey
          /\ tokens'[t].signature = tokens[t].signature
          /\ tokens'[t].plain = tokens[t].plain
          /\ tokens'[t].brought = tokens[t].brought
          /\ tokens'[t].live => tokens[t].live
    BY <1>2, <1>3, <1>4
  <1>8. TriesIssuerKey'
    <2> SUFFICES ASSUME NEW d \in Call, pc[d] = "verifying" PROVE Tries(d)'
      BY DEF TriesIssuerKey, EndToken
    <2>1. local[d].token \in Call /\ Tries(d)
      BY DEF IInv, TypeOK, Holds, TriesIssuerKey
    <2> QED
      BY <2>1, <1>7 DEF Tries, EndToken
  <1>9. ASSUME NEW d \in Call, reply[d] # None
        PROVE  reply[d].token \in Call /\ tokens[reply[d].token] # None
    BY <1>9 DEF IInv, TypeOK, AnswersNameTokens
  <1>10. AnswersNameTokens'
    BY <1>7, <1>9 DEF AnswersNameTokens, EndToken
  <1>11. ServiceTokensHold'
    BY <1>7, <1>9 DEF IInv, ServiceTokensHold, EndToken
  <1>12. SignedByIssuer'
    BY <1>7, <1>9 DEF IInv, SignedByIssuer, EndToken
  <1> QED
    BY <1>5, <1>6, <1>8, <1>10, <1>11, <1>12 DEF IInv

-----------------------------------------------------------------------------
(* Every step preserves the invariant.                                     *)
LEMMA NextIInv == IInv /\ [Next]_vars => IInv'
  <1> SUFFICES ASSUME IInv, [Next]_vars PROVE IInv'
    OBVIOUS
  <1>1. ASSUME NEW a \in Agent, RegisterAgent(a) \/ DeactivateAgent(a) PROVE IInv'
    BY <1>1, AgentStep
  <1>2. ASSUME NEW c \in Call, NEW a \in Agent, NEW given \in SUBSET Field,
               UpdateAgentMetadata(c, a, given)
        PROVE  IInv'
    BY <1>2, AgentStep
  <1>3. ASSUME NEW c \in Call, NEW issuer \in Agent \cup {Service, None},
               NEW secret \in Agent \cup {None},
               NEW pinned \in (PinnedKey \cap KnownKey) \cup {None},
               IssueCapabilityToken(c, issuer, secret, pinned)
        PROVE  IInv'
    BY <1>3, IssueStep, IdentityAssumption
  <1>4. ASSUME NEW c \in Call, NEW t \in Call,
               VerifyCapabilityToken(c, t) \/ RefuseToken(c, t)
        PROVE  IInv'
    BY <1>4, VerifyStep, RefuseStep
  <1>5. ASSUME NEW c \in Call, WriteMetadata(c) \/ InsertToken(c) \/ VerifySignature(c)
        PROVE  IInv'
    BY <1>5, AgentStep, InsertStep, VerifiedStep
  <1>6. ASSUME NEW c \in Call, WriteThrows(c) PROVE IInv'
    BY <1>6, DropStep DEF WriteThrows, IInv, TypeOK, Awaiting
  <1>7. ASSUME NEW t \in Call, EndToken(t) PROVE IInv'
    BY <1>7, EndStep
  <1>8. ASSUME NEW s \in Server, Restart(s) PROVE IInv'
    <2>1. starts' \in [Server -> 1 .. MaxStarts]
      BY <1>8, IdentityAssumption DEF Restart, IInv, TypeOK
    <2> QED
      BY <1>8, <2>1, DropStep DEF Restart
  <1>9. CASE UNCHANGED vars
    BY <1>9 DEF vars, IInv, TypeOK, Holds, TokensPinned, Pinned, TokensInserted,
                TriesIssuerKey, Tries, UpdatesNameAgents, AnswersNameTokens,
                ServiceTokensHold, SignedByIssuer
  <1> QED
    BY <1>1, <1>2, <1>3, <1>4, <1>5, <1>6, <1>7, <1>8, <1>9 DEF Next

(* The inductive invariant holds in every reachable state of Identity.     *)
THEOREM Invariant == Spec => []IInv
  BY InitIInv, NextIInv, PTL DEF Spec

(* Every variable of Identity keeps its type.                              *)
THEOREM TypeCorrect == Spec => []TypeOK
  <1>1. IInv => TypeOK
    BY DEF IInv
  <1> QED
    BY <1>1, Invariant, PTL

(* A token issued by the service is refused only once it was revoked or    *)
(* has expired, on any server and after any restarts.                      *)
THEOREM ServiceTokensVerify == Spec => []ServiceTokensHold
  <1>1. IInv => ServiceTokensHold
    BY DEF IInv
  <1> QED
    BY <1>1, Invariant, PTL

(* A token verifies only if the agent it names signed it, or a process of  *)
(* the service that it names, or the key that its request brought.         *)
THEOREM IssuersSign == Spec => []SignedByIssuer
  <1>1. IInv => SignedByIssuer
    BY DEF IInv
  <1> QED
    BY <1>1, Invariant, PTL

(* What an update read stays fresh until another update of the agent.      *)
LEMMA ReadsFreshStep ==
  ASSUME IInv, ReadsFresh, [Next]_vars
  PROVE  ReadsFresh'
  <1>0. \A c \in Call : pc[c] = "updating" =>
          local[c].agent \in Agent /\ agents[local[c].agent] \in Row
                                  /\ agents[local[c].agent] # None
    BY DEF IInv, TypeOK, Holds, UpdatesNameAgents
  <1>1. ASSUME NEW a \in Agent, RegisterAgent(a) PROVE ReadsFresh'
    BY <1>0, <1>1 DEF IInv, TypeOK, ReadsFresh, RegisterAgent
  <1>2. ASSUME NEW a \in Agent, DeactivateAgent(a) PROVE ReadsFresh'
    <2>1. agents[a] \in Row
      BY <1>2 DEF IInv, TypeOK, DeactivateAgent
    <2>2. [agents[a] EXCEPT !.status = "inactive"].fields = agents[a].fields
      BY <2>1 DEF Row
    <2>3. \A b \in Agent : agents'[b].fields = agents[b].fields
      BY <1>2, <2>2 DEF IInv, TypeOK, DeactivateAgent
    <2> QED
      BY <1>0, <1>2, <2>3 DEF ReadsFresh, DeactivateAgent
  <1>3. ASSUME NEW c \in Call, NEW a \in Agent, NEW given \in SUBSET Field,
               UpdateAgentMetadata(c, a, given)
        PROVE  ReadsFresh'
    <2> DEFINE held == [agent |-> a, given |-> given, read |-> agents[a]]
    <2>1. held.agent = a /\ held.read = agents[a]
      OBVIOUS
    <2>2. local'[c] = held
      BY <1>3 DEF IInv, TypeOK, UpdateAgentMetadata, Await
    <2>3. \A d \in Call \ {c} : pc'[d] = pc[d] /\ local'[d] = local[d]
      BY <1>3 DEF IInv, TypeOK, UpdateAgentMetadata, Await
    <2> QED
      BY <1>3, <2>1, <2>2, <2>3 DEF ReadsFresh, UpdateAgentMetadata
  <1>4. ASSUME NEW c \in Call, WriteMetadata(c) PROVE ReadsFresh'
    <2>1. /\ pc[c] = "updating" /\ pc'[c] = "done"
          /\ \A d \in Call \ {c} : pc'[d] = pc[d] /\ local'[d] = local[d]
      BY <1>4 DEF IInv, TypeOK, WriteMetadata, Resume
    <2>2. \A b \in Agent : b # local[c].agent => agents'[b] = agents[b]
      BY <1>4 DEF IInv, TypeOK, WriteMetadata
    <2>3. \A d \in Call \ {c} : pc[d] = "updating" /\ d \notin stale' =>
            d \notin stale /\ local[d].agent # local[c].agent
      BY <1>4 DEF WriteMetadata
    <2> QED
      BY <1>0, <2>1, <2>2, <2>3 DEF ReadsFresh
  <1>5. ASSUME UNCHANGED agents,
               \A c \in Call : pc'[c] = "updating" =>
                 /\ pc[c] = "updating" /\ local'[c] = local[c]
                 /\ c \notin stale' => c \notin stale
        PROVE  ReadsFresh'
    BY <1>5 DEF ReadsFresh
  <1>6. ASSUME NEW c \in Call, NEW issuer \in Agent \cup {Service, None},
               NEW secret \in Agent \cup {None},
               NEW pinned \in (PinnedKey \cap KnownKey) \cup {None},
               IssueCapabilityToken(c, issuer, secret, pinned)
        PROVE  ReadsFresh'
    BY <1>5, <1>6 DEF IInv, TypeOK, IssueCapabilityToken, Await
  <1>7. ASSUME NEW c \in Call, NEW t \in Call,
               VerifyCapabilityToken(c, t) \/ RefuseToken(c, t)
        PROVE  ReadsFresh'
    BY <1>5, <1>7 DEF IInv, TypeOK, VerifyCapabilityToken, RefuseToken, Await
  <1>8. ASSUME NEW c \in Call, InsertToken(c) \/ VerifySignature(c) PROVE ReadsFresh'
    BY <1>5, <1>8 DEF IInv, TypeOK, InsertToken, VerifySignature, Resume
  <1>9. ASSUME NEW c \in Call, WriteThrows(c) PROVE ReadsFresh'
    BY <1>5, <1>9 DEF IInv, TypeOK, WriteThrows, Drop
  <1>10. ASSUME NEW t \in Call, EndToken(t) PROVE ReadsFresh'
    BY <1>5, <1>10 DEF EndToken
  <1>11. ASSUME NEW s \in Server, Restart(s) PROVE ReadsFresh'
    BY <1>5, <1>11 DEF IInv, TypeOK, Restart, Drop
  <1>12. CASE UNCHANGED vars
    BY <1>5, <1>12 DEF vars
  <1> QED
    BY <1>1, <1>2, <1>3, <1>4, <1>6, <1>7, <1>8, <1>9, <1>10, <1>11, <1>12 DEF Next

(* No row is removed, nothing brings a deactivated agent back, and a field *)
(* changes only as an update gave it, or by an update that read before     *)
(* another one wrote.                                                      *)
THEOREM UpdatesKeep == Spec => UpdatesKeepTheRest
  <1> DEFINE Kept(a) ==
        agents[a] # None =>
          /\ agents'[a] # None
          /\ agents[a].status = "inactive" => agents'[a].status = "inactive"
          /\ \A f \in Field : agents'[a].fields[f] # agents[a].fields[f] =>
               \E c \in Call :
                 /\ pc[c] = "updating" /\ local[c].agent = a
                 /\ \/ f \in local[c].given /\ agents'[a].fields[f] = c
                    \/ c \in stale
  <1>1. IInv /\ ReadsFresh /\ [Next]_vars => [\A a \in Agent : Kept(a)]_vars
    <2> SUFFICES ASSUME IInv, ReadsFresh, Next, NEW a \in Agent, agents[a] # None
                 PROVE  Kept(a)
      OBVIOUS
    <2>0. agents[a] \in Row
      BY DEF IInv, TypeOK
    <2>1. CASE agents'[a] = agents[a]
      BY <2>1
    <2>2. ASSUME NEW b \in Agent, RegisterAgent(b) PROVE Kept(a)
      BY <2>2, <2>1 DEF IInv, TypeOK, RegisterAgent
    <2>3. ASSUME NEW b \in Agent, DeactivateAgent(b) PROVE Kept(a)
      <3> DEFINE row == [agents[a] EXCEPT !.status = "inactive"]
      <3>1. row \in Row /\ row.status = "inactive" /\ row.fields = agents[a].fields
        BY <2>0 DEF Row
      <3>2. row # None
        BY <3>1, IdentityAssumption
      <3>3. agents'[a] \in {agents[a], row}
        BY <2>3 DEF IInv, TypeOK, DeactivateAgent
      <3> QED
        BY <2>1, <3>1, <3>2, <3>3
    <2>4. ASSUME NEW c \in Call, WriteMetadata(c) PROVE Kept(a)
      <3>1. pc[c] = "updating"
        BY <2>4 DEF WriteMetadata, Resume
      <3>2. CASE a # local[c].agent
        BY <2>1, <2>4, <3>2 DEF IInv, TypeOK, WriteMetadata
      <3>3. CASE a = local[c].agent
        <4>1. agents'[a] = Updated(c)
          BY <2>4, <3>3 DEF IInv, TypeOK, WriteMetadata
        <4>2. local[c] \in [agent : Agent, given : SUBSET Field, read : Row]
          BY <3>1 DEF IInv, TypeOK, Holds
        <4>3. Merged(c) \in Fields
          BY <4>2 DEF Merged, Fields, Row
        <4>4. /\ Updated(c) \in Row /\ Updated(c).status = agents[a].status
              /\ Updated(c).fields = Merged(c)
          BY <2>0, <3>3, <4>3 DEF Updated, Row
        <4>5. Updated(c) # None
          BY <4>4, IdentityAssumption
        <4>6. ASSUME NEW f \in Field, Merged(c)[f] # agents[a].fields[f], c \notin stale
              PROVE  f \in local[c].given /\ Merged(c)[f] = c
          BY <3>1, <3>3, <4>6 DEF Merged, ReadsFresh
        <4> QED
          BY <3>1, <3>3, <4>1, <4>4, <4>5, <4>6
      <3> QED
        BY <3>2, <3>3
    <2>5. CASE UNCHANGED agents
      BY <2>1, <2>5
    <2> QED
      BY <2>2, <2>3, <2>4, <2>5
      DEF Next, UpdateAgentMetadata, IssueCapabilityToken, VerifyCapabilityToken,
          RefuseToken, InsertToken, VerifySignature, WriteThrows, EndToken, Restart
  <1>2. Init => ReadsFresh
    BY DEF Init, ReadsFresh
  <1>3. IInv /\ ReadsFresh /\ [Next]_vars => ReadsFresh'
    BY ReadsFreshStep
  <1> QED
    BY <1>1, <1>2, <1>3, Invariant, PTL DEF Spec, UpdatesKeepTheRest
=============================================================================
