---------------------------- MODULE ProverProofs ----------------------------
(* The safety invariants of the prover service, and that it implements     *)
(* PostcardOracle, for any connections, identifiers, tokens, requests,     *)
(* rows, deployments and worker threads.                                   *)
EXTENDS ProverProperties, RangeCheckProofs, Sequences

\* What the handler relies on between its steps: a query is about a named
\* agent, and a proof is started only above a known threshold.
HandlerInv ==
    \A c \in Conns :
        /\ phase[c] \in {"looking", "replied", "proving"} => request[c].agent # NoAgent
        /\ phase[c] = "proving" => /\ stored[c] \in Rows
                                   /\ ThresholdKnown(request[c], stored[c])
        /\ phase[c] \in Pending \cup {"proving"} => up

Inv ==
    /\ TypeOK
    /\ HandlerInv
    /\ InFlightAuthorised
    /\ PostcardsHonest

-----------------------------------------------------------------------------
(* Types of the constants' members. *)

LEMMA RequestFacts ==
    ASSUME NEW req \in Requests
    PROVE  /\ req.agent \in AgentIds \cup {NoAgent}
           /\ req.tier \in STRING
           /\ req.threshold \in Nat \cup {NoThreshold}
           /\ req.repid \in Nat \cup {NoScore}
BY ProverAssumption DEF RequestType

LEMMA RowFacts ==
    ASSUME NEW row \in Rows
    PROVE  row.score \in Nat /\ row.tier \in STRING
BY ProverAssumption DEF RowType

\* A row with a score and a tier is one that Supabase held.
LEMMA FoundRows ==
    ASSUME NEW row \in Rows \cup {Broken, Unread}, row.kind = "found"
    PROVE  row \in Rows
<1>1. Broken.kind = "broken" /\ Unread.kind = "unread"
  BY DEF Broken, Unread
<1> QED
  BY <1>1

LEMMA RowsAreRead ==
    ASSUME NEW row \in Rows \cup {Broken}
    PROVE  row # Unread
<1>1. Unread.kind = "unread"
  BY DEF Unread
<1>2. CASE row \in Rows
  <2>1. row \in RowType
    BY <1>2, ProverAssumption
  <2>2. row.kind # "unread"
    BY <2>1 DEF RowType
  <2> QED
    BY <1>1, <2>2
<1>3. CASE row = Broken
  <2>1. Broken.kind = "broken"
    BY DEF Broken
  <2> QED
    BY <1>1, <1>3, <2>1
<1> QED
  BY <1>2, <1>3

\* A known threshold is a natural number: the client's or the tier's.
LEMMA ThresholdType ==
    ASSUME NEW req \in Requests, NEW row \in Rows,
           ThresholdKnown(req, row)
    PROVE  Threshold(req, row) \in Nat
<1>1. CASE req.threshold # NoThreshold
  BY <1>1, RequestFacts DEF Threshold
<1>2. CASE req.threshold = NoThreshold
  <2>1. Tier(req, row) \in ValidTiers
    BY <1>2 DEF ThresholdKnown
  <2>2. \A t \in ValidTiers : TierThreshold[t] \in Nat
    BY DEF ValidTiers, TierThreshold
  <2> QED
    BY <1>2, <2>1, <2>2 DEF Threshold
<1> QED
  BY <1>1, <1>2

-----------------------------------------------------------------------------
(* The postcard that generate_proof builds. *)

\* The leaf of an encodable statement commits to the field elements of its
\* public values.
LEMMA LeafOfEncodable ==
    ASSUME NEW id, NEW t \in Nat, NEW s \in Nat, Encodable(t, s)
    PROVE  PostcardLeaf(id, t, s) =
              <<PublicValues(id, t, s).agent, PublicValues(id, t, s).threshold,
                PublicValues(id, t, s).repid>>
<1>1. \A g \in Nat, w \in Nat : g < w => g % w = g
  OBVIOUS
<1>2. t % EncodingBound = t /\ s % EncodingBound = s
  BY <1>1, RangeCheckAssumption DEF Encodable
<1> QED
  BY <1>2 DEF PostcardLeaf, PublicValues

LEMMA GapWordNat ==
    ASSUME NEW t \in Nat, NEW s \in Nat, s > t
    PROVE  GapWord(t, s) \in Nat
<1>1. s - t - 1 \in Nat /\ WordSize \in Nat \ {0}
  BY RangeCheckAssumption
<1>2. \A g \in Nat, w \in Nat \ {0} : g % w \in Nat
  OBVIOUS
<1> QED
  BY <1>1, <1>2 DEF GapWord

\* A proof is returned with its public values in the field.
LEMMA AttemptType ==
    ASSUME NEW id \in AgentIds, NEW t \in Nat, NEW s \in Nat, s > t
    PROVE  ProveRangeCheck(GapWord(t, s), id, t, s) \in {NoProof} \cup ProofType
<1> DEFINE r == ProveRangeCheck(GapWord(t, s), id, t, s)
<1>1. CASE r = NoProof
  BY <1>1
<1>2. CASE r # NoProof
  <2>1. /\ Encodable(t, s)
        /\ r = [proved |-> TRUE, word |-> GapWord(t, s), pv |-> PublicValues(id, t, s)]
    BY <1>2, ProofOfStatement
  <2>2. Encode(t) \in FieldElements /\ Encode(s) \in FieldElements
    BY <2>1, EncodeType DEF Encodable
  <2>3. AgentBytes(id) \in Keys
    BY DEF Keys
  <2>4. GapWord(t, s) \in Nat
    BY GapWordNat
  <2> QED
    BY <2>1, <2>2, <2>3, <2>4 DEF ProofType, PublicValues
<1> QED
  BY <1>1, <1>2

\* The postcard of any request and row is well formed and honest.
LEMMA ResponseHonest ==
    ASSUME NEW req \in Requests, NEW row \in Rows,
           ThresholdKnown(req, row), req.agent # NoAgent
    PROVE  /\ ProofResponse(req, row) \in PostcardType
           /\ PostcardHonest(ProofResponse(req, row))
<1> DEFINE t == Threshold(req, row)
           s == row.score
           attempt == ProveRangeCheck(GapWord(t, s), req.agent, t, s)
           p == ProofResponse(req, row)
           pv == PublicValues(req.agent, t, s)
<1>1. t \in Nat /\ s \in Nat
  BY ThresholdType, RowFacts
<1>2. /\ req.agent \in AgentIds
      /\ Tier(req, row) \in STRING
      /\ req.repid \in Nat \cup {NoScore}
  BY RequestFacts, RowFacts DEF Tier
<1>3. ~NoProof.proved
  BY DEF NoProof
<1>4. CASE ~Above(req, row)
  <2>1. ~(s > t)
    BY <1>4 DEF Above
  <2>2. p = [proofType |-> "sha256_commitment_poc", proof |-> NoProof,
             verified |-> FALSE, reason |-> "not_above_threshold",
             leaf |-> NoLeaf, agent |-> req.agent, tier |-> Tier(req, row),
             threshold |-> t, repid |-> s, supplied |-> req.repid]
    BY <1>4 DEF ProofResponse, ProofOutcome
  <2>3. p \in PostcardType
    BY <2>2, <1>1, <1>2 DEF PostcardType
  <2> QED
    BY <2>1, <2>2, <2>3, <1>3 DEF PostcardHonest, Verifies
<1>5. CASE Above(req, row) /\ attempt = NoProof
  <2>1. s > t
    BY <1>5 DEF Above
  <2>2. p = [proofType |-> "sha256_commitment_poc", proof |-> NoProof,
             verified |-> FALSE, reason |-> "proving_failed",
             leaf |-> NoLeaf, agent |-> req.agent, tier |-> Tier(req, row),
             threshold |-> t, repid |-> s, supplied |-> req.repid]
    BY <1>5, <1>3 DEF ProofResponse, ProofOutcome
  <2>3. p \in PostcardType
    BY <2>2, <1>1, <1>2 DEF PostcardType
  <2> QED
    BY <2>1, <2>2, <2>3, <1>3 DEF PostcardHonest, Verifies
<1>6. CASE Above(req, row) /\ attempt # NoProof
  <2>1. s > t
    BY <1>6 DEF Above
  <2>2. /\ Encodable(t, s)
        /\ Verifies(attempt, pv)
        /\ attempt = [proved |-> TRUE, word |-> GapWord(t, s), pv |-> pv]
    BY <1>6, ProofOfStatement
  <2>3. p = [proofType |-> "plonky3_range_check", proof |-> attempt,
             verified |-> TRUE, reason |-> "null",
             leaf |-> PostcardLeaf(req.agent, t, s), agent |-> req.agent,
             tier |-> Tier(req, row), threshold |-> t, repid |-> s,
             supplied |-> req.repid]
    BY <1>6, <2>2 DEF ProofResponse, ProofOutcome
  <2>4. PostcardLeaf(req.agent, t, s) = <<pv.agent, pv.threshold, pv.repid>>
    BY <1>1, <2>2, LeafOfEncodable
  <2>5. pv.agent \in Keys /\ pv.threshold \in FieldElements /\ pv.repid \in FieldElements
    BY <1>1, <1>2, <2>2, EncodeType DEF PublicValues, Encodable, Keys
  <2>6. PostcardLeaf(req.agent, t, s) \in Keys \X FieldElements \X FieldElements
    BY <2>4, <2>5
  <2>7. attempt \in {NoProof} \cup ProofType
    BY <1>1, <1>2, <2>1, AttemptType
  <2>8. p \in PostcardType
    BY <2>3, <2>6, <2>7, <1>1, <1>2 DEF PostcardType
  <2>9. PostcardHonest(p)
    BY <2>1, <2>2, <2>3, <2>4 DEF PostcardHonest
  <2> QED
    BY <2>8, <2>9
<1> QED
  BY <1>4, <1>5, <1>6

-----------------------------------------------------------------------------
(* The invariant is inductive. *)

LEMMA InitInv == Init => Inv
<1> SUFFICES ASSUME Init
             PROVE  Inv
  OBVIOUS
<1>1. TypeOK
  BY DEF Init, TypeOK, Phases
<1>2. HandlerInv
  BY DEF Init, HandlerInv, Pending
<1>3. InFlightAuthorised
  BY DEF Init, InFlightAuthorised
<1>4. PostcardsHonest
  BY DEF Init, PostcardsHonest, PostcardsSent
<1> QED
  BY <1>1, <1>2, <1>3, <1>4 DEF Inv

\* Steps of the operator, the store and nobody: the connections stay.
LEMMA QuietInv ==
    ASSUME Inv, deployment' \in Deployments, rows' \in [Keys -> Rows],
           UNCHANGED <<up, authToken, supabaseKey, connVars>>
    PROVE  Inv'
<1>1. TypeOK'
  BY DEF Inv, TypeOK, connVars
<1>2. HandlerInv'
  BY DEF Inv, HandlerInv, connVars
<1>3. InFlightAuthorised'
  BY DEF Inv, InFlightAuthorised, connVars
<1>4. PostcardsHonest'
  BY DEF Inv, PostcardsHonest, PostcardsSent, connVars
<1> QED
  BY <1>1, <1>2, <1>3, <1>4 DEF Inv

\* Moving a connection on without an answer, into a phase it may be in.
LEMMA AdvanceInv ==
    ASSUME Inv, NEW c \in Conns, NEW next \in Phases \ {"idle", "answered"},
           Advance(c, next), phase[c] \notin {"idle", "answered"},
           next \in {"replied", "proving"} => stored[c] # Unread,
           next \in {"looking", "replied", "proving"} => request[c].agent # NoAgent,
           next = "proving" => /\ stored[c] \in Rows
                               /\ ThresholdKnown(request[c], stored[c]),
           next \in Pending \cup {"proving"} => up,
           /\ next \in {"admitted", "reading", "posted", "looking", "replied", "proving"}
           /\ request[c].path \notin PublicPaths
           => /\ up
              /\ authToken # NoToken
              /\ BearerToken(request[c].header) = authToken
    PROVE  Inv'
<1>1. /\ phase' = [phase EXCEPT ![c] = next]
      /\ UNCHANGED <<deployment, rows, up, authToken, supabaseKey, request, stored, response, postcard>>
  BY DEF Advance, serviceVars
<1>2. \A d \in Conns : phase'[d] = IF d = c THEN next ELSE phase[d]
  BY <1>1 DEF Inv, TypeOK
<1>3. TypeOK'
  <2>1. phase' \in [Conns -> Phases]
    BY <1>1 DEF Inv, TypeOK
  <2>2. \A d \in Conns :
           /\ phase'[d] # "idle" => request[d] \in Requests
           /\ phase'[d] \in {"replied", "proving"} => stored[d] # Unread
           /\ phase'[d] = "answered" <=> response[d] # 0
    BY <1>2 DEF Inv, TypeOK
  <2> QED
    BY <1>1, <2>1, <2>2 DEF Inv, TypeOK
<1>4. HandlerInv'
  BY <1>1, <1>2 DEF Inv, HandlerInv
<1>5. InFlightAuthorised'
  BY <1>1, <1>2 DEF Inv, InFlightAuthorised
<1>6. PostcardsHonest'
  BY <1>1 DEF Inv, PostcardsHonest, PostcardsSent
<1> QED
  BY <1>3, <1>4, <1>5, <1>6 DEF Inv

\* Answering with a status, and with a postcard or without.
AnswerWith(c, status, card) ==
    /\ phase' = [phase EXCEPT ![c] = "answered"]
    /\ response' = [response EXCEPT ![c] = status]
    /\ postcard' = [postcard EXCEPT ![c] = card]
    /\ UNCHANGED <<serviceVars, request, stored>>

LEMMA AnswerInv ==
    ASSUME Inv, NEW c \in Conns, phase[c] \notin {"idle", "answered"},
           NEW status \in {200, 400, 401, 404, 405, 415, 422, 500, 503},
           NEW card \in PostcardType \cup {NoPostcard},
           card # NoPostcard => PostcardHonest(card),
           AnswerWith(c, status, card)
    PROVE  Inv'
<1> USE DEF AnswerWith
<1>1. UNCHANGED <<deployment, rows, up, authToken, supabaseKey, request, stored>>
  BY DEF serviceVars
<1>2. \A d \in Conns :
         /\ phase'[d] = IF d = c THEN "answered" ELSE phase[d]
         /\ response'[d] = IF d = c THEN status ELSE response[d]
         /\ postcard'[d] = IF d = c THEN card ELSE postcard[d]
  BY DEF Inv, TypeOK
<1>3. TypeOK'
  <2>1. /\ phase' \in [Conns -> Phases]
        /\ response' \in [Conns -> {0, 200, 400, 401, 404, 405, 415, 422, 500, 503}]
        /\ postcard' \in [Conns -> PostcardType \cup {NoPostcard}]
    BY DEF Inv, TypeOK, Phases
  <2>2. \A d \in Conns :
           /\ phase'[d] # "idle" => request[d] \in Requests
           /\ phase'[d] \in {"replied", "proving"} => stored[d] # Unread
           /\ phase'[d] = "answered" <=> response'[d] # 0
    BY <1>2 DEF Inv, TypeOK
  <2> QED
    BY <1>1, <2>1, <2>2 DEF Inv, TypeOK
<1>4. HandlerInv'
  BY <1>1, <1>2 DEF Inv, HandlerInv, Pending
<1>5. InFlightAuthorised'
  BY <1>1, <1>2 DEF Inv, InFlightAuthorised
<1>6. PostcardsHonest'
  BY <1>2 DEF Inv, PostcardsHonest, PostcardsSent
<1> QED
  BY <1>3, <1>4, <1>5, <1>6 DEF Inv

\* An answer without a postcard.
LEMMA StatusInv ==
    ASSUME Inv, NEW c \in Conns, phase[c] \notin {"idle", "answered"},
           NEW status \in {200, 400, 401, 404, 405, 415, 422, 500, 503},
           Answer(c, status)
    PROVE  Inv'
<1>1. PICK card : card = postcard[c]
  OBVIOUS
<1>2. /\ card \in PostcardType \cup {NoPostcard}
      /\ card # NoPostcard => PostcardHonest(card)
  BY <1>1 DEF Inv, TypeOK, PostcardsHonest, PostcardsSent
<1>3. AnswerWith(c, status, card)
  BY <1>1 DEF Inv, TypeOK, Answer, AnswerWith
<1> QED
  BY <1>2, <1>3, AnswerInv

\* An answer with the postcard of a request whose threshold is known.
LEMMA PostcardInv ==
    ASSUME Inv, NEW c \in Conns, phase[c] \in {"replied", "proving"},
           stored[c] \in Rows, ThresholdKnown(request[c], stored[c]),
           AnswerPostcard(c)
    PROVE  Inv'
<1>1. PICK card : card = ProofResponse(request[c], stored[c])
  OBVIOUS
<1>2. request[c] \in Requests /\ request[c].agent # NoAgent
  BY DEF Inv, TypeOK, HandlerInv
<1>3. card \in PostcardType /\ PostcardHonest(card)
  BY <1>1, <1>2, ResponseHonest
<1>4. AnswerWith(c, 200, card)
  BY <1>1 DEF AnswerPostcard, AnswerWith
<1> QED
  BY <1>3, <1>4, AnswerInv

\* Supabase's reply, or the failure of the call.
LEMMA ReplyInv ==
    ASSUME Inv, NEW c \in Conns, phase[c] = "looking",
           NEW row \in Rows \cup {Broken},
           phase' = [phase EXCEPT ![c] = "replied"],
           stored' = [stored EXCEPT ![c] = row],
           UNCHANGED <<serviceVars, request, response, postcard>>
    PROVE  Inv'
<1>1. UNCHANGED <<deployment, rows, up, authToken, supabaseKey, request, response, postcard>>
  BY DEF serviceVars
<1>2. \A d \in Conns :
         /\ phase'[d] = IF d = c THEN "replied" ELSE phase[d]
         /\ stored'[d] = IF d = c THEN row ELSE stored[d]
  BY DEF Inv, TypeOK
<1>3. TypeOK'
  <2>1. /\ phase' \in [Conns -> Phases]
        /\ stored' \in [Conns -> Rows \cup {Broken, Unread}]
    BY DEF Inv, TypeOK, Phases
  <2>2. row # Unread
    BY RowsAreRead
  <2>3. \A d \in Conns :
           /\ phase'[d] # "idle" => request[d] \in Requests
           /\ phase'[d] \in {"replied", "proving"} => stored'[d] # Unread
           /\ phase'[d] = "answered" <=> response[d] # 0
    BY <1>2, <2>2 DEF Inv, TypeOK
  <2> QED
    BY <1>1, <2>1, <2>3 DEF Inv, TypeOK
<1>4. HandlerInv'
  BY <1>1, <1>2 DEF Inv, HandlerInv, Pending
<1>5. InFlightAuthorised'
  BY <1>1, <1>2 DEF Inv, InFlightAuthorised
<1>6. PostcardsHonest'
  BY <1>1 DEF Inv, PostcardsHonest, PostcardsSent
<1> QED
  BY <1>3, <1>4, <1>5, <1>6 DEF Inv

\* The key main settles on is the text of a variable that is set.
LEMMA SupabaseKeyType ==
    ASSUME NEW d \in Deployments
    PROVE  SupabaseKey(d) \in KeyTexts \cup {Unset}
<1>1. d.keys \in [1 .. 3 -> KeyTexts \cup {Unset}]
  <2>1. DOMAIN KeyNames = 1 .. 3
    BY DEF KeyNames
  <2> QED
    BY <2>1, ProverAssumption DEF DeploymentType
<1>2. SetKeys(d) \subseteq 1 .. 3
  BY DEF SetKeys, KeyNames
<1>3. CASE SetKeys(d) = {}
  BY <1>3 DEF SupabaseKey
<1>4. CASE SetKeys(d) # {}
  <2> DEFINE First(i) == \A j \in SetKeys(d) : i <= j
  <2>1. \E i \in SetKeys(d) : First(i)
    BY <1>2, <1>4
  <2>2. (CHOOSE i \in SetKeys(d) : First(i)) \in SetKeys(d)
    BY <2>1
  <2> QED
    BY <1>1, <1>2, <1>4, <2>2 DEF SupabaseKey
<1> QED
  BY <1>3, <1>4

LEMMA StartInv == Inv /\ Start => Inv'
<1> SUFFICES ASSUME Inv, Start
             PROVE  Inv'
  OBVIOUS
<1>1. \A c \in Conns : phase[c] \notin Pending \cup {"proving"}
  BY DEF Inv, HandlerInv, Start
<1>2. authToken' \in Tokens \cup {NoToken}
  BY ProverAssumption DEF Start, AuthTokenFrom, DeploymentType, Texts, Inv, TypeOK
<1>3. UNCHANGED <<deployment, rows, phase, request, stored, response, postcard>> /\ up'
  BY DEF Start, connVars
<1>8. supabaseKey' \in KeyTexts \cup {Unset}
  BY SupabaseKeyType DEF Start, Inv, TypeOK
<1>4. TypeOK'
  BY <1>2, <1>3, <1>8 DEF Inv, TypeOK
<1>5. HandlerInv'
  BY <1>3 DEF Inv, HandlerInv
<1>6. InFlightAuthorised'
  BY <1>1, <1>3 DEF InFlightAuthorised, Pending
<1>7. PostcardsHonest'
  BY <1>3 DEF Inv, PostcardsHonest, PostcardsSent
<1> QED
  BY <1>4, <1>5, <1>6, <1>7 DEF Inv

LEMMA StopInv == Inv /\ Stop => Inv'
<1> SUFFICES ASSUME Inv, Stop
             PROVE  Inv'
  OBVIOUS
<1>1. /\ UNCHANGED <<deployment, rows, request, stored, response, postcard>>
      /\ up' = FALSE /\ authToken' = NoToken /\ supabaseKey' = Unset
  BY DEF Stop
<1>2. \A c \in Conns :
         phase'[c] = IF phase[c] \in Pending \cup {"proving"} THEN "lost" ELSE phase[c]
  BY DEF Stop
<1>3. TypeOK'
  <2>1. phase' \in [Conns -> Phases]
    BY DEF Stop, Inv, TypeOK, Phases
  <2>2. \A c \in Conns :
           /\ phase'[c] # "idle" => request[c] \in Requests
           /\ phase'[c] \in {"replied", "proving"} => stored[c] # Unread
           /\ phase'[c] = "answered" <=> response[c] # 0
    BY <1>2 DEF Inv, TypeOK, Pending
  <2> QED
    BY <1>1, <2>1, <2>2 DEF Inv, TypeOK
<1>4. HandlerInv'
  BY <1>2 DEF Inv, HandlerInv, Pending
<1>5. InFlightAuthorised'
  BY <1>2 DEF InFlightAuthorised, Pending
<1>6. PostcardsHonest'
  BY <1>1 DEF Inv, PostcardsHonest, PostcardsSent
<1> QED
  BY <1>3, <1>4, <1>5, <1>6 DEF Inv

LEMMA SendInv ==
    ASSUME Inv, NEW c \in Conns, NEW req \in Requests, Send(c, req)
    PROVE  Inv'
<1>1. /\ UNCHANGED <<deployment, rows, up, authToken, supabaseKey, stored, response, postcard>>
      /\ up /\ phase[c] = "idle"
  BY DEF Send, serviceVars
<1>2. \A d \in Conns :
         /\ phase'[d] = IF d = c THEN "received" ELSE phase[d]
         /\ request'[d] = IF d = c THEN req ELSE request[d]
  BY DEF Inv, TypeOK, Send
<1>3. TypeOK'
  <2>1. /\ phase' \in [Conns -> Phases]
        /\ request' \in [Conns -> Requests \cup {NoRequest}]
    BY DEF Inv, TypeOK, Phases, Send
  <2>2. \A d \in Conns :
           /\ phase'[d] # "idle" => request'[d] \in Requests
           /\ phase'[d] \in {"replied", "proving"} => stored[d] # Unread
           /\ phase'[d] = "answered" <=> response[d] # 0
    BY <1>1, <1>2 DEF Inv, TypeOK
  <2> QED
    BY <1>1, <2>1, <2>2 DEF Inv, TypeOK
<1>4. HandlerInv'
  BY <1>1, <1>2 DEF Inv, HandlerInv, Pending
<1>5. InFlightAuthorised'
  BY <1>1, <1>2 DEF Inv, InFlightAuthorised
<1>6. PostcardsHonest'
  BY <1>1 DEF Inv, PostcardsHonest, PostcardsSent
<1> QED
  BY <1>3, <1>4, <1>5, <1>6 DEF Inv

LEMMA DisconnectInv ==
    ASSUME Inv, NEW c \in Conns, Disconnect(c)
    PROVE  Inv'
<1>1. Advance(c, "lost") /\ phase[c] \notin {"idle", "answered"}
  BY DEF Disconnect, Advance, Pending
<1> QED
  BY <1>1, AdvanceInv DEF Phases, Pending

LEMMA BodyArrivesInv ==
    ASSUME Inv, NEW c \in Conns, BodyArrives(c)
    PROVE  Inv'
<1>1. Advance(c, "posted") /\ phase[c] = "reading"
  BY DEF BodyArrives, Advance
<1>2. up
  BY <1>1 DEF Inv, HandlerInv, Pending
<1>3. request[c].path \notin PublicPaths
      => authToken # NoToken /\ BearerToken(request[c].header) = authToken
  BY <1>1 DEF Inv, InFlightAuthorised
<1> QED
  BY <1>1, <1>2, <1>3, AdvanceInv DEF Phases

LEMMA BearerInv ==
    ASSUME Inv, NEW c \in Conns, RequireBearer(c)
    PROVE  Inv'
<1>1. phase[c] = "received"
  BY DEF RequireBearer
<1>2. up
  BY <1>1 DEF Inv, HandlerInv, Pending
<1>3. CASE Answer(c, 503) \/ Answer(c, 401)
  BY <1>1, <1>3, StatusInv
<1>4. CASE /\ Advance(c, "admitted")
           /\ request[c].path \notin PublicPaths =>
                 /\ authToken # NoToken
                 /\ TokenMatches(BearerToken(request[c].header), authToken)
  BY <1>1, <1>2, <1>4, AdvanceInv DEF Phases, TokenMatches
<1> QED
  BY <1>3, <1>4 DEF RequireBearer

\* Steps before the handler that answer with a status.
LEMMA RouterInv ==
    ASSUME Inv, NEW c \in Conns,
           Preflight(c) \/ Health(c) \/ NotRouted(c) \/ BadBody(c)
    PROVE  Inv'
<1>1. phase[c] \notin {"idle", "answered"}
  BY DEF Preflight, Health, NotRouted, BadBody
<1>2. \/ Answer(c, 200) \/ Answer(c, 400) \/ Answer(c, 404)
      \/ Answer(c, 405) \/ Answer(c, 422)
  BY DEF Preflight, Health, NotRouted, BadBody
<1> QED
  BY <1>1, <1>2, StatusInv

LEMMA ReadBodyInv ==
    ASSUME Inv, NEW c \in Conns, ReadBody(c)
    PROVE  Inv'
<1>1. phase[c] = "admitted" /\ (Answer(c, 415) \/ Advance(c, "reading"))
  BY DEF ReadBody
<1>2. CASE Answer(c, 415)
  BY <1>1, <1>2, StatusInv
<1>3. CASE Advance(c, "reading")
  <2>1. up
    BY <1>1 DEF Inv, HandlerInv, Pending
  <2>2. request[c].path \notin PublicPaths
        => authToken # NoToken /\ BearerToken(request[c].header) = authToken
    BY <1>1 DEF Inv, InFlightAuthorised
  <2> QED
    BY <1>1, <1>3, <2>1, <2>2, AdvanceInv DEF Phases
<1> QED
  BY <1>1, <1>2, <1>3

LEMMA LookupInv ==
    ASSUME Inv, NEW c \in Conns, Lookup(c)
    PROVE  Inv'
<1>1. /\ phase[c] = "posted" /\ request[c].agent # NoAgent
      /\ Advance(c, "looking")
  BY DEF Lookup
<1>2. up
  BY <1>1 DEF Inv, HandlerInv, Pending
<1>3. request[c].path \notin PublicPaths
      => authToken # NoToken /\ BearerToken(request[c].header) = authToken
  BY <1>1 DEF Inv, InFlightAuthorised
<1> QED
  BY <1>1, <1>2, <1>3, AdvanceInv DEF Phases

LEMMA SupabaseInv ==
    ASSUME Inv, NEW c \in Conns, SupabaseReplies(c) \/ SupabaseFails(c)
    PROVE  Inv'
<1>1. CASE SupabaseReplies(c)
  <2>1. PICK row : row = rows[AgentBytes(request[c].agent)]
    OBVIOUS
  <2>2. phase[c] = "looking"
    BY <1>1 DEF SupabaseReplies
  <2>3. request[c] \in Requests /\ request[c].agent # NoAgent
    BY <2>2 DEF Inv, TypeOK, HandlerInv
  <2>4. AgentBytes(request[c].agent) \in Keys
    BY <2>3, RequestFacts DEF Keys
  <2>5. row \in Rows
    BY <2>1, <2>4 DEF Inv, TypeOK
  <2>6. /\ phase' = [phase EXCEPT ![c] = "replied"]
        /\ stored' = [stored EXCEPT ![c] = row]
        /\ UNCHANGED <<serviceVars, request, response, postcard>>
    BY <1>1, <2>1 DEF SupabaseReplies
  <2> QED
    BY <2>2, <2>5, <2>6, ReplyInv
<1>2. CASE SupabaseFails(c)
  BY <1>2, ReplyInv DEF SupabaseFails
<1> QED
  BY <1>1, <1>2

LEMMA HandlerStepInv ==
    ASSUME Inv, NEW c \in Conns,
           LookupError(c) \/ NotAbove(c) \/ StartProof(c) \/ FinishProof(c)
    PROVE  Inv'
<1>1. stored[c] \in Rows \cup {Broken, Unread}
  BY DEF Inv, TypeOK
<1>2. CASE LookupError(c)
  <2>1. phase[c] = "replied" /\ (Answer(c, 404) \/ Answer(c, 500) \/ Answer(c, 400))
    BY <1>2 DEF LookupError
  <2> QED
    BY <2>1, StatusInv
<1>3. CASE NotAbove(c)
  <2>1. stored[c] \in Rows
    BY <1>1, <1>3, FoundRows DEF NotAbove
  <2> QED
    BY <1>3, <2>1, PostcardInv DEF NotAbove
<1>4. CASE StartProof(c)
  <2>1. /\ phase[c] = "replied" /\ Advance(c, "proving")
        /\ ThresholdKnown(request[c], stored[c])
    BY <1>4 DEF StartProof
  <2>2. stored[c] \in Rows
    BY <1>1, <1>4, FoundRows DEF StartProof
  <2>3. up /\ request[c].agent # NoAgent /\ stored[c] # Unread
    BY <2>1 DEF Inv, TypeOK, HandlerInv, Pending
  <2>4. request[c].path \notin PublicPaths
        => authToken # NoToken /\ BearerToken(request[c].header) = authToken
    BY <2>1 DEF Inv, InFlightAuthorised
  <2> QED
    BY <2>1, <2>2, <2>3, <2>4, AdvanceInv DEF Phases
<1>5. CASE FinishProof(c)
  <2>1. stored[c] \in Rows /\ ThresholdKnown(request[c], stored[c])
    BY <1>5 DEF FinishProof, Inv, HandlerInv
  <2> QED
    BY <1>5, <2>1, PostcardInv DEF FinishProof
<1> QED
  BY <1>2, <1>3, <1>4, <1>5

LEMMA NextInv == Inv /\ [Next]_vars => Inv'
<1> SUFFICES ASSUME Inv, [Next]_vars
             PROVE  Inv'
  OBVIOUS
<1>1. ASSUME NEW d \in Deployments, Configure(d)
      PROVE  Inv'
  BY <1>1, QuietInv DEF Configure, connVars, Inv, TypeOK
<1>2. ASSUME NEW k \in Keys, NEW row \in Rows, SetRow(k, row)
      PROVE  Inv'
  <2>1. rows' \in [Keys -> Rows]
    BY <1>2 DEF SetRow, Inv, TypeOK
  <2>2. deployment' \in Deployments /\ UNCHANGED <<up, authToken, supabaseKey, connVars>>
    BY <1>2 DEF SetRow, Inv, TypeOK
  <2> QED
    BY <2>1, <2>2, QuietInv
<1>3. CASE UNCHANGED vars
  BY <1>3, QuietInv DEF vars, serviceVars, Inv, TypeOK
<1>4. ASSUME NEW c \in Conns, Serve(c)
      PROVE  Inv'
  BY <1>4, BearerInv, RouterInv, ReadBodyInv, LookupInv, HandlerStepInv DEF Serve
<1> QED
  BY <1>1, <1>2, <1>3, <1>4, StartInv, StopInv, SendInv, BodyArrivesInv, DisconnectInv,
     SupabaseInv DEF Next

-----------------------------------------------------------------------------
LEMMA Invariance == Spec => []Inv
BY InitInv, NextInv, PTL DEF Spec

\* The types of the service's state, for every instance.
THEOREM ProverTypes == Spec => []TypeOK
<1>1. Inv => TypeOK
  BY DEF Inv
<1> QED
  BY <1>1, Invariance, PTL

\* Nothing is past the auth layer on a protected path without the running
\* process's token, across restarts, rotations and concurrent requests.
THEOREM ProverAuthorised == Spec => []InFlightAuthorised
<1>1. Inv => InFlightAuthorised
  BY DEF Inv
<1> QED
  BY <1>1, Invariance, PTL

\* Every postcard is honest: "verified" exactly with a proof of the
\* postcard's own statement, for a score above the threshold.
THEOREM ProverHonest == Spec => []PostcardsHonest
<1>1. Inv => PostcardsHonest
  BY DEF Inv
<1> QED
  BY <1>1, Invariance, PTL

-----------------------------------------------------------------------------
(* The refinement: the service implements PostcardOracle, and gives each   *)
(* refusal its cause.                                                      *)

\* What an answer that used Supabase's reply was made from.
AnsweredFrom(req, row, status, card) ==
    \/ row.kind = "absent" /\ status = 404 /\ card = NoPostcard
    \/ row.kind = "broken" /\ status = 500 /\ card = NoPostcard
    \/ /\ row.kind = "found" /\ ~ThresholdKnown(req, row)
       /\ status = 400 /\ card = NoPostcard
    \/ /\ row.kind = "found" /\ ThresholdKnown(req, row)
       /\ row \in Rows /\ req.agent # NoAgent
       /\ status = 200 /\ card = ProofResponse(req, row)

\* The history of one connection.
HistoryOf(ph, req, row, status, card) ==
    /\ ph \in {"idle", "received", "admitted", "reading", "posted", "looking"} => row = Unread
    /\ ph # "answered" \/ row = Unread => card = NoPostcard
    /\ ph = "proving" => row.kind = "found"
    /\ ph = "answered" /\ row # Unread => AnsweredFrom(req, row, status, card)

HistoryInv ==
    \A c \in Conns :
        HistoryOf(phase[c], request[c], stored[c], response[c], postcard[c])

\* A step of one connection leaves the others where they are.
Others(c) ==
    \A d \in Conns \ {c} :
        /\ phase'[d] = phase[d] /\ request'[d] = request[d] /\ stored'[d] = stored[d]
        /\ response'[d] = response[d] /\ postcard'[d] = postcard[d]

LEMMA HistoryLocal ==
    ASSUME HistoryInv, NEW c \in Conns, Others(c),
           HistoryOf(phase'[c], request'[c], stored'[c], response'[c], postcard'[c])
    PROVE  HistoryInv'
<1>1. ASSUME NEW d \in Conns
      PROVE  HistoryOf(phase'[d], request'[d], stored'[d], response'[d], postcard'[d])
  <2>1. CASE d = c
    BY <2>1
  <2>2. CASE d # c
    BY <2>2 DEF Others, HistoryInv
  <2> QED
    BY <2>1, <2>2
<1> QED
  BY <1>1 DEF HistoryInv

LEMMA AdvanceEffect ==
    ASSUME Inv, NEW c \in Conns, NEW next, Advance(c, next)
    PROVE  /\ Others(c)
           /\ phase'[c] = next /\ request'[c] = request[c] /\ stored'[c] = stored[c]
           /\ response'[c] = response[c] /\ postcard'[c] = postcard[c]
  BY DEF Inv, TypeOK, Advance, Others

LEMMA AnswerEffect ==
    ASSUME Inv, NEW c \in Conns, NEW status, Answer(c, status)
    PROVE  /\ Others(c)
           /\ phase'[c] = "answered" /\ request'[c] = request[c] /\ stored'[c] = stored[c]
           /\ response'[c] = status /\ postcard'[c] = postcard[c]
  BY DEF Inv, TypeOK, Answer, Others

LEMMA AnswerPostcardEffect ==
    ASSUME Inv, NEW c \in Conns, AnswerPostcard(c)
    PROVE  /\ Others(c)
           /\ phase'[c] = "answered" /\ request'[c] = request[c] /\ stored'[c] = stored[c]
           /\ response'[c] = 200
           /\ postcard'[c] = ProofResponse(request[c], stored[c])
  BY DEF Inv, TypeOK, AnswerPostcard, Others

LEMMA SupabaseEffect ==
    ASSUME Inv, NEW c \in Conns, SupabaseReplies(c) \/ SupabaseFails(c)
    PROVE  /\ Others(c) /\ phase[c] = "looking"
           /\ phase'[c] = "replied" /\ request'[c] = request[c]
           /\ stored'[c] \in {rows[AgentBytes(request[c].agent)], Broken}
           /\ response'[c] = response[c] /\ postcard'[c] = postcard[c]
           /\ UNCHANGED rows
  BY DEF Inv, TypeOK, SupabaseReplies, SupabaseFails, Others, serviceVars

LEMMA SendEffect ==
    ASSUME Inv, NEW c \in Conns, NEW req \in Requests, Send(c, req)
    PROVE  /\ Others(c) /\ phase[c] = "idle"
           /\ phase'[c] = "received" /\ request'[c] = req /\ stored'[c] = stored[c]
           /\ response'[c] = response[c] /\ postcard'[c] = postcard[c]
           /\ UNCHANGED rows
  BY DEF Inv, TypeOK, Send, Others, serviceVars

LEMMA DisconnectEffect ==
    ASSUME Inv, NEW c \in Conns, Disconnect(c)
    PROVE  /\ Others(c) /\ phase[c] \in Pending
           /\ phase'[c] = "lost" /\ request'[c] = request[c] /\ stored'[c] = stored[c]
           /\ response'[c] = response[c] /\ postcard'[c] = postcard[c]
           /\ UNCHANGED rows
  BY DEF Inv, TypeOK, Disconnect, Others, serviceVars

\* Steps before the handler has queried Supabase, or between its reply and
\* the answer.
Early(c) ==
    \/ Preflight(c) \/ RequireBearer(c) \/ Health(c) \/ NotRouted(c)
    \/ ReadBody(c) \/ BodyArrives(c) \/ BadBody(c)

LEMMA EarlyEffect ==
    ASSUME Inv, NEW c \in Conns, Early(c)
    PROVE  /\ Others(c) /\ phase[c] \in {"received", "admitted", "reading", "posted"}
           /\ phase'[c] \in {"admitted", "reading", "posted", "answered"}
           /\ request'[c] = request[c]
           /\ stored'[c] = stored[c] /\ postcard'[c] = postcard[c] /\ UNCHANGED rows
<1>1. phase[c] \in {"received", "admitted", "reading", "posted"}
  BY DEF Early, Preflight, RequireBearer, Health, NotRouted, ReadBody, BodyArrives, BadBody
<1>2. \/ \E next \in {"admitted", "reading", "posted"} : Advance(c, next)
      \/ \E status \in {200, 400, 401, 404, 405, 415, 422, 503} : Answer(c, status)
  BY DEF Early, Preflight, RequireBearer, Health, NotRouted, ReadBody, BodyArrives, BadBody,
         Advance
<1>3. ASSUME NEW next \in {"admitted", "reading", "posted"}, Advance(c, next)
      PROVE  /\ Others(c) /\ phase'[c] = next /\ request'[c] = request[c]
             /\ stored'[c] = stored[c] /\ postcard'[c] = postcard[c] /\ UNCHANGED rows
  <2>1. UNCHANGED rows
    BY <1>3 DEF Advance, serviceVars
  <2> QED
    BY <1>3, <2>1, AdvanceEffect
<1>4. ASSUME NEW status \in {200, 400, 401, 404, 405, 415, 422, 503}, Answer(c, status)
      PROVE  /\ Others(c) /\ phase'[c] = "answered" /\ request'[c] = request[c]
             /\ stored'[c] = stored[c] /\ postcard'[c] = postcard[c] /\ UNCHANGED rows
  <2>1. UNCHANGED rows
    BY <1>4 DEF Answer, serviceVars
  <2> QED
    BY <1>4, <2>1, AnswerEffect
<1> QED
  BY <1>1, <1>2, <1>3, <1>4

LEMMA HistoryNext ==
    ASSUME Inv, HistoryInv, [Next]_vars
    PROVE  HistoryInv'
<1>1. CASE UNCHANGED connVars
  BY <1>1 DEF HistoryInv, connVars
<1>2. CASE Stop
  <2>1. ASSUME NEW c \in Conns
        PROVE  HistoryOf(phase'[c], request'[c], stored'[c], response'[c], postcard'[c])
    <3>1. /\ phase'[c] \in {phase[c], "lost"}
          /\ UNCHANGED <<request, stored, response, postcard>>
      BY <1>2 DEF Stop
    <3>2. phase'[c] = "lost" => phase[c] # "answered"
      BY <1>2 DEF Stop, Pending
    <3> QED
      BY <3>1, <3>2 DEF HistoryInv, HistoryOf
  <2> QED
    BY <2>1 DEF HistoryInv
<1>3. ASSUME NEW c \in Conns, NEW req \in Requests, Send(c, req) PROVE HistoryInv'
  <2>1. HistoryOf(phase[c], request[c], stored[c], response[c], postcard[c])
    BY DEF HistoryInv
  <2> QED
    BY <1>3, <2>1, SendEffect, HistoryLocal DEF HistoryOf
<1>4. ASSUME NEW c \in Conns, Disconnect(c) PROVE HistoryInv'
  <2>1. HistoryOf(phase[c], request[c], stored[c], response[c], postcard[c])
    BY DEF HistoryInv
  <2> QED
    BY <1>4, <2>1, DisconnectEffect, HistoryLocal DEF HistoryOf, Pending
<1>5. ASSUME NEW c \in Conns, SupabaseReplies(c) \/ SupabaseFails(c) PROVE HistoryInv'
  <2>1. HistoryOf(phase[c], request[c], stored[c], response[c], postcard[c])
    BY DEF HistoryInv
  <2> QED
    BY <1>5, <2>1, SupabaseEffect, HistoryLocal DEF HistoryOf
<1>6. ASSUME NEW c \in Conns, Early(c) PROVE HistoryInv'
  <2>1. HistoryOf(phase[c], request[c], stored[c], response[c], postcard[c])
    BY DEF HistoryInv
  <2> QED
    BY <1>6, <2>1, EarlyEffect, HistoryLocal DEF HistoryOf
<1>7. ASSUME NEW c \in Conns, Lookup(c) PROVE HistoryInv'
  <2>1. HistoryOf(phase[c], request[c], stored[c], response[c], postcard[c])
    BY DEF HistoryInv
  <2>2. phase[c] = "posted" /\ Advance(c, "looking")
    BY <1>7 DEF Lookup
  <2> QED
    BY <2>1, <2>2, AdvanceEffect, HistoryLocal DEF HistoryOf
<1>8. ASSUME NEW c \in Conns, StartProof(c) PROVE HistoryInv'
  <2>1. HistoryOf(phase[c], request[c], stored[c], response[c], postcard[c])
    BY DEF HistoryInv
  <2>2. phase[c] = "replied" /\ stored[c].kind = "found" /\ Advance(c, "proving")
    BY <1>8 DEF StartProof
  <2> QED
    BY <2>1, <2>2, AdvanceEffect, HistoryLocal DEF HistoryOf
<1>9. ASSUME NEW c \in Conns, LookupError(c) PROVE HistoryInv'
  <2>1. HistoryOf(phase[c], request[c], stored[c], response[c], postcard[c])
    BY DEF HistoryInv
  <2>2. phase[c] = "replied"
    BY <1>9 DEF LookupError
  <2>3. postcard[c] = NoPostcard
    BY <2>1, <2>2 DEF HistoryOf
  <2>4. PICK status \in {404, 500, 400} :
           Answer(c, status) /\ AnsweredFrom(request[c], stored[c], status, NoPostcard)
    BY <1>9 DEF LookupError, AnsweredFrom
  <2> QED
    BY <2>3, <2>4, AnswerEffect, HistoryLocal DEF HistoryOf
<1>10. ASSUME NEW c \in Conns, NotAbove(c) \/ FinishProof(c) PROVE HistoryInv'
  <2>1. /\ HistoryOf(phase[c], request[c], stored[c], response[c], postcard[c])
        /\ stored[c] \in Rows \cup {Broken, Unread}
    BY DEF HistoryInv, Inv, TypeOK
  <2>2. phase[c] \in {"replied", "proving"} /\ stored[c].kind = "found"
    BY <1>10, <2>1 DEF NotAbove, FinishProof, HistoryOf
  <2>3. stored[c] \in Rows
    BY <2>1, <2>2, FoundRows
  <2>4. ThresholdKnown(request[c], stored[c]) /\ request[c].agent # NoAgent
    BY <1>10, <2>2 DEF NotAbove, FinishProof, Inv, HandlerInv
  <2>5. AnswerPostcard(c)
    BY <1>10 DEF NotAbove, FinishProof
  <2>6. AnsweredFrom(request[c], stored[c], 200, ProofResponse(request[c], stored[c]))
    BY <2>2, <2>3, <2>4 DEF AnsweredFrom
  <2>7. stored[c] # Unread
    BY <2>2 DEF Inv, TypeOK
  <2> QED
    BY <2>5, <2>6, <2>7, AnswerPostcardEffect, HistoryLocal DEF HistoryOf
<1>11. (\E d \in Deployments : Configure(d)) \/ Start \/ (\E k \in Keys, row \in Rows : SetRow(k, row))
       \/ UNCHANGED vars => UNCHANGED connVars
  BY DEF Configure, Start, SetRow, vars
<1> QED
  BY <1>1, <1>2, <1>3, <1>4, <1>5, <1>6, <1>7, <1>8, <1>9, <1>10, <1>11
     DEF Next, Serve, Early

LEMMA HistoryInvariant == Spec => [](Inv /\ HistoryInv)
<1>1. Init => HistoryInv
  BY DEF Init, HistoryInv, HistoryOf
<1> QED
  BY <1>1, InitInv, NextInv, HistoryNext, PTL DEF Spec

-----------------------------------------------------------------------------
(* The refinement. *)

\* The mapping of ProverProperties, connection by connection.
QuestionAt(c) ==
    IF Asking(c) THEN QuestionOf(request[c])
    ELSE [key |-> <<>>, tier |-> "", threshold |-> -1]
SeenAt(c)  == IF Asking(c) THEN stored[c] ELSE Unread
ReplyAt(c) ==
    IF Asking(c) /\ phase[c] = "answered" THEN ReplyRead(c) ELSE [kind |-> "none"]

LEMMA Mapped ==
    ASSUME NEW c \in Conns, Others(c)
    PROVE  \A d \in Conns \ {c} :
              /\ QuestionAt(d)' = QuestionAt(d) /\ SeenAt(d)' = SeenAt(d)
              /\ ReplyAt(d)' = ReplyAt(d)
<1> SUFFICES ASSUME NEW d \in Conns \ {c}
             PROVE  /\ QuestionAt(d)' = QuestionAt(d) /\ SeenAt(d)' = SeenAt(d)
                    /\ ReplyAt(d)' = ReplyAt(d)
  OBVIOUS
<1>1. /\ phase'[d] = phase[d] /\ request'[d] = request[d] /\ stored'[d] = stored[d]
      /\ response'[d] = response[d] /\ postcard'[d] = postcard[d]
  BY DEF Others
<1>2. Asking(d)' = Asking(d)
  BY <1>1 DEF Asking
<1>3. ReplyRead(d)' = ReplyRead(d)
  BY <1>1 DEF ReplyRead
<1> QED
  BY <1>1, <1>2, <1>3 DEF QuestionAt, SeenAt, ReplyAt

\* What a step of the mapped connection has to show to be a step of the
\* oracle.
LEMMA OracleStutter ==
    ASSUME UNCHANGED rows,
           \A d \in Conns : /\ QuestionAt(d)' = QuestionAt(d) /\ SeenAt(d)' = SeenAt(d)
                            /\ ReplyAt(d)' = ReplyAt(d)
    PROVE  UNCHANGED Oracle!vars
  BY DEF Oracle!vars, QuestionAt, SeenAt, ReplyAt

LEMMA OracleWrite ==
    ASSUME NEW k \in Keys, NEW row \in Rows, rows' = [rows EXCEPT ![k] = row],
           \A d \in Conns : /\ QuestionAt(d)' = QuestionAt(d) /\ SeenAt(d)' = SeenAt(d)
                            /\ ReplyAt(d)' = ReplyAt(d)
    PROVE  Oracle!Write(k, row)
  BY DEF Oracle!Write, QuestionAt, SeenAt, ReplyAt

LEMMA OracleAsk ==
    ASSUME NEW c \in Conns, Others(c), UNCHANGED rows, NEW q,
           ~Asking(c), QuestionAt(c)' = q,
           SeenAt(c)' = SeenAt(c), ReplyAt(c)' = ReplyAt(c)
    PROVE  Oracle!Ask(c, q)
<1>1. \A d \in Conns : QuestionAt(d)' = IF d = c THEN q ELSE QuestionAt(d)
  BY Mapped
<1>2. \A d \in Conns : SeenAt(d)' = SeenAt(d) /\ ReplyAt(d)' = ReplyAt(d)
  BY Mapped
<1>3. QuestionAt(c) = Oracle!NoQuestion
  BY DEF QuestionAt, Oracle!NoQuestion
<1> QED
  BY <1>1, <1>2, <1>3 DEF Oracle!Ask, QuestionAt, SeenAt, ReplyAt

LEMMA OracleRead ==
    ASSUME NEW c \in Conns, Others(c), UNCHANGED rows,
           QuestionAt(c) # Oracle!NoQuestion, SeenAt(c) = Unread,
           SeenAt(c)' \in {rows[QuestionAt(c).key], Broken},
           QuestionAt(c)' = QuestionAt(c), ReplyAt(c)' = ReplyAt(c)
    PROVE  Oracle!Read(c)
<1>1. PICK row \in {rows[QuestionAt(c).key], Broken} : SeenAt(c)' = row
  OBVIOUS
<1>2. \A d \in Conns : SeenAt(d)' = IF d = c THEN row ELSE SeenAt(d)
  BY <1>1, Mapped
<1>3. \A d \in Conns : QuestionAt(d)' = QuestionAt(d) /\ ReplyAt(d)' = ReplyAt(d)
  BY Mapped
<1> QED
  BY <1>1, <1>2, <1>3
     DEF Oracle!Read, Oracle!Unread, Oracle!Broken, Unread, Broken, QuestionAt, SeenAt, ReplyAt

LEMMA OracleReply ==
    ASSUME NEW c \in Conns, Others(c), UNCHANGED rows,
           SeenAt(c) # Unread, ReplyAt(c) = Oracle!NoReply,
           ReplyAt(c)' = Oracle!Verdict(QuestionAt(c), SeenAt(c)),
           QuestionAt(c)' = QuestionAt(c), SeenAt(c)' = SeenAt(c)
    PROVE  Oracle!Reply(c)
<1>1. PICK v : v = Oracle!Verdict(QuestionAt(c), SeenAt(c))
  OBVIOUS
<1>2. \A d \in Conns : ReplyAt(d)' = IF d = c THEN v ELSE ReplyAt(d)
  BY <1>1, Mapped
<1>3. \A d \in Conns : QuestionAt(d)' = QuestionAt(d) /\ SeenAt(d)' = SeenAt(d)
  BY Mapped
<1> QED
  BY <1>1, <1>2, <1>3 DEF Oracle!Reply, Oracle!Unread, Unread, QuestionAt, SeenAt, ReplyAt

LEMMA OracleForget ==
    ASSUME NEW S \in SUBSET Conns, UNCHANGED rows,
           \A d \in S : phase[d] # "answered" /\ ~Asking(d)',
           \A d \in Conns \ S : /\ QuestionAt(d)' = QuestionAt(d) /\ SeenAt(d)' = SeenAt(d)
                                 /\ ReplyAt(d)' = ReplyAt(d)
    PROVE  Oracle!Forget(S)
<1>1. \A d \in S : ReplyAt(d) = Oracle!NoReply /\ ReplyAt(d)' = Oracle!NoReply
  BY DEF ReplyAt, Oracle!NoReply
<1>2. \A d \in S : QuestionAt(d)' = Oracle!NoQuestion /\ SeenAt(d)' = Oracle!Unread
  BY DEF QuestionAt, SeenAt, Oracle!NoQuestion, Oracle!Unread, Unread
<1>3. \A d \in Conns : ReplyAt(d)' = ReplyAt(d)
  BY <1>1
<1> QED
  BY <1>1, <1>2, <1>3 DEF Oracle!Forget, QuestionAt, SeenAt, ReplyAt

-----------------------------------------------------------------------------
\* A postcard says "verified" exactly when the oracle says "proven".
LEMMA ResponseProven ==
    ASSUME NEW req \in Requests, NEW row \in Rows,
           ThresholdKnown(req, row), req.agent # NoAgent
    PROVE  ProofResponse(req, row).verified
             = Oracle!Provable(Threshold(req, row), row.score)
<1> DEFINE t == Threshold(req, row)
           s == row.score
           attempt == ProveRangeCheck(GapWord(t, s), req.agent, t, s)
<1>1. t \in Nat /\ s \in Nat /\ RangeSize \in Nat /\ EncodingBound \in Nat
  BY ThresholdType, RowFacts, RangeCheckAssumption
<1>2. ProofResponse(req, row) \in PostcardType
  BY ResponseHonest
<1>3. ProofResponse(req, row).verified \in BOOLEAN
  BY <1>2 DEF PostcardType
<1>4. ProofResponse(req, row).verified <=> Above(req, row) /\ attempt.proved
  BY DEF ProofResponse, ProofOutcome
<1>5. Above(req, row) <=> s > t
  BY DEF Above
<1>6. s > t => (attempt.proved <=> Encodable(t, s) /\ s - t <= RangeSize)
  BY <1>1, HonestProofExact
<1> HIDE DEF t, s, attempt
<1>7. Above(req, row) /\ attempt.proved <=> t < s /\ s <= t + RangeSize /\ s < EncodingBound
  BY <1>1, <1>5, <1>6 DEF Encodable
<1>8. Oracle!Provable(t, s) <=> t < s /\ s <= t + RangeSize /\ s < EncodingBound
  BY DEF Oracle!Provable
<1>9. Oracle!Provable(t, s) \in BOOLEAN
  BY DEF Oracle!Provable
<1>10. ProofResponse(req, row).verified = Oracle!Provable(t, s)
  BY <1>3, <1>4, <1>7, <1>8, <1>9
<1> QED
  BY <1>10 DEF t, s

\* What a client reads off an answer is the oracle's verdict.
RepliesRight ==
    \A c \in Conns :
        phase[c] = "answered" /\ stored[c] # Unread =>
            ReplyRead(c) = Oracle!Verdict(QuestionOf(request[c]), stored[c])

LEMMA SameTiers ==
    Oracle!ValidTiers = ValidTiers /\ Oracle!TierThreshold = TierThreshold
  BY DEF Oracle!ValidTiers, ValidTiers, Oracle!TierThreshold, TierThreshold

LEMMA RepliesAreRight == Inv /\ HistoryInv => RepliesRight
<1> SUFFICES ASSUME Inv, HistoryInv, NEW c \in Conns,
                    phase[c] = "answered", stored[c] # Unread
             PROVE  ReplyRead(c) = Oracle!Verdict(QuestionOf(request[c]), stored[c])
  BY DEF RepliesRight
<1>1. PICK req, row : req = request[c] /\ row = stored[c]
  OBVIOUS
<1>2. /\ AnsweredFrom(req, row, response[c], postcard[c])
      /\ req \in Requests
  BY <1>1 DEF HistoryInv, HistoryOf, Inv, TypeOK
<1>3. CASE row.kind = "absent" /\ response[c] = 404
  BY <1>1, <1>3 DEF ReplyRead, Oracle!Verdict
<1>4. CASE row.kind = "broken" /\ response[c] = 500
  BY <1>1, <1>4 DEF ReplyRead, Oracle!Verdict
<1>5. CASE row.kind = "found" /\ ~ThresholdKnown(req, row) /\ response[c] = 400
  <2>1. /\ QuestionOf(req).threshold = -1
        /\ (IF QuestionOf(req).tier = "" THEN row.tier ELSE QuestionOf(req).tier) \notin ValidTiers
    BY <1>5 DEF ThresholdKnown, Tier, NoThreshold, NoTier, QuestionOf
  <2>2. PICK q : q = QuestionOf(req)
    OBVIOUS
  <2>3. Oracle!Verdict(q, row) = [kind |-> "no such tier"]
    BY <1>5, <2>1, <2>2, SameTiers DEF Oracle!Verdict
  <2>4. ReplyRead(c) = [kind |-> "no such tier"]
    BY <1>5 DEF ReplyRead
  <2> QED
    BY <1>1, <2>2, <2>3, <2>4
<1>6. CASE /\ row.kind = "found" /\ ThresholdKnown(req, row)
           /\ row \in Rows /\ req.agent # NoAgent
           /\ response[c] = 200 /\ postcard[c] = ProofResponse(req, row)
  <2>1. PICK p : p = ProofResponse(req, row)
    OBVIOUS
  <2>2. /\ p.agent = req.agent /\ p.threshold = Threshold(req, row)
        /\ p.repid = row.score
    BY <2>1 DEF ProofResponse
  <2>3. p.verified = Oracle!Provable(Threshold(req, row), row.score)
    BY <1>2, <1>6, <2>1, ResponseProven
  <2>4. ReplyRead(c) = [kind |-> "postcard", key |-> AgentBytes(req.agent),
                        threshold |-> Threshold(req, row), score |-> row.score,
                        proven |-> Oracle!Provable(Threshold(req, row), row.score)]
    BY <1>6, <2>1, <2>2, <2>3 DEF ReplyRead
  <2> DEFINE q == QuestionOf(req)
             tier == IF q.tier = "" THEN row.tier ELSE q.tier
  <2>5. /\ q.threshold = req.threshold /\ q.tier = req.tier
        /\ q.key = AgentBytes(req.agent) /\ tier = Tier(req, row)
    BY DEF QuestionOf, Tier, NoTier
  <2>6. ~(q.threshold = -1 /\ tier \notin ValidTiers)
    BY <1>6, <2>5 DEF ThresholdKnown, NoThreshold
  <2>7. Oracle!Threshold(q, tier) = Threshold(req, row)
    BY <2>5, SameTiers DEF Oracle!Threshold, Threshold, NoThreshold
  <2>8. Oracle!Verdict(q, row) =
            [kind |-> "postcard", key |-> q.key,
             threshold |-> Oracle!Threshold(q, tier), score |-> row.score,
             proven |-> Oracle!Provable(Oracle!Threshold(q, tier), row.score)]
    BY <1>6, <2>6, SameTiers DEF Oracle!Verdict
  <2> HIDE DEF q, tier
  <2>9. Oracle!Verdict(q, row) = ReplyRead(c)
    BY <2>4, <2>5, <2>7, <2>8
  <2> QED
    BY <1>1, <2>9 DEF q
<1> QED
  BY <1>2, <1>3, <1>4, <1>5, <1>6 DEF AnsweredFrom

-----------------------------------------------------------------------------
\* Every step of the service is a step of the oracle or leaves it alone.
NoChange(c) ==
    QuestionAt(c)' = QuestionAt(c) /\ SeenAt(c)' = SeenAt(c) /\ ReplyAt(c)' = ReplyAt(c)

LEMMA QuietStep ==
    ASSUME NEW c \in Conns, Others(c), NoChange(c), UNCHANGED rows
    PROVE  UNCHANGED Oracle!vars
<1>1. \A d \in Conns : /\ QuestionAt(d)' = QuestionAt(d) /\ SeenAt(d)' = SeenAt(d)
                       /\ ReplyAt(d)' = ReplyAt(d)
  BY Mapped DEF NoChange
<1> QED
  BY <1>1, OracleStutter

LEMMA UntouchedMapping ==
    ASSUME UNCHANGED connVars
    PROVE  \A d \in Conns : /\ QuestionAt(d)' = QuestionAt(d) /\ SeenAt(d)' = SeenAt(d)
                            /\ ReplyAt(d)' = ReplyAt(d)
  BY DEF connVars, QuestionAt, SeenAt, ReplyAt, Asking, ReplyRead

\* The answer of a request that was asking, whatever the answer.
LEMMA AnswerStep ==
    ASSUME NEW c \in Conns, Others(c), UNCHANGED rows,
           phase[c] \in {"replied", "proving"}, stored[c] # Unread,
           phase'[c] = "answered", request'[c] = request[c], stored'[c] = stored[c],
           RepliesRight'
    PROVE  Oracle!Reply(c)
<1>1. Asking(c) /\ Asking(c)'
  BY DEF Asking
<1>2. QuestionAt(c) = QuestionOf(request[c]) /\ SeenAt(c) = stored[c]
  BY <1>1 DEF QuestionAt, SeenAt
<1>3. QuestionAt(c)' = QuestionAt(c) /\ SeenAt(c)' = SeenAt(c)
  BY <1>1, <1>2 DEF QuestionAt, SeenAt
<1>4. ReplyAt(c) = Oracle!NoReply
  BY DEF ReplyAt, Oracle!NoReply
<1>5. ReplyRead(c)' = Oracle!Verdict(QuestionOf(request'[c]), stored'[c])
  BY DEF RepliesRight
<1>6. ReplyAt(c)' = ReplyRead(c)'
  BY <1>1 DEF ReplyAt
<1>7. ReplyAt(c)' = Oracle!Verdict(QuestionAt(c), SeenAt(c))
  BY <1>2, <1>5, <1>6
<1> QED
  BY <1>2, <1>3, <1>4, <1>7, OracleReply

LEMMA BytesNotEmpty ==
    ASSUME NEW id PROVE AgentBytes(id) # <<>>
<1>1. Len(AgentBytes(id)) # 0
  BY DEF AgentBytes
<1> QED
  BY <1>1

LEMMA OracleStep ==
    ASSUME Inv, HistoryInv, RepliesRight', [Next]_vars
    PROVE  [Oracle!Next]_Oracle!vars
<1>1. CASE (\E d \in Deployments : Configure(d)) \/ Start \/ UNCHANGED vars
  <2>1. UNCHANGED connVars /\ UNCHANGED rows
    BY <1>1 DEF Configure, Start, vars, serviceVars
  <2> QED
    BY <2>1, UntouchedMapping, OracleStutter
<1>2. ASSUME NEW k \in Keys, NEW row \in Rows, SetRow(k, row) PROVE Oracle!Next
  <2>1. UNCHANGED connVars /\ rows' = [rows EXCEPT ![k] = row]
    BY <1>2 DEF SetRow
  <2>2. Oracle!Write(k, row)
    BY <2>1, UntouchedMapping, OracleWrite
  <2> QED
    BY <2>2 DEF Oracle!Next
<1>3. CASE Stop
  <2> DEFINE S == {c \in Conns : phase[c] \in Pending \cup {"proving"}}
  <2>1. UNCHANGED <<rows, request, stored, response, postcard>>
    BY <1>3 DEF Stop
  <2>2. \A d \in S : phase[d] # "answered" /\ phase'[d] = "lost"
    BY <1>3 DEF Stop, Pending
  <2>3. \A d \in Conns \ S : phase'[d] = phase[d]
    BY <1>3 DEF Stop
  <2> HIDE DEF S
  <2>4. \A d \in S : phase[d] # "answered" /\ ~Asking(d)'
    BY <2>2 DEF Asking
  <2>5. \A d \in Conns \ S : /\ QuestionAt(d)' = QuestionAt(d) /\ SeenAt(d)' = SeenAt(d)
                            /\ ReplyAt(d)' = ReplyAt(d)
    <3> SUFFICES ASSUME NEW d \in Conns \ S
                 PROVE  /\ QuestionAt(d)' = QuestionAt(d) /\ SeenAt(d)' = SeenAt(d)
                        /\ ReplyAt(d)' = ReplyAt(d)
      OBVIOUS
    <3>1. Asking(d)' = Asking(d)
      BY <2>1, <2>3 DEF Asking
    <3>2. ReplyRead(d)' = ReplyRead(d)
      BY <2>1 DEF ReplyRead
    <3> QED
      BY <2>1, <2>3, <3>1, <3>2 DEF QuestionAt, SeenAt, ReplyAt
  <2>6. PICK T \in SUBSET Conns : T = S
    BY DEF S
  <2>7. Oracle!Forget(T)
    BY <2>1, <2>4, <2>5, <2>6, OracleForget
  <2> QED
    BY <2>7 DEF Oracle!Next
<1>4. ASSUME NEW c \in Conns, NEW req \in Requests, Send(c, req) PROVE UNCHANGED Oracle!vars
  <2>1. NoChange(c)
    BY <1>4, SendEffect DEF NoChange, QuestionAt, SeenAt, ReplyAt, Asking
  <2> QED
    BY <1>4, <2>1, SendEffect, QuietStep
<1>5. ASSUME NEW c \in Conns, Disconnect(c) PROVE Oracle!Next
  <2>1. PICK T \in SUBSET Conns : T = {c}
    OBVIOUS
  <2>2. \A d \in T : phase[d] # "answered" /\ ~Asking(d)'
    BY <1>5, <2>1, DisconnectEffect DEF Asking, Pending
  <2>3. \A d \in Conns \ T : /\ QuestionAt(d)' = QuestionAt(d) /\ SeenAt(d)' = SeenAt(d)
                            /\ ReplyAt(d)' = ReplyAt(d)
    BY <1>5, <2>1, DisconnectEffect, Mapped
  <2>4. Oracle!Forget(T)
    BY <1>5, <2>2, <2>3, DisconnectEffect, OracleForget
  <2> QED
    BY <2>4 DEF Oracle!Next
<1>6. ASSUME NEW c \in Conns, SupabaseReplies(c) \/ SupabaseFails(c) PROVE Oracle!Next
  <2>1. stored[c] = Unread /\ Asking(c) /\ Asking(c)'
    BY <1>6, SupabaseEffect DEF HistoryInv, HistoryOf, Asking
  <2>2. request[c].agent # NoAgent /\ request[c] \in Requests
    BY <1>6, SupabaseEffect DEF Inv, TypeOK, HandlerInv
  <2>3. QuestionAt(c) = QuestionOf(request[c]) /\ SeenAt(c) = Unread
    BY <2>1 DEF QuestionAt, SeenAt
  <2>4. QuestionAt(c).key = AgentBytes(request[c].agent)
    BY <2>3 DEF QuestionOf
  <2>5. QuestionAt(c) # Oracle!NoQuestion
    <3>1. PICK id : id = request[c].agent
      OBVIOUS
    <3>2. QuestionAt(c).key # <<>>
      BY <2>4, <3>1, BytesNotEmpty
    <3>3. Oracle!NoQuestion.key = <<>>
      BY DEF Oracle!NoQuestion
    <3> QED
      BY <3>2, <3>3
  <2>6. SeenAt(c)' = stored'[c] /\ QuestionAt(c)' = QuestionAt(c)
    BY <1>6, <2>1, <2>3, SupabaseEffect DEF SeenAt, QuestionAt
  <2>7. ReplyAt(c)' = ReplyAt(c)
    BY <1>6, SupabaseEffect DEF ReplyAt
  <2>8. Oracle!Read(c)
    BY <1>6, <2>3, <2>4, <2>5, <2>6, <2>7, SupabaseEffect, OracleRead
  <2> QED
    BY <2>8 DEF Oracle!Next
<1>7. ASSUME NEW c \in Conns, Early(c) PROVE UNCHANGED Oracle!vars
  <2>1. stored[c] = Unread
    BY <1>7, EarlyEffect DEF HistoryInv, HistoryOf
  <2>2. ~Asking(c) /\ ~Asking(c)'
    BY <1>7, <2>1, EarlyEffect DEF Asking
  <2>3. NoChange(c)
    BY <2>2 DEF NoChange, QuestionAt, SeenAt, ReplyAt
  <2> QED
    BY <1>7, <2>3, EarlyEffect, QuietStep
<1>8. ASSUME NEW c \in Conns, Lookup(c) PROVE Oracle!Next
  <2>1. phase[c] = "posted" /\ Advance(c, "looking") /\ UNCHANGED rows
    BY <1>8 DEF Lookup, Advance, serviceVars
  <2>2. /\ Others(c) /\ phase'[c] = "looking"
        /\ request'[c] = request[c] /\ stored'[c] = stored[c]
    BY <2>1, AdvanceEffect
  <2>3. stored[c] = Unread /\ request[c] \in Requests
    BY <2>1 DEF HistoryInv, HistoryOf, Inv, TypeOK
  <2>4. ~Asking(c) /\ Asking(c)'
    BY <2>1, <2>2 DEF Asking
  <2>5. PICK q \in {QuestionOf(req) : req \in Requests} : q = QuestionOf(request[c])
    BY <2>3
  <2>6. QuestionAt(c)' = q
    BY <2>2, <2>4, <2>5 DEF QuestionAt
  <2>7. SeenAt(c)' = SeenAt(c) /\ ReplyAt(c)' = ReplyAt(c)
    BY <2>1, <2>2, <2>3, <2>4 DEF SeenAt, ReplyAt
  <2>8. Oracle!Ask(c, q)
    BY <2>1, <2>2, <2>4, <2>6, <2>7, OracleAsk
  <2> QED
    BY <2>8 DEF Oracle!Next
<1>9. ASSUME NEW c \in Conns, StartProof(c) PROVE UNCHANGED Oracle!vars
  <2>1. phase[c] = "replied" /\ Advance(c, "proving") /\ UNCHANGED rows
    BY <1>9 DEF StartProof, Advance, serviceVars
  <2>2. /\ Others(c) /\ phase'[c] = "proving"
        /\ request'[c] = request[c] /\ stored'[c] = stored[c]
    BY <2>1, AdvanceEffect
  <2>3. Asking(c) /\ Asking(c)'
    BY <2>1, <2>2 DEF Asking
  <2>4. NoChange(c)
    BY <2>1, <2>2, <2>3 DEF NoChange, QuestionAt, SeenAt, ReplyAt
  <2> QED
    BY <2>1, <2>2, <2>4, QuietStep
<1>10. ASSUME NEW c \in Conns, LookupError(c) \/ NotAbove(c) \/ FinishProof(c)
       PROVE  Oracle!Next
  <2>1. phase[c] \in {"replied", "proving"} /\ stored[c] # Unread
    BY <1>10 DEF LookupError, NotAbove, FinishProof, Inv, TypeOK
  <2>2. AnswerPostcard(c) \/ \E status \in {404, 500, 400} : Answer(c, status)
    BY <1>10 DEF LookupError, NotAbove, FinishProof
  <2>3. UNCHANGED rows
    BY <2>2 DEF AnswerPostcard, Answer, serviceVars
  <2>4. /\ Others(c) /\ phase'[c] = "answered"
        /\ request'[c] = request[c] /\ stored'[c] = stored[c]
    BY <2>2, AnswerEffect, AnswerPostcardEffect
  <2>5. Oracle!Reply(c)
    BY <2>1, <2>3, <2>4, AnswerStep
  <2> QED
    BY <2>5 DEF Oracle!Next
<1> QED
  BY <1>1, <1>2, <1>3, <1>4, <1>5, <1>6, <1>7, <1>8, <1>9, <1>10
     DEF Next, Serve, Early

LEMMA OracleInit == Init => Oracle!Init
<1> SUFFICES ASSUME Init PROVE Oracle!Init
  OBVIOUS
<1>1. \A c \in Conns : ~Asking(c)
  BY DEF Init, Asking
<1> QED
  BY <1>1 DEF Init, Oracle!Init, Oracle!NoQuestion, Oracle!Unread, Oracle!NoReply, Unread

\* The service implements the oracle, for any connections, agents, rows,
\* requests, deployments and restarts: every answer about an agent is the
\* oracle's verdict on one reading of that agent's row made while the
\* request was in progress (main.rs, generate_proof and fetch_agent_repid).
THEOREM ProverImplementsOracle == Spec => AnswersFromStoredScore
<1>1. Inv /\ HistoryInv => RepliesRight
  BY RepliesAreRight
<1>2. Inv /\ HistoryInv /\ RepliesRight' /\ [Next]_vars => [Oracle!Next]_Oracle!vars
  BY OracleStep
<1> QED
  BY <1>1, <1>2, OracleInit, HistoryInvariant, PTL DEF Spec, AnswersFromStoredScore, Oracle!Spec

-----------------------------------------------------------------------------
(* What the tiers and the refusals mean. *)

\* tier_to_threshold and score_to_tier draw the same boundaries, score 0
\* apart, which is above no threshold.
LEMMA SameBoundaries ==
    ASSUME NEW tier \in ValidTiers, NEW score \in Nat, score <= 10000
    PROVE  TierThreshold[tier] < score
             <=> /\ score # 0
                 /\ TierThreshold[ScoreToTier(score)] >= TierThreshold[tier]
<1>1. tier \in {"PROBATIONARY", "EARNING", "ESTABLISHED", "AUTONOMOUS", "VETERAN"}
  BY DEF ValidTiers, TierThreshold
<1>2. /\ TierThreshold["PROBATIONARY"] = 0 /\ TierThreshold["EARNING"] = 499
      /\ TierThreshold["ESTABLISHED"] = 999 /\ TierThreshold["AUTONOMOUS"] = 4999
      /\ TierThreshold["VETERAN"] = 7999
  BY DEF TierThreshold
<1>3. CASE score < 500
  <2>1. ScoreToTier(score) = "PROBATIONARY"
    BY <1>3 DEF ScoreToTier
  <2> QED
    BY <1>1, <1>2, <1>3, <2>1
<1>4. CASE 500 <= score /\ score <= 999
  <2>1. ScoreToTier(score) = "EARNING"
    BY <1>4 DEF ScoreToTier
  <2> QED
    BY <1>1, <1>2, <1>4, <2>1
<1>5. CASE 1000 <= score /\ score <= 4999
  <2>1. ScoreToTier(score) = "ESTABLISHED"
    BY <1>5 DEF ScoreToTier
  <2> QED
    BY <1>1, <1>2, <1>5, <2>1
<1>6. CASE 5000 <= score /\ score <= 7999
  <2>1. ScoreToTier(score) = "AUTONOMOUS"
    BY <1>6 DEF ScoreToTier
  <2> QED
    BY <1>1, <1>2, <1>6, <2>1
<1>7. CASE 8000 <= score /\ score <= 10000
  <2>1. ScoreToTier(score) = "VETERAN"
    BY <1>7 DEF ScoreToTier
  <2> QED
    BY <1>1, <1>2, <1>7, <2>1
<1> QED
  BY <1>3, <1>4, <1>5, <1>6, <1>7

\* A proof without a threshold of the client's own is made exactly for the
\* agents of the tier or a higher one, those of score 0 apart, who are
\* refused every tier, their own PROBATIONARY included (main.rs,
\* score_to_tier, tier_to_threshold and the comparison in generate_proof),
\* provided the range covers the scores.
THEOREM ProverTiers ==
    ASSUME 10000 <= RangeSize
    PROVE  Spec => []TierProofsExact
<1>1. Inv /\ HistoryInv => TierProofsExact
  <2> SUFFICES ASSUME Inv, HistoryInv, NEW c \in Conns, postcard[c] # NoPostcard,
                      request[c].threshold = NoThreshold,
                      postcard[c].repid <= 10000
               PROVE  postcard[c].verified
                        <=> /\ postcard[c].repid # 0
                            /\ TierThreshold[ScoreToTier(postcard[c].repid)]
                                 >= TierThreshold[postcard[c].tier]
    BY DEF TierProofsExact, PostcardsSent
  <2>1. PICK req, row, p : req = request[c] /\ row = stored[c] /\ p = postcard[c]
    OBVIOUS
  <2>2. HistoryOf(phase[c], req, row, response[c], p)
    BY <2>1 DEF HistoryInv
  <2>3. phase[c] = "answered" /\ AnsweredFrom(req, row, response[c], p)
    BY <2>1, <2>2 DEF HistoryOf
  <2>4. ThresholdKnown(req, row) /\ row \in Rows /\ req.agent # NoAgent
        /\ p = ProofResponse(req, row) /\ req \in Requests
    BY <2>1, <2>3 DEF AnsweredFrom, Inv, TypeOK
  <2>5. p.repid = row.score /\ p.tier = Tier(req, row)
    BY <2>4 DEF ProofResponse
  <2>6. p.verified = Oracle!Provable(Threshold(req, row), row.score)
    BY <2>4, ResponseProven
  <2>7. p.tier \in ValidTiers /\ Threshold(req, row) = TierThreshold[p.tier]
    BY <2>1, <2>4, <2>5 DEF ThresholdKnown, Threshold
  <2>8. PICK t, s : t = TierThreshold[p.tier] /\ s = p.repid
    OBVIOUS
  <2>9. t \in Nat /\ s \in Nat /\ s <= 10000
    BY <2>1, <2>4, <2>5, <2>7, <2>8, RowFacts DEF ValidTiers, TierThreshold
  <2>10. Oracle!Provable(t, s) <=> t < s
    BY <2>9, RangeCheckAssumption DEF Oracle!Provable
  <2>11. t < s <=> s # 0 /\ TierThreshold[ScoreToTier(s)] >= t
    BY <2>7, <2>8, <2>9, SameBoundaries
  <2> QED
    BY <2>1, <2>5, <2>6, <2>7, <2>8, <2>10, <2>11
<1> QED
  BY <1>1, HistoryInvariant, PTL

\* What a relying party may conclude from a proof in an answer, whatever
\* agent, threshold and score it is told: if the proof verifies for these,
\* the score is above the threshold, the agent is the one the request named,
\* and the numbers are, in the field, the score Supabase held when it was
\* asked and the threshold that applied (main.rs, generate_proof; circuit.rs,
\* build_public_values and verify_range_check).
Convinces(c) ==
    \A id \in [uuid : BOOLEAN, name : STRING, hyphens : BOOLEAN],
       t \in 0 .. Prime - RangeSize - 1, s \in 0 .. EncodingBound - 1 :
        Verifies(postcard[c].proof, PublicValues(id, t, s)) =>
            /\ s > t
            /\ AgentBytes(id) = AgentBytes(request[c].agent)
            /\ Encode(s) = Encode(stored[c].score)
            /\ Encode(t) = Encode(Threshold(request[c], stored[c]))

\* A proof carried by an answer convinces of the stored score only.
THEOREM ProverConvinces == Spec => [](\A c \in PostcardsSent : Convinces(c))
<1>1. Inv /\ HistoryInv => \A c \in PostcardsSent : Convinces(c)
  <2> SUFFICES ASSUME Inv, HistoryInv, NEW c \in Conns, postcard[c] # NoPostcard
               PROVE  Convinces(c)
    BY DEF PostcardsSent
  <2>1. PICK req, row, p : req = request[c] /\ row = stored[c] /\ p = postcard[c]
    OBVIOUS
  <2>2. HistoryOf(phase[c], req, row, response[c], p)
    BY <2>1 DEF HistoryInv
  <2>3. p = ProofResponse(req, row)
    BY <2>1, <2>2 DEF HistoryOf, AnsweredFrom
  <2> SUFFICES ASSUME NEW id, NEW t \in 0 .. Prime - RangeSize - 1,
                      NEW s \in 0 .. EncodingBound - 1,
                      Verifies(p.proof, PublicValues(id, t, s))
               PROVE  /\ s > t
                      /\ AgentBytes(id) = AgentBytes(req.agent)
                      /\ Encode(s) = Encode(row.score)
                      /\ Encode(t) = Encode(Threshold(req, row))
    BY <2>1 DEF Convinces
  <2>4. p.proof.proved /\ p.proof.pv = PublicValues(id, t, s)
        /\ GapElement(PublicValues(id, t, s)) < RangeSize
    BY DEF Verifies, AirHolds
  <2>5. PICK v : p.proof \in {NoProof,
                      ProveRangeCheck(v, req.agent, Threshold(req, row), row.score)}
    BY <2>3 DEF ProofResponse, ProofOutcome
  <2>6. p.proof # NoProof
    BY <2>4 DEF NoProof
  <2>7. p.proof.pv = PublicValues(req.agent, Threshold(req, row), row.score)
    BY <2>5, <2>6, ProofOfStatement
  <2>8. PublicValues(id, t, s) = PublicValues(req.agent, Threshold(req, row), row.score)
    BY <2>4, <2>7
  <2>9. /\ AgentBytes(id) = AgentBytes(req.agent)
        /\ Encode(s) = Encode(row.score)
        /\ Encode(t) = Encode(Threshold(req, row))
    BY <2>8 DEF PublicValues
  <2>10. t \in Nat /\ s \in Nat /\ t < Prime - RangeSize /\ s < EncodingBound
    BY RangeCheckAssumption
  <2>11. s > t
    BY <2>4, <2>10, GapInRangeSound DEF GapElement, PublicValues
  <2> QED
    BY <2>9, <2>11
<1> QED
  BY <1>1, HistoryInvariant, PTL

\* A request is refused for its token only if that is not the running
\* process's token, blanks aside (main.rs, require_bearer).
THEOREM ProverRefused == Spec => RefusedForCause
<1>1. ASSUME Inv, [Next]_vars, NEW c \in Conns, response'[c] # response[c]
      PROVE  LET header == request[c].header
             IN  /\ response'[c] = 503 => authToken = NoToken
                 /\ response'[c] = 401 =>
                       /\ authToken # NoToken
                       /\ header.scheme = "bearer" => header.text.core # authToken
  <2>1. CASE RequireBearer(c)
    <3>1. /\ Answer(c, 503) => authToken = NoToken /\ response'[c] = 503
          /\ Answer(c, 401) => response'[c] = 401
          /\ Advance(c, "admitted") => response'[c] = response[c]
      BY <1>1, <2>1, AdvanceEffect, AnswerEffect DEF RequireBearer
    <3>2. CASE Answer(c, 503)
      BY <2>1, <3>1, <3>2
    <3>3. CASE Answer(c, 401)
      <4>1. authToken # NoToken
            /\ ~TokenMatches(BearerToken(request[c].header), authToken)
        BY <1>1, <2>1, <3>1, <3>3 DEF RequireBearer
      <4> QED
        BY <3>1, <3>3, <4>1 DEF TokenMatches, BearerToken
    <3> QED
      BY <1>1, <2>1, <3>1, <3>2, <3>3 DEF RequireBearer
  <2>2. CASE \/ Preflight(c) \/ Health(c) \/ NotRouted(c)
             \/ ReadBody(c) \/ BadBody(c) \/ LookupError(c)
    <3>1. \/ \E status \in {200, 404, 405, 415, 422, 400, 500} : Answer(c, status)
          \/ Advance(c, "reading")
      BY <2>2 DEF Preflight, Health, NotRouted, ReadBody, BadBody, LookupError
    <3> QED
      BY <1>1, <3>1, AnswerEffect, AdvanceEffect
  <2>3. CASE NotAbove(c) \/ FinishProof(c)
    BY <1>1, <2>3, AnswerPostcardEffect DEF NotAbove, FinishProof
  <2>4. ASSUME NEW d \in Conns, Serve(d), d # c PROVE FALSE
    <3>1. Others(d)
      <4>1. Lookup(d) \/ StartProof(d) \/ LookupError(d) \/ NotAbove(d) \/ FinishProof(d)
            => \/ \E next \in {"looking", "proving"} : Advance(d, next)
               \/ \E status \in {404, 500, 400} : Answer(d, status)
               \/ AnswerPostcard(d)
        BY DEF Lookup, StartProof, LookupError, NotAbove, FinishProof
      <4> QED
        BY <1>1, <2>4, <4>1, EarlyEffect, AdvanceEffect, AnswerEffect, AnswerPostcardEffect
           DEF Serve, Early
    <3> QED
      BY <1>1, <2>4, <3>1 DEF Others
  <2>5. CASE Lookup(c) \/ StartProof(c)
    BY <1>1, <2>5, AdvanceEffect DEF Lookup, StartProof
  <2>6. CASE UNCHANGED response
    BY <1>1, <2>6
  <2>7. \/ UNCHANGED response
        \/ \E d \in Conns : Serve(d)
    BY <1>1 DEF Next, Configure, Start, Stop, SetRow, Send, BodyArrives, Disconnect, SupabaseReplies,
                SupabaseFails, vars, connVars
  <2> QED
    BY <2>1, <2>2, <2>3, <2>4, <2>5, <2>6, <2>7 DEF Serve
<1>2. Inv /\ [Next]_vars =>
        [\A c \in Conns :
           response'[c] # response[c] =>
              LET header == request[c].header
              IN  /\ response'[c] = 503 => authToken = NoToken
                  /\ response'[c] = 401 =>
                        /\ authToken # NoToken
                        /\ header.scheme = "bearer" => header.text.core # authToken]_vars
  BY <1>1
<1> QED
  BY <1>2, Invariance, PTL DEF Spec, RefusedForCause

-----------------------------------------------------------------------------
(* Startup. *)

\* The key is the first that is set, whatever its text.
LEMMA FirstKey ==
    ASSUME NEW d, SetKeys(d) # {}
    PROVE  \E i \in SetKeys(d) : /\ SupabaseKey(d) = d.keys[i]
                                 /\ \A j \in SetKeys(d) : i <= j
<1> DEFINE set == SetKeys(d)
<1>1. set \subseteq {1, 2, 3}
  BY DEF SetKeys, KeyNames
<1>2. \E i \in set : \A j \in set : i <= j
  <2>1. CASE 1 \in set
    BY <1>1, <2>1
  <2>2. CASE 1 \notin set /\ 2 \in set
    BY <1>1, <2>2
  <2>3. CASE 1 \notin set /\ 2 \notin set
    BY <1>1, <2>3
  <2> QED
    BY <2>1, <2>2, <2>3
<1> HIDE DEF set
<1>3. PICK i : i = CHOOSE k \in set : \A j \in set : k <= j
  OBVIOUS
<1>4. i \in set /\ \A j \in set : i <= j
  BY <1>2, <1>3
<1>5. SupabaseKey(d) = d.keys[i]
  BY <1>3, <1>4 DEF SupabaseKey, set
<1> QED
  BY <1>4, <1>5 DEF set

\* Whichever of the three names the key goes by, main gets past the checks
\* that would stop it and looks scores up with a live key: what
\* KeyRenameSurvived says of the guard and of the key, ENABLED apart.
THEOREM KeyRenamed ==
    ASSUME ~up, deployment.url, SetKeys(deployment) # {},
           \A i \in SetKeys(deployment) : deployment.keys[i] = "live"
    PROVE  /\ SupabaseKey(deployment) # Unset
           /\ Start => supabaseKey' = "live"
<1>1. PICK d : d = deployment
  OBVIOUS
<1>2. SupabaseKey(d) = "live"
  BY <1>1, FirstKey
<1> QED
  BY <1>1, <1>2 DEF Start, Unset
=============================================================================
