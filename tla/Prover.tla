------------------------------- MODULE Prover -------------------------------
(***************************************************************************)
(* The zkp-postcard HTTP service (services/zkp-postcard/src/main.rs).      *)
(*                                                                         *)
(* One process, restarted at any time, reads its bearer token and its      *)
(* Supabase key once, at startup.  Requests run concurrently: each is      *)
(* authorised, dispatched, waits for Supabase without holding a worker     *)
(* thread, and is proved synchronously while holding one.  The agents'     *)
(* rows in Supabase change at any time.  A connection carries one request, *)
(* whose body may arrive long after its headers, or never.                 *)
(***************************************************************************)
EXTENDS RangeCheck, Tiers, FiniteSets

CONSTANTS
    Conns,        \* connections
    AgentIds,     \* agent identifiers, [uuid, name, hyphens]
    Tokens,       \* token texts without surrounding blanks
    Requests,     \* the requests clients send
    Rows,         \* what Supabase may hold for an agent
    Deployments,  \* environments the process is started in
    Workers       \* worker threads of the tokio runtime

NoToken     == ""
NoAgent     == [uuid |-> FALSE, name |-> "", hyphens |-> FALSE]
NoTier      == ""
NoThreshold == -1
NoScore     == -1

ProofPaths  == {"/zkp/repid-proof", "/prove/trade_auth"}
PublicPaths == {"/health"}
Paths       == ProofPaths \cup PublicPaths \cup {"/elsewhere"}

\* A text with or without surrounding blanks; an unset variable is empty.
Texts == [core : Tokens \cup {NoToken}, pad : BOOLEAN]

\* The Authorization header, "none" when it is missing.
Headers == [scheme : {"bearer", "other", "none"}, text : Texts]

RequestType ==
    [method : {"GET", "POST", "OPTIONS"}, path : Paths, header : Headers,
     body : {"json", "malformed", "untyped"},  \* what the Json extractor makes of it
     agent : AgentIds \cup {NoAgent}, tier : STRING,
     threshold : Nat \cup {NoThreshold}, repid : Nat \cup {NoScore}]

\* "absent": no row, or a 404. "broken": any other reply without a usable
\* score and tier, or none at all. "unread": Supabase has not replied.
RowType == [kind : {"found", "absent", "broken"}, score : Nat, tier : STRING]

Unread == [kind |-> "unread", score |-> 0, tier |-> ""]
Broken == [kind |-> "broken", score |-> 0, tier |-> ""]

\* The names main tries for Supabase's key, in its order.
KeyNames == <<"SUPABASE_SECRET_KEY", "SUPABASE_SERVICE_KEY", "SUPABASE_SERVICE_ROLE_KEY">>

\* Supabase honours "live" and refuses "dead", the empty text among them.
\* A key revoked while the process runs is a SupabaseFails.
KeyTexts == {"live", "dead"}
Unset    == "unset"

DeploymentType ==
    [url : BOOLEAN, keys : [DOMAIN KeyNames -> KeyTexts \cup {Unset}], token : Texts]

ASSUME ProverAssumption ==
    /\ AgentIds \subseteq [uuid : BOOLEAN, name : STRING, hyphens : BOOLEAN]
    /\ Tokens \subseteq STRING /\ NoToken \notin Tokens
    /\ Requests \subseteq RequestType
    /\ Rows \subseteq RowType /\ Rows # {}
    /\ Deployments \subseteq DeploymentType /\ Deployments # {}
    /\ Workers \in Nat \ {0}

VARIABLES
    deployment,  \* the environment variables, as the operator last set them
    rows,        \* Supabase's repid_agents table
    up,          \* whether the process is listening
    authToken,   \* AppState.auth_token: read from the environment at startup
    supabaseKey, \* AppState.supabase_key: likewise
    phase,       \* how far the request on a connection has come
    request,     \* the request
    stored,      \* Supabase's reply to it
    response,    \* the HTTP status sent, 0 before
    postcard     \* the ProofResponse sent

serviceVars == <<deployment, rows, up, authToken, supabaseKey>>
connVars    == <<phase, request, stored, response, postcard>>
vars        == <<serviceVars, connVars>>

Phases == {"idle", "received", "admitted", "reading", "posted", "looking",
           "replied", "proving", "answered", "lost"}

\* Phases in which the request is a future the process may drop.
Pending == {"received", "admitted", "reading", "posted", "looking", "replied"}

Keys == {AgentBytes(id) : id \in AgentIds}

NoRequest ==
    [method |-> "", path |-> "", header |-> [scheme |-> "none",
     text |-> [core |-> NoToken, pad |-> FALSE]], body |-> "untyped",
     agent |-> NoAgent, tier |-> NoTier, threshold |-> NoThreshold,
     repid |-> NoScore]

NoLeaf     == <<>>
NoPostcard == [proofType |-> "none"]

-----------------------------------------------------------------------------
(* Startup and authentication. *)

SetKeys(d) == {i \in DOMAIN KeyNames : d.keys[i] # Unset}

\* Mistake: the name Supabase moved the key to is not among those tried.
SupabaseKeyLegacy(d) ==
    LET set == SetKeys(d) \ {1}
    IN  IF set = {} THEN Unset
        ELSE d.keys[CHOOSE i \in set : \A j \in set : i <= j]

\* The first variable that is set, to whatever text.
SupabaseKey(d) ==
    LET set == SetKeys(d)
    IN  IF set = {} THEN Unset
        ELSE d.keys[CHOOSE i \in set : \A j \in set : i <= j]

\* auth_token_from: trimmed, and a blank text counts as unset.
AuthTokenFrom(text) == text.core

\* Mistake: surrounding blanks are part of the token.
BearerTokenUntrimmed(header) ==
    IF header.scheme # "bearer" THEN NoToken
    ELSE IF header.text.pad THEN " blanks " ELSE header.text.core

\* The token of the Authorization header, NoToken when there is none.
BearerToken(header) ==
    IF header.scheme = "bearer" THEN header.text.core ELSE NoToken

TokenMatches(presented, expected) ==
    presented # NoToken /\ presented = expected

(* The answer to a proof request. *)

Tier(req, row) == IF req.tier = NoTier THEN row.tier ELSE req.tier

ThresholdKnown(req, row) ==
    req.threshold # NoThreshold \/ Tier(req, row) \in ValidTiers

Threshold(req, row) ==
    IF req.threshold # NoThreshold THEN req.threshold
                                   ELSE TierThreshold[Tier(req, row)]

Above(req, row) == row.score > Threshold(req, row)

\* Mistake: above the threshold counts as verified, proof or not.
ProofOutcomeAbove(above, attempt) ==
    [proofType |-> IF above THEN "plonky3_range_check" ELSE "sha256_commitment_poc",
     proof     |-> attempt,
     verified  |-> above,
     reason    |-> IF above THEN "null" ELSE "not_above_threshold"]

\* attempt is what prove_range_check returns, asked only when above.
ProofOutcome(above, attempt) ==
    IF ~above
    THEN [proofType |-> "sha256_commitment_poc", proof |-> NoProof,
          verified |-> FALSE, reason |-> "not_above_threshold"]
    ELSE IF attempt.proved
    THEN [proofType |-> "plonky3_range_check", proof |-> attempt,
          verified |-> TRUE, reason |-> "null"]
    ELSE [proofType |-> "sha256_commitment_poc", proof |-> NoProof,
          verified |-> FALSE, reason |-> "proving_failed"]

ProofResponse(req, row) ==
    LET threshold == Threshold(req, row)
        outcome   == ProofOutcome(Above(req, row),
                        ProveRangeCheck(GapWord(threshold, row.score),
                                        req.agent, threshold, row.score))
    IN  [proofType |-> outcome.proofType,
         proof     |-> outcome.proof,
         verified  |-> outcome.verified,
         reason    |-> outcome.reason,
         leaf      |-> IF outcome.proofType = "plonky3_range_check"
                       THEN PostcardLeaf(req.agent, threshold, row.score)
                       ELSE NoLeaf,
         agent     |-> req.agent,
         tier      |-> Tier(req, row),
         threshold |-> threshold,
         repid     |-> row.score,
         supplied  |-> req.repid]

-----------------------------------------------------------------------------
Init ==
    /\ deployment \in Deployments
    /\ rows \in [Keys -> Rows]
    /\ up = FALSE
    /\ authToken = NoToken
    /\ supabaseKey = Unset
    /\ phase = [c \in Conns |-> "idle"]
    /\ request = [c \in Conns |-> NoRequest]
    /\ stored = [c \in Conns |-> Unread]
    /\ response = [c \in Conns |-> 0]
    /\ postcard = [c \in Conns |-> NoPostcard]

(* The environment: the operator, the process's lifetime, Supabase's       *)
(* writers and the clients.                                                *)

Configure(d) ==
    /\ deployment' = d
    /\ UNCHANGED <<rows, up, authToken, supabaseKey, connVars>>

\* main: without Supabase's URL or any key the process panics instead, as
\* it does when the port is taken; without a token it starts.
Start ==
    /\ ~up
    /\ deployment.url
    /\ SupabaseKey(deployment) # Unset
    /\ up' = TRUE
    /\ supabaseKey' = SupabaseKey(deployment)
    /\ authToken' = AuthTokenFrom(deployment.token)
    /\ UNCHANGED <<deployment, rows, connVars>>

\* The process is stopped or crashes: what it had in flight is lost.
Stop ==
    /\ up
    /\ up' = FALSE
    /\ authToken' = NoToken
    /\ supabaseKey' = Unset
    /\ phase' = [c \in Conns |-> IF phase[c] \in Pending \cup {"proving"}
                                 THEN "lost" ELSE phase[c]]
    /\ UNCHANGED <<deployment, rows, request, stored, response, postcard>>

SetRow(k, row) ==
    /\ rows' = [rows EXCEPT ![k] = row]
    /\ UNCHANGED <<deployment, up, authToken, supabaseKey, connVars>>

\* The headers of a request are in; hyper hands it to the service.
Send(c, req) ==
    /\ up
    /\ phase[c] = "idle"
    /\ phase' = [phase EXCEPT ![c] = "received"]
    /\ request' = [request EXCEPT ![c] = req]
    /\ UNCHANGED <<serviceVars, stored, response, postcard>>

\* The rest of the body, whenever the client sends it.
BodyArrives(c) ==
    /\ phase[c] = "reading"
    /\ phase' = [phase EXCEPT ![c] = "posted"]
    /\ UNCHANGED <<serviceVars, request, stored, response, postcard>>

\* The client goes away; the handler's future is dropped at its next await.
\* A proof being computed has no await: it goes on to the end.
Disconnect(c) ==
    /\ phase[c] \in Pending
    /\ phase' = [phase EXCEPT ![c] = "lost"]
    /\ UNCHANGED <<serviceVars, request, stored, response, postcard>>

-----------------------------------------------------------------------------
(* The service.  Every step needs a worker thread, and a proof holds one.  *)

WorkerFree == Cardinality({c \in Conns : phase[c] = "proving"}) < Workers

Advance(c, next) ==
    /\ phase' = [phase EXCEPT ![c] = next]
    /\ UNCHANGED <<serviceVars, request, stored, response, postcard>>

Answer(c, status) ==
    /\ phase' = [phase EXCEPT ![c] = "answered"]
    /\ response' = [response EXCEPT ![c] = status]
    /\ UNCHANGED <<serviceVars, request, stored, postcard>>

\* Mistake: the row is read a second time when the answer is built.
AnswerPostcardReread(c) ==
    /\ phase' = [phase EXCEPT ![c] = "answered"]
    /\ response' = [response EXCEPT ![c] = 200]
    /\ LET now == rows[AgentBytes(request[c].agent)]
       IN  postcard' = [postcard EXCEPT ![c] =
              ProofResponse(request[c], IF now.kind = "found" THEN now ELSE stored[c])]
    /\ UNCHANGED <<serviceVars, request, stored>>

AnswerPostcard(c) ==
    /\ phase' = [phase EXCEPT ![c] = "answered"]
    /\ response' = [response EXCEPT ![c] = 200]
    /\ postcard' = [postcard EXCEPT ![c] = ProofResponse(request[c], stored[c])]
    /\ UNCHANGED <<serviceVars, request, stored>>

\* CorsLayer::permissive, the outermost layer, answers every OPTIONS.
Preflight(c) ==
    /\ phase[c] = "received"
    /\ WorkerFree
    /\ request[c].method = "OPTIONS"
    /\ Answer(c, 200)

\* Mistake: a process without a token lets everything in.
RequireBearerOpen(c) ==
    /\ phase[c] = "received"
    /\ WorkerFree
    /\ request[c].method # "OPTIONS"
    /\ IF \/ request[c].path \in PublicPaths
          \/ authToken = NoToken
          \/ TokenMatches(BearerToken(request[c].header), authToken)
       THEN Advance(c, "admitted")
       ELSE Answer(c, 401)

\* require_bearer, the layer around every route and the fallback.
RequireBearer(c) ==
    /\ phase[c] = "received"
    /\ WorkerFree
    /\ request[c].method # "OPTIONS"
    /\ IF request[c].path \in PublicPaths THEN Advance(c, "admitted")
       ELSE IF authToken = NoToken THEN Answer(c, 503)
       ELSE IF TokenMatches(BearerToken(request[c].header), authToken)
            THEN Advance(c, "admitted")
            ELSE Answer(c, 401)

Health(c) ==
    /\ phase[c] = "admitted"
    /\ WorkerFree
    /\ request[c].path = "/health" /\ request[c].method = "GET"
    /\ Answer(c, 200)

\* The router: an unknown path, or a known one with the wrong method.
NotRouted(c) ==
    /\ phase[c] = "admitted"
    /\ WorkerFree
    /\ \/ request[c].path = "/elsewhere" /\ Answer(c, 404)
       \/ request[c].path = "/health" /\ request[c].method # "GET" /\ Answer(c, 405)
       \/ request[c].path \in ProofPaths /\ request[c].method # "POST" /\ Answer(c, 405)

\* The Json extractor of generate_proof: without a JSON content type it
\* refuses, otherwise it awaits the whole body, without a timeout.
ReadBody(c) ==
    /\ phase[c] = "admitted"
    /\ WorkerFree
    /\ request[c].path \in ProofPaths /\ request[c].method = "POST"
    /\ \/ request[c].body = "untyped" /\ Answer(c, 415)
       \/ request[c].body # "untyped" /\ Advance(c, "reading")

\* A body the extractor does not accept (400, 413 or 422), or an accepted
\* one without agent_id.
BadBody(c) ==
    /\ phase[c] = "posted"
    /\ WorkerFree
    /\ \/ request[c].body = "malformed" /\ Answer(c, 422)
       \/ /\ request[c].body = "json" /\ request[c].agent = NoAgent
          /\ Answer(c, 400)

\* fetch_agent_repid sends its query.
Lookup(c) ==
    /\ phase[c] = "posted"
    /\ WorkerFree
    /\ request[c].body = "json" /\ request[c].agent # NoAgent
    /\ Advance(c, "looking")

\* Mistake: a score the client supplied wins over the stored one.
SupabaseRepliesSupplied(c) ==
    /\ phase[c] = "looking"
    /\ supabaseKey = "live"
    /\ phase' = [phase EXCEPT ![c] = "replied"]
    /\ stored' = [stored EXCEPT ![c] =
                    [rows[AgentBytes(request[c].agent)] EXCEPT !.score =
                        IF request[c].repid = NoScore THEN @ ELSE request[c].repid]]
    /\ UNCHANGED <<serviceVars, request, response, postcard>>

\* Supabase takes the key and reads the row, now; the handler resumes some
\* time later.
SupabaseReplies(c) ==
    /\ phase[c] = "looking"
    /\ supabaseKey = "live"
    /\ phase' = [phase EXCEPT ![c] = "replied"]
    /\ stored' = [stored EXCEPT ![c] = rows[AgentBytes(request[c].agent)]]
    /\ UNCHANGED <<serviceVars, request, response, postcard>>

\* A transport error, or a reply that is not the JSON array asked for: a
\* refused key among them.
SupabaseFails(c) ==
    /\ phase[c] = "looking"
    /\ phase' = [phase EXCEPT ![c] = "replied"]
    /\ stored' = [stored EXCEPT ![c] = Broken]
    /\ UNCHANGED <<serviceVars, request, response, postcard>>

\* Mistake: an unknown tier is not answered.
LookupErrorRowOnly(c) ==
    /\ phase[c] = "replied"
    /\ WorkerFree
    /\ \/ stored[c].kind = "absent" /\ Answer(c, 404)
       \/ stored[c].kind = "broken" /\ Answer(c, 500)

LookupError(c) ==
    /\ phase[c] = "replied"
    /\ WorkerFree
    /\ \/ stored[c].kind = "absent" /\ Answer(c, 404)
       \/ stored[c].kind = "broken" /\ Answer(c, 500)
       \/ /\ stored[c].kind = "found"
          /\ ~ThresholdKnown(request[c], stored[c])
          /\ Answer(c, 400)

NotAbove(c) ==
    /\ phase[c] = "replied"
    /\ WorkerFree
    /\ stored[c].kind = "found" /\ ThresholdKnown(request[c], stored[c])
    /\ ~Above(request[c], stored[c])
    /\ AnswerPostcard(c)

\* prove_range_check runs on the worker thread, in the handler itself.
StartProof(c) ==
    /\ phase[c] = "replied"
    /\ WorkerFree
    /\ stored[c].kind = "found" /\ ThresholdKnown(request[c], stored[c])
    /\ Above(request[c], stored[c])
    /\ Advance(c, "proving")

FinishProof(c) ==
    /\ phase[c] = "proving"
    /\ AnswerPostcard(c)

\* What the service itself does on a connection.
Serve(c) ==
    \/ Preflight(c) \/ RequireBearer(c) \/ Health(c) \/ NotRouted(c)
    \/ ReadBody(c) \/ BadBody(c) \/ Lookup(c) \/ LookupError(c) \/ NotAbove(c)
    \/ StartProof(c) \/ FinishProof(c)

Next ==
    \/ \E d \in Deployments : Configure(d)
    \/ Start
    \/ Stop
    \/ \E k \in Keys, row \in Rows : SetRow(k, row)
    \/ \E c \in Conns, req \in Requests : Send(c, req)
    \/ \E c \in Conns : BodyArrives(c) \/ Disconnect(c)
    \/ \E c \in Conns : SupabaseReplies(c) \/ SupabaseFails(c)
    \/ \E c \in Conns : Serve(c)

\* The runtime polls every ready task again and again.  Supabase, the
\* clients (the body of a request they began) and the operator owe nothing.
Fairness == \A c \in Conns : WF_vars(Serve(c))

Spec == Init /\ [][Next]_vars /\ Fairness
=============================================================================
