-------------------------- MODULE ProverProperties --------------------------
(* What the prover service guarantees, and the abstract specification it   *)
(* implements.                                                             *)
EXTENDS Prover

PostcardsSent == {c \in Conns : postcard[c] # NoPostcard}

ProofType ==
    [proved : {TRUE}, word : Nat,
     pv : [agent : Keys, threshold : FieldElements, repid : FieldElements]]

PostcardType ==
    [proofType : {"plonky3_range_check", "sha256_commitment_poc"},
     proof     : {NoProof} \cup ProofType,
     verified  : BOOLEAN,
     reason    : {"null", "not_above_threshold", "proving_failed"},
     leaf      : {NoLeaf} \cup (Keys \X FieldElements \X FieldElements),
     agent     : AgentIds, tier : STRING, threshold : Nat, repid : Nat,
     supplied  : Nat \cup {NoScore}]

\* Every variable has its type; Supabase's reply is on record from the
\* moment the handler may use it, and a status from the moment it is sent.
TypeOK ==
    /\ deployment \in Deployments
    /\ rows \in [Keys -> Rows]
    /\ up \in BOOLEAN
    /\ authToken \in Tokens \cup {NoToken}
    /\ supabaseKey \in KeyTexts \cup {Unset}
    /\ phase \in [Conns -> Phases]
    /\ request \in [Conns -> Requests \cup {NoRequest}]
    /\ stored \in [Conns -> Rows \cup {Broken, Unread}]
    /\ response \in [Conns -> {0, 200, 400, 401, 404, 405, 415, 422, 500, 503}]
    /\ postcard \in [Conns -> PostcardType \cup {NoPostcard}]
    /\ \A c \in Conns :
          /\ phase[c] # "idle" => request[c] \in Requests
          /\ phase[c] \in {"replied", "proving"} => stored[c] # Unread
          /\ phase[c] = "answered" <=> response[c] # 0

\* Whatever is past the auth layer on a protected path presented the token
\* of the process that is running now: no request is carried over a restart
\* or a token rotation, and none is let in while no token is configured.
InFlightAuthorised ==
    \A c \in Conns :
        /\ phase[c] \in {"admitted", "reading", "posted", "looking", "replied", "proving"}
        /\ request[c].path \notin PublicPaths
        => /\ up
           /\ authToken # NoToken
           /\ BearerToken(request[c].header) = authToken

\* A postcard says "verified" exactly when it carries a proof that verifies
\* under the public values rebuilt from the postcard's own fields, with a
\* leaf that commits to the same field elements; and it gives the reason
\* that applies when it does not.
PostcardHonest(p) ==
    LET pv == PublicValues(p.agent, p.threshold, p.repid)
    IN  /\ p.verified <=> Verifies(p.proof, pv)
        /\ p.verified => /\ p.repid > p.threshold
                         /\ p.leaf = <<pv.agent, pv.threshold, pv.repid>>
                         /\ p.reason = "null"
        /\ ~p.verified => /\ p.proof = NoProof
                          /\ p.leaf = NoLeaf
                          /\ p.reason = IF p.repid > p.threshold
                                        THEN "proving_failed"
                                        ELSE "not_above_threshold"

PostcardsHonest == \A c \in PostcardsSent : PostcardHonest(postcard[c])

\* tier_to_threshold and score_to_tier agree at every boundary but the
\* first: a proof for a tier, named or stored, without a threshold of the
\* client's own, is made exactly for the agents whose score is of that tier
\* or a higher one, and not for a score of 0.  Score 0 is of PROBATIONARY,
\* whose threshold of 0 is not below it as the other tiers' are, so an agent
\* of that score is refused its own tier.  A score above 10000, which
\* score_to_tier calls PROBATIONARY, is left out.
TierProofsExact ==
    \A c \in PostcardsSent :
        LET p == postcard[c]
        IN  request[c].threshold = NoThreshold /\ p.repid <= 10000
            => (p.verified <=>
                  /\ p.repid # 0
                  /\ TierThreshold[ScoreToTier(p.repid)] >= TierThreshold[p.tier])

\* A request is refused for its token only if what it presented, blanks
\* aside, is not the running process's token: 503 only for want of a token
\* in the process, 401 only for a different one.
RefusedForCause ==
    [][\A c \in Conns :
         response'[c] # response[c] =>
            LET header == request[c].header
            IN  /\ response'[c] = 503 => authToken = NoToken
                /\ response'[c] = 401 =>
                      /\ authToken # NoToken
                      /\ header.scheme = "bearer" => header.text.core # authToken]_vars

\* The service never leaves a request hanging, even when proofs occupy all
\* of its workers, except in the two awaits that have no timeout: for the
\* rest of the client's body, and for Supabase's answer.
RequestsSettle ==
    \A c \in Conns :
        []<>(phase[c] \in {"idle", "reading", "looking", "answered", "lost"})

\* However the operator renames the key among the names main accepts, a
\* restart comes up and looks scores up: it can start whenever some name is
\* set and every one that is set holds a live key.
KeyRenameSurvived ==
    /\ ~up /\ deployment.url /\ SetKeys(deployment) # {}
    /\ \A i \in SetKeys(deployment) : deployment.keys[i] = "live"
    => ENABLED (Start /\ supabaseKey' = "live")

-----------------------------------------------------------------------------
(* The abstract specification: a connection asks its question when the     *)
(* handler queries Supabase, the row is read when Supabase replies, and    *)
(* the HTTP answer is the reply.                                           *)

Asking(c) ==
    \/ phase[c] \in {"looking", "replied", "proving"}
    \/ phase[c] = "answered" /\ stored[c] # Unread

QuestionOf(req) ==
    [key |-> AgentBytes(req.agent), tier |-> req.tier, threshold |-> req.threshold]

\* What a client reads off an answer of the handler.
ReplyRead(c) ==
    CASE response[c] = 404 -> [kind |-> "no such agent"]
      [] response[c] = 500 -> [kind |-> "no answer from the store"]
      [] response[c] = 400 -> [kind |-> "no such tier"]
      [] OTHER ->
         LET p == postcard[c]
         IN  [kind |-> "postcard", key |-> AgentBytes(p.agent),
              threshold |-> p.threshold, score |-> p.repid, proven |-> p.verified]

Oracle == INSTANCE PostcardOracle WITH
    Askers    <- Conns,
    Questions <- {QuestionOf(req) : req \in Requests},
    question  <- [c \in Conns |->
                    IF Asking(c) THEN QuestionOf(request[c])
                    ELSE [key |-> <<>>, tier |-> "", threshold |-> -1]],
    seen      <- [c \in Conns |-> IF Asking(c) THEN stored[c] ELSE Unread],
    reply     <- [c \in Conns |->
                    IF Asking(c) /\ phase[c] = "answered" THEN ReplyRead(c)
                    ELSE [kind |-> "none"]]

\* Every answer about an agent comes from one reading of that agent's row
\* made while the request was in progress: never from the score the client
\* supplied, from another request's agent, or from two different readings;
\* and it says "proven" exactly when the oracle does.
AnswersFromStoredScore == Oracle!Spec
=============================================================================
