------------------------------ MODULE MCProver ------------------------------
(* Instances of ProverProperties for TLC.  The field is scaled down with   *)
(* the range so that the real tier bounds (up to 10000) fit below both.    *)
EXTENDS ProverProperties, TLC

Uuid      == [uuid |-> TRUE, name |-> "a", hyphens |-> TRUE]
UuidPlain == [uuid |-> TRUE, name |-> "a", hyphens |-> FALSE]
Text      == [uuid |-> FALSE, name |-> "a", hyphens |-> FALSE]

Found(score, tier) == [kind |-> "found", score |-> score, tier |-> tier]
Missing            == [kind |-> "absent", score |-> 0, tier |-> ""]

Padded(t) == [core |-> t, pad |-> TRUE]
Plain(t)  == [core |-> t, pad |-> FALSE]
Blank     == Plain(NoToken)

Bearer(t)  == [scheme |-> "bearer", text |-> t]
NoHeader   == [scheme |-> "none", text |-> Blank]

Post(header, agent, tier, threshold, repid) ==
    [method |-> "POST", path |-> "/zkp/repid-proof", header |-> header,
     body |-> "json", agent |-> agent, tier |-> tier, threshold |-> threshold,
     repid |-> repid]

Call(method, path, header) ==
    [Post(header, NoAgent, NoTier, NoThreshold, NoScore) EXCEPT
        !.method = method, !.path = path]

Deployed(secret, service, role, token) ==
    [url |-> TRUE, keys |-> <<secret, service, role>>, token |-> token]

-----------------------------------------------------------------------------
(* The answers: one connection, many scores, tiers and thresholds, headers,*)
(* paths and methods, against a process restarted in many environments.    *)

AnswerTokens == {"k1", "k2"}
AnswerAgents == {Uuid}

AnswerDeployments ==
    {Deployed("live", Unset, Unset, Padded("k1")),
     Deployed(Unset, Unset, "live", Plain("k2")),
     Deployed("dead", "live", Unset, Padded(NoToken)),
     Deployed(Unset, Unset, Unset, Plain("k1"))}

Boundaries == {0, 1, 499, 500, 999, 1000, 4999, 5000, 7999, 8000, 10000}

AnswerRows ==
    {Found(s, ScoreToTier(s)) : s \in Boundaries}
    \cup {Found(s, "VETERAN") : s \in {24384, 65536 + 8500}}
    \cup {Found(9000, "CUSTODIED_DBT"), Missing, Broken}

Asked(tier, threshold, repid) ==
    Post(Bearer(Plain("k1")), Uuid, tier, threshold, repid)

AnswerRequests ==
    {Asked(tier, NoThreshold, NoScore) :
        tier \in ValidTiers \cup {NoTier, "EARNING_AUTONOMY"}}
    \cup {Asked(NoTier, threshold, NoScore) : threshold \in {0, 9999, 30720, 32768}}
    \cup {Asked("AUTONOMOUS", 30, 10000)}
    \cup {Post(h, Uuid, "EARNING", NoThreshold, NoScore) :
             h \in {NoHeader, Bearer(Blank), Bearer(Padded("k2")),
                    [scheme |-> "other", text |-> Plain("k1")]}}
    \cup {Call("GET", "/health", NoHeader), Call("POST", "/health", NoHeader),
          Call("GET", "/elsewhere", Bearer(Plain("k1"))),
          Call("GET", "/prove/trade_auth", Bearer(Plain("k1"))),
          Call("POST", "/prove/trade_auth", Bearer(Plain("k1"))),
          Call("OPTIONS", "/zkp/repid-proof", NoHeader)}
    \cup {[Call("POST", "/zkp/repid-proof", Bearer(Plain("k1"))) EXCEPT !.body = b] :
             b \in {"malformed", "untyped"}}

-----------------------------------------------------------------------------
(* Two connections share one worker thread: proof requests, a health check *)
(* and a preflight, about rows that change between the readings.           *)

RaceTokens      == {"k1"}
RaceDeployments == {Deployed("live", Unset, Unset, Plain("k1"))}

RaceAgents == {Uuid, UuidPlain, Text}
RaceRows   == {Found(600, "EARNING"), Found(400, "PLATINUM"), Missing}
RaceRequests ==
    {Post(Bearer(Plain("k1")), id, NoTier, NoThreshold, 10000) : id \in RaceAgents}
    \cup {Post(Bearer(Plain("k1")), Uuid, NoTier, 500, NoScore),
          Call("GET", "/health", NoHeader),
          Call("OPTIONS", "/prove/trade_auth", NoHeader)}
=============================================================================
