--------------------------- MODULE MCEdgeChecker ---------------------------
(* An instance of EdgeChecker for TLC.                                     *)
EXTENDS EdgeChecker

OneGet == [m \in Calls |-> IF m = "GET" THEN 1 ELSE 0]

\* A README that agrees with the code, and an engine that agrees with both.
Agreeing ==
    [files |-> TRUE, lock |-> "0.7", routes |-> Paths, unread |-> {}, below |-> {},
     layers |-> 1, public |-> {Health}, token |-> TRUE, same |-> TRUE,
     mentions |-> OneGet, unclear |-> 0, sends |-> OneGet, elsewhere |-> 0,
     other |-> FALSE, env |-> Vars,
     parts |-> TRUE,
     rows |-> [p \in Paths |-> IF p = Health THEN "Public" ELSE "Bearer token"],
     broken |-> TRUE, version |-> TRUE, claimed |-> TRUE, inline |-> {Prove},
     calls |-> {"GET"}, named |-> Vars, inCalls |-> Vars, domain |-> TRUE,
     calledBy |-> {Prove}, caller |-> TRUE, map |-> TRUE,
     engine |-> "checkout", builds |-> {Prove}, from |-> TRUE, host |-> TRUE]

Values(f) ==
    CASE f \in {"routes", "unread", "below", "public", "inline", "calledBy"} -> SUBSET Paths
      [] f = "lock" -> {"absent", "0.7", "0.8"}
      [] f = "layers" -> 0 .. 2
      [] f \in {"unclear", "elsewhere"} -> 0 .. 1
      [] f \in {"mentions", "sends"} -> [Calls -> 0 .. 2]
      [] f = "calls" -> SUBSET Calls
      [] f \in {"env", "named", "inCalls"} -> SUBSET Vars
      [] f = "rows" -> [Paths -> {"absent", "Public", "Bearer token"}]
      [] f = "engine" -> {"unset", "no src", "checkout"}
      [] f = "builds" -> SUBSET EnginePaths
      [] OTHER -> BOOLEAN

\* The same with an axum that routes braces, and a README that says so.
Upgraded == [Agreeing EXCEPT !.lock = "0.8", !.broken = FALSE]

\* The inputs that differ from one of the two in at most two respects.
TwoDifferences ==
    UNION {{[base EXCEPT ![fg[1]] = v, ![fg[2]] = w] :
                base \in {Agreeing, Upgraded},
                v \in Values(fg[1]), w \in Values(fg[2])} :
           fg \in (DOMAIN Agreeing) \X (DOMAIN Agreeing)}
=============================================================================
