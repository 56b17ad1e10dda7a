---------------------------- MODULE EdgeChecker ----------------------------
(***************************************************************************)
(* scripts/check-readme-edges.mjs: the checks that compare README.md with  *)
(* the code and with the caller's source, which of them are skipped when   *)
(* an input is missing, and how their outcomes become an exit code.        *)
(*                                                                         *)
(* The files are abstracted to what the regular expressions find in them.  *)
(***************************************************************************)
EXTENDS Naturals, Sequences

Health == "/health"
Prove  == "/prove"
Brace  == "/prove/{id}"
Paths  == {Health, Prove, Brace}
Calls  == {"GET", "POST"}    \* methods of the requests to Supabase
Vars   == {"SUPABASE_URL", "PORT"}
\* Paths the checker finds in the caller: below /zkp or /prove, no braces.
EnginePaths == {Prove}
None   == 3                  \* the script is still running

InputType ==
    [files : BOOLEAN, lock : {"absent", "0.7", "0.8"},  \* the version of axum
     \* main.rs: routes of the form that is parsed, other routes, those added
     \* after the auth layer, the number of layers, PUBLIC_PATHS, whether the
     \* constant and the token's variable are found, and whether the route of
     \* Prove shares its handler as the README claims
     routes : SUBSET Paths, unread : SUBSET Paths, below : SUBSET Paths,
     layers : 0 .. 2, public : SUBSET Paths, token : BOOLEAN, same : BOOLEAN,
     \* src/: mentions of a URL by the nearest method, those with none near,
     \* the requests really sent, by method, those sent elsewhere, other means
     mentions : [Calls -> Nat], unclear : Nat,
     sends : [Calls -> Nat], elsewhere : Nat,
     other : BOOLEAN, env : SUBSET Vars,
     \* README.md: "Where this sits", the table, whether the row of Brace says
     \* that it does not work and names the version, paths in running text
     parts : BOOLEAN, rows : [Paths -> {"absent", "Public", "Bearer token"}],
     broken : BOOLEAN, version : BOOLEAN, claimed : BOOLEAN,
     inline : SUBSET Paths, calls : SUBSET Calls, named : SUBSET Vars,
     inCalls : SUBSET Vars, domain : BOOLEAN, calledBy : SUBSET Paths,
     caller : BOOLEAN, map : BOOLEAN,
     \* REPID_ENGINE_DIR: the prover paths built there, whether the files that
     \* should build them do, and whether the host there is the domain
     engine : {"unset", "no src", "checkout"}, builds : SUBSET EnginePaths,
     from : BOOLEAN, host : BOOLEAN]

CONSTANT Inputs  \* what the checker may find in the files

ASSUME EdgeAssumption == Inputs \subseteq InputType

VARIABLES
    input,    \* what the checker finds in the files
    done,     \* number of checks behind it
    results,  \* the outcomes recorded so far, by check
    exit      \* the exit code, or None

vars == <<input, done, results, exit>>

-----------------------------------------------------------------------------
\* The checks in the order of the script. Those of ByTable need a table of
\* endpoints, those of ByPart the parts of "Where this sits".
Checks == <<"inputs", "router", "structure", "table", "handlers", "notes", "auth",
            "inline", "outbound", "attributed", "calls", "env", "domain",
            "calledBy", "map", "engine">>
ByTable == {"handlers", "notes", "auth"}
ByPart  == {"calls", "calledBy", "map"}
\* These record nothing when they pass.
Silent  == {"inputs", "router", "outbound", "attributed"}

Recorded(check, outcome) == <<check, outcome>> \in results

Listed == {p \in Paths : input.rows[p] # "absent"}

\* axum before 0.8 takes braces literally.
NoteHolds ==
    /\ input.lock # "absent"
    /\ Brace \in input.routes =>
          IF input.lock = "0.7" THEN Brace \in Listed /\ input.broken /\ input.version
          ELSE ~(Brace \in Listed /\ input.broken)

\* Mistake: the position of the layer is not looked at.
AuthHoldsAnywhere ==
    /\ input.token /\ input.layers = 1 /\ input.public \subseteq input.routes
    /\ \A p \in Listed : input.rows[p] = "Public" <=> p \in input.public

AuthHolds ==
    /\ input.token /\ input.layers = 1
    /\ input.public \subseteq input.routes
    /\ \A p \in Listed : input.rows[p] = "Public" <=> p \in input.public
    /\ input.below \cap input.routes = {}

\* Mistake: the requests are not counted.
AttributedUncounted == TRUE

\* As many .send() as mentions of a URL, whichever belongs to which.
Attributed ==
    input.sends["GET"] + input.sends["POST"] + input.elsewhere
        = input.mentions["GET"] + input.mentions["POST"] + input.unclear

Mentioned == {m \in Calls : input.mentions[m] > 0}

EngineHolds ==
    /\ input.engine = "checkout" /\ input.host /\ input.from
    /\ input.builds \subseteq input.routes
    /\ input.calledBy \subseteq input.builds

Holds(check) ==
    /\ check = "inputs" => input.files
    /\ check = "router" => input.routes # {} /\ input.unread = {}
    /\ check = "structure" => input.parts
    /\ check = "table" => Listed # {} /\ Listed = input.routes
    /\ check = "handlers" =>
          (input.claimed /\ Prove \in Listed => Prove \in input.routes /\ input.same)
    /\ check = "notes" => NoteHolds
    /\ check = "auth" => AuthHolds
    /\ check = "inline" => input.inline \cup input.calledBy \subseteq input.routes
    /\ check = "outbound" => ~input.other
    /\ check = "attributed" => Attributed
    /\ check = "calls" => input.unclear = 0 /\ Mentioned = input.calls
    /\ check = "env" =>
          /\ input.env \subseteq input.named
          /\ Recorded("structure", "VERIFIED") =>
                input.env \cap {"SUPABASE_URL"} \subseteq input.inCalls
    /\ check = "domain" => input.domain
    /\ check = "calledBy" =>
          /\ input.caller /\ input.calledBy # {}
          /\ input.calledBy \subseteq input.routes
    /\ check = "map" => input.map
    /\ check = "engine" => EngineHolds

\* Mistake: the checks by part run whether or not the parts were found.
SkippedByTable(check) ==
    \/ check \in ByTable /\ Listed = {}
    \/ check \in Silent /\ Holds(check)

\* Mistake: without the token's variable there is nothing to compare.
SkippedTokenless(check) ==
    \/ check \in ByTable /\ Listed = {}
    \/ check \in ByPart /\ ~Recorded("structure", "VERIFIED")
    \/ check \in Silent /\ Holds(check)
    \/ check = "auth" /\ ~input.token

\* A check that has nothing to read is passed over.
Skipped(check) ==
    \/ check \in ByTable /\ Listed = {}
    \/ check \in ByPart /\ ~Recorded("structure", "VERIFIED")
    \/ check \in Silent /\ Holds(check)

Outcome(check) ==
    IF check = "engine" /\ input.engine = "unset" THEN "NOT CHECKED"
    ELSE IF Holds(check) THEN "VERIFIED" ELSE "FAILED"

\* Mistake: what could not be checked counts as verified.
ExitCodeTwoWay(rs) == IF \E r \in rs : r[2] = "FAILED" THEN 1 ELSE 0

ExitCode(rs) ==
    IF \E r \in rs : r[2] = "FAILED" THEN 1
    ELSE IF \E r \in rs : r[2] = "NOT CHECKED" THEN 2
    ELSE 0

Init == input \in Inputs /\ done = 0 /\ results = {} /\ exit = None

\* One check: its outcome is recorded, unless it is skipped.
RunCheck ==
    /\ exit = None /\ done < Len(Checks) /\ ~Recorded("inputs", "FAILED")
    /\ done' = done + 1
    /\ LET check == Checks[done + 1]
       IN  results' = IF Skipped(check) THEN results
                      ELSE results \cup {<<check, Outcome(check)>>}
    /\ UNCHANGED <<input, exit>>

\* At the end, or at once when a file is missing.
Finish ==
    /\ exit = None /\ (done = Len(Checks) \/ Recorded("inputs", "FAILED"))
    /\ exit' = ExitCode(results)
    /\ UNCHANGED <<input, done, results>>

Next == RunCheck \/ Finish

Spec == Init /\ [][Next]_vars
-----------------------------------------------------------------------------
\* Nothing is recorded twice, and no check has read a part of the README that
\* was not found.
TypeOK ==
    /\ done \in 0 .. Len(Checks) /\ exit \in {0, 1, 2, None}
    /\ \A r, s \in results : r[1] = s[1] => r = s
    /\ \A r \in results : r[1] \in ByPart => input.parts
    /\ \A r \in results : r[1] \in ByTable => Listed # {}

\* The routes the service answers on, and those it answers without a token:
\* require_bearer looks for the path of the request in PUBLIC_PATHS, which is
\* not the pattern of a route in braces.
Served ==
    {p \in input.routes \cup input.unread : p = Brace => input.lock = "0.8"}
Open ==
    {p \in Served : input.layers = 0 \/ p \in input.below \cup (input.public \ {Brace})}

\* When nothing failed, the README lists exactly the routes that are served,
\* and as public exactly those served without a token, whether a path is
\* exempt or stands below the layer.  A route in braces needs a token even if
\* PUBLIC_PATHS names its pattern, but the script has its row say "Public"
\* then: the one row whose word may be wrong.
ServedAsDocumented ==
    exit \in {0, 2} =>
        /\ Served = {p \in Listed : ~(p = Brace /\ input.broken)}
        /\ Open = {p \in Served \ {Brace} : input.rows[p] = "Public"}

\* When nothing failed, the README names the variables the service reads and
\* exactly the kinds of request it sends, and none goes elsewhere: unless some
\* URL is mentioned under a method more often than a request is sent by it
\* (twice for one request, in a text that is never sent, near another call),
\* for each such mention makes room for one request that the script misses.
CallsAsDocumented ==
    exit \in {0, 2} =>
        /\ ~input.other /\ input.env \subseteq input.named
        /\ (\A m \in Calls : input.mentions[m] <= input.sends[m]) =>
              /\ input.elsewhere = 0
              /\ {m \in Calls : input.sends[m] > 0} = input.calls

\* VERIFIED, exit code 0, says that the caller was looked at: every path the
\* README says it calls is one that its source builds and that is served, a
\* route in braces and a public one included.
CallersServed ==
    exit = 0 =>
        /\ input.engine = "checkout"
        /\ input.calledBy # {} /\ input.calledBy \subseteq input.builds
        /\ input.calledBy \cup input.builds \subseteq Served

\* What a check demands of the files, whatever was recorded before it.
Demand(check) ==
    IF check = "env"
    THEN /\ input.env \subseteq input.named
         /\ input.parts => input.env \cap {"SUPABASE_URL"} \subseteq input.inCalls
    ELSE Holds(check) \/ (check = "engine" /\ input.engine = "unset")

\* Checks are passed over, read what earlier ones recorded, and are not made
\* once a file is missing.  The exit code depends on none of it: it is 1
\* exactly when the files fail some check, made or not, and otherwise 2
\* exactly when there was no caller to look at.
ExitDecidedByFiles ==
    exit # None =>
        exit = IF \E i \in 1 .. Len(Checks) : ~Demand(Checks[i]) THEN 1
               ELSE IF input.engine = "unset" THEN 2 ELSE 0
=============================================================================
