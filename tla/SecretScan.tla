----------------------------- MODULE SecretScan -----------------------------
(***************************************************************************)
(* The secret-scan workflow (.github/workflows/secret-scan.yml): which     *)
(* commits a run scans, and what it says of them.                          *)
(*                                                                         *)
(* Developers push, create and force-push branches and open pull requests. *)
(* Each event starts a run, which clones the repository some time later,   *)
(* when other pushes have been made; runs finish in any order.             *)
(***************************************************************************)
EXTENDS Integers, FiniteSets, Bags

CONSTANTS
    Commits,    \* the commits developers will make
    Histories,  \* [parents, reach]: how they may hang together
    SecretSets, \* which of them may add a secret
    Branches,   \* branch names
    Default,    \* the default branch
    MaxEvents   \* bound on the pushes and pull requests

\* The first commit was made before the workflow existed.
First == 1
\* PUSH_BEFORE of a new branch: forty zeros.
Zero == 0

\* A commit reaches itself and what its parents reach (git rev-list).
ASSUME SecretScanAssumption ==
    /\ Commits \subseteq Nat \ {Zero} /\ First \in Commits
    /\ SecretSets \subseteq SUBSET (Commits \ {First})
    /\ Default \in Branches /\ MaxEvents \in Nat
    /\ \A h \in Histories :
          /\ h.parents \in [Commits -> SUBSET Commits]
          /\ h.reach \in [Commits \cup {Zero} -> SUBSET Commits]
          /\ h.reach[Zero] = {} /\ h.parents[First] = {}
          /\ \A c \in Commits :
                h.reach[c] = {c} \cup UNION {h.reach[p] : p \in h.parents[c]}

VARIABLES
    history,   \* the history developers are making
    secrets,   \* the commits whose diff adds a secret
    tip,       \* branch -> its commit
    events,    \* number of events so far
    queued,    \* a bag of the events whose runs have not been executed
    finished   \* what the others said, scanned and knew they left out

vars == <<history, secrets, tip, events, queued, finished>>

-----------------------------------------------------------------------------
Reachable(c) == history.reach[c]

OnBranches == UNION {Reachable(tip[b]) : b \in Branches}

\* gitleaks reads diffs, and a merge has none.
HasDiff(c) == Cardinality(history.parents[c]) < 2

\* The checkout has every branch, and the commit the event is about.
Clone(e) == OnBranches \cup Reachable(e.after)

\* The old tip is not in the clone.
TipOnly(e) == e.name = "push" /\ e.before # Zero /\ e.before \notin Clone(e)

\* Mistake: a new branch is its tip; its other commits are left out.
RangeNewTip(e) ==
    IF e.before = Zero \/ TipOnly(e) THEN {e.after}
    ELSE Reachable(e.after) \ Reachable(e.before)

\* Which commits the event adds, by the clone and the default branch of now.
CommitRange(e) ==
    CASE e.name = "pull_request" -> Reachable(e.after) \ Reachable(e.before)
      [] e.name = "push" /\ e.before = Zero ->
            Reachable(e.after) \ Reachable(tip[Default])
      [] TipOnly(e) -> {e.after}
      [] OTHER      -> Reachable(e.after) \ Reachable(e.before)

\* How gitleaks ends: with its count in the log, without it, or without it
\* and having read nothing.
Logs == {"count", "no count", "nothing"}

\* The commits gitleaks reads.
Read(e, log) == {c \in CommitRange(e) : log # "nothing" /\ HasDiff(c)}

\* Those it says it has scanned.
Scanned(e, log) == IF log = "count" THEN Read(e, log) ELSE {}

\* What the workflow knows it has not verified, and warns or comments about.
LeftOut(e, log) ==
    (IF TipOnly(e) THEN Reachable(e.after) \ {e.after} ELSE {})
        \cup (IF log = "count" THEN {} ELSE CommitRange(e))

\* Mistake: the commits counted are those in range.
VerdictInRange(e, log) ==
    IF Read(e, log) \cap secrets # {} THEN "FAILED"
    ELSE IF CommitRange(e) = {} THEN "NOT_CHECKED"
    ELSE "VERIFIED"

\* gitleaks exits 2 on a finding, counted or not, 0 otherwise.
Verdict(e, log) ==
    IF Read(e, log) \cap secrets # {} THEN "FAILED"
    ELSE IF Scanned(e, log) = {} THEN "NOT_CHECKED"
    ELSE "VERIFIED"

\* NOT_CHECKED is a warning: the job is green.
Red(r) == r.verdict \in {"FAILED", "ERROR"}

-----------------------------------------------------------------------------
Init ==
    /\ history \in Histories
    /\ secrets \in SecretSets
    /\ tip = [b \in Branches |-> IF b = Default THEN First ELSE Zero]
    /\ events = 0 /\ queued = EmptyBag /\ finished = {}

Enqueue(name, before, after) ==
    /\ events < MaxEvents
    /\ events' = events + 1
    /\ queued' = queued (+)
         SetToBag({[name |-> name, before |-> before, after |-> after]})
    /\ UNCHANGED <<history, secrets, finished>>

\* A fast-forward, a new branch or a force-push.
Push(b, c) ==
    /\ c # tip[b]
    /\ tip' = [tip EXCEPT ![b] = c]
    /\ Enqueue("push", tip[b], c)

\* No run is started for a branch that is gone.
Delete(b) ==
    /\ b # Default /\ tip[b] # Zero
    /\ tip' = [tip EXCEPT ![b] = Zero]
    /\ UNCHANGED <<history, secrets, events, queued, finished>>

\* From a branch or from a fork.
OpenPullRequest(c) ==
    /\ Enqueue("pull_request", tip[Default], c)
    /\ UNCHANGED tip

\* Mistake: the same event is run again.
FinishTwice(e, verdict, scanned, skipped) ==
    /\ finished' = finished \cup
         {[verdict |-> verdict, scanned |-> scanned, skipped |-> skipped]}
    /\ UNCHANGED <<history, secrets, tip, events, queued>>

Finish(e, verdict, scanned, skipped) ==
    /\ queued' = queued (-) SetToBag({e})
    /\ finished' = finished \cup
         {[verdict |-> verdict, scanned |-> scanned, skipped |-> skipped]}
    /\ UNCHANGED <<history, secrets, tip, events>>

\* The base of a pull request may have left the clone; then git fails.
Scan(e, log) ==
    /\ e.name = "pull_request" => e.before \in Clone(e)
    /\ Finish(e, Verdict(e, log), Scanned(e, log), LeftOut(e, log))

\* The checkout, the download, its checksum, git or gitleaks fails.
Break(e) == Finish(e, "ERROR", {}, {})

Next ==
    \/ \E b \in Branches, c \in Commits : Push(b, c)
    \/ \E b \in Branches : Delete(b)
    \/ \E c \in Commits : OpenPullRequest(c)
    \/ \E e \in BagToSet(queued), log \in Logs : Scan(e, log)
    \/ \E e \in BagToSet(queued) : Break(e)

Spec == Init /\ [][Next]_vars

-----------------------------------------------------------------------------
\* The copies in a bag.
Copies(bag) == UNION {{e} \X (1 .. bag[e]) : e \in BagToSet(bag)}

\* Branches point at commits or nowhere, the default one at a commit; no
\* event has two runs.
TypeOK ==
    /\ tip \in [Branches -> Commits \cup {Zero}] /\ tip[Default] # Zero
    /\ IsABag(queued) /\ Cardinality(Copies(queued)) + Cardinality(finished) <= events
    /\ \A r \in finished : r.scanned \cup r.skipped \subseteq Commits

\* Commits that came with a force-push of whose old tip nothing was left: of
\* those the workflow scans the new tip only, and its comment says so; and
\* those of a range for which gitleaks gave no count, which it warns about.
Skipped == UNION {r.skipped : r \in finished}

\* Once all runs are through and none is red, every commit on a branch that
\* has a diff, and came after the workflow, was scanned by some run and adds
\* no secret: whatever moved between a push and its run, the ranges of the
\* runs leave no commit between them.
GreenMeansClean ==
    queued = EmptyBag /\ (\A r \in finished : ~Red(r)) =>
        \A c \in OnBranches \ (Skipped \cup {First}) :
            HasDiff(c) => /\ \E r \in finished : c \in r.scanned
                          /\ c \notin secrets

\* No run says VERIFIED over nothing, a range of merges or a log without a
\* count included, nor over a commit that adds a secret.
VerifiedOverSomething ==
    \A r \in finished : r.verdict = "VERIFIED" =>
        r.scanned # {} /\ r.scanned \cap secrets = {}
=============================================================================
