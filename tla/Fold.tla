-------------------------------- MODULE Fold --------------------------------
(***************************************************************************)
(* Ledgers of progressive folds, kept with the fold command of             *)
(* src/bin/leaf.rs.                                                        *)
(*                                                                         *)
(* Callers of the command keep a ledger each: they fold one outcome after  *)
(* another into the last root the command printed.  A relying party is     *)
(* handed a statement, with or without a witness, and runs verify_fold.    *)
(***************************************************************************)
EXTENDS FoldStatement, FiniteSets

CONSTANTS
    Callers,        \* processes that run the fold command
    GenesisRoots,   \* prev_fold_root of a first fold
    Commitments, Nullifiers, Standards,             \* hashed arguments
    PrevStates, Outcomes, Weights, Thresholds,      \* numbers
    ClaimedScores,  \* scores a statement handed to a relying party may claim
    MaxFolds        \* bound on the folds in all ledgers

ASSUME FoldAssumption ==
    /\ GenesisRoots \subseteq U32 /\ Commitments \subseteq U32
    /\ Nullifiers \subseteq U32 /\ Standards \subseteq U32
    /\ PrevStates \subseteq U32 /\ Outcomes \subseteq U32
    /\ Weights \subseteq U32 /\ Thresholds \subseteq U32
    /\ ClaimedScores \subseteq U32
    /\ MaxFolds \in Nat

VARIABLES
    ledger,   \* caller -> its verified folds, in order
    check     \* the relying party's verify_fold

vars == <<ledger, check>>

-----------------------------------------------------------------------------
(* The callers and the relying party. *)

Arguments ==
    [commitment : Commitments, nullifier : Nullifiers,
     standards : Standards, threshold : Thresholds]

Witnesses ==
    {WitnessOf(p, o, k) : p \in PrevStates, o \in Outcomes, k \in Weights}

\* Where a fold stands: its caller and its place in the caller's ledger.
Positions == UNION {{<<c, i>> : i \in DOMAIN ledger[c]} : c \in Callers}

Folds == {ledger[at[1]][at[2]] : at \in Positions}

\* A caller continues from its own last root; its first fold starts afresh
\* or from a root another caller published.
PrevRoots(c) ==
    IF ledger[c] = <<>>
    THEN {Word(g) : g \in GenesisRoots} \cup {f.statement.new_fold_root : f \in Folds}
    ELSE {ledger[c][Len(ledger[c])].statement.new_fold_root}

\* Mistake: only a zero outcome makes the update vacuous.
UpdateBindingOutcome(w) == w.new_outcome # 0

\* weighted_update_binding in the printed answer.
UpdateBinding(w) == w.weight # 0 /\ w.new_outcome # 0

NoCheck == [done |-> FALSE]

Init ==
    /\ ledger = [c \in Callers |-> <<>>]
    /\ check = NoCheck

\* leaf fold: build, verify, and print the root only if verified; a refusal
\* is status 3 and no root.  Nothing ties prev_state to the score the
\* previous root commits to.
RunFold(c) ==
    /\ Cardinality(Positions) < MaxFolds
    /\ \E root \in PrevRoots(c), args \in Arguments, w \in Witnesses :
          LET s == BuildFold(root, args, w)
          IN  /\ VerifyFold(s, w) = "ok"
              /\ ledger' = [ledger EXCEPT ![c] = Append(@,
                    [statement |-> s, witness |-> w, binding |-> UpdateBinding(w)])]
    /\ UNCHANGED check

\* Statements in circulation about a fold: any of its fields may differ,
\* and the root is the published one or computed afresh.
InCirculation(s) ==
    LET changed ==
            {[s EXCEPT !.new_outcome_commitment = Word(k),
                       !.updated_components = u,
                       !.new_score = n,
                       !.threshold = t] :
                k \in Commitments, u \in ClaimedScores,
                n \in ClaimedScores, t \in Thresholds}
    IN  changed \cup {[r EXCEPT !.new_fold_root = ComputeFoldRoot(r)] : r \in changed}

\* verify_fold keeps no state, so one check per behaviour is enough.
Check ==
    /\ check = NoCheck
    /\ \E f \in Folds : \E s \in InCirculation(f.statement),
                           w \in {f.witness, NoWitness} :
          check' = [done |-> TRUE, fold |-> f, statement |-> s, witness |-> w,
                    answer |-> VerifyFold(s, w)]
    /\ UNCHANGED ledger

Next == (\E c \in Callers : RunFold(c)) \/ Check

Spec == Init /\ [][Next]_vars

-----------------------------------------------------------------------------
\* Every variable has its type: numbers are u32, roots are digests of five
\* encoded words, and every fold in a ledger is one the command printed.
TypeOK ==
    /\ DOMAIN ledger = Callers
    /\ \A f \in Folds :
          /\ f.witness \in Witnesses
          /\ f.statement.new_score \in U32
          /\ f.statement.new_fold_root = ComputeFoldRoot(f.statement)
    /\ check # NoCheck => check.fold \in Folds

\* Two statements hash the same field elements.
SameInputs(s, t) ==
    /\ \A field \in {"prev_fold_root", "new_outcome_commitment", "new_nullifier",
                   "user_standards_hash"} : Congruent(s[field], t[field])
    /\ Congruent(Word(s.updated_components), Word(t.updated_components))

\* A root stands for the history behind it: when two ledgers hold the same
\* root, the folds leading to it agree, element for element, for as far
\* back as both ledgers go.  Previous roots need no re-proving.
RootNamesHistory ==
    \A c, d \in Callers : \A i \in DOMAIN ledger[c], j \in DOMAIN ledger[d] :
        ledger[c][i].statement.new_fold_root = ledger[d][j].statement.new_fold_root
            => \A k \in 0 .. (IF i < j THEN i ELSE j) - 1 :
                  SameInputs(ledger[c][i - k].statement, ledger[d][j - k].statement)

\* What the command builds always passes its own verification, except for a
\* score below the threshold: whatever the ledgers hold, it refuses for
\* nothing else, and prints no root of a score below its threshold.
RefusedBelowThresholdOnly ==
    /\ \A c \in Callers : \A root \in PrevRoots(c), args \in Arguments, w \in Witnesses :
          VerifyFold(BuildFold(root, args, w), w) =
              IF WeightedUpdate(w) < args.threshold THEN "threshold" ELSE "ok"
    /\ \A f \in Folds : f.statement.new_score >= f.statement.threshold

\* weighted_update_binding tells a fold the outcome contributed to from one
\* it could not: without it the score is the old one, with it the score has
\* grown unless it was at the largest u32.
BindingMeansContribution ==
    \A f \in Folds :
        IF f.binding
        THEN \/ f.statement.new_score > f.witness.prev_state
             \/ f.witness.prev_state = MaxWord
        ELSE f.statement.new_score = f.witness.prev_state

\* A statement that verifies with a published root hashes the same elements
\* as every fold with that root, and the score it puts above the threshold
\* is the score the root commits to, up to multiples of the prime.
AcceptedRootBinds ==
    check # NoCheck /\ check.answer = "ok" =>
        \A f \in Folds :
            check.statement.new_fold_root = f.statement.new_fold_root =>
                /\ SameInputs(check.statement, f.statement)
                /\ Congruent(Word(check.statement.new_score),
                             Word(f.statement.new_score))

\* A statement that verifies with a witness never lowers the score below
\* the witness's previous one: the update neither wraps nor is skipped.
WitnessedNeverLower ==
    check # NoCheck /\ check.answer = "ok" /\ check.witness.given =>
        check.statement.new_score >= check.witness.prev_state

\* prev_state is not compared with the score the previous root commits to, so
\* a ledger may step down. It does so nowhere else: between two folds, the
\* later with the lower score, one stated a previous score below the score of
\* the fold it continues from.
StepDownStated ==
    \A c \in Callers : \A i, j \in DOMAIN ledger[c] :
        i < j /\ ledger[c][j].statement.new_score < ledger[c][i].statement.new_score
            => \E k \in i + 1 .. j :
                  ledger[c][k].witness.prev_state < ledger[c][k - 1].statement.new_score

-----------------------------------------------------------------------------
\* fold.rs:106-107 and 112: the claims returned with every Ok say what was
\* enforced, the weighted update among it.  A statement accepted under that
\* claim would also verify with the witness of the fold it is about.
ClaimsHonest ==
    check # NoCheck /\ check.answer = "ok" /\ FoldClaims.weighted_update =>
        check.statement.new_score = WeightedUpdate(check.fold.witness)
=============================================================================
