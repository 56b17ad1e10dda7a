--------------------------- MODULE FoldStatement ---------------------------
(* One step of the progressive fold of services/babybear-leaf, src/fold.rs:*)
(* the update rule, the statement and its root, and what verify_fold makes *)
(* of a statement.                                                         *)
EXTENDS Poseidon2

\* Mistake: the number is not clamped.
AtMostUnclamped(n) == n

AtMost(n) == IF n > MaxWord THEN MaxWord ELSE n

\* Mistake: the score is averaged with the outcome.
WeightedUpdateMean(w) ==
    AtMost((w.prev_state + AtMost(w.new_outcome * w.weight)) \div (1 + w.weight))

\* Saturating at u32::MAX, not at the prime.
WeightedUpdate(w) == AtMost(w.prev_state + AtMost(w.new_outcome * w.weight))

\* Mistake: the previous root is left out of the hash.
FoldInputUnlinked(s) ==
    <<s.new_outcome_commitment, s.new_nullifier,
      Word(s.updated_components), s.user_standards_hash>>

FoldInput(s) ==
    <<s.prev_fold_root, s.new_outcome_commitment, s.new_nullifier,
      Word(s.updated_components), s.user_standards_hash>>

ComputeFoldRoot(s) == Digest(FoldInput(s))

\* Mistake: the root is taken before the new score is in the statement.
BuildFoldEarly(root, args, w) ==
    LET new_score == WeightedUpdate(w)
        s == [prev_fold_root         |-> root,
              new_outcome_commitment |-> Word(args.commitment),
              new_nullifier          |-> Word(args.nullifier),
              updated_components     |-> w.prev_state,
              user_standards_hash    |-> Word(args.standards),
              threshold              |-> args.threshold,
              new_score              |-> new_score,
              new_fold_root          |-> Word(0)]
    IN  [s EXCEPT !.new_fold_root = ComputeFoldRoot(s),
                  !.updated_components = new_score]

BuildFold(root, args, w) ==
    LET new_score == WeightedUpdate(w)
        s == [prev_fold_root         |-> root,
              new_outcome_commitment |-> Word(args.commitment),
              new_nullifier          |-> Word(args.nullifier),
              updated_components     |-> new_score,
              user_standards_hash    |-> Word(args.standards),
              threshold              |-> args.threshold,
              new_score              |-> new_score,
              new_fold_root          |-> Word(0)]
    IN  [s EXCEPT !.new_fold_root = ComputeFoldRoot(s)]

NoWitness == [given |-> FALSE]

WitnessOf(prev_state, new_outcome, weight) ==
    [given |-> TRUE, prev_state |-> prev_state,
     new_outcome |-> new_outcome, weight |-> weight]

\* Mistake: the score the threshold is about is not compared with the
\* score the root commits to.
VerifyFoldUnbound(s, w) ==
    IF ComputeFoldRoot(s) # s.new_fold_root THEN "root"
    ELSE IF s.new_score < s.threshold THEN "threshold"
    ELSE IF w.given /\ WeightedUpdate(w) # s.new_score THEN "update"
    ELSE "ok"

\* Mistake: a witness is taken and not compared with the score.
VerifyFoldUnwitnessed(s, w) ==
    IF ComputeFoldRoot(s) # s.new_fold_root THEN "root"
    ELSE IF s.updated_components # s.new_score THEN "components"
    ELSE IF s.new_score < s.threshold THEN "threshold"
    ELSE "ok"

\* The first check that fails, in the order the code makes them.
VerifyFold(s, w) ==
    IF ComputeFoldRoot(s) # s.new_fold_root THEN "root"
    ELSE IF s.updated_components # s.new_score THEN "components"
    ELSE IF s.new_score < s.threshold THEN "threshold"
    ELSE IF w.given /\ WeightedUpdate(w) # s.new_score THEN "update"
    ELSE "ok"

\* FoldClaims::current, returned with every Ok.
FoldClaims ==
    [commitment_nullifier |-> FALSE, weighted_update |-> TRUE,
     fold_root_hash |-> TRUE, threshold_claim |-> TRUE]
=============================================================================
