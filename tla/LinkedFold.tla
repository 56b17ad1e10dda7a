----------------------------- MODULE LinkedFold -----------------------------
(***************************************************************************)
(* The linked fold of services/babybear-leaf/src/fold_c1.rs: three proofs, *)
(* each of one Poseidon2 permutation with some of its inputs and its       *)
(* output public, chained by check_chain.                                  *)
(*                                                                         *)
(* A prover makes proofs, from build_jobs or of any other trace under any  *)
(* public values: in a release build prove does not evaluate constraints.  *)
(* A relying party is handed a statement and one proof of each kind.       *)
(***************************************************************************)
EXTENDS Poseidon2, FiniteSets

CONSTANTS
    NewOutcomes, Blindings, Secrets, Scopes,   \* what witnesses open
    PrevFoldRoots, UpdatedComponents, UserStandards,
    Fillers,    \* what a prover may put in the lanes after the inputs
    MaxJobs,    \* bound on the witnesses build_jobs is run on
    MaxOther    \* bound on the other proofs made

ASSUME LinkedFoldAssumption ==
    /\ NewOutcomes \subseteq U32 /\ Blindings \subseteq U32
    /\ Secrets \subseteq U32 /\ Scopes \subseteq U32
    /\ PrevFoldRoots \subseteq U32 /\ UpdatedComponents \subseteq U32
    /\ UserStandards \subseteq U32 /\ Fillers \subseteq U32
    /\ MaxJobs \in Nat /\ MaxOther \in Nat

VARIABLES
    jobs,       \* the proofs made from build_jobs
    others,     \* the other proofs made
    accepted    \* the statement the relying party accepted, and how

vars == <<jobs, others, accepted>>

-----------------------------------------------------------------------------
(* Statements and the circuit. *)

NothingAccepted == [by |-> "nobody"]

Commitment(new_outcome, blinding) == Digest(<<new_outcome, blinding>>)

Nullifier(secret, scope) == Digest(<<secret, scope>>)

FoldWords(s) ==
    <<s.prev_fold_root, s.new_outcome_commitment, s.new_nullifier,
      s.updated_components, s.user_standards_hash>>

Witnesses ==
    [new_outcome : NewOutcomes, blinding : Blindings, secret : Secrets,
     scope : Scopes, prev_fold_root : PrevFoldRoots,
     updated_components : UpdatedComponents, user_standards_hash : UserStandards]

Derive(w) ==
    LET s == [prev_fold_root         |-> Word(w.prev_fold_root),
              new_outcome_commitment |-> Commitment(Word(w.new_outcome), Word(w.blinding)),
              new_nullifier          |-> Nullifier(Word(w.secret), Word(w.scope)),
              scope                  |-> Word(w.scope),
              updated_components     |-> Word(w.updated_components),
              user_standards_hash    |-> Word(w.user_standards_hash),
              new_fold_root          |-> Word(0)]
    IN  [s EXCEPT !.new_fold_root = Digest(FoldWords(s))]

Kinds == {"commitment", "nullifier", "fold"}

\* Mistake: the lanes are counted one too low.
PublicInputsShifted(kind) ==
    [commitment |-> <<>>, nullifier |-> <<1>>, fold |-> <<1, 2, 3, 4, 5>>][kind]

\* Mistake: the updated components are not among the public inputs.
PublicInputsFour(kind) ==
    [commitment |-> <<>>, nullifier |-> <<2>>, fold |-> <<1, 2, 3>>][kind]

\* Mistake: the scope stays private, as the secret does.
PublicInputsSecretScope(kind) ==
    [commitment |-> <<>>, nullifier |-> <<>>, fold |-> <<1, 2, 3, 4, 5>>][kind]

\* The input lanes that are public, in order (counted from 1).
PublicInputs(kind) ==
    [commitment |-> <<>>, nullifier |-> <<2>>, fold |-> <<1, 2, 3, 4, 5>>][kind]

\* What a statement makes public for one proof: inputs, then the output.
StatementInputs(kind, s) ==
    [commitment |-> <<>>, nullifier |-> <<s.scope>>, fold |-> FoldWords(s)][kind]

StatementOutput(kind, s) ==
    [commitment |-> s.new_outcome_commitment, nullifier |-> s.new_nullifier,
     fold |-> s.new_fold_root][kind]

PublicValues(kind, s) ==
    [inputs |-> StatementInputs(kind, s), output |-> StatementOutput(kind, s)]

\* Mistake: the permutation is constrained and the output is not bound.
BoundHashHoldsInputs(kind, trace, pis) ==
    \A i \in 1 .. Len(PublicInputs(kind)) :
        Congruent(trace[PublicInputs(kind)[i]], pis.inputs[i])

\* BoundHashAir: the listed input lanes and the output equal the public
\* values.  Every other lane of the trace is free.
BoundHashHolds(kind, trace, pis) ==
    /\ \A i \in 1 .. Len(PublicInputs(kind)) :
          Congruent(trace[PublicInputs(kind)[i]], pis.inputs[i])
    /\ Congruent(Permute(trace), pis.output)

\* A proof is bound to its circuit and to the values it was made under.
Verifies(kind, proof, pis) ==
    /\ proof.kind = kind
    /\ proof.pis = pis
    /\ BoundHashHolds(kind, proof.trace, pis)

\* Field elements travel as such: the public values of a proof are encoded.
Published(pis) ==
    [inputs |-> [i \in DOMAIN pis.inputs |-> Encode(pis.inputs[i])],
     output |-> Encode(pis.output)]

TraceInputs(kind, w, s) ==
    [commitment |-> <<Word(w.new_outcome), Word(w.blinding)>>,
     nullifier  |-> <<Word(w.secret), Word(w.scope)>>,
     fold       |-> FoldWords(s)][kind]

Job(kind, w) ==
    LET s == Derive(w)
    IN  [kind  |-> kind,
         trace |-> Pad(TraceInputs(kind, w, s)),
         pis   |-> Published(PublicValues(kind, s))]

BuildJobs(w) == {Job(kind, w) : kind \in Kinds}

\* Mistake: only the commitment is compared.
CheckChainCommitment(s, commitment_out, nullifier_out) ==
    commitment_out = s.new_outcome_commitment

CheckChain(s, commitment_out, nullifier_out) ==
    /\ commitment_out = s.new_outcome_commitment
    /\ nullifier_out = s.new_nullifier

-----------------------------------------------------------------------------
(* The prover and the relying party. *)

Proofs == jobs \cup others

Init ==
    /\ jobs = {} /\ others = {}
    /\ accepted = NothingAccepted

ProveJobs ==
    /\ Cardinality(jobs) <= 3 * (MaxJobs - 1)
    /\ \E w \in Witnesses : jobs' = jobs \cup BuildJobs(w)
    /\ UNCHANGED <<others, accepted>>

\* A trace with something in its free lanes, or public values of another
\* statement, or both.
ProveOther ==
    /\ Cardinality(others) < MaxOther
    /\ \E kind \in Kinds, w, v \in Witnesses, x \in Fillers :
          LET trace == [Job(kind, w).trace EXCEPT ![Lanes] = Word(x)]
              pis   == Job(kind, v).pis
          IN  \E out \in {pis.output, Permute(trace)} :
                others' = others \cup
                    {[kind |-> kind, trace |-> trace, pis |-> [pis EXCEPT !.output = out]]}
    /\ UNCHANGED <<jobs, accepted>>

\* The statements a relying party may be handed: derived ones, and what the
\* public values of a fold proof say, under any scope.
Handed ==
    {Derive(w) : w \in Witnesses} \cup
    {[prev_fold_root         |-> f.pis.inputs[1],
      new_outcome_commitment |-> f.pis.inputs[2],
      new_nullifier          |-> f.pis.inputs[3],
      scope                  |-> Word(scope),
      updated_components     |-> f.pis.inputs[4],
      user_standards_hash    |-> f.pis.inputs[5],
      new_fold_root          |-> f.pis.output] :
        f \in {p \in Proofs : p.kind = "fold"}, scope \in Scopes}

\* Each proof is verified under the values the statement gives it.
AcceptVerified ==
    /\ accepted = NothingAccepted
    /\ \E s \in Handed :
          /\ \E c, n, f \in Proofs :
                /\ Verifies("commitment", c, Published(PublicValues("commitment", s)))
                /\ Verifies("nullifier", n, Published(PublicValues("nullifier", s)))
                /\ Verifies("fold", f, Published(PublicValues("fold", s)))
                /\ CheckChain(s, c.pis.output, n.pis.output)
          /\ accepted' = [by |-> "statement", statement |-> s]
    /\ UNCHANGED <<jobs, others>>

\* Each proof is verified under the values it came with, and check_chain is
\* all that ties them to the statement.
AcceptChained ==
    /\ accepted = NothingAccepted
    /\ \E s \in Handed :
          /\ \E c, n, f \in Proofs :
                /\ Verifies("commitment", c, c.pis)
                /\ Verifies("nullifier", n, n.pis)
                /\ Verifies("fold", f, f.pis)
                /\ CheckChain(s, c.pis.output, n.pis.output)
          /\ accepted' = [by |-> "chain", statement |-> s]
    /\ UNCHANGED <<jobs, others>>

Next == ProveJobs \/ ProveOther \/ AcceptVerified \/ AcceptChained

Spec == Init /\ [][Next]_vars

-----------------------------------------------------------------------------
Opened(kind, p, s) ==
    /\ p.kind = kind
    /\ Permute(p.trace) = StatementOutput(kind, s)
    /\ \A i \in DOMAIN StatementInputs(kind, s) :
          Congruent(StatementInputs(kind, s)[i],
                    p.trace[IF kind = "nullifier" THEN 2 ELSE i])

\* Behind an accepted statement stand three traces somebody ran: one whose
\* digest is its commitment, one under its scope whose digest is its
\* nullifier, and one over its five words whose digest is its root.  No
\* mixture of proofs made for other statements, or under other values than
\* their trace gives, is accepted.
VerifiedOpens ==
    accepted.by = "statement" =>
        \A kind \in Kinds : \E p \in Proofs : Opened(kind, p, accepted.statement)

\* A nullifier belongs to one scope: no statement is accepted with the
\* nullifier of a witness under another scope than that witness's.
NullifierFixesScope ==
    accepted.by = "statement" =>
        \A w \in Witnesses :
            Derive(w).new_nullifier = accepted.statement.new_nullifier
                => Congruent(Word(w.scope), accepted.statement.scope)

\* A root belongs to one set of words: no statement is accepted with the
\* root of a witness and other words than that witness's.
RootFixesWords ==
    accepted.by = "statement" =>
        \A w \in Witnesses :
            Derive(w).new_fold_root = accepted.statement.new_fold_root =>
                \A i \in 1 .. 5 :
                    Congruent(FoldWords(Derive(w))[i], FoldWords(accepted.statement)[i])

\* The proofs of build_jobs verify against the statement it returns, which
\* check_chain then accepts.
JobsVerify ==
    \A w \in Witnesses :
        BuildJobs(w) \subseteq jobs =>
            LET s == Derive(w)
            IN  /\ \A kind \in Kinds :
                      Verifies(kind, Job(kind, w), Published(PublicValues(kind, s)))
                /\ CheckChain(s, Job("commitment", w).pis.output,
                                 Job("nullifier", w).pis.output)

\* check_chain is handed the folded commitment and nullifier by proofs that
\* verify: somebody ran the traces that give them.
ChainedFolds ==
    accepted.by = "chain" =>
        /\ \E p \in Proofs : p.kind = "commitment" /\ Permute(p.trace) = accepted.statement.new_outcome_commitment
        /\ \E p \in Proofs : p.kind = "nullifier" /\ Permute(p.trace) = accepted.statement.new_nullifier

-----------------------------------------------------------------------------
\* fold_c1.rs:11-15: the nullifier of an accepted statement is
\* Poseidon2(secret, scope) for some secret, and its root is
\* Poseidon2 of its five words.
HashesAsStated ==
    accepted.by = "statement" =>
        /\ \E secret \in U32 : accepted.statement.new_nullifier = Nullifier(Word(secret), accepted.statement.scope)
        /\ accepted.statement.new_fold_root = Digest(FoldWords(accepted.statement))
=============================================================================
