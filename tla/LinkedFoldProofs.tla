-------------------------- MODULE LinkedFoldProofs --------------------------
(***************************************************************************)
(* The invariants of LinkedFold, for every prime, word size, set of        *)
(* witnesses and number of proofs.                                         *)
(***************************************************************************)
EXTENDS LinkedFold, TLAPS

-----------------------------------------------------------------------------
(* Words and digests. *)

\* An argument, or an output of the permutation.
IsWord(w) == (\E n \in Nat : w = Word(n)) \/ Len(w) = Lanes

\* Encoded words, which field elements are.
Canonical(w) == Encode(w) = w

LEMMA Remainders ==
    ASSUME NEW n \in Nat
    PROVE  n % Prime \in Nat /\ (n % Prime) % Prime = n % Prime
<1>1. Prime \in Nat /\ Prime > 0
  BY Poseidon2Assumption
<1>2. n % Prime \in 0 .. Prime - 1
  BY <1>1
<1>3. \A m \in 0 .. Prime - 1 : m % Prime = m
  BY <1>1
<1> QED
  BY <1>2, <1>3

LEMMA EncodeWord ==
    ASSUME NEW w, IsWord(w)
    PROVE  IsWord(Encode(w)) /\ Canonical(Encode(w))
<1>1. CASE Len(w) = Lanes
  <2>1. Encode(w) = w
    BY <1>1, Poseidon2Assumption DEF Encode
  <2> QED
    BY <2>1 DEF Canonical
<1>2. ASSUME NEW n \in Nat, w = Word(n)
      PROVE  IsWord(Encode(w)) /\ Canonical(Encode(w))
  <2>1. \A m : Encode(Word(m)) = Word(m % Prime)
    BY DEF Encode, Word
  <2>2. Encode(w) = Word(n % Prime) /\ Encode(Word(n % Prime)) = Word(n % Prime)
    BY <1>2, <2>1, Remainders
  <2> QED
    BY <2>2, Remainders DEF IsWord, Canonical
<1> QED
  BY <1>1, <1>2 DEF IsWord

LEMMA PermuteWord ==
    ASSUME NEW lanes
    PROVE  /\ Len(Permute(lanes)) = Lanes
           /\ IsWord(Permute(lanes)) /\ Canonical(Permute(lanes))
           /\ \A i \in 1 .. Lanes : Permute(lanes)[i] = Encode(lanes[i])
<1>1. Permute(lanes) = [i \in 1 .. Lanes |-> Encode(lanes[i])] /\ Lanes \in Nat /\ 1 < Lanes
  BY Poseidon2Assumption DEF Permute
<1>2. Len(Permute(lanes)) = Lanes /\ \A i \in 1 .. Lanes : Permute(lanes)[i] = Encode(lanes[i])
  BY <1>1
<1>3. Canonical(Permute(lanes))
  BY <1>1, <1>2 DEF Canonical, Encode
<1> QED
  BY <1>2, <1>3 DEF IsWord

\* A word whose encoding is an output of the permutation is that output.
LEMMA OnlyDigests ==
    ASSUME NEW lanes, NEW w, IsWord(w), Congruent(Permute(lanes), Encode(w))
    PROVE  Permute(lanes) = w
<1>1. Permute(lanes) = Encode(w)
  BY PermuteWord, EncodeWord DEF Congruent, Canonical
<1>2. CASE Len(w) = Lanes
  BY <1>1, <1>2, Poseidon2Assumption DEF Encode
<1>3. ASSUME NEW n \in Nat, w = Word(n) PROVE FALSE
  <2>1. Len(Encode(w)) = 1
    BY <1>3 DEF Encode, Word
  <2> QED
    BY <1>1, <2>1, PermuteWord, Poseidon2Assumption
<1> QED
  BY <1>2, <1>3 DEF IsWord

LEMMA PadPair == \A a, b : Pad(<<a, b>>)[2] = b
  BY Poseidon2Assumption DEF Pad

-----------------------------------------------------------------------------
(* Statements. *)

StatementTyped(s) ==
    /\ IsWord(s.prev_fold_root) /\ IsWord(s.new_outcome_commitment)
    /\ IsWord(s.new_nullifier) /\ IsWord(s.scope) /\ IsWord(s.updated_components)
    /\ IsWord(s.user_standards_hash) /\ IsWord(s.new_fold_root)

LEMMA DeriveFacts ==
    ASSUME NEW w
    PROVE  LET s == Derive(w)
           IN  /\ s.prev_fold_root = Word(w.prev_fold_root)
               /\ s.new_outcome_commitment = Digest(<<Word(w.new_outcome), Word(w.blinding)>>)
               /\ s.new_nullifier = Digest(<<Word(w.secret), Word(w.scope)>>)
               /\ s.scope = Word(w.scope)
               /\ s.updated_components = Word(w.updated_components)
               /\ s.user_standards_hash = Word(w.user_standards_hash)
               /\ s.new_fold_root = Digest(FoldWords(s))
<1> DEFINE blank ==
             [prev_fold_root         |-> Word(w.prev_fold_root),
              new_outcome_commitment |-> Commitment(Word(w.new_outcome), Word(w.blinding)),
              new_nullifier          |-> Nullifier(Word(w.secret), Word(w.scope)),
              scope                  |-> Word(w.scope),
              updated_components     |-> Word(w.updated_components),
              user_standards_hash    |-> Word(w.user_standards_hash),
              new_fold_root          |-> Word(0)]
           s == Derive(w)
<1>1. s = [blank EXCEPT !.new_fold_root = Digest(FoldWords(blank))]
  BY DEF Derive
<1>2. FoldWords(s) = FoldWords(blank)
  BY <1>1 DEF FoldWords
<1>3. s.new_fold_root = Digest(FoldWords(blank))
  BY <1>1
<1>4. /\ s.prev_fold_root = Word(w.prev_fold_root)
      /\ s.new_outcome_commitment = Commitment(Word(w.new_outcome), Word(w.blinding))
      /\ s.new_nullifier = Nullifier(Word(w.secret), Word(w.scope))
      /\ s.scope = Word(w.scope)
      /\ s.updated_components = Word(w.updated_components)
      /\ s.user_standards_hash = Word(w.user_standards_hash)
  BY <1>1
<1> HIDE DEF blank, s
<1>5. s.new_fold_root = Digest(FoldWords(s))
  BY <1>2, <1>3
<1> QED
  BY <1>4, <1>5 DEF s, Commitment, Nullifier

LEMMA DeriveTyped ==
    ASSUME NEW w \in Witnesses
    PROVE  StatementTyped(Derive(w))
<1>1. \A n \in Nat : IsWord(Word(n))
  BY DEF IsWord
<1>2. \A ws : IsWord(Digest(ws))
  BY PermuteWord DEF Digest
<1>3. /\ w.prev_fold_root \in Nat /\ w.scope \in Nat
      /\ w.updated_components \in Nat /\ w.user_standards_hash \in Nat
  <2>1. /\ w.prev_fold_root \in PrevFoldRoots /\ w.scope \in Scopes
        /\ w.updated_components \in UpdatedComponents
        /\ w.user_standards_hash \in UserStandards
    BY DEF Witnesses
  <2>2. U32 \subseteq Nat
    BY Poseidon2Assumption DEF U32
  <2> QED
    BY <2>1, <2>2, LinkedFoldAssumption
<1> QED
  BY <1>1, <1>2, <1>3, DeriveFacts DEF StatementTyped

LEMMA KindLanes ==
    /\ PublicInputs("commitment") = <<>>
    /\ PublicInputs("nullifier") = <<2>>
    /\ PublicInputs("fold") = <<1, 2, 3, 4, 5>>
  BY DEF PublicInputs

LEMMA KindInputs ==
    \A s : /\ StatementInputs("commitment", s) = <<>>
           /\ StatementInputs("nullifier", s) = <<s.scope>>
           /\ StatementInputs("fold", s) = FoldWords(s)
  BY DEF StatementInputs

LEMMA KindOutputs ==
    \A s : /\ StatementOutput("commitment", s) = s.new_outcome_commitment
           /\ StatementOutput("nullifier", s) = s.new_nullifier
           /\ StatementOutput("fold", s) = s.new_fold_root
  BY DEF StatementOutput

LEMMA KindTraces ==
    \A w, s : /\ TraceInputs("commitment", w, s) = <<Word(w.new_outcome), Word(w.blinding)>>
              /\ TraceInputs("nullifier", w, s) = <<Word(w.secret), Word(w.scope)>>
              /\ TraceInputs("fold", w, s) = FoldWords(s)
  BY DEF TraceInputs

LEMMA Lengths ==
    /\ DOMAIN <<>> = {} /\ Len(<<>>) = 0
    /\ \A x : DOMAIN <<x>> = {1} /\ Len(<<x>>) = 1 /\ <<x>>[1] = x
    /\ \A s : DOMAIN FoldWords(s) = 1 .. 5
  BY DEF FoldWords

LEMMA FiveLanes ==
    /\ Len(<<1, 2, 3, 4, 5>>) = 5
    /\ \A i \in 1 .. 5 : <<1, 2, 3, 4, 5>>[i] = i
  OBVIOUS

LEMMA PadWords ==
    \A s : \A i \in 1 .. 5 : Pad(FoldWords(s))[i] = FoldWords(s)[i]
  BY Poseidon2Assumption DEF Pad, FoldWords

-----------------------------------------------------------------------------
(* Proofs. *)

\* What a verifying proof shows of the statement it is verified under.
LEMMA VerifiedProof ==
    ASSUME NEW s, StatementTyped(s), NEW kind \in Kinds, NEW p,
           Verifies(kind, p, Published(PublicValues(kind, s)))
    PROVE  Opened(kind, p, s)
<1> DEFINE pis == Published(PublicValues(kind, s))
<1>1. /\ p.kind = kind
      /\ \A i \in 1 .. Len(PublicInputs(kind)) :
            Encode(p.trace[PublicInputs(kind)[i]]) = Encode(pis.inputs[i])
      /\ Congruent(Permute(p.trace), pis.output)
  BY DEF Verifies, BoundHashHolds, Congruent
<1>2. /\ pis.output = Encode(StatementOutput(kind, s))
      /\ pis.inputs = [i \in DOMAIN StatementInputs(kind, s) |->
                         Encode(StatementInputs(kind, s)[i])]
  BY DEF Published, PublicValues
<1> HIDE DEF pis
<1>3. IsWord(StatementOutput(kind, s))
  BY KindOutputs DEF Kinds, StatementTyped
<1>4. Permute(p.trace) = StatementOutput(kind, s)
  BY <1>1, <1>2, <1>3, OnlyDigests
<1>5. CASE kind = "commitment"
  <2>1. DOMAIN StatementInputs(kind, s) = {}
    BY <1>5, KindInputs, Lengths
  <2> QED
    BY <1>1, <1>4, <2>1 DEF Opened
<1>6. CASE kind = "nullifier"
  <2>1. /\ StatementInputs(kind, s) = <<s.scope>> /\ PublicInputs(kind) = <<2>>
        /\ DOMAIN StatementInputs(kind, s) = {1}
    BY <1>6, KindInputs, KindLanes, Lengths
  <2>2. Encode(p.trace[2]) = Encode(Encode(s.scope))
    BY <1>1, <1>2, <2>1
  <2>3. Encode(p.trace[2]) = Encode(s.scope)
    BY <2>2, EncodeWord DEF StatementTyped, Canonical
  <2> QED
    BY <1>1, <1>4, <1>6, <2>1, <2>3 DEF Opened, Congruent
<1>7. CASE kind = "fold"
  <2>1. /\ StatementInputs(kind, s) = FoldWords(s)
        /\ PublicInputs(kind) = <<1, 2, 3, 4, 5>>
    BY <1>7, KindInputs, KindLanes
  <2>2. DOMAIN FoldWords(s) = 1 .. 5 /\ \A i \in 1 .. 5 : IsWord(FoldWords(s)[i])
    BY DEF FoldWords, StatementTyped
  <2>3. ASSUME NEW i \in 1 .. 5 PROVE Encode(p.trace[i]) = Encode(FoldWords(s)[i])
    <3>1. Encode(p.trace[i]) = Encode(Encode(FoldWords(s)[i]))
      BY <1>1, <1>2, <2>1, <2>2
    <3> QED
      BY <2>2, <3>1, EncodeWord DEF Canonical
  <2> QED
    BY <1>1, <1>4, <1>7, <2>1, <2>2, <2>3 DEF Opened, Congruent
<1> QED
  BY <1>5, <1>6, <1>7 DEF Kinds

\* The proofs of build_jobs verify against the statement it returns.
LEMMA JobVerifies ==
    ASSUME NEW w \in Witnesses, NEW kind \in Kinds
    PROVE  Verifies(kind, Job(kind, w), Published(PublicValues(kind, Derive(w))))
<1> DEFINE s   == Derive(w)
           pis == Published(PublicValues(kind, s))
           t   == Pad(TraceInputs(kind, w, s))
<1>1. StatementTyped(s)
  BY DeriveTyped
<1>2. /\ Job(kind, w).kind = kind /\ Job(kind, w).trace = t /\ Job(kind, w).pis = pis
  BY DEF Job
<1>3. /\ pis.output = Encode(StatementOutput(kind, s))
      /\ pis.inputs = [i \in DOMAIN StatementInputs(kind, s) |->
                         Encode(StatementInputs(kind, s)[i])]
  BY DEF Published, PublicValues
<1>4. StatementOutput(kind, s) = Permute(t)
  <2>1. CASE kind = "commitment"
    BY <2>1, KindOutputs, KindTraces, DeriveFacts DEF Digest
  <2>2. CASE kind = "nullifier"
    BY <2>2, KindOutputs, KindTraces, DeriveFacts DEF Digest
  <2>3. CASE kind = "fold"
    BY <2>3, KindOutputs, KindTraces, DeriveFacts DEF Digest
  <2> QED
    BY <2>1, <2>2, <2>3 DEF Kinds
<1> HIDE DEF pis, t
<1>5. Congruent(Permute(t), pis.output)
  BY <1>3, <1>4, PermuteWord DEF Congruent, Canonical
<1>6. ASSUME NEW i \in 1 .. Len(PublicInputs(kind))
      PROVE  Congruent(t[PublicInputs(kind)[i]], pis.inputs[i])
  <2>1. CASE kind = "commitment"
    BY <2>1, KindLanes, Lengths
  <2>2. CASE kind = "nullifier"
    <3>1. i = 1 /\ PublicInputs(kind)[i] = 2 /\ pis.inputs[i] = Encode(s.scope)
      <4>1. Len(PublicInputs(kind)) = 1 /\ PublicInputs(kind)[1] = 2
        BY <2>2, KindLanes, Lengths
      <4>2. pis.inputs[1] = Encode(s.scope)
        BY <1>3, <2>2, KindInputs, Lengths
      <4> QED
        BY <4>1, <4>2
    <3>2. t[2] = s.scope
      <4>1. t = Pad(<<Word(w.secret), Word(w.scope)>>)
        BY <2>2, KindTraces DEF t
      <4> QED
        BY <4>1, PadPair, DeriveFacts
    <3> QED
      BY <1>1, <3>1, <3>2, EncodeWord DEF StatementTyped, Congruent, Canonical
  <2>3. CASE kind = "fold"
    <3>1. i \in 1 .. 5 /\ PublicInputs(kind)[i] = i
      BY <2>3, KindLanes, FiveLanes
    <3>2. DOMAIN FoldWords(s) = 1 .. 5 /\ IsWord(FoldWords(s)[i])
      BY <1>1, <3>1 DEF FoldWords, StatementTyped
    <3>3. pis.inputs[i] = Encode(FoldWords(s)[i])
      BY <1>3, <2>3, <3>1, <3>2, KindInputs
    <3>4. t[i] = FoldWords(s)[i]
      <4>1. t = Pad(FoldWords(s))
        BY <2>3, KindTraces DEF t
      <4> QED
        BY <3>1, <4>1, PadWords
    <3> QED
      BY <3>1, <3>2, <3>3, <3>4, EncodeWord DEF Congruent, Canonical
  <2> QED
    BY <2>1, <2>2, <2>3 DEF Kinds
<1> QED
  BY <1>2, <1>5, <1>6 DEF Verifies, BoundHashHolds, pis

-----------------------------------------------------------------------------
(* The invariant. *)

\* What every proof carries, whoever made it: encoded public values.
ProofTyped(p) ==
    /\ p.kind \in Kinds
    /\ IsWord(p.pis.output) /\ Canonical(p.pis.output)
    /\ p.kind = "fold" => \A i \in 1 .. 5 : IsWord(p.pis.inputs[i])

IInv ==
    /\ \A p \in Proofs : ProofTyped(p)
    /\ VerifiedOpens
    /\ ChainedFolds

LEMMA JobTyped ==
    ASSUME NEW w \in Witnesses, NEW kind \in Kinds
    PROVE  ProofTyped(Job(kind, w))
<1> DEFINE s == Derive(w)
           j == Job(kind, w)
<1>1. StatementTyped(s)
  BY DeriveTyped
<1>2. /\ j.kind = kind
      /\ j.pis.output = Encode(StatementOutput(kind, s))
      /\ j.pis.inputs = [i \in DOMAIN StatementInputs(kind, s) |->
                           Encode(StatementInputs(kind, s)[i])]
  BY DEF Job, Published, PublicValues
<1> HIDE DEF j
<1>3. IsWord(StatementOutput(kind, s))
  BY <1>1, KindOutputs DEF Kinds, StatementTyped
<1>4. ASSUME kind = "fold", NEW i \in 1 .. 5 PROVE IsWord(j.pis.inputs[i])
  <2>1. DOMAIN FoldWords(s) = 1 .. 5 /\ IsWord(FoldWords(s)[i])
    BY <1>1, <1>4 DEF FoldWords, StatementTyped
  <2>2. j.pis.inputs[i] = Encode(FoldWords(s)[i])
    BY <1>2, <1>4, <2>1, KindInputs
  <2> QED
    BY <2>1, <2>2, EncodeWord
<1>5. ProofTyped(j)
  BY <1>2, <1>3, <1>4, EncodeWord DEF ProofTyped
<1> QED
  BY <1>5 DEF j

\* Statements that are handed to a relying party are made of words.
LEMMA HandedTyped ==
    ASSUME IInv, NEW s \in Handed
    PROVE  StatementTyped(s)
<1>1. CASE \E w \in Witnesses : s = Derive(w)
  BY <1>1, DeriveTyped
<1>2. ASSUME NEW f \in Proofs, f.kind = "fold", NEW scope \in Scopes,
             s = [prev_fold_root         |-> f.pis.inputs[1],
                  new_outcome_commitment |-> f.pis.inputs[2],
                  new_nullifier          |-> f.pis.inputs[3],
                  scope                  |-> Word(scope),
                  updated_components     |-> f.pis.inputs[4],
                  user_standards_hash    |-> f.pis.inputs[5],
                  new_fold_root          |-> f.pis.output]
      PROVE  StatementTyped(s)
  <2>1. IsWord(f.pis.output) /\ \A i \in 1 .. 5 : IsWord(f.pis.inputs[i])
    BY <1>2 DEF IInv, ProofTyped
  <2>2. scope \in Nat
    BY LinkedFoldAssumption, Poseidon2Assumption DEF U32
  <2>3. IsWord(Word(scope))
    BY <2>2 DEF IsWord
  <2> QED
    BY <1>2, <2>1, <2>3 DEF StatementTyped
<1> QED
  BY <1>1, <1>2 DEF Handed

\* More proofs leave what was accepted as it is.
LEMMA MoreProofs ==
    ASSUME IInv, Proofs \subseteq Proofs', \A p \in Proofs' \ Proofs : ProofTyped(p),
           UNCHANGED accepted
    PROVE  IInv'
<1>1. \A p \in Proofs' : ProofTyped(p)
  BY DEF IInv
<1>2. VerifiedOpens'
  BY DEF IInv, VerifiedOpens
<1>3. ChainedFolds'
  BY DEF IInv, ChainedFolds
<1> QED
  BY <1>1, <1>2, <1>3 DEF IInv

LEMMA ProveJobsInv == IInv /\ ProveJobs => IInv'
<1> SUFFICES ASSUME IInv, NEW w \in Witnesses, jobs' = jobs \cup BuildJobs(w),
                    UNCHANGED <<others, accepted>>
             PROVE  IInv'
  BY DEF ProveJobs
<1>1. \A p \in BuildJobs(w) : ProofTyped(p)
  BY JobTyped DEF BuildJobs
<1>2. Proofs' = Proofs \cup BuildJobs(w)
  BY DEF Proofs
<1> QED
  BY <1>1, <1>2, MoreProofs

LEMMA ProveOtherInv == IInv /\ ProveOther => IInv'
<1> SUFFICES ASSUME IInv, NEW kind \in Kinds, NEW w \in Witnesses, NEW v \in Witnesses,
                    NEW x \in Fillers, NEW trace, NEW pis,
                    trace = [Job(kind, w).trace EXCEPT ![Lanes] = Word(x)],
                    pis = Job(kind, v).pis,
                    NEW out \in {pis.output, Permute(trace)},
                    others' = others \cup
                       {[kind |-> kind, trace |-> trace, pis |-> [pis EXCEPT !.output = out]]},
                    UNCHANGED <<jobs, accepted>>
             PROVE  IInv'
  BY DEF ProveOther
<1> DEFINE p == [kind |-> kind, trace |-> trace, pis |-> [pis EXCEPT !.output = out]]
<1>1. p.kind = kind
  OBVIOUS
<1>2. p.pis.output = out /\ p.pis.inputs = pis.inputs
  BY DEF Job, Published
<1>3. ProofTyped(Job(kind, v)) /\ Job(kind, v).kind = kind
  BY JobTyped DEF Job
<1>4. Proofs' = Proofs \cup {p}
  BY DEF Proofs
<1> HIDE DEF p
<1>5. ProofTyped(p)
  BY <1>1, <1>2, <1>3, PermuteWord DEF ProofTyped
<1> QED
  BY <1>4, <1>5, MoreProofs

LEMMA AcceptVerifiedInv == IInv /\ AcceptVerified => IInv'
<1> SUFFICES ASSUME IInv, NEW s \in Handed, NEW c \in Proofs, NEW n \in Proofs, NEW f \in Proofs,
                    Verifies("commitment", c, Published(PublicValues("commitment", s))),
                    Verifies("nullifier", n, Published(PublicValues("nullifier", s))),
                    Verifies("fold", f, Published(PublicValues("fold", s))),
                    accepted' = [by |-> "statement", statement |-> s],
                    UNCHANGED <<jobs, others>>
             PROVE  IInv'
  BY DEF AcceptVerified
<1>1. Proofs' = Proofs
  BY DEF Proofs
<1>2. StatementTyped(s)
  BY HandedTyped
<1>3. Opened("commitment", c, s) /\ Opened("nullifier", n, s) /\ Opened("fold", f, s)
  BY <1>2, VerifiedProof DEF Kinds
<1>4. VerifiedOpens'
  BY <1>1, <1>3 DEF VerifiedOpens, Kinds
<1>5. ChainedFolds'
  BY DEF ChainedFolds
<1> QED
  BY <1>1, <1>4, <1>5 DEF IInv

LEMMA AcceptChainedInv == IInv /\ AcceptChained => IInv'
<1> SUFFICES ASSUME IInv, NEW s \in Handed, NEW c \in Proofs, NEW n \in Proofs,
                    Verifies("commitment", c, c.pis), Verifies("nullifier", n, n.pis),
                    CheckChain(s, c.pis.output, n.pis.output),
                    accepted' = [by |-> "chain", statement |-> s],
                    UNCHANGED <<jobs, others>>
             PROVE  IInv'
  BY DEF AcceptChained
<1>1. Proofs' = Proofs
  BY DEF Proofs
<1>2. Permute(c.trace) = c.pis.output /\ Permute(n.trace) = n.pis.output
  BY PermuteWord DEF IInv, ProofTyped, Verifies, BoundHashHolds, Congruent, Canonical
<1>3. ChainedFolds'
  BY <1>1, <1>2 DEF ChainedFolds, CheckChain, Verifies
<1>4. VerifiedOpens'
  BY DEF VerifiedOpens
<1> QED
  BY <1>1, <1>3, <1>4 DEF IInv

LEMMA Invariance == Spec => []IInv
<1>1. Init => IInv
  BY DEF Init, IInv, Proofs, VerifiedOpens, ChainedFolds, NothingAccepted
<1>2. IInv /\ UNCHANGED vars => IInv'
  BY DEF IInv, vars, Proofs, VerifiedOpens, ChainedFolds
<1>3. IInv /\ [Next]_vars => IInv'
  BY <1>2, ProveJobsInv, ProveOtherInv, AcceptVerifiedInv, AcceptChainedInv DEF Next
<1> QED
  BY <1>1, <1>3, PTL DEF Spec

-----------------------------------------------------------------------------
(* The theorems. *)

\* An accepted statement is opened by three traces: no mixture of proofs
\* made for other statements is accepted (fold_c1.rs, BoundHashAir::eval).
THEOREM LinkedOpens == Spec => []VerifiedOpens
<1>1. IInv => VerifiedOpens
  BY DEF IInv
<1> QED
  BY <1>1, Invariance, PTL

\* check_chain is handed a commitment and a nullifier that somebody computed.
THEOREM LinkedChained == Spec => []ChainedFolds
<1>1. IInv => ChainedFolds
  BY DEF IInv
<1> QED
  BY <1>1, Invariance, PTL

\* The nullifier of an accepted statement belongs to its scope.
THEOREM LinkedScope == Spec => []NullifierFixesScope
<1>1. VerifiedOpens => NullifierFixesScope
  <2> SUFFICES ASSUME VerifiedOpens, accepted.by = "statement", NEW w \in Witnesses,
                      Derive(w).new_nullifier = accepted.statement.new_nullifier
               PROVE  Congruent(Word(w.scope), accepted.statement.scope)
    BY DEF NullifierFixesScope
  <2>1. PICK p \in Proofs : Opened("nullifier", p, accepted.statement)
    BY DEF VerifiedOpens, Kinds
  <2>2. PICK s : s = accepted.statement
    OBVIOUS
  <2>3. StatementInputs("nullifier", s) = <<s.scope>>
        /\ StatementOutput("nullifier", s) = s.new_nullifier
    BY KindInputs, KindOutputs
  <2>4. /\ Permute(p.trace) = s.new_nullifier
        /\ Encode(s.scope) = Encode(p.trace[2])
    BY <2>1, <2>2, <2>3 DEF Opened, Congruent
  <2>5. Permute(p.trace)[2] = Encode(p.trace[2])
    BY PermuteWord, Poseidon2Assumption
  <2>6. Derive(w).new_nullifier[2] = Encode(Word(w.scope))
    <3>1. Derive(w).new_nullifier = Permute(Pad(<<Word(w.secret), Word(w.scope)>>))
      BY DeriveFacts DEF Digest
    <3>2. Pad(<<Word(w.secret), Word(w.scope)>>)[2] = Word(w.scope)
      BY PadPair
    <3> QED
      BY <3>1, <3>2, PermuteWord, Poseidon2Assumption
  <2> QED
    BY <2>2, <2>4, <2>5, <2>6 DEF Congruent
<1> QED
  BY <1>1, LinkedOpens, PTL

\* The root of an accepted statement belongs to its five words.
THEOREM LinkedWords == Spec => []RootFixesWords
<1>1. VerifiedOpens => RootFixesWords
  <2> SUFFICES ASSUME VerifiedOpens, accepted.by = "statement", NEW w \in Witnesses,
                      Derive(w).new_fold_root = accepted.statement.new_fold_root,
                      NEW i \in 1 .. 5
               PROVE  Congruent(FoldWords(Derive(w))[i], FoldWords(accepted.statement)[i])
    BY DEF RootFixesWords
  <2>1. PICK p \in Proofs : Opened("fold", p, accepted.statement)
    BY DEF VerifiedOpens, Kinds
  <2>2. PICK s, d : s = accepted.statement /\ d = Derive(w)
    OBVIOUS
  <2>3. /\ StatementInputs("fold", s) = FoldWords(s)
        /\ StatementOutput("fold", s) = s.new_fold_root
        /\ DOMAIN FoldWords(s) = 1 .. 5
    BY KindInputs, KindOutputs, Lengths
  <2>4. /\ Permute(p.trace) = s.new_fold_root
        /\ Encode(FoldWords(s)[i]) = Encode(p.trace[i])
    BY <2>1, <2>2, <2>3 DEF Opened, Congruent
  <2>5. Permute(p.trace)[i] = Encode(p.trace[i])
    BY PermuteWord, Poseidon2Assumption
  <2>6. d.new_fold_root = Permute(Pad(FoldWords(d)))
    BY <2>2, DeriveFacts DEF Digest
  <2>7. Pad(FoldWords(d))[i] = FoldWords(d)[i]
    BY PadWords
  <2>8. Permute(Pad(FoldWords(d)))[i] = Encode(FoldWords(d)[i])
    BY <2>7, PermuteWord, Poseidon2Assumption
  <2> QED
    BY <2>2, <2>4, <2>5, <2>6, <2>8 DEF Congruent
<1> QED
  BY <1>1, LinkedOpens, PTL

\* The proofs of build_jobs verify against their own statement, which
\* check_chain then accepts.
THEOREM LinkedJobs == Spec => []JobsVerify
<1>1. JobsVerify
  <2> SUFFICES ASSUME NEW w \in Witnesses
               PROVE  CheckChain(Derive(w), Job("commitment", w).pis.output,
                                            Job("nullifier", w).pis.output)
    BY JobVerifies DEF JobsVerify
  <2>1. /\ Job("commitment", w).pis.output = Encode(Derive(w).new_outcome_commitment)
        /\ Job("nullifier", w).pis.output = Encode(Derive(w).new_nullifier)
    BY KindOutputs DEF Job, Published, PublicValues
  <2>2. \A ws : Encode(Digest(ws)) = Digest(ws)
    BY PermuteWord DEF Digest, Canonical
  <2> QED
    BY <2>1, <2>2, DeriveFacts DEF CheckChain
<1> QED
  BY <1>1, PTL
=============================================================================
