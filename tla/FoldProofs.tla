----------------------------- MODULE FoldProofs -----------------------------
(***************************************************************************)
(* Theorems about Fold, for every prime, word size, set of callers and     *)
(* set of arguments.                                                       *)
(***************************************************************************)
EXTENDS Fold, TLAPS

-----------------------------------------------------------------------------
(* The digest. *)

\* The digest of five words has the elements of the five words in its lanes.
LEMMA DigestLanes ==
    ASSUME NEW a, NEW b, NEW c, NEW d, NEW e
    PROVE  LET h == Digest(<<a, b, c, d, e>>)
           IN  /\ h[1] = Encode(a) /\ h[2] = Encode(b) /\ h[3] = Encode(c)
               /\ h[4] = Encode(d) /\ h[5] = Encode(e)
               /\ Len(h) = Lanes
               /\ Encode(h) = h
<1> DEFINE ws == <<a, b, c, d, e>>
           p  == Pad(ws)
           h  == Digest(ws)
<1>1. /\ Len(ws) = 5
      /\ ws[1] = a /\ ws[2] = b /\ ws[3] = c /\ ws[4] = d /\ ws[5] = e
  OBVIOUS
<1>2. p[1] = a /\ p[2] = b /\ p[3] = c /\ p[4] = d /\ p[5] = e
  <2> HIDE DEF ws
  <2> QED BY <1>1, Poseidon2Assumption DEF Pad
<1>3. h = [i \in 1 .. Lanes |-> Encode(p[i])] /\ Lanes \in Nat /\ 5 < Lanes
  BY Poseidon2Assumption DEF Digest, Permute
<1>4. h[1] = Encode(a) /\ h[2] = Encode(b) /\ h[3] = Encode(c)
      /\ h[4] = Encode(d) /\ h[5] = Encode(e)
  <2> HIDE DEF p, h
  <2> QED BY <1>2, <1>3
<1>5. Len(h) = Lanes
  <2> HIDE DEF p, h
  <2> QED BY <1>3
<1>6. Encode(h) = h
  <2> HIDE DEF h
  <2> QED BY <1>3, <1>5 DEF Encode
<1> QED BY <1>4, <1>5, <1>6

\* Statements with one root hash the same field elements.
LEMMA RootInputs ==
    ASSUME NEW s, NEW t, ComputeFoldRoot(s) = ComputeFoldRoot(t)
    PROVE  SameInputs(s, t)
<1>1. /\ Congruent(s.prev_fold_root, t.prev_fold_root)
      /\ Congruent(s.new_outcome_commitment, t.new_outcome_commitment)
      /\ Congruent(s.new_nullifier, t.new_nullifier)
      /\ Congruent(Word(s.updated_components), Word(t.updated_components))
      /\ Congruent(s.user_standards_hash, t.user_standards_hash)
  BY DigestLanes DEF ComputeFoldRoot, FoldInput, Congruent
<1> QED BY <1>1 DEF SameInputs

\* Roots are digests: congruent ones are equal.
LEMMA RootsCanonical ==
    ASSUME NEW s, NEW t, Congruent(ComputeFoldRoot(s), ComputeFoldRoot(t))
    PROVE  ComputeFoldRoot(s) = ComputeFoldRoot(t)
BY DigestLanes DEF ComputeFoldRoot, FoldInput, Congruent

-----------------------------------------------------------------------------
(* The update rule. *)

\* The update stays within u32, never lowers the score, and leaves it alone
\* only when it is not binding or the score is at its largest.
LEMMA UpdateFacts ==
    ASSUME NEW w, w.prev_state \in U32, w.new_outcome \in U32, w.weight \in U32
    PROVE  /\ WeightedUpdate(w) \in U32
           /\ WeightedUpdate(w) >= w.prev_state
           /\ UpdateBinding(w) => \/ WeightedUpdate(w) > w.prev_state
                                  \/ w.prev_state = MaxWord
           /\ ~UpdateBinding(w) => WeightedUpdate(w) = w.prev_state
<1> DEFINE product == w.new_outcome * w.weight
<1>1. /\ MaxWord \in Nat
      /\ w.prev_state \in 0 .. MaxWord /\ w.new_outcome \in Nat /\ w.weight \in Nat
  BY Poseidon2Assumption DEF U32
<1>2. product \in Nat /\ (UpdateBinding(w) => product > 0) /\ (~UpdateBinding(w) => product = 0)
  BY <1>1 DEF UpdateBinding
<1> HIDE DEF product
<1>3. WeightedUpdate(w) = AtMost(w.prev_state + AtMost(product))
  BY DEF WeightedUpdate, product
<1> QED BY <1>1, <1>2, <1>3 DEF AtMost, U32

-----------------------------------------------------------------------------
(* What the command builds. *)

LEMMA WitnessTypes ==
    ASSUME NEW w \in Witnesses
    PROVE  /\ w.given
           /\ w.prev_state \in U32 /\ w.new_outcome \in U32 /\ w.weight \in U32
BY FoldAssumption DEF Witnesses, WitnessOf

\* The statement the command builds carries the root of its own elements
\* and the updated score in both places.
LEMMA BuildFacts ==
    ASSUME NEW root, NEW args, NEW w
    PROVE  LET s == BuildFold(root, args, w)
           IN  /\ s.prev_fold_root = root
               /\ s.updated_components = WeightedUpdate(w)
               /\ s.new_score = WeightedUpdate(w)
               /\ s.threshold = args.threshold
               /\ s.new_fold_root = ComputeFoldRoot(s)
<1> DEFINE score == WeightedUpdate(w)
           blank == [prev_fold_root         |-> root,
                     new_outcome_commitment |-> Word(args.commitment),
                     new_nullifier          |-> Word(args.nullifier),
                     updated_components     |-> score,
                     user_standards_hash    |-> Word(args.standards),
                     threshold              |-> args.threshold,
                     new_score              |-> score,
                     new_fold_root          |-> Word(0)]
           s == BuildFold(root, args, w)
<1>1. s = [blank EXCEPT !.new_fold_root = ComputeFoldRoot(blank)]
  BY DEF BuildFold
<1>2. FoldInput(s) = FoldInput(blank)
  BY <1>1 DEF FoldInput
<1>3. ComputeFoldRoot(s) = ComputeFoldRoot(blank)
  BY <1>2 DEF ComputeFoldRoot
<1>4. s.new_fold_root = ComputeFoldRoot(blank)
  BY <1>1
<1>5. /\ s.prev_fold_root = root /\ s.updated_components = score
      /\ s.new_score = score /\ s.threshold = args.threshold
  BY <1>1
<1> QED BY <1>3, <1>4, <1>5

\* It verifies, unless its score is below its threshold.
LEMMA BuildVerifies ==
    ASSUME NEW root, NEW args, NEW w
    PROVE  VerifyFold(BuildFold(root, args, w), w) =
               IF WeightedUpdate(w) < args.threshold THEN "threshold" ELSE "ok"
<1> DEFINE s == BuildFold(root, args, w)
<1>1. /\ ComputeFoldRoot(s) = s.new_fold_root
      /\ s.updated_components = s.new_score
      /\ s.new_score = WeightedUpdate(w)
      /\ s.threshold = args.threshold
  BY BuildFacts
<1> HIDE DEF s
<1>2. VerifyFold(s, w) = IF WeightedUpdate(w) < args.threshold THEN "threshold" ELSE "ok"
  BY <1>1 DEF VerifyFold
<1> QED BY <1>2 DEF s

\* What holds of every fold the command prints.
Genuine(f) ==
    /\ f.witness \in Witnesses
    /\ f.statement.new_score = WeightedUpdate(f.witness)
    /\ f.statement.updated_components = f.statement.new_score
    /\ f.statement.new_fold_root = ComputeFoldRoot(f.statement)
    /\ f.statement.new_score >= f.statement.threshold
    /\ f.binding = UpdateBinding(f.witness)

LEMMA BuiltIsGenuine ==
    ASSUME NEW root, NEW args \in Arguments, NEW w \in Witnesses,
           VerifyFold(BuildFold(root, args, w), w) = "ok"
    PROVE  Genuine([statement |-> BuildFold(root, args, w), witness |-> w,
                    binding |-> UpdateBinding(w)])
<1>1. ~(WeightedUpdate(w) < args.threshold)
  BY BuildVerifies
<1>2. args.threshold \in Nat
  <2>1. args.threshold \in Thresholds
    BY DEF Arguments
  <2>2. Thresholds \subseteq Nat
    BY FoldAssumption, Poseidon2Assumption DEF U32
  <2> QED BY <2>1, <2>2
<1>3. WeightedUpdate(w) \in Nat
  BY WitnessTypes, UpdateFacts, Poseidon2Assumption DEF U32
<1> DEFINE s == BuildFold(root, args, w)
<1>4. /\ s.updated_components = WeightedUpdate(w)
      /\ s.new_score = WeightedUpdate(w)
      /\ s.threshold = args.threshold
      /\ s.new_fold_root = ComputeFoldRoot(s)
  BY BuildFacts
<1> HIDE DEF s
<1>5. Genuine([statement |-> s, witness |-> w, binding |-> UpdateBinding(w)])
  BY <1>1, <1>2, <1>3, <1>4 DEF Genuine
<1> QED BY <1>5 DEF s

\* The facts the properties read off a genuine fold.
LEMMA GenuineFacts ==
    ASSUME NEW f, Genuine(f)
    PROVE  /\ f.statement.new_score \in U32
           /\ f.statement.new_score >= f.witness.prev_state
           /\ IF f.binding
              THEN \/ f.statement.new_score > f.witness.prev_state
                   \/ f.witness.prev_state = MaxWord
              ELSE f.statement.new_score = f.witness.prev_state
<1> DEFINE w == f.witness
<1>1. w.prev_state \in U32 /\ w.new_outcome \in U32 /\ w.weight \in U32
  BY WitnessTypes DEF Genuine
<1>2. /\ WeightedUpdate(w) \in U32
      /\ WeightedUpdate(w) >= w.prev_state
      /\ UpdateBinding(w) => \/ WeightedUpdate(w) > w.prev_state
                             \/ w.prev_state = MaxWord
      /\ ~UpdateBinding(w) => WeightedUpdate(w) = w.prev_state
  BY <1>1, UpdateFacts
<1>3. f.statement.new_score = WeightedUpdate(w) /\ f.binding = UpdateBinding(w)
  BY DEF Genuine
<1> HIDE DEF w
<1>4. UpdateBinding(w) \in BOOLEAN
  BY DEF UpdateBinding
<1> QED BY <1>2, <1>3, <1>4 DEF w

-----------------------------------------------------------------------------
(* The ledgers. *)

IsSequence(s) == \E S : s \in Seq(S)

LEMMA AppendFacts ==
    ASSUME NEW s, NEW f, IsSequence(s)
    PROVE  LET t == Append(s, f)
           IN  /\ IsSequence(t)
               /\ Len(s) \in Nat
               /\ DOMAIN s = 1 .. Len(s) /\ DOMAIN t = 1 .. Len(s) + 1
               /\ t[Len(s) + 1] = f
               /\ \A i \in 1 .. Len(s) : t[i] = s[i]
<1>1. PICK S : s \in Seq(S)
  BY DEF IsSequence
<1>2. s \in Seq(S \cup {f})
  BY <1>1
<1>3. Append(s, f) \in Seq(S \cup {f})
  BY <1>2
<1>4. IsSequence(Append(s, f))
  BY <1>3 DEF IsSequence
<1> QED BY <1>2, <1>4

\* Ledgers are sequences, of genuine folds, each from the one before.
Sequences ==
    /\ ledger = [c \in Callers |-> ledger[c]]
    /\ \A c \in Callers : IsSequence(ledger[c])

AllGenuine ==
    \A c \in Callers : \A i \in DOMAIN ledger[c] : Genuine(ledger[c][i])

Linked ==
    \A c \in Callers : \A i \in DOMAIN ledger[c] :
        i # 1 => /\ i \in Nat /\ i - 1 \in DOMAIN ledger[c]
                 /\ ledger[c][i].statement.prev_fold_root
                       = ledger[c][i - 1].statement.new_fold_root

\* The relying party's answer is verify_fold's, about a fold in a ledger.
CheckInv ==
    check # NoCheck =>
        /\ check.fold \in Folds
        /\ check.answer = VerifyFold(check.statement, check.witness)
        /\ check.witness \in {check.fold.witness, NoWitness}

IInv ==
    /\ Sequences
    /\ AllGenuine
    /\ Linked
    /\ RootNamesHistory
    /\ CheckInv

\* The folds are the entries of the ledgers.
LEMMA FoldsAreEntries ==
    \A f : f \in Folds <=> \E c \in Callers : \E i \in DOMAIN ledger[c] : f = ledger[c][i]
<1>1. ASSUME NEW f, f \in Folds
      PROVE  \E c \in Callers : \E i \in DOMAIN ledger[c] : f = ledger[c][i]
  <2>1. PICK at \in Positions : f = ledger[at[1]][at[2]]
    BY <1>1 DEF Folds
  <2>2. PICK c \in Callers : at \in {<<c, i>> : i \in DOMAIN ledger[c]}
    BY <2>1 DEF Positions
  <2>3. PICK i \in DOMAIN ledger[c] : at = <<c, i>>
    BY <2>2
  <2> QED BY <2>1, <2>3
<1>2. ASSUME NEW f, NEW c \in Callers, NEW i \in DOMAIN ledger[c], f = ledger[c][i]
      PROVE  f \in Folds
  <2>1. <<c, i>> \in Positions
    BY DEF Positions
  <2> QED BY <2>1, <1>2 DEF Folds
<1> QED BY <1>1, <1>2

\* What running the command does to the ledgers.
LEMMA RunFoldEffect ==
    ASSUME Sequences, NEW c \in Callers, RunFold(c)
    PROVE  \E f :
              /\ Genuine(f)
              /\ f.statement.prev_fold_root \in PrevRoots(c)
              /\ ledger' = [ledger EXCEPT ![c] = Append(@, f)]
<1>1. PICK root \in PrevRoots(c), args \in Arguments, w \in Witnesses :
          /\ VerifyFold(BuildFold(root, args, w), w) = "ok"
          /\ ledger' = [ledger EXCEPT ![c] = Append(@,
                [statement |-> BuildFold(root, args, w), witness |-> w,
                 binding |-> UpdateBinding(w)])]
  BY DEF RunFold
<1> DEFINE f == [statement |-> BuildFold(root, args, w), witness |-> w,
                 binding |-> UpdateBinding(w)]
<1>2. Genuine(f)
  BY <1>1, BuiltIsGenuine
<1>3. f.statement.prev_fold_root = root
  <2>1. f.statement = BuildFold(root, args, w)
    OBVIOUS
  <2> QED BY <2>1, BuildFacts
<1> QED BY <1>1, <1>2, <1>3

\* Running the command keeps the old entries and adds one.
LEMMA RunFoldEntries ==
    ASSUME IInv, NEW c \in Callers, RunFold(c)
    PROVE  /\ Sequences' /\ AllGenuine' /\ Linked'
           /\ \A x \in Callers : \A i \in DOMAIN ledger[x] :
                 i \in DOMAIN ledger'[x] /\ ledger'[x][i] = ledger[x][i]
           /\ \A x \in Callers : \A i \in DOMAIN ledger'[x] :
                 i \in Nat \ {0} /\ (i # 1 => i - 1 \in DOMAIN ledger[x])
<1> USE DEF IInv
<1>1. PICK f :
          /\ Genuine(f)
          /\ f.statement.prev_fold_root \in PrevRoots(c)
          /\ ledger' = [ledger EXCEPT ![c] = Append(@, f)]
  BY RunFoldEffect
<1> DEFINE n == Len(ledger[c])
<1>2. /\ ledger'[c] = Append(ledger[c], f)
      /\ \A x \in Callers : x # c => ledger'[x] = ledger[x]
      /\ ledger' = [x \in Callers |-> ledger'[x]]
  BY <1>1 DEF Sequences
<1>3. /\ IsSequence(ledger'[c])
      /\ n \in Nat
      /\ DOMAIN ledger[c] = 1 .. n /\ DOMAIN ledger'[c] = 1 .. n + 1
      /\ ledger'[c][n + 1] = f
      /\ \A i \in 1 .. n : ledger'[c][i] = ledger[c][i]
  <2>1. PICK s : s = ledger[c]
    OBVIOUS
  <2>2. IsSequence(s)
    BY <2>1 DEF Sequences
  <2> QED BY <2>1, <2>2, <1>2, AppendFacts
<1> HIDE DEF n
<1>4. Sequences'
  BY <1>2, <1>3 DEF Sequences
<1>5. AllGenuine'
  BY <1>1, <1>2, <1>3 DEF AllGenuine
<1>6. n # 0 => f.statement.prev_fold_root = ledger[c][n].statement.new_fold_root
  <2>1. n # 0 => ledger[c] # <<>>
    BY DEF n
  <2> QED BY <1>1, <2>1 DEF PrevRoots, n
<1>7. Linked'
  <2> SUFFICES ASSUME NEW x \in Callers, NEW i \in DOMAIN ledger'[x], i # 1
               PROVE  /\ i \in Nat /\ i - 1 \in DOMAIN ledger'[x]
                      /\ ledger'[x][i].statement.prev_fold_root
                            = ledger'[x][i - 1].statement.new_fold_root
    BY DEF Linked
  <2>1. CASE x # c
    BY <2>1, <1>2 DEF Linked
  <2>2. CASE x = c /\ i = n + 1
    BY <2>2, <1>3, <1>6
  <2>3. CASE x = c /\ i # n + 1
    <3>1. i \in 1 .. n /\ i \in Nat /\ i - 1 \in 1 .. n
      BY <2>3, <1>3
    <3>2. ledger[c][i].statement.prev_fold_root
            = ledger[c][i - 1].statement.new_fold_root
      BY <3>1, <1>3 DEF Linked
    <3> QED BY <2>3, <3>1, <3>2, <1>3
  <2> QED BY <2>1, <2>2, <2>3
<1>8. \A x \in Callers : \A i \in DOMAIN ledger[x] :
          i \in DOMAIN ledger'[x] /\ ledger'[x][i] = ledger[x][i]
  BY <1>2, <1>3
<1>9. \A x \in Callers : \A i \in DOMAIN ledger'[x] :
          i \in Nat \ {0} /\ (i # 1 => i - 1 \in DOMAIN ledger[x])
  <2> SUFFICES ASSUME NEW x \in Callers, NEW i \in DOMAIN ledger'[x]
               PROVE  i \in Nat \ {0} /\ (i # 1 => i - 1 \in DOMAIN ledger[x])
    OBVIOUS
  <2>1. CASE x = c
    BY <2>1, <1>3
  <2>2. CASE x # c
    <3>1. PICK s : s = ledger[x]
      OBVIOUS
    <3>2. IsSequence(s)
      BY <3>1 DEF Sequences
    <3>3. DOMAIN s = 1 .. Len(s) /\ Len(s) \in Nat
      BY <3>2, AppendFacts
    <3> QED BY <2>2, <3>1, <3>3, <1>2
  <2> QED BY <2>1, <2>2
<1> QED BY <1>4, <1>5, <1>7, <1>8, <1>9

-----------------------------------------------------------------------------
(* The invariant. *)

\* One more fold back: equal roots hash equal previous roots, which the old
\* ledgers already hold.
LEMMA HistoryStep ==
    ASSUME IInv, NEW c \in Callers, RunFold(c)
    PROVE  RootNamesHistory'
<1> SUFFICES ASSUME NEW x \in Callers, NEW y \in Callers,
                    NEW i \in DOMAIN ledger'[x], NEW j \in DOMAIN ledger'[y],
                    ledger'[x][i].statement.new_fold_root
                      = ledger'[y][j].statement.new_fold_root,
                    NEW k \in 0 .. (IF i < j THEN i ELSE j) - 1
             PROVE  SameInputs(ledger'[x][i - k].statement, ledger'[y][j - k].statement)
  BY DEF RootNamesHistory
<1>1. /\ Sequences' /\ AllGenuine' /\ Linked'
      /\ \A z \in Callers : \A m \in DOMAIN ledger[z] :
            m \in DOMAIN ledger'[z] /\ ledger'[z][m] = ledger[z][m]
      /\ \A z \in Callers : \A m \in DOMAIN ledger'[z] :
            m \in Nat \ {0} /\ (m # 1 => m - 1 \in DOMAIN ledger[z])
  BY RunFoldEntries
<1>2. i \in Nat \ {0} /\ j \in Nat \ {0}
  BY <1>1
<1>3. SameInputs(ledger'[x][i].statement, ledger'[y][j].statement)
  <2>1. PICK s, t : s = ledger'[x][i].statement /\ t = ledger'[y][j].statement
    OBVIOUS
  <2>2. s.new_fold_root = ComputeFoldRoot(s) /\ t.new_fold_root = ComputeFoldRoot(t)
    BY <1>1, <2>1 DEF AllGenuine, Genuine
  <2>3. ComputeFoldRoot(s) = ComputeFoldRoot(t)
    BY <2>1, <2>2
  <2> QED BY <2>1, <2>3, RootInputs
<1>4. CASE k = 0
  BY <1>2, <1>3, <1>4
<1>5. CASE k # 0
  <2>1. /\ i # 1 /\ j # 1 /\ k - 1 \in 0 .. (IF i - 1 < j - 1 THEN i - 1 ELSE j - 1) - 1
        /\ (i - 1) - (k - 1) = i - k /\ (j - 1) - (k - 1) = j - k
    BY <1>2, <1>5
  <2>2. i - 1 \in DOMAIN ledger[x] /\ j - 1 \in DOMAIN ledger[y]
    BY <1>1, <2>1
  <2>3. ledger[x][i - 1].statement.new_fold_root
          = ledger[y][j - 1].statement.new_fold_root
    <3>1. PICK a, b : a = ledger[x][i - 1].statement /\ b = ledger[y][j - 1].statement
      OBVIOUS
    <3>2. a.new_fold_root = ComputeFoldRoot(a) /\ b.new_fold_root = ComputeFoldRoot(b)
      BY <2>2, <3>1 DEF IInv, AllGenuine, Genuine
    <3>3. /\ ledger'[x][i].statement.prev_fold_root = a.new_fold_root
          /\ ledger'[y][j].statement.prev_fold_root = b.new_fold_root
      BY <1>1, <2>1, <2>2, <3>1 DEF Linked
    <3>4. Congruent(a.new_fold_root, b.new_fold_root)
      BY <1>3, <3>3 DEF SameInputs
    <3>5. ComputeFoldRoot(a) = ComputeFoldRoot(b)
      BY <3>2, <3>4, RootsCanonical
    <3> QED BY <3>1, <3>2, <3>5
  <2>4. SameInputs(ledger[x][(i - 1) - (k - 1)].statement,
                   ledger[y][(j - 1) - (k - 1)].statement)
    BY <2>1, <2>2, <2>3 DEF IInv, RootNamesHistory
  <2>5. SameInputs(ledger[x][i - k].statement, ledger[y][j - k].statement)
    BY <2>1, <2>4
  <2>6. i - k \in 1 .. i - 1 /\ j - k \in 1 .. j - 1
    BY <1>2, <1>5
  <2>7. i - k \in DOMAIN ledger[x] /\ j - k \in DOMAIN ledger[y]
    <3>1. ASSUME NEW z \in Callers, NEW m \in DOMAIN ledger[z], m \in Nat, NEW l \in 1 .. m
          PROVE  l \in DOMAIN ledger[z]
      <4>1. PICK s : s = ledger[z]
        OBVIOUS
      <4>2. IsSequence(s)
        BY <4>1 DEF IInv, Sequences
      <4>3. DOMAIN s = 1 .. Len(s) /\ Len(s) \in Nat
        BY <4>2, AppendFacts
      <4> QED BY <3>1, <4>1, <4>3
    <3>2. i - 1 \in Nat /\ j - 1 \in Nat
      BY <1>2
    <3> QED BY <2>2, <2>6, <3>1, <3>2
  <2> QED BY <1>1, <2>5, <2>7
<1> QED BY <1>4, <1>5

LEMMA InitIInv == Init => IInv
<1> SUFFICES ASSUME Init PROVE IInv
  OBVIOUS
<1>1. \A c \in Callers : ledger[c] = <<>> /\ DOMAIN ledger[c] = {}
  BY DEF Init
<1>2. Sequences
  <2>1. IsSequence(<<>>)
    <3>1. <<>> \in Seq({})
      OBVIOUS
    <3> QED BY <3>1 DEF IsSequence
  <2> QED BY <1>1, <2>1 DEF Init, Sequences
<1>3. AllGenuine /\ Linked /\ RootNamesHistory
  BY <1>1 DEF AllGenuine, Linked, RootNamesHistory
<1>4. CheckInv
  BY DEF Init, CheckInv
<1> QED BY <1>2, <1>3, <1>4 DEF IInv

LEMMA StepIInv == IInv /\ [Next]_vars => IInv'
<1> SUFFICES ASSUME IInv, [Next]_vars PROVE IInv'
  OBVIOUS
<1>1. ASSUME NEW c \in Callers, RunFold(c) PROVE IInv'
  <2>1. Sequences' /\ AllGenuine' /\ Linked'
    BY <1>1, RunFoldEntries
  <2>2. RootNamesHistory'
    BY <1>1, HistoryStep
  <2>3. CheckInv'
    <3>1. check' = check
      BY <1>1 DEF RunFold
    <3>2. ASSUME NEW f, f \in Folds PROVE f \in Folds'
      <4>1. PICK d \in Callers : \E i \in DOMAIN ledger[d] : f = ledger[d][i]
        BY <3>2, FoldsAreEntries
      <4>2. PICK i \in DOMAIN ledger[d] : f = ledger[d][i]
        BY <4>1
      <4>3. i \in DOMAIN ledger'[d] /\ f = ledger'[d][i]
        BY <1>1, <4>2, RunFoldEntries
      <4>4. <<d, i>> \in Positions'
        BY <4>3 DEF Positions
      <4> QED BY <4>3, <4>4 DEF Folds
    <3> QED BY <3>1, <3>2 DEF IInv, CheckInv
  <2> QED BY <2>1, <2>2, <2>3 DEF IInv
<1>2. CASE Check
  <2>1. ledger' = ledger
    BY <1>2 DEF Check
  <2>2. Sequences' /\ AllGenuine' /\ Linked' /\ RootNamesHistory'
    BY <2>1 DEF IInv, Sequences, AllGenuine, Linked, RootNamesHistory
  <2>3. Folds' = Folds
    BY <2>1 DEF Folds, Positions
  <2>4. CheckInv'
    <3>1. PICK f \in Folds : \E s, w :
              /\ w \in {f.witness, NoWitness}
              /\ check' = [done |-> TRUE, fold |-> f, statement |-> s, witness |-> w,
                           answer |-> VerifyFold(s, w)]
      BY <1>2 DEF Check
    <3> QED BY <2>3, <3>1 DEF CheckInv
  <2> QED BY <2>2, <2>4 DEF IInv
<1>3. CASE UNCHANGED vars
  <2>1. ledger' = ledger /\ check' = check
    BY <1>3 DEF vars
  <2>2. Folds' = Folds
    BY <2>1 DEF Folds, Positions
  <2> QED BY <2>1, <2>2 DEF IInv, Sequences, AllGenuine, Linked, RootNamesHistory, CheckInv
<1> QED BY <1>1, <1>2, <1>3 DEF Next

LEMMA SpecIInv == Spec => []IInv
BY InitIInv, StepIInv, PTL DEF Spec

LEMMA FoldsGenuine == IInv => \A f \in Folds : Genuine(f)
<1> SUFFICES ASSUME IInv, NEW f \in Folds PROVE Genuine(f)
  OBVIOUS
<1>1. PICK c \in Callers : \E i \in DOMAIN ledger[c] : f = ledger[c][i]
  BY FoldsAreEntries
<1> QED BY <1>1 DEF IInv, AllGenuine

-----------------------------------------------------------------------------
(* The theorems. *)

\* Every fold in a ledger is one the command could have built: its score is
\* a u32 and its root is the root of its own statement.
THEOREM FoldTypes == Spec => []TypeOK
<1>1. IInv => TypeOK
  <2> SUFFICES ASSUME IInv PROVE TypeOK
    OBVIOUS
  <2>1. DOMAIN ledger = Callers
    BY DEF IInv, Sequences
  <2>2. ASSUME NEW f \in Folds
        PROVE  /\ f.witness \in Witnesses
               /\ f.statement.new_score \in U32
               /\ f.statement.new_fold_root = ComputeFoldRoot(f.statement)
    <3>1. Genuine(f)
      BY FoldsGenuine
    <3> QED BY <3>1, GenuineFacts DEF Genuine
  <2>3. check # NoCheck => check.fold \in Folds
    BY DEF IInv, CheckInv
  <2> QED BY <2>1, <2>2, <2>3 DEF TypeOK
<1> QED BY <1>1, SpecIInv, PTL

\* Equal roots have equal histories, as far back as both ledgers go: the
\* roots compute_fold_root chains commit to everything before them.
THEOREM FoldHistory == Spec => []RootNamesHistory
<1>1. IInv => RootNamesHistory
  BY DEF IInv
<1> QED BY <1>1, SpecIInv, PTL

\* The fold command refuses its own statement only for a score below the
\* threshold, and prints no root of such a score.
THEOREM FoldRefuses == Spec => []RefusedBelowThresholdOnly
<1>1. IInv => RefusedBelowThresholdOnly
  <2> SUFFICES ASSUME IInv PROVE RefusedBelowThresholdOnly
    OBVIOUS
  <2>1. \A root, args, w :
          VerifyFold(BuildFold(root, args, w), w) =
              IF WeightedUpdate(w) < args.threshold THEN "threshold" ELSE "ok"
    BY BuildVerifies
  <2>2. \A f \in Folds : f.statement.new_score >= f.statement.threshold
    BY FoldsGenuine DEF Genuine
  <2> QED BY <2>1, <2>2 DEF RefusedBelowThresholdOnly
<1> QED BY <1>1, SpecIInv, PTL

\* weighted_update_binding is true exactly of the folds whose outcome could
\* move the score, and then it did move unless it was already the largest.
THEOREM FoldBinding == Spec => []BindingMeansContribution
<1>1. IInv => BindingMeansContribution
  BY FoldsGenuine, GenuineFacts DEF BindingMeansContribution
<1> QED BY <1>1, SpecIInv, PTL

LEMMA VerifiedFacts ==
    ASSUME NEW s, NEW w, VerifyFold(s, w) = "ok"
    PROVE  /\ s.new_fold_root = ComputeFoldRoot(s)
           /\ s.updated_components = s.new_score
           /\ w.given => s.new_score = WeightedUpdate(w)
BY DEF VerifyFold

\* A statement verify_fold accepts under a published root is about the
\* elements, and the score, of the fold that root was printed for.
THEOREM FoldRootBinds == Spec => []AcceptedRootBinds
<1>1. IInv => AcceptedRootBinds
  <2> SUFFICES ASSUME IInv, check # NoCheck, check.answer = "ok", NEW f \in Folds,
                      check.statement.new_fold_root = f.statement.new_fold_root
               PROVE  /\ SameInputs(check.statement, f.statement)
                      /\ Congruent(Word(check.statement.new_score),
                                   Word(f.statement.new_score))
    BY DEF AcceptedRootBinds
  <2>1. PICK s, w : s = check.statement /\ w = check.witness
    OBVIOUS
  <2>2. VerifyFold(s, w) = "ok"
    BY <2>1 DEF IInv, CheckInv
  <2>3. s.new_fold_root = ComputeFoldRoot(s) /\ s.updated_components = s.new_score
    BY <2>2, VerifiedFacts
  <2>4. /\ f.statement.new_fold_root = ComputeFoldRoot(f.statement)
        /\ f.statement.updated_components = f.statement.new_score
    BY FoldsGenuine DEF Genuine
  <2>5. PICK t : t = f.statement
    OBVIOUS
  <2>6. ComputeFoldRoot(s) = ComputeFoldRoot(t)
    BY <2>1, <2>3, <2>4, <2>5
  <2>7. SameInputs(s, t)
    BY <2>6, RootInputs
  <2>8. Congruent(Word(s.new_score), Word(t.new_score))
    BY <2>3, <2>4, <2>5, <2>7 DEF SameInputs
  <2> QED BY <2>1, <2>5, <2>7, <2>8
<1> QED BY <1>1, SpecIInv, PTL

\* A statement verify_fold accepts with a witness has at least the witness's
\* previous score: the saturating update never lowers it.
THEOREM FoldNeverLower == Spec => []WitnessedNeverLower
<1>1. IInv => WitnessedNeverLower
  <2> SUFFICES ASSUME IInv, check # NoCheck, check.answer = "ok", check.witness.given
               PROVE  check.statement.new_score >= check.witness.prev_state
    BY DEF WitnessedNeverLower
  <2>1. PICK s, w : s = check.statement /\ w = check.witness
    OBVIOUS
  <2>2. s.new_score = WeightedUpdate(w)
    BY <2>1, VerifiedFacts DEF IInv, CheckInv
  <2>3. w \in Witnesses
    <3>1. check.witness = check.fold.witness
      BY DEF IInv, CheckInv, NoWitness
    <3>2. Genuine(check.fold)
      BY FoldsGenuine DEF IInv, CheckInv
    <3> QED BY <2>1, <3>1, <3>2 DEF Genuine
  <2>4. WeightedUpdate(w) >= w.prev_state
    BY <2>3, WitnessTypes, UpdateFacts
  <2> QED BY <2>1, <2>2, <2>4
<1> QED BY <1>1, SpecIInv, PTL

\* Where the lower of two scores comes last, the last fold went down itself or
\* the one before it was already lower: so one of them stated less than it
\* continued from.
LEMMA StepDownStep ==
    ASSUME IInv, StepDownStated, NEW c \in Callers, RunFold(c)
    PROVE  StepDownStated'
<1>1. /\ AllGenuine'
      /\ \A x \in Callers : \A m \in DOMAIN ledger[x] :
            m \in DOMAIN ledger'[x] /\ ledger'[x][m] = ledger[x][m]
      /\ \A x \in Callers : \A m \in DOMAIN ledger'[x] :
            m \in Nat \ {0} /\ (m # 1 => m - 1 \in DOMAIN ledger[x])
  BY RunFoldEntries
<1>2. ASSUME NEW x \in Callers, NEW m \in DOMAIN ledger[x], NEW l \in 1 .. m
      PROVE  l \in DOMAIN ledger[x]
  <2>1. PICK s : s = ledger[x]
    OBVIOUS
  <2>2. IsSequence(s)
    BY <2>1 DEF IInv, Sequences
  <2>3. DOMAIN s = 1 .. Len(s) /\ Len(s) \in Nat
    BY <2>2, AppendFacts
  <2> QED BY <1>2, <2>1, <2>3
<1> SUFFICES ASSUME NEW x \in Callers, NEW i \in DOMAIN ledger'[x], NEW j \in DOMAIN ledger'[x],
                    i < j,
                    ledger'[x][j].statement.new_score < ledger'[x][i].statement.new_score
             PROVE  \E k \in i + 1 .. j : ledger'[x][k].witness.prev_state
                                             < ledger'[x][k - 1].statement.new_score
  BY DEF StepDownStated
<1> DEFINE new == ledger'[x]
           score(m) == new[m].statement.new_score
           prev(m)  == new[m].witness.prev_state
<1>3. /\ i \in Nat \ {0} /\ j \in Nat \ {0} /\ j - 1 \in Nat \ {0}
      /\ j - 1 \in DOMAIN ledger[x] /\ i \in 1 .. j - 1
  BY <1>1
<1>4. i \in DOMAIN ledger[x]
  BY <1>2, <1>3
<1>5. ASSUME NEW m \in DOMAIN new
      PROVE  score(m) \in Nat /\ prev(m) \in Nat /\ score(m) >= prev(m)
  <2>1. PICK f : f = new[m]
    OBVIOUS
  <2>2. Genuine(f)
    BY <1>1, <1>5, <2>1 DEF AllGenuine
  <2>3. f.statement.new_score \in U32 /\ f.statement.new_score >= f.witness.prev_state
    BY <2>2, GenuineFacts
  <2>4. f.witness.prev_state \in U32
    BY <2>2, WitnessTypes DEF Genuine
  <2> QED BY <2>1, <2>3, <2>4, Poseidon2Assumption DEF U32
<1>6. /\ score(i) = ledger[x][i].statement.new_score
      /\ score(j - 1) = ledger[x][j - 1].statement.new_score
      /\ j - 1 \in DOMAIN new
  BY <1>1, <1>3, <1>4
<1>7. CASE score(j - 1) < score(i)
  <2>1. i < j - 1
    BY <1>3, <1>5, <1>6, <1>7
  <2>2. PICK k \in i + 1 .. j - 1 :
            ledger[x][k].witness.prev_state < ledger[x][k - 1].statement.new_score
    BY <1>3, <1>4, <1>6, <1>7, <2>1 DEF StepDownStated
  <2>3. k \in 1 .. j - 1 /\ k - 1 \in 1 .. j - 1 /\ k \in i + 1 .. j
    BY <1>3
  <2>4. k \in DOMAIN ledger[x] /\ k - 1 \in DOMAIN ledger[x]
    BY <1>2, <1>3, <2>3
  <2> QED BY <1>1, <2>2, <2>3, <2>4
<1>8. CASE ~(score(j - 1) < score(i))
  <2>1. score(j) < score(i)
    OBVIOUS
  <2>2. /\ score(i) \in Nat /\ score(j - 1) \in Nat /\ score(j) \in Nat /\ prev(j) \in Nat
        /\ score(j) >= prev(j)
    BY <1>1, <1>4, <1>5, <1>6
  <2> HIDE DEF score, prev
  <2>3. prev(j) < score(j - 1)
    BY <1>8, <2>1, <2>2
  <2> QED BY <1>3, <2>3 DEF score, prev
<1> QED BY <1>7, <1>8

\* A ledger steps down only where a fold stated a previous score below the
\* one it continues from: the update itself never lowers a score.
THEOREM FoldStepsDown == Spec => []StepDownStated
<1>1. Init => StepDownStated
  BY DEF Init, StepDownStated
<1>2. IInv /\ StepDownStated /\ [Next]_vars => StepDownStated'
  <2> SUFFICES ASSUME IInv, StepDownStated, [Next]_vars PROVE StepDownStated'
    OBVIOUS
  <2>1. CASE ledger' = ledger
    BY <2>1 DEF StepDownStated
  <2>2. ASSUME NEW c \in Callers, RunFold(c) PROVE StepDownStated'
    BY <2>2, StepDownStep
  <2> QED BY <2>1, <2>2 DEF Next, Check, vars
<1> QED BY <1>1, <1>2, SpecIInv, PTL DEF Spec
=============================================================================
