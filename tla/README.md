# A verification model of HyperDAG-core

TLA+ specifications of the two Rust services of this repository and of the two programs that guard
it, TLC configurations that check them on small instances, and theorems about them that the TLA+
proof system checks for every value of the constants.

    services/zkp-postcard    an HTTP service that proves "this agent's RepID score is above a
                             threshold" with a Plonky3 range-check circuit over BabyBear
    services/babybear-leaf   a Poseidon2 leaf library, a progressive fold over it, a linked
                             fold made of three bound-hash proofs, and the `leaf` command
    scripts/check-readme-edges.mjs      compares README.md with the code and with a caller's code
    .github/workflows/secret-scan.yml   scans the commits that each push adds for secrets

Check a run with `tlc -config <cfg> <module>` in this directory, the proofs with `tlapm
<module>.tla`.

## 1. The system

| Part | Code | State | Operations |
|---|---|---|---|
| Range-check circuit | `zkp-postcard/src/circuit.rs` | none | encode a statement, prove, verify |
| Prover service | `zkp-postcard/src/main.rs` | the token and the Supabase key read at startup; the requests in flight | authorise, route, look up a score in Supabase, prove, answer |
| Poseidon2 leaf library | `babybear-leaf/src/lib.rs` | none | permute, hash, commitment, nullifier, Merkle root |
| Progressive fold | `babybear-leaf/src/fold.rs` | none; its callers keep the last root | build a statement, compute its root, verify it |
| Linked fold | `babybear-leaf/src/fold_c1.rs` | none | derive a statement, build three proof jobs, chain them |
| `leaf` command | `babybear-leaf/src/bin/leaf.rs` | none; its callers keep commitments and roots | one subcommand per library operation; `fold`; exit statuses |
| Lineage migration | `migrations/2026-06-08-zkp-circuits-domain.sql` | rows of `zkp_circuits` | add a column, backfill it, constrain it |
| README edge checker | `scripts/check-readme-edges.mjs` | the outcomes recorded so far | run or skip each check, combine the outcomes into an exit code |
| Secret-scan workflow | `.github/workflows/secret-scan.yml` | none; the branches and the queue of runs are GitHub's | choose a range of commits, scan it, give a verdict |

Builds and images, the scripts that post issues, and the method and accountability documents have no
state of their own and are listed in `PROJECT.json` only.

### How the parts interact

A client posts an agent identifier, perhaps with a tier or a threshold, to the service. The
outermost layer answers CORS preflights; `require_bearer` compares the Authorization header with the
token; the handler awaits the rest of the client's body, reads the agent's row from Supabase, both
without a timeout, and then proves `score - threshold - 1 < 2^16` **synchronously, on the worker
thread it runs on**. A postcard goes back with the proof. A relying party, who has only the
postcard, rebuilds the public values and verifies.

The fold has no service. Whoever runs `leaf fold` keeps the last root it printed and passes it to
the next call; a relying party is handed a statement, with or without its witness, and runs
`verify_fold`. The linked fold proves one Poseidon2 permutation three times (commitment, nullifier,
root), and `check_chain` ties the three together. The leaf of a postcard is computed by the `leaf`
command and by the service. Both hash with `babybear_leaf::hash`; the encoding of the agent and the
packing of the lanes are written twice.

The workflow runs once per push or pull request, on a clone made some time after it. The checker
reads `main.rs`, the lock file and README.md, and, when it is given one, the source of the service
that calls this one.

### What is hard to get right, and what makes each part correct

* **Circuit.** The comparison is made in a field: a negative gap wraps, and numbers between the
  prime and 2^31 share an element with small ones. Correct: what verifies is true and is about the
  agent and the numbers it was made for; what is true and in range can be proved.
* **Service.** Requests overlap, rows change between the lookup and the answer, a proof holds a
  worker, the process restarts under another token, the client goes away. Correct: no handler runs
  for a caller who did not present the running process's token; every answer is about one reading of
  the right agent's row; a postcard never claims what its proof does not show; every request settles
  unless its client or Supabase is silent.
* **Fold.** A history is known only by its last root, and the arithmetic saturates at 32 bits while
  the hash sees 31. Correct: equal roots mean equal histories; an accepted statement is about the
  elements and the score of the fold its root was printed for; the score of a ledger steps down only
  where a fold says that it continues from less.
* **Linked fold.** Three proofs, made and carried apart, and lanes nobody binds. Correct: no mixture
  of proofs of different witnesses is accepted; a nullifier fixes its scope, a root its words.
* **Leaf library and command.** One hash makes commitments, nullifiers, inner nodes and leaves. It
  pads, truncates and reduces. Correct: digests collide exactly where the lanes say they do; both
  crates agree on which statements share a leaf; nothing but a group's leaves opens its root at the
  tree's depth; a digest is printed exactly when the status is 0.
* **Secret scan.** The range depends on the event, and on the clone and the default branch of a
  later moment; runs finish in any order. Correct: when all runs are green, no commit on a branch
  was left out, and none says VERIFIED over nothing.
* **Edge checker.** A check whose input is missing is passed over, and two checks compare counts.
  Correct: an exit code other than 1 means that the README and what is served agree, and 0 also that
  the caller was looked at; what was passed over, or read from an earlier check, never changes it.

The full list of hazards, each at its line and with the properties that catch it, is in
`PROJECT.json`.

## 2. The modules

    RangeCheck -- ProofExchange -- MCProofExchange      Poseidon2 -- FoldStatement -- Fold -- MCFold
     |   |    \-- RangeColumns                              |            \-- Leaf -- MCLeaf
     |  Leaf (as INSTANCE)                                  \-- LinkedFold
    Tiers -- Prover -- ProverProperties -- MCProver
       \----------- PostcardOracle --/                  SecretScan -- MCSecretScan
                                                         EdgeChecker -- MCEdgeChecker

    proofs: RangeCheckProofs, CircuitProofs (of RangeColumns and ProofExchange), ProverProofs,
            FoldProofs, LinkedFoldProofs, LeafProofs, SecretScanProofs, EdgeCheckerProofs

**RangeCheck** is the circuit as pure operators. `Encode` is `BabyBear::new` (reduction, not the
identity), `PublicValues` is `build_public_values`, `AirHolds` is the constraint system on the word
a trace decomposes, `ProveRangeCheck` proves and self-verifies before it returns, `GapWord` is the
gap that `generate_proof` truncates to a u32. An identifier is a name that is or is not a UUID,
spelled with or without hyphens, and `AgentBytes` says which spellings are one agent.

**RangeColumns** is the same circuit one column at a time: the row `generate_trace` lays out and the
constraints `eval` puts on *any* row. It exists to justify the word-level `AirHolds`. The loop of
`eval` is a recursive function, one field addition per column (`Reconstructed`), and `1 << n` is
`Pow2[n]`: what is proved about is written with recursive functions, never RECURSIVE operators.

**ProofExchange** is a proof on its way to a relying party. `Prove` is a direct caller of
`prove_range_check` with any value; `ProveAbove` is the service's use of it; `Check` verifies under
any claim.

**Tiers**, **Prover** and **ProverProperties** are the service. Each request is a `phase` per
connection: received (its headers are in), admitted (past `require_bearer`), reading (waiting for
the rest of the body), posted, looking (waiting for Supabase), replied, proving (holding a worker),
answered or lost. The actions of `Serve` are the layers and handlers in order: `Preflight`,
`RequireBearer`, `Health`, `NotRouted`, `ReadBody`, `BadBody`, `Lookup`, `LookupError`, `NotAbove`,
`StartProof`, `FinishProof`. Around them: `Configure` and `Start`/`Stop` (the
environment is read at startup only: `SupabaseKey` is the first of three names that is set, to
whatever text, and without a key or a URL the process does not start), `SetRow` (Supabase's other
writers), `SupabaseReplies` and `SupabaseFails`, `Send`, `BodyArrives` (whenever the client
sends it) and `Disconnect` (a dropped future; a proof
being computed has no await and goes on). Steps are cut where the code awaits, so another request, a
restart or a write may come between.

**PostcardOracle** is what the service promises, without fields, circuits, workers or HTTP: a
question about an agent is answered from one reading of its row, made after the question, and the
answer says "proven" exactly when the score exceeds the threshold by at most the range. The
refinement mapping is in ProverProperties: a question is asked when the handler queries Supabase,
and a restart or a disconnect gives it up.

**Poseidon2** is the digest: `Encode` reduces u32 arguments modulo the prime and leaves digests,
which are elements already, alone; `Pad` puts the words in the first lanes and zeros in the others.

**FoldStatement** is `fold.rs`: `WeightedUpdate` saturates at u32::MAX twice, `BuildFold` fills the
root in last, `VerifyFold` makes its four checks in order and skips the last without a witness.
**Fold** is a history of folds made with it by the `fold` command. Each caller's ledger is the
sequence of folds the command printed for it; a first fold starts from a genesis root or from one
another caller published. `InCirculation` are the altered statements a relying party may be handed.

**LinkedFold** is `fold_c1.rs`: `BoundHashHolds` binds the listed input lanes and the output and
nothing else, `Job`/`BuildJobs` are the honest proofs, `ProveOther` makes any other (a release build
of `prove` does not evaluate constraints), and there are two relying parties, one who takes the
public values from the statement and one for whom `check_chain` is the only link.

**Leaf** is `lib.rs` and the `leaf` command. A caller runs a command line and gets a status and a
digest (`Main`: every subcommand, every error that exits with 2, and the refused fold that exits
with 3). One caller keeps a group, a Merkle tree over the commitments that were printed; a verifier
of membership fixes the length of the path and runs `merkle_root`, and `Admitted` is every claim it
takes that can be made of the tree's nodes and the printed words. The leaf of the service is
RangeCheck's, by INSTANCE.

**SecretScan** is the workflow and the repository it runs in: developers `Push` (a new branch and a
force-push included), `Delete` and `OpenPullRequest`; each event puts a run in a queue, and `Scan`
takes any of them, later, against the branches of that moment. `CommitRange` is the script's choice,
`Read` what gitleaks reads of it and `Scanned` what it says it read, `Verdict` the script's three
answers, with gitleaks' count in the log or without it (and then it may have read nothing); `Break`
is a run that fails before it has one. Commits hang together in any way, and any set of them adds
secrets.

**EdgeChecker** is the checker after its regular expressions: a record of what they find in each
file, the sixteen checks in the script's order, which of them are `Skipped`, the outcome of the
others, and the exit code. Requests and mentions of URLs are counted, by method, as the script
counts them. One value stands for each list of names that is compared in the same way.

`map` in `PROJECT.json` gives the lines behind every definition. Definitions marked *Mistake* are
mutations of the one after them: each property is shown to fail under at least one.

## 3. The runs

| Run | Question | States |
|---|---|---|
| `exchange` | Is every claim that verifies true (`AcceptedClaimsTrue`), about the agent and the numbers proved (`AcceptedClaimsBound`), and does the service get a proof for exactly the provable statements (`HonestProofsExact`)? | 325,933 |
| `columns` | Do the columns accept exactly the words the word-level circuit does (`OnlyWordsAccepted`, `TraceMeansWord`)? | 235,298 |
| `prover_answers` | Over all tier boundaries, kinds of row and headers, under restarts with changed tokens and keys: are postcards honest (`PostcardsHonest`), tier proofs exact (`TierProofsExact`), answers those of the oracle (`AnswersFromStoredScore`), is what is in flight authorised (`InFlightAuthorised`), what is refused refused for cause (`RefusedForCause`), and does the service start under every name the key goes by (`KeyRenameSurvived`)? | 154,176 |
| `prover_race` | With two requests and one worker, rows changing in between: does each answer come from one reading (`AnswersFromStoredScore`), and does each request settle once its client and Supabase have done their part (`RequestsSettle`)? | 78,489 |
| `fold` | Do equal roots have equal histories (`RootNamesHistory`), does the command refuse only below the threshold (`RefusedBelowThresholdOnly`), does its binding flag tell the truth (`BindingMeansContribution`), what does acceptance bind (`AcceptedRootBinds`, `WitnessedNeverLower`), and does a score fall below an earlier one only where a fold stated a lower previous score (`StepDownStated`)? | 266,759 |
| `linked` | Does no mixture of proofs pass (`VerifiedOpens`, `ChainedFolds`), do nullifier and root fix what they should (`NullifierFixesScope`, `RootFixesWords`), do honest jobs verify (`JobsVerify`)? | 19,213 |
| `leaf` | When are two digests equal (`DigestsExact`) and two leaves (`LeavesAgree`, across the crates), and does a membership claim open to the leaf where its bits point (`MembershipOpens`)? | 1,803 |
| `scan` | Does a green history leave no commit unscanned (`GreenMeansClean`), and no verdict stand on nothing (`VerifiedOverSomething`), whether or not the log has a count? | 1,783,102 |
| `edges` | What does an exit code other than 1 say of the routes (`ServedAsDocumented`), of the outbound requests (`CallsAsDocumented`), and 0 of the caller (`CallersServed`)? Is the code the one that the files call for, whatever was skipped (`ExitDecidedByFiles`)? | 226,242 |

`exchange`, `prover_answers`, `fold`, `leaf`, `scan` and `edges` also check `TypeOK`, their module's
type invariant.

Three more runs check a sentence of the repository that the code does not bear out. Each is a
disagreement between a comment and the code, and says nothing about the properties above.

| Run | The sentence | What the code does |
|---|---|---|
| `exchange_wrap` | `circuit.rs:96-98`: the gap equality holds over the integers only when the score is above the threshold | true for thresholds at least 2^16 below the prime, which covers every threshold a RepID can have; not for the highest thresholds `build_public_values` lets through. The service itself compares first (`main.rs:328`) |
| `fold_claims` | `fold.rs:106-112`: the claims returned say what was enforced | `weighted_update_enforced` is true also when no witness was given and the update was not checked |
| `linked_hashes` | `fold_c1.rs:11-15`: the nullifier is `Poseidon2(secret, scope)`, the root Poseidon2 of five words | the lanes after the inputs are not constrained to zero |

Seen while reading, with no run of their own because they repeat one of the above, are narrower than
a property, or leave no state that tells them apart:

* `circuit.rs:136-138` says that below 2^31 every number has an encoding of its own; numbers from
  the prime up to 2^31 share an element with small ones (`exchange` allows for it, and the service
  never gets there).
* `main.rs:246-249` says that without a token every path but `/health` is answered 503; a CORS
  preflight is answered 200, with no data in it (`RefusedForCause` speaks of the refusals only).
* Scores that differ by the prime have one root (`fold.rs:137-139`, known to `tests/fold.rs:131`);
  likewise two scopes that differ by the prime share a nullifier (`leaf.rs:97-98` speaks of scopes
  in general).
* `check_chain` does not compare scopes (`fold_c1.rs:257-259`), which matters only for the relying
  party that uses nothing else. `LinkedClaims` lists the update and the threshold, which nothing in
  `fold_c1.rs` checks.
* The header of `fold.rs:16-17` calls the update and the threshold AIR constraints; the fold AIR has
  no public values (`fold_c1.rs:27-31` says so). `prev_state` is not compared with the score the
  previous root commits to, which `tests/fold.rs:211-230` names as the route for a decrease
  (`StepDownStated`: there is no other).
* Nothing but the order of its arguments says what a digest is for: a commitment whose trapdoor is
  zero is the nullifier of the same two words (`DigestsExact` states exactly when).
* The secret scan reads the new tip only after a force-push whose old tip nothing reaches any more,
  as its own comment says, and merges have no diff to read; `GreenMeansClean` leaves out both, by
  name. A push that creates a branch already on the default branch has an empty range and says
  NOT_CHECKED. So does a run whose log has no count: the job is green with a warning, and
  `GreenMeansClean` leaves its range out by name too.
* `tier_to_threshold` and `score_to_tier` disagree at score 0: it is PROBATIONARY, whose threshold is
  0, and the comparison is strict (`main.rs:120`, `131`, `328`), so an agent of score 0 is refused
  its own tier, where every other tier is proved from its first score on. Nothing in the repository
  says which of the two is meant; `TierProofsExact` states the case apart. Scores above 10000, which
  `score_to_tier` calls PROBATIONARY, are outside it.
* A dead text under an earlier of the three names of the Supabase key hides a live key under a later
  one (`main.rs:404-406`). `KeyRenameSurvived` asks that all keys that are set are live.
* The edge checker compares the number of `.send()` with the number of URLs it finds
  (`check-readme-edges.mjs:331`), so that a URL that is never sent (a text for the log, an unused
  `format!`) or mentioned twice makes room for a request it does not see: `CallsAsDocumented` says
  that such a mention, of a method that is requested less often than it is mentioned, is the only
  room.
* It takes a name in `PUBLIC_PATHS` for a route without a token (`check-readme-edges.mjs:280`), while
  `require_bearer` compares the path of the request with it (`main.rs:254`), and `/prove/x` is not
  `/prove/{id}`. With an axum that routes braces, the row of such a route could say Public and need
  the token: the one row that `ServedAsDocumented` does not vouch for. The repository has none.
* Only rows with a braces path are looked at for "does not work".

### Bounds, and why they are enough

* **Field and words.** TLC's integers have 32 bits, so the field is scaled down with everything that
  is compared with it, keeping the order 2^16 < p < 2^31 < 2p, 2^31 < 2^32 that the assumption of
  RangeCheck states: 3 < 11 < 14 < 16 in `exchange`, with numbers up to 19 to cover what lies beyond
  the word; 16384 < 30721 < 32768 < 65536 in the service's runs, so that the real tier bounds up to
  10000 keep their values. `Fold` uses p = 3 and a largest word of 8, `LinkedFold` 3 and 6, so that
  numbers wrap around the prime twice; the update of `Fold` saturates, and a claimed score shares
  its element with a folded one. The theorems hold for any such field.
* **Columns.** Four columns, two of them low, over seven elements: every row of the trace, under
  every pair of public values. `OnlyWords` and `TraceIsWord` hold for any number of columns.
* **Lanes.** Six of the sixteen: five for the longest input and one for those that are padded with
  zeros, all of which are treated alike. The theorems hold for any number above five.
* **Requests.** One connection where the data matters, two where interleaving does: no property
  relates three requests. One worker is the smallest pool that a proof can block. A connection
  carries one request; a second one on the same connection starts after the first is answered and
  shares nothing with it.
* **Folds.** Four folds among two ledgers: the fewest in which two callers come to one root along
  ledgers of two folds each, so that equal roots have a history to disagree on. One ledger may have
  all four, so that a score rises, saturates and falls with folds in between. `verify_fold`, and
  both relying parties of the linked fold, keep no state, so one check per behaviour covers every
  sequence of them.
  The only vacuous update of the run is one of zero weight: with a zero outcome too there would be
  eight witnesses a fold and not four, and four folds would be out of reach. For that half of
  `BindingMeansContribution`, whose guard treats both alike, there is the theorem `FoldBinding`.
* **Command lines.** 5 < 8 < 16 for the prime, 2^31 and 2^32. `DigestsExact` and `LeavesAgree`
  relate two digests, so every pair of lines is run; the tree has depth 2, with up to two members,
  the least in which a node is neither root nor leaf and a leaf is empty.
* **Pushes.** Every history of four commits, merges included, two branches and three events: one
  branch to be ahead, one to be created from it, and one event to move the default branch, or force
  a tip away, in between. One commit or none adds a secret; another could only make one more run
  red. The theorems hold for any number of each.
* **Edges.** Every input that differs in at most two places, one that disagrees and one that could
  hide it, from either of two consistent sets of files: one with an axum that takes braces literally
  and a README that says so, one with an axum that routes them. Up to two requests and two mentions
  per method, so that one can make room for another. The theorems hold for any set of inputs.
* **Deployments.** Four environments, with the key under each of the three names, a dead key before
  a live one, a blank token and no key at all; a missing URL stops `Start` as a missing key does.
* **Proofs of the linked fold.** Two witnesses' jobs and one other proof, over six witnesses: enough
  for any two of the three proofs to come from different places.

Deadlock is checked in `prover_answers` and `prover_race`. In the other runs, the three disagreement
runs included, it is not: proofs on record, ledgers, command lines and pushes are bounded, a row of
columns is evaluated once, and the edge checker ends.

### Fairness

`WF_vars(Serve(c))` for every connection, and nothing else: the runtime polls a ready task again and
again (`#[tokio::main]`), and a proof is a bounded computation. Supabase's answer, the clients, the
operator and the restarts are not fair: `BodyArrives` and `SupabaseReplies` are actions of theirs.
That is why `RequestsSettle` counts "reading" and "looking" as settled: `Json(req)` awaits the
client's body without a timeout (`main.rs:299`, served by a bare `axum::serve`), and the HTTP client
is built without one (`main.rs:384`). The property says that a request whose headers are in waits
nowhere else for ever, although proofs may hold every worker.

## 4. The proofs

5,506 obligations in eight modules, with no assumption but the named ones on the constants:
`RangeCheckAssumption` (the order of range, prime, bound and word size), `RangeColumnsAssumption`
(range and word size are the powers of two that the columns write), `Poseidon2Assumption` (the prime
is below the largest word; the longest input leaves a lane zero), `LeafAssumption` (a half-word is
at most twice the prime, as 2^31 is; arguments are integers; the group fits its tree),
`SecretScanAssumption` (a commit reaches itself and what its parents reach), and
`ProofExchangeAssumption`, `ProverAssumption`, `FoldAssumption`, `LinkedFoldAssumption` and
`EdgeAssumption` (the sets of arguments hold values of the right shape). `ProverTiers` also assumes
that the range covers the scores, `10000 <= RangeSize`, as 2^16 does. `BabyBearParameters` and
`DeployedColumns` evaluate these conditions for the numbers of the code, which are too large for
TLC: the prime 2^31 - 2^27 + 1, 32 columns, 16 of them low.

| Theorem | Property | Holds for |
|---|---|---|
| `ExchangeSound` | `AcceptedClaimsTrue` | every field, range and set of identifiers |
| `ExchangeBound` | `AcceptedClaimsBound` | the same |
| `ExchangeExact`, `ExchangeTypes` | `HonestProofsExact`, `TypeOK` | the same |
| `HonestProofExact` | the same fact about `ProveRangeCheck` alone | the same |
| `OnlyWords`, `TraceIsWord` | `OnlyWordsAccepted`, `TraceMeansWord` | any number of columns, any field |
| `RowProvesScore`, `ScoreHasRow` | from the columns to the numbers: a row that is accepted shows score > threshold; the row made for a score above the threshold is accepted exactly when the gap fits | the same |
| `ProverTypes` | `TypeOK` | any number of connections, agents, tokens, rows and workers |
| `ProverAuthorised`, `ProverRefused` | `InFlightAuthorised`, `RefusedForCause` | the same |
| `ProverHonest`, `ProverTiers` | `PostcardsHonest`, `TierProofsExact` | the same |
| `ProverImplementsOracle` | `AnswersFromStoredScore`: the service implements PostcardOracle | the same |
| `ProverConvinces` | from an answer to its reader: whatever agent, threshold and score a relying party is told, a proof that verifies for them shows score > threshold, of the agent asked about, with the stored score and the threshold that applied | the same |
| `FoldTypes`, `FoldHistory`, `FoldRefuses`, `FoldBinding`, `FoldRootBinds`, `FoldNeverLower`, `FoldStepsDown` | the seven invariants of `fold` | any prime, word size and number of lanes above five, any number of callers and folds |
| `LinkedOpens`, `LinkedScope`, `LinkedWords`, `LinkedChained`, `LinkedJobs` | the five invariants of `linked` | any prime, word size and number of lanes, any witnesses, fillers and number of proofs |
| `KeyRenamed` | what `KeyRenameSurvived` says of the guard and the key | any deployment |
| `Digests`, `Leaves`, `TypeCorrect` | `DigestsExact`, `LeavesAgree`, `TypeOK` of `leaf` | any prime, word size, number of lanes and set of command lines |
| `Membership`, `PathOpens` | `MembershipOpens`, and the same fact about `merkle_root` alone | trees of any depth, groups of any size |
| `PathBinds` | without a tree: two paths that turn alike and end in one root start from congruent leaves and pass congruent siblings | paths of any length |
| `ScanGreenMeansClean`, `ScanVerifiedOverSomething`, `ScanTypes` | `GreenMeansClean`, `VerifiedOverSomething`, `TypeOK` | any history, branches and number of events |
| `EdgeTypes`, `EdgesServed`, `EdgesCalled`, `EdgesCallers`, `EdgesDecided` | the five invariants of `edges` | any README, sources and caller |

**Circuit.** The lemmas of RangeCheckProofs do the modular arithmetic: the field gap equals a word
below the range only if the integer gap does or the threshold is within a range of the prime. The
invariant `Inv` of CircuitProofs then records where a proof came from: a proof on record verifies
under the public values of `statement`, and an accepted claim has those public values.

**Columns.** The invariant of the state machine says only that the verdict is `Eval` of the
committed row. The work is in `RowIsWord`, an induction over the low columns: let q be the word that
the first n of them spell and W the weight of the n-th. Then the accumulator of `eval` is W q, and
W q + W is at most RangeSize, hence below the prime, so that no addition of the loop ever wraps
around it. The sum that is compared with the gap is therefore a word in range, and its bits, by
halving (`DivTwice`, `HalfBit`), are the row: `EvalOnlyWords`. Conversely `TraceInjective` recovers a
u32 from its trace, so that a word out of range cannot pass for one in range: `EvalOfTrace`. The two
join the word-level lemmas in `RowProvesScore` and `ScoreHasRow`.

**Induction.** The prover's library states induction for an operator, which no backend can
instantiate. Here it is stated for a set: `Least` (a nonempty set of naturals has a least member),
then `Induction` and `BoundedInduction` for a set that holds 0 and the successors of its members.
That a recursive function satisfies its own equation is itself such an induction, over the n up to
which the function exists (`Recursion`, `Pow2Rec`, `ReconstructedRec`; in LeafProofs `WidthRec`,
`PathRec`, `PositionRec` and `TreeRec`).

**Service.** `Inv` is `TypeOK`, `HandlerInv`, `InFlightAuthorised` and `PostcardsHonest`.
`HandlerInv` is the strengthening: from the lookup on a request names an agent, while it is proved
it holds one of Supabase's rows with a known threshold, and nothing is in flight while the process
is down. Without it, the step that sends a postcard could not be shown to compute one of the right
shape. `InFlightAuthorised` is inductive because a restart, the only way the token changes, loses
what was in flight. `PostcardsHonest` needs the circuit's lemma that an honest proof, when there is
one, verifies under the postcard's fields.

**Refinement.** The oracle's state is a function of the connection's phase, request, reply and
postcard. `HistoryInvariant` adds what that function forgets: an answered request is kept with the
row it was answered from, and its postcard is `ProofResponse` of the two. Each action is then an
oracle step (a question, a reading, an answer, a request given up) or leaves the mapped state alone.
The answers agree because the circuit proves a gap exactly when it is below the range
(`HonestProofExact`). `TierProofsExact` and `RefusedForCause` follow from the same invariant and
from arithmetic about the two tables of bounds, score 0 of PROBATIONARY being the one case in which
they disagree. `ProverConvinces` joins the same history to the
circuit: the proof on a postcard is `NoProof` or the one of its own request and row, so what it
verifies under is their public values, and `GapInRangeSound` does the rest.

**Fold.** `IInv` says that each ledger is a sequence of *genuine* folds (built by the command from
some witness, at or above their threshold), each starting from the root of the one before
(`Linked`), together with `RootNamesHistory` and what is known of the relying party's check. Neither
part is inductive alone: that two new equal roots have equal histories follows from their inputs
being equal (the digest is injective on encoded words), so that their previous roots are congruent
words and, being digests, equal (`RootsCanonical`); the previous folds are in the old ledgers
(`Linked`), where the invariant already holds one fold further back (`HistoryStep`).
`StepDownStated` is inductive once `IInv` is known: an update never lowers the score it starts from,
so a new last fold that states no less than the score it continues from does not end below it
either; if it is below an earlier fold, then so was the one before it (`StepDownStep`).

**Linked fold.** `IInv` is `VerifiedOpens`, `ChainedFolds` and that every proof on record carries
encoded words. That last part is needed because a statement handed to a relying party may take its
words from another proof's public values. A digest has as many words as there are lanes and an
argument has one, so an output can only be congruent to a digest, and then it is that digest
(`OnlyDigests`). The other properties read a lane off the trace that opens the statement.

**Leaf.** A path is followed from the root down (`PathOpens`): d levels below the root, the
accumulator of `merkle_root` is congruent to the node of the tree to which the last d bits lead. One
level further uses that a compression fixes both its sides up to congruence (`CompressInjective`).
The path must have the tree's depth, which is why a verifier has to fix it; nothing else is asked of
the siblings, so `Membership` is about any path at all. `PathBinds` walks two paths down from their
common root in the same way. `Digests` compares the lanes of two digests.
`Leaves` compares the lanes of two leaves, the command's reduction of its arguments with the
service's: both drop the high bit before they reduce.

**Secret scan.** The difficulty is a new branch: its run subtracts the default branch of now, whose
own runs may be outstanding. `ScanInv` says that, unless some run is red, every commit on the
default branch was scanned, or left out by name, or is in the range of an outstanding push or of a
scan that does not rest on the default branch (`Direct`), while on other branches a commit may also
await the run of a new branch (`Awaited`). Nothing on the default branch ever rests on such a run,
so the argument is not circular. `ScanTypes` counts the copies in the queue as a set of pairs, to
which an event adds one and from which a run takes one (`CopiesAdd`, `CopiesRemove`).

**Edge checker.** A check that is skipped records nothing, so a good exit code says nothing of it.
`EdgeInv` says that each check behind the script either holds of the files, or some check failed, or
it is the caller's and was not made: what a skipped check reads is missing only if an earlier check
failed for it. That gives one half of `EdgesDecided`. The other half is that a recorded failure is a
failure of the files: `DemandInv` says that every `FAILED` stands for a check whose `Demand` does
not hold, and every check behind the script has its demand met unless something failed, although
`env` is compared with what the table check recorded and `engine` may be passed over.

Only model-checked: the liveness property `RequestsSettle` (fairness is out of the prover's reach)
and `KeyRenameSurvived` (it says what is ENABLED; `KeyRenamed` proves that the guard of `Start` holds
and that the key is live). Every other property of a passing run has a
theorem.

## 5. What is idealised

* The STARK is ideal: a proof verifies exactly when its trace satisfies the circuit under the public
  values it was made for. SHA-256 and Poseidon2 are ideal: a digest stands for its input, so
  collisions are out of the picture and congruence modulo the prime is in it.
* An identifier's text, header and body parsing are reduced to what the code tells apart: UUID or
  not, hyphens or not; the scheme of a header, its token and whether blanks surround it; whether a
  body has a JSON content type and parses (415 without the one, and 422 stands for the extractor's
  400, 413 and 422). The other headers are one case, and a body is read in one step, when the last
  of it is in.
* Supabase, Postgres, tower-http's CORS layer and the callers of the library are external and
  modelled from how the code uses them. A row's absence and a 404 are one case, all unusable replies
  another.
* Left out: logging, timestamps, the listening port, the commitment text of the placeholder
  postcard, the order of JSON fields. `Stop` clears the token of the process that is gone.

## 6. Not modelled, and why

* **Lineage migration** (`migrations/2026-06-08-zkp-circuits-domain.sql`): a draft that nothing in
  the repository runs. The hazard is a deployment that writes rows while it runs, and no writer of
  `zkp_circuits` is in the repository to translate.
* **What the regular expressions read**: the checker's parsing of Rust, TypeScript and Markdown, and
  the test script that runs it on altered files. EdgeChecker starts from what was found.
* **The fold AIR** of `fold.rs` (`generate_fold_trace`, the constraints on it), which has no public
  values and so says nothing of a statement.
* **The wasm binding** of the leaf, which hands it on unchanged; the inside of the permutation,
  SHA-256 and the STARK.
* **Builds and images**, the scripts that post issues (a fixed list of calls) and the prose
  documents: no state of their own.
