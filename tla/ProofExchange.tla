--------------------------- MODULE ProofExchange ---------------------------
(***************************************************************************)
(* A proof from prove_range_check travels to a relying party, who rebuilds *)
(* the public values from the claim it was told and verifies the proof     *)
(* against them.  The caller of prove_range_check chooses the value; the   *)
(* relying party may be told any claim.                                    *)
(***************************************************************************)
EXTENDS RangeCheck

CONSTANTS
    AgentIds,   \* identifiers, [uuid, name, hyphens]
    MaxNumber   \* bound on thresholds, scores and values (u64 in the code)

ASSUME ProofExchangeAssumption ==
    /\ AgentIds \subseteq [uuid : BOOLEAN, name : STRING, hyphens : BOOLEAN]
    /\ MaxNumber \in Nat

VARIABLES
    stage,      \* "start", "made" (prove returned), "checked" (verify returned)
    honest,     \* the value was the one generate_proof computes
    statement,  \* what the proof was made for
    proof,      \* what prove_range_check returned
    claim,      \* what the relying party was told
    accepted    \* what verify answered

vars == <<stage, honest, statement, proof, claim, accepted>>

Numbers == 0 .. MaxNumber

Statements == [agent : AgentIds, threshold : Numbers, repid : Numbers]

NoStatement == [agent |-> "none"]

Proofs ==
    {NoProof} \cup
    [proved : {TRUE}, word : 0 .. RangeSize - 1,
     pv : [agent : {AgentBytes(id) : id \in AgentIds},
           threshold : FieldElements, repid : FieldElements]]

Init ==
    /\ stage = "start"
    /\ honest = FALSE
    /\ statement = NoStatement
    /\ proof = NoProof
    /\ claim = NoStatement
    /\ accepted = FALSE

\* A direct caller of prove_range_check, with any u32 as the gap.
Prove ==
    /\ stage = "start"
    /\ \E s \in Statements, value \in {n \in Numbers : n < WordSize} :
          /\ statement' = s
          /\ proof' = ProveRangeCheck(value, s.agent, s.threshold, s.repid)
    /\ stage' = "made"
    /\ honest' = FALSE
    /\ UNCHANGED <<claim, accepted>>

\* generate_proof: only above the threshold, and with the truncated gap.
ProveAbove ==
    /\ stage = "start"
    /\ \E s \in Statements :
          /\ s.repid > s.threshold
          /\ statement' = s
          /\ proof' = ProveRangeCheck(GapWord(s.threshold, s.repid),
                                      s.agent, s.threshold, s.repid)
    /\ stage' = "made"
    /\ honest' = TRUE
    /\ UNCHANGED <<claim, accepted>>

\* The relying party: build_public_values of the claim, then verify.
Check ==
    /\ stage = "made"
    /\ proof.proved
    /\ \E c \in Statements :
          /\ claim' = c
          /\ accepted' =
                /\ Encodable(c.threshold, c.repid)
                /\ Verifies(proof, PublicValues(c.agent, c.threshold, c.repid))
    /\ stage' = "checked"
    /\ UNCHANGED <<honest, statement, proof>>

Next == Prove \/ ProveAbove \/ Check

Spec == Init /\ [][Next]_vars

-----------------------------------------------------------------------------
\* Every variable has its type; a claim is on record exactly once checked.
TypeOK ==
    /\ stage \in {"start", "made", "checked"}
    /\ honest \in BOOLEAN
    /\ statement \in Statements \cup {NoStatement}
    /\ proof \in Proofs
    /\ claim \in Statements \cup {NoStatement}
    /\ accepted \in BOOLEAN
    /\ stage # "start" => statement \in Statements
    /\ stage = "checked" => claim \in Statements

\* A claim that verifies is true, whoever made the proof and with whatever
\* value, as long as its threshold is at least RangeSize below the prime:
\* the range-checked, field-valued gap then cannot have wrapped around.
AcceptedClaimsTrue ==
    accepted /\ claim.threshold < Prime - RangeSize
        => claim.repid > claim.threshold

\* A proof verifies only for the agent and the numbers it was made for:
\* equal 16-byte agent encodings and, for numbers that are canonical field
\* elements, the very threshold and score.
AcceptedClaimsBound ==
    accepted =>
        /\ AgentBytes(claim.agent) = AgentBytes(statement.agent)
        /\ \A f \in {"threshold", "repid"} :
              claim[f] < Prime /\ statement[f] < Prime => claim[f] = statement[f]

\* generate_proof gets a proof for exactly the true statements whose
\* numbers are encodable and whose gap is below RangeSize: truncating the
\* gap to 32 bits neither loses a proof nor produces one.
HonestProofsExact ==
    stage # "start" /\ honest =>
        (proof.proved <=>
            /\ Encodable(statement.threshold, statement.repid)
            /\ statement.repid - statement.threshold <= RangeSize)

-----------------------------------------------------------------------------
\* circuit.rs:96-98 says the equality "holds over the integers only when
\* repid > threshold", with no bound on the threshold: a claim of canonical
\* field elements that verifies would always be true.
CanonicalClaimsTrue ==
    accepted /\ claim.threshold < Prime /\ claim.repid < Prime
        => claim.repid > claim.threshold
=============================================================================
