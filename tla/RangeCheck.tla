----------------------------- MODULE RangeCheck -----------------------------
(***************************************************************************)
(* The range-check circuit of services/zkp-postcard/src/circuit.rs: it     *)
(* proves "repid_score > threshold" for one agent by showing that          *)
(* repid_score - threshold - 1 fits in 16 bits, over the BabyBear field.   *)
(*                                                                         *)
(* The column-by-column circuit is in RangeColumns; here a trace is the    *)
(* word it decomposes.  The STARK is ideal: a proof verifies exactly when  *)
(* its trace satisfies the circuit under the public values it was made     *)
(* for.  SHA-256 is ideal too: different inputs have different digests.    *)
(***************************************************************************)
EXTENDS Integers

CONSTANTS
    Prime,          \* BabyBear, 2^31 - 2^27 + 1
    RangeSize,      \* 2^16: the low half of the 32 columns
    EncodingBound,  \* 2^31: what build_public_values lets through
    WordSize        \* 2^32: u32

ASSUME RangeCheckAssumption ==
    /\ Prime \in Nat /\ RangeSize \in Nat
    /\ EncodingBound \in Nat /\ WordSize \in Nat
    /\ 0 < RangeSize /\ RangeSize < Prime
    /\ Prime < EncodingBound /\ EncodingBound < 2 * Prime
    /\ EncodingBound < WordSize

-----------------------------------------------------------------------------
(* The field. *)

FieldElements == 0 .. Prime - 1

\* Mistake: the number is kept as it is.
EncodeUnreduced(v) == v

\* BabyBear::new of a u32 below EncodingBound: reduction modulo the prime.
Encode(v) == IF v < Prime THEN v ELSE v - Prime

\* Subtraction of two canonical elements.
FieldSub(a, b) == IF a >= b THEN a - b ELSE a + Prime - b

-----------------------------------------------------------------------------
(* Agent identifiers.  An identifier is a text with or without hyphens; it *)
(* is a UUID when its 32 other characters are hex digits.                  *)

AgentBytes(id) ==
    IF id.uuid THEN <<"raw", id.name>>
               ELSE <<"sha256", id.name, id.hyphens>>

-----------------------------------------------------------------------------
(* The public statement and the circuit. *)

Encodable(threshold, repid) ==
    threshold < EncodingBound /\ repid < EncodingBound

PublicValues(id, threshold, repid) ==
    [agent     |-> AgentBytes(id),
     threshold |-> Encode(threshold),
     repid     |-> Encode(repid)]

\* repid - threshold - 1, as the equality constraint computes it.
GapElement(pv) == FieldSub(FieldSub(pv.repid, pv.threshold), 1)

\* Mistake: the high columns left free, so that any u32 is in range.
AirHoldsUnranged(word, pv) == word = GapElement(pv)

\* The constraints on the one row of the trace that decomposes word.
AirHolds(word, pv) == word < RangeSize /\ word = GapElement(pv)

NoProof == [proved |-> FALSE]

\* Mistake: the statement is not observed into the transcript.
VerifiesUnbound(proof, pv) ==
    /\ proof.proved
    /\ AirHolds(proof.word, proof.pv)

Verifies(proof, pv) ==
    /\ proof.proved
    /\ proof.pv = pv
    /\ AirHolds(proof.word, pv)

\* Mistake: the proof is returned without being verified first.
ProveUnverified(value, id, threshold, repid) ==
    IF Encodable(threshold, repid)
    THEN [proved |-> TRUE, word |-> value, pv |-> PublicValues(id, threshold, repid)]
    ELSE NoProof

\* value is whatever u32 the caller computed; NoProof is the Err result.
ProveRangeCheck(value, id, threshold, repid) ==
    LET pv    == PublicValues(id, threshold, repid)
        proof == [proved |-> TRUE, word |-> value, pv |-> pv]
    IN  IF Encodable(threshold, repid) /\ Verifies(proof, pv)
        THEN proof ELSE NoProof

\* Mistake: the gap is off by one.
GapWordOffByOne(threshold, repid) == (repid - threshold) % WordSize

\* What generate_proof passes as value: the gap truncated to a u32.
GapWord(threshold, repid) == (repid - threshold - 1) % WordSize

\* The Poseidon2 leaf of a statement, the hash being ideal.
PostcardLeaf(id, threshold, repid) ==
    <<AgentBytes(id), Encode(threshold % EncodingBound),
      Encode(repid % EncodingBound)>>
=============================================================================
