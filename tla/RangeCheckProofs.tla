-------------------------- MODULE RangeCheckProofs --------------------------
(* Facts about the operators of RangeCheck, for every field, range and     *)
(* encoding bound that RangeCheckAssumption allows.                        *)
EXTENDS RangeCheck, TLAPS

\* Encoding an encodable number gives a canonical field element.
LEMMA EncodeType ==
    ASSUME NEW v \in Nat, v < EncodingBound
    PROVE  Encode(v) \in FieldElements
BY RangeCheckAssumption DEF Encode, FieldElements

\* Canonical numbers are encoded as themselves.
LEMMA EncodeCanonical ==
    ASSUME NEW v \in Nat, v < Prime
    PROVE  Encode(v) = v
BY DEF Encode

\* The gap element of encodable numbers is a field element.
LEMMA GapElementType ==
    ASSUME NEW t \in FieldElements, NEW s \in FieldElements
    PROVE  FieldSub(FieldSub(s, t), 1) \in FieldElements
<1>1. FieldSub(s, t) \in FieldElements
  BY RangeCheckAssumption DEF FieldSub, FieldElements
<1>2. 1 \in FieldElements
  BY RangeCheckAssumption DEF FieldElements
<1> QED
  BY <1>1, <1>2, RangeCheckAssumption DEF FieldSub, FieldElements

\* Soundness of the circuit: a gap word below RangeSize exists only for a
\* score above the threshold, for thresholds RangeSize below the prime.
LEMMA GapInRangeSound ==
    ASSUME NEW t \in Nat, NEW s \in Nat,
           t < Prime - RangeSize, s < EncodingBound,
           FieldSub(FieldSub(Encode(s), Encode(t)), 1) < RangeSize
    PROVE  s > t
<1>1. t < Prime /\ Encode(t) = t
  BY RangeCheckAssumption DEF Encode
<1>2. Encode(s) \in Nat /\ Encode(s) <= s /\ Encode(s) < Prime
  BY RangeCheckAssumption DEF Encode
<1>3. CASE Encode(s) > t
  BY <1>2, <1>3
<1>4. CASE Encode(s) = t
  <2>1. FieldSub(FieldSub(Encode(s), Encode(t)), 1) = Prime - 1
    BY <1>1, <1>2, <1>4, RangeCheckAssumption DEF FieldSub
  <2> QED
    BY <2>1, RangeCheckAssumption
<1>5. CASE Encode(s) < t
  <2>1. FieldSub(Encode(s), Encode(t)) = Encode(s) + Prime - t
    BY <1>1, <1>2, <1>5 DEF FieldSub
  <2>2. FieldSub(FieldSub(Encode(s), Encode(t)), 1) = Encode(s) + Prime - t - 1
    BY <2>1, <1>1, <1>2, <1>5, RangeCheckAssumption DEF FieldSub
  <2> QED
    BY <2>2, <1>1, <1>2, RangeCheckAssumption
<1> QED
  BY <1>1, <1>2, <1>3, <1>4, <1>5

\* Completeness: for encodable numbers with the score above the threshold,
\* the gap over the integers is the gap element when it is in range.
LEMMA GapAbove ==
    ASSUME NEW t \in Nat, NEW s \in Nat,
           s > t, t < EncodingBound, s < EncodingBound,
           s - t - 1 < RangeSize
    PROVE  FieldSub(FieldSub(Encode(s), Encode(t)), 1) = s - t - 1
<1>1. CASE s < Prime
  BY <1>1, RangeCheckAssumption DEF FieldSub, Encode
<1>2. CASE t >= Prime
  BY <1>2, RangeCheckAssumption DEF FieldSub, Encode
<1>3. CASE s >= Prime /\ t < Prime
  <2>1. Encode(s) = s - Prime /\ Encode(t) = t
    BY <1>3, RangeCheckAssumption DEF Encode
  <2>2. s - Prime < t
    BY <1>3, RangeCheckAssumption
  <2>3. FieldSub(Encode(s), Encode(t)) = s - t
    BY <2>1, <2>2, RangeCheckAssumption DEF FieldSub
  <2> QED
    BY <2>3, RangeCheckAssumption DEF FieldSub
<1> QED
  BY <1>1, <1>2, <1>3, RangeCheckAssumption

\* The truncation to 32 bits that generate_proof applies to the gap leaves
\* the gap of encodable numbers alone.
LEMMA GapWordExact ==
    ASSUME NEW t \in Nat, NEW s \in Nat, s > t, s < EncodingBound
    PROVE  GapWord(t, s) = s - t - 1
<1>1. s - t - 1 \in Nat /\ s - t - 1 < WordSize /\ WordSize \in Nat
  BY RangeCheckAssumption
<1>2. \A g \in Nat, w \in Nat : g < w => g % w = g
  OBVIOUS
<1> QED
  BY <1>1, <1>2 DEF GapWord

\* A result of prove_range_check other than NoProof verifies under the
\* public values of the statement it was called with.
LEMMA ProofOfStatement ==
    ASSUME NEW v, NEW id, NEW t, NEW s,
           ProveRangeCheck(v, id, t, s) # NoProof
    PROVE  /\ Encodable(t, s)
           /\ Verifies(ProveRangeCheck(v, id, t, s), PublicValues(id, t, s))
           /\ ProveRangeCheck(v, id, t, s)
                = [proved |-> TRUE, word |-> v, pv |-> PublicValues(id, t, s)]
BY DEF ProveRangeCheck

\* prove_range_check succeeds exactly when the constraints hold of value.
LEMMA ProvedIff ==
    ASSUME NEW v, NEW id, NEW t, NEW s
    PROVE  ProveRangeCheck(v, id, t, s).proved
             <=> Encodable(t, s) /\ AirHolds(v, PublicValues(id, t, s))
BY DEF ProveRangeCheck, Verifies, NoProof

\* The numbers of the code have the order that the assumptions on the
\* constants ask for: BabyBear's prime 2^31 - 2^27 + 1, a range of 16 bits,
\* the bound 2^31 and 32-bit words; the range covers every tier bound, and a
\* half-word is less than two primes.
LEMMA BabyBearParameters ==
    ASSUME Prime = 2013265921, RangeSize = 65536,
           EncodingBound = 2147483648, WordSize = 4294967296
    PROVE  /\ 0 < RangeSize /\ RangeSize < Prime
           /\ Prime < EncodingBound /\ EncodingBound < 2 * Prime
           /\ EncodingBound < WordSize
           /\ 10000 <= RangeSize /\ 10000 < Prime - RangeSize
           /\ WordSize \div 2 <= 2 * Prime
OBVIOUS

\* generate_proof obtains a proof for exactly the encodable statements with
\* a gap below RangeSize, whatever agent they are about.
THEOREM HonestProofExact ==
    ASSUME NEW id, NEW t \in Nat, NEW s \in Nat, s > t
    PROVE  ProveRangeCheck(GapWord(t, s), id, t, s).proved
             <=> Encodable(t, s) /\ s - t <= RangeSize
<1> DEFINE pv == PublicValues(id, t, s)
<1>1. ASSUME Encodable(t, s)
      PROVE  AirHolds(GapWord(t, s), pv) <=> s - t <= RangeSize
  <2>1. t < EncodingBound /\ s < EncodingBound
    BY <1>1 DEF Encodable
  <2>2. GapWord(t, s) = s - t - 1
    BY <2>1, GapWordExact
  <2>3. s - t - 1 < RangeSize <=> s - t <= RangeSize
    BY RangeCheckAssumption
  <2>4. s - t - 1 < RangeSize => GapElement(pv) = s - t - 1
    BY <2>1, GapAbove DEF GapElement, PublicValues
  <2> QED
    BY <2>2, <2>3, <2>4 DEF AirHolds
<1> QED
  BY <1>1, ProvedIff
=============================================================================
