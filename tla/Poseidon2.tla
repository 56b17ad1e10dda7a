----------------------------- MODULE Poseidon2 -----------------------------
(***************************************************************************)
(* The digest every root, commitment and nullifier of                      *)
(* services/babybear-leaf is made with: lane 0 of the canonical            *)
(* Poseidon2-16 permutation over BabyBear.                                 *)
(*                                                                         *)
(* The permutation is ideal: a digest stands for the elements it was made  *)
(* from.  A word is a u32 argument, <<n>>, or a digest, a sequence of      *)
(* Lanes words.  Digests are field elements already; arguments are not.    *)
(***************************************************************************)
EXTENDS Integers, Sequences

CONSTANTS
    Prime,    \* BabyBear, 2^31 - 2^27 + 1
    MaxWord,  \* 2^32 - 1: the largest u32
    Lanes     \* 16: the words the permutation takes

\* The longest input, of five words, leaves at least one lane zero.
ASSUME Poseidon2Assumption ==
    /\ Prime \in Nat /\ MaxWord \in Nat
    /\ 1 < Prime /\ Prime < MaxWord
    /\ Lanes \in Nat /\ 5 < Lanes

U32 == 0 .. MaxWord

Word(n) == <<n>>

\* Mistake: the word enters the permutation unreduced.
EncodeUnreduced(w) == w

\* BabyBear::new of a word: reduction modulo the prime.
Encode(w) == IF Len(w) = 1 THEN Word(w[1] % Prime) ELSE w

\* Two words are the same field element.
Congruent(v, w) == Encode(v) = Encode(w)

\* Lane 0 of the permutation of a full input.
Permute(lanes) == [i \in 1 .. Lanes |-> Encode(lanes[i])]

\* The given words first, then zeros.
Pad(words) ==
    [i \in 1 .. Lanes |-> IF i <= Len(words) THEN words[i] ELSE Word(0)]

Digest(words) == Permute(Pad(words))
=============================================================================
