-------------------------- MODULE MCProofExchange --------------------------
(* Instances of ProofExchange for TLC: one UUID in its two spellings and   *)
(* one text identifier, over a field of 11 elements.                       *)
EXTENDS ProofExchange

MCAgentIds ==
    { [uuid |-> TRUE,  name |-> "a", hyphens |-> TRUE],
      [uuid |-> TRUE,  name |-> "a", hyphens |-> FALSE],
      [uuid |-> FALSE, name |-> "a", hyphens |-> FALSE] }
=============================================================================
