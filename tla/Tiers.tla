-------------------------------- MODULE Tiers --------------------------------
(* The RepID tiers of services/zkp-postcard/src/main.rs. *)
EXTENDS Integers

\* Mistake: the lower bounds of the tiers instead of one below them.
LowerBounds ==
    [PROBATIONARY |-> 0, EARNING |-> 500, ESTABLISHED |-> 1000,
     AUTONOMOUS |-> 5000, VETERAN |-> 8000]

\* The threshold a default request for a tier is proved against.
TierThreshold ==
    [PROBATIONARY |-> 0, EARNING |-> 499, ESTABLISHED |-> 999,
     AUTONOMOUS |-> 4999, VETERAN |-> 7999]

ValidTiers == DOMAIN TierThreshold

\* The tier of a score; above 10000 the match falls through.
ScoreToTier(score) ==
    CASE 500 <= score /\ score <= 999    -> "EARNING"
      [] 1000 <= score /\ score <= 4999  -> "ESTABLISHED"
      [] 5000 <= score /\ score <= 7999  -> "AUTONOMOUS"
      [] 8000 <= score /\ score <= 10000 -> "VETERAN"
      [] OTHER                           -> "PROBATIONARY"
=============================================================================
