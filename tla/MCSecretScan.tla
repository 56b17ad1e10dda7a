---------------------------- MODULE MCSecretScan ----------------------------
(* An instance of SecretScan for TLC.                                      *)
EXTENDS SecretScan

\* Commits are numbered in the order they are made, with up to two parents.
Parents ==
    {f \in [Commits -> {P \in SUBSET Commits : Cardinality(P) <= 2}] :
        \A c \in Commits : (f[c] = {} <=> c = First) /\ \A p \in f[c] : p < c}

ReachOf(f) ==
    LET reach[c \in Commits \cup {Zero}] ==
          IF c = Zero THEN {} ELSE {c} \cup UNION {reach[p] : p \in f[c]}
    IN  reach

AllHistories == {[parents |-> f, reach |-> ReachOf(f)] : f \in Parents}

\* One secret or none: another could only make one more run red.
AtMostOne == {S \in SUBSET (Commits \ {First}) : Cardinality(S) <= 1}
=============================================================================
