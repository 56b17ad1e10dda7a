------------------------------- MODULE MCLeaf -------------------------------
(* Leaf for TLC: argument lists on both sides of every limit.              *)
EXTENDS Leaf

MCAgentIds ==
    <<[uuid |-> TRUE, name |-> "a", hyphens |-> TRUE],
      [uuid |-> TRUE, name |-> "a", hyphens |-> FALSE],
      [uuid |-> FALSE, name |-> "a", hyphens |-> TRUE]>>

Line(cmd, args) == [cmd |-> cmd, args |-> args]

MCLines ==
    {Line("nullifier", <<1, scope>>) : scope \in {1, 2, 6, 16, NotANumber}}
    \cup {Line("commit", <<1, 2, trapdoor>>) : trapdoor \in {0, 1, 5}}
    \cup {Line("commit", <<1, 2>>), Line("commit", <<6, 1, 3>>)}
    \cup {Line("permute", args) : args \in {<<>>, <<1, 2>>, <<1, 2, 0, 0, 0, 7>>,
                                           <<1, 2, 0, 0, 0, 0, 0>>}}
    \cup {Line("hash", args) : args \in {<<>>, <<1, 2, 0, 0, 0, 2>>,
                                        <<1, 2, 0, 0, 0, 2, 9>>, <<21>>}}
    \cup {Line("postcard", <<id, t, s>>) :
            id \in DOMAIN MCAgentIds, t \in {1, 6, 9}, s \in {3, 40, 41}}
    \cup {Line("postcard", <<1, NotANumber, 3>>), Line("postcard", <<1, 3>>)}
    \cup {Line("fold", <<1, 1, 1, 1, 3, 2, weight, 5>>) : weight \in {0, 1}}
    \cup {Line("fold", <<1, 1, 1>>), Line("selftest", <<>>), Line("help", <<>>)}
=============================================================================
