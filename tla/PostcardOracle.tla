--------------------------- MODULE PostcardOracle ---------------------------
(***************************************************************************)
(* What the prover promises about the answers it gives, without fields,    *)
(* circuits, workers or HTTP: a question about an agent is answered from   *)
(* one reading of that agent's row, taken after the question was asked.    *)
(* The answer is "proven" exactly when the stored score exceeds the        *)
(* threshold by at most RangeSize and both numbers can be encoded.  A      *)
(* question may stay without an answer.                                    *)
(***************************************************************************)
EXTENDS Integers, Tiers

CONSTANTS
    Askers,         \* who asks, one question each
    Keys,           \* the agents
    Rows,           \* what their rows may hold
    Questions,      \* [key, tier, threshold], "" and -1 when not given
    RangeSize, EncodingBound

VARIABLES
    rows,       \* the agents' rows
    question,   \* what each asker wants to know
    seen,       \* the row read for it
    reply       \* the answer given

vars == <<rows, question, seen, reply>>

NoQuestion == [key |-> <<>>, tier |-> "", threshold |-> -1]
NoReply    == [kind |-> "none"]
Unread     == [kind |-> "unread", score |-> 0, tier |-> ""]
Broken     == [kind |-> "broken", score |-> 0, tier |-> ""]

Threshold(q, tier) ==
    IF q.threshold # -1 THEN q.threshold ELSE TierThreshold[tier]

Provable(threshold, score) ==
    /\ threshold < score /\ score <= threshold + RangeSize
    /\ score < EncodingBound

Verdict(q, row) ==
    LET tier == IF q.tier = "" THEN row.tier ELSE q.tier
    IN  CASE row.kind = "absent" -> [kind |-> "no such agent"]
          [] row.kind = "broken" -> [kind |-> "no answer from the store"]
          [] OTHER ->
             IF q.threshold = -1 /\ tier \notin ValidTiers
             THEN [kind |-> "no such tier"]
             ELSE [kind |-> "postcard", key |-> q.key,
                   threshold |-> Threshold(q, tier), score |-> row.score,
                   proven |-> Provable(Threshold(q, tier), row.score)]

Init ==
    /\ rows \in [Keys -> Rows]
    /\ question = [a \in Askers |-> NoQuestion]
    /\ seen = [a \in Askers |-> Unread]
    /\ reply = [a \in Askers |-> NoReply]

Write(k, row) ==
    /\ rows' = [rows EXCEPT ![k] = row]
    /\ UNCHANGED <<question, seen, reply>>

Ask(a, q) ==
    /\ question[a] = NoQuestion
    /\ question' = [question EXCEPT ![a] = q]
    /\ UNCHANGED <<rows, seen, reply>>

\* The row is read once; the read may also fail.
Read(a) ==
    /\ question[a] # NoQuestion
    /\ seen[a] = Unread
    /\ \E row \in {rows[question[a].key], Broken} :
          seen' = [seen EXCEPT ![a] = row]
    /\ UNCHANGED <<rows, question, reply>>

Reply(a) ==
    /\ seen[a] # Unread
    /\ reply[a] = NoReply
    /\ reply' = [reply EXCEPT ![a] = Verdict(question[a], seen[a])]
    /\ UNCHANGED <<rows, question, seen>>

\* Questions without an answer are given up, one or many at a time.
Forget(S) ==
    /\ \A a \in S : reply[a] = NoReply
    /\ question' = [a \in Askers |-> IF a \in S THEN NoQuestion ELSE question[a]]
    /\ seen' = [a \in Askers |-> IF a \in S THEN Unread ELSE seen[a]]
    /\ UNCHANGED <<rows, reply>>

Next ==
    \/ \E k \in Keys, row \in Rows : Write(k, row)
    \/ \E a \in Askers, q \in Questions : Ask(a, q)
    \/ \E a \in Askers : Read(a) \/ Reply(a)
    \/ \E S \in SUBSET Askers : Forget(S)

Spec == Init /\ [][Next]_vars
=============================================================================
