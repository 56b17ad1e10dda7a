---------------------------- MODULE RangeColumns ----------------------------
(***************************************************************************)
(* The range-check circuit column by column: the row that generate_trace   *)
(* lays out, and the constraints of RepIdRangeCheckAir::eval on any row a  *)
(* prover may commit to.  The module exists to justify the word-level      *)
(* AirHolds of RangeCheck.  The trace has one row, so the constraint       *)
(* guarded by when_first_row applies to it.                                *)
(***************************************************************************)
EXTENDS RangeCheck

CONSTANTS
    Columns,    \* 32, one per bit of the u32 word
    LowColumns  \* 16, the columns that may be nonzero

\* 1 << n
Pow2[n \in 0 .. Columns] == IF n = 0 THEN 1 ELSE 2 * Pow2[n - 1]

ASSUME RangeColumnsAssumption ==
    /\ Columns \in Nat /\ LowColumns \in 1 .. Columns - 1
    /\ WordSize = Pow2[Columns] /\ RangeSize = Pow2[LowColumns]

VARIABLES
    row,            \* the committed trace row
    publicValues,   \* the public values it is checked under
    verdict         \* "none" until eval has run

columnsVars == <<row, publicValues, verdict>>

\* Big-endian: column 0 holds the most significant bit.
Weight(i) == Pow2[Columns - 1 - i]

FirstLow == Columns - LowColumns
High == 0 .. FirstLow - 1
Low  == FirstLow .. Columns - 1

\* Mistake: column 0 holds the least significant bit.
GenerateTraceLittleEndian(value) ==
    [i \in 0 .. Columns - 1 |-> (value \div Pow2[i]) % 2]

GenerateTrace(value) ==
    [i \in 0 .. Columns - 1 |-> (value \div Weight(i)) % 2]

\* The loop over the low columns, in field arithmetic; sum[n] is the
\* accumulator after the first n of them.
Reconstructed(r) ==
    LET column(n) == FirstLow + n - 1
        sum[n \in 0 .. LowColumns] ==
            IF n = 0 THEN 0
            ELSE (sum[n - 1] + Weight(column(n)) * r[column(n)]) % Prime
    IN  sum[LowColumns]

\* Mistake: the high columns are not constrained.
EvalLowOnly(r, p) ==
    /\ \A i \in Low : r[i] \in {0, 1}
    /\ Reconstructed(r) = GapElement(p)

Eval(r, p) ==
    /\ \A i \in High : r[i] = 0
    /\ \A i \in Low : r[i] \in {0, 1}
    /\ Reconstructed(r) = GapElement(p)

ColumnsInit ==
    /\ row \in [0 .. Columns - 1 -> FieldElements]
    /\ publicValues \in
           [agent : {"a"}, threshold : FieldElements, repid : FieldElements]
    /\ verdict = "none"

Evaluate ==
    /\ verdict = "none"
    /\ verdict' = IF Eval(row, publicValues) THEN "accept" ELSE "reject"
    /\ UNCHANGED <<row, publicValues>>

ColumnsNext == Evaluate

ColumnsSpec == ColumnsInit /\ [][ColumnsNext]_columnsVars

-----------------------------------------------------------------------------
\* A row with arbitrary field elements in its columns is accepted only if
\* it is the decomposition of a word below RangeSize that AirHolds accepts:
\* no row of non-boolean or wrapped columns passes for one.
OnlyWordsAccepted ==
    verdict = "accept" =>
        \E word \in 0 .. RangeSize - 1 :
            row = GenerateTrace(word) /\ AirHolds(word, publicValues)

\* The row generate_trace makes for any u32 is accepted exactly when
\* AirHolds accepts the word, large words included.
TraceMeansWord ==
    verdict # "none" =>
        \A word \in 0 .. WordSize - 1 :
            row = GenerateTrace(word) =>
                (verdict = "accept" <=> AirHolds(word, publicValues))
=============================================================================
