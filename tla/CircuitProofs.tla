--------------------------- MODULE CircuitProofs ---------------------------
(***************************************************************************)
(* The range-check circuit: that the columns of RangeColumns amount to the *)
(* word-level constraints of RangeCheck, for every number of columns, and  *)
(* what those constraints make of the claims of ProofExchange, for every   *)
(* field, range, identifier and number.                                    *)
(***************************************************************************)
EXTENDS RangeColumns, ProofExchange, RangeCheckProofs, WellFoundedInduction

-----------------------------------------------------------------------------
(* Induction and recursion over the natural numbers.  The hypothesis is a  *)
(* set and the step a function, because the provers cannot be given a      *)
(* predicate or an operator to instantiate.                                *)

\* A nonempty set of naturals has a least element.
LEMMA Least ==
    ASSUME NEW T, T \subseteq Nat, T # {}
    PROVE  \E n \in T : \A m \in T : n <= m
<1> DEFINE R == OpToRel(<, Nat)
<1>1. IsWellFoundedOn(R, Nat)
  BY NatLessThanWellFounded
<1>2. \A m, n \in Nat : m < n => <<m, n>> \in R
  <2> TAKE m, n \in Nat
  <2>1. <<m, n>> \in Nat \X Nat /\ <<m, n>>[1] = m /\ <<m, n>>[2] = n
    OBVIOUS
  <2> QED
    BY <2>1 DEF OpToRel
<1> HIDE DEF R
<1>3. PICK n \in T : \A m \in T : ~(<<m, n>> \in R)
  BY <1>1, WFMin
<1>4. \A m \in T : m \in Nat /\ n \in Nat /\ ~(m < n)
  BY <1>2, <1>3
<1>5. \A m \in T : n <= m
  BY <1>4
<1> QED
  BY <1>5

\* A set that holds 0 and every successor of its members holds every number.
LEMMA Induction ==
    ASSUME NEW P, 0 \in P, \A n \in Nat : n \in P => n + 1 \in P
    PROVE  Nat \subseteq P
<1> SUFFICES ASSUME ~(Nat \subseteq P) PROVE FALSE
  OBVIOUS
<1>1. PICK n \in Nat \ P : \A m \in Nat \ P : n <= m
  BY Least
<1>2. n # 0 /\ n - 1 \in Nat
  BY <1>1
<1>3. n - 1 \in P
  BY <1>1, <1>2
<1> QED
  BY <1>1, <1>2, <1>3

\* The same up to a bound.
LEMMA BoundedInduction ==
    ASSUME NEW n \in Nat, NEW P,
           0 \in P, \A i \in 1 .. n : i - 1 \in P => i \in P
    PROVE  0 .. n \subseteq P
<1> DEFINE Q == {i \in Nat : i <= n => i \in P}
<1>1. 0 \in Q
  OBVIOUS
<1>2. ASSUME NEW i \in Nat, i \in Q PROVE i + 1 \in Q
  <2>1. CASE i + 1 <= n
    <3>1. i + 1 \in 1 .. n /\ (i + 1) - 1 = i /\ i \in P
      BY <1>2, <2>1
    <3>2. i + 1 \in P
      BY <3>1
    <3> QED
      BY <3>2
  <2>2. CASE ~(i + 1 <= n)
    BY <2>2
  <2> QED
    BY <2>1, <2>2
<1> HIDE DEF Q
<1>3. Nat \subseteq Q
  BY <1>1, <1>2, Induction
<1> QED
  BY <1>3 DEF Q

\* g starts at base and takes one step for each index up to n.
Run(S, base, step, n, g) ==
    /\ g \in [0 .. n -> S]
    /\ g[0] = base
    /\ \A i \in 1 .. n : g[i] = step[i][g[i - 1]]

\* A value and a step for every index determine a function by recursion.
LEMMA Recursion ==
    ASSUME NEW S, NEW base \in S, NEW step, step \in [Nat -> [S -> S]],
           NEW n \in Nat
    PROVE  \E g : Run(S, base, step, n, g)
<1> DEFINE P == {i \in Nat : \E g : Run(S, base, step, i, g)}
<1>1. 0 \in P
  <2>1. Run(S, base, step, 0, [i \in 0 .. 0 |-> base])
    BY DEF Run
  <2> QED
    BY <2>1
<1>2. ASSUME NEW m \in Nat, m \in P PROVE m + 1 \in P
  <2>1. PICK g : Run(S, base, step, m, g)
    BY <1>2
  <2> DEFINE h == [i \in 0 .. m + 1 |->
                      IF i = m + 1 THEN step[m + 1][g[m]] ELSE g[i]]
  <2>2. g[m] \in S /\ step[m + 1][g[m]] \in S
    BY <2>1 DEF Run
  <2>3. h \in [0 .. m + 1 -> S]
    BY <2>1, <2>2 DEF Run
  <2>4. h[0] = base
    BY <2>1 DEF Run
  <2>5. ASSUME NEW i \in 1 .. m + 1 PROVE h[i] = step[i][h[i - 1]]
    <3>1. CASE i = m + 1
      BY <3>1
    <3>2. CASE i \in 1 .. m
      BY <3>2, <2>1 DEF Run
    <3> QED
      BY <3>1, <3>2
  <2>6. Run(S, base, step, m + 1, h)
    BY <2>3, <2>4, <2>5 DEF Run
  <2> QED
    BY <2>6
<1> HIDE DEF P
<1>3. Nat \subseteq P
  BY <1>1, <1>2, Induction
<1> QED
  BY <1>3 DEF P

-----------------------------------------------------------------------------
(* Division. *)

\* Quotients and remainders of naturals.
LEMMA DivBounds ==
    \A v \in Nat, a \in Nat \ {0} :
        v \div a \in Nat /\ a * (v \div a) <= v /\ v < a * (v \div a) + a
OBVIOUS

\* There is one quotient.
LEMMA DivUnique ==
    \A v, k \in Nat, a \in Nat \ {0} :
        a * k <= v /\ v < a * k + a => v \div a = k
OBVIOUS

\* A number and its half.
LEMMA Halves ==
    \A v \in Nat : /\ v \div 2 \in Nat
                   /\ v % 2 \in {0, 1}
                   /\ v = 2 * (v \div 2) + (v % 2)
OBVIOUS

\* Shifting right by one place more halves.
LEMMA DivTwice ==
    ASSUME NEW v \in Nat, NEW a \in Nat \ {0}
    PROVE  v \div (2 * a) = (v \div a) \div 2
<1> DEFINE q == v \div a
           k == q \div 2
<1>1. q \in Nat /\ a * q <= v /\ v < a * q + a
  BY DivBounds
<1> HIDE DEF q
<1>2. k \in Nat /\ (q = 2 * k \/ q = 2 * k + 1)
  BY <1>1
<1> HIDE DEF k
<1>3. 2 * a \in Nat \ {0}
  OBVIOUS
<1>4. CASE q = 2 * k
  <2>1. a * q = (2 * a) * k
    BY <1>2, <1>4
  <2>2. (2 * a) * k <= v /\ v < (2 * a) * k + 2 * a
    BY <1>1, <1>2, <2>1
  <2> QED
    BY <1>2, <1>3, <2>2, DivUnique DEF k, q
<1>5. CASE q = 2 * k + 1
  <2>1. a * q = (2 * a) * k + a
    BY <1>2, <1>5
  <2>2. (2 * a) * k <= v /\ v < (2 * a) * k + 2 * a
    BY <1>1, <1>2, <2>1
  <2> QED
    BY <1>2, <1>3, <2>2, DivUnique DEF k, q
<1> QED
  BY <1>2, <1>4, <1>5

-----------------------------------------------------------------------------
(* The columns of a trace. *)

\* The powers of two, as equations.
LEMMA Pow2Rec ==
    /\ Pow2 \in [0 .. Columns -> Nat \ {0}]
    /\ Pow2[0] = 1
    /\ \A n \in 1 .. Columns : Pow2[n] = 2 * Pow2[n - 1]
<1> DEFINE S == Nat \ {0}
           step == [i \in Nat |-> [v \in S |-> 2 * v]]
           Body(f) == [n \in 0 .. Columns |-> IF n = 0 THEN 1 ELSE 2 * f[n - 1]]
<1>1. Columns \in Nat
  BY RangeColumnsAssumption
<1>2. 1 \in S /\ step \in [Nat -> [S -> S]]
  OBVIOUS
<1>3. \A i \in Nat, v \in S : step[i][v] = 2 * v
  OBVIOUS
<1>4. \A v \in S : v \in Nat \ {0}
  OBVIOUS
<1> HIDE DEF step, S
<1>5. PICK g : Run(S, 1, step, Columns, g)
  BY <1>1, <1>2, Recursion
<1>6. \A i \in 1 .. Columns : g[i] = 2 * g[i - 1]
  BY <1>1, <1>3, <1>5 DEF Run
<1>7. g = Body(g)
  BY <1>1, <1>5, <1>6 DEF Run
<1> HIDE DEF Body
<1>8. Pow2 = Body(Pow2)
  BY <1>7 DEF Pow2, Body
<1>9. Pow2[0] = 1 /\ \A n \in 1 .. Columns : Pow2[n] = 2 * Pow2[n - 1]
  BY <1>1, <1>8 DEF Body
<1> DEFINE P == {n \in Nat : Pow2[n] \in Nat \ {0}}
<1>10. 0 .. Columns \subseteq P
  <2>1. 0 \in P
    BY <1>9
  <2>2. ASSUME NEW i \in 1 .. Columns, i - 1 \in P PROVE i \in P
    BY <1>9, <2>2
  <2> HIDE DEF P
  <2> QED
    BY <1>1, <2>1, <2>2, BoundedInduction
<1>11. Pow2 \in [0 .. Columns -> Nat \ {0}]
  BY <1>8, <1>10 DEF Body
<1> QED
  BY <1>9, <1>11

\* The powers of two that 32 columns weigh: with 16 of them low, they are the
\* range size and the size of a u32 that BabyBearParameters gives, so
\* RangeColumnsAssumption holds of the numbers of the code (circuit.rs, width
\* and eval).
LEMMA DeployedColumns ==
    ASSUME NEW f, f[0] = 1, \A n \in 1 .. 32 : f[n] = 2 * f[n - 1]
    PROVE  f[16] = 65536 /\ f[32] = 4294967296
<1>1. \A n \in 0 .. 31 : f[n + 1] = 2 * f[n]
  <2> TAKE n \in 0 .. 31
  <2>1. n + 1 \in 1 .. 32 /\ (n + 1) - 1 = n
    OBVIOUS
  <2> QED
    BY <2>1
<1>2. f[8] = 256
  BY <1>1
<1>3. f[16] = 65536
  BY <1>1, <1>2
<1>4. f[24] = 16777216
  BY <1>1, <1>3
<1>5. f[32] = 4294967296
  BY <1>1, <1>4
<1> QED
  BY <1>3, <1>5

\* The column that holds the n-th low bit, and its weight.
Column(n)    == FirstLow + n - 1
LowWeight(n) == Pow2[LowColumns - n]

\* A low column of the loop is a column.
LEMMA ColumnType ==
    /\ LowColumns \in Nat \ {0} /\ Columns \in Nat /\ LowColumns < Columns
    /\ \A n \in 1 .. LowColumns : Column(n) \in Low /\ Column(n) \in 0 .. Columns - 1
    /\ \A i \in Low : i - FirstLow + 1 \in 1 .. LowColumns /\ Column(i - FirstLow + 1) = i
BY RangeColumnsAssumption DEF Column, Low, FirstLow

\* The weights of the low columns are positive.
LEMMA LowWeightType == \A n \in 0 .. LowColumns : LowWeight(n) \in Nat \ {0}
<1> TAKE n \in 0 .. LowColumns
<1>1. LowColumns - n \in 0 .. Columns
  BY ColumnType
<1> QED
  BY <1>1, Pow2Rec DEF LowWeight

\* Each low column weighs half of the one before it.
LEMMA LowWeightRec ==
    /\ \A n \in 1 .. LowColumns : Weight(Column(n)) = LowWeight(n)
    /\ \A n \in 1 .. LowColumns : LowWeight(n - 1) = 2 * LowWeight(n)
    /\ LowWeight(0) = RangeSize /\ LowWeight(LowColumns) = 1
<1>1. ASSUME NEW n \in 1 .. LowColumns PROVE Weight(Column(n)) = LowWeight(n)
  <2>1. Columns - 1 - Column(n) = LowColumns - n
    BY ColumnType DEF Column, FirstLow
  <2> QED
    BY <2>1 DEF Weight, LowWeight
<1>2. ASSUME NEW n \in 1 .. LowColumns PROVE LowWeight(n - 1) = 2 * LowWeight(n)
  <2>1. LowColumns - (n - 1) \in 1 .. Columns
    BY ColumnType
  <2>2. (LowColumns - (n - 1)) - 1 = LowColumns - n
    BY ColumnType
  <2>3. Pow2[LowColumns - (n - 1)] = 2 * Pow2[(LowColumns - (n - 1)) - 1]
    BY <2>1, Pow2Rec
  <2> QED
    BY <2>2, <2>3 DEF LowWeight
<1>3. LowColumns - 0 = LowColumns /\ LowColumns - LowColumns = 0
  BY ColumnType
<1> QED
  BY <1>1, <1>2, <1>3, Pow2Rec, RangeColumnsAssumption DEF LowWeight

\* Powers of two do not decrease.
LEMMA Pow2AtLeast ==
    \A i \in LowColumns .. Columns : Pow2[i] >= RangeSize
<1> DEFINE P == {n \in Nat : n >= LowColumns /\ n <= Columns => Pow2[n] >= RangeSize}
<1>1. 0 \in P
  BY ColumnType
<1>2. ASSUME NEW n \in 1 .. Columns, n - 1 \in P PROVE n \in P
  <2>1. CASE n < LowColumns
    BY <2>1, ColumnType
  <2>2. CASE n = LowColumns
    BY <2>2, RangeColumnsAssumption, RangeCheckAssumption
  <2>3. CASE n > LowColumns
    <3>1. n - 1 \in 0 .. Columns /\ Pow2[n - 1] >= RangeSize
      BY <1>2, <2>3, ColumnType
    <3>2. Pow2[n] = 2 * Pow2[n - 1] /\ Pow2[n - 1] \in Nat
      BY <3>1, Pow2Rec
    <3>3. Pow2[n] >= RangeSize
      BY <3>1, <3>2, RangeCheckAssumption
    <3> QED
      BY <3>3
  <2> QED
    BY <2>1, <2>2, <2>3, ColumnType
<1> HIDE DEF P
<1>3. 0 .. Columns \subseteq P
  BY <1>1, <1>2, ColumnType, BoundedInduction
<1> QED
  BY <1>3, ColumnType DEF P

Rows == [0 .. Columns - 1 -> FieldElements]

\* The accumulator of eval, as two equations.
LEMMA ReconstructedRec ==
    ASSUME NEW r \in Rows
    PROVE  \E sum : /\ sum[0] = 0
                    /\ \A n \in 1 .. LowColumns :
                          sum[n] = (sum[n - 1] + Weight(Column(n)) * r[Column(n)]) % Prime
                    /\ Reconstructed(r) = sum[LowColumns]
<1> DEFINE Body(f) == [n \in 0 .. LowColumns |->
                          IF n = 0 THEN 0
                          ELSE (f[n - 1] + Weight(Column(n)) * r[Column(n)]) % Prime]
           step == [i \in Nat |-> [v \in Nat |->
                       IF i \in 1 .. LowColumns
                       THEN (v + Weight(Column(i)) * r[Column(i)]) % Prime ELSE v]]
           sum == CHOOSE f : f = Body(f)
<1>1. ASSUME NEW i \in 1 .. LowColumns, NEW v \in Nat
      PROVE  (v + Weight(Column(i)) * r[Column(i)]) % Prime \in Nat
  <2>1. r[Column(i)] \in Nat /\ Weight(Column(i)) \in Nat
    <3>1. Column(i) \in 0 .. Columns - 1 /\ i \in 0 .. LowColumns
      BY ColumnType
    <3>2. r[Column(i)] \in Nat
      BY <3>1 DEF Rows, FieldElements
    <3>3. Weight(Column(i)) \in Nat
      BY <3>1, LowWeightType, LowWeightRec
    <3> QED
      BY <3>2, <3>3
  <2>2. \A a, b \in Nat : v + a * b \in Nat
    OBVIOUS
  <2>3. \A a \in Nat : a % Prime \in Nat
    BY RangeCheckAssumption
  <2> QED
    BY <2>1, <2>2, <2>3
<1>2. step \in [Nat -> [Nat -> Nat]]
  BY <1>1
<1>3. \A i \in 1 .. LowColumns, v \in Nat :
          step[i][v] = (v + Weight(Column(i)) * r[Column(i)]) % Prime
  OBVIOUS
<1> HIDE DEF step
<1>4. PICK g : Run(Nat, 0, step, LowColumns, g)
  BY <1>2, ColumnType, Recursion
<1>5. \A i \in 1 .. LowColumns :
          g[i] = (g[i - 1] + Weight(Column(i)) * r[Column(i)]) % Prime
  <2> TAKE i \in 1 .. LowColumns
  <2>1. i - 1 \in 0 .. LowColumns
    BY ColumnType
  <2>2. g[i - 1] \in Nat /\ g[i] = step[i][g[i - 1]]
    BY <1>4, <2>1 DEF Run
  <2> QED
    BY <1>3, <2>2
<1>6. g = Body(g)
  BY <1>4, <1>5, ColumnType DEF Run
<1>7. Reconstructed(r) = sum[LowColumns]
  BY DEF Reconstructed, Column
<1> HIDE DEF Body
<1>8. sum = Body(sum)
  BY <1>6
<1> HIDE DEF sum
<1>9. sum[0] = 0
  BY <1>8, ColumnType DEF Body
<1>10. ASSUME NEW n \in 1 .. LowColumns
       PROVE  sum[n] = (sum[n - 1] + Weight(Column(n)) * r[Column(n)]) % Prime
  <2>1. n \in 0 .. LowColumns /\ n # 0
    BY ColumnType
  <2>2. sum[n] = Body(sum)[n]
    BY <1>8
  <2> QED
    BY <2>1, <2>2 DEF Body
<1> QED
  BY <1>7, <1>9, <1>10

\* The low columns read from the left: each bit doubles the number so far.
LEMMA ReadRow ==
    ASSUME NEW r \in Rows
    PROVE  \E q : /\ q \in [0 .. LowColumns -> Nat]
                  /\ q[0] = 0
                  /\ \A n \in 1 .. LowColumns : q[n] = 2 * q[n - 1] + r[Column(n)]
<1> DEFINE step == [i \in Nat |-> [v \in Nat |->
                       IF i \in 1 .. LowColumns THEN 2 * v + r[Column(i)] ELSE v]]
<1>1. \A i \in 1 .. LowColumns : r[Column(i)] \in Nat
  BY ColumnType DEF Rows, FieldElements
<1>2. step \in [Nat -> [Nat -> Nat]]
  BY <1>1
<1>3. \A i \in 1 .. LowColumns, v \in Nat : step[i][v] = 2 * v + r[Column(i)]
  OBVIOUS
<1> HIDE DEF step
<1>4. PICK q : Run(Nat, 0, step, LowColumns, q)
  BY <1>2, ColumnType, Recursion
<1>5. ASSUME NEW i \in 1 .. LowColumns PROVE q[i] = 2 * q[i - 1] + r[Column(i)]
  <2>1. i - 1 \in 0 .. LowColumns
    BY ColumnType
  <2>2. q[i - 1] \in Nat /\ q[i] = step[i][q[i - 1]]
    BY <1>4, <2>1 DEF Run
  <2> QED
    BY <1>3, <2>2
<1> QED
  BY <1>4, <1>5 DEF Run

\* One more bit: the accumulator takes the bit at its weight, and stays
\* below the next multiple of that weight.
LEMMA BitStep ==
    ASSUME NEW w \in Nat, NEW k \in Nat, NEW b \in {0, 1}
    PROVE  /\ (2 * w) * k + w * b = w * (2 * k + b)
           /\ w * (2 * k + b) + w <= (2 * w) * k + 2 * w
<1>1. w * (2 * k) = (2 * w) * k
  OBVIOUS
<1>2. w * (2 * k + 1) = w * (2 * k) + w
  OBVIOUS
<1>3. (2 * w) * k \in Nat
  OBVIOUS
<1>4. CASE b = 0
  BY <1>1, <1>3, <1>4
<1>5. CASE b = 1
  BY <1>1, <1>2, <1>3, <1>5
<1> QED
  BY <1>4, <1>5

\* Dividing out the half of a weight reads one more bit.
LEMMA HalfBit ==
    \A k \in Nat, b \in {0, 1} : (2 * k + b) \div 2 = k /\ (2 * k + b) % 2 = b
OBVIOUS

\* A row of bits with zero high columns is the trace of the word that eval
\* reconstructs, without any reduction modulo the prime.
LEMMA RowIsWord ==
    ASSUME NEW r \in Rows,
           \A i \in High : r[i] = 0,
           \A i \in Low : r[i] \in {0, 1}
    PROVE  \E word \in 0 .. RangeSize - 1 :
               r = GenerateTrace(word) /\ Reconstructed(r) = word
<1>1. PICK sum : /\ sum[0] = 0
                 /\ \A n \in 1 .. LowColumns :
                       sum[n] = (sum[n - 1] + Weight(Column(n)) * r[Column(n)]) % Prime
                 /\ Reconstructed(r) = sum[LowColumns]
  BY ReconstructedRec
<1>2. PICK q : /\ q \in [0 .. LowColumns -> Nat]
               /\ q[0] = 0
               /\ \A n \in 1 .. LowColumns : q[n] = 2 * q[n - 1] + r[Column(n)]
  BY ReadRow
<1>3. \A n \in 1 .. LowColumns :
          /\ n \in 0 .. LowColumns /\ n - 1 \in 0 .. LowColumns
          /\ q[n] \in Nat /\ q[n - 1] \in Nat
          /\ LowWeight(n) \in Nat \ {0} /\ LowWeight(n - 1) \in Nat \ {0}
          /\ r[Column(n)] \in {0, 1}
  <2> TAKE n \in 1 .. LowColumns
  <2>1. n \in 0 .. LowColumns /\ n - 1 \in 0 .. LowColumns
    BY ColumnType
  <2>2. Column(n) \in Low
    BY ColumnType
  <2> QED
    BY <1>2, <2>1, <2>2, LowWeightType
<1> DEFINE P == {n \in Nat : n <= LowColumns =>
                    /\ sum[n] = LowWeight(n) * q[n]
                    /\ LowWeight(n) * q[n] + LowWeight(n) <= RangeSize}
<1>4. 0 \in P
  BY <1>1, <1>2, LowWeightRec, RangeCheckAssumption
<1>5. ASSUME NEW n \in 1 .. LowColumns, n - 1 \in P PROVE n \in P
  <2>1. PICK w \in Nat, k \in Nat, b \in {0, 1} :
            w = LowWeight(n) /\ k = q[n - 1] /\ b = r[Column(n)]
    BY <1>3
  <2>2. LowWeight(n - 1) = 2 * w /\ Weight(Column(n)) = w
    BY <2>1, LowWeightRec
  <2>3. sum[n - 1] = (2 * w) * k /\ (2 * w) * k + 2 * w <= RangeSize
    BY <1>5, <2>1, <2>2, ColumnType
  <2>4. q[n] = 2 * k + b
    BY <1>2, <2>1
  <2>5. /\ (2 * w) * k + w * b = w * (2 * k + b)
        /\ w * (2 * k + b) + w <= (2 * w) * k + 2 * w
    BY BitStep
  <2>6. w * (2 * k + b) \in Nat /\ (2 * w) * k + 2 * w \in Nat
    OBVIOUS
  <2>7. w * (2 * k + b) + w <= RangeSize
    BY <2>3, <2>5, <2>6, RangeCheckAssumption
  <2>8. w \in Nat \ {0}
    BY <1>3, <2>1
  <2>9. w * (2 * k + b) < Prime
    BY <2>6, <2>7, <2>8, RangeCheckAssumption
  <2>10. sum[n] = (w * (2 * k + b)) % Prime
    BY <1>1, <2>1, <2>2, <2>3, <2>5
  <2>11. \A v \in Nat, p \in Nat : v < p => v % p = v
    OBVIOUS
  <2>12. sum[n] = w * (2 * k + b)
    BY <2>6, <2>9, <2>10, <2>11, RangeCheckAssumption
  <2>13. n \in Nat
    BY ColumnType
  <2> QED
    BY <2>1, <2>4, <2>7, <2>12, <2>13
<1> HIDE DEF P
<1>6. 0 .. LowColumns \subseteq P
  BY <1>4, <1>5, ColumnType, BoundedInduction
<1> DEFINE word == q[LowColumns]
<1>7. LowColumns \in 0 .. LowColumns /\ word \in Nat
  BY <1>2, ColumnType
<1>8. Reconstructed(r) = word /\ word \in 0 .. RangeSize - 1
  <2>1. LowColumns \in P
    BY <1>6, <1>7
  <2>2. sum[LowColumns] = LowWeight(LowColumns) * q[LowColumns]
        /\ LowWeight(LowColumns) * q[LowColumns] + LowWeight(LowColumns) <= RangeSize
    BY <2>1, ColumnType DEF P
  <2>3. LowWeight(LowColumns) = 1
    BY LowWeightRec
  <2> QED
    BY <1>1, <1>7, <2>2, <2>3, RangeCheckAssumption
<1> HIDE DEF word
<1> DEFINE Q == {m \in Nat : m <= LowColumns =>
                    word \div LowWeight(LowColumns - m) = q[LowColumns - m]}
<1>9. 0 \in Q
  <2>1. LowColumns - 0 = LowColumns /\ LowWeight(LowColumns) = 1
    BY ColumnType, LowWeightRec
  <2>2. word \div 1 = word
    BY <1>7
  <2> QED
    BY <2>1, <2>2 DEF word
<1>10. ASSUME NEW m \in 1 .. LowColumns, m - 1 \in Q PROVE m \in Q
  <2> DEFINE n == LowColumns - (m - 1)
  <2>1. n \in 1 .. LowColumns /\ n - 1 = LowColumns - m /\ m \in Nat
    BY ColumnType
  <2>2. word \div LowWeight(n) = q[n]
    BY <1>10, ColumnType
  <2> HIDE DEF n
  <2>3. PICK w \in Nat \ {0}, k \in Nat, b \in {0, 1} :
            w = LowWeight(n) /\ k = q[n - 1] /\ b = r[Column(n)]
    BY <1>3, <2>1
  <2>4. LowWeight(n - 1) = 2 * w
    BY <2>1, <2>3, LowWeightRec
  <2>5. word \div w = 2 * k + b
    BY <1>2, <2>1, <2>2, <2>3
  <2>6. word \div (2 * w) = (word \div w) \div 2
    BY <1>7, DivTwice
  <2>7. word \div (2 * w) = k
    BY <2>5, <2>6, HalfBit
  <2> QED
    BY <2>1, <2>3, <2>4, <2>7
<1> HIDE DEF Q
<1>11. 0 .. LowColumns \subseteq Q
  BY <1>9, <1>10, ColumnType, BoundedInduction
<1>12. ASSUME NEW n \in 1 .. LowColumns
       PROVE  (word \div Weight(Column(n))) % 2 = r[Column(n)]
  <2>1. LowColumns - n \in 0 .. LowColumns /\ LowColumns - (LowColumns - n) = n
    BY ColumnType
  <2>2. word \div LowWeight(n) = q[n]
    BY <1>11, <2>1, ColumnType DEF Q
  <2>3. PICK k \in Nat, b \in {0, 1} : k = q[n - 1] /\ b = r[Column(n)]
    BY <1>3
  <2>4. q[n] = 2 * k + b
    BY <1>2, <2>3
  <2>5. Weight(Column(n)) = LowWeight(n)
    BY LowWeightRec
  <2> QED
    BY <2>2, <2>3, <2>4, <2>5, HalfBit
<1>13. ASSUME NEW i \in High PROVE (word \div Weight(i)) % 2 = r[i]
  <2>1. Columns - 1 - i \in LowColumns .. Columns
    BY ColumnType DEF High, FirstLow
  <2>2. Weight(i) \in Nat \ {0} /\ Weight(i) >= RangeSize
    BY <2>1, ColumnType, Pow2Rec, Pow2AtLeast DEF Weight
  <2>3. word < Weight(i)
    BY <1>7, <1>8, <2>2, RangeCheckAssumption
  <2>4. \A v, a \in Nat : v < a => v \div a = 0
    OBVIOUS
  <2>5. word \div Weight(i) = 0
    BY <1>7, <2>2, <2>3, <2>4
  <2> QED
    BY <2>5
<1>14. ASSUME NEW i \in 0 .. Columns - 1 PROVE r[i] = (word \div Weight(i)) % 2
  <2>1. CASE i \in High
    BY <1>13, <2>1
  <2>2. CASE i \in Low
    <3>1. i - FirstLow + 1 \in 1 .. LowColumns /\ Column(i - FirstLow + 1) = i
      BY <2>2, ColumnType
    <3> QED
      BY <1>12, <3>1
  <2>3. i \in High \/ i \in Low
    BY ColumnType DEF High, Low, FirstLow
  <2> QED
    BY <2>1, <2>2, <2>3
<1>15. r = GenerateTrace(word)
  BY <1>14 DEF Rows, GenerateTrace
<1> QED
  BY <1>8, <1>15

\* A word is determined by its trace.
LEMMA TraceInjective ==
    ASSUME NEW v \in 0 .. WordSize - 1, NEW w \in 0 .. WordSize - 1,
           GenerateTrace(v) = GenerateTrace(w)
    PROVE  v = w
<1> DEFINE P == {n \in Nat : n <= Columns =>
                    v \div Pow2[Columns - n] = w \div Pow2[Columns - n]}
<1>1. v \in Nat /\ w \in Nat /\ v < WordSize /\ w < WordSize
  BY RangeCheckAssumption
<1>2. 0 \in P
  <2>1. Columns - 0 = Columns /\ WordSize = Pow2[Columns]
    BY RangeColumnsAssumption
  <2>2. \A x, a \in Nat : x < a => x \div a = 0
    OBVIOUS
  <2>3. v \div WordSize = 0 /\ w \div WordSize = 0
    BY <1>1, <2>2, RangeCheckAssumption
  <2> QED
    BY <2>1, <2>3
<1>3. ASSUME NEW n \in 1 .. Columns, n - 1 \in P PROVE n \in P
  <2> DEFINE a == Pow2[Columns - n]
  <2>1. n - 1 \in 0 .. Columns - 1 /\ Columns - 1 - (n - 1) = Columns - n /\ n \in Nat
    BY ColumnType
  <2>2. a \in Nat \ {0} /\ Pow2[Columns - (n - 1)] = 2 * a
    <3>1. Columns - n \in 0 .. Columns /\ Columns - (n - 1) \in 1 .. Columns
          /\ (Columns - (n - 1)) - 1 = Columns - n
      BY ColumnType
    <3> QED
      BY <3>1, Pow2Rec
  <2>3. v \div (2 * a) = w \div (2 * a)
    BY <1>3, <2>1, <2>2, ColumnType
  <2>4. GenerateTrace(v)[n - 1] = (v \div a) % 2 /\ GenerateTrace(w)[n - 1] = (w \div a) % 2
    BY <2>1 DEF GenerateTrace, Weight
  <2> HIDE DEF a
  <2>5. (v \div a) % 2 = (w \div a) % 2
    BY <2>4
  <2>6. (v \div a) \div 2 = (w \div a) \div 2
    BY <1>1, <2>2, <2>3, DivTwice
  <2>7. v \div a \in Nat /\ w \div a \in Nat
    BY <1>1, <2>2, DivBounds
  <2>8. v \div a = w \div a
    BY <2>5, <2>6, <2>7, Halves
  <2> QED
    BY <2>1, <2>8 DEF a
<1> HIDE DEF P
<1>4. 0 .. Columns \subseteq P
  BY <1>2, <1>3, ColumnType, BoundedInduction
<1>5. v \div Pow2[0] = w \div Pow2[0]
  <2>1. Columns \in P /\ Columns - Columns = 0
    BY <1>4, ColumnType
  <2> QED
    BY <2>1, ColumnType DEF P
<1>6. v \div 1 = v /\ w \div 1 = w
  BY <1>1
<1> QED
  BY <1>5, <1>6, Pow2Rec

\* The trace of a word is a row; that of a word in range has zero high
\* columns and bits in the low ones.
LEMMA TraceType ==
    ASSUME NEW w \in Nat
    PROVE  GenerateTrace(w) \in Rows
           /\ \A i \in 0 .. Columns - 1 : GenerateTrace(w)[i] \in {0, 1}
<1>1. ASSUME NEW i \in 0 .. Columns - 1
      PROVE  (w \div Weight(i)) % 2 \in {0, 1}
  <2>1. Columns - 1 - i \in 0 .. Columns
    BY ColumnType
  <2>2. Weight(i) \in Nat \ {0}
    BY <2>1, Pow2Rec DEF Weight
  <2>3. w \div Weight(i) \in Nat
    BY <2>2, DivBounds
  <2> QED
    BY <2>3, Halves
<1>2. {0, 1} \subseteq FieldElements
  BY RangeCheckAssumption DEF FieldElements
<1> QED
  BY <1>1, <1>2 DEF GenerateTrace, Rows

\* The trace of a word in range is bits, with nothing in the high columns.
LEMMA SmallTrace ==
    ASSUME NEW w \in 0 .. RangeSize - 1
    PROVE  /\ \A i \in High : GenerateTrace(w)[i] = 0
           /\ \A i \in Low : GenerateTrace(w)[i] \in {0, 1}
<1>1. w \in Nat /\ w < RangeSize
  BY RangeCheckAssumption
<1>2. ASSUME NEW i \in High PROVE GenerateTrace(w)[i] = 0
  <2>1. i \in 0 .. Columns - 1 /\ Columns - 1 - i \in LowColumns .. Columns
        /\ Columns - 1 - i \in 0 .. Columns
    BY ColumnType DEF High, FirstLow
  <2>2. Weight(i) \in Nat \ {0} /\ Weight(i) >= RangeSize
    BY <2>1, Pow2Rec, Pow2AtLeast DEF Weight
  <2>3. w < Weight(i)
    BY <1>1, <2>2, RangeCheckAssumption
  <2>4. \A x, a \in Nat : x < a => x \div a = 0
    OBVIOUS
  <2>5. w \div Weight(i) = 0
    BY <1>1, <2>2, <2>3, <2>4
  <2> QED
    BY <2>1, <2>5 DEF GenerateTrace
<1>3. \A i \in Low : i \in 0 .. Columns - 1
  BY ColumnType DEF Low, FirstLow
<1> QED
  BY <1>1, <1>2, <1>3, TraceType

\* Every row that satisfies the constraints is the trace of a word that
\* satisfies the word-level ones.
LEMMA EvalOnlyWords ==
    ASSUME NEW r \in Rows, NEW p, Eval(r, p)
    PROVE  \E word \in 0 .. RangeSize - 1 :
               r = GenerateTrace(word) /\ AirHolds(word, p)
<1>1. PICK word \in 0 .. RangeSize - 1 :
          r = GenerateTrace(word) /\ Reconstructed(r) = word
  BY RowIsWord DEF Eval
<1>2. word < RangeSize
  BY RangeCheckAssumption
<1> QED
  BY <1>1, <1>2 DEF Eval, AirHolds

\* The trace of a u32 satisfies the constraints exactly when the word does.
LEMMA EvalOfTrace ==
    ASSUME NEW w \in 0 .. WordSize - 1, NEW p
    PROVE  Eval(GenerateTrace(w), p) <=> AirHolds(w, p)
<1>1. w \in Nat /\ 0 .. RangeSize - 1 \subseteq 0 .. WordSize - 1
  BY RangeCheckAssumption
<1>2. GenerateTrace(w) \in Rows
  BY <1>1, TraceType
<1>3. ASSUME Eval(GenerateTrace(w), p) PROVE AirHolds(w, p)
  <2>1. PICK word \in 0 .. RangeSize - 1 :
            GenerateTrace(w) = GenerateTrace(word) /\ AirHolds(word, p)
    BY <1>2, <1>3, EvalOnlyWords
  <2>2. word = w
    BY <1>1, <2>1, TraceInjective
  <2> QED
    BY <2>1, <2>2
<1>4. ASSUME AirHolds(w, p) PROVE Eval(GenerateTrace(w), p)
  <2>1. w \in 0 .. RangeSize - 1
    BY <1>1, <1>4, RangeCheckAssumption DEF AirHolds
  <2>2. /\ \A i \in High : GenerateTrace(w)[i] = 0
        /\ \A i \in Low : GenerateTrace(w)[i] \in {0, 1}
    BY <2>1, SmallTrace
  <2>3. PICK word \in 0 .. RangeSize - 1 :
            GenerateTrace(w) = GenerateTrace(word)
            /\ Reconstructed(GenerateTrace(w)) = word
    BY <1>2, <2>2, RowIsWord
  <2>4. word = w
    BY <1>1, <2>3, TraceInjective
  <2> QED
    BY <1>4, <2>2, <2>3, <2>4 DEF Eval, AirHolds
<1> QED
  BY <1>3, <1>4

\* What eval has answered is what it answers for the row on record.
ColumnsInv ==
    /\ row \in Rows
    /\ verdict \in {"none", "accept", "reject"}
    /\ verdict = "accept" => Eval(row, publicValues)
    /\ verdict = "reject" => ~Eval(row, publicValues)

\* The verdict is that of eval on the committed row, which never changes.
THEOREM ColumnsInvariant == ColumnsSpec => []ColumnsInv
<1>1. ColumnsInit => ColumnsInv
  BY DEF ColumnsInit, ColumnsInv, Rows
<1>2. ColumnsInv /\ [ColumnsNext]_columnsVars => ColumnsInv'
  <2> SUFFICES ASSUME ColumnsInv, [ColumnsNext]_columnsVars PROVE ColumnsInv'
    OBVIOUS
  <2>1. CASE Evaluate
    BY <2>1 DEF ColumnsInv, Evaluate
  <2>2. CASE UNCHANGED columnsVars
    BY <2>2 DEF ColumnsInv, columnsVars
  <2> QED
    BY <2>1, <2>2 DEF ColumnsNext
<1> QED
  BY <1>1, <1>2, PTL DEF ColumnsSpec

\* No row of field elements is accepted but the decomposition of a word in
\* range that the word-level constraints accept, for any number of columns.
THEOREM OnlyWords == ColumnsSpec => []OnlyWordsAccepted
<1>1. ColumnsInv => OnlyWordsAccepted
  <2> SUFFICES ASSUME ColumnsInv, verdict = "accept"
               PROVE  \E word \in 0 .. RangeSize - 1 :
                         row = GenerateTrace(word) /\ AirHolds(word, publicValues)
    BY DEF OnlyWordsAccepted
  <2>1. row \in Rows /\ Eval(row, publicValues)
    BY DEF ColumnsInv
  <2>2. PICK r, p : r = row /\ p = publicValues
    OBVIOUS
  <2> QED
    BY <2>1, <2>2, EvalOnlyWords
<1> QED
  BY <1>1, ColumnsInvariant, PTL

\* The row that generate_trace makes for a u32 is accepted exactly when the
\* word-level constraints accept the word.
THEOREM TraceIsWord == ColumnsSpec => []TraceMeansWord
<1>1. ColumnsInv => TraceMeansWord
  <2> SUFFICES ASSUME ColumnsInv, verdict # "none",
                      NEW word \in 0 .. WordSize - 1, row = GenerateTrace(word)
               PROVE  verdict = "accept" <=> AirHolds(word, publicValues)
    BY DEF TraceMeansWord
  <2>1. verdict = "accept" <=> Eval(row, publicValues)
    BY DEF ColumnsInv
  <2>2. PICK w, p : w = word /\ p = publicValues
    OBVIOUS
  <2> QED
    BY <2>1, <2>2, EvalOfTrace
<1> QED
  BY <1>1, ColumnsInvariant, PTL

\* Whatever field elements a prover commits to, a row that eval accepts under
\* the statement's public values shows the score to be above the threshold,
\* if that is not within RangeSize of the prime.
THEOREM RowProvesScore ==
    ASSUME NEW r \in Rows, NEW id, NEW t \in Nat, NEW s \in Nat,
           t < Prime - RangeSize, s < EncodingBound,
           Eval(r, PublicValues(id, t, s))
    PROVE  s > t
<1> DEFINE p == PublicValues(id, t, s)
<1>1. PICK word \in 0 .. RangeSize - 1 : AirHolds(word, p)
  BY EvalOnlyWords
<1>2. p.threshold = Encode(t) /\ p.repid = Encode(s)
  BY DEF PublicValues
<1>3. FieldSub(FieldSub(Encode(s), Encode(t)), 1) < RangeSize
  BY <1>1, <1>2 DEF AirHolds, GapElement
<1> QED
  BY <1>3, GapInRangeSound

\* And the row that generate_proof makes for a score above the threshold is
\* accepted exactly when the gap fits the low columns.
THEOREM ScoreHasRow ==
    ASSUME NEW id, NEW t \in Nat, NEW s \in Nat, s > t, Encodable(t, s)
    PROVE  Eval(GenerateTrace(GapWord(t, s)), PublicValues(id, t, s))
             <=> s - t <= RangeSize
<1> DEFINE p == PublicValues(id, t, s)
           w == GapWord(t, s)
<1>1. w \in 0 .. WordSize - 1
  BY GapWordExact, RangeCheckAssumption DEF Encodable
<1>2. ProveRangeCheck(w, id, t, s).proved <=> s - t <= RangeSize
  BY HonestProofExact
<1>3. ProveRangeCheck(w, id, t, s).proved <=> AirHolds(w, p)
  BY ProvedIff
<1> HIDE DEF p, w
<1>4. Eval(GenerateTrace(w), p) <=> AirHolds(w, p)
  BY <1>1, EvalOfTrace
<1> QED
  BY <1>2, <1>3, <1>4 DEF p, w

-----------------------------------------------------------------------------
(* The exchange of proofs. *)

StatementValues == PublicValues(statement.agent, statement.threshold, statement.repid)
ClaimValues     == PublicValues(claim.agent, claim.threshold, claim.repid)

\* What makes the invariants inductive: a proof is always one of its own
\* statement, and an accepted claim is one it verifies under.
Inv ==
    /\ TypeOK
    /\ HonestProofsExact
    /\ proof.proved => /\ Verifies(proof, StatementValues)
                       /\ Encodable(statement.threshold, statement.repid)
                       /\ stage # "start"
    /\ accepted => /\ stage = "checked"
                   /\ Encodable(claim.threshold, claim.repid)
                   /\ Verifies(proof, ClaimValues)

\* The public values of an encodable statement are field elements.
LEMMA PublicValuesType ==
    ASSUME NEW s \in Statements, Encodable(s.threshold, s.repid)
    PROVE  PublicValues(s.agent, s.threshold, s.repid)
             \in [agent : {AgentBytes(id) : id \in AgentIds},
                  threshold : FieldElements, repid : FieldElements]
BY EncodeType, ProofExchangeAssumption
   DEF PublicValues, Statements, Numbers, Encodable

\* Whatever natural number the caller passes, the result is a well-formed
\* proof of the statement or NoProof.
LEMMA ProveType ==
    ASSUME NEW v \in Nat, NEW s \in Statements
    PROVE  ProveRangeCheck(v, s.agent, s.threshold, s.repid) \in Proofs
<1> DEFINE r == ProveRangeCheck(v, s.agent, s.threshold, s.repid)
           pv == PublicValues(s.agent, s.threshold, s.repid)
<1>1. CASE r = NoProof
  BY <1>1 DEF Proofs
<1>2. CASE r # NoProof
  <2>1. Encodable(s.threshold, s.repid) /\ Verifies(r, pv)
        /\ r = [proved |-> TRUE, word |-> v, pv |-> pv]
    BY <1>2, ProofOfStatement
  <2>2. v \in 0 .. RangeSize - 1
    BY <2>1, RangeCheckAssumption DEF Verifies, AirHolds
  <2>3. pv \in [agent : {AgentBytes(id) : id \in AgentIds},
                threshold : FieldElements, repid : FieldElements]
    BY <2>1, PublicValuesType
  <2> QED
    BY <2>1, <2>2, <2>3 DEF Proofs
<1> QED
  BY <1>1, <1>2

\* The truncated gap is a natural number.
LEMMA GapWordType ==
    ASSUME NEW t \in Nat, NEW s \in Nat, s > t
    PROVE  GapWord(t, s) \in Nat
<1>1. s - t - 1 \in Nat /\ WordSize \in Nat \ {0}
  BY RangeCheckAssumption
<1>2. \A g \in Nat, w \in Nat \ {0} : g % w \in Nat
  OBVIOUS
<1> QED
  BY <1>1, <1>2 DEF GapWord

LEMMA InitInv == Init => Inv
<1> SUFFICES ASSUME Init
             PROVE  Inv
  OBVIOUS
<1>1. TypeOK
  BY DEF Init, TypeOK, Proofs
<1>2. HonestProofsExact
  BY DEF Init, HonestProofsExact
<1>3. ~proof.proved
  BY DEF Init, NoProof
<1>4. ~accepted
  BY DEF Init
<1> QED
  BY <1>1, <1>2, <1>3, <1>4 DEF Inv

\* Both ways of proving leave a proof of the recorded statement.
LEMMA MadeInv ==
    ASSUME Inv, stage = "start",
           NEW s \in Statements, NEW v \in Nat,
           statement' = s,
           proof' = ProveRangeCheck(v, s.agent, s.threshold, s.repid),
           stage' = "made", honest' \in BOOLEAN,
           honest' => v = GapWord(s.threshold, s.repid) /\ s.repid > s.threshold,
           UNCHANGED <<claim, accepted>>
    PROVE  Inv'
<1>1. ~accepted
  BY DEF Inv
<1>2. TypeOK'
  BY ProveType DEF Inv, TypeOK
<1>3. HonestProofsExact'
  <2>1. SUFFICES ASSUME honest'
                 PROVE  proof'.proved <=> /\ Encodable(s.threshold, s.repid)
                                          /\ s.repid - s.threshold <= RangeSize
    BY DEF HonestProofsExact
  <2>2. s.threshold \in Nat /\ s.repid \in Nat
    BY ProofExchangeAssumption DEF Statements, Numbers
  <2> QED
    BY <2>1, <2>2, HonestProofExact
<1>4. (proof.proved => /\ Verifies(proof, StatementValues)
                       /\ Encodable(statement.threshold, statement.repid)
                       /\ stage # "start")'
  <2>1. CASE proof' = NoProof
    BY <2>1 DEF NoProof
  <2>2. CASE proof' # NoProof
    BY <2>2, ProofOfStatement DEF StatementValues
  <2> QED
    BY <2>1, <2>2
<1> QED
  BY <1>1, <1>2, <1>3, <1>4 DEF Inv

LEMMA NextInv == Inv /\ [Next]_vars => Inv'
<1> SUFFICES ASSUME Inv, [Next]_vars
             PROVE  Inv'
  OBVIOUS
<1>1. CASE Prove
  <2>1. PICK s \in Statements, v \in {n \in Numbers : n < WordSize} :
           /\ statement' = s
           /\ proof' = ProveRangeCheck(v, s.agent, s.threshold, s.repid)
    BY <1>1 DEF Prove
  <2>2. v \in Nat
    BY ProofExchangeAssumption DEF Numbers
  <2> QED
    BY <1>1, <2>1, <2>2, MadeInv DEF Prove
<1>2. CASE ProveAbove
  <2>1. PICK s \in Statements :
           /\ s.repid > s.threshold
           /\ statement' = s
           /\ proof' = ProveRangeCheck(GapWord(s.threshold, s.repid),
                                       s.agent, s.threshold, s.repid)
    BY <1>2 DEF ProveAbove
  <2>2. GapWord(s.threshold, s.repid) \in Nat
    BY <2>1, GapWordType, ProofExchangeAssumption DEF Statements, Numbers
  <2> QED
    BY <1>2, <2>1, <2>2, MadeInv DEF ProveAbove
<1>3. CASE Check
  <2>1. PICK c \in Statements :
           /\ claim' = c
           /\ accepted' =
                 /\ Encodable(c.threshold, c.repid)
                 /\ Verifies(proof, PublicValues(c.agent, c.threshold, c.repid))
    BY <1>3 DEF Check
  <2>2. stage' = "checked" /\ UNCHANGED <<honest, statement, proof>>
        /\ stage # "start" /\ proof.proved
    BY <1>3 DEF Check
  <2>3. accepted' \in BOOLEAN
    BY <2>1
  <2>4. TypeOK'
    BY <2>1, <2>2, <2>3 DEF Inv, TypeOK
  <2>5. HonestProofsExact'
    BY <2>2 DEF Inv, HonestProofsExact
  <2> QED
    BY <2>1, <2>2, <2>4, <2>5 DEF Inv, StatementValues, ClaimValues
<1>4. CASE UNCHANGED vars
  BY <1>4 DEF vars, Inv, TypeOK, HonestProofsExact, StatementValues, ClaimValues
<1> QED
  BY <1>1, <1>2, <1>3, <1>4 DEF Next

\* Accepted claims follow from the invariant and the soundness of the range.
LEMMA InvAcceptedClaimsTrue == Inv => AcceptedClaimsTrue
<1> SUFFICES ASSUME Inv, accepted, claim.threshold < Prime - RangeSize
             PROVE  claim.repid > claim.threshold
  BY DEF AcceptedClaimsTrue
<1>1. claim \in Statements
  BY DEF Inv, TypeOK
<1>2. claim.threshold \in Nat /\ claim.repid \in Nat
  BY <1>1, ProofExchangeAssumption DEF Statements, Numbers
<1>3. claim.repid < EncodingBound
  BY DEF Inv, Encodable
<1>4. GapElement(ClaimValues) < RangeSize
  BY DEF Inv, Verifies, AirHolds
<1>5. FieldSub(FieldSub(Encode(claim.repid), Encode(claim.threshold)), 1) < RangeSize
  BY <1>4 DEF GapElement, ClaimValues, PublicValues
<1> QED
  BY <1>2, <1>3, <1>5, GapInRangeSound

LEMMA InvAcceptedClaimsBound == Inv => AcceptedClaimsBound
<1> SUFFICES ASSUME Inv, accepted
             PROVE  AcceptedClaimsBound
  BY DEF AcceptedClaimsBound
<1>1. StatementValues = ClaimValues
  BY DEF Inv, Verifies
<1>2. /\ AgentBytes(claim.agent) = AgentBytes(statement.agent)
      /\ Encode(claim.threshold) = Encode(statement.threshold)
      /\ Encode(claim.repid) = Encode(statement.repid)
  BY <1>1 DEF StatementValues, ClaimValues, PublicValues
<1>3. /\ claim.threshold < Prime /\ statement.threshold < Prime
            => claim.threshold = statement.threshold
      /\ claim.repid < Prime /\ statement.repid < Prime
            => claim.repid = statement.repid
  BY <1>2 DEF Encode
<1> QED
  BY <1>2, <1>3 DEF AcceptedClaimsBound

\* Every accepted claim whose threshold is RangeSize below the prime is
\* true: the 16-bit range check admits no wrapped gap.
THEOREM ExchangeSound == Spec => []AcceptedClaimsTrue
<1>1. Spec => []Inv
  BY InitInv, NextInv, PTL DEF Spec
<1> QED
  BY <1>1, InvAcceptedClaimsTrue, PTL

\* A proof verifies only for the agent and the canonical numbers it was
\* made for.
THEOREM ExchangeBound == Spec => []AcceptedClaimsBound
<1>1. Spec => []Inv
  BY InitInv, NextInv, PTL DEF Spec
<1> QED
  BY <1>1, InvAcceptedClaimsBound, PTL

\* Every variable keeps its type: a proof that was made is the proof of a
\* word in range, over field elements.
THEOREM ExchangeTypes == Spec => []TypeOK
<1>1. Spec => []Inv
  BY InitInv, NextInv, PTL DEF Spec
<1>2. Inv => TypeOK
  BY DEF Inv
<1> QED
  BY <1>1, <1>2, PTL

\* generate_proof obtains proofs for exactly the provable true statements.
THEOREM ExchangeExact == Spec => []HonestProofsExact
<1>1. Spec => []Inv
  BY InitInv, NextInv, PTL DEF Spec
<1>2. Inv => HonestProofsExact
  BY DEF Inv
<1> QED
  BY <1>1, <1>2, PTL
=============================================================================
