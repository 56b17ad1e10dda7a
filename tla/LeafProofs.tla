----------------------------- MODULE LeafProofs -----------------------------
(***************************************************************************)
(* Theorems about Leaf, for every prime, word size, set of command lines,  *)
(* list of agents and depth of the tree.                                   *)
(***************************************************************************)
EXTENDS Leaf, TLAPS, WellFoundedInduction

-----------------------------------------------------------------------------
(* Induction over the natural numbers.  The hypothesis is a set, because   *)
(* the provers cannot be given a predicate to instantiate.                 *)

\* A nonempty set of naturals has a least element.
LEMMA Least ==
    ASSUME NEW T, T \subseteq Nat, T # {}
    PROVE  \E n \in T : \A m \in T : n <= m
<1> DEFINE R == OpToRel(<, Nat)
<1>1. IsWellFoundedOn(R, Nat)
  BY NatLessThanWellFounded
<1>2. \A m, n \in Nat : m < n => <<m, n>> \in R
  <2> TAKE m, n \in Nat
  <2>1. <<m, n>> \in Nat \X Nat /\ <<m, n>>[1] = m /\ <<m, n>>[2] = n
    OBVIOUS
  <2> QED
    BY <2>1 DEF OpToRel
<1> HIDE DEF R
<1>3. PICK n \in T : \A m \in T : ~(<<m, n>> \in R)
  BY <1>1, WFMin
<1>4. \A m \in T : m \in Nat /\ n \in Nat /\ ~(m < n)
  BY <1>2, <1>3
<1>5. \A m \in T : n <= m
  BY <1>4
<1> QED
  BY <1>5

\* A set that holds 0 and every successor of its members holds every number.
LEMMA Induction ==
    ASSUME NEW P, 0 \in P, \A n \in Nat : n \in P => n + 1 \in P
    PROVE  Nat \subseteq P
<1> SUFFICES ASSUME ~(Nat \subseteq P) PROVE FALSE
  OBVIOUS
<1>1. PICK n \in Nat \ P : \A m \in Nat \ P : n <= m
  BY Least
<1>2. n # 0 /\ n - 1 \in Nat
  BY <1>1
<1>3. n - 1 \in P
  BY <1>1, <1>2
<1> QED
  BY <1>1, <1>2, <1>3

\* The same up to a bound.
LEMMA BoundedInduction ==
    ASSUME NEW n \in Nat, NEW P,
           0 \in P, \A i \in 1 .. n : i - 1 \in P => i \in P
    PROVE  0 .. n \subseteq P
<1> DEFINE Q == {i \in Nat : i <= n => i \in P}
<1>1. 0 \in Q
  OBVIOUS
<1>2. ASSUME NEW i \in Nat, i \in Q PROVE i + 1 \in Q
  <2>1. CASE i + 1 <= n
    <3>1. i + 1 \in 1 .. n /\ (i + 1) - 1 = i /\ i \in P
      BY <1>2, <2>1
    <3>2. i + 1 \in P
      BY <3>1
    <3> QED
      BY <3>2
  <2>2. CASE ~(i + 1 <= n)
    BY <2>2
  <2> QED
    BY <2>1, <2>2
<1> HIDE DEF Q
<1>3. Nat \subseteq Q
  BY <1>1, <1>2, Induction
<1> QED
  BY <1>3 DEF Q

-----------------------------------------------------------------------------
(* The digest. *)

\* Each lane of a digest is the element of its word, or zero after them.
LEMMA DigestLane ==
    ASSUME NEW ws, NEW i \in 1 .. Lanes
    PROVE  Digest(ws)[i] = Encode(IF i <= Len(ws) THEN ws[i] ELSE Word(0))
BY DEF Digest, Permute, Pad

\* A digest is a word that encodes as itself, and no digest is empty.
LEMMA DigestWord ==
    ASSUME NEW ws
    PROVE  /\ Len(Digest(ws)) = Lanes
           /\ Encode(Digest(ws)) = Digest(ws)
           /\ Digest(ws) # <<>>
<1> DEFINE p == Pad(ws)
           h == Digest(ws)
<1>1. h = [i \in 1 .. Lanes |-> Encode(p[i])] /\ Lanes \in Nat /\ 1 < Lanes
  BY Poseidon2Assumption DEF Digest, Permute
<1> HIDE DEF p, h
<1>2. Len(h) = Lanes
  BY <1>1
<1>3. Encode(h) = h /\ h # <<>>
  BY <1>1, <1>2 DEF Encode
<1> QED
  BY <1>2, <1>3 DEF h

\* A compression fixes the elements on its left and on its right.
LEMMA CompressInjective ==
    ASSUME NEW a, NEW b, NEW c, NEW d, MerkleCompress(a, b) = MerkleCompress(c, d)
    PROVE  Congruent(a, c) /\ Congruent(b, d)
<1>1. \A x, y : /\ Len(<<x, y>>) = 2
               /\ <<x, y>>[1] = x /\ <<x, y>>[2] = y
  OBVIOUS
<1>2. 1 \in 1 .. Lanes /\ 2 \in 1 .. Lanes
  BY Poseidon2Assumption
<1>3. ASSUME NEW x, NEW y
      PROVE  MerkleCompress(x, y)[1] = Encode(x) /\ MerkleCompress(x, y)[2] = Encode(y)
  <2> DEFINE ws == <<x, y>>
  <2>1. Len(ws) = 2 /\ ws[1] = x /\ ws[2] = y
    BY <1>1
  <2>2. MerkleCompress(x, y) = Digest(ws)
    BY DEF MerkleCompress, Hash
  <2> HIDE DEF ws
  <2>3. Digest(ws)[1] = Encode(IF 1 <= Len(ws) THEN ws[1] ELSE Word(0))
    BY <1>2, DigestLane
  <2>4. Digest(ws)[2] = Encode(IF 2 <= Len(ws) THEN ws[2] ELSE Word(0))
    BY <1>2, DigestLane
  <2> QED
    BY <2>1, <2>2, <2>3, <2>4
<1> QED
  BY <1>3 DEF Congruent

LEMMA CompressWord ==
    ASSUME NEW a, NEW b
    PROVE  Encode(MerkleCompress(a, b)) = MerkleCompress(a, b)
           /\ MerkleCompress(a, b) # <<>>
BY DigestWord DEF MerkleCompress, Hash

-----------------------------------------------------------------------------
(* The recursive definitions, as equations. *)

\* The width of each level is twice that of the one above it.
LEMMA WidthRec ==
    /\ Width[0] = 1
    /\ \A d \in 1 .. Depth : Width[d] = 2 * Width[d - 1]
    /\ \A d \in 0 .. Depth : Width[d] \in Nat \ {0}
<1> DEFINE Body(f, d) == IF d = 0 THEN 1 ELSE 2 * f[d - 1]
           P == {n \in Nat : \E f : f = [d \in 0 .. n |-> Body(f, d)]}
<1>1. Depth \in Nat
  BY LeafAssumption
<1>2. 0 \in P
  <2>1. [d \in 0 .. 0 |-> 1] = [d \in 0 .. 0 |-> Body([e \in 0 .. 0 |-> 1], d)]
    OBVIOUS
  <2> QED
    BY <2>1
<1>3. ASSUME NEW n \in Nat, n \in P PROVE n + 1 \in P
  <2>1. PICK f : f = [d \in 0 .. n |-> Body(f, d)]
    BY <1>3
  <2> DEFINE g == [d \in 0 .. n + 1 |-> Body(f, d)]
  <2>2. ASSUME NEW d \in 0 .. n + 1 PROVE Body(f, d) = Body(g, d)
    <3>1. CASE d = 0
      BY <3>1
    <3>2. CASE d # 0
      <4>1. d - 1 \in 0 .. n /\ d - 1 \in 0 .. n + 1
        BY <3>2
      <4>2. g[d - 1] = Body(f, d - 1) /\ f[d - 1] = Body(f, d - 1)
        BY <2>1, <4>1
      <4> QED
        BY <3>2, <4>2
    <3> QED
      BY <3>1, <3>2
  <2>3. g = [d \in 0 .. n + 1 |-> Body(g, d)]
    BY <2>2
  <2> HIDE DEF g, Body
  <2> QED
    BY <2>3
<1> HIDE DEF P
<1>4. Depth \in P
  BY <1>1, <1>2, <1>3, Induction
<1>5. Width = [d \in 0 .. Depth |-> Body(Width, d)]
  BY <1>4 DEF Width, P
<1>6. Width[0] = 1
  BY <1>1, <1>5
<1>7. ASSUME NEW d \in 1 .. Depth PROVE Width[d] = 2 * Width[d - 1]
  BY <1>1, <1>5
<1> DEFINE Q == {d \in Nat : Width[d] \in Nat \ {0}}
<1>8. 0 \in Q
  BY <1>6
<1>9. ASSUME NEW d \in 1 .. Depth, d - 1 \in Q PROVE d \in Q
  BY <1>7, <1>9
<1> HIDE DEF Q
<1>10. 0 .. Depth \subseteq Q
  BY <1>1, <1>8, <1>9, BoundedInduction
<1> QED
  BY <1>6, <1>7, <1>10 DEF Q

\* The accumulator of merkle_root, as two equations.
LEMMA PathRec ==
    ASSUME NEW leaf, NEW siblings, NEW bits, Len(siblings) \in Nat
    PROVE  \E acc :
              /\ acc[0] = leaf
              /\ \A i \in 1 .. Len(siblings) :
                    acc[i] = IF bits[i] = 0 THEN MerkleCompress(acc[i - 1], siblings[i])
                                            ELSE MerkleCompress(siblings[i], acc[i - 1])
              /\ MerkleRoot(leaf, siblings, bits) =
                    IF Len(siblings) # Len(bits) THEN NoRoot ELSE acc[Len(siblings)]
<1> DEFINE len == Len(siblings)
           Body(f, i) == IF i = 0 THEN leaf
                         ELSE IF bits[i] = 0 THEN MerkleCompress(f[i - 1], siblings[i])
                         ELSE MerkleCompress(siblings[i], f[i - 1])
           P == {n \in Nat : \E f : f = [i \in 0 .. n |-> Body(f, i)]}
           acc == CHOOSE f : f = [i \in 0 .. len |-> Body(f, i)]
<1>1. 0 \in P
  <2>1. [i \in 0 .. 0 |-> leaf] = [i \in 0 .. 0 |-> Body([j \in 0 .. 0 |-> leaf], i)]
    OBVIOUS
  <2> QED
    BY <2>1
<1>2. ASSUME NEW n \in Nat, n \in P PROVE n + 1 \in P
  <2>1. PICK f : f = [i \in 0 .. n |-> Body(f, i)]
    BY <1>2
  <2> DEFINE g == [i \in 0 .. n + 1 |-> Body(f, i)]
  <2>2. ASSUME NEW i \in 0 .. n + 1 PROVE Body(f, i) = Body(g, i)
    <3>1. CASE i = 0
      BY <3>1
    <3>2. CASE i # 0
      <4>1. i - 1 \in 0 .. n /\ i - 1 \in 0 .. n + 1
        BY <3>2
      <4>2. g[i - 1] = Body(f, i - 1) /\ f[i - 1] = Body(f, i - 1)
        <5> HIDE DEF Body
        <5> QED
          BY <2>1, <4>1
      <4>3. g[i - 1] = f[i - 1]
        BY <4>2
      <4> HIDE DEF g
      <4> QED
        BY <3>2, <4>3
    <3> QED
      BY <3>1, <3>2
  <2>3. g = [i \in 0 .. n + 1 |-> Body(g, i)]
    <3> HIDE DEF Body
    <3> QED
      BY <2>2
  <2> HIDE DEF g, Body
  <2> QED
    BY <2>3
<1> HIDE DEF P
<1>3. len \in P
  BY <1>1, <1>2, Induction
<1>4. MerkleRoot(leaf, siblings, bits) = IF len # Len(bits) THEN NoRoot ELSE acc[len]
  BY DEF MerkleRoot
<1> HIDE DEF Body
<1>5. acc = [i \in 0 .. len |-> Body(acc, i)]
  BY <1>3 DEF P
<1> HIDE DEF acc
<1>6. acc[0] = leaf
  BY <1>5 DEF Body
<1>7. ASSUME NEW i \in 1 .. len
      PROVE  acc[i] = IF bits[i] = 0 THEN MerkleCompress(acc[i - 1], siblings[i])
                                     ELSE MerkleCompress(siblings[i], acc[i - 1])
  <2>1. i \in 0 .. len /\ i # 0
    OBVIOUS
  <2>2. acc[i] = Body(acc, i)
    BY <1>5, <2>1
  <2> QED
    BY <2>1, <2>2 DEF Body
<1> QED
  BY <1>4, <1>6, <1>7
\* The tree of a group, a level at a time.
Level(members, f, h) ==
    [k \in 1 .. Width[Depth - h] |->
        IF h = 0 THEN IF k \in DOMAIN members THEN members[k] ELSE Word(0)
        ELSE MerkleCompress(f[h - 1][2 * k - 1], f[h - 1][2 * k])]

TreeOf(members) == CHOOSE f : f = [h \in 0 .. Depth |-> Level(members, f, h)]

LEMMA TreeIs == Tree = TreeOf(group)
BY DEF Tree, TreeOf, Level

LEMMA TreeRec ==
    ASSUME NEW members
    PROVE  \A h \in 0 .. Depth :
               TreeOf(members)[h] = Level(members, TreeOf(members), h)
<1> DEFINE Body(f, h) == Level(members, f, h)
           P == {n \in Nat : \E f : f = [h \in 0 .. n |-> Body(f, h)]}
<1>1. Depth \in Nat
  BY LeafAssumption
<1>2. 0 \in P
  <2> DEFINE e == [h \in 0 .. 0 |-> Body(0, h)]
  <2>1. \A h \in 0 .. 0 : Body(0, h) = Body(e, h)
    BY DEF Level
  <2>2. e = [h \in 0 .. 0 |-> Body(e, h)]
    <3> HIDE DEF Body
    <3> QED
      BY <2>1
  <2> HIDE DEF e, Body
  <2> QED
    BY <2>2
<1>3. ASSUME NEW n \in Nat, n \in P PROVE n + 1 \in P
  <2>1. PICK f : f = [h \in 0 .. n |-> Body(f, h)]
    BY <1>3
  <2> DEFINE g == [h \in 0 .. n + 1 |-> Body(f, h)]
  <2>2. ASSUME NEW h \in 0 .. n + 1 PROVE Body(f, h) = Body(g, h)
    <3>1. CASE h = 0
      BY <3>1 DEF Level
    <3>2. CASE h # 0
      <4>1. h - 1 \in 0 .. n /\ h - 1 \in 0 .. n + 1
        BY <3>2
      <4>2. g[h - 1] = Body(f, h - 1) /\ f[h - 1] = Body(f, h - 1)
        <5> HIDE DEF Body
        <5> QED
          BY <2>1, <4>1
      <4>3. g[h - 1] = f[h - 1]
        BY <4>2
      <4> HIDE DEF g
      <4> QED
        BY <3>2, <4>3 DEF Level
    <3> QED
      BY <3>1, <3>2
  <2>3. g = [h \in 0 .. n + 1 |-> Body(g, h)]
    <3> HIDE DEF Body
    <3> QED
      BY <2>2
  <2> HIDE DEF g, Body
  <2> QED
    BY <2>3
<1> HIDE DEF P
<1>4. Depth \in P
  BY <1>1, <1>2, <1>3, Induction
<1> HIDE DEF Body
<1>5. \E f : f = [h \in 0 .. Depth |-> Body(f, h)]
  BY <1>4 DEF P
<1>6. TreeOf(members) = [h \in 0 .. Depth |-> Body(TreeOf(members), h)]
  BY <1>5 DEF TreeOf, Body
<1> QED
  BY <1>6 DEF Body

\* Where the bits point after each step down from the root: always a node
\* of that level.
LEMMA PositionRec ==
    ASSUME NEW bits
    PROVE  \E place :
              /\ place[0] = 1
              /\ \A d \in 1 .. Depth :
                    place[d] = 2 * place[d - 1] - (IF IsRight(bits, Depth - d + 1) THEN 0 ELSE 1)
              /\ \A d \in 0 .. Depth : place[d] \in 1 .. Width[d]
              /\ Position(bits) = place[Depth]
<1> DEFINE Body(f, d) ==
               IF d = 0 THEN 1
               ELSE 2 * f[d - 1] - (IF IsRight(bits, Depth - d + 1) THEN 0 ELSE 1)
           P == {n \in Nat : \E f : f = [d \in 0 .. n |-> Body(f, d)]}
           place == CHOOSE f : f = [d \in 0 .. Depth |-> Body(f, d)]
<1>1. Depth \in Nat
  BY LeafAssumption
<1>2. 0 \in P
  <2>1. [d \in 0 .. 0 |-> 1] = [d \in 0 .. 0 |-> Body([e \in 0 .. 0 |-> 1], d)]
    OBVIOUS
  <2> QED
    BY <2>1
<1>3. ASSUME NEW n \in Nat, n \in P PROVE n + 1 \in P
  <2>1. PICK f : f = [d \in 0 .. n |-> Body(f, d)]
    BY <1>3
  <2> DEFINE g == [d \in 0 .. n + 1 |-> Body(f, d)]
  <2>2. ASSUME NEW d \in 0 .. n + 1 PROVE Body(f, d) = Body(g, d)
    <3>1. CASE d = 0
      BY <3>1
    <3>2. CASE d # 0
      <4>1. d - 1 \in 0 .. n /\ d - 1 \in 0 .. n + 1
        BY <3>2
      <4>2. g[d - 1] = Body(f, d - 1) /\ f[d - 1] = Body(f, d - 1)
        <5> HIDE DEF Body
        <5> QED
          BY <2>1, <4>1
      <4>3. g[d - 1] = f[d - 1]
        BY <4>2
      <4> HIDE DEF g
      <4> QED
        BY <3>2, <4>3
    <3> QED
      BY <3>1, <3>2
  <2>3. g = [d \in 0 .. n + 1 |-> Body(g, d)]
    <3> HIDE DEF Body
    <3> QED
      BY <2>2
  <2> HIDE DEF g, Body
  <2> QED
    BY <2>3
<1> HIDE DEF P
<1>4. Depth \in P
  BY <1>1, <1>2, <1>3, Induction
<1>5. Position(bits) = place[Depth]
  BY DEF Position
<1> HIDE DEF Body
<1>6. place = [d \in 0 .. Depth |-> Body(place, d)]
  BY <1>4 DEF P
<1> HIDE DEF place
<1>7. place[0] = 1
  BY <1>1, <1>6 DEF Body
<1>8. ASSUME NEW d \in 1 .. Depth
      PROVE  place[d] = 2 * place[d - 1] - (IF IsRight(bits, Depth - d + 1) THEN 0 ELSE 1)
  <2>1. d \in 0 .. Depth /\ d # 0
    BY <1>1
  <2>2. place[d] = Body(place, d)
    BY <1>6, <2>1
  <2> QED
    BY <2>1, <2>2 DEF Body
<1> DEFINE Q == {d \in Nat : place[d] \in 1 .. Width[d]}
<1>9. 0 \in Q
  BY <1>1, <1>7, WidthRec
<1>10. ASSUME NEW d \in 1 .. Depth, d - 1 \in Q PROVE d \in Q
  <2>1. place[d - 1] \in 1 .. Width[d - 1] /\ Width[d] = 2 * Width[d - 1]
    BY <1>10, WidthRec
  <2>2. Width[d - 1] \in Nat
    <3>1. d - 1 \in 0 .. Depth
      BY <1>1
    <3> QED
      BY <3>1, WidthRec
  <2>3. d \in Nat
    BY <1>1
  <2> QED
    BY <1>8, <2>1, <2>2, <2>3
<1> HIDE DEF Q
<1>11. 0 .. Depth \subseteq Q
  BY <1>1, <1>9, <1>10, BoundedInduction
<1>12. \A d \in 0 .. Depth : place[d] \in 1 .. Width[d]
  BY <1>11 DEF Q
<1> QED
  BY <1>5, <1>7, <1>8, <1>12

-----------------------------------------------------------------------------
(* Membership. *)

\* An inner node is the compression of the two below it.
LEMMA InnerNode ==
    ASSUME NEW members, NEW h \in 1 .. Depth, NEW k \in 1 .. Width[Depth - h]
    PROVE  TreeOf(members)[h][k] = MerkleCompress(TreeOf(members)[h - 1][2 * k - 1],
                                                  TreeOf(members)[h - 1][2 * k])
<1>1. h \in 0 .. Depth /\ h # 0
  BY LeafAssumption
<1>2. TreeOf(members)[h] = Level(members, TreeOf(members), h)
  BY <1>1, TreeRec
<1> QED
  BY <1>1, <1>2 DEF Level

\* A path of the tree's depth that leads to the root starts at the leaf its
\* bits point to: from the root down, the only way to the same digest is
\* the same pair of nodes.
THEOREM PathOpens ==
    ASSUME NEW members, NEW leaf, NEW siblings, NEW bits,
           Len(siblings) = Depth, Len(bits) \in 0 .. Depth,
           MerkleRoot(leaf, siblings, bits) = TreeOf(members)[Depth][1]
    PROVE  Congruent(leaf, TreeOf(members)[0][Position(bits)])
<1>1. Depth \in Nat
  BY LeafAssumption
<1>2. PICK acc :
         /\ acc[0] = leaf
         /\ \A i \in 1 .. Depth :
               acc[i] = IF bits[i] = 0 THEN MerkleCompress(acc[i - 1], siblings[i])
                                       ELSE MerkleCompress(siblings[i], acc[i - 1])
         /\ MerkleRoot(leaf, siblings, bits) =
               IF Depth # Len(bits) THEN NoRoot ELSE acc[Depth]
  BY <1>1, PathRec
<1>3. PICK place :
         /\ place[0] = 1
         /\ \A d \in 1 .. Depth :
               place[d] = 2 * place[d - 1] - (IF IsRight(bits, Depth - d + 1) THEN 0 ELSE 1)
         /\ \A d \in 0 .. Depth : place[d] \in 1 .. Width[d]
         /\ Position(bits) = place[Depth]
  BY PositionRec
<1> DEFINE T == TreeOf(members)
<1>4. \A h \in 1 .. Depth : \A k \in 1 .. Width[Depth - h] :
          T[h][k] = MerkleCompress(T[h - 1][2 * k - 1], T[h - 1][2 * k])
  BY InnerNode
<1> HIDE DEF T
<1>5. Len(bits) = Depth /\ acc[Depth] = T[Depth][1]
  <2>1. MerkleRoot(leaf, siblings, bits) = T[Depth][1]
    BY DEF T
  <2>2. CASE Depth = Len(bits)
    BY <1>2, <2>1, <2>2
  <2>3. CASE Depth # Len(bits)
    <3>1. Depth \in 1 .. Depth /\ Depth - Depth = 0
      BY <1>1, <2>3
    <3>2. 1 \in 1 .. Width[Depth - Depth]
      BY <3>1, WidthRec
    <3>3. T[Depth][1] = MerkleCompress(T[Depth - 1][2 * 1 - 1], T[Depth - 1][2 * 1])
      BY <1>4, <3>1, <3>2
    <3>4. T[Depth][1] # NoRoot
      BY <3>3, CompressWord DEF NoRoot
    <3> QED
      BY <1>2, <2>1, <2>3, <3>4
  <2> QED
    BY <2>2, <2>3
<1> DEFINE P == {d \in Nat : Congruent(acc[Depth - d], T[Depth - d][place[d]])}
<1>6. 0 \in P
  <2>1. Depth - 0 = Depth
    BY <1>1
  <2> QED
    BY <1>3, <1>5, <2>1 DEF Congruent
<1>7. ASSUME NEW d \in 1 .. Depth, d - 1 \in P PROVE d \in P
  <2> DEFINE h == Depth - d + 1
             p == place[d - 1]
  <2>1. /\ h \in 1 .. Depth /\ Depth - (d - 1) = h /\ h - 1 = Depth - d
        /\ Depth - h = d - 1 /\ d - 1 \in 0 .. Depth /\ d \in Nat
    BY <1>1
  <2>2. Congruent(acc[h], T[h][p])
    BY <1>7, <2>1
  <2>3. p \in 1 .. Width[Depth - h] /\ p \in Int
    <3>1. p \in 1 .. Width[d - 1] /\ Width[d - 1] \in Nat
      BY <1>3, <2>1, WidthRec
    <3>2. Width[Depth - h] = Width[d - 1]
      BY <2>1
    <3> QED
      BY <3>1, <3>2
  <2>4. place[d] = 2 * p - (IF bits[h] = 0 THEN 1 ELSE 0)
    <3>1. IsRight(bits, h) <=> bits[h] # 0
      BY <1>5, <2>1 DEF IsRight
    <3> QED
      BY <1>3, <3>1
  <2>5. acc[h] = IF bits[h] = 0 THEN MerkleCompress(acc[h - 1], siblings[h])
                                ELSE MerkleCompress(siblings[h], acc[h - 1])
    BY <1>2, <2>1
  <2> HIDE DEF h, p
  <2>6. T[h][p] = MerkleCompress(T[h - 1][2 * p - 1], T[h - 1][2 * p])
    BY <1>4, <2>1, <2>3
  <2>7. acc[h] = T[h][p]
    BY <2>2, <2>5, <2>6, CompressWord DEF Congruent
  <2>8. Congruent(acc[h - 1], T[h - 1][place[d]])
    <3>1. CASE bits[h] = 0
      <4>1. MerkleCompress(acc[h - 1], siblings[h]) =
                MerkleCompress(T[h - 1][2 * p - 1], T[h - 1][2 * p])
        BY <2>5, <2>6, <2>7, <3>1
      <4>2. Congruent(acc[h - 1], T[h - 1][2 * p - 1])
        BY <4>1, CompressInjective
      <4> QED
        BY <2>4, <3>1, <4>2
    <3>2. CASE bits[h] # 0
      <4>1. MerkleCompress(siblings[h], acc[h - 1]) =
                MerkleCompress(T[h - 1][2 * p - 1], T[h - 1][2 * p])
        BY <2>5, <2>6, <2>7, <3>2
      <4>2. Congruent(acc[h - 1], T[h - 1][2 * p])
        BY <4>1, CompressInjective
      <4>3. place[d] = 2 * p
        BY <2>3, <2>4, <3>2
      <4> QED
        BY <4>2, <4>3
    <3> QED
      BY <3>1, <3>2
  <2> QED
    BY <2>1, <2>8
<1> HIDE DEF P
<1>8. Depth \in P
  <2>1. 0 .. Depth \subseteq P
    BY <1>1, <1>6, <1>7, BoundedInduction
  <2> QED
    BY <1>1, <2>1
<1>9. Depth - Depth = 0
  BY <1>1
<1> QED
  BY <1>2, <1>3, <1>8, <1>9 DEF P, T

\* A verifier that asks for a path of the tree's depth admits a claim only
\* about the leaf that stands where its bits point, for any group at all.
THEOREM Membership == Spec => []MembershipOpens
<1>1. MembershipOpens
  <2> SUFFICES ASSUME NEW claim \in Admitted
               PROVE  Congruent(claim.leaf, Tree[0][Position(claim.index_bits)])
    BY DEF MembershipOpens
  <2>1. /\ claim.siblings \in [1 .. Depth -> Known]
        /\ claim.index_bits \in UNION {[1 .. n -> Bits] : n \in 0 .. Depth}
        /\ MerkleRoot(claim.leaf, claim.siblings, claim.index_bits) = Root
    BY DEF Admitted
  <2>2. PICK members, leaf, siblings, bits :
            /\ members = group /\ leaf = claim.leaf
            /\ siblings = claim.siblings /\ bits = claim.index_bits
    OBVIOUS
  <2>3. Len(siblings) = Depth
    <3>1. Depth \in Nat /\ \A S, f : f \in [1 .. Depth -> S] => Len(f) = Depth
      BY LeafAssumption
    <3> QED
      BY <2>1, <2>2, <3>1
  <2>4. Len(bits) \in 0 .. Depth
    <3>1. PICK n \in 0 .. Depth : bits \in [1 .. n -> Bits]
      BY <2>1, <2>2
    <3>2. n \in Nat
      BY LeafAssumption
    <3>3. Len(bits) = n
      BY <3>1, <3>2
    <3> QED
      BY <3>3
  <2>5. MerkleRoot(leaf, siblings, bits) = TreeOf(members)[Depth][1]
    BY <2>1, <2>2, TreeIs DEF Root
  <2>6. Congruent(leaf, TreeOf(members)[0][Position(bits)])
    BY <2>3, <2>4, <2>5, PathOpens
  <2> QED
    BY <2>2, <2>6, TreeIs
<1> QED
  BY <1>1, PTL

\* Without any tree: two paths of one length whose bits turn the same way and
\* that lead to one root hash the same leaf and the same siblings.
THEOREM PathBinds ==
    ASSUME NEW n \in Nat, NEW leaf, NEW siblings, NEW bits,
           NEW other, NEW others, NEW turns,
           Len(siblings) = n, Len(bits) = n, Len(others) = n, Len(turns) = n,
           \A i \in 1 .. n : bits[i] = 0 <=> turns[i] = 0,
           MerkleRoot(leaf, siblings, bits) = MerkleRoot(other, others, turns)
    PROVE  /\ Congruent(leaf, other)
           /\ \A i \in 1 .. n : Congruent(siblings[i], others[i])
<1>1. PICK a :
         /\ a[0] = leaf
         /\ \A i \in 1 .. n :
               a[i] = IF bits[i] = 0 THEN MerkleCompress(a[i - 1], siblings[i])
                                     ELSE MerkleCompress(siblings[i], a[i - 1])
         /\ MerkleRoot(leaf, siblings, bits) =
               IF n # Len(bits) THEN NoRoot ELSE a[n]
  BY PathRec
<1>2. PICK b :
         /\ b[0] = other
         /\ \A i \in 1 .. n :
               b[i] = IF turns[i] = 0 THEN MerkleCompress(b[i - 1], others[i])
                                      ELSE MerkleCompress(others[i], b[i - 1])
         /\ MerkleRoot(other, others, turns) =
               IF n # Len(turns) THEN NoRoot ELSE b[n]
  BY PathRec
<1> DEFINE P == {d \in Nat : /\ Congruent(a[n - d], b[n - d])
                             /\ \A i \in n - d + 1 .. n : Congruent(siblings[i], others[i])}
<1>3. 0 \in P
  <2>1. a[n] = b[n]
    BY <1>1, <1>2
  <2>2. n - 0 = n /\ \A i \in n - 0 + 1 .. n : FALSE
    OBVIOUS
  <2> QED
    BY <2>1, <2>2 DEF Congruent
<1>4. ASSUME NEW d \in 1 .. n, d - 1 \in P PROVE d \in P
  <2> DEFINE h == n - d + 1
  <2>1. h \in 1 .. n /\ n - (d - 1) = h /\ h - 1 = n - d /\ d \in Nat
    OBVIOUS
  <2>2. Congruent(a[h], b[h]) /\ \A i \in h + 1 .. n : Congruent(siblings[i], others[i])
    BY <1>4, <2>1
  <2>3. \A i \in n - d + 1 .. n : i = h \/ i \in h + 1 .. n
    BY <2>1
  <2> HIDE DEF h, P
  <2>4. Congruent(a[h - 1], b[h - 1]) /\ Congruent(siblings[h], others[h])
    <3>1. a[h] = b[h]
      <4>1. \E x, y : a[h] = MerkleCompress(x, y)
        BY <1>1, <2>1
      <4>2. \E x, y : b[h] = MerkleCompress(x, y)
        BY <1>2, <2>1
      <4> QED
        BY <2>2, <4>1, <4>2, CompressWord DEF Congruent
    <3>2. CASE bits[h] = 0
      <4>1. MerkleCompress(a[h - 1], siblings[h]) = MerkleCompress(b[h - 1], others[h])
        BY <1>1, <1>2, <2>1, <3>1, <3>2
      <4> QED
        BY <4>1, CompressInjective
    <3>3. CASE bits[h] # 0
      <4>1. MerkleCompress(siblings[h], a[h - 1]) = MerkleCompress(others[h], b[h - 1])
        BY <1>1, <1>2, <2>1, <3>1, <3>3
      <4> QED
        BY <4>1, CompressInjective
    <3> QED
      BY <3>2, <3>3
  <2>5. Congruent(a[n - d], b[n - d])
    BY <2>1, <2>4
  <2> QED
    BY <2>1, <2>2, <2>3, <2>4, <2>5 DEF P
<1> HIDE DEF P
<1>5. n \in P
  BY <1>3, <1>4, BoundedInduction
<1>6. n - n = 0 /\ n - n + 1 .. n = 1 .. n
  OBVIOUS
<1> QED
  BY <1>1, <1>2, <1>5, <1>6 DEF P
-----------------------------------------------------------------------------
(* The command. *)

\* What each command answers.
LEMMA MainPermute ==
    ASSUME NEW line, line.cmd = "permute"
    PROVE  Main(line) = IF ParsesU32(line.args) /\ Len(line.args) \in 1 .. Lanes
                        THEN Prints(Permute(Pad(Words(line.args)))) ELSE Exits(2)
BY DEF Main

LEMMA MainHash ==
    ASSUME NEW line, line.cmd = "hash"
    PROVE  Main(line) = IF ParsesU32(line.args) /\ Len(line.args) # 0
                        THEN Prints(Hash(Words(line.args))) ELSE Exits(2)
BY DEF Main

LEMMA MainCommit ==
    ASSUME NEW line, line.cmd = "commit"
    PROVE  LET w == Words(line.args)
           IN  Main(line) = IF ParsesU32(line.args) /\ Len(line.args) = 3
                            THEN Prints(Commitment(w[1], w[2], w[3])) ELSE Exits(2)
BY DEF Main

LEMMA MainNullifier ==
    ASSUME NEW line, line.cmd = "nullifier"
    PROVE  LET w == Words(line.args)
           IN  Main(line) = IF ParsesU32(line.args) /\ Len(line.args) = 2
                            THEN Prints(Nullifier(w[1], w[2])) ELSE Exits(2)
BY DEF Main

LEMMA MainPostcard ==
    ASSUME NEW line, line.cmd = "postcard"
    PROVE  LET v == line.args
           IN  Main(line) = IF Len(v) = 3 /\ {v[2], v[3]} \subseteq 0 .. MaxLong
                            THEN Prints(PostcardLeaf(AgentIds[v[1]], v[2], v[3]))
                            ELSE Exits(2)
BY DEF Main

LEMMA MainFold ==
    ASSUME NEW line, line.cmd = "fold"
    PROVE  Main(line) = IF ParsesU32(line.args) /\ Len(line.args) = 8
                        THEN FoldOf(line.args) ELSE Exits(2)
BY DEF Main

LEMMA MainSelfTest ==
    ASSUME NEW line, line.cmd = "selftest"
    PROVE  Main(line) = SelfTest
BY DEF Main

LEMMA MainOther ==
    ASSUME NEW line,
           line.cmd \notin {"permute", "hash", "commit", "nullifier", "postcard",
                            "fold", "selftest"}
    PROVE  Main(line) = Exits(2)
BY DEF Main
\* The digest of the arguments has their elements in its lanes.
Elements(v) == [i \in 1 .. Lanes |-> Word(Element(v, i))]

LEMMA WordFacts ==
    /\ \A n \in Int : Encode(Word(n)) = Word(n % Prime)
    /\ Encode(Word(0)) = Word(0)
    /\ \A m, n : Word(m) = Word(n) => m = n
<1>1. \A n : Len(Word(n)) = 1 /\ Word(n)[1] = n
  BY DEF Word
<1>2. 0 % Prime = 0
  BY Poseidon2Assumption
<1> QED
  BY <1>1, <1>2 DEF Encode

LEMMA DigestOfArgs ==
    ASSUME NEW v \in Seq(Int), NEW ws,
           Len(ws) = Len(v), \A i \in 1 .. Len(v) : ws[i] = Word(v[i])
    PROVE  Digest(ws) = Elements(v)
<1>1. Len(v) \in Nat /\ DOMAIN v = 1 .. Len(v) /\ \A i \in 1 .. Len(v) : v[i] \in Int
  OBVIOUS
<1>2. ASSUME NEW i \in 1 .. Lanes
      PROVE  Encode(IF i <= Len(ws) THEN ws[i] ELSE Word(0)) = Word(Element(v, i))
  <2>1. i \in Nat \ {0}
    BY Poseidon2Assumption
  <2>2. CASE i <= Len(v)
    <3>1. i \in 1 .. Len(v)
      BY <1>1, <2>1, <2>2
    <3>2. ws[i] = Word(v[i]) /\ v[i] \in Int /\ Element(v, i) = v[i] % Prime
      BY <1>1, <3>1 DEF Element
    <3> QED
      BY <2>2, <3>2, WordFacts
  <2>3. CASE ~(i <= Len(v))
    <3>1. Element(v, i) = 0
      BY <1>1, <2>1, <2>3 DEF Element
    <3> QED
      BY <2>3, <3>1, WordFacts
  <2> QED
    BY <2>2, <2>3
<1>3. Digest(ws) = [i \in 1 .. Lanes |-> Encode(IF i <= Len(ws) THEN ws[i] ELSE Word(0))]
  BY DEF Digest, Permute, Pad
<1> QED
  BY <1>2, <1>3 DEF Elements

LEMMA WordsFacts ==
    ASSUME NEW v \in Seq(Int)
    PROVE  /\ Len(Words(v)) = Len(v)
           /\ \A i \in 1 .. Len(v) : Words(v)[i] = Word(v[i])
<1>1. Len(v) \in Nat /\ DOMAIN v = 1 .. Len(v)
  OBVIOUS
<1>2. Words(v) = [i \in 1 .. Len(v) |-> Word(v[i])]
  BY <1>1 DEF Words
<1> HIDE DEF Words
<1> QED
  BY <1>1, <1>2

\* Every command that hashes its arguments prints their digest; commit and
\* nullifier add nothing of their own.
LEMMA HashedPrints ==
    ASSUME NEW line, line.args \in Seq(Int),
           line.cmd \in {"permute", "hash", "commit", "nullifier"},
           Main(line).status = 0
    PROVE  Main(line).printed = Elements(line.args)
<1> DEFINE v == line.args
           w == Words(v)
<1>1. v \in Seq(Int) /\ Len(w) = Len(v) /\ \A i \in 1 .. Len(v) : w[i] = Word(v[i])
  BY WordsFacts
<1>2. Exits(2).status # 0 /\ \A d : Prints(d).printed = d
  BY DEF Exits, Prints
<1>3. Digest(w) = Elements(v)
  BY <1>1, DigestOfArgs
<1> HIDE DEF w
<1>4. CASE line.cmd = "permute"
  <2>1. Main(line) = Prints(Permute(Pad(w)))
    BY <1>2, <1>4, MainPermute DEF w
  <2> QED
    BY <1>2, <1>3, <2>1 DEF Digest
<1>5. CASE line.cmd = "hash"
  <2>1. Main(line) = Prints(Hash(w))
    BY <1>2, <1>5, MainHash DEF w
  <2> QED
    BY <1>2, <1>3, <2>1 DEF Hash
<1>6. CASE line.cmd = "commit"
  <2>1. Main(line) = Prints(Commitment(w[1], w[2], w[3])) /\ Len(v) = 3
    BY <1>2, <1>6, MainCommit DEF w
  <2> DEFINE u == <<w[1], w[2], w[3]>>
  <2>2. Len(u) = 3 /\ u[1] = w[1] /\ u[2] = w[2] /\ u[3] = w[3]
    OBVIOUS
  <2>3. Commitment(w[1], w[2], w[3]) = Digest(u)
    BY DEF Commitment, Hash
  <2> HIDE DEF u
  <2>4. \A i \in 1 .. 3 : u[i] = w[i]
    BY <2>2
  <2>5. Digest(u) = Elements(v)
    BY <1>1, <2>1, <2>2, <2>4, DigestOfArgs
  <2> QED
    BY <1>2, <2>1, <2>3, <2>5
<1>7. CASE line.cmd = "nullifier"
  <2>1. Main(line) = Prints(Nullifier(w[1], w[2])) /\ Len(v) = 2
    BY <1>2, <1>7, MainNullifier DEF w
  <2> DEFINE u == <<w[1], w[2]>>
  <2>2. Len(u) = 2 /\ u[1] = w[1] /\ u[2] = w[2]
    OBVIOUS
  <2>3. Nullifier(w[1], w[2]) = Digest(u)
    BY DEF Nullifier, Hash
  <2> HIDE DEF u
  <2>4. \A i \in 1 .. 2 : u[i] = w[i]
    BY <2>2
  <2>5. Digest(u) = Elements(v)
    BY <1>1, <2>1, <2>2, <2>4, DigestOfArgs
  <2> QED
    BY <1>2, <2>1, <2>3, <2>5
<1> QED
  BY <1>4, <1>5, <1>6, <1>7

-----------------------------------------------------------------------------
(* The runs. *)

Answered == {[line |-> line, result |-> Main(line)] : line \in Lines}

\* A run on record is a command line and its answer.
LEMMA RunsAnswered == Spec => [](runs \subseteq Answered)
<1>1. Init => runs \subseteq Answered
  BY DEF Init
<1>2. runs \subseteq Answered /\ [Next]_vars => (runs \subseteq Answered)'
  BY DEF Next, Run, Join, vars, Answered
<1> QED
  BY <1>1, <1>2, PTL DEF Spec

LEMMA AnsweredFacts ==
    ASSUME NEW r \in Answered
    PROVE  /\ r.line \in Lines /\ r.line.args \in Seq(Int)
           /\ r.result = Main(r.line)
BY LeafAssumption DEF Answered

\* Two digests are equal exactly when the arguments are congruent.
THEOREM Digests == Spec => []DigestsExact
<1>1. runs \subseteq Answered => DigestsExact
  <2> SUFFICES ASSUME runs \subseteq Answered, NEW r \in Hashed, NEW s \in Hashed
               PROVE  r.result.printed = s.result.printed <=>
                        \A i \in 1 .. Lanes : Element(r.line.args, i) = Element(s.line.args, i)
    BY DEF DigestsExact
  <2>1. \A q \in Hashed :
            /\ q \in Answered /\ q.result.status = 0
            /\ q.line.cmd \in {"permute", "hash", "commit", "nullifier"}
    BY DEF Hashed, Printed
  <2>2. r.result.printed = Elements(r.line.args)
    <3>1. PICK q \in Answered : q = r
      BY <2>1
    <3>2. q.result = Main(q.line) /\ q.line.args \in Seq(Int)
      BY AnsweredFacts
    <3>3. PICK line : line = q.line
      OBVIOUS
    <3> QED
      BY <2>1, <3>1, <3>2, <3>3, HashedPrints
  <2>3. s.result.printed = Elements(s.line.args)
    <3>1. PICK q \in Answered : q = s
      BY <2>1
    <3>2. q.result = Main(q.line) /\ q.line.args \in Seq(Int)
      BY AnsweredFacts
    <3>3. PICK line : line = q.line
      OBVIOUS
    <3> QED
      BY <2>1, <3>1, <3>2, <3>3, HashedPrints
  <2>4. \A u, v : Elements(u) = Elements(v) <=>
                  \A i \in 1 .. Lanes : Element(u, i) = Element(v, i)
    <3> TAKE u, v
    <3>1. \A i \in 1 .. Lanes : /\ Elements(u)[i] = Word(Element(u, i))
                              /\ Elements(v)[i] = Word(Element(v, i))
      BY DEF Elements
    <3>2. ASSUME Elements(u) = Elements(v)
          PROVE  \A i \in 1 .. Lanes : Element(u, i) = Element(v, i)
      BY <3>1, <3>2, WordFacts
    <3>3. ASSUME \A i \in 1 .. Lanes : Element(u, i) = Element(v, i)
          PROVE  Elements(u) = Elements(v)
      BY <3>3 DEF Elements
    <3> QED
      BY <3>2, <3>3
  <2> QED
    BY <2>2, <2>3, <2>4
<1> QED
  BY <1>1, RunsAnswered, PTL
-----------------------------------------------------------------------------
(* The leaf of a statement, in the two crates. *)

\* Masking to 31 bits leaves less than two primes, so that one subtraction
\* reduces it.
LEMMA ServiceEncode ==
    ASSUME NEW n \in Nat
    PROVE  /\ n % HalfWord \in Int
           /\ Service!Encode(n % HalfWord) = (n % HalfWord) % Prime
<1>1. HalfWord \in Nat \ {0} /\ HalfWord <= 2 * Prime /\ Prime \in Nat \ {0}
  BY Poseidon2Assumption, LeafAssumption DEF HalfWord
<1>2. n % HalfWord \in 0 .. HalfWord - 1
  BY <1>1
<1>3. \A k, p \in Nat : p # 0 /\ k < p => k % p = k
  OBVIOUS
<1>4. \A k, p \in Nat : p # 0 /\ p <= k /\ k < 2 * p => k % p = k - p
  <2> TAKE k, p \in Nat
  <2> HAVE p # 0 /\ p <= k /\ k < 2 * p
  <2>1. k - p \in Nat /\ k - p < p /\ k = p * 1 + (k - p)
    OBVIOUS
  <2> QED
    BY <2>1
<1>5. PICK k \in Nat : k = n % HalfWord /\ k < 2 * Prime
  BY <1>1, <1>2
<1>6. Service!Encode(k) = k % Prime
  BY <1>1, <1>3, <1>4, <1>5 DEF Service!Encode
<1> QED
  BY <1>2, <1>5, <1>6

\* The agent takes one lane as it is, in both crates.
LEMMA AgentLane ==
    ASSUME NEW id
    PROVE  Encode(AgentWord(id)) = AgentWord(id) /\ Service!AgentBytes(id) = AgentWord(id)
<1>1. \A x, y : Len(<<x, y>>) = 2
  OBVIOUS
<1>2. \A x, y, z : Len(<<x, y, z>>) = 3
  OBVIOUS
<1> QED
  BY <1>1, <1>2 DEF Encode, AgentWord, Service!AgentBytes

\* A number as both crates reduce it, and a leaf's lanes.
Reduced(n) == (n % HalfWord) % Prime

LeafLanes(word, t, s) ==
    [i \in 1 .. Lanes |-> IF i = 1 THEN word ELSE IF i = 2 THEN Word(t)
                         ELSE IF i = 3 THEN Word(s) ELSE Word(0)]

LEMMA ServiceTriple ==
    ASSUME NEW id, NEW t \in Nat, NEW s \in Nat
    PROVE  Service!PostcardLeaf(id, t, s) = <<AgentWord(id), Reduced(t), Reduced(s)>>
BY ServiceEncode, AgentLane DEF Service!PostcardLeaf, Reduced

LEMMA PostcardLanes ==
    ASSUME NEW id, NEW t \in Nat, NEW s \in Nat
    PROVE  PostcardLeaf(id, t, s) = LeafLanes(AgentWord(id), Reduced(t), Reduced(s))
<1> DEFINE ws == <<AgentWord(id), Word(t % HalfWord), Word(s % HalfWord)>>
<1>1. /\ Len(ws) = 3 /\ ws[1] = AgentWord(id)
      /\ ws[2] = Word(t % HalfWord) /\ ws[3] = Word(s % HalfWord)
  OBVIOUS
<1>2. PostcardLeaf(id, t, s) = Digest(ws)
  BY DEF PostcardLeaf, Hash
<1> HIDE DEF ws
<1>3. /\ Encode(ws[1]) = AgentWord(id)
      /\ Encode(ws[2]) = Word(Reduced(t))
      /\ Encode(ws[3]) = Word(Reduced(s))
  BY <1>1, WordFacts, AgentLane, ServiceEncode DEF Reduced
<1>4. Digest(ws) = [i \in 1 .. Lanes |-> Encode(IF i <= Len(ws) THEN ws[i] ELSE Word(0))]
  BY DEF Digest, Permute, Pad
<1>5. ASSUME NEW i \in 1 .. Lanes
      PROVE  Encode(IF i <= Len(ws) THEN ws[i] ELSE Word(0)) =
                IF i = 1 THEN AgentWord(id) ELSE IF i = 2 THEN Word(Reduced(t))
                ELSE IF i = 3 THEN Word(Reduced(s)) ELSE Word(0)
  <2>1. i \in {1, 2, 3} \/ (i > 3 /\ i \notin {1, 2, 3})
    BY Poseidon2Assumption
  <2>2. CASE i \in {1, 2, 3}
    <3>1. i <= Len(ws)
      BY <1>1, <2>2
    <3> QED
      BY <1>3, <2>2, <3>1
  <2>3. CASE i > 3 /\ i \notin {1, 2, 3}
    <3>1. ~(i <= Len(ws))
      BY <1>1, <2>3, Poseidon2Assumption
    <3> QED
      BY <2>3, <3>1, WordFacts
  <2> QED
    BY <2>1, <2>2, <2>3
<1> QED
  BY <1>2, <1>4, <1>5 DEF LeafLanes

\* Two statements have one leaf by the command exactly when they have one
\* by the prover service.
LEMMA OneLeaf ==
    ASSUME NEW id, NEW t \in Nat, NEW s \in Nat, NEW jd, NEW u \in Nat, NEW v \in Nat
    PROVE  PostcardLeaf(id, t, s) = PostcardLeaf(jd, u, v)
             <=> Service!PostcardLeaf(id, t, s) = Service!PostcardLeaf(jd, u, v)
<1> DEFINE a == LeafLanes(AgentWord(id), Reduced(t), Reduced(s))
           b == LeafLanes(AgentWord(jd), Reduced(u), Reduced(v))
<1>1. PostcardLeaf(id, t, s) = a /\ PostcardLeaf(jd, u, v) = b
  BY PostcardLanes
<1>2. /\ Service!PostcardLeaf(id, t, s) = <<AgentWord(id), Reduced(t), Reduced(s)>>
      /\ Service!PostcardLeaf(jd, u, v) = <<AgentWord(jd), Reduced(u), Reduced(v)>>
  BY ServiceTriple
<1>3. /\ a[1] = AgentWord(id) /\ a[2] = Word(Reduced(t)) /\ a[3] = Word(Reduced(s))
      /\ b[1] = AgentWord(jd) /\ b[2] = Word(Reduced(u)) /\ b[3] = Word(Reduced(v))
  BY Poseidon2Assumption DEF LeafLanes
<1>4. ASSUME a = b
      PROVE  AgentWord(id) = AgentWord(jd) /\ Reduced(t) = Reduced(u) /\ Reduced(s) = Reduced(v)
  <2> HIDE DEF a, b
  <2> QED
    BY <1>3, <1>4, WordFacts
<1>5. ASSUME AgentWord(id) = AgentWord(jd), Reduced(t) = Reduced(u), Reduced(s) = Reduced(v)
      PROVE  a = b
  BY <1>5
<1>6. \A x, y, z, p, q, r : <<x, y, z>> = <<p, q, r>> <=> x = p /\ y = q /\ z = r
  OBVIOUS
<1> HIDE DEF a, b
<1> QED
  BY <1>1, <1>2, <1>4, <1>5, <1>6

\* The leaf command and the service give two statements one leaf together or
\* not at all, whatever numbers the caller passes.
THEOREM Leaves == Spec => []LeavesAgree
<1>1. runs \subseteq Answered => LeavesAgree
  <2> DEFINE postcards == {r \in Printed : r.line.cmd = "postcard"}
  <2> SUFFICES ASSUME runs \subseteq Answered, NEW r \in postcards, NEW s \in postcards
               PROVE  r.result.printed = s.result.printed <=>
                        Service!PostcardLeaf(AgentIds[r.line.args[1]], r.line.args[2], r.line.args[3])
                        = Service!PostcardLeaf(AgentIds[s.line.args[1]], s.line.args[2], s.line.args[3])
    BY DEF LeavesAgree
  <2>1. ASSUME NEW q \in postcards
        PROVE  /\ q.line.args[2] \in Nat /\ q.line.args[3] \in Nat
               /\ q.result.printed = PostcardLeaf(AgentIds[q.line.args[1]],
                                                 q.line.args[2], q.line.args[3])
    <3>1. PICK p \in Answered : p = q
      BY DEF Printed
    <3>2. /\ p.result = Main(p.line) /\ p.result.status = 0 /\ p.line.cmd = "postcard"
      BY <3>1, AnsweredFacts DEF Printed
    <3>3. PICK line, v : line = p.line /\ v = line.args
      OBVIOUS
    <3>4. Main(line) = IF Len(v) = 3 /\ {v[2], v[3]} \subseteq 0 .. MaxLong
                       THEN Prints(PostcardLeaf(AgentIds[v[1]], v[2], v[3]))
                       ELSE Exits(2)
      BY <3>2, <3>3, MainPostcard
    <3>5. Exits(2).status # 0 /\ \A d : Prints(d).printed = d
      BY DEF Exits, Prints
    <3>6. {v[2], v[3]} \subseteq 0 .. MaxLong
      BY <3>2, <3>3, <3>4, <3>5
    <3>7. v[2] \in Nat /\ v[3] \in Nat
      BY <3>6, LeafAssumption
    <3>8. Main(line).printed = PostcardLeaf(AgentIds[v[1]], v[2], v[3])
      BY <3>2, <3>3, <3>4, <3>5
    <3> QED
      BY <3>1, <3>2, <3>3, <3>7, <3>8
  <2>2. PICK t \in Nat, n \in Nat, u \in Nat, m \in Nat :
            /\ t = r.line.args[2] /\ n = r.line.args[3]
            /\ u = s.line.args[2] /\ m = s.line.args[3]
    BY <2>1
  <2>3. PICK id, jd : id = AgentIds[r.line.args[1]] /\ jd = AgentIds[s.line.args[1]]
    OBVIOUS
  <2>4. /\ r.result.printed = PostcardLeaf(id, t, n)
        /\ s.result.printed = PostcardLeaf(jd, u, m)
    BY <2>1, <2>2, <2>3
  <2>5. PostcardLeaf(id, t, n) = PostcardLeaf(jd, u, m)
          <=> Service!PostcardLeaf(id, t, n) = Service!PostcardLeaf(jd, u, m)
    BY OneLeaf
  <2> QED
    BY <2>2, <2>3, <2>4, <2>5
<1> QED
  BY <1>1, RunsAnswered, PTL
-----------------------------------------------------------------------------
(* Types. *)

LEMMA AnswerFacts ==
    /\ \A d : Prints(d).status = 0 /\ Prints(d).printed = d
    /\ \A n : Exits(n).status = n /\ Exits(n).printed = Nothing
BY DEF Prints, Exits

\* A fold prints the root of the statement it built, or nothing.
LEMMA FoldAnswer ==
    ASSUME NEW v
    PROVE  FoldOf(v) = Exits(3) \/ \E ws : FoldOf(v) = Prints(Digest(ws))
<1> DEFINE w == WitnessOf(v[5], v[6], v[7])
           args == [commitment |-> v[2], nullifier |-> v[3],
                    standards |-> v[4], threshold |-> v[8]]
           s == BuildFold(Word(v[1]), args, w)
<1>1. \E ws : s.new_fold_root = Digest(ws)
  <2> DEFINE blank == [prev_fold_root         |-> Word(v[1]),
                       new_outcome_commitment |-> Word(args.commitment),
                       new_nullifier          |-> Word(args.nullifier),
                       updated_components     |-> WeightedUpdate(w),
                       user_standards_hash    |-> Word(args.standards),
                       threshold              |-> args.threshold,
                       new_score              |-> WeightedUpdate(w),
                       new_fold_root          |-> Word(0)]
  <2>1. s = [blank EXCEPT !.new_fold_root = ComputeFoldRoot(blank)]
    BY DEF BuildFold
  <2>2. s.new_fold_root = ComputeFoldRoot(blank)
    BY <2>1
  <2> HIDE DEF s, blank
  <2> QED
    BY <2>2 DEF ComputeFoldRoot
<1>2. FoldOf(v) = IF VerifyFold(s, w) = "ok" THEN Prints(s.new_fold_root) ELSE Exits(3)
  BY DEF FoldOf
<1> HIDE DEF s, w
<1> QED
  BY <1>1, <1>2

\* The self-test passes: 1 and 2 are different elements of any field.
LEMMA SelfTestPasses == \E ws : SelfTest = Prints(Digest(ws))
<1>1. ASSUME NEW scope \in {1, 2}
      PROVE  Nullifier(Word(42), Word(scope))[2] = Word(scope % Prime)
  <2> DEFINE ws == <<Word(42), Word(scope)>>
  <2>1. Len(ws) = 2 /\ ws[2] = Word(scope)
    OBVIOUS
  <2>2. Nullifier(Word(42), Word(scope)) = Digest(ws)
    BY DEF Nullifier, Hash
  <2> HIDE DEF ws
  <2>3. 2 \in 1 .. Lanes
    BY Poseidon2Assumption
  <2>4. Digest(ws)[2] = Encode(IF 2 <= Len(ws) THEN ws[2] ELSE Word(0))
    BY <2>3, DigestLane
  <2>5. Encode(Word(scope)) = Word(scope % Prime)
    BY WordFacts
  <2> QED
    BY <2>1, <2>2, <2>4, <2>5
<1>2. 1 % Prime # 2 % Prime
  <2>1. Prime \in Nat /\ Prime > 1
    BY Poseidon2Assumption
  <2>2. CASE Prime = 2
    BY <2>2
  <2>3. CASE Prime > 2
    BY <2>1, <2>3
  <2> QED
    BY <2>1, <2>2, <2>3
<1>3. Nullifier(Word(42), Word(1)) # Nullifier(Word(42), Word(2))
  BY <1>1, <1>2, WordFacts
<1>4. SelfTest = Prints(Nullifier(Word(42), Word(1)))
  BY <1>3 DEF SelfTest
<1> QED
  BY <1>4 DEF Nullifier, Hash

\* Whatever the line, the answer is a digest with status 0, or nothing with
\* another one.
LEMMA MainType ==
    ASSUME NEW line
    PROVE  \/ \E n \in {2, 3} : Main(line) = Exits(n)
           \/ \E ws : Main(line) = Prints(Digest(ws))
<1>1. CASE line.cmd = "permute"
  BY <1>1, MainPermute DEF Digest
<1>2. CASE line.cmd = "hash"
  BY <1>2, MainHash DEF Hash
<1>3. CASE line.cmd = "commit"
  BY <1>3, MainCommit DEF Commitment, Hash
<1>4. CASE line.cmd = "nullifier"
  BY <1>4, MainNullifier DEF Nullifier, Hash
<1>5. CASE line.cmd = "postcard"
  BY <1>5, MainPostcard DEF PostcardLeaf, Hash
<1>6. CASE line.cmd = "fold"
  BY <1>6, MainFold, FoldAnswer
<1>7. CASE line.cmd = "selftest"
  BY <1>7, MainSelfTest, SelfTestPasses
<1> QED
  BY <1>1, <1>2, <1>3, <1>4, <1>5, <1>6, <1>7, MainOther

\* A line that is not refused as malformed has arguments that fit.
LEMMA MainParses ==
    ASSUME NEW line, line.cmd \notin {"postcard", "selftest"}, Main(line).status # 2
    PROVE  ParsesU32(line.args)
<1>1. Main(line) # Exits(2)
  BY AnswerFacts
<1> QED
  BY <1>1, MainPermute, MainHash, MainCommit, MainNullifier, MainFold, MainOther

\* What makes it inductive: only answers are on record, and only printed
\* commitments in the group.
Printable == {r.result.printed : r \in Answered}

Inv ==
    /\ runs \subseteq Answered
    /\ group \in Seq(Printable)
    /\ Len(group) <= MaxMembers

LEMMA Invariant == Spec => []Inv
<1>1. Init => Inv
  BY LeafAssumption DEF Init, Inv
<1>2. Inv /\ [Next]_vars => Inv'
  <2> SUFFICES ASSUME Inv, [Next]_vars PROVE Inv'
    OBVIOUS
  <2>1. ASSUME NEW line \in Lines, Run(line) PROVE Inv'
    BY <2>1 DEF Inv, Run, Answered, Printable
  <2>2. CASE Join
    <3>1. PICK r \in Printed : group' = Append(group, r.result.printed)
      BY <2>2 DEF Join
    <3>2. /\ r.result.printed \in Printable /\ group \in Seq(Printable)
          /\ Len(group) < MaxMembers /\ UNCHANGED runs
      BY <2>2, <3>1 DEF Inv, Join, Printed, Printable
      <3>3. group' \in Seq(Printable) /\ Len(group') = Len(group) + 1 /\ Len(group) \in Nat
      BY <3>1, <3>2
    <3>4. Len(group') <= MaxMembers
      BY <3>2, <3>3, LeafAssumption
    <3> QED
      BY <3>2, <3>3, <3>4 DEF Inv, Printable, Answered
  <2>3. CASE UNCHANGED vars
    BY <2>3 DEF Inv, vars
  <2> QED
    BY <2>1, <2>2, <2>3 DEF Next
<1> QED
  BY <1>1, <1>2, PTL DEF Spec

\* A digest is printed exactly when the status is 0, and only of arguments
\* that fit; the group keeps to its bound.
THEOREM TypeCorrect == Spec => []TypeOK
<1>1. Inv => TypeOK
  <2> SUFFICES ASSUME Inv PROVE TypeOK
    OBVIOUS
  <2>1. ASSUME NEW r \in runs
        PROVE  /\ r.line \in Lines
               /\ r.result.status \in {0, 2, 3}
               /\ r.result.status = 0 <=> r.result.printed # Nothing
               /\ r.result.status # 2 /\ r.line.cmd \notin {"postcard", "selftest"} =>
                     \A i \in DOMAIN r.line.args : r.line.args[i] \in U32
    <3>1. PICK q \in Answered : q = r
      BY DEF Inv
    <3>2. q.line \in Lines /\ q.result = Main(q.line)
      BY AnsweredFacts
    <3>3. PICK line \in Lines : line = q.line
      BY <3>2
    <3>4. /\ Main(line).status \in {0, 2, 3}
          /\ Main(line).status = 0 <=> Main(line).printed # Nothing
      BY MainType, AnswerFacts, DigestWord DEF Nothing
    <3>5. Main(line).status # 2 /\ line.cmd \notin {"postcard", "selftest"} =>
              \A i \in DOMAIN line.args : line.args[i] \in U32
      BY MainParses DEF ParsesU32
    <3> QED
      BY <3>1, <3>2, <3>3, <3>4, <3>5
  <2> QED
    BY <2>1 DEF TypeOK, Inv
<1> QED
  BY <1>1, Invariant, PTL
=============================================================================
