-------------------------------- MODULE Leaf --------------------------------
(***************************************************************************)
(* The leaf library (services/babybear-leaf/src/lib.rs) and the leaf       *)
(* command that opens it to callers (src/bin/leaf.rs).                     *)
(*                                                                         *)
(* Callers run command lines and read the exit status and the digest.  One *)
(* of them keeps a group: the commitments that were printed, in the order  *)
(* they joined, are the first leaves of a Merkle tree of a fixed depth.    *)
(***************************************************************************)
EXTENDS FoldStatement, FiniteSets

CONSTANTS
    Lines,      \* command lines, [cmd, args]
    AgentIds,   \* sequence of agent identifiers, [uuid, name, hyphens]
    MaxLong,    \* 2^64 - 1: the largest u64
    Depth,      \* levels of the group's tree
    MaxRuns,    \* bound on the command lines run
    MaxMembers  \* bound on the group

\* A text of a command line is a number, -1 for what is none.  As an agent
\* identifier it is a text like any other: the one with that number.
NotANumber == -1

\* 2^31
HalfWord == (MaxWord + 1) \div 2

\* The nodes that are so many levels below the root.
Width[depth \in 0 .. Depth] == IF depth = 0 THEN 1 ELSE 2 * Width[depth - 1]

ASSUME LeafAssumption ==
    /\ \A line \in Lines : line.cmd \in STRING /\ line.args \in Seq(Int)
    /\ Depth \in Nat /\ MaxRuns \in Nat /\ MaxLong \in Nat
    /\ MaxMembers \in 0 .. Width[Depth]
    /\ HalfWord <= 2 * Prime

VARIABLES
    runs,    \* the command lines run, with what came of them
    group    \* the members' commitments

vars == <<runs, group>>

-----------------------------------------------------------------------------
(* The library. *)

\* hash: the first Lanes words, zeros after them; more words are ignored.
Hash(words) == Digest(words)

Commitment(secret, nullifier, trapdoor) == Hash(<<secret, nullifier, trapdoor>>)

MerkleCompress(left, right) == Hash(<<left, right>>)

\* Mistake: the scope is left out.
NullifierUnscoped(secret, scope) == Hash(<<secret>>)

Nullifier(secret, scope) == Hash(<<secret, scope>>)

NoRoot == <<>>

\* Mistake: the lengths are not compared; zip stops at the shorter one.
MerkleRootUnequal(leaf, siblings, index_bits) ==
    LET acc[i \in 0 .. Len(siblings)] ==
            IF i = 0 THEN leaf
            ELSE IF i > Len(index_bits) THEN acc[i - 1]
            ELSE IF index_bits[i] = 0 THEN MerkleCompress(acc[i - 1], siblings[i])
            ELSE MerkleCompress(siblings[i], acc[i - 1])
    IN  acc[Len(siblings)]

\* From the leaf up; a path and bits of different lengths panic.
MerkleRoot(leaf, siblings, index_bits) ==
    LET acc[i \in 0 .. Len(siblings)] ==
            IF i = 0 THEN leaf
            ELSE IF index_bits[i] = 0 THEN MerkleCompress(acc[i - 1], siblings[i])
            ELSE MerkleCompress(siblings[i], acc[i - 1])
    IN  IF Len(siblings) # Len(index_bits) THEN NoRoot ELSE acc[Len(siblings)]

\* Mistake: hyphens are left in a UUID, which is then hashed like a name.
AgentWordHyphens(id) ==
    IF id.uuid /\ ~id.hyphens THEN <<"raw", id.name>>
                              ELSE <<"sha256", id.name, id.hyphens>>

\* agent_id_to_16_bytes; one word stands for the eight of sixteen bits.
AgentWord(id) ==
    IF id.uuid THEN <<"raw", id.name>> ELSE <<"sha256", id.name, id.hyphens>>

PostcardLeaf(id, threshold, repid) ==
    Hash(<<AgentWord(id), Word(threshold % HalfWord), Word(repid % HalfWord)>>)

-----------------------------------------------------------------------------
(* The command. *)

Nothing   == <<>>
Prints(d) == [status |-> 0, printed |-> d]
Exits(n)  == [status |-> n, printed |-> Nothing]

\* Mistake: a number that is too large is cut down to 32 bits.
ParsesU32Cut(args) == \A i \in DOMAIN args : args[i] # NotANumber

ParsesU32(args) == \A i \in DOMAIN args : args[i] \in U32

Words(args) == [i \in DOMAIN args |-> Word(args[i])]

\* leaf fold: builds the statement, prints its root once verified, and
\* refuses otherwise.
FoldOf(v) ==
    LET w == WitnessOf(v[5], v[6], v[7])
        s == BuildFold(Word(v[1]), [commitment |-> v[2], nullifier |-> v[3],
                                    standards |-> v[4], threshold |-> v[8]], w)
    IN  IF VerifyFold(s, w) = "ok" THEN Prints(s.new_fold_root) ELSE Exits(3)

SelfTest ==
    IF Nullifier(Word(42), Word(1)) = Nullifier(Word(42), Word(2))
    THEN Exits(1) ELSE Prints(Nullifier(Word(42), Word(1)))

\* die, with status 2, on any other line: an unknown command, the wrong
\* number of arguments, or one that does not parse.
Main(line) ==
    LET v == line.args
        w == Words(v)
    IN  CASE line.cmd = "permute" /\ ParsesU32(v) /\ Len(v) \in 1 .. Lanes ->
                Prints(Permute(Pad(w)))
          [] line.cmd = "hash" /\ ParsesU32(v) /\ Len(v) # 0 -> Prints(Hash(w))
          [] line.cmd = "commit" /\ ParsesU32(v) /\ Len(v) = 3 ->
                Prints(Commitment(w[1], w[2], w[3]))
          [] line.cmd = "nullifier" /\ ParsesU32(v) /\ Len(v) = 2 ->
                Prints(Nullifier(w[1], w[2]))
          [] line.cmd = "postcard" /\ Len(v) = 3 /\ {v[2], v[3]} \subseteq 0 .. MaxLong ->
                Prints(PostcardLeaf(AgentIds[v[1]], v[2], v[3]))
          [] line.cmd = "fold" /\ ParsesU32(v) /\ Len(v) = 8 -> FoldOf(v)
          [] line.cmd = "selftest" -> SelfTest
          [] OTHER -> Exits(2)

-----------------------------------------------------------------------------
Init == runs = {} /\ group = <<>>

Run(line) ==
    /\ Cardinality(runs) < MaxRuns
    /\ runs' = runs \cup {[line |-> line, result |-> Main(line)]}
    /\ UNCHANGED group

Printed == {r \in runs : r.result.status = 0}

\* Whoever keeps the group lets a printed commitment in.
Join ==
    /\ Len(group) < MaxMembers
    /\ \E r \in Printed :
          r.line.cmd = "commit" /\ group' = Append(group, r.result.printed)
    /\ UNCHANGED runs

Next == (\E line \in Lines : Run(line)) \/ Join

Spec == Init /\ [][Next]_vars

-----------------------------------------------------------------------------
(* The group's tree, and the claims of membership made about it. *)

\* Levels from the leaves, the empty ones zero, to the root alone.
Tree ==
    LET level[h \in 0 .. Depth] ==
          [k \in 1 .. Width[Depth - h] |->
             IF h = 0 THEN IF k \in DOMAIN group THEN group[k] ELSE Word(0)
             ELSE MerkleCompress(level[h - 1][2 * k - 1], level[h - 1][2 * k])]
    IN  level

Root == Tree[Depth][1]

\* The tree's own nodes, and every word printed.
Known ==
    UNION {{Tree[h][k] : k \in DOMAIN Tree[h]} : h \in 0 .. Depth}
    \cup {r.result.printed : r \in {p \in Printed : p.line.cmd # "postcard"}}

Bits == {0, 1, 2}

\* The verifier fixes the length of the path, the library that of the bits.
Admitted ==
    {claim \in [leaf : Known, siblings : [1 .. Depth -> Known],
                index_bits : UNION {[1 .. n -> Bits] : n \in 0 .. Depth}] :
        MerkleRoot(claim.leaf, claim.siblings, claim.index_bits) = Root}

\* Any bit but zero is a right child; a missing one is not.
IsRight(index_bits, i) == i <= Len(index_bits) /\ index_bits[i] # 0

\* Where the bits point, from the root down.
Position(index_bits) ==
    LET place[d \in 0 .. Depth] ==
            IF d = 0 THEN 1
            ELSE 2 * place[d - 1] - (IF IsRight(index_bits, Depth - d + 1) THEN 0 ELSE 1)
    IN  place[Depth]

-----------------------------------------------------------------------------
\* A digest is printed exactly when the status is 0, and only of numbers
\* that fit; a refused fold prints no root.
TypeOK ==
    /\ \A r \in runs :
          /\ r.line \in Lines
          /\ r.result.status \in {0, 2, 3}
          /\ r.result.status = 0 <=> r.result.printed # Nothing
          /\ r.result.status # 2 /\ r.line.cmd \notin {"postcard", "selftest"} =>
                \A i \in DOMAIN r.line.args : r.line.args[i] \in U32
    /\ Len(group) <= MaxMembers

Hashed == {r \in Printed : r.line.cmd \in {"permute", "hash", "commit", "nullifier"}}

\* The element in a lane: missing arguments are zeros.
Element(args, i) == IF i \in DOMAIN args THEN args[i] % Prime ELSE 0

\* Nothing but the order of the arguments keeps the uses of the one hash
\* apart.  Two digests are equal exactly when the arguments that fit are
\* congruent and the missing ones zero: one secret has another nullifier
\* under every scope below the prime, and a nullifier shows a commitment only
\* to an owner whose trapdoor is zero.
DigestsExact ==
    \A r, s \in Hashed :
        r.result.printed = s.result.printed <=>
            \A i \in 1 .. Lanes : Element(r.line.args, i) = Element(s.line.args, i)

Service == INSTANCE RangeCheck WITH
    RangeSize <- 1, EncodingBound <- HalfWord, WordSize <- MaxWord + 1

\* The leaf is computed in two crates.  Two statements have one leaf by the
\* command exactly when they have one by the prover service.
LeavesAgree ==
    LET ServiceLeaf(v) == Service!PostcardLeaf(AgentIds[v[1]], v[2], v[3])
        postcards == {r \in Printed : r.line.cmd = "postcard"}
    IN  \A r, s \in postcards :
            r.result.printed = s.result.printed
                <=> ServiceLeaf(r.line.args) = ServiceLeaf(s.line.args)

\* A claim admitted against the root, for a path of the tree's depth, is
\* about the leaf that stands where its bits point: no inner node passes for
\* a member, and no member for another.
MembershipOpens ==
    \A claim \in Admitted :
        Congruent(claim.leaf, Tree[0][Position(claim.index_bits)])
=============================================================================
