-------------------------- MODULE SecretScanProofs --------------------------
(* What the verdicts of the secret scan say, proved for every history,     *)
(* every set of branches and any number of events.                         *)
EXTENDS SecretScan, FiniteSetTheorems, TLAPS

Event ==
    [name : {"push", "pull_request"}, before : Commits \cup {Zero}, after : Commits]

Types ==
    /\ history \in Histories
    /\ tip \in [Branches -> Commits \cup {Zero}] /\ tip[Default] \in Commits
    /\ queued \in [BagToSet(queued) -> Nat \ {0}]
    /\ \A e \in BagToSet(queued) :
          e \in Event /\ (e.before = Zero => e.name = "push")

\* A run has scanned the commit, or said that it leaves it out.
Covered(c) == c \in Skipped \/ \E r \in finished : c \in r.scanned

\* So has one, or an event with a base will make one do it.
Direct(c) ==
    \/ Covered(c)
    \/ \E e \in BagToSet(queued) :
          e.before # Zero /\ c \in Reachable(e.after) \ Reachable(e.before)

\* Or a new branch will, unless the default branch has the commit by then.
Awaited(c) ==
    \/ Direct(c)
    \/ \E e \in BagToSet(queued) : e.before = Zero /\ c \in Reachable(e.after)

\* Commits that a run has to look at.
Due(C) == {c \in C \ {First} : HasDiff(c)}

\* What is on the default branch never rests on the run of a new branch:
\* that is why leaving out what the default branch has loses nothing.
Tracked ==
    /\ \A c \in Due(Reachable(tip[Default])) : Direct(c)
    /\ \A b \in Branches : \A c \in Due(Reachable(tip[b])) : Awaited(c)
    /\ \A r \in finished : r.scanned \cap secrets = {}

SomeRed == \E r \in finished : Red(r)

ScanInv == Types /\ (SomeRed \/ Tracked)

LEMMA HistoryFacts ==
  ASSUME Types
  PROVE  /\ Reachable(Zero) = {}
         /\ Reachable(First) = {First}
         /\ \A c \in Commits : Reachable(c) \subseteq Commits
<1>1. /\ history.reach \in [Commits \cup {Zero} -> SUBSET Commits]
      /\ history.reach[Zero] = {} /\ history.parents[First] = {}
      /\ First \in Commits
      /\ history.reach[First] =
            {First} \cup UNION {history.reach[p] : p \in history.parents[First]}
  BY SecretScanAssumption DEF Types
<1>2. history.reach[First] = {First}
  BY <1>1
<1> QED
  BY <1>1, <1>2 DEF Reachable

LEMMA BagAdd ==
  ASSUME NEW Q, NEW e, Q \in [DOMAIN Q -> Nat \ {0}]
  PROVE  LET R == Q (+) SetToBag({e})
         IN  R \in [DOMAIN R -> Nat \ {0}] /\ DOMAIN R = DOMAIN Q \cup {e}
  BY DEF (+), SetToBag

LEMMA BagRemove ==
  ASSUME NEW Q, NEW e \in DOMAIN Q, Q \in [DOMAIN Q -> Nat \ {0}]
  PROVE  LET R == Q (-) SetToBag({e})
         IN  /\ R \in [DOMAIN R -> Nat \ {0}]
             /\ DOMAIN R \subseteq DOMAIN Q /\ DOMAIN Q \ {e} \subseteq DOMAIN R
  BY DEF (-), SetToBag
\* More events and no run: what was tracked stays so.
LEMMA EnqueueKeeps ==
  ASSUME Types, NEW name, NEW before, NEW after, Enqueue(name, before, after),
         name \in {"push", "pull_request"}, before \in Commits \cup {Zero},
         after \in Commits, before = Zero => name = "push"
  PROVE  /\ queued' \in [BagToSet(queued') -> Nat \ {0}]
         /\ BagToSet(queued') = BagToSet(queued) \cup
               {[name |-> name, before |-> before, after |-> after]}
         /\ \A e \in BagToSet(queued') :
               e \in Event /\ (e.before = Zero => e.name = "push")
         /\ UNCHANGED <<history, secrets, finished>>
         /\ \A c : Direct(c) => Direct(c)'
         /\ \A c : Awaited(c) => Awaited(c)'
<1> DEFINE e == [name |-> name, before |-> before, after |-> after]
<1>1. queued' = queued (+) SetToBag({e}) /\ UNCHANGED <<history, secrets, finished>>
  BY DEF Enqueue
<1>2. /\ queued' \in [BagToSet(queued') -> Nat \ {0}]
      /\ BagToSet(queued') = BagToSet(queued) \cup {e}
  BY <1>1, BagAdd DEF Types, BagToSet
<1>3. \A d \in BagToSet(queued') : d \in Event /\ (d.before = Zero => d.name = "push")
  BY <1>2 DEF Types, Event
<1>4. \A c : Covered(c)' <=> Covered(c)
  BY <1>1 DEF Covered, Skipped
<1>5. \A c : Reachable(c)' = Reachable(c)
  BY <1>1 DEF Reachable
<1>6. \A c : Direct(c) => Direct(c)'
  BY <1>2, <1>4, <1>5 DEF Direct
<1>7. \A c : Awaited(c) => Awaited(c)'
  BY <1>2, <1>5, <1>6 DEF Awaited
<1> QED
  BY <1>1, <1>2, <1>3, <1>6, <1>7

LEMMA DueStays ==
  ASSUME UNCHANGED history PROVE \A C : Due(C)' = Due(C)
  BY DEF Due, HasDiff

LEMMA PushInv ==
  ASSUME ScanInv, NEW b \in Branches, NEW to \in Commits, Push(b, to)
  PROVE  ScanInv'
<1>0. Types
  BY DEF ScanInv
<1>1. PICK from \in Commits \cup {Zero} : from = tip[b]
  BY <1>0 DEF Types
<1> DEFINE e == [name |-> "push", before |-> from, after |-> to]
<1>2. Enqueue("push", from, to) /\ tip' = [tip EXCEPT ![b] = to]
  BY <1>1 DEF Push
<1>3. /\ BagToSet(queued') = BagToSet(queued) \cup {e}
      /\ UNCHANGED <<history, secrets, finished>>
      /\ \A c : Direct(c) => Direct(c)'
      /\ \A c : Awaited(c) => Awaited(c)'
  BY <1>0, <1>2, EnqueueKeeps
<1>4. Types'
  <2>1. /\ queued' \in [BagToSet(queued') -> Nat \ {0}]
        /\ \A d \in BagToSet(queued') : d \in Event /\ (d.before = Zero => d.name = "push")
    BY <1>0, <1>2, EnqueueKeeps
  <2>2. tip' \in [Branches -> Commits \cup {Zero}] /\ tip'[Default] \in Commits
    BY <1>0, <1>2, SecretScanAssumption DEF Types
  <2> QED
    BY <1>0, <1>3, <2>1, <2>2 DEF Types
<1>5. \A c : Reachable(c)' = Reachable(c)
  BY <1>3 DEF Reachable
<1>6. CASE SomeRed
  BY <1>3, <1>4, <1>6 DEF ScanInv, SomeRed
<1>7. CASE Tracked
  <2>1. e \in BagToSet(queued') /\ e.before = from /\ e.after = to
    BY <1>3
  <2>2. ASSUME from # Zero, NEW c \in Reachable(to) \ Reachable(from) PROVE Direct(c)'
    BY <2>1, <2>2, <1>5 DEF Direct
  <2>3. ASSUME NEW c \in Due(Reachable(tip'[Default])) PROVE Direct(c)'
    <3>1. CASE b = Default
      <4>1. from # Zero /\ tip'[Default] = to /\ from = tip[Default]
        BY <3>1, <1>0, <1>1, <1>2, SecretScanAssumption DEF Types
      <4>2. CASE c \in Reachable(from)
        BY <2>3, <4>1, <4>2, <1>3, <1>7 DEF Tracked, Due
      <4>3. CASE c \notin Reachable(from)
        BY <2>2, <2>3, <4>1, <4>3 DEF Due
      <4> QED
        BY <4>2, <4>3
    <3>2. CASE b # Default
      <4>1. tip'[Default] = tip[Default]
        BY <3>2, <1>0, <1>2, SecretScanAssumption DEF Types
      <4> QED
        BY <2>3, <4>1, <1>3, <1>7 DEF Tracked
    <3> QED
      BY <3>1, <3>2
  <2>4. ASSUME NEW d \in Branches, NEW c \in Due(Reachable(tip'[d])) PROVE Awaited(c)'
    <3>1. CASE d # b
      <4>1. tip'[d] = tip[d]
        BY <3>1, <1>0, <1>2 DEF Types
      <4> QED
        BY <2>4, <4>1, <1>3, <1>7 DEF Tracked
    <3>2. CASE d = b /\ from = Zero
      <4>1. tip'[d] = to
        BY <3>2, <1>0, <1>2 DEF Types
      <4> QED
        BY <2>1, <2>4, <3>2, <4>1, <1>5 DEF Awaited, Due
    <3>3. CASE d = b /\ from # Zero
      <4>1. tip'[d] = to /\ tip[d] = from
        BY <3>3, <1>0, <1>1, <1>2 DEF Types
      <4>2. CASE c \in Reachable(from)
        BY <2>4, <4>1, <4>2, <1>3, <1>7 DEF Tracked, Due
      <4>3. CASE c \notin Reachable(from)
        BY <2>2, <2>4, <3>3, <4>1, <4>3 DEF Awaited, Due
      <4> QED
        BY <4>2, <4>3
    <3> QED
      BY <3>1, <3>2, <3>3
  <2>5. \A C : Due(C)' = Due(C)
    BY <1>3, DueStays
  <2>6. Tracked'
    BY <2>3, <2>4, <2>5, <1>3, <1>5, <1>7 DEF Tracked
  <2> QED
    BY <2>6, <1>4 DEF ScanInv
<1> QED
  BY <1>6, <1>7 DEF ScanInv

LEMMA DeleteInv ==
  ASSUME ScanInv, NEW b \in Branches, Delete(b)
  PROVE  ScanInv'
<1>0. Types
  BY DEF ScanInv
<1>1. /\ b # Default /\ tip' = [tip EXCEPT ![b] = Zero]
      /\ UNCHANGED <<history, secrets, events, queued, finished>>
  BY DEF Delete
<1>2. tip' \in [Branches -> Commits \cup {Zero}] /\ tip'[Default] = tip[Default]
  BY <1>0, <1>1, SecretScanAssumption DEF Types
<1>3. Types'
  BY <1>0, <1>1, <1>2 DEF Types
<1>4. CASE SomeRed
  BY <1>1, <1>3, <1>4 DEF ScanInv, SomeRed
<1>5. CASE Tracked
  <2>1. \A c : Reachable(c)' = Reachable(c)
    BY <1>1 DEF Reachable
  <2>2. \A c : (Direct(c)' <=> Direct(c)) /\ (Awaited(c)' <=> Awaited(c))
    BY <1>1, <2>1 DEF Awaited, Direct, Covered, Skipped
  <2>3. \A C : Due(C)' = Due(C)
    BY <1>1, DueStays
  <2>4. ASSUME NEW d \in Branches, NEW c \in Due(Reachable(tip'[d])) PROVE Awaited(c)
    <3>1. d # b
      BY <2>4, <1>0, <1>1, HistoryFacts DEF Types, Due
    <3>2. tip'[d] = tip[d]
      BY <3>1, <1>0, <1>1 DEF Types
    <3> QED
      BY <2>4, <3>2, <1>5 DEF Tracked
  <2>5. Tracked'
    BY <2>1, <2>2, <2>3, <2>4, <1>1, <1>2, <1>5 DEF Tracked
  <2> QED
    BY <2>5, <1>3 DEF ScanInv
<1> QED
  BY <1>4, <1>5 DEF ScanInv

LEMMA OpenPullRequestInv ==
  ASSUME ScanInv, NEW c \in Commits, OpenPullRequest(c)
  PROVE  ScanInv'
<1>0. Types
  BY DEF ScanInv
<1>1. PICK base \in Commits : base = tip[Default]
  BY <1>0 DEF Types
<1>2. Enqueue("pull_request", base, c) /\ UNCHANGED tip /\ base # Zero
  BY <1>1, SecretScanAssumption DEF OpenPullRequest
<1>3. /\ queued' \in [BagToSet(queued') -> Nat \ {0}]
      /\ \A d \in BagToSet(queued') : d \in Event /\ (d.before = Zero => d.name = "push")
      /\ UNCHANGED <<history, secrets, finished>>
      /\ \A d : Direct(d) => Direct(d)'
      /\ \A d : Awaited(d) => Awaited(d)'
  BY <1>0, <1>2, EnqueueKeeps
<1>4. Types'
  BY <1>0, <1>2, <1>3 DEF Types
<1>5. \A d : Reachable(d)' = Reachable(d)
  BY <1>3 DEF Reachable
<1>6. \A C : Due(C)' = Due(C)
  BY <1>3, DueStays
<1>7. Tracked => Tracked'
  BY <1>2, <1>3, <1>5, <1>6 DEF Tracked
<1>8. SomeRed => SomeRed'
  BY <1>3 DEF SomeRed
<1> QED
  BY <1>4, <1>7, <1>8 DEF ScanInv


\* A run that is not red has covered what its event stood for.
LEMMA ScanInvStep ==
  ASSUME ScanInv, NEW e \in BagToSet(queued), NEW log \in Logs, Scan(e, log)
  PROVE  ScanInv'
<1>0. Types
  BY DEF ScanInv
<1>1. PICK scanned, skipped, verdict :
        /\ scanned = Scanned(e, log)
        /\ skipped = LeftOut(e, log)
        /\ verdict = Verdict(e, log)
  OBVIOUS
<1> DEFINE r == [verdict |-> verdict, scanned |-> scanned, skipped |-> skipped]
<1>2. /\ queued' = queued (-) SetToBag({e}) /\ finished' = finished \cup {r}
      /\ UNCHANGED <<history, secrets, tip>>
  BY <1>1 DEF Scan, Finish
<1>3. /\ queued' \in [BagToSet(queued') -> Nat \ {0}]
      /\ BagToSet(queued') \subseteq BagToSet(queued)
      /\ BagToSet(queued) \ {e} \subseteq BagToSet(queued')
  BY <1>0, <1>2, BagRemove DEF Types, BagToSet
<1>4. Types'
  BY <1>0, <1>2, <1>3 DEF Types
<1>5. CASE SomeRed
  BY <1>2, <1>4, <1>5 DEF ScanInv, SomeRed, Red
<1>6. CASE verdict = "FAILED"
  <2>1. r \in finished' /\ Red(r)
    BY <1>2, <1>6 DEF Red
  <2>2. SomeRed'
    BY <2>1 DEF SomeRed, Red
  <2> QED
    BY <2>2, <1>4 DEF ScanInv
<1>7. CASE Tracked /\ verdict # "FAILED"
  <2>1. \A c : Reachable(c)' = Reachable(c)
    BY <1>2 DEF Reachable
  <2>2. \A C : Due(C)' = Due(C)
    BY <1>2, DueStays
  <2>3. \A c : c \in scanned \cup skipped => Covered(c)'
    <3>1. r \in finished' /\ r.scanned = scanned /\ r.skipped = skipped
      BY <1>2
    <3> QED
      BY <3>1 DEF Covered, Skipped
  <2>4. \A c : Covered(c) => Covered(c)'
    BY <1>2 DEF Covered, Skipped
  <2>4a. ASSUME NEW c \in CommitRange(e), HasDiff(c) PROVE Covered(c)'
    <3>1. c \in scanned \/ c \in skipped
      BY <1>1, <2>4a DEF Read, Scanned, LeftOut
    <3> QED
      BY <3>1, <2>3
  <2>5. ASSUME e.before # Zero, NEW c \in Reachable(e.after) \ Reachable(e.before),
               HasDiff(c)
        PROVE  Covered(c)'
    <3>1. CASE TipOnly(e)
      <4>1. CommitRange(e) = {e.after}
        BY <3>1, <2>5 DEF CommitRange, TipOnly
      <4>2. c \in CommitRange(e) \/ c \in skipped
        BY <1>1, <2>5, <3>1, <4>1 DEF LeftOut
      <4> QED
        BY <4>2, <2>3, <2>5, <2>4a
    <3>2. CASE ~TipOnly(e)
      <4>1. CommitRange(e) = Reachable(e.after) \ Reachable(e.before)
        BY <3>2, <2>5 DEF CommitRange
      <4> QED
        BY <2>5, <2>4a, <4>1
    <3> QED
      BY <3>1, <3>2
  <2>6. ASSUME NEW c, HasDiff(c), Direct(c) PROVE Direct(c)'
    <3>1. CASE Covered(c)
      BY <3>1, <2>4 DEF Direct
    <3>2. CASE e.before # Zero /\ c \in Reachable(e.after) \ Reachable(e.before)
      BY <3>2, <2>5, <2>6 DEF Direct
    <3>3. ASSUME NEW d \in BagToSet(queued) \ {e}, d.before # Zero,
                 c \in Reachable(d.after) \ Reachable(d.before)
          PROVE  Direct(c)'
      BY <3>3, <1>3, <2>1 DEF Direct
    <3> QED
      BY <3>1, <3>2, <3>3, <2>6 DEF Direct
  <2>7. ASSUME NEW c \in Due(Reachable(tip[Default])) PROVE Direct(c)'
    BY <2>6, <2>7, <1>7 DEF Tracked, Due
  <2>8. ASSUME NEW c, c # First, HasDiff(c), Awaited(c) PROVE Awaited(c)'
    <3>1. CASE Direct(c)
      BY <3>1, <2>6, <2>8 DEF Awaited
    <3>2. CASE e.before = Zero /\ c \in Reachable(e.after)
      <4>1. CASE c \in Reachable(tip[Default])
        BY <4>1, <2>7, <2>8 DEF Awaited, Due
      <4>2. CASE c \notin Reachable(tip[Default])
        <5>1. e.name = "push"
          BY <3>2, <1>0 DEF Types
        <5>2. CommitRange(e) = Reachable(e.after) \ Reachable(tip[Default])
          BY <3>2, <5>1 DEF CommitRange, TipOnly
        <5>3. c \in CommitRange(e)
          BY <3>2, <4>2, <5>2
        <5>4. Covered(c)'
          BY <5>3, <2>8, <2>4a
        <5>5. Direct(c)'
          BY <5>4 DEF Direct
        <5> QED
          BY <5>5 DEF Awaited
      <4> QED
        BY <4>1, <4>2
    <3>3. ASSUME NEW d \in BagToSet(queued) \ {e}, d.before = Zero, c \in Reachable(d.after)
          PROVE  Awaited(c)'
      BY <3>3, <1>3, <2>1 DEF Awaited
    <3> QED
      BY <3>1, <3>2, <3>3, <2>8 DEF Awaited
  <2>9. scanned \cap secrets = {}
    BY <1>1, <1>7 DEF Verdict, Scanned
  <2>10. \A d \in Branches : \A c \in Due(Reachable(tip[d])) : Awaited(c)'
    BY <2>8, <1>7 DEF Tracked, Due
  <2>11. \A s \in finished' : s.scanned \cap secrets = {}
    BY <1>2, <1>7, <2>9 DEF Tracked
  <2>12. Tracked'
    BY <2>1, <2>2, <2>7, <2>10, <2>11, <1>2 DEF Tracked
  <2> QED
    BY <2>12, <1>4 DEF ScanInv
<1> QED
  BY <1>5, <1>6, <1>7 DEF ScanInv

LEMMA BreakInv ==
  ASSUME ScanInv, NEW e \in BagToSet(queued), Break(e)
  PROVE  ScanInv'
<1>0. Types
  BY DEF ScanInv
<1> DEFINE r == [verdict |-> "ERROR", scanned |-> {}, skipped |-> {}]
<1>1. /\ queued' = queued (-) SetToBag({e}) /\ finished' = finished \cup {r}
      /\ UNCHANGED <<history, secrets, tip>>
  BY DEF Break, Finish
<1>2. /\ queued' \in [BagToSet(queued') -> Nat \ {0}]
      /\ BagToSet(queued') \subseteq BagToSet(queued)
  BY <1>0, <1>1, BagRemove DEF Types, BagToSet
<1>3. Types'
  BY <1>0, <1>1, <1>2 DEF Types
<1>4. r \in finished' /\ r.verdict = "ERROR"
  BY <1>1
<1>5. SomeRed'
  BY <1>4 DEF SomeRed, Red
<1> QED
  BY <1>3, <1>5 DEF ScanInv

\* Until a run is red, what any branch has is covered or awaits a run.
THEOREM ScanInvariant == Spec => []ScanInv
<1>1. Init => ScanInv
  <2> SUFFICES ASSUME Init PROVE ScanInv
    OBVIOUS
  <2>1. Types
    BY SecretScanAssumption DEF Init, Types, EmptyBag, SetToBag, BagToSet, Zero
  <2>2. \A b \in Branches : Reachable(tip[b]) \subseteq {First}
    BY <2>1, HistoryFacts DEF Init
  <2>3. \A b \in Branches : Due(Reachable(tip[b])) = {}
    BY <2>2 DEF Due
  <2>4. Tracked
    BY <2>3, SecretScanAssumption DEF Tracked, Init
  <2> QED
    BY <2>1, <2>4 DEF ScanInv
<1>2. ScanInv /\ [Next]_vars => ScanInv'
  <2> SUFFICES ASSUME ScanInv, [Next]_vars PROVE ScanInv'
    OBVIOUS
  <2>1. CASE UNCHANGED vars
    BY <2>1 DEF vars, ScanInv, Types, SomeRed, Red, Tracked, Due, HasDiff, Direct, Awaited,
                Covered, Skipped, Reachable
  <2> QED
    BY <2>1, PushInv, DeleteInv, OpenPullRequestInv, ScanInvStep, BreakInv DEF Next
<1> QED
  BY <1>1, <1>2, PTL DEF Spec

\* Once all runs are through and none is red, every commit on a branch that
\* has a diff was scanned, unless a run said that it left it out, and adds no
\* secret.
THEOREM ScanGreenMeansClean == Spec => []GreenMeansClean
<1>1. ScanInv => GreenMeansClean
  <2> SUFFICES ASSUME ScanInv, queued = EmptyBag, \A r \in finished : ~Red(r),
                      NEW c \in OnBranches \ (Skipped \cup {First}), HasDiff(c)
               PROVE  (\E r \in finished : c \in r.scanned) /\ c \notin secrets
    BY DEF GreenMeansClean
  <2>1. Tracked
    BY DEF ScanInv, SomeRed
  <2>2. PICK b \in Branches : c \in Reachable(tip[b])
    BY DEF OnBranches
  <2>3. Awaited(c)
    BY <2>1, <2>2 DEF Tracked, Due
  <2>4. BagToSet(queued) = {}
    BY DEF EmptyBag, SetToBag, BagToSet
  <2>5. Covered(c)
    BY <2>3, <2>4 DEF Awaited, Direct
  <2>6. PICK r \in finished : c \in r.scanned
    BY <2>5 DEF Covered
  <2> QED
    BY <2>1, <2>6 DEF Tracked
<1> QED
  BY <1>1, ScanInvariant, PTL

\* VERIFIED is never said over nothing, nor over a commit that adds a secret.
THEOREM ScanVerifiedOverSomething == Spec => []VerifiedOverSomething
<1>1. Init => VerifiedOverSomething
  BY DEF Init, VerifiedOverSomething
<1>2. VerifiedOverSomething /\ [Next]_vars => VerifiedOverSomething'
  <2> SUFFICES ASSUME VerifiedOverSomething, [Next]_vars PROVE VerifiedOverSomething'
    OBVIOUS
  <2>1. CASE UNCHANGED <<secrets, finished>>
    BY <2>1 DEF VerifiedOverSomething
  <2>2. ASSUME NEW e \in BagToSet(queued), NEW log \in Logs, Scan(e, log)
        PROVE  VerifiedOverSomething'
    <3>1. PICK r, scanned, skipped :
            /\ finished' = finished \cup {r} /\ UNCHANGED secrets
            /\ r = [verdict |-> Verdict(e, log), scanned |-> scanned, skipped |-> skipped]
            /\ scanned = Scanned(e, log)
      BY <2>2 DEF Scan, Finish
    <3>2. r.verdict = "VERIFIED" => r.scanned # {} /\ r.scanned \cap secrets = {}
      BY <3>1 DEF Verdict, Scanned
    <3> QED
      BY <3>1, <3>2 DEF VerifiedOverSomething
  <2>3. ASSUME NEW e \in BagToSet(queued), Break(e) PROVE VerifiedOverSomething'
    <3>1. PICK r :
            /\ finished' = finished \cup {r} /\ UNCHANGED secrets
            /\ r = [verdict |-> "ERROR", scanned |-> {}, skipped |-> {}]
      BY <2>3 DEF Break, Finish
    <3> QED
      BY <3>1 DEF VerifiedOverSomething
  <2> QED
    BY <2>1, <2>2, <2>3 DEF Next, Push, Delete, OpenPullRequest, Enqueue, vars
<1> QED
  BY <1>1, <1>2, PTL DEF Spec

-----------------------------------------------------------------------------
(* No event has two runs. *)

\* A copy of one event more in the bag.
LEMMA CopiesAdd ==
  ASSUME NEW Q, NEW e, Q \in [DOMAIN Q -> Nat \ {0}]
  PROVE  \E x : Copies(Q (+) SetToBag({e})) = Copies(Q) \cup {x}
<1> DEFINE R == Q (+) SetToBag({e})
           n == IF e \in DOMAIN Q THEN Q[e] + 1 ELSE 1
<1>1. /\ DOMAIN R = DOMAIN Q \cup {e} /\ R[e] = n /\ n \in Nat \ {0}
      /\ \A d \in DOMAIN Q \ {e} : R[d] = Q[d]
  BY DEF (+), SetToBag
<1>2. e \in DOMAIN Q => 1 .. n = (1 .. Q[e]) \cup {n}
  <2> HAVE e \in DOMAIN Q
  <2>1. Q[e] \in Nat /\ n = Q[e] + 1
    OBVIOUS
  <2> QED
    BY <2>1
<1>3. e \notin DOMAIN Q => 1 .. n = {n}
  OBVIOUS
<1> HIDE DEF R, n
<1>4. Copies(R) = Copies(Q) \cup {<<e, n>>}
  BY <1>1, <1>2, <1>3 DEF Copies, BagToSet
<1> QED
  BY <1>4 DEF R

\* And one less.
LEMMA CopiesRemove ==
  ASSUME NEW Q, NEW e \in DOMAIN Q, Q \in [DOMAIN Q -> Nat \ {0}]
  PROVE  \E x \in Copies(Q) : Copies(Q (-) SetToBag({e})) = Copies(Q) \ {x}
<1> DEFINE R == Q (-) SetToBag({e})
           n == Q[e]
<1>1. /\ DOMAIN R = IF n = 1 THEN DOMAIN Q \ {e} ELSE DOMAIN Q
      /\ n # 1 => R[e] = n - 1
      /\ \A d \in DOMAIN Q \ {e} : R[d] = Q[d]
      /\ n \in Nat \ {0}
  BY DEF (-), SetToBag
<1>2. n \in 1 .. n /\ 1 .. (n - 1) = (1 .. n) \ {n} /\ (n = 1 => 1 .. n = {n})
  BY <1>1
<1> HIDE DEF R
<1>3. <<e, n>> \in Copies(Q)
  BY <1>2 DEF Copies, BagToSet
<1>4. Copies(R) = Copies(Q) \ {<<e, n>>}
  BY <1>1, <1>2 DEF Copies, BagToSet
<1> QED
  BY <1>3, <1>4 DEF R

\* What the count rests on: all of it is finite.
Counted ==
    /\ events \in Nat /\ IsFiniteSet(finished) /\ IsFiniteSet(Copies(queued))
    /\ Cardinality(Copies(queued)) + Cardinality(finished) <= events
    /\ \A r \in finished : r.scanned \cup r.skipped \subseteq Commits

\* An event is counted when it is queued.
LEMMA EnqueueCounts ==
  ASSUME Types, Counted, NEW name, NEW before, NEW after, Enqueue(name, before, after)
  PROVE  Counted'
<1> DEFINE e == [name |-> name, before |-> before, after |-> after]
<1>1. /\ queued' = queued (+) SetToBag({e})
      /\ events' = events + 1 /\ finished' = finished
  BY DEF Enqueue
<1> HIDE DEF e
<1>2. PICK x : Copies(queued') = Copies(queued) \cup {x}
  BY <1>1, CopiesAdd DEF Types, BagToSet
<1>3. /\ IsFiniteSet(Copies(queued'))
      /\ Cardinality(Copies(queued')) <= Cardinality(Copies(queued)) + 1
      /\ Cardinality(Copies(queued')) \in Nat
      /\ Cardinality(Copies(queued)) \in Nat /\ Cardinality(finished) \in Nat
  <2>1. /\ IsFiniteSet(Copies(queued) \cup {x})
        /\ \/ Cardinality(Copies(queued) \cup {x}) = Cardinality(Copies(queued))
           \/ Cardinality(Copies(queued) \cup {x}) = Cardinality(Copies(queued)) + 1
    BY FS_AddElement DEF Counted
  <2>2. Cardinality(Copies(queued)) \in Nat /\ Cardinality(finished) \in Nat
    BY FS_CardinalityType DEF Counted
  <2> QED
    BY <1>2, <2>1, <2>2
<1> QED
  BY <1>1, <1>3 DEF Counted

\* A run that ends takes its event with it.
LEMMA FinishCounts ==
  ASSUME Types, Counted, NEW e \in BagToSet(queued),
         NEW verdict, NEW scanned \in SUBSET Commits, NEW skipped \in SUBSET Commits,
         Finish(e, verdict, scanned, skipped)
  PROVE  Counted'
<1> DEFINE r == [verdict |-> verdict, scanned |-> scanned, skipped |-> skipped]
<1>1. /\ queued' = queued (-) SetToBag({e})
      /\ finished' = finished \cup {r} /\ events' = events
      /\ r.scanned \cup r.skipped \subseteq Commits
  BY DEF Finish
<1> HIDE DEF r
<1>2. PICK x \in Copies(queued) : Copies(queued') = Copies(queued) \ {x}
  BY <1>1, CopiesRemove DEF Types, BagToSet
<1>3. /\ IsFiniteSet(Copies(queued'))
      /\ Cardinality(Copies(queued')) = Cardinality(Copies(queued)) - 1
      /\ Cardinality(Copies(queued)) \in Nat /\ Cardinality(finished) \in Nat
  BY <1>2, FS_RemoveElement, FS_CardinalityType DEF Counted
<1>4. /\ IsFiniteSet(finished') /\ Cardinality(finished') \in Nat
      /\ Cardinality(finished') <= Cardinality(finished) + 1
  <2>1. /\ IsFiniteSet(finished \cup {r})
        /\ \/ Cardinality(finished \cup {r}) = Cardinality(finished)
           \/ Cardinality(finished \cup {r}) = Cardinality(finished) + 1
    BY FS_AddElement DEF Counted
  <2> QED
    BY <1>1, <1>3, <2>1
<1>5. \A s \in finished' : s.scanned \cup s.skipped \subseteq Commits
  BY <1>1 DEF Counted
<1> QED
  BY <1>1, <1>3, <1>4, <1>5 DEF Counted

\* Runs look at commits.
LEMMA RangeCommits ==
  ASSUME Types, NEW e \in BagToSet(queued)
  PROVE  CommitRange(e) \subseteq Commits /\ Reachable(e.after) \subseteq Commits
<1>1. e.after \in Commits
  BY DEF Types, Event
<1>2. Reachable(e.after) \subseteq Commits
  BY <1>1, HistoryFacts
<1> QED
  BY <1>1, <1>2 DEF CommitRange

\* Branches point at commits or nowhere, the default one at a commit; the
\* runs to come and the results reported are no more than the events were.
THEOREM ScanTypes == Spec => []TypeOK
<1>1. Init => Counted
  <2> SUFFICES ASSUME Init PROVE Counted
    OBVIOUS
  <2>1. Copies(queued) = {} /\ finished = {} /\ events = 0
    BY DEF Init, EmptyBag, SetToBag, Copies, BagToSet
  <2> QED
    BY <2>1, FS_EmptySet DEF Counted
<1>2. Types /\ Counted /\ [Next]_vars => Counted'
  <2> SUFFICES ASSUME Types, Counted, [Next]_vars PROVE Counted'
    OBVIOUS
  <2>1. CASE UNCHANGED <<events, queued, finished>>
    BY <2>1 DEF Counted
  <2>2. ASSUME NEW b \in Branches, NEW c \in Commits, Push(b, c) PROVE Counted'
    <3>1. PICK from : from = tip[b]
      OBVIOUS
    <3> QED
      BY <2>2, <3>1, EnqueueCounts DEF Push
  <2>3. ASSUME NEW c \in Commits, OpenPullRequest(c) PROVE Counted'
    <3>1. PICK base : base = tip[Default]
      OBVIOUS
    <3> QED
      BY <2>3, <3>1, EnqueueCounts DEF OpenPullRequest
  <2>4. ASSUME NEW e \in BagToSet(queued), NEW log \in Logs, Scan(e, log)
        PROVE  Counted'
    <3>1. PICK scanned, skipped, verdict :
            /\ scanned = Scanned(e, log)
            /\ skipped = LeftOut(e, log)
            /\ verdict = Verdict(e, log)
      OBVIOUS
    <3>2. scanned \in SUBSET Commits /\ skipped \in SUBSET Commits
      BY <3>1, RangeCommits DEF Read, Scanned, LeftOut
    <3>3. Finish(e, verdict, scanned, skipped)
      BY <2>4, <3>1 DEF Scan
    <3> QED
      BY <3>2, <3>3, FinishCounts
  <2>5. ASSUME NEW e \in BagToSet(queued), Break(e) PROVE Counted'
    BY <2>5, FinishCounts DEF Break
  <2> QED
    BY <2>1, <2>2, <2>3, <2>4, <2>5 DEF Next, vars, Delete
<1>3. ScanInv /\ Counted => TypeOK
  <2> SUFFICES ASSUME ScanInv, Counted PROVE TypeOK
    OBVIOUS
  <2>1. Types
    BY DEF ScanInv
  <2>2. IsABag(queued)
    BY <2>1 DEF Types, IsABag, BagToSet
  <2> QED
    BY <2>1, <2>2, SecretScanAssumption DEF Types, Counted, TypeOK
<1>4. ScanInv => Types
  BY DEF ScanInv
<1> QED
  BY <1>1, <1>2, <1>3, <1>4, ScanInvariant, PTL DEF Spec
=============================================================================
