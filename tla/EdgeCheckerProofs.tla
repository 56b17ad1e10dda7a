------------------------- MODULE EdgeCheckerProofs -------------------------
(* What an exit code of the edge checker says, proved for every content of *)
(* the files.                                                              *)
EXTENDS EdgeChecker, TLAPS

Failed == \E r \in results : r[2] = "FAILED"

\* What a passed check still says when later outcomes have been recorded.
Agrees(check) ==
    IF check = "env" THEN input.env \subseteq input.named ELSE Holds(check)

\* A check that is behind agrees, unless something failed or it was not run.
Passed(check) ==
    \/ Agrees(check)
    \/ Failed
    \/ check = "engine" /\ Recorded("engine", "NOT CHECKED")

\* Skipped checks are the difficulty: each has an earlier check that failed.
EdgeInv ==
    /\ done \in 0 .. Len(Checks)
    /\ \A i \in 1 .. done : Passed(Checks[i])
    /\ done >= 3 => Recorded("structure", "VERIFIED") \/ Failed
    /\ exit # None => exit = ExitCode(results) /\ (done = Len(Checks) \/ Failed)

LEMMA ChecksLength == Len(Checks) = 16
  BY DEF Checks

\* A check that may be skipped comes after the one that found its input
\* missing.
LEMMA CheckOrder ==
  \A i \in 1 .. 16 :
      /\ Checks[i] \in ByTable => i > 4
      /\ Checks[i] \in ByPart => i > 3
      /\ i = 3 <=> Checks[i] = "structure"
<1> SUFFICES ASSUME NEW i \in 1 .. 16
             PROVE  /\ Checks[i] \in ByTable => i > 4
                    /\ Checks[i] \in ByPart => i > 3
                    /\ i = 3 <=> Checks[i] = "structure"
  OBVIOUS
<1>1. i \in {1, 2, 3, 4} \/ i \in {5, 6, 7, 8} \/ i \in {9, 10, 11, 12} \/ i \in {13, 14, 15, 16}
  OBVIOUS
<1>2. CASE i \in {1, 2, 3, 4}
  BY <1>2 DEF Checks, ByTable, ByPart
<1>3. CASE i \in {5, 6, 7, 8}
  BY <1>3 DEF Checks, ByTable, ByPart
<1>4. CASE i \in {9, 10, 11, 12}
  BY <1>4 DEF Checks, ByTable, ByPart
<1>5. CASE i \in {13, 14, 15, 16}
  BY <1>5 DEF Checks, ByTable, ByPart
<1> QED
  BY <1>1, <1>2, <1>3, <1>4, <1>5

LEMMA HoldsAgrees ==
  ASSUME NEW check, Holds(check) PROVE Agrees(check)
<1>1. CASE check = "env"
  BY <1>1 DEF Holds, Agrees
<1>2. CASE check # "env"
  BY <1>2 DEF Agrees
<1> QED
  BY <1>1, <1>2

\* The files do not change while the script runs.
LEMMA AgreesStays ==
  ASSUME NEW check, UNCHANGED input, Agrees(check) PROVE Agrees(check)'
<1>1. CASE check = "env"
  BY <1>1 DEF Agrees
<1>2. CASE check # "env"
  <2>1. Holds(check)
    BY <1>2 DEF Agrees
  <2>2. Listed' = Listed
    BY DEF Listed
  <2>3. NoteHolds' = NoteHolds
    BY <2>2 DEF NoteHolds
  <2>4. AuthHolds' = AuthHolds
    BY <2>2 DEF AuthHolds
  <2>5. Attributed' = Attributed /\ Mentioned' = Mentioned /\ EngineHolds' = EngineHolds
    BY DEF Attributed, Mentioned, EngineHolds
  <2>6. Holds(check)'
    BY <1>2, <2>1, <2>2, <2>3, <2>4, <2>5 DEF Holds
  <2> QED
    BY <1>2, <2>6 DEF Agrees
<1> QED
  BY <1>1, <1>2

LEMMA RunCheckInv ==
  ASSUME EdgeInv, RunCheck PROVE EdgeInv'
<1>0. PICK check : check = Checks[done + 1]
  OBVIOUS
<1>1. done \in 0 .. 15 /\ done' = done + 1 /\ UNCHANGED <<input, exit>> /\ exit = None
  BY ChecksLength DEF EdgeInv, RunCheck
<1>2. results \subseteq results'
  BY DEF RunCheck
<1>3. Failed => Failed'
  BY <1>2 DEF Failed
<1>4. ~Skipped(check) => <<check, Outcome(check)>> \in results'
  BY <1>0 DEF RunCheck
<1>5. ASSUME NEW i \in 1 .. done PROVE Passed(Checks[i])'
  BY <1>1, <1>2, <1>3, AgreesStays DEF EdgeInv, Passed, Recorded
<1>6. Passed(check)'
  <2>1. CASE Skipped(check)
    <3>1. CASE check \in ByTable /\ Listed = {}
      <4>1. 4 \in 1 .. done /\ Checks[4] = "table"
        BY <3>1, <1>0, <1>1, CheckOrder DEF Checks
      <4>2. Passed("table")
        BY <4>1 DEF EdgeInv
      <4>3. Failed
        BY <4>2, <3>1 DEF Passed, Agrees, Holds
      <4> QED
        BY <4>3, <1>3 DEF Passed
    <3>2. CASE check \in ByPart /\ ~Recorded("structure", "VERIFIED")
      <4>1. done >= 3
        BY <3>2, <1>0, <1>1, CheckOrder
      <4>2. Failed
        BY <4>1, <3>2 DEF EdgeInv
      <4> QED
        BY <4>2, <1>3 DEF Passed
    <3>3. CASE check \in Silent /\ Holds(check)
      BY <3>3, <1>1, HoldsAgrees, AgreesStays DEF Passed
    <3> QED
      BY <2>1, <3>1, <3>2, <3>3 DEF Skipped
  <2>2. CASE ~Skipped(check)
    <3>1. CASE Outcome(check) = "VERIFIED"
      <4>1. Holds(check)
        BY <3>1 DEF Outcome
      <4> QED
        BY <4>1, <1>1, HoldsAgrees, AgreesStays DEF Passed
    <3>2. CASE Outcome(check) = "FAILED"
      <4>1. Failed'
        BY <2>2, <3>2, <1>4 DEF Failed
      <4> QED
        BY <4>1 DEF Passed
    <3>3. CASE Outcome(check) = "NOT CHECKED"
      <4>1. check = "engine"
        BY <3>3 DEF Outcome
      <4>2. Recorded("engine", "NOT CHECKED")'
        BY <2>2, <3>3, <4>1, <1>4 DEF Recorded
      <4> QED
        BY <4>1, <4>2 DEF Passed
    <3> QED
      BY <3>1, <3>2, <3>3 DEF Outcome
  <2> QED
    BY <2>1, <2>2
<1>7. (done >= 3 => Recorded("structure", "VERIFIED") \/ Failed)'
  <2>1. CASE done >= 3
    BY <2>1, <1>2, <1>3 DEF EdgeInv, Recorded
  <2>2. CASE done = 2
    <3>1. check = "structure"
      BY <2>2, <1>0 DEF Checks
    <3>2. ~Skipped(check)
      BY <3>1 DEF Skipped, ByTable, ByPart, Silent
    <3>3. Outcome(check) \in {"VERIFIED", "FAILED"}
      BY <3>1 DEF Outcome
    <3> QED
      BY <3>1, <3>2, <3>3, <1>4 DEF Recorded, Failed
  <2> QED
    BY <2>1, <2>2, <1>1
<1>8. \A i \in 1 .. done' : Passed(Checks[i])'
  <2> SUFFICES ASSUME NEW i \in 1 .. done' PROVE Passed(Checks[i])'
    OBVIOUS
  <2>1. i \in 1 .. done \/ i = done + 1
    BY <1>1
  <2> QED
    BY <2>1, <1>0, <1>5, <1>6
<1>9. done' \in 0 .. Len(Checks)
  BY <1>1, ChecksLength
<1> QED
  BY <1>1, <1>7, <1>8, <1>9 DEF EdgeInv

LEMMA FinishInv ==
  ASSUME EdgeInv, Finish PROVE EdgeInv'
<1>1. UNCHANGED <<input, done, results>> /\ exit' = ExitCode(results)
  BY DEF Finish
<1>2. \A i \in 1 .. done : Passed(Checks[i])'
  BY <1>1, AgreesStays DEF EdgeInv, Passed, Failed, Recorded
<1>3. ExitCode(results)' = ExitCode(results)
  BY <1>1 DEF ExitCode
<1>4. done = Len(Checks) \/ Failed
  BY DEF Finish, Recorded, Failed
<1> QED
  BY <1>1, <1>2, <1>3, <1>4 DEF EdgeInv, Failed, Recorded

\* What the checks have established so far, at every step of the checker.
THEOREM EdgeInvariant == Spec => []EdgeInv
<1>1. Init => EdgeInv
  BY ChecksLength DEF Init, EdgeInv
<1>2. EdgeInv /\ [Next]_vars => EdgeInv'
  <2> SUFFICES ASSUME EdgeInv, [Next]_vars PROVE EdgeInv'
    OBVIOUS
  <2>1. CASE UNCHANGED vars
    <3>1. \A i \in 1 .. done : Passed(Checks[i])'
      BY <2>1, AgreesStays DEF EdgeInv, Passed, Failed, Recorded, vars
    <3> QED
      BY <2>1, <3>1 DEF EdgeInv, Failed, Recorded, ExitCode, vars
  <2> QED
    BY <2>1, RunCheckInv, FinishInv DEF Next
<1> QED
  BY <1>1, <1>2, PTL DEF Spec

LEMMA InputTyped == Spec => [](input \in InputType)
<1>1. Init => input \in InputType
  BY EdgeAssumption DEF Init
<1>2. input \in InputType /\ [Next]_vars => (input \in InputType)'
  BY DEF Next, RunCheck, Finish, vars
<1> QED
  BY <1>1, <1>2, PTL DEF Spec

\* Exit 0 or 2: every check but the engine's agrees; exit 0: that one too.
LEMMA ExitMeansAgreement ==
  ASSUME EdgeInv, exit \in {0, 2}
  PROVE  /\ \A i \in 1 .. 15 : Agrees(Checks[i])
         /\ exit = 0 => Agrees("engine")
<1>1. exit = ExitCode(results) /\ (done = 16 \/ Failed)
  BY ChecksLength DEF EdgeInv, None
<1>2. ~Failed
  <2>1. Failed => ExitCode(results) = 1
    BY DEF ExitCode, Failed
  <2> QED
    BY <2>1, <1>1
<1>3. \A i \in 1 .. 16 : Passed(Checks[i])
  <2>1. \A i \in 1 .. done : Passed(Checks[i])
    BY DEF EdgeInv
  <2> QED
    BY <2>1, <1>1, <1>2
<1>4. \A i \in 1 .. 15 : Checks[i] # "engine"
  <2> SUFFICES ASSUME NEW i \in 1 .. 15 PROVE Checks[i] # "engine"
    OBVIOUS
  <2>1. i \in {1, 2, 3, 4, 5} \/ i \in {6, 7, 8, 9, 10} \/ i \in {11, 12, 13, 14, 15}
    OBVIOUS
  <2> QED
    BY <2>1 DEF Checks
<1>5. \A i \in 1 .. 15 : Agrees(Checks[i])
  <2> SUFFICES ASSUME NEW i \in 1 .. 15 PROVE Agrees(Checks[i])
    OBVIOUS
  <2>1. Passed(Checks[i]) /\ Checks[i] # "engine"
    BY <1>3, <1>4
  <2> QED
    BY <2>1, <1>2 DEF Passed
<1>6. ASSUME exit = 0 PROVE Agrees("engine")
  <2>1. Checks[16] = "engine"
    BY DEF Checks
  <2>2. ~Recorded("engine", "NOT CHECKED")
    <3>1. ASSUME Recorded("engine", "NOT CHECKED") PROVE FALSE
      <4>1. \E r \in results : r[2] = "NOT CHECKED"
        BY <3>1 DEF Recorded
      <4>2. ExitCode(results) \in {1, 2}
        BY <4>1 DEF ExitCode
      <4> QED
        BY <4>2, <1>1, <1>6
    <3> QED
      BY <3>1
  <2>3. Passed("engine")
    BY <2>1, <1>3
  <2> QED
    BY <2>2, <2>3, <1>2 DEF Passed
<1> QED
  BY <1>5, <1>6

\* The checks the properties rest on, one by one.
LEMMA ExitMeansChecked ==
  ASSUME EdgeInv, exit \in {0, 2}
  PROVE  /\ Holds("router") /\ Holds("table") /\ Holds("notes") /\ Holds("auth")
         /\ Holds("outbound") /\ Holds("attributed") /\ Holds("calls")
         /\ Holds("calledBy") /\ input.env \subseteq input.named
         /\ exit = 0 => Holds("engine")
<1> DEFINE Names == {Checks[i] : i \in 1 .. 15}
<1>1. \A c \in Names : Agrees(c)
  BY ExitMeansAgreement
<1>2. /\ Checks[2] = "router" /\ Checks[4] = "table" /\ Checks[6] = "notes"
      /\ Checks[7] = "auth" /\ Checks[9] = "outbound" /\ Checks[10] = "attributed"
      /\ Checks[11] = "calls" /\ Checks[12] = "env" /\ Checks[14] = "calledBy"
  BY DEF Checks
<1>3. {"router", "table", "notes", "auth", "outbound", "attributed", "calls",
       "env", "calledBy"} \subseteq Names
  BY <1>2
<1> HIDE DEF Names
<1>4. Holds("router") /\ Holds("table") /\ Holds("notes") /\ Holds("auth")
  BY <1>1, <1>3 DEF Agrees
<1>5. Holds("outbound") /\ Holds("attributed") /\ Holds("calls") /\ Holds("calledBy")
  BY <1>1, <1>3 DEF Agrees
<1>6. input.env \subseteq input.named
  BY <1>1, <1>3 DEF Agrees
<1>7. exit = 0 => Holds("engine")
  BY ExitMeansAgreement DEF Agrees
<1> QED
  BY <1>4, <1>5, <1>6, <1>7

\* When nothing failed, the README lists exactly the routes that are served,
\* and as public exactly those served without a token, a route in braces
\* apart, which needs one whatever the script has its row say.
THEOREM EdgesServed == Spec => []ServedAsDocumented
<1>1. input \in InputType /\ EdgeInv => ServedAsDocumented
  <2> SUFFICES ASSUME input \in InputType, EdgeInv, exit \in {0, 2}
               PROVE  /\ Served = {p \in Listed : ~(p = Brace /\ input.broken)}
                      /\ Open = {p \in Served \ {Brace} : input.rows[p] = "Public"}
    BY DEF ServedAsDocumented
  <2>1. input.unread = {} /\ Listed = input.routes
    BY ExitMeansChecked DEF Holds
  <2>2. NoteHolds /\ AuthHolds
    BY ExitMeansChecked DEF Holds
  <2>3. ASSUME Brace \in input.routes PROVE input.lock = "0.8" <=> ~input.broken
    BY <2>1, <2>2, <2>3 DEF NoteHolds, InputType
  <2>4. Served = {p \in Listed : ~(p = Brace /\ input.broken)}
    BY <2>1, <2>3 DEF Served
  <2>5. Open = {p \in Served \ {Brace} : p \in input.public}
    BY <2>1, <2>2 DEF Open, AuthHolds, Served
  <2>6. \A p \in Served : input.rows[p] = "Public" <=> p \in input.public
    BY <2>1, <2>2 DEF AuthHolds, Served
  <2> QED
    BY <2>4, <2>5, <2>6
<1>2. Spec => []EdgeInv
  BY EdgeInvariant
<1>3. Spec => [](input \in InputType)
  BY InputTyped
<1> QED
  BY <1>1, <1>2, <1>3, PTL

\* When nothing failed, the README names the variables and the requests, but
\* for what a URL mentioned more often than requested makes room for.
THEOREM EdgesCalled == Spec => []CallsAsDocumented
<1>1. input \in InputType /\ EdgeInv => CallsAsDocumented
  <2> SUFFICES ASSUME input \in InputType, EdgeInv, exit \in {0, 2}
               PROVE  /\ ~input.other /\ input.env \subseteq input.named
                      /\ (\A m \in Calls : input.mentions[m] <= input.sends[m]) =>
                            /\ input.elsewhere = 0
                            /\ {m \in Calls : input.sends[m] > 0} = input.calls
    BY DEF CallsAsDocumented
  <2>1. /\ Attributed /\ input.unclear = 0 /\ Mentioned = input.calls
        /\ ~input.other /\ input.env \subseteq input.named
    BY ExitMeansChecked DEF Holds
  <2> SUFFICES ASSUME \A m \in Calls : input.mentions[m] <= input.sends[m]
               PROVE  /\ input.elsewhere = 0
                      /\ {m \in Calls : input.sends[m] > 0} = input.calls
    BY <2>1
  <2>2. PICK mg, mp, sg, sp, e :
           /\ mg = input.mentions["GET"] /\ mp = input.mentions["POST"]
           /\ sg = input.sends["GET"] /\ sp = input.sends["POST"]
           /\ e = input.elsewhere
    OBVIOUS
  <2>3. mg \in Nat /\ mp \in Nat /\ sg \in Nat /\ sp \in Nat /\ e \in Nat
    BY <2>2 DEF InputType, Calls
  <2>4. mg <= sg /\ mp <= sp
    BY <2>2 DEF Calls
  <2>5. sg + sp + e = mg + mp + 0
    BY <2>1, <2>2 DEF Attributed
  <2>6. e = 0 /\ sg = mg /\ sp = mp
    BY <2>3, <2>4, <2>5
  <2>7. \A m \in Calls : input.sends[m] = input.mentions[m]
    BY <2>2, <2>6 DEF Calls
  <2> QED
    BY <2>1, <2>2, <2>6, <2>7 DEF Mentioned
<1>2. Spec => []EdgeInv
  BY EdgeInvariant
<1>3. Spec => [](input \in InputType)
  BY InputTyped
<1> QED
  BY <1>1, <1>2, <1>3, PTL

\* Exit code 0 says that what the README and the caller's source call is
\* served.
THEOREM EdgesCallers == Spec => []CallersServed
<1>1. input \in InputType /\ EdgeInv => CallersServed
  <2> SUFFICES ASSUME input \in InputType, EdgeInv, exit = 0
               PROVE  /\ input.engine = "checkout"
                      /\ input.calledBy # {} /\ input.calledBy \subseteq input.builds
                      /\ input.calledBy \cup input.builds \subseteq Served
    BY DEF CallersServed
  <2>1. EngineHolds
    BY ExitMeansChecked DEF Holds
  <2>2. input.calledBy # {}
    BY ExitMeansChecked DEF Holds
  <2>3. Brace \notin input.builds
    BY DEF InputType, EnginePaths, Brace, Prove
  <2> QED
    BY <2>1, <2>2, <2>3 DEF EngineHolds, Served
<1>2. Spec => []EdgeInv
  BY EdgeInvariant
<1>3. Spec => [](input \in InputType)
  BY InputTyped
<1> QED
  BY <1>1, <1>2, <1>3, PTL
-----------------------------------------------------------------------------
(* The type invariant. *)

\* No check is made twice.
LEMMA ChecksDistinct ==
  \A i, j \in 1 .. 16 : Checks[i] = Checks[j] => i = j
  BY DEF Checks

\* What is recorded was recorded by a check behind the script.
TypeInv ==
    /\ TypeOK
    /\ \A r \in results : \E i \in 1 .. done : r[1] = Checks[i]
    /\ Recorded("structure", "VERIFIED") => input.parts

LEMMA RunCheckTypes ==
  ASSUME TypeInv, RunCheck PROVE TypeInv'
<1>1. PICK check : check = Checks[done + 1]
  OBVIOUS
<1>2. PICK r : r = <<check, Outcome(check)>>
  OBVIOUS
<1>3. /\ done \in 0 .. 15 /\ done' = done + 1 /\ UNCHANGED <<input, exit>>
      /\ r[1] = check /\ Listed' = Listed
  BY <1>2, ChecksLength DEF TypeInv, TypeOK, RunCheck, Listed
<1>4. CASE results' = results
  <2>1. \A q \in results : \E i \in 1 .. done' : q[1] = Checks[i]
    BY <1>3 DEF TypeInv
  <2> QED
    BY <1>3, <1>4, <2>1, ChecksLength DEF TypeInv, TypeOK, Recorded
<1>5. ASSUME ~Skipped(check), results' = results \cup {r} PROVE TypeInv'
  <2>1. \A q \in results : q[1] # check
    BY <1>1, <1>3, ChecksDistinct DEF TypeInv
  <2>2. \A p, q \in results' : p[1] = q[1] => p = q
    BY <1>3, <1>5, <2>1 DEF TypeInv, TypeOK
  <2>3. \A q \in results' : \E i \in 1 .. done' : q[1] = Checks[i]
    BY <1>1, <1>3, <1>5 DEF TypeInv
  <2>4. check = "structure" /\ Outcome(check) = "VERIFIED" => input.parts
    BY DEF Outcome, Holds
  <2>5. Recorded("structure", "VERIFIED")' => input'.parts
    BY <1>2, <1>3, <1>5, <2>4 DEF TypeInv, Recorded
  <2>6. check \in ByPart => input.parts
    BY <1>5 DEF Skipped, TypeInv
  <2>7. check \in ByTable => Listed # {}
    BY <1>5 DEF Skipped
  <2>8. /\ \A q \in results' : q[1] \in ByPart => input'.parts
        /\ \A q \in results' : q[1] \in ByTable => Listed' # {}
    BY <1>3, <1>5, <2>6, <2>7 DEF TypeInv, TypeOK
  <2>9. done' \in 0 .. Len(Checks) /\ exit' \in {0, 1, 2, None}
    BY <1>3, ChecksLength DEF TypeInv, TypeOK
  <2> QED
    BY <2>2, <2>3, <2>5, <2>8, <2>9 DEF TypeInv, TypeOK
<1> QED
  BY <1>1, <1>2, <1>4, <1>5 DEF RunCheck

LEMMA TypesInvariant == Spec => []TypeInv
<1>1. Init => TypeInv
  BY ChecksLength DEF Init, TypeInv, TypeOK, Recorded
<1>2. TypeInv /\ Finish => TypeInv'
  BY DEF Finish, TypeInv, TypeOK, Recorded, Listed, ExitCode
<1>3. TypeInv /\ UNCHANGED vars => TypeInv'
  BY DEF vars, TypeInv, TypeOK, Recorded, Listed
<1>4. TypeInv /\ [Next]_vars => TypeInv'
  BY <1>2, <1>3, RunCheckTypes DEF Next
<1> QED
  BY <1>1, <1>4, PTL DEF Spec

\* Nothing is recorded twice, and nothing about a part of the README that was
\* not found.
THEOREM EdgeTypes == Spec => []TypeOK
<1>1. TypeInv => TypeOK
  BY DEF TypeInv
<1> QED
  BY <1>1, TypesInvariant, PTL
-----------------------------------------------------------------------------
(* The exit code as a function of the files. *)

Justified(r) ==
    /\ r[2] = "FAILED" => ~Demand(r[1])
    /\ r[2] = "NOT CHECKED" => input.engine = "unset"

\* What is recorded agrees with what the files satisfy: a check failed only
\* if they do not meet its demand, one behind the script that recorded no
\* failure was met or something failed, and the engine's was not made exactly
\* when there is no caller.
DemandInv ==
    /\ TypeInv
    /\ \A r \in results : Justified(r)
    /\ \A i \in 1 .. done : Demand(Checks[i]) \/ Failed
    /\ done >= 3 /\ input.parts => Recorded("structure", "VERIFIED")
    /\ done = 16 /\ input.engine = "unset" => Recorded("engine", "NOT CHECKED")

\* Nothing in the files changes.
LEMMA DemandStays ==
  ASSUME NEW check, UNCHANGED input
  PROVE  Demand(check)' <=> Demand(check)
<1>1. CASE check = "env"
  BY <1>1 DEF Demand
<1>2. CASE check # "env"
  <2>1. /\ Listed' = Listed /\ Attributed' = Attributed
        /\ Mentioned' = Mentioned /\ EngineHolds' = EngineHolds
    BY DEF Listed, Attributed, Mentioned, EngineHolds
  <2>2. NoteHolds' = NoteHolds /\ AuthHolds' = AuthHolds
    BY <2>1 DEF NoteHolds, AuthHolds
  <2>3. Holds(check)' <=> Holds(check)
    BY <1>2, <2>1, <2>2 DEF Holds
  <2> QED
    BY <1>2, <2>3 DEF Demand
<1> QED
  BY <1>1, <1>2

\* The twelfth check is the only one that reads what was recorded, and the
\* last is the engine's.
LEMMA CheckPlaces ==
  \A i \in 1 .. 16 :
      /\ Checks[i] = "env" <=> i = 12
      /\ Checks[i] = "engine" <=> i = 16
      /\ Checks[i] = "structure" <=> i = 3
      /\ Checks[i] = "table" <=> i = 4
<1>1. /\ Checks[12] = "env" /\ Checks[16] = "engine"
      /\ Checks[3] = "structure" /\ Checks[4] = "table"
  BY DEF Checks
<1> QED
  BY <1>1, ChecksDistinct

\* A check that is made passes exactly when its demand is met.
LEMMA HoldsIsDemand ==
  ASSUME DemandInv, done \in 0 .. 15, Checks[done + 1] # "engine" \/ input.engine # "unset"
  PROVE  Holds(Checks[done + 1]) <=> Demand(Checks[done + 1])
<1>0. PICK check : check = Checks[done + 1]
  OBVIOUS
<1>1. CASE check = "env"
  <2>1. done >= 3
    <3>1. done + 1 \in 1 .. 16
      OBVIOUS
    <3>2. done + 1 = 12
      BY <1>0, <1>1, <3>1, CheckPlaces
    <3> QED
      BY <3>2
  <2>2. Recorded("structure", "VERIFIED") <=> input.parts
    BY <2>1 DEF DemandInv, TypeInv
  <2>3. /\ Holds("env") <=> /\ input.env \subseteq input.named
                            /\ Recorded("structure", "VERIFIED") =>
                                  input.env \cap {"SUPABASE_URL"} \subseteq input.inCalls
    BY DEF Holds
  <2> QED
    BY <1>0, <1>1, <2>2, <2>3 DEF Demand
<1>2. CASE check # "env"
  BY <1>0, <1>2 DEF Demand
<1> QED
  BY <1>0, <1>1, <1>2

\* What a check that is passed over wanted to read was missed by an earlier
\* check, or the demand is met.
LEMMA SkippedDemand ==
  ASSUME DemandInv, done \in 0 .. 15, Skipped(Checks[done + 1])
  PROVE  Demand(Checks[done + 1]) \/ Failed
<1>0. PICK check : check = Checks[done + 1]
  OBVIOUS
<1>1. CASE check \in ByTable /\ Listed = {}
  <2>1. 4 \in 1 .. done /\ Checks[4] = "table"
    BY <1>0, <1>1, CheckOrder DEF Checks
  <2>2. ~Demand("table")
    BY <1>1 DEF Demand, Holds
  <2> QED
    BY <2>1, <2>2 DEF DemandInv
<1>2. CASE check \in ByPart /\ ~Recorded("structure", "VERIFIED")
  <2>1. 3 \in 1 .. done /\ Checks[3] = "structure"
    BY <1>0, <1>2, CheckOrder DEF Checks
  <2>2. ~input.parts
    <3>1. done >= 3
      BY <2>1
    <3> QED
      BY <1>2, <3>1 DEF DemandInv
  <2>3. ~Demand("structure")
    BY <2>2 DEF Demand, Holds
  <2> QED
    BY <2>1, <2>3 DEF DemandInv
<1>3. CASE check \in Silent /\ Holds(check)
  <2>1. check # "env"
    BY <1>3 DEF Silent
  <2> QED
    BY <1>0, <1>3, <2>1 DEF Demand
<1> QED
  BY <1>0, <1>1, <1>2, <1>3 DEF Skipped

LEMMA RunCheckDemand ==
  ASSUME DemandInv, RunCheck PROVE DemandInv'
<1>0. PICK check : check = Checks[done + 1]
  OBVIOUS
<1>1. /\ done \in 0 .. 15 /\ done' = done + 1 /\ UNCHANGED <<input, exit>>
  <2>1. TypeOK
    BY DEF DemandInv, TypeInv
  <2> QED
    BY <2>1, ChecksLength DEF TypeOK, RunCheck
<1>2. results' = IF Skipped(check) THEN results
                 ELSE results \cup {<<check, Outcome(check)>>}
  BY <1>0 DEF RunCheck
<1>3. TypeInv'
  BY RunCheckTypes DEF DemandInv
<1>4. results \subseteq results' /\ (Failed => Failed')
  BY <1>2 DEF Failed
<1>5. \A c : Demand(c)' <=> Demand(c)
  BY <1>1, DemandStays
<1>6. CASE Skipped(check)
  <2>1. Demand(check) \/ Failed
    BY <1>0, <1>1, <1>6, SkippedDemand
  <2>2. \A i \in 1 .. done' : Demand(Checks[i]) \/ Failed
    <3> SUFFICES ASSUME NEW i \in 1 .. done' PROVE Demand(Checks[i]) \/ Failed
      OBVIOUS
    <3>1. i \in 1 .. done \/ i = done + 1
      BY <1>1
    <3> QED
      BY <1>0, <2>1, <3>1 DEF DemandInv
  <2>3. check # "structure" /\ check # "engine"
    BY <1>6 DEF Skipped, ByTable, ByPart, Silent
  <2>4. done' # 3 /\ done' # 16
    BY <1>0, <1>1, <2>3, CheckPlaces
  <2>5. done' >= 3 /\ input.parts => Recorded("structure", "VERIFIED")
    <3>1. done' >= 3 => done >= 3
      BY <1>1, <2>4
    <3> QED
      BY <3>1 DEF DemandInv
  <2>6. results' = results
    BY <1>2, <1>6
  <2>7. (\A r \in results : Justified(r))'
    <3>1. \A r : Justified(r)' <=> Justified(r)
      BY <1>1, <1>5 DEF Justified
    <3> QED
      BY <2>6, <3>1 DEF DemandInv
  <2>8. (\A i \in 1 .. done : Demand(Checks[i]) \/ Failed)'
    BY <1>5, <2>2, <2>6 DEF Failed
  <2> QED
    BY <1>1, <1>3, <2>4, <2>5, <2>6, <2>7, <2>8 DEF DemandInv, Recorded
<1>7. CASE ~Skipped(check)
  <2>1. results' = results \cup {<<check, Outcome(check)>>}
    BY <1>2, <1>7
  <2>2. /\ Outcome(check) = "FAILED" => ~Demand(check)
        /\ Outcome(check) = "NOT CHECKED" => input.engine = "unset"
        /\ Demand(check) \/ Outcome(check) = "FAILED"
    <3>1. CASE check = "engine" /\ input.engine = "unset"
      BY <3>1 DEF Outcome, Demand
    <3>2. CASE ~(check = "engine" /\ input.engine = "unset")
      BY <1>0, <1>1, <3>2, HoldsIsDemand DEF Outcome
    <3> QED
      BY <3>1, <3>2
  <2>3. \A q : q = <<check, Outcome(check)>> => q[1] = check /\ q[2] = Outcome(check)
    OBVIOUS
  <2>4. \A r \in results' : Justified(r)
    <3>1. Justified(<<check, Outcome(check)>>)
      BY <2>2, <2>3 DEF Justified
    <3> QED
      BY <2>1, <3>1 DEF DemandInv
  <2>5. Demand(check) \/ Failed'
    BY <2>1, <2>2, <2>3 DEF Failed
  <2>6. \A i \in 1 .. done' : Demand(Checks[i]) \/ Failed'
    <3> SUFFICES ASSUME NEW i \in 1 .. done' PROVE Demand(Checks[i]) \/ Failed'
      OBVIOUS
    <3>1. i \in 1 .. done \/ i = done + 1
      BY <1>1
    <3> QED
      BY <1>0, <1>4, <2>5, <3>1 DEF DemandInv
  <2>7. done' >= 3 /\ input.parts => Recorded("structure", "VERIFIED")'
    <3>1. CASE done >= 3
      BY <1>4, <3>1 DEF DemandInv, Recorded
    <3>2. CASE done = 2
      <4>1. check = "structure"
        BY <1>0, <3>2 DEF Checks
      <4>2. input.parts => Outcome(check) = "VERIFIED"
        BY <4>1 DEF Outcome, Holds
      <4> QED
        BY <2>1, <4>1, <4>2 DEF Recorded
    <3> QED
      BY <1>1, <3>1, <3>2
  <2>8. done' = 16 /\ input.engine = "unset" => Recorded("engine", "NOT CHECKED")'
    <3> SUFFICES ASSUME done' = 16, input.engine = "unset"
                 PROVE  Recorded("engine", "NOT CHECKED")'
      OBVIOUS
    <3>1. check = "engine"
      BY <1>0, <1>1, CheckPlaces
    <3>2. Outcome(check) = "NOT CHECKED"
      BY <3>1 DEF Outcome
    <3> QED
      BY <2>1, <3>1, <3>2 DEF Recorded
  <2>9. (\A r \in results : Justified(r))'
    <3>1. \A r : Justified(r)' <=> Justified(r)
      BY <1>1, <1>5 DEF Justified
    <3> QED
      BY <2>4, <3>1
  <2>10. (\A i \in 1 .. done : Demand(Checks[i]) \/ Failed)'
    BY <1>5, <2>6
  <2>11. (done >= 3 /\ input.parts => Recorded("structure", "VERIFIED"))'
    BY <1>1, <2>7
  <2>12. (done = 16 /\ input.engine = "unset" => Recorded("engine", "NOT CHECKED"))'
    BY <1>1, <2>8
  <2> QED
    BY <1>3, <2>9, <2>10, <2>11, <2>12 DEF DemandInv
<1> QED
  BY <1>6, <1>7

LEMMA DemandInvariant == Spec => []DemandInv
<1>1. Init => DemandInv
  BY ChecksLength DEF Init, DemandInv, TypeInv, TypeOK, Recorded
<1>2. ASSUME DemandInv, UNCHANGED <<input, done, results>>, TypeInv' PROVE DemandInv'
  <2>1. \A r : Justified(r)' <=> Justified(r)
    BY <1>2, DemandStays DEF Justified
  <2> QED
    BY <1>2, <2>1, DemandStays DEF DemandInv, Recorded, Failed
<1>3. DemandInv /\ Finish => DemandInv'
  <2>1. TypeInv /\ Finish => TypeInv'
    BY DEF Finish, TypeInv, TypeOK, Recorded, Listed, ExitCode
  <2> QED
    BY <1>2, <2>1 DEF Finish, DemandInv
<1>4. DemandInv /\ UNCHANGED vars => DemandInv'
  <2>1. TypeInv /\ UNCHANGED vars => TypeInv'
    BY DEF vars, TypeInv, TypeOK, Recorded, Listed
  <2> QED
    BY <1>2, <2>1 DEF vars, DemandInv
<1>5. DemandInv /\ [Next]_vars => DemandInv'
  BY <1>3, <1>4, RunCheckDemand DEF Next
<1> QED
  BY <1>1, <1>5, PTL DEF Spec

\* The exit code is a function of the files: neither the checks that were
\* passed over nor those not made have any part in it.
THEOREM EdgesDecided == Spec => []ExitDecidedByFiles
<1>1. EdgeInv /\ DemandInv => ExitDecidedByFiles
  <2> SUFFICES ASSUME EdgeInv, DemandInv, exit # None
               PROVE  exit = IF \E i \in 1 .. 16 : ~Demand(Checks[i]) THEN 1
                             ELSE IF input.engine = "unset" THEN 2 ELSE 0
    BY ChecksLength DEF ExitDecidedByFiles
  <2>1. exit = ExitCode(results) /\ (done = 16 \/ Failed) /\ done \in 0 .. 16
    BY ChecksLength DEF EdgeInv
  <2>2. CASE Failed
    <3>1. PICK r \in results : r[2] = "FAILED"
      BY <2>2 DEF Failed
    <3>2. PICK i \in 1 .. done : r[1] = Checks[i]
      BY DEF DemandInv, TypeInv
    <3>3. ~Demand(Checks[i])
      BY <3>1, <3>2 DEF DemandInv, Justified
    <3>4. i \in 1 .. 16
      BY <2>1
    <3>5. ExitCode(results) = 1
      BY <3>1 DEF ExitCode
    <3> QED
      BY <2>1, <3>3, <3>4, <3>5
  <2>3. CASE ~Failed
    <3>1. \A i \in 1 .. 16 : Demand(Checks[i])
      BY <2>1, <2>3 DEF DemandInv
    <3>2. (\E r \in results : r[2] = "NOT CHECKED") <=> input.engine = "unset"
      <4>1. \A x, y : <<x, y>>[2] = y
        OBVIOUS
      <4> QED
        BY <2>1, <2>3, <4>1 DEF DemandInv, Justified, Recorded
    <3>3. ExitCode(results) = IF input.engine = "unset" THEN 2 ELSE 0
      BY <2>3, <3>2 DEF ExitCode, Failed
    <3> QED
      BY <2>1, <3>1, <3>3
  <2> QED
    BY <2>2, <2>3
<1> QED
  BY <1>1, EdgeInvariant, DemandInvariant, PTL
=============================================================================
