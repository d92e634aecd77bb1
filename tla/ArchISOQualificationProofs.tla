--------------------- MODULE ArchISOQualificationProofs ---------------------
(***************************************************************************)
(* Theorems of ArchISOQualification for any snapshots, packages and length *)
(* of history: types, what an accepted bundle is, and what is accepted.    *)
(*                                                                         *)
(* The invariant has three groups: the types with what has been made at    *)
(* all, the parts that are not stale, and the scenarios of the report.     *)
(***************************************************************************)
EXTENDS ArchISOQualification, TLAPS

Scenario == [passed : BOOLEAN, before : Snapshot, after : Snapshot]

Report == [lock : Lock, image : Lock,
           initial : OrNone(Snapshot, None), update : OrNone(Snapshot, None),
           scenarios : Seq(Scenario)]

Machine == [at : OrNone(Snapshot, None), before : OrNone(Snapshot, None)]

\* What is made of something is made only when that is there, and so names a
\* snapshot; a report is of one image, and of the lock that image is from.
MadeInv ==
    /\ mirror \in Snapshot
    /\ packages \in OrNone(Selection, NoSelection)
    /\ database \in OrNone(Snapshot, None)
    /\ sbom \in OrNone(Selection, NoSelection)
    /\ provenance \in OrNone(Selection, NoSelection)
    /\ lock \in Lock /\ image \in Lock /\ hashed \in Lock
    /\ report \in Report
    /\ machine \in Machine
    /\ changes \in 0..MaxChanges
    /\ restored \in BOOLEAN
    /\ packages # NoSelection => database \in Snapshot
    /\ lock # NoLock => lock.snapshot \in Snapshot
    /\ image # NoLock => image.snapshot \in Snapshot
    /\ report.image = report.lock
    /\ report # NoReport => report.initial \in Snapshot /\ machine.at \in Snapshot

\* A part that is not stale is made of the others as they are.
FreshInv ==
    /\ "packages" \notin stale => /\ packages.snapshot = database
                                  /\ database \in Snapshot
    /\ "sbom" \notin stale => sbom = packages
    /\ "provenance" \notin stale => provenance = packages
    /\ "lock" \notin stale => lock = [snapshot |-> database, packages |-> packages,
                                      sbom |-> sbom, provenance |-> provenance]
    /\ "image" \notin stale => image = lock
    /\ "report" \notin stale => /\ report.image = image
                                /\ report.initial = image.snapshot

\* The scenarios run so far. Whichever machine runs one, it starts from the
\* locked snapshot until the update, and then from there or from the update.
ScenariosInv ==
    LET runs == report.scenarios
    IN  /\ Len(runs) <= 5
        /\ Len(runs) <= 3 => machine.at = report.initial
        /\ \A i \in 1..3 : i <= Len(runs) =>
              runs[i].before = report.initial /\ runs[i].after = report.initial
        /\ Len(runs) >= 4 => /\ runs[4].before = report.initial
                             /\ runs[4].after = report.update
                             /\ report.update \in Snapshot
        /\ Len(runs) = 4 => machine.at \in {report.initial, report.update}
        /\ Len(runs) = 5 => runs[5].before \in {report.initial, report.update}
        /\ restored <=> /\ Len(runs) = 5
                        /\ runs[5].before # report.initial
                        /\ runs[5].after = report.initial

QualificationInv == MadeInv /\ FreshInv /\ ScenariosInv

-----------------------------------------------------------------------------

LEMMA FiveScenarios ==
    /\ Len(Scenarios) = 5
    /\ Scenarios[4] = "update" /\ Scenarios[5] = "rollback"
    /\ \A i \in 1..3 : Scenarios[i] \notin {"update", "rollback"}
BY DEF Scenarios

\* The values that stand for nothing made yet are no others.
LEMMA Nothing ==
    /\ NoSelection.snapshot = None /\ NoLock.snapshot = None
    /\ NoLock \in Lock /\ NoReport \in Report /\ NoMachine \in Machine
    /\ NoReport.image = NoLock /\ NoReport.lock = NoLock
    /\ NoReport.initial = None /\ NoReport.scenarios = << >>
    /\ NoMachine.at = None
BY DEF NoSelection, NoLock, NoReport, NoMachine, Lock, Report, Machine, OrNone

LEMMA InitQualification == Init => QualificationInv
<1> SUFFICES ASSUME Init PROVE QualificationInv
  OBVIOUS
<1>1. MadeInv
  <2>1. /\ mirror \in Snapshot /\ packages = NoSelection /\ database = None
        /\ sbom = NoSelection /\ provenance = NoSelection
        /\ lock = NoLock /\ image = NoLock /\ hashed = NoLock
        /\ report = NoReport /\ machine = NoMachine
        /\ changes = 0 /\ restored = FALSE
    BY DEF Init
  <2>2. 0 \in 0..MaxChanges
    BY QualificationAssumption
  <2>3. report \in Report /\ report.image = report.lock /\ machine \in Machine
    BY <2>1, Nothing
  <2>4. lock \in Lock /\ image \in Lock /\ hashed \in Lock
    BY <2>1, Nothing
  <2>5. QED
    BY <2>1, <2>2, <2>3, <2>4 DEF MadeInv, OrNone
<1>2. FreshInv
  BY DEF Init, FreshInv
<1>3. ScenariosInv
  BY Nothing DEF Init, ScenariosInv
<1>4. QED
  BY <1>1, <1>2, <1>3 DEF QualificationInv

LEMMA MakeQualification ==
    ASSUME QualificationInv, MoveMirror \/ Select \/ Refresh \/ Make
    PROVE  QualificationInv'
<1> USE DEF inputs, bundle, test, OrNone
<1>0. /\ UNCHANGED <<image, machine, report, restored, hashed>>
  BY DEF MoveMirror, Select, Refresh, Make, GenerateSBOM, GenerateProvenance,
         WriteLock
<1>1. ScenariosInv'
  BY <1>0 DEF QualificationInv, ScenariosInv
<1>2. CASE MoveMirror
  <2>1. MadeInv'
    BY <1>2, QualificationAssumption
    DEF MoveMirror, Change, QualificationInv, MadeInv
  <2>2. FreshInv'
    BY <1>2 DEF MoveMirror, QualificationInv, FreshInv
  <2>3. QED
    BY <1>1, <2>1, <2>2 DEF QualificationInv
<1>3. CASE Select
  <2>1. PICK names \in (SUBSET Package) \ {{}} :
           packages' = [names |-> names, snapshot |-> mirror]
    BY <1>3 DEF Select
  <2>2. packages' \in Selection /\ packages'.snapshot = mirror /\ mirror \in Snapshot
    BY <2>1 DEF QualificationInv, MadeInv, Selection
  <2>3. MadeInv'
    BY <1>0, <1>3, <2>2, QualificationAssumption
    DEF Select, Change, QualificationInv, MadeInv
  <2>4. FreshInv'
    BY <1>3, <2>2 DEF Select, FreshInv
  <2>5. QED
    BY <1>1, <2>3, <2>4 DEF QualificationInv
<1>4. CASE Refresh
  <2>1. MadeInv'
    BY <1>0, <1>4, QualificationAssumption
    DEF Refresh, Change, QualificationInv, MadeInv
  <2>2. FreshInv'
    BY <1>0, <1>4 DEF Refresh, QualificationInv, FreshInv
  <2>3. QED
    BY <1>1, <2>1, <2>2 DEF QualificationInv
<1>5. CASE GenerateSBOM \/ GenerateProvenance
  <2>1. MadeInv'
    BY <1>0, <1>5
    DEF GenerateSBOM, GenerateProvenance, QualificationInv, MadeInv
  <2>2. FreshInv'
    BY <1>0, <1>5
    DEF GenerateSBOM, GenerateProvenance, QualificationInv, FreshInv
  <2>3. QED
    BY <1>1, <2>1, <2>2 DEF QualificationInv
<1>6. CASE WriteLock
  <2>1. lock' \in Lock /\ lock'.snapshot = database /\ database \in Snapshot
    BY <1>6 DEF WriteLock, QualificationInv, MadeInv, Lock
  <2>2. MadeInv'
    BY <1>0, <1>6, <2>1 DEF WriteLock, QualificationInv, MadeInv
  <2>3. FreshInv'
    BY <1>0, <1>6 DEF WriteLock, QualificationInv, FreshInv
  <2>4. QED
    BY <1>1, <2>2, <2>3 DEF QualificationInv
<1>7. QED
  BY <1>2, <1>3, <1>4, <1>5, <1>6 DEF Make

\* One scenario: where it leaves the machine, and what the report then says.
LEMMA ScenarioQualification ==
    ASSUME QualificationInv, RunScenario
    PROVE  QualificationInv'
<1> USE DEF inputs, bundle, test, OrNone
<1> DEFINE runs == report.scenarios
           n == Len(runs)
<1>0. /\ MadeInv /\ FreshInv /\ ScenariosInv
      /\ UNCHANGED <<inputs, bundle, image, hashed, changes, stale>>
  BY DEF QualificationInv, RunScenario
<1>1. /\ report \in Report /\ report # NoReport /\ machine \in Machine
      /\ machine.at \in Snapshot /\ mirror \in Snapshot
      /\ runs \in Seq(Scenario) /\ n \in Nat /\ n < 5
  BY <1>0, FiveScenarios DEF MadeInv, RunScenario, Report
<1>n. n = Len(runs)
  OBVIOUS
<1> HIDE DEF n
<1>2. PICK after \in {machine.at, Target}, passed \in BOOLEAN :
         /\ machine' = [at |-> after,
                        before |-> IF NextScenario = "update" THEN machine.at
                                   ELSE machine.before]
         /\ report' =
                [report EXCEPT
                   !.update = IF NextScenario = "update" THEN after ELSE @,
                   !.scenarios = Append(@, [passed |-> passed,
                                            before |-> machine.at,
                                            after |-> after])]
         /\ restored' = (restored \/ /\ NextScenario = "rollback"
                                     /\ machine.at # report.initial
                                     /\ after = report.initial)
  BY DEF RunScenario
<1>3. /\ NextScenario = "update" <=> n = 3
      /\ NextScenario = "rollback" <=> n = 4
  <2>1. NextScenario = Scenarios[n + 1]
    BY <1>n DEF NextScenario
  <2>2. CASE n < 3
    <3>1. n + 1 \in 1..3
      BY <1>1, <2>2
    <3>2. Scenarios[n + 1] \notin {"update", "rollback"}
      BY <3>1, FiveScenarios
    <3>3. n # 3 /\ n # 4
      BY <1>1, <2>2
    <3>4. QED
      BY <2>1, <3>2, <3>3
  <2>3. CASE n = 3
    <3>1. NextScenario = "update"
      BY <2>1, <2>3, FiveScenarios
    <3>2. n # 4
      BY <2>3
    <3>3. QED
      BY <2>3, <3>1, <3>2
  <2>4. CASE n = 4
    <3>1. NextScenario = "rollback"
      BY <2>1, <2>4, FiveScenarios
    <3>2. n # 3
      BY <2>4
    <3>3. QED
      BY <2>4, <3>1, <3>2
  <2>5. n < 3 \/ n = 3 \/ n = 4
    BY <1>1
  <2>6. QED
    BY <2>2, <2>3, <2>4, <2>5
<1>4. /\ after \in Snapshot
      /\ n < 3 => after = machine.at
  <2>0. after = machine.at \/ after = Target
    BY <1>2
  <2>1. CASE NextScenario = "update"
    <3>1. Target = mirror
      BY <2>1 DEF Target
    <3>2. ~(n < 3)
      BY <1>1, <1>3, <2>1
    <3>3. QED
      BY <1>1, <2>0, <3>1, <3>2
  <2>2. CASE NextScenario = "rollback" /\ machine.before # None
    <3>1. machine.before \in Snapshot
      BY <1>1, <2>2 DEF Machine
    <3>2. Target = machine.before
      BY <2>2 DEF Target
    <3>3. ~(n < 3)
      BY <1>1, <1>3, <2>2
    <3>4. QED
      BY <1>1, <2>0, <3>1, <3>2, <3>3
  <2>3. CASE /\ NextScenario # "update"
             /\ ~(NextScenario = "rollback" /\ machine.before # None)
    <3>1. Target = machine.at
      BY <2>3 DEF Target
    <3>2. QED
      BY <1>1, <2>0, <3>1
  <2>4. QED
    BY <2>1, <2>2, <2>3
<1> DEFINE run == [passed |-> passed, before |-> machine.at, after |-> after]
<1>5. run \in Scenario
  BY <1>1, <1>4 DEF Scenario
<1>6. /\ report'.scenarios = Append(runs, run)
      /\ report'.update = IF n = 3 THEN after ELSE report.update
      /\ report'.initial = report.initial
      /\ report'.lock = report.lock /\ report'.image = report.image
  BY <1>1, <1>2, <1>3 DEF Report
<1>7. report' \in Report /\ machine' \in Machine /\ machine'.at = after
  <2>1. Append(runs, run) \in Seq(Scenario)
    BY <1>1, <1>5
  <2>2. \A x \in Snapshot \cup {None} : \A q \in Seq(Scenario) :
           [report EXCEPT !.update = x, !.scenarios = q] \in Report
    BY <1>1 DEF Report
  <2>3. /\ (IF n = 3 THEN after ELSE report.update) \in Snapshot \cup {None}
        /\ report' = [report EXCEPT
                        !.update = IF n = 3 THEN after ELSE report.update,
                        !.scenarios = Append(runs, run)]
    BY <1>1, <1>2, <1>3, <1>4 DEF Report
  <2>4. report' \in Report
    BY <2>1, <2>2, <2>3
  <2>5. machine' \in Machine /\ machine'.at = after
    BY <1>1, <1>2, <1>4 DEF Machine
  <2>6. QED
    BY <2>4, <2>5
<1>8. MadeInv'
  BY <1>0, <1>1, <1>2, <1>4, <1>6, <1>7 DEF MadeInv
<1>9. FreshInv'
  BY <1>0, <1>6 DEF FreshInv
<1>10. /\ Append(runs, run) \in Seq(Scenario)
       /\ Len(Append(runs, run)) = n + 1
       /\ Append(runs, run)[n + 1] = run
       /\ \A i \in 1..n : Append(runs, run)[i] = runs[i]
  BY <1>1, <1>5, <1>n
<1>11. run.before = machine.at /\ run.after = after
  OBVIOUS
<1> HIDE DEF run
<1>12. ScenariosInv'
  <2> DEFINE next == Append(runs, run)
  <2>1. /\ report'.scenarios = next /\ Len(next) = n + 1
        /\ next[n + 1] = run /\ \A i \in 1..n : next[i] = runs[i]
        /\ run.before = machine.at /\ run.after = after
        /\ report'.initial = report.initial
        /\ report'.update = IF n = 3 THEN after ELSE report.update
        /\ machine'.at = after
    BY <1>6, <1>7, <1>10, <1>11
  <2> HIDE DEF next
  <2>2. /\ ~restored
        /\ n <= 3 => machine.at = report.initial
        /\ \A i \in 1..3 : i <= n => /\ runs[i].before = report.initial
                                     /\ runs[i].after = report.initial
        /\ n = 4 => /\ machine.at \in {report.initial, report.update}
                    /\ runs[4].before = report.initial
                    /\ runs[4].after = report.update
                    /\ report.update \in Snapshot
    BY <1>0, <1>1, <1>n DEF ScenariosInv
  <2>3. restored' <=> n = 4 /\ machine.at # report.initial
                            /\ after = report.initial
    BY <1>2, <1>3, <2>2
  <2>4. CASE n < 3
    <3>1. /\ n + 1 \in 1..3 /\ machine'.at = report.initial
          /\ \A i \in 1..3 : i <= n + 1 =>
                next[i].before = report.initial /\ next[i].after = report.initial
      <4>1. after = report.initial /\ machine.at = report.initial
        BY <1>1, <1>4, <2>2, <2>4
      <4>2. \A i \in 1..3 : i <= n + 1 => i \in 1..n \/ i = n + 1
        BY <1>1
      <4>3. QED
        BY <1>1, <2>1, <2>2, <2>4, <4>1, <4>2
    <3>2. QED
      BY <1>1, <2>1, <2>3, <2>4, <3>1 DEF ScenariosInv
  <2>5. CASE n = 3
    <3>1. \A i \in 1..3 : next[i].before = report.initial
                          /\ next[i].after = report.initial
      BY <2>1, <2>2, <2>5
    <3>2. next[4].before = report.initial /\ next[4].after = after
      BY <2>1, <2>2, <2>5
    <3>3. report'.update = after /\ after \in Snapshot
      BY <1>4, <2>1, <2>5
    <3>4. QED
      BY <2>1, <2>3, <2>5, <3>1, <3>2, <3>3 DEF ScenariosInv
  <2>6. CASE n = 4
    <3>1. \A i \in 1..4 : next[i] = runs[i]
      BY <2>1, <2>6
    <3>2. next[5].before = machine.at /\ next[5].after = after
      BY <2>1, <2>6
    <3>3. report'.update = report.update
      BY <2>1, <2>6
    <3>4. QED
      BY <2>1, <2>2, <2>3, <2>6, <3>1, <3>2, <3>3 DEF ScenariosInv
  <2>7. n < 3 \/ n = 3 \/ n = 4
    BY <1>1
  <2>8. QED
    BY <2>4, <2>5, <2>6, <2>7
<1>13. QED
  BY <1>8, <1>9, <1>12 DEF QualificationInv

LEMMA TestQualification ==
    ASSUME QualificationInv, Test
    PROVE  QualificationInv'
<1> USE DEF inputs, bundle, test, OrNone
<1>0. MadeInv /\ FreshInv /\ ScenariosInv
  BY DEF QualificationInv
<1>1. CASE BuildImage
  <2>1. MadeInv'
    BY <1>0, <1>1 DEF BuildImage, MadeInv
  <2>2. FreshInv'
    BY <1>0, <1>1 DEF BuildImage, FreshInv
  <2>3. ScenariosInv'
    BY <1>0, <1>1 DEF BuildImage, ScenariosInv
  <2>4. QED
    BY <2>1, <2>2, <2>3 DEF QualificationInv
<1>2. CASE BeginReport
  <2>1. /\ report' = [NoReport EXCEPT !.lock = image, !.image = image,
                                      !.initial = image.snapshot]
        /\ image \in Lock /\ image.snapshot \in Snapshot
    BY <1>0, <1>2 DEF BeginReport, MadeInv
  <2>2. /\ report' \in Report
        /\ report'.image = image /\ report'.lock = image
        /\ report'.initial = image.snapshot /\ report'.scenarios = << >>
    BY <2>1, Nothing DEF Report
  <2>3. machine' \in Machine /\ machine'.at = image.snapshot
    BY <1>2, <2>1, Nothing DEF BeginReport, Machine
  <2>4. MadeInv'
    BY <1>0, <1>2, <2>1, <2>2, <2>3 DEF BeginReport, MadeInv
  <2>5. FreshInv'
    BY <1>0, <1>2, <2>2 DEF BeginReport, FreshInv
  <2>6. ScenariosInv'
    BY <1>2, <2>2, <2>3 DEF BeginReport, ScenariosInv
  <2>7. QED
    BY <2>4, <2>5, <2>6 DEF QualificationInv
<1>3. CASE ReplaceMachine
  <2>1. machine' \in Machine /\ machine'.at = report.initial
    BY <1>0, <1>3, Nothing DEF ReplaceMachine, MadeInv, Machine, Report
  <2>2. MadeInv'
    BY <1>0, <1>3, <2>1 DEF ReplaceMachine, MadeInv
  <2>3. FreshInv'
    BY <1>0, <1>3 DEF ReplaceMachine, FreshInv
  <2>4. ScenariosInv'
    BY <1>0, <1>3, <2>1 DEF ReplaceMachine, ScenariosInv
  <2>5. QED
    BY <2>2, <2>3, <2>4 DEF QualificationInv
<1>4. QED
  BY <1>1, <1>2, <1>3, ScenarioQualification DEF Test

LEMMA StepQualification == QualificationInv /\ [Next]_vars => QualificationInv'
<1> SUFFICES ASSUME QualificationInv, [Next]_vars PROVE QualificationInv'
  OBVIOUS
<1>1. CASE HashLock \/ Verify \/ UNCHANGED vars
  <2>1. /\ hashed' \in {lock, NoLock, hashed}
        /\ UNCHANGED <<inputs, bundle, test, changes, stale>>
    BY <1>1 DEF HashLock, Verify, vars
  <2> USE DEF inputs, bundle, test
  <2>2. MadeInv'
    BY <2>1, Nothing DEF QualificationInv, MadeInv
  <2>3. FreshInv' /\ ScenariosInv'
    BY <2>1 DEF QualificationInv, FreshInv, ScenariosInv
  <2>4. QED
    BY <2>2, <2>3 DEF QualificationInv
<1>2. QED
  BY <1>1, MakeQualification, TestQualification DEF Next

\* Every file is made of what it says, and the scenarios follow one another.
THEOREM QualificationInvariant == Spec => []QualificationInv
BY InitQualification, StepQualification, PTL DEF Spec

-----------------------------------------------------------------------------
\* What is accepted

\* Every state of the inputs, the image and the report is well typed.
THEOREM QualificationTypeCorrect == Spec => []TypeOK
<1>1. QualificationInv => TypeOK
  <2> SUFFICES ASSUME QualificationInv PROVE TypeOK
    OBVIOUS
  <2>1. /\ MadeInv /\ Len(report.scenarios) <= 5
        /\ report.scenarios \in Seq(Scenario)
    BY DEF QualificationInv, ScenariosInv, MadeInv, Report
  <2>2. \A i \in DOMAIN report.scenarios : report.scenarios[i] \in Scenario
    BY <2>1
  <2>3. QED
    BY <2>1, <2>2, FiveScenarios
    DEF TypeOK, MadeInv, Report, Machine, Scenario
<1>2. QED
  BY <1>1, QualificationInvariant, PTL

\* The verifier compares the image with the report and the report with the
\* lock, never the image's contents with anything: still what it accepts is
\* one image of exactly the packages the SBOM, the provenance and the lock
\* name, at the snapshot retained with them
\* (verify_archiso_qualification.py, verify_qualification).
THEOREM OneImageAccepted == Spec => []AcceptedIsOneImage
<1>1. QualificationInv => AcceptedIsOneImage
  <2> SUFFICES ASSUME QualificationInv, Accepts, hashed = lock
               PROVE  AcceptedIsOneImage
    BY DEF AcceptedIsOneImage
  <2>1. image = lock
    BY DEF QualificationInv, MadeInv, Accepts, ReportValid, Retains
  <2>2. /\ sbom = lock.packages /\ provenance = lock.packages
        /\ database = lock.snapshot /\ lock.packages.snapshot = lock.snapshot
        /\ ChoicePackages \subseteq lock.packages.names
    BY DEF Accepts, LockValid, Binds, Retains
  <2>3. QED
    BY <2>1, <2>2 DEF AcceptedIsOneImage
<1>2. QED
  BY <1>1, QualificationInvariant, PTL

\* The transitions a report must show are enough to know that some machine
\* left the locked snapshot and was back on it after a rollback, even if the
\* harness took another machine in between (expected_transitions).
THEOREM RestorationAccepted == Spec => []AcceptedWasRestored
<1>1. QualificationInv => AcceptedWasRestored
  <2> SUFFICES ASSUME QualificationInv, Accepts PROVE restored
    BY DEF AcceptedWasRestored
  <2> DEFINE runs == report.scenarios
  <2>1. /\ report.initial = lock.snapshot /\ Len(runs) = 5
        /\ report.update # lock.snapshot
        /\ [i \in 1..5 |-> [before |-> runs[i].before, after |-> runs[i].after]]
              = Transitions(lock.snapshot, report.update)
    BY FiveScenarios DEF Accepts, ReportValid
  <2>2. runs[5].before = report.update /\ runs[5].after = lock.snapshot
    BY <2>1 DEF Transitions
  <2>3. QED
    BY <2>1, <2>2 DEF QualificationInv, ScenariosInv
<1>2. QED
  BY <1>1, QualificationInvariant, PTL

\* The verifier refuses no bundle that is right: with every part made again
\* after what it is made of, and five passed scenarios that took an update
\* and took it back, it accepts.
THEOREM FreshAccepted == Spec => []FreshBundleIsAccepted
<1>1. QualificationInv => FreshBundleIsAccepted
  <2> SUFFICES ASSUME QualificationInv, stale = {}, hashed = lock,
                      ChoicePackages \subseteq packages.names,
                      Len(report.scenarios) = Len(Scenarios),
                      Passed(report.scenarios), restored
               PROVE  Accepts
    BY DEF FreshBundleIsAccepted
  <2> DEFINE runs == report.scenarios
  <2>1. /\ packages.snapshot = database /\ database \in Snapshot
        /\ sbom = packages /\ provenance = packages
        /\ lock = [snapshot |-> database, packages |-> packages,
                   sbom |-> sbom, provenance |-> provenance]
        /\ image = lock /\ report.image = image /\ report.lock = image
        /\ report.initial = lock.snapshot
    BY DEF QualificationInv, FreshInv, MadeInv
  <2>2. lock # NoLock
    BY <2>1, Nothing, QualificationAssumption
  <2>3. LockValid(lock)
    BY <2>1 DEF LockValid, Retains, ArchivesRetained, Binds
  <2>4. /\ Len(runs) = 5 /\ report.update \in Snapshot
        /\ report.update # report.initial
        /\ \A i \in 1..3 : /\ runs[i].before = report.initial
                           /\ runs[i].after = report.initial
        /\ runs[4].before = report.initial /\ runs[4].after = report.update
        /\ runs[5].before = report.update /\ runs[5].after = report.initial
    BY FiveScenarios DEF QualificationInv, ScenariosInv
  <2>5. \A i \in 1..5 : i \in 1..3 \/ i = 4 \/ i = 5
    OBVIOUS
  <2>6. [i \in 1..5 |-> [before |-> runs[i].before, after |-> runs[i].after]]
           = Transitions(lock.snapshot, report.update)
    BY <2>1, <2>4, <2>5 DEF Transitions
  <2>7. ReportValid(report, hashed, lock.snapshot)
    BY <2>1, <2>4, <2>6, FiveScenarios, QualificationAssumption
    DEF ReportValid, Retains
  <2>8. QED
    BY <2>2, <2>3, <2>7 DEF Accepts
<1>2. QED
  BY <1>1, QualificationInvariant, PTL
=============================================================================
