------------------------ MODULE ArchISOQualification ------------------------
(***************************************************************************)
(* The inputs and the evidence of an ArchISO release, and their verifier   *)
(* scripts/verify_archiso_qualification.py.                                *)
(*                                                                         *)
(* Packages are selected from a snapshot of the repository, an SBOM and a  *)
(* provenance statement are made of them, a lock binds all three by their  *)
(* digests, an image is built, and a harness takes it through five         *)
(* scenarios on a virtual machine and writes a report bound to the lock.   *)
(* Every step may be taken again at any time, with whatever the other      *)
(* steps left, and while the verifier runs: it hashes the lock first, and  *)
(* then loads it and looks at the rest, which is taken to happen at once.  *)
(*                                                                         *)
(* The tools are truthful: what a file says was so when it was written. A  *)
(* digest stands for the content it is of. Signatures, names of files and  *)
(* the profile's contract are compared with themselves alone and left out. *)
(***************************************************************************)
EXTENDS Naturals, Sequences

CONSTANTS
    Snapshot,
    Package,
    ChoicePackages,   \* REQUIRED_CHOICE_PACKAGES: of the desktops and bootloaders
    None,
    MaxChanges        \* bound: selections, refreshes and moves of the mirror

ASSUME QualificationAssumption == /\ ChoicePackages \subseteq Package
                                  /\ None \notin Snapshot
                                  /\ MaxChanges \in Nat

Scenarios == <<"live-boot", "install", "reboot-installed", "update", "rollback">>

VARIABLES
    mirror,        \* the snapshot the repository serves
    packages,      \* archives in the artifact directory: names, and snapshot
    database,      \* package database retained beside them
    sbom, provenance, lock,
    image,         \* the lock the image was built from
    machine,       \* the snapshot installed, and the one before the update
    report,
    hashed,        \* by the verifier, if it runs: the lock
    changes,
    stale,         \* history: what was not made again since what it is made of
    restored       \* history: a machine went to another snapshot, and back

inputs   == <<mirror, packages, database>>
bundle   == <<sbom, provenance, lock>>
test     == <<image, machine, report, restored>>
vars     == <<inputs, bundle, test, hashed, changes, stale>>

Selection == [names : SUBSET Package, snapshot : Snapshot]

NoSelection == [names |-> {}, snapshot |-> None]

NoLock == [snapshot |-> None, packages |-> NoSelection, sbom |-> NoSelection,
           provenance |-> NoSelection]

NoReport == [lock |-> NoLock, image |-> NoLock, initial |-> None, update |-> None, scenarios |-> <<>>]

NoMachine == [at |-> None, before |-> None]

Init ==
    /\ mirror \in Snapshot
    /\ packages = NoSelection
    /\ database = None
    /\ sbom = NoSelection /\ provenance = NoSelection /\ lock = NoLock
    /\ image = NoLock /\ machine = NoMachine /\ report = NoReport
    /\ hashed = NoLock
    /\ changes = 0
    /\ stale = {"packages", "sbom", "provenance", "lock", "image", "report"}
    /\ restored = FALSE

-----------------------------------------------------------------------------
\* Making the inputs

Change == changes < MaxChanges /\ changes' = changes + 1

MoveMirror ==
    /\ Change
    /\ \E s \in Snapshot \ {mirror} : mirror' = s
    /\ UNCHANGED <<packages, database, bundle, test, hashed, stale>>

\* Archives and database are downloaded together.
Select ==
    /\ Change
    /\ \E names \in (SUBSET Package) \ {{}} :
           packages' = [names |-> names, snapshot |-> mirror]
    /\ database' = mirror
    /\ stale' = {"sbom", "provenance", "lock", "image", "report"}
    /\ UNCHANGED <<mirror, bundle, test, hashed>>

\* The database alone is downloaded again.
Refresh ==
    /\ Change
    /\ database # mirror
    /\ database' = mirror
    /\ stale' = stale \cup {"packages", "lock", "image", "report"}
    /\ UNCHANGED <<mirror, packages, bundle, test, hashed>>

GenerateSBOM ==
    /\ packages # NoSelection
    /\ sbom' = packages
    /\ stale' = (stale \ {"sbom"}) \cup {"lock", "image", "report"}
    /\ "sbom" \in stale
    /\ UNCHANGED <<inputs, provenance, lock, test, hashed, changes>>

GenerateProvenance ==
    /\ packages # NoSelection
    /\ provenance' = packages
    /\ stale' = (stale \ {"provenance"}) \cup {"lock", "image", "report"}
    /\ "provenance" \in stale
    /\ UNCHANGED <<inputs, sbom, lock, test, hashed, changes>>

WriteLock ==
    /\ packages # NoSelection /\ sbom # NoSelection /\ provenance # NoSelection
    /\ "lock" \in stale
    /\ lock' = [snapshot |-> database, packages |-> packages, sbom |-> sbom,
                provenance |-> provenance]
    /\ stale' = (stale \ {"lock"}) \cup {"image", "report"}
    /\ UNCHANGED <<inputs, sbom, provenance, test, hashed, changes>>

-----------------------------------------------------------------------------
\* Testing the image

\* From the packages and the database the lock names.
BuildImage ==
    /\ lock # NoLock
    /\ "image" \in stale
    /\ image' = lock
    /\ stale' = (stale \ {"image"}) \cup {"report"}
    /\ UNCHANGED <<inputs, bundle, machine, report, restored, hashed, changes>>

\* The harness begins a report, with the image and the lock it was built from.
BeginReport ==
    /\ image # NoLock
    /\ "report" \in stale \/ report.scenarios # <<>>
    /\ report' = [NoReport EXCEPT !.lock = image, !.image = image,
                                   !.initial = image.snapshot]
    /\ machine' = [NoMachine EXCEPT !.at = image.snapshot]
    /\ restored' = FALSE
    /\ stale' = stale \ {"report"}
    /\ UNCHANGED <<inputs, bundle, image, hashed, changes>>

\* The machine is lost, and the report goes on with a new one.
ReplaceMachine ==
    /\ report # NoReport
    /\ machine.before # None
    /\ machine' = [NoMachine EXCEPT !.at = report.initial]
    /\ UNCHANGED <<inputs, bundle, image, report, restored, hashed, changes, stale>>

NextScenario == Scenarios[Len(report.scenarios) + 1]

\* Mutant: a rollback on a machine that has nothing to go back to.
TargetOfAny == CASE NextScenario = "update"   -> mirror
                 [] NextScenario = "rollback" -> machine.before
                 [] OTHER                     -> machine.at

\* What the scenario leaves, if nothing goes wrong: an update goes to what the
\* repository serves by then, a rollback to what was before, if anything was.
Target == CASE NextScenario = "update" -> mirror
            [] NextScenario = "rollback" /\ machine.before # None -> machine.before
            [] OTHER -> machine.at

Passed(scenarios) == \A i \in DOMAIN scenarios : scenarios[i].passed

\* The harness stops at the first that fails.
RunScenario ==
    /\ report # NoReport
    /\ Len(report.scenarios) < Len(Scenarios)
    /\ Passed(report.scenarios)
    /\ \E after \in {machine.at, Target}, passed \in BOOLEAN :
           /\ passed \/ after = machine.at
           /\ machine' = [at |-> after,
                          before |-> IF NextScenario = "update" THEN machine.at
                                     ELSE machine.before]
           /\ report' =
                  [report EXCEPT
                     !.update = IF NextScenario = "update" THEN after ELSE @,
                     !.scenarios = Append(@, [passed |-> passed,
                                              before |-> machine.at,
                                              after |-> after])]
           /\ restored' = (restored \/ /\ NextScenario = "rollback"
                                       /\ machine.at # report.initial
                                       /\ after = report.initial)
    /\ UNCHANGED <<inputs, bundle, image, hashed, changes, stale>>

-----------------------------------------------------------------------------
\* The verifier

\* verify_file: the file a digest was taken of is still there.
Retains(file, digest) == file = digest

\* verify_signed_file of each archive: what the lock lists is still there.
ArchivesRetained(k) == /\ k.packages.snapshot = packages.snapshot
                       /\ k.packages.names \subseteq packages.names

\* Mutant: the file is compared with the entry alone.
BindsFile(entry, file, k) == Retains(file, entry)

\* verify_sbom and verify_provenance: the lock's entry is of the package list,
\* and the file is the one the lock was written for.
Binds(entry, file, k) == entry = k.packages /\ Retains(file, entry)

\* validate_package_lock.
LockValid(k) ==
    /\ Retains(database, k.snapshot)
    /\ k.packages.snapshot = k.snapshot
    /\ ArchivesRetained(k)
    /\ ChoicePackages \subseteq k.packages.names
    /\ Binds(k.sbom, sbom, k)
    /\ Binds(k.provenance, provenance, k)

\* Mutant: a rollback is to leave the update installed.
TransitionsOffByOne(initial, update) ==
    [i \in 1..5 |-> [before |-> IF i = 5 THEN update ELSE initial,
                     after |-> IF i >= 4 THEN update ELSE initial]]

\* Mutant: only the end of a transition is looked at.
TransitionsEnd(initial, update) ==
    [i \in 1..5 |-> [before |-> report.scenarios[i].before,
                     after |-> IF i = 4 THEN update ELSE initial]]

\* expected_transitions.
Transitions(initial, update) ==
    [i \in 1..5 |-> [before |-> IF i = 5 THEN update ELSE initial,
                     after |-> IF i = 4 THEN update ELSE initial]]

\* validate_qemu_report, given the digest of the lock and its snapshot. The
\* image is compared with the report alone, whatever lock it was built from.
ReportValid(r, digest, snapshot) ==
    /\ r.lock = digest
    /\ Retains(image, r.image)
    /\ r.initial = snapshot
    /\ r.update \notin {None, snapshot}
    /\ Len(r.scenarios) = Len(Scenarios)
    /\ Passed(r.scenarios)
    /\ [i \in 1..5 |-> [before |-> r.scenarios[i].before,
                        after |-> r.scenarios[i].after]]
           = Transitions(snapshot, r.update)

HashLock ==
    /\ hashed = NoLock /\ lock # NoLock /\ report # NoReport
    /\ hashed' = lock
    /\ UNCHANGED <<inputs, bundle, test, changes, stale>>

\* What the verifier answers, of the files as they are when it comes to them.
Accepts == /\ hashed # NoLock
           /\ LockValid(lock)
           /\ ReportValid(report, hashed, lock.snapshot)

\* It ends, and has changed nothing.
Verify ==
    /\ hashed # NoLock
    /\ hashed' = NoLock
    /\ UNCHANGED <<inputs, bundle, test, changes, stale>>

-----------------------------------------------------------------------------

Make == GenerateSBOM \/ GenerateProvenance \/ WriteLock

Test == BuildImage \/ BeginReport \/ ReplaceMachine \/ RunScenario

Next == MoveMirror \/ Select \/ Refresh \/ Make \/ Test \/ HashLock \/ Verify

Spec == Init /\ [][Next]_vars

-----------------------------------------------------------------------------
\* Properties

OrNone(S, none) == S \cup {none}

Lock == [snapshot : OrNone(Snapshot, None),
         packages : OrNone(Selection, NoSelection),
         sbom : OrNone(Selection, NoSelection),
         provenance : OrNone(Selection, NoSelection)]

TypeOK ==
    /\ mirror \in Snapshot
    /\ packages \in OrNone(Selection, NoSelection)
    /\ database \in OrNone(Snapshot, None)
    /\ {sbom, provenance} \subseteq OrNone(Selection, NoSelection)
    /\ {lock, image, hashed, report.lock, report.image} \subseteq Lock
    /\ {machine.at, machine.before} \subseteq OrNone(Snapshot, None)
    /\ {report.initial, report.update} \subseteq OrNone(Snapshot, None)
    /\ Len(report.scenarios) <= Len(Scenarios)
    /\ \A i \in DOMAIN report.scenarios :
           report.scenarios[i] \in [passed : BOOLEAN, before : Snapshot,
                                    after : Snapshot]
    /\ changes \in 0..MaxChanges
    /\ restored \in BOOLEAN

\* A bundle that is accepted is of one image. What was tested holds exactly the
\* packages that the SBOM, the provenance and the lock name, all of the one
\* snapshot retained with them and with every desktop and bootloader: however
\* the files were made again in between, unless the lock was rewritten while
\* the verifier ran. That a package is of the snapshot whose database is there
\* rests on a lock that states truthfully where its packages are from: the
\* verifier compares the names of the repositories.
AcceptedIsOneImage ==
    Accepts /\ hashed = lock =>
        LET tested == image.packages
        IN  /\ tested = sbom /\ tested = provenance /\ tested = lock.packages
            /\ tested.snapshot = database /\ image.snapshot = database
            /\ ChoicePackages \subseteq tested.names

\* And it was taken back: some machine that had left the locked snapshot was
\* back on it after a rollback, though the scenarios of a report may be of
\* several machines.
AcceptedWasRestored == Accepts => restored

\* A bundle whose every part was made again after what it is made of, whose
\* packages are complete and whose scenarios passed, with an update that was
\* one and was taken back, is accepted: the verifier asks for nothing more, on
\* however many machines the scenarios ran.
FreshBundleIsAccepted ==
    /\ stale = {} /\ hashed = lock
    /\ ChoicePackages \subseteq packages.names
    /\ Len(report.scenarios) = Len(Scenarios) /\ Passed(report.scenarios)
    /\ restored
    => Accepts
=============================================================================
