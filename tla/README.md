# ArachOS in TLA+

A verification project for the parts of this repository that change the state of a
machine or decide what may be released. It is kept beside the code: `PROJECT.json` maps
each definition to the lines it translates, lists the runs, the mutants that each
property must catch, the findings, the hazards and the theorems.

It covers the transaction engine of the installer (`src/installer.rs`, the binary
`arach-install`), recovery over several transactions, the Calamares sequence that drives
the engine, and the verifiers that decide what may be released: the readiness and channel
ledgers, the boot-log markers and the ArchISO qualification. The plan below says what follows.

## 1. The system

| component | state it keeps | operations | what makes it hard | what makes it correct |
| --- | --- | --- | --- | --- |
| **transaction engine** `src/installer.rs` | plan and journal under `/run`; a checkpoint on the target (plan, generation, journal, boot backups, `boot-mutation.json`); boot files, Corinth generation and hardware packages of the target | `prepare`, `apply`, `verify`, `rollback`, `recover` | a crash between any two durable effects; two copies of the journal; partial failure of the activation; repeated rollbacks | whatever changed is named in the journal; rolled-back means restored, and is final; every transaction that reached the target settles |
| **recovery of several transactions** `recover` | the directory of checkpoints | `recover` over each entry in directory order | order; one refusal stops the rest; a backup that holds another transaction's files | nothing verified is taken down, everything unsettled is settled |
| **Corinth** (external library) | generation store, receipts of installed packages | `publish`, `inspect_active`, `rollback`, install and remove of package sets | a generation says which one it replaces; its own crash safety is its business | used as the engine uses it |
| **Calamares transaction job** `arachtransaction` | global storage: transaction id, catalog paths | `prepare` and `commit` phases of the exec sequence | rollback after a failed apply or verify may fail too; the id is stored before the work | a commit that fails leaves a rolled-back target or one `recover` settles |
| **Calamares hardware preflight** `arachhardware` | catalog under `/run`, plan, receipt, storage | synchronise, choose the catalog, plan, write the receipt | time-outs of 300 s; a catalog left by an earlier attempt; the offline fall-back | plan, receipt and the paths in storage come from the one catalog |
| **Calamares Pacman adapter** `arachpacman` | staged copies of a signed snapshot, the target's package database | stage, authorise, `pacman -U` | a snapshot that changes while it is staged; packages are not undone by a rollback | only what the signature and the plan cover is installed |
| **release channel ledger** `verify_release_channels.py` | `active_releases` of `production/release-channels.json` | verification of the document at every commit; the edits are the maintainers' | the verifier remembers no earlier document; releases hang on each other; retention at its limit | a release soaked in every channel before its own; a faulty one can be withdrawn |
| **production readiness ledger** `verify_production_readiness.py` | gates with status, evidence and dependencies; the component lock | the same | evidence that was current once; dependency chains and cycles | an active release stands on qualified gates, each with evidence of the locked revisions |
| **installer recovery ledger** `verify_installer_recovery.py` | rows of a static matrix | verification of the document | little | not modelled |
| **marker sequences** `verify_marker_sequence.py` | a report and an evidence file beside a log | search, write the report, create the evidence | a log that grows or starts anew while it is read twice; two verifiers; kills | accepts exactly the logs with the markers in order; evidence is of the log it hashes, and is kept |
| **ArchISO qualification** `verify_archiso_qualification.py` | lock, SBOM, provenance, image, QEMU report | verification of the bundle; the files are made by other tools | any file may be made again without those that follow from it | an accepted bundle is of one image, which was updated and taken back |
| **image assembly and publication** `experimental-native-*.sh` | staging directory, output, sidecar digest | assemble, sync, publish by rename | a signal or a failure between two steps | an output that exists is complete and has its digest |
| **policy validators of arach-compose** `src/lib.rs` | none | validation of the installer contract and image manifests | the order of the exec sequence | the accepted sequences verify hardware before storage changes |
| **CI aggregate** `ci-aggregate-status.yml` | status of the required workflows of a commit | poll until a deadline | late and failed runs racing the deadline | success only if every required workflow succeeded |
| control matrices, threat model, component and workflow pins, document fuzzer, live ISO tests | none that persists | schema and text checks, test drivers | little | not modelled, or only for their time-outs |

How they interact. Calamares runs the exec sequence of `settings.conf`:
`arachhardware@preflight`, `arachtransaction@prepare`, the storage jobs, `unpackfs` and
the configuration jobs, `arachpacman@hardware` (disabled by default),
`arachtransaction@commit`, `umount`. The jobs pass paths through global storage and
files under `/run/arach-installer`. The transaction job calls `arach-install` as a
subprocess: `prepare` before the storage jobs, `apply` and `verify` in commit, `rollback`
when either fails. After a restart somebody calls `arach-install recover --target`, which
needs nothing but the target. The ledgers are documents that CI verifies at every commit
(`.github/workflows/readiness.yml`): the channel verifier reads the statuses of the
readiness ledger, whose verifier reads the component lock. The marker and ArchISO
verifiers are run by hand or by lab scripts, and their output is what the ledgers' evidence
consists of; they share no state with the installer.

## 2. The modules

| module | models |
| --- | --- |
| `InstallJournal` | the journal document, `validate_journal`, the pushes, the statuses a command accepts |
| `BootActivation` | boot files, backups, `boot-mutation.json` and the loops of `activate_boot_bundle`, `verify_installed_boot_bundle`, `rollback_boot_bundle` |
| `InstallTransaction` | one transaction: the five commands, both journals, hardware, Corinth authority, faults. Extends the two above |
| `AtomicInstall` | the promise, abstractly: a target is untouched, open, verified or restored |
| `InstallTransactionInvariant` | the inductive invariant |
| `InstallTransactionProofs`, `InstallTransactionRefinementProofs` | the proofs: types and safety, then the journals, verification and the refinement |
| `TargetRecovery` | several transactions of several media on one target, and `recover` over all of them |
| `TargetRecoveryProofs` | the proofs about it |
| `CalamaresSession` | the exec sequence of the native and the ArchISO profile, over several attempts |
| `CalamaresSessionProofs` | the proofs about it |
| `GateGraph` | the dependencies of the gates as a graph: what a gate stands on, cycles |
| `CycleSearch` | `detect_cycles` of `verify_production_readiness.py`, call by call |
| `CycleSearchProofs` | the proofs about it |
| `ReadinessLedger` | what `verify_production_readiness.py` accepts; extends `GateGraph`; no state |
| `ReleaseChannels` | what `verify_release_channels.py` accepts, given the qualified gates; extends the ledger |
| `ReleaseGovernance`, `MCReleaseGovernance` | lock, ledger and channels under the commits that both verifiers accept |
| `ReleaseGovernanceProofs` | the proofs about it |
| `MarkerSequence`, `MCMarkerSequence` | verifiers of a boot log, effect by effect, while the log is written |
| `MarkerSequenceProofs` | the proofs about it |
| `ArchISOQualification`, `MCArchISOQualification` | the files of a qualification bundle, those who write them, and the verifier |
| `ArchISOQualificationProofs` | the proofs about it |

### One action per durable effect

`installer.rs` has two ways to write a file. `rewrite_private` and `atomic_target_file` create
a temporary file, `fsync` it, rename it and `fsync` the directory, so what they write changes in one
step: the rewrites of a journal, the rewrites of the record of the boot files, and the boot files. The
checkpoint directory is filled under a temporary name and renamed as a whole. `create_private` opens
a file under its own name and writes it there, so a fault can leave an empty or partial one. It makes what
`prepare` leaves under `/run`, the backups, and the first version of `boot-mutation.json`. Nobody reads a backup
before the record names it; the record is read by every rollback, and so takes two actions,
`CreateRecord` and `WriteRecord`, with a `RecordTorn` between them that no command can read.
The effects of one command become durable in program order. An action of `InstallTransaction` is one
such effect with the computation up to it; `pc` names the next effect of the running command and is
`"idle"` when no command runs. `prepare` is one action (what a failed `prepare` leaves is
not modelled); `apply` is a chain:

    CheckpointTransaction -> LogHardware -> (InstallPackage -> ReceiptPackage)*
      -> SealHardware -> PublishGeneration -> JournalPublished
      -> ActivateBackup* -> ActivateCreate -> ActivateRecord
      -> (ActivatePlace -> ActivateMark)* -> ActivateComplete -> JournalApplied

`verify` is one action: it only reads before it writes the journal. `rollback` is
`Rollback` (or `Recover`), `RemovePackage*`, `HardwareUndone`, `RestoreBootFile*` and
`BootUndone` or `RefuseRecord`, `RollbackCorinth` or `RefuseCorinth`, `JournalRolledBack`. A rewrite of the
journal writes the checkpoint first; the copy under `/run` follows in `MirrorJournal`, and
nothing else happens before it, except a fault. Two commands never run at once: Calamares
runs one job at a time, and `recover` runs when no session does; the code has no lock.

### Faults

`Interrupt` ends the running command between two effects: this is a kill, and also every
error the command may return there, since an error path of `installer.rs` changes nothing
durable, but for the one in `apply` after `activate_boot_bundle`, which is
`ActivationFails`: at any step of the activation, the last rewrite of the record included, and
with the record cut off or not. `Reboot` does the same at any time and loses `/run`. `MaxFaults` bounds
the three together. The state a fault leaves is read by the next command, whichever the
environment chooses, with the documents of either path.

### What is abstracted

* Digests, transaction id, target path and schema: one plan and one target are modelled,
  so the comparisons `load_bound_documents` makes always succeed on documents the engine
  wrote. The journal keeps the fields that change. `mutations` is a bag: nothing reads its order.
* A boot file is `absent`, `old` or `new`. A generation is what it is to this transaction.
  An `old` file that equals the bundle's is not distinguished.
* Corinth: `publish` makes the staged generation active, with the one active before as its
  parent; `rollback` makes the parent active. `RollbackCorinth` tests the parent after it
  went back, as the code does. Installing a package set is package by package in any order, first its files and then
  its receipt; how Corinth makes a package durable is its own business, but `rollback_hardware` goes by
  the receipts, so a package that an interruption left without one stays (hazards, `installer.rs:2031`). A target
  on which the intended generation is active before apply begins is left to `TargetRecovery`.
* Checks of modes, links, sizes and mounts are guards on what is outside the model.
* `TargetRecovery` also takes one durable effect per action, with the record and each boot file by itself,
  since what it says of several transactions is decided in the windows between them. It leaves the copies under
  `/run` and the hardware to `InstallTransaction`, takes all backups in one step with the record that names
  them, and every destination holds a file before. There a medium carries one
  generation with one parent, and a publication of the active generation is accepted; the
  documents of a session are those of the transaction begun last (`Current`), while
  `Recover` works on all. Transactions are numbered in the order the directory lists them, and begin in any order;
  `tx` is the one the running command deals with. When recover has rolled one back (`recovering`),
  it goes on to the next unsettled entry after that place, reading each status when its turn
  comes, and at an error it ends. Nothing in the code keeps apply from a target with an unsettled transaction. Such an apply
  is counted as a fault and remembered in `stacked`, and what is true only without it says so.

### The session above the engine

`CalamaresSession` is one level up. `job` is the index in the exec sequence and `step` the
next effect of the running job. Every state a job passes to another is there: the
catalog, plan and receipt under `/run` survive a failed attempt and not a restart of the
live system; global storage survives neither; the target survives both, unless the user
lets the partition job format it. `arachhardware`, `arachtransaction` and `arachpacman` are
modelled effect by effect, and Calamares' own jobs by success or failure. `arach-install` is
one of the outcomes of `AtomicInstall` per transaction, with one addition: a transaction is `stuck` that is
open with a record that was cut off, and a rollback of it is refused (`RefuseRollBack`). `Recover` restores
some of the open ones, as it ends at the first that is stuck or refused.

A hardware plan is named by the catalog it was resolved from, since the machine stays the
same. The signed package snapshot on the medium is for the plan of the medium's own
catalog, so the adapter refuses any other plan. Checks of configuration values and of file
types refuse before anything changes and are left out, and so is the package transaction
of Pacman itself, beyond that a failed one may have installed something.

### Verifiers without memory

The release verifiers judge one tree. What they promise is about histories, so
`ReleaseGovernance` makes a step of every commit: a maintainer's edit of lock, ledger or channels that
leaves a tree both verifiers accept. The edits are what a record can say in truth: it is published
now, its soak is the time since its source was published, evidence names the revision it was captured on.
Beyond that maintainers may do anything in any order: promote too early, rebuild on the way, replace or withdraw
what is still needed, move the lock, and block or recapture in the same commit. A build is the
five fields of `IMMUTABLE_PROMOTION_FIELDS` at once. Left out are the checks of a record against itself
(files and digests, placeholders, evidence kinds and dates, mirrors, advisory, release report, gate documents and
the tracker, version numbers beside sequence numbers); a blocker list is empty exactly when a gate is
qualified, so `qualified` stands for both. A sequence number only identifies: the check that sorted numbers
increase follows from uniqueness. Retention is scaled from 10/8/6 to 3/2/2 and the soak to one tick in each of
testing and stable. A gate's components do not change.

`validate_manifest` refuses a ledger at `detect_cycles`, a recursive search whose starting nodes share what was
visited. In `ReadinessLedger` that is `~HasCycle`, the closure of the dependencies; that the search computes
it is a matter of its own. `CycleSearch` has one action per turn of its loops and per return, with the calls on a stack,
and `VerdictIsExact` justifies the use of `HasCycle` in the ledger. Lists are sets: their order is any, and a name that is
in a list twice is found visited the second time.

`MarkerSequence` has one action per access to a file (load the log, write the report, look for the
evidence, hash the log, create, fill), and one per marker of the search between them. A line is written at once. `sameBoot` is a history
variable. `ArchISOQualification` names a file by the selection of packages it was made of, so a digest is the
content. The harness is given an image with the lock it was built from, since nothing in the code checks that;
it reports what the machine's snapshot was before and after each scenario, and stops at one that fails. The
`post_reboot` flags, the signatures, the key ring, the firmware and the contract of the ArchISO profile compare a
document with itself or with constants, and are left out. The verifier's checks after the hash of
the lock are one step.

## 3. What the runs check

| run | instance | properties |
| --- | --- | --- |
| `InstallTransaction` (481 thousand states) | 3 boot files, 2 packages, 3 faults, later package updates | `TypeOK`, `JournalsCoherent`, `RuntimeNeverAhead`, `MutationsAreJournaled`, `RolledBackIsRestored`, `RollbackIsNeverRefused`, `RolledBackIsFinal`, `VerifiedIsPublished`, `ImplementsAtomicInstall`, `EverySettles` |
| `TargetRecovery` (1.0 million) | 3 transactions in every directory order, 2 media, 2 boot files, 2 faults, an apply on an unsettled target being one | `QuietTargetExplained`, `RolledBackToFound`, `RolledBackHasAuthority`, `RecoverSettlesAll` |
| `NativeSession` (104 thousand) | native profile, adapter on or off, 2 catalogs, 3 attempts, 3 faults | `TypeOK`, `OnePlan`, `OpenOnlyByFault`, `FaultlessAttemptInstalls` |
| `ReleaseGovernance` (78 thousand, up to symmetry) | 2 gates, 1 component in the lock, 2 revisions, 2 builds, 3 sequence numbers, 3 instants | `TypeOK`, `SoakedInEachChannel`, `ReleasesStandOnEvidence`, `EveryBuildCanBePulled`, `RetentionLeavesRoom`, `SomeGateIsNext` |
| `CycleSearch` (259 thousand) | every graph of 4 gates, any order | `TypeOK`, `VerdictIsExact`, `SearchEnds` |
| `MarkerSequence` (337 thousand) | 2 markers that share lines, 2 verifiers, logs of 3 lines, 2 boots, 1 kill | `TypeOK`, `SearchIsExact`, `EvidenceMatchesLog`, `EvidenceIsKept`, `EvidenceAppears` |
| `ArchISOQualification` (1.2 million, up to symmetry) | 2 snapshots, 2 packages, 3 changes of mirror or selection | `TypeOK`, `AcceptedIsOneImage`, `AcceptedWasRestored`, `FreshBundleIsAccepted` |
| `RestartDuringActivation` | 2 boot files, 1 package, 2 faults, no package update | `RollbackRestoresBootFiles`, violated |
| `RestartDuringRecord` | the same | `RecoverSettles`, violated |
| `RestartDuringRollback` | the same | `VerifiedRollbackFinishes`, violated |
| `StackedRecovery` | 2 transactions of 1 medium, 1 boot file, 1 fault: the second begun on the unsettled first | `RecoverSettlesStacked`, violated |
| `ArchISOSession` | ArchISO profile, 1 attempt, no fault | `FaultlessAttemptInstalls`, violated |

Why the bounds are enough. Two boot files are the fewest of which one can be marked and
another not, three let a file be placed, one be done and one be untouched at once. Two
packages let provisioning, and its removal, be cut in the middle. With three faults an
apply, the rollback of it and the rollback of that are interrupted. In `TargetRecovery`
three transactions of two media are the fewest of which two share a medium and a third is
between them; two boot files let one be astray and the other not. Two faults let a transaction be cut short
at any effect and its rollback too, or another begin on top of it. In a session two attempts let the second find what the first
left, the third adds one that finds the leavings of two; two catalogs are the fewest that can
differ, one of them the medium's own. What the runs bound, the theorems below do not.

In `ReleaseGovernance` three instants let a build reach stable with no time to spare, and two builds and two
revisions are what can be confused; two gates are enough for a dependency and for a cycle of two. In `CycleSearch` four gates are the fewest with
a cycle of three that is met from outside, or a gate come to along two paths before a cycle. Three lines let a marker's first line be taken, a later one be tried and one
be written in between; the second boot is the fewest that makes a log start anew. Three changes let
packages be selected, the mirror move, and packages or database be downloaded again before the update.

Some properties deserve a word:

* `MutationsAreJournaled` is what recovery stands on. It is about every intermediate
  state: packages are logged before the first of them is installed, the former generation
  before another is published, a marked file has its own former content in the backup.
* `VerifiedIsPublished` is not obvious from the code: `verify` looks at the status and at
  the boot files, and neither at the active generation nor at the record. It holds because
  a rollback that was interrupted after the generation went back has also restored a boot
  file. For the packages the like does not hold (hazards, `installer.rs:712`).
* `ImplementsAtomicInstall` is a refinement: `Outcome` is read off the checkpoint, and
  each effect is a step of `AtomicInstall` or a stutter.
* `OnePlan` relates five places: a retry may find a remote catalog, a plan and a receipt of an earlier
  attempt, and may itself fall back to the medium's catalog. What prepare copies and what the
  adapter and commit are given must still be of one catalog.
* `RolledBackIsRestored` and `AtomicInstall` state the limits of a rollback along with what it does: one boot file
  may be astray (finding 1), and packages are gone if they had a receipt.
* `RolledBackToFound` and `QuietTargetExplained` are about several transactions with that one file in view. It is
  never some other transaction's backup: it is the very bundle that is rolled back, and a quiet target
  has, beside the boot files of the last verified transaction, at most one file of each one rolled back since.
* `RolledBackHasAuthority` holds stacked or not, since each rollback compares the authority with its
  journal. `RolledBackToFound` does not: the lower of two stacked transactions has the files of its backup restored under it.
* `OpenOnlyByFault` is why an apply on an unsettled target takes a fault: any
  failed program leaves a settled target, except a failed rollback, a cut off record or a kill.
* `SoakedInEachChannel` relates a release to the times of records that are still retained: `soak_seconds` is not
  compared with them by the code, and a false claim would be accepted (hazards, `verify_release_channels.py:407`). It holds for truthful records since a source cannot be replaced or withdrawn
  while a promotion stands on it.
* `ReleasesStandOnEvidence` is about the closure of the dependencies, while the code looks at direct ones. A move of the
  lock breaks it unless the same commit recaptures or blocks; blocking is refused while a release needs the gate.
* `EveryBuildCanBePulled` and `RetentionLeavesRoom` say the rules leave a way out: a
  release that others were promoted from cannot go, but there is always one to begin with, and channels that
  retain more than the next have room.
* `EvidenceMatchesLog` holds although the log is read twice, since a log only grows within a boot. A
  second boot into the same file between the reads is excluded by name (hazards, line 107).
* `AcceptedIsOneImage` is stated for a lock that is not rewritten while the verifier runs: it hashes the lock at line 602
  and opens it again at line 604, and without the condition TLC finds a bundle of two locks that is accepted. That the packages are of the snapshot
  whose database is retained rests on tools that write truthfully: the script compares the names of repositories
  (432, 471), not the content of the archives with the database.
* `FreshBundleIsAccepted` is the other direction: the verifier refuses no bundle whose parts are up to date and whose
  scenarios passed with an update taken and taken back.
* `SearchIsExact` is about every step that ends the search: what is accepted is a way the markers are in the text,
  and a text is refused only if there is none.

### Fairness

`FairSpec` has two conditions. `WF(Continue)`: a command that runs goes on, unless a fault
ends it; a process that is scheduled does. `WF(Recover)`: after a restart somebody runs
`recover`, which is what `docs/INSTALLER.md` tells the operator to do; it is not started
by the code. Nobody is bound to prepare, apply, verify or roll back. Faults are
bounded, so `EverySettles` says: when the faults stop, what reached the target is verified
or rolled back. It excuses a target on which a newer generation was published, since that
makes `rollback_corinth` refuse, as it should, for ever; and one on which the record was cut off, which is
finding 2 and the only such excuse. `RecoverSettlesAll` says it of several transactions, with the excuse of stacking (finding 4).

In `CalamaresSession`, `WF(Continue)` says that Calamares goes on with the sequence it runs. Nobody is
bound to start it, to restart it after a failure, or to run `recover`. `FaultlessAttemptInstalls`
leaves out one kind of start: a catalog that a killed synchronisation left incomplete under `/run` fails
every attempt until the live system restarts (hazards, `arachhardware/main.py:125`).

`MarkerSequence` has `WF` of the steps of the verifiers that run, together: a process that was started goes on.
Starting one, writing a line and booting are not bound to happen. `EvidenceAppears` excuses `Kill`, which is also
an `OSError` while a verifier hashes or writes, after which a partial file may stay that every later run is refused at (hazards, `verify_marker_sequence.py:110`).
In `CycleSearch` the verifier goes on, `WF(Next)`: it is one process that waits for nothing.
`ReleaseGovernance` and `ArchISOQualification` have no fairness: no maintainer is bound to do anything.

### Findings

1. **A restart between the rename of a boot file and its record entry**
   (`RestartDuringActivation`). `activate_boot_bundle` renames a file at line 1141 and marks
   it installed at 1143; `rollback_boot_bundle` restores only marked entries. That file stays
   the new one after rollback journals rolled-back, while `docs/INSTALLER.md:73-75` promises the
   previous boot files "including after a process or machine interruption". `RolledBackIsRestored`
   is the guarantee that does hold: at most one file is astray.
2. **A restart while the record of the boot files is created** (`RestartDuringRecord`). `boot-mutation.json` is
   created in place (line 1138, `create_private`), so a kill, a power loss or a full disk in that call leaves a partial
   record. `rollback_boot_bundle` ends at it with an error (line 1335), nothing removes it, and neither
   `rollback` nor `recover` ever settles the transaction, while `docs/INSTALLER.md:57-59` says that an interrupted transaction
   can be recovered. No boot file was replaced by then; the generation stays published and the packages are gone.
3. **An interrupted rollback of a verified transaction** (`RestartDuringRollback`). `rollback`
   accepts verified and journals nothing before its last step; `recover` passes over verified. The
   target stays half undone under a journal that says verified.
4. **Stacked unsettled transactions** (`StackedRecovery`). `recover` takes the directory's order and
   stops at the first error. With a second transaction begun on an unsettled first one, the lower
   may be rolled back first, and the upper one is then refused at every later `recover`.
5. **The ArchISO profile cannot finish** (`ArchISOSession`). Its sequence (`archiso/calamares/settings.conf:33-45`)
   enables `arachpacman` and has no `arachtransaction@prepare`, so no transaction id is ever stored, and
   the adapter refuses (`arachpacman/main.py:58`) after the disk was partitioned and unpacked.

Two more disagreements have no run, since no state decides them. A component lock inside a release report
may have the fields `format`, `distribution` and `component` only (`verify_release_channels.py:238`), while
`components.lock.toml` also has `composition` and `release_role`, on which `verify-components.py:30` insists. The
exact copy that `docs/RELEASE_INTEGRITY_GATE.md:15-17` asks for is refused, so no record that is true to that
document can be released. And nothing compares the revisions of that copy with those the gates of the release were
qualified on; the model, like the code, compares the gates with the lock of the tree.
`verify_archiso_qualification.py:192-201` and `:238` insist on the sequence of finding 5, with the adapter enabled.

## 4. What is proved

Every safety invariant and every action property that a passing run checks is also a theorem, for every value of
the constants that the named assumptions of the modules allow, and so is the refinement. The assumptions only
give the constants their types (bounds are natural numbers, a name for "none" is no member) and say what the code
insists on itself: a policy the channel verifier accepts, at least one marker, at least one boot file. No theorem
has another hypothesis. Where a property holds only of targets that were never stacked, it says `~stacked` itself.

| module | theorem | statement |
| --- | --- | --- |
| `InstallTransactionProofs` | `TypeCorrect` | `Spec => []TypeOK` |
| | `InductiveInvariant` | `Spec => []IInv` |
| | `EveryMutationJournaled` | `Spec => []MutationsAreJournaled` |
| | `RolledBackRestored` | `Spec => []RolledBackIsRestored` |
| | `RolledBackFinal` | `Spec => RolledBackIsFinal` |
| `InstallTransactionRefinementProofs` | `JournalInvariant`, `PublicationInvariant` | `Spec => []JournalInv`, `[]PublicationInv` |
| | `EveryJournalCoherent` | `Spec => []JournalsCoherent` |
| | `CheckpointLeads` | `Spec => []RuntimeNeverAhead` |
| | `VerifiedPublished` | `Spec => VerifiedIsPublished` |
| | `RollbackNeverRefused` | `Spec => []RollbackIsNeverRefused` |
| | `Implements` | `Spec => ImplementsAtomicInstall` |
| `TargetRecoveryProofs` | `RollbackHasAuthority` | `Spec => RolledBackHasAuthority` |
| | `RecoveryInvariant` | `Spec => []RecoveryInv` |
| | `RollbackRestoresFound` | `Spec => RolledBackToFound` |
| | `QuietTargetIsLast` | `Spec => []QuietTargetExplained` |
| `CalamaresSessionProofs` | `SessionTypeCorrect` | `Spec => []TypeOK` |
| | `CommitSettles` | `Spec => []OpenOnlyByFault` |
| | `PlansAgree` | `Spec => []OnePlan` |
| `ReleaseGovernanceProofs` | `GovernanceInvariant` | `Spec => []GovernanceInv` |
| | `GovernanceTypeCorrect` | `Spec => []TypeOK` |
| | `BuildsSoaked` | `Spec => []SoakedInEachChannel` |
| | `ReleasesSupported` | `Spec => []ReleasesStandOnEvidence` |
| | `BuildsCanBePulled` | `Spec => []EveryBuildCanBePulled` |
| | `RoomIsLeft` | `Spec => []RetentionLeavesRoom` |
| | `NextGateExists` | `Spec => []SomeGateIsNext` |
| `CycleSearchProofs` | `SearchInvariant` | `Spec => []SearchInv` |
| | `SearchTypeCorrect` | `Spec => []TypeOK` |
| | `VerdictExact` | `Spec => []VerdictIsExact` |
| `MarkerSequenceProofs` | `MarkerInvariant` | `Spec => []MarkerInv` |
| | `MarkerTypeCorrect` | `Spec => []TypeOK` |
| | `EvidenceOfItsLog` | `Spec => []EvidenceMatchesLog` |
| | `EvidenceStays` | `Spec => EvidenceIsKept` |
| | `SearchExact` | `Spec => SearchIsExact` |
| `ArchISOQualificationProofs` | `QualificationInvariant` | `Spec => []QualificationInv` |
| | `QualificationTypeCorrect` | `Spec => []TypeOK` |
| | `OneImageAccepted` | `Spec => []AcceptedIsOneImage` |
| | `RestorationAccepted` | `Spec => []AcceptedWasRestored` |
| | `FreshAccepted` | `Spec => []FreshBundleIsAccepted` |

Each preservation lemma has one step per action. Hardly any of the properties is inductive; what each needs
besides is this.

**The transaction.** What makes a rolled-back target restored is what every single step of a rollback left behind.
`IInv` says that, in three groups, each inductive relative to those before it, and proved one after the other:

* `ControlInv`: what a command has in memory, against the journals. While apply runs, memory
  and checkpoint agree, and the status tells how far it came; a rollback works from the journal it
  believed at its start.
* `AuthorityInv`: generation and packages. The checkpoint names the former generation; an
  intended one that is active stands on it; a rollback past a step has undone it. A receipt stands for a
  package that is there, and the converse is not claimed.
* `BootInv`: the loops by their index. While files are placed, the marked ones are those below
  the cursor and those above are untouched; backups are exact; all files that differ from
  before, except at most one, are marked. The one exception is the window of finding 1, and it is
  why the invariant, like the property, is about all files but one. A record that was cut off (`RecordTorn`) stands
  beside boot files that nothing has touched yet.

Two more groups stand on these. `JournalInv` counts: each mutation is in the checkpoint once its step is
done and only once, nothing is undone in a journal that is not rolled-back, and a rollback has counted in memory just
what it has undone. So no rewrite pushes an entry a second time, and `validate_journal` takes what it wrote. `PublicationInv`
follows the generation and the record: after the publication the intended one is active, a complete record marks every
file, and a transaction that was applied has either both or its former boot files. The second case is that of a rollback cut
short, and in it `verify` finds an old file and refuses, which is all that keeps it from accepting a half undone target.

The refinement maps the journal to the state of `AtomicInstall` (`Outcome`). Each action is a stutter there or one step:
`CheckpointTransaction` opens, `Verify` verifies, `JournalRolledBack` restores, and what these find is in `IInv` and
`PublicationInv`; an effect on a package, a boot file or the generation is one `Change`.

**Several transactions.** `AuthorityInv` holds stacked or not: a rollback comes to its last journal entry only with the
generation active that its apply found. As long as none was begun on an unsettled target, everything that runs or is
unsettled is the newest transaction (`NewestInv`), and `Of` says how far that one came or came back: its journal and record
by the effect that is next, the generation, and each boot file by the count of marked entries and the cursor of the loop. `Restored`
is all that is left of that when its record is gone: what it found, but for one file at most. `ChainInv` is the history: each
transaction found what the last one in place before it left, with a stray file at most of each one rolled back in between,
unless one of those was torn by a rollback cut short. That recover restores nothing that was verified follows, for it never
handles any but the newest. Stacked, only `RollbackHasAuthority` is left, and finding 4 shows why.

**The session.** That a commit which is killed names a transaction needs the place of `prepare` in the sequence: `SessionInv`
adds `IdTaken`, which says so, and `CommitSteps`: only a commit verifies or rolls back, so no other job can leave those
steps. `PlanInv` adds to `OnePlan` what the preflight has in hand between its steps, when the files under `/run` may still be of
an earlier attempt.

**The release verifiers.** `GovernanceInv` is that the tree is accepted, and two facts no verifier looks at: no record is
from the future, and the soak a record states is the time since the very record it is promoted from. An edit of that source
would break the second, and is what the uniqueness of numbers and the sameness of builds refuse. What the verifier says of
direct dependencies carries over to their closure since `Below` is the least closed set. `SomeGateIsNext` takes a gate whose
closure is smallest among those not qualified, and `EveryBuildCanBePulled` and `RetentionLeavesRoom` count records.

**The cycle search.** `SearchInv`: the calls that have not returned stand on each other, from the first to the last; what
a call has gone through returned, all but the one it is in; and the nodes that returned stand only on such nodes, and are
on no cycle. A node leaves the stack with all its dependencies returned before it, while itself it was not among them, hence
the last part, though no node is visited again from another root.

**The markers.** `MarkerInv`: the places the loop has taken so far are in order, and in no other way to find the markers does
the last of them come earlier. Therefore a failure is final. Texts of one boot only grow, so what was found
stays found in what is hashed; and a verifier that fills the evidence is the only one, since it created it.

**The qualification.** `QualificationInv`: what is made of something is made of what was there, a part not stale is made
of the others as they are now, and the scenarios follow one another on machines that start from the locked snapshot.

Only model-checked are the liveness properties, `EverySettles`, `RecoverSettlesAll`, `FaultlessAttemptInstalls`, `EvidenceAppears` and
`SearchEnds`: liveness under fairness is beyond the prover. The five violations are counterexamples of TLC.

## 5. Plan

Modules that remain, in this order:

1. **PrepareDocuments**: `prepare` document by document, with the clean-up of a failed one.
2. **PacmanStaging**: the adapter's copies and digests file by file, against a snapshot that changes meanwhile.
3. **AtomicPublication**: staging, trap, rename and sidecar of the image scripts.
4. **InstallerContract**: the sequences `src/lib.rs` accepts, against what CalamaresSession needs.
5. **CIAggregate**: polling against the deadline.

No safety property of the present modules is left without a theorem. The theorems to come are about the modules to come: that
`PrepareDocuments` and `PacmanStaging` implement the single steps that `InstallTransaction` and `CalamaresSession` make of them,
and that an output of `AtomicPublication` which exists has its digest.

Not planned: schema checks of static documents (control matrices, threat model, installer recovery, pins), the
document fuzzer, the QEMU drivers, the sketches under `formal/` and `native/`: they keep no
state whose histories matter, or are not called by the code.
