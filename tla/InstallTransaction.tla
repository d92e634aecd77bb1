------------------------- MODULE InstallTransaction -------------------------
(***************************************************************************)
(* One `arach-install` transaction on one mounted target                   *)
(* (src/src/installer.rs): the commands prepare, apply, verify, rollback   *)
(* and recover, as the sequence of durable effects each of them makes.     *)
(*                                                                         *)
(* A command is a process that runs alone (Calamares runs its jobs one     *)
(* after the other, and recover runs after a restart). One action is one   *)
(* durable effect, and a command may end after any of them: an error it    *)
(* returns, a kill and a power loss leave the same files, and are the one  *)
(* action Interrupt. A journal that is rewritten and the checkpoint        *)
(* directory are renamed into place, their directory fsynced, before the   *)
(* next effect; the record of the boot files is created and filled in two  *)
(* steps (BootActivation). Reboot also loses /run, where the installer     *)
(* keeps the runtime copy of the plan and the journal.                     *)
(*                                                                         *)
(* The journal has two copies: `runtime`, beside the plan given on the     *)
(* command line, and `checkpoint`, on the target; the target's copy is     *)
(* written first and, once it exists, is the one commands believe.         *)
(***************************************************************************)
EXTENDS InstallJournal, BootActivation

CONSTANTS
    MaxFaults,        \* bound on interrupts, reboots and failed activations
    PackageUpdates    \* may Corinth publish another generation later on?

ASSUME BoundsAssumption == MaxFaults \in Nat /\ PackageUpdates \in BOOLEAN

\* What a plan asks of the hardware: a plan with a hardware document may
\* still ask for no package.
Plan == [hardware : BOOLEAN, packages : SUBSET Packages]

\* Where the plan and journal named on the command line are.
Path == {"runtime", "checkpoint"}

VARIABLES
    plan,        \* what the immutable plan asks for
    runtime,     \* the journal under /run, or NoJournal
    checkpoint,  \* the journal on the target; exists iff the directory does
    active,      \* the active Corinth generation of the target
    parent,      \* the generation Corinth goes back to from the active one
    hardware,    \* packages whose files the transaction put on the target
    receipts,    \* those that have a receipt in its checkpoint
    pc,          \* next effect of the running command, or "idle"
    mem,         \* its journal in memory
    caller,      \* the Path it was given
    mirror,      \* it has yet to copy mem from the checkpoint to /run
    faults,      \* faults so far, up to MaxFaults
    before       \* history: boot files and generation prepare found

journalVars == <<runtime, checkpoint, mem, caller, mirror>>
targetVars  == <<active, parent, hardware, receipts>>
fixedVars   == <<plan, before>>
vars == <<bootVars, journalVars, targetVars, fixedVars, pc, faults>>

Applying    == {"provision", "install", "publish", "published",
                "backup", "record", "place", "mark", "applied"}
Activating  == {"backup", "record", "place", "mark"}
RollingBack == {"undo-hardware", "undo-boot", "undo-corinth", "rolled-back"}

HasCheckpoint == checkpoint.status # "Absent"

\* authoritative_journal
Authoritative == IF HasCheckpoint THEN checkpoint ELSE runtime

\* load_bound_documents on the documents at a path.
Loadable(path) ==
    LET j == IF path = "runtime" THEN runtime ELSE checkpoint
    IN  ValidJournal(j)

\* A command may start: nothing is running.
Idle == pc = "idle" /\ ~mirror

\* Mutant: the copy under /run is written first.
RewriteRuntimeFirst(j, path) ==
    /\ mem' = j
    /\ caller' = path
    /\ runtime' = IF path = "runtime" THEN j ELSE runtime
    /\ checkpoint' = IF path = "checkpoint" THEN j ELSE checkpoint
    /\ mirror' = FALSE

\* rewrite_journal_copies: the checkpoint first; the copy under /run, when
\* that is another file, in the step MirrorJournal that must follow.
RewriteJournalCopies(j, path) ==
    /\ mem' = j
    /\ caller' = path
    /\ \/ /\ HasCheckpoint
          /\ checkpoint' = j
          /\ mirror' = (path = "runtime")
          /\ UNCHANGED runtime
       \/ /\ ~HasCheckpoint
          /\ runtime' = j
          /\ mirror' = FALSE
          /\ UNCHANGED checkpoint

MirrorJournal ==
    /\ mirror
    /\ runtime' = mem
    /\ mirror' = FALSE
    /\ UNCHANGED <<bootVars, checkpoint, mem, caller, targetVars, fixedVars,
                   pc, faults>>

\* The running command goes on from `from`, all earlier writes done.
At(from) == pc = from /\ ~mirror

-----------------------------------------------------------------------------
\* prepare and apply

Init ==
    /\ plan \in {p \in Plan : p.packages # {} => p.hardware}
    /\ boot \in [File -> {"absent", "old"}]
    /\ active \in {"none", "prior"}
    /\ before = [boot |-> boot, active |-> active]
    /\ parent = "none"
    /\ saved = [f \in File |-> "absent"]
    /\ record = NoRecord
    /\ cursor = 0
    /\ hardware = {}
    /\ receipts = {}
    /\ runtime = NoJournal
    /\ checkpoint = NoJournal
    /\ mem = NoJournal
    /\ caller = "runtime"
    /\ mirror = FALSE
    /\ pc = "idle"
    /\ faults = 0

\* prepare leaves the plan, what it stages, and a journal that says so. The
\* transaction id is fresh, so no checkpoint of that name exists yet.
Prepare ==
    /\ Idle
    /\ runtime = NoJournal
    /\ ~HasCheckpoint
    /\ runtime' = PreparedJournal
    /\ UNCHANGED <<bootVars, checkpoint, mem, caller, mirror, targetVars,
                   fixedVars, pc, faults>>

\* Mutant: the generation to go back to is not recorded.
ApplyingWithoutPrevious ==
    [runtime EXCEPT !.status = "Applying", !.target = TRUE]

\* The journal apply starts with names the generation it found active.
ApplyingJournal == [runtime EXCEPT !.status = "Applying",
                                   !.target = TRUE,
                                   !.previous = active]

\* Mutant: a checkpoint directory that exists is replaced.
CheckpointOver ==
    /\ Idle
    /\ Loadable("runtime")
    /\ runtime.status = "Prepared"
    /\ checkpoint' = ApplyingJournal
    /\ mem' = ApplyingJournal
    /\ caller' = "runtime"
    /\ mirror' = TRUE
    /\ pc' = IF plan.hardware THEN "provision" ELSE "publish"
    /\ UNCHANGED <<bootVars, runtime, targetVars, fixedVars, faults>>

\* apply reads the active generation and publishes the checkpoint directory,
\* plan, generation and journal in it, by one rename.
CheckpointTransaction ==
    /\ Idle
    /\ Loadable("runtime")
    /\ runtime.status = "Prepared"
    /\ ~HasCheckpoint
    /\ checkpoint' = ApplyingJournal
    /\ mem' = ApplyingJournal
    /\ caller' = "runtime"
    /\ mirror' = TRUE
    /\ pc' = IF plan.hardware THEN "provision" ELSE "publish"
    /\ UNCHANGED <<bootVars, runtime, targetVars, fixedVars, faults>>

\* provision_hardware logs every package it expects before it installs one,
\* and logs nothing for a plan that asks for none.
LogHardware ==
    /\ At("provision")
    /\ \/ /\ plan.packages # {}
          /\ RewriteJournalCopies(
                 Push([mem EXCEPT !.packages = plan.packages],
                      "hardware-provisioning"), caller)
       \/ /\ plan.packages = {}
          /\ UNCHANGED journalVars
    /\ pc' = "install"
    /\ UNCHANGED <<bootVars, targetVars, fixedVars, faults>>

\* Corinth puts the files of a package on the target, and then writes the
\* receipt that rollback looks for.
InstallPackage(p) ==
    /\ At("install")
    /\ p \in plan.packages \ hardware
    /\ hardware' = hardware \cup {p}
    /\ UNCHANGED <<bootVars, journalVars, active, parent, receipts, fixedVars,
                   pc, faults>>

ReceiptPackage(p) ==
    /\ At("install")
    /\ p \in hardware \ receipts
    /\ receipts' = receipts \cup {p}
    /\ UNCHANGED <<bootVars, journalVars, active, parent, hardware, fixedVars,
                   pc, faults>>

\* The journal's packages become those of the receipts.
SealHardware ==
    /\ At("install")
    /\ plan.packages \subseteq receipts
    /\ RewriteJournalCopies([mem EXCEPT !.packages = receipts], caller)
    /\ pc' = "publish"
    /\ UNCHANGED <<bootVars, targetVars, fixedVars, faults>>

PublishGeneration ==
    /\ At("publish")
    /\ parent' = active
    /\ active' = "intended"
    /\ pc' = "published"
    /\ UNCHANGED <<bootVars, journalVars, hardware, receipts, fixedVars,
                   faults>>

\* From here on activate_boot_bundle runs, its first loop at file 1.
JournalPublished ==
    /\ At("published")
    /\ RewriteJournalCopies(
           Push([mem EXCEPT !.status = "CorinthPublished",
                            !.published = TRUE], "corinth-generation"), caller)
    /\ pc' = "backup"
    /\ cursor' = 1
    /\ UNCHANGED <<boot, saved, record, targetVars, fixedVars, faults>>

Activate(from, step, to) ==
    /\ At(from)
    /\ step
    /\ pc' = to
    /\ UNCHANGED <<journalVars, targetVars, fixedVars, faults>>

ActivateBackup   == Activate("backup", BackupFile, "backup")
ActivateCreate   == Activate("backup", CreateRecord, "record")
ActivateRecord   == Activate("record", WriteRecord, "place")
ActivatePlace    == Activate("place", PlaceFile, "mark")
ActivateMark     == Activate("mark", MarkInstalled, "place")
ActivateComplete == Activate("place", CompleteRecord, "applied")

\* An error anywhere in activate_boot_bundle is journaled before apply
\* returns it; the step that failed may have had its effect, the last one
\* included, and a record that could not be filled stays as it is.
ActivationFails ==
    /\ pc \in Activating \cup {"applied"}
    /\ ~mirror
    /\ faults < MaxFaults
    /\ faults' = faults + 1
    /\ RewriteJournalCopies([mem EXCEPT !.status = "ApplyFailed"], caller)
    /\ pc' = "idle"
    /\ cursor' = 0
    /\ UNCHANGED <<boot, saved, record, targetVars, fixedVars>>

JournalApplied ==
    /\ At("applied")
    /\ RewriteJournalCopies(
           Push([mem EXCEPT !.status = "Applied"], "boot-bundle"), caller)
    /\ pc' = "idle"
    /\ UNCHANGED <<bootVars, targetVars, fixedVars, faults>>

-----------------------------------------------------------------------------
\* verify, rollback and recover

Verify(path) ==
    /\ Idle
    /\ Loadable(path)
    /\ ValidJournal(Authoritative)
    /\ Authoritative.status = "Applied"
    /\ BundleInstalled
    /\ RewriteJournalCopies([Authoritative EXCEPT !.status = "Verified"], path)
    /\ UNCHANGED <<bootVars, targetVars, fixedVars, pc, faults>>

\* Nothing is journaled until the last step of a rollback.
BeginRollback(path, statuses) ==
    /\ Idle
    /\ Loadable(path)
    /\ ValidJournal(Authoritative)
    /\ Authoritative.status \in statuses
    /\ mem' = Authoritative
    /\ caller' = path
    /\ pc' = "undo-hardware"
    /\ UNCHANGED <<bootVars, runtime, checkpoint, mirror, targetVars,
                   fixedVars, faults>>

Rollback(path) == BeginRollback(path, RollbackStatus)

\* recover reads only the target: it runs the rollback of a checkpoint it
\* finds unsettled, with the checkpoint's own documents.
Recover == HasCheckpoint /\ BeginRollback("checkpoint", RecoverStatus)

\* rollback_hardware removes the journaled packages that have a receipt.
Removable ==
    IF Logged(mem, "hardware-provisioning") THEN mem.packages \cap receipts
    ELSE {}

RemovePackage(p) ==
    /\ At("undo-hardware")
    /\ p \in Removable
    /\ hardware' = hardware \ {p}
    /\ receipts' = receipts \ {p}
    /\ UNCHANGED <<bootVars, journalVars, active, parent, fixedVars, pc,
                   faults>>

\* Mutant: the first package removed is taken for the last.
HardwareUndoneEarly ==
    /\ At("undo-hardware")
    /\ mem' = PushUndone(mem, "hardware-provisioning",
                         "hardware-provisioning:rolled-back")
    /\ pc' = "undo-boot"
    /\ cursor' = IF record.exists THEN FileCount ELSE 0
    /\ UNCHANGED <<boot, saved, record, runtime, checkpoint, caller, mirror,
                   targetVars, fixedVars, faults>>

HardwareUndone ==
    /\ At("undo-hardware")
    /\ Removable = {}
    /\ mem' = PushUndone(mem, "hardware-provisioning",
                         "hardware-provisioning:rolled-back")
    /\ pc' = "undo-boot"
    /\ cursor' = IF record.exists THEN FileCount ELSE 0
    /\ UNCHANGED <<boot, saved, record, runtime, checkpoint, caller, mirror,
                   targetVars, fixedVars, faults>>

RestoreBootFile ==
    /\ At("undo-boot")
    /\ RestoreFile
    /\ UNCHANGED <<journalVars, targetVars, fixedVars, pc, faults>>

\* A record that cannot be read is an error, found after the packages went;
\* nothing ever repairs or removes it, so every later rollback ends here.
RefuseRecord ==
    /\ At("undo-boot")
    /\ RecordTorn
    /\ pc' = "idle"
    /\ cursor' = 0
    /\ UNCHANGED <<boot, saved, record, journalVars, targetVars, fixedVars,
                   faults>>

\* Mutant: the undone boot bundle is not logged.
BootUndoneUnlogged ==
    /\ At("undo-boot")
    /\ RemoveRecord
    /\ pc' = "undo-corinth"
    /\ UNCHANGED <<journalVars, targetVars, fixedVars, faults>>

BootUndone ==
    /\ At("undo-boot")
    /\ RemoveRecord
    /\ mem' = PushUndone(mem, "boot-bundle", "boot-bundle:rolled-back")
    /\ pc' = "undo-corinth"
    /\ UNCHANGED <<runtime, checkpoint, caller, mirror, targetVars, fixedVars,
                   faults>>

\* Mutant: a publication that was not journaled is taken not to have happened.
CorinthNotJournaled ==
    \/ mem.status \in {"Prepared", "Applying"}
    \/ active = mem.previous

\* rollback_corinth has nothing to do for a transaction that never reached
\* the target, or when the previous generation is the active one.
CorinthUntouched ==
    \/ mem.status = "Prepared" /\ ~mem.target
    \/ active = mem.previous

\* Corinth goes back from the intended generation to the one below it; that
\* this is another than the journaled one is found out afterwards.
RollbackCorinth ==
    /\ At("undo-corinth")
    /\ \/ /\ CorinthUntouched
          /\ pc' = "rolled-back"
          /\ UNCHANGED active
       \/ /\ ~CorinthUntouched
          /\ active = "intended"
          /\ active' = parent
          /\ pc' = IF parent = mem.previous THEN "rolled-back" ELSE "idle"
    /\ UNCHANGED <<bootVars, journalVars, parent, hardware, receipts,
                   fixedVars, faults>>

\* Any other active generation is an error, found after the hardware and
\* the boot files went back.
RefuseCorinth ==
    /\ At("undo-corinth")
    /\ ~CorinthUntouched
    /\ active # "intended"
    /\ pc' = "idle"
    /\ UNCHANGED <<bootVars, journalVars, targetVars, fixedVars, faults>>

JournalRolledBack ==
    /\ At("rolled-back")
    /\ RewriteJournalCopies(
           PushOnce([mem EXCEPT !.status = "RolledBack",
                                !.target = TRUE,
                                !.published = FALSE],
                    "corinth-generation:rolled-back"), caller)
    /\ pc' = "idle"
    /\ UNCHANGED <<bootVars, targetVars, fixedVars, faults>>

-----------------------------------------------------------------------------
\* Faults and the environment

\* The running command ends here; what it made durable stays.
Interrupt ==
    /\ ~Idle
    /\ faults < MaxFaults
    /\ faults' = faults + 1
    /\ pc' = "idle"
    /\ mem' = NoJournal
    /\ mirror' = FALSE
    /\ cursor' = 0
    /\ UNCHANGED <<boot, saved, record, runtime, checkpoint, caller,
                   targetVars, fixedVars>>

\* The machine restarts: /run starts empty.
Reboot ==
    /\ faults < MaxFaults
    /\ faults' = faults + 1
    /\ pc' = "idle"
    /\ mem' = NoJournal
    /\ mirror' = FALSE
    /\ cursor' = 0
    /\ runtime' = NoJournal
    /\ UNCHANGED <<boot, saved, record, checkpoint, caller, targetVars,
                   fixedVars>>

\* Corinth publishes a newer generation on the installed target.
PackageUpdate ==
    /\ PackageUpdates
    /\ Idle
    /\ checkpoint.status \in {"Applied", "Verified"}
    /\ active = "intended"
    /\ active' = "later"
    /\ parent' = "intended"
    /\ UNCHANGED <<bootVars, journalVars, hardware, receipts, fixedVars, pc,
                   faults>>

-----------------------------------------------------------------------------

Apply ==
    \/ CheckpointTransaction
    \/ LogHardware
    \/ \E p \in Packages : InstallPackage(p) \/ ReceiptPackage(p)
    \/ SealHardware
    \/ PublishGeneration
    \/ JournalPublished
    \/ ActivateBackup
    \/ ActivateCreate
    \/ ActivateRecord
    \/ ActivatePlace
    \/ ActivateMark
    \/ ActivateComplete
    \/ JournalApplied

Undo ==
    \/ \E p \in Packages : RemovePackage(p)
    \/ HardwareUndone
    \/ RestoreBootFile
    \/ RefuseRecord
    \/ BootUndone
    \/ RollbackCorinth
    \/ RefuseCorinth
    \/ JournalRolledBack

Next ==
    \/ Prepare
    \/ Apply
    \/ MirrorJournal
    \/ ActivationFails
    \/ \E path \in Path : Verify(path) \/ Rollback(path)
    \/ Recover
    \/ Undo
    \/ Interrupt
    \/ Reboot
    \/ PackageUpdate

Spec == Init /\ [][Next]_vars

\* A command that runs goes on to its end or to a fault, and whoever restarts
\* the machine runs recover. Nobody is bound to prepare, apply or verify.
Continue == ~Idle /\ (Apply \/ Undo \/ MirrorJournal)

FairSpec == Spec /\ WF_vars(Continue) /\ WF_vars(Recover)

-----------------------------------------------------------------------------
\* Properties

\* Every variable keeps its type, and memory holds a journal whenever a
\* command runs.
TypeOK ==
    /\ BootType
    /\ plan \in Plan
    /\ runtime \in Journal
    /\ checkpoint \in Journal
    /\ mem \in Journal
    /\ caller \in Path
    /\ mirror \in BOOLEAN
    /\ active \in Generation
    /\ parent \in Generation
    /\ hardware \in SUBSET Packages
    /\ receipts \in SUBSET Packages
    /\ pc \in {"idle"} \cup Applying \cup RollingBack
    /\ faults \in 0..MaxFaults
    /\ before \in [boot : [File -> Content], active : Generation]

\* validate_journal accepts both copies whenever they exist, wherever the
\* commands and the faults left them: no sequence of transitions writes a
\* journal that load_bound_documents would then refuse for good.
JournalsCoherent ==
    /\ HasCheckpoint => ValidJournal(checkpoint)
    /\ runtime # NoJournal => ValidJournal(runtime)

Rank == [s \in Status |->
           CASE s = "Absent"           -> 0
             [] s = "Prepared"         -> 1
             [] s = "Applying"         -> 2
             [] s = "CorinthPublished" -> 3
             [] s = "ApplyFailed"      -> 4
             [] s = "Applied"          -> 5
             [] s = "Verified"         -> 6
             [] s = "RolledBack"       -> 7]

\* The copy under /run only ever lags behind the checkpoint, so a command
\* that believes the checkpoint (authoritative_journal) never goes back.
RuntimeNeverAhead ==
    HasCheckpoint => Rank[runtime.status] <= Rank[checkpoint.status]

\* Whatever changed on the target, the checkpoint already names what undoes
\* it: nothing changes before the checkpoint exists, packages are logged
\* before they are installed, the previous generation is journaled before
\* another one is published, and a replaced boot file that is marked has its
\* own former content in the backup.
MutationsAreJournaled ==
    /\ ~HasCheckpoint => /\ boot = before.boot
                         /\ active = before.active
                         /\ hardware = {}
                         /\ ~record.exists
    /\ hardware # {} => /\ hardware \subseteq checkpoint.packages
                        /\ Logged(checkpoint, "hardware-provisioning")
    /\ receipts \subseteq hardware
    /\ receipts # {} => checkpoint.status # "RolledBack"
    /\ active # before.active => checkpoint.previous = before.active
    /\ \A f \in record.installed :
          IF f \in record.backup THEN saved[f] = before.boot[f]
          ELSE before.boot[f] = "absent"

\* A transaction whose journal says rolled-back left nothing behind on the
\* target that it kept an account of: the former generation is active, every
\* package that got its receipt is gone and, but for at most one file, the
\* former boot files are in place. The one file is the one whose rename an
\* interruption separated from its record entry. What an interruption put
\* between the files of a package and its receipt stays as well
\* (rollback_hardware goes by the receipts).
RolledBackIsRestored ==
    checkpoint.status = "RolledBack" =>
        /\ active = before.active
        /\ receipts = {}
        /\ ~record.exists
        /\ \E f \in File : \A g \in File \ {f} : boot[g] = before.boot[g]

\* rolled-back is final: no later command, whichever copy of the documents
\* it is given, touches the target or the checkpoint again.
RolledBackIsFinal ==
    [][checkpoint.status = "RolledBack" =>
         UNCHANGED <<checkpoint, boot, record, active, hardware,
                     receipts>>]_vars

\* A transaction becomes verified only while the whole bundle is installed
\* and its own generation, or one published on top of it, is active, though
\* verify looks at neither the generation nor the record of the boot files.
VerifiedIsPublished ==
    [][checkpoint'.status = "Verified" /\ checkpoint.status # "Verified" =>
         /\ \A f \in File : boot[f] = "new"
         /\ active \in {"intended", "later"}
         /\ record.exists /\ record.complete]_vars

\* Unless Corinth published a generation on top, rollback never ends at one of
\* rollback_corinth's errors, with the boot files already restored: the
\* active generation is one of its two authorities, and the intended one
\* stands on the previous one.
RollbackIsNeverRefused ==
    pc = "undo-corinth" /\ ~CorinthUntouched =>
        active = "later" \/ (active = "intended" /\ parent = mem.previous)

\* Under recover after every restart, each transaction that reached the
\* target ends verified or rolled back, unless a generation on top of its own
\* makes rollback refuse, or a fault left the record of the boot files cut
\* off. Once the record is whole it is never cut off again.
EverySettles ==
    HasCheckpoint ~> \/ checkpoint.status \in Settled
                     \/ active = "later"
                     \/ RecordTorn

\* What docs/INSTALLER.md says of recover, that it can recover an interrupted
\* transaction, of every transaction that reached the target.
RecoverSettles == HasCheckpoint ~> checkpoint.status \in Settled

\* What docs/INSTALLER.md says of rollback: it restores the previous boot
\* files, including after a process or machine interruption.
RollbackRestoresBootFiles ==
    checkpoint.status = "RolledBack" => boot = before.boot

\* What docs/INSTALLER.md says of an interrupted rollback, for one that began
\* after verify: recover, run after every restart, brings it to its end.
VerifiedRollbackFinishes ==
    (pc = "undo-boot" /\ mem.status = "Verified")
        ~> checkpoint.status = "RolledBack"

-----------------------------------------------------------------------------
\* What the transaction promises, in AtomicInstall's terms.

Outcome ==
    CASE checkpoint.status = "Absent"     -> "untouched"
      [] checkpoint.status = "RolledBack" -> "restored"
      [] checkpoint.status = "Verified"   -> "verified"
      [] OTHER                            -> "open"

Promised == INSTANCE AtomicInstall WITH
                outcome <- Outcome,
                published <- active # before.active,
                provisioned <- hardware,
                recorded <- receipts,
                replaced <- {f \in File : boot[f] # before.boot[f]}

\* The detailed transaction implements the abstract installation.
ImplementsAtomicInstall == Promised!Spec
=============================================================================
