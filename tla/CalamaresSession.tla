-------------------------- MODULE CalamaresSession --------------------------
(***************************************************************************)
(* The exec sequence of an installation medium (src/installer/calamares    *)
(* and src/archiso/calamares), over several attempts in one live session.  *)
(*                                                                         *)
(* Calamares runs the jobs of `exec` one after the other and stops at the  *)
(* first that fails. Its global storage is gone when the user starts it    *)
(* again; the files under /run/arach-installer stay until the machine      *)
(* restarts, and what is on the target stays unless a partition job        *)
(* formats it. This module models the hardware preflight, the transaction  *)
(* job and the Pacman adapter step by step, and the other jobs, which are  *)
(* Calamares' own, by their success or failure. `arach-install` is what    *)
(* AtomicInstall promises: here a transaction on the target is absent,     *)
(* open, verified or restored; one is stuck that is open with a record of  *)
(* the boot files cut off by a fault, which every rollback refuses         *)
(* (RefuseRecord of InstallTransaction).                                   *)
(*                                                                         *)
(* The catalog decides the hardware plan (the machine does not change), so *)
(* a plan is named by the catalog it was resolved from.                    *)
(***************************************************************************)
EXTENDS Naturals, Sequences

CONSTANTS
    Profile,         \* "native" or "archiso", the settings.conf on the medium
    Catalogs,        \* what a hardware catalog may be
    Offline,         \* the one on the medium, under /etc/arach/hwd
    None,            \* no catalog, no file
    Attempts,        \* bound: times Calamares is started
    MaxFaults        \* bound: failed programs, kills and restarts

ASSUME SessionAssumption == /\ Profile \in {"native", "archiso"}
                            /\ Offline \in Catalogs
                            /\ None \notin Catalogs
                            /\ Attempts \in Nat
                            /\ MaxFaults \in Nat

NativeExec == <<"preflight", "prepare", "partition", "mount", "unpackfs",
                "machineid", "locale", "keyboard", "users", "pacman",
                "commit", "umount">>

ArchISOExec == <<"preflight", "partition", "mount", "unpackfs", "machineid",
                 "locale", "keyboard", "users", "packages", "pacman",
                 "bootloader", "umount">>

Exec == IF Profile = "native" THEN NativeExec ELSE ArchISOExec

Transaction == 1..Attempts   \* by the attempt that took its id

VARIABLES
    config,      \* of the medium: repository.toml, `enabled` of arach-pacman.conf
    remote,      \* the catalog under /run, and whether all of it is there
    root,        \* active_catalog of the running preflight
    planFile,    \* hardware.plan.toml, by catalog
    receipt,     \* hardware.plan.verified.json: the plan and lock it binds
    staged,      \* the plan in each transaction directory under /run
    storage,     \* global storage of the running Calamares
    outcome,     \* each transaction, by its checkpoint on the target
    payload,     \* Pacman packages on the target, by the plan they are for
    attempt, job, step, faults,
    cut          \* history: commits killed, or whose rollback failed

catalogVars == <<config, remote, root>>
runVars     == <<planFile, receipt, staged>>
targetVars  == <<outcome, payload, cut>>
vars == <<catalogVars, runVars, storage, targetVars, attempt, job, step, faults>>

\* The adapter comes disabled on the native medium, enabled on the ArchISO one.
Config == [repository : {"absent", "optional", "required"}, pacman : BOOLEAN]

\* The transactions not settled; some of them no rollback will settle.
Outcome == {"absent", "open", "stuck", "verified", "restored"}
IsOpen(t) == outcome[t] \in {"open", "stuck"}

NoCatalog == [content |-> None, complete |-> FALSE]
RemoteCatalog == [content : Catalogs, complete : BOOLEAN]

NoReceipt == [plan |-> None, catalog |-> None]

\* The transaction id (0 if absent), whether the paths of plan and receipt
\* are stored, the catalog root, and whether rootMountPoint is.
EmptyStorage == [id |-> 0, plan |-> FALSE, root |-> "none", mounted |-> FALSE]

Catalog(at) == IF at = "offline" THEN [content |-> Offline, complete |-> TRUE]
               ELSE remote

Init ==
    /\ config \in Config
    /\ Profile = "archiso" => config.pacman
    /\ remote = NoCatalog
    /\ root = "offline"
    /\ planFile = None
    /\ receipt = NoReceipt
    /\ staged = [t \in Transaction |-> None]
    /\ storage = EmptyStorage
    /\ outcome = [t \in Transaction |-> "absent"]
    /\ payload = None
    /\ attempt = 0
    /\ job = 0
    /\ step = "start"
    /\ faults = 0
    /\ cut = {}

Running == job \in 1..Len(Exec)
Installed == job = Len(Exec) + 1

At(name, s) == Running /\ Exec[job] = name /\ step = s

\* Mutant: a job is passed over.
SkipJob == job' = job + 2 /\ step' = "start"

NextJob == job' = job + 1 /\ step' = "start"

\* The job returned an error: Calamares runs no further one.
FailJob == job' = 0 /\ step' = "start"

GoTo(s) == step' = s /\ UNCHANGED job

Fault == faults < MaxFaults /\ faults' = faults + 1

\* The user starts Calamares, once more.
Start ==
    /\ job = 0
    /\ attempt < Attempts
    /\ attempt' = attempt + 1
    /\ job' = 1
    /\ step' = "start"
    /\ storage' = EmptyStorage
    /\ UNCHANGED <<catalogVars, runVars, targetVars, faults>>

-----------------------------------------------------------------------------
\* arachhardware@preflight

UseOffline ==
    /\ At("preflight", "start")
    /\ config.repository = "absent"
    /\ root' = "offline"
    /\ GoTo("plan")
    /\ UNCHANGED <<config, remote, runVars, storage, targetVars, attempt,
                   faults>>

\* Mutant: a catalog that exists is an error.
RefuseExisting ==
    /\ At("preflight", "start")
    /\ config.repository # "absent"
    /\ remote # NoCatalog
    /\ FailJob
    /\ UNCHANGED <<catalogVars, runVars, storage, targetVars, attempt, faults>>

\* A catalog that exists under /run is taken as it is.
UseExisting ==
    /\ At("preflight", "start")
    /\ config.repository # "absent"
    /\ remote # NoCatalog
    /\ root' = "remote"
    /\ GoTo("plan")
    /\ UNCHANGED <<config, remote, runVars, storage, targetVars, attempt,
                   faults>>

SyncCatalog ==
    /\ At("preflight", "start")
    /\ config.repository # "absent"
    /\ remote = NoCatalog
    /\ remote' \in {c \in RemoteCatalog : c.complete}
    /\ root' = "remote"
    /\ GoTo("plan")
    /\ UNCHANGED <<config, runVars, storage, targetVars, attempt, faults>>

\* The synchronisation fails, or is stopped after 300 s with its output in
\* whatever state: a required repository fails the job, and an optional one
\* is passed over for the catalog of the medium.
SyncFails ==
    /\ At("preflight", "start")
    /\ config.repository # "absent"
    /\ remote = NoCatalog
    /\ Fault
    /\ remote' \in {NoCatalog} \cup RemoteCatalog
    /\ \/ config.repository = "required" /\ FailJob /\ UNCHANGED root
       \/ config.repository = "optional" /\ GoTo("plan") /\ root' = "offline"
    /\ UNCHANGED <<config, runVars, storage, targetVars, attempt>>

RefuseIncomplete ==
    /\ At("preflight", "plan")
    /\ ~Catalog(root).complete
    /\ FailJob
    /\ UNCHANGED <<catalogVars, runVars, storage, targetVars, attempt, faults>>

\* arach-hwd plan.
PlanHardware ==
    /\ At("preflight", "plan")
    /\ Catalog(root).complete
    /\ planFile' = Catalog(root).content
    /\ GoTo("report")
    /\ UNCHANGED <<catalogVars, receipt, staged, storage, targetVars, attempt,
                   faults>>

\* It fails, or is stopped after 300 s, its output written or not.
PlanFails ==
    /\ At("preflight", "plan")
    /\ Catalog(root).complete
    /\ Fault
    /\ planFile' \in {planFile, Catalog(root).content}
    /\ FailJob
    /\ UNCHANGED <<catalogVars, receipt, staged, storage, targetVars, attempt>>

\* arach-hwd preflight, whose report nothing later reads.
ReportHardware ==
    /\ At("preflight", "report")
    /\ GoTo("receipt")
    /\ UNCHANGED <<catalogVars, runVars, storage, targetVars, attempt, faults>>

WriteReceipt ==
    /\ At("preflight", "receipt")
    /\ receipt' = [plan |-> planFile, catalog |-> Catalog(root).content]
    /\ GoTo("store")
    /\ UNCHANGED <<catalogVars, planFile, staged, storage, targetVars, attempt,
                   faults>>

\* Mutant: the configured paths are stored, not those of the active catalog.
StoreConfigured ==
    /\ At("preflight", "store")
    /\ storage' = [storage EXCEPT !.plan = TRUE, !.root = "offline"]
    /\ NextJob
    /\ UNCHANGED <<catalogVars, runVars, targetVars, attempt, faults>>

StorePaths ==
    /\ At("preflight", "store")
    /\ storage' = [storage EXCEPT !.plan = TRUE, !.root = root]
    /\ NextJob
    /\ UNCHANGED <<catalogVars, runVars, targetVars, attempt, faults>>

-----------------------------------------------------------------------------
\* arachtransaction@prepare, and the jobs of Calamares

\* The id is stored before anything is done with it; one that is stored
\* already is an error, which a sequence with one prepare cannot make.
TakeId ==
    /\ At("prepare", "start")
    /\ storage.id = 0
    /\ storage' = [storage EXCEPT !.id = attempt]
    /\ GoTo("prepare")
    /\ UNCHANGED <<catalogVars, runVars, targetVars, attempt, faults>>

\* arach-install prepare copies the plan into the transaction directory.
Prepare ==
    /\ At("prepare", "prepare")
    /\ storage.plan
    /\ staged' = [staged EXCEPT ![storage.id] = planFile]
    /\ NextJob
    /\ UNCHANGED <<catalogVars, planFile, receipt, storage, targetVars, attempt,
                   faults>>

\* The user chose to keep what is on the target, or to format it.
Partition ==
    /\ At("partition", "start")
    /\ \/ UNCHANGED targetVars
       \/ /\ outcome' = [t \in Transaction |-> "absent"]
          /\ payload' = None
          /\ cut' = {}
    /\ NextJob
    /\ UNCHANGED <<catalogVars, runVars, storage, attempt, faults>>

Mount ==
    /\ At("mount", "start")
    /\ storage' = [storage EXCEPT !.mounted = TRUE]
    /\ NextJob
    /\ UNCHANGED <<catalogVars, runVars, targetVars, attempt, faults>>

OtherJob ==
    /\ Running
    /\ Exec[job] \notin {"preflight", "prepare", "partition", "mount", "pacman",
                         "commit"}
    /\ NextJob
    /\ UNCHANGED <<catalogVars, runVars, storage, targetVars, attempt, faults>>

\* A job fails and leaves nothing: what the report, the receipt or prepare
\* leave is written again by the next attempt before it is read.
JobFails ==
    /\ Running
    /\ Exec[job] \notin {"pacman", "commit"}
    /\ Exec[job] = "preflight" => step \in {"report", "receipt"}
    /\ Fault
    /\ FailJob
    /\ UNCHANGED <<catalogVars, runVars, storage, targetVars, attempt>>

-----------------------------------------------------------------------------
\* arachpacman

SkipPacman ==
    /\ At("pacman", "start")
    /\ ~config.pacman
    /\ NextJob
    /\ UNCHANGED <<catalogVars, runVars, storage, targetVars, attempt, faults>>

\* What run and stage_and_authorize require: the stored paths, target and
\* transaction, a receipt for the plan and for the catalog of the medium,
\* whatever catalog the plan is from, and a signed snapshot, which the medium
\* carries for the plan of its own catalog.
Authorized ==
    /\ storage.plan
    /\ storage.mounted
    /\ storage.id # 0
    /\ receipt = [plan |-> planFile, catalog |-> Offline]
    /\ planFile = Offline

RefusePacman ==
    /\ At("pacman", "start")
    /\ config.pacman
    /\ ~Authorized
    /\ FailJob
    /\ UNCHANGED <<catalogVars, runVars, storage, targetVars, attempt, faults>>

StagePayload ==
    /\ At("pacman", "start")
    /\ config.pacman
    /\ Authorized
    /\ GoTo("install")
    /\ UNCHANGED <<catalogVars, runVars, storage, targetVars, attempt, faults>>

\* pacman -U, from the staged copies.
InstallPayload ==
    /\ At("pacman", "install")
    /\ payload' = planFile
    /\ NextJob
    /\ UNCHANGED <<catalogVars, runVars, storage, outcome, cut, attempt, faults>>

\* Staging or Pacman fails; Pacman may have installed something.
PacmanFails ==
    /\ Running
    /\ Exec[job] = "pacman"
    /\ config.pacman
    /\ Fault
    /\ payload' \in IF step = "install" THEN {payload, planFile} ELSE {payload}
    /\ FailJob
    /\ UNCHANGED <<catalogVars, runVars, storage, outcome, cut, attempt>>

-----------------------------------------------------------------------------
\* arachtransaction@commit

SetOutcome(o) == outcome' = [outcome EXCEPT ![storage.id] = o]

Apply ==
    /\ At("commit", "start")
    /\ storage.id # 0
    /\ storage.mounted
    /\ SetOutcome("open")
    /\ GoTo("verify")
    /\ UNCHANGED <<catalogVars, runVars, storage, payload, cut, attempt, faults>>

\* apply fails before its checkpoint, after it, or while it creates the record
\* of the boot files.
ApplyFails ==
    /\ At("commit", "start")
    /\ storage.id # 0
    /\ storage.mounted
    /\ Fault
    /\ \/ UNCHANGED outcome
       \/ \E o \in {"open", "stuck"} : SetOutcome(o)
    /\ GoTo("rollback")
    /\ UNCHANGED <<catalogVars, runVars, storage, payload, cut, attempt>>

Verify ==
    /\ At("commit", "verify")
    /\ SetOutcome("verified")
    /\ NextJob
    /\ UNCHANGED <<catalogVars, runVars, storage, payload, cut, attempt, faults>>

\* Mutant: verify is outside the try that rolls back.
VerifyFailsUncaught ==
    /\ At("commit", "verify")
    /\ Fault
    /\ FailJob
    /\ UNCHANGED <<catalogVars, runVars, storage, targetVars, attempt>>

VerifyFails ==
    /\ At("commit", "verify")
    /\ Fault
    /\ GoTo("rollback")
    /\ UNCHANGED <<catalogVars, runVars, storage, targetVars, attempt>>

\* The job fails all the same: the first error is raised again. A transaction
\* that never reached the target leaves no checkpoint there.
RollBack ==
    /\ At("commit", "rollback")
    /\ \/ outcome[storage.id] = "absent" /\ UNCHANGED outcome
       \/ outcome[storage.id] = "open" /\ SetOutcome("restored")
    /\ FailJob
    /\ UNCHANGED <<catalogVars, runVars, storage, payload, cut, attempt, faults>>

\* The second error takes the place of the first.
RefuseRollBack ==
    /\ At("commit", "rollback")
    /\ outcome[storage.id] = "stuck"
    /\ cut' = cut \cup {storage.id}
    /\ FailJob
    /\ UNCHANGED <<catalogVars, runVars, storage, outcome, payload, attempt, faults>>

RollBackFails ==
    /\ At("commit", "rollback")
    /\ Fault
    /\ cut' = cut \cup {storage.id}
    /\ FailJob
    /\ UNCHANGED <<catalogVars, runVars, storage, outcome, payload, attempt>>

-----------------------------------------------------------------------------
\* The machine and the operator

CutShort == cut' = IF Running /\ Exec[job] = "commit"
                   THEN cut \cup {storage.id} ELSE cut

\* apply may have got as far as its checkpoint, a synchronisation anywhere.
HalfApplied == \/ UNCHANGED outcome
               \/ /\ At("commit", "start")
                  /\ \E o \in {"open", "stuck"} : SetOutcome(o)

HalfSynchronised == \/ UNCHANGED remote
                    \/ /\ At("preflight", "start")
                       /\ config.repository # "absent"
                       /\ remote = NoCatalog
                       /\ remote' \in RemoteCatalog

\* Calamares dies, and the program it runs.
Kill ==
    /\ Running
    /\ Fault
    /\ FailJob
    /\ CutShort
    /\ HalfApplied
    /\ HalfSynchronised
    /\ UNCHANGED <<config, root, runVars, storage, payload, attempt>>

\* The live system restarts, and /run is empty.
Reboot ==
    /\ ~Installed
    /\ Fault
    /\ FailJob
    /\ CutShort
    /\ HalfApplied
    /\ remote' = NoCatalog
    /\ planFile' = None
    /\ receipt' = NoReceipt
    /\ staged' = [t \in Transaction |-> None]
    /\ UNCHANGED <<config, root, storage, payload, attempt>>

\* arach-install recover: it restores the open transactions, up to the first
\* it comes to that is stuck or whose authority is refused (TargetRecovery).
Recover ==
    /\ job = 0
    /\ \E back \in SUBSET {t \in Transaction : outcome[t] = "open"} :
          /\ back # {}
          /\ outcome' = [t \in Transaction |->
                           IF t \in back THEN "restored" ELSE outcome[t]]
    /\ UNCHANGED <<catalogVars, runVars, storage, payload, cut, attempt, job,
                   step, faults>>

-----------------------------------------------------------------------------

Preflight == \/ UseOffline \/ UseExisting \/ SyncCatalog \/ RefuseIncomplete
             \/ PlanHardware \/ ReportHardware \/ WriteReceipt \/ StorePaths

Pacman == SkipPacman \/ RefusePacman \/ StagePayload \/ InstallPayload

Commit == Apply \/ Verify \/ RollBack \/ RefuseRollBack

\* What the running job does when nothing fails.
Continue ==
    \/ Preflight
    \/ TakeId
    \/ Prepare
    \/ Partition
    \/ Mount
    \/ OtherJob
    \/ Pacman
    \/ Commit

Fails ==
    \/ SyncFails
    \/ PlanFails
    \/ JobFails
    \/ PacmanFails
    \/ ApplyFails
    \/ VerifyFails
    \/ RollBackFails
    \/ Kill
    \/ Reboot

Next == Start \/ Continue \/ Fails \/ Recover

Spec == Init /\ [][Next]_vars

\* Calamares goes on with the sequence it runs; nobody is bound to start it.
FairSpec == Spec /\ WF_vars(Continue)

-----------------------------------------------------------------------------
\* Properties

TypeOK ==
    /\ config \in Config
    /\ remote \in {NoCatalog} \cup RemoteCatalog
    /\ root \in {"offline", "remote"}
    /\ planFile \in Catalogs \cup {None}
    /\ receipt \in [plan : Catalogs \cup {None}, catalog : Catalogs \cup {None}]
    /\ staged \in [Transaction -> Catalogs \cup {None}]
    /\ storage \in [id : 0..Attempts, plan : BOOLEAN,
                    root : {"none", "offline", "remote"}, mounted : BOOLEAN]
    /\ outcome \in [Transaction -> Outcome]
    /\ payload \in Catalogs \cup {None}
    /\ attempt \in 0..Attempts
    /\ job \in 0..(Len(Exec) + 1)
    /\ step \in {"start", "plan", "report", "receipt", "store", "prepare",
                 "install", "verify", "rollback"}
    /\ faults \in 0..MaxFaults
    /\ cut \in SUBSET Transaction

\* From the end of the preflight on, the plan and the receipt under /run, the
\* catalog whose paths commit will be given, and the plan of the prepared
\* transaction are of one catalog, whatever earlier attempts left under /run.
OnePlan ==
    Running /\ storage.plan =>
        LET catalog == Catalog(storage.root).content
        IN  /\ planFile = catalog
            /\ receipt = [plan |-> catalog, catalog |-> catalog]
            /\ storage.id # 0 /\ step # "prepare" => staged[storage.id] = catalog

\* Outside the commit that opened it, a transaction is open on the target
\* only if that commit was killed or its rollback failed. Without such a
\* fault no apply begins on an unsettled target (stacked, in TargetRecovery).
OpenOnlyByFault ==
    \A t \in Transaction :
        IsOpen(t) => \/ t \in cut
                     \/ /\ storage.id = t
                        /\ step \in {"verify", "rollback"}

\* An attempt without a fault of its own installs, whatever the attempts
\* before it left under /run and on the target, unless that is a catalog cut
\* in the middle. With the adapter enabled this takes a medium that has no
\* repository: the adapter compares the receipt with the medium's own catalog.
FaultlessAttemptInstalls ==
    \A n \in 0..MaxFaults :
        (/\ job = 1 /\ step = "start" /\ faults = n
         /\ remote = NoCatalog \/ remote.complete
         /\ config.pacman => config.repository = "absent")
            ~> (Installed \/ faults > n)
=============================================================================
