--------------------- MODULE InstallTransactionInvariant ---------------------
(***************************************************************************)
(* The inductive invariant of InstallTransaction. The safety invariants    *)
(* there say what a reader of the journal may conclude; these conjuncts    *)
(* add what holds between two effects of a command, which is what makes    *)
(* them inductive. They come in three groups, each inductive relative to   *)
(* the ones before it.                                                     *)
(***************************************************************************)
EXTENDS InstallTransaction

\* The running command and the journals: what apply has in memory is what it
\* wrote last, a rollback works from the journal it believed at its start,
\* and the status tells how far apply came.
ControlInv ==
    /\ checkpoint.status # "Prepared"
    /\ HasCheckpoint => checkpoint.target
    /\ ~HasCheckpoint => /\ runtime.status \in {"Absent", "Prepared", "RolledBack"}
                         /\ pc \notin Applying
                         /\ ~mirror
    /\ ~HasCheckpoint /\ runtime.status = "Prepared" => runtime = PreparedJournal
    /\ mirror => mem = checkpoint /\ caller = "runtime"
    /\ pc \in Applying => mem = checkpoint
    /\ pc \in Applying => checkpoint.status =
                            IF pc \in Activating \cup {"applied"}
                            THEN "CorinthPublished" ELSE "Applying"
    /\ pc \in RollingBack => /\ mem.status = Authoritative.status
                             /\ mem.status \in RollbackStatus
                             /\ mem.target = Authoritative.target
                             /\ mem.previous = Authoritative.previous
                             /\ mem.packages = Authoritative.packages
                             /\ Logged(Authoritative, "hardware-provisioning")
                                  => Logged(mem, "hardware-provisioning")
    /\ pc = "undo-hardware" => mem = Authoritative
    /\ pc \in RollingBack => (caller = "checkpoint" => HasCheckpoint)

\* The package authority and the hardware: both are journaled before they
\* change, and a rollback that has passed them has put them back.
AuthorityInv ==
    /\ before.active \in {"none", "prior"}
    /\ ~HasCheckpoint => active = before.active /\ hardware = {}
    /\ HasCheckpoint => checkpoint.previous = before.active
    /\ active # before.active => active \in {"intended", "later"}
    /\ active = "intended" => parent = before.active
    /\ receipts \subseteq hardware
    /\ hardware # {} => /\ hardware \subseteq checkpoint.packages
                        /\ Logged(checkpoint, "hardware-provisioning")
    /\ pc = "provision" => hardware = {}
    /\ pc = "install" => hardware \subseteq plan.packages
    /\ pc = "install" /\ plan.packages # {} =>
          /\ checkpoint.packages = plan.packages
          /\ Logged(checkpoint, "hardware-provisioning")
    /\ pc \in {"provision", "install", "publish"} => active = before.active
    /\ pc \in {"undo-boot", "undo-corinth", "rolled-back"} => receipts = {}
    /\ pc = "rolled-back" => active = before.active
    /\ checkpoint.status = "RolledBack" => /\ active = before.active
                                           /\ receipts = {}
                                           /\ pc = "idle"

\* Nothing of the boot bundle has begun.
BootUntouched ==
    /\ boot = before.boot
    /\ saved = [f \in File |-> "absent"]
    /\ record = NoRecord

\* Every file that differs from before, but for at most one, is marked.
MarkedButOne ==
    \E f \in File : \A g \in File \ {f} :
        boot[g] # before.boot[g] => g \in record.installed

\* The backups are the former files, and the entries say which exist.
BackupsExact ==
    \A f \in File :
        IF f \in record.backup THEN saved[f] = before.boot[f]
                                    /\ saved[f] # "absent"
        ELSE before.boot[f] = "absent"

\* The boot files: the loops of activation and of rollback, by their index.
BootInv ==
    /\ ~HasCheckpoint => BootUntouched
    /\ pc \in {"provision", "install", "publish", "published"} =>
          BootUntouched
    /\ pc = "backup" =>
          /\ boot = before.boot
          /\ record = NoRecord
          /\ \A f \in File : saved[f] = IF f < cursor THEN before.boot[f]
                                                      ELSE "absent"
    /\ pc = "record" => RecordTorn
    /\ RecordTorn =>
          /\ boot = before.boot
          /\ record = [NoRecord EXCEPT !.exists = TRUE]
          /\ \A f \in File : saved[f] = before.boot[f]
    /\ pc \in {"place", "mark"} =>
          /\ record.exists /\ record.readable
          /\ record.installed = {f \in File : f < cursor}
          /\ \A f \in File : f > cursor => boot[f] = before.boot[f]
    /\ pc = "place" /\ cursor \in File => boot[cursor] = before.boot[cursor]
    /\ pc = "mark" => cursor \in File
    /\ record.readable => record.exists /\ BackupsExact
    /\ ~record.exists => record = NoRecord
    /\ MarkedButOne
    /\ pc = "undo-boot" =>
          /\ record.exists =>
                \A f \in record.installed : f > cursor => boot[f] = before.boot[f]
          /\ ~record.exists => cursor = 0
    /\ pc \in {"undo-corinth", "rolled-back"} => ~record.exists
    /\ checkpoint.status = "RolledBack" => ~record.exists

IInv == TypeOK /\ ControlInv /\ AuthorityInv /\ BootInv

-----------------------------------------------------------------------------
\* Two more groups, inductive relative to IInv.

\* How often a journal has a mutation.
Count(j, m) == j.mutations[m]

NothingUndone(j) ==
    /\ Count(j, "hardware-provisioning:rolled-back") = 0
    /\ Count(j, "corinth-generation:rolled-back") = 0
    /\ Count(j, "boot-bundle:rolled-back") = 0

\* What a journal holds, stage by stage, besides what validate_journal asks
\* for: each mutation once, when its step is done, and nothing undone until
\* the whole transaction is.
StageCounts(j) ==
    /\ ValidJournal(j)
    /\ j.status # "RolledBack" => NothingUndone(j)
    /\ j.status = "Applying" => /\ Count(j, "corinth-generation") = 0
                                /\ Count(j, "boot-bundle") = 0
    /\ j.status \in {"CorinthPublished", "ApplyFailed"} =>
          Count(j, "boot-bundle") = 0

\* The journals: both copies are valid, the checkpoint has the counts of its
\* stage, and a rollback has counted in memory exactly what it has undone.
JournalInv ==
    /\ runtime # NoJournal => ValidJournal(runtime)
    /\ HasCheckpoint => StageCounts(checkpoint)
    /\ pc = "provision" => Count(checkpoint, "hardware-provisioning") = 0
    /\ pc \in RollingBack =>
          /\ \A m \in {"hardware-provisioning", "corinth-generation",
                       "boot-bundle"} : Count(mem, m) <= 1
          /\ Count(mem, "corinth-generation:rolled-back") = 0
          /\ Count(mem, "hardware-provisioning:rolled-back") =
                IF pc = "undo-hardware" THEN 0
                ELSE Count(mem, "hardware-provisioning")
          /\ Count(mem, "boot-bundle:rolled-back") =
                IF pc \in {"undo-hardware", "undo-boot"} THEN 0
                ELSE Count(mem, "boot-bundle")
    /\ RuntimeNeverAhead

\* The bundle and the package authority: from the publication on the intended
\* generation is active, a complete record marks every file, and a
\* transaction that was applied has either all of both or has its former
\* files back.
PublicationInv ==
    /\ before.boot \in [File -> {"absent", "old"}]
    /\ pc \in {"published", "applied"} \cup Activating => active = "intended"
    /\ record.complete => record.exists /\ record.installed = File
    /\ pc = "applied" => record.complete
    /\ checkpoint.status \in {"Applied", "Verified"} =>
          IF record.exists
          THEN record.complete /\ active \in {"intended", "later"}
          ELSE boot = before.boot
=============================================================================
