--------------------------- MODULE BootActivation ---------------------------
(***************************************************************************)
(* The measured boot files on the target and the checkpoint's record of    *)
(* their replacement: the steps of activate_boot_bundle,                   *)
(* verify_installed_boot_bundle and rollback_boot_bundle                   *)
(* (src/src/installer.rs). Each step is one durable effect. A boot file,   *)
(* and a record that is rewritten, is a temporary file renamed into place  *)
(* (atomic_target_file, rewrite_private); the record's first version and   *)
(* the backups are created under their own names and filled there          *)
(* (create_private), so a step cut short leaves a part of them. The        *)
(* transaction that takes the steps, and what interrupts it, is in         *)
(* InstallTransaction.                                                     *)
(***************************************************************************)
EXTENDS Naturals, FiniteSets

CONSTANT FileCount   \* boot files of the bundle, in the order they are placed

ASSUME FileCountAssumption == FileCount \in Nat \ {0}

File == 1..FileCount

\* What is at a destination: nothing, the file found by apply, the bundle's.
Content == {"absent", "old", "new"}

VARIABLES
    boot,     \* [File -> Content], the destinations
    saved,    \* [File -> Content], the files under boot-backup/
    record,   \* boot-mutation.json; entries by file
    cursor    \* the loop index of the running command, 0 outside the loops

bootVars == <<boot, saved, record, cursor>>

\* A record that exists is readable once its first version is all written.
Record == [exists    : BOOLEAN,
           readable  : BOOLEAN,
           backup    : SUBSET File,    \* entries with a backup path
           installed : SUBSET File,    \* entries marked installed
           complete  : BOOLEAN]

NoRecord == [exists |-> FALSE, readable |-> FALSE, backup |-> {},
             installed |-> {}, complete |-> FALSE]

\* Empty or cut off: read_private_json refuses it.
RecordTorn == record.exists /\ ~record.readable

BootType ==
    /\ boot \in [File -> Content]
    /\ saved \in [File -> Content]
    /\ record \in Record
    /\ cursor \in 0..(FileCount + 1)

\* No boot-mutation.json: one that exists refuses the activation.
MayActivate == ~record.exists

\* Mutant: nothing is copied.
BackupNothing ==
    /\ MayActivate
    /\ cursor \in File
    /\ cursor' = cursor + 1
    /\ UNCHANGED <<boot, saved, record>>

\* One turn of the first loop: an existing destination is copied to
\* boot-backup/file-<index>, which must not exist yet. A copy cut short is
\* read by nobody: there is no record to name it, and no second activation.
BackupFile ==
    /\ MayActivate
    /\ cursor \in File
    /\ \/ /\ boot[cursor] = "absent"
          /\ UNCHANGED saved
       \/ /\ boot[cursor] # "absent"
          /\ saved[cursor] = "absent"
          /\ saved' = [saved EXCEPT ![cursor] = boot[cursor]]
    /\ cursor' = cursor + 1
    /\ UNCHANGED <<boot, record>>

\* create_private opens the record under its own name, empty, before any
\* destination is replaced.
CreateRecord ==
    /\ MayActivate
    /\ cursor = FileCount + 1
    /\ record' = [NoRecord EXCEPT !.exists = TRUE]
    /\ UNCHANGED <<boot, saved, cursor>>

\* It is written and fsynced, with no entry marked installed.
WriteRecord ==
    /\ RecordTorn
    /\ record' = [exists    |-> TRUE,
                  readable  |-> TRUE,
                  backup    |-> {f \in File : saved[f] # "absent"},
                  installed |-> {},
                  complete  |-> FALSE]
    /\ cursor' = 1
    /\ UNCHANGED <<boot, saved>>

\* atomic_target_file renames the new file over the destination.
PlaceFile ==
    /\ cursor \in File
    /\ boot' = [boot EXCEPT ![cursor] = "new"]
    /\ UNCHANGED <<saved, record, cursor>>

\* Mutant: the loop index is advanced twice.
MarkAndSkip ==
    /\ cursor \in File
    /\ record' = [record EXCEPT !.installed = @ \cup {cursor}]
    /\ cursor' = cursor + 2
    /\ UNCHANGED <<boot, saved>>

\* The record is rewritten with the entry of the file just placed marked.
MarkInstalled ==
    /\ cursor \in File
    /\ record' = [record EXCEPT !.installed = @ \cup {cursor}]
    /\ cursor' = cursor + 1
    /\ UNCHANGED <<boot, saved>>

CompleteRecord ==
    /\ cursor = FileCount + 1
    /\ record' = [record EXCEPT !.complete = TRUE]
    /\ cursor' = 0
    /\ UNCHANGED <<boot, saved>>

\* Mutant: only the first file is hashed.
FirstInstalled == boot[1] = "new"

\* verify re-hashes every destination against the bundle's manifest.
BundleInstalled == \A f \in File : boot[f] = "new"

\* One turn of rollback's loop, from the last entry to the first: an entry
\* that is marked gets its backup again, or loses the file it did not have.
\* A record that cannot be read ends rollback before the loop.
RestoreFile ==
    /\ cursor \in File
    /\ ~RecordTorn
    /\ cursor \in record.installed \cap record.backup => saved[cursor] # "absent"
    /\ boot' = IF cursor \notin record.installed THEN boot
               ELSE [boot EXCEPT ![cursor] =
                       IF cursor \in record.backup THEN saved[cursor]
                       ELSE "absent"]
    /\ cursor' = cursor - 1
    /\ UNCHANGED <<saved, record>>

\* The record goes last, so an interrupted loop starts again from the end;
\* with no record there is nothing to undo.
RemoveRecord ==
    /\ cursor = 0
    /\ record' = NoRecord
    /\ UNCHANGED <<boot, saved, cursor>>
=============================================================================
