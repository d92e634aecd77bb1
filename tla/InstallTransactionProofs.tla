---------------------- MODULE InstallTransactionProofs ----------------------
(***************************************************************************)
(* Theorems of InstallTransaction for any number of boot files, any set of *)
(* packages and any number of faults. The argument is the inductive        *)
(* invariant of InstallTransactionInvariant, one group of conjuncts after  *)
(* the other.                                                              *)
(***************************************************************************)
EXTENDS InstallTransactionInvariant, TLAPS

-----------------------------------------------------------------------------
\* Journals and journal writes

\* The journals that stand for no file and for a prepared transaction.
LEMMA BlankType ==
    ASSUME NEW s \in Status
    PROVE  Blank(s) \in Journal
BY DEF Blank, Journal, Generation

LEMMA FixedJournals ==
    /\ NoJournal \in Journal
    /\ NoJournal.status = "Absent"
    /\ PreparedJournal \in Journal
    /\ PreparedJournal.status = "Prepared"
    /\ ~PreparedJournal.target
BY BlankType DEF NoJournal, PreparedJournal, Blank, Status

\* Pushing a mutation changes the count of that mutation and nothing else.
LEMMA PushFacts ==
    ASSUME NEW j \in Journal, NEW m \in Mutation
    PROVE  /\ Push(j, m) \in Journal
           /\ Push(j, m).status = j.status
           /\ Push(j, m).target = j.target
           /\ Push(j, m).previous = j.previous
           /\ Push(j, m).published = j.published
           /\ Push(j, m).packages = j.packages
           /\ Logged(Push(j, m), m)
           /\ \A n \in Mutation \ {m} :
                 Push(j, m).mutations[n] = j.mutations[n]
BY DEF Push, Journal, Logged

\* What was logged stays logged when something else is.
LEMMA PushKeepsLogs ==
    ASSUME NEW j \in Journal, NEW m \in Mutation, NEW n \in Mutation,
           Logged(j, n)
    PROVE  Logged(Push(j, m), n)
BY PushFacts DEF Logged

LEMMA PushOnceFacts ==
    ASSUME NEW j \in Journal, NEW m \in Mutation
    PROVE  /\ PushOnce(j, m) \in Journal
           /\ PushOnce(j, m).status = j.status
           /\ PushOnce(j, m).target = j.target
           /\ PushOnce(j, m).previous = j.previous
           /\ PushOnce(j, m).published = j.published
           /\ PushOnce(j, m).packages = j.packages
           /\ \A n \in Mutation : Logged(j, n) => Logged(PushOnce(j, m), n)
BY PushFacts, PushKeepsLogs DEF PushOnce

LEMMA PushUndoneFacts ==
    ASSUME NEW j \in Journal, NEW m \in Mutation, NEW undone \in Mutation
    PROVE  /\ PushUndone(j, m, undone) \in Journal
           /\ PushUndone(j, m, undone).status = j.status
           /\ PushUndone(j, m, undone).target = j.target
           /\ PushUndone(j, m, undone).previous = j.previous
           /\ PushUndone(j, m, undone).packages = j.packages
           /\ \A n \in Mutation :
                 Logged(j, n) => Logged(PushUndone(j, m, undone), n)
BY PushOnceFacts DEF PushUndone

\* What a write of the journal does to its two copies.
LEMMA RewriteFacts ==
    ASSUME NEW j \in Journal, NEW path \in Path,
           runtime \in Journal, checkpoint \in Journal,
           RewriteJournalCopies(j, path)
    PROVE  /\ mem' = j
           /\ caller' = path
           /\ runtime' \in Journal
           /\ checkpoint' \in Journal
           /\ mirror' \in BOOLEAN
           /\ HasCheckpoint => /\ checkpoint' = j
                               /\ runtime' = runtime
                               /\ mirror' => path = "runtime"
           /\ ~HasCheckpoint => /\ checkpoint' = checkpoint
                                /\ runtime' = j
                                /\ ~mirror'
BY DEF RewriteJournalCopies

-----------------------------------------------------------------------------
\* Type correctness

LEMMA InitType == Init => TypeOK
<1>0. SUFFICES ASSUME Init PROVE TypeOK
  OBVIOUS
<1>1. BootType
  BY <1>0, FileCountAssumption
  DEF Init, BootType, File, Content, Record, NoRecord
<1>2. plan \in Plan
  BY <1>0 DEF Init
<1>3. /\ runtime \in Journal
      /\ checkpoint \in Journal
      /\ mem \in Journal
  BY <1>0, FixedJournals DEF Init
<1>4. before \in [boot : [File -> Content], active : Generation]
  BY <1>0 DEF Init, Content, Generation
<1>5. /\ caller \in Path
      /\ mirror \in BOOLEAN
      /\ active \in Generation
      /\ parent \in Generation
      /\ hardware \in SUBSET Packages
      /\ receipts \in SUBSET Packages
      /\ pc \in {"idle"} \cup Applying \cup RollingBack
  BY <1>0 DEF Init, Path, Generation
<1>6. faults \in 0..MaxFaults
  BY <1>0, BoundsAssumption DEF Init
<1>7. QED
  BY <1>1, <1>2, <1>3, <1>4, <1>5, <1>6 DEF TypeOK

\* The steps of apply after the checkpoint.
LEMMA ApplyType == TypeOK /\ Apply => TypeOK'
<1> SUFFICES ASSUME TypeOK, Apply PROVE TypeOK'
  OBVIOUS
<1> USE DEF TypeOK, At, fixedVars, targetVars, journalVars
<1>1. CASE CheckpointTransaction
  <2>1. ApplyingJournal \in Journal
    BY DEF ApplyingJournal, Journal, Status
  <2>2. QED
    BY <1>1, <2>1 DEF CheckpointTransaction, Applying, Path, bootVars, BootType
<1>2. CASE LogHardware
  <2>1. CASE UNCHANGED journalVars
    BY <1>2, <2>1 DEF LogHardware, Applying, bootVars, BootType
  <2>2. CASE ~ UNCHANGED journalVars
    <3> DEFINE j == [mem EXCEPT !.packages = plan.packages]
    <3>1. j \in Journal
      BY DEF Journal, Plan
    <3>2. Push(j, "hardware-provisioning") \in Journal
      BY <3>1, PushFacts DEF Mutation
    <3>3. RewriteJournalCopies(Push(j, "hardware-provisioning"), caller)
      BY <1>2, <2>2 DEF LogHardware
    <3>4. QED
      BY <1>2, <3>2, <3>3, RewriteFacts DEF LogHardware, Applying, bootVars, BootType
  <2>3. QED
    BY <2>1, <2>2
<1>3. CASE \E p \in Packages : InstallPackage(p) \/ ReceiptPackage(p)
  BY <1>3 DEF InstallPackage, ReceiptPackage, bootVars, BootType
<1>4. CASE SealHardware
  <2>1. [mem EXCEPT !.packages = receipts] \in Journal
    BY DEF Journal
  <2>2. QED
    BY <1>4, <2>1, RewriteFacts DEF SealHardware, Applying, bootVars, BootType
<1>5. CASE PublishGeneration
  BY <1>5 DEF PublishGeneration, Generation, Applying, bootVars, BootType
<1>6. CASE JournalPublished
  <2> DEFINE j == [mem EXCEPT !.status = "CorinthPublished", !.published = TRUE]
  <2>1. j \in Journal
    BY DEF Journal, Status
  <2>2. Push(j, "corinth-generation") \in Journal
    BY <2>1, PushFacts DEF Mutation
  <2>3. RewriteJournalCopies(Push(j, "corinth-generation"), caller)
    BY <1>6 DEF JournalPublished
  <2>4. BootType'
    BY <1>6, FileCountAssumption DEF JournalPublished, BootType
  <2>5. QED
    BY <1>6, <2>2, <2>3, <2>4, RewriteFacts DEF JournalPublished, Applying
<1>7. CASE ActivateBackup
  <2>1. BootType'
    BY <1>7, FileCountAssumption
    DEF ActivateBackup, Activate, BackupFile, BootType, File
  <2>2. QED
    BY <1>7, <2>1 DEF ActivateBackup, Activate, Applying
<1>8. CASE ActivateCreate \/ ActivateRecord
  <2>1. record' \in Record
    <3>1. CASE ActivateCreate
      BY <3>1 DEF ActivateCreate, Activate, CreateRecord, Record, NoRecord
    <3>2. CASE ActivateRecord
      BY <3>2 DEF ActivateRecord, Activate, WriteRecord, Record
    <3>3. QED
      BY <1>8, <3>1, <3>2
  <2>2. BootType'
    BY <1>8, <2>1, FileCountAssumption
    DEF ActivateCreate, ActivateRecord, Activate, CreateRecord, WriteRecord,
        BootType
  <2>3. QED
    BY <1>8, <2>2 DEF ActivateCreate, ActivateRecord, Activate, Applying
<1>9. CASE ActivatePlace
  <2>1. BootType'
    BY <1>9 DEF ActivatePlace, Activate, PlaceFile, BootType, Content
  <2>2. QED
    BY <1>9, <2>1 DEF ActivatePlace, Activate, Applying
<1>10. CASE JournalApplied
  <2> DEFINE j == [mem EXCEPT !.status = "Applied"]
  <2>1. j \in Journal
    BY DEF Journal, Status
  <2>2. Push(j, "boot-bundle") \in Journal
    BY <2>1, PushFacts DEF Mutation
  <2>3. RewriteJournalCopies(Push(j, "boot-bundle"), caller)
    BY <1>10 DEF JournalApplied
  <2>4. QED
    BY <1>10, <2>2, <2>3, RewriteFacts DEF JournalApplied, bootVars, BootType
<1>11. CASE ActivateComplete
  <2>1. record' \in Record
    BY <1>11
    DEF ActivateComplete, Activate, CompleteRecord, BootType, Record
  <2>2. BootType'
    BY <1>11, <2>1, FileCountAssumption
    DEF ActivateComplete, Activate, CompleteRecord, BootType
  <2>3. QED
    BY <1>11, <2>2 DEF ActivateComplete, Activate, Applying
<1>12. CASE ActivateMark
  <2>1. record' \in Record
    BY <1>12
    DEF ActivateMark, Activate, MarkInstalled, BootType, Record
  <2>2. cursor' \in 0..(FileCount + 1)
    BY <1>12, FileCountAssumption
    DEF ActivateMark, Activate, MarkInstalled, File
  <2>3. BootType'
    BY <1>12, <2>1, <2>2
    DEF ActivateMark, Activate, MarkInstalled, BootType
  <2>4. QED
    BY <1>12, <2>3 DEF ActivateMark, Activate, Applying
<1>13. QED
  BY <1>1, <1>2, <1>3, <1>4, <1>5, <1>6, <1>7, <1>8, <1>9, <1>10, <1>11,
     <1>12
  DEF Apply

\* The steps of a rollback.
LEMMA UndoType == TypeOK /\ Undo => TypeOK'
<1> SUFFICES ASSUME TypeOK, Undo PROVE TypeOK'
  OBVIOUS
<1> USE DEF TypeOK, At, fixedVars, targetVars, journalVars
<1>1. CASE \E p \in Packages : RemovePackage(p)
  BY <1>1 DEF RemovePackage, bootVars, BootType
<1>2. CASE HardwareUndone
  <2>1. mem' \in Journal
    BY <1>2, PushUndoneFacts DEF HardwareUndone, Mutation
  <2>2. BootType'
    BY <1>2, FileCountAssumption DEF HardwareUndone, BootType
  <2>3. QED
    BY <1>2, <2>1, <2>2 DEF HardwareUndone, RollingBack
<1>3. CASE RestoreBootFile
  <2>1. BootType'
    BY <1>3, FileCountAssumption
    DEF RestoreBootFile, RestoreFile, BootType, File, Content
  <2>2. QED
    BY <1>3, <2>1 DEF RestoreBootFile
<1>4. CASE BootUndone
  <2>1. mem' \in Journal
    BY <1>4, PushUndoneFacts DEF BootUndone, Mutation
  <2>2. BootType'
    BY <1>4 DEF BootUndone, RemoveRecord, BootType, Record, NoRecord
  <2>3. QED
    BY <1>4, <2>1, <2>2 DEF BootUndone, RollingBack
<1>5. CASE RollbackCorinth
  BY <1>5 DEF RollbackCorinth, RollingBack, bootVars, BootType
<1>6. CASE RefuseCorinth
  BY <1>6 DEF RefuseCorinth, bootVars, BootType
<1>7. CASE JournalRolledBack
  <2> DEFINE j == [mem EXCEPT !.status = "RolledBack", !.target = TRUE,
                              !.published = FALSE]
  <2>1. j \in Journal
    BY DEF Journal, Status
  <2>2. PushOnce(j, "corinth-generation:rolled-back") \in Journal
    BY <2>1, PushOnceFacts DEF Mutation
  <2>3. RewriteJournalCopies(PushOnce(j, "corinth-generation:rolled-back"), caller)
    BY <1>7 DEF JournalRolledBack
  <2>4. QED
    BY <1>7, <2>2, <2>3, RewriteFacts DEF JournalRolledBack, bootVars, BootType
<1>8. CASE RefuseRecord
  BY <1>8, FileCountAssumption DEF RefuseRecord, BootType
<1>9. QED
  BY <1>1, <1>2, <1>3, <1>4, <1>5, <1>6, <1>7, <1>8 DEF Undo

\* The other steps: the commands that write the journal once, the second
\* copy of the journal, faults and package updates.
LEMMA OtherType ==
    ASSUME TypeOK,
           \/ Prepare \/ MirrorJournal \/ ActivationFails \/ Recover
           \/ \E path \in Path : Verify(path) \/ Rollback(path)
           \/ Interrupt \/ Reboot \/ PackageUpdate
    PROVE  TypeOK'
<1> USE DEF TypeOK, fixedVars, targetVars, journalVars
<1>1. CASE Prepare
  BY <1>1, FixedJournals DEF Prepare, bootVars, BootType
<1>2. CASE MirrorJournal
  BY <1>2 DEF MirrorJournal, bootVars, BootType
<1>3. CASE ActivationFails
  <2>1. [mem EXCEPT !.status = "ApplyFailed"] \in Journal
    BY DEF Journal, Status
  <2>2. BootType'
    BY <1>3, FileCountAssumption DEF ActivationFails, BootType
  <2>3. faults' \in 0..MaxFaults
    BY <1>3, BoundsAssumption DEF ActivationFails
  <2>4. QED
    BY <1>3, <2>1, <2>2, <2>3, RewriteFacts DEF ActivationFails
<1>4. ASSUME NEW path \in Path, Verify(path) PROVE TypeOK'
  <2>1. [Authoritative EXCEPT !.status = "Verified"] \in Journal
    BY DEF Authoritative, Journal, Status
  <2>2. QED
    BY <1>4, <2>1, RewriteFacts DEF Verify, bootVars, BootType
<1>5. ASSUME NEW path \in Path, NEW S, BeginRollback(path, S) PROVE TypeOK'
  <2>1. Authoritative \in Journal
    BY DEF Authoritative
  <2>2. QED
    BY <1>5, <2>1 DEF BeginRollback, RollingBack, bootVars, BootType
<1>6. CASE Interrupt \/ Reboot
  <2>1. BootType'
    BY <1>6, FileCountAssumption DEF Interrupt, Reboot, BootType
  <2>2. faults' \in 0..MaxFaults
    BY <1>6, BoundsAssumption DEF Interrupt, Reboot
  <2>3. QED
    BY <1>6, <2>1, <2>2, FixedJournals DEF Interrupt, Reboot
<1>7. CASE PackageUpdate
  BY <1>7 DEF PackageUpdate, Generation, bootVars, BootType
<1>8. CASE Recover
  BY <1>5, <1>8 DEF Recover, Path
<1>9. CASE \E path \in Path : Rollback(path)
  BY <1>5, <1>9 DEF Rollback
<1>10. QED
  BY <1>1, <1>2, <1>3, <1>4, <1>6, <1>7, <1>8, <1>9

\* Every step keeps the types.
LEMMA StepType == TypeOK /\ [Next]_vars => TypeOK'
<1> SUFFICES ASSUME TypeOK, [Next]_vars PROVE TypeOK'
  OBVIOUS
<1>1. CASE UNCHANGED vars
  BY <1>1
  DEF vars, bootVars, journalVars, targetVars, fixedVars, TypeOK, BootType
<1>2. CASE Next
  BY <1>2, ApplyType, UndoType, OtherType DEF Next
<1>3. QED
  BY <1>1, <1>2

\* Every reachable state is well typed, whatever the bundle, the packages
\* and the faults: no journal the commands of installer.rs write, and no loop
\* index of the boot activation, leaves its type.
THEOREM TypeCorrect == Spec => []TypeOK
  BY InitType, StepType, PTL DEF Spec

-----------------------------------------------------------------------------
\* Control: the running command and the journals

LEMMA InitControl == Init => ControlInv
BY FixedJournals
DEF Init, ControlInv, HasCheckpoint, Applying, RollingBack, Activating

\* The steps of apply.
LEMMA ApplyControl ==
    ASSUME TypeOK, ControlInv, Apply
    PROVE  ControlInv'
<1> USE DEF TypeOK, At, fixedVars, targetVars, journalVars, bootVars,
            HasCheckpoint, Applying, RollingBack, Activating, ControlInv
<1>1. CASE CheckpointTransaction
  <2>1. /\ ApplyingJournal.status = "Applying"
        /\ ApplyingJournal.target
    BY DEF ApplyingJournal, Journal
  <2>2. QED
    BY <1>1, <2>1 DEF CheckpointTransaction
<1>2. CASE LogHardware
  <2>1. CASE UNCHANGED journalVars
    BY <1>2, <2>1 DEF LogHardware
  <2>2. CASE ~ UNCHANGED journalVars
    <3> DEFINE j == [mem EXCEPT !.packages = plan.packages]
               k == Push(j, "hardware-provisioning")
    <3>1. j \in Journal /\ j.status = mem.status /\ j.target = mem.target
      BY DEF Journal, Plan
    <3>2. k \in Journal /\ k.status = mem.status /\ k.target = mem.target
      BY <3>1, PushFacts DEF Mutation
    <3>3. RewriteJournalCopies(k, caller)
      BY <1>2, <2>2 DEF LogHardware
    <3> HIDE DEF k
    <3>4. QED
      BY <1>2, <3>2, <3>3, RewriteFacts DEF LogHardware
  <2>3. QED
    BY <2>1, <2>2
<1>3. CASE \E p \in Packages : InstallPackage(p) \/ ReceiptPackage(p)
  BY <1>3 DEF InstallPackage, ReceiptPackage
<1>4. CASE SealHardware
  <2> DEFINE j == [mem EXCEPT !.packages = receipts]
  <2>1. j \in Journal /\ j.status = mem.status /\ j.target = mem.target
    BY DEF Journal
  <2>2. RewriteJournalCopies(j, caller)
    BY <1>4 DEF SealHardware
  <2> HIDE DEF j
  <2>3. QED
    BY <1>4, <2>1, <2>2, RewriteFacts DEF SealHardware
<1>5. CASE PublishGeneration
  BY <1>5 DEF PublishGeneration
<1>6. CASE JournalPublished
  <2> DEFINE j == [mem EXCEPT !.status = "CorinthPublished", !.published = TRUE]
             k == Push(j, "corinth-generation")
  <2>1. j \in Journal /\ j.status = "CorinthPublished" /\ j.target = mem.target
    BY DEF Journal, Status
  <2>2. k \in Journal /\ k.status = "CorinthPublished" /\ k.target = mem.target
    BY <2>1, PushFacts DEF Mutation
  <2>3. RewriteJournalCopies(k, caller)
    BY <1>6 DEF JournalPublished
  <2> HIDE DEF k
  <2>4. QED
    BY <1>6, <2>2, <2>3, RewriteFacts DEF JournalPublished
<1>7. CASE \/ ActivateBackup \/ ActivateCreate \/ ActivateRecord
           \/ ActivatePlace \/ ActivateMark \/ ActivateComplete
  <2>1. /\ pc \in Activating /\ pc' \in Activating \cup {"applied"}
        /\ UNCHANGED journalVars
    BY <1>7
    DEF ActivateBackup, ActivateCreate, ActivateRecord, ActivatePlace,
        ActivateMark, ActivateComplete, Activate
  <2>2. QED
    BY <2>1
<1>8. CASE JournalApplied
  <2> DEFINE j == [mem EXCEPT !.status = "Applied"]
             k == Push(j, "boot-bundle")
  <2>1. j \in Journal /\ j.status = "Applied" /\ j.target = mem.target
    BY DEF Journal, Status
  <2>2. k \in Journal /\ k.status = "Applied" /\ k.target = mem.target
    BY <2>1, PushFacts DEF Mutation
  <2>3. RewriteJournalCopies(k, caller)
    BY <1>8 DEF JournalApplied
  <2> HIDE DEF k
  <2>4. QED
    BY <1>8, <2>2, <2>3, RewriteFacts DEF JournalApplied
<1>9. QED
  BY <1>1, <1>2, <1>3, <1>4, <1>5, <1>6, <1>7, <1>8 DEF Apply

\* The steps of a rollback.
LEMMA UndoControl ==
    ASSUME TypeOK, ControlInv, Undo
    PROVE  ControlInv'
<1> USE DEF TypeOK, At, fixedVars, targetVars, journalVars, bootVars,
            HasCheckpoint, Applying, RollingBack, Activating, ControlInv,
            Authoritative
<1>1. CASE \E p \in Packages : RemovePackage(p)
  BY <1>1 DEF RemovePackage
<1>2. CASE HardwareUndone
  BY <1>2, PushUndoneFacts DEF HardwareUndone, Mutation
<1>3. CASE RestoreBootFile
  BY <1>3 DEF RestoreBootFile, RestoreFile
<1>4. CASE BootUndone
  BY <1>4, PushUndoneFacts DEF BootUndone, RemoveRecord, Mutation
<1>5. CASE RollbackCorinth
  BY <1>5 DEF RollbackCorinth
<1>6. CASE RefuseCorinth
  BY <1>6 DEF RefuseCorinth
<1>7. CASE JournalRolledBack
  <2> DEFINE j == [mem EXCEPT !.status = "RolledBack", !.target = TRUE,
                              !.published = FALSE]
             k == PushOnce(j, "corinth-generation:rolled-back")
  <2>1. j \in Journal /\ j.status = "RolledBack" /\ j.target
    BY DEF Journal, Status
  <2>2. k \in Journal /\ k.status = "RolledBack" /\ k.target
    BY <2>1, PushOnceFacts DEF Mutation
  <2>3. RewriteJournalCopies(k, caller)
    BY <1>7 DEF JournalRolledBack
  <2> HIDE DEF k
  <2>4. QED
    BY <1>7, <2>2, <2>3, RewriteFacts DEF JournalRolledBack
<1>8. CASE RefuseRecord
  BY <1>8 DEF RefuseRecord
<1>9. QED
  BY <1>1, <1>2, <1>3, <1>4, <1>5, <1>6, <1>7, <1>8 DEF Undo

\* The other steps.
LEMMA OtherControl ==
    ASSUME TypeOK, ControlInv,
           \/ Prepare \/ MirrorJournal \/ ActivationFails \/ Recover
           \/ \E path \in Path : Verify(path) \/ Rollback(path)
           \/ Interrupt \/ Reboot \/ PackageUpdate
    PROVE  ControlInv'
<1> USE DEF TypeOK, fixedVars, targetVars, journalVars, bootVars,
            HasCheckpoint, Applying, RollingBack, Activating, ControlInv
<1>1. CASE Prepare
  BY <1>1, FixedJournals DEF Prepare, Idle
<1>2. CASE MirrorJournal
  BY <1>2 DEF MirrorJournal, Authoritative
<1>3. CASE ActivationFails
  <2> DEFINE j == [mem EXCEPT !.status = "ApplyFailed"]
  <2>1. j \in Journal /\ j.status = "ApplyFailed" /\ j.target = mem.target
    BY DEF Journal, Status
  <2>2. RewriteJournalCopies(j, caller)
    BY <1>3 DEF ActivationFails
  <2> HIDE DEF j
  <2>3. QED
    BY <1>3, <2>1, <2>2, RewriteFacts DEF ActivationFails
<1>4. ASSUME NEW path \in Path, Verify(path) PROVE ControlInv'
  <2> DEFINE j == [Authoritative EXCEPT !.status = "Verified"]
  <2>1. j \in Journal /\ j.status = "Verified" /\ j.target = Authoritative.target
    BY DEF Authoritative, Journal, Status
  <2>2. RewriteJournalCopies(j, path) /\ Authoritative.status = "Applied"
    BY <1>4 DEF Verify
  <2> HIDE DEF j
  <2>3. HasCheckpoint
    BY <2>2 DEF Authoritative
  <2>4. QED
    BY <1>4, <2>1, <2>2, <2>3, RewriteFacts DEF Verify, Idle, Authoritative
<1>5. ASSUME NEW path \in Path, NEW S \in SUBSET RollbackStatus,
             BeginRollback(path, S)
      PROVE  ControlInv'
  <2>1. path = "checkpoint" => HasCheckpoint
    BY <1>5 DEF BeginRollback, Loadable, ValidJournal, PublishedStatus
  <2>2. Authoritative' = Authoritative
    BY <1>5 DEF BeginRollback, Authoritative
  <2>3. mem' = Authoritative /\ caller' = path /\ pc' = "undo-hardware"
        /\ ~mirror /\ ~mirror' /\ UNCHANGED <<runtime, checkpoint>>
        /\ Authoritative.status \in RollbackStatus
    BY <1>5 DEF BeginRollback, Idle
  <2>4. QED
    BY <2>1, <2>2, <2>3
<1>6. CASE Interrupt \/ Reboot
  BY <1>6, FixedJournals DEF Interrupt, Reboot
<1>7. CASE PackageUpdate
  BY <1>7 DEF PackageUpdate, Idle
<1>8. CASE Recover
  BY <1>5, <1>8 DEF Recover, Path, RecoverStatus, RollbackStatus
<1>9. CASE \E path \in Path : Rollback(path)
  BY <1>5, <1>9 DEF Rollback
<1>10. QED
  BY <1>1, <1>2, <1>3, <1>4, <1>6, <1>7, <1>8, <1>9

\* The running command and the journals agree in every reachable state.
LEMMA StepControl == TypeOK /\ ControlInv /\ [Next]_vars => ControlInv'
<1> SUFFICES ASSUME TypeOK, ControlInv, [Next]_vars PROVE ControlInv'
  OBVIOUS
<1>1. CASE UNCHANGED vars
  BY <1>1
  DEF vars, bootVars, journalVars, targetVars, fixedVars, ControlInv,
      HasCheckpoint, Authoritative
<1>2. CASE Next
  BY <1>2, ApplyControl, UndoControl, OtherControl DEF Next
<1>3. QED
  BY <1>1, <1>2

-----------------------------------------------------------------------------
\* Authority: the active generation and the hardware packages

LEMMA InitAuthority == Init => AuthorityInv
BY FixedJournals DEF Init, AuthorityInv, HasCheckpoint

\* The steps of apply.
LEMMA ApplyAuthority ==
    ASSUME TypeOK, ControlInv, AuthorityInv, Apply
    PROVE  AuthorityInv'
<1> USE DEF TypeOK, At, fixedVars, targetVars, journalVars, bootVars,
            HasCheckpoint, AuthorityInv
<1>1. CASE CheckpointTransaction
  <2>1. /\ ApplyingJournal.status = "Applying"
        /\ ApplyingJournal.previous = active
    BY DEF ApplyingJournal, Journal
  <2>2. QED
    BY <1>1, <2>1 DEF CheckpointTransaction
<1>2. CASE LogHardware
  <2>1. mem = checkpoint /\ HasCheckpoint /\ hardware = {}
        /\ checkpoint.status = "Applying" /\ pc = "provision" /\ pc' = "install"
    BY <1>2 DEF LogHardware, ControlInv, Applying, Activating
  <2>2. CASE plan.packages = {} /\ UNCHANGED journalVars
    BY <1>2, <2>1, <2>2 DEF LogHardware
  <2> DEFINE j == [mem EXCEPT !.packages = plan.packages]
             k == Push(j, "hardware-provisioning")
  <2>3. CASE RewriteJournalCopies(k, caller)
    <3>1. /\ j \in Journal /\ j.status = mem.status
          /\ j.previous = mem.previous /\ j.packages = plan.packages
      BY DEF Journal, Plan
    <3>2. /\ k \in Journal /\ k.status = mem.status
          /\ k.previous = mem.previous /\ k.packages = plan.packages
          /\ Logged(k, "hardware-provisioning")
      BY <3>1, PushFacts DEF Mutation
    <3> HIDE DEF k
    <3>3. QED
      BY <1>2, <2>1, <2>3, <3>2, RewriteFacts DEF LogHardware
  <2>4. QED
    BY <1>2, <2>2, <2>3 DEF LogHardware
<1>3. CASE \E p \in Packages : InstallPackage(p) \/ ReceiptPackage(p)
  <2>1. checkpoint.status = "Applying"
    BY <1>3
    DEF InstallPackage, ReceiptPackage, ControlInv, Applying, Activating
  <2>2. QED
    BY <1>3, <2>1 DEF InstallPackage, ReceiptPackage
<1>4. CASE SealHardware
  <2>1. mem = checkpoint /\ HasCheckpoint /\ checkpoint.status = "Applying"
    BY <1>4 DEF SealHardware, ControlInv, Applying, Activating
  <2> DEFINE j == [mem EXCEPT !.packages = receipts]
  <2>2. /\ j \in Journal /\ j.status = mem.status
        /\ j.previous = mem.previous /\ j.packages = receipts
        /\ Logged(mem, "hardware-provisioning") =>
              Logged(j, "hardware-provisioning")
    BY DEF Journal, Logged
  <2>3. RewriteJournalCopies(j, caller)
    BY <1>4 DEF SealHardware
  <2>4. hardware \subseteq receipts
    BY <1>4 DEF SealHardware
  <2> HIDE DEF j
  <2>5. QED
    BY <1>4, <2>1, <2>2, <2>3, <2>4, RewriteFacts DEF SealHardware
<1>5. CASE PublishGeneration
  <2>1. HasCheckpoint /\ checkpoint.status = "Applying"
    BY <1>5 DEF PublishGeneration, ControlInv, Applying, Activating
  <2>2. QED
    BY <1>5, <2>1 DEF PublishGeneration
<1>6. CASE JournalPublished
  <2>1. mem = checkpoint /\ HasCheckpoint
    BY <1>6 DEF JournalPublished, ControlInv, Applying
  <2> DEFINE j == [mem EXCEPT !.status = "CorinthPublished", !.published = TRUE]
             k == Push(j, "corinth-generation")
  <2>2. /\ j \in Journal /\ j.status = "CorinthPublished"
        /\ j.previous = mem.previous /\ j.packages = mem.packages
        /\ j.mutations = mem.mutations
    BY DEF Journal, Status
  <2>3. /\ k \in Journal /\ k.status = "CorinthPublished"
        /\ k.previous = mem.previous /\ k.packages = mem.packages
    BY <2>2, PushFacts DEF Mutation
  <2>4. Logged(mem, "hardware-provisioning") =>
           Logged(k, "hardware-provisioning")
    BY <2>2, PushKeepsLogs DEF Mutation, Logged
  <2>5. RewriteJournalCopies(k, caller)
    BY <1>6 DEF JournalPublished
  <2> HIDE DEF k
  <2>6. QED
    BY <1>6, <2>1, <2>3, <2>4, <2>5, RewriteFacts DEF JournalPublished
<1>7. CASE \/ ActivateBackup \/ ActivateCreate \/ ActivateRecord
           \/ ActivatePlace \/ ActivateMark \/ ActivateComplete
  <2>1. /\ pc \in Activating /\ pc' \in Activating \cup {"applied"}
        /\ UNCHANGED <<journalVars, targetVars, fixedVars>>
    BY <1>7
    DEF ActivateBackup, ActivateCreate, ActivateRecord, ActivatePlace,
        ActivateMark, ActivateComplete, Activate, Activating
  <2>2. checkpoint.status = "CorinthPublished"
    BY <2>1 DEF ControlInv, Applying, Activating
  <2>3. QED
    BY <2>1, <2>2 DEF Activating
<1>8. CASE JournalApplied
  <2>1. mem = checkpoint /\ HasCheckpoint
    BY <1>8 DEF JournalApplied, ControlInv, Applying
  <2> DEFINE j == [mem EXCEPT !.status = "Applied"]
             k == Push(j, "boot-bundle")
  <2>2. /\ j \in Journal /\ j.status = "Applied"
        /\ j.previous = mem.previous /\ j.packages = mem.packages
        /\ j.mutations = mem.mutations
    BY DEF Journal, Status
  <2>3. /\ k \in Journal /\ k.status = "Applied"
        /\ k.previous = mem.previous /\ k.packages = mem.packages
    BY <2>2, PushFacts DEF Mutation
  <2>4. Logged(mem, "hardware-provisioning") =>
           Logged(k, "hardware-provisioning")
    BY <2>2, PushKeepsLogs DEF Mutation, Logged
  <2>5. RewriteJournalCopies(k, caller)
    BY <1>8 DEF JournalApplied
  <2> HIDE DEF k
  <2>6. QED
    BY <1>8, <2>1, <2>3, <2>4, <2>5, RewriteFacts DEF JournalApplied
<1>9. QED
  BY <1>1, <1>2, <1>3, <1>4, <1>5, <1>6, <1>7, <1>8 DEF Apply

\* A transaction rolled back has no running rollback: a rollback that runs
\* works from a checkpoint that is not settled so.
LEMMA RollingBackOpen ==
    ASSUME TypeOK, ControlInv, pc \in RollingBack
    PROVE  checkpoint.status # "RolledBack"
BY DEF ControlInv, TypeOK, HasCheckpoint, Authoritative, RollbackStatus

\* The steps of a rollback.
LEMMA UndoAuthority ==
    ASSUME TypeOK, ControlInv, AuthorityInv, Undo
    PROVE  AuthorityInv'
<1> USE DEF TypeOK, At, fixedVars, targetVars, journalVars, bootVars,
            HasCheckpoint, AuthorityInv
<1>0. pc \in RollingBack /\ checkpoint.status # "RolledBack"
  BY RollingBackOpen
  DEF Undo, RemovePackage, HardwareUndone, RestoreBootFile, RefuseRecord,
      BootUndone, RollbackCorinth, RefuseCorinth, JournalRolledBack,
      RollingBack
<1>1. CASE \E p \in Packages : RemovePackage(p)
  BY <1>1 DEF RemovePackage
<1>2. CASE HardwareUndone
  <2>1. receipts = {}
    <3> SUFFICES ASSUME receipts # {} PROVE FALSE
      OBVIOUS
    <3>1. mem = checkpoint
      BY <1>2 DEF HardwareUndone, ControlInv, Authoritative
    <3>2. QED
      BY <1>2, <3>1 DEF HardwareUndone, Removable
  <2>2. QED
    BY <1>0, <1>2, <2>1 DEF HardwareUndone
<1>3. CASE RestoreBootFile
  BY <1>0, <1>3 DEF RestoreBootFile, RestoreFile
<1>4. CASE BootUndone
  BY <1>0, <1>4 DEF BootUndone, RemoveRecord
<1>5. CASE RollbackCorinth
  <2>1. /\ mem.status = Authoritative.status
        /\ mem.previous = Authoritative.previous
    BY <1>0 DEF ControlInv
  <2>2. active' = before.active
    <3>1. CASE ~HasCheckpoint
      BY <1>5, <3>1 DEF RollbackCorinth
    <3>2. CASE HasCheckpoint
      <4>1. mem.previous = before.active /\ mem.status # "Prepared"
        BY <2>1, <3>2 DEF Authoritative, ControlInv
      <4>2. QED
        BY <1>5, <4>1 DEF RollbackCorinth, CorinthUntouched
    <3>3. QED
      BY <3>1, <3>2
  <2>3. QED
    BY <1>0, <1>5, <2>2 DEF RollbackCorinth
<1>6. CASE RefuseCorinth
  BY <1>0, <1>6 DEF RefuseCorinth
<1>7. CASE JournalRolledBack
  <2>1. HasCheckpoint =>
           /\ mem.previous = checkpoint.previous
           /\ mem.packages = checkpoint.packages
           /\ Logged(checkpoint, "hardware-provisioning") =>
                 Logged(mem, "hardware-provisioning")
    BY <1>0 DEF ControlInv, Authoritative
  <2> DEFINE j == [mem EXCEPT !.status = "RolledBack", !.target = TRUE,
                              !.published = FALSE]
             k == PushOnce(j, "corinth-generation:rolled-back")
  <2>2. /\ j \in Journal /\ j.status = "RolledBack"
        /\ j.previous = mem.previous /\ j.packages = mem.packages
        /\ Logged(mem, "hardware-provisioning") =>
              Logged(j, "hardware-provisioning")
    BY DEF Journal, Status, Logged
  <2>3. /\ k \in Journal /\ k.status = "RolledBack"
        /\ k.previous = mem.previous /\ k.packages = mem.packages
        /\ Logged(mem, "hardware-provisioning") =>
              Logged(k, "hardware-provisioning")
    BY <2>2, PushOnceFacts DEF Mutation
  <2>4. RewriteJournalCopies(k, caller)
    BY <1>7 DEF JournalRolledBack
  <2> HIDE DEF k
  <2>5. QED
    BY <1>7, <2>1, <2>3, <2>4, RewriteFacts DEF JournalRolledBack
<1>8. CASE RefuseRecord
  BY <1>0, <1>8 DEF RefuseRecord
<1>9. QED
  BY <1>1, <1>2, <1>3, <1>4, <1>5, <1>6, <1>7, <1>8 DEF Undo

\* The other steps.
LEMMA OtherAuthority ==
    ASSUME TypeOK, ControlInv, AuthorityInv,
           \/ Prepare \/ MirrorJournal \/ ActivationFails \/ Recover
           \/ \E path \in Path : Verify(path) \/ Rollback(path)
           \/ Interrupt \/ Reboot \/ PackageUpdate
    PROVE  AuthorityInv'
<1> USE DEF TypeOK, fixedVars, targetVars, journalVars, bootVars,
            HasCheckpoint, AuthorityInv
<1>1. CASE Prepare
  BY <1>1 DEF Prepare
<1>2. CASE MirrorJournal
  BY <1>2 DEF MirrorJournal
<1>3. CASE ActivationFails
  <2>1. mem = checkpoint /\ HasCheckpoint
    BY <1>3 DEF ActivationFails, ControlInv, Applying, Activating
  <2> DEFINE j == [mem EXCEPT !.status = "ApplyFailed"]
  <2>2. /\ j \in Journal /\ j.status = "ApplyFailed"
        /\ j.previous = mem.previous /\ j.packages = mem.packages
        /\ Logged(mem, "hardware-provisioning") =>
              Logged(j, "hardware-provisioning")
    BY DEF Journal, Status, Logged
  <2>3. RewriteJournalCopies(j, caller)
    BY <1>3 DEF ActivationFails
  <2> HIDE DEF j
  <2>4. QED
    BY <1>3, <2>1, <2>2, <2>3, RewriteFacts DEF ActivationFails
<1>4. ASSUME NEW path \in Path, Verify(path) PROVE AuthorityInv'
  <2>1. Authoritative = checkpoint /\ HasCheckpoint
    BY <1>4 DEF Verify, Authoritative, ControlInv
  <2> DEFINE j == [Authoritative EXCEPT !.status = "Verified"]
  <2>2. /\ j \in Journal /\ j.status = "Verified"
        /\ j.previous = checkpoint.previous /\ j.packages = checkpoint.packages
        /\ Logged(checkpoint, "hardware-provisioning") =>
              Logged(j, "hardware-provisioning")
    BY <2>1 DEF Journal, Status, Logged
  <2>3. RewriteJournalCopies(j, path)
    BY <1>4 DEF Verify
  <2> HIDE DEF j
  <2>4. QED
    BY <1>4, <2>1, <2>2, <2>3, RewriteFacts DEF Verify, Idle
<1>5. ASSUME NEW path \in Path, NEW S \in SUBSET RollbackStatus,
             BeginRollback(path, S)
      PROVE  AuthorityInv'
  <2>1. checkpoint.status # "RolledBack"
    BY <1>5 DEF BeginRollback, Authoritative, RollbackStatus
  <2>2. QED
    BY <1>5, <2>1 DEF BeginRollback
<1>6. CASE Interrupt \/ Reboot
  BY <1>6 DEF Interrupt, Reboot
<1>7. CASE PackageUpdate
  BY <1>7 DEF PackageUpdate, Idle
<1>8. CASE Recover
  BY <1>5, <1>8 DEF Recover, Path, RecoverStatus, RollbackStatus
<1>9. CASE \E path \in Path : Rollback(path)
  BY <1>5, <1>9 DEF Rollback
<1>10. QED
  BY <1>1, <1>2, <1>3, <1>4, <1>6, <1>7, <1>8, <1>9

\* The package authority and the hardware are journaled ahead.
LEMMA StepAuthority ==
    TypeOK /\ ControlInv /\ AuthorityInv /\ [Next]_vars => AuthorityInv'
<1> SUFFICES ASSUME TypeOK, ControlInv, AuthorityInv, [Next]_vars
             PROVE  AuthorityInv'
  OBVIOUS
<1>1. CASE UNCHANGED vars
  BY <1>1
  DEF vars, bootVars, journalVars, targetVars, fixedVars, AuthorityInv,
      HasCheckpoint
<1>2. CASE Next
  BY <1>2, ApplyAuthority, UndoAuthority, OtherAuthority DEF Next
<1>3. QED
  BY <1>1, <1>2

-----------------------------------------------------------------------------
\* The boot files

LEMMA FirstFile == 1 \in File
BY FileCountAssumption DEF File

\* With the former boot files in place, no file differs.
LEMMA RestoredButOne ==
    ASSUME boot = before.boot
    PROVE  MarkedButOne
BY FirstFile DEF MarkedButOne

LEMMA InitBoot == Init => BootInv
<1> SUFFICES ASSUME Init PROVE BootInv
  OBVIOUS
<1>1. BootUntouched
  BY DEF Init, BootUntouched
<1>2. /\ ~record.exists
      /\ pc = "idle"
      /\ MarkedButOne
  BY <1>1, RestoredButOne DEF Init, NoRecord, BootUntouched
<1>3. QED
  BY <1>1, <1>2 DEF BootInv, BootUntouched, NoRecord, RecordTorn

\* A step that leaves the boot files, their backups and their record alone
\* and starts none of the loops over them.
LEMMA QuietBoot ==
    ASSUME BootInv,
           UNCHANGED <<boot, saved, record, before>>,
           HasCheckpoint => HasCheckpoint',
           checkpoint'.status = "RolledBack" => ~record.exists,
           pc' \in {"provision", "install", "publish", "published"} =>
              BootUntouched,
           pc' \in {"backup", "record", "place", "mark", "undo-boot"} =>
              pc' = pc /\ cursor' = cursor,
           pc' \in {"undo-corinth", "rolled-back"} => ~record.exists
    PROVE  BootInv'
BY DEF BootInv, BootUntouched, MarkedButOne, BackupsExact, RecordTorn

\* A journal write never removes the checkpoint, and the status it leaves is
\* the one written or, with no checkpoint, still Absent.
LEMMA RewriteStatus ==
    ASSUME TypeOK, NEW j \in Journal, NEW path \in Path,
           RewriteJournalCopies(j, path), j.status # "Absent"
    PROVE  /\ HasCheckpoint => HasCheckpoint'
           /\ checkpoint'.status = "RolledBack" => j.status = "RolledBack"
BY RewriteFacts DEF TypeOK, HasCheckpoint

\* The steps of apply.
LEMMA ApplyBoot ==
    ASSUME TypeOK, ControlInv, ControlInv', BootInv, Apply
    PROVE  BootInv'
<1> USE DEF TypeOK, At, fixedVars, targetVars, journalVars, bootVars
<1>1. CASE CheckpointTransaction
  <2>1. /\ ~HasCheckpoint /\ pc' \in {"provision", "publish"}
        /\ checkpoint'.status = "Applying"
    BY <1>1
    DEF CheckpointTransaction, ControlInv, Applying, Activating
  <2>2. BootUntouched
    BY <2>1 DEF BootInv
  <2>3. QED
    BY <1>1, <2>1, <2>2, QuietBoot DEF CheckpointTransaction, HasCheckpoint
<1>2. CASE \/ LogHardware \/ SealHardware \/ PublishGeneration
           \/ \E p \in Packages : InstallPackage(p) \/ ReceiptPackage(p)
  <2>1. /\ pc \in {"provision", "install", "publish"}
        /\ pc' \in {"install", "publish", "published"}
        /\ UNCHANGED <<bootVars, before>>
    BY <1>2
    DEF LogHardware, SealHardware, PublishGeneration, InstallPackage,
        ReceiptPackage
  <2>2. HasCheckpoint' /\ checkpoint'.status = "Applying"
    BY <2>1 DEF ControlInv, Applying, Activating
  <2>3. BootUntouched
    BY <2>1 DEF BootInv
  <2>4. QED
    BY <2>1, <2>2, <2>3, QuietBoot
<1>3. CASE JournalPublished
  <2>1. BootUntouched /\ MarkedButOne
    BY <1>3, RestoredButOne DEF JournalPublished, BootInv, BootUntouched
  <2>2. /\ pc' = "backup" /\ cursor' = 1
        /\ UNCHANGED <<boot, saved, record, before>>
    BY <1>3 DEF JournalPublished
  <2>3. HasCheckpoint' /\ checkpoint'.status = "CorinthPublished"
    BY <2>2 DEF ControlInv, Applying, Activating
  <2>4. \A f \in File : ~(f < 1)
    BY FileCountAssumption DEF File
  <2>5. ~record.exists /\ ~record.readable
    BY <2>1 DEF BootUntouched, NoRecord
  <2>6. QED
    BY <2>1, <2>2, <2>3, <2>4, <2>5
    DEF BootInv, BootUntouched, MarkedButOne, RecordTorn
<1>4. CASE ActivateBackup
  <2>1. /\ pc = "backup" /\ pc' = "backup"
        /\ BackupFile
        /\ UNCHANGED <<journalVars, before>>
    BY <1>4 DEF ActivateBackup, Activate
  <2>2. /\ boot = before.boot /\ record = NoRecord /\ ~record.exists
        /\ \A f \in File : saved[f] = IF f < cursor THEN before.boot[f]
                                                    ELSE "absent"
    BY <2>1 DEF BootInv, NoRecord
  <2>3. boot' = before'.boot /\ record' = NoRecord /\ cursor' = cursor + 1
        /\ cursor \in File
    BY <2>1, <2>2 DEF BackupFile
  <2>4. \A f \in File : saved'[f] = IF f = cursor THEN before.boot[f]
                                                  ELSE saved[f]
    BY <2>1, <2>2 DEF BackupFile, BootType
  <2>5. \A f \in File : saved'[f] = IF f < cursor' THEN before'.boot[f]
                                                   ELSE "absent"
    BY <2>1, <2>2, <2>3, <2>4, FileCountAssumption DEF File
  <2>6. MarkedButOne'
    BY <2>3, FirstFile DEF MarkedButOne
  <2>7. HasCheckpoint' /\ checkpoint'.status = "CorinthPublished"
    BY <2>1 DEF ControlInv, Applying, Activating
  <2>8. ~record'.exists /\ ~record'.readable
    BY <2>3 DEF NoRecord
  <2>9. QED
    BY <2>1, <2>3, <2>5, <2>6, <2>7, <2>8 DEF BootInv, RecordTorn
<1>5. CASE ActivateCreate
  <2>1. /\ pc = "backup" /\ pc' = "record"
        /\ CreateRecord
        /\ UNCHANGED <<journalVars, before>>
    BY <1>5 DEF ActivateCreate, Activate
  <2>2. /\ boot = before.boot
        /\ \A f \in File : saved[f] = IF f < cursor THEN before.boot[f]
                                                    ELSE "absent"
    BY <2>1 DEF BootInv
  <2>3. \A f \in File : saved[f] = before.boot[f]
    BY <2>1, <2>2, FileCountAssumption DEF CreateRecord, File
  <2>4. /\ record' = [NoRecord EXCEPT !.exists = TRUE]
        /\ record'.exists
        /\ ~record'.readable
        /\ record'.installed = {}
        /\ UNCHANGED <<boot, saved>>
    BY <2>1 DEF CreateRecord, NoRecord
  <2>5. MarkedButOne'
    BY <2>1, <2>2, <2>4, FirstFile DEF MarkedButOne
  <2>6. HasCheckpoint' /\ checkpoint'.status = "CorinthPublished"
    BY <2>1 DEF ControlInv, Applying, Activating
  <2>7. QED
    BY <2>1, <2>2, <2>3, <2>4, <2>5, <2>6 DEF BootInv, RecordTorn
<1>6. CASE ActivatePlace
  <2>1. /\ pc = "place" /\ pc' = "mark"
        /\ PlaceFile
        /\ UNCHANGED <<journalVars, before>>
    BY <1>6 DEF ActivatePlace, Activate
  <2>2. /\ record.exists /\ record.readable
        /\ record.installed = {f \in File : f < cursor}
        /\ \A f \in File : f > cursor => boot[f] = before.boot[f]
        /\ BackupsExact
    BY <2>1 DEF BootInv
  <2>3. /\ cursor \in File
        /\ UNCHANGED <<saved, record, cursor>>
        /\ \A f \in File \ {cursor} : boot'[f] = boot[f]
    BY <2>1 DEF PlaceFile, BootType
  <2>4. \A f \in File : f > cursor => boot'[f] = before.boot[f]
    BY <2>2, <2>3, FileCountAssumption DEF File
  <2>5. \A g \in File \ {cursor} :
            boot'[g] # before'.boot[g] => g \in record'.installed
    BY <2>1, <2>2, <2>3, <2>4, FileCountAssumption DEF File
  <2>6. MarkedButOne'
    BY <2>3, <2>5 DEF MarkedButOne
  <2>7. BackupsExact'
    BY <2>1, <2>2, <2>3 DEF BackupsExact
  <2>8. HasCheckpoint' /\ checkpoint'.status = "CorinthPublished"
    BY <2>1 DEF ControlInv, Applying, Activating
  <2>9. QED
    BY <2>1, <2>2, <2>3, <2>4, <2>6, <2>7, <2>8 DEF BootInv, RecordTorn
<1>7. CASE ActivateMark
  <2>1. /\ pc = "mark" /\ pc' = "place"
        /\ MarkInstalled
        /\ UNCHANGED <<journalVars, before>>
    BY <1>7 DEF ActivateMark, Activate
  <2>2. /\ record.exists /\ record.readable
        /\ record.installed = {f \in File : f < cursor}
        /\ \A f \in File : f > cursor => boot[f] = before.boot[f]
        /\ BackupsExact
        /\ cursor \in File
    BY <2>1 DEF BootInv
  <2>3. /\ record'.exists /\ record'.readable
        /\ record'.installed = record.installed \cup {cursor}
        /\ record'.backup = record.backup
        /\ cursor' = cursor + 1
        /\ UNCHANGED <<boot, saved>>
    BY <2>1, <2>2 DEF MarkInstalled, BootType, Record
  <2>4. record'.installed = {f \in File : f < cursor'}
    BY <2>2, <2>3, FileCountAssumption DEF File
  <2>5. \A f \in File : f >= cursor' => boot'[f] = before'.boot[f]
    BY <2>1, <2>2, <2>3, FileCountAssumption DEF File
  <2>6. \A g \in File : boot'[g] # before'.boot[g] => g \in record'.installed
    BY <2>4, <2>5, <2>2, <2>3, FileCountAssumption DEF File
  <2>7. MarkedButOne'
    BY <2>6, FirstFile DEF MarkedButOne
  <2>8. BackupsExact'
    BY <2>1, <2>2, <2>3 DEF BackupsExact
  <2>9. HasCheckpoint' /\ checkpoint'.status = "CorinthPublished"
    BY <2>1 DEF ControlInv, Applying, Activating
  <2>10. \A f \in File : f > cursor' => boot'[f] = before'.boot[f]
    BY <2>5, <2>2, <2>3, FileCountAssumption DEF File
  <2>11. cursor' \in File => boot'[cursor'] = before'.boot[cursor']
    BY <2>5, <2>2, <2>3, FileCountAssumption DEF File
  <2>12. QED
    BY <2>1, <2>3, <2>4, <2>7, <2>8, <2>9, <2>10, <2>11 DEF BootInv, RecordTorn
<1>8. CASE ActivateComplete
  <2>1. /\ pc = "place" /\ pc' = "applied"
        /\ CompleteRecord
        /\ UNCHANGED <<journalVars, before>>
    BY <1>8 DEF ActivateComplete, Activate
  <2>2. /\ record'.exists /\ record'.readable
        /\ record'.installed = record.installed
        /\ record'.backup = record.backup
        /\ UNCHANGED <<boot, saved>>
    BY <2>1 DEF CompleteRecord, BootInv, BootType, Record
  <2>3. HasCheckpoint' /\ checkpoint'.status = "CorinthPublished"
    BY <2>1 DEF ControlInv, Applying, Activating
  <2>4. BackupsExact' /\ MarkedButOne'
    BY <2>1, <2>2 DEF BootInv, BackupsExact, MarkedButOne
  <2>5. QED
    BY <2>1, <2>2, <2>3, <2>4 DEF BootInv, RecordTorn
<1>9. CASE JournalApplied
  <2> DEFINE j == [mem EXCEPT !.status = "Applied"]
             k == Push(j, "boot-bundle")
  <2>1. j \in Journal /\ j.status = "Applied"
    BY DEF Journal, Status
  <2>2. k \in Journal /\ k.status = "Applied"
    BY <2>1, PushFacts DEF Mutation
  <2>3. RewriteJournalCopies(k, caller)
    BY <1>9 DEF JournalApplied
  <2> HIDE DEF k
  <2>4. /\ HasCheckpoint => HasCheckpoint'
        /\ checkpoint'.status # "RolledBack"
    BY <2>2, <2>3, RewriteStatus
  <2>5. QED
    BY <1>9, <2>4, QuietBoot DEF JournalApplied
<1>10. CASE ActivateRecord
  <2>1. /\ pc = "record" /\ pc' = "place"
        /\ WriteRecord
        /\ UNCHANGED <<journalVars, before>>
    BY <1>10 DEF ActivateRecord, Activate
  <2>2. /\ boot = before.boot
        /\ \A f \in File : saved[f] = before.boot[f]
    BY <2>1 DEF BootInv
  <2>3. /\ record'.exists
        /\ record'.readable
        /\ record'.backup = {f \in File : saved[f] # "absent"}
        /\ record'.installed = {}
        /\ cursor' = 1
        /\ UNCHANGED <<boot, saved>>
    BY <2>1 DEF WriteRecord
  <2>4. BackupsExact'
    BY <2>1, <2>2, <2>3 DEF BackupsExact
  <2>5. MarkedButOne'
    BY <2>1, <2>2, <2>3, FirstFile DEF MarkedButOne
  <2>6. record'.installed = {f \in File : f < cursor'}
    BY <2>3, FileCountAssumption DEF File
  <2>7. \A f \in File : boot'[f] = before'.boot[f]
    BY <2>1, <2>2, <2>3
  <2>8. HasCheckpoint' /\ checkpoint'.status = "CorinthPublished"
    BY <2>1 DEF ControlInv, Applying, Activating
  <2>9. QED
    BY <2>1, <2>3, <2>4, <2>5, <2>6, <2>7, <2>8 DEF BootInv, RecordTorn
<1>11. QED
  BY <1>1, <1>2, <1>3, <1>4, <1>5, <1>6, <1>7, <1>8, <1>9, <1>10 DEF Apply

\* The steps of a rollback.
LEMMA UndoBoot ==
    ASSUME TypeOK, ControlInv, BootInv, Undo
    PROVE  BootInv'
<1> USE DEF TypeOK, At, fixedVars, targetVars, journalVars, bootVars
<1>1. CASE \E p \in Packages : RemovePackage(p)
  <2>1. /\ pc' = "undo-hardware"
        /\ UNCHANGED <<bootVars, checkpoint, before>>
    BY <1>1 DEF RemovePackage
  <2>2. QED
    BY <2>1, QuietBoot DEF BootInv, HasCheckpoint
<1>2. CASE HardwareUndone
  <2>1. /\ pc' = "undo-boot"
        /\ cursor' = IF record.exists THEN FileCount ELSE 0
        /\ UNCHANGED <<boot, saved, record, checkpoint, before>>
    BY <1>2 DEF HardwareUndone
  <2>2. \A f \in File : ~(f > FileCount)
    BY FileCountAssumption DEF File
  <2>3. record.exists => \A f \in record.installed :
           f > cursor' => boot'[f] = before'.boot[f]
    BY <2>1, <2>2 DEF BootType, Record
  <2>4. QED
    BY <2>1, <2>3
    DEF BootInv, BootUntouched, MarkedButOne, BackupsExact, HasCheckpoint,
        RecordTorn
<1>3. CASE RestoreBootFile
  <2>1. /\ pc = "undo-boot" /\ pc' = "undo-boot"
        /\ RestoreFile
        /\ UNCHANGED <<saved, record, checkpoint, before>>
    BY <1>3 DEF RestoreBootFile, RestoreFile
  <2>2. cursor \in File /\ record.exists /\ record.readable
    BY <2>1, FileCountAssumption DEF RestoreFile, BootInv, File, RecordTorn
  <2>3. /\ BackupsExact
        /\ MarkedButOne
        /\ \A f \in record.installed : f > cursor => boot[f] = before.boot[f]
    BY <2>1, <2>2 DEF BootInv
  <2>4. \A f \in File :
           boot'[f] = IF f = cursor /\ f \in record.installed
                      THEN before.boot[f] ELSE boot[f]
    BY <2>1, <2>2, <2>3 DEF RestoreFile, BackupsExact, BootType
  <2>5. \A f \in record'.installed :
           f > cursor' => boot'[f] = before'.boot[f]
    <3>1. cursor' = cursor - 1
      BY <2>1 DEF RestoreFile
    <3>2. \A f \in File : f > cursor - 1 => f = cursor \/ f > cursor
      BY <2>2, FileCountAssumption DEF File
    <3>3. record.installed \subseteq File
      BY DEF BootType, Record
    <3>4. QED
      BY <2>1, <2>3, <2>4, <3>1, <3>2, <3>3
  <2>6. MarkedButOne'
    BY <2>1, <2>3, <2>4 DEF MarkedButOne
  <2>7. BackupsExact'
    BY <2>1, <2>3 DEF BackupsExact
  <2>8. HasCheckpoint /\ HasCheckpoint'
    BY <2>1, <2>2 DEF BootInv, BootUntouched, NoRecord, HasCheckpoint
  <2>9. checkpoint'.status # "RolledBack"
    BY <2>1, RollingBackOpen DEF RollingBack
  <2>10. QED
    BY <2>1, <2>2, <2>5, <2>6, <2>7, <2>8, <2>9 DEF BootInv, RecordTorn
<1>4. CASE BootUndone
  <2>1. /\ pc = "undo-boot" /\ pc' = "undo-corinth"
        /\ cursor = 0
        /\ record' = NoRecord
        /\ ~record'.exists /\ ~record'.readable
        /\ UNCHANGED <<boot, saved, checkpoint, before>>
    BY <1>4 DEF BootUndone, RemoveRecord, NoRecord
  <2>2. \A f \in record.installed : boot[f] = before.boot[f]
    <3>1. CASE record.exists
      <4>1. \A f \in record.installed : f > 0
        BY FileCountAssumption DEF BootType, Record, File
      <4>2. QED
        BY <2>1, <3>1, <4>1 DEF BootInv
    <3>2. CASE ~record.exists
      BY <3>2 DEF BootInv, NoRecord
    <3>3. QED
      BY <3>1, <3>2
  <2>3. MarkedButOne'
    BY <2>1, <2>2 DEF BootInv, MarkedButOne
  <2>4. QED
    BY <2>1, <2>3 DEF BootInv, BootUntouched, HasCheckpoint, RecordTorn
<1>5. CASE RollbackCorinth \/ RefuseCorinth
  <2>1. /\ pc = "undo-corinth" /\ pc' \in {"rolled-back", "idle"}
        /\ UNCHANGED <<bootVars, checkpoint, before>>
    BY <1>5 DEF RollbackCorinth, RefuseCorinth
  <2>2. QED
    BY <2>1, QuietBoot DEF BootInv, HasCheckpoint
<1>6. CASE JournalRolledBack
  <2> DEFINE j == [mem EXCEPT !.status = "RolledBack", !.target = TRUE,
                              !.published = FALSE]
             k == PushOnce(j, "corinth-generation:rolled-back")
  <2>1. j \in Journal /\ j.status = "RolledBack"
    BY DEF Journal, Status
  <2>2. k \in Journal /\ k.status = "RolledBack"
    BY <2>1, PushOnceFacts DEF Mutation
  <2>3. RewriteJournalCopies(k, caller)
    BY <1>6 DEF JournalRolledBack
  <2> HIDE DEF k
  <2>4. HasCheckpoint => HasCheckpoint'
    BY <2>2, <2>3, RewriteStatus
  <2>5. ~record.exists
    BY <1>6 DEF JournalRolledBack, BootInv
  <2>6. QED
    BY <1>6, <2>4, <2>5, QuietBoot DEF JournalRolledBack
<1>7. CASE RefuseRecord
  <2>1. /\ pc' = "idle"
        /\ UNCHANGED <<boot, saved, record, checkpoint, before>>
    BY <1>7 DEF RefuseRecord
  <2>2. QED
    BY <2>1, QuietBoot DEF BootInv, HasCheckpoint
<1>8. QED
  BY <1>1, <1>2, <1>3, <1>4, <1>5, <1>6, <1>7 DEF Undo

\* The other steps.
LEMMA OtherBoot ==
    ASSUME TypeOK, ControlInv, BootInv,
           \/ Prepare \/ MirrorJournal \/ ActivationFails \/ Recover
           \/ \E path \in Path : Verify(path) \/ Rollback(path)
           \/ Interrupt \/ Reboot \/ PackageUpdate
    PROVE  BootInv'
<1> USE DEF TypeOK, fixedVars, targetVars, journalVars, bootVars
<1>1. CASE Prepare \/ PackageUpdate
  <2>1. /\ pc' = "idle"
        /\ UNCHANGED <<bootVars, checkpoint, before>>
    BY <1>1 DEF Prepare, PackageUpdate, Idle
  <2>2. QED
    BY <2>1, QuietBoot DEF BootInv, HasCheckpoint
<1>2. CASE MirrorJournal
  <2>1. UNCHANGED <<bootVars, pc, checkpoint, before>>
    BY <1>2 DEF MirrorJournal
  <2>2. QED
    BY <2>1, QuietBoot DEF BootInv, HasCheckpoint
<1>3. CASE ActivationFails
  <2> DEFINE j == [mem EXCEPT !.status = "ApplyFailed"]
  <2>1. j \in Journal /\ j.status = "ApplyFailed"
    BY DEF Journal, Status
  <2>2. RewriteJournalCopies(j, caller)
    BY <1>3 DEF ActivationFails
  <2> HIDE DEF j
  <2>3. /\ HasCheckpoint => HasCheckpoint'
        /\ checkpoint'.status # "RolledBack"
    BY <2>1, <2>2, RewriteStatus
  <2>4. QED
    BY <1>3, <2>3, QuietBoot DEF ActivationFails
<1>4. ASSUME NEW path \in Path, Verify(path) PROVE BootInv'
  <2> DEFINE j == [Authoritative EXCEPT !.status = "Verified"]
  <2>1. j \in Journal /\ j.status = "Verified"
    BY DEF Authoritative, Journal, Status
  <2>2. RewriteJournalCopies(j, path)
    BY <1>4 DEF Verify
  <2> HIDE DEF j
  <2>3. /\ HasCheckpoint => HasCheckpoint'
        /\ checkpoint'.status # "RolledBack"
    BY <2>1, <2>2, RewriteStatus
  <2>4. QED
    BY <1>4, <2>3, QuietBoot DEF Verify, Idle
<1>5. CASE Recover \/ \E path \in Path : Rollback(path)
  <2>1. /\ pc' = "undo-hardware"
        /\ UNCHANGED <<bootVars, checkpoint, before>>
    BY <1>5 DEF Recover, Rollback, BeginRollback
  <2>2. QED
    BY <2>1, QuietBoot DEF BootInv, HasCheckpoint
<1>6. CASE Interrupt \/ Reboot
  <2>1. /\ pc' = "idle"
        /\ UNCHANGED <<boot, saved, record, checkpoint, before>>
    BY <1>6 DEF Interrupt, Reboot
  <2>2. QED
    BY <2>1, QuietBoot DEF BootInv, HasCheckpoint
<1>7. QED
  BY <1>1, <1>2, <1>3, <1>4, <1>5, <1>6

-----------------------------------------------------------------------------
\* The theorems

\* The inductive invariant holds in every reachable state.
THEOREM InductiveInvariant == Spec => []IInv
<1>1. Init => IInv
  BY InitType, InitControl, InitAuthority, InitBoot DEF IInv
<1>2. IInv /\ [Next]_vars => IInv'
  <2> SUFFICES ASSUME IInv, [Next]_vars PROVE IInv'
    OBVIOUS
  <2>1. TypeOK' /\ ControlInv' /\ AuthorityInv'
    BY StepType, StepControl, StepAuthority DEF IInv
  <2>2. CASE UNCHANGED vars
    BY <2>1, <2>2
    DEF IInv, vars, bootVars, journalVars, targetVars, fixedVars, BootInv,
        BootUntouched, MarkedButOne, BackupsExact, HasCheckpoint, RecordTorn
  <2>3. CASE Next
    BY <2>1, <2>3, ApplyBoot, UndoBoot, OtherBoot DEF IInv, Next
  <2>4. QED
    BY <2>2, <2>3
<1>3. QED
  BY <1>1, <1>2, PTL DEF Spec

\* Whatever apply and the faults changed on the target, the checkpoint names
\* what undoes it (checkpoint_transaction before every mutation, the previous
\* generation before the publication, the backups before the boot files).
THEOREM EveryMutationJournaled == Spec => []MutationsAreJournaled
<1>1. IInv => MutationsAreJournaled
  <2> SUFFICES ASSUME IInv PROVE MutationsAreJournaled
    OBVIOUS
  <2>1. record.exists \/ record = NoRecord
    BY DEF IInv, BootInv
  <2>2. ~HasCheckpoint => /\ boot = before.boot
                          /\ active = before.active
                          /\ hardware = {}
                          /\ ~record.exists
    BY DEF IInv, AuthorityInv, BootInv, BootUntouched, NoRecord
  <2>3. hardware # {} => /\ hardware \subseteq checkpoint.packages
                         /\ Logged(checkpoint, "hardware-provisioning")
    BY DEF IInv, AuthorityInv
  <2>4. /\ active # before.active => checkpoint.previous = before.active
        /\ receipts \subseteq hardware
        /\ receipts # {} => checkpoint.status # "RolledBack"
    BY DEF IInv, AuthorityInv
  <2>5. \A f \in record.installed :
           IF f \in record.backup THEN saved[f] = before.boot[f]
           ELSE before.boot[f] = "absent"
    <3>1. CASE record.readable
      BY <3>1 DEF IInv, TypeOK, BootType, Record, BootInv, BackupsExact
    <3>2. CASE ~record.readable
      <4>1. record.installed = {}
        BY <2>1, <3>2 DEF IInv, BootInv, NoRecord, RecordTorn
      <4>2. QED
        BY <4>1
    <3>3. QED
      BY <3>1, <3>2
  <2>6. QED
    BY <2>2, <2>3, <2>4, <2>5 DEF MutationsAreJournaled
<1>2. QED
  BY InductiveInvariant, <1>1, PTL

\* A journal that says rolled-back tells the truth of the package authority,
\* the packages and every boot file but at most one.
THEOREM RolledBackRestored == Spec => []RolledBackIsRestored
<1>1. IInv => RolledBackIsRestored
  <2> SUFFICES ASSUME IInv, checkpoint.status = "RolledBack"
               PROVE  /\ active = before.active
                      /\ receipts = {}
                      /\ ~record.exists
                      /\ \E f \in File : \A g \in File \ {f} :
                            boot[g] = before.boot[g]
    BY DEF RolledBackIsRestored
  <2>1. ~record.exists /\ record = NoRecord /\ MarkedButOne
    BY DEF IInv, BootInv
  <2>2. \E f \in File : \A g \in File \ {f} : boot[g] = before.boot[g]
    BY <2>1 DEF MarkedButOne, NoRecord
  <2>3. active = before.active /\ receipts = {}
    BY DEF IInv, AuthorityInv
  <2>4. QED
    BY <2>1, <2>2, <2>3
<1>2. QED
  BY InductiveInvariant, <1>1, PTL

\* No command, from either copy of the documents, goes on from rolled-back.
THEOREM RolledBackFinal == Spec => RolledBackIsFinal
<1> DEFINE Final == checkpoint.status = "RolledBack" =>
                      UNCHANGED <<checkpoint, boot, record, active, hardware,
                                  receipts>>
<1>1. IInv /\ [Next]_vars => Final
  <2> SUFFICES ASSUME IInv, [Next]_vars, checkpoint.status = "RolledBack"
               PROVE  UNCHANGED <<checkpoint, boot, record, active, hardware,
                                  receipts>>
    OBVIOUS
  <2>1. HasCheckpoint /\ pc = "idle"
    BY DEF IInv, AuthorityInv, HasCheckpoint
  <2>2. CASE UNCHANGED vars
    BY <2>2 DEF vars, bootVars, journalVars, targetVars
  <2>3. ~Apply
    BY <2>1
    DEF Apply, CheckpointTransaction, LogHardware, InstallPackage,
        ReceiptPackage, SealHardware, PublishGeneration, JournalPublished,
        ActivateBackup, ActivateCreate, ActivateRecord, ActivatePlace,
        ActivateMark, ActivateComplete, Activate, JournalApplied, At
  <2>4. ~Undo
    BY <2>1
    DEF Undo, RemovePackage, HardwareUndone, RestoreBootFile, RefuseRecord,
        BootUndone, RollbackCorinth, RefuseCorinth, JournalRolledBack, At
  <2>5. /\ ~ActivationFails
        /\ \A path \in Path : ~Verify(path)
        /\ \A path \in Path : ~Rollback(path)
        /\ ~Recover
        /\ ~PackageUpdate
    BY <2>1
    DEF ActivationFails, Activating, Verify, Rollback, Recover,
        BeginRollback, Authoritative, RollbackStatus, RecoverStatus,
        PackageUpdate
  <2>6. CASE Prepare \/ MirrorJournal \/ Interrupt \/ Reboot
    BY <2>6
    DEF Prepare, MirrorJournal, Interrupt, Reboot, bootVars, targetVars
  <2>7. QED
    BY <2>2, <2>3, <2>4, <2>5, <2>6 DEF Next
<1>2. QED
  BY InductiveInvariant, <1>1, PTL DEF Spec, RolledBackIsFinal
=============================================================================
