------------------ MODULE InstallTransactionRefinementProofs ------------------
(***************************************************************************)
(* What the journals of a transaction say at every moment, what a verified *)
(* transaction may be relied on for, and that the transaction implements   *)
(* the abstract installation of AtomicInstall. The argument adds two       *)
(* groups, JournalInv and PublicationInv, to the inductive invariant.      *)
(***************************************************************************)
EXTENDS InstallTransactionProofs

-----------------------------------------------------------------------------
\* Counting mutations

LEMMA MutationNames ==
    /\ "hardware-provisioning" \in Mutation
    /\ "corinth-generation" \in Mutation
    /\ "boot-bundle" \in Mutation
    /\ "hardware-provisioning:rolled-back" \in Mutation
    /\ "corinth-generation:rolled-back" \in Mutation
    /\ "boot-bundle:rolled-back" \in Mutation
BY DEF Mutation

\* What the three ways to push a mutation do to the counts.
LEMMA PushCounts ==
    ASSUME NEW j \in Journal, NEW m \in Mutation, NEW n \in Mutation
    PROVE  /\ Count(j, n) \in Nat
           /\ Count(Push(j, m), n) = IF n = m THEN Count(j, n) + 1
                                     ELSE Count(j, n)
BY DEF Push, Journal, Count

LEMMA PushOnceCounts ==
    ASSUME NEW j \in Journal, NEW m \in Mutation, NEW n \in Mutation
    PROVE  Count(PushOnce(j, m), n) =
              IF n = m /\ Count(j, m) = 0 THEN 1 ELSE Count(j, n)
BY PushCounts DEF PushOnce, Logged, Count

LEMMA PushUndoneCounts ==
    ASSUME NEW j \in Journal, NEW m \in Mutation, NEW u \in Mutation,
           NEW n \in Mutation
    PROVE  Count(PushUndone(j, m, u), n) =
              IF n = u /\ Count(j, m) > 0 /\ Count(j, u) = 0 THEN 1
              ELSE Count(j, n)
BY PushOnceCounts DEF PushUndone, Logged, Count

\* The stages in order.
LEMMA Ranks ==
    /\ \A s \in Status : Rank[s] \in Nat /\ Rank["Absent"] <= Rank[s]
                                         /\ Rank[s] <= Rank["RolledBack"]
    /\ Rank["Prepared"] < Rank["Applying"]
    /\ Rank["Applying"] < Rank["CorinthPublished"]
    /\ Rank["CorinthPublished"] < Rank["ApplyFailed"]
    /\ Rank["CorinthPublished"] < Rank["Applied"]
    /\ Rank["Applied"] < Rank["Verified"]
BY DEF Rank, Status

\* A journal built from another by the steps of apply, verify and rollback
\* has the counts of its stage.
LEMMA BlankCounts ==
    /\ \A m \in Mutation : Count(PreparedJournal, m) = 0
    /\ StageCounts(PreparedJournal)
    /\ ValidJournal(PreparedJournal)
    /\ ~ValidJournal(NoJournal)
<1>1. \A m \in Mutation : Count(PreparedJournal, m) = 0
  BY DEF Count, PreparedJournal, Blank
<1>2. ValidJournal(PreparedJournal)
  BY FixedJournals DEF ValidJournal, CoherentPrepared
<1>3. ~ValidJournal(NoJournal)
  BY FixedJournals DEF ValidJournal, PublishedStatus
<1>4. QED
  BY <1>1, <1>2, <1>3, FixedJournals
  DEF StageCounts, NothingUndone, Mutation

\* What a write of the journal leaves, if the checkpoint exists and what is
\* written is at the same stage or a later one.
LEMMA RewriteStages ==
    ASSUME TypeOK, JournalInv, HasCheckpoint,
           NEW j \in Journal, NEW path \in Path, RewriteJournalCopies(j, path),
           StageCounts(j), j.status # "Absent",
           Rank[checkpoint.status] <= Rank[j.status]
    PROVE  /\ checkpoint' = j
           /\ HasCheckpoint'
           /\ runtime' # NoJournal => ValidJournal(runtime')
           /\ StageCounts(checkpoint')
           /\ RuntimeNeverAhead'
<1>1. checkpoint' = j /\ runtime' = runtime
  BY RewriteFacts DEF TypeOK
<1>2. {runtime.status, checkpoint.status, j.status} \subseteq Status
  BY DEF TypeOK, Journal
<1>3. Rank[runtime.status] <= Rank[checkpoint.status]
  BY DEF JournalInv, RuntimeNeverAhead
<1>4. Rank[runtime.status] <= Rank[j.status]
  BY <1>2, <1>3, Ranks
<1>5. QED
  BY <1>1, <1>4 DEF JournalInv, HasCheckpoint, RuntimeNeverAhead

-----------------------------------------------------------------------------
\* The journals

LEMMA InitJournal == Init => JournalInv
  BY FixedJournals
  DEF Init, JournalInv, HasCheckpoint, RollingBack, RuntimeNeverAhead

\* A step that leaves the journals and what is running alone.
LEMMA QuietJournal ==
    ASSUME JournalInv, UNCHANGED <<runtime, checkpoint, mem>>,
           pc' = pc \/ pc' \notin {"provision"} \cup RollingBack
    PROVE  JournalInv'
BY DEF JournalInv, HasCheckpoint, RuntimeNeverAhead, RollingBack

\* The steps of apply.
LEMMA ApplyJournal ==
    ASSUME TypeOK, ControlInv, JournalInv, Apply
    PROVE  JournalInv'
<1> USE DEF At
<1>0. caller \in Path /\ mem \in Journal /\ checkpoint \in Journal
      /\ runtime \in Journal
  BY DEF TypeOK
<1>1. CASE CheckpointTransaction
  <2> DEFINE j == ApplyingJournal
  <2>1. runtime = PreparedJournal
    BY <1>1 DEF CheckpointTransaction, Loadable, ControlInv
  <2>2. /\ j.status = "Applying" /\ j.target /\ ~j.published
        /\ \A m \in Mutation : Count(j, m) = 0
    BY <2>1, BlankCounts DEF ApplyingJournal, Journal, PreparedJournal, Blank, Count
  <2>3. StageCounts(j)
    BY <2>2 DEF StageCounts, ValidJournal, CoherentApplying, NothingUndone,
                Count, Mutation, PublishedStatus
  <2>4. runtime.status = "Prepared" /\ ValidJournal(runtime)
    BY <2>1, BlankCounts, FixedJournals
  <2>5. checkpoint' = j /\ runtime' = runtime
        /\ pc' \in {"provision", "publish"}
    BY <1>1 DEF CheckpointTransaction
  <2>6. Count(checkpoint', "hardware-provisioning") = 0
    BY <2>2, <2>5 DEF Mutation
  <2>7. Rank[runtime'.status] <= Rank[checkpoint'.status]
    BY <2>2, <2>4, <2>5, Ranks DEF Status
  <2> HIDE DEF j
  <2>8. QED
    BY <2>3, <2>4, <2>5, <2>6, <2>7
    DEF JournalInv, RollingBack, RuntimeNeverAhead
<1>2. CASE LogHardware
  <2>1. pc = "provision" /\ pc' = "install"
        /\ mem = checkpoint /\ HasCheckpoint /\ checkpoint.status = "Applying"
        /\ Count(checkpoint, "hardware-provisioning") = 0
        /\ StageCounts(checkpoint)
    BY <1>2 DEF LogHardware, ControlInv, JournalInv, Applying, Activating
  <2>2. CASE UNCHANGED journalVars
    BY <2>1, <2>2, QuietJournal DEF journalVars, RollingBack
  <2>3. CASE ~ UNCHANGED journalVars
    <3> DEFINE j == [mem EXCEPT !.packages = plan.packages]
               k == Push(j, "hardware-provisioning")
    <3>1. /\ j \in Journal /\ j.status = "Applying"
          /\ j.target = checkpoint.target /\ j.published = checkpoint.published
          /\ \A m \in Mutation : Count(j, m) = Count(checkpoint, m)
      BY <2>1 DEF TypeOK, Journal, Plan, Count
    <3> HIDE DEF j
    <3>2. /\ k \in Journal /\ k.status = "Applying"
          /\ k.target = checkpoint.target /\ k.published = checkpoint.published
          /\ \A m \in Mutation : Count(k, m) =
                IF m = "hardware-provisioning" THEN 1 ELSE Count(checkpoint, m)
      <4>1. /\ k \in Journal /\ k.status = j.status /\ k.target = j.target
            /\ k.published = j.published
        BY <3>1, MutationNames, PushFacts
      <4>2. \A m \in Mutation : Count(k, m) = IF m = "hardware-provisioning"
            THEN Count(j, m) + 1 ELSE Count(j, m)
        BY <3>1, MutationNames, PushCounts
      <4>3. QED
        BY <2>1, <3>1, <4>1, <4>2, MutationNames
    <3> HIDE DEF k
    <3>3. StageCounts(k)
      BY <2>1, <3>2 DEF StageCounts, ValidJournal, CoherentApplying,
                        NothingUndone, Count, Mutation, PublishedStatus
    <3>4. RewriteJournalCopies(k, caller)
      BY <1>2, <2>3 DEF LogHardware, k, j
    <3>5. Rank[checkpoint.status] <= Rank[k.status]
      BY <2>1, <3>2, Ranks DEF Status
    <3>6. QED
      BY <1>0, <2>1, <3>2, <3>3, <3>4, <3>5, RewriteStages
      DEF JournalInv, RollingBack
  <2>4. QED
    BY <2>2, <2>3
<1>3. CASE \E p \in Packages : InstallPackage(p) \/ ReceiptPackage(p)
  BY <1>3, QuietJournal DEF InstallPackage, ReceiptPackage, journalVars
<1>4. CASE SealHardware
  <2>1. pc' = "publish"
        /\ mem = checkpoint /\ HasCheckpoint /\ checkpoint.status = "Applying"
        /\ StageCounts(checkpoint)
    BY <1>4 DEF SealHardware, ControlInv, JournalInv, Applying, Activating
  <2> DEFINE k == [mem EXCEPT !.packages = receipts]
  <2>2. /\ k \in Journal /\ k.status = "Applying"
        /\ k.target = checkpoint.target /\ k.published = checkpoint.published
        /\ k.mutations = checkpoint.mutations
    BY <2>1 DEF TypeOK, Journal
  <2> HIDE DEF k
  <2>3. StageCounts(k)
    BY <2>1, <2>2 DEF StageCounts, ValidJournal, CoherentApplying,
                      NothingUndone, Count, PublishedStatus
  <2>4. RewriteJournalCopies(k, caller)
    BY <1>4 DEF SealHardware, k
  <2>5. Rank[checkpoint.status] <= Rank[k.status]
    BY <2>1, <2>2, Ranks DEF Status
  <2>6. QED
    BY <1>0, <2>1, <2>2, <2>3, <2>4, <2>5, RewriteStages
    DEF JournalInv, RollingBack
<1>5. CASE PublishGeneration
  BY <1>5, QuietJournal DEF PublishGeneration, journalVars, RollingBack
<1>6. CASE JournalPublished
  <2>1. pc' = "backup"
        /\ mem = checkpoint /\ HasCheckpoint /\ checkpoint.status = "Applying"
        /\ StageCounts(checkpoint)
    BY <1>6 DEF JournalPublished, ControlInv, JournalInv, Applying, Activating
  <2> DEFINE j == [mem EXCEPT !.status = "CorinthPublished", !.published = TRUE]
             k == Push(j, "corinth-generation")
  <2>2. /\ j \in Journal /\ j.status = "CorinthPublished"
        /\ j.target = checkpoint.target /\ j.published
        /\ \A m \in Mutation : Count(j, m) = Count(checkpoint, m)
    BY <2>1 DEF TypeOK, Journal, Status, Count
  <2> HIDE DEF j
  <2>3. /\ k \in Journal /\ k.status = "CorinthPublished"
        /\ k.target = checkpoint.target /\ k.published
        /\ \A m \in Mutation : Count(k, m) =
              IF m = "corinth-generation" THEN Count(checkpoint, m) + 1
              ELSE Count(checkpoint, m)
    <3>1. /\ k \in Journal /\ k.status = j.status /\ k.target = j.target
          /\ k.published = j.published
      BY <2>2, MutationNames, PushFacts
    <3>2. \A m \in Mutation : Count(k, m) = IF m = "corinth-generation"
          THEN Count(j, m) + 1 ELSE Count(j, m)
      BY <2>2, MutationNames, PushCounts
    <3>3. QED
      BY <2>1, <2>2, <3>1, <3>2, MutationNames
  <2> HIDE DEF k
  <2>4. StageCounts(k)
    BY <2>1, <2>3 DEF StageCounts, ValidJournal, CoherentApplying,
       CoherentPublished, NothingUndone, Count, Mutation, PublishedStatus
  <2>5. RewriteJournalCopies(k, caller)
    BY <1>6 DEF JournalPublished, k, j
  <2>6. Rank[checkpoint.status] <= Rank[k.status]
    BY <2>1, <2>3, Ranks DEF Status
  <2>7. QED
    BY <1>0, <2>1, <2>3, <2>4, <2>5, <2>6, RewriteStages
    DEF JournalInv, RollingBack
<1>7. CASE \/ ActivateBackup \/ ActivateCreate \/ ActivateRecord
           \/ ActivatePlace \/ ActivateMark \/ ActivateComplete
  <2>1. /\ pc' \in Activating \cup {"applied"}
        /\ UNCHANGED journalVars
    BY <1>7
    DEF ActivateBackup, ActivateCreate, ActivateRecord, ActivatePlace,
        ActivateMark, ActivateComplete, Activate, Activating
  <2>2. QED
    BY <2>1, QuietJournal DEF journalVars, Activating, RollingBack
<1>8. CASE JournalApplied
  <2>1. pc' = "idle"
        /\ mem = checkpoint /\ HasCheckpoint
        /\ checkpoint.status = "CorinthPublished" /\ StageCounts(checkpoint)
    BY <1>8 DEF JournalApplied, ControlInv, JournalInv, Applying, Activating
  <2> DEFINE j == [mem EXCEPT !.status = "Applied"]
             k == Push(j, "boot-bundle")
  <2>2. /\ j \in Journal /\ j.status = "Applied"
        /\ j.target = checkpoint.target /\ j.published = checkpoint.published
        /\ \A m \in Mutation : Count(j, m) = Count(checkpoint, m)
    BY <2>1 DEF TypeOK, Journal, Status, Count
  <2> HIDE DEF j
  <2>3. /\ k \in Journal /\ k.status = "Applied"
        /\ k.target = checkpoint.target /\ k.published = checkpoint.published
        /\ \A m \in Mutation : Count(k, m) =
              IF m = "boot-bundle" THEN Count(checkpoint, m) + 1
              ELSE Count(checkpoint, m)
    <3>1. /\ k \in Journal /\ k.status = j.status /\ k.target = j.target
          /\ k.published = j.published
      BY <2>2, MutationNames, PushFacts
    <3>2. \A m \in Mutation : Count(k, m) = IF m = "boot-bundle"
          THEN Count(j, m) + 1 ELSE Count(j, m)
      BY <2>2, MutationNames, PushCounts
    <3>3. QED
      BY <2>1, <2>2, <3>1, <3>2, MutationNames
  <2> HIDE DEF k
  <2>4. StageCounts(k)
    BY <2>1, <2>3 DEF StageCounts, ValidJournal,
       CoherentPublished, NothingUndone, Count, Mutation, PublishedStatus
  <2>5. RewriteJournalCopies(k, caller)
    BY <1>8 DEF JournalApplied, k, j
  <2>6. Rank[checkpoint.status] <= Rank[k.status]
    BY <2>1, <2>3, Ranks DEF Status
  <2>7. QED
    BY <1>0, <2>1, <2>3, <2>4, <2>5, <2>6, RewriteStages
    DEF JournalInv, RollingBack
<1>9. QED
  BY <1>1, <1>2, <1>3, <1>4, <1>5, <1>6, <1>7, <1>8 DEF Apply

\* What a rollback starts from: a journal with each mutation at most once and
\* nothing undone.
LEMMA OpenCounts ==
    ASSUME TypeOK, ControlInv, JournalInv,
           Authoritative.status \in RollbackStatus
    PROVE  /\ \A m \in {"hardware-provisioning", "corinth-generation",
                        "boot-bundle"} : Count(Authoritative, m) <= 1
           /\ NothingUndone(Authoritative)
<1>1. CASE HasCheckpoint
  BY <1>1
  DEF Authoritative, JournalInv, StageCounts, ValidJournal, CoherentPrepared,
      CoherentApplying, CoherentPublished, PublishedStatus, RollbackStatus,
      Count, NothingUndone, ControlInv
<1>2. CASE ~HasCheckpoint
  <2>1. Authoritative = PreparedJournal
    BY <1>2 DEF Authoritative, ControlInv, RollbackStatus
  <2>2. QED
    BY <2>1, BlankCounts, MutationNames DEF NothingUndone
<1>3. QED
  BY <1>1, <1>2

\* The steps of a rollback.
LEMMA UndoJournal ==
    ASSUME TypeOK, ControlInv, JournalInv, Undo
    PROVE  JournalInv'
<1> USE DEF At
<1>0. /\ caller \in Path /\ mem \in Journal /\ checkpoint \in Journal
      /\ runtime \in Journal
      /\ \A m \in Mutation : Count(mem, m) \in Nat
  BY PushCounts DEF TypeOK
<1>1. CASE \E p \in Packages : RemovePackage(p)
  BY <1>1, QuietJournal DEF RemovePackage, journalVars
<1>2. CASE HardwareUndone
  <2>1. /\ pc = "undo-hardware" /\ pc' = "undo-boot"
        /\ mem' = PushUndone(mem, "hardware-provisioning",
                             "hardware-provisioning:rolled-back")
        /\ UNCHANGED <<runtime, checkpoint>>
    BY <1>2 DEF HardwareUndone
  <2>2. \A n \in Mutation : Count(mem', n) =
           IF /\ n = "hardware-provisioning:rolled-back"
              /\ Count(mem, "hardware-provisioning") > 0
              /\ Count(mem, "hardware-provisioning:rolled-back") = 0
           THEN 1 ELSE Count(mem, n)
    BY <1>0, <2>1, MutationNames, PushUndoneCounts
  <2>3. QED
    BY <1>0, <2>1, <2>2, MutationNames
    DEF JournalInv, RollingBack, HasCheckpoint, RuntimeNeverAhead
<1>3. CASE RestoreBootFile
  BY <1>3, QuietJournal DEF RestoreBootFile, journalVars
<1>4. CASE BootUndone
  <2>1. /\ pc = "undo-boot" /\ pc' = "undo-corinth"
        /\ mem' = PushUndone(mem, "boot-bundle", "boot-bundle:rolled-back")
        /\ UNCHANGED <<runtime, checkpoint>>
    BY <1>4 DEF BootUndone
  <2>2. \A n \in Mutation : Count(mem', n) =
           IF /\ n = "boot-bundle:rolled-back"
              /\ Count(mem, "boot-bundle") > 0
              /\ Count(mem, "boot-bundle:rolled-back") = 0
           THEN 1 ELSE Count(mem, n)
    BY <1>0, <2>1, MutationNames, PushUndoneCounts
  <2>3. QED
    BY <1>0, <2>1, <2>2, MutationNames
    DEF JournalInv, RollingBack, HasCheckpoint, RuntimeNeverAhead
<1>5. CASE RollbackCorinth \/ RefuseCorinth
  <2>1. /\ pc = "undo-corinth" /\ pc' \in {"rolled-back", "idle"}
        /\ UNCHANGED journalVars
    BY <1>5 DEF RollbackCorinth, RefuseCorinth
  <2>2. QED
    BY <2>1
    DEF JournalInv, RollingBack, HasCheckpoint, RuntimeNeverAhead, journalVars
<1>6. CASE JournalRolledBack
  <2> DEFINE j == [mem EXCEPT !.status = "RolledBack", !.target = TRUE,
                              !.published = FALSE]
             k == PushOnce(j, "corinth-generation:rolled-back")
  <2>1. /\ j \in Journal /\ j.status = "RolledBack" /\ j.target /\ ~j.published
        /\ \A m \in Mutation : Count(j, m) = Count(mem, m)
    BY <1>0 DEF Journal, Status, Count
  <2> HIDE DEF j
  <2>2. /\ k \in Journal /\ k.status = "RolledBack" /\ k.target /\ ~k.published
    <3>1. /\ k \in Journal /\ k.status = j.status /\ k.target = j.target
          /\ k.published = j.published
      BY <2>1, MutationNames, PushOnceFacts
    <3>2. QED
      BY <2>1, <3>1
  <2>3. \A m \in Mutation : Count(k, m) =
           IF /\ m = "corinth-generation:rolled-back"
              /\ Count(j, "corinth-generation:rolled-back") = 0
           THEN 1 ELSE Count(j, m)
    BY <2>1, MutationNames, PushOnceCounts
  <2>4. RewriteJournalCopies(k, caller) /\ pc = "rolled-back" /\ pc' = "idle"
    BY <1>6 DEF JournalRolledBack, j
  <2> HIDE DEF k
  <2>5. /\ Count(k, "corinth-generation:rolled-back") = 1
        /\ Count(k, "corinth-generation") <= 1
        /\ Count(k, "boot-bundle:rolled-back") = Count(k, "boot-bundle")
        /\ Count(k, "hardware-provisioning:rolled-back")
             = Count(k, "hardware-provisioning")
    BY <2>1, <2>3, <2>4, MutationNames DEF JournalInv, RollingBack
  <2>6. ValidJournal(k)
    BY <2>2, <2>5 DEF ValidJournal, CoherentRolledBack, Count
  <2>7. StageCounts(k)
    BY <2>2, <2>6 DEF StageCounts
  <2>8. CASE HasCheckpoint
    <3>1. Rank[checkpoint.status] <= Rank[k.status]
      BY <1>0, <2>2, Ranks DEF Journal
    <3>2. QED
      BY <1>0, <2>2, <2>4, <2>7, <2>8, <3>1, RewriteStages
      DEF JournalInv, RollingBack
  <2>9. CASE ~HasCheckpoint
    BY <1>0, <2>2, <2>4, <2>6, <2>9, RewriteFacts
    DEF JournalInv, RollingBack, HasCheckpoint, RuntimeNeverAhead
  <2>10. QED
    BY <2>8, <2>9
<1>7. CASE RefuseRecord
  <2>1. pc' = "idle" /\ UNCHANGED journalVars
    BY <1>7 DEF RefuseRecord
  <2>2. QED
    BY <2>1, QuietJournal DEF journalVars, RollingBack
<1>8. QED
  BY <1>1, <1>2, <1>3, <1>4, <1>5, <1>6, <1>7 DEF Undo

\* The other steps.
LEMMA OtherJournal ==
    ASSUME TypeOK, ControlInv, JournalInv,
           \/ Prepare \/ MirrorJournal \/ ActivationFails \/ Recover
           \/ \E path \in Path : Verify(path) \/ Rollback(path)
           \/ Interrupt \/ Reboot \/ PackageUpdate
    PROVE  JournalInv'
<1>0. /\ caller \in Path /\ mem \in Journal /\ checkpoint \in Journal
      /\ runtime \in Journal
  BY DEF TypeOK
<1>1. CASE Prepare
  BY <1>1, BlankCounts
  DEF Prepare, Idle, JournalInv, HasCheckpoint, RollingBack, RuntimeNeverAhead
<1>2. CASE MirrorJournal
  <2>1. mem = checkpoint /\ HasCheckpoint /\ runtime' = checkpoint
        /\ UNCHANGED <<checkpoint, mem, pc>>
    BY <1>2 DEF MirrorJournal, ControlInv
  <2>2. Rank[checkpoint.status] <= Rank[checkpoint.status]
    BY <1>0, Ranks DEF Journal
  <2>3. QED
    BY <2>1, <2>2
    DEF JournalInv, StageCounts, HasCheckpoint, RollingBack, RuntimeNeverAhead
<1>3. CASE ActivationFails
  <2>1. pc' = "idle"
        /\ mem = checkpoint /\ HasCheckpoint
        /\ checkpoint.status = "CorinthPublished" /\ StageCounts(checkpoint)
    BY <1>3 DEF ActivationFails, ControlInv, JournalInv, Applying, Activating
  <2> DEFINE k == [mem EXCEPT !.status = "ApplyFailed"]
  <2>2. /\ k \in Journal /\ k.status = "ApplyFailed"
        /\ k.target = checkpoint.target /\ k.published = checkpoint.published
        /\ k.mutations = checkpoint.mutations
    BY <1>0, <2>1 DEF Journal, Status
  <2> HIDE DEF k
  <2>3. StageCounts(k)
    BY <2>1, <2>2 DEF StageCounts, ValidJournal, CoherentPublished,
                      NothingUndone, Count, PublishedStatus
  <2>4. RewriteJournalCopies(k, caller)
    BY <1>3 DEF ActivationFails, k
  <2>5. Rank[checkpoint.status] <= Rank[k.status]
    BY <2>1, <2>2, Ranks DEF Status
  <2>6. QED
    BY <1>0, <2>1, <2>2, <2>3, <2>4, <2>5, RewriteStages
    DEF JournalInv, RollingBack
<1>4. ASSUME NEW path \in Path, Verify(path) PROVE JournalInv'
  <2>1. /\ Authoritative.status = "Applied"
        /\ pc = "idle" /\ pc' = "idle"
        /\ RewriteJournalCopies([Authoritative EXCEPT !.status = "Verified"], path)
    BY <1>4 DEF Verify, Idle
  <2>2. /\ HasCheckpoint /\ Authoritative = checkpoint
        /\ StageCounts(checkpoint)
    BY <2>1 DEF Authoritative, ControlInv, JournalInv
  <2> DEFINE k == [checkpoint EXCEPT !.status = "Verified"]
  <2>3. /\ k \in Journal /\ k.status = "Verified"
        /\ k.target = checkpoint.target /\ k.published = checkpoint.published
        /\ k.mutations = checkpoint.mutations
    BY <1>0 DEF Journal, Status
  <2>4. RewriteJournalCopies(k, path)
    BY <2>1, <2>2
  <2> HIDE DEF k
  <2>5. StageCounts(k)
    BY <2>1, <2>2, <2>3 DEF StageCounts, ValidJournal, CoherentPublished,
                            NothingUndone, Count, PublishedStatus
  <2>6. Rank[checkpoint.status] <= Rank[k.status]
    BY <2>1, <2>2, <2>3, Ranks DEF Status
  <2>7. QED
    BY <1>0, <2>1, <2>2, <2>3, <2>4, <2>5, <2>6, RewriteStages
    DEF JournalInv, RollingBack
<1>5. ASSUME NEW path \in Path, NEW S \in SUBSET RollbackStatus,
             BeginRollback(path, S)
      PROVE  JournalInv'
  <2>1. /\ Authoritative.status \in RollbackStatus
        /\ mem' = Authoritative /\ pc' = "undo-hardware"
        /\ UNCHANGED <<runtime, checkpoint>>
    BY <1>5 DEF BeginRollback
  <2>2. QED
    BY <2>1, OpenCounts
    DEF JournalInv, NothingUndone, HasCheckpoint, RollingBack, RuntimeNeverAhead
<1>6. CASE Interrupt
  BY <1>6
  DEF Interrupt, JournalInv, HasCheckpoint, RollingBack, RuntimeNeverAhead
<1>7. CASE Reboot
  <2>1. Rank["Absent"] <= Rank[checkpoint.status]
    BY <1>0, Ranks DEF Journal
  <2>2. QED
    BY <1>7, <2>1, FixedJournals
    DEF Reboot, JournalInv, HasCheckpoint, RollingBack, RuntimeNeverAhead
<1>8. CASE PackageUpdate
  BY <1>8, QuietJournal DEF PackageUpdate, journalVars
<1>9. CASE Recover
  BY <1>5, <1>9 DEF Recover, Path, RecoverStatus, RollbackStatus
<1>10. CASE \E path \in Path : Rollback(path)
  BY <1>5, <1>10 DEF Rollback
<1>11. QED
  BY <1>1, <1>2, <1>3, <1>4, <1>6, <1>7, <1>8, <1>9, <1>10

LEMMA StepJournal == TypeOK /\ ControlInv /\ JournalInv /\ [Next]_vars => JournalInv'
<1> SUFFICES ASSUME TypeOK, ControlInv, JournalInv, [Next]_vars PROVE JournalInv'
  OBVIOUS
<1>1. CASE UNCHANGED vars
  BY <1>1, QuietJournal DEF vars, journalVars
<1>2. CASE Next
  BY <1>2, ApplyJournal, UndoJournal, OtherJournal DEF Next
<1>3. QED
  BY <1>1, <1>2

\* The counts of both copies and of the memory of a rollback, in every
\* reachable state.
THEOREM JournalInvariant == Spec => []JournalInv
<1>1. IInv /\ JournalInv /\ [Next]_vars => JournalInv'
  BY StepJournal DEF IInv
<1>2. QED
  BY InductiveInvariant, InitJournal, <1>1, PTL DEF Spec

\* validate_journal accepts whatever copy of the journal exists: no order of
\* commands, interrupts and restarts leaves a journal that every later
\* command would refuse.
THEOREM EveryJournalCoherent == Spec => []JournalsCoherent
<1>1. JournalInv => JournalsCoherent
  BY DEF JournalInv, JournalsCoherent, StageCounts
<1>2. QED
  BY JournalInvariant, <1>1, PTL

\* The copy under /run never shows a later stage than the target's copy, which
\* rewrite_journal_copies writes first.
THEOREM CheckpointLeads == Spec => []RuntimeNeverAhead
<1>1. JournalInv => RuntimeNeverAhead
  BY DEF JournalInv
<1>2. QED
  BY JournalInvariant, <1>1, PTL

-----------------------------------------------------------------------------
\* The bundle and the package authority

LEMMA InitPublication == Init => PublicationInv
  BY FixedJournals
  DEF Init, PublicationInv, Activating, NoRecord

\* A step that leaves the target alone, and the stage it was applied at.
LEMMA QuietPublication ==
    ASSUME PublicationInv, UNCHANGED <<boot, record, active, before>>,
           \/ checkpoint'.status = checkpoint.status
           \/ checkpoint'.status \notin {"Applied", "Verified"}
           \/ checkpoint.status \in {"Applied", "Verified"},
           pc' = pc \/ pc' \notin {"published", "applied"} \cup Activating
    PROVE  PublicationInv'
BY DEF PublicationInv

\* The steps of apply.
LEMMA ApplyPublication ==
    ASSUME IInv, PublicationInv, Apply
    PROVE  PublicationInv'
<1> USE DEF At, targetVars, fixedVars, bootVars
<1>0. /\ TypeOK /\ ControlInv /\ AuthorityInv /\ BootInv
      /\ mem \in Journal /\ caller \in Path
      /\ runtime \in Journal /\ checkpoint \in Journal
  BY DEF IInv, TypeOK
<1>1. CASE CheckpointTransaction
  <2>1. ApplyingJournal.status = "Applying"
    BY <1>0 DEF ApplyingJournal, Journal
  <2>2. QED
    BY <1>1, <2>1, QuietPublication DEF CheckpointTransaction, Activating
<1>2. CASE LogHardware
  <2>1. mem = checkpoint /\ HasCheckpoint /\ checkpoint.status = "Applying"
    BY <1>0, <1>2 DEF LogHardware, ControlInv, Applying, Activating
  <2>2. checkpoint'.status = "Applying"
    <3>1. CASE UNCHANGED journalVars
      BY <2>1, <3>1 DEF journalVars
    <3> DEFINE j == [mem EXCEPT !.packages = plan.packages]
               k == Push(j, "hardware-provisioning")
    <3>2. CASE RewriteJournalCopies(k, caller)
      <4>1. j \in Journal /\ j.status = "Applying"
        BY <1>0, <2>1 DEF TypeOK, Journal, Plan
      <4> HIDE DEF j
      <4>2. k \in Journal /\ k.status = "Applying"
        BY <4>1, MutationNames, PushFacts
      <4> HIDE DEF k
      <4>3. QED
        BY <1>0, <2>1, <3>2, <4>2, RewriteFacts
    <3>3. QED
      BY <1>2, <3>1, <3>2 DEF LogHardware
  <2>3. QED
    BY <1>2, <2>2, QuietPublication DEF LogHardware, Activating
<1>3. CASE \E p \in Packages : InstallPackage(p) \/ ReceiptPackage(p)
  BY <1>3, QuietPublication DEF InstallPackage, ReceiptPackage, journalVars
<1>4. CASE SealHardware
  <2>1. mem = checkpoint /\ HasCheckpoint /\ checkpoint.status = "Applying"
    BY <1>0, <1>4 DEF SealHardware, ControlInv, Applying, Activating
  <2> DEFINE k == [mem EXCEPT !.packages = receipts]
  <2>2. k \in Journal /\ k.status = "Applying"
    BY <1>0, <2>1 DEF TypeOK, Journal
  <2>3. RewriteJournalCopies(k, caller)
    BY <1>4 DEF SealHardware
  <2> HIDE DEF k
  <2>4. checkpoint'.status = "Applying"
    BY <1>0, <2>1, <2>2, <2>3, RewriteFacts
  <2>5. QED
    BY <1>4, <2>4, QuietPublication DEF SealHardware, Activating
<1>5. CASE PublishGeneration
  <2>1. checkpoint.status = "Applying" /\ pc = "publish"
    BY <1>0, <1>5 DEF PublishGeneration, ControlInv, Applying, Activating
  <2>2. QED
    BY <1>5, <2>1
    DEF PublishGeneration, PublicationInv, journalVars, Activating
<1>6. CASE JournalPublished
  <2>1. mem = checkpoint /\ HasCheckpoint /\ pc = "published" /\ pc' = "backup"
        /\ UNCHANGED <<boot, record, active, before>>
    BY <1>0, <1>6 DEF JournalPublished, ControlInv, Applying
  <2> DEFINE j == [mem EXCEPT !.status = "CorinthPublished", !.published = TRUE]
             k == Push(j, "corinth-generation")
  <2>2. j \in Journal /\ j.status = "CorinthPublished"
    BY <1>0 DEF Journal, Status
  <2> HIDE DEF j
  <2>3. k \in Journal /\ k.status = "CorinthPublished"
    BY <2>2, MutationNames, PushFacts
  <2>4. RewriteJournalCopies(k, caller)
    BY <1>6 DEF JournalPublished, j
  <2> HIDE DEF k
  <2>5. checkpoint'.status = "CorinthPublished"
    BY <1>0, <2>1, <2>3, <2>4, RewriteFacts
  <2>6. QED
    BY <2>1, <2>5 DEF PublicationInv, Activating
<1>7. CASE ActivateBackup \/ ActivatePlace
  <2>1. /\ pc \in Activating /\ pc' \in Activating
        /\ UNCHANGED <<record, checkpoint, active, before>>
    BY <1>7 DEF ActivateBackup, ActivatePlace, Activate, BackupFile, PlaceFile,
                journalVars, Activating
  <2>2. checkpoint.status = "CorinthPublished"
    BY <1>0, <2>1 DEF ControlInv, Applying, Activating
  <2>3. QED
    BY <2>1, <2>2 DEF PublicationInv, Activating
<1>8. CASE ActivateCreate \/ ActivateRecord \/ ActivateMark
  <2>1. /\ pc \in Activating /\ pc' \in Activating
        /\ UNCHANGED <<checkpoint, active, before>>
    BY <1>8 DEF ActivateCreate, ActivateRecord, ActivateMark, Activate,
                journalVars, Activating
  <2>2. checkpoint.status = "CorinthPublished"
    BY <1>0, <2>1 DEF ControlInv, Applying, Activating
  <2>3. record'.complete => record'.exists /\ record'.installed = File
    <3>1. CASE ActivateCreate \/ ActivateRecord
      BY <3>1 DEF ActivateCreate, ActivateRecord, Activate, CreateRecord,
                  WriteRecord, NoRecord
    <3>2. CASE ActivateMark
      <4>1. /\ record'.complete = record.complete
            /\ record'.exists = record.exists
            /\ record'.installed = record.installed \cup {cursor}
            /\ cursor \in File
        BY <1>0, <3>2
        DEF ActivateMark, Activate, MarkInstalled, TypeOK, BootType, Record
      <4>2. QED
        BY <4>1 DEF PublicationInv
    <3>3. QED
      BY <1>8, <3>1, <3>2
  <2>4. QED
    BY <2>1, <2>2, <2>3 DEF PublicationInv, Activating
<1>9. CASE ActivateComplete
  <2>1. /\ pc = "place" /\ pc' = "applied" /\ CompleteRecord
        /\ UNCHANGED <<checkpoint, active, before>>
    BY <1>9 DEF ActivateComplete, Activate, journalVars
  <2>2. checkpoint.status = "CorinthPublished"
    BY <1>0, <2>1 DEF ControlInv, Applying, Activating
  <2>3. /\ cursor = FileCount + 1
        /\ record'.complete
        /\ record'.exists = record.exists
        /\ record'.installed = record.installed
    BY <1>0, <2>1 DEF CompleteRecord, TypeOK, BootType, Record
  <2>4. record.exists /\ record.installed = {f \in File : f < cursor}
    BY <1>0, <2>1 DEF BootInv
  <2>5. record.installed = File
    BY <2>3, <2>4, FileCountAssumption DEF File
  <2>6. QED
    BY <2>1, <2>2, <2>3, <2>4, <2>5 DEF PublicationInv, Activating
<1>10. CASE JournalApplied
  <2>1. /\ mem = checkpoint /\ HasCheckpoint /\ pc = "applied" /\ pc' = "idle"
        /\ UNCHANGED <<boot, record, active, before>>
    BY <1>0, <1>10 DEF JournalApplied, ControlInv, Applying
  <2>2. QED
    BY <2>1 DEF PublicationInv, Activating
<1>11. QED
  BY <1>1, <1>2, <1>3, <1>4, <1>5, <1>6, <1>7, <1>8, <1>9, <1>10 DEF Apply

\* The steps of a rollback.
LEMMA UndoPublication ==
    ASSUME IInv, PublicationInv, Undo
    PROVE  PublicationInv'
<1> USE DEF At, targetVars, fixedVars, bootVars
<1>0. /\ TypeOK /\ ControlInv /\ AuthorityInv /\ BootInv
      /\ mem \in Journal /\ caller \in Path
      /\ runtime \in Journal /\ checkpoint \in Journal
  BY DEF IInv, TypeOK
<1>1. CASE \E p \in Packages : RemovePackage(p)
  BY <1>1, QuietPublication DEF RemovePackage, journalVars
<1>2. CASE HardwareUndone
  BY <1>2, QuietPublication DEF HardwareUndone, Activating
<1>3. CASE RestoreBootFile
  <2>1. /\ pc = "undo-boot" /\ pc' = pc /\ cursor \in File
        /\ UNCHANGED <<record, checkpoint, active, before>>
    BY <1>3 DEF RestoreBootFile, RestoreFile, journalVars
  <2>2. record.exists
    BY <1>0, <2>1, FileCountAssumption DEF BootInv, File
  <2>3. QED
    BY <2>1, <2>2 DEF PublicationInv, Activating
<1>4. CASE BootUndone
  <2>1. /\ pc = "undo-boot" /\ pc' = "undo-corinth" /\ cursor = 0
        /\ record' = NoRecord
        /\ UNCHANGED <<boot, checkpoint, active, before>>
    BY <1>4 DEF BootUndone, RemoveRecord
  <2>2. checkpoint.status \in {"Applied", "Verified"} => boot = before.boot
    <3>1. SUFFICES ASSUME checkpoint.status \in {"Applied", "Verified"},
                          record.exists
                   PROVE  boot = before.boot
      BY DEF PublicationInv
    <3>2. record.installed = File
      BY <3>1 DEF PublicationInv
    <3>3. \A f \in File : boot[f] = before.boot[f]
      BY <1>0, <2>1, <3>1, <3>2, FileCountAssumption DEF BootInv, File
    <3>4. QED
      BY <1>0, <3>3 DEF TypeOK, BootType
  <2>3. QED
    BY <2>1, <2>2 DEF PublicationInv, NoRecord, Activating
<1>5. CASE RollbackCorinth
  <2>1. /\ pc = "undo-corinth" /\ pc' \in {"rolled-back", "idle"}
        /\ UNCHANGED <<boot, record, checkpoint, before>>
        /\ active' = active \/ (active = "intended" /\ active' = parent)
    BY <1>5 DEF RollbackCorinth, journalVars
  <2>2. ~record.exists /\ (active = "intended" => parent = before.active)
        /\ before.active # "later"
    BY <1>0, <2>1 DEF BootInv, AuthorityInv
  <2>3. QED
    BY <2>1, <2>2 DEF PublicationInv, Activating
<1>6. CASE RefuseCorinth
  BY <1>6, QuietPublication DEF RefuseCorinth, journalVars, Activating
<1>7. CASE JournalRolledBack
  <2> DEFINE j == [mem EXCEPT !.status = "RolledBack", !.target = TRUE,
                              !.published = FALSE]
             k == PushOnce(j, "corinth-generation:rolled-back")
  <2>1. j \in Journal /\ j.status = "RolledBack"
    BY <1>0 DEF Journal, Status
  <2> HIDE DEF j
  <2>2. k \in Journal /\ k.status = "RolledBack"
    BY <2>1, MutationNames, PushOnceFacts
  <2>3. RewriteJournalCopies(k, caller)
    BY <1>7 DEF JournalRolledBack, j
  <2> HIDE DEF k
  <2>4. checkpoint'.status \in {"RolledBack", checkpoint.status}
    BY <1>0, <2>2, <2>3, RewriteFacts
  <2>5. QED
    BY <1>7, <2>4, QuietPublication DEF JournalRolledBack, Activating
<1>8. CASE RefuseRecord
  BY <1>8, QuietPublication DEF RefuseRecord, journalVars, Activating
<1>9. QED
  BY <1>1, <1>2, <1>3, <1>4, <1>5, <1>6, <1>7, <1>8 DEF Undo

\* The other steps.
LEMMA OtherPublication ==
    ASSUME IInv, PublicationInv,
           \/ Prepare \/ MirrorJournal \/ ActivationFails \/ Recover
           \/ \E path \in Path : Verify(path) \/ Rollback(path)
           \/ Interrupt \/ Reboot \/ PackageUpdate
    PROVE  PublicationInv'
<1> USE DEF targetVars, fixedVars, bootVars
<1>0. /\ TypeOK /\ ControlInv
      /\ mem \in Journal /\ caller \in Path
      /\ runtime \in Journal /\ checkpoint \in Journal
  BY DEF IInv, TypeOK
<1>1. CASE Prepare \/ MirrorJournal
  BY <1>1, QuietPublication DEF Prepare, MirrorJournal, Idle
<1>2. CASE ActivationFails
  <2> DEFINE k == [mem EXCEPT !.status = "ApplyFailed"]
  <2>1. k \in Journal /\ k.status = "ApplyFailed"
    BY <1>0 DEF Journal, Status
  <2>2. RewriteJournalCopies(k, caller)
    BY <1>2 DEF ActivationFails
  <2> HIDE DEF k
  <2>3. checkpoint'.status \in {"ApplyFailed", checkpoint.status}
    BY <1>0, <2>1, <2>2, RewriteFacts
  <2>4. QED
    BY <1>2, <2>3, QuietPublication DEF ActivationFails, Activating
<1>3. ASSUME NEW path \in Path, Verify(path) PROVE PublicationInv'
  <2>1. checkpoint.status = "Applied"
    BY <1>0, <1>3 DEF Verify, Authoritative, ControlInv
  <2>2. QED
    BY <1>3, <2>1, QuietPublication DEF Verify
<1>4. CASE Recover \/ \E path \in Path : Rollback(path)
  BY <1>4, QuietPublication DEF Recover, Rollback, BeginRollback, Activating
<1>5. CASE Interrupt \/ Reboot
  BY <1>5, QuietPublication DEF Interrupt, Reboot, Activating
<1>6. CASE PackageUpdate
  BY <1>6 DEF PackageUpdate, Idle, PublicationInv, journalVars, Activating
<1>7. QED
  BY <1>1, <1>2, <1>3, <1>4, <1>5, <1>6

LEMMA StepPublication == IInv /\ PublicationInv /\ [Next]_vars => PublicationInv'
<1> SUFFICES ASSUME IInv, PublicationInv, [Next]_vars PROVE PublicationInv'
  OBVIOUS
<1>1. CASE UNCHANGED vars
  BY <1>1, QuietPublication
  DEF vars, bootVars, journalVars, targetVars, fixedVars
<1>2. CASE Next
  BY <1>2, ApplyPublication, UndoPublication, OtherPublication DEF Next
<1>3. QED
  BY <1>1, <1>2

\* Which generation is active and what the boot record says, stage by stage,
\* in every reachable state.
THEOREM PublicationInvariant == Spec => []PublicationInv
  BY InductiveInvariant, InitPublication, StepPublication, PTL DEF Spec

-----------------------------------------------------------------------------
\* Verification and refusal

\* A state in which verify succeeds has the whole bundle and the generation
\* in place: what verify does not look at follows from what it does.
LEMMA VerifyFinds ==
    ASSUME IInv, PublicationInv, NEW path \in Path, Verify(path)
    PROVE  /\ HasCheckpoint /\ checkpoint.status = "Applied"
           /\ checkpoint'.status = "Verified"
           /\ \A f \in File : boot[f] = "new"
           /\ active \in {"intended", "later"}
           /\ record.exists /\ record.complete
<1>0. /\ TypeOK /\ ControlInv
      /\ runtime \in Journal /\ checkpoint \in Journal
  BY DEF IInv, TypeOK
<1>1. Authoritative = checkpoint /\ HasCheckpoint /\ checkpoint.status = "Applied"
  BY <1>0 DEF Verify, Authoritative, ControlInv
<1>2. checkpoint'.status = "Verified"
  <2> DEFINE k == [checkpoint EXCEPT !.status = "Verified"]
  <2>1. k \in Journal /\ k.status = "Verified"
    BY <1>0 DEF Journal, Status
  <2>2. RewriteJournalCopies(k, path)
    BY <1>1 DEF Verify
  <2> HIDE DEF k
  <2>3. QED
    BY <1>0, <1>1, <2>1, <2>2, RewriteFacts
<1>3. \A f \in File : boot[f] = "new"
  BY DEF Verify, BundleInstalled
<1>4. record.exists
  <2>1. before.boot[1] # "new" /\ boot[1] = "new"
    BY <1>3, FirstFile DEF PublicationInv
  <2>2. QED
    BY <1>1, <2>1 DEF PublicationInv
<1>5. QED
  BY <1>1, <1>2, <1>3, <1>4 DEF PublicationInv

\* The statuses of a transaction that has begun and is not settled.
Unfinished == {"Applying", "CorinthPublished", "ApplyFailed", "Applied"}

\* Which steps open, verify and restore a transaction: every other one leaves
\* it unfinished, or as it was.
LEMMA StageStep ==
    ASSUME IInv, Next
    PROVE  \/ CheckpointTransaction /\ checkpoint.status = "Absent"
                                    /\ checkpoint'.status = "Applying"
           \/ \E path \in Path : Verify(path)
           \/ JournalRolledBack /\ HasCheckpoint
                                /\ checkpoint'.status = "RolledBack"
           \/ checkpoint'.status = checkpoint.status
           \/ {checkpoint.status, checkpoint'.status} \subseteq Unfinished
<1> DEFINE Kept == \/ checkpoint'.status = checkpoint.status
                   \/ {checkpoint.status, checkpoint'.status} \subseteq Unfinished
<1>0. /\ TypeOK /\ ControlInv
      /\ mem \in Journal /\ caller \in Path
      /\ runtime \in Journal /\ checkpoint \in Journal
  BY DEF IInv, TypeOK
<1>1. CASE CheckpointTransaction
  <2>1. ApplyingJournal.status = "Applying"
    BY <1>0 DEF ApplyingJournal, Journal
  <2>2. QED
    BY <1>1, <2>1 DEF CheckpointTransaction, HasCheckpoint
<1>2. ASSUME pc \in Applying, NEW k \in Journal, k.status \in Unfinished,
             RewriteJournalCopies(k, caller)
      PROVE  Kept
  <2>1. HasCheckpoint /\ checkpoint.status \in Unfinished
    BY <1>0, <1>2 DEF ControlInv, Unfinished
  <2>2. QED
    BY <1>0, <1>2, <2>1, RewriteFacts
<1>3. CASE LogHardware
  <2>1. pc \in Applying /\ mem.status = "Applying"
    BY <1>0, <1>3 DEF LogHardware, At, ControlInv, Applying, Activating
  <2> DEFINE j == [mem EXCEPT !.packages = plan.packages]
             k == Push(j, "hardware-provisioning")
  <2>2. j \in Journal /\ j.status = "Applying"
    BY <1>0, <2>1 DEF TypeOK, Journal, Plan
  <2>3. RewriteJournalCopies(k, caller) \/ checkpoint' = checkpoint
    BY <1>3 DEF LogHardware, journalVars
  <2> HIDE DEF j
  <2>4. k \in Journal /\ k.status = "Applying"
    BY <2>2, MutationNames, PushFacts
  <2> HIDE DEF k
  <2>5. QED
    BY <1>2, <2>1, <2>3, <2>4 DEF Unfinished
<1>4. CASE SealHardware
  <2>1. pc \in Applying /\ mem.status = "Applying"
    BY <1>0, <1>4 DEF SealHardware, At, ControlInv, Applying, Activating
  <2> DEFINE k == [mem EXCEPT !.packages = receipts]
  <2>2. k \in Journal /\ k.status = "Applying"
    BY <1>0, <2>1 DEF TypeOK, Journal
  <2>3. RewriteJournalCopies(k, caller)
    BY <1>4 DEF SealHardware
  <2> HIDE DEF k
  <2>4. QED
    BY <1>2, <2>1, <2>2, <2>3 DEF Unfinished
<1>5. CASE JournalPublished
  <2>1. pc \in Applying
    BY <1>5 DEF JournalPublished, At, Applying
  <2> DEFINE j == [mem EXCEPT !.status = "CorinthPublished", !.published = TRUE]
             k == Push(j, "corinth-generation")
  <2>2. j \in Journal /\ j.status = "CorinthPublished"
    BY <1>0 DEF Journal, Status
  <2>3. RewriteJournalCopies(k, caller)
    BY <1>5 DEF JournalPublished
  <2> HIDE DEF j
  <2>4. k \in Journal /\ k.status = "CorinthPublished"
    BY <2>2, MutationNames, PushFacts
  <2> HIDE DEF k
  <2>5. QED
    BY <1>2, <2>1, <2>3, <2>4 DEF Unfinished
<1>6. CASE JournalApplied
  <2>1. pc \in Applying
    BY <1>6 DEF JournalApplied, At, Applying
  <2> DEFINE j == [mem EXCEPT !.status = "Applied"]
             k == Push(j, "boot-bundle")
  <2>2. j \in Journal /\ j.status = "Applied"
    BY <1>0 DEF Journal, Status
  <2>3. RewriteJournalCopies(k, caller)
    BY <1>6 DEF JournalApplied
  <2> HIDE DEF j
  <2>4. k \in Journal /\ k.status = "Applied"
    BY <2>2, MutationNames, PushFacts
  <2> HIDE DEF k
  <2>5. QED
    BY <1>2, <2>1, <2>3, <2>4 DEF Unfinished
<1>7. CASE ActivationFails
  <2>1. pc \in Applying
    BY <1>7 DEF ActivationFails, Activating, Applying
  <2> DEFINE k == [mem EXCEPT !.status = "ApplyFailed"]
  <2>2. k \in Journal /\ k.status = "ApplyFailed"
    BY <1>0 DEF Journal, Status
  <2>3. RewriteJournalCopies(k, caller)
    BY <1>7 DEF ActivationFails
  <2> HIDE DEF k
  <2>4. QED
    BY <1>2, <2>1, <2>2, <2>3 DEF Unfinished
<1>8. CASE JournalRolledBack
  <2> DEFINE j == [mem EXCEPT !.status = "RolledBack", !.target = TRUE,
                              !.published = FALSE]
             k == PushOnce(j, "corinth-generation:rolled-back")
  <2>1. j \in Journal /\ j.status = "RolledBack"
    BY <1>0 DEF Journal, Status
  <2>2. RewriteJournalCopies(k, caller)
    BY <1>8 DEF JournalRolledBack
  <2> HIDE DEF j
  <2>3. k \in Journal /\ k.status = "RolledBack"
    BY <2>1, MutationNames, PushOnceFacts
  <2> HIDE DEF k
  <2>4. QED
    BY <1>0, <1>8, <2>2, <2>3, RewriteFacts
<1>9. CASE Apply
  BY <1>1, <1>3, <1>4, <1>5, <1>6, <1>9
  DEF Apply, InstallPackage, ReceiptPackage, PublishGeneration,
      ActivateBackup, ActivateCreate, ActivateRecord, ActivatePlace,
      ActivateMark, ActivateComplete, Activate, journalVars
<1>10. CASE Undo
  BY <1>8, <1>10
  DEF Undo, RemovePackage, HardwareUndone, RestoreBootFile, RefuseRecord,
      BootUndone, RollbackCorinth, RefuseCorinth, journalVars
<1>11. CASE \/ Prepare \/ MirrorJournal \/ Recover \/ Interrupt \/ Reboot
            \/ PackageUpdate \/ \E path \in Path : Rollback(path)
  BY <1>11
  DEF Prepare, MirrorJournal, Recover, Interrupt, Reboot, PackageUpdate,
      Rollback, BeginRollback, journalVars
<1>12. QED
  BY <1>7, <1>9, <1>10, <1>11 DEF Next

\* Verify looks at the boot files alone. Still, whatever an interrupted
\* rollback undid before it, a transaction is marked verified only with its
\* own generation active, or one published on top of it, and with the
\* complete record from which it can be rolled back.
THEOREM VerifiedPublished == Spec => VerifiedIsPublished
<1> DEFINE A == checkpoint'.status = "Verified" /\ checkpoint.status # "Verified" =>
                  /\ \A f \in File : boot[f] = "new"
                  /\ active \in {"intended", "later"}
                  /\ record.exists /\ record.complete
<1>1. IInv /\ PublicationInv /\ [Next]_vars => A
  <2> SUFFICES ASSUME IInv, PublicationInv, [Next]_vars,
                      checkpoint'.status = "Verified",
                      checkpoint.status # "Verified"
               PROVE  /\ \A f \in File : boot[f] = "new"
                      /\ active \in {"intended", "later"}
                      /\ record.exists /\ record.complete
    OBVIOUS
  <2>1. Next
    BY DEF vars, journalVars
  <2>2. \E path \in Path : Verify(path)
    BY <2>1, StageStep DEF Unfinished
  <2>3. QED
    BY <2>2, VerifyFinds
<1>2. QED
  BY InductiveInvariant, PublicationInvariant, <1>1, PTL
  DEF Spec, VerifiedIsPublished

\* Unless a generation was published on top, no rollback ends at one of
\* rollback_corinth's errors, at which the boot files are already restored.
THEOREM RollbackNeverRefused == Spec => []RollbackIsNeverRefused
<1>1. IInv => RollbackIsNeverRefused
  <2> SUFFICES ASSUME IInv, pc = "undo-corinth", ~CorinthUntouched,
                      active # "later"
               PROVE  active = "intended" /\ parent = mem.previous
    BY DEF RollbackIsNeverRefused
  <2>1. /\ pc \in RollingBack
        /\ TypeOK /\ ControlInv /\ AuthorityInv
    BY DEF IInv, RollingBack
  <2>2. CASE HasCheckpoint
    <3>1. mem.previous = before.active
      BY <2>1, <2>2 DEF ControlInv, AuthorityInv, Authoritative
    <3>2. active # before.active
      BY <3>1 DEF CorinthUntouched
    <3>3. QED
      BY <2>1, <3>1, <3>2 DEF AuthorityInv
  <2>3. CASE ~HasCheckpoint
    <3>1. runtime = PreparedJournal /\ mem.status = "Prepared" /\ ~mem.target
      BY <2>1, <2>3, FixedJournals DEF ControlInv, Authoritative, RollbackStatus
    <3>2. QED
      BY <3>1 DEF CorinthUntouched
  <2>4. QED
    BY <2>2, <2>3
<1>2. QED
  BY InductiveInvariant, <1>1, PTL

-----------------------------------------------------------------------------
\* The abstract installation

\* The boot files that differ from those before, as AtomicInstall sees them.
Replaced == {f \in File : boot[f] # before.boot[f]}

\* Steps of the detailed transaction as steps of the abstract one: those that
\* leave the target alone and the transaction unfinished, or as it was.
LEMMA QuietImplements ==
    ASSUME UNCHANGED <<active, hardware, receipts, boot, before>>,
           \/ checkpoint'.status = checkpoint.status
           \/ {checkpoint.status, checkpoint'.status} \subseteq Unfinished
    PROVE  UNCHANGED Promised!vars
<1>1. Outcome' = Outcome
  BY DEF Outcome, Unfinished
<1>2. Replaced' = Replaced
  BY DEF Replaced
<1>3. QED
  BY <1>1, <1>2 DEF Promised!vars, Replaced

\* A transaction may change its target when it is neither absent nor restored.
LEMMA ChangeableOutcome ==
    ASSUME TypeOK, HasCheckpoint, checkpoint.status # "RolledBack",
           checkpoint' = checkpoint
    PROVE  Outcome \in {"open", "verified"} /\ Outcome' = Outcome
BY DEF HasCheckpoint, Outcome

\* The steps that change the packages on the target.
ChangePackage(p) == InstallPackage(p) \/ ReceiptPackage(p) \/ RemovePackage(p)

\* The steps that change the target change one thing of it.
LEMMA ChangeImplements ==
    ASSUME IInv, PublicationInv,
           \/ \E p \in Packages : ChangePackage(p)
           \/ PublishGeneration \/ RollbackCorinth
           \/ ActivatePlace \/ RestoreBootFile
    PROVE  [Promised!Next]_Promised!vars
<1> USE DEF At, targetVars, fixedVars, bootVars, journalVars
<1>0. /\ TypeOK /\ ControlInv /\ AuthorityInv /\ BootInv
  BY DEF IInv
<1>1. ASSUME NEW p \in Packages, ChangePackage(p)
      PROVE  Promised!Change
  <2>1. UNCHANGED <<boot, checkpoint, active, before>>
    BY <1>1
    DEF ChangePackage, InstallPackage, ReceiptPackage, RemovePackage
  <2>2. HasCheckpoint /\ checkpoint.status # "RolledBack"
    <3>1. CASE InstallPackage(p) \/ ReceiptPackage(p)
      BY <1>0, <3>1
      DEF InstallPackage, ReceiptPackage, ControlInv, Applying, Activating
    <3>2. CASE RemovePackage(p)
      <4>1. receipts # {} /\ pc # "idle"
        BY <3>2 DEF RemovePackage, Removable
      <4>2. QED
        BY <1>0, <4>1 DEF AuthorityInv
    <3>3. QED
      BY <1>1, <3>1, <3>2 DEF ChangePackage
  <2>3. Replaced' = Replaced
    BY <2>1 DEF Replaced
  <2>4. Promised!Arrive(p) \/ Promised!Account(p) \/ Promised!Leave(p)
    <3>1. CASE InstallPackage(p)
      BY <3>1 DEF InstallPackage, Promised!Arrive
    <3>2. CASE ReceiptPackage(p)
      BY <3>2 DEF ReceiptPackage, Promised!Account
    <3>3. CASE RemovePackage(p)
      <4>1. p \in receipts
        BY <3>3 DEF RemovePackage, Removable
      <4>2. QED
        BY <3>3, <4>1 DEF RemovePackage, Promised!Leave
    <3>4. QED
      BY <1>1, <3>1, <3>2, <3>3 DEF ChangePackage
  <2>5. QED
    BY <1>0, <2>1, <2>2, <2>3, <2>4, ChangeableOutcome
    DEF Promised!Change, Replaced
<1>2. CASE PublishGeneration
  <2>1. UNCHANGED <<boot, checkpoint, hardware, receipts, before>>
    BY <1>2 DEF PublishGeneration
  <2>2. HasCheckpoint /\ checkpoint.status # "RolledBack"
    BY <1>0, <1>2 DEF PublishGeneration, ControlInv, Applying, Activating
  <2>3. Replaced' = Replaced
    BY <2>1 DEF Replaced
  <2>4. QED
    BY <1>0, <2>1, <2>2, <2>3, ChangeableOutcome
    DEF Promised!Change, Promised!Next, Replaced
<1>3. CASE RollbackCorinth
  <2>1. UNCHANGED <<boot, checkpoint, hardware, receipts, before>>
        /\ pc = "undo-corinth"
    BY <1>3 DEF RollbackCorinth
  <2>2. Replaced' = Replaced
    BY <2>1 DEF Replaced
  <2>3. CASE active' = active
    BY <2>1, <2>3, QuietImplements
  <2>4. CASE active' # active
    <3>1. HasCheckpoint
      <4>1. SUFFICES ASSUME ~HasCheckpoint PROVE FALSE
        OBVIOUS
      <4>2. runtime = PreparedJournal /\ mem.status = "Prepared" /\ ~mem.target
        BY <1>0, <2>1, <4>1, FixedJournals
        DEF ControlInv, Authoritative, RollbackStatus, RollingBack
      <4>3. QED
        BY <1>3, <2>4, <4>2 DEF RollbackCorinth, CorinthUntouched
    <3>2. checkpoint.status # "RolledBack"
      BY <1>0, <2>1 DEF AuthorityInv
    <3>3. QED
      BY <1>0, <2>1, <2>2, <3>1, <3>2, ChangeableOutcome
      DEF Promised!Change, Promised!Next, Replaced
  <2>5. QED
    BY <2>3, <2>4
<1>4. CASE ActivatePlace
  <2>1. /\ cursor \in File /\ boot' = [boot EXCEPT ![cursor] = "new"]
        /\ UNCHANGED <<checkpoint, active, hardware, receipts, before>>
        /\ pc = "place"
    BY <1>4 DEF ActivatePlace, Activate, PlaceFile
  <2>2. HasCheckpoint /\ checkpoint.status # "RolledBack"
    BY <1>0, <2>1 DEF ControlInv, Applying, Activating
  <2>3. before.boot[cursor] # "new"
    BY <2>1 DEF PublicationInv
  <2>4. Replaced' = Replaced \cup {cursor}
    BY <1>0, <2>1, <2>3 DEF Replaced, TypeOK, BootType
  <2>5. QED
    BY <1>0, <2>1, <2>2, <2>4, ChangeableOutcome
    DEF Promised!Change, Promised!Next, Replaced
<1>5. CASE RestoreBootFile
  <2>1. /\ pc = "undo-boot" /\ cursor \in File /\ RestoreFile
        /\ UNCHANGED <<record, checkpoint, active, hardware, receipts, before>>
    BY <1>5 DEF RestoreBootFile, RestoreFile
  <2>2. record.exists /\ BackupsExact
    <3>1. record.exists
      BY <1>0, <2>1, FileCountAssumption DEF BootInv, File
    <3>2. record.readable
      BY <2>1, <3>1 DEF RestoreFile, RecordTorn
    <3>3. QED
      BY <1>0, <3>1, <3>2 DEF BootInv
  <2>3. HasCheckpoint /\ checkpoint.status # "RolledBack"
    BY <1>0, <2>1, <2>2
    DEF BootInv, BootUntouched, NoRecord, AuthorityInv
  <2>4. \A f \in File :
           boot'[f] = IF f = cursor /\ f \in record.installed
                      THEN before.boot[f] ELSE boot[f]
    BY <1>0, <2>1, <2>2 DEF RestoreFile, BackupsExact, TypeOK, BootType
  <2>5. Replaced' \in {Replaced, Replaced \ {cursor}}
    BY <2>1, <2>4 DEF Replaced
  <2>6. CASE Replaced' = Replaced
    BY <1>0, <2>1, <2>3, <2>6, ChangeableOutcome DEF Promised!vars, Replaced
  <2>7. CASE Replaced' = Replaced \ {cursor}
    BY <1>0, <2>1, <2>3, <2>7, ChangeableOutcome
    DEF Promised!Change, Promised!Next, Replaced
  <2>8. QED
    BY <2>5, <2>6, <2>7
<1>6. QED
  BY <1>1, <1>2, <1>3, <1>4, <1>5 DEF Promised!Next

\* The three steps that open, verify and restore a transaction do so when the
\* abstract installation allows it.
LEMMA OpenImplements ==
    ASSUME IInv, CheckpointTransaction, checkpoint.status = "Absent",
           checkpoint'.status = "Applying"
    PROVE  Promised!Open
<1>1. UNCHANGED <<active, hardware, receipts, boot, before>>
  BY DEF CheckpointTransaction, bootVars, targetVars, fixedVars
<1>2. Outcome = "untouched" /\ Outcome' = "open"
  BY DEF Outcome
<1>3. Replaced' = Replaced
  BY <1>1 DEF Replaced
<1>4. QED
  BY <1>1, <1>2, <1>3 DEF Promised!Open, Promised!target, Replaced

LEMMA VerifyImplements ==
    ASSUME IInv, PublicationInv, NEW path \in Path, Verify(path)
    PROVE  Promised!Verify
<1>0. AuthorityInv
  BY DEF IInv
<1>1. UNCHANGED <<active, hardware, receipts, boot, before>>
  BY DEF Verify, bootVars, targetVars, fixedVars
<1>2. Outcome = "open" /\ Outcome' = "verified"
  BY VerifyFinds DEF Outcome
<1>3. active # before.active
  BY <1>0, VerifyFinds DEF AuthorityInv
<1>4. \A f \in File : boot[f] = "new" /\ before.boot[f] # "new"
  BY VerifyFinds DEF PublicationInv
<1>5. Replaced = File /\ Replaced' = Replaced
  BY <1>1, <1>4 DEF Replaced
<1>6. QED
  BY <1>1, <1>2, <1>3, <1>5 DEF Promised!Verify, Promised!target, Replaced

LEMMA RestoreImplements ==
    ASSUME IInv, JournalRolledBack, HasCheckpoint,
           checkpoint'.status = "RolledBack"
    PROVE  Promised!Restore
<1>0. /\ TypeOK /\ ControlInv /\ AuthorityInv /\ BootInv
      /\ pc = "rolled-back"
  BY DEF IInv, JournalRolledBack, At
<1>1. UNCHANGED <<active, hardware, receipts, boot, before>>
  BY DEF JournalRolledBack, bootVars, targetVars, fixedVars
<1>2. checkpoint.status \in RollbackStatus
  BY <1>0 DEF ControlInv, Authoritative, RollingBack
<1>3. Outcome \in {"open", "verified"} /\ Outcome' = "restored"
  BY <1>2 DEF Outcome, RollbackStatus, HasCheckpoint
<1>4. active = before.active /\ receipts = {}
  BY <1>0 DEF AuthorityInv
<1>5. record.installed = {}
  BY <1>0 DEF BootInv, NoRecord
<1>6. \A f, g \in Replaced : f = g
  <2>1. PICK f \in File : \A g \in File \ {f} :
                boot[g] # before.boot[g] => g \in record.installed
    BY <1>0 DEF BootInv, MarkedButOne
  <2>2. QED
    BY <1>5, <2>1 DEF Replaced
<1>7. Replaced' = Replaced
  BY <1>1 DEF Replaced
<1>8. QED
  BY <1>1, <1>3, <1>4, <1>6, <1>7 DEF Promised!Restore, Promised!target, Replaced

\* Corinth's later publication is seen as no change: the package authority is
\* another one than before, before it and after it.
LEMMA UpdateImplements ==
    ASSUME IInv, PackageUpdate
    PROVE  UNCHANGED Promised!vars
<1>0. AuthorityInv
  BY DEF IInv
<1>1. /\ UNCHANGED <<hardware, receipts, boot, before, checkpoint>>
      /\ active = "intended" /\ active' = "later"
  BY DEF PackageUpdate, bootVars, journalVars, fixedVars
<1>2. (active # before.active) = TRUE /\ (active # before.active)' = TRUE
  BY <1>0, <1>1 DEF AuthorityInv
<1>3. Outcome' = Outcome
  BY <1>1 DEF Outcome
<1>4. Replaced' = Replaced
  BY <1>1 DEF Replaced
<1>5. QED
  BY <1>1, <1>2, <1>3, <1>4 DEF Promised!vars, Replaced

\* Every other step leaves what the abstract installation sees of the target.
LEMMA TargetStep ==
    ASSUME Next
    PROVE  \/ \E p \in Packages : ChangePackage(p)
           \/ PublishGeneration \/ RollbackCorinth
           \/ ActivatePlace \/ RestoreBootFile
           \/ PackageUpdate
           \/ UNCHANGED <<active, hardware, receipts, boot, before>>
<1> USE DEF bootVars, targetVars, fixedVars
<1>1. CASE Apply
  BY <1>1
  DEF Apply, CheckpointTransaction, LogHardware, SealHardware,
      JournalPublished, ActivateBackup, ActivateCreate, ActivateRecord,
      ActivateMark, ActivateComplete, Activate, BackupFile, CreateRecord,
      WriteRecord, MarkInstalled, CompleteRecord, JournalApplied,
      ChangePackage
<1>2. CASE Undo
  BY <1>2
  DEF Undo, HardwareUndone, RefuseRecord, BootUndone, RemoveRecord,
      RefuseCorinth, JournalRolledBack, ChangePackage
<1>3. CASE \/ Prepare \/ MirrorJournal \/ ActivationFails \/ Recover
           \/ Interrupt \/ Reboot
           \/ \E path \in Path : Verify(path) \/ Rollback(path)
  BY <1>3
  DEF Prepare, MirrorJournal, ActivationFails, Recover, Interrupt, Reboot,
      Verify, Rollback, BeginRollback
<1>4. QED
  BY <1>1, <1>2, <1>3 DEF Next

\* The initial states are initial states of the abstract installation.
LEMMA InitImplements == Init => Promised!Init
<1> SUFFICES ASSUME Init PROVE Promised!Init
  OBVIOUS
<1>1. /\ boot = before.boot /\ active = before.active
      /\ hardware = {} /\ receipts = {}
      /\ receipts = {}
  BY DEF Init
<1>2. Outcome = "untouched"
  BY FixedJournals DEF Init, Outcome
<1>3. QED
  BY <1>1, <1>2 DEF Promised!Init

\* Every step is a step of the abstract installation, or none.
LEMMA StepImplements ==
    IInv /\ PublicationInv /\ [Next]_vars => [Promised!Next]_Promised!vars
<1> SUFFICES ASSUME IInv, PublicationInv, [Next]_vars
             PROVE  [Promised!Next]_Promised!vars
  OBVIOUS
<1>1. CASE UNCHANGED vars
  <2>1. UNCHANGED <<active, hardware, receipts, boot, before, checkpoint>>
    BY <1>1 DEF vars, bootVars, journalVars, targetVars, fixedVars
  <2>2. QED
    BY <2>1, QuietImplements
<1>2. CASE /\ Next
           /\ UNCHANGED <<active, hardware, receipts, boot, before>>
  <2>1. CASE CheckpointTransaction /\ checkpoint.status = "Absent"
                                   /\ checkpoint'.status = "Applying"
    BY <2>1, OpenImplements DEF Promised!Next
  <2>2. CASE \E path \in Path : Verify(path)
    BY <2>2, VerifyImplements DEF Promised!Next
  <2>3. CASE JournalRolledBack /\ HasCheckpoint
                               /\ checkpoint'.status = "RolledBack"
    BY <2>3, RestoreImplements DEF Promised!Next
  <2>4. CASE \/ checkpoint'.status = checkpoint.status
             \/ {checkpoint.status, checkpoint'.status} \subseteq Unfinished
    BY <1>2, <2>4, QuietImplements
  <2>5. QED
    BY <1>2, <2>1, <2>2, <2>3, <2>4, StageStep
<1>3. CASE \/ \E p \in Packages : ChangePackage(p)
           \/ PublishGeneration \/ RollbackCorinth
           \/ ActivatePlace \/ RestoreBootFile
  BY <1>3, ChangeImplements
<1>4. CASE PackageUpdate
  BY <1>4, UpdateImplements
<1>5. QED
  BY <1>1, <1>2, <1>3, <1>4, TargetStep

\* Every behaviour of the transaction, with any faults at any point, is one
\* of the abstract installation: it is opened once, settled by a verification
\* that finds the new authority and the whole bundle in place, or by a
\* restoration that finds the old authority, no recorded package and at most one
\* astray boot file, and a restored target is never touched again.
THEOREM Implements == Spec => ImplementsAtomicInstall
BY InitImplements, StepImplements, InductiveInvariant, PublicationInvariant,
   PTL
DEF Spec, ImplementsAtomicInstall, Promised!Spec
=============================================================================
