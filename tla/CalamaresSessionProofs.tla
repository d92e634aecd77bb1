----------------------- MODULE CalamaresSessionProofs -----------------------
(***************************************************************************)
(* Proofs about CalamaresSession: its types, and that a transaction stays  *)
(* open on the target only by a killed commit or a failed rollback, for    *)
(* either profile and any number of attempts, faults and catalogs.         *)
(***************************************************************************)
EXTENDS CalamaresSession, TLAPS

\* The transaction id is taken before the commit: TypeOK alone does not say
\* that the commit names a transaction.
IdTaken ==
    /\ job # 0 => attempt # 0
    /\ step = "prepare" => storage.id # 0
    /\ Profile = "native" /\ job > 2 => storage.id # 0

\* Only a commit verifies or rolls back.
CommitSteps == step \in {"verify", "rollback"} => Running /\ Exec[job] = "commit"

SessionInv == TypeOK /\ IdTaken /\ CommitSteps /\ OpenOnlyByFault

\* What the proofs need of the two sequences: their length, and where the
\* preflight, prepare and commit are.
LEMMA ExecLength == Len(Exec) = 12
  BY DEF Exec, NativeExec, ArchISOExec

LEMMA PreflightJob == \A j \in 1..12 : Exec[j] = "preflight" => j = 1
  BY DEF Exec, NativeExec, ArchISOExec

LEMMA PrepareJob == Profile = "native" => Exec[2] = "prepare"
  BY DEF Exec, NativeExec

LEMMA CommitJob ==
  \A j \in 1..12 : Exec[j] = "commit" => Profile = "native" /\ j = 11
  BY SessionAssumption DEF Exec, NativeExec, ArchISOExec

USE SessionAssumption, ExecLength
USE DEF Transaction, Running, Installed, At, NextJob, FailJob, GoTo, Fault,
        SetOutcome, Outcome, IsOpen, CutShort, HalfApplied, HalfSynchronised,
        catalogVars, runVars, targetVars, RemoteCatalog, NoCatalog, NoReceipt,
        EmptyStorage

LEMMA SessionInit == Init => SessionInv
  BY DEF Init, SessionInv, TypeOK, IdTaken, CommitSteps, OpenOnlyByFault

\* A commit names a transaction.
LEMMA CommitNamed ==
  TypeOK /\ IdTaken /\ Running /\ Exec[job] = "commit"
     => storage.id \in Transaction
  BY CommitJob DEF TypeOK, IdTaken

\* Every step of the session keeps the types.
LEMMA TypeStep == TypeOK /\ IdTaken /\ [Next]_vars => TypeOK'
<1> SUFFICES ASSUME TypeOK /\ IdTaken, [Next]_vars PROVE TypeOK'
  OBVIOUS
<1> USE DEF TypeOK
<1>1. CASE Start
  BY <1>1 DEF Start
<1>2. CASE UseOffline
  BY <1>2 DEF UseOffline
<1>3. CASE UseExisting
  BY <1>3 DEF UseExisting
<1>4. CASE SyncCatalog
  BY <1>4 DEF SyncCatalog
<1>5. CASE RefuseIncomplete
  BY <1>5 DEF RefuseIncomplete
<1>6. CASE PlanHardware
  BY <1>6 DEF PlanHardware, Catalog
<1>7. CASE ReportHardware
  BY <1>7 DEF ReportHardware
<1>8. CASE WriteReceipt
  BY <1>8 DEF WriteReceipt, Catalog
<1>9. CASE StorePaths
  <2>1. storage' \in [id : 0..Attempts, plan : BOOLEAN,
                      root : {"none", "offline", "remote"}, mounted : BOOLEAN]
    BY <1>9 DEF StorePaths
  <2>2. UNCHANGED <<catalogVars, runVars, targetVars, attempt, faults>>
    BY <1>9 DEF StorePaths
  <2>3. job' \in 0..(Len(Exec) + 1) /\ step' = "start"
    BY <1>9 DEF StorePaths
  <2> QED
    BY <2>1, <2>2, <2>3
<1>10. CASE TakeId
  <2>1. storage' \in [id : 0..Attempts, plan : BOOLEAN,
                      root : {"none", "offline", "remote"}, mounted : BOOLEAN]
    BY <1>10 DEF TakeId
  <2> QED
    BY <1>10, <2>1 DEF TakeId
<1>11. CASE Prepare
  <2>1. staged' \in [Transaction -> Catalogs \cup {None}]
    BY <1>11 DEF Prepare
  <2> QED
    BY <1>11, <2>1 DEF Prepare
<1>12. CASE Partition
  <2>1. /\ outcome' \in [Transaction -> Outcome]
        /\ payload' \in Catalogs \cup {None}
        /\ cut' \in SUBSET Transaction
    <3>1. CASE UNCHANGED targetVars
      BY <3>1
    <3>2. CASE /\ outcome' = [t \in Transaction |-> "absent"]
               /\ payload' = None
               /\ cut' = {}
      BY <3>2
    <3> QED
      BY <1>12, <3>1, <3>2 DEF Partition
  <2> QED
    BY <1>12, <2>1 DEF Partition
<1>13. CASE Mount
  <2>1. storage' \in [id : 0..Attempts, plan : BOOLEAN,
                      root : {"none", "offline", "remote"}, mounted : BOOLEAN]
    BY <1>13 DEF Mount
  <2>2. UNCHANGED <<catalogVars, runVars, targetVars, attempt, faults>>
    BY <1>13 DEF Mount
  <2>3. job' \in 0..(Len(Exec) + 1) /\ step' = "start"
    BY <1>13 DEF Mount
  <2> QED
    BY <2>1, <2>2, <2>3
<1>14. CASE OtherJob
  BY <1>14 DEF OtherJob
<1>15. CASE SkipPacman
  BY <1>15 DEF SkipPacman
<1>16. CASE RefusePacman
  BY <1>16 DEF RefusePacman
<1>17. CASE StagePayload
  BY <1>17 DEF StagePayload
<1>18. CASE InstallPayload
  BY <1>18 DEF InstallPayload
<1>19. CASE Apply
  <2>1. outcome' \in [Transaction -> Outcome]
    BY <1>19 DEF Apply
  <2> QED
    BY <1>19, <2>1 DEF Apply
<1>20. CASE Verify
  <2>1. outcome' \in [Transaction -> Outcome]
    BY <1>20 DEF Verify
  <2> QED
    BY <1>20, <2>1 DEF Verify
<1>21. CASE RollBack
  <2>1. outcome' \in [Transaction -> Outcome]
    BY <1>21 DEF RollBack
  <2> QED
    BY <1>21, <2>1 DEF RollBack
<1>22. CASE SyncFails
  BY <1>22 DEF SyncFails
<1>23. CASE PlanFails
  BY <1>23 DEF PlanFails, Catalog
<1>24. CASE JobFails
  BY <1>24 DEF JobFails
<1>25. CASE PacmanFails
  BY <1>25 DEF PacmanFails
<1>26. CASE ApplyFails
  <2>1. outcome' \in [Transaction -> Outcome]
    BY <1>26 DEF ApplyFails
  <2> QED
    BY <1>26, <2>1 DEF ApplyFails
<1>27. CASE VerifyFails
  BY <1>27 DEF VerifyFails
<1>28. CASE RollBackFails
  <2>1. cut' \in SUBSET Transaction
    BY <1>28, CommitNamed DEF RollBackFails
  <2> QED
    BY <1>28, <2>1 DEF RollBackFails
<1>29. CASE Kill
  <2>1. outcome' \in [Transaction -> Outcome]
    BY <1>29 DEF Kill
  <2>2. cut' \in SUBSET Transaction
    BY <1>29, CommitNamed DEF Kill
  <2>3. remote' \in {NoCatalog} \cup RemoteCatalog
    BY <1>29 DEF Kill
  <2>4. receipt' \in [plan : Catalogs \cup {None}, catalog : Catalogs \cup {None}]
    BY <1>29 DEF Kill
  <2>5. staged' \in [Transaction -> Catalogs \cup {None}]
    BY <1>29 DEF Kill
  <2> QED
    BY <1>29, <2>1, <2>2, <2>3, <2>4, <2>5 DEF Kill
<1>30. CASE Reboot
  <2>1. outcome' \in [Transaction -> Outcome]
    BY <1>30 DEF Reboot
  <2>2. cut' \in SUBSET Transaction
    BY <1>30, CommitNamed DEF Reboot
  <2>3. remote' \in {NoCatalog} \cup RemoteCatalog
    BY <1>30 DEF Reboot
  <2>4. receipt' \in [plan : Catalogs \cup {None}, catalog : Catalogs \cup {None}]
    BY <1>30 DEF Reboot
  <2>5. staged' \in [Transaction -> Catalogs \cup {None}]
    BY <1>30 DEF Reboot
  <2> QED
    BY <1>30, <2>1, <2>2, <2>3, <2>4, <2>5 DEF Reboot
<1>31. CASE Recover
  <2>1. outcome' \in [Transaction -> Outcome]
    BY <1>31 DEF Recover
  <2> QED
    BY <1>31, <2>1 DEF Recover
<1>32. CASE RefuseRollBack
  <2>1. cut' \in SUBSET Transaction
    BY <1>32, CommitNamed DEF RefuseRollBack
  <2> QED
    BY <1>32, <2>1 DEF RefuseRollBack
<1>33. CASE UNCHANGED vars
  BY <1>33 DEF vars
<1> QED
  BY <1>1, <1>2, <1>3, <1>4, <1>5, <1>6, <1>7, <1>8, <1>9, <1>10, <1>11,
     <1>12, <1>13, <1>14, <1>15, <1>16, <1>17, <1>18, <1>19, <1>20, <1>21,
     <1>22, <1>23, <1>24, <1>25, <1>26, <1>27, <1>28, <1>29, <1>30, <1>31,
     <1>32, <1>33 DEF Next, Continue, Fails, Preflight, Pacman, Commit

\* The id is taken by the time the second job is done.
LEMMA IdStep == TypeOK /\ IdTaken /\ [Next]_vars => IdTaken'
<1> SUFFICES ASSUME TypeOK /\ IdTaken, [Next]_vars PROVE IdTaken'
  OBVIOUS
<1> USE PreflightJob, PrepareJob DEF TypeOK, IdTaken
<1>1. CASE Start
  BY <1>1 DEF Start
<1>2. CASE UseOffline
  BY <1>2 DEF UseOffline
<1>3. CASE UseExisting
  BY <1>3 DEF UseExisting
<1>4. CASE SyncCatalog
  BY <1>4 DEF SyncCatalog
<1>5. CASE RefuseIncomplete
  BY <1>5 DEF RefuseIncomplete
<1>6. CASE PlanHardware
  BY <1>6 DEF PlanHardware, Catalog
<1>7. CASE ReportHardware
  BY <1>7 DEF ReportHardware
<1>8. CASE WriteReceipt
  BY <1>8 DEF WriteReceipt, Catalog
<1>9. CASE StorePaths
  BY <1>9 DEF StorePaths
<1>10. CASE TakeId
  BY <1>10 DEF TakeId
<1>11. CASE Prepare
  BY <1>11 DEF Prepare
<1>12. CASE Partition
  BY <1>12 DEF Partition
<1>13. CASE Mount
  BY <1>13 DEF Mount
<1>14. CASE OtherJob
  BY <1>14 DEF OtherJob
<1>15. CASE SkipPacman
  BY <1>15 DEF SkipPacman
<1>16. CASE RefusePacman
  BY <1>16 DEF RefusePacman
<1>17. CASE StagePayload
  BY <1>17 DEF StagePayload
<1>18. CASE InstallPayload
  BY <1>18 DEF InstallPayload
<1>19. CASE Apply
  BY <1>19 DEF Apply
<1>20. CASE Verify
  BY <1>20 DEF Verify
<1>21. CASE RollBack
  BY <1>21 DEF RollBack
<1>22. CASE SyncFails
  BY <1>22 DEF SyncFails
<1>23. CASE PlanFails
  BY <1>23 DEF PlanFails, Catalog
<1>24. CASE JobFails
  BY <1>24 DEF JobFails
<1>25. CASE PacmanFails
  BY <1>25 DEF PacmanFails
<1>26. CASE ApplyFails
  BY <1>26 DEF ApplyFails
<1>27. CASE VerifyFails
  BY <1>27 DEF VerifyFails
<1>28. CASE RollBackFails
  BY <1>28 DEF RollBackFails
<1>29. CASE Kill
  BY <1>29 DEF Kill
<1>30. CASE Reboot
  BY <1>30 DEF Reboot
<1>31. CASE Recover
  BY <1>31 DEF Recover
<1>32. CASE RefuseRollBack
  BY <1>32 DEF RefuseRollBack
<1>33. CASE UNCHANGED vars
  BY <1>33 DEF vars
<1> QED
  BY <1>1, <1>2, <1>3, <1>4, <1>5, <1>6, <1>7, <1>8, <1>9, <1>10, <1>11,
     <1>12, <1>13, <1>14, <1>15, <1>16, <1>17, <1>18, <1>19, <1>20, <1>21,
     <1>22, <1>23, <1>24, <1>25, <1>26, <1>27, <1>28, <1>29, <1>30, <1>31,
     <1>32, <1>33 DEF Next, Continue, Fails, Preflight, Pacman, Commit

\* The steps of the commit are taken by it alone.
LEMMA CommitStepsStep == TypeOK /\ CommitSteps /\ [Next]_vars => CommitSteps'
<1> SUFFICES ASSUME TypeOK /\ CommitSteps, [Next]_vars PROVE CommitSteps'
  OBVIOUS
<1> USE DEF TypeOK, CommitSteps
<1>1. CASE Start
  BY <1>1 DEF Start
<1>2. CASE UseOffline
  BY <1>2 DEF UseOffline
<1>3. CASE UseExisting
  BY <1>3 DEF UseExisting
<1>4. CASE SyncCatalog
  BY <1>4 DEF SyncCatalog
<1>5. CASE RefuseIncomplete
  BY <1>5 DEF RefuseIncomplete
<1>6. CASE PlanHardware
  BY <1>6 DEF PlanHardware, Catalog
<1>7. CASE ReportHardware
  BY <1>7 DEF ReportHardware
<1>8. CASE WriteReceipt
  BY <1>8 DEF WriteReceipt, Catalog
<1>9. CASE StorePaths
  BY <1>9 DEF StorePaths
<1>10. CASE TakeId
  BY <1>10 DEF TakeId
<1>11. CASE Prepare
  BY <1>11 DEF Prepare
<1>12. CASE Partition
  BY <1>12 DEF Partition
<1>13. CASE Mount
  BY <1>13 DEF Mount
<1>14. CASE OtherJob
  BY <1>14 DEF OtherJob
<1>15. CASE SkipPacman
  BY <1>15 DEF SkipPacman
<1>16. CASE RefusePacman
  BY <1>16 DEF RefusePacman
<1>17. CASE StagePayload
  BY <1>17 DEF StagePayload
<1>18. CASE InstallPayload
  BY <1>18 DEF InstallPayload
<1>19. CASE Apply
  BY <1>19 DEF Apply
<1>20. CASE Verify
  BY <1>20 DEF Verify
<1>21. CASE RollBack
  BY <1>21 DEF RollBack
<1>22. CASE SyncFails
  BY <1>22 DEF SyncFails
<1>23. CASE PlanFails
  BY <1>23 DEF PlanFails, Catalog
<1>24. CASE JobFails
  BY <1>24 DEF JobFails
<1>25. CASE PacmanFails
  BY <1>25 DEF PacmanFails
<1>26. CASE ApplyFails
  BY <1>26 DEF ApplyFails
<1>27. CASE VerifyFails
  BY <1>27 DEF VerifyFails
<1>28. CASE RollBackFails
  BY <1>28 DEF RollBackFails
<1>29. CASE Kill
  BY <1>29 DEF Kill
<1>30. CASE Reboot
  BY <1>30 DEF Reboot
<1>31. CASE Recover
  BY <1>31 DEF Recover
<1>32. CASE RefuseRollBack
  BY <1>32 DEF RefuseRollBack
<1>33. CASE UNCHANGED vars
  BY <1>33 DEF vars
<1> QED
  BY <1>1, <1>2, <1>3, <1>4, <1>5, <1>6, <1>7, <1>8, <1>9, <1>10, <1>11,
     <1>12, <1>13, <1>14, <1>15, <1>16, <1>17, <1>18, <1>19, <1>20, <1>21,
     <1>22, <1>23, <1>24, <1>25, <1>26, <1>27, <1>28, <1>29, <1>30, <1>31,
     <1>32, <1>33 DEF Next, Continue, Fails, Preflight, Pacman, Commit

\* A commit that ends leaves its transaction settled, or in cut.
LEMMA OpenStep == SessionInv /\ [Next]_vars => OpenOnlyByFault'
<1> SUFFICES ASSUME SessionInv, [Next]_vars PROVE OpenOnlyByFault'
  OBVIOUS
<1> USE DEF TypeOK, CommitSteps, SessionInv, OpenOnlyByFault
<1>1. CASE Start
  BY <1>1 DEF Start
<1>2. CASE UseOffline
  BY <1>2 DEF UseOffline
<1>3. CASE UseExisting
  BY <1>3 DEF UseExisting
<1>4. CASE SyncCatalog
  BY <1>4 DEF SyncCatalog
<1>5. CASE RefuseIncomplete
  BY <1>5 DEF RefuseIncomplete
<1>6. CASE PlanHardware
  BY <1>6 DEF PlanHardware, Catalog
<1>7. CASE ReportHardware
  BY <1>7 DEF ReportHardware
<1>8. CASE WriteReceipt
  BY <1>8 DEF WriteReceipt, Catalog
<1>9. CASE StorePaths
  BY <1>9 DEF StorePaths
<1>10. CASE TakeId
  BY <1>10 DEF TakeId
<1>11. CASE Prepare
  BY <1>11 DEF Prepare
<1>12. CASE Partition
  BY <1>12 DEF Partition
<1>13. CASE Mount
  BY <1>13 DEF Mount
<1>14. CASE OtherJob
  BY <1>14 DEF OtherJob
<1>15. CASE SkipPacman
  BY <1>15 DEF SkipPacman
<1>16. CASE RefusePacman
  BY <1>16 DEF RefusePacman
<1>17. CASE StagePayload
  BY <1>17 DEF StagePayload
<1>18. CASE InstallPayload
  BY <1>18 DEF InstallPayload
<1>19. CASE Apply
  BY <1>19 DEF Apply
<1>20. CASE Verify
  BY <1>20 DEF Verify
<1>21. CASE RollBack
  BY <1>21 DEF RollBack
<1>22. CASE SyncFails
  BY <1>22 DEF SyncFails
<1>23. CASE PlanFails
  BY <1>23 DEF PlanFails, Catalog
<1>24. CASE JobFails
  BY <1>24 DEF JobFails
<1>25. CASE PacmanFails
  BY <1>25 DEF PacmanFails
<1>26. CASE ApplyFails
  BY <1>26 DEF ApplyFails
<1>27. CASE VerifyFails
  BY <1>27 DEF VerifyFails
<1>28. CASE RollBackFails
  BY <1>28 DEF RollBackFails
<1>29. CASE Kill
  BY <1>29 DEF Kill
<1>30. CASE Reboot
  BY <1>30 DEF Reboot
<1>31. CASE Recover
  BY <1>31 DEF Recover
<1>32. CASE RefuseRollBack
  BY <1>32 DEF RefuseRollBack
<1>33. CASE UNCHANGED vars
  BY <1>33 DEF vars
<1> QED
  BY <1>1, <1>2, <1>3, <1>4, <1>5, <1>6, <1>7, <1>8, <1>9, <1>10, <1>11,
     <1>12, <1>13, <1>14, <1>15, <1>16, <1>17, <1>18, <1>19, <1>20, <1>21,
     <1>22, <1>23, <1>24, <1>25, <1>26, <1>27, <1>28, <1>29, <1>30, <1>31,
     <1>32, <1>33 DEF Next, Continue, Fails, Preflight, Pacman, Commit

LEMMA SessionInductive == Spec => []SessionInv
<1>1. SessionInv /\ [Next]_vars => SessionInv'
  BY TypeStep, IdStep, CommitStepsStep, OpenStep DEF SessionInv
<1> QED
  BY SessionInit, <1>1, PTL DEF Spec

\* Every reachable state of a session is well typed.
THEOREM SessionTypeCorrect == Spec => []TypeOK
<1>1. SessionInv => TypeOK
  BY DEF SessionInv
<1> QED
  BY <1>1, SessionInductive, PTL

\* Outside its commit, a transaction is open on the target only by a kill or
\* a failed rollback of that commit: after any other failure of any program,
\* in any number of attempts, it is settled (arachtransaction/main.py, commit).
THEOREM CommitSettles == Spec => []OpenOnlyByFault
<1>1. SessionInv => OpenOnlyByFault
  BY DEF SessionInv
<1> QED
  BY <1>1, SessionInductive, PTL

-----------------------------------------------------------------------------
\* One plan

\* What the preflight has done by the step it is at, and that the steps of a
\* job are taken in that job: OnePlan speaks only of the time after them. The
\* storage of a running preflight is still that of a Calamares just started.
PlanInv ==
    /\ step \in {"plan", "report", "receipt", "store"} => job = 1
    /\ step = "prepare" => Running /\ Exec[job] = "prepare"
    /\ job = 1 => ~storage.plan /\ storage.id = 0
    /\ step \in {"report", "receipt", "store"} =>
          planFile = Catalog(root).content
    /\ step = "store" =>
          receipt = [plan |-> planFile, catalog |-> planFile]
    /\ OnePlan

LEMMA FirstJob == Exec[1] = "preflight"
  BY DEF Exec, NativeExec, ArchISOExec

LEMMA PlanInit == Init => PlanInv
  BY DEF Init, PlanInv, OnePlan

\* A session that stopped says nothing of the plan.
LEMMA StoppedPlan == FailJob => PlanInv'
  BY DEF PlanInv, OnePlan

\* A later job that leaves the catalog, the files under /run and the rest of
\* the storage alone leaves the plan as it was.
LEMMA LaterPlan ==
    ASSUME TypeOK, PlanInv, Running, job # 1,
           UNCHANGED <<catalogVars, runVars, storage.id, storage.plan,
                       storage.root>>,
           step # "prepare",
           NextJob \/ job' = job,
           step' \in {"start", "install", "verify", "rollback"}
    PROVE  PlanInv'
<1>1. /\ job' # 1 /\ step' # "prepare"
      /\ (Running' => Running) /\ (Running /\ storage'.plan => storage.plan)
  BY DEF TypeOK
<1>2. \A at : Catalog(at)' = Catalog(at)
  BY DEF Catalog
<1>3. OnePlan'
  BY <1>1, <1>2 DEF PlanInv, OnePlan
<1>4. QED
  BY <1>1, <1>3 DEF PlanInv

LEMMA PlanStep == TypeOK /\ IdTaken /\ PlanInv /\ [Next]_vars => PlanInv'
<1> SUFFICES ASSUME TypeOK, IdTaken, PlanInv, [Next]_vars PROVE PlanInv'
  OBVIOUS
<1>1. CASE Start
  BY <1>1 DEF Start, PlanInv, OnePlan
<1>2. CASE UseOffline \/ UseExisting \/ SyncCatalog
  <2>1. job = 1 /\ job' = 1 /\ step' = "plan" /\ storage' = storage
    BY <1>2, PreflightJob DEF UseOffline, UseExisting, SyncCatalog
  <2>2. QED
    BY <2>1 DEF PlanInv, OnePlan
<1>3. CASE PlanHardware
  <2>1. /\ job = 1 /\ job' = 1 /\ step' = "report" /\ storage' = storage
        /\ planFile' = Catalog(root)'.content
    BY <1>3, PreflightJob DEF PlanHardware, Catalog
  <2>2. QED
    BY <2>1 DEF PlanInv, OnePlan
<1>4. CASE ReportHardware
  <2>1. /\ job = 1 /\ job' = 1 /\ step = "report" /\ step' = "receipt"
        /\ storage' = storage
        /\ planFile' = planFile /\ Catalog(root)' = Catalog(root)
    BY <1>4, PreflightJob DEF ReportHardware, Catalog
  <2>2. QED
    BY <2>1 DEF PlanInv, OnePlan
<1>5. CASE WriteReceipt
  <2>1. /\ job = 1 /\ job' = 1 /\ step = "receipt" /\ step' = "store"
        /\ storage' = storage
        /\ planFile' = planFile /\ Catalog(root)' = Catalog(root)
        /\ receipt' = [plan |-> planFile, catalog |-> Catalog(root).content]
    BY <1>5, PreflightJob DEF WriteReceipt, Catalog
  <2>2. QED
    BY <2>1 DEF PlanInv, OnePlan
<1>6. CASE StorePaths
  <2>1. /\ job = 1 /\ job' = 2 /\ step = "store" /\ step' = "start"
        /\ storage'.id = storage.id /\ storage'.root = root
        /\ UNCHANGED <<planFile, receipt, root, Catalog(root)>>
    BY <1>6, PreflightJob DEF StorePaths, Catalog, TypeOK
  <2>2. Catalog(storage.root)' = Catalog(root)
    BY <1>6, <2>1 DEF Catalog, StorePaths
  <2>3. OnePlan'
    BY <2>1, <2>2 DEF PlanInv, OnePlan
  <2>4. QED
    BY <2>1, <2>3 DEF PlanInv
<1>7. CASE TakeId
  <2>1. /\ job # 1 /\ job' = job /\ Exec[job] = "prepare" /\ Running
        /\ step' = "prepare"
        /\ storage'.plan = storage.plan /\ storage'.root = storage.root
        /\ UNCHANGED <<planFile, receipt, Catalog(storage.root)>>
    BY <1>7, FirstJob DEF TakeId, Catalog, TypeOK
  <2>2. OnePlan'
    BY <2>1 DEF PlanInv, OnePlan
  <2>3. QED
    BY <2>1, <2>2 DEF PlanInv
<1>8. CASE Prepare
  <2>1. /\ job # 1 /\ job' = job + 1 /\ Running /\ storage.plan
        /\ step = "prepare" /\ step' = "start" /\ storage' = storage
        /\ storage.id \in Transaction
        /\ staged'[storage.id] = planFile
        /\ UNCHANGED <<planFile, receipt, Catalog(storage.root)>>
    BY <1>8, FirstJob DEF Prepare, Catalog, TypeOK, IdTaken
  <2>2. OnePlan'
    BY <2>1 DEF PlanInv, OnePlan
  <2>3. QED
    BY <2>1, <2>2 DEF PlanInv, TypeOK
<1>9. CASE \/ Partition \/ Mount \/ OtherJob \/ SkipPacman \/ StagePayload
           \/ InstallPayload \/ Apply \/ ApplyFails \/ Verify \/ VerifyFails
  <2>1. Running /\ Exec[job] \notin {"preflight", "prepare"}
    BY <1>9
    DEF Partition, Mount, OtherJob, SkipPacman, StagePayload,
        InstallPayload, Apply, ApplyFails, Verify, VerifyFails
  <2>2. job # 1 /\ step # "prepare"
    BY <2>1, FirstJob DEF PlanInv
  <2>3. /\ NextJob \/ job' = job
        /\ step' \in {"start", "install", "verify", "rollback"}
        /\ UNCHANGED <<catalogVars, runVars>>
    BY <1>9
    DEF Partition, Mount, OtherJob, SkipPacman, StagePayload,
        InstallPayload, Apply, ApplyFails, Verify, VerifyFails
  <2>4. UNCHANGED <<storage.id, storage.plan, storage.root>>
    BY <1>9
    DEF Partition, Mount, OtherJob, SkipPacman, StagePayload, TypeOK,
        InstallPayload, Apply, ApplyFails, Verify, VerifyFails
  <2>5. QED
    BY <2>1, <2>2, <2>3, <2>4, LaterPlan
<1>10. CASE SyncFails
  <2>1. CASE FailJob
    BY <2>1, StoppedPlan
  <2>2. CASE step' = "plan" /\ job' = job
    <3>1. job = 1 /\ storage' = storage
      BY <1>10, PreflightJob DEF SyncFails
    <3>2. QED
      BY <2>2, <3>1 DEF PlanInv, OnePlan
  <2>3. QED
    BY <1>10, <2>1, <2>2 DEF SyncFails
<1>11. CASE \/ RefuseIncomplete \/ RefusePacman \/ RollBack \/ RefuseRollBack
            \/ PlanFails \/ JobFails \/ PacmanFails \/ RollBackFails \/ Kill \/ Reboot
  <2>1. FailJob
    BY <1>11
    DEF RefuseIncomplete, RefusePacman, RollBack, RefuseRollBack, PlanFails,
        JobFails, PacmanFails, RollBackFails, Kill, Reboot
  <2>2. QED
    BY <2>1, StoppedPlan
<1>12. CASE Recover
  <2>1. job' = 0 /\ UNCHANGED <<step, planFile, receipt, Catalog(root)>>
    BY <1>12 DEF Recover, Catalog
  <2>2. QED
    BY <1>12, <2>1 DEF PlanInv, OnePlan, Recover
<1>13. CASE UNCHANGED vars
  <2>1. \A at : Catalog(at)' = Catalog(at)
    BY <1>13 DEF vars, Catalog
  <2>2. QED
    BY <1>13, <2>1 DEF vars, PlanInv, OnePlan
<1> QED
  BY <1>1, <1>2, <1>3, <1>4, <1>5, <1>6, <1>7, <1>8, <1>9, <1>10, <1>11,
     <1>12, <1>13 DEF Next, Continue, Fails, Preflight, Pacman, Commit

\* From the end of the preflight on there is one plan: the files under /run,
\* the catalog the commit will be given and the prepared transaction agree,
\* whatever catalogs, receipts and transactions the attempts before it and
\* their faults left (arachhardware/main.py, arachtransaction/main.py).
THEOREM PlansAgree == Spec => []OnePlan
<1>1. SessionInv => TypeOK /\ IdTaken
  BY DEF SessionInv
<1>2. Spec => []PlanInv
  BY PlanInit, PlanStep, SessionInductive, <1>1, PTL DEF Spec
<1>3. PlanInv => OnePlan
  BY DEF PlanInv
<1> QED
  BY <1>2, <1>3, PTL
=============================================================================
