------------------------ MODULE TargetRecoveryProofs ------------------------
(***************************************************************************)
(* Theorems of TargetRecovery for any number of transactions, media, boot  *)
(* files and faults. Stacked or not, what is journaled rolled-back has the *)
(* authority its apply found. As long as no apply began on an unsettled    *)
(* target, there is one transaction at most that the target and the        *)
(* commands are about, the newest; the rest follows from what it found and *)
(* how far it came, or came back.                                          *)
(***************************************************************************)
EXTENDS TargetRecovery, TLAPS

Generation == Media \cup {NoMedium}
Bundle == Media \cup {"old"}

Undoing == {"undo-boot", "undo-corinth", "rolled-back"}
Publishing == {"publish", "published"}

TypeInv ==
    /\ medium \in [Transactions -> Media]
    /\ parent \in [Media -> Generation]
    /\ status \in [Transactions -> Unsettled \cup Settled]
    /\ previous \in [Transactions -> Generation]
    /\ record \in [Transactions -> {"absent", "torn", "written"}]
    /\ marked \in [Transactions -> Nat]
    /\ backup \in [Transactions -> [File -> Bundle]]
    /\ boot \in [File -> Bundle]
    /\ active \in Generation
    /\ started \in Seq(Transactions)
    /\ found \in [Transactions -> [boot : [File -> Bundle], active : Generation]]
    /\ stacked \in BOOLEAN
    /\ pc \in {"idle"} \cup Publishing \cup Activating \cup Undoing
    /\ pc # "idle" => tx \in Transactions
    /\ left \in Nat
    /\ recovering \in BOOLEAN

\* The journal names the generation apply found, and rollback goes on to its
\* last journal entry only with that one active.
AuthorityInv ==
    /\ \A t \in Transactions : previous[t] = found[t].active
    /\ pc = "rolled-back" => active = previous[tx]

-----------------------------------------------------------------------------
\* One transaction at a time

Newest == started[Len(started)]

\* A transaction starts once.
StartedInv ==
    /\ \A i, j \in DOMAIN started : started[i] = started[j] => i = j
    /\ \A i \in DOMAIN started : status[started[i]] # "Absent"
    /\ \A t \in Transactions :
          status[t] = "Absent" => record[t] = "absent" /\ marked[t] = 0

\* What runs, and what is unsettled, is the newest transaction.
NewestInv ==
    /\ \A t \in Transactions : status[t] \in Unsettled =>
          started # << >> /\ t = Newest
    /\ pc # "idle" => started # << >> /\ tx = Newest

\* The journal and the record of w, by where the command is that deals with it.
JournalOf(w) ==
    /\ status[w] # "Absent"
    /\ pc \in Publishing => status[w] = "Applying"
    /\ pc \in Activating => status[w] = "CorinthPublished"
    /\ pc \in Undoing => status[w] \in Unsettled \cup {"Verified"}
    /\ pc \in Publishing \cup {"activate", "undo-corinth", "rolled-back"} =>
          record[w] = "absent"
    /\ pc = "record" => record[w] = "torn"
    /\ pc \in {"place", "mark"} => record[w] = "written"
    /\ status[w] = "RolledBack" => record[w] = "absent" /\ pc = "idle"
    /\ record[w] # "written" => marked[w] = 0
    /\ record[w] = "written" => backup[w] = found[w].boot
    /\ pc \in {"undo-corinth", "rolled-back"}
          /\ status[w] \in {"Applied", "Verified"} => w \in undone

\* The active generation is w's, or the one w found.
GenerationOf(w) ==
    /\ active # found[w].active => /\ active = medium[w]
                                   /\ parent[medium[w]] = found[w].active
    /\ pc = "publish" => active = found[w].active
    /\ pc \in {"published"} \cup Activating => active = medium[w]
    /\ status[w] = "RolledBack" => active = found[w].active
    /\ status[w] \in {"Applied", "Verified"} /\ w \notin undone =>
          active = medium[w]

\* The boot files are those w found, but for one at most, which is w's.
Restored(w) ==
    \E g \in File : /\ \A f \in File \ {g} : boot[f] = found[w].boot[f]
                    /\ boot[g] \in {found[w].boot[g], medium[w]}

\* Each boot file is w's or the one w found; which, by what is marked.
FilesOf(w) ==
    /\ record[w] # "written" => Restored(w)
    /\ record[w] = "written" => \A f \in File :
          /\ boot[f] \in {found[w].boot[f], medium[w]}
          /\ f > marked[w] + 1 => boot[f] = found[w].boot[f]
    /\ pc \in Publishing \cup {"activate", "record"} => \A f \in File :
          boot[f] = found[w].boot[f]
    /\ pc = "place" => \A f \in File :
          /\ f <= marked[w] => boot[f] = medium[w]
          /\ f > marked[w] => boot[f] = found[w].boot[f]
    /\ pc = "mark" => \A f \in File :
          /\ f <= marked[w] + 1 => boot[f] = medium[w]
          /\ f > marked[w] + 1 => boot[f] = found[w].boot[f]
    /\ pc = "undo-boot" =>
          /\ left <= marked[w]
          /\ \A f \in File :
                f > left /\ f <= marked[w] => boot[f] = found[w].boot[f]
    /\ status[w] \in {"Applied", "Verified"} /\ w \notin undone =>
          /\ marked[w] = FileCount
          /\ pc = "undo-boot" => left = FileCount
          /\ \A f \in File : boot[f] = medium[w]

Of(w) == JournalOf(w) /\ GenerationOf(w) /\ FilesOf(w)

CoreInv ==
    /\ StartedInv
    /\ NewestInv
    /\ started = << >> => boot = FreshBoot /\ active = NoMedium
    /\ started # << >> => Of(Newest)

\* The i-th transaction is in place; its rollback was cut short.
InPlace(i) == status[started[i]] = "Verified"
TornAt(i) == InPlace(i) /\ started[i] \in undone

\* The target as the i-th transaction left it, or as it was before the first.
GenerationAt(i) == IF i = 0 THEN NoMedium ELSE medium[started[i]]
BootAt(i) == IF i = 0 THEN "old" ELSE medium[started[i]]

\* j is the last in place of the first k transactions, 0 if none is.
LastOf(j, k) ==
    /\ j # 0 => InPlace(j)
    /\ \A i \in (j + 1)..k : ~InPlace(i)

\* The boot files b are as the j-th transaction left them, but that each of
\* the next ones up to the k-th may have left one of its own.
Strayed(j, k, b) ==
    \E stray \in [(j + 1)..k -> File] : \A f \in File :
        \/ b[f] = BootAt(j)
        \/ \E i \in (j + 1)..k : stray[i] = f /\ b[f] = medium[started[i]]

\* A target whose boot files are b and whose authority is a is as the last
\* one in place of the first k transactions left it, strays excepted.
Shows(k, b, a) ==
    \E j \in 0..k : LastOf(j, k) /\ a = GenerationAt(j) /\ Strayed(j, k, b)

\* Each transaction found what the ones before it left.
ChainInv ==
    \A k \in 1..Len(started) :
        (\A i \in 1..(k - 1) : ~TornAt(i)) =>
            Shows(k - 1, found[started[k]].boot, found[started[k]].active)

RecoveryInv == /\ TypeInv
               /\ AuthorityInv
               /\ ~stacked => CoreInv /\ ChainInv

-----------------------------------------------------------------------------
\* Stacked or not

USE DEF fixedVars, journalVars, bootVars, history, command, End, Running,
        Unsettled, Settled, Generation, Bundle, Publishing, Activating, Undoing

LEMMA InitTypes == Init => TypeInv
<1> SUFFICES ASSUME Init PROVE TypeInv
  OBVIOUS
<1>0. FreshBoot \in [File -> Bundle]
  BY DEF FreshBoot
<1>1. status \in [Transactions -> Unsettled \cup Settled]
  BY DEF Init
<1>2. previous \in [Transactions -> Generation]
      /\ marked \in [Transactions -> Nat]
      /\ record \in [Transactions -> {"absent", "torn", "written"}]
  BY DEF Init
<1>3. backup \in [Transactions -> [File -> Bundle]] /\ boot \in [File -> Bundle]
  BY <1>0 DEF Init
<1>4. found \in [Transactions -> [boot : [File -> Bundle], active : Generation]]
  BY <1>0 DEF Init
<1>5. started \in Seq(Transactions)
  BY DEF Init
<1>6. /\ medium \in [Transactions -> Media]
      /\ parent \in [Media -> Generation]
      /\ active \in Generation /\ stacked \in BOOLEAN
      /\ pc = "idle" /\ left \in Nat /\ recovering \in BOOLEAN
  BY DEF Init
<1>7. QED
  BY <1>1, <1>2, <1>3, <1>4, <1>5, <1>6 DEF TypeInv

\* Every step keeps the types.
LEMMA StepTypes == TypeInv /\ [Next]_vars => TypeInv'
<1> SUFFICES ASSUME TypeInv, [Next]_vars PROVE TypeInv'
  OBVIOUS
<1> USE DEF TypeInv
<1>0. ASSUME NEW t \in Transactions, NEW v \in Unsettled \cup Settled
      PROVE  [status EXCEPT ![t] = v] \in [Transactions -> Unsettled \cup Settled]
  OBVIOUS
<1>E. End => /\ pc' = "idle" /\ left' \in Nat /\ recovering' \in BOOLEAN
  <2>1. 0 \in Nat
    OBVIOUS
  <2>2. End => pc' = "idle" /\ left' = 0 /\ recovering' = FALSE
    OBVIOUS
  <2>3. QED
    BY <2>1, <2>2
<1>1. ASSUME NEW t \in Transactions, Begin(t)
      PROVE  TypeInv'
  <2>1. previous' \in [Transactions -> Generation]
    BY <1>1 DEF Begin
  <2>2. found' \in [Transactions -> [boot : [File -> Bundle], active : Generation]]
    BY <1>1 DEF Begin
  <2>3. started' \in Seq(Transactions)
    BY <1>1 DEF Begin
  <2>4. status' \in [Transactions -> Unsettled \cup Settled]
    BY <1>0, <1>1 DEF Begin
  <2>5. /\ stacked' \in BOOLEAN /\ pc' = "publish" /\ tx' = t
        /\ UNCHANGED <<medium, parent, record, marked, backup, boot, active,
                       left, recovering>>
    BY <1>1 DEF Begin
  <2>6. QED
    BY <2>1, <2>2, <2>3, <2>4, <2>5
<1>2. ASSUME NEW t \in Transactions,
             Publish(t) \/ JournalPublished(t) \/ JournalApplied(t)
      PROVE  TypeInv'
  <2>1. CASE Publish(t)
    <3>1. active' \in Generation
      BY <2>1 DEF Publish
    <3>2. \/ pc = "publish" /\ pc' = "published" /\ UNCHANGED command
          \/ End
      BY <2>1 DEF Publish
    <3>3. UNCHANGED <<medium, parent, status, previous, record, marked, backup,
                      boot, started, found, stacked>>
      BY <2>1 DEF Publish
    <3>4. QED
      BY <1>E, <3>1, <3>2, <3>3
  <2>2. CASE JournalPublished(t)
    <3>1. status' \in [Transactions -> Unsettled \cup Settled]
      BY <2>2, <1>0 DEF JournalPublished
    <3>2. QED
      BY <2>2, <3>1 DEF JournalPublished
  <2>3. CASE JournalApplied(t)
    <3>1. status' \in [Transactions -> Unsettled \cup Settled]
      BY <2>3, <1>0 DEF JournalApplied
    <3>2. QED
      BY <2>3, <3>1 DEF JournalApplied
  <2>4. QED
    BY <1>2, <2>1, <2>2, <2>3
<1>3. ASSUME NEW t \in Transactions,
             CreateRecord(t) \/ WriteRecord(t) \/ PlaceFile(t) \/ MarkFile(t)
      PROVE  TypeInv'
  <2>1. /\ pc # "idle" /\ pc' \in Activating
        /\ UNCHANGED <<medium, parent, status, previous, active, started, found,
                       stacked, tx, left, recovering>>
    BY <1>3 DEF CreateRecord, WriteRecord, PlaceFile, MarkFile, Activate
  <2>2. record' \in [Transactions -> {"absent", "torn", "written"}]
    BY <1>3 DEF CreateRecord, WriteRecord, PlaceFile, MarkFile
  <2>3. marked' \in [Transactions -> Nat]
    <3>1. CASE MarkFile(t)
      BY <3>1 DEF MarkFile
    <3>2. CASE UNCHANGED marked
      BY <3>2
    <3>3. QED
      BY <1>3, <3>1, <3>2 DEF CreateRecord, WriteRecord, PlaceFile
  <2>4. backup' \in [Transactions -> [File -> Bundle]]
    BY <1>3 DEF CreateRecord, WriteRecord, PlaceFile, MarkFile
  <2>5. boot' \in [File -> Bundle]
    <3>1. ASSUME NEW f, NEW b \in Bundle
          PROVE  [boot EXCEPT ![f] = b] \in [File -> Bundle]
      OBVIOUS
    <3>2. medium[t] \in Bundle
      OBVIOUS
    <3>3. CASE PlaceFile(t)
      BY <3>1, <3>2, <3>3 DEF PlaceFile
    <3>4. CASE UNCHANGED boot
      BY <3>4
    <3>5. QED
      BY <1>3, <3>3, <3>4 DEF CreateRecord, WriteRecord, MarkFile
  <2>6. QED
    BY <2>1, <2>2, <2>3, <2>4, <2>5
<1>4. ASSUME NEW t \in Transactions, Verify(t) \/ ActivationFails(t)
      PROVE  TypeInv'
  <2>1. status' \in [Transactions -> Unsettled \cup Settled]
    <3>1. CASE Verify(t)
      BY <1>0, <3>1 DEF Verify
    <3>2. CASE ActivationFails(t)
      BY <1>0, <3>2 DEF ActivationFails
    <3>3. QED
      BY <1>4, <3>1, <3>2
  <2>2. /\ End \/ UNCHANGED <<pc, command>>
        /\ UNCHANGED <<medium, parent, previous, record, marked, backup, boot,
                       active, started, found, stacked>>
    BY <1>4 DEF Verify, ActivationFails
  <2>3. QED
    BY <1>E, <2>1, <2>2
<1>5. ASSUME NEW t \in Transactions, RestoreFile(t) \/ BootUndone(t)
      PROVE  TypeInv'
  <2>1. CASE RestoreFile(t)
    <3>1. left' \in Nat
      BY <2>1 DEF RestoreFile
    <3>2. boot' \in [File -> Bundle]
      <4>1. left \in File => backup[t][left] \in Bundle
        OBVIOUS
      <4>2. QED
        BY <2>1, <4>1 DEF RestoreFile
    <3>3. UNCHANGED <<medium, parent, status, previous, record, marked, backup,
                      active, started, found, stacked, pc, tx, recovering>>
      BY <2>1 DEF RestoreFile
    <3>4. QED
      BY <3>1, <3>2, <3>3
  <2>2. CASE BootUndone(t)
    <3>1. record' \in [Transactions -> {"absent", "torn", "written"}]
          /\ marked' \in [Transactions -> Nat]
      BY <2>2 DEF BootUndone
    <3>2. /\ pc # "idle" /\ pc' \in Undoing
          /\ UNCHANGED <<medium, parent, status, previous, backup, boot,
                         active, started, found, stacked, tx, left, recovering>>
      BY <2>2 DEF BootUndone
    <3>3. QED
      BY <3>1, <3>2
  <2>3. QED
    BY <1>5, <2>1, <2>2
<1>6. ASSUME NEW t \in Transactions,
             UndoCorinth(t) \/ RefuseCorinth(t) \/ RefuseRecord(t)
      PROVE  TypeInv'
  <2>1. active' \in Generation
    BY <1>6 DEF UndoCorinth, RefuseCorinth, RefuseRecord
  <2>2. \/ pc = "undo-corinth" /\ pc' = "rolled-back" /\ UNCHANGED command
        \/ End
    BY <1>6 DEF UndoCorinth, RefuseCorinth, RefuseRecord
  <2>3. UNCHANGED <<medium, parent, status, previous, record, marked, backup,
                    boot, started, found, stacked>>
    BY <1>6 DEF UndoCorinth, RefuseCorinth, RefuseRecord
  <2>4. QED
    BY <1>E, <2>1, <2>2, <2>3
<1>7. ASSUME NEW t \in Transactions, StartUndo(t), recovering' \in BOOLEAN,
             status' \in [Transactions -> Unsettled \cup Settled],
             UNCHANGED <<fixedVars, previous, bootVars, active, history>>
      PROVE  TypeInv'
  <2>1. pc' = "undo-boot" /\ tx' = t /\ left' = marked[t]
    BY <1>7 DEF StartUndo
  <2>2. left' \in Nat
    BY <2>1
  <2>3. QED
    BY <1>7, <2>1, <2>2
<1>8. ASSUME NEW t \in Transactions, JournalRolledBack(t)
      PROVE  TypeInv'
  <2>1. status' \in [Transactions -> Unsettled \cup Settled]
    BY <1>0, <1>8 DEF JournalRolledBack
  <2>2. UNCHANGED <<fixedVars, previous, bootVars, active, history>>
    BY <1>8 DEF JournalRolledBack
  <2>3. CASE /\ recovering' = recovering
             /\ \E u \in Transactions : StartUndo(u)
    BY <1>7, <2>1, <2>2, <2>3
  <2>4. CASE End
    BY <1>E, <2>1, <2>2, <2>4
  <2>5. QED
    BY <1>8, <2>3, <2>4 DEF JournalRolledBack
<1>9. ASSUME Recover \/ \E t \in Transactions : Rollback(t)
      PROVE  TypeInv'
  <2>1. /\ \E t \in Transactions : StartUndo(t)
        /\ recovering' \in BOOLEAN
        /\ UNCHANGED <<fixedVars, journalVars, bootVars, active, history>>
    BY <1>9 DEF Recover, Rollback
  <2>2. QED
    BY <1>7, <2>1
<1>10. CASE Interrupt \/ UNCHANGED vars
  BY <1>E, <1>10 DEF Interrupt, vars
<1>11. QED
  BY <1>1, <1>2, <1>3, <1>4, <1>5, <1>6, <1>8, <1>9, <1>10
  DEF Next, Continue, Step

LEMMA StepAuthority == TypeInv /\ AuthorityInv /\ [Next]_vars => AuthorityInv'
<1> SUFFICES ASSUME TypeInv, AuthorityInv, [Next]_vars PROVE AuthorityInv'
  OBVIOUS
<1>1. ASSUME NEW t \in Transactions, Begin(t)
      PROVE  AuthorityInv'
  <2>1. \A u \in Transactions :
           /\ previous'[u] = IF u = t THEN active ELSE previous[u]
           /\ found'[u].active = IF u = t THEN active ELSE found[u].active
    BY <1>1 DEF Begin, TypeInv
  <2>2. pc' = "publish"
    BY <1>1 DEF Begin
  <2>3. QED
    BY <2>1, <2>2 DEF AuthorityInv
<1>2. ASSUME NEW t \in Transactions, UndoCorinth(t)
      PROVE  AuthorityInv'
  BY <1>2 DEF UndoCorinth, Untouched, AuthorityInv
<1>3. ASSUME NEW t \in Transactions,
             \/ Publish(t) \/ JournalPublished(t) \/ CreateRecord(t)
             \/ WriteRecord(t) \/ PlaceFile(t) \/ MarkFile(t)
             \/ JournalApplied(t) \/ RefuseRecord(t) \/ RestoreFile(t)
             \/ BootUndone(t) \/ RefuseCorinth(t)
             \/ JournalRolledBack(t) \/ ActivationFails(t) \/ Rollback(t)
      PROVE  AuthorityInv'
  <2>1. UNCHANGED <<previous, found>> /\ pc' # "rolled-back"
    BY <1>3
    DEF Publish, JournalPublished, Activate, CreateRecord, WriteRecord,
        PlaceFile, MarkFile, JournalApplied, RefuseRecord, RestoreFile,
        BootUndone, RefuseCorinth, JournalRolledBack, ActivationFails,
        Rollback, StartUndo
  <2>2. QED
    BY <2>1 DEF AuthorityInv
<1>4. ASSUME NEW t \in Transactions, Verify(t)
      PROVE  AuthorityInv'
  BY <1>4 DEF Verify, AuthorityInv
<1>5. CASE Recover \/ Interrupt \/ UNCHANGED vars
  BY <1>5 DEF Recover, StartUndo, Interrupt, vars, AuthorityInv
<1>6. QED
  BY <1>1, <1>2, <1>3, <1>4, <1>5 DEF Next, Continue, Step

LEMMA TypesAndAuthority == Spec => [](TypeInv /\ AuthorityInv)
<1>1. Init => AuthorityInv
  BY DEF Init, AuthorityInv
<1>2. QED
  BY InitTypes, StepTypes, <1>1, StepAuthority, PTL DEF Spec

\* Only the last step of a rollback journals it.
LEMMA JournalsRollback ==
    ASSUME TypeInv, [Next]_vars, NEW t \in Transactions,
           status[t] # "RolledBack", status'[t] = "RolledBack"
    PROVE  JournalRolledBack(t)
<1>1. ASSUME NEW u \in Transactions,
             \/ Begin(u) \/ Publish(u) \/ JournalPublished(u)
             \/ CreateRecord(u) \/ WriteRecord(u) \/ PlaceFile(u) \/ MarkFile(u)
             \/ JournalApplied(u) \/ RefuseRecord(u) \/ RestoreFile(u)
             \/ BootUndone(u) \/ UndoCorinth(u) \/ RefuseCorinth(u)
             \/ ActivationFails(u) \/ Verify(u) \/ Rollback(u)
      PROVE  FALSE
  BY <1>1
  DEF Begin, Publish, JournalPublished, Activate, CreateRecord, WriteRecord,
      PlaceFile, MarkFile, JournalApplied, RefuseRecord, RestoreFile,
      BootUndone, UndoCorinth, RefuseCorinth, ActivationFails, Verify, Rollback,
      TypeInv
<1>2. ASSUME Recover \/ Interrupt \/ UNCHANGED vars
      PROVE  FALSE
  BY <1>2 DEF Recover, Interrupt, vars
<1>3. ASSUME NEW u \in Transactions, JournalRolledBack(u)
      PROVE  u = t
  BY <1>3 DEF JournalRolledBack, TypeInv
<1>4. QED
  BY <1>1, <1>2, <1>3 DEF Next, Continue, Step

\* Whatever transactions are applied on top of one another, none is journaled
\* rolled-back but with the authority its apply found: one whose boot files
\* went back while another has the authority is refused (rollback_corinth).
THEOREM RollbackHasAuthority == Spec => RolledBackHasAuthority
<1>1. TypeInv /\ AuthorityInv /\ [Next]_vars =>
        \A t \in Transactions :
            status[t] # "RolledBack" /\ status'[t] = "RolledBack" =>
                active = found[t].active
  BY JournalsRollback DEF JournalRolledBack, AuthorityInv
<1>2. QED
  BY <1>1, TypesAndAuthority, PTL DEF Spec, RolledBackHasAuthority
-----------------------------------------------------------------------------
\* No apply on an unsettled target: the newest transaction

LEMMA NewestStarted ==
    ASSUME TypeInv, started # << >>
    PROVE  /\ Len(started) \in Nat /\ Len(started) \in 1..Len(started)
           /\ DOMAIN started = 1..Len(started)
           /\ Newest \in Transactions
<1>1. started \in Seq(Transactions)
  BY DEF TypeInv
<1>2. Len(started) \in Nat /\ Len(started) # 0
      /\ DOMAIN started = 1..Len(started)
  BY <1>1
<1>3. Len(started) \in 1..Len(started)
  BY <1>2
<1>4. QED
  BY <1>1, <1>2, <1>3 DEF Newest

\* A step that deals with w alone.
Frame(w) ==
    /\ UNCHANGED <<started, found, medium, parent, stacked>>
    /\ \A t \in Transactions : t # w =>
          /\ status'[t] = status[t]
          /\ record'[t] = record[t]
          /\ marked'[t] = marked[t]
          /\ t \in undone' <=> t \in undone

\* What is left of the invariant when such a step keeps w's part of it.
LEMMA OnNewest ==
    ASSUME TypeInv, CoreInv, NEW w, started # << >>, w = Newest,
           Frame(w), Of(w)', pc' # "idle" => tx' = w
    PROVE  CoreInv'
<1>1. Newest' = w /\ started' # << >>
  BY DEF Frame, Newest
<1>2. w \in Transactions /\ status[w] # "Absent" /\ status'[w] # "Absent"
  <2>1. Of(w)
    BY DEF CoreInv
  <2>2. QED
    BY <2>1, NewestStarted DEF Of, JournalOf
<1>3. StartedInv'
  <2>1. \A i \in DOMAIN started : started[i] \in Transactions
    BY DEF TypeInv
  <2>2. \A t \in Transactions : status'[t] = "Absent" =>
           /\ status[t] = "Absent"
           /\ record'[t] = record[t] /\ marked'[t] = marked[t]
    BY <1>2 DEF Frame
  <2>3. \A t \in Transactions : status[t] # "Absent" => status'[t] # "Absent"
    BY <1>2 DEF Frame
  <2>4. QED
    BY <2>1, <2>2, <2>3 DEF CoreInv, StartedInv, Frame
<1>4. NewestInv'
  <2>1. \A t \in Transactions : status[t] \in Unsettled => t = w
    BY DEF CoreInv, NewestInv
  <2>2. \A t \in Transactions : status'[t] \in Unsettled => t = w
    BY <2>1 DEF Frame
  <2>3. QED
    BY <1>1, <2>2 DEF NewestInv
<1>5. QED
  BY <1>1, <1>3, <1>4 DEF CoreInv

\* The steps of a command keep the part of the transaction it deals with.
\* First apply, up to the boot files.
LEMMA PublishOf ==
    ASSUME TypeInv, NEW w \in Transactions, tx = w, Of(w),
           Publish(w) \/ JournalPublished(w)
    PROVE  Of(w)' /\ Frame(w) /\ (pc' # "idle" => tx' = w)
<1>1. CASE Publish(w)
  <2>1. pc = "publish" /\ UNCHANGED <<medium, parent, status, previous, record,
                                      marked, backup, boot, started, found,
                                      stacked, undone>>
    BY <1>1 DEF Publish
  <2>2. \/ pc' = "published" /\ tx' = w /\ active' = medium[w]
           /\ active \in {parent[medium[w]], medium[w]}
        \/ pc' = "idle" /\ active' = active
    BY <1>1 DEF Publish, Publishable
  <2>3. status[w] = "Applying" /\ record[w] = "absent" /\ active = found[w].active
    BY <2>1 DEF Of, JournalOf, GenerationOf
  <2>4. JournalOf(w)'
    BY <2>1, <2>2, <2>3 DEF Of, JournalOf
  <2>5. GenerationOf(w)'
    BY <2>1, <2>2, <2>3 DEF Of, GenerationOf
  <2>6. FilesOf(w)'
    BY <2>1, <2>2, <2>3 DEF Of, FilesOf, Restored
  <2>7. QED
    BY <2>1, <2>2, <2>4, <2>5, <2>6 DEF Of, Frame
<1>2. CASE JournalPublished(w)
  <2>1. /\ pc = "published" /\ pc' = "activate" /\ tx' = w
        /\ UNCHANGED <<medium, parent, previous, record, marked, backup, boot,
                       started, found, stacked, undone, active>>
    BY <1>2 DEF JournalPublished
  <2>2. status'[w] = "CorinthPublished"
        /\ \A t \in Transactions : t # w => status'[t] = status[t]
    BY <1>2 DEF JournalPublished, TypeInv
  <2>3. status[w] = "Applying" /\ record[w] = "absent"
    BY <2>1 DEF Of, JournalOf
  <2>4. JournalOf(w)'
    BY <2>1, <2>2, <2>3 DEF Of, JournalOf
  <2>5. GenerationOf(w)'
    BY <2>1, <2>2 DEF Of, GenerationOf
  <2>6. FilesOf(w)'
    BY <2>1, <2>2, <2>3 DEF Of, FilesOf, Restored
  <2>7. QED
    BY <2>1, <2>2, <2>4, <2>5, <2>6 DEF Of, Frame
<1>3. QED
  BY <1>1, <1>2

\* A file g, if there is one, was replaced and the others are as w found them.
LEMMA RestoredBut ==
    ASSUME NEW w, NEW g,
           \A f \in File : boot[f] \in {found[w].boot[f], medium[w]},
           \A f \in File : f # g => boot[f] = found[w].boot[f]
    PROVE  Restored(w)
<1>1. 1 \in File
  BY RecoveryAssumption DEF File
<1>2. CASE g \in File
  BY <1>2 DEF Restored
<1>3. CASE g \notin File
  BY <1>1, <1>3 DEF Restored
<1>4. QED
  BY <1>2, <1>3

\* activate_boot_bundle.
LEMMA ActivateOf ==
    ASSUME TypeInv, NEW w \in Transactions, tx = w, Of(w),
           CreateRecord(w) \/ WriteRecord(w) \/ PlaceFile(w) \/ MarkFile(w)
    PROVE  Of(w)' /\ Frame(w) /\ (pc' # "idle" => tx' = w)
<1>1. /\ pc \in Activating /\ tx' = w
      /\ UNCHANGED <<medium, parent, status, previous, started, found,
                     stacked, undone, active>>
  BY DEF CreateRecord, WriteRecord, PlaceFile, MarkFile, Activate
<1>2. status[w] = "CorinthPublished" /\ active = medium[w]
  BY <1>1 DEF Of, JournalOf, GenerationOf
<1>3. pc' \in Activating
  BY DEF CreateRecord, WriteRecord, PlaceFile, MarkFile, Activate
<1>4. GenerationOf(w)'
  BY <1>1, <1>2, <1>3 DEF Of, GenerationOf
<1>5. marked[w] \in Nat /\ File \subseteq Nat /\ FileCount \in Nat
  BY RecoveryAssumption DEF TypeInv, File
<1>6. CASE CreateRecord(w)
  <2>1. /\ pc = "activate" /\ pc' = "record" /\ record'[w] = "torn"
        /\ \A t \in Transactions : t # w => record'[t] = record[t]
        /\ UNCHANGED <<marked, backup, boot>>
    BY <1>6 DEF CreateRecord, Activate, TypeInv
  <2>2. record[w] = "absent" /\ Restored(w)
    BY <2>1 DEF Of, JournalOf, FilesOf
  <2>3. JournalOf(w)'
    BY <1>1, <1>2, <2>1, <2>2 DEF Of, JournalOf
  <2>4. FilesOf(w)'
    BY <1>1, <1>2, <2>1, <2>2 DEF Of, FilesOf, Restored
  <2>5. QED
    BY <1>1, <1>4, <2>1, <2>3, <2>4 DEF Of, Frame
<1>7. CASE WriteRecord(w)
  <2>1. /\ pc = "record" /\ pc' = "place" /\ record'[w] = "written"
        /\ \A t \in Transactions : t # w => record'[t] = record[t]
        /\ backup'[w] = boot
        /\ UNCHANGED <<marked, boot>>
    BY <1>7 DEF WriteRecord, Activate, TypeInv
  <2>2. record[w] = "torn" /\ marked[w] = 0
        /\ \A f \in File : boot[f] = found[w].boot[f]
    BY <2>1 DEF Of, JournalOf, FilesOf
  <2>3. boot = found[w].boot
    <3>1. boot \in [File -> Bundle] /\ found[w].boot \in [File -> Bundle]
      BY DEF TypeInv
    <3>2. QED
      BY <2>2, <3>1
  <2>4. JournalOf(w)'
    BY <1>1, <1>2, <2>1, <2>3 DEF Of, JournalOf
  <2>5. \A f \in File : f > 0 /\ ~(f <= marked[w])
    BY <2>2 DEF File
  <2>6. \A f \in File :
           /\ boot'[f] \in {found[w].boot[f], medium[w]}
           /\ boot'[f] = found[w].boot[f]
           /\ ~(f <= marked'[w])
    BY <2>1, <2>2, <2>5
  <2>8. FilesOf(w)'
    BY <1>1, <1>2, <2>1, <2>6 DEF FilesOf
  <2>7. QED
    BY <1>1, <1>4, <2>1, <2>4, <2>8 DEF Of, Frame
<1>8. CASE PlaceFile(w)
  <2>1. /\ pc = "place" /\ pc' = "mark"
        /\ marked[w] < FileCount
        /\ UNCHANGED <<record, marked, backup>>
    BY <1>8 DEF PlaceFile, Activate
  <2>2. \A f \in File : boot'[f] = IF f = marked[w] + 1 THEN medium[w]
                                   ELSE boot[f]
    BY <1>8 DEF PlaceFile, TypeInv
  <2>3. /\ record[w] = "written"
        /\ \A f \in File : /\ f <= marked[w] => boot[f] = medium[w]
                           /\ f > marked[w] => boot[f] = found[w].boot[f]
    BY <2>1 DEF Of, JournalOf, FilesOf
  <2>4. JournalOf(w)'
    BY <1>1, <1>2, <2>1, <2>3 DEF Of, JournalOf
  <2>5. \A f \in File :
           /\ boot'[f] \in {found[w].boot[f], medium[w]}
           /\ f <= marked[w] + 1 => boot'[f] = medium[w]
           /\ f > marked[w] + 1 => boot'[f] = found[w].boot[f]
    <3>1. SUFFICES ASSUME NEW f \in File
                   PROVE  /\ boot'[f] \in {found[w].boot[f], medium[w]}
                          /\ f <= marked[w] + 1 => boot'[f] = medium[w]
                          /\ f > marked[w] + 1 => boot'[f] = found[w].boot[f]
      OBVIOUS
    <3>2. f \in Nat
      BY <1>5
    <3>3. CASE f = marked[w] + 1
      BY <1>5, <2>2, <3>2, <3>3
    <3>4. CASE f <= marked[w]
      BY <1>5, <2>2, <2>3, <3>2, <3>4
    <3>5. CASE f > marked[w] + 1
      BY <1>5, <2>2, <2>3, <3>2, <3>5
    <3>6. QED
      BY <1>5, <3>2, <3>3, <3>4, <3>5
  <2>6. FilesOf(w)'
    BY <1>1, <1>2, <2>1, <2>3, <2>5 DEF FilesOf
  <2>7. QED
    BY <1>1, <1>4, <2>1, <2>4, <2>6 DEF Of, Frame
<1>9. CASE MarkFile(w)
  <2>1. /\ pc = "mark" /\ pc' = "place"
        /\ marked'[w] = marked[w] + 1
        /\ \A t \in Transactions : t # w => marked'[t] = marked[t]
        /\ UNCHANGED <<record, backup, boot>>
    BY <1>9 DEF MarkFile, Activate, TypeInv
  <2>2. /\ record[w] = "written"
        /\ \A f \in File :
              /\ boot[f] \in {found[w].boot[f], medium[w]}
              /\ f <= marked[w] + 1 => boot[f] = medium[w]
              /\ f > marked[w] + 1 => boot[f] = found[w].boot[f]
    BY <2>1 DEF Of, JournalOf, FilesOf
  <2>3. JournalOf(w)'
    BY <1>1, <1>2, <2>1, <2>2 DEF Of, JournalOf
  <2>4. \A f \in File : f > marked[w] + 2 => f > marked[w] + 1
    BY <1>5
  <2>5. FilesOf(w)'
    BY <1>1, <1>2, <1>5, <2>1, <2>2, <2>4 DEF FilesOf
  <2>6. QED
    BY <1>1, <1>4, <2>1, <2>3, <2>5 DEF Of, Frame
<1>10. QED
  BY <1>6, <1>7, <1>8, <1>9

\* The end of apply, with success or with an error, and the end of any
\* command by a fault.
LEMMA EndOf ==
    ASSUME TypeInv, NEW w \in Transactions, tx = w, pc # "idle", Of(w),
           JournalApplied(w) \/ ActivationFails(w) \/ Interrupt \/ RefuseRecord(w)
    PROVE  Of(w)' /\ Frame(w) /\ (pc' # "idle" => tx' = w)
<1>1. pc' = "idle" /\ UNCHANGED <<medium, parent, previous, record, marked, backup,
                                  boot, started, found, stacked, undone, active>>
  BY DEF JournalApplied, ActivationFails, Interrupt, RefuseRecord
<1>2. \A t \in Transactions : t # w => status'[t] = status[t]
  BY DEF JournalApplied, ActivationFails, Interrupt, RefuseRecord, TypeInv
<1>3. status[w] # "RolledBack"
  BY DEF Of, JournalOf
<1>4. CASE Interrupt \/ RefuseRecord(w)
  <2>1. UNCHANGED status
    BY <1>4 DEF Interrupt, RefuseRecord
  <2>2. JournalOf(w)' /\ GenerationOf(w)'
    BY <1>1, <2>1 DEF Of, JournalOf, GenerationOf
  <2>3. FilesOf(w)'
    BY <1>1, <2>1 DEF Of, FilesOf, Restored
  <2>4. QED
    BY <1>1, <1>2, <2>2, <2>3 DEF Of, Frame
<1>5. CASE ActivationFails(w)
  <2>1. status'[w] = "ApplyFailed"
    BY <1>5 DEF ActivationFails, TypeInv
  <2>2. JournalOf(w)' /\ GenerationOf(w)'
    BY <1>1, <2>1 DEF Of, JournalOf, GenerationOf
  <2>3. FilesOf(w)'
    BY <1>1, <2>1 DEF Of, FilesOf, Restored
  <2>4. QED
    BY <1>1, <1>2, <2>2, <2>3 DEF Of, Frame
<1>6. CASE JournalApplied(w)
  <2>1. pc = "place" /\ marked[w] = FileCount /\ status'[w] = "Applied"
    BY <1>6 DEF JournalApplied, TypeInv
  <2>2. active = medium[w] /\ record[w] = "written"
    BY <2>1 DEF Of, JournalOf, GenerationOf
  <2>3. \A f \in File : f <= FileCount
    BY RecoveryAssumption DEF File
  <2>4. \A f \in File : boot[f] = medium[w]
    BY <2>1, <2>3 DEF Of, FilesOf
  <2>5. JournalOf(w)' /\ GenerationOf(w)'
    BY <1>1, <2>1, <2>2 DEF Of, JournalOf, GenerationOf
  <2>6. FilesOf(w)'
    BY <1>1, <2>1, <2>2, <2>4 DEF Of, FilesOf
  <2>7. QED
    BY <1>1, <1>2, <2>5, <2>6 DEF Of, Frame
<1>7. QED
  BY <1>4, <1>5, <1>6

\* rollback_boot_bundle.
LEMMA RestoreOf ==
    ASSUME TypeInv, NEW w \in Transactions, tx = w, Of(w),
           RestoreFile(w) \/ BootUndone(w)
    PROVE  Of(w)' /\ Frame(w) /\ (pc' # "idle" => tx' = w)
<1>1. /\ pc = "undo-boot" /\ tx' = w
      /\ UNCHANGED <<medium, parent, status, previous, backup, started, found,
                     stacked, active>>
  BY DEF RestoreFile, BootUndone
<1>2. status[w] \in Unsettled \cup {"Verified"}
  BY <1>1 DEF Of, JournalOf
<1>3. /\ marked[w] \in Nat /\ left \in Nat /\ File \subseteq Nat
      /\ FileCount \in Nat /\ FileCount # 0
  BY RecoveryAssumption DEF TypeInv, File
<1>4. left <= marked[w]
      /\ \A f \in File : f > left /\ f <= marked[w] => boot[f] = found[w].boot[f]
  BY <1>1 DEF Of, FilesOf
<1>5. CASE RestoreFile(w)
  <2>1. /\ pc' = "undo-boot" /\ left > 0 /\ left' = left - 1
        /\ record[w] = "written" /\ w \in undone'
        /\ \A t \in Transactions : t # w => (t \in undone' <=> t \in undone)
        /\ UNCHANGED <<record, marked>>
    BY <1>1, <1>5 DEF RestoreFile
  <2>2. backup[w] = found[w].boot
    BY <2>1 DEF Of, JournalOf
  <2>3. \A f \in File : boot'[f] = IF f = left THEN found[w].boot[f] ELSE boot[f]
    BY <1>5, <2>2 DEF RestoreFile, TypeInv
  <2>4. \A f \in File : /\ boot[f] \in {found[w].boot[f], medium[w]}
                        /\ f > marked[w] + 1 => boot[f] = found[w].boot[f]
    BY <2>1 DEF Of, FilesOf
  <2>5. JournalOf(w)'
    BY <1>1, <1>2, <2>1 DEF Of, JournalOf
  <2>6. GenerationOf(w)'
    BY <1>1, <1>2, <2>1 DEF Of, GenerationOf
  <2>7. \A f \in File : /\ boot'[f] \in {found[w].boot[f], medium[w]}
                        /\ f > marked[w] + 1 => boot'[f] = found[w].boot[f]
    BY <2>3, <2>4
  <2>8. \A f \in File :
           f > left - 1 /\ f <= marked[w] => boot'[f] = found[w].boot[f]
    BY <1>3, <1>4, <2>3
  <2>9. left - 1 <= marked[w]
    BY <1>3, <1>4
  <2>10. FilesOf(w)'
    BY <1>1, <1>2, <2>1, <2>7, <2>8, <2>9 DEF FilesOf
  <2>11. QED
    BY <1>1, <2>1, <2>5, <2>6, <2>10 DEF Of, Frame
<1>6. CASE BootUndone(w)
  <2>1. /\ pc' = "undo-corinth" /\ left = 0 /\ record[w] # "torn"
        /\ record'[w] = "absent" /\ marked'[w] = 0
        /\ \A t \in Transactions : t # w => /\ record'[t] = record[t]
                                            /\ marked'[t] = marked[t]
        /\ UNCHANGED <<boot, undone>>
    BY <1>6 DEF BootUndone, TypeInv
  <2>2. status[w] \in {"Applied", "Verified"} => w \in undone
    BY <1>1, <1>3, <2>1 DEF Of, FilesOf
  <2>3. JournalOf(w)'
    BY <1>1, <1>2, <2>1, <2>2 DEF Of, JournalOf
  <2>4. GenerationOf(w)'
    BY <1>1, <1>2, <2>1, <2>2 DEF Of, GenerationOf
  <2>5. Restored(w)
    <3>1. CASE record[w] # "written"
      BY <3>1 DEF Of, FilesOf
    <3>2. CASE record[w] = "written"
      <4>1. \A f \in File : /\ boot[f] \in {found[w].boot[f], medium[w]}
                            /\ f > marked[w] + 1 => boot[f] = found[w].boot[f]
        BY <3>2 DEF Of, FilesOf
      <4>2. \A f \in File : f > 0
        BY DEF File
      <4>3. \A f \in File : f # marked[w] + 1 => boot[f] = found[w].boot[f]
        <5>1. SUFFICES ASSUME NEW f \in File, f # marked[w] + 1
                       PROVE  boot[f] = found[w].boot[f]
          OBVIOUS
        <5>2. f \in Nat /\ f > left
          BY <1>3, <2>1, <4>2
        <5>3. f <= marked[w] \/ f > marked[w] + 1
          BY <1>3, <5>1, <5>2
        <5>4. QED
          BY <1>4, <4>1, <5>2, <5>3
      <4>4. QED
        BY <4>1, <4>3, RestoredBut
    <3>3. QED
      BY <3>1, <3>2
  <2>6. FilesOf(w)'
    BY <1>1, <1>2, <2>1, <2>2, <2>5 DEF FilesOf, Restored
  <2>7. QED
    BY <1>1, <2>1, <2>3, <2>4, <2>6 DEF Of, Frame
<1>7. QED
  BY <1>5, <1>6

\* rollback_corinth, which is not refused, and the journal.
LEMMA RolledBackOf ==
    ASSUME TypeInv, AuthorityInv, NEW w \in Transactions, tx = w, Of(w),
           \A t \in Transactions : status[t] \in Unsettled => t = w,
           UndoCorinth(w) \/ RefuseCorinth(w) \/ JournalRolledBack(w)
    PROVE  Of(w)' /\ Frame(w) /\ (pc' # "idle" => tx' = w)
<1>1. UNCHANGED <<medium, parent, previous, record, marked, backup, boot,
                  started, found, stacked, undone>>
  BY DEF UndoCorinth, RefuseCorinth, JournalRolledBack
<1>2. CASE UndoCorinth(w) \/ RefuseCorinth(w)
  <2>1. pc = "undo-corinth" /\ UNCHANGED status
    BY <1>2 DEF UndoCorinth, RefuseCorinth
  <2>2. active # found[w].active => active = medium[w]
                                    /\ parent[medium[w]] = found[w].active
    BY DEF Of, GenerationOf
  <2>3. pc' = "rolled-back" /\ tx' = w /\ active' = found[w].active
    BY <1>2, <2>2 DEF UndoCorinth, RefuseCorinth, Untouched, AuthorityInv
  <2>4. /\ status[w] \in Unsettled \cup {"Verified"} /\ record[w] = "absent"
        /\ status[w] \in {"Applied", "Verified"} => w \in undone
    BY <2>1 DEF Of, JournalOf
  <2>5. JournalOf(w)'
    BY <1>1, <2>1, <2>3, <2>4 DEF Of, JournalOf
  <2>6. GenerationOf(w)'
    BY <1>1, <2>1, <2>3, <2>4 DEF Of, GenerationOf
  <2>7. FilesOf(w)'
    BY <1>1, <2>1, <2>3, <2>4 DEF Of, FilesOf, Restored
  <2>8. QED
    BY <1>1, <2>1, <2>3, <2>5, <2>6, <2>7 DEF Of, Frame
<1>3. CASE JournalRolledBack(w)
  <2>1. /\ pc = "rolled-back" /\ UNCHANGED active
        /\ status'[w] = "RolledBack"
        /\ \A t \in Transactions : t # w => status'[t] = status[t]
    BY <1>3 DEF JournalRolledBack, TypeInv
  <2>2. \A t \in Transactions : status'[t] \notin Unsettled
    BY <2>1
  <2>3. pc' = "idle"
    BY <1>3, <2>2 DEF JournalRolledBack, NextEntry
  <2>4. active = found[w].active /\ record[w] = "absent"
    BY <2>1 DEF AuthorityInv, Of, JournalOf
  <2>5. JournalOf(w)'
    BY <1>1, <2>1, <2>3, <2>4 DEF Of, JournalOf
  <2>6. GenerationOf(w)'
    BY <1>1, <2>1, <2>3, <2>4 DEF Of, GenerationOf
  <2>7. FilesOf(w)'
    BY <1>1, <2>1, <2>3, <2>4 DEF Of, FilesOf, Restored
  <2>8. QED
    BY <1>1, <2>1, <2>3, <2>5, <2>6, <2>7 DEF Of, Frame
<1>4. QED
  BY <1>2, <1>3
LEMMA RunningCore ==
    ASSUME TypeInv, AuthorityInv, CoreInv, Continue \/ Interrupt
           \/ \E t \in Transactions : ActivationFails(t)
    PROVE  CoreInv' /\ started # << >> /\ Frame(Newest)
<1>1. pc # "idle"
  BY DEF Continue, Step, Interrupt, ActivationFails, Publish, JournalPublished,
         Activate, CreateRecord, WriteRecord, PlaceFile, MarkFile,
         JournalApplied, RefuseRecord, RestoreFile, BootUndone, UndoCorinth,
         RefuseCorinth, JournalRolledBack
<1>2. started # << >> /\ tx = Newest
  BY <1>1 DEF CoreInv, NewestInv
<1>3. PICK w \in Transactions : w = Newest
  BY <1>2, NewestStarted
<1>4. tx = w /\ Of(w)
  BY <1>2, <1>3 DEF CoreInv
<1>5. \A t \in Transactions : status[t] \in Unsettled => t = w
  BY <1>3 DEF CoreInv, NewestInv
<1>6. \/ Publish(w) \/ JournalPublished(w)
      \/ CreateRecord(w) \/ WriteRecord(w) \/ PlaceFile(w) \/ MarkFile(w)
      \/ JournalApplied(w) \/ ActivationFails(w) \/ Interrupt \/ RefuseRecord(w)
      \/ RestoreFile(w) \/ BootUndone(w)
      \/ UndoCorinth(w) \/ RefuseCorinth(w) \/ JournalRolledBack(w)
  BY <1>4
  DEF Continue, Step, ActivationFails, Publish, JournalPublished,
      Activate, CreateRecord, WriteRecord, PlaceFile, MarkFile,
      JournalApplied, RefuseRecord, RestoreFile, BootUndone, UndoCorinth,
      RefuseCorinth, JournalRolledBack
<1>7. Of(w)' /\ Frame(w) /\ (pc' # "idle" => tx' = w)
  BY <1>1, <1>4, <1>5, <1>6, PublishOf, ActivateOf, EndOf, RestoreOf,
     RolledBackOf
<1>8. CoreInv'
  BY <1>2, <1>3, <1>7, OnNewest
<1>9. QED
  BY <1>2, <1>3, <1>7, <1>8

\* A session verifies or rolls back its transaction; recover takes up the one
\* that is unsettled. All are the newest.
LEMMA IdleCore ==
    ASSUME TypeInv, CoreInv,
           Recover \/ \E t \in Transactions : Verify(t) \/ Rollback(t)
    PROVE  CoreInv' /\ started # << >> /\ Frame(Newest)
<1>1. ASSUME NEW t \in Transactions, Verify(t)
      PROVE  CoreInv' /\ started # << >> /\ Frame(Newest)
  <2>1. started # << >> /\ t = Newest /\ Of(t)
    BY <1>1 DEF Verify, Current, Newest, CoreInv
  <2>2. /\ status[t] = "Applied" /\ status'[t] = "Verified"
        /\ \A u \in Transactions : u # t => status'[u] = status[u]
    BY <1>1 DEF Verify, TypeInv
  <2>3. pc = "idle" /\ UNCHANGED <<medium, parent, previous, record, marked,
                                   backup, boot, active, started, found,
                                   stacked, undone, pc>>
    BY <1>1 DEF Verify
  <2>4. JournalOf(t)' /\ GenerationOf(t)'
    BY <2>1, <2>2, <2>3 DEF Of, JournalOf, GenerationOf
  <2>5. FilesOf(t)'
    BY <2>1, <2>2, <2>3 DEF Of, FilesOf, Restored
  <2>6. Of(t)' /\ Frame(t)
    BY <2>2, <2>3, <2>4, <2>5 DEF Of, Frame
  <2>7. QED
    BY <2>1, <2>3, <2>6, OnNewest
<1>2. ASSUME NEW t \in Transactions, StartUndo(t), pc = "idle",
             UNCHANGED <<fixedVars, journalVars, bootVars, active, history>>,
             started # << >>, t = Newest,
             status[t] \in Unsettled \cup {"Verified"}
      PROVE  CoreInv' /\ started # << >> /\ Frame(Newest)
  <2>1. Of(t)
    BY <1>2 DEF CoreInv
  <2>2. pc' = "undo-boot" /\ tx' = t /\ left' = marked[t]
    BY <1>2 DEF StartUndo
  <2>3. UNCHANGED <<medium, parent, status, previous, record, marked, backup,
                    boot, active, started, found, stacked, undone>>
    BY <1>2
  <2>4. JournalOf(t)' /\ GenerationOf(t)'
    BY <1>2, <2>1, <2>2, <2>3 DEF Of, JournalOf, GenerationOf
  <2>5. FilesOf(t)'
    <3>1. marked[t] \in Nat /\ File \subseteq Nat
      BY RecoveryAssumption DEF TypeInv, File
    <3>2. marked[t] <= marked[t] /\ \A f \in File : ~(f > marked[t] /\ f <= marked[t])
      BY <3>1
    <3>3. QED
      BY <2>1, <2>2, <2>3, <3>2 DEF Of, FilesOf, Restored
  <2>6. Of(t)' /\ Frame(t)
    BY <2>3, <2>4, <2>5 DEF Of, Frame
  <2>7. QED
    BY <1>2, <2>2, <2>6, OnNewest
<1>3. ASSUME NEW t \in Transactions, Rollback(t)
      PROVE  CoreInv' /\ started # << >> /\ Frame(Newest)
  <2>1. started # << >> /\ t = Newest
    BY <1>3 DEF Rollback, Current, Newest
  <2>2. QED
    BY <1>2, <1>3, <2>1 DEF Rollback
<1>4. ASSUME Recover
      PROVE  CoreInv' /\ started # << >> /\ Frame(Newest)
  <2>1. PICK t \in Transactions : NextEntry(t, 0, status) /\ StartUndo(t)
    BY <1>4 DEF Recover
  <2>2. status[t] \in Unsettled
    BY <2>1 DEF NextEntry
  <2>3. started # << >> /\ t = Newest
    BY <2>2 DEF CoreInv, NewestInv
  <2>4. QED
    BY <1>2, <1>4, <2>1, <2>2, <2>3 DEF Recover
<1>5. QED
  BY <1>1, <1>3, <1>4

\* Apply, on a settled target: the transaction it starts is the newest.
LEMMA BeginCore ==
    ASSUME TypeInv, CoreInv, NEW t \in Transactions, Begin(t), ~stacked'
    PROVE  /\ CoreInv'
           /\ \A u \in Transactions : status[u] \in Settled
           /\ \A i \in 1..Len(started) : started[i] \in Transactions \ {t}
           /\ Len(started) \in Nat /\ Len(started') = Len(started) + 1
           /\ \A i \in 1..Len(started) : started'[i] = started[i]
           /\ started'[Len(started) + 1] = t
<1> DEFINE n == Len(started)
<1>1. started \in Seq(Transactions) /\ n \in Nat /\ DOMAIN started = 1..n
  BY DEF TypeInv
<1>2. /\ started' = Append(started, t)
      /\ Len(started') = n + 1 /\ DOMAIN started' = 1..(n + 1)
      /\ \A i \in 1..n : started'[i] = started[i]
      /\ started'[n + 1] = t
  BY <1>1 DEF Begin
<1>3. \A i \in 1..n : started[i] \in Transactions \ {t}
  <2>1. ASSUME NEW i \in 1..n PROVE started[i] \in Transactions /\ started[i] # t
    BY <1>1, <2>1 DEF CoreInv, StartedInv, Begin
  <2>2. QED
    BY <2>1
<1>4. Newest' = t /\ started' # << >>
  BY <1>1, <1>2 DEF Newest
<1>5. \A u \in Transactions : status[u] \in Settled
  BY DEF Begin
<1>6. status'[t] = "Applying"
      /\ \A u \in Transactions : u # t => status'[u] = status[u]
  BY DEF Begin, TypeInv
<1>7. found'[t].boot = boot /\ found'[t].active = active
  BY DEF Begin, TypeInv
<1>8. /\ pc' = "publish" /\ tx' = t /\ status[t] = "Absent"
      /\ UNCHANGED <<medium, parent, record, marked, backup, boot, active, undone>>
  BY DEF Begin
<1>9. record[t] = "absent" /\ marked[t] = 0
  BY <1>8 DEF CoreInv, StartedInv
<1> HIDE DEF n
<1>10. StartedInv'
  <2>1. ASSUME NEW i \in 1..(n + 1), NEW j \in 1..(n + 1),
               started'[i] = started'[j]
        PROVE  i = j
    <3>1. i \in 1..n \/ i = n + 1
      BY <1>1
    <3>2. j \in 1..n \/ j = n + 1
      BY <1>1
    <3>3. CASE i \in 1..n /\ j \in 1..n
      BY <1>1, <1>2, <2>1, <3>3 DEF CoreInv, StartedInv
    <3>4. CASE i = n + 1 /\ j \in 1..n
      BY <1>2, <1>3, <2>1, <3>4
    <3>5. CASE i \in 1..n /\ j = n + 1
      BY <1>2, <1>3, <2>1, <3>5
    <3>6. QED
      BY <3>1, <3>2, <3>3, <3>4, <3>5
  <2>2. ASSUME NEW i \in 1..(n + 1) PROVE status'[started'[i]] # "Absent"
    <3>1. CASE i \in 1..n
      BY <1>1, <1>2, <1>3, <1>6, <3>1 DEF CoreInv, StartedInv
    <3>2. CASE i = n + 1
      BY <1>2, <1>6, <3>2
    <3>3. QED
      BY <1>1, <3>1, <3>2
  <2>3. ASSUME NEW u \in Transactions, status'[u] = "Absent"
        PROVE  record'[u] = "absent" /\ marked'[u] = 0
    BY <1>6, <1>8, <2>3 DEF CoreInv, StartedInv
  <2>4. QED
    BY <1>2, <2>1, <2>2, <2>3 DEF StartedInv
<1>11. NewestInv'
  BY <1>4, <1>5, <1>6, <1>8 DEF NewestInv
<1>12. Of(t)'
  <2>1. JournalOf(t)' /\ GenerationOf(t)'
    BY <1>6, <1>7, <1>8, <1>9 DEF JournalOf, GenerationOf
  <2>2. \A f \in File : boot'[f] = found'[t].boot[f]
    BY <1>7, <1>8
  <2>3. Restored(t)'
    <3>1. 1 \in File
      BY RecoveryAssumption DEF File
    <3>2. QED
      BY <2>2, <3>1 DEF Restored
  <2>4. FilesOf(t)'
    BY <1>6, <1>8, <1>9, <2>2, <2>3 DEF FilesOf
  <2>5. QED
    BY <2>1, <2>4 DEF Of
<1>13. n = Len(started)
  BY DEF n
<1>14. QED
  BY <1>1, <1>2, <1>3, <1>4, <1>5, <1>10, <1>11, <1>12, <1>13 DEF CoreInv
-----------------------------------------------------------------------------
\* No apply on an unsettled target: the chain of what each apply found

\* What the first k transactions left is not changed by later ones.
LEMMA ShowsKept ==
    ASSUME NEW k \in Nat, NEW b, NEW a, Shows(k, b, a),
           \A i \in 1..k : /\ InPlace(i)' <=> InPlace(i)
                           /\ medium'[started'[i]] = medium[started[i]]
    PROVE  Shows(k, b, a)'
<1>1. PICK j \in 0..k : LastOf(j, k) /\ a = GenerationAt(j) /\ Strayed(j, k, b)
  BY DEF Shows
<1>2. (j + 1)..k \subseteq 1..k /\ (j # 0 => j \in 1..k)
  OBVIOUS
<1>3. LastOf(j, k)'
  BY <1>1, <1>2 DEF LastOf
<1>4. GenerationAt(j)' = GenerationAt(j) /\ BootAt(j)' = BootAt(j)
  BY <1>2 DEF GenerationAt, BootAt
<1>5. Strayed(j, k, b)'
  <2>1. PICK stray \in [(j + 1)..k -> File] : \A f \in File :
           \/ b[f] = BootAt(j)
           \/ \E i \in (j + 1)..k : stray[i] = f /\ b[f] = medium[started[i]]
    BY <1>1 DEF Strayed
  <2>2. \A f \in File :
           \/ b[f] = BootAt(j)'
           \/ \E i \in (j + 1)..k : stray[i] = f /\ b[f] = medium'[started'[i]]
    BY <1>2, <1>4, <2>1
  <2>3. QED
    BY <2>1, <2>2 DEF Strayed
<1>6. QED
  BY <1>1, <1>3, <1>4, <1>5 DEF Shows

\* What a command does to the newest transaction is not in the chain.
LEMMA ChainKept ==
    ASSUME TypeInv, StartedInv, ChainInv, started # << >>, Frame(Newest)
    PROVE  ChainInv'
<1> DEFINE n == Len(started)
<1>1. started \in Seq(Transactions) /\ n \in Nat /\ n \in 1..n /\ DOMAIN started = 1..n
  BY NewestStarted DEF TypeInv
<1>0. n = Len(started)
  BY DEF n
<1> HIDE DEF n
<1>2. ASSUME NEW i \in 1..(n - 1)
      PROVE  /\ InPlace(i)' <=> InPlace(i)
             /\ TornAt(i)' <=> TornAt(i)
             /\ medium'[started'[i]] = medium[started[i]]
  <2>1. i \in 1..n /\ i # n
    BY <1>1
  <2>2. started[i] \in Transactions
    BY <1>1, <2>1
  <2>3. started[i] # Newest
    BY <1>1, <1>0, <2>1 DEF StartedInv, Newest
  <2>4. QED
    BY <2>2, <2>3 DEF InPlace, TornAt, Frame
<1>3. UNCHANGED <<started, found>>
  BY DEF Frame
<1>5. ASSUME NEW k \in 1..n, \A i \in 1..(k - 1) : ~TornAt(i)'
      PROVE  Shows(k - 1, found[started[k]].boot, found[started[k]].active)'
  <2>1. k - 1 \in Nat /\ 1..(k - 1) \subseteq 1..(n - 1)
    BY <1>1
  <2>2. PICK b, a : b = found[started[k]].boot /\ a = found[started[k]].active
    OBVIOUS
  <2>3. \A i \in 1..(k - 1) : ~TornAt(i)
    BY <1>2, <1>5, <2>1
  <2>4. Shows(k - 1, b, a)
    BY <1>0, <2>2, <2>3 DEF ChainInv
  <2>5. Shows(k - 1, b, a)'
    BY <1>2, <2>1, <2>4, ShowsKept
  <2>6. QED
    BY <1>3, <2>2, <2>5 DEF Shows, Strayed
<1>6. QED
  BY <1>3, <1>0, <1>5 DEF ChainInv

\* A transaction that is rolled back adds its own file to the strays.
LEMMA StrayAdded ==
    ASSUME NEW n \in Nat, n # 0, NEW j \in 0..(n - 1),
           Strayed(j, n - 1, found[started[n]].boot), Restored(started[n])
    PROVE  Strayed(j, n, boot)
<1> DEFINE w == started[n]
<1>1. PICK g \in File : /\ \A f \in File \ {g} : boot[f] = found[w].boot[f]
                        /\ boot[g] \in {found[w].boot[g], medium[w]}
  BY DEF Restored
<1>2. PICK stray \in [(j + 1)..(n - 1) -> File] : \A f \in File :
         \/ found[w].boot[f] = BootAt(j)
         \/ \E i \in (j + 1)..(n - 1) :
               stray[i] = f /\ found[w].boot[f] = medium[started[i]]
  BY DEF Strayed
<1> DEFINE next == [i \in (j + 1)..n |-> IF i = n THEN g ELSE stray[i]]
<1>3. /\ (j + 1)..n = (j + 1)..(n - 1) \cup {n}
      /\ n \notin (j + 1)..(n - 1)
  OBVIOUS
<1>4. next \in [(j + 1)..n -> File]
  BY <1>1, <1>2, <1>3
<1>5. next[n] = g /\ \A i \in (j + 1)..(n - 1) : next[i] = stray[i]
  BY <1>3
<1>6. w = started[n]
  BY DEF w
<1> HIDE DEF next, w
<1>7. ASSUME NEW f \in File
      PROVE  \/ boot[f] = BootAt(j)
             \/ \E i \in (j + 1)..n : next[i] = f /\ boot[f] = medium[started[i]]
  <2>1. CASE f = g /\ boot[f] = medium[w]
    BY <1>3, <1>5, <1>6, <2>1
  <2>2. CASE boot[f] = found[w].boot[f]
    BY <1>2, <1>3, <1>5, <2>2
  <2>3. QED
    BY <1>1, <2>1, <2>2
<1>8. QED
  BY <1>4, <1>7 DEF Strayed

\* A settled target shows the last transaction in place.
LEMMA Quiet ==
    ASSUME TypeInv, CoreInv, ChainInv,
           \A t \in Transactions : status[t] \in Settled,
           \A i \in 1..Len(started) : ~TornAt(i)
    PROVE  Shows(Len(started), boot, active)
<1>1. CASE started = << >>
  <2>1. boot = FreshBoot /\ active = NoMedium /\ Len(started) = 0
    BY <1>1 DEF CoreInv
  <2>2. 0 \in 0..0 /\ (0 + 1)..0 = {}
    OBVIOUS
  <2>3. Strayed(0, 0, boot)
    <3>1. [i \in {} |-> 1] \in [(0 + 1)..0 -> File]
      BY <2>2
    <3>2. \A f \in File : boot[f] = BootAt(0)
      BY <2>1 DEF FreshBoot, BootAt
    <3>3. QED
      BY <3>1, <3>2 DEF Strayed
  <2>4. LastOf(0, 0) /\ active = GenerationAt(0)
    BY <2>1, <2>2 DEF LastOf, GenerationAt
  <2>5. QED
    BY <2>1, <2>2, <2>3, <2>4 DEF Shows
<1>2. CASE started # << >>
  <2> DEFINE n == Len(started)
  <2>1. n \in Nat /\ n \in 1..n /\ n # 0 /\ DOMAIN started = 1..n
        /\ Newest \in Transactions
    BY <1>2, NewestStarted
  <2>2. started[n] = Newest
    BY DEF Newest
  <2>3. status[Newest] \in {"Verified", "RolledBack"}
    BY <2>1, <2>2 DEF CoreInv, StartedInv
  <2>4. Of(Newest)
    BY <1>2 DEF CoreInv
  <2>5. n = Len(started)
    BY DEF n
  <2> HIDE DEF n
  <2>6. CASE status[Newest] = "Verified"
    <3>1. InPlace(n) /\ ~TornAt(n)
      BY <2>1, <2>2, <2>5, <2>6 DEF InPlace
    <3>2. Newest \notin undone
      BY <2>2, <3>1 DEF TornAt
    <3>3. /\ active = medium[Newest]
          /\ \A f \in File : boot[f] = medium[Newest]
      BY <2>4, <2>6, <3>2 DEF Of, GenerationOf, FilesOf
    <3>4. active = GenerationAt(n) /\ \A f \in File : boot[f] = BootAt(n)
      BY <2>1, <2>2, <3>3 DEF GenerationAt, BootAt
    <3>5. (n + 1)..n = {} /\ n \in 0..n
      BY <2>1
    <3>6. Strayed(n, n, boot)
      <4>1. [i \in {} |-> 1] \in [(n + 1)..n -> File]
        BY <3>5
      <4>2. QED
        BY <3>4, <4>1 DEF Strayed
    <3>7. LastOf(n, n)
      BY <3>1, <3>5 DEF LastOf
    <3>8. Shows(n, boot, active)
      BY <3>4, <3>5, <3>6, <3>7 DEF Shows
    <3>9. QED
      BY <2>5, <3>8
  <2>7. CASE status[Newest] = "RolledBack"
    <3>1. active = found[Newest].active /\ record[Newest] = "absent"
      BY <2>4, <2>7 DEF Of, GenerationOf, JournalOf
    <3>2. Restored(started[n])
      BY <2>2, <2>4, <3>1 DEF Of, FilesOf
    <3>3. \A i \in 1..(n - 1) : ~TornAt(i)
      BY <2>1, <2>5
    <3>4. Shows(n - 1, found[started[n]].boot, found[started[n]].active)
      BY <2>1, <2>5, <3>3 DEF ChainInv
    <3>5. PICK j \in 0..(n - 1) : /\ LastOf(j, n - 1)
                                  /\ found[started[n]].active = GenerationAt(j)
                                  /\ Strayed(j, n - 1, found[started[n]].boot)
      BY <3>4 DEF Shows
    <3>6. ~InPlace(n)
      BY <2>2, <2>7 DEF InPlace
    <3>7. j \in 0..n /\ (j + 1)..n = (j + 1)..(n - 1) \cup {n}
      BY <2>1
    <3>8. LastOf(j, n)
      BY <3>5, <3>6, <3>7 DEF LastOf
    <3>9. Strayed(j, n, boot)
      BY <2>1, <3>2, <3>5, StrayAdded
    <3>10. active = GenerationAt(j)
      BY <2>2, <3>1, <3>5
    <3>11. Shows(n, boot, active)
      BY <3>7, <3>8, <3>9, <3>10 DEF Shows
    <3>12. QED
      BY <2>5, <3>11
  <2>8. QED
    BY <2>3, <2>6, <2>7
<1>3. QED
  BY <1>1, <1>2
\* Apply extends the chain by what it found.
LEMMA ChainExtended ==
    ASSUME TypeInv, CoreInv, ChainInv, NEW t \in Transactions, Begin(t), ~stacked'
    PROVE  ChainInv'
<1> DEFINE n == Len(started)
<1>1. /\ \A u \in Transactions : status[u] \in Settled
      /\ \A i \in 1..n : started[i] \in Transactions \ {t}
      /\ n \in Nat /\ Len(started') = n + 1
      /\ \A i \in 1..n : started'[i] = started[i]
      /\ started'[n + 1] = t
  BY BeginCore
<1>2. ASSUME NEW u \in Transactions \ {t}
      PROVE  status'[u] = status[u] /\ found'[u] = found[u]
  BY DEF Begin, TypeInv
<1>3. found'[t].boot = boot /\ found'[t].active = active
  BY DEF Begin, TypeInv
<1>4. UNCHANGED <<medium, undone>>
  BY DEF Begin
<1>5. n = Len(started)
  BY DEF n
<1> HIDE DEF n
<1>6. ASSUME NEW i \in 1..n
      PROVE  /\ InPlace(i)' <=> InPlace(i)
             /\ TornAt(i)' <=> TornAt(i)
             /\ medium'[started'[i]] = medium[started[i]]
             /\ found'[started'[i]] = found[started[i]]
  BY <1>1, <1>2, <1>4, <1>6 DEF InPlace, TornAt
<1>7. ASSUME NEW k \in 1..(n + 1), \A i \in 1..(k - 1) : ~TornAt(i)'
      PROVE  Shows(k - 1, found[started[k]].boot, found[started[k]].active)'
  <2>1. k - 1 \in Nat /\ 1..(k - 1) \subseteq 1..n
    BY <1>1
  <2>2. \A i \in 1..(k - 1) : ~TornAt(i)
    BY <1>6, <1>7, <2>1
  <2>3. PICK b, a : /\ b = found'[started'[k]].boot
                    /\ a = found'[started'[k]].active
    OBVIOUS
  <2>4. Shows(k - 1, b, a)
    <3>1. CASE k \in 1..n
      <4>1. Shows(k - 1, found[started[k]].boot, found[started[k]].active)
        BY <1>5, <2>2, <3>1 DEF ChainInv
      <4>2. b = found[started[k]].boot /\ a = found[started[k]].active
        BY <1>6, <2>3, <3>1
      <4>3. QED
        BY <4>1, <4>2
    <3>2. CASE k = n + 1
      <4>1. k - 1 = n
        BY <1>1, <3>2
      <4>2. \A i \in 1..Len(started) : ~TornAt(i)
        BY <1>5, <2>2, <4>1
      <4>3. Shows(n, boot, active)
        BY <1>1, <1>5, <4>2, Quiet
      <4>4. b = boot /\ a = active
        BY <1>1, <1>3, <2>3, <3>2
      <4>5. QED
        BY <4>1, <4>3, <4>4
    <3>3. QED
      BY <1>1, <3>1, <3>2
  <2>5. Shows(k - 1, b, a)'
    BY <1>6, <2>1, <2>4, ShowsKept
  <2>6. QED
    BY <2>3, <2>5 DEF Shows, Strayed
<1>8. QED
  BY <1>1, <1>5, <1>7 DEF ChainInv

-----------------------------------------------------------------------------
\* No apply on an unsettled target: the theorems

LEMMA InitCore == Init => CoreInv /\ ChainInv
<1> SUFFICES ASSUME Init PROVE CoreInv /\ ChainInv
  OBVIOUS
<1>1. started = << >> /\ Len(started) = 0 /\ DOMAIN started = {}
  BY DEF Init
<1>2. ChainInv
  BY <1>1 DEF ChainInv
<1>3. \A t \in Transactions : /\ status[t] = "Absent"
                              /\ record[t] = "absent" /\ marked[t] = 0
  BY DEF Init
<1>4. StartedInv
  BY <1>1, <1>3 DEF StartedInv
<1>5. NewestInv /\ boot = FreshBoot /\ active = NoMedium
  BY <1>3 DEF NewestInv, Init
<1>6. QED
  BY <1>1, <1>2, <1>4, <1>5 DEF CoreInv

LEMMA StepRecovery == RecoveryInv /\ [Next]_vars => RecoveryInv'
<1> SUFFICES ASSUME RecoveryInv, [Next]_vars PROVE RecoveryInv'
  OBVIOUS
<1>1. TypeInv /\ AuthorityInv /\ TypeInv' /\ AuthorityInv'
  BY StepTypes, StepAuthority DEF RecoveryInv
<1>2. ~stacked' => ~stacked
  <2>1. ASSUME NEW t \in Transactions, Begin(t)
        PROVE  ~stacked' => ~stacked
    BY <2>1 DEF Begin
  <2>2. ASSUME NEW t \in Transactions,
               \/ Publish(t) \/ JournalPublished(t)
               \/ CreateRecord(t) \/ WriteRecord(t) \/ PlaceFile(t) \/ MarkFile(t)
               \/ JournalApplied(t) \/ RefuseRecord(t) \/ RestoreFile(t)
               \/ BootUndone(t) \/ UndoCorinth(t) \/ RefuseCorinth(t)
               \/ JournalRolledBack(t) \/ ActivationFails(t) \/ Verify(t)
               \/ Rollback(t)
        PROVE  UNCHANGED stacked
    BY <2>2
    DEF Publish, JournalPublished, Activate, CreateRecord, WriteRecord,
        PlaceFile, MarkFile, JournalApplied, RefuseRecord, RestoreFile,
        BootUndone, UndoCorinth, RefuseCorinth, JournalRolledBack,
        ActivationFails, Verify, Rollback
  <2>3. CASE Recover \/ Interrupt \/ UNCHANGED vars
    BY <2>3 DEF Recover, Interrupt, vars
  <2>4. QED
    BY <2>1, <2>2, <2>3 DEF Next, Continue, Step
<1>3. ASSUME ~stacked'
      PROVE  CoreInv' /\ ChainInv'
  <2>1. CoreInv /\ ChainInv /\ StartedInv
    BY <1>2, <1>3 DEF RecoveryInv, CoreInv
  <2>2. ASSUME CoreInv', started # << >>, Frame(Newest)
        PROVE  CoreInv' /\ ChainInv'
    BY <1>1, <2>1, <2>2, ChainKept
  <2>3. CASE Continue \/ Interrupt \/ \E t \in Transactions : ActivationFails(t)
    BY <1>1, <2>1, <2>2, <2>3, RunningCore
  <2>4. CASE Recover \/ \E t \in Transactions : Verify(t) \/ Rollback(t)
    BY <1>1, <2>1, <2>2, <2>4, IdleCore
  <2>5. CASE \E t \in Transactions : Begin(t)
    BY <1>1, <1>3, <2>1, <2>5, BeginCore, ChainExtended
  <2>6. CASE UNCHANGED vars
    <3>1. started = << >> => ChainInv'
      BY <2>1, <2>6 DEF ChainInv, vars
    <3>2. CASE started # << >>
      <4>1. Frame(Newest)
        BY <2>6 DEF Frame, vars
      <4>2. PICK w \in Transactions : w = Newest
        BY <1>1, <3>2, NewestStarted
      <4>3. Of(w)
        BY <2>1, <3>2, <4>2 DEF CoreInv
      <4>4. Of(w)'
        BY <2>6, <4>3
        DEF Of, JournalOf, GenerationOf, FilesOf, Restored, vars
      <4>5. pc' # "idle" => tx' = w
        BY <2>1, <2>6, <4>2 DEF CoreInv, NewestInv, vars
      <4>6. CoreInv'
        BY <1>1, <2>1, <3>2, <4>1, <4>2, <4>4, <4>5, OnNewest
      <4>7. QED
        BY <2>2, <3>2, <4>1, <4>6
    <3>3. CASE started = << >>
      <4>1. CoreInv'
        BY <2>1, <2>6, <3>3 DEF CoreInv, StartedInv, NewestInv, vars
      <4>2. QED
        BY <3>1, <3>3, <4>1
    <3>4. QED
      BY <3>2, <3>3
  <2>7. QED
    BY <2>3, <2>4, <2>5, <2>6 DEF Next
<1>4. QED
  BY <1>1, <1>3 DEF RecoveryInv

\* As long as no apply began on an unsettled target: what runs and what is
\* unsettled is the newest transaction; the generation and each boot file are
\* what that one found or what its apply made of them, as its journal, its
\* record and the running command tell; and what each transaction found is
\* what the ones before it left, strays included.
THEOREM RecoveryInvariant == Spec => []RecoveryInv
<1>1. Init => RecoveryInv
  <2>1. Init => AuthorityInv
    BY DEF Init, AuthorityInv
  <2>2. QED
    BY <2>1, InitTypes, InitCore DEF RecoveryInv
<1>2. QED
  BY <1>1, StepRecovery, PTL DEF Spec

\* A rollback is journaled with the generation its apply found and with its
\* boot files but for one, which is the bundle's, never with what another
\* transaction's backup holds (rollback and recover), wherever faults cut
\* activations and rollbacks short, if no apply began on an unsettled target.
THEOREM RollbackRestoresFound == Spec => RolledBackToFound
<1>1. RecoveryInv /\ [Next]_vars =>
        \A t \in Transactions :
            ~stacked /\ status[t] # "RolledBack" /\ status'[t] = "RolledBack" =>
                /\ active = found[t].active
                /\ \E g \in File :
                      /\ \A f \in File \ {g} : boot[f] = found[t].boot[f]
                      /\ boot[g] \in {found[t].boot[g], medium[t]}
  <2> SUFFICES ASSUME TypeInv, AuthorityInv, CoreInv, [Next]_vars,
                      NEW t \in Transactions,
                      status[t] # "RolledBack", status'[t] = "RolledBack"
               PROVE  /\ active = found[t].active
                      /\ \E g \in File :
                            /\ \A f \in File \ {g} : boot[f] = found[t].boot[f]
                            /\ boot[g] \in {found[t].boot[g], medium[t]}
    BY DEF RecoveryInv
  <2>1. pc = "rolled-back" /\ tx = t
    BY JournalsRollback DEF JournalRolledBack
  <2>2. active = found[t].active
    BY <2>1 DEF AuthorityInv
  <2>3. Of(t)
    BY <2>1 DEF CoreInv, NewestInv
  <2>4. Restored(t)
    BY <2>1, <2>3 DEF Of, JournalOf, FilesOf
  <2>5. QED
    BY <2>2, <2>4 DEF Restored
<1>2. QED
  BY <1>1, RecoveryInvariant, PTL DEF Spec, RolledBackToFound

\* The chain ends in the last transaction in place.
LEMMA LastShown ==
    ASSUME TypeInv, NEW j \in 0..Len(started), LastOf(j, Len(started))
    PROVE  LastInPlace = j
<1> DEFINE n == Len(started)
           inPlace == {i \in DOMAIN started : status[started[i]] = "Verified"}
<1>1. n \in Nat /\ DOMAIN started = 1..n
  BY DEF TypeInv
<1>2. \A i \in 1..n : i \in inPlace <=> InPlace(i)
  BY <1>1 DEF InPlace
<1>3. inPlace \subseteq 1..n
  BY <1>1
<1>4. LastInPlace = IF inPlace = {} THEN 0
                    ELSE CHOOSE i \in inPlace : \A k \in inPlace : k <= i
  BY DEF LastInPlace
<1>5. j \in 0..n /\ (j # 0 => InPlace(j)) /\ \A i \in (j + 1)..n : ~InPlace(i)
  BY DEF LastOf
<1> HIDE DEF n, inPlace
<1>6. CASE j = 0
  BY <1>1, <1>2, <1>3, <1>4, <1>5, <1>6
<1>7. CASE j # 0
  <2>1. j \in inPlace
    BY <1>1, <1>2, <1>5, <1>7
  <2>2. \A i \in inPlace : i <= j
    <3>1. ASSUME NEW i \in inPlace, i > j PROVE FALSE
      <4>1. i \in (j + 1)..n
        BY <1>1, <1>3, <1>5, <3>1
      <4>2. QED
        BY <1>2, <1>3, <1>5, <4>1
    <3>2. QED
      BY <1>1, <1>3, <1>5, <3>1
  <2>3. \A i \in inPlace : (\A k \in inPlace : k <= i) => i = j
    BY <1>1, <1>3, <1>5, <2>1, <2>2
  <2>4. QED
    BY <1>4, <2>1, <2>2, <2>3
<1>8. QED
  BY <1>6, <1>7

\* When nothing runs, is unsettled or torn, the target is the work of the last
\* verified transaction, or as it was before the first, but for one boot file
\* at most of each transaction rolled back since: however often apply, rollback
\* and recover were cut short and run again, and whatever the media, recover
\* never takes a verified installation with it. If no apply began on an
\* unsettled target.
THEOREM QuietTargetIsLast == Spec => []QuietTargetExplained
<1>1. RecoveryInv => QuietTargetExplained
  <2> SUFFICES ASSUME TypeInv, CoreInv, ChainInv, ~Torn,
                      \A t \in Transactions : status[t] \in Settled
               PROVE  LET last == LastInPlace
                          later == (last + 1)..Len(started)
                      IN  /\ active = IF last = 0 THEN NoMedium
                                      ELSE medium[started[last]]
                          /\ \E stray \in [later -> File] :
                                \A f \in File :
                                   \/ boot[f] = IF last = 0 THEN "old"
                                                ELSE medium[started[last]]
                                   \/ \E i \in later :
                                         stray[i] = f
                                         /\ boot[f] = medium[started[i]]
    BY DEF RecoveryInv, QuietTargetExplained
  <2>1. \A i \in 1..Len(started) : started[i] \in Transactions
    BY DEF TypeInv
  <2>2. \A i \in 1..Len(started) : ~TornAt(i)
    BY <2>1 DEF Torn, TornAt, InPlace
  <2>3. PICK j \in 0..Len(started) :
           /\ LastOf(j, Len(started))
           /\ active = GenerationAt(j)
           /\ Strayed(j, Len(started), boot)
    BY <2>2, Quiet DEF Shows
  <2>4. LastInPlace = j
    BY <2>3, LastShown
  <2>5. QED
    BY <2>3, <2>4 DEF GenerationAt, BootAt, Strayed
<1>2. QED
  BY <1>1, RecoveryInvariant, PTL
=============================================================================
