--------------------------- MODULE TargetRecovery ---------------------------
(***************************************************************************)
(* Several transactions on one target, and `arach-install recover`, which  *)
(* rolls back the unsettled ones in the order the directory lists them     *)
(* (src/src/installer.rs).                                                 *)
(*                                                                         *)
(* A transaction comes from an installation medium, which carries one      *)
(* Corinth generation, built on a fixed parent, and one boot bundle; two   *)
(* transactions may come from the same medium. As in InstallTransaction    *)
(* one action is one durable effect and a command may end after any of     *)
(* them. Left to that module are the hardware packages, the copy of the    *)
(* journal under /run and the destinations that hold no file; the backups, *)
(* which nothing reads before there is a record, are taken in one step.    *)
(***************************************************************************)
EXTENDS Naturals, FiniteSets, Sequences

CONSTANTS
    TransactionCount,  \* transactions the target sees in its life
    Media,             \* installation media
    FileCount,         \* boot files of a bundle, in the order they are placed
    MaxFaults          \* bound on commands that fail or are interrupted, and
                       \* on applies begun on an unsettled target

\* No transaction, and no generation: none is active on a fresh target.
NoTransaction == 0
NoMedium == "none"

ASSUME RecoveryAssumption == /\ TransactionCount \in Nat
                             /\ NoMedium \notin Media
                             /\ FileCount \in Nat \ {0}
                             /\ MaxFaults \in Nat

\* Numbered in the order read_dir lists them; they start in any order.
Transactions == 1..TransactionCount

File == 1..FileCount

VARIABLES
    medium,    \* [Transactions -> Media]
    parent,    \* [Media -> generation its own is built on]
    status,    \* the journals on the target, "Absent" without a checkpoint
    previous,  \* the generation each journal names as the previous one
    record,    \* boot-mutation.json: "absent", "torn" or "written"
    marked,    \* how many of its entries are marked installed
    backup,    \* what the boot backups of each transaction hold
    boot,      \* the boot files: "old", or a medium's
    active,    \* the active generation: "none", or a medium's
    started,   \* history: transactions in the order apply began
    found,     \* history: what apply found, for each of them
    stacked,   \* history: an apply began while another was not settled
    undone,    \* history: transactions a rollback took a boot file from
    pc,        \* next effect of the running command, or "idle"
    tx,        \* the transaction it deals with
    left,      \* entries its rollback of the boot files has still to restore
    recovering,  \* it is recover, which goes on to the next one
    faults

fixedVars   == <<medium, parent>>
journalVars == <<status, previous>>
bootVars    == <<record, marked, backup, boot>>
history     == <<started, found, stacked, undone>>
command     == <<tx, left, recovering>>
vars == <<fixedVars, journalVars, bootVars, active, history, pc, command,
          faults>>

Unsettled == {"Applying", "CorinthPublished", "ApplyFailed", "Applied"}
Settled == {"Absent", "Verified", "RolledBack"}
Activating == {"activate", "record", "place", "mark"}

FreshBoot == [f \in File |-> "old"]

Init ==
    /\ medium \in [Transactions -> Media]
    /\ parent \in [Media -> Media \cup {NoMedium}]
    /\ \A m \in Media : parent[m] # m
    /\ status = [t \in Transactions |-> "Absent"]
    /\ previous = [t \in Transactions |-> NoMedium]
    /\ record = [t \in Transactions |-> "absent"]
    /\ marked = [t \in Transactions |-> 0]
    /\ backup = [t \in Transactions |-> FreshBoot]
    /\ boot = FreshBoot
    /\ active = NoMedium
    /\ started = << >>
    /\ found = [t \in Transactions |-> [boot |-> FreshBoot, active |-> NoMedium]]
    /\ stacked = FALSE
    /\ undone = {}
    /\ pc = "idle"
    /\ tx = NoTransaction
    /\ left = 0
    /\ recovering = FALSE
    /\ faults = 0

\* The one transaction of which an installation session has the documents.
Current(t) == started # << >> /\ t = started[Len(started)]

Running(t, at) == pc = at /\ tx = t

End == pc' = "idle" /\ tx' = NoTransaction /\ left' = 0 /\ recovering' = FALSE

-----------------------------------------------------------------------------
\* apply

\* The checkpoint, with the generation found active as the previous one. That
\* another transaction is not settled keeps nobody from it.
Begin(t) ==
    /\ pc = "idle"
    /\ status[t] = "Absent"
    /\ status' = [status EXCEPT ![t] = "Applying"]
    /\ previous' = [previous EXCEPT ![t] = active]
    /\ started' = Append(started, t)
    /\ found' = [found EXCEPT ![t] = [boot |-> boot, active |-> active]]
    /\ \/ /\ \A u \in Transactions : status[u] \in Settled
          /\ UNCHANGED <<stacked, faults>>
       \/ /\ \E u \in Transactions : status[u] \in Unsettled
          /\ faults < MaxFaults
          /\ faults' = faults + 1
          /\ stacked' = TRUE
    /\ pc' = "publish"
    /\ tx' = t
    /\ UNCHANGED <<fixedVars, bootVars, active, undone, left, recovering>>

\* Corinth takes a generation built on the active one, or the active one.
Publishable(t) == active \in {parent[medium[t]], medium[t]}

Publish(t) ==
    /\ Running(t, "publish")
    /\ \/ /\ Publishable(t)
          /\ active' = medium[t]
          /\ pc' = "published"
          /\ UNCHANGED command
       \/ /\ ~Publishable(t)
          /\ End
          /\ UNCHANGED active
    /\ UNCHANGED <<fixedVars, journalVars, bootVars, history, faults>>

JournalPublished(t) ==
    /\ Running(t, "published")
    /\ status' = [status EXCEPT ![t] = "CorinthPublished"]
    /\ pc' = "activate"
    /\ UNCHANGED <<fixedVars, previous, bootVars, active, history, command, faults>>

\* A step of activate_boot_bundle. A record that is there refuses it, which
\* no apply meets: it activates once.
Activate(t, from, to) ==
    /\ Running(t, from)
    /\ pc' = to
    /\ UNCHANGED <<fixedVars, journalVars, active, history, command, faults>>

\* create_private opens the record under its own name, empty.
CreateRecord(t) ==
    /\ Activate(t, "activate", "record")
    /\ record' = [record EXCEPT ![t] = "torn"]
    /\ UNCHANGED <<marked, backup, boot>>

\* Mutant: the backup is taken of what will be installed.
BackupInstalled(t) ==
    /\ Activate(t, "record", "place")
    /\ record' = [record EXCEPT ![t] = "written"]
    /\ backup' = [backup EXCEPT ![t] = [f \in File |-> medium[t]]]
    /\ UNCHANGED <<marked, boot>>

\* It is filled and fsynced, no entry marked; it names the backups.
WriteRecord(t) ==
    /\ Activate(t, "record", "place")
    /\ record' = [record EXCEPT ![t] = "written"]
    /\ backup' = [backup EXCEPT ![t] = boot]
    /\ UNCHANGED <<marked, boot>>

\* atomic_target_file renames the next file into place, and the record is
\* rewritten with its entry marked.
PlaceFile(t) ==
    /\ Activate(t, "place", "mark")
    /\ marked[t] < FileCount
    /\ boot' = [boot EXCEPT ![marked[t] + 1] = medium[t]]
    /\ UNCHANGED <<record, marked, backup>>

MarkFile(t) ==
    /\ Activate(t, "mark", "place")
    /\ marked' = [marked EXCEPT ![t] = @ + 1]
    /\ UNCHANGED <<record, backup, boot>>

JournalApplied(t) ==
    /\ Running(t, "place")
    /\ marked[t] = FileCount
    /\ status' = [status EXCEPT ![t] = "Applied"]
    /\ End
    /\ UNCHANGED <<fixedVars, previous, bootVars, active, history, faults>>

Verify(t) ==
    /\ pc = "idle"
    /\ Current(t)
    /\ status[t] = "Applied"
    /\ \A f \in File : boot[f] = medium[t]
    /\ status' = [status EXCEPT ![t] = "Verified"]
    /\ UNCHANGED <<fixedVars, previous, bootVars, active, history, pc,
                   command, faults>>

-----------------------------------------------------------------------------
\* rollback and recover

\* A rollback begins with the boot files its record has marked.
StartUndo(t) == pc' = "undo-boot" /\ tx' = t /\ left' = marked[t]

Rollback(t) ==
    /\ pc = "idle"
    /\ Current(t)
    /\ status[t] \in Unsettled \cup {"Verified"}
    /\ StartUndo(t)
    /\ recovering' = FALSE
    /\ UNCHANGED <<fixedVars, journalVars, bootVars, active, history, faults>>

\* Mutant: only the first entry is looked at.
FirstOnly(t, place, journals) == t = 1 /\ journals[t] \in Unsettled

\* The entry recover comes to after a place in the directory. The status of
\* each is read when its turn comes.
NextEntry(t, place, journals) ==
    /\ t > place
    /\ journals[t] \in Unsettled
    /\ \A u \in Transactions : u > place /\ journals[u] \in Unsettled => t <= u

Recover ==
    /\ pc = "idle"
    /\ \E t \in Transactions : NextEntry(t, 0, status) /\ StartUndo(t)
    /\ recovering' = TRUE
    /\ UNCHANGED <<fixedVars, journalVars, bootVars, active, history, faults>>

\* rollback_boot_bundle cannot read a record that was cut off: the error ends
\* rollback, and the recover it is part of. Nothing ever removes the record.
RefuseRecord(t) ==
    /\ Running(t, "undo-boot")
    /\ record[t] = "torn"
    /\ End
    /\ UNCHANGED <<fixedVars, journalVars, bootVars, active, history, faults>>

\* The marked entries, from the last to the first, get their backups again.
RestoreFile(t) ==
    /\ Running(t, "undo-boot")
    /\ record[t] = "written"
    /\ left > 0
    /\ boot' = [boot EXCEPT ![left] = backup[t][left]]
    /\ left' = left - 1
    /\ undone' = undone \cup {t}
    /\ UNCHANGED <<fixedVars, journalVars, record, marked, backup, active,
                   started, found, stacked, pc, tx, recovering, faults>>

\* The record goes last; without one there is nothing to undo.
BootUndone(t) ==
    /\ Running(t, "undo-boot")
    /\ record[t] # "torn"
    /\ left = 0
    /\ record' = [record EXCEPT ![t] = "absent"]
    /\ marked' = [marked EXCEPT ![t] = 0]
    /\ pc' = "undo-corinth"
    /\ UNCHANGED <<fixedVars, journalVars, backup, boot, active, history,
                   command, faults>>

\* Mutant: the published generation is left active.
PublicationKept(t) == TRUE

\* rollback_corinth has nothing to do.
Untouched(t) == active = previous[t]

UndoCorinth(t) ==
    /\ Running(t, "undo-corinth")
    /\ \/ /\ Untouched(t)
          /\ pc' = "rolled-back"
          /\ UNCHANGED <<active, command>>
       \/ /\ ~Untouched(t)
          /\ active = medium[t]
          /\ active' = parent[medium[t]]
          /\ IF active' = previous[t]
             THEN pc' = "rolled-back" /\ UNCHANGED command
             ELSE End
    /\ UNCHANGED <<fixedVars, journalVars, bootVars, history, faults>>

\* Any other active generation ends rollback, and the recover it is part of.
RefuseCorinth(t) ==
    /\ Running(t, "undo-corinth")
    /\ ~Untouched(t)
    /\ active # medium[t]
    /\ End
    /\ UNCHANGED <<fixedVars, journalVars, bootVars, active, history, faults>>

\* The journal is rewritten, and recover goes on to its next entry.
JournalRolledBack(t) ==
    /\ Running(t, "rolled-back")
    /\ status' = [status EXCEPT ![t] = "RolledBack"]
    /\ \/ /\ recovering
          /\ \E u \in Transactions : NextEntry(u, t, status') /\ StartUndo(u)
          /\ UNCHANGED recovering
       \/ /\ ~recovering \/ \A u \in Transactions : ~NextEntry(u, t, status')
          /\ End
    /\ UNCHANGED <<fixedVars, previous, bootVars, active, history, faults>>

-----------------------------------------------------------------------------

\* activate_boot_bundle returned an error, which apply journals; the step
\* that failed may have had its effect.
ActivationFails(t) ==
    /\ pc \in Activating
    /\ tx = t
    /\ faults < MaxFaults
    /\ faults' = faults + 1
    /\ status' = [status EXCEPT ![t] = "ApplyFailed"]
    /\ End
    /\ UNCHANGED <<fixedVars, previous, bootVars, active, history>>

\* The running command ends here; what it made durable stays.
Interrupt ==
    /\ pc # "idle"
    /\ faults < MaxFaults
    /\ faults' = faults + 1
    /\ End
    /\ UNCHANGED <<fixedVars, journalVars, bootVars, active, history>>

Step(t) ==
    \/ Publish(t)
    \/ JournalPublished(t)
    \/ CreateRecord(t)
    \/ WriteRecord(t)
    \/ PlaceFile(t)
    \/ MarkFile(t)
    \/ JournalApplied(t)
    \/ RefuseRecord(t)
    \/ RestoreFile(t)
    \/ BootUndone(t)
    \/ UndoCorinth(t)
    \/ RefuseCorinth(t)
    \/ JournalRolledBack(t)

Continue == \E t \in Transactions : Step(t)

Next ==
    \/ Continue
    \/ \E t \in Transactions : \/ Begin(t)
                               \/ Verify(t)
                               \/ Rollback(t)
                               \/ ActivationFails(t)
    \/ Recover
    \/ Interrupt

Spec == Init /\ [][Next]_vars

\* A command goes on to its end or to a fault, and whoever restarts the
\* machine runs recover. Nobody is bound to begin, verify or roll back.
FairSpec == Spec /\ WF_vars(Continue) /\ WF_vars(Recover)

-----------------------------------------------------------------------------
\* Properties

\* If no apply began on an unsettled target, a transaction is rolled back to
\* what its apply found, not to what some other transaction's backup holds:
\* to the generation, and to the boot files but for one at most, which was
\* replaced just before a fault and not yet marked. That one is the bundle's.
RolledBackToFound ==
    [][\A t \in Transactions :
         ~stacked /\ status[t] # "RolledBack" /\ status'[t] = "RolledBack" =>
            /\ active = found[t].active
            /\ \E g \in File :
                  /\ \A f \in File \ {g} : boot[f] = found[t].boot[f]
                  /\ boot[g] \in {found[t].boot[g], medium[t]}]_vars

\* Stacked or not: a transaction whose boot files went back while another one
\* has the authority is refused, and not journaled rolled-back.
RolledBackHasAuthority ==
    [][\A t \in Transactions :
         status[t] # "RolledBack" /\ status'[t] = "RolledBack" =>
            active = found[t].active]_vars

\* The last of the transactions that are in place, in the order they were
\* applied; 0 if none is.
LastInPlace ==
    LET inPlace == {i \in DOMAIN started : status[started[i]] = "Verified"}
    IN  IF inPlace = {} THEN 0
        ELSE CHOOSE i \in inPlace : \A j \in inPlace : j <= i

\* A rollback of a verified transaction that was cut short, which recover
\* leaves alone (VerifiedRollbackFinishes of InstallTransaction).
Torn == \E t \in Transactions : status[t] = "Verified" /\ t \in undone

\* If no apply began on an unsettled target, when nothing runs, nothing is
\* unsettled and nothing torn: the target has the generation of the last
\* verified transaction, or none, as before the first; and so have the boot
\* files, but that each transaction rolled back since may have left one of
\* its own. Recover never takes a verified installation with it.
QuietTargetExplained ==
    pc = "idle" /\ ~stacked /\ ~Torn
       /\ (\A t \in Transactions : status[t] \in Settled) =>
        LET last == LastInPlace
            later == (last + 1)..Len(started)
        IN  /\ active = IF last = 0 THEN NoMedium ELSE medium[started[last]]
            /\ \E stray \in [later -> File] :
                  \A f \in File :
                     \/ boot[f] = IF last = 0 THEN "old"
                                  ELSE medium[started[last]]
                     \/ \E i \in later : stray[i] = f
                                        /\ boot[f] = medium[started[i]]

\* Recover, run again after every fault, settles every transaction, unless a
\* fault cut its record off or an apply began on an unsettled target.
RecoverSettlesAll ==
    \A t \in Transactions :
        status[t] \in Unsettled ~> \/ status[t] \in {"Verified", "RolledBack"}
                                  \/ record[t] = "torn"
                                  \/ stacked

\* What docs/INSTALLER.md says of recover, also of transactions that were
\* applied on top of one another, as long as no record is cut off.
RecoverSettlesStacked ==
    \A t \in Transactions :
        status[t] \in Unsettled ~>
            \/ status[t] \in {"Verified", "RolledBack"}
            \/ \E u \in Transactions : record[u] = "torn"
=============================================================================
