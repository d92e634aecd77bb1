--------------------------- MODULE InstallJournal ---------------------------
(***************************************************************************)
(* The journal document of `arach-install` (src/src/installer.rs): what a  *)
(* journal records, which journals validate_journal accepts, and which     *)
(* statuses each command accepts.                                          *)
(*                                                                         *)
(* A transaction binds one plan to one target, so the digests, the         *)
(* transaction id and the target path, which load_bound_documents compares *)
(* byte for byte, are the same in every copy of the journal: a journal     *)
(* keeps only the fields that change.                                      *)
(***************************************************************************)
EXTENDS Naturals

CONSTANT Packages   \* the hardware packages a signed plan may ask for

\* Corinth generations, by what they are to this transaction: nothing
\* published yet, the generation found active by apply, the one the plan
\* intends, and one that some later package update publishes.
Generation == {"none", "prior", "intended", "later"}

Status == {"Absent", "Prepared", "Applying", "CorinthPublished",
           "ApplyFailed", "Applied", "Verified", "RolledBack"}

Mutation == {"hardware-provisioning", "corinth-generation", "boot-bundle",
             "hardware-provisioning:rolled-back",
             "corinth-generation:rolled-back", "boot-bundle:rolled-back"}

\* `mutations` is a Vec<String> whose order nothing reads: it is kept as the
\* number of times each name was pushed, which validate_journal counts.
Journal == [status    : Status,
            target    : BOOLEAN,
            previous  : Generation,
            published : BOOLEAN,
            packages  : SUBSET Packages,
            mutations : [Mutation -> Nat]]

Blank(status) == [status    |-> status,
                  target    |-> FALSE,
                  previous  |-> "none",
                  published |-> FALSE,
                  packages  |-> {},
                  mutations |-> [m \in Mutation |-> 0]]

\* No file under this path.
NoJournal == Blank("Absent")

\* The journal prepare writes.
PreparedJournal == Blank("Prepared")

Logged(j, m) == j.mutations[m] > 0

\* journal.mutations.push(m)
Push(j, m) == [j EXCEPT !.mutations[m] = @ + 1]

\* A push that rollback makes unless the name is there already.
PushOnce(j, m) == IF Logged(j, m) THEN j ELSE Push(j, m)

\* The push that rollback makes for a mutation it undid.
PushUndone(j, m, undone) == IF Logged(j, m) THEN PushOnce(j, undone) ELSE j

-----------------------------------------------------------------------------

PublishedStatus == {"CorinthPublished", "ApplyFailed", "Applied", "Verified"}

CoherentPrepared(j) == j = PreparedJournal

CoherentApplying(j) ==
    /\ j.target
    /\ ~j.published
    /\ j.mutations["hardware-provisioning"] <= 1
    /\ j.mutations["hardware-provisioning:rolled-back"] = 0

CoherentPublished(j) ==
    /\ j.target
    /\ j.published
    /\ j.mutations["corinth-generation"] = 1
    /\ j.mutations["corinth-generation:rolled-back"] = 0
    /\ j.mutations["boot-bundle"] <= 1
    /\ j.mutations["boot-bundle:rolled-back"] = 0
    /\ j.mutations["hardware-provisioning"] <= 1
    /\ j.mutations["hardware-provisioning:rolled-back"] = 0

CoherentRolledBack(j) ==
    /\ j.target
    /\ ~j.published
    /\ j.mutations["corinth-generation:rolled-back"] = 1
    /\ j.mutations["corinth-generation"] <= 1
    /\ j.mutations["boot-bundle:rolled-back"] = j.mutations["boot-bundle"]
    /\ j.mutations["hardware-provisioning:rolled-back"]
         = j.mutations["hardware-provisioning"]

\* What validate_journal, and with it load_bound_documents, accepts. Every
\* command refuses to start from a journal that is not valid.
ValidJournal(j) ==
    \/ j.status = "Prepared" /\ CoherentPrepared(j)
    \/ j.status = "Applying" /\ CoherentApplying(j)
    \/ j.status \in PublishedStatus /\ CoherentPublished(j)
    \/ j.status = "RolledBack" /\ CoherentRolledBack(j)

\* The statuses rollback goes on from.
RollbackStatus == {"Prepared", "Applying", "CorinthPublished",
                   "ApplyFailed", "Applied", "Verified"}

\* Mutant: a failed apply is taken for one already dealt with.
RecoverStatusNoFailed == {"Prepared", "Applying", "CorinthPublished", "Applied"}

\* The statuses recover hands to rollback: a verified transaction is done.
RecoverStatus == {"Prepared", "Applying", "CorinthPublished",
                  "ApplyFailed", "Applied"}

Settled == {"Verified", "RolledBack"}
=============================================================================
