---------------------------- MODULE AtomicInstall ----------------------------
(***************************************************************************)
(* What an installation transaction promises about its target, without the *)
(* journal, the backups and the steps: the target is untouched, changes    *)
(* while the transaction is open, and is settled by verifying it, which    *)
(* needs the new package authority in place, or by restoring it, which     *)
(* needs the old one, no recorded package left, and at most one boot file  *)
(* astray. The files of a package are there before the receipt that        *)
(* records it, and only what is recorded is taken back.                    *)
(* An untouched and a restored target do not change.                       *)
(***************************************************************************)
EXTENDS Naturals

CONSTANTS File, Packages

VARIABLES outcome,      \* "untouched", "open", "verified" or "restored"
          published,    \* a new generation has the package authority
          provisioned,  \* packages whose files are on the target
          recorded,     \* those of them with a receipt
          replaced      \* boot files that differ from those before

vars == <<outcome, published, provisioned, recorded, replaced>>
target == <<published, provisioned, recorded, replaced>>

Init ==
    /\ outcome = "untouched"
    /\ published = FALSE
    /\ provisioned = {}
    /\ recorded = {}
    /\ replaced = {}

\* A package arrives, gets its receipt, or goes with its receipt.
Arrive(p) == provisioned' = provisioned \cup {p} /\ UNCHANGED recorded
Account(p) ==
    /\ p \in provisioned
    /\ recorded' = recorded \cup {p}
    /\ UNCHANGED provisioned
Leave(p) ==
    /\ p \in recorded
    /\ provisioned' = provisioned \ {p}
    /\ recorded' = recorded \ {p}

Open ==
    /\ outcome = "untouched"
    /\ outcome' = "open"
    /\ UNCHANGED target

\* One thing at a time changes, forwards or backwards.
Change ==
    /\ outcome \in {"open", "verified"}
    /\ \/ /\ published' \in BOOLEAN
          /\ UNCHANGED <<provisioned, recorded, replaced>>
       \/ /\ \E p \in Packages : Arrive(p) \/ Account(p) \/ Leave(p)
          /\ UNCHANGED <<published, replaced>>
       \/ /\ \E f \in File : replaced' \in {replaced \cup {f}, replaced \ {f}}
          /\ UNCHANGED <<published, provisioned, recorded>>
    /\ UNCHANGED outcome

Verify ==
    /\ outcome = "open"
    /\ published
    /\ replaced = File
    /\ outcome' = "verified"
    /\ UNCHANGED target

Restore ==
    /\ outcome \in {"open", "verified"}
    /\ ~published
    /\ recorded = {}
    /\ \A f, g \in replaced : f = g
    /\ outcome' = "restored"
    /\ UNCHANGED target

Next == Open \/ Change \/ Verify \/ Restore

Spec == Init /\ [][Next]_vars
=============================================================================
