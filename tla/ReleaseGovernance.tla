-------------------------- MODULE ReleaseGovernance --------------------------
(***************************************************************************)
(* The component lock, the readiness ledger and the release channels on    *)
(* the main branch, over time. Maintainers edit the documents, one edit a  *)
(* commit, and CI accepts a commit only if both verifiers accept the whole *)
(* tree (.github/workflows/readiness.yml). Neither verifier remembers a    *)
(* tree it saw before: what holds along a history follows from what each   *)
(* tree says of itself.                                                    *)
(*                                                                         *)
(* The maintainers are truthful, and in haste. A record carries the time   *)
(* it is published and the soak its source has had until then, evidence    *)
(* the revision it was captured on; but nothing but the verifiers keeps    *)
(* them from promoting too early, or another build, or withdrawing what is *)
(* still needed.                                                           *)
(***************************************************************************)
EXTENDS ReleaseChannels

VARIABLES
    now,
    lock,       \* components.lock.toml: the revision of each component
    ledger,     \* production/readiness.json
    releases    \* active_releases of production/release-channels.json

vars == <<now, lock, ledger, releases>>

\* Both verifiers accept the tree.
Accepted(k, l, rs) == ManifestValid(l, k) /\ ChannelsValid(rs, Qualified(l))

\* A commit that CI accepts.
Commit(k, l, rs) ==
    /\ Accepted(k, l, rs)
    /\ lock' = k
    /\ ledger' = l
    /\ releases' = rs
    /\ UNCHANGED now

CommitLedger(l) == Commit(lock, l, releases)
CommitReleases(rs) == Commit(lock, ledger, rs)

Init ==
    /\ now \in Time /\ \A t \in Time : now <= t
    /\ lock \in Lock
    /\ ledger \in [Gate -> {r \in GateRecord : ~r.qualified /\ r.evidence = {}}]
    /\ releases = {}
    /\ Accepted(lock, ledger, releases)

Tick ==
    /\ now + 1 \in Time
    /\ now' = now + 1
    /\ UNCHANGED <<lock, ledger, releases>>

-----------------------------------------------------------------------------
\* Edits of the ledger and the lock

\* A test campaign on any revision of a component, finished at any time.
Capture(g, item) ==
    /\ item \notin ledger[g].evidence
    /\ CommitLedger([ledger EXCEPT ![g].evidence = @ \cup {item}])

Discard(g, item) ==
    /\ item \in ledger[g].evidence
    /\ CommitLedger([ledger EXCEPT ![g].evidence = @ \ {item}])

Qualify(g) ==
    /\ ~ledger[g].qualified
    /\ CommitLedger([ledger EXCEPT ![g].qualified = TRUE])

Block(g) ==
    /\ ledger[g].qualified
    /\ CommitLedger([ledger EXCEPT ![g].qualified = FALSE])

Redepend(g, gates) ==
    /\ gates # ledger[g].depends
    /\ CommitLedger([ledger EXCEPT ![g].depends = gates])

\* The gate's evidence about the component is captured anew.
Recaptured(gate, item) ==
    [gate EXCEPT !.evidence =
        {e \in @ : e.component # item.component} \cup {item}]

\* A component moves to another revision. The same commit may block gates, and
\* bring evidence of the new revision for others.
MoveLock(c, revision) ==
    /\ revision # lock[c]
    /\ \E block, recapture \in SUBSET Gate :
           LET item == [component |-> c, revision |-> revision]
               edited(g) == IF g \in recapture THEN Recaptured(ledger[g], item)
                            ELSE ledger[g]
           IN  /\ block \cap recapture = {}
               /\ Commit([lock EXCEPT ![c] = revision],
                         [g \in Gate |-> IF g \in block
                                         THEN [ledger[g] EXCEPT !.qualified = FALSE]
                                         ELSE edited(g)],
                         releases)

-----------------------------------------------------------------------------
\* Edits of the channels

FreeSequence(c) == {n \in Sequence : \A r \in InChannel(releases, c) : r.sequence # n}

Publish(build) ==
    \E n \in FreeSequence("development") :
        CommitReleases(releases \cup
            {[channel |-> "development", sequence |-> n, build |-> build,
              published |-> now, from |-> NoSource, soak |-> 0]})

\* A record of a channel is promoted to the next one, as a build that may
\* have been made anew on the way.
Promote(source, c, build) ==
    /\ c # "development"
    /\ source.channel = Previous[c]
    /\ \E n \in FreeSequence(c) :
           CommitReleases(releases \cup
               {[channel |-> c, sequence |-> n, build |-> build,
                 published |-> now, from |-> source.sequence,
                 soak |-> now - source.published]})

\* Mutant: the soak of the record that is replaced counts too.
SoakTwice(r, source) == r.soak + now - source.published

Soak(r, source) == now - source.published

\* The record of a faulty release is replaced by one of another build, which
\* is promoted from a record that may be another one too.
Respin(r, build) ==
    /\ build # r.build
    /\ \/ /\ r.channel = "development"
          /\ CommitReleases((releases \ {r}) \cup
                 {[r EXCEPT !.build = build, !.published = now]})
       \/ /\ r.channel # "development"
          /\ \E source \in InChannel(releases, Previous[r.channel]) :
                 CommitReleases((releases \ {r}) \cup
                     {[r EXCEPT !.build = build, !.published = now,
                                !.from = source.sequence,
                                !.soak = Soak(r, source)]})

Withdraw(r) == CommitReleases(releases \ {r})

-----------------------------------------------------------------------------

EditLedger ==
    \/ \E g \in Gate : Qualify(g) \/ Block(g)
    \/ \E g \in Gate, gates \in SUBSET Gate : Redepend(g, gates)
    \/ \E g \in Gate, item \in Evidence : Capture(g, item) \/ Discard(g, item)
    \/ \E c \in Locked, revision \in Revision : MoveLock(c, revision)

EditChannels ==
    \/ \E b \in Build : Publish(b)
    \/ \E s \in releases, c \in Channel, b \in Build : Promote(s, c, b)
    \/ \E r \in releases, b \in Build : Respin(r, b)
    \/ \E r \in releases : Withdraw(r)

Next == Tick \/ EditLedger \/ EditChannels

Spec == Init /\ [][Next]_vars

-----------------------------------------------------------------------------
\* Properties

TypeOK ==
    /\ now \in Time
    /\ lock \in Lock
    /\ ledger \in Ledger
    /\ releases \subseteq Release

\* The build of a release has been in each earlier channel for as long as the
\* policy asks, by the times of records that are still retained: no edit of an
\* earlier record, in however many commits, takes the soak away again.
SoakedInEachChannel ==
    \A r \in releases : r.channel # "development" =>
        \E s \in releases :
            /\ s.channel = Previous[r.channel]
            /\ s.build = r.build
            /\ r.published - s.published >= MinSoak[r.channel]

\* Everything a release stands on, through any chain of dependencies, is
\* qualified on evidence of the revisions the lock names now.
ReleasesStandOnEvidence ==
    \A r \in releases : \A g \in Required[r.channel] :
        \A d \in Below([x \in Gate |-> ledger[x].depends], g) :
            /\ ledger[d].qualified
            /\ \E item \in ledger[d].evidence : item.component \in Components[d]
            /\ \A item \in ledger[d].evidence :
                   item.component \in Locked =>
                       item.revision = lock[item.component]

\* Whatever is published, a faulty build can be taken back record by record:
\* one of its records is always free to go.
EveryBuildCanBePulled ==
    \A b \in Build : (\E r \in releases : r.build = b) =>
        \E r \in releases :
            r.build = b /\ Accepted(lock, ledger, releases \ {r})

\* A channel that retains more than the next one is never so full of records
\* somebody was promoted from that no room can be made for another.
RetentionLeavesRoom ==
    \A c \in Channel :
        c = "stable" \/ (\E d \in {"testing", "stable"} :
                            Previous[d] = c /\ Retained[c] > Retained[d])
        => \/ Cardinality(InChannel(releases, c)) < Retained[c]
           \/ \E r \in InChannel(releases, c) :
                  Accepted(lock, ledger, releases \ {r})

\* However the dependencies are edited, a ledger that is not all qualified has
\* a gate that waits for no other.
SomeGateIsNext ==
    ProductionReady(ledger) \/
    \E g \in Gate : /\ ~ledger[g].qualified
                    /\ \A d \in ledger[g].depends : ledger[d].qualified
=============================================================================
