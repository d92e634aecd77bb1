--------------------------- MODULE ReleaseChannels ---------------------------
(***************************************************************************)
(* production/release-channels.json as verify_release_channels.py accepts  *)
(* it: the active releases of the three channels, under a policy.          *)
(*                                                                         *)
(* A build is the five fields a promotion may not change (revision, lock,  *)
(* package generation, image, signature). What a record says of itself     *)
(* alone (formats, digests, version, mirrors, advisory, evidence) is left  *)
(* out.                                                                    *)
(***************************************************************************)
EXTENDS ReadinessLedger, Naturals

CONSTANTS
    Build,
    Sequence,     \* sequence numbers, which tell the records of a channel apart
    Time,
    Retained,     \* retained_generations, by channel
    MinSoak,      \* minimum_soak_seconds, by channel
    Required      \* required_readiness_gates, by channel

Channel == {"development", "testing", "stable"}

Previous == [testing |-> "development", stable |-> "testing"]

NoSource == 0   \* promoted_from_sequence is null

\* What the verifier asks of the channels' policy itself.
PolicyValid ==
    /\ \A c \in Channel : Retained[c] >= 2
    /\ \A c \in Channel \ {"development"} : Required[c] # {}
    /\ \A c \in Channel : Required[c] \subseteq Gate

ASSUME PolicyAssumption ==
    /\ NoSource \notin Sequence
    /\ Time \subseteq Nat /\ \A t \in Time : 0..t \subseteq Time
    /\ Retained \in [Channel -> Nat]
    /\ MinSoak \in [Channel -> Nat]
    /\ Required \in [Channel -> SUBSET Gate]
    /\ PolicyValid

Release == [channel : Channel, sequence : Sequence, build : Build,
            published : Time, from : Sequence \cup {NoSource}, soak : Time]

InChannel(releases, c) == {r \in releases : r.channel = c}

\* Numbered r.from in the previous channel, if any.
Sources(releases, r) ==
    {s \in InChannel(releases, Previous[r.channel]) : s.sequence = r.from}

-----------------------------------------------------------------------------

RecordValid(r, qualified) ==
    /\ r.soak >= MinSoak[r.channel]
    /\ Required[r.channel] \subseteq qualified
    /\ (r.channel = "development") <=> (r.from = NoSource)

UniqueSequences(releases) ==
    \A r, s \in releases :
        r.channel = s.channel /\ r.sequence = s.sequence => r = s

\* Mutant: a channel may keep one more.
RetentionOffByOne(releases) ==
    \A c \in Channel : Cardinality(InChannel(releases, c)) <= Retained[c] + 1

WithinRetention(releases) ==
    \A c \in Channel : Cardinality(InChannel(releases, c)) <= Retained[c]

\* Mutant: the source need not be of the same build.
PromotionOfAnyBuild(releases, r) ==
    \E s \in Sources(releases, r) : r.published >= s.published

\* A promotion repeats the build of a record the previous channel retains,
\* and is not published before it.
PromotionValid(releases, r) ==
    \E s \in Sources(releases, r) :
        /\ r.build = s.build
        /\ r.published >= s.published

\* readiness_status reads the statuses alone.
Qualified(ledger) == {g \in Gate : ledger[g].qualified}

\* validate, given the qualified gates.
ChannelsValid(releases, qualified) ==
    /\ \A r \in releases : RecordValid(r, qualified)
    /\ UniqueSequences(releases)
    /\ WithinRetention(releases)
    /\ \A r \in releases :
           r.channel # "development" => PromotionValid(releases, r)
=============================================================================
