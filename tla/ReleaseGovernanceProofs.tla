----------------------- MODULE ReleaseGovernanceProofs -----------------------
(***************************************************************************)
(* Theorems of ReleaseGovernance for any gates, components, builds, policy *)
(* and length of history. The verifiers see one tree at a time; what holds *)
(* along a history follows from two facts no verifier looks at: records    *)
(* are not from the future, and the soak a record states is the time since *)
(* the very record it is promoted from, however either was edited.         *)
(***************************************************************************)
EXTENDS ReleaseGovernance, FiniteSetTheorems, WellFoundedInduction, TLAPS

\* The soak of a record is the time since its source was published.
SoakExact(rs) ==
    \A r \in rs : r.channel # "development" =>
        \A s \in Sources(rs, r) : r.soak = r.published - s.published

\* What a history keeps of the records.
History(rs) ==
    /\ rs \subseteq Release
    /\ IsFiniteSet(rs)
    /\ \A r \in rs : r.published <= now
    /\ SoakExact(rs)

GovernanceInv ==
    /\ TypeOK
    /\ Accepted(lock, ledger, releases)
    /\ History(releases)

-----------------------------------------------------------------------------
\* Times, channels and sources

LEMMA Elapsed ==
    ASSUME NEW t \in Time, NEW s \in Time, s <= t
    PROVE  t - s \in Time
<1>1. t \in Nat /\ s \in Nat /\ t - s \in 0..t
  BY PolicyAssumption
<1>2. QED
  BY <1>1, PolicyAssumption

LEMMA Channels ==
    /\ Previous["testing"] = "development"
    /\ Previous["stable"] = "testing"
    /\ \A c \in Channel \ {"development"} :
          Previous[c] \in Channel /\ Previous[c] # c
BY DEF Previous, Channel

\* The record a promotion is of is the only one numbered so in its channel.
LEMMA OneSource ==
    ASSUME NEW rs, UniqueSequences(rs), NEW r, NEW s \in Sources(rs, r),
           NEW t \in Sources(rs, r)
    PROVE  s = t
BY DEF UniqueSequences, Sources, InChannel

\* A valid promotion repeats the build of any record its number names.
LEMMA SourceBuild ==
    ASSUME NEW rs, UniqueSequences(rs), NEW r, PromotionValid(rs, r),
           NEW s \in Sources(rs, r)
    PROVE  r.build = s.build
BY OneSource DEF PromotionValid

-----------------------------------------------------------------------------
\* The invariant

LEMMA InitGovernance == Init => GovernanceInv
<1> SUFFICES ASSUME Init PROVE GovernanceInv
  OBVIOUS
<1>1. ledger \in Ledger
  BY DEF Init, Ledger
<1>2. History(releases)
  BY FS_EmptySet DEF Init, History, SoakExact
<1>3. QED
  BY <1>1, <1>2 DEF Init, GovernanceInv, TypeOK

\* A commit keeps the invariant if what it leaves has types and a history.
LEMMA CommitGovernance ==
    ASSUME GovernanceInv, NEW k \in Lock, NEW l \in Ledger, NEW rs,
           History(rs), Commit(k, l, rs)
    PROVE  GovernanceInv'
<1>1. History(rs)'
  BY DEF Commit, History, SoakExact, Sources, InChannel
<1>2. lock' = k /\ ledger' = l /\ releases' = rs /\ now' = now
  BY DEF Commit
<1>3. Accepted(k, l, rs)
  BY DEF Commit
<1>4. QED
  BY <1>1, <1>2, <1>3 DEF GovernanceInv, TypeOK, Accepted, History

\* A record of a new number in its channel, or promoted just now.
LEMMA AddedHistory ==
    ASSUME GovernanceInv, NEW r \in Release, r.published = now,
           \A s \in releases : s.channel = r.channel => s.sequence # r.sequence,
           r.channel # "development" =>
               \E s \in Sources(releases, r) : r.soak = now - s.published
    PROVE  History(releases \cup {r})
<1> DEFINE rs == releases \cup {r}
<1>0. /\ ChannelsValid(releases, Qualified(ledger))
      /\ History(releases)
      /\ now \in Nat
  BY PolicyAssumption DEF GovernanceInv, Accepted, TypeOK
<1>1. rs \subseteq Release /\ IsFiniteSet(rs)
  BY <1>0, FS_AddElement DEF History
<1>2. \A x \in rs : x.published <= now
  BY <1>0 DEF History
<1>3. ASSUME NEW x \in rs, x.channel # "development", NEW s \in Sources(rs, x)
      PROVE  x.soak = x.published - s.published
  <2>1. s \in rs /\ s.channel = Previous[x.channel] /\ s.sequence = x.from
    BY DEF Sources, InChannel
  <2>2. x.channel \in Channel
    BY <1>1 DEF Release
  <2>3. CASE x \in releases
    <3>1. PICK t \in Sources(releases, x) : x.build = t.build
      BY <1>0, <1>3, <2>3 DEF ChannelsValid, PromotionValid
    <3>2. t \in releases /\ t.channel = s.channel /\ t.sequence = s.sequence
      BY <2>1, <3>1 DEF Sources, InChannel
    <3>3. s \in releases
      BY <2>1, <3>2
    <3>4. s \in Sources(releases, x)
      BY <2>1, <3>3 DEF Sources, InChannel
    <3>5. QED
      BY <1>0, <1>3, <2>3, <3>4 DEF History, SoakExact
  <2>4. CASE x = r
    <3>1. s \in Sources(releases, r)
      BY <1>3, <2>1, <2>2, <2>4, Channels DEF Sources, InChannel
    <3>2. PICK t \in Sources(releases, r) : r.soak = now - t.published
      BY <1>3, <2>4
    <3>3. s = t
      BY <1>0, <3>1, <3>2, OneSource DEF ChannelsValid
    <3>4. QED
      BY <2>4, <3>2, <3>3
  <2>5. QED
    BY <2>3, <2>4
<1>4. QED
  BY <1>1, <1>2, <1>3 DEF History, SoakExact

\* A record replaced by one of another build. Nobody can be promoted from it
\* before and after: the build of a promotion is that of its source.
LEMMA ReplacedHistory ==
    ASSUME GovernanceInv, NEW r \in releases, NEW q \in Release,
           q.published = now, q.channel = r.channel, q.sequence = r.sequence,
           q.build # r.build,
           q.channel # "development" =>
               \E s \in Sources(releases, q) : q.soak = now - s.published,
           ChannelsValid((releases \ {r}) \cup {q}, Qualified(ledger))
    PROVE  History((releases \ {r}) \cup {q})
<1> DEFINE rs == (releases \ {r}) \cup {q}
<1>0. /\ ChannelsValid(releases, Qualified(ledger))
      /\ History(releases)
      /\ now \in Nat
  BY PolicyAssumption DEF GovernanceInv, Accepted, TypeOK
<1>1. rs \subseteq Release /\ IsFiniteSet(rs)
  BY <1>0, FS_AddElement, FS_RemoveElement DEF History
<1>2. \A x \in rs : x.published <= now
  BY <1>0 DEF History
<1>3. ASSUME NEW x \in rs, x.channel # "development", NEW s \in Sources(rs, x)
      PROVE  x.soak = x.published - s.published
  <2>1. s \in rs /\ s.channel = Previous[x.channel] /\ s.sequence = x.from
    BY DEF Sources, InChannel
  <2>2. x.channel \in Channel
    BY <1>1 DEF Release
  <2>3. CASE x \in releases /\ s \in releases
    <3>1. s \in Sources(releases, x)
      BY <2>1, <2>3 DEF Sources, InChannel
    <3>2. QED
      BY <1>0, <1>3, <2>3, <3>1 DEF History, SoakExact
  <2>4. CASE x \in releases /\ s = q
    <3>1. r \in Sources(releases, x)
      BY <2>1, <2>4 DEF Sources, InChannel
    <3>2. x.build = r.build
      BY <1>0, <1>3, <2>4, <3>1, SourceBuild DEF ChannelsValid
    <3>3. x.build = q.build
      BY <1>3, <2>4, SourceBuild DEF ChannelsValid
    <3>4. QED
      BY <3>2, <3>3
  <2>5. CASE x = q
    <3>1. s \in Sources(releases, q)
      BY <1>3, <2>1, <2>2, <2>5, Channels DEF Sources, InChannel
    <3>2. PICK t \in Sources(releases, q) : q.soak = now - t.published
      BY <1>3, <2>5
    <3>3. s = t
      BY <1>0, <3>1, <3>2, OneSource DEF ChannelsValid
    <3>4. QED
      BY <2>5, <3>2, <3>3
  <2>6. QED
    BY <2>1, <2>3, <2>4, <2>5
<1>4. QED
  BY <1>1, <1>2, <1>3 DEF History, SoakExact

\* An edit of the lock and the ledger alone.
LEMMA LedgerEdit ==
    ASSUME GovernanceInv, NEW k \in Lock, NEW l \in Ledger,
           Commit(k, l, releases)
    PROVE  GovernanceInv'
BY CommitGovernance DEF GovernanceInv

LEMMA LedgerGovernance == GovernanceInv /\ EditLedger => GovernanceInv'
<1> SUFFICES ASSUME GovernanceInv, EditLedger PROVE GovernanceInv'
  OBVIOUS
<1> USE DEF CommitLedger
<1>0. lock \in Lock /\ ledger \in Ledger
  BY DEF GovernanceInv, TypeOK
<1>1. ASSUME NEW g \in Gate, Qualify(g) \/ Block(g)
      PROVE  GovernanceInv'
  <2>1. \A b \in BOOLEAN : [ledger EXCEPT ![g].qualified = b] \in Ledger
    BY <1>0 DEF Ledger, GateRecord
  <2>2. QED
    BY <1>0, <1>1, <2>1, LedgerEdit DEF Qualify, Block
<1>2. ASSUME NEW g \in Gate, NEW gates \in SUBSET Gate, Redepend(g, gates)
      PROVE  GovernanceInv'
  <2>1. [ledger EXCEPT ![g].depends = gates] \in Ledger
    BY <1>0 DEF Ledger, GateRecord
  <2>2. QED
    BY <1>0, <1>2, <2>1, LedgerEdit DEF Redepend
<1>3. ASSUME NEW g \in Gate, NEW item \in Evidence,
             Capture(g, item) \/ Discard(g, item)
      PROVE  GovernanceInv'
  <2>1. /\ [ledger EXCEPT ![g].evidence = @ \cup {item}] \in Ledger
        /\ [ledger EXCEPT ![g].evidence = @ \ {item}] \in Ledger
    BY <1>0 DEF Ledger, GateRecord
  <2>2. QED
    BY <1>0, <1>3, <2>1, LedgerEdit DEF Capture, Discard
<1>4. ASSUME NEW c \in Locked, NEW revision \in Revision, MoveLock(c, revision)
      PROVE  GovernanceInv'
  <2> DEFINE item == [component |-> c, revision |-> revision]
             edited(g, recapture) == IF g \in recapture
                                     THEN Recaptured(ledger[g], item)
                                     ELSE ledger[g]
             after(block, recapture) ==
                 [g \in Gate |-> IF g \in block
                                 THEN [ledger[g] EXCEPT !.qualified = FALSE]
                                 ELSE edited(g, recapture)]
  <2>1. [lock EXCEPT ![c] = revision] \in Lock
    BY <1>0 DEF Lock
  <2>2. item \in Evidence
    BY DEF Evidence
  <2>3. ASSUME NEW g \in Gate
        PROVE  /\ ledger[g] \in GateRecord
               /\ [ledger[g] EXCEPT !.qualified = FALSE] \in GateRecord
               /\ Recaptured(ledger[g], item) \in GateRecord
    <3>1. ledger[g] \in GateRecord
      BY <1>0 DEF Ledger
    <3>2. QED
      BY <2>2, <3>1 DEF GateRecord, Recaptured
  <2> HIDE DEF item
  <2>4. \A block, recapture \in SUBSET Gate : after(block, recapture) \in Ledger
    BY <2>3 DEF Ledger
  <2> USE DEF item
  <2>5. PICK block \in SUBSET Gate, recapture \in SUBSET Gate :
           Commit([lock EXCEPT ![c] = revision], after(block, recapture),
                  releases)
    BY <1>4 DEF MoveLock
  <2> HIDE DEF after
  <2>6. QED
    BY <2>1, <2>4, <2>5, LedgerEdit
<1>5. QED
  BY <1>1, <1>2, <1>3, <1>4 DEF EditLedger

LEMMA ChannelsGovernance == GovernanceInv /\ EditChannels => GovernanceInv'
<1> SUFFICES ASSUME GovernanceInv, EditChannels PROVE GovernanceInv'
  OBVIOUS
<1> USE DEF CommitReleases
<1>0. /\ lock \in Lock /\ ledger \in Ledger /\ now \in Time
      /\ releases \subseteq Release /\ History(releases)
      /\ \A r \in releases : r.published \in Time /\ r.published <= now
      /\ \A r \in releases : now - r.published \in Time
  BY Elapsed DEF GovernanceInv, TypeOK, History, Release
<1>1. ASSUME NEW b \in Build, Publish(b)
      PROVE  GovernanceInv'
  <2>1. PICK n \in FreeSequence("development") :
           CommitReleases(releases \cup
               {[channel |-> "development", sequence |-> n, build |-> b,
                 published |-> now, from |-> NoSource, soak |-> 0]})
    BY <1>1 DEF Publish
  <2> DEFINE r == [channel |-> "development", sequence |-> n, build |-> b,
                   published |-> now, from |-> NoSource, soak |-> 0]
  <2>2. 0 \in Time
    BY <1>0, PolicyAssumption
  <2>3. r \in Release
    BY <1>0, <2>2 DEF Release, Channel, FreeSequence
  <2>4. \A s \in releases : s.channel = r.channel => s.sequence # r.sequence
    BY DEF FreeSequence, InChannel
  <2>5. r.published = now /\ r.channel = "development"
    OBVIOUS
  <2> HIDE DEF r
  <2>6. History(releases \cup {r})
    BY <2>3, <2>4, <2>5, AddedHistory
  <2>7. Commit(lock, ledger, releases \cup {r})
    BY <2>1 DEF r
  <2>8. QED
    BY <1>0, <2>6, <2>7, CommitGovernance
<1>2. ASSUME NEW s \in releases, NEW c \in Channel, NEW b \in Build,
             Promote(s, c, b)
      PROVE  GovernanceInv'
  <2>1. PICK n \in FreeSequence(c) :
           CommitReleases(releases \cup
               {[channel |-> c, sequence |-> n, build |-> b,
                 published |-> now, from |-> s.sequence,
                 soak |-> now - s.published]})
    BY <1>2 DEF Promote
  <2> DEFINE r == [channel |-> c, sequence |-> n, build |-> b,
                   published |-> now, from |-> s.sequence,
                   soak |-> now - s.published]
  <2>2. s.sequence \in Sequence
    BY <1>0 DEF Release
  <2>3. r \in Release
    BY <1>0, <2>2 DEF Release, FreeSequence
  <2>4. \A x \in releases : x.channel = r.channel => x.sequence # r.sequence
    BY DEF FreeSequence, InChannel
  <2>5. /\ r.published = now
        /\ s \in Sources(releases, r) /\ r.soak = now - s.published
    BY <1>2 DEF Promote, Sources, InChannel
  <2> HIDE DEF r
  <2>6. History(releases \cup {r})
    BY <2>3, <2>4, <2>5, AddedHistory
  <2>7. Commit(lock, ledger, releases \cup {r})
    BY <2>1 DEF r
  <2>8. QED
    BY <1>0, <2>6, <2>7, CommitGovernance
<1>3. ASSUME NEW r \in releases, NEW b \in Build, Respin(r, b)
      PROVE  GovernanceInv'
  <2>1. PICK q : /\ q \in Release
                 /\ q.published = now /\ q.channel = r.channel
                 /\ q.sequence = r.sequence /\ q.build # r.build
                 /\ q.channel # "development" =>
                       \E s \in Sources(releases, q) : q.soak = now - s.published
                 /\ CommitReleases((releases \ {r}) \cup {q})
    <3>0. r \in Release
      BY <1>0
    <3>1. CASE r.channel = "development"
      <4> DEFINE q == [r EXCEPT !.build = b, !.published = now]
      <4>1. q \in Release /\ q.published = now /\ q.channel = r.channel
            /\ q.sequence = r.sequence /\ q.build = b
        BY <1>0, <3>0 DEF Release
      <4>2. b # r.build /\ CommitReleases((releases \ {r}) \cup {q})
        BY <1>3, <3>1 DEF Respin
      <4> HIDE DEF q
      <4>3. QED
        BY <3>1, <4>1, <4>2
    <3>2. CASE r.channel # "development"
      <4>1. PICK s \in InChannel(releases, Previous[r.channel]) :
               CommitReleases((releases \ {r}) \cup
                   {[r EXCEPT !.build = b, !.published = now,
                              !.from = s.sequence, !.soak = Soak(r, s)]})
        BY <1>3, <3>2 DEF Respin
      <4> DEFINE q == [r EXCEPT !.build = b, !.published = now,
                                !.from = s.sequence, !.soak = Soak(r, s)]
      <4>2. /\ s \in releases /\ s.channel = Previous[r.channel]
            /\ s.sequence \in Sequence
            /\ Soak(r, s) \in Time /\ Soak(r, s) = now - s.published
        BY <1>0 DEF InChannel, Release, Soak
      <4>3. /\ q \in Release /\ q.published = now /\ q.channel = r.channel
            /\ q.sequence = r.sequence /\ q.build = b
            /\ q.from = s.sequence /\ q.soak = now - s.published
        BY <1>0, <3>0, <4>2 DEF Release
      <4>4. b # r.build /\ CommitReleases((releases \ {r}) \cup {q})
        BY <1>3, <3>2, <4>1 DEF Respin
      <4> HIDE DEF q
      <4>5. s \in Sources(releases, q)
        BY <4>2, <4>3 DEF Sources, InChannel
      <4>6. QED
        BY <4>3, <4>4, <4>5
    <3>3. QED
      BY <3>1, <3>2
  <2>2. Commit(lock, ledger, (releases \ {r}) \cup {q})
    BY <2>1
  <2>3. History((releases \ {r}) \cup {q})
    BY <2>1, <2>2, ReplacedHistory DEF Commit, Accepted
  <2>4. QED
    BY <1>0, <2>2, <2>3, CommitGovernance
<1>4. ASSUME NEW r \in releases, Withdraw(r)
      PROVE  GovernanceInv'
  <2>1. IsFiniteSet(releases \ {r})
    BY <1>0, FS_RemoveElement DEF History
  <2>2. History(releases \ {r})
    BY <1>0, <2>1 DEF History, SoakExact, Sources, InChannel
  <2>3. QED
    BY <1>0, <1>4, <2>2, CommitGovernance DEF Withdraw
<1>5. QED
  BY <1>1, <1>2, <1>3, <1>4 DEF EditChannels

LEMMA StepGovernance == GovernanceInv /\ [Next]_vars => GovernanceInv'
<1> SUFFICES ASSUME GovernanceInv, [Next]_vars PROVE GovernanceInv'
  OBVIOUS
<1>1. CASE Tick \/ UNCHANGED vars
  <2>1. /\ UNCHANGED <<lock, ledger, releases>>
        /\ now' \in Time
        /\ now \in Nat /\ now' >= now
    BY <1>1, PolicyAssumption DEF Tick, vars, GovernanceInv, TypeOK
  <2>2. \A r \in releases : r.published \in Nat
    BY PolicyAssumption DEF GovernanceInv, TypeOK, Release
  <2>3. History(releases)'
    BY <2>1, <2>2
    DEF GovernanceInv, TypeOK, History, SoakExact, Sources, InChannel
  <2>4. QED
    BY <2>1, <2>3 DEF GovernanceInv, TypeOK, Accepted
<1>2. QED
  BY <1>1, LedgerGovernance, ChannelsGovernance DEF Next

\* Every tree of every history is accepted, has its types, and its records
\* state the soak they had.
THEOREM GovernanceInvariant == Spec => []GovernanceInv
BY InitGovernance, StepGovernance, PTL DEF Spec

-----------------------------------------------------------------------------
\* What a history never shows

\* Every document of every accepted history has its types: no record is from
\* the future, and no soak is negative.
THEOREM GovernanceTypeCorrect == Spec => []TypeOK
<1>1. GovernanceInv => TypeOK
  BY DEF GovernanceInv
<1>2. QED
  BY <1>1, GovernanceInvariant, PTL

\* verify_release_channels.py compares the soak a record states with the
\* policy, and its source's build and time with its own, one tree at a time.
\* Along any history of accepted trees that is enough: the build of a release
\* was in each earlier channel, in a record still there, for as long as the
\* policy asks.
THEOREM BuildsSoaked == Spec => []SoakedInEachChannel
<1>1. GovernanceInv => SoakedInEachChannel
  <2> SUFFICES ASSUME GovernanceInv,
                      NEW r \in releases, r.channel # "development"
               PROVE  \E s \in releases :
                         /\ s.channel = Previous[r.channel]
                         /\ s.build = r.build
                         /\ r.published - s.published >= MinSoak[r.channel]
    BY DEF SoakedInEachChannel
  <2>1. PICK s \in Sources(releases, r) : r.build = s.build
    BY DEF GovernanceInv, Accepted, ChannelsValid, PromotionValid
  <2>2. r.soak = r.published - s.published
    BY <2>1 DEF GovernanceInv, History, SoakExact
  <2>3. r.soak >= MinSoak[r.channel]
    BY DEF GovernanceInv, Accepted, ChannelsValid, RecordValid
  <2>4. QED
    BY <2>1, <2>2, <2>3 DEF Sources, InChannel
<1>2. QED
  BY <1>1, GovernanceInvariant, PTL

\* The qualified gates have whatever the gates below them need, although each
\* verifier looks at direct dependencies alone.
LEMMA QualifiedBelow ==
    ASSUME DependenciesQualified(ledger), NEW g \in Qualified(ledger),
           \A x \in Gate : ledger[x].depends \subseteq Gate,
           NEW d \in Below([x \in Gate |-> ledger[x].depends], g)
    PROVE  d \in Qualified(ledger)
<1>1. Qualified(ledger) \in SUBSET Gate
  BY DEF Qualified
<1>2. \A x \in Qualified(ledger) :
         [y \in Gate |-> ledger[y].depends][x] \subseteq Qualified(ledger)
  BY DEF Qualified, DependenciesQualified
<1>3. QED
  BY <1>1, <1>2 DEF Below

\* A release stands, through any chain of dependencies, on gates that are
\* qualified on evidence of what the lock names now: whatever moves the lock
\* takes the release, or brings the evidence, in the same commit
\* (verify_production_readiness.py, verify_release_channels.py).
THEOREM ReleasesSupported == Spec => []ReleasesStandOnEvidence
<1>1. GovernanceInv => ReleasesStandOnEvidence
  <2> SUFFICES ASSUME GovernanceInv,
                      NEW r \in releases, NEW g \in Required[r.channel],
                      NEW d \in Below([x \in Gate |-> ledger[x].depends], g)
               PROVE  /\ ledger[d].qualified
                      /\ \E item \in ledger[d].evidence :
                            item.component \in Components[d]
                      /\ \A item \in ledger[d].evidence :
                            item.component \in Locked =>
                                item.revision = lock[item.component]
    BY DEF ReleasesStandOnEvidence
  <2>1. /\ ManifestValid(ledger, lock)
        /\ Required[r.channel] \subseteq Qualified(ledger)
        /\ \A x \in Gate : ledger[x].depends \subseteq Gate
    BY DEF GovernanceInv, Accepted, ChannelsValid, RecordValid, ManifestValid,
           ValidDependencies
  <2>2. d \in Gate /\ ledger[d].qualified
    BY <2>1, QualifiedBelow DEF ManifestValid, Qualified
  <2>3. QualifiedEvidence(ledger[d], lock) /\ EvidenceOfGate(d, ledger[d])
    BY <2>1, <2>2 DEF ManifestValid
  <2>4. QED
    BY <2>2, <2>3 DEF QualifiedEvidence, EvidenceOfGate, EvidenceIsCurrent
<1>2. QED
  BY <1>1, GovernanceInvariant, PTL

-----------------------------------------------------------------------------
\* Taking records back

\* A record nobody was promoted from can be withdrawn.
LEMMA FreeToGo ==
    ASSUME GovernanceInv, NEW r \in releases,
           \A x \in releases : x.channel # "development" =>
               r \notin Sources(releases, x)
    PROVE  Accepted(lock, ledger, releases \ {r})
<1> DEFINE rs == releases \ {r}
<1>0. /\ ChannelsValid(releases, Qualified(ledger))
      /\ ManifestValid(ledger, lock)
      /\ IsFiniteSet(releases)
  BY DEF GovernanceInv, Accepted, History
<1>1. UniqueSequences(rs) /\ \A x \in rs : RecordValid(x, Qualified(ledger))
  BY <1>0 DEF ChannelsValid, UniqueSequences
<1>2. ASSUME NEW c \in Channel
      PROVE  Cardinality(InChannel(rs, c)) <= Retained[c]
  <2>1. InChannel(rs, c) \in SUBSET InChannel(releases, c)
    BY DEF InChannel
  <2>2. InChannel(releases, c) \in SUBSET releases
    BY DEF InChannel
  <2>3. IsFiniteSet(InChannel(releases, c))
    BY <1>0, <2>2, FS_Subset
  <2>4. /\ Cardinality(InChannel(rs, c)) <= Cardinality(InChannel(releases, c))
        /\ IsFiniteSet(InChannel(rs, c))
    BY <2>1, <2>3, FS_Subset
  <2>5. Cardinality(InChannel(releases, c)) <= Retained[c]
    BY <1>0 DEF ChannelsValid, WithinRetention
  <2>6. /\ Cardinality(InChannel(rs, c)) \in Nat
        /\ Cardinality(InChannel(releases, c)) \in Nat
        /\ Retained[c] \in Nat
    BY <2>3, <2>4, FS_CardinalityType, PolicyAssumption
  <2>7. QED
    BY <2>4, <2>5, <2>6
<1>3. ASSUME NEW x \in rs, x.channel # "development"
      PROVE  PromotionValid(rs, x)
  <2>1. PICK s \in Sources(releases, x) :
           x.build = s.build /\ x.published >= s.published
    BY <1>0, <1>3 DEF ChannelsValid, PromotionValid
  <2>2. s \in Sources(rs, x)
    BY <1>3, <2>1 DEF Sources, InChannel
  <2>3. QED
    BY <2>1, <2>2 DEF PromotionValid
<1>4. QED
  BY <1>0, <1>1, <1>2, <1>3 DEF Accepted, ChannelsValid, WithinRetention

\* Records of a build that no higher record of the same build is from.
LEMMA LastOfBuild ==
    ASSUME GovernanceInv, NEW r \in releases,
           \A x \in releases :
               x.channel # "development" /\ Previous[x.channel] = r.channel =>
                   x.build # r.build
    PROVE  Accepted(lock, ledger, releases \ {r})
<1>1. ASSUME NEW x \in releases, x.channel # "development",
             r \in Sources(releases, x)
      PROVE  FALSE
  <2>1. x.build = r.build
    BY <1>1, SourceBuild DEF GovernanceInv, Accepted, ChannelsValid
  <2>2. Previous[x.channel] = r.channel
    BY <1>1 DEF Sources, InChannel
  <2>3. QED
    BY <1>1, <2>1, <2>2
<1>2. QED
  BY <1>1, FreeToGo

\* A published build can always be taken back, record by record: one of its
\* records, in the highest channel it reached, holds up no other record. The
\* verifier's rules, which refuse to drop the source of a promotion, never
\* lock a build in.
THEOREM BuildsCanBePulled == Spec => []EveryBuildCanBePulled
<1>1. GovernanceInv => EveryBuildCanBePulled
  <2> SUFFICES ASSUME GovernanceInv, NEW b \in Build,
                      \E r \in releases : r.build = b
               PROVE  \E r \in releases :
                         r.build = b /\ Accepted(lock, ledger, releases \ {r})
    BY DEF EveryBuildCanBePulled
  <2>0. \A r \in releases : r.channel \in Channel
    BY DEF GovernanceInv, TypeOK, Release
  <2>1. CASE \E r \in releases : r.build = b /\ r.channel = "stable"
    <3>1. PICK r \in releases : r.build = b /\ r.channel = "stable"
      BY <2>1
    <3>2. \A x \in releases : x.channel # "development" =>
                                 Previous[x.channel] # r.channel
      BY <2>0, <3>1 DEF Channel, Previous
    <3>3. QED
      BY <3>1, <3>2, LastOfBuild
  <2>2. CASE /\ ~\E r \in releases : r.build = b /\ r.channel = "stable"
             /\ \E r \in releases : r.build = b /\ r.channel = "testing"
    <3>1. PICK r \in releases : r.build = b /\ r.channel = "testing"
      BY <2>2
    <3>2. \A x \in releases :
             x.channel # "development" /\ Previous[x.channel] = r.channel =>
                 x.channel = "stable"
      BY <2>0, <3>1 DEF Channel, Previous
    <3>3. QED
      BY <2>2, <3>1, <3>2, LastOfBuild
  <2>3. CASE \A r \in releases : r.build = b => r.channel = "development"
    <3>1. PICK r \in releases : r.build = b
      OBVIOUS
    <3>2. QED
      BY <2>3, <3>1, LastOfBuild
  <2>4. QED
    BY <2>0, <2>1, <2>2, <2>3 DEF Channel
<1>2. QED
  BY <1>1, GovernanceInvariant, PTL

\* A full channel that keeps more records than the next one has a record no
\* record of the next one is from.
LEMMA UnpromotedRecord ==
    ASSUME GovernanceInv, NEW c \in Channel, NEW d \in {"testing", "stable"},
           Previous[d] = c, Retained[c] > Retained[d],
           ~(Cardinality(InChannel(releases, c)) < Retained[c])
    PROVE  \E r \in InChannel(releases, c) :
              \A x \in releases : x.channel # "development" =>
                  r \notin Sources(releases, x)
<1> DEFINE C == InChannel(releases, c)
           D == InChannel(releases, d)
<1>0. /\ ChannelsValid(releases, Qualified(ledger))
      /\ IsFiniteSet(releases)
      /\ \A r \in releases : r.channel \in Channel
      /\ d \in Channel /\ Retained[c] \in Nat /\ Retained[d] \in Nat
  BY PolicyAssumption
  DEF GovernanceInv, Accepted, History, TypeOK, Release, Channel
<1>1. C \in SUBSET releases /\ D \in SUBSET releases
  BY DEF InChannel
<1>2. /\ IsFiniteSet(C) /\ IsFiniteSet(D)
      /\ Cardinality(C) \in Nat /\ Cardinality(D) \in Nat
  BY <1>0, <1>1, FS_Subset, FS_CardinalityType
<1>3. Cardinality(D) <= Retained[d]
  BY <1>0 DEF ChannelsValid, WithinRetention
<1>4. Cardinality(D) < Cardinality(C)
  BY <1>0, <1>2, <1>3
<1>5. SUFFICES ASSUME \A r \in C : \E x \in releases :
                         x.channel # "development" /\ r \in Sources(releases, x)
               PROVE  FALSE
  OBVIOUS
<1>6. \A r \in C : \E x \in D : x.from = r.sequence
  <2> SUFFICES ASSUME NEW r \in C PROVE \E x \in D : x.from = r.sequence
    OBVIOUS
  <2>1. PICK x \in releases :
           x.channel # "development" /\ r \in Sources(releases, x)
    BY <1>5
  <2>2. Previous[x.channel] = c /\ x.from = r.sequence
    BY <2>1 DEF Sources, InChannel
  <2>3. x.channel = d
    BY <1>0, <2>1, <2>2 DEF Channel, Previous
  <2>4. QED
    BY <2>2, <2>3 DEF InChannel
<1> DEFINE promoted == [r \in C |-> CHOOSE x \in D : x.from = r.sequence]
<1>7. promoted \in [C -> D] /\ \A r \in C : promoted[r].from = r.sequence
  BY <1>6
<1> HIDE DEF promoted
<1>8. PICK r \in C, s \in C : r # s /\ promoted[r] = promoted[s]
  BY <1>2, <1>4, <1>7, FS_PigeonHole
<1>9. r.sequence = s.sequence /\ r.channel = s.channel
  BY <1>7, <1>8 DEF InChannel
<1>10. QED
  BY <1>0, <1>1, <1>8, <1>9 DEF ChannelsValid, UniqueSequences

\* A full channel is never stuck, if the policy has it retain more records
\* than the next: some record of it can be withdrawn. So the rule that keeps
\* the sources of promotions cannot stop releases for good.
THEOREM RoomIsLeft == Spec => []RetentionLeavesRoom
<1>1. GovernanceInv => RetentionLeavesRoom
  <2> SUFFICES ASSUME GovernanceInv, NEW c \in Channel,
                      \/ c = "stable"
                      \/ \E d \in {"testing", "stable"} :
                            Previous[d] = c /\ Retained[c] > Retained[d],
                      ~(Cardinality(InChannel(releases, c)) < Retained[c])
               PROVE  \E r \in InChannel(releases, c) :
                         Accepted(lock, ledger, releases \ {r})
    BY DEF RetentionLeavesRoom
  <2>0. \A r \in InChannel(releases, c) : r \in releases
    BY DEF InChannel
  <2>1. CASE c = "stable"
    <3>1. InChannel(releases, c) # {}
      BY PolicyAssumption, FS_EmptySet DEF PolicyValid
    <3>2. PICK r \in InChannel(releases, c) : TRUE
      BY <3>1
    <3>3. \A x \in releases : x.channel # "development" =>
             Previous[x.channel] # "stable"
      BY DEF GovernanceInv, TypeOK, Release, Channel, Previous
    <3>4. \A x \in releases : x.channel # "development" =>
             r \notin Sources(releases, x)
      BY <2>1, <3>2, <3>3 DEF Sources, InChannel
    <3>5. QED
      BY <2>0, <3>2, <3>4, FreeToGo
  <2>2. CASE \E d \in {"testing", "stable"} :
                Previous[d] = c /\ Retained[c] > Retained[d]
    BY <2>0, <2>2, UnpromotedRecord, FreeToGo
  <2>3. QED
    BY <2>1, <2>2
<1>2. QED
  BY <1>1, GovernanceInvariant, PTL

-----------------------------------------------------------------------------
\* The next gate

\* What a gate stands on is closed under dependencies, and the least such set.
LEMMA BelowIsLeast ==
    ASSUME NEW depends \in [Gate -> SUBSET Gate], NEW g \in Gate
    PROVE  /\ Below(depends, g) \in SUBSET Gate
           /\ g \in Below(depends, g)
           /\ \A x \in Below(depends, g) : depends[x] \subseteq Below(depends, g)
           /\ \A S \in SUBSET Gate :
                 g \in S /\ (\A x \in S : depends[x] \subseteq S) =>
                     Below(depends, g) \subseteq S
BY DEF Below

\* Without a cycle, some gate of any set of gates depends on no other of them:
\* one of those that stand on the fewest gates.
LEMMA SinkExists ==
    ASSUME NEW depends \in [Gate -> SUBSET Gate], ~HasCycle(depends),
           NEW U \in SUBSET Gate, U # {}
    PROVE  \E g \in U : depends[g] \cap U = {}
<1> DEFINE size(g) == Cardinality(Below(depends, g))
<1>1. \A g \in Gate : IsFiniteSet(Below(depends, g)) /\ size(g) \in Nat
  BY GateAssumption, BelowIsLeast, FS_Subset, FS_CardinalityType
<1>2. PICK g \in U : \A h \in U : size(g) <= size(h)
  <2> DEFINE sizes == {size(h) : h \in U}
             less == {p \in Nat \X Nat : p[1] < p[2]}
  <2>1. sizes \subseteq Nat /\ sizes # {}
    BY <1>1
  <2>2. IsWellFoundedOn(less, Nat)
    BY NatLessThanWellFounded DEF OpToRel
  <2> HIDE DEF sizes, less
  <2>3. PICK n \in sizes : \A k \in sizes : <<k, n>> \notin less
    BY <2>1, <2>2, WFMin
  <2>4. \A k \in sizes : n <= k
    <3>1. ASSUME NEW k \in sizes PROVE n <= k
      <4>1. k \in Nat /\ n \in Nat /\ <<k, n>> \notin less
        BY <2>1, <2>3
      <4>2. <<k, n>> \in Nat \X Nat /\ <<k, n>>[1] = k /\ <<k, n>>[2] = n
        BY <4>1
      <4>3. QED
        BY <4>1, <4>2 DEF less
    <3>2. QED
      BY <3>1
  <2> HIDE DEF size
  <2>5. QED
    BY <2>3, <2>4 DEF sizes
<1>3. ASSUME NEW d \in depends[g] \cap U PROVE FALSE
  <2>1. g \in Gate /\ d \in Gate
    OBVIOUS
  <2>2. Below(depends, d) \subseteq Below(depends, g)
    BY <1>3, <2>1, BelowIsLeast
  <2>3. size(g) <= size(d) /\ size(d) <= size(g) /\ size(g) \in Nat /\ size(d) \in Nat
    BY <1>1, <1>2, <1>3, <2>1, <2>2, FS_Subset
  <2> HIDE DEF size
  <2>4. size(g) = size(d)
    BY <2>3
  <2>5. Below(depends, d) = Below(depends, g)
    BY <1>1, <2>1, <2>2, <2>4, FS_Subset DEF size
  <2>6. g \in Below(depends, d)
    BY <2>1, <2>5, BelowIsLeast
  <2>7. QED
    BY <1>3, <2>1, <2>6 DEF HasCycle
<1>4. QED
  BY <1>3

\* However the dependencies are edited, a ledger that is not all qualified has
\* a gate that waits for no other: what detect_cycles refuses are all the
\* ledgers in which gates wait for each other (validate_manifest).
THEOREM NextGateExists == Spec => []SomeGateIsNext
<1>1. GovernanceInv => SomeGateIsNext
  <2> SUFFICES ASSUME GovernanceInv, ~ProductionReady(ledger)
               PROVE  \E g \in Gate : /\ ~ledger[g].qualified
                                      /\ \A d \in ledger[g].depends :
                                            ledger[d].qualified
    BY DEF SomeGateIsNext
  <2> DEFINE depends == [g \in Gate |-> ledger[g].depends]
             U == {g \in Gate : ~ledger[g].qualified}
  <2>1. \A g \in Gate : ledger[g].depends \subseteq Gate
    BY DEF GovernanceInv, Accepted, ManifestValid, ValidDependencies
  <2>2. depends \in [Gate -> SUBSET Gate] /\ ~HasCycle(depends)
    BY <2>1 DEF GovernanceInv, Accepted, ManifestValid, Acyclic
  <2>3. U # {}
    BY DEF ProductionReady
  <2> HIDE DEF depends
  <2>4. PICK g \in U : depends[g] \cap U = {}
    BY <2>2, <2>3, SinkExists
  <2>5. depends[g] = ledger[g].depends
    BY DEF depends
  <2>6. QED
    BY <2>1, <2>4, <2>5
<1>2. QED
  BY <1>1, GovernanceInvariant, PTL
=============================================================================
