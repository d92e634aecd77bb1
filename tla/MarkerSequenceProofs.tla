------------------------ MODULE MarkerSequenceProofs ------------------------
(***************************************************************************)
(* Theorems of MarkerSequence for any markers, any lines, any number of    *)
(* verifiers and boots: the search is exact, evidence is of the log it     *)
(* names and is never replaced.                                            *)
(***************************************************************************)
EXTENDS MarkerSequence, TLAPS, WellFoundedInduction

Memory == [lines : Seq(Line), matches : Seq(1..MaxLines), hashed : Seq(Line),
           loadedBoot : 0..MaxBoots, hashedBoot : 0..MaxBoots]

\* The texts are as long as a log may be.
LengthInv ==
    /\ Len(log) <= MaxLines
    /\ \A v \in Verifier : Len(memory[v].lines) <= MaxLines

\* The loop: the markers so far are found in order, and in no way that the
\* markers are in the text is the last of them found earlier.
SearchInv ==
    \A v \in Verifier : pc[v] = "match" =>
        LET m == memory[v]
            n == Len(m.matches)
        IN  /\ n < Len(Markers)
            /\ \A i \in 1..n : /\ m.matches[i] \in DOMAIN m.lines
                               /\ m.lines[m.matches[i]] \in Markers[i]
                               /\ i > 1 => m.matches[i - 1] < m.matches[i]
            /\ n > 0 => \A places \in [DOMAIN Markers -> DOMAIN m.lines] :
                           Embeds(places, m.lines) => m.matches[n] <= places[n]

\* The text `new` begins with the text `old`.
Grown(old, new) ==
    /\ Len(old) <= Len(new)
    /\ \A i \in DOMAIN old : new[i] = old[i]

\* What a verifier knows of the log, as long as it is of one boot.
LogInv ==
    \A v \in Verifier :
        LET m == memory[v]
        IN  /\ m.loadedBoot <= boot
            /\ pc[v] = "match" /\ m.loadedBoot = boot => Grown(m.lines, log)
            /\ pc[v] \in {"report", "check", "hash"} /\ m.loadedBoot = boot =>
                  Embeds(m.matches, log)
            /\ pc[v] \in {"create", "fill"} /\ m.loadedBoot = m.hashedBoot =>
                  Embeds(m.matches, m.hashed)

\* Whoever fills the evidence created it, and nobody else did.
WriterInv ==
    /\ \A v \in Verifier : pc[v] = "fill" => evidence = Partial
    /\ \A v, u \in Verifier : pc[v] = "fill" /\ pc[u] = "fill" => v = u

MarkerInv == TypeOK /\ LengthInv /\ SearchInv /\ LogInv /\ WriterInv
                /\ EvidenceMatchesLog

-----------------------------------------------------------------------------

\* A set of lines has a first one.
LEMMA LeastIsLeast ==
    ASSUME NEW S, S \subseteq Nat, S # {}
    PROVE  Least(S) \in S /\ \A j \in S : Least(S) <= j
<1>1. IsWellFoundedOn({p \in Nat \X Nat : p[1] < p[2]}, Nat)
  BY NatLessThanWellFounded DEF OpToRel
<1>2. PICK i \in S : \A j \in S : <<j, i>> \notin {p \in Nat \X Nat : p[1] < p[2]}
  BY <1>1, WFMin
<1>3. ASSUME NEW j \in S PROVE i <= j
  <2>1. <<j, i>> \in Nat \X Nat /\ <<j, i>>[1] = j /\ <<j, i>>[2] = i
    OBVIOUS
  <2>2. ~(j < i)
    BY <1>2, <2>1
  <2>3. QED
    BY <2>2
<1>4. QED
  BY <1>3 DEF Least

\* A log that grows keeps what was found in it.
LEMMA EmbedsInGrown ==
    ASSUME NEW old \in Seq(Line), NEW new \in Seq(Line), NEW places,
           Grown(old, new), Embeds(places, old)
    PROVE  Embeds(places, new)
<1>1. DOMAIN old \subseteq DOMAIN new
  BY DEF Grown
<1>2. QED
  BY <1>1 DEF Grown, Embeds

LEMMA Grows ==
    ASSUME NEW text \in Seq(Line), NEW line \in Line
    PROVE  Grown(text, Append(text, line))
BY DEF Grown

\* What a verifier does leaves the log and the other verifiers alone.
LEMMA VerifierStep ==
    ASSUME NEW v \in Verifier, Load(v) \/ Proceed(v) \/ Kill(v), TypeOK
    PROVE  /\ UNCHANGED <<log, boot>>
           /\ \A u \in Verifier \ {v} : pc'[u] = pc[u] /\ memory'[u] = memory[u]
<1>1. /\ UNCHANGED <<log, boot>>
      /\ \E to : pc' = [pc EXCEPT ![v] = to]
      /\ \E m : memory' = [memory EXCEPT ![v] = m]
  <2>1. pc = [pc EXCEPT ![v] = pc[v]] /\ memory = [memory EXCEPT ![v] = memory[v]]
    BY DEF TypeOK
  <2>2. CASE Match(v)
    BY <2>1, <2>2 DEF Match, Goto, Remember
  <2>3. CASE Load(v) \/ WriteReport(v) \/ CheckAbsent(v)
    BY <2>1, <2>3 DEF Load, WriteReport, CheckAbsent, Goto, Remember
  <2>4. CASE HashLog(v) \/ Create(v) \/ Fill(v) \/ Kill(v)
    BY <2>1, <2>4 DEF HashLog, Create, Fill, Kill, Goto, Remember
  <2>5. QED
    BY <2>2, <2>3, <2>4 DEF Proceed
<1>2. QED
  BY <1>1 DEF TypeOK

-----------------------------------------------------------------------------
\* Types

LEMMA LastOfSeq ==
    ASSUME NEW S, NEW s \in Seq(S), s # <<>>
    PROVE  Len(s) \in Nat /\ Len(s) > 0 /\ s[Len(s)] \in S
<1>1. Len(s) \in Nat /\ Len(s) # 0
  OBVIOUS
<1>2. Len(s) \in 1..Len(s)
  BY <1>1
<1>3. QED
  BY <1>1, <1>2

\* The places the loop may take are lines of the text.
LEMMA NextArePlaces ==
    ASSUME TypeOK, LengthInv, NEW v \in Verifier
    PROVE  LET m == memory[v]
               next == NextMatches(m.lines, Marker(m), Cursor(m))
           IN  /\ m.lines \in Seq(Line) /\ DOMAIN m.lines = 1..Len(m.lines)
               /\ m.matches \in Seq(1..MaxLines) /\ Len(m.matches) \in Nat
               /\ Cursor(m) \in Nat
               /\ next \subseteq DOMAIN m.lines /\ next \subseteq 1..MaxLines
               /\ next # {} => Least(next) \in next /\ \A j \in next : Least(next) <= j
<1> DEFINE m == memory[v]
           next == NextMatches(m.lines, Marker(m), Cursor(m))
<1>1. m \in Memory /\ Len(m.lines) <= MaxLines /\ MaxLines \in Nat
  BY MarkerAssumption DEF TypeOK, Memory, LengthInv
<1>2. m.lines \in Seq(Line) /\ m.matches \in Seq(1..MaxLines)
  BY <1>1 DEF Memory
<1> HIDE DEF m
<1>3. Len(m.lines) \in Nat /\ DOMAIN m.lines = 1..Len(m.lines)
      /\ Len(m.matches) \in Nat
  BY <1>2
<1>4. Cursor(m) \in Nat
  <2>1. CASE m.matches = <<>>
    BY <2>1 DEF Cursor
  <2>2. CASE m.matches # <<>>
    <3>1. m.matches[Len(m.matches)] \in 1..MaxLines
      BY <1>2, <2>2, LastOfSeq
    <3>2. QED
      BY <1>1, <2>2, <3>1 DEF Cursor
  <2>3. QED
    BY <2>1, <2>2
<1>5. next \subseteq DOMAIN m.lines
  BY <1>3, <1>4 DEF NextMatches
<1>6. next \subseteq 1..MaxLines
  BY <1>1, <1>3, <1>5
<1> HIDE DEF next
<1>7. next # {} => Least(next) \in next /\ \A j \in next : Least(next) <= j
  <2>1. next \subseteq Nat
    BY <1>1, <1>6
  <2>2. QED
    BY <2>1, LeastIsLeast
<1>8. QED
  BY <1>2, <1>3, <1>4, <1>5, <1>6, <1>7 DEF m, next

LEMMA BlankTyped == Blank \in Memory
  BY MarkerAssumption DEF Blank, Memory

LEMMA InitMarkerTypes == Init => TypeOK /\ LengthInv
<1> SUFFICES ASSUME Init PROVE TypeOK /\ LengthInv
  OBVIOUS
<1>1. memory \in [Verifier -> Memory] /\ \A v \in Verifier : memory[v] = Blank
  BY BlankTyped DEF Init
<1>2. pc \in [Verifier -> {"idle", "match", "report", "check", "hash",
                           "create", "fill", "verified", "refused", "killed"}]
  BY DEF Init
<1>3. log = <<>> /\ boot = 1 /\ report = <<>> /\ evidence.state = "absent"
      /\ kills = 0
  BY DEF Init, Absent
<1>4. LengthInv
  BY <1>1, <1>3, MarkerAssumption DEF LengthInv, Blank
<1>5. QED
  BY <1>1, <1>2, <1>3, <1>4, MarkerAssumption DEF TypeOK, Memory

\* Every step keeps the types, and texts no longer than a log may be.
LEMMA StepMarkerTypes ==
    ASSUME TypeOK, LengthInv, [Next]_vars
    PROVE  TypeOK' /\ LengthInv'
<1> DEFINE Points == {"idle", "match", "report", "check", "hash",
                      "create", "fill", "verified", "refused", "killed"}
<1>1. /\ log \in Seq(Line) /\ boot \in 1..MaxBoots
      /\ report \in Seq(1..MaxLines)
      /\ evidence.state \in {"absent", "partial", "complete"}
      /\ pc \in [Verifier -> Points]
      /\ memory \in [Verifier -> Memory]
      /\ kills \in 0..MaxKills
      /\ MaxLines \in Nat /\ MaxKills \in Nat /\ MaxBoots \in Nat \ {0}
  BY MarkerAssumption DEF TypeOK, Memory
<1>2. ASSUME log' \in Seq(Line), boot' \in 1..MaxBoots,
             report' \in Seq(1..MaxLines),
             evidence'.state \in {"absent", "partial", "complete"},
             pc' \in [Verifier -> Points], memory' \in [Verifier -> Memory],
             kills' \in 0..MaxKills,
             Len(log') <= MaxLines,
             \A v \in Verifier : Len(memory'[v].lines) <= MaxLines
      PROVE  TypeOK' /\ LengthInv'
  BY <1>2 DEF TypeOK, Memory, LengthInv
\* A verifier remembers m, and comes to `to`.
<1>3. ASSUME NEW v \in Verifier, NEW m \in Memory, NEW to \in Points,
             Len(m.lines) <= MaxLines, Remember(v, m) \/ UNCHANGED memory,
             pc' = [pc EXCEPT ![v] = to] \/ UNCHANGED pc, UNCHANGED <<log, boot>>,
             report' \in Seq(1..MaxLines),
             evidence'.state \in {"absent", "partial", "complete"},
             kills' \in 0..MaxKills
      PROVE  TypeOK' /\ LengthInv'
  <2>1. pc' \in [Verifier -> Points]
    BY <1>1, <1>3
  <2>2. memory' \in [Verifier -> Memory]
    BY <1>1, <1>3 DEF Remember
  <2>3. \A u \in Verifier : memory'[u] = memory[u] \/ memory'[u] = m
    BY <1>1, <1>3 DEF Remember
  <2>4. \A u \in Verifier : Len(memory'[u].lines) <= MaxLines
    BY <1>3, <2>3 DEF LengthInv
  <2>5. QED
    BY <1>1, <1>2, <1>3, <2>1, <2>2, <2>4 DEF LengthInv
<1> HIDE DEF Points
<1>4. ASSUME NEW p \in {"match", "report", "check", "hash", "create", "fill",
                        "verified", "refused", "killed"}
      PROVE  p \in Points
  BY DEF Points
<1>5. Blank \in Memory /\ Len(Blank.lines) <= MaxLines
  BY <1>1, BlankTyped DEF Blank
<1>6. CASE \E line \in Line : WriteLine(line)
  <2>1. PICK line \in Line : WriteLine(line)
    BY <1>6
  <2>2. log' \in Seq(Line) /\ Len(log') <= MaxLines
    BY <1>1, <2>1 DEF WriteLine
  <2>3. UNCHANGED <<boot, report, evidence, pc, memory, kills>>
    BY <2>1 DEF WriteLine, files
  <2>4. QED
    BY <1>1, <1>2, <2>2, <2>3 DEF LengthInv
<1>7. CASE Boot
  <2>1. boot' \in 1..MaxBoots /\ log' = <<>>
    BY <1>1, <1>7 DEF Boot
  <2>2. UNCHANGED <<report, evidence, pc, memory, kills>>
    BY <1>7 DEF Boot, files
  <2>3. QED
    BY <1>1, <1>2, <2>1, <2>2 DEF LengthInv
<1>8. ASSUME NEW v \in Verifier, Load(v) PROVE TypeOK' /\ LengthInv'
  <2> DEFINE m == [Blank EXCEPT !.lines = log, !.loadedBoot = boot]
  <2>1. m \in Memory /\ Len(m.lines) <= MaxLines
    <3>1. boot \in 0..MaxBoots /\ Len(log) <= MaxLines
      BY <1>1 DEF LengthInv
    <3>2. m \in Memory
      BY <1>1, <1>5, <3>1 DEF Memory
    <3>3. m.lines = log
      BY <1>5 DEF Memory
    <3>4. QED
      BY <3>1, <3>2, <3>3
  <2>2. Remember(v, m) /\ pc' = [pc EXCEPT ![v] = "match"]
        /\ UNCHANGED <<log, boot, report, evidence, kills>>
    BY <1>8 DEF Load, Goto, files
  <2> HIDE DEF m
  <2>3. QED
    BY <1>1, <1>3, <1>4, <2>1, <2>2
<1>9. ASSUME NEW v \in Verifier, Match(v) PROVE TypeOK' /\ LengthInv'
  <2> DEFINE m == memory[v]
             next == NextMatches(m.lines, Marker(m), Cursor(m))
             taken == Append(m.matches, Least(next))
  <2>1. m \in Memory /\ Len(m.lines) <= MaxLines
    BY <1>1 DEF LengthInv
  <2>2. UNCHANGED <<log, boot, report, evidence, kills>>
    BY <1>9 DEF Match, files
  <2>3. next # {} => taken \in Seq(1..MaxLines)
    <3>1. m.matches \in Seq(1..MaxLines)
          /\ (next # {} => Least(next) \in 1..MaxLines)
      BY NextArePlaces
    <3> HIDE DEF m, next
    <3>2. QED
      BY <3>1
  <2>4. \/ /\ next # {}
           /\ pc[v] = "match" /\ UNCHANGED pc
           /\ Remember(v, [m EXCEPT !.matches = taken])
        \/ /\ next # {}
           /\ pc' = [pc EXCEPT ![v] = "report"]
           /\ Remember(v, [m EXCEPT !.lines = <<>>, !.matches = taken])
        \/ /\ pc' = [pc EXCEPT ![v] = "refused"]
           /\ Remember(v, Blank)
    BY <1>9 DEF Match, Goto
  <2> HIDE DEF m, next, taken
  <2>5. CASE /\ next # {}
             /\ pc[v] = "match" /\ UNCHANGED pc
             /\ Remember(v, [m EXCEPT !.matches = taken])
    <3>1. [m EXCEPT !.matches = taken] \in Memory
          /\ Len([m EXCEPT !.matches = taken].lines) <= MaxLines
      BY <2>1, <2>3, <2>5 DEF Memory
    <3>2. QED
      BY <1>1, <1>3, <1>4, <2>2, <2>5, <3>1
  <2>6. CASE /\ next # {}
             /\ pc' = [pc EXCEPT ![v] = "report"]
             /\ Remember(v, [m EXCEPT !.lines = <<>>, !.matches = taken])
    <3>1. [m EXCEPT !.lines = <<>>, !.matches = taken] \in Memory
          /\ Len([m EXCEPT !.lines = <<>>, !.matches = taken].lines) <= MaxLines
      <4>1. <<>> \in Seq(Line) /\ Len(<<>>) <= MaxLines
        BY <1>1
      <4>2. QED
        BY <2>1, <2>3, <2>6, <4>1 DEF Memory
    <3>2. QED
      BY <1>1, <1>3, <1>4, <2>2, <2>6, <3>1
  <2>7. CASE /\ pc' = [pc EXCEPT ![v] = "refused"]
             /\ Remember(v, Blank)
    BY <1>1, <1>3, <1>4, <1>5, <2>2, <2>7
  <2>8. QED
    BY <2>4, <2>5, <2>6, <2>7
<1>10. ASSUME NEW v \in Verifier, WriteReport(v) PROVE TypeOK' /\ LengthInv'
  <2>1. report' \in Seq(1..MaxLines)
    BY <1>1, <1>10 DEF WriteReport, Memory
  <2>2. pc' = [pc EXCEPT ![v] = "check"]
        /\ UNCHANGED <<log, boot, evidence, memory, kills>>
    BY <1>10 DEF WriteReport, Goto
  <2>3. QED
    BY <1>1, <1>3, <1>4, <1>5, <2>1, <2>2
<1>11. ASSUME NEW v \in Verifier, CheckAbsent(v) PROVE TypeOK' /\ LengthInv'
  <2>1. /\ \E to \in {"hash", "refused"} : pc' = [pc EXCEPT ![v] = to]
        /\ Remember(v, Blank) \/ UNCHANGED memory
        /\ UNCHANGED <<log, boot, report, evidence, kills>>
    BY <1>11 DEF CheckAbsent, Goto, files
  <2>2. QED
    BY <1>1, <1>3, <1>4, <1>5, <2>1
<1>12. ASSUME NEW v \in Verifier, HashLog(v) PROVE TypeOK' /\ LengthInv'
  <2> DEFINE m == [memory[v] EXCEPT !.hashed = log, !.hashedBoot = boot]
  <2>1. m \in Memory /\ Len(m.lines) <= MaxLines
    <3>1. boot \in 0..MaxBoots /\ memory[v] \in Memory
          /\ Len(memory[v].lines) <= MaxLines
      BY <1>1 DEF LengthInv
    <3>2. QED
      BY <1>1, <3>1 DEF Memory
  <2>2. Remember(v, m) /\ pc' = [pc EXCEPT ![v] = "create"]
        /\ UNCHANGED <<log, boot, report, evidence, kills>>
    BY <1>12 DEF HashLog, Goto, files
  <2> HIDE DEF m
  <2>3. QED
    BY <1>1, <1>3, <1>4, <2>1, <2>2
<1>13. ASSUME NEW v \in Verifier, Create(v) \/ Fill(v) PROVE TypeOK' /\ LengthInv'
  <2>1. /\ \E to \in {"fill", "refused", "verified"} : pc' = [pc EXCEPT ![v] = to]
        /\ Remember(v, Blank) \/ UNCHANGED memory
        /\ evidence'.state \in {"absent", "partial", "complete"}
        /\ UNCHANGED <<log, boot, report, kills>>
    BY <1>1, <1>13 DEF Create, Fill, Goto, Partial, Document
  <2>2. QED
    BY <1>1, <1>3, <1>4, <1>5, <2>1
<1>14. ASSUME NEW v \in Verifier, Kill(v) PROVE TypeOK' /\ LengthInv'
  <2>1. kills' \in 0..MaxKills
    BY <1>1, <1>14 DEF Kill
  <2>2. Remember(v, Blank) /\ pc' = [pc EXCEPT ![v] = "killed"]
        /\ UNCHANGED <<log, boot, report, evidence>>
    BY <1>14 DEF Kill, files
  <2>3. QED
    BY <1>1, <1>3, <1>4, <1>5, <2>1, <2>2
<1>15. CASE UNCHANGED vars
  BY <1>1, <1>2, <1>15 DEF LengthInv, vars, files
<1>16. QED
  BY <1>6, <1>7, <1>8, <1>9, <1>10, <1>11, <1>12, <1>13, <1>14, <1>15
  DEF Next, Proceed

-----------------------------------------------------------------------------
\* The search

\* Of any way the markers are in the text, the next place is one the loop may
\* take: it never has to go back.
LEMMA NeverGoesBack ==
    ASSUME TypeOK, LengthInv, SearchInv, NEW v \in Verifier, pc[v] = "match",
           NEW places \in [DOMAIN Markers -> DOMAIN memory[v].lines],
           Embeds(places, memory[v].lines)
    PROVE  LET m == memory[v]
           IN  places[Len(m.matches) + 1] \in NextMatches(m.lines, Marker(m), Cursor(m))
<1> DEFINE m == memory[v]
           n == Len(m.matches)
<1>1. /\ m.lines \in Seq(Line) /\ DOMAIN m.lines = 1..Len(m.lines)
      /\ n \in Nat /\ Cursor(m) \in Nat
      /\ m.matches \in Seq(1..MaxLines)
  BY NextArePlaces
<1>2. n < Len(Markers) /\ DOMAIN Markers = 1..Len(Markers) /\ Len(Markers) \in Nat
  BY MarkerAssumption DEF SearchInv
<1>3. n > 0 => m.matches[n] <= places[n]
  BY DEF SearchInv
<1> HIDE DEF m
<1>4. m = memory[v]
  BY DEF m
<1>5. n + 1 \in DOMAIN Markers /\ n + 1 > 0
  BY <1>1, <1>2
<1>6. places[n + 1] \in DOMAIN m.lines /\ m.lines[places[n + 1]] \in Marker(m)
  BY <1>4, <1>5 DEF Embeds, Marker
<1>7. Cursor(m) < places[n + 1]
  <2>1. CASE m.matches = <<>>
    BY <1>1, <1>6, <2>1 DEF Cursor
  <2>2. CASE m.matches # <<>>
    <3>1. n > 0 /\ m.matches[n] \in 1..MaxLines
      BY <1>1, <2>2, LastOfSeq
    <3>2. Cursor(m) = m.matches[n]
      BY <2>2 DEF Cursor
    <3>3. n \in DOMAIN Markers
      BY <1>1, <1>2, <3>1
    <3>4. places[n] \in DOMAIN m.lines
      BY <1>4, <3>3
    <3> HIDE DEF n
    <3>5. n + 1 > 1 /\ (n + 1) - 1 = n
      BY <1>1, <3>1
    <3>6. places[n] < places[n + 1]
      BY <1>5, <3>5 DEF Embeds
    <3>7. QED
      BY <1>1, <1>3, <1>6, <3>1, <3>2, <3>4, <3>6
  <2>3. QED
    BY <2>1, <2>2
<1>8. places[n + 1] \in (Cursor(m) + 1)..Len(m.lines)
  BY <1>1, <1>6, <1>7
<1>9. QED
  BY <1>6, <1>8 DEF NextMatches, m

\* What the loop took, with the line it takes now.
LEMMA Takes ==
    ASSUME TypeOK, LengthInv, SearchInv, NEW v \in Verifier, pc[v] = "match",
           NextMatches(memory[v].lines, Marker(memory[v]), Cursor(memory[v])) # {}
    PROVE  LET m == memory[v]
               next == NextMatches(m.lines, Marker(m), Cursor(m))
               taken == Append(m.matches, Least(next))
           IN  /\ Len(taken) = Len(m.matches) + 1 /\ Len(m.matches) \in Nat
               /\ Len(taken) <= Len(Markers)
               /\ \A i \in 1..Len(taken) :
                     /\ taken[i] \in DOMAIN m.lines
                     /\ m.lines[taken[i]] \in Markers[i]
                     /\ i > 1 => taken[i - 1] < taken[i]
               /\ \A places \in [DOMAIN Markers -> DOMAIN m.lines] :
                     Embeds(places, m.lines) =>
                        taken[Len(taken)] <= places[Len(taken)]
<1> DEFINE m == memory[v]
           n == Len(m.matches)
           next == NextMatches(m.lines, Marker(m), Cursor(m))
           taken == Append(m.matches, Least(next))
<1>1. /\ m.lines \in Seq(Line) /\ DOMAIN m.lines = 1..Len(m.lines)
      /\ n \in Nat /\ Cursor(m) \in Nat
      /\ m.matches \in Seq(1..MaxLines)
      /\ next \subseteq DOMAIN m.lines /\ next \subseteq 1..MaxLines
      /\ Least(next) \in next /\ \A j \in next : Least(next) <= j
  BY NextArePlaces
<1>2. /\ n < Len(Markers) /\ Len(Markers) \in Nat
      /\ \A i \in 1..n : /\ m.matches[i] \in DOMAIN m.lines
                         /\ m.lines[m.matches[i]] \in Markers[i]
                         /\ i > 1 => m.matches[i - 1] < m.matches[i]
  BY MarkerAssumption DEF SearchInv
<1>3. \A places \in [DOMAIN Markers -> DOMAIN m.lines] :
         Embeds(places, m.lines) => Least(next) <= places[n + 1]
  BY <1>1, NeverGoesBack
<1>4. Least(next) \in (Cursor(m) + 1)..Len(m.lines)
      /\ m.lines[Least(next)] \in Markers[n + 1]
  BY <1>1 DEF NextMatches, Marker
<1> HIDE DEF m
<1>5. /\ Len(taken) = n + 1
      /\ \A i \in 1..n : taken[i] = m.matches[i]
      /\ taken[n + 1] = Least(next)
  <2> HIDE DEF next
  <2>1. Least(next) \in 1..MaxLines
    BY <1>1
  <2>2. QED
    BY <1>1, <2>1
<1>6. n > 0 => taken[n] < taken[n + 1]
  <2>1. ASSUME n > 0 PROVE m.matches[n] = Cursor(m)
    <3>1. m.matches # <<>>
      BY <2>1
    <3>2. QED
      BY <3>1 DEF Cursor
  <2>2. ASSUME n > 0 PROVE n \in 1..n
    BY <1>1, <2>2
  <2>3. QED
    BY <1>1, <1>4, <1>5, <2>1, <2>2
<1>7. n = Len(m.matches)
  OBVIOUS
<1> HIDE DEF next, taken, n
<1>8. ASSUME NEW i \in 1..(n + 1)
      PROVE  /\ taken[i] \in DOMAIN m.lines
             /\ m.lines[taken[i]] \in Markers[i]
             /\ i > 1 => taken[i - 1] < taken[i]
  <2>1. CASE i \in 1..n
    <3>1. i > 1 => i - 1 \in 1..n
      BY <1>1, <2>1
    <3>2. QED
      BY <1>2, <1>5, <2>1, <3>1
  <2>2. CASE i = n + 1
    <3>1. i > 1 => n > 0
      BY <1>1, <2>2
    <3>2. i - 1 = n
      BY <1>1, <2>2
    <3>3. QED
      BY <1>1, <1>4, <1>5, <1>6, <2>2, <3>1, <3>2
  <2>3. QED
    BY <1>1, <2>1, <2>2
<1>9. n + 1 <= Len(Markers)
  BY <1>1, <1>2
<1>10. QED
  BY <1>1, <1>3, <1>5, <1>7, <1>8, <1>9 DEF m, next, taken

\* When a line was taken for the last marker, all are there.
LEMMA AllTaken ==
    ASSUME TypeOK, LengthInv, SearchInv, NEW v \in Verifier, pc[v] = "match",
           Match(v), pc'[v] = "report"
    PROVE  /\ Embeds(memory'[v].matches, memory[v].lines)
           /\ memory'[v].loadedBoot = memory[v].loadedBoot
<1> DEFINE m == memory[v]
           next == NextMatches(m.lines, Marker(m), Cursor(m))
           taken == Append(m.matches, Least(next))
<1>1. next # {} /\ Len(taken) = Len(Markers)
      /\ memory'[v] = [m EXCEPT !.lines = <<>>, !.matches = taken]
  BY DEF Match, Goto, Remember, TypeOK
<1>2. memory'[v].matches = taken /\ memory'[v].loadedBoot = m.loadedBoot
  BY <1>1 DEF TypeOK
<1>3. /\ \A i \in 1..Len(taken) :
            /\ taken[i] \in DOMAIN m.lines
            /\ m.lines[taken[i]] \in Markers[i]
            /\ i > 1 => taken[i - 1] < taken[i]
  BY <1>1, Takes
<1>4. DOMAIN taken = 1..Len(taken)
  <2>1. m.matches \in Seq(1..MaxLines) /\ Least(next) \in 1..MaxLines
    BY <1>1, NextArePlaces
  <2> HIDE DEF m, next
  <2>2. QED
    BY <2>1
<1>5. DOMAIN Markers = 1..Len(Markers)
  BY MarkerAssumption
<1> HIDE DEF m, next, taken
<1>6. DOMAIN taken = DOMAIN Markers
  BY <1>1, <1>4, <1>5
<1>7. Embeds(taken, m.lines)
  BY <1>3, <1>4, <1>6 DEF Embeds
<1>8. QED
  BY <1>2, <1>7 DEF m

LEMMA StepSearch ==
    ASSUME TypeOK, LengthInv, SearchInv, [Next]_vars
    PROVE  SearchInv'
<1> DEFINE Searching(p, m) ==
               p = "match" =>
                  LET n == Len(m.matches)
                  IN  /\ n < Len(Markers)
                      /\ \A i \in 1..n : /\ m.matches[i] \in DOMAIN m.lines
                                         /\ m.lines[m.matches[i]] \in Markers[i]
                                         /\ i > 1 => m.matches[i - 1] < m.matches[i]
                      /\ n > 0 => \A places \in [DOMAIN Markers -> DOMAIN m.lines] :
                                     Embeds(places, m.lines) =>
                                        m.matches[n] <= places[n]
<1>1. \A v \in Verifier : Searching(pc[v], memory[v])
  BY DEF SearchInv
<1>2. (\A v \in Verifier : Searching(pc'[v], memory'[v])) => SearchInv'
  BY DEF SearchInv
<1> HIDE DEF Searching
<1>3. CASE (\E line \in Line : WriteLine(line)) \/ Boot \/ UNCHANGED vars
  <2>1. UNCHANGED <<pc, memory>>
    BY <1>3 DEF WriteLine, Boot, vars
  <2>2. QED
    BY <1>1, <1>2, <2>1
<1>4. ASSUME NEW v \in Verifier, Load(v) \/ Proceed(v) \/ Kill(v)
      PROVE  SearchInv'
  <2>1. \A u \in Verifier \ {v} : pc'[u] = pc[u] /\ memory'[u] = memory[u]
    BY <1>4, VerifierStep
  <2>2. Searching(pc'[v], memory'[v])
    <3>1. CASE Load(v)
      <4>1. memory'[v].matches = <<>>
        BY <3>1 DEF Load, Remember, Blank, TypeOK
      <4>2. Len(Markers) > 0
        BY MarkerAssumption, LastOfSeq
      <4>3. QED
        BY <4>1, <4>2 DEF Searching
    <3>2. CASE Match(v) /\ pc'[v] = "match"
      <4> DEFINE m == memory[v]
                 next == NextMatches(m.lines, Marker(m), Cursor(m))
                 taken == Append(m.matches, Least(next))
      <4>1. /\ next # {} /\ pc[v] = "match" /\ Len(taken) < Len(Markers)
            /\ memory'[v] = [m EXCEPT !.matches = taken]
        BY <3>2 DEF Match, Goto, Remember, TypeOK
      <4>2. memory'[v].matches = taken /\ memory'[v].lines = m.lines
        BY <4>1 DEF TypeOK
      <4>3. /\ \A i \in 1..Len(taken) :
                  /\ taken[i] \in DOMAIN m.lines
                  /\ m.lines[taken[i]] \in Markers[i]
                  /\ i > 1 => taken[i - 1] < taken[i]
            /\ \A places \in [DOMAIN Markers -> DOMAIN m.lines] :
                  Embeds(places, m.lines) =>
                     taken[Len(taken)] <= places[Len(taken)]
        BY <4>1, Takes
      <4> HIDE DEF m, next, taken
      <4>4. QED
        BY <4>1, <4>2, <4>3 DEF Searching
    <3>3. CASE pc'[v] # "match"
      BY <3>3 DEF Searching
    <3>4. ASSUME pc'[v] = "match" PROVE Load(v) \/ Match(v)
      <4>1. \E to \in {"report", "check", "hash", "create", "fill", "verified",
                       "refused", "killed"} :
               pc' = [pc EXCEPT ![v] = to] \/ Load(v) \/ Match(v)
        BY <1>4 DEF Proceed, WriteReport, CheckAbsent, HashLog, Create, Fill,
                    Kill, Goto
      <4>2. QED
        BY <3>4, <4>1 DEF TypeOK
    <3>5. QED
      BY <3>1, <3>2, <3>3, <3>4
  <2>3. QED
    BY <1>1, <1>2, <2>1, <2>2
<1>5. QED
  BY <1>3, <1>4 DEF Next

-----------------------------------------------------------------------------
\* The evidence

\* What a verifier knows of the log stays true while another one works, and
\* becomes true as it goes on itself.
LEMMA StepLog ==
    ASSUME TypeOK, LengthInv, SearchInv, LogInv, [Next]_vars
    PROVE  LogInv'
<1> DEFINE Knows(p, m, text, b) ==
               /\ m.loadedBoot <= b
               /\ p = "match" /\ m.loadedBoot = b => Grown(m.lines, text)
               /\ p \in {"report", "check", "hash"} /\ m.loadedBoot = b =>
                     Embeds(m.matches, text)
               /\ p \in {"create", "fill"} /\ m.loadedBoot = m.hashedBoot =>
                     Embeds(m.matches, m.hashed)
<1>1. \A v \in Verifier : Knows(pc[v], memory[v], log, boot)
  BY DEF LogInv
<1>2. (\A v \in Verifier : Knows(pc'[v], memory'[v], log', boot')) => LogInv'
  BY DEF LogInv
<1>3. /\ \A v \in Verifier : memory[v] \in Memory
      /\ boot \in Nat /\ boot > 0 /\ log \in Seq(Line)
  BY MarkerAssumption DEF TypeOK, Memory
<1>4. \A v \in Verifier : memory[v].loadedBoot \in Nat
  BY <1>3, MarkerAssumption DEF Memory
<1>5. ASSUME NEW line \in Line, WriteLine(line)
      PROVE  LogInv'
  <2>1. log' = Append(log, line) /\ log' \in Seq(Line) /\ Grown(log, log')
    BY <1>3, <1>5, Grows DEF WriteLine
  <2>2. UNCHANGED <<boot, pc, memory>>
    BY <1>5 DEF WriteLine
  <2>3. ASSUME NEW v \in Verifier PROVE Knows(pc[v], memory[v], log', boot)
    <3>1. ASSUME Grown(memory[v].lines, log) PROVE Grown(memory[v].lines, log')
      <4>1. memory[v].lines \in Seq(Line)
        BY <1>3 DEF Memory
      <4>2. DOMAIN memory[v].lines \subseteq DOMAIN log
        BY <1>3, <3>1, <4>1 DEF Grown
      <4>3. Len(memory[v].lines) <= Len(log')
        BY <1>3, <2>1, <3>1, <4>1 DEF Grown
      <4>4. QED
        BY <2>1, <3>1, <4>2, <4>3 DEF Grown
    <3>2. ASSUME Embeds(memory[v].matches, log)
          PROVE  Embeds(memory[v].matches, log')
      BY <1>3, <2>1, <3>2, EmbedsInGrown
    <3>3. QED
      BY <1>1, <3>1, <3>2
  <2>4. QED
    BY <1>2, <2>2, <2>3
<1>6. CASE Boot
  <2>1. boot' = boot + 1 /\ UNCHANGED <<pc, memory>>
    BY <1>6 DEF Boot
  <2>2. ASSUME NEW v \in Verifier PROVE Knows(pc[v], memory[v], log', boot')
    <3>1. memory[v].loadedBoot <= boot
      BY <1>1
    <3>2. memory[v].loadedBoot <= boot' /\ memory[v].loadedBoot # boot'
      BY <1>3, <1>4, <2>1, <3>1
    <3>3. QED
      BY <1>1, <3>2
  <2>3. QED
    BY <1>2, <2>1, <2>2
<1>7. ASSUME NEW v \in Verifier, Load(v) \/ Proceed(v) \/ Kill(v)
      PROVE  LogInv'
  <2>1. UNCHANGED <<log, boot>>
        /\ \A u \in Verifier \ {v} : pc'[u] = pc[u] /\ memory'[u] = memory[u]
    BY <1>7, VerifierStep
  <2>2. Knows(pc'[v], memory'[v], log, boot)
    <3>1. CASE Load(v)
      <4>1. pc'[v] = "match" /\ memory'[v] = [Blank EXCEPT !.lines = log,
                                                           !.loadedBoot = boot]
        BY <3>1 DEF Load, Goto, Remember, TypeOK
      <4>2. memory'[v].lines = log /\ memory'[v].loadedBoot = boot
        BY <4>1 DEF Blank
      <4>3. Grown(log, log)
        BY <1>3 DEF Grown
      <4>4. QED
        BY <1>3, <4>1, <4>2, <4>3
    <3>2. CASE Match(v)
      <4>1. CASE pc'[v] = "match"
        <5>1. \E t : memory'[v] = [memory[v] EXCEPT !.matches = t]
          BY <3>2, <4>1 DEF Match, Goto, Remember, TypeOK
        <5>2. pc[v] = "match" /\ memory'[v].lines = memory[v].lines
              /\ memory'[v].loadedBoot = memory[v].loadedBoot
          BY <3>2, <5>1 DEF Match, Goto, TypeOK
        <5>3. QED
          BY <1>1, <4>1, <5>2
      <4>2. CASE pc'[v] = "report"
        <5>1. pc[v] = "match"
          BY <3>2 DEF Match, Goto
        <5>2. /\ Embeds(memory'[v].matches, memory[v].lines)
              /\ memory'[v].loadedBoot = memory[v].loadedBoot
          BY <3>2, <4>2, <5>1, AllTaken
        <5>3. ASSUME memory[v].loadedBoot = boot
              PROVE  Embeds(memory'[v].matches, log)
          <6>1. Grown(memory[v].lines, log)
            BY <1>1, <5>1, <5>3
          <6>2. memory[v].lines \in Seq(Line)
            BY <1>3 DEF Memory
          <6>3. QED
            BY <1>3, <5>2, <6>1, <6>2, EmbedsInGrown
        <5>4. QED
          BY <1>1, <4>2, <5>2, <5>3
      <4>3. CASE pc'[v] = "refused"
        <5>1. memory'[v] = Blank
          BY <3>2, <4>3 DEF Match, Goto, Remember, TypeOK
        <5>2. QED
          BY <1>3, <4>3, <5>1 DEF Blank
      <4>4. QED
        BY <3>2, <4>1, <4>2, <4>3 DEF Match, Goto, TypeOK
    <3>3. CASE WriteReport(v)
      <4>1. pc[v] = "report" /\ pc'[v] = "check" /\ memory'[v] = memory[v]
        BY <3>3 DEF WriteReport, Goto, TypeOK
      <4>2. QED
        BY <1>1, <4>1
    <3>4. CASE CheckAbsent(v)
      <4>1. \/ pc[v] = "check" /\ pc'[v] = "hash" /\ memory'[v] = memory[v]
            \/ pc'[v] = "refused" /\ memory'[v] = Blank
        BY <3>4 DEF CheckAbsent, Goto, Remember, TypeOK
      <4>2. QED
        BY <1>1, <1>3, <4>1 DEF Blank
    <3>5. CASE HashLog(v)
      <4>1. /\ pc[v] = "hash" /\ pc'[v] = "create"
            /\ memory'[v] = [memory[v] EXCEPT !.hashed = log, !.hashedBoot = boot]
        BY <3>5 DEF HashLog, Goto, Remember, TypeOK
      <4>2. /\ memory'[v].hashed = log /\ memory'[v].hashedBoot = boot
            /\ memory'[v].loadedBoot = memory[v].loadedBoot
            /\ memory'[v].matches = memory[v].matches
        BY <1>3, <4>1 DEF Memory
      <4>3. QED
        BY <1>1, <4>1, <4>2
    <3>6. CASE Create(v)
      <4>1. \/ pc[v] = "create" /\ pc'[v] = "fill" /\ memory'[v] = memory[v]
            \/ pc'[v] = "refused" /\ memory'[v] = Blank
        BY <3>6 DEF Create, Goto, Remember, TypeOK
      <4>2. QED
        BY <1>1, <1>3, <4>1 DEF Blank
    <3>7. CASE Fill(v) \/ Kill(v)
      <4>1. pc'[v] \in {"verified", "killed"} /\ memory'[v] = Blank
        BY <3>7 DEF Fill, Kill, Goto, Remember, TypeOK
      <4>2. QED
        BY <1>3, <4>1 DEF Blank
    <3>8. QED
      BY <1>7, <3>1, <3>2, <3>3, <3>4, <3>5, <3>6, <3>7 DEF Proceed
  <2> HIDE DEF Knows
  <2>3. QED
    BY <1>1, <1>2, <2>1, <2>2
<1>8. CASE UNCHANGED vars
  BY <1>1, <1>2, <1>8 DEF vars
<1>9. QED
  BY <1>5, <1>6, <1>7, <1>8 DEF Next

\* Evidence changes only as its writer fills it, or as it is created.
LEMMA EvidenceSteps ==
    ASSUME TypeOK, WriterInv, [Next]_vars
    PROVE  \/ evidence' = evidence /\ \A v \in Verifier :
                 pc'[v] = "fill" => pc[v] = "fill"
           \/ \E v \in Verifier :
                 /\ evidence = Absent /\ evidence' = Partial
                 /\ pc'[v] = "fill"
                 /\ \A u \in Verifier \ {v} : pc'[u] = pc[u]
           \/ \E v \in Verifier :
                 /\ pc[v] = "fill" /\ evidence = Partial
                 /\ evidence' = Document(memory[v])
                 /\ pc'[v] = "verified"
                 /\ \A u \in Verifier \ {v} : pc'[u] = pc[u]
<1>1. CASE (\E line \in Line : WriteLine(line)) \/ Boot \/ UNCHANGED vars
  BY <1>1 DEF WriteLine, Boot, vars, files
<1>2. ASSUME NEW v \in Verifier, \/ Load(v) \/ Match(v) \/ WriteReport(v)
                                 \/ CheckAbsent(v) \/ HashLog(v) \/ Kill(v)
      PROVE  evidence' = evidence /\ \A u \in Verifier :
                pc'[u] = "fill" => pc[u] = "fill"
  <2>1. evidence' = evidence
        /\ \E to \in {"match", "report", "check", "hash", "create", "refused",
                      "killed"} : pc' = [pc EXCEPT ![v] = to] \/ UNCHANGED pc
    BY <1>2 DEF Load, Match, WriteReport, CheckAbsent, HashLog, Kill, Goto, files
  <2>2. QED
    BY <2>1 DEF TypeOK
<1>3. ASSUME NEW v \in Verifier, Create(v)
      PROVE  \/ evidence' = evidence /\ \A u \in Verifier :
                   pc'[u] = "fill" => pc[u] = "fill"
             \/ /\ evidence = Absent /\ evidence' = Partial
                /\ pc'[v] = "fill"
                /\ \A u \in Verifier \ {v} : pc'[u] = pc[u]
  BY <1>3 DEF Create, Goto, TypeOK
<1>4. ASSUME NEW v \in Verifier, Fill(v)
      PROVE  /\ pc[v] = "fill" /\ evidence = Partial
             /\ evidence' = Document(memory[v])
             /\ pc'[v] = "verified"
             /\ \A u \in Verifier \ {v} : pc'[u] = pc[u]
  BY <1>4 DEF Fill, Goto, TypeOK, WriterInv
<1>5. QED
  BY <1>1, <1>2, <1>3, <1>4 DEF Next, Proceed

LEMMA StepWriter ==
    ASSUME TypeOK, WriterInv, [Next]_vars
    PROVE  WriterInv'
<1>1. Absent # Partial
  <2>1. Absent.state # Partial.state
    BY DEF Absent, Partial
  <2>2. QED
    BY <2>1
<1>2. CASE evidence' = evidence /\ \A v \in Verifier :
              pc'[v] = "fill" => pc[v] = "fill"
  BY <1>2 DEF WriterInv
<1>3. ASSUME NEW v \in Verifier,
             evidence = Absent, evidence' = Partial, pc'[v] = "fill",
             \A u \in Verifier \ {v} : pc'[u] = pc[u]
      PROVE  WriterInv'
  <2>1. \A u \in Verifier : pc[u] # "fill"
    BY <1>1, <1>3 DEF WriterInv
  <2>2. QED
    BY <1>3, <2>1 DEF WriterInv
<1>4. ASSUME NEW v \in Verifier,
             pc[v] = "fill", pc'[v] = "verified",
             \A u \in Verifier \ {v} : pc'[u] = pc[u]
      PROVE  WriterInv'
  <2>1. \A u \in Verifier \ {v} : pc[u] # "fill"
    BY <1>4 DEF WriterInv
  <2>2. QED
    BY <1>4, <2>1 DEF WriterInv
<1>5. QED
  BY <1>2, <1>3, <1>4, EvidenceSteps

LEMMA StepEvidence ==
    ASSUME TypeOK, LogInv, WriterInv, EvidenceMatchesLog, [Next]_vars
    PROVE  EvidenceMatchesLog'
<1>1. CASE evidence' = evidence
  BY <1>1 DEF EvidenceMatchesLog
<1>2. CASE evidence' = Partial
  BY <1>2 DEF EvidenceMatchesLog, Partial
<1>3. ASSUME NEW v \in Verifier, pc[v] = "fill", evidence' = Document(memory[v])
      PROVE  EvidenceMatchesLog'
  <2>1. memory[v].loadedBoot = memory[v].hashedBoot =>
           Embeds(memory[v].matches, memory[v].hashed)
    BY <1>3 DEF LogInv
  <2>2. /\ evidence'.sameBoot <=> memory[v].loadedBoot = memory[v].hashedBoot
        /\ evidence'.matches = memory[v].matches
        /\ evidence'.log = memory[v].hashed
    BY <1>3 DEF Document
  <2>3. QED
    BY <2>1, <2>2 DEF EvidenceMatchesLog
<1>4. QED
  BY <1>1, <1>2, <1>3, EvidenceSteps

-----------------------------------------------------------------------------
\* Theorems

\* The invariant: the loop keeps a way the markers so far are in the text that
\* no other way is ahead of; what was found in a log that only grew is found in
\* what is hashed of it; one verifier at most fills the evidence.
THEOREM MarkerInvariant == Spec => []MarkerInv
<1>1. Init => MarkerInv
  <2> SUFFICES ASSUME Init PROVE MarkerInv
    OBVIOUS
  <2>1. \A v \in Verifier : pc[v] = "idle" /\ memory[v] = Blank
    BY DEF Init
  <2>2. SearchInv /\ WriterInv
    BY <2>1 DEF SearchInv, WriterInv
  <2>3. LogInv
    <3>1. boot = 1
      BY DEF Init
    <3>2. QED
      BY <2>1, <3>1 DEF LogInv, Blank
  <2>4. EvidenceMatchesLog
    BY DEF Init, Absent, EvidenceMatchesLog
  <2>5. QED
    BY <2>2, <2>3, <2>4, InitMarkerTypes DEF MarkerInv
<1>2. MarkerInv /\ [Next]_vars => MarkerInv'
  BY StepMarkerTypes, StepSearch, StepLog, StepWriter, StepEvidence DEF MarkerInv
<1>3. QED
  BY <1>1, <1>2, PTL DEF Spec

\* Every reachable state of log, files and verifiers is well typed: what a
\* verifier reports are line numbers of a log, counted from 1.
THEOREM MarkerTypeCorrect == Spec => []TypeOK
<1>1. MarkerInv => TypeOK
  BY DEF MarkerInv
<1>2. QED
  BY <1>1, MarkerInvariant, PTL

\* The markers are in the log that complete evidence names by its hash, at the
\* lines it names, unless the log was started anew between search and hash.
THEOREM EvidenceOfItsLog == Spec => []EvidenceMatchesLog
<1>1. MarkerInv => EvidenceMatchesLog
  BY DEF MarkerInv
<1>2. QED
  BY <1>1, MarkerInvariant, PTL

\* However many verifiers race for it, complete evidence is never changed: the
\* exclusive creation lets one in, and only that one fills it, once.
THEOREM EvidenceStays == Spec => EvidenceIsKept
<1>1. MarkerInv /\ [Next]_vars => (evidence.state = "complete" => evidence' = evidence)
  <2>1. Absent.state # "complete" /\ Partial.state # "complete"
    BY DEF Absent, Partial
  <2>2. QED
    BY <2>1, EvidenceSteps DEF MarkerInv
<1>2. QED
  BY <1>1, MarkerInvariant, PTL DEF Spec, EvidenceIsKept

\* verify_sequence accepts a text only with one way the markers are in it, and
\* refuses it only if there is none, although it never goes back.
THEOREM SearchExact == Spec => SearchIsExact
<1>1. MarkerInv /\ [Next]_vars =>
        \A v \in Verifier : pc[v] = "match" =>
          LET text == memory[v].lines
          IN  /\ pc'[v] = "report" => Embeds(memory'[v].matches, text)
              /\ pc'[v] = "refused" =>
                    ~\E places \in [DOMAIN Markers -> DOMAIN text] :
                         Embeds(places, text)
  <2> SUFFICES ASSUME MarkerInv, [Next]_vars, NEW v \in Verifier,
                      pc[v] = "match", pc'[v] \in {"report", "refused"}
               PROVE  LET text == memory[v].lines
                      IN  /\ pc'[v] = "report" => Embeds(memory'[v].matches, text)
                          /\ pc'[v] = "refused" =>
                                ~\E places \in [DOMAIN Markers -> DOMAIN text] :
                                     Embeds(places, text)
    OBVIOUS
  <2>1. TypeOK /\ LengthInv /\ SearchInv
    BY DEF MarkerInv
  <2>2. Match(v)
    <3>1. ASSUME (\E line \in Line : WriteLine(line)) \/ Boot \/ UNCHANGED vars
          PROVE  FALSE
      BY <3>1 DEF WriteLine, Boot, vars
    <3>2. ASSUME NEW u \in Verifier, Load(u) \/ Proceed(u) \/ Kill(u)
          PROVE  u = v
      BY <2>1, <3>2, VerifierStep
    <3>3. Load(v) \/ Proceed(v) \/ Kill(v)
      BY <3>1, <3>2 DEF Next
    <3>4. QED
      BY <2>1, <3>3 DEF Load, Proceed, WriteReport, CheckAbsent, HashLog, Create,
                        Fill, Kill, Goto, TypeOK
  <2>3. pc'[v] = "report" => Embeds(memory'[v].matches, memory[v].lines)
    BY <2>1, <2>2, AllTaken
  <2>4. ASSUME pc'[v] = "refused",
               NEW places \in [DOMAIN Markers -> DOMAIN memory[v].lines],
               Embeds(places, memory[v].lines)
        PROVE  FALSE
    <3>1. NextMatches(memory[v].lines, Marker(memory[v]), Cursor(memory[v])) # {}
      BY <2>1, <2>4, NeverGoesBack
    <3>2. QED
      BY <2>1, <2>2, <2>4, <3>1 DEF Match, Goto, TypeOK
  <2>5. QED
    BY <2>3, <2>4
<1>2. QED
  BY <1>1, MarkerInvariant, PTL DEF Spec, SearchIsExact
=============================================================================
