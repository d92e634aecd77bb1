--------------------------- MODULE MarkerSequence ---------------------------
(***************************************************************************)
(* scripts/verify_marker_sequence.py: the evidence that the lines of a     *)
(* serial log hold the markers of a boot, in their order.                  *)
(*                                                                         *)
(* A log is a file that a machine appends to and that each boot starts     *)
(* anew (experimental-native-run-live-iso-qemu.sh:75). Verifiers run while *)
(* it changes, side by side, and may be killed: they load the log, match,  *)
(* write the report, look for evidence, hash the log as it is by then,     *)
(* create the evidence and fill it. A line is written at once, and a       *)
(* marker is the set of lines its expression is found in.                  *)
(***************************************************************************)
EXTENDS Naturals, Sequences

CONSTANTS
    Line, Markers,
    Verifier,                     \* the runs of the script
    MaxLines, MaxBoots, MaxKills  \* bounds: lines of a log, boots into it, kills

ASSUME MarkerAssumption == /\ Markers \in Seq(SUBSET Line) /\ Markers # <<>>
                           /\ {MaxLines, MaxKills} \subseteq Nat
                           /\ MaxBoots \in Nat \ {0}

VARIABLES
    log, boot,            \* the log, and the boot that writes it
    report, evidence,     \* the two files a verifier writes
    pc, memory,           \* of each verifier
    kills

files == <<report, evidence>>
vars  == <<log, boot, files, pc, memory, kills>>

Absent  == [state |-> "absent"]
Partial == [state |-> "partial"]

\* What a verifier holds: the lines it loaded, the places it matched, the log
\* it hashed; and, as history, the boots whose log it loaded and hashed.
Blank == [lines |-> <<>>, matches |-> <<>>, hashed |-> <<>>,
          loadedBoot |-> 0, hashedBoot |-> 0]

\* The evidence names the log by its hash, that is by its content.
Document(m) == [state |-> "complete", matches |-> m.matches, log |-> m.hashed,
                sameBoot |-> m.loadedBoot = m.hashedBoot]

-----------------------------------------------------------------------------
\* verify_sequence: each marker takes the first line after the one before.

\* Mutant: lines are counted from 0.
NextFromZero(text, marker, cursor) ==
    {i \in cursor..(Len(text) - 1) : text[i + 1] \in marker}

\* Mutant: a marker may take the line of the one before.
NextFromLast(text, marker, cursor) ==
    {i \in (IF cursor = 0 THEN 1 ELSE cursor)..Len(text) : text[i] \in marker}

NextMatches(text, marker, cursor) ==
    {i \in (cursor + 1)..Len(text) : text[i] \in marker}

Least(S) == CHOOSE i \in S : \A j \in S : i <= j

\* The marker it is at, and the line it has come to.
Marker(m) == Markers[Len(m.matches) + 1]
Cursor(m) == IF m.matches = <<>> THEN 0 ELSE m.matches[Len(m.matches)]

\* What it is for: the markers are found in `text` at `places`, in order.
Embeds(places, text) ==
    /\ DOMAIN places = DOMAIN Markers
    /\ \A i \in DOMAIN places :
           /\ places[i] \in DOMAIN text
           /\ text[places[i]] \in Markers[i]
           /\ i > 1 => places[i - 1] < places[i]

-----------------------------------------------------------------------------

Init ==
    /\ log = <<>> /\ boot = 1
    /\ report = <<>>
    /\ evidence = Absent
    /\ pc = [v \in Verifier |-> "idle"]
    /\ memory = [v \in Verifier |-> Blank]
    /\ kills = 0

\* The machine writes a line.
WriteLine(line) ==
    /\ Len(log) < MaxLines
    /\ log' = Append(log, line)
    /\ UNCHANGED <<boot, files, pc, memory, kills>>

\* The image is started again, with the same log.
Boot ==
    /\ boot < MaxBoots
    /\ boot' = boot + 1
    /\ log' = <<>>
    /\ UNCHANGED <<files, pc, memory, kills>>

Goto(v, from, to) == pc[v] = from /\ pc' = [pc EXCEPT ![v] = to]

Remember(v, m) == memory' = [memory EXCEPT ![v] = m]

\* It is started, and loads the log.
Load(v) ==
    /\ Goto(v, "idle", "match")
    /\ Remember(v, [Blank EXCEPT !.lines = log, !.loadedBoot = boot])
    /\ UNCHANGED <<log, boot, files, kills>>

\* The loop of verify_sequence takes a line for the marker it is at, or raises.
Match(v) ==
    LET m == memory[v]
        next == NextMatches(m.lines, Marker(m), Cursor(m))
        taken == Append(m.matches, Least(next))
    IN  /\ \/ /\ next # {}
              /\ Len(taken) < Len(Markers)
              /\ pc[v] = "match" /\ UNCHANGED pc
              /\ Remember(v, [m EXCEPT !.matches = taken])
           \/ /\ next # {}
              /\ Len(taken) = Len(Markers)
              /\ Goto(v, "match", "report")
              /\ Remember(v, [m EXCEPT !.lines = <<>>, !.matches = taken])
           \/ /\ next = {}
              /\ Goto(v, "match", "refused")
              /\ Remember(v, Blank)
        /\ UNCHANGED <<log, boot, files, kills>>

\* It replaces the report of another run.
WriteReport(v) ==
    /\ Goto(v, "report", "check")
    /\ report' = memory[v].matches
    /\ UNCHANGED <<log, boot, evidence, memory, kills>>

CheckAbsent(v) ==
    /\ \/ evidence = Absent /\ Goto(v, "check", "hash") /\ UNCHANGED memory
       \/ evidence # Absent /\ Goto(v, "check", "refused") /\ Remember(v, Blank)
    /\ UNCHANGED <<log, boot, files, kills>>

HashLog(v) ==
    /\ Goto(v, "hash", "create")
    /\ Remember(v, [memory[v] EXCEPT !.hashed = log, !.hashedBoot = boot])
    /\ UNCHANGED <<log, boot, files, kills>>

\* Mutant: the evidence is opened for writing whether it exists or not.
CreateOrTruncate(v) ==
    /\ Goto(v, "create", "fill")
    /\ evidence' = Partial
    /\ UNCHANGED <<log, boot, report, memory, kills>>

\* Opened with mode "x": of two verifiers that found none, one creates it.
Create(v) ==
    /\ \/ /\ evidence = Absent
          /\ Goto(v, "create", "fill")
          /\ evidence' = Partial
          /\ UNCHANGED memory
       \/ /\ evidence # Absent
          /\ Goto(v, "create", "refused")
          /\ Remember(v, Blank)
          /\ UNCHANGED evidence
    /\ UNCHANGED <<log, boot, report, kills>>

\* Mutant: the places are read back from the report.
FillFromReport(v) ==
    /\ Goto(v, "fill", "verified")
    /\ evidence' = Document([memory[v] EXCEPT !.matches = report])
    /\ Remember(v, Blank)
    /\ UNCHANGED <<log, boot, report, kills>>

\* Mutant: the log is compared once more, when the file is already there.
FillUnlessGrown(v) ==
    /\ \/ /\ log = memory[v].hashed
          /\ Goto(v, "fill", "verified")
          /\ evidence' = Document(memory[v])
       \/ /\ log # memory[v].hashed
          /\ Goto(v, "fill", "refused")
          /\ UNCHANGED evidence
    /\ Remember(v, Blank)
    /\ UNCHANGED <<log, boot, report, kills>>

Fill(v) ==
    /\ Goto(v, "fill", "verified")
    /\ evidence' = Document(memory[v])
    /\ Remember(v, Blank)
    /\ UNCHANGED <<log, boot, report, kills>>

\* A verifier that is killed, or that an OSError ends while it hashes the log
\* or writes: the file it created stays either way.
Kill(v) ==
    /\ kills < MaxKills
    /\ pc[v] \notin {"idle", "verified", "refused", "killed"}
    /\ kills' = kills + 1
    /\ pc' = [pc EXCEPT ![v] = "killed"]
    /\ Remember(v, Blank)
    /\ UNCHANGED <<log, boot, files>>

Proceed(v) == \/ Match(v) \/ WriteReport(v) \/ CheckAbsent(v)
              \/ HashLog(v) \/ Create(v) \/ Fill(v)

Next ==
    \/ \E line \in Line : WriteLine(line)
    \/ Boot
    \/ \E v \in Verifier : Load(v) \/ Proceed(v) \/ Kill(v)

Spec == Init /\ [][Next]_vars

\* While verifiers run, one of them goes on; nobody is bound to start one, or
\* the machine.
FairSpec == Spec /\ WF_vars(\E v \in Verifier : Proceed(v))

-----------------------------------------------------------------------------
\* Properties

TypeOK ==
    /\ log \in Seq(Line)
    /\ boot \in 1..MaxBoots
    /\ report \in Seq(1..MaxLines)
    /\ evidence.state \in {"absent", "partial", "complete"}
    /\ pc \in [Verifier -> {"idle", "match", "report", "check", "hash",
                            "create", "fill", "verified", "refused", "killed"}]
    /\ memory \in [Verifier -> [lines : Seq(Line), matches : Seq(1..MaxLines),
                                hashed : Seq(Line), loadedBoot : 0..MaxBoots,
                                hashedBoot : 0..MaxBoots]]
    /\ kills \in 0..MaxKills

\* The search takes the first line it can and never goes back. A log is refused
\* only if the markers are in it in no way, and what is accepted is one way.
SearchIsExact ==
    [][\A v \in Verifier : pc[v] = "match" =>
         LET text == memory[v].lines
         IN  /\ pc'[v] = "report" => Embeds(memory'[v].matches, text)
             /\ pc'[v] = "refused" =>
                   ~\E places \in [DOMAIN Markers -> DOMAIN text] :
                        Embeds(places, text)]_vars

\* The markers are in the log the evidence is bound to, at the lines it names,
\* although the log was hashed after it was searched and may have grown: unless
\* it was started anew in between.
EvidenceMatchesLog ==
    evidence.state = "complete" /\ evidence.sameBoot =>
        Embeds(evidence.matches, evidence.log)

\* Evidence that is complete is never changed or replaced, by any verifier.
EvidenceIsKept ==
    [][evidence.state = "complete" => evidence' = evidence]_vars

\* When a log is accepted there is evidence in the end, from one verifier or
\* another: two that race do not both give way. Only a verifier cut short (Kill)
\* may prevent it, which can leave a partial file that every later run is
\* refused at.
EvidenceAppears ==
    (\E v \in Verifier : pc[v] = "report")
        ~> (evidence.state = "complete" \/ kills > 0)
=============================================================================
