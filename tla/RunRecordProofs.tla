---------------------------- MODULE RunRecordProofs ---------------------------
(* What holds of trace.jsonl and run.json for any number of approvals, flags  *)
(* and events, whatever overlaps and wherever processes die.                  *)
EXTENDS RunRecord, TLAPS

-----------------------------------------------------------------------------
(* The inductive invariant, in two parts: the trace, and the decisions.       *)

\* The readable lines have a last one.
HasLast ==
    Readable(file) # {} =>
        \E i \in Readable(file) : \A j \in Readable(file) : j <= i

\* A file with no bad line has a line for every event.
OneLinePerEvent ==
    (\A i \in 1 .. Len(file) : file[i].text = "whole") => Len(file) = Len(emitted)

OnlyTheRunHolds ==
    \A i \in DOMAIN emitted : emitted[i].by # Run => emitted[i].note = "finalized"

TraceTyped ==
    /\ file \in Seq(Lines) /\ torn \in BOOLEAN
    /\ emitted \in Seq(Events)
    /\ writerSeq \in [Processes -> Nat]

TraceInv ==
    /\ TraceTyped
    /\ torn => file # <<>>
    /\ HasLast
    /\ ReaderSeesPrefix
    /\ OneLinePerEvent
    /\ OnlyTheRunHolds

Answers == [outcome : {"none", "exhausted", "error"}, flag : {NoFlag}]
           \cup [outcome : {"solved", "candidate"}, flag : Flags]

Labels == {"new", "creating", "running", "decided", "idle", "checked", "chosen",
           "recording", "loaded", "truncated", "done", "refused", "raised", "dead"}

RestTyped ==
    /\ manifest \in Manifests
    /\ pc \in [Processes -> Labels]
    /\ answer \in [Processes -> Answers]
    /\ loaded \in [Processes -> Contents]
    /\ overlap \in BOOLEAN

RunsAnswer == Decided(emitted, answer[Run].outcome, answer[Run].flag)

Choosing(a) ==
    pc[a] = "chosen" => /\ answer[a].outcome = "solved"
                        /\ JudgeWrote(emitted, "pending", answer[a].flag)

Recording(p) ==
    /\ pc[p] = "recording" => Decided(emitted, answer[p].outcome, answer[p].flag)
    /\ pc[p] \in {"loaded", "truncated"} =>
           Decided(emitted, loaded[p].outcome, loaded[p].flag)

VerdictInv ==
    /\ RestTyped
    /\ RunsAnswer
    /\ \A a \in Approvers : Choosing(a)
    /\ \A p \in Processes : Recording(p)
    /\ ManifestWasDecided

RecordInv == TraceInv /\ VerdictInv

\* A step only adds to what was written.
Grows == \A i \in DOMAIN emitted : i \in DOMAIN emitted' /\ emitted'[i] = emitted[i]

-----------------------------------------------------------------------------
(* Lemmas *)

LEMMA ProcessesFacts == Run \in Processes /\ \A a \in Approvers : a \in Processes /\ a # Run
BY RecordAssumption DEF Processes

LEMMA CutTyped ==
  ASSUME NEW t \in {"bad", "undecodable"}
  PROVE  Cut(t) \in Lines /\ Cut(t).text # "whole"
BY ProcessesFacts DEF Cut, Lines, NoEvent, Events

\* What was written, and so what was decided, stays so as the trace grows.
LEMMA WrittenStays ==
  ASSUME Grows, NEW d, NEW g
  PROVE  /\ JudgeWrote(emitted, d, g) => JudgeWrote(emitted', d, g)
         /\ HumanWrote(emitted, d, g) => HumanWrote(emitted', d, g)
BY DEF Grows, JudgeWrote, HumanWrote

LEMMA DecidedStays ==
  ASSUME Grows, NEW o, NEW g, Decided(emitted, o, g)
  PROVE  Decided(emitted', o, g)
BY WrittenStays, Zenon DEF Decided

\* The next line of a file that is not torn, and the joined line of one that is.
LEMMA ExtendedFile ==
  ASSUME TraceInv, NEW l \in Lines, file' = Extended(l)
  PROVE  /\ file' \in Seq(Lines) /\ file' # <<>>
         /\ ~torn => Len(file') = Len(file) + 1 /\ file'[Len(file')] = l
                     /\ \A i \in 1 .. Len(file) : file'[i] = file[i]
         /\ torn => Len(file') = Len(file) /\ file'[Len(file')].text # "whole" /\ Len(file') >= 1
                     /\ \A i \in 1 .. Len(file) : i # Len(file) => file'[i] = file[i]
<1> USE DEF TraceInv, TraceTyped
<1>1. CASE ~torn
  BY <1>1 DEF Extended
<1>2. CASE torn
  <2>0. PICK t \in {"bad", "undecodable"} : file' = [file EXCEPT ![Len(file)] = Cut(t)]
    BY <1>2 DEF Extended
  <2>1. Len(file) \in 1 .. Len(file) /\ file' = [file EXCEPT ![Len(file)] = Cut(t)]
    BY <1>2, <2>0
  <2>2. file' \in Seq(Lines) /\ Len(file') = Len(file) /\ file'[Len(file')] = Cut(t)
    BY <2>1, CutTyped
  <2>3. \A i \in 1 .. Len(file) : i # Len(file) => file'[i] = file[i]
    BY <2>1
  <2>4. Len(file) \in Nat /\ Len(file) >= 1 /\ file' # <<>>
    BY <2>1, <2>2
  <2>5. file'[Len(file')].text # "whole"
    BY <2>2, CutTyped
  <2> QED
    BY <1>2, <2>2, <2>3, <2>4, <2>5
<1> QED
  BY <1>1, <1>2

LEMMA StampedTyped ==
  ASSUME TraceTyped, NEW p \in Processes,
         NEW note, NEW g,
         (note \in {"work", "finished"} /\ g = NoFlag) \/ (note \in Decisions /\ g \in Flags)
  PROVE  Stamped(p, note, g) \in Events
BY DEF TraceTyped, Stamped, Events

\* Readable and the properties of it, without domains.
LEMMA ReadableLines ==
  ASSUME NEW f \in Seq(Lines)
  PROVE  /\ \A i : i \in Readable(f) <=>
                      i \in 1 .. Len(f) /\ \A j \in 1 .. i : f[j].text = "whole"
         /\ \A i \in Readable(f) : i \in Nat
BY DEF Readable

LEMMA LastOfSmaller ==
  ASSUME TraceInv, NEW n \in Nat, file' \in Seq(Lines),
         \A i : i \in Readable(file') <=> i \in Readable(file) /\ i # n,
         n \notin Readable(file) \/ \A i \in Readable(file) : i <= n
  PROVE  HasLast'
<1> USE DEF TraceInv, TraceTyped
<1>1. SUFFICES ASSUME Readable(file') # {}
               PROVE  \E i \in Readable(file') : \A j \in Readable(file') : j <= i
  BY DEF HasLast
<1>2. PICK i \in Readable(file) : \A j \in Readable(file) : j <= i
  BY <1>1 DEF HasLast
<1>3. CASE i # n
  BY <1>2, <1>3
<1>4. CASE i = n
  <2>1. PICK k \in Readable(file') : k \in Readable(file) /\ k # n
    BY <1>1
  <2>2. k \in Nat /\ k <= n /\ n \in 1 .. Len(file)
        /\ \A j \in 1 .. n : file[j].text = "whole"
    BY <1>2, <1>4, <2>1, ReadableLines
  <2>3. n - 1 \in 1 .. Len(file) /\ \A j \in 1 .. n - 1 : file[j].text = "whole"
    BY <2>1, <2>2, ReadableLines
  <2>4. n - 1 \in Readable(file')
    <3>1. n - 1 \in Readable(file)
      BY <2>3, ReadableLines
    <3>2. n - 1 # n
      OBVIOUS
    <3> QED
      BY <3>1, <3>2
  <2>5. \A j \in Readable(file') : j \in Nat /\ j <= n /\ j # n
    BY <1>2, <1>4, ReadableLines
  <2>6. \A j \in Readable(file') : j <= n - 1
    BY <2>5
  <2> QED
    BY <2>4, <2>6
<1> QED
  BY <1>3, <1>4

\* The text of an event reached the file, with or without its newline.
LEMMA TextWritten ==
  ASSUME TraceInv, NEW e \in Events, e.by # Run => e.note = "finalized",
         file' = Extended(Line(e)), emitted' = Append(emitted, e),
         torn' \in BOOLEAN, writerSeq' \in [Processes -> Nat]
  PROVE  TraceInv' /\ Grows
<1>0. Line(e) \in Lines /\ Line(e).text = "whole" /\ Line(e).event = e
  BY DEF Line, Lines
<1>1. /\ file' \in Seq(Lines) /\ file' # <<>>
      /\ ~torn => Len(file') = Len(file) + 1 /\ file'[Len(file')] = Line(e)
                  /\ \A i \in 1 .. Len(file) : file'[i] = file[i]
      /\ torn => Len(file') = Len(file) /\ file'[Len(file')].text # "whole" /\ Len(file') >= 1
                  /\ \A i \in 1 .. Len(file) : i # Len(file) => file'[i] = file[i]
  BY <1>0, ExtendedFile
<1> USE DEF TraceInv, TraceTyped
<1>2. /\ emitted' \in Seq(Events) /\ Len(emitted') = Len(emitted) + 1
      /\ emitted'[Len(emitted')] = e
      /\ \A i \in DOMAIN emitted : i \in DOMAIN emitted' /\ emitted'[i] = emitted[i]
  OBVIOUS
<1>3. Len(file) \in Nat /\ Len(file') \in Nat /\ Len(emitted) \in Nat
  BY <1>1
<1>4. CASE torn
  <2>1. \A i : i \in Readable(file') <=> i \in Readable(file) /\ i # Len(file)
    <3>1. ASSUME NEW i \in Readable(file')
          PROVE  i \in Readable(file) /\ i # Len(file)
      <4>1. i \in 1 .. Len(file) /\ \A j \in 1 .. i : file'[j].text = "whole"
        BY <1>1, <1>4, ReadableLines
      <4>2. i # Len(file)
        BY <1>1, <1>3, <1>4, <4>1
      <4>3. \A j \in 1 .. i : j \in 1 .. Len(file) /\ j # Len(file)
        BY <1>3, <4>1, <4>2
      <4>4. \A j \in 1 .. i : file[j].text = "whole"
        BY <1>1, <1>4, <4>1, <4>3
      <4> QED
        BY <4>1, <4>2, <4>4, ReadableLines
    <3>2. ASSUME NEW i \in Readable(file), i # Len(file)
          PROVE  i \in Readable(file')
      <4>1. i \in 1 .. Len(file) /\ \A j \in 1 .. i : file[j].text = "whole"
        BY ReadableLines
      <4>2. \A j \in 1 .. i : j \in 1 .. Len(file) /\ j # Len(file)
        BY <1>3, <3>2, <4>1
      <4>3. \A j \in 1 .. i : file'[j].text = "whole"
        BY <1>1, <1>4, <4>1, <4>2
      <4> QED
        BY <1>1, <1>4, <4>1, <4>3, ReadableLines
    <3> QED
      BY <3>1, <3>2
  <2>2. HasLast'
    <3>1. \A i \in Readable(file) : i <= Len(file)
      BY <1>3, ReadableLines
    <3> QED
      BY <1>1, <1>3, <2>1, <3>1, LastOfSmaller
  <2>3. ReaderSeesPrefix'
    <3>1. ASSUME NEW i \in Readable(file')
          PROVE  i \in DOMAIN emitted' /\ file'[i].event = emitted'[i]
      <4>1. i \in Readable(file) /\ i \in 1 .. Len(file) /\ i # Len(file)
        BY <2>1, ReadableLines
      <4>2. file'[i] = file[i]
        BY <1>1, <1>4, <4>1
      <4> QED
        BY <1>2, <4>1, <4>2 DEF ReaderSeesPrefix
    <3> QED
      BY <3>1 DEF ReaderSeesPrefix
  <2>4. OneLinePerEvent'
    BY <1>1, <1>3, <1>4 DEF OneLinePerEvent
  <2>5. OnlyTheRunHolds'
    BY <1>2 DEF OnlyTheRunHolds
  <2> QED
    BY <1>1, <1>2, <2>2, <2>3, <2>4, <2>5 DEF Grows
<1>5. CASE ~torn
  <2>0. /\ Len(file') = Len(file) + 1 /\ file'[Len(file')] = Line(e)
        /\ \A i \in 1 .. Len(file) : file'[i] = file[i]
    BY <1>1, <1>5
  <2>1. \A i \in Readable(file) : i \in Readable(file')
    <3>1. SUFFICES ASSUME NEW i \in Readable(file)  PROVE i \in Readable(file')
      OBVIOUS
    <3>2. i \in 1 .. Len(file) /\ \A j \in 1 .. i : file[j].text = "whole"
      BY ReadableLines
    <3>3. i \in 1 .. Len(file') /\ \A j \in 1 .. i : file'[j].text = "whole"
      BY <1>3, <2>0, <3>2
    <3> QED
      BY <1>1, <3>3, ReadableLines
  <2>2. \A i \in Readable(file') : i = Len(file') \/ i \in Readable(file)
    <3>1. SUFFICES ASSUME NEW i \in Readable(file'), i # Len(file')
                   PROVE  i \in Readable(file)
      OBVIOUS
    <3>2. i \in 1 .. Len(file') /\ \A j \in 1 .. i : file'[j].text = "whole"
      BY <1>1, ReadableLines
    <3>3. i \in 1 .. Len(file) /\ \A j \in 1 .. i : file[j].text = "whole"
      BY <1>3, <2>0, <3>1, <3>2
    <3> QED
      BY <3>3, ReadableLines
  <2>3. ASSUME Len(file') \in Readable(file')
        PROVE  Len(file) = Len(emitted)
    <3>1. \A j \in 1 .. Len(file') : file'[j].text = "whole"
      BY <1>1, <2>3, ReadableLines
    <3>2. \A j \in 1 .. Len(file) : file[j].text = "whole"
      BY <1>3, <2>0, <3>1
    <3> QED
      BY <3>2 DEF OneLinePerEvent
  <2>4. HasLast'
    <3>1. CASE Len(file') \in Readable(file')
      <4>1. \A j \in Readable(file') : j <= Len(file')
        BY <1>1, <1>3, ReadableLines
      <4> QED
        BY <3>1, <4>1 DEF HasLast
    <3>2. CASE Len(file') \notin Readable(file')
      <4>1. \A i : i \in Readable(file') <=> i \in Readable(file)
        BY <2>1, <2>2, <3>2
      <4> QED
        BY <4>1 DEF HasLast
    <3> QED
      BY <3>1, <3>2
  <2>5. ReaderSeesPrefix'
    <3>1. ASSUME NEW i \in Readable(file')
          PROVE  i \in DOMAIN emitted' /\ file'[i].event = emitted'[i]
      <4>1. CASE i \in Readable(file)
        <5>1. i \in 1 .. Len(file) /\ file'[i] = file[i]
          BY <2>0, <4>1, ReadableLines
        <5> QED
          BY <1>2, <4>1, <5>1 DEF ReaderSeesPrefix
      <4>2. CASE i = Len(file')
        <5>1. i = Len(emitted')
          BY <1>2, <1>3, <2>0, <2>3, <3>1, <4>2
        <5>2. i \in DOMAIN emitted'
          BY <1>2, <1>3, <5>1
        <5> QED
          BY <1>0, <1>2, <2>0, <4>2, <5>1, <5>2
      <4> QED
        BY <2>2, <3>1, <4>1, <4>2
    <3> QED
      BY <3>1 DEF ReaderSeesPrefix
  <2>6. OneLinePerEvent'
    <3>1. SUFFICES ASSUME \A j \in 1 .. Len(file') : file'[j].text = "whole"
                   PROVE  Len(file') = Len(emitted')
      BY DEF OneLinePerEvent
    <3>2. \A j \in 1 .. Len(file) : file[j].text = "whole"
      BY <1>3, <2>0, <3>1
    <3> QED
      BY <1>2, <2>0, <3>2 DEF OneLinePerEvent
  <2>7. OnlyTheRunHolds'
    BY <1>2 DEF OnlyTheRunHolds
  <2> QED
    BY <1>1, <1>2, <2>4, <2>5, <2>6, <2>7 DEF Grows
<1> QED
  BY <1>4, <1>5

\* The text was cut short.
LEMMA TextCut ==
  ASSUME TraceInv, NEW t \in {"bad", "undecodable"},
         file' = Extended(Cut(t)), emitted' = emitted,
         torn' \in BOOLEAN, writerSeq' \in [Processes -> Nat]
  PROVE  TraceInv' /\ Grows
<1>0. Cut(t) \in Lines /\ Cut(t).text # "whole"
  BY CutTyped
<1>1. /\ file' \in Seq(Lines) /\ file' # <<>>
      /\ Len(file') >= Len(file) /\ file'[Len(file')].text # "whole" /\ Len(file') >= 1
      /\ \A i \in 1 .. Len(file) : i # Len(file') => file'[i] = file[i]
      /\ Len(file') # Len(file) => Len(file') = Len(file) + 1
  <2>1. CASE torn
    BY <1>0, <2>1, ExtendedFile
  <2>2. CASE ~torn
    BY <1>0, <2>2, ExtendedFile DEF TraceInv, TraceTyped
  <2> QED
    BY <2>1, <2>2
<1> USE DEF TraceInv, TraceTyped
<1>3. Len(file) \in Nat /\ Len(file') \in Nat
  BY <1>1
<1>4. \A i : i \in Readable(file') <=> i \in Readable(file) /\ i # Len(file')
  <2>1. ASSUME NEW i \in Readable(file')
        PROVE  i \in Readable(file) /\ i # Len(file')
    <3>1. i \in 1 .. Len(file') /\ \A j \in 1 .. i : file'[j].text = "whole"
      BY <1>1, ReadableLines
    <3>2. i # Len(file')
      BY <1>1, <1>3, <3>1
    <3>3. i \in 1 .. Len(file) /\ \A j \in 1 .. i : j \in 1 .. Len(file) /\ j # Len(file')
      BY <1>1, <1>3, <3>1, <3>2
    <3>4. \A j \in 1 .. i : file[j].text = "whole"
      BY <1>1, <3>1, <3>3
    <3> QED
      BY <3>2, <3>3, <3>4, ReadableLines
  <2>2. ASSUME NEW i \in Readable(file), i # Len(file')
        PROVE  i \in Readable(file')
    <3>1. i \in 1 .. Len(file) /\ \A j \in 1 .. i : file[j].text = "whole"
      BY ReadableLines
    <3>2. /\ i \in 1 .. Len(file')
          /\ \A j \in 1 .. i : j \in 1 .. Len(file) /\ j # Len(file')
      BY <1>1, <1>3, <2>2, <3>1
    <3>3. \A j \in 1 .. i : file'[j].text = "whole"
      BY <1>1, <3>1, <3>2
    <3> QED
      BY <1>1, <3>2, <3>3, ReadableLines
  <2> QED
    BY <2>1, <2>2
<1>5. HasLast'
  <2>1. \A i \in Readable(file) : i <= Len(file')
    BY <1>1, <1>3, ReadableLines
  <2> QED
    BY <1>1, <1>3, <1>4, <2>1, LastOfSmaller
<1>6. ReaderSeesPrefix'
  <2>1. ASSUME NEW i \in Readable(file')
        PROVE  i \in DOMAIN emitted' /\ file'[i].event = emitted'[i]
    <3>1. i \in Readable(file) /\ i \in 1 .. Len(file) /\ i # Len(file')
      BY <1>4, ReadableLines
    <3> QED
      BY <1>1, <3>1 DEF ReaderSeesPrefix
  <2> QED
    BY <2>1 DEF ReaderSeesPrefix
<1>7. OneLinePerEvent'
  BY <1>1, <1>3 DEF OneLinePerEvent
<1>8. OnlyTheRunHolds' /\ Grows
  BY DEF OnlyTheRunHolds, Grows
<1> QED
  BY <1>1, <1>5, <1>6, <1>7, <1>8

LEMMA EmitKeeps ==
  ASSUME TraceInv, NEW p \in Processes, NEW note, NEW g,
         Stamped(p, note, g) \in Events,
         p # Run => note = "finalized",
         Emit(p, note, g) \/ EmitTorn(p, note, g)
  PROVE  TraceInv' /\ Grows
<1>1. Stamped(p, note, g).by = p /\ Stamped(p, note, g).note = note
  BY DEF Stamped
<1>2. CASE Emit(p, note, g)
  <2>0. writerSeq \in [Processes -> Nat]
    BY DEF TraceInv, TraceTyped
  <2>1. writerSeq' = [writerSeq EXCEPT ![p] = writerSeq[p] + 1] /\ torn' \in BOOLEAN
    BY <1>2 DEF Emit
  <2>2. writerSeq' \in [Processes -> Nat]
    BY <2>0, <2>1
  <2> QED
    BY <1>1, <1>2, <2>1, <2>2, TextWritten DEF Emit
<1>3. CASE EmitTorn(p, note, g)
  <2>1. writerSeq' \in [Processes -> Nat] /\ torn' \in BOOLEAN
    BY <1>3 DEF EmitTorn, TraceInv, TraceTyped
  <2> QED
    BY <1>1, <1>3, <2>1, TextWritten, TextCut DEF EmitTorn
<1> QED
  BY <1>2, <1>3

-----------------------------------------------------------------------------
(* What a process takes from the trace *)

\* A held flag is one the judge held: an approval writes no `pending`.
LEMMA HeldWasWritten ==
  ASSUME TraceInv, NEW g \in Held(file)
  PROVE  g \in Flags /\ JudgeWrote(emitted, "pending", g)
<1>1. g \in Flags
  BY DEF Held
<1>2. PICK i \in Readable(file) :
          DecisionOn(file[i].event, g) /\ file[i].event.note = "pending"
  BY DEF Held
<1>3. i \in DOMAIN emitted /\ emitted[i].note = "pending" /\ emitted[i].flag = g
  BY <1>2 DEF TraceInv, ReaderSeesPrefix, DecisionOn
<1>4. emitted[i].by = Run
  BY <1>3 DEF TraceInv, OnlyTheRunHolds
<1> QED
  BY <1>1, <1>3, <1>4 DEF JudgeWrote

LEMMA LastSeqTyped ==
  ASSUME TraceInv
  PROVE  LastSeq(file) \in Nat
<1>1. CASE Readable(file) = {}
  BY <1>1 DEF LastSeq
<1>2. CASE Readable(file) # {}
  <2> DEFINE last == CHOOSE i \in Readable(file) : \A j \in Readable(file) : j <= i
  <2>1. last \in Readable(file)
    BY <1>2 DEF TraceInv, HasLast
  <2>2. last \in 1 .. Len(file)
    BY <2>1, ReadableLines DEF TraceInv, TraceTyped
  <2>3. file[last] \in Lines
    BY <2>2 DEF TraceInv, TraceTyped
  <2>4. file[last].event \in Events
    BY <2>3 DEF Lines
  <2>5. file[last].event.seq \in Nat
    BY <2>4 DEF Events
  <2> QED
    BY <1>2, <2>5 DEF LastSeq
<1> QED
  BY <1>1, <1>2

-----------------------------------------------------------------------------
(* A step of one process.  What the others do, and what they know, is as it   *)
(* was; the trace has grown.                                                  *)

LEMMA OneMoves ==
  ASSUME VerdictInv, Grows, RestTyped', NEW p \in Processes,
         \A q \in Processes : q # p => /\ pc'[q] = pc[q] /\ answer'[q] = answer[q]
                                       /\ loaded'[q] = loaded[q],
         p = Run => RunsAnswer',
         p # Run => Choosing(p)',
         Recording(p)',
         ManifestWasDecided'
  PROVE  VerdictInv'
<1>1. RunsAnswer'
  BY DecidedStays, ProcessesFacts DEF VerdictInv, RunsAnswer
<1>2. ASSUME NEW a \in Approvers  PROVE Choosing(a)'
  <2>1. CASE a = p
    BY <2>1, ProcessesFacts
  <2>2. CASE a # p
    BY <2>2, WrittenStays, ProcessesFacts DEF VerdictInv, Choosing
  <2> QED
    BY <2>1, <2>2
<1>3. ASSUME NEW q \in Processes  PROVE Recording(q)'
  <2>1. CASE q = p
    BY <2>1
  <2>2. CASE q # p
    BY <2>2, DecidedStays DEF VerdictInv, Recording
  <2> QED
    BY <2>1, <2>2
<1> QED
  BY <1>1, <1>2, <1>3 DEF VerdictInv

\* The trace is not touched.
LEMMA TraceUntouched ==
  ASSUME TraceInv, UNCHANGED <<file, torn, emitted>>, writerSeq' \in [Processes -> Nat]
  PROVE  TraceInv' /\ Grows
BY DEF TraceInv, TraceTyped, HasLast, ReaderSeesPrefix, OneLinePerEvent, OnlyTheRunHolds,
       Grows

\* The manifest is not touched.
LEMMA ManifestUntouched ==
  ASSUME VerdictInv, Grows, manifest' = manifest
  PROVE  ManifestWasDecided'
BY DecidedStays DEF VerdictInv, ManifestWasDecided

LEMMA ContentsTyped ==
  /\ Blank \in Contents
  /\ \A s \in {"absent", "empty", "garbled"} : Broken(s) \in Manifests
  /\ \A c \in Contents : Whole(c) \in Manifests
<1>1. Blank \in Contents
  BY DEF Blank, Contents
<1> QED
  BY <1>1 DEF Broken, Whole, Manifests

LEMMA UpdatedTyped ==
  ASSUME RestTyped, NEW p \in Processes
  PROVE  Updated(p, manifest.content) \in Contents
<1>1. answer[p] \in Answers
  BY DEF RestTyped
<1>2. \A b \in BOOLEAN : [outcome |-> answer[p].outcome, flag |-> answer[p].flag,
                          approved |-> b] \in Contents
  BY <1>1 DEF Answers, Contents
<1>3. (manifest.content.approved \/ p # Run) \in BOOLEAN
  OBVIOUS
<1> QED
  BY <1>2, <1>3, Zenon DEF Updated

\* A blank manifest claims nothing.
LEMMA BlankIsDecided == \A log, g : Decided(log, "none", g) /\ Decided(log, "error", g)
                                    /\ Decided(log, "exhausted", g)
BY DEF Decided

\* What the run emits is typed.
LEMMA RunStamps ==
  ASSUME TraceInv
  PROVE  /\ Stamped(Run, "work", NoFlag) \in Events
         /\ Stamped(Run, "finished", NoFlag) \in Events
         /\ \A d \in Decisions, g \in Flags : Stamped(Run, d, g) \in Events
BY ProcessesFacts, StampedTyped DEF TraceInv

LEMMA ApprovalStamps ==
  ASSUME TraceInv, NEW a \in Approvers, NEW g \in Flags
  PROVE  Stamped(a, "finalized", g) \in Events
BY ProcessesFacts, StampedTyped DEF TraceInv, Decisions

\* A chosen flag is a flag.
LEMMA ChosenFlag ==
  ASSUME RecordInv, NEW a \in Approvers, pc[a] = "chosen"
  PROVE  answer[a].flag \in Flags
<1>1. answer[a] \in Answers /\ answer[a].outcome = "solved"
  BY ProcessesFacts DEF RecordInv, VerdictInv, RestTyped, Choosing
<1> QED
  BY <1>1 DEF Answers

-----------------------------------------------------------------------------
(* Every step keeps the trace *)

LEMMA TraceStep ==
  ASSUME RecordInv, [Next]_vars
  PROVE  TraceInv' /\ Grows
<1>0. TraceInv /\ writerSeq \in [Processes -> Nat]
  BY DEF RecordInv, TraceInv, TraceTyped
<1>1. CASE UNCHANGED traceVars
  BY <1>0, <1>1, TraceUntouched DEF traceVars
<1>2. CASE Work
  BY <1>0, <1>2, EmitKeeps, RunStamps, ProcessesFacts DEF Work, Decisions
<1>3. CASE Decide
  BY <1>0, <1>3, EmitKeeps, RunStamps, ProcessesFacts DEF Decide, Decisions
<1>4. CASE FinishDecided \/ FinishEmptyHanded
  BY <1>0, <1>4, EmitKeeps, RunStamps, ProcessesFacts DEF FinishDecided, FinishEmptyHanded
<1>5. CASE RunTorn
  BY <1>0, <1>5, EmitKeeps, RunStamps, ProcessesFacts DEF RunTorn
<1>6. ASSUME NEW a \in Approvers, Choose(a)
      PROVE  TraceInv' /\ Grows
  <2>1. writerSeq' \in [Processes -> Nat]
    BY <1>0, <1>6, LastSeqTyped, ProcessesFacts DEF Choose
  <2> QED
    BY <1>0, <1>6, <2>1, TraceUntouched DEF Choose
<1>7. ASSUME NEW a \in Approvers, Approve(a) \/ ApproveTorn(a)
      PROVE  TraceInv' /\ Grows
  <2>1. Stamped(a, "finalized", answer[a].flag) \in Events
    BY <1>0, <1>7, ChosenFlag, ApprovalStamps DEF Approve, ApproveTorn
  <2> QED
    BY <1>0, <1>7, <2>1, EmitKeeps, ProcessesFacts DEF Approve, ApproveTorn
<1>8. CASE CreateManifest \/ FillManifest \/ Break
  BY <1>1, <1>8 DEF CreateManifest, FillManifest, Break
<1>9. ASSUME NEW a \in Approvers, CheckManifest(a) \/ Refuse(a) \/ ReadRaises(a)
      PROVE  TraceInv' /\ Grows
  BY <1>1, <1>9 DEF CheckManifest, Refuse, ReadRaises
<1>10. ASSUME NEW p \in Processes, Record(p) \/ Die(p)
       PROVE  TraceInv' /\ Grows
  BY <1>1, <1>10 DEF Record, LoadManifest, TruncateManifest, WriteManifest, Die
<1>11. CASE UNCHANGED vars
  BY <1>1, <1>11 DEF vars, traceVars
<1> QED
  BY <1>2, <1>3, <1>4, <1>5, <1>6, <1>7, <1>8, <1>9, <1>10, <1>11
     DEF Next, RunNext, ApproverNext

-----------------------------------------------------------------------------
(* Every step keeps the decisions *)

LEMMA JustWritten ==
  ASSUME TraceInv, NEW p \in Processes, NEW note, NEW g, Emit(p, note, g)
  PROVE  /\ p = Run => JudgeWrote(emitted', note, g)
         /\ p # Run => HumanWrote(emitted', note, g)
<1>1. /\ Len(emitted) + 1 \in DOMAIN emitted'
      /\ emitted'[Len(emitted) + 1] = Stamped(p, note, g)
  BY DEF Emit, TraceInv, TraceTyped
<1>2. /\ Stamped(p, note, g).by = p /\ Stamped(p, note, g).note = note
      /\ Stamped(p, note, g).flag = g
  BY DEF Stamped
<1> QED
  BY <1>1, <1>2 DEF JudgeWrote, HumanWrote

\* A process goes where nothing is asked of it, and changes nothing else.
LEMMA OnlyGoes ==
  ASSUME RecordInv, Grows, NEW p \in Processes, NEW label \in Labels,
         label \notin {"chosen", "recording", "loaded", "truncated"},
         Goto(p, label), UNCHANGED recordVars, overlap' \in BOOLEAN
  PROVE  VerdictInv'
<1>1. RestTyped'
  BY DEF RecordInv, VerdictInv, RestTyped, Goto, recordVars
<1>2. pc'[p] = label /\ \A q \in Processes : q # p => pc'[q] = pc[q]
  BY DEF RecordInv, VerdictInv, RestTyped, Goto
<1>3. Choosing(p)' /\ Recording(p)'
  BY <1>2 DEF Choosing, Recording
<1>4. RunsAnswer'
  BY DecidedStays DEF RecordInv, VerdictInv, RunsAnswer, recordVars
<1> QED
  BY <1>1, <1>2, <1>3, <1>4, OneMoves, ManifestUntouched DEF RecordInv, recordVars

LEMMA VerdictStep ==
  ASSUME RecordInv, [Next]_vars
  PROVE  VerdictInv'
<1>0. Grows /\ TraceInv /\ VerdictInv /\ RestTyped
  BY TraceStep DEF RecordInv, VerdictInv
<1>1. CASE Work
  <2>1. UNCHANGED <<pc, recordVars, overlap>>
    BY <1>1 DEF Work
  <2>2. RestTyped' /\ RunsAnswer' /\ Recording(Run)'
    BY <1>0, <2>1, DecidedStays, ProcessesFacts
       DEF VerdictInv, RestTyped, RunsAnswer, Recording, recordVars
  <2> QED
    BY <1>0, <2>1, <2>2, OneMoves, ManifestUntouched, ProcessesFacts DEF recordVars
<1>2. CASE Decide
  <2>1. PICK g \in Flags, d \in {"finalized", "pending"} :
            /\ Emit(Run, d, g)
            /\ answer' = [answer EXCEPT ![Run] =
                   [outcome |-> IF d = "finalized" THEN "solved" ELSE "candidate",
                    flag |-> g]]
            /\ Goto(Run, "decided")
            /\ UNCHANGED <<manifest, loaded, overlap>>
    BY <1>2 DEF Decide
  <2>2. JudgeWrote(emitted', d, g)
    BY <1>0, <2>1, JustWritten, ProcessesFacts
  <2>3. RestTyped'
    BY <1>0, <2>1, ProcessesFacts DEF RestTyped, Goto, Labels, Answers
  <2>4. /\ answer'[Run] = [outcome |-> IF d = "finalized" THEN "solved" ELSE "candidate",
                           flag |-> g]
        /\ pc'[Run] = "decided"
        /\ \A q \in Processes : q # Run => pc'[q] = pc[q] /\ answer'[q] = answer[q]
    BY <1>0, <2>1, ProcessesFacts DEF RestTyped, Goto
  <2>5. RunsAnswer'
    BY <2>2, <2>4 DEF RunsAnswer, Decided
  <2>6. Recording(Run)'
    BY <2>4 DEF Recording
  <2> QED
    BY <1>0, <2>1, <2>3, <2>4, <2>5, <2>6, OneMoves, ManifestUntouched, ProcessesFacts
<1>3. CASE FinishDecided
  <2>1. UNCHANGED <<recordVars, overlap>> /\ Goto(Run, "recording")
    BY <1>3 DEF FinishDecided
  <2>2. pc'[Run] = "recording" /\ \A q \in Processes : q # Run => pc'[q] = pc[q]
    BY <1>0, <2>1, ProcessesFacts DEF RestTyped, Goto
  <2>3. RestTyped'
    BY <1>0, <2>1 DEF RestTyped, Goto, recordVars, Labels
  <2>4. RunsAnswer'
    BY <1>0, <2>1, DecidedStays DEF VerdictInv, RunsAnswer, recordVars
  <2>5. Recording(Run)'
    BY <2>2, <2>4 DEF Recording, RunsAnswer
  <2> QED
    BY <1>0, <2>1, <2>2, <2>3, <2>4, <2>5, OneMoves, ManifestUntouched, ProcessesFacts
       DEF recordVars
<1>4. CASE FinishEmptyHanded \/ Break
  <2>1. PICK o \in {"exhausted", "error"} :
            answer' = [answer EXCEPT ![Run] = [outcome |-> o, flag |-> NoFlag]]
    BY <1>4 DEF FinishEmptyHanded, Break
  <2>2. Goto(Run, "recording") /\ UNCHANGED <<manifest, loaded, overlap>>
    BY <1>4 DEF FinishEmptyHanded, Break
  <2>3. /\ answer'[Run] = [outcome |-> o, flag |-> NoFlag] /\ pc'[Run] = "recording"
        /\ \A q \in Processes : q # Run => pc'[q] = pc[q] /\ answer'[q] = answer[q]
    BY <1>0, <2>1, <2>2, ProcessesFacts DEF RestTyped, Goto
  <2>4. RestTyped'
    BY <1>0, <2>1, <2>2, ProcessesFacts DEF RestTyped, Goto, Labels, Answers
  <2>5. RunsAnswer' /\ Recording(Run)'
    BY <2>3, BlankIsDecided DEF RunsAnswer, Recording
  <2> QED
    BY <1>0, <2>2, <2>3, <2>4, <2>5, OneMoves, ManifestUntouched, ProcessesFacts
<1>5. CASE RunTorn
  BY <1>0, <1>5, OnlyGoes, ProcessesFacts
     DEF RunTorn, EmitTorn, Labels, RestTyped, recordVars
<1>6. CASE CreateManifest \/ FillManifest
  <2>1. \E m \in {Broken("empty"), Whole(Blank)}, label \in {"creating", "running"} :
            manifest' = m /\ Goto(Run, label) /\ UNCHANGED <<answer, loaded, overlap>>
    BY <1>6 DEF CreateManifest, FillManifest
  <2>2. RestTyped'
    BY <1>0, <2>1, ContentsTyped DEF RestTyped, Goto, Labels
  <2>3. pc'[Run] \in {"creating", "running"} /\ \A q \in Processes : q # Run => pc'[q] = pc[q]
    BY <1>0, <2>1, ProcessesFacts DEF RestTyped, Goto
  <2>4. RunsAnswer' /\ Recording(Run)'
    BY <1>0, <2>1, <2>3, DecidedStays DEF VerdictInv, RunsAnswer, Recording
  <2>5. ManifestWasDecided'
    BY <2>1, BlankIsDecided DEF ManifestWasDecided, Broken, Whole, Blank
  <2> QED
    BY <1>0, <2>1, <2>2, <2>3, <2>4, <2>5, OneMoves, ProcessesFacts
<1>7. ASSUME NEW a \in Approvers, CheckManifest(a)
      PROVE  VerdictInv'
  <2>1. \E label \in {"refused", "checked", "dead"} : Goto(a, label)
    BY <1>7 DEF CheckManifest
  <2>2. UNCHANGED recordVars /\ overlap' \in BOOLEAN
    BY <1>7 DEF CheckManifest
  <2> QED
    BY <1>0, <2>1, <2>2, OnlyGoes, ProcessesFacts DEF Labels
<1>8. ASSUME NEW a \in Approvers, Choose(a)
      PROVE  VerdictInv'
  <2>1. PICK g \in Held(file) :
            answer' = [answer EXCEPT ![a] = [outcome |-> "solved", flag |-> g]]
    BY <1>8 DEF Choose
  <2>2. Goto(a, "chosen") /\ UNCHANGED <<emitted, manifest, loaded, overlap>>
    BY <1>8 DEF Choose
  <2>3. g \in Flags /\ JudgeWrote(emitted', "pending", g)
    BY <1>0, <2>2, HeldWasWritten
  <2>4. /\ answer'[a] = [outcome |-> "solved", flag |-> g] /\ pc'[a] = "chosen"
        /\ \A q \in Processes : q # a => pc'[q] = pc[q] /\ answer'[q] = answer[q]
    BY <1>0, <2>1, <2>2, ProcessesFacts DEF RestTyped, Goto
  <2>5. RestTyped'
    BY <1>0, <2>1, <2>2, <2>3 DEF RestTyped, Goto, Labels, Answers
  <2>6. Choosing(a)' /\ Recording(a)'
    BY <2>3, <2>4 DEF Choosing, Recording
  <2> QED
    BY <1>0, <2>2, <2>4, <2>5, <2>6, OneMoves, ManifestUntouched, ProcessesFacts
<1>9. ASSUME NEW a \in Approvers, Approve(a)
      PROVE  VerdictInv'
  <2>1. /\ pc[a] = "chosen" /\ Emit(a, "finalized", answer[a].flag)
        /\ Goto(a, "recording") /\ UNCHANGED <<recordVars, overlap>>
    BY <1>9 DEF Approve
  <2>2. HumanWrote(emitted', "finalized", answer[a].flag)
    BY <1>0, <2>1, JustWritten, ProcessesFacts
  <2>3. answer[a].outcome = "solved" /\ JudgeWrote(emitted', "pending", answer[a].flag)
    BY <1>0, <2>1, WrittenStays DEF VerdictInv, Choosing
  <2>4. pc'[a] = "recording" /\ \A q \in Processes : q # a => pc'[q] = pc[q]
    BY <1>0, <2>1, ProcessesFacts DEF RestTyped, Goto
  <2>5. RestTyped'
    BY <1>0, <2>1 DEF RestTyped, Goto, recordVars, Labels
  <2>6. Choosing(a)' /\ Recording(a)'
    BY <2>1, <2>2, <2>3, <2>4 DEF Choosing, Recording, Decided, recordVars
  <2> QED
    BY <1>0, <2>1, <2>4, <2>5, <2>6, OneMoves, ManifestUntouched, ProcessesFacts
       DEF recordVars
<1>10. ASSUME NEW a \in Approvers, Refuse(a) \/ ReadRaises(a) \/ ApproveTorn(a)
       PROVE  VerdictInv'
  BY <1>0, <1>10, OnlyGoes, ProcessesFacts
     DEF Refuse, ReadRaises, ApproveTorn, EmitTorn, Labels, RestTyped, recordVars
<1>11. ASSUME NEW p \in Processes, LoadManifest(p)
       PROVE  VerdictInv'
  <2>1. CASE manifest.state = "whole"
    <3>1. /\ pc[p] = "recording" /\ Goto(p, "loaded")
          /\ loaded' = [loaded EXCEPT ![p] = Updated(p, manifest.content)]
          /\ UNCHANGED <<emitted, manifest, answer, overlap>>
      BY <1>11, <2>1 DEF LoadManifest, traceVars
    <3>2. /\ pc'[p] = "loaded" /\ loaded'[p] = Updated(p, manifest.content)
          /\ \A q \in Processes : q # p => pc'[q] = pc[q] /\ loaded'[q] = loaded[q]
      BY <1>0, <3>1 DEF RestTyped, Goto
    <3>3. RestTyped'
      BY <1>0, <3>1, UpdatedTyped DEF RestTyped, Goto, Labels
    <3>4. Decided(emitted', answer[p].outcome, answer[p].flag)
      BY <1>0, <3>1, DecidedStays DEF VerdictInv, Recording
    <3>5. loaded'[p].outcome = answer[p].outcome /\ loaded'[p].flag = answer[p].flag
      BY <3>2 DEF Updated
    <3>6. Choosing(p)' /\ Recording(p)'
      BY <3>2, <3>4, <3>5 DEF Choosing, Recording
    <3>7. RunsAnswer'
      BY <1>0, <3>1, DecidedStays DEF VerdictInv, RunsAnswer
    <3> QED
      BY <1>0, <3>1, <3>2, <3>3, <3>6, <3>7, OneMoves, ManifestUntouched
  <2>2. CASE manifest.state # "whole"
    <3>1. Goto(p, "dead") /\ UNCHANGED recordVars /\ overlap' = overlap
      BY <1>11, <2>2 DEF LoadManifest, recordVars
    <3>2. overlap' \in BOOLEAN
      BY <1>0, <3>1 DEF RestTyped
    <3> QED
      BY <1>0, <3>1, <3>2, OnlyGoes DEF Labels
  <2> QED
    BY <2>1, <2>2
<1>12. ASSUME NEW p \in Processes, TruncateManifest(p) \/ WriteManifest(p)
       PROVE  VerdictInv'
  <2>1. PICK label \in {"truncated", "done"} :
            Goto(p, label) /\ pc[p] \in {"loaded", "truncated"}
    BY <1>12 DEF TruncateManifest, WriteManifest
  <2>2. UNCHANGED <<answer, loaded, emitted, overlap>>
    BY <1>12 DEF TruncateManifest, WriteManifest, traceVars
  <2>3. \/ manifest' \in {Broken("empty"), Broken("garbled")}
        \/ manifest' = Whole(loaded[p])
    BY <1>12 DEF TruncateManifest, WriteManifest
  <2>4. pc'[p] = label /\ \A q \in Processes : q # p => pc'[q] = pc[q]
    BY <1>0, <2>1 DEF RestTyped, Goto
  <2>5. RestTyped'
    BY <1>0, <2>1, <2>2, <2>3, ContentsTyped DEF RestTyped, Goto, Labels
  <2>6. Decided(emitted', loaded[p].outcome, loaded[p].flag)
    BY <1>0, <2>1, DecidedStays DEF VerdictInv, Recording
  <2>7. ManifestWasDecided'
    BY <2>3, <2>6, BlankIsDecided DEF ManifestWasDecided, Broken, Whole, Blank
  <2>8. Choosing(p)' /\ Recording(p)'
    BY <2>1, <2>2, <2>4, <2>6 DEF Choosing, Recording
  <2>9. RunsAnswer'
    BY <1>0, <2>2, DecidedStays DEF VerdictInv, RunsAnswer
  <2> QED
    BY <1>0, <2>2, <2>4, <2>5, <2>7, <2>8, <2>9, OneMoves
<1>13. ASSUME NEW p \in Processes, Die(p)
       PROVE  VerdictInv'
  BY <1>0, <1>13, OnlyGoes DEF Die, Labels, RestTyped
<1>14. CASE UNCHANGED vars
  BY <1>0, <1>14 DEF VerdictInv, RestTyped, RunsAnswer, Choosing, Recording,
     ManifestWasDecided, vars
<1> QED
  BY <1>1, <1>2, <1>3, <1>4, <1>5, <1>6, <1>7, <1>8, <1>9, <1>10, <1>11, <1>12, <1>13,
     <1>14 DEF Next, RunNext, ApproverNext, Record

-----------------------------------------------------------------------------
(* The theorems *)

LEMMA RecordInit == Init => RecordInv
<1> SUFFICES ASSUME Init PROVE RecordInv
  OBVIOUS
<1>0. TraceTyped /\ ~torn /\ file = <<>> /\ emitted = <<>>
  <2>1. torn \in BOOLEAN /\ ~torn /\ file = <<>> /\ emitted = <<>>
    BY Zenon DEF Init
  <2>2. writerSeq \in [Processes -> Nat]
    BY DEF Init
  <2>3. file \in Seq(Lines) /\ emitted \in Seq(Events)
    BY <2>1
  <2> QED
    BY <2>1, <2>2, <2>3, Zenon DEF TraceTyped
<1>1. TraceInv
  <2>1. Readable(file) = {}
    BY <1>0 DEF Readable
  <2>2. HasLast /\ ReaderSeesPrefix
    BY <2>1 DEF HasLast, ReaderSeesPrefix
  <2>3. OneLinePerEvent
    BY <1>0 DEF OneLinePerEvent
  <2>4. OnlyTheRunHolds
    BY <1>0 DEF OnlyTheRunHolds
  <2> QED
    BY <1>0, <2>2, <2>3, <2>4, Zenon DEF TraceInv
<1>2. RestTyped
  BY ContentsTyped DEF Init, RestTyped, Labels, Answers
<1>3. \A p \in Processes : pc[p] \in {"new", "idle"} /\ answer[p].outcome = "none"
  BY DEF Init
<1>4. RunsAnswer /\ ManifestWasDecided
  BY <1>3, BlankIsDecided, ProcessesFacts
     DEF Init, RunsAnswer, ManifestWasDecided, Broken, Blank
<1>5. /\ \A a \in Approvers : Choosing(a)
      /\ \A p \in Processes : Recording(p)
  BY <1>3, ProcessesFacts DEF Choosing, Recording
<1> QED
  BY <1>1, <1>2, <1>4, <1>5 DEF RecordInv, VerdictInv

LEMMA RecordInvHolds == Spec => []RecordInv
<1>1. RecordInv /\ [Next]_vars => RecordInv'
  BY TraceStep, VerdictStep DEF RecordInv
<1> QED
  BY <1>1, RecordInit, PTL DEF Spec

\* Every variable keeps its type, the outcome and the flag of run.json among
\* them: a solved or held run has a flag, any other has none.
THEOREM RecordTyped == Spec => []TypeOK
<1>1. TraceTyped /\ RestTyped => TypeOK
  BY Zenon DEF TraceTyped, RestTyped, TypeOK, Labels, Answers
<1>2. RecordInv => TypeOK
  BY <1>1, Zenon DEF RecordInv, TraceInv, VerdictInv
<1> QED
  BY <1>2, RecordInvHolds, PTL

\* What a reader of trace.jsonl is given is a prefix of what was written,
\* wherever lines were cut and whatever was appended to them.
THEOREM ReadersSeeAPrefix == Spec => []ReaderSeesPrefix
<1>1. RecordInv => ReaderSeesPrefix
  BY DEF RecordInv, TraceInv
<1> QED
  BY <1>1, RecordInvHolds, PTL

\* run.json claims a flag only when the trace was given the decisions for it,
\* for any number of approvals at once and any crashes.
THEOREM RecordWasDecided == Spec => []ManifestWasDecided
<1>1. RecordInv => ManifestWasDecided
  BY DEF RecordInv, VerdictInv
<1> QED
  BY <1>1, RecordInvHolds, PTL

-----------------------------------------------------------------------------
(* Processes that take turns.                                                 *)

Active(p) == pc[p] \notin AtRest

Alone == \A p, q \in Processes : Active(p) /\ Active(q) => p = q

\* Before run.json is filled there is nothing to read, and no approval reads.
NothingYet ==
    pc[Run] \in {"new", "creating"} =>
        /\ file = <<>> /\ manifest.state # "whole"
        /\ \A a \in Approvers : pc[a] \in {"idle", "refused", "dead"}

\* run.json is missing exactly until the run starts.
AbsentAtFirst == manifest.state = "absent" <=> pc[Run] = "new"

Increasing ==
    \A i, j \in Readable(file) : i < j => file[i].event.seq < file[j].event.seq

\* A process that is going to write has counted every event a reader is given.
Ahead ==
    \A p \in Processes : pc[p] \in {"running", "decided", "chosen"} =>
        \A i \in Readable(file) : file[i].event.seq <= writerSeq[p]

SeqInv ==
    /\ NothingYet
    /\ AbsentAtFirst
    /\ ~overlap => Alone /\ Increasing /\ Ahead

-----------------------------------------------------------------------------
(* The order of the seqs                                                      *)

\* A line appended is read only after every line before it, and only if none
\* was torn; a line that is read was read before, or is that one.
LEMMA NowReadable ==
  ASSUME TraceInv, NEW l \in Lines, file' = Extended(l), NEW i \in Readable(file')
  PROVE  \/ i \in Readable(file) /\ file'[i] = file[i]
         \/ ~torn /\ i = Len(file) + 1 /\ file'[i] = l /\ l.text = "whole"
<1>1. /\ file' \in Seq(Lines) /\ file' # <<>>
      /\ ~torn => Len(file') = Len(file) + 1 /\ file'[Len(file')] = l
                  /\ \A k \in 1 .. Len(file) : file'[k] = file[k]
      /\ torn => Len(file') = Len(file) /\ file'[Len(file')].text # "whole" /\ Len(file') >= 1
                  /\ \A k \in 1 .. Len(file) : k # Len(file) => file'[k] = file[k]
  BY ExtendedFile
<1>2. file \in Seq(Lines) /\ torn \in BOOLEAN
  BY DEF TraceInv, TraceTyped
<1>3. Len(file) \in Nat /\ Len(file') \in Nat
  BY <1>1, <1>2
<1>4. i \in 1 .. Len(file') /\ \A j \in 1 .. i : file'[j].text = "whole"
  BY <1>1, ReadableLines
<1>5. CASE torn
  <2>1. i # Len(file)
    BY <1>1, <1>4, <1>5
  <2>2. i \in 1 .. Len(file) /\ \A j \in 1 .. i : j \in 1 .. Len(file) /\ j # Len(file)
    BY <1>1, <1>3, <1>4, <1>5, <2>1
  <2>3. file'[i] = file[i] /\ \A j \in 1 .. i : file[j].text = "whole"
    BY <1>1, <1>4, <1>5, <2>1, <2>2
  <2> QED
    BY <1>2, <2>2, <2>3, ReadableLines
<1>6. CASE ~torn /\ i = Len(file')
  <2>1. i = Len(file) + 1 /\ file'[i] = l
    BY <1>1, <1>6
  <2>2. l.text = "whole"
    BY <1>4, <2>1
  <2> QED
    BY <1>6, <2>1, <2>2
<1>7. CASE ~torn /\ i # Len(file')
  <2>1. i \in 1 .. Len(file) /\ \A j \in 1 .. i : j \in 1 .. Len(file)
    BY <1>1, <1>3, <1>4, <1>7
  <2>2. file'[i] = file[i] /\ \A j \in 1 .. i : file[j].text = "whole"
    BY <1>1, <1>4, <1>7, <2>1
  <2> QED
    BY <1>2, <2>1, <2>2, ReadableLines
<1> QED
  BY <1>2, <1>5, <1>6, <1>7

LEMMA ReadableTyped ==
  ASSUME TraceInv, NEW i \in Readable(file)
  PROVE  i \in 1 .. Len(file) /\ file[i].event \in Events /\ file[i].event.seq \in Nat
<1>1. i \in 1 .. Len(file)
  BY ReadableLines DEF TraceInv, TraceTyped
<1>2. file[i] \in Lines
  BY <1>1 DEF TraceInv, TraceTyped
<1>3. file[i].event \in Events
  BY <1>2 DEF Lines
<1> QED
  BY <1>1, <1>3 DEF Events

\* One who has counted what is readable writes behind it.
LEMMA WrittenBehind ==
  ASSUME TraceInv, NEW e \in Events, file' = Extended(Line(e)), Increasing,
         \A i \in Readable(file) : file[i].event.seq < e.seq
  PROVE  /\ Increasing'
         /\ \A i \in Readable(file') : file'[i].event.seq <= e.seq
<1>0. Line(e) \in Lines /\ Line(e).event = e /\ e.seq \in Nat
  BY DEF Line, Lines, Events
<1>1. ASSUME NEW i \in Readable(file')
      PROVE  \/ i \in Readable(file) /\ file'[i].event = file[i].event
             \/ i = Len(file) + 1 /\ file'[i].event = e
  BY <1>0, NowReadable
<1>2. \A i \in Readable(file) : i \in 1 .. Len(file) /\ file[i].event.seq \in Nat
  BY ReadableTyped
<1>3. Len(file) \in Nat
  BY DEF TraceInv, TraceTyped
<1>4. ASSUME NEW i \in Readable(file')  PROVE file'[i].event.seq <= e.seq
  BY <1>0, <1>1, <1>2
<1>5. ASSUME NEW i \in Readable(file'), NEW j \in Readable(file'), i < j
      PROVE  file'[i].event.seq < file'[j].event.seq
  <2>1. CASE i \in Readable(file) /\ file'[i].event = file[i].event
    <3>1. CASE j \in Readable(file) /\ file'[j].event = file[j].event
      BY <1>5, <2>1, <3>1 DEF Increasing
    <3>2. CASE j = Len(file) + 1 /\ file'[j].event = e
      BY <2>1, <3>2
    <3> QED
      BY <1>1, <3>1, <3>2
  <2>2. CASE i = Len(file) + 1
    <3>1. j \in 1 .. Len(file) + 1
      BY <1>1, <1>2, <1>3
    <3> QED
      BY <1>3, <1>5, <2>2, <3>1
  <2> QED
    BY <1>1, <2>1, <2>2
<1> QED
  BY <1>4, <1>5 DEF Increasing

\* A cut line only takes from what is readable.
LEMMA CutBehind ==
  ASSUME TraceInv, NEW t \in {"bad", "undecodable"}, file' = Extended(Cut(t)), Increasing
  PROVE  Increasing'
<1>1. ASSUME NEW i \in Readable(file')
      PROVE  i \in Readable(file) /\ file'[i] = file[i]
  BY NowReadable, CutTyped
<1> QED
  BY <1>1 DEF Increasing

LEMMA EmitOrders ==
  ASSUME TraceInv, NEW p \in Processes, NEW note, NEW g, Stamped(p, note, g) \in Events,
         Increasing, \A i \in Readable(file) : file[i].event.seq <= writerSeq[p],
         Emit(p, note, g) \/ EmitTorn(p, note, g)
  PROVE  /\ Increasing'
         /\ Emit(p, note, g) =>
              \A i \in Readable(file') : file'[i].event.seq <= writerSeq'[p]
<1>1. Stamped(p, note, g).seq = writerSeq[p] + 1
  BY DEF Stamped
<1>2. writerSeq[p] \in Nat
  BY DEF TraceInv, TraceTyped
<1>3. \A i \in Readable(file) : file[i].event.seq < Stamped(p, note, g).seq
  BY <1>1, <1>2, ReadableTyped
<1>4. CASE Emit(p, note, g)
  <2>1. file' = Extended(Line(Stamped(p, note, g)))
    BY <1>4 DEF Emit
  <2>2. writerSeq'[p] = writerSeq[p] + 1
    BY <1>4 DEF Emit, TraceInv, TraceTyped
  <2> QED
    BY <1>1, <1>3, <2>1, <2>2, WrittenBehind
<1>5. CASE EmitTorn(p, note, g) /\ ~Emit(p, note, g)
  <2>1. CASE file' = Extended(Line(Stamped(p, note, g)))
    BY <1>3, <1>5, <2>1, WrittenBehind
  <2>2. CASE \E t \in {"bad", "undecodable"} : file' = Extended(Cut(t))
    BY <1>5, <2>2, CutBehind
  <2> QED
    BY <1>5, <2>1, <2>2 DEF EmitTorn
<1> QED
  BY <1>4, <1>5

\* The last readable seq is the greatest.
LEMMA LastIsGreatest ==
  ASSUME TraceInv, Increasing, NEW i \in Readable(file)
  PROVE  file[i].event.seq <= LastSeq(file)
<1> DEFINE last == CHOOSE k \in Readable(file) : \A j \in Readable(file) : j <= k
<1>1. last \in Readable(file) /\ \A j \in Readable(file) : j <= last
  BY DEF TraceInv, HasLast
<1>2. LastSeq(file) = file[last].event.seq
  BY DEF LastSeq
<1>3. i \in Nat /\ last \in Nat /\ file[i].event.seq \in Nat /\ file[last].event.seq \in Nat
  BY <1>1, ReadableTyped, ReadableLines DEF TraceInv, TraceTyped
<1> HIDE DEF last
<1>4. i < last \/ i = last
  BY <1>1, <1>3
<1> QED
  BY <1>1, <1>2, <1>3, <1>4 DEF Increasing

-----------------------------------------------------------------------------
(* Every step keeps the order                                                 *)

LEMMA MovesTo ==
  ASSUME RestTyped, NEW p \in Processes, NEW label, Goto(p, label)
  PROVE  pc'[p] = label /\ \A q \in Processes : q # p => pc'[q] = pc[q]
BY DEF RestTyped, Goto

\* A process that is at work goes on, to where it writes no event.
LEMMA GoesOn ==
  ASSUME RecordInv, SeqInv, NEW p \in Processes, Active(p), NEW label,
         label \notin {"new", "creating", "running", "decided", "chosen"},
         Goto(p, label), UNCHANGED traceVars, overlap' = overlap,
         manifest' = manifest \/ manifest'.state # "absent"
  PROVE  SeqInv'
<1>1. RestTyped
  BY DEF RecordInv, VerdictInv
<1>2. pc'[p] = label /\ \A q \in Processes : q # p => pc'[q] = pc[q]
  BY <1>1, MovesTo
<1>3. pc[Run] # "new" /\ pc'[Run] \notin {"new", "creating"}
  <2>1. CASE p = Run
    BY <1>2, <2>1 DEF Active, AtRest
  <2>2. CASE p # Run
    <3>1. p \in Approvers
      BY <2>2 DEF Processes
    <3>2. pc[Run] \notin {"new", "creating"}
      BY <3>1 DEF SeqInv, NothingYet, Active, AtRest
    <3> QED
      BY <1>2, <2>2, <3>2, ProcessesFacts
  <2> QED
    BY <2>1, <2>2
<1>4. NothingYet' /\ AbsentAtFirst'
  BY <1>3 DEF NothingYet, AbsentAtFirst, SeqInv
<1>5. Alone => Alone'
  <2>1. \A q \in Processes : Active(q)' => Active(q)
    BY <1>2 DEF Active
  <2> QED
    BY <2>1 DEF Alone
<1>6. Increasing => Increasing'
  BY DEF Increasing, traceVars
<1>7. Ahead => Ahead'
  BY <1>2 DEF Ahead, traceVars
<1> QED
  BY <1>4, <1>5, <1>6, <1>7 DEF SeqInv

\* A typed event is written, and the process lives to go to label.
Emits(p, note, g, label) ==
    /\ Stamped(p, note, g) \in Events
    /\ \/ Emit(p, note, g)
       \/ EmitTorn(p, note, g) /\ label = "dead"

\* A process writes an event.
LEMMA Writes ==
  ASSUME RecordInv, SeqInv, NEW p \in Processes,
         pc[p] \in {"running", "decided", "chosen"},
         NEW label, label \notin {"new", "creating", "chosen"}, Goto(p, label),
         \E note, g : Emits(p, note, g, label),
         overlap' = overlap, manifest' = manifest
  PROVE  SeqInv'
<1>0. PICK note, g : Emits(p, note, g, label)
  OBVIOUS
<1>1. RestTyped /\ TraceInv
  BY DEF RecordInv, VerdictInv
<1>2. pc'[p] = label /\ \A q \in Processes : q # p => pc'[q] = pc[q]
  BY <1>1, MovesTo
<1>3. pc[Run] # "new" /\ pc'[Run] \notin {"new", "creating"}
  <2>1. CASE p = Run
    BY <1>2, <2>1
  <2>2. CASE p # Run
    <3>1. p \in Approvers
      BY <2>2 DEF Processes
    <3>2. pc[Run] \notin {"new", "creating"}
      BY <3>1 DEF SeqInv, NothingYet
    <3> QED
      BY <1>2, <2>2, <3>2, ProcessesFacts
  <2> QED
    BY <2>1, <2>2
<1>4. NothingYet' /\ AbsentAtFirst'
  BY <1>3 DEF NothingYet, AbsentAtFirst, SeqInv
<1>5. SUFFICES ASSUME ~overlap, Alone, Increasing, Ahead
               PROVE  Alone' /\ Increasing' /\ Ahead'
  BY <1>4 DEF SeqInv
<1>6. \A q \in Processes : q # p => pc[q] \in AtRest
  BY <1>5 DEF Alone, Active, AtRest
<1>7. Alone'
  BY <1>2, <1>6 DEF Alone, Active
<1>8. \A i \in Readable(file) : file[i].event.seq <= writerSeq[p]
  BY <1>5 DEF Ahead
<1>9. Increasing' /\ (Emit(p, note, g) =>
          \A i \in Readable(file') : file'[i].event.seq <= writerSeq'[p])
  BY <1>0, <1>1, <1>5, <1>8, EmitOrders DEF Emits
<1>10. Ahead'
  BY <1>0, <1>2, <1>6, <1>9 DEF Ahead, AtRest, Emits
<1> QED
  BY <1>7, <1>9, <1>10

LEMMA SeqStep ==
  ASSUME RecordInv, SeqInv, [Next]_vars
  PROVE  SeqInv'
<1>0. TraceInv /\ VerdictInv /\ RestTyped
  BY DEF RecordInv, VerdictInv
<1>1. CASE CreateManifest
  <2>1. /\ pc[Run] = "new" /\ manifest' = Broken("empty") /\ Goto(Run, "creating")
        /\ UNCHANGED traceVars /\ overlap' = overlap
    BY <1>1 DEF CreateManifest
  <2>2. pc'[Run] = "creating" /\ \A q \in Processes : q # Run => pc'[q] = pc[q]
    BY <1>0, <2>1, MovesTo, ProcessesFacts
  <2>3. file = <<>> /\ \A a \in Approvers : pc[a] \in {"idle", "refused", "dead"}
    BY <2>1 DEF SeqInv, NothingYet
  <2>4. manifest'.state = "empty"
    BY <2>1 DEF Broken
  <2>5. NothingYet' /\ AbsentAtFirst'
    BY <2>1, <2>2, <2>3, <2>4, ProcessesFacts DEF NothingYet, AbsentAtFirst, traceVars
  <2>6. Alone'
    BY <2>2, <2>3 DEF Alone, Active, AtRest, Processes
  <2>7. Increasing => Increasing'
    BY <2>1 DEF Increasing, traceVars
  <2>8. Ahead => Ahead'
    BY <2>1, <2>2 DEF Ahead, traceVars
  <2> QED
    BY <2>1, <2>5, <2>6, <2>7, <2>8 DEF SeqInv
<1>2. CASE FillManifest
  <2>1. /\ pc[Run] = "creating" /\ manifest' = Whole(Blank) /\ Goto(Run, "running")
        /\ UNCHANGED traceVars /\ overlap' = overlap
    BY <1>2 DEF FillManifest
  <2>2. pc'[Run] = "running" /\ \A q \in Processes : q # Run => pc'[q] = pc[q]
    BY <1>0, <2>1, MovesTo, ProcessesFacts
  <2>3. file = <<>>
    BY <2>1 DEF SeqInv, NothingYet
  <2>4. manifest'.state = "whole"
    BY <2>1 DEF Whole
  <2>5. NothingYet' /\ AbsentAtFirst'
    BY <2>2, <2>4 DEF NothingYet, AbsentAtFirst
  <2>6. Alone => Alone'
    BY <2>1, <2>2, ProcessesFacts DEF Alone, Active, AtRest
  <2>7. Readable(file') = {}
    BY <2>1, <2>3 DEF Readable, traceVars
  <2>8. Increasing' /\ Ahead'
    BY <2>7 DEF Increasing, Ahead
  <2> QED
    BY <2>1, <2>5, <2>6, <2>8 DEF SeqInv
<1>3. CASE Work
  <2>1. Goto(Run, pc[Run])
    BY <1>0, <1>3 DEF Work, Goto, RestTyped
  <2>2. pc[Run] = "running" /\ overlap' = overlap /\ manifest' = manifest
    BY <1>3 DEF Work, Working, recordVars
  <2>3. \E note, g : Stamped(Run, note, g) \in Events /\ Emit(Run, note, g)
    BY <1>0, <1>3, RunStamps DEF Work, Decisions
  <2> QED
    BY <2>1, <2>2, <2>3, Writes, ProcessesFacts DEF Emits
<1>4. CASE Decide
  <2>1. /\ Goto(Run, "decided") /\ pc[Run] = "running"
        /\ overlap' = overlap /\ manifest' = manifest
    BY <1>4 DEF Decide, Working
  <2>2. \E note, g : Stamped(Run, note, g) \in Events /\ Emit(Run, note, g)
    BY <1>0, <1>4, RunStamps DEF Decide, Decisions
  <2> QED
    BY <2>1, <2>2, Writes, ProcessesFacts DEF Emits
<1>5. CASE FinishDecided \/ FinishEmptyHanded
  <2>1. /\ Goto(Run, "recording") /\ pc[Run] \in {"running", "decided"}
        /\ overlap' = overlap /\ manifest' = manifest
    BY <1>5 DEF FinishDecided, FinishEmptyHanded, recordVars
  <2>2. \E note, g : Stamped(Run, note, g) \in Events /\ Emit(Run, note, g)
    BY <1>0, <1>5, RunStamps DEF FinishDecided, FinishEmptyHanded
  <2> QED
    BY <2>1, <2>2, Writes, ProcessesFacts DEF Emits
<1>6. CASE RunTorn
  <2>1. pc[Run] \in {"running", "decided"}
    BY <1>6 DEF RunTorn, Working
  <2>2. \E note, g : Stamped(Run, note, g) \in Events /\ EmitTorn(Run, note, g)
    BY <1>0, <1>6, RunStamps DEF RunTorn
  <2>3. Goto(Run, "dead") /\ overlap' = overlap /\ manifest' = manifest
    BY <2>2 DEF EmitTorn, recordVars
  <2> QED
    BY <2>1, <2>2, <2>3, Writes, ProcessesFacts DEF Emits
<1>7. CASE Break
  BY <1>7, GoesOn, ProcessesFacts DEF Break, Active, AtRest
<1>8. ASSUME NEW a \in Approvers, CheckManifest(a)
      PROVE  SeqInv'
  <2>0. a \in Processes /\ a # Run
    BY ProcessesFacts
  <2>1. PICK label \in {"refused", "checked", "dead"} :
            /\ Goto(a, label)
            /\ label = "checked" => manifest.state = "whole"
    BY <1>8 DEF CheckManifest
  <2>2. /\ UNCHANGED <<traceVars, recordVars>>
        /\ overlap' = (overlap \/ \E p \in Processes : pc[p] \notin AtRest)
    BY <1>8 DEF CheckManifest
  <2>3. pc'[a] = label /\ \A q \in Processes : q # a => pc'[q] = pc[q]
    BY <1>0, <2>0, <2>1, MovesTo
  <2>4. NothingYet'
    <3>1. SUFFICES ASSUME pc[Run] \in {"new", "creating"}
                   PROVE  /\ file = <<>> /\ manifest.state # "whole"
                          /\ \A b \in Approvers : pc'[b] \in {"idle", "refused", "dead"}
      BY <2>0, <2>2, <2>3, ProcessesFacts DEF NothingYet, traceVars, recordVars
    <3>2. /\ file = <<>> /\ manifest.state # "whole"
          /\ \A b \in Approvers : pc[b] \in {"idle", "refused", "dead"}
      BY <3>1 DEF SeqInv, NothingYet
    <3> QED
      BY <2>1, <2>3, <3>2, ProcessesFacts
  <2>5. AbsentAtFirst'
    BY <2>0, <2>2, <2>3, ProcessesFacts DEF SeqInv, AbsentAtFirst, recordVars
  <2>6. ASSUME ~overlap'  PROVE Alone' /\ Increasing' /\ Ahead'
    <3>1. ~overlap /\ \A p \in Processes : pc[p] \in AtRest
      BY <2>2, <2>6
    <3>2. Alone'
      BY <2>3, <3>1 DEF Alone, Active
    <3>3. Increasing'
      BY <2>2, <3>1 DEF SeqInv, Increasing, traceVars
    <3>4. Ahead'
      BY <2>3, <3>1 DEF Ahead, AtRest
    <3> QED
      BY <3>2, <3>3, <3>4
  <2> QED
    BY <2>4, <2>5, <2>6 DEF SeqInv
<1>9. ASSUME NEW a \in Approvers, Choose(a)
      PROVE  SeqInv'
  <2>0. a \in Processes /\ a # Run
    BY ProcessesFacts
  <2>1. /\ pc[a] = "checked" /\ Goto(a, "chosen")
        /\ writerSeq' = [writerSeq EXCEPT ![a] = LastSeq(file)]
        /\ UNCHANGED <<file, torn, emitted, manifest, loaded, overlap>>
    BY <1>9 DEF Choose
  <2>2. pc'[a] = "chosen" /\ \A q \in Processes : q # a => pc'[q] = pc[q]
    BY <1>0, <2>0, <2>1, MovesTo
  <2>3. /\ writerSeq'[a] = LastSeq(file)
        /\ \A q \in Processes : q # a => writerSeq'[q] = writerSeq[q]
    BY <1>0, <2>0, <2>1 DEF TraceInv, TraceTyped
  <2>4. NothingYet' /\ AbsentAtFirst'
    BY <2>0, <2>1, <2>2, ProcessesFacts DEF SeqInv, NothingYet, AbsentAtFirst
  <2>5. Alone => Alone'
    BY <2>0, <2>1, <2>2 DEF Alone, Active, AtRest
  <2>6. Increasing => Increasing'
    BY <2>1 DEF Increasing
  <2>7. Increasing /\ Ahead => Ahead'
    BY <1>0, <2>1, <2>2, <2>3, LastIsGreatest DEF Ahead
  <2> QED
    BY <2>1, <2>4, <2>5, <2>6, <2>7 DEF SeqInv
<1>10. ASSUME NEW a \in Approvers, Approve(a)
       PROVE  SeqInv'
  <2>1. /\ pc[a] = "chosen" /\ Emit(a, "finalized", answer[a].flag)
        /\ Goto(a, "recording") /\ overlap' = overlap /\ manifest' = manifest
    BY <1>10 DEF Approve, recordVars
  <2>2. Stamped(a, "finalized", answer[a].flag) \in Events
    BY <1>0, <2>1, ChosenFlag, ApprovalStamps
  <2> QED
    BY <2>1, <2>2, Writes, ProcessesFacts DEF Emits
<1>11. ASSUME NEW a \in Approvers, ApproveTorn(a)
       PROVE  SeqInv'
  <2>1. pc[a] = "chosen" /\ EmitTorn(a, "finalized", answer[a].flag)
    BY <1>11 DEF ApproveTorn
  <2>2. Stamped(a, "finalized", answer[a].flag) \in Events
    BY <1>0, <2>1, ChosenFlag, ApprovalStamps
  <2>3. Goto(a, "dead") /\ overlap' = overlap /\ manifest' = manifest
    BY <2>1 DEF EmitTorn, recordVars
  <2> QED
    BY <2>1, <2>2, <2>3, Writes, ProcessesFacts DEF Emits
<1>12. ASSUME NEW a \in Approvers, Refuse(a) \/ ReadRaises(a)
       PROVE  SeqInv'
  BY <1>12, GoesOn, ProcessesFacts DEF Refuse, ReadRaises, Active, AtRest, recordVars
<1>13. ASSUME NEW p \in Processes, Record(p)
       PROVE  SeqInv'
  <2>1. Active(p) /\ UNCHANGED traceVars /\ overlap' = overlap
    BY <1>13 DEF Record, LoadManifest, TruncateManifest, WriteManifest, Active, AtRest
  <2>2. \E label \in {"loaded", "dead", "truncated", "done"} : Goto(p, label)
    BY <1>13 DEF Record, LoadManifest, TruncateManifest, WriteManifest
  <2>3. manifest' = manifest \/ manifest'.state # "absent"
    BY <1>13 DEF Record, LoadManifest, TruncateManifest, WriteManifest, Broken, Whole
  <2> QED
    BY <2>1, <2>2, <2>3, GoesOn
<1>14. ASSUME NEW p \in Processes, Die(p)
       PROVE  SeqInv'
  BY <1>14, GoesOn DEF Die, Active, recordVars
<1>15. CASE UNCHANGED vars
  BY <1>15 DEF vars, SeqInv, NothingYet, AbsentAtFirst, Alone, Active, Increasing, Ahead
<1> QED
  BY <1>1, <1>2, <1>3, <1>4, <1>5, <1>6, <1>7, <1>8, <1>9, <1>10, <1>11, <1>12, <1>13,
     <1>14, <1>15 DEF Next, RunNext, ApproverNext

LEMMA SeqInit == Init => SeqInv
<1> SUFFICES ASSUME Init PROVE SeqInv
  OBVIOUS
<1>1. /\ file = <<>> /\ manifest.state = "absent" /\ pc[Run] = "new"
      /\ \A p \in Processes : p # Run => pc[p] = "idle"
  BY ProcessesFacts DEF Init, Broken
<1>2. Readable(file) = {}
  BY <1>1 DEF Readable
<1>3. Alone /\ Increasing /\ Ahead
  BY <1>1, <1>2 DEF Alone, Active, AtRest, Increasing, Ahead
<1>4. NothingYet /\ AbsentAtFirst
  BY <1>1, ProcessesFacts DEF NothingYet, AbsentAtFirst
<1> QED
  BY <1>3, <1>4 DEF SeqInv

LEMMA SeqInvHolds == Spec => []SeqInv
<1>1. RecordInv /\ SeqInv /\ [Next]_vars => SeqInv'
  BY SeqStep
<1> QED
  BY <1>1, SeqInit, RecordInvHolds, PTL DEF Spec

\* Unless two processes overlap, what a reader of trace.jsonl is given has
\* strictly increasing seqs, torn tails and any number of approvals included.
THEOREM SeqsAreIncreasing == Spec => []SeqsIncrease
<1>1. SeqInv => SeqsIncrease
  BY Zenon DEF SeqInv, Increasing, SeqsIncrease
<1> QED
  BY <1>1, SeqInvHolds, PTL

\* Nobody has died, and no reader has raised.
Unharmed == \A p \in Processes : pc[p] \notin {"dead", "raised"}

Finalized(f) == \E i \in DOMAIN f : f[i].event.note = "finalized"

\* The trace tells outcome o with flag g.
Shows(f, o, g) ==
    /\ o = "candidate" => Held(f) = {g} /\ ~Finalized(f)
    /\ o = "solved" => Held(f) = {} /\ Finalized(f)
    /\ o \notin {"candidate", "solved"} => Held(f) = {} /\ ~Finalized(f)

Quiet == {"idle", "refused"}

\* Before the run is done, what it will record is what the trace shows.
RunShows ==
    /\ pc[Run] \in {"running", "decided", "recording", "loaded"} => manifest = Whole(Blank)
    /\ pc[Run] = "running" => Shows(file, "none", NoFlag)
    /\ pc[Run] \in {"decided", "recording"} =>
           Shows(file, answer[Run].outcome, answer[Run].flag)
    /\ pc[Run] \in {"loaded", "truncated"} =>
           /\ Shows(file, loaded[Run].outcome, loaded[Run].flag)
           /\ ~loaded[Run].approved
    /\ pc[Run] = "truncated" => manifest.state = "empty"

RunsTurn ==
    /\ pc[Run] \in {"new", "creating", "running", "decided", "recording", "loaded",
                    "truncated", "done"}
    /\ pc[Run] # "done" => \A a \in Approvers : pc[a] \in Quiet
    /\ RunShows

\* Between two approvals: the files agree.
Settled ==
    /\ manifest.state = "whole"
    /\ Shows(file, manifest.content.outcome, manifest.content.flag)
    /\ manifest.content.approved => manifest.content.outcome = "solved"
    /\ manifest.content.approved = (\E a \in Approvers : pc[a] = "done")
    /\ \A a, b \in Approvers : pc[a] = "done" /\ pc[b] = "done" => a = b

\* During one: the first, and the trace shows what it will record.
ApproversTurn(a) ==
    /\ pc[a] # "new"
    /\ pc[a] \in {"chosen", "recording", "loaded", "truncated"} =>
           \A b \in Approvers : b # a => pc[b] \in Quiet
    /\ pc[a] \in {"chosen", "recording", "loaded"} => manifest.state = "whole"
    /\ pc[a] = "chosen" =>
           /\ Shows(file, "candidate", answer[a].flag)
           /\ answer[a].outcome = "solved"
    /\ pc[a] = "recording" =>
           /\ Shows(file, "solved", answer[a].flag)
           /\ answer[a].outcome = "solved"
    /\ pc[a] \in {"loaded", "truncated"} =>
           /\ Shows(file, "solved", loaded[a].flag)
           /\ loaded[a].outcome = "solved"
           /\ loaded[a].approved
    /\ pc[a] = "truncated" => manifest.state = "empty"

Between == Quiet \cup {"checked", "done"}

Turns ==
    /\ Clean
    /\ RunsTurn
    /\ pc[Run] = "done" =>
         /\ (\A a \in Approvers : pc[a] \in Between) => Settled
         /\ \A a \in Approvers : ApproversTurn(a)

TurnsInv == ~overlap /\ Unharmed => Turns
-----------------------------------------------------------------------------
(* What an event changes of what the trace shows                              *)

\* f with the line of e behind it.
Continued(f, e, h) ==
    /\ Len(h) = Len(f) + 1 /\ h[Len(f) + 1] = Line(e)
    /\ \A i \in 1 .. Len(f) : h[i] = f[i]

AllWhole(f) == \A i \in 1 .. Len(f) : f[i].text = "whole"

LEMMA AllReadable ==
  ASSUME NEW f \in Seq(Lines), AllWhole(f)
  PROVE  Readable(f) = 1 .. Len(f)
<1>1. ASSUME NEW i \in 1 .. Len(f), NEW j \in 1 .. i
      PROVE  f[j].text = "whole"
  BY DEF AllWhole
<1> QED
  BY <1>1, ReadableLines

LEMMA ContinuedWhole ==
  ASSUME NEW f \in Seq(Lines), NEW h \in Seq(Lines), NEW e \in Events,
         AllWhole(f), Continued(f, e, h)
  PROVE  /\ AllWhole(h)
         /\ \A i \in 1 .. Len(f) : i \in 1 .. Len(h) /\ h[i].event = f[i].event
         /\ Len(h) \in 1 .. Len(h) /\ h[Len(h)].event = e
         /\ \A i \in 1 .. Len(h) : i = Len(h) \/ i \in 1 .. Len(f)
         /\ \A i \in 1 .. Len(f) : i < Len(h)
<1>1. Line(e).text = "whole" /\ Line(e).event = e
  BY DEF Line
<1>2. Len(f) \in Nat /\ Len(h) = Len(f) + 1
  BY DEF Continued
<1> QED
  BY <1>1, <1>2 DEF Continued, AllWhole

\* The last decision on a flag tells whether it is held.
LEMMA HeldAfter ==
  ASSUME NEW f \in Seq(Lines), NEW h \in Seq(Lines), NEW e \in Events,
         AllWhole(f), Continued(f, e, h), NEW g \in Flags
  PROVE  /\ DecisionOn(e, g) => (g \in Held(h) <=> e.note = "pending")
         /\ ~DecisionOn(e, g) => (g \in Held(h) <=> g \in Held(f))
<1>0. /\ \A i \in 1 .. Len(f) : i \in 1 .. Len(h) /\ h[i].event = f[i].event
      /\ Len(h) \in 1 .. Len(h) /\ h[Len(h)].event = e
      /\ \A i \in 1 .. Len(h) : i = Len(h) \/ i \in 1 .. Len(f)
      /\ \A i \in 1 .. Len(f) : i < Len(h)
  BY ContinuedWhole
<1>1. Readable(f) = 1 .. Len(f) /\ Readable(h) = 1 .. Len(h)
  BY ContinuedWhole, AllReadable
<1>2. g \in Held(h) <=>
        \E i \in 1 .. Len(h) :
            /\ DecisionOn(h[i].event, g) /\ h[i].event.note = "pending"
            /\ \A j \in 1 .. Len(h) : j > i => ~DecisionOn(h[j].event, g)
  BY <1>1 DEF Held
<1>3. g \in Held(f) <=>
        \E i \in 1 .. Len(f) :
            /\ DecisionOn(f[i].event, g) /\ f[i].event.note = "pending"
            /\ \A j \in 1 .. Len(f) : j > i => ~DecisionOn(f[j].event, g)
  BY <1>1 DEF Held
<1>4. \A i \in 1 .. Len(h) : i <= Len(h) /\ ~(i > Len(h))
  OBVIOUS
<1>5. CASE DecisionOn(e, g)
  <2>1. ASSUME g \in Held(h)  PROVE e.note = "pending"
    <3>1. PICK i \in 1 .. Len(h) :
              /\ DecisionOn(h[i].event, g) /\ h[i].event.note = "pending"
              /\ \A j \in 1 .. Len(h) : j > i => ~DecisionOn(h[j].event, g)
      BY <1>2, <2>1
    <3>2. i = Len(h)
      BY <1>0, <1>5, <3>1
    <3> QED
      BY <1>0, <3>1, <3>2
  <2>2. ASSUME e.note = "pending"  PROVE g \in Held(h)
    BY <1>0, <1>2, <1>4, <1>5, <2>2
  <2> QED
    BY <1>5, <2>1, <2>2
<1>6. CASE ~DecisionOn(e, g)
  <2>1. ASSUME g \in Held(h)  PROVE g \in Held(f)
    <3>1. PICK i \in 1 .. Len(h) :
              /\ DecisionOn(h[i].event, g) /\ h[i].event.note = "pending"
              /\ \A j \in 1 .. Len(h) : j > i => ~DecisionOn(h[j].event, g)
      BY <1>2, <2>1
    <3>2. i \in 1 .. Len(f)
      BY <1>0, <1>6, <3>1
    <3>3. \A j \in 1 .. Len(f) : j > i => ~DecisionOn(f[j].event, g)
      BY <1>0, <3>1
    <3> QED
      BY <1>0, <1>3, <3>1, <3>2, <3>3
  <2>2. ASSUME g \in Held(f)  PROVE g \in Held(h)
    <3>1. PICK i \in 1 .. Len(f) :
              /\ DecisionOn(f[i].event, g) /\ f[i].event.note = "pending"
              /\ \A j \in 1 .. Len(f) : j > i => ~DecisionOn(f[j].event, g)
      BY <1>3, <2>2
    <3>2. \A j \in 1 .. Len(h) : j > i => ~DecisionOn(h[j].event, g)
      BY <1>0, <1>6, <3>1
    <3>3. DecisionOn(h[i].event, g) /\ h[i].event.note = "pending" /\ i \in 1 .. Len(h)
      BY <1>0, <3>1
    <3> QED
      BY <1>2, <3>2, <3>3
  <2> QED
    BY <1>6, <2>1, <2>2
<1> QED
  BY <1>5, <1>6

LEMMA FinalizedAfter ==
  ASSUME NEW f \in Seq(Lines), NEW h \in Seq(Lines), NEW e \in Events,
         AllWhole(f), Continued(f, e, h)
  PROVE  Finalized(h) <=> Finalized(f) \/ e.note = "finalized"
<1>1. DOMAIN f = 1 .. Len(f) /\ DOMAIN h = 1 .. Len(h)
  OBVIOUS
<1> QED
  BY <1>1, ContinuedWhole DEF Finalized

LEMMA HeldAreFlags == \A f : Held(f) \subseteq Flags
BY DEF Held

LEMMA ShownAfter ==
  ASSUME NEW f \in Seq(Lines), NEW h \in Seq(Lines), NEW e \in Events,
         AllWhole(f), Continued(f, e, h)
  PROVE  /\ e.note \notin Decisions => \A o, g : Shows(f, o, g) => Shows(h, o, g)
         /\ e.note = "rejected" /\ Shows(f, "none", NoFlag) => Shows(h, "none", NoFlag)
         /\ e.note = "pending" /\ Shows(f, "none", NoFlag) => Shows(h, "candidate", e.flag)
         /\ /\ e.note = "finalized"
            /\ Shows(f, "none", NoFlag) \/ Shows(f, "candidate", e.flag)
            => \A g : Shows(h, "solved", g)
<1>1. Finalized(h) <=> Finalized(f) \/ e.note = "finalized"
  BY FinalizedAfter
<1>2. \A g \in Flags :
          /\ DecisionOn(e, g) => (g \in Held(h) <=> e.note = "pending")
          /\ ~DecisionOn(e, g) => (g \in Held(h) <=> g \in Held(f))
  BY HeldAfter
<1>3. Held(f) \subseteq Flags /\ Held(h) \subseteq Flags
  BY HeldAreFlags
<1>4. CASE e.note \notin Decisions
  <2>1. \A g \in Flags : ~DecisionOn(e, g)
    BY <1>4 DEF DecisionOn
  <2>2. Held(h) = Held(f)
    BY <1>2, <1>3, <2>1
  <2>3. Finalized(h) <=> Finalized(f)
    BY <1>1, <1>4 DEF Decisions
  <2> QED
    BY <1>4, <2>2, <2>3 DEF Shows, Decisions
<1>5. CASE e.note \in Decisions
  <2>1. e.flag \in Flags
    BY <1>5 DEF Events, Decisions
  <2>2. \A g \in Flags : DecisionOn(e, g) <=> g = e.flag
    BY <1>5, <2>1 DEF DecisionOn
  <2>3. ASSUME e.note = "pending"  PROVE Held(h) = Held(f) \cup {e.flag}
    BY <1>2, <1>3, <2>1, <2>2, <2>3
  <2>4. ASSUME e.note # "pending"  PROVE Held(h) = Held(f) \ {e.flag}
    BY <1>2, <1>3, <2>1, <2>2, <2>4
  <2>5. ASSUME e.note = "rejected", Shows(f, "none", NoFlag)
        PROVE  Shows(h, "none", NoFlag)
    BY <1>1, <2>4, <2>5 DEF Shows
  <2>6. ASSUME e.note = "pending", Shows(f, "none", NoFlag)
        PROVE  Shows(h, "candidate", e.flag)
    BY <1>1, <2>3, <2>6 DEF Shows
  <2>7. ASSUME e.note = "finalized",
               Shows(f, "none", NoFlag) \/ Shows(f, "candidate", e.flag),
               NEW g
        PROVE  Shows(h, "solved", g)
    BY <1>1, <2>4, <2>7 DEF Shows
  <2> QED
    BY <1>5, <2>5, <2>6, <2>7
<1> QED
  BY <1>4, <1>5

\* The flag matters only to what is held.
LEMMA ShownAlike ==
  \A f, g, h : /\ Shows(f, "none", g) =>
                     Shows(f, "exhausted", h) /\ Shows(f, "error", h) /\ Shows(f, "none", h)
               /\ Shows(f, "solved", g) => Shows(f, "solved", h)
BY DEF Shows

\* An event written to a clean file.
LEMMA WrittenClean ==
  ASSUME TraceInv, Clean, NEW p \in Processes, NEW note, NEW g,
         Stamped(p, note, g) \in Events, Emit(p, note, g)
  PROVE  /\ Clean'
         /\ file \in Seq(Lines) /\ file' \in Seq(Lines) /\ AllWhole(file)
         /\ Continued(file, Stamped(p, note, g), file')
<1> DEFINE e == Stamped(p, note, g)
<1>1. file \in Seq(Lines) /\ ~torn /\ AllWhole(file)
  BY DEF TraceInv, TraceTyped, Clean, AllWhole
<1>2. Line(e) \in Lines
  BY DEF Line, Lines
<1>3. file' = Extended(Line(e)) /\ torn' = FALSE
  BY DEF Emit
<1> HIDE DEF e
<1>4. /\ file' \in Seq(Lines) /\ Len(file') = Len(file) + 1 /\ file'[Len(file')] = Line(e)
      /\ \A i \in 1 .. Len(file) : file'[i] = file[i]
  BY <1>1, <1>2, <1>3, ExtendedFile
<1>5. Continued(file, e, file')
  BY <1>4 DEF Continued
<1>6. e \in Events
  BY DEF e
<1>7. AllWhole(file')
  BY <1>1, <1>4, <1>5, <1>6, ContinuedWhole
<1>8. Clean'
  BY <1>3, <1>4, <1>7 DEF Clean, AllWhole
<1> QED
  BY <1>1, <1>4, <1>5, <1>8 DEF e

-----------------------------------------------------------------------------
(* Every step keeps the turns                                                  *)

\* Harm lasts, and so does having overlapped.
LEMMA HarmLasts ==
  ASSUME RestTyped, [Next]_vars, ~overlap', Unharmed'
  PROVE  ~overlap /\ Unharmed
<1>1. ~overlap
  BY DEF Next, RunNext, ApproverNext, Record, CreateManifest, FillManifest, Work, Decide,
         FinishDecided, FinishEmptyHanded, Break, RunTorn, EmitTorn, CheckManifest, Choose,
         Refuse, ReadRaises, Approve, ApproveTorn, LoadManifest, TruncateManifest,
         WriteManifest, Die, vars
<1>2. \/ pc' = pc
      \/ \E p \in Processes :
             pc[p] \notin {"dead", "raised"} /\ \E label : Goto(p, label)
  BY ProcessesFacts
     DEF Next, RunNext, ApproverNext, Record, CreateManifest, FillManifest, Work, Working,
         Decide, FinishDecided, FinishEmptyHanded, Break, RunTorn, EmitTorn, CheckManifest,
         Choose, Refuse, ReadRaises, Approve, ApproveTorn, LoadManifest, TruncateManifest,
         WriteManifest, Die, vars, AtRest
<1>3. Unharmed
  BY <1>2, MovesTo DEF Unharmed
<1> QED
  BY <1>1, <1>3

\* The run moves, before it is done.
LEMMA RunMoves ==
  ASSUME Turns, pc[Run] # "done",
         NEW label \in {"creating", "running", "decided", "recording", "loaded", "truncated"},
         pc'[Run] = label, \A q \in Processes : q # Run => pc'[q] = pc[q],
         Clean', RunShows'
  PROVE  Turns'
<1>1. \A a \in Approvers : pc'[a] \in Quiet
  BY ProcessesFacts DEF Turns, RunsTurn
<1>2. RunsTurn'
  BY <1>1 DEF RunsTurn
<1> QED
  BY <1>2 DEF Turns

\* An approval moves, after the run is done and between the others'.
LEMMA ApproverMoves ==
  ASSUME pc[Run] = "done", NEW a \in Approvers,
         \A q \in Processes : q # a => pc'[q] = pc[q],
         \A b \in Approvers : b # a => pc[b] \in Between,
         Clean', ApproversTurn(a)',
         pc'[a] \in Between => Settled'
  PROVE  Turns'
<1>1. pc'[Run] = "done"
  BY ProcessesFacts
<1>2. RunsTurn'
  BY <1>1 DEF RunsTurn, RunShows
<1>3. ASSUME NEW b \in Approvers, b # a  PROVE ApproversTurn(b)'
  <2>1. pc'[b] \in Between
    BY <1>3, ProcessesFacts
  <2> QED
    BY <2>1 DEF ApproversTurn, Between, Quiet
<1>4. (\A b \in Approvers : pc'[b] \in Between) => Settled'
  OBVIOUS
<1> QED
  BY <1>1, <1>2, <1>3, <1>4 DEF Turns

\* When nobody else is active, the other approvals have ended or not begun.
LEMMA OthersBetween ==
  ASSUME Turns, pc[Run] = "done", Unharmed, NEW a \in Approvers,
         \A p \in Processes : p # a => pc[p] \in AtRest
  PROVE  \A b \in Approvers : b # a => pc[b] \in Between
BY ProcessesFacts DEF Turns, ApproversTurn, Unharmed, AtRest, Between, Quiet

\* A file that is not touched stays clean.
LEMMA StaysClean == Clean /\ UNCHANGED <<file, torn>> => Clean'
BY DEF Clean

\* The approver that is at work is the only one, and the run is done.
LEMMA AtWorkAlone ==
  ASSUME Turns, Alone, Unharmed, NEW a \in Approvers, Active(a)
  PROVE  /\ pc[Run] = "done"
         /\ \A b \in Approvers : b # a => pc[b] \in Between
<1>1. pc[Run] = "done"
  BY DEF Turns, RunsTurn, Quiet, Active, AtRest
<1>2. \A p \in Processes : p # a => pc[p] \in AtRest
  BY ProcessesFacts DEF Alone, Active
<1> QED
  BY <1>1, <1>2, OthersBetween

LEMMA RunTurnStep ==
  ASSUME RecordInv, SeqInv, Turns, Alone, Unharmed, Unharmed',
         RunNext \/ Record(Run)
  PROVE  Turns'
<1>0. TraceInv /\ RestTyped /\ Clean /\ RunsTurn
  BY DEF RecordInv, VerdictInv, Turns
<1>1. CASE CreateManifest
  <2>1. pc'[Run] = "creating" /\ \A q \in Processes : q # Run => pc'[q] = pc[q]
    BY <1>0, <1>1, MovesTo, ProcessesFacts DEF CreateManifest
  <2>2. pc[Run] # "done" /\ Clean'
    BY <1>0, <1>1, StaysClean DEF CreateManifest, traceVars
  <2>3. RunShows'
    BY <2>1 DEF RunShows
  <2> QED
    BY <2>1, <2>2, <2>3, RunMoves
<1>2. CASE FillManifest
  <2>1. pc'[Run] = "running" /\ \A q \in Processes : q # Run => pc'[q] = pc[q]
    BY <1>0, <1>2, MovesTo, ProcessesFacts DEF FillManifest
  <2>2. pc[Run] # "done" /\ Clean' /\ manifest' = Whole(Blank)
    BY <1>0, <1>2, StaysClean DEF FillManifest, traceVars
  <2>3. file' = <<>>
    BY <1>2 DEF FillManifest, traceVars, SeqInv, NothingYet
  <2>4. Shows(file', "none", NoFlag)
    BY <2>3 DEF Shows, Held, Readable, Finalized
  <2>5. RunShows'
    BY <2>1, <2>2, <2>4 DEF RunShows
  <2> QED
    BY <2>1, <2>2, <2>5, RunMoves
<1>3. CASE Work
  <2>1. /\ pc[Run] = "running" /\ pc' = pc /\ manifest' = manifest
        /\ Emit(Run, "work", NoFlag) \/ \E g \in Flags : Emit(Run, "rejected", g)
    BY <1>3 DEF Work, Working, recordVars
  <2>2. Shows(file, "none", NoFlag) /\ manifest = Whole(Blank)
    BY <1>0, <2>1 DEF RunsTurn, RunShows
  <2>3. CASE Emit(Run, "work", NoFlag)
    <3>1. Clean' /\ file \in Seq(Lines) /\ file' \in Seq(Lines) /\ AllWhole(file)
          /\ Continued(file, Stamped(Run, "work", NoFlag), file')
      BY <1>0, <2>3, WrittenClean, RunStamps, ProcessesFacts
    <3>2. Shows(file', "none", NoFlag)
      BY <1>0, <2>2, <3>1, ShownAfter, RunStamps DEF Stamped, Decisions
    <3> QED
      BY <2>1, <2>2, <3>1, <3>2, RunMoves DEF RunShows
  <2>4. ASSUME NEW g \in Flags, Emit(Run, "rejected", g)
        PROVE  Turns'
    <3>0. Stamped(Run, "rejected", g) \in Events
      BY <1>0, RunStamps DEF Decisions
    <3>1. Clean' /\ file \in Seq(Lines) /\ file' \in Seq(Lines) /\ AllWhole(file)
          /\ Continued(file, Stamped(Run, "rejected", g), file')
      BY <1>0, <2>4, <3>0, WrittenClean, ProcessesFacts
    <3>2. Stamped(Run, "rejected", g).note = "rejected"
      BY DEF Stamped
    <3>3. Shows(file', "none", NoFlag)
      BY <2>2, <3>0, <3>1, <3>2, ShownAfter
    <3> QED
      BY <2>1, <2>2, <3>1, <3>3, RunMoves DEF RunShows
  <2> QED
    BY <2>1, <2>3, <2>4
<1>4. CASE Decide
  <2>1. PICK g \in Flags, d \in {"finalized", "pending"} :
            /\ pc[Run] = "running" /\ Emit(Run, d, g)
            /\ answer' = [answer EXCEPT ![Run] =
                   [outcome |-> IF d = "finalized" THEN "solved" ELSE "candidate",
                    flag |-> g]]
            /\ Goto(Run, "decided") /\ manifest' = manifest
    BY <1>4 DEF Decide, Working
  <2>2. Shows(file, "none", NoFlag) /\ manifest = Whole(Blank)
    BY <1>0, <2>1 DEF RunsTurn, RunShows
  <2>3. pc'[Run] = "decided" /\ \A q \in Processes : q # Run => pc'[q] = pc[q]
    BY <1>0, <2>1, MovesTo, ProcessesFacts
  <2>4. answer'[Run] = [outcome |-> IF d = "finalized" THEN "solved" ELSE "candidate",
                        flag |-> g]
    BY <1>0, <2>1, ProcessesFacts DEF RestTyped
  <2>5. Stamped(Run, d, g) \in Events
    BY <1>0, RunStamps DEF Decisions
  <2>6. Clean' /\ file \in Seq(Lines) /\ file' \in Seq(Lines) /\ AllWhole(file)
        /\ Continued(file, Stamped(Run, d, g), file')
    BY <1>0, <2>1, <2>5, WrittenClean, ProcessesFacts
  <2>7. Stamped(Run, d, g).note = d /\ Stamped(Run, d, g).flag = g
    BY DEF Stamped
  <2>8. d = "pending" => Shows(file', "candidate", g)
    BY <2>2, <2>5, <2>6, <2>7, ShownAfter
  <2>9. d = "finalized" => Shows(file', "solved", g)
    BY <2>2, <2>5, <2>6, <2>7, ShownAfter
  <2>10. Shows(file', answer'[Run].outcome, answer'[Run].flag)
    <3>1. CASE d = "pending"
      BY <2>4, <2>8, <3>1
    <3>2. CASE d = "finalized"
      BY <2>4, <2>9, <3>2
    <3> QED
      BY <3>1, <3>2
  <2>11. RunShows'
    BY <2>1, <2>2, <2>3, <2>10 DEF RunShows
  <2> QED
    BY <2>1, <2>3, <2>6, <2>11, RunMoves
<1>5. CASE FinishDecided \/ FinishEmptyHanded
  <2>1. /\ pc[Run] \in {"running", "decided"} /\ Emit(Run, "finished", NoFlag)
        /\ Goto(Run, "recording") /\ manifest' = manifest
    BY <1>5 DEF FinishDecided, FinishEmptyHanded, recordVars
  <2>2. pc'[Run] = "recording" /\ \A q \in Processes : q # Run => pc'[q] = pc[q]
    BY <1>0, <2>1, MovesTo, ProcessesFacts
  <2>3. Clean' /\ file \in Seq(Lines) /\ file' \in Seq(Lines) /\ AllWhole(file)
        /\ Continued(file, Stamped(Run, "finished", NoFlag), file')
    BY <1>0, <2>1, WrittenClean, RunStamps, ProcessesFacts
  <2>4. Stamped(Run, "finished", NoFlag).note \notin Decisions
    BY DEF Stamped, Decisions
  <2>5. \A o, g : Shows(file, o, g) => Shows(file', o, g)
    BY <1>0, <2>3, <2>4, ShownAfter, RunStamps
  <2>6. Shows(file', answer'[Run].outcome, answer'[Run].flag)
    <3>1. CASE FinishDecided
      <4>1. pc[Run] = "decided" /\ answer' = answer
        BY <3>1 DEF FinishDecided, recordVars
      <4> QED
        BY <1>0, <2>5, <4>1 DEF RunsTurn, RunShows
    <3>2. CASE FinishEmptyHanded
      <4>1. PICK o \in {"exhausted", "error"} :
                answer' = [answer EXCEPT ![Run] = [outcome |-> o, flag |-> NoFlag]]
        BY <3>2 DEF FinishEmptyHanded
      <4>2. answer'[Run] = [outcome |-> o, flag |-> NoFlag]
        BY <1>0, <4>1, ProcessesFacts DEF RestTyped
      <4>3. Shows(file, "none", NoFlag)
        BY <1>0, <3>2 DEF FinishEmptyHanded, RunsTurn, RunShows
      <4> QED
        BY <2>5, <4>2, <4>3, ShownAlike
    <3> QED
      BY <1>5, <3>1, <3>2
  <2>7. RunShows'
    BY <1>0, <2>1, <2>2, <2>6 DEF RunsTurn, RunShows
  <2> QED
    BY <2>1, <2>2, <2>3, <2>7, RunMoves
<1>6. CASE Break
  <2>1. /\ pc[Run] = "running" /\ Goto(Run, "recording") /\ UNCHANGED traceVars
        /\ manifest' = manifest
        /\ answer' = [answer EXCEPT ![Run] = [outcome |-> "error", flag |-> NoFlag]]
    BY <1>6 DEF Break
  <2>2. pc'[Run] = "recording" /\ \A q \in Processes : q # Run => pc'[q] = pc[q]
    BY <1>0, <2>1, MovesTo, ProcessesFacts
  <2>3. answer'[Run] = [outcome |-> "error", flag |-> NoFlag]
    BY <1>0, <2>1, ProcessesFacts DEF RestTyped
  <2>4. Shows(file', "error", NoFlag) /\ manifest = Whole(Blank)
    BY <1>0, <2>1, ShownAlike DEF RunsTurn, RunShows, traceVars
  <2>5. RunShows' /\ Clean'
    BY <1>0, <2>1, <2>2, <2>3, <2>4, StaysClean DEF RunShows, traceVars
  <2> QED
    BY <2>1, <2>2, <2>5, RunMoves
<1>7. CASE RunTorn
  <2>1. Goto(Run, "dead")
    BY <1>7 DEF RunTorn, EmitTorn
  <2> QED
    BY <1>0, <2>1, MovesTo, ProcessesFacts DEF Unharmed
<1>8. CASE LoadManifest(Run)
  <2>1. pc[Run] = "recording" /\ manifest = Whole(Blank)
    BY <1>0, <1>8 DEF LoadManifest, RunsTurn, RunShows
  <2>2. manifest.state = "whole" /\ manifest.content = Blank
    BY <2>1 DEF Whole
  <2>3. /\ loaded' = [loaded EXCEPT ![Run] = Updated(Run, Blank)] /\ Goto(Run, "loaded")
        /\ UNCHANGED <<manifest, answer, traceVars, overlap>>
    BY <1>8, <2>2 DEF LoadManifest
  <2>4. pc'[Run] = "loaded" /\ \A q \in Processes : q # Run => pc'[q] = pc[q]
    BY <1>0, <2>3, MovesTo, ProcessesFacts
  <2>5. loaded'[Run] = Updated(Run, Blank)
    BY <1>0, <2>3, ProcessesFacts DEF RestTyped
  <2>6. /\ loaded'[Run].outcome = answer[Run].outcome /\ loaded'[Run].flag = answer[Run].flag
        /\ ~loaded'[Run].approved
    <3>1. Updated(Run, Blank) = [outcome |-> answer[Run].outcome, flag |-> answer[Run].flag,
                                 approved |-> Blank.approved \/ Run # Run]
      BY DEF Updated
    <3>2. /\ loaded'[Run].outcome = answer[Run].outcome
          /\ loaded'[Run].flag = answer[Run].flag
          /\ loaded'[Run].approved = (Blank.approved \/ Run # Run)
      BY <2>5, <3>1
    <3>3. ~Blank.approved
      BY DEF Blank
    <3> QED
      BY <3>2, <3>3, Zenon
  <2>7. RunShows' /\ Clean'
    BY <1>0, <2>1, <2>3, <2>4, <2>6, StaysClean DEF RunsTurn, RunShows, traceVars
  <2> QED
    BY <2>1, <2>4, <2>7, RunMoves
<1>9. CASE TruncateManifest(Run)
  <2>1. /\ pc[Run] = "loaded" /\ manifest' = Broken("empty") /\ Goto(Run, "truncated")
        /\ UNCHANGED <<answer, loaded, traceVars, overlap>>
    BY <1>9 DEF TruncateManifest
  <2>2. pc'[Run] = "truncated" /\ \A q \in Processes : q # Run => pc'[q] = pc[q]
    BY <1>0, <2>1, MovesTo, ProcessesFacts
  <2>3. manifest'.state = "empty"
    BY <2>1 DEF Broken
  <2>4. RunShows' /\ Clean'
    BY <1>0, <2>1, <2>2, <2>3, StaysClean DEF RunsTurn, RunShows, traceVars
  <2> QED
    BY <2>1, <2>2, <2>4, RunMoves
<1>10. CASE WriteManifest(Run)
  <2>1. pc[Run] = "truncated" /\ manifest.state = "empty"
    BY <1>0, <1>10 DEF WriteManifest, RunsTurn, RunShows
  <2>2. /\ manifest' = Whole(loaded[Run]) /\ Goto(Run, "done")
        /\ UNCHANGED <<answer, loaded, traceVars, overlap>>
    BY <1>10, <2>1 DEF WriteManifest
  <2>3. pc'[Run] = "done" /\ \A q \in Processes : q # Run => pc'[q] = pc[q]
    BY <1>0, <2>2, MovesTo, ProcessesFacts
  <2>4. \A a \in Approvers : pc'[a] \in Quiet
    BY <1>0, <2>1, <2>3, ProcessesFacts DEF RunsTurn
  <2>5. manifest'.state = "whole" /\ manifest'.content = loaded[Run]
    BY <2>2 DEF Whole
  <2>6. Shows(file', loaded[Run].outcome, loaded[Run].flag) /\ ~loaded[Run].approved
    BY <1>0, <2>1, <2>2 DEF RunsTurn, RunShows, traceVars
  <2>7. \A a \in Approvers : pc'[a] # "done"
    BY <2>4 DEF Quiet
  <2>8. loaded[Run].approved \in BOOLEAN
    BY <1>0, ProcessesFacts DEF RestTyped, Contents
  <2>9. Settled'
    BY <2>5, <2>6, <2>7, <2>8 DEF Settled
  <2>10. \A a \in Approvers : ApproversTurn(a)'
    BY <2>4 DEF ApproversTurn, Quiet
  <2>11. RunsTurn'
    BY <2>3 DEF RunsTurn, RunShows
  <2>12. Clean'
    BY <1>0, <2>2, StaysClean DEF traceVars
  <2> QED
    BY <2>9, <2>10, <2>11, <2>12 DEF Turns
<1> QED
  BY <1>1, <1>2, <1>3, <1>4, <1>5, <1>6, <1>7, <1>8, <1>9, <1>10 DEF RunNext, Record

LEMMA ApproverTurnStep ==
  ASSUME RecordInv, SeqInv, Turns, ~overlap', Alone, Unharmed, Unharmed',
         NEW a \in Approvers, ApproverNext(a) \/ Record(a)
  PROVE  Turns'
<1>0. TraceInv /\ RestTyped /\ Clean /\ RunsTurn /\ a \in Processes /\ a # Run
  BY ProcessesFacts DEF RecordInv, VerdictInv, Turns
<1>1. CASE CheckManifest(a)
  <2>1. \A p \in Processes : pc[p] \in AtRest
    BY <1>1 DEF CheckManifest
  <2>2. /\ pc[a] = "idle" /\ UNCHANGED <<traceVars, recordVars>>
        /\ manifest.state = "absent" => Goto(a, "refused")
        /\ \E label \in {"refused", "checked", "dead"} : Goto(a, label)
    BY <1>1 DEF CheckManifest
  <2>3. \A q \in Processes : q # a => pc'[q] = pc[q]
    BY <1>0, <2>2, MovesTo
  <2>4. pc'[a] \in {"refused", "checked"} /\ (manifest.state = "absent" => pc'[a] = "refused")
    BY <1>0, <2>2, MovesTo DEF Unharmed
  <2>5. Clean' /\ file' = file /\ manifest' = manifest
    BY <1>0, <2>2, StaysClean DEF traceVars, recordVars
  <2>6. CASE pc[Run] = "done"
    <3>1. \A b \in Approvers : b # a => pc[b] \in Between
      BY <2>1, <2>6, OthersBetween
    <3>2. Settled
      BY <2>2, <2>6, <3>1 DEF Turns, Between, Quiet
    <3>3. \A b \in Approvers : pc'[b] = "done" <=> pc[b] = "done"
      BY <2>2, <2>3, <2>4, ProcessesFacts
    <3>4. Settled'
      BY <2>5, <3>2, <3>3 DEF Settled
    <3>5. ApproversTurn(a)'
      BY <2>4 DEF ApproversTurn
    <3> QED
      BY <2>3, <2>5, <2>6, <3>1, <3>4, <3>5, ApproverMoves
  <2>7. CASE pc[Run] # "done"
    <3>1. pc[Run] = "new"
      BY <1>0, <2>1, <2>7, ProcessesFacts DEF RunsTurn, AtRest
    <3>2. pc'[a] = "refused"
      BY <2>4, <3>1 DEF SeqInv, AbsentAtFirst
    <3>3. pc'[Run] = "new"
      BY <1>0, <2>3, <3>1, ProcessesFacts
    <3>4. \A b \in Approvers : pc'[b] \in Quiet
      BY <1>0, <2>3, <2>7, <3>2, ProcessesFacts DEF RunsTurn, Quiet
    <3>5. RunsTurn'
      BY <3>3, <3>4 DEF RunsTurn, RunShows
    <3> QED
      BY <2>5, <3>3, <3>5 DEF Turns
  <2> QED
    BY <2>6, <2>7
<1>2. SUFFICES ASSUME ~CheckManifest(a)  PROVE Turns'
  BY <1>1
<1>3. Active(a)
  BY <1>2 DEF ApproverNext, Record, Choose, Refuse, ReadRaises, Approve, ApproveTorn,
              LoadManifest, TruncateManifest, WriteManifest, Active, AtRest
<1>4. pc[Run] = "done" /\ \A b \in Approvers : b # a => pc[b] \in Between
  BY <1>3, AtWorkAlone
<1>5. ApproversTurn(a)
  BY <1>4 DEF Turns
<1>6. CASE Choose(a)
  <2>1. PICK g \in Held(file) :
            answer' = [answer EXCEPT ![a] = [outcome |-> "solved", flag |-> g]]
    BY <1>6 DEF Choose
  <2>2. /\ pc[a] = "checked" /\ Goto(a, "chosen")
        /\ UNCHANGED <<file, torn, emitted, manifest, loaded, overlap>>
    BY <1>6 DEF Choose
  <2>3. pc'[a] = "chosen" /\ \A q \in Processes : q # a => pc'[q] = pc[q]
    BY <1>0, <2>2, MovesTo
  <2>4. Settled
    BY <1>4, <2>2 DEF Turns, Between
  <2>5. Shows(file, "candidate", g) /\ manifest.content.outcome = "candidate"
    BY <2>1, <2>4 DEF Settled, Shows
  <2>6. \A b \in Approvers : pc[b] # "done"
    BY <2>4, <2>5 DEF Settled
  <2>7. \A b \in Approvers : b # a => pc'[b] \in {"idle", "refused", "checked"}
    BY <1>4, <2>3, <2>6, ProcessesFacts DEF Between, Quiet
  <2>8. \A b \in Approvers : b # a => pc'[b] \in Quiet
    BY <1>3, <2>3, <2>7, ProcessesFacts DEF Alone, Active, AtRest, Quiet
  <2>9. answer'[a] = [outcome |-> "solved", flag |-> g]
    BY <1>0, <2>1 DEF RestTyped
  <2>10. ApproversTurn(a)'
    BY <2>2, <2>3, <2>4, <2>5, <2>8, <2>9 DEF ApproversTurn, Settled
  <2>11. Clean'
    BY <1>0, <2>2, StaysClean
  <2> QED
    BY <1>4, <2>3, <2>10, <2>11, ApproverMoves DEF Between, Quiet
<1>7. CASE Refuse(a)
  <2>1. /\ pc[a] = "checked" /\ Goto(a, "refused")
        /\ UNCHANGED <<file, torn, manifest>>
    BY <1>7 DEF Refuse, traceVars, recordVars
  <2>2. pc'[a] = "refused" /\ \A q \in Processes : q # a => pc'[q] = pc[q]
    BY <1>0, <2>1, MovesTo
  <2>3. Settled
    BY <1>4, <2>1 DEF Turns, Between
  <2>4. \A b \in Approvers : pc'[b] = "done" <=> pc[b] = "done"
    BY <2>1, <2>2, ProcessesFacts
  <2>5. Settled'
    BY <2>1, <2>3, <2>4 DEF Settled
  <2>6. ApproversTurn(a)' /\ Clean'
    BY <1>0, <2>1, <2>2, StaysClean DEF ApproversTurn
  <2> QED
    BY <1>4, <2>2, <2>5, <2>6, ApproverMoves
<1>8. CASE ReadRaises(a) \/ ApproveTorn(a)
  <2>1. \E label \in {"raised", "dead"} : Goto(a, label)
    BY <1>8 DEF ReadRaises, ApproveTorn, EmitTorn
  <2> QED
    BY <1>0, <2>1, MovesTo DEF Unharmed
<1>9. CASE Approve(a)
  <2>1. /\ pc[a] = "chosen" /\ Emit(a, "finalized", answer[a].flag)
        /\ Goto(a, "recording") /\ UNCHANGED <<manifest, answer>>
    BY <1>9 DEF Approve, recordVars
  <2>2. pc'[a] = "recording" /\ \A q \in Processes : q # a => pc'[q] = pc[q]
    BY <1>0, <2>1, MovesTo
  <2>3. Stamped(a, "finalized", answer[a].flag) \in Events
    BY <1>0, <2>1, ChosenFlag, ApprovalStamps
  <2>4. Clean' /\ file \in Seq(Lines) /\ file' \in Seq(Lines) /\ AllWhole(file)
        /\ Continued(file, Stamped(a, "finalized", answer[a].flag), file')
    BY <1>0, <2>1, <2>3, WrittenClean
  <2>5. /\ Stamped(a, "finalized", answer[a].flag).note = "finalized"
        /\ Stamped(a, "finalized", answer[a].flag).flag = answer[a].flag
    BY DEF Stamped
  <2>6. Shows(file, "candidate", answer[a].flag) /\ answer[a].outcome = "solved"
    BY <1>5, <2>1 DEF ApproversTurn
  <2>7. Shows(file', "solved", answer[a].flag)
    BY <2>3, <2>4, <2>5, <2>6, ShownAfter
  <2>8. \A b \in Approvers : b # a => pc'[b] \in Quiet
    BY <1>5, <2>1, <2>2, ProcessesFacts DEF ApproversTurn
  <2>9. ApproversTurn(a)'
    BY <1>5, <2>1, <2>2, <2>6, <2>7, <2>8 DEF ApproversTurn
  <2> QED
    BY <1>4, <2>2, <2>4, <2>9, ApproverMoves DEF Between, Quiet
<1>10. CASE LoadManifest(a)
  <2>1. pc[a] = "recording" /\ manifest.state = "whole"
    BY <1>5, <1>10 DEF LoadManifest, ApproversTurn
  <2>2. /\ loaded' = [loaded EXCEPT ![a] = Updated(a, manifest.content)]
        /\ Goto(a, "loaded") /\ UNCHANGED <<manifest, answer, traceVars, overlap>>
    BY <1>10, <2>1 DEF LoadManifest
  <2>3. pc'[a] = "loaded" /\ \A q \in Processes : q # a => pc'[q] = pc[q]
    BY <1>0, <2>2, MovesTo
  <2>4. loaded'[a] = Updated(a, manifest.content)
    BY <1>0, <2>2 DEF RestTyped
  <2>5. loaded'[a].outcome = answer[a].outcome /\ loaded'[a].approved
    <3>1. /\ loaded'[a].outcome = answer[a].outcome
          /\ loaded'[a].approved = (manifest.content.approved \/ a # Run)
      BY <2>4 DEF Updated
    <3> QED
      BY <1>0, <3>1, Zenon
  <2>6. Shows(file', "solved", loaded'[a].flag) /\ answer[a].outcome = "solved"
    BY <1>5, <2>1, <2>2, ShownAlike DEF ApproversTurn, traceVars
  <2>7. \A b \in Approvers : b # a => pc'[b] \in Quiet
    BY <1>5, <2>1, <2>3, ProcessesFacts DEF ApproversTurn
  <2>8. ApproversTurn(a)'
    BY <2>1, <2>2, <2>3, <2>5, <2>6, <2>7 DEF ApproversTurn
  <2>9. Clean'
    BY <1>0, <2>2, StaysClean DEF traceVars
  <2> QED
    BY <1>4, <2>3, <2>8, <2>9, ApproverMoves DEF Between, Quiet
<1>11. CASE TruncateManifest(a)
  <2>1. /\ pc[a] = "loaded" /\ manifest' = Broken("empty") /\ Goto(a, "truncated")
        /\ UNCHANGED <<answer, loaded, traceVars, overlap>>
    BY <1>11 DEF TruncateManifest
  <2>2. pc'[a] = "truncated" /\ \A q \in Processes : q # a => pc'[q] = pc[q]
    BY <1>0, <2>1, MovesTo
  <2>3. manifest'.state = "empty"
    BY <2>1 DEF Broken
  <2>4. \A b \in Approvers : b # a => pc'[b] \in Quiet
    BY <1>5, <2>1, <2>2, ProcessesFacts DEF ApproversTurn
  <2>5. ApproversTurn(a)' /\ Clean'
    BY <1>0, <1>5, <2>1, <2>2, <2>3, <2>4, StaysClean DEF ApproversTurn, traceVars
  <2> QED
    BY <1>4, <2>2, <2>5, ApproverMoves DEF Between, Quiet
<1>12. CASE WriteManifest(a)
  <2>1. pc[a] = "truncated" /\ manifest.state = "empty"
    BY <1>5, <1>12 DEF WriteManifest, ApproversTurn
  <2>2. /\ manifest' = Whole(loaded[a]) /\ Goto(a, "done")
        /\ UNCHANGED <<answer, loaded, traceVars, overlap>>
    BY <1>12, <2>1 DEF WriteManifest
  <2>3. pc'[a] = "done" /\ \A q \in Processes : q # a => pc'[q] = pc[q]
    BY <1>0, <2>2, MovesTo
  <2>4. manifest'.state = "whole" /\ manifest'.content = loaded[a]
    BY <2>2 DEF Whole
  <2>5. /\ Shows(file', "solved", loaded[a].flag) /\ loaded[a].outcome = "solved"
        /\ loaded[a].approved
    BY <1>5, <2>1, <2>2 DEF ApproversTurn, traceVars
  <2>6. \A b \in Approvers : b # a => pc'[b] # "done"
    BY <1>5, <2>1, <2>3, ProcessesFacts DEF ApproversTurn, Quiet
  <2>7. loaded[a].approved = TRUE
    BY <1>0, <2>5 DEF RestTyped, Contents
  <2>8. Settled'
    BY <2>3, <2>4, <2>5, <2>6, <2>7 DEF Settled
  <2>9. ApproversTurn(a)' /\ Clean'
    BY <1>0, <2>2, <2>3, StaysClean DEF ApproversTurn, traceVars
  <2> QED
    BY <1>4, <2>3, <2>8, <2>9, ApproverMoves
<1> QED
  BY <1>2, <1>6, <1>7, <1>8, <1>9, <1>10, <1>11, <1>12 DEF ApproverNext, Record

LEMMA TurnsStep ==
  ASSUME RecordInv, SeqInv, TurnsInv, [Next]_vars
  PROVE  TurnsInv'
<1>1. SUFFICES ASSUME ~overlap', Unharmed'  PROVE Turns'
  BY DEF TurnsInv
<1>2. ~overlap /\ Unharmed /\ RestTyped
  BY <1>1, HarmLasts DEF RecordInv, VerdictInv
<1>3. Turns /\ Alone
  BY <1>2 DEF TurnsInv, SeqInv
<1>4. CASE RunNext
  BY <1>1, <1>2, <1>3, <1>4, RunTurnStep
<1>5. ASSUME NEW a \in Approvers, ApproverNext(a)
      PROVE  Turns'
  BY <1>1, <1>2, <1>3, <1>5, ApproverTurnStep
<1>6. ASSUME NEW p \in Processes, Record(p)
      PROVE  Turns'
  BY <1>1, <1>2, <1>3, <1>6, RunTurnStep, ApproverTurnStep DEF Processes
<1>7. ASSUME NEW p \in Processes, Die(p)
      PROVE  Turns'
  BY <1>1, <1>2, <1>7, MovesTo DEF Die, Unharmed
<1>8. CASE UNCHANGED vars
  BY <1>3, <1>8 DEF vars, Turns, Clean, RunsTurn, RunShows, Settled, ApproversTurn
<1> QED
  BY <1>4, <1>5, <1>6, <1>7, <1>8 DEF Next

LEMMA TurnsInit == Init => TurnsInv
<1> SUFFICES ASSUME Init PROVE Turns
  BY DEF TurnsInv
<1>1. /\ file = <<>> /\ ~torn /\ pc[Run] = "new"
      /\ \A a \in Approvers : pc[a] = "idle"
  BY ProcessesFacts DEF Init
<1>2. Clean
  BY <1>1 DEF Clean
<1>3. RunsTurn
  BY <1>1 DEF RunsTurn, RunShows, Quiet
<1> QED
  BY <1>1, <1>2, <1>3 DEF Turns

LEMMA TurnsInvHolds == Spec => []TurnsInv
<1>1. RecordInv /\ SeqInv /\ TurnsInv /\ [Next]_vars => TurnsInv'
  BY TurnsStep
<1> QED
  BY <1>1, TurnsInit, RecordInvHolds, SeqInvHolds, PTL DEF Spec

\* Processes that take turns and finish leave a trace and a run.json that agree,
\* for any number of approvals: the run's own record and each approval's is the
\* one the trace shows, and no second approval of a flag goes through.
THEOREM FilesDoAgree == Spec => []FilesAgree
<1>1. TurnsInv => FilesAgree
  <2> SUFFICES ASSUME TurnsInv, ~overlap, Clean, pc[Run] = "done",
                      \A a \in Approvers : pc[a] \in {"idle", "done", "refused"}
               PROVE  /\ manifest.state = "whole"
                      /\ (manifest.content.outcome = "candidate") = (Held(file) # {})
                      /\ (manifest.content.outcome = "solved") =
                             (\E i \in DOMAIN file : file[i].event.note = "finalized")
                      /\ manifest.content.approved = (\E a \in Approvers : pc[a] = "done")
                      /\ \A a, b \in Approvers : pc[a] = "done" /\ pc[b] = "done" => a = b
    BY Zenon DEF FilesAgree
  <2>1. Unharmed
    BY DEF Unharmed, Processes
  <2>2. Settled
    BY <2>1 DEF TurnsInv, Turns, Between, Quiet
  <2>3. Shows(file, manifest.content.outcome, manifest.content.flag)
    BY <2>2 DEF Settled
  <2>4. (manifest.content.outcome = "candidate") = (Held(file) # {})
    BY <2>3 DEF Shows
  <2>5. (manifest.content.outcome = "solved") = Finalized(file)
    <3>1. (manifest.content.outcome = "solved") <=> Finalized(file)
      BY <2>3 DEF Shows
    <3>2. Finalized(file) \in BOOLEAN
      BY DEF Finalized
    <3> QED
      BY <3>1, <3>2
  <2> QED
    BY <2>2, <2>4, <2>5, Zenon DEF Settled, Finalized
<1> QED
  BY <1>1, TurnsInvHolds, PTL
=============================================================================
