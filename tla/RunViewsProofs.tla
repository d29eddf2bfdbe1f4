---------------------------- MODULE RunViewsProofs ----------------------------
(***************************************************************************)
(* What those who read a run's two files beside its writers are told, for   *)
(* any number of approvals, flags and events, whatever overlaps and         *)
(* wherever processes die.                                                  *)
(***************************************************************************)
EXTENDS RunViews, RunRecordProofs

-----------------------------------------------------------------------------
(* What backs a row of the index                                              *)

\* A reader is given the event that held g, and nothing can join its line.
PendingStands(g) ==
    \E i \in Readable(file) :
        /\ file[i].event.note = "pending" /\ file[i].event.flag = g
        /\ torn => i < Len(file)

\* So is the event that finalized g, unless some line is bad.
FinalStands(g) ==
    \/ ~AllWhole(file)
    \/ \E i \in 1 .. Len(file) :
           file[i].event.note = "finalized" /\ file[i].event.flag = g

Backs(outcome, g) ==
    /\ outcome = "candidate" => PendingStands(g)
    /\ outcome = "solved" => FinalStands(g)

\* Before the run decides, it alone has written, and all of its lines are whole.
Undecided ==
    pc[Run] \in {"new", "creating", "running"} =>
        /\ Clean
        /\ \A i \in DOMAIN emitted : emitted[i].note # "pending"
        /\ \A a \in Approvers : pc[a] # "chosen"

BacksRecord(p) ==
    /\ pc[p] \in {"decided", "recording"} => Backs(answer[p].outcome, answer[p].flag)
    /\ pc[p] \in {"loaded", "truncated"} => Backs(loaded[p].outcome, loaded[p].flag)

\* Whatever is in run.json, or on its way there, the trace backs.
BackedInv ==
    /\ Undecided
    /\ \A p \in Processes : BacksRecord(p)
    /\ Backs(manifest.content.outcome, manifest.content.flag)

RowBacked(row) ==
    /\ row.outcome = "candidate" => <<"pending", row.flag>> \in row.read
    /\ row.outcome = "solved" => row.cut \/ <<"finalized", row.flag>> \in row.read

RebuildInv ==
    /\ rebuild.pc = "trace" => Backs(rebuild.row.outcome, rebuild.row.flag)
    /\ rebuild.pc = "commit" => RowBacked(rebuild.row)
    /\ RowsBacked

-----------------------------------------------------------------------------
(* What the UI has seen                                                       *)

RunOnly == ~torn /\ \A a \in Approvers : pc[a] = "idle"

\* While the run alone has written, its n-th event is the n-th of the trace, and
\* a line it tore was its last.
InTurn ==
    /\ torn /\ (\A a \in Approvers : pc[a] = "idle") => pc[Run] = "dead"
    /\ RunOnly =>
        /\ AllWhole(file)
        /\ Len(emitted) = writerSeq[Run]
        /\ \A i \in 1 .. Len(emitted) : emitted[i].by = Run /\ emitted[i].seq = i

\* The run's list is what the trace holds, or the event that will refresh it comes.
Refreshed ==
    RunOnly /\ view.state = "selected" /\ view.of = "run" =>
        \/ view.list = Held(file)
        \/ \E i \in 1 .. Len(emitted) :
               i > view.shown /\ emitted[i].note \in Decisions

ViewTyped == view \in View

ListedWasHeld == view.of = "run" => \A g \in view.list : JudgeWrote(emitted, "pending", g)

ViewInv ==
    /\ InTurn
    /\ ViewTyped
    /\ ListedWasHeld
    /\ Refreshed

-----------------------------------------------------------------------------
(* The trace of a record that grows                                           *)

\* A step writes nothing, or one line.
OneLine ==
    \/ UNCHANGED <<file, torn>>
    \/ \E l \in Lines : file' = Extended(l)

LEMMA EmitIsOneLine ==
  ASSUME NEW p, NEW note, NEW g, Stamped(p, note, g) \in Events,
         Emit(p, note, g) \/ EmitTorn(p, note, g)
  PROVE  OneLine
<1>1. Line(Stamped(p, note, g)) \in Lines
  BY DEF Line, Lines
<1>2. \A t \in {"bad", "undecodable"} : Cut(t) \in Lines
  BY CutTyped
<1> QED
  BY <1>1, <1>2 DEF OneLine, Emit, EmitTorn

LEMMA StepWritesOneLine ==
  ASSUME RecordInv, [Next]_vars
  PROVE  OneLine
<1>0. TraceInv
  BY DEF RecordInv
<1>1. CASE Work \/ Decide \/ FinishDecided \/ FinishEmptyHanded \/ RunTorn
  BY <1>0, <1>1, RunStamps, EmitIsOneLine
     DEF Work, Decide, FinishDecided, FinishEmptyHanded, RunTorn, Decisions
<1>2. ASSUME NEW a \in Approvers, Approve(a) \/ ApproveTorn(a)
      PROVE  OneLine
  <2>1. Stamped(a, "finalized", answer[a].flag) \in Events
    BY <1>0, <1>2, ChosenFlag, ApprovalStamps DEF Approve, ApproveTorn
  <2> QED
    BY <1>2, <2>1, EmitIsOneLine DEF Approve, ApproveTorn
<1>3. CASE CreateManifest \/ FillManifest \/ Break \/ UNCHANGED vars
  BY <1>3 DEF CreateManifest, FillManifest, Break, vars, traceVars, OneLine
<1>4. ASSUME NEW a \in Approvers, CheckManifest(a) \/ Choose(a) \/ Refuse(a) \/ ReadRaises(a)
      PROVE  OneLine
  BY <1>4 DEF CheckManifest, Choose, Refuse, ReadRaises, traceVars, OneLine
<1>5. ASSUME NEW p \in Processes, Record(p) \/ Die(p)
      PROVE  OneLine
  BY <1>5 DEF Record, LoadManifest, TruncateManifest, WriteManifest, Die, traceVars, OneLine
<1> QED
  BY <1>1, <1>2, <1>3, <1>4, <1>5 DEF Next, RunNext, ApproverNext

\* What is before the last line, or is behind a newline, stays as it is.
LEMMA LinesStay ==
  ASSUME TraceInv, NEW l \in Lines, file' = Extended(l),
         NEW i \in 1 .. Len(file), torn => i < Len(file)
  PROVE  i \in 1 .. Len(file') /\ i < Len(file') /\ file'[i] = file[i]
<1>1. /\ file' \in Seq(Lines)
      /\ ~torn => Len(file') = Len(file) + 1
                  /\ \A k \in 1 .. Len(file) : file'[k] = file[k]
      /\ torn => Len(file') = Len(file)
                 /\ \A k \in 1 .. Len(file) : k # Len(file) => file'[k] = file[k]
  BY ExtendedFile
<1>2. Len(file) \in Nat /\ torn \in BOOLEAN
  BY DEF TraceInv, TraceTyped
<1>3. CASE torn
  BY <1>1, <1>2, <1>3
<1>4. CASE ~torn
  BY <1>1, <1>2, <1>4
<1> QED
  BY <1>3, <1>4

LEMMA PendingStays ==
  ASSUME TraceInv, OneLine, file' \in Seq(Lines), NEW g, PendingStands(g)
  PROVE  PendingStands(g)'
<1>1. PICK i \in Readable(file) :
          /\ file[i].event.note = "pending" /\ file[i].event.flag = g
          /\ torn => i < Len(file)
  BY DEF PendingStands
<1>2. i \in 1 .. Len(file) /\ \A j \in 1 .. i : file[j].text = "whole"
  BY <1>1, ReadableLines DEF TraceInv, TraceTyped
<1>3. CASE UNCHANGED <<file, torn>>
  BY <1>1, <1>3 DEF PendingStands
<1>4. ASSUME NEW l \in Lines, file' = Extended(l)
      PROVE  PendingStands(g)'
  <2>1. \A j \in 1 .. i : j \in 1 .. Len(file) /\ (torn => j < Len(file))
    BY <1>1, <1>2 DEF TraceInv, TraceTyped
  <2>2. \A j \in 1 .. i : file'[j] = file[j]
    BY <1>4, <2>1, LinesStay
  <2>3. i \in 1 .. Len(file') /\ i < Len(file') /\ file'[i] = file[i]
    BY <1>1, <1>2, <1>4, LinesStay
  <2>4. i \in Readable(file')
    BY <1>2, <2>2, <2>3, ReadableLines
  <2> QED
    BY <1>1, <2>3, <2>4 DEF PendingStands
<1> QED
  BY <1>3, <1>4 DEF OneLine

LEMMA FinalStays ==
  ASSUME TraceInv, OneLine, NEW g, FinalStands(g)
  PROVE  FinalStands(g)'
<1>1. CASE UNCHANGED <<file, torn>>
  BY <1>1 DEF FinalStands
<1>2. ASSUME NEW l \in Lines, file' = Extended(l)
      PROVE  FinalStands(g)'
  <2>1. /\ file' \in Seq(Lines)
        /\ torn => Len(file') = Len(file) /\ file'[Len(file')].text # "whole" /\ Len(file') >= 1
    BY <1>2, ExtendedFile
  <2>2. CASE torn
    <3>1. Len(file') \in 1 .. Len(file')
      BY <2>1, <2>2
    <3> QED
      BY <2>1, <2>2, <3>1 DEF FinalStands, AllWhole
  <2>3. CASE ~torn
    <3>1. \A i \in 1 .. Len(file) : i \in 1 .. Len(file') /\ file'[i] = file[i]
      BY <1>2, <2>3, LinesStay
    <3> QED
      BY <3>1 DEF FinalStands, AllWhole
  <2> QED
    BY <2>2, <2>3
<1> QED
  BY <1>1, <1>2 DEF OneLine

LEMMA BackingStays ==
  ASSUME RecordInv, [Next]_vars, NEW o, NEW g, Backs(o, g)
  PROVE  Backs(o, g)'
<1>1. TraceInv /\ OneLine /\ file' \in Seq(Lines)
  BY TraceStep, StepWritesOneLine DEF RecordInv, TraceInv, TraceTyped
<1> QED
  BY <1>1, PendingStays, FinalStays DEF Backs

LEMMA NothingBacked == \A g : Backs("none", g) /\ Backs("error", g) /\ Backs("exhausted", g)
BY DEF Backs

\* The run holds a flag, while its file is clean.
LEMMA PendingIsWritten ==
  ASSUME TraceInv, Clean, NEW g, Stamped(Run, "pending", g) \in Events, Emit(Run, "pending", g)
  PROVE  PendingStands(g)'
<1>1. /\ Clean' /\ file \in Seq(Lines) /\ file' \in Seq(Lines) /\ AllWhole(file)
      /\ Continued(file, Stamped(Run, "pending", g), file')
  BY WrittenClean, ProcessesFacts
<1>2. /\ AllWhole(file')
      /\ Len(file') \in 1 .. Len(file') /\ file'[Len(file')].event = Stamped(Run, "pending", g)
  BY <1>1, ContinuedWhole
<1>3. Readable(file') = 1 .. Len(file')
  BY <1>1, <1>2, AllReadable
<1>4. ~torn'
  BY DEF Emit
<1> QED
  BY <1>2, <1>3, <1>4 DEF PendingStands, Stamped

\* A flag is finalized, whatever the state of the file.
LEMMA FinalIsWritten ==
  ASSUME TraceInv, NEW p \in Processes, NEW g, Stamped(p, "finalized", g) \in Events,
         Emit(p, "finalized", g)
  PROVE  FinalStands(g)'
<1> DEFINE l == Line(Stamped(p, "finalized", g))
<1>1. l \in Lines /\ l.event.note = "finalized" /\ l.event.flag = g
  BY DEF Line, Lines, Stamped
<1>2. file' = Extended(l)
  BY DEF Emit
<1> HIDE DEF l
<1>3. /\ file' \in Seq(Lines) /\ file' # <<>>
      /\ ~torn => file'[Len(file')] = l
      /\ torn => file'[Len(file')].text # "whole"
  BY <1>1, <1>2, ExtendedFile
<1>4. Len(file') \in 1 .. Len(file')
  BY <1>3
<1> QED
  BY <1>1, <1>3, <1>4 DEF FinalStands, AllWhole

-----------------------------------------------------------------------------
(* Every step keeps run.json backed                                           *)

LEMMA UndecidedStep ==
  ASSUME RecordInv, Undecided, [Next]_vars
  PROVE  Undecided'
<1>1. SUFFICES ASSUME pc'[Run] \in {"new", "creating", "running"}
               PROVE  /\ Clean'
                      /\ \A i \in DOMAIN emitted' : emitted'[i].note # "pending"
                      /\ \A a \in Approvers : pc'[a] # "chosen"
  BY DEF Undecided
<1>0. TraceInv /\ RestTyped /\ emitted \in Seq(Events)
  BY DEF RecordInv, VerdictInv, TraceInv, TraceTyped
<1>2. CASE CreateManifest \/ FillManifest
  <2>1. /\ pc[Run] \in {"new", "creating"} /\ UNCHANGED traceVars
        /\ \E label : Goto(Run, label)
    BY <1>2 DEF CreateManifest, FillManifest
  <2>2. \A q \in Processes : q # Run => pc'[q] = pc[q]
    BY <1>0, <2>1, MovesTo, ProcessesFacts
  <2> QED
    BY <2>1, <2>2, StaysClean, ProcessesFacts DEF Undecided, traceVars
<1>3. CASE Work
  <2>1. PICK note, g : /\ note \in {"work", "rejected"} /\ Emit(Run, note, g)
                       /\ Stamped(Run, note, g) \in Events
    BY <1>0, <1>3, RunStamps DEF Work, Decisions
  <2>2. pc[Run] = "running" /\ pc' = pc
    BY <1>3 DEF Work, Working
  <2>3. Clean'
    BY <1>0, <2>1, <2>2, WrittenClean, ProcessesFacts DEF Undecided
  <2>4. emitted' = Append(emitted, Stamped(Run, note, g)) /\ Stamped(Run, note, g).note = note
    BY <2>1 DEF Emit, Stamped
  <2>5. \A i \in DOMAIN emitted' : i = Len(emitted) + 1 \/ i \in DOMAIN emitted
    BY <1>0, <2>1, <2>4
  <2>6. /\ emitted'[Len(emitted) + 1].note = note
        /\ \A i \in DOMAIN emitted : emitted'[i] = emitted[i]
    BY <1>0, <2>1, <2>4
  <2>7. /\ \A i \in DOMAIN emitted : emitted[i].note # "pending"
        /\ \A a \in Approvers : pc[a] # "chosen"
    BY <2>2 DEF Undecided
  <2>8. note # "pending"
    BY <2>1
  <2>9. \A i \in DOMAIN emitted' : emitted'[i].note # "pending"
    BY <2>5, <2>6, <2>7, <2>8
  <2> QED
    BY <2>2, <2>3, <2>7, <2>9
<1>4. CASE Decide \/ FinishDecided \/ FinishEmptyHanded \/ Break \/ RunTorn
  <2>1. \E label \in {"decided", "recording", "dead"} : Goto(Run, label)
    BY <1>4 DEF Decide, FinishDecided, FinishEmptyHanded, Break, RunTorn, EmitTorn
  <2> QED
    BY <1>0, <1>1, <2>1, MovesTo, ProcessesFacts
<1>5. ASSUME NEW a \in Approvers, ApproverNext(a)
      PROVE  /\ Clean'
             /\ \A i \in DOMAIN emitted' : emitted'[i].note # "pending"
             /\ \A b \in Approvers : pc'[b] # "chosen"
  <2>1. \E label : Goto(a, label)
    BY <1>5 DEF ApproverNext, CheckManifest, Choose, Refuse, ReadRaises, Approve, ApproveTorn,
                EmitTorn
  <2>2. \A q \in Processes : q # a => pc'[q] = pc[q]
    BY <1>0, <2>1, MovesTo, ProcessesFacts
  <2>3. /\ Clean /\ \A i \in DOMAIN emitted : emitted[i].note # "pending"
        /\ \A b \in Approvers : pc[b] # "chosen"
    BY <1>1, <2>2, ProcessesFacts DEF Undecided
  <2>4. ~Choose(a)
    BY <1>0, <2>3, HeldWasWritten DEF Choose, JudgeWrote
  <2>5. ~Approve(a) /\ ~ApproveTorn(a)
    BY <2>3 DEF Approve, ApproveTorn
  <2>6. /\ UNCHANGED traceVars
        /\ \E label \in {"refused", "checked", "dead", "raised"} : Goto(a, label)
    BY <1>5, <2>4, <2>5 DEF ApproverNext, CheckManifest, Refuse, ReadRaises
  <2>7. pc'[a] # "chosen"
    BY <1>0, <2>6, MovesTo, ProcessesFacts
  <2> QED
    BY <2>2, <2>3, <2>6, <2>7, StaysClean, ProcessesFacts DEF traceVars
<1>6. ASSUME NEW p \in Processes, Record(p) \/ Die(p)
      PROVE  /\ Clean'
             /\ \A i \in DOMAIN emitted' : emitted'[i].note # "pending"
             /\ \A b \in Approvers : pc'[b] # "chosen"
  <2>1. /\ UNCHANGED traceVars
        /\ \E label \in {"loaded", "dead", "truncated", "done"} : Goto(p, label)
    BY <1>6 DEF Record, LoadManifest, TruncateManifest, WriteManifest, Die
  <2>2. /\ pc'[p] \in {"loaded", "dead", "truncated", "done"}
        /\ \A q \in Processes : q # p => pc'[q] = pc[q]
    BY <1>0, <2>1, MovesTo
  <2>3. pc[Run] \in {"new", "creating", "running"}
    BY <1>1, <2>2, ProcessesFacts
  <2> QED
    BY <2>1, <2>2, <2>3, StaysClean, ProcessesFacts DEF Undecided, traceVars
<1>7. CASE UNCHANGED vars
  BY <1>1, <1>7, StaysClean DEF Undecided, vars
<1> QED
  BY <1>2, <1>3, <1>4, <1>5, <1>6, <1>7 DEF Next, RunNext

\* A process that does not move, or moves to where nothing is asked of it.
LEMMA BackingKept ==
  ASSUME RecordInv, BackedInv, [Next]_vars, NEW p \in Processes,
         \/ (pc'[p] = pc[p] /\ answer'[p] = answer[p] /\ loaded'[p] = loaded[p])
         \/ pc'[p] \notin {"decided", "recording", "loaded", "truncated"}
  PROVE  BacksRecord(p)'
<1>1. CASE pc'[p] \notin {"decided", "recording", "loaded", "truncated"}
  BY <1>1 DEF BacksRecord
<1>2. CASE pc'[p] = pc[p] /\ answer'[p] = answer[p] /\ loaded'[p] = loaded[p]
  <2>1. /\ pc[p] \in {"decided", "recording"} => Backs(answer[p].outcome, answer[p].flag)
        /\ pc[p] \in {"loaded", "truncated"} => Backs(loaded[p].outcome, loaded[p].flag)
    BY DEF BackedInv, BacksRecord
  <2>2. /\ pc[p] \in {"decided", "recording"} => Backs(answer[p].outcome, answer[p].flag)'
        /\ pc[p] \in {"loaded", "truncated"} => Backs(loaded[p].outcome, loaded[p].flag)'
    BY <1>2, <2>1, BackingStays
  <2> QED
    BY <1>2, <2>2 DEF BacksRecord
<1> QED
  BY <1>1, <1>2

\* One process moves, and keeps its record backed; run.json is backed.
LEMMA OneBacked ==
  ASSUME RecordInv, BackedInv, [Next]_vars, NEW p \in Processes,
         \A q \in Processes : q # p => /\ pc'[q] = pc[q] /\ answer'[q] = answer[q]
                                       /\ loaded'[q] = loaded[q],
         BacksRecord(p)',
         manifest' = manifest \/ Backs(manifest.content.outcome, manifest.content.flag)'
  PROVE  BackedInv'
<1>1. Undecided'
  BY UndecidedStep DEF BackedInv
<1>2. \A q \in Processes : BacksRecord(q)'
  BY BackingKept
<1>3. Backs(manifest.content.outcome, manifest.content.flag)'
  <2>1. CASE manifest' = manifest
    <3>1. Backs(manifest.content.outcome, manifest.content.flag)
      BY DEF BackedInv
    <3> QED
      BY <2>1, <3>1, BackingStays
  <2> QED
    BY <2>1
<1> QED
  BY <1>1, <1>2, <1>3 DEF BackedInv

LEMMA BackedStep ==
  ASSUME RecordInv, BackedInv, [Next]_vars
  PROVE  BackedInv'
<1>0. TraceInv /\ RestTyped
  BY DEF RecordInv, VerdictInv
<1>1. CASE CreateManifest \/ FillManifest
  <2>1. /\ UNCHANGED <<answer, loaded>>
        /\ \E label \in {"creating", "running"} : Goto(Run, label)
        /\ manifest' \in {Broken("empty"), Whole(Blank)}
    BY <1>1 DEF CreateManifest, FillManifest
  <2>2. /\ pc'[Run] \in {"creating", "running"}
        /\ \A q \in Processes : q # Run => pc'[q] = pc[q]
    BY <1>0, <2>1, MovesTo, ProcessesFacts
  <2>3. manifest'.content.outcome = "none"
    BY <2>1 DEF Broken, Whole, Blank
  <2>4. Backs(manifest.content.outcome, manifest.content.flag)'
    BY <2>3 DEF Backs
  <2> QED
    BY <2>1, <2>2, <2>4, OneBacked, ProcessesFacts DEF BacksRecord
<1>2. CASE Work
  <2>1. UNCHANGED <<pc, manifest, answer, loaded>>
    BY <1>2 DEF Work, recordVars
  <2>2. BacksRecord(Run)'
    BY <2>1, BackingKept, ProcessesFacts
  <2> QED
    BY <2>1, <2>2, OneBacked, ProcessesFacts
<1>3. CASE Decide
  <2>1. PICK g \in Flags, d \in {"finalized", "pending"} :
            /\ pc[Run] = "running" /\ Emit(Run, d, g)
            /\ answer' = [answer EXCEPT ![Run] =
                   [outcome |-> IF d = "finalized" THEN "solved" ELSE "candidate",
                    flag |-> g]]
            /\ Goto(Run, "decided") /\ UNCHANGED <<manifest, loaded>>
    BY <1>3 DEF Decide, Working
  <2>2. pc'[Run] = "decided" /\ \A q \in Processes : q # Run => pc'[q] = pc[q]
    BY <1>0, <2>1, MovesTo, ProcessesFacts
  <2>3. /\ answer'[Run] = [outcome |-> IF d = "finalized" THEN "solved" ELSE "candidate",
                           flag |-> g]
        /\ \A q \in Processes : q # Run => answer'[q] = answer[q]
    BY <1>0, <2>1, ProcessesFacts DEF RestTyped
  <2>4. Stamped(Run, d, g) \in Events
    BY <1>0, RunStamps DEF Decisions
  <2>5. Clean
    BY <2>1 DEF BackedInv, Undecided
  <2>6. d = "pending" => PendingStands(g)'
    BY <1>0, <2>1, <2>4, <2>5, PendingIsWritten
  <2>7. d = "finalized" => FinalStands(g)'
    BY <1>0, <2>1, <2>4, FinalIsWritten, ProcessesFacts
  <2>8. Backs(answer[Run].outcome, answer[Run].flag)'
    <3>1. CASE d = "pending"
      BY <2>3, <2>6, <3>1 DEF Backs
    <3>2. CASE d = "finalized"
      BY <2>3, <2>7, <3>2 DEF Backs
    <3> QED
      BY <3>1, <3>2
  <2>9. BacksRecord(Run)'
    BY <2>2, <2>8 DEF BacksRecord
  <2> QED
    BY <2>1, <2>2, <2>3, <2>9, OneBacked, ProcessesFacts
<1>4. CASE FinishDecided
  <2>1. pc[Run] = "decided" /\ Goto(Run, "recording") /\ UNCHANGED <<manifest, answer, loaded>>
    BY <1>4 DEF FinishDecided, recordVars
  <2>2. pc'[Run] = "recording" /\ \A q \in Processes : q # Run => pc'[q] = pc[q]
    BY <1>0, <2>1, MovesTo, ProcessesFacts
  <2>3. Backs(answer[Run].outcome, answer[Run].flag)
    BY <2>1, ProcessesFacts DEF BackedInv, BacksRecord
  <2>4. Backs(answer[Run].outcome, answer[Run].flag)'
    BY <2>1, <2>3, BackingStays
  <2>5. BacksRecord(Run)'
    BY <2>2, <2>4 DEF BacksRecord
  <2> QED
    BY <2>1, <2>2, <2>5, OneBacked, ProcessesFacts
<1>5. CASE FinishEmptyHanded \/ Break
  <2>1. PICK o \in {"exhausted", "error"} :
            answer' = [answer EXCEPT ![Run] = [outcome |-> o, flag |-> NoFlag]]
    BY <1>5 DEF FinishEmptyHanded, Break
  <2>2. Goto(Run, "recording") /\ UNCHANGED <<manifest, loaded>>
    BY <1>5 DEF FinishEmptyHanded, Break
  <2>3. /\ answer'[Run] = [outcome |-> o, flag |-> NoFlag] /\ pc'[Run] = "recording"
        /\ \A q \in Processes : q # Run => pc'[q] = pc[q] /\ answer'[q] = answer[q]
    BY <1>0, <2>1, <2>2, MovesTo, ProcessesFacts DEF RestTyped
  <2>4. BacksRecord(Run)'
    BY <2>3 DEF BacksRecord, Backs
  <2> QED
    BY <2>2, <2>3, <2>4, OneBacked, ProcessesFacts
<1>6. CASE RunTorn
  <2>1. Goto(Run, "dead") /\ UNCHANGED <<manifest, answer, loaded>>
    BY <1>6 DEF RunTorn, EmitTorn, recordVars
  <2>2. pc'[Run] = "dead" /\ \A q \in Processes : q # Run => pc'[q] = pc[q]
    BY <1>0, <2>1, MovesTo, ProcessesFacts
  <2> QED
    BY <2>1, <2>2, OneBacked, BackingKept, ProcessesFacts
<1>7. ASSUME NEW a \in Approvers,
             CheckManifest(a) \/ Choose(a) \/ Refuse(a) \/ ReadRaises(a) \/ ApproveTorn(a)
      PROVE  BackedInv'
  <2>0. a \in Processes
    BY ProcessesFacts
  <2>1. /\ \E label \in {"checked", "chosen", "refused", "raised", "dead"} : Goto(a, label)
        /\ UNCHANGED <<manifest, loaded>>
    BY <1>7 DEF CheckManifest, Choose, Refuse, ReadRaises, ApproveTorn, EmitTorn, recordVars
  <2>2. \A q \in Processes : q # a => answer'[q] = answer[q]
    BY <1>0, <1>7 DEF CheckManifest, Choose, Refuse, ReadRaises, ApproveTorn, EmitTorn,
                      recordVars, RestTyped
  <2>3. /\ pc'[a] \in {"checked", "chosen", "refused", "raised", "dead"}
        /\ \A q \in Processes : q # a => pc'[q] = pc[q]
    BY <1>0, <2>0, <2>1, MovesTo
  <2>4. BacksRecord(a)'
    BY <2>3 DEF BacksRecord
  <2> QED
    BY <2>0, <2>1, <2>2, <2>3, <2>4, OneBacked
<1>8. ASSUME NEW a \in Approvers, Approve(a)
      PROVE  BackedInv'
  <2>0. a \in Processes
    BY ProcessesFacts
  <2>1. /\ pc[a] = "chosen" /\ Emit(a, "finalized", answer[a].flag)
        /\ Goto(a, "recording") /\ UNCHANGED <<manifest, answer, loaded>>
    BY <1>8 DEF Approve, recordVars
  <2>2. pc'[a] = "recording" /\ \A q \in Processes : q # a => pc'[q] = pc[q]
    BY <1>0, <2>0, <2>1, MovesTo
  <2>3. Stamped(a, "finalized", answer[a].flag) \in Events
    BY <1>0, <2>1, ChosenFlag, ApprovalStamps
  <2>4. FinalStands(answer[a].flag)'
    <3>1. PICK g : g = answer[a].flag
      OBVIOUS
    <3>2. FinalStands(g)'
      BY <1>0, <2>0, <2>1, <2>3, <3>1, FinalIsWritten
    <3> QED
      BY <2>1, <3>1, <3>2
  <2>5. answer[a].outcome = "solved"
    BY <2>1 DEF RecordInv, VerdictInv, Choosing
  <2>6. Backs(answer[a].outcome, answer[a].flag)'
    BY <2>1, <2>4, <2>5 DEF Backs
  <2>7. BacksRecord(a)'
    BY <2>2, <2>6 DEF BacksRecord
  <2> QED
    BY <2>0, <2>1, <2>2, <2>7, OneBacked
<1>9. ASSUME NEW p \in Processes, LoadManifest(p)
      PROVE  BackedInv'
  <2>1. CASE manifest.state = "whole"
    <3>1. /\ pc[p] = "recording" /\ Goto(p, "loaded")
          /\ loaded' = [loaded EXCEPT ![p] = Updated(p, manifest.content)]
          /\ UNCHANGED <<manifest, answer>>
      BY <1>9, <2>1 DEF LoadManifest
    <3>2. /\ pc'[p] = "loaded" /\ loaded'[p] = Updated(p, manifest.content)
          /\ \A q \in Processes : q # p => pc'[q] = pc[q] /\ loaded'[q] = loaded[q]
      BY <1>0, <3>1, MovesTo DEF RestTyped
    <3>3. Backs(answer[p].outcome, answer[p].flag)
      BY <3>1 DEF BackedInv, BacksRecord
    <3>4. Backs(answer[p].outcome, answer[p].flag)'
      BY <3>1, <3>3, BackingStays
    <3>5. loaded'[p].outcome = answer[p].outcome /\ loaded'[p].flag = answer[p].flag
      BY <3>2 DEF Updated
    <3>6. BacksRecord(p)'
      BY <3>1, <3>2, <3>4, <3>5 DEF BacksRecord
    <3> QED
      BY <3>1, <3>2, <3>6, OneBacked
  <2>2. CASE manifest.state # "whole"
    <3>1. Goto(p, "dead") /\ UNCHANGED <<manifest, answer, loaded>>
      BY <1>9, <2>2 DEF LoadManifest
    <3>2. pc'[p] = "dead" /\ \A q \in Processes : q # p => pc'[q] = pc[q]
      BY <1>0, <3>1, MovesTo
    <3> QED
      BY <3>1, <3>2, OneBacked, BackingKept
  <2> QED
    BY <2>1, <2>2
<1>10. ASSUME NEW p \in Processes, TruncateManifest(p) \/ WriteManifest(p)
       PROVE  BackedInv'
  <2>1. /\ pc[p] \in {"loaded", "truncated"} /\ UNCHANGED <<answer, loaded>>
        /\ \E label \in {"truncated", "done"} : Goto(p, label)
    BY <1>10 DEF TruncateManifest, WriteManifest
  <2>2. /\ pc'[p] \in {"truncated", "done"}
        /\ \A q \in Processes : q # p => pc'[q] = pc[q]
    BY <1>0, <2>1, MovesTo
  <2>3. Backs(loaded[p].outcome, loaded[p].flag)
    BY <2>1 DEF BackedInv, BacksRecord
  <2>4. Backs(loaded[p].outcome, loaded[p].flag)'
    BY <2>1, <2>3, BackingStays
  <2>5. BacksRecord(p)'
    BY <2>2, <2>4 DEF BacksRecord
  <2>6. manifest' \in {Broken("empty"), Broken("garbled"), Whole(loaded[p])}
    BY <1>10 DEF TruncateManifest, WriteManifest
  <2>7. \/ manifest'.content.outcome = "none"
        \/ manifest'.content = loaded[p]
    BY <2>6 DEF Broken, Whole, Blank
  <2>8. Backs(manifest.content.outcome, manifest.content.flag)'
    BY <2>1, <2>4, <2>7 DEF Backs
  <2> QED
    BY <2>1, <2>2, <2>5, <2>8, OneBacked
<1>11. ASSUME NEW p \in Processes, Die(p)
       PROVE  BackedInv'
  <2>1. Goto(p, "dead") /\ UNCHANGED <<manifest, answer, loaded>>
    BY <1>11 DEF Die, recordVars
  <2>2. pc'[p] = "dead" /\ \A q \in Processes : q # p => pc'[q] = pc[q]
    BY <1>0, <2>1, MovesTo
  <2> QED
    BY <2>1, <2>2, OneBacked, BackingKept
<1>12. CASE UNCHANGED vars
  <2>1. UNCHANGED <<pc, manifest, answer, loaded>>
    BY <1>12 DEF vars
  <2> QED
    BY <2>1, OneBacked, BackingKept, ProcessesFacts
<1> QED
  BY <1>1, <1>2, <1>3, <1>4, <1>5, <1>6, <1>7, <1>8, <1>9, <1>10, <1>11, <1>12
     DEF Next, RunNext, ApproverNext, Record

LEMMA BackedInit == Init => BackedInv
<1> SUFFICES ASSUME Init PROVE BackedInv
  OBVIOUS
<1>1. /\ file = <<>> /\ ~torn /\ emitted = <<>> /\ manifest.content.outcome = "none"
      /\ \A p \in Processes : pc[p] \in {"new", "idle"}
  BY DEF Init, Broken, Blank
<1>2. Clean
  BY <1>1 DEF Clean
<1>3. Undecided
  BY <1>1, <1>2, ProcessesFacts DEF Undecided
<1>4. \A p \in Processes : BacksRecord(p)
  BY <1>1 DEF BacksRecord
<1> QED
  BY <1>1, <1>3, <1>4 DEF BackedInv, Backs

-----------------------------------------------------------------------------
(* The index                                                                  *)

\* The counts of a row that is read after its outcome back it.
LEMMA CountedRow ==
  ASSUME TraceInv, NEW row, Backs(row.outcome, row.flag)
  PROVE  RowBacked(Row(row, file))
<1> DEFINE r == Row(row, file)
<1>1. /\ r.outcome = row.outcome /\ r.flag = row.flag
      /\ r.read = {<<file[i].event.note, file[i].event.flag>> :
                     i \in {k \in Readable(file) : file[k].event.note \in Decisions}}
      /\ r.cut = (Readable(file) # DOMAIN file)
  BY DEF Row
<1>2. file \in Seq(Lines) /\ DOMAIN file = 1 .. Len(file)
  BY DEF TraceInv, TraceTyped
<1> HIDE DEF r
<1>3. ASSUME NEW i \in Readable(file), file[i].event.note \in Decisions
      PROVE  <<file[i].event.note, file[i].event.flag>> \in r.read
  BY <1>1, <1>3
<1>4. ASSUME row.outcome = "candidate"
      PROVE  <<"pending", row.flag>> \in r.read
  <2>1. PICK i \in Readable(file) :
            file[i].event.note = "pending" /\ file[i].event.flag = row.flag
    BY <1>4 DEF Backs, PendingStands
  <2>2. file[i].event.note \in Decisions
    BY <2>1 DEF Decisions
  <2> QED
    BY <1>3, <2>1, <2>2
<1>5. ASSUME row.outcome = "solved"
      PROVE  r.cut \/ <<"finalized", row.flag>> \in r.read
  <2>1. CASE AllWhole(file)
    <3>1. PICK i \in 1 .. Len(file) :
              file[i].event.note = "finalized" /\ file[i].event.flag = row.flag
      BY <1>5, <2>1 DEF Backs, FinalStands
    <3>2. i \in Readable(file)
      BY <1>2, <2>1, AllReadable
    <3>3. file[i].event.note \in Decisions
      BY <3>1 DEF Decisions
    <3> QED
      BY <1>3, <3>1, <3>2, <3>3
  <2>2. CASE ~AllWhole(file)
    <3>1. PICK i \in 1 .. Len(file) : file[i].text # "whole"
      BY <2>2 DEF AllWhole
    <3>2. i \notin Readable(file)
      BY <1>2, <3>1, ReadableLines
    <3> QED
      BY <1>1, <1>2, <3>1, <3>2
  <2> QED
    BY <2>1, <2>2
<1> QED
  BY <1>1, <1>4, <1>5 DEF RowBacked, r

LEMMA RebuildStep ==
  ASSUME RecordInv, BackedInv, RebuildInv, [ViewNext]_<<vars, viewVars>>
  PROVE  RebuildInv'
<1>0. TraceInv
  BY DEF RecordInv
<1>1. CASE Next /\ UNCHANGED viewVars
  <2>1. UNCHANGED <<index, rebuild>>
    BY <1>1 DEF viewVars
  <2>2. ASSUME rebuild.pc = "trace"
        PROVE  Backs(rebuild.row.outcome, rebuild.row.flag)'
    BY <1>1, <2>1, <2>2, BackingStays DEF RebuildInv
  <2> QED
    BY <2>1, <2>2 DEF RebuildInv, RowsBacked, RowBacked
<1>2. CASE StartRebuild
  BY <1>2 DEF StartRebuild, At, RebuildInv, RowsBacked
<1>3. CASE ReadManifest
  <2>1. CASE manifest.state = "whole"
    <3>1. /\ rebuild'.pc = "trace" /\ rebuild'.row = Row(manifest.content, <<>>)
          /\ UNCHANGED vars /\ index' = index
      BY <1>3, <2>1 DEF ReadManifest, At
    <3>2. /\ rebuild'.row.outcome = manifest.content.outcome
          /\ rebuild'.row.flag = manifest.content.flag
      BY <3>1 DEF Row
    <3>3. UNCHANGED <<file, torn>>
      BY <3>1 DEF vars
    <3>4. Backs(rebuild.row.outcome, rebuild.row.flag)'
      BY <3>2, <3>3 DEF BackedInv, Backs, PendingStands, FinalStands
    <3> QED
      BY <3>1, <3>4 DEF RebuildInv, RowsBacked
  <2>2. CASE manifest.state # "whole"
    BY <1>3, <2>2 DEF ReadManifest, At, RebuildInv, RowsBacked
  <2> QED
    BY <2>1, <2>2
<1>4. CASE CountEvents
  <2>1. /\ rebuild.pc = "trace" /\ index' = index
        /\ rebuild'.pc = "commit" /\ rebuild'.row = Row(rebuild.row, file)
    BY <1>4 DEF CountEvents, At
  <2>2. RowBacked(Row(rebuild.row, file))
    BY <1>0, <2>1, CountedRow DEF RebuildInv
  <2>3. RowBacked(rebuild.row)'
    BY <2>1, <2>2 DEF RowBacked
  <2> QED
    BY <2>1, <2>3 DEF RebuildInv, RowsBacked
<1>5. CASE Commit
  BY <1>5 DEF Commit, At, RebuildInv, RowsBacked, RowBacked
<1>6. CASE RebuildFails
  BY <1>6 DEF RebuildFails, At, RebuildInv, RowsBacked
<1>7. CASE Watch \/ UNCHANGED <<vars, viewVars>>
  <2>1. UNCHANGED <<file, torn, index, rebuild>>
    BY <1>7 DEF Watch, ShowEvent, SelectOther, ListOther, SelectRun, ApprovalEnds, vars, viewVars
  <2> QED
    BY <2>1 DEF RebuildInv, RowsBacked, RowBacked, Backs, PendingStands, FinalStands
<1> QED
  BY <1>1, <1>2, <1>3, <1>4, <1>5, <1>6, <1>7 DEF ViewNext, Rebuild

-----------------------------------------------------------------------------
(* The list of the UI                                                         *)

\* The approvals are where they begin only if they were before.
LEMMA IdleBefore ==
  ASSUME RestTyped, [Next]_vars, \A a \in Approvers : pc'[a] = "idle"
  PROVE  \A a \in Approvers : pc[a] = "idle"
<1>1. \/ pc' = pc
      \/ \E p \in Processes, label \in Labels \ {"idle"} : Goto(p, label)
  BY ProcessesFacts
     DEF Next, RunNext, ApproverNext, Record, CreateManifest, FillManifest, Work, Decide,
         FinishDecided, FinishEmptyHanded, Break, RunTorn, EmitTorn, CheckManifest, Choose,
         Refuse, ReadRaises, Approve, ApproveTorn, LoadManifest, TruncateManifest,
         WriteManifest, Die, vars, Labels
<1> QED
  BY <1>1, MovesTo, ProcessesFacts

\* A step of the run that leaves the approvals where they begin.
RunWrites == \E note, g : Stamped(Run, note, g) \in Events /\ Emit(Run, note, g)

\* While no approval has begun, a step writes nothing, or an event of the run, or
\* tears its last line.
LEMMA StepOfRun ==
  ASSUME RecordInv, [Next]_vars, \A a \in Approvers : pc'[a] = "idle"
  PROVE  \/ UNCHANGED traceVars
         \/ RunWrites /\ pc[Run] \in {"running", "decided"}
         \/ torn' /\ pc'[Run] = "dead"
<1>0. TraceInv /\ RestTyped
  BY DEF RecordInv, VerdictInv
<1>1. CASE Work \/ Decide \/ FinishDecided \/ FinishEmptyHanded
  BY <1>0, <1>1, RunStamps
     DEF Work, Working, Decide, FinishDecided, FinishEmptyHanded, RunWrites, Decisions
<1>2. CASE RunTorn
  BY <1>0, <1>2, MovesTo, ProcessesFacts DEF RunTorn, EmitTorn
<1>3. CASE CreateManifest \/ FillManifest \/ Break \/ UNCHANGED vars
  BY <1>3 DEF CreateManifest, FillManifest, Break, vars, traceVars
<1>4. ASSUME NEW a \in Approvers, ApproverNext(a)  PROVE FALSE
  <2>1. \E label \in {"checked", "chosen", "refused", "raised", "recording", "dead"} :
            Goto(a, label)
    BY <1>4 DEF ApproverNext, CheckManifest, Choose, Refuse, ReadRaises, Approve, ApproveTorn,
                EmitTorn
  <2> QED
    BY <1>0, <2>1, MovesTo, ProcessesFacts
<1>5. ASSUME NEW p \in Processes, Record(p) \/ Die(p)
      PROVE  UNCHANGED traceVars
  BY <1>5 DEF Record, LoadManifest, TruncateManifest, WriteManifest, Die
<1> QED
  BY <1>1, <1>2, <1>3, <1>4, <1>5 DEF Next, RunNext

LEMMA InTurnStep ==
  ASSUME RecordInv, InTurn, [Next]_vars
  PROVE  InTurn'
<1>0. TraceInv /\ RestTyped /\ emitted \in Seq(Events) /\ writerSeq \in [Processes -> Nat]
  BY DEF RecordInv, VerdictInv, TraceInv, TraceTyped
<1>1. SUFFICES ASSUME \A a \in Approvers : pc'[a] = "idle"
               PROVE  InTurn'
  BY DEF InTurn, RunOnly
<1>2. \A a \in Approvers : pc[a] = "idle"
  BY <1>0, <1>1, IdleBefore
<1>3. CASE UNCHANGED traceVars
  <2>1. torn => pc'[Run] = "dead"
    <3>1. torn => pc[Run] = "dead"
      BY <1>2 DEF InTurn
    <3>2. pc[Run] = "dead" => pc'[Run] = "dead"
      <4>1. ASSUME NEW p \in Processes, Record(p) \/ Die(p), pc[Run] = "dead"
            PROVE  pc'[Run] = "dead"
        <5>1. p # Run /\ \E label : Goto(p, label)
          BY <4>1 DEF Record, LoadManifest, TruncateManifest, WriteManifest, Die, AtRest
        <5> QED
          BY <1>0, <4>1, <5>1, MovesTo, ProcessesFacts
      <4>2. ASSUME NEW a \in Approvers, ApproverNext(a), pc[Run] = "dead"
            PROVE  pc'[Run] = "dead"
        <5>1. \E label : Goto(a, label)
          BY <4>2 DEF ApproverNext, CheckManifest, Choose, Refuse, ReadRaises, Approve,
                      ApproveTorn, EmitTorn
        <5> QED
          BY <1>0, <4>2, <5>1, MovesTo, ProcessesFacts
      <4>3. CASE UNCHANGED vars
        BY <4>3 DEF vars
      <4>4. RunNext => pc[Run] # "dead"
        BY DEF RunNext, CreateManifest, FillManifest, Work, Working, Decide, FinishDecided,
               FinishEmptyHanded, Break, RunTorn
      <4> QED
        BY <4>1, <4>2, <4>3, <4>4 DEF Next
    <3> QED
      BY <3>1, <3>2
  <2> QED
    BY <1>2, <1>3, <2>1 DEF InTurn, RunOnly, traceVars
<1>4. CASE RunWrites /\ pc[Run] \in {"running", "decided"}
  <2>1. PICK note, g : Stamped(Run, note, g) \in Events /\ Emit(Run, note, g)
    BY <1>4 DEF RunWrites
  <2> DEFINE e == Stamped(Run, note, g)
  <2>2. ~torn
    BY <1>2, <1>4 DEF InTurn
  <2>3. /\ AllWhole(file) /\ Len(emitted) = writerSeq[Run]
        /\ \A i \in 1 .. Len(emitted) : emitted[i].by = Run /\ emitted[i].seq = i
    BY <1>2, <2>2 DEF InTurn, RunOnly
  <2>4. Clean
    BY <1>0, <2>2, <2>3 DEF Clean, AllWhole, TraceInv, TraceTyped
  <2>5. /\ file \in Seq(Lines) /\ file' \in Seq(Lines)
        /\ Continued(file, e, file')
    BY <1>0, <2>1, <2>4, WrittenClean, ProcessesFacts
  <2>6. AllWhole(file')
    BY <2>1, <2>3, <2>5, ContinuedWhole
  <2>7. emitted' = Append(emitted, e) /\ writerSeq' = [writerSeq EXCEPT ![Run] = @ + 1]
        /\ torn' = FALSE
    BY <2>1 DEF Emit
  <2>8. e.by = Run /\ e.seq = Len(emitted) + 1
    BY <2>3 DEF Stamped
  <2> HIDE DEF e
  <2>9. /\ Len(emitted') = Len(emitted) + 1 /\ emitted'[Len(emitted) + 1] = e
        /\ \A i \in 1 .. Len(emitted) : emitted'[i] = emitted[i]
    BY <1>0, <2>1, <2>7 DEF e
  <2>10. writerSeq'[Run] = Len(emitted')
    BY <1>0, <2>3, <2>7, <2>9, ProcessesFacts
  <2>11. \A i \in 1 .. Len(emitted') : emitted'[i].by = Run /\ emitted'[i].seq = i
    BY <1>0, <2>3, <2>8, <2>9
  <2> QED
    BY <2>6, <2>7, <2>10, <2>11 DEF InTurn, RunOnly
<1>5. CASE torn' /\ pc'[Run] = "dead"
  BY <1>5 DEF InTurn, RunOnly
<1> QED
  BY <1>1, <1>3, <1>4, <1>5, StepOfRun

\* What each step does to the view.
ShowsEvent(e) ==
    /\ e.seq = view.shown + 1 /\ view'.shown = e.seq /\ view'.state = view.state
    /\ IF view.state = "selected" /\ e.note \in Decisions
       THEN view'.list = Held(file) /\ view'.of = "run"
       ELSE \/ view'.list = view.list /\ view'.of = view.of
            \/ view'.list = Held(file) /\ view'.of = "run"
KeepsList ==
    /\ view'.shown = view.shown /\ view'.list = view.list /\ view'.of = view.of
    /\ view'.state = "selected" => view.state = "selected"
ListsOther == view'.shown = view.shown /\ view'.of = "other"
ListsRun == view'.shown = view.shown /\ view'.of = "run" /\ view'.list = Held(file)

LEMMA ViewSteps ==
  ASSUME TraceInv, ViewTyped, [ViewNext]_<<vars, viewVars>>
  PROVE  /\ ViewTyped'
         /\ \/ view' = view
            \/ /\ UNCHANGED vars
               /\ (\E e \in Printed : ShowsEvent(e)) \/ KeepsList \/ ListsOther \/ ListsRun
<1>1. \A e \in Printed : e.seq \in Nat
  BY DEF Printed, TraceInv, TraceTyped, Events
<1>2. Held(file) \in SUBSET Flags
  BY HeldAreFlags
<1>3. CASE ShowEvent
  <2>1. PICK e \in Printed :
          /\ e.seq = view.shown + 1
          /\ \/ /\ view.state = "selected" /\ e.note \in RefreshedBy \cup {"work"}
                /\ RefreshFlagList(Shown(e.seq), [view EXCEPT !.deaf = TRUE])
             \/ /\ view.state # "selected" \/ e.note \notin RefreshedBy
                /\ view' = Shown(e.seq)
    BY <1>3 DEF ShowEvent
  <2>2. UNCHANGED vars
    BY <1>3 DEF ShowEvent
  <2>3. \/ view' = Listing(Shown(e.seq))
        \/ view' = [view EXCEPT !.deaf = TRUE]
        \/ view' = Shown(e.seq) /\ (view.state # "selected" \/ e.note \notin Decisions)
    BY <2>1 DEF RefreshedBy, RefreshFlagList
  <2>4. CASE view' = Listing(Shown(e.seq))
    <3>1. ViewTyped' /\ ShowsEvent(e)
      BY <1>1, <1>2, <2>1, <2>4 DEF ViewTyped, View, Listing, Shown, ShowsEvent
    <3> QED
      BY <2>2, <3>1
  <2>5. CASE view' = [view EXCEPT !.deaf = TRUE]
    <3>1. ViewTyped' /\ KeepsList
      BY <2>5 DEF ViewTyped, View, KeepsList
    <3> QED
      BY <2>2, <3>1
  <2>6. CASE view' = Shown(e.seq) /\ (view.state # "selected" \/ e.note \notin Decisions)
    <3>1. ViewTyped' /\ ShowsEvent(e)
      BY <1>1, <2>1, <2>6 DEF ViewTyped, View, Shown, ShowsEvent
    <3> QED
      BY <2>2, <3>1
  <2> QED
    BY <2>3, <2>4, <2>5, <2>6
<1>4. CASE SelectOther
  <2>1. UNCHANGED vars /\ view.state = "selected"
        /\ \/ view' = [view EXCEPT !.state = "other"]
           \/ \E flags \in OtherLists :
                  view' = [view EXCEPT !.state = "other", !.of = "other", !.list = flags]
    BY <1>4 DEF SelectOther
  <2>2. CASE view' = [view EXCEPT !.state = "other"]
    <3>1. ViewTyped' /\ KeepsList
      BY ONLY <2>2, ViewTyped DEF ViewTyped, View, KeepsList
    <3> QED
      BY <2>1, <3>1
  <2>3. ASSUME NEW flags \in OtherLists,
               view' = [view EXCEPT !.state = "other", !.of = "other", !.list = flags]
        PROVE  ViewTyped' /\ ListsOther
    <3>1. flags \in SUBSET Flags
      BY DEF OtherLists
    <3> QED
      BY ONLY <2>3, <3>1, ViewTyped DEF ViewTyped, View, ListsOther
  <2> QED
    BY <2>1, <2>2, <2>3
<1>5. CASE ListOther
  <2>1. UNCHANGED vars
        /\ \E flags \in OtherLists : view' = [view EXCEPT !.of = "other", !.list = flags]
    BY <1>5 DEF ListOther
  <2>2. ViewTyped' /\ ListsOther
    BY <2>1 DEF ViewTyped, View, OtherLists, ListsOther
  <2> QED
    BY <2>1, <2>2
<1>6. CASE SelectRun \/ ApprovalEnds
  <2>1. /\ UNCHANGED vars
        /\ \/ view' = Listing([view EXCEPT !.state = "selected"])
           \/ view' = Listing(view)
           \/ view' = Exited
    BY <1>6 DEF SelectRun, ApprovalEnds, RefreshFlagList
  <2>2. ViewTyped' /\ (KeepsList \/ ListsRun)
    BY <1>2, <2>1 DEF ViewTyped, View, Listing, Exited, KeepsList, ListsRun
  <2> QED
    BY <2>1, <2>2
<1>7. CASE (Next /\ UNCHANGED viewVars) \/ Rebuild \/ UNCHANGED <<vars, viewVars>>
  BY <1>7 DEF Rebuild, StartRebuild, ReadManifest, CountEvents, Commit, RebuildFails, viewVars,
              ViewTyped
<1> QED
  BY <1>3, <1>4, <1>5, <1>6, <1>7 DEF ViewNext, Watch

\* A flag that is listed was held: the trace grows.
LEMMA ListedStep ==
  ASSUME RecordInv, ViewTyped, ListedWasHeld, [ViewNext]_<<vars, viewVars>>
  PROVE  ListedWasHeld'
<1>0. TraceInv /\ Grows
  <2>1. [Next]_vars
    BY DEF ViewNext, Rebuild, StartRebuild, ReadManifest, CountEvents, Commit, RebuildFails,
           Watch, ShowEvent, SelectOther, ListOther, SelectRun, ApprovalEnds
  <2> QED
    BY <2>1, TraceStep DEF RecordInv
<1>1. \/ view'.of = "other"
      \/ view'.list = view.list /\ view'.of = view.of
      \/ view'.list = Held(file)
  BY <1>0, ViewSteps DEF ShowsEvent, KeepsList, ListsOther, ListsRun
<1>2. view'.of = "run" => \A g \in view'.list : JudgeWrote(emitted, "pending", g)
  BY <1>0, <1>1, HeldWasWritten DEF ListedWasHeld
<1> QED
  BY <1>0, <1>2, WrittenStays DEF ListedWasHeld

\* The events that may have come, while the run alone has written.
LEMMA PrintedInTurn ==
  ASSUME TraceInv, InTurn, RunOnly
  PROVE  /\ \A e \in Printed : e.seq \in 1 .. Len(emitted) /\ emitted[e.seq] = e
         /\ \A i \in 1 .. Len(emitted) : emitted[i] \in Printed
<1>1. /\ emitted \in Seq(Events) /\ Len(emitted) \in Nat
      /\ DOMAIN emitted = 1 .. Len(emitted)
  BY DEF TraceInv, TraceTyped
<1>2. /\ Len(emitted) = writerSeq[Run]
      /\ \A i \in 1 .. Len(emitted) : emitted[i].by = Run /\ emitted[i].seq = i
  BY DEF InTurn
<1>3. ASSUME NEW e \in Printed
      PROVE  e.seq \in 1 .. Len(emitted) /\ emitted[e.seq] = e
  <2>1. PICK i \in DOMAIN emitted : e = emitted[i]
    BY DEF Printed
  <2> QED
    BY <1>1, <1>2, <2>1
<1>4. ASSUME NEW i \in 1 .. Len(emitted)
      PROVE  emitted[i] \in Printed
  <2>1. emitted[i].by = Run /\ emitted[i].seq <= writerSeq[Run]
    BY <1>1, <1>2
  <2> QED
    BY <1>1, <2>1 DEF Printed
<1> QED
  BY <1>3, <1>4

\* The run writes: a decision is still to come, anything else changes nothing.
LEMMA ListAfterEvent ==
  ASSUME TraceInv, Clean, RunWrites,
         NEW list, NEW shown \in Nat, shown <= Len(emitted),
         \/ list = Held(file)
         \/ \E i \in 1 .. Len(emitted) : i > shown /\ emitted[i].note \in Decisions
  PROVE  \/ list = Held(file')
         \/ \E i \in 1 .. Len(emitted') : i > shown /\ emitted'[i].note \in Decisions
<1>1. PICK note, g : Stamped(Run, note, g) \in Events /\ Emit(Run, note, g)
  BY DEF RunWrites
<1> DEFINE e == Stamped(Run, note, g)
<1>2. /\ file \in Seq(Lines) /\ file' \in Seq(Lines) /\ AllWhole(file)
      /\ Continued(file, e, file')
  BY <1>1, WrittenClean, ProcessesFacts
<1>3. emitted' = Append(emitted, e) /\ e \in Events
  BY <1>1 DEF Emit
<1> HIDE DEF e
<1>4. /\ Len(emitted) \in Nat /\ Len(emitted') = Len(emitted) + 1
      /\ emitted'[Len(emitted) + 1] = e
      /\ \A i \in 1 .. Len(emitted) : emitted'[i] = emitted[i]
  BY <1>3 DEF TraceInv, TraceTyped
<1>5. CASE e.note \in Decisions
  <2>1. Len(emitted) + 1 \in 1 .. Len(emitted') /\ Len(emitted) + 1 > shown
    BY <1>4
  <2> QED
    BY <1>4, <1>5, <2>1
<1>6. CASE \E i \in 1 .. Len(emitted) : i > shown /\ emitted[i].note \in Decisions
  BY <1>4, <1>6
<1>7. CASE e.note \notin Decisions /\ list = Held(file)
  <2>1. \A f \in Flags : f \in Held(file') <=> f \in Held(file)
    <3>1. \A f \in Flags : ~DecisionOn(e, f)
      BY <1>7 DEF DecisionOn
    <3>2. ASSUME NEW f \in Flags  PROVE f \in Held(file') <=> f \in Held(file)
      <4>1. e \in Events /\ ~DecisionOn(e, f)
        BY <1>3, <3>1
      <4> QED
        BY <1>2, <4>1, HeldAfter
    <3> QED
      BY <3>2
  <2>2. Held(file) \subseteq Flags /\ Held(file') \subseteq Flags
    BY HeldAreFlags
  <2>3. Held(file') = Held(file)
    BY <2>1, <2>2
  <2> QED
    BY <1>7, <2>3
<1> QED
  BY <1>5, <1>6, <1>7

\* What was shown has come.
ShownCame == RunOnly => view.shown <= Len(emitted)

UIInv == ViewInv /\ ShownCame

LEMMA RefreshedStep ==
  ASSUME RecordInv, UIInv, [ViewNext]_<<vars, viewVars>>
  PROVE  Refreshed' /\ ShownCame'
<1>0. TraceInv /\ RestTyped /\ InTurn /\ ViewTyped /\ Refreshed /\ ShownCame
  BY DEF RecordInv, VerdictInv, UIInv, ViewInv
<1>1. SUFFICES ASSUME RunOnly'
               PROVE  /\ view'.shown <= Len(emitted')
                      /\ view'.state = "selected" /\ view'.of = "run" =>
                           \/ view'.list = Held(file')
                           \/ \E i \in 1 .. Len(emitted') :
                                  i > view'.shown /\ emitted'[i].note \in Decisions
  BY DEF Refreshed, ShownCame
<1>2. view.shown \in Nat /\ Len(emitted) \in Nat
  BY <1>0 DEF ViewTyped, View, TraceInv, TraceTyped
<1>3. CASE UNCHANGED vars
  <2>1. UNCHANGED <<file, torn, emitted, pc>>
    BY <1>3 DEF vars
  <2>2. RunOnly
    BY <1>1, <2>1 DEF RunOnly
  <2>3. /\ view.shown <= Len(emitted)
        /\ view.state = "selected" /\ view.of = "run" =>
             \/ view.list = Held(file)
             \/ \E i \in 1 .. Len(emitted) :
                    i > view.shown /\ emitted[i].note \in Decisions
    BY <1>0, <2>2 DEF Refreshed, ShownCame
  <2>4. CASE view' = view
    BY <2>1, <2>3, <2>4
  <2>5. CASE KeepsList \/ ListsOther
    BY <2>1, <2>3, <2>5 DEF KeepsList, ListsOther
  <2>6. CASE ListsRun
    BY <2>1, <2>3, <2>6 DEF ListsRun
  <2>7. ASSUME NEW e \in Printed, ShowsEvent(e)
        PROVE  /\ view'.shown <= Len(emitted)
               /\ view'.state = "selected" /\ view'.of = "run" =>
                    \/ view'.list = Held(file)
                    \/ \E i \in 1 .. Len(emitted) :
                           i > view'.shown /\ emitted[i].note \in Decisions
    <3>1. e.seq \in 1 .. Len(emitted) /\ emitted[e.seq] = e
      BY <1>0, <2>2, PrintedInTurn
    <3>2. view'.shown = view.shown + 1 /\ view'.shown <= Len(emitted)
      BY <1>2, <2>7, <3>1 DEF ShowsEvent
    <3>3. CASE view.state = "selected" /\ e.note \in Decisions
      BY <2>7, <3>2, <3>3 DEF ShowsEvent
    <3>4. CASE view.state = "selected" /\ e.note \notin Decisions
      <4>1. \/ view'.list = view.list /\ view'.of = view.of
            \/ view'.list = Held(file)
        BY <2>7, <3>4 DEF ShowsEvent
      <4>2. \A i \in 1 .. Len(emitted) :
                i > view.shown /\ emitted[i].note \in Decisions => i > view'.shown
        BY <1>2, <2>7, <3>1, <3>2, <3>4 DEF ShowsEvent
      <4> QED
        BY <2>3, <3>2, <3>4, <4>1, <4>2
    <3>5. CASE view.state # "selected"
      BY <2>7, <3>2, <3>5 DEF ShowsEvent
    <3> QED
      BY <3>3, <3>4, <3>5
  <2> QED
    BY <1>0, <2>1, <2>4, <2>5, <2>6, <2>7, ViewSteps
<1>4. CASE Next /\ UNCHANGED viewVars
  <2>1. view' = view /\ \A a \in Approvers : pc'[a] = "idle"
    BY <1>1, <1>4 DEF viewVars, RunOnly
  <2>2. \A a \in Approvers : pc[a] = "idle"
    BY <1>0, <1>4, <2>1, IdleBefore
  <2>3. CASE UNCHANGED traceVars
    <3>1. UNCHANGED <<file, torn, emitted>>
      BY <2>3 DEF traceVars
    <3>2. RunOnly
      BY <1>1, <2>2, <3>1 DEF RunOnly
    <3> QED
      BY <1>0, <2>1, <3>1, <3>2 DEF Refreshed, ShownCame
  <2>4. CASE RunWrites /\ pc[Run] \in {"running", "decided"}
    <3>1. RunOnly
      BY <1>0, <2>2, <2>4 DEF InTurn, RunOnly
    <3>2. Clean
      BY <1>0, <3>1 DEF InTurn, RunOnly, Clean, AllWhole, TraceInv, TraceTyped
    <3>3. view.shown <= Len(emitted)
      BY <1>0, <3>1 DEF ShownCame
    <3>4. Len(emitted') = Len(emitted) + 1
      BY <1>0, <2>4 DEF RunWrites, Emit, TraceInv, TraceTyped
    <3>5. view'.shown <= Len(emitted')
      BY <1>2, <2>1, <3>3, <3>4
    <3>6. ASSUME view.state = "selected", view.of = "run"
          PROVE  \/ view.list = Held(file')
                 \/ \E i \in 1 .. Len(emitted') :
                        i > view.shown /\ emitted'[i].note \in Decisions
      <4>1. \/ view.list = Held(file)
            \/ \E i \in 1 .. Len(emitted) : i > view.shown /\ emitted[i].note \in Decisions
        BY <1>0, <3>1, <3>6 DEF Refreshed
      <4> QED
        BY <1>0, <1>2, <2>4, <3>2, <3>3, <4>1, ListAfterEvent
    <3> QED
      BY <2>1, <3>5, <3>6
  <2>5. CASE torn' /\ pc'[Run] = "dead"
    BY <1>1, <2>5 DEF RunOnly
  <2> QED
    BY <1>4, <2>1, <2>3, <2>4, <2>5, StepOfRun
<1>5. ViewNext => (Next /\ UNCHANGED viewVars) \/ UNCHANGED vars
  BY DEF ViewNext, Rebuild, StartRebuild, ReadManifest, CountEvents, Commit, RebuildFails,
         Watch, ShowEvent, SelectOther, ListOther, SelectRun, ApprovalEnds
<1> QED
  BY <1>3, <1>4, <1>5 DEF viewVars

LEMMA UIStep ==
  ASSUME RecordInv, UIInv, [ViewNext]_<<vars, viewVars>>
  PROVE  UIInv'
<1>1. [Next]_vars
  BY DEF ViewNext, Rebuild, StartRebuild, ReadManifest, CountEvents, Commit, RebuildFails,
         Watch, ShowEvent, SelectOther, ListOther, SelectRun, ApprovalEnds
<1>2. InTurn'
  BY <1>1, InTurnStep DEF UIInv, ViewInv
<1>3. ViewTyped'
  BY ViewSteps DEF RecordInv, UIInv, ViewInv
<1>4. ListedWasHeld'
  BY ListedStep DEF UIInv, ViewInv
<1> QED
  BY <1>2, <1>3, <1>4, RefreshedStep DEF UIInv, ViewInv

-----------------------------------------------------------------------------
(* The theorems                                                               *)

\* The readers change nothing of what the writers do.
LEMMA ViewsOnlyRead == ViewSpec => Spec
<1>1. [ViewNext]_<<vars, viewVars>> => [Next]_vars
  BY DEF ViewNext, Rebuild, StartRebuild, ReadManifest, CountEvents, Commit, RebuildFails,
         Watch, ShowEvent, SelectOther, ListOther, SelectRun, ApprovalEnds
<1>2. ViewInit => Init
  BY DEF ViewInit
<1> QED
  BY <1>1, <1>2, PTL DEF ViewSpec, Spec

LEMMA ViewsInit == ViewInit => BackedInv /\ RebuildInv /\ UIInv
<1> SUFFICES ASSUME ViewInit PROVE BackedInv /\ RebuildInv /\ UIInv
  OBVIOUS
<1>1. /\ Init /\ index = {} /\ rebuild.pc = "idle"
      /\ view \in View /\ view.shown = 0 /\ view.of = "other"
  <2>1. PICK flags \in OtherLists :
          view = [state |-> "selected", deaf |-> FALSE, shown |-> 0, list |-> flags, of |-> "other"]
    BY DEF ViewInit
  <2> QED
    BY <2>1 DEF ViewInit, View, OtherLists
<1>2. BackedInv /\ RebuildInv
  BY <1>1, BackedInit DEF RebuildInv, RowsBacked
<1>3. /\ file = <<>> /\ emitted = <<>> /\ ~torn /\ Len(emitted) = 0 /\ writerSeq[Run] = 0
  BY <1>1, ProcessesFacts DEF Init
<1>5. InTurn
  BY <1>3 DEF InTurn, AllWhole
<1>6. ViewTyped
  BY <1>1 DEF ViewTyped
<1>7. Refreshed /\ ShownCame /\ ListedWasHeld
  BY <1>1, <1>3 DEF Refreshed, ShownCame, ListedWasHeld
<1> QED
  BY <1>1, <1>2, <1>5, <1>6, <1>7 DEF UIInv, ViewInv

LEMMA ViewInvHolds == ViewSpec => []RecordInv /\ []BackedInv /\ []RebuildInv /\ []UIInv
<1>1. ViewSpec => []RecordInv
  BY ViewsOnlyRead, RecordInvHolds, PTL
<1>2. RecordInv /\ BackedInv /\ [ViewNext]_<<vars, viewVars>> => BackedInv'
  <2>1. [ViewNext]_<<vars, viewVars>> => [Next]_vars
    BY DEF ViewNext, Rebuild, StartRebuild, ReadManifest, CountEvents, Commit, RebuildFails,
           Watch, ShowEvent, SelectOther, ListOther, SelectRun, ApprovalEnds
  <2> QED
    BY <2>1, BackedStep
<1>3. RecordInv /\ BackedInv /\ RebuildInv /\ [ViewNext]_<<vars, viewVars>> => RebuildInv'
  BY RebuildStep
<1>4. RecordInv /\ UIInv /\ [ViewNext]_<<vars, viewVars>> => UIInv'
  BY UIStep
<1> QED
  BY <1>1, <1>2, <1>3, <1>4, ViewsInit, PTL DEF ViewSpec

\* Whoever writes meanwhile, a row of the index that says held or solved counted
\* the event behind it, or its counts say the trace was cut.
THEOREM RowsAreBacked == ViewSpec => []RowsBacked
<1>1. RebuildInv => RowsBacked
  BY DEF RebuildInv
<1> QED
  BY <1>1, ViewInvHolds, PTL

\* Whatever is viewed, launched or approved meanwhile, the flags that the UI lists
\* as the run's were held by the judge, and are all that is held once the run's
\* last event has come.
THEOREM HeldAreOffered == ViewSpec => []HeldIsOffered
<1>1. RecordInv /\ UIInv => HeldIsOffered
  <2> SUFFICES ASSUME RecordInv, UIInv, view.of = "run" PROVE HeldIsOffered
    BY DEF HeldIsOffered
  <2>1. TraceInv /\ InTurn /\ Refreshed /\ \A g \in view.list : JudgeWrote(emitted, "pending", g)
    BY DEF RecordInv, UIInv, ViewInv, ListedWasHeld
  <2>2. ASSUME view.state = "selected", \A e \in Printed : e.seq <= view.shown, RunOnly
        PROVE  view.list = Held(file)
    <3>1. \A i \in 1 .. Len(emitted) : ~(i > view.shown)
      <4>1. ASSUME NEW i \in 1 .. Len(emitted)
            PROVE  ~(i > view.shown)
        <5>1. emitted[i] \in Printed /\ emitted[i].seq = i
          BY <2>1, <2>2, PrintedInTurn DEF InTurn
        <5>2. i <= view.shown /\ view.shown \in Nat /\ i \in Nat
          BY <2>2, <5>1 DEF UIInv, ViewInv, ViewTyped, View
        <5> QED
          BY <5>2
      <4> QED
        BY <4>1
    <3> QED
      BY <2>1, <2>2, <3>1 DEF Refreshed
  <2> QED
    BY <2>1, <2>2 DEF HeldIsOffered, RunOnly
<1> QED
  BY <1>1, ViewInvHolds, PTL
=============================================================================
