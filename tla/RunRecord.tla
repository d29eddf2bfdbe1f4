------------------------------ MODULE RunRecord ------------------------------
(***************************************************************************)
(* What a run leaves on disk: trace.jsonl, written line by line by         *)
(* trace/writer.py, and run.json, rewritten whole by trace/store.py.  The  *)
(* run writes both; `runectl flag approve` (cli/flag_cmd.py) reads both    *)
(* and writes both, from a process of its own, and nothing locks them.     *)
(*                                                                         *)
(* A step is one operation on one file.  A process may die between any two *)
(* of them, and inside the write of a line: a line may be cut short, even  *)
(* within a character, or complete but for its newline, and what is        *)
(* appended next joins it.                                                 *)
(***************************************************************************)
EXTENDS Naturals, Sequences

CONSTANTS Flags,
          Approvers,      \* invocations of `runectl flag approve`
          Run,            \* the process of the run
          NoFlag,
          MaxWork         \* bound on the events of the run before its end

ASSUME RecordAssumption ==
    /\ Run \notin Approvers
    /\ NoFlag \notin Flags
    /\ MaxWork \in Nat

Processes == {Run} \cup Approvers

VARIABLES file,      \* the lines of trace.jsonl
          torn,      \* the file does not end in a newline
          manifest,  \* run.json
          pc,        \* what each process does next
          writerSeq, \* TraceWriter._seq of each process
          answer,    \* what each process will record as the outcome
          loaded,    \* the manifest each process writes back
          emitted,   \* history: the events whose text reached the file
          overlap    \* history: an approval began beside another process

vars == <<file, torn, manifest, pc, writerSeq, answer, loaded, emitted, overlap>>
recordVars == <<manifest, answer, loaded>>
traceVars == <<file, torn, writerSeq, emitted>>

-----------------------------------------------------------------------------
(* Lines and what a reader makes of them *)

Decisions == {"finalized", "pending", "rejected"}

\* `by` is the writer, which the reason of a decision tells.
Events == [seq : Nat, by : Processes, note : {"work", "finished"}, flag : {NoFlag}]
          \cup [seq : Nat, by : Processes, note : Decisions, flag : Flags]

NoEvent == [seq |-> 0, by |-> Run, note |-> "work", flag |-> NoFlag]
\* An undecodable line holds the first bytes of a UTF-8 character.
Lines == [text : {"whole", "bad", "undecodable"}, event : Events]

Line(e) == [text |-> "whole", event |-> e]
Cut(text) == [text |-> text, event |-> NoEvent]

\* Mutant: a reader that skips a bad line.
ReadableSkipping(f) == {i \in DOMAIN f : f[i].text = "whole"}

\* TraceReader.__iter__ stops at the first line that does not parse.
Readable(f) == {i \in DOMAIN f : \A j \in 1 .. i : f[j].text = "whole"}

\* `for line in fh` decodes outside the try, and ahead of the line it returns:
\* an undecodable line behind a bad one is met or not.
MayRaise(f) == \E i \in DOMAIN f : f[i].text = "undecodable"
MustRaise(f) ==
    \E i \in DOMAIN f : /\ f[i].text = "undecodable"
                        /\ \A j \in 1 .. i - 1 : f[j].text = "whole"

DecisionOn(e, g) == e.note \in Decisions /\ e.flag = g

\* Mutants: anything not finalized is held; an approval does not settle it.
HeldUnlessFinalized(f) ==
    {g \in Flags : \E i \in Readable(f) :
        /\ DecisionOn(f[i].event, g) /\ f[i].event.note # "finalized"
        /\ \A j \in Readable(f) : j > i => ~DecisionOn(f[j].event, g)}
HeldOnce(f) ==
    {g \in Flags : \E i \in Readable(f) :
        DecisionOn(f[i].event, g) /\ f[i].event.note = "pending"}

\* pending_candidates: the last decision on the flag is `pending`.
Held(f) ==
    {g \in Flags : \E i \in Readable(f) :
        /\ DecisionOn(f[i].event, g) /\ f[i].event.note = "pending"
        /\ \A j \in Readable(f) : j > i => ~DecisionOn(f[j].event, g)}

\* Mutant: the approval's writer starts from its default.
LastSeqDefault(f) == 0

\* events[-1].seq if events else 0
LastSeq(f) ==
    IF Readable(f) = {} THEN 0
    ELSE f[CHOOSE i \in Readable(f) : \A j \in Readable(f) : j <= i].event.seq

-----------------------------------------------------------------------------
(* run.json *)

Contents == [outcome : {"none", "exhausted", "error"}, flag : {NoFlag}, approved : BOOLEAN]
            \cup [outcome : {"solved", "candidate"}, flag : Flags, approved : BOOLEAN]

Blank == [outcome |-> "none", flag |-> NoFlag, approved |-> FALSE]

\* read_manifest raises on a file that is empty, or garbled by two writers.
Manifests == [state : {"absent", "empty", "garbled", "whole"}, content : Contents]

Whole(content) == [state |-> "whole", content |-> content]
Broken(state) == [state |-> state, content |-> Blank]

-----------------------------------------------------------------------------
Init ==
    /\ file = <<>> /\ torn = FALSE /\ emitted = <<>>
    /\ manifest = Broken("absent")
    /\ pc = [p \in Processes |-> IF p = Run THEN "new" ELSE "idle"]
    /\ writerSeq = [p \in Processes |-> 0]
    /\ answer = [p \in Processes |-> [outcome |-> "none", flag |-> NoFlag]]
    /\ loaded = [p \in Processes |-> Blank]
    /\ overlap = FALSE

Goto(p, label) == pc' = [pc EXCEPT ![p] = label]

-----------------------------------------------------------------------------
(* TraceWriter.emit *)

Stamped(p, note, g) ==
    [seq |-> writerSeq[p] + 1, by |-> p, note |-> note, flag |-> g]

\* What is appended to a torn file joins its last line.
Extended(line) ==
    IF ~torn THEN Append(file, line)
    ELSE [file EXCEPT ![Len(file)] =
              Cut(IF "undecodable" \in {@.text, line.text} THEN "undecodable" ELSE "bad")]

Emit(p, note, g) ==
    /\ writerSeq' = [writerSeq EXCEPT ![p] = @ + 1]
    /\ file' = Extended(Line(Stamped(p, note, g)))
    /\ torn' = FALSE
    /\ emitted' = Append(emitted, Stamped(p, note, g))

\* The process dies inside the write: of the text, or before the newline.
EmitTorn(p, note, g) ==
    /\ Goto(p, "dead")
    /\ torn' = TRUE
    /\ \/ /\ \E text \in {"bad", "undecodable"} : file' = Extended(Cut(text))
          /\ emitted' = emitted
       \/ /\ file' = Extended(Line(Stamped(p, note, g)))
          /\ emitted' = Append(emitted, Stamped(p, note, g))
    /\ UNCHANGED <<writerSeq, recordVars, overlap>>

-----------------------------------------------------------------------------
(* The run *)

\* Store.new_run: write_text creates run.json, then fills it; the writer opens
\* the trace.
CreateManifest ==
    /\ pc[Run] = "new"
    /\ manifest' = Broken("empty")
    /\ Goto(Run, "creating")
    /\ UNCHANGED <<answer, loaded, traceVars, overlap>>

FillManifest ==
    /\ pc[Run] = "creating"
    /\ manifest' = Whole(Blank)
    /\ Goto(Run, "running")
    /\ UNCHANGED <<answer, loaded, traceVars, overlap>>

Working == pc[Run] = "running" /\ writerSeq[Run] < MaxWork

\* An event that neither ends the run nor settles its answer; a rejected
\* candidate is one.
Work ==
    /\ Working
    /\ \/ Emit(Run, "work", NoFlag)
       \/ \E g \in Flags : Emit(Run, "rejected", g)
    /\ UNCHANGED <<pc, recordVars, overlap>>

\* The judge finalizes or holds a flag, and the run has its answer.
Decide ==
    \E g \in Flags, d \in {"finalized", "pending"} :
        /\ Working
        /\ Emit(Run, d, g)
        /\ answer' = [answer EXCEPT ![Run] =
               [outcome |-> IF d = "finalized" THEN "solved" ELSE "candidate",
                flag |-> g]]
        /\ Goto(Run, "decided")
        /\ UNCHANGED <<manifest, loaded, overlap>>

\* _finish after a decision: run.finished, then the session is closed.
FinishDecided ==
    /\ pc[Run] = "decided"
    /\ Emit(Run, "finished", NoFlag)
    /\ Goto(Run, "recording")
    /\ UNCHANGED <<recordVars, overlap>>

\* _finish without one: steps or money ran out, or the provider failed.
FinishEmptyHanded ==
    /\ pc[Run] = "running"
    /\ Emit(Run, "finished", NoFlag)
    /\ \E o \in {"exhausted", "error"} :
           answer' = [answer EXCEPT ![Run] = [outcome |-> o, flag |-> NoFlag]]
    /\ Goto(Run, "recording")
    /\ UNCHANGED <<manifest, loaded, overlap>>

\* A RunectlError leaves the loop: no run.finished.
Break ==
    /\ pc[Run] = "running"
    /\ answer' = [answer EXCEPT ![Run] = [outcome |-> "error", flag |-> NoFlag]]
    /\ Goto(Run, "recording")
    /\ UNCHANGED <<manifest, loaded, traceVars, overlap>>

RunTorn ==
    \/ Working /\ EmitTorn(Run, "work", NoFlag)
    \/ Working /\ \E g \in Flags, d \in Decisions : EmitTorn(Run, d, g)
    \/ pc[Run] \in {"running", "decided"} /\ EmitTorn(Run, "finished", NoFlag)

-----------------------------------------------------------------------------
(* flag approve *)

AtRest == {"new", "idle", "done", "refused", "raised", "dead"}

\* _read: the manifest has to exist, and to parse.
CheckManifest(a) ==
    /\ pc[a] = "idle"
    /\ Goto(a, CASE manifest.state = "absent" -> "refused"
                 [] manifest.state = "whole"  -> "checked"
                 [] OTHER                     -> "dead")
    /\ overlap' = (overlap \/ \E p \in Processes : pc[p] \notin AtRest)
    /\ UNCHANGED <<traceVars, recordVars>>

\* It reads the trace, and picks the one held candidate, or the one named.
Choose(a) ==
    /\ pc[a] = "checked" /\ ~MustRaise(file)
    /\ \E g \in Held(file) :
           answer' = [answer EXCEPT ![a] = [outcome |-> "solved", flag |-> g]]
    /\ writerSeq' = [writerSeq EXCEPT ![a] = LastSeq(file)]
    /\ Goto(a, "chosen")
    /\ UNCHANGED <<file, torn, emitted, manifest, loaded, overlap>>

\* Nothing is held, or several and none was named, or --flag names no flag that
\* is held, which is always possible.
Refuse(a) ==
    /\ pc[a] = "checked" /\ ~MustRaise(file)
    /\ Goto(a, "refused")
    /\ UNCHANGED <<traceVars, recordVars, overlap>>

\* A UnicodeDecodeError ends the command.
ReadRaises(a) ==
    /\ pc[a] = "checked" /\ MayRaise(file)
    /\ Goto(a, "raised")
    /\ UNCHANGED <<traceVars, recordVars, overlap>>

Approve(a) ==
    /\ pc[a] = "chosen"
    /\ Emit(a, "finalized", answer[a].flag)
    /\ Goto(a, "recording")
    /\ UNCHANGED <<recordVars, overlap>>

ApproveTorn(a) ==
    /\ pc[a] = "chosen"
    /\ EmitTorn(a, "finalized", answer[a].flag)

-----------------------------------------------------------------------------
(* finish_run and approve_flag: read, change, truncate, write *)

\* Mutant: the flag is left as it was.
UpdatedSameFlag(p, content) ==
    [outcome |-> answer[p].outcome, flag |-> content.flag,
     approved |-> content.approved \/ p # Run]

\* approved_at is set by an approval, and kept by finish_run.
Updated(p, content) ==
    [outcome |-> answer[p].outcome, flag |-> answer[p].flag,
     approved |-> content.approved \/ p # Run]

\* A manifest that does not parse raises an error nobody handles.
LoadManifest(p) ==
    /\ pc[p] = "recording"
    /\ IF manifest.state = "whole"
       THEN /\ loaded' = [loaded EXCEPT ![p] = Updated(p, manifest.content)]
            /\ Goto(p, "loaded")
       ELSE /\ loaded' = loaded
            /\ Goto(p, "dead")
    /\ UNCHANGED <<manifest, answer, traceVars, overlap>>

TruncateManifest(p) ==
    /\ pc[p] = "loaded"
    /\ manifest' = Broken("empty")
    /\ Goto(p, "truncated")
    /\ UNCHANGED <<answer, loaded, traceVars, overlap>>

\* Over what another process wrote since, a shorter text leaves its tail.
WriteManifest(p) ==
    /\ pc[p] = "truncated"
    /\ \/ manifest' = Whole(loaded[p])
       \/ manifest.state # "empty" /\ manifest' = Broken("garbled")
    /\ Goto(p, "done")
    /\ UNCHANGED <<answer, loaded, traceVars, overlap>>

-----------------------------------------------------------------------------
\* A kill, or an exception that is not handled, between two operations.
Die(p) ==
    /\ pc[p] \notin AtRest
    /\ Goto(p, "dead")
    /\ UNCHANGED <<traceVars, recordVars, overlap>>

RunNext == \/ CreateManifest \/ FillManifest \/ Work \/ Decide \/ FinishDecided
           \/ FinishEmptyHanded \/ Break \/ RunTorn

ApproverNext(a) == \/ CheckManifest(a) \/ Choose(a) \/ Refuse(a) \/ ReadRaises(a)
                   \/ Approve(a) \/ ApproveTorn(a)

Record(p) == LoadManifest(p) \/ TruncateManifest(p) \/ WriteManifest(p)

Next == \/ RunNext
        \/ \E a \in Approvers : ApproverNext(a)
        \/ \E p \in Processes : Record(p) \/ Die(p)

Spec == Init /\ [][Next]_vars

-----------------------------------------------------------------------------
(* Properties *)

TypeOK ==
    /\ file \in Seq(Lines) /\ torn \in BOOLEAN
    /\ emitted \in Seq(Events)
    /\ manifest \in Manifests
    /\ pc \in [Processes -> {"new", "creating", "running", "decided", "idle",
                             "checked", "chosen", "recording", "loaded",
                             "truncated", "done", "refused", "raised", "dead"}]
    /\ writerSeq \in [Processes -> Nat]
    /\ answer \in [Processes ->
                     [outcome : {"none", "exhausted", "error"}, flag : {NoFlag}]
                     \cup [outcome : {"solved", "candidate"}, flag : Flags]]
    /\ loaded \in [Processes -> Contents]
    /\ overlap \in BOOLEAN

\* However lines are cut and joined, what a reader is given is a prefix of what
\* was written, event for event: nothing is invented, skipped or out of order
\* (TraceReader stops at the first bad line; writer.emit writes one at a time).
ReaderSeesPrefix ==
    \A i \in Readable(file) : i \in DOMAIN emitted /\ file[i].event = emitted[i]

\* Decision d on g was written, by the run or by an approval.
JudgeWrote(log, d, g) ==
    \E i \in DOMAIN log : log[i].note = d /\ log[i].flag = g /\ log[i].by = Run
HumanWrote(log, d, g) ==
    \E i \in DOMAIN log : log[i].note = d /\ log[i].flag = g /\ log[i].by # Run

Decided(log, outcome, g) ==
    /\ outcome = "solved" =>
           \/ JudgeWrote(log, "finalized", g)
           \/ JudgeWrote(log, "pending", g) /\ HumanWrote(log, "finalized", g)
    /\ outcome = "candidate" => JudgeWrote(log, "pending", g)

\* Whatever overlaps and whatever dies, run.json never says a run is solved
\* unless the judge finalized that flag, or held it and a human then approved
\* that very flag; nor that a flag is held which the judge did not hold.  The
\* record of it is on its way to disk before run.json says so (flag_cmd.approve
\* and _handle_submit_flag both emit first).
ManifestWasDecided ==
    Decided(emitted, manifest.content.outcome, manifest.content.flag)

\* As long as no approval runs beside another process, the events a reader is
\* given have strictly increasing seqs, torn tails included (approve starts its
\* writer from the last event it read).
SeqsIncrease ==
    ~overlap => \A i, j \in Readable(file) :
                    i < j => file[i].event.seq < file[j].event.seq

Clean == ~torn /\ \A i \in DOMAIN file : file[i].text = "whole"

\* Processes that take turns and finish leave two files that agree: run.json
\* parses, it says held when `flag list` has something to list, it says solved
\* when the trace has a decision to finalize, and no more than one approval
\* went through (approving twice is refused).
FilesAgree ==
    (/\ ~overlap /\ Clean /\ pc[Run] = "done"
     /\ \A a \in Approvers : pc[a] \in {"idle", "done", "refused"})
    => /\ manifest.state = "whole"
       /\ (manifest.content.outcome = "candidate") = (Held(file) # {})
       /\ (manifest.content.outcome = "solved") =
              (\E i \in DOMAIN file : file[i].event.note = "finalized")
       /\ manifest.content.approved = (\E a \in Approvers : pc[a] = "done")
       /\ \A a, b \in Approvers : pc[a] = "done" /\ pc[b] = "done" => a = b

\* An approval that reported success lasts: run.json stays solved and approved.
\* finish_run rewrites the manifest of a run that was approved while its
\* sandbox was still being stopped.
ApprovalLasts ==
    \A a \in Approvers :
        pc[a] = "done" /\ manifest.state = "whole"
        => manifest.content.outcome = "solved" /\ manifest.content.approved

\* Whatever a death leaves at the end of the trace, reading it raises nothing.  A
\* cut inside a character does.
TailNeverRaises == \A a \in Approvers : pc[a] # "raised"
=============================================================================
