------------------------------ MODULE RunViews ------------------------------
(***************************************************************************)
(* Those who read a run's two files while RunRecord's processes write      *)
(* them: `runectl index rebuild` (trace/index.py), which copies run.json   *)
(* and counts the trace into SQLite, and the terminal UI (cli/tui) that    *)
(* launched the run, is sent its events through a pipe, and reads the      *)
(* trace for the flags that wait for approval.  An approval from the UI is *)
(* a `flag approve` process, one of Approvers.                             *)
(***************************************************************************)
EXTENDS RunRecord

VARIABLES reader,   \* which of the two reads: neither touches what the other does
          index,    \* the committed rows: none, or the run's
          rebuild,  \* the rebuild, and the row it has read so far
          view      \* the UI: what it has selected, whether it still hears the
                    \* run, the events that came, the flags listed and whose

viewVars == <<reader, index, rebuild, view>>

-----------------------------------------------------------------------------
(* index rebuild *)

Nothing == [outcome |-> "none", flag |-> NoFlag, read |-> {}, cut |-> FALSE]

\* `read` and `cut` tell which events the counts of events_summary are of.
Row(content, f) ==
    [outcome |-> content.outcome, flag |-> content.flag,
     read |-> {<<f[i].event.note, f[i].event.flag>> :
                 i \in {k \in Readable(f) : f[k].event.note \in Decisions}},
     cut |-> Readable(f) # DOMAIN f]

At(label, row) == rebuild' = [pc |-> label, row |-> row]

\* DROP and CREATE commit themselves; in between, list_runs finds no table and
\* returns no rows either.
StartRebuild ==
    /\ rebuild.pc = "idle"
    /\ index' = {}
    /\ At("manifest", Nothing)
    /\ UNCHANGED <<vars, view>>

\* A run without run.json is skipped; one that does not parse ends the command.
ReadManifest ==
    /\ rebuild.pc = "manifest"
    /\ IF manifest.state = "whole"
       THEN At("trace", Row(manifest.content, <<>>))
       ELSE At("idle", Nothing)
    /\ UNCHANGED <<vars, index, view>>

CountEvents ==
    /\ rebuild.pc = "trace" /\ ~MustRaise(file)
    /\ At("commit", Row(rebuild.row, file))
    /\ UNCHANGED <<vars, index, view>>

\* Mutant: the row is read again when it is inserted.
CommitReread ==
    /\ rebuild.pc = "commit"
    /\ index' = {[rebuild.row EXCEPT !.outcome = manifest.content.outcome,
                                     !.flag = manifest.content.flag]}
    /\ At("idle", Nothing)
    /\ UNCHANGED <<vars, view>>

Commit ==
    /\ rebuild.pc = "commit"
    /\ index' = {rebuild.row}
    /\ At("idle", Nothing)
    /\ UNCHANGED <<vars, view>>

\* Killed, or the trace raises: what is not committed is rolled back.
RebuildFails ==
    /\ rebuild.pc # "idle"
    /\ At("idle", Nothing)
    /\ UNCHANGED <<vars, index, view>>

-----------------------------------------------------------------------------
(* The terminal UI *)

\* on_emit prints an event once its line is on disk: of the run's events, those
\* its writer has counted may have come through the pipe, in their order.
Printed == {emitted[i] : i \in {k \in DOMAIN emitted :
               emitted[k].by = Run /\ emitted[k].seq <= writerSeq[Run]}}

Shown(n) == [view EXCEPT !.shown = n]
Listing(v) == [v EXCEPT !.list = Held(file), !.of = "run"]

\* _refresh_flag_list of the run, in the view v: it reads the trace.  An exception
\* of the reader passes to the caller.
RefreshFlagList(v, raised) ==
    \/ ~MustRaise(file) /\ view' = Listing(v)
    \/ MayRaise(file) /\ view' = raised

\* What an exception in a handler or a worker does to the UI.
Exited == [view EXCEPT !.state = "exited"]

\* Mutant: only a candidate does, which comes before its decision.
RefreshedByNone == {}

\* The decisions after which _write_event reads the trace for the flags.  It does
\* after a candidate, too, which is work to RunRecord.
RefreshedBy == Decisions

\* _drive's on_event.  An exception ends its task, and with it the reading of the
\* pipe; the UI goes on.
ShowEvent ==
    /\ view.state # "exited" /\ ~view.deaf
    /\ \E e \in Printed :
        /\ e.seq = view.shown + 1
        /\ \/ /\ view.state = "selected" /\ e.note \in RefreshedBy \cup {"work"}
              /\ RefreshFlagList(Shown(e.seq), [view EXCEPT !.deaf = TRUE])
           \/ /\ view.state # "selected" \/ e.note \notin RefreshedBy
              /\ view' = Shown(e.seq)
    /\ UNCHANGED <<vars, index, rebuild>>

\* What the list may hold of another run, whose flags are like any: none, or some.
OtherLists == {{}, Flags}

\* Another run is selected: _select_run lists its flags, and _launch leaves the
\* list as it is.
SelectOther ==
    /\ view.state = "selected"
    /\ \/ view' = [view EXCEPT !.state = "other"]
       \/ \E flags \in OtherLists :
              view' = [view EXCEPT !.state = "other", !.of = "other", !.list = flags]
    /\ UNCHANGED <<vars, index, rebuild>>

\* The flags of another run are listed: a decision of the one selected, or the end
\* of an approval of any, which selects nothing.
ListOther ==
    /\ view.state # "exited"
    /\ \E flags \in OtherLists : view' = [view EXCEPT !.of = "other", !.list = flags]
    /\ UNCHANGED <<vars, index, rebuild>>

\* _select_run of the run.
SelectRun ==
    /\ view.state # "exited"
    /\ RefreshFlagList([view EXCEPT !.state = "selected"], Exited)
    /\ UNCHANGED <<vars, index, rebuild>>

\* _approve of a flag of the run has waited for its process: whatever is selected
\* by now, the list is the run's.
ApprovalEnds ==
    /\ view.state # "exited"
    /\ RefreshFlagList(view, Exited)
    /\ UNCHANGED <<vars, index, rebuild>>

-----------------------------------------------------------------------------
View == [state : {"selected", "other", "exited"}, deaf : BOOLEAN, shown : Nat,
         list : SUBSET Flags, of : {"run", "other"}]

\* _launch selects the run and leaves the flags of the one viewed before.
ViewInit ==
    /\ Init
    /\ reader \in {"index", "ui"}
    /\ index = {} /\ rebuild = [pc |-> "idle", row |-> Nothing]
    /\ \E flags \in OtherLists :
          view = [state |-> "selected", deaf |-> FALSE, shown |-> 0, list |-> flags, of |-> "other"]

Rebuild == StartRebuild \/ ReadManifest \/ CountEvents \/ Commit \/ RebuildFails
Watch == ShowEvent \/ SelectOther \/ ListOther \/ SelectRun \/ ApprovalEnds

ViewNext == \/ Next /\ UNCHANGED viewVars
            \/ reader = "index" /\ Rebuild /\ UNCHANGED reader
            \/ reader = "ui" /\ Watch /\ UNCHANGED reader

ViewSpec == ViewInit /\ [][ViewNext]_<<vars, viewVars>>

-----------------------------------------------------------------------------
(* Properties *)

\* Whoever writes meanwhile: a row that says candidate counted the event that
\* held that flag, and a row that says solved the one that finalized it, unless
\* the trace was cut before it (rebuild reads run.json before the trace; those
\* who write do it the other way round).
RowsBacked ==
    \A row \in index :
        /\ row.outcome = "candidate" => <<"pending", row.flag>> \in row.read
        /\ row.outcome = "solved" => row.cut \/ <<"finalized", row.flag>> \in row.read

\* The flags the UI lists as the run's were held by the judge; and once the run's
\* last event has come they are all that is held, without a refresh, as long as no
\* approval runs (an event is printed after its line is on disk).  The list may
\* also be another run's, of the one viewed before the launch or of one whose
\* approval ended: an event of the run takes it back, nothing else need.
HeldIsOffered ==
    view.of = "run" =>
        /\ \A g \in view.list : JudgeWrote(emitted, "pending", g)
        /\ (/\ view.state = "selected" /\ (\A e \in Printed : e.seq <= view.shown)
            /\ ~torn /\ \A a \in Approvers : pc[a] = "idle")
           => view.list = Held(file)
=============================================================================
