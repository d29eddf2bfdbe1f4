------------------------------- MODULE RunLoop -------------------------------
(***************************************************************************)
(* One `runectl run`: cli/run_cmd.execute_run around loop/runner.Runner.   *)
(* The run is one thread, so an action is everything it does between two   *)
(* answers from outside (sandbox, provider, summarizer); the environment   *)
(* chooses the answers, and may kill the process between any two actions.  *)
(*                                                                         *)
(* The trace is kept as the run writes it: an event's seq is its position. *)
(***************************************************************************)
EXTENDS ProgressTracker, FlagJudge, Compaction, FiniteSets

CONSTANTS CommandText,     \* [Commands -> SUBSET Fragments], the call's arguments
          ToolOf,          \* [Commands -> {"exec", "write_file", "malformed"}]
          ToolOutputs,     \* what a tool may return
          Slow,            \* the commands that may still run at their timeout
          Deaf,            \* ... and of them those that ignore its SIGTERM
          DispatchRefusal, \* the result of a malformed call
          MaxSteps, MaxMessages,
          MaxCost,         \* --max-cost; 0 disables the ceiling
          CallCosts, MaxCallCost,        \* what one completion may cost
          UtilityCosts, MaxUtilityCost,  \* what one summary may cost; no cost
                                         \* at all when no summarizer is wired
          MaxExtras,       \* bound: tool calls after the first in one completion
          HasFiles,        \* the challenge has input files
          Policies,        \* the --approval policies to start runs with
          Submit, NoSubject

ToolOutput == [digest : Digests, signal : Signals, ok : BOOLEAN,
               shows : SUBSET Fragments, bait : SUBSET Flags, big : BOOLEAN]

ASSUME LoopAssumption ==
    /\ CommandText \in [Commands -> SUBSET Fragments]
    /\ ToolOf \in [Commands -> {"exec", "write_file", "malformed"}]
    /\ ToolOutputs \subseteq ToolOutput
    /\ Slow \subseteq Commands /\ Deaf \subseteq Slow
    /\ \A out \in ToolOutputs : TextClosed(out.shows)
    /\ \A c \in Commands : TextClosed(CommandText[c])
    /\ DispatchRefusal \in ToolOutput
    /\ MaxSteps \in Nat /\ MaxMessages \in Nat \ {0} /\ MaxCost \in Nat
    /\ MaxCallCost \in Nat /\ CallCosts \subseteq 0 .. MaxCallCost
    /\ MaxUtilityCost \in Nat /\ UtilityCosts \subseteq 0 .. MaxUtilityCost
    /\ MaxExtras \in Nat
    /\ HasFiles \in BOOLEAN
    /\ Policies \subseteq ApprovalPolicy
    /\ Submit \notin Commands
    /\ NoSubject \notin Flags \cup Commands \cup {Submit}
    /\ CallIds = (1 .. MaxSteps) \X (0 .. MaxExtras)

VARIABLES pc,
          policy,                 \* --approval, fixed for the run
          step, call,             \* state.step; the primary tool call to act on
          spent, cost,            \* ledger.total_usd; state.cost_usd
          flag, progressSteps, blockedSteps,
          history, observations,
          rendered,               \* ContextBuilder._seen_digests
          trace,
          ended,                  \* the RunOutcome, or the escaping error's code
          manifest                \* run.json

loopVars == <<pc, policy, step, call, spent, cost, flag, progressSteps, blockedSteps,
              history, observations, rendered, trace, ended, manifest>>
vars == <<loopVars, trackerVars>>

-----------------------------------------------------------------------------
(* Events *)

\* what: the command or flag an event is about; note: its kind, decision,
\* reason or outcome; n: its cumulative cost, cited seq or message count.
Event(type, s, what, note, n) ==
    [type |-> type, step |-> s, what |-> what, note |-> note, n |-> n]

Emit(events) == trace' = trace \o events

\* The seq of the i-th event this action writes.
Seq_(i) == Len(trace) + i

NotFinished == [outcome |-> "none", code |-> 0]

\* Mutant: run.finished is written from what the state held before.
FinishStale(outcome, code, events) ==
    /\ Emit(Append(events, Event("run.finished", step, flag, outcome, cost)))
    /\ ended' = [outcome |-> outcome, code |-> code]
    /\ pc' = "returned"

\* Runner._finish, after whatever else the action emits.
Finish(outcome, code, events) ==
    /\ Emit(Append(events, Event("run.finished", step, flag', outcome, cost')))
    /\ ended' = [outcome |-> outcome, code |-> code]
    /\ pc' = "returned"

\* A RunectlError leaves run(): nothing more is written to the trace.
Escape(code, events) ==
    /\ Emit(events)
    /\ ended' = [outcome |-> "error", code |-> code]
    /\ pc' = "escaped"

\* The codes of SandboxError, ProviderError and UsageError.
SandboxCode == 4
ProviderCodes == {5, 6}

-----------------------------------------------------------------------------
(* Before the loop *)

\* Store.new_run has written run.json and opened the trace.
Init ==
    /\ TrackerInit
    /\ pc = "new" /\ policy \in Policies
    /\ step = 0 /\ call = NoSubject
    /\ spent = 0 /\ cost = 0
    /\ flag = NoSubject /\ progressSteps = 0 /\ blockedSteps = 0
    /\ history = <<>> /\ observations = {} /\ rendered = {}
    /\ trace = <<>>
    /\ ended = NotFinished
    /\ manifest = [outcome |-> "none", code |-> 0, flag |-> NoSubject, cost |-> 0,
                   steps |-> 0, progress |-> 0, blocked |-> 0]

\* sandbox.start raises inside sandbox_session.
SandboxStartFails ==
    /\ pc = "new"
    /\ Escape(SandboxCode, <<>>)
    /\ UNCHANGED <<policy, step, call, spent, cost, flag, progressSteps, blockedSteps,
                   history, observations, rendered, manifest, trackerVars>>

Opening == <<Event("run.started", 0, NoSubject, "", 0),
             Event("challenge.loaded", 0, NoSubject, "", 0)>>

\* Runner.run up to triage: the inputs land, or there are none.
Begin ==
    /\ pc = "new"
    /\ pc' = "triage"
    /\ Emit(Opening)
    /\ UNCHANGED <<policy, step, call, spent, cost, flag, progressSteps, blockedSteps,
                   history, observations, rendered, ended, manifest, trackerVars>>

\* put_inputs raises SandboxError: the one sandbox failure run() handles.
InputsFail ==
    /\ pc = "new" /\ HasFiles
    /\ UNCHANGED <<policy, step, call, spent, cost, flag, progressSteps, blockedSteps,
                   history, observations, rendered, manifest, trackerVars>>
    /\ Finish("error", SandboxCode,
              Append(Opening, Event("error", 0, NoSubject, "sandbox", 0)))

Triage ==
    /\ pc = "triage"
    /\ pc' = "step"
    /\ Emit(<<Event("triage.result", 0, NoSubject, "", 0)>>)
    /\ history' = Append(history, UserMessage)
    /\ UNCHANGED <<policy, step, call, spent, cost, flag, progressSteps, blockedSteps,
                   observations, rendered, ended, manifest, trackerVars>>

\* A triage command raises SandboxError.
TriageFails ==
    /\ pc = "triage"
    /\ Escape(SandboxCode, <<>>)
    /\ UNCHANGED <<policy, step, call, spent, cost, flag, progressSteps, blockedSteps,
                   history, observations, rendered, manifest, trackerVars>>

-----------------------------------------------------------------------------
(* The top of a step and the model's answer *)

\* What the summaries of an action add to the ledger: one call, or none.
Summarized(needed) == IF needed /\ UtilityCosts # {} THEN UtilityCosts ELSE {0}

\* Mutant: one step too many.
StepsLeftInclusive == step <= MaxSteps

\* The loop's range.
StepsLeft == step < MaxSteps

\* Compact the history if it outgrew its budget, then send the request.
BeginStep ==
    /\ pc = "step" /\ StepsLeft
    /\ step' = step + 1
    /\ history' = Compact(history, MaxMessages)
    /\ \E u \in Summarized(Compactable(history, MaxMessages)) : spent' = spent + u
    /\ Emit(<<Event("llm.request", step', NoSubject, "", Len(history'))>>)
    /\ pc' = "llm"
    /\ UNCHANGED <<policy, call, cost, flag, progressSteps, blockedSteps,
                   observations, rendered, ended, manifest, trackerVars>>

\* The summarizer's provider call fails for good: nothing in run() catches it.
CompactionFails ==
    /\ pc = "step" /\ StepsLeft
    /\ Compactable(history, MaxMessages) /\ UtilityCosts # {}
    /\ step' = step + 1
    /\ \E code \in ProviderCodes : Escape(code, <<>>)
    /\ UNCHANGED <<policy, call, spent, cost, flag, progressSteps, blockedSteps,
                   history, observations, rendered, manifest, trackerVars>>

StepsExhausted ==
    /\ pc = "step" /\ ~StepsLeft
    /\ UNCHANGED <<policy, step, call, spent, cost, flag, progressSteps, blockedSteps,
                   history, observations, rendered, manifest, trackerVars>>
    /\ Finish("exhausted", 3, <<>>)

\* complete_with_retry gives up.
ProviderFails ==
    /\ pc = "llm"
    /\ UNCHANGED <<policy, step, call, spent, cost, flag, progressSteps, blockedSteps,
                   history, observations, rendered, manifest, trackerVars>>
    /\ Finish("error", 5, <<Event("error", step, NoSubject, "provider", 0)>>)

\* The key or the account is refused: a UsageError, which run() lets through.
CredentialsRefused ==
    /\ pc = "llm"
    /\ Escape(6, <<>>)
    /\ UNCHANGED <<policy, step, call, spent, cost, flag, progressSteps, blockedSteps,
                   history, observations, rendered, manifest, trackerVars>>

\* Mutants: a ceiling that may be reached; a check of the bill before this call.
OverCeilingStrict(amount) == MaxCost > 0 /\ amount > MaxCost
OverCeilingStale(amount) == MaxCost > 0 /\ cost >= MaxCost

\* --max-cost is a ceiling the bill may not reach.
OverCeiling(amount) == MaxCost > 0 /\ amount >= MaxCost

CostUpdated == Event("cost.updated", step, NoSubject, "", spent')

\* A completion arrives and the ledger crosses the ceiling: the completion is
\* paid for and not acted upon.
CeilingReached(c) ==
    /\ pc = "llm"
    /\ spent' = spent + c
    /\ OverCeiling(spent')
    /\ cost' = spent'
    /\ UNCHANGED <<policy, step, call, flag, progressSteps, blockedSteps, history,
                   observations, rendered, manifest, trackerVars>>
    /\ Finish("exhausted", 3,
              <<CostUpdated, Event("budget.exhausted", step, NoSubject, "", spent')>>)

\* A completion without a tool call is answered with a nudge.
Nudge(c) ==
    /\ pc = "llm"
    /\ spent' = spent + c
    /\ ~OverCeiling(spent')
    /\ cost' = spent'
    /\ history' = history \o <<AssistantMessage({}), UserMessage>>
    /\ Emit(<<CostUpdated, Event("llm.response", step, NoSubject, "", 0)>>)
    /\ pc' = "step"
    /\ UNCHANGED <<policy, step, call, flag, progressSteps, blockedSteps,
                   observations, rendered, ended, manifest, trackerVars>>

PrimaryId == <<step, 0>>

\* A completion with tool calls: the first is kept, the extras are refused and
\* answered at once.
Propose(c, primary, extras) ==
    /\ pc = "llm"
    /\ spent' = spent + c
    /\ ~OverCeiling(spent')
    /\ cost' = spent'
    /\ call' = primary
    /\ blockedSteps' = blockedSteps + extras
    /\ history' = Append(history, AssistantMessage({<<step, k>> : k \in 0 .. extras}))
                    \o [k \in 1 .. extras |-> ToolMessage(<<step, k>>)]
    /\ Emit(<<CostUpdated, Event("llm.response", step, primary, "", 0)>>
            \o [k \in 1 .. extras |-> Event("tool.result", step, NoSubject, "blocked", 0)])
    /\ pc' = "act"
    /\ UNCHANGED <<policy, step, flag, progressSteps, observations, rendered, ended,
                   manifest, trackerVars>>

-----------------------------------------------------------------------------
(* Acting on the primary call *)

\* FlagJudge on a candidate; seq is the observation the agent cites.
JudgeEvents(f, seq, rederived, decision) ==
    <<Event("flag.candidate", step, f, "", seq)>>
    \o (IF rederived = "notrun" THEN <<>>
        ELSE <<Event("flag.rederived", step, f, rederived, seq)>>)
    \o <<Event("flag.decision", step, f, decision, 0)>>

\* The judge rejects: no observation supports the flag where the agent says it
\* does, or the flag is implausible or a lure.  The run goes on.  The candidate
\* is recorded with the decoy's seq, or with the seq it will have itself.
RejectFlag(f, seq) ==
    /\ pc = "act" /\ call = Submit
    /\ ~Cleared(f, observations, seq)
    /\ LET at == IF Plausible(f) /\ Cited(f, observations, seq) # {}
                 THEN seq ELSE Seq_(1)
       IN  Emit(JudgeEvents(f, at, "notrun", "rejected"))
    /\ history' = Append(history, ToolMessage(PrimaryId))
    /\ pc' = "step"
    /\ UNCHANGED <<policy, step, call, spent, cost, flag, progressSteps, blockedSteps,
                   observations, rendered, ended, manifest, trackerVars>>

\* The judge clears the flag: it is finalized or held, and the run ends.
AcceptFlag(f, seq) ==
    /\ pc = "act" /\ call = Submit
    /\ UNCHANGED <<policy, step, call, spent, cost, progressSteps, blockedSteps,
                   history, observations, rendered, manifest, trackerVars>>
    /\ flag' = f
    /\ \E o \in observations : \E rederived \in Rederivations(o) :
        /\ ClearedBy(f, o, observations, seq)
        /\ LET decision == PolicyDecision(policy, f, rederived)
           IN  Finish(IF decision = "finalized" THEN "solved" ELSE "candidate",
                      IF decision = "finalized" THEN 0 ELSE 2,
                      JudgeEvents(f, seq, rederived, decision))

ShiftEvents == IF shift'.trigger = "none" THEN <<>>
               ELSE <<Event("strategy.shift", step, NoSubject, shift'.reported, 0)>>
ShiftMessages == IF shift'.trigger = "none" THEN <<>> ELSE <<UserMessage>>

\* A budget refuses the command before it runs.
RefuseCommand(c) ==
    /\ pc = "act" /\ call = c
    /\ NoteBlocked(c)
    /\ blockedSteps' = blockedSteps + 1
    /\ history' = Append(history, ToolMessage(PrimaryId)) \o ShiftMessages
    /\ Emit(<<Event("budget.blocked", step, c, "", 0)>> \o ShiftEvents)
    /\ pc' = "step"
    /\ UNCHANGED <<policy, step, call, spent, cost, flag, progressSteps,
                   observations, rendered, ended, manifest>>

\* ToolDispatcher.dispatch: what the tool behind c may return.
ResultsOf(c) ==
    CASE ToolOf[c] = "malformed"  -> {DispatchRefusal}
      [] ToolOf[c] = "write_file" -> {out \in ToolOutputs :
                                        out.ok /\ out.shows \subseteq CommandText[c]}
      [] OTHER                    -> ToolOutputs

KindOf(c, out) == CASE ToolOf[c] = "malformed" -> "blocked"
                    [] ToolOf[c] # "malformed" /\ out.ok -> "output"
                    [] OTHER -> "error"

CallEvents(c, out) == <<Event("tool.call", step, c, "", 0),
                        Event("tool.result", step, c, KindOf(c, out), 0)>>

\* Mutant: writer.seq read before the result is emitted.
ObservationBeforeEmit(c, out) ==
    [seq |-> Seq_(1), shows |-> out.shows, command |-> CommandText[c],
     bait |-> out.bait, rerun |-> ToolOf[c] = "exec"]

\* What the judge will find of this result.
ObservationOf(c, out) ==
    [seq |-> Seq_(2), shows |-> out.shows, command |-> CommandText[c],
     bait |-> out.bait, rerun |-> ToolOf[c] = "exec"]

\* render_tool_output dedupes on the exact text, so ok plays no part.
TextOf(out) == [out EXCEPT !.ok = TRUE]
NeedsSummary(out) == TextOf(out) \notin rendered /\ out.big

\* Mutant: the dispatcher's refusals are not counted.
RefusedUncounted(c) == 0

\* A call the dispatcher refused is a blocked step.
RefusedByDispatcher(c) == IF ToolOf[c] = "malformed" THEN 1 ELSE 0

\* The command runs: result, observation, rendered message, score, and perhaps
\* a forced shift.
ExecuteCommand(c, out) ==
    /\ pc = "act" /\ call = c
    /\ out \in ResultsOf(c)
    /\ \E u \in Summarized(NeedsSummary(out)) : spent' = spent + u
    /\ Record(c, out)
    /\ observations' = observations \cup {ObservationOf(c, out)}
    /\ rendered' = rendered \cup {TextOf(out)}
    /\ progressSteps' = progressSteps + (IF Progressed(out) THEN 1 ELSE 0)
    /\ blockedSteps' = blockedSteps + RefusedByDispatcher(c)
    /\ history' = Append(history, ToolMessage(PrimaryId)) \o ShiftMessages
    /\ Emit(CallEvents(c, out)
            \o <<Event("progress.scored", step, c,
                       IF Progressed(out) THEN "progress" ELSE "none", 0)>>
            \o ShiftEvents)
    /\ pc' = "step"
    /\ UNCHANGED <<policy, step, call, cost, flag, ended, manifest>>

\* The sandbox raises while the command runs.
ExecuteFails(c) ==
    /\ pc = "act" /\ call = c /\ ~Blocked(c) /\ ToolOf[c] # "malformed"
    /\ Escape(SandboxCode, <<Event("tool.call", step, c, "", 0)>>)
    /\ UNCHANGED <<policy, step, call, spent, cost, flag, progressSteps, blockedSteps,
                   history, observations, rendered, manifest, trackerVars>>

\* The command ran and its output must be summarized, and that call fails for
\* good: the result is in the trace, but neither scored nor shown.
RenderFails(c, out) ==
    /\ pc = "act" /\ call = c /\ ~Blocked(c)
    /\ out \in ResultsOf(c)
    /\ NeedsSummary(out) /\ UtilityCosts # {}
    /\ observations' = observations \cup {ObservationOf(c, out)}
    /\ rendered' = rendered \cup {TextOf(out)}
    /\ \E code \in ProviderCodes : Escape(code, CallEvents(c, out))
    /\ UNCHANGED <<policy, step, call, spent, cost, flag, progressSteps, blockedSteps,
                   history, manifest, trackerVars>>

-----------------------------------------------------------------------------
(* Commands that never return *)

\* Mutant: the sandbox runs the command without `timeout N`.
MayHangUntimed(c) == ToolOf[c] = "exec" /\ c \in Slow

\* DockerSandbox.exec runs its command under `timeout N`, which sends SIGTERM
\* and no SIGKILL after it, and then waits without a deadline of its own.
MayHang(c) == ToolOf[c] = "exec" /\ c \in Deaf

\* The agent's command does not return.
CommandHangs(c) ==
    /\ pc = "act" /\ call = c /\ ~Blocked(c)
    /\ MayHang(c)
    /\ Emit(<<Event("tool.call", step, c, "", 0)>>)
    /\ pc' = "hung"
    /\ UNCHANGED <<policy, step, call, spent, cost, flag, progressSteps, blockedSteps,
                   history, observations, rendered, ended, manifest, trackerVars>>

\* The judge runs an observation's command again, before it writes anything,
\* and that does not return.
RederivationHangs(f, seq) ==
    /\ pc = "act" /\ call = Submit
    /\ \E o \in observations :
        /\ ClearedBy(f, o, observations, seq)
        /\ o.rerun /\ MayHang(trace[o.seq].what)
    /\ pc' = "hung"
    /\ UNCHANGED <<policy, step, call, spent, cost, flag, progressSteps, blockedSteps,
                   history, observations, rendered, trace, ended, manifest,
                   trackerVars>>

-----------------------------------------------------------------------------
(* execute_run: what becomes of the run *)

\* run() returned and the sandbox is gone: close the trace, rewrite run.json.
FinishRun ==
    /\ pc = "returned"
    /\ manifest' = [outcome |-> ended.outcome, code |-> ended.code, flag |-> flag,
                    cost |-> cost, steps |-> step, progress |-> progressSteps,
                    blocked |-> blockedSteps]
    /\ pc' = "done"
    /\ UNCHANGED <<policy, step, call, spent, cost, flag, progressSteps, blockedSteps,
                   history, observations, rendered, trace, ended, trackerVars>>

\* except RunectlError
Caught(code) == code \in {SandboxCode} \cup ProviderCodes

\* A RunectlError reached execute_run: finish_run with everything else at its
\* default.
RecordError ==
    /\ pc = "escaped" /\ Caught(ended.code)
    /\ manifest' = [outcome |-> "error", code |-> ended.code, flag |-> NoSubject,
                    cost |-> 0, steps |-> 0, progress |-> 0, blocked |-> 0]
    /\ pc' = "done"
    /\ UNCHANGED <<policy, step, call, spent, cost, flag, progressSteps, blockedSteps,
                   history, observations, rendered, trace, ended, trackerVars>>

\* The process is killed, or an exception that is no RunectlError leaves it
\* (docker's own errors from sandbox.stop, a broken pipe in the renderer).
Die ==
    /\ pc \notin {"done", "dead"}
    /\ pc' = "dead"
    /\ UNCHANGED <<policy, step, call, spent, cost, flag, progressSteps, blockedSteps,
                   history, observations, rendered, trace, ended, manifest,
                   trackerVars>>

-----------------------------------------------------------------------------

\* The seqs an agent may cite: those it was shown, or one that is nowhere.
Citations == {0} \cup {o.seq : o \in observations}

Setup == SandboxStartFails \/ Begin \/ InputsFail \/ Triage \/ TriageFails

Turn ==
    \/ BeginStep \/ CompactionFails \/ StepsExhausted
    \/ ProviderFails \/ CredentialsRefused
    \/ \E c \in CallCosts :
        \/ CeilingReached(c)
        \/ Nudge(c)
        \/ \E primary \in Commands \cup {Submit}, extras \in 0 .. MaxExtras :
              Propose(c, primary, extras)

Act ==
    \/ \E f \in Flags, seq \in Citations : RejectFlag(f, seq) \/ AcceptFlag(f, seq)
    \/ \E c \in Commands :
        \/ RefuseCommand(c)
        \/ ExecuteFails(c)
        \/ \E out \in ResultsOf(c) : ExecuteCommand(c, out) \/ RenderFails(c, out)

Close == FinishRun \/ RecordError

Hang ==
    \/ \E c \in Commands : CommandHangs(c)
    \/ \E f \in Flags, seq \in Citations : RederivationHangs(f, seq)

Next == Setup \/ Turn \/ Act \/ Close \/ Hang \/ Die

Spec == Init /\ [][Next]_vars

\* The run is one process: while it lives and waits for nothing it goes on.  A
\* command that is not deaf is ended by its timeout; that a call of the Docker
\* daemon or of a provider's SDK returns or raises is assumed of them.  Nothing
\* makes a command hang, and nothing makes the process die.
FairSpec == Spec /\ WF_vars(Setup \/ Turn \/ Act \/ Close)
-----------------------------------------------------------------------------
(* Properties.  They are read off the trace, the only record a user, the     *)
(* judge's reader and `runectl replay` have, against the state beside it.    *)

EventTypes == {"run.started", "challenge.loaded", "triage.result", "llm.request",
               "llm.response", "cost.updated", "tool.call", "tool.result",
               "budget.blocked", "budget.exhausted", "progress.scored",
               "strategy.shift", "flag.candidate", "flag.rederived",
               "flag.decision", "error", "run.finished"}

Subjects == Flags \cup Commands \cup {Submit, NoSubject}
Outcomes == {"none", "solved", "candidate", "exhausted", "error"}
Notes == Outcomes \cup {"", "sandbox", "provider", "blocked", "output", "progress",
                        "errors", "no-progress", "budget", "rejected", "finalized",
                        "pending", "matched", "unmatched", "errored"}
TraceEvent == [type : EventTypes, step : 0 .. MaxSteps, what : Subjects,
               note : Notes, n : Nat]

LoopTypeOK ==
    /\ pc \in {"new", "triage", "step", "llm", "act", "hung", "returned",
               "escaped", "done", "dead"}
    /\ policy \in Policies
    /\ step \in 0 .. MaxSteps
    /\ call \in Commands \cup {Submit, NoSubject}
    /\ spent \in Nat /\ cost \in Nat
    /\ flag \in Flags \cup {NoSubject}
    /\ progressSteps \in Nat /\ blockedSteps \in Nat
    /\ history \in Seq(Message)
    /\ observations \subseteq Observation
    /\ rendered \subseteq ToolOutput
    /\ trace \in Seq(TraceEvent)
    /\ ended \in [outcome : Outcomes, code : Nat]
    /\ manifest \in [outcome : Outcomes, code : Nat, flag : Flags \cup {NoSubject},
                     cost : Nat, steps : Nat, progress : Nat, blocked : Nat]

TypeOK == TrackerTypeOK /\ LoopTypeOK

\* The positions of the events of a type.
EventsOf(type) == {i \in DOMAIN trace : trace[i].type = type}

\* A flag is claimed, or held for a human, only on evidence: its decision
\* follows a candidate citing a tool.result of this trace whose output carried
\* the flag and whose command the agent had not written it into.  `gated`
\* claims it only if the re-derivation recorded just before found it again and
\* the format matches; `strict` never does (D11, D15).
DecidedOnEvidence ==
    \A i \in EventsOf("flag.decision") : trace[i].note # "rejected" =>
        /\ \E j \in {i - 1, i - 2}, o \in observations :
              /\ trace[j].type = "flag.candidate" /\ trace[j].what = trace[i].what
              /\ o.seq = trace[j].n /\ o.seq < j
              /\ trace[o.seq].type = "tool.result"
              /\ EvidentIn(o.shows, trace[i].what)
              /\ ~AuthoredIn(trace[i].what, CommandText[trace[o.seq].what])
        /\ trace[i].note = "finalized" =>
              \/ policy = "auto"
              \/ /\ policy = "gated" /\ FormatOk(trace[i].what)
                 /\ trace[i - 1].type = "flag.rederived"
                 /\ trace[i - 1].note = "matched"

\* The seq the agent is shown beside an output, and cites, is that of the
\* tool.result event of the very command, however many events came between;
\* no two observations share one (writer.seq read after the emit).
ObservationsCitable ==
    \A o \in observations :
        /\ o.seq \in EventsOf("tool.result")
        /\ trace[o.seq].what \in Commands
        /\ o.command = CommandText[trace[o.seq].what]
        /\ \A p \in observations : p.seq = o.seq => p = o

\* run.json and the trace tell the same story.  A run that finished wrote one
\* run.finished, as its last event, and both carry the outcome, the flag that
\* was decided, the last cost.updated and the number of requests sent; a run
\* that broke is an error in run.json and has no run.finished; and run.json
\* says nothing before the trace is complete.
ManifestMatchesTrace ==
    LET costs == EventsOf("cost.updated")
    IN  CASE manifest.outcome = "none" -> pc # "done"
          [] manifest.outcome # "none" /\ EventsOf("run.finished") = {} ->
                pc = "done" /\ manifest.outcome = "error"
          [] OTHER ->
             /\ EventsOf("run.finished") = {Len(trace)}
             /\ trace[Len(trace)].note = manifest.outcome
             /\ trace[Len(trace)].what = manifest.flag
             /\ \E i \in costs \cup {0} :
                   /\ \A j \in costs : j <= i
                   /\ manifest.cost = IF i = 0 THEN 0 ELSE trace[i].n
             /\ manifest.steps = Cardinality(EventsOf("llm.request"))
             /\ manifest.outcome \in {"solved", "candidate"} <=>
                   \E i \in EventsOf("flag.decision") :
                      trace[i].note # "rejected" /\ trace[i].what = manifest.flag

\* The two counters the run is judged by are those of its trace: every step
\* scored as progress, and every call refused by a budget, by the one-call rule
\* or by the dispatcher, wherever in the step it was refused.
CountersMatchTrace ==
    pc \in {"step", "llm", "act", "returned"} =>
        /\ progressSteps = Cardinality({i \in EventsOf("progress.scored") :
                                          trace[i].note = "progress"})
        /\ blockedSteps = Cardinality(EventsOf("budget.blocked")
                \cup {i \in EventsOf("tool.result") : trace[i].note = "blocked"})

\* Once a cost.updated event shows the ceiling reached, the run does nothing
\* more: no further request, command, judging or shift, only its two last
\* events (D19).
NothingPastCeiling ==
    \A i \in EventsOf("cost.updated") :
        MaxCost > 0 /\ trace[i].n >= MaxCost =>
            \A j \in i + 1 .. Len(trace) :
                trace[j].type \in {"budget.exhausted", "run.finished"}

\* How far a run can overshoot --max-cost: by one completion and the two
\* summaries, of an output and of the history, that nothing checks before it
\* (docs/ARCHITECTURE.md has the run stop before the next paid call).
OvershootBounded ==
    MaxCost > 0 => spent < MaxCost + MaxCallCost + 2 * MaxUtilityCost

\* Every request is one a provider accepts: each call of an assistant turn is
\* answered exactly once, right after it, in whatever mix of refused extras,
\* budget refusals, rejected flags, outputs and shifts, compacted or not.
RequestsWellPaired == pc = "llm" => WellPaired(history)

\* Compaction keeps its word: no request carries more than max_messages
\* (compact_history's docstring), shifts and extras included.
RequestsWithinBudget ==
    pc = "llm" => Len(history) <= MaxMessages

\* No idea is paid for past its budget: of one hypothesis, and of one tactic
\* family, the trace never holds more executions without progress since its
\* last progress than the category allows (D8 mechanism 4).
Scored(of, note) == {i \in EventsOf("progress.scored") :
                        trace[i].note = note /\ of[trace[i].what]}
MissesSinceProgress(of) ==
    Cardinality({i \in Scored(of, "none") : \A j \in Scored(of, "progress") : j < i})
WasteBoundedInTrace ==
    /\ \A h \in Hypotheses :
         MissesSinceProgress([c \in Commands |-> KeyOf[c] = h]) <= PerHypothesis
    /\ \A f \in Families :
         MissesSinceProgress([c \in Commands |-> FamilyOf[c] = f]) <= PerFamily

\* The agent is redirected in time: whenever a new step begins, fewer steps
\* than the category allows were refused or scored without progress since the
\* last progress or strategy.shift in the trace (D8 mechanism 3).
RedirectedInTime ==
    LET resets == EventsOf("strategy.shift")
                    \cup {i \in EventsOf("progress.scored") : trace[i].note = "progress"}
        wasted == EventsOf("budget.blocked")
                    \cup {i \in EventsOf("progress.scored") : trace[i].note = "none"}
    IN  pc = "step" =>
          Cardinality({i \in wasted : \A j \in resets : j < i}) < NoProgressShift

\* What of this a user sees: RunContract's state.
Phase == CASE pc \in {"new", "triage", "step", "llm", "act", "hung"} -> "working"
           [] pc = "returned" -> "concluded"
           [] pc = "escaped"  -> "broken"
           [] pc = "done"     -> "published"
           [] OTHER           -> "lost"

Contract == INSTANCE RunContract WITH
    NoFlag    <- NoSubject,
    phase     <- Phase,
    evidenced <- {f \in Flags : Supporting(f, observations) # {}},
    bill      <- cost,
    result    <- [outcome |-> ended.outcome, flag |-> flag],
    record    <- [outcome |-> manifest.outcome, flag |-> manifest.flag,
                  cost |-> manifest.cost]

\* The run keeps its contract: whatever the agent submits, the sandbox returns
\* and the provider does, the answer has evidence behind it, nothing changes it
\* once the run has concluded, and run.json is exactly that answer.
KeepsContract == Contract!Spec

\* The commands a run that acts may be waiting for: the agent's, or the ones
\* the judge may run again.
Awaited == IF call = Submit THEN {trace[o.seq].what : o \in {p \in observations : p.rerun}}
                            ELSE {call}

\* A run ends, whatever the model and the sandbox answer: as a finished or
\* failed run, unless its process dies first, with one exception: it waits for
\* good, and then for a command that ignores the SIGTERM of its timeout.
RunEnds == <>(\/ pc \in {"done", "dead"}
              \/ pc = "hung" /\ Awaited \cap Deaf # {})

\* docs/CLI.md on cost.updated: it fires after every call, the summaries'
\* included, and its final figure lands in run.json.  Refuted: a summary after
\* the last completion, and everything a broken run paid for, is not in it.
FinalFigureRecorded == pc = "done" => manifest.cost = spent

\* docs/ARCHITECTURE.md: run.finished is always the last event.  Refuted by a
\* run that ends on a RunectlError.
RunFinishedIsLast == pc = "done" => Len(trace) \in EventsOf("run.finished")
=============================================================================
