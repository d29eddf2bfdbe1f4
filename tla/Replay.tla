-------------------------------- MODULE Replay --------------------------------
(***************************************************************************)
(* A run recorded with --record and its `runectl replay --check`: the      *)
(* cassette of providers/replay.py, the positional queue of                *)
(* sandbox/replay.py, and replay_command.  Both are runs of the same       *)
(* Runner, so its step is written once; the replay is given completions by *)
(* the hash of its request and results by their position in the trace.     *)
(*                                                                         *)
(* The Runner here keeps what decides its requests: the messages and their *)
(* seq numbers, the outputs already shown, the evidence, and one counter   *)
(* for the budgets, which are functions of the commands and their outputs. *)
(***************************************************************************)
EXTENDS WireFormats, Compaction

CONSTANTS Texts,        \* all texts an output may be, as run, redacted or read back
          Outputs,      \* those a command may print
          Findings,     \* those triage may come back with
          NoText, Refusal, Written,  \* no text, the dispatcher's texts
          FlagTexts,    \* texts that show the flag
          LongTexts,    \* still over the limit when extracted
          Redacted,     \* [Texts -> Texts], _redact_str
          SpilledTexts, \* over the spill threshold
          ReadBack,     \* [Texts -> Texts], newlines as read_text leaves them
          Responses,    \* what a model may answer, as sequences of parts
          Configs,      \* the run: its model, --thinking, --approval, --max-steps
          MaxSteps,     \* the category's step limit
          MaxLimit,     \* bound: the largest --max-steps, which may exceed it
          MaxMessages,
          Budget        \* repeated outputs before a command is refused

Config == [model : ThinkingModel, thinking : ThinkingLevel,
           policy : {"gated", "strict", "auto"}, limit : 1 .. MaxLimit]

ASSUME ReplayAssumption ==
    /\ Outputs \cup Findings \cup {NoText, Refusal, Written} \cup FlagTexts \cup LongTexts
          \cup SpilledTexts \subseteq Texts
    /\ Redacted \in [Texts -> Texts] /\ ReadBack \in [Texts -> Texts]
    /\ Responses \subseteq Seq(Part)
    /\ MaxSteps \in Nat \ {0} /\ MaxLimit \in Nat /\ MaxSteps <= MaxLimit
    /\ MaxMessages \in Nat \ {0} /\ Budget \in Nat \ {0}
    /\ Configs \subseteq Config
    /\ \A c \in Configs : c.model.provider = "google" => Rank(c.model.ceiling) <= Rank("high")
    /\ \A c \in Configs : c.model.supports => c.model.ceiling # "off"

\* A call names its tool, and the dispatcher's own texts are short.
ASSUME ToolAssumption ==
    /\ \A response \in Responses : \A i \in DOMAIN response :
          response[i].kind = "call" => response[i].tool # ""
    /\ {Refusal, Written} \cap LongTexts = {}

VARIABLES config,    \* manifest.config_snapshot, and the model
          phase,     \* "recording", "replaying" or "done"
          run,       \* the Runner at work
          trace,     \* the events of its trace that a replay reads
          asked,     \* the requests it was given a completion for
          execs,     \* the results it was given
          cassette,  \* cassette.jsonl
          legible,   \* each line of it, as str.splitlines finds them, is an entry
          original,  \* history: how the recording ended
          heard,     \* history: the responses of the recording
          causes,    \* history: why a replay might not be the same run
          exit       \* of replay_command

vars == <<config, phase, run, trace, asked, execs, cassette, legible, original, heard,
          causes, exit>>

-----------------------------------------------------------------------------
(* The trace *)

\* redaction, then the spill, which is read back in text mode.
TraceText(t) ==
    IF Redacted[t] \in SpilledTexts THEN ReadBack[Redacted[t]] ELSE Redacted[t]

Event(type, call, text) == [type |-> type, call |-> call, text |-> text]
NoCall == Plain("call")

\* Mutant: the judge's own command is not in the queue.
QueuedCallsOnly(e) == e.type = "tool.result" /\ e.call.tool = "run_command"

\* exec_results_from_trace: results of exec-backed tools, and re-derivations.
Queued(e) ==
    \/ e.type = "tool.result" /\ e.call.tool = "run_command"
    \/ e.type = "flag.rederived"

ExecResults(events) ==
    LET queue == Picked(events, {i \in DOMAIN events : Queued(events[i])})
    IN  [i \in DOMAIN queue |-> queue[i].text]

\* _tool_call_sequence
ToolCalls(events) ==
    Picked(events, {i \in DOMAIN events : events[i].type = "tool.call"})

-----------------------------------------------------------------------------
(* The Runner.  how: "summary" with the utility model, "extract" without. *)

\* text: what the message says, of which output, at which seq or step.
Msg(role, says, note, t, n) ==
    [role |-> role, says |-> says, text |-> <<note, t, n>>]
Said(note, t) == Msg("user", NoCompletion, note, t, 0)
Answer(call, note, t, n) == Msg("tool", Completion(<<call>>), note, t, n)

\* run.started, challenge.loaded and triage.result are written.
NewRun(findings) ==
    [pc |-> "request", step |-> 0, seq |-> 3, history |-> <<Said("findings", findings)>>,
     seen |-> {}, observed |-> {}, stale |-> 0, outcome |-> "none"]

\* maybe_compact: what is cut off is summarised by how.
Compacted(how, h) ==
    IF ~Compactable(h, MaxMessages) THEN h
    ELSE LET split == CHOOSE i \in SplitPoints(h, MaxMessages) :
                        \A j \in SplitPoints(h, MaxMessages) : i <= j
         IN  <<Msg("user", NoCompletion, how, NoText, split)>> \o SubSeq(h, split + 1, Len(h))

\* llm.request
Request(r, how) ==
    [r EXCEPT !.step = @ + 1, !.seq = @ + 1, !.history = Compacted(how, @)]

\* What is asked; the system prompt, the tools and max_tokens are the run's.
Asking(r) == [messages |-> r.history, thinking |-> Resolved(config.model, config.thinking)]

\* Mutant: the hash leaves the messages out.
KeyOfTools(request) == [request EXCEPT !.messages = <<>>]

\* request_hash, taken to be injective: it covers all of the request.
Key(request) == request

\* cost.updated, llm.thinking if there is any, llm.response
Heard(r, said) ==
    [r EXCEPT !.pc = "act",
              !.seq = @ + (IF said.blocks = <<>> THEN 2 ELSE 3),
              !.history = Append(@, Msg("assistant", said, "turn", NoText, 0))]

Calls(r) == r.history[Len(r.history)].says.calls
Primary(r) == Calls(r)[1]
Extras(r) == Tail(Calls(r))

\* The judge has a source for the flag: the cited observation shows it.
HasSource(r) == \E o \in r.observed : o.seq = Primary(r).cite /\ o.text \in FlagTexts

\* What the loop does with the completion.
Act(r) ==
    CASE Calls(r) = <<>> -> "nudge"
      [] Calls(r) # <<>> /\ Primary(r).tool = "submit_flag" ->
            IF HasSource(r) THEN "judge" ELSE "reject"
      [] OTHER ->
            IF r.stale >= Budget THEN "over_budget"
            ELSE IF ~Primary(r).ok THEN "refuse"
            ELSE IF Primary(r).tool = "write_file" THEN "write" ELSE "exec"

\* The text of the tool's result, given what the sandbox answered.
ResultText(r, t) ==
    CASE Act(r) = "refuse" -> Refusal
      [] Act(r) = "write" -> Written
      [] OTHER -> t

ExtraEvents(r) ==
    [i \in DOMAIN Extras(r) |-> Event("tool.result", Extras(r)[i], Refusal)]

\* Mutant: an extra call is refused without a message.
ExtraUnanswered(r) == <<>>

ExtraAnswers(r) ==
    [i \in DOMAIN Extras(r) |-> Answer(Extras(r)[i], "blocked", NoText, 0)]

ActEvents(r, t) ==
    LET call == Primary(r)
        of(type) == Event(type, call, NoText)
    IN  CASE Act(r) = "nudge" -> <<>>
          [] Act(r) = "reject" -> ExtraEvents(r) \o <<of("flag.candidate"), of("flag.decision")>>
          [] Act(r) = "judge" ->
                ExtraEvents(r) \o <<of("flag.candidate"), Event("flag.rederived", call, TraceText(t)),
                                    of("flag.decision")>>
          [] Act(r) = "over_budget" -> ExtraEvents(r) \o <<of("budget.blocked")>>
          [] OTHER -> ExtraEvents(r) \o
                <<of("tool.call"), Event("tool.result", call, TraceText(ResultText(r, t))),
                  of("progress.scored")>>

\* render_tool_output: shown, summarised, or a note of the step it was shown at.
Rendered(r, t, how, n) ==
    IF \E s \in r.seen : s.text = t
    THEN Answer(Primary(r), "identical", NoText,
                n * (MaxLimit + 1) + (CHOOSE s \in r.seen : s.text = t).step)
    ELSE Answer(Primary(r), IF t \in LongTexts THEN how ELSE "shown", t, n)

\* Mutant: the judge's word is taken for the run's outcome.
DecisionOfJudge(rederived) ==
    IF config.policy = "auto" \/ rederived THEN "finalized" ELSE "pending"

\* _apply_policy on a flag with a source, as the outcome of the run.
Decision(rederived) ==
    CASE config.policy = "auto" -> "solved"
      [] config.policy = "strict" -> "candidate"
      [] OTHER -> IF rederived THEN "solved" ELSE "candidate"

\* The Runner after it acted on its completion; t is what the sandbox answered.
Acted(r, t, how) ==
    LET after == [r EXCEPT !.pc = "request", !.seq = @ + Len(ActEvents(r, t)),
                           !.history = @ \o ExtraAnswers(r)]
        say(message) == [after EXCEPT !.history = Append(@, message)]
        text == ResultText(r, t)
        n == r.seq + Len(Extras(r)) + 2
    IN  CASE Act(r) = "nudge" -> [r EXCEPT !.pc = "request", !.history = Append(@, Said("nudge", NoText))]
          [] Act(r) = "reject" -> say(Answer(Primary(r), "rejected", NoText, 0))
          [] Act(r) = "judge" -> [after EXCEPT !.pc = "ended", !.outcome = Decision(t \in FlagTexts)]
          [] Act(r) = "over_budget" -> [say(Answer(Primary(r), "over_budget", NoText, 0)) EXCEPT !.stale = @ + 1]
          [] OTHER ->
                [say(Rendered(r, text, how, n)) EXCEPT
                    !.observed = @ \cup {[seq |-> n, text |-> text]},
                    !.stale = IF \E s \in r.seen : s.text = text THEN @ + 1 ELSE 0,
                    !.seen = IF \E s \in @ : s.text = text THEN @
                             ELSE @ \cup {[text |-> text, step |-> r.step]}]

Ended(r, outcome) == [r EXCEPT !.pc = "ended", !.outcome = outcome]

-----------------------------------------------------------------------------
(* The recording *)

NotRecorded == [trace |-> <<>>, outcome |-> "none", asked |-> <<>>, execs |-> <<>>,
                history |-> <<>>]

Init ==
    /\ config \in Configs
    /\ phase = "recording"
    /\ \E findings \in Findings :
          /\ run = NewRun(findings)
          /\ trace = <<Event("triage.result", NoCall, TraceText(findings))>>
          /\ causes = IF TraceText(findings) = findings THEN {} ELSE {"altered"}
    /\ asked = <<>> /\ execs = <<>> /\ cassette = <<>> /\ heard = <<>>
    /\ legible = TRUE /\ original = NotRecorded /\ exit = "running"

\* RecordingProvider: a line for each completion, the utility model's too.
Entry(key, said) == [key |-> key, response |-> said]
SummaryEntry(r) ==
    Entry(Key([messages |-> <<Said("summarize", NoText)>>, thinking |-> "off"]), NoCompletion)

Summaries(before, r) ==
    IF before.history = r.history THEN <<>> ELSE <<SummaryEntry(r)>>

\* The next completion, of a model that may cite any observation.  An entry is
\* written with its characters as they are, and read back with str.splitlines,
\* which ends a line at some of them: U+0085, U+2028, U+2029.
RecordAsk ==
    LET r == Request(run, "summary") IN
    /\ phase = "recording" /\ run.pc = "request" /\ run.step < config.limit
    /\ \E response \in Responses, cite \in {0} \cup {o.seq : o \in run.observed} :
          LET parts == Delivered(config.model.provider, response, r.step, cite) IN
          /\ run' = Heard(r, Completion(parts))
          /\ asked' = Append(asked, Asking(r))
          /\ heard' = Append(heard, parts)
          /\ cassette' = cassette \o Summaries(run, r) \o <<Entry(Key(Asking(r)), Completion(parts))>>
    /\ legible' \in {legible, FALSE}
    /\ causes' = causes
          \cup (IF Compactable(run.history, MaxMessages) THEN {"summary"} ELSE {})
          \cup (IF run.step >= MaxSteps THEN {"long"} ELSE {})
    /\ UNCHANGED <<config, phase, trace, execs, original, exit>>

\* A result recorded for a call that did not reach exec.
RefusedBacked(r) ==
    \/ \E i \in DOMAIN Extras(r) : Extras(r)[i].tool = "run_command"
    \/ Act(r) = "refuse" /\ Primary(r).tool = "run_command"

\* What exec may answer; the judge's may also raise, which is recorded.
Answers_(r) ==
    CASE Act(r) = "exec" -> Outputs
      [] Act(r) = "judge" -> Outputs \cup {NoText}
      [] OTHER -> {NoText}

UsesSandbox(r) == Act(r) \in {"exec", "judge"}

RecordAct ==
    /\ phase = "recording" /\ run.pc = "act"
    /\ \E t \in Answers_(run) :
          LET text == ResultText(run, t)
              paid == Act(run) = "exec" /\ t \in LongTexts
                      /\ ~\E s \in run.seen : s.text = t
          IN  /\ run' = Acted(run, t, "summary")
              /\ trace' = trace \o ActEvents(run, t)
              /\ execs' = IF UsesSandbox(run) THEN Append(execs, t) ELSE execs
              /\ cassette' = IF paid THEN Append(cassette, SummaryEntry(run)) ELSE cassette
              /\ legible' \in {legible, legible /\ ~paid}
              /\ causes' = causes
                    \cup (IF paid THEN {"summary"} ELSE {})
                    \cup (IF TraceText(t) # t THEN {"altered"} ELSE {})
                    \cup (IF Calls(run) # <<>> /\ RefusedBacked(run) THEN {"refused"} ELSE {})
    /\ UNCHANGED <<config, phase, asked, original, heard, exit>>

RecordExhausted ==
    /\ phase = "recording" /\ run.pc = "request" /\ run.step = config.limit
    /\ run' = Ended(run, "exhausted")
    /\ causes' = causes \cup (IF config.limit < MaxSteps THEN {"cut"} ELSE {})
    /\ UNCHANGED <<config, phase, trace, asked, execs, cassette, legible, original, heard, exit>>

\* The spend ceiling, met after a completion that was recorded.
RecordCeiling ==
    /\ phase = "recording" /\ run.pc = "act"
    /\ run' = Ended(run, "exhausted")
    /\ causes' = causes \cup {"cut"}
    /\ UNCHANGED <<config, phase, trace, asked, execs, cassette, legible, original, heard, exit>>

\* A provider error, or a sandbox error in the tool after its tool.call.
RecordFails ==
    /\ phase = "recording"
    /\ \/ /\ run.pc = "request" /\ run.step < config.limit
          /\ causes' = causes \cup {"cut"}
          /\ UNCHANGED trace
       \/ /\ run.pc = "act" /\ Act(run) \in {"exec", "write"}
          /\ trace' = trace \o ExtraEvents(run) \o <<Event("tool.call", Primary(run), NoText)>>
          /\ causes' = causes \cup {"cut"} \cup (IF RefusedBacked(run) THEN {"refused"} ELSE {})
    /\ run' = Ended(run, "error")
    /\ UNCHANGED <<config, phase, asked, execs, cassette, legible, original, heard, exit>>

\* The process dies, after run.finished too: run.json has no outcome.  It may
\* have been writing a line of the cassette.
RecordDies ==
    /\ phase = "recording"
    /\ run' = Ended(run, "none")
    /\ causes' = causes \cup {"cut"}
    /\ run' # run
    /\ legible' \in {legible, FALSE}
    /\ UNCHANGED <<config, phase, trace, asked, execs, cassette, original, heard, exit>>

-----------------------------------------------------------------------------
(* The replay *)

Stop(code) == phase' = "done" /\ exit' = code

\* No completion was recorded: no cassette.
RefuseReplay ==
    /\ phase = "recording" /\ run.pc = "ended" /\ cassette = <<>> /\ legible
    /\ Stop("refused")
    /\ UNCHANGED <<config, run, trace, asked, execs, cassette, legible, original, heard, causes>>

\* How the recording ended.
Recorded == [trace |-> trace, outcome |-> run.outcome, asked |-> asked,
             execs |-> execs, history |-> run.history]

\* ReplayProvider's constructor raises at a line that is not an entry.
CassetteUnreadable ==
    /\ phase = "recording" /\ run.pc = "ended" /\ ~legible
    /\ Stop("raised")
    /\ original' = Recorded
    /\ asked' = <<>> /\ execs' = <<>>
    /\ UNCHANGED <<config, run, trace, cassette, legible, heard, causes>>

\* Mutant: triage is run again, in a sandbox that runs nothing.
StartReplayTriaging ==
    /\ phase = "recording" /\ run.pc = "ended" /\ cassette # <<>> /\ legible
    /\ phase' = "replaying"
    /\ original' = Recorded
    /\ run' = NewRun(NoText)
    /\ trace' = <<Event("triage.result", NoCall, NoText)>>
    /\ asked' = <<>> /\ execs' = <<>>
    /\ UNCHANGED <<config, cassette, legible, heard, causes, exit>>

\* The findings are the recorded ones, the policy and --thinking the snapshot's;
\* the step limit is the category's.
StartReplay ==
    /\ phase = "recording" /\ run.pc = "ended" /\ cassette # <<>> /\ legible
    /\ phase' = "replaying"
    /\ original' = Recorded
    /\ run' = NewRun(trace[1].text)
    /\ trace' = <<Event("triage.result", NoCall, TraceText(trace[1].text))>>
    /\ asked' = <<>> /\ execs' = <<>>
    /\ UNCHANGED <<config, cassette, legible, heard, causes, exit>>

\* ReplayProvider: the recorded completions of the hash in their order, then
\* the last one again.
Served(request) ==
    LET candidates == Picked(cassette, {i \in DOMAIN cassette : cassette[i].key = Key(request)})
        before == Cardinality({i \in DOMAIN asked : Key(asked[i]) = Key(request)})
        index == IF before + 1 < Len(candidates) THEN before + 1 ELSE Len(candidates)
    IN  IF candidates = <<>> THEN <<>> ELSE <<candidates[index].response>>

\* The next step, and a completion for it.
ReplayAsk ==
    LET r == Request(run, "extract") IN
    /\ phase = "replaying" /\ run.pc = "request" /\ run.step < MaxSteps
    /\ Served(Asking(r)) # <<>>
    /\ run' = Heard(r, Served(Asking(r))[1])
    /\ asked' = Append(asked, Asking(r))
    /\ UNCHANGED <<config, phase, trace, execs, cassette, legible, original, heard, causes, exit>>

\* KeyError, which nothing catches: the replay's own run.json has no outcome.
ReplayUnknown ==
    LET r == Request(run, "extract") IN
    /\ phase = "replaying" /\ run.pc = "request" /\ run.step < MaxSteps
    /\ Served(Asking(r)) = <<>>
    /\ run' = r
    /\ Stop("raised")
    /\ UNCHANGED <<config, trace, asked, execs, cassette, legible, original, heard, causes>>

Queue == ExecResults(original.trace)

ReplayAct ==
    /\ phase = "replaying" /\ run.pc = "act"
    /\ UsesSandbox(run) => Len(execs) < Len(Queue)
    /\ LET t == IF UsesSandbox(run) THEN Queue[Len(execs) + 1] ELSE NoText
       IN  /\ run' = Acted(run, t, "extract")
           /\ trace' = trace \o ActEvents(run, t)
           /\ execs' = IF UsesSandbox(run) THEN Append(execs, t) ELSE execs
    /\ UNCHANGED <<config, phase, asked, cassette, legible, original, heard, causes, exit>>

\* Past the end of the queue SandboxError is raised: the judge takes it for a
\* failed re-derivation, a tool call does not.
ReplayPastEnd ==
    /\ phase = "replaying" /\ run.pc = "act" /\ UsesSandbox(run)
    /\ Len(execs) >= Len(Queue)
    /\ IF Act(run) = "judge"
       THEN /\ run' = Acted(run, NoText, "extract")
            /\ trace' = trace \o ActEvents(run, NoText)
            /\ UNCHANGED <<phase, exit>>
       ELSE /\ trace' = trace \o ExtraEvents(run) \o <<Event("tool.call", Primary(run), NoText)>>
            /\ Stop("raised")
            /\ UNCHANGED run
    /\ UNCHANGED <<config, asked, execs, cassette, legible, original, heard, causes>>

ReplayExhausted ==
    /\ phase = "replaying" /\ run.pc = "request" /\ run.step = MaxSteps
    /\ run' = Ended(run, "exhausted")
    /\ UNCHANGED <<config, phase, trace, asked, execs, cassette, legible, original, heard, causes, exit>>

\* --check: the tool calls, then the outcome of the recording's manifest.
Check ==
    /\ phase = "replaying" /\ run.pc = "ended"
    /\ Stop(IF /\ ToolCalls(trace) = ToolCalls(original.trace)
               /\ run.outcome = original.outcome
            THEN "ok" ELSE "mismatch")
    /\ UNCHANGED <<config, run, trace, asked, execs, cassette, legible, original, heard, causes>>

Next ==
    \/ RecordAsk \/ RecordAct \/ RecordExhausted \/ RecordCeiling \/ RecordFails \/ RecordDies
    \/ RefuseReplay \/ CassetteUnreadable \/ StartReplay
    \/ ReplayAsk \/ ReplayUnknown \/ ReplayAct \/ ReplayPastEnd \/ ReplayExhausted \/ Check

Spec == Init /\ [][Next]_vars

-----------------------------------------------------------------------------
(* Properties *)

\* Types, bounds of the steps and of the served results.
TypeOK ==
    /\ config \in Configs /\ phase \in {"recording", "replaying", "done"}
    /\ run.pc \in {"request", "act", "ended"} /\ run.step \in 0 .. MaxLimit
    /\ run.outcome \in {"none", "solved", "candidate", "exhausted", "error"}
    /\ run.stale \in 0 .. MaxLimit
    /\ \A o \in run.observed : o.seq < run.seq /\ o.text \in Texts
    /\ Len(asked) <= run.step /\ Len(execs) <= run.step
    /\ causes \subseteq {"altered", "summary", "refused", "cut", "long"} /\ legible \in BOOLEAN
    /\ exit \in {"running", "refused", "raised", "mismatch", "ok"}

\* The purpose of a cassette: the replay is the recorded run again, message by
\* message and event by event, and --check says so.  Only six things may keep
\* it from that: a text the trace does not give back as it was, a summary the
\* utility model wrote, a result of a call that never ran, a recording that was
\* cut short (--max-steps, --max-cost, an error, a kill), one of more steps than
\* its category has (--max-steps again), and a cassette that cannot be read.
ReplayReproduces ==
    phase = "done" /\ causes = {} /\ legible =>
        /\ exit = "ok"
        /\ run.history = original.history /\ trace = original.trace
        /\ asked = original.asked

\* The positional queue: as long as no refused call was recorded, each exec of
\* the replay, the judge's included, is given what the same exec was given, and
\* a replay that reaches its end has made every exec of a recording that was
\* neither cut short nor longer than its category allows.
QueueAligned ==
    phase # "recording" /\ "refused" \notin causes =>
        /\ \A i \in DOMAIN execs :
              i <= Len(original.execs) /\ execs[i] = TraceText(original.execs[i])
        /\ exit \in {"ok", "mismatch"} /\ {"cut", "long"} \cap causes = {} =>
              Len(execs) = Len(original.execs)

\* Up to where it breaks, even a replay that differs asks what was asked: no
\* completion is served to a request the recording did not make at that point.
\* And one that --check passes, which compares calls and outcomes only, has made
\* every request of a recording within its category's limit: each result was the
\* one the model had seen when it decided.
AskedAsRecorded ==
    /\ phase # "recording" =>
           \A i \in DOMAIN asked : i <= Len(original.asked) /\ asked[i] = original.asked[i]
    /\ exit = "ok" /\ "long" \notin causes => asked = original.asked

\* Whatever --thinking says, the level a run records tells whether its model
\* thinks, and both its own requests and those for summaries, which pass "off"
\* down unresolved, ask for what the model accepts.
ThinkingHonest ==
    LET m == config.model IN
    \A requested \in ThinkingLevel :
        LET level == Resolved(m, requested) IN
        /\ level = "off" <=> ~Thinks(m, Effort(m, level))
        /\ Accepts(m, Effort(m, level)) /\ Accepts(m, Effort(m, "off"))
        /\ Rank(level) <= Rank(requested) \/ level = "low"

\* The assistant turns of a request give back the calls of the responses they
\* were and the thoughts that came in the clear, signatures included, none of the
\* redacted ones, and the thoughts come first: after compaction too, and in a
\* replay, whose turns were read from the cassette.
TurnsReturned ==
    LET p == config.model.provider
        turns == WireTurns(p, run.history)
        IsTurn(i) == run.history[i].role = "assistant"
        later(i) == Cardinality({j \in i + 1 .. Len(turns) : IsTurn(j)})
    IN  run.pc = "act" =>
            \A i \in DOMAIN turns : IsTurn(i) =>
                LET response == heard[run.step - later(i)] IN
                /\ OfKind(turns[i], "call") = OfKind(response, "call")
                /\ OfKind(turns[i], "thought") = OfKind(response, "thought")
                /\ OfKind(turns[i], "redacted") = <<>>
                /\ \A k \in DOMAIN turns[i] : turns[i][k].kind = "thought" =>
                      \A l \in 1 .. k - 1 : turns[i][l].kind = "thought"

\* Whatever the adapter, a request's tool calls are each answered right after
\* the turn that made them, refused calls included, and nothing else is.
RequestsAnswered ==
    run.pc = "request" =>
        CallsAnswered(config.model.provider,
                      WireTurns(config.model.provider, Compacted("summary", run.history)))
=============================================================================
