# runectl, modelled in TLA+

runectl is a command-line agent for capture-the-flag challenges. A language model
proposes tool calls, a Docker sandbox runs them, and a *judge* decides whether a flag
the model submits is evidence or a guess. Everything a run does goes to an append-only
trace, and a small manifest, `run.json`, sums it up.

This directory models that program. Paths below are relative to `src/src/runectl/`
unless they begin with `docs/`.

- [Inventory](#inventory): the parts of the system, and what makes each correct
- [Modules](#modules): which module models what, and how its state maps to the code
- [Runs](#runs): what TLC checks, on which instances, and what that shows
- [Findings](#findings): where the code and its documents disagree
- [Proofs](#proofs): what holds for every value of the constants, and why
- [Limits](#limits), [Not modelled](#not-modelled) and [Plan](#plan)

## Inventory

How a run flows: `cli/run_cmd.execute_run` resolves keys and models, opens a run in the
*store*, starts the *sandbox* in a session, and calls `loop/runner.Runner.run`. The loop
asks the *provider* for a completion, checks the *ledger* against the spend ceiling, and
acts on the first tool call: a flag goes to the *judge*; a command goes past the
*tracker*'s budgets to the *dispatcher*, its result to the *trace*, to the judge's list
of observations, to the *context* (which shortens it) and back to the tracker, which
scores it and may force a change of strategy. The loop is one thread; what is concurrent
is the world around it: the sandbox and the providers fail or answer anything, a command
may not return at all, the process may be killed anywhere, and other processes (`flag approve`, `replay`, the TUI,
a second approval) read and write the same run directory.

| Component | State it keeps | Operations | What is hard, what makes it correct |
|---|---|---|---|
| Run loop (`loop/runner.py`, `loop/state.py`) | step, cost, flag, counters, history, observations | `run`, `_handle_submit_flag`, `_finish` | A dozen ways to leave a step, each with its own events and messages. Correct when the trace, the state and `run.json` tell one story, every request is well formed, and it ends. |
| Progress tracker (`progress/`) | misses per hypothesis and family, fingerprints, two streaks | `check_budget`, `record`, `note_blocked`, `due_shift` | Long sequences of commands whose keys cross. No idea paid past its budget, no late shift, only new output clears. |
| Flag judge (`flags/`) | none; reads the observations | `judge` | Telling a discovery from an echo over several steps. A flag is claimed only on evidence the agent did not write. |
| Context (`loop/context.py`) | digests already shown | `render_tool_output`, `maybe_compact` | Where a history may be cut; paying for summaries nobody checks. |
| Triage (`loop/triage.py`) | none | `triage` | Fails with the sandbox. |
| Dispatcher (`tools/`) | none | `dispatch` | Refuses malformed calls before the sandbox. |
| Ledger and ceiling (`providers/cost.py`) | entries and their total | `record` | One comparison per step on a total that two more callers add to. |
| Retry (`providers/base.py`) | attempt | `complete_with_retry` | Backoff, capped delays; recorded once, in the ledger, per completion. |
| Execution (`cli/run_cmd.py`) | none | `execute_run`, `finish` | The run may break anywhere: what the record then says. |
| Trace and store (`trace/`) | trace.jsonl, run.json, artifacts, seq | `emit`, `new_run`, `finish_run`, `approve_flag`, reader | Kills inside a write, torn lines, several writers. A reader sees a valid prefix; the manifest is whole. |
| Flag approval (`cli/flag_cmd.py`) | none | `list`, `approve` | Read-then-write on two files, beside a run or another approval. |
| Replay (`cli/app.py`, `sandbox/replay.py`, `providers/replay.py`) | a cassette with an index per request hash, a queue of results with a cursor | `complete`, `exec`, `replay --check` | One message that differs and the hash is another; one result too many and the rest are shifted. A replay repeats the run. |
| Docker sandbox (`sandbox/docker.py`) | the container | `start`, `exec`, `put_inputs`, `stop` | Creates, starts and checks, and fails between any two; stale namesakes; a command that outlasts its timeout. Which containers outlive their run is known. |
| Bench (`bench/suite.py`, `cli/bench_cmd.py`) | money spent, results | `run`, `score` | A budget shared by runs, one of which may break; which errors end a case and which the suite. |
| Registry (`providers/registry.py`) | tables | `resolve`, `cheapest_model_for`, `resolve_thinking_level` | A clamp down to what a model has, and up from an off it lacks. |
| Adapters (`providers/anthropic.py`, `openai.py`, `google.py`) | none | `complete` | Three vocabularies: parts, ids, signatures, token counts, errors. What goes back is what came, but for redacted thoughts. |
| Arena (`sandbox/arena_build.py`) | images | `inspect`, `build`, `load` | Whether an image is there, stale, or foreign, before a run exists. |
| Keys, configuration (`providers/keys.py`, `user_config.py`) | keyring, a JSON and a TOML file | `resolve_key`, precedence, read-modify-write | A file read while another process writes it. |
| Index (`trace/index.py`) | rows in SQLite | `rebuild` | Reads two files that are being written. |
| TUI (`cli/tui/`) | the view of a run: events shown, the flags listed and whose they are | launch, events through a pipe, select, approve | A view half from the pipe and half from disk, and one list for all runs. |
| Rendering, listings | none | | Output only. |

`PROJECT.json` lists each component with its status, and each hazard at its line.

## Modules

| Module | Models | Built on |
|---|---|---|
| `ProgressTracker` | `progress/tracker.py`, `budgets.py`, `signal.py` | |
| `FlagJudge` | `flags/judge.py`, `decoys.py`, `plausibility.py` | |
| `Compaction` | `loop/context.compact_history` and messages | |
| `RunLoop` | `loop/runner.py` inside `cli/run_cmd.execute_run` | the three above |
| `RunRecord` | `trace/writer.py`, `reader.py`, `store.py`, and `cli/flag_cmd.py` beside a run | |
| `RunContract` | what a run promises, with no steps, commands or trace | |
| `RunViews` | `trace/index.py` and the run view of `cli/tui/`, reading beside `RunRecord`'s writers | `RunRecord` |
| `ProviderCalls` | `providers/base.complete_with_retry`, `providers/cost.py`, the adapters' usage and errors | |
| `DockerSandbox` | `sandbox/docker.py` in `sandbox/base.sandbox_session` | |
| `Preflight` | options, `execute_run` before its run exists | |
| `BenchSuite` | `cli/bench_cmd.bench_run`, `bench/suite.py` | the three above |
| `WireFormats` | the adapters' requests and responses, `resolve_thinking_level` | |
| `Replay` | a recorded run and its replay | `WireFormats`, `Compaction` |
| `ProgressTrackerProofs` | theorems about the tracker | `ProgressTracker` |
| `RunLoopProofs` | the ledger, the tracker inside a run, the contract, types | `RunLoop`, `ProgressTrackerProofs` |
| `RunTraceProofs` | what a run's trace and `run.json` tell | `RunLoopProofs` |
| `RunHistoryProofs` | the requests a run sends | `RunLoopProofs` |
| `RunRecordProofs`, `RunViewsProofs` | the files of a run, and those who read them | `RunRecord`, `RunViews` |
| `BenchSuiteProofs` | completions, containers, and the suite over them | `BenchSuite` |
| `ReplayProofs` | a recording and its replay | `Replay` |
| `MCProgress`, `MCRunLoop`, `MCRunRecord`, `MCRunViews`, `MCBenchSuite`, `MCReplay` | instances for TLC | |

**ProgressTracker.** A command is a member of `Commands`; `KeyOf` and `FamilyOf` are
`hypothesis_key` and `classify`, two unrelated functions of it. They are unrelated on
purpose: the hypothesis is computed from the normalised text and the family from the
raw text, so two commands may share one and not the other, and that crossing is
what makes the budgets hard to test. The variables are the fields of `BudgetLedger` and
`ProgressTracker`; `shift` holds what the last `due_shift` returned and how the loop
reports it. `NoteBlocked` is `note_blocked` with the `due_shift` that follows it,
`Record` is `record` with the `due_shift` that follows it. A fingerprint is an element
of `Digests`, and an output's `signal` says which patterns it matches.

**FlagJudge** has no state: operators on a flag, the observations and the seq the agent
cites. A text is the set of *fragments* (flags and payloads) the judge may find in it,
closed under "a flag contains its payload". `FlagFacts` gives, for each flag, the
answers of the regular expressions and lengths: its payload, whether the challenge
attests its wrapper, whether it is plausible, a lure, of the right format.
`Rederivations` are the outcomes of running the cited command again.

**Compaction.** A message is its role and the ids of the calls it makes or answers.
`Compact` is `compact_history` with the walk past tool messages. `WellPaired` is what
every provider requires of a request.

**RunLoop.** An action is everything the loop does between two answers from outside; `pc`
says what it waits for:

| `pc` | the code is about to | actions |
|---|---|---|
| `new` | enter the sandbox session | `SandboxStartFails`, `Begin`, `InputsFail` |
| `triage` | run triage | `Triage`, `TriageFails` |
| `step` | begin a step, or fall out of the loop | `BeginStep`, `CompactionFails`, `StepsExhausted` |
| `llm` | receive a completion | `CeilingReached`, `Nudge`, `Propose`, `ProviderFails`, `CredentialsRefused` |
| `act` | act on the first tool call | `RejectFlag`, `AcceptFlag`, `RefuseCommand`, `ExecuteCommand`, `ExecuteFails`, `RenderFails`, `CommandHangs`, `RederivationHangs` |
| `hung` | wait for a command that does not return | |
| `returned` | rewrite `run.json` after `run()` | `FinishRun` |
| `escaped` | handle the error that left `run()` | `RecordError` |
| `done`, `dead` | nothing more | |

A command of `Slow` may still run when its timeout comes, and one of `Deaf` ignores the
SIGTERM that is then sent: it leaves the run in `hung`, whether the agent called it or the
judge runs it again.

`Die` may happen in any of these but the last two: a kill, or an exception that is not
a `RunectlError`. `spent` is the ledger's total and `cost` is `state.cost_usd`; the two
differ between a summary and the next completion, and several properties live in that
gap. `trace` is the sequence of events, so an event's seq is its position, and
`writer.seq` is `Len(trace)` plus what the action has already emitted. Events that
carry no state a property reads keep only their type, and `llm.thinking`, which
changes nothing and is optional, is left out.

**RunContract** is the abstract specification: evidence grows, the bill grows, the run
concludes once and only with a flag it has evidence for (or breaks), and then publishes
exactly what it concluded. `RunLoop!KeepsContract` is the refinement: `phase` comes from
`pc`, `evidenced` from the observations through the judge's `Supporting`, `record` from
`run.json`. A concluded run publishes its bill; a broken one publishes none, because the
code writes none.

**RunRecord** looks at the same run from its directory. `RunLoop` writes its trace an
action at a time and has one writer; here a step is one operation on one file, and the
processes are the run and any number of `flag approve`. `file` is trace.jsonl, a
sequence of lines of which each is whole, bad, or undecodable (cut inside a UTF-8
character); `torn` says that the file does not end in a newline, so that the next text
appended joins the last line. `emitted` is a history variable: the events whose text
reached the file. `manifest` is run.json, which is absent, empty (created or truncated
and not yet written), garbled, or whole. A process dies inside a write (`EmitTorn`) or
between two operations (`Die`).

| `pc` | the process is about to | actions |
|---|---|---|
| `new`, `creating` | create run.json, fill it (`new_run`) | `CreateManifest`, `FillManifest` |
| `running` | emit an event, end, or break | `Work`, `Decide`, `FinishEmptyHanded`, `Break`, `RunTorn` |
| `decided` | emit `run.finished` | `FinishDecided`, `RunTorn` |
| `idle` | begin an approval: read run.json | `CheckManifest` |
| `checked` | read the trace and pick a held flag | `Choose`, `Refuse`, `ReadRaises` |
| `chosen` | emit the human's decision | `Approve`, `ApproveTorn` |
| `recording`, `loaded`, `truncated` | read, truncate, write run.json (`finish_run`, `approve_flag`) | `LoadManifest`, `TruncateManifest`, `WriteManifest` |
| `done`, `refused`, `raised`, `dead` | nothing more | |

Closing the sandbox session takes place in `recording` of the run: it may last, and the
pending decision is already in the trace. Of two processes that truncate and write at
once, the later text lands over the earlier one from its start; the result is the later
text, or, when that is shorter, neither of the two (`WriteManifest`).

**RunViews** puts two readers beside those writers. `runectl index rebuild` drops its
table, reads `run.json`, counts the trace, inserts and commits (`StartRebuild`,
`ReadManifest`, `CountEvents`, `Commit`, `RebuildFails`); `index` holds the committed
row and which decisions its counts were of. The terminal UI launched the run and is sent
its events through a pipe (`ShowEvent`), but reads the flags that wait for approval from
the trace on disk: when a candidate or a decision comes through the pipe, when a run is
selected (`SelectRun`) and when an approval has ended (`ApprovalEnds`). There is one list
for all runs. A launch selects the new run and leaves the list as it is (`ViewInit`,
`SelectOther`), and the end of an approval fills it with the run that was approved and
selects nothing (`ApprovalEnds`, `ListOther`): `view.of` says whose flags are in it. An
exception of the trace reader inside `on_event` ends the task that drains the pipe
(`view.deaf`), and one in a handler or a worker ends the UI (`exited`). The two readers
write nothing the other, or the run, reads: each behaviour has one of them (`reader`),
and every interleaving of it with the writers.

**ProviderCalls** is one completion: `call` says where it stands, `attempt` and `waited`
count what `complete_with_retry` has tried and slept, `ledger` is the `CostLedger`.
`Exception` is the adapters' mapping of errors in the order of their clauses, `UsageOf`
their mapping of reported tokens to the four counts that are priced. An error may say
that the account is out of credit (`unpaid`), with or without being a 429. Prices and tokens
are integers, rates are percents. `owed` is a history variable: the least and the most
the reported tokens can cost.

**DockerSandbox** knows a container by the run id in its name. `StartContainer`,
`StartRefused` (no container was created), `StartFailsHalfway` (one was, and could not be
started or failed the checks), `StopRemoves` and `StopFails` are the outcomes of
`start()` and `stop()`; `abandoned` remembers for which runs either went wrong.

**Preflight** has no state: a `Machine` is what a case finds when it begins (its
`chal.toml`, its category, the arena, where the keys are), and `Checks` lists in their
order what `execute_run` settles before `new_run`, each with the exit code of its failure.
`Given` is the precedence of a flag over a setting over a default.

**BenchSuite** is one thread: `phase` is where `bench_run`, and the run inside it, stand.

| `phase` | the code is about to | actions |
|---|---|---|
| `options` | validate the options, read the suite | `Configure` |
| `loop` | take the next case, or report | `NextCase`, `WriteReport` |
| `prepare`, `start` | check, and enter the session | `Prepare`, `Start` |
| `request`, `asking_compacted` | begin a step, or a summary of the history | `SetupFails`, `Ask`, `AskSummary`, `AskCompacted`, `StepsExhausted` |
| `asking`, `compacting`, `rendering` | receive a completion | `Answered`, `Summarized`, `Retry`, `AskRefused` |
| `act`, `acted` | run the step's tool, summarize its output | `Act`, `CommandHangs`, `AskSummary`, `NextStep` |
| `hung` | wait for a command that does not return | |
| `stopping` | stop the container | `Stop` |
| `ended` | score the run | `ScoreReturned`, `ScoreRaised`, `AbortSuite` |
| `reported`, `aborted`, `crashed`, `listed` | nothing more | |

`Killed` may happen in any of these but the last. What the agent does in a step is the
environment's choice here (`Act`); what it can really be is `RunLoop`'s matter. `spent`
is what `bench_run` adds up, `cost` what a run's last check saw, `ledger` what was paid;
`refused` is a history variable, the kinds of error that refused the credentials or said
that the account cannot pay.

**WireFormats** has no state: a response is a sequence of parts, `Completion` what the
adapter keeps of it, `WireTurns` the turns the history becomes in the next request,
`Resolved` and `Effort` the thinking level on its way from the command line to the request.
A part is a text, a call, a thought or a thought that the provider redacted; Anthropic's
adapter keeps the plain thoughts and drops the redacted ones.

**Replay** writes the `Runner` once, as operators on a record (its messages and what each
shows, the seq, the outputs already shown, the evidence), and runs it twice: with a model
and a sandbox that answer anything (`RecordAsk`, `RecordAct`, ...), and with the cassette
and the queue (`ReplayAsk`, `ReplayAct`, ...). A text is a model value; `TraceText` is what
redaction, spilling and reading back make of it. `--max-steps` has no upper bound in the
code: a run's `limit` goes up to `MaxLimit`, beyond the category's `MaxSteps`, which is
what its replay stops at. `legible` says whether every line of the cassette, as
`str.splitlines` finds them, is an entry: a completion may hold a character that breaks its
line (U+0085, U+2028, U+2029), and a kill may cut one (`CassetteUnreadable`). `causes` is a
history variable that collects the other five reasons for which a replay may differ. The budgets are one counter,
since all that a replay needs of them is that they are functions of commands and outputs.

## Runs

| Run | Instance | Checks |
|---|---|---|
| `evidence` | 3 steps, policies gated, strict and auto; 3 flags, 4 commands, up to 2 calls per completion | claims have evidence; observations can be cited; `run.json` and the trace agree; the contract |
| `budgets` | 4 steps; 4 commands over 3 hypotheses and 2 families, one hypothesis in both, one call malformed, one command deaf to its timeout; budgets 1/2, shifts 2/2; history budget 4; ceiling 7, completions 1 or 2, summaries 1; under `FairSpec` | the tracker's invariants and action properties; budgets, shifts and counters as the trace shows them; the ceiling and the overshoot; well-formed requests; termination |
| `record` | 2 flags, 2 approvals, an index rebuild or a UI, up to 2 events before the end of a run, any overlap and any death | readers see a prefix; `run.json` and the index claim nothing undecided, the UI's list hides nothing held; taking turns leaves files that agree |
| `suite` | 3 cases (2 gated), 2 steps, 2 attempts, a suite ceiling of 700 over run ceilings of 0 or 500, `--approval` and `--max-cost` given or not over a configured strict and 500, two providers, 8 machines, under `Spec` with fairness | money, retries, containers, the score, errors, termination |
| `replay` | a category of 3 steps and `--max-steps` of 1 to 4, history budget 5, one model per provider and one without thinking (every other combination of the registry's thinking columns for one step), 5 responses, 5 outputs: 682,734 states | the replay is the run; requests are ones the providers accept |
| `shift_reason` | 4 commands, 3 hypotheses, 2 families, the tracker alone | finding 1 (violated) |
| `final_figure` | as `budgets` | finding 2 (violated) |
| `run_finished_last` | as `budgets`, without ceiling or compaction | finding 3 (violated) |
| `approval_lost` | a run and one approval, 1 flag | finding 4 (violated) |
| `torn_character` | as `approval_lost` | finding 5 (violated) |
| `run_overshoots` | as `suite`, without the options | finding 6 (violated) |
| `unpaid_retried` | as `run_overshoots` | finding 7 (violated) |

What each property says is in the comment above it. In short:

- *WasteWithinBudget, ShiftNeverOverdue, ExhaustedStaysExhausted, ClearedOnlyByNews*: the
  four mechanisms of the tracker. The third is not obvious: a refused command cannot
  run, but another command that shares its family or hypothesis could clear the counter
  that refuses it. It holds because a command that runs has both of its counters
  below their thresholds, so what it clears was refusing nobody.
- *DecidedOnEvidence* reads the trace only: the decision follows a candidate that cites
  a `tool.result` whose output carried the flag and whose command had not written it.
- *ObservationsCitable*: the seq an output is labelled with is that of its own event.
- *ManifestMatchesTrace*: outcome, flag, cost, steps in `run.json` against the events;
  a broken run is an error there and has no `run.finished`.
- *KeepsContract*: the refinement of `RunContract`.
- *NothingPastCeiling, OvershootBounded*: nothing follows a `cost.updated` at the
  ceiling but the two last events; and the ledger exceeds the ceiling by less than one
  completion and two summaries (of an output, then of the history).
- *RequestsWellPaired, RequestsWithinBudget*: what compaction may do to a history
  made by any mix of extra calls, refusals, rejected flags, results and shifts.
- *WasteBoundedInTrace, RedirectedInTime, CountersMatchTrace*: the tracker's promises
  and the run's counters, recomputed from the trace alone.
- *ReaderSeesPrefix*: after any cuts and joins, the i-th event a reader is given is the
  i-th one written. It rests on the reader stopping at the first bad line: one that
  skipped it would show the events of an approval as if nothing were missing.
- *ManifestWasDecided*: `run.json` says solved only for a flag the judge finalized, or
  held and a human approved; held only for one the judge held. It is stated for any
  overlap, the write of one process over another's included.
- *SeqsIncrease, FilesAgree*: what holds of processes that take turns (`~overlap`):
  readable seqs increase even past a torn line, and when everyone has finished cleanly
  the two files tell one story, with at most one approval. Beside each other neither
  holds, because nothing locks the directory; the code does not say it would, except
  where finding 4 quotes it. After a torn line a second approval can succeed too,
  since the reader never gets to the first: `FilesAgree` is about clean files.
- *RowsBacked*: a row of the index that claims a flag counted the event that decided
  it, whoever wrote meanwhile. It rests on an order: the rebuild reads `run.json` before
  the trace, and everyone else writes them the other way round. The exception is a trace
  that was cut: an approval appended to a torn line is lost to readers, and `run.json`
  says solved.
- *HeldIsOffered*: a list that is the run's offers only flags that were held, and all of
  them as soon as the run's last event has come: an event is printed after its line is
  on disk, and a decision refreshes the list. Whether the list is the run's is another
  matter: see the findings.
- *RetryBounded, EveryTokenBilledOnce*: attempts and waits of a completion; and one
  ledger entry per answer, in which every token the provider counted, on whichever side
  it counts cached and thinking tokens, is charged once.
- *NoContainerOutlives*: exact, in that the ways in which a container is left behind
  (one that could not be started, one that failed the checks of `start()`, a removal that
  failed, a kill) are never made up for, and there is no other.
- *SuiteOvershootBounded*: one completion and two summaries over the suite's ceiling,
  provided that runs have a ceiling themselves: with `--max-cost 0` there is no bound.
  What `docs/CLI.md` promises is less than that, and is refuted (finding 6).
- *OnlyBrokenRunsUncounted*: what the suite counted against what was paid, run by run;
  that it is not all of it is finding 2.
- *ReportTellsAll*: the report, exit code and gate against what the runs claimed, under
  the policy that the options and the settings come to.
- *NoCallAfterRefusal*: no provider is asked after a refusal of the key, nor after one of
  the account unless it came as a 429, which is finding 7.
- *ReplayReproduces*: without one of six causes, the replay is message by message
  and event by event the recorded run, and `--check` says ok. The six are a text that the
  trace does not give back as it was, a summary, a result of a call that was refused, a
  recording that was cut short, one with more steps than its category, and a cassette that
  cannot be read.
- *QueueAligned*: as long as no refused call was recorded, each `exec` of the replay gets
  the result of the same `exec`, and they are all used up unless the recording was cut or
  too long; *AskedAsRecorded*: whatever the causes, the replay asks
  what the recording asked until it breaks, and one that passes `--check`, which compares
  calls and outcomes only, has made every request of a recording that is not too long.
- *ThinkingHonest, TurnsReturned, RequestsAnswered*: the level a run records is what its
  model does, and is accepted; calls and plain thoughts go back as they came, with their
  signatures, and redacted thoughts do not; every call is answered right after its turn,
  after compaction too.
- *SuiteEnds, RunEnds*: under fairness, `bench run` is over, and a run is done or its
  process is dead, unless they wait for a command that ignores its timeout; a run waits
  for no other.

**Bounds and why they are enough.** `MaxSteps` is 3 or 4. Finding evidence, printing or
writing it and submitting it takes 2 steps, and the third gives the judge a history in
which an echo follows or precedes a discovery. Reaching a budget of 1 or 2, the refusal
and the forced shift takes 3, and the fourth step shows what follows. A history budget
of 4 messages makes compaction happen from the third step on, with the cut falling in
front of assistant, user and tool messages; the shipped budget is larger than any of
these instances fill (`MaxMessages = 60` in `evidence`, so that compaction plays no
part). `MaxExtras = 1` gives completions of one and two calls. Compaction can only keep
its word when one completion has fewer calls than the budget has messages
(`MaxExtras + 2 < MaxMessages`): a history that ends in that many tool messages has no
place to cut, and `compact_history` then returns it as it is.
Costs are small numbers: a completion of 1 or 2 and summaries of 1 pass the ceiling of 7
either exactly or with some to spare, after three steps or four, with summaries on
either side of the check. `CHECK_DEADLOCK FALSE`
is set for `RunLoop`, `RunRecord`, `RunViews`, `BenchSuite` and `Replay` because what they
model ends; `shift_reason`, the tracker alone, checks for deadlock.

Two approvals and the run are the three writers that can meet: the smallest instance in
which an approval overlaps a run, another approval, or both, and in which one follows a
death of each. Two flags let an approval name the wrong one, and let a run reject one
flag and hold the other. `MaxWork = 2` leaves room for a rejected decision on a flag
and work before the run's own decision.

In `suite`, a completion of the main model costs 310, and one of the utility model 310 or,
of the other provider, 535: a run's ceiling of 500 is passed by its second completion, or
by the first and a summary, and the suite's 700 in the second or third case; a ceiling of
0 is the case with no bound. A configured policy of strict is overridden by `--approval
gated` or is not, and so is a ceiling of 500, or a malformed one, by `--max-cost 0`. Two attempts and the
delays 1 and 9 around a cap of 3 make both sides of each comparison happen. Three cases
are the fewest with two gated ones and a false flag outside the gate. In `replay`, three
steps let a flag be seen, cited and submitted with a step between; one repeated output
exhausts the budget; a history of 5 messages makes the third step's request a compacted
one; `MaxLimit = 4` is one step more than the category has, for the model of Anthropic,
and the others stop at its limit or before.

**Fairness.** `FairSpec` adds `WF_vars(Setup \/ Turn \/ Act \/ Close)`: the loop is one
process that has a next action until it ends, unless it waits for a command that does not
return. It does not include `Hang` and `Die`: neither is ever owed, and neither is excluded.
What keeps a command from hanging is `timeout N` (`sandbox/docker.py:178`), which sends
SIGTERM and, without `-k`, no SIGKILL after it, while `exec_run` has no deadline of its own:
a command that ignores the signal holds the run for good, and `RunEnds` names that
exception, and that no other command does it. Two things are assumed, since no
code here brings them about: that a call of the Docker daemon, and a call of a provider's
SDK, returns or raises. Attempts, waits and steps are bounded by the code itself. Nothing
is assumed of which answer comes, so a model that never calls a tool, and one
whose every command is refused, are both covered.

`BenchSuite!Spec` has `WF_vars(Step)` on the same grounds: the command is one thread, and
`CommandHangs` and `Killed` are not part of `Step`.

## Findings

1. **The reason of a forced shift is always "no-progress".** `due_shift` resets
   `_consecutive_errors` (`progress/tracker.py:119-120`); the loop then reads
   `shift_reason_kind` (`loop/runner.py:454`), which looks at that counter
   (`progress/tracker.py:136`). `strategy.shift` with reason `errors` is never written.
   Run `shift_reason`.
2. **The final figure is not all that was paid.** `docs/CLI.md:226` says `cost.updated`
   "fires after every call" and "the final figure lands in `run.json`"; `docs/CLI.md:219`
   that utility tokens appear in it "like any other". A run that breaks is recorded with
   cost 0 (`cli/run_cmd.py:360`), and a summary paid after the last completion is in no
   event and not in `run.json`. Run `final_figure`; `OnlyBrokenRunsUncounted` says what is
   missing, and is proved.
3. **`run.finished` is not always the last event.** `docs/ARCHITECTURE.md:317` says it
   is. A run that ends on a `SandboxError` or a `UsageError` raised in the loop has none;
   `run.json` alone says `error`. Run `run_finished_last`.
4. **An approval can be undone by the run it approves.** `docs/CLI.md:759` says `flag
   approve` updates `run.json` to `solved`, and `cli/flag_cmd.py:134` that "the run is
   over". The pending decision is in the trace before the run has stopped its sandbox and
   called `finish_run`; an approval in between is then overwritten: the trace says
   finalized, `run.json` candidate, and there is nothing left to approve. Run
   `approval_lost`.
5. **A tail cut inside a character is an exception.** `docs/CLI.md:402` promises "a valid
   prefix, never a parse error about the tail". The reader decodes strict UTF-8 in its
   `for` statement (`trace/reader.py:36`), outside its `try`. Run `torn_character`.
6. **A run overshoots what remains of a suite's ceiling.** `docs/CLI.md:787` says
   `--max-total-cost` "never lets one run overshoot the remainder", as does the comment at
   `cli/bench_cmd.py:115`. The remainder becomes the run's ceiling, which the run compares
   after a completion is paid for, and its summaries are compared with nothing. Run
   `run_overshoots`; `SuiteOvershootBounded` says by how much, and is proved.
7. **An account out of credit is asked again.** `docs/CLI.md:365` has exit 6 for it, "which
   never clears on retry", and `providers/base.py:132-158` lists the markers of OpenAI and
   Google. Both come as a 429, which the adapters take as transient before they look for a
   marker (`providers/openai.py:45-50`): the call is retried, ends in exit 5, and a suite
   asks again in the next case. Run `unpaid_retried`.

Met while modelling, and stated by no run that expects a violation:

- *Money.* `docs/ARCHITECTURE.md:904` has the ceiling checked "before the next paid call".
  It is checked after a completion alone: summaries also update the ledger, so a completion
  can be requested with the ceiling already passed (`OvershootBounded` says how far that
  goes). A suite ceiling does not bound a run under `--max-cost 0`, since
  `min(0, left)` is "no ceiling" (`cli/bench_cmd.py:117`). A `UsageError`, a category or
  key problem of one case included, throws away the report of the cases before it.
- *Timeouts.* `docs/ARCHITECTURE.md:184` gives a command 30 or 120 seconds. One that ignores
  SIGTERM has as long as it likes (`sandbox/docker.py:178`), and the judge's re-derivation
  too.
- *Errors.* The Google adapter catches the SDK's
  `APIError` alone: a broken connection is uncaught, leaves `run.json` without an outcome
  and ends a suite. So do an unreadable `chal.toml`, an unknown `--utility-model`, a
  garbled keys file and a container that will not go. A traceback's exit code, 1, is also
  a false flag's.
- *Containers.* `start()` is outside the session's `try`, and `containers.run` creates
  before it starts: one that could not be started is left behind, one whose checks fail is
  left running, and the cleanup of stale namesakes never finds it, as run ids are unique.
- *Replay.* A call of an exec-backed tool that was refused leaves a result in the trace,
  which the replay's queue then serves to the next call (`sandbox/replay.py:45`).
  `KeyError` and `SandboxError` are not handled: the replay's own `run.json` stays without
  an outcome. A replay has neither the run's `--max-steps` nor its utility summarizer: a
  recording with more steps than its category ends early, and `--check` still says ok when
  the last of them called no tool. The cassette is written with U+2028 and its like as they
  are and read with `str.splitlines` (`providers/replay.py:88`), which breaks such a line.
- *Adapters.* The comment at `providers/registry.py:74-76` calls an unsupported level a
  usage error, while `resolve_thinking_level` clamps it. Anthropic's redacted thinking
  blocks are dropped (`providers/anthropic.py:157-173`), where `providers/base.py:75-79` and
  `docs/ARCHITECTURE.md:922` have thinking go back verbatim; so are the signatures of
  Google's text parts.
- *UI.* `docs/CLI.md:599` has the Flags tab carry the pending flags of the selected run. A
  launch leaves those of the run viewed before (`cli/tui/app.py:498`) until an event of the
  new one refreshes the list, and the end of an approval lists those of the run it was of,
  whatever is selected by then (`cli/tui/app.py:745`).
- *Readers.* One unreadable `run.json` ends an index rebuild with an empty index. An
  exception of the trace reader stops the TUI from draining the run's pipe. An approval
  appended to a line that was cut before its newline joins it, and both are lost to
  readers while `run.json` says solved.

## Proofs

TLAPS checks every theorem for all values of the constants under the named assumptions
of the modules:

| Assumption | What it says, and why the code justifies it |
|---|---|
| `CommandAssumption` | the two classifications of commands are functions |
| `BudgetAssumption` | thresholds are positive, as in every shipped category |
| `FlagAssumption` | each flag has its facts |
| `LoopAssumption` | the types of the run's constants, and that the id of a tool call is a step and a position |
| `RecordAssumption` | a run is not an approval, "no flag" is not a flag |
| `CallAssumption` | attempts and delays are naturals; a wait of `2^i` and its jitter are within `MaxBackoff`, of which that is the definition; reports and models have the fields of theirs |
| `SandboxAssumption`, `PreflightAssumption` | "no run", "not given" and "malformed" are not values of what they stand beside; the retired models are in the registry |
| `SuiteAssumption` | the options offered are of their types; a suite has a case, and a case a step |
| `ReplayAssumption` | outputs and findings are texts; redaction and reading back are functions of them; `--max-steps` is a number, bounded by `MaxLimit` only so that TLC can count; of the registry's rows, those that think have a ceiling other than off, and Google's none above high |
| `ToolAssumption` | a call the model makes names its tool, which each adapter gives it, and the dispatcher's own two texts are shorter than the limit of a rendered output |

### What is proved

Of the tracker (`ProgressTrackerProofs`), a run (`RunLoopProofs`, `RunTraceProofs`,
`RunHistoryProofs`), its files (`RunRecordProofs`, `RunViewsProofs`), a suite
(`BenchSuiteProofs`) and a replay (`ReplayProofs`). A theorem that is not an equivalence,
an action property or a refinement says `Spec => []` of the property in its second column.

| Theorem | Property | Argument |
|---|---|---|
| `TrackerTyped`, `WasteIsBounded`, `ShiftsAreMade` | `TrackerTypeOK` (part of the run loop's `TypeOK`), `WasteWithinBudget`, `ShiftNeverOverdue` | `TrackerInv` |
| `ExhaustionIsFinal`, `NewsClearsBudgets` | `ExhaustedStaysExhausted`, `ClearedOnlyByNews` | from `TrackerInv`, one case per action |
| `OvershootIsBounded` | `OvershootBounded` | `SpendingInv` |
| `RunDrivesTracker` | `Spec => TrackerSpec` | each action of the loop is `NoteBlocked`, `Record` or leaves the tracker alone |
| `RunStaysWithinBudgets` | `WasteWithinBudget`, `ShiftNeverOverdue` of a run | from `RunDrivesTracker` |
| `RunKeepsContract` | `KeepsContract` | `ContractInv`, step simulation |
| `RunTyped` | `TypeOK` | `TypeInv`, and the tracker's types through `RunDrivesTracker` |
| `NothingFollowsCeiling` | `NothingPastCeiling` | `CeilingInv` |
| `OutputsAreCitable` | `ObservationsCitable` | each observation's seq is the event's position |
| `FlagsNeedEvidence` | `DecidedOnEvidence` | `Grounded`, from citable observations |
| `ManifestRepeatsTrace` | `ManifestMatchesTrace` | `RunStory` |
| `CountersAreTraced` | `CountersMatchTrace` | `CountersInv` |
| `RedirectionIsTimely` | `RedirectedInTime` | `StreakInv`, and `ShiftsAreMade` |
| `WasteInTraceIsBounded` | `WasteBoundedInTrace` | `LedgerInv`, and `WasteIsBounded` |
| `RequestsArePaired` | `RequestsWellPaired` | `Conversed` |
| `RequestsFit` | `RequestsWithinBudget`, if `MaxExtras + 2 < MaxMessages` | `Fits` |
| `RecordTyped`, `ReadersSeeAPrefix`, `RecordWasDecided` | `TypeOK`, `ReaderSeesPrefix`, `ManifestWasDecided` | `RecordInv` |
| `SeqsAreIncreasing` | `SeqsIncrease` | `SeqInv` |
| `FilesDoAgree` | `FilesAgree` | `TurnsInv` |
| `RowsAreBacked` | `RowsBacked` | `BackedInv`, `RebuildInv` |
| `HeldAreOffered` | `HeldIsOffered` | `UIInv` |
| `SuiteKeepsTypes` | `TypeOK` | `SuiteTyped`, `CallInv`, `Contained` |
| `RetriesAreBounded`, `TokensAreBilledOnce` | `RetryBounded`, `EveryTokenBilledOnce` | `CallInv` |
| `ContainersGo` | `NoContainerOutlives` | `Contained` |
| `RefusalIsFinal` | `NoCallAfterRefusal` | `Final` |
| `ReportIsTrue` | `ReportTellsAll` | `EndTyped`, `Listed` |
| `OvershootIsBounded` (`BenchSuite`) | `SuiteOvershootBounded`, if `Priced` | `Budgeted` |
| `BreakageAloneIsUncounted` | `OnlyBrokenRunsUncounted`, if `Priced` | `Checked`, `Summed` |
| `ThinkingIsHonest` | `ThinkingHonest` | the rows of the registry, case by case |
| `ReplayTyped` | `TypeOK` | `TypesInv` |
| `ReplayAsksTheSame`, `ReplayQueueAligned`, `ReplayIsTheRun` | `AskedAsRecorded`, `QueueAligned`, `ReplayReproduces` | `LockInv` |
| `TurnsAreResponses` | `TurnsReturned` | `TurnsInv`, from `LockInv` |
| `CallsAreAnswered` | `RequestsAnswered` | `AnsweredInv`, from `LockInv` |

Two theorems have hypotheses beyond the assumptions. `RequestsFit` needs that a completion
makes fewer calls than the history budget has messages; with one call more there is a
history no split point of which exists, which is a hazard of its own
(`loop/context.py:129`). `Priced` is that some amount is the most a completion costs: a
bound in units of a completion says nothing otherwise.

### How

- `TrackerInv` is the three invariants together. `WasteWithinBudget` alone is not
  inductive: that a counter at its threshold is not charged needs the types of the
  counters, and `ExhaustionIsFinal` needs that nothing is beyond a threshold.
- `SpendingInv` bounds the ledger by where the run is: below the ceiling when it acts,
  one summary more when a step begins, two when a request is out. `OvershootBounded` by
  itself says nothing about where the next addition starts from.
- `ContractInv` says that nothing is concluded before the run stops, that nothing is
  recorded before it is done, and that the bill shown never exceeds the ledger. The
  actions fall into three kinds (work on, conclude, break) and the refinement is
  proved once for each kind; the flag a run concludes with is evidenced because
  `ClearedBy` contains `Cited`, which is a part of `Supporting`.
- `TypeInv` adds to the types that a step in flight is numbered from 1, which is what
  makes `<<step, k>>` an id of a call, and so every tool message an answer to one.
- *The trace of a run.* `RunTraceProofs` first says of each action which events it writes
  and where (`Wrote`, `WroteCount`, `WroteOnly`), and that nothing written changes
  (`Extends`); every property of the trace is then proved from that table (`WriterTable`)
  and not from the actions. `CeilingInv`: as long as the run works, no bill in the trace
  has reached the ceiling, because the one that does is written by the action that
  ends it. `DecidedOnEvidence` needs no invariant beside itself and the citability of
  observations: a decision and the candidate it follows are written by one action. `RunStory` says,
  for each place of the run, what its trace tells: nothing is settled while it works
  (`Unsettled`), the requests are its steps and the last bill its cost (`Counted`, `Billed`),
  and from its return on the last event names outcome and flag (`Told`). A run that
  escapes keeps only that it has no `run.finished`, since it may have counted a step whose
  request was never sent.
- *Counters and budgets from the trace.* `CountersInv`, `StreakInv` and `LedgerInv` equate
  each counter of the code with the cardinality of a set of events: all wins and refusals;
  the wasted steps since the last reset; for each hypothesis and each family the misses
  since its last progress. The bounds on the trace then follow from those on the tracker. An
  action that writes both a loss and a shift is the delicate case, and is why `Since` counts
  from the latest reset whatever its type.
- *Requests.* `Conversed` is `WellPaired` between steps, and inside one that the history is paired once the
  primary call is answered: refusals of the extra calls come first. Compaction keeps
  pairing because a split in front of a message that is no tool message cuts no turn from
  its answers. `Fits` follows the last message that is no tool message (`Recent`): from it a cut
  leaves few enough.
- `RecordInv` is `TraceInv` and `VerdictInv`. That readers see a prefix is not inductive:
  an event appended to a file without bad lines is the n-th line, and has to be the n-th
  event (`OneLinePerEvent`); after a bad line it may be anything, because no reader gets
  to it. `VerdictInv` follows a decision from the trace to `run.json`: what the run
  answers, what an approval has chosen, and what a process has loaded and not yet
  written were each decided. It needs that an approval only ever finalizes
  (`OnlyTheRunHolds`): what it finds held, the judge held. Both rest on the trace growing
  only (`Grows`), so that what was decided stays so while others write.
- *Taking turns.* `SeqInv`: at most one process is active (`Alone`), and one about to write
  has counted every event a reader is given (`Ahead`). `TurnsInv` adds, when nobody was
  harmed, what the trace shows at each place of the run and of an approval
  (`RunShows`, `ApproversTurn`), and that between two approvals the files agree (`Settled`).
- *Views.* `BackedInv` says of whatever is in `run.json` or on its way there that the trace
  backs it with an event a reader is given (`PendingStands`), or, of a finalized flag, has a bad
  line (`FinalStands`); a rebuild that reads the manifest first therefore finds the event in
  the trace it reads later (`RebuildInv`). `UIInv`: as long as the run alone has written, its
  n-th event is the n-th of the trace, and the UI's list is what the trace holds or an event is still to come that
  refreshes it.
- *Completions.* `CallInv` carries the least and the most the tokens can cost beside the
  ledger; that a bill lies between them is proved for each adapter's way of counting cached and
  thinking tokens (`UsageOf`), with products of rates and counts kept opaque.
- *Containers.* `Contained`: the case in hand alone can have a container, and none was
  abandoned under a name about to be used.
- *The suite.* `Final` says where a refusal leaves the suite. `Listed` keeps a result for each case begun,
  each of which tells what its run claimed. `Budgeted` and `Checked` are
  `SpendingInv` once more, from both sides: by how much the ledger may exceed what is left for the run,
  and what the run's last check saw, in each phase. `Summed` is that the suite's own sum
  is that of its report (`Counted`, a recursive function so that it can be reasoned about).
- *Replay, types.* `TypesInv` is inductive only with what comes back from files: that the texts of
  the trace, spilled and read back, are texts (`Kept`), that a cassette's entries are
  requests and completions, that a runner that acts has a completion to act on (`Steady`),
  and that each step asks and runs at most once (`Counted`).
- *Replay, lockstep.* `AskedAsRecorded`, `QueueAligned` and `ReplayReproduces` relate two
  runs, of which the state keeps the first only as requests, results and a trace. What
  makes an invariant of them is the story of the recording: a sequence `bs` of where it
  stood (runner, trace, results) before each request it made. `ToldInv` says that while a
  recording goes on such a story exists (`Recounts`: each moment follows from the one
  before it by the completion heard and a result of the sandbox), that the run is at the
  end of it (`Standing`), how it can have ended (`Closed`), and that the cassette holds the
  completions under their requests and summaries besides (`Taped`). `MatchedInv` says that
  the queue of a trace is the results of its run as a trace gives them back, unless a
  refused call left a result in it. `ReplayInv` is about the replay: there is a story of
  the recording that it follows (`Follows`): before its `k`-th request it is a runner that
  acted, on some text, on the recording's `k`-th completion; with a completion, it is
  the recording's own runner, message by message, and so is refused, judged and given
  results at the same places. This needs no cause to be absent: a request says
  of each output with what text it was shown and at which seq, so that two runners with one
  history are one (`ActedSame`, `SameRunner`); an output or a history that a replay shortened
  by extraction is in no request of the recording; and a request identifies its step, since
  a history that was never compacted has a turn of the model for each (`AskedThere`). So
  the completion a replay is served is the recording's at that step (`ServedIs`, `WorksNext`).
  With no cause at all the replay's runner and trace are those of the story
  (`Exact`), and every request has its entry (`ExactAsked`) and every exec its result
  (`ExactGiven`). A replay that ends, ends at the judge's act, which is the last of a
  recording (`JudgesLast`), or at the last step of the category; either way all has been
  asked (`AllAsked`), and all been given (`AllGiven`), if the recording was neither cut nor
  longer than the category allows (`Whole`); that no recording is longer without saying so
  is `Paced`. `Unhindered` is that nothing stands against the replay; one whose cassette
  cannot be read has asked nothing (`GoesNowhere`).
- *Replay, wire formats.* What a step does to the runner is one of seven things
  (`RunSteps`): it is given the next response of the recording or the next recorded one,
  acts, stays, is caught by an unknown request, ends, or starts over. `TurnsInv` says that
  a turn with `l` turns after it is the completion of the `step - l`-th response (`Turned`):
  counted from the end, so that a cut, which takes away from the front, changes nothing
  (`TurnedCut`). A replay keeps it because `LockInv` says which completion it is served
  (`ReplayHearsNext`). It also says that OpenAI's responses have no thoughts
  (`Thoughtless`), since the adapter puts none in its turns. `AnsweredInv` says that the
  history of a runner about to ask is `Answered`, each turn's calls followed by the extra
  ones' refusals and then the primary's answer (`Replied`), and that of a runner that acts
  is so up to its last turn (`Open`). Compaction keeps it because it cuts in front of a
  message that is no tool message (`AnsweredCut`), and every act but the judge's, which
  ends the run, adds exactly the missing answers (`ActedAnswers`). What an adapter makes of
  a turn is its thoughts, a text and its calls (`PartsInOrder`), from which each kind can be
  taken back (`OfKindJoin`); answers and calls, of which the last and the first belong
  together, are counted by a bijection (`MatchingReplied`), since Gemini's have no ids.

### Only model-checked

- `RunEnds` and `SuiteEnds`: liveness is out of the prover's reach.
- The properties that are expected to be violated.

## Limits

- Text is not modelled: regular expressions, prompts, summaries, shift texts. What they
  decide (a signal, a family, a flag's facts) is an input of the models.
- The anti-echo rule is modelled as the code has it: on the arguments of the command
  that produced an output. A flag written to a file by one call and printed by another
  is not an echo to the judge; nor is a tool name that the dispatcher quotes back.
- `RunLoop` writes its trace an action at a time. Kills inside an action and torn lines
  are in `RunRecord`, which in turn knows of an event only its seq, its writer and what it
  decides; that the two describe one program is not itself stated as a theorem.
- `RunRecord` takes the write of a line to be cut by a death alone. Redaction and the
  spilling of long values to artifacts, both done before the write, are in `Replay` alone.
- `Replay` keeps one counter for the budgets and no forced shifts (both are functions of
  what it does keep); the judge there asks for a source and a re-derivation, its other
  stages are in `FlagJudge`. The request hash is injective. A process killed between the
  creation of the cassette and its first line leaves an empty file, with which a replay
  starts and fails at its first request; the model refuses it as if there were none.
- `BenchSuite` lets the agent do anything in a step; that a claim has evidence is
  `RunLoop`'s property. Its costs are integers, so the rounding of a displayed sum is not
  modelled. The order in which Gemini's answers without ids follow one another is the
  order in which the loop appends them; `RequestsAnswered` counts them per tool.
- `RunViews` has one rebuild at a time (SQLite locks a second out), and of the runs the UI
  may show it follows one: any other is a list of flags, or none.
- `run.json` of a broken run says cost 0 and 0 steps whatever was spent: that is the
  code, and the contract states it so.

## Not modelled

- Docker image building, loading and pulling (`sandbox/arena_build.py` after `inspect`):
  one-shot calls of a daemon, with no state of runectl's between them.
- `keys set`, `keys remove`, `config set`: a read, a change and a rewrite of one file. What
  a run makes of a file it meets half written is in `Preflight`.
- The TUI's widgets and form, the wizard, rendering, listings and the text of prompts.
- Regular expressions: fingerprints, families, signals, decoys, redaction. Their answers
  are functions or facts the models take as constants.
- The scripted provider and the stub sandbox, which exist for the tests.

## Plan

Every invariant and action property of a passing run is a theorem; the two liveness
properties stay with TLC. What could follow is joining the models that now stand side by
side: that the trace of `RunLoop` is the file of `RunRecord`, and that a run of
`BenchSuite` is one of `RunLoop`, each stated as a refinement.

Helpers these proofs reason about (`Picked` of `WireFormats`) are recursive functions, and no
module declares a RECURSIVE operator.
