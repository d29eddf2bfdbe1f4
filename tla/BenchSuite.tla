------------------------------ MODULE BenchSuite ------------------------------
(***************************************************************************)
(* `runectl bench run`: cli/bench_cmd.bench_run over the cases of a suite, *)
(* each a cli/run_cmd.execute_run with its own ledger, sandbox session and *)
(* completions.  What the agent does in a step is the environment's; the   *)
(* loop itself is module RunLoop.  An action is what the one thread does   *)
(* between two answers from outside.                                       *)
(***************************************************************************)
EXTENDS ProviderCalls, DockerSandbox, Preflight, SequencesExt

CONSTANTS CostFlags,      \* what --max-cost may say
          CostSettings,   \* what [run] max_cost may say
          PolicyFlags, PolicySettings,   \* the same of --approval
          MaxTotals,      \* what --max-total-cost may say; 0 disables it
          MainModels,     \* what --model may name
          Machines,       \* the states in which a case may find the machine
          Gated,          \* [1 .. number of cases -> BOOLEAN]: expected.json's "gate"
          MaxSteps

NumCases == Len(Gated)

ASSUME SuiteAssumption ==
    /\ CostFlags \subseteq Nat \cup {NotGiven}
    /\ CostSettings \subseteq Nat \cup {NotGiven, Malformed}
    /\ PolicyFlags \cup PolicySettings \subseteq Policies \cup {NotGiven, Malformed}
    /\ MaxTotals \subseteq Nat
    /\ MainModels \cup Registry \cup NamedUtilities \subseteq Models
    /\ Machines \subseteq Machine(Provider)
    /\ Gated \in Seq(BOOLEAN) /\ Gated # <<>>
    /\ MaxSteps \in Nat \ {0} /\ Runs = 1 .. NumCases

VARIABLES phase,     \* where bench_run and the run inside it stand
          maxCost, policy,   \* resolved_max_cost, and the approval policy
          maxTotal,
          main, utility,   \* --model and --utility-model
          pos,       \* the case in hand, which is also its run's id
          spent,     \* what bench_run has added up
          results,   \* the CaseResults
          ceiling, step, cost,   \* of the run: max_cost, state.step, state.cost_usd
          ended,     \* how the run left runner.run()
          exit,      \* the command's exit code
          refused    \* history: the statuses of the errors that refused the
                     \* credentials or the account's credit

suiteVars == <<phase, maxCost, policy, maxTotal, main, utility, pos, spent, results, ceiling, step, cost,
               ended, exit, refused>>
\* The command line's share of them, and what a run leaves alone.
asked == <<maxCost, policy, maxTotal, main, utility>>
runVars == <<asked, pos, spent, results, ceiling>>
vars == <<suiteVars, callVars, sandboxVars>>

NotEnded == [outcome |-> "none", code |-> 0, right |-> FALSE]
Returned(outcome, code, right) == [outcome |-> outcome, code |-> code, right |-> right]
Raised(code) == [outcome |-> "raised", code |-> code, right |-> FALSE]

Init ==
    /\ phase = "options"
    /\ maxCost = DefaultMaxCost /\ policy = "gated" /\ maxTotal \in MaxTotals
    /\ main \in MainModels /\ utility \in Utilities(main) /\ model = main
    /\ pos = 0 /\ spent = 0 /\ results = <<>>
    /\ ceiling = 0 /\ step = 0 /\ cost = 0
    /\ ended = NotEnded /\ exit = Running /\ refused = {}
    /\ call = "idle" /\ attempt = 0 /\ waited = 0
    /\ ledger = NewLedger /\ owed = NothingOwed
    /\ SandboxInit

-----------------------------------------------------------------------------
(* The suite *)

\* A UsageError ends the command; an exception that is no RunectlError leaves it.
Refuse == phase' = "aborted" /\ exit' = Usage
Crash == phase' = "crashed" /\ exit' = Crashed

\* Options are validated before anything runs; then load_suite reads the cases,
\* and refuses the directory or trips over a file.  --dry-run only lists them.
Configure ==
    /\ phase = "options"
    /\ \E flag \in CostFlags, setting \in CostSettings,
          policyFlag \in PolicyFlags, policySetting \in PolicySettings :
          LET limit == ResolveMaxCost(flag, setting)
              approval == ResolveApproval(policyFlag, policySetting)
          IN \/ Malformed \in {limit, approval} /\ Refuse /\ UNCHANGED <<maxCost, policy>>
             \/ /\ Malformed \notin {limit, approval}
                /\ maxCost' = limit /\ policy' = approval
                /\ \/ phase' = "loop" /\ UNCHANGED exit
                   \/ Refuse
                   \/ phase' = "listed" /\ UNCHANGED exit
                   \/ Crash
    /\ UNCHANGED <<maxTotal, main, utility, pos, spent, results, ceiling, step, cost, ended,
                   refused, callVars, sandboxVars>>

TotalSpent == maxTotal > 0 /\ spent >= maxTotal

Lesser(a, b) == IF a < b THEN a ELSE b

\* Mutant: each run may use all of the suite's ceiling.
WholeCeiling == IF maxTotal > 0 THEN Lesser(maxCost, maxTotal) ELSE maxCost

\* What the run may cost: what is left of the suite ceiling, if there is one.
\* 0 is no ceiling to the run, and min() prefers it.
RunCeiling == IF maxTotal > 0 THEN Lesser(maxCost, maxTotal - spent) ELSE maxCost

NextCase ==
    /\ phase = "loop" /\ pos < NumCases /\ ~TotalSpent
    /\ pos' = pos + 1
    /\ phase' = "prepare"
    /\ ceiling' = RunCeiling
    /\ step' = 0 /\ cost' = 0 /\ ended' = NotEnded
    /\ call' = "idle" /\ model' = main /\ attempt' = 0 /\ waited' = 0
    /\ ledger' = NewLedger /\ owed' = NothingOwed
    /\ UNCHANGED <<asked, spent, results, exit, refused, sandboxVars>>

\* Mutant: a wrong flag that was finalized counts as one held.
LenientStatus(end) ==
    CASE end.outcome = "solved" -> IF end.right THEN "solved" ELSE "candidate"
      [] end.outcome = "candidate" -> "candidate"
      [] end.outcome \in {"error", "raised"} -> "error"
      [] OTHER -> "unsolved"

\* score(): held is not submitted.
StatusOf(end) ==
    CASE end.outcome = "solved" -> IF end.right THEN "solved" ELSE "false_flag"
      [] end.outcome = "candidate" -> "candidate"
      [] end.outcome \in {"error", "raised"} -> "error"
      [] OTHER -> "unsolved"

\* A CaseResult, with the run's own ledger and the truth beside it (history).
Result(end, counted) ==
    [case |-> pos, status |-> StatusOf(end), cost |-> counted,
     paid |-> ledger.total, broke |-> end.outcome = "raised",
     claimed |-> end.outcome = "solved", right |-> end.right]

\* A run that returned is counted; one that raised is scored at no cost.
ScoreReturned ==
    /\ phase = "ended" /\ ended.outcome # "raised"
    /\ spent' = spent + cost
    /\ results' = Append(results, Result(ended, cost))
    /\ phase' = "loop"
    /\ UNCHANGED <<asked, pos, ceiling, step, cost, ended, exit, refused,
                   callVars, sandboxVars>>

\* Mutant: a broken run is charged what its last check saw.
ScoreRaisedCharged ==
    /\ phase = "ended" /\ ended.outcome = "raised" /\ ended.code # Usage
    /\ results' = Append(results, Result(ended, cost))
    /\ phase' = "loop"
    /\ UNCHANGED <<asked, pos, spent, ceiling, step, cost, ended, exit, refused,
                   callVars, sandboxVars>>

\* Mutant: any error is one broken challenge.
ScoreRaisedAny ==
    /\ phase = "ended" /\ ended.outcome = "raised"
    /\ results' = Append(results, Result(ended, 0))
    /\ phase' = "loop"
    /\ UNCHANGED <<asked, pos, spent, ceiling, step, cost, ended, exit, refused,
                   callVars, sandboxVars>>

ScoreRaised ==
    /\ phase = "ended" /\ ended.outcome = "raised" /\ ended.code # Usage
    /\ results' = Append(results, Result(ended, 0))
    /\ phase' = "loop"
    /\ UNCHANGED <<asked, pos, spent, ceiling, step, cost, ended, exit, refused,
                   callVars, sandboxVars>>

\* A UsageError ends the suite with no report of the cases before it.
AbortSuite ==
    /\ phase = "ended" /\ ended.outcome = "raised" /\ ended.code = Usage
    /\ Refuse
    /\ UNCHANGED <<runVars, step, cost, ended, refused,
                   callVars, sandboxVars>>

WithStatus(s) == {i \in DOMAIN results : results[i].status = s}
FalseFlags == WithStatus("false_flag")
GateMet ==
    /\ Cardinality({i \in WithStatus("solved") : Gated[results[i].case]}) >= 2
    /\ ~\E i \in FalseFlags : Gated[results[i].case]

\* Mutant: a suite that is out of money neither goes on nor reports.
WriteReportWhenDone ==
    /\ phase = "loop" /\ pos = NumCases
    /\ phase' = "reported"
    /\ exit' = IF FalseFlags # {} THEN 1 ELSE 0
    /\ UNCHANGED <<runVars, step, cost, ended, refused,
                   callVars, sandboxVars>>

\* The loop is over or was stopped early: the report, and 1 on any false flag.
WriteReport ==
    /\ phase = "loop" /\ (pos = NumCases \/ TotalSpent)
    /\ phase' = "reported"
    /\ exit' = IF FalseFlags # {} THEN 1 ELSE 0
    /\ UNCHANGED <<runVars, step, cost, ended, refused,
                   callVars, sandboxVars>>

-----------------------------------------------------------------------------
(* One run *)

\* Everything before new_run has made the run's directory.  challenge_from_file
\* is outside bench_run's try.
Prepare ==
    /\ phase = "prepare"
    /\ \E machine \in Machines :
          LET code == Preflight(machine, main, utility) IN
          CASE code = Running -> phase' = "start" /\ UNCHANGED <<ended, exit>>
            [] code = Crashed -> Crash /\ UNCHANGED ended
            [] OTHER -> phase' = "ended" /\ ended' = Raised(code) /\ UNCHANGED exit
    /\ UNCHANGED <<runVars, step, cost, refused, callVars, sandboxVars>>

Start ==
    /\ phase = "start"
    /\ \/ StartContainer(pos) /\ phase' = "request" /\ UNCHANGED ended
       \/ /\ StartRefused(pos) \/ StartFailsHalfway(pos)
          /\ phase' = "ended" /\ ended' = Raised(NoSandbox)
    /\ UNCHANGED <<runVars, step, cost, exit, refused, callVars>>

\* The session ends as the run did, once the container is stopped.
Leave(end) == phase' = "stopping" /\ ended' = end

\* put_inputs raises, which run() turns into an outcome, or run_triage does.
SetupFails ==
    /\ phase = "request" /\ step = 0
    /\ \E end \in {Returned("error", 4, FALSE), Raised(NoSandbox)} : Leave(end)
    /\ UNCHANGED <<runVars, step, cost, exit, refused, callVars, sandboxVars>>

\* Mutant: one step too many.
AskOnceMore ==
    /\ phase = "request" /\ step <= MaxSteps
    /\ step' = step + 1
    /\ BeginCall(main)
    /\ phase' = "asking"
    /\ UNCHANGED <<runVars, cost, ended, exit, refused, sandboxVars>>

\* The next step's completion; a summary of the history, or of an output, is
\* asked for through the same retries and the same ledger.
Ask ==
    /\ phase = "request" /\ step < MaxSteps
    /\ step' = step + 1
    /\ BeginCall(main)
    /\ phase' = "asking"
    /\ UNCHANGED <<runVars, cost, ended, exit, refused, sandboxVars>>

AskSummary ==
    /\ \/ phase = "request" /\ step \in 1 .. MaxSteps - 1 /\ phase' = "compacting"
       \/ phase = "acted" /\ phase' = "rendering"
    /\ BeginCall(utility)
    /\ UNCHANGED <<runVars, step, cost, ended, exit, refused, sandboxVars>>

\* A summary is paid for and compared with nothing.
Summarized ==
    /\ phase \in {"compacting", "rendering"}
    /\ \E r \in Reports : Served(r)
    /\ IF phase = "compacting"
       THEN phase' = "asking_compacted"
       ELSE phase' = "request"
    /\ UNCHANGED <<runVars, step, cost, ended, exit, refused, sandboxVars>>

AskCompacted ==
    /\ phase = "asking_compacted"
    /\ step' = step + 1
    /\ BeginCall(main)
    /\ phase' = "asking"
    /\ UNCHANGED <<runVars, cost, ended, exit, refused, sandboxVars>>

\* The errors that no retry and no other case can clear.
Denied(e) == refused \cup (IF e.status = "credentials" \/ e.unpaid THEN {e.status} ELSE {})

Retry ==
    /\ phase \in {"asking", "compacting", "rendering"}
    /\ \E e \in ApiError, jitter \in Jitter :
          TransientlyFails(e, jitter) /\ refused' = Denied(e)
    /\ UNCHANGED <<runVars, step, cost, exit, sandboxVars>>
    /\ IF call' = "asking" THEN UNCHANGED <<phase, ended>>
       ELSE Leave(IF phase = "asking" THEN Returned("error", 5, FALSE) ELSE Raised(5))

\* A ProviderError of the step's own completion is an outcome; one of a summary,
\* and any UsageError, breaks the run; what is not caught at all breaks the suite.
AskRefused ==
    /\ phase \in {"asking", "compacting", "rendering"}
    /\ \E e \in ApiError : Refused(e) /\ refused' = Denied(e)
    /\ Leave(CASE call' = "usage_error" -> Raised(Usage)
               [] call' = "uncaught" -> Raised(Crashed)
               [] OTHER -> IF phase = "asking" THEN Returned("error", 5, FALSE) ELSE Raised(5))
    /\ UNCHANGED <<runVars, step, cost, exit, sandboxVars>>

\* The completion is recorded and the run's ceiling compared.
Answered ==
    /\ phase = "asking"
    /\ \E r \in Reports : Served(r)
    /\ cost' = ledger'.total
    /\ IF ceiling > 0 /\ cost' >= ceiling
       THEN Leave(Returned("exhausted", 3, FALSE))
       ELSE phase' = "act" /\ UNCHANGED ended
    /\ UNCHANGED <<runVars, step, exit, refused, sandboxVars>>

\* The step's tool: a flag is cleared, and finalized or held as the policy says,
\* the sandbox breaks, or it goes on.
Act ==
    /\ phase = "act"
    /\ \/ /\ policy # "strict"
          /\ \E right \in BOOLEAN : Leave(Returned("solved", 0, right))
       \/ policy # "auto" /\ Leave(Returned("candidate", 2, FALSE))
       \/ Leave(Raised(NoSandbox))
       \/ phase' = "acted" /\ UNCHANGED ended
    /\ UNCHANGED <<runVars, step, cost, exit, refused, callVars, sandboxVars>>

\* The agent's command, or the one the judge runs again, ignores the SIGTERM of
\* its timeout: DockerSandbox.exec waits for it without a deadline.
CommandHangs ==
    /\ phase = "act"
    /\ phase' = "hung"
    /\ UNCHANGED <<runVars, step, cost, ended, exit, refused, callVars, sandboxVars>>

\* Nothing to summarize.
NextStep ==
    /\ phase = "acted"
    /\ phase' = "request"
    /\ UNCHANGED <<runVars, step, cost, ended, exit, refused, callVars, sandboxVars>>

StepsExhausted ==
    /\ phase = "request" /\ step = MaxSteps
    /\ Leave(Returned("exhausted", 3, FALSE))
    /\ UNCHANGED <<runVars, step, cost, exit, refused, callVars, sandboxVars>>

\* sandbox_session's finally, before execute_run sees the exception.  A failing
\* removal replaces it by one that nothing catches.
Stop ==
    /\ phase = "stopping"
    /\ \/ StopRemoves /\ (IF ended = Raised(Crashed) THEN Crash
                          ELSE phase' = "ended" /\ UNCHANGED exit)
       \/ StopFails /\ Crash
    /\ UNCHANGED <<runVars, step, cost, ended, refused, callVars>>

Over == phase \in {"reported", "aborted", "crashed", "listed"}

\* The process is killed: no finally runs.
Killed ==
    /\ ~Over
    /\ Crash
    /\ handle' = NoRun /\ abandoned' = abandoned \cup ({handle} \ {NoRun})
    /\ UNCHANGED <<runVars, step, cost, ended, refused, callVars, containers>>

-----------------------------------------------------------------------------

Step ==
    \/ Configure \/ NextCase \/ ScoreReturned \/ ScoreRaised \/ AbortSuite \/ WriteReport
    \/ Prepare \/ Start \/ SetupFails
    \/ Ask \/ AskSummary \/ Summarized \/ AskCompacted \/ Retry \/ AskRefused
    \/ Answered \/ Act \/ NextStep \/ StepsExhausted \/ Stop

Next == Step \/ CommandHangs \/ Killed

\* The command is one thread that never waits for another: it never stops between
\* two of its steps.  That a call of the provider's SDK or of the Docker daemon
\* returns or raises is assumed of them; that a command in the container does is
\* not, and nothing makes it hang either.
Spec == Init /\ [][Next]_vars /\ WF_vars(Step)

-----------------------------------------------------------------------------
(* Properties *)

Dearest(m) ==
    CHOOSE c \in {Bill(m, r) : r \in Reports} : \A r \in Reports : Bill(m, r) <= c

TypeOK ==
    /\ CallTypeOK /\ SandboxTypeOK
    /\ main \in Models /\ utility \in Models
    /\ maxCost \in Nat /\ policy \in Policies
    /\ maxTotal \in Nat /\ ceiling \in Nat
    /\ pos \in 0 .. NumCases /\ step \in 0 .. MaxSteps
    /\ spent \in Nat /\ cost \in Nat
    /\ exit \in {Running, 1, Usage} /\ refused \subseteq Status

\* A suite with a ceiling, whose runs have one too, is over it by at most one
\* step: what the last completion cost and the two summaries no check has seen
\* yet (bench_run passes on what is left; Runner compares after a completion).
\* With --max-cost 0 there is no bound: min(0, left) is 0, which is no ceiling.
\* docs/CLI.md promises more, see RemainderKept.
SuiteOvershootBounded ==
    maxTotal > 0 /\ maxCost > 0 => spent < maxTotal + Dearest(main) + 2 * Dearest(utility)

\* What the results say their runs cost, added up.
Counted(res) ==
    LET upTo[n \in 0 .. Len(res)] == IF n = 0 THEN 0 ELSE upTo[n - 1] + res[n].cost
    IN  upTo[Len(res)]

\* What the suite holds against its ceiling is what its report adds up to.  A run
\* that ended falls short of what it paid by no more than its last two summaries;
\* one that broke is scored at no cost, whatever it had paid (bench_run's except
\* clause).  docs/CLI.md has every call counted, see RunLoop.FinalFigureRecorded.
OnlyBrokenRunsUncounted ==
    /\ spent = Counted(results)
    /\ \A i \in DOMAIN results :
          LET res == results[i] IN
          IF res.broke THEN res.cost = 0
          ELSE res.cost <= res.paid /\ res.paid <= res.cost + 2 * Dearest(utility)

\* A report covers every case that was begun, in order; the command exits 1
\* exactly when some run finalized a wrong flag, gated or not; and the gate is
\* met only by two gated runs whose claims were right, with none wrong.  A policy
\* of strict, which only the command line overrides, claims nothing (score,
\* BenchReport, resolve_approval).
ReportTellsAll ==
    phase = "reported" =>
        /\ Len(results) = pos /\ \A i \in 1 .. pos : results[i].case = i
        /\ (exit = 1) = (\E i \in 1 .. pos : results[i].claimed /\ ~results[i].right)
        /\ GateMet =>
              /\ \A i \in 1 .. pos : Gated[i] /\ results[i].claimed => results[i].right
              /\ \E i, j \in 1 .. pos :
                    i # j /\ Gated[i] /\ Gated[j] /\ results[i].claimed /\ results[j].claimed
        /\ policy = "strict" => exit = 0 /\ ~GateMet

\* A refusal of the credentials, or of the account unless it comes as a rate
\* limit, is final for the command: no retry, no next step and no next case asks
\* a provider again (auth_error and billing_error are no TransientProviderError;
\* bench_run aborts on UsageError).  A 429 is taken for a rate limit whatever it
\* says, see UnpaidIsFinal.
NoCallAfterRefusal == refused \ {"rate_limit"} # {} => call # "asking"

\* Whatever the provider and the agent answer, the command ends: steps, attempts
\* and cases are all bounded; unless a command in the container ignores the
\* SIGTERM of its timeout, which it then waits for without end.
SuiteEnds == <>(Over \/ phase = "hung")

\* docs/CLI.md: --max-total-cost never lets one run overshoot the remainder.
\* Refuted: a run meets its ceiling only after the completion that crossed it,
\* and its summaries meet it later still.
RemainderKept == maxTotal > 0 => spent <= maxTotal

\* docs/CLI.md: exit 6 for an account out of credit, which never clears on retry.
\* Refuted: OpenAI says insufficient_quota in a 429, which is caught as a rate
\* limit, asked for again, given up as exit 5, and asked for in the next case.
UnpaidIsFinal == refused # {} => call # "asking"
=============================================================================
