---------------------------- MODULE ProviderCalls ----------------------------
(***************************************************************************)
(* One completion: providers/base.complete_with_retry over an adapter, and *)
(* what providers/cost.CostLedger records of it.  An adapter turns the     *)
(* SDK's error into one of the exceptions below and the tokens a provider  *)
(* reports into the four counts the ledger prices.                         *)
(***************************************************************************)
EXTENDS Integers

CONSTANTS Attempts,       \* DEFAULT_RETRY_ATTEMPTS
          MaxRetryAfter,  \* MAX_RETRY_AFTER_S
          MaxBackoff,     \* the longest wait of the exponential schedule
          Delays,         \* waits a provider may ask for
          NoDelay,        \* ... and none stated
          Reports,        \* the token counts a provider may report
          Models          \* ModelInfo: its adapter, and its prices

Provider == {"anthropic", "openai", "google"}
Report == [prompt : Nat, cached : Nat, written : Nat, output : Nat, thoughts : Nat]

\* in, out: prices of a token; cached: what a cached one costs, in percent of in.
ModelInfo == [provider : Provider, in : Nat, out : Nat, cached : 0 .. 100]

\* random.uniform(0, 1) is rounded to one of its bounds, in seconds.
Jitter == {0, 1}

ASSUME CallAssumption ==
    /\ Attempts \in Nat \ {0} /\ MaxRetryAfter \in Nat /\ MaxBackoff \in Nat
    /\ \A i \in 0 .. Attempts - 1 : 2 ^ i \in Nat /\ 2 ^ i + 1 <= MaxBackoff
    /\ Delays \subseteq Nat /\ NoDelay \notin Nat
    /\ Reports \subseteq Report
    /\ Models \subseteq ModelInfo

VARIABLES model,      \* the one asked: --model, or the utility model
          call,       \* "idle", "asking", or how the completion ended
          attempt,    \* completions asked for and not answered with one
          waited,     \* seconds slept in this completion
          ledger,     \* [total, entries] of the run's CostLedger
          owed        \* history: the least and the most its tokens can cost

callVars == <<model, call, attempt, waited, ledger, owed>>

-----------------------------------------------------------------------------
(* What the adapters make of a response *)

CachedOutsidePrompt == {"anthropic"}
ThoughtsOutsideOutput == {"google"}

Excess(a, b) == IF a > b THEN a - b ELSE 0

\* Mutant: thinking tokens dropped.
UsageWithoutThoughts(p, r) ==
    [input |-> IF p \in CachedOutsidePrompt THEN r.prompt ELSE Excess(r.prompt, r.cached),
     output |-> r.output, read |-> r.cached,
     write |-> IF p \in CachedOutsidePrompt THEN r.written ELSE 0]

\* Usage: uncached input, output, cache reads and writes.  OpenAI and Google
\* count cached tokens in the prompt, Google counts thoughts outside the output.
UsageOf(p, r) ==
    [input |-> IF p \in CachedOutsidePrompt THEN r.prompt ELSE Excess(r.prompt, r.cached),
     output |-> r.output + (IF p \in ThoughtsOutsideOutput THEN r.thoughts ELSE 0),
     read |-> r.cached,
     write |-> IF p \in CachedOutsidePrompt THEN r.written ELSE 0]

\* All that the provider counted on either side (for the history variable).
InputCount(p, r) ==
    IF p \in CachedOutsidePrompt THEN r.prompt + r.cached + r.written
    ELSE IF r.prompt > r.cached THEN r.prompt ELSE r.cached
OutputCount(p, r) == r.output + (IF p \in ThoughtsOutsideOutput THEN r.thoughts ELSE 0)

\* CostLedger.record, in hundredths of the unit of Prices.
Cost(m, usage) ==
    usage.input * 100 * m.in + usage.write * 125 * m.in
    + usage.read * m.cached * m.in + usage.output * 100 * m.out

Bill(m, r) == Cost(m, UsageOf(m.provider, r))
Least(m, r) == m.cached * m.in * InputCount(m.provider, r) + 100 * m.out * OutputCount(m.provider, r)
Most(m, r) == 125 * m.in * InputCount(m.provider, r) + 100 * m.out * OutputCount(m.provider, r)

NewLedger == [total |-> 0, entries |-> 0]
NothingOwed == [least |-> 0, most |-> 0, answers |-> 0]

-----------------------------------------------------------------------------
(* What the adapters make of an error *)

Status == {"rate_limit", "overloaded", "connection", "credentials", "bad_request"}
\* unpaid: it says that the account is out of credit.
ApiError == {e \in [status : Status, unpaid : BOOLEAN, after : Delays \cup {NoDelay}] :
               e.unpaid => e.status \in {"rate_limit", "credentials", "bad_request"}}

\* Only the Google adapter lists its exceptions by number, and an exception
\* that is not the SDK's APIError passes through it.
Transient(p) == {"rate_limit", "overloaded"} \cup (IF p = "google" THEN {} ELSE {"connection"})

\* The except clauses in order, then auth_error, api_error and billing_error.
\* A billing marker is looked for only in what no clause before it took.
Exception(p, e) ==
    IF e.status \in Transient(p) THEN "transient"
    ELSE IF e.status = "connection" THEN "uncaught"
    ELSE IF e.status = "credentials" \/ e.unpaid THEN "usage_error"
    ELSE "provider_error"

\* Only Gemini's wait is read out of its error text.
RetryAfter(p, e) == IF p = "google" THEN e.after ELSE NoDelay

\* Mutant: the provider's wait is taken as it is.
UncappedWait(n, jitter, after) ==
    IF after = NoDelay \/ after < 2 ^ n + jitter THEN 2 ^ n + jitter ELSE after

\* The sleep after attempt n: max(backoff, min(retry_after, cap)).
Wait(n, jitter, after) ==
    LET backoff == 2 ^ n + jitter
        capped == IF after < MaxRetryAfter THEN after ELSE MaxRetryAfter
    IN  IF after = NoDelay \/ capped < backoff THEN backoff ELSE capped

LongestWait == IF MaxBackoff > MaxRetryAfter THEN MaxBackoff ELSE MaxRetryAfter

-----------------------------------------------------------------------------
(* complete_with_retry *)

BeginCall(m) ==
    /\ call # "asking"
    /\ call' = "asking" /\ model' = m /\ attempt' = 0 /\ waited' = 0
    /\ UNCHANGED <<ledger, owed>>

Served(r) ==
    /\ call = "asking"
    /\ call' = "served"
    /\ ledger' = [total |-> ledger.total + Bill(model, r), entries |-> ledger.entries + 1]
    /\ owed' = [least |-> owed.least + Least(model, r), most |-> owed.most + Most(model, r),
                answers |-> owed.answers + 1]
    /\ attempt' = 0 /\ waited' = 0
    /\ UNCHANGED model

\* TransientProviderError: sleep and go round, or give up without a sleep.
TransientlyFails(e, jitter) ==
    /\ call = "asking" /\ Exception(model.provider, e) = "transient"
    /\ attempt' = attempt + 1
    /\ IF attempt < Attempts - 1
       THEN /\ waited' = waited + Wait(attempt, jitter, RetryAfter(model.provider, e))
            /\ UNCHANGED call
       ELSE call' = "provider_error" /\ UNCHANGED waited
    /\ UNCHANGED <<model, ledger, owed>>

\* Any other exception leaves complete_with_retry as it came.
Refused(e) ==
    /\ call = "asking" /\ Exception(model.provider, e) # "transient"
    /\ call' = Exception(model.provider, e)
    /\ attempt' = 0 /\ waited' = 0
    /\ UNCHANGED <<model, ledger, owed>>

-----------------------------------------------------------------------------
(* What holds of it *)

CallTypeOK ==
    /\ model \in Models
    /\ call \in {"idle", "asking", "served", "provider_error", "usage_error", "uncaught"}
    /\ attempt \in Nat /\ waited \in Nat
    /\ ledger \in [total : Nat, entries : Nat]
    /\ owed \in [least : Nat, most : Nat, answers : Nat]

\* However a provider answers, a completion is asked for at most Attempts times
\* and slept for at most LongestWait between two of them, and it is only given
\* up as transient after exactly Attempts (complete_with_retry; the cap on
\* retry_after).  The sleeps and the attempts are counted apart.
RetryBounded ==
    /\ call = "asking" => attempt < Attempts
    /\ attempt <= Attempts
    /\ waited <= attempt * LongestWait
    /\ attempt = Attempts => waited <= (Attempts - 1) * LongestWait

\* Whatever was retried in between, the ledger holds one entry for each answer
\* of the provider, and its total charges every token the provider counted at
\* least at the cached and at most at the cache-write rate: no token is free,
\* none is paid twice (the adapters' _usage, CostLedger.record).
EveryTokenBilledOnce ==
    /\ ledger.entries = owed.answers
    /\ owed.least <= ledger.total /\ ledger.total <= owed.most
=============================================================================
