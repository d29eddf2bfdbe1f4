--------------------------- MODULE BenchSuiteProofs ---------------------------
(***************************************************************************)
(* What holds of `runectl bench run` for any number of cases, steps and    *)
(* attempts, any prices and any token counts.                              *)
(***************************************************************************)
EXTENDS BenchSuite, FiniteSetTheorems, WellFoundedInduction, TLAPS

-----------------------------------------------------------------------------
(* Products                                                                   *)

LEMMA ProductTyped == ASSUME NEW a \in Nat, NEW b \in Nat PROVE a * b \in Nat
  OBVIOUS

LEMMA ProductMono ==
    ASSUME NEW a \in Nat, NEW b \in Nat, NEW c \in Nat, a <= b
    PROVE  a * c <= b * c
  OBVIOUS

LEMMA ProductSpreads ==
    ASSUME NEW a \in Nat, NEW b \in Nat, NEW c \in Nat
    PROVE  c * (a + b) = c * a + c * b
  OBVIOUS

LEMMA ProductTurns ==
    ASSUME NEW a \in Nat, NEW b \in Nat, NEW c \in Nat
    PROVE  a * b = b * a /\ a * b * c = a * (b * c)
  OBVIOUS

\* n tokens at a price of p, in percent.
LEMMA Rated ==
    ASSUME NEW n \in Nat, NEW p \in Nat, NEW c \in 0 .. 100
    PROVE  /\ n * 100 * p \in Nat /\ n * 125 * p \in Nat /\ n * c * p \in Nat
           /\ c * p * n \in Nat /\ 125 * p * n \in Nat
           /\ n * 125 * p = 125 * p * n
           /\ n * c * p = c * p * n
           /\ c * p * n <= n * 100 * p /\ n * 100 * p <= 125 * p * n
           /\ c * p * n <= 125 * p * n
<1> DEFINE x == n * p
<1>1. x \in Nat
  BY ProductTyped
<1>2. /\ n * 100 * p = 100 * x /\ n * 125 * p = 125 * x /\ 125 * p * n = 125 * x
  OBVIOUS
<1>3. n * c * p = c * x /\ c * p * n = c * x
  OBVIOUS
<1> HIDE DEF x
<1>4. c * x <= 100 * x /\ c * x <= 125 * x /\ c * x \in Nat
  BY <1>1, ProductMono, ProductTyped
<1> QED
  BY <1>1, <1>2, <1>3, <1>4

-----------------------------------------------------------------------------
(* What a completion is billed                                                *)

LEMMA UsageTyped ==
    ASSUME NEW p \in Provider, NEW r \in Report
    PROVE  /\ UsageOf(p, r).input \in Nat /\ UsageOf(p, r).output \in Nat
           /\ UsageOf(p, r).read \in Nat /\ UsageOf(p, r).write \in Nat
           /\ UsageOf(p, r).output = OutputCount(p, r)
           /\ InputCount(p, r) \in Nat
  BY DEF UsageOf, Report, Excess, InputCount, OutputCount

\* Between the cached and the cache-write rate, whatever share was cached.
LEMMA BillBounds ==
    ASSUME NEW m \in ModelInfo, NEW r \in Report
    PROVE  /\ Bill(m, r) \in Nat /\ Least(m, r) \in Nat /\ Most(m, r) \in Nat
           /\ Least(m, r) <= Bill(m, r) /\ Bill(m, r) <= Most(m, r)
<1> DEFINE prov == m.provider
           usage == UsageOf(prov, r)
           price == m.in
           rate == m.cached
           n == InputCount(prov, r)
           out == 100 * m.out * OutputCount(prov, r)
           input == usage.input * 100 * price + usage.write * 125 * price
                    + usage.read * rate * price
<1>1. price \in Nat /\ rate \in 0 .. 100 /\ m.out \in Nat /\ prov \in Provider
  BY DEF ModelInfo
<1>2. /\ usage.input \in Nat /\ usage.output \in Nat /\ usage.read \in Nat
      /\ usage.write \in Nat /\ usage.output = OutputCount(prov, r) /\ n \in Nat
  BY <1>1, UsageTyped
<1>3. usage.output * 100 * m.out = out /\ out \in Nat
  <2> DEFINE o == usage.output
             q == m.out
  <2>1. o \in Nat /\ q \in Nat /\ o = OutputCount(prov, r)
    BY <1>1, <1>2
  <2>2. out = 100 * q * o
    BY <2>1
  <2> HIDE DEF o, q, out
  <2>3. 100 * q * o = o * 100 * q /\ 100 * q * o \in Nat
    BY <2>1, ProductTyped, ProductTurns
  <2> QED
    BY <2>2, <2>3 DEF o, q
<1>4. Bill(m, r) = input + out
  BY <1>3 DEF Bill, Cost
<1>5. Least(m, r) = rate * price * n + out /\ Most(m, r) = 125 * price * n + out
  BY DEF Least, Most
<1>6. /\ input \in Nat /\ rate * price * n \in Nat /\ 125 * price * n \in Nat
      /\ rate * price * n <= input /\ input <= 125 * price * n
  <2> HIDE DEF price, rate
  <2>1. CASE prov \in CachedOutsidePrompt
    <3> DEFINE a == r.prompt
               b == r.cached
               w == r.written
    <3>1. a \in Nat /\ b \in Nat /\ w \in Nat
      BY DEF Report
    <3>2. usage.input = a /\ usage.write = w /\ usage.read = b /\ n = a + b + w
      BY <2>1 DEF UsageOf, InputCount
    <3> HIDE DEF a, b, w, n, usage
    <3>3. input = a * 100 * price + w * 125 * price + b * rate * price
      BY <3>2
    <3> HIDE DEF input
    <3>4. /\ rate * price * n = rate * price * a + rate * price * b + rate * price * w
          /\ 125 * price * n = 125 * price * a + 125 * price * b + 125 * price * w
      BY <1>1, <3>1, <3>2
    <3>5. /\ rate * price * a \in Nat /\ rate * price * b \in Nat /\ rate * price * w \in Nat
          /\ 125 * price * a \in Nat /\ 125 * price * b \in Nat /\ 125 * price * w \in Nat
          /\ a * 100 * price \in Nat /\ w * 125 * price \in Nat /\ b * rate * price \in Nat
          /\ rate * price * a <= a * 100 * price /\ a * 100 * price <= 125 * price * a
          /\ rate * price * w <= w * 125 * price /\ w * 125 * price = 125 * price * w
          /\ rate * price * b = b * rate * price /\ b * rate * price <= 125 * price * b
      BY <1>1, <3>1, Rated
    <3> QED
      BY <3>3, <3>4, <3>5
  <2>2. CASE prov \notin CachedOutsidePrompt
    <3> DEFINE a == Excess(r.prompt, r.cached)
               b == r.cached
    <3>1. a \in Nat /\ b \in Nat
      BY DEF Report, Excess
    <3>2. usage.input = a /\ usage.write = 0 /\ usage.read = b /\ n = a + b
      BY <2>2 DEF UsageOf, InputCount, Excess, Report
    <3> HIDE DEF a, b, n, usage
    <3>3. input = a * 100 * price + 0 * 125 * price + b * rate * price
      BY <3>2
    <3> HIDE DEF input
    <3>4. /\ rate * price * n = rate * price * a + rate * price * b
          /\ 125 * price * n = 125 * price * a + 125 * price * b
          /\ 0 * 125 * price = 0
      BY <1>1, <3>1, <3>2
    <3>5. /\ rate * price * a \in Nat /\ rate * price * b \in Nat
          /\ 125 * price * a \in Nat /\ 125 * price * b \in Nat
          /\ a * 100 * price \in Nat /\ b * rate * price \in Nat
          /\ rate * price * a <= a * 100 * price /\ a * 100 * price <= 125 * price * a
          /\ rate * price * b = b * rate * price /\ b * rate * price <= 125 * price * b
      BY <1>1, <3>1, Rated
    <3> QED
      BY <3>3, <3>4, <3>5
  <2> QED
    BY <2>1, <2>2
<1> HIDE DEF input, out, n, price, rate
<1> QED
  BY <1>3, <1>4, <1>5, <1>6

-----------------------------------------------------------------------------
(* One completion: all that a suite does to it is one of complete_with_retry's *)
(* steps, or making it ready for the next run.                                *)

NewCalls ==
    /\ call' = "idle" /\ attempt' = 0 /\ waited' = 0 /\ model' = main
    /\ ledger' = NewLedger /\ owed' = NothingOwed

CallStep ==
    \/ UNCHANGED callVars
    \/ NewCalls
    \/ \E m \in {main, utility} : BeginCall(m)
    \/ \E r \in Reports : Served(r)
    \/ \E e \in ApiError, jitter \in Jitter : TransientlyFails(e, jitter)
    \/ \E e \in ApiError : Refused(e)

LEMMA SuiteDrivesCalls == [Next]_vars => CallStep
<1> SUFFICES ASSUME [Next]_vars PROVE CallStep
  OBVIOUS
<1>1. CASE UNCHANGED vars
  BY <1>1 DEF vars, CallStep
<1>2. CASE Configure \/ ScoreReturned \/ ScoreRaised \/ AbortSuite \/ WriteReport
  BY <1>2 DEF Configure, ScoreReturned, ScoreRaised, AbortSuite, WriteReport, CallStep
<1>3. CASE NextCase
  BY <1>3 DEF NextCase, CallStep, NewCalls
<1>4. CASE Prepare \/ Start \/ SetupFails
  BY <1>4 DEF Prepare, Start, SetupFails, CallStep
<1>5. CASE Ask \/ AskSummary \/ AskCompacted
  BY <1>5 DEF Ask, AskSummary, AskCompacted, CallStep
<1>6. CASE Summarized \/ Answered
  BY <1>6 DEF Summarized, Answered, CallStep
<1>7. CASE Retry \/ AskRefused
  BY <1>7 DEF Retry, AskRefused, CallStep
<1>8. CASE Act \/ NextStep \/ CommandHangs \/ StepsExhausted \/ Stop \/ Killed
  BY <1>8 DEF Act, NextStep, CommandHangs, StepsExhausted, Stop, Killed, CallStep
<1> QED
  BY <1>1, <1>2, <1>3, <1>4, <1>5, <1>6, <1>7, <1>8 DEF Next, Step

LEMMA WaitBounded ==
    ASSUME NEW n \in 0 .. Attempts - 1, NEW jitter \in Jitter, NEW after \in Delays \cup {NoDelay}
    PROVE  Wait(n, jitter, after) \in 0 .. LongestWait
<1> DEFINE power == 2 ^ n
<1>1. /\ power \in Nat /\ power + 1 <= MaxBackoff
      /\ MaxBackoff \in Nat /\ MaxRetryAfter \in Nat
      /\ after # NoDelay => after \in Nat
  BY CallAssumption
<1> HIDE DEF power
<1>2. jitter = 0 \/ jitter = 1
  BY DEF Jitter
<1>3. LongestWait \in Nat /\ MaxBackoff <= LongestWait /\ MaxRetryAfter <= LongestWait
  BY <1>1 DEF LongestWait
<1>4. power + jitter \in Nat /\ power + jitter <= LongestWait
  BY <1>1, <1>2, <1>3
<1> DEFINE backoff == power + jitter
           capped == IF after < MaxRetryAfter THEN after ELSE MaxRetryAfter
<1>5. after # NoDelay => capped \in Nat /\ capped <= LongestWait
  BY <1>1, <1>3
<1>6. Wait(n, jitter, after) = IF after = NoDelay \/ capped < backoff THEN backoff ELSE capped
  BY DEF Wait, power
<1> HIDE DEF backoff, capped
<1>7. backoff \in Nat /\ backoff <= LongestWait
  BY <1>4 DEF backoff
<1> QED
  BY <1>3, <1>5, <1>6, <1>7

LEMMA RetriesStep ==
    ASSUME CallTypeOK, RetryBounded, main \in Models, utility \in Models, CallStep
    PROVE  RetryBounded' /\ attempt' \in Nat /\ waited' \in Nat
<1>0. /\ Attempts \in Nat \ {0} /\ attempt \in Nat /\ waited \in Nat
      /\ LongestWait \in Nat
  BY CallAssumption DEF CallTypeOK, LongestWait
<1>1. CASE UNCHANGED callVars
  BY <1>0, <1>1 DEF callVars, RetryBounded
<1>2. CASE attempt' = 0 /\ waited' = 0
  <2>1. 0 * LongestWait = 0 /\ (Attempts - 1) * LongestWait \in Nat
    BY <1>0, ProductTyped
  <2> HIDE DEF LongestWait
  <2> QED
    BY <1>0, <1>2, <2>1 DEF RetryBounded
<1>3. CASE \E e \in ApiError, jitter \in Jitter : TransientlyFails(e, jitter)
  <2>1. PICK e \in ApiError, jitter \in Jitter : TransientlyFails(e, jitter)
    BY <1>3
  <2>2. call = "asking" /\ attempt < Attempts /\ attempt' = attempt + 1
    BY <2>1 DEF TransientlyFails, RetryBounded
  <2>3. waited <= attempt * LongestWait
    BY DEF RetryBounded
  <2>4. attempt * LongestWait \in Nat /\ (attempt + 1) * LongestWait = attempt * LongestWait + LongestWait
    BY <1>0, ProductTyped
  <2>5. CASE attempt < Attempts - 1
    <3> DEFINE w == Wait(attempt, jitter, RetryAfter(model.provider, e))
    <3>1. waited' = waited + w /\ call' = call
      BY <2>1, <2>5 DEF TransientlyFails
    <3>2. attempt \in 0 .. Attempts - 1
      BY <1>0, <2>5
    <3>3. RetryAfter(model.provider, e) \in Delays \cup {NoDelay}
      BY DEF RetryAfter, ApiError
    <3>4. w \in 0 .. LongestWait
      BY <3>2, <3>3, WaitBounded
    <3> HIDE DEF w
    <3>5. waited' \in Nat /\ waited' <= (attempt + 1) * LongestWait
      BY <1>0, <2>3, <2>4, <3>1, <3>4
    <3>6. attempt' < Attempts /\ attempt' # Attempts
      BY <1>0, <2>2, <2>5
    <3> QED
      BY <1>0, <2>2, <3>5, <3>6 DEF RetryBounded
  <2>6. CASE ~(attempt < Attempts - 1)
    <3>1. waited' = waited /\ call' = "provider_error" /\ attempt = Attempts - 1
      BY <1>0, <2>1, <2>2, <2>6 DEF TransientlyFails
    <3>2. waited' <= (attempt + 1) * LongestWait /\ waited' <= (Attempts - 1) * LongestWait
      BY <1>0, <2>3, <2>4, <3>1
    <3>3. attempt' = Attempts
      BY <1>0, <2>2, <3>1
    <3> QED
      BY <1>0, <2>2, <3>1, <3>2, <3>3 DEF RetryBounded
  <2> QED
    BY <2>5, <2>6
<1>4. CASE \E e \in ApiError : Refused(e)
  <2>1. attempt' = 0 /\ waited' = 0
    BY <1>4 DEF Refused
  <2> QED
    BY <1>2, <2>1
<1>5. NewCalls \/ (\E m \in {main, utility} : BeginCall(m)) \/ (\E r \in Reports : Served(r))
      => attempt' = 0 /\ waited' = 0
  BY DEF NewCalls, BeginCall, Served
<1> QED
  BY <1>1, <1>2, <1>3, <1>4, <1>5 DEF CallStep

LEMMA LedgerStep ==
    ASSUME CallTypeOK, EveryTokenBilledOnce, main \in Models, utility \in Models, CallStep
    PROVE  /\ EveryTokenBilledOnce'
           /\ ledger' \in [total : Nat, entries : Nat]
           /\ owed' \in [least : Nat, most : Nat, answers : Nat]
<1>0. /\ ledger \in [total : Nat, entries : Nat]
      /\ owed \in [least : Nat, most : Nat, answers : Nat]
  BY DEF CallTypeOK
<1>1. CASE UNCHANGED <<ledger, owed>>
  BY <1>0, <1>1 DEF EveryTokenBilledOnce
<1>2. CASE NewCalls
  BY <1>2 DEF NewCalls, NewLedger, NothingOwed, EveryTokenBilledOnce
<1>3. CASE \E r \in Reports : Served(r)
  <2>1. PICK r \in Reports : Served(r)
    BY <1>3
  <2> DEFINE bill == Bill(model, r)
             least == Least(model, r)
             most == Most(model, r)
  <2>2. /\ bill \in Nat /\ least \in Nat /\ most \in Nat /\ least <= bill /\ bill <= most
    BY BillBounds, CallAssumption DEF CallTypeOK
  <2>3. /\ ledger' = [total |-> ledger.total + bill, entries |-> ledger.entries + 1]
        /\ owed' = [least |-> owed.least + least, most |-> owed.most + most,
                    answers |-> owed.answers + 1]
    BY <2>1 DEF Served
  <2> HIDE DEF bill, least, most
  <2> QED
    BY <1>0, <2>2, <2>3 DEF EveryTokenBilledOnce
<1>4. CASE UNCHANGED callVars
  BY <1>1, <1>4 DEF callVars
<1>5. ASSUME NEW m \in {main, utility}, BeginCall(m) PROVE UNCHANGED <<ledger, owed>>
  BY <1>5 DEF BeginCall
<1>6. ASSUME NEW e \in ApiError, Refused(e) \/ \E jitter \in Jitter : TransientlyFails(e, jitter)
      PROVE  UNCHANGED <<ledger, owed>>
  BY <1>6 DEF Refused, TransientlyFails
<1> QED
  BY <1>1, <1>2, <1>3, <1>4, <1>5, <1>6 DEF CallStep

CallInv ==
    /\ CallTypeOK /\ RetryBounded /\ EveryTokenBilledOnce
    /\ main \in Models /\ utility \in Models

LEMMA AskedTyped == ASSUME NEW m \in MainModels, NEW u \in Utilities(m) PROVE m \in Models /\ u \in Models
  BY SuiteAssumption DEF Utilities

LEMMA CallInit == Init => CallInv
<1> SUFFICES ASSUME Init PROVE CallInv
  OBVIOUS
<1>1. main \in Models /\ utility \in Models /\ model = main
  BY AskedTyped DEF Init
<1>2. /\ call = "idle" /\ attempt = 0 /\ waited = 0
      /\ ledger = [total |-> 0, entries |-> 0]
      /\ owed = [least |-> 0, most |-> 0, answers |-> 0]
  BY DEF Init, NewLedger, NothingOwed
<1>3. CallTypeOK /\ EveryTokenBilledOnce
  BY <1>1, <1>2 DEF CallTypeOK, EveryTokenBilledOnce
<1>4. RetryBounded
  <2>1. Attempts \in Nat \ {0} /\ LongestWait \in Nat
    BY CallAssumption DEF LongestWait
  <2>2. 0 * LongestWait = 0
    BY <2>1
  <2> QED
    BY <1>2, <2>1, <2>2 DEF RetryBounded
<1> QED
  BY <1>1, <1>3, <1>4 DEF CallInv

LEMMA CallInvStep == CallInv /\ [Next]_vars => CallInv'
<1> SUFFICES ASSUME CallInv, [Next]_vars PROVE CallInv'
  OBVIOUS
<1>0. CallStep
  BY SuiteDrivesCalls
<1>1. main' = main /\ utility' = utility
  BY DEF Next, Step, vars, suiteVars, asked, runVars, Configure, NextCase, ScoreReturned,
     ScoreRaised, AbortSuite, WriteReport, Prepare, Start, SetupFails, Ask, AskSummary,
     Summarized, AskCompacted, Retry, AskRefused, Answered, Act, NextStep, CommandHangs,
     StepsExhausted, Stop, Killed
<1>2. RetryBounded' /\ attempt' \in Nat /\ waited' \in Nat
  BY <1>0, RetriesStep DEF CallInv
<1>3. /\ EveryTokenBilledOnce'
      /\ ledger' \in [total : Nat, entries : Nat]
      /\ owed' \in [least : Nat, most : Nat, answers : Nat]
  BY <1>0, LedgerStep DEF CallInv
<1>4. /\ model' \in Models
      /\ call' \in {"idle", "asking", "served", "provider_error", "usage_error", "uncaught"}
  BY <1>0 DEF CallInv, CallTypeOK, CallStep, callVars, NewCalls, BeginCall, Served,
     TransientlyFails, Refused, Exception
<1> QED
  BY <1>1, <1>2, <1>3, <1>4 DEF CallInv, CallTypeOK

\* However often a provider fails and whatever wait it asks for, complete_with_retry
\* asks at most Attempts times and sleeps at most LongestWait before each retry.
THEOREM RetriesAreBounded == Spec => []RetryBounded
<1>1. CallInv => RetryBounded
  BY DEF CallInv
<1> QED
  BY <1>1, CallInit, CallInvStep, PTL DEF Spec

\* For any prices and any token counts a provider reports, the ledger has one
\* entry for each answer and charges every token between its cached and its
\* cache-write rate, whichever adapter counted it.
THEOREM TokensAreBilledOnce == Spec => []EveryTokenBilledOnce
<1>1. CallInv => EveryTokenBilledOnce
  BY DEF CallInv
<1> QED
  BY <1>1, CallInit, CallInvStep, PTL DEF Spec

-----------------------------------------------------------------------------
(* The suite                                                                  *)

Phases == {"options", "loop", "prepare", "start", "request", "compacting",
           "asking_compacted", "asking", "act", "hung", "acted", "rendering", "stopping",
           "ended", "reported", "aborted", "crashed", "listed"}
InRun == phase \in {"prepare", "start", "request", "compacting", "asking_compacted",
                    "asking", "act", "hung", "acted", "rendering", "stopping", "ended"}

SuiteTyped ==
    /\ phase \in Phases
    /\ maxCost \in Nat /\ policy \in Policies
    /\ maxTotal \in Nat /\ ceiling \in Nat
    /\ pos \in 0 .. NumCases /\ step \in 0 .. MaxSteps
    /\ spent \in Nat /\ cost \in Nat
    /\ exit \in {Running, 1, Usage} /\ refused \subseteq Status
    /\ InRun => pos >= 1
    /\ phase \in {"compacting", "asking_compacted"} => step < MaxSteps

LEMMA SuiteInit == Init => SuiteTyped
<1> SUFFICES ASSUME Init PROVE SuiteTyped
  OBVIOUS
<1>1. /\ phase = "options" /\ maxCost = DefaultMaxCost /\ policy = "gated"
      /\ maxTotal \in MaxTotals /\ pos = 0 /\ spent = 0 /\ ceiling = 0 /\ step = 0
      /\ cost = 0 /\ exit = Running /\ refused = {}
  BY DEF Init
<1>2. NumCases \in Nat /\ MaxSteps \in Nat /\ maxTotal \in Nat /\ maxCost \in Nat
  BY <1>1, SuiteAssumption, PreflightAssumption DEF NumCases
<1>3. phase \in Phases /\ ~InRun /\ policy \in Policies
  BY <1>1 DEF Phases, InRun, Policies
<1>4. pos \in 0 .. NumCases /\ step \in 0 .. MaxSteps
  BY <1>1, <1>2
<1> QED
  BY <1>1, <1>2, <1>3, <1>4 DEF SuiteTyped

\* Options that are refused are not kept.
LEMMA ConfigureTyped == SuiteTyped /\ Configure => SuiteTyped'
<1> SUFFICES ASSUME SuiteTyped, Configure PROVE SuiteTyped'
  OBVIOUS
<1>1. /\ UNCHANGED <<maxTotal, ceiling, pos, step, spent, cost, refused>>
      /\ phase' \in {"aborted", "crashed", "loop", "listed"}
      /\ exit' \in {exit, Usage, Crashed}
  BY DEF Configure, Refuse, Crash
<1>2. maxCost' \in Nat /\ policy' \in Policies
  <2>1. PICK flag \in CostFlags, setting \in CostSettings,
             policyFlag \in PolicyFlags, policySetting \in PolicySettings :
          LET limit == ResolveMaxCost(flag, setting)
              approval == ResolveApproval(policyFlag, policySetting)
          IN \/ UNCHANGED <<maxCost, policy>>
             \/ /\ Malformed \notin {limit, approval}
                /\ maxCost' = limit /\ policy' = approval
    BY DEF Configure
  <2> DEFINE limit == ResolveMaxCost(flag, setting)
             approval == ResolveApproval(policyFlag, policySetting)
  <2>2. UNCHANGED <<maxCost, policy>>
        \/ (Malformed \notin {limit, approval} /\ maxCost' = limit /\ policy' = approval)
    BY <2>1
  <2>3. limit \in Nat \cup {Malformed}
    BY SuiteAssumption, PreflightAssumption DEF ResolveMaxCost, Given
  <2>4. approval \in Policies \cup {Malformed}
    <3>1. policyFlag \in Policies \cup {NotGiven, Malformed}
          /\ policySetting \in Policies \cup {NotGiven, Malformed}
      BY SuiteAssumption
    <3>2. "gated" \in Policies
      BY DEF Policies
    <3> QED
      BY <3>1, <3>2 DEF ResolveApproval, Given
  <2> HIDE DEF limit, approval
  <2> QED
    BY <2>2, <2>3, <2>4 DEF SuiteTyped
<1> QED
  BY <1>1, <1>2 DEF SuiteTyped, InRun, Phases, Crashed

LEMMA NextCaseTyped == SuiteTyped /\ NextCase => SuiteTyped'
<1> SUFFICES ASSUME SuiteTyped, NextCase PROVE SuiteTyped'
  OBVIOUS
<1>0. NumCases \in Nat /\ MaxSteps \in Nat
  BY SuiteAssumption DEF NumCases
<1> HIDE DEF NumCases
<1>1. /\ pos < NumCases /\ pos' = pos + 1 /\ phase' = "prepare" /\ ceiling' = RunCeiling
      /\ step' = 0 /\ cost' = 0 /\ ~TotalSpent
      /\ UNCHANGED <<maxCost, policy, maxTotal, spent, exit, refused>>
  BY DEF NextCase, asked
<1>2. ceiling' \in Nat
  BY <1>1 DEF RunCeiling, Lesser, TotalSpent, SuiteTyped
<1>3. pos' \in 0 .. NumCases /\ pos' >= 1
  BY <1>0, <1>1 DEF SuiteTyped
<1> QED
  BY <1>0, <1>1, <1>2, <1>3 DEF SuiteTyped, InRun, Phases

\* Nothing but where the run stands, and how it ended, has changed.
LEMMA MovesTyped ==
    ASSUME SuiteTyped, InRun, phase' \in Phases, UNCHANGED <<asked, pos, ceiling, step, refused>>,
           phase' \notin {"compacting", "asking_compacted"},
           exit' \in {exit, Usage, Crashed}, spent' \in Nat, cost' \in Nat
    PROVE  SuiteTyped'
  BY DEF SuiteTyped, asked, Crashed, InRun

LEMMA DeniedTyped ==
    ASSUME SuiteTyped, NEW e \in ApiError, refused' = Denied(e)
    PROVE  refused' \subseteq Status
  BY DEF SuiteTyped, Denied, ApiError

LEMMA RunTyped ==
    ASSUME SuiteTyped, CallInv, CallInv',
           Prepare \/ Start \/ SetupFails \/ Ask \/ AskSummary \/ Summarized \/ AskCompacted
             \/ Retry \/ AskRefused \/ Answered \/ Act \/ NextStep \/ CommandHangs \/ StepsExhausted \/ Stop
    PROVE  SuiteTyped'
<1>0. MaxSteps \in Nat
  BY SuiteAssumption
<1>1. CASE Prepare
  <2>1. /\ phase = "prepare" /\ phase' \in {"start", "crashed", "ended"}
        /\ exit' \in {exit, Crashed} /\ UNCHANGED <<runVars, step, cost, refused>>
    <3> DEFINE Result_(code) ==
          CASE code = Running -> phase' = "start" /\ UNCHANGED <<ended, exit>>
            [] code = Crashed -> Crash /\ UNCHANGED ended
            [] OTHER -> phase' = "ended" /\ ended' = Raised(code) /\ UNCHANGED exit
    <3>1. PICK code : Result_(code)
      BY <1>1 DEF Prepare
    <3>2. Running # Crashed
      BY DEF Running, Crashed
    <3> QED
      BY <1>1, <3>1, <3>2 DEF Prepare, Crash
  <2> QED
    BY <2>1, MovesTyped DEF SuiteTyped, InRun, Phases, runVars
<1>2. CASE Start \/ SetupFails
  <2>1. /\ phase \in {"start", "request"} /\ phase' \in {"request", "ended", "stopping"}
        /\ UNCHANGED <<runVars, step, cost, exit, refused>>
    BY <1>2 DEF Start, SetupFails, Leave
  <2> QED
    BY <2>1, MovesTyped DEF SuiteTyped, InRun, Phases, runVars
<1>3. CASE Ask \/ AskCompacted
  <2>1. /\ phase \in {"request", "asking_compacted"} /\ phase' = "asking"
        /\ step' = step + 1 /\ step < MaxSteps
        /\ UNCHANGED <<runVars, cost, exit, refused>>
    BY <1>3 DEF Ask, AskCompacted, SuiteTyped
  <2>2. step' \in 0 .. MaxSteps
    BY <1>0, <2>1 DEF SuiteTyped
  <2> QED
    BY <2>1, <2>2 DEF SuiteTyped, InRun, Phases, runVars, asked
<1>4. CASE AskSummary
  <2>1. /\ phase \in {"request", "acted"} /\ phase' \in {"compacting", "rendering"}
        /\ phase' = "compacting" => step \in 1 .. MaxSteps - 1
        /\ UNCHANGED <<runVars, step, cost, exit, refused>>
    BY <1>4 DEF AskSummary
  <2>2. phase' = "compacting" => step < MaxSteps
    BY <1>0, <2>1
  <2> QED
    BY <2>1, <2>2 DEF SuiteTyped, InRun, Phases, runVars, asked
<1>5. CASE Summarized
  <2>1. /\ phase \in {"compacting", "rendering"}
        /\ phase' = IF phase = "compacting" THEN "asking_compacted" ELSE "request"
        /\ UNCHANGED <<runVars, step, cost, exit, refused>>
    BY <1>5 DEF Summarized
  <2> QED
    BY <2>1 DEF SuiteTyped, InRun, Phases, runVars, asked
<1>6. CASE Retry
  <2>1. /\ phase \in {"asking", "compacting", "rendering"} /\ phase' \in {phase, "stopping"}
        /\ UNCHANGED <<runVars, step, cost, exit>> /\ refused' \subseteq Status
    BY <1>6, DeniedTyped DEF Retry, Leave
  <2> QED
    BY <2>1 DEF SuiteTyped, InRun, Phases, runVars, asked
<1>7. CASE AskRefused
  <2>1. /\ phase \in {"asking", "compacting", "rendering"} /\ phase' = "stopping"
        /\ UNCHANGED <<runVars, step, cost, exit>> /\ refused' \subseteq Status
    BY <1>7, DeniedTyped DEF AskRefused, Leave
  <2> QED
    BY <2>1 DEF SuiteTyped, InRun, Phases, runVars, asked
<1>8. CASE Answered
  <2>1. /\ phase = "asking" /\ phase' \in {"stopping", "act"} /\ cost' = ledger'.total
        /\ UNCHANGED <<runVars, step, exit, refused>>
    BY <1>8 DEF Answered, Leave
  <2>2. cost' \in Nat
    BY <2>1 DEF CallInv, CallTypeOK
  <2> QED
    BY <2>1, <2>2, MovesTyped DEF SuiteTyped, InRun, Phases, runVars
<1>9. CASE Act \/ NextStep \/ CommandHangs \/ StepsExhausted
  <2>1. /\ phase \in {"act", "acted", "request"} /\ phase' \in {"stopping", "hung", "acted", "request"}
        /\ UNCHANGED <<runVars, step, cost, exit, refused>>
    BY <1>9 DEF Act, NextStep, CommandHangs, StepsExhausted, Leave
  <2> QED
    BY <2>1, MovesTyped DEF SuiteTyped, InRun, Phases, runVars
<1>10. CASE Stop
  <2>1. /\ phase = "stopping" /\ phase' \in {"ended", "crashed"} /\ exit' \in {exit, Crashed}
        /\ UNCHANGED <<runVars, step, cost, refused>>
    BY <1>10 DEF Stop, Crash
  <2> QED
    BY <2>1, MovesTyped DEF SuiteTyped, InRun, Phases, runVars
<1> QED
  BY <1>1, <1>2, <1>3, <1>4, <1>5, <1>6, <1>7, <1>8, <1>9, <1>10

LEMMA SuiteStep == SuiteTyped /\ CallInv /\ CallInv' /\ [Next]_vars => SuiteTyped'
<1> SUFFICES ASSUME SuiteTyped, CallInv, CallInv', [Next]_vars PROVE SuiteTyped'
  OBVIOUS
<1>1. CASE UNCHANGED vars
  BY <1>1 DEF vars, suiteVars, SuiteTyped, InRun
<1>2. CASE ScoreReturned \/ ScoreRaised \/ AbortSuite
  <2>1. /\ phase = "ended" /\ phase' \in {"loop", "aborted"} /\ exit' \in {exit, Usage}
        /\ spent' \in {spent, spent + cost} /\ UNCHANGED <<asked, pos, ceiling, step, cost, refused>>
    BY <1>2 DEF ScoreReturned, ScoreRaised, AbortSuite, Refuse, runVars
  <2>2. spent' \in Nat
    BY <2>1 DEF SuiteTyped
  <2> QED
    BY <2>1, <2>2, MovesTyped DEF SuiteTyped, InRun, Phases
<1>3. CASE WriteReport
  <2>1. /\ phase' = "reported" /\ exit' \in {0, 1}
        /\ UNCHANGED <<runVars, step, cost, refused>>
    BY <1>3 DEF WriteReport
  <2> QED
    BY <2>1 DEF SuiteTyped, InRun, Phases, runVars, asked, Running
<1>4. CASE Killed
  <2>1. phase' = "crashed" /\ exit' = Crashed /\ UNCHANGED <<runVars, step, cost, refused>>
    BY <1>4 DEF Killed, Crash
  <2> QED
    BY <2>1 DEF SuiteTyped, InRun, Phases, runVars, asked, Crashed
<1> QED
  BY <1>1, <1>2, <1>3, <1>4, ConfigureTyped, NextCaseTyped, RunTyped DEF Next, Step

-----------------------------------------------------------------------------
(* The containers                                                             *)

InSession == phase \in {"request", "compacting", "asking_compacted", "asking", "act",
                        "hung", "acted", "rendering", "stopping"}

\* The case in hand is the only one that can have a container, and a container
\* that was abandoned is of a case that was begun: never of one about to start,
\* whose name is therefore free.
Contained ==
    /\ SandboxTypeOK /\ NoContainerOutlives
    /\ handle \in {NoRun, pos}
    /\ ~InSession => handle = NoRun
    /\ abandoned \subseteq 1 .. pos
    /\ phase \in {"prepare", "start"} => pos \notin abandoned

LEMMA ContainedInit == Init => Contained
  BY DEF Init, SandboxInit, Contained, SandboxTypeOK, NoContainerOutlives, InSession

LEMMA ContainedMoves ==
    ASSUME Contained, UNCHANGED <<pos, sandboxVars>>, InSession => InSession',
           phase' \in {"prepare", "start"} => phase \in {"prepare", "start"}
    PROVE  Contained'
  BY DEF Contained, SandboxTypeOK, NoContainerOutlives, sandboxVars

LEMMA StartContained == SuiteTyped /\ Contained /\ Start => Contained'
<1> SUFFICES ASSUME SuiteTyped, Contained, Start PROVE Contained'
  OBVIOUS
<1>0. /\ phase = "start" /\ pos' = pos /\ handle = NoRun /\ pos \notin abandoned
      /\ abandoned \subseteq 1 .. pos
  BY DEF Start, Contained, InSession, runVars
<1>1. /\ pos \in Nat \ {0} /\ pos \in 1 .. pos /\ pos \in Runs /\ pos # NoRun
      /\ NoRun \notin Runs
  BY <1>0, SuiteAssumption, SandboxAssumption DEF SuiteTyped, InRun
<1>2. containers \subseteq abandoned /\ pos \notin containers
  BY <1>0 DEF Contained, NoContainerOutlives
<1>3. Namesakes(pos) = {{}}
  BY <1>2 DEF Namesakes
<1>4. CASE StartContainer(pos) /\ phase' = "request"
  <2>1. containers' = containers \cup {pos} /\ handle' = pos /\ abandoned' = abandoned
    BY <1>3, <1>4 DEF StartContainer
  <2> QED
    BY <1>0, <1>1, <1>2, <1>4, <2>1 DEF Contained, SandboxTypeOK, NoContainerOutlives, InSession
<1>5. CASE StartRefused(pos) /\ phase' = "ended"
  <2>1. containers' = containers /\ UNCHANGED <<handle, abandoned>>
    BY <1>3, <1>5 DEF StartRefused
  <2> QED
    BY <1>0, <1>5, <2>1, ContainedMoves DEF sandboxVars, InSession
<1>6. CASE StartFailsHalfway(pos) /\ phase' = "ended"
  <2>1. containers' = containers \cup {pos} /\ handle' = NoRun /\ abandoned' = abandoned \cup {pos}
    BY <1>3, <1>6 DEF StartFailsHalfway
  <2> QED
    BY <1>0, <1>1, <1>2, <1>6, <2>1 DEF Contained, SandboxTypeOK, NoContainerOutlives, InSession
<1> QED
  BY <1>4, <1>5, <1>6 DEF Start

\* A session that ends has removed its container, or abandoned it.
LEMMA StopContained == Contained /\ (Stop \/ Killed) => Contained'
<1> SUFFICES ASSUME Contained, Stop \/ Killed PROVE Contained'
  OBVIOUS
<1>0. /\ pos' = pos /\ phase' \in {"ended", "crashed"} /\ NoRun \notin Runs
      /\ handle \in {NoRun, pos} /\ handle \in Runs \cup {NoRun}
  BY SandboxAssumption DEF Stop, Killed, Crash, runVars, Contained, SandboxTypeOK
<1>1. handle \in Runs => handle \in 1 .. pos
  <2>1. handle \in Runs => handle = pos /\ pos \in Nat \ {0}
    BY <1>0, SuiteAssumption
  <2> QED
    BY <2>1
<1>2. CASE StopRemoves
  <2>1. containers' = containers \ {handle} /\ handle' = NoRun /\ abandoned' = abandoned
    BY <1>2 DEF StopRemoves
  <2> QED
    BY <1>0, <2>1 DEF Contained, SandboxTypeOK, NoContainerOutlives, InSession
<1>3. CASE StopFails \/ Killed
  <2>1. containers' = containers /\ handle' = NoRun
        /\ abandoned' = abandoned \cup ({handle} \ {NoRun})
    BY <1>0, <1>3 DEF StopFails, Killed
  <2> QED
    BY <1>0, <1>1, <2>1 DEF Contained, SandboxTypeOK, NoContainerOutlives, InSession
<1> QED
  BY <1>2, <1>3 DEF Stop

LEMMA ContainedStep == SuiteTyped /\ Contained /\ [Next]_vars => Contained'
<1> SUFFICES ASSUME SuiteTyped, Contained, [Next]_vars PROVE Contained'
  OBVIOUS
<1>1. CASE UNCHANGED vars
  BY <1>1, ContainedMoves DEF vars, suiteVars, InSession
<1>2. CASE Configure
  <2>1. phase = "options" /\ phase' \in {"aborted", "crashed", "loop", "listed"}
        /\ UNCHANGED <<pos, sandboxVars>>
    BY <1>2 DEF Configure, Refuse, Crash
  <2> QED
    BY <2>1, ContainedMoves DEF InSession
<1>3. CASE NextCase
  <2>1. phase = "loop" /\ phase' = "prepare" /\ pos' = pos + 1 /\ UNCHANGED sandboxVars
    BY <1>3 DEF NextCase
  <2>2. handle = NoRun
    BY <2>1 DEF Contained, InSession
  <2>3. pos \in Nat
    BY DEF SuiteTyped
  <2>4. abandoned \subseteq 1 .. pos' /\ pos' \notin abandoned
    BY <2>1, <2>3 DEF Contained
  <2> QED
    BY <2>1, <2>2, <2>4 DEF Contained, SandboxTypeOK, NoContainerOutlives, sandboxVars
<1>4. CASE ScoreReturned \/ ScoreRaised \/ AbortSuite \/ WriteReport
  <2>1. phase \in {"loop", "ended"} /\ phase' \in {"loop", "aborted", "reported"}
        /\ UNCHANGED <<pos, sandboxVars>>
    BY <1>4 DEF ScoreReturned, ScoreRaised, AbortSuite, WriteReport, Refuse, runVars
  <2> QED
    BY <2>1, ContainedMoves DEF InSession
<1>5. CASE Prepare
  <2>1. phase = "prepare" /\ UNCHANGED <<pos, sandboxVars>>
    BY <1>5 DEF Prepare, runVars
  <2> QED
    BY <2>1, ContainedMoves DEF InSession
<1>6. CASE SetupFails \/ Ask \/ AskSummary \/ Summarized \/ AskCompacted
  <2>1. InSession' /\ phase' \notin {"prepare", "start"} /\ UNCHANGED <<pos, sandboxVars>>
    BY <1>6 DEF SetupFails, Leave, Ask, AskSummary, Summarized, AskCompacted, runVars, InSession
  <2> QED
    BY <2>1, ContainedMoves
<1>7. CASE Retry \/ AskRefused \/ Answered \/ Act \/ NextStep \/ CommandHangs \/ StepsExhausted
  <2>1. InSession' /\ phase' \notin {"prepare", "start"} /\ UNCHANGED <<pos, sandboxVars>>
    BY <1>7 DEF Retry, Leave, AskRefused, Answered, Act, NextStep, CommandHangs,
       StepsExhausted, runVars, InSession
  <2> QED
    BY <2>1, ContainedMoves
<1> QED
  BY <1>1, <1>2, <1>3, <1>4, <1>5, <1>6, <1>7, StartContained, StopContained DEF Next, Step

LEMMA SuiteInvariant == Spec => [](CallInv /\ SuiteTyped /\ Contained)
<1>1. Spec => []CallInv
  BY CallInit, CallInvStep, PTL DEF Spec
<1>2. Spec => []SuiteTyped
  BY <1>1, SuiteInit, SuiteStep, PTL DEF Spec
<1>3. Spec => []Contained
  BY <1>2, ContainedInit, ContainedStep, PTL DEF Spec
<1> QED
  BY <1>1, <1>2, <1>3, PTL

\* Every variable of a suite keeps its type: the ceiling passed on to a run is
\* never negative, no step is asked for past max_steps, no case past the last.
THEOREM SuiteKeepsTypes == Spec => []TypeOK
<1>1. CallInv /\ SuiteTyped /\ Contained => TypeOK
  BY DEF CallInv, SuiteTyped, Contained, TypeOK
<1> QED
  BY <1>1, SuiteInvariant, PTL

\* For any number of cases, and wherever a run or the process breaks: outside a
\* session the daemon has no container but those whose start() failed once they
\* were created (containers.run could not start them, or the checks behind it
\* raised), whose removal the daemon refused, or whose process was killed.
THEOREM ContainersGo == Spec => []NoContainerOutlives
<1>1. Contained => NoContainerOutlives
  BY DEF Contained
<1> QED
  BY <1>1, SuiteInvariant, PTL

-----------------------------------------------------------------------------
(* A refusal is final                                                         *)

\* Refused otherwise than by a 429.
Barred == refused \ {"rate_limit"} # {}

Final ==
    Barred => /\ call # "asking"
              /\ \/ phase \in {"stopping", "ended"} /\ ended = Raised(Usage)
                 \/ phase \in {"aborted", "crashed"}

\* What an adapter takes for transient is no refusal of the credentials, and one
\* of the account only as a 429.
LEMMA TransientBarsNothing ==
    ASSUME NEW e \in ApiError, NEW p, Exception(p, e) = "transient"
    PROVE  Denied(e) \subseteq refused \cup {"rate_limit"}
<1>1. e.status \in {"rate_limit", "overloaded", "connection"}
  BY DEF Exception, Transient
<1>2. e.unpaid => e.status = "rate_limit"
  BY <1>1 DEF ApiError
<1> QED
  BY <1>1, <1>2 DEF Denied

\* Every other refusal of them is a UsageError.
LEMMA OthersAreUsageErrors ==
    ASSUME NEW e \in ApiError, NEW p, Exception(p, e) \notin {"transient", "usage_error"}
    PROVE  Denied(e) = refused
<1>1. e.status # "credentials" /\ (e.unpaid => e.status = "connection")
  BY DEF Exception
<1>2. ~e.unpaid
  BY <1>1 DEF ApiError
<1> QED
  BY <1>1, <1>2 DEF Denied

LEMMA FinalStep == Final /\ [Next]_vars => Final'
<1> SUFFICES ASSUME Final, [Next]_vars PROVE Final'
  OBVIOUS
<1>1. CASE UNCHANGED vars
  BY <1>1 DEF vars, suiteVars, callVars, Final, Barred
<1>2. CASE AskRefused
  <2>1. /\ phase \in {"asking", "compacting", "rendering"} /\ phase' = "stopping"
        /\ call' = "usage_error" => ended' = Raised(Usage)
    BY <1>2 DEF AskRefused, Leave
  <2>2. PICK e \in ApiError : Refused(e) /\ refused' = Denied(e)
    BY <1>2 DEF AskRefused
  <2>3. ~Barred
    BY <2>1 DEF Final
  <2>4. /\ call' = Exception(model.provider, e)
        /\ Exception(model.provider, e) # "transient"
    BY <2>2 DEF Refused
  <2>5. Barred' => call' = "usage_error"
    BY <2>2, <2>3, <2>4, OthersAreUsageErrors DEF Barred
  <2> QED
    BY <2>1, <2>5 DEF Final
<1>3. CASE Stop
  <2>1. phase = "stopping" /\ phase' \in {"ended", "crashed"}
        /\ UNCHANGED <<call, ended, refused>>
    BY <1>3 DEF Stop, Crash, callVars
  <2> QED
    BY <2>1 DEF Final, Barred
<1>4. CASE AbortSuite \/ Killed
  <2>1. phase' \in {"aborted", "crashed"} /\ UNCHANGED <<call, refused>>
    BY <1>4 DEF AbortSuite, Refuse, Killed, Crash, callVars
  <2> QED
    BY <2>1 DEF Final, Barred
<1>5. CASE ScoreReturned \/ ScoreRaised
  <2>1. phase = "ended" /\ (ended.outcome # "raised" \/ ended.code # Usage)
        /\ UNCHANGED refused
    BY <1>5 DEF ScoreReturned, ScoreRaised
  <2>2. ~Barred
    BY <2>1 DEF Final, Raised
  <2> QED
    BY <2>1, <2>2 DEF Final, Barred
<1>6. CASE Configure \/ NextCase \/ WriteReport \/ Prepare \/ Start \/ SetupFails \/ Ask
           \/ AskSummary \/ Summarized \/ AskCompacted \/ Answered \/ Act
           \/ NextStep \/ CommandHangs \/ StepsExhausted
  <2>1. phase \notin {"stopping", "ended", "aborted", "crashed"} /\ UNCHANGED refused
    BY <1>6 DEF Configure, NextCase, WriteReport, Prepare, Start, SetupFails, Ask,
       AskSummary, Summarized, AskCompacted, Answered, Act, NextStep, CommandHangs, StepsExhausted
  <2>2. ~Barred
    BY <2>1 DEF Final
  <2> QED
    BY <2>1, <2>2 DEF Final, Barred
<1>7. CASE Retry
  <2>1. phase \in {"asking", "compacting", "rendering"}
    BY <1>7 DEF Retry
  <2>2. PICK e \in ApiError, jitter \in Jitter :
            TransientlyFails(e, jitter) /\ refused' = Denied(e)
    BY <1>7 DEF Retry
  <2>3. Exception(model.provider, e) = "transient"
    BY <2>2 DEF TransientlyFails
  <2>4. refused' \subseteq refused \cup {"rate_limit"}
    BY <2>2, <2>3, TransientBarsNothing
  <2> QED
    BY <2>1, <2>4 DEF Final, Barred
<1> QED
  BY <1>1, <1>2, <1>3, <1>4, <1>5, <1>6, <1>7 DEF Next, Step

\* Once a provider has refused the credentials, or the account otherwise than by a
\* 429, whatever the call that met it, of the model or of a summary, in whatever
\* case: no provider is asked again before the command is over.
THEOREM RefusalIsFinal == Spec => []NoCallAfterRefusal
<1>1. Init => Final
  BY DEF Init, Final, Barred
<1>2. Final => NoCallAfterRefusal
  BY DEF Final, Barred, NoCallAfterRefusal
<1> QED
  BY <1>1, <1>2, FinalStep, PTL DEF Spec
-----------------------------------------------------------------------------
(* The report                                                                 *)

Ends == {"none", "solved", "candidate", "exhausted", "error", "raised"}
EndTyped ==
    /\ ended.outcome \in Ends /\ ended.right \in BOOLEAN
    /\ phase = "options" => ended.outcome = "none"
    /\ policy = "strict" => ended.outcome # "solved"

\* The ends that claim nothing.
Unclaimed(end) ==
    end.outcome \in {"none", "candidate", "exhausted", "error", "raised"} /\ end.right \in BOOLEAN

LEMMA UnclaimedEnds ==
    /\ Unclaimed(NotEnded)
    /\ \A code : Unclaimed(Raised(code))
    /\ \A code : Unclaimed(Returned("error", code, FALSE))
    /\ \A code : Unclaimed(Returned("exhausted", code, FALSE))
    /\ \A code : Unclaimed(Returned("candidate", code, FALSE))
  BY DEF Unclaimed, NotEnded, Raised, Returned

LEMMA EndStep == EndTyped /\ [Next]_vars => EndTyped'
<1> SUFFICES ASSUME EndTyped, [Next]_vars PROVE EndTyped'
  OBVIOUS
<1>1. CASE UNCHANGED <<ended, policy>> /\ phase' # "options"
  BY <1>1 DEF EndTyped
<1>2. CASE UNCHANGED vars
  BY <1>2 DEF vars, suiteVars, EndTyped
<1>3. CASE Configure
  <2>1. ended' = ended /\ phase = "options" /\ phase' # "options"
    BY <1>3 DEF Configure, Refuse, Crash
  <2> QED
    BY <2>1 DEF EndTyped
<1>4. ASSUME Unclaimed(ended'), phase' # "options" PROVE EndTyped'
  BY <1>4 DEF EndTyped, Ends, Unclaimed
<1>5. CASE NextCase
  <2>1. ended' = NotEnded /\ phase' = "prepare"
    BY <1>5 DEF NextCase
  <2> QED
    BY <1>4, <2>1, UnclaimedEnds
<1>6. CASE ScoreReturned \/ ScoreRaised \/ AbortSuite \/ WriteReport
  BY <1>1, <1>6 DEF ScoreReturned, ScoreRaised, AbortSuite, WriteReport, Refuse, runVars, asked
<1>7. CASE Prepare
  <2>1. phase = "prepare" /\ policy' = policy
    BY <1>7 DEF Prepare, runVars, asked
  <2> DEFINE Result_(code) ==
        CASE code = Running -> phase' = "start" /\ UNCHANGED <<ended, exit>>
          [] code = Crashed -> Crash /\ UNCHANGED ended
          [] OTHER -> phase' = "ended" /\ ended' = Raised(code) /\ UNCHANGED exit
  <2>2. PICK code : Result_(code)
    BY <1>7 DEF Prepare
  <2>3. (ended' = ended /\ phase' \in {"start", "crashed"}) \/ (phase' = "ended" /\ ended' = Raised(code))
    BY <2>2 DEF Running, Crashed, Crash
  <2> QED
    BY <1>1, <1>4, <2>1, <2>3, UnclaimedEnds
<1>8. CASE Start
  <2>1. policy' = policy /\ phase' \in {"request", "ended"}
        /\ ended' \in {ended, Raised(NoSandbox)}
    BY <1>8 DEF Start, runVars, asked
  <2> QED
    BY <1>1, <1>4, <2>1, UnclaimedEnds
<1>9. CASE SetupFails
  <2>1. phase' = "stopping" /\ ended' \in {Returned("error", 4, FALSE), Raised(NoSandbox)}
    BY <1>9 DEF SetupFails, Leave
  <2> QED
    BY <1>4, <2>1, UnclaimedEnds
<1>10. CASE Ask \/ AskSummary \/ AskCompacted \/ Summarized \/ NextStep \/ CommandHangs
  BY <1>1, <1>10 DEF Ask, AskSummary, AskCompacted, Summarized, NextStep, CommandHangs, runVars, asked
<1>11. CASE Retry
  <2>1. policy' = policy /\ phase \in {"asking", "compacting", "rendering"}
        /\ \/ UNCHANGED <<phase, ended>>
           \/ phase' = "stopping" /\ ended' \in {Returned("error", 5, FALSE), Raised(5)}
    BY <1>11 DEF Retry, Leave, runVars, asked
  <2> QED
    BY <1>1, <1>4, <2>1, UnclaimedEnds
<1>12. CASE AskRefused
  <2>1. phase' = "stopping"
        /\ ended' \in {Returned("error", 5, FALSE), Raised(5), Raised(Usage), Raised(Crashed)}
    BY <1>12 DEF AskRefused, Leave
  <2> QED
    BY <1>4, <2>1, UnclaimedEnds
<1>13. CASE Answered
  <2>1. policy' = policy
        /\ \/ phase' = "act" /\ ended' = ended
           \/ phase' = "stopping" /\ ended' = Returned("exhausted", 3, FALSE)
    BY <1>13 DEF Answered, Leave, runVars, asked
  <2> QED
    BY <1>1, <1>4, <2>1, UnclaimedEnds
<1>14. CASE Act
  <2>1. policy' = policy
        /\ \/ phase' = "acted" /\ ended' = ended
           \/ /\ phase' = "stopping"
              /\ ended' \in {Returned("candidate", 2, FALSE), Raised(NoSandbox)}
           \/ /\ phase' = "stopping" /\ policy # "strict"
              /\ \E right \in BOOLEAN : ended' = Returned("solved", 0, right)
    BY <1>14 DEF Act, Leave, runVars, asked
  <2> QED
    <3>1. ASSUME NEW right \in BOOLEAN, policy # "strict", policy' = policy,
                 phase' = "stopping", ended' = Returned("solved", 0, right)
          PROVE  EndTyped'
      BY <3>1 DEF Returned, EndTyped, Ends
    <3> QED
      BY <1>1, <1>4, <2>1, <3>1, UnclaimedEnds
<1>15. CASE StepsExhausted
  <2>1. phase' = "stopping" /\ ended' = Returned("exhausted", 3, FALSE)
    BY <1>15 DEF StepsExhausted, Leave
  <2> QED
    BY <1>4, <2>1, UnclaimedEnds
<1>16. CASE Stop \/ Killed
  BY <1>1, <1>16 DEF Stop, Killed, Crash, runVars, asked
<1> QED
  BY <1>2, <1>3, <1>5, <1>6, <1>7, <1>8, <1>9, <1>10, <1>11, <1>12, <1>13, <1>14, <1>15,
     <1>16 DEF Next, Step

Statuses == {"solved", "false_flag", "candidate", "error", "unsolved"}
CaseResult == [case : Nat, status : Statuses, cost : Nat, paid : Nat,
               broke : BOOLEAN, claimed : BOOLEAN, right : BOOLEAN]

\* What a case's result says of the claim its run made.
Tells(res, i, pol) ==
    /\ res.case = i
    /\ res.status = "false_flag" <=> res.claimed /\ ~res.right
    /\ res.status = "solved" <=> res.claimed /\ res.right
    /\ pol = "strict" => ~res.claimed

Begun == IF InRun THEN pos - 1 ELSE pos

Listed ==
    /\ results \in Seq(CaseResult)
    /\ phase \in {"options", "loop", "reported"} \/ InRun => Len(results) = Begun
    /\ \A i \in 1 .. Len(results) : Tells(results[i], i, policy)
    /\ phase = "options" => results = <<>>
    /\ phase = "reported" => exit = IF FalseFlags # {} THEN 1 ELSE 0

LEMMA ResultTells ==
    ASSUME EndTyped, CallInv, NEW counted \in Nat, pos \in Nat
    PROVE  Result(ended, counted) \in CaseResult /\ Tells(Result(ended, counted), pos, policy)
<1> DEFINE res == Result(ended, counted)
           claimed == ended.outcome = "solved"
           broke == ended.outcome = "raised"
<1>1. res = [case |-> pos, status |-> StatusOf(ended), cost |-> counted, paid |-> ledger.total,
             broke |-> broke, claimed |-> claimed, right |-> ended.right]
  BY DEF Result
<1>2. ledger.total \in Nat
  BY DEF CallInv, CallTypeOK
<1>3. claimed \in BOOLEAN /\ broke \in BOOLEAN /\ ended.right \in BOOLEAN
  BY DEF EndTyped
<1>4. StatusOf(ended) \in Statuses
  BY DEF StatusOf, Statuses
<1>5. StatusOf(ended) = "false_flag" <=> claimed /\ ~ended.right
  <2>1. CASE claimed
    BY <2>1 DEF StatusOf
  <2>2. CASE ~claimed
    BY <2>2 DEF StatusOf
  <2> QED
    BY <2>1, <2>2
<1>6. StatusOf(ended) = "solved" <=> claimed /\ ended.right
  <2>1. CASE claimed
    BY <2>1 DEF StatusOf
  <2>2. CASE ~claimed
    BY <2>2 DEF StatusOf
  <2> QED
    BY <2>1, <2>2
<1>7. policy = "strict" => ~claimed
  BY DEF EndTyped
<1> HIDE DEF claimed, broke, res
<1>8. res \in CaseResult
  BY <1>1, <1>2, <1>3, <1>4 DEF CaseResult
<1>9. /\ res.case = pos /\ res.status = StatusOf(ended)
      /\ res.claimed = claimed /\ res.right = ended.right
  BY <1>1
<1>10. Tells(res, pos, policy)
  BY <1>5, <1>6, <1>7, <1>9 DEF Tells
<1> QED
  BY <1>8, <1>10 DEF res

LEMMA ListedScores ==
    ASSUME SuiteTyped, CallInv, EndTyped, Listed, ScoreReturned \/ ScoreRaised
    PROVE  Listed'
<1>1. PICK counted \in Nat : results' = Append(results, Result(ended, counted))
  <2>1. CASE ScoreReturned
    BY <2>1 DEF ScoreReturned, SuiteTyped
  <2>2. CASE ScoreRaised
    BY <2>2 DEF ScoreRaised
  <2> QED
    BY <2>1, <2>2
<1>2. phase = "ended" /\ phase' = "loop" /\ UNCHANGED <<pos, policy>>
  BY DEF ScoreReturned, ScoreRaised, asked
<1>3. pos \in Nat /\ Len(results) = pos - 1 /\ results \in Seq(CaseResult)
  BY <1>2 DEF Listed, Begun, InRun, SuiteTyped
<1> DEFINE res == Result(ended, counted)
<1>4. res \in CaseResult /\ Tells(res, pos, policy)
  BY <1>3, ResultTells
<1> HIDE DEF res
<1>5. results' = Append(results, res)
  BY <1>1 DEF res
<1> DEFINE longer == Append(results, res)
<1>a. /\ longer \in Seq(CaseResult) /\ Len(longer) = Len(results) + 1
      /\ \A i \in 1 .. Len(results) : longer[i] = results[i]
      /\ longer[Len(results) + 1] = res
  BY <1>3, <1>4
<1>b. results' = longer
  BY <1>5
<1> HIDE DEF longer
<1>6. /\ results' \in Seq(CaseResult) /\ Len(results') = pos
      /\ \A i \in 1 .. pos : results'[i] = IF i = pos THEN res ELSE results[i]
  <2>1. Len(results) + 1 = pos
    BY <1>3
  <2>2. longer[pos] = res /\ Len(longer) = pos
    BY <1>a, <2>1
  <2>3. ASSUME NEW i \in 1 .. pos, i # pos PROVE longer[i] = results[i]
    <3>1. i \in 1 .. Len(results)
      BY <1>3, <2>3
    <3> QED
      BY <1>a, <3>1
  <2> QED
    BY <1>a, <1>b, <2>2, <2>3
<1>7. \A i \in 1 .. pos - 1 : Tells(results[i], i, policy)
  BY <1>3 DEF Listed
<1>8. ASSUME NEW i \in 1 .. pos PROVE Tells(results'[i], i, policy')
  <2>1. CASE i = pos
    BY <1>2, <1>4, <1>6, <2>1 DEF Tells
  <2>2. CASE i # pos
    <3>1. i \in 1 .. pos - 1
      BY <1>3, <2>2
    <3> QED
      BY <1>2, <1>6, <1>7, <2>2, <3>1 DEF Tells
  <2> QED
    BY <2>1, <2>2
<1>9. Begun' = pos /\ ~(phase' \in {"options", "reported"})
  BY <1>2 DEF Begun, InRun
<1> QED
  BY <1>2, <1>6, <1>8, <1>9 DEF Listed

\* A run in progress adds nothing to what was listed, nor does one that breaks
\* the suite.
LEMMA ListedKept ==
    ASSUME Listed, UNCHANGED <<asked, pos, results>>,
           (InRun /\ InRun') \/ phase' \in {"aborted", "crashed"}
    PROVE  Listed'
  BY DEF Listed, Begun, InRun, asked

LEMMA ListedStep == SuiteTyped /\ CallInv /\ EndTyped /\ Listed /\ [Next]_vars => Listed'
<1> SUFFICES ASSUME SuiteTyped, CallInv, EndTyped, Listed, [Next]_vars PROVE Listed'
  OBVIOUS
<1>1. CASE UNCHANGED vars
  <2>1. UNCHANGED <<phase, asked, pos, results, exit>>
    BY <1>1 DEF vars, suiteVars, asked
  <2>2. FalseFlags' = FalseFlags
    BY <2>1 DEF FalseFlags, WithStatus
  <2> QED
    BY <2>1, <2>2 DEF Listed, Begun, InRun, asked
<1>2. CASE Configure
  <2>1. /\ phase = "options" /\ phase' \in {"aborted", "crashed", "loop", "listed"}
        /\ UNCHANGED <<pos, results>>
    BY <1>2 DEF Configure, Refuse, Crash
  <2>2. results = <<>> /\ Len(results) = pos
    BY <2>1 DEF Listed, Begun, InRun
  <2>3. Len(<<>>) = 0
    OBVIOUS
  <2> QED
    BY <2>1, <2>2, <2>3 DEF Listed, Begun, InRun
<1>3. CASE NextCase
  <2>1. phase = "loop" /\ phase' = "prepare" /\ pos' = pos + 1 /\ UNCHANGED <<asked, results>>
    BY <1>3 DEF NextCase
  <2>2. Len(results) = pos /\ pos \in Nat
    BY <2>1 DEF Listed, Begun, InRun, SuiteTyped
  <2>3. Begun' = pos
    BY <2>1, <2>2 DEF Begun, InRun
  <2> QED
    BY <2>1, <2>2, <2>3 DEF Listed, asked
<1>4. CASE WriteReport
  <2>1. /\ phase = "loop" /\ phase' = "reported" /\ UNCHANGED <<asked, pos, results>>
        /\ exit' = IF FalseFlags # {} THEN 1 ELSE 0
    BY <1>4 DEF WriteReport, runVars
  <2>2. FalseFlags' = FalseFlags
    BY <2>1 DEF FalseFlags, WithStatus
  <2>3. Begun' = pos /\ Begun = pos
    BY <2>1 DEF Begun, InRun
  <2> QED
    BY <2>1, <2>2, <2>3 DEF Listed, asked
<1>5. CASE AbortSuite \/ Killed
  BY <1>5, ListedKept DEF AbortSuite, Refuse, Killed, Crash, runVars
<1>6. CASE Prepare
  <2>1. phase = "prepare" /\ UNCHANGED <<asked, pos, results>>
    BY <1>6 DEF Prepare, runVars
  <2> DEFINE Result_(code) ==
        CASE code = Running -> phase' = "start" /\ UNCHANGED <<ended, exit>>
          [] code = Crashed -> Crash /\ UNCHANGED ended
          [] OTHER -> phase' = "ended" /\ ended' = Raised(code) /\ UNCHANGED exit
  <2>2. PICK code : Result_(code)
    BY <1>6 DEF Prepare
  <2>3. phase' \in {"start", "crashed", "ended"}
    BY <2>2 DEF Running, Crashed, Crash
  <2> QED
    BY <2>1, <2>3, ListedKept DEF InRun
<1>7. CASE Start \/ SetupFails \/ Ask \/ AskSummary \/ Summarized \/ AskCompacted
  <2>1. InRun /\ InRun' /\ UNCHANGED <<asked, pos, results>>
    BY <1>7 DEF Start, SetupFails, Leave, Ask, AskSummary, Summarized, AskCompacted,
       runVars, InRun
  <2> QED
    BY <2>1, ListedKept
<1>8. CASE Retry \/ AskRefused \/ Answered \/ Act \/ NextStep \/ CommandHangs \/ StepsExhausted \/ Stop
  <2>1. InRun /\ (InRun' \/ phase' = "crashed") /\ UNCHANGED <<asked, pos, results>>
    BY <1>8 DEF Retry, Leave, AskRefused, Answered, Act, NextStep, CommandHangs,
       StepsExhausted, Stop, Crash, runVars, InRun
  <2> QED
    BY <2>1, ListedKept
<1> QED
  BY <1>1, <1>2, <1>3, <1>4, <1>5, <1>6, <1>7, <1>8, ListedScores DEF Next, Step

\* Two members at least are two different ones.
LEMMA TwoOf ==
    ASSUME NEW S, Cardinality(S) \in Nat, Cardinality(S) >= 2
    PROVE  \E i, j \in S : i # j
<1> SUFFICES ASSUME \A i, j \in S : i = j PROVE FALSE
  OBVIOUS
<1>1. CASE S = {}
  <2>1. Cardinality(S) = 0
    BY <1>1, FS_EmptySet
  <2> QED
    BY <2>1
<1>2. CASE S # {}
  <2>1. PICK i \in S : S = {i}
    BY <1>2
  <2>2. Cardinality({i}) = 1
    BY FS_Singleton
  <2> QED
    BY <2>1, <2>2
<1> QED
  BY <1>1, <1>2

LEMMA ListedTellsAll == Listed /\ SuiteTyped => ReportTellsAll
<1> SUFFICES ASSUME Listed, SuiteTyped, phase = "reported"
             PROVE  /\ Len(results) = pos /\ \A i \in 1 .. pos : results[i].case = i
                    /\ (exit = 1) = (\E i \in 1 .. pos : results[i].claimed /\ ~results[i].right)
                    /\ GateMet =>
                          /\ \A i \in 1 .. pos : Gated[i] /\ results[i].claimed => results[i].right
                          /\ \E i, j \in 1 .. pos :
                                i # j /\ Gated[i] /\ Gated[j]
                                /\ results[i].claimed /\ results[j].claimed
                    /\ policy = "strict" => exit = 0 /\ ~GateMet
  BY DEF ReportTellsAll
<1>1. Len(results) = pos /\ results \in Seq(CaseResult) /\ DOMAIN results = 1 .. pos /\ pos \in Nat
  <2>1. Len(results) = pos /\ results \in Seq(CaseResult)
    BY DEF Listed, Begun, InRun
  <2> QED
    BY <2>1 DEF SuiteTyped
<1>2. ASSUME NEW i \in 1 .. pos
      PROVE  /\ results[i].case = i
             /\ results[i].status = "false_flag" <=> results[i].claimed /\ ~results[i].right
             /\ results[i].status = "solved" <=> results[i].claimed /\ results[i].right
             /\ policy = "strict" => ~results[i].claimed
  BY <1>1 DEF Listed, Tells
<1>3. /\ FalseFlags = {i \in 1 .. pos : results[i].status = "false_flag"}
      /\ WithStatus("solved") = {i \in 1 .. pos : results[i].status = "solved"}
  BY <1>1 DEF FalseFlags, WithStatus
<1>4. FalseFlags # {} <=> \E i \in 1 .. pos : results[i].claimed /\ ~results[i].right
  BY <1>2, <1>3
<1>5. exit = 1 <=> FalseFlags # {}
  BY DEF Listed
<1>6. (exit = 1) = (\E i \in 1 .. pos : results[i].claimed /\ ~results[i].right)
  BY <1>4, <1>5
<1> DEFINE S == {i \in WithStatus("solved") : Gated[results[i].case]}
<1>7. ASSUME GateMet
      PROVE  /\ \A i \in 1 .. pos : Gated[i] /\ results[i].claimed => results[i].right
             /\ \E i, j \in 1 .. pos :
                   i # j /\ Gated[i] /\ Gated[j] /\ results[i].claimed /\ results[j].claimed
  <2>1. Cardinality(S) >= 2 /\ ~\E i \in FalseFlags : Gated[results[i].case]
    BY <1>7 DEF GateMet
  <2>2. Cardinality(S) \in Nat
    <3>1. IsFiniteSet(1 .. pos)
      BY <1>1, FS_Interval
    <3>2. S \subseteq 1 .. pos
      BY <1>3
    <3>3. IsFiniteSet(S)
      BY <3>1, <3>2, FS_Subset
    <3> QED
      BY <3>3, FS_CardinalityType
  <2> HIDE DEF S
  <2>3. PICK i, j \in S : i # j
    BY <2>1, <2>2, TwoOf
  <2>4. ASSUME NEW k \in S PROVE k \in 1 .. pos /\ Gated[k] /\ results[k].claimed
    BY <1>2, <1>3 DEF S
  <2>5. ASSUME NEW k \in 1 .. pos, Gated[k] /\ results[k].claimed PROVE results[k].right
    BY <1>2, <1>3, <2>1, <2>5
  <2> QED
    BY <2>3, <2>4, <2>5
<1>8. ASSUME policy = "strict" PROVE exit = 0 /\ ~GateMet
  <2>1. \A i \in 1 .. pos : ~results[i].claimed
    BY <1>2, <1>8
  <2>2. FalseFlags = {}
    BY <1>4, <2>1
  <2>3. exit = 0
    BY <2>2 DEF Listed
  <2>4. ~GateMet
    BY <1>7, <2>1
  <2> QED
    BY <2>3, <2>4
<1> QED
  BY <1>1, <1>2, <1>6, <1>7, <1>8

LEMMA ReportInit == Init => EndTyped /\ Listed
<1> SUFFICES ASSUME Init PROVE EndTyped /\ Listed
  OBVIOUS
<1>1. /\ phase = "options" /\ policy = "gated" /\ pos = 0 /\ results = <<>>
      /\ ended = NotEnded
  BY DEF Init
<1>2. EndTyped
  BY <1>1 DEF EndTyped, Ends, NotEnded
<1>3. results \in Seq(CaseResult) /\ Len(results) = 0
  BY <1>1
<1>4. Listed
  BY <1>1, <1>3 DEF Listed, Begun, InRun
<1> QED
  BY <1>2, <1>4

LEMMA ReportInvariant == Spec => [](EndTyped /\ Listed)
<1>1. Spec => []EndTyped
  BY ReportInit, EndStep, PTL DEF Spec
<1>2. Spec => []Listed
  BY <1>1, ReportInit, SuiteInvariant, ListedStep, PTL DEF Spec
<1> QED
  BY <1>1, <1>2, PTL

\* For any number of cases: a report lists every case that was begun, in order,
\* the command's exit code is 1 exactly when a wrong flag was finalized, the gate
\* is met by two different gated claims that were right and no wrong one, and a
\* strict policy claims nothing.
THEOREM ReportIsTrue == Spec => []ReportTellsAll
  BY ReportInvariant, SuiteInvariant, ListedTellsAll, PTL

-----------------------------------------------------------------------------
(* The ceiling of the suite                                                   *)

\* No completion costs more than some amount: a request is capped in tokens.
Priced ==
    /\ Reports # {}
    /\ \E top \in Nat : \A m \in Models, r \in Reports : Bill(m, r) <= top

PriceOf == [m \in Models |-> Dearest(m)]

LEMMA LeastExists ==
    ASSUME NEW S \in SUBSET Nat, S # {}
    PROVE  \E i \in S : \A j \in S : i <= j
<1>1. PICK i \in S : \A j \in S : ~(<<j, i>> \in OpToRel(<, Nat))
  BY NatLessThanWellFounded, WFMin
<1>2. \A j \in S : ~(j < i)
  BY <1>1 DEF OpToRel
<1> QED
  BY <1>2

\* Then every model has a dearest completion.
LEMMA DearestExists ==
    ASSUME Priced, NEW m \in Models
    PROVE  PriceOf[m] \in Nat /\ \A r \in Reports : Bill(m, r) <= PriceOf[m]
<1>1. PICK top \in Nat : \A r \in Reports : Bill(m, r) <= top
  BY DEF Priced
<1>2. \A r \in Reports : Bill(m, r) \in Nat
  BY BillBounds, CallAssumption
<1> DEFINE bills == {Bill(m, r) : r \in Reports}
           slack == {top - b : b \in bills}
<1>3. bills # {} /\ \A b \in bills : b \in Nat /\ b <= top
  BY <1>1, <1>2 DEF Priced
<1>4. slack \in SUBSET Nat /\ slack # {}
  BY <1>3
<1>5. PICK s \in slack : \A t \in slack : s <= t
  BY <1>4, LeastExists
<1>6. PICK c \in bills : s = top - c
  BY <1>5
<1>7. \A b \in bills : b <= c
  <2> SUFFICES ASSUME NEW b \in bills PROVE b <= c
    OBVIOUS
  <2>1. top - b \in slack
    OBVIOUS
  <2>2. top - c <= top - b
    BY <1>5, <1>6, <2>1
  <2>3. b \in Nat /\ c \in Nat
    BY <1>3
  <2> HIDE DEF bills, slack
  <2> QED
    BY <2>2, <2>3
<1>8. \E d \in bills : \A r \in Reports : Bill(m, r) <= d
  BY <1>7
<1>9. Dearest(m) \in bills /\ \A r \in Reports : Bill(m, r) <= Dearest(m)
  BY <1>8 DEF Dearest
<1> QED
  BY <1>3, <1>9 DEF PriceOf

\* What the run has paid is within what was left for it and this much more.
Paid(more) == ledger.total < ceiling + more

\* The summaries that no check has seen yet, in a run and in a case.
Budgeted ==
    /\ phase = "options" => spent = 0
    /\ phase \in {"compacting", "rendering"} => model = utility
    /\ phase = "asking" => model = main
    /\ maxTotal > 0 /\ maxCost > 0 =>
          /\ spent < maxTotal + PriceOf[main] + 2 * PriceOf[utility]
          /\ InRun =>
                /\ ceiling > 0 /\ spent + ceiling <= maxTotal
                /\ cost < ceiling + PriceOf[main] + 2 * PriceOf[utility]
          /\ phase \in {"prepare", "start", "act", "acted", "rendering"} => Paid(0)
          /\ phase \in {"request", "compacting"} => Paid(PriceOf[utility])
          /\ phase \in {"asking_compacted", "asking"} => Paid(2 * PriceOf[utility])

Numbers ==
    /\ PriceOf[main] \in Nat /\ PriceOf[utility] \in Nat
    /\ ledger.total \in Nat /\ ceiling \in Nat /\ spent \in Nat /\ cost \in Nat
    /\ maxTotal \in Nat /\ maxCost \in Nat

LEMMA NumbersTyped == ASSUME Priced PROVE CallInv /\ SuiteTyped => Numbers
  BY DearestExists DEF CallInv, CallTypeOK, SuiteTyped, Numbers

LEMMA ServedCharges ==
    ASSUME Priced, CallInv, NEW r \in Reports, Served(r)
    PROVE  ledger'.total \in Nat /\ ledger'.total <= ledger.total + PriceOf[model]
<1>1. model \in Models /\ ledger.total \in Nat
  BY DEF CallInv, CallTypeOK
<1>2. ledger'.total = ledger.total + Bill(model, r)
  BY DEF Served
<1>3. Bill(model, r) \in Nat
  BY <1>1, BillBounds, CallAssumption
<1> QED
  BY <1>1, <1>2, <1>3, DearestExists

\* A step that pays nothing, into a phase that allows as much.
LEMMA UnpaidStep ==
    ASSUME Budgeted, Numbers, InRun, UNCHANGED <<asked, spent, ceiling, cost, ledger>>,
           phase' \in {"compacting", "rendering"} => model' = utility,
           phase' = "asking" => model' = main,
           \/ phase' = phase
           \/ phase' \in {"hung", "stopping", "ended", "loop", "aborted", "crashed"}
           \/ phase = "prepare" /\ phase' = "start"
           \/ phase = "start" /\ phase' = "request"
           \/ phase = "request" /\ phase' \in {"asking", "compacting"}
           \/ phase = "acted" /\ phase' \in {"rendering", "request"}
           \/ phase = "act" /\ phase' = "acted"
           \/ phase = "asking_compacted" /\ phase' = "asking"
    PROVE  Budgeted'
<1>1. UNCHANGED <<maxTotal, maxCost, main, utility>>
  BY DEF asked
<1>2. phase' # "options"
  BY DEF InRun
<1>3. ASSUME maxTotal > 0, maxCost > 0
      PROVE  /\ phase' \in {"prepare", "start", "act", "acted", "rendering"} => Paid(0)
             /\ phase' \in {"request", "compacting"} => Paid(PriceOf[utility])
             /\ phase' \in {"asking_compacted", "asking"} => Paid(2 * PriceOf[utility])
  BY <1>3 DEF Budgeted, Numbers, Paid
<1>4. \A more : Paid(more) => ledger'.total < ceiling' + more
  BY DEF Paid
<1> QED
  BY <1>1, <1>2, <1>3, <1>4 DEF Budgeted, Paid

\* The next case gets what is left; there is something left.
LEMMA NextCaseBudgeted == ASSUME Budgeted, Numbers, NextCase PROVE Budgeted'
<1>1. /\ phase' = "prepare" /\ ceiling' = RunCeiling /\ cost' = 0 /\ ledger' = NewLedger
      /\ ~TotalSpent /\ UNCHANGED <<maxTotal, maxCost, main, utility, spent>>
  BY DEF NextCase, asked
<1>2. ledger'.total = 0
  BY <1>1 DEF NewLedger
<1>3. ASSUME maxTotal > 0, maxCost > 0
      PROVE  ceiling' > 0 /\ spent + ceiling' <= maxTotal /\ ceiling' \in Nat
  <2>1. spent < maxTotal
    BY <1>1, <1>3 DEF TotalSpent, Numbers
  <2> QED
    BY <1>1, <1>3, <2>1 DEF RunCeiling, Lesser, Numbers
<1>4. ASSUME maxTotal > 0, maxCost > 0
      PROVE  /\ Paid(0)'
             /\ cost' < ceiling' + PriceOf[main] + 2 * PriceOf[utility]
  BY <1>1, <1>2, <1>3, <1>4 DEF Numbers, Paid
<1> QED
  BY <1>1, <1>3, <1>4 DEF Budgeted

LEMMA ScoreBudgeted == ASSUME Budgeted, Numbers, ScoreReturned PROVE Budgeted'
<1>1. /\ phase = "ended" /\ phase' = "loop" /\ spent' = spent + cost
      /\ UNCHANGED <<maxTotal, maxCost, main, utility>>
  BY DEF ScoreReturned, asked
<1>2. ASSUME maxTotal > 0, maxCost > 0
      PROVE  spent' < maxTotal + PriceOf[main] + 2 * PriceOf[utility]
  <2>1. spent + ceiling <= maxTotal /\ cost < ceiling + PriceOf[main] + 2 * PriceOf[utility]
    BY <1>1, <1>2 DEF Budgeted, InRun
  <2> QED
    BY <1>1, <2>1 DEF Numbers
<1> QED
  BY <1>1, <1>2 DEF Budgeted, InRun

\* A summary is paid for, and nothing is compared.
LEMMA SummarizedBudgeted ==
    ASSUME Priced, CallInv, Budgeted, Numbers, Summarized
    PROVE  Budgeted'
<1>1. /\ phase \in {"compacting", "rendering"} /\ model = utility
      /\ phase' = IF phase = "compacting" THEN "asking_compacted" ELSE "request"
      /\ UNCHANGED <<maxTotal, maxCost, main, utility, spent, ceiling, cost>>
  BY DEF Summarized, Budgeted, runVars, asked
<1>2. PICK r \in Reports : Served(r)
  BY DEF Summarized
<1>3. ledger'.total \in Nat /\ ledger'.total <= ledger.total + PriceOf[utility]
  BY <1>1, <1>2, ServedCharges
<1>4. ASSUME maxTotal > 0, maxCost > 0
      PROVE  /\ phase' = "request" => ledger'.total < ceiling + PriceOf[utility]
             /\ phase' = "asking_compacted" => ledger'.total < ceiling + 2 * PriceOf[utility]
  BY <1>1, <1>3, <1>4 DEF Budgeted, Numbers, Paid
<1> QED
  BY <1>1, <1>4 DEF Budgeted, InRun, Paid

\* The completion is paid for, and then compared.
LEMMA AnsweredBudgeted ==
    ASSUME Priced, CallInv, Budgeted, Numbers, Answered
    PROVE  Budgeted'
<1>1. /\ phase = "asking" /\ model = main /\ cost' = ledger'.total
      /\ phase' = IF ceiling > 0 /\ cost' >= ceiling THEN "stopping" ELSE "act"
      /\ UNCHANGED <<maxTotal, maxCost, main, utility, spent, ceiling>>
  BY DEF Answered, Leave, Budgeted, runVars, asked
<1>2. PICK r \in Reports : Served(r)
  BY DEF Answered
<1>3. ledger'.total \in Nat /\ ledger'.total <= ledger.total + PriceOf[main]
  BY <1>1, <1>2, ServedCharges
<1>4. ASSUME maxTotal > 0, maxCost > 0
      PROVE  /\ cost' < ceiling + PriceOf[main] + 2 * PriceOf[utility]
             /\ phase' = "act" => ledger'.total < ceiling + 0
  BY <1>1, <1>3, <1>4 DEF Budgeted, Numbers, Paid, InRun
<1> QED
  BY <1>1, <1>4 DEF Budgeted, InRun, Paid

LEMMA BudgetedStep ==
    ASSUME Priced
    PROVE  CallInv /\ SuiteTyped /\ Budgeted /\ [Next]_vars => Budgeted'
<1> SUFFICES ASSUME CallInv, SuiteTyped, Budgeted, [Next]_vars PROVE Budgeted'
  OBVIOUS
<1>0. Numbers
  BY NumbersTyped
<1>1. CASE UNCHANGED vars
  <2>1. UNCHANGED <<phase, asked, spent, ceiling, cost, ledger, model>>
    BY <1>1 DEF vars, suiteVars, callVars, asked
  <2> QED
    BY <2>1 DEF Budgeted, Paid, InRun, asked
<1>2. CASE Configure
  <2>1. /\ phase = "options" /\ phase' \in {"aborted", "crashed", "loop", "listed"}
        /\ UNCHANGED <<maxTotal, main, utility, spent>> /\ spent = 0
    BY <1>2 DEF Configure, Refuse, Crash, Budgeted
  <2>2. maxTotal > 0 => spent < maxTotal + PriceOf[main] + 2 * PriceOf[utility]
    BY <1>0, <2>1 DEF Numbers
  <2> QED
    BY <2>1, <2>2 DEF Budgeted, InRun
<1>3. CASE WriteReport \/ Killed
  <2>1. phase' \in {"reported", "crashed"} /\ UNCHANGED <<asked, spent>>
    BY <1>3 DEF WriteReport, Killed, Crash, runVars
  <2> QED
    BY <2>1 DEF Budgeted, InRun, asked
<1>4. CASE ScoreRaised \/ AbortSuite
  <2>1. phase = "ended" /\ phase' \in {"loop", "aborted"}
        /\ UNCHANGED <<asked, spent, ceiling, cost, ledger>>
    BY <1>4 DEF ScoreRaised, AbortSuite, Refuse, runVars, callVars
  <2> QED
    BY <1>0, <2>1, UnpaidStep DEF InRun
<1>5. CASE Prepare
  <2>1. phase = "prepare" /\ UNCHANGED <<asked, spent, ceiling, cost, ledger>>
    BY <1>5 DEF Prepare, runVars, callVars
  <2> DEFINE Result_(code) ==
        CASE code = Running -> phase' = "start" /\ UNCHANGED <<ended, exit>>
          [] code = Crashed -> Crash /\ UNCHANGED ended
          [] OTHER -> phase' = "ended" /\ ended' = Raised(code) /\ UNCHANGED exit
  <2>2. PICK code : Result_(code)
    BY <1>5 DEF Prepare
  <2>3. phase' \in {"start", "crashed", "ended"}
    BY <2>2 DEF Running, Crashed, Crash
  <2> QED
    BY <1>0, <2>1, <2>3, UnpaidStep DEF InRun
<1>6. CASE Start \/ SetupFails
  <2>1. /\ \/ phase = "start" /\ phase' \in {"request", "ended"}
           \/ phase = "request" /\ phase' = "stopping"
        /\ UNCHANGED <<asked, spent, ceiling, cost, ledger>>
    BY <1>6 DEF Start, SetupFails, Leave, runVars, callVars
  <2> QED
    BY <1>0, <2>1, UnpaidStep DEF InRun
<1>7. CASE Ask \/ AskCompacted
  <2>1. /\ phase \in {"request", "asking_compacted"} /\ phase' = "asking" /\ model' = main
        /\ UNCHANGED <<asked, spent, ceiling, cost, ledger>>
    BY <1>7 DEF Ask, AskCompacted, BeginCall, runVars
  <2> QED
    BY <1>0, <2>1, UnpaidStep DEF InRun
<1>8. CASE AskSummary
  <2>1. /\ \/ phase = "request" /\ phase' = "compacting"
           \/ phase = "acted" /\ phase' = "rendering"
        /\ model' = utility /\ UNCHANGED <<asked, spent, ceiling, cost, ledger>>
    BY <1>8 DEF AskSummary, BeginCall, runVars
  <2> QED
    BY <1>0, <2>1, UnpaidStep DEF InRun
<1>9. CASE Retry \/ AskRefused
  <2>1. /\ phase \in {"asking", "compacting", "rendering"} /\ phase' \in {phase, "stopping"}
        /\ model' = model /\ UNCHANGED <<asked, spent, ceiling, cost, ledger>>
    BY <1>9 DEF Retry, AskRefused, Leave, TransientlyFails, Refused, runVars
  <2> QED
    BY <1>0, <2>1, UnpaidStep DEF InRun, Budgeted
<1>10. CASE Act \/ NextStep \/ CommandHangs \/ StepsExhausted \/ Stop
  <2>1. /\ \/ phase = "act" /\ phase' \in {"stopping", "hung", "acted"}
           \/ phase = "acted" /\ phase' = "request"
           \/ phase = "request" /\ phase' = "stopping"
           \/ phase = "stopping" /\ phase' \in {"ended", "crashed"}
        /\ UNCHANGED <<asked, spent, ceiling, cost, ledger>>
    BY <1>10 DEF Act, NextStep, CommandHangs, StepsExhausted, Stop, Crash, Leave, runVars, callVars
  <2> QED
    BY <1>0, <2>1, UnpaidStep DEF InRun
<1> QED
  BY <1>0, <1>1, <1>2, <1>3, <1>4, <1>5, <1>6, <1>7, <1>8, <1>9, <1>10, NextCaseBudgeted,
     ScoreBudgeted, SummarizedBudgeted, AnsweredBudgeted DEF Next, Step

\* Whatever the suite's ceiling, the prices, and the number of cases and steps:
\* a suite with a ceiling, whose runs have one too, is never over it by more than
\* one completion and two summaries.  The bound needs a dearest completion.
THEOREM OvershootIsBounded ==
    ASSUME Priced
    PROVE  Spec => []SuiteOvershootBounded
<1>1. Init => Budgeted
  <2> SUFFICES ASSUME Init PROVE Budgeted
    OBVIOUS
  <2>1. CallInv /\ SuiteTyped /\ phase = "options" /\ spent = 0
    BY CallInit, SuiteInit DEF Init
  <2>2. Numbers
    BY <2>1, NumbersTyped
  <2>3. maxTotal > 0 => spent < maxTotal + PriceOf[main] + 2 * PriceOf[utility]
    BY <2>1, <2>2 DEF Numbers
  <2> QED
    BY <2>1, <2>3 DEF Budgeted, InRun
<1>2. CallInv /\ SuiteTyped /\ Budgeted /\ [Next]_vars => Budgeted'
  BY BudgetedStep
<1>3. Spec => []Budgeted
  BY <1>1, <1>2, SuiteInvariant, PTL DEF Spec
<1>4. CallInv /\ Budgeted => SuiteOvershootBounded
  <2> SUFFICES ASSUME CallInv, Budgeted PROVE SuiteOvershootBounded
    OBVIOUS
  <2>1. PriceOf[main] = Dearest(main) /\ PriceOf[utility] = Dearest(utility)
    BY DEF PriceOf, CallInv
  <2> QED
    BY <2>1 DEF Budgeted, SuiteOvershootBounded
<1> QED
  BY <1>3, <1>4, SuiteInvariant, PTL

-----------------------------------------------------------------------------
(* What the suite counts and what was paid                                    *)

\* The sums that Counted takes, n results at a time.
UpTo(res, sums) ==
    sums = [n \in 0 .. Len(res) |-> IF n = 0 THEN 0 ELSE sums[n - 1] + res[n].cost]

LEMMA CountedTakesSums ==
    ASSUME NEW res, NEW sums, UpTo(res, sums)
    PROVE  \E all : UpTo(res, all) /\ Counted(res) = all[Len(res)]
<1> DEFINE all == CHOOSE f : UpTo(res, f)
<1>1. UpTo(res, all)
  OBVIOUS
<1>2. Counted(res) = all[Len(res)]
  BY DEF Counted, UpTo
<1> QED
  BY <1>1, <1>2

\* There is one way to add up a list.
LEMMA SumsAgree ==
    ASSUME NEW res \in Seq(CaseResult), NEW s, NEW t, UpTo(res, s), UpTo(res, t)
    PROVE  s[Len(res)] = t[Len(res)]
<1> DEFINE apart == {n \in 0 .. Len(res) : s[n] # t[n]}
<1>1. Len(res) \in Nat
  OBVIOUS
<1>2. /\ s[0] = 0 /\ t[0] = 0
      /\ \A n \in 1 .. Len(res) : s[n] = s[n - 1] + res[n].cost /\ t[n] = t[n - 1] + res[n].cost
  BY <1>1 DEF UpTo
<1>3. apart = {}
  <2> SUFFICES ASSUME apart # {} PROVE FALSE
    OBVIOUS
  <2>0. apart \in SUBSET Nat
    BY <1>1
  <2>1. PICK n \in apart : \A k \in apart : n <= k
    BY <2>0, LeastExists
  <2>2. n \in 0 .. Len(res) /\ s[n] # t[n]
    OBVIOUS
  <2>3. n # 0
    BY <1>2, <2>2
  <2>4. n - 1 \in 0 .. Len(res) /\ n - 1 \notin apart /\ n \in 1 .. Len(res)
    BY <1>1, <2>1, <2>2, <2>3
  <2>5. s[n - 1] = t[n - 1]
    BY <2>4
  <2> QED
    BY <1>2, <2>2, <2>4, <2>5
<1> QED
  BY <1>1, <1>3

LEMMA CountedIs ==
    ASSUME NEW res \in Seq(CaseResult), NEW sums, UpTo(res, sums)
    PROVE  Counted(res) = sums[Len(res)]
  BY CountedTakesSums, SumsAgree

LEMMA CountedOfNone == Counted(<<>>) = 0
<1>1. UpTo(<<>>, [n \in 0 .. 0 |-> 0])
  BY DEF UpTo
<1> QED
  BY <1>1, CountedIs

\* One more result adds its cost.
LEMMA CountedOfMore ==
    ASSUME NEW res \in Seq(CaseResult), NEW r \in CaseResult, NEW sums, UpTo(res, sums)
    PROVE  /\ \E more : UpTo(Append(res, r), more)
           /\ Counted(Append(res, r)) = Counted(res) + r.cost
<1> DEFINE longer == Append(res, r)
           n == Len(res)
           more == [k \in 0 .. n + 1 |-> IF k = n + 1 THEN sums[n] + r.cost ELSE sums[k]]
<1>1. /\ n \in Nat /\ longer \in Seq(CaseResult) /\ Len(longer) = n + 1 /\ longer[n + 1] = r
      /\ \A k \in 1 .. n : longer[k] = res[k]
  OBVIOUS
<1>2. sums[0] = 0 /\ \A k \in 1 .. n : sums[k] = sums[k - 1] + res[k].cost
  BY <1>1 DEF UpTo
<1>3. \A k \in 0 .. n + 1 :
          more[k] = IF k = 0 THEN 0 ELSE more[k - 1] + longer[k].cost
  <2> SUFFICES ASSUME NEW k \in 0 .. n + 1
               PROVE  more[k] = IF k = 0 THEN 0 ELSE more[k - 1] + longer[k].cost
    OBVIOUS
  <2> HIDE DEF n, longer
  <2>1. CASE k = n + 1
    BY <1>1, <2>1
  <2>2. CASE k = 0
    BY <1>1, <1>2, <2>2
  <2>3. CASE k \in 1 .. n
    BY <1>1, <1>2, <2>3
  <2> QED
    BY <1>1, <2>1, <2>2, <2>3
<1>4. UpTo(longer, more)
  BY <1>1, <1>3, Zenon DEF UpTo
<1>5. Counted(longer) = more[n + 1] /\ Counted(res) = sums[n]
  BY <1>1, <1>4, CountedIs
<1>6. more[n + 1] = sums[n] + r.cost
  BY <1>1
<1> QED
  BY <1>4, <1>5, <1>6

\* The run has paid what its last check saw and, since then, this much at most.
Unseen(more) == cost <= ledger.total /\ ledger.total <= cost + more

\* What OnlyBrokenRunsUncounted says of one result.
Balanced(res) ==
    IF res.broke THEN res.cost = 0
    ELSE res.cost <= res.paid /\ res.paid <= res.cost + 2 * PriceOf[utility]

\* Where a run stands says how many summaries no check has seen.
Checked ==
    /\ phase \in {"compacting", "rendering"} => model = utility
    /\ phase \in {"prepare", "start", "act", "acted", "rendering"} => Unseen(0)
    /\ phase \in {"request", "compacting"} => Unseen(PriceOf[utility])
    /\ phase \in {"asking_compacted", "asking"} => Unseen(2 * PriceOf[utility])
    /\ phase \in {"stopping", "ended"} /\ ended.outcome # "raised" => Unseen(2 * PriceOf[utility])

\* The suite's own sum, and the results it is of.
Summed ==
    /\ \E sums : UpTo(results, sums)
    /\ spent = Counted(results)
    /\ \A i \in DOMAIN results : Balanced(results[i])

\* A step that pays nothing, to where no less may be unseen.
LEMMA CheckedKept ==
    ASSUME Checked, Numbers, UNCHANGED <<utility, cost, ledger>>,
           phase' \in {"compacting", "rendering"} => model' = utility,
           \/ phase' = phase /\ ended' = ended
           \/ phase' \notin {"prepare", "start", "request", "compacting", "rendering",
                             "asking_compacted", "asking", "act", "acted", "stopping", "ended"}
           \/ phase' \in {"stopping", "ended"} /\ ended'.outcome = "raised"
           \/ phase' = "stopping" /\ phase \in {"asking", "act", "request"}
           \/ phase = "stopping" /\ phase' = "ended" /\ ended' = ended
           \/ phase = "prepare" /\ phase' = "start"
           \/ phase = "start" /\ phase' = "request"
           \/ phase = "request" /\ phase' \in {"asking", "compacting"}
           \/ phase = "acted" /\ phase' \in {"rendering", "request"}
           \/ phase = "act" /\ phase' = "acted"
           \/ phase = "asking_compacted" /\ phase' = "asking"
    PROVE  Checked'
<1>1. \A more : Unseen(more) => cost' <= ledger'.total /\ ledger'.total <= cost' + more
  BY DEF Unseen
<1>2. Unseen(0) => Unseen(PriceOf[utility])
  BY DEF Unseen, Numbers
<1>3. Unseen(PriceOf[utility]) => Unseen(2 * PriceOf[utility])
  BY DEF Unseen, Numbers
<1> QED
  BY <1>1, <1>2, <1>3 DEF Checked, Unseen

LEMMA SummedKept ==
    ASSUME Summed, UNCHANGED <<utility, spent, results>>
    PROVE  Summed'
  BY DEF Summed, Balanced

LEMMA CheckedStep ==
    ASSUME Priced
    PROVE  CallInv /\ SuiteTyped /\ Checked /\ [Next]_vars => Checked'
<1> SUFFICES ASSUME CallInv, SuiteTyped, Checked, [Next]_vars PROVE Checked'
  OBVIOUS
<1>0. Numbers
  BY NumbersTyped
<1>1. CASE UNCHANGED vars
  <2>1. UNCHANGED <<phase, utility, cost, ledger, model, ended>>
    BY <1>1 DEF vars, suiteVars, callVars
  <2> QED
    BY <1>0, <2>1, CheckedKept DEF Checked
<1>2. CASE Configure \/ WriteReport \/ Killed \/ AbortSuite \/ ScoreRaised \/ ScoreReturned
  <2>1. /\ phase' \in {"aborted", "crashed", "loop", "listed", "reported"}
        /\ UNCHANGED <<utility, cost, ledger>>
    BY <1>2 DEF Configure, WriteReport, Killed, AbortSuite, ScoreRaised, ScoreReturned,
                Refuse, Crash, runVars, asked, callVars
  <2> QED
    BY <1>0, <2>1, CheckedKept
<1>3. CASE NextCase
  <2>1. phase' = "prepare" /\ cost' = 0 /\ ledger' = NewLedger
    BY <1>3 DEF NextCase
  <2>2. ledger'.total = 0
    BY <2>1 DEF NewLedger
  <2> QED
    BY <2>1, <2>2 DEF Checked, Unseen
<1>4. CASE Prepare
  <2>1. phase = "prepare" /\ UNCHANGED <<utility, cost, ledger>>
    BY <1>4 DEF Prepare, runVars, asked, callVars
  <2> DEFINE Result_(code) ==
        CASE code = Running -> phase' = "start" /\ UNCHANGED <<ended, exit>>
          [] code = Crashed -> Crash /\ UNCHANGED ended
          [] OTHER -> phase' = "ended" /\ ended' = Raised(code) /\ UNCHANGED exit
  <2>2. PICK code : Result_(code)
    BY <1>4 DEF Prepare
  <2>3. \/ phase' \in {"start", "crashed"}
        \/ phase' = "ended" /\ ended' = Raised(code)
    BY <2>2 DEF Running, Crashed, Crash
  <2> QED
    BY <1>0, <2>1, <2>3, CheckedKept DEF Raised
<1>5. CASE Start \/ SetupFails
  <2>1. /\ \/ phase = "start" /\ phase' = "request"
           \/ phase' = "ended" /\ ended' = Raised(NoSandbox)
           \/ phase = "request" /\ phase' = "stopping"
        /\ UNCHANGED <<utility, cost, ledger>>
    BY <1>5 DEF Start, SetupFails, Leave, runVars, asked, callVars
  <2> QED
    BY <1>0, <2>1, CheckedKept DEF Raised
<1>6. CASE Ask \/ AskCompacted \/ AskSummary
  <2>1. /\ \/ phase = "request" /\ phase' = "asking"
           \/ phase = "asking_compacted" /\ phase' = "asking"
           \/ phase = "request" /\ phase' = "compacting" /\ model' = utility
           \/ phase = "acted" /\ phase' = "rendering" /\ model' = utility
        /\ UNCHANGED <<utility, cost, ledger>>
    BY <1>6 DEF Ask, AskCompacted, AskSummary, BeginCall, runVars, asked
  <2> QED
    BY <1>0, <2>1, CheckedKept
<1>7. CASE Retry \/ AskRefused
  <2>1. /\ \/ phase' = phase /\ ended' = ended
           \/ phase' = "stopping" /\ phase = "asking"
           \/ /\ phase' = "stopping"
              /\ ended' \in {Raised(5), Raised(Usage), Raised(Crashed)}
        /\ model' = model /\ UNCHANGED <<utility, cost, ledger>>
    BY <1>7 DEF Retry, AskRefused, Leave, TransientlyFails, Refused, runVars, asked
  <2> QED
    BY <1>0, <2>1, CheckedKept DEF Raised, Checked
<1>8. CASE Summarized
  <2>1. /\ phase \in {"compacting", "rendering"} /\ model = utility
        /\ phase' = IF phase = "compacting" THEN "asking_compacted" ELSE "request"
        /\ UNCHANGED <<utility, cost>>
    BY <1>8 DEF Summarized, Checked, runVars, asked
  <2>2. PICK r \in Reports : Served(r)
    BY <1>8 DEF Summarized
  <2>3. ledger'.total \in Nat /\ ledger'.total <= ledger.total + PriceOf[utility]
        /\ ledger.total <= ledger'.total
    <3>1. model \in Models /\ ledger'.total = ledger.total + Bill(model, r)
      BY <2>2 DEF Served, CallInv, CallTypeOK
    <3>2. Bill(model, r) \in Nat
      BY <3>1, BillBounds, CallAssumption
    <3> QED
      BY <1>0, <2>1, <2>2, <3>1, <3>2, ServedCharges DEF Numbers
  <2>4. /\ phase' = "request" => Unseen(PriceOf[utility])'
        /\ phase' = "asking_compacted" => Unseen(2 * PriceOf[utility])'
    BY <1>0, <2>1, <2>3 DEF Checked, Numbers, Unseen
  <2> QED
    BY <2>1, <2>4 DEF Checked
<1>9. CASE Answered
  <2>1. phase' \in {"act", "stopping"} /\ cost' = ledger'.total /\ UNCHANGED utility
    BY <1>9 DEF Answered, Leave, runVars, asked
  <2>2. PICK r \in Reports : Served(r)
    BY <1>9 DEF Answered
  <2>3. ledger'.total \in Nat
    BY <2>2, ServedCharges
  <2>4. Unseen(0)' /\ Unseen(2 * PriceOf[utility])'
    BY <1>0, <2>1, <2>3 DEF Unseen, Numbers
  <2> QED
    BY <2>1, <2>4 DEF Checked
<1>10. CASE Act \/ NextStep \/ CommandHangs \/ StepsExhausted \/ Stop
  <2>1. /\ \/ phase = "act" /\ phase' \in {"stopping", "hung", "acted"}
           \/ phase = "acted" /\ phase' = "request"
           \/ phase = "request" /\ phase' = "stopping"
           \/ phase = "stopping" /\ phase' = "ended" /\ ended' = ended
           \/ phase' = "crashed"
        /\ UNCHANGED <<utility, cost, ledger>>
    BY <1>10 DEF Act, NextStep, CommandHangs, StepsExhausted, Stop, Crash, Leave, runVars,
       asked, callVars
  <2> QED
    BY <1>0, <2>1, CheckedKept
<1> QED
  BY <1>1, <1>2, <1>3, <1>4, <1>5, <1>6, <1>7, <1>8, <1>9, <1>10 DEF Next, Step

LEMMA SummedStep ==
    ASSUME Priced
    PROVE  CallInv /\ SuiteTyped /\ EndTyped /\ Listed /\ Checked /\ Summed /\ [Next]_vars
               => Summed'
<1> SUFFICES ASSUME CallInv, SuiteTyped, EndTyped, Listed, Checked, Summed, [Next]_vars
             PROVE  Summed'
  OBVIOUS
<1>0. Numbers
  BY NumbersTyped
<1>1. CASE UNCHANGED <<utility, spent, results>>
  BY <1>1, SummedKept
<1>2. ASSUME NEW counted \in Nat, phase = "ended",
             results' = Append(results, Result(ended, counted)), spent' = spent + counted,
             utility' = utility,
             \/ ended.outcome = "raised" /\ counted = 0
             \/ ended.outcome # "raised" /\ counted = cost
      PROVE  Summed'
  <2> DEFINE r == Result(ended, counted)
  <2>1. /\ results \in Seq(CaseResult) /\ r \in CaseResult
        /\ r.cost = counted /\ r.paid = ledger.total
        /\ r.broke = (ended.outcome = "raised")
    <3>1. pos \in Nat /\ ledger.total \in Nat /\ results \in Seq(CaseResult)
      BY <1>0 DEF SuiteTyped, Numbers, Listed
    <3>2. StatusOf(ended) \in Statuses /\ ended.right \in BOOLEAN
      BY DEF EndTyped, StatusOf, Statuses
    <3> QED
      BY <1>2, <3>1, <3>2 DEF Result, CaseResult
  <2> HIDE DEF r
  <2>2. PICK sums : UpTo(results, sums)
    BY DEF Summed
  <2>3. /\ \E more : UpTo(Append(results, r), more)
        /\ Counted(Append(results, r)) = Counted(results) + r.cost
    BY <2>1, <2>2, CountedOfMore
  <2>4. Balanced(r)
    <3>1. CASE ended.outcome = "raised"
      <4>1. r.cost = 0 /\ r.broke
        BY <1>2, <2>1, <3>1
      <4> QED
        BY <4>1 DEF Balanced
    <3>2. CASE ended.outcome # "raised"
      <4>1. Unseen(2 * PriceOf[utility]) /\ r.cost = cost /\ ~r.broke
        BY <1>2, <2>1, <3>2 DEF Checked
      <4> QED
        BY <1>0, <2>1, <4>1 DEF Balanced, Unseen, Numbers
    <3> QED
      BY <3>1, <3>2
  <2>5. \A i \in DOMAIN Append(results, r) : Balanced(Append(results, r)[i])
    <3>1. \A i \in DOMAIN results : Balanced(results[i])
      BY DEF Summed
    <3> QED
      BY <2>1, <2>4, <3>1
  <2>6. results' = Append(results, r)
    BY <1>2 DEF r
  <2>7. spent' = Counted(results')
    BY <1>2, <2>1, <2>3, <2>6 DEF Summed
  <2>8. \A res : Balanced(res) => Balanced(res)'
    BY <1>2 DEF Balanced
  <2> QED
    BY <2>3, <2>5, <2>6, <2>7, <1>2 DEF Summed, Balanced
<1>3. CASE ScoreReturned
  <2>1. /\ phase = "ended" /\ results' = Append(results, Result(ended, cost))
        /\ spent' = spent + cost /\ utility' = utility /\ ended.outcome # "raised"
    BY <1>3 DEF ScoreReturned, asked
  <2> QED
    BY <1>0, <1>2, <2>1 DEF Numbers
<1>4. CASE ScoreRaised
  <2>1. /\ phase = "ended" /\ results' = Append(results, Result(ended, 0))
        /\ spent' = spent + 0 /\ utility' = utility /\ ended.outcome = "raised"
    BY <1>0, <1>4 DEF ScoreRaised, asked, Numbers
  <2> QED
    BY <1>2, <2>1
<1>5. CASE UNCHANGED vars
  BY <1>1, <1>5 DEF vars, suiteVars
<1>6. CASE Configure \/ NextCase \/ AbortSuite \/ WriteReport \/ Prepare \/ Start \/ SetupFails
  <2>1. UNCHANGED <<utility, spent, results>>
    BY <1>6 DEF Configure, NextCase, AbortSuite, WriteReport, Prepare, Start, SetupFails, runVars, asked
  <2> QED
    BY <1>1, <2>1
<1>7. CASE Ask \/ AskSummary \/ AskCompacted \/ Summarized \/ Retry \/ AskRefused \/ Answered
  <2>1. UNCHANGED <<utility, spent, results>>
    BY <1>7 DEF Ask, AskSummary, AskCompacted, Summarized, Retry, AskRefused, Answered, runVars, asked
  <2> QED
    BY <1>1, <2>1
<1>8. CASE Act \/ NextStep \/ CommandHangs \/ StepsExhausted \/ Stop \/ Killed
  <2>1. UNCHANGED <<utility, spent, results>>
    BY <1>8 DEF Act, NextStep, CommandHangs, StepsExhausted, Stop, Killed, runVars, asked
  <2> QED
    BY <1>1, <2>1
<1> QED
  BY <1>3, <1>4, <1>5, <1>6, <1>7, <1>8 DEF Next, Step

\* For any cases, prices and failures: what the suite holds against its ceiling is
\* the sum of its report, and what each run paid beyond its part of that sum is two
\* summaries at most, unless the run broke and is in the report at no cost at all.
THEOREM BreakageAloneIsUncounted ==
    ASSUME Priced
    PROVE  Spec => []OnlyBrokenRunsUncounted
<1>1. Init => EndTyped /\ Listed /\ Checked /\ Summed
  <2> SUFFICES ASSUME Init PROVE EndTyped /\ Listed /\ Checked /\ Summed
    OBVIOUS
  <2>1. /\ phase = "options" /\ results = <<>> /\ spent = 0
    BY DEF Init
  <2>2. EndTyped /\ Listed
    BY ReportInit
  <2>3. Checked
    BY <2>1 DEF Checked
  <2>4. UpTo(<<>>, [n \in 0 .. 0 |-> 0])
    BY DEF UpTo
  <2>5. Summed
    BY <2>1, <2>4, CountedOfNone DEF Summed
  <2> QED
    BY <2>2, <2>3, <2>5
<1>2. CallInv /\ SuiteTyped /\ Checked /\ [Next]_vars => Checked'
  BY CheckedStep
<1>3. Spec => []Checked
  BY <1>1, <1>2, SuiteInvariant, PTL DEF Spec
<1>4. CallInv /\ SuiteTyped /\ EndTyped /\ Listed /\ Checked /\ Summed /\ [Next]_vars => Summed'
  BY SummedStep
<1>5. Spec => [](EndTyped /\ Listed)
  BY ReportInvariant
<1>6. Spec => []Summed
  BY <1>1, <1>3, <1>4, <1>5, SuiteInvariant, PTL DEF Spec
<1>7. CallInv /\ SuiteTyped /\ Summed => OnlyBrokenRunsUncounted
  <2> SUFFICES ASSUME CallInv, SuiteTyped, Summed PROVE OnlyBrokenRunsUncounted
    OBVIOUS
  <2>1. PriceOf[utility] = Dearest(utility)
    BY DEF PriceOf, CallInv
  <2> QED
    BY <2>1 DEF Summed, Balanced, OnlyBrokenRunsUncounted
<1> QED
  BY <1>6, <1>7, SuiteInvariant, PTL
=============================================================================
