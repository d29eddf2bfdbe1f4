---------------------------- MODULE RunLoopProofs ----------------------------
(***************************************************************************)
(* Theorems about a run, for every set of commands and flags, every ceiling *)
(* and every cost of a completion or a summary.                             *)
(***************************************************************************)
EXTENDS RunLoop, ProgressTrackerProofs, WellFoundedInduction

-----------------------------------------------------------------------------
(* Spending.  The ledger is compared with the ceiling only when a completion *)
(* arrives; until the next one it may grow by two summaries.                  *)

SpentBelow(limit) == MaxCost > 0 => spent < limit

SpendingInv ==
    /\ spent \in Nat
    /\ pc \in {"new", "triage"} => spent = 0
    /\ pc = "act"  => SpentBelow(MaxCost)
    /\ pc = "step" => SpentBelow(MaxCost + MaxUtilityCost)
    /\ pc = "llm"  => SpentBelow(MaxCost + 2 * MaxUtilityCost)
    /\ OvershootBounded

\* A summary costs a natural number, at most MaxUtilityCost.
LEMMA SummaryCost ==
    ASSUME NEW needed, NEW u \in Summarized(needed)
    PROVE  u \in Nat /\ u <= MaxUtilityCost
  BY LoopAssumption DEF Summarized

\* A completion costs a natural number, at most MaxCallCost.
LEMMA CompletionCost ==
    ASSUME NEW c \in CallCosts
    PROVE  c \in Nat /\ c <= MaxCallCost
  BY LoopAssumption

LEMMA SpendingInit == Init => SpendingInv
  BY LoopAssumption DEF Init, SpendingInv, SpentBelow, OvershootBounded

LEMMA SpendingStep == SpendingInv /\ [Next]_vars => SpendingInv'
<1> SUFFICES ASSUME SpendingInv, [Next]_vars PROVE SpendingInv'
  OBVIOUS
<1> USE LoopAssumption
<1>1. CASE UNCHANGED vars
  BY <1>1 DEF vars, loopVars, SpendingInv, SpentBelow, OvershootBounded
\* Most actions spend nothing and do not move to a place with a lower bound.
<1>2. ASSUME UNCHANGED spent,
             \/ pc' \in {"hung", "escaped", "returned", "done", "dead"}
             \/ pc = "new" /\ pc' = "triage"
             \/ pc \in {"triage", "act"} /\ pc' = "step"
      PROVE  SpendingInv'
  BY <1>2 DEF SpendingInv, SpentBelow, OvershootBounded
<1>3. ASSUME BeginStep PROVE SpendingInv'
  <2>1. PICK u \in Summarized(Compactable(history, MaxMessages)) : spent' = spent + u
    BY <1>3 DEF BeginStep
  <2>2. u \in Nat /\ u <= MaxUtilityCost
    BY <2>1, SummaryCost
  <2>3. pc = "step" /\ pc' = "llm"
    BY <1>3 DEF BeginStep
  <2> QED
    BY <2>1, <2>2, <2>3 DEF SpendingInv, SpentBelow, OvershootBounded
<1>4. ASSUME NEW c \in CallCosts, CeilingReached(c) PROVE SpendingInv'
  <2>1. c \in Nat /\ c <= MaxCallCost
    BY CompletionCost
  <2>2. pc = "llm" /\ pc' = "returned" /\ spent' = spent + c
    BY <1>4 DEF CeilingReached, Finish
  <2> QED
    BY <2>1, <2>2 DEF SpendingInv, SpentBelow, OvershootBounded
<1>5. ASSUME NEW c \in CallCosts, spent' = spent + c, ~OverCeiling(spent'),
             pc' \in {"act", "step"}
      PROVE  SpendingInv'
  <2>1. c \in Nat
    BY CompletionCost
  <2>2. spent' \in Nat /\ (MaxCost > 0 => spent' < MaxCost)
    BY <1>5, <2>1 DEF SpendingInv, OverCeiling
  <2> QED
    BY <1>5, <2>2 DEF SpendingInv, SpentBelow, OvershootBounded
<1>6. ASSUME NEW c \in Commands, NEW out, ExecuteCommand(c, out) PROVE SpendingInv'
  <2>1. PICK u \in Summarized(NeedsSummary(out)) : spent' = spent + u
    BY <1>6 DEF ExecuteCommand
  <2>2. u \in Nat /\ u <= MaxUtilityCost
    BY <2>1, SummaryCost
  <2>3. pc = "act" /\ pc' = "step"
    BY <1>6 DEF ExecuteCommand
  <2> QED
    BY <2>1, <2>2, <2>3 DEF SpendingInv, SpentBelow, OvershootBounded
<1>7. CASE Next
  <2>1. SandboxStartFails \/ Begin \/ InputsFail \/ Triage \/ TriageFails => SpendingInv'
    BY <1>2 DEF SandboxStartFails, Begin, InputsFail, Triage, TriageFails, Escape, Finish
  <2>2. CompactionFails \/ StepsExhausted \/ ProviderFails \/ CredentialsRefused => SpendingInv'
    BY <1>2 DEF CompactionFails, StepsExhausted, ProviderFails, CredentialsRefused, Escape, Finish
  <2>3. \A c \in CallCosts : Nudge(c) => SpendingInv'
    BY <1>5 DEF Nudge
  <2>4. \A c \in CallCosts, primary \in Commands \cup {Submit}, extras \in 0 .. MaxExtras :
            Propose(c, primary, extras) => SpendingInv'
    BY <1>5 DEF Propose
  <2>5. \A f \in Flags, seq \in Citations :
            RejectFlag(f, seq) \/ AcceptFlag(f, seq) => SpendingInv'
    BY <1>2 DEF RejectFlag, AcceptFlag, Finish
  <2>6. \A c \in Commands : RefuseCommand(c) \/ ExecuteFails(c) => SpendingInv'
    BY <1>2 DEF RefuseCommand, ExecuteFails, Escape
  <2>7. \A c \in Commands : \A out \in ResultsOf(c) : RenderFails(c, out) => SpendingInv'
    BY <1>2 DEF RenderFails, Escape
  <2>8. FinishRun \/ RecordError \/ Die => SpendingInv'
    BY <1>2 DEF FinishRun, RecordError, Die
  <2>9. Hang => SpendingInv'
    BY <1>2 DEF Hang, CommandHangs, RederivationHangs
  <2> QED
    BY <1>3, <1>4, <1>6, <1>7, <2>1, <2>2, <2>3, <2>4, <2>5, <2>6, <2>7, <2>8, <2>9
       DEF Next, Setup, Turn, Act, Close
<1> QED
  BY <1>1, <1>7

\* A run never overshoots its ceiling by more than one completion and two
\* summaries, for any ceiling and any prices.
THEOREM OvershootIsBounded == Spec => []OvershootBounded
<1>1. SpendingInv => OvershootBounded
  BY DEF SpendingInv
<1> QED
  BY SpendingInit, SpendingStep, <1>1, PTL DEF Spec
-----------------------------------------------------------------------------
(* The tracker inside the loop.  A step of the run is a step of the tracker   *)
(* or leaves it alone, so what is proved of the tracker holds of every run.   *)

\* Scoring looks at an output's digest, signal and success, and at nothing else.
LEMMA RecordReadsThree ==
    ASSUME NEW c, NEW out \in ToolOutput, Record(c, out)
    PROVE  \E o \in Outputs : Record(c, o)
<1> DEFINE o == [digest |-> out.digest, signal |-> out.signal, ok |-> out.ok]
<1>1. o \in Outputs
  BY DEF Outputs, ToolOutput
<1>2. o.digest = out.digest /\ o.signal = out.signal /\ o.ok = out.ok
  OBVIOUS
<1> HIDE DEF o
<1>3. Progressed(o) = Progressed(out)
  BY <1>2 DEF Progressed, Score
<1>4. Record(c, o)
  BY <1>2, <1>3 DEF Record
<1> QED
  BY <1>1, <1>4

LEMMA ResultsAreOutputs ==
    ASSUME NEW c \in Commands, NEW out \in ResultsOf(c)
    PROVE  out \in ToolOutput
  BY LoopAssumption DEF ResultsOf

LEMMA LoopStepIsTrackerStep == [Next]_vars => [TrackerNext]_trackerVars
<1> SUFFICES ASSUME [Next]_vars PROVE [TrackerNext]_trackerVars
  OBVIOUS
<1>1. ASSUME NEW c \in Commands, RefuseCommand(c) PROVE TrackerNext
  BY <1>1 DEF RefuseCommand, TrackerNext
<1>2. ASSUME NEW c \in Commands, NEW out \in ResultsOf(c), ExecuteCommand(c, out)
      PROVE  TrackerNext
  <2>1. PICK o \in Outputs : Record(c, o)
    BY <1>2, ResultsAreOutputs, RecordReadsThree DEF ExecuteCommand
  <2> QED
    BY <2>1 DEF TrackerNext
<1>3. CASE UNCHANGED vars
  BY <1>3 DEF vars
<1>4. CASE Setup
  BY <1>4 DEF Setup, SandboxStartFails, Begin, InputsFail, Triage, TriageFails
<1>5. CASE Turn
  BY <1>5 DEF Turn, BeginStep, CompactionFails, StepsExhausted, ProviderFails,
              CredentialsRefused, CeilingReached, Nudge, Propose
<1>6. CASE Act
  BY <1>1, <1>2, <1>6 DEF Act, RejectFlag, AcceptFlag, ExecuteFails, RenderFails
<1>7. CASE Close \/ Die
  BY <1>7 DEF Close, FinishRun, RecordError, Die
<1>8. CASE Hang
  BY <1>8 DEF Hang, CommandHangs, RederivationHangs
<1> QED
  BY <1>3, <1>4, <1>5, <1>6, <1>7, <1>8 DEF Next

\* A run drives the tracker as the tracker specifies.
THEOREM RunDrivesTracker == Spec => TrackerSpec
<1>1. Init => TrackerInit
  BY DEF Init
<1> QED
  BY <1>1, LoopStepIsTrackerStep, PTL DEF Spec, TrackerSpec

\* Within a run, whatever the model proposes and the sandbox returns, no
\* hypothesis or family is paid for past its budget, and no due change of
\* strategy is left for a later step.
THEOREM RunStaysWithinBudgets == Spec => [](WasteWithinBudget /\ ShiftNeverOverdue)
  BY RunDrivesTracker, WasteIsBounded, ShiftsAreMade, PTL
-----------------------------------------------------------------------------
(* The contract.  What the mapping needs to know: nothing is concluded before *)
(* the run stops, and the bill shown is never ahead of the ledger.            *)

NothingRecorded ==
    manifest.outcome = "none" /\ manifest.flag = NoSubject /\ manifest.cost = 0

ContractInv ==
    /\ spent \in Nat /\ cost \in Nat /\ cost <= spent
    /\ pc \in {"new", "triage", "step", "llm", "act", "hung"} =>
         flag = NoSubject /\ ended = NotFinished
    /\ pc = "escaped" => flag = NoSubject /\ ended.outcome = "error"
    /\ pc \in {"new", "triage", "step", "llm", "act", "hung", "returned", "escaped"} =>
         NothingRecorded

Working(p) == p \in {"new", "triage", "step", "llm", "act", "hung"}

\* An action of each kind keeps ContractInv: one that works on, one that
\* concludes, one that breaks, and one after which nothing more is recorded.
LEMMA WorkKeepsInv ==
    ASSUME ContractInv, Working(pc), Working(pc'),
           spent' \in Nat, cost' \in Nat, cost' <= spent',
           UNCHANGED <<flag, ended, manifest>>
    PROVE  ContractInv'
  BY DEF ContractInv, Working, NothingRecorded

LEMMA ConcludeKeepsInv ==
    ASSUME ContractInv, Working(pc), pc' = "returned",
           spent' \in Nat, cost' \in Nat, cost' <= spent', UNCHANGED manifest
    PROVE  ContractInv'
  BY DEF ContractInv, Working, NothingRecorded

LEMMA BreakKeepsInv ==
    ASSUME ContractInv, Working(pc), pc' = "escaped", ended'.outcome = "error",
           UNCHANGED <<spent, cost, flag, manifest>>
    PROVE  ContractInv'
  BY DEF ContractInv, Working, NothingRecorded

LEMMA CloseKeepsInv ==
    ASSUME ContractInv, pc' \in {"done", "dead"}, UNCHANGED <<spent, cost>>
    PROVE  ContractInv'
  BY DEF ContractInv

\* The same kinds are steps of the contract.
Evidenced == {f \in Flags : Supporting(f, observations) # {}}

LEMMA EvidenceGrows ==
    ASSUME NEW o, observations' = observations \cup {o}
    PROVE  Evidenced \subseteq Evidenced'
  BY DEF Evidenced, Supporting

LEMMA WorkIsWork ==
    ASSUME ContractInv, Working(pc), Working(pc'),
           Evidenced \subseteq Evidenced', cost' \in Nat, cost <= cost',
           UNCHANGED <<flag, ended, manifest>>
    PROVE  Contract!Work
<1>1. Phase = "working" /\ Phase' = "working"
  BY DEF Working, Phase
<1> QED
  BY <1>1 DEF Contract!Work, Evidenced

LEMMA ConcludeIsConclude ==
    ASSUME ContractInv, Working(pc), pc' = "returned",
           cost' \in Nat, cost <= cost', UNCHANGED <<observations, manifest>>,
           \/ ended'.outcome \in {"exhausted", "error"} /\ flag' = NoSubject
           \/ ended'.outcome \in {"solved", "candidate"} /\ flag' \in Evidenced
    PROVE  Contract!Conclude
<1>1. Phase = "working" /\ Phase' = "concluded"
  BY DEF Working, Phase
<1> QED
  BY <1>1 DEF Contract!Conclude, Contract!Answered, Contract!Unanswered, Evidenced

LEMMA BreakIsBreak ==
    ASSUME ContractInv, Working(pc), pc' = "escaped", ended'.outcome = "error",
           Evidenced \subseteq Evidenced', UNCHANGED <<cost, flag, manifest>>
    PROVE  Contract!Break
<1>1. Phase = "working" /\ Phase' = "broken" /\ flag = NoSubject
  BY DEF Working, Phase, ContractInv
<1> QED
  BY <1>1 DEF Contract!Break, Contract!Unanswered, Evidenced
LEMMA ContractInit == Init => ContractInv /\ Contract!Init
<1> SUFFICES ASSUME Init PROVE ContractInv /\ Contract!Init
  OBVIOUS
<1>1. ContractInv
  BY DEF Init, ContractInv, NothingRecorded
<1>2. Phase = "working"
  BY DEF Init, Phase
<1>3. \A f \in Flags : Supporting(f, observations) = {}
  BY DEF Init, Supporting
<1> QED
  BY <1>1, <1>2, <1>3 DEF Init, Contract!Init, NotFinished

LEMMA ContractStep ==
    ContractInv /\ [Next]_vars => ContractInv' /\ [Contract!Next]_Contract!contractVars
<1> SUFFICES ASSUME ContractInv, [Next]_vars
             PROVE  ContractInv' /\ [Contract!Next]_Contract!contractVars
  OBVIOUS
<1> DEFINE Goal == ContractInv' /\ [Contract!Next]_Contract!contractVars
<1> SUFFICES Goal
  OBVIOUS
\* The three kinds of action before the end, with both halves of the goal.
<1>w. ASSUME Working(pc), Working(pc'), Evidenced \subseteq Evidenced',
             spent' \in Nat, cost' \in Nat, cost <= cost', cost' <= spent',
             UNCHANGED <<flag, ended, manifest>>
      PROVE  Goal
  BY <1>w, WorkKeepsInv, WorkIsWork DEF Contract!Next
<1>c. ASSUME Working(pc), pc' = "returned",
             spent' \in Nat, cost' \in Nat, cost <= cost', cost' <= spent',
             UNCHANGED <<observations, manifest>>,
             \/ ended'.outcome \in {"exhausted", "error"} /\ flag' = NoSubject
             \/ ended'.outcome \in {"solved", "candidate"} /\ flag' \in Evidenced
      PROVE  Goal
  BY <1>c, ConcludeKeepsInv, ConcludeIsConclude DEF Contract!Next
<1>b. ASSUME Working(pc), pc' = "escaped", ended'.outcome = "error",
             Evidenced \subseteq Evidenced', UNCHANGED <<spent, cost, flag, manifest>>
      PROVE  Goal
  BY <1>b, BreakKeepsInv, BreakIsBreak DEF Contract!Next
<1>e. ASSUME UNCHANGED observations PROVE Evidenced \subseteq Evidenced'
  BY <1>e DEF Evidenced, Supporting
<1> HIDE DEF Goal
<1>0. /\ spent \in Nat /\ cost \in Nat /\ cost <= spent
      /\ Working(pc) => flag = NoSubject
  BY DEF ContractInv, Working
<1>1. CASE UNCHANGED vars
  <2>1. ContractInv'
    BY <1>1 DEF vars, loopVars, ContractInv, NothingRecorded
  <2>2. UNCHANGED Contract!contractVars
    BY <1>1 DEF vars, loopVars, Contract!contractVars, Phase, Supporting
  <2> QED
    BY <2>1, <2>2 DEF Goal
<1>2. CASE Begin \/ Triage
  <2>1. UNCHANGED <<spent, cost, flag, ended, manifest, observations>>
    BY <1>2 DEF Begin, Triage
  <2>2. Working(pc) /\ Working(pc')
    BY <1>2 DEF Begin, Triage, Working
  <2> QED
    BY <1>0, <2>1, <2>2, <1>e, <1>w
<1>3. CASE BeginStep
  <2>1. PICK u \in Summarized(Compactable(history, MaxMessages)) : spent' = spent + u
    BY <1>3 DEF BeginStep
  <2>2. u \in Nat
    BY <2>1, SummaryCost
  <2>3. UNCHANGED <<cost, flag, ended, manifest, observations>>
    BY <1>3 DEF BeginStep
  <2>4. Working(pc) /\ Working(pc')
    BY <1>3 DEF BeginStep, Working
  <2>5. spent' \in Nat /\ cost <= spent'
    BY <1>0, <2>1, <2>2
  <2> QED
    BY <1>0, <2>3, <2>4, <2>5, <1>e, <1>w
<1>4. ASSUME NEW c \in CallCosts, spent' = spent + c, cost' = spent'
      PROVE  spent' \in Nat /\ cost' \in Nat /\ cost <= cost' /\ cost' <= spent'
  BY <1>0, <1>4, CompletionCost
<1>5. ASSUME NEW c \in CallCosts, Nudge(c) PROVE Goal
  BY <1>4, <1>5, <1>e, <1>w DEF Nudge, Working
<1>6. ASSUME NEW c \in CallCosts, NEW primary, NEW extras, Propose(c, primary, extras)
      PROVE  Goal
  BY <1>4, <1>6, <1>e, <1>w DEF Propose, Working
<1>7. ASSUME NEW c \in CallCosts, CeilingReached(c) PROVE Goal
  BY <1>0, <1>4, <1>7, <1>c DEF CeilingReached, Finish, Working
<1>8. CASE InputsFail \/ StepsExhausted \/ ProviderFails
  BY <1>0, <1>8, <1>c DEF InputsFail, StepsExhausted, ProviderFails, Finish, Working
<1>9. ASSUME NEW f \in Flags, NEW seq, RejectFlag(f, seq) PROVE Goal
  BY <1>0, <1>9, <1>e, <1>w DEF RejectFlag, Working
<1>10. ASSUME NEW f \in Flags, NEW seq, AcceptFlag(f, seq) PROVE Goal
  <2>1. PICK o \in observations : ClearedBy(f, o, observations, seq)
    BY <1>10 DEF AcceptFlag
  <2>2. flag' \in Evidenced
    BY <1>10, <2>1 DEF AcceptFlag, ClearedBy, Cited, Evidenced
  <2>3. ended'.outcome \in {"solved", "candidate"}
    BY <1>10 DEF AcceptFlag, Finish
  <2> QED
    BY <1>0, <1>10, <2>2, <2>3, <1>c DEF AcceptFlag, Finish, Working
<1>11. ASSUME NEW c \in Commands, RefuseCommand(c) PROVE Goal
  <2>1. UNCHANGED <<spent, cost, flag, ended, manifest, observations>>
    BY <1>11 DEF RefuseCommand
  <2>2. Working(pc) /\ Working(pc')
    BY <1>11 DEF RefuseCommand, Working
  <2> QED
    BY <1>0, <2>1, <2>2, <1>e, <1>w
<1>12. ASSUME NEW c \in Commands, NEW out, ExecuteCommand(c, out) PROVE Goal
  <2>1. PICK u \in Summarized(NeedsSummary(out)) : spent' = spent + u
    BY <1>12 DEF ExecuteCommand
  <2>2. u \in Nat
    BY <2>1, SummaryCost
  <2>3. Evidenced \subseteq Evidenced'
    BY <1>12, EvidenceGrows DEF ExecuteCommand
  <2> QED
    BY <1>0, <1>12, <2>1, <2>2, <2>3, <1>w DEF ExecuteCommand, Working
<1>13. CASE SandboxStartFails \/ TriageFails \/ CompactionFails \/ CredentialsRefused
  BY <1>13, <1>e, <1>b DEF SandboxStartFails, TriageFails, CompactionFails,
                           CredentialsRefused, Escape, Working
<1>14. ASSUME NEW c \in Commands, ExecuteFails(c) PROVE Goal
  BY <1>14, <1>e, <1>b DEF ExecuteFails, Escape, Working
<1>15. ASSUME NEW c \in Commands, NEW out, RenderFails(c, out) PROVE Goal
  <2>1. Evidenced \subseteq Evidenced'
    BY <1>15, EvidenceGrows DEF RenderFails
  <2> QED
    BY <1>15, <2>1, <1>b DEF RenderFails, Escape, Working
<1>16. CASE Close
  <2>1. ContractInv'
    BY <1>16, CloseKeepsInv DEF Close, FinishRun, RecordError
  <2>2. CASE FinishRun
    <3>1. Phase = "concluded" /\ Phase' = "published"
      BY <2>2 DEF FinishRun, Phase
    <3> QED
      BY <2>1, <2>2, <3>1 DEF FinishRun, Contract!Publish, Contract!Next, Supporting, Goal
  <2>3. CASE RecordError
    <3>1. Phase = "broken" /\ Phase' = "published"
      BY <2>3 DEF RecordError, Phase
    <3>2. flag = NoSubject /\ ended.outcome = "error"
      BY <2>3 DEF RecordError, ContractInv
    <3> QED
      BY <2>1, <2>3, <3>1, <3>2 DEF RecordError, Contract!Publish, Contract!Next, Supporting, Goal
  <2> QED
    BY <1>16, <2>2, <2>3 DEF Close
<1>17. CASE Die
  <2>1. ContractInv'
    BY <1>17, CloseKeepsInv DEF Die
  <2>2. Phase # "published" /\ Phase' = "lost"
    BY <1>17 DEF Die, Phase
  <2> QED
    BY <1>17, <2>1, <2>2 DEF Die, Contract!Lose, Contract!Next, Supporting, Goal
<1>18. CASE Hang
  <2>1. UNCHANGED <<spent, cost, flag, ended, manifest, observations>>
    BY <1>18 DEF Hang, CommandHangs, RederivationHangs
  <2>2. Working(pc) /\ Working(pc')
    BY <1>18 DEF Hang, CommandHangs, RederivationHangs, Working
  <2> QED
    BY <1>0, <2>1, <2>2, <1>e, <1>w
<1> QED
  BY <1>1, <1>2, <1>3, <1>5, <1>6, <1>7, <1>8, <1>9, <1>10, <1>11, <1>12, <1>13,
     <1>14, <1>15, <1>16, <1>17, <1>18 DEF Next, Setup, Turn, Act

\* A run implements its contract: it answers only with a flag an observation
\* supports, never revises what it concluded, and records exactly that.
THEOREM RunKeepsContract == Spec => KeepsContract
  BY ContractInit, ContractStep, PTL DEF Spec, KeepsContract, Contract!Spec

-----------------------------------------------------------------------------
(* Type correctness.                                                          *)


\* Once a request is out, the step that sent it is numbered from one, which is
\* what makes the ids of its tool calls CallIds.
TypeInv ==
    /\ LoopTypeOK
    /\ pc \in {"llm", "act"} => step \in 1 .. MaxSteps

-----------------------------------------------------------------------------
(* Messages *)

LEMMA MessagesTyped ==
    /\ UserMessage \in Message
    /\ \A ids \in SUBSET CallIds : AssistantMessage(ids) \in Message
    /\ \A id \in CallIds : ToolMessage(id) \in Message
  BY DEF Message, UserMessage, AssistantMessage, ToolMessage

LEMMA StepIdsTyped ==
    ASSUME step \in 1 .. MaxSteps, NEW k \in 0 .. MaxExtras
    PROVE  <<step, k>> \in CallIds
  BY LoopAssumption

\* A non-empty set of numbers has a least one.
LEMMA LeastExists ==
    ASSUME NEW S \in SUBSET Nat, S # {}
    PROVE  \E i \in S : \A j \in S : i <= j
<1>1. PICK i \in S : \A j \in S : ~(<<j, i>> \in OpToRel(<, Nat))
  BY NatLessThanWellFounded, WFMin
<1>2. \A j \in S : ~(j < i)
  BY <1>1 DEF OpToRel
<1> QED
  BY <1>2

\* Compaction turns messages into messages.
LEMMA CompactTyped ==
    ASSUME NEW h \in Seq(Message), NEW max \in Nat \ {0}
    PROVE  Compact(h, max) \in Seq(Message)
<1>1. CASE ~Compactable(h, max)
  BY <1>1 DEF Compact
<1>2. CASE Compactable(h, max)
  <2> DEFINE split == CHOOSE i \in SplitPoints(h, max) :
                        \A j \in SplitPoints(h, max) : i <= j
  <2>1. SplitPoints(h, max) # {} /\ SplitPoints(h, max) \subseteq 0 .. Len(h) - 1
    BY <1>2 DEF Compactable, SplitPoints
  <2>2. \E i \in SplitPoints(h, max) : \A j \in SplitPoints(h, max) : i <= j
    <3>1. SplitPoints(h, max) \in SUBSET Nat
      BY <2>1
    <3> QED
      BY <2>1, <3>1, LeastExists
  <2>3. split \in 0 .. Len(h) - 1
    BY <2>1, <2>2
  <2> HIDE DEF split
  <2>4. SubSeq(h, split + 1, Len(h)) \in Seq(Message)
    BY <2>3
  <2>5. <<UserMessage>> \in Seq(Message)
    BY MessagesTyped
  <2>6. Compact(h, max) = <<UserMessage>> \o SubSeq(h, split + 1, Len(h))
    BY <1>2 DEF Compact, split
  <2> QED
    BY <2>4, <2>5, <2>6
<1> QED
  BY <1>1, <1>2
-----------------------------------------------------------------------------
(* Events *)

LEMMA EventTyped ==
    ASSUME NEW type \in EventTypes, NEW s \in 0 .. MaxSteps, NEW what \in Subjects,
           NEW note \in Notes, NEW n \in Nat
    PROVE  Event(type, s, what, note, n) \in TraceEvent
  BY DEF Event, TraceEvent

LEMMA EmitTyped ==
    ASSUME LoopTypeOK, NEW events \in Seq(TraceEvent), Emit(events)
    PROVE  trace' \in Seq(TraceEvent)
  BY DEF Emit, LoopTypeOK

LEMMA SubjectsTyped ==
    /\ NoSubject \in Subjects
    /\ \A f \in Flags \cup {NoSubject} : f \in Subjects
    /\ \A c \in Commands \cup {Submit, NoSubject} : c \in Subjects
  BY DEF Subjects

\* Finishing emits what came before and a typed run.finished.
LEMMA FinishTyped ==
    ASSUME LoopTypeOK, NEW outcome \in Outcomes, NEW code \in Nat,
           NEW events \in Seq(TraceEvent),
           flag' \in Flags \cup {NoSubject}, cost' \in Nat,
           Finish(outcome, code, events)
    PROVE  trace' \in Seq(TraceEvent) /\ ended' \in [outcome : Outcomes, code : Nat]
<1>1. Event("run.finished", step, flag', outcome, cost') \in TraceEvent
  <2>1. outcome \in Notes /\ "run.finished" \in EventTypes
    BY DEF Notes, EventTypes
  <2> QED
    BY <2>1, EventTyped, SubjectsTyped DEF LoopTypeOK
<1>2. Append(events, Event("run.finished", step, flag', outcome, cost')) \in Seq(TraceEvent)
  BY <1>1
<1> QED
  BY <1>2, EmitTyped DEF Finish

\* Escaping emits what came before.
LEMMA EscapeTyped ==
    ASSUME LoopTypeOK, NEW code \in Nat, NEW events \in Seq(TraceEvent), Escape(code, events)
    PROVE  trace' \in Seq(TraceEvent) /\ ended' \in [outcome : Outcomes, code : Nat]
  BY EmitTyped DEF Escape, Outcomes
-----------------------------------------------------------------------------
(* The actions.  Each disturbs the trace, and a few of the other variables.   *)

LEMMA TypeInit == Init => TypeInv
<1> SUFFICES ASSUME Init PROVE TypeInv
  OBVIOUS
<1>1. step \in 0 .. MaxSteps /\ pc = "new"
  BY LoopAssumption DEF Init
<1>2. history \in Seq(Message) /\ trace \in Seq(TraceEvent)
  BY DEF Init
<1>3. ended \in [outcome : Outcomes, code : Nat]
  BY DEF Init, NotFinished, Outcomes
<1>4. manifest \in [outcome : Outcomes, code : Nat, flag : Flags \cup {NoSubject},
                    cost : Nat, steps : Nat, progress : Nat, blocked : Nat]
  BY DEF Init, Outcomes
<1> QED
  BY <1>1, <1>2, <1>3, <1>4 DEF Init, TypeInv, LoopTypeOK

\* The run breaks: nothing but the trace, the step it was in and what the judge
\* and the renderer remember has changed.
LEMMA EscapeKeepsTypes ==
    ASSUME TypeInv, NEW code \in Nat, NEW events \in Seq(TraceEvent), Escape(code, events),
           step' \in 0 .. MaxSteps,
           observations' \subseteq Observation, rendered' \subseteq ToolOutput,
           UNCHANGED <<policy, call, spent, cost, flag, progressSteps, blockedSteps,
                       history, manifest>>
    PROVE  TypeInv'
<1>1. trace' \in Seq(TraceEvent) /\ ended' \in [outcome : Outcomes, code : Nat]
  BY EscapeTyped DEF TypeInv
<1>2. pc' = "escaped"
  BY DEF Escape
<1> QED
  BY <1>1, <1>2 DEF TypeInv, LoopTypeOK

\* The run finishes: only the trace, the bill and the flag have changed.
LEMMA FinishKeepsTypes ==
    ASSUME TypeInv, NEW outcome \in Outcomes, NEW code \in Nat,
           NEW events \in Seq(TraceEvent), Finish(outcome, code, events),
           spent' \in Nat, cost' \in Nat, flag' \in Flags \cup {NoSubject},
           UNCHANGED <<policy, step, call, progressSteps, blockedSteps, history,
                       observations, rendered, manifest>>
    PROVE  TypeInv'
<1>1. trace' \in Seq(TraceEvent) /\ ended' \in [outcome : Outcomes, code : Nat]
  BY FinishTyped DEF TypeInv
<1>2. pc' = "returned"
  BY DEF Finish
<1> QED
  BY <1>1, <1>2 DEF TypeInv, LoopTypeOK

\* The run goes on.
LEMMA WorkKeepsTypes ==
    ASSUME TypeInv, NEW events \in Seq(TraceEvent), Emit(events),
           pc' \in {"triage", "step", "llm", "act", "hung"},
           step' \in 0 .. MaxSteps, pc' \in {"llm", "act"} => step' \in 1 .. MaxSteps,
           call' \in Commands \cup {Submit, NoSubject},
           spent' \in Nat, cost' \in Nat, progressSteps' \in Nat, blockedSteps' \in Nat,
           history' \in Seq(Message),
           observations' \subseteq Observation, rendered' \subseteq ToolOutput,
           UNCHANGED <<policy, flag, ended, manifest>>
    PROVE  TypeInv'
<1>1. trace' \in Seq(TraceEvent)
  BY EmitTyped DEF TypeInv
<1> QED
  BY <1>1 DEF TypeInv, LoopTypeOK
-----------------------------------------------------------------------------
(* What the actions write                                                     *)

\* An event of this step about no subject, with a note.
LEMMA PlainEventTyped ==
    ASSUME LoopTypeOK, NEW type \in EventTypes, NEW note \in Notes, NEW n \in Nat
    PROVE  Event(type, step, NoSubject, note, n) \in TraceEvent
  BY EventTyped, SubjectsTyped DEF LoopTypeOK

LEMMA ShortSeqs ==
    ASSUME NEW S
    PROVE  /\ <<>> \in Seq(S)
           /\ \A a \in S : <<a>> \in Seq(S)
           /\ \A a, b \in S : <<a, b>> \in Seq(S)
  OBVIOUS

LEMMA OpeningTyped == Opening \in Seq(TraceEvent)
<1>1. 0 \in 0 .. MaxSteps /\ "" \in Notes
  BY LoopAssumption DEF Notes
<1>2. Event("run.started", 0, NoSubject, "", 0) \in TraceEvent
  BY <1>1, EventTyped, SubjectsTyped DEF EventTypes
<1>3. Event("challenge.loaded", 0, NoSubject, "", 0) \in TraceEvent
  BY <1>1, EventTyped, SubjectsTyped DEF EventTypes
<1> QED
  BY <1>2, <1>3, ShortSeqs DEF Opening

\* The judge's events carry a flag, a seq and one of its words.
LEMMA JudgeEventsTyped ==
    ASSUME LoopTypeOK, NEW f \in Flags, NEW seq \in Nat,
           NEW rederived \in {"notrun", "matched", "unmatched", "errored"},
           NEW decision \in {"rejected", "finalized", "pending"}
    PROVE  JudgeEvents(f, seq, rederived, decision) \in Seq(TraceEvent)
<1>1. step \in 0 .. MaxSteps /\ f \in Subjects
  BY SubjectsTyped DEF LoopTypeOK
<1>2. Event("flag.candidate", step, f, "", seq) \in TraceEvent
  BY <1>1, EventTyped DEF EventTypes, Notes
<1>3. Event("flag.decision", step, f, decision, 0) \in TraceEvent
  BY <1>1, EventTyped DEF EventTypes, Notes
<1>4. rederived # "notrun" => Event("flag.rederived", step, f, rederived, seq) \in TraceEvent
  BY <1>1, EventTyped DEF EventTypes, Notes
<1> DEFINE first == <<Event("flag.candidate", step, f, "", seq)>>
           second == IF rederived = "notrun" THEN <<>>
                     ELSE <<Event("flag.rederived", step, f, rederived, seq)>>
           third == <<Event("flag.decision", step, f, decision, 0)>>
<1>5. first \in Seq(TraceEvent) /\ second \in Seq(TraceEvent) /\ third \in Seq(TraceEvent)
  BY <1>2, <1>3, <1>4, ShortSeqs
<1>6. JudgeEvents(f, seq, rederived, decision) = first \o second \o third
  BY DEF JudgeEvents
<1> HIDE DEF first, second, third
<1> QED
  BY <1>5, <1>6

LEMMA ShiftEventsTyped ==
    ASSUME LoopTypeOK, TrackerTypeOK'
    PROVE  ShiftEvents \in Seq(TraceEvent) /\ ShiftMessages \in Seq(Message)
<1>1. shift'.reported \in {"none", "errors", "no-progress", "budget"}
  BY DEF TrackerTypeOK
<1>2. shift'.reported \in Notes /\ "strategy.shift" \in EventTypes
  BY <1>1 DEF Notes, Outcomes, EventTypes
<1>3. Event("strategy.shift", step, NoSubject, shift'.reported, 0) \in TraceEvent
  BY <1>2, PlainEventTyped
<1> QED
  BY <1>3, MessagesTyped DEF ShiftEvents, ShiftMessages

LEMMA CallEventsTyped ==
    ASSUME LoopTypeOK, NEW c \in Commands, NEW out
    PROVE  /\ Event("tool.call", step, c, "", 0) \in TraceEvent
           /\ CallEvents(c, out) \in Seq(TraceEvent)
<1>1. step \in 0 .. MaxSteps /\ c \in Subjects
  BY SubjectsTyped DEF LoopTypeOK
<1>2. KindOf(c, out) \in Notes
  BY DEF KindOf, Notes, Outcomes
<1>3. Event("tool.call", step, c, "", 0) \in TraceEvent
  BY <1>1, EventTyped DEF EventTypes, Notes
<1>4. Event("tool.result", step, c, KindOf(c, out), 0) \in TraceEvent
  BY <1>1, <1>2, EventTyped DEF EventTypes
<1> QED
  BY <1>3, <1>4, ShortSeqs DEF CallEvents

LEMMA ObservationTyped ==
    ASSUME LoopTypeOK, NEW c \in Commands, NEW out \in ToolOutput
    PROVE  ObservationOf(c, out) \in Observation /\ TextOf(out) \in ToolOutput
<1>1. Seq_(2) \in Nat
  BY DEF Seq_, LoopTypeOK
<1>2. CommandText[c] \in SUBSET Fragments
  BY LoopAssumption
<1> QED
  BY <1>1, <1>2 DEF ObservationOf, TextOf, Observation, ToolOutput
-----------------------------------------------------------------------------
(* One lemma per kind of action                                               *)

LEMMA SetupKeepsTypes == ASSUME TypeInv, Setup PROVE TypeInv'
<1> USE LoopAssumption
<1>0. LoopTypeOK /\ <<>> \in Seq(TraceEvent) /\ 0 \in 0 .. MaxSteps
  BY DEF TypeInv
<1>1. CASE SandboxStartFails \/ TriageFails
  <2>1. Escape(SandboxCode, <<>>) /\ SandboxCode \in Nat
    BY <1>1 DEF SandboxStartFails, TriageFails, SandboxCode
  <2> QED
    BY <1>0, <1>1, <2>1, EscapeKeepsTypes DEF SandboxStartFails, TriageFails, LoopTypeOK
<1>2. CASE Begin
  BY <1>0, <1>2, OpeningTyped, WorkKeepsTypes DEF Begin, LoopTypeOK
<1>3. CASE InputsFail
  <2> DEFINE events == Append(Opening, Event("error", 0, NoSubject, "sandbox", 0))
  <2>1. Event("error", 0, NoSubject, "sandbox", 0) \in TraceEvent
    BY <1>0, EventTyped, SubjectsTyped DEF EventTypes, Notes
  <2>2. events \in Seq(TraceEvent)
    BY <2>1, OpeningTyped
  <2>3. Finish("error", SandboxCode, events) /\ SandboxCode \in Nat /\ "error" \in Outcomes
    BY <1>3 DEF InputsFail, SandboxCode, Outcomes
  <2> HIDE DEF events
  <2> QED
    BY <1>0, <1>3, <2>2, <2>3, FinishKeepsTypes DEF InputsFail, LoopTypeOK
<1>4. CASE Triage
  <2> DEFINE events == <<Event("triage.result", 0, NoSubject, "", 0)>>
  <2>1. events \in Seq(TraceEvent)
    BY <1>0, EventTyped, SubjectsTyped, ShortSeqs DEF EventTypes, Notes
  <2>2. history' \in Seq(Message)
    <3>1. history' = Append(history, UserMessage)
      BY <1>4 DEF Triage
    <3> QED
      BY <1>0, <3>1, MessagesTyped DEF LoopTypeOK
  <2>3. Emit(events)
    BY <1>4 DEF Triage
  <2> HIDE DEF events
  <2> QED
    BY <1>0, <1>4, <2>1, <2>2, <2>3, WorkKeepsTypes DEF Triage, LoopTypeOK
<1> QED
  BY <1>1, <1>2, <1>3, <1>4 DEF Setup

\* The request: the next step begins.
LEMMA BeginStepKeepsTypes == ASSUME TypeInv, BeginStep PROVE TypeInv'
<1> USE LoopAssumption
<1>0. LoopTypeOK
  BY DEF TypeInv
<1>1. step' \in 1 .. MaxSteps
  <2>1. step' = step + 1 /\ step < MaxSteps
    BY DEF BeginStep, StepsLeft
  <2> QED
    BY <1>0, <2>1 DEF LoopTypeOK
<1>2. history' \in Seq(Message)
  <2>1. history' = Compact(history, MaxMessages)
    BY DEF BeginStep
  <2> QED
    BY <1>0, <2>1, CompactTyped DEF LoopTypeOK
<1>3. spent' \in Nat
  <2>1. PICK u \in Summarized(Compactable(history, MaxMessages)) : spent' = spent + u
    BY DEF BeginStep
  <2>2. u \in Nat
    BY SummaryCost
  <2> QED
    BY <1>0, <2>1, <2>2 DEF LoopTypeOK
<1> DEFINE events == <<Event("llm.request", step', NoSubject, "", Len(history'))>>
<1>4. events \in Seq(TraceEvent)
  <2>1. step' \in 0 .. MaxSteps /\ Len(history') \in Nat
    BY <1>1, <1>2
  <2> QED
    BY <2>1, EventTyped, SubjectsTyped, ShortSeqs DEF EventTypes, Notes
<1>5. Emit(events)
  BY DEF BeginStep
<1> HIDE DEF events
<1>6. /\ pc' = "llm"
      /\ UNCHANGED <<policy, call, cost, flag, progressSteps, blockedSteps,
                     observations, rendered, ended, manifest>>
  BY DEF BeginStep
<1> QED
  BY <1>0, <1>1, <1>2, <1>3, <1>4, <1>5, <1>6, WorkKeepsTypes DEF LoopTypeOK

\* The turns that break or finish the run.
LEMMA FailedTurnKeepsTypes ==
    ASSUME TypeInv,
           CompactionFails \/ StepsExhausted \/ ProviderFails \/ CredentialsRefused
    PROVE  TypeInv'
<1> USE LoopAssumption
<1>0. LoopTypeOK /\ <<>> \in Seq(TraceEvent)
  BY DEF TypeInv
<1>1. CASE CompactionFails
  <2>1. PICK code \in ProviderCodes : Escape(code, <<>>)
    BY <1>1 DEF CompactionFails
  <2>2. code \in Nat
    BY DEF ProviderCodes
  <2>3. step' \in 0 .. MaxSteps
    BY <1>0, <1>1 DEF CompactionFails, StepsLeft, LoopTypeOK
  <2> QED
    BY <1>0, <1>1, <2>1, <2>2, <2>3, EscapeKeepsTypes DEF CompactionFails, LoopTypeOK
<1>2. CASE StepsExhausted
  <2>1. "exhausted" \in Outcomes /\ Finish("exhausted", 3, <<>>)
    BY <1>2 DEF StepsExhausted, Outcomes
  <2> QED
    BY <1>0, <1>2, <2>1, FinishKeepsTypes DEF StepsExhausted, LoopTypeOK
<1>3. CASE ProviderFails
  <2> DEFINE events == <<Event("error", step, NoSubject, "provider", 0)>>
  <2>1. events \in Seq(TraceEvent)
    BY <1>0, PlainEventTyped, ShortSeqs DEF EventTypes, Notes
  <2>2. "error" \in Outcomes /\ Finish("error", 5, events)
    BY <1>3 DEF ProviderFails, Outcomes
  <2> HIDE DEF events
  <2> QED
    BY <1>0, <1>3, <2>1, <2>2, FinishKeepsTypes DEF ProviderFails, LoopTypeOK
<1>4. CASE CredentialsRefused
  <2>1. Escape(6, <<>>)
    BY <1>4 DEF CredentialsRefused
  <2> QED
    BY <1>0, <1>4, <2>1, EscapeKeepsTypes DEF CredentialsRefused, LoopTypeOK
<1> QED
  BY <1>1, <1>2, <1>3, <1>4

\* A completion adds to the ledger.
LEMMA CompletionTyped ==
    ASSUME LoopTypeOK, NEW c \in CallCosts, spent' = spent + c
    PROVE  spent' \in Nat /\ CostUpdated \in TraceEvent
<1>1. spent' \in Nat
  BY CompletionCost DEF LoopTypeOK
<1>2. CostUpdated \in TraceEvent
  BY <1>1, PlainEventTyped DEF CostUpdated, EventTypes, Notes
<1> QED
  BY <1>1, <1>2

LEMMA CeilingKeepsTypes ==
    ASSUME TypeInv, NEW c \in CallCosts, CeilingReached(c) PROVE TypeInv'
<1>0. LoopTypeOK
  BY DEF TypeInv
<1>1. /\ spent' = spent + c /\ cost' = spent'
      /\ UNCHANGED <<policy, step, call, flag, progressSteps, blockedSteps, history,
                     observations, rendered, manifest>>
  BY DEF CeilingReached
<1>2. spent' \in Nat /\ CostUpdated \in TraceEvent
  BY <1>0, <1>1, CompletionTyped
<1> DEFINE events == <<CostUpdated, Event("budget.exhausted", step, NoSubject, "", spent')>>
<1>3. Event("budget.exhausted", step, NoSubject, "", spent') \in TraceEvent
  BY <1>0, <1>2, PlainEventTyped DEF EventTypes, Notes
<1>4. events \in Seq(TraceEvent)
  BY <1>2, <1>3, ShortSeqs
<1>5. "exhausted" \in Outcomes /\ Finish("exhausted", 3, events)
  BY DEF CeilingReached, Outcomes
<1> HIDE DEF events
<1> QED
  BY <1>0, <1>1, <1>2, <1>4, <1>5, FinishKeepsTypes DEF LoopTypeOK

LEMMA NudgeKeepsTypes ==
    ASSUME TypeInv, NEW c \in CallCosts, Nudge(c) PROVE TypeInv'
<1>0. LoopTypeOK
  BY DEF TypeInv
<1>1. /\ spent' = spent + c /\ cost' = spent' /\ pc' = "step"
      /\ UNCHANGED <<policy, step, call, flag, progressSteps, blockedSteps,
                     observations, rendered, ended, manifest>>
  BY DEF Nudge
<1>2. spent' \in Nat /\ CostUpdated \in TraceEvent
  BY <1>0, <1>1, CompletionTyped
<1> DEFINE events == <<CostUpdated, Event("llm.response", step, NoSubject, "", 0)>>
<1>3. Event("llm.response", step, NoSubject, "", 0) \in TraceEvent
  BY <1>0, PlainEventTyped DEF EventTypes, Notes
<1>4. events \in Seq(TraceEvent)
  BY <1>2, <1>3, ShortSeqs
<1>5. Emit(events)
  BY DEF Nudge
<1>6. history' \in Seq(Message)
  <2>1. history' = history \o <<AssistantMessage({}), UserMessage>>
    BY DEF Nudge
  <2>2. <<AssistantMessage({}), UserMessage>> \in Seq(Message)
    BY MessagesTyped, ShortSeqs
  <2> QED
    BY <1>0, <2>1, <2>2 DEF LoopTypeOK
<1> HIDE DEF events
<1> QED
  BY <1>0, <1>1, <1>2, <1>4, <1>5, <1>6, WorkKeepsTypes DEF LoopTypeOK

\* Every call of the completion has an id of this step.
LEMMA ProposeKeepsTypes ==
    ASSUME TypeInv, NEW c \in CallCosts, NEW primary \in Commands \cup {Submit},
           NEW extras \in 0 .. MaxExtras, Propose(c, primary, extras)
    PROVE  TypeInv'
<1> USE LoopAssumption
<1>0. LoopTypeOK
  BY DEF TypeInv
<1>1. /\ pc = "llm" /\ pc' = "act"
      /\ spent' = spent + c /\ cost' = spent'
      /\ call' = primary /\ blockedSteps' = blockedSteps + extras
      /\ UNCHANGED <<policy, step, flag, progressSteps, observations, rendered, ended,
                     manifest>>
  BY DEF Propose
<1>2. spent' \in Nat /\ CostUpdated \in TraceEvent
  BY <1>0, <1>1, CompletionTyped
<1>3. step \in 1 .. MaxSteps
  BY <1>1 DEF TypeInv
<1> DEFINE turn == <<CostUpdated, Event("llm.response", step, primary, "", 0)>>
           refusals == [k \in 1 .. extras |->
                          Event("tool.result", step, NoSubject, "blocked", 0)]
           answers == [k \in 1 .. extras |-> ToolMessage(<<step, k>>)]
           ids == {<<step, k>> : k \in 0 .. extras}
<1>4. turn \o refusals \in Seq(TraceEvent)
  <2>1. Event("llm.response", step, primary, "", 0) \in TraceEvent
    <3>1. step \in 0 .. MaxSteps /\ primary \in Subjects
      BY <1>0, SubjectsTyped DEF LoopTypeOK
    <3> QED
      BY <3>1, EventTyped DEF EventTypes, Notes
  <2>2. turn \in Seq(TraceEvent)
    BY <1>2, <2>1, ShortSeqs
  <2>3. Event("tool.result", step, NoSubject, "blocked", 0) \in TraceEvent
    BY <1>0, PlainEventTyped DEF EventTypes, Notes
  <2>4. refusals \in Seq(TraceEvent)
    BY <2>3
  <2> HIDE DEF turn, refusals
  <2> QED
    BY <2>2, <2>4
<1>5. history' \in Seq(Message)
  <2>1. \A k \in 0 .. extras : <<step, k>> \in CallIds
    BY <1>3, StepIdsTyped
  <2>2. AssistantMessage(ids) \in Message
    <3>1. ids \in SUBSET CallIds
      BY <2>1
    <3> QED
      BY <3>1, MessagesTyped
  <2>3. answers \in Seq(Message)
    <3>1. \A k \in 1 .. extras : ToolMessage(<<step, k>>) \in Message
      BY <2>1, MessagesTyped
    <3> QED
      BY <3>1
  <2>4. history' = Append(history, AssistantMessage(ids)) \o answers
    BY DEF Propose
  <2> HIDE DEF answers, ids
  <2> QED
    BY <1>0, <2>2, <2>3, <2>4 DEF LoopTypeOK
<1>6. Emit(turn \o refusals)
  BY DEF Propose
<1> HIDE DEF turn, refusals
<1>7. blockedSteps' \in Nat /\ call' \in Commands \cup {Submit, NoSubject}
  BY <1>0, <1>1 DEF LoopTypeOK
<1>8. /\ step' \in 0 .. MaxSteps /\ step' \in 1 .. MaxSteps
      /\ progressSteps' \in Nat /\ observations' \subseteq Observation
      /\ rendered' \subseteq ToolOutput /\ cost' \in Nat
  BY <1>0, <1>1, <1>2, <1>3 DEF LoopTypeOK
<1> QED
  BY <1>1, <1>2, <1>4, <1>5, <1>6, <1>7, <1>8, WorkKeepsTypes

-----------------------------------------------------------------------------
(* Acting on the primary call                                                 *)

\* The answer to the primary call, appended.
LEMMA AnswerTyped ==
    ASSUME TypeInv, pc = "act"
    PROVE  Append(history, ToolMessage(PrimaryId)) \in Seq(Message)
<1>1. PrimaryId \in CallIds
  BY StepIdsTyped, LoopAssumption DEF TypeInv, PrimaryId
<1> QED
  BY <1>1, MessagesTyped DEF TypeInv, LoopTypeOK

LEMMA RejectKeepsTypes ==
    ASSUME TypeInv, NEW f \in Flags, NEW seq \in Citations, RejectFlag(f, seq)
    PROVE  TypeInv'
<1>0. LoopTypeOK
  BY DEF TypeInv
<1>1. /\ pc = "act" /\ pc' = "step"
      /\ history' = Append(history, ToolMessage(PrimaryId))
      /\ UNCHANGED <<policy, step, call, spent, cost, flag, progressSteps, blockedSteps,
                     observations, rendered, ended, manifest>>
  BY DEF RejectFlag
<1>2. history' \in Seq(Message)
  BY <1>1, AnswerTyped
<1> DEFINE at == IF Plausible(f) /\ Cited(f, observations, seq) # {}
                 THEN seq ELSE Seq_(1)
<1>3. at \in Nat
  <2>1. seq \in Nat
    BY <1>0 DEF Citations, LoopTypeOK, Observation
  <2>2. Seq_(1) \in Nat
    BY <1>0 DEF LoopTypeOK, Seq_
  <2> QED
    BY <2>1, <2>2
<1>4. Emit(JudgeEvents(f, at, "notrun", "rejected"))
  BY DEF RejectFlag
<1> HIDE DEF at
<1>5. JudgeEvents(f, at, "notrun", "rejected") \in Seq(TraceEvent)
  BY <1>0, <1>3, JudgeEventsTyped
<1> QED
  BY <1>0, <1>1, <1>2, <1>4, <1>5, WorkKeepsTypes DEF LoopTypeOK

LEMMA AcceptKeepsTypes ==
    ASSUME TypeInv, NEW f \in Flags, NEW seq \in Citations, AcceptFlag(f, seq)
    PROVE  TypeInv'
<1>0. LoopTypeOK
  BY DEF TypeInv
<1>1. /\ flag' = f
      /\ UNCHANGED <<policy, step, call, spent, cost, progressSteps, blockedSteps,
                     history, observations, rendered, manifest>>
  BY DEF AcceptFlag
<1>2. PICK o \in observations : \E rederived \in Rederivations(o) :
        LET decision == PolicyDecision(policy, f, rederived)
        IN  Finish(IF decision = "finalized" THEN "solved" ELSE "candidate",
                   IF decision = "finalized" THEN 0 ELSE 2,
                   JudgeEvents(f, seq, rederived, decision))
  BY DEF AcceptFlag
<1>p. PICK rederived \in Rederivations(o) :
        LET decision == PolicyDecision(policy, f, rederived)
        IN  Finish(IF decision = "finalized" THEN "solved" ELSE "candidate",
                   IF decision = "finalized" THEN 0 ELSE 2,
                   JudgeEvents(f, seq, rederived, decision))
  BY <1>2
<1> DEFINE decision == PolicyDecision(policy, f, rederived)
           outcome == IF decision = "finalized" THEN "solved" ELSE "candidate"
           code == IF decision = "finalized" THEN 0 ELSE 2
           events == JudgeEvents(f, seq, rederived, decision)
<1>3. Finish(outcome, code, events)
  BY <1>p
<1>4. outcome \in Outcomes /\ code \in Nat
  BY DEF Outcomes
<1>5. events \in Seq(TraceEvent)
  <2>1. decision \in {"rejected", "finalized", "pending"}
    BY DEF PolicyDecision
  <2>2. rederived \in {"notrun", "matched", "unmatched", "errored"}
    BY DEF Rederivations
  <2>3. seq \in Nat
    BY <1>0 DEF Citations, LoopTypeOK, Observation
  <2> HIDE DEF decision
  <2> QED
    BY <1>0, <2>1, <2>2, <2>3, JudgeEventsTyped
<1> HIDE DEF outcome, code, events
<1> QED
  BY <1>0, <1>1, <1>3, <1>4, <1>5, FinishKeepsTypes DEF LoopTypeOK

LEMMA RefuseKeepsTypes ==
    ASSUME TypeInv, TrackerTypeOK', NEW c \in Commands, RefuseCommand(c) PROVE TypeInv'
<1>0. LoopTypeOK
  BY DEF TypeInv
<1>1. /\ pc = "act" /\ pc' = "step" /\ blockedSteps' = blockedSteps + 1
      /\ history' = Append(history, ToolMessage(PrimaryId)) \o ShiftMessages
      /\ UNCHANGED <<policy, step, call, spent, cost, flag, progressSteps,
                     observations, rendered, ended, manifest>>
  BY DEF RefuseCommand
<1>2. history' \in Seq(Message)
  BY <1>0, <1>1, AnswerTyped, ShiftEventsTyped
<1> DEFINE refusal == <<Event("budget.blocked", step, c, "", 0)>>
<1>3. refusal \in Seq(TraceEvent)
  <2>1. step \in 0 .. MaxSteps /\ c \in Subjects
    BY <1>0, SubjectsTyped DEF LoopTypeOK
  <2> QED
    BY <2>1, EventTyped, ShortSeqs DEF EventTypes, Notes
<1>4. Emit(refusal \o ShiftEvents)
  BY DEF RefuseCommand
<1> HIDE DEF refusal
<1>5. refusal \o ShiftEvents \in Seq(TraceEvent)
  BY <1>0, <1>3, ShiftEventsTyped
<1>6. blockedSteps' \in Nat
  BY <1>0, <1>1 DEF LoopTypeOK
<1> QED
  BY <1>0, <1>1, <1>2, <1>4, <1>5, <1>6, WorkKeepsTypes DEF LoopTypeOK

LEMMA ExecuteKeepsTypes ==
    ASSUME TypeInv, TrackerTypeOK', NEW c \in Commands, NEW out \in ResultsOf(c),
           ExecuteCommand(c, out)
    PROVE  TypeInv'
<1>0. LoopTypeOK /\ out \in ToolOutput
  BY ResultsAreOutputs DEF TypeInv
<1>1. /\ pc = "act" /\ pc' = "step"
      /\ progressSteps' = progressSteps + (IF Progressed(out) THEN 1 ELSE 0)
      /\ blockedSteps' = blockedSteps + RefusedByDispatcher(c)
      /\ UNCHANGED <<policy, step, call, cost, flag, ended, manifest>>
  BY DEF ExecuteCommand
<1>2. history' \in Seq(Message)
  <2>1. history' = Append(history, ToolMessage(PrimaryId)) \o ShiftMessages
    BY DEF ExecuteCommand
  <2> QED
    BY <1>0, <1>1, <2>1, AnswerTyped, ShiftEventsTyped
<1>3. spent' \in Nat
  <2>1. PICK u \in Summarized(NeedsSummary(out)) : spent' = spent + u
    BY DEF ExecuteCommand
  <2>2. u \in Nat
    BY SummaryCost
  <2> QED
    BY <1>0, <2>1, <2>2 DEF LoopTypeOK
<1>4. progressSteps' \in Nat /\ blockedSteps' \in Nat
  BY <1>0, <1>1 DEF LoopTypeOK, RefusedByDispatcher
<1>5. observations' \subseteq Observation /\ rendered' \subseteq ToolOutput
  <2>1. /\ observations' = observations \cup {ObservationOf(c, out)}
        /\ rendered' = rendered \cup {TextOf(out)}
    BY DEF ExecuteCommand
  <2> QED
    BY <1>0, <2>1, ObservationTyped DEF LoopTypeOK
<1> DEFINE scored == <<Event("progress.scored", step, c,
                             IF Progressed(out) THEN "progress" ELSE "none", 0)>>
<1>6. scored \in Seq(TraceEvent)
  <2>1. step \in 0 .. MaxSteps /\ c \in Subjects
    BY <1>0, SubjectsTyped DEF LoopTypeOK
  <2>2. (IF Progressed(out) THEN "progress" ELSE "none") \in Notes
    BY DEF Notes, Outcomes
  <2> QED
    BY <2>1, <2>2, EventTyped, ShortSeqs DEF EventTypes
<1>7. Emit(CallEvents(c, out) \o scored \o ShiftEvents)
  BY DEF ExecuteCommand
<1> HIDE DEF scored
<1>8. CallEvents(c, out) \o scored \o ShiftEvents \in Seq(TraceEvent)
  <2>1. CallEvents(c, out) \in Seq(TraceEvent) /\ ShiftEvents \in Seq(TraceEvent)
    BY <1>0, CallEventsTyped, ShiftEventsTyped
  <2> QED
    BY <1>6, <2>1
<1>9. step' \in 0 .. MaxSteps /\ call' \in Commands \cup {Submit, NoSubject} /\ cost' \in Nat
  BY <1>0, <1>1 DEF LoopTypeOK
<1> QED
  BY <1>1, <1>2, <1>3, <1>4, <1>5, <1>7, <1>8, <1>9, WorkKeepsTypes

\* The calls that end the run.
LEMMA FailedCallKeepsTypes ==
    ASSUME TypeInv, NEW c \in Commands,
           ExecuteFails(c) \/ \E out \in ResultsOf(c) : RenderFails(c, out)
    PROVE  TypeInv'
<1>0. LoopTypeOK
  BY DEF TypeInv
<1>1. CASE ExecuteFails(c)
  <2> DEFINE events == <<Event("tool.call", step, c, "", 0)>>
  <2>1. events \in Seq(TraceEvent)
    BY <1>0, CallEventsTyped, ShortSeqs
  <2>2. Escape(SandboxCode, events) /\ SandboxCode \in Nat
    BY <1>1 DEF ExecuteFails, SandboxCode
  <2> HIDE DEF events
  <2> QED
    BY <1>0, <1>1, <2>1, <2>2, EscapeKeepsTypes DEF ExecuteFails, LoopTypeOK
<1>2. ASSUME NEW out \in ResultsOf(c), RenderFails(c, out) PROVE TypeInv'
  <2>1. PICK code \in ProviderCodes : Escape(code, CallEvents(c, out))
    BY <1>2 DEF RenderFails
  <2>2. code \in Nat /\ CallEvents(c, out) \in Seq(TraceEvent)
    <3>1. code \in Nat
      BY DEF ProviderCodes
    <3>2. CallEvents(c, out) \in Seq(TraceEvent)
      BY <1>0, CallEventsTyped
    <3> QED
      BY <3>1, <3>2
  <2>3. observations' \subseteq Observation /\ rendered' \subseteq ToolOutput
    <3>1. /\ observations' = observations \cup {ObservationOf(c, out)}
          /\ rendered' = rendered \cup {TextOf(out)}
      BY <1>2 DEF RenderFails
    <3>2. ObservationOf(c, out) \in Observation /\ TextOf(out) \in ToolOutput
      BY <1>0, ResultsAreOutputs, ObservationTyped
    <3> QED
      BY <1>0, <3>1, <3>2 DEF LoopTypeOK
  <2>4. /\ step' \in 0 .. MaxSteps
        /\ UNCHANGED <<policy, call, spent, cost, flag, progressSteps, blockedSteps,
                       history, manifest>>
    BY <1>0, <1>2 DEF RenderFails, LoopTypeOK
  <2> QED
    BY <2>1, <2>2, <2>3, <2>4, EscapeKeepsTypes
<1> QED
  BY <1>1, <1>2

\* A command that does not return leaves its tool.call, and nothing else.
LEMMA HangKeepsTypes == ASSUME TypeInv, Hang PROVE TypeInv'
<1>0. LoopTypeOK
  BY DEF TypeInv
<1>1. ASSUME NEW c \in Commands, CommandHangs(c) PROVE TypeInv'
  <2> DEFINE events == <<Event("tool.call", step, c, "", 0)>>
  <2>1. events \in Seq(TraceEvent)
    BY <1>0, CallEventsTyped, ShortSeqs
  <2>2. Emit(events)
    BY <1>1 DEF CommandHangs
  <2> HIDE DEF events
  <2> QED
    BY <1>0, <1>1, <2>1, <2>2, WorkKeepsTypes DEF CommandHangs, LoopTypeOK
<1>2. ASSUME NEW f, NEW seq, RederivationHangs(f, seq) PROVE TypeInv'
  BY <1>0, <1>2 DEF RederivationHangs, TypeInv, LoopTypeOK
<1> QED
  BY <1>1, <1>2 DEF Hang

\* The manifest is written from what the run returned, or from its error.
LEMMA CloseKeepsTypes == ASSUME TypeInv, Close \/ Die PROVE TypeInv'
<1>0. LoopTypeOK
  BY DEF TypeInv
<1>1. /\ pc' \in {"done", "dead"}
      /\ UNCHANGED <<policy, step, call, spent, cost, flag, progressSteps, blockedSteps,
                     history, observations, rendered, trace, ended>>
  BY DEF Close, FinishRun, RecordError, Die
<1>2. manifest' \in [outcome : Outcomes, code : Nat, flag : Flags \cup {NoSubject},
                     cost : Nat, steps : Nat, progress : Nat, blocked : Nat]
  <2>1. CASE FinishRun
    BY <1>0, <2>1 DEF FinishRun, LoopTypeOK
  <2>2. CASE RecordError
    BY <1>0, <2>2 DEF RecordError, LoopTypeOK, Outcomes
  <2>3. CASE Die
    BY <1>0, <2>3 DEF Die, LoopTypeOK
  <2> QED
    BY <2>1, <2>2, <2>3 DEF Close
<1> QED
  BY <1>0, <1>1, <1>2 DEF TypeInv, LoopTypeOK

-----------------------------------------------------------------------------

LEMMA TypeStep == TypeInv /\ TrackerTypeOK' /\ [Next]_vars => TypeInv'
<1> SUFFICES ASSUME TypeInv, TrackerTypeOK', [Next]_vars PROVE TypeInv'
  OBVIOUS
<1>1. CASE UNCHANGED vars
  BY <1>1 DEF vars, loopVars, TypeInv, LoopTypeOK
<1>2. CASE Turn
  BY <1>2, BeginStepKeepsTypes, FailedTurnKeepsTypes, CeilingKeepsTypes,
     NudgeKeepsTypes, ProposeKeepsTypes DEF Turn
<1>3. CASE Act
  BY <1>3, RejectKeepsTypes, AcceptKeepsTypes, RefuseKeepsTypes, ExecuteKeepsTypes,
     FailedCallKeepsTypes DEF Act
<1> QED
  BY <1>1, <1>2, <1>3, SetupKeepsTypes, HangKeepsTypes, CloseKeepsTypes DEF Next

\* Every variable of a run keeps its type, whatever the model proposes and
\* whatever the sandbox, the provider and the summarizer answer: events carry
\* steps in range and seqs that are numbers, tool messages answer calls of
\* their own completion, and run.json is always a whole record.
THEOREM RunTyped == Spec => []TypeOK
<1>1. Spec => []TrackerTypeOK
  BY RunDrivesTracker, TrackerTyped, PTL
<1>2. Spec => []TypeInv
  BY <1>1, TypeInit, TypeStep, PTL DEF Spec
<1>3. TrackerTypeOK /\ TypeInv => TypeOK
  BY DEF TypeInv, TypeOK
<1> QED
  BY <1>1, <1>2, <1>3, PTL
=============================================================================
