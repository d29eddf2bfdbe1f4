------------------------ MODULE ProgressTrackerProofs ------------------------
(***************************************************************************)
(* Theorems about the anti-loop machinery, for every set of commands, every *)
(* classification of them and every positive threshold.                     *)
(***************************************************************************)
EXTENDS ProgressTracker, TLAPS

\* What due_shift leaves behind, whatever counters it is called with: neither
\* reaches its threshold.
LEMMA DueShiftResets ==
    ASSUME NEW run \in Nat, NEW errors \in Nat, NEW blocked \in BOOLEAN,
           DueShift(run, errors, blocked)
    PROVE  /\ noProgressRun' \in Nat /\ noProgressRun' < NoProgressShift
           /\ consecutiveErrors' \in Nat /\ consecutiveErrors' < ErrorShift
           /\ shift' \in [trigger  : {"none", "errors", "no-progress"},
                          reported : {"none", "errors", "no-progress", "budget"}]
<1>1. CASE ShiftTrigger(run, errors) = "none"
  <2>1. errors < ErrorShift /\ run < NoProgressShift
    BY <1>1, BudgetAssumption DEF ShiftTrigger
  <2> QED
    BY <1>1, <2>1 DEF DueShift, NoShift
<1>2. CASE ShiftTrigger(run, errors) # "none"
  <2>1. ShiftTrigger(run, errors) \in {"errors", "no-progress"}
    BY <1>2, BudgetAssumption DEF ShiftTrigger
  <2> QED
    BY <1>2, <2>1, BudgetAssumption DEF DueShift, ShiftReasonKind
<1> QED
  BY <1>1, <1>2

\* Charging a command that no budget refuses fills neither of its counters past
\* its threshold, and touches no other.
LEMMA ChargeKeepsBudget ==
    ASSUME TrackerTypeOK, WasteWithinBudget,
           NEW c \in Commands, ~Blocked(c),
           NEW progressed \in BOOLEAN, ChargeLedger(c, progressed)
    PROVE  /\ familyMisses' \in [Families -> Nat]
           /\ hypothesisMisses' \in [Hypotheses -> Nat]
           /\ WasteWithinBudget'
<1>1. KeyOf[c] \in Hypotheses /\ FamilyOf[c] \in Families
  BY CommandAssumption
<1>2. /\ hypothesisMisses[KeyOf[c]] + 1 <= PerHypothesis
      /\ familyMisses[FamilyOf[c]] + 1 <= PerFamily
  BY <1>1, BudgetAssumption DEF Blocked, TrackerTypeOK
<1>3. /\ familyMisses' \in [Families -> Nat]
      /\ hypothesisMisses' \in [Hypotheses -> Nat]
  BY <1>1 DEF ChargeLedger, TrackerTypeOK
<1>4. WasteWithinBudget'
  BY <1>1, <1>2, BudgetAssumption DEF ChargeLedger, WasteWithinBudget, TrackerTypeOK
<1> QED
  BY <1>3, <1>4

-----------------------------------------------------------------------------
(* The inductive invariant: its three parts hold together, since a counter is *)
(* only charged below its threshold and only reset by due_shift at one.       *)

TrackerInv == TrackerTypeOK /\ WasteWithinBudget /\ ShiftNeverOverdue

LEMMA TrackerInitInv == TrackerInit => TrackerInv
  BY CommandAssumption, BudgetAssumption
  DEF TrackerInit, TrackerInv, TrackerTypeOK, WasteWithinBudget, ShiftNeverOverdue, NoShift

\* A refused command changes only the run lengths, through due_shift.
LEMMA NoteBlockedKeepsInv ==
    ASSUME TrackerInv, NEW c \in Commands, NoteBlocked(c)
    PROVE  TrackerInv'
<1>1. /\ noProgressRun' \in Nat /\ noProgressRun' < NoProgressShift
      /\ consecutiveErrors' \in Nat /\ consecutiveErrors' < ErrorShift
      /\ shift' \in [trigger  : {"none", "errors", "no-progress"},
                     reported : {"none", "errors", "no-progress", "budget"}]
  <2>1. noProgressRun + 1 \in Nat /\ consecutiveErrors \in Nat
    BY DEF TrackerInv, TrackerTypeOK
  <2>2. DueShift(noProgressRun + 1, consecutiveErrors, TRUE)
    BY DEF NoteBlocked
  <2> QED
    BY <2>1, <2>2, DueShiftResets
<1>2. UNCHANGED <<familyMisses, hypothesisMisses, seen>>
  BY DEF NoteBlocked
<1> QED
  BY <1>1, <1>2 DEF TrackerInv, TrackerTypeOK, WasteWithinBudget, ShiftNeverOverdue

\* An executed command charges or clears its own two counters, then due_shift.
LEMMA RecordKeepsInv ==
    ASSUME TrackerInv, NEW c \in Commands, NEW out, out.digest \in Digests, Record(c, out)
    PROVE  TrackerInv'
<1>1. /\ noProgressRun' \in Nat /\ noProgressRun' < NoProgressShift
      /\ consecutiveErrors' \in Nat /\ consecutiveErrors' < ErrorShift
      /\ shift' \in [trigger  : {"none", "errors", "no-progress"},
                     reported : {"none", "errors", "no-progress", "budget"}]
  <2> DEFINE run == IF Progressed(out) THEN 0 ELSE noProgressRun + 1
             errors == IF out.ok THEN 0 ELSE consecutiveErrors + 1
  <2>1. run \in Nat /\ errors \in Nat
    BY DEF TrackerInv, TrackerTypeOK
  <2>2. DueShift(run, errors, FALSE)
    BY DEF Record
  <2> HIDE DEF run, errors
  <2> QED
    BY <2>1, <2>2, DueShiftResets
<1>2. /\ familyMisses' \in [Families -> Nat]
      /\ hypothesisMisses' \in [Hypotheses -> Nat]
      /\ WasteWithinBudget'
  <2>1. Progressed(out) \in BOOLEAN
    BY DEF Progressed
  <2>2. ~Blocked(c) /\ ChargeLedger(c, Progressed(out))
    BY DEF Record
  <2> QED
    BY <2>1, <2>2, ChargeKeepsBudget DEF TrackerInv
<1>3. seen' \subseteq Digests
  BY DEF Record, TrackerInv, TrackerTypeOK
<1> QED
  BY <1>1, <1>2, <1>3 DEF TrackerInv, TrackerTypeOK, ShiftNeverOverdue

LEMMA TrackerStepInv == TrackerInv /\ [TrackerNext]_trackerVars => TrackerInv'
<1> SUFFICES ASSUME TrackerInv, [TrackerNext]_trackerVars PROVE TrackerInv'
  OBVIOUS
<1>1. CASE UNCHANGED trackerVars
  BY <1>1 DEF trackerVars, TrackerInv, TrackerTypeOK, WasteWithinBudget, ShiftNeverOverdue
<1>2. ASSUME NEW c \in Commands, NoteBlocked(c) PROVE TrackerInv'
  BY <1>2, NoteBlockedKeepsInv
<1>3. ASSUME NEW c \in Commands, NEW out \in Outputs, Record(c, out) PROVE TrackerInv'
  <2>1. out.digest \in Digests
    BY DEF Outputs
  <2> QED
    BY <1>3, <2>1, RecordKeepsInv
<1> QED
  BY <1>1, <1>2, <1>3 DEF TrackerNext

\* The tracker's counters stay numbers, and its shifts well formed.
THEOREM TrackerTyped == TrackerSpec => []TrackerTypeOK
<1>1. TrackerInv => TrackerTypeOK
  BY DEF TrackerInv
<1> QED
  BY TrackerInitInv, TrackerStepInv, <1>1, PTL DEF TrackerSpec

\* No hypothesis and no family is ever charged past its budget.
THEOREM WasteIsBounded == TrackerSpec => []WasteWithinBudget
<1>1. TrackerInv => WasteWithinBudget
  BY DEF TrackerInv
<1> QED
  BY TrackerInitInv, TrackerStepInv, <1>1, PTL DEF TrackerSpec

\* Between two steps, a due change of strategy has always been made.
THEOREM ShiftsAreMade == TrackerSpec => []ShiftNeverOverdue
<1>1. TrackerInv => ShiftNeverOverdue
  BY DEF TrackerInv
<1> QED
  BY TrackerInitInv, TrackerStepInv, <1>1, PTL DEF TrackerSpec

-----------------------------------------------------------------------------
(* Action properties *)

\* A refused command stays refused: a counter at its threshold is only reset
\* by a command that shares it, and that command would be refused as well.
LEMMA BlockedStepStaysBlocked ==
    ASSUME TrackerInv, [TrackerNext]_trackerVars, NEW b \in Commands, Blocked(b)
    PROVE  Blocked(b)'
<1>0. KeyOf[b] \in Hypotheses /\ FamilyOf[b] \in Families
  BY CommandAssumption
<1>1. CASE UNCHANGED <<familyMisses, hypothesisMisses>>
  BY <1>1 DEF Blocked
<1>2. ASSUME NEW c \in Commands, NEW out \in Outputs, Record(c, out) PROVE Blocked(b)'
  <2>1. ~Blocked(c) /\ ChargeLedger(c, Progressed(out))
    BY <1>2 DEF Record
  <2>2. KeyOf[c] \in Hypotheses /\ FamilyOf[c] \in Families
    BY CommandAssumption
  <2>3. CASE hypothesisMisses[KeyOf[b]] >= PerHypothesis
    <3>1. KeyOf[c] # KeyOf[b]
      BY <2>1, <2>3 DEF Blocked
    <3>2. hypothesisMisses'[KeyOf[b]] = hypothesisMisses[KeyOf[b]]
      BY <1>0, <2>1, <2>2, <3>1 DEF ChargeLedger, TrackerInv, TrackerTypeOK
    <3> QED
      BY <2>3, <3>2 DEF Blocked
  <2>4. CASE familyMisses[FamilyOf[b]] >= PerFamily
    <3>1. FamilyOf[c] # FamilyOf[b]
      BY <2>1, <2>4 DEF Blocked
    <3>2. familyMisses'[FamilyOf[b]] = familyMisses[FamilyOf[b]]
      BY <1>0, <2>1, <2>2, <3>1 DEF ChargeLedger, TrackerInv, TrackerTypeOK
    <3> QED
      BY <2>4, <3>2 DEF Blocked
  <2> QED
    BY <2>3, <2>4 DEF Blocked
<1>3. ASSUME NEW c \in Commands, NoteBlocked(c) PROVE Blocked(b)'
  BY <1>1, <1>3 DEF NoteBlocked
<1> QED
  BY <1>1, <1>2, <1>3 DEF TrackerNext, trackerVars

\* An exhausted idea stays exhausted for the rest of the run.
THEOREM ExhaustionIsFinal == TrackerSpec => ExhaustedStaysExhausted
<1>1. TrackerInv /\ [TrackerNext]_trackerVars
        => [\A c \in Commands : Blocked(c) => Blocked(c)']_trackerVars
  BY BlockedStepStaysBlocked
<1> QED
  BY TrackerInitInv, TrackerStepInv, <1>1, PTL DEF TrackerSpec, ExhaustedStaysExhausted

\* What clears a counter is an output this run had not seen: progress is
\* counted at most once per fingerprint.
LEMMA ClearingStepIsNews ==
    ASSUME TrackerInv, [TrackerNext]_trackerVars, seen' = seen
    PROVE  /\ \A h \in Hypotheses : ~(hypothesisMisses'[h] < hypothesisMisses[h])
           /\ \A f \in Families : ~(familyMisses'[f] < familyMisses[f])
<1>1. CASE UNCHANGED <<familyMisses, hypothesisMisses>>
  BY <1>1 DEF TrackerInv, TrackerTypeOK
<1>2. ASSUME NEW c \in Commands, NEW out \in Outputs, Record(c, out)
      PROVE  /\ \A h \in Hypotheses : ~(hypothesisMisses'[h] < hypothesisMisses[h])
             /\ \A f \in Families : ~(familyMisses'[f] < familyMisses[f])
  <2>1. out.digest \in seen
    BY <1>2 DEF Record
  <2>2. ~Progressed(out)
    BY <2>1 DEF Progressed
  <2>3. ChargeLedger(c, FALSE)
    BY <1>2, <2>2 DEF Record, ChargeLedger
  <2> QED
    BY <2>3, CommandAssumption DEF ChargeLedger, TrackerInv, TrackerTypeOK
<1>3. ASSUME NEW c \in Commands, NoteBlocked(c)
      PROVE  UNCHANGED <<familyMisses, hypothesisMisses>>
  BY <1>3 DEF NoteBlocked
<1> QED
  BY <1>1, <1>2, <1>3 DEF TrackerNext, trackerVars

\* Only new output clears a budget.
THEOREM NewsClearsBudgets == TrackerSpec => ClearedOnlyByNews
<1>1. TrackerInv /\ [TrackerNext]_trackerVars
        => [(\/ \E h \in Hypotheses : hypothesisMisses'[h] < hypothesisMisses[h]
             \/ \E f \in Families : familyMisses'[f] < familyMisses[f])
            => seen' # seen]_trackerVars
  BY ClearingStepIsNews
<1> QED
  BY TrackerInitInv, TrackerStepInv, <1>1, PTL DEF TrackerSpec, ClearedOnlyByNews
=============================================================================
