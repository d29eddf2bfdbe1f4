--------------------------- MODULE ProgressTracker ---------------------------
(***************************************************************************)
(* The anti-loop machinery of a run: the no-progress budgets of            *)
(* progress/budgets.py and the tracker of progress/tracker.py that scores  *)
(* every executed command and forces a change of strategy.                 *)
(*                                                                         *)
(* A command is a member of Commands.  KeyOf is the hypothesis a command   *)
(* normalises to, FamilyOf the tactic family it is classified into; two    *)
(* commands may share a hypothesis and differ in family, because one is    *)
(* computed from the normalised text and the other from the raw one.       *)
(*                                                                         *)
(* The run loop calls check_budget before a command and record,            *)
(* note_blocked and due_shift after it.  Step below is the loop's use of   *)
(* the tracker on its own; module RunLoop drives the same operators from   *)
(* the whole loop.                                                         *)
(***************************************************************************)
EXTENDS Integers

CONSTANTS Commands,          \* what the agent may ask to run
          Hypotheses,        \* normalised commands
          Families,          \* tactic families
          KeyOf,             \* [Commands -> Hypotheses]
          FamilyOf,          \* [Commands -> Families]
          Digests,           \* fingerprints of outputs
          PerHypothesis,     \* the category's [budgets]
          PerFamily,
          NoProgressShift,
          ErrorShift

ASSUME CommandAssumption ==
    /\ KeyOf \in [Commands -> Hypotheses]
    /\ FamilyOf \in [Commands -> Families]

\* Every shipped category states positive thresholds.
ASSUME BudgetAssumption ==
    /\ PerHypothesis \in Nat \ {0}
    /\ PerFamily \in Nat \ {0}
    /\ NoProgressShift \in Nat \ {0}
    /\ ErrorShift \in Nat \ {0}

VARIABLES familyMisses,      \* BudgetLedger._family_misses; an absent key is 0
          hypothesisMisses,  \* BudgetLedger._hypothesis_misses
          seen,              \* fingerprints already recorded
          noProgressRun,     \* steps since the last progress or shift
          consecutiveErrors, \* failures since the last success or shift
          shift              \* what the last due_shift call returned, and how
                             \* the run would report it

trackerVars == <<familyMisses, hypothesisMisses, seen, noProgressRun,
                 consecutiveErrors, shift>>

-----------------------------------------------------------------------------
(* Outputs and their score *)

\* Whether an output matches a high pattern, is empty or matches a low
\* pattern, or neither.
Signals == {"high", "low", "other"}
Outputs == [digest : Digests, signal : Signals, ok : BOOLEAN]

\* The delta is in quarters: DELTA_HIGH 4, DELTA_NEUTRAL 1, DELTA_LOW -2,
\* DELTA_ERROR -1, DELTA_REPEAT 0.
Score(out, repeated) ==
    CASE repeated            -> [delta |-> 0, band |-> "none"]
      [] ~repeated /\ out.signal = "high"  -> [delta |-> 4, band |-> "high"]
      [] ~repeated /\ out.signal = "low"   -> [delta |-> -2, band |-> "low"]
      [] ~repeated /\ out.signal = "other" /\ ~out.ok
                             -> [delta |-> -1, band |-> "low"]
      [] OTHER               -> [delta |-> 1, band |-> "none"]

\* Mutant: the fingerprint is not looked up.
ProgressedAgain(out) ==
    LET score == Score(out, FALSE) IN score.band # "low" /\ score.delta > 0

\* A step progressed when its output was new, not noise, and worth something.
Progressed(out) ==
    LET repeated == out.digest \in seen
        score    == Score(out, repeated)
    IN  ~repeated /\ score.band # "low" /\ score.delta > 0

-----------------------------------------------------------------------------
(* Budgets *)

\* Mutants: one more command than the budget; no budget for families.
BlockedLate(c) ==
    \/ hypothesisMisses[KeyOf[c]] > PerHypothesis
    \/ familyMisses[FamilyOf[c]] > PerFamily
BlockedByHypothesis(c) == hypothesisMisses[KeyOf[c]] >= PerHypothesis

\* check_budget: either counter at its threshold refuses the command.
Blocked(c) ==
    \/ hypothesisMisses[KeyOf[c]] >= PerHypothesis
    \/ familyMisses[FamilyOf[c]] >= PerFamily

\* A mutant: progress clears every hypothesis.
ChargeAmnesty(c, progressed) ==
    IF progressed
    THEN /\ familyMisses' = [familyMisses EXCEPT ![FamilyOf[c]] = 0]
         /\ hypothesisMisses' = [h \in Hypotheses |-> 0]
    ELSE /\ familyMisses' = [familyMisses EXCEPT ![FamilyOf[c]] = @ + 1]
         /\ hypothesisMisses' = [hypothesisMisses EXCEPT ![KeyOf[c]] = @ + 1]

\* BudgetLedger.record: progress clears the command's own two counters, and
\* only those; anything else charges both.
ChargeLedger(c, progressed) ==
    /\ familyMisses' = [familyMisses EXCEPT ![FamilyOf[c]] =
                            IF progressed THEN 0 ELSE @ + 1]
    /\ hypothesisMisses' = [hypothesisMisses EXCEPT ![KeyOf[c]] =
                            IF progressed THEN 0 ELSE @ + 1]

-----------------------------------------------------------------------------
(* Forced strategy shifts *)

NoShift == [trigger |-> "none", reported |-> "none"]

\* Mutant: a streak one longer than the threshold.
ShiftTriggerLate(run, errors) ==
    CASE errors > ErrorShift -> "errors"
      [] errors <= ErrorShift /\ run > NoProgressShift -> "no-progress"
      [] OTHER -> "none"

\* due_shift's test on the two run lengths: errors are looked at first.
ShiftTrigger(run, errors) ==
    CASE errors >= ErrorShift -> "errors"
      [] errors < ErrorShift /\ run >= NoProgressShift -> "no-progress"
      [] OTHER -> "none"

\* shift_reason_kind, which the loop reads once due_shift has returned.
ShiftReasonKind(errors) == IF errors > 0 THEN "errors" ELSE "no-progress"

\* due_shift on the updated counters.  A shift resets both; `blocked` says that
\* the call follows a refused command, where the loop reports "budget" itself.
DueShift(run, errors, blocked) ==
    LET trigger == ShiftTrigger(run, errors)
    IN  IF trigger = "none"
        THEN /\ noProgressRun' = run
             /\ consecutiveErrors' = errors
             /\ shift' = NoShift
        ELSE /\ noProgressRun' = 0
             /\ consecutiveErrors' = 0
             /\ shift' = [trigger  |-> trigger,
                          reported |-> IF blocked THEN "budget"
                                       ELSE ShiftReasonKind(consecutiveErrors')]

-----------------------------------------------------------------------------
(* What the loop does to the tracker in one step *)

TrackerInit ==
    /\ familyMisses = [f \in Families |-> 0]
    /\ hypothesisMisses = [h \in Hypotheses |-> 0]
    /\ seen = {}
    /\ noProgressRun = 0
    /\ consecutiveErrors = 0
    /\ shift = NoShift

\* Mutant: a refused command is not a wasted step.
NoteBlockedFree(c) ==
    /\ Blocked(c)
    /\ DueShift(noProgressRun, consecutiveErrors, TRUE)
    /\ UNCHANGED <<familyMisses, hypothesisMisses, seen>>

\* check_budget refused the command: note_blocked, then due_shift.
NoteBlocked(c) ==
    /\ Blocked(c)
    /\ DueShift(noProgressRun + 1, consecutiveErrors, TRUE)
    /\ UNCHANGED <<familyMisses, hypothesisMisses, seen>>

\* The command ran: record, then due_shift.
Record(c, out) ==
    /\ ~Blocked(c)
    /\ seen' = seen \cup {out.digest}
    /\ ChargeLedger(c, Progressed(out))
    /\ DueShift(IF Progressed(out) THEN 0 ELSE noProgressRun + 1,
                IF out.ok THEN 0 ELSE consecutiveErrors + 1,
                FALSE)

TrackerNext ==
    \E c \in Commands :
        \/ NoteBlocked(c)
        \/ \E out \in Outputs : Record(c, out)

TrackerSpec == TrackerInit /\ [][TrackerNext]_trackerVars

-----------------------------------------------------------------------------
(* Properties *)

TrackerTypeOK ==
    /\ familyMisses \in [Families -> Nat]
    /\ hypothesisMisses \in [Hypotheses -> Nat]
    /\ seen \subseteq Digests
    /\ noProgressRun \in Nat
    /\ consecutiveErrors \in Nat
    /\ shift \in [trigger  : {"none", "errors", "no-progress"},
                  reported : {"none", "errors", "no-progress", "budget"}]

\* No idea is paid for past its budget: neither counter ever passes its
\* threshold, although one command charges two counters and a hypothesis may be
\* reached through several families (BudgetLedger.check runs before execution).
WasteWithinBudget ==
    /\ \A h \in Hypotheses : hypothesisMisses[h] <= PerHypothesis
    /\ \A f \in Families : familyMisses[f] <= PerFamily

\* The loop is redirected in time: between two steps there are never as many
\* steps without progress, refused ones included, or as many failures in a row,
\* as the category allows before a forced shift (tracker.due_shift).
ShiftNeverOverdue ==
    /\ noProgressRun < NoProgressShift
    /\ consecutiveErrors < ErrorShift

\* An exhausted idea stays exhausted.  A refused command cannot run, so nothing
\* can clear its counters, unless another command that still runs shares them:
\* record clears exactly the two counters of the command that progressed, and
\* both were below their thresholds or it would have been refused.
ExhaustedStaysExhausted ==
    [][\A c \in Commands : Blocked(c) => Blocked(c)']_trackerVars

\* A fingerprint is progress at most once: a step that clears a counter found
\* an output this run had not recorded before (D8: a repeat is not progress).
ClearedOnlyByNews ==
    [][(\/ \E h \in Hypotheses : hypothesisMisses'[h] < hypothesisMisses[h]
        \/ \E f \in Families : familyMisses'[f] < familyMisses[f])
       => seen' # seen]_trackerVars

\* The reason recorded in strategy.shift is the one that forced the shift:
\* errors for a streak of failures, no-progress otherwise.  The code reads
\* shift_reason_kind after due_shift has reset the counter it looks at.
ShiftReasonIsTrigger ==
    shift.reported \in {shift.trigger, "budget"}
=============================================================================
