---------------------------- MODULE RunContract -----------------------------
(***************************************************************************)
(* What a run promises whoever started it, with no steps, commands, judge  *)
(* or trace: it gathers evidence for flags and runs up a bill, concludes   *)
(* once, answers only with a flag it has evidence for, and leaves a record *)
(* of exactly what it concluded, or of an error, unless it is lost before. *)
(***************************************************************************)
EXTENDS Integers

CONSTANTS Flags, NoFlag

VARIABLES phase,      \* working, then concluded or broken, then published; or lost
          evidenced,  \* flags the run has evidence for
          bill,       \* what the run has been told it cost
          result,     \* what it concluded
          record      \* what it leaves on disk

contractVars == <<phase, evidenced, bill, result, record>>

Unanswered(outcomes) == [outcome : outcomes, flag : {NoFlag}]
Answered(fs) == [outcome : {"solved", "candidate"}, flag : fs]

Init ==
    /\ phase = "working"
    /\ evidenced = {} /\ bill = 0
    /\ result = [outcome |-> "none", flag |-> NoFlag]
    /\ record = [outcome |-> "none", flag |-> NoFlag, cost |-> 0]

\* Evidence is never lost, and neither is money.
Work ==
    /\ phase = "working" /\ phase' = phase
    /\ evidenced \subseteq evidenced' /\ evidenced' \subseteq Flags
    /\ bill' \in Nat /\ bill' >= bill
    /\ UNCHANGED <<result, record>>

Conclude ==
    /\ phase = "working" /\ phase' = "concluded"
    /\ bill' \in Nat /\ bill' >= bill
    /\ result' \in Answered(evidenced) \cup Unanswered({"exhausted", "error"})
    /\ UNCHANGED <<evidenced, record>>

Break ==
    /\ phase = "working" /\ phase' = "broken"
    /\ evidenced \subseteq evidenced' /\ evidenced' \subseteq Flags
    /\ result' \in Unanswered({"error"})
    /\ UNCHANGED <<bill, record>>

\* A broken run's record states no cost.
Publish ==
    /\ phase \in {"concluded", "broken"} /\ phase' = "published"
    /\ record' = [outcome |-> result.outcome, flag |-> result.flag,
                  cost |-> IF phase = "concluded" THEN bill ELSE 0]
    /\ UNCHANGED <<evidenced, bill, result>>

Lose ==
    /\ phase # "published" /\ phase' = "lost"
    /\ UNCHANGED <<evidenced, bill, result, record>>

Next == Work \/ Conclude \/ Break \/ Publish \/ Lose

Spec == Init /\ [][Next]_contractVars
=============================================================================
