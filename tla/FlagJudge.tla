------------------------------ MODULE FlagJudge ------------------------------
(***************************************************************************)
(* The judge of flags/judge.py: what becomes of a flag the agent submits.  *)
(*                                                                         *)
(* A text (an output, or the serialised arguments of a call) is the set of *)
(* the fragments the judge may look for in it: whole flags, and the        *)
(* payloads inside their wrappers.  A flag contains its payload, so a text *)
(* with the flag has the payload too (TextClosed).                         *)
(***************************************************************************)
EXTENDS Integers

CONSTANTS Flags,       \* the strings the agent may submit
          Payloads,    \* what sits inside their wrappers
          FlagFacts    \* [Flags -> FlagFact], see below

\* payload, wrapped, size: _payload_of, and whether it is the whole flag;
\* attested: the wrapper's prefix is in the description or --flag-format;
\* plausible: plausibility.assess; lure: the flag is in the description;
\* formatOk: _format_check.
FlagFact == [payload : Payloads, wrapped : BOOLEAN, size : Nat,
             attested : BOOLEAN, plausible : BOOLEAN, lure : BOOLEAN,
             formatOk : BOOLEAN]

Fragments == Flags \cup Payloads

ApprovalPolicy == {"gated", "strict", "auto"}

ASSUME FlagAssumption == FlagFacts \in [Flags -> FlagFact]

TextClosed(text) ==
    \A f \in Flags : f \in text => FlagFacts[f].payload \in text

\* flags/judge.py: a sighting needs a long payload, an echo a short one.
MinPayloadLen == 8
MinCoreLen == 4

\* One past tool result: the seq of its tool.result event, what its output and
\* its command carry, which flags sit beside a decoy marker, and whether it has
\* a re-runnable command.
Observation == [seq : Nat, shows : SUBSET Fragments, command : SUBSET Fragments,
                bait : SUBSET Flags, rerun : BOOLEAN]

-----------------------------------------------------------------------------
(* Evidence *)

\* plausibility.assess, on the string alone.
Plausible(f) == FlagFacts[f].plausible

\* _format_check against --flag-format.
FormatOk(f) == FlagFacts[f].formatOk

\* May the payload alone stand as evidence?
PayloadIsProvenance(f) ==
    /\ FlagFacts[f].wrapped
    /\ FlagFacts[f].size >= MinPayloadLen
    /\ FlagFacts[f].attested

\* Does a text carry the flag, whole or as its earned payload?
EvidentIn(text, f) ==
    \/ f \in text
    \/ PayloadIsProvenance(f) /\ FlagFacts[f].payload \in text

\* Did the agent write the flag, or its payload, into the command itself?
AuthoredIn(f, command) ==
    \/ f \in command
    \/ /\ FlagFacts[f].wrapped
       /\ FlagFacts[f].size >= MinCoreLen
       /\ FlagFacts[f].payload \in command

\* Mutant: no anti-echo rule.
SupportingEcho(f, history) == {o \in history : EvidentIn(o.shows, f)}

\* The observations that carry the flag and that the agent did not author.
Supporting(f, history) ==
    {o \in history : EvidentIn(o.shows, f) /\ ~AuthoredIn(f, o.command)}

\* Mutant: the citation is trusted.
CitedUnread(f, history, seq) == {o \in history : o.seq = seq}

\* _resolve_provenance: the supporting observations with the cited seq.
\* A citation with no number in it is a seq that no observation has.
Cited(f, history, seq) == {o \in Supporting(f, history) : o.seq = seq}

\* decoys.assess
IsDecoy(f, o) == FlagFacts[f].lure \/ f \in o.bait

\* The candidate clears the unconditional stages with o as its source.
ClearedBy(f, o, history, seq) ==
    /\ Plausible(f)
    /\ o \in Cited(f, history, seq)
    /\ ~IsDecoy(f, o)

Cleared(f, history, seq) == \E o \in history : ClearedBy(f, o, history, seq)

-----------------------------------------------------------------------------
(* Re-derivation and policy *)

\* What _rederive can report: the sandbox is asked only when the cited
\* observation has a command to re-run, and it may answer anything.
Rederivations(o) == IF o.rerun THEN {"matched", "unmatched", "errored"} ELSE {"notrun"}

\* _apply_policy on a cleared candidate.
PolicyDecision(policy, f, rederived) ==
    CASE policy = "auto"   -> "finalized"
      [] policy = "strict" -> "pending"
      [] OTHER -> IF FormatOk(f) /\ rederived = "matched"
                  THEN "finalized" ELSE "pending"
=============================================================================
