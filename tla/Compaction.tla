------------------------------ MODULE Compaction ------------------------------
(***************************************************************************)
(* The conversation the model is shown and how loop/context.py shortens    *)
(* it.  A message is its role and the tool calls it makes (an assistant    *)
(* turn) or answers (a tool message); its content is left out.             *)
(***************************************************************************)
EXTENDS Integers, Sequences

CONSTANT CallIds

Message == [role : {"user", "assistant", "tool"}, calls : SUBSET CallIds]

UserMessage == [role |-> "user", calls |-> {}]
AssistantMessage(ids) == [role |-> "assistant", calls |-> ids]
ToolMessage(id) == [role |-> "tool", calls |-> {id}]

\* Mutants: a cut in front of a tool message; a tail with no room for the summary.
SplitAnywhere(h, max) == {i \in 0 .. Len(h) - 1 : i >= Len(h) - (max - 1)}
SplitLate(h, max) ==
    {i \in 0 .. Len(h) - 1 : i >= Len(h) - max /\ h[i + 1].role # "tool"}

\* The offsets at which the history may be cut: at or after the first that
\* leaves max - 1 messages, and never in front of a tool message.
SplitPoints(h, max) ==
    {i \in 0 .. Len(h) - 1 :
        /\ i >= Len(h) - (IF max - 1 >= 1 THEN max - 1 ELSE 1)
        /\ h[i + 1].role # "tool"}

Compactable(h, max) == Len(h) > max /\ SplitPoints(h, max) # {}

\* compact_history: everything before the first split point becomes one
\* summary message.  With no split point the history is left as it is.
Compact(h, max) ==
    IF ~Compactable(h, max) THEN h
    ELSE LET split == CHOOSE i \in SplitPoints(h, max) :
                        \A j \in SplitPoints(h, max) : i <= j
         IN  <<UserMessage>> \o SubSeq(h, split + 1, Len(h))

\* What a provider accepts: the tool messages right after an assistant turn
\* answer its calls, each exactly once, and there are no others.
Answers(h, i) ==
    {j \in i + 1 .. Len(h) : \A k \in i + 1 .. j : h[k].role = "tool"}

WellPaired(h) ==
    /\ \A j \in DOMAIN h : h[j].role = "tool" =>
          \E i \in 1 .. j - 1 : h[i].role = "assistant" /\ j \in Answers(h, i)
    /\ \A i \in DOMAIN h : h[i].role = "assistant" =>
          /\ UNION {h[j].calls : j \in Answers(h, i)} = h[i].calls
          /\ \A j, k \in Answers(h, i) : j # k => h[j].calls # h[k].calls
=============================================================================
