----------------------------- MODULE WireFormats -----------------------------
(***************************************************************************)
(* The adapters of providers/: how a response becomes a Completion, how    *)
(* the history becomes a request, and what thinking they ask for; with the *)
(* registry's clamp of the thinking level.  Texts and arguments are opaque, *)
(* a call's id is <<step, position>>.                                      *)
(***************************************************************************)
EXTENDS Integers, Sequences, FiniteSets

\* One part of a response or of a turn of a request; cite: the observation a
\* submission cites; ok: the arguments are what the tool needs; signed: it
\* carries a signature; redacted: a thought that came encrypted.
Part == [kind : {"thought", "redacted", "text", "call", "answer"},
         tool : {"", "run_command", "write_file", "submit_flag"},
         id : Nat \X Nat, ok : BOOLEAN, cite : Nat, signed : BOOLEAN]

NoId == <<0, 0>>
Plain(kind) == [kind |-> kind, tool |-> "", id |-> NoId, ok |-> TRUE,
                cite |-> 0, signed |-> FALSE]
CallOf(tool, ok) == [Plain("call") EXCEPT !.tool = tool, !.ok = ok]

\* The elements of a sequence at some of its indices, in their order.
Picked(s, at) ==
    LET upTo[n \in 0 .. Len(s)] ==
            IF n = 0 THEN <<>>
            ELSE IF n \in at THEN Append(upTo[n - 1], s[n]) ELSE upTo[n - 1]
    IN  upTo[Len(s)]

OfKind(parts, kind) == Picked(parts, {i \in DOMAIN parts : parts[i].kind = kind})

\* What provider p sends for a response (external): OpenAI keeps its thoughts to
\* itself, only Anthropic redacts some, Gemini signs its parts and does not number
\* its calls.
Withheld(p) == CASE p = "openai" -> {"thought", "redacted"}
                 [] p = "google" -> {"redacted"}
                 [] OTHER -> {}

Delivered(p, response, s, cite) ==
    LET At(part, i) ==
            IF part.kind \in {"thought", "redacted"} THEN [part EXCEPT !.signed = TRUE]
            ELSE IF part.kind # "call" THEN [part EXCEPT !.signed = p = "google"]
            ELSE [part EXCEPT !.id = IF p = "google" THEN NoId ELSE <<s, i>>,
                              !.signed = p = "google",
                              !.cite = IF part.tool = "submit_flag" THEN cite ELSE 0]
        parts == Picked(response, {i \in DOMAIN response : response[i].kind \notin Withheld(p)})
    IN  [i \in DOMAIN parts |-> At(parts[i], i)]

-----------------------------------------------------------------------------
(* Responses *)

\* Completion: thinking_blocks, whether there is visible text, tool_calls.  What
\* a text carries beside its characters, a signature, is dropped, and so is a
\* redacted thought.
Completion(parts) ==
    [blocks |-> OfKind(parts, "thought"),
     text |-> OfKind(parts, "text") # <<>>,
     calls |-> OfKind(parts, "call")]

NoCompletion == Completion(<<>>)

-----------------------------------------------------------------------------
(* Requests *)

\* Mutant: a call goes back without its signature.
UnsignedTurn(p, said) ==
    (IF p = "openai" THEN <<>> ELSE said.blocks)
    \o (IF said.text THEN <<Plain("text")>> ELSE <<>>)
    \o [i \in DOMAIN said.calls |-> [said.calls[i] EXCEPT !.signed = FALSE]]

\* An assistant turn: thinking first, then the text if any, then the calls.
WireTurn(p, said) ==
    (IF p = "openai" THEN <<>> ELSE said.blocks)
    \o (IF said.text THEN <<Plain("text")>> ELSE <<>>)
    \o said.calls

\* A tool message answers its call by id, and for Gemini by name too.
WireAnswer(p, call) ==
    [Plain("answer") EXCEPT !.id = call.id, !.tool = IF p = "google" THEN call.tool ELSE ""]

\* _to_anthropic_messages, _to_openai_messages and _to_google_contents: one
\* turn for each message.
WireTurns(p, history) ==
    [i \in DOMAIN history |->
        CASE history[i].role = "assistant" -> WireTurn(p, history[i].says)
          [] history[i].role = "tool" -> <<WireAnswer(p, history[i].says.calls[1])>>
          [] OTHER -> <<Plain("text")>>]

\* What the APIs require: the turns after one with calls answer these calls,
\* one each, and no other turn answers anything.
IsAnswer(turn) == Len(turn) = 1 /\ turn[1].kind = "answer"

Matching(p, calls, turns) ==
    LET answered(k) == {j \in DOMAIN turns : turns[j][1] = k}
        made(k) == {i \in DOMAIN calls : WireAnswer(p, calls[i]) = k}
    IN  \A j \in DOMAIN turns :
            /\ IsAnswer(turns[j])
            /\ Cardinality(answered(turns[j][1])) = Cardinality(made(turns[j][1]))

CallsAnswered(p, turns) ==
    LET made(i) == OfKind(turns[i], "call")
        after(i) == i + Len(made(i))
    IN  /\ \A i \in DOMAIN turns : made(i) # <<>> =>
              /\ after(i) <= Len(turns)
              /\ Matching(p, made(i), SubSeq(turns, i + 1, after(i)))
        /\ \A j \in DOMAIN turns : IsAnswer(turns[j]) =>
              \E i \in 1 .. j - 1 : j <= after(i)

-----------------------------------------------------------------------------
(* Thinking *)

THINKING_LEVELS == <<"off", "low", "medium", "high", "xhigh", "max">>
ThinkingLevel == {THINKING_LEVELS[i] : i \in DOMAIN THINKING_LEVELS}
Rank(level) == CHOOSE i \in DOMAIN THINKING_LEVELS : THINKING_LEVELS[i] = level

\* The columns of the registry about thinking.  No row of Google's, whose API
\* has three levels, has a higher ceiling than high, and none that supports
\* thinking has a ceiling of off.
ThinkingModel == [provider : {"anthropic", "openai", "google"},
                  supports : BOOLEAN, stoppable : BOOLEAN, ceiling : ThinkingLevel]

\* Mutant: off is taken at its word.
ResolvedBefore(m, requested) ==
    CASE requested = "off" -> "off"
      [] ~m.supports -> "off"
      [] Rank(requested) > Rank(m.ceiling) -> m.ceiling
      [] OTHER -> requested

\* resolve_thinking_level: down to what the model has, and up from off when
\* the model cannot be stopped.
Resolved(m, requested) ==
    IF ~m.supports THEN "off"
    ELSE IF requested = "off" THEN (IF m.stoppable THEN "off" ELSE "low")
    ELSE IF Rank(requested) > Rank(m.ceiling) THEN m.ceiling
    ELSE requested

\* What the adapter puts in the request: nothing at all, OpenAI's "none", or a level.
Effort(m, level) ==
    IF m.provider = "google" THEN (IF level \in {"low", "medium", "high"} THEN level ELSE "nothing")
    ELSE IF level # "off" THEN level
    ELSE IF m.provider = "openai" /\ m.supports THEN (IF m.stoppable THEN "none" ELSE "low")
    ELSE "nothing"

\* What the model does of it (external): sent nothing, a model with no off
\* thinks, and so does any reasoning model of OpenAI's.
Accepts(m, effort) ==
    CASE effort = "nothing" -> TRUE
      [] effort = "none" -> m.supports /\ m.stoppable
      [] OTHER -> m.supports /\ Rank(effort) <= Rank(m.ceiling)

Thinks(m, effort) ==
    IF effort = "nothing" THEN m.supports /\ (~m.stoppable \/ m.provider = "openai")
    ELSE effort # "none"
=============================================================================
