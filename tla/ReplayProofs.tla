----------------------------- MODULE ReplayProofs -----------------------------
(***************************************************************************)
(* What holds of a recorded run and of its replay, for any model, any      *)
(* responses and outputs, and whatever redaction and spilling do to texts. *)
(***************************************************************************)
EXTENDS Replay, FiniteSetTheorems, WellFoundedInduction, TLAPS

-----------------------------------------------------------------------------
(* Picking elements of a sequence                                             *)

LEMMA FirstExists ==
    ASSUME NEW S \in SUBSET Nat, S # {}
    PROVE  \E i \in S : \A j \in S : i <= j
<1>1. PICK i \in S : \A j \in S : ~(<<j, i>> \in OpToRel(<, Nat))
  BY NatLessThanWellFounded, WFMin
<1>2. \A j \in S : ~(j < i)
  BY <1>1 DEF OpToRel
<1> QED
  BY <1>2

\* The picks of a sequence's first n elements, for every n up to the m-th.
Picks(s, at, m, f) ==
    f = [n \in 0 .. m |-> IF n = 0 THEN <<>>
                          ELSE IF n \in at THEN Append(f[n - 1], s[n]) ELSE f[n - 1]]

LEMMA PicksExist ==
    ASSUME NEW s, NEW at, NEW m \in Nat
    PROVE  \E f : Picks(s, at, m, f)
<1> DEFINE without == {n \in Nat : ~\E f : Picks(s, at, n, f)}
<1> SUFFICES ASSUME without # {} PROVE FALSE
  OBVIOUS
<1>1. PICK n \in without : \A k \in without : n <= k
  <2>1. without \in SUBSET Nat
    OBVIOUS
  <2> QED
    BY <2>1, FirstExists
<1>2. n \in Nat /\ ~\E f : Picks(s, at, n, f)
  OBVIOUS
<1>3. CASE n = 0
  <2>1. Picks(s, at, 0, [k \in 0 .. 0 |-> <<>>])
    BY DEF Picks
  <2> QED
    BY <1>2, <1>3, <2>1
<1>4. CASE n # 0
  <2>1. n - 1 \in Nat /\ n - 1 \notin without
    BY <1>1, <1>2, <1>4
  <2>2. PICK f : Picks(s, at, n - 1, f)
    BY <2>1
  <2> DEFINE g == [k \in 0 .. n |-> IF k = n
                                    THEN IF n \in at THEN Append(f[n - 1], s[n]) ELSE f[n - 1]
                                    ELSE f[k]]
  <2>3. \A k \in 0 .. n - 1 : f[k] = IF k = 0 THEN <<>>
                                     ELSE IF k \in at THEN Append(f[k - 1], s[k]) ELSE f[k - 1]
    BY <2>1, <2>2 DEF Picks
  <2>4. \A k \in 0 .. n : g[k] = IF k = 0 THEN <<>>
                                 ELSE IF k \in at THEN Append(g[k - 1], s[k]) ELSE g[k - 1]
    <3> SUFFICES ASSUME NEW k \in 0 .. n
                 PROVE  g[k] = IF k = 0 THEN <<>>
                               ELSE IF k \in at THEN Append(g[k - 1], s[k]) ELSE g[k - 1]
      OBVIOUS
    <3>1. CASE k = n
      BY <1>2, <1>4, <3>1
    <3>2. CASE k # n
      BY <1>2, <1>4, <2>3, <3>2
    <3> QED
      BY <3>1, <3>2
  <2>5. Picks(s, at, n, g)
    BY <2>4, Zenon DEF Picks
  <2> QED
    BY <1>2, <2>5
<1> QED
  BY <1>3, <1>4

LEMMA PickedIs ==
    ASSUME NEW s, Len(s) \in Nat, NEW at
    PROVE  \E f : Picks(s, at, Len(s), f) /\ Picked(s, at) = f[Len(s)]
<1> DEFINE f == CHOOSE f : Picks(s, at, Len(s), f)
<1>1. Picks(s, at, Len(s), f)
  BY PicksExist
<1>2. Picked(s, at) = f[Len(s)]
  BY DEF Picked, Picks
<1> QED
  BY <1>1, <1>2

LEMMA PicksStep ==
    ASSUME NEW s, NEW at, NEW m \in Nat, NEW f, Picks(s, at, m, f)
    PROVE  /\ f[0] = <<>>
           /\ \A n \in 1 .. m : f[n] = IF n \in at THEN Append(f[n - 1], s[n]) ELSE f[n - 1]
<1>1. \A n \in 0 .. m : f[n] = IF n = 0 THEN <<>>
                               ELSE IF n \in at THEN Append(f[n - 1], s[n]) ELSE f[n - 1]
  BY DEF Picks
<1> QED
  BY <1>1

\* Two sequences that agree as far as n, on what they hold and on what is picked.
Alike(s, at, t, bt, n) == \A i \in 1 .. n : s[i] = t[i] /\ (i \in at <=> i \in bt)

LEMMA PicksAgree ==
    ASSUME NEW s, NEW t, NEW at, NEW bt, NEW m \in Nat, NEW k \in Nat,
           NEW n \in Nat, n <= m, n <= k, Alike(s, at, t, bt, n),
           NEW f, NEW g, Picks(s, at, m, f), Picks(t, bt, k, g)
    PROVE  f[n] = g[n]
<1> DEFINE apart == {i \in 0 .. n : f[i] # g[i]}
<1>1. /\ f[0] = <<>>
      /\ \A i \in 1 .. m : f[i] = IF i \in at THEN Append(f[i - 1], s[i]) ELSE f[i - 1]
  BY PicksStep
<1>2. /\ g[0] = <<>>
      /\ \A i \in 1 .. k : g[i] = IF i \in bt THEN Append(g[i - 1], t[i]) ELSE g[i - 1]
  BY PicksStep
<1>3. apart = {}
  <2> SUFFICES ASSUME apart # {} PROVE FALSE
    OBVIOUS
  <2>1. apart \in SUBSET Nat
    OBVIOUS
  <2>2. PICK i \in apart : \A j \in apart : i <= j
    BY <2>1, FirstExists
  <2>3. i \in 0 .. n /\ f[i] # g[i]
    OBVIOUS
  <2>4. i # 0
    BY <1>1, <1>2, <2>3
  <2>5. i - 1 \in 0 .. n /\ i - 1 \notin apart /\ i \in 1 .. n /\ i \in 1 .. m /\ i \in 1 .. k
    BY <2>2, <2>3, <2>4
  <2>6. f[i - 1] = g[i - 1]
    BY <2>5
  <2> QED
    BY <1>1, <1>2, <2>3, <2>5, <2>6 DEF Alike
<1> QED
  BY <1>3

LEMMA PickedSame ==
    ASSUME NEW s, NEW t, Len(s) \in Nat, Len(t) = Len(s), NEW at, NEW bt,
           Alike(s, at, t, bt, Len(s))
    PROVE  Picked(s, at) = Picked(t, bt)
<1>1. PICK f : Picks(s, at, Len(s), f) /\ Picked(s, at) = f[Len(s)]
  BY PickedIs
<1>2. PICK g : Picks(t, bt, Len(s), g) /\ Picked(t, bt) = g[Len(s)]
  BY PickedIs
<1>3. f[Len(s)] = g[Len(s)]
  BY <1>1, <1>2, PicksAgree
<1> QED
  BY <1>1, <1>2, <1>3

LEMMA PickedNone == ASSUME NEW at PROVE Picked(<<>>, at) = <<>>
<1> DEFINE none == <<>>
<1>1. Len(none) = 0
  OBVIOUS
<1> HIDE DEF none
<1>2. PICK f : Picks(none, at, 0, f) /\ Picked(none, at) = f[0]
  BY <1>1, PickedIs
<1>3. f[0] = <<>>
  BY <1>2, PicksStep
<1> QED
  BY <1>2, <1>3 DEF none

\* One more element.
LEMMA PickedAppend ==
    ASSUME NEW S, NEW s \in Seq(S), NEW e \in S, NEW at
    PROVE  Picked(Append(s, e), at) =
               IF Len(s) + 1 \in at THEN Append(Picked(s, at), e) ELSE Picked(s, at)
<1> DEFINE longer == Append(s, e)
           n == Len(s)
<1>1. /\ n \in Nat /\ Len(longer) = n + 1 /\ longer[n + 1] = e
      /\ \A i \in 1 .. n : s[i] = longer[i]
  OBVIOUS
<1> HIDE DEF longer, n
<1>2. PICK f : Picks(s, at, n, f) /\ Picked(s, at) = f[n]
  BY <1>1, PickedIs DEF n
<1>3. PICK g : Picks(longer, at, n + 1, g) /\ Picked(longer, at) = g[n + 1]
  BY <1>1, PickedIs
<1>a. Alike(s, at, longer, at, n)
  BY <1>1 DEF Alike
<1>4. f[n] = g[n]
  BY <1>1, <1>2, <1>3, <1>a, PicksAgree
<1>5. \A i \in 1 .. n + 1 : g[i] = IF i \in at THEN Append(g[i - 1], longer[i]) ELSE g[i - 1]
  BY <1>1, <1>3, PicksStep
<1>6. g[n + 1] = IF n + 1 \in at THEN Append(g[n], longer[n + 1]) ELSE g[n]
  <2>1. n + 1 \in 1 .. n + 1 /\ (n + 1) - 1 = n
    BY <1>1
  <2> QED
    BY <1>5, <2>1
<1>7. Picked(longer, at) = IF n + 1 \in at THEN Append(Picked(s, at), e) ELSE Picked(s, at)
  BY <1>1, <1>2, <1>3, <1>4, <1>6
<1> QED
  BY <1>7 DEF longer, n

\* A pick of a sequence is a sequence, no longer, of elements picked.
LEMMA PickedTyped ==
    ASSUME NEW S, NEW s \in Seq(S), NEW at
    PROVE  /\ Picked(s, at) \in Seq(S)
           /\ Len(Picked(s, at)) <= Len(s)
           /\ \A k \in 1 .. Len(Picked(s, at)) :
                  \E i \in 1 .. Len(s) : i \in at /\ Picked(s, at)[k] = s[i]
<1> DEFINE Fine(p, n) == /\ p \in Seq(S) /\ Len(p) <= n
                         /\ \A k \in 1 .. Len(p) : \E i \in 1 .. n : i \in at /\ p[k] = s[i]
<1>1. Len(s) \in Nat /\ \A i \in 1 .. Len(s) : s[i] \in S
  OBVIOUS
<1>2. PICK f : Picks(s, at, Len(s), f) /\ Picked(s, at) = f[Len(s)]
  BY <1>1, PickedIs
<1>3. /\ f[0] = <<>>
      /\ \A n \in 1 .. Len(s) : f[n] = IF n \in at THEN Append(f[n - 1], s[n]) ELSE f[n - 1]
  BY <1>1, <1>2, PicksStep
<1> DEFINE bad == {n \in 0 .. Len(s) : ~Fine(f[n], n)}
<1>4. bad = {}
  <2> SUFFICES ASSUME bad # {} PROVE FALSE
    OBVIOUS
  <2>1. bad \in SUBSET Nat
    BY <1>1
  <2>2. PICK n \in bad : \A j \in bad : n <= j
    BY <2>1, FirstExists
  <2>3. n \in 0 .. Len(s) /\ ~Fine(f[n], n)
    OBVIOUS
  <2>4. n # 0
    <3> SUFFICES ASSUME n = 0 PROVE FALSE
      OBVIOUS
    <3>1. <<>> \in Seq(S) /\ Len(<<>>) = 0 /\ 1 .. 0 = {}
      OBVIOUS
    <3>2. Fine(<<>>, 0)
      BY <3>1
    <3>3. f[n] = <<>>
      BY <1>3
    <3>4. Fine(f[n], n)
      BY <3>2, <3>3
    <3> QED
      BY <2>3, <3>4
  <2>5. n - 1 \in 0 .. Len(s) /\ n - 1 \notin bad /\ n \in 1 .. Len(s)
    BY <1>1, <2>2, <2>3, <2>4
  <2>6. Fine(f[n - 1], n - 1)
    BY <2>5
  <2> DEFINE p == f[n - 1]
  <2>7. p \in Seq(S) /\ Len(p) \in Nat /\ Len(p) <= n - 1 /\ n \in Nat
    BY <2>6, <2>5, <1>1
  <2>8. \A k \in 1 .. Len(p) : \E i \in 1 .. n - 1 : i \in at /\ p[k] = s[i]
    BY <2>6
  <2>9. f[n] = IF n \in at THEN Append(p, s[n]) ELSE p
    BY <1>3, <2>5
  <2> HIDE DEF p
  <2>10. CASE n \in at
    <3> DEFINE q == Append(p, s[n])
    <3>1. q \in Seq(S) /\ Len(q) = Len(p) + 1 /\ q[Len(p) + 1] = s[n]
          /\ \A k \in 1 .. Len(p) : q[k] = p[k]
      BY <1>1, <2>5, <2>7
    <3> HIDE DEF q
    <3>2. ASSUME NEW k \in 1 .. Len(q) PROVE \E i \in 1 .. n : i \in at /\ q[k] = s[i]
      <4>1. CASE k \in 1 .. Len(p)
        <5>1. PICK i \in 1 .. n - 1 : i \in at /\ p[k] = s[i]
          BY <2>8, <4>1
        <5> QED
          BY <2>7, <3>1, <4>1, <5>1
      <4>2. CASE k = Len(p) + 1
        BY <2>7, <2>10, <3>1, <4>2
      <4> QED
        BY <2>7, <3>1, <4>1, <4>2
    <3>3. Fine(q, n)
      BY <2>7, <3>1, <3>2
    <3> QED
      BY <2>3, <2>9, <2>10, <3>3 DEF q
  <2>11. CASE n \notin at
    <3>1. ASSUME NEW k \in 1 .. Len(p) PROVE \E i \in 1 .. n : i \in at /\ p[k] = s[i]
      BY <2>7, <2>8
    <3>2. Fine(p, n)
      BY <2>7, <3>1
    <3> QED
      BY <2>3, <2>9, <2>11, <3>2
  <2> QED
    BY <2>10, <2>11
<1>5. Fine(f[Len(s)], Len(s))
  BY <1>1, <1>4
<1> QED
  BY <1>2, <1>5

-----------------------------------------------------------------------------
(* The thinking level                                                         *)

LEMMA Ranks ==
    /\ Rank("off") = 1 /\ Rank("low") = 2 /\ Rank("medium") = 3
    /\ Rank("high") = 4 /\ Rank("xhigh") = 5 /\ Rank("max") = 6
    /\ ThinkingLevel = {"off", "low", "medium", "high", "xhigh", "max"}
<1>1. DOMAIN THINKING_LEVELS = 1 .. 6
  BY DEF THINKING_LEVELS
<1>2. /\ THINKING_LEVELS[1] = "off" /\ THINKING_LEVELS[2] = "low"
      /\ THINKING_LEVELS[3] = "medium" /\ THINKING_LEVELS[4] = "high"
      /\ THINKING_LEVELS[5] = "xhigh" /\ THINKING_LEVELS[6] = "max"
  BY DEF THINKING_LEVELS
<1>3. \A i \in 1 .. 6 : i = 1 \/ i = 2 \/ i = 3 \/ i = 4 \/ i = 5 \/ i = 6
  OBVIOUS
<1>4. ASSUME NEW i \in 1 .. 6 PROVE Rank(THINKING_LEVELS[i]) = i
  <2>1. \A j \in 1 .. 6 : THINKING_LEVELS[j] = THINKING_LEVELS[i] => j = i
    BY <1>2, <1>3
  <2> QED
    BY <1>1, <2>1 DEF Rank
<1>5. ThinkingLevel = {"off", "low", "medium", "high", "xhigh", "max"}
  BY <1>1, <1>2, <1>3 DEF ThinkingLevel
<1> QED
  BY <1>2, <1>4, <1>5

\* What the registry's rows have in common.
Row(m) ==
    /\ m \in ThinkingModel
    /\ m.provider = "google" => Rank(m.ceiling) <= Rank("high")
    /\ m.supports => m.ceiling # "off"

LEMMA LevelHonest ==
    ASSUME NEW m, Row(m), NEW requested \in ThinkingLevel, NEW level,
           level = Resolved(m, requested)
    PROVE  /\ level = "off" <=> ~Thinks(m, Effort(m, level))
           /\ Accepts(m, Effort(m, level)) /\ Accepts(m, Effort(m, "off"))
           /\ Rank(level) <= Rank(requested) \/ level = "low"
<1>1. /\ m.provider \in {"anthropic", "openai", "google"}
      /\ m.supports \in BOOLEAN /\ m.stoppable \in BOOLEAN
      /\ m.ceiling \in {"off", "low", "medium", "high", "xhigh", "max"}
      /\ requested \in {"off", "low", "medium", "high", "xhigh", "max"}
      /\ m.provider = "google" => m.ceiling \in {"off", "low", "medium", "high"}
      /\ m.supports => m.ceiling # "off"
  BY Ranks DEF Row, ThinkingModel
<1>2. CASE ~m.supports
  <2>1. level = "off" /\ Effort(m, "off") = "nothing"
    BY <1>1, <1>2 DEF Resolved, Effort
  <2> QED
    BY <1>1, <1>2, <2>1, Ranks DEF Thinks, Accepts
<1>3. CASE m.supports
  <2>1. /\ level \in {"off", "low", "medium", "high", "xhigh", "max"}
        /\ level = "off" => requested = "off" /\ m.stoppable
        /\ Rank(level) <= Rank(m.ceiling)
        /\ Rank(level) <= Rank(requested) \/ level = "low"
        /\ m.provider = "google" => level \in {"off", "low", "medium", "high"}
    BY <1>1, <1>3, Ranks DEF Resolved
  <2>2. CASE level # "off"
    <3>1. Effort(m, level) = level
      BY <2>1, <2>2 DEF Effort
    <3>2. Accepts(m, level) /\ Thinks(m, level)
      BY <1>3, <2>1, <2>2 DEF Accepts, Thinks
    <3>3. Accepts(m, Effort(m, "off"))
      BY <1>1, <1>3, Ranks DEF Accepts, Effort
    <3> QED
      BY <2>1, <2>2, <3>1, <3>2, <3>3
  <2>3. CASE level = "off"
    <3>1. Effort(m, "off") = IF m.provider = "openai" THEN "none" ELSE "nothing"
      BY <1>1, <1>3, <2>1, <2>3 DEF Effort
    <3> QED
      BY <1>1, <1>3, <2>1, <2>3, <3>1 DEF Accepts, Thinks
  <2> QED
    BY <2>2, <2>3
<1> QED
  BY <1>1, <1>2, <1>3

Configured == config \in Configs

LEMMA ConfigKept == [Next]_vars => UNCHANGED config
  BY DEF Next, vars, RecordAsk, RecordAct, RecordExhausted, RecordCeiling, RecordFails,
         RecordDies, RefuseReplay, CassetteUnreadable, StartReplay, ReplayAsk, ReplayUnknown,
         ReplayAct, ReplayPastEnd, ReplayExhausted, Check

LEMMA ConfigInvariant == Spec => []Configured
<1>1. Init => Configured
  BY DEF Init, Configured
<1>2. Configured /\ [Next]_vars => Configured'
  BY ConfigKept DEF Configured
<1> QED
  BY <1>1, <1>2, PTL DEF Spec

\* For any rows of the registry that give a model that thinks a ceiling, and one
\* of Google's no higher than its API has: whatever --thinking says, the level a
\* run records says whether its model thinks, and no request is refused for it.
THEOREM ThinkingIsHonest == Spec => []ThinkingHonest
<1>1. Configured => Row(config.model)
  BY ReplayAssumption DEF Config, Row, Configured
<1>2. Configured => ThinkingHonest
  BY <1>1, LevelHonest DEF ThinkingHonest
<1> QED
  BY <1>2, ConfigInvariant, PTL

-----------------------------------------------------------------------------
(* Types                                                                      *)

Completions == [blocks : Seq(Part), text : BOOLEAN, calls : Seq(Part)]
Notes == {"findings", "nudge", "turn", "blocked", "rejected", "over_budget", "identical",
          "shown", "summary", "extract", "summarize"}
ChatMessage == [role : {"user", "assistant", "tool"}, says : Completions,
                text : Notes \X Texts \X Nat]
Requests == [messages : Seq(ChatMessage), thinking : ThinkingLevel]
Entries == [key : Requests, response : Completions]
EventTypes == {"triage.result", "tool.call", "tool.result", "flag.candidate", "flag.rederived",
               "flag.decision", "budget.blocked", "progress.scored"}
Events == [type : EventTypes, call : Part, text : Texts]
Outcomes == {"none", "solved", "candidate", "exhausted", "error"}
Histories == Seq(ChatMessage) \ {<<>>}
Sightings == SUBSET [text : Texts, step : Nat]
Observations == SUBSET [seq : Nat, text : Texts]
Runner == [pc : {"request", "act", "ended"}, step : Nat, seq : Nat, history : Histories,
           seen : Sightings, observed : Observations, stale : Nat, outcome : Outcomes]

\* A runner that acts has a completion to act on, and has not counted this step.
Steady(r) ==
    /\ r \in Runner
    /\ r.stale <= r.step
    /\ r.pc = "act" => r.stale < r.step
    /\ \A o \in r.observed : o.seq < r.seq

LEMMA TextsTyped ==
    /\ NoText \in Texts /\ Refusal \in Texts /\ Written \in Texts
    /\ Outputs \subseteq Texts /\ Findings \subseteq Texts
    /\ \A t \in Texts : TraceText(t) \in Texts
  BY ReplayAssumption DEF TraceText

LEMMA OfKindTyped ==
    ASSUME NEW parts \in Seq(Part), NEW kind
    PROVE  /\ OfKind(parts, kind) \in Seq(Part)
           /\ \A i \in 1 .. Len(OfKind(parts, kind)) : OfKind(parts, kind)[i].kind = kind
<1> DEFINE at == {i \in DOMAIN parts : parts[i].kind = kind}
<1>2. OfKind(parts, kind) = Picked(parts, at)
  BY DEF OfKind
<1>3. \A i \in at : parts[i].kind = kind
  OBVIOUS
<1> HIDE DEF at
<1>1. /\ Picked(parts, at) \in Seq(Part)
      /\ \A k \in 1 .. Len(Picked(parts, at)) :
             \E i \in 1 .. Len(parts) : i \in at /\ Picked(parts, at)[k] = parts[i]
  BY PickedTyped
<1> QED
  BY <1>1, <1>2, <1>3

LEMMA CompletionTyped == \A parts \in Seq(Part) : Completion(parts) \in Completions
  BY OfKindTyped DEF Completion, Completions

LEMMA NothingSaid == NoCompletion \in Completions
<1>1. <<>> \in Seq(Part)
  OBVIOUS
<1> QED
  BY <1>1, CompletionTyped DEF NoCompletion

LEMMA PlainTyped ==
    /\ Plain("text") \in Part /\ Plain("call") \in Part /\ Plain("answer") \in Part
  BY DEF Plain, Part, NoId

LEMMA MessagesTyped ==
    /\ \A note \in Notes, t \in Texts : Said(note, t) \in ChatMessage
    /\ \A call \in Part, note \in Notes, t \in Texts, n \in Nat :
           Answer(call, note, t, n) \in ChatMessage
    /\ \A says \in Completions, note \in Notes, t \in Texts, n \in Nat :
           /\ Msg("assistant", says, note, t, n) \in ChatMessage
           /\ Msg("user", says, note, t, n) \in ChatMessage
<1>1. ASSUME NEW call \in Part PROVE Completion(<<call>>) \in Completions
  <2>1. <<call>> \in Seq(Part)
    OBVIOUS
  <2> QED
    BY <2>1, CompletionTyped
<1> QED
  BY <1>1, NothingSaid DEF Said, Answer, Msg, ChatMessage

\* What a compaction keeps is the end of the history, from the first place where
\* it may be cut.
LEMMA CutExists ==
    ASSUME NEW h \in Seq(ChatMessage), Compactable(h, MaxMessages)
    PROVE  \E split \in 0 .. Len(h) - 1 :
              /\ split \in SplitPoints(h, MaxMessages)
              /\ \A how : Compacted(how, h)
                    = <<Msg("user", NoCompletion, how, NoText, split)>>
                          \o SubSeq(h, split + 1, Len(h))
<1> DEFINE split == CHOOSE i \in SplitPoints(h, MaxMessages) :
                        \A j \in SplitPoints(h, MaxMessages) : i <= j
<1>1. SplitPoints(h, MaxMessages) \in SUBSET Nat /\ SplitPoints(h, MaxMessages) # {}
      /\ SplitPoints(h, MaxMessages) \subseteq 0 .. Len(h) - 1
  BY DEF SplitPoints, Compactable
<1>2. split \in SplitPoints(h, MaxMessages)
  BY <1>1, FirstExists
<1>3. \A how : Compacted(how, h) = <<Msg("user", NoCompletion, how, NoText, split)>>
                                       \o SubSeq(h, split + 1, Len(h))
  BY DEF Compacted
<1> HIDE DEF split
<1> QED
  BY <1>1, <1>2, <1>3

LEMMA CompactedTyped ==
    ASSUME NEW h \in Histories, NEW how \in {"summary", "extract"}
    PROVE  Compacted(how, h) \in Histories
<1>0. h \in Seq(ChatMessage)
  BY DEF Histories
<1>1. CASE ~Compactable(h, MaxMessages)
  BY <1>1 DEF Compacted
<1>2. CASE Compactable(h, MaxMessages)
  <2>1. PICK split \in 0 .. Len(h) - 1 :
            Compacted(how, h) = <<Msg("user", NoCompletion, how, NoText, split)>>
                                    \o SubSeq(h, split + 1, Len(h))
    BY <1>0, <1>2, CutExists
  <2> DEFINE first == Msg("user", NoCompletion, how, NoText, split)
             rest == SubSeq(h, split + 1, Len(h))
  <2>2. first \in ChatMessage
    BY MessagesTyped, NothingSaid, TextsTyped DEF Notes
  <2>3. rest \in Seq(ChatMessage)
    BY <1>0
  <2> HIDE DEF first, rest
  <2>4. <<first>> \o rest \in Seq(ChatMessage) /\ <<first>> \o rest # <<>>
    BY <2>2, <2>3
  <2> QED
    BY <2>1, <2>4 DEF first, rest, Histories
<1> QED
  BY <1>1, <1>2

\* What a runner is made of.
LEMMA RunnerFields ==
    ASSUME NEW r \in Runner
    PROVE  /\ r.pc \in {"request", "act", "ended"} /\ r.step \in Nat /\ r.seq \in Nat
           /\ r.history \in Histories /\ r.seen \in Sightings /\ r.observed \in Observations
           /\ r.stale \in Nat /\ r.outcome \in Outcomes
           /\ \A o \in r.observed : o.seq \in Nat /\ o.text \in Texts
  BY DEF Runner, Observations

LEMMA NewRunSteady == ASSUME NEW findings \in Texts PROVE Steady(NewRun(findings))
<1>1. Said("findings", findings) \in ChatMessage
  <2>1. "findings" \in Notes
    BY DEF Notes
  <2> QED
    BY <2>1, MessagesTyped
<1>2. <<Said("findings", findings)>> \in Histories
  BY <1>1 DEF Histories
<1>3. {} \in Sightings /\ {} \in Observations /\ "none" \in Outcomes
  BY DEF Sightings, Observations, Outcomes
<1>4. NewRun(findings) \in Runner
  BY <1>2, <1>3 DEF NewRun, Runner
<1> QED
  BY <1>4 DEF NewRun, Steady

LEMMA RequestSteady ==
    ASSUME NEW r, Steady(r), r.pc = "request", NEW how \in {"summary", "extract"},
           NEW q, q = Request(r, how)
    PROVE  /\ Steady(q)
           /\ q.pc = "request" /\ q.step = r.step + 1 /\ q.seq = r.seq + 1
           /\ q.history = Compacted(how, r.history) /\ q.seen = r.seen
           /\ q.observed = r.observed /\ q.stale = r.stale /\ q.outcome = r.outcome
<1>1. r \in Runner
  BY DEF Steady
<1>2. /\ r.pc \in {"request", "act", "ended"} /\ r.step \in Nat /\ r.seq \in Nat
      /\ r.history \in Histories /\ r.stale \in Nat
      /\ \A o \in r.observed : o.seq \in Nat /\ o.text \in Texts
  BY <1>1, RunnerFields
<1>3. Compacted(how, r.history) \in Histories
  BY <1>2, CompactedTyped
<1> DEFINE step == r.step + 1
           seq == r.seq + 1
           history == Compacted(how, r.history)
<1>4. step \in Nat /\ seq \in Nat /\ history \in Histories
  BY <1>2, <1>3
<1>5. q = [r EXCEPT !.step = step, !.seq = seq, !.history = history]
  BY DEF Request
<1> HIDE DEF step, seq, history
<1>6. q \in Runner
  BY <1>1, <1>4, <1>5 DEF Runner
<1>7. /\ q.pc = r.pc /\ q.step = step /\ q.seq = seq /\ q.history = history
      /\ q.seen = r.seen /\ q.observed = r.observed /\ q.stale = r.stale
      /\ q.outcome = r.outcome
  BY <1>1, <1>5 DEF Runner
<1>8. /\ q.step = r.step + 1 /\ q.seq = r.seq + 1
      /\ q.history = Compacted(how, r.history)
  BY <1>7 DEF step, seq, history
<1> QED
  BY <1>2, <1>6, <1>7, <1>8 DEF Steady

LEMMA HeardSteady ==
    ASSUME NEW r, Steady(r), r.stale < r.step, NEW said \in Completions,
           NEW q, q = Heard(r, said)
    PROVE  /\ Steady(q)
           /\ q.pc = "act" /\ q.step = r.step
           /\ q.seq = r.seq + (IF said.blocks = <<>> THEN 2 ELSE 3)
           /\ q.history = Append(r.history, Msg("assistant", said, "turn", NoText, 0))
           /\ q.seen = r.seen /\ q.observed = r.observed /\ q.stale = r.stale
           /\ q.outcome = r.outcome
<1> DEFINE message == Msg("assistant", said, "turn", NoText, 0)
           more == IF said.blocks = <<>> THEN 2 ELSE 3
           seq == r.seq + more
           history == Append(r.history, message)
<1>1. r \in Runner
  BY DEF Steady
<1>2. /\ r.pc \in {"request", "act", "ended"} /\ r.step \in Nat /\ r.seq \in Nat
      /\ r.history \in Histories /\ r.stale \in Nat
      /\ \A o \in r.observed : o.seq \in Nat /\ o.text \in Texts
  BY <1>1, RunnerFields
<1>3. message \in ChatMessage
  <2>1. "turn" \in Notes /\ 0 \in Nat
    BY DEF Notes
  <2> QED
    BY <2>1, MessagesTyped, TextsTyped
<1>4. q = [r EXCEPT !.pc = "act", !.seq = seq, !.history = history]
  BY DEF Heard
<1>5. more \in {2, 3}
  OBVIOUS
<1>6. seq = r.seq + more /\ seq \in Nat /\ seq > r.seq
  BY <1>2, <1>5
<1> HIDE DEF message, more, seq
<1>7. history \in Histories
  BY <1>2, <1>3 DEF Histories
<1> HIDE DEF history
<1>8. q \in Runner
  BY <1>1, <1>4, <1>6, <1>7 DEF Runner
<1>9. /\ q.pc = "act" /\ q.step = r.step /\ q.seq = seq /\ q.history = history
      /\ q.seen = r.seen /\ q.observed = r.observed /\ q.stale = r.stale
      /\ q.outcome = r.outcome
  BY <1>1, <1>4 DEF Runner
<1>10. \A o \in q.observed : o.seq < q.seq
  BY <1>2, <1>6, <1>9 DEF Steady
<1>11. Steady(q)
  BY <1>2, <1>8, <1>9, <1>10 DEF Steady
<1> QED
  BY <1>6, <1>9, <1>11 DEF message, more, seq, history

\* What a runner that acts has to act on.
LEMMA CallsTyped ==
    ASSUME NEW r, Steady(r)
    PROVE  /\ Calls(r) \in Seq(Part)
           /\ Calls(r) # <<>> => Primary(r) \in Part /\ Extras(r) \in Seq(Part)
<1>1. r.history \in Histories
  BY RunnerFields DEF Steady
<1>2. r.history[Len(r.history)] \in ChatMessage
  BY <1>1 DEF Histories
<1>3. r.history[Len(r.history)].says \in Completions
  BY <1>2 DEF ChatMessage
<1>4. Calls(r) \in Seq(Part)
  BY <1>3 DEF Calls, Completions
<1> HIDE DEF Calls
<1> QED
  BY <1>4 DEF Primary, Extras

Acts == {"nudge", "judge", "reject", "over_budget", "refuse", "write", "exec"}

LEMMA ActCases ==
    ASSUME NEW r
    PROVE  /\ Act(r) \in Acts
           /\ Act(r) = "nudge" <=> Calls(r) = <<>>
           /\ Act(r) \in {"judge", "reject"} <=> Calls(r) # <<>> /\ Primary(r).tool = "submit_flag"
  BY DEF Act, Acts

LEMMA ResultTyped ==
    ASSUME NEW r, NEW t \in Texts
    PROVE  ResultText(r, t) \in Texts
  BY TextsTyped DEF ResultText

LEMMA EventTyped ==
    ASSUME NEW type \in EventTypes, NEW call \in Part, NEW t \in Texts
    PROVE  Event(type, call, t) \in Events
  BY DEF Event, Events

LEMMA ExtrasTyped ==
    ASSUME NEW r, Steady(r), Calls(r) # <<>>
    PROVE  /\ ExtraEvents(r) \in Seq(Events) /\ Len(ExtraEvents(r)) = Len(Extras(r))
           /\ ExtraAnswers(r) \in Seq(ChatMessage) /\ Len(ExtraAnswers(r)) = Len(Extras(r))
           /\ Len(Extras(r)) \in Nat
<1> DEFINE extras == Extras(r)
<1>1. extras \in Seq(Part)
  BY CallsTyped
<1> HIDE DEF extras
<1>2. \A i \in DOMAIN extras : Event("tool.result", extras[i], Refusal) \in Events
  <2>1. "tool.result" \in EventTypes
    BY DEF EventTypes
  <2> QED
    BY <1>1, <2>1, EventTyped, TextsTyped
<1>3. \A i \in DOMAIN extras : Answer(extras[i], "blocked", NoText, 0) \in ChatMessage
  <2>1. "blocked" \in Notes /\ 0 \in Nat
    BY DEF Notes
  <2> QED
    BY <1>1, <2>1, MessagesTyped, TextsTyped
<1>4. /\ ExtraEvents(r) = [i \in DOMAIN extras |-> Event("tool.result", extras[i], Refusal)]
      /\ ExtraAnswers(r) = [i \in DOMAIN extras |-> Answer(extras[i], "blocked", NoText, 0)]
  BY DEF ExtraEvents, ExtraAnswers, extras
<1>5. Len(extras) \in Nat /\ DOMAIN extras = 1 .. Len(extras)
  BY <1>1
<1>6. ExtraEvents(r) \in Seq(Events) /\ Len(ExtraEvents(r)) = Len(extras)
  BY <1>2, <1>4, <1>5
<1>7. ExtraAnswers(r) \in Seq(ChatMessage) /\ Len(ExtraAnswers(r)) = Len(extras)
  BY <1>3, <1>4, <1>5
<1> QED
  BY <1>5, <1>6, <1>7 DEF extras

\* The events an act writes after those of the extra calls.
OwnEvents(r, t) ==
    LET call == Primary(r)
        of(type) == Event(type, call, NoText)
    IN  CASE Act(r) = "reject" -> <<of("flag.candidate"), of("flag.decision")>>
          [] Act(r) = "judge" ->
                <<of("flag.candidate"), Event("flag.rederived", call, TraceText(t)),
                  of("flag.decision")>>
          [] Act(r) = "over_budget" -> <<of("budget.blocked")>>
          [] OTHER ->
                <<of("tool.call"), Event("tool.result", call, TraceText(ResultText(r, t))),
                  of("progress.scored")>>

LEMMA ActEventsAre ==
    ASSUME NEW r, NEW t
    PROVE  ActEvents(r, t) = IF Act(r) = "nudge" THEN <<>> ELSE ExtraEvents(r) \o OwnEvents(r, t)
<1>1. Act(r) \in Acts
  BY ActCases
<1>2. CASE Act(r) = "nudge"
  BY <1>2 DEF ActEvents
<1>3. CASE Act(r) = "reject"
  BY <1>3 DEF ActEvents, OwnEvents
<1>4. CASE Act(r) = "judge"
  BY <1>4 DEF ActEvents, OwnEvents
<1>5. CASE Act(r) = "over_budget"
  BY <1>5 DEF ActEvents, OwnEvents
<1>6. CASE Act(r) \in {"refuse", "write", "exec"}
  BY <1>6 DEF ActEvents, OwnEvents
<1> QED
  BY <1>1, <1>2, <1>3, <1>4, <1>5, <1>6 DEF Acts

LEMMA ActEventsTyped ==
    ASSUME NEW r, Steady(r), NEW t \in Texts
    PROVE  /\ ActEvents(r, t) \in Seq(Events)
           /\ Act(r) \in {"refuse", "write", "exec"} =>
                  Len(ActEvents(r, t)) = Len(Extras(r)) + 3
<1>1. CASE Act(r) = "nudge"
  <2>1. ActEvents(r, t) = <<>>
    BY <1>1, ActEventsAre
  <2> QED
    BY <1>1, <2>1
<1>2. CASE Act(r) # "nudge"
  <2>1. Calls(r) # <<>> /\ Act(r) \in Acts
    BY <1>2, ActCases
  <2>2. Primary(r) \in Part
    BY <2>1, CallsTyped
  <2>3. /\ Event("flag.candidate", Primary(r), NoText) \in Events
        /\ Event("flag.decision", Primary(r), NoText) \in Events
        /\ Event("budget.blocked", Primary(r), NoText) \in Events
        /\ Event("tool.call", Primary(r), NoText) \in Events
        /\ Event("progress.scored", Primary(r), NoText) \in Events
        /\ Event("flag.rederived", Primary(r), TraceText(t)) \in Events
        /\ Event("tool.result", Primary(r), TraceText(ResultText(r, t))) \in Events
    <3>1. ResultText(r, t) \in Texts
      BY ResultTyped
    <3>2. TraceText(t) \in Texts /\ TraceText(ResultText(r, t)) \in Texts
      BY <3>1, TextsTyped
    <3>3. EventTypes = {"triage.result", "tool.call", "tool.result", "flag.candidate",
                        "flag.rederived", "flag.decision", "budget.blocked", "progress.scored"}
      BY DEF EventTypes
    <3> QED
      BY <2>2, <3>2, <3>3, TextsTyped, EventTyped
  <2>4. /\ OwnEvents(r, t) \in Seq(Events)
        /\ Act(r) \in {"refuse", "write", "exec"} => Len(OwnEvents(r, t)) = 3
    <3> HIDE DEF Act, Event
    <3> QED
      BY <2>1, <2>3 DEF OwnEvents, Acts
  <2>5. ExtraEvents(r) \in Seq(Events) /\ Len(ExtraEvents(r)) = Len(Extras(r))
        /\ Len(Extras(r)) \in Nat
    BY <2>1, ExtrasTyped
  <2>6. ActEvents(r, t) = ExtraEvents(r) \o OwnEvents(r, t)
    BY <1>2, ActEventsAre
  <2> DEFINE refused == ExtraEvents(r)
             own == OwnEvents(r, t)
             settled == Act(r) \in {"refuse", "write", "exec"}
  <2>7. /\ refused \in Seq(Events) /\ own \in Seq(Events)
        /\ settled => Len(own) = 3
        /\ Len(refused) = Len(Extras(r))
    BY <2>4, <2>5
  <2>8. ActEvents(r, t) = refused \o own
    BY <2>6
  <2>9. SUFFICES ActEvents(r, t) \in Seq(Events)
                 /\ (settled => Len(ActEvents(r, t)) = Len(Extras(r)) + 3)
    OBVIOUS
  <2> HIDE DEF refused, own, settled
  <2>10. refused \o own \in Seq(Events) /\ Len(refused \o own) = Len(refused) + Len(own)
    BY <2>7
  <2> QED
    BY <2>7, <2>8, <2>10
<1> QED
  BY <1>1, <1>2

LEMMA RenderedTyped ==
    ASSUME NEW r, Steady(r), Calls(r) # <<>>, NEW t \in Texts,
           NEW how \in {"summary", "extract"}, NEW n \in Nat
    PROVE  Rendered(r, t, how, n) \in ChatMessage
<1>1. Primary(r) \in Part
  BY CallsTyped
<1>2. "identical" \in Notes /\ "shown" \in Notes /\ how \in Notes
  BY DEF Notes
<1>3. CASE \E s \in r.seen : s.text = t
  <2> DEFINE first == CHOOSE s \in r.seen : s.text = t
  <2>1. first \in r.seen
    BY <1>3
  <2>2. first.step \in Nat
    BY <2>1, RunnerFields DEF Steady, Sightings
  <2>3. Rendered(r, t, how, n) =
            Answer(Primary(r), "identical", NoText, n * (MaxLimit + 1) + first.step)
    BY <1>3 DEF Rendered
  <2> HIDE DEF first
  <2>4. n * (MaxLimit + 1) + first.step \in Nat
    BY <2>2, ReplayAssumption
  <2> QED
    BY <1>1, <1>2, <2>3, <2>4, MessagesTyped, TextsTyped
<1>4. CASE ~\E s \in r.seen : s.text = t
  BY <1>1, <1>2, <1>4, MessagesTyped DEF Rendered
<1> QED
  BY <1>3, <1>4

\* The runner with the refusals of its extra calls, and then with a message.
After(r, t) ==
    [r EXCEPT !.pc = "request", !.seq = @ + Len(ActEvents(r, t)),
              !.history = @ \o ExtraAnswers(r)]
Saying(r, t, message) == [After(r, t) EXCEPT !.history = Append(@, message)]

LEMMA ActedNudge ==
    ASSUME NEW r, NEW t, NEW how, Act(r) = "nudge"
    PROVE  Acted(r, t, how) =
                [r EXCEPT !.pc = "request", !.history = Append(@, Said("nudge", NoText))]
<1> HIDE DEF Act, ActEvents, ExtraAnswers, Answer, Said, Rendered, ResultText, Decision
<1> QED
  BY DEF Acted, After, Saying

LEMMA ActedReject ==
    ASSUME NEW r, NEW t, NEW how, Act(r) = "reject"
    PROVE  Acted(r, t, how) =
                Saying(r, t, Answer(Primary(r), "rejected", NoText, 0))
<1> HIDE DEF Act, ActEvents, ExtraAnswers, Answer, Said, Rendered, ResultText, Decision
<1> QED
  BY DEF Acted, After, Saying

LEMMA ActedJudge ==
    ASSUME NEW r, NEW t, NEW how, Act(r) = "judge"
    PROVE  Acted(r, t, how) =
                [After(r, t) EXCEPT !.pc = "ended", !.outcome = Decision(t \in FlagTexts)]
<1> HIDE DEF Act, ActEvents, ExtraAnswers, Answer, Said, Rendered, ResultText, Decision
<1> QED
  BY DEF Acted, After, Saying

LEMMA ActedOver ==
    ASSUME NEW r, NEW t, NEW how, Act(r) = "over_budget"
    PROVE  Acted(r, t, how) =
                [Saying(r, t, Answer(Primary(r), "over_budget", NoText, 0)) EXCEPT !.stale = @ + 1]
<1> HIDE DEF Act, ActEvents, ExtraAnswers, Answer, Said, Rendered, ResultText, Decision
<1> QED
  BY DEF Acted, After, Saying

\* p has shown r's result, and it is evidence from now on.
Settled(p, r, text, n) ==
    [p EXCEPT !.observed = @ \cup {[seq |-> n, text |-> text]},
              !.stale = IF \E s \in r.seen : s.text = text THEN @ + 1 ELSE 0,
              !.seen = IF \E s \in @ : s.text = text THEN @
                       ELSE @ \cup {[text |-> text, step |-> r.step]}]

LEMMA ActedSettled ==
    ASSUME NEW r, NEW t, NEW how, Act(r) \in {"refuse", "write", "exec"}
    PROVE  Acted(r, t, how) =
               Settled(Saying(r, t, Rendered(r, ResultText(r, t), how, r.seq + Len(Extras(r)) + 2)),
                       r, ResultText(r, t), r.seq + Len(Extras(r)) + 2)
<1> HIDE DEF Act, ActEvents, ExtraAnswers, Answer, Said, Rendered, ResultText, Decision
<1> QED
  BY DEF Acted, After, Saying, Settled

LEMMA AfterTyped ==
    ASSUME NEW r, Steady(r), Calls(r) # <<>>, NEW t \in Texts, NEW q, q = After(r, t)
    PROVE  /\ q \in Runner /\ q.pc = "request" /\ q.step = r.step
           /\ q.seq = r.seq + Len(ActEvents(r, t)) /\ q.seq >= r.seq
           /\ q.history = r.history \o ExtraAnswers(r)
           /\ q.seen = r.seen /\ q.observed = r.observed /\ q.stale = r.stale
           /\ q.outcome = r.outcome
<1> DEFINE seq == r.seq + Len(ActEvents(r, t))
           refusals == ExtraAnswers(r)
           history == r.history \o refusals
<1>1. r \in Runner
  BY DEF Steady
<1>2. r.seq \in Nat /\ r.history \in Histories
  BY <1>1, RunnerFields
<1>3. seq \in Nat /\ seq >= r.seq
  BY <1>2, ActEventsTyped
<1>4. refusals \in Seq(ChatMessage)
  BY ExtrasTyped
<1>5. q = [r EXCEPT !.pc = "request", !.seq = seq, !.history = history]
  BY DEF After
<1> HIDE DEF seq, refusals
<1>6. history \in Histories
  BY <1>2, <1>4 DEF Histories
<1>7. q.history = r.history \o refusals
  BY <1>1, <1>5 DEF Runner
<1> HIDE DEF history
<1>8. q \in Runner
  BY <1>1, <1>3, <1>5, <1>6 DEF Runner
<1>9. /\ q.pc = "request" /\ q.step = r.step /\ q.seq = seq
      /\ q.seen = r.seen /\ q.observed = r.observed /\ q.stale = r.stale
      /\ q.outcome = r.outcome
  BY <1>1, <1>5 DEF Runner
<1> QED
  BY <1>3, <1>7, <1>8, <1>9 DEF seq, refusals

LEMMA SayingTyped ==
    ASSUME NEW r, Steady(r), Calls(r) # <<>>, NEW t \in Texts,
           NEW message \in ChatMessage, NEW q, q = Saying(r, t, message)
    PROVE  /\ q \in Runner /\ q.pc = "request" /\ q.step = r.step
           /\ q.seq = r.seq + Len(ActEvents(r, t)) /\ q.seq >= r.seq
           /\ q.history = Append(r.history \o ExtraAnswers(r), message)
           /\ q.seen = r.seen /\ q.observed = r.observed /\ q.stale = r.stale
           /\ q.outcome = r.outcome
<1> DEFINE p == After(r, t)
           history == Append(p.history, message)
<1>1. /\ p \in Runner /\ p.pc = "request" /\ p.step = r.step
      /\ p.seq = r.seq + Len(ActEvents(r, t)) /\ p.seq >= r.seq
      /\ p.history = r.history \o ExtraAnswers(r)
      /\ p.seen = r.seen /\ p.observed = r.observed /\ p.stale = r.stale
      /\ p.outcome = r.outcome
  BY AfterTyped
<1>2. q = [p EXCEPT !.history = history]
  BY DEF Saying
<1> HIDE DEF p
<1>3. history = Append(r.history \o ExtraAnswers(r), message)
  BY <1>1
<1>4. p.history \in Histories
  BY <1>1, RunnerFields
<1>5. history \in Histories
  BY <1>4 DEF Histories
<1> HIDE DEF history
<1>6. /\ q \in Runner /\ q.pc = p.pc /\ q.step = p.step /\ q.seq = p.seq
      /\ q.history = history /\ q.seen = p.seen /\ q.observed = p.observed
      /\ q.stale = p.stale /\ q.outcome = p.outcome
  BY <1>1, <1>2, <1>5 DEF Runner
<1> QED
  BY <1>1, <1>3, <1>6

LEMMA ActedSteady ==
    ASSUME NEW r, Steady(r), r.pc = "act", NEW t \in Texts,
           NEW how \in {"summary", "extract"}, NEW q, q = Acted(r, t, how)
    PROVE  Steady(q) /\ q.step = r.step /\ q.pc \in {"request", "ended"}
<1>1. r \in Runner /\ r.stale < r.step
  BY DEF Steady
<1>2. /\ r.pc \in {"request", "act", "ended"} /\ r.step \in Nat /\ r.seq \in Nat
      /\ r.history \in Histories /\ r.seen \in Sightings /\ r.observed \in Observations
      /\ r.stale \in Nat /\ r.outcome \in Outcomes
      /\ \A o \in r.observed : o.seq \in Nat /\ o.text \in Texts /\ o.seq < r.seq
  BY <1>1, RunnerFields DEF Steady
<1>3. CASE Act(r) = "nudge"
  <2> DEFINE history == Append(r.history, Said("nudge", NoText))
  <2>1. Said("nudge", NoText) \in ChatMessage
    <3>1. "nudge" \in Notes
      BY DEF Notes
    <3> QED
      BY <3>1, MessagesTyped, TextsTyped
  <2>2. history \in Histories
    BY <1>2, <2>1 DEF Histories
  <2>3. q = [r EXCEPT !.pc = "request", !.history = history]
    <3>1. Acted(r, t, how) = [r EXCEPT !.pc = "request", !.history = Append(@, Said("nudge", NoText))]
      BY <1>3, ActedNudge
    <3> QED
      BY <3>1
  <2> HIDE DEF history
  <2>4. /\ q \in Runner /\ q.pc = "request" /\ q.step = r.step /\ q.seq = r.seq
        /\ q.observed = r.observed /\ q.stale = r.stale
    BY <1>1, <2>2, <2>3 DEF Runner
  <2> QED
    BY <1>1, <1>2, <2>4 DEF Steady
<1>4. ASSUME Act(r) \in {"reject", "judge", "over_budget", "refuse", "write", "exec"}
      PROVE  Calls(r) # <<>> /\ Primary(r) \in Part
  BY <1>4, ActCases, CallsTyped
<1>5. CASE Act(r) = "reject"
  <2> DEFINE message == Answer(Primary(r), "rejected", NoText, 0)
  <2>1. message \in ChatMessage
    <3>1. "rejected" \in Notes /\ 0 \in Nat
      BY DEF Notes
    <3> QED
      BY <1>4, <1>5, <3>1, MessagesTyped, TextsTyped
  <2>2. q = Saying(r, t, message)
    BY <1>5, ActedReject
  <2> HIDE DEF message
  <2>3. /\ q \in Runner /\ q.pc = "request" /\ q.step = r.step /\ q.seq >= r.seq
        /\ q.observed = r.observed /\ q.stale = r.stale /\ q.seq \in Nat
    BY <1>4, <1>5, <2>1, <2>2, SayingTyped, RunnerFields
  <2> QED
    BY <1>1, <1>2, <2>3 DEF Steady
<1>6. CASE Act(r) = "judge"
  <2> DEFINE p == After(r, t)
             outcome == Decision(t \in FlagTexts)
  <2>1. /\ p \in Runner /\ p.step = r.step /\ p.seq >= r.seq /\ p.seq \in Nat
        /\ p.observed = r.observed /\ p.stale = r.stale
    BY <1>4, <1>6, AfterTyped, RunnerFields
  <2>2. q = [p EXCEPT !.pc = "ended", !.outcome = outcome]
    <3>1. Acted(r, t, how) = [After(r, t) EXCEPT !.pc = "ended", !.outcome = Decision(t \in FlagTexts)]
      BY <1>6, ActedJudge
    <3> QED
      BY <3>1
  <2>3. outcome \in Outcomes
    BY DEF Decision, Outcomes
  <2> HIDE DEF p, outcome
  <2>4. /\ q \in Runner /\ q.pc = "ended" /\ q.step = p.step /\ q.seq = p.seq
        /\ q.observed = p.observed /\ q.stale = p.stale
    BY <2>1, <2>2, <2>3 DEF Runner
  <2> QED
    BY <1>1, <1>2, <2>1, <2>4 DEF Steady
<1>7. CASE Act(r) = "over_budget"
  <2> DEFINE message == Answer(Primary(r), "over_budget", NoText, 0)
             p == Saying(r, t, message)
             stale == p.stale + 1
  <2>1. message \in ChatMessage
    <3>1. "over_budget" \in Notes /\ 0 \in Nat
      BY DEF Notes
    <3> QED
      BY <1>4, <1>7, <3>1, MessagesTyped, TextsTyped
  <2>2. q = [p EXCEPT !.stale = stale]
    <3>1. Acted(r, t, how) =
              [Saying(r, t, Answer(Primary(r), "over_budget", NoText, 0)) EXCEPT !.stale = @ + 1]
      BY <1>7, ActedOver
    <3> QED
      BY <3>1
  <2> HIDE DEF message
  <2>3. /\ p \in Runner /\ p.pc = "request" /\ p.step = r.step /\ p.seq >= r.seq
        /\ p.observed = r.observed /\ p.stale = r.stale /\ p.seq \in Nat
    BY <1>4, <1>7, <2>1, SayingTyped, RunnerFields
  <2> HIDE DEF p
  <2>4. stale = r.stale + 1 /\ stale \in Nat
    BY <1>2, <2>3
  <2> HIDE DEF stale
  <2>5. /\ q \in Runner /\ q.pc = "request" /\ q.step = p.step /\ q.seq = p.seq
        /\ q.observed = p.observed /\ q.stale = stale
    BY <2>2, <2>3, <2>4 DEF Runner
  <2> QED
    BY <1>1, <1>2, <2>3, <2>4, <2>5 DEF Steady
<1>8. CASE Act(r) \in {"refuse", "write", "exec"}
  <2> DEFINE text == ResultText(r, t)
             n == r.seq + Len(Extras(r)) + 2
             message == Rendered(r, text, how, n)
             p == Saying(r, t, message)
             known == \E s \in r.seen : s.text = text
             stale == IF known THEN p.stale + 1 ELSE 0
             observed == p.observed \cup {[seq |-> n, text |-> text]}
             seen == IF \E s \in p.seen : s.text = text THEN p.seen
                     ELSE p.seen \cup {[text |-> text, step |-> r.step]}
  <2>1. text \in Texts /\ Len(Extras(r)) \in Nat /\ n \in Nat
    BY <1>2, <1>4, <1>8, ResultTyped, ExtrasTyped
  <2>2. message \in ChatMessage
    BY <1>4, <1>8, <2>1, RenderedTyped
  <2>3. q = [p EXCEPT !.observed = observed, !.stale = stale, !.seen = seen]
    <3>1. q = Settled(p, r, text, n)
      BY <1>8, ActedSettled
    <3> HIDE DEF p, n, text, message
    <3> QED
      BY <3>1 DEF Settled
  <2>4. Len(ActEvents(r, t)) = Len(Extras(r)) + 3
    BY <1>8, ActEventsTyped
  <2> HIDE DEF message
  <2>5. /\ p \in Runner /\ p.pc = "request" /\ p.step = r.step
        /\ p.seq = r.seq + Len(ActEvents(r, t)) /\ p.seen = r.seen
        /\ p.observed = r.observed /\ p.stale = r.stale /\ p.seq \in Nat
    BY <1>4, <1>8, <2>2, SayingTyped, RunnerFields
  <2> HIDE DEF p
  <2>6. n < p.seq /\ r.seq < p.seq
    BY <1>2, <2>1, <2>4, <2>5
  <2> HIDE DEF text, n
  <2>7. stale \in Nat /\ stale <= r.stale + 1
    BY <1>2, <2>5
  <2>8. observed \in Observations /\ \A o \in observed : o.seq < p.seq
    <3>1. \A o \in observed : o \in p.observed \/ (o.seq = n /\ o.text = text)
      OBVIOUS
    <3> QED
      BY <1>2, <2>1, <2>5, <2>6, <3>1 DEF Observations
  <2>9. seen \in Sightings
    BY <1>2, <2>1, <2>5 DEF Sightings
  <2> HIDE DEF observed, stale, seen
  <2>10. /\ q \in Runner /\ q.pc = "request" /\ q.step = p.step /\ q.seq = p.seq
         /\ q.observed = observed /\ q.stale = stale
    BY <2>3, <2>5, <2>7, <2>8, <2>9 DEF Runner
  <2> QED
    BY <1>1, <1>2, <2>5, <2>7, <2>8, <2>10 DEF Steady
<1>9. Act(r) \in Acts
  BY ActCases
<1> QED
  BY <1>3, <1>5, <1>6, <1>7, <1>8, <1>9 DEF Acts

LEMMA DeliveredTyped ==
    ASSUME NEW p \in {"anthropic", "openai", "google"}, NEW response \in Seq(Part),
           NEW s \in Nat, NEW cite \in Nat
    PROVE  Delivered(p, response, s, cite) \in Seq(Part)
<1> DEFINE At(part, i) ==
            IF part.kind \in {"thought", "redacted"} THEN [part EXCEPT !.signed = TRUE]
            ELSE IF part.kind # "call" THEN [part EXCEPT !.signed = p = "google"]
            ELSE [part EXCEPT !.id = IF p = "google" THEN NoId ELSE <<s, i>>,
                              !.signed = p = "google",
                              !.cite = IF part.tool = "submit_flag" THEN cite ELSE 0]
           at == {i \in DOMAIN response : response[i].kind \notin Withheld(p)}
           parts == Picked(response, at)
<1>1. ASSUME NEW part \in Part, NEW i \in Nat PROVE At(part, i) \in Part
  <2>1. CASE part.kind \in {"thought", "redacted"}
    BY <2>1 DEF Part
  <2>2. CASE part.kind \notin {"thought", "redacted", "call"}
    BY <2>2 DEF Part
  <2>3. CASE part.kind = "call"
    <3> DEFINE id == IF p = "google" THEN NoId ELSE <<s, i>>
               cited == IF part.tool = "submit_flag" THEN cite ELSE 0
               signed == p = "google"
    <3>1. id \in Nat \X Nat /\ cited \in Nat /\ signed \in BOOLEAN
      BY DEF NoId
    <3>2. At(part, i) = [part EXCEPT !.id = id, !.signed = signed, !.cite = cited]
      BY <2>3
    <3> HIDE DEF id, cited, signed, At
    <3> QED
      BY <3>1, <3>2 DEF Part
  <2> QED
    BY <2>1, <2>2, <2>3
<1>2. Delivered(p, response, s, cite) = [i \in DOMAIN parts |-> At(parts[i], i)]
  BY DEF Delivered
<1> HIDE DEF At, at
<1>3. parts \in Seq(Part)
  BY PickedTyped
<1> HIDE DEF parts
<1>4. /\ DOMAIN parts = 1 .. Len(parts) /\ Len(parts) \in Nat
      /\ \A i \in 1 .. Len(parts) : At(parts[i], i) \in Part
  BY <1>1, <1>3
<1> QED
  BY <1>2, <1>4

LEMMA ServedTyped ==
    ASSUME cassette \in Seq(Entries), asked \in Seq(Requests), NEW request,
           Served(request) # <<>>
    PROVE  Served(request)[1] \in Completions
<1> DEFINE at == {i \in DOMAIN cassette : cassette[i].key = Key(request)}
           candidates == Picked(cassette, at)
           askedOf == {i \in DOMAIN asked : Key(asked[i]) = Key(request)}
           before == Cardinality(askedOf)
           index == IF before + 1 < Len(candidates) THEN before + 1 ELSE Len(candidates)
<1>1. before \in Nat
  <2>1. IsFiniteSet(1 .. Len(asked)) /\ askedOf \subseteq 1 .. Len(asked)
    BY FS_Interval
  <2> HIDE DEF askedOf
  <2>2. IsFiniteSet(askedOf)
    BY <2>1, FS_Subset
  <2> QED
    BY <2>2, FS_CardinalityType
<1>2. Served(request) = IF candidates = <<>> THEN <<>> ELSE <<candidates[index].response>>
  BY DEF Served
<1> HIDE DEF at, before
<1>3. candidates \in Seq(Entries)
  BY PickedTyped
<1>4. candidates # <<>> /\ Served(request)[1] = candidates[index].response
  BY <1>2
<1> HIDE DEF candidates
<1>5. index \in 1 .. Len(candidates)
  BY <1>1, <1>3, <1>4
<1> HIDE DEF index
<1>6. candidates[index] \in Entries
  BY <1>3, <1>5
<1> QED
  BY <1>4, <1>6 DEF Entries

LEMMA ResolvedTyped ==
    ASSUME NEW m \in ThinkingModel, NEW requested \in ThinkingLevel
    PROVE  Resolved(m, requested) \in ThinkingLevel
<1>1. "off" \in ThinkingLevel /\ "low" \in ThinkingLevel
  BY Ranks
<1> QED
  BY <1>1 DEF Resolved, ThinkingModel

LEMMA AskingTyped ==
    ASSUME Configured, NEW r, Steady(r)
    PROVE  Asking(r) \in Requests
<1>1. config.model \in ThinkingModel /\ config.thinking \in ThinkingLevel
  BY ReplayAssumption DEF Configured, Config
<1>2. Resolved(config.model, config.thinking) \in ThinkingLevel
  BY <1>1, ResolvedTyped
<1>3. r.history \in Seq(ChatMessage)
  BY RunnerFields DEF Steady, Histories
<1> QED
  BY <1>2, <1>3 DEF Asking, Requests

LEMMA ResultsTyped ==
    ASSUME NEW events \in Seq(Events)
    PROVE  ExecResults(events) \in Seq(Texts)
<1> DEFINE queue == Picked(events, {i \in DOMAIN events : Queued(events[i])})
<1>1. ExecResults(events) = [i \in DOMAIN queue |-> queue[i].text]
  BY DEF ExecResults
<1>2. queue \in Seq(Events)
  BY PickedTyped
<1> HIDE DEF queue
<1>3. DOMAIN queue = 1 .. Len(queue) /\ Len(queue) \in Nat
      /\ \A i \in 1 .. Len(queue) : queue[i] \in Events
  BY <1>2
<1>4. \A i \in 1 .. Len(queue) : queue[i].text \in Texts
  BY <1>3 DEF Events
<1> QED
  BY <1>1, <1>3, <1>4

LEMMA EndedSteady ==
    ASSUME NEW r, Steady(r), NEW outcome \in Outcomes, NEW q, q = Ended(r, outcome)
    PROVE  /\ Steady(q) /\ q.pc = "ended" /\ q.step = r.step /\ q.history = r.history
           /\ q.outcome = outcome
<1>1. r \in Runner
  BY DEF Steady
<1>2. q \in Runner
  BY <1>1 DEF Ended, Runner
<1>3. /\ q.pc = "ended" /\ q.step = r.step /\ q.history = r.history /\ q.outcome = outcome
      /\ q.stale = r.stale /\ q.observed = r.observed /\ q.seq = r.seq
  BY <1>1 DEF Ended, Runner
<1> QED
  BY <1>2, <1>3 DEF Steady

Originals == [trace : Seq(Events), outcome : Outcomes, asked : Seq(Requests),
              execs : Seq(Texts), history : Seq(ChatMessage)]

\* What TypeOK rests on: the texts that come back from the sandbox, from the trace
\* and from the cassette are of their types, and each step asks and runs once.
Counted ==
    /\ Steady(run) /\ run.step <= MaxLimit
    /\ Len(asked) <= run.step /\ Len(execs) <= run.step
    /\ run.pc = "act" => Len(execs) < run.step

Kept ==
    /\ trace \in Seq(Events) /\ trace # <<>>
    /\ asked \in Seq(Requests) /\ execs \in Seq(Texts) /\ cassette \in Seq(Entries)
    /\ original \in Originals

Stages ==
    /\ phase \in {"recording", "replaying", "done"}
    /\ causes \subseteq {"altered", "summary", "refused", "cut", "long"} /\ legible \in BOOLEAN
    /\ exit \in {"running", "refused", "raised", "mismatch", "ok"}

TypesInv == Configured /\ Stages /\ Kept /\ Counted

LEMMA TypesSuffice == TypesInv => TypeOK
<1> SUFFICES ASSUME TypesInv PROVE TypeOK
  OBVIOUS
<1>1. Steady(run) /\ run \in Runner
  BY DEF TypesInv, Counted, Steady
<1>2. /\ run.pc \in {"request", "act", "ended"} /\ run.step \in Nat /\ run.stale \in Nat
      /\ run.outcome \in Outcomes /\ run.stale <= run.step
      /\ \A o \in run.observed : o.seq < run.seq /\ o.text \in Texts
  BY <1>1, RunnerFields DEF Steady
<1> QED
  BY <1>2, ReplayAssumption DEF TypeOK, TypesInv, Configured, Stages, Counted, Outcomes

LEMMA TypesInit == Init => TypesInv
<1> SUFFICES ASSUME Init PROVE TypesInv
  OBVIOUS
<1>1. PICK findings \in Findings :
          /\ run = NewRun(findings)
          /\ trace = <<Event("triage.result", NoCall, TraceText(findings))>>
          /\ causes = IF TraceText(findings) = findings THEN {} ELSE {"altered"}
  BY DEF Init
<1>2. findings \in Texts /\ TraceText(findings) \in Texts
  BY TextsTyped
<1>3. Steady(run) /\ run.step = 0 /\ run.pc = "request"
  BY <1>1, <1>2, NewRunSteady DEF NewRun
<1>4. Event("triage.result", NoCall, TraceText(findings)) \in Events
  <2>1. "triage.result" \in EventTypes
    BY DEF EventTypes
  <2> QED
    BY <1>2, <2>1, EventTyped, PlainTyped DEF NoCall
<1>5. Configured /\ Stages
  BY <1>1 DEF Init, Configured, Stages
<1>6. NotRecorded \in Originals
  <2>1. /\ <<>> \in Seq(Events) /\ <<>> \in Seq(Requests) /\ <<>> \in Seq(Texts)
        /\ <<>> \in Seq(ChatMessage) /\ <<>> \in Seq(Entries) /\ "none" \in Outcomes
    BY DEF Outcomes
  <2> QED
    BY <2>1 DEF NotRecorded, Originals
<1>7. Kept
  <2>1. asked = <<>> /\ execs = <<>> /\ cassette = <<>> /\ original = NotRecorded
    BY DEF Init
  <2>2. trace \in Seq(Events) /\ trace # <<>>
    BY <1>1, <1>4
  <2> QED
    BY <1>6, <2>1, <2>2 DEF Kept
<1>8. Counted
  BY <1>3, ReplayAssumption DEF Init, Counted
<1> QED
  BY <1>5, <1>7, <1>8 DEF TypesInv

\* A step of the runner that hears a completion.
LEMMA AskCounted ==
    ASSUME Configured, Counted, asked \in Seq(Requests), execs \in Seq(Texts),
           run.pc = "request", run.step < MaxLimit,
           NEW how \in {"summary", "extract"}, NEW said \in Completions,
           NEW q, q = Heard(Request(run, how), said)
    PROVE  /\ Steady(q) /\ q.pc = "act" /\ q.step = run.step + 1 /\ q.step <= MaxLimit
           /\ Asking(Request(run, how)) \in Requests
           /\ Append(asked, Asking(Request(run, how))) \in Seq(Requests)
           /\ Len(Append(asked, Asking(Request(run, how)))) <= q.step
           /\ Len(execs) < q.step
<1> DEFINE r == Request(run, how)
<1>1. Steady(run) /\ run.step \in Nat /\ run.stale \in Nat /\ run.stale <= run.step
  BY RunnerFields DEF Counted, Steady
<1>2. Steady(r) /\ r.step = run.step + 1 /\ r.stale = run.stale
  BY <1>1, RequestSteady
<1> HIDE DEF r
<1>3. q = Heard(r, said) /\ r.stale < r.step
  BY <1>1, <1>2 DEF r
<1>4. Steady(q) /\ q.pc = "act" /\ q.step = r.step
  BY <1>2, <1>3, HeardSteady
<1>5. Asking(r) \in Requests
  BY <1>2, AskingTyped
<1> DEFINE request == Asking(r)
<1>6. request \in Requests
  BY <1>5
<1> HIDE DEF request
<1>7. Append(asked, request) \in Seq(Requests) /\ Len(Append(asked, request)) = Len(asked) + 1
      /\ Len(asked) \in Nat /\ Len(execs) \in Nat
  BY <1>6
<1>8. q.step <= MaxLimit
  BY <1>1, <1>2, <1>4, ReplayAssumption
<1> QED
  BY <1>1, <1>2, <1>4, <1>6, <1>7, <1>8 DEF Counted, r, request

\* A step of the runner that acts.
LEMMA ActCounted ==
    ASSUME Counted, trace \in Seq(Events), trace # <<>>, execs \in Seq(Texts), asked \in Seq(Requests),
           run.pc = "act", NEW t \in Texts, NEW how \in {"summary", "extract"},
           NEW q, q = Acted(run, t, how)
    PROVE  /\ Steady(q) /\ q.step = run.step /\ q.pc # "act" /\ q.step <= MaxLimit
           /\ Len(asked) <= q.step
           /\ trace \o ActEvents(run, t) \in Seq(Events) /\ trace \o ActEvents(run, t) # <<>>
           /\ Append(execs, t) \in Seq(Texts) /\ Len(Append(execs, t)) <= q.step
           /\ Len(execs) <= q.step
<1>1. Steady(run) /\ run.step \in Nat
  BY RunnerFields DEF Counted, Steady
<1>2. Steady(q) /\ q.step = run.step /\ q.pc \in {"request", "ended"}
  BY <1>1, ActedSteady
<1> DEFINE events == ActEvents(run, t)
<1>3. events \in Seq(Events)
  BY <1>1, ActEventsTyped
<1> HIDE DEF events
<1>4. trace \o events \in Seq(Events) /\ trace \o events # <<>>
  BY <1>3
<1>5. Append(execs, t) \in Seq(Texts) /\ Len(Append(execs, t)) = Len(execs) + 1
      /\ Len(execs) \in Nat
  OBVIOUS
<1> QED
  BY <1>1, <1>2, <1>4, <1>5 DEF Counted, events

\* A tool that fails after its tool.call was written.
LEMMA FailedTyped ==
    ASSUME Counted, run.pc = "act",
           Act(run) \in {"exec", "write"} \/ (UsesSandbox(run) /\ Act(run) # "judge"),
           trace \in Seq(Events), trace # <<>>
    PROVE  LET longer == trace \o ExtraEvents(run) \o <<Event("tool.call", Primary(run), NoText)>>
           IN  longer \in Seq(Events) /\ longer # <<>>
<1>1. Steady(run)
  BY DEF Counted
<1>2. Calls(run) # <<>>
  BY ActCases DEF UsesSandbox
<1>3. Primary(run) \in Part /\ ExtraEvents(run) \in Seq(Events)
  BY <1>1, <1>2, CallsTyped, ExtrasTyped
<1>4. Event("tool.call", Primary(run), NoText) \in Events
  <2>1. "tool.call" \in EventTypes
    BY DEF EventTypes
  <2> QED
    BY <1>3, <2>1, EventTyped, TextsTyped
<1> DEFINE e == Event("tool.call", Primary(run), NoText)
           extras == ExtraEvents(run)
<1>5. e \in Events /\ extras \in Seq(Events)
  BY <1>3, <1>4
<1> HIDE DEF e, extras
<1>6. trace \o extras \o <<e>> \in Seq(Events) /\ trace \o extras \o <<e>> # <<>>
  BY <1>5
<1> QED
  BY <1>6 DEF e, extras

LEMMA SummaryTyped == ASSUME NEW r PROVE SummaryEntry(r) \in Entries
<1>1. Said("summarize", NoText) \in ChatMessage
  <2>1. "summarize" \in Notes
    BY DEF Notes
  <2> QED
    BY <2>1, MessagesTyped, TextsTyped
<1>2. <<Said("summarize", NoText)>> \in Seq(ChatMessage) /\ "off" \in ThinkingLevel
  BY <1>1, Ranks
<1> QED
  BY <1>2, NothingSaid DEF SummaryEntry, Entry, Key, Entries, Requests

LEMMA TypesStep == TypesInv /\ [Next]_vars => TypesInv'
<1> SUFFICES ASSUME TypesInv, [Next]_vars PROVE TypesInv'
  OBVIOUS
<1>1. Configured /\ Stages /\ Kept /\ Counted
  BY DEF TypesInv
<1>2. Configured'
  BY <1>1, ConfigKept DEF Configured
<1>3. /\ Steady(run) /\ run.step \in Nat /\ run.step <= MaxLimit
      /\ run.pc \in {"request", "act", "ended"}
      /\ Len(asked) <= run.step /\ Len(execs) <= run.step
      /\ trace \in Seq(Events) /\ trace # <<>> /\ asked \in Seq(Requests) /\ execs \in Seq(Texts)
      /\ cassette \in Seq(Entries) /\ original \in Originals
  BY <1>1, RunnerFields DEF Counted, Kept, Steady
<1>4. /\ "error" \in Outcomes /\ "none" \in Outcomes /\ "exhausted" \in Outcomes
      /\ "summary" \in {"summary", "extract"} /\ "extract" \in {"summary", "extract"}
      /\ config.limit <= MaxLimit /\ config.limit \in Nat /\ MaxSteps <= MaxLimit
      /\ MaxSteps \in Nat /\ MaxLimit \in Nat
  BY <1>1, ReplayAssumption DEF Outcomes, Configured, Config
<1>5. CASE RecordAsk
  <2> DEFINE r == Request(run, "summary")
  <2>1. PICK response \in Responses, cite \in {0} \cup {o.seq : o \in run.observed} :
          LET parts == Delivered(config.model.provider, response, r.step, cite) IN
          /\ run' = Heard(r, Completion(parts))
          /\ asked' = Append(asked, Asking(r))
          /\ heard' = Append(heard, parts)
          /\ cassette' = cassette \o Summaries(run, r) \o <<Entry(Key(Asking(r)), Completion(parts))>>
    BY <1>5 DEF RecordAsk
  <2> DEFINE parts == Delivered(config.model.provider, response, r.step, cite)
             said == Completion(parts)
  <2>2. run.pc = "request" /\ run.step < MaxLimit
    <3>1. run.pc = "request" /\ run.step < config.limit
      BY <1>5 DEF RecordAsk
    <3> QED
      BY <1>3, <1>4, <3>1, ReplayAssumption
  <2>3. parts \in Seq(Part)
    <3>1. config.model.provider \in {"anthropic", "openai", "google"}
      BY <1>1, ReplayAssumption DEF Configured, Config, ThinkingModel
    <3>2. response \in Seq(Part)
      BY ReplayAssumption
    <3>3. cite \in Nat
      BY <1>3, RunnerFields DEF Steady
    <3>4. r.step \in Nat
      BY <1>3, <1>4, <2>2, RequestSteady
    <3> QED
      BY <3>1, <3>2, <3>3, <3>4, DeliveredTyped
  <2>4. said \in Completions
    BY <2>3, CompletionTyped
  <2>5. run' = Heard(r, said)
    BY <2>1
  <2>6. asked' = Append(asked, Asking(r))
        /\ cassette' = cassette \o Summaries(run, r) \o <<Entry(Key(Asking(r)), said)>>
    BY <2>1
  <2>7. UNCHANGED <<config, phase, trace, execs, original, exit>>
        /\ causes' \subseteq causes \cup {"summary", "long"} /\ legible' \in {legible, FALSE}
    BY <1>5 DEF RecordAsk
  <2> HIDE DEF parts, said
  <2>8. /\ Steady(run') /\ run'.pc = "act" /\ run'.step <= MaxLimit
        /\ Asking(r) \in Requests
        /\ asked' \in Seq(Requests) /\ Len(asked') <= run'.step /\ Len(execs) < run'.step
        /\ run'.step \in Nat
    BY <1>1, <1>3, <1>4, <2>2, <2>4, <2>5, <2>6, AskCounted
  <2>9. cassette' \in Seq(Entries)
    <3>1. SummaryEntry(r) \in Entries
      BY SummaryTyped
    <3>2. Entry(Key(Asking(r)), said) \in Entries
      BY <2>4, <2>8 DEF Entry, Key, Entries
    <3> DEFINE summaries == Summaries(run, r)
               e == Entry(Key(Asking(r)), said)
    <3>3. summaries \in Seq(Entries) /\ e \in Entries
      BY <3>1, <3>2 DEF Summaries
    <3>4. cassette' = cassette \o summaries \o <<e>>
      BY <2>6
    <3> HIDE DEF summaries, e
    <3> QED
      BY <1>3, <3>3, <3>4
  <2>10. Kept'
    BY <1>1, <2>7, <2>8, <2>9 DEF Kept
  <2>11. Counted'
    BY <1>3, <2>7, <2>8 DEF Counted
  <2> QED
    BY <1>1, <1>2, <2>7, <2>10, <2>11 DEF TypesInv, Stages
<1>6. CASE RecordAct
  <2>1. PICK t \in Answers_(run) :
          LET text == ResultText(run, t)
              paid == Act(run) = "exec" /\ t \in LongTexts
                      /\ ~\E s \in run.seen : s.text = t
          IN  /\ run' = Acted(run, t, "summary")
              /\ trace' = trace \o ActEvents(run, t)
              /\ execs' = IF UsesSandbox(run) THEN Append(execs, t) ELSE execs
              /\ cassette' = IF paid THEN Append(cassette, SummaryEntry(run)) ELSE cassette
              /\ legible' \in {legible, legible /\ ~paid}
              /\ causes' = causes
                    \cup (IF paid THEN {"summary"} ELSE {})
                    \cup (IF TraceText(t) # t THEN {"altered"} ELSE {})
                    \cup (IF Calls(run) # <<>> /\ RefusedBacked(run) THEN {"refused"} ELSE {})
    BY <1>6 DEF RecordAct
  <2>2. t \in Texts
    <3>1. Answers_(run) \subseteq Outputs \cup {NoText}
      BY DEF Answers_
    <3> QED
      BY <3>1, TextsTyped
  <2>3. /\ run' = Acted(run, t, "summary") /\ trace' = trace \o ActEvents(run, t)
        /\ execs' = Append(execs, t) \/ execs' = execs
        /\ cassette' = Append(cassette, SummaryEntry(run)) \/ cassette' = cassette
        /\ causes' \subseteq causes \cup {"summary", "altered", "refused"}
        /\ legible' \in BOOLEAN
    <3>1. legible \in BOOLEAN
      BY <1>1 DEF Stages
    <3> HIDE DEF Acted, ActEvents, UsesSandbox, SummaryEntry, RefusedBacked, Calls, TraceText,
                 Act
    <3> QED
      BY <2>1, <3>1
  <2>4. run.pc = "act" /\ UNCHANGED <<config, phase, asked, original, heard, exit>>
    BY <1>6 DEF RecordAct
  <2>5. /\ Steady(run') /\ run'.step <= MaxLimit /\ run'.pc # "act"
        /\ Len(asked) <= run'.step /\ Len(execs') <= run'.step
        /\ trace' \in Seq(Events) /\ trace' # <<>> /\ execs' \in Seq(Texts)
    BY <1>1, <1>3, <1>4, <2>2, <2>3, <2>4, ActCounted
  <2>6. cassette' \in Seq(Entries)
    <3> DEFINE e == SummaryEntry(run)
    <3>1. e \in Entries
      BY SummaryTyped
    <3>2. cassette' = Append(cassette, e) \/ cassette' = cassette
      BY <2>3
    <3> HIDE DEF e
    <3>3. cassette \in Seq(Entries)
      BY <1>3
    <3>4. Append(cassette, e) \in Seq(Entries)
      BY <3>1, <3>3
    <3> QED
      BY <3>2, <3>3, <3>4
  <2>7. Kept'
    BY <1>1, <2>4, <2>5, <2>6 DEF Kept
  <2>8. Counted'
    BY <2>4, <2>5 DEF Counted
  <2> QED
    BY <1>1, <1>2, <2>3, <2>4, <2>7, <2>8 DEF TypesInv, Stages
<1>7. ASSUME NEW outcome \in Outcomes, run' = Ended(run, outcome),
             UNCHANGED <<asked, execs>>
      PROVE  Counted'
  <2>1. Steady(run') /\ run'.pc = "ended" /\ run'.step = run.step
    BY <1>3, <1>7, EndedSteady
  <2> QED
    BY <1>3, <1>7, <2>1 DEF Counted
<1>8. CASE RecordExhausted
  <2>1. Counted'
    BY <1>4, <1>7, <1>8 DEF RecordExhausted
  <2>2. Kept'
    BY <1>1, <1>8 DEF RecordExhausted, Kept
  <2>3. Stages'
    BY <1>1, <1>8 DEF RecordExhausted, Stages
  <2> QED
    BY <1>2, <2>1, <2>2, <2>3 DEF TypesInv
<1>9. CASE RecordCeiling
  <2>1. Counted'
    BY <1>4, <1>7, <1>9 DEF RecordCeiling
  <2>2. Kept'
    BY <1>1, <1>9 DEF RecordCeiling, Kept
  <2>3. Stages'
    BY <1>1, <1>9 DEF RecordCeiling, Stages
  <2> QED
    BY <1>2, <2>1, <2>2, <2>3 DEF TypesInv
<1>10. CASE RecordFails
  <2>1. Counted'
    BY <1>4, <1>7, <1>10 DEF RecordFails
  <2>2. trace' \in Seq(Events) /\ trace' # <<>>
    <3>1. CASE UNCHANGED trace
      BY <1>3, <3>1
    <3>2. CASE /\ run.pc = "act" /\ Act(run) \in {"exec", "write"}
               /\ trace' = trace \o ExtraEvents(run) \o <<Event("tool.call", Primary(run), NoText)>>
      BY <1>1, <1>3, <3>2, FailedTyped
    <3> QED
      BY <1>10, <3>1, <3>2 DEF RecordFails
  <2>3. Kept'
    BY <1>1, <1>10, <2>2 DEF RecordFails, Kept
  <2>4. Stages'
    <3>1. causes' \subseteq causes \cup {"cut", "refused"}
      BY <1>10 DEF RecordFails
    <3> QED
      BY <1>1, <1>10, <3>1 DEF RecordFails, Stages
  <2> QED
    BY <1>2, <2>1, <2>3, <2>4 DEF TypesInv
<1>11. CASE RecordDies
  <2>1. Counted'
    BY <1>4, <1>7, <1>11 DEF RecordDies
  <2>2. Kept'
    BY <1>1, <1>11 DEF RecordDies, Kept
  <2>3. Stages'
    BY <1>1, <1>11 DEF RecordDies, Stages
  <2> QED
    BY <1>2, <2>1, <2>2, <2>3 DEF TypesInv
<1>12. CASE RefuseReplay
  <2>1. Kept' /\ Counted'
    BY <1>1, <1>12 DEF RefuseReplay, Kept, Counted, Steady
  <2>2. Stages'
    BY <1>1, <1>12 DEF RefuseReplay, Stages, Stop
  <2> QED
    BY <1>2, <2>1, <2>2 DEF TypesInv
<1>0. Recorded \in Originals
  <2>1. run.outcome \in Outcomes /\ run.history \in Seq(ChatMessage)
    BY <1>3, RunnerFields DEF Steady, Histories
  <2> QED
    BY <1>3, <2>1 DEF Recorded, Originals
<1>b. CASE CassetteUnreadable
  <2>1. /\ original' = Recorded /\ phase' = "done" /\ exit' = "raised"
        /\ asked' = <<>> /\ execs' = <<>> /\ run.pc = "ended"
        /\ UNCHANGED <<run, trace, cassette, causes, legible>>
    BY <1>b DEF CassetteUnreadable, Stop
  <2>2. Kept'
    BY <1>0, <1>3, <2>1 DEF Kept
  <2>3. Counted' /\ Stages'
    BY <1>1, <1>3, <2>1 DEF Counted, Stages, Steady
  <2> QED
    BY <1>2, <2>2, <2>3 DEF TypesInv
<1>13. CASE StartReplay
  <2>1. trace[1].text \in Texts
    <3>1. trace[1] \in Events
      BY <1>3
    <3> QED
      BY <3>1 DEF Events
  <2>2. Steady(run') /\ run'.step = 0 /\ run'.pc = "request"
    BY <1>13, <2>1, NewRunSteady DEF StartReplay, NewRun
  <2>3. Event("triage.result", NoCall, TraceText(trace[1].text)) \in Events
    <3>1. "triage.result" \in EventTypes
      BY DEF EventTypes
    <3> QED
      BY <2>1, <3>1, TextsTyped, EventTyped, PlainTyped DEF NoCall
  <2>4. original' \in Originals
    BY <1>0, <1>13 DEF StartReplay
  <2>5. trace' \in Seq(Events) /\ trace' # <<>>
    BY <1>13, <2>3 DEF StartReplay
  <2>6. asked' = <<>> /\ execs' = <<>>
    BY <1>13 DEF StartReplay
  <2>7. Kept'
    <3>1. cassette' = cassette
      BY <1>13 DEF StartReplay
    <3> QED
      BY <1>3, <2>4, <2>5, <2>6, <3>1 DEF Kept
  <2>8. Counted'
    BY <2>2, <2>6, ReplayAssumption DEF Counted
  <2>9. Stages'
    BY <1>1, <1>13 DEF StartReplay, Stages
  <2> QED
    BY <1>2, <2>7, <2>8, <2>9 DEF TypesInv
<1>14. CASE ReplayAsk
  <2> DEFINE r == Request(run, "extract")
             said == Served(Asking(r))[1]
  <2>1. /\ run.pc = "request" /\ run.step < MaxSteps /\ Served(Asking(r)) # <<>>
        /\ run' = Heard(r, said) /\ asked' = Append(asked, Asking(r))
        /\ UNCHANGED <<config, phase, trace, execs, cassette, legible, original, heard, causes, exit>>
    BY <1>14 DEF ReplayAsk
  <2>2. said \in Completions
    BY <1>3, <2>1, ServedTyped
  <2> HIDE DEF said
  <2>3. /\ Steady(run') /\ run'.pc = "act" /\ run'.step <= MaxLimit
        /\ asked' \in Seq(Requests) /\ Len(asked') <= run'.step /\ Len(execs) < run'.step
        /\ run'.step \in Nat
    BY <1>1, <1>3, <1>4, <2>1, <2>2, AskCounted
  <2>4. Kept'
    BY <1>1, <2>1, <2>3 DEF Kept
  <2>5. Counted'
    BY <1>3, <2>1, <2>3 DEF Counted
  <2> QED
    BY <1>1, <1>2, <2>1, <2>4, <2>5 DEF TypesInv, Stages
<1>15. CASE ReplayUnknown
  <2>1. /\ run.pc = "request" /\ run.step < MaxSteps /\ run' = Request(run, "extract")
        /\ phase' = "done" /\ exit' = "raised"
        /\ UNCHANGED <<config, trace, asked, execs, cassette, legible, original, heard, causes>>
    BY <1>15 DEF ReplayUnknown, Stop
  <2>2. Steady(run') /\ run'.pc = "request" /\ run'.step = run.step + 1
    BY <1>3, <1>4, <2>1, RequestSteady
  <2>3. Counted'
    BY <1>3, <2>1, <2>2, ReplayAssumption DEF Counted
  <2>4. Kept' /\ Stages'
    BY <1>1, <2>1 DEF Kept, Stages
  <2> QED
    BY <1>2, <2>3, <2>4 DEF TypesInv
<1>16. CASE ReplayAct
  <2> DEFINE t == IF UsesSandbox(run) THEN Queue[Len(execs) + 1] ELSE NoText
  <2>1. /\ run.pc = "act"
        /\ UsesSandbox(run) => Len(execs) < Len(Queue)
        /\ run' = Acted(run, t, "extract") /\ trace' = trace \o ActEvents(run, t)
        /\ execs' = Append(execs, t) \/ execs' = execs
        /\ UNCHANGED <<config, phase, asked, cassette, legible, original, heard, causes, exit>>
    <3> HIDE DEF Acted, ActEvents, UsesSandbox, Queue
    <3> QED
      BY <1>16 DEF ReplayAct
  <2>2. t \in Texts
    <3>1. Queue \in Seq(Texts)
      BY <1>3, ResultsTyped DEF Queue, Originals
    <3> HIDE DEF Queue, UsesSandbox
    <3>2. UsesSandbox(run) => Len(execs) + 1 \in 1 .. Len(Queue)
      BY <1>3, <2>1, <3>1
    <3> QED
      BY <3>1, <3>2, TextsTyped
  <2> HIDE DEF t
  <2>3. /\ Steady(run') /\ run'.step <= MaxLimit /\ run'.pc # "act"
        /\ Len(asked) <= run'.step /\ Len(execs') <= run'.step
        /\ trace' \in Seq(Events) /\ trace' # <<>> /\ execs' \in Seq(Texts)
    BY <1>1, <1>3, <1>4, <2>1, <2>2, ActCounted
  <2>4. Kept'
    BY <1>1, <2>1, <2>3 DEF Kept
  <2>5. Counted'
    BY <2>1, <2>3 DEF Counted
  <2> QED
    BY <1>1, <1>2, <2>1, <2>4, <2>5 DEF TypesInv, Stages
<1>17. CASE ReplayPastEnd
  <2>1. /\ run.pc = "act" /\ UsesSandbox(run)
        /\ UNCHANGED <<config, asked, execs, cassette, legible, original, heard, causes>>
    BY <1>17 DEF ReplayPastEnd
  <2>2. CASE Act(run) = "judge"
    <3>1. /\ run' = Acted(run, NoText, "extract") /\ trace' = trace \o ActEvents(run, NoText)
          /\ UNCHANGED <<phase, exit>>
      BY <1>17, <2>2 DEF ReplayPastEnd
    <3>2. /\ Steady(run') /\ run'.step <= MaxLimit /\ run'.pc # "act"
          /\ Len(asked) <= run'.step /\ Len(execs) <= run'.step
          /\ trace' \in Seq(Events) /\ trace' # <<>>
      BY <1>1, <1>3, <1>4, <2>1, <3>1, ActCounted, TextsTyped
    <3>3. Kept' /\ Stages'
      BY <1>1, <2>1, <3>1, <3>2 DEF Kept, Stages
    <3>4. Counted'
      BY <2>1, <3>2 DEF Counted
    <3> QED
      BY <1>2, <3>3, <3>4 DEF TypesInv
  <2>3. CASE Act(run) # "judge"
    <3>1. /\ trace' = trace \o ExtraEvents(run) \o <<Event("tool.call", Primary(run), NoText)>>
          /\ phase' = "done" /\ exit' = "raised" /\ UNCHANGED run
      BY <1>17, <2>3 DEF ReplayPastEnd, Stop
    <3>2. trace' \in Seq(Events) /\ trace' # <<>>
      BY <1>1, <1>3, <2>1, <2>3, <3>1, FailedTyped
    <3>3. Kept' /\ Stages'
      BY <1>1, <2>1, <3>1, <3>2 DEF Kept, Stages
    <3>4. Counted'
      BY <1>1, <2>1, <3>1 DEF Counted, Steady
    <3> QED
      BY <1>2, <3>3, <3>4 DEF TypesInv
  <2> QED
    BY <2>2, <2>3
<1>18. CASE ReplayExhausted
  <2>1. Counted'
    BY <1>4, <1>7, <1>18 DEF ReplayExhausted
  <2>2. Kept' /\ Stages'
    BY <1>1, <1>18 DEF ReplayExhausted, Kept, Stages
  <2> QED
    BY <1>2, <2>1, <2>2 DEF TypesInv
<1>19. CASE Check
  <2>1. Kept' /\ Counted'
    BY <1>1, <1>19 DEF Check, Kept, Counted, Steady
  <2>2. Stages'
    BY <1>1, <1>19 DEF Check, Stages, Stop
  <2> QED
    BY <1>2, <2>1, <2>2 DEF TypesInv
<1>20. CASE UNCHANGED vars
  BY <1>1, <1>2, <1>20 DEF vars, TypesInv, Stages, Kept, Counted, Steady
<1> QED
  BY <1>5, <1>6, <1>8, <1>9, <1>10, <1>11, <1>12, <1>13, <1>14, <1>15, <1>16, <1>17, <1>18,
     <1>19, <1>20, <1>b DEF Next

LEMMA TypesInvariant == Spec => []TypesInv
  BY TypesInit, TypesStep, PTL DEF Spec

\* Whatever a recording does, and whatever its replay is served, the runner stays
\* within its steps, cites only what it has observed, and asks and runs at most
\* once in each of them.
THEOREM ReplayTyped == Spec => []TypeOK
  BY TypesInvariant, TypesSuffice, PTL

-----------------------------------------------------------------------------
(* Lockstep: a replay that is served is where the recording was.              *)

\* How a history begins, and how many turns of the model it has.
Mark(h) == h[1].text[1]
Turns(h) == Cardinality({i \in DOMAIN h : h[i].role = "assistant"})

LEMMA TurnsFinite ==
    ASSUME NEW S, NEW h \in Seq(S)
    PROVE  IsFiniteSet({i \in DOMAIN h : h[i].role = "assistant"}) /\ Turns(h) \in Nat
<1> DEFINE at == {i \in DOMAIN h : h[i].role = "assistant"}
<1>1. IsFiniteSet(1 .. Len(h)) /\ at \subseteq 1 .. Len(h)
  BY FS_Interval
<1> HIDE DEF at
<1>2. IsFiniteSet(at) /\ Cardinality(at) \in Nat
  BY <1>1, FS_Subset, FS_CardinalityType
<1> QED
  BY <1>2 DEF Turns, at

LEMMA TurnsAppend ==
    ASSUME NEW S, NEW h \in Seq(S), NEW message \in S
    PROVE  Turns(Append(h, message)) =
               IF message.role = "assistant" THEN Turns(h) + 1 ELSE Turns(h)
<1> DEFINE longer == Append(h, message)
           at == {i \in DOMAIN h : h[i].role = "assistant"}
           more == {i \in DOMAIN longer : longer[i].role = "assistant"}
<1>1. /\ longer \in Seq(S) /\ Len(longer) = Len(h) + 1 /\ Len(h) \in Nat
      /\ longer[Len(h) + 1] = message /\ \A i \in 1 .. Len(h) : longer[i] = h[i]
      /\ DOMAIN h = 1 .. Len(h) /\ DOMAIN longer = 1 .. Len(h) + 1
  OBVIOUS
<1>2. more = IF message.role = "assistant" THEN at \cup {Len(h) + 1} ELSE at
  BY <1>1
<1>3. Len(h) + 1 \notin at
  BY <1>1
<1>4. IsFiniteSet(at)
  BY TurnsFinite
<1> HIDE DEF at, more, longer
<1>5. Cardinality(more) = IF message.role = "assistant" THEN Cardinality(at) + 1 ELSE Cardinality(at)
  BY <1>2, <1>3, <1>4, FS_AddElement
<1> QED
  BY <1>5 DEF Turns, at, more, longer

\* What is joined to a history without a turn of the model adds none.
Turnless(g) == \A i \in DOMAIN g : g[i].role # "assistant"

LEMMA TurnsJoin ==
    ASSUME NEW S, NEW h \in Seq(S), NEW g \in Seq(S), Turnless(g)
    PROVE  Turns(h \o g) = Turns(h)
<1> DEFINE longer == h \o g
<1>1. /\ Len(longer) = Len(h) + Len(g) /\ Len(h) \in Nat /\ Len(g) \in Nat
      /\ DOMAIN longer = 1 .. Len(longer) /\ DOMAIN h = 1 .. Len(h) /\ DOMAIN g = 1 .. Len(g)
      /\ \A i \in 1 .. Len(h) : longer[i] = h[i]
      /\ \A i \in Len(h) + 1 .. Len(longer) : longer[i] = g[i - Len(h)]
  OBVIOUS
<1> HIDE DEF longer
<1>2. \A i \in DOMAIN longer : longer[i].role = "assistant" => i \in 1 .. Len(h)
  <2> SUFFICES ASSUME NEW i \in DOMAIN longer, i \notin 1 .. Len(h)
               PROVE  longer[i].role # "assistant"
    OBVIOUS
  <2>1. i \in Len(h) + 1 .. Len(longer) /\ i - Len(h) \in DOMAIN g
    BY <1>1
  <2> QED
    BY <1>1, <2>1 DEF Turnless
<1>3. {i \in DOMAIN longer : longer[i].role = "assistant"}
          = {i \in DOMAIN h : h[i].role = "assistant"}
  BY <1>1, <1>2
<1> QED
  BY <1>3 DEF Turns, longer

LEMMA AppendJoin ==
    ASSUME NEW S, NEW a \in Seq(S), NEW b \in Seq(S), NEW e \in S
    PROVE  Append(a \o b, e) = a \o Append(b, e)
  OBVIOUS

LEMMA AppendOne ==
    ASSUME NEW S, NEW a \in Seq(S), NEW e \in S
    PROVE  /\ Append(a, e) = a \o <<e>>
           /\ <<e>> \in Seq(S) /\ DOMAIN <<e>> = {1} /\ <<e>>[1] = e
  OBVIOUS

LEMMA TurnlessMore ==
    ASSUME NEW S, NEW h \in Seq(S), NEW b \in Seq(S), Turnless(b),
           NEW e \in S, e.role # "assistant"
    PROVE  \E g \in Seq(S) : Append(h \o b, e) = h \o g /\ Turnless(g)
<1> DEFINE g == Append(b, e)
<1>1. g \in Seq(S)
  OBVIOUS
<1>2. Append(h \o b, e) = h \o g
  OBVIOUS
<1>3. Turnless(g)
  BY DEF Turnless
<1> QED
  BY <1>1, <1>2, <1>3

\* A text is remembered once, with the step it was shown at; and a history that
\* was never compacted has a turn for each step.
Remembered(r) ==
    /\ \A s \in r.seen : s.step <= r.step /\ (r.pc = "act" => s.step < r.step)
    /\ \A s, u \in r.seen : s.step = u.step => s.text = u.text

Numbered(r) == Mark(r.history) = "findings" => Turns(r.history) = r.step

Sound(r) == Steady(r) /\ Remembered(r) /\ Numbered(r)

\* What an act adds to the history.
LEMMA ActedHistory ==
    ASSUME NEW r, Steady(r), r.pc = "act", NEW t \in Texts,
           NEW how \in {"summary", "extract"}, NEW q, q = Acted(r, t, how)
    PROVE  \E g \in Seq(ChatMessage) : q.history = r.history \o g /\ Turnless(g)
<1>1. r \in Runner /\ r.history \in Seq(ChatMessage)
  BY RunnerFields DEF Steady, Histories
<1>2. CASE Act(r) = "nudge"
  <2> DEFINE message == Said("nudge", NoText)
  <2>1. message \in ChatMessage /\ message.role = "user"
    <3>1. "nudge" \in Notes
      BY DEF Notes
    <3> QED
      BY <3>1, MessagesTyped, TextsTyped DEF Said, Msg, Turnless
  <2>2. q = [r EXCEPT !.pc = "request", !.history = Append(r.history, message)]
    <3>1. Acted(r, t, how) = [r EXCEPT !.pc = "request", !.history = Append(@, Said("nudge", NoText))]
      BY <1>2, ActedNudge
    <3> QED
      BY <3>1
  <2> HIDE DEF message
  <2>3. q.history = Append(r.history, message)
    BY <1>1, <2>2 DEF Runner
  <2> DEFINE g == <<message>>
  <2>4. q.history = r.history \o g /\ g \in Seq(ChatMessage) /\ DOMAIN g = {1} /\ g[1] = message
    BY <1>1, <2>1, <2>3, AppendOne
  <2> HIDE DEF g
  <2>5. Turnless(g)
    BY <2>1, <2>4 DEF Turnless
  <2> QED
    BY <2>4, <2>5
<1>3. CASE Act(r) # "nudge"
  <2>1. Calls(r) # <<>> /\ Primary(r) \in Part
    BY <1>3, ActCases, CallsTyped
  <2> DEFINE refusals == ExtraAnswers(r)
  <2>2. refusals \in Seq(ChatMessage) /\ Turnless(refusals)
    BY <2>1, ExtrasTyped DEF ExtraAnswers, Answer, Msg, Turnless
  <2>3. ASSUME NEW message \in ChatMessage, message.role = "tool",
               q.history = Append(r.history \o refusals, message)
        PROVE  \E g \in Seq(ChatMessage) : q.history = r.history \o g /\ Turnless(g)
    <3> HIDE DEF refusals
    <3> DEFINE h == r.history
    <3>1. h \in Seq(ChatMessage) /\ refusals \in Seq(ChatMessage) /\ Turnless(refusals)
      BY <1>1, <2>2
    <3>2. message \in ChatMessage /\ message.role # "assistant"
      BY <2>3
    <3>4. q.history = Append(h \o refusals, message)
      BY <2>3
    <3> HIDE DEF h
    <3>3. \E g \in Seq(ChatMessage) : Append(h \o refusals, message) = h \o g /\ Turnless(g)
      BY <3>1, <3>2, TurnlessMore
    <3> QED
      BY <3>3, <3>4 DEF h
  <2>4. "rejected" \in Notes /\ "over_budget" \in Notes /\ 0 \in Nat
    BY DEF Notes
  <2>5. CASE Act(r) = "reject"
    <3> DEFINE message == Answer(Primary(r), "rejected", NoText, 0)
    <3>1. message \in ChatMessage /\ message.role = "tool"
      BY <2>1, <2>4, MessagesTyped, TextsTyped DEF Answer, Msg
    <3>2. q = Saying(r, t, message)
      BY <2>5, ActedReject
    <3> HIDE DEF message
    <3>3. q.history = Append(r.history \o refusals, message)
      BY <2>1, <3>1, <3>2, SayingTyped
    <3> QED
      BY <2>3, <3>1, <3>3
  <2>6. CASE Act(r) = "judge"
    <3> DEFINE p == After(r, t)
               outcome == Decision(t \in FlagTexts)
    <3>1. p \in Runner /\ p.history = r.history \o refusals
      BY <2>1, AfterTyped
    <3>2. q = [p EXCEPT !.pc = "ended", !.outcome = outcome]
      <4>1. Acted(r, t, how) = [After(r, t) EXCEPT !.pc = "ended", !.outcome = Decision(t \in FlagTexts)]
        BY <2>6, ActedJudge
      <4> QED
        BY <4>1
    <3> HIDE DEF p, outcome
    <3>3. q.history = r.history \o refusals
      BY <3>1, <3>2 DEF Runner
    <3> QED
      BY <2>2, <3>3
  <2>7. CASE Act(r) = "over_budget"
    <3> DEFINE message == Answer(Primary(r), "over_budget", NoText, 0)
               p == Saying(r, t, message)
    <3>1. message \in ChatMessage /\ message.role = "tool"
      BY <2>1, <2>4, MessagesTyped, TextsTyped DEF Answer, Msg
    <3>2. q = [p EXCEPT !.stale = p.stale + 1]
      <4>1. Acted(r, t, how) =
                [Saying(r, t, Answer(Primary(r), "over_budget", NoText, 0)) EXCEPT !.stale = @ + 1]
        BY <2>7, ActedOver
      <4> QED
        BY <4>1
    <3> HIDE DEF message
    <3>3. p \in Runner /\ p.history = Append(r.history \o refusals, message)
      BY <2>1, <3>1, SayingTyped
    <3> HIDE DEF p
    <3>4. q.history = p.history
      BY <3>2, <3>3 DEF Runner
    <3> QED
      BY <2>3, <3>1, <3>3, <3>4
  <2>8. CASE Act(r) \in {"refuse", "write", "exec"}
    <3> DEFINE text == ResultText(r, t)
               n == r.seq + Len(Extras(r)) + 2
               message == Rendered(r, text, how, n)
               p == Saying(r, t, message)
    <3>1. text \in Texts /\ n \in Nat
      BY <1>1, <2>1, ResultTyped, ExtrasTyped, RunnerFields
    <3>2. message \in ChatMessage /\ message.role = "tool"
      BY <2>1, <3>1, RenderedTyped DEF Rendered, Answer, Msg
    <3>3. q = Settled(p, r, text, n)
      BY <2>8, ActedSettled
    <3> HIDE DEF message
    <3>4. p \in Runner /\ p.history = Append(r.history \o refusals, message)
      BY <2>1, <3>2, SayingTyped
    <3> HIDE DEF p, n, text
    <3>5. q.history = p.history
      BY <3>3, <3>4 DEF Runner, Settled
    <3> QED
      BY <2>3, <3>2, <3>4, <3>5
  <2> QED
    BY <1>3, <2>5, <2>6, <2>7, <2>8, ActCases DEF Acts
<1> QED
  BY <1>2, <1>3

LEMMA MarkJoin ==
    ASSUME NEW h \in Histories, NEW g \in Seq(ChatMessage)
    PROVE  h \o g \in Histories /\ Mark(h \o g) = Mark(h)
<1>1. h \in Seq(ChatMessage) /\ Len(h) >= 1
  BY DEF Histories
<1>2. h \o g \in Seq(ChatMessage) /\ (h \o g)[1] = h[1] /\ h \o g # <<>>
  BY <1>1
<1> QED
  BY <1>2 DEF Mark, Histories

LEMMA NewRunSound ==
    ASSUME NEW findings \in Texts, NEW r, r = NewRun(findings)
    PROVE  /\ Sound(r) /\ r.pc = "request" /\ r.step = 0 /\ r.seq = 3
           /\ Mark(r.history) = "findings" /\ r.history = <<Said("findings", findings)>>
<1> DEFINE h == <<Said("findings", findings)>>
<1>1. Steady(r)
  BY NewRunSteady
<1>2. r.pc = "request" /\ r.step = 0 /\ r.seq = 3 /\ r.history = h /\ r.seen = {}
  BY DEF NewRun
<1>3. Len(h) = 1 /\ h[1].role = "user" /\ Mark(h) = "findings" /\ DOMAIN h = {1}
  BY DEF Said, Msg, Mark
<1>4. {i \in DOMAIN h : h[i].role = "assistant"} = {}
  BY <1>3
<1>5. Turns(h) = 0
  BY <1>4, FS_EmptySet DEF Turns
<1> QED
  BY <1>1, <1>2, <1>3, <1>5 DEF Sound, Remembered, Numbered

LEMMA CompactedMark ==
    ASSUME NEW h \in Histories, NEW how
    PROVE  IF Compactable(h, MaxMessages) THEN Mark(Compacted(how, h)) = how
           ELSE Compacted(how, h) = h
<1>0. h \in Seq(ChatMessage)
  BY DEF Histories
<1>1. CASE ~Compactable(h, MaxMessages)
  BY <1>1 DEF Compacted
<1>2. CASE Compactable(h, MaxMessages)
  <2>1. PICK split \in 0 .. Len(h) - 1 :
            Compacted(how, h) = <<Msg("user", NoCompletion, how, NoText, split)>>
                                    \o SubSeq(h, split + 1, Len(h))
    BY <1>0, <1>2, CutExists
  <2> DEFINE first == Msg("user", NoCompletion, how, NoText, split)
             rest == SubSeq(h, split + 1, Len(h))
  <2>2. rest \in Seq(ChatMessage)
    BY <1>0
  <2>3. first.text[1] = how
    BY DEF Msg
  <2> HIDE DEF first, rest
  <2>4. (<<first>> \o rest)[1] = first
    BY <2>2
  <2> QED
    BY <1>2, <2>1, <2>3, <2>4 DEF Mark, first, rest
<1> QED
  BY <1>1, <1>2

\* The turn a completion becomes.
Turn(said) == Msg("assistant", said, "turn", NoText, 0)

LEMMA AskSound ==
    ASSUME NEW r, Sound(r), r.pc = "request", NEW how \in {"summary", "extract"},
           NEW said \in Completions, NEW q, q = Heard(Request(r, how), said)
    PROVE  /\ Sound(q) /\ q.pc = "act" /\ q.step = r.step + 1
           /\ q.history = Append(Request(r, how).history, Turn(said))
           /\ Request(r, how).history = Compacted(how, r.history)
           /\ Request(r, how).history \in Histories
           /\ Mark(q.history) = Mark(Request(r, how).history)
<1> DEFINE p == Request(r, how)
           h == p.history
<1>1. Steady(r) /\ Remembered(r) /\ Numbered(r)
  BY DEF Sound
<1>2. /\ Steady(p) /\ p.pc = "request" /\ p.step = r.step + 1
      /\ h = Compacted(how, r.history) /\ p.seen = r.seen /\ p.stale = r.stale
  BY <1>1, RequestSteady
<1>3. r.stale <= r.step /\ r.stale \in Nat /\ r.step \in Nat /\ r.history \in Histories
  BY <1>1, RunnerFields DEF Steady
<1>4. q = Heard(p, said)
  OBVIOUS
<1>5. h \in Histories
  BY <1>2, RunnerFields DEF Steady
<1> HIDE DEF p
<1>6. /\ Steady(q) /\ q.pc = "act" /\ q.step = p.step
      /\ q.history = Append(h, Turn(said)) /\ q.seen = p.seen
  BY <1>2, <1>3, <1>4, HeardSteady DEF Turn
<1>7. Remembered(q)
  <2>1. \A s \in r.seen : s.step \in Nat /\ s.step <= r.step
    BY <1>1, RunnerFields DEF Steady, Sightings, Remembered
  <2> QED
    BY <1>1, <1>2, <1>3, <1>6, <2>1 DEF Remembered
<1>8. Turn(said) \in ChatMessage /\ Turn(said).role = "assistant"
  <2>1. "turn" \in Notes /\ 0 \in Nat
    BY DEF Notes
  <2> QED
    BY <2>1, MessagesTyped, TextsTyped DEF Turn, Msg
<1> HIDE DEF h
<1>9. Mark(q.history) = Mark(h)
  <2>1. h \in Seq(ChatMessage) /\ Append(h, Turn(said)) = h \o <<Turn(said)>>
        /\ <<Turn(said)>> \in Seq(ChatMessage)
    BY <1>5, <1>8, AppendOne DEF Histories
  <2> DEFINE tail == <<Turn(said)>>
  <2>3. q.history = h \o tail
    BY <1>6, <2>1
  <2> HIDE DEF tail
  <2>2. Mark(h \o tail) = Mark(h)
    BY <1>5, <2>1, MarkJoin DEF tail
  <2> QED
    BY <2>2, <2>3
<1>10. Numbered(q)
  <2> SUFFICES ASSUME Mark(h) = "findings" PROVE Turns(q.history) = q.step
    BY <1>9 DEF Numbered
  <2>1. h = r.history
    BY <1>2, <1>3, CompactedMark
  <2>2. Turns(r.history) = r.step
    BY <1>1, <2>1 DEF Numbered
  <2>3. Turns(Append(h, Turn(said))) = Turns(h) + 1
    BY <1>5, <1>8, TurnsAppend DEF Histories
  <2> QED
    BY <1>2, <1>6, <2>1, <2>2, <2>3
<1> QED
  BY <1>2, <1>5, <1>6, <1>7, <1>9, <1>10 DEF Sound, h, p

\* An act remembers at most one text, which was not, at its step.
LEMMA ActedSeen ==
    ASSUME NEW r, Steady(r), r.pc = "act", NEW t \in Texts,
           NEW how \in {"summary", "extract"}, NEW q, q = Acted(r, t, how)
    PROVE  \/ q.seen = r.seen
           \/ \E text \in Texts : /\ \A s \in r.seen : s.text # text
                                  /\ q.seen = r.seen \cup {[text |-> text, step |-> r.step]}
<1>1. r \in Runner
  BY DEF Steady
<1>2. CASE Act(r) = "nudge"
  <2> DEFINE history == Append(r.history, Said("nudge", NoText))
  <2>1. q = [r EXCEPT !.pc = "request", !.history = history]
    BY <1>2, ActedNudge
  <2> HIDE DEF history
  <2> QED
    BY <1>1, <2>1 DEF Runner
<1>3. CASE Act(r) # "nudge"
  <2>1. Calls(r) # <<>> /\ Primary(r) \in Part
    BY <1>3, ActCases, CallsTyped
  <2>2. "rejected" \in Notes /\ "over_budget" \in Notes /\ 0 \in Nat
    BY DEF Notes
  <2>3. CASE Act(r) = "reject"
    <3> DEFINE message == Answer(Primary(r), "rejected", NoText, 0)
    <3>1. message \in ChatMessage
      BY <2>1, <2>2, MessagesTyped, TextsTyped
    <3>2. q = Saying(r, t, message)
      BY <2>3, ActedReject
    <3> HIDE DEF message
    <3> QED
      BY <2>1, <3>1, <3>2, SayingTyped
  <2>4. CASE Act(r) = "judge"
    <3> DEFINE p == After(r, t)
               outcome == Decision(t \in FlagTexts)
    <3>1. p \in Runner /\ p.seen = r.seen
      BY <2>1, AfterTyped
    <3>2. q = [p EXCEPT !.pc = "ended", !.outcome = outcome]
      BY <2>4, ActedJudge
    <3> HIDE DEF p, outcome
    <3> QED
      BY <3>1, <3>2 DEF Runner
  <2>5. CASE Act(r) = "over_budget"
    <3> DEFINE message == Answer(Primary(r), "over_budget", NoText, 0)
               p == Saying(r, t, message)
    <3>1. message \in ChatMessage
      BY <2>1, <2>2, MessagesTyped, TextsTyped
    <3>2. q = [p EXCEPT !.stale = p.stale + 1]
      BY <2>5, ActedOver
    <3> HIDE DEF message
    <3>3. p \in Runner /\ p.seen = r.seen
      BY <2>1, <3>1, SayingTyped
    <3> HIDE DEF p
    <3> QED
      BY <3>2, <3>3 DEF Runner
  <2>6. CASE Act(r) \in {"refuse", "write", "exec"}
    <3> DEFINE text == ResultText(r, t)
               n == r.seq + Len(Extras(r)) + 2
               message == Rendered(r, text, how, n)
               p == Saying(r, t, message)
    <3>1. text \in Texts /\ n \in Nat
      BY <1>1, <2>1, ResultTyped, ExtrasTyped, RunnerFields
    <3>2. message \in ChatMessage
      BY <2>1, <3>1, RenderedTyped
    <3>3. q = Settled(p, r, text, n)
      BY <2>6, ActedSettled
    <3> HIDE DEF message
    <3>4. p \in Runner /\ p.seen = r.seen
      BY <2>1, <3>2, SayingTyped
    <3> HIDE DEF p, n, text
    <3>5. q.seen = IF \E s \in r.seen : s.text = text THEN r.seen
                   ELSE r.seen \cup {[text |-> text, step |-> r.step]}
      BY <3>3, <3>4 DEF Runner, Settled
    <3> QED
      BY <3>1, <3>5
  <2> QED
    BY <1>3, <2>3, <2>4, <2>5, <2>6, ActCases DEF Acts
<1> QED
  BY <1>2, <1>3

LEMMA ActSound ==
    ASSUME NEW r, Sound(r), r.pc = "act", NEW t \in Texts,
           NEW how \in {"summary", "extract"}, NEW q, q = Acted(r, t, how)
    PROVE  /\ Sound(q) /\ q.step = r.step /\ q.pc \in {"request", "ended"}
           /\ Mark(q.history) = Mark(r.history)
<1>1. Steady(r) /\ Remembered(r) /\ Numbered(r) /\ r.history \in Histories /\ r.step \in Nat
  BY RunnerFields DEF Sound, Steady
<1>2. Steady(q) /\ q.step = r.step /\ q.pc \in {"request", "ended"}
  BY <1>1, ActedSteady
<1>3. PICK g \in Seq(ChatMessage) : q.history = r.history \o g /\ Turnless(g)
  BY <1>1, ActedHistory
<1>4. /\ \/ q.seen = r.seen
         \/ \E text \in Texts : /\ \A s \in r.seen : s.text # text
                                /\ q.seen = r.seen \cup {[text |-> text, step |-> r.step]}
  BY <1>1, ActedSeen
<1>5. Remembered(q)
  <2>1. \A s \in r.seen : s.step < r.step /\ s.step \in Nat
    BY <1>1, RunnerFields DEF Steady, Sightings, Remembered
  <2>2. \A s, u \in r.seen : s.step = u.step => s.text = u.text
    BY <1>1 DEF Remembered
  <2>3. CASE q.seen = r.seen
    BY <1>1, <1>2, <2>1, <2>2, <2>3 DEF Remembered
  <2>4. CASE \E text \in Texts : q.seen = r.seen \cup {[text |-> text, step |-> r.step]}
    <3>1. PICK text \in Texts : q.seen = r.seen \cup {[text |-> text, step |-> r.step]}
      BY <2>4
    <3> DEFINE new == [text |-> text, step |-> r.step]
    <3>2. new.step = r.step
      OBVIOUS
    <3> HIDE DEF new
    <3>3. q.seen = r.seen \cup {new}
      BY <3>1 DEF new
    <3> QED
      BY <1>1, <1>2, <2>1, <2>2, <3>2, <3>3 DEF Remembered
  <2> QED
    BY <1>4, <2>3, <2>4
<1> DEFINE h == r.history
<1>6. h \in Histories /\ h \in Seq(ChatMessage) /\ q.history = h \o g
  BY <1>1, <1>3 DEF Histories
<1>7. Numbered(r) <=> (Mark(h) = "findings" => Turns(h) = r.step)
  BY DEF Numbered
<1> HIDE DEF h
<1>8. Mark(h \o g) = Mark(h) /\ Turns(h \o g) = Turns(h)
  BY <1>3, <1>6, MarkJoin, TurnsJoin
<1>9. Mark(q.history) = Mark(h) /\ Turns(q.history) = Turns(h)
  BY <1>6, <1>8
<1>10. Numbered(q)
  BY <1>1, <1>2, <1>7, <1>9 DEF Numbered
<1>11. Mark(q.history) = Mark(r.history)
  BY <1>9 DEF h
<1> QED
  BY <1>2, <1>5, <1>10, <1>11 DEF Sound

\* A rendered text is known by its message: shown, it is there; not shown, the
\* step it was first shown at is.
LEMMA RenderedSame ==
    ASSUME NEW r, Steady(r), Remembered(r), NEW a \in Texts, NEW b \in Texts, NEW n \in Nat,
           NEW how \in {"summary", "extract"}, NEW way \in {"summary", "extract"},
           Rendered(r, a, how, n) = Rendered(r, b, way, n)
    PROVE  a = b
<1> DEFINE base == n * (MaxLimit + 1)
           Known(x) == \E s \in r.seen : s.text = x
           First(x) == CHOOSE s \in r.seen : s.text = x
<1>1. base \in Nat
  BY ReplayAssumption
<1>2. \A s \in r.seen : s.step \in Nat
  BY RunnerFields DEF Steady, Sightings
<1>3. ASSUME NEW x \in Texts, NEW w \in {"summary", "extract"}
      PROVE  /\ Known(x) => /\ First(x) \in r.seen /\ First(x).text = x
                            /\ Rendered(r, x, w, n).text = <<"identical", NoText, base + First(x).step>>
             /\ ~Known(x) => \E note \in {"summary", "extract", "shown"} :
                                 Rendered(r, x, w, n).text = <<note, x, n>>
  <2>1. CASE Known(x)
    <3>1. First(x) \in r.seen /\ First(x).text = x
      BY <2>1
    <3>2. Rendered(r, x, w, n)
              = Answer(Primary(r), "identical", NoText, n * (MaxLimit + 1) + First(x).step)
      BY <2>1 DEF Rendered
    <3> HIDE DEF First
    <3>3. Rendered(r, x, w, n).text = <<"identical", NoText, base + First(x).step>>
      BY <3>2 DEF Answer, Msg
    <3> QED
      BY <2>1, <3>1, <3>3
  <2>2. CASE ~Known(x)
    <3>1. Rendered(r, x, w, n) = Answer(Primary(r), IF x \in LongTexts THEN w ELSE "shown", x, n)
      BY <2>2 DEF Rendered
    <3>2. Rendered(r, x, w, n).text = <<IF x \in LongTexts THEN w ELSE "shown", x, n>>
      BY <3>1 DEF Answer, Msg
    <3> QED
      BY <2>2, <3>2
  <2> QED
    BY <2>1, <2>2
<1> HIDE DEF base, Known, First
<1>4. CASE Known(a) /\ Known(b)
  <2>1. /\ First(a) \in r.seen /\ First(a).text = a /\ First(b) \in r.seen /\ First(b).text = b
        /\ base + First(a).step = base + First(b).step
    BY <1>3, <1>4
  <2>2. First(a).step = First(b).step
    BY <1>1, <1>2, <2>1
  <2> QED
    BY <2>1, <2>2 DEF Remembered
<1>5. CASE Known(a) /\ ~Known(b)
  <2>1. PICK note \in {"summary", "extract", "shown"} :
            <<"identical", NoText, base + First(a).step>> = <<note, b, n>>
    BY <1>3, <1>5
  <2> QED
    BY <2>1
<1>6. CASE ~Known(a) /\ Known(b)
  <2>1. PICK note \in {"summary", "extract", "shown"} :
            <<"identical", NoText, base + First(b).step>> = <<note, a, n>>
    BY <1>3, <1>6
  <2> QED
    BY <2>1
<1>7. CASE ~Known(a) /\ ~Known(b)
  <2>1. PICK note \in {"summary", "extract", "shown"} : Rendered(r, a, how, n).text = <<note, a, n>>
    BY <1>3, <1>7
  <2>2. PICK other \in {"summary", "extract", "shown"} : Rendered(r, b, way, n).text = <<other, b, n>>
    BY <1>3, <1>7
  <2> QED
    BY <2>1, <2>2
<1> QED
  BY <1>4, <1>5, <1>6, <1>7

LEMMA NudgedSame ==
    ASSUME NEW r, Act(r) = "nudge", NEW t, NEW u, NEW how, NEW way
    PROVE  Acted(r, t, how) = Acted(r, u, way)
<1>1. Acted(r, t, how) = [r EXCEPT !.pc = "request", !.history = Append(@, Said("nudge", NoText))]
  BY ActedNudge
<1>2. Acted(r, u, way) = [r EXCEPT !.pc = "request", !.history = Append(@, Said("nudge", NoText))]
  BY ActedNudge
<1> QED
  BY <1>1, <1>2

\* Two acts of one runner that leave the same history leave the same runner.
LEMMA ActedSame ==
    ASSUME NEW r, Sound(r), r.pc = "act", Act(r) # "judge", NEW t \in Texts, NEW u \in Texts,
           NEW how \in {"summary", "extract"}, NEW way \in {"summary", "extract"},
           Acted(r, t, how).history = Acted(r, u, way).history
    PROVE  Acted(r, t, how) = Acted(r, u, way)
<1>1. Steady(r) /\ Remembered(r)
  BY DEF Sound
<1>2. CASE Act(r) = "nudge"
  BY <1>2, NudgedSame
<1>3. CASE Act(r) # "nudge"
  <2>1. Calls(r) # <<>> /\ Primary(r) \in Part
    BY <1>1, <1>3, ActCases, CallsTyped
  <2>2. ASSUME NEW m, Len(ActEvents(r, t)) = Len(ActEvents(r, u))
        PROVE  Saying(r, t, m) = Saying(r, u, m)
    BY <2>2 DEF Saying, After
  <2>3. CASE Act(r) = "reject"
    <3>1. ActEvents(r, t) = ActEvents(r, u)
      BY <2>3, ActEventsAre DEF OwnEvents
    <3> QED
      BY <2>2, <2>3, <3>1, ActedReject
  <2>4. CASE Act(r) = "over_budget"
    <3>1. ActEvents(r, t) = ActEvents(r, u)
      BY <2>4, ActEventsAre DEF OwnEvents
    <3> QED
      BY <2>2, <2>4, <3>1, ActedOver
  <2>5. CASE Act(r) \in {"refuse", "write", "exec"}
    <3> DEFINE a == ResultText(r, t)
               b == ResultText(r, u)
               n == r.seq + Len(Extras(r)) + 2
               ma == Rendered(r, a, how, n)
               mb == Rendered(r, b, way, n)
               pa == Saying(r, t, ma)
               pb == Saying(r, u, mb)
    <3>1. a \in Texts /\ b \in Texts /\ n \in Nat
      BY <1>1, <2>1, ResultTyped, ExtrasTyped, RunnerFields DEF Steady
    <3>2. ma \in ChatMessage /\ mb \in ChatMessage
      BY <1>1, <2>1, <3>1, RenderedTyped
    <3>3. Acted(r, t, how) = Settled(pa, r, a, n) /\ Acted(r, u, way) = Settled(pb, r, b, n)
      BY <2>5, ActedSettled
    <3>4. Len(ActEvents(r, t)) = Len(ActEvents(r, u))
      BY <1>1, <2>5, ActEventsTyped
    <3>5. ma = mb => a = b
      BY <1>1, <3>1, RenderedSame
    <3> HIDE DEF ma, mb, a, b, n
    <3> DEFINE front == r.history \o ExtraAnswers(r)
    <3>6. /\ pa \in Runner /\ pa.history = Append(front, ma)
          /\ pb \in Runner /\ pb.history = Append(front, mb)
      BY <1>1, <2>1, <3>2, SayingTyped
    <3>7. front \in Seq(ChatMessage)
      <4>1. r.history \in Seq(ChatMessage) /\ ExtraAnswers(r) \in Seq(ChatMessage)
        BY <1>1, <2>1, ExtrasTyped, RunnerFields DEF Steady, Histories
      <4> QED
        BY <4>1
    <3>8. pa = Saying(r, u, ma) 
      BY <2>2, <3>4
    <3> HIDE DEF pa, pb, front
    <3>9. Acted(r, t, how).history = pa.history /\ Acted(r, u, way).history = pb.history
      BY <3>3, <3>6 DEF Runner, Settled
    <3>10. Append(front, ma) = Append(front, mb)
      BY <3>6, <3>9
    <3>11. ma = mb
      BY <3>2, <3>7, <3>10
    <3>12. pa = pb
      BY <3>8, <3>11 DEF pb
    <3> QED
      BY <3>3, <3>5, <3>11, <3>12
  <2> QED
    BY <1>3, <2>3, <2>4, <2>5, ActCases DEF Acts
<1> QED
  BY <1>2, <1>3

\* An act that is not the judge's, whatever the run's policy.
Went(r, t, how) ==
    LET text == ResultText(r, t)
        n == r.seq + Len(Extras(r)) + 2
    IN  IF Act(r) = "nudge"
        THEN [r EXCEPT !.pc = "request", !.history = Append(@, Said("nudge", NoText))]
        ELSE IF Act(r) = "reject" THEN Saying(r, t, Answer(Primary(r), "rejected", NoText, 0))
        ELSE IF Act(r) = "over_budget"
        THEN [Saying(r, t, Answer(Primary(r), "over_budget", NoText, 0)) EXCEPT !.stale = @ + 1]
        ELSE Settled(Saying(r, t, Rendered(r, text, how, n)), r, text, n)

LEMMA WentIs ==
    ASSUME NEW r, Act(r) # "judge", NEW t, NEW how
    PROVE  Acted(r, t, how) = Went(r, t, how)
<1>1. CASE Act(r) = "nudge"
  <2>1. Acted(r, t, how) = [r EXCEPT !.pc = "request", !.history = Append(@, Said("nudge", NoText))]
    BY <1>1, ActedNudge
  <2>2. Went(r, t, how) = [r EXCEPT !.pc = "request", !.history = Append(@, Said("nudge", NoText))]
    BY <1>1 DEF Went
  <2> QED
    BY <2>1, <2>2
<1>2. CASE Act(r) = "reject"
  BY <1>2, ActedReject DEF Went
<1>3. CASE Act(r) = "over_budget"
  BY <1>3, ActedOver DEF Went
<1>4. CASE Act(r) \in {"refuse", "write", "exec"}
  BY <1>4, ActedSettled DEF Went
<1> QED
  BY <1>1, <1>2, <1>3, <1>4, ActCases DEF Acts

LEMMA NudgedGoesOn ==
    ASSUME NEW r \in Runner, Act(r) = "nudge", NEW t, NEW how, NEW q, q = Acted(r, t, how)
    PROVE  q.pc = "request" /\ q.outcome = r.outcome
<1>1. Acted(r, t, how) = [r EXCEPT !.pc = "request", !.history = Append(@, Said("nudge", NoText))]
  BY ActedNudge
<1> DEFINE history == Append(r.history, Said("nudge", NoText))
<1>2. q = [r EXCEPT !.pc = "request", !.history = history]
  BY <1>1
<1> HIDE DEF history
<1> QED
  BY <1>2 DEF Runner

LEMMA ActedGoesOn ==
    ASSUME NEW r, Steady(r), r.pc = "act", Act(r) # "judge", NEW t \in Texts,
           NEW how \in {"summary", "extract"}, NEW q, q = Acted(r, t, how)
    PROVE  q.pc = "request" /\ q.outcome = r.outcome
<1>1. r \in Runner
  BY DEF Steady
<1>2. CASE Act(r) = "nudge"
  BY <1>1, <1>2, NudgedGoesOn
<1>3. CASE Act(r) # "nudge"
  <2>1. Calls(r) # <<>> /\ Primary(r) \in Part
    BY <1>3, ActCases, CallsTyped
  <2>2. "rejected" \in Notes /\ "over_budget" \in Notes /\ 0 \in Nat
    BY DEF Notes
  <2>3. CASE Act(r) = "reject"
    <3> DEFINE message == Answer(Primary(r), "rejected", NoText, 0)
    <3>1. message \in ChatMessage
      BY <2>1, <2>2, MessagesTyped, TextsTyped
    <3>2. q = Saying(r, t, message)
      BY <2>3, ActedReject
    <3> HIDE DEF message
    <3> QED
      BY <2>1, <3>1, <3>2, SayingTyped
  <2>5. CASE Act(r) = "over_budget"
    <3> DEFINE message == Answer(Primary(r), "over_budget", NoText, 0)
               p == Saying(r, t, message)
    <3>1. message \in ChatMessage
      BY <2>1, <2>2, MessagesTyped, TextsTyped
    <3>2. q = [p EXCEPT !.stale = p.stale + 1]
      BY <2>5, ActedOver
    <3> HIDE DEF message
    <3>3. p \in Runner /\ p.pc = "request" /\ p.outcome = r.outcome
      BY <2>1, <3>1, SayingTyped
    <3> HIDE DEF p
    <3> QED
      BY <3>2, <3>3 DEF Runner
  <2>6. CASE Act(r) \in {"refuse", "write", "exec"}
    <3> DEFINE text == ResultText(r, t)
               n == r.seq + Len(Extras(r)) + 2
               message == Rendered(r, text, how, n)
               p == Saying(r, t, message)
    <3>1. text \in Texts /\ n \in Nat
      BY <1>1, <2>1, ResultTyped, ExtrasTyped, RunnerFields
    <3>2. message \in ChatMessage
      BY <2>1, <3>1, RenderedTyped
    <3>3. q = Settled(p, r, text, n)
      BY <2>6, ActedSettled
    <3> HIDE DEF message
    <3>4. p \in Runner /\ p.pc = "request" /\ p.outcome = r.outcome
      BY <2>1, <3>2, SayingTyped
    <3> HIDE DEF p, n, text
    <3> QED
      BY <3>3, <3>4 DEF Runner, Settled
  <2> QED
    BY <1>3, <2>3, <2>5, <2>6, ActCases DEF Acts
<1> QED
  BY <1>2, <1>3

LEMMA WentSound ==
    ASSUME NEW r, Sound(r), r.pc = "act", Act(r) # "judge", NEW t \in Texts,
           NEW how \in {"summary", "extract"}, NEW q, q = Went(r, t, how)
    PROVE  /\ Sound(q) /\ q.pc = "request" /\ q.step = r.step /\ q.outcome = r.outcome
           /\ Mark(q.history) = Mark(r.history)
<1>1. q = Acted(r, t, how)
  BY WentIs
<1>2. Steady(r)
  BY DEF Sound
<1>3. Sound(q) /\ q.step = r.step /\ Mark(q.history) = Mark(r.history)
  BY <1>1, ActSound
<1>4. q.pc = "request" /\ q.outcome = r.outcome
  BY <1>1, <1>2, ActedGoesOn
<1> QED
  BY <1>3, <1>4

LEMMA WentSame ==
    ASSUME NEW r, Sound(r), r.pc = "act", Act(r) # "judge", NEW t \in Texts, NEW u \in Texts,
           NEW how \in {"summary", "extract"}, NEW way \in {"summary", "extract"},
           Went(r, t, how).history = Went(r, u, way).history
    PROVE  Went(r, t, how) = Went(r, u, way)
<1>1. Acted(r, t, how) = Went(r, t, how)
  BY WentIs
<1>2. Acted(r, u, way) = Went(r, u, way)
  BY WentIs
<1>3. Acted(r, t, how).history = Acted(r, u, way).history
  BY <1>1, <1>2
<1>4. Acted(r, t, how) = Acted(r, u, way)
  BY <1>3, ActedSame
<1> QED
  BY <1>1, <1>2, <1>4

\* The judge's act, under a policy.
Verdict(policy, rederived) ==
    CASE policy = "auto" -> "solved"
      [] policy = "strict" -> "candidate"
      [] OTHER -> IF rederived THEN "solved" ELSE "candidate"

LEMMA JudgedIs ==
    ASSUME NEW r, Steady(r), r.pc = "act", Act(r) = "judge", NEW t \in Texts, NEW how,
           NEW q, q = Acted(r, t, how)
    PROVE  /\ q.pc = "ended" /\ q.step = r.step /\ q.history = r.history \o ExtraAnswers(r)
           /\ q.outcome = Verdict(config.policy, t \in FlagTexts)
           /\ q.outcome \in {"solved", "candidate"}
<1> DEFINE p == After(r, t)
           outcome == Decision(t \in FlagTexts)
<1>1. Calls(r) # <<>>
  BY ActCases
<1>2. p \in Runner /\ p.history = r.history \o ExtraAnswers(r) /\ p.step = r.step
  BY <1>1, AfterTyped
<1>3. q = [p EXCEPT !.pc = "ended", !.outcome = outcome]
  BY ActedJudge
<1>4. outcome = Verdict(config.policy, t \in FlagTexts) /\ outcome \in {"solved", "candidate"}
  BY DEF Decision, Verdict
<1> HIDE DEF p, outcome
<1> QED
  BY <1>2, <1>3, <1>4 DEF Runner

-----------------------------------------------------------------------------
(* The story of a recording: where it stood before each of its requests.       *)

Moment == [run : Runner, trace : Seq(Events), execs : Seq(Texts)]

\* The runner with the completion of its next request.
Heeded(r, parts) == Heard(Request(r, "summary"), Completion(parts))

Ready(b, k) ==
    /\ Sound(b.run) /\ b.run.pc = "request" /\ b.run.step = k - 1 /\ b.run.outcome = "none"
    /\ Mark(b.run.history) \in {"findings", "summary"}

Leads(a, b) == Len(a) <= Len(b) /\ \A i \in 1 .. Len(a) : a[i] = b[i]

Begun(b, cs) ==
    \E findings \in Texts :
        /\ b.run = NewRun(findings) /\ b.execs = <<>>
        /\ b.trace = <<Event("triage.result", NoCall, TraceText(findings))>>
        /\ "altered" \notin cs => TraceText(findings) = findings

\* The request r makes; without a summary it is the whole history.
Asks(r, ask, level, cs) ==
    /\ ask = [messages |-> Compacted("summary", r.history), thinking |-> level]
    /\ "summary" \notin cs => ~Compactable(r.history, MaxMessages)

\* p acts on what the sandbox answers, t, and c is what comes of it.
Ran(p, t, b, c, cs) ==
    /\ c.run = Went(p, t, "summary") /\ c.trace = b.trace \o ActEvents(p, t)
    /\ c.execs = IF UsesSandbox(p) THEN Append(b.execs, t) ELSE b.execs
    /\ UsesSandbox(p) \/ t = NoText
    /\ "altered" \notin cs => TraceText(t) = t
    /\ "summary" \notin cs => Went(p, t, "summary") = Went(p, t, "extract")

Passed(b, c, parts, cs) ==
    /\ Act(Heeded(b.run, parts)) # "judge"
    /\ \E t \in Texts : Ran(Heeded(b.run, parts), t, b, c, cs)

Recounts(bs, asks, said, xs, level, cs) ==
    /\ bs \in Seq(Moment) /\ bs # <<>> /\ Len(bs) \in {Len(asks), Len(asks) + 1}
    /\ asks \in Seq(Requests) /\ said \in Seq(Seq(Part)) /\ Len(said) = Len(asks)
    /\ Begun(bs[1], cs)
    /\ \A k \in 1 .. Len(bs) : Ready(bs[k], k) /\ Leads(bs[k].execs, xs)
    /\ \A k \in 1 .. Len(asks) : Asks(bs[k].run, asks[k], level, cs)
    /\ \A k \in 1 .. Len(bs) - 1 : Passed(bs[k], bs[k + 1], said[k], cs)

LEMMA LeadsOn ==
    ASSUME NEW S, NEW a \in Seq(S), NEW b \in Seq(S), NEW c \in Seq(S), Leads(a, b), Leads(b, c)
    PROVE  Leads(a, c)
  BY DEF Leads

LEMMA LeadsAppend ==
    ASSUME NEW S, NEW a \in Seq(S), NEW e \in S
    PROVE  Leads(a, Append(a, e)) /\ Leads(a, a)
  BY DEF Leads

\* More causes and more results take nothing back.
LEMMA RecountsKept ==
    ASSUME NEW bs, NEW asks, NEW said, NEW xs \in Seq(Texts), NEW level, NEW cs,
           Recounts(bs, asks, said, xs, level, cs),
           NEW ys \in Seq(Texts), Leads(xs, ys), NEW ds, cs \subseteq ds
    PROVE  Recounts(bs, asks, said, ys, level, ds)
<1>1. Begun(bs[1], ds)
  <2>1. Begun(bs[1], cs)
    BY DEF Recounts
  <2> QED
    BY <2>1 DEF Begun
<1>2. ASSUME NEW k \in 1 .. Len(bs) PROVE Ready(bs[k], k) /\ Leads(bs[k].execs, ys)
  <2>1. Ready(bs[k], k) /\ Leads(bs[k].execs, xs) /\ bs[k] \in Moment
    BY DEF Recounts
  <2>2. bs[k].execs \in Seq(Texts)
    BY <2>1 DEF Moment
  <2> QED
    BY <2>1, <2>2, LeadsOn
<1>3. ASSUME NEW k \in 1 .. Len(asks) PROVE Asks(bs[k].run, asks[k], level, ds)
  <2>1. Asks(bs[k].run, asks[k], level, cs)
    BY DEF Recounts
  <2> QED
    BY <2>1 DEF Asks
<1>4. ASSUME NEW k \in 1 .. Len(bs) - 1 PROVE Passed(bs[k], bs[k + 1], said[k], ds)
  <2>1. Passed(bs[k], bs[k + 1], said[k], cs)
    BY DEF Recounts
  <2> HIDE DEF Heeded
  <2>2. PICK t \in Texts : Ran(Heeded(bs[k].run, said[k]), t, bs[k], bs[k + 1], cs)
    BY <2>1 DEF Passed
  <2>3. Ran(Heeded(bs[k].run, said[k]), t, bs[k], bs[k + 1], ds)
    BY <2>2 DEF Ran
  <2> QED
    BY <2>1, <2>3 DEF Passed
<1> QED
  BY <1>1, <1>2, <1>3, <1>4 DEF Recounts

\* One more request.
LEMMA RecountsAsked ==
    ASSUME NEW bs, NEW asks, NEW said, NEW xs, NEW level, NEW cs,
           Recounts(bs, asks, said, xs, level, cs), Len(bs) = Len(asks) + 1,
           NEW ask \in Requests, NEW parts \in Seq(Part), Asks(bs[Len(bs)].run, ask, level, cs)
    PROVE  /\ Recounts(bs, Append(asks, ask), Append(said, parts), xs, level, cs)
           /\ Append(said, parts)[Len(bs)] = parts /\ Len(Append(asks, ask)) = Len(bs)
<1> DEFINE wants == Append(asks, ask)
           heeds == Append(said, parts)
<1>1. /\ bs \in Seq(Moment) /\ bs # <<>> /\ Len(bs) = Len(asks) + 1
      /\ asks \in Seq(Requests) /\ said \in Seq(Seq(Part)) /\ Len(said) = Len(asks)
      /\ Begun(bs[1], cs)
      /\ \A k \in 1 .. Len(bs) : Ready(bs[k], k) /\ Leads(bs[k].execs, xs)
      /\ \A k \in 1 .. Len(asks) : Asks(bs[k].run, asks[k], level, cs)
      /\ \A k \in 1 .. Len(bs) - 1 : Passed(bs[k], bs[k + 1], said[k], cs)
  BY DEF Recounts
<1>2. /\ wants \in Seq(Requests) /\ Len(wants) = Len(asks) + 1 /\ wants[Len(bs)] = ask
      /\ \A k \in 1 .. Len(asks) : wants[k] = asks[k]
  BY <1>1
<1>3. /\ heeds \in Seq(Seq(Part)) /\ Len(heeds) = Len(asks) + 1 /\ heeds[Len(bs)] = parts
      /\ \A k \in 1 .. Len(asks) : heeds[k] = said[k]
  <2> DEFINE P == Seq(Part)
  <2>1. said \in Seq(P) /\ parts \in P
    BY <1>1
  <2> HIDE DEF P
  <2> QED
    BY <1>1, <2>1 DEF P
<1> HIDE DEF wants, heeds
<1>4. \A k \in 1 .. Len(wants) : Asks(bs[k].run, wants[k], level, cs)
  <2> SUFFICES ASSUME NEW k \in 1 .. Len(wants) PROVE Asks(bs[k].run, wants[k], level, cs)
    OBVIOUS
  <2>1. CASE k = Len(bs)
    BY <1>2, <2>1
  <2>2. CASE k # Len(bs)
    <3>1. k \in 1 .. Len(asks)
      BY <1>1, <1>2, <2>2
    <3> QED
      BY <1>1, <1>2, <3>1
  <2> QED
    BY <2>1, <2>2
<1>5. \A k \in 1 .. Len(bs) - 1 : Passed(bs[k], bs[k + 1], heeds[k], cs)
  <2> SUFFICES ASSUME NEW k \in 1 .. Len(bs) - 1 PROVE Passed(bs[k], bs[k + 1], heeds[k], cs)
    OBVIOUS
  <2>1. k \in 1 .. Len(asks) /\ heeds[k] = said[k]
    BY <1>1, <1>3
  <2> QED
    BY <1>1, <2>1
<1>6. Len(bs) = Len(wants)
  BY <1>1, <1>2
<1>7. Recounts(bs, wants, heeds, xs, level, cs)
  BY <1>1, <1>2, <1>3, <1>4, <1>5, <1>6 DEF Recounts
<1> QED
  BY <1>3, <1>6, <1>7 DEF wants, heeds

\* One more step.
LEMMA RecountsWent ==
    ASSUME NEW bs, NEW asks, NEW said, NEW xs, NEW level, NEW cs,
           Recounts(bs, asks, said, xs, level, cs), Len(bs) = Len(asks),
           NEW c \in Moment, Ready(c, Len(bs) + 1), Leads(c.execs, xs),
           Passed(bs[Len(bs)], c, said[Len(bs)], cs)
    PROVE  /\ Recounts(Append(bs, c), asks, said, xs, level, cs)
           /\ Len(Append(bs, c)) = Len(asks) + 1 /\ Append(bs, c)[Len(asks) + 1] = c
<1> DEFINE ds == Append(bs, c)
<1>1. /\ bs \in Seq(Moment) /\ bs # <<>> /\ Len(bs) = Len(asks)
      /\ asks \in Seq(Requests) /\ said \in Seq(Seq(Part)) /\ Len(said) = Len(asks)
      /\ Begun(bs[1], cs)
      /\ \A k \in 1 .. Len(bs) : Ready(bs[k], k) /\ Leads(bs[k].execs, xs)
      /\ \A k \in 1 .. Len(asks) : Asks(bs[k].run, asks[k], level, cs)
      /\ \A k \in 1 .. Len(bs) - 1 : Passed(bs[k], bs[k + 1], said[k], cs)
  BY DEF Recounts
<1>2. /\ ds \in Seq(Moment) /\ Len(ds) = Len(bs) + 1 /\ ds[Len(bs) + 1] = c /\ ds # <<>>
      /\ \A k \in 1 .. Len(bs) : ds[k] = bs[k]
      /\ Len(bs) \in Nat /\ Len(bs) >= 1
  BY <1>1
<1> HIDE DEF ds
<1>3. Begun(ds[1], cs)
  BY <1>1, <1>2
<1>4. \A k \in 1 .. Len(ds) : Ready(ds[k], k) /\ Leads(ds[k].execs, xs)
  <2> SUFFICES ASSUME NEW k \in 1 .. Len(ds) PROVE Ready(ds[k], k) /\ Leads(ds[k].execs, xs)
    OBVIOUS
  <2>1. k \in 1 .. Len(bs) \/ k = Len(bs) + 1
    BY <1>2
  <2> QED
    BY <1>1, <1>2, <2>1
<1>5. \A k \in 1 .. Len(asks) : Asks(ds[k].run, asks[k], level, cs)
  BY <1>1, <1>2
<1>6. \A k \in 1 .. Len(ds) - 1 : Passed(ds[k], ds[k + 1], said[k], cs)
  <2> SUFFICES ASSUME NEW k \in 1 .. Len(ds) - 1 PROVE Passed(ds[k], ds[k + 1], said[k], cs)
    OBVIOUS
  <2>1. CASE k = Len(bs)
    BY <1>2, <2>1
  <2>2. CASE k # Len(bs)
    <3>1. k \in 1 .. Len(bs) - 1 /\ k \in 1 .. Len(bs) /\ k + 1 \in 1 .. Len(bs)
      BY <1>2, <2>2
    <3>2. ds[k] = bs[k] /\ ds[k + 1] = bs[k + 1]
      BY <1>2, <3>1
    <3> QED
      BY <1>1, <3>1, <3>2
  <2> QED
    BY <2>1, <2>2
<1>7. Recounts(ds, asks, said, xs, level, cs)
  BY <1>1, <1>2, <1>3, <1>4, <1>5, <1>6 DEF Recounts
<1> QED
  BY <1>1, <1>2, <1>7 DEF ds

LEMMA HeededReady ==
    ASSUME NEW b, NEW k \in Nat \ {0}, Ready(b, k), NEW parts \in Seq(Part),
           NEW p, p = Heeded(b.run, parts)
    PROVE  /\ Sound(p) /\ p.pc = "act" /\ p.step = k /\ p.outcome = "none"
           /\ Mark(p.history) \in {"findings", "summary"}
           /\ p.history = Append(Compacted("summary", b.run.history), Turn(Completion(parts)))
           /\ Compacted("summary", b.run.history) \in Histories
           /\ Mark(Compacted("summary", b.run.history)) \in {"findings", "summary"}
<1> DEFINE r == b.run
           said == Completion(parts)
           asking == Request(r, "summary")
<1>1. /\ Sound(r) /\ r.pc = "request" /\ r.step = k - 1 /\ r.outcome = "none"
      /\ Mark(r.history) \in {"findings", "summary"} /\ said \in Completions
  BY CompletionTyped DEF Ready
<1>2. p = Heard(asking, said)
  BY DEF Heeded
<1> HIDE DEF r, said, asking, Sound
<1>3. /\ Sound(p) /\ p.pc = "act" /\ p.step = r.step + 1
      /\ p.history = Append(asking.history, Turn(said))
      /\ asking.history = Compacted("summary", r.history)
      /\ asking.history \in Histories
      /\ Mark(p.history) = Mark(asking.history)
  BY <1>1, <1>2, AskSound DEF asking
<1>4. Steady(r) /\ r.history \in Histories
  BY <1>1, RunnerFields DEF Sound, Steady
<1>5. Steady(asking) /\ asking.step = r.step + 1 /\ asking.stale = r.stale
      /\ asking.outcome = r.outcome
  BY <1>1, <1>4, RequestSteady DEF asking
<1>6. asking.stale < asking.step
  <2>1. r.stale \in Nat /\ r.step \in Nat /\ r.stale <= r.step
    BY <1>4, RunnerFields DEF Steady
  <2> QED
    BY <1>5, <2>1
<1>7. p.outcome = r.outcome
  <2>1. p.outcome = asking.outcome
    BY <1>1, <1>2, <1>5, <1>6, HeardSteady
  <2> QED
    BY <1>5, <2>1
<1>8. Mark(asking.history) \in {"findings", "summary"}
  <2>1. IF Compactable(r.history, MaxMessages) THEN Mark(asking.history) = "summary"
        ELSE asking.history = r.history
    BY <1>3, <1>4, CompactedMark
  <2> QED
    BY <1>1, <2>1
<1> QED
  BY <1>1, <1>3, <1>7, <1>8 DEF r, said

\* A result that is not summarised is shown the same either way.
LEMMA WentEither ==
    ASSUME NEW r, Act(r) # "judge", NEW t,
           ~(Act(r) = "exec" /\ t \in LongTexts /\ ~\E s \in r.seen : s.text = t)
    PROVE  Went(r, t, "summary") = Went(r, t, "extract")
<1> DEFINE text == ResultText(r, t)
           n == r.seq + Len(Extras(r)) + 2
<1>1. CASE Act(r) \in {"nudge", "reject", "over_budget"}
  BY <1>1, Zenon DEF Went
<1>2. CASE Act(r) \notin {"nudge", "reject", "over_budget"}
  <2>1. Act(r) \in {"refuse", "write", "exec"}
    BY <1>2, ActCases DEF Acts
  <2>2. text \in LongTexts => \E s \in r.seen : s.text = text
    <3>1. CASE Act(r) = "exec"
      BY <3>1 DEF ResultText
    <3>2. CASE Act(r) # "exec"
      <4>1. text \in {Refusal, Written}
        BY <2>1, <3>2 DEF ResultText
      <4> QED
        BY <4>1, ToolAssumption
    <3> QED
      BY <3>1, <3>2
  <2> HIDE DEF text, n
  <2>3. Rendered(r, text, "summary", n) = Rendered(r, text, "extract", n)
    BY <2>2, Zenon DEF Rendered
  <2>4. Went(r, t, "summary") = Settled(Saying(r, t, Rendered(r, text, "summary", n)), r, text, n)
    BY <1>2 DEF Went, text, n
  <2>5. Went(r, t, "extract") = Settled(Saying(r, t, Rendered(r, text, "extract", n)), r, text, n)
    BY <1>2 DEF Went, text, n
  <2> QED
    BY <2>3, <2>4, <2>5
<1> QED
  BY <1>1, <1>2, ActCases DEF Acts

\* Where a recording stands in its story.
AtRequest(bs, asks, r, tr, xs) ==
    LET b == bs[Len(bs)] IN
    /\ r.pc = "request" /\ Len(bs) = Len(asks) + 1
    /\ b.run = r /\ b.trace = tr /\ b.execs = xs

AtAct(bs, asks, said, r, tr, xs) ==
    LET b == bs[Len(bs)] IN
    /\ r.pc = "act" /\ Len(bs) = Len(asks) /\ r = Heeded(b.run, said[Len(bs)])
    /\ b.trace = tr /\ b.execs = xs

LEMMA ActRetold ==
    ASSUME NEW bs, NEW asks, NEW said, NEW xs \in Seq(Texts), NEW level, NEW cs,
           Recounts(bs, asks, said, xs, level, cs),
           NEW r, NEW tr \in Seq(Events), AtAct(bs, asks, said, r, tr, xs),
           NEW t \in Texts, Act(r) # "judge", UsesSandbox(r) \/ t = NoText,
           NEW ds, cs \subseteq ds, "altered" \notin ds => TraceText(t) = t,
           "summary" \notin ds => Went(r, t, "summary") = Went(r, t, "extract"),
           NEW q, q = Acted(r, t, "summary"),
           NEW ys, ys = IF UsesSandbox(r) THEN Append(xs, t) ELSE xs
    PROVE  \E es : /\ Recounts(es, asks, said, ys, level, ds)
                   /\ AtRequest(es, asks, q, tr \o ActEvents(r, t), ys)
<1> DEFINE n == Len(bs)
           b == bs[n]
           c == [run |-> q, trace |-> tr \o ActEvents(r, t), execs |-> ys]
<1> HIDE DEF Went, Sound, Heeded
<1>1. /\ n \in Nat \ {0} /\ b \in Moment /\ Ready(b, n) /\ Len(asks) = n
      /\ said[n] \in Seq(Part) /\ r = Heeded(b.run, said[n]) /\ b.trace = tr /\ b.execs = xs
      /\ r.pc = "act"
  <2>1. /\ bs \in Seq(Moment) /\ bs # <<>> /\ Len(asks) = n /\ Len(said) = Len(asks)
        /\ said \in Seq(Seq(Part)) /\ (\A k \in 1 .. Len(bs) : Ready(bs[k], k))
        /\ r.pc = "act" /\ r = Heeded(b.run, said[n]) /\ b.trace = tr /\ b.execs = xs
    BY DEF Recounts, AtAct
  <2>2. n \in Nat \ {0} /\ n \in 1 .. Len(bs) /\ n \in 1 .. Len(said)
    BY <2>1
  <2>3. said[n] \in Seq(Part)
    <3> DEFINE P == Seq(Part)
    <3>1. said \in Seq(P)
      BY <2>1
    <3> HIDE DEF P
    <3>2. said[n] \in P
      BY <2>2, <3>1
    <3> QED
      BY <3>2 DEF P
  <2> QED
    BY <2>1, <2>2, <2>3
<1> HIDE DEF n, b
<1>2. /\ Sound(r) /\ r.pc = "act" /\ r.step = n /\ r.outcome = "none"
      /\ Mark(r.history) \in {"findings", "summary"}
  BY <1>1, HeededReady
<1>3. q = Went(r, t, "summary")
  BY WentIs
<1>4. /\ Sound(q) /\ q.pc = "request" /\ q.step = n /\ q.outcome = "none"
      /\ Mark(q.history) \in {"findings", "summary"}
  BY <1>2, <1>3, WentSound
<1>5. ys \in Seq(Texts) /\ Leads(xs, ys) /\ Leads(ys, ys)
  <2>1. Append(xs, t) \in Seq(Texts)
    OBVIOUS
  <2>2. Leads(xs, Append(xs, t)) /\ Leads(xs, xs)
    BY LeadsAppend
  <2>3. ys \in Seq(Texts)
    BY <2>1
  <2>4. Leads(ys, ys)
    BY <2>3 DEF Leads
  <2> QED
    BY <2>2, <2>3, <2>4
<1>6. /\ c \in Moment /\ c.run = q /\ c.trace = tr \o ActEvents(r, t) /\ c.execs = ys
  <2>1. ActEvents(r, t) \in Seq(Events)
    BY <1>2, ActEventsTyped DEF Sound
  <2>2. tr \o ActEvents(r, t) \in Seq(Events)
    BY <2>1
  <2>3. q \in Runner
    BY <1>4 DEF Sound, Steady
  <2> QED
    BY <1>5, <2>2, <2>3 DEF Moment
<1> HIDE DEF c
<1>7. Ready(c, n + 1)
  BY <1>1, <1>4, <1>6 DEF Ready
<1>8. Passed(b, c, said[n], ds)
  <2>1. Ran(r, t, b, c, ds)
    BY <1>1, <1>3, <1>6 DEF Ran
  <2> QED
    BY <1>1, <2>1 DEF Passed
<1>9. Recounts(bs, asks, said, ys, level, ds)
  BY <1>5, RecountsKept
<1>10. Leads(c.execs, ys)
  BY <1>5, <1>6
<1>11. /\ Recounts(Append(bs, c), asks, said, ys, level, ds)
       /\ Len(Append(bs, c)) = Len(asks) + 1 /\ Append(bs, c)[Len(asks) + 1] = c
  <2>1. Len(bs) = Len(asks) /\ Ready(c, Len(bs) + 1) /\ Passed(bs[Len(bs)], c, said[Len(bs)], ds)
    BY <1>1, <1>7, <1>8 DEF n, b
  <2>2. c \in Moment
    BY <1>6
  <2> QED
    BY ONLY <1>9, <1>10, <2>1, <2>2, RecountsWent
<1>12. AtRequest(Append(bs, c), asks, q, tr \o ActEvents(r, t), ys)
  BY <1>4, <1>6, <1>11 DEF AtRequest
<1> QED
  BY <1>11, <1>12

\* How a recording can have ended: the judge's act, the last step the category
\* allows, or a cut or a step the category does not.
Judged(b, parts, h, outcome, tr, xs, policy, cs) ==
    LET p == Heeded(b.run, parts) IN
    /\ Act(p) = "judge"
    /\ \E t \in Texts :
          /\ h = p.history \o ExtraAnswers(p) /\ outcome = Verdict(policy, t \in FlagTexts)
          /\ tr = b.trace \o ActEvents(p, t) /\ xs = Append(b.execs, t)
          /\ "altered" \notin cs => TraceText(t) = t

Whole(cs) == {"cut", "long"} \cap cs = {}

Closed(bs, asks, said, h, outcome, tr, xs, policy, cs) ==
    LET b == bs[Len(bs)] IN
    \/ ~Whole(cs) /\ outcome \in {"exhausted", "error", "none"}
    \/ Len(bs) = Len(asks) /\ Judged(b, said[Len(bs)], h, outcome, tr, xs, policy, cs)
    \/ /\ Len(bs) = Len(asks) + 1 /\ Len(asks) = MaxSteps
       /\ h = b.run.history /\ outcome = "exhausted" /\ tr = b.trace /\ xs = b.execs

Standing(bs, asks, said, r, tr, xs, policy, cs) ==
    \/ AtRequest(bs, asks, r, tr, xs)
    \/ AtAct(bs, asks, said, r, tr, xs)
    \/ r.pc = "ended" /\ Closed(bs, asks, said, r.history, r.outcome, tr, xs, policy, cs)

\* A cassette holds the completions heard, each under its request, and summaries.
Taped(tape, asks, said) ==
    /\ \A i \in 1 .. Len(tape) :
          \/ Mark(tape[i].key.messages) = "summarize"
          \/ \E k \in 1 .. Len(asks) : tape[i] = Entry(asks[k], Completion(said[k]))
    /\ \A k \in 1 .. Len(asks) :
          \E i \in 1 .. Len(tape) : tape[i] = Entry(asks[k], Completion(said[k]))

LEMMA TapedSummary ==
    ASSUME NEW tape \in Seq(Entries), NEW asks, NEW said, Taped(tape, asks, said), NEW r,
           NEW more, more = Append(tape, SummaryEntry(r))
    PROVE  Taped(more, asks, said)
<1>1. SummaryEntry(r) \in Entries
  BY SummaryTyped
<1>2. Mark(SummaryEntry(r).key.messages) = "summarize"
  BY DEF SummaryEntry, Entry, Key, Mark, Said, Msg
<1>3. /\ Len(more) = Len(tape) + 1 /\ more[Len(tape) + 1] = SummaryEntry(r)
      /\ \A i \in 1 .. Len(tape) : more[i] = tape[i]
      /\ Len(tape) \in Nat
  BY <1>1
<1> HIDE DEF SummaryEntry
<1>4. ASSUME NEW i \in 1 .. Len(more)
      PROVE  \/ Mark(more[i].key.messages) = "summarize"
             \/ \E k \in 1 .. Len(asks) : more[i] = Entry(asks[k], Completion(said[k]))
  <2>1. i \in 1 .. Len(tape) \/ i = Len(tape) + 1
    BY <1>3
  <2> QED
    BY <1>2, <1>3, <2>1 DEF Taped
<1>5. ASSUME NEW k \in 1 .. Len(asks)
      PROVE  \E i \in 1 .. Len(more) : more[i] = Entry(asks[k], Completion(said[k]))
  <2>1. PICK i \in 1 .. Len(tape) : tape[i] = Entry(asks[k], Completion(said[k]))
    BY DEF Taped
  <2>2. i \in 1 .. Len(more) /\ more[i] = tape[i]
    BY <1>3, <2>1
  <2> QED
    BY <2>1, <2>2
<1> QED
  BY <1>4, <1>5 DEF Taped

LEMMA TapedNext ==
    ASSUME NEW tape \in Seq(Entries), NEW asks \in Seq(Requests), NEW said \in Seq(Seq(Part)),
           Len(said) = Len(asks), Taped(tape, asks, said),
           NEW ask \in Requests, NEW parts \in Seq(Part)
    PROVE  Taped(Append(tape, Entry(ask, Completion(parts))), Append(asks, ask),
                 Append(said, parts))
<1> DEFINE e == Entry(ask, Completion(parts))
           more == Append(tape, e)
           wants == Append(asks, ask)
           heeds == Append(said, parts)
<1>1. e \in Entries
  BY CompletionTyped DEF Entries, Entry
<1>2. /\ Len(more) = Len(tape) + 1 /\ more[Len(tape) + 1] = e /\ Len(tape) \in Nat
      /\ \A i \in 1 .. Len(tape) : more[i] = tape[i]
  <2> HIDE DEF e
  <2> QED
    BY <1>1
<1>3. /\ Len(wants) = Len(asks) + 1 /\ wants[Len(asks) + 1] = ask /\ Len(asks) \in Nat
      /\ \A k \in 1 .. Len(asks) : wants[k] = asks[k]
  OBVIOUS
<1>4. /\ heeds[Len(asks) + 1] = parts
      /\ \A k \in 1 .. Len(asks) : heeds[k] = said[k]
  <2> DEFINE P == Seq(Part)
  <2>1. said \in Seq(P) /\ parts \in P
    OBVIOUS
  <2> HIDE DEF P
  <2> QED
    BY <2>1
<1> HIDE DEF more, wants, heeds, Completion
<1>5. ASSUME NEW i \in 1 .. Len(more)
      PROVE  \/ Mark(more[i].key.messages) = "summarize"
             \/ \E k \in 1 .. Len(wants) : more[i] = Entry(wants[k], Completion(heeds[k]))
  <2>1. CASE i \in 1 .. Len(tape)
    <3>1. CASE Mark(tape[i].key.messages) = "summarize"
      BY <1>2, <2>1, <3>1
    <3>2. CASE \E k \in 1 .. Len(asks) : tape[i] = Entry(asks[k], Completion(said[k]))
      <4>1. PICK k \in 1 .. Len(asks) : tape[i] = Entry(asks[k], Completion(said[k]))
        BY <3>2
      <4>2. k \in 1 .. Len(wants) /\ wants[k] = asks[k] /\ heeds[k] = said[k]
        BY <1>3, <1>4
      <4>3. more[i] = Entry(wants[k], Completion(heeds[k]))
        BY <1>2, <2>1, <4>1, <4>2
      <4> QED
        BY <4>2, <4>3
    <3> QED
      BY <2>1, <3>1, <3>2 DEF Taped
  <2>2. CASE i = Len(tape) + 1
    <3>1. Len(asks) + 1 \in 1 .. Len(wants)
      BY <1>3
    <3>2. more[i] = Entry(wants[Len(asks) + 1], Completion(heeds[Len(asks) + 1]))
      BY <1>2, <1>3, <1>4, <2>2
    <3> QED
      BY <3>1, <3>2
  <2>3. i \in 1 .. Len(tape) \/ i = Len(tape) + 1
    BY <1>2
  <2> QED
    BY <2>1, <2>2, <2>3
<1>6. ASSUME NEW k \in 1 .. Len(wants)
      PROVE  \E i \in 1 .. Len(more) : more[i] = Entry(wants[k], Completion(heeds[k]))
  <2>1. CASE k \in 1 .. Len(asks)
    <3>1. PICK i \in 1 .. Len(tape) : tape[i] = Entry(asks[k], Completion(said[k]))
      BY <2>1 DEF Taped
    <3>2. i \in 1 .. Len(more) /\ more[i] = tape[i]
      BY <1>2, <3>1
    <3>3. more[i] = Entry(wants[k], Completion(heeds[k]))
      BY <1>3, <1>4, <2>1, <3>1, <3>2
    <3> QED
      BY <3>2, <3>3
  <2>2. CASE k = Len(asks) + 1
    <3>1. Len(tape) + 1 \in 1 .. Len(more)
      BY <1>2
    <3>2. more[Len(tape) + 1] = Entry(wants[k], Completion(heeds[k]))
      BY <1>2, <1>3, <1>4, <2>2
    <3> QED
      BY <3>1, <3>2
  <2> QED
    BY <1>3, <2>1, <2>2
<1>7. Taped(more, wants, heeds)
  BY <1>5, <1>6 DEF Taped
<1> QED
  BY <1>7 DEF more, wants, heeds

Level == Resolved(config.model, config.thinking)

Told ==
    \E bs : /\ Recounts(bs, asked, heard, execs, Level, causes)
            /\ Standing(bs, asked, heard, run, trace, execs, config.policy, causes)

\* Until a replay starts.
ToldInv == phase = "recording" \/ exit = "refused" => Told /\ Taped(cassette, asked, heard)

LEMMA ToldInit == Init => ToldInv
<1> SUFFICES ASSUME Init PROVE Told /\ Taped(cassette, asked, heard)
  BY DEF ToldInv
<1>1. PICK findings \in Findings :
          /\ run = NewRun(findings)
          /\ trace = <<Event("triage.result", NoCall, TraceText(findings))>>
          /\ causes = IF TraceText(findings) = findings THEN {} ELSE {"altered"}
  BY DEF Init
<1>2. asked = <<>> /\ execs = <<>> /\ cassette = <<>> /\ heard = <<>>
  BY DEF Init
<1>3. findings \in Texts
  BY <1>1, TextsTyped
<1> DEFINE b == [run |-> run, trace |-> trace, execs |-> execs]
           bs == <<b>>
<1> HIDE DEF NewRun, Sound
<1>4. /\ Sound(run) /\ run.pc = "request" /\ run.step = 0
      /\ Mark(run.history) = "findings"
  BY <1>1, <1>3, NewRunSound
<1>5. run.outcome = "none"
  BY <1>1 DEF NewRun
<1>6. trace \in Seq(Events)
  <2>1. TypesInv
    BY TypesInit
  <2> QED
    BY <2>1 DEF TypesInv, Kept
<1>7. execs \in Seq(Texts)
  BY <1>2
<1>8. b \in Moment /\ b.run = run /\ b.trace = trace /\ b.execs = execs
  BY <1>4, <1>6, <1>7 DEF Moment, Sound, Steady
<1> HIDE DEF b
<1>9. bs \in Seq(Moment) /\ bs # <<>> /\ Len(bs) = 1 /\ bs[1] = b
  BY <1>8
<1>10. Begun(b, causes)
  BY <1>1, <1>2, <1>3, <1>8 DEF Begun
<1>11. Ready(b, 1) /\ Leads(b.execs, execs)
  BY <1>2, <1>4, <1>5, <1>8 DEF Ready, Leads
<1>12. asked \in Seq(Requests) /\ heard \in Seq(Seq(Part)) /\ Len(asked) = 0 /\ Len(heard) = 0
  BY <1>2
<1> HIDE DEF bs
<1>13. Recounts(bs, asked, heard, execs, Level, causes)
  <2>1. \A k \in 1 .. 1 : k = 1
    OBVIOUS
  <2>2. 1 .. 0 = {} /\ 1 .. (1 - 1) = {} /\ 1 \in {0, 0 + 1}
    OBVIOUS
  <2> QED
    BY <1>9, <1>10, <1>11, <1>12, <2>1, <2>2 DEF Recounts
<1>14. AtRequest(bs, asked, run, trace, execs)
  BY <1>4, <1>8, <1>9, <1>12 DEF AtRequest
<1>15. Taped(cassette, asked, heard)
  <2>1. 1 .. Len(asked) = {} /\ 1 .. Len(cassette) = {}
    BY <1>2, <1>12
  <2> QED
    BY <2>1 DEF Taped
<1> QED
  BY <1>13, <1>14, <1>15 DEF Told, Standing

LEMMA AskRetold ==
    ASSUME NEW bs, NEW asks, NEW said, NEW xs \in Seq(Texts), NEW level, NEW cs,
           Recounts(bs, asks, said, xs, level, cs),
           NEW r, NEW tr, AtRequest(bs, asks, r, tr, xs),
           NEW ds, cs \subseteq ds, NEW ask \in Requests, Asks(r, ask, level, ds),
           NEW parts \in Seq(Part), NEW q, q = Heeded(r, parts), q.pc = "act"
    PROVE  /\ Recounts(bs, Append(asks, ask), Append(said, parts), xs, level, ds)
           /\ AtAct(bs, Append(asks, ask), Append(said, parts), q, tr, xs)
<1> DEFINE b == bs[Len(bs)]
<1> HIDE DEF Heeded
<1>1. Len(bs) = Len(asks) + 1 /\ b.run = r /\ b.trace = tr /\ b.execs = xs
  BY DEF AtRequest
<1>2. Leads(xs, xs)
  BY DEF Leads
<1>3. Recounts(bs, asks, said, xs, level, ds)
  BY <1>2, RecountsKept
<1>4. Asks(bs[Len(bs)].run, ask, level, ds)
  BY <1>1
<1>5. /\ Recounts(bs, Append(asks, ask), Append(said, parts), xs, level, ds)
      /\ Append(said, parts)[Len(bs)] = parts /\ Len(Append(asks, ask)) = Len(bs)
  <2>a. Len(bs) = Len(asks) + 1
    BY <1>1
  <2>1. Recounts(bs, Append(asks, ask), Append(said, parts), xs, level, ds)
    BY <1>3, <1>4, <2>a, RecountsAsked
  <2>2. Append(said, parts)[Len(bs)] = parts
    <3> DEFINE P == Seq(Part)
    <3>1. said \in Seq(P) /\ parts \in P /\ Len(bs) = Len(said) + 1
      BY <2>a DEF Recounts
    <3> HIDE DEF P
    <3> QED
      BY <3>1
  <2>3. Len(Append(asks, ask)) = Len(bs)
    BY <1>3, <1>4, <2>a, RecountsAsked
  <2> QED
    BY <2>1, <2>2, <2>3
<1>6. AtAct(bs, Append(asks, ask), Append(said, parts), q, tr, xs)
  BY <1>1, <1>5 DEF AtAct
<1> QED
  BY <1>5, <1>6

LEMMA JudgeRetold ==
    ASSUME NEW bs, NEW asks, NEW said, NEW xs, NEW tr, NEW r, Steady(r),
           AtAct(bs, asks, said, r, tr, xs), Act(r) = "judge", NEW t \in Texts,
           NEW ds, "altered" \notin ds => TraceText(t) = t,
           NEW q, q = Acted(r, t, "summary")
    PROVE  /\ q.pc = "ended"
           /\ Closed(bs, asks, said, q.history, q.outcome, tr \o ActEvents(r, t), Append(xs, t),
                     config.policy, ds)
<1> DEFINE b == bs[Len(bs)]
           parts == said[Len(bs)]
<1> HIDE DEF Heeded
<1>1. /\ r.pc = "act" /\ Len(bs) = Len(asks) /\ r = Heeded(b.run, parts)
      /\ b.trace = tr /\ b.execs = xs
  BY DEF AtAct
<1>a. r.pc = "act"
  BY <1>1
<1>2. /\ q.pc = "ended" /\ q.history = r.history \o ExtraAnswers(r)
      /\ q.outcome = Verdict(config.policy, t \in FlagTexts)
  BY <1>a, JudgedIs
<1> HIDE DEF b, parts
<1>3. Judged(b, parts, q.history, q.outcome, tr \o ActEvents(r, t), Append(xs, t),
             config.policy, ds)
  BY <1>1, <1>2 DEF Judged
<1> QED
  BY <1>1, <1>2, <1>3 DEF Closed, b, parts

\* The runner of a story.
LEMMA StoodSteady ==
    ASSUME TypesInv
    PROVE  /\ Steady(run) /\ run.history \in Histories /\ run.step \in Nat
           /\ trace \in Seq(Events) /\ execs \in Seq(Texts) /\ asked \in Seq(Requests)
           /\ cassette \in Seq(Entries) /\ config \in Configs
  BY RunnerFields DEF TypesInv, Counted, Kept, Configured, Steady

LEMMA ToldAsk == TypesInv /\ ToldInv /\ RecordAsk => ToldInv'
<1> SUFFICES ASSUME TypesInv, ToldInv, RecordAsk PROVE ToldInv'
  OBVIOUS
<1> DEFINE r == Request(run, "summary")
<1>1. PICK response \in Responses, cite \in {0} \cup {o.seq : o \in run.observed} :
        LET parts == Delivered(config.model.provider, response, r.step, cite) IN
        /\ run' = Heard(r, Completion(parts))
        /\ asked' = Append(asked, Asking(r))
        /\ heard' = Append(heard, parts)
        /\ cassette' = cassette \o Summaries(run, r) \o <<Entry(Key(Asking(r)), Completion(parts))>>
  BY DEF RecordAsk
<1> DEFINE parts == Delivered(config.model.provider, response, r.step, cite)
           said == Completion(parts)
           ask == Asking(r)
<1>2. /\ phase = "recording" /\ run.pc = "request" /\ run.step < config.limit
      /\ causes \subseteq causes'
      /\ Compactable(run.history, MaxMessages) => "summary" \in causes'
      /\ UNCHANGED <<config, phase, trace, execs, original, exit>>
  BY DEF RecordAsk
<1>3. /\ Steady(run) /\ run.history \in Histories /\ run.step \in Nat
      /\ trace \in Seq(Events) /\ execs \in Seq(Texts) /\ asked \in Seq(Requests)
      /\ cassette \in Seq(Entries) /\ config \in Configs
  BY StoodSteady
<1>4. /\ config.model.provider \in {"anthropic", "openai", "google"}
      /\ config.limit <= MaxLimit /\ config.limit \in Nat /\ MaxLimit \in Nat
      /\ response \in Seq(Part)
  BY <1>3, ReplayAssumption DEF Config, ThinkingModel
<1>5. r.step = run.step + 1 /\ r.history = Compacted("summary", run.history)
  BY <1>2, <1>3, RequestSteady
<1>6. parts \in Seq(Part)
  <2>1. cite \in Nat
    BY <1>3, RunnerFields DEF Steady
  <2>2. r.step \in Nat
    BY <1>3, <1>5
  <2> QED
    BY <1>4, <2>1, <2>2, DeliveredTyped
<1>7. said \in Completions
  BY <1>6, CompletionTyped
<1>8. /\ run' = Heard(r, said) /\ asked' = Append(asked, ask) /\ heard' = Append(heard, parts)
      /\ cassette' = cassette \o Summaries(run, r) \o <<Entry(Key(ask), said)>>
  BY <1>1
<1>9. run' = Heeded(run, parts)
  BY <1>8 DEF Heeded
<1> HIDE DEF parts
<1>10. Configured /\ Counted
  BY DEF TypesInv
<1>11. ask \in Requests /\ run'.pc = "act"
  <2>1. run.step < MaxLimit
    BY <1>2, <1>3, <1>4
  <2>2. "summary" \in {"summary", "extract"}
    OBVIOUS
  <2> HIDE DEF said
  <2> QED
    BY <1>2, <1>3, <1>7, <1>8, <1>10, <2>1, <2>2, AskCounted
<1>12. Asks(run, ask, Level, causes')
  BY <1>2, <1>5 DEF Asks, Asking, Level
<1> HIDE DEF r, said, ask
<1>13. Told /\ Taped(cassette, asked, heard)
  BY <1>2 DEF ToldInv
<1>14. PICK bs : /\ Recounts(bs, asked, heard, execs, Level, causes)
                 /\ Standing(bs, asked, heard, run, trace, execs, config.policy, causes)
  BY <1>13 DEF Told
<1>15. AtRequest(bs, asked, run, trace, execs)
  BY <1>2, <1>14 DEF Standing, AtAct
<1>17. causes \subseteq causes'
  BY <1>2
<1>18. /\ Recounts(bs, asked', heard', execs, Level, causes')
       /\ AtAct(bs, asked', heard', run', trace, execs)
  <2> HIDE DEF Level
  <2> QED
    BY <1>3, <1>6, <1>8, <1>9, <1>11, <1>12, <1>14, <1>15, <1>17, AskRetold
<1>19. Level' = Level
  BY <1>2 DEF Level
<1>20. Told'
  BY <1>2, <1>18, <1>19 DEF Told, Standing
<1>21. Taped(cassette', asked', heard')
  <2> DEFINE tape == cassette \o Summaries(run, r)
  <2>1. tape \in Seq(Entries) /\ Taped(tape, asked, heard)
    <3> DEFINE e == SummaryEntry(r)
    <3>1. e \in Entries
      BY SummaryTyped
    <3>2. tape = cassette \/ tape = Append(cassette, e)
      <4> HIDE DEF e
      <4>1. cassette \o <<>> = cassette
        BY <1>3
      <4>2. cassette \o <<e>> = Append(cassette, e)
        BY <1>3, <3>1
      <4>3. Summaries(run, r) = <<>> \/ Summaries(run, r) = <<e>>
        BY DEF Summaries, e
      <4> QED
        BY <4>1, <4>2, <4>3
    <3>3. CASE tape = cassette
      BY <1>3, <1>13, <3>3
    <3>4. CASE tape = Append(cassette, e)
      <4>1. Taped(tape, asked, heard)
        BY <1>3, <1>13, <3>4, TapedSummary
      <4> HIDE DEF e
      <4>2. Append(cassette, e) \in Seq(Entries)
        BY <1>3, <3>1
      <4> QED
        BY <3>4, <4>1, <4>2
    <3> QED
      BY <3>2, <3>3, <3>4
  <2> DEFINE e == Entry(ask, Completion(parts))
  <2>2. cassette' = tape \o <<e>>
    BY <1>8 DEF said, Key
  <2>3. e \in Entries
    BY <1>6, <1>11, CompletionTyped DEF Entry, Entries
  <2>4. cassette' = Append(tape, e)
    <3> HIDE DEF tape, e
    <3> QED
      BY <2>1, <2>2, <2>3, AppendOne
  <2>5. heard \in Seq(Seq(Part)) /\ Len(heard) = Len(asked)
    BY <1>14 DEF Recounts
  <2> HIDE DEF tape
  <2> QED
    BY <1>3, <1>6, <1>8, <1>11, <2>1, <2>4, <2>5, TapedNext
<1> QED
  BY <1>20, <1>21 DEF ToldInv

LEMMA ToldAct == TypesInv /\ ToldInv /\ RecordAct => ToldInv'
<1> SUFFICES ASSUME TypesInv, ToldInv, RecordAct PROVE ToldInv'
  OBVIOUS
<1>1. PICK t \in Answers_(run) :
        LET text == ResultText(run, t)
            paid == Act(run) = "exec" /\ t \in LongTexts
                    /\ ~\E s \in run.seen : s.text = t
        IN  /\ run' = Acted(run, t, "summary")
            /\ trace' = trace \o ActEvents(run, t)
            /\ execs' = IF UsesSandbox(run) THEN Append(execs, t) ELSE execs
            /\ cassette' = IF paid THEN Append(cassette, SummaryEntry(run)) ELSE cassette
            /\ causes' = causes
                  \cup (IF paid THEN {"summary"} ELSE {})
                  \cup (IF TraceText(t) # t THEN {"altered"} ELSE {})
                  \cup (IF Calls(run) # <<>> /\ RefusedBacked(run) THEN {"refused"} ELSE {})
  BY DEF RecordAct
<1> DEFINE paid == Act(run) = "exec" /\ t \in LongTexts /\ ~\E s \in run.seen : s.text = t
<1>2. /\ phase = "recording" /\ run.pc = "act"
      /\ UNCHANGED <<config, phase, asked, original, heard, exit>>
  BY DEF RecordAct
<1>3. /\ Steady(run) /\ run.history \in Histories /\ run.step \in Nat
      /\ trace \in Seq(Events) /\ execs \in Seq(Texts) /\ asked \in Seq(Requests)
      /\ cassette \in Seq(Entries) /\ config \in Configs
  BY StoodSteady
<1>4. t \in Texts /\ (UsesSandbox(run) \/ t = NoText)
  <2>1. Answers_(run) \subseteq Outputs \cup {NoText}
    BY DEF Answers_
  <2>2. UsesSandbox(run) \/ Answers_(run) = {NoText}
    BY DEF Answers_, UsesSandbox
  <2> QED
    BY <2>1, <2>2, TextsTyped
<1>5. /\ run' = Acted(run, t, "summary") /\ trace' = trace \o ActEvents(run, t)
      /\ execs' = IF UsesSandbox(run) THEN Append(execs, t) ELSE execs
      /\ cassette' = Append(cassette, SummaryEntry(run)) \/ cassette' = cassette
      /\ causes \subseteq causes' /\ (paid => "summary" \in causes')
      /\ TraceText(t) # t => "altered" \in causes'
  <2> HIDE DEF Acted, ActEvents, UsesSandbox, SummaryEntry, RefusedBacked, Calls, TraceText, Act
  <2> QED
    BY <1>1
<1>6. Told /\ Taped(cassette, asked, heard)
  BY <1>2 DEF ToldInv
<1>7. PICK bs : /\ Recounts(bs, asked, heard, execs, Level, causes)
                /\ Standing(bs, asked, heard, run, trace, execs, config.policy, causes)
  BY <1>6 DEF Told
<1>8. AtAct(bs, asked, heard, run, trace, execs)
  BY <1>2, <1>7 DEF Standing, AtRequest
<1>9. Taped(cassette', asked, heard)
  BY <1>3, <1>5, <1>6, TapedSummary
<1>10. Level' = Level /\ config'.policy = config.policy
  BY <1>2 DEF Level
<1> HIDE DEF Level
<1>11. "altered" \notin causes' => TraceText(t) = t
  BY <1>5
<1>12. CASE Act(run) # "judge"
  <2>1. "summary" \notin causes' => Went(run, t, "summary") = Went(run, t, "extract")
    BY <1>5, <1>12, WentEither
  <2> HIDE DEF paid
  <2>2. \E es : /\ Recounts(es, asked, heard, execs', Level, causes')
                /\ AtRequest(es, asked, run', trace \o ActEvents(run, t), execs')
    BY <1>3, <1>4, <1>5, <1>7, <1>8, <1>11, <1>12, <2>1, ActRetold
  <2>3. \E es : /\ Recounts(es, asked, heard, execs', Level, causes')
                /\ AtRequest(es, asked, run', trace', execs')
    BY <1>5, <2>2
  <2>4. PICK es : /\ Recounts(es, asked, heard, execs', Level, causes')
                  /\ AtRequest(es, asked, run', trace', execs')
    BY <2>3
  <2>5. Standing(es, asked, heard, run', trace', execs', config'.policy, causes')
    BY <2>4 DEF Standing
  <2>6. Told'
    BY <1>2, <1>10, <2>4, <2>5 DEF Told
  <2> QED
    BY <1>2, <1>9, <2>6 DEF ToldInv
<1>13. CASE Act(run) = "judge"
  <2>1. execs' = Append(execs, t)
    BY <1>5, <1>13 DEF UsesSandbox
  <2>2. execs' \in Seq(Texts) /\ Leads(execs, execs')
    <3>1. Append(execs, t) \in Seq(Texts) /\ Leads(execs, Append(execs, t))
      BY <1>3, <1>4, LeadsAppend
    <3> QED
      BY <2>1, <3>1
  <2>3. Recounts(bs, asked, heard, execs', Level, causes')
    BY <1>3, <1>5, <1>7, <2>2, RecountsKept
  <2>4. /\ run'.pc = "ended"
        /\ Closed(bs, asked, heard, run'.history, run'.outcome, trace \o ActEvents(run, t),
                  Append(execs, t), config.policy, causes')
    BY <1>3, <1>4, <1>5, <1>8, <1>11, <1>13, JudgeRetold
  <2>5. Closed(bs, asked, heard, run'.history, run'.outcome, trace', execs', config.policy, causes')
    BY <1>5, <2>1, <2>4
  <2>6. Standing(bs, asked, heard, run', trace', execs', config'.policy, causes')
    BY <1>10, <2>4, <2>5 DEF Standing
  <2>7. Told'
    BY <1>2, <1>10, <2>3, <2>6 DEF Told
  <2> QED
    BY <1>2, <1>9, <2>7 DEF ToldInv
<1> QED
  BY <1>12, <1>13

\* A recording that ends with nothing more to tell.
LEMMA ToldEnd ==
    ASSUME TypesInv, ToldInv, phase = "recording", causes \subseteq causes',
           UNCHANGED <<config, asked, execs, cassette, heard>>,
           run'.pc = "ended",
           \/ ~Whole(causes') /\ run'.outcome \in {"exhausted", "error", "none"}
           \/ /\ run.pc = "request" /\ run.step = MaxSteps /\ trace' = trace
              /\ run'.history = run.history /\ run'.outcome = "exhausted"
    PROVE  ToldInv'
<1>1. Told /\ Taped(cassette, asked, heard)
  BY DEF ToldInv
<1>2. PICK bs : /\ Recounts(bs, asked, heard, execs, Level, causes)
                /\ Standing(bs, asked, heard, run, trace, execs, config.policy, causes)
  BY <1>1 DEF Told
<1>3. Level' = Level /\ config'.policy = config.policy /\ execs \in Seq(Texts)
  BY StoodSteady DEF Level
<1> HIDE DEF Level
<1>4. Recounts(bs, asked, heard, execs, Level, causes')
  <2>1. Leads(execs, execs)
    BY DEF Leads
  <2> QED
    BY <1>2, <1>3, <2>1, RecountsKept
<1>5. Closed(bs, asked, heard, run'.history, run'.outcome, trace', execs, config.policy, causes')
  <2>1. CASE ~Whole(causes') /\ run'.outcome \in {"exhausted", "error", "none"}
    BY <2>1 DEF Closed
  <2>2. CASE /\ run.pc = "request" /\ run.step = MaxSteps /\ trace' = trace
             /\ run'.history = run.history /\ run'.outcome = "exhausted"
    <3> DEFINE b == bs[Len(bs)]
    <3>1. Len(bs) = Len(asked) + 1 /\ b.run = run /\ b.trace = trace /\ b.execs = execs
      BY <1>2, <2>2 DEF Standing, AtRequest, AtAct
    <3>2. Len(asked) = MaxSteps
      <4>1. Len(asked) \in Nat /\ Len(bs) \in 1 .. Len(bs)
        BY <3>1, StoodSteady
      <4>2. Ready(b, Len(bs))
        BY <1>2, <4>1 DEF Recounts
      <4>3. run.step = Len(bs) - 1
        BY <3>1, <4>2 DEF Ready
      <4> QED
        BY <2>2, <3>1, <4>1, <4>3
    <3> QED
      BY <2>2, <3>1, <3>2 DEF Closed
  <2> QED
    BY <2>1, <2>2
<1>6. Standing(bs, asked, heard, run', trace', execs, config.policy, causes')
  BY <1>5 DEF Standing
<1>7. Told'
  BY <1>3, <1>4, <1>6 DEF Told
<1> QED
  BY <1>1, <1>7 DEF ToldInv

\* A run that is over or has not begun to be replayed has no exit code.
Exits == (phase = "done") <=> (exit # "running")

LEMMA ExitsInit == Init => Exits
  BY DEF Init, Exits

LEMMA ExitsStep == Exits /\ [Next]_vars => Exits'
<1> SUFFICES ASSUME Exits, [Next]_vars PROVE Exits'
  OBVIOUS
<1> QED
  BY DEF Exits, Next, vars, RecordAsk, RecordAct, RecordExhausted, RecordCeiling, RecordFails,
         RecordDies, RefuseReplay, CassetteUnreadable, StartReplay, ReplayAsk, ReplayUnknown,
         ReplayAct, ReplayPastEnd, ReplayExhausted, Check, Stop

\* A recording makes a request a step, and knows when it is longer than its category.
Paced ==
    phase = "recording" \/ exit = "refused" =>
        Len(asked) = run.step /\ ("long" \in causes \/ run.step <= MaxSteps)

LEMMA ToldStep == TypesInv /\ Exits /\ Paced /\ ToldInv /\ [Next]_vars => ToldInv'
<1> SUFFICES ASSUME TypesInv, Exits, Paced, ToldInv, [Next]_vars PROVE ToldInv'
  OBVIOUS
<1>1. CASE RecordAsk
  BY <1>1, ToldAsk
<1>2. CASE RecordAct
  BY <1>2, ToldAct
<1>a. Steady(run) /\ config.limit \in Nat /\ run.step \in Nat /\ MaxSteps \in Nat
  BY StoodSteady, RunnerFields, ReplayAssumption DEF Config, Steady
<1>b. "exhausted" \in Outcomes /\ "error" \in Outcomes /\ "none" \in Outcomes
  BY DEF Outcomes
<1>3. CASE RecordExhausted
  <2>1. /\ phase = "recording" /\ run.pc = "request" /\ run.step = config.limit
        /\ run' = Ended(run, "exhausted")
        /\ causes' = causes \cup (IF config.limit < MaxSteps THEN {"cut"} ELSE {})
        /\ UNCHANGED <<config, phase, trace, asked, execs, cassette, original, heard, exit>>
    BY <1>3 DEF RecordExhausted
  <2>2. run'.pc = "ended" /\ run'.history = run.history /\ run'.outcome = "exhausted"
    BY <1>a, <1>b, <2>1, EndedSteady
  <2>3. ~Whole(causes') \/ run.step = MaxSteps
    BY <1>a, <2>1 DEF Paced, Whole
  <2> QED
    BY <2>1, <2>2, <2>3, ToldEnd
<1>4. CASE RecordCeiling
  <2>1. /\ phase = "recording" /\ run' = Ended(run, "exhausted") /\ causes' = causes \cup {"cut"}
        /\ UNCHANGED <<config, phase, trace, asked, execs, cassette, original, heard, exit>>
    BY <1>4 DEF RecordCeiling
  <2>2. run'.pc = "ended" /\ run'.outcome = "exhausted"
    BY <1>a, <1>b, <2>1, EndedSteady
  <2>3. ~Whole(causes')
    BY <2>1 DEF Whole
  <2> QED
    BY <2>1, <2>2, <2>3, ToldEnd
<1>5. CASE RecordFails
  <2>1. /\ phase = "recording" /\ run' = Ended(run, "error")
        /\ causes \subseteq causes' /\ "cut" \in causes'
        /\ UNCHANGED <<config, phase, asked, execs, cassette, original, heard, exit>>
    BY <1>5 DEF RecordFails
  <2>2. run'.pc = "ended" /\ run'.outcome = "error"
    BY <1>a, <1>b, <2>1, EndedSteady
  <2>3. ~Whole(causes')
    BY <2>1 DEF Whole
  <2> QED
    BY <2>1, <2>2, <2>3, ToldEnd
<1>6. CASE RecordDies
  <2>1. /\ phase = "recording" /\ run' = Ended(run, "none") /\ causes' = causes \cup {"cut"}
        /\ UNCHANGED <<config, phase, trace, asked, execs, cassette, original, heard, exit>>
    BY <1>6 DEF RecordDies
  <2>2. run'.pc = "ended" /\ run'.outcome = "none"
    BY <1>a, <1>b, <2>1, EndedSteady
  <2>3. ~Whole(causes')
    BY <2>1 DEF Whole
  <2> QED
    BY <2>1, <2>2, <2>3, ToldEnd
<1>c. CASE UNCHANGED <<config, run, trace, asked, execs, cassette, heard, causes>> /\ phase = "recording"
  <2>1. Told /\ Taped(cassette, asked, heard)
    BY <1>c DEF ToldInv
  <2>2. Told'
    BY <1>c, <2>1 DEF Told, Level
  <2> QED
    BY <1>c, <2>1, <2>2 DEF ToldInv
<1>7. CASE RefuseReplay
  BY <1>7, <1>c DEF RefuseReplay
<1>8. CASE phase' # "recording" /\ exit' # "refused"
  BY <1>8 DEF ToldInv
<1>9. CASE StartReplay
  <2>1. phase = "recording" /\ phase' = "replaying" /\ exit' = exit
    BY <1>9 DEF StartReplay
  <2> QED
    BY <1>8, <2>1 DEF Exits
<1>d. CASE CassetteUnreadable
  <2>1. phase' = "done" /\ exit' = "raised"
    BY <1>d DEF CassetteUnreadable, Stop
  <2> QED
    BY <1>8, <2>1
<1>10. CASE ReplayAsk \/ ReplayUnknown \/ ReplayAct \/ ReplayPastEnd \/ ReplayExhausted \/ Check
  <2>1. phase = "replaying" /\ phase' \in {"replaying", "done"}
        /\ exit' \in {exit, "raised", "mismatch", "ok"}
    BY <1>10 DEF ReplayAsk, ReplayUnknown, ReplayAct, ReplayPastEnd, ReplayExhausted, Check, Stop
  <2> QED
    BY <1>8, <2>1 DEF Exits
<1>11. CASE UNCHANGED vars
  <2>1. CASE phase = "recording" \/ exit = "refused"
    <3>1. Told /\ Taped(cassette, asked, heard)
      BY <2>1 DEF ToldInv
    <3>2. Told'
      BY <1>11, <3>1 DEF Told, Level, vars
    <3> QED
      BY <1>11, <3>1, <3>2 DEF ToldInv, vars
  <2>2. CASE ~(phase = "recording" \/ exit = "refused")
    BY <1>8, <1>11, <2>2 DEF vars
  <2> QED
    BY <2>1, <2>2
<1> QED
  BY <1>1, <1>2, <1>3, <1>4, <1>5, <1>6, <1>7, <1>d, <1>9, <1>10, <1>11 DEF Next

-----------------------------------------------------------------------------
(* The queue of results a replay is given.                                     *)

LEMMA ResultsAppend ==
    ASSUME NEW events \in Seq(Events), NEW e \in Events
    PROVE  ExecResults(Append(events, e)) =
               IF Queued(e) THEN Append(ExecResults(events), e.text) ELSE ExecResults(events)
<1> DEFINE more == Append(events, e)
           n == Len(events)
           at == {i \in DOMAIN events : Queued(events[i])}
           bt == {i \in DOMAIN more : Queued(more[i])}
           queue == Picked(events, at)
<1> HIDE DEF Queued
<1>1. /\ more \in Seq(Events) /\ Len(more) = n + 1 /\ more[n + 1] = e /\ n \in Nat
      /\ \A i \in 1 .. n : more[i] = events[i]
      /\ DOMAIN more = 1 .. n + 1 /\ DOMAIN events = 1 .. n
  OBVIOUS
<1> HIDE DEF more
<1>2. n + 1 \in bt <=> Queued(e)
  BY <1>1
<1>3. Alike(events, bt, events, at, n)
  BY <1>1 DEF Alike
<1> HIDE DEF at, bt
<1>4. Picked(events, bt) = queue
  BY <1>1, <1>3, PickedSame
<1>5. Picked(more, bt) = IF n + 1 \in bt THEN Append(Picked(events, bt), e) ELSE Picked(events, bt)
  BY PickedAppend DEF more
<1>6. Picked(more, bt) = IF Queued(e) THEN Append(queue, e) ELSE queue
  BY <1>2, <1>4, <1>5
<1>7. queue \in Seq(Events)
  BY PickedTyped
<1>8. ExecResults(events) = [i \in DOMAIN queue |-> queue[i].text]
  BY DEF ExecResults, at
<1>9. ExecResults(more) = [i \in DOMAIN Picked(more, bt) |-> Picked(more, bt)[i].text]
  BY DEF ExecResults, bt
<1> HIDE DEF queue
<1>10. CASE Queued(e)
  <2> DEFINE longer == Append(queue, e)
             texts == [i \in DOMAIN queue |-> queue[i].text]
  <2>1. /\ longer \in Seq(Events) /\ Len(longer) = Len(queue) + 1 /\ longer[Len(queue) + 1] = e
        /\ \A i \in 1 .. Len(queue) : longer[i] = queue[i]
        /\ DOMAIN longer = 1 .. Len(queue) + 1 /\ DOMAIN queue = 1 .. Len(queue)
        /\ Len(queue) \in Nat
    BY <1>7
  <2>2. texts \in Seq(Texts) /\ Len(texts) = Len(queue)
    <3>1. texts \in Seq(Texts)
      BY <1>8, ResultsTyped
    <3> QED
      BY <2>1, <3>1
  <2>3. e.text \in Texts
    BY DEF Events
  <2> HIDE DEF longer
  <2>4. [i \in DOMAIN longer |-> longer[i].text] = Append(texts, e.text)
    <3> DEFINE a == [i \in DOMAIN longer |-> longer[i].text]
               b == Append(texts, e.text)
    <3>1. DOMAIN a = 1 .. Len(queue) + 1
      BY <2>1
    <3>2. /\ b \in Seq(Texts) /\ Len(b) = Len(queue) + 1 /\ b[Len(queue) + 1] = e.text
          /\ \A i \in 1 .. Len(queue) : b[i] = texts[i]
      <4> HIDE DEF texts
      <4> QED
        BY <2>2, <2>3
    <3>3. \A i \in 1 .. Len(queue) + 1 : a[i] = b[i]
      <4> SUFFICES ASSUME NEW i \in 1 .. Len(queue) + 1 PROVE a[i] = b[i]
        OBVIOUS
      <4> HIDE DEF b
      <4>1. CASE i = Len(queue) + 1
        BY <2>1, <3>2, <4>1
      <4>2. CASE i # Len(queue) + 1
        <5>1. i \in 1 .. Len(queue)
          BY <2>1, <4>2
        <5> QED
          BY <2>1, <3>2, <5>1
      <4> QED
        BY <4>1, <4>2
    <3>4. a \in Seq(Texts)
      <4> HIDE DEF b
      <4>1. \A i \in 1 .. Len(queue) + 1 : a[i] \in Texts
        BY <2>1, <3>2, <3>3
      <4> HIDE DEF a
      <4>2. a = [i \in 1 .. Len(queue) + 1 |-> a[i]]
        BY <3>1 DEF a
      <4> QED
        BY <2>1, <4>1, <4>2
    <3> HIDE DEF a, b
    <3>5. a = b
      BY <2>1, <3>1, <3>2, <3>3, <3>4
    <3> QED
      BY <3>5 DEF a, b
  <2> HIDE DEF texts
  <2>5. ExecResults(more) = Append(texts, e.text)
    BY <1>6, <1>9, <1>10, <2>4 DEF longer
  <2> QED
    BY <1>8, <1>10, <2>5 DEF more, texts
<1>11. CASE ~Queued(e)
  BY <1>6, <1>8, <1>9, <1>11 DEF more
<1> QED
  BY <1>10, <1>11

LEMMA JoinJoin ==
    ASSUME NEW S, NEW a \in Seq(S), NEW b \in Seq(S), NEW c \in Seq(S)
    PROVE  (a \o b) \o c = a \o (b \o c)
  OBVIOUS

LEMMA JoinNothing ==
    ASSUME NEW S, NEW a \in Seq(S), NEW b \in Seq(S)
    PROVE  a \o <<>> = a /\ a \o b \in Seq(S)
  OBVIOUS

LEMMA JoinOne ==
    ASSUME NEW S, NEW a \in Seq(S), NEW x \in S
    PROVE  a \o <<x>> = Append(a, x) /\ Append(a, x) \in Seq(S) /\ <<x>> \in Seq(S)
  OBVIOUS

LEMMA JoinTwo ==
    ASSUME NEW S, NEW a \in Seq(S), NEW x \in S, NEW y \in S
    PROVE  /\ a \o <<x, y>> = Append(Append(a, x), y)
           /\ Append(Append(a, x), y) \in Seq(S) /\ <<x, y>> \in Seq(S)
  OBVIOUS

LEMMA JoinThree ==
    ASSUME NEW S, NEW a \in Seq(S), NEW x \in S, NEW y \in S, NEW z \in S
    PROVE  /\ a \o <<x, y, z>> = Append(Append(Append(a, x), y), z)
           /\ <<x, y, z>> \in Seq(S)
<1> DEFINE b == Append(Append(a, x), y)
<1>1. /\ b \in Seq(S) /\ a \o <<x, y>> = b /\ <<x, y>> \in Seq(S)
  BY JoinTwo
<1>2. <<x, y, z>> = Append(<<x, y>>, z) /\ <<x, y, z>> \in Seq(S)
  OBVIOUS
<1> DEFINE two == <<x, y>>
<1> HIDE DEF b, two
<1>3. Append(a \o two, z) = a \o Append(two, z)
  BY <1>1, AppendJoin DEF two
<1> QED
  BY <1>1, <1>2, <1>3 DEF b, two

LEMMA ResultsJoin ==
    ASSUME NEW a \in Seq(Events), NEW b \in Seq(Events),
           \A i \in 1 .. Len(b) : ~Queued(b[i])
    PROVE  ExecResults(a \o b) = ExecResults(a)
<1> DEFINE upTo(n) == a \o SubSeq(b, 1, n)
           bad == {n \in 0 .. Len(b) : ExecResults(upTo(n)) # ExecResults(a)}
<1> HIDE DEF Queued
<1>1. bad = {}
  <2> SUFFICES ASSUME bad # {} PROVE FALSE
    OBVIOUS
  <2>1. bad \in SUBSET Nat
    OBVIOUS
  <2>2. PICK n \in bad : \A j \in bad : n <= j
    BY <2>1, FirstExists
  <2>3. n \in 0 .. Len(b) /\ ExecResults(upTo(n)) # ExecResults(a)
    OBVIOUS
  <2>4. n # 0
    <3>1. upTo(0) = a
      OBVIOUS
    <3> HIDE DEF upTo
    <3> QED
      BY <2>3, <3>1
  <2>5. n - 1 \in 0 .. Len(b) /\ n \in 1 .. Len(b) /\ n - 1 \notin bad
    BY <2>2, <2>3, <2>4
  <2>6. ExecResults(upTo(n - 1)) = ExecResults(a)
    BY <2>5
  <2>7. upTo(n) = Append(upTo(n - 1), b[n]) /\ upTo(n - 1) \in Seq(Events) /\ b[n] \in Events
    <3>1. n \in 1 .. Len(b) /\ a \in Seq(Events) /\ b \in Seq(Events)
      BY <2>5
    <3>2. /\ a \o SubSeq(b, 1, n) = Append(a \o SubSeq(b, 1, n - 1), b[n])
          /\ a \o SubSeq(b, 1, n - 1) \in Seq(Events) /\ b[n] \in Events
      BY ONLY <3>1
    <3> QED
      BY <3>2
  <2>8. ~Queued(b[n])
    BY <2>5
  <2> HIDE DEF upTo
  <2>9. ExecResults(upTo(n)) = ExecResults(upTo(n - 1))
    BY <2>7, <2>8, ResultsAppend
  <2> QED
    BY <2>3, <2>6, <2>9
<1>2. ExecResults(upTo(Len(b))) = ExecResults(a)
  BY <1>1
<1>3. SubSeq(b, 1, Len(b)) = b
  OBVIOUS
<1> QED
  BY <1>2, <1>3

\* What an act leaves in the queue, when no refused call is recorded with a result.
LEMMA ExtrasUnqueued ==
    ASSUME NEW r, Steady(r), Calls(r) # <<>>, ~RefusedBacked(r)
    PROVE  \A i \in 1 .. Len(ExtraEvents(r)) : ~Queued(ExtraEvents(r)[i])
<1> DEFINE extras == Extras(r)
<1>1. ExtraEvents(r) = [i \in DOMAIN extras |-> Event("tool.result", extras[i], Refusal)]
  BY DEF ExtraEvents
<1>2. extras \in Seq(Part)
  BY CallsTyped
<1>3. \A i \in DOMAIN extras : extras[i].tool # "run_command"
  BY DEF RefusedBacked
<1> HIDE DEF extras
<1> SUFFICES ASSUME NEW i \in 1 .. Len(ExtraEvents(r)) PROVE ~Queued(ExtraEvents(r)[i])
  OBVIOUS
<1>4. i \in DOMAIN extras
  BY <1>1, <1>2
<1>5. ExtraEvents(r)[i] = Event("tool.result", extras[i], Refusal)
  BY <1>1, <1>4
<1> QED
  BY <1>3, <1>4, <1>5 DEF Queued, Event

LEMMA ActResults ==
    ASSUME NEW r, Steady(r), Calls(r) # <<>> => ~RefusedBacked(r) /\ Primary(r).tool # "",
           NEW t \in Texts, NEW tr \in Seq(Events)
    PROVE  ExecResults(tr \o ActEvents(r, t)) =
               IF UsesSandbox(r) THEN Append(ExecResults(tr), TraceText(t)) ELSE ExecResults(tr)
<1>1. CASE Act(r) = "nudge"
  <2>1. ActEvents(r, t) = <<>>
    BY <1>1, ActEventsAre
  <2>2. tr \o <<>> = tr
    BY JoinNothing
  <2>3. ~UsesSandbox(r)
    BY <1>1 DEF UsesSandbox
  <2> QED
    BY <2>1, <2>2, <2>3
<1>2. CASE Act(r) # "nudge"
  <2> DEFINE call == Primary(r)
             refused == ExtraEvents(r)
             own == OwnEvents(r, t)
             start == tr \o refused
             e(type) == Event(type, call, NoText)
             answer == Event("tool.result", call, TraceText(ResultText(r, t)))
             rederived == Event("flag.rederived", call, TraceText(t))
  <2>1. Calls(r) # <<>> /\ Act(r) \in Acts
    BY <1>2, ActCases
  <2>2. /\ call \in Part /\ ~RefusedBacked(r) /\ call.tool # ""
        /\ refused \in Seq(Events) /\ \A i \in 1 .. Len(refused) : ~Queued(refused[i])
    BY <2>1, CallsTyped, ExtrasTyped, ExtrasUnqueued
  <2>3. /\ e("flag.candidate") \in Events /\ e("flag.decision") \in Events
        /\ e("budget.blocked") \in Events /\ e("tool.call") \in Events
        /\ e("progress.scored") \in Events /\ answer \in Events /\ rederived \in Events
    <3>1. TraceText(t) \in Texts /\ TraceText(ResultText(r, t)) \in Texts
      BY ResultTyped, TextsTyped
    <3>2. EventTypes = {"triage.result", "tool.call", "tool.result", "flag.candidate",
                        "flag.rederived", "flag.decision", "budget.blocked", "progress.scored"}
      BY DEF EventTypes
    <3> HIDE DEF call
    <3> QED
      BY <2>2, <3>1, <3>2, TextsTyped, EventTyped
  <2>4. /\ ~Queued(e("flag.candidate")) /\ ~Queued(e("flag.decision"))
        /\ ~Queued(e("budget.blocked")) /\ ~Queued(e("tool.call"))
        /\ ~Queued(e("progress.scored")) /\ Queued(rederived)
        /\ rederived.text = TraceText(t) /\ answer.text = TraceText(ResultText(r, t))
        /\ Queued(answer) <=> call.tool = "run_command"
    <3> HIDE DEF call
    <3> QED
      BY DEF Queued, Event
  <2>5. start \in Seq(Events) /\ ExecResults(start) = ExecResults(tr)
    <3> HIDE DEF refused
    <3>1. tr \o refused \in Seq(Events)
      BY <2>2, JoinNothing
    <3>2. ExecResults(tr \o refused) = ExecResults(tr)
      BY <2>2, ResultsJoin
    <3> QED
      BY <3>1, <3>2
  <2>6. ActEvents(r, t) = refused \o own
    BY <1>2, ActEventsAre
  <2>7. own \in Seq(Events) =>
            tr \o ActEvents(r, t) = start \o own
    <3> HIDE DEF own, refused
    <3> SUFFICES ASSUME own \in Seq(Events) PROVE tr \o ActEvents(r, t) = start \o own
      OBVIOUS
    <3>1. (tr \o refused) \o own = tr \o (refused \o own)
      <4>1. tr \in Seq(Events) /\ refused \in Seq(Events) /\ own \in Seq(Events)
        BY <2>2
      <4> QED
        BY ONLY <4>1, JoinJoin
    <3> QED
      BY <2>6, <3>1
  <2>8. Act(r) = "exec" => call.tool = "run_command"
    <3> SUFFICES ASSUME Act(r) = "exec" PROVE call.tool = "run_command"
      OBVIOUS
    <3>1. call.tool \in {"", "run_command", "write_file", "submit_flag"}
      BY <2>2 DEF Part
    <3>2. call.tool # "submit_flag" /\ call.tool # "write_file"
      BY <2>1 DEF Act
    <3> QED
      BY <2>2, <3>1, <3>2
  <2>9. Act(r) \in {"refuse", "write"} => call.tool # "run_command"
    <3>1. Act(r) = "write" => call.tool = "write_file"
      BY <2>1 DEF Act
    <3>2. Act(r) = "refuse" => call.tool # "run_command"
      BY <2>2 DEF RefusedBacked
    <3> QED
      BY <3>1, <3>2
  <2>10. Act(r) = "exec" => ResultText(r, t) = t
    BY DEF ResultText
  <2>11. /\ Act(r) = "reject" => own = <<e("flag.candidate"), e("flag.decision")>>
         /\ Act(r) = "judge" => own = <<e("flag.candidate"), rederived, e("flag.decision")>>
         /\ Act(r) = "over_budget" => own = <<e("budget.blocked")>>
         /\ Act(r) \in {"refuse", "write", "exec"} =>
                own = <<e("tool.call"), answer, e("progress.scored")>>
    <3> HIDE DEF Act, Event
    <3> QED
      BY DEF OwnEvents
  <2> HIDE DEF call, start, e, answer, rederived, own
  <2>13. CASE Act(r) = "reject"
    <3> DEFINE one == Append(start, e("flag.candidate"))
               two == Append(one, e("flag.decision"))
    <3>1. one \in Seq(Events)
      BY <2>3, <2>5, JoinOne
    <3>2. own \in Seq(Events) /\ start \o own = two
      <4> DEFINE before == e("flag.candidate")
                 after == e("flag.decision")
      <4>1. own = <<before, after>>
        BY <2>11, <2>13
      <4>2. start \in Seq(Events) /\ before \in Events /\ after \in Events
        BY <2>3, <2>5
      <4> HIDE DEF before, after
      <4>3. /\ start \o <<before, after>> = Append(Append(start, before), after)
            /\ <<before, after>> \in Seq(Events)
        BY ONLY <4>2, JoinTwo
      <4> QED
        BY <4>1, <4>3 DEF before, after
    <3>3. ExecResults(one) = ExecResults(start)
      BY <2>3, <2>4, <2>5, ResultsAppend
    <3> HIDE DEF one
    <3>4. ExecResults(two) = ExecResults(one)
      BY <2>3, <2>4, <3>1, ResultsAppend
    <3> HIDE DEF two
    <3> QED
      BY <2>5, <2>7, <2>13, <3>2, <3>3, <3>4 DEF UsesSandbox
  <2>14. CASE Act(r) = "over_budget"
    <3>1. ExecResults(Append(start, e("budget.blocked"))) = ExecResults(start)
      BY <2>3, <2>4, <2>5, ResultsAppend
    <3>2. own \in Seq(Events) /\ start \o own = Append(start, e("budget.blocked"))
      BY <2>3, <2>5, <2>11, <2>14, JoinOne
    <3> QED
      BY <2>5, <2>7, <2>14, <3>1, <3>2 DEF UsesSandbox
  <2>15. CASE Act(r) = "judge"
    <3> DEFINE one == Append(start, e("flag.candidate"))
               two == Append(one, rederived)
               three == Append(two, e("flag.decision"))
    <3>a. one \in Seq(Events)
      BY <2>3, <2>5, JoinOne
    <3>b. two \in Seq(Events)
      BY <2>3, <2>5, JoinTwo
    <3>c. own \in Seq(Events) /\ start \o own = three
      <4> DEFINE before == e("flag.candidate")
                 after == e("flag.decision")
      <4>1. own = <<before, rederived, after>>
        BY <2>11, <2>15
      <4>2. start \in Seq(Events) /\ before \in Events /\ rederived \in Events /\ after \in Events
        BY <2>3, <2>5
      <4> HIDE DEF before, after
      <4>3. /\ start \o <<before, rederived, after>> = Append(Append(Append(start, before), rederived), after)
            /\ <<before, rederived, after>> \in Seq(Events)
        BY ONLY <4>2, JoinThree
      <4> QED
        BY <4>1, <4>3 DEF before, after
    <3>1. one \in Seq(Events) /\ two \in Seq(Events) /\ own \in Seq(Events) /\ start \o own = three
      BY <3>a, <3>b, <3>c
    <3>2. ExecResults(one) = ExecResults(start)
      BY <2>3, <2>4, <2>5, ResultsAppend
    <3> HIDE DEF one
    <3>3. ExecResults(two) = Append(ExecResults(one), TraceText(t))
      BY <2>3, <2>4, <3>1, ResultsAppend
    <3> HIDE DEF two
    <3>4. ExecResults(three) = ExecResults(two)
      BY <2>3, <2>4, <3>1, ResultsAppend
    <3> HIDE DEF three
    <3> QED
      BY <2>5, <2>7, <2>15, <3>1, <3>2, <3>3, <3>4 DEF UsesSandbox
  <2>16. CASE Act(r) \in {"refuse", "write", "exec"}
    <3> DEFINE one == Append(start, e("tool.call"))
               two == Append(one, answer)
               three == Append(two, e("progress.scored"))
    <3>a. one \in Seq(Events)
      BY <2>3, <2>5, JoinOne
    <3>b. two \in Seq(Events)
      BY <2>3, <2>5, JoinTwo
    <3>c. own \in Seq(Events) /\ start \o own = three
      <4> DEFINE before == e("tool.call")
                 after == e("progress.scored")
      <4>1. own = <<before, answer, after>>
        BY <2>11, <2>16
      <4>2. start \in Seq(Events) /\ before \in Events /\ answer \in Events /\ after \in Events
        BY <2>3, <2>5
      <4> HIDE DEF before, after
      <4>3. /\ start \o <<before, answer, after>> = Append(Append(Append(start, before), answer), after)
            /\ <<before, answer, after>> \in Seq(Events)
        BY ONLY <4>2, JoinThree
      <4> QED
        BY <4>1, <4>3 DEF before, after
    <3>1. one \in Seq(Events) /\ two \in Seq(Events) /\ own \in Seq(Events) /\ start \o own = three
      BY <3>a, <3>b, <3>c
    <3>2. ExecResults(one) = ExecResults(start)
      BY <2>3, <2>4, <2>5, ResultsAppend
    <3> HIDE DEF one
    <3>3. ExecResults(two) = IF call.tool = "run_command"
                             THEN Append(ExecResults(one), TraceText(ResultText(r, t)))
                             ELSE ExecResults(one)
      BY <2>3, <2>4, <3>1, ResultsAppend
    <3> HIDE DEF two
    <3>4. ExecResults(three) = ExecResults(two)
      BY <2>3, <2>4, <3>1, ResultsAppend
    <3> HIDE DEF three
    <3>5. ExecResults(tr \o ActEvents(r, t)) = ExecResults(two)
      BY <2>7, <3>1, <3>4
    <3>6. CASE Act(r) = "exec"
      BY <2>5, <2>8, <2>10, <3>2, <3>3, <3>5, <3>6 DEF UsesSandbox
    <3>7. CASE Act(r) # "exec"
      BY <2>5, <2>9, <2>16, <3>2, <3>3, <3>5, <3>7 DEF UsesSandbox
    <3> QED
      BY <3>6, <3>7
  <2> QED
    BY <1>2, <2>1, <2>13, <2>14, <2>15, <2>16 DEF Acts
<1> QED
  BY <1>1, <1>2

LEMMA DeliveredNamed ==
    ASSUME NEW p \in {"anthropic", "openai", "google"}, NEW response \in Responses,
           NEW s \in Nat, NEW cite \in Nat, NEW calls,
           calls = Completion(Delivered(p, response, s, cite)).calls
    PROVE  calls # <<>> => calls[1].tool # ""
<1> DEFINE At(part, i) ==
            IF part.kind \in {"thought", "redacted"} THEN [part EXCEPT !.signed = TRUE]
            ELSE IF part.kind # "call" THEN [part EXCEPT !.signed = p = "google"]
            ELSE [part EXCEPT !.id = IF p = "google" THEN NoId ELSE <<s, i>>,
                              !.signed = p = "google",
                              !.cite = IF part.tool = "submit_flag" THEN cite ELSE 0]
           at == {i \in DOMAIN response : response[i].kind \notin Withheld(p)}
           parts == Picked(response, at)
           sent == Delivered(p, response, s, cite)
<1>1. ASSUME NEW part \in Part, NEW i \in Nat
      PROVE  At(part, i).kind = part.kind /\ At(part, i).tool = part.tool
  <2>1. CASE part.kind \in {"thought", "redacted"}
    BY <2>1 DEF Part
  <2>2. CASE part.kind \notin {"thought", "redacted", "call"}
    BY <2>2 DEF Part
  <2>3. CASE part.kind = "call"
    <3> DEFINE id == IF p = "google" THEN NoId ELSE <<s, i>>
               cited == IF part.tool = "submit_flag" THEN cite ELSE 0
               signed == p = "google"
    <3>1. At(part, i) = [part EXCEPT !.id = id, !.signed = signed, !.cite = cited]
      BY <2>3
    <3> HIDE DEF id, cited, signed, At
    <3> QED
      BY <3>1 DEF Part
  <2> QED
    BY <2>1, <2>2, <2>3
<1>2. sent = [i \in DOMAIN parts |-> At(parts[i], i)]
  BY DEF Delivered
<1>3. response \in Seq(Part)
  BY ReplayAssumption
<1>4. sent \in Seq(Part)
  BY <1>3, DeliveredTyped
<1> HIDE DEF At, at
<1>5. /\ parts \in Seq(Part)
      /\ \A k \in 1 .. Len(parts) : \E i \in 1 .. Len(response) : i \in at /\ parts[k] = response[i]
  BY <1>3, PickedTyped
<1>6. calls = OfKind(sent, "call")
  BY DEF Completion
<1> HIDE DEF parts, sent
<1> SUFFICES ASSUME calls # <<>> PROVE calls[1].tool # ""
  OBVIOUS
<1>7. /\ calls \in Seq(Part) /\ \A i \in 1 .. Len(calls) : calls[i].kind = "call"
  BY <1>4, <1>6, OfKindTyped
<1>8. 1 \in 1 .. Len(calls)
  BY <1>7
<1>9. PICK k \in 1 .. Len(sent) : calls[1] = sent[k]
  <2> DEFINE bt == {i \in DOMAIN sent : sent[i].kind = "call"}
  <2>1. calls = Picked(sent, bt)
    BY <1>6 DEF OfKind
  <2> HIDE DEF bt
  <2>2. \A k \in 1 .. Len(calls) : \E i \in 1 .. Len(sent) : i \in bt /\ calls[k] = sent[i]
    BY <1>4, <2>1, PickedTyped
  <2> QED
    BY <1>8, <2>2
<1>10. DOMAIN parts = 1 .. Len(parts) /\ k \in 1 .. Len(parts) /\ sent[k] = At(parts[k], k)
       /\ parts[k] \in Part /\ k \in Nat
  BY <1>2, <1>4, <1>5
<1>11. parts[k].kind = "call" /\ calls[1].tool = parts[k].tool
  BY <1>1, <1>7, <1>8, <1>9, <1>10
<1>12. PICK i \in 1 .. Len(response) : parts[k] = response[i]
  BY <1>5, <1>10
<1>13. i \in DOMAIN response
  BY <1>3
<1> QED
  BY <1>11, <1>12, <1>13, ToolAssumption

LEMMA HeardCalls ==
    ASSUME NEW r, Steady(r), r.stale < r.step, NEW said \in Completions,
           NEW q, q = Heard(r, said)
    PROVE  Calls(q) = said.calls
<1> DEFINE message == Msg("assistant", said, "turn", NoText, 0)
<1>1. q.history = Append(r.history, message)
  BY HeardSteady
<1>2. message \in ChatMessage
  BY MessagesTyped, TextsTyped DEF Notes
<1>3. message.says = said
  BY DEF Msg
<1>4. r.history \in Seq(ChatMessage)
  BY RunnerFields DEF Steady, Histories
<1> HIDE DEF message
<1>5. q.history[Len(q.history)] = message
  BY <1>1, <1>2, <1>4
<1> QED
  BY <1>3, <1>5 DEF Calls

\* The queue of a trace is the results of its run, as the trace gives them back.
Matched(tr, xs, cs) ==
    /\ "refused" \notin cs => ExecResults(tr) = [i \in 1 .. Len(xs) |-> TraceText(xs[i])]
    /\ "altered" \notin cs => \A i \in 1 .. Len(xs) : TraceText(xs[i]) = xs[i]

LEMMA MatchedMore ==
    ASSUME NEW tr, NEW xs, NEW cs, Matched(tr, xs, cs), NEW ds, cs \subseteq ds,
           NEW tr2, "refused" \notin ds => ExecResults(tr2) = ExecResults(tr)
    PROVE  Matched(tr2, xs, ds)
  BY DEF Matched

LEMMA AppendParts ==
    ASSUME NEW S, NEW a \in Seq(S), NEW e \in S, NEW b, b = Append(a, e)
    PROVE  /\ b \in Seq(S) /\ Len(b) = Len(a) + 1 /\ b[Len(a) + 1] = e /\ Len(a) \in Nat
           /\ \A i \in 1 .. Len(a) : b[i] = a[i]
           /\ \A i \in 1 .. Len(b) : i \in 1 .. Len(a) \/ i = Len(a) + 1
  OBVIOUS

LEMMA TracedAppend ==
    ASSUME NEW xs \in Seq(Texts), NEW t \in Texts, NEW ys, ys = Append(xs, t)
    PROVE  [i \in 1 .. Len(ys) |-> TraceText(ys[i])]
               = Append([i \in 1 .. Len(xs) |-> TraceText(xs[i])], TraceText(t))
<1> DEFINE a == [i \in 1 .. Len(xs) |-> TraceText(xs[i])]
           b == [i \in 1 .. Len(ys) |-> TraceText(ys[i])]
           u == TraceText(t)
           c == Append(a, u)
<1>1. /\ ys \in Seq(Texts) /\ Len(ys) = Len(xs) + 1 /\ ys[Len(xs) + 1] = t /\ Len(xs) \in Nat
      /\ \A i \in 1 .. Len(xs) : ys[i] = xs[i]
      /\ \A i \in 1 .. Len(ys) : i \in 1 .. Len(xs) \/ i = Len(xs) + 1
  BY AppendParts
<1>2. /\ u \in Texts /\ \A i \in 1 .. Len(xs) : TraceText(xs[i]) \in Texts
  BY TextsTyped
<1> HIDE DEF TraceText
<1>3. a \in Seq(Texts) /\ Len(a) = Len(xs) /\ \A i \in 1 .. Len(xs) : a[i] = TraceText(xs[i])
  BY <1>1, <1>2
<1>4. /\ DOMAIN b = 1 .. Len(xs) + 1 /\ b[Len(xs) + 1] = u
      /\ \A i \in 1 .. Len(xs) : b[i] = TraceText(xs[i])
  BY <1>1
<1> HIDE DEF a, u
<1>5. /\ c \in Seq(Texts) /\ Len(c) = Len(xs) + 1 /\ c[Len(xs) + 1] = u
      /\ \A i \in 1 .. Len(xs) : c[i] = a[i]
  BY <1>2, <1>3, AppendParts
<1> HIDE DEF b, c
<1>6. \A i \in 1 .. Len(xs) + 1 : c[i] = b[i]
  <2> SUFFICES ASSUME NEW i \in 1 .. Len(xs) + 1 PROVE c[i] = b[i]
    OBVIOUS
  <2>1. i \in 1 .. Len(xs) \/ i = Len(xs) + 1
    BY <1>1
  <2> QED
    BY <1>3, <1>4, <1>5, <2>1
<1>7. b = [i \in 1 .. Len(xs) + 1 |-> b[i]] /\ c = [i \in 1 .. Len(xs) + 1 |-> c[i]]
  <2>1. b = [i \in 1 .. Len(xs) + 1 |-> b[i]]
    BY <1>4 DEF b
  <2>2. c = [i \in 1 .. Len(xs) + 1 |-> c[i]]
    BY <1>5
  <2> QED
    BY <2>1, <2>2
<1>8. c = b
  BY <1>6, <1>7
<1> QED
  BY <1>8 DEF a, b, c, u

LEMMA MatchedAct ==
    ASSUME NEW tr \in Seq(Events), NEW xs \in Seq(Texts), NEW cs, Matched(tr, xs, cs),
           NEW r, Steady(r), Calls(r) # <<>> => Primary(r).tool # "", NEW t \in Texts,
           NEW ds, cs \subseteq ds, "refused" \notin ds /\ Calls(r) # <<>> => ~RefusedBacked(r),
           "altered" \notin ds => TraceText(t) = t,
           NEW ys, ys = IF UsesSandbox(r) THEN Append(xs, t) ELSE xs
    PROVE  Matched(tr \o ActEvents(r, t), ys, ds)
<1> DEFINE tr2 == tr \o ActEvents(r, t)
           longer == Append(xs, t)
<1>0. longer = Append(xs, t) /\ xs \in Seq(Texts) /\ t \in Texts
  OBVIOUS
<1> HIDE DEF longer
<1>1. /\ longer[Len(xs) + 1] = t
      /\ \A i \in 1 .. Len(xs) : longer[i] = xs[i]
      /\ \A i \in 1 .. Len(longer) : i \in 1 .. Len(xs) \/ i = Len(xs) + 1
  BY ONLY <1>0, AppendParts
<1>a. [i \in 1 .. Len(longer) |-> TraceText(longer[i])]
          = Append([i \in 1 .. Len(xs) |-> TraceText(xs[i])], TraceText(t))
  BY ONLY <1>0, TracedAppend
<1>2. ASSUME "refused" \notin ds
      PROVE  ExecResults(tr2) = [i \in 1 .. Len(ys) |-> TraceText(ys[i])]
  <2>1. ExecResults(tr2) = IF UsesSandbox(r) THEN Append(ExecResults(tr), TraceText(t))
                           ELSE ExecResults(tr)
    BY <1>2, ActResults
  <2>2. ExecResults(tr) = [i \in 1 .. Len(xs) |-> TraceText(xs[i])]
    BY <1>2 DEF Matched
  <2>3. CASE UsesSandbox(r)
    <3>1. ys = longer
      BY <2>3 DEF longer
    <3> QED
      BY <1>a, <2>1, <2>2, <2>3, <3>1
  <2>4. CASE ~UsesSandbox(r)
    BY <2>1, <2>2, <2>4
  <2> QED
    BY <2>3, <2>4
<1>3. ASSUME "altered" \notin ds PROVE \A i \in 1 .. Len(ys) : TraceText(ys[i]) = ys[i]
  <2>1. \A i \in 1 .. Len(xs) : TraceText(xs[i]) = xs[i]
    BY <1>3 DEF Matched
  <2>2. TraceText(t) = t
    BY <1>3
  <2> HIDE DEF TraceText
  <2>3. CASE UsesSandbox(r)
    <3>1. ys = longer
      BY <2>3 DEF longer
    <3> QED
      BY <1>1, <2>1, <2>2, <3>1
  <2>4. CASE ~UsesSandbox(r)
    BY <2>1, <2>4
  <2> QED
    BY <2>3, <2>4
<1> QED
  BY <1>2, <1>3 DEF Matched

MatchedInv ==
    IF phase = "recording" \/ exit = "refused"
    THEN /\ Matched(trace, execs, causes)
         /\ run.pc = "act" /\ Calls(run) # <<>> => Primary(run).tool # ""
    ELSE Matched(original.trace, original.execs, causes) /\ Leads(execs, Queue)

LEMMA MatchedInit == Init => MatchedInv
<1> SUFFICES ASSUME Init
             PROVE  /\ Matched(trace, execs, causes)
                    /\ run.pc = "act" /\ Calls(run) # <<>> => Primary(run).tool # ""
  BY DEF Init, MatchedInv
<1>1. PICK findings \in Findings :
          /\ run = NewRun(findings)
          /\ trace = <<Event("triage.result", NoCall, TraceText(findings))>>
  BY DEF Init
<1>2. run.pc = "request" /\ execs = <<>>
  BY <1>1 DEF NewRun, Init
<1> DEFINE e == Event("triage.result", NoCall, TraceText(findings))
<1>3. e \in Events /\ ~Queued(e)
  <2>1. "triage.result" \in EventTypes /\ NoCall \in Part /\ TraceText(findings) \in Texts
    BY <1>1, PlainTyped, TextsTyped DEF EventTypes, NoCall
  <2>2. e \in Events
    BY <2>1, EventTyped
  <2> QED
    BY <2>2 DEF Queued, Event
<1>4. trace = <<e>>
  BY <1>1
<1> HIDE DEF e
<1> DEFINE none == <<>>
<1>5. none \in Seq(Events) /\ trace = Append(none, e)
  BY <1>3, <1>4
<1>6. ExecResults(none) = <<>>
  <2> DEFINE at == {i \in DOMAIN none : Queued(none[i])}
             queue == Picked(none, at)
  <2>1. ExecResults(none) = [i \in DOMAIN queue |-> queue[i].text]
    BY DEF ExecResults
  <2> HIDE DEF at
  <2>2. queue = <<>>
    BY PickedNone
  <2> HIDE DEF queue
  <2> QED
    BY <2>1, <2>2
<1> HIDE DEF none
<1>7. ExecResults(trace) = <<>>
  BY <1>3, <1>5, <1>6, ResultsAppend
<1>8. Len(execs) = 0 /\ 1 .. 0 = {}
  BY <1>2
<1>9. [i \in 1 .. Len(execs) |-> TraceText(execs[i])] = <<>>
  BY <1>8
<1> QED
  BY <1>2, <1>7, <1>8, <1>9 DEF Matched

LEMMA MatchedStep == TypesInv /\ Exits /\ MatchedInv /\ [Next]_vars => MatchedInv'
<1> SUFFICES ASSUME TypesInv, Exits, MatchedInv, [Next]_vars PROVE MatchedInv'
  OBVIOUS
<1>1. /\ Steady(run) /\ run.history \in Histories /\ run.step \in Nat
      /\ trace \in Seq(Events) /\ execs \in Seq(Texts) /\ asked \in Seq(Requests)
      /\ cassette \in Seq(Entries) /\ config \in Configs
  BY StoodSteady
<1>2. phase = "recording" => /\ Matched(trace, execs, causes)
                             /\ run.pc = "act" /\ Calls(run) # <<>> => Primary(run).tool # ""
  BY DEF MatchedInv
<1>3. CASE RecordAsk
  <2> DEFINE r == Request(run, "summary")
  <2>1. PICK response \in Responses, cite \in {0} \cup {o.seq : o \in run.observed} :
          LET parts == Delivered(config.model.provider, response, r.step, cite) IN
          run' = Heard(r, Completion(parts))
    BY <1>3 DEF RecordAsk
  <2> DEFINE parts == Delivered(config.model.provider, response, r.step, cite)
             said == Completion(parts)
             calls == said.calls
  <2>2. /\ phase = "recording" /\ run.pc = "request" /\ causes \subseteq causes'
        /\ UNCHANGED <<phase, trace, execs, exit>>
    BY <1>3 DEF RecordAsk
  <2>3. /\ Steady(r) /\ r.step = run.step + 1 /\ r.stale = run.stale
    BY <1>1, <2>2, RequestSteady
  <2>4. r.step \in Nat /\ r.stale < r.step
    <3>1. run.stale \in Nat /\ run.stale <= run.step
      BY <1>1, RunnerFields DEF Steady
    <3> QED
      BY <1>1, <2>3, <3>1
  <2>5. /\ config.model.provider \in {"anthropic", "openai", "google"}
        /\ response \in Seq(Part) /\ cite \in Nat
    BY <1>1, RunnerFields, ReplayAssumption DEF Config, ThinkingModel, Steady
  <2>6. said \in Completions
    BY <2>4, <2>5, DeliveredTyped, CompletionTyped
  <2>7. calls # <<>> => calls[1].tool # ""
    BY <2>4, <2>5, DeliveredNamed
  <2>8. run' = Heard(r, said)
    BY <2>1
  <2> HIDE DEF r, parts, said
  <2>9. Calls(run') = calls
    BY <2>3, <2>4, <2>6, <2>8, HeardCalls
  <2>10. Calls(run') # <<>> => Primary(run').tool # ""
    BY <2>7, <2>9 DEF Primary
  <2>11. Matched(trace, execs, causes')
    BY <1>2, <2>2, MatchedMore
  <2> QED
    BY <2>2, <2>10, <2>11 DEF MatchedInv
<1>4. CASE RecordAct
  <2>1. PICK t \in Answers_(run) :
            /\ run' = Acted(run, t, "summary")
            /\ trace' = trace \o ActEvents(run, t)
            /\ execs' = IF UsesSandbox(run) THEN Append(execs, t) ELSE execs
            /\ causes \subseteq causes'
            /\ TraceText(t) # t => "altered" \in causes'
            /\ Calls(run) # <<>> /\ RefusedBacked(run) => "refused" \in causes'
    <3> HIDE DEF Acted, ActEvents, UsesSandbox, SummaryEntry, RefusedBacked, Calls, TraceText, Act,
                 Answers_
    <3> QED
      BY <1>4 DEF RecordAct
  <2>2. phase = "recording" /\ run.pc = "act" /\ UNCHANGED <<phase, exit>>
    BY <1>4 DEF RecordAct
  <2>3. t \in Texts
    <3>1. Answers_(run) \subseteq Outputs \cup {NoText}
      BY DEF Answers_
    <3> QED
      BY <3>1, TextsTyped
  <2>4. Calls(run) # <<>> => Primary(run).tool # ""
    BY <1>2, <2>2
  <2>5. Matched(trace, execs, causes)
    BY <1>2, <2>2
  <2>6. Matched(trace \o ActEvents(run, t), execs', causes')
    BY <1>1, <2>1, <2>3, <2>4, <2>5, MatchedAct
  <2>7. run'.pc # "act"
    BY <1>1, <2>1, <2>2, <2>3, ActedSteady
  <2> QED
    BY <2>1, <2>2, <2>6, <2>7 DEF MatchedInv
<1>5. ASSUME phase = "recording", phase' = "recording", causes \subseteq causes', execs' = execs,
             run'.pc = "ended",
             "refused" \notin causes' => ExecResults(trace') = ExecResults(trace)
      PROVE  MatchedInv'
  <2>1. Matched(trace', execs, causes')
    BY <1>2, <1>5, MatchedMore
  <2> QED
    BY <1>5, <2>1 DEF MatchedInv
<1>6. CASE RecordExhausted \/ RecordCeiling \/ RecordDies
  <2>1. /\ phase = "recording" /\ phase' = phase /\ causes \subseteq causes' /\ execs' = execs
        /\ trace' = trace /\ run' \in {Ended(run, "exhausted"), Ended(run, "none")}
    BY <1>6 DEF RecordExhausted, RecordCeiling, RecordDies
  <2>2. run'.pc = "ended"
    BY <1>1, <2>1, EndedSteady DEF Outcomes
  <2> QED
    BY <1>5, <2>1, <2>2
<1>7. CASE RecordFails
  <2>1. /\ phase = "recording" /\ phase' = phase /\ causes \subseteq causes' /\ execs' = execs
        /\ run' = Ended(run, "error")
        /\ \/ trace' = trace
           \/ /\ run.pc = "act" /\ Act(run) \in {"exec", "write"}
              /\ trace' = trace \o ExtraEvents(run) \o <<Event("tool.call", Primary(run), NoText)>>
              /\ RefusedBacked(run) => "refused" \in causes'
    BY <1>7 DEF RecordFails
  <2>2. run'.pc = "ended"
    BY <1>1, <2>1, EndedSteady DEF Outcomes
  <2>3. ASSUME run.pc = "act", Act(run) \in {"exec", "write"}, ~RefusedBacked(run),
               trace' = trace \o ExtraEvents(run) \o <<Event("tool.call", Primary(run), NoText)>>
        PROVE  ExecResults(trace') = ExecResults(trace)
    <3> DEFINE refused == ExtraEvents(run)
               start == trace \o refused
               e == Event("tool.call", Primary(run), NoText)
    <3>1. Calls(run) # <<>>
      BY <2>3, ActCases
    <3>2. /\ refused \in Seq(Events) /\ (\A i \in 1 .. Len(refused) : ~Queued(refused[i]))
          /\ Primary(run) \in Part
      BY <1>1, <2>3, <3>1, CallsTyped, ExtrasTyped, ExtrasUnqueued
    <3>3. e \in Events /\ ~Queued(e)
      <4>1. "tool.call" \in EventTypes
        BY DEF EventTypes
      <4>2. e \in Events
        BY <3>2, <4>1, EventTyped, TextsTyped
      <4> QED
        BY <4>2 DEF Queued, Event
    <3>4. trace' = start \o <<e>>
      BY <2>3
    <3> HIDE DEF refused, e
    <3>5. start \in Seq(Events)
      BY <1>1, <3>2, JoinNothing
    <3>6. ExecResults(start) = ExecResults(trace)
      BY <1>1, <3>2, ResultsJoin
    <3> HIDE DEF start
    <3>7. start \o <<e>> = Append(start, e)
      BY <3>3, <3>5, JoinOne
    <3> QED
      BY <3>3, <3>4, <3>5, <3>6, <3>7, ResultsAppend
  <2>4. "refused" \notin causes' => ExecResults(trace') = ExecResults(trace)
    BY <2>1, <2>3
  <2> QED
    BY <1>5, <2>1, <2>2, <2>4
<1>8. CASE RefuseReplay
  <2>1. phase = "recording" /\ exit' = "refused" /\ UNCHANGED <<run, trace, execs, causes>>
    BY <1>8 DEF RefuseReplay, Stop
  <2> QED
    BY <1>2, <2>1 DEF MatchedInv
<1>9. CASE StartReplay
  <2>1. /\ phase = "recording" /\ phase' = "replaying" /\ exit' = exit /\ causes' = causes
        /\ original'.trace = trace /\ original'.execs = execs /\ execs' = <<>>
    BY <1>9 DEF StartReplay, Recorded
  <2>2. exit' # "refused"
    BY <2>1 DEF Exits
  <2>3. Leads(execs', Queue')
    <3>1. Queue' \in Seq(Texts)
      BY <1>1, <2>1, ResultsTyped DEF Queue
    <3> HIDE DEF Queue
    <3>2. Len(Queue') \in Nat /\ Len(execs') = 0
      BY <2>1, <3>1
    <3> QED
      BY <3>2 DEF Leads
  <2>4. Matched(original'.trace, original'.execs, causes')
    BY <1>2, <2>1
  <2> QED
    BY <2>1, <2>2, <2>3, <2>4 DEF MatchedInv
<1>b. CASE CassetteUnreadable
  <2>1. /\ phase = "recording" /\ phase' = "done" /\ exit' = "raised" /\ causes' = causes
        /\ original'.trace = trace /\ original'.execs = execs /\ execs' = <<>>
    BY <1>b DEF CassetteUnreadable, Recorded, Stop
  <2>2. Leads(execs', Queue')
    <3>1. Queue' \in Seq(Texts)
      BY <1>1, <2>1, ResultsTyped DEF Queue
    <3> HIDE DEF Queue
    <3>2. Len(Queue') \in Nat /\ Len(execs') = 0
      BY <2>1, <3>1
    <3> QED
      BY <3>2 DEF Leads
  <2>3. Matched(original'.trace, original'.execs, causes')
    BY <1>2, <2>1
  <2> QED
    BY <2>1, <2>2, <2>3 DEF MatchedInv
<1>10. ASSUME ~(phase = "recording" \/ exit = "refused"), ~(phase' = "recording" \/ exit' = "refused"),
              UNCHANGED <<original, causes>>, Leads(execs', Queue)
       PROVE  MatchedInv'
  <2>1. Matched(original.trace, original.execs, causes)
    BY <1>10 DEF MatchedInv
  <2>2. Queue' = Queue
    BY <1>10 DEF Queue
  <2> QED
    BY <1>10, <2>1, <2>2 DEF MatchedInv
<1>a. ~(phase = "recording" \/ exit = "refused") => Leads(execs, Queue)
  BY DEF MatchedInv
<1>11. CASE ReplayAsk \/ ReplayUnknown \/ ReplayPastEnd \/ ReplayExhausted \/ Check
  <2>1. /\ phase = "replaying" /\ phase' \in {"replaying", "done"}
        /\ exit' \in {exit, "raised", "mismatch", "ok"} /\ UNCHANGED <<original, causes, execs>>
    BY <1>11 DEF ReplayAsk, ReplayUnknown, ReplayPastEnd, ReplayExhausted, Check, Stop
  <2> QED
    BY <1>10, <1>a, <2>1 DEF Exits
<1>12. CASE ReplayAct
  <2>1. /\ phase = "replaying" /\ UNCHANGED <<phase, exit, original, causes>>
        /\ UsesSandbox(run) => Len(execs) < Len(Queue)
        /\ execs' = IF UsesSandbox(run) THEN Append(execs, Queue[Len(execs) + 1]) ELSE execs
    BY <1>12 DEF ReplayAct
  <2>2. Leads(execs, Queue)
    BY <1>a, <2>1 DEF Exits
  <2>3. Leads(execs', Queue)
    <3>1. Queue \in Seq(Texts)
      BY ResultsTyped DEF Queue, TypesInv, Kept, Originals
    <3> DEFINE longer == Append(execs, Queue[Len(execs) + 1])
    <3> HIDE DEF Queue
    <3>2. CASE UsesSandbox(run)
      <4>1. Len(execs) < Len(Queue) /\ execs' = longer
        BY <2>1, <3>2
      <4>2. Queue[Len(execs) + 1] \in Texts
        BY <1>1, <3>1, <4>1
      <4>3. longer = Append(execs, Queue[Len(execs) + 1])
        OBVIOUS
      <4> HIDE DEF longer
      <4>4. /\ Len(longer) = Len(execs) + 1 /\ longer[Len(execs) + 1] = Queue[Len(execs) + 1]
            /\ \A i \in 1 .. Len(execs) : longer[i] = execs[i]
            /\ \A i \in 1 .. Len(longer) : i \in 1 .. Len(execs) \/ i = Len(execs) + 1
            /\ Len(execs) \in Nat
        BY <1>1, <4>2, <4>3, AppendParts
      <4>5. Len(Queue) \in Nat
        BY <3>1
      <4> QED
        BY <2>2, <4>1, <4>4, <4>5 DEF Leads
    <3>3. CASE ~UsesSandbox(run)
      BY <2>1, <2>2, <3>3
    <3> QED
      BY <3>2, <3>3
  <2> QED
    BY <1>10, <2>1, <2>3 DEF Exits
<1>13. CASE UNCHANGED vars
  BY <1>13 DEF MatchedInv, vars, Queue, Calls, Primary
<1> QED
  BY <1>3, <1>4, <1>6, <1>7, <1>8, <1>9, <1>b, <1>11, <1>12, <1>13 DEF Next

-----------------------------------------------------------------------------
(* A replay in the story of its recording.                                     *)

LEMMA PickedSome ==
    ASSUME NEW S, NEW s \in Seq(S), NEW at, NEW i \in 1 .. Len(s), i \in at
    PROVE  Picked(s, at) # <<>>
<1>1. Len(s) \in Nat
  OBVIOUS
<1>2. PICK f : Picks(s, at, Len(s), f) /\ Picked(s, at) = f[Len(s)]
  BY <1>1, PickedIs
<1>3. /\ f[0] = <<>>
      /\ \A n \in 1 .. Len(s) : f[n] = IF n \in at THEN Append(f[n - 1], s[n]) ELSE f[n - 1]
  BY <1>1, <1>2, PicksStep
<1> DEFINE Fine(p, n) == p \in Seq(S) /\ (n >= i => Len(p) >= 1)
           bad == {n \in 0 .. Len(s) : ~Fine(f[n], n)}
<1>4. bad = {}
  <2> SUFFICES ASSUME bad # {} PROVE FALSE
    OBVIOUS
  <2>1. bad \in SUBSET Nat
    BY <1>1
  <2>2. PICK n \in bad : \A j \in bad : n <= j
    BY <2>1, FirstExists
  <2>3. n \in 0 .. Len(s) /\ ~Fine(f[n], n)
    OBVIOUS
  <2>4. n # 0
    <3>1. <<>> \in Seq(S)
      OBVIOUS
    <3>2. Fine(<<>>, 0)
      BY <3>1
    <3> HIDE DEF Fine
    <3> QED
      BY <1>3, <2>3, <3>2
  <2>5. n - 1 \in 0 .. Len(s) /\ n - 1 \notin bad /\ n \in 1 .. Len(s)
    BY <1>1, <2>2, <2>3, <2>4
  <2>6. Fine(f[n - 1], n - 1)
    BY <2>5
  <2> DEFINE p == f[n - 1]
             q == Append(p, s[n])
  <2>7. p \in Seq(S) /\ (n - 1 >= i => Len(p) >= 1) /\ s[n] \in S
    BY <2>5, <2>6
  <2>8. f[n] = IF n \in at THEN q ELSE p
    BY <1>3, <2>5
  <2> HIDE DEF p
  <2>9. q \in Seq(S) /\ Len(q) = Len(p) + 1 /\ Len(p) \in Nat
    BY <2>7
  <2> HIDE DEF q
  <2>10. CASE n \in at
    BY <2>3, <2>8, <2>9, <2>10
  <2>11. CASE n \notin at
    BY <2>3, <2>5, <2>7, <2>8, <2>11
  <2> QED
    BY <2>10, <2>11
<1>5. Fine(f[Len(s)], Len(s))
  BY <1>1, <1>4
<1> QED
  BY <1>2, <1>5

\* What is served was recorded for the request, and what was recorded is served.
LEMMA ServedIs ==
    ASSUME cassette \in Seq(Entries), asked \in Seq(Requests), NEW request
    PROVE  /\ Served(request) # <<>> =>
                  \E i \in 1 .. Len(cassette) : /\ cassette[i].key = request
                                                /\ Served(request)[1] = cassette[i].response
           /\ (\E i \in 1 .. Len(cassette) : cassette[i].key = request) => Served(request) # <<>>
<1> DEFINE at == {i \in DOMAIN cassette : cassette[i].key = request}
           candidates == Picked(cassette, at)
           askedOf == {i \in DOMAIN asked : asked[i] = request}
           before == Cardinality(askedOf)
           index == IF before + 1 < Len(candidates) THEN before + 1 ELSE Len(candidates)
<1>1. before \in Nat
  <2>1. IsFiniteSet(1 .. Len(asked)) /\ askedOf \subseteq 1 .. Len(asked)
    BY FS_Interval
  <2> HIDE DEF askedOf
  <2>2. IsFiniteSet(askedOf)
    BY <2>1, FS_Subset
  <2> QED
    BY <2>2, FS_CardinalityType
<1>2. Served(request) = IF candidates = <<>> THEN <<>> ELSE <<candidates[index].response>>
  BY DEF Served, Key
<1> HIDE DEF before
<1>3. /\ candidates \in Seq(Entries)
      /\ \A k \in 1 .. Len(candidates) :
             \E i \in 1 .. Len(cassette) : i \in at /\ candidates[k] = cassette[i]
  <2> HIDE DEF at
  <2> QED
    BY PickedTyped
<1>4. \A i \in at : cassette[i].key = request
  OBVIOUS
<1>5. (\E i \in 1 .. Len(cassette) : cassette[i].key = request) => candidates # <<>>
  <2> SUFFICES ASSUME NEW i \in 1 .. Len(cassette), cassette[i].key = request
               PROVE  candidates # <<>>
    OBVIOUS
  <2>1. i \in at
    OBVIOUS
  <2> HIDE DEF at
  <2> QED
    BY <2>1, PickedSome
<1> HIDE DEF at, candidates
<1>6. ASSUME Served(request) # <<>>
      PROVE  \E i \in 1 .. Len(cassette) : /\ cassette[i].key = request
                                           /\ Served(request)[1] = cassette[i].response
  <2>1. candidates # <<>> /\ Served(request)[1] = candidates[index].response
    BY <1>2, <1>6
  <2>2. index \in 1 .. Len(candidates)
    BY <1>1, <1>3, <2>1
  <2> HIDE DEF index
  <2>3. PICK i \in 1 .. Len(cassette) : i \in at /\ candidates[index] = cassette[i]
    BY <1>3, <2>2
  <2>4. cassette[i].key = request /\ Served(request)[1] = cassette[i].response
    BY <1>4, <2>1, <2>3
  <2> QED
    BY <2>4
<1>7. candidates # <<>> => Served(request) # <<>>
  BY <1>2
<1> QED
  BY <1>5, <1>6, <1>7

\* The runner of the recording with its k-th completion, and how many results it
\* has been given when it is done with it.
Heeds(bs, said, k) == Heeded(bs[k].run, said[k])
Paid(bs, said, k) == IF UsesSandbox(Heeds(bs, said, k)) THEN Len(bs[k].execs) + 1
                     ELSE Len(bs[k].execs)

\* A replay that has made k requests and been given n of q results waits for a
\* completion, works on one or is over.
Waits(bs, asks, said, r, k, n) ==
    /\ r.pc = "request" /\ Sound(r) /\ r.step = k /\ Mark(r.history) = "findings"
    /\ k = 0 => n = 0 /\ \E t \in Texts : r = NewRun(t)
    /\ k # 0 => /\ k \in 1 .. Len(asks) /\ Act(Heeds(bs, said, k)) # "judge"
                /\ n = Paid(bs, said, k)
                /\ \E t \in Texts : r = Went(Heeds(bs, said, k), t, "extract")

Works(bs, asks, said, r, k, n) ==
    /\ r.pc = "act" /\ k \in 1 .. Len(asks) /\ r = Heeds(bs, said, k)
    /\ Mark(r.history) = "findings" /\ n = Len(bs[k].execs)

Over(bs, asks, said, r, k, n, q) ==
    /\ r.pc = "ended" /\ k \in 1 .. Len(asks)
    /\ \/ /\ Act(Heeds(bs, said, k)) = "judge" /\ r.outcome \in {"solved", "candidate"}
          /\ n = Len(bs[k].execs) + 1 \/ (n = Len(bs[k].execs) /\ q <= n)
       \/ /\ Act(Heeds(bs, said, k)) # "judge" /\ r.outcome = "exhausted" /\ k = MaxSteps
          /\ n = Paid(bs, said, k)

Follows(bs, asks, said, r, k, n, q) ==
    \/ Waits(bs, asks, said, r, k, n)
    \/ Works(bs, asks, said, r, k, n)
    \/ Over(bs, asks, said, r, k, n, q)

LEMMA HeedsSound ==
    ASSUME NEW bs, NEW asks, NEW said, NEW xs, NEW level, NEW cs,
           Recounts(bs, asks, said, xs, level, cs), NEW k \in 1 .. Len(asks),
           NEW p, p = Heeds(bs, said, k)
    PROVE  /\ k \in 1 .. Len(bs) /\ k \in Nat \ {0} /\ Ready(bs[k], k)
           /\ bs[k].execs \in Seq(Texts) /\ bs[k].trace \in Seq(Events)
           /\ Leads(bs[k].execs, xs) /\ Asks(bs[k].run, asks[k], level, cs)
           /\ said[k] \in Seq(Part)
           /\ Sound(p) /\ p.pc = "act" /\ p.step = k
<1> HIDE DEF Heeded, Ready
<1>1. /\ bs \in Seq(Moment) /\ Len(bs) \in {Len(asks), Len(asks) + 1}
      /\ asks \in Seq(Requests) /\ said \in Seq(Seq(Part)) /\ Len(said) = Len(asks)
      /\ \A j \in 1 .. Len(bs) : Ready(bs[j], j) /\ Leads(bs[j].execs, xs)
      /\ \A j \in 1 .. Len(asks) : Asks(bs[j].run, asks[j], level, cs)
  BY DEF Recounts
<1>2. k \in 1 .. Len(bs) /\ k \in Nat \ {0}
  BY <1>1
<1>3. bs[k] \in Moment /\ Ready(bs[k], k) /\ Leads(bs[k].execs, xs)
      /\ Asks(bs[k].run, asks[k], level, cs)
  BY <1>1, <1>2
<1>4. bs[k].execs \in Seq(Texts) /\ bs[k].trace \in Seq(Events)
  BY <1>3 DEF Moment
<1>5. said[k] \in Seq(Part)
  <2> DEFINE P == Seq(Part)
  <2>1. said \in Seq(P) /\ Len(said) = Len(asks)
    BY <1>1
  <2> HIDE DEF P
  <2>2. said[k] \in P
    BY <2>1
  <2> QED
    BY <2>2 DEF P
<1>6. Sound(p) /\ p.pc = "act" /\ p.step = k
  BY <1>2, <1>3, <1>5, HeededReady DEF Heeds
<1> QED
  BY <1>2, <1>3, <1>4, <1>5, <1>6

LEMMA PassedOn ==
    ASSUME NEW bs, NEW asks, NEW said, NEW xs, NEW level, NEW cs,
           Recounts(bs, asks, said, xs, level, cs), NEW k \in 1 .. Len(bs) - 1,
           NEW p, p = Heeds(bs, said, k)
    PROVE  /\ k \in 1 .. Len(asks) /\ k + 1 \in 1 .. Len(bs) /\ Act(p) # "judge"
           /\ \E t \in Texts : Ran(p, t, bs[k], bs[k + 1], cs)
           /\ Len(bs[k + 1].execs) = Paid(bs, said, k)
           /\ bs[k + 1].execs \in Seq(Texts) /\ Leads(bs[k + 1].execs, xs)
<1>1. /\ bs \in Seq(Moment) /\ Len(bs) \in {Len(asks), Len(asks) + 1} /\ asks \in Seq(Requests)
      /\ \A j \in 1 .. Len(bs) - 1 : Passed(bs[j], bs[j + 1], said[j], cs)
      /\ \A j \in 1 .. Len(bs) : Leads(bs[j].execs, xs)
  BY DEF Recounts
<1>2. k \in 1 .. Len(asks) /\ k + 1 \in 1 .. Len(bs) /\ k \in 1 .. Len(bs)
  BY <1>1
<1>3. Passed(bs[k], bs[k + 1], said[k], cs)
  BY <1>1
<1> HIDE DEF Heeded
<1>4. Act(p) # "judge" /\ \E t \in Texts : Ran(p, t, bs[k], bs[k + 1], cs)
  BY <1>3 DEF Passed, Heeds
<1>5. PICK t \in Texts : Ran(p, t, bs[k], bs[k + 1], cs)
  BY <1>4
<1> DEFINE before == bs[k].execs
           after == bs[k + 1].execs
<1>6. before \in Seq(Texts) /\ after \in Seq(Texts)
  <2>1. bs[k] \in Moment /\ bs[k + 1] \in Moment
    BY <1>1, <1>2
  <2> QED
    BY <2>1 DEF Moment
<1>7. after = IF UsesSandbox(p) THEN Append(before, t) ELSE before
  BY <1>5 DEF Ran
<1>8. Paid(bs, said, k) = IF UsesSandbox(p) THEN Len(before) + 1 ELSE Len(before)
  BY DEF Paid
<1>9. Leads(after, xs)
  BY <1>1, <1>2
<1> HIDE DEF before, after
<1>10. Len(after) = Paid(bs, said, k)
  BY <1>6, <1>7, <1>8
<1> QED
  BY <1>2, <1>4, <1>6, <1>9, <1>10 DEF after

\* A request of the replay that the recording made was made at the same step, and
\* neither had compacted anything.
LEMMA AskedThere ==
    ASSUME NEW bs, NEW asks, NEW said, NEW xs, NEW level, NEW cs,
           Recounts(bs, asks, said, xs, level, cs),
           NEW r, Sound(r), Mark(r.history) = "findings",
           NEW j \in 1 .. Len(asks), asks[j].messages = Compacted("extract", r.history)
    PROVE  /\ j = r.step + 1 /\ bs[j].run.history = r.history
           /\ ~Compactable(r.history, MaxMessages)
<1> DEFINE b == bs[j].run
<1>1. Ready(bs[j], j) /\ Asks(bs[j].run, asks[j], level, cs) /\ j \in Nat
  <2> DEFINE p == Heeds(bs, said, j)
  <2>1. p = Heeds(bs, said, j)
    OBVIOUS
  <2> HIDE DEF p
  <2> QED
    BY <2>1, HeedsSound
<1>2. Sound(b) /\ b.step = j - 1 /\ Mark(b.history) \in {"findings", "summary"}
  BY <1>1 DEF Ready
<1>3. asks[j].messages = Compacted("summary", b.history)
  BY <1>1 DEF Asks
<1> HIDE DEF b
<1>4. b.history \in Histories /\ r.history \in Histories /\ r.step \in Nat
  BY <1>2, RunnerFields DEF Sound, Steady
<1> DEFINE mine == Compacted("extract", r.history)
           its == Compacted("summary", b.history)
<1>5. mine = its
  BY <1>3
<1>6. IF Compactable(r.history, MaxMessages) THEN Mark(mine) = "extract" ELSE mine = r.history
  BY <1>4, CompactedMark
<1>7. IF Compactable(b.history, MaxMessages) THEN Mark(its) = "summary" ELSE its = b.history
  BY <1>4, CompactedMark
<1> HIDE DEF mine, its
<1>8. ~Compactable(r.history, MaxMessages) /\ mine = r.history
  <2>1. Mark(its) \in {"findings", "summary"}
    BY <1>2, <1>7
  <2> QED
    BY <1>5, <1>6, <2>1
<1>9. b.history = r.history
  <2>1. Mark(its) = "findings"
    BY <1>5, <1>8
  <2> QED
    BY <1>5, <1>7, <1>8, <2>1
<1>10. r.step = b.step
  BY <1>2, <1>9 DEF Sound, Numbered
<1> QED
  BY <1>1, <1>2, <1>4, <1>8, <1>9, <1>10 DEF b

LEMMA NewRunSame ==
    ASSUME NEW t \in Texts, NEW u \in Texts, NewRun(t).history = NewRun(u).history
    PROVE  NewRun(t) = NewRun(u)
<1>1. NewRun(t).history = <<Said("findings", t)>>
  BY NewRunSound
<1>2. NewRun(u).history = <<Said("findings", u)>>
  BY NewRunSound
<1> DEFINE a == Said("findings", t)
           b == Said("findings", u)
<1>3. a.text = <<"findings", t, 0>> /\ b.text = <<"findings", u, 0>>
  BY DEF Said, Msg
<1>4. <<a>> = <<b>>
  BY <1>1, <1>2
<1> HIDE DEF a, b
<1>5. a = b
  BY <1>4
<1>6. t = u
  BY <1>3, <1>5
<1> QED
  BY <1>6

\* One that was shown what the recording was shown is where the recording was.
LEMMA SameRunner ==
    ASSUME NEW bs, NEW asks, NEW said, NEW xs, NEW level, NEW cs,
           Recounts(bs, asks, said, xs, level, cs),
           NEW r, NEW k \in Nat, NEW n, Waits(bs, asks, said, r, k, n),
           k + 1 \in 1 .. Len(bs), bs[k + 1].run.history = r.history
    PROVE  bs[k + 1].run = r /\ n = Len(bs[k + 1].execs)
<1> HIDE DEF NewRun, Went
<1>1. CASE k = 0
  <2>1. Begun(bs[1], cs)
    BY DEF Recounts
  <2>2. PICK findings \in Texts : bs[1].run = NewRun(findings) /\ bs[1].execs = <<>>
    BY <2>1 DEF Begun
  <2>3. PICK t \in Texts : r = NewRun(t)
    BY <1>1 DEF Waits
  <2>4. k + 1 = 1
    BY <1>1
  <2>5. NewRun(findings).history = NewRun(t).history
    BY <2>2, <2>3, <2>4
  <2>6. NewRun(findings) = NewRun(t)
    BY <2>5, NewRunSame
  <2>7. n = 0
    BY <1>1 DEF Waits
  <2>8. Len(bs[1].execs) = 0
    BY <2>2
  <2> QED
    BY <2>2, <2>3, <2>4, <2>6, <2>7, <2>8
<1>2. CASE k # 0
  <2> DEFINE p == Heeds(bs, said, k)
  <2>1. p = Heeds(bs, said, k)
    OBVIOUS
  <2>2. k \in 1 .. Len(bs) - 1 /\ k \in 1 .. Len(asks)
    <3>1. k \in 1 .. Len(asks)
      BY <1>2 DEF Waits
    <3>2. Len(bs) \in Nat
      BY DEF Recounts
    <3> QED
      BY <1>2, <3>1, <3>2
  <2>3. /\ Act(p) # "judge" /\ n = Paid(bs, said, k)
        /\ \E t \in Texts : r = Went(p, t, "extract")
    BY <1>2 DEF Waits
  <2> HIDE DEF p
  <2>4. PICK t \in Texts : r = Went(p, t, "extract")
    BY <2>3
  <2>5. /\ \E u \in Texts : Ran(p, u, bs[k], bs[k + 1], cs)
        /\ Len(bs[k + 1].execs) = Paid(bs, said, k)
    BY <2>1, <2>2, PassedOn
  <2>6. PICK u \in Texts : Ran(p, u, bs[k], bs[k + 1], cs)
    BY <2>5
  <2>7. bs[k + 1].run = Went(p, u, "summary")
    BY <2>6 DEF Ran
  <2>8. Sound(p) /\ p.pc = "act"
    BY <2>1, <2>2, HeedsSound
  <2>9. Went(p, u, "summary").history = Went(p, t, "extract").history
    BY <2>4, <2>7
  <2>10. Went(p, u, "summary") = Went(p, t, "extract")
    BY <2>3, <2>8, <2>9, WentSame
  <2> QED
    BY <2>3, <2>4, <2>5, <2>7, <2>10
<1> QED
  BY <1>1, <1>2

LEMMA RequestSame ==
    ASSUME NEW r, ~Compactable(r.history, MaxMessages)
    PROVE  Request(r, "extract") = Request(r, "summary")
<1>1. Compacted("extract", r.history) = Compacted("summary", r.history)
  BY DEF Compacted
<1> QED
  BY <1>1 DEF Request

\* A completion served to a replay is the one the recording was given there.
LEMMA WorksNext ==
    ASSUME NEW bs, NEW asks, NEW said, NEW xs, NEW level, NEW cs,
           Recounts(bs, asks, said, xs, level, cs),
           NEW r, NEW k \in Nat, NEW n, Waits(bs, asks, said, r, k, n),
           NEW j \in 1 .. Len(asks), asks[j].messages = Compacted("extract", r.history),
           NEW q, q = Heard(Request(r, "extract"), Completion(said[j]))
    PROVE  j = k + 1 /\ Works(bs, asks, said, q, k + 1, n)
<1> HIDE DEF Heard, Request, Completion
<1>1. r.pc = "request" /\ Sound(r) /\ r.step = k /\ Mark(r.history) = "findings"
  BY DEF Waits
<1>2. /\ j = k + 1 /\ bs[j].run.history = r.history /\ ~Compactable(r.history, MaxMessages)
  BY <1>1, AskedThere
<1>3. j \in 1 .. Len(bs) /\ said[j] \in Seq(Part)
  <2> DEFINE p == Heeds(bs, said, j)
  <2>1. p = Heeds(bs, said, j)
    OBVIOUS
  <2> HIDE DEF p
  <2> QED
    BY <2>1, HeedsSound
<1>4. bs[j].run = r /\ n = Len(bs[j].execs)
  BY <1>2, <1>3, SameRunner
<1>5. q = Heeds(bs, said, j)
  <2>1. q = Heard(Request(r, "summary"), Completion(said[j]))
    BY <1>2, RequestSame
  <2> QED
    BY <1>4, <2>1 DEF Heeds, Heeded
<1>6. q.pc = "act" /\ Mark(q.history) = "findings"
  <2> DEFINE said_ == Completion(said[j])
  <2>1. said_ \in Completions
    BY <1>3, CompletionTyped
  <2>2. q = Heard(Request(r, "extract"), said_)
    OBVIOUS
  <2> HIDE DEF said_
  <2>3. /\ q.pc = "act" /\ Mark(q.history) = Mark(Request(r, "extract").history)
        /\ Request(r, "extract").history = Compacted("extract", r.history)
    BY <1>1, <2>1, <2>2, AskSound
  <2>4. Compacted("extract", r.history) = r.history
    BY <1>2 DEF Compacted
  <2> QED
    BY <1>1, <2>3, <2>4
<1> QED
  BY <1>2, <1>4, <1>5, <1>6 DEF Works

LEMMA WaitsFirst ==
    ASSUME NEW bs, NEW asks, NEW said, NEW t \in Texts, NEW r, r = NewRun(t)
    PROVE  Waits(bs, asks, said, r, 0, 0)
<1> HIDE DEF NewRun, Sound
<1>1. Sound(r) /\ r.pc = "request" /\ r.step = 0 /\ Mark(r.history) = "findings"
  BY NewRunSound
<1> QED
  BY <1>1 DEF Waits

LEMMA WaitsNext ==
    ASSUME NEW bs, NEW asks, NEW said, NEW xs, NEW level, NEW cs,
           Recounts(bs, asks, said, xs, level, cs),
           NEW r, NEW k, NEW n, Works(bs, asks, said, r, k, n), Act(r) # "judge",
           NEW t \in Texts, NEW q, q = Acted(r, t, "extract"),
           NEW m, m = IF UsesSandbox(r) THEN n + 1 ELSE n
    PROVE  Waits(bs, asks, said, q, k, m)
<1> HIDE DEF Went, Acted, Sound
<1>1. /\ k \in 1 .. Len(asks) /\ r = Heeds(bs, said, k) /\ Mark(r.history) = "findings"
      /\ n = Len(bs[k].execs)
  BY DEF Works
<1>2. Sound(r) /\ r.pc = "act" /\ r.step = k /\ k \in Nat \ {0}
  BY <1>1, HeedsSound
<1>3. q = Went(r, t, "extract")
  BY WentIs
<1>4. Sound(q) /\ q.pc = "request" /\ q.step = k /\ Mark(q.history) = "findings"
  BY <1>1, <1>2, <1>3, WentSound
<1>5. m = Paid(bs, said, k)
  BY <1>1 DEF Paid
<1>6. \E u \in Texts : q = Went(Heeds(bs, said, k), u, "extract")
  BY <1>1, <1>3
<1> QED
  BY <1>1, <1>2, <1>4, <1>5, <1>6 DEF Waits

LEMMA OverJudged ==
    ASSUME NEW bs, NEW asks, NEW said, NEW xs, NEW level, NEW cs,
           Recounts(bs, asks, said, xs, level, cs),
           NEW r, NEW k, NEW n, Works(bs, asks, said, r, k, n), Act(r) = "judge",
           NEW t \in Texts, NEW q, q = Acted(r, t, "extract"),
           NEW m, NEW z, m = n + 1 \/ (m = n /\ z <= n)
    PROVE  Over(bs, asks, said, q, k, m, z)
<1> HIDE DEF Acted
<1>1. /\ k \in 1 .. Len(asks) /\ r = Heeds(bs, said, k) /\ n = Len(bs[k].execs)
  BY DEF Works
<1>2. Steady(r) /\ r.pc = "act"
  BY <1>1, HeedsSound DEF Sound
<1>3. q.pc = "ended" /\ q.outcome \in {"solved", "candidate"}
  BY <1>2, JudgedIs
<1> QED
  BY <1>1, <1>3 DEF Over

LEMMA OverExhausted ==
    ASSUME NEW bs, NEW asks, NEW said, NEW r, NEW n, NEW z,
           Waits(bs, asks, said, r, MaxSteps, n), NEW q, q = Ended(r, "exhausted")
    PROVE  Over(bs, asks, said, q, MaxSteps, n, z)
<1>1. MaxSteps # 0 /\ "exhausted" \in Outcomes
  BY ReplayAssumption DEF Outcomes
<1>2. Steady(r)
  BY DEF Waits, Sound
<1>3. q.pc = "ended" /\ q.outcome = "exhausted"
  BY <1>1, <1>2, EndedSteady
<1>4. /\ MaxSteps \in 1 .. Len(asks) /\ Act(Heeds(bs, said, MaxSteps)) # "judge"
      /\ n = Paid(bs, said, MaxSteps)
  BY <1>1 DEF Waits
<1> QED
  BY <1>3, <1>4 DEF Over

\* The judge is the end of a recording: what it acts on is the last completion.
LEMMA JudgesLast ==
    ASSUME NEW bs, NEW asks, NEW said, NEW xs, NEW level, NEW cs,
           Recounts(bs, asks, said, xs, level, cs),
           NEW k \in 1 .. Len(asks), Act(Heeds(bs, said, k)) = "judge"
    PROVE  k = Len(bs) /\ Len(bs) = Len(asks)
<1> DEFINE p == Heeds(bs, said, k)
<1>0. p = Heeds(bs, said, k) /\ Act(p) = "judge"
  OBVIOUS
<1> HIDE DEF p
<1>1. Len(asks) \in Nat /\ Len(bs) \in {Len(asks), Len(asks) + 1}
  BY DEF Recounts
<1>2. k \notin 1 .. Len(bs) - 1
  BY <1>0, PassedOn
<1> QED
  BY <1>1, <1>2

\* A replay that comes to an end has made all the requests of its recording, and
\* has been given all its results unless the recording was cut short.
LEMMA AllAsked ==
    ASSUME NEW bs, NEW asks, NEW said, NEW xs, NEW level, NEW cs,
           Recounts(bs, asks, said, xs, level, cs), Len(asks) <= MaxSteps,
           NEW r, NEW k, NEW n, NEW z, Over(bs, asks, said, r, k, n, z)
    PROVE  k = Len(asks)
<1>1. k \in 1 .. Len(asks) /\ Len(asks) \in Nat /\ MaxSteps \in Nat
  BY ReplayAssumption DEF Over, Recounts
<1>2. CASE Act(Heeds(bs, said, k)) = "judge"
  BY <1>1, <1>2, JudgesLast
<1>3. CASE k = MaxSteps
  BY <1>1, <1>3
<1> QED
  BY <1>2, <1>3 DEF Over

LEMMA AllGiven ==
    ASSUME NEW bs, NEW asks, NEW said, NEW xs \in Seq(Texts), NEW level, NEW cs, NEW h,
           NEW outcome, NEW tr, NEW policy, Recounts(bs, asks, said, xs, level, cs),
           Closed(bs, asks, said, h, outcome, tr, xs, policy, cs), Len(asks) <= MaxSteps,
           Whole(cs),
           NEW r, NEW k, NEW n, Over(bs, asks, said, r, k, n, Len(xs))
    PROVE  n = Len(xs)
<1> HIDE DEF Heeded, Act
<1>1. k = Len(asks) /\ k \in 1 .. Len(asks) /\ k \in Nat
  <2>1. k = Len(asks)
    BY AllAsked
  <2> QED
    BY <2>1 DEF Over, Recounts
<1>2. bs[k].execs \in Seq(Texts)
  <2> DEFINE p == Heeds(bs, said, k)
  <2>1. p = Heeds(bs, said, k)
    OBVIOUS
  <2> HIDE DEF p
  <2> QED
    BY <1>1, <2>1, HeedsSound
<1>3. CASE Len(bs) = Len(asks) /\ Judged(bs[Len(bs)], said[Len(bs)], h, outcome, tr, xs, policy, cs)
  <2> DEFINE b == bs[k].execs
  <2>1. Act(Heeds(bs, said, k)) = "judge" /\ \E t \in Texts : xs = Append(b, t)
    BY <1>1, <1>3 DEF Judged, Heeds
  <2>2. n = Len(b) + 1 \/ (n = Len(b) /\ Len(xs) <= n)
    BY <2>1 DEF Over
  <2> HIDE DEF b
  <2>3. Len(xs) = Len(b) + 1 /\ Len(b) \in Nat
    BY <1>2, <2>1 DEF b
  <2> QED
    BY <2>2, <2>3
<1>4. CASE Len(bs) = Len(asks) + 1 /\ xs = bs[Len(bs)].execs
  <2> DEFINE p == Heeds(bs, said, k)
  <2>1. p = Heeds(bs, said, k) /\ k \in 1 .. Len(bs) - 1
    BY <1>1, <1>4
  <2> HIDE DEF p
  <2>2. Act(p) # "judge" /\ Len(bs[k + 1].execs) = Paid(bs, said, k)
    BY <2>1, PassedOn
  <2>3. n = Paid(bs, said, k)
    BY <2>1, <2>2 DEF Over
  <2> QED
    BY <1>1, <1>4, <2>2, <2>3
<1> QED
  BY <1>3, <1>4 DEF Closed

\* What keeps nothing from being the same: the replay is where the recording was,
\* trace included.
Exact(bs, r, tr, k, h, outcome, ot) ==
    /\ r.pc = "request" => k + 1 \in 1 .. Len(bs) /\ bs[k + 1].run = r /\ bs[k + 1].trace = tr
    /\ r.pc = "act" => bs[k].trace = tr
    /\ r.pc = "ended" => r.history = h /\ r.outcome = outcome /\ tr = ot

\* It asks what was asked,
LEMMA ExactAsked ==
    ASSUME NEW bs, NEW asks, NEW said, NEW xs, NEW level, NEW cs, NEW h, NEW outcome, NEW tr,
           NEW policy, Recounts(bs, asks, said, xs, level, cs),
           Closed(bs, asks, said, h, outcome, tr, xs, policy, cs),
           Whole(cs), "summary" \notin cs,
           NEW r, NEW k \in Nat, k < MaxSteps, k + 1 \in 1 .. Len(bs), bs[k + 1].run = r
    PROVE  /\ k + 1 \in 1 .. Len(asks)
           /\ asks[k + 1] = [messages |-> Compacted("extract", r.history), thinking |-> level]
<1>1. Len(asks) \in Nat /\ Len(bs) \in {Len(asks), Len(asks) + 1} /\ MaxSteps \in Nat
  BY ReplayAssumption DEF Recounts
<1>2. Len(bs) = Len(asks) \/ Len(asks) = MaxSteps
  BY DEF Closed
<1>3. k + 1 \in 1 .. Len(asks)
  BY <1>1, <1>2
<1>4. Asks(r, asks[k + 1], level, cs)
  BY <1>3 DEF Recounts
<1>5. Compacted("summary", r.history) = Compacted("extract", r.history)
  BY <1>4 DEF Asks, Compacted
<1> QED
  BY <1>3, <1>4, <1>5 DEF Asks

\* has a result for each of its execs,
LEMMA ExactGiven ==
    ASSUME NEW bs, NEW asks, NEW said, NEW xs, NEW level, NEW cs, NEW h,
           NEW outcome, NEW tr, NEW policy, Recounts(bs, asks, said, xs, level, cs),
           Closed(bs, asks, said, h, outcome, tr, xs, policy, cs), Whole(cs),
           NEW r, NEW k, NEW n, Works(bs, asks, said, r, k, n), UsesSandbox(r)
    PROVE  n < Len(xs) /\ n \in Nat
<1> HIDE DEF Heeded, Act
<1>1. k \in 1 .. Len(asks) /\ r = Heeds(bs, said, k) /\ n = Len(bs[k].execs)
      /\ Len(asks) \in Nat
  BY DEF Works, Recounts
<1>2. bs[k].execs \in Seq(Texts) /\ k \in 1 .. Len(bs)
  BY <1>1, HeedsSound
<1> DEFINE before == bs[k].execs
<1>3. before \in Seq(Texts) /\ n = Len(before)
  BY <1>1, <1>2
<1>4. CASE k \in 1 .. Len(bs) - 1
  <2>1. Len(bs[k + 1].execs) = Paid(bs, said, k) /\ Leads(bs[k + 1].execs, xs)
    BY <1>1, <1>4, PassedOn
  <2>2. Paid(bs, said, k) = n + 1
    BY <1>1 DEF Paid
  <2> HIDE DEF before
  <2>3. n + 1 <= Len(xs)
    BY <2>1, <2>2 DEF Leads
  <2> QED
    BY <1>3, <2>3
<1>5. CASE k \notin 1 .. Len(bs) - 1
  <2>1. k = Len(bs) /\ Len(bs) = Len(asks)
    BY <1>1, <1>2, <1>5 DEF Recounts
  <2>2. Judged(bs[k], said[k], h, outcome, tr, xs, policy, cs)
    BY <1>1, <2>1 DEF Closed
  <2>3. \E t \in Texts : xs = Append(before, t)
    BY <2>2 DEF Judged
  <2> HIDE DEF before
  <2> QED
    BY <1>3, <2>3
<1> QED
  BY <1>4, <1>5

\* and acts as the recording did on what it was given.
Gets(r, xs, n, t) == t = IF UsesSandbox(r) THEN xs[n + 1] ELSE NoText

LEMMA ExactActed ==
    ASSUME NEW bs, NEW asks, NEW said, NEW xs, NEW level, NEW cs, NEW h,
           NEW outcome, NEW tr, NEW policy, Recounts(bs, asks, said, xs, level, cs),
           Closed(bs, asks, said, h, outcome, tr, xs, policy, cs),
           Whole(cs), "summary" \notin cs,
           NEW r, NEW k, NEW n, Works(bs, asks, said, r, k, n), Act(r) # "judge",
           NEW t \in Texts, Gets(r, xs, n, t), NEW q, q = Acted(r, t, "extract")
    PROVE  /\ q.pc = "request" /\ k + 1 \in 1 .. Len(bs) /\ bs[k + 1].run = q
           /\ bs[k + 1].trace = bs[k].trace \o ActEvents(r, t)
<1> HIDE DEF Heeded, Act, Went, Acted, ActEvents
<1>1. k \in 1 .. Len(asks) /\ r = Heeds(bs, said, k) /\ n = Len(bs[k].execs)
      /\ Len(asks) \in Nat
  BY DEF Works, Recounts
<1>2. bs[k].execs \in Seq(Texts) /\ k \in 1 .. Len(bs) /\ Sound(r) /\ r.pc = "act"
  BY <1>1, HeedsSound
<1>3. k \in 1 .. Len(bs) - 1
  <2> SUFFICES ASSUME k \notin 1 .. Len(bs) - 1 PROVE FALSE
    OBVIOUS
  <2>1. k = Len(bs) /\ Len(bs) = Len(asks)
    BY <1>1, <1>2 DEF Recounts
  <2>2. Judged(bs[k], said[k], h, outcome, tr, xs, policy, cs)
    BY <1>1, <2>1 DEF Closed
  <2> QED
    BY <1>1, <2>2 DEF Judged, Heeds
<1>4. /\ k + 1 \in 1 .. Len(bs) /\ \E u \in Texts : Ran(r, u, bs[k], bs[k + 1], cs)
      /\ bs[k + 1].execs \in Seq(Texts) /\ Leads(bs[k + 1].execs, xs)
  BY <1>1, <1>3, PassedOn
<1>5. PICK u \in Texts : Ran(r, u, bs[k], bs[k + 1], cs)
  BY <1>4
<1> DEFINE before == bs[k].execs
           after == bs[k + 1].execs
<1>6. /\ bs[k + 1].run = Went(r, u, "summary") /\ Went(r, u, "summary") = Went(r, u, "extract")
      /\ bs[k + 1].trace = bs[k].trace \o ActEvents(r, u)
      /\ after = IF UsesSandbox(r) THEN Append(before, u) ELSE before
      /\ UsesSandbox(r) \/ u = NoText
  BY <1>5 DEF Ran
<1>7. u = t
  <2>1. CASE UsesSandbox(r)
    <3>1. before \in Seq(Texts) /\ n = Len(before) /\ after = Append(before, u) /\ Leads(after, xs)
      BY <1>1, <1>2, <1>4, <1>6, <2>1
    <3> HIDE DEF before, after
    <3>2. Len(after) = n + 1 /\ after[n + 1] = u /\ n \in Nat
      BY <3>1
    <3>3. xs[n + 1] = u
      BY <3>1, <3>2 DEF Leads
    <3> QED
      BY <2>1, <3>3 DEF Gets
  <2>2. CASE ~UsesSandbox(r)
    BY <1>6, <2>2 DEF Gets
  <2> QED
    BY <2>1, <2>2
<1>8. q = Went(r, t, "extract")
  BY WentIs
<1>9. q.pc = "request"
  BY <1>2, <1>8, WentSound
<1> QED
  BY <1>4, <1>6, <1>7, <1>8, <1>9

LEMMA ExactJudged ==
    ASSUME NEW bs, NEW asks, NEW said, NEW xs, NEW level, NEW cs, NEW h,
           NEW outcome, NEW tr, Recounts(bs, asks, said, xs, level, cs),
           Closed(bs, asks, said, h, outcome, tr, xs, config.policy, cs), Whole(cs),
           NEW r, NEW k, NEW n, Works(bs, asks, said, r, k, n), Act(r) = "judge",
           NEW t \in Texts, Gets(r, xs, n, t), NEW q, q = Acted(r, t, "extract")
    PROVE  /\ q.pc = "ended" /\ q.history = h /\ q.outcome = outcome
           /\ tr = bs[k].trace \o ActEvents(r, t)
<1> HIDE DEF Heeded, Act, Acted, ActEvents, ExtraAnswers
<1>1. k \in 1 .. Len(asks) /\ r = Heeds(bs, said, k) /\ n = Len(bs[k].execs)
  BY DEF Works
<1>2. bs[k].execs \in Seq(Texts) /\ Steady(r) /\ r.pc = "act"
  BY <1>1, HeedsSound DEF Sound
<1>3. k = Len(bs) /\ Len(bs) = Len(asks)
  BY <1>1, JudgesLast
<1>4. Judged(bs[k], said[k], h, outcome, tr, xs, config.policy, cs)
  <2>1. Len(asks) \in Nat
    BY DEF Recounts
  <2> QED
    BY <1>3, <2>1 DEF Closed
<1> DEFINE before == bs[k].execs
<1>5. PICK u \in Texts :
          /\ h = r.history \o ExtraAnswers(r) /\ outcome = Verdict(config.policy, u \in FlagTexts)
          /\ tr = bs[k].trace \o ActEvents(r, u) /\ xs = Append(before, u)
  BY <1>1, <1>4 DEF Judged, Heeds
<1>6. u = t
  <2>1. before \in Seq(Texts) /\ n = Len(before) /\ xs = Append(before, u)
    BY <1>1, <1>2, <1>5
  <2>2. t = xs[n + 1]
    <3>1. UsesSandbox(r)
      BY DEF UsesSandbox
    <3> HIDE DEF UsesSandbox
    <3> QED
      BY <3>1 DEF Gets
  <2> HIDE DEF before
  <2> QED
    BY <2>1, <2>2
<1>7. /\ q.pc = "ended" /\ q.history = r.history \o ExtraAnswers(r)
      /\ q.outcome = Verdict(config.policy, t \in FlagTexts)
  BY <1>2, JudgedIs
<1> QED
  BY <1>5, <1>6, <1>7

LEMMA ExactExhausted ==
    ASSUME NEW bs, NEW asks, NEW said, NEW xs, NEW level, NEW cs, NEW h, NEW outcome, NEW tr,
           NEW policy, Recounts(bs, asks, said, xs, level, cs),
           Closed(bs, asks, said, h, outcome, tr, xs, policy, cs), Len(asks) <= MaxSteps,
           Whole(cs), NEW r, Steady(r), MaxSteps + 1 \in 1 .. Len(bs),
           bs[MaxSteps + 1].run = r, NEW q, q = Ended(r, "exhausted")
    PROVE  /\ q.pc = "ended" /\ q.history = h /\ q.outcome = outcome
           /\ tr = bs[MaxSteps + 1].trace
<1>1. q.pc = "ended" /\ q.history = r.history /\ q.outcome = "exhausted"
  BY EndedSteady DEF Outcomes
<1>2. Len(asks) \in Nat /\ Len(bs) \in {Len(asks), Len(asks) + 1} /\ MaxSteps \in Nat
  BY ReplayAssumption DEF Recounts
<1>3. Len(bs) = Len(asks) + 1 /\ Len(bs) = MaxSteps + 1
  BY <1>2
<1>4. h = bs[Len(bs)].run.history /\ outcome = "exhausted" /\ tr = bs[Len(bs)].trace
  BY <1>2, <1>3 DEF Closed
<1> QED
  BY <1>1, <1>3, <1>4

\* A recording that was not cut has asked something.
LEMMA SomethingAsked ==
    ASSUME NEW bs, NEW asks, NEW said, NEW xs, NEW level, NEW cs, NEW h, NEW outcome, NEW tr,
           NEW policy, Recounts(bs, asks, said, xs, level, cs),
           Closed(bs, asks, said, h, outcome, tr, xs, policy, cs), Whole(cs)
    PROVE  Len(asks) \in Nat \ {0}
<1>1. bs \in Seq(Moment) /\ bs # <<>> /\ Len(asks) \in Nat /\ MaxSteps \in Nat \ {0}
  BY ReplayAssumption DEF Recounts
<1>2. Len(bs) # 0
  BY <1>1
<1> QED
  BY <1>1, <1>2 DEF Closed

\* The first event of a trace stays.
LEMMA TraceStarts ==
    ASSUME NEW bs, NEW asks, NEW said, NEW xs, NEW level, NEW cs,
           Recounts(bs, asks, said, xs, level, cs)
    PROVE  \A k \in 1 .. Len(bs) : /\ bs[k].trace \in Seq(Events) /\ bs[k].trace # <<>>
                                   /\ bs[k].trace[1] = bs[1].trace[1]
<1> DEFINE Fine(k) == bs[k].trace # <<>> /\ bs[k].trace[1] = bs[1].trace[1]
           bad == {k \in 1 .. Len(bs) : ~Fine(k)}
<1>1. bs \in Seq(Moment) /\ bs # <<>> /\ Len(bs) \in {Len(asks), Len(asks) + 1}
      /\ asks \in Seq(Requests) /\ Begun(bs[1], cs)
  BY DEF Recounts
<1>2. \A k \in 1 .. Len(bs) : bs[k].trace \in Seq(Events)
  <2> SUFFICES ASSUME NEW k \in 1 .. Len(bs) PROVE bs[k].trace \in Seq(Events)
    OBVIOUS
  <2>1. bs[k] \in Moment
    BY <1>1
  <2> QED
    BY <2>1 DEF Moment
<1>3. Fine(1)
  <2>1. \E findings : bs[1].trace = <<Event("triage.result", NoCall, TraceText(findings))>>
    BY <1>1 DEF Begun
  <2>2. bs[1].trace # <<>>
    BY <2>1
  <2> QED
    BY <2>2
<1>4. bad = {}
  <2> SUFFICES ASSUME bad # {} PROVE FALSE
    OBVIOUS
  <2>1. bad \in SUBSET Nat
    OBVIOUS
  <2>2. PICK k \in bad : \A j \in bad : k <= j
    <3> HIDE DEF bad
    <3> QED
      BY <2>1, FirstExists
  <2>3. k \in 1 .. Len(bs) /\ ~Fine(k)
    OBVIOUS
  <2>4. k # 1
    BY <1>3, <2>3
  <2> DEFINE j == k - 1
  <2>5. j \in 1 .. Len(bs) - 1 /\ j \in 1 .. Len(bs) /\ j \notin bad /\ k = j + 1
    BY <2>2, <2>3, <2>4
  <2> HIDE DEF j
  <2>6. Fine(j)
    BY <2>5
  <2> HIDE DEF bad
  <2> DEFINE p == Heeds(bs, said, j)
  <2>7. p = Heeds(bs, said, j)
    OBVIOUS
  <2> HIDE DEF p
  <2>8. j \in 1 .. Len(asks) /\ \E t \in Texts : Ran(p, t, bs[j], bs[j + 1], cs)
    BY <2>5, <2>7, PassedOn
  <2>9. PICK t \in Texts : Ran(p, t, bs[j], bs[j + 1], cs)
    BY <2>8
  <2>10. bs[k].trace = bs[j].trace \o ActEvents(p, t)
    BY <2>5, <2>9 DEF Ran
  <2>11. Steady(p)
    BY <2>7, <2>8, HeedsSound DEF Sound
  <2>12. ActEvents(p, t) \in Seq(Events)
    <3>1. p.pc = "act"
      BY <2>7, <2>8, HeedsSound
    <3> QED
      BY <2>11, <3>1, ActEventsTyped
  <2> DEFINE before == bs[j].trace
             events == ActEvents(p, t)
  <2>13. before \in Seq(Events) /\ before # <<>> /\ events \in Seq(Events)
    BY <1>2, <2>5, <2>6, <2>12
  <2>14. bs[k].trace = before \o events /\ before[1] = bs[1].trace[1]
    BY <2>6, <2>10
  <2> HIDE DEF before, events
  <2>15. before \o events # <<>> /\ (before \o events)[1] = before[1]
    BY <2>13
  <2> QED
    BY <2>3, <2>14, <2>15
<1>5. ASSUME NEW k \in 1 .. Len(bs) PROVE Fine(k)
  BY <1>4
<1> QED
  BY <1>2, <1>5

\* So the findings a replay begins with are the recording's.
LEMMA FindingsKept ==
    ASSUME NEW bs, NEW asks, NEW said, NEW xs, NEW level, NEW cs, NEW h, NEW outcome, NEW tr,
           NEW policy, Recounts(bs, asks, said, xs, level, cs),
           Closed(bs, asks, said, h, outcome, tr, xs, policy, cs),
           Whole(cs), "altered" \notin cs
    PROVE  /\ 1 \in 1 .. Len(bs) /\ bs[1].run = NewRun(tr[1].text)
           /\ bs[1].trace = <<Event("triage.result", NoCall, TraceText(tr[1].text))>>
<1> HIDE DEF NewRun, Heeded, TraceText
<1>1. bs \in Seq(Moment) /\ bs # <<>> /\ Begun(bs[1], cs) /\ Len(asks) \in Nat
      /\ Len(bs) \in {Len(asks), Len(asks) + 1}
  BY DEF Recounts
<1>2. Len(bs) \in 1 .. Len(bs) /\ 1 \in 1 .. Len(bs)
  BY <1>1
<1>3. PICK findings \in Texts :
          /\ bs[1].run = NewRun(findings) /\ TraceText(findings) = findings
          /\ bs[1].trace = <<Event("triage.result", NoCall, TraceText(findings))>>
  BY <1>1 DEF Begun
<1> DEFINE last == bs[Len(bs)].trace
<1>4. last \in Seq(Events) /\ last # <<>> /\ last[1] = bs[1].trace[1]
  BY <1>2, TraceStarts
<1>5. tr[1] = last[1]
  <2>1. CASE tr = last
    BY <2>1
  <2>2. CASE Len(bs) = Len(asks) /\ Judged(bs[Len(bs)], said[Len(bs)], h, outcome, tr, xs, policy, cs)
    <3> DEFINE p == Heeds(bs, said, Len(bs))
    <3>1. PICK t \in Texts : tr = last \o ActEvents(p, t)
      BY <2>2 DEF Judged, Heeds
    <3>2. p = Heeds(bs, said, Len(bs)) /\ Len(bs) \in 1 .. Len(asks)
      BY <1>2, <2>2
    <3> HIDE DEF p
    <3>3. Steady(p) /\ p.pc = "act"
      BY <3>2, HeedsSound DEF Sound
    <3> DEFINE events == ActEvents(p, t)
    <3>4. events \in Seq(Events)
      BY <3>3, ActEventsTyped
    <3>5. tr = last \o events
      BY <3>1
    <3> HIDE DEF last, events
    <3> QED
      BY <1>4, <3>4, <3>5
  <2> QED
    BY <2>1, <2>2 DEF Closed
<1> HIDE DEF last
<1>6. tr[1] = Event("triage.result", NoCall, TraceText(findings))
  BY <1>3, <1>4, <1>5
<1>7. tr[1].text = findings
  BY <1>3, <1>6 DEF Event
<1> QED
  BY <1>2, <1>3, <1>7

LEMMA PacedInit == Init => Paced
  BY ReplayAssumption DEF Init, Paced, NewRun

LEMMA PacedStep == TypesInv /\ Exits /\ Paced /\ [Next]_vars => Paced'
<1> SUFFICES ASSUME TypesInv, Exits, Paced, [Next]_vars PROVE Paced'
  OBVIOUS
<1>1. /\ Steady(run) /\ run.step \in Nat /\ asked \in Seq(Requests) /\ Len(asked) \in Nat
      /\ Configured
  BY StoodSteady DEF TypesInv
<1>2. CASE RecordAsk
  <2> DEFINE r == Request(run, "summary")
             ask == Asking(r)
  <2>1. PICK response \in Responses, cite \in {0} \cup {o.seq : o \in run.observed} :
          LET parts == Delivered(config.model.provider, response, r.step, cite) IN
          /\ run' = Heard(r, Completion(parts))
          /\ asked' = Append(asked, ask)
    BY <1>2 DEF RecordAsk
  <2> DEFINE said == Completion(Delivered(config.model.provider, response, r.step, cite))
  <2>2. /\ phase = "recording" /\ run.pc = "request" /\ causes \subseteq causes'
        /\ run.step >= MaxSteps => "long" \in causes'
    BY <1>2 DEF RecordAsk
  <2>3. Steady(r) /\ r.step = run.step + 1
    BY <1>1, <2>2, RequestSteady
  <2>4. ask \in Requests
    BY <1>1, <2>3, AskingTyped
  <2>5. run' = Heard(r, said) /\ asked' = Append(asked, ask)
    BY <2>1
  <2>6. Heard(r, said).step = r.step
    <3>1. r \in Runner
      BY <2>3 DEF Steady
    <3> DEFINE history == Append(r.history, Msg("assistant", said, "turn", NoText, 0))
               seq == r.seq + (IF said.blocks = <<>> THEN 2 ELSE 3)
    <3>2. Heard(r, said) = [r EXCEPT !.pc = "act", !.seq = seq, !.history = history]
      BY DEF Heard
    <3> HIDE DEF r, history, seq
    <3> QED
      BY <3>1, <3>2 DEF Runner
  <2> HIDE DEF r, ask, said
  <2>7. Len(asked') = Len(asked) + 1
    BY <1>1, <2>4, <2>5
  <2> QED
    BY <1>1, <2>2, <2>3, <2>5, <2>6, <2>7, ReplayAssumption DEF Paced
<1>3. CASE RecordAct
  <2>1. PICK t \in Answers_(run) : run' = Acted(run, t, "summary")
    BY <1>3 DEF RecordAct
  <2>2. phase = "recording" /\ run.pc = "act" /\ asked' = asked /\ causes \subseteq causes'
    <3> HIDE DEF Act, Acted, ActEvents, UsesSandbox, RefusedBacked, Calls, TraceText, SummaryEntry
    <3> QED
      BY <1>3 DEF RecordAct
  <2>3. t \in Texts
    <3>1. Answers_(run) \subseteq Outputs \cup {NoText}
      BY DEF Answers_
    <3> QED
      BY <3>1, TextsTyped
  <2>4. run'.step = run.step
    BY <1>1, <2>1, <2>2, <2>3, ActedSteady
  <2> QED
    BY <2>2, <2>4 DEF Paced
<1>4. CASE RecordExhausted \/ RecordCeiling \/ RecordFails \/ RecordDies
  <2>1. /\ phase = "recording" /\ asked' = asked /\ causes \subseteq causes'
        /\ run' \in {Ended(run, "exhausted"), Ended(run, "error"), Ended(run, "none")}
    BY <1>4 DEF RecordExhausted, RecordCeiling, RecordFails, RecordDies
  <2>2. run'.step = run.step
    <3>1. "exhausted" \in Outcomes /\ "error" \in Outcomes /\ "none" \in Outcomes
      BY DEF Outcomes
    <3>2. /\ Ended(run, "exhausted").step = run.step /\ Ended(run, "none").step = run.step
          /\ Ended(run, "error").step = run.step
      BY DEF Ended
    <3> QED
      BY <2>1, <3>2
  <2> QED
    BY <2>1, <2>2 DEF Paced
<1>5. CASE RefuseReplay
  BY <1>5 DEF RefuseReplay, Paced
<1>a. CASE CassetteUnreadable
  BY <1>a DEF CassetteUnreadable, Stop, Paced
<1>6. CASE StartReplay
  BY <1>6 DEF StartReplay, Paced, Exits
<1>7. CASE ReplayAsk \/ ReplayUnknown \/ ReplayAct \/ ReplayPastEnd \/ ReplayExhausted \/ Check
  <2>1. phase = "replaying" /\ phase' \in {"replaying", "done"}
        /\ exit' \in {exit, "raised", "mismatch", "ok"}
    BY <1>7 DEF ReplayAsk, ReplayUnknown, ReplayAct, ReplayPastEnd, ReplayExhausted, Check, Stop
  <2> QED
    BY <2>1 DEF Exits, Paced
<1>8. CASE UNCHANGED vars
  BY <1>8 DEF Paced, vars
<1> QED
  BY <1>2, <1>3, <1>4, <1>5, <1>a, <1>6, <1>7, <1>8 DEF Next

\* Nothing keeps the replay from being the recorded run.
Unhindered == causes = {} /\ legible

\* Where a replay is, in a story of its recording.
Goes(bs) ==
    /\ Recounts(bs, original.asked, heard, original.execs, Level, causes)
    /\ Closed(bs, original.asked, heard, original.history, original.outcome, original.trace,
              original.execs, config.policy, causes)
    /\ exit # "raised" =>
           Follows(bs, original.asked, heard, run, Len(asked), Len(execs), Len(Queue))
    /\ Unhindered =>
           /\ exit # "raised"
           /\ Exact(bs, run, trace, Len(asked), original.history, original.outcome, original.trace)

ReplayInv ==
    phase # "recording" /\ exit # "refused" =>
        /\ Taped(cassette, original.asked, heard) /\ Leads(asked, original.asked)
        /\ "long" \in causes \/ Len(original.asked) <= MaxSteps
        /\ exit \in {"mismatch", "ok"} => run.pc = "ended"
        /\ exit = "mismatch" => trace # original.trace \/ run.outcome # original.outcome
        /\ \E bs : Goes(bs)

LEMMA GoesOn ==
    ASSUME ReplayInv, phase # "recording", exit # "refused", NEW bs, Goes(bs),
           UNCHANGED <<config, cassette, legible, original, heard, causes>>,
           Leads(asked', original.asked),
           exit' \in {"mismatch", "ok"} => run'.pc = "ended",
           exit' = "mismatch" => trace' # original.trace \/ run'.outcome # original.outcome,
           exit' # "raised" =>
               Follows(bs, original.asked, heard, run', Len(asked'), Len(execs'), Len(Queue)),
           Unhindered =>
               /\ exit' # "raised"
               /\ Exact(bs, run', trace', Len(asked'), original.history, original.outcome,
                        original.trace)
    PROVE  ReplayInv'
<1>1. Queue' = Queue /\ Level' = Level /\ Unhindered' = Unhindered
  BY DEF Queue, Level, Unhindered
<1>2. Goes(bs)'
  BY <1>1 DEF Goes
<1>3. /\ Taped(cassette, original.asked, heard)
      /\ "long" \in causes \/ Len(original.asked) <= MaxSteps
  BY DEF ReplayInv
<1> HIDE DEF Goes
<1> QED
  BY <1>2, <1>3 DEF ReplayInv

LEMMA GoesFrom ==
    ASSUME TypesInv, Exits, Paced, ToldInv, StartReplay
    PROVE  ReplayInv'
<1>1. /\ phase = "recording" /\ run.pc = "ended" /\ phase' = "replaying" /\ exit' = exit
      /\ original' = Recorded
      /\ run' = NewRun(trace[1].text)
      /\ trace' = <<Event("triage.result", NoCall, TraceText(trace[1].text))>>
      /\ asked' = <<>> /\ execs' = <<>> /\ UNCHANGED <<config, cassette, legible, heard, causes, exit>>
  BY DEF StartReplay
<1>2. /\ original'.trace = trace /\ original'.outcome = run.outcome /\ original'.asked = asked
      /\ original'.execs = execs /\ original'.history = run.history
  BY <1>1 DEF Recorded
<1>3. Told /\ Taped(cassette, asked, heard)
  BY <1>1 DEF ToldInv
<1>4. PICK bs : /\ Recounts(bs, asked, heard, execs, Level, causes)
                /\ Standing(bs, asked, heard, run, trace, execs, config.policy, causes)
  BY <1>3 DEF Told
<1>5. Closed(bs, asked, heard, run.history, run.outcome, trace, execs, config.policy, causes)
  BY <1>1, <1>4 DEF Standing, AtRequest, AtAct
<1>6. /\ trace \in Seq(Events) /\ trace # <<>> /\ asked \in Seq(Requests)
      /\ Len(asked) \in Nat /\ ("long" \in causes \/ Len(asked) <= MaxSteps)
  <2>1. /\ Len(asked) = run.step /\ ("long" \in causes \/ run.step <= MaxSteps)
        /\ asked \in Seq(Requests)
    BY <1>1, StoodSteady DEF Paced
  <2> QED
    BY <2>1 DEF TypesInv, Kept
<1>7. trace[1].text \in Texts
  <2>1. trace[1] \in Events
    BY <1>6
  <2> QED
    BY <2>1 DEF Events
<1>8. Len(asked') = 0 /\ Len(execs') = 0
  BY <1>1
<1>9. Waits(bs, asked, heard, run', 0, 0)
  BY <1>1, <1>7, WaitsFirst
<1>10. run'.pc = "request"
  BY <1>9 DEF Waits
<1>11. Unhindered => exit' # "raised" /\ Exact(bs, run', trace', 0, run.history, run.outcome, trace)
  <2> SUFFICES ASSUME Unhindered
               PROVE  exit' # "raised" /\ Exact(bs, run', trace', 0, run.history, run.outcome, trace)
    OBVIOUS
  <2> HIDE DEF NewRun, TraceText, Level
  <2>1. Whole(causes) /\ "altered" \notin causes
    BY DEF Whole, Unhindered
  <2>2. /\ 1 \in 1 .. Len(bs) /\ bs[1].run = NewRun(trace[1].text)
        /\ bs[1].trace = <<Event("triage.result", NoCall, TraceText(trace[1].text))>>
    BY <1>4, <1>5, <2>1, FindingsKept
  <2>3. bs[1].run = run' /\ bs[1].trace = trace'
    BY <1>1, <2>2
  <2>4. exit' # "raised"
    BY <1>1 DEF Exits
  <2> QED
    BY <1>10, <2>2, <2>3, <2>4 DEF Exact
<1>12. Goes(bs)'
  <2>1. Level' = Level
    BY <1>1 DEF Level
  <2> HIDE DEF Level, NewRun
  <2>2. Follows(bs, asked, heard, run', 0, 0, Len(Queue'))
    BY <1>9 DEF Follows
  <2>3. /\ Recounts(bs, original'.asked, heard', original'.execs, Level', causes')
        /\ Closed(bs, original'.asked, heard', original'.history, original'.outcome,
                  original'.trace, original'.execs, config'.policy, causes')
    <3>1. UNCHANGED <<config, heard, causes>>
      BY <1>1
    <3> QED
      BY <1>2, <1>4, <1>5, <2>1, <3>1
  <2>4. Follows(bs, original'.asked, heard', run', Len(asked'), Len(execs'), Len(Queue'))
    BY <1>1, <1>2, <1>8, <2>2
  <2>5. Unhindered' =>
           /\ exit' # "raised"
           /\ Exact(bs, run', trace', Len(asked'), original'.history, original'.outcome,
                    original'.trace)
    BY <1>1, <1>2, <1>8, <1>11 DEF Unhindered
  <2> QED
    BY <2>3, <2>4, <2>5 DEF Goes
<1>13. exit' = "running"
  BY <1>1 DEF Exits
<1>14. Leads(asked', original'.asked)
  BY <1>2, <1>6, <1>8 DEF Leads
<1>15. /\ Taped(cassette', original'.asked, heard')
       /\ "long" \in causes' \/ Len(original'.asked) <= MaxSteps
  BY <1>1, <1>2, <1>3, <1>6
<1> HIDE DEF Goes
<1> QED
  BY <1>12, <1>13, <1>14, <1>15 DEF ReplayInv

\* A replay whose cassette cannot be read has asked nothing.
LEMMA GoesNowhere ==
    ASSUME TypesInv, Exits, Paced, ToldInv, CassetteUnreadable
    PROVE  ReplayInv'
<1>1. /\ phase = "recording" /\ run.pc = "ended" /\ ~legible /\ exit' = "raised"
      /\ original' = Recorded /\ asked' = <<>>
      /\ UNCHANGED <<config, cassette, legible, heard, causes>>
  BY DEF CassetteUnreadable, Stop
<1>2. /\ original'.trace = trace /\ original'.outcome = run.outcome /\ original'.asked = asked
      /\ original'.execs = execs /\ original'.history = run.history
  BY <1>1 DEF Recorded
<1>3. Told /\ Taped(cassette, asked, heard)
  BY <1>1 DEF ToldInv
<1>4. PICK bs : /\ Recounts(bs, asked, heard, execs, Level, causes)
                /\ Standing(bs, asked, heard, run, trace, execs, config.policy, causes)
  BY <1>3 DEF Told
<1>5. Closed(bs, asked, heard, run.history, run.outcome, trace, execs, config.policy, causes)
  BY <1>1, <1>4 DEF Standing, AtRequest, AtAct
<1>6. Level' = Level /\ ~Unhindered'
  BY <1>1 DEF Level, Unhindered
<1> HIDE DEF Level
<1>7. Goes(bs)'
  <2>1. /\ Recounts(bs, original'.asked, heard', original'.execs, Level', causes')
        /\ Closed(bs, original'.asked, heard', original'.history, original'.outcome,
                  original'.trace, original'.execs, config'.policy, causes')
    BY <1>1, <1>2, <1>4, <1>5, <1>6
  <2> QED
    BY <1>1, <1>6, <2>1 DEF Goes
<1>8. /\ Taped(cassette', original'.asked, heard')
      /\ "long" \in causes' \/ Len(original'.asked) <= MaxSteps
  BY <1>1, <1>2, <1>3 DEF Paced
<1>9. Leads(asked', original'.asked)
  <2>1. asked \in Seq(Requests) /\ Len(asked') = 0
    BY <1>1, StoodSteady
  <2> QED
    BY <1>2, <2>1 DEF Leads
<1> HIDE DEF Goes
<1> QED
  BY <1>1, <1>7, <1>8, <1>9 DEF ReplayInv

\* A replay that waits for a completion is at its step.
LEMMA ReplayWaits ==
    ASSUME TypesInv, Exits, ReplayInv, phase = "replaying", run.pc = "request", NEW bs, Goes(bs)
    PROVE  /\ exit = "running" /\ Len(asked) \in Nat /\ run.step = Len(asked)
           /\ Waits(bs, original.asked, heard, run, Len(asked), Len(execs))
           /\ Sound(run) /\ run.history \in Histories /\ Mark(run.history) = "findings"
<1>1. exit = "running"
  BY DEF Exits
<1>2. Follows(bs, original.asked, heard, run, Len(asked), Len(execs), Len(Queue))
  BY <1>1 DEF Goes
<1>3. Waits(bs, original.asked, heard, run, Len(asked), Len(execs))
  BY <1>2 DEF Follows, Works, Over
<1>4. run.step = Len(asked) /\ Sound(run) /\ Mark(run.history) = "findings"
  BY <1>3 DEF Waits
<1>5. run.history \in Histories /\ Len(asked) \in Nat
  BY StoodSteady
<1> QED
  BY <1>1, <1>3, <1>4, <1>5

\* Its request, and when nothing keeps the replay from being the same, the
\* cassette has an answer to it.
LEMMA ReplayAsks ==
    ASSUME TypesInv, Exits, ReplayInv, phase = "replaying", run.pc = "request",
           run.step < MaxSteps, NEW bs, Goes(bs), NEW r, r = Request(run, "extract")
    PROVE  /\ Asking(r) = [messages |-> Compacted("extract", run.history), thinking |-> Level]
           /\ Asking(r) \in Requests
           /\ Unhindered => Served(Asking(r)) # <<>>
<1>1. /\ exit = "running" /\ Len(asked) \in Nat /\ run.step = Len(asked)
      /\ Waits(bs, original.asked, heard, run, Len(asked), Len(execs)) /\ Steady(run)
  BY ReplayWaits DEF Sound
<1>2. Steady(r) /\ r.history = Compacted("extract", run.history)
  BY <1>1, RequestSteady
<1>3. Asking(r) \in Requests
  BY <1>2, AskingTyped DEF TypesInv
<1>4. Asking(r) = [messages |-> Compacted("extract", run.history), thinking |-> Level]
  BY <1>2 DEF Asking, Level
<1>5. ASSUME Unhindered PROVE Served(Asking(r)) # <<>>
  <2> DEFINE k == Len(asked) + 1
             ask == Asking(r)
  <2>1. k \in 1 .. Len(bs) /\ bs[k].run = run
    BY <1>5, <1>1 DEF Goes, Exact
  <2>2. /\ Recounts(bs, original.asked, heard, original.execs, Level, causes)
        /\ Closed(bs, original.asked, heard, original.history, original.outcome, original.trace,
                  original.execs, config.policy, causes)
    BY DEF Goes
  <2> HIDE DEF Level
  <2>3. Whole(causes) /\ "summary" \notin causes
    BY <1>5 DEF Whole, Unhindered
  <2>4. /\ k \in 1 .. Len(original.asked)
        /\ original.asked[k] = [messages |-> Compacted("extract", run.history), thinking |-> Level]
    BY <1>1, <2>1, <2>2, <2>3, ExactAsked
  <2>5. original.asked[k] = ask
    BY <1>4, <2>4
  <2> HIDE DEF ask
  <2>6. PICK i \in 1 .. Len(cassette) : cassette[i] = Entry(original.asked[k], Completion(heard[k]))
    BY <1>1, <2>4 DEF ReplayInv, Taped
  <2>7. cassette[i].key = ask
    BY <2>5, <2>6 DEF Entry
  <2>8. cassette \in Seq(Entries) /\ asked \in Seq(Requests)
    BY StoodSteady
  <2>9. Served(ask) # <<>>
    BY <2>7, <2>8, ServedIs
  <2> QED
    BY <2>9 DEF ask
<1> QED
  BY <1>3, <1>4, <1>5

\* The completion it is served is the one the recording had at that point.
LEMMA ReplayHears ==
    ASSUME TypesInv, Exits, ReplayInv, ReplayAsk, NEW bs, Goes(bs),
           NEW k, k = Len(asked), NEW r, r = Request(run, "extract"), NEW ask, ask = Asking(r)
    PROVE  /\ k \in Nat /\ run.step = k /\ ask \in Requests
           /\ k + 1 \in 1 .. Len(original.asked) /\ original.asked[k + 1] = ask
           /\ run' = Heard(r, Completion(heard[k + 1])) /\ asked' = Append(asked, ask)
           /\ Works(bs, original.asked, heard, run', k + 1, Len(execs))
<1>1. /\ phase = "replaying" /\ run.pc = "request" /\ run.step < MaxSteps
      /\ Served(ask) # <<>> /\ run' = Heard(r, Served(ask)[1]) /\ asked' = Append(asked, ask)
  BY DEF ReplayAsk
<1>2. exit = "running"
  BY <1>1 DEF Exits
<1>4. /\ k \in Nat /\ run.step = k
      /\ Waits(bs, original.asked, heard, run, k, Len(execs))
      /\ run.history \in Histories /\ Mark(run.history) = "findings"
  BY <1>1, ReplayWaits
<1>5. /\ ask = [messages |-> Compacted("extract", run.history), thinking |-> Level]
      /\ ask \in Requests
  BY <1>1, ReplayAsks
<1>6. /\ Recounts(bs, original.asked, heard, original.execs, Level, causes)
      /\ Taped(cassette, original.asked, heard)
  BY <1>1, <1>2 DEF ReplayInv, Goes
<1>7. cassette \in Seq(Entries) /\ asked \in Seq(Requests)
  BY StoodSteady
<1>8. ask.messages = Compacted("extract", run.history)
  BY <1>5
<1> HIDE DEF Level
<1>9. PICK i \in 1 .. Len(cassette) : cassette[i].key = ask /\ Served(ask)[1] = cassette[i].response
  BY <1>1, <1>7, ServedIs
<1>10. Mark(cassette[i].key.messages) # "summarize"
  <2>1. Mark(Compacted("extract", run.history)) \in {"extract", "findings"}
    BY <1>4, CompactedMark
  <2> QED
    BY <1>8, <1>9, <2>1
<1>11. PICK j \in 1 .. Len(original.asked) :
           cassette[i] = Entry(original.asked[j], Completion(heard[j]))
  BY <1>6, <1>10 DEF Taped
<1>12. original.asked[j] = ask /\ Served(ask)[1] = Completion(heard[j])
  BY <1>9, <1>11 DEF Entry
<1>13. run' = Heard(Request(run, "extract"), Completion(heard[j]))
  BY <1>1, <1>12
<1>14. original.asked[j].messages = Compacted("extract", run.history)
  BY <1>8, <1>12
<1>15. j = k + 1 /\ Works(bs, original.asked, heard, run', k + 1, Len(execs))
  BY <1>4, <1>6, <1>13, <1>14, WorksNext
<1>16. k + 1 \in 1 .. Len(original.asked) /\ original.asked[k + 1] = ask
  BY <1>12, <1>15
<1> QED
  BY <1>1, <1>4, <1>5, <1>12, <1>15, <1>16

LEMMA GoesAsk == TypesInv /\ Exits /\ ReplayInv /\ ReplayAsk => ReplayInv'
<1> SUFFICES ASSUME TypesInv, Exits, ReplayInv, ReplayAsk PROVE ReplayInv'
  OBVIOUS
<1> DEFINE r == Request(run, "extract")
           ask == Asking(r)
           k == Len(asked)
<1>1. /\ phase = "replaying" /\ run.pc = "request"
      /\ UNCHANGED <<config, phase, trace, execs, cassette, legible, original, heard, causes, exit>>
  BY DEF ReplayAsk
<1>2. exit = "running"
  BY <1>1 DEF Exits
<1>3. PICK bs : Goes(bs)
  BY <1>1, <1>2 DEF ReplayInv
<1>4. /\ k \in Nat /\ ask \in Requests
      /\ k + 1 \in 1 .. Len(original.asked) /\ original.asked[k + 1] = ask
      /\ asked' = Append(asked, ask)
      /\ Works(bs, original.asked, heard, run', k + 1, Len(execs))
  <2>1. k = Len(asked) /\ r = Request(run, "extract") /\ ask = Asking(r)
    OBVIOUS
  <2> HIDE DEF k, r, ask
  <2> QED
    BY <1>3, <2>1, ReplayHears
<1>6. /\ Leads(asked, original.asked)
      /\ Unhindered => Exact(bs, run, trace, k, original.history, original.outcome, original.trace)
  BY <1>1, <1>2, <1>3 DEF ReplayInv, Goes
<1>7. asked \in Seq(Requests)
  BY StoodSteady
<1> HIDE DEF ask, r, k
<1>16. Len(asked') = k + 1 /\ Leads(asked', original.asked)
  <2> DEFINE more == Append(asked, ask)
  <2>1. more = Append(asked, ask) /\ asked' = more
    BY <1>4
  <2> HIDE DEF more
  <2>2. /\ Len(more) = k + 1 /\ more[k + 1] = ask /\ \A l \in 1 .. k : more[l] = asked[l]
        /\ \A l \in 1 .. Len(more) : l \in 1 .. k \/ l = k + 1
    BY <1>4, <1>7, <2>1, AppendParts DEF k
  <2>3. k + 1 <= Len(original.asked) /\ original.asked[k + 1] = ask
    BY <1>4
  <2>4. \A l \in 1 .. k : asked[l] = original.asked[l]
    BY <1>6 DEF Leads, k
  <2> QED
    BY <2>1, <2>2, <2>3, <2>4 DEF Leads
<1>17. Follows(bs, original.asked, heard, run', Len(asked'), Len(execs'), Len(Queue))
  BY <1>1, <1>4, <1>16 DEF Follows
<1>18. Unhindered => Exact(bs, run', trace', Len(asked'), original.history, original.outcome,
                            original.trace)
  <2>1. run'.pc = "act"
    BY <1>4 DEF Works
  <2>2. Unhindered => bs[k + 1].trace = trace
    BY <1>1, <1>6 DEF Exact
  <2> QED
    BY <1>1, <1>16, <2>1, <2>2 DEF Exact
<1>19. phase # "recording" /\ exit # "refused" /\ exit' = "running"
       /\ UNCHANGED <<config, cassette, legible, original, heard, causes>>
  BY <1>1, <1>2
<1> HIDE DEF Goes
<1> QED
  BY <1>3, <1>16, <1>17, <1>18, <1>19, GoesOn

LEMMA GoesUnknown == TypesInv /\ Exits /\ ReplayInv /\ ReplayUnknown => ReplayInv'
<1> SUFFICES ASSUME TypesInv, Exits, ReplayInv, ReplayUnknown PROVE ReplayInv'
  OBVIOUS
<1> DEFINE r == Request(run, "extract")
<1>1. /\ phase = "replaying" /\ run.pc = "request" /\ run.step < MaxSteps
      /\ Served(Asking(r)) = <<>> /\ exit' = "raised"
      /\ UNCHANGED <<config, trace, asked, execs, cassette, legible, original, heard, causes>>
  BY DEF ReplayUnknown, Stop
<1>2. exit = "running"
  BY <1>1 DEF Exits
<1>3. PICK bs : Goes(bs)
  BY <1>1, <1>2 DEF ReplayInv
<1>4. ~Unhindered
  <2>1. r = Request(run, "extract")
    OBVIOUS
  <2> HIDE DEF r
  <2> QED
    BY <1>1, <1>3, <2>1, ReplayAsks
<1>5. Leads(asked', original.asked)
  BY <1>1, <1>2 DEF ReplayInv
<1>6. phase # "recording" /\ exit # "refused"
  BY <1>1, <1>2
<1> HIDE DEF Goes
<1> QED
  BY <1>1, <1>3, <1>4, <1>5, <1>6, GoesOn

\* A replay that works on a completion, and what it may be given.
LEMMA ReplayWorks ==
    ASSUME TypesInv, Exits, ReplayInv, phase = "replaying", run.pc = "act", NEW bs, Goes(bs)
    PROVE  /\ exit = "running" /\ Len(asked) \in Nat /\ Len(execs) \in Nat
           /\ Works(bs, original.asked, heard, run, Len(asked), Len(execs))
           /\ Recounts(bs, original.asked, heard, original.execs, Level, causes)
           /\ Closed(bs, original.asked, heard, original.history, original.outcome,
                     original.trace, original.execs, config.policy, causes)
           /\ Leads(asked, original.asked)
           /\ original.execs \in Seq(Texts) /\ Queue \in Seq(Texts)
           /\ Unhindered => bs[Len(asked)].trace = trace
<1>1. exit = "running"
  BY DEF Exits
<1>2. /\ Follows(bs, original.asked, heard, run, Len(asked), Len(execs), Len(Queue))
      /\ Recounts(bs, original.asked, heard, original.execs, Level, causes)
      /\ Closed(bs, original.asked, heard, original.history, original.outcome,
                original.trace, original.execs, config.policy, causes)
      /\ Unhindered => Exact(bs, run, trace, Len(asked), original.history, original.outcome,
                              original.trace)
  BY <1>1 DEF Goes
<1>3. Works(bs, original.asked, heard, run, Len(asked), Len(execs))
  BY <1>2 DEF Follows, Waits, Over
<1>4. Unhindered => bs[Len(asked)].trace = trace
  BY <1>2 DEF Exact
<1>5. Leads(asked, original.asked)
  BY <1>1 DEF ReplayInv
<1>6. original.execs \in Seq(Texts) /\ original.trace \in Seq(Events)
  BY DEF TypesInv, Kept, Originals
<1>7. Queue \in Seq(Texts)
  BY <1>6, ResultsTyped DEF Queue
<1>8. Len(asked) \in Nat /\ Len(execs) \in Nat
  BY StoodSteady
<1> QED
  BY <1>1, <1>2, <1>3, <1>4, <1>5, <1>6, <1>7, <1>8

\* Nothing keeps the results of a recording from being its queue.
LEMMA QueueWhole ==
    ASSUME NEW tr, NEW xs \in Seq(Texts), Matched(tr, xs, {})
    PROVE  ExecResults(tr) = xs
<1> HIDE DEF ExecResults, TraceText
<1>1. /\ ExecResults(tr) = [i \in 1 .. Len(xs) |-> TraceText(xs[i])]
      /\ \A i \in 1 .. Len(xs) : TraceText(xs[i]) = xs[i]
  BY DEF Matched
<1>2. [i \in 1 .. Len(xs) |-> TraceText(xs[i])] = [i \in 1 .. Len(xs) |-> xs[i]]
  BY <1>1
<1>3. [i \in 1 .. Len(xs) |-> xs[i]] = xs
  OBVIOUS
<1> QED
  BY <1>1, <1>2, <1>3

LEMMA GoesAct == TypesInv /\ Exits /\ MatchedInv /\ ReplayInv /\ ReplayAct => ReplayInv'
<1> SUFFICES ASSUME TypesInv, Exits, MatchedInv, ReplayInv, ReplayAct PROVE ReplayInv'
  OBVIOUS
<1> HIDE DEF Act, Acted, ActEvents, Level, Queue, UsesSandbox
<1> DEFINE t == IF UsesSandbox(run) THEN Queue[Len(execs) + 1] ELSE NoText
           k == Len(asked)
           n == Len(execs)
<1>1. /\ phase = "replaying" /\ run.pc = "act"
      /\ UsesSandbox(run) => n < Len(Queue)
      /\ run' = Acted(run, t, "extract") /\ trace' = trace \o ActEvents(run, t)
      /\ execs' = IF UsesSandbox(run) THEN Append(execs, t) ELSE execs
      /\ UNCHANGED <<config, phase, asked, cassette, legible, original, heard, causes, exit>>
  BY DEF ReplayAct
<1>2. exit = "running"
  BY <1>1 DEF Exits
<1>3. PICK bs : Goes(bs)
  BY <1>1, <1>2 DEF ReplayInv
<1> HIDE DEF Goes
<1>4. /\ k \in Nat /\ n \in Nat
      /\ Works(bs, original.asked, heard, run, k, n)
      /\ Recounts(bs, original.asked, heard, original.execs, Level, causes)
      /\ Closed(bs, original.asked, heard, original.history, original.outcome,
                original.trace, original.execs, config.policy, causes)
      /\ Leads(asked, original.asked)
      /\ original.execs \in Seq(Texts) /\ Queue \in Seq(Texts)
      /\ Unhindered => bs[k].trace = trace
  BY <1>1, <1>3, ReplayWorks
<1>5. t \in Texts
  <2>1. UsesSandbox(run) => n + 1 \in 1 .. Len(Queue)
    BY <1>1, <1>4
  <2> QED
    BY <1>4, <2>1, TextsTyped
<1>6. Len(execs') = IF UsesSandbox(run) THEN n + 1 ELSE n
  <2>1. execs \in Seq(Texts)
    BY StoodSteady
  <2> HIDE DEF t
  <2> QED
    BY <1>1, <1>5, <2>1
<1>7. Unhindered => Queue = original.execs
  <2>1. Matched(original.trace, original.execs, causes)
    BY <1>1, <1>2 DEF MatchedInv
  <2> QED
    BY <1>4, <2>1, QueueWhole DEF Queue, Unhindered
<1>8. /\ Leads(asked', original.asked) /\ phase # "recording" /\ exit # "refused"
      /\ exit' = "running" /\ UNCHANGED <<config, cassette, legible, original, heard, causes>>
      /\ Len(asked') = k
  BY <1>1, <1>2, <1>4
<1>9. t = IF UsesSandbox(run) THEN Queue[n + 1] ELSE NoText
  OBVIOUS
<1> HIDE DEF t, k, n
<1> SUFFICES /\ Follows(bs, original.asked, heard, run', k, Len(execs'), Len(Queue))
             /\ Unhindered => Exact(bs, run', trace', k, original.history, original.outcome,
                                     original.trace)
  BY <1>3, <1>8, GoesOn
<1>10. CASE Act(run) # "judge"
  <2>1. Waits(bs, original.asked, heard, run', k, Len(execs'))
    BY <1>1, <1>4, <1>5, <1>6, <1>10, WaitsNext
  <2>2. ASSUME Unhindered
        PROVE  Exact(bs, run', trace', k, original.history, original.outcome, original.trace)
    <3>1. Gets(run, original.execs, n, t)
      BY <1>7, <1>9, <2>2 DEF Gets
    <3>2. Whole(causes) /\ "summary" \notin causes
      BY <2>2 DEF Whole, Unhindered
    <3>3. /\ run'.pc = "request" /\ k + 1 \in 1 .. Len(bs) /\ bs[k + 1].run = run'
          /\ bs[k + 1].trace = bs[k].trace \o ActEvents(run, t)
      <4> DEFINE asks == original.asked
                 xs == original.execs
                 h == original.history
                 outcome == original.outcome
                 tr == original.trace
                 policy == config.policy
                 q == run'
      <4>1. /\ Recounts(bs, asks, heard, xs, Level, causes)
            /\ Closed(bs, asks, heard, h, outcome, tr, xs, policy, causes)
            /\ Works(bs, asks, heard, run, k, n)
            /\ Gets(run, xs, n, t) /\ q = Acted(run, t, "extract")
        BY <1>1, <1>4, <3>1
      <4> HIDE DEF asks, xs, h, outcome, tr, policy, q
      <4>2. /\ q.pc = "request" /\ k + 1 \in 1 .. Len(bs) /\ bs[k + 1].run = q
            /\ bs[k + 1].trace = bs[k].trace \o ActEvents(run, t)
        BY ONLY <4>1, <1>5, <1>10, <3>2, ExactActed
      <4> QED
        BY <4>2 DEF q
    <3>4. bs[k + 1].trace = trace'
      BY <1>1, <1>4, <2>2, <3>3
    <3> QED
      BY <3>3, <3>4 DEF Exact
  <2> QED
    BY <2>1, <2>2 DEF Follows
<1>11. CASE Act(run) = "judge"
  <2>1. UsesSandbox(run)
    BY <1>11 DEF UsesSandbox
  <2>2. Len(execs') = n + 1
    BY <1>6, <2>1
  <2>3. Over(bs, original.asked, heard, run', k, Len(execs'), Len(Queue))
    BY <1>1, <1>4, <1>5, <1>11, <2>2, OverJudged
  <2>4. ASSUME Unhindered
        PROVE  Exact(bs, run', trace', k, original.history, original.outcome, original.trace)
    <3>1. Gets(run, original.execs, n, t)
      BY <1>7, <1>9, <2>4 DEF Gets
    <3>2. Whole(causes)
      BY <2>4 DEF Whole, Unhindered
    <3>3. /\ run'.pc = "ended" /\ run'.history = original.history
          /\ run'.outcome = original.outcome
          /\ original.trace = bs[k].trace \o ActEvents(run, t)
      <4> DEFINE asks == original.asked
                 xs == original.execs
                 h == original.history
                 outcome == original.outcome
                 tr == original.trace
                 q == run'
      <4>1. /\ Recounts(bs, asks, heard, xs, Level, causes)
            /\ Closed(bs, asks, heard, h, outcome, tr, xs, config.policy, causes)
            /\ Works(bs, asks, heard, run, k, n)
            /\ Gets(run, xs, n, t) /\ q = Acted(run, t, "extract")
        BY <1>1, <1>4, <3>1
      <4> HIDE DEF asks, xs, h, outcome, tr, q
      <4>2. /\ q.pc = "ended" /\ q.history = h /\ q.outcome = outcome
            /\ tr = bs[k].trace \o ActEvents(run, t)
        BY ONLY <4>1, <1>5, <1>11, <3>2, ExactJudged
      <4> QED
        BY <4>2 DEF q, h, outcome, tr
    <3>4. original.trace = trace'
      BY <1>1, <1>4, <2>4, <3>3
    <3> QED
      BY <3>3, <3>4 DEF Exact
  <2> QED
    BY <2>3, <2>4 DEF Follows
<1> QED
  BY <1>10, <1>11

LEMMA GoesPastEnd == TypesInv /\ Exits /\ MatchedInv /\ ReplayInv /\ ReplayPastEnd => ReplayInv'
<1> SUFFICES ASSUME TypesInv, Exits, MatchedInv, ReplayInv, ReplayPastEnd PROVE ReplayInv'
  OBVIOUS
<1> HIDE DEF Act, Acted, ActEvents, ExtraEvents, Event, Level, Queue, UsesSandbox
<1> DEFINE k == Len(asked)
           n == Len(execs)
<1>1. /\ phase = "replaying" /\ run.pc = "act" /\ UsesSandbox(run) /\ n >= Len(Queue)
      /\ \/ Act(run) = "judge" /\ run' = Acted(run, NoText, "extract") /\ exit' = exit
         \/ Act(run) # "judge" /\ exit' = "raised"
      /\ UNCHANGED <<config, asked, execs, cassette, legible, original, heard, causes>>
  BY DEF ReplayPastEnd, Stop
<1>2. exit = "running"
  BY <1>1 DEF Exits
<1>3. PICK bs : Goes(bs)
  BY <1>1, <1>2 DEF ReplayInv
<1> HIDE DEF Goes
<1>4. /\ k \in Nat /\ n \in Nat
      /\ Works(bs, original.asked, heard, run, k, n)
      /\ Recounts(bs, original.asked, heard, original.execs, Level, causes)
      /\ Closed(bs, original.asked, heard, original.history, original.outcome,
                original.trace, original.execs, config.policy, causes)
      /\ Leads(asked, original.asked)
      /\ original.execs \in Seq(Texts) /\ Queue \in Seq(Texts)
  BY <1>1, <1>3, ReplayWorks
<1>5. ~Unhindered
  <2> SUFFICES ASSUME Unhindered PROVE FALSE
    OBVIOUS
  <2>1. Matched(original.trace, original.execs, causes)
    BY <1>1, <1>2 DEF MatchedInv
  <2>2. Queue = original.execs
    BY <1>4, <2>1, QueueWhole DEF Queue, Unhindered
  <2>3. Whole(causes)
    BY DEF Whole, Unhindered
  <2> HIDE DEF k, n
  <2>4. n < Len(original.execs)
    BY <1>1, <1>4, <2>3, ExactGiven
  <2> QED
    BY <1>1, <1>4, <2>2, <2>4
<1>6. exit' # "raised" =>
          Follows(bs, original.asked, heard, run', Len(asked'), Len(execs'), Len(Queue))
  <2> SUFFICES ASSUME exit' # "raised"
               PROVE  Over(bs, original.asked, heard, run', Len(asked'), Len(execs'), Len(Queue))
    BY DEF Follows
  <2>1. Act(run) = "judge" /\ run' = Acted(run, NoText, "extract") /\ NoText \in Texts
    BY <1>1, TextsTyped
  <2>2. Len(Queue) <= n
    BY <1>1, <1>4
  <2> HIDE DEF k, n
  <2>3. Over(bs, original.asked, heard, run', k, n, Len(Queue))
    BY <1>4, <2>1, <2>2, OverJudged
  <2> QED
    BY <1>1, <2>3 DEF k, n
<1>7. /\ Leads(asked', original.asked) /\ phase # "recording" /\ exit # "refused"
      /\ exit' \notin {"mismatch", "ok"}
      /\ UNCHANGED <<config, cassette, legible, original, heard, causes>>
  BY <1>1, <1>2, <1>4
<1> HIDE DEF k, n
<1> QED
  BY <1>3, <1>5, <1>6, <1>7, GoesOn

LEMMA GoesExhausted == TypesInv /\ Exits /\ ReplayInv /\ ReplayExhausted => ReplayInv'
<1> SUFFICES ASSUME TypesInv, Exits, ReplayInv, ReplayExhausted PROVE ReplayInv'
  OBVIOUS
<1> HIDE DEF Level, Queue, Ended
<1> DEFINE k == Len(asked)
<1>1. /\ phase = "replaying" /\ run.pc = "request" /\ run.step = MaxSteps
      /\ run' = Ended(run, "exhausted")
      /\ UNCHANGED <<config, phase, trace, asked, execs, cassette, legible, original, heard, causes, exit>>
  BY DEF ReplayExhausted
<1>2. exit = "running"
  BY <1>1 DEF Exits
<1>3. PICK bs : Goes(bs)
  BY <1>1, <1>2 DEF ReplayInv
<1>4. /\ k = MaxSteps /\ Steady(run)
      /\ Waits(bs, original.asked, heard, run, MaxSteps, Len(execs))
  BY <1>1, <1>3, ReplayWaits DEF Sound
<1>5. /\ Recounts(bs, original.asked, heard, original.execs, Level, causes)
      /\ Closed(bs, original.asked, heard, original.history, original.outcome,
                original.trace, original.execs, config.policy, causes)
      /\ Unhindered => Exact(bs, run, trace, MaxSteps, original.history, original.outcome,
                              original.trace)
  BY <1>2, <1>3, <1>4 DEF Goes
<1> HIDE DEF Goes
<1>6. Leads(asked, original.asked) /\ ("long" \in causes \/ Len(original.asked) <= MaxSteps)
  BY <1>1, <1>2 DEF ReplayInv
<1>7. Over(bs, original.asked, heard, run', MaxSteps, Len(execs), Len(Queue))
  BY <1>1, <1>4, OverExhausted
<1>8. ASSUME Unhindered
      PROVE  Exact(bs, run', trace, MaxSteps, original.history, original.outcome, original.trace)
  <2>1. MaxSteps + 1 \in 1 .. Len(bs) /\ bs[MaxSteps + 1].run = run
        /\ bs[MaxSteps + 1].trace = trace
    BY <1>1, <1>5, <1>8 DEF Exact
  <2>2. Whole(causes) /\ Len(original.asked) <= MaxSteps
    BY <1>6, <1>8 DEF Whole, Unhindered
  <2> DEFINE asks == original.asked
             xs == original.execs
             h == original.history
             outcome == original.outcome
             tr == original.trace
             policy == config.policy
             q == run'
  <2>3. /\ Recounts(bs, asks, heard, xs, Level, causes) /\ Len(asks) <= MaxSteps
        /\ Closed(bs, asks, heard, h, outcome, tr, xs, policy, causes)
        /\ q = Ended(run, "exhausted")
    BY <1>1, <1>5, <2>2
  <2> HIDE DEF asks, xs, h, outcome, tr, policy, q
  <2>4. /\ q.pc = "ended" /\ q.history = h /\ q.outcome = outcome
        /\ tr = bs[MaxSteps + 1].trace
    BY ONLY <1>4, <2>1, <2>2, <2>3, ExactExhausted
  <2>5. Exact(bs, q, trace, MaxSteps, h, outcome, tr)
    BY <2>1, <2>4 DEF Exact
  <2> QED
    BY <2>5 DEF q, h, outcome, tr
<1>9. /\ phase # "recording" /\ exit # "refused" /\ exit' = "running"
      /\ UNCHANGED <<config, cassette, legible, original, heard, causes>>
      /\ Leads(asked', original.asked)
      /\ Follows(bs, original.asked, heard, run', Len(asked'), Len(execs'), Len(Queue))
      /\ Unhindered => Exact(bs, run', trace', Len(asked'), original.history, original.outcome,
                              original.trace)
  BY <1>1, <1>2, <1>4, <1>6, <1>7, <1>8 DEF Follows
<1> QED
  BY <1>3, <1>9, GoesOn

LEMMA GoesCheck == TypesInv /\ Exits /\ ReplayInv /\ Check => ReplayInv'
<1> SUFFICES ASSUME TypesInv, Exits, ReplayInv, Check PROVE ReplayInv'
  OBVIOUS
<1> HIDE DEF Level, Queue, ToolCalls
<1>1. /\ phase = "replaying" /\ run.pc = "ended" /\ exit' \in {"ok", "mismatch"}
      /\ exit' = "mismatch" => ToolCalls(trace) # ToolCalls(original.trace)
                               \/ run.outcome # original.outcome
      /\ UNCHANGED <<config, run, trace, asked, execs, cassette, legible, original, heard, causes>>
  BY DEF Check, Stop
<1>2. exit = "running"
  BY <1>1 DEF Exits
<1>3. PICK bs : Goes(bs)
  BY <1>1, <1>2 DEF ReplayInv
<1>4. Leads(asked, original.asked)
  BY <1>1, <1>2 DEF ReplayInv
<1>5. /\ Follows(bs, original.asked, heard, run, Len(asked), Len(execs), Len(Queue))
      /\ Unhindered => Exact(bs, run, trace, Len(asked), original.history, original.outcome,
                              original.trace)
  BY <1>2, <1>3 DEF Goes
<1> HIDE DEF Goes
<1>6. /\ phase # "recording" /\ exit # "refused"
      /\ UNCHANGED <<config, cassette, legible, original, heard, causes>>
      /\ Leads(asked', original.asked) /\ run'.pc = "ended" /\ exit' # "raised"
      /\ exit' = "mismatch" => trace' # original.trace \/ run'.outcome # original.outcome
      /\ Follows(bs, original.asked, heard, run', Len(asked'), Len(execs'), Len(Queue))
      /\ Unhindered => Exact(bs, run', trace', Len(asked'), original.history, original.outcome,
                              original.trace)
  BY <1>1, <1>2, <1>4, <1>5
<1> QED
  BY <1>3, <1>6, GoesOn

LEMMA ReplayInvInit == Init => ReplayInv
  BY DEF Init, ReplayInv

LEMMA ReplayInvStep ==
    TypesInv /\ Exits /\ Paced /\ ToldInv /\ MatchedInv /\ ReplayInv /\ [Next]_vars => ReplayInv'
<1> SUFFICES ASSUME TypesInv, Exits, Paced, ToldInv, MatchedInv, ReplayInv, [Next]_vars
             PROVE  ReplayInv'
  OBVIOUS
<1>1. CASE RecordAsk \/ RecordAct \/ RecordExhausted \/ RecordCeiling \/ RecordFails \/ RecordDies
  <2>1. phase' = "recording"
    BY <1>1 DEF RecordAsk, RecordAct, RecordExhausted, RecordCeiling, RecordFails, RecordDies
  <2> QED
    BY <2>1 DEF ReplayInv
<1>2. CASE RefuseReplay
  <2>1. exit' = "refused"
    BY <1>2 DEF RefuseReplay, Stop
  <2> QED
    BY <2>1 DEF ReplayInv
<1>3. CASE UNCHANGED vars
  <2>1. Level' = Level /\ Queue' = Queue /\ Unhindered' = Unhindered
    BY <1>3 DEF vars, Level, Queue, Unhindered
  <2>2. UNCHANGED <<config, phase, run, trace, asked, execs, cassette, legible, original, heard,
                    causes, exit>>
    BY <1>3 DEF vars
  <2> HIDE DEF Level, Queue
  <2>3. ASSUME NEW bs, Goes(bs) PROVE Goes(bs)'
    BY <2>1, <2>2, <2>3 DEF Goes
  <2> HIDE DEF Goes
  <2> QED
    BY <2>2, <2>3 DEF ReplayInv
<1> QED
  BY <1>1, <1>2, <1>3, GoesFrom, GoesNowhere, GoesAsk, GoesUnknown, GoesAct, GoesPastEnd, GoesExhausted,
     GoesCheck DEF Next

\* A replay is refused when the recording ended without a completion.
Refusals == exit = "refused" => cassette = <<>> /\ run.pc = "ended"

LEMMA RefusalsInit == Init => Refusals
  BY DEF Init, Refusals

LEMMA RefusalsStep == Exits /\ Refusals /\ [Next]_vars => Refusals'
<1> SUFFICES ASSUME Exits, Refusals, [Next]_vars PROVE Refusals'
  OBVIOUS
<1>1. CASE RefuseReplay
  BY <1>1 DEF RefuseReplay, Refusals
<1>2. CASE UNCHANGED vars
  BY <1>2 DEF vars, Refusals
<1>3. CASE RecordAsk \/ RecordAct \/ RecordExhausted \/ RecordCeiling \/ RecordFails \/ RecordDies
           \/ StartReplay \/ ReplayAsk \/ ReplayAct \/ ReplayExhausted
  <2>1. phase # "done" /\ exit' = exit
    BY <1>3 DEF RecordAsk, RecordAct, RecordExhausted, RecordCeiling, RecordFails, RecordDies,
                StartReplay, ReplayAsk, ReplayAct, ReplayExhausted
  <2> QED
    BY <2>1 DEF Exits, Refusals
<1>4. CASE CassetteUnreadable \/ ReplayUnknown \/ ReplayPastEnd \/ Check
  <2>1. phase # "done" /\ exit' \in {exit, "raised", "ok", "mismatch"}
    BY <1>4 DEF CassetteUnreadable, ReplayUnknown, ReplayPastEnd, Check, Stop
  <2> QED
    BY <2>1 DEF Exits, Refusals
<1> QED
  BY <1>1, <1>2, <1>3, <1>4 DEF Next

\* The inductive invariant of a recording and its replay: the types, how far each
\* has come, the story the recording can be told by, its results against the queue
\* of its trace, and where in the story the replay is.
LockInv ==
    TypesInv /\ Exits /\ Paced /\ Refusals /\ ToldInv /\ MatchedInv /\ ReplayInv

LEMMA LockInvariant == Spec => []LockInv
<1>1. Init => LockInv
  BY TypesInit, ExitsInit, PacedInit, RefusalsInit, ToldInit, MatchedInit, ReplayInvInit
     DEF LockInv
<1>2. LockInv /\ [Next]_vars => LockInv'
  BY TypesStep, ExitsStep, PacedStep, RefusalsStep, ToldStep, MatchedStep, ReplayInvStep
     DEF LockInv
<1> QED
  BY <1>1, <1>2, PTL DEF Spec

\* A replay that was refused had nothing asked and nothing run.
LEMMA RefusedEmpty ==
    ASSUME TypesInv, Paced, Refusals, ToldInv, exit = "refused"
    PROVE  Len(asked) = 0 /\ Len(execs) = 0
<1>1. /\ Len(asked) \in Nat /\ Len(execs) \in Nat /\ Len(asked) = run.step
      /\ Len(execs) <= run.step
  <2>1. Len(asked) \in Nat /\ Len(execs) \in Nat
    BY StoodSteady
  <2> QED
    BY <2>1 DEF TypesInv, Counted, Paced
<1>2. Taped(cassette, asked, heard) /\ cassette = <<>>
  BY DEF Refusals, ToldInv
<1>3. \A k \in 1 .. Len(asked) : \E i \in 1 .. Len(cassette) : TRUE
  BY <1>2 DEF Taped
<1>4. 1 .. Len(cassette) = {}
  BY <1>2
<1>5. Len(asked) = 0
  BY <1>1, <1>3, <1>4
<1> QED
  BY <1>1, <1>5

\* Where a replay that has not raised an error and is at its end stands.
LEMMA ReplayOver ==
    ASSUME TypesInv, Exits, ReplayInv, exit \in {"ok", "mismatch"}
    PROVE  /\ Leads(asked, original.asked)
           /\ "long" \in causes \/ Len(asked) = Len(original.asked)
           /\ \E bs : /\ Goes(bs)
                      /\ Over(bs, original.asked, heard, run, Len(asked), Len(execs), Len(Queue))
<1>1. phase # "recording" /\ exit # "refused"
  BY DEF Exits
<1>2. PICK bs : Goes(bs)
  BY <1>1 DEF ReplayInv
<1>3. /\ Leads(asked, original.asked) /\ run.pc = "ended"
      /\ "long" \in causes \/ Len(original.asked) <= MaxSteps
  BY <1>1 DEF ReplayInv
<1>4. /\ Recounts(bs, original.asked, heard, original.execs, Level, causes)
      /\ Follows(bs, original.asked, heard, run, Len(asked), Len(execs), Len(Queue))
  BY <1>2 DEF Goes
<1>5. Over(bs, original.asked, heard, run, Len(asked), Len(execs), Len(Queue))
  BY <1>3, <1>4 DEF Follows, Waits, Works
<1>6. "long" \in causes \/ Len(asked) = Len(original.asked)
  BY <1>3, <1>4, <1>5, AllAsked
<1> HIDE DEF Goes
<1> QED
  BY <1>2, <1>3, <1>5, <1>6

LEMMA LeadsAll ==
    ASSUME NEW S, NEW a \in Seq(S), NEW b \in Seq(S), Leads(a, b), Len(a) = Len(b)
    PROVE  a = b
  BY DEF Leads

LEMMA LockAsked == LockInv => AskedAsRecorded
<1> SUFFICES ASSUME LockInv PROVE AskedAsRecorded
  OBVIOUS
<1>1. /\ TypesInv /\ Exits /\ Paced /\ Refusals /\ ToldInv /\ ReplayInv
  BY DEF LockInv
<1>2. asked \in Seq(Requests) /\ original.asked \in Seq(Requests)
  BY <1>1 DEF TypesInv, Kept, Originals
<1>3. ASSUME phase # "recording", NEW i \in DOMAIN asked
      PROVE  i <= Len(original.asked) /\ asked[i] = original.asked[i]
  <2>1. i \in 1 .. Len(asked) /\ Len(asked) # 0
    BY <1>2
  <2>2. exit # "refused"
    BY <1>1, <2>1, RefusedEmpty
  <2>3. Leads(asked, original.asked)
    BY <1>1, <1>3, <2>2 DEF ReplayInv
  <2> QED
    BY <1>2, <2>1, <2>3 DEF Leads
<1>4. ASSUME exit = "ok", "long" \notin causes PROVE asked = original.asked
  <2>1. Leads(asked, original.asked) /\ Len(asked) = Len(original.asked)
    BY <1>1, <1>4, ReplayOver
  <2> QED
    BY <1>2, <2>1, LeadsAll
<1> QED
  BY <1>3, <1>4 DEF AskedAsRecorded

LEMMA LockAligned == LockInv => QueueAligned
<1> SUFFICES ASSUME LockInv, phase # "recording", "refused" \notin causes
             PROVE  /\ \A i \in DOMAIN execs :
                          i <= Len(original.execs) /\ execs[i] = TraceText(original.execs[i])
                    /\ exit \in {"ok", "mismatch"} /\ Whole(causes) =>
                          Len(execs) = Len(original.execs)
  BY DEF QueueAligned, Whole
<1> HIDE DEF TraceText, ExecResults
<1>1. /\ TypesInv /\ Exits /\ Paced /\ Refusals /\ ToldInv /\ MatchedInv /\ ReplayInv
  BY DEF LockInv
<1>2. execs \in Seq(Texts) /\ original.execs \in Seq(Texts) /\ Len(original.execs) \in Nat
  <2>1. execs \in Seq(Texts) /\ original.execs \in Seq(Texts)
    BY <1>1 DEF TypesInv, Kept, Originals
  <2> QED
    BY <2>1
<1>3. ASSUME exit # "refused"
      PROVE  /\ Queue = [i \in 1 .. Len(original.execs) |-> TraceText(original.execs[i])]
             /\ Leads(execs, Queue)
  BY <1>1, <1>3 DEF MatchedInv, Matched, Queue
<1>4. exit # "refused" => Len(Queue) = Len(original.execs)
  BY <1>2, <1>3
<1>5. ASSUME NEW i \in DOMAIN execs
      PROVE  i <= Len(original.execs) /\ execs[i] = TraceText(original.execs[i])
  <2>1. i \in 1 .. Len(execs) /\ Len(execs) # 0 /\ Len(execs) \in Nat
    BY <1>2
  <2>2. exit # "refused"
    BY <1>1, <2>1, RefusedEmpty
  <2>3. i \in 1 .. Len(original.execs) /\ execs[i] = Queue[i]
    BY <1>2, <1>3, <1>4, <2>1, <2>2 DEF Leads
  <2> QED
    BY <1>3, <2>2, <2>3
<1>6. ASSUME exit \in {"ok", "mismatch"}, Whole(causes)
      PROVE  Len(execs) = Len(original.execs)
  <2>1. PICK bs :
            /\ Goes(bs)
            /\ Over(bs, original.asked, heard, run, Len(asked), Len(execs), Len(Queue))
    BY <1>1, <1>6, ReplayOver
  <2>2. Len(original.asked) <= MaxSteps
    BY <1>1, <1>6 DEF ReplayInv, Exits, Whole
  <2> DEFINE asks == original.asked
             xs == original.execs
             h == original.history
             outcome == original.outcome
             tr == original.trace
             policy == config.policy
             k == Len(asked)
             n == Len(execs)
  <2>3. /\ Recounts(bs, asks, heard, xs, Level, causes) /\ Len(asks) <= MaxSteps
        /\ Closed(bs, asks, heard, h, outcome, tr, xs, policy, causes) /\ xs \in Seq(Texts)
        /\ Over(bs, asks, heard, run, k, n, Len(xs))
    BY <1>2, <1>4, <1>6, <2>1, <2>2 DEF Goes
  <2> HIDE DEF asks, xs, h, outcome, tr, policy, k, n
  <2>4. n = Len(xs)
    BY ONLY <1>6, <2>3, AllGiven
  <2> QED
    BY <2>4 DEF n, xs
<1> QED
  BY <1>5, <1>6

LEMMA LockReproduces == LockInv => ReplayReproduces
<1> SUFFICES ASSUME LockInv, phase = "done", causes = {}, legible
             PROVE  /\ exit = "ok" /\ run.history = original.history
                    /\ trace = original.trace /\ asked = original.asked
  BY DEF ReplayReproduces
<1>1. /\ TypesInv /\ Exits /\ Paced /\ Refusals /\ ToldInv /\ ReplayInv
  BY DEF LockInv
<1>2. Whole(causes)
  BY DEF Whole
<1>3. exit # "refused"
  <2> SUFFICES ASSUME exit = "refused" PROVE FALSE
    OBVIOUS
  <2>1. Len(asked) = 0 /\ Told /\ run.pc = "ended"
    BY <1>1, RefusedEmpty DEF ToldInv, Refusals
  <2>2. PICK bs : /\ Recounts(bs, asked, heard, execs, Level, causes)
                  /\ Standing(bs, asked, heard, run, trace, execs, config.policy, causes)
    BY <2>1 DEF Told
  <2>3. Closed(bs, asked, heard, run.history, run.outcome, trace, execs, config.policy, causes)
    BY <2>1, <2>2 DEF Standing, AtRequest, AtAct
  <2> DEFINE h == run.history
             outcome == run.outcome
             policy == config.policy
  <2>4. Closed(bs, asked, heard, h, outcome, trace, execs, policy, causes)
    BY <2>3
  <2> HIDE DEF h, outcome, policy
  <2>5. Len(asked) # 0
    BY ONLY <1>2, <2>2, <2>4, SomethingAsked
  <2> QED
    BY <2>1, <2>5
<1>4. PICK bs : Goes(bs)
  BY <1>1, <1>3 DEF ReplayInv
<1>5. /\ exit # "raised"
      /\ Exact(bs, run, trace, Len(asked), original.history, original.outcome, original.trace)
  BY <1>4 DEF Goes, Unhindered
<1>6. exit \in {"ok", "mismatch"}
  BY <1>1, <1>3, <1>5 DEF Exits, TypesInv, Stages
<1>7. run.pc = "ended"
  BY <1>1, <1>3, <1>6 DEF ReplayInv
<1>8. run.history = original.history /\ run.outcome = original.outcome /\ trace = original.trace
  BY <1>5, <1>7 DEF Exact
<1>9. exit = "ok"
  BY <1>1, <1>3, <1>6, <1>8 DEF ReplayInv
<1>10. asked = original.asked
  <2>1. AskedAsRecorded
    BY LockAsked
  <2> QED
    BY <1>9, <2>1 DEF AskedAsRecorded
<1> QED
  BY <1>8, <1>9, <1>10

\* Up to where it breaks, a replay asks what its recording asked, and one that
\* --check passes has asked all of it unless the recording was longer than its
\* category's limit, for every model, response, output and --max-steps.
THEOREM ReplayAsksTheSame == Spec => []AskedAsRecorded
  BY LockInvariant, LockAsked, PTL

\* As long as no refused call was recorded, each exec of a replay is given the
\* result of the same exec of the recording, and the results of a recording that is
\* neither cut nor longer than its category's limit are used up.
THEOREM ReplayQueueAligned == Spec => []QueueAligned
  BY LockInvariant, LockAligned, PTL

\* A recording whose texts survive its trace, that no utility model summarised,
\* that recorded no refused call, was not cut short, made no step beyond its
\* category's limit and left a cassette that can be read replays to the same
\* history, trace and requests, and --check says so.
THEOREM ReplayIsTheRun == Spec => []ReplayReproduces
  BY LockInvariant, LockReproduces, PTL

-----------------------------------------------------------------------------
(* The turns of a history and the responses they were.                         *)

\* How many turns of the model follow the i-th message.
Later(h, i) == Cardinality({j \in i + 1 .. Len(h) : h[j].role = "assistant"})

\* The turns of a history are the last of the n responses said.
Turned(h, n, said) ==
    \A i \in 1 .. Len(h) : h[i].role = "assistant" =>
        /\ n - Later(h, i) \in 1 .. Len(said)
        /\ h[i].says = Completion(said[n - Later(h, i)])

\* c is h without its first s messages, which a summary stands for.
CutAt(c, h, s) ==
    /\ s \in 0 .. Len(h) - 1 /\ h[s + 1].role # "tool"
    /\ Len(c) = Len(h) - s + 1 /\ c[1].role = "user"
    /\ \A i \in 2 .. Len(c) : c[i] = h[i - 1 + s]

LEMMA CompactedCut ==
    ASSUME NEW h \in Histories, NEW how, how \in {"summary", "extract"}
    PROVE  Compacted(how, h) = h \/ \E s : CutAt(Compacted(how, h), h, s)
<1>0. h \in Seq(ChatMessage) /\ Len(h) \in Nat
  BY DEF Histories
<1>1. CASE ~Compactable(h, MaxMessages)
  BY <1>1 DEF Compacted
<1>2. CASE Compactable(h, MaxMessages)
  <2>1. PICK s \in 0 .. Len(h) - 1 :
            /\ s \in SplitPoints(h, MaxMessages)
            /\ \A way : Compacted(way, h) = <<Msg("user", NoCompletion, way, NoText, s)>>
                                               \o SubSeq(h, s + 1, Len(h))
    BY <1>0, <1>2, CutExists
  <2> DEFINE first == Msg("user", NoCompletion, how, NoText, s)
             rest == SubSeq(h, s + 1, Len(h))
  <2>2. first.role = "user" /\ first \in ChatMessage
    <3>1. first.role = "user"
      BY DEF Msg
    <3>2. first \in ChatMessage
      BY MessagesTyped, NothingSaid, TextsTyped DEF Notes
    <3> QED
      BY <3>1, <3>2
  <2>3. /\ rest \in Seq(ChatMessage) /\ Len(rest) = Len(h) - s
        /\ \A i \in 1 .. Len(rest) : rest[i] = h[s + i]
    BY <1>0
  <2>4. Compacted(how, h) = <<first>> \o rest
    BY <2>1
  <2>5. h[s + 1].role # "tool"
    BY <2>1 DEF SplitPoints
  <2> HIDE DEF first, rest
  <2> DEFINE c == <<first>> \o rest
  <2>6. /\ Len(c) = Len(rest) + 1 /\ c[1] = first
        /\ \A i \in 2 .. Len(c) : c[i] = rest[i - 1] /\ i - 1 \in 1 .. Len(rest)
    BY <2>2, <2>3
  <2>7. c = Compacted(how, h)
    BY <2>4
  <2> HIDE DEF c
  <2>8. \A i \in 2 .. Len(c) : c[i] = h[i - 1 + s]
    <3> TAKE i \in 2 .. Len(c)
    <3>1. c[i] = h[s + (i - 1)]
      BY <2>3, <2>6
    <3>2. i \in Int /\ s \in Int
      BY <2>1, <2>3, <2>6
    <3>3. s + (i - 1) = i - 1 + s
      BY <3>2
    <3> QED
      BY <3>1, <3>3
  <2>9. CutAt(c, h, s)
    BY <1>0, <2>1, <2>2, <2>3, <2>5, <2>6, <2>8 DEF CutAt
  <2> QED
    BY <2>7, <2>9
<1> QED
  BY <1>1, <1>2

LEMMA LaterTyped ==
    ASSUME NEW S, NEW h \in Seq(S), NEW i \in Nat
    PROVE  /\ IsFiniteSet({j \in i + 1 .. Len(h) : h[j].role = "assistant"})
           /\ Later(h, i) \in Nat
<1> DEFINE at == {j \in i + 1 .. Len(h) : h[j].role = "assistant"}
<1>1. IsFiniteSet(i + 1 .. Len(h)) /\ at \subseteq i + 1 .. Len(h)
  BY FS_Interval
<1> HIDE DEF at
<1>2. IsFiniteSet(at) /\ Cardinality(at) \in Nat
  BY <1>1, FS_Subset, FS_CardinalityType
<1> QED
  BY <1>2 DEF Later, at

LEMMA LaterCut ==
    ASSUME NEW h \in Seq(ChatMessage), NEW c, NEW s, CutAt(c, h, s), NEW i \in 2 .. Len(c)
    PROVE  Later(c, i) = Later(h, i - 1 + s)
<1> DEFINE shift == s - 1
           from == {j \in i + 1 .. Len(c) : c[j].role = "assistant"}
           to == {j \in i - 1 + s + 1 .. Len(h) : h[j].role = "assistant"}
           b == [j \in from |-> j + shift]
<1>1. s \in Nat /\ Len(h) \in Nat /\ i \in Nat /\ i >= 2 /\ Len(c) = Len(h) - s + 1
      /\ s <= Len(h) - 1
  BY DEF CutAt
<1>2. \A j \in 2 .. Len(c) : c[j] = h[j - 1 + s]
  BY DEF CutAt
<1>3. \A j \in from : b[j] = j + shift /\ b[j] \in to
  <2> TAKE j \in from
  <2>1. j \in i + 1 .. Len(c) /\ c[j].role = "assistant"
    OBVIOUS
  <2>2. c[j] = h[j - 1 + s] /\ j - 1 + s = j + shift
    BY <1>1, <1>2, <2>1
  <2>3. j + shift \in i - 1 + s + 1 .. Len(h)
    BY <1>1, <2>1
  <2> QED
    BY <2>1, <2>2, <2>3
<1>4. \A j, k \in from : b[j] = b[k] => j = k
  BY <1>1, <1>3
<1>5. \A k \in to : \E j \in from : b[j] = k
  <2> TAKE k \in to
  <2>1. k \in i - 1 + s + 1 .. Len(h) /\ h[k].role = "assistant"
    OBVIOUS
  <2> DEFINE j == k - shift
  <2>2. j \in i + 1 .. Len(c) /\ j \in 2 .. Len(c) /\ j - 1 + s = k
    BY <1>1, <2>1
  <2> HIDE DEF j
  <2>3. c[j] = h[k]
    BY <1>2, <2>2
  <2>4. j \in from /\ j + shift = k
    BY <1>1, <2>1, <2>2, <2>3
  <2> QED
    BY <2>4
<1>6. b \in Bijection(from, to)
  <2>1. b \in [from -> to]
    BY <1>3
  <2> HIDE DEF b, from, to
  <2> QED
    BY <1>4, <1>5, <2>1 DEF Bijection, Injection, Surjection, IsInjective
<1>7. IsFiniteSet(to)
  <2>1. i - 1 + s \in Nat
    BY <1>1
  <2> QED
    BY <2>1, LaterTyped
<1>8. Cardinality(from) = Cardinality(to)
  <2>1. ExistsBijection(from, to)
    BY <1>6 DEF ExistsBijection
  <2>2. IsFiniteSet(from)
    <3>1. from \subseteq i + 1 .. Len(c) /\ IsFiniteSet(i + 1 .. Len(c))
      BY <1>1, FS_Interval
    <3> HIDE DEF from
    <3> QED
      BY <3>1, FS_Subset
  <2> HIDE DEF from, to, b
  <2> QED
    BY <1>6, <2>1, <2>2, FS_Bijection
<1> QED
  BY <1>8 DEF Later

\* Shortening a history keeps its turns what they were.
LEMMA TurnedCut ==
    ASSUME NEW h \in Seq(ChatMessage), NEW n, NEW said, Turned(h, n, said),
           NEW c, NEW s, CutAt(c, h, s)
    PROVE  Turned(c, n, said)
<1> SUFFICES ASSUME NEW i \in 1 .. Len(c), c[i].role = "assistant"
             PROVE  /\ n - Later(c, i) \in 1 .. Len(said)
                    /\ c[i].says = Completion(said[n - Later(c, i)])
  BY DEF Turned
<1>1. i \in 2 .. Len(c)
  BY DEF CutAt
<1>2. Later(c, i) = Later(h, i - 1 + s)
  BY <1>1, LaterCut
<1>3. i - 1 + s \in 1 .. Len(h) /\ c[i] = h[i - 1 + s]
  BY <1>1 DEF CutAt
<1> QED
  BY <1>2, <1>3 DEF Turned

LEMMA TurnedCompacted ==
    ASSUME NEW h \in Histories, NEW n, NEW said, Turned(h, n, said),
           NEW how, how \in {"summary", "extract"}
    PROVE  Turned(Compacted(how, h), n, said)
<1>1. h \in Seq(ChatMessage)
  BY DEF Histories
<1>2. Compacted(how, h) = h \/ \E s : CutAt(Compacted(how, h), h, s)
  BY CompactedCut
<1> QED
  BY <1>1, <1>2, TurnedCut

\* Messages that are no turns of the model change nothing.
LEMMA TurnedJoin ==
    ASSUME NEW h \in Seq(ChatMessage), NEW n, NEW said, Turned(h, n, said),
           NEW g \in Seq(ChatMessage), Turnless(g)
    PROVE  Turned(h \o g, n, said)
<1> DEFINE longer == h \o g
<1>1. /\ Len(longer) = Len(h) + Len(g) /\ Len(h) \in Nat /\ Len(g) \in Nat
      /\ DOMAIN g = 1 .. Len(g)
      /\ \A i \in 1 .. Len(h) : longer[i] = h[i]
      /\ \A i \in Len(h) + 1 .. Len(longer) : longer[i] = g[i - Len(h)]
  OBVIOUS
<1> HIDE DEF longer
<1>2. \A i \in 1 .. Len(longer) : longer[i].role = "assistant" => i \in 1 .. Len(h)
  <2> SUFFICES ASSUME NEW i \in 1 .. Len(longer), i \notin 1 .. Len(h)
               PROVE  longer[i].role # "assistant"
    OBVIOUS
  <2>1. i \in Len(h) + 1 .. Len(longer) /\ i - Len(h) \in DOMAIN g
    BY <1>1
  <2> QED
    BY <1>1, <2>1 DEF Turnless
<1>3. \A i \in 1 .. Len(h) : Later(longer, i) = Later(h, i)
  <2> TAKE i \in 1 .. Len(h)
  <2>1. {j \in i + 1 .. Len(longer) : longer[j].role = "assistant"}
            = {j \in i + 1 .. Len(h) : h[j].role = "assistant"}
    BY <1>1, <1>2
  <2> QED
    BY <2>1 DEF Later
<1>4. Turned(longer, n, said)
  BY <1>1, <1>2, <1>3 DEF Turned
<1> QED
  BY <1>4 DEF longer

\* The next response is the next turn.
LEMMA TurnedNext ==
    ASSUME NEW h \in Seq(ChatMessage), NEW n \in Nat, NEW said, Turned(h, n, said),
           NEW tell, Len(tell) \in Nat, Leads(said, tell), n + 1 \in 1 .. Len(tell),
           Len(said) \in Nat,
           NEW message \in ChatMessage, message.role = "assistant",
           message.says = Completion(tell[n + 1]), NEW q, q = Append(h, message)
    PROVE  Turned(q, n + 1, tell)
<1> DEFINE last == Len(h) + 1
<1>1. /\ Len(q) = last /\ q[last] = message /\ Len(h) \in Nat
      /\ \A i \in 1 .. Len(h) : q[i] = h[i]
      /\ \A i \in 1 .. Len(q) : i \in 1 .. Len(h) \/ i = last
  BY AppendParts
<1>2. ASSUME NEW i \in 1 .. Len(h) PROVE Later(q, i) = Later(h, i) + 1
  <2> DEFINE at == {j \in i + 1 .. Len(h) : h[j].role = "assistant"}
             more == {j \in i + 1 .. Len(q) : q[j].role = "assistant"}
  <2>1. more = at \cup {last} /\ last \notin at
    BY <1>1
  <2>2. IsFiniteSet(at)
    BY LaterTyped
  <2> HIDE DEF at, more
  <2>3. Cardinality(more) = Cardinality(at) + 1
    BY <2>1, <2>2, FS_AddElement
  <2> QED
    BY <2>3 DEF Later, at, more
<1>3. Later(q, last) = 0
  <2>1. {j \in last + 1 .. Len(q) : q[j].role = "assistant"} = {}
    BY <1>1
  <2> QED
    BY <2>1, FS_EmptySet DEF Later
<1>4. ASSUME NEW i \in 1 .. Len(q), q[i].role = "assistant"
      PROVE  /\ (n + 1) - Later(q, i) \in 1 .. Len(tell)
             /\ q[i].says = Completion(tell[(n + 1) - Later(q, i)])
  <2>1. CASE i = last
    <3>1. (n + 1) - Later(q, i) = n + 1
      BY <1>3, <2>1
    <3> QED
      BY <1>1, <2>1, <3>1
  <2>2. CASE i \in 1 .. Len(h)
    <3>1. /\ n - Later(h, i) \in 1 .. Len(said)
          /\ h[i].says = Completion(said[n - Later(h, i)])
      BY <1>1, <1>4, <2>2 DEF Turned
    <3>2. Later(h, i) \in Nat
      <4>1. i \in Nat
        BY <2>2
      <4> QED
        BY <4>1, LaterTyped
    <3>3. (n + 1) - Later(q, i) = n - Later(h, i)
      BY <1>2, <2>2, <3>2
    <3>4. said[n - Later(h, i)] = tell[n - Later(h, i)] /\ n - Later(h, i) \in 1 .. Len(tell)
      BY <3>1 DEF Leads
    <3> QED
      BY <1>1, <2>2, <3>1, <3>3, <3>4
  <2> QED
    BY <1>1, <1>4, <2>1, <2>2
<1> QED
  BY ONLY <1>4 DEF Turned

-----------------------------------------------------------------------------
(* The parts of one kind.                                                      *)

LEMMA OfKindAppend ==
    ASSUME NEW s \in Seq(Part), NEW e \in Part, NEW kind
    PROVE  OfKind(Append(s, e), kind) =
               IF e.kind = kind THEN Append(OfKind(s, kind), e) ELSE OfKind(s, kind)
<1> DEFINE more == Append(s, e)
           n == Len(s)
           at == {i \in DOMAIN s : s[i].kind = kind}
           bt == {i \in DOMAIN more : more[i].kind = kind}
<1>1. /\ more \in Seq(Part) /\ Len(more) = n + 1 /\ more[n + 1] = e /\ n \in Nat
      /\ \A i \in 1 .. n : more[i] = s[i]
      /\ DOMAIN more = 1 .. n + 1 /\ DOMAIN s = 1 .. n
  OBVIOUS
<1> HIDE DEF more
<1>2. n + 1 \in bt <=> e.kind = kind
  BY <1>1
<1>3. Alike(s, bt, s, at, n)
  BY <1>1 DEF Alike
<1>4. OfKind(s, kind) = Picked(s, at) /\ OfKind(more, kind) = Picked(more, bt)
  BY DEF OfKind
<1> HIDE DEF at, bt
<1>5. Picked(s, bt) = Picked(s, at)
  BY <1>1, <1>3, PickedSame
<1>6. Picked(more, bt) = IF n + 1 \in bt THEN Append(Picked(s, bt), e) ELSE Picked(s, bt)
  BY PickedAppend DEF more
<1> QED
  BY <1>2, <1>4, <1>5, <1>6 DEF more

\* Nothing is of a kind that no part is.
LEMMA OfNoKind ==
    ASSUME NEW s \in Seq(Part), NEW kind, \A i \in 1 .. Len(s) : s[i].kind # kind
    PROVE  OfKind(s, kind) = <<>>
<1> DEFINE at == {i \in DOMAIN s : s[i].kind = kind}
           of == Picked(s, at)
<1>1. OfKind(s, kind) = of
  BY DEF OfKind
<1>2. at = {}
  OBVIOUS
<1> HIDE DEF at
<1>3. of \in Seq(Part) /\ \A k \in 1 .. Len(of) : \E i \in 1 .. Len(s) : i \in at /\ of[k] = s[i]
  BY PickedTyped
<1> HIDE DEF of
<1>4. ~(1 \in 1 .. Len(of))
  BY <1>2, <1>3
<1>5. of = <<>>
  BY <1>3, <1>4
<1> QED
  BY <1>1, <1>5

\* w is b after a, and z is it with one more element.
Joint(a, b, w) == w = a \o b
Longer(b, e, z) == z = Append(b, e)

LEMMA JointLonger ==
    ASSUME NEW S, NEW a \in Seq(S), NEW b \in Seq(S), NEW e \in S,
           NEW w, Joint(a, b, w), NEW z, Longer(b, e, z), NEW v, Longer(w, e, v)
    PROVE  Joint(a, z, v)
  BY DEF Joint, Longer

\* The parts of a kind of two sequences, one after the other.
LEMMA OfKindJoin ==
    ASSUME NEW a \in Seq(Part), NEW b \in Seq(Part), NEW kind
    PROVE  OfKind(a \o b, kind) = OfKind(a, kind) \o OfKind(b, kind)
<1> DEFINE upTo(n) == a \o SubSeq(b, 1, n)
           Joined(n) == OfKind(upTo(n), kind) = OfKind(a, kind) \o OfKind(SubSeq(b, 1, n), kind)
           bad == {n \in 0 .. Len(b) : ~Joined(n)}
<1>0. OfKind(a, kind) \in Seq(Part)
  BY OfKindTyped
<1>1. bad = {}
  <2> SUFFICES ASSUME bad # {} PROVE FALSE
    OBVIOUS
  <2> HIDE DEF Joined
  <2>1. bad \in SUBSET Nat
    OBVIOUS
  <2>2. PICK n \in bad : \A j \in bad : n <= j
    BY <2>1, FirstExists
  <2>3. n \in 0 .. Len(b) /\ ~Joined(n)
    OBVIOUS
  <2>4. n # 0
    <3>1. upTo(0) = a /\ SubSeq(b, 1, 0) = <<>>
      OBVIOUS
    <3>2. <<>> \in Seq(Part) /\ \A i \in 1 .. Len(<<>>) : <<>>[i].kind # kind
      OBVIOUS
    <3>3. OfKind(<<>>, kind) = <<>>
      BY <3>2, OfNoKind
    <3> HIDE DEF upTo
    <3> DEFINE of == OfKind(a, kind)
    <3>4. of \o <<>> = of
      <4> HIDE DEF of
      <4>1. of \in Seq(Part)
        BY <1>0 DEF of
      <4> QED
        BY <4>1
    <3>5. Joined(0)
      BY <3>1, <3>3, <3>4 DEF Joined
    <3> QED
      BY <2>3, <3>5
  <2>5. n - 1 \in 0 .. Len(b) /\ n \in 1 .. Len(b) /\ n - 1 \notin bad
    BY <2>2, <2>3, <2>4
  <2>6. Joined(n - 1)
    BY <2>5
  <2> DEFINE c == SubSeq(b, 1, n - 1)
             d == SubSeq(b, 1, n)
             e == b[n]
  <2>7. /\ upTo(n) = Append(upTo(n - 1), e) /\ upTo(n - 1) \in Seq(Part) /\ e \in Part
        /\ d = Append(c, e) /\ c \in Seq(Part)
    <3>1. n \in 1 .. Len(b) /\ a \in Seq(Part) /\ b \in Seq(Part)
      BY <2>5
    <3>2. /\ a \o SubSeq(b, 1, n) = Append(a \o SubSeq(b, 1, n - 1), b[n])
          /\ a \o SubSeq(b, 1, n - 1) \in Seq(Part) /\ b[n] \in Part
      BY ONLY <3>1
    <3>3. SubSeq(b, 1, n) = Append(SubSeq(b, 1, n - 1), b[n]) /\ SubSeq(b, 1, n - 1) \in Seq(Part)
      BY ONLY <3>1
    <3> QED
      BY <3>2, <3>3
  <2> DEFINE before == upTo(n - 1)
             after == upTo(n)
  <2>8. OfKind(before, kind) = OfKind(a, kind) \o OfKind(c, kind)
    BY <2>6 DEF Joined
  <2>9. after = Append(before, e) /\ before \in Seq(Part)
    BY <2>7
  <2>10. Joined(n) <=> OfKind(after, kind) = OfKind(a, kind) \o OfKind(d, kind)
    BY DEF Joined
  <2> HIDE DEF upTo, c, d, e, before, after
  <2>11. OfKind(after, kind) = IF e.kind = kind THEN Append(OfKind(before, kind), e)
                               ELSE OfKind(before, kind)
    BY <2>7, <2>9, OfKindAppend
  <2>12. OfKind(d, kind) = IF e.kind = kind THEN Append(OfKind(c, kind), e) ELSE OfKind(c, kind)
    BY <2>7, OfKindAppend
  <2>13. OfKind(c, kind) \in Seq(Part)
    BY <2>7, OfKindTyped
  <2> DEFINE x == OfKind(a, kind)
             y == OfKind(c, kind)
  <2>14. x \in Seq(Part) /\ y \in Seq(Part)
    BY <1>0, <2>13
  <2>15. /\ OfKind(before, kind) = x \o y
         /\ OfKind(d, kind) = IF e.kind = kind THEN Append(y, e) ELSE y
    BY <2>8, <2>12
  <2> HIDE DEF x, y
  <2>17. OfKind(after, kind) = x \o OfKind(d, kind)
    <3> DEFINE w == OfKind(before, kind)
               z == OfKind(d, kind)
    <3>1. w = x \o y /\ x \in Seq(Part) /\ y \in Seq(Part) /\ e \in Part
      BY <2>7, <2>14, <2>15
    <3>2. OfKind(after, kind) = IF e.kind = kind THEN Append(w, e) ELSE w
      BY <2>11
    <3>3. z = IF e.kind = kind THEN Append(y, e) ELSE y
      BY <2>15
    <3> HIDE DEF w, z
    <3>4. ASSUME e.kind = kind PROVE Append(w, e) = x \o z
      <4>1. z = Append(y, e)
        BY <3>3, <3>4
      <4> QED
        <5> DEFINE v == Append(w, e)
        <5>1. Joint(x, y, w) /\ Longer(y, e, z) /\ Longer(w, e, v)
          BY <3>1, <4>1 DEF Joint, Longer
        <5>2. x \in Seq(Part) /\ y \in Seq(Part) /\ e \in Part
          BY <3>1
        <5> HIDE DEF v
        <5>3. Joint(x, z, v)
          BY ONLY <5>1, <5>2, JointLonger
        <5> QED
          BY <5>3 DEF Joint, v
    <3> QED
      BY <3>1, <3>2, <3>3, <3>4 DEF z
  <2> QED
    BY <2>3, <2>10, <2>17 DEF x
<1>2. Joined(Len(b))
  BY <1>1
<1>3. SubSeq(b, 1, Len(b)) = b
  OBVIOUS
<1> QED
  BY <1>2, <1>3

\* All is of a kind that every part is.
LEMMA OfOneKind ==
    ASSUME NEW b \in Seq(Part), NEW kind, \A i \in 1 .. Len(b) : b[i].kind = kind
    PROVE  OfKind(b, kind) = b
<1> DEFINE All(n) == OfKind(SubSeq(b, 1, n), kind) = SubSeq(b, 1, n)
           bad == {n \in 0 .. Len(b) : ~All(n)}
<1>1. bad = {}
  <2> SUFFICES ASSUME bad # {} PROVE FALSE
    OBVIOUS
  <2> HIDE DEF All
  <2>1. bad \in SUBSET Nat
    OBVIOUS
  <2>2. PICK n \in bad : \A j \in bad : n <= j
    BY <2>1, FirstExists
  <2>3. n \in 0 .. Len(b) /\ ~All(n)
    OBVIOUS
  <2>4. n # 0
    <3>1. SubSeq(b, 1, 0) = <<>>
      OBVIOUS
    <3>2. <<>> \in Seq(Part) /\ \A i \in 1 .. Len(<<>>) : <<>>[i].kind # kind
      OBVIOUS
    <3>3. OfKind(<<>>, kind) = <<>>
      BY <3>2, OfNoKind
    <3> QED
      BY <2>3, <3>1, <3>3 DEF All
  <2>5. n - 1 \in 0 .. Len(b) /\ n \in 1 .. Len(b) /\ n - 1 \notin bad
    BY <2>2, <2>3, <2>4
  <2>6. All(n - 1)
    BY <2>5
  <2> DEFINE c == SubSeq(b, 1, n - 1)
             e == b[n]
             d == SubSeq(b, 1, n)
  <2>7. d = Append(c, e) /\ c \in Seq(Part) /\ e \in Part
    <3>1. n \in 1 .. Len(b) /\ b \in Seq(Part)
      BY <2>5
    <3>3. /\ SubSeq(b, 1, n) = Append(SubSeq(b, 1, n - 1), b[n])
          /\ SubSeq(b, 1, n - 1) \in Seq(Part) /\ b[n] \in Part
      BY ONLY <3>1
    <3> QED
      BY <3>3
  <2>8. OfKind(c, kind) = c /\ e.kind = kind /\ (All(n) <=> OfKind(d, kind) = d)
    BY <2>5, <2>6 DEF All
  <2> HIDE DEF c, e, d
  <2>9. OfKind(d, kind) = Append(OfKind(c, kind), e)
    BY <2>7, <2>8, OfKindAppend
  <2> QED
    BY <2>3, <2>7, <2>8, <2>9
<1>2. All(Len(b))
  BY <1>1
<1>3. SubSeq(b, 1, Len(b)) = b
  OBVIOUS
<1> QED
  BY <1>2, <1>3

LEMMA OfOne ==
    ASSUME NEW e \in Part, NEW kind
    PROVE  OfKind(<<e>>, kind) = IF e.kind = kind THEN <<e>> ELSE <<>>
<1> DEFINE s == <<e>>
<1>1. s \in Seq(Part) /\ Len(s) = 1 /\ s[1] = e
  OBVIOUS
<1> HIDE DEF s
<1>2. \A i \in 1 .. Len(s) : s[i] = e
  BY <1>1
<1>3. OfKind(s, kind) = IF e.kind = kind THEN s ELSE <<>>
  BY <1>1, <1>2, OfOneKind, OfNoKind
<1> QED
  BY <1>3 DEF s

-----------------------------------------------------------------------------
(* What is heard, and what becomes of it.                                      *)

\* A completion is made of its parts, kind by kind.
Proper(says) ==
    /\ \A k \in 1 .. Len(says.blocks) : says.blocks[k].kind = "thought"
    /\ \A k \in 1 .. Len(says.calls) : says.calls[k].kind = "call"

LEMMA CompletionProper ==
    ASSUME NEW parts \in Seq(Part)
    PROVE  /\ Completion(parts) \in Completions /\ Proper(Completion(parts))
           /\ Completion(parts).blocks = OfKind(parts, "thought")
           /\ Completion(parts).calls = OfKind(parts, "call")
<1>1. /\ Completion(parts).blocks = OfKind(parts, "thought")
      /\ Completion(parts).calls = OfKind(parts, "call")
  BY DEF Completion
<1>2. /\ \A i \in 1 .. Len(OfKind(parts, "thought")) : OfKind(parts, "thought")[i].kind = "thought"
      /\ \A i \in 1 .. Len(OfKind(parts, "call")) : OfKind(parts, "call")[i].kind = "call"
  BY OfKindTyped
<1> QED
  BY <1>1, <1>2, CompletionTyped DEF Proper

\* OpenAI's models keep their thoughts to themselves.
LEMMA DeliveredThoughtless ==
    ASSUME NEW response \in Seq(Part), NEW s \in Nat, NEW cite \in Nat,
           NEW parts, parts = Delivered("openai", response, s, cite)
    PROVE  OfKind(parts, "thought") = <<>>
<1> DEFINE At(part, i) ==
            IF part.kind \in {"thought", "redacted"} THEN [part EXCEPT !.signed = TRUE]
            ELSE IF part.kind # "call" THEN [part EXCEPT !.signed = FALSE]
            ELSE [part EXCEPT !.id = <<s, i>>, !.signed = FALSE,
                              !.cite = IF part.tool = "submit_flag" THEN cite ELSE 0]
           at == {i \in DOMAIN response : response[i].kind \notin Withheld("openai")}
           kept == Picked(response, at)
<1>1. ASSUME NEW part \in Part, NEW i \in Nat PROVE At(part, i).kind = part.kind
  <2>1. CASE part.kind \in {"thought", "redacted"}
    BY <2>1 DEF Part
  <2>2. CASE part.kind \notin {"thought", "redacted", "call"}
    BY <2>2 DEF Part
  <2>3. CASE part.kind = "call"
    <3> DEFINE id == <<s, i>>
               cited == IF part.tool = "submit_flag" THEN cite ELSE 0
    <3>1. At(part, i) = [part EXCEPT !.id = id, !.signed = FALSE, !.cite = cited]
      BY <2>3
    <3> HIDE DEF id, cited, At
    <3> QED
      BY <3>1 DEF Part
  <2> QED
    BY <2>1, <2>2, <2>3
<1>2. parts = [i \in DOMAIN kept |-> At(kept[i], i)]
  BY DEF Delivered
<1>3. parts \in Seq(Part)
  BY DeliveredTyped
<1> HIDE DEF At
<1>4. \A i \in at : response[i].kind # "thought"
  BY DEF Withheld
<1> HIDE DEF at
<1>5. /\ kept \in Seq(Part)
      /\ \A k \in 1 .. Len(kept) : \E i \in 1 .. Len(response) : i \in at /\ kept[k] = response[i]
  BY PickedTyped
<1> HIDE DEF kept
<1>6. ASSUME NEW k \in 1 .. Len(parts) PROVE parts[k].kind # "thought"
  <2>1. DOMAIN kept = 1 .. Len(kept) /\ k \in 1 .. Len(kept) /\ parts[k] = At(kept[k], k)
        /\ kept[k] \in Part /\ k \in Nat
    BY <1>2, <1>3, <1>5
  <2>2. PICK i \in 1 .. Len(response) : i \in at /\ kept[k] = response[i]
    BY <1>5, <2>1
  <2> QED
    BY <1>1, <1>4, <2>1, <2>2
<1> QED
  BY ONLY <1>3, <1>6, OfNoKind

\* What a provider sends with thoughts that it does not give back.
Thoughtless(p, said) ==
    p = "openai" => \A k \in 1 .. Len(said) : OfKind(said[k], "thought") = <<>>

\* The next response of a recording.
LEMMA RecordHears ==
    ASSUME TypesInv, RecordAsk
    PROVE  \E parts \in Seq(Part) :
              /\ run' = Heard(Request(run, "summary"), Completion(parts))
              /\ heard' = Append(heard, parts)
              /\ config.model.provider = "openai" => OfKind(parts, "thought") = <<>>
<1> DEFINE r == Request(run, "summary")
           p == config.model.provider
<1>1. PICK response \in Responses, cite \in {0} \cup {o.seq : o \in run.observed} :
          LET parts == Delivered(p, response, r.step, cite) IN
          /\ run' = Heard(r, Completion(parts))
          /\ heard' = Append(heard, parts)
  BY DEF RecordAsk
<1>2. run.pc = "request"
  BY DEF RecordAsk
<1>3. Steady(run) /\ run.step \in Nat /\ config \in Configs
  BY StoodSteady
<1>4. p \in {"anthropic", "openai", "google"} /\ response \in Seq(Part)
  BY <1>3, ReplayAssumption DEF Config, ThinkingModel
<1>5. r.step \in Nat
  <2>1. r.step = run.step + 1
    BY <1>2, <1>3, RequestSteady
  <2> QED
    BY <1>3, <2>1
<1>6. cite \in Nat
  BY <1>3, RunnerFields DEF Steady
<1> DEFINE parts == Delivered(p, response, r.step, cite)
<1>7. run' = Heard(r, Completion(parts)) /\ heard' = Append(heard, parts)
  BY <1>1
<1>8. parts \in Seq(Part)
  BY <1>4, <1>5, <1>6, DeliveredTyped
<1>9. p = "openai" => OfKind(parts, "thought") = <<>>
  <2> SUFFICES ASSUME p = "openai" PROVE OfKind(parts, "thought") = <<>>
    OBVIOUS
  <2> DEFINE s == r.step
  <2>1. parts = Delivered("openai", response, s, cite) /\ s \in Nat
    BY <1>5
  <2> HIDE DEF parts, s
  <2> QED
    BY <1>4, <1>6, <2>1, DeliveredThoughtless
<1> HIDE DEF parts, r
<1>10. \E q \in Seq(Part) : q = parts
  BY <1>8
<1> QED
  BY <1>7, <1>8, <1>9 DEF r

\* Before a replay starts, a response was heard for each step.
LEMMA HeardTyped ==
    ASSUME TypesInv, Exits, Paced, ToldInv, ReplayInv
    PROVE  /\ heard \in Seq(Seq(Part)) /\ Len(heard) \in Nat
           /\ phase = "recording" => Len(heard) = run.step
<1>1. CASE phase = "recording" \/ exit = "refused"
  <2>1. PICK bs : Recounts(bs, asked, heard, execs, Level, causes)
    BY <1>1 DEF ToldInv, Told
  <2> HIDE DEF Level
  <2>2. heard \in Seq(Seq(Part)) /\ Len(heard) = Len(asked)
    BY <2>1 DEF Recounts
  <2>3. Len(asked) = run.step /\ run.step \in Nat
    BY <1>1, StoodSteady DEF Paced
  <2> QED
    BY <2>2, <2>3
<1>2. CASE phase # "recording" /\ exit # "refused"
  <2>1. PICK bs : Goes(bs)
    BY <1>2 DEF ReplayInv
  <2>2. Recounts(bs, original.asked, heard, original.execs, Level, causes)
    BY <2>1 DEF Goes
  <2> HIDE DEF Level
  <2>3. heard \in Seq(Seq(Part)) /\ Len(heard) = Len(original.asked)
    BY <2>2 DEF Recounts
  <2> DEFINE P == Seq(Part)
  <2>4. heard \in Seq(P)
    BY <2>3
  <2> HIDE DEF P
  <2>5. Len(heard) \in Nat
    BY <2>4
  <2> QED
    BY <1>2, <2>3, <2>5
<1> QED
  BY <1>1, <1>2

\* A runner with the completion of its next request.
LEMMA AskHeard ==
    ASSUME NEW r, Steady(r), r.pc = "request", NEW how, how \in {"summary", "extract"},
           NEW said \in Completions, NEW q, q = Heard(Request(r, how), said)
    PROVE  /\ q.pc = "act" /\ q.step = r.step + 1 /\ r.step \in Nat
           /\ r.history \in Histories /\ Compacted(how, r.history) \in Histories
           /\ q.history = Append(Compacted(how, r.history), Turn(said))
           /\ Turn(said) \in ChatMessage /\ Turn(said).role = "assistant" /\ Turn(said).says = said
<1> DEFINE p == Request(r, how)
<1>1. /\ Steady(p) /\ p.pc = "request" /\ p.step = r.step + 1
      /\ p.history = Compacted(how, r.history) /\ p.stale = r.stale
  BY RequestSteady
<1>2. r.stale <= r.step /\ r.stale \in Nat /\ r.step \in Nat /\ r.history \in Histories
  BY RunnerFields DEF Steady
<1>3. p.history \in Histories
  BY <1>1, RunnerFields DEF Steady
<1>4. q = Heard(p, said) /\ p.stale < p.step
  BY <1>1, <1>2
<1> HIDE DEF p
<1>5. q.pc = "act" /\ q.step = p.step /\ q.history = Append(p.history, Turn(said))
  BY <1>1, <1>4, HeardSteady DEF Turn
<1>6. Turn(said) \in ChatMessage
  <2>1. "turn" \in Notes /\ 0 \in Nat
    BY DEF Notes
  <2> QED
    BY <2>1, MessagesTyped, TextsTyped DEF Turn
<1>7. Turn(said).role = "assistant" /\ Turn(said).says = said
  BY DEF Turn, Msg
<1> QED
  BY <1>1, <1>2, <1>3, <1>5, <1>6, <1>7

LEMMA HeardTurned ==
    ASSUME NEW r, Steady(r), r.pc = "request", NEW how, how \in {"summary", "extract"},
           NEW said, Turned(r.history, r.step, said), Len(said) \in Nat,
           NEW tell, Len(tell) \in Nat, Leads(said, tell), r.step + 1 \in 1 .. Len(tell),
           tell[r.step + 1] \in Seq(Part),
           NEW q, q = Heard(Request(r, how), Completion(tell[r.step + 1]))
    PROVE  Turned(q.history, q.step, tell)
<1> DEFINE n == r.step
           heeds == Completion(tell[n + 1])
           h == Compacted(how, r.history)
           message == Turn(heeds)
<1>1. heeds \in Completions
  BY CompletionTyped
<1>2. /\ q.step = n + 1 /\ n \in Nat /\ r.history \in Histories /\ h \in Histories
      /\ q.history = Append(h, message)
      /\ message \in ChatMessage /\ message.role = "assistant" /\ message.says = heeds
  <2>1. q = Heard(Request(r, how), heeds)
    OBVIOUS
  <2> HIDE DEF heeds
  <2> QED
    BY <1>1, <2>1, AskHeard
<1>3. Turned(h, n, said)
  BY <1>2, TurnedCompacted
<1>4. h \in Seq(ChatMessage)
  BY <1>2 DEF Histories
<1> DEFINE longer == q.history
<1>5. /\ longer = Append(h, message) /\ message.says = Completion(tell[n + 1])
      /\ n + 1 \in 1 .. Len(tell)
  BY <1>2
<1>6. Len(said) \in Nat /\ Len(tell) \in Nat /\ Leads(said, tell) /\ q.step = n + 1
  BY <1>2
<1> HIDE DEF n, heeds, h, message, longer
<1>7. Turned(longer, n + 1, tell)
  BY ONLY <1>2, <1>3, <1>4, <1>5, <1>6, TurnedNext
<1> QED
  BY <1>6, <1>7 DEF longer

LEMMA ActedTurned ==
    ASSUME NEW r, Steady(r), r.pc = "act", NEW t \in Texts,
           NEW how, how \in {"summary", "extract"}, NEW q, q = Acted(r, t, how),
           NEW said, Turned(r.history, r.step, said)
    PROVE  Turned(q.history, q.step, said)
<1>1. PICK g \in Seq(ChatMessage) : q.history = r.history \o g /\ Turnless(g)
  BY ActedHistory
<1>2. q.step = r.step
  BY ActedSteady
<1>3. r.history \in Seq(ChatMessage)
  BY RunnerFields DEF Steady, Histories
<1> DEFINE h == r.history
<1>4. Turned(h, r.step, said) /\ h \in Seq(ChatMessage) /\ q.history = h \o g
  BY <1>1, <1>3
<1> HIDE DEF h
<1>5. Turned(h \o g, r.step, said)
  BY ONLY <1>1, <1>4, TurnedJoin
<1> QED
  BY <1>2, <1>4, <1>5

\* The turns of a history, each with the response it was; and OpenAI's responses
\* have no thoughts that its turns would have to give back.
TurnsInv ==
    /\ run.pc = "act" \/ (run.pc = "request" /\ exit # "raised") =>
           Turned(run.history, run.step, heard)
    /\ Thoughtless(config.model.provider, heard)

LEMMA TurnsInit == Init => TurnsInv
<1> SUFFICES ASSUME Init PROVE TurnsInv
  OBVIOUS
<1>1. heard = <<>>
  BY DEF Init
<1>2. PICK findings \in Findings : run = NewRun(findings)
  BY DEF Init
<1>3. run.history = <<Said("findings", findings)>>
  BY <1>2 DEF NewRun
<1>4. \A i \in 1 .. Len(run.history) : run.history[i].role = "user"
  BY <1>3 DEF Said, Msg
<1>5. Turned(run.history, run.step, heard)
  BY <1>4 DEF Turned
<1> QED
  BY <1>1, <1>5 DEF TurnsInv, Thoughtless

\* What a step does to the runner.
ActsOn == /\ run.pc = "act" /\ UNCHANGED <<config, heard>>
          /\ \E t \in Texts, how \in {"summary", "extract"} : run' = Acted(run, t, how)
Stays == run' = run /\ UNCHANGED <<config, heard>> /\ (exit = "raised" => exit' = "raised")
Stumbles == /\ run.pc = "request" /\ run' = Request(run, "extract") /\ exit' = "raised"
            /\ UNCHANGED <<config, heard>>
Ends == run'.pc = "ended" /\ UNCHANGED <<config, heard>>
Restarts == (\E findings \in Texts : run' = NewRun(findings)) /\ UNCHANGED <<config, heard>>

LEMMA RunSteps ==
    ASSUME TypesInv, Exits, [Next]_vars
    PROVE  RecordAsk \/ ReplayAsk \/ ActsOn \/ Stays \/ Stumbles \/ Ends \/ Restarts
<1>0. NoText \in Texts /\ "summary" \in {"summary", "extract"} /\ "extract" \in {"summary", "extract"}
  BY TextsTyped
<1>1. CASE RecordAct
  <2>1. PICK t \in Answers_(run) : run' = Acted(run, t, "summary")
    BY <1>1 DEF RecordAct
  <2>2. run.pc = "act" /\ UNCHANGED <<config, heard>>
    BY <1>1 DEF RecordAct
  <2>3. t \in Texts
    <3>1. Answers_(run) \subseteq Outputs \cup {NoText}
      BY DEF Answers_
    <3> QED
      BY <3>1, TextsTyped
  <2> QED
    BY <1>0, <2>1, <2>2, <2>3 DEF ActsOn
<1>2. CASE RecordExhausted \/ RecordCeiling \/ RecordFails \/ RecordDies \/ ReplayExhausted
  <2>1. /\ UNCHANGED <<config, heard>>
        /\ run' \in {Ended(run, "exhausted"), Ended(run, "error"), Ended(run, "none")}
    BY <1>2 DEF RecordExhausted, RecordCeiling, RecordFails, RecordDies, ReplayExhausted
  <2>2. run \in Runner
    BY StoodSteady DEF Steady
  <2>3. \A outcome : Ended(run, outcome).pc = "ended"
    BY <2>2 DEF Ended, Runner
  <2> QED
    BY <2>1, <2>3 DEF Ends
<1>3. CASE RefuseReplay
  BY <1>3 DEF RefuseReplay, Stays, Exits
<1>a. CASE CassetteUnreadable
  BY <1>a DEF CassetteUnreadable, Stays, Stop
<1>4. CASE StartReplay
  <2>1. run' = NewRun(trace[1].text) /\ UNCHANGED <<config, heard>>
    BY <1>4 DEF StartReplay
  <2>2. trace \in Seq(Events) /\ trace # <<>>
    BY DEF TypesInv, Kept
  <2>3. trace[1] \in Events
    BY <2>2
  <2>4. trace[1].text \in Texts
    BY <2>3 DEF Events
  <2> QED
    BY <2>1, <2>4 DEF Restarts
<1>5. CASE ReplayUnknown
  BY <1>5 DEF ReplayUnknown, Stumbles, Stop
<1>6. CASE ReplayAct
  <2> DEFINE t == IF UsesSandbox(run) THEN Queue[Len(execs) + 1] ELSE NoText
  <2>1. /\ run.pc = "act"
        /\ UsesSandbox(run) => Len(execs) < Len(Queue)
        /\ run' = Acted(run, t, "extract") /\ UNCHANGED <<config, heard>>
    <3> HIDE DEF Acted, UsesSandbox, Queue
    <3> QED
      BY <1>6 DEF ReplayAct
  <2>2. t \in Texts
    <3>1. Queue \in Seq(Texts) /\ execs \in Seq(Texts)
      BY ResultsTyped DEF Queue, Originals, TypesInv, Kept
    <3> HIDE DEF Queue, UsesSandbox
    <3>2. UsesSandbox(run) => Len(execs) + 1 \in 1 .. Len(Queue)
      BY <2>1, <3>1
    <3> QED
      BY <3>1, <3>2, TextsTyped
  <2> HIDE DEF t
  <2> QED
    BY <1>0, <2>1, <2>2 DEF ActsOn
<1>7. CASE ReplayPastEnd
  <2>1. run.pc = "act" /\ UNCHANGED <<config, heard>>
    BY <1>7 DEF ReplayPastEnd
  <2>2. CASE Act(run) = "judge"
    <3>1. run' = Acted(run, NoText, "extract")
      BY <1>7, <2>2 DEF ReplayPastEnd
    <3> QED
      BY <1>0, <2>1, <3>1 DEF ActsOn
  <2>3. CASE Act(run) # "judge"
    BY <1>7, <2>1, <2>3 DEF ReplayPastEnd, Stays, Stop
  <2> QED
    BY <2>2, <2>3
<1>8. CASE Check
  BY <1>8 DEF Check, Stays, Exits
<1>9. CASE UNCHANGED vars
  BY <1>9 DEF vars, Stays
<1> QED
  BY <1>1, <1>2, <1>3, <1>a, <1>4, <1>5, <1>6, <1>7, <1>8, <1>9 DEF Next

LEMMA ReplayHearsNext ==
    ASSUME TypesInv, Exits, Paced, ToldInv, ReplayInv, ReplayAsk
    PROVE  /\ run.pc = "request" /\ exit # "raised" /\ UNCHANGED <<config, heard, exit>>
           /\ run.step + 1 \in 1 .. Len(heard)
           /\ run' = Heard(Request(run, "extract"), Completion(heard[run.step + 1]))
<1>1. phase = "replaying" /\ run.pc = "request" /\ UNCHANGED <<config, heard, exit>>
  BY DEF ReplayAsk
<1>2. exit = "running"
  BY <1>1 DEF Exits
<1>3. PICK bs : Goes(bs)
  BY <1>1, <1>2 DEF ReplayInv
<1> DEFINE k == Len(asked)
           r == Request(run, "extract")
           ask == Asking(r)
<1>4. k = Len(asked) /\ r = Request(run, "extract") /\ ask = Asking(r)
  OBVIOUS
<1> HIDE DEF k, r, ask
<1>5. /\ run.step = k /\ k + 1 \in 1 .. Len(original.asked)
      /\ run' = Heard(r, Completion(heard[k + 1]))
  BY <1>3, <1>4, ReplayHears
<1>6. Len(heard) = Len(original.asked)
  <2>1. Recounts(bs, original.asked, heard, original.execs, Level, causes)
    BY <1>3 DEF Goes
  <2> HIDE DEF Level
  <2> QED
    BY <2>1 DEF Recounts
<1> QED
  BY <1>1, <1>2, <1>4, <1>5, <1>6

LEMMA TurnsStep == LockInv /\ TurnsInv /\ [Next]_vars => TurnsInv'
<1> SUFFICES ASSUME LockInv, TurnsInv, [Next]_vars PROVE TurnsInv'
  OBVIOUS
<1>0. TypesInv /\ Exits /\ Paced /\ ToldInv /\ ReplayInv
  BY DEF LockInv
<1> DEFINE P == Seq(Part)
<1>1. /\ Steady(run) /\ run.step \in Nat /\ heard \in Seq(P) /\ Len(heard) \in Nat
      /\ phase = "recording" => Len(heard) = run.step
  BY <1>0, StoodSteady, HeardTyped
<1>2. CASE RecordAsk
  <2>1. PICK parts \in P :
            /\ run' = Heard(Request(run, "summary"), Completion(parts))
            /\ heard' = Append(heard, parts)
            /\ config.model.provider = "openai" => OfKind(parts, "thought") = <<>>
    BY <1>0, <1>2, RecordHears
  <2>2. phase = "recording" /\ run.pc = "request" /\ UNCHANGED <<config, exit>>
    BY <1>2 DEF RecordAsk
  <2>3. exit # "raised"
    BY <1>0, <2>2 DEF Exits
  <2>4. Turned(run.history, run.step, heard)
    BY <2>2, <2>3 DEF TurnsInv
  <2> DEFINE n == run.step
             tell == heard'
  <2>5. /\ Len(tell) = n + 1 /\ tell[n + 1] = parts /\ \A i \in 1 .. n : tell[i] = heard[i]
        /\ \A i \in 1 .. Len(tell) : i \in 1 .. n \/ i = n + 1
    <3> HIDE DEF P, tell
    <3>1. tell = Append(heard, parts)
      BY <2>1 DEF tell
    <3> QED
      BY <1>1, <2>1, <2>2, <3>1, AppendParts
  <2>6. Leads(heard, tell) /\ n + 1 \in 1 .. Len(tell) /\ Len(tell) \in Nat /\ Len(heard) = n
    BY <1>1, <2>2, <2>5 DEF Leads
  <2>7. tell[n + 1] \in Seq(Part) /\ run' = Heard(Request(run, "summary"), Completion(tell[n + 1]))
    BY <2>1, <2>5
  <2>8. Turned(run'.history, run'.step, tell)
    <3> DEFINE said == heard
               q == run'
    <3>1. /\ Turned(run.history, n, said) /\ Leads(said, tell) /\ Len(said) \in Nat
          /\ q = Heard(Request(run, "summary"), Completion(tell[n + 1]))
      BY <1>1, <2>4, <2>6, <2>7
    <3> HIDE DEF P, said, q, tell
    <3> QED
      BY <1>1, <2>2, <2>6, <2>7, <3>1, HeardTurned DEF q
  <2>9. Thoughtless(config.model.provider, tell)
    <3> SUFFICES ASSUME config.model.provider = "openai", NEW k \in 1 .. Len(tell)
                 PROVE  OfKind(tell[k], "thought") = <<>>
      BY DEF Thoughtless
    <3>1. CASE k = n + 1
      BY <2>1, <2>5, <3>1
    <3>2. CASE k \in 1 .. n
      BY <2>5, <2>6, <3>2 DEF TurnsInv, Thoughtless
    <3> QED
      BY <2>5, <3>1, <3>2
  <2> QED
    BY <2>2, <2>8, <2>9 DEF TurnsInv
<1>3. CASE ReplayAsk
  <2>1. /\ run.pc = "request" /\ exit # "raised" /\ UNCHANGED <<config, heard, exit>>
        /\ run.step + 1 \in 1 .. Len(heard)
        /\ run' = Heard(Request(run, "extract"), Completion(heard[run.step + 1]))
    BY <1>0, <1>3, ReplayHearsNext
  <2>2. Turned(run.history, run.step, heard)
    BY <2>1 DEF TurnsInv
  <2>3. heard[run.step + 1] \in P
    <3> HIDE DEF P
    <3> QED
      BY <1>1, <2>1
  <2>4. Leads(heard, heard)
    BY <1>1 DEF Leads
  <2>5. Turned(run'.history, run'.step, heard)
    <3> DEFINE q == run'
    <3>1. q = Heard(Request(run, "extract"), Completion(heard[run.step + 1]))
      BY <2>1
    <3> HIDE DEF q
    <3> QED
      BY <1>1, <2>1, <2>2, <2>3, <2>4, <3>1, HeardTurned DEF q
  <2> QED
    BY <2>1, <2>5 DEF TurnsInv
<1>4. CASE ActsOn
  <2>1. PICK t \in Texts, how \in {"summary", "extract"} : run' = Acted(run, t, how)
    BY <1>4 DEF ActsOn
  <2>2. run.pc = "act" /\ UNCHANGED <<config, heard>>
    BY <1>4 DEF ActsOn
  <2>3. Turned(run.history, run.step, heard)
    BY <2>2 DEF TurnsInv
  <2>4. Turned(run'.history, run'.step, heard)
    <3> DEFINE q == run'
    <3>1. q = Acted(run, t, how)
      BY <2>1
    <3> HIDE DEF q
    <3> QED
      BY <1>1, <2>2, <2>3, <3>1, ActedTurned DEF q
  <2> QED
    BY <2>2, <2>4 DEF TurnsInv
<1>5. CASE Stays
  BY <1>5 DEF Stays, TurnsInv
<1>6. CASE Stumbles
  <2>1. run'.pc = "request"
    BY <1>1, <1>6, RequestSteady DEF Stumbles
  <2> QED
    BY <1>6, <2>1 DEF Stumbles, TurnsInv
<1>7. CASE Ends
  BY <1>7 DEF Ends, TurnsInv
<1>8. CASE Restarts
  <2>1. PICK findings \in Texts : run' = NewRun(findings)
    BY <1>8 DEF Restarts
  <2>2. UNCHANGED <<config, heard>>
    BY <1>8 DEF Restarts
  <2>3. run'.history = <<Said("findings", findings)>>
    BY <2>1 DEF NewRun
  <2>4. \A i \in 1 .. Len(run'.history) : run'.history[i].role = "user"
    BY <2>3 DEF Said, Msg
  <2>5. Turned(run'.history, run'.step, heard)
    BY <2>4 DEF Turned
  <2> QED
    BY <2>2, <2>5 DEF TurnsInv
<1> QED
  BY <1>0, <1>2, <1>3, <1>4, <1>5, <1>6, <1>7, <1>8, RunSteps

LEMMA TurnsInvariant == Spec => []TurnsInv
<1>1. Init => TurnsInv
  BY TurnsInit
<1>2. LockInv /\ TurnsInv /\ [Next]_vars => TurnsInv'
  BY TurnsStep
<1> QED
  BY <1>1, <1>2, LockInvariant, PTL DEF Spec

AllOf(parts, kind) ==
    parts \in Seq(Part) /\ \A i \in 1 .. Len(parts) : parts[i].kind = kind
InOrder(a, b, c, turn) ==
    AllOf(a, "thought") /\ AllOf(b, "text") /\ AllOf(c, "call") /\ turn = a \o b \o c

\* Thoughts, then texts, then calls.
LEMMA PartsInOrder ==
    ASSUME NEW a, NEW b, NEW c, NEW turn, InOrder(a, b, c, turn)
    PROVE  /\ turn \in Seq(Part)
           /\ OfKind(turn, "call") = c
           /\ OfKind(turn, "thought") = a
           /\ OfKind(turn, "answer") = <<>> /\ OfKind(turn, "redacted") = <<>>
           /\ \A k \in 1 .. Len(turn) : turn[k].kind = "thought" =>
                  \A l \in 1 .. k - 1 : turn[l].kind = "thought"
<1> DEFINE ab == a \o b
<1>1. /\ a \in Seq(Part) /\ \A i \in 1 .. Len(a) : a[i].kind = "thought"
      /\ c \in Seq(Part) /\ \A i \in 1 .. Len(c) : c[i].kind = "call"
  BY DEF InOrder, AllOf
<1>2. /\ b \in Seq(Part) /\ \A i \in 1 .. Len(b) : b[i].kind = "text"
  BY DEF InOrder, AllOf
<1>4. turn = ab \o c
  BY DEF InOrder
<1>5. ab \in Seq(Part) /\ ab \o c \in Seq(Part)
  BY <1>1, <1>2
<1>6. \A kind : OfKind(ab, kind) = OfKind(a, kind) \o OfKind(b, kind)
  BY <1>1, <1>2, OfKindJoin
<1>7. /\ Len(ab) = Len(a) + Len(b) /\ Len(a) \in Nat /\ Len(b) \in Nat /\ Len(c) \in Nat
      /\ Len(ab \o c) = Len(ab) + Len(c)
      /\ \A i \in 1 .. Len(a) : (ab \o c)[i] = a[i]
      /\ \A i \in Len(a) + 1 .. Len(ab) : (ab \o c)[i] = b[i - Len(a)]
      /\ \A i \in Len(ab) + 1 .. Len(ab \o c) : (ab \o c)[i] = c[i - Len(ab)]
  BY <1>1, <1>2
<1> HIDE DEF ab
<1>8. \A kind : OfKind(ab \o c, kind) = OfKind(ab, kind) \o OfKind(c, kind)
  BY <1>1, <1>5, OfKindJoin
<1>9. /\ OfKind(a, "thought") = a /\ OfKind(a, "call") = <<>> /\ OfKind(a, "answer") = <<>>
      /\ OfKind(b, "thought") = <<>> /\ OfKind(b, "call") = <<>> /\ OfKind(b, "answer") = <<>>
      /\ OfKind(c, "thought") = <<>> /\ OfKind(c, "call") = c /\ OfKind(c, "answer") = <<>>
      /\ OfKind(a, "redacted") = <<>> /\ OfKind(b, "redacted") = <<>>
      /\ OfKind(c, "redacted") = <<>>
  <2>1. /\ \A i \in 1 .. Len(a) : a[i].kind # "call" /\ a[i].kind # "answer"
        /\ \A i \in 1 .. Len(b) : b[i].kind # "call" /\ b[i].kind # "answer" /\ b[i].kind # "thought"
        /\ \A i \in 1 .. Len(c) : c[i].kind # "thought" /\ c[i].kind # "answer"
        /\ \A i \in 1 .. Len(a) : a[i].kind # "redacted"
        /\ \A i \in 1 .. Len(b) : b[i].kind # "redacted"
        /\ \A i \in 1 .. Len(c) : c[i].kind # "redacted"
    BY <1>1, <1>2
  <2> QED
    BY <1>1, <1>2, <2>1, OfOneKind, OfNoKind
<1>10. /\ a \o <<>> = a /\ <<>> \o c = c /\ <<>> \o <<>> = <<>>
  BY <1>1
<1>11. /\ OfKind(turn, "thought") = a /\ OfKind(turn, "call") = c /\ OfKind(turn, "answer") = <<>>
       /\ OfKind(turn, "redacted") = <<>>
  <2>1. /\ OfKind(ab, "thought") = a /\ OfKind(ab, "call") = <<>> /\ OfKind(ab, "answer") = <<>>
        /\ OfKind(ab, "redacted") = <<>>
    BY <1>6, <1>9, <1>10
  <2> QED
    BY <1>4, <1>8, <1>9, <1>10, <2>1
<1>12. ASSUME NEW k \in 1 .. Len(turn), turn[k].kind = "thought", NEW l \in 1 .. k - 1
       PROVE  turn[l].kind = "thought"
  <2>1. k \in 1 .. Len(a)
    <3>1. k \notin Len(a) + 1 .. Len(ab)
      <4> SUFFICES ASSUME k \in Len(a) + 1 .. Len(ab) PROVE FALSE
        OBVIOUS
      <4>1. k - Len(a) \in 1 .. Len(b)
        BY <1>7
      <4> QED
        BY <1>2, <1>4, <1>7, <1>12, <4>1
    <3>2. k \notin Len(ab) + 1 .. Len(turn)
      <4> SUFFICES ASSUME k \in Len(ab) + 1 .. Len(turn) PROVE FALSE
        OBVIOUS
      <4>1. k - Len(ab) \in 1 .. Len(c)
        BY <1>4, <1>7
      <4>2. turn[k] = c[k - Len(ab)]
        BY ONLY <1>4, <1>7, k \in Len(ab) + 1 .. Len(turn)
      <4> QED
        BY ONLY <1>1, <1>12, <4>1, <4>2
    <3> QED
      BY <1>4, <1>7, <3>1, <3>2
  <2>2. l \in 1 .. Len(a)
    BY <1>7, <2>1
  <2> QED
    BY <1>1, <1>4, <1>7, <2>2
<1> QED
  BY <1>4, <1>5, <1>11, <1>12

LEMMA TextTyped ==
    ASSUME NEW text, NEW b, b = IF text THEN <<Plain("text")>> ELSE <<>>
    PROVE  b \in Seq(Part) /\ \A i \in 1 .. Len(b) : b[i].kind = "text"
<1>1. Plain("text") \in Part /\ Plain("text").kind = "text"
  BY PlainTyped DEF Plain
<1> QED
  BY <1>1

\* What an adapter makes of a completion: its thoughts, a text, its calls.
LEMMA WireTurnIs ==
    ASSUME NEW p, NEW parts \in Seq(Part),
           p = "openai" => OfKind(parts, "thought") = <<>>,
           NEW turn, turn = WireTurn(p, Completion(parts))
    PROVE  /\ turn \in Seq(Part)
           /\ OfKind(turn, "call") = OfKind(parts, "call")
           /\ OfKind(turn, "thought") = OfKind(parts, "thought")
           /\ OfKind(turn, "answer") = <<>> /\ OfKind(turn, "redacted") = <<>>
           /\ \A k \in 1 .. Len(turn) : turn[k].kind = "thought" =>
                  \A l \in 1 .. k - 1 : turn[l].kind = "thought"
<1> DEFINE said == Completion(parts)
           a == OfKind(parts, "thought")
           b == IF said.text THEN <<Plain("text")>> ELSE <<>>
           c == OfKind(parts, "call")
<1>1. /\ a \in Seq(Part) /\ \A i \in 1 .. Len(a) : a[i].kind = "thought"
      /\ c \in Seq(Part) /\ \A i \in 1 .. Len(c) : c[i].kind = "call"
  BY OfKindTyped
<1>2. /\ b \in Seq(Part) /\ \A i \in 1 .. Len(b) : b[i].kind = "text"
  BY TextTyped
<1>3. InOrder(a, b, c, turn)
  <2>1. said.blocks = a /\ said.calls = c
    BY CompletionProper
  <2>2. turn = (IF p = "openai" THEN <<>> ELSE said.blocks) \o b \o said.calls
    BY DEF WireTurn
  <2>3. (IF p = "openai" THEN <<>> ELSE said.blocks) = a
    BY <2>1
  <2> QED
    BY <1>1, <1>2, <2>1, <2>2, <2>3 DEF InOrder, AllOf
<1> HIDE DEF a, b, c
<1>4. /\ turn \in Seq(Part)
      /\ OfKind(turn, "call") = c
      /\ OfKind(turn, "thought") = a
      /\ OfKind(turn, "answer") = <<>> /\ OfKind(turn, "redacted") = <<>>
      /\ \A k \in 1 .. Len(turn) : turn[k].kind = "thought" =>
             \A l \in 1 .. k - 1 : turn[l].kind = "thought"
  BY ONLY <1>3, PartsInOrder
<1> QED
  BY ONLY <1>4 DEF a, c

LEMMA TurnsSuffice == LockInv /\ TurnsInv => TurnsReturned
<1> DEFINE p == config.model.provider
           h == run.history
           turns == WireTurns(p, h)
<1> SUFFICES ASSUME LockInv, TurnsInv, run.pc = "act",
                    NEW i \in DOMAIN turns, h[i].role = "assistant"
             PROVE  LET response == heard[run.step -
                              Cardinality({j \in i + 1 .. Len(turns) : h[j].role = "assistant"})] IN
                    /\ OfKind(turns[i], "call") = OfKind(response, "call")
                    /\ OfKind(turns[i], "thought") = OfKind(response, "thought")
                    /\ OfKind(turns[i], "redacted") = <<>>
                    /\ \A k \in DOMAIN turns[i] : turns[i][k].kind = "thought" =>
                          \A l \in 1 .. k - 1 : turns[i][l].kind = "thought"
  BY DEF TurnsReturned
<1>1. h \in Seq(ChatMessage)
  BY StoodSteady DEF LockInv, Histories
<1>2. heard \in Seq(Seq(Part))
  BY HeardTyped DEF LockInv
<1>3. DOMAIN turns = 1 .. Len(h) /\ Len(turns) = Len(h) /\ i \in 1 .. Len(h)
  BY <1>1 DEF WireTurns
<1>4. turns[i] = WireTurn(p, h[i].says)
  <2>1. i \in DOMAIN h
    BY <1>1, <1>3
  <2> QED
    BY <2>1 DEF WireTurns
<1> DEFINE n == run.step - Later(h, i)
           response == heard[n]
           turn == turns[i]
<1>5. /\ Turned(h, run.step, heard) /\ Thoughtless(p, heard)
  BY DEF TurnsInv
<1>6. n \in 1 .. Len(heard) /\ h[i].says = Completion(response)
  BY <1>3, <1>5 DEF Turned
<1>7. p = "openai" => OfKind(response, "thought") = <<>>
  BY <1>5, <1>6 DEF Thoughtless
<1>8. response \in Seq(Part)
  <2> DEFINE P == Seq(Part)
  <2>1. heard \in Seq(P)
    BY <1>2
  <2> HIDE DEF P, n
  <2>2. heard[n] \in P
    BY <1>6, <2>1
  <2> QED
    BY <2>2 DEF P
<1>9. response = heard[run.step - Cardinality({j \in i + 1 .. Len(turns) : h[j].role = "assistant"})]
  BY <1>3 DEF Later
<1>10. turn = WireTurn(p, Completion(response))
  BY <1>4, <1>6
<1> HIDE DEF p, response, n
<1>11. /\ turn \in Seq(Part)
       /\ OfKind(turn, "call") = OfKind(response, "call")
       /\ OfKind(turn, "thought") = OfKind(response, "thought")
       /\ OfKind(turn, "redacted") = <<>>
       /\ \A k \in 1 .. Len(turn) : turn[k].kind = "thought" =>
              \A l \in 1 .. k - 1 : turn[l].kind = "thought"
  <2> HIDE DEF turn
  <2> QED
    BY <1>7, <1>8, <1>10, WireTurnIs
<1>12. DOMAIN turn = 1 .. Len(turn)
  BY <1>11
<1> QED
  BY <1>9, <1>11, <1>12

\* The assistant turns of every request give back what the model said: for any
\* provider, any responses, and any number of compactions, the plain thoughts and
\* the calls that _to_anthropic_messages, _to_openai_messages and
\* _to_google_contents put in a turn are those of the response it was, signatures
\* included, the thoughts first, and no redacted thought comes back; those of a
\* replay, read from the cassette, are the recording's.
THEOREM TurnsAreResponses == Spec => []TurnsReturned
  BY LockInvariant, TurnsInvariant, TurnsSuffice, PTL

-----------------------------------------------------------------------------
(* Calls and their answers.                                                    *)

\* The call that the k-th answer after a turn is to: the extra calls are refused
\* before the first one, the primary, is acted on.
Replied(calls, k) == IF k = Len(calls) THEN calls[1] ELSE calls[k + 1]

\* The calls of the i-th message are answered by the ones after it, up to the n-th.
TurnAnswered(h, i, n) ==
    /\ Proper(h[i].says) /\ i + Len(h[i].says.calls) <= n
    /\ \A k \in 1 .. Len(h[i].says.calls) :
          /\ h[i + k].role = "tool"
          /\ h[i + k].says.calls = <<Replied(h[i].says.calls, k)>>

AnswersTurn(h, j) ==
    \E i \in 1 .. j - 1 : h[i].role = "assistant" /\ j <= i + Len(h[i].says.calls)

Answered(h, n) ==
    /\ \A i \in 1 .. n : h[i].role = "assistant" => TurnAnswered(h, i, n)
    /\ \A j \in 1 .. n : h[j].role = "tool" => AnswersTurn(h, j)

LEMMA CallsCounted ==
    ASSUME NEW h \in Seq(ChatMessage), NEW i \in 1 .. Len(h)
    PROVE  /\ h[i] \in ChatMessage /\ h[i].says \in Completions
           /\ h[i].says.calls \in Seq(Part) /\ h[i].says.blocks \in Seq(Part)
           /\ Len(h[i].says.calls) \in Nat
<1>1. h[i] \in ChatMessage
  OBVIOUS
<1>2. h[i].says \in Completions
  BY <1>1 DEF ChatMessage
<1>3. h[i].says.calls \in Seq(Part) /\ h[i].says.blocks \in Seq(Part)
  BY <1>2 DEF Completions
<1> QED
  BY <1>1, <1>2, <1>3

\* It is a matter of the first n messages only.
LEMMA AnsweredSame ==
    ASSUME NEW h \in Seq(ChatMessage), NEW n \in 0 .. Len(h), Answered(h, n),
           NEW q, \A i \in 1 .. n : q[i] = h[i]
    PROVE  Answered(q, n)
<1>1. Len(h) \in Nat /\ n \in Nat
  OBVIOUS
<1>2. ASSUME NEW i \in 1 .. n, q[i].role = "assistant" PROVE TurnAnswered(q, i, n)
  <2> DEFINE calls == h[i].says.calls
  <2>1. i \in 1 .. Len(h) /\ i \in Nat
    BY <1>1
  <2>2. Len(calls) \in Nat
    BY <2>1, CallsCounted
  <2>3. TurnAnswered(h, i, n) /\ q[i] = h[i]
    BY <1>2 DEF Answered
  <2>4. i + Len(calls) <= n
    BY <2>3 DEF TurnAnswered
  <2>5. \A k \in 1 .. Len(calls) : i + k \in 1 .. n
    <3> HIDE DEF calls
    <3> QED
      BY <1>1, <2>1, <2>2, <2>4
  <2> QED
    BY <2>3, <2>5 DEF TurnAnswered
<1>3. ASSUME NEW j \in 1 .. n, q[j].role = "tool" PROVE AnswersTurn(q, j)
  <2>1. AnswersTurn(h, j)
    BY <1>3 DEF Answered
  <2>2. \A i \in 1 .. j - 1 : i \in 1 .. n
    BY <1>1
  <2> QED
    BY <2>1, <2>2 DEF AnswersTurn
<1> QED
  BY <1>2, <1>3 DEF Answered

\* A history is never cut between a turn and its answers.
LEMMA AnsweredCut ==
    ASSUME NEW h \in Seq(ChatMessage), Answered(h, Len(h)), NEW c, NEW s, CutAt(c, h, s)
    PROVE  Answered(c, Len(c))
<1>1. /\ s \in Nat /\ Len(h) \in Nat /\ s <= Len(h) - 1 /\ Len(c) = Len(h) - s + 1
      /\ h[s + 1].role # "tool" /\ c[1].role = "user"
      /\ \A i \in 2 .. Len(c) : c[i] = h[i - 1 + s]
  BY DEF CutAt
<1>2. ASSUME NEW i \in 1 .. Len(c), c[i].role = "assistant" PROVE TurnAnswered(c, i, Len(c))
  <2> DEFINE o == i - 1 + s
             calls == h[o].says.calls
  <2>1. i \in 2 .. Len(c) /\ o \in 1 .. Len(h) /\ c[i] = h[o] /\ o \in Nat /\ i \in Nat
        /\ i = o + 1 - s
    BY <1>1, <1>2
  <2> HIDE DEF o
  <2>2. Len(calls) \in Nat
    BY <2>1, CallsCounted
  <2>3. TurnAnswered(h, o, Len(h))
    BY <1>2, <2>1 DEF Answered
  <2>4. /\ Proper(h[o].says) /\ o + Len(calls) <= Len(h)
        /\ \A k \in 1 .. Len(calls) : /\ h[o + k].role = "tool"
                                      /\ h[o + k].says.calls = <<Replied(calls, k)>>
    BY <2>3 DEF TurnAnswered
  <2>5. c[i].says.calls = calls
    BY <2>1
  <2> HIDE DEF calls
  <2>6. \A k \in 1 .. Len(calls) : c[i + k] = h[o + k]
    <3> TAKE k \in 1 .. Len(calls)
    <3>1. i + k \in 2 .. Len(c) /\ i + k - 1 + s = o + k
      BY <1>1, <2>1, <2>2, <2>4
    <3> QED
      BY <1>1, <3>1
  <2>7. i + Len(calls) <= Len(c)
    BY <1>1, <2>1, <2>2, <2>4
  <2> QED
    BY <2>1, <2>4, <2>5, <2>6, <2>7 DEF TurnAnswered
<1>3. ASSUME NEW j \in 1 .. Len(c), c[j].role = "tool" PROVE AnswersTurn(c, j)
  <2> DEFINE o == j - 1 + s
  <2>1. j \in 2 .. Len(c) /\ o \in 1 .. Len(h) /\ c[j] = h[o] /\ o \in Nat /\ j \in Nat
        /\ j = o + 1 - s
    BY <1>1, <1>3
  <2> HIDE DEF o
  <2>2. PICK a \in 1 .. o - 1 : h[a].role = "assistant" /\ o <= a + Len(h[a].says.calls)
    BY <1>3, <2>1 DEF Answered, AnswersTurn
  <2> DEFINE calls == h[a].says.calls
  <2>3. a \in 1 .. Len(h) /\ a \in Nat
    BY <1>1, <2>1, <2>2
  <2>4. Len(calls) \in Nat
    BY <2>3, CallsCounted
  <2>5. \A k \in 1 .. Len(calls) : h[a + k].role = "tool"
    BY <2>2, <2>3 DEF Answered, TurnAnswered
  <2>6. o <= a + Len(calls)
    BY <2>2
  <2> DEFINE m == Len(calls)
  <2>7. m \in Nat /\ o <= a + m /\ \A k \in 1 .. m : h[a + k].role = "tool"
    BY <2>4, <2>5, <2>6
  <2> HIDE DEF m
  <2>8. a > s
    <3> SUFFICES ASSUME a <= s PROVE FALSE
      BY <1>1, <2>3
    <3> DEFINE k == s + 1 - a
    <3>1. k \in 1 .. m /\ a + k = s + 1
      BY <1>1, <2>1, <2>3, <2>7
    <3> HIDE DEF k
    <3> QED
      BY <1>1, <2>7, <3>1
  <2> DEFINE b == a + 1 - s
  <2>9. b \in 2 .. Len(c) /\ b \in 1 .. j - 1 /\ b - 1 + s = a /\ j <= b + m
    BY <1>1, <2>1, <2>2, <2>3, <2>7, <2>8
  <2> HIDE DEF b
  <2>10. c[b] = h[a]
    BY <1>1, <2>9
  <2> QED
    BY <2>2, <2>9, <2>10 DEF AnswersTurn, m
<1> QED
  BY <1>2, <1>3 DEF Answered

\* What the user says is no answer.
LEMMA AnsweredUser ==
    ASSUME NEW h \in Seq(ChatMessage), Answered(h, Len(h)), NEW message \in ChatMessage,
           message.role = "user", NEW q, q = Append(h, message)
    PROVE  Answered(q, Len(q))
<1> DEFINE n == Len(h)
<1>1. /\ Len(q) = n + 1 /\ q[n + 1] = message /\ n \in Nat
      /\ \A i \in 1 .. n : q[i] = h[i]
      /\ \A i \in 1 .. Len(q) : i \in 1 .. n \/ i = n + 1
  BY AppendParts
<1>a. h \in Seq(ChatMessage) /\ n \in 0 .. Len(h) /\ Answered(h, n)
  OBVIOUS
<1>2. Answered(q, n)
  <2>1. \A i \in 1 .. n : q[i] = h[i]
    BY <1>1
  <2> HIDE DEF n
  <2> QED
    BY ONLY <1>a, <2>1, AnsweredSame
<1> HIDE DEF n
<1>3. ASSUME NEW i \in 1 .. n, q[i].role = "assistant" PROVE TurnAnswered(q, i, Len(q))
  <2>1. TurnAnswered(q, i, n)
    BY <1>2, <1>3 DEF Answered
  <2>2. q[i] = h[i] /\ i \in 1 .. Len(h)
    BY <1>1 DEF n
  <2>3. Len(q[i].says.calls) \in Nat
    BY <2>2, CallsCounted
  <2>4. i + Len(q[i].says.calls) <= Len(q)
    BY <1>1, <2>1, <2>3 DEF TurnAnswered
  <2> QED
    BY <2>1, <2>4 DEF TurnAnswered
<1> QED
  BY ONLY <1>1, <1>2, <1>3, message.role = "user" DEF Answered

LEMMA ThreeParts ==
    ASSUME NEW n \in Nat, NEW m \in Nat, NEW l, l = n + 1 + m
    PROVE  \A i \in 1 .. l : i \in 1 .. n \/ i = n + 1 \/ \E k \in 1 .. m : i = n + 1 + k
<1> TAKE i \in 1 .. l
<1>1. CASE i > n + 1
  <2> DEFINE k == i - (n + 1)
  <2>1. k \in 1 .. m /\ i = n + 1 + k
    BY <1>1
  <2> QED
    BY <2>1
<1>2. CASE i <= n + 1
  BY <1>2
<1> QED
  BY <1>1, <1>2

\* Once its answers follow, a turn is answered.
LEMMA AnsweredTurn ==
    ASSUME NEW h \in Seq(ChatMessage), NEW n \in 0 .. Len(h), Answered(h, n),
           NEW q \in Seq(ChatMessage), \A i \in 1 .. n : q[i] = h[i],
           n + 1 \in 1 .. Len(q), q[n + 1].role = "assistant", Proper(q[n + 1].says),
           Len(q) = n + 1 + Len(q[n + 1].says.calls),
           \A k \in 1 .. Len(q[n + 1].says.calls) :
               /\ q[n + 1 + k].role = "tool"
               /\ q[n + 1 + k].says.calls = <<Replied(q[n + 1].says.calls, k)>>
    PROVE  Answered(q, Len(q))
<1> DEFINE m == Len(q[n + 1].says.calls)
<1>1. n \in Nat /\ m \in Nat /\ Len(q) = n + 1 + m
  BY CallsCounted
<1>a. \A i \in 1 .. n : i \in 1 .. Len(q)
  <2> HIDE DEF m
  <2> QED
    BY ONLY <1>1
<1>2. Answered(q, n)
  BY AnsweredSame
<1>3. TurnAnswered(q, n + 1, Len(q))
  BY <1>1 DEF TurnAnswered
<1>4. ASSUME NEW i \in 1 .. n, q[i].role = "assistant" PROVE TurnAnswered(q, i, Len(q))
  <2>1. TurnAnswered(q, i, n)
    BY <1>2, <1>4 DEF Answered
  <2>2. i \in 1 .. Len(q)
    BY <1>a, <1>4
  <2>3. Len(q[i].says.calls) \in Nat
    BY <2>2, CallsCounted
  <2>4. i + Len(q[i].says.calls) <= Len(q)
    BY <1>1, <2>1, <2>3 DEF TurnAnswered
  <2> QED
    BY <2>1, <2>4 DEF TurnAnswered
<1>5. ASSUME NEW k \in 1 .. m PROVE /\ q[n + 1 + k].role = "tool" /\ AnswersTurn(q, n + 1 + k)
  <2>1. q[n + 1 + k].role = "tool"
    OBVIOUS
  <2> HIDE DEF m
  <2>2. n + 1 \in 1 .. n + 1 + k - 1 /\ n + 1 + k <= n + 1 + m
    BY <1>1
  <2> QED
    BY <2>1, <2>2 DEF AnswersTurn, m
<1>6. \A i \in 1 .. Len(q) : i \in 1 .. n \/ i = n + 1 \/ \E k \in 1 .. m : i = n + 1 + k
  <2> DEFINE l == Len(q)
  <2>1. n \in Nat /\ m \in Nat /\ l = n + 1 + m
    BY <1>1
  <2> HIDE DEF m, l
  <2>2. \A i \in 1 .. l : i \in 1 .. n \/ i = n + 1 \/ \E k \in 1 .. m : i = n + 1 + k
    BY ONLY <2>1, ThreeParts
  <2> QED
    BY <2>2 DEF l
<1>7. q[n + 1].role = "assistant"
  OBVIOUS
<1> HIDE DEF m
<1>8. \A i \in 1 .. Len(q) : q[i].role = "assistant" => TurnAnswered(q, i, Len(q))
  BY ONLY <1>3, <1>4, <1>5, <1>6
<1>9. \A j \in 1 .. Len(q) : q[j].role = "tool" => AnswersTurn(q, j)
  BY ONLY <1>2, <1>5, <1>6, <1>7 DEF Answered
<1> QED
  BY <1>8, <1>9 DEF Answered

\* The message an answer to a call is.
LEMMA AnswerSays ==
    ASSUME NEW call \in Part, call.kind = "call", NEW note, NEW t, NEW n
    PROVE  /\ Answer(call, note, t, n).role = "tool"
           /\ Answer(call, note, t, n).says.calls = <<call>>
<1>1. Answer(call, note, t, n).says = Completion(<<call>>) /\ Answer(call, note, t, n).role = "tool"
  BY DEF Answer, Msg
<1>2. Completion(<<call>>).calls = OfKind(<<call>>, "call")
  BY DEF Completion
<1>3. OfKind(<<call>>, "call") = <<call>>
  BY OfOne
<1> QED
  BY <1>1, <1>2, <1>3

\* What an act that goes on says: the refusals of the extra calls, and an answer
\* to the primary.
LEMMA ActedReplies ==
    ASSUME NEW r, Steady(r), r.pc = "act", Act(r) \notin {"nudge", "judge"}, NEW t \in Texts,
           NEW how \in {"summary", "extract"}, NEW q, q = Acted(r, t, how)
    PROVE  \E message \in ChatMessage :
              /\ q.history = Append(r.history \o ExtraAnswers(r), message)
              /\ \E note, text, n : message = Answer(Primary(r), note, text, n)
<1>1. r \in Runner /\ r.history \in Seq(ChatMessage)
  BY RunnerFields DEF Steady, Histories
<1>2. Calls(r) # <<>> /\ Primary(r) \in Part
  BY ActCases, CallsTyped
<1> DEFINE refusals == ExtraAnswers(r)
<1>3. "rejected" \in Notes /\ "over_budget" \in Notes /\ 0 \in Nat
  BY DEF Notes
<1>4. CASE Act(r) = "reject"
  <2> DEFINE message == Answer(Primary(r), "rejected", NoText, 0)
  <2>1. message \in ChatMessage
    BY <1>2, <1>3, MessagesTyped, TextsTyped
  <2>2. q = Saying(r, t, message)
    BY <1>4, ActedReject
  <2>a. \E note, text, n : message = Answer(Primary(r), note, text, n)
    OBVIOUS
  <2> HIDE DEF message
  <2>3. q.history = Append(r.history \o refusals, message)
    BY <1>2, <2>1, <2>2, SayingTyped
  <2> QED
    BY <2>1, <2>3, <2>a
<1>5. CASE Act(r) = "over_budget"
  <2> DEFINE message == Answer(Primary(r), "over_budget", NoText, 0)
             p == Saying(r, t, message)
  <2>1. message \in ChatMessage
    BY <1>2, <1>3, MessagesTyped, TextsTyped
  <2>2. q = [p EXCEPT !.stale = p.stale + 1]
    <3>1. Acted(r, t, how) =
              [Saying(r, t, Answer(Primary(r), "over_budget", NoText, 0)) EXCEPT !.stale = @ + 1]
      BY <1>5, ActedOver
    <3> QED
      BY <3>1
  <2>a. \E note, text, n : message = Answer(Primary(r), note, text, n)
    OBVIOUS
  <2> HIDE DEF message
  <2>3. p \in Runner /\ p.history = Append(r.history \o refusals, message)
    BY <1>2, <2>1, SayingTyped
  <2> HIDE DEF p
  <2>4. q.history = p.history
    BY <2>2, <2>3 DEF Runner
  <2> QED
    BY <2>1, <2>3, <2>4, <2>a
<1>6. CASE Act(r) \in {"refuse", "write", "exec"}
  <2> DEFINE text == ResultText(r, t)
             n == r.seq + Len(Extras(r)) + 2
             message == Rendered(r, text, how, n)
             p == Saying(r, t, message)
  <2>1. text \in Texts /\ n \in Nat
    BY <1>1, <1>2, ResultTyped, ExtrasTyped, RunnerFields
  <2>2. message \in ChatMessage
    BY <1>2, <2>1, RenderedTyped
  <2>3. q = Settled(p, r, text, n)
    BY <1>6, ActedSettled
  <2>a. \E note, shown, m : message = Answer(Primary(r), note, shown, m)
    <3> HIDE DEF Answer, text, n
    <3> QED
      BY DEF Rendered
  <2> HIDE DEF message
  <2>4. p \in Runner /\ p.history = Append(r.history \o refusals, message)
    BY <1>2, <2>2, SayingTyped
  <2> HIDE DEF p, n, text
  <2>5. q.history = p.history
    BY <2>3, <2>4 DEF Runner, Settled
  <2> QED
    BY <2>2, <2>4, <2>5, <2>a
<1> QED
  BY <1>4, <1>5, <1>6, ActCases DEF Acts

\* A runner that acts has a turn to answer, and all the turns before it answered.
Open(h) ==
    /\ Answered(h, Len(h) - 1) /\ h[Len(h)].role = "assistant" /\ Proper(h[Len(h)].says)

\* b is what the act adds to h: the answers to its last turn's calls.
LEMMA OpenAnswered ==
    ASSUME NEW h \in Histories, Open(h), NEW calls, calls = h[Len(h)].says.calls,
           NEW b \in Seq(ChatMessage), Len(b) = Len(calls),
           \A k \in 1 .. Len(b) : b[k].role = "tool" /\ b[k].says.calls = <<Replied(calls, k)>>
    PROVE  Answered(h \o b, Len(h \o b))
<1> DEFINE q == h \o b
           n == Len(h) - 1
<1>1. h \in Seq(ChatMessage) /\ Len(h) \in Nat /\ Len(h) >= 1
  BY DEF Histories
<1>b. b \in Seq(ChatMessage)
  OBVIOUS
<1>2. /\ q \in Seq(ChatMessage) /\ Len(q) = Len(h) + Len(b) /\ Len(b) \in Nat
      /\ \A i \in 1 .. Len(h) : q[i] = h[i]
      /\ \A k \in 1 .. Len(b) : q[Len(h) + k] = b[k]
  BY ONLY <1>1, <1>b
<1> HIDE DEF q
<1>3. n \in 0 .. Len(h) /\ n + 1 = Len(h) /\ n + 1 \in 1 .. Len(q)
      /\ \A i \in 1 .. n : i \in 1 .. Len(h)
  BY <1>1, <1>2
<1>4. Answered(h, n) /\ h[n + 1].role = "assistant" /\ Proper(h[n + 1].says)
  BY <1>3 DEF Open
<1> HIDE DEF n
<1>5. q[n + 1] = h[n + 1] /\ q[n + 1].says.calls = calls
  BY <1>1, <1>2, <1>3
<1>6. \A k \in 1 .. Len(q[n + 1].says.calls) :
          /\ q[n + 1 + k].role = "tool"
          /\ q[n + 1 + k].says.calls = <<Replied(q[n + 1].says.calls, k)>>
  <2> TAKE k \in 1 .. Len(q[n + 1].says.calls)
  <2>1. k \in 1 .. Len(b)
    BY <1>5
  <2>2. q[n + 1 + k] = b[k]
    BY <1>2, <1>3, <2>1
  <2> QED
    BY <1>5, <2>1, <2>2
<1>7. Len(q) = n + 1 + Len(q[n + 1].says.calls)
  BY <1>2, <1>3, <1>5
<1>8. \A i \in 1 .. n : q[i] = h[i]
  BY <1>2, <1>3
<1>9. Answered(q, Len(q))
  BY ONLY <1>1, <1>2, <1>3, <1>4, <1>5, <1>6, <1>7, <1>8, AnsweredTurn
<1> QED
  BY <1>9 DEF q

\* b answers these calls.
Replies(b, calls) ==
    /\ Len(b) = Len(calls)
    /\ \A k \in 1 .. Len(b) : b[k].role = "tool" /\ b[k].says.calls = <<Replied(calls, k)>>

\* What an act that goes on adds to the history.
LEMMA ActedAnswers ==
    ASSUME NEW r, Steady(r), r.pc = "act", Act(r) \notin {"nudge", "judge"}, NEW t \in Texts,
           NEW how \in {"summary", "extract"}, NEW q, q = Acted(r, t, how),
           \A k \in 1 .. Len(Calls(r)) : Calls(r)[k].kind = "call"
    PROVE  \E b \in Seq(ChatMessage) : Joint(r.history, b, q.history) /\ Replies(b, Calls(r))
<1> DEFINE calls == Calls(r)
           extras == Extras(r)
           refusals == ExtraAnswers(r)
           h == r.history
<1>1. calls \in Seq(Part) /\ calls # <<>> /\ Primary(r) = calls[1] /\ extras = Tail(calls)
  <2>1. Calls(r) \in Seq(Part) /\ Calls(r) # <<>>
    BY ActCases, CallsTyped
  <2> QED
    BY <2>1 DEF Primary, Extras
<1>2. PICK message \in ChatMessage :
          /\ q.history = Append(h \o refusals, message)
          /\ \E note, text, n : message = Answer(calls[1], note, text, n)
  BY <1>1, ActedReplies
<1>3. /\ refusals \in Seq(ChatMessage) /\ Len(refusals) = Len(extras) /\ Len(extras) \in Nat
  BY <1>1, ExtrasTyped
<1>4. \A i \in 1 .. Len(extras) : refusals[i] = Answer(extras[i], "blocked", NoText, 0)
  <2>1. extras \in Seq(Part)
    BY <1>1, CallsTyped
  <2> QED
    BY <2>1 DEF ExtraAnswers
<1>5. h \in Seq(ChatMessage)
  BY RunnerFields DEF Steady, Histories
<1>6. \A k \in 1 .. Len(calls) : calls[k].kind = "call"
  OBVIOUS
<1> HIDE DEF calls, extras, refusals, h
<1>7. /\ Len(calls) \in Nat /\ Len(calls) = Len(extras) + 1
      /\ \A i \in 1 .. Len(extras) : extras[i] = calls[i + 1] /\ i + 1 \in 1 .. Len(calls)
      /\ 1 \in 1 .. Len(calls) /\ \A i \in 1 .. Len(calls) : calls[i] \in Part
  BY <1>1
<1> DEFINE b == Append(refusals, message)
<1>8. /\ b \in Seq(ChatMessage) /\ Len(b) = Len(calls)
      /\ b[Len(calls)] = message /\ \A i \in 1 .. Len(extras) : b[i] = refusals[i]
  BY <1>3, <1>7
<1>9. q.history = h \o b
  <2> DEFINE w == h \o refusals
             v == Append(w, message)
  <2>1. Joint(h, refusals, w) /\ Longer(refusals, message, b) /\ Longer(w, message, v)
    BY DEF Joint, Longer
  <2>a. w \in Seq(ChatMessage)
    BY <1>3, <1>5
  <2> HIDE DEF b, v, w
  <2>2. Joint(h, b, v)
    BY ONLY <1>3, <1>5, message \in ChatMessage, <2>1, JointLonger
  <2> QED
    BY <1>2, <2>2 DEF Joint, v, w
<1> HIDE DEF b
<1>10. message.role = "tool" /\ message.says.calls = <<calls[1]>>
  <2>1. calls[1] \in Part /\ calls[1].kind = "call"
    BY <1>6, <1>7
  <2> QED
    BY <1>2, <2>1, AnswerSays
<1>11. ASSUME NEW k \in 1 .. Len(b)
       PROVE  b[k].role = "tool" /\ b[k].says.calls = <<Replied(calls, k)>>
  <2>1. CASE k = Len(calls)
    BY <1>8, <1>10, <2>1 DEF Replied
  <2>2. CASE k # Len(calls)
    <3>1. k \in 1 .. Len(extras)
      BY <1>7, <1>8, <1>11, <2>2
    <3>2. b[k] = Answer(calls[k + 1], "blocked", NoText, 0)
      BY <1>4, <1>7, <1>8, <3>1
    <3>3. calls[k + 1] \in Part /\ calls[k + 1].kind = "call"
      BY <1>6, <1>7, <3>1
    <3> QED
      BY <2>2, <3>2, <3>3, AnswerSays DEF Replied
  <2> QED
    BY <2>1, <2>2
<1> QED
  BY <1>8, <1>9, <1>11 DEF calls, h, Joint, Replies

LEMMA ActedAnswered ==
    ASSUME NEW r, Steady(r), r.pc = "act", Open(r.history), NEW t \in Texts,
           NEW how \in {"summary", "extract"}, NEW q, q = Acted(r, t, how), q.pc = "request"
    PROVE  Answered(q.history, Len(q.history))
<1> DEFINE h == r.history
           calls == h[Len(h)].says.calls
<1>1. h \in Histories /\ h \in Seq(ChatMessage) /\ Len(h) \in Nat /\ Len(h) >= 1
  BY RunnerFields DEF Steady, Histories
<1>2. calls = Calls(r) /\ calls \in Seq(Part)
  <2>1. calls = Calls(r)
    BY DEF Calls
  <2> QED
    BY <2>1, CallsTyped
<1>3. \A k \in 1 .. Len(calls) : calls[k].kind = "call"
  BY DEF Open, Proper
<1>4. Open(h)
  OBVIOUS
<1>5. CASE Act(r) = "nudge"
  <2>1. calls = <<>>
    BY <1>2, <1>5, ActCases
  <2> DEFINE b == <<>>
             message == Said("nudge", NoText)
  <2>2. b \in Seq(ChatMessage) /\ Len(b) = 0 /\ Len(b) = Len(calls) /\ h \o b = h
    BY <1>1, <2>1
  <2>3. \A k \in 1 .. Len(b) : b[k].role = "tool" /\ b[k].says.calls = <<Replied(calls, k)>>
    BY <2>2
  <2>4. message \in ChatMessage /\ message.role = "user"
    <3>1. message \in ChatMessage
      <4>1. "nudge" \in Notes
        BY DEF Notes
      <4> QED
        BY <4>1, MessagesTyped, TextsTyped
    <3>2. message.role = "user"
      BY DEF Said, Msg
    <3> QED
      BY <3>1, <3>2
  <2>5. q.history = Append(h, message)
    <3>0. Acted(r, t, how) =
              [r EXCEPT !.pc = "request", !.history = Append(@, Said("nudge", NoText))]
      BY ONLY <1>5, ActedNudge
    <3>1. q = [r EXCEPT !.pc = "request", !.history = Append(@, Said("nudge", NoText))]
      BY <3>0
    <3>2. r \in Runner
      BY DEF Steady
    <3> QED
      BY <3>1, <3>2 DEF Runner
  <2>6. calls = h[Len(h)].says.calls
    OBVIOUS
  <2> HIDE DEF h, calls, b, message
  <2>7. Answered(h \o b, Len(h \o b))
    BY ONLY <1>1, <1>4, <2>2, <2>3, <2>6, OpenAnswered
  <2>8. Answered(h, Len(h))
    BY <2>2, <2>7
  <2> DEFINE z == q.history
  <2>9. z = Append(h, message)
    BY <2>5
  <2> HIDE DEF z
  <2>10. Answered(z, Len(z))
    BY ONLY <1>1, <2>4, <2>8, <2>9, AnsweredUser
  <2> QED
    BY <2>10 DEF z
<1>6. CASE Act(r) = "judge"
  <2>1. q.pc = "ended"
    <3> HIDE DEF calls, h
    <3> QED
      BY <1>6, JudgedIs
  <2> QED
    BY <2>1
<1>7. CASE Act(r) \notin {"nudge", "judge"}
  <2>1. PICK b \in Seq(ChatMessage) :
              /\ q.history = h \o b /\ Len(b) = Len(calls)
              /\ \A k \in 1 .. Len(b) :
                    b[k].role = "tool" /\ b[k].says.calls = <<Replied(calls, k)>>
    <3>1. \A k \in 1 .. Len(Calls(r)) : Calls(r)[k].kind = "call"
      BY <1>2, <1>3
    <3>2. \E b \in Seq(ChatMessage) : Joint(r.history, b, q.history) /\ Replies(b, Calls(r))
      <4>1. /\ Steady(r) /\ r.pc = "act" /\ t \in Texts /\ how \in {"summary", "extract"}
            /\ q = Acted(r, t, how)
        OBVIOUS
      <4> QED
        BY ONLY <1>7, <3>1, <4>1, ActedAnswers
    <3>3. h = r.history
      OBVIOUS
    <3> HIDE DEF calls, h
    <3> QED
      BY ONLY <1>2, <3>2, <3>3 DEF Joint, Replies
  <2>2. calls = h[Len(h)].says.calls
    OBVIOUS
  <2> HIDE DEF h, calls
  <2>3. Answered(h \o b, Len(h \o b))
    BY ONLY <1>1, <1>4, <2>1, <2>2, OpenAnswered
  <2> QED
    BY <2>1, <2>3
<1> QED
  BY <1>5, <1>6, <1>7

LEMMA CompactedAnswered ==
    ASSUME NEW h \in Histories, Answered(h, Len(h)), NEW how, how \in {"summary", "extract"},
           NEW c, c = Compacted(how, h)
    PROVE  Answered(c, Len(c))
<1>1. h \in Seq(ChatMessage)
  BY DEF Histories
<1>2. CASE c = h
  BY <1>2
<1>3. CASE c # h
  <2>1. PICK s : CutAt(c, h, s)
    BY <1>3, CompactedCut
  <2> QED
    BY ONLY <1>1, <2>1, Answered(h, Len(h)), AnsweredCut
<1> QED
  BY <1>2, <1>3

LEMMA AskAnswered ==
    ASSUME NEW r, Steady(r), r.pc = "request", NEW how, how \in {"summary", "extract"},
           Answered(r.history, Len(r.history)), NEW parts \in Seq(Part),
           NEW q, q = Heard(Request(r, how), Completion(parts))
    PROVE  Open(q.history)
<1> DEFINE said == Completion(parts)
           h == r.history
           c == Compacted(how, h)
           message == Turn(said)
           z == q.history
<1>1. said \in Completions /\ Proper(said)
  BY CompletionProper
<1>2. /\ h \in Histories /\ c \in Histories /\ z = Append(c, message)
      /\ message \in ChatMessage /\ message.role = "assistant" /\ message.says = said
  <2>1. q = Heard(Request(r, how), said)
    OBVIOUS
  <2> HIDE DEF said
  <2> QED
    BY <1>1, <2>1, AskHeard
<1>3. how \in {"summary", "extract"} /\ Answered(h, Len(h)) /\ c = Compacted(how, h)
  OBVIOUS
<1> HIDE DEF said, h, c, message, z
<1>4. Answered(c, Len(c))
  BY ONLY <1>2, <1>3, CompactedAnswered
<1>5. c \in Seq(ChatMessage) /\ Len(c) \in Nat
  BY <1>2 DEF Histories
<1>6. /\ Len(z) = Len(c) + 1 /\ z[Len(z)] = message
      /\ \A i \in 1 .. Len(c) : z[i] = c[i]
  BY <1>2, <1>5, AppendParts
<1>7. Len(c) \in 0 .. Len(c) /\ Len(z) - 1 = Len(c)
  BY <1>5, <1>6
<1>8. Answered(z, Len(c))
  <2> DEFINE n == Len(c)
  <2>1. n \in 0 .. Len(c) /\ Answered(c, n) /\ \A i \in 1 .. n : z[i] = c[i]
    BY <1>4, <1>6, <1>7
  <2> HIDE DEF n
  <2>2. Answered(z, n)
    BY ONLY <1>5, <2>1, AnsweredSame
  <2> QED
    BY <2>2 DEF n
<1>9. Open(z)
  BY <1>1, <1>2, <1>6, <1>7, <1>8 DEF Open
<1> QED
  BY <1>9 DEF z

\* Where the runner asks, all that was called for is answered; where it acts, all
\* but the calls of its last turn.
AnsweredInv ==
    /\ run.pc = "request" => Answered(run.history, Len(run.history))
    /\ run.pc = "act" => Open(run.history)

LEMMA NewAnswered ==
    ASSUME NEW findings, NEW r, r = NewRun(findings)
    PROVE  r.pc = "request" /\ Answered(r.history, Len(r.history))
<1> DEFINE h == r.history
<1>1. r.pc = "request" /\ h = <<Said("findings", findings)>>
  BY DEF NewRun
<1>2. \A i \in 1 .. Len(h) : h[i].role = "user"
  BY <1>1 DEF Said, Msg
<1> HIDE DEF h
<1>3. Answered(h, Len(h))
  BY <1>2 DEF Answered
<1> QED
  BY <1>1, <1>3 DEF h

LEMMA AnsweredInit == Init => AnsweredInv
<1> SUFFICES ASSUME Init PROVE AnsweredInv
  OBVIOUS
<1>1. PICK findings \in Findings : run = NewRun(findings)
  BY DEF Init
<1>2. run.pc = "request" /\ Answered(run.history, Len(run.history))
  <2> HIDE DEF NewRun
  <2> QED
    BY ONLY <1>1, NewAnswered
<1> QED
  BY <1>2 DEF AnsweredInv

LEMMA AnsweredStep == LockInv /\ AnsweredInv /\ [Next]_vars => AnsweredInv'
<1> SUFFICES ASSUME LockInv, AnsweredInv, [Next]_vars PROVE AnsweredInv'
  OBVIOUS
<1>0. TypesInv /\ Exits /\ Paced /\ ToldInv /\ ReplayInv
  BY DEF LockInv
<1> DEFINE P == Seq(Part)
           q == run'
<1>1. Steady(run) /\ heard \in Seq(P)
  BY <1>0, StoodSteady, HeardTyped
<1>2. /\ run.pc = "request" => Answered(run.history, Len(run.history))
      /\ run.pc = "act" => Open(run.history)
  BY DEF AnsweredInv
<1>3. (AnsweredInv)' <=> /\ q.pc = "request" => Answered(q.history, Len(q.history))
                         /\ q.pc = "act" => Open(q.history)
  BY DEF AnsweredInv
<1>a. "summary" \in {"summary", "extract"} /\ "extract" \in {"summary", "extract"}
  OBVIOUS
<1>b. ASSUME run.pc = "request", NEW how \in {"summary", "extract"}, NEW parts \in P,
             q = Heard(Request(run, how), Completion(parts))
      PROVE  q.pc = "act" /\ Open(q.history)
  <2> DEFINE said == Completion(parts)
  <2>1. said \in Completions
    BY CompletionTyped
  <2>2. q = Heard(Request(run, how), said)
    BY <1>b
  <2> HIDE DEF q, said
  <2>3. q.pc = "act"
    BY <1>1, <1>b, <2>1, <2>2, AskHeard
  <2>4. Open(q.history)
    BY <1>1, <1>2, <1>b, AskAnswered
  <2> QED
    BY <2>3, <2>4
<1>4. CASE RecordAsk
  <2>1. PICK parts \in P : run' = Heard(Request(run, "summary"), Completion(parts))
    BY <1>0, <1>4, RecordHears
  <2>2. run.pc = "request"
    BY <1>4 DEF RecordAsk
  <2>3. q = Heard(Request(run, "summary"), Completion(parts))
    BY <2>1
  <2> HIDE DEF q, P
  <2> QED
    BY <1>3, <1>a, <1>b, <2>2, <2>3
<1>5. CASE ReplayAsk
  <2>1. /\ run.pc = "request" /\ run.step + 1 \in 1 .. Len(heard)
        /\ q = Heard(Request(run, "extract"), Completion(heard[run.step + 1]))
    BY <1>0, <1>5, ReplayHearsNext
  <2> HIDE DEF q, P
  <2>2. heard[run.step + 1] \in P
    BY <1>1, <2>1
  <2> QED
    BY <1>3, <1>a, <1>b, <2>1, <2>2
<1>6. CASE ActsOn
  <2>1. PICK t \in Texts, how \in {"summary", "extract"} : run' = Acted(run, t, how)
    BY <1>6 DEF ActsOn
  <2>2. run.pc = "act" /\ q = Acted(run, t, how)
    BY <1>6, <2>1 DEF ActsOn
  <2> HIDE DEF q, Acted
  <2>3. q.pc \in {"request", "ended"}
    BY <1>1, <2>2, ActedSteady
  <2>4. Open(run.history)
    BY <1>2, <2>2
  <2>5. q.pc = "request" => Answered(q.history, Len(q.history))
    BY <1>1, <2>2, <2>4, ActedAnswered
  <2> QED
    BY <1>3, <2>3, <2>5
<1>7. CASE Stays
  BY <1>2, <1>3, <1>7 DEF Stays
<1>8. CASE Stumbles
  <2>1. run.pc = "request" /\ q = Request(run, "extract")
    BY <1>8 DEF Stumbles
  <2>2. run.history \in Histories
    BY <1>1, RunnerFields DEF Steady
  <2> HIDE DEF q
  <2>3. q.pc = "request" /\ q.history = Compacted("extract", run.history)
    BY <1>1, <2>1, RequestSteady
  <2> DEFINE h == run.history
             z == q.history
  <2>4. h \in Histories /\ z = Compacted("extract", h) /\ Answered(h, Len(h))
    BY <1>2, <2>1, <2>2, <2>3
  <2> HIDE DEF h, z
  <2>5. Answered(z, Len(z))
    BY ONLY <1>a, <2>4, CompactedAnswered
  <2> QED
    BY <1>3, <2>3, <2>5 DEF z
<1>9. CASE Ends
  BY <1>3, <1>9 DEF Ends
<1>10. CASE Restarts
  <2>1. PICK findings \in Texts : q = NewRun(findings)
    BY <1>10 DEF Restarts
  <2> HIDE DEF q, NewRun
  <2>2. q.pc = "request" /\ Answered(q.history, Len(q.history))
    BY ONLY <2>1, NewAnswered
  <2> QED
    BY <1>3, <2>2
<1> QED
  BY <1>0, <1>4, <1>5, <1>6, <1>7, <1>8, <1>9, <1>10, RunSteps

LEMMA AnsweredInvariant == Spec => []AnsweredInv
<1>1. Init => AnsweredInv
  BY AnsweredInit
<1>2. LockInv /\ AnsweredInv /\ [Next]_vars => AnsweredInv'
  BY AnsweredStep
<1> QED
  BY <1>1, <1>2, LockInvariant, PTL DEF Spec

-----------------------------------------------------------------------------
(* What the adapters make of a history whose calls are answered.               *)

LEMMA SaidWired ==
    ASSUME NEW p, NEW said \in Completions, Proper(said), NEW turn, turn = WireTurn(p, said)
    PROVE  turn \in Seq(Part) /\ OfKind(turn, "call") = said.calls /\ ~IsAnswer(turn)
<1> DEFINE a == IF p = "openai" THEN <<>> ELSE said.blocks
           b == IF said.text THEN <<Plain("text")>> ELSE <<>>
           c == said.calls
<1>1. said.blocks \in Seq(Part) /\ c \in Seq(Part)
  BY DEF Completions
<1>2. AllOf(a, "thought") /\ AllOf(c, "call")
  BY <1>1 DEF Proper, AllOf
<1>3. AllOf(b, "text")
  BY TextTyped DEF AllOf
<1>4. InOrder(a, b, c, turn)
  BY <1>2, <1>3 DEF InOrder, WireTurn
<1> HIDE DEF a, b, c
<1>5. turn \in Seq(Part) /\ OfKind(turn, "call") = c /\ OfKind(turn, "answer") = <<>>
  BY ONLY <1>4, PartsInOrder
<1>6. ~IsAnswer(turn)
  <2> SUFFICES ASSUME IsAnswer(turn) PROVE FALSE
    OBVIOUS
  <2>1. Len(turn) = 1 /\ \A k \in 1 .. Len(turn) : turn[k].kind = "answer"
    BY DEF IsAnswer
  <2>2. OfKind(turn, "answer") = turn
    BY ONLY <1>5, <2>1, OfOneKind
  <2>3. turn = <<>>
    BY ONLY <1>5, <2>2
  <2>4. Len(turn) = 0
    BY ONLY <2>3
  <2> QED
    BY ONLY <2>1, <2>4
<1> QED
  BY <1>5, <1>6 DEF c

\* The turn of a tool message.
LEMMA AnswerWired ==
    ASSUME NEW p, NEW call \in Part, NEW turn, turn = <<WireAnswer(p, call)>>
    PROVE  turn \in Seq(Part) /\ OfKind(turn, "call") = <<>> /\ IsAnswer(turn)
<1> DEFINE e == WireAnswer(p, call)
<1>1. e \in Part /\ e.kind = "answer"
  <2>1. Plain("answer") \in Part /\ Plain("answer").kind = "answer"
    BY PlainTyped DEF Plain
  <2> DEFINE tool == IF p = "google" THEN call.tool ELSE ""
             base == Plain("answer")
  <2>2. call.id \in Nat \X Nat /\ tool \in {"", "run_command", "write_file", "submit_flag"}
    BY DEF Part
  <2>3. e = [base EXCEPT !.id = call.id, !.tool = tool]
    BY DEF WireAnswer
  <2>4. base \in Part /\ base.kind = "answer"
    BY <2>1
  <2> HIDE DEF e, tool, base
  <2> QED
    BY <2>2, <2>3, <2>4 DEF Part
<1>2. turn = <<e>>
  OBVIOUS
<1> HIDE DEF e
<1>3. turn \in Seq(Part) /\ Len(turn) = 1 /\ turn[1] = e
  BY <1>1, <1>2
<1>4. OfKind(turn, "call") = <<>>
  BY <1>1, <1>2, OfOne
<1> QED
  BY <1>1, <1>3, <1>4 DEF IsAnswer

\* The turn of a user's message.
LEMMA TextWired ==
    ASSUME NEW turn, turn = <<Plain("text")>>
    PROVE  turn \in Seq(Part) /\ OfKind(turn, "call") = <<>> /\ ~IsAnswer(turn)
<1> DEFINE e == Plain("text")
<1>1. e \in Part /\ e.kind = "text"
  BY PlainTyped DEF Plain
<1>2. turn = <<e>>
  OBVIOUS
<1> HIDE DEF e
<1>3. turn \in Seq(Part) /\ Len(turn) = 1 /\ turn[1] = e
  BY <1>1, <1>2
<1>4. OfKind(turn, "call") = <<>>
  BY <1>1, <1>2, OfOne
<1> QED
  BY <1>1, <1>3, <1>4 DEF IsAnswer

\* The primary's answer comes last, and yet each call has one.
LEMMA MatchingReplied ==
    ASSUME NEW p, NEW calls \in Seq(Part), NEW s, DOMAIN s = 1 .. Len(calls),
           \A j \in 1 .. Len(calls) : s[j] = <<WireAnswer(p, Replied(calls, j))>>,
           \A j \in 1 .. Len(calls) : IsAnswer(s[j])
    PROVE  Matching(p, calls, s)
<1> DEFINE m == Len(calls)
           Id(i) == WireAnswer(p, calls[i])
<1>1. m \in Nat /\ DOMAIN calls = 1 .. m /\ DOMAIN s = 1 .. m
  OBVIOUS
<1>2. \A j \in 1 .. m : s[j][1] = IF j = m THEN Id(1) ELSE Id(j + 1)
  BY DEF Replied
<1> HIDE DEF m, Id
<1>3. ASSUME NEW k PROVE Cardinality({j \in 1 .. m : s[j][1] = k}) = Cardinality({i \in 1 .. m : Id(i) = k})
  <2> DEFINE from == {j \in 1 .. m : s[j][1] = k}
             to == {i \in 1 .. m : Id(i) = k}
             b == [j \in from |-> IF j = m THEN 1 ELSE j + 1]
  <2>1. \A j \in from : b[j] \in to
    BY <1>1, <1>2
  <2>2. \A i, j \in from : b[i] = b[j] => i = j
    BY <1>1
  <2>3. \A i \in to : \E j \in from : b[j] = i
    <3> TAKE i \in to
    <3>1. CASE i = 1
      <4>1. m \in from /\ b[m] = 1
        BY <1>1, <1>2, <3>1
      <4> QED
        BY <3>1, <4>1
    <3>2. CASE i # 1
      <4>1. i - 1 \in 1 .. m /\ i - 1 # m /\ (i - 1) + 1 = i
        BY <1>1, <3>2
      <4>2. i - 1 \in from /\ b[i - 1] = i
        BY <1>1, <1>2, <4>1
      <4> QED
        BY <4>2
    <3> QED
      BY <3>1, <3>2
  <2>4. b \in [from -> to]
    BY <2>1
  <2>5. IsFiniteSet(from)
    <3>1. from \subseteq 1 .. m /\ IsFiniteSet(1 .. m)
      BY <1>1, FS_Interval
    <3> HIDE DEF from
    <3> QED
      BY <3>1, FS_Subset
  <2> HIDE DEF b, from, to
  <2>6. b \in Bijection(from, to)
    BY <2>2, <2>3, <2>4 DEF Bijection, Injection, Surjection, IsInjective
  <2>7. ExistsBijection(from, to)
    BY <2>6 DEF ExistsBijection
  <2>8. Cardinality(to) = Cardinality(from)
    BY <2>5, <2>7, FS_Bijection
  <2> QED
    BY <2>8 DEF from, to
<1> QED
  BY <1>1, <1>3 DEF Matching, Id, m

\* What each message becomes.
Wired(p, h, turns) ==
    /\ DOMAIN turns = 1 .. Len(h)
    /\ \A i \in 1 .. Len(h) : /\ turns[i] \in Seq(Part)
                              /\ OfKind(turns[i], "call") = IF h[i].role = "assistant"
                                                            THEN h[i].says.calls ELSE <<>>
                              /\ IsAnswer(turns[i]) <=> h[i].role = "tool"
                              /\ h[i].role = "tool" =>
                                     turns[i] = <<WireAnswer(p, h[i].says.calls[1])>>

LEMMA AnsweredWired ==
    ASSUME NEW p, NEW h \in Seq(ChatMessage), Answered(h, Len(h)),
           NEW turns, turns = WireTurns(p, h)
    PROVE  Wired(p, h, turns)
<1>1. Len(h) \in Nat /\ DOMAIN h = 1 .. Len(h) /\ DOMAIN turns = 1 .. Len(h)
  BY DEF WireTurns
<1>2. \A i \in 1 .. Len(h) : turns[i] =
         CASE h[i].role = "assistant" -> WireTurn(p, h[i].says)
           [] h[i].role = "tool" -> <<WireAnswer(p, h[i].says.calls[1])>>
           [] OTHER -> <<Plain("text")>>
  BY <1>1 DEF WireTurns
<1>3. ASSUME NEW i \in 1 .. Len(h)
      PROVE  /\ turns[i] \in Seq(Part)
             /\ OfKind(turns[i], "call") = IF h[i].role = "assistant"
                                           THEN h[i].says.calls ELSE <<>>
             /\ IsAnswer(turns[i]) <=> h[i].role = "tool"
             /\ h[i].role = "tool" => turns[i] = <<WireAnswer(p, h[i].says.calls[1])>>
  <2> DEFINE turn == turns[i]
             said == h[i].says
  <2>1. said \in Completions /\ said.calls \in Seq(Part) /\ h[i].role \in {"user", "assistant", "tool"}
    BY CallsCounted DEF ChatMessage
  <2>2. CASE h[i].role = "assistant"
    <3>1. turn = WireTurn(p, said)
      BY <1>2, <2>2
    <3>2. Proper(said)
      BY <2>2 DEF Answered, TurnAnswered
    <3> HIDE DEF turn, said
    <3>3. turn \in Seq(Part) /\ OfKind(turn, "call") = said.calls /\ ~IsAnswer(turn)
      BY ONLY <2>1, <3>1, <3>2, SaidWired
    <3> QED
      BY <2>2, <3>3 DEF turn, said
  <2>3. CASE h[i].role = "tool"
    <3> DEFINE call == said.calls[1]
    <3>1. turn = <<WireAnswer(p, call)>>
      BY <1>2, <2>3
    <3>2. PICK a \in 1 .. i - 1 : h[a].role = "assistant" /\ i <= a + Len(h[a].says.calls)
      BY <2>3 DEF Answered, AnswersTurn
    <3> DEFINE calls == h[a].says.calls
               k == i - a
    <3>3. a \in 1 .. Len(h) /\ a \in Nat
      BY <1>1
    <3>4. calls \in Seq(Part) /\ Len(calls) \in Nat
      BY <3>3, CallsCounted
    <3>5. TurnAnswered(h, a, Len(h))
      BY <3>2, <3>3 DEF Answered
    <3>6. i <= a + Len(calls)
      BY <3>2
    <3>7. k \in 1 .. Len(calls) /\ a + k = i
      <4> HIDE DEF calls
      <4> QED
        BY <3>3, <3>4, <3>6
    <3>8. said.calls = <<Replied(calls, k)>>
      <4>1. \A j \in 1 .. Len(calls) : h[a + j].says.calls = <<Replied(calls, j)>>
        BY <3>5 DEF TurnAnswered
      <4> HIDE DEF calls, k
      <4> QED
        BY <3>7, <4>1
    <3>9. Replied(calls, k) \in Part
      <4> HIDE DEF calls, k
      <4> QED
        BY <3>4, <3>7 DEF Replied
    <3>10. call \in Part
      BY <3>8, <3>9
    <3> HIDE DEF turn, said, call
    <3>11. turn \in Seq(Part) /\ OfKind(turn, "call") = <<>> /\ IsAnswer(turn)
      BY ONLY <3>1, <3>10, AnswerWired
    <3> QED
      BY <2>3, <3>1, <3>11 DEF turn, call, said
  <2>4. CASE h[i].role = "user"
    <3>1. turn = <<Plain("text")>>
      BY <1>2, <2>4
    <3> HIDE DEF turn
    <3>2. turn \in Seq(Part) /\ OfKind(turn, "call") = <<>> /\ ~IsAnswer(turn)
      BY ONLY <3>1, TextWired
    <3> QED
      BY <2>4, <3>2 DEF turn
  <2> QED
    BY <2>1, <2>2, <2>3, <2>4
<1> QED
  BY <1>1, <1>3 DEF Wired

\* A history whose calls are answered becomes a request whose calls are.
LEMMA WiredAnswered ==
    ASSUME NEW p, NEW h \in Seq(ChatMessage), Answered(h, Len(h)),
           NEW turns, Wired(p, h, turns), turns \in Seq(Seq(Part))
    PROVE  CallsAnswered(p, turns)
<1> DEFINE n == Len(h)
           made(i) == OfKind(turns[i], "call")
           after(i) == i + Len(made(i))
           P == Seq(Part)
<1>1. n \in Nat /\ DOMAIN turns = 1 .. n /\ Len(turns) = n /\ turns \in Seq(P)
  <2>1. n \in Nat /\ DOMAIN turns = 1 .. n /\ turns \in Seq(P)
    BY DEF Wired
  <2> HIDE DEF P, n
  <2> QED
    BY <2>1
<1>2. ASSUME NEW i \in 1 .. n, made(i) # <<>>
      PROVE  /\ after(i) <= Len(turns)
             /\ Matching(p, made(i), SubSeq(turns, i + 1, after(i)))
  <2> DEFINE calls == h[i].says.calls
             m == Len(calls)
             s == SubSeq(turns, i + 1, i + m)
  <2>1. h[i].role = "assistant" /\ made(i) = calls
    BY <1>2 DEF Wired
  <2>2. TurnAnswered(h, i, n) /\ calls \in Seq(Part) /\ m \in Nat /\ i \in Nat
    BY <2>1, CallsCounted DEF Answered
  <2>3. /\ i + m <= n
        /\ \A k \in 1 .. m : /\ h[i + k].role = "tool"
                             /\ h[i + k].says.calls = <<Replied(calls, k)>>
    BY <2>2 DEF TurnAnswered
  <2>4. \A k \in 1 .. m : i + k \in 1 .. n
    <3> HIDE DEF m, n
    <3> QED
      BY <1>1, <2>2, <2>3
  <2>5. \A k \in 1 .. m : /\ IsAnswer(turns[i + k])
                          /\ turns[i + k] = <<WireAnswer(p, Replied(calls, k))>>
    <3> TAKE k \in 1 .. m
    <3>1. /\ i + k \in 1 .. n /\ h[i + k].role = "tool"
          /\ h[i + k].says.calls = <<Replied(calls, k)>>
      BY <2>3, <2>4
    <3>2. IsAnswer(turns[i + k]) /\ turns[i + k] = <<WireAnswer(p, h[i + k].says.calls[1])>>
      BY <3>1 DEF Wired
    <3> HIDE DEF calls
    <3> QED
      BY <3>1, <3>2
  <2>6. DOMAIN s = 1 .. m /\ \A k \in 1 .. m : s[k] = turns[i + k]
    <3>1. /\ turns \in Seq(P) /\ Len(turns) = n /\ n \in Nat /\ i \in Nat /\ m \in Nat
          /\ i + m <= n
      BY ONLY <1>1, <2>2, <2>3
    <3> HIDE DEF m, n, P
    <3>2. /\ Len(s) = m /\ DOMAIN s = 1 .. Len(s)
          /\ \A k \in 1 .. m : s[k] = turns[i + 1 + k - 1]
      BY ONLY <3>1
    <3>3. \A k \in 1 .. m : i + 1 + k - 1 = i + k
      BY ONLY <3>1
    <3> QED
      BY ONLY <3>2, <3>3
  <2> HIDE DEF s
  <2>7. Matching(p, calls, s)
    <3>1. DOMAIN s = 1 .. Len(calls)
      BY <2>6
    <3>2. /\ \A j \in 1 .. Len(calls) : s[j] = <<WireAnswer(p, Replied(calls, j))>>
          /\ \A j \in 1 .. Len(calls) : IsAnswer(s[j])
      BY <2>5, <2>6
    <3> HIDE DEF calls
    <3> QED
      BY ONLY <2>2, <3>1, <3>2, MatchingReplied
  <2> QED
    BY <1>1, <2>1, <2>3, <2>7 DEF s
<1>3. ASSUME NEW j \in 1 .. n, IsAnswer(turns[j]) PROVE \E i \in 1 .. j - 1 : j <= after(i)
  <2>1. h[j].role = "tool"
    BY <1>3 DEF Wired
  <2>2. PICK i \in 1 .. j - 1 : h[i].role = "assistant" /\ j <= i + Len(h[i].says.calls)
    BY <2>1 DEF Answered, AnswersTurn
  <2>3. i \in 1 .. n
    BY <1>1
  <2>4. made(i) = h[i].says.calls
    BY <2>2, <2>3 DEF Wired
  <2> QED
    BY <2>2, <2>4
<1> QED
  BY <1>1, <1>2, <1>3 DEF CallsAnswered

LEMMA AnsweredSuffices == LockInv /\ AnsweredInv => RequestsAnswered
<1> SUFFICES ASSUME LockInv, AnsweredInv, run.pc = "request"
             PROVE  CallsAnswered(config.model.provider,
                        WireTurns(config.model.provider, Compacted("summary", run.history)))
  BY DEF RequestsAnswered
<1> DEFINE p == config.model.provider
           h == run.history
           c == Compacted("summary", h)
           turns == WireTurns(p, c)
           P == Seq(Part)
<1>1. h \in Histories
  BY StoodSteady DEF LockInv
<1>2. Answered(h, Len(h)) /\ "summary" \in {"summary", "extract"}
  BY DEF AnsweredInv
<1>3. c = Compacted("summary", h) /\ turns = WireTurns(p, c)
  OBVIOUS
<1>4. c \in Seq(ChatMessage)
  <2>1. c \in Histories
    BY <1>1, <1>2, CompactedTyped
  <2> QED
    BY <2>1 DEF Histories
<1> HIDE DEF p, h, c, turns, P
<1>5. Answered(c, Len(c))
  BY ONLY <1>1, <1>2, <1>3, CompactedAnswered
<1>6. Wired(p, c, turns)
  BY ONLY <1>3, <1>4, <1>5, AnsweredWired
<1>7. turns \in Seq(P)
  <2>1. DOMAIN turns = 1 .. Len(c) /\ \A i \in 1 .. Len(c) : turns[i] \in P
    BY <1>6 DEF Wired, P
  <2>2. Len(c) \in Nat /\ turns = [i \in DOMAIN turns |-> turns[i]]
    <3>1. turns = [i \in DOMAIN turns |-> turns[i]]
      BY <1>3 DEF WireTurns
    <3>2. Len(c) \in Nat
      BY ONLY <1>4
    <3> QED
      BY ONLY <3>1, <3>2
  <2> QED
    BY <2>1, <2>2
<1>8. CallsAnswered(p, turns)
  BY <1>4, <1>5, <1>6, <1>7, WiredAnswered DEF P
<1> QED
  BY <1>8 DEF p, turns, c, h

\* Whatever a request is made of, its adapter's _to_anthropic_messages,
\* _to_openai_messages or _to_google_contents gives the API what it insists on:
\* right after a turn with calls, one answer to each of them and no other, for
\* any responses of any provider, with the refusals Runner.run writes for extra
\* calls, and wherever maybe_compact cut the history.
THEOREM CallsAreAnswered == Spec => []RequestsAnswered
  BY LockInvariant, AnsweredInvariant, AnsweredSuffices, PTL
=============================================================================
