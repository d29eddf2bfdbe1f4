--------------------------- MODULE RunHistoryProofs ---------------------------
(***************************************************************************)
(* The conversation a run sends: every request is one a provider accepts,  *)
(* and compaction keeps it within max_messages.  Theorems for every value  *)
(* of the constants.                                                       *)
(***************************************************************************)
EXTENDS RunLoopProofs

-----------------------------------------------------------------------------
(* Pairing, message by message                                                *)

\* The tool message at j answers a turn; the turn at i is answered.
AnswersTurn(h, j) == \E i \in 1 .. j - 1 : h[i].role = "assistant" /\ j \in Answers(h, i)
TurnAnswered(h, i) ==
    /\ UNION {h[j].calls : j \in Answers(h, i)} = h[i].calls
    /\ \A j, k \in Answers(h, i) : j # k => h[j].calls # h[k].calls

Paired(h, i) ==
    /\ h[i].role = "tool" => AnswersTurn(h, i)
    /\ h[i].role = "assistant" => TurnAnswered(h, i)

LEMMA WellPairedIs ==
    ASSUME NEW h \in Seq(Message)
    PROVE  WellPaired(h) <=> \A i \in 1 .. Len(h) : Paired(h, i)
  BY DEF WellPaired, Paired, AnswersTurn, TurnAnswered

\* g begins with h, and goes on with a message that answers nothing.
Continues(g, h) ==
    /\ Len(h) < Len(g) /\ g[Len(h) + 1].role # "tool"
    /\ \A i \in 1 .. Len(h) : g[i] = h[i]

LEMMA AnswersKept ==
    ASSUME NEW h \in Seq(Message), NEW g \in Seq(Message), Continues(g, h),
           NEW i \in 1 .. Len(h)
    PROVE  Answers(g, i) = Answers(h, i)
<1>1. Len(h) \in Nat /\ Len(g) \in Nat /\ Len(h) < Len(g)
  BY DEF Continues
<1>2. ASSUME NEW j \in Answers(g, i) PROVE j \in Answers(h, i)
  <2>1. j \in i + 1 .. Len(g) /\ \A k \in i + 1 .. j : g[k].role = "tool"
    BY <1>2 DEF Answers
  <2>2. ~(Len(h) + 1 \in i + 1 .. j)
    BY <2>1 DEF Continues
  <2>3. j \in i + 1 .. Len(h)
    BY <1>1, <2>1, <2>2
  <2>4. \A k \in i + 1 .. j : h[k].role = "tool"
    BY <1>1, <2>1, <2>3 DEF Continues
  <2> QED
    BY <2>3, <2>4 DEF Answers
<1>3. ASSUME NEW j \in Answers(h, i) PROVE j \in Answers(g, i)
  <2>1. j \in i + 1 .. Len(h) /\ \A k \in i + 1 .. j : h[k].role = "tool"
    BY <1>3 DEF Answers
  <2>2. j \in i + 1 .. Len(g) /\ \A k \in i + 1 .. j : g[k].role = "tool"
    BY <1>1, <2>1 DEF Continues
  <2> QED
    BY <2>2 DEF Answers
<1> QED
  BY <1>2, <1>3

\* Then only the new messages need looking at.
LEMMA PairingGrows ==
    ASSUME NEW h \in Seq(Message), NEW g \in Seq(Message), Continues(g, h), WellPaired(h),
           \A i \in Len(h) + 1 .. Len(g) : Paired(g, i)
    PROVE  WellPaired(g)
<1>1. Len(h) \in Nat /\ Len(g) \in Nat /\ Len(h) < Len(g)
  BY DEF Continues
<1>2. ASSUME NEW i \in 1 .. Len(h) PROVE Paired(g, i)
  <2>1. Paired(h, i) /\ g[i] = h[i]
    BY WellPairedIs DEF Continues
  <2>2. \A k \in 1 .. Len(h) : Answers(g, k) = Answers(h, k)
    BY AnswersKept
  <2>3. ASSUME g[i].role = "tool" PROVE AnswersTurn(g, i)
    <3>1. PICK t \in 1 .. i - 1 : h[t].role = "assistant" /\ i \in Answers(h, t)
      BY <2>1, <2>3 DEF Paired, AnswersTurn
    <3>2. t \in 1 .. Len(h) /\ g[t] = h[t]
      BY <1>1 DEF Continues
    <3> QED
      BY <2>2, <3>1, <3>2 DEF AnswersTurn
  <2>4. ASSUME g[i].role = "assistant" PROVE TurnAnswered(g, i)
    <3>1. TurnAnswered(h, i) /\ Answers(g, i) = Answers(h, i)
      BY <2>1, <2>2, <2>4 DEF Paired
    <3>2. \A j \in Answers(h, i) : g[j] = h[j]
      BY <1>1 DEF Answers, Continues
    <3>3. {g[j].calls : j \in Answers(g, i)} = {h[j].calls : j \in Answers(h, i)}
      BY <3>1, <3>2
    <3> QED
      BY <2>1, <3>1, <3>2, <3>3 DEF TurnAnswered
  <2> QED
    BY <2>3, <2>4 DEF Paired
<1>3. \A i \in 1 .. Len(g) : i \in 1 .. Len(h) \/ i \in Len(h) + 1 .. Len(g)
  BY <1>1
<1> QED
  BY <1>2, <1>3, WellPairedIs
-----------------------------------------------------------------------------
(* The ways a conversation goes on                                            *)

LEMMA PairedUser ==
    ASSUME NEW h \in Seq(Message), WellPaired(h)
    PROVE  WellPaired(h \o <<UserMessage>>) /\ WellPaired(Append(h, UserMessage))
<1> DEFINE g == h \o <<UserMessage>>
<1>0. UserMessage \in Message /\ UserMessage.role = "user"
  BY DEF Message, UserMessage
<1>1. /\ g \in Seq(Message) /\ Len(g) = Len(h) + 1 /\ g[Len(h) + 1] = UserMessage
      /\ \A i \in 1 .. Len(h) : g[i] = h[i]
  BY <1>0
<1>2. Append(h, UserMessage) = g
  OBVIOUS
<1> HIDE DEF g
<1>3. Continues(g, h)
  BY <1>0, <1>1 DEF Continues
<1>4. \A i \in Len(h) + 1 .. Len(g) : Paired(g, i)
  BY <1>0, <1>1 DEF Paired
<1>5. WellPaired(g)
  BY <1>1, <1>3, <1>4, PairingGrows
<1> QED
  BY <1>2, <1>5 DEF g

\* A turn that asks for nothing is answered by a nudge.
LEMMA PairedNudge ==
    ASSUME NEW h \in Seq(Message), WellPaired(h)
    PROVE  WellPaired(h \o <<AssistantMessage({}), UserMessage>>)
<1> DEFINE g == h \o <<AssistantMessage({}), UserMessage>>
           n == Len(h)
           turn == AssistantMessage({})
<1>0. /\ UserMessage \in Message /\ UserMessage.role = "user"
      /\ turn \in Message /\ turn.role = "assistant" /\ turn.calls = {}
  BY DEF Message, UserMessage, AssistantMessage
<1>1. /\ g \in Seq(Message) /\ Len(g) = n + 2
      /\ g[n + 1] = turn /\ g[n + 2] = UserMessage
      /\ \A i \in 1 .. n : g[i] = h[i]
  BY <1>0
<1> HIDE DEF g, turn
<1>2. Continues(g, h)
  BY <1>0, <1>1 DEF Continues
<1>3. Answers(g, n + 1) = {}
  <2> SUFFICES ASSUME NEW j \in Answers(g, n + 1) PROVE FALSE
    OBVIOUS
  <2>1. j \in n + 2 .. n + 2 /\ \A k \in n + 2 .. j : g[k].role = "tool"
    BY <1>1 DEF Answers
  <2>2. g[n + 2].role = "tool"
    BY <2>1
  <2> QED
    BY <1>0, <1>1, <2>2
<1>4. Paired(g, n + 1)
  BY <1>0, <1>1, <1>3 DEF Paired, TurnAnswered
<1>5. Paired(g, n + 2)
  BY <1>0, <1>1 DEF Paired
<1>6. \A i \in n + 1 .. Len(g) : i = n + 1 \/ i = n + 2
  BY <1>1
<1>7. WellPaired(g)
  BY <1>1, <1>2, <1>4, <1>5, <1>6, PairingGrows
<1> QED
  BY <1>7 DEF g

\* A turn with its calls, the refused extras answered first and the call that
\* was acted upon last.
TurnOf(s, x) == AssistantMessage({<<s, k>> : k \in 0 .. x})
RefusalsOf(s, x) == [k \in 1 .. x |-> ToolMessage(<<s, k>>)]

LEMMA JoinParts ==
    ASSUME NEW S, NEW a \in Seq(S), NEW b \in Seq(S)
    PROVE  /\ a \o b \in Seq(S) /\ Len(a \o b) = Len(a) + Len(b)
           /\ \A i \in 1 .. Len(a) : (a \o b)[i] = a[i]
           /\ \A i \in 1 .. Len(b) : (a \o b)[Len(a) + i] = b[i]
  OBVIOUS

LEMMA AppendParts ==
    ASSUME NEW S, NEW a \in Seq(S), NEW e \in S
    PROVE  /\ Append(a, e) \in Seq(S) /\ Len(Append(a, e)) = Len(a) + 1
           /\ \A i \in 1 .. Len(a) : Append(a, e)[i] = a[i]
           /\ Append(a, e)[Len(a) + 1] = e
  OBVIOUS

\* g is h with such a turn after it.
TurnFollows(g, h, s, x) ==
    /\ g \in Seq(Message) /\ Len(g) = Len(h) + x + 2
    /\ \A i \in 1 .. Len(h) : g[i] = h[i]
    /\ g[Len(h) + 1] = TurnOf(s, x)
    /\ \A k \in 1 .. x : g[Len(h) + 1 + k] = ToolMessage(<<s, k>>)
    /\ g[Len(h) + x + 2] = ToolMessage(<<s, 0>>)

\* The calls of step s have ids.
IdsOf(s, x) == \A k \in 0 .. x : <<s, k>> \in CallIds

LEMMA TurnAppended ==
    ASSUME NEW h \in Seq(Message), NEW s, NEW x \in Nat, IdsOf(s, x)
    PROVE  TurnFollows(Append(Append(h, TurnOf(s, x)) \o RefusalsOf(s, x), ToolMessage(<<s, 0>>)),
                       h, s, x)
<1> DEFINE n == Len(h)
           turn == TurnOf(s, x)
           refusals == RefusalsOf(s, x)
           last == ToolMessage(<<s, 0>>)
           a == Append(h, turn)
           b == a \o refusals
           g == Append(b, last)
<1>1. turn \in Message
  <2>1. {<<s, k>> : k \in 0 .. x} \in SUBSET CallIds
    BY DEF IdsOf
  <2> QED
    BY <2>1, MessagesTyped DEF TurnOf
<1>2. last \in Message
  <2>1. 0 \in 0 .. x
    OBVIOUS
  <2> QED
    BY <2>1, MessagesTyped DEF IdsOf
<1>3. refusals \in Seq(Message) /\ Len(refusals) = x
      /\ \A k \in 1 .. x : refusals[k] = ToolMessage(<<s, k>>)
  <2>1. \A k \in 1 .. x : ToolMessage(<<s, k>>) \in Message
    BY MessagesTyped DEF IdsOf
  <2> QED
    BY <2>1 DEF RefusalsOf
<1>0. n = Len(h) /\ n \in Nat
  OBVIOUS
<1> HIDE DEF n, turn, refusals, last
<1>5. /\ a \in Seq(Message) /\ Len(a) = n + 1 /\ a[n + 1] = turn
      /\ \A i \in 1 .. n : a[i] = h[i]
  BY <1>0, <1>1, AppendParts
<1> HIDE DEF a
<1>6. /\ b \in Seq(Message) /\ Len(b) = Len(a) + Len(refusals)
      /\ \A i \in 1 .. Len(a) : b[i] = a[i]
      /\ \A i \in 1 .. Len(refusals) : b[Len(a) + i] = refusals[i]
  <2>1. a \in Seq(Message) /\ refusals \in Seq(Message)
    BY <1>3, <1>5
  <2> QED
    BY <2>1, JoinParts
<1> HIDE DEF b
<1>7. /\ g \in Seq(Message) /\ Len(g) = Len(b) + 1
      /\ \A i \in 1 .. Len(b) : g[i] = b[i]
      /\ g[Len(b) + 1] = last
  BY <1>2, <1>6, AppendParts
<1> HIDE DEF g
<1>8. Len(b) = n + 1 + x /\ Len(b) + 1 = n + x + 2 /\ Len(g) = n + x + 2
  <2>1. Len(a) = n + 1 /\ Len(refusals) = x /\ Len(b) = Len(a) + Len(refusals)
        /\ Len(g) = Len(b) + 1
    BY <1>3, <1>5, <1>6, <1>7
  <2> QED
    BY <1>0, <2>1
<1>9. ASSUME NEW i \in 1 .. n PROVE g[i] = h[i]
  <2>1. i \in 1 .. Len(a) /\ i \in 1 .. Len(b)
    BY <1>0, <1>5, <1>8
  <2> QED
    BY <1>5, <1>6, <1>7, <2>1
<1>10. g[n + 1] = turn
  <2>1. n + 1 \in 1 .. Len(a) /\ n + 1 \in 1 .. Len(b)
    BY <1>0, <1>5, <1>8
  <2> QED
    BY <1>5, <1>6, <1>7, <2>1
<1>11. ASSUME NEW k \in 1 .. x PROVE g[n + 1 + k] = ToolMessage(<<s, k>>)
  <2>1. n + 1 + k \in 1 .. Len(b)
    BY <1>0, <1>8
  <2>2. b[n + 1 + k] = refusals[k]
    BY <1>3, <1>5, <1>6
  <2> QED
    BY <1>3, <1>7, <2>1, <2>2
<1>12. TurnFollows(g, h, s, x)
  BY <1>0, <1>7, <1>8, <1>9, <1>10, <1>11 DEF TurnFollows, turn, last
<1> QED
  BY <1>12 DEF a, b, g, turn, refusals, last

LEMMA PairedTurn ==
    ASSUME NEW h \in Seq(Message), WellPaired(h), NEW s, NEW x \in Nat, IdsOf(s, x)
    PROVE  WellPaired(Append(Append(h, TurnOf(s, x)) \o RefusalsOf(s, x),
                             ToolMessage(<<s, 0>>)))
<1> DEFINE n == Len(h)
           g == Append(Append(h, TurnOf(s, x)) \o RefusalsOf(s, x), ToolMessage(<<s, 0>>))
           IdAt(j) == IF j = n + x + 2 THEN 0 ELSE j - n - 1
           replies == n + 2 .. n + x + 2
<1>0. n \in Nat /\ n = Len(h)
  OBVIOUS
<1> HIDE DEF g, n
<1>1. /\ g \in Seq(Message) /\ Len(g) = n + x + 2
      /\ \A i \in 1 .. n : g[i] = h[i]
      /\ g[n + 1] = TurnOf(s, x)
      /\ \A k \in 1 .. x : g[n + 1 + k] = ToolMessage(<<s, k>>)
      /\ g[n + x + 2] = ToolMessage(<<s, 0>>)
  <2>1. TurnFollows(g, h, s, x)
    BY TurnAppended DEF g
  <2> QED
    BY <1>0, <2>1 DEF TurnFollows
<1>2. TurnOf(s, x).role = "assistant" /\ TurnOf(s, x).calls = {<<s, k>> : k \in 0 .. x}
  BY DEF TurnOf, AssistantMessage
<1>3. ASSUME NEW j \in replies
      PROVE  g[j].role = "tool" /\ g[j].calls = {<<s, IdAt(j)>>} /\ IdAt(j) \in 0 .. x
  <2>1. IdAt(j) \in 0 .. x
    BY <1>0
  <2>2. g[j] = ToolMessage(<<s, IdAt(j)>>)
    <3>1. CASE j = n + x + 2
      BY <1>1, <3>1
    <3>2. CASE j # n + x + 2
      <4>1. IdAt(j) \in 1 .. x /\ j = n + 1 + IdAt(j)
        BY <1>0, <3>2
      <4> QED
        BY <1>1, <4>1
    <3> QED
      BY <3>1, <3>2
  <2> QED
    BY <2>1, <2>2 DEF ToolMessage
<1>4. Answers(g, n + 1) = replies
  <2>1. ASSUME NEW j \in replies PROVE j \in Answers(g, n + 1)
    <3>1. \A k \in n + 2 .. j : k \in replies
      BY <1>0
    <3>2. j \in n + 1 + 1 .. Len(g) /\ \A k \in n + 1 + 1 .. j : g[k].role = "tool"
      BY <1>0, <1>1, <1>3, <3>1
    <3> QED
      BY <3>2 DEF Answers
  <2>2. ASSUME NEW j \in Answers(g, n + 1) PROVE j \in replies
    BY <1>0, <1>1, <2>2 DEF Answers
  <2> QED
    BY <2>1, <2>2
<1>5. \A k \in 0 .. x : \E j \in replies : IdAt(j) = k
  <2> SUFFICES ASSUME NEW k \in 0 .. x PROVE \E j \in replies : IdAt(j) = k
    OBVIOUS
  <2>1. CASE k = 0
    <3>1. n + x + 2 \in replies /\ IdAt(n + x + 2) = 0
      BY <1>0
    <3> QED
      BY <2>1, <3>1
  <2>2. CASE k # 0
    <3>1. n + 1 + k \in replies /\ IdAt(n + 1 + k) = k
      BY <1>0, <2>2
    <3> QED
      BY <3>1
  <2> QED
    BY <2>1, <2>2
<1>6. \A j, k \in replies : IdAt(j) = IdAt(k) => j = k
  BY <1>0
<1> HIDE DEF IdAt
<1>7. TurnAnswered(g, n + 1)
  <2>1. UNION {g[j].calls : j \in replies} = {<<s, k>> : k \in 0 .. x}
    BY <1>3, <1>5
  <2>2. ASSUME NEW j \in replies, NEW k \in replies, j # k PROVE g[j].calls # g[k].calls
    <3>1. IdAt(j) # IdAt(k)
      BY <1>6, <2>2
    <3>2. <<s, IdAt(j)>> # <<s, IdAt(k)>>
      BY <3>1
    <3> QED
      BY <1>3, <3>2
  <2> QED
    BY <1>1, <1>2, <1>4, <2>1, <2>2 DEF TurnAnswered
<1>8. Paired(g, n + 1)
  BY <1>1, <1>2, <1>7 DEF Paired
<1>9. ASSUME NEW j \in replies PROVE Paired(g, j)
  <2>1. n + 1 \in 1 .. j - 1
    BY <1>0
  <2>2. AnswersTurn(g, j)
    BY <1>1, <1>2, <1>4, <2>1 DEF AnswersTurn
  <2> QED
    BY <1>3, <2>2 DEF Paired
<1>10. \A i \in n + 1 .. Len(g) : i = n + 1 \/ i \in replies
  BY <1>0, <1>1
<1>11. Continues(g, h)
  BY <1>0, <1>1, <1>2 DEF Continues, n
<1>12. \A i \in n + 1 .. Len(g) : Paired(g, i)
  BY <1>8, <1>9, <1>10
<1>13. WellPaired(g)
  BY <1>1, <1>11, <1>12, PairingGrows DEF n
<1> QED
  BY <1>13 DEF g

-----------------------------------------------------------------------------
(* Compaction                                                                 *)

\* c is h cut at split, behind the summary.
CutAt(c, h, split) ==
    /\ c \in Seq(Message) /\ Len(c) = Len(h) - split + 1
    /\ c[1] = UserMessage
    /\ \A i \in 2 .. Len(c) : c[i] = h[split + i - 1]

LEMMA CompactCuts ==
    ASSUME NEW h \in Seq(Message), NEW max \in Nat \ {0}, Compactable(h, max)
    PROVE  \E split \in SplitPoints(h, max) : CutAt(Compact(h, max), h, split)
<1> DEFINE split == CHOOSE i \in SplitPoints(h, max) :
                        \A j \in SplitPoints(h, max) : i <= j
           tail == SubSeq(h, split + 1, Len(h))
           c == <<UserMessage>> \o tail
<1>1. SplitPoints(h, max) # {} /\ SplitPoints(h, max) \subseteq 0 .. Len(h) - 1
  BY DEF Compactable, SplitPoints
<1>2. \E i \in SplitPoints(h, max) : \A j \in SplitPoints(h, max) : i <= j
  <2>1. SplitPoints(h, max) \in SUBSET Nat
    BY <1>1
  <2> QED
    BY <1>1, <2>1, LeastExists
<1>3. split \in SplitPoints(h, max)
  BY <1>2
<1>4. split \in 0 .. Len(h) - 1
  BY <1>1, <1>3
<1>5. Compact(h, max) = c
  BY DEF Compact
<1> HIDE DEF split
<1>6. /\ tail \in Seq(Message) /\ Len(tail) = Len(h) - split
      /\ \A i \in 1 .. Len(tail) : tail[i] = h[split + i]
  BY <1>4
<1> HIDE DEF tail
<1>7. /\ c \in Seq(Message) /\ Len(c) = 1 + Len(tail)
      /\ c[1] = UserMessage
      /\ \A i \in 1 .. Len(tail) : c[1 + i] = tail[i]
  <2>1. <<UserMessage>> \in Seq(Message) /\ Len(<<UserMessage>>) = 1
        /\ <<UserMessage>>[1] = UserMessage
    BY MessagesTyped
  <2>2. tail \in Seq(Message)
    BY <1>6
  <2> QED
    BY <2>1, <2>2, JoinParts
<1> HIDE DEF c
<1>8. Len(c) = Len(h) - split + 1
  <2>1. Len(c) = 1 + Len(tail) /\ Len(tail) = Len(h) - split /\ Len(h) \in Nat
    BY <1>6, <1>7
  <2> QED
    BY <1>4, <2>1
<1>9. ASSUME NEW i \in 2 .. Len(c) PROVE c[i] = h[split + i - 1]
  <2>1. i - 1 \in 1 .. Len(tail) /\ 1 + (i - 1) = i /\ split + (i - 1) = split + i - 1
    BY <1>4, <1>6, <1>7
  <2> QED
    BY <1>6, <1>7, <2>1
<1> QED
  BY <1>3, <1>5, <1>7, <1>8, <1>9 DEF CutAt

\* A cut that is not in front of a tool message takes no turn from its answers.
LEMMA CutKeepsPairing ==
    ASSUME NEW h \in Seq(Message), WellPaired(h), NEW split \in 0 .. Len(h) - 1,
           h[split + 1].role # "tool", NEW c, CutAt(c, h, split)
    PROVE  WellPaired(c)
<1>0. /\ Len(h) \in Nat /\ Len(c) = Len(h) - split + 1
      /\ \A i \in 2 .. Len(c) : c[i] = h[split + i - 1]
      /\ c[1].role = "user" /\ c \in Seq(Message)
  BY DEF CutAt, UserMessage
<1>1. \A i, j \in 2 .. Len(c) : j \in Answers(c, i) <=> split + j - 1 \in Answers(h, split + i - 1)
  <2> SUFFICES ASSUME NEW i \in 2 .. Len(c), NEW j \in 2 .. Len(c)
               PROVE  j \in Answers(c, i) <=> split + j - 1 \in Answers(h, split + i - 1)
    OBVIOUS
  <2> DEFINE I == split + i - 1
             J == split + j - 1
  <2>0. I \in 1 .. Len(h) /\ J \in 1 .. Len(h)
    BY <1>0
  <2>1. ASSUME j \in Answers(c, i) PROVE J \in Answers(h, I)
    <3>1. j \in i + 1 .. Len(c) /\ \A k \in i + 1 .. j : c[k].role = "tool"
      BY <2>1 DEF Answers
    <3>2. ASSUME NEW k \in I + 1 .. J PROVE h[k].role = "tool"
      <4> DEFINE m == k - split + 1
      <4>1. m \in i + 1 .. j
        OBVIOUS
      <4>2. m \in 2 .. Len(c) /\ split + m - 1 = k
        BY <1>0, <4>1
      <4> HIDE DEF m
      <4>3. c[m].role = "tool" /\ c[m] = h[k]
        BY <1>0, <3>1, <4>1, <4>2
      <4> QED
        BY <4>3
    <3>3. J \in I + 1 .. Len(h)
      BY <1>0, <3>1
    <3> QED
      BY <3>2, <3>3 DEF Answers
  <2>2. ASSUME J \in Answers(h, I) PROVE j \in Answers(c, i)
    <3>1. J \in I + 1 .. Len(h) /\ \A k \in I + 1 .. J : h[k].role = "tool"
      BY <2>2 DEF Answers
    <3>2. ASSUME NEW k \in i + 1 .. j PROVE c[k].role = "tool"
      <4>1. split + k - 1 \in I + 1 .. J
        OBVIOUS
      <4>2. k \in 2 .. Len(c)
        BY <1>0
      <4> QED
        BY <1>0, <3>1, <4>1, <4>2
    <3>3. j \in i + 1 .. Len(c)
      BY <1>0, <3>1
    <3> QED
      BY <3>2, <3>3 DEF Answers
  <2> QED
    BY <2>1, <2>2
<1>2. ASSUME NEW i \in 2 .. Len(c), c[i].role = "tool" PROVE AnswersTurn(c, i)
  <2> DEFINE I == split + i - 1
  <2>1. I \in 1 .. Len(h) /\ h[I] = c[i]
    BY <1>0
  <2>2. AnswersTurn(h, I)
    BY <1>2, <2>1, WellPairedIs DEF Paired
  <2>3. PICK t \in 1 .. I - 1 : h[t].role = "assistant" /\ I \in Answers(h, t)
    BY <2>2 DEF AnswersTurn
  <2>4. \A k \in t + 1 .. I : h[k].role = "tool"
    BY <2>3 DEF Answers
  <2>5. split + 1 \notin t + 1 .. I
    BY <2>4
  <2>6. t >= split + 1
    BY <1>0, <2>1, <2>5
  <2> DEFINE u == t - split + 1
  <2>7. u \in 2 .. Len(c) /\ u \in 1 .. i - 1 /\ split + u - 1 = t
    BY <1>0, <2>1, <2>6
  <2>8. c[u] = h[t] /\ i \in Answers(c, u)
    BY <1>0, <1>1, <2>3, <2>7
  <2> QED
    BY <2>3, <2>7, <2>8 DEF AnswersTurn
<1>3. ASSUME NEW i \in 2 .. Len(c), c[i].role = "assistant" PROVE TurnAnswered(c, i)
  <2> DEFINE I == split + i - 1
  <2>1. I \in 1 .. Len(h) /\ h[I] = c[i]
    BY <1>0
  <2>2. /\ UNION {h[j].calls : j \in Answers(h, I)} = h[I].calls
        /\ \A j, k \in Answers(h, I) : j # k => h[j].calls # h[k].calls
    BY <1>3, <2>1, WellPairedIs DEF Paired, TurnAnswered
  <2>3. ASSUME NEW j \in Answers(c, i)
        PROVE  j \in 2 .. Len(c) /\ split + j - 1 \in Answers(h, I) /\ c[j] = h[split + j - 1]
    <3>1. j \in 2 .. Len(c)
      BY <1>0, <2>3 DEF Answers
    <3> QED
      BY <1>0, <1>1, <2>3, <3>1
  <2>4. ASSUME NEW J \in Answers(h, I)
        PROVE  J - split + 1 \in Answers(c, i) /\ c[J - split + 1] = h[J]
    <3>1. J \in I + 1 .. Len(h)
      BY <2>4 DEF Answers
    <3>2. J - split + 1 \in 2 .. Len(c) /\ split + (J - split + 1) - 1 = J
      BY <1>0, <3>1
    <3> QED
      BY <1>0, <1>1, <2>4, <3>2
  <2> HIDE DEF I
  <2>5. {c[j].calls : j \in Answers(c, i)} = {h[j].calls : j \in Answers(h, I)}
    <3>1. \A j \in Answers(c, i) : \E J \in Answers(h, I) : c[j] = h[J]
      BY <2>3
    <3>2. \A J \in Answers(h, I) : \E j \in Answers(c, i) : c[j] = h[J]
      BY <2>4
    <3> QED
      BY <3>1, <3>2
  <2>6. ASSUME NEW j \in Answers(c, i), NEW k \in Answers(c, i), j # k
        PROVE  c[j].calls # c[k].calls
    <3>1. split + j - 1 # split + k - 1
      BY <2>3, <2>6
    <3> QED
      BY <2>2, <2>3, <3>1
  <2> QED
    BY <2>1, <2>2, <2>5, <2>6 DEF TurnAnswered
<1>4. \A i \in 1 .. Len(c) : i = 1 \/ i \in 2 .. Len(c)
  BY <1>0
<1>5. Paired(c, 1)
  BY <1>0 DEF Paired
<1>6. \A i \in 1 .. Len(c) : Paired(c, i)
  BY <1>2, <1>3, <1>4, <1>5 DEF Paired
<1> QED
  BY <1>0, <1>6, WellPairedIs

LEMMA PairedCompact ==
    ASSUME NEW h \in Seq(Message), WellPaired(h), NEW max \in Nat \ {0}
    PROVE  WellPaired(Compact(h, max))
<1>1. CASE ~Compactable(h, max)
  BY <1>1 DEF Compact
<1>2. CASE Compactable(h, max)
  <2>1. PICK split \in SplitPoints(h, max) : CutAt(Compact(h, max), h, split)
    BY <1>2, CompactCuts
  <2>2. split \in 0 .. Len(h) - 1 /\ h[split + 1].role # "tool"
    BY DEF SplitPoints
  <2> DEFINE c == Compact(h, max)
  <2> HIDE DEF c
  <2>3. WellPaired(c)
    BY <2>1, <2>2, CutKeepsPairing DEF c
  <2> QED
    BY <2>3 DEF c
<1> QED
  BY <1>1, <1>2

-----------------------------------------------------------------------------
(* The requests of a run                                                      *)

\* Between two steps the conversation is paired; while the primary call is
\* acted upon, it is as soon as that call is answered.
Answered(p, h) == WellPaired(Append(h, ToolMessage(p)))
Conversed ==
    /\ pc \in {"new", "triage"} => history = <<>>
    /\ pc \in {"step", "llm"} => WellPaired(history)
    /\ pc = "act" => Answered(PrimaryId, history)

\* A shift adds a message from the user, or nothing.
LEMMA ShiftMessagesAre == ShiftMessages \in {<<>>, <<UserMessage>>}
  BY DEF ShiftMessages

LEMMA PairedShift ==
    ASSUME NEW h \in Seq(Message), WellPaired(h), NEW m \in {<<>>, <<UserMessage>>}
    PROVE  WellPaired(h \o m)
<1>1. CASE m = <<>>
  <2>1. h \o <<>> = h
    OBVIOUS
  <2> QED
    BY <1>1, <2>1
<1>2. CASE m = <<UserMessage>>
  BY <1>2, PairedUser
<1> QED
  BY <1>1, <1>2

LEMMA ConversedInit == Init => Conversed
  BY DEF Init, Conversed

LEMMA ConversedStep == TypeInv /\ Conversed /\ [Next]_vars => Conversed'
<1> SUFFICES ASSUME TypeInv, Conversed, [Next]_vars PROVE Conversed'
  OBVIOUS
<1>0. history \in Seq(Message)
  BY DEF TypeInv, LoopTypeOK
<1>1. CASE UNCHANGED vars
  BY <1>1 DEF vars, loopVars, Conversed, PrimaryId
<1>2. \A code, events : Escape(code, events) => Conversed'
  BY DEF Escape, Conversed
<1>3. CASE Setup
  <2>1. CASE SandboxStartFails \/ TriageFails
    BY <1>2, <2>1 DEF SandboxStartFails, TriageFails
  <2>2. CASE Begin
    BY <2>2 DEF Begin, Conversed
  <2>3. CASE InputsFail
    BY <2>3 DEF InputsFail, Finish, Conversed
  <2>4. CASE Triage
    <3>1. pc' = "step" /\ history' = Append(<<>>, UserMessage)
      BY <2>4 DEF Triage, Conversed
    <3>2. <<>> \in Seq(Message) /\ WellPaired(<<>>)
      BY DEF WellPaired
    <3>3. WellPaired(history')
      BY <3>1, <3>2, PairedUser
    <3> QED
      BY <3>1, <3>3 DEF Conversed
  <2> QED
    BY <1>3, <2>1, <2>2, <2>3, <2>4 DEF Setup
<1>4. CASE BeginStep
  <2>1. pc = "step" /\ pc' = "llm" /\ history' = Compact(history, MaxMessages)
    BY <1>4 DEF BeginStep
  <2>2. WellPaired(history')
    BY <1>0, <2>1, PairedCompact, LoopAssumption DEF Conversed
  <2> QED
    BY <2>1, <2>2 DEF Conversed
<1>5. CASE CompactionFails \/ CredentialsRefused
  BY <1>2, <1>5 DEF CompactionFails, CredentialsRefused
<1>6. CASE StepsExhausted \/ ProviderFails
  BY <1>6 DEF StepsExhausted, ProviderFails, Finish, Conversed
<1>7. ASSUME NEW c \in CallCosts, CeilingReached(c) PROVE Conversed'
  BY <1>7 DEF CeilingReached, Finish, Conversed
<1>8. ASSUME NEW c \in CallCosts, Nudge(c) PROVE Conversed'
  <2>1. pc = "llm" /\ pc' = "step"
        /\ history' = history \o <<AssistantMessage({}), UserMessage>>
    BY <1>8 DEF Nudge
  <2>2. WellPaired(history')
    BY <1>0, <2>1, PairedNudge DEF Conversed
  <2> QED
    BY <2>1, <2>2 DEF Conversed
<1>9. ASSUME NEW c \in CallCosts, NEW primary \in Commands \cup {Submit},
             NEW extras \in 0 .. MaxExtras, Propose(c, primary, extras)
      PROVE  Conversed'
  <2>1. pc = "llm" /\ pc' = "act" /\ step' = step
        /\ history' = Append(history, TurnOf(step, extras)) \o RefusalsOf(step, extras)
    BY <1>9 DEF Propose, TurnOf, RefusalsOf
  <2>2. IdsOf(step, extras)
    <3>1. step \in 1 .. MaxSteps
      BY <2>1 DEF TypeInv
    <3>2. \A k \in 0 .. extras : k \in 0 .. MaxExtras
      BY LoopAssumption
    <3> QED
      BY <3>1, <3>2, StepIdsTyped DEF IdsOf
  <2>3. extras \in Nat
    OBVIOUS
  <2>4. WellPaired(history)
    BY <2>1 DEF Conversed
  <2>5. Answered(<<step, 0>>, history')
    BY <1>0, <2>1, <2>2, <2>3, <2>4, PairedTurn DEF Answered
  <2> QED
    BY <2>1, <2>5 DEF Conversed, PrimaryId
<1>10. ASSUME NEW f \in Flags, NEW seq \in Citations, RejectFlag(f, seq) PROVE Conversed'
  <2>1. pc = "act" /\ pc' = "step" /\ history' = Append(history, ToolMessage(PrimaryId))
    BY <1>10 DEF RejectFlag
  <2> QED
    BY <2>1 DEF Conversed, Answered
<1>11. ASSUME NEW f \in Flags, NEW seq \in Citations, AcceptFlag(f, seq) PROVE Conversed'
  BY <1>11 DEF AcceptFlag, Finish, Conversed
<1>12. ASSUME NEW c \in Commands, RefuseCommand(c) \/ \E out \in ResultsOf(c) : ExecuteCommand(c, out)
       PROVE  Conversed'
  <2>1. pc = "act" /\ pc' = "step"
        /\ history' = Append(history, ToolMessage(PrimaryId)) \o ShiftMessages
    BY <1>12 DEF RefuseCommand, ExecuteCommand
  <2>2. Append(history, ToolMessage(PrimaryId)) \in Seq(Message)
    BY <2>1, AnswerTyped
  <2>3. WellPaired(Append(history, ToolMessage(PrimaryId)))
    BY <2>1 DEF Conversed, Answered
  <2>4. WellPaired(history')
    BY <2>1, <2>2, <2>3, ShiftMessagesAre, PairedShift
  <2> QED
    BY <2>1, <2>4 DEF Conversed
<1>13. ASSUME NEW c \in Commands, ExecuteFails(c) \/ \E out \in ResultsOf(c) : RenderFails(c, out)
       PROVE  Conversed'
  BY <1>2, <1>13 DEF ExecuteFails, RenderFails
<1>14. CASE Close \/ Die \/ Hang
  BY <1>14 DEF Close, FinishRun, RecordError, Die, Hang, CommandHangs, RederivationHangs,
               Conversed
<1>15. CASE Turn
  BY <1>4, <1>5, <1>6, <1>7, <1>8, <1>9, <1>15 DEF Turn
<1>16. CASE Act
  BY <1>10, <1>11, <1>12, <1>13, <1>16 DEF Act
<1> QED
  BY <1>1, <1>3, <1>14, <1>15, <1>16 DEF Next

\* No provider refuses a request of a run for its shape: every tool call of a
\* turn is answered exactly once, right behind the turn, and every answer stands
\* behind the turn that asked for it, through refused extras, refusals, rejected
\* flags, outputs, forced shifts and compactions in any order.
THEOREM RequestsArePaired == Spec => []RequestsWellPaired
<1>1. Spec => []TrackerTypeOK
  BY RunDrivesTracker, TrackerTyped, PTL
<1>2. Spec => []TypeInv
  BY <1>1, TypeInit, TypeStep, PTL DEF Spec
<1>3. Spec => []Conversed
  BY <1>2, ConversedInit, ConversedStep, PTL DEF Spec
<1>4. Conversed => RequestsWellPaired
  BY DEF Conversed, RequestsWellPaired
<1> QED
  BY <1>3, <1>4, PTL

-----------------------------------------------------------------------------
(* The length of a request                                                    *)

\* At most m messages follow the last one that is no tool message.
Recent(h, m) == \E i \in 1 .. Len(h) : i >= Len(h) - m /\ h[i].role # "tool"

LEMMA CompactShortens ==
    ASSUME NEW h \in Seq(Message), NEW max \in Nat \ {0}, NEW m \in Nat,
           Recent(h, m), m + 2 <= max
    PROVE  Len(Compact(h, max)) <= max
<1>0. Len(h) \in Nat
  OBVIOUS
<1>1. CASE Len(h) > max
  <2>1. PICK i \in 1 .. Len(h) : i >= Len(h) - m /\ h[i].role # "tool"
    BY DEF Recent
  <2>2. i - 1 \in SplitPoints(h, max)
    <3>1. i - 1 \in 0 .. Len(h) - 1 /\ (i - 1) + 1 = i
      BY <1>0
    <3>2. max - 1 >= 1 /\ i - 1 >= Len(h) - (max - 1)
      BY <1>0, <2>1
    <3> QED
      BY <2>1, <3>1, <3>2 DEF SplitPoints
  <2>3. Compactable(h, max)
    BY <1>1, <2>2 DEF Compactable
  <2>4. PICK split \in SplitPoints(h, max) : CutAt(Compact(h, max), h, split)
    BY <2>3, CompactCuts
  <2>5. split \in 0 .. Len(h) - 1 /\ split >= Len(h) - (IF max - 1 >= 1 THEN max - 1 ELSE 1)
    BY DEF SplitPoints
  <2>6. Len(Compact(h, max)) = Len(h) - split + 1
    BY <2>4 DEF CutAt
  <2>7. max - 1 >= 1
    OBVIOUS
  <2> QED
    BY <1>0, <2>5, <2>6, <2>7
<1>2. CASE ~(Len(h) > max)
  BY <1>0, <1>2 DEF Compact, Compactable
<1> QED
  BY <1>1, <1>2

LEMMA RecentGrows ==
    ASSUME NEW h \in Seq(Message), NEW m \in Nat, Recent(h, m), NEW e \in Message
    PROVE  Recent(Append(h, e), m + 1)
<1> DEFINE g == Append(h, e)
<1>1. Len(g) = Len(h) + 1 /\ Len(h) \in Nat /\ \A i \in 1 .. Len(h) : g[i] = h[i]
  BY AppendParts
<1> HIDE DEF g
<1>2. PICK i \in 1 .. Len(h) : i >= Len(h) - m /\ h[i].role # "tool"
  BY DEF Recent
<1>3. i \in 1 .. Len(g) /\ i >= Len(g) - (m + 1) /\ g[i].role # "tool"
  BY <1>1, <1>2
<1>4. Recent(g, m + 1)
  BY <1>3 DEF Recent
<1> QED
  BY <1>4 DEF g

LEMMA RecentShift ==
    ASSUME NEW h \in Seq(Message), NEW m \in Nat, Recent(h, m),
           NEW s \in {<<>>, <<UserMessage>>}
    PROVE  Recent(h \o s, m)
<1>1. CASE s = <<>>
  <2>1. h \o <<>> = h
    OBVIOUS
  <2> QED
    BY <1>1, <2>1
<1>2. CASE s = <<UserMessage>>
  <2> DEFINE g == h \o <<UserMessage>>
  <2>1. /\ UserMessage \in Message /\ UserMessage.role = "user"
    BY DEF UserMessage, Message
  <2>2. Len(g) = Len(h) + 1 /\ g[Len(h) + 1] = UserMessage /\ Len(h) \in Nat
    BY <2>1
  <2> HIDE DEF g
  <2>3. Len(g) \in 1 .. Len(g) /\ Len(g) >= Len(g) - m /\ g[Len(g)].role # "tool"
    BY <2>1, <2>2
  <2>4. Recent(g, m)
    BY <2>3 DEF Recent
  <2> QED
    BY <1>2, <2>4 DEF g
<1> QED
  BY <1>1, <1>2

\* The last turn, or what followed it, is among the last messages.
Fits ==
    /\ pc = "step" => Recent(history, MaxExtras + 1)
    /\ pc = "llm" => Len(history) <= MaxMessages
    /\ pc = "act" => Recent(history, MaxExtras)

LEMMA FitsInit == Init => Fits
  BY DEF Init, Fits

LEMMA FitsStep ==
    ASSUME MaxExtras + 2 < MaxMessages
    PROVE  TypeInv /\ Fits /\ Conversed /\ [Next]_vars => Fits'
<1> SUFFICES ASSUME TypeInv, Fits, Conversed, [Next]_vars PROVE Fits'
  OBVIOUS
<1>0. history \in Seq(Message) /\ MaxExtras \in Nat /\ MaxMessages \in Nat \ {0}
  BY LoopAssumption DEF TypeInv, LoopTypeOK
<1>1. CASE UNCHANGED vars
  BY <1>1 DEF vars, loopVars, Fits
<1>2. \A code, events : Escape(code, events) => Fits'
  BY DEF Escape, Fits
<1>3. CASE Setup
  <2>1. CASE SandboxStartFails \/ TriageFails
    BY <1>2, <2>1 DEF SandboxStartFails, TriageFails
  <2>2. CASE Begin \/ InputsFail
    BY <2>2 DEF Begin, InputsFail, Finish, Fits
  <2>3. CASE Triage
    <3>1. pc' = "step" /\ history' = <<UserMessage>>
      <4>1. pc' = "step" /\ history' = Append(<<>>, UserMessage)
        BY <2>3 DEF Triage, Conversed
      <4>2. Append(<<>>, UserMessage) = <<UserMessage>>
        OBVIOUS
      <4> QED
        BY <4>1, <4>2
    <3>2. UserMessage.role # "tool"
      BY DEF UserMessage
    <3> DEFINE g == <<UserMessage>>
    <3>3. Len(g) = 1 /\ g[1] = UserMessage
      OBVIOUS
    <3> HIDE DEF g
    <3>4. 1 \in 1 .. Len(g) /\ 1 >= Len(g) - (MaxExtras + 1) /\ g[1].role # "tool"
      BY <1>0, <3>2, <3>3
    <3>5. Recent(g, MaxExtras + 1)
      BY <3>4 DEF Recent
    <3> QED
      BY <3>1, <3>5 DEF Fits, g
  <2> QED
    BY <1>3, <2>1, <2>2, <2>3 DEF Setup
<1>4. CASE BeginStep
  <2>1. pc = "step" /\ pc' = "llm" /\ history' = Compact(history, MaxMessages)
    BY <1>4 DEF BeginStep
  <2>2. Recent(history, MaxExtras + 1)
    BY <2>1 DEF Fits
  <2>3. MaxExtras + 1 \in Nat /\ (MaxExtras + 1) + 2 <= MaxMessages
    BY <1>0
  <2>4. Len(history') <= MaxMessages
    BY <1>0, <2>1, <2>2, <2>3, CompactShortens
  <2> QED
    BY <2>1, <2>4 DEF Fits
<1>5. CASE CompactionFails \/ CredentialsRefused
  BY <1>2, <1>5 DEF CompactionFails, CredentialsRefused
<1>6. CASE StepsExhausted \/ ProviderFails
  BY <1>6 DEF StepsExhausted, ProviderFails, Finish, Fits
<1>7. ASSUME NEW c \in CallCosts, CeilingReached(c) PROVE Fits'
  BY <1>7 DEF CeilingReached, Finish, Fits
<1>8. ASSUME NEW c \in CallCosts, Nudge(c) PROVE Fits'
  <2>1. pc' = "step" /\ history' = history \o <<AssistantMessage({}), UserMessage>>
    BY <1>8 DEF Nudge
  <2> DEFINE g == history \o <<AssistantMessage({}), UserMessage>>
  <2>2. UserMessage.role # "tool" /\ UserMessage \in Message /\ AssistantMessage({}) \in Message
    BY MessagesTyped DEF UserMessage
  <2>3. Len(g) = Len(history) + 2 /\ g[Len(history) + 2] = UserMessage /\ Len(history) \in Nat
    BY <1>0, <2>2
  <2> HIDE DEF g
  <2>4. Len(g) \in 1 .. Len(g) /\ Len(g) >= Len(g) - (MaxExtras + 1) /\ g[Len(g)].role # "tool"
    BY <1>0, <2>2, <2>3
  <2>5. Recent(g, MaxExtras + 1)
    BY <2>4 DEF Recent
  <2> QED
    BY <2>1, <2>5 DEF Fits, g
<1>9. ASSUME NEW c \in CallCosts, NEW primary \in Commands \cup {Submit},
             NEW extras \in 0 .. MaxExtras, Propose(c, primary, extras)
      PROVE  Fits'
  <2> DEFINE turn == TurnOf(step, extras)
             refusals == RefusalsOf(step, extras)
             a == Append(history, turn)
             g == a \o refusals
  <2>1. pc = "llm" /\ pc' = "act" /\ history' = g
    BY <1>9 DEF Propose, TurnOf, RefusalsOf
  <2>2. IdsOf(step, extras)
    <3>1. step \in 1 .. MaxSteps
      BY <2>1 DEF TypeInv
    <3>2. \A k \in 0 .. extras : k \in 0 .. MaxExtras
      BY LoopAssumption
    <3> QED
      BY <3>1, <3>2, StepIdsTyped DEF IdsOf
  <2>3. turn \in Message /\ turn.role # "tool"
    <3>1. {<<step, k>> : k \in 0 .. extras} \in SUBSET CallIds
      BY <2>2 DEF IdsOf
    <3> QED
      BY <3>1, MessagesTyped DEF TurnOf, AssistantMessage
  <2>4. refusals \in Seq(Message) /\ Len(refusals) = extras
    <3>1. \A k \in 1 .. extras : ToolMessage(<<step, k>>) \in Message
      BY <2>2, MessagesTyped DEF IdsOf
    <3> QED
      BY <3>1 DEF RefusalsOf
  <2> HIDE DEF turn, refusals
  <2>5. a \in Seq(Message) /\ Len(a) = Len(history) + 1 /\ a[Len(history) + 1] = turn
    BY <1>0, <2>3, AppendParts
  <2> HIDE DEF a
  <2>6. Len(g) = Len(a) + Len(refusals) /\ \A i \in 1 .. Len(a) : g[i] = a[i]
    <3>1. a \in Seq(Message) /\ refusals \in Seq(Message)
      BY <2>4, <2>5
    <3> QED
      BY <3>1, JoinParts
  <2> HIDE DEF g
  <2>7. Len(history) \in Nat /\ Len(g) = Len(history) + 1 + extras
    BY <1>0, <2>4, <2>5, <2>6
  <2>8. Len(history) + 1 \in 1 .. Len(g) /\ Len(history) + 1 >= Len(g) - MaxExtras
        /\ Len(history) + 1 \in 1 .. Len(a)
    BY <1>0, <2>5, <2>7
  <2>9. g[Len(history) + 1].role # "tool"
    BY <2>3, <2>5, <2>6, <2>8
  <2>10. Recent(history', MaxExtras)
    BY <2>1, <2>8, <2>9 DEF Recent
  <2> QED
    BY <2>1, <2>10 DEF Fits
<1>10. ASSUME pc = "act", Recent(history, MaxExtras)
       PROVE  /\ Append(history, ToolMessage(PrimaryId)) \in Seq(Message)
              /\ Recent(Append(history, ToolMessage(PrimaryId)), MaxExtras + 1)
  <2>1. PrimaryId \in CallIds
    BY <1>10, StepIdsTyped, LoopAssumption DEF TypeInv, PrimaryId
  <2>2. ToolMessage(PrimaryId) \in Message
    BY <2>1, MessagesTyped
  <2> QED
    BY <1>0, <1>10, <2>2, RecentGrows, AppendParts
<1>11. ASSUME NEW f \in Flags, NEW seq \in Citations, RejectFlag(f, seq) PROVE Fits'
  <2>1. pc = "act" /\ pc' = "step" /\ history' = Append(history, ToolMessage(PrimaryId))
    BY <1>11 DEF RejectFlag
  <2>2. Recent(history, MaxExtras)
    BY <2>1 DEF Fits
  <2> QED
    BY <1>10, <2>1, <2>2 DEF Fits
<1>12. ASSUME NEW f \in Flags, NEW seq \in Citations, AcceptFlag(f, seq) PROVE Fits'
  BY <1>12 DEF AcceptFlag, Finish, Fits
<1>13. ASSUME NEW c \in Commands, RefuseCommand(c) \/ \E out \in ResultsOf(c) : ExecuteCommand(c, out)
       PROVE  Fits'
  <2>1. pc = "act" /\ pc' = "step"
        /\ history' = Append(history, ToolMessage(PrimaryId)) \o ShiftMessages
    BY <1>13 DEF RefuseCommand, ExecuteCommand
  <2>2. Recent(history, MaxExtras)
    BY <2>1 DEF Fits
  <2>3. MaxExtras + 1 \in Nat
    BY <1>0
  <2>4. Recent(history', MaxExtras + 1)
    BY <1>10, <2>1, <2>2, <2>3, ShiftMessagesAre, RecentShift
  <2> QED
    BY <2>1, <2>4 DEF Fits
<1>14. ASSUME NEW c \in Commands, ExecuteFails(c) \/ \E out \in ResultsOf(c) : RenderFails(c, out)
       PROVE  Fits'
  BY <1>2, <1>14 DEF ExecuteFails, RenderFails
<1>15. CASE Close \/ Die \/ Hang
  BY <1>15 DEF Close, FinishRun, RecordError, Die, Hang, CommandHangs, RederivationHangs, Fits
<1>16. CASE Turn
  BY <1>4, <1>5, <1>6, <1>7, <1>8, <1>9, <1>16 DEF Turn
<1>17. CASE Act
  BY <1>11, <1>12, <1>13, <1>14, <1>17 DEF Act
<1> QED
  BY <1>1, <1>3, <1>15, <1>16, <1>17 DEF Next

\* compact_history keeps its word, no request longer than max_messages, as long
\* as one completion makes fewer than max_messages - 1 tool calls: then the last
\* message that is no tool message is always near enough the end to cut at.
\* With one call more there is a history with no split point, which is sent as
\* it is (loop/context.py keeps it rather than break a pairing).
THEOREM RequestsFit ==
    ASSUME MaxExtras + 2 < MaxMessages
    PROVE  Spec => []RequestsWithinBudget
<1>1. Spec => []TrackerTypeOK
  BY RunDrivesTracker, TrackerTyped, PTL
<1>2. Spec => []TypeInv
  BY <1>1, TypeInit, TypeStep, PTL DEF Spec
<1>3. Spec => []Conversed
  BY <1>2, ConversedInit, ConversedStep, PTL DEF Spec
<1>4. TypeInv /\ Fits /\ Conversed /\ [Next]_vars => Fits'
  BY FitsStep
<1>5. Spec => []Fits
  BY <1>2, <1>3, <1>4, FitsInit, PTL DEF Spec
<1>6. Fits => RequestsWithinBudget
  BY DEF Fits, RequestsWithinBudget
<1> QED
  BY <1>5, <1>6, PTL
=============================================================================
