---------------------------- MODULE RunTraceProofs ----------------------------
(***************************************************************************)
(* What a run writes, and the account that gives of it: that its verdict   *)
(* rests on evidence in its trace, that run.json repeats the trace, and    *)
(* that its counters and budgets are those of the trace.  Theorems for     *)
(* every value of the constants.                                           *)
(***************************************************************************)
EXTENDS RunLoopProofs, FiniteSetTheorems

-----------------------------------------------------------------------------
(* A trace only grows                                                         *)

\* Nothing written is rewritten.
Extends ==
    /\ Len(trace') \in Nat /\ Len(trace) <= Len(trace')
    /\ \A i \in 1 .. Len(trace) : trace'[i] = trace[i]

\* The k-th event the action writes is e, and it writes n of them.
Wrote(k, e) == trace'[Len(trace) + k] = e
WroteCount(n) == Len(trace') = Len(trace) + n

\* All it writes is of these types.
WroteOnly(types) ==
    \A i \in Len(trace) + 1 .. Len(trace') : trace'[i].type \in types

LEMMA EmitAppends ==
    ASSUME trace \in Seq(TraceEvent), NEW S, NEW events \in Seq(S), Emit(events)
    PROVE  /\ Extends
           /\ WroteCount(Len(events))
           /\ \A k \in 1 .. Len(events) : Wrote(k, events[k])
<1>1. trace \in Seq(TraceEvent \cup S) /\ events \in Seq(TraceEvent \cup S)
  OBVIOUS
<1> QED
  BY <1>1 DEF Emit, Extends, Wrote, WroteCount

\* One event, or two.
LEMMA EmitShort ==
    ASSUME trace \in Seq(TraceEvent), NEW d, NEW e
    PROVE  /\ Emit(<<e>>) => Extends /\ WroteCount(1) /\ Wrote(1, e)
           /\ Emit(<<d, e>>) => Extends /\ WroteCount(2) /\ Wrote(1, d) /\ Wrote(2, e)
<1> DEFINE one == <<e>>
           two == <<d, e>>
<1>1. one \in Seq({d, e}) /\ Len(one) = 1 /\ one[1] = e
  OBVIOUS
<1>2. two \in Seq({d, e}) /\ Len(two) = 2 /\ two[1] = d /\ two[2] = e
  OBVIOUS
<1> HIDE DEF one, two
<1>3. ASSUME Emit(one) PROVE Extends /\ WroteCount(1) /\ Wrote(1, e)
  <2>1. Extends /\ WroteCount(Len(one)) /\ \A k \in 1 .. Len(one) : Wrote(k, one[k])
    BY <1>1, <1>3, EmitAppends
  <2> QED
    BY <1>1, <2>1 DEF Wrote, WroteCount
<1>4. ASSUME Emit(two)
      PROVE  Extends /\ WroteCount(2) /\ Wrote(1, d) /\ Wrote(2, e)
  <2>1. Extends /\ WroteCount(Len(two)) /\ \A k \in 1 .. Len(two) : Wrote(k, two[k])
    BY <1>2, <1>4, EmitAppends
  <2> QED
    BY <1>2, <2>1 DEF Wrote, WroteCount
<1> QED
  BY <1>3, <1>4 DEF one, two

\* The events of a type are those there were and those just written.
LEMMA EventsAdded ==
    ASSUME trace \in Seq(TraceEvent), trace' \in Seq(TraceEvent), Extends, NEW type
    PROVE  EventsOf(type)' = EventsOf(type) \cup
              {i \in Len(trace) + 1 .. Len(trace') : trace'[i].type = type}
  BY DEF Extends, EventsOf

LEMMA EventsKept ==
    ASSUME trace \in Seq(TraceEvent), trace' \in Seq(TraceEvent), Extends,
           NEW types, WroteOnly(types), NEW type, type \notin types
    PROVE  EventsOf(type)' = EventsOf(type)
  BY EventsAdded DEF WroteOnly

LEMMA EventsFinite ==
    ASSUME trace \in Seq(TraceEvent), NEW type
    PROVE  /\ EventsOf(type) \subseteq 1 .. Len(trace)
           /\ IsFiniteSet(EventsOf(type))
<1>1. EventsOf(type) \subseteq 1 .. Len(trace)
  BY DEF EventsOf
<1>2. IsFiniteSet(1 .. Len(trace))
  BY FS_Interval
<1> QED
  BY <1>1, <1>2, FS_Subset
-----------------------------------------------------------------------------
(* What each action writes                                                    *)

\* The variables the trace is read against.
LEMMA TraceTyped ==
    ASSUME TypeInv
    PROVE  /\ trace \in Seq(TraceEvent) /\ step \in 0 .. MaxSteps
           /\ Len(trace) \in Nat
  BY DEF TypeInv, LoopTypeOK

\* Finishing writes what it is given, and run.finished after it.
LEMMA FinishWrites ==
    ASSUME TypeInv, NEW outcome \in Outcomes, NEW code, NEW events \in Seq(TraceEvent),
           flag' \in Flags \cup {NoSubject}, cost' \in Nat,
           Finish(outcome, code, events)
    PROVE  /\ Extends
           /\ WroteCount(Len(events) + 1)
           /\ \A k \in 1 .. Len(events) : Wrote(k, events[k])
           /\ Wrote(Len(events) + 1, Event("run.finished", step, flag', outcome, cost'))
           /\ pc' = "returned" /\ ended' = [outcome |-> outcome, code |-> code]
<1> DEFINE last == Event("run.finished", step, flag', outcome, cost')
           all == Append(events, last)
<1>1. last \in TraceEvent
  <2>1. outcome \in Notes /\ "run.finished" \in EventTypes /\ flag' \in Subjects
    BY SubjectsTyped DEF Notes, EventTypes
  <2> QED
    BY <2>1, EventTyped, TraceTyped
<1>2. Emit(all) /\ pc' = "returned" /\ ended' = [outcome |-> outcome, code |-> code]
  BY DEF Finish
<1> HIDE DEF last
<1>3. /\ all \in Seq(TraceEvent) /\ Len(all) = Len(events) + 1
      /\ \A k \in 1 .. Len(events) : all[k] = events[k]
      /\ all[Len(events) + 1] = last
  BY <1>1
<1> HIDE DEF all
<1>4. /\ Extends /\ WroteCount(Len(all)) /\ \A k \in 1 .. Len(all) : Wrote(k, all[k])
  BY <1>2, <1>3, EmitAppends, TraceTyped
<1>5. Len(events) \in Nat
  OBVIOUS
<1> QED
  BY <1>2, <1>3, <1>4, <1>5 DEF last

\* The requests, and what a completion brings.
LEMMA BeginStepWrites ==
    ASSUME TypeInv, BeginStep
    PROVE  /\ Extends /\ WroteCount(1)
           /\ Wrote(1, Event("llm.request", step', NoSubject, "", Len(history')))
  BY EmitShort, TraceTyped DEF BeginStep

LEMMA CeilingWrites ==
    ASSUME TypeInv, NEW c \in CallCosts, CeilingReached(c)
    PROVE  /\ Extends /\ WroteCount(3)
           /\ Wrote(1, Event("cost.updated", step, NoSubject, "", cost'))
           /\ Wrote(2, Event("budget.exhausted", step, NoSubject, "", cost'))
           /\ Wrote(3, Event("run.finished", step, flag', "exhausted", cost'))
<1>0. LoopTypeOK
  BY DEF TypeInv
<1>1. spent' = spent + c /\ cost' = spent' /\ flag' = flag
  BY DEF CeilingReached
<1>2. spent' \in Nat /\ CostUpdated \in TraceEvent
  BY <1>0, <1>1, CompletionTyped
<1> DEFINE second == Event("budget.exhausted", step, NoSubject, "", spent')
           events == <<CostUpdated, second>>
<1>3. second \in TraceEvent
  BY <1>0, <1>2, PlainEventTyped DEF EventTypes, Notes
<1>4. "exhausted" \in Outcomes /\ Finish("exhausted", 3, events)
  BY DEF CeilingReached, Outcomes
<1>5. flag' \in Flags \cup {NoSubject} /\ cost' \in Nat
  BY <1>0, <1>1, <1>2 DEF LoopTypeOK
<1> HIDE DEF second
<1>6. events \in Seq(TraceEvent) /\ Len(events) = 2 /\ events[1] = CostUpdated /\ events[2] = second
  BY <1>2, <1>3
<1> HIDE DEF events
<1>7. /\ Extends /\ WroteCount(Len(events) + 1)
      /\ \A k \in 1 .. Len(events) : Wrote(k, events[k])
      /\ Wrote(Len(events) + 1, Event("run.finished", step, flag', "exhausted", cost'))
  BY <1>4, <1>5, <1>6, FinishWrites
<1>8. /\ WroteCount(3) /\ Wrote(1, CostUpdated) /\ Wrote(2, second)
      /\ Wrote(3, Event("run.finished", step, flag', "exhausted", cost'))
  BY <1>6, <1>7 DEF Wrote, WroteCount
<1> QED
  BY <1>1, <1>7, <1>8 DEF second, CostUpdated

LEMMA NudgeWrites ==
    ASSUME TypeInv, NEW c \in CallCosts, Nudge(c)
    PROVE  /\ Extends /\ WroteCount(2)
           /\ Wrote(1, Event("cost.updated", step, NoSubject, "", cost'))
           /\ Wrote(2, Event("llm.response", step, NoSubject, "", 0))
<1>1. Emit(<<CostUpdated, Event("llm.response", step, NoSubject, "", 0)>>) /\ cost' = spent'
  BY DEF Nudge
<1> QED
  BY <1>1, EmitShort, TraceTyped DEF CostUpdated

LEMMA ProposeWrites ==
    ASSUME TypeInv, NEW c \in CallCosts, NEW primary, NEW extras \in 0 .. MaxExtras,
           Propose(c, primary, extras)
    PROVE  /\ Extends /\ WroteCount(2 + extras)
           /\ Wrote(1, Event("cost.updated", step, NoSubject, "", cost'))
           /\ Wrote(2, Event("llm.response", step, primary, "", 0))
           /\ \A k \in 1 .. extras :
                Wrote(2 + k, Event("tool.result", step, NoSubject, "blocked", 0))
<1> DEFINE e == Event("llm.response", step, primary, "", 0)
           d == Event("cost.updated", step, NoSubject, "", cost')
           r == Event("tool.result", step, NoSubject, "blocked", 0)
           refusals == [k \in 1 .. extras |-> r]
<1>0. extras \in Nat
  BY LoopAssumption
<1>1. Emit(<<CostUpdated, e>> \o refusals) /\ cost' = spent'
  BY DEF Propose
<1>2. Emit(<<d, e>> \o refusals)
  BY <1>1 DEF CostUpdated
<1> HIDE DEF d, e, r
<1>3. refusals \in Seq({d, e, r}) /\ Len(refusals) = extras
  BY <1>0
<1>4. \A k \in 1 .. extras : refusals[k] = r
  OBVIOUS
<1> HIDE DEF refusals
<1> DEFINE both == <<d, e>> \o refusals
<1>5. /\ both \in Seq({d, e, r}) /\ Len(both) = 2 + extras /\ both[1] = d /\ both[2] = e
      /\ \A k \in 1 .. extras : both[2 + k] = r
  <2>1. <<d, e>> \in Seq({d, e, r}) /\ Len(<<d, e>>) = 2
    OBVIOUS
  <2> QED
    BY <1>0, <1>3, <1>4, <2>1
<1>6. Emit(both)
  BY <1>2
<1> HIDE DEF both
<1>7. /\ Extends /\ WroteCount(Len(both)) /\ \A k \in 1 .. Len(both) : Wrote(k, both[k])
  BY <1>5, <1>6, EmitAppends, TraceTyped
<1>8. WroteCount(2 + extras) /\ \A k \in 1 .. 2 + extras : trace'[Len(trace) + k] = both[k]
  BY <1>5, <1>7 DEF Wrote, WroteCount
<1>9. /\ trace'[Len(trace) + 1] = d /\ trace'[Len(trace) + 2] = e
      /\ \A k \in 1 .. extras : trace'[Len(trace) + (2 + k)] = r
  <2>1. \A k \in 1 .. extras : 2 + k \in 1 .. 2 + extras
    BY <1>0
  <2>2. 1 \in 1 .. 2 + extras /\ 2 \in 1 .. 2 + extras
    BY <1>0
  <2> QED
    BY <1>5, <1>8, <2>1, <2>2
<1> QED
  BY <1>7, <1>8, <1>9 DEF d, e, r, Wrote

\* The judge's events: a candidate, a re-derivation if there was one, a decision.
Judged(rederived) == IF rederived = "notrun" THEN 2 ELSE 3

LEMMA RejectWrites ==
    ASSUME TypeInv, NEW f \in Flags, NEW seq \in Citations, RejectFlag(f, seq)
    PROVE  \E at \in Nat :
              /\ Extends /\ WroteCount(2)
              /\ Wrote(1, Event("flag.candidate", step, f, "", at))
              /\ Wrote(2, Event("flag.decision", step, f, "rejected", 0))
<1>0. LoopTypeOK
  BY DEF TypeInv
<1> DEFINE at == IF Plausible(f) /\ Cited(f, observations, seq) # {}
                 THEN seq ELSE Seq_(1)
<1>1. at \in Nat
  <2>1. seq \in Nat
    BY <1>0 DEF Citations, LoopTypeOK, Observation
  <2>2. Seq_(1) \in Nat
    BY <1>0 DEF LoopTypeOK, Seq_
  <2> QED
    BY <2>1, <2>2
<1>2. Emit(JudgeEvents(f, at, "notrun", "rejected"))
  BY DEF RejectFlag
<1> HIDE DEF at
<1> DEFINE events == JudgeEvents(f, at, "notrun", "rejected")
           a == Event("flag.candidate", step, f, "", at)
           d == Event("flag.decision", step, f, "rejected", 0)
<1>3. events \in Seq(TraceEvent)
  BY <1>0, <1>1, JudgeEventsTyped
<1>4. Len(events) = 2 /\ events[1] = a /\ events[2] = d
  BY DEF JudgeEvents
<1> HIDE DEF events, a, d
<1>5. Extends /\ WroteCount(Len(events)) /\ \A k \in 1 .. Len(events) : Wrote(k, events[k])
  BY <1>2, <1>3, EmitAppends, TraceTyped DEF events
<1>6. WroteCount(2) /\ Wrote(1, a) /\ Wrote(2, d)
  BY <1>4, <1>5 DEF Wrote, WroteCount
<1> QED
  BY <1>1, <1>5, <1>6 DEF a, d

\* What an accepted flag leaves: the observation it rests on, how its
\* re-derivation went, and the end of the run.
Accepted(f, seq, o, rederived) ==
    LET decision == PolicyDecision(policy, f, rederived)
        outcome  == IF decision = "finalized" THEN "solved" ELSE "candidate"
        n        == Judged(rederived)
    IN  /\ o \in observations /\ ClearedBy(f, o, observations, seq)
        /\ rederived \in Rederivations(o)
        /\ Extends /\ WroteCount(n + 1)
        /\ Wrote(1, Event("flag.candidate", step, f, "", seq))
        /\ rederived # "notrun" => Wrote(2, Event("flag.rederived", step, f, rederived, seq))
        /\ Wrote(n, Event("flag.decision", step, f, decision, 0))
        /\ Wrote(n + 1, Event("run.finished", step, f, outcome, cost'))
        /\ pc' = "returned" /\ ended'.outcome = outcome

LEMMA AcceptWrites ==
    ASSUME TypeInv, NEW f \in Flags, NEW seq \in Citations, AcceptFlag(f, seq)
    PROVE  \E o \in observations : \E rederived \in Rederivations(o) :
              Accepted(f, seq, o, rederived)
<1>0. LoopTypeOK
  BY DEF TypeInv
<1>1. flag' = f /\ cost' = cost
  BY DEF AcceptFlag
<1>2. PICK o \in observations : \E rederived \in Rederivations(o) :
        /\ ClearedBy(f, o, observations, seq)
        /\ LET decision == PolicyDecision(policy, f, rederived)
           IN  Finish(IF decision = "finalized" THEN "solved" ELSE "candidate",
                      IF decision = "finalized" THEN 0 ELSE 2,
                      JudgeEvents(f, seq, rederived, decision))
  BY DEF AcceptFlag
<1>3. PICK rederived \in Rederivations(o) :
        /\ ClearedBy(f, o, observations, seq)
        /\ LET decision == PolicyDecision(policy, f, rederived)
           IN  Finish(IF decision = "finalized" THEN "solved" ELSE "candidate",
                      IF decision = "finalized" THEN 0 ELSE 2,
                      JudgeEvents(f, seq, rederived, decision))
  BY <1>2
<1> DEFINE decision == PolicyDecision(policy, f, rederived)
           outcome == IF decision = "finalized" THEN "solved" ELSE "candidate"
           code == IF decision = "finalized" THEN 0 ELSE 2
           events == JudgeEvents(f, seq, rederived, decision)
           n == Judged(rederived)
           a == Event("flag.candidate", step, f, "", seq)
           b == Event("flag.rederived", step, f, rederived, seq)
           d == Event("flag.decision", step, f, decision, 0)
           e == Event("run.finished", step, f, outcome, cost')
<1>4. Finish(outcome, code, events)
  BY <1>3
<1>5. outcome \in Outcomes /\ flag' \in Flags \cup {NoSubject} /\ cost' \in Nat
  BY <1>0, <1>1 DEF Outcomes, LoopTypeOK
<1>6. events \in Seq(TraceEvent)
  <2>1. decision \in {"rejected", "finalized", "pending"}
    BY DEF PolicyDecision
  <2>2. rederived \in {"notrun", "matched", "unmatched", "errored"}
    BY DEF Rederivations
  <2>3. seq \in Nat
    BY <1>0 DEF Citations, LoopTypeOK, Observation
  <2> HIDE DEF decision
  <2> QED
    BY <1>0, <2>1, <2>2, <2>3, JudgeEventsTyped
<1>7. n \in {2, 3} /\ (rederived # "notrun" => n = 3)
  BY DEF Judged
<1>8. /\ Len(events) = n /\ events[1] = a /\ events[n] = d
      /\ rederived # "notrun" => events[2] = b
  BY DEF JudgeEvents, Judged
<1> HIDE DEF decision, code, outcome, events, n, a, b, d
<1>9. /\ Extends /\ WroteCount(Len(events) + 1)
      /\ \A k \in 1 .. Len(events) : Wrote(k, events[k])
      /\ Wrote(Len(events) + 1, e)
      /\ pc' = "returned" /\ ended' = [outcome |-> outcome, code |-> code]
  BY <1>1, <1>4, <1>5, <1>6, FinishWrites
<1> HIDE DEF e
<1>10. /\ WroteCount(n + 1) /\ Wrote(1, a) /\ Wrote(n, d) /\ Wrote(n + 1, e)
       /\ rederived # "notrun" => Wrote(2, b)
       /\ ended'.outcome = outcome
  BY <1>7, <1>8, <1>9 DEF Wrote, WroteCount
<1>11. Accepted(f, seq, o, rederived)
  BY <1>3, <1>9, <1>10 DEF Accepted, n, decision, outcome, a, b, d, e
<1> QED
  BY <1>11

\* The events of a step that may force a change of strategy.
ShiftsDue == IF shift'.trigger = "none" THEN 0 ELSE 1

LEMMA ShiftEventsAre ==
    /\ Len(ShiftEvents) = ShiftsDue
    /\ ShiftsDue = 1 =>
         ShiftEvents[1] = Event("strategy.shift", step, NoSubject, shift'.reported, 0)
  BY DEF ShiftEvents, ShiftsDue

LEMMA RefuseWrites ==
    ASSUME TypeInv, TrackerTypeOK', NEW c \in Commands, RefuseCommand(c)
    PROVE  /\ Extends /\ WroteCount(1 + ShiftsDue)
           /\ Wrote(1, Event("budget.blocked", step, c, "", 0))
           /\ ShiftsDue = 1 =>
                Wrote(2, Event("strategy.shift", step, NoSubject, shift'.reported, 0))
<1>0. LoopTypeOK
  BY DEF TypeInv
<1> DEFINE a == Event("budget.blocked", step, c, "", 0)
           events == <<a>> \o ShiftEvents
<1>1. a \in TraceEvent
  <2>1. step \in 0 .. MaxSteps /\ c \in Subjects
    BY <1>0, SubjectsTyped DEF LoopTypeOK
  <2> QED
    BY <2>1, EventTyped DEF EventTypes, Notes
<1>2. ShiftEvents \in Seq(TraceEvent) /\ ShiftsDue \in {0, 1}
  BY <1>0, ShiftEventsTyped DEF ShiftsDue
<1> HIDE DEF a
<1>3. /\ events \in Seq(TraceEvent) /\ Len(events) = 1 + ShiftsDue /\ events[1] = a
      /\ ShiftsDue = 1 => events[2] = ShiftEvents[1]
  BY <1>1, <1>2, ShiftEventsAre
<1>4. Emit(events)
  BY DEF RefuseCommand, a
<1> HIDE DEF events
<1>5. Extends /\ WroteCount(Len(events)) /\ \A k \in 1 .. Len(events) : Wrote(k, events[k])
  BY <1>3, <1>4, EmitAppends, TraceTyped
<1>6. /\ WroteCount(1 + ShiftsDue) /\ Wrote(1, a)
      /\ ShiftsDue = 1 => Wrote(2, ShiftEvents[1])
  BY <1>2, <1>3, <1>5 DEF Wrote, WroteCount
<1> QED
  BY <1>5, <1>6, ShiftEventsAre DEF a

LEMMA ExecuteWrites ==
    ASSUME TypeInv, TrackerTypeOK', NEW c \in Commands, NEW out \in ResultsOf(c),
           ExecuteCommand(c, out)
    PROVE  /\ Extends /\ WroteCount(3 + ShiftsDue)
           /\ Wrote(1, Event("tool.call", step, c, "", 0))
           /\ Wrote(2, Event("tool.result", step, c, KindOf(c, out), 0))
           /\ Wrote(3, Event("progress.scored", step, c,
                             IF Progressed(out) THEN "progress" ELSE "none", 0))
           /\ ShiftsDue = 1 =>
                Wrote(4, Event("strategy.shift", step, NoSubject, shift'.reported, 0))
<1>0. LoopTypeOK
  BY DEF TypeInv
<1> DEFINE a == Event("tool.call", step, c, "", 0)
           b == Event("tool.result", step, c, KindOf(c, out), 0)
           d == Event("progress.scored", step, c,
                      IF Progressed(out) THEN "progress" ELSE "none", 0)
           events == <<a, b>> \o <<d>> \o ShiftEvents
<1>1. a \in TraceEvent /\ b \in TraceEvent /\ d \in TraceEvent
  <2>1. step \in 0 .. MaxSteps /\ c \in Subjects
    BY <1>0, SubjectsTyped DEF LoopTypeOK
  <2>2. /\ (IF Progressed(out) THEN "progress" ELSE "none") \in Notes
        /\ KindOf(c, out) \in Notes /\ "" \in Notes
    BY DEF Notes, Outcomes, KindOf
  <2> QED
    BY <2>1, <2>2, EventTyped DEF EventTypes
<1>2. ShiftEvents \in Seq(TraceEvent) /\ ShiftsDue \in {0, 1}
  BY <1>0, ShiftEventsTyped DEF ShiftsDue
<1> HIDE DEF a, b, d
<1>3. /\ events \in Seq(TraceEvent) /\ Len(events) = 3 + ShiftsDue
      /\ events[1] = a /\ events[2] = b /\ events[3] = d
      /\ ShiftsDue = 1 => events[4] = ShiftEvents[1]
  BY <1>1, <1>2, ShiftEventsAre
<1>4. Emit(events)
  BY DEF ExecuteCommand, CallEvents, a, b, d
<1> HIDE DEF events
<1>5. Extends /\ WroteCount(Len(events)) /\ \A k \in 1 .. Len(events) : Wrote(k, events[k])
  BY <1>3, <1>4, EmitAppends, TraceTyped
<1>6. /\ WroteCount(3 + ShiftsDue) /\ Wrote(1, a) /\ Wrote(2, b) /\ Wrote(3, d)
      /\ ShiftsDue = 1 => Wrote(4, ShiftEvents[1])
  BY <1>2, <1>3, <1>5 DEF Wrote, WroteCount
<1> QED
  BY <1>5, <1>6, ShiftEventsAre DEF a, b, d
-----------------------------------------------------------------------------
(* The types of the events each action writes                                 *)

LEMMA WroteTypes ==
    ASSUME TypeInv, NEW types, NEW n \in Nat, WroteCount(n),
           \A k \in 1 .. n : trace'[Len(trace) + k].type \in types
    PROVE  WroteOnly(types)
<1> SUFFICES ASSUME NEW i \in Len(trace) + 1 .. Len(trace') PROVE trace'[i].type \in types
  BY DEF WroteOnly
<1>1. i - Len(trace) \in 1 .. n /\ i = Len(trace) + (i - Len(trace))
  BY TraceTyped DEF WroteCount
<1> QED
  BY <1>1

LEMMA EscapeTypes ==
    ASSUME TypeInv, NEW code, NEW events \in Seq(TraceEvent), Escape(code, events),
           NEW types, \A k \in 1 .. Len(events) : events[k].type \in types
    PROVE  Extends /\ WroteOnly(types)
<1>1. Emit(events)
  BY DEF Escape
<1>2. Extends /\ WroteCount(Len(events)) /\ \A k \in 1 .. Len(events) : Wrote(k, events[k])
  BY <1>1, EmitAppends, TraceTyped
<1>3. ASSUME NEW i \in Len(trace) + 1 .. Len(trace') PROVE trace'[i].type \in types
  <2>1. i - Len(trace) \in 1 .. Len(events) /\ i = Len(trace) + (i - Len(trace))
    BY <1>2, TraceTyped DEF WroteCount
  <2>2. trace'[Len(trace) + (i - Len(trace))] = events[i - Len(trace)]
    BY <1>2, <2>1 DEF Wrote
  <2> QED
    BY <2>1, <2>2
<1> QED
  BY <1>2, <1>3 DEF WroteOnly

LEMMA EscapeSilent ==
    ASSUME TypeInv, NEW code, Escape(code, <<>>), NEW types
    PROVE  UNCHANGED trace /\ Extends /\ WroteOnly(types)
  BY TraceTyped DEF Escape, Emit, Extends, WroteOnly

\* The action ends the run: after events of these types, run.finished is the
\* last, with the outcome, the flag and the bill as they now are.
Concludes(types, outcome) ==
    /\ Extends /\ Len(trace) < Len(trace')
    /\ trace'[Len(trace')] = Event("run.finished", step, flag', outcome, cost')
    /\ \A i \in Len(trace) + 1 .. Len(trace') - 1 : trace'[i].type \in types
    /\ pc' = "returned" /\ ended'.outcome = outcome

LEMMA FinishConcludes ==
    ASSUME TypeInv, NEW outcome \in Outcomes, NEW code, NEW events \in Seq(TraceEvent),
           flag' \in Flags \cup {NoSubject}, cost' \in Nat,
           Finish(outcome, code, events),
           NEW types, \A k \in 1 .. Len(events) : events[k].type \in types
    PROVE  Concludes(types, outcome)
<1> DEFINE last == Event("run.finished", step, flag', outcome, cost')
<1>1. /\ Extends
      /\ WroteCount(Len(events) + 1)
      /\ \A k \in 1 .. Len(events) : Wrote(k, events[k])
      /\ Wrote(Len(events) + 1, last)
      /\ pc' = "returned" /\ ended' = [outcome |-> outcome, code |-> code]
  BY FinishWrites
<1> HIDE DEF last
<1>2. Len(trace) \in Nat /\ Len(events) \in Nat
  BY TraceTyped
<1>3. Len(trace') = Len(trace) + (Len(events) + 1)
  BY <1>1 DEF WroteCount
<1>4. ASSUME NEW i \in Len(trace) + 1 .. Len(trace') - 1
      PROVE  trace'[i].type \in types
  <2> DEFINE k == i - Len(trace)
  <2>1. i = Len(trace) + k /\ k \in 1 .. Len(events)
    BY <1>2, <1>3
  <2> HIDE DEF k
  <2>2. trace'[Len(trace) + k] = events[k]
    BY <1>1, <2>1 DEF Wrote
  <2> QED
    BY <2>1, <2>2
<1>5. trace'[Len(trace')] = last
  BY <1>1, <1>3 DEF Wrote
<1>6. ended'.outcome = outcome
  BY <1>1
<1>7. Len(trace) < Len(trace')
  BY <1>2, <1>3
<1> QED
  BY <1>1, <1>4, <1>5, <1>6, <1>7 DEF Concludes, last

\* Then the events of a type are, but for run.finished itself, among the types
\* written before it.
LEMMA ConcludedEvents ==
    ASSUME trace \in Seq(TraceEvent), trace' \in Seq(TraceEvent),
           NEW types, NEW outcome, Concludes(types, outcome)
    PROVE  /\ "run.finished" \notin types =>
                EventsOf("run.finished")' = EventsOf("run.finished") \cup {Len(trace')}
           /\ \A type : type \notin types /\ type # "run.finished" =>
                EventsOf(type)' = EventsOf(type)
<1>0. Len(trace) \in Nat /\ Len(trace') \in Nat /\ Len(trace) < Len(trace') /\ Extends
  BY DEF Concludes
<1>1. trace'[Len(trace')].type = "run.finished"
  BY DEF Concludes, Event
<1>2. \A i \in Len(trace) + 1 .. Len(trace') :
        i = Len(trace') \/ trace'[i].type \in types
  <2> SUFFICES ASSUME NEW i \in Len(trace) + 1 .. Len(trace'), i # Len(trace')
               PROVE  trace'[i].type \in types
    OBVIOUS
  <2>1. i \in Len(trace) + 1 .. Len(trace') - 1
    BY <1>0
  <2> QED
    BY <2>1 DEF Concludes
<1>3. ASSUME NEW type
      PROVE  EventsOf(type)' = EventsOf(type) \cup
                {i \in Len(trace) + 1 .. Len(trace') : trace'[i].type = type}
  BY <1>0, EventsAdded
<1>4. Len(trace') \in Len(trace) + 1 .. Len(trace')
  BY <1>0
<1>5. ASSUME "run.finished" \notin types
      PROVE  EventsOf("run.finished")' = EventsOf("run.finished") \cup {Len(trace')}
  <2>1. {i \in Len(trace) + 1 .. Len(trace') : trace'[i].type = "run.finished"}
          = {Len(trace')}
    BY <1>1, <1>2, <1>4, <1>5
  <2> QED
    BY <1>3, <2>1
<1>6. ASSUME NEW type, type \notin types, type # "run.finished"
      PROVE  EventsOf(type)' = EventsOf(type)
  <2>1. {i \in Len(trace) + 1 .. Len(trace') : trace'[i].type = type} = {}
    BY <1>1, <1>2, <1>6
  <2> QED
    BY <1>3, <2>1
<1> QED
  BY <1>5, <1>6

LEMMA AppendIs ==
    ASSUME NEW S, NEW s \in Seq(S), NEW e \in S
    PROVE  /\ Append(s, e) \in Seq(S) /\ Len(Append(s, e)) = Len(s) + 1
           /\ \A k \in 1 .. Len(s) : Append(s, e)[k] = s[k]
           /\ Append(s, e)[Len(s) + 1] = e
  OBVIOUS

PreludeTypes == {"run.started", "challenge.loaded", "triage.result", "error"}

LEMMA OpeningIs ==
    /\ Opening \in Seq(TraceEvent) /\ Len(Opening) = 2
    /\ Opening[1].type \in PreludeTypes /\ Opening[2].type \in PreludeTypes
<1>1. Opening \in Seq(TraceEvent) /\ Len(Opening) = 2
  BY OpeningTyped DEF Opening
<1>2. Opening[1].type \in PreludeTypes /\ Opening[2].type \in PreludeTypes
  BY DEF Opening, Event, PreludeTypes
<1> QED
  BY <1>1, <1>2

\* Nothing before the loop pays, decides or runs anything.
LEMMA PreludeWrites ==
    ASSUME TypeInv, SandboxStartFails \/ Begin \/ Triage \/ TriageFails
    PROVE  Extends /\ WroteOnly(PreludeTypes)
<1>1. CASE SandboxStartFails \/ TriageFails
  <2>1. Escape(SandboxCode, <<>>)
    BY <1>1 DEF SandboxStartFails, TriageFails
  <2> QED
    BY <2>1, EscapeSilent
<1>2. CASE Begin
  <2>1. Emit(Opening)
    BY <1>2 DEF Begin
  <2>2. Extends /\ WroteCount(Len(Opening)) /\ \A k \in 1 .. Len(Opening) : Wrote(k, Opening[k])
    BY <2>1, OpeningIs, EmitAppends, TraceTyped
  <2>3. WroteCount(2) /\ Wrote(1, Opening[1]) /\ Wrote(2, Opening[2])
    BY <2>2, OpeningIs
  <2>4. \A k \in 1 .. 2 : trace'[Len(trace) + k].type \in PreludeTypes
    BY <2>3, OpeningIs DEF Wrote
  <2> QED
    BY <2>2, <2>3, <2>4, WroteTypes
<1>3. CASE Triage
  <2> DEFINE e == Event("triage.result", 0, NoSubject, "", 0)
  <2>1. Extends /\ WroteCount(1) /\ Wrote(1, e)
    BY <1>3, EmitShort, TraceTyped DEF Triage
  <2>2. e.type \in PreludeTypes
    BY DEF Event, PreludeTypes
  <2> HIDE DEF e
  <2>3. \A k \in 1 .. 1 : trace'[Len(trace) + k].type \in PreludeTypes
    BY <2>1, <2>2 DEF Wrote
  <2> QED
    BY <2>1, <2>3, WroteTypes
<1> QED
  BY <1>1, <1>2, <1>3

\* The ends of a run that no answer brought about.
LEMMA FailureConcludes ==
    ASSUME TypeInv, InputsFail \/ StepsExhausted \/ ProviderFails
    PROVE  \E outcome \in {"error", "exhausted"} : Concludes(PreludeTypes, outcome)
<1>0. LoopTypeOK /\ <<>> \in Seq(TraceEvent)
  BY DEF TypeInv
<1>f. flag' \in Flags \cup {NoSubject} /\ cost' \in Nat
  BY <1>0 DEF InputsFail, StepsExhausted, ProviderFails, LoopTypeOK
<1>1. CASE InputsFail
  <2> DEFINE e == Event("error", 0, NoSubject, "sandbox", 0)
             events == Append(Opening, e)
  <2>1. e \in TraceEvent /\ e.type \in PreludeTypes
    <3>1. 0 \in 0 .. MaxSteps
      BY LoopAssumption
    <3>2. e \in TraceEvent
      BY <3>1, EventTyped, SubjectsTyped DEF EventTypes, Notes
    <3> QED
      BY <3>2 DEF Event, PreludeTypes
  <2>2. Finish("error", SandboxCode, events) /\ "error" \in Outcomes
    BY <1>1 DEF InputsFail, Outcomes
  <2> HIDE DEF e
  <2>3. /\ events \in Seq(TraceEvent) /\ Len(events) = Len(Opening) + 1
        /\ \A k \in 1 .. Len(Opening) : events[k] = Opening[k]
        /\ events[Len(Opening) + 1] = e
    BY <2>1, OpeningIs, AppendIs
  <2> HIDE DEF events
  <2>4. /\ events \in Seq(TraceEvent) /\ Len(events) = 3
        /\ events[1] = Opening[1] /\ events[2] = Opening[2] /\ events[3] = e
    BY <2>3, OpeningIs
  <2>5. \A k \in 1 .. Len(events) : events[k].type \in PreludeTypes
    BY <2>1, <2>4, OpeningIs
  <2> QED
    BY <1>f, <2>2, <2>3, <2>5, FinishConcludes
<1>2. CASE StepsExhausted
  <2>1. "exhausted" \in Outcomes /\ Finish("exhausted", 3, <<>>)
    BY <1>2 DEF StepsExhausted, Outcomes
  <2> DEFINE events == <<>>
  <2>2. events \in Seq(TraceEvent) /\ \A k \in 1 .. Len(events) : events[k].type \in PreludeTypes
    OBVIOUS
  <2>3. Finish("exhausted", 3, events)
    BY <2>1
  <2> HIDE DEF events
  <2> QED
    BY <1>f, <2>1, <2>2, <2>3, FinishConcludes
<1>3. CASE ProviderFails
  <2> DEFINE e == Event("error", step, NoSubject, "provider", 0)
             events == <<e>>
  <2>1. e \in TraceEvent /\ e.type \in PreludeTypes
    <3>1. e \in TraceEvent
      BY <1>0, PlainEventTyped DEF EventTypes, Notes
    <3> QED
      BY <3>1 DEF Event, PreludeTypes
  <2>2. "error" \in Outcomes /\ Finish("error", 5, events)
    BY <1>3 DEF ProviderFails, Outcomes
  <2> HIDE DEF e
  <2>3. events \in Seq(TraceEvent) /\ Len(events) = 1 /\ events[1] = e
    BY <2>1
  <2> HIDE DEF events
  <2>4. \A k \in 1 .. Len(events) : events[k].type \in PreludeTypes
    BY <2>1, <2>3
  <2> QED
    BY <1>f, <2>2, <2>3, <2>4, FinishConcludes
<1> QED
  BY <1>1, <1>2, <1>3

LEMMA BeginStepTypes ==
    ASSUME TypeInv, BeginStep PROVE Extends /\ WroteOnly({"llm.request"})
<1> DEFINE e == Event("llm.request", step', NoSubject, "", Len(history'))
<1>1. Extends /\ WroteCount(1) /\ Wrote(1, e)
  BY BeginStepWrites
<1>2. e.type = "llm.request"
  BY DEF Event
<1> HIDE DEF e
<1>3. \A k \in 1 .. 1 : trace'[Len(trace) + k].type \in {"llm.request"}
  BY <1>1, <1>2 DEF Wrote
<1> QED
  BY <1>1, <1>3, WroteTypes

CeilingTypes == {"cost.updated", "budget.exhausted"}

LEMMA CeilingConcludes ==
    ASSUME TypeInv, NEW c \in CallCosts, CeilingReached(c)
    PROVE  Concludes(CeilingTypes, "exhausted")
<1> DEFINE a == Event("cost.updated", step, NoSubject, "", cost')
           b == Event("budget.exhausted", step, NoSubject, "", cost')
           e == Event("run.finished", step, flag', "exhausted", cost')
<1>1. Extends /\ WroteCount(3) /\ Wrote(1, a) /\ Wrote(2, b) /\ Wrote(3, e)
  BY CeilingWrites
<1>2. a.type \in CeilingTypes /\ b.type \in CeilingTypes
  BY DEF Event, CeilingTypes
<1>3. pc' = "returned" /\ ended'.outcome = "exhausted"
  BY DEF CeilingReached, Finish
<1> HIDE DEF a, b, e
<1>4. Len(trace) \in Nat /\ Len(trace') = Len(trace) + 3
  BY <1>1, TraceTyped DEF WroteCount
<1>5. ASSUME NEW i \in Len(trace) + 1 .. Len(trace') - 1 PROVE trace'[i].type \in CeilingTypes
  <2>1. i = Len(trace) + 1 \/ i = Len(trace) + 2
    BY <1>4
  <2> QED
    BY <1>1, <1>2, <2>1 DEF Wrote
<1>6. trace'[Len(trace')] = e /\ Len(trace) < Len(trace')
  BY <1>1, <1>4 DEF Wrote
<1> QED
  BY <1>1, <1>3, <1>5, <1>6 DEF Concludes, e

TurnTypes == {"cost.updated", "llm.response", "tool.result"}

\* The first event of a completion that is acted upon is the bill.
LEMMA AnswerTypes ==
    ASSUME TypeInv, NEW c \in CallCosts,
           \/ Nudge(c)
           \/ \E primary \in Commands \cup {Submit}, extras \in 0 .. MaxExtras :
                 Propose(c, primary, extras)
    PROVE  /\ Extends /\ WroteOnly(TurnTypes)
           /\ Wrote(1, Event("cost.updated", step, NoSubject, "", cost'))
           /\ Len(trace') > Len(trace)
           /\ \A i \in Len(trace) + 2 .. Len(trace') : trace'[i].type # "cost.updated"
<1> DEFINE a == Event("cost.updated", step, NoSubject, "", cost')
           b == Event("llm.response", step, NoSubject, "", 0)
           r == Event("tool.result", step, NoSubject, "blocked", 0)
<1>1. a.type \in TurnTypes /\ b.type \in TurnTypes /\ r.type \in TurnTypes
  BY DEF Event, TurnTypes
<1>2. b.type # "cost.updated" /\ r.type # "cost.updated"
  BY DEF Event
<1>3. CASE Nudge(c)
  <2>1. Extends /\ WroteCount(2) /\ Wrote(1, a) /\ Wrote(2, b)
    BY <1>3, NudgeWrites
  <2> HIDE DEF a, b, r
  <2>2. \A k \in 1 .. 2 : trace'[Len(trace) + k].type \in TurnTypes
    BY <1>1, <2>1 DEF Wrote
  <2>3. WroteOnly(TurnTypes)
    BY <2>1, <2>2, WroteTypes
  <2>4. Len(trace') = Len(trace) + 2 /\ Len(trace) \in Nat
    BY <2>1, TraceTyped DEF WroteCount
  <2>5. ASSUME NEW i \in Len(trace) + 2 .. Len(trace') PROVE trace'[i].type # "cost.updated"
    <3>1. i = Len(trace) + 2
      BY <2>4
    <3> QED
      BY <1>2, <2>1, <3>1 DEF Wrote
  <2>6. Len(trace') > Len(trace)
    BY <2>4
  <2> QED
    BY <2>1, <2>3, <2>5, <2>6 DEF a
<1>4. ASSUME NEW primary, NEW extras \in 0 .. MaxExtras, Propose(c, primary, extras)
      PROVE  /\ Extends /\ WroteOnly(TurnTypes) /\ Wrote(1, a)
             /\ Len(trace') > Len(trace)
             /\ \A i \in Len(trace) + 2 .. Len(trace') : trace'[i].type # "cost.updated"
  <2> DEFINE d == Event("llm.response", step, primary, "", 0)
  <2>1. /\ Extends /\ WroteCount(2 + extras) /\ Wrote(1, a) /\ Wrote(2, d)
        /\ \A k \in 1 .. extras : Wrote(2 + k, r)
    BY <1>4, ProposeWrites
  <2>2. d.type \in TurnTypes /\ d.type # "cost.updated"
    BY DEF Event, TurnTypes
  <2> HIDE DEF a, b, r, d
  <2>3. extras \in Nat
    BY LoopAssumption
  <2>4. ASSUME NEW k \in 1 .. 2 + extras
        PROVE  /\ trace'[Len(trace) + k].type \in TurnTypes
               /\ k # 1 => trace'[Len(trace) + k].type # "cost.updated"
    <3>1. CASE k = 1
      BY <1>1, <2>1, <3>1 DEF Wrote
    <3>2. CASE k = 2
      BY <2>1, <2>2, <3>2 DEF Wrote
    <3>3. CASE k >= 3
      <4>1. k - 2 \in 1 .. extras /\ 2 + (k - 2) = k
        BY <2>3, <3>3
      <4>2. Wrote(2 + (k - 2), r)
        BY <2>1, <4>1
      <4>3. trace'[Len(trace) + k] = r
        BY <4>1, <4>2 DEF Wrote
      <4> QED
        BY <1>1, <1>2, <4>3
    <3> QED
      BY <2>3, <3>1, <3>2, <3>3
  <2>5. 2 + extras \in Nat
    BY <2>3
  <2>6. WroteOnly(TurnTypes)
    BY <2>1, <2>4, <2>5, WroteTypes
  <2>7. Len(trace') = Len(trace) + (2 + extras) /\ Len(trace) \in Nat
    BY <2>1, TraceTyped DEF WroteCount
  <2>8. ASSUME NEW i \in Len(trace) + 2 .. Len(trace') PROVE trace'[i].type # "cost.updated"
    <3>1. i - Len(trace) \in 1 .. 2 + extras /\ i - Len(trace) # 1
          /\ i = Len(trace) + (i - Len(trace))
      BY <2>3, <2>7
    <3> QED
      BY <2>4, <3>1
  <2>9. Len(trace') > Len(trace)
    BY <2>3, <2>7
  <2> QED
    BY <2>1, <2>6, <2>8, <2>9
<1> QED
  BY <1>3, <1>4

JudgeTypes == {"flag.candidate", "flag.rederived", "flag.decision"}

LEMMA RejectTypes ==
    ASSUME TypeInv, NEW f \in Flags, NEW seq \in Citations, RejectFlag(f, seq)
    PROVE  Extends /\ WroteOnly(JudgeTypes)
<1>1. PICK at \in Nat :
         /\ Extends /\ WroteCount(2)
         /\ Wrote(1, Event("flag.candidate", step, f, "", at))
         /\ Wrote(2, Event("flag.decision", step, f, "rejected", 0))
  BY RejectWrites
<1> DEFINE a == Event("flag.candidate", step, f, "", at)
           b == Event("flag.decision", step, f, "rejected", 0)
<1>2. a.type \in JudgeTypes /\ b.type \in JudgeTypes
  BY DEF Event, JudgeTypes
<1>3. Wrote(1, a) /\ Wrote(2, b)
  BY <1>1
<1> HIDE DEF a, b
<1>4. \A k \in 1 .. 2 : trace'[Len(trace) + k].type \in JudgeTypes
  BY <1>2, <1>3 DEF Wrote
<1> QED
  BY <1>1, <1>4, WroteTypes

LEMMA AcceptConcludes ==
    ASSUME TypeInv, NEW f \in Flags, NEW seq, NEW o, NEW rederived,
           AcceptFlag(f, seq), Accepted(f, seq, o, rederived)
    PROVE  Concludes(JudgeTypes, IF PolicyDecision(policy, f, rederived) = "finalized"
                                 THEN "solved" ELSE "candidate")
<1> DEFINE decision == PolicyDecision(policy, f, rederived)
           outcome  == IF decision = "finalized" THEN "solved" ELSE "candidate"
           n        == Judged(rederived)
           a == Event("flag.candidate", step, f, "", seq)
           b == Event("flag.rederived", step, f, rederived, seq)
           d == Event("flag.decision", step, f, decision, 0)
           e == Event("run.finished", step, f, outcome, cost')
<1>1. /\ Extends /\ WroteCount(n + 1) /\ Wrote(1, a) /\ Wrote(n, d) /\ Wrote(n + 1, e)
      /\ rederived # "notrun" => Wrote(2, b)
      /\ pc' = "returned" /\ ended'.outcome = outcome
  BY DEF Accepted
<1>2. n \in {2, 3} /\ (n = 3 => rederived # "notrun")
  BY DEF Judged
<1>3. a.type \in JudgeTypes /\ b.type \in JudgeTypes /\ d.type \in JudgeTypes
  BY DEF Event, JudgeTypes
<1>4. flag' = f
  BY DEF AcceptFlag
<1> HIDE DEF a, b, d, e, n, outcome
<1>5. Len(trace') = Len(trace) + (n + 1) /\ Len(trace) \in Nat
  BY <1>1, TraceTyped DEF WroteCount
<1>6. ASSUME NEW i \in Len(trace) + 1 .. Len(trace') - 1 PROVE trace'[i].type \in JudgeTypes
  <2>1. \/ i = Len(trace) + 1 \/ i = Len(trace) + n
        \/ n = 3 /\ i = Len(trace) + 2
    BY <1>2, <1>5
  <2> QED
    BY <1>1, <1>2, <1>3, <2>1 DEF Wrote
<1>7. trace'[Len(trace')] = e /\ Len(trace) < Len(trace')
  BY <1>1, <1>2, <1>5 DEF Wrote
<1>8. trace'[Len(trace')] = Event("run.finished", step, flag', outcome, cost')
  BY <1>4, <1>7 DEF e
<1>9. Concludes(JudgeTypes, outcome)
  BY <1>1, <1>6, <1>7, <1>8 DEF Concludes
<1> QED
  BY <1>9 DEF outcome

LEMMA RefuseTypes ==
    ASSUME TypeInv, TrackerTypeOK', NEW c \in Commands, RefuseCommand(c)
    PROVE  Extends /\ WroteOnly({"budget.blocked", "strategy.shift"})
<1> DEFINE a == Event("budget.blocked", step, c, "", 0)
           b == Event("strategy.shift", step, NoSubject, shift'.reported, 0)
           n == 1 + ShiftsDue
<1>1. Extends /\ WroteCount(n) /\ Wrote(1, a) /\ (ShiftsDue = 1 => Wrote(2, b))
  BY RefuseWrites
<1>2. /\ a.type \in {"budget.blocked", "strategy.shift"}
      /\ b.type \in {"budget.blocked", "strategy.shift"}
  BY DEF Event
<1>3. n \in {1, 2} /\ (n = 2 => ShiftsDue = 1)
  BY DEF ShiftsDue
<1> HIDE DEF a, b, n
<1>4. \A k \in 1 .. n : trace'[Len(trace) + k].type \in {"budget.blocked", "strategy.shift"}
  BY <1>1, <1>2, <1>3 DEF Wrote
<1> QED
  BY <1>1, <1>3, <1>4, WroteTypes

CallTypes == {"tool.call", "tool.result", "progress.scored", "strategy.shift"}

LEMMA ExecuteTypes ==
    ASSUME TypeInv, TrackerTypeOK', NEW c \in Commands, NEW out \in ResultsOf(c),
           ExecuteCommand(c, out)
    PROVE  Extends /\ WroteOnly(CallTypes)
<1> DEFINE a == Event("tool.call", step, c, "", 0)
           b == Event("tool.result", step, c, KindOf(c, out), 0)
           d == Event("progress.scored", step, c,
                      IF Progressed(out) THEN "progress" ELSE "none", 0)
           e == Event("strategy.shift", step, NoSubject, shift'.reported, 0)
           n == 3 + ShiftsDue
<1>1. /\ Extends /\ WroteCount(n) /\ Wrote(1, a) /\ Wrote(2, b) /\ Wrote(3, d)
      /\ ShiftsDue = 1 => Wrote(4, e)
  BY ExecuteWrites
<1>2. /\ a.type \in CallTypes /\ b.type \in CallTypes
      /\ d.type \in CallTypes /\ e.type \in CallTypes
  BY DEF Event, CallTypes
<1>3. n \in {3, 4} /\ (n = 4 => ShiftsDue = 1)
  BY DEF ShiftsDue
<1> HIDE DEF a, b, d, e, n
<1>4. \A k \in 1 .. n : trace'[Len(trace) + k].type \in CallTypes
  BY <1>1, <1>2, <1>3 DEF Wrote
<1> QED
  BY <1>1, <1>3, <1>4, WroteTypes

\* A call that breaks the run was started, and may have been answered.
LEMMA FailedCallWrites ==
    ASSUME TypeInv, NEW c \in Commands
    PROVE  /\ ExecuteFails(c) => Extends /\ WroteOnly({"tool.call"})
           /\ \A out \in ResultsOf(c) : RenderFails(c, out) =>
                /\ Extends /\ WroteOnly({"tool.call", "tool.result"}) /\ WroteCount(2)
                /\ Wrote(2, Event("tool.result", step, c, KindOf(c, out), 0))
<1> DEFINE a == Event("tool.call", step, c, "", 0)
<1>1. a.type = "tool.call"
  BY DEF Event
<1>2. ASSUME ExecuteFails(c) PROVE Extends /\ WroteOnly({"tool.call"})
  <2>1. Emit(<<a>>)
    BY <1>2 DEF ExecuteFails, Escape
  <2> HIDE DEF a
  <2>2. Extends /\ WroteCount(1) /\ Wrote(1, a)
    BY <2>1, EmitShort, TraceTyped
  <2>3. \A k \in 1 .. 1 : trace'[Len(trace) + k].type \in {"tool.call"}
    BY <1>1, <2>2 DEF Wrote
  <2> QED
    BY <2>2, <2>3, WroteTypes
<1>3. ASSUME NEW out \in ResultsOf(c), RenderFails(c, out)
      PROVE  /\ Extends /\ WroteOnly({"tool.call", "tool.result"}) /\ WroteCount(2)
             /\ Wrote(2, Event("tool.result", step, c, KindOf(c, out), 0))
  <2> DEFINE b == Event("tool.result", step, c, KindOf(c, out), 0)
  <2>1. Emit(<<a, b>>)
    BY <1>3 DEF RenderFails, Escape, CallEvents
  <2>2. b.type = "tool.result"
    BY DEF Event
  <2> HIDE DEF a, b
  <2>3. Extends /\ WroteCount(2) /\ Wrote(1, a) /\ Wrote(2, b)
    BY <2>1, EmitShort, TraceTyped
  <2>4. \A k \in 1 .. 2 : trace'[Len(trace) + k].type \in {"tool.call", "tool.result"}
    BY <1>1, <2>2, <2>3 DEF Wrote
  <2> QED
    BY <2>3, <2>4, WroteTypes DEF b
<1> QED
  BY <1>2, <1>3

\* A call that does not return was started; one the judge runs again leaves no
\* trace at all.
LEMMA HangWrites ==
    ASSUME TypeInv, Hang
    PROVE  /\ Extends /\ WroteOnly({"tool.call"})
           /\ pc = "act" /\ pc' = "hung"
           /\ UNCHANGED <<policy, step, cost, flag, progressSteps, blockedSteps,
                          observations, manifest, trackerVars>>
<1>1. ASSUME NEW c \in Commands, CommandHangs(c) PROVE Extends /\ WroteOnly({"tool.call"})
  <2> DEFINE a == Event("tool.call", step, c, "", 0)
  <2>1. Emit(<<a>>) /\ a.type = "tool.call"
    BY <1>1 DEF CommandHangs, Event
  <2> HIDE DEF a
  <2>2. Extends /\ WroteCount(1) /\ Wrote(1, a)
    BY <2>1, EmitShort, TraceTyped
  <2>3. \A k \in 1 .. 1 : trace'[Len(trace) + k].type \in {"tool.call"}
    BY <2>1, <2>2 DEF Wrote
  <2> QED
    BY <2>2, <2>3, WroteTypes
<1>2. ASSUME UNCHANGED trace PROVE Extends /\ WroteOnly({"tool.call"})
  BY <1>2, TraceTyped DEF Extends, WroteOnly
<1>3. Extends /\ WroteOnly({"tool.call"})
  BY <1>1, <1>2 DEF Hang, RederivationHangs
<1> QED
  BY <1>3 DEF Hang, CommandHangs, RederivationHangs
-----------------------------------------------------------------------------
(* The ceiling.  While the run works, no bill it has written reaches it; the   *)
(* one that does is followed by the end of the run and nothing else.           *)

UnderCeiling == \A i \in EventsOf("cost.updated") : ~OverCeiling(trace[i].n)

CeilingInv == NothingPastCeiling /\ (Working(pc) => UnderCeiling)

\* Everything but what follows a run's end is an action of a working run.
LEMMA ActionsWork ==
    ASSUME Setup \/ Turn \/ Act \/ Hang PROVE Working(pc)
<1>1. Setup => Working(pc)
  BY DEF Setup, SandboxStartFails, Begin, InputsFail, Triage, TriageFails, Working
<1>2. Turn => Working(pc)
  BY DEF Turn, BeginStep, CompactionFails, StepsExhausted, ProviderFails, CredentialsRefused,
         CeilingReached, Nudge, Propose, Working
<1>3. Act => Working(pc)
  BY DEF Act, RejectFlag, AcceptFlag, RefuseCommand, ExecuteFails, ExecuteCommand,
         RenderFails, Working
<1>4. Hang => Working(pc)
  BY DEF Hang, CommandHangs, RederivationHangs, Working
<1> QED
  BY <1>1, <1>2, <1>3, <1>4

\* An action that writes no bill.
LEMMA UnpaidKeepsCeiling ==
    ASSUME TypeInv, TypeInv', CeilingInv, Working(pc),
           EventsOf("cost.updated")' = EventsOf("cost.updated"), Extends
    PROVE  CeilingInv'
<1>1. \A i \in EventsOf("cost.updated")' : trace'[i] = trace[i] /\ ~OverCeiling(trace[i].n)
  BY TraceTyped DEF Extends, EventsOf, CeilingInv, UnderCeiling
<1>2. UnderCeiling' /\ NothingPastCeiling'
  BY <1>1 DEF UnderCeiling, NothingPastCeiling, OverCeiling
<1> QED
  BY <1>2 DEF CeilingInv

LEMMA QuietTypesKeepCeiling ==
    ASSUME TypeInv, TypeInv', CeilingInv, Working(pc), Extends,
           NEW types, WroteOnly(types), "cost.updated" \notin types
    PROVE  CeilingInv'
<1>1. trace \in Seq(TraceEvent) /\ trace' \in Seq(TraceEvent)
  BY DEF TypeInv, LoopTypeOK
<1>2. EventsOf("cost.updated")' = EventsOf("cost.updated")
  BY <1>1, EventsKept
<1> QED
  BY <1>2, UnpaidKeepsCeiling

LEMMA QuietEndKeepsCeiling ==
    ASSUME TypeInv, TypeInv', CeilingInv, Working(pc),
           NEW types, NEW outcome, Concludes(types, outcome), "cost.updated" \notin types
    PROVE  CeilingInv'
<1>1. trace \in Seq(TraceEvent) /\ trace' \in Seq(TraceEvent)
  BY DEF TypeInv, LoopTypeOK
<1>2. EventsOf("cost.updated")' = EventsOf("cost.updated")
  BY <1>1, ConcludedEvents
<1>3. Extends
  BY DEF Concludes
<1> QED
  BY <1>2, <1>3, UnpaidKeepsCeiling

\* The one bill that reaches the ceiling.
LEMMA CeilingKeepsCeiling ==
    ASSUME TypeInv, TypeInv', CeilingInv, NEW c \in CallCosts, CeilingReached(c)
    PROVE  CeilingInv'
<1> DEFINE T == {"budget.exhausted", "run.finished"}
           a == Event("cost.updated", step, NoSubject, "", cost')
           b == Event("budget.exhausted", step, NoSubject, "", cost')
           e == Event("run.finished", step, flag', "exhausted", cost')
<1>1. Extends /\ WroteCount(3) /\ Wrote(1, a) /\ Wrote(2, b) /\ Wrote(3, e)
  BY CeilingWrites
<1>2. pc = "llm" /\ pc' = "returned"
  BY DEF CeilingReached, Finish
<1>3. a.type = "cost.updated" /\ b.type = "budget.exhausted" /\ e.type = "run.finished"
  BY DEF Event
<1> HIDE DEF a, b, e
<1>4. Len(trace) \in Nat /\ Len(trace') = Len(trace) + 3
  BY <1>1, TraceTyped DEF WroteCount
<1>5. \A j \in Len(trace) + 2 .. Len(trace') : trace'[j].type \in T
  <2> SUFFICES ASSUME NEW j \in Len(trace) + 2 .. Len(trace') PROVE trace'[j].type \in T
    OBVIOUS
  <2>1. j = Len(trace) + 2 \/ j = Len(trace) + 3
    BY <1>4
  <2> QED
    BY <1>1, <1>3, <2>1 DEF Wrote
<1>6. ASSUME NEW i \in EventsOf("cost.updated")', OverCeiling(trace'[i].n),
             NEW j \in i + 1 .. Len(trace')
      PROVE  trace'[j].type \in T
  <2>1. i \in 1 .. Len(trace') /\ trace'[i].type = "cost.updated"
    <3>1. trace' \in Seq(TraceEvent)
      BY DEF TypeInv, LoopTypeOK
    <3> QED
      BY <3>1 DEF EventsOf
  <2>2. ~(i \in 1 .. Len(trace))
    <3> SUFFICES ASSUME i \in 1 .. Len(trace) PROVE FALSE
      OBVIOUS
    <3>1. trace'[i] = trace[i]
      BY <1>1 DEF Extends
    <3>2. i \in EventsOf("cost.updated")
      BY <2>1, <3>1, TraceTyped DEF EventsOf
    <3>3. UnderCeiling
      BY <1>2 DEF CeilingInv, Working
    <3> QED
      BY <1>6, <3>1, <3>2, <3>3 DEF UnderCeiling, OverCeiling
  <2>3. j \in Len(trace) + 2 .. Len(trace')
    BY <1>4, <2>1, <2>2
  <2> QED
    BY <1>5, <2>3
<1>7. NothingPastCeiling'
  BY <1>6 DEF NothingPastCeiling, OverCeiling
<1> QED
  BY <1>2, <1>7 DEF CeilingInv, Working

\* A completion that is acted upon left the bill under the ceiling.
LEMMA AnswerKeepsCeiling ==
    ASSUME TypeInv, TypeInv', CeilingInv, NEW c \in CallCosts,
           \/ Nudge(c)
           \/ \E primary \in Commands \cup {Submit}, extras \in 0 .. MaxExtras :
                 Propose(c, primary, extras)
    PROVE  CeilingInv'
<1> DEFINE a == Event("cost.updated", step, NoSubject, "", cost')
<1>1. /\ Extends /\ Wrote(1, a)
      /\ \A i \in Len(trace) + 2 .. Len(trace') : trace'[i].type # "cost.updated"
  BY AnswerTypes
<1>2. Working(pc) /\ ~OverCeiling(cost') /\ a.n = cost'
  BY DEF Nudge, Propose, Working, Event
<1> HIDE DEF a
<1>3. ASSUME NEW i \in EventsOf("cost.updated")' PROVE ~OverCeiling(trace'[i].n)
  <2>1. i \in 1 .. Len(trace') /\ trace'[i].type = "cost.updated"
    <3>1. trace' \in Seq(TraceEvent)
      BY DEF TypeInv, LoopTypeOK
    <3> QED
      BY <3>1 DEF EventsOf
  <2>2. CASE i \in 1 .. Len(trace)
    <3>1. trace'[i] = trace[i]
      BY <1>1, <2>2 DEF Extends
    <3>2. i \in EventsOf("cost.updated")
      BY <2>1, <2>2, <3>1, TraceTyped DEF EventsOf
    <3>3. UnderCeiling
      BY <1>2 DEF CeilingInv
    <3> QED
      BY <3>1, <3>2, <3>3 DEF UnderCeiling, OverCeiling
  <2>3. CASE ~(i \in 1 .. Len(trace))
    <3>1. i = Len(trace) + 1
      BY <1>1, <2>1, <2>3, TraceTyped
    <3>2. trace'[i] = a
      BY <1>1, <3>1 DEF Wrote
    <3> QED
      BY <1>2, <3>2 DEF OverCeiling
  <2> QED
    BY <2>2, <2>3
<1>4. UnderCeiling' /\ NothingPastCeiling'
  BY <1>3 DEF UnderCeiling, NothingPastCeiling, OverCeiling
<1> QED
  BY <1>4 DEF CeilingInv

LEMMA CeilingStep ==
    TypeInv /\ TypeInv' /\ TrackerTypeOK' /\ CeilingInv /\ [Next]_vars => CeilingInv'
<1> SUFFICES ASSUME TypeInv, TypeInv', TrackerTypeOK', CeilingInv, [Next]_vars
             PROVE  CeilingInv'
  OBVIOUS
<1> USE DEF PreludeTypes, JudgeTypes, CallTypes
<1>1. CASE UNCHANGED vars
  BY <1>1 DEF vars, loopVars, CeilingInv, UnderCeiling, NothingPastCeiling, EventsOf,
              OverCeiling, Working
<1>2. CASE Close \/ Die
  <2>1. trace' = trace /\ ~Working(pc')
    BY <1>2 DEF Close, FinishRun, RecordError, Die, Working
  <2> QED
    BY <2>1 DEF CeilingInv, NothingPastCeiling, EventsOf
<1>3. CASE Setup
  BY <1>3, ActionsWork, PreludeWrites, FailureConcludes, QuietTypesKeepCeiling,
     QuietEndKeepsCeiling DEF Setup
<1>4. CASE Turn
  <2>1. CASE BeginStep
    BY <1>4, <2>1, ActionsWork, BeginStepTypes, QuietTypesKeepCeiling
  <2>2. CASE CompactionFails \/ CredentialsRefused
    <3>1. PICK code : Escape(code, <<>>)
      BY <2>2 DEF CompactionFails, CredentialsRefused
    <3>2. Extends /\ WroteOnly({})
      BY <3>1, EscapeSilent
    <3> QED
      BY <1>4, <3>2, ActionsWork, QuietTypesKeepCeiling
  <2>3. CASE StepsExhausted \/ ProviderFails
    BY <1>4, <2>3, ActionsWork, FailureConcludes, QuietEndKeepsCeiling
  <2>4. ASSUME NEW c \in CallCosts,
               \/ CeilingReached(c)
               \/ Nudge(c)
               \/ \E primary \in Commands \cup {Submit}, extras \in 0 .. MaxExtras :
                     Propose(c, primary, extras)
        PROVE  CeilingInv'
    BY <2>4, CeilingKeepsCeiling, AnswerKeepsCeiling
  <2> QED
    BY <1>4, <2>1, <2>2, <2>3, <2>4 DEF Turn
<1>5. CASE Act
  <2>1. ASSUME NEW f \in Flags, NEW seq \in Citations, RejectFlag(f, seq) PROVE CeilingInv'
    BY <1>5, <2>1, ActionsWork, RejectTypes, QuietTypesKeepCeiling
  <2>2. ASSUME NEW f \in Flags, NEW seq \in Citations, AcceptFlag(f, seq) PROVE CeilingInv'
    BY <1>5, <2>2, ActionsWork, AcceptWrites, AcceptConcludes, QuietEndKeepsCeiling
  <2>3. ASSUME NEW c \in Commands, RefuseCommand(c) PROVE CeilingInv'
    BY <1>5, <2>3, ActionsWork, RefuseTypes, QuietTypesKeepCeiling
  <2>4. ASSUME NEW c \in Commands, NEW out \in ResultsOf(c), ExecuteCommand(c, out)
        PROVE  CeilingInv'
    BY <1>5, <2>4, ActionsWork, ExecuteTypes, QuietTypesKeepCeiling
  <2>5. ASSUME NEW c \in Commands,
               ExecuteFails(c) \/ \E out \in ResultsOf(c) : RenderFails(c, out)
        PROVE  CeilingInv'
    BY <1>5, <2>5, ActionsWork, FailedCallWrites, QuietTypesKeepCeiling
  <2> QED
    BY <1>5, <2>1, <2>2, <2>3, <2>4, <2>5 DEF Act
<1>6. CASE Hang
  BY <1>6, ActionsWork, HangWrites, QuietTypesKeepCeiling
<1> QED
  BY <1>1, <1>2, <1>3, <1>4, <1>5, <1>6 DEF Next

LEMMA CeilingInit == Init => CeilingInv
  BY DEF Init, CeilingInv, UnderCeiling, NothingPastCeiling, EventsOf

\* The two invariants every other one rests on.
LEMMA RunTypeInv == Spec => [](TypeInv /\ TrackerTypeOK)
<1>1. Spec => []TrackerTypeOK
  BY RunDrivesTracker, TrackerTyped, PTL
<1> QED
  BY <1>1, TypeInit, TypeStep, PTL DEF Spec

\* Once the bill in the trace reaches --max-cost, the run writes its end and
\* nothing else, whatever the ceiling, the prices and the tool calls.
THEOREM NothingFollowsCeiling == Spec => []NothingPastCeiling
<1>1. CeilingInv => NothingPastCeiling
  BY DEF CeilingInv
<1> QED
  BY RunTypeInv, CeilingInit, CeilingStep, <1>1, PTL DEF Spec
-----------------------------------------------------------------------------
(* Who writes what.  An event of a type can only come from the actions that    *)
(* write it.                                                                   *)

Same(type) == EventsOf(type)' = EventsOf(type)

LEMMA SilentSame ==
    ASSUME TypeInv, UNCHANGED trace
    PROVE  Extends /\ \A type : Same(type)
  BY TraceTyped DEF Extends, Same, EventsOf

LEMMA QuietSame ==
    ASSUME TypeInv, TypeInv', Extends, NEW types, WroteOnly(types),
           NEW type, type \notin types
    PROVE  Same(type)
<1>1. trace \in Seq(TraceEvent) /\ trace' \in Seq(TraceEvent)
  BY DEF TypeInv, LoopTypeOK
<1> QED
  BY <1>1, EventsKept DEF Same

LEMMA EndSame ==
    ASSUME TypeInv, TypeInv', NEW types, NEW outcome, Concludes(types, outcome),
           NEW type, type \notin types, type # "run.finished"
    PROVE  Same(type)
<1>1. trace \in Seq(TraceEvent) /\ trace' \in Seq(TraceEvent)
  BY DEF TypeInv, LoopTypeOK
<1> QED
  BY <1>1, ConcludedEvents DEF Same

\* The writers of each type.
Requests == BeginStep
Bills == \E c \in CallCosts :
            \/ CeilingReached(c) \/ Nudge(c)
            \/ \E primary \in Commands \cup {Submit}, extras \in 0 .. MaxExtras :
                  Propose(c, primary, extras)
Proposals == \E c \in CallCosts, primary \in Commands \cup {Submit},
                extras \in 0 .. MaxExtras : Propose(c, primary, extras)
Decisions == \E f \in Flags, seq \in Citations : RejectFlag(f, seq) \/ AcceptFlag(f, seq)
Refusals == \E c \in Commands : RefuseCommand(c)
Executions == \E c \in Commands : \E out \in ResultsOf(c) : ExecuteCommand(c, out)
Unrendered == \E c \in Commands : \E out \in ResultsOf(c) : RenderFails(c, out)

WriterTable ==
    /\ Requests \/ Same("llm.request")
    /\ Bills \/ Same("cost.updated")
    /\ Proposals \/ Executions \/ Unrendered \/ Same("tool.result")
    /\ Decisions \/ Same("flag.decision")
    /\ Refusals \/ Same("budget.blocked")
    /\ Executions \/ Same("progress.scored")
    /\ Refusals \/ Executions \/ Same("strategy.shift")
    /\ (pc' = "returned" /\ pc # "returned") \/ Same("run.finished")

LEMMA QuietTable ==
    ASSUME TypeInv, TypeInv', Extends, NEW types, WroteOnly(types),
           "run.finished" \notin types,
           Requests \/ "llm.request" \notin types,
           Bills \/ "cost.updated" \notin types,
           Proposals \/ Executions \/ Unrendered \/ "tool.result" \notin types,
           Decisions \/ "flag.decision" \notin types,
           Refusals \/ "budget.blocked" \notin types,
           Executions \/ "progress.scored" \notin types,
           Refusals \/ Executions \/ "strategy.shift" \notin types
    PROVE  WriterTable
  BY QuietSame DEF WriterTable

LEMMA EndTable ==
    ASSUME TypeInv, TypeInv', NEW types, NEW outcome, Concludes(types, outcome), Working(pc),
           "llm.request" \notin types, "tool.result" \notin types,
           "budget.blocked" \notin types, "progress.scored" \notin types,
           "strategy.shift" \notin types,
           Bills \/ "cost.updated" \notin types,
           Decisions \/ "flag.decision" \notin types
    PROVE  Extends /\ WriterTable
<1>1. Extends /\ pc' = "returned" /\ pc # "returned"
  BY DEF Concludes, Working
<1> QED
  BY <1>1, EndSame DEF WriterTable

LEMMA StepWrites ==
    ASSUME TypeInv, TypeInv', TrackerTypeOK', [Next]_vars
    PROVE  Extends /\ WriterTable
<1> USE DEF PreludeTypes, CeilingTypes, TurnTypes, JudgeTypes, CallTypes
<1>1. CASE UNCHANGED trace
  BY <1>1, SilentSame DEF WriterTable
<1>2. CASE Close \/ Die \/ UNCHANGED vars
  BY <1>1, <1>2 DEF Close, FinishRun, RecordError, Die, vars, loopVars
<1>3. CASE Setup
  BY <1>3, ActionsWork, PreludeWrites, FailureConcludes, QuietTable, EndTable DEF Setup
<1>4. CASE Turn
  <2>1. CASE BeginStep
    BY <2>1, BeginStepTypes, QuietTable DEF Requests
  <2>2. CASE CompactionFails \/ CredentialsRefused
    <3>1. PICK code : Escape(code, <<>>)
      BY <2>2 DEF CompactionFails, CredentialsRefused
    <3> QED
      BY <1>1, <3>1, EscapeSilent
  <2>3. CASE StepsExhausted \/ ProviderFails
    BY <1>4, <2>3, ActionsWork, FailureConcludes, EndTable
  <2>4. ASSUME NEW c \in CallCosts, CeilingReached(c) PROVE Extends /\ WriterTable
    <3>1. Bills
      BY <2>4 DEF Bills
    <3> QED
      BY <1>4, <2>4, <3>1, ActionsWork, CeilingConcludes, EndTable
  <2>5. ASSUME NEW c \in CallCosts, Nudge(c) PROVE Extends /\ WriterTable
    <3> DEFINE a == Event("cost.updated", step, NoSubject, "", cost')
               b == Event("llm.response", step, NoSubject, "", 0)
    <3>1. Extends /\ WroteCount(2) /\ Wrote(1, a) /\ Wrote(2, b)
      BY <2>5, NudgeWrites
    <3>t. a.type = "cost.updated" /\ b.type = "llm.response"
      BY DEF Event
    <3> HIDE DEF a, b
    <3>2. \A k \in 1 .. 2 : trace'[Len(trace) + k].type \in {"cost.updated", "llm.response"}
      BY <3>1, <3>t DEF Wrote
    <3>3. WroteOnly({"cost.updated", "llm.response"})
      BY <3>1, <3>2, WroteTypes
    <3>4. Bills
      BY <2>5 DEF Bills
    <3> QED
      BY <3>1, <3>3, <3>4, QuietTable
  <2>6. ASSUME NEW c \in CallCosts, NEW primary \in Commands \cup {Submit},
               NEW extras \in 0 .. MaxExtras, Propose(c, primary, extras)
        PROVE  Extends /\ WriterTable
    <3>1. Bills /\ Proposals
      BY <2>6 DEF Bills, Proposals
    <3> QED
      BY <2>6, <3>1, AnswerTypes, QuietTable
  <2> QED
    BY <1>4, <2>1, <2>2, <2>3, <2>4, <2>5, <2>6 DEF Turn
<1>5. CASE Act
  <2>1. ASSUME NEW f \in Flags, NEW seq \in Citations, RejectFlag(f, seq)
        PROVE  Extends /\ WriterTable
    <3>1. Decisions
      BY <2>1 DEF Decisions
    <3> QED
      BY <2>1, <3>1, RejectTypes, QuietTable
  <2>2. ASSUME NEW f \in Flags, NEW seq \in Citations, AcceptFlag(f, seq)
        PROVE  Extends /\ WriterTable
    <3>1. Decisions
      BY <2>2 DEF Decisions
    <3>2. \E outcome : Concludes(JudgeTypes, outcome)
      BY <2>2, AcceptWrites, AcceptConcludes
    <3> QED
      BY <1>5, <3>1, <3>2, ActionsWork, EndTable
  <2>3. ASSUME NEW c \in Commands, RefuseCommand(c) PROVE Extends /\ WriterTable
    <3>1. Refusals
      BY <2>3 DEF Refusals
    <3> QED
      BY <2>3, <3>1, RefuseTypes, QuietTable
  <2>4. ASSUME NEW c \in Commands, NEW out \in ResultsOf(c), ExecuteCommand(c, out)
        PROVE  Extends /\ WriterTable
    <3>1. Executions
      BY <2>4 DEF Executions
    <3> QED
      BY <2>4, <3>1, ExecuteTypes, QuietTable
  <2>5. ASSUME NEW c \in Commands, ExecuteFails(c) PROVE Extends /\ WriterTable
    BY <2>5, FailedCallWrites, QuietTable
  <2>6. ASSUME NEW c \in Commands, NEW out \in ResultsOf(c), RenderFails(c, out)
        PROVE  Extends /\ WriterTable
    <3>1. Unrendered
      BY <2>6 DEF Unrendered
    <3> QED
      BY <2>6, <3>1, FailedCallWrites, QuietTable
  <2> QED
    BY <1>5, <2>1, <2>2, <2>3, <2>4, <2>5, <2>6 DEF Act
<1>6. CASE Hang
  BY <1>6, HangWrites, QuietTable
<1> QED
  BY <1>2, <1>3, <1>4, <1>5, <1>6 DEF Next
-----------------------------------------------------------------------------
(* Evidence.  An observation is made where its tool.result is written, and no  *)
(* decision but a judge's is ever written.                                     *)

\* The policy is chosen once, and observations only accumulate: one at a time,
\* at the second event of the call.
LEMMA ObservationSteps ==
    ASSUME TypeInv, TypeInv', TrackerTypeOK', [Next]_vars
    PROVE  /\ UNCHANGED policy
           /\ \/ UNCHANGED observations
              \/ \E c \in Commands : \E out \in ResultsOf(c) :
                    /\ observations' = observations \cup {ObservationOf(c, out)}
                    /\ Len(trace') >= Len(trace) + 2
                    /\ Wrote(2, Event("tool.result", step, c, KindOf(c, out), 0))
<1> DEFINE Made(c, out) ==
             /\ observations' = observations \cup {ObservationOf(c, out)}
             /\ Len(trace') >= Len(trace) + 2
             /\ Wrote(2, Event("tool.result", step, c, KindOf(c, out), 0))
<1>0. Len(trace) \in Nat
  BY TraceTyped
<1>1. ASSUME NEW c \in Commands, NEW out \in ResultsOf(c), ExecuteCommand(c, out)
      PROVE  Made(c, out) /\ UNCHANGED policy
  <2>1. /\ WroteCount(3 + ShiftsDue)
        /\ Wrote(2, Event("tool.result", step, c, KindOf(c, out), 0))
    BY <1>1, ExecuteWrites
  <2>2. observations' = observations \cup {ObservationOf(c, out)} /\ UNCHANGED policy
    BY <1>1 DEF ExecuteCommand
  <2>3. Len(trace') >= Len(trace) + 2
    BY <1>0, <2>1 DEF WroteCount, ShiftsDue
  <2> QED
    BY <2>1, <2>2, <2>3
<1>2. ASSUME NEW c \in Commands, NEW out \in ResultsOf(c), RenderFails(c, out)
      PROVE  Made(c, out) /\ UNCHANGED policy
  <2>1. WroteCount(2) /\ Wrote(2, Event("tool.result", step, c, KindOf(c, out), 0))
    BY <1>2, FailedCallWrites
  <2>2. observations' = observations \cup {ObservationOf(c, out)} /\ UNCHANGED policy
    BY <1>2 DEF RenderFails
  <2>3. Len(trace') >= Len(trace) + 2
    BY <1>0, <2>1 DEF WroteCount
  <2> QED
    BY <2>1, <2>2, <2>3
<1> HIDE DEF Made
<1>3. CASE UNCHANGED vars
  BY <1>3 DEF vars, loopVars
<1>4. CASE Setup \/ Close \/ Die
  BY <1>4 DEF Setup, SandboxStartFails, Begin, InputsFail, Triage, TriageFails, Close,
              FinishRun, RecordError, Die
<1>5. CASE Turn
  BY <1>5 DEF Turn, BeginStep, CompactionFails, StepsExhausted, ProviderFails,
              CredentialsRefused, CeilingReached, Nudge, Propose
<1>6. CASE Act
  <2>1. ASSUME NEW f \in Flags, NEW seq \in Citations, RejectFlag(f, seq) \/ AcceptFlag(f, seq)
        PROVE  UNCHANGED <<policy, observations>>
    BY <2>1 DEF RejectFlag, AcceptFlag
  <2>2. ASSUME NEW c \in Commands, RefuseCommand(c) \/ ExecuteFails(c)
        PROVE  UNCHANGED <<policy, observations>>
    BY <2>2 DEF RefuseCommand, ExecuteFails
  <2>3. \/ UNCHANGED <<policy, observations>>
        \/ UNCHANGED policy /\ \E c \in Commands : \E out \in ResultsOf(c) : Made(c, out)
    BY <1>1, <1>2, <1>6, <2>1, <2>2 DEF Act
  <2> QED
    BY <2>3 DEF Made
<1>7. CASE Hang
  BY <1>7 DEF Hang, CommandHangs, RederivationHangs
<1> QED
  BY <1>3, <1>4, <1>5, <1>6, <1>7 DEF Next

LEMMA CitableInit == Init => ObservationsCitable
  BY DEF Init, ObservationsCitable

LEMMA CitableStep ==
    TypeInv /\ TypeInv' /\ TrackerTypeOK' /\ ObservationsCitable /\ [Next]_vars
      => ObservationsCitable'
<1> SUFFICES ASSUME TypeInv, TypeInv', TrackerTypeOK', ObservationsCitable, [Next]_vars
             PROVE  ObservationsCitable'
  OBVIOUS
<1>1. Extends
  BY StepWrites
<1>2. trace \in Seq(TraceEvent) /\ trace' \in Seq(TraceEvent) /\ Len(trace) \in Nat
  BY TraceTyped DEF TypeInv, LoopTypeOK
\* What was citable still is.
<1>3. \A o \in observations :
        /\ o.seq \in 1 .. Len(trace)
        /\ o.seq \in EventsOf("tool.result")'
        /\ trace'[o.seq].what \in Commands
        /\ o.command = CommandText[trace'[o.seq].what]
  <2> SUFFICES ASSUME NEW o \in observations
               PROVE  /\ o.seq \in 1 .. Len(trace)
                      /\ o.seq \in EventsOf("tool.result")'
                      /\ trace'[o.seq].what \in Commands
                      /\ o.command = CommandText[trace'[o.seq].what]
    OBVIOUS
  <2>1. /\ o.seq \in EventsOf("tool.result") /\ trace[o.seq].what \in Commands
        /\ o.command = CommandText[trace[o.seq].what]
    BY DEF ObservationsCitable
  <2>2. o.seq \in 1 .. Len(trace) /\ o.seq \in EventsOf("tool.result")'
    BY <1>1, <1>2, <2>1, EventsFinite, EventsAdded
  <2>3. trace'[o.seq] = trace[o.seq]
    BY <1>1, <2>2 DEF Extends
  <2> QED
    BY <2>1, <2>2, <2>3
<1>4. CASE UNCHANGED observations
  BY <1>3, <1>4 DEF ObservationsCitable
<1>5. ASSUME NEW c \in Commands, NEW out \in ResultsOf(c),
             observations' = observations \cup {ObservationOf(c, out)},
             Len(trace') >= Len(trace) + 2,
             Wrote(2, Event("tool.result", step, c, KindOf(c, out), 0))
      PROVE  ObservationsCitable'
  <2> DEFINE new == ObservationOf(c, out)
             e == Event("tool.result", step, c, KindOf(c, out), 0)
  <2>1. new.seq = Len(trace) + 2 /\ new.command = CommandText[c]
    BY DEF ObservationOf, Seq_
  <2>2. e.type = "tool.result" /\ e.what = c
    BY DEF Event
  <2>3. trace'[Len(trace) + 2] = e
    BY <1>5 DEF Wrote
  <2> HIDE DEF new, e
  <2>4. Len(trace) + 2 \in EventsOf("tool.result")'
    BY <1>2, <1>5, <2>2, <2>3 DEF EventsOf
  <2>5. observations' = observations \cup {new}
    BY <1>5 DEF new
  <2>6. \A o \in observations : o.seq # new.seq
    BY <1>2, <1>3, <2>1
  <2>7. ASSUME NEW o \in observations'
        PROVE  /\ o.seq \in EventsOf("tool.result")'
               /\ trace'[o.seq].what \in Commands
               /\ o.command = CommandText[trace'[o.seq].what]
    BY <1>3, <2>1, <2>2, <2>3, <2>4, <2>5
  <2>8. ASSUME NEW o \in observations', NEW p \in observations', p.seq = o.seq
        PROVE  p = o
    <3>1. CASE o \in observations /\ p \in observations
      BY <2>8, <3>1 DEF ObservationsCitable
    <3>2. CASE o = new \/ p = new
      BY <2>5, <2>6, <2>8, <3>2
    <3> QED
      BY <2>5, <3>1, <3>2
  <2> QED
    BY <2>7, <2>8 DEF ObservationsCitable
<1> QED
  BY <1>4, <1>5, ObservationSteps

\* Every output the agent can cite is where it was told it is: the cited seq is
\* that of the tool.result of the very command, and of no other observation.
THEOREM OutputsAreCitable == Spec => []ObservationsCitable
  BY RunTypeInv, CitableInit, CitableStep, PTL DEF Spec

-----------------------------------------------------------------------------
(* A flag is decided on evidence                                              *)

\* What DecidedOnEvidence asks of one decision.
Grounded(i) ==
    /\ \E j \in {i - 1, i - 2}, o \in observations :
          /\ trace[j].type = "flag.candidate" /\ trace[j].what = trace[i].what
          /\ o.seq = trace[j].n /\ o.seq < j
          /\ trace[o.seq].type = "tool.result"
          /\ EvidentIn(o.shows, trace[i].what)
          /\ ~AuthoredIn(trace[i].what, CommandText[trace[o.seq].what])
    /\ trace[i].note = "finalized" =>
          \/ policy = "auto"
          \/ /\ policy = "gated" /\ FormatOk(trace[i].what)
             /\ trace[i - 1].type = "flag.rederived"
             /\ trace[i - 1].note = "matched"

LEMMA DecidedIs ==
    DecidedOnEvidence <=>
       \A i \in EventsOf("flag.decision") : trace[i].note # "rejected" => Grounded(i)
  BY DEF DecidedOnEvidence, Grounded

\* Evidence does not go stale: events are not rewritten, observations stay.
LEMMA EvidenceKept ==
    ASSUME TypeInv, Extends, ObservationsCitable,
           observations \subseteq observations', UNCHANGED policy,
           NEW i \in EventsOf("flag.decision"), Grounded(i)
    PROVE  Grounded(i)'
<1>1. i \in 1 .. Len(trace) /\ Len(trace) \in Nat
  BY EventsFinite, TraceTyped
<1>2. PICK j \in {i - 1, i - 2}, o \in observations :
          /\ trace[j].type = "flag.candidate" /\ trace[j].what = trace[i].what
          /\ o.seq = trace[j].n /\ o.seq < j
          /\ trace[o.seq].type = "tool.result"
          /\ EvidentIn(o.shows, trace[i].what)
          /\ ~AuthoredIn(trace[i].what, CommandText[trace[o.seq].what])
  BY DEF Grounded
<1>3. o.seq \in 1 .. Len(trace)
  BY EventsFinite, TraceTyped DEF ObservationsCitable
<1>4. j \in 1 .. Len(trace) /\ i - 1 \in 1 .. Len(trace)
  BY <1>1, <1>2, <1>3
<1>5. /\ trace'[i] = trace[i] /\ trace'[j] = trace[j] /\ trace'[i - 1] = trace[i - 1]
      /\ trace'[o.seq] = trace[o.seq] /\ o \in observations'
  BY <1>1, <1>3, <1>4 DEF Extends
<1>6. trace[i].note = "finalized" =>
          \/ policy' = "auto"
          \/ /\ policy' = "gated" /\ FormatOk(trace[i].what)
             /\ trace[i - 1].type = "flag.rederived"
             /\ trace[i - 1].note = "matched"
  BY DEF Grounded
<1> QED
  BY <1>2, <1>5, <1>6 DEF Grounded

\* A rejection decides nothing, and is the only decision its action writes.
LEMMA RejectDecides ==
    ASSUME TypeInv, TypeInv', NEW f \in Flags, NEW seq \in Citations, RejectFlag(f, seq),
           NEW i \in EventsOf("flag.decision")'
    PROVE  i \in EventsOf("flag.decision") \/ trace'[i].note = "rejected"
<1> DEFINE d == Event("flag.decision", step, f, "rejected", 0)
<1>1. PICK at \in Nat :
         /\ Extends /\ WroteCount(2)
         /\ Wrote(1, Event("flag.candidate", step, f, "", at))
         /\ Wrote(2, d)
  BY RejectWrites
<1> DEFINE a == Event("flag.candidate", step, f, "", at)
<1>2. a.type = "flag.candidate" /\ d.note = "rejected"
  BY DEF Event
<1> HIDE DEF a, d
<1>3. trace \in Seq(TraceEvent) /\ trace' \in Seq(TraceEvent) /\ Len(trace) \in Nat
  BY TraceTyped DEF TypeInv, LoopTypeOK
<1>4. \/ i \in EventsOf("flag.decision")
      \/ i \in Len(trace) + 1 .. Len(trace') /\ trace'[i].type = "flag.decision"
  BY <1>1, <1>3, EventsAdded
<1>5. /\ Len(trace') = Len(trace) + 2
      /\ trace'[Len(trace) + 1] = a /\ trace'[Len(trace) + 2] = d
  BY <1>1 DEF Wrote, WroteCount, a
<1> QED
  BY <1>2, <1>3, <1>4, <1>5

\* An accepted flag has one decision more, and its evidence in front of it.
LEMMA AcceptDecides ==
    ASSUME TypeInv, TypeInv', ObservationsCitable, UNCHANGED <<policy, observations>>,
           NEW f \in Flags, NEW seq, NEW o, NEW rederived, Accepted(f, seq, o, rederived),
           NEW i \in EventsOf("flag.decision")'
    PROVE  i \in EventsOf("flag.decision") \/ Grounded(i)'
<1> DEFINE decision == PolicyDecision(policy, f, rederived)
           outcome  == IF decision = "finalized" THEN "solved" ELSE "candidate"
           n        == Judged(rederived)
           a == Event("flag.candidate", step, f, "", seq)
           b == Event("flag.rederived", step, f, rederived, seq)
           d == Event("flag.decision", step, f, decision, 0)
           e == Event("run.finished", step, f, outcome, cost')
           L == Len(trace)
<1>1. /\ o \in observations /\ ClearedBy(f, o, observations, seq)
      /\ Extends /\ WroteCount(n + 1) /\ Wrote(1, a) /\ Wrote(n, d) /\ Wrote(n + 1, e)
      /\ rederived # "notrun" => Wrote(2, b)
  BY DEF Accepted
<1>2. /\ a.type = "flag.candidate" /\ a.what = f /\ a.n = seq
      /\ b.type = "flag.rederived" /\ b.note = rederived
      /\ d.what = f /\ d.note = decision /\ e.type = "run.finished"
  BY DEF Event
<1>3. n \in {2, 3} /\ (n = 3 => rederived # "notrun") /\ (n = 2 => rederived = "notrun")
  BY DEF Judged
<1>4. decision = "finalized" =>
         policy = "auto" \/ (policy = "gated" /\ FormatOk(f) /\ rederived = "matched")
  <2>1. policy \in ApprovalPolicy
    BY LoopAssumption DEF TypeInv, LoopTypeOK
  <2> QED
    BY <2>1 DEF PolicyDecision, ApprovalPolicy
<1> HIDE DEF decision, outcome, n, a, b, d, e
<1>5. trace \in Seq(TraceEvent) /\ trace' \in Seq(TraceEvent) /\ L \in Nat
  BY TraceTyped DEF TypeInv, LoopTypeOK
<1>6. /\ Len(trace') = L + (n + 1) /\ trace'[L + 1] = a
      /\ trace'[L + n] = d /\ trace'[L + (n + 1)] = e
      /\ n = 3 => trace'[L + 2] = b
  BY <1>1, <1>3 DEF Wrote, WroteCount
<1>7. \/ i \in EventsOf("flag.decision")
      \/ i \in L + 1 .. Len(trace') /\ trace'[i].type = "flag.decision"
  BY <1>1, <1>5, EventsAdded
<1>8. SUFFICES ASSUME i \in L + 1 .. Len(trace'), trace'[i].type = "flag.decision"
               PROVE  Grounded(i)'
  BY <1>7
<1>9. i = L + n
  BY <1>2, <1>3, <1>5, <1>6, <1>8
\* The observation it cites.
<1>10. /\ o.seq = seq /\ EvidentIn(o.shows, f) /\ ~AuthoredIn(f, o.command)
  BY <1>1 DEF ClearedBy, Cited, Supporting
<1>11. /\ o.seq \in 1 .. L /\ trace[o.seq].type = "tool.result"
       /\ o.command = CommandText[trace[o.seq].what]
  BY <1>1, <1>5, EventsFinite DEF ObservationsCitable, EventsOf
<1>12. trace'[o.seq] = trace[o.seq] /\ o \in observations'
  BY <1>1, <1>11 DEF Extends
<1> DEFINE j == L + 1
<1>13. j \in {i - 1, i - 2} /\ o.seq < j /\ trace'[j] = a
  BY <1>3, <1>5, <1>6, <1>9, <1>11
<1>14. trace'[i] = d
  BY <1>6, <1>9
<1>15. \E k \in {i - 1, i - 2}, p \in observations' :
          /\ trace'[k].type = "flag.candidate" /\ trace'[k].what = trace'[i].what
          /\ p.seq = trace'[k].n /\ p.seq < k
          /\ trace'[p.seq].type = "tool.result"
          /\ EvidentIn(p.shows, trace'[i].what)
          /\ ~AuthoredIn(trace'[i].what, CommandText[trace'[p.seq].what])
  <2> HIDE DEF j
  <2> USE <1>12, <1>13
  <2> WITNESS j \in {i - 1, i - 2}, o \in observations'
  <2> QED
    BY <1>2, <1>10, <1>11, <1>12, <1>13, <1>14
<1>16. trace'[i].note = "finalized" =>
          \/ policy' = "auto"
          \/ /\ policy' = "gated" /\ FormatOk(trace'[i].what)
             /\ trace'[i - 1].type = "flag.rederived"
             /\ trace'[i - 1].note = "matched"
  <2> SUFFICES ASSUME decision = "finalized", policy # "auto"
               PROVE  /\ policy = "gated" /\ FormatOk(f)
                      /\ trace'[i - 1].type = "flag.rederived"
                      /\ trace'[i - 1].note = "matched"
    BY <1>2, <1>14
  <2>1. policy = "gated" /\ FormatOk(f) /\ rederived = "matched"
    BY <1>4
  <2>2. n = 3 /\ i - 1 = L + 2
    BY <1>3, <1>5, <1>9, <2>1
  <2> QED
    BY <1>2, <1>6, <2>1, <2>2
<1> QED
  BY <1>15, <1>16 DEF Grounded

LEMMA EvidenceStep ==
    TypeInv /\ TypeInv' /\ TrackerTypeOK' /\ ObservationsCitable /\ DecidedOnEvidence
      /\ [Next]_vars => DecidedOnEvidence'
<1> SUFFICES ASSUME TypeInv, TypeInv', TrackerTypeOK', ObservationsCitable,
                    DecidedOnEvidence, [Next]_vars
             PROVE  DecidedOnEvidence'
  OBVIOUS
<1>1. Extends /\ WriterTable
  BY StepWrites
<1>2. observations \subseteq observations' /\ UNCHANGED policy
  BY ObservationSteps
<1>3. \A i \in EventsOf("flag.decision") :
        trace[i].note # "rejected" => Grounded(i)
  BY DecidedIs
<1>4. \A i \in EventsOf("flag.decision") : trace'[i] = trace[i]
  BY <1>1, EventsFinite, TraceTyped DEF Extends
<1>5. ASSUME NEW i \in EventsOf("flag.decision"), trace'[i].note # "rejected"
      PROVE  Grounded(i)'
  <2>1. Grounded(i)
    BY <1>3, <1>4, <1>5
  <2> QED
    BY <1>1, <1>2, <2>1, EvidenceKept
<1>6. ASSUME NEW i \in EventsOf("flag.decision")', trace'[i].note # "rejected"
      PROVE  Grounded(i)'
  <2>1. CASE Same("flag.decision")
    BY <1>5, <1>6, <2>1 DEF Same
  <2>2. ASSUME NEW f \in Flags, NEW seq \in Citations, RejectFlag(f, seq)
        PROVE  Grounded(i)'
    BY <1>5, <1>6, <2>2, RejectDecides
  <2>3. ASSUME NEW f \in Flags, NEW seq \in Citations, AcceptFlag(f, seq)
        PROVE  Grounded(i)'
    <3>1. PICK o \in observations : \E rederived \in Rederivations(o) :
             Accepted(f, seq, o, rederived)
      BY <2>3, AcceptWrites
    <3>2. PICK rederived \in Rederivations(o) : Accepted(f, seq, o, rederived)
      BY <3>1
    <3>3. UNCHANGED <<policy, observations>>
      BY <2>3 DEF AcceptFlag
    <3>4. i \in EventsOf("flag.decision") \/ Grounded(i)'
      BY <3>2, <3>3, AcceptDecides
    <3> QED
      BY <1>5, <1>6, <3>4
  <2> QED
    BY <1>1, <2>1, <2>2, <2>3 DEF WriterTable, Decisions
<1>7. (\A i \in EventsOf("flag.decision") : trace[i].note # "rejected" => Grounded(i))'
  BY <1>6
<1>8. DecidedOnEvidence' <=>
        (\A i \in EventsOf("flag.decision") : trace[i].note # "rejected" => Grounded(i))'
  BY DEF DecidedOnEvidence, Grounded
<1> QED
  BY <1>7, <1>8

LEMMA EvidenceInit == Init => DecidedOnEvidence
  BY DEF Init, DecidedOnEvidence, EventsOf

\* A flag is claimed, or held for a human, only on an output of this run that
\* carries it and that the agent did not write into the command; `gated` claims
\* it only re-derived and well formed, `strict` never.
THEOREM FlagsNeedEvidence == Spec => []DecidedOnEvidence
  BY RunTypeInv, OutputsAreCitable, EvidenceInit, EvidenceStep, PTL DEF Spec
-----------------------------------------------------------------------------
(* run.json and the trace                                                     *)

\* The requests in the trace are the steps; the last bill in it is the cost.
Counted == step = Cardinality(EventsOf("llm.request"))
Billed(amount) ==
    \E i \in EventsOf("cost.updated") \cup {0} :
       /\ \A j \in EventsOf("cost.updated") : j <= i
       /\ amount = IF i = 0 THEN 0 ELSE trace[i].n

\* The decisions that claim a flag, or hold it.
Claims(f) == \E i \in EventsOf("flag.decision") :
                trace[i].note # "rejected" /\ trace[i].what = f

\* Nothing is settled: no end, no claim, no flag.
Unsettled ==
    /\ EventsOf("run.finished") = {}
    /\ \A i \in EventsOf("flag.decision") : trace[i].note = "rejected"
    /\ flag = NoSubject

\* The trace ends with the outcome and the flag, and says why.
Told(outcome, f) ==
    /\ EventsOf("run.finished") = {Len(trace)}
    /\ trace[Len(trace)].note = outcome
    /\ trace[Len(trace)].what = f
    /\ outcome \in {"solved", "candidate"} <=> Claims(f)
    /\ outcome # "none"

\* The story at each place of the run.  A run that escapes has counted a step
\* whose request was never sent, when it was the summarizer that failed.
RunStory ==
    /\ Working(pc) => Unsettled
    /\ Working(pc) \/ pc = "returned" => Counted /\ Billed(cost)
    /\ pc = "returned" => Told(ended.outcome, flag)
    /\ pc = "escaped" => EventsOf("run.finished") = {} /\ ended.outcome = "error"
    /\ manifest.outcome = "none" <=> pc # "done"
    /\ ManifestMatchesTrace

LEMMA StoryOfWork ==
    ASSUME RunStory, Working(pc), Working(pc'), Same("run.finished"),
           UNCHANGED <<flag, manifest>>, Counted', Billed(cost)',
           \A i \in EventsOf("flag.decision")' : trace'[i].note = "rejected"
    PROVE  RunStory'
<1>1. pc # "done" /\ pc' \notin {"returned", "escaped", "done"}
  BY DEF Working
<1>2. manifest.outcome = "none" /\ Unsettled
  BY <1>1 DEF RunStory
<1>3. Unsettled'
  BY <1>2 DEF Unsettled, Same
<1>4. ManifestMatchesTrace' /\ manifest'.outcome = "none"
  BY <1>1, <1>2 DEF ManifestMatchesTrace
<1> QED
  BY <1>1, <1>3, <1>4 DEF RunStory

LEMMA StoryOfEnd ==
    ASSUME RunStory, Working(pc), pc' = "returned", UNCHANGED manifest,
           Counted', Billed(cost)', Told(ended.outcome, flag)'
    PROVE  RunStory'
<1>1. pc # "done" /\ ~Working(pc')
  BY DEF Working
<1>2. manifest.outcome = "none"
  BY <1>1 DEF RunStory
<1>3. ManifestMatchesTrace' /\ manifest'.outcome = "none"
  BY <1>2 DEF ManifestMatchesTrace
<1> QED
  BY <1>1, <1>3 DEF RunStory

LEMMA StoryOfEscape ==
    ASSUME RunStory, Working(pc), pc' = "escaped", UNCHANGED manifest,
           ended'.outcome = "error", Same("run.finished")
    PROVE  RunStory'
<1>1. pc # "done" /\ ~Working(pc')
  BY DEF Working
<1>2. manifest.outcome = "none" /\ EventsOf("run.finished") = {}
  BY <1>1 DEF RunStory, Unsettled
<1>3. ManifestMatchesTrace' /\ manifest'.outcome = "none"
  BY <1>2 DEF ManifestMatchesTrace
<1> QED
  BY <1>1, <1>2, <1>3 DEF RunStory, Same

LEMMA CountKept ==
    ASSUME Counted, Same("llm.request"), UNCHANGED step PROVE Counted'
  BY DEF Counted, Same

LEMMA BillKept ==
    ASSUME TypeInv, Extends, Billed(cost), Same("cost.updated"), UNCHANGED cost
    PROVE  Billed(cost)'
<1>1. PICK i \in EventsOf("cost.updated") \cup {0} :
         /\ \A j \in EventsOf("cost.updated") : j <= i
         /\ cost = IF i = 0 THEN 0 ELSE trace[i].n
  BY DEF Billed
<1>2. i # 0 => trace'[i] = trace[i]
  BY <1>1, EventsFinite, TraceTyped DEF Extends
<1> QED
  BY <1>1, <1>2 DEF Billed, Same

LEMMA EventsNext ==
    ASSUME trace' \in Seq(TraceEvent), NEW type, NEW i
    PROVE  i \in EventsOf(type)' <=> i \in 1 .. Len(trace') /\ trace'[i].type = type
  BY DEF EventsOf

\* A bill is the last one when no other follows it in its action.
LEMMA BillWritten ==
    ASSUME TypeInv, TypeInv', Extends, Len(trace') > Len(trace),
           trace'[Len(trace) + 1].type = "cost.updated", trace'[Len(trace) + 1].n = cost',
           \A i \in Len(trace) + 2 .. Len(trace') : trace'[i].type # "cost.updated"
    PROVE  Billed(cost)'
<1> DEFINE at == Len(trace) + 1
<1>1. trace' \in Seq(TraceEvent) /\ Len(trace) \in Nat
  BY TraceTyped DEF TypeInv, LoopTypeOK
<1>2. at \in EventsOf("cost.updated")' /\ at # 0
  <2>1. at \in 1 .. Len(trace')
    BY <1>1
  <2> QED
    BY <1>1, <2>1, EventsNext
<1>3. ASSUME NEW j \in EventsOf("cost.updated")' PROVE j <= at
  <2>1. j \in 1 .. Len(trace') /\ trace'[j].type = "cost.updated"
    BY <1>1, EventsNext
  <2> QED
    BY <1>1, <2>1
<1>4. cost' = IF at = 0 THEN 0 ELSE trace'[at].n
  BY <1>2
<1> HIDE DEF at
<1> QED
  BY <1>2, <1>3, <1>4 DEF Billed

LEMMA VerdictsKept ==
    ASSUME TypeInv, Extends, Same("flag.decision"),
           \A i \in EventsOf("flag.decision") : trace[i].note = "rejected"
    PROVE  \A i \in EventsOf("flag.decision")' : trace'[i].note = "rejected"
<1>1. \A i \in EventsOf("flag.decision") : trace'[i] = trace[i]
  BY EventsFinite, TraceTyped DEF Extends
<1> QED
  BY <1>1 DEF Same

\* An end without a judge names no flag.
LEMMA QuietEndTold ==
    ASSUME TypeInv, TypeInv', Unsettled, UNCHANGED flag,
           NEW outcome \in {"exhausted", "error"}, NEW types, Concludes(types, outcome),
           "flag.decision" \notin types, "run.finished" \notin types
    PROVE  Told(ended.outcome, flag)'
<1> DEFINE e == Event("run.finished", step, flag', outcome, cost')
<1>1. e.note = outcome /\ e.what = flag'
  BY DEF Event
<1>2. Extends /\ trace'[Len(trace')] = e /\ ended'.outcome = outcome
  BY DEF Concludes
<1> HIDE DEF e
<1>3. trace \in Seq(TraceEvent) /\ trace' \in Seq(TraceEvent)
  BY DEF TypeInv, LoopTypeOK
<1>4. EventsOf("run.finished")' = EventsOf("run.finished") \cup {Len(trace')}
  BY <1>3, ConcludedEvents
<1>5. Same("flag.decision")
  BY EndSame
<1>6. \A i \in EventsOf("flag.decision")' : trace'[i].note = "rejected"
  BY <1>2, <1>5, VerdictsKept DEF Unsettled
<1>7. ~Claims(flag)'
  BY <1>6 DEF Claims
<1> QED
  BY <1>1, <1>2, <1>4, <1>7 DEF Told, Unsettled

\* An accepted flag is the one the end names, and its decision claims it.
LEMMA AcceptTold ==
    ASSUME TypeInv, TypeInv', Unsettled, NEW f \in Flags, NEW seq \in Citations,
           AcceptFlag(f, seq)
    PROVE  Told(ended.outcome, flag)'
<1>1. PICK o \in observations : \E rederived \in Rederivations(o) :
         Accepted(f, seq, o, rederived)
  BY AcceptWrites
<1>2. PICK rederived \in Rederivations(o) : Accepted(f, seq, o, rederived)
  BY <1>1
<1> DEFINE decision == PolicyDecision(policy, f, rederived)
           outcome  == IF decision = "finalized" THEN "solved" ELSE "candidate"
           n        == Judged(rederived)
           d == Event("flag.decision", step, f, decision, 0)
           e == Event("run.finished", step, f, outcome, cost')
           L == Len(trace)
<1>3. /\ Extends /\ WroteCount(n + 1) /\ Wrote(n, d) /\ Wrote(n + 1, e)
      /\ ended'.outcome = outcome
  BY <1>2 DEF Accepted
<1>4. Concludes(JudgeTypes, outcome)
  BY <1>2, AcceptConcludes
<1>5. /\ d.type = "flag.decision" /\ d.what = f /\ d.note = decision
      /\ e.type = "run.finished" /\ e.what = f /\ e.note = outcome
  BY DEF Event
<1>6. decision # "rejected" /\ outcome \in {"solved", "candidate"} /\ n \in {2, 3}
  BY DEF PolicyDecision, Judged
<1>7. flag' = f
  BY DEF AcceptFlag
<1> HIDE DEF decision, outcome, n, d, e
<1>8. trace \in Seq(TraceEvent) /\ trace' \in Seq(TraceEvent) /\ L \in Nat
  BY TraceTyped DEF TypeInv, LoopTypeOK
<1>9. Len(trace') = L + (n + 1) /\ trace'[L + n] = d /\ trace'[L + (n + 1)] = e
  BY <1>3 DEF Wrote, WroteCount
<1>10. EventsOf("run.finished")' = {Len(trace')}
  <2>1. EventsOf("run.finished")' = EventsOf("run.finished") \cup {Len(trace')}
    BY <1>4, <1>8, ConcludedEvents DEF JudgeTypes
  <2> QED
    BY <2>1 DEF Unsettled
<1>11. L + n \in EventsOf("flag.decision")'
  BY <1>5, <1>6, <1>8, <1>9 DEF EventsOf
<1>12. Claims(flag)'
  BY <1>5, <1>6, <1>7, <1>9, <1>11 DEF Claims
<1>13. trace'[Len(trace')] = e
  BY <1>9
<1> QED
  BY <1>3, <1>5, <1>6, <1>7, <1>10, <1>12, <1>13 DEF Told

\* The request is counted when it is sent.
LEMMA RequestCounted ==
    ASSUME TypeInv, TypeInv', Counted, BeginStep
    PROVE  Counted'
<1> DEFINE e == Event("llm.request", step', NoSubject, "", Len(history'))
           at == Len(trace) + 1
<1>1. Extends /\ WroteCount(1) /\ Wrote(1, e)
  BY BeginStepWrites
<1>2. e.type = "llm.request"
  BY DEF Event
<1> HIDE DEF e
<1>3. trace \in Seq(TraceEvent) /\ trace' \in Seq(TraceEvent) /\ Len(trace) \in Nat
  BY TraceTyped DEF TypeInv, LoopTypeOK
<1>4. Len(trace') = at /\ trace'[at] = e
  BY <1>1 DEF Wrote, WroteCount
<1>5. {i \in at .. Len(trace') : trace'[i].type = "llm.request"} = {at}
  BY <1>2, <1>3, <1>4
<1>6. EventsOf("llm.request")' = EventsOf("llm.request") \cup {at}
  BY <1>1, <1>3, <1>5, EventsAdded
<1>7. at \notin EventsOf("llm.request")
  BY <1>3, EventsFinite
<1> HIDE DEF at
<1>8. Cardinality(EventsOf("llm.request")') = Cardinality(EventsOf("llm.request")) + 1
  BY <1>3, <1>6, <1>7, EventsFinite, FS_AddElement
<1>9. step' = step + 1
  BY DEF BeginStep
<1> QED
  BY <1>8, <1>9 DEF Counted

\* The completion is billed.
LEMMA AnswerBilled ==
    ASSUME TypeInv, TypeInv', NEW c \in CallCosts,
           \/ Nudge(c)
           \/ \E primary \in Commands \cup {Submit}, extras \in 0 .. MaxExtras :
                 Propose(c, primary, extras)
    PROVE  Billed(cost)'
<1> DEFINE e == Event("cost.updated", step, NoSubject, "", cost')
<1>1. /\ Extends /\ Wrote(1, e) /\ Len(trace') > Len(trace)
      /\ \A i \in Len(trace) + 2 .. Len(trace') : trace'[i].type # "cost.updated"
  BY AnswerTypes
<1>2. e.type = "cost.updated" /\ e.n = cost'
  BY DEF Event
<1> HIDE DEF e
<1>3. trace'[Len(trace) + 1] = e
  BY <1>1 DEF Wrote
<1> QED
  BY <1>1, <1>2, <1>3, BillWritten

LEMMA CeilingBilled ==
    ASSUME TypeInv, TypeInv', NEW c \in CallCosts, CeilingReached(c)
    PROVE  Billed(cost)'
<1> DEFINE a == Event("cost.updated", step, NoSubject, "", cost')
           b == Event("budget.exhausted", step, NoSubject, "", cost')
           e == Event("run.finished", step, flag', "exhausted", cost')
<1>1. Extends /\ WroteCount(3) /\ Wrote(1, a) /\ Wrote(2, b) /\ Wrote(3, e)
  BY CeilingWrites
<1>2. /\ a.type = "cost.updated" /\ a.n = cost'
      /\ b.type # "cost.updated" /\ e.type # "cost.updated"
  BY DEF Event
<1> HIDE DEF a, b, e
<1>3. Len(trace) \in Nat
  BY TraceTyped
<1>4. /\ Len(trace') = Len(trace) + 3 /\ trace'[Len(trace) + 1] = a
      /\ trace'[Len(trace) + 2] = b /\ trace'[Len(trace) + 3] = e
  BY <1>1 DEF Wrote, WroteCount
<1>5. \A i \in Len(trace) + 2 .. Len(trace') : trace'[i].type # "cost.updated"
  <2>1. \A i \in Len(trace) + 2 .. Len(trace') : i = Len(trace) + 2 \/ i = Len(trace) + 3
    BY <1>3, <1>4
  <2> QED
    BY <1>2, <1>4, <2>1
<1>6. Len(trace') > Len(trace)
  BY <1>3, <1>4
<1> QED
  BY <1>1, <1>2, <1>4, <1>5, <1>6, BillWritten

\* A rejection that stood still stands.
LEMMA VerdictStays ==
    ASSUME TypeInv, Extends, NEW i \in EventsOf("flag.decision"), trace[i].note = "rejected"
    PROVE  trace'[i].note = "rejected"
  BY EventsFinite, TraceTyped DEF Extends

\* run.json is written once, from what the run returned or from its error.
LEMMA CloseTells == ASSUME TypeInv, RunStory, Close \/ Die PROVE RunStory'
<1> USE DEF Working
<1>1. trace' = trace /\ UNCHANGED <<ended, flag, cost, step>>
  BY DEF Close, FinishRun, RecordError, Die
<1>2. CASE Die
  <2>1. pc # "done" /\ pc' = "dead" /\ manifest' = manifest
    BY <1>2 DEF Die
  <2> QED
    BY <1>1, <2>1 DEF RunStory, ManifestMatchesTrace
<1>3. CASE RecordError
  <2>1. pc = "escaped" /\ pc' = "done" /\ manifest'.outcome = "error"
    BY <1>3 DEF RecordError
  <2>2. EventsOf("run.finished")' = {}
    BY <1>1, <2>1 DEF RunStory, EventsOf
  <2> QED
    BY <2>1, <2>2 DEF RunStory, ManifestMatchesTrace
<1>4. CASE FinishRun
  <2>1. /\ pc = "returned" /\ pc' = "done"
        /\ manifest'.outcome = ended.outcome /\ manifest'.flag = flag
        /\ manifest'.cost = cost /\ manifest'.steps = step
    BY <1>4 DEF FinishRun
  <2>2. Told(ended.outcome, flag) /\ Counted /\ Billed(cost)
    BY <2>1 DEF RunStory
  <2>3. /\ Told(manifest'.outcome, manifest'.flag)
        /\ manifest'.steps = Cardinality(EventsOf("llm.request"))
        /\ Billed(manifest'.cost)
    BY <2>1, <2>2 DEF Counted
  <2>4. \A type : EventsOf(type)' = EventsOf(type)
    BY <1>1 DEF EventsOf
  <2>5. ManifestMatchesTrace' /\ manifest'.outcome # "none"
    BY <1>1, <2>1, <2>3, <2>4 DEF ManifestMatchesTrace, Told, Billed, Claims
  <2> QED
    BY <2>1, <2>5 DEF RunStory
<1> QED
  BY <1>2, <1>3, <1>4 DEF Close

\* What an action leaves alone of the accounts.
LEMMA AccountsKept ==
    ASSUME TypeInv, Extends, RunStory, Working(pc), WriterTable, UNCHANGED <<step, cost>>,
           ~Bills, ~Requests
    PROVE  Counted' /\ Billed(cost)'
<1>1. Counted /\ Billed(cost) /\ Same("llm.request") /\ Same("cost.updated")
  BY DEF RunStory, WriterTable
<1> QED
  BY <1>1, CountKept, BillKept

\* The places of the run.
LEMMA WherePaid ==
    /\ Requests => pc = "step" /\ pc' = "llm"
    /\ Bills => pc = "llm" /\ pc' # "llm"
    /\ Decisions => pc = "act" /\ call = Submit
  BY DEF Requests, Bills, Decisions, BeginStep, CeilingReached, Nudge, Propose,
         RejectFlag, AcceptFlag, Finish

LEMMA StoryStep ==
    TypeInv /\ TypeInv' /\ TrackerTypeOK' /\ RunStory /\ [Next]_vars => RunStory'
<1> SUFFICES ASSUME TypeInv, TypeInv', TrackerTypeOK', RunStory, [Next]_vars
             PROVE  RunStory'
  OBVIOUS
<1>1. Extends /\ WriterTable
  BY StepWrites
<1>2. CASE UNCHANGED vars
  BY <1>2 DEF vars, loopVars, RunStory, Working, Unsettled, Counted, Billed, Told, Claims,
              ManifestMatchesTrace, EventsOf
<1>3. CASE Close \/ Die
  BY <1>3, CloseTells
<1>4. CASE Setup \/ Turn \/ Act
  <2>1. Working(pc)
    BY <1>4, ActionsWork
  <2>2. Unsettled /\ Counted /\ Billed(cost)
    BY <2>1 DEF RunStory
  <2>3. pc' # "returned" => Same("run.finished")
    BY <1>1 DEF WriterTable
  <2>4. ~Decisions => \A i \in EventsOf("flag.decision")' : trace'[i].note = "rejected"
    BY <1>1, <2>2, VerdictsKept DEF WriterTable, Unsettled
\* The ways out.
  <2>5. CASE SandboxStartFails \/ TriageFails \/ CompactionFails \/ CredentialsRefused
               \/ \E c \in Commands : \/ ExecuteFails(c)
                                      \/ \E out \in ResultsOf(c) : RenderFails(c, out)
    <3>1. pc' = "escaped" /\ ended'.outcome = "error" /\ UNCHANGED manifest
      <4>1. \A code, events : Escape(code, events) =>
                                  pc' = "escaped" /\ ended'.outcome = "error"
        BY DEF Escape
      <4>2. CASE SandboxStartFails \/ TriageFails \/ CredentialsRefused
        BY <4>1, <4>2 DEF SandboxStartFails, TriageFails, CredentialsRefused
      <4>3. CASE CompactionFails
        BY <4>1, <4>3 DEF CompactionFails
      <4>4. ASSUME NEW c \in Commands, ExecuteFails(c)
            PROVE  pc' = "escaped" /\ ended'.outcome = "error" /\ UNCHANGED manifest
        BY <4>1, <4>4 DEF ExecuteFails
      <4>5. ASSUME NEW c \in Commands, NEW out \in ResultsOf(c), RenderFails(c, out)
            PROVE  pc' = "escaped" /\ ended'.outcome = "error" /\ UNCHANGED manifest
        BY <4>1, <4>5 DEF RenderFails
      <4> QED
        BY <2>5, <4>2, <4>3, <4>4, <4>5
    <3> QED
      BY <2>1, <2>3, <3>1, StoryOfEscape
  <2>6. CASE InputsFail \/ StepsExhausted \/ ProviderFails
    <3>1. /\ pc' = "returned" /\ UNCHANGED <<step, cost, flag, manifest>>
          /\ pc # "act" /\ ~Requests
      BY <2>6, WherePaid DEF InputsFail, StepsExhausted, ProviderFails, Finish
    <3>2. PICK outcome \in {"error", "exhausted"} : Concludes(PreludeTypes, outcome)
      BY <2>6, FailureConcludes
    <3>3. trace \in Seq(TraceEvent) /\ trace' \in Seq(TraceEvent)
      BY DEF TypeInv, LoopTypeOK
    <3>4. Counted' /\ Billed(cost)'
      <4>1. Same("cost.updated") /\ Same("llm.request")
        BY <3>2, EndSame DEF PreludeTypes
      <4> QED
        BY <1>1, <2>2, <3>1, <4>1, CountKept, BillKept
    <3>5. Told(ended.outcome, flag)'
      BY <2>2, <3>1, <3>2, QuietEndTold DEF PreludeTypes
    <3> QED
      BY <2>1, <3>1, <3>4, <3>5, StoryOfEnd
  <2>7. ASSUME NEW c \in CallCosts, CeilingReached(c) PROVE RunStory'
    <3>1. /\ pc' = "returned" /\ UNCHANGED <<step, flag, manifest>> /\ ~Requests
      BY <2>7, WherePaid DEF CeilingReached, Finish
    <3>2. Concludes(CeilingTypes, "exhausted")
      BY <2>7, CeilingConcludes
    <3>3. Told(ended.outcome, flag)'
      BY <2>2, <3>1, <3>2, QuietEndTold DEF CeilingTypes
    <3>4. Counted'
      BY <1>1, <2>2, <3>1, CountKept DEF WriterTable
    <3>5. Billed(cost)'
      BY <2>7, CeilingBilled
    <3> QED
      BY <2>1, <3>1, <3>3, <3>4, <3>5, StoryOfEnd
  <2>8. ASSUME NEW f \in Flags, NEW seq \in Citations, AcceptFlag(f, seq) PROVE RunStory'
    <3>1. pc' = "returned" /\ UNCHANGED <<step, cost, manifest>> /\ ~Requests /\ ~Bills
      BY <2>8, WherePaid DEF AcceptFlag, Finish
    <3>2. Told(ended.outcome, flag)'
      BY <2>2, <2>8, AcceptTold
    <3> QED
      BY <1>1, <2>1, <3>1, <3>2, AccountsKept, StoryOfEnd
\* The ways on.
  <2>9. CASE BeginStep
    <3>1. /\ pc' = "llm" /\ step' = step + 1 /\ UNCHANGED <<cost, flag, manifest>>
          /\ ~Bills /\ ~Decisions
      BY <2>9, WherePaid DEF BeginStep
    <3>2. Counted'
      BY <2>2, <2>9, RequestCounted
    <3>3. Billed(cost)'
      BY <1>1, <2>2, <3>1, BillKept DEF WriterTable
    <3> QED
      BY <2>1, <2>3, <2>4, <3>1, <3>2, <3>3, StoryOfWork DEF Working
  <2>10. ASSUME NEW c \in CallCosts,
                \/ Nudge(c)
                \/ \E primary \in Commands \cup {Submit}, extras \in 0 .. MaxExtras :
                      Propose(c, primary, extras)
         PROVE  RunStory'
    <3>1. /\ pc' \in {"step", "act"} /\ UNCHANGED <<step, flag, manifest>>
          /\ ~Requests /\ ~Decisions
      BY <2>10, WherePaid DEF Nudge, Propose
    <3>2. Counted'
      BY <1>1, <2>2, <3>1, CountKept DEF WriterTable
    <3>3. Billed(cost)'
      BY <2>10, AnswerBilled
    <3> QED
      BY <2>1, <2>3, <2>4, <3>1, <3>2, <3>3, StoryOfWork DEF Working
  <2>11. ASSUME NEW f \in Flags, NEW seq \in Citations, RejectFlag(f, seq) PROVE RunStory'
    <3>1. /\ pc' = "step" /\ UNCHANGED <<step, cost, flag, manifest>> /\ ~Requests /\ ~Bills
      BY <2>11, WherePaid DEF RejectFlag
    <3>2. \A i \in EventsOf("flag.decision")' : trace'[i].note = "rejected"
      BY <1>1, <2>2, <2>11, RejectDecides, VerdictStays DEF Unsettled
    <3> QED
      BY <1>1, <2>1, <2>3, <3>1, <3>2, AccountsKept, StoryOfWork DEF Working
  <2>12. CASE Begin \/ Triage
                \/ \E c \in Commands : \/ RefuseCommand(c)
                                       \/ \E out \in ResultsOf(c) : ExecuteCommand(c, out)
    <3>1. /\ pc' \in {"triage", "step"} /\ UNCHANGED <<step, cost, flag, manifest>>
          /\ pc \in {"new", "triage", "act"} /\ (pc = "act" => call # Submit)
      BY <2>12, LoopAssumption DEF Begin, Triage, RefuseCommand, ExecuteCommand
    <3>2. ~Requests /\ ~Bills /\ ~Decisions
      BY <3>1, WherePaid
    <3> QED
      BY <1>1, <2>1, <2>3, <2>4, <3>1, <3>2, AccountsKept, StoryOfWork DEF Working
  <2> QED
    BY <1>4, <2>5, <2>6, <2>7, <2>8, <2>9, <2>10, <2>11, <2>12 DEF Setup, Turn, Act
<1>5. CASE Hang
  <2>1. Working(pc) /\ Working(pc') /\ pc = "act" /\ pc' = "hung"
    BY <1>5, HangWrites DEF Working
  <2>2. /\ UNCHANGED <<step, cost, flag, manifest>>
        /\ Extends /\ WroteOnly({"tool.call"})
    BY <1>5, HangWrites
  <2>3. /\ Same("run.finished") /\ Same("flag.decision")
        /\ Same("llm.request") /\ Same("cost.updated")
    BY <2>2, QuietSame
  <2>4. Unsettled /\ Counted /\ Billed(cost)
    BY <2>1 DEF RunStory
  <2>5. \A i \in EventsOf("flag.decision")' : trace'[i].note = "rejected"
    BY <2>2, <2>3, <2>4, VerdictsKept DEF Unsettled
  <2>6. Counted' /\ Billed(cost)'
    BY <2>2, <2>3, <2>4, CountKept, BillKept
  <2> QED
    BY <2>1, <2>2, <2>3, <2>5, <2>6, StoryOfWork
<1> QED
  BY <1>2, <1>3, <1>4, <1>5 DEF Next

LEMMA StoryInit == Init => RunStory
<1> SUFFICES ASSUME Init PROVE RunStory
  OBVIOUS
<1>1. pc = "new" /\ step = 0 /\ cost = 0 /\ flag = NoSubject /\ manifest.outcome = "none"
  BY DEF Init
<1>2. \A type : EventsOf(type) = {}
  BY DEF Init, EventsOf
<1>3. Counted /\ Billed(cost)
  BY <1>1, <1>2, FS_EmptySet DEF Counted, Billed
<1> QED
  BY <1>1, <1>2, <1>3 DEF RunStory, Working, Unsettled, ManifestMatchesTrace

\* run.json and the trace tell the same story: the outcome, the flag, the last
\* bill and the requests of the one run.finished, or an error and no end.
THEOREM ManifestRepeatsTrace == Spec => []ManifestMatchesTrace
<1>1. RunStory => ManifestMatchesTrace
  BY DEF RunStory
<1> QED
  BY RunTypeInv, StoryInit, StoryStep, <1>1, PTL DEF Spec

-----------------------------------------------------------------------------
(* What the counters count                                                    *)

\* The marks after the last reset.
Since(marks, resets) == {i \in marks : \A j \in resets : j < i}

LEMMA SinceGrows ==
    ASSUME NEW n \in Nat, NEW marks \in SUBSET (1 .. n), NEW resets \in SUBSET (1 .. n),
           NEW at \in Nat, at > n
    PROVE  Cardinality(Since(marks \cup {at}, resets)) = Cardinality(Since(marks, resets)) + 1
<1> DEFINE old == Since(marks, resets)
<1>1. Since(marks \cup {at}, resets) = old \cup {at} /\ at \notin old
  BY DEF Since
<1>2. IsFiniteSet(1 .. n)
  BY FS_Interval
<1>3. old \in SUBSET (1 .. n)
  BY DEF Since
<1> HIDE DEF old
<1>4. IsFiniteSet(old)
  BY <1>2, <1>3, FS_Subset
<1>5. Cardinality(old \cup {at}) = Cardinality(old) + 1
  BY <1>1, <1>4, FS_AddElement
<1> QED
  BY <1>1, <1>5 DEF old

LEMMA SinceCleared ==
    ASSUME NEW at \in Nat, NEW marks \in SUBSET (1 .. at), NEW resets, at \in resets
    PROVE  Cardinality(Since(marks, resets)) = 0
<1>1. \A i \in marks : ~(at < i)
  OBVIOUS
<1>2. Since(marks, resets) = {}
  BY <1>1 DEF Since
<1> QED
  BY <1>2, FS_EmptySet

\* The events one action adds, when they are all of them: those at the places in
\* `added` have the type, the others it writes do not.
LEMMA EventsAt ==
    ASSUME TypeInv, TypeInv', Extends, NEW type,
           NEW added \in SUBSET (Len(trace) + 1 .. Len(trace')),
           \A i \in Len(trace) + 1 .. Len(trace') : trace'[i].type = type <=> i \in added
    PROVE  EventsOf(type)' = EventsOf(type) \cup added
<1>1. trace \in Seq(TraceEvent) /\ trace' \in Seq(TraceEvent)
  BY DEF TypeInv, LoopTypeOK
<1>2. {i \in Len(trace) + 1 .. Len(trace') : trace'[i].type = type} = added
  OBVIOUS
<1> QED
  BY <1>1, <1>2, EventsAdded

\* A budget refuses a command: one budget.blocked, and perhaps a shift.
LEMMA RefusalsAt ==
    ASSUME TypeInv, TypeInv', TrackerTypeOK', NEW c \in Commands, RefuseCommand(c)
    PROVE  /\ Extends
           /\ EventsOf("budget.blocked")' = EventsOf("budget.blocked") \cup {Len(trace) + 1}
           /\ EventsOf("strategy.shift")' = EventsOf("strategy.shift") \cup
                 (IF shift'.trigger = "none" THEN {} ELSE {Len(trace) + 2})
           /\ EventsOf("progress.scored")' = EventsOf("progress.scored")
           /\ EventsOf("tool.result")' = EventsOf("tool.result")
<1> DEFINE a == Event("budget.blocked", step, c, "", 0)
           b == Event("strategy.shift", step, NoSubject, shift'.reported, 0)
           n == 1 + ShiftsDue
           L == Len(trace)
           shifted == IF shift'.trigger = "none" THEN {} ELSE {L + 2}
<1>1. Extends /\ WroteCount(n) /\ Wrote(1, a) /\ (ShiftsDue = 1 => Wrote(2, b))
  BY RefuseWrites
<1>2. a.type = "budget.blocked" /\ b.type = "strategy.shift"
  BY DEF Event
<1>3. \/ n = 1 /\ shifted = {}
      \/ n = 2 /\ ShiftsDue = 1 /\ shifted = {L + 2}
  BY DEF ShiftsDue
<1> HIDE DEF a, b, n
<1>4. L \in Nat
  BY TraceTyped
<1>5. Len(trace') = L + n /\ trace'[L + 1] = a /\ (ShiftsDue = 1 => trace'[L + 2] = b)
  BY <1>1 DEF Wrote, WroteCount
<1> HIDE DEF shifted
<1>6. /\ {L + 1} \in SUBSET (L + 1 .. Len(trace'))
      /\ shifted \in SUBSET (L + 1 .. Len(trace'))
      /\ \A i \in L + 1 .. Len(trace') :
           /\ trace'[i].type = "budget.blocked" <=> i \in {L + 1}
           /\ trace'[i].type = "strategy.shift" <=> i \in shifted
           /\ trace'[i].type \notin {"progress.scored", "tool.result"}
  <2>1. CASE n = 1 /\ shifted = {}
    <3>1. \A i \in L + 1 .. Len(trace') : i = L + 1
      BY <1>4, <1>5, <2>1
    <3> QED
      BY <1>2, <1>4, <1>5, <2>1, <3>1
  <2>2. CASE n = 2 /\ ShiftsDue = 1 /\ shifted = {L + 2}
    <3>1. \A i \in L + 1 .. Len(trace') : i = L + 1 \/ i = L + 2
      BY <1>4, <1>5, <2>2
    <3> QED
      BY <1>2, <1>4, <1>5, <2>2, <3>1
  <2> QED
    BY <1>3, <2>1, <2>2
<1>7. EventsOf("budget.blocked")' = EventsOf("budget.blocked") \cup {L + 1}
  BY <1>1, <1>6, EventsAt
<1>8. EventsOf("strategy.shift")' = EventsOf("strategy.shift") \cup shifted
  BY <1>1, <1>6, EventsAt
<1>9. /\ EventsOf("progress.scored")' = EventsOf("progress.scored") \cup {}
      /\ EventsOf("tool.result")' = EventsOf("tool.result") \cup {}
  BY <1>1, <1>6, EventsAt
<1> QED
  BY <1>1, <1>7, <1>8, <1>9 DEF shifted

\* A command runs: its result, its score, and perhaps a shift.
LEMMA ExecutionsAt ==
    ASSUME TypeInv, TypeInv', TrackerTypeOK', NEW c \in Commands, NEW out \in ResultsOf(c),
           ExecuteCommand(c, out)
    PROVE  /\ Extends
           /\ EventsOf("tool.result")' = EventsOf("tool.result") \cup {Len(trace) + 2}
           /\ trace'[Len(trace) + 2].note = KindOf(c, out)
           /\ EventsOf("progress.scored")' = EventsOf("progress.scored") \cup {Len(trace) + 3}
           /\ trace'[Len(trace) + 3].note = (IF Progressed(out) THEN "progress" ELSE "none")
           /\ trace'[Len(trace) + 3].what = c
           /\ EventsOf("strategy.shift")' = EventsOf("strategy.shift") \cup
                 (IF shift'.trigger = "none" THEN {} ELSE {Len(trace) + 4})
           /\ EventsOf("budget.blocked")' = EventsOf("budget.blocked")
<1> DEFINE a == Event("tool.call", step, c, "", 0)
           b == Event("tool.result", step, c, KindOf(c, out), 0)
           d == Event("progress.scored", step, c,
                      IF Progressed(out) THEN "progress" ELSE "none", 0)
           e == Event("strategy.shift", step, NoSubject, shift'.reported, 0)
           n == 3 + ShiftsDue
           L == Len(trace)
           shifted == IF shift'.trigger = "none" THEN {} ELSE {L + 4}
<1>1. /\ Extends /\ WroteCount(n) /\ Wrote(1, a) /\ Wrote(2, b) /\ Wrote(3, d)
      /\ ShiftsDue = 1 => Wrote(4, e)
  BY ExecuteWrites
<1>2. /\ a.type = "tool.call" /\ b.type = "tool.result" /\ d.type = "progress.scored"
      /\ e.type = "strategy.shift"
      /\ b.note = KindOf(c, out) /\ d.what = c
      /\ d.note = (IF Progressed(out) THEN "progress" ELSE "none")
  BY DEF Event
<1>3. \/ n = 3 /\ shifted = {}
      \/ n = 4 /\ ShiftsDue = 1 /\ shifted = {L + 4}
  BY DEF ShiftsDue
<1> HIDE DEF a, b, d, e, n
<1>4. L \in Nat
  BY TraceTyped
<1>5. /\ Len(trace') = L + n /\ trace'[L + 1] = a /\ trace'[L + 2] = b /\ trace'[L + 3] = d
      /\ ShiftsDue = 1 => trace'[L + 4] = e
  BY <1>1 DEF Wrote, WroteCount
<1> HIDE DEF shifted
<1>6. /\ {L + 2} \in SUBSET (L + 1 .. Len(trace'))
      /\ {L + 3} \in SUBSET (L + 1 .. Len(trace'))
      /\ shifted \in SUBSET (L + 1 .. Len(trace'))
      /\ \A i \in L + 1 .. Len(trace') :
           /\ trace'[i].type = "tool.result" <=> i \in {L + 2}
           /\ trace'[i].type = "progress.scored" <=> i \in {L + 3}
           /\ trace'[i].type = "strategy.shift" <=> i \in shifted
           /\ trace'[i].type # "budget.blocked"
  <2>1. CASE n = 3 /\ shifted = {}
    <3>1. \A i \in L + 1 .. Len(trace') : i = L + 1 \/ i = L + 2 \/ i = L + 3
      BY <1>4, <1>5, <2>1
    <3>2. {L + 2, L + 3} \subseteq L + 1 .. Len(trace')
      BY <1>4, <1>5, <2>1
    <3>3. L + 1 # L + 2 /\ L + 1 # L + 3 /\ L + 2 # L + 3
      BY <1>4
    <3> QED
      BY <1>2, <1>5, <2>1, <3>1, <3>2, <3>3
  <2>2. CASE n = 4 /\ ShiftsDue = 1 /\ shifted = {L + 4}
    <3>1. \A i \in L + 1 .. Len(trace') : i = L + 1 \/ i = L + 2 \/ i = L + 3 \/ i = L + 4
      BY <1>4, <1>5, <2>2
    <3>2. {L + 2, L + 3, L + 4} \subseteq L + 1 .. Len(trace')
      BY <1>4, <1>5, <2>2
    <3>3. /\ L + 1 # L + 2 /\ L + 1 # L + 3 /\ L + 2 # L + 3
          /\ L + 4 # L + 1 /\ L + 4 # L + 2 /\ L + 4 # L + 3
      BY <1>4
    <3> QED
      BY <1>2, <1>5, <2>2, <3>1, <3>2, <3>3
  <2> QED
    BY <1>3, <2>1, <2>2
<1>7. EventsOf("tool.result")' = EventsOf("tool.result") \cup {L + 2}
  BY <1>1, <1>6, EventsAt
<1>8. EventsOf("progress.scored")' = EventsOf("progress.scored") \cup {L + 3}
  BY <1>1, <1>6, EventsAt
<1>9. EventsOf("strategy.shift")' = EventsOf("strategy.shift") \cup shifted
  BY <1>1, <1>6, EventsAt
<1>10. EventsOf("budget.blocked")' = EventsOf("budget.blocked") \cup {}
  BY <1>1, <1>6, EventsAt
<1> QED
  BY <1>1, <1>2, <1>5, <1>7, <1>8, <1>9, <1>10 DEF shifted

\* A completion's extra calls are answered with one refusal each.
LEMMA ProposalsAt ==
    ASSUME TypeInv, TypeInv', NEW c \in CallCosts, NEW primary \in Commands \cup {Submit},
           NEW extras \in 0 .. MaxExtras, Propose(c, primary, extras)
    PROVE  /\ Extends
           /\ EventsOf("tool.result")' = EventsOf("tool.result") \cup
                 (Len(trace) + 3 .. Len(trace) + 2 + extras)
           /\ \A i \in Len(trace) + 3 .. Len(trace) + 2 + extras : trace'[i].note = "blocked"
<1> DEFINE a == Event("cost.updated", step, NoSubject, "", cost')
           b == Event("llm.response", step, primary, "", 0)
           r == Event("tool.result", step, NoSubject, "blocked", 0)
           L == Len(trace)
           added == L + 3 .. L + 2 + extras
<1>1. /\ Extends /\ WroteCount(2 + extras) /\ Wrote(1, a) /\ Wrote(2, b)
      /\ \A k \in 1 .. extras : Wrote(2 + k, r)
  BY ProposeWrites
<1>2. /\ a.type = "cost.updated" /\ b.type = "llm.response"
      /\ r.type = "tool.result" /\ r.note = "blocked"
  BY DEF Event
<1> HIDE DEF a, b, r
<1>3. L \in Nat /\ extras \in Nat
  BY TraceTyped, LoopAssumption
<1>4. /\ Len(trace') = L + (2 + extras) /\ trace'[L + 1] = a /\ trace'[L + 2] = b
      /\ \A k \in 1 .. extras : trace'[L + (2 + k)] = r
  BY <1>1 DEF Wrote, WroteCount
<1>5. ASSUME NEW i \in added PROVE trace'[i] = r
  <2>1. i - L - 2 \in 1 .. extras /\ i = L + (2 + (i - L - 2))
    BY <1>3
  <2> QED
    BY <1>4, <2>1
<1>6. ASSUME NEW i \in L + 1 .. Len(trace') PROVE i = L + 1 \/ i = L + 2 \/ i \in added
  BY <1>3, <1>4
<1>7. added \in SUBSET (L + 1 .. Len(trace')) /\ L + 1 \notin added /\ L + 2 \notin added
  BY <1>3, <1>4
<1> HIDE DEF added
<1>8. \A i \in L + 1 .. Len(trace') : trace'[i].type = "tool.result" <=> i \in added
  BY <1>2, <1>4, <1>5, <1>6, <1>7
<1>9. EventsOf("tool.result")' = EventsOf("tool.result") \cup added
  BY <1>1, <1>7, <1>8, EventsAt
<1> QED
  BY <1>1, <1>2, <1>5, <1>9 DEF added

\* Counting what is written after what was counted.
LEMMA LaterCounted ==
    ASSUME NEW n \in Nat, NEW S \in SUBSET (1 .. n), NEW a \in Nat, NEW b \in Nat,
           n < a, a <= b + 1
    PROVE  Cardinality(S \cup (a .. b)) = Cardinality(S) + (b + 1 - a)
<1>1. IsFiniteSet(1 .. n) /\ IsFiniteSet(a .. b)
  BY FS_Interval
<1>2. IsFiniteSet(S)
  BY <1>1, FS_Subset
<1>3. Cardinality(a .. b) = b + 1 - a
  <2>1. Cardinality(a .. b) = IF a > b THEN 0 ELSE b - a + 1
    BY FS_Interval
  <2> QED
    BY <2>1
<1>4. S \cap (a .. b) = {}
  OBVIOUS
<1>5. Cardinality({}) = 0
  BY FS_EmptySet
<1> DEFINE T == a .. b
           union == Cardinality(S \cup T)
           old == Cardinality(S)
           new == Cardinality(T)
<1>6. union = old + new - Cardinality(S \cap T)
  BY <1>1, <1>2, FS_Union
<1>7. old \in Nat /\ new = b + 1 - a /\ S \cap T = {}
  BY <1>2, <1>3, <1>4, FS_CardinalityType
<1> HIDE DEF T, old, new, union
<1>8. union = old + new - 0
  BY <1>5, <1>6, <1>7
<1>9. union = old + (b + 1 - a)
  BY <1>7, <1>8
<1> QED
  BY <1>9 DEF T, old, union

LEMMA NextCounted ==
    ASSUME NEW n \in Nat, NEW S \in SUBSET (1 .. n), NEW a \in Nat, n < a
    PROVE  Cardinality(S \cup {a}) = Cardinality(S) + 1
<1>1. IsFiniteSet(1 .. n) /\ a \notin S
  BY FS_Interval
<1>2. IsFiniteSet(S)
  BY <1>1, FS_Subset
<1> QED
  BY <1>1, <1>2, FS_AddElement

\* The events of a type with a note.
Noted(type, note) == {i \in EventsOf(type) : trace[i].note = note}

\* All of the new ones have the note, or none has.
AllNoted(added, note) == \A i \in added : trace'[i].note = note
NoneNoted(added, note) == \A i \in added : trace'[i].note # note

LEMMA NotedAdded ==
    ASSUME TypeInv, Extends, NEW type, NEW note, NEW added,
           EventsOf(type)' = EventsOf(type) \cup added
    PROVE  /\ AllNoted(added, note) => Noted(type, note)' = Noted(type, note) \cup added
           /\ NoneNoted(added, note) => Noted(type, note)' = Noted(type, note)
<1>1. \A i \in EventsOf(type) : trace'[i] = trace[i]
  BY EventsFinite, TraceTyped DEF Extends
<1>2. ASSUME AllNoted(added, note)
      PROVE  Noted(type, note)' = Noted(type, note) \cup added
  BY <1>1, <1>2 DEF Noted, AllNoted
<1>3. ASSUME NoneNoted(added, note)
      PROVE  Noted(type, note)' = Noted(type, note)
  BY <1>1, <1>3 DEF Noted, NoneNoted
<1> QED
  BY <1>2, <1>3

LEMMA NotedSame ==
    ASSUME TypeInv, Extends, NEW type, NEW note, EventsOf(type)' = EventsOf(type)
    PROVE  Noted(type, note)' = Noted(type, note)
<1>1. \A i \in EventsOf(type) : trace'[i] = trace[i]
  BY EventsFinite, TraceTyped DEF Extends
<1> QED
  BY <1>1 DEF Noted

LEMMA NotedTyped ==
    ASSUME TypeInv, NEW type, NEW note
    PROVE  Noted(type, note) \subseteq 1 .. Len(trace)
  BY EventsFinite, TraceTyped DEF Noted

Wins == Noted("progress.scored", "progress")
Losses == Noted("progress.scored", "none")
Refused == EventsOf("budget.blocked") \cup Noted("tool.result", "blocked")

LEMMA AccountsTyped ==
    ASSUME TypeInv
    PROVE  /\ Wins \in SUBSET (1 .. Len(trace)) /\ Losses \in SUBSET (1 .. Len(trace))
           /\ Refused \in SUBSET (1 .. Len(trace))
           /\ EventsOf("budget.blocked") \in SUBSET (1 .. Len(trace))
           /\ EventsOf("strategy.shift") \in SUBSET (1 .. Len(trace))
           /\ Len(trace) \in Nat
  BY NotedTyped, EventsFinite, TraceTyped DEF Wins, Losses, Refused

\* What a refusal, an execution and a proposal do to them.
LEMMA RefusalAccounts ==
    ASSUME TypeInv, TypeInv', TrackerTypeOK', NEW c \in Commands, RefuseCommand(c)
    PROVE  /\ Wins' = Wins /\ Losses' = Losses
           /\ Refused' = Refused \cup {Len(trace) + 1}
<1>1. /\ Extends
      /\ EventsOf("budget.blocked")' = EventsOf("budget.blocked") \cup {Len(trace) + 1}
      /\ EventsOf("progress.scored")' = EventsOf("progress.scored")
      /\ EventsOf("tool.result")' = EventsOf("tool.result")
  BY RefusalsAt
<1>2. Wins' = Wins /\ Losses' = Losses
  BY <1>1, NotedSame DEF Wins, Losses
<1>3. Noted("tool.result", "blocked")' = Noted("tool.result", "blocked")
  BY <1>1, NotedSame
<1> QED
  BY <1>1, <1>2, <1>3 DEF Refused

LEMMA ExecutionAccounts ==
    ASSUME TypeInv, TypeInv', TrackerTypeOK', NEW c \in Commands, NEW out \in ResultsOf(c),
           ExecuteCommand(c, out)
    PROVE  /\ Wins' = Wins \cup (IF Progressed(out) THEN {Len(trace) + 3} ELSE {})
           /\ Losses' = Losses \cup (IF Progressed(out) THEN {} ELSE {Len(trace) + 3})
           /\ Refused' = Refused \cup
                 (IF ToolOf[c] = "malformed" THEN {Len(trace) + 2} ELSE {})
<1> DEFINE won == IF Progressed(out) THEN {Len(trace) + 3} ELSE {}
           lost == IF Progressed(out) THEN {} ELSE {Len(trace) + 3}
           refused == IF ToolOf[c] = "malformed" THEN {Len(trace) + 2} ELSE {}
           scored == {Len(trace) + 3}
           result == {Len(trace) + 2}
<1>1. /\ Extends
      /\ EventsOf("tool.result")' = EventsOf("tool.result") \cup result
      /\ trace'[Len(trace) + 2].note = KindOf(c, out)
      /\ EventsOf("progress.scored")' = EventsOf("progress.scored") \cup scored
      /\ trace'[Len(trace) + 3].note = (IF Progressed(out) THEN "progress" ELSE "none")
      /\ EventsOf("budget.blocked")' = EventsOf("budget.blocked")
  BY ExecutionsAt
<1>2. KindOf(c, out) = "blocked" <=> ToolOf[c] = "malformed"
  BY DEF KindOf
<1>3. /\ Progressed(out) => AllNoted(scored, "progress") /\ NoneNoted(scored, "none")
      /\ ~Progressed(out) => AllNoted(scored, "none") /\ NoneNoted(scored, "progress")
      /\ ToolOf[c] = "malformed" => AllNoted(result, "blocked")
      /\ ToolOf[c] # "malformed" => NoneNoted(result, "blocked")
  BY <1>1, <1>2 DEF AllNoted, NoneNoted
<1> HIDE DEF scored, result
<1>4. /\ AllNoted(scored, "progress") => Wins' = Wins \cup scored
      /\ NoneNoted(scored, "progress") => Wins' = Wins
  BY <1>1, NotedAdded DEF Wins
<1>5. /\ AllNoted(scored, "none") => Losses' = Losses \cup scored
      /\ NoneNoted(scored, "none") => Losses' = Losses
  BY <1>1, NotedAdded DEF Losses
<1>6. /\ AllNoted(result, "blocked") =>
           Noted("tool.result", "blocked")' = Noted("tool.result", "blocked") \cup result
      /\ NoneNoted(result, "blocked") =>
           Noted("tool.result", "blocked")' = Noted("tool.result", "blocked")
  BY <1>1, NotedAdded
<1>7. Wins' = Wins \cup won /\ Losses' = Losses \cup lost
  BY <1>3, <1>4, <1>5 DEF scored
<1>8. Noted("tool.result", "blocked")' = Noted("tool.result", "blocked") \cup refused
  BY <1>3, <1>6 DEF result
<1> QED
  BY <1>1, <1>7, <1>8 DEF Refused

LEMMA ProposalAccounts ==
    ASSUME TypeInv, TypeInv', TrackerTypeOK', [Next]_vars,
           NEW c \in CallCosts, NEW primary \in Commands \cup {Submit},
           NEW extras \in 0 .. MaxExtras, Propose(c, primary, extras)
    PROVE  /\ Wins' = Wins
           /\ Refused' = Refused \cup (Len(trace) + 3 .. Len(trace) + 2 + extras)
<1> DEFINE added == Len(trace) + 3 .. Len(trace) + 2 + extras
<1>1. /\ Extends
      /\ EventsOf("tool.result")' = EventsOf("tool.result") \cup added
      /\ \A i \in added : trace'[i].note = "blocked"
  BY ProposalsAt
<1>2. ~Refusals /\ ~Executions
  BY DEF Propose, Refusals, Executions, RefuseCommand, ExecuteCommand
<1>3. Same("budget.blocked") /\ Same("progress.scored")
  BY <1>2, StepWrites DEF WriterTable
<1> HIDE DEF added
<1>4. AllNoted(added, "blocked")
  BY <1>1 DEF AllNoted
<1>5. Noted("tool.result", "blocked")' = Noted("tool.result", "blocked") \cup added
  BY <1>1, <1>4, NotedAdded
<1>6. Wins' = Wins
  BY <1>1, <1>3, NotedSame DEF Wins, Same
<1> QED
  BY <1>3, <1>5, <1>6 DEF Refused, Same, added

\* Everything else leaves the counters, the tracker and what they count alone.
LEMMA OthersKeepAccounts ==
    ASSUME TypeInv, TypeInv', TrackerTypeOK', [Next]_vars, ~Refusals, ~Executions
    PROVE  /\ Wins' = Wins /\ Losses' = Losses
           /\ Same("strategy.shift") /\ Same("budget.blocked") /\ Same("progress.scored")
           /\ UNCHANGED trackerVars
           /\ ~Proposals => UNCHANGED <<progressSteps, blockedSteps>>
           /\ ~Proposals /\ ~Unrendered => Refused' = Refused
<1>1. Extends /\ WriterTable
  BY StepWrites
<1>2. Same("strategy.shift") /\ Same("budget.blocked") /\ Same("progress.scored")
  BY <1>1 DEF WriterTable
<1>3. \A type, note : Same(type) => Noted(type, note)' = Noted(type, note)
  BY <1>1, NotedSame DEF Same
<1>4. Wins' = Wins /\ Losses' = Losses
  BY <1>2, <1>3 DEF Wins, Losses
<1>5. ~Proposals /\ ~Unrendered => Refused' = Refused
  BY <1>1, <1>2, <1>3 DEF WriterTable, Refused, Same
<1>6. UNCHANGED trackerVars /\ (~Proposals => UNCHANGED <<progressSteps, blockedSteps>>)
  <2>1. CASE UNCHANGED vars \/ Close \/ Die
    BY <2>1 DEF vars, loopVars, Close, FinishRun, RecordError, Die
  <2>2. CASE Setup
    BY <2>2 DEF Setup, SandboxStartFails, Begin, InputsFail, Triage, TriageFails
  <2>3. CASE Turn
    BY <2>3 DEF Turn, BeginStep, CompactionFails, StepsExhausted, ProviderFails,
                CredentialsRefused, CeilingReached, Nudge, Propose, Proposals
  <2>4. CASE Act
    BY <2>4 DEF Act, RejectFlag, AcceptFlag, ExecuteFails, RenderFails, Refusals, Executions
  <2>5. CASE Hang
    BY <2>5, HangWrites
  <2> QED
    BY <2>1, <2>2, <2>3, <2>4, <2>5 DEF Next
<1> QED
  BY <1>2, <1>4, <1>5, <1>6

-----------------------------------------------------------------------------
(* progress_steps and blocked_steps                                           *)

Counting(p) == Working(p) \/ p = "returned"

\* What a run that broke off in the middle of a call has written is not counted.
CountersInv ==
    Counting(pc) => progressSteps = Cardinality(Wins) /\ blockedSteps = Cardinality(Refused)

LEMMA CountersStep ==
    TypeInv /\ TypeInv' /\ TrackerTypeOK' /\ CountersInv /\ [Next]_vars => CountersInv'
<1> SUFFICES ASSUME TypeInv, TypeInv', TrackerTypeOK', CountersInv, [Next]_vars,
                    Counting(pc')
             PROVE  /\ progressSteps' = Cardinality(Wins')
                    /\ blockedSteps' = Cardinality(Refused')
  BY DEF CountersInv
<1>1. Counting(pc)
  <2>1. CASE Setup \/ Turn \/ Act \/ Hang
    BY <2>1, ActionsWork DEF Counting
  <2>2. CASE Close \/ Die \/ UNCHANGED vars
    BY <2>2 DEF Close, FinishRun, RecordError, Die, Counting, Working, vars, loopVars
  <2> QED
    BY <2>1, <2>2 DEF Next
<1>2. progressSteps = Cardinality(Wins) /\ blockedSteps = Cardinality(Refused)
  BY <1>1 DEF CountersInv
<1>3. /\ Wins \in SUBSET (1 .. Len(trace)) /\ Refused \in SUBSET (1 .. Len(trace))
      /\ Len(trace) \in Nat
  BY AccountsTyped
<1>4. ASSUME NEW c \in Commands, RefuseCommand(c)
      PROVE  /\ progressSteps' = Cardinality(Wins')
             /\ blockedSteps' = Cardinality(Refused')
  <2>1. Wins' = Wins /\ Refused' = Refused \cup {Len(trace) + 1}
    BY <1>4, RefusalAccounts
  <2>2. Cardinality(Refused \cup {Len(trace) + 1}) = Cardinality(Refused) + 1
    <3>1. Len(trace) + 1 \in Nat /\ Len(trace) < Len(trace) + 1
      BY <1>3
    <3> QED
      BY <1>3, <3>1, NextCounted
  <2>3. progressSteps' = progressSteps /\ blockedSteps' = blockedSteps + 1
    BY <1>4 DEF RefuseCommand
  <2> QED
    BY <1>2, <2>1, <2>2, <2>3
<1>5. ASSUME NEW c \in Commands, NEW out \in ResultsOf(c), ExecuteCommand(c, out)
      PROVE  /\ progressSteps' = Cardinality(Wins')
             /\ blockedSteps' = Cardinality(Refused')
  <2>1. /\ Wins' = Wins \cup (IF Progressed(out) THEN {Len(trace) + 3} ELSE {})
        /\ Refused' = Refused \cup
             (IF ToolOf[c] = "malformed" THEN {Len(trace) + 2} ELSE {})
    BY <1>5, ExecutionAccounts
  <2>2. /\ Cardinality(Refused \cup {Len(trace) + 2}) = Cardinality(Refused) + 1
        /\ Cardinality(Wins \cup {Len(trace) + 3}) = Cardinality(Wins) + 1
    <3>1. /\ Len(trace) + 2 \in Nat /\ Len(trace) < Len(trace) + 2
          /\ Len(trace) + 3 \in Nat /\ Len(trace) < Len(trace) + 3
      BY <1>3
    <3> QED
      BY <1>3, <3>1, NextCounted
  <2>3. /\ progressSteps' = progressSteps + (IF Progressed(out) THEN 1 ELSE 0)
        /\ blockedSteps' = blockedSteps + (IF ToolOf[c] = "malformed" THEN 1 ELSE 0)
    BY <1>5 DEF ExecuteCommand, RefusedByDispatcher
  <2>4. progressSteps \in Nat /\ blockedSteps \in Nat
    BY DEF TypeInv, LoopTypeOK
  <2>5. progressSteps' = Cardinality(Wins')
    <3>1. CASE Progressed(out)
      <4>1. Wins' = Wins \cup {Len(trace) + 3} /\ progressSteps' = progressSteps + 1
        BY <2>1, <2>3, <3>1
      <4> QED
        BY <1>2, <2>2, <4>1
    <3>2. CASE ~Progressed(out)
      <4>1. Wins' = Wins /\ progressSteps' = progressSteps
        BY <2>1, <2>3, <2>4, <3>2
      <4> QED
        BY <1>2, <4>1
    <3> QED
      BY <3>1, <3>2
  <2>6. blockedSteps' = Cardinality(Refused')
    <3>1. CASE ToolOf[c] = "malformed"
      <4>1. Refused' = Refused \cup {Len(trace) + 2} /\ blockedSteps' = blockedSteps + 1
        BY <2>1, <2>3, <3>1
      <4> QED
        BY <1>2, <2>2, <4>1
    <3>2. CASE ToolOf[c] # "malformed"
      <4>1. Refused' = Refused /\ blockedSteps' = blockedSteps
        BY <2>1, <2>3, <2>4, <3>2
      <4> QED
        BY <1>2, <4>1
    <3> QED
      BY <3>1, <3>2
  <2> QED
    BY <2>5, <2>6
<1>6. ASSUME NEW c \in CallCosts, NEW primary \in Commands \cup {Submit},
             NEW extras \in 0 .. MaxExtras, Propose(c, primary, extras)
      PROVE  /\ progressSteps' = Cardinality(Wins')
             /\ blockedSteps' = Cardinality(Refused')
  <2> DEFINE a == Len(trace) + 3
             b == Len(trace) + 2 + extras
  <2>1. Wins' = Wins /\ Refused' = Refused \cup (a .. b)
    BY <1>6, ProposalAccounts
  <2>2. /\ a \in Nat /\ b \in Nat /\ Len(trace) < a /\ a <= b + 1 /\ b + 1 - a = extras
    BY <1>3, LoopAssumption
  <2> HIDE DEF a, b
  <2>3. Cardinality(Refused \cup (a .. b)) = Cardinality(Refused) + (b + 1 - a)
    BY <1>3, <2>2, LaterCounted
  <2>4. progressSteps' = progressSteps /\ blockedSteps' = blockedSteps + extras
    BY <1>6 DEF Propose
  <2> QED
    BY <1>2, <2>1, <2>2, <2>3, <2>4
<1>7. CASE ~Refusals /\ ~Executions /\ ~Proposals
  <2>1. ~Unrendered
    BY DEF Unrendered, RenderFails, Escape, Counting, Working
  <2> QED
    BY <1>2, <1>7, <2>1, OthersKeepAccounts
<1> QED
  BY <1>4, <1>5, <1>6, <1>7 DEF Refusals, Executions, Proposals

LEMMA NothingNoted ==
    ASSUME Init
    PROVE  /\ \A type : EventsOf(type) = {}
           /\ Wins = {} /\ Losses = {} /\ Refused = {}
  BY DEF Init, EventsOf, Wins, Losses, Refused, Noted

LEMMA CountersInit == Init => CountersInv
  BY NothingNoted, FS_EmptySet DEF Init, CountersInv

\* The counters a run is judged by are those of its trace: each step scored as
\* progress, and each call refused, wherever in the step it was refused.
THEOREM CountersAreTraced == Spec => []CountersMatchTrace
<1>1. CountersInv => CountersMatchTrace
  BY DEF CountersInv, CountersMatchTrace, Counting, Working, Wins, Refused, Noted
<1> QED
  BY RunTypeInv, CountersInit, CountersStep, <1>1, PTL DEF Spec
-----------------------------------------------------------------------------
(* The tracker's streak and its misses                                        *)

Wasted == EventsOf("budget.blocked") \cup Losses
Resets == EventsOf("strategy.shift") \cup Wins

\* noProgressRun counts the wasted steps since the last reset.
StreakInv == noProgressRun = Cardinality(Since(Wasted, Resets))

\* due_shift resets the streak exactly when it forces a shift.
LEMMA StreakAfter ==
    ASSUME NEW run, NEW errors, NEW blocked, DueShift(run, errors, blocked)
    PROVE  noProgressRun' = IF shift'.trigger = "none" THEN run ELSE 0
<1>1. CASE ShiftTrigger(run, errors) = "none"
  BY <1>1 DEF DueShift, NoShift
<1>2. CASE ShiftTrigger(run, errors) # "none"
  BY <1>2 DEF DueShift
<1> QED
  BY <1>1, <1>2

LEMMA StreakStep ==
    TypeInv /\ TypeInv' /\ TrackerTypeOK /\ TrackerTypeOK' /\ StreakInv /\ [Next]_vars
      => StreakInv'
<1> SUFFICES ASSUME TypeInv, TypeInv', TrackerTypeOK, TrackerTypeOK', StreakInv, [Next]_vars
             PROVE  noProgressRun' = Cardinality(Since(Wasted', Resets'))
  BY DEF StreakInv, Since
<1> DEFINE L == Len(trace)
<1>0. noProgressRun = Cardinality(Since(Wasted, Resets)) /\ noProgressRun \in Nat
  BY DEF StreakInv, TrackerTypeOK
<1>1. /\ Wasted \in SUBSET (1 .. L) /\ Resets \in SUBSET (1 .. L) /\ L \in Nat
  BY AccountsTyped DEF Wasted, Resets
<1>2. ASSUME NEW at \in Nat, at > L PROVE
        Cardinality(Since(Wasted \cup {at}, Resets)) = noProgressRun + 1
  BY <1>0, <1>1, <1>2, SinceGrows
<1>4. ASSUME NEW c \in Commands, RefuseCommand(c)
      PROVE  noProgressRun' = Cardinality(Since(Wasted', Resets'))
  <2>1. Wins' = Wins /\ Losses' = Losses
    BY <1>4, RefusalAccounts
  <2>2. /\ EventsOf("budget.blocked")' = EventsOf("budget.blocked") \cup {L + 1}
        /\ EventsOf("strategy.shift")' = EventsOf("strategy.shift") \cup
              (IF shift'.trigger = "none" THEN {} ELSE {L + 2})
    BY <1>4, RefusalsAt
  <2>3. Wasted' = Wasted \cup {L + 1}
    BY <2>1, <2>2 DEF Wasted
  <2>4. noProgressRun' = IF shift'.trigger = "none" THEN noProgressRun + 1 ELSE 0
    BY <1>4, StreakAfter DEF RefuseCommand, NoteBlocked
  <2>5. CASE shift'.trigger = "none"
    <3>1. Resets' = Resets
      BY <2>1, <2>2, <2>5 DEF Resets
    <3>2. L + 1 \in Nat /\ L + 1 > L
      BY <1>1
    <3> QED
      BY <1>2, <2>3, <2>4, <2>5, <3>1, <3>2
  <2>6. CASE shift'.trigger # "none"
    <3>1. L + 2 \in Resets'
      BY <2>2, <2>6 DEF Resets
    <3>2. L + 2 \in Nat /\ Wasted' \in SUBSET (1 .. L + 2)
      <4>1. 1 .. L \subseteq 1 .. L + 2 /\ L + 1 \in 1 .. L + 2 /\ L + 2 \in Nat
        BY <1>1
      <4> QED
        BY <1>1, <2>3, <4>1
    <3> QED
      BY <2>4, <2>6, <3>1, <3>2, SinceCleared
  <2> QED
    BY <2>5, <2>6
<1>5. ASSUME NEW c \in Commands, NEW out \in ResultsOf(c), ExecuteCommand(c, out)
      PROVE  noProgressRun' = Cardinality(Since(Wasted', Resets'))
  <2>1. /\ Wins' = Wins \cup (IF Progressed(out) THEN {L + 3} ELSE {})
        /\ Losses' = Losses \cup (IF Progressed(out) THEN {} ELSE {L + 3})
    BY <1>5, ExecutionAccounts
  <2>2. /\ EventsOf("budget.blocked")' = EventsOf("budget.blocked")
        /\ EventsOf("strategy.shift")' = EventsOf("strategy.shift") \cup
              (IF shift'.trigger = "none" THEN {} ELSE {L + 4})
    BY <1>5, ExecutionsAt
  <2>3. Record(c, out)
    BY <1>5 DEF ExecuteCommand
  <2>4. noProgressRun' = IF shift'.trigger = "none"
                         THEN (IF Progressed(out) THEN 0 ELSE noProgressRun + 1) ELSE 0
    <3> DEFINE run == IF Progressed(out) THEN 0 ELSE noProgressRun + 1
               errors == IF out.ok THEN 0 ELSE consecutiveErrors + 1
    <3>1. DueShift(run, errors, FALSE)
      BY <2>3 DEF Record
    <3> HIDE DEF run, errors
    <3>2. noProgressRun' = IF shift'.trigger = "none" THEN run ELSE 0
      BY <3>1, StreakAfter
    <3> QED
      BY <3>2 DEF run
  <2>5. CASE Progressed(out)
    <3>1. Wasted' = Wasted /\ L + 3 \in Resets'
      BY <2>1, <2>2, <2>5 DEF Wasted, Resets
    <3>2. L + 3 \in Nat /\ Wasted' \in SUBSET (1 .. L + 3)
      BY <1>1, <3>1
    <3>3. Cardinality(Since(Wasted', Resets')) = 0
      BY <3>1, <3>2, SinceCleared
    <3> QED
      BY <2>4, <2>5, <3>3
  <2>6. CASE ~Progressed(out) /\ shift'.trigger = "none"
    <3>1. Wasted' = Wasted \cup {L + 3} /\ Resets' = Resets
      BY <2>1, <2>2, <2>6 DEF Wasted, Resets
    <3>2. L + 3 \in Nat /\ L + 3 > L
      BY <1>1
    <3> QED
      BY <1>2, <2>4, <2>6, <3>1, <3>2
  <2>7. CASE ~Progressed(out) /\ shift'.trigger # "none"
    <3>1. Wasted' = Wasted \cup {L + 3} /\ L + 4 \in Resets'
      BY <2>1, <2>2, <2>7 DEF Wasted, Resets
    <3>2. L + 4 \in Nat /\ Wasted' \in SUBSET (1 .. L + 4)
      <4>1. 1 .. L \subseteq 1 .. L + 4 /\ L + 3 \in 1 .. L + 4 /\ L + 4 \in Nat
        BY <1>1
      <4> QED
        BY <1>1, <3>1, <4>1
    <3>3. Cardinality(Since(Wasted', Resets')) = 0
      BY <3>1, <3>2, SinceCleared
    <3> QED
      BY <2>4, <2>7, <3>3
  <2> QED
    BY <2>5, <2>6, <2>7
<1>6. CASE ~Refusals /\ ~Executions
  <2>1. noProgressRun' = noProgressRun /\ Wasted' = Wasted /\ Resets' = Resets
    BY <1>6, OthersKeepAccounts DEF trackerVars, Wasted, Resets, Same
  <2> QED
    BY <1>0, <2>1
<1> QED
  BY <1>4, <1>5, <1>6 DEF Refusals, Executions

LEMMA StreakInit == Init => StreakInv
<1> SUFFICES ASSUME Init PROVE StreakInv
  OBVIOUS
<1>1. Since(Wasted, Resets) = {} /\ noProgressRun = 0
  BY NothingNoted DEF Init, TrackerInit, Wasted, Since
<1> QED
  BY <1>1, FS_EmptySet DEF StreakInv

\* Whenever a step begins, fewer steps were wasted since the last progress or
\* strategy.shift of the trace than the category allows.
THEOREM RedirectionIsTimely == Spec => []RedirectedInTime
<1>1. StreakInv /\ ShiftNeverOverdue => RedirectedInTime
  BY DEF StreakInv, ShiftNeverOverdue, RedirectedInTime, Wasted, Resets, Wins, Losses,
         Noted, Since
<1> QED
  BY RunTypeInv, RunStaysWithinBudgets, StreakInit, StreakStep, <1>1, PTL DEF Spec

\* The misses of the commands of a kind, before and after one more execution.
LEMMA MissesAre ==
    ASSUME NEW of
    PROVE  MissesSinceProgress(of) =
             Cardinality(Since(Scored(of, "none"), Scored(of, "progress")))
  BY DEF MissesSinceProgress, Since

LEMMA ScoredTyped ==
    ASSUME TypeInv, NEW of, NEW note
    PROVE  Scored(of, note) \in SUBSET (1 .. Len(trace))
<1>1. EventsOf("progress.scored") \subseteq 1 .. Len(trace)
  BY EventsFinite, TraceTyped
<1> QED
  BY <1>1 DEF Scored

LEMMA ScoredKept ==
    ASSUME TypeInv, Extends, Same("progress.scored"), NEW of, NEW note
    PROVE  Scored(of, note)' = Scored(of, note)
<1>1. \A i \in EventsOf("progress.scored") : trace'[i] = trace[i]
  BY EventsFinite, TraceTyped DEF Extends
<1> QED
  BY <1>1 DEF Scored, Same

LEMMA ScoredAdded ==
    ASSUME TypeInv, Extends, NEW at, NEW of, NEW note,
           EventsOf("progress.scored")' = EventsOf("progress.scored") \cup {at}
    PROVE  /\ of[trace'[at].what] /\ trace'[at].note = note =>
                Scored(of, note)' = Scored(of, note) \cup {at}
           /\ ~of[trace'[at].what] \/ trace'[at].note # note =>
                Scored(of, note)' = Scored(of, note)
<1>1. \A i \in EventsOf("progress.scored") : trace'[i] = trace[i]
  BY EventsFinite, TraceTyped DEF Extends
<1> QED
  BY <1>1 DEF Scored

LEMMA ExecutionMisses ==
    ASSUME TypeInv, TypeInv', TrackerTypeOK', NEW c \in Commands, NEW out \in ResultsOf(c),
           ExecuteCommand(c, out), NEW of
    PROVE  /\ of[c] /\ Progressed(out) => MissesSinceProgress(of)' = 0
           /\ of[c] /\ ~Progressed(out) =>
                MissesSinceProgress(of)' = MissesSinceProgress(of) + 1
           /\ ~of[c] => MissesSinceProgress(of)' = MissesSinceProgress(of)
<1> DEFINE at == Len(trace) + 3
           none == Scored(of, "none")
           won == Scored(of, "progress")
<1>1. /\ Extends
      /\ EventsOf("progress.scored")' = EventsOf("progress.scored") \cup {at}
      /\ trace'[at].note = (IF Progressed(out) THEN "progress" ELSE "none")
      /\ trace'[at].what = c
  BY ExecutionsAt
<1>2. /\ none \in SUBSET (1 .. Len(trace)) /\ won \in SUBSET (1 .. Len(trace))
      /\ Len(trace) \in Nat /\ at \in Nat /\ at > Len(trace)
      /\ 1 .. Len(trace) \subseteq 1 .. at
  BY ScoredTyped, TraceTyped
<1>3. /\ MissesSinceProgress(of) = Cardinality(Since(none, won))
      /\ MissesSinceProgress(of)' = Cardinality(Since(none', won'))
  BY DEF MissesSinceProgress, Since
<1> HIDE DEF at
<1>4. CASE of[c] /\ Progressed(out)
  <2>1. none' = none /\ won' = won \cup {at}
    BY <1>1, <1>4, ScoredAdded
  <2>2. none' \in SUBSET (1 .. at) /\ at \in won'
    BY <1>2, <2>1
  <2> QED
    BY <1>2, <1>3, <1>4, <2>2, SinceCleared
<1>5. CASE of[c] /\ ~Progressed(out)
  <2>1. none' = none \cup {at} /\ won' = won
    BY <1>1, <1>5, ScoredAdded
  <2> HIDE DEF none, won
  <2>2. Cardinality(Since(none \cup {at}, won)) = Cardinality(Since(none, won)) + 1
    BY <1>2, SinceGrows
  <2> QED
    BY <1>3, <1>5, <2>1, <2>2
<1>6. CASE ~of[c]
  <2>1. none' = none /\ won' = won
    BY <1>1, <1>6, ScoredAdded
  <2> QED
    BY <1>3, <1>6, <2>1
<1> QED
  BY <1>4, <1>5, <1>6

\* The ledger counts the misses of each hypothesis and of each family.
OfHypothesis(h) == [c \in Commands |-> KeyOf[c] = h]
OfFamily(f) == [c \in Commands |-> FamilyOf[c] = f]
LedgerInv ==
    /\ \A h \in Hypotheses : hypothesisMisses[h] = MissesSinceProgress(OfHypothesis(h))
    /\ \A f \in Families : familyMisses[f] = MissesSinceProgress(OfFamily(f))

LEMMA LedgerStep ==
    TypeInv /\ TypeInv' /\ TrackerTypeOK /\ TrackerTypeOK' /\ LedgerInv /\ [Next]_vars
      => LedgerInv'
<1> SUFFICES ASSUME TypeInv, TypeInv', TrackerTypeOK, TrackerTypeOK', LedgerInv, [Next]_vars
             PROVE  LedgerInv'
  OBVIOUS
<1>1. ASSUME NEW c \in Commands, NEW out \in ResultsOf(c), ExecuteCommand(c, out)
      PROVE  LedgerInv'
  <2>1. ChargeLedger(c, Progressed(out))
    BY <1>1 DEF ExecuteCommand, Record
  <2>2. KeyOf[c] \in Hypotheses /\ FamilyOf[c] \in Families
    BY CommandAssumption
  <2>3. ASSUME NEW h \in Hypotheses
        PROVE  hypothesisMisses'[h] = MissesSinceProgress(OfHypothesis(h))'
    <3> DEFINE of == OfHypothesis(h)
    <3>1. of[c] <=> KeyOf[c] = h
      BY DEF OfHypothesis
    <3>2. hypothesisMisses[h] = MissesSinceProgress(of)
      BY DEF LedgerInv
    <3>3. hypothesisMisses'[h] = IF KeyOf[c] = h
                                 THEN IF Progressed(out) THEN 0 ELSE hypothesisMisses[h] + 1
                                 ELSE hypothesisMisses[h]
      BY <2>1, <2>2 DEF ChargeLedger, TrackerTypeOK
    <3>4. OfHypothesis(h)' = of
      BY DEF OfHypothesis
    <3> HIDE DEF of
    <3>5. /\ of[c] /\ Progressed(out) => MissesSinceProgress(of)' = 0
          /\ of[c] /\ ~Progressed(out) =>
               MissesSinceProgress(of)' = MissesSinceProgress(of) + 1
          /\ ~of[c] => MissesSinceProgress(of)' = MissesSinceProgress(of)
      BY <1>1, ExecutionMisses
    <3>6. hypothesisMisses'[h] = MissesSinceProgress(of)'
      BY <3>1, <3>2, <3>3, <3>5
    <3> QED
      BY <3>6 DEF of
  <2>4. ASSUME NEW f \in Families
        PROVE  familyMisses'[f] = MissesSinceProgress(OfFamily(f))'
    <3> DEFINE of == OfFamily(f)
    <3>1. of[c] <=> FamilyOf[c] = f
      BY DEF OfFamily
    <3>2. familyMisses[f] = MissesSinceProgress(of)
      BY DEF LedgerInv
    <3>3. familyMisses'[f] = IF FamilyOf[c] = f
                             THEN IF Progressed(out) THEN 0 ELSE familyMisses[f] + 1
                             ELSE familyMisses[f]
      BY <2>1, <2>2 DEF ChargeLedger, TrackerTypeOK
    <3> HIDE DEF of
    <3>5. /\ of[c] /\ Progressed(out) => MissesSinceProgress(of)' = 0
          /\ of[c] /\ ~Progressed(out) =>
               MissesSinceProgress(of)' = MissesSinceProgress(of) + 1
          /\ ~of[c] => MissesSinceProgress(of)' = MissesSinceProgress(of)
      BY <1>1, ExecutionMisses
    <3>6. familyMisses'[f] = MissesSinceProgress(of)'
      BY <3>1, <3>2, <3>3, <3>5
    <3> QED
      BY <3>6 DEF of
  <2> QED
    BY <2>3, <2>4 DEF LedgerInv
<1>2. CASE ~Executions
  <2>1. Extends /\ Same("progress.scored")
    BY <1>2, StepWrites DEF WriterTable
  <2>2. UNCHANGED <<hypothesisMisses, familyMisses>>
    <3>1. CASE Refusals
      BY <3>1 DEF Refusals, RefuseCommand, NoteBlocked
    <3>2. CASE ~Refusals
      BY <1>2, <3>2, OthersKeepAccounts DEF trackerVars
    <3> QED
      BY <3>1, <3>2
  <2>3. \A of : MissesSinceProgress(of)' = MissesSinceProgress(of)
    <3> SUFFICES ASSUME NEW of PROVE MissesSinceProgress(of)' = MissesSinceProgress(of)
      OBVIOUS
    <3>1. /\ Scored(of, "none")' = Scored(of, "none")
          /\ Scored(of, "progress")' = Scored(of, "progress")
      BY <2>1, ScoredKept
    <3> QED
      BY <3>1 DEF MissesSinceProgress
  <2> QED
    BY <2>2, <2>3 DEF LedgerInv, OfHypothesis, OfFamily
<1> QED
  BY <1>1, <1>2 DEF Executions

LEMMA LedgerInit == Init => LedgerInv
<1> SUFFICES ASSUME Init PROVE LedgerInv
  OBVIOUS
<1>1. ASSUME NEW of PROVE MissesSinceProgress(of) = 0
  <2>1. Since(Scored(of, "none"), Scored(of, "progress")) = {}
    BY NothingNoted DEF Scored, Since
  <2> QED
    BY <2>1, FS_EmptySet, MissesAre
<1> QED
  BY <1>1 DEF Init, TrackerInit, LedgerInv

\* Of one hypothesis, and of one family, the trace never holds more executions
\* without progress since its last progress than the category allows.
THEOREM WasteInTraceIsBounded == Spec => []WasteBoundedInTrace
<1>1. LedgerInv /\ WasteWithinBudget => WasteBoundedInTrace
  BY DEF LedgerInv, WasteWithinBudget, WasteBoundedInTrace, OfHypothesis, OfFamily
<1> QED
  BY RunTypeInv, RunStaysWithinBudgets, LedgerInit, LedgerStep, <1>1, PTL DEF Spec
=============================================================================
