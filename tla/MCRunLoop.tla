------------------------------ MODULE MCRunLoop ------------------------------
(* Instances of RunLoop.  Each configuration takes one of the two scenarios   *)
(* below: evidence for flags, and budgets of steps, messages and money.       *)
EXTENDS RunLoop, TLC

MCCallIds == (1 .. MaxSteps) \X (0 .. MaxExtras)

Output(digest, signal, ok, shows, bait, big) ==
    [digest |-> digest, signal |-> signal, ok |-> ok, shows |-> shows,
     bait |-> bait, big |-> big]

Nothing == Output(1, "low", TRUE, {}, {}, FALSE)
Refusal == Output(0, "other", FALSE, {}, {}, FALSE)

MCDigests == 0 .. 3

-----------------------------------------------------------------------------
(* Flags: one the challenge's wrapper attests, one in a wrapper the agent     *)
(* made up whose format does not match, and a lure from the description.      *)

MCFlags    == {"flag", "odd", "lure"}
MCPayloads == {"payload", "oddpayload", "short"}

Fact(payload, size, attested, lure, formatOk) ==
    [payload |-> payload, wrapped |-> TRUE, size |-> size, attested |-> attested,
     plausible |-> TRUE, lure |-> lure, formatOk |-> formatOk]

MCFlagFacts == ("flag" :> Fact("payload", 9, TRUE, FALSE, TRUE))
            @@ ("odd"  :> Fact("oddpayload", 9, FALSE, FALSE, FALSE))
            @@ ("lure" :> Fact("short", 4, TRUE, TRUE, TRUE))

\* Evidence: a command that may find anything, an echo of the payload, a file
\* the agent writes the flag into, and a call the dispatcher refuses.
EvidenceCommands == {"find", "echo", "write", "bad"}
EvidenceText == ("find" :> {}) @@ ("echo" :> {"payload", "short"})
             @@ ("write" :> {"flag", "payload"}) @@ ("bad" :> {})
EvidenceToolOf == ("find" :> "exec") @@ ("echo" :> "exec")
               @@ ("write" :> "write_file") @@ ("bad" :> "malformed")
EvidenceKeys == [c \in EvidenceCommands |-> "h"]
EvidenceFamilies == [c \in EvidenceCommands |-> "f"]
EvidenceOutputs == {Nothing,
                    Output(2, "high", TRUE, {"payload"}, {}, FALSE),
                    Output(2, "high", TRUE, {"flag", "payload", "lure", "short"}, {}, FALSE),
                    Output(2, "high", TRUE, {"odd", "oddpayload"}, {}, FALSE),
                    Output(3, "high", TRUE, {"odd", "oddpayload"}, {"odd"}, FALSE)}

-----------------------------------------------------------------------------
(* Budgets: three hypotheses in one family, one of them reached from another  *)
(* family too, and a malformed call; a flag that no output shows.             *)

BudgetCommands == {"c1", "c2", "c3", "bad"}
BudgetText == [c \in BudgetCommands |-> {}]
BudgetToolOf == [c \in BudgetCommands |-> IF c = "bad" THEN "malformed" ELSE "exec"]
BudgetKeys == ("c1" :> "h1") @@ ("c2" :> "h1") @@ ("c3" :> "h2") @@ ("bad" :> "h3")
BudgetFamilies == ("c1" :> "f1") @@ ("c2" :> "f2") @@ ("c3" :> "f1") @@ ("bad" :> "f1")
BudgetOutputs == {Nothing, Output(2, "high", TRUE, {}, {}, TRUE),
                  Output(3, "other", FALSE, {}, {}, TRUE)}
BudgetFlagFacts == "flag" :> Fact("payload", 9, TRUE, FALSE, TRUE)
=============================================================================
