----------------------------- MODULE MCBenchSuite -----------------------------
(* Instances of BenchSuite: two gated cases and one outside the gate, a       *)
(* retired model no default may choose, and one the registry does not have.   *)
EXTENDS BenchSuite

MCRuns == 1 .. 3
MCGated == <<TRUE, TRUE, FALSE>>

Claude == [provider |-> "anthropic", in |-> 1, out |-> 2, cached |-> 10]
Gemini == [provider |-> "google", in |-> 1, out |-> 1, cached |-> 10]
OldGemini == [provider |-> "google", in |-> 0, out |-> 1, cached |-> 10]
Unlisted == [provider |-> "openai", in |-> 1, out |-> 1, cached |-> 50]

MCModels == {Claude, Gemini, OldGemini, Unlisted}
MCRegistry == {Claude, Gemini, OldGemini}
MCRetired == {OldGemini}
MCMainModels == {Gemini, Unlisted}
MCNamedUtilities == {Claude, Unlisted}

\* A machine that has what every run needs, and those that lack one thing.
Ready ==
    [challenge |-> TRUE, category |-> "shipped", dockerfile |-> TRUE, daemon |-> TRUE,
     image |-> "current", environment |-> {"anthropic"}, keyring |-> {"google"},
     keysFile |-> [keys |-> {}, garbled |-> FALSE]]

MCMachines ==
    {Ready, [Ready EXCEPT !.image = "stale"], [Ready EXCEPT !.image = "none"],
     [Ready EXCEPT !.challenge = FALSE], [Ready EXCEPT !.category = "malformed"],
     [Ready EXCEPT !.keyring = {}, !.keysFile.keys = {"google"}],
     [Ready EXCEPT !.keyring = {}, !.keysFile.garbled = TRUE],
     [Ready EXCEPT !.environment = {}]}

\* A cached prompt with thoughts.
MCReports == {[prompt |-> 2, cached |-> 1, written |-> 1, output |-> 1, thoughts |-> 1]}
=============================================================================
