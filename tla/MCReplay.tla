------------------------------- MODULE MCReplay -------------------------------
(* Instances of Replay: a model of each provider, and the answers and outputs  *)
(* that make the six causes of a different replay happen.                      *)
EXTENDS Replay

MCOutputs == {"plain", "flag", "long", "secret", "pages"}
MCTexts == MCOutputs \cup {"none", "refusal", "written", "redacted", "lines"}
MCRedacted == [t \in MCTexts |-> IF t = "secret" THEN "redacted" ELSE t]
MCReadBack == [t \in MCTexts |-> IF t = "pages" THEN "lines" ELSE t]

Run == CallOf("run_command", TRUE)
Malformed == CallOf("run_command", FALSE)
Write == CallOf("write_file", TRUE)
Submit == CallOf("submit_flag", TRUE)
MCResponses ==
    {<<Plain("text")>>, <<Run>>, <<Malformed>>,
     <<Plain("text"), Plain("thought"), Write, Run>>,
     <<Plain("redacted"), Plain("thought"), Submit, Write>>}

ModelOf(p, supports, stoppable, ceiling) ==
    [provider |-> p, supports |-> supports, stoppable |-> stoppable, ceiling |-> ceiling]

ConfigOf(m, thinking, policy, limit) ==
    [model |-> m, thinking |-> thinking, policy |-> policy, limit |-> limit]

\* The other combinations of the registry's rows, for a run of one step.
MCRows ==
    {ModelOf("anthropic", TRUE, FALSE, "max"), ModelOf("anthropic", TRUE, TRUE, "max"),
     ModelOf("anthropic", FALSE, TRUE, "off"), ModelOf("openai", TRUE, TRUE, "xhigh"),
     ModelOf("openai", TRUE, TRUE, "high"), ModelOf("google", TRUE, TRUE, "high")}

MCConfigs ==
    {ConfigOf(ModelOf("google", TRUE, FALSE, "high"), "off", "gated", MaxSteps),
     ConfigOf(ModelOf("anthropic", TRUE, TRUE, "high"), "max", "auto", MaxLimit),
     ConfigOf(ModelOf("openai", TRUE, FALSE, "high"), "off", "gated", MaxSteps - 1),
     ConfigOf(ModelOf("openai", FALSE, TRUE, "off"), "low", "strict", MaxSteps - 1)}
    \cup {ConfigOf(m, "medium", "gated", 1) : m \in MCRows}
=============================================================================
