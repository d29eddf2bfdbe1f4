SPECIFICATION Spec
CHECK_DEADLOCK FALSE
CONSTANTS
    CallIds = {}
    Texts <- MCTexts
    Outputs <- MCOutputs
    Findings = {"plain", "secret"}
    NoText = "none"
    Refusal = "refusal"
    Written = "written"
    FlagTexts = {"flag"}
    LongTexts = {"long"}
    Redacted <- MCRedacted
    SpilledTexts = {"pages"}
    ReadBack <- MCReadBack
    Responses <- MCResponses
    Configs <- MCConfigs
    MaxSteps = 3
    MaxLimit = 4
    MaxMessages = 5
    Budget = 1
INVARIANTS TypeOK ReplayReproduces QueueAligned AskedAsRecorded ThinkingHonest TurnsReturned RequestsAnswered
