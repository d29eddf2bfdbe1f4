SPECIFICATION Spec
CHECK_DEADLOCK FALSE
CONSTANTS
    Commands   <- EvidenceCommands
    Hypotheses = {"h"}
    Families   = {"f"}
    KeyOf      <- EvidenceKeys
    FamilyOf   <- EvidenceFamilies
    Digests    <- MCDigests
    PerHypothesis = 2
    PerFamily = 3
    NoProgressShift = 2
    ErrorShift = 2
    Flags      <- MCFlags
    Payloads   <- MCPayloads
    FlagFacts  <- MCFlagFacts
    CallIds    <- MCCallIds
    CommandText <- EvidenceText
    ToolOf     <- EvidenceToolOf
    ToolOutputs <- EvidenceOutputs
    Slow       = {"find"}
    Deaf       = {"find"}
    DispatchRefusal <- Refusal
    MaxSteps = 3
    MaxMessages = 60
    MaxCost = 0
    CallCosts = {1}
    MaxCallCost = 1
    UtilityCosts = {}
    MaxUtilityCost = 0
    MaxExtras = 1
    HasFiles = FALSE
    Policies = {"gated", "strict", "auto"}
    Submit = submit_flag
    NoSubject = none
INVARIANTS TypeOK DecidedOnEvidence ObservationsCitable ManifestMatchesTrace
PROPERTY KeepsContract
