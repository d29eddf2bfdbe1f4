SPECIFICATION Spec
CHECK_DEADLOCK FALSE
CONSTANTS
    Commands   <- BudgetCommands
    Hypotheses = {"h1", "h2", "h3"}
    Families   = {"f1", "f2"}
    KeyOf      <- BudgetKeys
    FamilyOf   <- BudgetFamilies
    Digests    <- MCDigests
    PerHypothesis = 1
    PerFamily = 2
    NoProgressShift = 2
    ErrorShift = 2
    Flags      = {"flag"}
    Payloads   = {"payload"}
    FlagFacts  <- BudgetFlagFacts
    CallIds    <- MCCallIds
    CommandText <- BudgetText
    ToolOf     <- BudgetToolOf
    ToolOutputs <- BudgetOutputs
    Slow       = {"c1", "c2"}
    Deaf       = {"c1"}
    DispatchRefusal <- Refusal
    MaxSteps = 4
    MaxMessages = 4
    MaxCost = 7
    CallCosts = {1, 2}
    MaxCallCost = 2
    UtilityCosts = {1}
    MaxUtilityCost = 1
    MaxExtras = 1
    HasFiles = TRUE
    Policies = {"gated"}
    Submit = submit_flag
    NoSubject = none
INVARIANT FinalFigureRecorded
