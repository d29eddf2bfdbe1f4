SPECIFICATION Spec
CHECK_DEADLOCK FALSE
CONSTANTS
    Attempts = 2
    MaxRetryAfter = 3
    MaxBackoff = 3
    Delays = {1, 9}
    NoDelay = none
    Reports <- MCReports
    Models <- MCModels
    Registry <- MCRegistry
    Retired <- MCRetired
    MainModels <- MCMainModels
    NamedUtilities <- MCNamedUtilities
    Machines <- MCMachines
    ApiKeyGiven = FALSE
    Runs <- MCRuns
    NoRun = norun
    NotGiven = unset
    Malformed = malformed
    CostFlags = {unset}
    CostSettings = {500}
    DefaultMaxCost = 300
    PolicyFlags = {unset}
    PolicySettings = {unset}
    MaxTotals = {700}
    Gated <- MCGated
    MaxSteps = 2
INVARIANT RemainderKept
