SPECIFICATION Spec
CHECK_DEADLOCK FALSE
CONSTANTS
    Attempts = 2
    MaxRetryAfter = 3
    MaxBackoff = 3
    Delays = {1, 9}
    NoDelay = none
    Reports <- MCReports
    Models <- MCModels
    Registry <- MCRegistry
    Retired <- MCRetired
    MainModels <- MCMainModels
    NamedUtilities <- MCNamedUtilities
    Machines <- MCMachines
    ApiKeyGiven = FALSE
    Runs <- MCRuns
    NoRun = norun
    NotGiven = unset
    Malformed = malformed
    CostFlags = {unset, 0}
    CostSettings = {500, malformed}
    DefaultMaxCost = 300
    PolicyFlags = {unset, "gated"}
    PolicySettings = {"strict"}
    MaxTotals = {700}
    Gated <- MCGated
    MaxSteps = 2
INVARIANTS TypeOK RetryBounded EveryTokenBilledOnce NoContainerOutlives SuiteOvershootBounded OnlyBrokenRunsUncounted ReportTellsAll NoCallAfterRefusal
PROPERTY SuiteEnds
