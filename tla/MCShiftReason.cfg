SPECIFICATION TrackerSpec
CONSTANTS
    Commands   <- MCCommands
    Hypotheses <- MCHypotheses
    Families   <- MCFamilies
    KeyOf      <- MCKeyOf
    FamilyOf   <- MCFamilyOf
    Digests    = {1, 2}
    PerHypothesis = 2
    PerFamily = 3
    NoProgressShift = 3
    ErrorShift = 2
INVARIANT ShiftReasonIsTrigger
