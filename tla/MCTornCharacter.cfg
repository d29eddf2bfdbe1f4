SPECIFICATION Spec
CHECK_DEADLOCK FALSE
CONSTANTS
    Flags = {f1}
    Approvers = {a1}
    Run = run
    NoFlag = none
    MaxWork = 2
INVARIANT TailNeverRaises
