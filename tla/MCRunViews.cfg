SPECIFICATION ViewSpec
CHECK_DEADLOCK FALSE
CONSTANTS
    Flags = {f1, f2}
    Approvers = {a1, a2}
    Run = run
    NoFlag = none
    MaxWork = 2
SYMMETRY Symmetry
INVARIANTS TypeOK ReaderSeesPrefix ManifestWasDecided SeqsIncrease FilesAgree RowsBacked HeldIsOffered
