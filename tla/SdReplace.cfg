CONSTANTS
    d1 = d1
    d2 = d2
    None = None
    Torn = Torn
    Data <- MCData
    Faults <- FaultsRecoverable
    OverwriteRename = FALSE
SPECIFICATION FairSpec
INVARIANTS CopySurvives
PROPERTIES ImplementsCell PendingIsPromoted
