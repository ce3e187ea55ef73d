CONSTANTS
    d1 = d1
    d2 = d2
    d3 = d3
    None = None
    Torn = Torn
    Data <- MCData
    Faults <- FaultsRecoverable
    CallerRecovers = TRUE
SPECIFICATION FairSpec
CHECK_DEADLOCK TRUE
INVARIANTS CopySurvives
PROPERTIES ImplementsCell RecoveryFinishes
