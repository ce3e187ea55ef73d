SPECIFICATION Spec

CONSTANTS
    MaxFaults = 1
    MaxStarts = 2
    MAX_SAVE_STATE_RETRIES = 2
INVARIANTS  RadioFollows AckMeansGone
PROPERTIES ImageIntact RestartFollows LeaseReturned
