SPECIFICATION Spec

CONSTANTS
    MaxFaults = 0
    MaxStarts = 2
    MAX_SAVE_STATE_RETRIES = 2

INVARIANT
    UpdateOwnsRadio
