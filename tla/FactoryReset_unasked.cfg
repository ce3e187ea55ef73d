SPECIFICATION Spec

CONSTANTS
    MaxMessages = 3
    MaxFailures = 3
    MaxCuts = 1
    MESSAGE_STORE_RETRY_QUEUE_CAPACITY = 2

INVARIANT
    ErasedOnRequest

