CONSTANTS
    c1 = c1
    c2 = c2
    n1 = n1
    n2 = n2
    Contacts = {c1, c2}
    Names = {n1, n2}
    NoName = NoName
    InitialNames <- MCInitialNames
    MaxMessages = 2
    MaxAttempts = 2
    MaxSends = 3
    MAX_PENDING_ACKS = 2
    MAX_ACKED = 1
    Modulus = 4
    Lifetimes = {2}
    MaxLag = 1
    Faults = {"append", "mark", "reboot", "remove", "overwrite", "rename"}
    MaxTroubles = 1
SPECIFICATION Spec
CHECK_DEADLOCK TRUE
INVARIANTS UnsettledIsTracked 
PROPERTIES RecordsChangeForCause Settles
