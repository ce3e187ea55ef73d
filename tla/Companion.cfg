CONSTANTS
    Slots = {s1, s2}
    MaxMessages = 3
    Volatile = {v}
    OFFLINE_QUEUE_SIZE = 1
    MaxRecords = 2
    CompactTo = 1
    Faults = {"write", "mark", "reboot"}
    MaxTroubles = 1
SPECIFICATION FairSpec
INVARIANTS MarkedWasReceived AckedNotReplayed
PROPERTIES  EveryMessageDelivered
