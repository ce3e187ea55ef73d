SPECIFICATION Spec

CONSTANTS
    c1 = c1
    c2 = c2
    None = None
    Contacts = {c1, c2}
    MAX_PENDING_REQUESTS = 2
    MAX_LOGIN_ENTRIES = 1
    MAX_DISCOVERY_PENDING = 1
    MAX_RESPONSES = 1
    Modulus = 3
    Timeouts = {1}
    Retention = 1
    MaxLag = 1
    MaxTags = 2
    MaxReplies = 2
    MaxTroubles = 1
INVARIANTS TablesAgree ResponsesAnswer
PROPERTIES EndsOnceAndInTime SlotsKept OperationsEnd
