SPECIFICATION Spec
CONSTANTS
    a = a
    b = b
    c = c
    Keys = {a, b, c}
    Own = {}
    MaxRecords = 2
    CompactTo = 1
    MaxId = 5
    None = None
    Garbage = Garbage
    Backends = {"spiffs"}
    WriteFaults <- FullHeader
    ReplaceFaults <- NoFaults
    Cuts <- Never
    Damages <- Never
INVARIANTS
    AcknowledgedSurvive
