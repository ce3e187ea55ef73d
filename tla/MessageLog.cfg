SPECIFICATION Spec
CONSTANTS
    a = a
    b = b
    o = o
    Keys = {a, b, o}
    Own = {o}
    MaxRecords = 2
    CompactTo = 1
    MaxId = 5
    None = None
    Garbage = Garbage
    Backends = {"spiffs", "sd"}
    WriteFaults <- EachWriteFaults
    ReplaceFaults <- EachReplaceFaults
    Cuts <- Once
    Damages <- Once
SYMMETRY Symmetry
INVARIANTS  SentMarksSurvive NoDuplicateMessages NextIdIsFree
PROPERTIES CompactsInOrder
