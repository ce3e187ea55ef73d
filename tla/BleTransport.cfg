SPECIFICATION Spec

CONSTANTS
    FRAME_QUEUE_SIZE = 1
    MaxLinks = 2
    MaxWrites = 3
    MaxEvents = 2
    MaxPins = 2
    MaxFaults = 1
INVARIANTS   BondsMatchPin
PROPERTIES ServiceReturns RotationEnds
