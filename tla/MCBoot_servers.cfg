SPECIFICATION BootSpec
CONSTANTS
    E = 64
    PAGE_SIZE = 2
    LowFrames = 2
    EarlyFrames = 1
    TextPages = 1
    BssPages = 1
    RodataPages = 1
    DataPages = 1
    StackPages = 1
    HeapPages = 64
    KernelPd = 8
    UserStackTop = 320
    UserStackPages = 4
    Images <- ServerImages
    Segments <- AllSegments
    MaxSegments = 2
    MemorySize = 128
    NO_MEMMAPS = 3
    NO_MODULES = 2
    Maps <- PlainMap
    Placements <- ServerPlacements
INVARIANT BootCompletes
INVARIANT UserFramesPrivate
INVARIANT ProgramInPlace
INVARIANT HandoverAgrees
INVARIANT ProgramDelivered
INVARIANT KernelInEveryDirectory
CHECK_DEADLOCK FALSE
