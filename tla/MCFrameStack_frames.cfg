SPECIFICATION Spec
CONSTANTS
    PAGE_SIZE = 8
    Word = 128
    RegionStart = 24
    RegionSize = 48
    KernelFrames = 2
    MetadataSize = 16
    MinimumSize = 32
    Maps <- MemoryMaps
INVARIANTS TypeOK FramesConserved FramesUsable
PROPERTY ImplementsBlockAllocator
CHECK_DEADLOCK FALSE
