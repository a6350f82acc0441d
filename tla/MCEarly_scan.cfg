SPECIFICATION Spec
CONSTANTS
    PAGE_SIZE = 2
    LowEnd = 2
    KernelStart = 2
    KernelEnd = 4
    MemorySize = 14
    NO_MEMMAPS = 3
    NO_MODULES = 2
    Maps <- SomeMaps
    Placements <- SomePlacements
INVARIANT TypeOK
INVARIANT ModulesIntact
INVARIANT ModulesPacked
INVARIANT FreeMemoryIsFree
CHECK_DEADLOCK FALSE
