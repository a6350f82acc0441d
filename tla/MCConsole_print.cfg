SPECIFICATION Spec
CONSTANTS
    VGA_WIDTH = 6
    VGA_HEIGHT = 3
    PageCells = 22
    KPRINT_BUFF_LEN = 18
    MAX_STACK_TRACE_SIZE = 3
    Messages <- KernelMessages
    Traces <- CallChains
INVARIANTS TypeOK FormatExact ScreenShowsText TraceInOrder
CHECK_DEADLOCK FALSE
