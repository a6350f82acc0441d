SPECIFICATION EntrySpec
CONSTANTS
    Exceptions = {0, 8, 14}
    Lines = {32, 39}
    UserVectors = {3, 32, 128}
    Files = {"f"}
INVARIANTS ModeConsistent HandlerSeesEvent ExceptionInvisible OnlyDevicesInterrupt KernelCallIsACall
