CONSTANTS
  NumPages = 3
  PAGE_SIZE = 32
  Sizes = {3, 8, 12, 16}
SPECIFICATION Spec
INVARIANTS TypeOK FreelistExact PagesPartitioned ObjectInPage
PROPERTY ImplementsBlockAllocator
CHECK_DEADLOCK FALSE
