CONSTANTS
  Elf <- MCElf
  EntryOffset = 1
  PageSize = 3
  Pages = 6
  MapBuffer = 2
  MaxFailures = 1
SPECIFICATION Spec
CHECK_DEADLOCK FALSE
INVARIANTS
  TypeOK
  EntersIntactKernel
PROPERTIES
  WritesOwnPages
  Boots
