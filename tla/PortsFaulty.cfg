SPECIFICATION Spec
CONSTANTS
  NumPorts <- MCPorts
  NumSlots <- TooFewSlots
  EndpointNumbers <- OneHid
  SuperSpeedPorts <- MCSuperSpeed
  HasScratchpad = TRUE
  MaxUnplugs = 1
  MaxFaults = 1
INVARIANTS TypeOK AddressingExclusive DefaultStateExclusive OneSlotPerPort CommandsBounded
  TransfersBounded
PROPERTIES NoResetAfterAddress PhaseInOrder ImplementsLock
CHECK_DEADLOCK FALSE
