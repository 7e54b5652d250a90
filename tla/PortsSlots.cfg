SPECIFICATION Spec
CONSTANTS
  NumPorts <- MCPorts
  NumSlots <- TooFewSlots
  EndpointNumbers <- OneHid
  SuperSpeedPorts <- MCSuperSpeed
  HasScratchpad = TRUE
  MaxUnplugs = 0
  MaxFaults = 0
INVARIANTS ScratchpadKept
CHECK_DEADLOCK FALSE
