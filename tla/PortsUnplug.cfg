SPECIFICATION Spec
CONSTANTS
  NumPorts <- MCPorts
  NumSlots <- EnoughSlots
  EndpointNumbers <- OneHid
  SuperSpeedPorts <- MCSuperSpeed
  HasScratchpad = TRUE
  MaxUnplugs = 1
  MaxFaults = 0
INVARIANTS NoneLeftWaiting
CHECK_DEADLOCK FALSE
