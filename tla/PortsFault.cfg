SPECIFICATION FairSpec
CONSTANTS
  NumPorts <- MCPorts
  NumSlots <- EnoughSlots
  EndpointNumbers <- OneHid
  SuperSpeedPorts <- MCSuperSpeed
  HasScratchpad = TRUE
  MaxUnplugs = 0
  MaxFaults = 1
PROPERTIES WaiterIsServed
CHECK_DEADLOCK FALSE
