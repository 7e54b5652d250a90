SPECIFICATION FairSpec
CONSTANTS
  NumPorts <- MCPorts
  NumSlots <- EnoughSlots
  EndpointNumbers <- TwoHid
  SuperSpeedPorts <- MCSuperSpeed
  HasScratchpad = TRUE
  MaxUnplugs = 0
  MaxFaults = 0
INVARIANTS ProgressOwed ConfiguredForReal ScratchpadKept
PROPERTIES DeviceIsPolled WaiterIsServed ImplementsFairLock
CHECK_DEADLOCK FALSE
