SPECIFICATION Spec
CONSTANTS
  PoolSize = 131072
  MaxDevices = 3
  MaxRings = 2
  Machines <- MCMachines
INVARIANTS
  TypeOK
  FindsController
  BlocksSeparate
  RunsConfigured
PROPERTIES
  TakesOverInOrder
  ControllerRuns
CHECK_DEADLOCK FALSE
