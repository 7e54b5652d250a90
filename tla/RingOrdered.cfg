SPECIFICATION FairSpec
CONSTANTS
  BufSize = 5
  Items <- MCItems
  MaxOutstanding = 3
  InOrder = TRUE
INVARIANTS TypeOK NothingTorn
PROPERTIES NeverOverwritten ImplementsFifo NothingStuck
