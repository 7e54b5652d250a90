SPECIFICATION Spec
CONSTANTS
  BufSize = 5
  Items <- MCItems
  MaxOutstanding = 3
  InOrder = FALSE
INVARIANTS NothingTorn
