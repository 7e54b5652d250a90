SPECIFICATION Spec
CONSTANTS
  Rows = 3
  Columns = 4
  Width = 6
  Height = 8
  Pitch = 7
  Bar = 5
  Letters = {"A", "B"}
  Strings <- MCStrings
  Displacements <- MCDisplacements
  MaxText = 9
  MaxMoves = 3
INVARIANTS
  HoldsTheText
  ShowsTheText
CHECK_DEADLOCK FALSE
