CONSTANTS
  RingSize = 5
  Events <- MCEvents
SPECIFICATION FairSpec
INVARIANT TypeOK
PROPERTIES
  FrontIsStable
  ImplementsQueue
  NoEventLeft
