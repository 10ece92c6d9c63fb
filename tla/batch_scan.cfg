CONSTANTS
  Keys = {1, 2, 3, 4, 5}
  NoKey = NoKey
  BatchSize = 2
SPECIFICATION FairSpec
CHECK_DEADLOCK FALSE
INVARIANTS TypeOK NoneSkipped NoneTwice
PROPERTY WalkEnds
