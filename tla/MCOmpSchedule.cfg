CONSTANTS
  MaxInt = 7
  Loops <- MCLoops
SPECIFICATION FairSpec
INVARIANTS EachIterationOnce LastprivateIsSequential
PROPERTY LoopEnds
