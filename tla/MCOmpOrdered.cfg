SPECIFICATION FairSpec
CONSTANTS
  Tasks = {0, 1, 2}
  LastGeneration = 3
  Trip <- MCTrip
  Owner <- MCOwner
  Nowait <- MCNowait
INVARIANT LogicalOrder
PROPERTIES ImplementsRegions AllFinish
