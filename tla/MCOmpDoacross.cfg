SPECIFICATION FairSpec
CONSTANTS
  Tasks = {0, 1, 2}
  LastGeneration = 2
  Shape <- MCShape
  Sinks <- MCSinks
  Owner <- MCOwner
  Nowait <- MCNowait
INVARIANTS DependencesHonoured RetainedGenerations
PROPERTIES AllFinish
