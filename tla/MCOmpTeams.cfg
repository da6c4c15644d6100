CONSTANTS
  r1 = r1
  w1 = w1
  w2 = w2
  w3 = w3
  Roots = {r1}
  Workers = {w1, w2, w3}
  ThreadLimit = 3
  MaxActiveLevels = 2
  NThreads <- MCNThreads
  Dynamic = FALSE
  Processors = 2
  IfValues = {0, 1}
  Clauses = {0, 2}
  SetValues = {1}
  TpValues = {7}
  SpawnMayFail = TRUE
  MaxDepth = 2
  MaxForks = 3
SPECIFICATION Spec
INVARIANTS ThreadLimitRespected IcvScoped ThreadprivatePersists
CHECK_DEADLOCK FALSE
