SPECIFICATION ScanSpec
CONSTANTS
  N = 4
  Modules = {"a", "b", "c"}
  Projects <- MCProjects
  Followed = 0
  Macros = {"X"}
  Predefined = {}
  Statements <- MCStatements
  IncludeLimit = 2
  MaxLines = 8
INVARIANTS DependencesFirst RefusedRightly EmitsRight IncludesIsolated
