SPECIFICATION LinkSpec
CONSTANTS
  None = None
  Empty = Empty
  Old = Old
  Dir = Dir
  Processes = {p1, p2}
  Count = 2
  Paths = {1, 2}
  Layouts <- MCLayouts
  Prior = {None, Old, Dir}
  MaxFaults = 3
  MayCrash = TRUE
  PriorRuntime = {"none", "raw", "prepared", "foreign"}
  Leftover = {"none", "partial"}
SYMMETRY Symmetry
INVARIANTS AllOrNothing PreviousOutputSurvives RuntimeUsable OnlyFaultsRefuse
