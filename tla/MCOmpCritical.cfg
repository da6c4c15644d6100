SPECIFICATION FairSpec
CONSTANTS
  Threads = {1, 2, 3}
  Spellings = {"sum", "Sum", "$atomic"}
  Lower <- MCLower
  SimpleLock = SimpleLock
  Nests <- MCNests
  MaxVisits <- MCMaxVisits
  MaxSets <- MCMaxSets
INVARIANTS MutualExclusion NoLostWakeup
PROPERTIES AllServed
