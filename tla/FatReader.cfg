SPECIFICATION Spec
CONSTANTS
  RootCluster = 1
  TotalClusters = 3
  FatSize = 8
  Slots = 2
INVARIANTS
  TypeOK
  NothingMissed
  OnlyReachable
PROPERTIES
  ReadOnce
  StepsRunOut
  Explores
  Termination
