\* Two invocations in any interleaving, killed at any point.
SPECIFICATION Spec
CONSTANTS
  N = 2
  Parent <- BesideParent
  Kind <- BesideKind
  one = one
  two = two
  Packages = {one}
  Contents <- BesideContents
  MaxRuns = 2
  NoPackage = NoPackage
  Together = 2
  Frail <- BesideFrail
INVARIANTS
  TypeOK
  LogsTruthful
PROPERTIES
  LogsApart
CHECK_DEADLOCK FALSE
