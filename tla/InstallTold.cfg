\* One invocation whose tar(1) fails.
SPECIFICATION Spec
CONSTANTS
  N = 3
  Parent <- MCParent
  Kind <- MCKind
  one = one
  two = two
  Packages = {one, two}
  Contents <- MCContents
  MaxRuns = 1
  NoPackage = NoPackage
  Together = 1
  Frail <- MCFrail
INVARIANTS
  ToldIsInstalled

CHECK_DEADLOCK FALSE
