\* Two invocations that share TMP_DIR.
SPECIFICATION Spec
CONSTANTS
  N = 3
  Parent <- MCParent
  Kind <- MCKind
  one = one
  two = two
  Packages = {one, two}
  Contents <- MCContents
  MaxRuns = 2
  NoPackage = NoPackage
  Together = 2
  Frail = {}
INVARIANTS
  GivenIsInstalled

CHECK_DEADLOCK FALSE
