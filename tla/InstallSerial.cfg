\* Two invocations one after another, each killed at any point or not.
SPECIFICATION FairSpec
CONSTANTS
  N = 3
  Parent <- MCParent
  Kind <- MCKind
  one = one
  two = two
  Packages = {one, two}
  Contents <- MCContents
  MaxRuns = 2
  NoPackage = NoPackage
  Together = 1
  Frail <- MCFrail
INVARIANTS
  CleanSlate
  InstallWhole
  RowBacked
PROPERTIES
  NothingForeign
  ImplementsInstaller
  
CHECK_DEADLOCK FALSE
