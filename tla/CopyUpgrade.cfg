\* Every small package over every prefix it can be laid over; the disk may fill.
SPECIFICATION UpgradeSpec
CONSTANTS
  N = 4
  Parent <- TreeParent
  c1 = c1
  c2 = c2
  Contents = {c1, c2}
  Torn = Torn
  Unreadable = Unreadable
  IntRange = 8
  Sources <- CleanSources
  Roots <- UpgradePrefixes
  DiskMayFill = TRUE
INVARIANTS
  ContentFaithful
  HardLinksPreserved
  AheadCompatible
CHECK_DEADLOCK FALSE
