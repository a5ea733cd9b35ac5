\* Every small package over any prefix, on inode numbers that may collide.
SPECIFICATION FairSpec
CONSTANTS
  N = 3
  Parent <- SmallParent
  c1 = c1
  c2 = c2
  Contents = {c1, c2}
  Torn = Torn
  Unreadable = Unreadable
  IntRange = 2
  Sources <- AnySources
  Roots <- AnyPrefixes
  DiskMayFill = TRUE
INVARIANTS
  TypeOK
  TableSound
PROPERTIES
  BystandersKept
  Terminates
CHECK_DEADLOCK FALSE
