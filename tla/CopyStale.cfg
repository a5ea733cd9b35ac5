\* Two files over two names of one file: what the doc promises fails.
SPECIFICATION Spec
CONSTANTS
  N = 2
  Parent <- FlatParent
  c1 = c1
  c2 = c2
  Contents = {c1, c2}
  Torn = Torn
  Unreadable = Unreadable
  IntRange = 8
  Sources <- FileSources
  Roots <- FilePrefixes
  DiskMayFill = FALSE
INVARIANTS
  ContentFaithful
CHECK_DEADLOCK FALSE
