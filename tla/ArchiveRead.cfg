\* Every small archive, whole or cut off, read in every order of calls.
SPECIFICATION FairSpec
CONSTANTS
  SARMAG = 2
  AR_HEADER_SIZE = 2
  MAX_READ_BUFF = 2
  MaxSize = 4
  meta = meta
  load = load
  stray = stray
  Names = {meta, load}
  Strays = {stray}
  Archives <- MCArchives
  Leftovers <- MCLeftovers
INVARIANTS
  TypeOK
  TableFaithful
  GrabWhole
  CallsFit
  ExtractWhole
PROPERTIES
  Finishes
CHECK_DEADLOCK FALSE
