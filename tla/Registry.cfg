\* Two processes that record and ask, while packages are published.
SPECIFICATION Spec
CONSTANTS
  nano = nano
  vim = vim
  gcc = gcc
  Names = {nano, vim, gcc}
  pkgID <- MCpkgID
  pkgBranch <- MCpkgBranch
  Releases <- MCReleases
  SYS_ARCH = "amd64"
  p1 = p1
  p2 = p2
  Callers = {p1, p2}
  HalfInt = 4
  Digits <- MCDigits
  MaxRows = 2
  NoName = NoName
  NULL = NULL
  Garbage = Garbage
SYMMETRY MCSymmetry
INVARIANTS
  TypeOK
  RowNamed
  AnswerRight
  KnownIsTold
  ArchiveNameRight
CHECK_DEADLOCK FALSE
