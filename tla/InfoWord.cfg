\* --info followed by a word, and then by another option.
SPECIFICATION Spec
CONSTANTS
  NoWord = NoWord
  Dashed = Dashed
  Slash = "/"
  Files <- MCFiles
  Texts <- MCTexts
  Values = {v, w, Empty}
  Empty = Empty
  Garbage = Garbage
  Unknown = Unknown
  NoKey = NoKey
  Commands <- MCCommands
  Names <- MCNames
  Lost = Lost
  Bad = Bad
  NoOp = NoOp
  Size = 65536
  v = v
  w = w
  Sessions <- MCSessions
  CommandsIn <- MCCommandsIn
  NameLength = 4095
INVARIANT
  InfoTakesItsWord
CHECK_DEADLOCK FALSE
