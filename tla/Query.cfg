\* One process from its command line to its end, over any input of the instance.
SPECIFICATION Spec
CONSTANTS
  NoWord = NoWord
  Dashed = Dashed
  Slash = "/"
  Files <- MCFiles
  Texts <- MCTexts
  Values = {v, w, Empty}
  Empty = Empty
  Garbage = Garbage
  Unknown = Unknown
  NoKey = NoKey
  Commands <- MCCommands
  Names <- MCNames
  Lost = Lost
  Bad = Bad
  NoOp = NoOp
  Size = 65536
  v = v
  w = w
  Sessions <- MCSessions
  CommandsIn <- MCCommandsIn
  NameLength = 4095
INVARIANTS
  TypeOK
  ParsedAsGiven
  InfoWordKept
  ListFaithful
  PrintFaithful
  RowFromInfo
  CrashExplained
  DepsFaithful
  GroupsKept
  PathsApart
  PathsFit
PROPERTY
  Ends
CHECK_DEADLOCK FALSE
