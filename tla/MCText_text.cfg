SPECIFICATION MCSpec
INVARIANTS NothingLeft MeansItsList FollowsBrackets MeansItsItems ParsesWhatIsWritten WordsComeBack Evaluates
PROPERTIES VisitsItsItems LoopsEnd
CONSTANTS
  All = 7
  MaxTokens = 3
  Space = 0
  Semicolon = 9
  NVars = 5
  IntMin <- MCIntMin
  IntMax = 7
  Wild = 7
  MaxFiles = 2
  MaxStarts = 2
  Commands <- MCCommands
  FilesOf <- MCFilesOf
  NoValue = NoValue
  Missing = Missing
  NotANumber = NotANumber
  Nan = Nan
  Undefined = Undefined
  Parts = {"for", "if", "expand", "parse", "set"}
CHECK_DEADLOCK FALSE
