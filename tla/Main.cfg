CONSTANTS
  Null = Null
  NoFrame = NoFrame
  MaxAttach = 2
  MaxAllow = 2
  MaxSlots = 4096
  Inputs <- MCInputs
  Argument <- MCArgument
  Disk <- MCDisk
  DefaultConf <- MCConf
  DefaultPid <- MCPid
  DefaultLog <- MCLog
  Frames <- MCFrames
  Size <- MCSize
  Octet <- MCOctet
  Address <- MCAddress
  Wire <- MCWire
  Budget <- MCBudget
  Commands <- MCCommands
  Burst = 2
SPECIFICATION MainFairSpec
INVARIANTS
  ReadsInBounds FilterLosesNothing ParserExact
  NeverFallsOpen CommandLineWins NamesFit
  AdmissionExact CommandIsOver ParentToldTruth LogKept LogFollows
PROPERTIES
  ParentAnswered RoundsEnd TermStops
CHECK_DEADLOCK FALSE
