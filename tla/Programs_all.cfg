SPECIFICATION Spec
CONSTANTS
  LF_BLKSIZ = 2
  LF_IBLEN = 2
  IBPERSECTOR = 2
  NIB = 4
  NDB = 6
  LF_NUM_DIR_ENT = 2
  FileNames = {"f", "g", "h"}
  Handles = {1, 2}
  Loads <- MCLoads
  Counts = {0, 3}
  MaxSize = 6
  MaxCalls = 6
  NM_PRELEN = 8
  NM_REPLLEN = 8
  NM_MAXLEN = 12
  NNAMES = 12
  CharSigned = 8
  NAMESPACE = 3
  DevNames <- MCDevNames
  DevPrefix <- MCDevPrefix
  General <- MCGeneral
  Mounts <- MCMounts
  Names <- MCNames
  Leftovers <- MCLeftovers
  Words = {"a", "f", "g", "x", "z"}
  Quotes = {"'", "dq"}
  Keys = {"a", " ", "'", "&", "<", ">"}
  SHELL_BUFLEN = 7
  SHELL_MAXTOK = 5
  MaxLine = 7
  FirstWord <- MCFirst
  Pids = {1, 2, 3}
  Lines <- MCLines
  Programs <- MCPrograms
  Builtins <- MCBuiltins
  Exit <- MCExit
  MaxLines = 4
  Years = 28
  Hours = {0, 1, 2, 22, 23}
  MAX_RETRIES = 3
  ETH_NUM_MCAST = 2
  Macs = {"m", "n"}
  MaxControls = 5
CHECK_DEADLOCK FALSE
INVARIANTS DiskSound NamesMapped CommandsRight  EtherRight
PROPERTIES FilesKept ProgramsEnd
