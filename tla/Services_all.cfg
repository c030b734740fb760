SPECIFICATION Spec
CONSTANTS
  TY_IBUFLEN = 3
  TY_OBUFLEN = 3
  TY_EBUFLEN = 7
  UART_FIFO_SIZE = 2
  Readers = {"r1"}
  Writers = {"w1"}
  Keys = {"a", "ctl", "nl", "erase", "kill", "eof"}
  Modes = {"cooked", "cbreak", "raw"}
  MaxTyped = 4
  MaxCalls = 2
  MaxCount = 2
  MB = 2
  MinHeap = 1
  Regions <- MCRegions
  Sizes = {1, 2, 3}
  MaxOwned = 4
  NBPOOLS = 1
  BufSizes = {1}
  NumBufs = {2}
  PoolUsers = {"r1", "w1"}
  Procs = {"r1", "w1", "w2"}
  NPORTS = 1
  PT_MSGS = 3
  Counts = {1}
  MaxSends = 3
  MaxSeq = 3
CHECK_DEADLOCK FALSE
INVARIANTS MemorySound PortsSound
PROPERTIES InputRight OutputRight CallsReturn
