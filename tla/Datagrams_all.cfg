SPECIFICATION Spec
CONSTANTS
  Ids = {"a", "b", "c"}
  Loads = {{"a"}, {"b", "c"}}
  Length <- MCLength
  Echo = {"a", "c"}
  PeerPayload = 2
  MaxTwice = 1
  Unit = 2
  MTU = 8
  HeadersLen = 1
  FragmentHeaderLen = 2
  IPV6OUTNBUFS = 4
  REASSEMBLY_TABLE_MAX_SIZE = 2
  REASSEMBLY_MAX_TIME = 2
  MaxCommands = 2
  MaxLost = 1
  M = 8
  HeaderLen = 2
  Lengths = {2, 3, 4, 5}
  MAXFWDTABENTRIES = 3
  IPV6_ASIZE = 2
  BYTE = 1
  PrefixLens = {1, 2}
  Ifaces = {0, 1}
  Procs = {"p1"}
  MaxInserts = 4
CHECK_DEADLOCK FALSE
INVARIANTS    SortedPermutation LongestPrefixMatch ExchangesRight
PROPERTIES ExchangesEnd ChecksumRight DatagramsEnd
