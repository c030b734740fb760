SPECIFICATION Spec
CONSTANTS
    MAXNATENTRIES = 3
    MAXFWDTABENTRIES = 3
    Inside = {1, 2}
    Hosts = {h1, h2}
    Peers = {p1}
    Router = Router
    NatAddr = NatAddr
    Unspec = Unspec
    Ids = {0, 1}
    MaxPackets = 3
    MaxMoves = 1
    MaxBusy = 1
CHECK_DEADLOCK FALSE
INVARIANTS RepliesReturn BorderKept
 
