SPECIFICATION FairSpec
CONSTANTS
  Inside <- MCInside
  Hosts = {"h1"}
  Home <- MCHome
  Prefixes = {"p1"}
  Adverts <- MCAdverts
  Messages <- MCMessages
  MAXNDENTRY = 3
  MAXFWDTABENTRIES = 2
  MaxBusy = 1
INVARIANTS NeighboursKnown NeighbourHasRow RouterFollowed
PROPERTIES SetUpEnds
