----------------------------- MODULE MCNeighbour -----------------------------
EXTENDS Neighbour
MCInside == {1}
MCHome == [h \in Hosts |-> 1]
MCAdverts == [opts : {<<"lladdr", "prefix">>, <<"lladdr", "other", "prefix">>}, prefix : Prefixes]
Msg(t, a, o) == [type |-> t, src |-> a, opt |-> o]
MCMessages ==
  {Msg("NS", "h1", TRUE), Msg("NS", "h1", FALSE), Msg("NS", Unspec, FALSE), Msg("NS", RouterLink, TRUE),
   Msg("NS", "p1", TRUE), Msg("NA", "h1", TRUE), Msg("NA", RouterLink, TRUE)}
=============================================================================
