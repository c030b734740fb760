------------------------------- MODULE Icmpv6 -------------------------------
(***************************************************************************)
(* ICMPv6 messages between a NAT box and a host inside, both running this  *)
(* code: how they are built, which of them the receiver's checks let       *)
(* through, and what the handlers answer.  Each station has one netin for  *)
(* the link; it may sleep in the middle of a handler.                      *)
(***************************************************************************)
EXTENDS Integers, Sequences, FiniteSets

CONSTANTS MaxCommands,   \* shell commands in a behaviour
          MaxLost        \* messages the link may lose

VARIABLES cache,     \* addresses that are reachable by the neighbour cache
          asleep,    \* the solicitation netin holds in sleep(3)
          queue,     \* messages at the interface, in order
          prefix,    \* the station has a prefix, hasIPv6Addr
          shell,     \* the second solicitation the command still has to send
          commands, lost,
          echoes,    \* history: echo requests less responses
          met        \* history: pairs of addresses, the solicitor first
ivars == <<cache, asleep, queue, prefix, shell, commands, lost, echoes, met>>

Box == "box"
Host == "host"
Stations == {Box, Host}
Peer(s) == IF s = Box THEN Host ELSE Box
LinkLocal(s) == <<s, "link-local">>
Global(s) == <<s, "global">>
Unspecified == <<"nobody", "unspecified">>

\* What the checks look at: the sum, and the source link-layer option.
Msg(type, src, dest, opt) == [type |-> type, src |-> src, dest |-> dest, opt |-> opt, sum |-> TRUE]
NoMsg == Msg("none", Unspecified, Unspecified, FALSE)
NSOL(src, dest) == Msg("NS", src, dest, TRUE)
NAD(src, dest) == Msg("NA", src, dest, TRUE)
ROUTERS == Msg("RS", Unspecified, Unspecified, FALSE)
\* The header is that of the router's advertisement, all zeros before one has come; the
\* old checksum is cleared before the new one is computed.
ROUTERA(s) == Msg(IF prefix[s] THEN "RA" ELSE "zero", LinkLocal(s), Unspecified, TRUE)
ECHOREQ(s, dest) == Msg("ECHOREQ", Global(s), dest, FALSE)
EchoResp(m) == Msg("ECHORESP", m.dest, m.src, FALSE)
\* sendipv6pkt never fills in the body of a neighbour advertisement.
NEIGHBA(s) == [Msg("zero", Global(s), Unspecified, FALSE) EXCEPT !.sum = FALSE]

\* nsolicit_valid accepts every sum but one and nadvert_valid does too; rsolicit_valid
\* sums bytes of the source address with the message, so that only an unspecified source
\* passes; echoes are not checked.
RsolicitValid(m) == m.sum /\ m.src = Unspecified /\ ~m.opt
RadvertValid(m) == m.sum
NsolicitValid(m) == m.src = Unspecified => ~m.opt
Accepted(m) ==
  CASE m.type = "RS" -> RsolicitValid(m)
    [] m.type = "RA" -> RadvertValid(m)
    [] m.type = "NS" -> NsolicitValid(m)
    [] OTHER -> TRUE

IcmpInit ==
  /\ cache = [s \in Stations |-> {}] /\ asleep = [s \in Stations |-> NoMsg]
  /\ queue = [s \in Stations |-> <<>>] /\ prefix = [s \in Stations |-> FALSE]
  /\ shell = [s \in Stations |-> NoMsg]
  /\ commands = 0 /\ lost = 0 /\ echoes = 0 /\ met = {}

\* queue as it is after s has taken its first message, if it has, and msgs went out.
Write(s, taken, msgs) ==
  LET q == IF taken THEN [queue EXCEPT ![s] = Tail(@)] ELSE queue IN
  \/ queue' = [q EXCEPT ![Peer(s)] = @ \o msgs] /\ UNCHANGED lost
  \/ msgs # <<>> /\ lost < MaxLost /\ lost' = lost + 1 /\ queue' = [q EXCEPT ![Peer(s)] = @ \o Tail(msgs)]
Valid(s) == queue[s] # <<>> /\ asleep[s] = NoMsg /\ Accepted(Head(queue[s]))
Take(s, type) == Valid(s) /\ Head(queue[s]).type = type

-----------------------------------------------------------------------------
\* nsolicit_handler.  A new neighbour is advertised to at once and solicited after 3 s.
NeighbourSolicitOnly(s) ==
  LET m == Head(queue[s]) IN
  /\ Take(s, "NS") /\ Write(s, TRUE, <<NAD(m.dest, m.src)>>)
  /\ cache' = [cache EXCEPT ![s] = @ \cup {m.src}]
  /\ UNCHANGED <<asleep, prefix, shell, commands, echoes, met>>
NeighbourSolicit(s) ==
  LET m == Head(queue[s]) IN
  /\ Take(s, "NS") /\ Write(s, TRUE, <<NAD(m.dest, m.src)>>)
  /\ cache' = [cache EXCEPT ![s] = @ \cup {m.src}]
  /\ asleep' = IF m.src \in cache[s] THEN asleep ELSE [asleep EXCEPT ![s] = m]
  /\ UNCHANGED <<prefix, shell, commands, echoes, met>>
SolicitBack(s) ==
  LET m == asleep[s] IN
  /\ m # NoMsg /\ asleep' = [asleep EXCEPT ![s] = NoMsg]
  /\ Write(s, FALSE, <<NSOL(m.dest, m.src)>>)
  /\ UNCHANGED <<cache, prefix, shell, commands, echoes, met>>
\* nadvert_handler: an advertisement makes no entry.
NeighbourAdvert(s) ==
  /\ Take(s, "NA") /\ Write(s, TRUE, <<>>)
  /\ UNCHANGED <<cache, asleep, prefix, shell, commands, echoes, met>>
\* A host drops router solicitations.
RouterSolicit(s) ==
  /\ Take(s, "RS") /\ Write(s, TRUE, IF s = Host THEN <<>> ELSE <<ROUTERA(s)>>)
  /\ UNCHANGED <<cache, asleep, prefix, shell, commands, echoes, met>>
\* A NAT box drops what does not come from its default router.
RouterAdvert(s) ==
  /\ Take(s, "RA") /\ Write(s, TRUE, <<>>)
  /\ prefix' = [prefix EXCEPT ![s] = @ \/ s = Host]
  /\ UNCHANGED <<cache, asleep, shell, commands, echoes, met>>
RouterOutsideSilent == ~prefix[Box] /\ prefix' = [prefix EXCEPT ![Box] = TRUE] /\ UNCHANGED <<cache, asleep, queue, lost, shell, commands, echoes, met>>
\* The default router advertises outside, and the box at once inside.
RouterOutside ==
  /\ ~prefix[Box] /\ prefix' = [prefix EXCEPT ![Box] = TRUE]
  /\ Write(Box, FALSE, <<[ROUTERA(Box) EXCEPT !.type = "RA"]>>)
  /\ UNCHANGED <<cache, asleep, shell, commands, echoes, met>>
EchoRequest(s) ==
  /\ Take(s, "ECHOREQ") /\ Write(s, TRUE, <<EchoResp(Head(queue[s]))>>)
  /\ UNCHANGED <<cache, asleep, prefix, shell, commands, echoes, met>>
EchoResponse(s) ==
  /\ Take(s, "ECHORESP") /\ Write(s, TRUE, <<>>) /\ echoes' = echoes - 1
  /\ UNCHANGED <<cache, asleep, prefix, shell, commands, met>>
\* A message that is not accepted, or of no known type.
Ignored(s) ==
  /\ queue[s] # <<>> /\ asleep[s] = NoMsg /\ (~Accepted(Head(queue[s])) \/ Head(queue[s]).type = "zero")
  /\ Write(s, TRUE, <<>>)
  /\ UNCHANGED <<cache, asleep, prefix, shell, commands, echoes, met>>

\* Commands of the shell; sendnsolicit solicits from two addresses, one second apart, and
\* is used once there is a prefix.
Command(s, msgs) ==
  /\ commands < MaxCommands /\ commands' = commands + 1 /\ shell[s] = NoMsg
  /\ Write(s, FALSE, msgs)
Sendnsolicit(s) ==
  LET dest == LinkLocal(Peer(s)) IN
  /\ prefix[s] /\ Command(s, <<NSOL(LinkLocal(s), dest)>>)
  /\ shell' = [shell EXCEPT ![s] = NSOL(Global(s), dest)]
  /\ met' = met \cup {<<LinkLocal(s), dest>>, <<Global(s), dest>>}
  /\ UNCHANGED <<cache, asleep, prefix, echoes>>
SendSecond(s) ==
  /\ shell[s] # NoMsg /\ Write(s, FALSE, <<shell[s]>>) /\ shell' = [shell EXCEPT ![s] = NoMsg]
  /\ UNCHANGED <<cache, asleep, prefix, commands, echoes, met>>
Sendecho ==
  /\ prefix[Host] /\ Command(Host, <<ECHOREQ(Host, LinkLocal(Box))>>) /\ echoes' = echoes + 1
  /\ UNCHANGED <<cache, asleep, prefix, shell, met>>
Sendrsolicit == Command(Host, <<ROUTERS>>) /\ UNCHANGED <<cache, asleep, prefix, shell, echoes, met>>
Sendradvert == prefix[Box] /\ Command(Box, <<ROUTERA(Box)>>) /\ UNCHANGED <<cache, asleep, prefix, shell, echoes, met>>
Sendnadvert(s) == prefix[s] /\ Command(s, <<NEIGHBA(s)>>) /\ UNCHANGED <<cache, asleep, prefix, shell, echoes, met>>

Netin6(s) ==
  \/ NeighbourSolicit(s) \/ SolicitBack(s) \/ NeighbourAdvert(s) \/ RouterSolicit(s)
  \/ RouterAdvert(s) \/ EchoRequest(s) \/ EchoResponse(s) \/ Ignored(s)
IcmpNext ==
  \/ \E s \in Stations : Netin6(s) \/ Sendnsolicit(s) \/ SendSecond(s) \/ Sendnadvert(s)
  \/ RouterOutside \/ Sendecho \/ Sendrsolicit \/ Sendradvert
IcmpSpec == IcmpInit /\ [][IcmpNext]_ivars

-----------------------------------------------------------------------------
Quiet == \A s \in Stations : queue[s] = <<>> /\ asleep[s] = NoMsg /\ shell[s] = NoMsg

\* What is sent with a body the receiver's own checks let through: the builders
\* (sendipv6pkt.c:235, nsolicit.c:5) and the validators agree on the sum and the options.
SentIsAccepted ==
  \A s \in Stations : \A k \in DOMAIN queue[s] : queue[s][k].type # "zero" => Accepted(queue[s][k])

\* After a solicitation has been answered both ends can reach each other (nsolicit.c:190):
\* an advertisement alone makes no entry, so the answering solicitation is needed.
BothKnow ==
  Quiet /\ lost = 0 => \A p \in met : p[1] \in cache[p[2][1]] /\ p[2] \in cache[p[1][1]]

\* Every echo request that is not lost is answered once (icmpv6.c:173), whatever netin
\* sleeps for meanwhile.
EchoesAnswered ==
  LET InQueue(s, type) == Cardinality({k \in DOMAIN queue[s] : queue[s][k].type = type}) IN
  lost = 0 => echoes = InQueue(Box, "ECHOREQ") + InQueue(Host, "ECHORESP")

\* The solicitations that answer solicitations come to an end (nsolicit.c:186): the two
\* stations do not go on for ever.
ExchangeEnds == []<>Quiet

\* A host that was up before the box had a prefix gets it when the box does (icmpv6.c:126),
\* unless that advertisement is lost; the echoes it had before are ignored.
HostLearnsPrefix == prefix[Box] /\ lost = 0 ~> (prefix[Host] \/ lost > 0)

\* The two stations understand each other (icmpv6_in, sendipv6pkt).
ExchangesRight == SentIsAccepted /\ BothKnow /\ EchoesAnswered

\* Exchanges come to an end, and to the end they are for.
ExchangesEnd == ExchangeEnds /\ HostLearnsPrefix
=============================================================================
