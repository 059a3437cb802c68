-------------------------- MODULE MCSocketChannels --------------------------
(* Small instances of the channels over sockets: one server, two clients,  *)
(* the first of which has a UDP address of its own.                        *)
EXTENDS SocketChannels

CONSTANTS c1, c2, srv

MCClients == {c1, c2}
MCBound == {c1}
MCFamilies == {"tcp", "ssl", "udp"}
MCTuned == {<<"tcp", c1>>}
MCMaxCalls == [tcp |-> 5, ssl |-> 5, udp |-> 3]
MCMaxPackets == [tcp |-> 2, ssl |-> 2, udp |-> 1]
MCLimits == {1}
=============================================================================
