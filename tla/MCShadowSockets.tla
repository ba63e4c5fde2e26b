--------------------------- MODULE MCShadowSockets ---------------------------
(* ShadowSockets for TLC: a server of TCP and UDP.  One newer version asks  *)
(* for both ports, another one for the port that was inherited.            *)
EXTENDS ShadowSockets

TcpAndUdp == {<<"stream", 2>>, <<"dgram", 3>>}
Rivals    == {<<2, 1>>, <<2, 2>>, <<3, 1>>}
=============================================================================
