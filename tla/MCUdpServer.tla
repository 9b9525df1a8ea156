---------------------------- MODULE MCUdpServer -----------------------------
(* One peer (the races are per peer), two fds so a closed one can be       *)
(* reused, one id per datagram so ids never run out, a worker queue that   *)
(* holds every datagram, and both threading modes.                        *)
EXTENDS UdpServer

CONSTANTS p1, p2

MCPeers == {p1}

(* Two peers: one peer's accept task can fill the worker queue.           *)
MCTwoPeers == {p1, p2}
MCModes == {TRUE, FALSE}
=============================================================================
