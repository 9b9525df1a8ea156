--------------------------- MODULE MCTcpConnection ---------------------------
EXTENDS TcpConnection

(* Keepalive 1500 ms with a 500 ms clock step: reads and timer deliveries  *)
(* land on both sides of a second boundary.  Two chunks fill the input     *)
(* buffer, so a third read meets ResourceLimitException.                   *)
MCTimeout == 1500
MCConnTimo == 1000
=============================================================================
