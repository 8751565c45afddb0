----------------------------- MODULE MCTcpClient ----------------------------
(* A client with more connection attempts than addresses, so that memory   *)
(* is used again.                                                          *)
EXTENDS TcpClient

CONSTANTS a1, a2, k1, k2, k3

=============================================================================
