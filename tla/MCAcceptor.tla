----------------------------- MODULE MCAcceptor -----------------------------
(* A server; Address = {a1, a2} lets memory be used again while another    *)
(* channel lives.                                                          *)
EXTENDS Acceptor

CONSTANTS a1, a2

=============================================================================
