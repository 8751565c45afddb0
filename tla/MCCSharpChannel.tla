-------------------------- MODULE MCCSharpChannel --------------------------
(* Two calls of a method, of which one fails, a one-way call, and a call   *)
(* by the server.                                                          *)
EXTENDS CSharpChannel, TLC

CONSTANTS c1, c2, post, s1

MCMethod == (c1 :> "Echo") @@ (c2 :> "Echo") @@ (post :> "Notify") @@ (s1 :> "Ask")

(* The default of reconnect_.                                              *)
Forever == -1

=============================================================================
