-------------------------- MODULE MCPythonChannel ---------------------------
(* One connection between a and b; which calls there are is up to the cfg. *)
EXTENDS PythonChannel, TLC

CONSTANTS a, b, q1, q2, q3, r1

MCPeer == a :> b @@ b :> a
MCOwner == [c \in Calls |-> IF c = r1 THEN b ELSE a]

=============================================================================
