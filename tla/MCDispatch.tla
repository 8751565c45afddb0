----------------------------- MODULE MCDispatch -----------------------------
(* Two callers, a server, and a server behind it: a call of a service that *)
(* the server has, one of a service it may lack, and a one-way call.       *)
EXTENDS Dispatch, TLC

CONSTANTS f1, f2, b, echo, hello, post

MCFrom == (echo :> f1) @@ (hello :> f1) @@ (post :> f2)
MCMethod == (echo :> "Echo") @@ (hello :> "Hello") @@ (post :> "HelloNotify")
\* The service of echo is declared one-way, and the method not to be; hello.proto
\* declares HelloNotify itself.
MCServiceOptions == [c \in {echo, hello, post} |-> IF c = echo THEN [notify |-> TRUE] ELSE New]
MCMethodOptions ==
  (echo :> [notify |-> FALSE]) @@ (hello :> New) @@ (post :> [notify |-> TRUE])

=============================================================================
