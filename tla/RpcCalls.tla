------------------------------ MODULE RpcCalls ------------------------------
(***************************************************************************)
(* What a user of google::protobuf::RpcChannel is promised, whatever the   *)
(* transport does: a call ends exactly once, a reply is only delivered     *)
(* for a request that the other side executed, a request is executed at    *)
(* most once, and when a connection goes away every call that was waiting  *)
(* on it ends with it.  TcpChannel implements this module, PythonChannel   *)
(* all of it but the last promise.                                         *)
(***************************************************************************)
EXTENDS Naturals

CONSTANTS
  Ends,     \* the processes that hold one end of a connection
  Calls,    \* the calls user code may make
  Owner,    \* the end that makes a call
  Notify    \* the calls of one-way methods

VARIABLES
  connected,  \* connected[e]: e still has its connection
  outcome,    \* outcome[c]: what the caller has been told about c
  executed    \* executed[c]: how often a service was handed c's request

vars == <<connected, outcome, executed>>

Final == {"replied", "failed", "sent", "canceled"}

TypeOK ==
  /\ connected \in [Ends -> BOOLEAN]
  /\ outcome \in [Calls -> Final \cup {"idle", "pending"}]
  /\ executed \in [Calls -> {0, 1}]

Init ==
  /\ connected = [e \in Ends |-> TRUE]
  /\ outcome = [c \in Calls |-> "idle"]
  /\ executed = [c \in Calls |-> 0]

(* A call made without a connection, or one that cannot be sent, ends at   *)
(* once; a one-way call may; any other call starts to wait.                *)
Begin(c) ==
  /\ outcome[c] = "idle"
  /\ \/ connected[Owner[c]] /\ outcome' = [outcome EXCEPT ![c] = "pending"]
     \/ connected[Owner[c]] /\ c \in Notify /\ outcome' = [outcome EXCEPT ![c] = "sent"]
     \/ outcome' = [outcome EXCEPT ![c] = "failed"]
  /\ UNCHANGED <<connected, executed>>

(* The other side runs the service; the caller may be gone by then.        *)
Execute(c) ==
  /\ outcome[c] # "idle"
  /\ executed[c] = 0
  /\ executed' = [executed EXCEPT ![c] = 1]
  /\ UNCHANGED <<connected, outcome>>

(* A waiting call ends: with the reply of the one execution, because the   *)
(* one-way request is on its way, or with an error.                        *)
Finish(c, o) ==
  /\ outcome[c] = "pending"
  /\ o = "replied" => c \notin Notify /\ executed[c] = 1
  /\ o = "sent" => c \in Notify
  /\ outcome' = [outcome EXCEPT ![c] = o]
  /\ UNCHANGED <<connected, executed>>

(* The connection goes away and takes all waiting calls with it.           *)
Disconnect(e) ==
  /\ connected[e]
  /\ connected' = [connected EXCEPT ![e] = FALSE]
  /\ outcome' = [c \in Calls |-> IF Owner[c] = e /\ outcome[c] = "pending"
                                 THEN "canceled" ELSE outcome[c]]
  /\ UNCHANGED executed

Next ==
  \/ \E c \in Calls : Begin(c) \/ Execute(c)
  \/ \E c \in Calls, o \in {"replied", "failed", "sent"} : Finish(c, o)
  \/ \E e \in Ends : Disconnect(e)

Spec == Init /\ [][Next]_vars

=============================================================================
