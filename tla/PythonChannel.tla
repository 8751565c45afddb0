---------------------------- MODULE PythonChannel ---------------------------
(***************************************************************************)
(* maid.channel.Channel of the Python binding (src/python/maid/channel.py) *)
(* at both ends of a connection.  An end has a greenlet that receives and  *)
(* serves, one that sends, and the greenlets of its callers; whenever one  *)
(* of them waits another runs.  None of the C++ states is there: a caller  *)
(* waits on an AsyncResult, a service runs in the receiving greenlet.      *)
(***************************************************************************)
EXTENDS Naturals, FiniteSets, SequencesExt

CONSTANTS
  Ends, Peer,   \* the two processes
  Calls, Owner, \* the calls and the process that makes each
  Notify,       \* the calls of one-way methods
  Unknown,      \* the calls whose service or method the other end lacks
  Unreadable,   \* the calls whose request or response may not be parsed
  None

ASSUME EndsAssumption ==
  /\ Peer \in [Ends -> Ends] /\ \A e \in Ends : Peer[e] # e /\ Peer[Peer[e]] = e
  /\ Owner \in [Calls -> Ends]
  /\ Notify \cup Unknown \cup Unreadable \subseteq Calls
  /\ None \notin Calls

VARIABLES
  greenlets,      \* which greenlets of the connection are alive
  registered,     \* sock in _send_queue
  sendQueue,      \* _send_queue[sock]
  wire,           \* wire[e]: sent to e and not received
  serving,        \* the request whose service runs
  transmitId,     \* _transmit_id
  pendingRequest, \* _pending_request
  outcome,        \* what CallMethod has returned
  reply,          \* the message the response was parsed from
  executed        \* how often a service was called

sockVars == <<greenlets, registered>>
transportVars == <<sendQueue, wire>>
callVars == <<transmitId, pendingRequest, outcome, reply>>
vars == <<sockVars, transportVars, callVars, serving, executed>>

Both == {"recv", "send"}
Message == [call : Calls, of : {"request", "response"}]
Frame == [call : Calls, id : Nat, stub : BOOLEAN, failed : BOOLEAN,
          message : Message]

ASSUME NoneAssumption == None \notin Frame

(* The types, and the calls that wait: each can be found by the id of its  *)
(* answer, and no other by the same id (channel.py:60-63, 213).            *)
TypeOK ==
  /\ greenlets \in [Ends -> SUBSET Both]
  /\ registered \in [Ends -> BOOLEAN]
  /\ sendQueue \in [Ends -> Seq(Frame)]
  /\ wire \in [Ends -> Seq(Frame)]
  /\ serving \in [Ends -> Frame \cup {None}]
  /\ transmitId \in [Ends -> Nat]
  /\ pendingRequest \in [Ends -> SUBSET [id : Nat \ {0}, call : Calls]]
  /\ outcome \in [Calls -> {"idle", "pending", "replied", "failed", "sent"}]
  /\ reply \in [Calls -> Message \cup {None}]
  /\ executed \in [Calls -> Nat]
  /\ \A c \in Calls : outcome[c] = "pending" => \E w \in pendingRequest[Owner[c]] : w.call = c
  /\ \A e \in Ends : \A v, w \in pendingRequest[e] : v.id = w.id => v = w

(* After connect or accept: new_connection has spawned the greenlets.      *)
Init ==
  /\ greenlets = [e \in Ends |-> Both]
  /\ registered = [e \in Ends |-> TRUE]
  /\ sendQueue = [e \in Ends |-> <<>>]
  /\ wire = [e \in Ends |-> <<>>]
  /\ serving = [e \in Ends |-> None]
  /\ transmitId = [e \in Ends |-> 0]
  /\ pendingRequest = [e \in Ends |-> {}]
  /\ outcome = [c \in Calls |-> "idle"]
  /\ reply = [c \in Calls |-> None]
  /\ executed = [c \in Calls |-> 0]

Put(e, frame) == sendQueue' = [sendQueue EXCEPT ![e] = Append(@, frame)]
Dies(e, greenlet) == greenlets' = [greenlets EXCEPT ![e] = @ \ {greenlet}]

-----------------------------------------------------------------------------
(* A greenlet of the user calls a method                                   *)

Request(c, id) ==
  [call |-> c, id |-> id, stub |-> TRUE, failed |-> FALSE,
   message |-> [call |-> c, of |-> "request"]]

(* Neither kind of call gets far without a connection: SetFailed, or a     *)
(* KeyError.                                                               *)
CallDisconnected(c) ==
  /\ outcome[c] = "idle"
  /\ ~registered[Owner[c]]
  /\ outcome' = [outcome EXCEPT ![c] = "failed"]
  /\ UNCHANGED <<sockVars, transportVars, transmitId, pendingRequest, reply, serving, executed>>

(* Variant: the id is taken before it is incremented.                      *)
RegisterBackwards(e, c) ==
  /\ transmitId' = [transmitId EXCEPT ![e] = @ + 1]
  /\ pendingRequest' = [pendingRequest EXCEPT ![e] = @ \cup {[id |-> transmitId[e], call |-> c]}]
  /\ Put(e, Request(c, transmitId[e]))

Register(e, c) ==
  LET id == transmitId[e] + 1 IN
  /\ transmitId' = [transmitId EXCEPT ![e] = id]
  /\ pendingRequest' = [pendingRequest EXCEPT ![e] = @ \cup {[id |-> id, call |-> c]}]
  /\ Put(e, Request(c, id))

SendRequest(c) ==
  /\ outcome[c] = "idle"
  /\ c \notin Notify
  /\ registered[Owner[c]]
  /\ Register(Owner[c], c)
  /\ outcome' = [outcome EXCEPT ![c] = "pending"]
  /\ UNCHANGED <<sockVars, wire, reply, serving, executed>>

SendNotify(c) ==
  /\ outcome[c] = "idle"
  /\ c \in Notify
  /\ registered[Owner[c]]
  /\ Put(Owner[c], Request(c, 0))
  /\ outcome' = [outcome EXCEPT ![c] = "sent"]
  /\ UNCHANGED <<sockVars, wire, transmitId, pendingRequest, reply, serving, executed>>

-----------------------------------------------------------------------------
(* The sending greenlet                                                    *)

(* sendall; the kernel may take a frame that nobody will receive.          *)
Write(e) ==
  /\ "send" \in greenlets[e] /\ sendQueue[e] # <<>>
  /\ wire' = [wire EXCEPT ![Peer[e]] =
                IF registered[Peer[e]] THEN Append(@, Head(sendQueue[e])) ELSE @]
  /\ sendQueue' = [sendQueue EXCEPT ![e] = Tail(@)]
  /\ UNCHANGED <<sockVars, callVars, serving, executed>>

(* sendall raises; a part of a frame is worth nothing to the other end.    *)
WriteFails(e) ==
  /\ "send" \in greenlets[e] /\ sendQueue[e] # <<>>
  /\ Dies(e, "send")
  /\ UNCHANGED <<registered, transportVars, callVars, serving, executed>>

-----------------------------------------------------------------------------
(* The receiving greenlet                                                  *)

Receiving(e) == "recv" \in greenlets[e] /\ serving[e] = None

(* _handle_response.  A failed call stays in _pending_request, and so does *)
(* one whose response cannot be parsed, whose caller is not even woken.    *)
Waiters(e, frame) == {w.call : w \in {p \in pendingRequest[e] : p.id = frame.id}}

(* Variant: a failed call is not woken.                                    *)
WakeUnlessFailed(e, frame, woken) ==
  /\ pendingRequest' = [pendingRequest EXCEPT ![e] =
                           IF frame.failed THEN @ ELSE {p \in @ : p.call \notin woken}]
  /\ outcome' = [c \in Calls |-> IF c \in woken /\ ~frame.failed THEN "replied" ELSE outcome[c]]
  /\ reply' = [c \in Calls |-> IF c \in woken /\ ~frame.failed THEN frame.message ELSE reply[c]]

(* Variant: every caller is woken.                                         *)
WakeAll(e, frame, woken) ==
  LET waiting == {p.call : p \in pendingRequest[e]} IN
  /\ pendingRequest' = [pendingRequest EXCEPT ![e] = {}]
  /\ outcome' = [c \in Calls |-> IF c \in waiting THEN "replied" ELSE outcome[c]]
  /\ reply' = [c \in Calls |-> IF c \in waiting THEN frame.message ELSE reply[c]]

Wake(e, frame, woken) ==
  /\ pendingRequest' = [pendingRequest EXCEPT ![e] =
                           IF frame.failed THEN @ ELSE {p \in @ : p.call \notin woken}]
  /\ outcome' = [c \in Calls |-> IF c \notin woken THEN outcome[c]
                                 ELSE IF frame.failed THEN "failed" ELSE "replied"]
  /\ reply' = [c \in Calls |-> IF c \in woken /\ ~frame.failed THEN frame.message ELSE reply[c]]

HandleResponse(e) ==
  /\ Receiving(e) /\ wire[e] # <<>> /\ ~Head(wire[e]).stub
  /\ wire' = [wire EXCEPT ![e] = Tail(@)]
  /\ LET waiters == Waiters(e, Head(wire[e]))
     IN  \E unparsed \in {{}, waiters \cap Unreadable} :
           Wake(e, Head(wire[e]), IF Head(wire[e]).failed THEN waiters ELSE waiters \ unparsed)
  /\ UNCHANGED <<sockVars, sendQueue, transmitId, serving, executed>>

RequestArrives(e) ==
  /\ Receiving(e) /\ wire[e] # <<>> /\ Head(wire[e]).stub
  /\ wire' = [wire EXCEPT ![e] = Tail(@)]

(* _handle_notify parses message_buffer, a name that does not exist: the   *)
(* NameError ends the greenlet before the service is called.               *)
HandleNotify(e) ==
  /\ RequestArrives(e)
  /\ Head(wire[e]).call \in Notify
  /\ IF Head(wire[e]).call \in Unknown THEN UNCHANGED greenlets ELSE Dies(e, "recv")
  /\ UNCHANGED <<registered, sendQueue, callVars, serving, executed>>

(* send_response.  controller.Failed is a method, so "not controller.Failed" *)
(* is never true and the message stays that of the request.  Without a     *)
(* queue the KeyError ends the greenlet.                                   *)
SendResponse(e, request, failed) ==
  IF registered[e]
    THEN Put(e, [request EXCEPT !.stub = FALSE, !.failed = failed]) /\ UNCHANGED greenlets
    ELSE Dies(e, "recv") /\ UNCHANGED sendQueue

(* Variant: like a one-way call, the request is dropped.                   *)
RejectSilently(e) ==
  /\ RequestArrives(e)
  /\ Head(wire[e]).call \in Unknown \ Notify
  /\ UNCHANGED <<sockVars, sendQueue, callVars, serving, executed>>

(* _handle_request: "service not exist" or "method not exist".             *)
RejectRequest(e) ==
  /\ RequestArrives(e)
  /\ Head(wire[e]).call \in Unknown \ Notify
  /\ SendResponse(e, Head(wire[e]), TRUE)
  /\ UNCHANGED <<registered, callVars, serving, executed>>

(* _handle_request: a request that cannot be parsed gets no answer, any    *)
(* other is handed to its service.                                         *)
HandleRequest(e) ==
  LET frame == Head(wire[e]) IN
  /\ RequestArrives(e)
  /\ frame.call \notin Notify \cup Unknown
  /\ \/ /\ serving' = [serving EXCEPT ![e] = frame]
        /\ executed' = [executed EXCEPT ![frame.call] = @ + 1]
     \/ frame.call \in Unreadable /\ UNCHANGED <<serving, executed>>
  /\ UNCHANGED <<sockVars, sendQueue, callVars>>

(* The service, which may have waited for something and called SetFailed,  *)
(* returns ...                                                             *)
ServiceReturns(e) ==
  /\ "recv" \in greenlets[e] /\ serving[e] # None
  /\ \E failed \in BOOLEAN : SendResponse(e, serving[e], failed)
  /\ serving' = [serving EXCEPT ![e] = None]
  /\ UNCHANGED <<registered, wire, callVars, executed>>

(* ... or raises, which ends the greenlet.                                 *)
ServiceRaises(e) ==
  /\ "recv" \in greenlets[e] /\ serving[e] # None
  /\ Dies(e, "recv")
  /\ serving' = [serving EXCEPT ![e] = None]
  /\ UNCHANGED <<registered, transportVars, callVars, executed>>

(* Variant: the end of the stream is not noticed.                          *)
EndOfStreamUnseen(e) ==
  /\ Receiving(e) /\ wire[e] = <<>> /\ ~registered[Peer[e]]
  /\ UNCHANGED vars

(* _recv_n returns None: the other end has closed its socket ...           *)
EndOfStream(e) ==
  /\ Receiving(e) /\ wire[e] = <<>> /\ ~registered[Peer[e]]
  /\ Dies(e, "recv")
  /\ UNCHANGED <<registered, transportVars, callVars, serving, executed>>

(* ... or recv raises: the connection is broken, or set_default_sock has   *)
(* closed the socket.                                                      *)
ReceiveFails(e) ==
  /\ Receiving(e)
  /\ Dies(e, "recv")
  /\ UNCHANGED <<registered, transportVars, callVars, serving, executed>>

-----------------------------------------------------------------------------
(* close, linked to both greenlets: the other one is killed, ...           *)
Kill(e) ==
  /\ greenlets[e] \notin {{}, Both}
  /\ greenlets' = [greenlets EXCEPT ![e] = {}]
  /\ serving' = [serving EXCEPT ![e] = None]
  /\ UNCHANGED <<registered, transportVars, callVars, executed>>

(* Variant: the other greenlet lives on.                                   *)
CloseSockEarly(e) ==
  /\ greenlets[e] # Both /\ registered[e]
  /\ registered' = [registered EXCEPT ![e] = FALSE]
  /\ sendQueue' = [sendQueue EXCEPT ![e] = <<>>]
  /\ wire' = [wire EXCEPT ![e] = <<>>]
  /\ UNCHANGED <<greenlets, callVars, serving, executed>>

(* ... then the socket is closed and forgotten.  Nobody tells the callers. *)
CloseSock(e) ==
  /\ greenlets[e] = {} /\ registered[e]
  /\ registered' = [registered EXCEPT ![e] = FALSE]
  /\ sendQueue' = [sendQueue EXCEPT ![e] = <<>>]
  /\ wire' = [wire EXCEPT ![e] = <<>>]
  /\ UNCHANGED <<greenlets, callVars, serving, executed>>

Receive(e) ==
  HandleResponse(e) \/ HandleNotify(e) \/ RejectRequest(e) \/ HandleRequest(e) \/ EndOfStream(e)

(* Nothing more can happen: the callers that are left wait for ever.       *)
Terminated ==
  /\ \A c \in Calls : outcome[c] # "idle"
  /\ \A e \in Ends : ~registered[e]
  /\ UNCHANGED vars

Next ==
  \/ \E c \in Calls : CallDisconnected(c) \/ SendRequest(c) \/ SendNotify(c)
  \/ \E e \in Ends :
       \/ Write(e) \/ WriteFails(e)
       \/ Receive(e) \/ ReceiveFails(e)
       \/ ServiceReturns(e) \/ ServiceRaises(e)
       \/ Kill(e) \/ CloseSock(e)
  \/ Terminated

(* gevent's hub switches to every greenlet that is ready, and (an          *)
(* assumption on user code) a service returns.                             *)
Fairness ==
  \A e \in Ends :
    /\ WF_vars(Write(e))
    /\ WF_vars(Receive(e))
    /\ WF_vars(ServiceReturns(e))
    /\ WF_vars(Kill(e))
    /\ WF_vars(CloseSock(e))

Spec == Init /\ [][Next]_vars
FairSpec == Spec /\ Fairness

-----------------------------------------------------------------------------
(* What can be relied on                                                   *)

Whole == \A e \in Ends : greenlets[e] = Both

(* What e has sent and the other end has not received, oldest first.       *)
Travelling(e) == wire[Peer[e]] \o sendQueue[e]

Copies(c) ==
  LET places == {p \in UNION {{e} \X DOMAIN Travelling(e) : e \in Ends} :
                   Travelling(p[1])[p[2]].call = c}
  IN  Cardinality(places) + Cardinality({e \in Ends : serving[e] # None /\ serving[e].call = c})

(* While the connection is whole a caller that waits has one request or    *)
(* answer under way, or one side could not parse it (channel.py:188, 225): *)
(* nothing is lost between the queues, the greenlets and the services.     *)
NoLostCall ==
  \A c \in Calls \ Unreadable :
    Whole /\ outcome[c] = "pending" => Copies(c) = 1

(* A greenlet never finds the queue of its own connection gone: close      *)
(* kills both before it forgets the socket (channel.py:81, 110-116, 232).  *)
QueueOutlivesGreenlets ==
  \A e \in Ends : greenlets[e] # {} => registered[e]

(* The channel keeps what RpcCalls promises but for one thing: the end of  *)
(* the connection cancels nobody.                                          *)
Promise == INSTANCE RpcCalls WITH connected <- [e \in Ends |-> TRUE]
ImplementsRpcCalls == Promise!Spec

(* On a connection that stays whole every call ends that can be parsed.    *)
CallsComplete ==
  \A c \in Calls \ Unreadable :
    outcome[c] = "pending" ~> outcome[c] # "pending" \/ ~Whole

(* One greenlet that ends takes the connection down at both ends.          *)
EndsTogether ==
  \A e \in Ends : ~Whole ~> ~registered[e]

(* The example's service (python/example/server.py:11-13) makes a response *)
(* and returns it: "response.message = "from pymaid"".                     *)
ReplyIsReturned ==
  \A c \in Calls : outcome[c] = "replied" => reply[c] = [call |-> c, of |-> "response"]

=============================================================================
