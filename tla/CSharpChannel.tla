--------------------------- MODULE CSharpChannel ---------------------------
(***************************************************************************)
(* The C# binding: maid.Channel (src/net/maid/maid/Channel.cs), with the   *)
(* server it connects to.  User code calls Update again and again, which   *)
(* runs Read, Handle and Write; the operations of the socket are under way *)
(* meanwhile.                                                              *)
(*                                                                         *)
(* A frame is a ControllerProto with its prefix, Prefix + Body bytes; byte *)
(* k of frame f is <<f, k>>.  Sends are done in one piece, receives in any *)
(* pieces.                                                                 *)
(***************************************************************************)
EXTENDS Integers, Sequences, FiniteSets, SequencesExt

CONSTANTS
  Calls,        \* what the user calls ...
  ServerCalls,  \* ... and what the server calls on this channel
  Method,       \* their methods: what was given to AddMethod
  OneWay,       \* those of them that get no answer
  Failing,      \* calls whose service fails
  Prefix, Body, \* controller_proto_length_, and the length of a message
  ReceiveBuffer, \* the size of buffer_
  Reconnects,   \* reconnect_ at the start; -1 for ever
  MaxEnds       \* how often the user calls Connect again, or a connection
                \* breaks or is ended by the server

ASSUME SetAssumption == Calls \cap ServerCalls = {} /\ Failing \subseteq Calls \ OneWay
ASSUME SizeAssumption == Prefix \in Nat \ {0} /\ Body \in Nat /\ ReceiveBuffer \in Nat \ {0}
ASSUME BoundAssumption == Reconnects \in Nat \cup {-1} /\ MaxEnds \in Nat

VARIABLES
  pc,           \* "idle" between updates; "handle", "write": what Update does
                \* next; "close", "reopen": in CloseConnection
  connected,    \* connection_ # null
  asyncConnect, \* asyncConnect_: "null", "pending", "done" or "refused"
  reconnect,    \* reconnect_
  link,         \* the connection: "none", "up", "ended" by the server, "broken"
  asyncWrite,   \* asyncWrite_: "null", "pending" or "done"
  writeBuffer, writeBufferPending,  \* sequences of frames
  asyncRead,    \* asyncRead_: "null", "pending" or "done"
  receiving,    \* how many bytes asyncRead_ asks for
  buffer,       \* what it got
  readBuffer,   \* readBuffer_
  lackLength,   \* lack_length_
  proto,        \* proto_
  transmitId,   \* transmit_id_ and requests of each method
  requests,
  toServer,     \* frames under way
  toClient,     \* bytes under way
  serving,      \* requests the server has not answered yet
  call,         \* call[c]: "unsent", "waiting", "done" or "lost"
  answer,       \* answer[c]: what the callback of c got
  made,         \* the calls of this connection, in order
  served,       \* those that the server has seen
  garbled,      \* Handle has read bytes of several frames as one
  asked,        \* what the server has called
  ends          \* the counter of MaxEnds

connectVars == <<connected, asyncConnect, reconnect, link, ends>>
writeVars == <<asyncWrite, writeBuffer>>
readVars == <<asyncRead, receiving, buffer, lackLength>>
callVars == <<transmitId, requests, call, made>>
serverVars == <<toServer, toClient, serving, served, asked>>
vars == <<pc, connectVars, writeVars, writeBufferPending, readVars, readBuffer,
          proto, callVars, serverVars, answer, garbled>>

Names == Calls \cup ServerCalls
Methods == {Method[c] : c \in Names}

ControllerProto(method, id, stub, failed, message) ==
  [method |-> method, transmit_id |-> id, stub |-> stub, failed |-> failed, message |-> message]

Bytes(frame) == [k \in 1..Prefix + Body |-> <<frame, k>>]

Init ==
  /\ pc = "idle"
  /\ connected = FALSE
  /\ asyncConnect = "pending"
  /\ reconnect = Reconnects
  /\ link = "none"
  /\ asyncWrite = "null"
  /\ writeBuffer = <<>> /\ writeBufferPending = <<>>
  /\ asyncRead = "null"
  /\ receiving = 0
  /\ buffer = <<>> /\ readBuffer = <<>>
  /\ lackLength = 0
  /\ proto = ControllerProto("", 0, FALSE, FALSE, <<>>)
  /\ transmitId = [m \in Methods |-> 0]
  /\ requests = [m \in Methods |-> [id \in {} |-> 0]]
  /\ toServer = <<>> /\ toClient = <<>>
  /\ serving = {}
  /\ call = [c \in Calls |-> "unsent"]
  /\ answer = [c \in Calls |-> <<>>]
  /\ made = <<>> /\ served = <<>>
  /\ garbled = FALSE
  /\ asked = {}
  /\ ends = 0

-----------------------------------------------------------------------------
(* Variant: the id is not counted on.                                      *)
NextIdStays(m) == IF transmitId[m] = 0 THEN 1 ELSE transmitId[m]

NextId(m) == transmitId[m] + 1

(* What AddMethod gives for a method with an answer, and for one without.  *)
SendRequest(c) ==
  LET m == Method[c]
  IN /\ proto' = [proto EXCEPT !.method = m, !.transmit_id = NextId(m),
                               !.message = <<"request", c>>, !.stub = TRUE]
     /\ transmitId' = [transmitId EXCEPT ![m] = NextId(m)]
     /\ requests' = [requests EXCEPT ![m] =
          [id \in DOMAIN @ \cup {NextId(m)} |-> IF id = NextId(m) THEN c ELSE @[id]]]
     /\ call' = [call EXCEPT ![c] = "waiting"]

SendNotify(c) ==
  /\ proto' = [proto EXCEPT !.method = Method[c], !.message = <<"request", c>>, !.stub = TRUE]
  /\ call' = [call EXCEPT ![c] = "done"]
  /\ UNCHANGED <<transmitId, requests>>

(* CallMethod: the request is made in proto_, and what the method does not *)
(* set stays in it.  It is written whether there is a connection or not.   *)
CallMethod(c) ==
  /\ pc \in {"idle", "write"}
  /\ call[c] = "unsent"
  /\ IF c \in OneWay THEN SendNotify(c) ELSE SendRequest(c)
  /\ writeBufferPending' = Append(writeBufferPending, proto')
  /\ made' = IF connected THEN Append(made, c) ELSE made
  /\ UNCHANGED <<pc, connectVars, writeVars, readVars, readBuffer, serverVars, answer, garbled>>

-----------------------------------------------------------------------------
(* Variant: the requests of the old connection stay.                       *)
KeepRequests == UNCHANGED <<requests, call>>

(* requests.Clear() of every method, in the ConnectedCallback and the      *)
(* DisconnectedCallback: the callbacks of these calls never run.           *)
ClearRequests ==
  /\ requests' = [m \in Methods |-> [id \in {} |-> 0]]
  /\ call' = [c \in Calls |-> IF call[c] = "waiting" THEN "lost" ELSE call[c]]

(* Connect by the user.                                                    *)
Connect ==
  /\ pc = "idle"
  /\ ends < MaxEnds
  /\ ends' = ends + 1
  /\ IF connected
       THEN pc' = "reopen" /\ UNCHANGED asyncConnect
       ELSE asyncConnect' = "pending" /\ UNCHANGED pc
  /\ UNCHANGED <<connected, reconnect, link, writeVars, writeBufferPending, readVars,
                 readBuffer, proto, callVars, serverVars, answer, garbled>>

(* CloseConnection, and the rest of Connect.  EndReceive and EndSend wait  *)
(* for what is under way.                                                  *)
CloseConnection ==
  /\ pc \in {"close", "reopen"}
  /\ asyncRead # "pending" /\ asyncWrite # "pending"
  /\ pc' = "idle"
  /\ connected' = FALSE
  /\ link' = "none"
  /\ asyncConnect' = IF pc = "reopen" THEN "pending" ELSE "null"
  /\ asyncRead' = "null" /\ receiving' = 0 /\ buffer' = <<>>
  /\ asyncWrite' = "null"
  /\ ClearRequests
  /\ made' = <<>> /\ served' = <<>>
  /\ toServer' = <<>> /\ toClient' = <<>> /\ serving' = {}
  /\ UNCHANGED <<reconnect, ends, writeBuffer, writeBufferPending, lackLength,
                 readBuffer, proto, transmitId, answer, garbled, asked>>

ResetBuffers ==
  /\ readBuffer' = <<>>
  /\ writeBuffer' = <<>> /\ writeBufferPending' = <<>>

(* Update without a connection: Reconnect, with NewConnection if there is  *)
(* one.  reconnect_ counts the connections that are still tried.           *)
Reconnect ==
  /\ pc = "idle" /\ ~connected
  /\ \/ /\ asyncConnect = "done"
        /\ asyncConnect' = "null"
        /\ connected' = TRUE
        /\ link' = "up"
        /\ asyncRead' = "null" /\ asyncWrite' = "null"
        /\ ResetBuffers
        /\ ClearRequests
        /\ UNCHANGED reconnect
     \/ /\ asyncConnect \in {"null", "refused"}
        /\ asyncConnect' = IF reconnect # 0 THEN "pending" ELSE "null"
        /\ reconnect' = IF reconnect > 0 THEN reconnect - 1 ELSE reconnect
        /\ UNCHANGED <<connected, link, asyncRead, asyncWrite, readBuffer, writeBuffer,
                       writeBufferPending, requests, call>>
  /\ UNCHANGED <<pc, ends, receiving, buffer, lackLength, proto, transmitId, made,
                 serverVars, answer, garbled>>

-----------------------------------------------------------------------------
(* Read.  A broken connection throws, and Update closes it; one that the   *)
(* server has ended gives no bytes and is read again.                      *)
Read ==
  /\ pc = "idle" /\ connected
  /\ IF link = "broken"
       THEN pc' = "close" /\ UNCHANGED <<readBuffer, asyncRead, receiving, buffer, lackLength>>
       ELSE /\ pc' = "handle"
            /\ IF asyncRead = "pending"
                 THEN UNCHANGED <<readBuffer, asyncRead, receiving, buffer, lackLength>>
                 ELSE /\ readBuffer' = IF asyncRead = "done" THEN readBuffer \o buffer
                                       ELSE readBuffer
                      /\ lackLength' = Min({lackLength, ReceiveBuffer})
                      /\ asyncRead' = "pending"
                      /\ receiving' = lackLength'
                      /\ buffer' = <<>>
  /\ UNCHANGED <<connectVars, writeVars, writeBufferPending, proto, callVars, serverVars,
                 answer, garbled>>

(* handleRequestFunc_ of a method without an answer, and of one with an    *)
(* answer, which is given an empty request and answers in the message of   *)
(* the request.                                                            *)
HandleNotify(frame) == proto' = frame /\ UNCHANGED writeBufferPending

HandleRequest(frame) ==
  /\ IF frame.message[2] \in OneWay
       THEN HandleNotify(frame)
       ELSE /\ proto' = [frame EXCEPT !.stub = FALSE, !.message = <<"response", @[2]>>]
            /\ writeBufferPending' = Append(writeBufferPending, proto')
  /\ UNCHANGED <<requests, call, answer>>

(* handleResponseFunc_: whether the call failed is not looked at.          *)
HandleResponse(frame) ==
  LET m == frame.method
      id == frame.transmit_id
  IN /\ proto' = frame
     /\ IF id \in DOMAIN requests[m]
          THEN LET c == requests[m][id]
               IN /\ requests' = [requests EXCEPT ![m] = [i \in DOMAIN @ \ {id} |-> @[i]]]
                  /\ call' = [call EXCEPT ![c] = "done"]
                  /\ answer' = [answer EXCEPT ![c] = frame.message]
          ELSE UNCHANGED <<requests, call, answer>>
     /\ UNCHANGED writeBufferPending

(* Handle takes at most one frame.                                         *)
Handle ==
  /\ pc = "handle"
  /\ pc' = "write"
  /\ LET n == Len(readBuffer)
         frame == readBuffer[1][1]
     IN IF n < Prefix
          THEN /\ lackLength' = Prefix - n
               /\ UNCHANGED <<readBuffer, proto, requests, call, answer, writeBufferPending, garbled>>
        ELSE IF Body > n - Prefix
          THEN /\ lackLength' = Body + Prefix - n
               /\ UNCHANGED <<readBuffer, proto, requests, call, answer, writeBufferPending, garbled>>
        ELSE /\ lackLength' = Prefix
             /\ readBuffer' = SubSeq(readBuffer, Prefix + Body + 1, n)
             /\ IF SubSeq(readBuffer, 1, Prefix + Body) = Bytes(frame)
                  THEN /\ IF frame.stub THEN HandleRequest(frame) ELSE HandleResponse(frame)
                       /\ UNCHANGED garbled
                  ELSE /\ garbled' = TRUE
                       /\ UNCHANGED <<proto, requests, call, answer, writeBufferPending>>
  /\ UNCHANGED <<connectVars, writeVars, asyncRead, receiving, buffer, transmitId, made, serverVars>>

(* Variant: what is pending is sent although the last send is under way.   *)
WriteReadyAlways == TRUE

WriteReady == asyncWrite # "pending"

Write ==
  /\ pc = "write"
  /\ IF link = "broken" /\ (asyncWrite # "null" \/ writeBufferPending # <<>>)
       THEN pc' = "close" /\ UNCHANGED <<asyncWrite, writeBuffer, writeBufferPending>>
       ELSE /\ pc' = "idle"
            /\ IF WriteReady
                 THEN /\ writeBuffer' = writeBufferPending
                      /\ writeBufferPending' = <<>>
                      /\ asyncWrite' = IF writeBuffer' = <<>> THEN "null" ELSE "pending"
                 ELSE UNCHANGED <<asyncWrite, writeBuffer, writeBufferPending>>
  /\ UNCHANGED <<connectVars, readVars, readBuffer, proto, callVars, serverVars, answer, garbled>>

-----------------------------------------------------------------------------
(* The operations of the socket.                                           *)
ConnectDone ==
  /\ asyncConnect = "pending"
  /\ asyncConnect' \in {"done", "refused"}
  /\ UNCHANGED <<pc, connected, reconnect, link, ends, writeVars, writeBufferPending,
                 readVars, readBuffer, proto, callVars, serverVars, answer, garbled>>

SendDone ==
  /\ asyncWrite = "pending"
  /\ asyncWrite' = "done"
  /\ toServer' = IF link = "up" THEN toServer \o writeBuffer ELSE toServer
  /\ UNCHANGED <<pc, connectVars, writeBuffer, writeBufferPending, readVars, readBuffer, proto,
                 callVars, toClient, serving, served, asked, answer, garbled>>

ReceiveDone ==
  /\ asyncRead = "pending"
  /\ \/ receiving = 0 \/ toClient # <<>> \/ link \in {"ended", "broken"}
  /\ asyncRead' = "done"
  /\ \E n \in 0..Min({receiving, Len(toClient)}) :
       /\ n = 0 => receiving = 0 \/ toClient = <<>>
       /\ buffer' = SubSeq(toClient, 1, n)
       /\ toClient' = SubSeq(toClient, n + 1, Len(toClient))
  /\ UNCHANGED <<pc, connectVars, writeVars, writeBufferPending, receiving, lackLength, readBuffer,
                 proto, callVars, toServer, serving, served, asked, answer, garbled>>

(* The server closes the connection, or a send to it has failed.           *)
ConnectionLost ==
  /\ \/ /\ link = "up" /\ ends < MaxEnds
        /\ link' \in {"ended", "broken"}
        /\ ends' = ends + 1
     \/ /\ link = "ended" /\ asyncWrite = "done"
        /\ link' = "broken"
        /\ UNCHANGED ends
  /\ toServer' = <<>> /\ serving' = {}
  /\ toClient' = IF link' = "broken" THEN <<>> ELSE toClient
  /\ UNCHANGED <<pc, connected, asyncConnect, reconnect, writeVars, writeBufferPending,
                 readVars, readBuffer, proto, callVars, served, asked, answer, garbled>>

-----------------------------------------------------------------------------
(* The server: it serves what comes in, answers in any order, and calls.   *)
ServerTakes ==
  /\ link = "up" /\ toServer # <<>>
  /\ LET frame == Head(toServer)
         c == frame.message[2]
     IN /\ toServer' = Tail(toServer)
        /\ served' = IF frame.stub THEN Append(served, c) ELSE served
        /\ serving' = IF frame.stub /\ c \notin OneWay THEN serving \cup {frame} ELSE serving
  /\ UNCHANGED <<pc, connectVars, writeVars, writeBufferPending, readVars, readBuffer, proto,
                 callVars, toClient, asked, answer, garbled>>

(* A request that is marked as failed is answered as a failed one is: with *)
(* the message of the request.                                             *)
ServerAnswers ==
  /\ link = "up"
  /\ \E frame \in serving :
       LET c == frame.message[2]
           failed == frame.failed \/ c \in Failing
       IN /\ serving' = serving \ {frame}
          /\ toClient' = toClient \o Bytes([frame EXCEPT !.stub = FALSE, !.failed = failed,
                           !.message = IF failed THEN @ ELSE <<"response", c>>])
  /\ UNCHANGED <<pc, connectVars, writeVars, writeBufferPending, readVars, readBuffer, proto,
                 callVars, toServer, served, asked, answer, garbled>>

ServerCall(s) ==
  /\ link = "up"
  /\ s \notin asked
  /\ asked' = asked \cup {s}
  /\ toClient' = toClient \o Bytes(ControllerProto(Method[s], 0, TRUE, FALSE, <<"request", s>>))
  /\ UNCHANGED <<pc, connectVars, writeVars, writeBufferPending, readVars, readBuffer, proto,
                 callVars, toServer, serving, served, answer, garbled>>

-----------------------------------------------------------------------------
Update == Reconnect \/ Read \/ Handle \/ Write \/ CloseConnection

Socket == ConnectDone \/ SendDone \/ ReceiveDone

Next ==
  \/ \E c \in Calls : CallMethod(c)
  \/ Connect
  \/ Update
  \/ Socket
  \/ ConnectionLost
  \/ ServerTakes \/ ServerAnswers
  \/ \E s \in ServerCalls : ServerCall(s)

(* The user goes on calling Update, and the system and the server do what  *)
(* they have begun.                                                        *)
Fairness == WF_vars(Update) /\ WF_vars(SendDone) /\ WF_vars(ReceiveDone)
            /\ WF_vars(ServerTakes) /\ WF_vars(ServerAnswers)

Spec == Init /\ [][Next]_vars
FairSpec == Spec /\ Fairness

-----------------------------------------------------------------------------
(* The types.  Read asks for what Handle found lacking, which is never     *)
(* negative, a call is waiting exactly when its callback can be found, and *)
(* what is under way belongs to a connection.                              *)
TypeOK ==
  /\ pc \in {"idle", "handle", "write", "close", "reopen"}
  /\ connected \in BOOLEAN
  /\ asyncConnect \in {"null", "pending", "done", "refused"}
  /\ link \in {"none", "up", "ended", "broken"}
  /\ link = "none" <=> ~connected
  /\ asyncRead \in {"null", "pending", "done"} /\ asyncWrite \in {"null", "pending", "done"}
  /\ ~connected => asyncRead = "null" /\ asyncWrite = "null"
  /\ reconnect \in -1..Max({Reconnects, 0})
  /\ lackLength \in 0..Prefix + Body
  /\ Len(buffer) <= receiving
  /\ \A m \in Methods : DOMAIN requests[m] \subseteq 1..transmitId[m]
  /\ \A c \in Calls :
       /\ call[c] \in {"unsent", "waiting", "done", "lost"}
       /\ call[c] = "waiting" <=>
            \E id \in DOMAIN requests[Method[c]] : requests[Method[c]][id] = c

(* A callback gets the answer to the request it was given with, although   *)
(* every method counts its own ids and connections come and go.  What it   *)
(* gets is the response of the service, until a service has failed: the    *)
(* failure stays in proto_, and later requests are sent as failed ones.    *)
OwnAnswer ==
  \A c \in Calls \ OneWay :
    call[c] = "done" =>
      \/ answer[c] = <<"response", c>>
      \/ answer[c] = <<"request", c>> /\ \E f \in Failing : call[f] = "done"

(* The two write buffers and the pieces of the read buffer keep the        *)
(* streams whole: the server sees the calls of a connection in order, each *)
(* at most once and none of another connection, and Handle never takes     *)
(* bytes of several frames for one, wherever a connection was cut.         *)
StreamsInOrder ==
  /\ IsPrefix(served, made)
  /\ ~garbled

(* Who calls on a connection gets its callback, or the connection is       *)
(* closed, with the DisconnectedCallback; unless the server has ended it,  *)
(* which a receive of no bytes does not tell (Channel.cs:450).             *)
CallsComplete ==
  \A c \in Calls \ OneWay :
    call[c] = "waiting" /\ connected ~> call[c] # "waiting" \/ link = "ended" \/ pc = "reopen"

=============================================================================
