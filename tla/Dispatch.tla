------------------------------ MODULE Dispatch ------------------------------
(***************************************************************************)
(* What becomes of a request in a server process: Controller, TcpClosure,  *)
(* TcpChannel::HandleRequest and Close, LocalMapRepoChannel, and the       *)
(* lookup of the router, which ChannelRedirect may lead to a channel to    *)
(* another server (src/controller.cc, closure.cc, channel.cc,              *)
(* channel_factory.cc, channel_pool.cc).  The contents of messages are     *)
(* those of Message, the services those of ExampleServices, and every      *)
(* object of a request is accounted for.                                   *)
(*                                                                         *)
(* Fronts are the connections of the process to its callers, Back is its   *)
(* own connection to another server.  Both servers run the same code.  A   *)
(* request is known by the channel it came in by and the call it is for.   *)
(***************************************************************************)
EXTENDS ExampleServices

CONSTANTS
  Fronts, Back,  \* the channels
  Calls,
  From,            \* From[c]: the channel that c is made on
  Method,          \* Method[c]: the method it calls
  Unknown,         \* calls of services that are not in the descriptor pool
  NotInserted,     \* calls of services that no server has inserted
  NotOverridden,   \* calls of methods that the class of the service lacks
  ServiceOptions,  \* ServiceOptions[c], MethodOptions[c]: the options of the
  MethodOptions,   \* service and of the method of c
  OneShot,         \* calls whose service registers a cancel callback of
                   \* google::protobuf::NewCallback, which deletes itself
  Permanent,       \* calls whose service registers a permanent one
  OutOfMemoryAt,   \* the allocations of HandleRequest that may fail, among
                   \* "controller", "request", "response", "closure", "insert"
  MaxCuts,         \* how many requests arrive half
  MaxRedirects,    \* how often the redirect rule changes
  LeavesForwarded  \* whether a caller may go while its request is forwarded

ASSUME ChannelAssumption == Back \notin Fronts
ASSUME CallAssumption ==
  /\ From \in [Calls -> Fronts]
  /\ Method \in [Calls -> EchoService \cup HelloService]
  /\ Unknown \cup NotInserted \cup NotOverridden \subseteq Calls
  /\ OneShot \cap Permanent = {}
  /\ "" \notin Calls
ASSUME OptionAssumption ==
  \A c \in Calls :
    /\ DOMAIN ServiceOptions[c] \subseteq ToSet(MaidServiceOptions)
    /\ DOMAIN MethodOptions[c] \subseteq ToSet(MaidMethodOptions)
ASSUME BoundAssumption == MaxCuts \in Nat /\ MaxRedirects \in Nat /\ LeavesForwarded \in BOOLEAN

Channels == Fronts \cup {Back}

VARIABLES
  open,         \* the channels whose stream_ is not NULL
  toServer,     \* toServer[ch], toClient[ch]: the frames under way
  toClient,
  asyncResult,  \* async_result_ of the calling end of ch: transmit_id -> call
  transmitId,   \* transmit_id_ of that end
  redirect,     \* redirect_channel_ leads from the router to Back
  router,       \* router_channel_ of the factory: "local", "back", "default"
  heap,         \* heap[ch][c]: the objects of the request that exist
  proto,        \* proto[ch][c]: the message of its Controller
  holder,       \* who has its closure: "none", "service", "back", "write"
  outcome,      \* outcome[c]: what the service did: "none", "ok" or "failed"
  result,       \* result[c]: what the caller has got
  fault,        \* the first thing that goes wrong in memory
  cuts, redirects  \* counters of MaxCuts and MaxRedirects

requestVars == <<heap, proto, holder, fault>>
linkVars == <<toServer, toClient, asyncResult, transmitId>>
vars == <<open, linkVars, redirect, router, requestVars, outcome, result, cuts, redirects>>

Result(state, failed, message) ==
  [state |-> state, failed |-> failed, message |-> message]

Init ==
  /\ open = Channels
  /\ toServer = [ch \in Channels |-> <<>>]
  /\ toClient = [ch \in Channels |-> <<>>]
  /\ asyncResult = [ch \in Channels |-> New]
  /\ transmitId = [ch \in Channels |-> 0]
  /\ redirect = FALSE
  /\ router = "local"
  /\ heap = [ch \in Channels |-> [c \in Calls |-> {}]]
  /\ proto = [ch \in Channels |-> [c \in Calls |-> New]]
  /\ holder = [ch \in Channels |-> [c \in Calls |-> "none"]]
  /\ outcome = [c \in Calls |-> "none"]
  /\ result = [c \in Calls |-> Result("unsent", FALSE, New)]
  /\ fault = "none"
  /\ cuts = 0
  /\ redirects = 0

-----------------------------------------------------------------------------
(* Controller.                                                             *)
(* Variant: only the reason is kept.                                       *)
SetReason(p, reason) == Set(p, "error_text", reason)

SetFailed(p, reason) == Set(Set(p, "failed", TRUE), "error_text", reason)

(* Variant: the callback runs and the message does not know of it.         *)
StartCancelUnmarked(p) == p

StartCancel(p) == Set(p, "is_canceled", TRUE)

(* A cancel callback that deletes itself leaves cancel_callback_ dangling. *)
AfterCancel(c, objects) ==
  IF c \in OneShot /\ "callback" \in objects
  THEN (objects \ {"callback"}) \cup {"dangling callback"}
  ELSE objects

IsNotify(p) ==
  LET c == Get(p, "full_service_name")
  IN Notify(c \in Calls, ServiceOptions[c], MethodOptions[c], FALSE)

OneWay == {c \in Calls : Notify(TRUE, ServiceOptions[c], MethodOptions[c], FALSE)}

-----------------------------------------------------------------------------
(* WireFormat::Serializer.                                                 *)
Frame(m) ==
  [size |-> ByteSize(ControllerProto, m), fields |-> Serialize(ControllerProto, m)]

(* What the caller of c says, its own words.                               *)
RequestOf(c) == Set(New, "message", <<"words", c>>)

Request(c, id) ==
  [full_service_name |-> c, method_name |-> Method[c], stub |-> TRUE,
   message |-> Serialize(RequestPrototype(Method[c]), RequestOf(c)), transmit_id |-> id]

(* TcpChannel::CallMethod on an open channel; sent is toServer without the *)
(* frame that is handled in the same step.                                 *)
CallMethod(ch, c, sent) ==
  /\ asyncResult' = [asyncResult EXCEPT ![ch] = Set(@, transmitId[ch], c)]
  /\ transmitId' = [transmitId EXCEPT ![ch] = @ + 1]
  /\ toServer' = [sent EXCEPT ![ch] = Append(@, Frame(Request(c, transmitId[ch])))]

-----------------------------------------------------------------------------
Fault(what) == IF fault = "none" THEN what ELSE fault

Objects == {"closure", "controller", "proto", "request", "response"}

(* ~Controller deletes its message and its cancel callback; it may when    *)
(* the objects of the request exist and the callback is not dangling.      *)
DeletedOnce(objects) == Objects \subseteq objects /\ "dangling callback" \notin objects

(* ~TcpClosure for the requests of a set of pairs of a channel and a call, *)
(* objects[ch][c] being what there is of one.                              *)
Delete(pairs, objects) ==
  /\ heap' = [ch \in Channels |-> [c \in Calls |->
                IF <<ch, c>> \in pairs THEN {} ELSE heap[ch][c]]]
  /\ proto' = [ch \in Channels |-> [c \in Calls |->
                IF <<ch, c>> \in pairs THEN New ELSE proto[ch][c]]]
  /\ holder' = [ch \in Channels |-> [c \in Calls |->
                IF <<ch, c>> \in pairs THEN "none" ELSE holder[ch][c]]]
  /\ fault' = IF \A pair \in pairs :
                   DeletedOnce(objects[pair[1]][pair[2]])
              THEN fault ELSE Fault("freed twice")

(* The answer that TcpClosure::Run makes of the controller's message.      *)
Answer(p, response) ==
  LET cleared == Set(ClearField(p, "connection"), "stub", FALSE)
      type == ResponsePrototype(Get(p, "method_name"))
  IN IF Get(p, "failed") THEN cleared
     ELSE Set(cleared, "message", Serialize(type, response))

(* TcpClosure::Run for the request c of ch, which has these objects and    *)
(* whose controller has the message p; uv_write may fail.  answers is      *)
(* toClient without the frame that is handled in the same step.            *)
TcpClosureRun(ch, c, objects, p, response, answers) ==
  IF Get(p, "is_canceled") \/ IsNotify(p)
  THEN /\ Delete({<<ch, c>>}, [heap EXCEPT ![ch][c] = objects])
       /\ toClient' = answers
  ELSE \/ /\ heap' = [heap EXCEPT ![ch][c] = objects \cup {"buffer"}]
          /\ proto' = [proto EXCEPT ![ch][c] = Answer(p, response)]
          /\ holder' = [holder EXCEPT ![ch][c] = "write"]
          /\ fault' = IF ch \in open THEN fault ELSE Fault("write on a closed channel")
          /\ toClient' = [answers EXCEPT ![ch] =
                            Append(@, Frame(Answer(p, response)))]
       \/ /\ ch \in open
          /\ Delete({<<ch, c>>}, [heap EXCEPT ![ch][c] = objects])
          /\ toClient' = answers

(* TcpClosure::AfterSendResponse.                                          *)
AfterSendResponse(ch, c) ==
  /\ holder[ch][c] = "write"
  /\ Delete({<<ch, c>>}, heap)
  /\ UNCHANGED <<open, linkVars, redirect, router, outcome, result, cuts, redirects>>

-----------------------------------------------------------------------------
(* A caller makes its call.                                                *)
Call(c) ==
  /\ result[c].state = "unsent"
  /\ \/ /\ From[c] \in open
        /\ CallMethod(From[c], c, toServer)
        /\ result' = [result EXCEPT ![c] = Result("waiting", FALSE, New)]
        /\ UNCHANGED toClient
     \/ /\ From[c] \notin open
        /\ result' = [result EXCEPT ![c] = Result("canceled", TRUE, New)]
        /\ UNCHANGED linkVars
  /\ UNCHANGED <<open, redirect, router, requestVars, outcome, cuts, redirects>>

(* A request arrives half: its bytes are what followed a frame that        *)
(* Deserializer had dropped for its size.                                  *)
CutRequest(f) ==
  /\ cuts < MaxCuts
  /\ toServer[f] # <<>>
  /\ \E n \in 0..Len(Head(toServer[f]).fields) - 1 :
       toServer' = [toServer EXCEPT ![f][1].fields = Append(SubSeq(@, 1, n), Cut)]
  /\ cuts' = cuts + 1
  /\ UNCHANGED <<open, toClient, asyncResult, transmitId, redirect, router,
                 requestVars, outcome, result, redirects>>

-----------------------------------------------------------------------------
(* AbstractTcpChannelFactory::router_channel: what the pool leads to is    *)
(* kept for the next time.                                                 *)
RouterChannel ==
  LET to == IF router = "local" /\ redirect THEN "back" ELSE router
  IN IF to = "back" /\ Back \notin open THEN "default" ELSE to

(* What Handle has read, with the channel it came in by.                   *)
Received(ch, bytes) ==
  LET m == Parse(New, bytes).message
  IN Set(m, "connection", Set(Get(m, "connection"), "id", ch))

(* The service and its method are known, and the request parses.           *)
HasService(m) ==
  /\ Get(m, "full_service_name") \in Calls \ Unknown
  /\ Parse(New, Get(m, "message")).ok

(* The request m is handed to the router: a service of the process gets    *)
(* it, or it is refused, or it is called again on Back with the controller *)
(* and the closure of ch.  rest is toServer without the request.           *)
Serve(ch, c, m, rest) ==
  /\ c \notin NotInserted
  /\ heap' = [heap EXCEPT ![ch][c] =
                Objects \cup IF c \in OneShot \cup Permanent THEN {"callback"} ELSE {}]
  /\ proto' = [proto EXCEPT ![ch][c] = m]
  /\ holder' = [holder EXCEPT ![ch][c] = "service"]
  /\ toServer' = rest
  /\ UNCHANGED <<toClient, asyncResult, transmitId, fault>>

Refuse(ch, c, m, rest, reason) ==
  /\ TcpClosureRun(ch, c, Objects, SetFailed(m, reason), New, toClient)
  /\ toServer' = rest
  /\ UNCHANGED <<asyncResult, transmitId>>

(* maid::Channel::CallMethod, where the router has led to no channel.      *)
NothingToBeDone(ch, c, m, rest) == Refuse(ch, c, m, rest, "nothing to be done")

Forward(ch, c, m, rest) ==
  \/ /\ CallMethod(Back, c, rest)
     /\ heap' = [heap EXCEPT ![ch][c] = Objects]
     /\ proto' = [proto EXCEPT ![ch][c] = m]
     /\ holder' = [holder EXCEPT ![ch][c] = "back"]
     /\ UNCHANGED <<toClient, fault>>
  \/ /\ TcpClosureRun(ch, c, Objects,
                      Set(SetFailed(Request(c, transmitId[Back]), "uv_write"), "connection", New),
                      New, toClient)
     /\ transmitId' = [transmitId EXCEPT ![Back] = @ + 1]
     /\ toServer' = rest
     /\ UNCHANGED asyncResult

(* Memory runs out in HandleRequest: before the controller has the message *)
(* nobody deletes it, and when router_controllers_ cannot take the         *)
(* controller the destructor of the closure deletes what is deleted too.   *)
Busy(ch, c, rest, at) ==
  /\ heap' = [heap EXCEPT ![ch][c] = IF at = "controller" THEN {"proto"} ELSE {}]
  /\ fault' = IF at = "insert" THEN Fault("freed twice") ELSE fault
  /\ toServer' = rest
  /\ UNCHANGED <<toClient, asyncResult, transmitId, proto, holder>>

(* OnTimer at the serving end: Handle, HandleRequest.  What is not a       *)
(* request is an answer to no call of this end.                            *)
HandleRequest(ch) ==
  /\ ch \in open
  /\ toServer[ch] # <<>>
  /\ LET m == Received(ch, Head(toServer[ch]).fields)
         c == Get(m, "full_service_name")
         rest == [toServer EXCEPT ![ch] = Tail(@)]
     IN \/ /\ ~Get(m, "stub") \/ ~HasService(m)
           /\ toServer' = rest
           /\ UNCHANGED <<toClient, asyncResult, transmitId, requestVars, router>>
        \/ /\ Get(m, "stub") /\ HasService(m)
           /\ \E at \in OutOfMemoryAt : Busy(ch, c, rest, at)
           /\ UNCHANGED router
        \/ /\ Get(m, "stub") /\ HasService(m)
           /\ router' = IF ch = Back THEN router ELSE RouterChannel
           /\ LET to == IF ch = Back THEN "local" ELSE RouterChannel
              IN CASE to = "local" /\ c \notin NotInserted \cup NotOverridden ->
                        Serve(ch, c, m, rest)
                   [] to = "local" /\ c \in NotInserted ->
                        Refuse(ch, c, m, rest, "service not implement")
                   [] to = "local" /\ c \in NotOverridden \ NotInserted ->
                        Refuse(ch, c, m, rest, NotImplemented(Method[c]))
                   [] to = "default" -> NothingToBeDone(ch, c, m, rest)
                   [] to = "back" -> Forward(ch, c, m, rest)
  /\ UNCHANGED <<open, redirect, outcome, result, cuts, redirects>>

(* A service has done its work, or fails, and runs done.                   *)
ServiceRuns(ch, c) ==
  /\ holder[ch][c] = "service"
  /\ \E failed \in BOOLEAN :
       /\ outcome' = [outcome EXCEPT ![c] = IF failed THEN "failed" ELSE "ok"]
       /\ TcpClosureRun(ch, c, heap[ch][c],
                        IF failed THEN SetFailed(proto[ch][c], "error") ELSE proto[ch][c],
                        ServiceCallMethod(Method[c], Parse(New, Get(proto[ch][c], "message")).message),
                        toClient)
  /\ UNCHANGED <<open, toServer, asyncResult, transmitId, redirect, router, result, cuts, redirects>>

-----------------------------------------------------------------------------
(* What HandleResponse leaves in the response of a call, which is new.     *)
ParseResponse(m) ==
  IF Get(m, "failed") \/ ~Has(m, "message") THEN New ELSE Parse(New, Get(m, "message")).message

(* HandleResponse at the calling end: the closure of a forwarded request   *)
(* answers in turn, with the message that has come in.                     *)
HandleResponse(ch, m, answers) ==
  LET id == Get(m, "transmit_id")
      c == asyncResult[ch][id]
  IN IF ~Has(asyncResult[ch], id)
     THEN /\ toClient' = answers
          /\ UNCHANGED <<asyncResult, requestVars, result>>
     ELSE /\ asyncResult' = [asyncResult EXCEPT ![ch] = ClearField(@, id)]
          /\ IF ch = Back
             THEN /\ TcpClosureRun(From[c], c, heap[From[c]][c], m,
                                   ParseResponse(m), answers)
                  /\ UNCHANGED result
             ELSE /\ result' = [result EXCEPT ![c] =
                       Result("replied", Get(m, "failed"), ParseResponse(m))]
                  /\ toClient' = answers
                  /\ UNCHANGED requestVars

AnswerArrives(ch) ==
  /\ ch \in open
  /\ toClient[ch] # <<>>
  /\ HandleResponse(ch, Received(ch, Head(toClient[ch]).fields), [toClient EXCEPT ![ch] = Tail(@)])
  /\ UNCHANGED <<open, toServer, transmitId, redirect, router, outcome, cuts, redirects>>

(* AfterSendRequest ends a one-way call with the message of its request.   *)
OneWaySent(ch) ==
  /\ ch \in open
  /\ \E id \in DOMAIN asyncResult[ch] :
       /\ asyncResult[ch][id] \in OneWay
       /\ HandleResponse(ch, Request(asyncResult[ch][id], id), toClient)
  /\ UNCHANGED <<open, toServer, transmitId, redirect, router, outcome, cuts, redirects>>

-----------------------------------------------------------------------------
Registered(ch) == {c \in Calls : holder[ch][c] \in {"service", "back"}}

Waiting(ch) == {asyncResult[ch][id] : id \in DOMAIN asyncResult[ch]}

(* The caller of f goes: Close at both ends.                               *)
CloseFront(f) ==
  /\ f \in open
  /\ LeavesForwarded \/ \A c \in Calls : holder[f][c] # "back"
  /\ open' = open \ {f}
  /\ toServer' = [toServer EXCEPT ![f] = <<>>]
  /\ toClient' = [toClient EXCEPT ![f] = <<>>]
  /\ asyncResult' = [asyncResult EXCEPT ![f] = New]
  /\ result' = [c \in Calls |-> IF c \in Waiting(f) THEN Result("canceled", TRUE, New) ELSE result[c]]
  /\ proto' = [proto EXCEPT ![f] = [c \in Calls |->
                 IF c \in Registered(f) THEN StartCancel(@[c]) ELSE @[c]]]
  /\ heap' = [heap EXCEPT ![f] = [c \in Calls |->
                 IF c \in Registered(f) THEN AfterCancel(c, @[c]) ELSE @[c]]]
  /\ UNCHANGED <<transmitId, redirect, router, holder, fault, outcome, cuts, redirects>>

(* The other server is lost: its requests are canceled, and the forwarded  *)
(* ones end as canceled ones do, without an answer.                        *)
CloseBack ==
  /\ Back \in open
  /\ open' = open \ {Back}
  /\ toServer' = [toServer EXCEPT ![Back] = <<>>]
  /\ toClient' = [toClient EXCEPT ![Back] = <<>>]
  /\ asyncResult' = [asyncResult EXCEPT ![Back] = New]
  /\ LET ended == {<<From[c], c>> : c \in Waiting(Back)}
         canceled == Registered(Back)
     IN /\ heap' = [ch \in Channels |-> [c \in Calls |->
               IF <<ch, c>> \in ended THEN {}
               ELSE IF ch = Back /\ c \in canceled THEN AfterCancel(c, heap[ch][c])
               ELSE heap[ch][c]]]
        /\ proto' = [ch \in Channels |-> [c \in Calls |->
               IF <<ch, c>> \in ended THEN New
               ELSE IF ch = Back /\ c \in canceled THEN StartCancel(proto[ch][c])
               ELSE proto[ch][c]]]
        /\ holder' = [ch \in Channels |-> [c \in Calls |->
               IF <<ch, c>> \in ended THEN "none" ELSE holder[ch][c]]]
        /\ fault' = IF \A pair \in ended : DeletedOnce(heap[pair[1]][pair[2]])
                    THEN fault ELSE Fault("freed twice")
  /\ UNCHANGED <<transmitId, redirect, router, outcome, result, cuts, redirects>>

(* ChannelPool::ChannelRedirect and RemoveRedirect.                        *)
Redirect ==
  /\ redirects < MaxRedirects
  /\ redirects' = redirects + 1
  /\ redirect' = ~redirect
  /\ UNCHANGED <<open, linkVars, router, requestVars, outcome, result, cuts>>

-----------------------------------------------------------------------------
Next ==
  \/ \E c \in Calls : Call(c)
  \/ \E f \in Fronts : CutRequest(f) \/ CloseFront(f)
  \/ \E ch \in Channels : HandleRequest(ch) \/ AnswerArrives(ch) \/ OneWaySent(ch)
  \/ \E ch \in Channels, c \in Calls : ServiceRuns(ch, c) \/ AfterSendResponse(ch, c)
  \/ CloseBack
  \/ Redirect

Spec == Init /\ [][Next]_vars

-----------------------------------------------------------------------------
(* The types, and what belongs together: an id that is waited for has been *)
(* given, and what a frame announces as its size, computed by ByteSize     *)
(* before Serialize runs, is what it carries, unless it was cut.           *)
TypeOK ==
  /\ open \subseteq Channels
  /\ \A ch \in Channels :
       /\ \A i \in DOMAIN toServer[ch] :
            LET frame == toServer[ch][i]
            IN frame.size = Len(frame.fields) \/ Last(frame.fields) = Cut
       /\ \A i \in DOMAIN toClient[ch] :
            toClient[ch][i].size = Len(toClient[ch][i].fields)
       /\ transmitId[ch] \in Nat
       /\ DOMAIN asyncResult[ch] \subseteq 0..transmitId[ch] - 1
       /\ Waiting(ch) \subseteq Calls
       /\ \A c \in Calls :
            /\ heap[ch][c] \subseteq Objects \cup {"buffer", "callback", "dangling callback"}
            /\ holder[ch][c] \in {"none", "service", "back", "write"}
            /\ DOMAIN proto[ch][c] \subseteq ToSet(ControllerProto)
            /\ DOMAIN Get(proto[ch][c], "connection") \subseteq ToSet(ConnectionProto)
            /\ DOMAIN Get(proto[ch][c], "session") \subseteq ToSet(SessionProto)
  /\ redirect \in BOOLEAN
  /\ router \in {"local", "back", "default"}
  /\ outcome \in [Calls -> {"none", "ok", "failed"}]
  /\ \A c \in Calls : result[c].state \in {"unsent", "waiting", "replied", "canceled"}

(* What the code needs for the objects of a request to be freed once: no   *)
(* service registers a cancel callback that deletes itself, which          *)
(* ~Controller deletes again (controller.cc:16); no caller goes while its  *)
(* request is with the other server, whose answer replaces the message     *)
(* that says is_canceled; and the two allocations do not fail that         *)
(* HandleRequest does not survive: without a controller nobody deletes the *)
(* message, and without room in router_controllers_ what the closure owns  *)
(* is deleted, and then the closure (channel.cc:269-294).                  *)
Discipline ==
  /\ OneShot = {}
  /\ "controller" \notin OutOfMemoryAt /\ "insert" \notin OutOfMemoryAt
  /\ ~LeavesForwarded

(* Under this discipline the objects of a request, which HandleRequest     *)
(* makes and hands over with its closure, exist exactly as long as         *)
(* somebody has the closure: until the write of the answer ends, or until  *)
(* TcpClosure::Run finds the request canceled or one-way.  They are freed  *)
(* once, also when an allocation of the request, the response or the       *)
(* closure fails, and no answer is written on a channel that is closed.    *)
NothingLeaks ==
  Discipline =>
    /\ fault = "none"
    /\ \A ch \in Channels, c \in Calls :
         /\ heap[ch][c] # {} <=> holder[ch][c] # "none"
         /\ holder[ch][c] = "back" => c \in Waiting(Back)

(* While no request has been forwarded, a caller that gets an answer is    *)
(* told what its service did: the response to its own call when the        *)
(* service ran and did not fail, a failure when it failed or when there    *)
(* was none.                                                               *)
AnswerTellsOutcome ==
  transmitId[Back] = 0 =>
    \A c \in Calls \ OneWay :
      result[c].state = "replied" =>
        IF result[c].failed THEN outcome[c] # "ok"
        ELSE outcome[c] = "ok" /\ result[c].message = ServiceCallMethod(Method[c], RequestOf(c))

(* Handle goes on with what ParseFromArray has read when it fails half way *)
(* (src/wire_format.cc:31).  All the same a service never sees half a      *)
(* request: the name of the service is the last field of its message, and  *)
(* what lacks it is dropped.  And the connection it is told of is the one  *)
(* the request came in by, on this process, whatever was sent.             *)
ServedInFull ==
  \A ch \in Channels, c \in Calls :
    holder[ch][c] = "service" =>
      /\ {"stub", "transmit_id", "message", "method_name"} \subseteq DOMAIN proto[ch][c]
      /\ Parse(New, proto[ch][c]["message"]).message = RequestOf(c)
      /\ Get(Get(proto[ch][c], "connection"), "id") = ch

(* "redirect channel from origin to another." (src/channel_pool.h:52):     *)
(* callers do not notice: who gets a response gets that of its own call.   *)
RedirectKeepsCalls ==
  \A c \in Calls :
    result[c].state = "replied" /\ ~result[c].failed /\ c \notin OneWay =>
      result[c].message = ServiceCallMethod(Method[c], RequestOf(c))
=============================================================================
