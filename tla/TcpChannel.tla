----------------------------- MODULE TcpChannel -----------------------------
(***************************************************************************)
(* maid::TcpChannel and maid::TcpClosure (src/channel.cc, src/closure.cc): *)
(* channels in different processes, linked in pairs by TCP connections.    *)
(* Both ends of a link run the same code and may call and serve.  A        *)
(* process is one libuv loop, so a callback is atomic; a service may       *)
(* answer in its callback or later.  Frames are whole here: their bytes    *)
(* are the subject of ReceivePath.                                         *)
(***************************************************************************)
EXTENDS Naturals, Sequences

CONSTANTS
  Ends,         \* the channels
  Peer,         \* Peer[e]: the channel at the other end of e's connection
  Calls,        \* the calls that user code may make
  Owner,        \* Owner[c]: the channel c is made on
  Notify,       \* the calls of methods with the notify option
  Unknown,      \* the calls whose service, method or request type the other
                \* process does not know
  NotInserted,  \* the calls of services it knows but has not inserted
  Faults        \* which of "send", "serve" and "answer" may fail locally:
                \* CallMethod, the allocations of HandleRequest, and the
                \* uv_write of TcpClosure::Run

ASSUME PeerAssumption ==
  /\ Peer \in [Ends -> Ends]
  /\ \A e \in Ends : Peer[e] # e /\ Peer[Peer[e]] = e
ASSUME CallAssumption ==
  /\ Owner \in [Calls -> Ends]
  /\ Notify \subseteq Calls
  /\ Unknown \subseteq Calls
  /\ NotInserted \subseteq Calls

VARIABLES
  connected,    \* connected[e]: stream_ # NULL
  transmitId,   \* transmit_id_, the id of the next request
  asyncResult,  \* async_result_, the calls that wait for their end
  router,       \* router_controllers_, requests the channel may cancel
  serving,      \* the live TcpClosures: requests a service has not answered
  canceled,     \* the served requests whose controller IsCanceled()
  writeQueue,   \* libuv: writes not yet accepted by the kernel
  written,      \* libuv: writes whose callback is due, with their status
  wire,         \* wire[e]: frames that e can still read from its socket
  fin,          \* fin[e]: after wire[e], e's socket reports an end or error
  buffer,       \* buffer_: frames read and not yet handled
  reading,      \* between uv_read_start and uv_read_stop
  timer,        \* timer_handle_ is active
  handling,     \* OnTimer has called user code, which has not returned
  misuse,       \* user code that OnTimer called has closed the channel
  crashed,      \* the process is gone, it has read a NULL stream
  outcome,      \* what the caller of c has been told
  runs,         \* how often the done closure of c has been Run
  reply,        \* the call that the message parsed into c's response answers
  executed      \* how often a service was handed c's request

linkVars == <<writeQueue, written, wire, fin>>
serverVars == <<router, serving, canceled>>
readVars == <<buffer, reading, timer, handling, misuse, crashed>>
userVars == <<outcome, runs, reply>>
vars == <<connected, transmitId, asyncResult, serverVars, linkVars, readVars,
          userVars, executed>>

(* What a response message may have been parsed from: nothing, or, for a   *)
(* one-way call, the request itself.                                       *)
None == "none"
Echo == "echo"

(* proto::ControllerProto: "stub" tells a request from a response, "body"  *)
(* stands for the message, by the call it belongs to.                      *)
Frame == [stub : BOOLEAN, id : Nat, body : Calls, failed : BOOLEAN]
Request(i, c) == [stub |-> TRUE, id |-> i, body |-> c, failed |-> FALSE]
Response(s, f) == [stub |-> FALSE, id |-> s.id, body |-> s.body, failed |-> f]

(* Context, keyed by transmit id; and the Controller of a served request.  *)
Context == [id : Nat, call : Calls]
Served == [id : Nat, body : Calls]
RequestOf(f) == [id |-> f.id, body |-> f.body]
Write == [frame : Frame, ok : BOOLEAN]

TypeOK ==
  /\ connected \in [Ends -> BOOLEAN]
  /\ transmitId \in [Ends -> Nat]
  /\ asyncResult \in [Ends -> SUBSET Context]
  /\ router \in [Ends -> SUBSET Served]
  /\ serving \in [Ends -> SUBSET Served]
  /\ canceled \in [Ends -> SUBSET Served]
  /\ writeQueue \in [Ends -> Seq(Frame)]
  /\ written \in [Ends -> Seq(Write)]
  /\ wire \in [Ends -> Seq(Frame)]
  /\ fin \in [Ends -> BOOLEAN]
  /\ buffer \in [Ends -> Seq(Frame)]
  /\ reading \in [Ends -> BOOLEAN]
  /\ timer \in [Ends -> BOOLEAN]
  /\ handling \in [Ends -> BOOLEAN]
  /\ misuse \in [Ends -> BOOLEAN]
  /\ crashed \in [Ends -> BOOLEAN]
  /\ outcome \in [Calls -> {"idle", "pending", "replied", "failed", "sent", "canceled"}]
  /\ runs \in [Calls -> Nat]
  /\ reply \in [Calls -> Calls \cup {None, Echo}]
  /\ executed \in [Calls -> Nat]

(* The constructor: uv_read_start on a connected stream.                   *)
Init ==
  /\ connected = [e \in Ends |-> TRUE]
  /\ transmitId = [e \in Ends |-> 0]
  /\ asyncResult = [e \in Ends |-> {}]
  /\ router = [e \in Ends |-> {}]
  /\ serving = [e \in Ends |-> {}]
  /\ canceled = [e \in Ends |-> {}]
  /\ writeQueue = [e \in Ends |-> <<>>]
  /\ written = [e \in Ends |-> <<>>]
  /\ wire = [e \in Ends |-> <<>>]
  /\ fin = [e \in Ends |-> FALSE]
  /\ buffer = [e \in Ends |-> <<>>]
  /\ reading = [e \in Ends |-> TRUE]
  /\ timer = [e \in Ends |-> FALSE]
  /\ handling = [e \in Ends |-> FALSE]
  /\ misuse = [e \in Ends |-> FALSE]
  /\ crashed = [e \in Ends |-> FALSE]
  /\ outcome = [c \in Calls |-> "idle"]
  /\ runs = [c \in Calls |-> 0]
  /\ reply = [c \in Calls |-> None]
  /\ executed = [c \in Calls |-> 0]

(* User code runs between and inside of callbacks, and callbacks one after *)
(* the other.                                                              *)
UserCode(e) == ~crashed[e]
InLoop(e) == ~crashed[e] /\ ~handling[e]

-----------------------------------------------------------------------------
(* The calling side                                                        *)

(* done->Run() of one call.                                                *)
RunDone(c, o, b) ==
  /\ outcome' = [outcome EXCEPT ![c] = o]
  /\ runs' = [runs EXCEPT ![c] = @ + 1]
  /\ reply' = [reply EXCEPT ![c] = b]

(* A stub's call on a closed channel: SetFailed("disconnected").           *)
CallDisconnected(e, c) ==
  /\ UserCode(e)
  /\ Owner[c] = e
  /\ outcome[c] = "idle"
  /\ ~connected[e]
  /\ RunDone(c, "failed", None)
  /\ UNCHANGED <<connected, transmitId, asyncResult, serverVars, linkVars,
                 readVars, executed>>

(* Variant: the counter runs backwards.                                    *)
RegisterBackwards(e, c) ==
  /\ transmitId' = [transmitId EXCEPT ![e] = @ - 1]
  /\ asyncResult' = [asyncResult EXCEPT ![e] = @ \cup {[id |-> transmitId[e], call |-> c]}]

Register(e, c) ==
  /\ transmitId' = [transmitId EXCEPT ![e] = @ + 1]
  /\ asyncResult' = [asyncResult EXCEPT ![e] = @ \cup {[id |-> transmitId[e], call |-> c]}]

(* A stub's call: it is registered under a fresh transmit id and its       *)
(* request is handed to uv_write.                                          *)
CallMethod(e, c) ==
  /\ Owner[c] = e
  /\ outcome[c] = "idle"
  /\ connected[e]
  /\ Register(e, c)
  /\ writeQueue' = [writeQueue EXCEPT ![e] = Append(@, Request(transmitId[e], c))]
  /\ outcome' = [outcome EXCEPT ![c] = "pending"]
  /\ UNCHANGED <<connected, serverVars, written, wire, fin, readVars, runs,
                 reply, executed>>

(* No memory for the send buffer or the write request, or uv_write refuses *)
(* it: HandleResponse erases the context again and runs the closure.       *)
CallMethodFails(e, c) ==
  /\ "send" \in Faults
  /\ Owner[c] = e
  /\ outcome[c] = "idle"
  /\ connected[e]
  /\ transmitId' = [transmitId EXCEPT ![e] = @ + 1]
  /\ RunDone(c, "failed", None)
  /\ UNCHANGED <<connected, asyncResult, serverVars, linkVars, readVars, executed>>

(* Variants with a fault, for mutation checks: the context stays            *)
(* registered; or answers are taken to come in the order of the calls.     *)
HandleResponseKeeps(e, i, o, b) ==
  /\ \E ctx \in asyncResult[e] : ctx.id = i /\ RunDone(ctx.call, o, b)
  /\ UNCHANGED asyncResult

HandleResponseOldest(e, i, o, b) ==
  \E ctx \in asyncResult[e] :
    /\ \A other \in asyncResult[e] : ctx.id <= other.id
    /\ asyncResult' = [asyncResult EXCEPT ![e] = @ \ {ctx}]
    /\ RunDone(ctx.call, o, b)

(* The context found under an id leaves async_result_ before its closure   *)
(* runs; an id that is not there is ignored.                               *)
HandleResponse(e, i, o, b) ==
  \/ \E ctx \in asyncResult[e] :
       /\ ctx.id = i
       /\ asyncResult' = [asyncResult EXCEPT ![e] = @ \ {ctx}]
       /\ RunDone(ctx.call, o, b)
  \/ /\ \A ctx \in asyncResult[e] : ctx.id # i
     /\ UNCHANGED <<asyncResult, userVars>>

(* Variant: a written request ends its call.                               *)
AfterSendRequestEnds(e) ==
  /\ InLoop(e)
  /\ written[e] # <<>>
  /\ LET w == Head(written[e]) IN
       /\ w.frame.stub
       /\ HandleResponse(e, w.frame.id, "sent", Echo)
  /\ written' = [written EXCEPT ![e] = Tail(@)]
  /\ UNCHANGED <<connected, transmitId, serverVars, writeQueue, wire, fin,
                 readVars, executed>>

(* The write callback of a request: a one-way call ends here whatever the  *)
(* status, any other call only if the write went wrong.                    *)
AfterSendRequest(e) ==
  /\ InLoop(e)
  /\ written[e] # <<>>
  /\ LET w == Head(written[e]) IN
       /\ w.frame.stub
       /\ IF w.frame.body \in Notify
            THEN HandleResponse(e, w.frame.id, "sent", Echo)
          ELSE IF ~w.ok
            THEN HandleResponse(e, w.frame.id, "failed", None)
          ELSE UNCHANGED <<asyncResult, userVars>>
  /\ written' = [written EXCEPT ![e] = Tail(@)]
  /\ UNCHANGED <<connected, transmitId, serverVars, writeQueue, wire, fin,
                 readVars, executed>>

-----------------------------------------------------------------------------
(* The serving side                                                        *)

(* TcpClosure::Run: the answer of the service.  Nothing is sent for a      *)
(* one-way call, nor when Close has canceled the request, nor when         *)
(* uv_write refuses it.                                                    *)
TcpClosureRun(e, s, failed) ==
  /\ UserCode(e)
  /\ s \in serving[e]
  /\ serving' = [serving EXCEPT ![e] = @ \ {s}]
  /\ router' = [router EXCEPT ![e] = @ \ {s}]
  /\ canceled' = [canceled EXCEPT ![e] = @ \ {s}]
  /\ \/ /\ s \notin canceled[e]
        /\ s.body \notin Notify
        /\ writeQueue' = [writeQueue EXCEPT ![e] = Append(@, Response(s, failed))]
     \/ /\ s \in canceled[e] \/ s.body \in Notify \/ "answer" \in Faults
        /\ UNCHANGED writeQueue
  /\ UNCHANGED <<connected, transmitId, asyncResult, written, wire, fin,
                 readVars, userVars, executed>>

(* The write callback of a response only frees the closure.                *)
AfterSendResponse(e) ==
  /\ InLoop(e)
  /\ written[e] # <<>>
  /\ ~Head(written[e]).frame.stub
  /\ written' = [written EXCEPT ![e] = Tail(@)]
  /\ UNCHANGED <<connected, transmitId, asyncResult, serverVars, writeQueue,
                 wire, fin, readVars, userVars, executed>>

-----------------------------------------------------------------------------
(* The receive scheduler: uv_read_start .. OnRead .. OnTimer* .. LACK_DATA *)

(* Frames have arrived: reading pauses until OnTimer has handled them.     *)
OnRead(e) ==
  /\ reading[e]
  /\ \E k \in 1..Len(wire[e]) :
       /\ buffer' = [buffer EXCEPT ![e] = @ \o SubSeq(wire[e], 1, k)]
       /\ wire' = [wire EXCEPT ![e] = SubSeq(@, k + 1, Len(@))]
  /\ reading' = [reading EXCEPT ![e] = FALSE]
  /\ timer' = [timer EXCEPT ![e] = TRUE]
  /\ UNCHANGED <<connected, transmitId, asyncResult, serverVars, writeQueue,
                 written, fin, handling, misuse, crashed, userVars, executed>>

(* A tick of the timer.  libuv starts a repeating timer anew before it     *)
(* calls back, so that it is active while OnTimer runs.                    *)
Tick(e) == InLoop(e) /\ timer[e]

(* Variant: reading is not resumed.                                        *)
LackDataStays(e) ==
  /\ Tick(e)
  /\ buffer[e] = <<>>
  /\ timer' = [timer EXCEPT ![e] = FALSE]
  /\ UNCHANGED <<connected, transmitId, asyncResult, serverVars, linkVars, buffer,
                 reading, handling, misuse, crashed, userVars, executed>>

(* OnTimer, no whole frame left: the timer stops and reading resumes.  The *)
(* stream of a closed channel is NULL, which uv_read_start does not check. *)
LackData(e) ==
  /\ Tick(e)
  /\ buffer[e] = <<>>
  /\ timer' = [timer EXCEPT ![e] = FALSE]
  /\ reading' = [reading EXCEPT ![e] = connected[e]]
  /\ crashed' = [crashed EXCEPT ![e] = ~connected[e]]
  /\ UNCHANGED <<connected, transmitId, asyncResult, serverVars, linkVars,
                 buffer, handling, misuse, userVars, executed>>

(* Variant: the newest frame.                                              *)
NewestFrame(e) == buffer[e][Len(buffer[e])]

NextFrame(e) == Head(buffer[e])

(* Variant: the frame is not consumed.                                     *)
HandleAgain(e) ==
  /\ Tick(e)
  /\ buffer[e] # <<>>
  /\ UNCHANGED <<connected, transmitId, written, wire, fin, buffer, reading, timer,
                 misuse, crashed>>

(* OnTimer takes the next frame.  Where it calls no user code it returns   *)
(* at once, and uv_timer_again finds the timer active.                     *)
Handle(e) ==
  /\ Tick(e)
  /\ buffer[e] # <<>>
  /\ buffer' = [buffer EXCEPT ![e] = Tail(@)]
  /\ UNCHANGED <<connected, transmitId, written, wire, fin, reading, timer,
                 misuse, crashed>>

(* A request that names nothing known here, or that cannot be allocated,   *)
(* is dropped without an answer.                                           *)
RejectRequest(e) ==
  /\ Handle(e)
  /\ NextFrame(e).stub
  /\ NextFrame(e).body \in Unknown \/ "serve" \in Faults
  /\ UNCHANGED <<handling, asyncResult, serverVars, writeQueue, userVars, executed>>

(* No such service in the repository (LocalMapRepoChannel): SetFailed and  *)
(* the closure runs inside the call.                                       *)
ServiceNotImplement(e) ==
  /\ Handle(e)
  /\ NextFrame(e).stub
  /\ NextFrame(e).body \in NotInserted \ Unknown
  /\ \/ /\ NextFrame(e).body \notin Notify
        /\ writeQueue' = [writeQueue EXCEPT ![e] =
                            Append(@, Response(RequestOf(NextFrame(e)), TRUE))]
     \/ /\ NextFrame(e).body \in Notify \/ "answer" \in Faults
        /\ UNCHANGED writeQueue
  /\ UNCHANGED <<handling, asyncResult, serverVars, userVars, executed>>

(* The service is called, with a controller that Close can cancel.  What   *)
(* it does before it returns are steps of user code.                       *)
HandleRequest(e) ==
  /\ Handle(e)
  /\ NextFrame(e).stub
  /\ NextFrame(e).body \notin Unknown \cup NotInserted
  /\ serving' = [serving EXCEPT ![e] = @ \cup {RequestOf(NextFrame(e))}]
  /\ router' = [router EXCEPT ![e] = @ \cup {RequestOf(NextFrame(e))}]
  /\ executed' = [executed EXCEPT ![NextFrame(e).body] = @ + 1]
  /\ handling' = [handling EXCEPT ![e] = TRUE]
  /\ UNCHANGED <<asyncResult, canceled, writeQueue, userVars>>

(* An answer, whose done closure is user code.                             *)
HandleReply(e) ==
  /\ Handle(e)
  /\ ~NextFrame(e).stub
  /\ handling' = [handling EXCEPT ![e] =
                    \E ctx \in asyncResult[e] : ctx.id = NextFrame(e).id]
  /\ IF NextFrame(e).failed THEN HandleResponse(e, NextFrame(e).id, "failed", None)
                 ELSE HandleResponse(e, NextFrame(e).id, "replied", NextFrame(e).body)
  /\ UNCHANGED <<serverVars, writeQueue, executed>>

(* User code has returned to OnTimer, which calls uv_timer_again: a timer  *)
(* that Close has stopped meanwhile is started again.                      *)
TimerReturn(e) ==
  /\ handling[e]
  /\ handling' = [handling EXCEPT ![e] = FALSE]
  /\ timer' = [timer EXCEPT ![e] = TRUE]
  /\ UNCHANGED <<connected, transmitId, asyncResult, serverVars, linkVars,
                 buffer, reading, misuse, crashed, userVars, executed>>

-----------------------------------------------------------------------------
(* The end of a connection                                                 *)

(* Variant: only the list is cleared.                                      *)
CancelNothingServed(e) ==
  /\ router' = [router EXCEPT ![e] = {}]
  /\ UNCHANGED canceled

(* StartCancel on every request that a service is still working on.        *)
CancelServed(e) ==
  /\ canceled' = [canceled EXCEPT ![e] = @ \cup router[e]]
  /\ router' = [router EXCEPT ![e] = {}]

(* Variant: the waiting calls are forgotten.                               *)
ForgetWaiting(e) ==
  /\ asyncResult' = [asyncResult EXCEPT ![e] = {}]
  /\ UNCHANGED <<outcome, runs>>

(* SetFailed("canceled") and done->Run() for every call that waits.        *)
CancelWaiting(e) ==
  /\ LET Waits(c) == \E ctx \in asyncResult[e] : ctx.call = c IN
       /\ outcome' = [c \in Calls |-> IF Waits(c) THEN "canceled" ELSE outcome[c]]
       /\ runs' = [c \in Calls |-> IF Waits(c) THEN runs[c] + 1 ELSE runs[c]]
  /\ asyncResult' = [asyncResult EXCEPT ![e] = {}]

(* TcpChannel::Close.  Served requests are canceled, waiting calls end,    *)
(* buffered frames are dropped; libuv calls the writes that are left back  *)
(* with UV_ECANCELED and the other end reads an end of file.               *)
Close(e) ==
  /\ misuse' = [misuse EXCEPT ![e] = handling[e]]
  /\ connected' = [connected EXCEPT ![e] = FALSE]
  /\ reading' = [reading EXCEPT ![e] = FALSE]
  /\ timer' = [timer EXCEPT ![e] = FALSE]
  /\ CancelServed(e)
  /\ CancelWaiting(e)
  /\ buffer' = [buffer EXCEPT ![e] = <<>>]
  /\ writeQueue' = [writeQueue EXCEPT ![e] = <<>>]
  /\ written' = [written EXCEPT ![e] =
                   @ \o [i \in 1..Len(writeQueue[e]) |->
                          [frame |-> writeQueue[e][i], ok |-> FALSE]]]
  /\ wire' = [wire EXCEPT ![e] = <<>>]
  /\ fin' = [fin EXCEPT ![Peer[e]] = TRUE]
  /\ UNCHANGED <<transmitId, serving, reply, executed, handling, crashed>>

(* OnRead with nread < 0: the factory's Disconnected closes the channel.   *)
Disconnected(e) ==
  /\ reading[e]
  /\ fin[e]
  /\ wire[e] = <<>>
  /\ Close(e)

(* User code closes the channel, from a callback of its own or inside of   *)
(* OnTimer.                                                                *)
UserClose(e) ==
  /\ connected[e]
  /\ Close(e)

-----------------------------------------------------------------------------
(* libuv and the kernel                                                    *)

(* The kernel takes a frame; it is lost if nobody is there to read it.     *)
Flush(e) ==
  /\ writeQueue[e] # <<>>
  /\ LET f == Head(writeQueue[e]) IN
       /\ written' = [written EXCEPT ![e] = Append(@, [frame |-> f, ok |-> TRUE])]
       /\ wire' = IF fin[e] THEN wire
                  ELSE [wire EXCEPT ![Peer[e]] = Append(@, f)]
  /\ writeQueue' = [writeQueue EXCEPT ![e] = Tail(@)]
  /\ UNCHANGED <<connected, transmitId, asyncResult, serverVars, fin, readVars,
                 userVars, executed>>

(* EPIPE or ECONNRESET on a connection that is gone.                       *)
FlushError(e) ==
  /\ writeQueue[e] # <<>>
  /\ fin[e]
  /\ written' = [written EXCEPT ![e] =
                   Append(@, [frame |-> Head(writeQueue[e]), ok |-> FALSE])]
  /\ writeQueue' = [writeQueue EXCEPT ![e] = Tail(@)]
  /\ UNCHANGED <<connected, transmitId, asyncResult, serverVars, wire, fin,
                 readVars, userVars, executed>>

(* The connection breaks; what e had not read is lost.                     *)
Reset(e) ==
  /\ connected[e]
  /\ ~fin[e] \/ wire[e] # <<>>
  /\ fin' = [fin EXCEPT ![e] = TRUE, ![Peer[e]] = TRUE]
  /\ wire' = [wire EXCEPT ![e] = <<>>]
  /\ UNCHANGED <<connected, transmitId, asyncResult, serverVars, writeQueue,
                 written, readVars, userVars, executed>>

-----------------------------------------------------------------------------
OnTimer(e) ==
  \/ LackData(e)
  \/ RejectRequest(e)
  \/ ServiceNotImplement(e)
  \/ HandleRequest(e)
  \/ HandleReply(e)
  \/ TimerReturn(e)

AfterWrite(e) == AfterSendRequest(e) \/ AfterSendResponse(e)

KernelWrite(e) == Flush(e) \/ FlushError(e)

Answer(e, c) ==
  \E s \in serving[e], failed \in BOOLEAN : s.body = c /\ TcpClosureRun(e, s, failed)

UserCall(e, c) == CallDisconnected(e, c) \/ CallMethod(e, c) \/ CallMethodFails(e, c)

(* Every channel is closed and nothing is left to run.                     *)
Terminated ==
  /\ \A e \in Ends :
       \/ crashed[e]
       \/ ~connected[e] /\ serving[e] = {} /\ written[e] = <<>> /\ ~handling[e] /\ ~timer[e]
  /\ \A c \in Calls : outcome[c] # "idle" \/ crashed[Owner[c]]
  /\ UNCHANGED vars

Next ==
  \/ \E e \in Ends :
       \/ \E c \in Calls : UserCall(e, c) \/ Answer(e, c)
       \/ OnRead(e)
       \/ OnTimer(e)
       \/ AfterWrite(e)
       \/ KernelWrite(e)
       \/ Disconnected(e)
       \/ UserClose(e)
       \/ Reset(e)
  \/ Terminated

(* A libuv loop runs every callback that is due, the kernel takes what is  *)
(* written, and (assumptions on user code) what OnTimer calls returns, and *)
(* a service answers in the end.                                           *)
(* Nobody has to call, to close or to break a connection.                  *)
Fairness ==
  \A e \in Ends :
    /\ WF_vars(OnRead(e))
    /\ WF_vars(OnTimer(e))
    /\ WF_vars(AfterWrite(e))
    /\ WF_vars(KernelWrite(e))
    /\ WF_vars(Disconnected(e))
    /\ \A c \in Calls : WF_vars(Answer(e, c))

Spec == Init /\ [][Next]_vars
FairSpec == Spec /\ Fairness

-----------------------------------------------------------------------------
(* What makes the channel correct                                          *)

Ended == {"replied", "failed", "sent", "canceled"}

InFlight(e) == buffer[Peer[e]] \o wire[Peer[e]] \o writeQueue[e]

(* CallMethod's done closure runs once for a call that has ended and not   *)
(* before, whichever of the response, the write callback and Close comes   *)
(* first (channel.cc:147-167, 303-324, 353-361).                           *)
DoneOnce ==
  \A c \in Calls : runs[c] = IF outcome[c] \in Ended THEN 1 ELSE 0

(* A caller waits exactly while the channel remembers it, so that no       *)
(* closure is leaked and none is run that the user has already freed.      *)
WaitsIffRegistered ==
  \A c \in Calls : outcome[c] = "pending" <=> \E ctx \in asyncResult[Owner[c]] : ctx.call = c

(* The CHECK of CallMethod (channel.cc:106): a fresh id is not in use, and *)
(* an id names one call.                                                   *)
IdsUnique ==
  \A e \in Ends : \A x, y \in asyncResult[e] :
    x.id < transmitId[e] /\ (x.id = y.id => x = y)

(* The message parsed into a call's response is the answer to that call,   *)
(* although answers come in any order and ids outlive their calls.         *)
ReplyMatchesCall ==
  \A c \in Calls : /\ outcome[c] = "replied" => reply[c] = c
                   /\ reply[c] \notin {None, Echo} => outcome[c] = "replied"

(* A service is handed a request at most once: no retry, no duplicate.     *)
ExecutedAtMostOnce == \A c \in Calls : executed[c] <= 1

(* Requests are served in the order of the calls.                          *)
ServedInOrder ==
  [][\A c \in Calls :
       executed'[c] > executed[c] =>
         LET frames == InFlight(Owner[c]) IN
         \A i, j \in 1..Len(frames) :
           frames[i].stub /\ frames[j].stub /\ frames[j].body = c => frames[i].id >= frames[j].id]_vars

(* TcpClosure::Run on a closed channel would write to a NULL stream: every *)
(* request that outlives the channel has been canceled, and nothing is     *)
(* queued for writing (closure.cc:65, 82; channel.cc:345-351).             *)
NoWriteOnClosed ==
  \A e \in Ends : ~connected[e] => serving[e] \subseteq canceled[e] /\ writeQueue[e] = <<>>

(* An open channel is either reading or has its timer running, never       *)
(* neither (it would hang) and never both (OnAlloc would move the buffer   *)
(* that Handle reads).  A closed one does not read, and its timer stays    *)
(* stopped, unless user code has closed it inside of OnTimer: then it is   *)
(* uv_timer_again that starts the timer (channel.cc:226), and the next     *)
(* tick reads a NULL stream (channel.cc:219).                              *)
SchedulerAlive ==
  \A e \in Ends :
    IF connected[e] THEN reading[e] # timer[e] /\ ~crashed[e]
    ELSE ~reading[e] /\ (timer[e] \/ crashed[e] => misuse[e])

(* The channel keeps what RpcCalls promises.                               *)
Promise == INSTANCE RpcCalls
ImplementsRpcCalls == Promise!Spec

(* Without local failures a call that can be served ends, closed           *)
(* connection or not.                                                      *)
CallsComplete ==
  \A c \in Calls :
    c \notin Unknown \/ c \in Notify => (outcome[c] = "pending" ~> outcome[c] # "pending")

(* Even a call that is never answered ends when its connection does.       *)
CallsEndWithConnection ==
  \A c \in Calls :
    outcome[c] = "pending" /\ fin[Owner[c]] ~> outcome[c] # "pending"

(* options.proto:12-15 says of a one-way method that a response and a done *)
(* closure are not used: "response == NULL && done == NULL is required".   *)
NotifyNeedsNoClosure == \A c \in Notify : runs[c] = 0

=============================================================================
