-------------------------- MODULE TcpChannelProofs --------------------------
(* Proofs about TcpChannel, for any channels, calls and faults.            *)
EXTENDS TcpChannel, SequenceTheorems, TLAPS

(* The constructors of frames and contexts, and the fields of a frame.     *)
LEMMA FrameTypes ==
  /\ \A i \in Nat, c \in Calls : /\ Request(i, c) \in Frame
                                 /\ [id |-> i, call |-> c] \in Context
  /\ \A s \in Served, f \in BOOLEAN : Response(s, f) \in Frame
  /\ \A f \in Frame : /\ RequestOf(f) \in Served
                      /\ f.body \in Calls
                      /\ f.id \in Nat
                      /\ \A ok \in BOOLEAN : [frame |-> f, ok |-> ok] \in Write
  /\ \A w \in Write : w.frame \in Frame
  BY DEF Request, Response, RequestOf, Frame, Context, Served, Write

(* HandleResponse, whoever runs it.                                        *)
LEMMA HandleResponseType ==
  ASSUME TypeOK, NEW e \in Ends, NEW i, NEW o \in Ended, NEW b \in Calls \cup {None, Echo},
         HandleResponse(e, i, o, b)
  PROVE  /\ asyncResult' \in [Ends -> SUBSET Context]
         /\ outcome' \in [Calls -> {"idle", "pending", "replied", "failed", "sent", "canceled"}]
         /\ runs' \in [Calls -> Nat]
         /\ reply' \in [Calls -> Calls \cup {None, Echo}]
<1>1. CASE \A ctx \in asyncResult[e] : ctx.id # i
  BY <1>1 DEF HandleResponse, TypeOK, userVars
<1>2. CASE \E ctx \in asyncResult[e] : ctx.id = i
  <2>1. PICK ctx \in asyncResult[e] :
          /\ asyncResult' = [asyncResult EXCEPT ![e] = @ \ {ctx}]
          /\ RunDone(ctx.call, o, b)
    BY <1>2 DEF HandleResponse
  <2>2. ctx.call \in Calls
    BY DEF TypeOK, Context
  <2>3. /\ outcome' = [outcome EXCEPT ![ctx.call] = o]
        /\ runs' = [runs EXCEPT ![ctx.call] = @ + 1]
        /\ reply' = [reply EXCEPT ![ctx.call] = b]
    BY <2>1 DEF RunDone
  <2>4. asyncResult' \in [Ends -> SUBSET Context]
    BY <2>1 DEF TypeOK
  <2>5. outcome' \in [Calls -> {"idle", "pending", "replied", "failed", "sent", "canceled"}]
    BY <2>3 DEF TypeOK, Ended
  <2>6. runs' \in [Calls -> Nat]
    BY <2>2, <2>3 DEF TypeOK
  <2>7. reply' \in [Calls -> Calls \cup {None, Echo}]
    BY <2>3 DEF TypeOK
  <2> QED
    BY <2>4, <2>5, <2>6, <2>7
<1> QED
  BY <1>1, <1>2

(* The frame that OnTimer handles, and what is left.                       *)
LEMMA HandleType ==
  ASSUME TypeOK, NEW e \in Ends, Handle(e)
  PROVE  /\ NextFrame(e) \in Frame
         /\ buffer' \in [Ends -> Seq(Frame)]
<1>1. NextFrame(e) \in Frame /\ Tail(buffer[e]) \in Seq(Frame)
  BY HeadTailProperties DEF Handle, NextFrame, TypeOK
<1> QED
  BY <1>1 DEF Handle, TypeOK

LEMMA CloseType ==
  ASSUME TypeOK, NEW e \in Ends, Close(e)
  PROVE  TypeOK'
<1>1. written' \in [Ends -> Seq(Write)]
  <2> DEFINE back == [i \in 1..Len(writeQueue[e]) |-> [frame |-> writeQueue[e][i], ok |-> FALSE]]
  <2>1. writeQueue[e] \in Seq(Frame)
    BY DEF TypeOK
  <2>2. Len(writeQueue[e]) \in Nat
    BY <2>1, LenProperties
  <2>3. \A i \in 1..Len(writeQueue[e]) : [frame |-> writeQueue[e][i], ok |-> FALSE] \in Write
    BY <2>1, ElementOfSeq, FrameTypes
  <2>4. back \in Seq(Write)
    BY <2>2, <2>3
  <2>5. written[e] \o back \in Seq(Write)
    BY <2>4, ConcatProperties DEF TypeOK
  <2> QED
    BY <2>5 DEF Close, TypeOK
<1>2. /\ wire' \in [Ends -> Seq(Frame)]
      /\ buffer' \in [Ends -> Seq(Frame)]
      /\ writeQueue' \in [Ends -> Seq(Frame)]
  <2>1. <<>> \in Seq(Frame)
    BY EmptySeq
  <2> QED
    BY <2>1 DEF Close, TypeOK
<1>3. /\ canceled' \in [Ends -> SUBSET Served]
      /\ router' \in [Ends -> SUBSET Served]
  BY DEF Close, CancelServed, TypeOK
<1>4. /\ outcome' \in [Calls -> {"idle", "pending", "replied", "failed", "sent", "canceled"}]
      /\ runs' \in [Calls -> Nat]
      /\ asyncResult' \in [Ends -> SUBSET Context]
  BY DEF Close, CancelWaiting, TypeOK
<1>5. fin' \in [Ends -> BOOLEAN]
  BY PeerAssumption DEF Close, TypeOK
<1> QED
  BY <1>1, <1>2, <1>3, <1>4, <1>5 DEF Close, TypeOK

LEMMA CallType ==
  ASSUME TypeOK, NEW e \in Ends, NEW c \in Calls, UserCall(e, c)
  PROVE  TypeOK'
<1> USE DEF serverVars, linkVars, readVars, userVars
<1>1. CASE CallDisconnected(e, c)
  BY <1>1 DEF TypeOK, CallDisconnected, RunDone
<1>2. CASE CallMethod(e, c)
  <2>1. Append(writeQueue[e], Request(transmitId[e], c)) \in Seq(Frame)
    BY FrameTypes, AppendProperties DEF TypeOK
  <2>2. [id |-> transmitId[e], call |-> c] \in Context
    BY FrameTypes DEF TypeOK
  <2>3. writeQueue' \in [Ends -> Seq(Frame)]
    BY <1>2, <2>1 DEF TypeOK, CallMethod
  <2> QED
    BY <1>2, <2>2, <2>3 DEF TypeOK, CallMethod, Register
<1>3. CASE CallMethodFails(e, c)
  BY <1>3 DEF TypeOK, CallMethodFails, RunDone
<1> QED
  BY <1>1, <1>2, <1>3 DEF UserCall

LEMMA AnswerType ==
  ASSUME TypeOK, NEW e \in Ends, NEW c \in Calls, Answer(e, c)
  PROVE  TypeOK'
<1>1. PICK s \in serving[e], failed \in BOOLEAN : TcpClosureRun(e, s, failed)
  BY DEF Answer
<1>2. Append(writeQueue[e], Response(s, failed)) \in Seq(Frame)
  BY FrameTypes, AppendProperties DEF TypeOK
<1>3. writeQueue' \in [Ends -> Seq(Frame)]
  BY <1>1, <1>2 DEF TcpClosureRun, TypeOK
<1> QED
  BY <1>1, <1>3 DEF TcpClosureRun, TypeOK, userVars, readVars

LEMMA OnTimerType ==
  ASSUME TypeOK, NEW e \in Ends, OnTimer(e)
  PROVE  TypeOK'
<1> USE DEF serverVars, linkVars, userVars
<1>1. CASE LackData(e)
  BY <1>1 DEF LackData, TypeOK
<1>2. CASE RejectRequest(e)
  BY <1>2, HandleType DEF RejectRequest, Handle, TypeOK
<1>3. CASE ServiceNotImplement(e)
  <2>1. Append(writeQueue[e], Response(RequestOf(NextFrame(e)), TRUE)) \in Seq(Frame)
    BY <1>3, HandleType, FrameTypes, AppendProperties DEF ServiceNotImplement, TypeOK
  <2>2. writeQueue' \in [Ends -> Seq(Frame)]
    BY <1>3, <2>1 DEF ServiceNotImplement, TypeOK
  <2> QED
    BY <1>3, <2>2, HandleType DEF ServiceNotImplement, Handle, TypeOK
<1>4. CASE HandleRequest(e)
  <2>1. RequestOf(NextFrame(e)) \in Served /\ NextFrame(e).body \in Calls
    BY <1>4, HandleType, FrameTypes DEF HandleRequest
  <2>2. buffer' \in [Ends -> Seq(Frame)]
    BY <1>4, HandleType DEF HandleRequest
  <2>3. /\ serving' \in [Ends -> SUBSET Served]
        /\ router' \in [Ends -> SUBSET Served]
        /\ executed' \in [Calls -> Nat]
    BY <1>4, <2>1 DEF HandleRequest, TypeOK
  <2> QED
    BY <1>4, <2>2, <2>3 DEF HandleRequest, Handle, TypeOK
<1>5. CASE HandleReply(e)
  <2>1. NextFrame(e).body \in Calls
    BY <1>5, HandleType, FrameTypes DEF HandleReply
  <2>2. /\ asyncResult' \in [Ends -> SUBSET Context]
        /\ outcome' \in [Calls -> {"idle", "pending", "replied", "failed", "sent", "canceled"}]
        /\ runs' \in [Calls -> Nat]
        /\ reply' \in [Calls -> Calls \cup {None, Echo}]
    BY <1>5, <2>1, HandleResponseType DEF HandleReply, Ended
  <2> QED
    BY <1>5, <2>2, HandleType DEF HandleReply, Handle, TypeOK
<1>6. CASE TimerReturn(e)
  BY <1>6 DEF TimerReturn, TypeOK
<1> QED
  BY <1>1, <1>2, <1>3, <1>4, <1>5, <1>6 DEF OnTimer

LEMMA IoType ==
  ASSUME TypeOK, NEW e \in Ends, OnRead(e) \/ AfterWrite(e) \/ KernelWrite(e) \/ Reset(e)
  PROVE  TypeOK'
<1> USE DEF serverVars, linkVars, readVars, userVars
<1>1. CASE OnRead(e)
  <2>1. PICK k \in 1..Len(wire[e]) :
          /\ buffer' = [buffer EXCEPT ![e] = @ \o SubSeq(wire[e], 1, k)]
          /\ wire' = [wire EXCEPT ![e] = SubSeq(@, k + 1, Len(@))]
    BY <1>1 DEF OnRead
  <2>2. wire[e] \in Seq(Frame) /\ buffer[e] \in Seq(Frame)
    BY DEF TypeOK
  <2>3. \A i \in 1..Len(wire[e]) : wire[e][i] \in Frame
    BY <2>2, ElementOfSeq
  <2>4. Len(wire[e]) \in Nat /\ k \in Nat
    BY <2>2, LenProperties
  <2>5. SubSeq(wire[e], 1, k) \in Seq(Frame)
    BY <2>3, <2>4, SubSeqProperties
  <2>6. SubSeq(wire[e], k + 1, Len(wire[e])) \in Seq(Frame)
    BY <2>3, <2>4, SubSeqProperties
  <2>7. buffer[e] \o SubSeq(wire[e], 1, k) \in Seq(Frame)
    BY <2>2, <2>5, ConcatProperties
  <2>8. wire' \in [Ends -> Seq(Frame)] /\ buffer' \in [Ends -> Seq(Frame)]
    BY <2>1, <2>6, <2>7 DEF TypeOK
  <2> QED
    BY <1>1, <2>8 DEF OnRead, TypeOK
<1>2. CASE AfterWrite(e)
  <2>1. written[e] # <<>> /\ written' = [written EXCEPT ![e] = Tail(@)]
    BY <1>2 DEF AfterWrite, AfterSendRequest, AfterSendResponse
  <2>2. Tail(written[e]) \in Seq(Write)
    BY <2>1, HeadTailProperties DEF TypeOK
  <2>3. written' \in [Ends -> Seq(Write)]
    BY <2>1, <2>2 DEF TypeOK
  <2>4. CASE AfterSendRequest(e)
    <3>1. /\ asyncResult' \in [Ends -> SUBSET Context]
          /\ outcome' \in [Calls -> {"idle", "pending", "replied", "failed", "sent", "canceled"}]
          /\ runs' \in [Calls -> Nat]
          /\ reply' \in [Calls -> Calls \cup {None, Echo}]
      <4> DEFINE i == Head(written[e]).frame.id
      <4>1. CASE HandleResponse(e, i, "sent", Echo)
        BY <4>1, HandleResponseType DEF Ended
      <4>2. CASE HandleResponse(e, i, "failed", None)
        BY <4>2, HandleResponseType DEF Ended
      <4>3. CASE UNCHANGED <<asyncResult, userVars>>
        BY <4>3 DEF TypeOK
      <4> QED
        BY <2>4, <4>1, <4>2, <4>3 DEF AfterSendRequest
    <3> QED
      BY <2>3, <2>4, <3>1 DEF AfterSendRequest, TypeOK
  <2>5. CASE AfterSendResponse(e)
    BY <2>3, <2>5 DEF AfterSendResponse, TypeOK
  <2> QED
    BY <1>2, <2>4, <2>5 DEF AfterWrite
<1>3. CASE KernelWrite(e)
  <2>1. writeQueue[e] # <<>>
    BY <1>3 DEF KernelWrite, Flush, FlushError
  <2>2. Head(writeQueue[e]) \in Frame /\ Tail(writeQueue[e]) \in Seq(Frame)
    BY <2>1, HeadTailProperties DEF TypeOK
  <2>3. \A ok \in BOOLEAN : Append(written[e], [frame |-> Head(writeQueue[e]), ok |-> ok]) \in Seq(Write)
    BY <2>2, FrameTypes, AppendProperties DEF TypeOK
  <2>4. Peer[e] \in Ends
    BY PeerAssumption
  <2>5. Append(wire[Peer[e]], Head(writeQueue[e])) \in Seq(Frame)
    BY <2>2, <2>4, AppendProperties DEF TypeOK
  <2>6. wire' \in [Ends -> Seq(Frame)]
    BY <1>3, <2>5 DEF KernelWrite, Flush, FlushError, TypeOK
  <2>7. written' \in [Ends -> Seq(Write)]
    BY <1>3, <2>3 DEF KernelWrite, Flush, FlushError, TypeOK
  <2>8. writeQueue' \in [Ends -> Seq(Frame)]
    BY <1>3, <2>2 DEF KernelWrite, Flush, FlushError, TypeOK
  <2> QED
    BY <1>3, <2>6, <2>7, <2>8 DEF KernelWrite, Flush, FlushError, TypeOK
<1>4. CASE Reset(e)
  <2>1. <<>> \in Seq(Frame)
    BY EmptySeq
  <2>2. wire' \in [Ends -> Seq(Frame)] /\ fin' \in [Ends -> BOOLEAN]
    BY <1>4, <2>1 DEF Reset, TypeOK
  <2> QED
    BY <1>4, <2>2 DEF Reset, TypeOK
<1> QED
  BY <1>1, <1>2, <1>3, <1>4

LEMMA TypeStep == TypeOK /\ [Next]_vars => TypeOK'
<1> SUFFICES ASSUME TypeOK, [Next]_vars PROVE TypeOK'
  OBVIOUS
<1>1. CASE UNCHANGED vars
  BY <1>1 DEF vars, serverVars, linkVars, readVars, userVars, TypeOK
<1> QED
  BY <1>1, CallType, AnswerType, OnTimerType, IoType, CloseType
     DEF Next, Disconnected, UserClose, Terminated

(* Every operation keeps the variables of every channel, of every call and *)
(* of libuv in their types.                                                *)
THEOREM TypeCorrect == Spec => []TypeOK
<1>1. Init => TypeOK
  BY EmptySeq DEF Init, TypeOK, None
<1> QED
  BY <1>1, TypeStep, PTL DEF Spec

-----------------------------------------------------------------------------
(* A call ends once                                                        *)

(* Contexts and calls determine each other, at the channel of the call.    *)
OneContextPerCall ==
  \A e \in Ends : \A x \in asyncResult[e] :
    /\ Owner[x.call] = e
    /\ \A y \in asyncResult[e] : x.call = y.call => x = y

CallInv == DoneOnce /\ WaitsIffRegistered /\ OneContextPerCall /\ IdsUnique

callVars == <<asyncResult, transmitId, userVars>>

(* The three reasons to end a call that waits for id i: its reply, the     *)
(* write callback of a one-way request, an error.                          *)
EndCause(e, i, o, b) ==
  \/ /\ o = "replied"
     /\ Handle(e)
     /\ ~NextFrame(e).stub
     /\ ~NextFrame(e).failed
     /\ i = NextFrame(e).id
     /\ b = NextFrame(e).body
  \/ /\ o = "sent"
     /\ b = Echo
     /\ written[e] # <<>>
     /\ Head(written[e]).frame.stub
     /\ Head(written[e]).frame.body \in Notify
     /\ i = Head(written[e]).frame.id
  \/ o = "failed" /\ b = None

EndsOneCall ==
  \E e \in Ends, i \in Nat, o \in Ended, b \in Calls \cup {None, Echo} :
    HandleResponse(e, i, o, b) /\ EndCause(e, i, o, b) /\ UNCHANGED transmitId

(* What a step does to the calls, whichever action it is.                  *)

LEMMA StepOnCalls ==
  ASSUME TypeOK, [Next]_vars
  PROVE  \/ UNCHANGED callVars
         \/ EndsOneCall
         \/ \E e \in Ends, c \in Calls : UserCall(e, c)
         \/ \E e \in Ends : Close(e)
<1> USE DEF callVars, serverVars, linkVars, readVars, userVars
<1>1. CASE UNCHANGED vars
  BY <1>1 DEF vars
<1>2. ASSUME NEW e \in Ends, NEW c \in Calls, Answer(e, c)
      PROVE  UNCHANGED callVars
  BY <1>2 DEF Answer, TcpClosureRun
<1>3. ASSUME NEW e \in Ends, OnRead(e) \/ KernelWrite(e) \/ Reset(e)
      PROVE  UNCHANGED callVars
  BY <1>3 DEF OnRead, KernelWrite, Flush, FlushError, Reset
<1>4. ASSUME NEW e \in Ends, OnTimer(e)
      PROVE  UNCHANGED callVars \/ EndsOneCall
  <2>1. CASE HandleReply(e)
    <3>1. NextFrame(e).body \in Calls /\ NextFrame(e).id \in Nat
      BY <2>1, HandleType, FrameTypes DEF HandleReply
    <3> QED
      BY <2>1, <3>1 DEF HandleReply, Handle, EndsOneCall, EndCause, Ended
  <2> QED
    BY <1>4, <2>1 DEF OnTimer, LackData, RejectRequest, ServiceNotImplement, HandleRequest, Handle, TimerReturn
<1>5. ASSUME NEW e \in Ends, AfterWrite(e)
      PROVE  UNCHANGED callVars \/ EndsOneCall
  <2>1. CASE AfterSendResponse(e)
    BY <2>1 DEF AfterSendResponse
  <2>2. CASE AfterSendRequest(e)
    <3>1. Head(written[e]) \in Write
      BY <2>2, HeadTailProperties DEF AfterSendRequest, TypeOK
    <3>2. Head(written[e]).frame.id \in Nat
      BY <3>1, FrameTypes
    <3> QED
      BY <2>2, <3>2 DEF AfterSendRequest, EndsOneCall, EndCause, Ended
  <2> QED
    BY <1>5, <2>1, <2>2 DEF AfterWrite
<1> QED
  BY <1>1, <1>2, <1>3, <1>4, <1>5 DEF Next, Disconnected, UserClose, Terminated, vars

LEMMA CallInvHandleResponse ==
  ASSUME TypeOK, CallInv, EndsOneCall
  PROVE  CallInv'
<1>1. PICK e \in Ends, i \in Nat, o \in Ended, b \in Calls \cup {None, Echo} :
        HandleResponse(e, i, o, b) /\ UNCHANGED transmitId
  BY DEF EndsOneCall
<1>2. CASE UNCHANGED <<asyncResult, userVars>>
  BY <1>1, <1>2 DEF CallInv, DoneOnce, WaitsIffRegistered, OneContextPerCall, IdsUnique, userVars
<1>3. ASSUME NEW ctx \in asyncResult[e],
             asyncResult' = [asyncResult EXCEPT ![e] = @ \ {ctx}],
             RunDone(ctx.call, o, b)
      PROVE  CallInv'
  <2>1. ctx.call \in Calls /\ Owner[ctx.call] = e
    BY DEF TypeOK, Context, CallInv, OneContextPerCall
  <2>2. outcome[ctx.call] = "pending" /\ runs[ctx.call] = 0
    BY <2>1 DEF CallInv, WaitsIffRegistered, DoneOnce, Ended
  <2>3. \A f \in Ends : asyncResult'[f] = IF f = e THEN asyncResult[e] \ {ctx} ELSE asyncResult[f]
    BY <1>3 DEF TypeOK
  <2>4. DoneOnce'
    BY <1>3, <2>1, <2>2 DEF DoneOnce, RunDone, CallInv, Ended, TypeOK
  <2>5. OneContextPerCall' /\ IdsUnique'
    BY <1>1, <2>3 DEF CallInv, OneContextPerCall, IdsUnique
  <2>6. ASSUME NEW c \in Calls
        PROVE  outcome'[c] = "pending" <=> \E x \in asyncResult'[Owner[c]] : x.call = c
    <3>1. Owner[c] \in Ends
      BY CallAssumption
    <3>2. CASE c = ctx.call
      <4>1. outcome'[c] # "pending"
        BY <1>3, <2>1, <3>2 DEF RunDone, Ended, TypeOK
      <4>2. \A x \in asyncResult[e] : x.call = c => x = ctx
        BY <3>2 DEF CallInv, OneContextPerCall
      <4> QED
        BY <2>1, <2>3, <3>2, <4>1, <4>2
    <3>3. CASE c # ctx.call
      <4>1. outcome'[c] = outcome[c]
        BY <1>3, <3>3 DEF RunDone, TypeOK
      <4>2. outcome[c] = "pending" <=> \E x \in asyncResult[Owner[c]] : x.call = c
        BY DEF CallInv, WaitsIffRegistered
      <4> QED
        BY <2>3, <3>1, <3>3, <4>1, <4>2
    <3> QED
      BY <3>2, <3>3
  <2> QED
    BY <2>4, <2>5, <2>6 DEF CallInv, WaitsIffRegistered
<1> QED
  BY <1>1, <1>2, <1>3 DEF HandleResponse

LEMMA CallInvUserCall ==
  ASSUME TypeOK, CallInv, NEW e \in Ends, NEW c \in Calls, UserCall(e, c)
  PROVE  CallInv'
<1>1. Owner[c] = e /\ outcome[c] = "idle" /\ runs[c] = 0
  BY DEF UserCall, CallDisconnected, CallMethod, CallMethodFails, CallInv, DoneOnce, Ended
<1>2. \A x \in asyncResult[e] : x.call # c
  BY <1>1 DEF CallInv, WaitsIffRegistered
<1>3. CASE RunDone(c, "failed", None) /\ UNCHANGED asyncResult
               /\ transmitId' \in {transmitId, [transmitId EXCEPT ![e] = @ + 1]}
  <2>1. DoneOnce' /\ WaitsIffRegistered'
    BY <1>1, <1>2, <1>3 DEF RunDone, CallInv, DoneOnce, WaitsIffRegistered, Ended, TypeOK
  <2>2. OneContextPerCall'
    BY <1>3 DEF CallInv, OneContextPerCall
  <2>3. IdsUnique'
    <3>1. \A f \in Ends : transmitId[f] \in Nat /\ transmitId'[f] \in {transmitId[f], transmitId[f] + 1}
      BY <1>3 DEF TypeOK
    <3>2. \A f \in Ends : \A x \in asyncResult[f] : x.id \in Nat
      BY DEF TypeOK, Context
    <3> QED
      BY <1>3, <3>1, <3>2 DEF CallInv, IdsUnique
  <2> QED
    BY <2>1, <2>2, <2>3 DEF CallInv
<1>4. CASE CallMethod(e, c)
  <2> DEFINE new == [id |-> transmitId[e], call |-> c]
  <2>1. /\ \A f \in Ends : asyncResult'[f] = IF f = e THEN asyncResult[e] \cup {new} ELSE asyncResult[f]
        /\ \A f \in Ends : transmitId'[f] = IF f = e THEN transmitId[e] + 1 ELSE transmitId[f]
        /\ outcome' = [outcome EXCEPT ![c] = "pending"]
        /\ runs' = runs
    BY <1>4 DEF CallMethod, Register, TypeOK
  <2>2. DoneOnce'
    BY <1>1, <2>1 DEF CallInv, DoneOnce, Ended, TypeOK
  <2>3. ASSUME NEW d \in Calls
        PROVE  outcome'[d] = "pending" <=> \E x \in asyncResult'[Owner[d]] : x.call = d
    <3>1. outcome[d] = "pending" <=> \E x \in asyncResult[Owner[d]] : x.call = d
      BY DEF CallInv, WaitsIffRegistered
    <3>2. outcome'[d] = IF d = c THEN "pending" ELSE outcome[d]
      BY <2>1 DEF TypeOK
    <3>3. Owner[d] \in Ends /\ new.call = c
      BY CallAssumption
    <3>4. CASE d = c
      BY <1>1, <2>1, <3>2, <3>3, <3>4
    <3>5. CASE d # c
      <4> HIDE DEF new
      <4> QED
        BY <2>1, <3>1, <3>2, <3>3, <3>5
    <3> QED
      BY <3>4, <3>5
  <2>4. OneContextPerCall'
    BY <1>1, <1>2, <2>1 DEF CallInv, OneContextPerCall
  <2>5. \A f \in Ends : transmitId[f] \in Nat /\ \A x \in asyncResult[f] : x.id \in Nat
    BY DEF TypeOK, Context
  <2>6. IdsUnique'
    BY <2>1, <2>5 DEF CallInv, IdsUnique
  <2> QED
    BY <2>2, <2>3, <2>4, <2>6 DEF CallInv, WaitsIffRegistered
<1> QED
  BY <1>3, <1>4 DEF UserCall, CallDisconnected, CallMethodFails

LEMMA CallInvClose ==
  ASSUME TypeOK, CallInv, NEW e \in Ends, Close(e)
  PROVE  CallInv'
<1> DEFINE Waits(c) == \E ctx \in asyncResult[e] : ctx.call = c
<1>1. /\ \A f \in Ends : asyncResult'[f] = IF f = e THEN {} ELSE asyncResult[f]
      /\ transmitId' = transmitId
      /\ \A c \in Calls : /\ outcome'[c] = IF Waits(c) THEN "canceled" ELSE outcome[c]
                          /\ runs'[c] = IF Waits(c) THEN runs[c] + 1 ELSE runs[c]
  BY DEF Close, CancelWaiting, TypeOK
<1>2. \A c \in Calls : Waits(c) => Owner[c] = e /\ outcome[c] = "pending" /\ runs[c] = 0
  BY DEF CallInv, OneContextPerCall, WaitsIffRegistered, DoneOnce, Ended
<1>3. \A c \in Calls : Owner[c] = e /\ outcome[c] = "pending" => Waits(c)
  BY DEF CallInv, WaitsIffRegistered
<1>4. DoneOnce'
  BY <1>1, <1>2 DEF CallInv, DoneOnce, Ended
<1>5. OneContextPerCall' /\ IdsUnique'
  BY <1>1 DEF CallInv, OneContextPerCall, IdsUnique
<1>6. ASSUME NEW c \in Calls
      PROVE  outcome'[c] = "pending" <=> \E x \in asyncResult'[Owner[c]] : x.call = c
  <2>1. outcome[c] = "pending" <=> \E x \in asyncResult[Owner[c]] : x.call = c
    BY DEF CallInv, WaitsIffRegistered
  <2>2. CASE Owner[c] = e
    BY <1>1, <1>3, <2>2
  <2>3. CASE Owner[c] # e
    BY <1>1, <1>2, <2>1, <2>3, CallAssumption
  <2> QED
    BY <2>2, <2>3
<1> QED
  BY <1>4, <1>5, <1>6 DEF CallInv, WaitsIffRegistered

LEMMA CallInvStep == TypeOK /\ CallInv /\ [Next]_vars => CallInv'
<1> SUFFICES ASSUME TypeOK, CallInv, [Next]_vars PROVE CallInv'
  OBVIOUS
<1>1. CASE UNCHANGED callVars
  BY <1>1 DEF callVars, userVars, CallInv, DoneOnce, WaitsIffRegistered, OneContextPerCall, IdsUnique
<1> QED
  BY <1>1, StepOnCalls, CallInvHandleResponse, CallInvUserCall, CallInvClose

LEMMA CallInvCorrect == Spec => []CallInv
<1>1. Init => CallInv
  BY CallAssumption DEF Init, CallInv, DoneOnce, WaitsIffRegistered, OneContextPerCall, IdsUnique, Ended
<1> QED
  BY <1>1, CallInvStep, TypeCorrect, PTL DEF Spec

(* The done closure of a call runs exactly once, when the call has ended,  *)
(* whichever of a response, a write callback and Close comes first.        *)
THEOREM DoneRunsOnce == Spec => []DoneOnce
<1>1. CallInv => DoneOnce
  BY DEF CallInv
<1> QED
  BY <1>1, CallInvCorrect, PTL

(* No context is lost while its caller waits and none outlives its call.   *)
THEOREM NoContextLeaks == Spec => []WaitsIffRegistered
<1>1. CallInv => WaitsIffRegistered
  BY DEF CallInv
<1> QED
  BY <1>1, CallInvCorrect, PTL

(* The CHECK in CallMethod (channel.cc:106) never fails.                   *)
THEOREM TransmitIdsUnique == Spec => []IdsUnique
<1>1. CallInv => IdsUnique
  BY DEF CallInv
<1> QED
  BY <1>1, CallInvCorrect, PTL

-----------------------------------------------------------------------------
(* A reply belongs to its call                                             *)

Elems(s) == {s[i] : i \in 1..Len(s)}

LEMMA ElemsType ==
  ASSUME NEW S, NEW s \in Seq(S)
  PROVE  Elems(s) \subseteq S
BY ElementOfSeq DEF Elems

LEMMA ElemsAppend ==
  ASSUME NEW S, NEW s \in Seq(S), NEW x \in S
  PROVE  Elems(Append(s, x)) = Elems(s) \cup {x}
<1>1. /\ Len(Append(s, x)) = Len(s) + 1
      /\ \A i \in 1..Len(s) : Append(s, x)[i] = s[i]
      /\ Append(s, x)[Len(s) + 1] = x
      /\ Len(s) \in Nat
  BY AppendProperties, LenProperties
<1> QED
  BY <1>1 DEF Elems

LEMMA ElemsHeadTail ==
  ASSUME NEW S, NEW s \in Seq(S), s # <<>>
  PROVE  Elems(s) = {Head(s)} \cup Elems(Tail(s))
<1>1. /\ Len(Tail(s)) = Len(s) - 1
      /\ \A i \in 1..Len(Tail(s)) : Tail(s)[i] = s[i + 1]
      /\ Len(s) \in Nat \ {0}
      /\ Head(s) = s[1]
  BY HeadTailProperties, EmptySeq, LenProperties
<1>2. \A i \in 2..Len(s) : i - 1 \in 1..Len(Tail(s)) /\ Tail(s)[i - 1] = s[i]
  BY <1>1
<1>3. \A i \in 1..Len(s) : i = 1 \/ i \in 2..Len(s)
  BY <1>1
<1>4. Elems(s) \subseteq {Head(s)} \cup Elems(Tail(s))
  BY <1>1, <1>2, <1>3 DEF Elems
<1>5. \A i \in 1..Len(Tail(s)) : i + 1 \in 1..Len(s)
  BY <1>1
<1>6. Elems(Tail(s)) \subseteq Elems(s) /\ Head(s) \in Elems(s)
  BY <1>1, <1>5 DEF Elems
<1> QED
  BY <1>4, <1>6

LEMMA ElemsConcat ==
  ASSUME NEW S, NEW s \in Seq(S), NEW t \in Seq(S)
  PROVE  Elems(s \o t) = Elems(s) \cup Elems(t)
<1>1. /\ Len(s \o t) = Len(s) + Len(t)
      /\ Len(s) \in Nat /\ Len(t) \in Nat
      /\ \A i \in 1..Len(s) + Len(t) : (s \o t)[i] = IF i <= Len(s) THEN s[i] ELSE t[i - Len(s)]
  BY ConcatProperties, LenProperties
<1>2. \A i \in 1..Len(t) : i + Len(s) \in 1..Len(s) + Len(t) /\ (s \o t)[i + Len(s)] = t[i]
  BY <1>1
<1>3. Elems(s \o t) \subseteq Elems(s) \cup Elems(t)
  BY <1>1 DEF Elems
<1>4. Elems(s) \subseteq Elems(s \o t)
  BY <1>1 DEF Elems
<1>5. Elems(t) \subseteq Elems(s \o t)
  BY <1>1, <1>2 DEF Elems
<1> QED
  BY <1>3, <1>4, <1>5

LEMMA ElemsSplit ==
  ASSUME NEW S, NEW s \in Seq(S), NEW k \in 1..Len(s)
  PROVE  /\ SubSeq(s, 1, k) \in Seq(S)
         /\ SubSeq(s, k + 1, Len(s)) \in Seq(S)
         /\ s = SubSeq(s, 1, k) \o SubSeq(s, k + 1, Len(s))
         /\ Elems(s) = Elems(SubSeq(s, 1, k)) \cup Elems(SubSeq(s, k + 1, Len(s)))
<1>1. Len(s) \in Nat /\ k \in Nat /\ \A i \in 1..Len(s) : s[i] \in S
  BY LenProperties, ElementOfSeq
<1>2. SubSeq(s, 1, k) \in Seq(S) /\ SubSeq(s, k + 1, Len(s)) \in Seq(S)
  BY <1>1, SubSeqProperties
<1>3. SubSeq(s, 1, k) \o SubSeq(s, k + 1, Len(s)) = SubSeq(s, 1, Len(s))
  BY <1>1, ConcatAdjacentSubSeq
<1>4. SubSeq(s, 1, Len(s)) = s
  BY SubSeqFull
<1>5. Elems(SubSeq(s, 1, k) \o SubSeq(s, k + 1, Len(s)))
        = Elems(SubSeq(s, 1, k)) \cup Elems(SubSeq(s, k + 1, Len(s)))
  BY <1>2, ElemsConcat
<1>6. s = SubSeq(s, 1, k) \o SubSeq(s, k + 1, Len(s))
  BY <1>3, <1>4
<1> QED
  BY <1>2, <1>5, <1>6

LEMMA ElemsEmpty == Elems(<<>>) = {}
BY DEF Elems

(* Id i was given to call c by channel e, and to no call that still waits. *)
Known(e, i, c) ==
  /\ Owner[c] = e
  /\ i < transmitId[e]
  /\ outcome[c] # "idle"
  /\ \A ctx \in asyncResult[e] : ctx.id = i => ctx.call = c

(* A frame that e sent, and a request that e serves.                       *)
FrameOK(e, f) ==
  IF f.stub THEN Known(e, f.id, f.body)
  ELSE /\ Known(Peer[e], f.id, f.body)
       /\ f.body \notin Notify
       /\ ~f.failed => executed[f.body] > 0

ServedOK(e, s) == Known(Peer[e], s.id, s.body) /\ executed[s.body] > 0

Sent(e) ==
  Elems(writeQueue[e]) \cup {w.frame : w \in Elems(written[e])}
    \cup Elems(wire[Peer[e]]) \cup Elems(buffer[Peer[e]])

FrameInv ==
  \A e \in Ends : /\ \A f \in Sent(e) : FrameOK(e, f)
                 /\ \A s \in serving[e] : ServedOK(e, s)

(* Where a frame that has not been sent before comes from.                 *)
NewFrame(e, f) ==
  \/ \E c \in Calls : CallMethod(e, c) /\ f = Request(transmitId[e], c)
  \/ \E s \in serving[e], failed \in BOOLEAN :
       TcpClosureRun(e, s, failed) /\ s.body \notin Notify /\ f = Response(s, failed)
  \/ /\ ServiceNotImplement(e)
     /\ NextFrame(e).body \notin Notify
     /\ f = Response(RequestOf(NextFrame(e)), TRUE)

LEMMA PeerFacts ==
  ASSUME NEW e \in Ends
  PROVE  Peer[e] \in Ends /\ Peer[e] # e /\ Peer[Peer[e]] = e
BY PeerAssumption

LEMMA SentStep ==
  ASSUME TypeOK, [Next]_vars, NEW e \in Ends, NEW f \in Sent(e)'
  PROVE  f \in Sent(e) \/ NewFrame(e, f)
<1> USE DEF serverVars, linkVars, readVars, userVars
<1> DEFINE Q(g) == Elems(writeQueue[g])
           W(g) == {w.frame : w \in Elems(written[g])}
           I(g) == Elems(wire[g])
           B(g) == Elems(buffer[g])
<1>0. Peer[e] \in Ends /\ Peer[Peer[e]] = e
  BY PeerFacts
<1>1. CASE UNCHANGED <<writeQueue, written, wire, buffer>>
  BY <1>1 DEF Sent
<1>2. ASSUME NEW g \in Ends, NEW c \in Calls, CallMethod(g, c)
      PROVE  f \in Sent(e) \/ NewFrame(e, f)
  <2>1. UNCHANGED <<written, wire, buffer>>
    BY <1>2 DEF CallMethod
  <2>2. CASE g = e
    <3>1. writeQueue'[e] = Append(writeQueue[e], Request(transmitId[e], c))
      BY <1>2, <2>2 DEF CallMethod, TypeOK
    <3>a. Request(transmitId[e], c) \in Frame /\ writeQueue[e] \in Seq(Frame)
      BY FrameTypes DEF TypeOK
    <3>2. Elems(writeQueue'[e]) = Elems(writeQueue[e]) \cup {Request(transmitId[e], c)}
      BY <3>1, <3>a, ElemsAppend
    <3> QED
      BY <1>2, <2>1, <2>2, <3>2 DEF Sent, NewFrame
  <2>3. CASE g # e
    BY <1>2, <2>1, <2>3 DEF Sent, CallMethod, TypeOK
  <2> QED
    BY <2>2, <2>3
<1>3. ASSUME NEW g \in Ends, NEW s \in serving[g], NEW failed \in BOOLEAN, TcpClosureRun(g, s, failed)
      PROVE  f \in Sent(e) \/ NewFrame(e, f)
  <2>1. UNCHANGED <<written, wire, buffer>>
    BY <1>3 DEF TcpClosureRun
  <2>2. CASE UNCHANGED writeQueue
    BY <1>1, <2>1, <2>2
  <2>3. CASE g = e /\ s.body \notin Notify
             /\ writeQueue' = [writeQueue EXCEPT ![g] = Append(@, Response(s, failed))]
    <3>1. writeQueue'[e] = Append(writeQueue[e], Response(s, failed))
      BY <2>3 DEF TypeOK
    <3>2. Response(s, failed) \in Frame
      BY FrameTypes DEF TypeOK
    <3>3. Elems(writeQueue'[e]) = Elems(writeQueue[e]) \cup {Response(s, failed)}
      BY <3>1, <3>2, ElemsAppend DEF TypeOK
    <3> QED
      BY <1>3, <2>1, <2>3, <3>3 DEF Sent, NewFrame
  <2>4. CASE g # e /\ writeQueue' = [writeQueue EXCEPT ![g] = Append(@, Response(s, failed))]
    BY <2>1, <2>4 DEF Sent, TypeOK
  <2> QED
    BY <1>3, <2>2, <2>3, <2>4 DEF TcpClosureRun
<1>4. ASSUME NEW g \in Ends, Handle(g)
      PROVE  /\ UNCHANGED <<written, wire>>
             /\ \A h \in Ends : Elems(buffer'[h]) \subseteq Elems(buffer[h])
  <2>1. Elems(Tail(buffer[g])) \subseteq Elems(buffer[g])
    BY <1>4, ElemsHeadTail DEF Handle, TypeOK
  <2> QED
    BY <1>4, <2>1 DEF Handle, TypeOK
<1>5. ASSUME NEW g \in Ends, OnTimer(g)
      PROVE  f \in Sent(e) \/ NewFrame(e, f)
  <2>1. CASE LackData(g)
    BY <1>1, <2>1 DEF LackData
  <2>2. CASE Handle(g) /\ UNCHANGED writeQueue
    BY <1>0, <1>4, <2>2 DEF Sent
  <2>3. CASE /\ ServiceNotImplement(g)
             /\ NextFrame(g).body \notin Notify
             /\ writeQueue' = [writeQueue EXCEPT ![g] = Append(@, Response(RequestOf(NextFrame(g)), TRUE))]
    <3>1. Handle(g)
      BY <2>3 DEF ServiceNotImplement
    <3> DEFINE r == Response(RequestOf(NextFrame(g)), TRUE)
    <3>2. r \in Frame
      BY <3>1, HandleType, FrameTypes
    <3>a. writeQueue[g] \in Seq(Frame) /\ writeQueue'[g] = Append(writeQueue[g], r)
      BY <2>3 DEF TypeOK
    <3>3. Elems(writeQueue'[g]) = Elems(writeQueue[g]) \cup {r}
      <4> HIDE DEF r
      <4> QED
        BY <3>2, <3>a, ElemsAppend
    <3>4. g # e => writeQueue'[e] = writeQueue[e]
      BY <2>3 DEF TypeOK
    <3> HIDE DEF r
    <3>5. f \in Sent(e) \/ (g = e /\ f = r)
      BY <1>0, <1>4, <3>1, <3>3, <3>4 DEF Sent
    <3> QED
      BY <2>3, <3>5 DEF NewFrame, r
  <2>4. CASE TimerReturn(g)
    BY <1>1, <2>4 DEF TimerReturn
  <2> QED
    BY <1>5, <2>1, <2>2, <2>3, <2>4 DEF OnTimer, RejectRequest, ServiceNotImplement, HandleRequest, HandleReply
<1>6. ASSUME NEW g \in Ends, OnRead(g)
      PROVE  f \in Sent(e) \/ NewFrame(e, f)
  <2>1. PICK k \in 1..Len(wire[g]) :
          /\ buffer' = [buffer EXCEPT ![g] = @ \o SubSeq(wire[g], 1, k)]
          /\ wire' = [wire EXCEPT ![g] = SubSeq(@, k + 1, Len(@))]
    BY <1>6 DEF OnRead
  <2>2. UNCHANGED <<writeQueue, written>>
    BY <1>6 DEF OnRead
  <2>3. wire[g] \in Seq(Frame) /\ buffer[g] \in Seq(Frame)
    BY DEF TypeOK
  <2>a. SubSeq(wire[g], 1, k) \in Seq(Frame)
    BY <2>3, ElemsSplit
  <2>4. Elems(wire[g]) = Elems(SubSeq(wire[g], 1, k)) \cup Elems(SubSeq(wire[g], k + 1, Len(wire[g])))
    BY <2>3, ElemsSplit
  <2>5. Elems(buffer[g] \o SubSeq(wire[g], 1, k)) = Elems(buffer[g]) \cup Elems(SubSeq(wire[g], 1, k))
    BY <2>3, <2>a, ElemsConcat
  <2>6. /\ buffer'[g] = buffer[g] \o SubSeq(wire[g], 1, k)
        /\ wire'[g] = SubSeq(wire[g], k + 1, Len(wire[g]))
        /\ \A h \in Ends : h # g => buffer'[h] = buffer[h] /\ wire'[h] = wire[h]
    BY <2>1 DEF TypeOK
  <2>7. \A h \in Ends : I(h)' \cup B(h)' \subseteq I(h) \cup B(h)
    BY <2>4, <2>5, <2>6
  <2> QED
    BY <1>0, <2>2, <2>7 DEF Sent
<1>7. ASSUME NEW g \in Ends, AfterWrite(g)
      PROVE  f \in Sent(e) \/ NewFrame(e, f)
  <2>1. /\ written[g] # <<>>
        /\ written' = [written EXCEPT ![g] = Tail(@)]
        /\ UNCHANGED <<writeQueue, wire, buffer>>
    BY <1>7 DEF AfterWrite, AfterSendRequest, AfterSendResponse
  <2>2. Elems(Tail(written[g])) \subseteq Elems(written[g])
    BY <2>1, ElemsHeadTail DEF TypeOK
  <2>3. Elems(written'[e]) \subseteq Elems(written[e])
    BY <2>1, <2>2 DEF TypeOK
  <2> QED
    BY <2>1, <2>3 DEF Sent
<1>8. ASSUME NEW g \in Ends, KernelWrite(g)
      PROVE  f \in Sent(e) \/ NewFrame(e, f)
  <2> DEFINE h == Head(writeQueue[g])
  <2>1. PICK ok \in BOOLEAN :
          /\ writeQueue[g] # <<>>
          /\ written' = [written EXCEPT ![g] = Append(@, [frame |-> h, ok |-> ok])]
          /\ writeQueue' = [writeQueue EXCEPT ![g] = Tail(@)]
          /\ wire' \in {wire, [wire EXCEPT ![Peer[g]] = Append(@, h)]}
          /\ UNCHANGED buffer
    BY <1>8 DEF KernelWrite, Flush, FlushError
  <2>2. h \in Frame /\ [frame |-> h, ok |-> ok] \in Write
    BY <2>1, HeadTailProperties, FrameTypes DEF TypeOK
  <2>3. Elems(writeQueue[g]) = {h} \cup Elems(Tail(writeQueue[g]))
    BY <2>1, ElemsHeadTail DEF TypeOK
  <2>4. Elems(Append(written[g], [frame |-> h, ok |-> ok])) = Elems(written[g]) \cup {[frame |-> h, ok |-> ok]}
    BY <2>2, ElemsAppend DEF TypeOK
  <2>5. Peer[g] \in Ends /\ Peer[Peer[g]] = g
    BY PeerFacts
  <2>6. Elems(Append(wire[Peer[g]], h)) = Elems(wire[Peer[g]]) \cup {h}
    BY <2>2, <2>5, ElemsAppend DEF TypeOK
  <2> HIDE DEF h
  <2>7. CASE g = e
    <3>1. /\ Q(e)' \subseteq Q(e)
          /\ W(e)' \subseteq W(e) \cup {h}
          /\ h \in Q(e)
      BY <2>1, <2>3, <2>4, <2>7 DEF TypeOK
    <3>2. Elems(wire'[Peer[e]]) \subseteq Elems(wire[Peer[e]]) \cup {h}
      BY <2>1, <2>5, <2>6, <2>7 DEF TypeOK
    <3> QED
      BY <2>1, <3>1, <3>2 DEF Sent
  <2>8. CASE g # e
    <3>1. writeQueue'[e] = writeQueue[e] /\ written'[e] = written[e]
      BY <2>1, <2>8 DEF TypeOK
    <3>2. wire'[Peer[e]] = wire[Peer[e]]
      BY <1>0, <2>1, <2>5, <2>8 DEF TypeOK
    <3> QED
      BY <2>1, <3>1, <3>2 DEF Sent
  <2> QED
    BY <2>7, <2>8
<1>9. ASSUME NEW g \in Ends, Close(g)
      PROVE  f \in Sent(e) \/ NewFrame(e, f)
  <2> DEFINE back == [i \in 1..Len(writeQueue[g]) |-> [frame |-> writeQueue[g][i], ok |-> FALSE]]
  <2>2. back \in Seq(Write) /\ Len(back) = Len(writeQueue[g])
    <3>1. writeQueue[g] \in Seq(Frame)
      BY DEF TypeOK
    <3>2. Len(writeQueue[g]) \in Nat
      BY <3>1, LenProperties
    <3>3. \A i \in 1..Len(writeQueue[g]) : [frame |-> writeQueue[g][i], ok |-> FALSE] \in Write
      BY <3>1, ElementOfSeq, FrameTypes
    <3> QED
      BY <3>2, <3>3
  <2>1. \A i \in 1..Len(writeQueue[g]) : back[i].frame = writeQueue[g][i]
    OBVIOUS
  <2>3. Elems(written[g] \o back) = Elems(written[g]) \cup Elems(back)
    <3> HIDE DEF back
    <3>1. written[g] \in Seq(Write)
      BY DEF TypeOK
    <3> QED
      BY <2>2, <3>1, ElemsConcat
  <2>4. {w.frame : w \in Elems(back)} \subseteq Elems(writeQueue[g])
    <3> HIDE DEF back
    <3> QED
      BY <2>1, <2>2 DEF Elems
  <2>5. /\ written'[g] = written[g] \o back
        /\ writeQueue'[g] = <<>> /\ wire'[g] = <<>> /\ buffer'[g] = <<>>
        /\ \A h \in Ends : h # g => /\ writeQueue'[h] = writeQueue[h] /\ written'[h] = written[h]
                                  /\ wire'[h] = wire[h] /\ buffer'[h] = buffer[h]
    BY <1>9 DEF Close, TypeOK
  <2> HIDE DEF back
  <2>6. W(e)' \cup Q(e)' \subseteq W(e) \cup Q(e)
    BY <2>3, <2>4, <2>5, ElemsEmpty
  <2>7. I(Peer[e])' \subseteq I(Peer[e]) /\ B(Peer[e])' \subseteq B(Peer[e])
    BY <1>0, <2>5, ElemsEmpty
  <2> QED
    BY <2>6, <2>7, PeerAssumption DEF Sent
<1>10. ASSUME NEW g \in Ends, Reset(g)
       PROVE  f \in Sent(e) \/ NewFrame(e, f)
  <2>1. /\ UNCHANGED <<writeQueue, written, buffer>>
        /\ Elems(wire'[Peer[e]]) \subseteq Elems(wire[Peer[e]])
    BY <1>0, <1>10, ElemsEmpty DEF Reset, TypeOK
  <2> QED
    BY <2>1 DEF Sent
<1>11. ASSUME NEW g \in Ends, NEW c \in Calls, CallDisconnected(g, c) \/ CallMethodFails(g, c)
       PROVE  f \in Sent(e) \/ NewFrame(e, f)
  BY <1>1, <1>11 DEF CallDisconnected, CallMethodFails
<1>12. CASE UNCHANGED vars
  BY <1>1, <1>12 DEF vars
<1> QED
  BY <1>2, <1>3, <1>5, <1>6, <1>7, <1>8, <1>9, <1>10, <1>11, <1>12
     DEF Next, UserCall, Answer, Disconnected, UserClose, Terminated

(* What is known of an id stays true: ids only grow and are not reused.    *)
LEMMA KnownStep ==
  ASSUME TypeOK, CallInv, [Next]_vars, NEW e \in Ends, NEW i \in Nat, NEW c \in Calls, Known(e, i, c)
  PROVE  Known(e, i, c)'
<1> USE DEF Known
<1>0. transmitId[e] \in Nat
  BY DEF TypeOK
<1>1. CASE UNCHANGED callVars
  BY <1>1 DEF callVars, userVars
<1>2. CASE EndsOneCall
  <2>1. PICK g \in Ends, j \in Nat, o \in Ended, b \in Calls \cup {None, Echo} :
          HandleResponse(g, j, o, b) /\ UNCHANGED transmitId
    BY <1>2 DEF EndsOneCall
  <2>2. CASE UNCHANGED <<asyncResult, userVars>>
    BY <2>1, <2>2 DEF userVars
  <2>3. ASSUME NEW ctx \in asyncResult[g],
               asyncResult' = [asyncResult EXCEPT ![g] = @ \ {ctx}], RunDone(ctx.call, o, b)
        PROVE  Known(e, i, c)'
    BY <2>1, <2>3 DEF RunDone, TypeOK, Ended
  <2> QED
    BY <2>1, <2>2, <2>3 DEF HandleResponse
<1>3. ASSUME NEW g \in Ends, NEW d \in Calls, UserCall(g, d)
      PROVE  Known(e, i, c)'
  <2>1. CASE CallDisconnected(g, d) \/ CallMethodFails(g, d)
    <3>1. /\ d # c /\ asyncResult' = asyncResult
          /\ outcome'[c] = outcome[c]
          /\ transmitId'[e] \in {transmitId[e], transmitId[e] + 1}
      BY <2>1 DEF CallDisconnected, CallMethodFails, RunDone, TypeOK
    <3> QED
      BY <1>0, <3>1
  <2>2. CASE CallMethod(g, d)
    <3>1. d # c /\ outcome'[c] = outcome[c]
      BY <2>2 DEF CallMethod, TypeOK
    <3>2. /\ transmitId'[e] \in {transmitId[e], transmitId[e] + 1}
          /\ \A ctx \in asyncResult'[e] : ctx \in asyncResult[e] \/ ctx.id = transmitId[e]
      BY <2>2 DEF CallMethod, Register, TypeOK
    <3> QED
      BY <1>0, <3>1, <3>2
  <2> QED
    BY <1>3, <2>1, <2>2 DEF UserCall
<1>4. ASSUME NEW g \in Ends, Close(g)
      PROVE  Known(e, i, c)'
  BY <1>4 DEF Close, CancelWaiting, TypeOK
<1> QED
  BY <1>1, <1>2, <1>3, <1>4, StepOnCalls

(* Only HandleRequest counts an execution and has a closure made.          *)
LEMMA ServerStep ==
  ASSUME TypeOK, [Next]_vars
  PROVE  \/ /\ executed' = executed
            /\ \A e \in Ends : serving'[e] \subseteq serving[e]
         \/ \E e \in Ends : HandleRequest(e)
<1> DEFINE Goal == executed' = executed /\ \A e \in Ends : serving'[e] \subseteq serving[e]
<1> USE DEF serverVars
<1>1. CASE UNCHANGED vars
  BY <1>1 DEF vars
<1>2. ASSUME NEW e \in Ends, NEW c \in Calls, UserCall(e, c) PROVE Goal
  BY <1>2 DEF UserCall, CallDisconnected, CallMethod, CallMethodFails
<1>3. ASSUME NEW e \in Ends, NEW c \in Calls, Answer(e, c) PROVE Goal
  BY <1>3 DEF Answer, TcpClosureRun, TypeOK
<1>4. ASSUME NEW e \in Ends, OnRead(e) \/ AfterWrite(e) PROVE Goal
  BY <1>4 DEF OnRead, AfterWrite, AfterSendRequest, AfterSendResponse
<1>5. ASSUME NEW e \in Ends, KernelWrite(e) \/ Reset(e) \/ Close(e) PROVE Goal
  BY <1>5 DEF KernelWrite, Flush, FlushError, Reset, Close
<1>6. ASSUME NEW e \in Ends, OnTimer(e), ~HandleRequest(e) PROVE Goal
  BY <1>6 DEF OnTimer, LackData, RejectRequest, ServiceNotImplement, HandleReply, TimerReturn
<1> QED
  BY <1>1, <1>2, <1>3, <1>4, <1>5, <1>6 DEF Next, Disconnected, UserClose, Terminated

LEMMA ExecutedGrows ==
  ASSUME TypeOK, [Next]_vars, NEW c \in Calls, executed[c] > 0
  PROVE  executed'[c] > 0
<1>1. ASSUME NEW e \in Ends, HandleRequest(e)
      PROVE  executed'[c] > 0
  <2>1. NextFrame(e).body \in Calls
    BY <1>1, HandleType, FrameTypes DEF HandleRequest
  <2> QED
    BY <1>1, <2>1 DEF HandleRequest, TypeOK
<1> QED
  BY <1>1, ServerStep

LEMMA NextFrameSent ==
  ASSUME TypeOK, NEW e \in Ends, Handle(e)
  PROVE  NextFrame(e) \in Sent(Peer[e])
<1>1. NextFrame(e) \in Elems(buffer[e])
  BY ElemsHeadTail DEF Handle, NextFrame, TypeOK
<1> QED
  BY <1>1, PeerFacts DEF Sent

LEMMA SentType ==
  ASSUME TypeOK, NEW e \in Ends, NEW f \in Sent(e)
  PROVE  f \in Frame
<1>1. Peer[e] \in Ends
  BY PeerFacts
<1>2. /\ Elems(writeQueue[e]) \subseteq Frame
      /\ Elems(wire[Peer[e]]) \subseteq Frame
      /\ Elems(buffer[Peer[e]]) \subseteq Frame
      /\ Elems(written[e]) \subseteq Write
  BY <1>1, ElemsType DEF TypeOK
<1> QED
  BY <1>2, FrameTypes DEF Sent

LEMMA FrameInvStep == TypeOK /\ CallInv /\ FrameInv /\ [Next]_vars => FrameInv'
<1> SUFFICES ASSUME TypeOK, CallInv, FrameInv, [Next]_vars, NEW e \in Ends
             PROVE  /\ \A f \in Sent(e)' : FrameOK(e, f)'
                    /\ \A s \in serving'[e] : ServedOK(e, s)'
  BY DEF FrameInv
<1>0. Peer[e] \in Ends /\ Peer[Peer[e]] = e
  BY PeerFacts
<1>1. ASSUME NEW f \in Sent(e)
      PROVE  FrameOK(e, f)'
  <2>1. f \in Frame /\ f.id \in Nat /\ f.body \in Calls
    BY SentType, FrameTypes
  <2>2. FrameOK(e, f)
    BY DEF FrameInv
  <2>3. CASE f.stub
    BY <2>1, <2>2, <2>3, KnownStep DEF FrameOK
  <2>4. CASE ~f.stub
    BY <1>0, <2>1, <2>2, <2>4, KnownStep, ExecutedGrows DEF FrameOK
  <2> QED
    BY <2>3, <2>4
<1>2. ASSUME NEW s \in serving[e]
      PROVE  ServedOK(e, s)'
  <2>1. s.id \in Nat /\ s.body \in Calls
    BY DEF TypeOK, Served
  <2>2. ServedOK(e, s)
    BY DEF FrameInv
  <2> QED
    BY <1>0, <2>1, <2>2, KnownStep, ExecutedGrows DEF ServedOK
<1>3. ASSUME NEW f, NewFrame(e, f)
      PROVE  FrameOK(e, f)'
  <2>1. ASSUME NEW c \in Calls, CallMethod(e, c), f = Request(transmitId[e], c)
        PROVE  FrameOK(e, f)'
    <3>1. f.stub /\ f.id = transmitId[e] /\ f.body = c
      BY <2>1 DEF Request
    <3>2. Owner[c] = e /\ outcome'[c] = "pending" /\ transmitId[e] < transmitId'[e]
      BY <2>1 DEF CallMethod, Register, TypeOK
    <3>3. \A ctx \in asyncResult'[e] : ctx \in asyncResult[e] \/ ctx.call = c
      BY <2>1 DEF CallMethod, Register, TypeOK
    <3>4. \A ctx \in asyncResult[e] : ctx.id # transmitId[e]
      BY DEF CallInv, IdsUnique, TypeOK, Context
    <3> QED
      BY <3>1, <3>2, <3>3, <3>4 DEF FrameOK, Known
  <2>2. ASSUME NEW s \in serving[e], NEW failed \in BOOLEAN,
               TcpClosureRun(e, s, failed), s.body \notin Notify, f = Response(s, failed)
        PROVE  FrameOK(e, f)'
    <3>1. ~f.stub /\ f.id = s.id /\ f.body = s.body
      BY <2>2 DEF Response
    <3>2. ServedOK(e, s)'
      BY <1>2
    <3> QED
      BY <2>2, <3>1, <3>2 DEF FrameOK, ServedOK
  <2>3. ASSUME ServiceNotImplement(e), NextFrame(e).body \notin Notify,
               f = Response(RequestOf(NextFrame(e)), TRUE)
        PROVE  FrameOK(e, f)'
    <3>1. NextFrame(e).stub /\ Handle(e) /\ NextFrame(e) \in Frame
      BY <2>3, HandleType DEF ServiceNotImplement
    <3>2. /\ f.id = NextFrame(e).id /\ f.body = NextFrame(e).body
          /\ f.id \in Nat /\ f.body \in Calls
          /\ ~f.stub /\ f.failed /\ f.body \notin Notify
      BY <2>3, <3>1, FrameTypes DEF Response, RequestOf
    <3>3. Known(Peer[e], f.id, f.body)
      BY <1>0, <3>1, <3>2, NextFrameSent DEF FrameInv, FrameOK
    <3>4. Known(Peer[e], f.id, f.body)'
      BY <1>0, <3>2, <3>3, KnownStep
    <3> QED
      BY <3>2, <3>4 DEF FrameOK
  <2> QED
    BY <1>3, <2>1, <2>2, <2>3 DEF NewFrame
<1>4. ASSUME NEW s \in serving'[e], s \notin serving[e]
      PROVE  ServedOK(e, s)'
  <2>1. HandleRequest(e) /\ s = RequestOf(NextFrame(e))
    <3>1. PICK g \in Ends : HandleRequest(g)
      BY <1>4, ServerStep
    <3> QED
      BY <1>4, <3>1 DEF HandleRequest, TypeOK
  <2>2. NextFrame(e).stub /\ Handle(e) /\ NextFrame(e) \in Frame
    BY <2>1, HandleType DEF HandleRequest
  <2>3. s.id \in Nat /\ s.body \in Calls /\ s.id = NextFrame(e).id /\ s.body = NextFrame(e).body
    BY <2>1, <2>2, FrameTypes DEF RequestOf
  <2>4. Known(Peer[e], s.id, s.body)
    BY <1>0, <2>2, <2>3, NextFrameSent DEF FrameInv, FrameOK
  <2>5. Known(Peer[e], s.id, s.body)'
    BY <1>0, <2>3, <2>4, KnownStep
  <2>6. executed'[s.body] > 0
    BY <2>1, <2>3 DEF HandleRequest, TypeOK
  <2> QED
    BY <2>5, <2>6 DEF ServedOK
<1> QED
  BY <1>1, <1>2, <1>3, <1>4, SentStep

LEMMA FrameInvCorrect == Spec => []FrameInv
<1>1. Init => FrameInv
  <2> SUFFICES ASSUME Init, NEW e \in Ends
               PROVE  Sent(e) = {} /\ serving[e] = {}
    BY DEF FrameInv
  <2>1. Peer[e] \in Ends
    BY PeerFacts
  <2> QED
    BY <2>1, ElemsEmpty DEF Init, Sent
<1> QED
  BY <1>1, FrameInvStep, CallInvCorrect, TypeCorrect, PTL DEF Spec

ReplyInv ==
  /\ ReplyMatchesCall
  /\ \A c \in Calls : outcome[c] \in {"idle", "pending"} => reply[c] = None

LEMMA ReplyInvStep == TypeOK /\ CallInv /\ FrameInv /\ ReplyInv /\ [Next]_vars => ReplyInv'
<1> SUFFICES ASSUME TypeOK, CallInv, FrameInv, ReplyInv, [Next]_vars PROVE ReplyInv'
  OBVIOUS
<1> USE DEF ReplyInv, ReplyMatchesCall
<1>1. CASE UNCHANGED callVars
  BY <1>1 DEF callVars, userVars
<1>2. CASE EndsOneCall
  <2>1. PICK e \in Ends, i \in Nat, o \in Ended, b \in Calls \cup {None, Echo} :
          HandleResponse(e, i, o, b) /\ EndCause(e, i, o, b)
    BY <1>2 DEF EndsOneCall
  <2>2. CASE UNCHANGED <<asyncResult, userVars>>
    BY <2>2 DEF userVars
  <2>3. ASSUME NEW ctx \in asyncResult[e], ctx.id = i, RunDone(ctx.call, o, b)
        PROVE  ReplyInv'
    <3>1. ctx.call \in Calls
      BY DEF TypeOK, Context
    <3>2. o = "replied" => b = ctx.call
      <4> SUFFICES ASSUME o = "replied" PROVE b = ctx.call
        OBVIOUS
      <4>1. Handle(e) /\ ~NextFrame(e).stub /\ i = NextFrame(e).id /\ b = NextFrame(e).body
        BY <2>1 DEF EndCause
      <4>2. Peer[e] \in Ends /\ Peer[Peer[e]] = e
        BY PeerFacts
      <4>3. Known(e, i, b)
        BY <4>1, <4>2, NextFrameSent DEF FrameInv, FrameOK
      <4> QED
        BY <2>3, <4>3 DEF Known
    <3>3. o # "replied" => b \in {None, Echo}
      BY <2>1 DEF EndCause
    <3>4. \A c \in Calls : /\ outcome'[c] = IF c = ctx.call THEN o ELSE outcome[c]
                           /\ reply'[c] = IF c = ctx.call THEN b ELSE reply[c]
      BY <2>3, <3>1 DEF RunDone, TypeOK
    <3> QED
      BY <3>1, <3>2, <3>3, <3>4 DEF Ended
  <2> QED
    BY <2>1, <2>2, <2>3 DEF HandleResponse
<1>3. ASSUME NEW e \in Ends, NEW c \in Calls, UserCall(e, c)
      PROVE  ReplyInv'
  <2>1. CASE CallMethod(e, c)
    BY <2>1 DEF CallMethod, TypeOK
  <2>2. CASE RunDone(c, "failed", None)
    BY <2>2 DEF RunDone, TypeOK
  <2> QED
    BY <1>3, <2>1, <2>2 DEF UserCall, CallDisconnected, CallMethodFails
<1>4. ASSUME NEW e \in Ends, Close(e)
      PROVE  ReplyInv'
  <2>1. \A c \in Calls : (\E ctx \in asyncResult[e] : ctx.call = c) => outcome[c] = "pending"
    BY DEF CallInv, OneContextPerCall, WaitsIffRegistered
  <2> QED
    BY <1>4, <2>1 DEF Close, CancelWaiting, TypeOK
<1> QED
  BY <1>1, <1>2, <1>3, <1>4, StepOnCalls

LEMMA ReplyInvCorrect == Spec => []ReplyInv
<1>1. Init => ReplyInv
  BY DEF Init, ReplyInv, ReplyMatchesCall
<1> QED
  BY <1>1, ReplyInvStep, FrameInvCorrect, CallInvCorrect, TypeCorrect, PTL DEF Spec

(* The message parsed into a call's response answers that very call,       *)
(* whatever the order of the answers and the ids of the other side.        *)
THEOREM RepliesMatchCalls == Spec => []ReplyMatchesCall
<1>1. ReplyInv => ReplyMatchesCall
  BY DEF ReplyInv
<1> QED
  BY <1>1, ReplyInvCorrect, PTL

-----------------------------------------------------------------------------
(* Nothing is left behind on a closed channel                              *)

(* What the scheduler is doing.  A closed channel has nothing to handle    *)
(* any more, so that a timer that was started again comes to LackData.     *)
SchedulerInv ==
  \A e \in Ends :
    IF connected[e] THEN /\ reading[e] # timer[e] /\ ~crashed[e]
                         /\ handling[e] => timer[e]
    ELSE /\ ~reading[e] /\ buffer[e] = <<>>
         /\ timer[e] \/ crashed[e] \/ handling[e] => misuse[e]

(* A step at one end leaves the scheduler of every other end alone.        *)
LEMMA SchedulerAt ==
  ASSUME SchedulerInv, NEW e \in Ends,
         \A g \in Ends \ {e} : /\ connected'[g] = connected[g] /\ reading'[g] = reading[g]
                               /\ timer'[g] = timer[g] /\ buffer'[g] = buffer[g]
                               /\ handling'[g] = handling[g] /\ misuse'[g] = misuse[g]
                               /\ crashed'[g] = crashed[g],
         IF connected'[e] THEN /\ reading'[e] # timer'[e] /\ ~crashed'[e]
                               /\ handling'[e] => timer'[e]
         ELSE /\ ~reading'[e] /\ buffer'[e] = <<>>
              /\ timer'[e] \/ crashed'[e] \/ handling'[e] => misuse'[e]
  PROVE  SchedulerInv'
BY DEF SchedulerInv

LEMMA SchedulerStep ==
  ASSUME TypeOK, SchedulerInv, [Next]_vars
  PROVE  SchedulerInv'
<1> USE DEF TypeOK, serverVars, linkVars, readVars, userVars
<1>1. ASSUME UNCHANGED <<connected, readVars>> PROVE SchedulerInv'
  BY <1>1 DEF SchedulerInv
<1>2. ASSUME NEW e \in Ends, NEW c \in Calls, UserCall(e, c) \/ Answer(e, c)
      PROVE  SchedulerInv'
  BY <1>1, <1>2 DEF UserCall, CallDisconnected, CallMethod, CallMethodFails, Answer, TcpClosureRun
<1>3. ASSUME NEW e \in Ends, AfterWrite(e) \/ KernelWrite(e) \/ Reset(e) PROVE SchedulerInv'
  BY <1>1, <1>3 DEF AfterWrite, AfterSendRequest, AfterSendResponse, KernelWrite, Flush, FlushError, Reset
<1>4. ASSUME NEW e \in Ends, OnRead(e) PROVE SchedulerInv'
  <2>1. connected[e] /\ ~crashed[e]
    BY <1>4 DEF OnRead, SchedulerInv
  <2>2. \A g \in Ends \ {e} : buffer'[g] = buffer[g]
    BY <1>4 DEF OnRead
  <2>3. /\ ~reading'[e] /\ timer'[e]
        /\ \A g \in Ends \ {e} : reading'[g] = reading[g] /\ timer'[g] = timer[g]
        /\ UNCHANGED <<connected, handling, misuse, crashed>>
    BY <1>4 DEF OnRead
  <2> QED
    BY <2>1, <2>2, <2>3, SchedulerAt
<1>5. ASSUME NEW e \in Ends, Close(e), connected[e] PROVE SchedulerInv'
  BY <1>5, SchedulerAt DEF Close, SchedulerInv
<1>6. ASSUME NEW e \in Ends, OnTimer(e) PROVE SchedulerInv'
  <2>1. CASE LackData(e)
    BY <2>1, SchedulerAt DEF LackData, Tick, InLoop, SchedulerInv
  <2>2. CASE Handle(e) /\ handling' = [handling EXCEPT ![e] = handling'[e]]
    BY <2>2, SchedulerAt DEF Handle, Tick, InLoop, SchedulerInv
  <2>3. CASE TimerReturn(e)
    BY <2>3, SchedulerAt DEF TimerReturn, SchedulerInv
  <2>4. CASE RejectRequest(e) \/ ServiceNotImplement(e)
    BY <2>2, <2>4 DEF RejectRequest, ServiceNotImplement
  <2>5. CASE HandleRequest(e) \/ HandleReply(e)
    BY <2>2, <2>5 DEF HandleRequest, HandleReply
  <2> QED
    BY <1>6, <2>1, <2>3, <2>4, <2>5 DEF OnTimer
<1>7. CASE UNCHANGED vars
  BY <1>1, <1>7 DEF vars
<1>8. ASSUME NEW e \in Ends, Disconnected(e) \/ UserClose(e) PROVE connected[e] /\ Close(e)
  BY <1>8 DEF Disconnected, UserClose, SchedulerInv
<1> QED
  BY <1>2, <1>3, <1>4, <1>5, <1>6, <1>7, <1>8 DEF Next, Terminated

LEMMA SchedulerInvCorrect == Spec => []SchedulerInv
<1>1. Init => SchedulerInv
  BY DEF Init, SchedulerInv
<1>2. TypeOK /\ SchedulerInv /\ [Next]_vars => SchedulerInv'
  BY SchedulerStep
<1> QED
  BY <1>1, <1>2, TypeCorrect, PTL DEF Spec

(* The requests that Close can cancel are those being served, and after    *)
(* Close all of them are canceled.                                         *)
CloseInv ==
  /\ \A e \in Ends : serving[e] \subseteq router[e] \cup canceled[e]
  /\ \A e \in Ends : ~connected[e] => router[e] = {} /\ writeQueue[e] = <<>> /\ asyncResult[e] = {}

LEMMA CloseInvStep == TypeOK /\ SchedulerInv /\ CallInv /\ CloseInv /\ [Next]_vars => CloseInv'
<1> SUFFICES ASSUME TypeOK, SchedulerInv, CallInv, CloseInv, [Next]_vars PROVE CloseInv'
  OBVIOUS
<1> USE DEF CloseInv, TypeOK, serverVars, linkVars, userVars
<1>1. CASE UNCHANGED vars
  BY <1>1 DEF vars
<1>2. ASSUME NEW e \in Ends, NEW c \in Calls, UserCall(e, c) PROVE CloseInv'
  BY <1>2 DEF UserCall, CallDisconnected, CallMethod, CallMethodFails, Register
<1>3. ASSUME NEW e \in Ends, NEW c \in Calls, Answer(e, c) PROVE CloseInv'
  BY <1>3 DEF Answer, TcpClosureRun
<1>4. ASSUME NEW e \in Ends, OnRead(e) PROVE CloseInv'
  BY <1>4 DEF OnRead
<1>5. ASSUME NEW e \in Ends, AfterWrite(e) PROVE CloseInv'
  <2>1. UNCHANGED <<connected, writeQueue, router, serving, canceled>>
    BY <1>5 DEF AfterWrite, AfterSendRequest, AfterSendResponse
  <2>2. CASE AfterSendResponse(e)
    BY <2>1, <2>2 DEF AfterSendResponse
  <2>3. CASE AfterSendRequest(e)
    <3>1. \A g \in Ends : asyncResult'[g] \subseteq asyncResult[g]
      BY <2>3 DEF AfterSendRequest, HandleResponse
    <3> QED
      BY <2>1, <3>1
  <2> QED
    BY <1>5, <2>2, <2>3 DEF AfterWrite
<1>6. ASSUME NEW e \in Ends, KernelWrite(e) PROVE CloseInv'
  <2>1. /\ writeQueue[e] # <<>>
        /\ \A g \in Ends : g # e => writeQueue'[g] = writeQueue[g]
        /\ UNCHANGED <<connected, asyncResult, router, serving, canceled>>
    BY <1>6 DEF KernelWrite, Flush, FlushError
  <2> QED
    BY <2>1
<1>7. ASSUME NEW e \in Ends, Reset(e) PROVE CloseInv'
  BY <1>7 DEF Reset
<1>8. ASSUME NEW e \in Ends, Close(e) PROVE CloseInv'
  BY <1>8 DEF Close, CancelServed, CancelWaiting
<1>9. ASSUME NEW e \in Ends, OnTimer(e) PROVE CloseInv'
  <2>1. CASE LackData(e) \/ TimerReturn(e)
    BY <2>1 DEF LackData, TimerReturn
  <2>2. CASE RejectRequest(e)
    BY <2>2 DEF RejectRequest, Handle
  <2>3. ASSUME Handle(e) PROVE connected[e] /\ connected' = connected
    BY <2>3 DEF Handle, SchedulerInv
  <2>4. CASE ServiceNotImplement(e)
    BY <2>3, <2>4 DEF ServiceNotImplement
  <2>5. CASE HandleRequest(e)
    BY <2>3, <2>5 DEF HandleRequest
  <2>6. CASE HandleReply(e)
    BY <2>3, <2>6 DEF HandleReply, HandleResponse
  <2> QED
    BY <1>9, <2>1, <2>2, <2>4, <2>5, <2>6 DEF OnTimer
<1> QED
  BY <1>1, <1>2, <1>3, <1>4, <1>5, <1>6, <1>7, <1>8, <1>9 DEF Next, Disconnected, UserClose, Terminated

LEMMA CloseInvCorrect == Spec => []CloseInv
<1>1. Init => CloseInv
  BY DEF Init, CloseInv
<1> QED
  BY <1>1, CloseInvStep, SchedulerInvCorrect, CallInvCorrect, TypeCorrect, PTL DEF Spec

(* TcpClosure::Run never writes to the stream of a closed channel.         *)
THEOREM ClosedChannelsAreSilent == Spec => []NoWriteOnClosed
<1>1. CloseInv => NoWriteOnClosed
  BY DEF CloseInv, NoWriteOnClosed
<1> QED
  BY <1>1, CloseInvCorrect, PTL

(* The receive scheduler of an open channel never gets lost between        *)
(* reading and its timer; that of a closed one is at rest for good, unless *)
(* it was closed by what OnTimer called.                                   *)
THEOREM SchedulerNeverLost == Spec => []SchedulerAlive
<1>1. SchedulerInv => SchedulerAlive
  BY DEF SchedulerInv, SchedulerAlive
<1> QED
  BY <1>1, SchedulerInvCorrect, PTL

=============================================================================
