------------------------- MODULE PythonChannelProofs -------------------------
(* Proofs about PythonChannel, for any number of connections and calls.    *)
EXTENDS PythonChannel, SequenceTheorems, FiniteSetTheorems, TLAPS

(* The frames that a channel makes, of a call or of a request.             *)
LEMMA FrameTypes ==
  /\ \A c \in Calls, i \in Nat : Request(c, i) \in Frame
  /\ \A f \in Frame, failed \in BOOLEAN :
       /\ [f EXCEPT !.stub = FALSE, !.failed = failed] \in Frame
       /\ f.call \in Calls /\ f.message \in Message /\ f.id \in Nat
BY DEF Request, Frame, Message

(* The ids that are waited for have been given, so that the next is new.   *)
IdsGiven == \A e \in Ends : \A w \in pendingRequest[e] : w.id <= transmitId[e]

IInv == TypeOK /\ IdsGiven

Outcomes == {"idle", "pending", "replied", "failed", "sent"}

Waiter == [id : Nat \ {0}, call : Calls]

(* The part of the invariant about the calls.                              *)
CallInv ==
  /\ transmitId \in [Ends -> Nat]
  /\ pendingRequest \in [Ends -> SUBSET Waiter]
  /\ outcome \in [Calls -> Outcomes]
  /\ reply \in [Calls -> Message \cup {None}]
  /\ \A c \in Calls : outcome[c] = "pending" => \E w \in pendingRequest[Owner[c]] : w.call = c
  /\ \A e \in Ends : \A v, w \in pendingRequest[e] : v.id = w.id => v = w
  /\ IdsGiven

(* The part about the greenlets, the transport and the services.           *)
EndInv ==
  /\ greenlets \in [Ends -> SUBSET Both]
  /\ registered \in [Ends -> BOOLEAN]
  /\ sendQueue \in [Ends -> Seq(Frame)]
  /\ wire \in [Ends -> Seq(Frame)]
  /\ serving \in [Ends -> Frame \cup {None}]
  /\ executed \in [Calls -> Nat]

LEMMA Parts == IInv <=> CallInv /\ EndInv
BY DEF IInv, CallInv, EndInv, TypeOK, Outcomes, Waiter

LEMMA PartsNext == CallInv' /\ EndInv' => IInv'
BY DEF IInv, CallInv, EndInv, TypeOK, IdsGiven, Outcomes, Waiter

LEMMA OwnerEnds == \A c \in Calls : Owner[c] \in Ends
BY EndsAssumption

-----------------------------------------------------------------------------
LEMMA RegisterKeeps ==
  ASSUME IInv, NEW c \in Calls, SendRequest(c)
  PROVE  IInv'
<1> DEFINE e == Owner[c]
           id == transmitId[e] + 1
           new == [id |-> id, call |-> c]
<1>1. e \in Ends /\ transmitId[e] \in Nat /\ id \in Nat \ {0} /\ new \in Waiter
  BY OwnerEnds DEF IInv, TypeOK, Waiter
<1>2. /\ transmitId' = [transmitId EXCEPT ![e] = id]
      /\ pendingRequest' = [pendingRequest EXCEPT ![e] = @ \cup {new}]
      /\ outcome' = [outcome EXCEPT ![c] = "pending"]
      /\ sendQueue' = [sendQueue EXCEPT ![e] = Append(@, Request(c, id))]
      /\ UNCHANGED <<sockVars, wire, reply, serving, executed>>
  BY DEF SendRequest, Register, Put
<1>3. EndInv'
  <2>1. Append(sendQueue[e], Request(c, id)) \in Seq(Frame)
    <3>1. sendQueue[e] \in Seq(Frame) /\ Request(c, id) \in Frame
      BY <1>1, FrameTypes DEF IInv, TypeOK
    <3> QED
      BY <3>1, AppendProperties
  <2>2. sendQueue' \in [Ends -> Seq(Frame)]
    BY <1>2, <2>1 DEF IInv, TypeOK
  <2> QED
    BY <1>2, <2>2 DEF EndInv, IInv, TypeOK, sockVars
<1> HIDE DEF id
<1>4. CallInv'
  <2>1. new.id = id /\ new.call = c
    OBVIOUS
  <2> HIDE DEF new, e
  <2>2. /\ \A d \in Ends : transmitId'[d] = IF d = e THEN id ELSE transmitId[d]
        /\ \A d \in Ends : pendingRequest'[d] = IF d = e THEN pendingRequest[e] \cup {new} ELSE pendingRequest[d]
        /\ \A d \in Calls : outcome'[d] = IF d = c THEN "pending" ELSE outcome[d]
    BY <1>2 DEF IInv, TypeOK
  <2>3. /\ transmitId' \in [Ends -> Nat] /\ pendingRequest' \in [Ends -> SUBSET Waiter]
        /\ outcome' \in [Calls -> Outcomes] /\ reply' \in [Calls -> Message \cup {None}]
    BY <1>1, <1>2 DEF IInv, TypeOK, Outcomes, Waiter
  <2>4. \A d \in Calls : outcome'[d] = "pending" => \E w \in pendingRequest'[Owner[d]] : w.call = d
    <3> SUFFICES ASSUME NEW d \in Calls, outcome'[d] = "pending"
                 PROVE  \E w \in pendingRequest'[Owner[d]] : w.call = d
      OBVIOUS
    <3>1. CASE d = c
      BY <1>1, <2>1, <2>2, <3>1 DEF e
    <3>2. CASE d # c
      <4>1. PICK w \in pendingRequest[Owner[d]] : w.call = d
        BY <2>2, <3>2 DEF IInv, TypeOK
      <4>2. w \in pendingRequest'[Owner[d]]
        BY <2>2, OwnerEnds
      <4> QED
        BY <4>1, <4>2
    <3> QED
      BY <3>1, <3>2
  <2>5. \A w \in pendingRequest[e] : w.id \in Nat /\ w.id < id
    BY <1>1 DEF IInv, TypeOK, IdsGiven, id, e
  <2>6. \A d \in Ends : \A v, w \in pendingRequest'[d] : v.id = w.id => v = w
    <3> SUFFICES ASSUME NEW d \in Ends, NEW v \in pendingRequest'[d], NEW w \in pendingRequest'[d], v.id = w.id
                 PROVE  v = w
      OBVIOUS
    <3>1. CASE v \in pendingRequest[d] /\ w \in pendingRequest[d]
      BY <3>1 DEF IInv, TypeOK
    <3>2. CASE v \notin pendingRequest[d] \/ w \notin pendingRequest[d]
      <4>1. d = e /\ v \in pendingRequest[e] \cup {new} /\ w \in pendingRequest[e] \cup {new}
        BY <2>2, <3>2
      <4> QED
        BY <2>1, <2>5, <3>2, <4>1
    <3> QED
      BY <3>1, <3>2
  <2>7. IdsGiven'
    BY <1>1, <2>1, <2>2, <2>5 DEF IInv, IdsGiven
  <2> QED
    BY <2>3, <2>4, <2>6, <2>7 DEF CallInv
<1> QED
  BY <1>3, <1>4, PartsNext

(* Callers that are woken no longer wait; the others still can be found.   *)
LEMMA WakeKeeps ==
  ASSUME CallInv, NEW e \in Ends, NEW f \in Frame, NEW woken \in SUBSET Calls,
         Wake(e, f, woken), UNCHANGED transmitId
  PROVE  CallInv'
<1>1. /\ \A d \in Ends : pendingRequest'[d] \subseteq pendingRequest[d]
      /\ pendingRequest' \in [Ends -> SUBSET Waiter]
      /\ \A d \in Ends : \A w \in pendingRequest[d] : w.call \in woken \/ w \in pendingRequest'[d]
  BY DEF Wake, CallInv
<1>2. /\ outcome' \in [Calls -> Outcomes]
      /\ reply' \in [Calls -> Message \cup {None}]
      /\ \A c \in Calls : outcome'[c] = "pending" => c \notin woken /\ outcome[c] = "pending"
  BY FrameTypes DEF Wake, CallInv, Outcomes
<1>3. \A c \in Calls : outcome'[c] = "pending" => \E w \in pendingRequest'[Owner[c]] : w.call = c
  BY <1>1, <1>2, OwnerEnds DEF CallInv
<1> QED
  BY <1>1, <1>2, <1>3 DEF CallInv, IdsGiven

LEMMA ResponseKeeps ==
  ASSUME IInv, NEW e \in Ends, HandleResponse(e)
  PROVE  IInv'
<1>1. wire[e] # <<>> /\ wire' = [wire EXCEPT ![e] = Tail(@)]
  BY DEF HandleResponse
<1>2. Head(wire[e]) \in Frame /\ Tail(wire[e]) \in Seq(Frame)
  BY <1>1, HeadTailProperties DEF IInv, TypeOK
<1>3. PICK woken \in SUBSET Calls : Wake(e, Head(wire[e]), woken)
  <2>1. Waiters(e, Head(wire[e])) \subseteq Calls
    BY DEF Waiters, IInv, TypeOK
  <2> QED
    BY <2>1 DEF HandleResponse
<1>4. CallInv'
  BY <1>2, <1>3, WakeKeeps, Parts DEF HandleResponse
<1>5. EndInv'
  BY <1>1, <1>2 DEF HandleResponse, EndInv, IInv, TypeOK, sockVars
<1> QED
  BY <1>4, <1>5, PartsNext

(* What is sent and received, and the greenlets that end.                  *)
LEMMA EndKeeps ==
  ASSUME IInv, NEW e \in Ends,
         \/ Write(e) \/ WriteFails(e) \/ HandleNotify(e) \/ RejectRequest(e) \/ HandleRequest(e)
         \/ EndOfStream(e) \/ ReceiveFails(e) \/ ServiceReturns(e) \/ ServiceRaises(e)
         \/ Kill(e) \/ CloseSock(e)
  PROVE  IInv'
<1> USE DEF Dies, sockVars, transportVars, callVars
<1>0. EndInv /\ CallInv
  BY Parts
<1>1. CallInv'
  <2>1. UNCHANGED callVars
    BY DEF Write, WriteFails, HandleNotify, RejectRequest, HandleRequest, EndOfStream,
           ReceiveFails, ServiceReturns, ServiceRaises, Kill, CloseSock
  <2> QED
    BY <1>0, <2>1 DEF CallInv, IdsGiven
<1>2. EndInv'
  <2> USE DEF EndInv
  <2>1. ASSUME NEW d \in Ends, wire[d] # <<>>
        PROVE  Head(wire[d]) \in Frame /\ Tail(wire[d]) \in Seq(Frame)
    BY <1>0, <2>1, HeadTailProperties
  <2>2. ASSUME NEW d \in Ends, sendQueue[d] # <<>>
        PROVE  Head(sendQueue[d]) \in Frame /\ Tail(sendQueue[d]) \in Seq(Frame)
    BY <1>0, <2>2, HeadTailProperties
  <2>3. ASSUME NEW f \in Frame, NEW failed \in BOOLEAN, SendResponse(e, f, failed)
        PROVE  sendQueue' \in [Ends -> Seq(Frame)] /\ greenlets' \in [Ends -> SUBSET Both]
    <3>1. Append(sendQueue[e], [f EXCEPT !.stub = FALSE, !.failed = failed]) \in Seq(Frame)
      BY <1>0, FrameTypes, AppendProperties
    <3> QED
      BY <1>0, <2>3, <3>1 DEF SendResponse, Put
  <2>4. CASE Write(e)
    <3>1. Peer[e] \in Ends /\ Head(sendQueue[e]) \in Frame /\ Tail(sendQueue[e]) \in Seq(Frame)
      BY <2>2, <2>4, EndsAssumption DEF Write
    <3>2. Append(wire[Peer[e]], Head(sendQueue[e])) \in Seq(Frame)
      BY <1>0, <3>1, AppendProperties
    <3>3. wire' \in [Ends -> Seq(Frame)] /\ sendQueue' \in [Ends -> Seq(Frame)]
      BY <1>0, <2>4, <3>1, <3>2 DEF Write
    <3> QED
      BY <1>0, <2>4, <3>3 DEF Write
  <2>5. CASE WriteFails(e)
    BY <1>0, <2>5 DEF WriteFails
  <2>6. CASE HandleNotify(e)
    BY <1>0, <2>1, <2>6 DEF HandleNotify, RequestArrives
  <2>7. CASE RejectRequest(e)
    BY <1>0, <2>1, <2>3, <2>7 DEF RejectRequest, RequestArrives
  <2>8. CASE HandleRequest(e)
    <3>1. Head(wire[e]) \in Frame /\ Tail(wire[e]) \in Seq(Frame) /\ Head(wire[e]).call \in Calls
      BY <2>1, <2>8, FrameTypes DEF HandleRequest, RequestArrives
    <3> QED
      <4> DEFINE f == Head(wire[e])
                 t == Tail(wire[e])
      <4>1. /\ UNCHANGED <<greenlets, registered, sendQueue>>
            /\ wire' = [wire EXCEPT ![e] = t]
            /\ serving' \in {serving, [serving EXCEPT ![e] = f]}
            /\ executed' \in {executed, [executed EXCEPT ![f.call] = @ + 1]}
        BY <2>8 DEF HandleRequest, RequestArrives
      <4>2. f \in Frame /\ f.call \in Calls /\ t \in Seq(Frame)
        BY <3>1
      <4> HIDE DEF f, t
      <4>3. wire' \in [Ends -> Seq(Frame)] /\ serving' \in [Ends -> Frame \cup {None}]
        BY <1>0, <4>1, <4>2
      <4>4. PICK c \in Calls : executed' \in {executed, [executed EXCEPT ![c] = @ + 1]}
        BY <4>1, <4>2
      <4>5. executed' \in [Calls -> Nat]
        <5>1. executed \in [Calls -> Nat]
          BY <1>0
        <5>2. executed[c] + 1 \in Nat
          BY <5>1
        <5> DEFINE n == executed[c] + 1
        <5>3. executed' \in {executed, [executed EXCEPT ![c] = n]}
          BY <4>4
        <5> HIDE DEF n
        <5> QED
          BY <5>1, <5>2, <5>3, c \in Calls DEF n
      <4> QED
        BY <1>0, <4>1, <4>3, <4>5
  <2>9. CASE EndOfStream(e) \/ ReceiveFails(e)
    BY <1>0, <2>9 DEF EndOfStream, ReceiveFails
  <2>10. CASE ServiceReturns(e)
    BY <1>0, <2>3, <2>10 DEF ServiceReturns
  <2>11. CASE ServiceRaises(e)
    BY <1>0, <2>11 DEF ServiceRaises
  <2>12. CASE Kill(e)
    BY <1>0, <2>12 DEF Kill
  <2>13. CASE CloseSock(e)
    BY <1>0, <2>13, EmptySeq DEF CloseSock
  <2> QED
    BY <2>4, <2>5, <2>6, <2>7, <2>8, <2>9, <2>10, <2>11, <2>12, <2>13
<1> QED
  BY <1>1, <1>2, PartsNext

LEMMA IInvStep == IInv /\ [Next]_vars => IInv'
<1> SUFFICES ASSUME IInv, [Next]_vars PROVE IInv'
  OBVIOUS
<1>1. CASE UNCHANGED vars
  BY <1>1 DEF vars, sockVars, transportVars, callVars, IInv, TypeOK, IdsGiven
<1>2. ASSUME NEW c \in Calls, CallDisconnected(c) \/ SendNotify(c)
      PROVE  IInv'
  <2>1. sendQueue[Owner[c]] \in Seq(Frame) /\ Request(c, 0) \in Frame
    BY FrameTypes, OwnerEnds DEF IInv, TypeOK
  <2>a. Append(sendQueue[Owner[c]], Request(c, 0)) \in Seq(Frame)
    BY <2>1, AppendProperties
  <2>b. sendQueue' \in [Ends -> Seq(Frame)]
    <3> DEFINE q == Append(sendQueue[Owner[c]], Request(c, 0))
    <3>1. sendQueue' \in {sendQueue, [sendQueue EXCEPT ![Owner[c]] = q]}
      BY <1>2 DEF CallDisconnected, SendNotify, Put, transportVars
    <3>2. sendQueue \in [Ends -> Seq(Frame)]
      BY DEF IInv, TypeOK
    <3> HIDE DEF q
    <3>3. q \in Seq(Frame)
      BY <2>a DEF q
    <3> QED
      BY <3>1, <3>2, <3>3
  <2>2. EndInv'
    BY <1>2, <2>b DEF CallDisconnected, SendNotify, EndInv, IInv, TypeOK, sockVars, transportVars
  <2>c. /\ UNCHANGED <<transmitId, pendingRequest, reply>>
        /\ outcome' \in {[outcome EXCEPT ![c] = "failed"], [outcome EXCEPT ![c] = "sent"]}
    BY <1>2 DEF CallDisconnected, SendNotify
  <2>d. CallInv
    BY Parts
  <2>e. /\ outcome' \in [Calls -> Outcomes]
        /\ \A d \in Calls : outcome'[d] = "pending" => outcome[d] = "pending"
    BY <2>c, <2>d DEF CallInv, Outcomes
  <2>3. CallInv'
    BY <2>c, <2>d, <2>e DEF CallInv, IdsGiven
  <2> QED
    BY <2>2, <2>3, PartsNext
<1> QED
  BY <1>1, <1>2, RegisterKeeps, ResponseKeeps, EndKeeps DEF Next, Receive, Terminated

LEMMA IInvCorrect == Spec => []IInv
<1>1. Init => IInv
  BY EmptySeq DEF Init, IInv, TypeOK, IdsGiven
<1> QED
  BY <1>1, IInvStep, PTL DEF Spec

(* Whoever waits can be found by the id of its answer, and nobody else by  *)
(* the same id.                                                            *)
THEOREM TypeCorrect == Spec => []TypeOK
<1>1. IInv => TypeOK
  BY DEF IInv
<1> QED
  BY <1>1, IInvCorrect, PTL

(* A greenlet that has ended stays dead, and only close forgets a socket.  *)
Shrinks == \A d \in Ends : greenlets'[d] \subseteq greenlets[d]

LEMMA GreenletsShrink ==
  ASSUME TypeOK, [Next]_vars
  PROVE  Shrinks /\ (UNCHANGED registered \/ \E d \in Ends : CloseSock(d))
<1> USE DEF Dies, sockVars
<1>1. CASE UNCHANGED vars
  BY <1>1 DEF vars, Shrinks
<1>2. ASSUME NEW c \in Calls, CallDisconnected(c) \/ SendRequest(c) \/ SendNotify(c)
      PROVE  Shrinks /\ UNCHANGED registered
  BY <1>2 DEF CallDisconnected, SendRequest, SendNotify, Shrinks
<1>3. greenlets \in [Ends -> SUBSET Both]
  BY DEF TypeOK
<1>4. ASSUME NEW d \in Ends, NEW S \in SUBSET greenlets[d], greenlets' = [greenlets EXCEPT ![d] = S]
      PROVE  Shrinks
  BY <1>3, <1>4 DEF Shrinks
<1>5. ASSUME NEW d \in Ends,
             \/ Write(d) \/ WriteFails(d) \/ Receive(d) \/ ReceiveFails(d)
             \/ ServiceReturns(d) \/ ServiceRaises(d) \/ Kill(d)
      PROVE  Shrinks /\ UNCHANGED registered
  <2>1. UNCHANGED registered
    <3>1. CASE Receive(d)
      BY <3>1 DEF Receive, HandleResponse, HandleNotify, RejectRequest, HandleRequest, EndOfStream
    <3>2. CASE ~Receive(d)
      BY <1>5, <3>2 DEF Write, WriteFails, ReceiveFails, ServiceReturns, ServiceRaises, Kill
    <3> QED
      BY <3>1, <3>2
  <2>2. \/ UNCHANGED greenlets
        \/ \E g : greenlets' = [greenlets EXCEPT ![d] = @ \ {g}]
        \/ greenlets' = [greenlets EXCEPT ![d] = {}]
    <3>1. CASE Write(d) \/ WriteFails(d)
      BY <3>1 DEF Write, WriteFails
    <3>2. CASE ReceiveFails(d) \/ ServiceRaises(d) \/ Kill(d)
      BY <3>2 DEF ReceiveFails, ServiceRaises, Kill
    <3>3. CASE Receive(d)
      BY <3>3 DEF Receive, HandleResponse, HandleNotify, RejectRequest, HandleRequest, EndOfStream, SendResponse
    <3>4. CASE ServiceReturns(d)
      BY <3>4 DEF ServiceReturns, SendResponse
    <3> QED
      BY <1>5, <3>1, <3>2, <3>3, <3>4
  <2>3. CASE \E g : greenlets' = [greenlets EXCEPT ![d] = @ \ {g}]
    <3>1. PICK g : greenlets' = [greenlets EXCEPT ![d] = @ \ {g}]
      BY <2>3
    <3> QED
      BY <1>4, <2>1, <3>1
  <2>4. CASE greenlets' = [greenlets EXCEPT ![d] = {}]
    BY <1>4, <2>1, <2>4
  <2> QED
    BY <2>1, <2>2, <2>3, <2>4 DEF Shrinks
<1>6. ASSUME NEW d \in Ends, CloseSock(d)
      PROVE  Shrinks
  BY <1>6 DEF CloseSock, Shrinks
<1> QED
  BY <1>1, <1>2, <1>5, <1>6 DEF Next, Terminated

(* No greenlet of a connection outlives its queue, whichever of the two    *)
(* ends first.                                                             *)
THEOREM QueuesOutliveGreenlets == Spec => []QueueOutlivesGreenlets
<1>1. Init => QueueOutlivesGreenlets
  BY DEF Init, QueueOutlivesGreenlets
<1>2. TypeOK /\ QueueOutlivesGreenlets /\ [Next]_vars => QueueOutlivesGreenlets'
  <2> SUFFICES ASSUME TypeOK, QueueOutlivesGreenlets, [Next]_vars, NEW e \in Ends, greenlets'[e] # {}
               PROVE  registered'[e]
    BY DEF QueueOutlivesGreenlets
  <2>1. Shrinks /\ (UNCHANGED registered \/ \E d \in Ends : CloseSock(d))
    BY GreenletsShrink
  <2>2. registered[e] /\ greenlets[e] # {}
    BY <2>1 DEF QueueOutlivesGreenlets, Shrinks
  <2>3. registered'[e] = registered[e] \/ CloseSock(e)
    <3>1. ASSUME NEW d \in Ends, CloseSock(d), d # e
          PROVE  registered'[e] = registered[e]
      BY <3>1 DEF CloseSock, TypeOK
    <3> QED
      BY <2>1, <3>1
  <2> QED
    BY <2>2, <2>3 DEF CloseSock
<1> QED
  BY <1>1, <1>2, TypeCorrect, PTL DEF Spec

-----------------------------------------------------------------------------
(* Where the frames are                                                    *)

Elems(s) == {s[i] : i \in 1..Len(s)}

(* No two frames of one call.                                              *)
Distinct(s) == \A i, j \in 1..Len(s) : s[i].call = s[j].call => i = j

LEMMA HeadLeaves ==
  ASSUME NEW s \in Seq(Frame), s # <<>>, Distinct(s)
  PROVE  /\ Head(s) \in Elems(s) /\ Distinct(Tail(s))
         /\ Elems(Tail(s)) = {f \in Elems(s) : f.call # Head(s).call}
<1>1. /\ Len(Tail(s)) = Len(s) - 1 /\ Len(s) \in Nat \ {0} /\ Head(s) = s[1]
      /\ \A i \in 1..Len(Tail(s)) : Tail(s)[i] = s[i + 1]
  BY HeadTailProperties, EmptySeq, LenProperties
<1>2. \A i \in 1..Len(Tail(s)) : i + 1 \in 1..Len(s) /\ i + 1 # 1
  BY <1>1
<1>3. \A i \in 1..Len(s) : i = 1 \/ (i - 1 \in 1..Len(Tail(s)) /\ Tail(s)[i - 1] = s[i])
  BY <1>1
<1>4. 1 \in 1..Len(s)
  BY <1>1
<1>5. Distinct(Tail(s))
  <2> SUFFICES ASSUME NEW i \in 1..Len(Tail(s)), NEW j \in 1..Len(Tail(s)),
                      Tail(s)[i].call = Tail(s)[j].call
               PROVE  i = j
    BY DEF Distinct
  <2>1. i + 1 = j + 1
    BY <1>1, <1>2 DEF Distinct
  <2> QED
    BY <1>1, <2>1
<1>6. ASSUME NEW f \in Elems(Tail(s))
      PROVE  f \in Elems(s) /\ f.call # Head(s).call
  <2>1. PICK i \in 1..Len(Tail(s)) : f = s[i + 1]
    BY <1>1 DEF Elems
  <2> QED
    BY <1>1, <1>2, <1>4, <2>1 DEF Elems, Distinct
<1>7. ASSUME NEW f \in Elems(s), f.call # Head(s).call
      PROVE  f \in Elems(Tail(s))
  <2>1. PICK i \in 1..Len(s) : f = s[i]
    BY DEF Elems
  <2> QED
    BY <1>1, <1>3, <1>7, <2>1 DEF Elems
<1> QED
  BY <1>1, <1>4, <1>5, <1>6, <1>7 DEF Elems

LEMMA LastJoins ==
  ASSUME NEW s \in Seq(Frame), NEW x \in Frame
  PROVE  /\ Elems(Append(s, x)) = Elems(s) \cup {x}
         /\ Distinct(s) /\ (\A f \in Elems(s) : f.call # x.call) => Distinct(Append(s, x))
<1>1. /\ Len(Append(s, x)) = Len(s) + 1 /\ Len(s) \in Nat
      /\ \A i \in 1..Len(s) : Append(s, x)[i] = s[i]
      /\ Append(s, x)[Len(s) + 1] = x
  BY AppendProperties, LenProperties
<1>2. \A i \in 1..Len(s) + 1 : i \in 1..Len(s) \/ i = Len(s) + 1
  BY <1>1
<1>3. Elems(Append(s, x)) = Elems(s) \cup {x}
  BY <1>1, <1>2 DEF Elems
<1>4. ASSUME Distinct(s), \A f \in Elems(s) : f.call # x.call
      PROVE  Distinct(Append(s, x))
  BY <1>1, <1>2, <1>4 DEF Distinct, Elems
<1> QED
  BY <1>3, <1>4

Kinds == {"wire", "queue", "service"}

(* The frames under way to e, those that e has to send, and the request    *)
(* that e serves.                                                          *)
Held(e, k) ==
  IF k = "wire" THEN Elems(wire[e])
  ELSE IF k = "queue" THEN Elems(sendQueue[e])
  ELSE {serving[e]} \ {None}

(* A call is in one place.                                                 *)
Unique ==
  /\ \A e \in Ends : Distinct(wire[e]) /\ Distinct(sendQueue[e])
  /\ \A e, d \in Ends, k, l \in Kinds : \A f \in Held(e, k), g \in Held(d, l) :
       f.call = g.call => e = d /\ k = l

(* Whoever sent what is there.                                             *)
Sender(e, k) == IF k = "queue" THEN e ELSE Peer[e]

(* Somebody still waits for what the frame is about, under its id, and the *)
(* service has run as often as the frame makes one think.                  *)
FrameOK(e, k, f) ==
  /\ IF f.call \in Notify THEN outcome[f.call] = "sent" ELSE outcome[f.call] = "pending"
  /\ f.call \notin Notify => [id |-> f.id, call |-> f.call] \in pendingRequest[Owner[f.call]]
  /\ f.stub => Owner[f.call] = Sender(e, k)
               /\ executed[f.call] = IF k = "service" THEN 1 ELSE 0
  /\ ~f.stub => Owner[f.call] = Peer[Sender(e, k)] /\ (~f.failed => executed[f.call] = 1)
  /\ ~f.stub \/ k = "service" => f.call \notin Notify
  /\ k = "service" => f.stub

FrameInv ==
  /\ \A e \in Ends, k \in Kinds : \A f \in Held(e, k) : FrameOK(e, k, f)
  /\ \A c \in Calls : executed[c] \in {0, 1} /\ (outcome[c] = "idle" => executed[c] = 0)

(* A caller that waits on a whole connection does so for something.        *)
NotLost ==
  Whole => \A c \in Calls \ Unreadable :
    outcome[c] = "pending" => \E e \in Ends, k \in Kinds : \E f \in Held(e, k) : f.call = c

PlaceInv == Unique /\ FrameInv /\ NotLost

LEMMA HeldFrames ==
  ASSUME IInv, NEW e \in Ends
  PROVE  \A k \in Kinds : \A f \in Held(e, k) : f \in Frame /\ f.call \in Calls
<1>1. Elems(wire[e]) \subseteq Frame /\ Elems(sendQueue[e]) \subseteq Frame
  BY ElementOfSeq DEF Elems, IInv, TypeOK
<1>2. {serving[e]} \ {None} \subseteq Frame
  BY DEF IInv, TypeOK
<1>3. /\ Held(e, "wire") \subseteq Frame /\ Held(e, "queue") \subseteq Frame
      /\ Held(e, "service") \subseteq Frame
  BY <1>1, <1>2 DEF Held
<1>4. \A k \in Kinds : Held(e, k) \subseteq Frame
  BY <1>3 DEF Kinds
<1>5. \A f \in Frame : f.call \in Calls
  BY DEF Frame
<1> QED
  BY <1>4, <1>5

(* All that a step does is about one call: nothing happens to the frames   *)
(* and the callers of the others, and that call is in one place or none.   *)
LEMMA StepOfCall ==
  ASSUME IInv, PlaceInv, NEW c \in Calls,
         \A e \in Ends : Distinct(wire'[e]) /\ Distinct(sendQueue'[e]),
         \A d \in Calls \ {c} :
           /\ outcome'[d] = outcome[d] /\ executed'[d] = executed[d]
           /\ \A w \in pendingRequest[Owner[d]] : w.call = d => w \in pendingRequest'[Owner[d]],
         \A e \in Ends, k \in Kinds : \A f \in Held(e, k)' : f \in Held(e, k) \/ f.call = c,
         Whole' => Whole /\ \A e \in Ends, k \in Kinds : \A f \in Held(e, k) : f \in Held(e, k)' \/ f.call = c,
         \A e, d \in Ends, k, l \in Kinds : \A f \in Held(e, k)', g \in Held(d, l)' :
           f.call = c /\ g.call = c => e = d /\ k = l,
         \A e \in Ends, k \in Kinds : \A f \in Held(e, k)' : f.call = c => FrameOK(e, k, f)',
         executed'[c] \in {0, 1} /\ (outcome'[c] = "idle" => executed'[c] = 0),
         Whole' /\ c \notin Unreadable /\ outcome'[c] = "pending" =>
           \E e \in Ends, k \in Kinds : \E f \in Held(e, k)' : f.call = c
  PROVE  PlaceInv'
<1>1. \A e \in Ends, k \in Kinds : \A f \in Held(e, k) : f.call \in Calls
  BY HeldFrames
<1>2. Unique'
  <2> SUFFICES ASSUME NEW e \in Ends, NEW d \in Ends, NEW k \in Kinds, NEW l \in Kinds,
                      NEW f \in Held(e, k)', NEW g \in Held(d, l)', f.call = g.call
               PROVE  e = d /\ k = l
    BY DEF Unique
  <2> QED
    BY DEF PlaceInv, Unique
<1>3. FrameInv'
  <2>1. ASSUME NEW e \in Ends, NEW k \in Kinds, NEW f \in Held(e, k)', f.call # c
        PROVE  FrameOK(e, k, f)'
    <3>1. FrameOK(e, k, f) /\ f.call \in Calls \ {c}
      BY <1>1, <2>1 DEF PlaceInv, FrameInv
    <3> QED
      BY <3>1 DEF FrameOK, Sender
  <2>2. \A d \in Calls : executed'[d] \in {0, 1} /\ (outcome'[d] = "idle" => executed'[d] = 0)
    BY DEF PlaceInv, FrameInv
  <2> QED
    BY <2>1, <2>2 DEF FrameInv
<1>4. NotLost'
  <2> SUFFICES ASSUME Whole', NEW d \in Calls \ Unreadable, outcome'[d] = "pending", d # c
               PROVE  \E e \in Ends, k \in Kinds : \E f \in Held(e, k)' : f.call = d
    BY DEF NotLost
  <2> QED
    BY DEF PlaceInv, NotLost
<1> QED
  BY <1>2, <1>3, <1>4 DEF PlaceInv

(* What a step throws away while the connection goes down.                 *)
LEMMA StepOfNobody ==
  ASSUME PlaceInv, UNCHANGED <<outcome, pendingRequest, executed>>,
         \A e \in Ends : Distinct(wire'[e]) /\ Distinct(sendQueue'[e]),
         \A e \in Ends, k \in Kinds : Held(e, k)' \subseteq Held(e, k),
         ~Whole'
  PROVE  PlaceInv'
<1>1. Unique'
  BY DEF PlaceInv, Unique
<1>2. FrameInv'
  BY DEF PlaceInv, FrameInv, FrameOK, Sender
<1>3. NotLost'
  BY DEF NotLost
<1> QED
  BY <1>1, <1>2, <1>3 DEF PlaceInv

-----------------------------------------------------------------------------
(* The ways a frame goes                                                   *)

LEMMA Received ==
  ASSUME IInv, Unique, NEW e \in Ends, wire[e] # <<>>, wire' = [wire EXCEPT ![e] = Tail(@)]
  PROVE  /\ Head(wire[e]) \in Held(e, "wire")
         /\ Held(e, "wire")' = {f \in Held(e, "wire") : f.call # Head(wire[e]).call}
         /\ \A d \in Ends : d # e => Held(d, "wire")' = Held(d, "wire")
         /\ \A d \in Ends : Distinct(wire'[d])
<1>1. wire[e] \in Seq(Frame) /\ \A d \in Ends : wire'[d] = IF d = e THEN Tail(wire[e]) ELSE wire[d]
  BY DEF IInv, TypeOK
<1>2. \A d \in Ends : Distinct(wire[d])
  BY DEF Unique
<1> QED
  BY <1>1, <1>2, HeadLeaves DEF Held

LEMMA Queued ==
  ASSUME IInv, Unique, NEW e \in Ends, NEW f \in Frame, Put(e, f),
         \A g \in Held(e, "queue") : g.call # f.call
  PROVE  /\ Held(e, "queue")' = Held(e, "queue") \cup {f}
         /\ \A d \in Ends : d # e => Held(d, "queue")' = Held(d, "queue")
         /\ \A d \in Ends : Distinct(sendQueue'[d])
<1>1. sendQueue[e] \in Seq(Frame)
      /\ \A d \in Ends : sendQueue'[d] = IF d = e THEN Append(sendQueue[e], f) ELSE sendQueue[d]
  BY DEF IInv, TypeOK, Put
<1>2. \A d \in Ends : Distinct(sendQueue[d])
  BY DEF Unique
<1> QED
  BY <1>1, <1>2, LastJoins DEF Held

LEMMA Remain ==
  /\ UNCHANGED wire => \A e \in Ends : Held(e, "wire")' = Held(e, "wire")
  /\ UNCHANGED sendQueue => \A e \in Ends : Held(e, "queue")' = Held(e, "queue")
  /\ UNCHANGED serving => \A e \in Ends : Held(e, "service")' = Held(e, "service")
BY DEF Held

LEMMA WholeBefore ==
  ASSUME IInv, [Next]_vars, Whole'
  PROVE  Whole
<1>1. \A e \in Ends : greenlets'[e] \subseteq greenlets[e] /\ greenlets[e] \in SUBSET Both
  BY GreenletsShrink DEF IInv, TypeOK, Shrinks
<1> QED
  BY <1>1 DEF Whole

LEMMA PeerFacts == \A e \in Ends : Peer[e] \in Ends /\ Peer[e] # e /\ Peer[Peer[e]] = e
BY EndsAssumption

(* A call begins: nothing is under way for it.                             *)
LEMMA CallPlaces ==
  ASSUME IInv, PlaceInv, [Next]_vars, NEW c \in Calls, CallDisconnected(c) \/ SendRequest(c) \/ SendNotify(c)
  PROVE  PlaceInv'
<1> DEFINE e == Owner[c]
<1>1. e \in Ends /\ transmitId[e] + 1 \in Nat
  BY OwnerEnds DEF IInv, TypeOK
<1>2. \A d \in Ends, k \in Kinds : \A f \in Held(d, k) : f.call # c
  BY DEF PlaceInv, FrameInv, FrameOK, CallDisconnected, SendRequest, SendNotify
<1>3. UNCHANGED <<wire, serving, executed>> /\ UNCHANGED greenlets
  BY DEF CallDisconnected, SendRequest, SendNotify, transportVars, sockVars
<1>4. \A d \in Calls \ {c} :
        /\ outcome'[d] = outcome[d] /\ executed'[d] = executed[d]
        /\ \A w \in pendingRequest[Owner[d]] : w.call = d => w \in pendingRequest'[Owner[d]]
  <2>1. \A d \in Calls \ {c} : outcome'[d] = outcome[d]
    BY DEF CallDisconnected, SendRequest, SendNotify, IInv, TypeOK
  <2>2. \A d \in Ends : pendingRequest[d] \subseteq pendingRequest'[d]
    <3> DEFINE w == [id |-> transmitId[e] + 1, call |-> c]
    <3>1. UNCHANGED pendingRequest \/ pendingRequest' = [pendingRequest EXCEPT ![e] = @ \cup {w}]
      <4>1. CASE SendRequest(c)
        BY <4>1 DEF SendRequest, Register
      <4>2. CASE CallDisconnected(c) \/ SendNotify(c)
        BY <4>2 DEF CallDisconnected, SendNotify
      <4> QED
        BY <4>1, <4>2
    <3> HIDE DEF w, e
    <3>2. pendingRequest \in [Ends -> SUBSET [id : Nat \ {0}, call : Calls]]
      BY DEF IInv, TypeOK
    <3> QED
      BY <3>1, <3>2
  <2> QED
    BY <1>3, <2>1, <2>2, OwnerEnds
<1>5. executed[c] = 0 /\ outcome[c] = "idle" /\ outcome'[c] \in Outcomes
  BY DEF PlaceInv, FrameInv, CallDisconnected, SendRequest, SendNotify, IInv, TypeOK, Outcomes
<1>6. Whole' => Whole
  BY WholeBefore
<1>7. CASE CallDisconnected(c)
  <2>1. UNCHANGED sendQueue /\ outcome'[c] = "failed"
    BY <1>7 DEF CallDisconnected, transportVars, IInv, TypeOK
  <2>2. \A d \in Ends, k \in Kinds : Held(d, k)' = Held(d, k)
    BY <1>3, <2>1, Remain DEF Kinds
  <2>3. \A d \in Ends : Distinct(wire'[d]) /\ Distinct(sendQueue'[d])
    BY <1>3, <2>1 DEF PlaceInv, Unique
  <2> QED
    BY <1>2, <1>3, <1>4, <1>5, <1>6, <2>1, <2>2, <2>3, StepOfCall
<1>8. CASE SendRequest(c) \/ SendNotify(c)
  <2>1. PICK i \in Nat : Put(e, Request(c, i))
                      /\ IF c \in Notify THEN outcome'[c] = "sent"
                         ELSE outcome'[c] = "pending" /\ [id |-> i, call |-> c] \in pendingRequest'[e]
    <3>1. CASE SendRequest(c)
      BY <1>1, <3>1 DEF SendRequest, Register, IInv, TypeOK
    <3>2. CASE SendNotify(c)
      BY <3>2 DEF SendNotify, IInv, TypeOK
    <3> QED
      BY <1>8, <3>1, <3>2
  <2> DEFINE f == Request(c, i)
  <2>2. f \in Frame /\ f.call = c /\ f.stub = TRUE /\ f.id = i
    <3>1. Request(c, i) \in Frame
      BY FrameTypes, Zenon
    <3> QED
      BY <3>1 DEF Request
  <2> HIDE DEF f
  <2>3. /\ Held(e, "queue")' = Held(e, "queue") \cup {f}
        /\ \A d \in Ends : d # e => Held(d, "queue")' = Held(d, "queue")
        /\ \A d \in Ends : Distinct(sendQueue'[d])
    <3>1. \A g \in Held(e, "queue") : g.call # f.call
      BY <1>1, <1>2, <2>2 DEF Kinds
    <3> QED
      BY <1>1, <2>1, <2>2, <3>1, Queued DEF PlaceInv, f
  <2>4. /\ \A d \in Ends, k \in Kinds : \A g \in Held(d, k) : g \in Held(d, k)'
        /\ \A d \in Ends, k \in Kinds : \A g \in Held(d, k)' :
             g \in Held(d, k) \/ (d = e /\ k = "queue" /\ g = f)
    BY <1>3, <2>3, Remain DEF Kinds
  <2>5. FrameOK(e, "queue", f)'
    BY <1>3, <1>5, <2>1, <2>2 DEF FrameOK, Sender
  <2>6. f \in Held(e, "queue")' /\ "queue" \in Kinds
    BY <2>3 DEF Kinds
  <2>7. \A d \in Ends : Distinct(wire'[d]) /\ Distinct(sendQueue'[d])
    BY <1>3, <2>3 DEF PlaceInv, Unique
  <2>8. outcome'[c] # "idle"
    BY <2>1
  <2>9. \A d \in Ends, k \in Kinds : \A g \in Held(d, k)' : g.call = c => d = e /\ k = "queue" /\ g = f
    BY <1>2, <2>4
  <2> HIDE DEF e
  <2> QED
    BY <1>1, <1>3, <1>4, <1>5, <1>6, <2>2, <2>4, <2>5, <2>6, <2>7, <2>8, <2>9, StepOfCall
<1> QED
  BY <1>7, <1>8

(* A frame is written, and lost if the other end has closed its socket.    *)
LEMMA WritePlaces ==
  ASSUME IInv, PlaceInv, QueueOutlivesGreenlets, [Next]_vars, NEW e \in Ends, Write(e)
  PROVE  PlaceInv'
<1> DEFINE d == Peer[e]
<1>0. PICK f \in Frame : f = Head(sendQueue[e])
  BY HeadTailProperties DEF Write, IInv, TypeOK
<1>1. /\ sendQueue[e] # <<>> /\ sendQueue[e] \in Seq(Frame) /\ wire[d] \in Seq(Frame)
      /\ d \in Ends /\ Peer[d] = e
      /\ sendQueue' = [sendQueue EXCEPT ![e] = Tail(@)]
      /\ wire' = [wire EXCEPT ![d] = IF registered[d] THEN Append(@, f) ELSE @]
      /\ UNCHANGED <<sockVars, callVars, serving, executed>>
  BY <1>0, PeerFacts DEF Write, IInv, TypeOK
<1>2. /\ f \in Held(e, "queue")
      /\ Held(e, "queue")' = {g \in Held(e, "queue") : g.call # f.call}
      /\ \A b \in Ends : b # e => Held(b, "queue")' = Held(b, "queue")
      /\ \A b \in Ends : Distinct(sendQueue'[b])
  <2>1. \A b \in Ends : sendQueue'[b] = IF b = e THEN Tail(sendQueue[e]) ELSE sendQueue[b]
    BY <1>1 DEF IInv, TypeOK
  <2>2. \A b \in Ends : Distinct(sendQueue[b])
    BY DEF PlaceInv, Unique
  <2> QED
    BY <1>0, <1>1, <2>1, <2>2, HeadLeaves DEF Held
<1> HIDE DEF d
<1>3. \A b \in Ends, k \in Kinds : \A g \in Held(b, k) : g.call = f.call => b = e /\ k = "queue"
  BY <1>2 DEF PlaceInv, Unique, Kinds
<1>4. /\ Held(d, "wire")' = IF registered[d] THEN Held(d, "wire") \cup {f} ELSE Held(d, "wire")
      /\ \A b \in Ends : b # d => Held(b, "wire")' = Held(b, "wire")
      /\ \A b \in Ends : Distinct(wire'[b])
  <2>1. \A b \in Ends : wire'[b] = IF b = d /\ registered[d] THEN Append(wire[d], f) ELSE wire[b]
    BY <1>1 DEF IInv, TypeOK
  <2>2. \A b \in Ends : Distinct(wire[b])
    BY DEF PlaceInv, Unique
  <2>3. \A g \in Elems(wire[d]) : g.call # f.call
    BY <1>1, <1>3 DEF Held, Kinds
  <2> QED
    <3>1. /\ Elems(Append(wire[d], f)) = Elems(wire[d]) \cup {f}
          /\ Distinct(Append(wire[d], f))
      BY <1>1, <2>2, <2>3, LastJoins
    <3>2. \A b \in Ends : Held(b, "wire") = Elems(wire[b]) /\ Held(b, "wire")' = Elems(wire'[b])
      BY DEF Held
    <3>3. /\ registered[d] => wire'[d] = Append(wire[d], f)
          /\ ~registered[d] => wire'[d] = wire[d]
          /\ \A b \in Ends : b # d => wire'[b] = wire[b]
      BY <1>1, <2>1
    <3> QED
      BY <1>1, <2>2, <3>1, <3>2, <3>3
<1>5. /\ \A b \in Ends, k \in Kinds : \A g \in Held(b, k)' :
           (g \in Held(b, k) /\ g.call # f.call) \/ (b = d /\ k = "wire" /\ g = f /\ registered[d])
      /\ \A b \in Ends, k \in Kinds : \A g \in Held(b, k) : g \in Held(b, k)' \/ g.call = f.call
  <2>1. \A b \in Ends : Held(b, "service")' = Held(b, "service")
    BY <1>1, Remain
  <2> QED
    BY <1>2, <1>3, <1>4, <2>1 DEF Kinds
<1>6. FrameOK(d, "wire", f)' /\ f.call \in Calls
  <2>1. FrameOK(e, "queue", f) /\ f.call \in Calls
    BY <1>2, HeldFrames DEF PlaceInv, FrameInv, Kinds
  <2> QED
    BY <1>1, <2>1 DEF FrameOK, Sender, callVars
<1>7. Whole' => Whole /\ registered[d] /\ f \in Held(d, "wire")'
  <2> SUFFICES ASSUME Whole'
               PROVE  Whole /\ registered[d] /\ f \in Held(d, "wire")'
    OBVIOUS
  <2>1. Whole
    BY WholeBefore
  <2>2. registered[d]
    BY <1>1, <2>1 DEF Whole, QueueOutlivesGreenlets, Both
  <2> QED
    BY <1>4, <2>1, <2>2
<1>8. UNCHANGED <<outcome, pendingRequest, executed>>
  BY <1>1 DEF callVars
<1>9. executed[f.call] \in {0, 1} /\ (outcome[f.call] = "idle" => executed[f.call] = 0)
  BY <1>6 DEF PlaceInv, FrameInv
<1>10. "wire" \in Kinds
  BY DEF Kinds
<1> QED
  BY <1>1, <1>2, <1>4, <1>5, <1>6, <1>7, <1>8, <1>9, <1>10, StepOfCall

(* What is thrown away when a part of the connection goes down.            *)
LEMMA DownPlaces ==
  ASSUME IInv, PlaceInv, NEW e \in Ends,
         \/ WriteFails(e) \/ EndOfStream(e) \/ ReceiveFails(e) \/ ServiceRaises(e)
         \/ Kill(e) \/ CloseSock(e)
  PROVE  PlaceInv'
<1> USE DEF transportVars, callVars, sockVars, Dies
<1>1. UNCHANGED <<outcome, pendingRequest, executed>>
  BY DEF WriteFails, EndOfStream, ReceiveFails, ServiceRaises, Kill, CloseSock
<1>2. greenlets'[e] # Both
  <2>1. greenlets \in [Ends -> SUBSET Both]
    BY DEF IInv, TypeOK
  <2>2. \/ greenlets' = [greenlets EXCEPT ![e] = @ \ {"send"}]
        \/ greenlets' = [greenlets EXCEPT ![e] = @ \ {"recv"}]
        \/ greenlets' = [greenlets EXCEPT ![e] = {}]
        \/ greenlets' = greenlets /\ greenlets[e] = {}
    BY DEF WriteFails, EndOfStream, ReceiveFails, ServiceRaises, Kill, CloseSock
  <2> QED
    BY <2>1, <2>2 DEF Both
<1>3. /\ wire' \in {wire, [wire EXCEPT ![e] = <<>>]}
      /\ sendQueue' \in {sendQueue, [sendQueue EXCEPT ![e] = <<>>]}
      /\ serving' \in {serving, [serving EXCEPT ![e] = None]}
  BY DEF WriteFails, EndOfStream, ReceiveFails, ServiceRaises, Kill, CloseSock
<1>4. \A d \in Ends : wire'[d] \in {wire[d], <<>>} /\ sendQueue'[d] \in {sendQueue[d], <<>>}
                      /\ serving'[d] \in {serving[d], None}
  BY <1>3 DEF IInv, TypeOK
<1>5. Distinct(<<>>) /\ Elems(<<>>) = {}
  BY DEF Distinct, Elems
<1>6. \A d \in Ends : Distinct(wire'[d]) /\ Distinct(sendQueue'[d])
  BY <1>4, <1>5 DEF PlaceInv, Unique
<1>7. \A d \in Ends, k \in Kinds : Held(d, k)' \subseteq Held(d, k)
  BY <1>4, <1>5 DEF Held, Kinds
<1> QED
  BY <1>1, <1>2, <1>6, <1>7, StepOfNobody DEF Whole

(* The next frame is received: nothing else is under way for its call.     *)
Takes(e, f) ==
  /\ f \in Frame /\ f \in Held(e, "wire") /\ f.call \in Calls /\ FrameOK(e, "wire", f)
  /\ \A d \in Ends, k \in Kinds : \A g \in Held(d, k) : g.call = f.call => d = e /\ k = "wire"
  /\ \A d \in Ends : Held(d, "wire")' = {g \in Held(d, "wire") : g.call # f.call}
  /\ \A d \in Ends : Distinct(wire'[d])

LEMMA Taken ==
  ASSUME IInv, PlaceInv, NEW e \in Ends, wire[e] # <<>>, wire' = [wire EXCEPT ![e] = Tail(@)]
  PROVE  Takes(e, Head(wire[e]))
<1>0. PICK f : f = Head(wire[e])
  OBVIOUS
<1>1. /\ f \in Held(e, "wire")
      /\ Held(e, "wire")' = {g \in Held(e, "wire") : g.call # f.call}
      /\ \A d \in Ends : d # e => Held(d, "wire")' = Held(d, "wire")
      /\ \A d \in Ends : Distinct(wire'[d])
  BY <1>0, Received DEF PlaceInv
<1>2. "wire" \in Kinds
  BY DEF Kinds
<1>3. f \in Frame /\ f.call \in Calls /\ FrameOK(e, "wire", f)
  BY <1>1, <1>2, HeldFrames DEF PlaceInv, FrameInv
<1>4. \A d \in Ends, k \in Kinds : \A g \in Held(d, k) : g.call = f.call => d = e /\ k = "wire"
  BY <1>1, <1>2 DEF PlaceInv, Unique
<1>5. \A d \in Ends : d # e => \A g \in Held(d, "wire") : g.call # f.call
  BY <1>2, <1>4
<1>6. ASSUME NEW d \in Ends
      PROVE  Held(d, "wire")' = {g \in Held(d, "wire") : g.call # f.call}
  BY <1>1, <1>5
<1>7. Takes(e, f)
  BY <1>1, <1>3, <1>4, <1>6 DEF Takes
<1> QED
  BY <1>0, <1>7

(* The answer ends the call it belongs to, unless it cannot be parsed.     *)
LEMMA AnswerEnds ==
  ASSUME IInv, PlaceInv, NEW e \in Ends, HandleResponse(e), NEW f, f = Head(wire[e])
  PROVE  /\ f.call \in Calls /\ outcome[f.call] = "pending" /\ f.call \notin Notify
         /\ Owner[f.call] = e
         /\ ~f.failed => executed[f.call] = 1
         /\ \E ends \in SUBSET {f.call} :
              /\ Wake(e, f, ends)
              /\ f.call \in ends \/ f.call \in Unreadable
<1>1. f \in Frame /\ f.call \in Calls /\ FrameOK(e, "wire", f) /\ ~f.stub
  <2>1. wire[e] # <<>> /\ wire' = [wire EXCEPT ![e] = Tail(@)] /\ ~Head(wire[e]).stub
    BY DEF HandleResponse
  <2>2. Takes(e, f)
    BY <2>1, Taken
  <2> QED
    BY <2>1, <2>2 DEF Takes
<1>2. /\ outcome[f.call] = "pending" /\ f.call \notin Notify /\ Owner[f.call] = e
      /\ ~f.failed => executed[f.call] = 1
      /\ [id |-> f.id, call |-> f.call] \in pendingRequest[e]
  BY <1>1, PeerFacts DEF FrameOK, Sender
<1>3. Waiters(e, f) = {f.call}
  <2>1. \A v, w \in pendingRequest[e] : v.id = w.id => v = w
    BY DEF IInv, TypeOK
  <2> DEFINE v == [id |-> f.id, call |-> f.call]
  <2>2. v \in pendingRequest[e] /\ v.id = f.id /\ v.call = f.call
    BY <1>2
  <2> HIDE DEF v
  <2>3. \A w \in pendingRequest[e] : w.id = f.id => w = v
    BY <2>1, <2>2
  <2> QED
    BY <2>2, <2>3 DEF Waiters
<1>4. \E unparsed \in {{}, {f.call} \cap Unreadable} :
        Wake(e, f, IF f.failed THEN {f.call} ELSE {f.call} \ unparsed)
  BY <1>3 DEF HandleResponse
<1>5. PICK unparsed \in {{}, {f.call} \cap Unreadable} :
        Wake(e, f, IF f.failed THEN {f.call} ELSE {f.call} \ unparsed)
  BY <1>4
<1> DEFINE ends == IF f.failed THEN {f.call} ELSE {f.call} \ unparsed
<1>6. ends \in SUBSET {f.call} /\ (f.call \in ends \/ f.call \in Unreadable)
  BY <1>5
<1>7. Wake(e, f, ends)
  BY <1>5
<1> HIDE DEF ends
<1> QED
  BY <1>1, <1>2, <1>6, <1>7

LEMMA ResponsePlaces ==
  ASSUME IInv, PlaceInv, [Next]_vars, NEW e \in Ends, HandleResponse(e)
  PROVE  PlaceInv'
<1>1. PICK f : f = Head(wire[e])
  OBVIOUS
<1>2. /\ wire[e] # <<>> /\ wire' = [wire EXCEPT ![e] = Tail(@)]
      /\ UNCHANGED <<sendQueue, serving, executed>>
  BY DEF HandleResponse
<1>3. Takes(e, f)
  BY <1>1, <1>2, Taken
<1>4. PICK ends \in SUBSET {f.call} : Wake(e, f, ends) /\ (f.call \in ends \/ f.call \in Unreadable)
  BY <1>1, AnswerEnds
<1>5. \A d \in Calls \ {f.call} :
        /\ outcome'[d] = outcome[d]
        /\ \A w \in pendingRequest[Owner[d]] : w.call = d => w \in pendingRequest'[Owner[d]]
  <2>1. \A d \in Calls : outcome'[d] = IF d \notin ends THEN outcome[d]
                                       ELSE IF f.failed THEN "failed" ELSE "replied"
    BY <1>4 DEF Wake
  <2>2. \A d \in Ends : \A w \in pendingRequest[d] : w.call \in ends \/ w \in pendingRequest'[d]
    BY <1>4 DEF Wake, IInv, TypeOK
  <2> QED
    BY <2>1, <2>2, OwnerEnds
<1>6. outcome'[f.call] # "idle" /\ (f.call \notin Unreadable => outcome'[f.call] # "pending")
  <2>1. outcome[f.call] = "pending"
    BY <1>1, AnswerEnds
  <2> QED
    BY <1>3, <1>4, <2>1 DEF Wake, Takes
<1>7. /\ \A d \in Ends : Held(d, "queue")' = Held(d, "queue") /\ Held(d, "service")' = Held(d, "service")
      /\ \A d \in Ends : Distinct(wire'[d]) /\ Distinct(sendQueue'[d])
  BY <1>2, <1>3, Remain DEF PlaceInv, Unique, Takes
<1>8. /\ \A d \in Ends, k \in Kinds : \A g \in Held(d, k)' : g \in Held(d, k) /\ g.call # f.call
      /\ \A d \in Ends, k \in Kinds : \A g \in Held(d, k) : g \in Held(d, k)' \/ g.call = f.call
  BY <1>3, <1>7 DEF Kinds, Takes
<1>9. f.call \in Calls /\ executed[f.call] \in {0, 1}
  BY <1>3 DEF PlaceInv, FrameInv, Takes
<1> QED
  BY <1>2, <1>5, <1>6, <1>7, <1>8, <1>9, WholeBefore, StepOfCall

(* A one-way request ends with the greenlet, or is dropped; a request that *)
(* cannot be parsed is dropped, any other is served.                       *)
LEMMA RequestPlaces ==
  ASSUME IInv, PlaceInv, [Next]_vars, NEW e \in Ends, HandleNotify(e) \/ HandleRequest(e)
  PROVE  PlaceInv'
<1>1. PICK f : f = Head(wire[e])
  OBVIOUS
<1>2. /\ wire[e] # <<>> /\ wire' = [wire EXCEPT ![e] = Tail(@)] /\ f.stub /\ serving[e] = None
      /\ UNCHANGED <<sendQueue, callVars>>
  BY <1>1 DEF HandleNotify, HandleRequest, RequestArrives, Receiving
<1>3. Takes(e, f)
  BY <1>1, <1>2, Taken
<1>4. /\ \A d \in Ends : Held(d, "queue")' = Held(d, "queue")
      /\ \A d \in Ends : Distinct(wire'[d]) /\ Distinct(sendQueue'[d])
      /\ UNCHANGED <<outcome, pendingRequest>>
  BY <1>2, <1>3, Remain DEF PlaceInv, Unique, Takes, callVars
<1>5. f.call \in Calls /\ outcome[f.call] # "idle" /\ executed[f.call] = 0
  BY <1>2, <1>3 DEF Takes, FrameOK
<1>6. CASE UNCHANGED <<serving, executed>> /\ f.call \in Notify \cup Unreadable
  <2>1. /\ \A d \in Ends, k \in Kinds : \A g \in Held(d, k)' : g \in Held(d, k) /\ g.call # f.call
        /\ \A d \in Ends, k \in Kinds : \A g \in Held(d, k) : g \in Held(d, k)' \/ g.call = f.call
    BY <1>3, <1>4, <1>6, Remain DEF Kinds, Takes
  <2>2. f.call \in Notify => outcome[f.call] = "sent"
    BY <1>3 DEF Takes, FrameOK
  <2> QED
    BY <1>4, <1>5, <1>6, <2>1, <2>2, WholeBefore, StepOfCall
<1>7. CASE /\ serving' = [serving EXCEPT ![e] = f]
           /\ executed' = [executed EXCEPT ![f.call] = @ + 1]
           /\ f.call \notin Notify
  <2>1. /\ Held(e, "service")' = {f}
        /\ \A d \in Ends : d # e => Held(d, "service")' = Held(d, "service")
    <3>1. \A d \in Ends : serving'[d] = IF d = e THEN f ELSE serving[d]
      BY <1>7 DEF IInv, TypeOK
    <3>2. f # None
      BY <1>3, NoneAssumption DEF Takes
    <3> QED
      BY <3>1, <3>2 DEF Held
  <2>2. Held(e, "service") = {}
    BY <1>2 DEF Held
  <2>3. /\ \A d \in Ends, k \in Kinds : \A g \in Held(d, k)' :
             (g \in Held(d, k) /\ g.call # f.call) \/ (d = e /\ k = "service" /\ g = f)
        /\ \A d \in Ends, k \in Kinds : \A g \in Held(d, k) : g \in Held(d, k)' \/ g.call = f.call
    BY <1>3, <1>4, <2>1, <2>2 DEF Kinds, Takes
  <2>4. executed'[f.call] = 1 /\ \A d \in Calls \ {f.call} : executed'[d] = executed[d]
    <3>1. executed[f.call] + 1 = 1
      BY <1>5
    <3> QED
      BY <1>5, <1>7, <3>1 DEF IInv, TypeOK
  <2>5. FrameOK(e, "service", f)'
    BY <1>2, <1>3, <1>4, <1>7, <2>4 DEF Takes, FrameOK, Sender
  <2>6. f \in Held(e, "service")' /\ "service" \in Kinds
    BY <2>1 DEF Kinds
  <2> QED
    BY <1>4, <1>5, <2>3, <2>4, <2>5, <2>6, WholeBefore, StepOfCall
<1> QED
  <2>1. CASE HandleNotify(e)
    BY <1>1, <1>6, <2>1 DEF HandleNotify
  <2>2. CASE HandleRequest(e)
    BY <1>1, <1>6, <1>7, <2>2 DEF HandleRequest
  <2> QED
    BY <2>1, <2>2

Answer(f, failed) == [f EXCEPT !.stub = FALSE, !.failed = failed]

LEMMA AnswerFields ==
  ASSUME NEW f \in Frame, NEW failed \in BOOLEAN
  PROVE  /\ Answer(f, failed) \in Frame
         /\ Answer(f, failed).call = f.call /\ Answer(f, failed).id = f.id
         /\ Answer(f, failed).stub = FALSE /\ Answer(f, failed).failed = failed
BY DEF Frame, Answer

(* An answer takes the place of its request.                               *)
LEMMA AnswerPlaces ==
  ASSUME IInv, PlaceInv, QueueOutlivesGreenlets, [Next]_vars, NEW e \in Ends,
         RejectRequest(e) \/ ServiceReturns(e)
  PROVE  PlaceInv'
<1>1. UNCHANGED <<callVars, executed>> /\ "recv" \in greenlets[e]
  BY DEF RejectRequest, ServiceReturns, RequestArrives, Receiving
<1>2. registered[e]
  BY <1>1 DEF QueueOutlivesGreenlets
<1>3. PICK f \in Frame, k \in {"wire", "service"}, failed \in BOOLEAN :
        /\ f \in Held(e, k) /\ f.call \notin Notify /\ f.stub
        /\ Put(e, Answer(f, failed)) /\ (~failed => executed[f.call] = 1)
        /\ \A d \in Ends, l \in {"wire", "service"} : Held(d, l)' = {g \in Held(d, l) : g.call # f.call}
        /\ \A d \in Ends : Distinct(wire'[d])
  <2>1. CASE RejectRequest(e)
    <3>1. /\ wire[e] # <<>> /\ wire' = [wire EXCEPT ![e] = Tail(@)] /\ UNCHANGED serving
          /\ Head(wire[e]).stub /\ Head(wire[e]).call \notin Notify
          /\ Put(e, Answer(Head(wire[e]), TRUE))
      BY <1>2, <2>1 DEF RejectRequest, RequestArrives, SendResponse, Answer
    <3>2. PICK f : f = Head(wire[e])
      OBVIOUS
    <3>3. Takes(e, f)
      BY <3>1, <3>2, Taken
    <3>4. \A d \in Ends : Held(d, "service")' = {g \in Held(d, "service") : g.call # f.call}
      <4>1. \A d \in Ends : Held(d, "service")' = Held(d, "service")
        BY <3>1, Remain
      <4>2. \A d \in Ends : \A g \in Held(d, "service") : g.call # f.call
        BY <3>3 DEF Takes, Kinds
      <4> QED
        BY <4>1, <4>2
    <3>5. /\ f \in Frame /\ f \in Held(e, "wire") /\ f.call \notin Notify /\ f.stub
          /\ Put(e, Answer(f, TRUE))
          /\ \A d \in Ends : Held(d, "wire")' = {g \in Held(d, "wire") : g.call # f.call}
          /\ \A d \in Ends : Distinct(wire'[d])
      BY <3>1, <3>2, <3>3 DEF Takes
    <3> QED
      BY <3>4, <3>5
  <2>2. CASE ServiceReturns(e)
    <3>1. PICK f : f = serving[e]
      OBVIOUS
    <3>2. PICK failed \in BOOLEAN : Put(e, Answer(f, failed))
      <4>1. PICK failed \in BOOLEAN : SendResponse(e, f, failed)
        BY <2>2, <3>1 DEF ServiceReturns
      <4> QED
        BY <1>2, <4>1, Zenon DEF SendResponse, Answer
    <3>3. /\ f # None /\ UNCHANGED wire
          /\ \A d \in Ends : serving'[d] = IF d = e THEN None ELSE serving[d]
      BY <2>2, <3>1 DEF ServiceReturns, IInv, TypeOK
    <3>4. f \in Held(e, "service") /\ f \in Frame /\ "service" \in Kinds /\ "wire" \in Kinds
      BY <3>1, <3>3 DEF Held, IInv, TypeOK, Kinds
    <3>5. f.stub /\ f.call \notin Notify /\ executed[f.call] = 1
      BY <3>4 DEF PlaceInv, FrameInv, FrameOK
    <3>6. \A d \in Ends, k \in Kinds : \A g \in Held(d, k) : g.call = f.call => d = e /\ k = "service"
      BY <3>4 DEF PlaceInv, Unique
    <3>7. \A d \in Ends : Held(d, "wire")' = {g \in Held(d, "wire") : g.call # f.call}
      <4>1. \A d \in Ends : Held(d, "wire")' = Held(d, "wire")
        BY <3>3, Remain
      <4>2. \A d \in Ends : \A g \in Held(d, "wire") : g.call # f.call
        BY <3>4, <3>6
      <4> QED
        BY <4>1, <4>2
    <3>8. \A d \in Ends : Held(d, "service")' = {g \in Held(d, "service") : g.call # f.call}
      <4>1. Held(e, "service")' = {} /\ Held(e, "service") = {f}
        BY <3>1, <3>3 DEF Held
      <4>2. \A d \in Ends : d # e => Held(d, "service")' = Held(d, "service")
        BY <3>3 DEF Held
      <4>3. \A d \in Ends : d # e => \A g \in Held(d, "service") : g.call # f.call
        BY <3>4, <3>6
      <4> QED
        BY <4>1, <4>2, <4>3
    <3>9. \A d \in Ends : Distinct(wire'[d])
      BY <3>3 DEF PlaceInv, Unique
    <3> QED
      BY <3>2, <3>4, <3>5, <3>7, <3>8, <3>9
  <2> QED
    BY <2>1, <2>2
<1>4. PICK h \in Frame : /\ Put(e, h)
                         /\ h.call = f.call /\ h.id = f.id /\ ~h.stub /\ h.failed = failed
  BY <1>3, AnswerFields
<1>5. /\ k \in Kinds /\ f.call \in Calls /\ FrameOK(e, k, f)
      /\ \A d \in Ends, l \in Kinds : \A g \in Held(d, l) : g.call = f.call => d = e /\ l = k
  <2>1. k \in Kinds
    BY DEF Kinds
  <2> QED
    BY <1>3, <2>1, HeldFrames DEF PlaceInv, FrameInv, Unique
<1>6. /\ Held(e, "queue")' = Held(e, "queue") \cup {h}
      /\ \A d \in Ends : d # e => Held(d, "queue")' = Held(d, "queue")
      /\ \A d \in Ends : Distinct(sendQueue'[d])
  <2>1. \A g \in Held(e, "queue") : g.call # h.call
    BY <1>4, <1>5 DEF Kinds
  <2> QED
    BY <1>4, <2>1, Queued DEF PlaceInv
<1>7. /\ \A d \in Ends, l \in Kinds : \A g \in Held(d, l)' :
           (g \in Held(d, l) /\ g.call # f.call) \/ (d = e /\ l = "queue" /\ g = h)
      /\ \A d \in Ends, l \in Kinds : \A g \in Held(d, l) : g \in Held(d, l)' \/ g.call = f.call
  BY <1>3, <1>5, <1>6 DEF Kinds
<1>8. FrameOK(e, "queue", h)'
  BY <1>1, <1>3, <1>4, <1>5, PeerFacts DEF FrameOK, Sender, callVars
<1>9. /\ UNCHANGED <<outcome, pendingRequest, executed>>
      /\ executed[f.call] \in {0, 1} /\ (outcome[f.call] = "idle" => executed[f.call] = 0)
  BY <1>1, <1>5 DEF PlaceInv, FrameInv, callVars
<1>10. h \in Held(e, "queue")' /\ "queue" \in Kinds
  BY <1>6 DEF Kinds
<1>11. \A d \in Ends : Distinct(wire'[d]) /\ Distinct(sendQueue'[d])
  BY <1>3, <1>6
<1> QED
  BY <1>4, <1>5, <1>7, <1>8, <1>9, <1>10, <1>11, WholeBefore, StepOfCall

LEMMA PlaceInvStep == IInv /\ QueueOutlivesGreenlets /\ PlaceInv /\ [Next]_vars => PlaceInv'
<1> SUFFICES ASSUME IInv, QueueOutlivesGreenlets, PlaceInv, [Next]_vars
             PROVE  PlaceInv'
  OBVIOUS
<1>1. CASE UNCHANGED vars
  <2>1. UNCHANGED <<wire, sendQueue, serving, outcome, pendingRequest, executed, greenlets>>
    BY <1>1 DEF vars, transportVars, callVars, sockVars
  <2>2. \A e \in Ends, k \in Kinds : Held(e, k)' = Held(e, k)
    BY <2>1, Remain DEF Kinds
  <2>3. Unique'
    BY <2>1, <2>2 DEF PlaceInv, Unique
  <2>4. FrameInv'
    BY <2>1, <2>2 DEF PlaceInv, FrameInv, FrameOK, Sender
  <2>5. NotLost'
    BY <2>1, <2>2 DEF PlaceInv, NotLost, Whole
  <2> QED
    BY <2>3, <2>4, <2>5 DEF PlaceInv
<1> QED
  BY <1>1, CallPlaces, WritePlaces, DownPlaces, ResponsePlaces, RequestPlaces, AnswerPlaces
  DEF Next, Receive, Terminated

LEMMA PlaceInvCorrect == Spec => []PlaceInv
<1>1. Init => PlaceInv
  <2> SUFFICES ASSUME Init PROVE PlaceInv
    OBVIOUS
  <2>1. \A e \in Ends, k \in Kinds : Held(e, k) = {}
    BY DEF Init, Held, Kinds, Elems
  <2>2. \A e \in Ends : Distinct(wire[e]) /\ Distinct(sendQueue[e])
    BY DEF Init, Distinct
  <2> QED
    BY <2>1, <2>2 DEF Init, PlaceInv, Unique, FrameInv, NotLost
<1> QED
  BY <1>1, PlaceInvStep, IInvCorrect, QueuesOutliveGreenlets, PTL DEF Spec

-----------------------------------------------------------------------------
LEMMA DistinctConcat ==
  ASSUME NEW s \in Seq(Frame), NEW t \in Seq(Frame), Distinct(s), Distinct(t),
         \A f \in Elems(s), g \in Elems(t) : f.call # g.call
  PROVE  /\ Distinct(s \o t) /\ DOMAIN (s \o t) = 1..Len(s \o t)
         /\ Elems(s \o t) = Elems(s) \cup Elems(t)
<1>1. /\ Len(s \o t) = Len(s) + Len(t)
      /\ Len(s) \in Nat /\ Len(t) \in Nat
      /\ \A i \in 1..Len(s) + Len(t) : (s \o t)[i] = IF i <= Len(s) THEN s[i] ELSE t[i - Len(s)]
      /\ DOMAIN (s \o t) = 1..Len(s \o t)
  BY ConcatProperties, LenProperties
<1>2. \A i \in 1..Len(s) + Len(t) :
        \/ i \in 1..Len(s) /\ (s \o t)[i] = s[i]
        \/ i - Len(s) \in 1..Len(t) /\ (s \o t)[i] = t[i - Len(s)]
  BY <1>1
<1>3. \A i, j \in 1..Len(s) + Len(t) : i - Len(s) = j - Len(s) => i = j
  BY <1>1
<1>4. Distinct(s \o t)
  <2> SUFFICES ASSUME NEW i \in 1..Len(s) + Len(t), NEW j \in 1..Len(s) + Len(t),
                      (s \o t)[i].call = (s \o t)[j].call
               PROVE  i = j
    BY <1>1 DEF Distinct
  <2> DEFINE k == i - Len(s)
             l == j - Len(s)
  <2>1. /\ \/ i \in 1..Len(s) /\ (s \o t)[i] = s[i]
           \/ k \in 1..Len(t) /\ (s \o t)[i] = t[k]
        /\ \/ j \in 1..Len(s) /\ (s \o t)[j] = s[j]
           \/ l \in 1..Len(t) /\ (s \o t)[j] = t[l]
    BY <1>2
  <2>3. k = l => i = j
    BY <1>3
  <2> HIDE DEF k, l
  <2>2. \A m \in 1..Len(s), n \in 1..Len(t) : s[m].call # t[n].call
    BY DEF Elems
  <2> QED
    BY <2>1, <2>2, <2>3 DEF Distinct
<1>5. Elems(s \o t) \subseteq Elems(s) \cup Elems(t)
  BY <1>1, <1>2 DEF Elems
<1>6. Elems(s) \subseteq Elems(s \o t)
  BY <1>1 DEF Elems
<1>7. Elems(t) \subseteq Elems(s \o t)
  <2>1. \A i \in 1..Len(t) : i + Len(s) \in 1..Len(s) + Len(t) /\ (s \o t)[i + Len(s)] = t[i]
    BY <1>1
  <2> QED
    BY <1>1, <2>1 DEF Elems
<1> QED
  BY <1>1, <1>4, <1>5, <1>6, <1>7

(* The places of the requests and answers of a call, as the property       *)
(* counts them.                                                            *)
LEMMA TravellingFrames ==
  ASSUME IInv, PlaceInv, NEW e \in Ends
  PROVE  /\ Distinct(Travelling(e)) /\ DOMAIN Travelling(e) = 1..Len(Travelling(e))
         /\ Elems(Travelling(e)) = Held(Peer[e], "wire") \cup Held(e, "queue")
<1>1. Peer[e] \in Ends /\ wire[Peer[e]] \in Seq(Frame) /\ sendQueue[e] \in Seq(Frame)
  BY PeerFacts DEF IInv, TypeOK
<1>2. Held(Peer[e], "wire") = Elems(wire[Peer[e]]) /\ Held(e, "queue") = Elems(sendQueue[e])
  BY DEF Held
<1>3. \A f \in Held(Peer[e], "wire"), g \in Held(e, "queue") : f.call # g.call
  BY <1>1 DEF PlaceInv, Unique, Kinds
<1>4. Distinct(wire[Peer[e]]) /\ Distinct(sendQueue[e])
  BY <1>1 DEF PlaceInv, Unique
<1> QED
  BY <1>1, <1>2, <1>3, <1>4, DistinctConcat DEF Travelling

LEMMA OneCopy ==
  ASSUME IInv, PlaceInv, NEW c \in Calls, NEW e \in Ends, NEW k \in Kinds, NEW f \in Held(e, k), f.call = c
  PROVE  Copies(c) = 1
<1> DEFINE places == {p \in UNION {{d} \X DOMAIN Travelling(d) : d \in Ends} :
                        Travelling(p[1])[p[2]].call = c}
           services == {d \in Ends : serving[d] # None /\ serving[d].call = c}
<1>1. \A d \in Ends, l \in Kinds : \A g \in Held(d, l) : g.call = c => d = e /\ l = k
  BY DEF PlaceInv, Unique
<1>2. /\ \A d \in Ends : Held(d, "service") = {serving[d]} \ {None}
      /\ "service" \in Kinds /\ "wire" \in Kinds /\ "queue" \in Kinds
  BY DEF Held, Kinds
<1>3. \A p \in places : /\ p[1] \in Ends /\ p[2] \in 1..Len(Travelling(p[1])) /\ p = <<p[1], p[2]>>
                        /\ Travelling(p[1])[p[2]].call = c
                        /\ Travelling(p[1])[p[2]] \in Held(Peer[p[1]], "wire") \cup Held(p[1], "queue")
  <2> SUFFICES ASSUME NEW p \in places
               PROVE  /\ p[1] \in Ends /\ p[2] \in 1..Len(Travelling(p[1])) /\ p = <<p[1], p[2]>>
                      /\ Travelling(p[1])[p[2]].call = c
                      /\ Travelling(p[1])[p[2]] \in Held(Peer[p[1]], "wire") \cup Held(p[1], "queue")
    OBVIOUS
  <2>1. PICK d \in Ends : p \in {d} \X DOMAIN Travelling(d)
    OBVIOUS
  <2>2. p[1] = d /\ p[2] \in DOMAIN Travelling(d) /\ p = <<p[1], p[2]>>
    BY <2>1
  <2>3. p[2] \in 1..Len(Travelling(d)) /\ Travelling(d)[p[2]] \in Elems(Travelling(d))
    BY <2>2, TravellingFrames DEF Elems
  <2>4. Travelling(d)[p[2]] \in Held(Peer[d], "wire") \cup Held(d, "queue")
    BY <2>3, TravellingFrames
  <2> QED
    BY <2>2, <2>3, <2>4
<1>4. ASSUME NEW d \in Ends, NEW i \in 1..Len(Travelling(d)), Travelling(d)[i].call = c
      PROVE  <<d, i>> \in places
  <2>1. <<d, i>> \in {d} \X DOMAIN Travelling(d)
    BY TravellingFrames
  <2> QED
    BY <1>4, <2>1
<1>5. Copies(c) = Cardinality(places) + Cardinality(services)
  BY DEF Copies
<1> HIDE DEF places
<1>6. CASE k = "service"
  <2>1. services = {e}
    BY <1>1, <1>2, <1>6
  <2>2. places = {}
    <3> SUFFICES ASSUME NEW p \in places PROVE FALSE
      OBVIOUS
    <3> QED
      BY <1>1, <1>2, <1>3, <1>6, PeerFacts
  <2> HIDE DEF services
  <2>3. Cardinality(services) = 1 /\ Cardinality(places) = 0
    BY <2>1, <2>2, FS_EmptySet, FS_Singleton
  <2> QED
    BY <1>5, <2>3
<1>7. CASE k # "service"
  <2>1. services = {}
    BY <1>1, <1>2, <1>7
  <2>2. PICK d \in Ends : f \in Held(Peer[d], "wire") \cup Held(d, "queue")
    BY <1>7, PeerFacts DEF Kinds
  <2>3. PICK i \in 1..Len(Travelling(d)) : f = Travelling(d)[i]
    BY <2>2, TravellingFrames DEF Elems
  <2>4. <<d, i>> \in places
    BY <1>4, <2>3
  <2>5. ASSUME NEW p \in places
        PROVE  p = <<d, i>>
    <3>1. PICK g : g = Travelling(p[1])[p[2]]
      OBVIOUS
    <3>2. /\ p[1] \in Ends /\ g.call = c
          /\ g \in Held(Peer[p[1]], "wire") \cup Held(p[1], "queue")
      BY <1>3, <3>1
    <3>3. p[1] = d
      BY <1>1, <1>2, <2>2, <3>2, PeerFacts
    <3>4. p[2] = i
      BY <1>3, <2>3, <3>1, <3>2, <3>3, TravellingFrames DEF Distinct
    <3> QED
      BY <1>3, <3>3, <3>4
  <2>6. places = {<<d, i>>}
    BY <2>4, <2>5
  <2> HIDE DEF services
  <2>7. Cardinality(places) = 1
    BY <2>6, FS_Singleton
  <2>8. Cardinality(services) = 0
    BY <2>1, FS_EmptySet
  <2> QED
    BY <1>5, <2>7, <2>8
<1> QED
  BY <1>6, <1>7

(* While the connection is whole the request or the answer of a caller     *)
(* that waits is in one place, in a queue, on the wire or at the service.  *)
THEOREM NoCallIsLost == Spec => []NoLostCall
<1>1. IInv /\ PlaceInv => NoLostCall
  <2> SUFFICES ASSUME IInv, PlaceInv, NEW c \in Calls \ Unreadable, Whole, outcome[c] = "pending"
               PROVE  Copies(c) = 1
    BY DEF NoLostCall
  <2>1. PICK e \in Ends, k \in Kinds : \E f \in Held(e, k) : f.call = c
    BY DEF PlaceInv, NotLost
  <2> QED
    BY <2>1, OneCopy
<1> QED
  BY <1>1, IInvCorrect, PlaceInvCorrect, PTL

-----------------------------------------------------------------------------
(* What the channel does is what RpcCalls allows                           *)

PromiseVars == <<[e \in Ends |-> TRUE], outcome, executed>>

LEMMA StepKeepsPromise ==
  ASSUME IInv, PlaceInv, [Next]_vars
  PROVE  [Promise!Next]_PromiseVars
<1>1. CASE UNCHANGED <<outcome, executed>>
  BY <1>1 DEF PromiseVars
<1>2. ASSUME NEW c \in Calls, CallDisconnected(c) \/ SendRequest(c) \/ SendNotify(c)
      PROVE  Promise!Begin(c)
  <2>1. outcome[c] = "idle" /\ UNCHANGED executed /\ Owner[c] \in Ends
    BY <1>2, OwnerEnds DEF CallDisconnected, SendRequest, SendNotify
  <2>2. \/ outcome' = [outcome EXCEPT ![c] = "pending"]
        \/ outcome' = [outcome EXCEPT ![c] = "sent"] /\ c \in Notify
        \/ outcome' = [outcome EXCEPT ![c] = "failed"]
    BY <1>2 DEF CallDisconnected, SendRequest, SendNotify
  <2> QED
    BY <2>1, <2>2 DEF Promise!Begin
<1>3. ASSUME NEW e \in Ends, HandleResponse(e)
      PROVE  UNCHANGED <<outcome, executed>> \/ \E c \in Calls, o \in {"replied", "failed"} : Promise!Finish(c, o)
  <2>1. PICK f : f = Head(wire[e])
    OBVIOUS
  <2>2. /\ f.call \in Calls /\ outcome[f.call] = "pending" /\ f.call \notin Notify
        /\ ~f.failed => executed[f.call] = 1
    BY <1>3, <2>1, AnswerEnds
  <2>3. PICK ends \in SUBSET {f.call} : Wake(e, f, ends)
    BY <1>3, <2>1, AnswerEnds
  <2>4. UNCHANGED executed
    BY <1>3 DEF HandleResponse
  <2> DEFINE o == IF f.failed THEN "failed" ELSE "replied"
  <2>5. outcome \in [Calls -> Outcomes]
    BY DEF IInv, TypeOK, Outcomes
  <2>6. outcome' = [d \in Calls |-> IF d \notin ends THEN outcome[d] ELSE o]
    BY <2>3 DEF Wake
  <2>7. CASE ends = {}
    BY <2>4, <2>5, <2>6, <2>7
  <2>8. CASE ends # {}
    <3>1. ends = {f.call}
      BY <2>8
    <3>2. outcome' = [outcome EXCEPT ![f.call] = o]
      BY <2>2, <2>5, <2>6, <3>1
    <3>3. Promise!Finish(f.call, o)
      BY <2>2, <2>4, <3>2 DEF Promise!Finish
    <3> QED
      BY <2>2, <3>3
  <2> QED
    BY <2>7, <2>8
<1>4. ASSUME NEW e \in Ends, HandleRequest(e)
      PROVE  UNCHANGED <<outcome, executed>> \/ \E c \in Calls : Promise!Execute(c)
  <2>1. PICK f : f = Head(wire[e])
    OBVIOUS
  <2>2. wire[e] # <<>> /\ wire' = [wire EXCEPT ![e] = Tail(@)] /\ f.stub /\ UNCHANGED outcome
    BY <1>4, <2>1 DEF HandleRequest, RequestArrives, callVars
  <2>3. f.call \in Calls /\ outcome[f.call] # "idle" /\ executed[f.call] = 0
    <3>1. Takes(e, f)
      BY <2>1, <2>2, Taken
    <3> QED
      BY <2>2, <3>1 DEF Takes, FrameOK
  <2>4. UNCHANGED executed \/ executed' = [executed EXCEPT ![f.call] = @ + 1]
    BY <1>4, <2>1 DEF HandleRequest
  <2>5. executed[f.call] + 1 = 1
    BY <2>3
  <2>6. UNCHANGED executed \/ executed' = [executed EXCEPT ![f.call] = 1]
    BY <2>4, <2>5
  <2> QED
    BY <2>2, <2>3, <2>6 DEF Promise!Execute
<1>5. ASSUME NEW e \in Ends,
             \/ Write(e) \/ WriteFails(e) \/ HandleNotify(e) \/ RejectRequest(e) \/ EndOfStream(e)
             \/ ReceiveFails(e) \/ ServiceReturns(e) \/ ServiceRaises(e) \/ Kill(e) \/ CloseSock(e)
      PROVE  UNCHANGED <<outcome, executed>>
  BY <1>5 DEF Write, WriteFails, HandleNotify, RejectRequest, EndOfStream, ReceiveFails, ServiceReturns,
              ServiceRaises, Kill, CloseSock, callVars
<1>6. \/ UNCHANGED <<outcome, executed>>
      \/ \E c \in Calls : Promise!Begin(c) \/ Promise!Execute(c)
      \/ \E c \in Calls, o \in {"replied", "failed"} : Promise!Finish(c, o)
  <2>1. CASE UNCHANGED vars \/ Terminated
    BY <2>1 DEF vars, callVars, Terminated
  <2>2. CASE Next /\ ~Terminated
    BY <1>2, <1>3, <1>4, <1>5, <2>2 DEF Next, Receive
  <2> QED
    BY <2>1, <2>2
<1> QED
  BY <1>6 DEF PromiseVars, Promise!Next

(* Every behaviour of the two ends, with all their greenlets, queues and   *)
(* ids, is one that RpcCalls allows on a connection that nobody cancels.   *)
THEOREM KeepsThePromise == Spec => ImplementsRpcCalls
<1>1. Init => Promise!Init
  BY DEF Init, Promise!Init
<1>2. [Promise!Next]_PromiseVars => [Promise!Next]_Promise!vars
  BY DEF PromiseVars, Promise!vars
<1> QED
  BY <1>1, <1>2, StepKeepsPromise, IInvCorrect, PlaceInvCorrect, PTL
  DEF Spec, ImplementsRpcCalls, Promise!Spec

=============================================================================
